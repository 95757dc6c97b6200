------------------------------- MODULE Driver -------------------------------
(***************************************************************************)
(* A run of the compiler: main of runner.c from the command line to the    *)
(* exit status, the scanner of compiler.lex, which keeps the text of the   *)
(* line for the annotated source, and the parser as far as it asks for     *)
(* tokens and reports errors.  Scanner and parser take turns: errors are   *)
(* reported between two tokens and written at the end of a line, which the *)
(* scanner reaches while it looks for the parser's next token.             *)
(*                                                                         *)
(* Which tokens the grammar accepts, and where a reduction finds a type    *)
(* error, is left open: the parser shifts any token or rejects it.         *)
(***************************************************************************)
EXTENDS Integers, Sequences, SequencesExt

CONSTANTS
    CommandLines, \* sequences of arguments
    Inputs,       \* sequences of what the scanner matches, see Symbols
    LineSize,     \* bytes of line_buf, 2048
    ErrLines,     \* lines of err_buf where it is defined, 10
    TypeLines,    \* lines of err_buf the type checker believes in, 20
    MaxReports    \* bound on the errors of a program

OutputFlags == {"-tok", "-st", "-asc", "-ir", "-cg"}
Flags == OutputFlags \union {"-tc", "-debug"}
Paths == {"program", "missing"}
Symbols == {"token", "blank", "(*", "*)", "newline"}

ASSUME DriverAssumption ==
    /\ CommandLines \subseteq Seq(Flags \union {"-help", "-unknown"} \union Paths)
    /\ Inputs \subseteq Seq(Symbols)
    /\ LineSize \in Nat /\ ErrLines \in Nat \ {0} /\ TypeLines \in Nat /\ MaxReports \in Nat

VARIABLES
    argv, source_path, flags,
    phase,          \* how far main is, "undefined" after a step C gives no meaning
    status,         \* what main returns
    input,          \* what is left of the input
    inComment,      \* the scanner's start condition
    yylineno, columnNumber,
    line_buf,       \* the text of the line so far
    lookahead,      \* "none" while the scanner looks for the parser's next token
    recovering,     \* where the parser looks for a way on after an error
    yyerrstatus,    \* tokens to shift before a syntax error is reported again
    err_buf,
    error_reported, cgFlag,
    asc_file, files, \* the .asc file's lines, and the files opened
    \* what was promised (not in the program)
    reported,       \* every error in order: [kind, line, buffered, atEnd]
    source          \* the whole input

arguments == <<argv, source_path, flags>>
scanner == <<input, inComment, yylineno, columnNumber, line_buf, asc_file>>
parser == <<lookahead, recovering, yyerrstatus>>
errors == <<err_buf, error_reported, cgFlag, reported>>
vars == <<arguments, phase, status, scanner, parser, errors, files, source>>

Init ==
    /\ argv \in CommandLines /\ source_path = "NULL" /\ flags = {}
    /\ phase = "arguments" /\ status = 0
    /\ input \in Inputs /\ source = input /\ inComment = FALSE
    /\ yylineno = 1 /\ columnNumber = 1 /\ line_buf = <<>>
    /\ lookahead = "none" /\ recovering = "no" /\ yyerrstatus = 0
    /\ err_buf = <<>> /\ error_reported = FALSE /\ cgFlag = TRUE /\ reported = <<>>
    /\ asc_file = <<>> /\ files = {}

Return(s) == phase' = "returned" /\ status' = s
GoOn(p) == phase' = p /\ UNCHANGED status

-----------------------------------------------------------------------------
(* The command line                                                        *)

\* Each argument in turn; the first path is the source, later ones are ignored.
NextArgument ==
    /\ phase = "arguments" /\ argv # <<>>
    /\ LET arg == Head(argv)
       IN  \/ /\ arg \in Flags
              /\ flags' = flags \union {arg} /\ UNCHANGED source_path /\ GoOn(phase)
           \/ /\ arg \in Paths
              /\ source_path' = IF source_path = "NULL" THEN arg ELSE source_path
              /\ UNCHANGED flags /\ GoOn(phase)
           \/ arg = "-help" /\ Return(0) /\ UNCHANGED <<flags, source_path>>
           \/ arg = "-unknown" /\ Return(1) /\ UNCHANGED <<flags, source_path>>
    /\ argv' = Tail(argv)
    /\ UNCHANGED <<scanner, parser, errors, files, source>>

OpenSource ==
    /\ phase = "arguments" /\ argv = <<>>
    /\ IF source_path = "missing" THEN Return(1) ELSE GoOn("open")
    /\ UNCHANGED <<arguments, scanner, parser, errors, files, source>>

\* The names of the outputs are made from source_filename, which is NULL when
\* the program is read from stdin: its length has no value.
Nameless == source_path = "NULL"

\* -tok and -asc are opened before the parse; either may fail.
OpenOutputs ==
    LET wanted == flags \intersect {"-tok", "-asc"}
    IN  /\ phase = "open"
        /\ \/ wanted # {} /\ Nameless /\ GoOn("undefined") /\ UNCHANGED files
           \/ /\ wanted = {} \/ ~Nameless
              /\ files' = files \union wanted /\ GoOn("parse")
           \/ /\ ~Nameless
              /\ \E f \in wanted : files' = IF f = "-tok" THEN {} ELSE wanted \ {f}
              /\ Return(1)
        /\ UNCHANGED <<arguments, scanner, parser, errors, source>>

-----------------------------------------------------------------------------
(* compiler.lex                                                            *)

\* A mistake the invariants rule out: the errors wait for the next flush.
asc_KeepsErrors(lino, text) ==
    /\ asc_file' = IF "-asc" \in files
                   THEN Append(asc_file, [lino |-> lino, text |-> text, errors |-> err_buf])
                   ELSE asc_file
    /\ UNCHANGED err_buf /\ line_buf' = <<>> /\ columnNumber' = 1

\* The line and its errors go to the .asc file; both are forgotten either way.
asc(lino, text) ==
    /\ asc_file' = IF "-asc" \in files
                   THEN Append(asc_file, [lino |-> lino, text |-> text, errors |-> err_buf])
                   ELSE asc_file
    /\ err_buf' = <<>> /\ line_buf' = <<>> /\ columnNumber' = 1

yyleng(s) == IF s \in {"(*", "*)"} THEN 2 ELSE 1

\* A mistake the invariants rule out: the text of comments is not kept.
Matched_NoComments(s) == IF inComment THEN line_buf ELSE Append(line_buf, s)

\* YY_USER_ACTION, which runs for every match.
Matched(s) == Append(line_buf, s)

\* strcat to line_buf asks for no room: the text and its NUL may be too long.
Overruns(text) == SumFunction([k \in DOMAIN text |-> yyleng(text[k])]) >= LineSize

Copies(text) == GoOn(IF Overruns(text) THEN "undefined" ELSE phase)

yylex == phase = "parse" /\ lookahead = "none"

\* A match within a line.  Comments and blanks are no tokens.
Match ==
    /\ yylex /\ input # <<>> /\ Head(input) # "newline"
    /\ LET s == Head(input)
           opens == ~inComment /\ s = "(*"
       IN  /\ Copies(Matched(s)) /\ line_buf' = Matched(s)
           /\ columnNumber' = columnNumber + yyleng(s) + IF opens THEN yyleng(s) ELSE 0
           /\ inComment' = IF inComment THEN s # "*)" ELSE opens
           /\ lookahead' = IF inComment \/ s \in {"blank", "(*"} THEN "none" ELSE "token"
    /\ input' = Tail(input)
    /\ UNCHANGED <<arguments, yylineno, recovering, yyerrstatus, errors, asc_file, files, source>>

Newline ==
    /\ yylex /\ input # <<>> /\ Head(input) = "newline"
    /\ yylineno' = yylineno + 1
    /\ Copies(Matched("newline")) /\ asc(yylineno' - 1, Matched("newline"))
    /\ input' = Tail(input)
    /\ UNCHANGED <<arguments, inComment, parser, error_reported, cgFlag, reported, files, source>>

\* The last line, when it has no newline of its own.
EndOfFile ==
    /\ yylex /\ input = <<>>
    /\ IF line_buf # <<>>
       THEN Copies(Append(line_buf, "newline")) /\ asc(yylineno, Append(line_buf, "newline"))
       ELSE GoOn(phase) /\ UNCHANGED <<asc_file, err_buf, line_buf, columnNumber>>
    /\ lookahead' = "end"
    /\ UNCHANGED <<arguments, input, inComment, yylineno, recovering, yyerrstatus,
                   error_reported, cgFlag, reported, files, source>>

-----------------------------------------------------------------------------
(* Reporting.  The parser has its lookahead when it reports; the reductions  *)
(* it makes without one follow the shift of a token, before anything else is *)
(* matched, and are those just before that shift here.                       *)

\* A mistake the invariants rule out: the last line is used twice over.
Fits_OnePast == Len(err_buf) <= ErrLines

Fits == Len(err_buf) < ErrLines

\* An error with a line of err_buf or without one; there is no line to write
\* to past ErrLines.
Report(kind, buffered) ==
    LET e == [kind |-> kind, line |-> yylineno, buffered |-> buffered,
              atEnd |-> lookahead = "end"]
    IN  /\ Len(reported) < MaxReports
        /\ reported' = Append(reported, e)
        /\ IF buffered /\ ~Fits
           THEN GoOn("undefined") /\ UNCHANGED err_buf
           ELSE GoOn(phase) /\ err_buf' = IF buffered THEN Append(err_buf, e) ELSE err_buf

\* A mistake the invariants rule out: only the IR is told.
StopTranslation_IROnly == error_reported' = TRUE /\ UNCHANGED cgFlag

\* report_error_ir and report_error_cg.
StopTranslation == error_reported' = TRUE /\ cgFlag' = FALSE

report_type_error ==
    /\ phase = "parse" /\ lookahead # "none"
    /\ Report("type", "-tc" \in flags /\ Len(err_buf) < TypeLines)
    /\ StopTranslation
    /\ UNCHANGED <<arguments, scanner, parser, files, source>>

\* A redefinition or a name that is not defined.
StructuralError ==
    /\ phase = "parse" /\ lookahead # "none"
    /\ Report("structural", TRUE)
    /\ UNCHANGED <<arguments, scanner, parser, error_reported, cgFlag, files, source>>

\* The parser goes back to a state with an error production: one of a list
\* inside a function, or that of the list of definitions.
SyntaxError ==
    /\ phase = "parse" /\ lookahead # "none" /\ yyerrstatus < 3
    /\ IF yyerrstatus = 0
       THEN Report("syntax", Fits) /\ StopTranslation
       ELSE GoOn(phase) /\ UNCHANGED errors
    /\ yyerrstatus' = 3
    /\ recovering' \in {"in list", "in definitions"}
    /\ UNCHANGED <<arguments, scanner, lookahead, files, source>>

-----------------------------------------------------------------------------
(* The parser bison makes of grammar.y                                     *)

\* A token the grammar accepts; a list taken up again after its semicolon may
\* say so at once (yyerrok).
Shift ==
    /\ phase = "parse" /\ lookahead = "token" /\ recovering # "in definitions"
    /\ lookahead' = "none" /\ recovering' = "no"
    /\ yyerrstatus' \in {0} \union (IF yyerrstatus > 0 THEN {yyerrstatus - 1} ELSE {})
    /\ UNCHANGED <<arguments, phase, status, scanner, errors, files, source>>

\* A mistake the liveness property rules out: the token in the way is kept.
Discarded_Kept == lookahead

Discarded == "none"

\* A token that is no way on after an error.
Discard ==
    /\ phase = "parse" /\ lookahead = "token" /\ recovering # "no"
    /\ lookahead' = Discarded
    /\ UNCHANGED <<arguments, phase, status, scanner, recovering, yyerrstatus, errors,
                   files, source>>

\* The end of the input.  An error where definitions are expected is all there
\* needs to be of a program.
ParseEnds ==
    /\ phase = "parse" /\ lookahead = "end"
    /\ phase' = "parsed" /\ status' = IF recovering = "in list" THEN 1 ELSE 0
    /\ UNCHANGED <<arguments, scanner, parser, errors, files, source>>

\* emit exits when the IR array is full.
Overflow ==
    /\ phase = "parse" /\ lookahead # "none" /\ ~error_reported
    /\ Return(1)
    /\ UNCHANGED <<arguments, scanner, parser, errors, files, source>>

-----------------------------------------------------------------------------
(* After the parse                                                         *)

\* A file that is written when its flag is given, unless it is held back.  Where
\* it cannot be opened the program exits.
WriteFile(before, after, flag, asked, held) ==
    /\ phase = before
    /\ \/ /\ ~asked \/ (~Nameless /\ held)
          /\ GoOn(after) /\ UNCHANGED files
       \/ asked /\ Nameless /\ GoOn("undefined") /\ UNCHANGED files
       \/ asked /\ ~Nameless /\ ~held /\ GoOn(after) /\ files' = files \union {flag}
       \/ asked /\ ~Nameless /\ ~held /\ Return(1) /\ UNCHANGED files
    /\ UNCHANGED <<arguments, scanner, parser, errors, source>>

WriteSymbolTable == WriteFile("parsed", "ir", "-st", "-st" \in flags, FALSE)

printIR == WriteFile("ir", "cg", "-ir", "-ir" \in flags, error_reported)

\* An operand that is not supported turns the code generator off.
generateAssembly ==
    /\ phase = "cg" /\ {"-cg", "-ir"} \subseteq flags /\ cgFlag
    /\ cgFlag' = FALSE
    /\ UNCHANGED <<arguments, phase, status, scanner, parser, err_buf, error_reported,
                   reported, files, source>>

printCG == WriteFile("cg", "close", "-cg", {"-cg", "-ir"} \subseteq flags, ~cgFlag)

Close ==
    /\ phase = "close" /\ Return(status)
    /\ UNCHANGED <<arguments, scanner, parser, errors, files, source>>

Next ==
    \/ NextArgument \/ OpenSource \/ OpenOutputs
    \/ Match \/ Newline \/ EndOfFile
    \/ report_type_error \/ StructuralError \/ SyntaxError
    \/ Shift \/ Discard \/ ParseEnds \/ Overflow
    \/ WriteSymbolTable \/ printIR \/ generateAssembly \/ printCG \/ Close

\* One thread that goes on as long as it can.
Spec == Init /\ [][Next]_vars /\ WF_vars(Next)

-----------------------------------------------------------------------------
(* Properties                                                              *)

Reports == [kind : {"type", "structural", "syntax"}, line : Nat, buffered : BOOLEAN,
            atEnd : BOOLEAN]

\* Types.  In particular no message is ever written past the end of err_buf
\* while the program is in a state C defines.
TypeOK ==
    /\ argv \in Seq(Flags \union {"-help", "-unknown"} \union Paths)
    /\ source_path \in {"NULL"} \union Paths /\ flags \subseteq Flags
    /\ phase \in {"arguments", "open", "parse", "parsed", "ir", "cg", "close", "returned",
                  "undefined"}
    /\ status \in {0, 1} /\ inComment \in BOOLEAN
    /\ input \in Seq(Symbols) /\ line_buf \in Seq(Symbols)
    /\ yylineno \in Nat \ {0} /\ columnNumber \in Nat \ {0}
    /\ lookahead \in {"none", "token", "end"} /\ yyerrstatus \in 0 .. 3
    /\ recovering \in {"no", "in list", "in definitions"}
    /\ err_buf \in Seq(Reports) /\ Len(err_buf) <= ErrLines
    /\ error_reported \in BOOLEAN /\ cgFlag \in BOOLEAN
    /\ asc_file \in Seq([lino : Nat, text : Seq(Symbols), errors : Seq(Reports)])
    /\ files \subseteq OutputFlags
    /\ reported \in Seq(Reports) /\ source \in Seq(Symbols)

InAsc(field(_)) == FlattenSeq([k \in DOMAIN asc_file |-> field(asc_file[k])])

\* The annotated source is the source: its lines and the line being read are
\* what was scanned so far, comments and blanks included, with a newline at
\* the end, and they are numbered from 1: as long as no line, and no message,
\* overran its buffer.
SourceCopied ==
    "-asc" \in files /\ phase # "undefined" =>
      LET copied == InAsc(LAMBDA l : l.text) \o line_buf
          scanned == SubSeq(source, 1, Len(source) - Len(input))
      IN  /\ \/ copied = scanned
             \/ lookahead = "end" /\ copied = Append(scanned, "newline")
          /\ \A k \in DOMAIN asc_file : asc_file[k].lino = k

\* The errors that got a line of err_buf, in order.
InErrBuf == FlattenSeq([k \in DOMAIN reported |->
                          IF reported[k].buffered THEN <<reported[k]>> ELSE <<>>])

\* Every message that got a line of err_buf is annotated once, in the order of
\* the reports, or still waits in err_buf; and it is annotated below the line
\* at which the scanner was, as long as no line overran line_buf and no message
\* err_buf.
ErrorsAnnotated ==
    "-asc" \in files /\ phase # "undefined" =>
      /\ InAsc(LAMBDA l : l.errors) \o err_buf = InErrBuf
      /\ \A k \in DOMAIN asc_file : \A e \in ToSet(asc_file[k].errors) :
           e.line = asc_file[k].lino

\* The messages that got a line of err_buf and are never written, whether or not
\* there is an .asc file: those reported when the parser had read the end of the
\* input, for nothing flushes the buffer after that; and, when emit exits in the
\* middle of the parse, structural errors of the line the scanner was at.
LostMessages ==
    phase = "returned" => \A e \in ToSet(err_buf) :
      \/ lookahead = "end" /\ e.atEnd
      \/ lookahead # "end" /\ e.kind = "structural" /\ e.line = yylineno

\* IR and assembly are written only for programs without syntax and type
\* errors, shown or not, that were parsed to the end, and assembly only along
\* with IR.
CleanOutput ==
    files \intersect {"-ir", "-cg"} # {} =>
      /\ lookahead = "end" /\ recovering # "in list"
      /\ \A e \in ToSet(reported) : e.kind = "structural"
      /\ "-ir" \in files

\* Every run ends: error recovery gets to the end of any input.
Terminates == <>(phase \in {"returned", "undefined"})
=============================================================================

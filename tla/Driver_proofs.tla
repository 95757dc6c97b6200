---------------------------- MODULE Driver_proofs ----------------------------
(***************************************************************************)
(* What a run of the compiler leaves behind, proved for every command line *)
(* and every input: no IR and no assembly after a type or syntax error,    *)
(* the annotated source, and which messages are never written.             *)
(***************************************************************************)
EXTENDS Driver, Induction, SequenceTheorems

(***************************************************************************)
(* Types, part by part: the arguments and files, the control, the text and *)
(* the messages.                                                           *)
(***************************************************************************)

Args == Flags \union {"-help", "-unknown"} \union Paths

Entries == [lino : Nat, text : Seq(Symbols), errors : Seq(Reports)]

ArgumentsTyped ==
    /\ argv \in Seq(Args)
    /\ source_path \in {"NULL"} \union Paths
    /\ flags \subseteq Flags
    /\ files \subseteq OutputFlags

ControlTyped ==
    /\ phase \in {"arguments", "open", "parse", "parsed", "ir", "cg", "close", "returned",
                  "undefined"}
    /\ status \in {0, 1} /\ inComment \in BOOLEAN
    /\ lookahead \in {"none", "token", "end"}
    /\ recovering \in {"no", "in list", "in definitions"}
    /\ error_reported \in BOOLEAN /\ cgFlag \in BOOLEAN

RecoveryTyped == yyerrstatus \in 0 .. 3

TextTyped ==
    /\ input \in Seq(Symbols) /\ line_buf \in Seq(Symbols) /\ source \in Seq(Symbols)
    /\ yylineno \in Nat \ {0} /\ columnNumber \in Nat \ {0}

MessagesTyped ==
    /\ err_buf \in Seq(Reports) /\ Len(err_buf) <= ErrLines
    /\ reported \in Seq(Reports)
    /\ asc_file \in Seq(Entries)

LEMMA TypeParts ==
    TypeOK <=> /\ ArgumentsTyped /\ ControlTyped /\ RecoveryTyped
               /\ TextTyped /\ MessagesTyped
  BY Zenon DEF TypeOK, ArgumentsTyped, ControlTyped, RecoveryTyped, TextTyped, MessagesTyped,
               Args, Entries

\* The command line is consumed, and files are opened under their flags.
LEMMA ArgumentsStep ==
    ASSUME ArgumentsTyped, [Next]_vars
    PROVE  ArgumentsTyped'
  <1> USE DEF ArgumentsTyped, arguments
  <1>1. CASE NextArgument
    <2>1. argv # <<>> /\ argv' = Tail(argv)
      BY <1>1 DEF NextArgument
    <2>2. argv' \in Seq(Args)
      BY <2>1, HeadTailProperties
    <2>3. UNCHANGED files
      BY <1>1 DEF NextArgument
    <2>4. source_path' \in {"NULL"} \union Paths /\ flags' \subseteq Flags
      BY <1>1 DEF NextArgument, Return, GoOn
    <2> QED BY <2>2, <2>3, <2>4
  <1>2. CASE OpenOutputs
    BY <1>2 DEF OpenOutputs, OutputFlags
  <1>3. CASE WriteSymbolTable \/ printIR \/ printCG
    BY <1>3 DEF WriteSymbolTable, printIR, printCG, WriteFile, OutputFlags
  <1>4. CASE \/ OpenSource \/ Match \/ Newline \/ EndOfFile
             \/ report_type_error \/ StructuralError \/ SyntaxError
             \/ Shift \/ Discard \/ ParseEnds \/ Overflow
             \/ generateAssembly \/ Close \/ UNCHANGED vars
    BY <1>4 DEF OpenSource, Match, Newline, EndOfFile, report_type_error, StructuralError,
                SyntaxError, Shift, Discard, ParseEnds, Overflow, generateAssembly, Close, vars
  <1> QED BY <1>1, <1>2, <1>3, <1>4 DEF Next

\* The phases, the scanner's condition and the parser's flags.
LEMMA ControlStep ==
    ASSUME ControlTyped, [Next]_vars
    PROVE  ControlTyped'
  <1> USE DEF ControlTyped, arguments, scanner, parser, errors, GoOn, Return
  <1>1. CASE NextArgument
    BY <1>1 DEF NextArgument
  <1>2. CASE OpenSource \/ OpenOutputs \/ ParseEnds \/ Overflow \/ Close
    BY <1>2 DEF OpenSource, OpenOutputs, ParseEnds, Overflow, Close
  <1>3. CASE Match
    <2>1. phase' \in {phase, "undefined"} /\ status' = status
      BY <1>3 DEF Match, Copies
    <2>2. /\ lookahead' \in {"none", "token"} /\ inComment' \in BOOLEAN
          /\ UNCHANGED <<recovering, error_reported, cgFlag>>
      BY <1>3 DEF Match
    <2> QED BY <2>1, <2>2
  <1>4. CASE Newline \/ EndOfFile
    <2>1. phase' \in {phase, "undefined"} /\ status' = status
      BY <1>4 DEF Newline, EndOfFile, Copies
    <2>2. /\ lookahead' \in {lookahead, "end"}
          /\ UNCHANGED <<inComment, recovering, error_reported, cgFlag>>
      BY <1>4 DEF Newline, EndOfFile
    <2> QED BY <2>1, <2>2
  <1>5. CASE report_type_error \/ StructuralError
    BY <1>5 DEF report_type_error, StructuralError, Report, StopTranslation
  <1>6. CASE SyntaxError
    <2>1. /\ recovering' \in {"in list", "in definitions"}
          /\ UNCHANGED <<lookahead, inComment>>
      BY <1>6 DEF SyntaxError
    <2>2. /\ phase' \in {phase, "undefined"} /\ status' = status
          /\ error_reported' \in {error_reported, TRUE} /\ cgFlag' \in {cgFlag, FALSE}
      <3>1. CASE yyerrstatus = 0
        BY <1>6, <3>1 DEF SyntaxError, Report, StopTranslation
      <3>2. CASE yyerrstatus # 0
        BY <1>6, <3>2 DEF SyntaxError
      <3> QED BY <3>1, <3>2
    <2>3. error_reported' \in BOOLEAN /\ cgFlag' \in BOOLEAN /\ inComment' \in BOOLEAN
      BY <2>1, <2>2, Zenon
    <2>4. /\ phase' \in {"arguments", "open", "parse", "parsed", "ir", "cg", "close",
                      "returned", "undefined"}
          /\ status' \in {0, 1} /\ lookahead' \in {"none", "token", "end"}
          /\ recovering' \in {"no", "in list", "in definitions"}
      BY <2>1, <2>2
    <2> QED BY <2>3, <2>4
  <1>7. CASE Shift
    BY <1>7 DEF Shift
  <1>8. CASE Discard
    BY <1>8 DEF Discard, Discarded
  <1>9. CASE WriteSymbolTable \/ printIR \/ printCG \/ generateAssembly
    BY <1>9 DEF WriteSymbolTable, printIR, printCG, WriteFile, generateAssembly
  <1>10. CASE UNCHANGED vars
    BY <1>10 DEF vars
  <1> QED BY <1>1, <1>2, <1>3, <1>4, <1>5, <1>6, <1>7, <1>8, <1>9, <1>10 DEF Next

\* The tokens still to shift before a syntax error is reported again.
LEMMA RecoveryStep ==
    ASSUME RecoveryTyped, [Next]_vars
    PROVE  RecoveryTyped'
  <1> USE DEF RecoveryTyped, parser
  <1>1. CASE Shift
    <2>1. yyerrstatus' \in {0} \union (IF yyerrstatus > 0 THEN {yyerrstatus - 1} ELSE {})
      BY <1>1 DEF Shift
    <2>2. CASE yyerrstatus > 0
      BY <2>1, <2>2
    <2>3. CASE ~(yyerrstatus > 0)
      BY <2>1, <2>3
    <2> QED BY <2>2, <2>3
  <1>2. CASE SyntaxError
    <2>1. yyerrstatus' = 3
      BY <1>2 DEF SyntaxError
    <2> QED BY <2>1
  <1>3. CASE \/ NextArgument \/ OpenSource \/ OpenOutputs
             \/ Match \/ Newline \/ EndOfFile
             \/ report_type_error \/ StructuralError \/ Discard \/ ParseEnds \/ Overflow
             \/ WriteSymbolTable \/ printIR \/ generateAssembly \/ printCG \/ Close
             \/ UNCHANGED vars
    BY <1>3 DEF NextArgument, OpenSource, OpenOutputs, Match, Newline, EndOfFile,
                report_type_error, StructuralError, Discard, ParseEnds, Overflow,
                WriteSymbolTable, printIR, generateAssembly, printCG, WriteFile, Close, vars
  <1> QED BY <1>1, <1>2, <1>3 DEF Next

\* What the scanner has read and kept.
LEMMA TextStep ==
    ASSUME TextTyped, [Next]_vars
    PROVE  TextTyped'
  <1> USE DEF TextTyped, scanner
  <1>1. CASE Match
    <2>1. /\ input # <<>> /\ input' = Tail(input)
          /\ line_buf' = Append(line_buf, Head(input))
          /\ \/ columnNumber' = columnNumber + yyleng(Head(input)) + yyleng(Head(input))
             \/ columnNumber' = columnNumber + yyleng(Head(input)) + 0
          /\ UNCHANGED <<yylineno, source>>
      BY <1>1 DEF Match, Matched
    <2>2. Head(input) \in Symbols /\ input' \in Seq(Symbols)
      BY <2>1, HeadTailProperties
    <2>3. line_buf' \in Seq(Symbols)
      BY <2>1, <2>2, AppendProperties
    <2>4. yyleng(Head(input)) \in {1, 2}
      BY DEF yyleng
    <2> DEFINE w == yyleng(Head(input))
    <2>5. columnNumber \in Nat \ {0} /\ w \in Nat
          /\ (columnNumber' = columnNumber + w + w \/ columnNumber' = columnNumber + w + 0)
      BY <2>1, <2>4
    <2> HIDE DEF w
    <2>6. columnNumber' \in Nat \ {0}
      BY <2>5
    <2> QED BY <2>1, <2>2, <2>3, <2>6
  <1>2. CASE Newline
    <2>1. /\ input # <<>> /\ input' = Tail(input)
          /\ line_buf' = <<>> /\ columnNumber' = 1 /\ yylineno' = yylineno + 1
          /\ UNCHANGED source
      BY <1>2 DEF Newline, asc
    <2>2. input' \in Seq(Symbols) /\ line_buf' \in Seq(Symbols)
      BY <2>1, HeadTailProperties, EmptySeq
    <2> QED BY <2>1, <2>2
  <1>3. CASE EndOfFile
    <2>1. /\ UNCHANGED <<input, yylineno, source>>
          /\ \/ line_buf' = <<>> /\ columnNumber' = 1
             \/ UNCHANGED <<line_buf, columnNumber>>
      BY <1>3 DEF EndOfFile, asc
    <2>2. line_buf' \in Seq(Symbols)
      BY <2>1, EmptySeq
    <2> QED BY <2>1, <2>2
  <1>4. CASE \/ NextArgument \/ OpenSource \/ OpenOutputs
             \/ report_type_error \/ StructuralError \/ SyntaxError
             \/ Shift \/ Discard \/ ParseEnds \/ Overflow
             \/ WriteSymbolTable \/ printIR \/ generateAssembly \/ printCG \/ Close
             \/ UNCHANGED vars
    BY <1>4 DEF NextArgument, OpenSource, OpenOutputs, report_type_error, StructuralError,
                SyntaxError, Shift, Discard, ParseEnds, Overflow, WriteSymbolTable, printIR,
                generateAssembly, printCG, WriteFile, Close, vars
  <1> QED BY <1>1, <1>2, <1>3, <1>4 DEF Next

\* An error takes a line of err_buf only if one is left (report_type_error,
\* the structural errors, yyerror).
LEMMA ReportTyped ==
    ASSUME MessagesTyped, yylineno \in Nat,
           NEW kind \in {"type", "structural", "syntax"}, NEW buffered \in BOOLEAN,
           Report(kind, buffered)
    PROVE  /\ reported' \in Seq(Reports)
           /\ err_buf' \in Seq(Reports) /\ Len(err_buf') <= ErrLines
  <1> DEFINE e == [kind |-> kind, line |-> yylineno, buffered |-> buffered,
                   atEnd |-> lookahead = "end"]
  <1>1. e \in Reports
    BY DEF Reports
  <1>2. reported' = Append(reported, e)
    BY DEF Report
  <1>3. \/ err_buf' = Append(err_buf, e) /\ Len(err_buf) < ErrLines
        \/ err_buf' = err_buf
    BY DEF Report, Fits
  <1> HIDE DEF e
  <1>4. reported' \in Seq(Reports)
    BY <1>1, <1>2, AppendProperties DEF MessagesTyped
  <1>5. CASE err_buf' = Append(err_buf, e) /\ Len(err_buf) < ErrLines
    <2>1. err_buf' \in Seq(Reports) /\ Len(err_buf') = Len(err_buf) + 1
      BY <1>1, <1>5, AppendProperties DEF MessagesTyped
    <2>2. Len(err_buf) \in Nat
      BY LenProperties DEF MessagesTyped
    <2> QED BY <1>4, <1>5, <2>1, <2>2, DriverAssumption
  <1>6. CASE err_buf' = err_buf
    BY <1>4, <1>6 DEF MessagesTyped
  <1> QED BY <1>3, <1>5, <1>6

\* A line that ends takes the errors along (asc of compiler.lex).
LEMMA AscTyped ==
    ASSUME MessagesTyped, NEW lino \in Nat, NEW text \in Seq(Symbols), asc(lino, text)
    PROVE  asc_file' \in Seq(Entries) /\ err_buf' = <<>>
  <1> DEFINE l == [lino |-> lino, text |-> text, errors |-> err_buf]
  <1>1. l \in Entries
    BY DEF MessagesTyped, Entries
  <1>2. asc_file' = Append(asc_file, l) \/ asc_file' = asc_file
    BY DEF asc
  <1> HIDE DEF l
  <1>3. asc_file' \in Seq(Entries)
    <2>1. asc_file \in Seq(Entries)
      BY DEF MessagesTyped
    <2>2. Append(asc_file, l) \in Seq(Entries)
      BY <1>1, <2>1, AppendProperties
    <2> QED
      BY <1>2, <2>1, <2>2
  <1> QED BY <1>3 DEF asc

\* No step writes past the end of err_buf, or annotates what is no error.
LEMMA MessagesStep ==
    ASSUME TextTyped, MessagesTyped, [Next]_vars
    PROVE  MessagesTyped'
  <1> USE DEF errors, scanner
  <1>1. CASE report_type_error \/ StructuralError \/ SyntaxError
    <2>1. UNCHANGED asc_file
      BY <1>1 DEF report_type_error, StructuralError, SyntaxError
    <2>2. \/ Report("type", "-tc" \in flags /\ Len(err_buf) < TypeLines)
          \/ Report("structural", TRUE)
          \/ Report("syntax", Fits)
          \/ UNCHANGED <<reported, err_buf>>
      BY <1>1 DEF report_type_error, StructuralError, SyntaxError
    <2>3. ("-tc" \in flags /\ Len(err_buf) < TypeLines) \in BOOLEAN /\ Fits \in BOOLEAN
      BY DEF Fits
    <2>4. yylineno \in Nat
      BY DEF TextTyped
    <2>5. CASE \/ Report("type", "-tc" \in flags /\ Len(err_buf) < TypeLines)
               \/ Report("structural", TRUE)
               \/ Report("syntax", Fits)
      <3>1. /\ reported' \in Seq(Reports)
            /\ err_buf' \in Seq(Reports) /\ Len(err_buf') <= ErrLines
        BY <2>3, <2>4, <2>5, ReportTyped
      <3> QED BY <2>1, <3>1 DEF MessagesTyped
    <2>6. CASE UNCHANGED <<reported, err_buf>>
      BY <2>1, <2>6 DEF MessagesTyped
    <2> QED BY <2>2, <2>5, <2>6
  <1>2. CASE Newline
    <2>1. asc(yylineno' - 1, Matched("newline")) /\ yylineno' = yylineno + 1
      BY <1>2 DEF Newline
    <2>2. yylineno' - 1 \in Nat
      BY <2>1 DEF TextTyped
    <2>3. Matched("newline") \in Seq(Symbols)
      BY AppendProperties DEF Matched, TextTyped, Symbols
    <2>4. asc_file' \in Seq(Entries) /\ err_buf' = <<>>
      BY <2>1, <2>2, <2>3, AscTyped
    <2> QED BY <1>2, <2>4, EmptySeq, DriverAssumption DEF Newline, MessagesTyped
  <1>3. CASE EndOfFile
    <2>1. CASE line_buf # <<>>
      <3>1. asc(yylineno, Append(line_buf, "newline"))
        BY <1>3, <2>1 DEF EndOfFile
      <3>2. yylineno \in Nat /\ Append(line_buf, "newline") \in Seq(Symbols)
        BY AppendProperties DEF TextTyped, Symbols
      <3>3. asc_file' \in Seq(Entries) /\ err_buf' = <<>>
        BY <3>1, <3>2, AscTyped
      <3> QED BY <1>3, <3>3, EmptySeq, DriverAssumption DEF EndOfFile, MessagesTyped
    <2>2. CASE line_buf = <<>>
      BY <1>3, <2>2 DEF EndOfFile, MessagesTyped
    <2> QED BY <2>1, <2>2
  <1>4. CASE \/ NextArgument \/ OpenSource \/ OpenOutputs \/ Match
             \/ Shift \/ Discard \/ ParseEnds \/ Overflow
             \/ WriteSymbolTable \/ printIR \/ generateAssembly \/ printCG \/ Close
             \/ UNCHANGED vars
    BY <1>4 DEF NextArgument, OpenSource, OpenOutputs, Match, Shift, Discard, ParseEnds,
                Overflow, WriteSymbolTable, printIR, generateAssembly, printCG, WriteFile,
                Close, vars, MessagesTyped
  <1> QED BY <1>1, <1>2, <1>3, <1>4 DEF Next

\* Types, whatever the command line and the input; in particular err_buf
\* never holds more lines than it has where it is defined.
THEOREM TypeCorrect == Spec => []TypeOK
  <1>1. Init => ArgumentsTyped /\ ControlTyped
    <2>1. Init => ArgumentsTyped
      BY DriverAssumption DEF Init, ArgumentsTyped, Args
    <2>2. Init => ControlTyped
      BY DEF Init, ControlTyped
    <2> QED BY <2>1, <2>2
  <1>2. Init => TextTyped
    BY DriverAssumption, EmptySeq DEF Init, TextTyped
  <1>3. Init => MessagesTyped
    BY DriverAssumption, EmptySeq DEF Init, MessagesTyped
  <1>4. Init => RecoveryTyped
    BY DEF Init, RecoveryTyped
  <1>5. Init => TypeOK
    BY <1>1, <1>2, <1>3, <1>4, TypeParts
  <1>6. TypeOK /\ [Next]_vars => TypeOK'
    <2> SUFFICES ASSUME TypeOK, [Next]_vars PROVE TypeOK'
      OBVIOUS
    <2>1. ArgumentsTyped /\ ControlTyped /\ RecoveryTyped /\ TextTyped /\ MessagesTyped
      BY TypeParts
    <2>2. ArgumentsTyped' /\ ControlTyped' /\ RecoveryTyped' /\ TextTyped' /\ MessagesTyped'
      BY <2>1, ArgumentsStep, ControlStep, RecoveryStep, TextStep, MessagesStep
    <2> QED BY <2>2, Zenon DEF TypeOK, ArgumentsTyped, ControlTyped, RecoveryTyped, TextTyped,
                               MessagesTyped, Args, Entries
  <1> QED BY <1>5, <1>6, PTL DEF Spec

(***************************************************************************)
(* No output after an error.  CleanOutput is about files, which are        *)
(* written long after the errors; what carries it from one to the other is *)
(* that both flags know of every error, that the parser looks for a way on *)
(* only after one, and which outputs there can be in which phase.          *)
(***************************************************************************)

Kinds == {"type", "structural", "syntax"}

ErrorsTold ==
    \A k \in 1 .. Len(reported) : reported[k].kind = "structural" \/ error_reported

FlagsAgree ==
    /\ error_reported => ~cgFlag
    /\ recovering # "no" => error_reported
    /\ yyerrstatus # 0 => error_reported

Parsed == {"parsed", "ir", "cg", "close"}

ParsedToEnd == phase \in Parsed => lookahead = "end"

Translations == files \intersect {"-ir", "-cg"}

OutputsInOrder ==
    /\ phase \in {"arguments", "open", "parse", "parsed", "ir"} => Translations = {}
    /\ Translations # {} => ~error_reported /\ lookahead = "end" /\ "-ir" \in files
    /\ phase = "cg" /\ "-ir" \in flags /\ ~error_reported => "-ir" \in files

\* Reporting an error makes it the last one of the list.
LEMMA ReportAppends ==
    ASSUME MessagesTyped, yylineno \in Nat, NEW kind \in Kinds, NEW buffered \in BOOLEAN,
           Report(kind, buffered)
    PROVE  /\ Len(reported') = Len(reported) + 1
           /\ reported'[Len(reported) + 1].kind = kind
           /\ \A k \in 1 .. Len(reported) : reported'[k] = reported[k]
           /\ Len(reported) \in Nat
           /\ phase' \in {phase, "undefined"}
  <1> DEFINE e == [kind |-> kind, line |-> yylineno, buffered |-> buffered,
                   atEnd |-> lookahead = "end"]
  <1>1. e \in Reports /\ e.kind = kind
    BY DEF Reports, Kinds
  <1>2. reported' = Append(reported, e) /\ reported \in Seq(Reports)
    BY DEF Report, MessagesTyped
  <1> HIDE DEF e
  <1>3. /\ Len(Append(reported, e)) = Len(reported) + 1
        /\ Append(reported, e)[Len(reported) + 1] = e
        /\ \A k \in 1 .. Len(reported) : Append(reported, e)[k] = reported[k]
    BY <1>1, <1>2, AppendProperties
  <1>4. Len(reported) \in Nat
    BY <1>2, LenProperties
  <1>5. phase' \in {phase, "undefined"}
    BY DEF Report, GoOn
  <1> QED BY <1>1, <1>2, <1>3, <1>4, <1>5

\* A type or syntax error is told to error_reported, whatever is made of its
\* message; a structural error is not (report_error_ir, report_error_cg).
LEMMA ErrorsToldStep ==
    ASSUME TypeOK, ErrorsTold, [Next]_vars
    PROVE  ErrorsTold'
  <1>0. MessagesTyped /\ yylineno \in Nat /\ error_reported \in BOOLEAN
    BY TypeParts DEF TextTyped, ControlTyped
  <1>1. CASE report_type_error
    <2>1. error_reported'
      BY <1>1 DEF report_type_error, StopTranslation
    <2> QED BY <2>1 DEF ErrorsTold
  <1>2. CASE StructuralError
    <2>1. Report("structural", TRUE) /\ UNCHANGED error_reported
      BY <1>2 DEF StructuralError
    <2>2. /\ Len(reported') = Len(reported) + 1
          /\ reported'[Len(reported) + 1].kind = "structural"
          /\ \A k \in 1 .. Len(reported) : reported'[k] = reported[k]
          /\ Len(reported) \in Nat
      BY <1>0, <2>1, ReportAppends DEF Kinds
    <2> SUFFICES ASSUME NEW k \in 1 .. Len(reported')
                 PROVE  reported'[k].kind = "structural" \/ error_reported'
      BY DEF ErrorsTold
    <2>3. CASE k = Len(reported) + 1
      BY <2>2, <2>3
    <2>4. CASE k # Len(reported) + 1
      <3>1. k \in 1 .. Len(reported)
        BY <2>2, <2>4
      <3> QED BY <2>1, <2>2, <3>1 DEF ErrorsTold
    <2> QED BY <2>3, <2>4
  <1>3. CASE SyntaxError
    <2>1. CASE yyerrstatus = 0
      <3>1. error_reported'
        BY <1>3, <2>1 DEF SyntaxError, StopTranslation
      <3> QED BY <3>1 DEF ErrorsTold
    <2>2. CASE yyerrstatus # 0
      BY <1>3, <2>2 DEF SyntaxError, errors, ErrorsTold
    <2> QED BY <2>1, <2>2
  <1>4. CASE \/ NextArgument \/ OpenSource \/ OpenOutputs
             \/ Match \/ Newline \/ EndOfFile \/ Shift \/ Discard \/ ParseEnds \/ Overflow
             \/ WriteSymbolTable \/ printIR \/ generateAssembly \/ printCG \/ Close
             \/ UNCHANGED vars
    <2>1. UNCHANGED <<reported, error_reported>>
      BY <1>4 DEF NextArgument, OpenSource, OpenOutputs, Match, Newline, EndOfFile, Shift,
                  Discard, ParseEnds, Overflow, WriteSymbolTable, printIR, generateAssembly,
                  printCG, WriteFile, Close, vars, errors
    <2> QED BY <2>1 DEF ErrorsTold
  <1> QED BY <1>1, <1>2, <1>3, <1>4 DEF Next

\* The code generator knows of every error the parser knows of, and a parser
\* that looks for a way on has reported one.
LEMMA FlagsAgreeStep ==
    ASSUME FlagsAgree, [Next]_vars
    PROVE  FlagsAgree'
  <1> USE DEF FlagsAgree, errors, parser
  <1>1. CASE report_type_error
    BY <1>1 DEF report_type_error, StopTranslation
  <1>2. CASE SyntaxError
    <2>1. CASE yyerrstatus = 0
      BY <1>2, <2>1 DEF SyntaxError, StopTranslation
    <2>2. CASE yyerrstatus # 0
      BY <1>2, <2>2 DEF SyntaxError
    <2> QED BY <2>1, <2>2
  <1>3. CASE Shift
    <2>1. CASE yyerrstatus > 0
      <3>1. yyerrstatus # 0
        BY <2>1
      <3>2. error_reported /\ ~cgFlag
        BY <3>1
      <3>3. UNCHANGED <<error_reported, cgFlag>>
        BY <1>3 DEF Shift
      <3> QED BY <3>2, <3>3
    <2>2. CASE ~(yyerrstatus > 0)
      BY <1>3, <2>2 DEF Shift
    <2> QED BY <2>1, <2>2
  <1>4. CASE \/ NextArgument \/ OpenSource \/ OpenOutputs
             \/ Match \/ Newline \/ EndOfFile \/ StructuralError \/ Discard \/ ParseEnds
             \/ Overflow \/ WriteSymbolTable \/ printIR \/ printCG \/ Close
             \/ UNCHANGED vars
    <2>1. UNCHANGED <<error_reported, cgFlag, recovering, yyerrstatus>>
      BY <1>4 DEF NextArgument, OpenSource, OpenOutputs, Match, Newline, EndOfFile,
                  StructuralError, Discard, ParseEnds, Overflow, WriteSymbolTable, printIR,
                  printCG, WriteFile, Close, vars
    <2> QED BY <2>1
  <1>5. CASE generateAssembly
    BY <1>5 DEF generateAssembly
  <1> QED BY <1>1, <1>2, <1>3, <1>4, <1>5 DEF Next

\* main goes on only after a parse that read the whole input.
LEMMA ParsedToEndStep ==
    ASSUME ParsedToEnd, [Next]_vars
    PROVE  ParsedToEnd'
  <1> USE DEF ParsedToEnd, Parsed, parser, GoOn, Return
  <1>1. CASE ParseEnds
    BY <1>1 DEF ParseEnds
  <1>2. CASE WriteSymbolTable \/ printIR \/ printCG \/ generateAssembly \/ Close
    BY <1>2 DEF WriteSymbolTable, printIR, printCG, WriteFile, generateAssembly, Close
  <1>3. CASE \/ Match \/ Newline \/ EndOfFile
             \/ report_type_error \/ StructuralError \/ SyntaxError
    <2>1. phase = "parse" /\ phase' \in {"parse", "undefined"}
      BY <1>3 DEF Match, Newline, EndOfFile, Copies, yylex, report_type_error,
                  StructuralError, SyntaxError, Report
    <2> QED BY <2>1
  <1>4. CASE NextArgument \/ OpenSource \/ OpenOutputs \/ Overflow
    <2>1. phase' \in {"arguments", "open", "parse", "returned", "undefined"}
      BY <1>4 DEF NextArgument, OpenSource, OpenOutputs, Overflow
    <2> QED BY <2>1
  <1>5. CASE Shift \/ Discard
    <2>1. phase = "parse" /\ phase' = phase
      BY <1>5 DEF Shift, Discard
    <2> QED BY <2>1
  <1>6. CASE UNCHANGED vars
    BY <1>6 DEF vars
  <1> QED BY <1>1, <1>2, <1>3, <1>4, <1>5, <1>6 DEF Next

\* IR and assembly appear after the parse, in this order, and no error is
\* reported from then on.
LEMMA OutputsInOrderStep ==
    ASSUME FlagsAgree, ParsedToEnd, OutputsInOrder, [Next]_vars
    PROVE  OutputsInOrder'
  <1> USE DEF OutputsInOrder, Translations, Parsed, arguments, parser, errors, GoOn, Return
  <1>1. CASE NextArgument \/ OpenSource
    <2>1. /\ phase = "arguments" /\ phase' \in {"arguments", "open", "returned"}
          /\ UNCHANGED files
      BY <1>1 DEF NextArgument, OpenSource
    <2> QED BY <2>1
  <1>2. CASE OpenOutputs
    <2>1. /\ phase = "open" /\ phase' \in {"parse", "returned", "undefined"}
          /\ files' \subseteq files \union {"-tok", "-asc"}
      BY <1>2 DEF OpenOutputs
    <2> QED BY <2>1
  <1>3. CASE report_type_error \/ StructuralError \/ SyntaxError \/ ParseEnds \/ Overflow
    <2>1. phase = "parse" /\ phase' \in {"parse", "parsed", "returned", "undefined"}
      BY <1>3 DEF report_type_error, StructuralError, SyntaxError, ParseEnds, Overflow, Report
    <2>2. UNCHANGED files
      BY <1>3 DEF report_type_error, StructuralError, SyntaxError, ParseEnds, Overflow
    <2> QED BY <2>1, <2>2
  <1>4. CASE WriteSymbolTable
    BY <1>4 DEF WriteSymbolTable, WriteFile
  <1>5. CASE printIR
    BY <1>5 DEF printIR, WriteFile, ParsedToEnd
  <1>6. CASE generateAssembly
    BY <1>6 DEF generateAssembly
  <1>7. CASE printCG
    BY <1>7 DEF printCG, WriteFile, FlagsAgree, ParsedToEnd
  <1>8. CASE Close
    BY <1>8 DEF Close
  <1>9. CASE Shift \/ Discard
    <2>1. phase = "parse" /\ phase' = phase /\ UNCHANGED files
      BY <1>9 DEF Shift, Discard
    <2> QED BY <2>1
  <1>10. CASE Match \/ Newline \/ EndOfFile
    <2>1. /\ phase = "parse" /\ phase' \in {"parse", "undefined"}
          /\ UNCHANGED files
      BY <1>10 DEF Match, Newline, EndOfFile, Copies, yylex
    <2> QED BY <2>1
  <1>11. CASE UNCHANGED vars
    BY <1>11 DEF vars
  <1> QED BY <1>1, <1>2, <1>3, <1>4, <1>5, <1>6, <1>7, <1>8, <1>9, <1>10, <1>11 DEF Next

\* IR and assembly are written only for programs without syntax and type
\* errors, parsed to the end, and assembly only along with IR.
THEOREM CleanOutputAlways == Spec => []CleanOutput
  <1> DEFINE IInv == ErrorsTold /\ FlagsAgree /\ ParsedToEnd /\ OutputsInOrder
  <1>1. Init => IInv
    BY DEF Init, ErrorsTold, FlagsAgree, ParsedToEnd, Parsed, OutputsInOrder,
           Translations
  <1>2. TypeOK /\ IInv /\ [Next]_vars => IInv'
    BY ErrorsToldStep, FlagsAgreeStep, ParsedToEndStep, OutputsInOrderStep
  <1>3. TypeOK /\ IInv => CleanOutput
    <2> SUFFICES ASSUME TypeOK, IInv, Translations # {}
                 PROVE  /\ lookahead = "end" /\ recovering # "in list" /\ "-ir" \in files
                        /\ \A e \in ToSet(reported) : e.kind = "structural"
      BY DEF CleanOutput, Translations
    <2>1. /\ ~error_reported /\ recovering # "in list"
          /\ lookahead = "end" /\ "-ir" \in files
      BY DEF OutputsInOrder, FlagsAgree
    <2>2. \A k \in 1 .. Len(reported) : reported[k].kind = "structural"
      BY <2>1 DEF ErrorsTold
    <2>3. DOMAIN reported = 1 .. Len(reported)
      BY LenProperties DEF TypeOK
    <2>4. \A e \in ToSet(reported) : e.kind = "structural"
      BY <2>2, <2>3 DEF ToSet
    <2> QED BY <2>1, <2>4
  <1> HIDE DEF IInv
  <1> QED BY <1>1, <1>2, <1>3, TypeCorrect, PTL DEF Spec

(***************************************************************************)
(* Which messages wait at the end of the input.  A token leaves its text   *)
(* in line_buf, and an error is reported with a token in hand, so err_buf  *)
(* is not empty only while line_buf is not; the last flush is then not     *)
(* left out, and what waits after it was reported after it.                *)
(***************************************************************************)

ErrorsHaveText ==
    /\ lookahead = "token" => line_buf # <<>>
    /\ lookahead # "end" /\ line_buf = <<>> => err_buf = <<>>

RestIsLate == lookahead = "end" => \A k \in 1 .. Len(err_buf) : err_buf[k].atEnd

\* A message that gets a line is the last one of err_buf.
LEMMA ReportBuffers ==
    ASSUME MessagesTyped, yylineno \in Nat,
           NEW kind \in Kinds, NEW buffered \in BOOLEAN, Report(kind, buffered)
    PROVE  \A k \in 1 .. Len(err_buf') :
             \/ k \in 1 .. Len(err_buf) /\ err_buf'[k] = err_buf[k]
             \/ err_buf'[k].atEnd = (lookahead = "end")
  <1> DEFINE e == [kind |-> kind, line |-> yylineno, buffered |-> buffered,
                   atEnd |-> lookahead = "end"]
  <1>1. e \in Reports /\ e.atEnd = (lookahead = "end")
    BY DEF Reports, Kinds
  <1>2. err_buf \in Seq(Reports) /\ Len(err_buf) \in Nat
    BY LenProperties DEF MessagesTyped
  <1>3. err_buf' = Append(err_buf, e) \/ err_buf' = err_buf
    BY DEF Report
  <1> HIDE DEF e
  <1>4. CASE err_buf' = Append(err_buf, e)
    <2>1. /\ Len(err_buf') = Len(err_buf) + 1
          /\ err_buf'[Len(err_buf) + 1] = e
          /\ \A k \in 1 .. Len(err_buf) : err_buf'[k] = err_buf[k]
      BY <1>1, <1>2, <1>4, AppendProperties
    <2> SUFFICES ASSUME NEW k \in 1 .. Len(err_buf')
                 PROVE  \/ k \in 1 .. Len(err_buf) /\ err_buf'[k] = err_buf[k]
                        \/ err_buf'[k].atEnd = (lookahead = "end")
      OBVIOUS
    <2>2. k = Len(err_buf) + 1 \/ k \in 1 .. Len(err_buf)
      BY <1>2, <2>1
    <2> QED BY <1>1, <2>1, <2>2
  <1>5. CASE err_buf' = err_buf
    BY <1>5
  <1> QED BY <1>3, <1>4, <1>5

\* The text of a token stays in line_buf until the scanner ends the line.
LEMMA ErrorsHaveTextStep ==
    ASSUME TypeOK, ErrorsHaveText, [Next]_vars
    PROVE  ErrorsHaveText'
  <1> USE DEF ErrorsHaveText, scanner, parser
  <1>1. CASE Match
    <2>1. /\ line_buf' = Append(line_buf, Head(input)) /\ input # <<>>
          /\ lookahead' \in {"none", "token"}
      BY <1>1 DEF Match, Matched
    <2>2. Head(input) \in Symbols /\ line_buf \in Seq(Symbols)
      BY <2>1, HeadTailProperties DEF TypeOK
    <2>3. line_buf' # <<>>
      BY <2>1, <2>2, AppendProperties
    <2> QED BY <2>3
  <1>2. CASE Newline
    BY <1>2 DEF Newline, asc, yylex
  <1>3. CASE EndOfFile
    BY <1>3 DEF EndOfFile
  <1>4. CASE report_type_error \/ StructuralError \/ SyntaxError
    <2>1. lookahead \in {"token", "end"}
      BY <1>4 DEF report_type_error, StructuralError, SyntaxError, TypeOK
    <2>2. UNCHANGED <<lookahead, line_buf>>
      BY <1>4 DEF report_type_error, StructuralError, SyntaxError
    <2> QED BY <2>1, <2>2
  <1>5. CASE Shift \/ Discard
    <2>1. lookahead = "token" /\ lookahead' = "none" /\ UNCHANGED line_buf
      BY <1>5 DEF Shift, Discard, Discarded
    <2> QED BY <2>1
  <1>6. CASE \/ NextArgument \/ OpenSource \/ OpenOutputs \/ ParseEnds \/ Overflow
             \/ WriteSymbolTable \/ printIR \/ generateAssembly \/ printCG \/ Close
             \/ UNCHANGED vars
    <2>1. UNCHANGED <<lookahead, line_buf, err_buf>>
      BY <1>6 DEF NextArgument, OpenSource, OpenOutputs, ParseEnds, Overflow,
                  WriteSymbolTable, printIR, generateAssembly, printCG, WriteFile, Close,
                  errors, vars
    <2> QED BY <2>1
  <1> QED BY <1>1, <1>2, <1>3, <1>4, <1>5, <1>6 DEF Next

\* At the end of the input err_buf is flushed with the last line, and what is
\* reported later is reported with the end as lookahead.
LEMMA RestIsLateStep ==
    ASSUME TypeOK, ErrorsHaveText, RestIsLate, [Next]_vars
    PROVE  RestIsLate'
  <1>0. MessagesTyped /\ yylineno \in Nat
    BY TypeParts DEF TextTyped
  <1> USE DEF RestIsLate, scanner, parser
  <1>1. CASE Match \/ Newline \/ Shift \/ Discard
    <2>1. lookahead' # "end"
      BY <1>1 DEF Match, Newline, Shift, Discard, Discarded, yylex
    <2> QED BY <2>1
  <1>2. CASE EndOfFile
    <2>1. lookahead = "none"
      BY <1>2 DEF EndOfFile, yylex
    <2>2. err_buf' = <<>>
      BY <1>2, <2>1 DEF EndOfFile, asc, ErrorsHaveText
    <2>3. Len(err_buf') = 0
      BY <2>2, EmptySeq
    <2> QED BY <2>3
  <1>3. CASE report_type_error \/ StructuralError \/ SyntaxError
    <2>1. UNCHANGED lookahead
      BY <1>3 DEF report_type_error, StructuralError, SyntaxError
    <2>2. \/ Report("type", "-tc" \in flags /\ Len(err_buf) < TypeLines)
          \/ Report("structural", TRUE)
          \/ Report("syntax", Fits)
          \/ UNCHANGED err_buf
      BY <1>3 DEF report_type_error, StructuralError, SyntaxError, errors
    <2>3. ("-tc" \in flags /\ Len(err_buf) < TypeLines) \in BOOLEAN /\ Fits \in BOOLEAN
      BY DEF Fits
    <2>4. CASE UNCHANGED err_buf
      BY <2>1, <2>4
    <2>5. CASE \/ Report("type", "-tc" \in flags /\ Len(err_buf) < TypeLines)
               \/ Report("structural", TRUE)
               \/ Report("syntax", Fits)
      <3>1. \A k \in 1 .. Len(err_buf') :
              \/ k \in 1 .. Len(err_buf) /\ err_buf'[k] = err_buf[k]
              \/ err_buf'[k].atEnd = (lookahead = "end")
        BY <1>0, <2>3, <2>5, ReportBuffers DEF Kinds
      <3> QED BY <2>1, <3>1
    <2> QED BY <2>2, <2>4, <2>5
  <1>4. CASE \/ NextArgument \/ OpenSource \/ OpenOutputs \/ ParseEnds \/ Overflow
             \/ WriteSymbolTable \/ printIR \/ generateAssembly \/ printCG \/ Close
             \/ UNCHANGED vars
    <2>1. UNCHANGED <<lookahead, err_buf>>
      BY <1>4 DEF NextArgument, OpenSource, OpenOutputs, ParseEnds, Overflow,
                  WriteSymbolTable, printIR, generateAssembly, printCG, WriteFile, Close,
                  errors, vars
    <2> QED BY <2>1
  <1> QED BY <1>1, <1>2, <1>3, <1>4 DEF Next

(***************************************************************************)
(* The .asc file as one text.  FlattenSeq of the community modules is      *)
(* defined by recursion; it is the last of the texts of the first lines.   *)
(***************************************************************************)

\* f[k] is the first k sequences of s in a row.
Flattens(f, s) == f[0] = <<>> /\ \A k \in 1 .. Len(s) : f[k] = f[k - 1] \o s[k]

LEMMA FlattenFacts ==
    ASSUME NEW T, NEW s \in Seq(Seq(T))
    PROVE  \E f \in [0 .. Len(s) -> Seq(T)] : Flattens(f, s) /\ FlattenSeq(s) = f[Len(s)]
  <1> DEFINE n == Len(s)
  <1>1. n \in Nat /\ \A k \in 1 .. n : s[k] \in Seq(T)
    BY LenProperties, ElementOfSeq
  <1>2. <<>> \in Seq(T)
    BY EmptySeq
  <1>3. CASE n = 0
    <2> DEFINE f == [k \in 0 .. 0 |-> <<>>]
    <2>1. f \in [0 .. n -> Seq(T)] /\ f[0] = <<>>
      BY <1>2, <1>3
    <2>2. FlattenSeq(s) = s /\ s = <<>>
      BY <1>3, EmptySeq DEF FlattenSeq
    <2> HIDE DEF f
    <2> QED BY <1>3, <2>1, <2>2 DEF Flattens
  <1>4. CASE n # 0
    <2> DEFINE step == [k \in 1 .. n |-> [v \in Seq(T) |-> v \o s[k]]]
               up == [k \in 1 .. n |-> k - 1]
    <2>1. step \in [1 .. n -> [Seq(T) -> Seq(T)]]
      <3>1. \A k \in 1 .. n, v \in Seq(T) : v \o s[k] \in Seq(T)
        BY <1>1, ConcatProperties
      <3> QED BY <3>1
    <2>2. \A k \in 1 .. n : up[k] \in 0 .. k - 1 /\ up[k] = k - 1
      BY <1>1
    <2>3. \A k \in 1 .. n, v \in Seq(T) : step[k][v] = v \o s[k]
      OBVIOUS
    <2> HIDE DEF step, up, n
    <2>4. \E f \in [0 .. n -> Seq(T)] : Solves(f, n, <<>>, up, step)
      BY <1>1, <1>2, <2>1, <2>2, Recursion
    <2>5. PICK f \in [0 .. n -> Seq(T)] : Solves(f, n, <<>>, up, step)
      BY <2>4
    <2>6. f[0] = <<>>
      BY <1>1, <2>5 DEF Solves
    <2>7. ASSUME NEW k \in 1 .. n PROVE f[k] = f[k - 1] \o s[k] /\ f[k - 1] \in Seq(T)
      <3>1. k \in 0 .. n /\ k # 0 /\ k - 1 \in 0 .. n
        BY <1>1
      <3>2. f[k] = step[k][f[up[k]]]
        BY <2>5, <3>1 DEF Solves
      <3>3. f[k - 1] \in Seq(T)
        BY <3>1
      <3> QED BY <2>2, <2>3, <3>2, <3>3
    <2> DEFINE Def(h) == h = [i \in 1 .. n |-> IF i = 1 THEN s[i] ELSE h[i - 1] \o s[i]]
               g == [i \in 1 .. n |-> f[i]]
               h == CHOOSE h : Def(h)
    <2>8. Def(g)
      <3>1. ASSUME NEW i \in 1 .. n
            PROVE  f[i] = IF i = 1 THEN s[i] ELSE g[i - 1] \o s[i]
        <4>1. CASE i = 1
          <5>1. f[i] = f[i - 1] \o s[i]
            BY <2>7
          <5>2. f[i - 1] = f[0]
            BY <4>1
          <5> QED BY <1>1, <2>6, <4>1, <5>1, <5>2, ConcatEmptySeq
        <4>2. CASE i # 1
          <5>1. i - 1 \in 1 .. n
            BY <1>1, <4>2
          <5> QED BY <2>7, <4>2, <5>1
        <4> QED BY <4>1, <4>2
      <3> QED BY <3>1
    <2> HIDE DEF g
    <2>9. Def(h)
      BY <2>8
    <2>10. FlattenSeq(s) = h[n]
      BY <1>4 DEF FlattenSeq, n
    <2> HIDE DEF h
    <2>11. \A i \in 1 .. n : h[i] = IF i = 1 THEN s[i] ELSE h[i - 1] \o s[i]
      BY <2>9
    <2> DEFINE S == {i \in 1 .. n : h[i] = f[i]}
    <2>12. ASSUME NEW i \in 1 .. n, \A m \in 1 .. i - 1 : m \in S PROVE i \in S
      <3>1. CASE i = 1
        <4>1. f[i] = f[i - 1] \o s[i]
          BY <2>7
        <4>2. f[i - 1] = f[0]
          BY <3>1
        <4> QED BY <1>1, <2>6, <2>11, <3>1, <4>1, <4>2, ConcatEmptySeq
      <3>2. CASE i # 1
        <4>1. i - 1 \in 1 .. i - 1 /\ i \in Int
          BY <1>1, <3>2
        <4>2. h[i - 1] = f[i - 1]
          BY <2>12, <4>1
        <4> QED BY <2>7, <2>11, <3>2, <4>2
      <3> QED BY <3>1, <3>2
    <2> HIDE DEF S
    <2>13. 1 .. n \subseteq S
      BY <1>1, <2>12, Strong
    <2>14. h[n] = f[n]
      BY <1>1, <1>4, <2>13 DEF S
    <2> QED BY <2>6, <2>7, <2>10, <2>14 DEF Flattens, n
  <1> QED BY <1>3, <1>4

\* Nothing in a row is nothing; one more sequence comes behind the others.
LEMMA FlattenEmpty == FlattenSeq(<<>>) = <<>>
  BY EmptySeq DEF FlattenSeq

LEMMA FlattenAppend ==
    ASSUME NEW T, NEW s \in Seq(Seq(T)), NEW x \in Seq(T)
    PROVE  /\ FlattenSeq(s) \in Seq(T)
           /\ FlattenSeq(Append(s, x)) = FlattenSeq(s) \o x
  <1> DEFINE t == Append(s, x)
             n == Len(s)
  <1>1. /\ t \in Seq(Seq(T)) /\ Len(t) = n + 1 /\ n \in Nat
        /\ t[n + 1] = x /\ \A k \in 1 .. n : t[k] = s[k]
    BY AppendProperties, LenProperties
  <1>2. PICK f \in [0 .. n -> Seq(T)] : Flattens(f, s) /\ FlattenSeq(s) = f[n]
    BY FlattenFacts
  <1> HIDE DEF t
  <1>3. PICK g \in [0 .. n + 1 -> Seq(T)] : Flattens(g, t) /\ FlattenSeq(t) = g[n + 1]
    BY <1>1, FlattenFacts
  <1> DEFINE S == {k \in 0 .. n : g[k] = f[k]}
  <1>4. 0 \in S
    BY <1>1, <1>2, <1>3 DEF Flattens
  <1>5. ASSUME NEW k \in 0 .. n - 1, k \in S PROVE k + 1 \in S
    <2>1. k + 1 \in 1 .. n /\ k + 1 \in 1 .. n + 1 /\ (k + 1) - 1 = k /\ k + 1 \in 0 .. n
      BY <1>1
    <2>2. f[k + 1] = f[(k + 1) - 1] \o s[k + 1]
      BY <1>2, <2>1 DEF Flattens
    <2>3. g[k + 1] = g[(k + 1) - 1] \o t[k + 1]
      BY <1>1, <1>3, <2>1 DEF Flattens
    <2> QED BY <1>1, <1>5, <2>1, <2>2, <2>3
  <1> HIDE DEF S
  <1>6. 0 .. n \subseteq S
    BY <1>1, <1>4, <1>5, Steps
  <1>7. g[n] = f[n]
    <2>1. n \in 0 .. n
      BY <1>1
    <2> QED BY <1>6, <2>1 DEF S
  <1>8. n + 1 \in 1 .. n + 1 /\ (n + 1) - 1 = n /\ n \in 0 .. n
    BY <1>1
  <1>9. g[n + 1] = g[(n + 1) - 1] \o t[n + 1]
    BY <1>1, <1>3, <1>8 DEF Flattens
  <1> QED BY <1>1, <1>2, <1>3, <1>7, <1>8, <1>9 DEF t

\* What asc wrote line by line, what of it is still in err_buf, and what of the
\* input was scanned.
Texts == [k \in DOMAIN asc_file |-> asc_file[k].text]
Errs == [k \in DOMAIN asc_file |-> asc_file[k].errors]
Shown == [k \in DOMAIN reported |-> IF reported[k].buffered THEN <<reported[k]>> ELSE <<>>]
Scanned == SubSeq(source, 1, Len(source) - Len(input))

LEMMA Longer ==
    ASSUME NEW T, NEW n \in Nat, NEW u \in [1 .. n -> T], NEW v \in [1 .. n + 1 -> T],
           \A k \in 1 .. n : v[k] = u[k]
    PROVE  u \in Seq(T) /\ v = Append(u, v[n + 1])
  <1>1. u \in Seq(T) /\ Len(u) = n
    OBVIOUS
  <1>2. v \in Seq(T) /\ Len(v) = n + 1 /\ v[n + 1] \in T
    OBVIOUS
  <1> DEFINE x == v[n + 1]
             w == Append(u, x)
  <1>3. /\ w \in Seq(T) /\ Len(w) = n + 1 /\ w[n + 1] = x
        /\ \A k \in 1 .. n : w[k] = u[k]
    BY <1>1, <1>2, AppendProperties
  <1> HIDE DEF w
  <1>4. \A k \in 1 .. Len(v) : v[k] = w[k]
    <2> SUFFICES ASSUME NEW k \in 1 .. n + 1 PROVE v[k] = w[k]
      BY <1>2
    <2> QED BY <1>3
  <1>5. v = w
    BY <1>2, <1>3, <1>4, SeqEqual
  <1> QED BY <1>1, <1>5 DEF w

LEMMA AscAppends ==
    ASSUME MessagesTyped, NEW lino \in Nat, NEW text \in Seq(Symbols), asc(lino, text),
           "-asc" \in files
    PROVE  /\ Texts \in Seq(Seq(Symbols)) /\ Texts' = Append(Texts, text)
           /\ Errs \in Seq(Seq(Reports)) /\ Errs' = Append(Errs, err_buf)
           /\ Len(asc_file) \in Nat /\ Len(asc_file') = Len(asc_file) + 1
           /\ DOMAIN asc_file' = 1 .. Len(asc_file) + 1 /\ DOMAIN asc_file = 1 .. Len(asc_file)
           /\ \A k \in 1 .. Len(asc_file) : asc_file'[k] = asc_file[k]
           /\ asc_file'[Len(asc_file) + 1].lino = lino
           /\ asc_file'[Len(asc_file) + 1].errors = err_buf
  <1> DEFINE l == [lino |-> lino, text |-> text, errors |-> err_buf]
             n == Len(asc_file)
  <1>1. l \in Entries /\ l.lino = lino /\ l.text = text /\ l.errors = err_buf
    BY DEF MessagesTyped, Entries
  <1>2. asc_file' = Append(asc_file, l)
    BY DEF asc
  <1> HIDE DEF l
  <1>3. /\ asc_file \in Seq(Entries) /\ n \in Nat
        /\ asc_file' \in Seq(Entries) /\ Len(asc_file') = n + 1
        /\ \A k \in 1 .. n : asc_file'[k] = asc_file[k]
        /\ asc_file'[n + 1] = l
    BY <1>1, <1>2, AppendProperties, LenProperties DEF MessagesTyped
  <1>4. DOMAIN asc_file = 1 .. n /\ DOMAIN asc_file' = 1 .. n + 1 /\ n + 1 \in 1 .. n + 1
    BY <1>3, LenProperties
  <1>5. /\ \A k \in 1 .. n : asc_file[k] \in Entries
        /\ \A k \in 1 .. n + 1 : asc_file'[k] \in Entries
    BY <1>3, ElementOfSeq
  <1>6. Texts \in [1 .. n -> Seq(Symbols)] /\ Errs \in [1 .. n -> Seq(Reports)]
    BY <1>4, <1>5 DEF Texts, Errs, Entries
  <1>7. Texts' \in [1 .. n + 1 -> Seq(Symbols)] /\ Errs' \in [1 .. n + 1 -> Seq(Reports)]
    BY <1>4, <1>5 DEF Texts, Errs, Entries
  <1>8. ASSUME NEW k \in 1 .. n PROVE Texts'[k] = Texts[k] /\ Errs'[k] = Errs[k]
    BY <1>3, <1>4 DEF Texts, Errs
  <1>9. Texts'[n + 1] = text /\ Errs'[n + 1] = err_buf
    BY <1>1, <1>3, <1>4 DEF Texts, Errs
  <1> HIDE DEF n
  <1>10. Texts \in Seq(Seq(Symbols)) /\ Texts' = Append(Texts, Texts'[n + 1])
    BY <1>3, <1>6, <1>7, <1>8, Longer
  <1>11. Errs \in Seq(Seq(Reports)) /\ Errs' = Append(Errs, Errs'[n + 1])
    BY <1>3, <1>6, <1>7, <1>8, Longer
  <1> QED BY <1>1, <1>3, <1>4, <1>9, <1>10, <1>11 DEF n

\* What there is before the first line: nothing.
LEMMA NoLines ==
    /\ asc_file = <<>> => Texts = <<>> /\ Errs = <<>>
    /\ reported = <<>> => Shown = <<>>
  BY EmptySeq DEF Texts, Errs, Shown

\* Nothing is read, reported or opened before the outputs are.
NotStarted ==
    phase \in {"arguments", "open"} =>
      /\ asc_file = <<>> /\ line_buf = <<>> /\ input = source /\ yylineno = 1
      /\ lookahead = "none" /\ err_buf = <<>> /\ reported = <<>> /\ files = {}

\* A step that leaves text and messages alone.  It may open the .asc file only
\* before anything is read.
Quiet ==
    /\ UNCHANGED <<asc_file, line_buf, input, source, yylineno, err_buf, reported>>
    /\ "-asc" \in files' => "-asc" \in files \/ phase = "open"
    /\ phase = "undefined" => phase' = "undefined"
    /\ lookahead' = "end" <=> lookahead = "end"

\* What a step does to text and messages.
LEMMA QuietSteps ==
    ASSUME TypeOK, [Next]_vars
    PROVE  \/ Match \/ Newline \/ EndOfFile
           \/ report_type_error \/ StructuralError \/ SyntaxError
           \/ Quiet
  <1>1. CASE NextArgument \/ OpenSource \/ Overflow \/ ParseEnds \/ Close
    BY <1>1 DEF NextArgument, OpenSource, Overflow, ParseEnds, Close, Quiet, scanner, errors,
                parser
  <1>2. CASE OpenOutputs
    BY <1>2 DEF OpenOutputs, Quiet, scanner, errors, parser
  <1>3. CASE Shift \/ Discard
    <2>1. lookahead = "token" /\ lookahead' = "none" /\ phase = "parse" /\ phase' = phase
      BY <1>3 DEF Shift, Discard, Discarded
    <2> QED BY <1>3, <2>1 DEF Shift, Discard, Quiet, scanner, errors
  <1>4. CASE WriteSymbolTable \/ printIR \/ printCG
    BY <1>4 DEF WriteSymbolTable, printIR, printCG, WriteFile, Quiet, scanner, errors, parser
  <1>5. CASE generateAssembly
    BY <1>5 DEF generateAssembly, Quiet, scanner, parser
  <1>6. CASE UNCHANGED vars
    BY <1>6 DEF vars, Quiet, scanner, errors, parser
  <1> QED BY <1>1, <1>2, <1>3, <1>4, <1>5, <1>6 DEF Next

\* The phases main is in before the parse are not come back to.
LEMMA NotStartedStep ==
    ASSUME TypeOK, NotStarted, [Next]_vars
    PROVE  NotStarted'
  <1> USE DEF NotStarted, Return, GoOn
  <1>1. CASE NextArgument \/ OpenSource \/ OpenOutputs
    BY <1>1 DEF NextArgument, OpenSource, OpenOutputs, scanner, errors, parser
  <1>2. CASE Shift \/ Discard \/ generateAssembly
    BY <1>2 DEF Shift, Discard, generateAssembly
  <1>3. CASE \/ Match \/ Newline \/ EndOfFile
             \/ report_type_error \/ StructuralError \/ SyntaxError
    <2>1. phase = "parse" /\ phase' \in {phase, "undefined"}
      BY <1>3 DEF Match, Newline, EndOfFile, Copies, yylex, report_type_error,
                  StructuralError, SyntaxError, Report
    <2> QED BY <2>1
  <1>4. CASE ParseEnds \/ Overflow \/ Close
    BY <1>4 DEF ParseEnds, Overflow, Close
  <1>5. CASE WriteSymbolTable \/ printIR \/ printCG
    BY <1>5 DEF WriteSymbolTable, printIR, printCG, WriteFile
  <1>6. CASE UNCHANGED vars
    BY <1>6 DEF vars, scanner, errors, parser
  <1> QED BY <1>1, <1>2, <1>3, <1>4, <1>5, <1>6 DEF Next

\* The input is what is left of the source.
Rest ==
    /\ Len(input) <= Len(source)
    /\ \A k \in 1 .. Len(input) : input[k] = source[Len(source) - Len(input) + k]

\* One match more is scanned.
LEMMA ScannedStep ==
    ASSUME TextTyped, Rest, input # <<>>, input' = Tail(input), source' = source
    PROVE  /\ Rest' /\ Scanned \in Seq(Symbols) /\ Head(input) \in Symbols
           /\ Scanned' = Append(Scanned, Head(input))
  <1> DEFINE m == Len(source)
             n == Len(input)
             S == Symbols
             h == Head(input)
  <1>1. /\ m \in Nat /\ n \in Nat /\ n # 0 /\ n <= m
        /\ \A k \in 1 .. m : source[k] \in S
    BY LenProperties, EmptySeq, ElementOfSeq DEF TextTyped, Rest
  <1>2. /\ h \in S /\ Len(input') = n - 1 /\ h = input[1]
        /\ \A k \in 1 .. n - 1 : input'[k] = input[k + 1]
    BY HeadTailProperties DEF TextTyped
  <1>3. h = source[m - n + 1]
    BY <1>1, <1>2 DEF Rest
  <1>4. Rest'
    <2>1. ASSUME NEW k \in 1 .. n - 1 PROVE input'[k] = source[m - (n - 1) + k]
      <3>1. k + 1 \in 1 .. n /\ m - n + (k + 1) = m - (n - 1) + k
        BY <1>1
      <3>2. input[k + 1] = source[m - n + (k + 1)]
        BY <3>1 DEF Rest
      <3> QED BY <1>2, <3>1, <3>2
    <2>2. n - 1 <= m
      BY <1>1
    <2> QED BY <1>2, <2>1, <2>2 DEF Rest
  <1> HIDE DEF h, S
  <1> DEFINE a == SubSeq(source, 1, m - n)
             b == SubSeq(source, 1, m - n + 1)
             c == Append(a, h)
  <1>5. Scanned = a /\ Scanned' = b
    <2>1. m - (n - 1) = m - n + 1
      BY <1>1
    <2> QED BY <1>2, <2>1 DEF Scanned
  <1> HIDE DEF m, n
  <1>6. /\ a \in Seq(S) /\ Len(a) = m - n
        /\ \A k \in 1 .. m - n : a[k] = source[k]
    <2>1. /\ m - n \in Int /\ m - n - 1 + 1 = m - n /\ (1 <= m - n \/ m - n = 0)
          /\ \A k \in 1 .. m - n : source[k] \in S /\ 1 + k - 1 = k
      BY <1>1
    <2>2. /\ a \in Seq(S) /\ Len(a) = IF 1 <= m - n THEN m - n - 1 + 1 ELSE 0
          /\ \A k \in 1 .. m - n - 1 + 1 : a[k] = source[1 + k - 1]
      BY <2>1, SubSeqProperties
    <2> QED BY <2>1, <2>2
  <1>7. /\ b \in Seq(S) /\ Len(b) = m - n + 1
        /\ \A k \in 1 .. m - n + 1 : b[k] = source[k]
    <2>1. /\ m - n + 1 \in Int /\ m - n + 1 - 1 + 1 = m - n + 1 /\ 1 <= m - n + 1
          /\ \A k \in 1 .. m - n + 1 : source[k] \in S /\ 1 + k - 1 = k
      BY <1>1
    <2>2. /\ b \in Seq(S) /\ Len(b) = IF 1 <= m - n + 1 THEN m - n + 1 - 1 + 1 ELSE 0
          /\ \A k \in 1 .. m - n + 1 - 1 + 1 : b[k] = source[1 + k - 1]
      BY <2>1, SubSeqProperties
    <2> QED BY <2>1, <2>2
  <1> HIDE DEF a, b
  <1>8. /\ c \in Seq(S) /\ Len(c) = Len(a) + 1
        /\ \A k \in 1 .. Len(a) : c[k] = a[k]
        /\ c[Len(a) + 1] = h
    BY <1>2, <1>6, AppendProperties
  <1> HIDE DEF c
  <1>9. \A k \in 1 .. Len(b) : b[k] = c[k]
    <2> SUFFICES ASSUME NEW k \in 1 .. m - n + 1 PROVE b[k] = c[k]
      BY <1>7
    <2>1. CASE k = m - n + 1
      BY <1>3, <1>6, <1>7, <1>8, <2>1 DEF m, n
    <2>2. CASE k \in 1 .. m - n
      BY <1>6, <1>7, <1>8, <2>2
    <2> QED BY <1>1, <2>1, <2>2
  <1>10. b = c
    BY <1>6, <1>7, <1>8, <1>9, SeqEqual
  <1> QED BY <1>2, <1>4, <1>5, <1>6, <1>10 DEF c, S, h

LEMMA ConcatAppend ==
    ASSUME NEW S, NEW s \in Seq(S), NEW t \in Seq(S), NEW x \in S
    PROVE  s \o Append(t, x) = Append(s \o t, x)
  <1>1. <<x>> \in Seq(S) /\ s \o t \in Seq(S)
    BY ConcatProperties
  <1>2. Append(t, x) = t \o <<x>> /\ Append(s \o t, x) = (s \o t) \o <<x>>
    BY <1>1, AppendIsConcat
  <1>3. (s \o t) \o <<x>> = s \o (t \o <<x>>)
    BY <1>1, ConcatAssociative
  <1> QED BY <1>2, <1>3

\* The lines are numbered from 1, and until the end of the input is read the
\* scanner is on the line after them.
LinesNumbered ==
    "-asc" \in files =>
      /\ lookahead # "end" => yylineno = Len(asc_file) + 1
      /\ \A k \in DOMAIN asc_file : asc_file[k].lino = k

TextKept ==
    "-asc" \in files =>
      \/ FlattenSeq(Texts) \o line_buf = Scanned
      \/ lookahead = "end" /\ FlattenSeq(Texts) \o line_buf = Append(Scanned, "newline")

Copying == NotStarted /\ Rest /\ LinesNumbered /\ TextKept

\* A line that ends leaves line_buf for the file; the text does not change but
\* for the newline.
LEMMA LineCopied ==
    ASSUME TextTyped, MessagesTyped, LinesNumbered, "-asc" \in files,
           lookahead # "end", asc(yylineno, Append(line_buf, "newline"))
    PROVE  /\ FlattenSeq(Texts') \o line_buf' = Append(FlattenSeq(Texts) \o line_buf, "newline")
           /\ Len(asc_file') = yylineno
           /\ \A k \in DOMAIN asc_file' : asc_file'[k].lino = k
  <1> DEFINE S == Symbols
             F == FlattenSeq(Texts)
             text == Append(line_buf, "newline")
  <1>0. line_buf \in Seq(S) /\ "newline" \in S /\ yylineno \in Nat
    BY DEF TextTyped, Symbols
  <1>1. text \in Seq(S)
    BY <1>0, AppendProperties
  <1>2. /\ Texts \in Seq(Seq(S)) /\ Texts' = Append(Texts, text)
        /\ Errs \in Seq(Seq(Reports)) /\ Errs' = Append(Errs, err_buf)
        /\ Len(asc_file) \in Nat /\ Len(asc_file') = Len(asc_file) + 1
        /\ DOMAIN asc_file' = 1 .. Len(asc_file) + 1 /\ DOMAIN asc_file = 1 .. Len(asc_file)
        /\ \A k \in 1 .. Len(asc_file) : asc_file'[k] = asc_file[k]
        /\ asc_file'[Len(asc_file) + 1].lino = yylineno
        /\ asc_file'[Len(asc_file) + 1].errors = err_buf
    BY <1>0, <1>1, AscAppends
  <1>3. line_buf' = <<>>
    BY DEF asc
  <1>4. yylineno = Len(asc_file) + 1 /\ \A k \in 1 .. Len(asc_file) : asc_file[k].lino = k
    BY <1>2 DEF LinesNumbered
  <1>5. \A k \in 1 .. Len(asc_file) + 1 : asc_file'[k].lino = k
    <2> SUFFICES ASSUME NEW k \in 1 .. Len(asc_file) + 1 PROVE asc_file'[k].lino = k
      OBVIOUS
    <2>1. CASE k = Len(asc_file) + 1
      BY <1>2, <1>4, <2>1
    <2>2. CASE k \in 1 .. Len(asc_file)
      BY <1>2, <1>4, <2>2
    <2>3. Len(asc_file) \in Nat
      BY <1>2
    <2> QED BY <2>1, <2>2, <2>3
  <1> HIDE DEF S, text
  <1>6. F \in Seq(S) /\ FlattenSeq(Append(Texts, text)) = F \o text
    BY <1>1, <1>2, FlattenAppend
  <1>7. F \o text \in Seq(S)
    BY <1>1, <1>6, ConcatProperties
  <1>8. (F \o text) \o <<>> = F \o text
    BY <1>7, ConcatEmptySeq
  <1> HIDE DEF F
  <1>9. F \o text = Append(F \o line_buf, "newline")
    BY <1>0, <1>6, ConcatAppend DEF text
  <1> QED BY <1>2, <1>3, <1>4, <1>5, <1>6, <1>8, <1>9 DEF F

LEMMA CopyingStep ==
    ASSUME TypeOK, Copying, [Next]_vars
    PROVE  Copying'
  <1>0. TextTyped /\ MessagesTyped /\ NotStarted'
    BY TypeParts, NotStartedStep DEF Copying
  <1> USE DEF Copying
  <1> DEFINE F == FlattenSeq(Texts)
  <1>1. CASE Quiet
    <2>1. Rest' /\ Scanned' = Scanned
      BY <1>1 DEF Quiet, Rest, Scanned
    <2>2. CASE "-asc" \in files
      <3>1. Texts' = Texts /\ line_buf' = line_buf
        BY <1>1 DEF Quiet, Texts
      <3>2. TextKept'
        BY <1>1, <2>1, <2>2, <3>1 DEF Quiet, TextKept
      <3>3. LinesNumbered'
        BY <1>1, <2>2 DEF Quiet, LinesNumbered
      <3> QED BY <1>0, <2>1, <3>2, <3>3
    <2>3. CASE "-asc" \notin files /\ phase = "open"
      <3>1. /\ asc_file' = <<>> /\ line_buf' = <<>> /\ input = source /\ yylineno' = 1
        BY <1>1, <2>3 DEF Quiet, NotStarted
      <3>2. FlattenSeq(Texts') = <<>>
        BY <3>1, NoLines, FlattenEmpty, EmptySeq DEF Texts
      <3>3. <<>> \o <<>> = <<>>
        BY EmptySeq, ConcatEmptySeq
      <3>4. Scanned = <<>>
        <4>1. Len(source) \in Nat
          BY <1>0, LenProperties DEF TextTyped
        <4>2. Len(source) - Len(input) = 0
          BY <3>1, <4>1
        <4> QED BY <4>2, SubSeqEmpty DEF Scanned
      <3>5. TextKept'
        BY <2>1, <3>1, <3>2, <3>3, <3>4 DEF TextKept
      <3>6. LinesNumbered'
        BY <3>1, EmptySeq DEF LinesNumbered
      <3> QED BY <1>0, <2>1, <3>5, <3>6
    <2>4. CASE "-asc" \notin files'
      BY <1>0, <2>1, <2>4 DEF TextKept, LinesNumbered
    <2> QED BY <1>1, <2>2, <2>3, <2>4 DEF Quiet
  <1>2. CASE Match
    <2>1. /\ input # <<>> /\ input' = Tail(input) /\ lookahead = "none" /\ lookahead' # "end"
          /\ line_buf' = Append(line_buf, Head(input))
          /\ UNCHANGED <<yylineno, asc_file, files, source>>
      BY <1>2 DEF Match, Matched, yylex
    <2>2. /\ Rest' /\ Scanned \in Seq(Symbols) /\ Head(input) \in Symbols
          /\ Scanned' = Append(Scanned, Head(input))
      BY <1>0, <2>1, ScannedStep
    <2>3. LinesNumbered'
      BY <2>1 DEF LinesNumbered
    <2>4. ASSUME "-asc" \in files PROVE TextKept'
      <3>1. Texts' = Texts
        BY <2>1 DEF Texts
      <3>2. F \o line_buf = Scanned
        BY <2>1, <2>4 DEF TextKept
      <3>3. Texts \in Seq(Seq(Symbols))
        <4>1. /\ DOMAIN asc_file = 1 .. Len(asc_file) /\ Len(asc_file) \in Nat
              /\ \A k \in 1 .. Len(asc_file) : asc_file[k] \in Entries
          BY <1>0, LenProperties, ElementOfSeq DEF MessagesTyped
        <4>2. Texts \in [1 .. Len(asc_file) -> Seq(Symbols)]
          BY <4>1 DEF Texts, Entries
        <4> QED BY <4>1, <4>2
      <3>4. F \in Seq(Symbols)
        BY <3>3, FlattenAppend, EmptySeq
      <3>5. line_buf \in Seq(Symbols)
        BY <1>0 DEF TextTyped
      <3> DEFINE h == Head(input)
      <3> HIDE DEF F, h
      <3>6. F \o Append(line_buf, h) = Append(F \o line_buf, h)
        BY <2>2, <3>4, <3>5, ConcatAppend DEF h
      <3> QED BY <2>1, <2>2, <3>1, <3>2, <3>6 DEF TextKept, F, h
    <2> QED BY <1>0, <2>1, <2>2, <2>3, <2>4 DEF TextKept
  <1>3. CASE Newline
    <2>1. /\ input # <<>> /\ input' = Tail(input) /\ Head(input) = "newline"
          /\ lookahead = "none" /\ lookahead' = lookahead /\ yylineno' = yylineno + 1
          /\ asc(yylineno' - 1, Append(line_buf, "newline"))
          /\ UNCHANGED <<files, source>>
      BY <1>3 DEF Newline, Matched, yylex, parser
    <2>2. yylineno' - 1 = yylineno
      BY <1>0, <2>1 DEF TextTyped
    <2>3. /\ Rest' /\ Scanned \in Seq(Symbols) /\ Head(input) \in Symbols
          /\ Scanned' = Append(Scanned, Head(input))
      BY <1>0, <2>1, ScannedStep
    <2>4. CASE "-asc" \in files
      <3>1. asc(yylineno, Append(line_buf, "newline"))
        BY <2>1, <2>2
      <3>2. /\ FlattenSeq(Texts') \o line_buf' = Append(FlattenSeq(Texts) \o line_buf, "newline")
            /\ Len(asc_file') = yylineno
            /\ \A k \in DOMAIN asc_file' : asc_file'[k].lino = k
        BY <1>0, <2>1, <2>4, <3>1, LineCopied
      <3>3. F \o line_buf = Scanned
        BY <2>1, <2>4 DEF TextKept
      <3>4. TextKept'
        BY <2>1, <2>3, <3>2, <3>3 DEF TextKept
      <3>5. LinesNumbered'
        BY <2>1, <3>2 DEF LinesNumbered
      <3> QED BY <1>0, <2>3, <3>4, <3>5
    <2>5. CASE "-asc" \notin files
      BY <1>0, <2>1, <2>3, <2>5 DEF TextKept, LinesNumbered
    <2> QED BY <2>4, <2>5
  <1>4. CASE EndOfFile
    <2>1. /\ lookahead = "none" /\ lookahead' = "end"
          /\ UNCHANGED <<yylineno, files, source, input>>
          /\ \/ asc(yylineno, Append(line_buf, "newline"))
             \/ UNCHANGED <<asc_file, line_buf>>
      BY <1>4 DEF EndOfFile, yylex
    <2>2. Rest' /\ Scanned' = Scanned
      BY <2>1 DEF Rest, Scanned
    <2>3. CASE "-asc" \in files
      <3>1. F \o line_buf = Scanned
        BY <2>1, <2>3 DEF TextKept
      <3>2. CASE asc(yylineno, Append(line_buf, "newline"))
        <4>1. /\ FlattenSeq(Texts') \o line_buf' = Append(FlattenSeq(Texts) \o line_buf, "newline")
              /\ Len(asc_file') = yylineno
              /\ \A k \in DOMAIN asc_file' : asc_file'[k].lino = k
          BY <1>0, <2>1, <2>3, <3>2, LineCopied
        <4>2. TextKept'
          BY <2>1, <2>2, <3>1, <4>1 DEF TextKept
        <4>3. LinesNumbered'
          BY <2>1, <4>1 DEF LinesNumbered
        <4> QED BY <1>0, <2>2, <4>2, <4>3
      <3>3. CASE UNCHANGED <<asc_file, line_buf>>
        <4>1. Texts' = Texts
          BY <3>3 DEF Texts
        <4>2. TextKept'
          BY <2>1, <2>2, <3>1, <3>3, <4>1 DEF TextKept
        <4>3. LinesNumbered'
          BY <2>1, <2>3, <3>3 DEF LinesNumbered
        <4> QED BY <1>0, <2>2, <4>2, <4>3
      <3> QED BY <2>1, <3>2, <3>3
    <2>4. CASE "-asc" \notin files
      BY <1>0, <2>1, <2>2, <2>4 DEF TextKept, LinesNumbered
    <2> QED BY <2>3, <2>4
  <1>5. CASE report_type_error \/ StructuralError \/ SyntaxError
    <2>1. UNCHANGED <<asc_file, files, lookahead, line_buf, input, source, yylineno>>
      BY <1>5 DEF report_type_error, StructuralError, SyntaxError, scanner, parser
    <2>2. Texts' = Texts /\ Scanned' = Scanned /\ Rest'
      BY <2>1 DEF Texts, Scanned, Rest
    <2>3. TextKept'
      BY <2>1, <2>2 DEF TextKept
    <2>4. LinesNumbered'
      BY <2>1 DEF LinesNumbered
    <2> QED BY <1>0, <2>2, <2>3, <2>4
  <1> QED BY <1>1, <1>2, <1>3, <1>4, <1>5, QuietSteps

\* The .asc file holds the source as far as it is scanned, line by line,
\* whatever the parser does in between, as long as no line overruns its buffer.
THEOREM SourceCopiedAlways == Spec => []SourceCopied
  <1>1. Init => Copying
    <2> SUFFICES ASSUME Init PROVE Copying
      OBVIOUS
    <2>1. NotStarted /\ LinesNumbered /\ TextKept
      BY DEF Init, NotStarted, LinesNumbered, TextKept
    <2>2. Len(source) \in Nat /\ input = source
      BY DriverAssumption, LenProperties DEF Init
    <2>3. Rest
      BY <2>2 DEF Rest
    <2> QED BY <2>1, <2>3 DEF Copying
  <1>2. TypeOK /\ Copying /\ [Next]_vars => Copying'
    BY CopyingStep
  <1>3. TypeOK /\ Copying => SourceCopied
    BY DEF Copying, LinesNumbered, TextKept, Texts, Scanned, SourceCopied, InAsc
  <1> QED BY <1>1, <1>2, <1>3, TypeCorrect, PTL DEF Spec

-----------------------------------------------------------------------------

\* The messages still in err_buf are of the line the scanner is on.
WaitingHere == \A k \in 1 .. Len(err_buf) : err_buf[k].line = yylineno

MessagesKept ==
    "-asc" \in files /\ phase # "undefined" => FlattenSeq(Errs) \o err_buf = FlattenSeq(Shown)

MessagesBelow ==
    \A k \in DOMAIN asc_file : \A i \in 1 .. Len(asc_file[k].errors) :
      asc_file[k].errors[i].line = asc_file[k].lino

Annotating == NotStarted /\ WaitingHere /\ MessagesKept /\ MessagesBelow

\* What one more error does: it waits in err_buf and is among those shown, or
\* is in neither, unless the step has no meaning in C.
LEMMA ReportShown ==
    ASSUME TypeOK, NEW kind \in Kinds, NEW buffered \in BOOLEAN, Report(kind, buffered),
           WaitingHere
    PROVE  /\ \A k \in 1 .. Len(err_buf') : err_buf'[k].line = yylineno
           /\ FlattenSeq(Shown) \in Seq(Reports)
           /\ \/ phase' = "undefined"
              \/ \E e \in Reports : /\ err_buf' = Append(err_buf, e)
                                    /\ FlattenSeq(Shown') = Append(FlattenSeq(Shown), e)
              \/ /\ err_buf' = err_buf
                 /\ FlattenSeq(Shown') = FlattenSeq(Shown)
  <1> DEFINE e == [kind |-> kind, line |-> yylineno, buffered |-> buffered,
                   atEnd |-> lookahead = "end"]
             R == Reports
             n == Len(reported)
  <1>0. /\ err_buf \in Seq(R) /\ Len(err_buf) \in Nat /\ reported \in Seq(R) /\ n \in Nat
        /\ yylineno \in Nat
    BY LenProperties DEF TypeOK
  <1>1. e \in R /\ e.line = yylineno /\ e.buffered = buffered
    BY <1>0 DEF Reports, Kinds
  <1>2. reported' = Append(reported, e)
    BY DEF Report
  <1>3. \/ phase' = "undefined" /\ err_buf' = err_buf
        \/ buffered /\ err_buf' = Append(err_buf, e)
        \/ ~buffered /\ err_buf' = err_buf
    BY DEF Report, GoOn
  <1> HIDE DEF e, R
  <1>4. \A k \in 1 .. Len(err_buf') : err_buf'[k].line = yylineno
    <2>1. CASE err_buf' = err_buf
      BY <2>1 DEF WaitingHere
    <2>2. CASE err_buf' = Append(err_buf, e)
      <3>1. /\ Len(err_buf') = Len(err_buf) + 1
            /\ \A k \in 1 .. Len(err_buf) : err_buf'[k] = err_buf[k]
            /\ err_buf'[Len(err_buf) + 1] = e
        BY <1>0, <1>1, <2>2, AppendProperties
      <3> SUFFICES ASSUME NEW k \in 1 .. Len(err_buf) + 1 PROVE err_buf'[k].line = yylineno
        BY <3>1
      <3>2. CASE k = Len(err_buf) + 1
        BY <1>1, <3>1, <3>2
      <3>3. CASE k \in 1 .. Len(err_buf)
        BY <3>1, <3>3 DEF WaitingHere
      <3> QED BY <1>0, <3>2, <3>3
    <2> QED BY <1>3, <2>1, <2>2
  <1>5. /\ reported' \in Seq(R) /\ Len(reported') = n + 1 /\ reported'[n + 1] = e
        /\ \A k \in 1 .. n : reported'[k] = reported[k]
    BY <1>0, <1>1, <1>2, AppendProperties
  <1>6. DOMAIN reported = 1 .. n /\ DOMAIN reported' = 1 .. n + 1 /\ n + 1 \in 1 .. n + 1
    BY <1>0, <1>5, LenProperties
  <1>7. /\ \A k \in 1 .. n : reported[k] \in R
        /\ \A k \in 1 .. n + 1 : reported'[k] \in R
    BY <1>0, <1>5, ElementOfSeq
  <1>8. /\ <<>> \in Seq(R) /\ \A r \in R : <<r>> \in Seq(R)
    BY EmptySeq
  <1>9. Shown \in [1 .. n -> Seq(R)] /\ Shown' \in [1 .. n + 1 -> Seq(R)]
    BY <1>6, <1>7, <1>8 DEF Shown
  <1>10. ASSUME NEW k \in 1 .. n PROVE Shown'[k] = Shown[k]
    <2>1. k \in 1 .. n + 1
      BY <1>0
    <2> QED BY <1>5, <1>6, <2>1 DEF Shown
  <1>11. Shown'[n + 1] = IF buffered THEN <<e>> ELSE <<>>
    BY <1>1, <1>5, <1>6 DEF Shown
  <1> DEFINE x == IF buffered THEN <<e>> ELSE <<>>
             F == FlattenSeq(Shown)
  <1>12. x \in Seq(R)
    BY <1>1, <1>8
  <1> HIDE DEF n, x
  <1>13. Shown \in Seq(Seq(R)) /\ Shown' = Append(Shown, Shown'[n + 1])
    BY <1>0, <1>9, <1>10, Longer
  <1>14. F \in Seq(R) /\ FlattenSeq(Append(Shown, x)) = F \o x
    BY <1>12, <1>13, FlattenAppend
  <1>15. FlattenSeq(Shown') = F \o x
    BY <1>11, <1>13, <1>14 DEF x
  <1> HIDE DEF F
  <1>16. CASE buffered /\ err_buf' = Append(err_buf, e)
    <2>1. x = <<e>>
      BY <1>16 DEF x
    <2>2. F \o <<e>> = Append(F, e)
      BY <1>1, <1>14, AppendIsConcat
    <2> QED BY <1>1, <1>4, <1>14, <1>15, <1>16, <2>1, <2>2 DEF F, R
  <1>17. CASE ~buffered /\ err_buf' = err_buf
    <2>1. x = <<>>
      BY <1>17 DEF x
    <2>2. F \o <<>> = F
      BY <1>14, ConcatEmptySeq
    <2> QED BY <1>4, <1>14, <1>15, <1>17, <2>1, <2>2 DEF F, R
  <1> QED BY <1>3, <1>4, <1>14, <1>16, <1>17 DEF F, R

\* What a line that ends does: its messages move from err_buf to the file.
LEMMA LineAnnotated ==
    ASSUME TextTyped, MessagesTyped, WaitingHere, MessagesBelow,
           NEW text \in Seq(Symbols), asc(yylineno, text)
    PROVE  /\ err_buf' = <<>>
           /\ MessagesBelow'
           /\ "-asc" \in files => FlattenSeq(Errs') \o err_buf' = FlattenSeq(Errs) \o err_buf
  <1>0. yylineno \in Nat /\ err_buf \in Seq(Reports)
    BY DEF TextTyped, MessagesTyped
  <1>1. err_buf' = <<>>
    BY DEF asc
  <1>2. CASE "-asc" \notin files
    <2>1. asc_file' = asc_file
      BY <1>2 DEF asc
    <2> QED BY <1>1, <1>2, <2>1 DEF MessagesBelow
  <1>3. CASE "-asc" \in files
    <2>1. /\ Texts \in Seq(Seq(Symbols)) /\ Texts' = Append(Texts, text)
          /\ Errs \in Seq(Seq(Reports)) /\ Errs' = Append(Errs, err_buf)
          /\ Len(asc_file) \in Nat /\ Len(asc_file') = Len(asc_file) + 1
          /\ DOMAIN asc_file' = 1 .. Len(asc_file) + 1 /\ DOMAIN asc_file = 1 .. Len(asc_file)
          /\ \A k \in 1 .. Len(asc_file) : asc_file'[k] = asc_file[k]
          /\ asc_file'[Len(asc_file) + 1].lino = yylineno
          /\ asc_file'[Len(asc_file) + 1].errors = err_buf
      BY <1>0, <1>3, AscAppends
    <2>2. MessagesBelow'
      <3> SUFFICES ASSUME NEW k \in 1 .. Len(asc_file) + 1,
                          NEW i \in 1 .. Len(asc_file'[k].errors)
                   PROVE  asc_file'[k].errors[i].line = asc_file'[k].lino
        BY <2>1 DEF MessagesBelow
      <3>1. CASE k = Len(asc_file) + 1
        BY <2>1, <3>1 DEF WaitingHere
      <3>2. CASE k \in 1 .. Len(asc_file)
        BY <2>1, <3>2 DEF MessagesBelow
      <3> QED BY <2>1, <3>1, <3>2
    <2> DEFINE F == FlattenSeq(Errs)
               R == Reports
    <2> HIDE DEF R
    <2>3. F \in Seq(R) /\ FlattenSeq(Append(Errs, err_buf)) = F \o err_buf
      BY <1>0, <2>1, FlattenAppend DEF R
    <2> HIDE DEF F
    <2>4. F \o err_buf \in Seq(R)
      BY <1>0, <2>3, ConcatProperties DEF R
    <2>5. (F \o err_buf) \o <<>> = F \o err_buf
      BY <2>4, ConcatEmptySeq
    <2> QED BY <1>1, <2>1, <2>2, <2>3, <2>5 DEF F
  <1> QED BY <1>2, <1>3

LEMMA AnnotatingStep ==
    ASSUME TypeOK, Annotating, [Next]_vars
    PROVE  Annotating'
  <1>0. TextTyped /\ MessagesTyped /\ NotStarted'
    BY TypeParts, NotStartedStep DEF Annotating
  <1> USE DEF Annotating
  <1>1. CASE Quiet
    <2>1. WaitingHere' /\ MessagesBelow' /\ Errs' = Errs /\ Shown' = Shown
      BY <1>1 DEF Quiet, WaitingHere, MessagesBelow, Errs, Shown
    <2>2. CASE "-asc" \notin files /\ phase = "open"
      <3>1. asc_file = <<>> /\ err_buf' = <<>> /\ reported = <<>>
        BY <1>1, <2>2 DEF Quiet, NotStarted
      <3>2. Errs' = <<>> /\ Shown' = <<>>
        BY <2>1, <3>1, NoLines
      <3>3. FlattenSeq(Errs') \o err_buf' = FlattenSeq(Shown')
        BY <3>1, <3>2, FlattenEmpty, EmptySeq, ConcatEmptySeq
      <3> QED BY <1>0, <2>1, <3>3 DEF MessagesKept
    <2>3. CASE "-asc" \in files \/ "-asc" \notin files'
      <3>1. MessagesKept'
        BY <1>1, <2>1, <2>3 DEF Quiet, MessagesKept
      <3> QED BY <1>0, <2>1, <3>1
    <2> QED BY <1>1, <2>2, <2>3 DEF Quiet
  <1>2. CASE Match
    <2>1. /\ UNCHANGED <<yylineno, asc_file, files, err_buf, reported>>
          /\ phase = "parse"
      BY <1>2 DEF Match, errors, yylex
    <2>2. Errs' = Errs /\ Shown' = Shown
      BY <2>1 DEF Errs, Shown
    <2>3. WaitingHere' /\ MessagesBelow' /\ MessagesKept'
      BY <2>1, <2>2 DEF WaitingHere, MessagesBelow, MessagesKept
    <2> QED BY <1>0, <2>3
  <1>3. ASSUME phase = "parse", UNCHANGED <<files, reported>>,
               NEW text \in Seq(Symbols), asc(yylineno, text)
        PROVE  Annotating'
    <2>1. /\ err_buf' = <<>>
          /\ MessagesBelow'
          /\ "-asc" \in files => FlattenSeq(Errs') \o err_buf' = FlattenSeq(Errs) \o err_buf
      BY <1>0, <1>3, LineAnnotated
    <2>2. WaitingHere'
      BY <2>1, EmptySeq DEF WaitingHere
    <2>3. Shown' = Shown
      BY <1>3 DEF Shown
    <2>4. MessagesKept'
      BY <1>3, <2>1, <2>3 DEF MessagesKept
    <2> QED BY <1>0, <2>1, <2>2, <2>4
  <1>4. CASE Newline
    <2> DEFINE text == Append(line_buf, "newline")
    <2>1. /\ yylineno' = yylineno + 1 /\ asc(yylineno' - 1, text)
          /\ phase = "parse" /\ UNCHANGED <<files, reported>>
      BY <1>4 DEF Newline, Matched, yylex
    <2>2. yylineno' - 1 = yylineno /\ text \in Seq(Symbols)
      BY <1>0, <2>1, AppendProperties DEF TextTyped, Symbols
    <2> HIDE DEF text
    <2>3. asc(yylineno, text)
      BY <2>1, <2>2
    <2> QED BY <1>3, <2>1, <2>2, <2>3
  <1>5. CASE EndOfFile
    <2> DEFINE text == Append(line_buf, "newline")
    <2>1. /\ phase = "parse" /\ UNCHANGED <<files, reported, yylineno>>
          /\ \/ asc(yylineno, text)
             \/ UNCHANGED <<asc_file, err_buf>>
      BY <1>5 DEF EndOfFile, yylex
    <2>2. text \in Seq(Symbols)
      BY <1>0, AppendProperties DEF TextTyped, Symbols
    <2> HIDE DEF text
    <2>3. CASE asc(yylineno, text)
      BY <1>3, <2>1, <2>2, <2>3
    <2>4. CASE UNCHANGED <<asc_file, err_buf>>
      <3>1. Errs' = Errs /\ Shown' = Shown
        BY <2>1, <2>4 DEF Errs, Shown
      <3>2. WaitingHere' /\ MessagesBelow' /\ MessagesKept'
        BY <2>1, <2>4, <3>1 DEF WaitingHere, MessagesBelow, MessagesKept
      <3> QED BY <1>0, <3>2
    <2> QED BY <2>1, <2>3, <2>4
  <1>6. CASE report_type_error \/ StructuralError \/ SyntaxError
    <2>1. /\ UNCHANGED <<asc_file, files, yylineno>>
          /\ phase = "parse"
      BY <1>6 DEF report_type_error, StructuralError, SyntaxError, scanner
    <2>2. Errs' = Errs /\ MessagesBelow'
      BY <2>1 DEF Errs, MessagesBelow
    <2>3. \/ Report("type", "-tc" \in flags /\ Len(err_buf) < TypeLines)
          \/ Report("structural", TRUE)
          \/ Report("syntax", Fits)
          \/ UNCHANGED <<phase, err_buf, reported>>
      BY <1>6 DEF report_type_error, StructuralError, SyntaxError, errors, GoOn
    <2>4. ("-tc" \in flags /\ Len(err_buf) < TypeLines) \in BOOLEAN /\ Fits \in BOOLEAN
      BY DEF Fits
    <2>5. CASE UNCHANGED <<phase, err_buf, reported>>
      <3>1. Shown' = Shown
        BY <2>5 DEF Shown
      <3>2. WaitingHere' /\ MessagesKept'
        BY <2>1, <2>2, <2>5, <3>1 DEF WaitingHere, MessagesKept
      <3> QED BY <1>0, <2>2, <3>2
    <2>6. CASE \/ Report("type", "-tc" \in flags /\ Len(err_buf) < TypeLines)
               \/ Report("structural", TRUE)
               \/ Report("syntax", Fits)
      <3>1. PICK kind \in Kinds, buffered \in BOOLEAN : Report(kind, buffered)
        BY <2>4, <2>6 DEF Kinds
      <3>2. /\ \A k \in 1 .. Len(err_buf') : err_buf'[k].line = yylineno
            /\ FlattenSeq(Shown) \in Seq(Reports)
            /\ \/ phase' = "undefined"
               \/ \E e \in Reports : /\ err_buf' = Append(err_buf, e)
                                     /\ FlattenSeq(Shown') = Append(FlattenSeq(Shown), e)
               \/ /\ err_buf' = err_buf
                  /\ FlattenSeq(Shown') = FlattenSeq(Shown)
        BY <3>1, ReportShown
      <3>3. WaitingHere'
        BY <2>1, <3>2 DEF WaitingHere
      <3>4. ASSUME "-asc" \in files, phase' # "undefined"
            PROVE  FlattenSeq(Errs') \o err_buf' = FlattenSeq(Shown')
        <4> DEFINE F == FlattenSeq(Errs)
                   S == FlattenSeq(Shown)
                   R == Reports
        <4>1. F \o err_buf = S
          BY <2>1, <3>4 DEF MessagesKept
        <4>2. Errs \in Seq(Seq(R))
          <5>1. /\ DOMAIN asc_file = 1 .. Len(asc_file) /\ Len(asc_file) \in Nat
                /\ \A k \in 1 .. Len(asc_file) : asc_file[k] \in Entries
            BY <1>0, LenProperties, ElementOfSeq DEF MessagesTyped
          <5>2. Errs \in [1 .. Len(asc_file) -> Seq(R)]
            BY <5>1 DEF Errs, Entries
          <5> QED BY <5>1, <5>2
        <4>3. F \in Seq(R) /\ err_buf \in Seq(R)
          BY <1>0, <4>2, FlattenAppend, EmptySeq DEF MessagesTyped
        <4> HIDE DEF F, R
        <4>4. CASE err_buf' = err_buf /\ FlattenSeq(Shown') = S
          BY <2>2, <4>1, <4>4 DEF F
        <4>5. ASSUME NEW e \in R, err_buf' = Append(err_buf, e),
                     FlattenSeq(Shown') = Append(S, e)
              PROVE  FlattenSeq(Errs') \o err_buf' = FlattenSeq(Shown')
          <5>1. F \o Append(err_buf, e) = Append(F \o err_buf, e)
            BY <4>3, ConcatAppend
          <5> QED BY <2>2, <4>1, <4>5, <5>1 DEF F
        <4> QED BY <3>2, <3>4, <4>4, <4>5 DEF R
      <3>5. MessagesKept'
        BY <2>1, <3>4 DEF MessagesKept
      <3> QED BY <1>0, <2>2, <3>3, <3>5
    <2> QED BY <2>3, <2>5, <2>6
  <1> QED BY <1>1, <1>2, <1>4, <1>5, <1>6, QuietSteps

\* Every message that found a line of err_buf is written once and in order,
\* below the line that was being read, for any input and any number of errors.
THEOREM ErrorsAnnotatedAlways == Spec => []ErrorsAnnotated
  <1>1. Init => Annotating
    <2> SUFFICES ASSUME Init PROVE Annotating
      OBVIOUS
    <2>1. NotStarted /\ MessagesKept
      BY DEF Init, NotStarted, MessagesKept
    <2>2. WaitingHere /\ MessagesBelow
      BY EmptySeq DEF Init, WaitingHere, MessagesBelow
    <2> QED BY <2>1, <2>2 DEF Annotating
  <1>2. TypeOK /\ Annotating /\ [Next]_vars => Annotating'
    BY AnnotatingStep
  <1>3. TypeOK /\ Annotating => ErrorsAnnotated
    <2> SUFFICES ASSUME TypeOK, Annotating, "-asc" \in files, phase # "undefined"
                 PROVE  /\ InAsc(LAMBDA l : l.errors) \o err_buf = InErrBuf
                        /\ \A k \in DOMAIN asc_file : \A e \in ToSet(asc_file[k].errors) :
                             e.line = asc_file[k].lino
      BY DEF ErrorsAnnotated
    <2>1. FlattenSeq(Errs) \o err_buf = FlattenSeq(Shown)
      BY DEF Annotating, MessagesKept
    <2>2. InAsc(LAMBDA l : l.errors) \o err_buf = InErrBuf
      BY <2>1 DEF InAsc, InErrBuf, Errs, Shown
    <2>3. ASSUME NEW k \in DOMAIN asc_file, NEW e \in ToSet(asc_file[k].errors)
          PROVE  e.line = asc_file[k].lino
      <3>1. asc_file \in Seq(Entries)
        BY DEF TypeOK, Entries
      <3>2. asc_file[k] \in Entries
        BY <3>1, <2>3, LenProperties, ElementOfSeq
      <3>3. DOMAIN asc_file[k].errors = 1 .. Len(asc_file[k].errors)
        BY <3>2, LenProperties DEF Entries
      <3>4. PICK i \in 1 .. Len(asc_file[k].errors) : e = asc_file[k].errors[i]
        BY <3>3 DEF ToSet
      <3> QED BY <3>4 DEF Annotating, MessagesBelow
    <2> QED BY <2>2, <2>3
  <1> QED BY <1>1, <1>2, <1>3, TypeCorrect, PTL DEF Spec

(***************************************************************************)
(* Which messages are lost.  A run that returns after the parse read the   *)
(* whole input, and what waits then was reported after the last flush; one *)
(* that returns in the middle of it had no type or syntax error to tell    *)
(* of, and what waits is of the line the scanner was on.                   *)
(***************************************************************************)

WaitingTold == \A k \in 1 .. Len(err_buf) : err_buf[k].kind = "structural" \/ error_reported

ReturnedEarly ==
    phase = "returned" /\ lookahead # "end" => err_buf = <<>> \/ ~error_reported

\* A message that waits and is not of a structural error was told.
LEMMA ReportWaits ==
    ASSUME MessagesTyped, yylineno \in Nat,
           NEW kind \in Kinds, NEW buffered \in BOOLEAN, Report(kind, buffered)
    PROVE  \A k \in 1 .. Len(err_buf') :
             \/ k \in 1 .. Len(err_buf) /\ err_buf'[k] = err_buf[k]
             \/ err_buf'[k].kind = kind
  <1> DEFINE e == [kind |-> kind, line |-> yylineno, buffered |-> buffered,
                   atEnd |-> lookahead = "end"]
  <1>1. e \in Reports /\ e.kind = kind
    BY DEF Reports, Kinds
  <1>2. err_buf \in Seq(Reports) /\ Len(err_buf) \in Nat
    BY LenProperties DEF MessagesTyped
  <1>3. err_buf' = Append(err_buf, e) \/ err_buf' = err_buf
    BY DEF Report
  <1> HIDE DEF e
  <1>4. CASE err_buf' = Append(err_buf, e)
    <2>1. /\ Len(err_buf') = Len(err_buf) + 1
          /\ err_buf'[Len(err_buf) + 1] = e
          /\ \A k \in 1 .. Len(err_buf) : err_buf'[k] = err_buf[k]
      BY <1>1, <1>2, <1>4, AppendProperties
    <2> SUFFICES ASSUME NEW k \in 1 .. Len(err_buf')
                 PROVE  \/ k \in 1 .. Len(err_buf) /\ err_buf'[k] = err_buf[k]
                        \/ err_buf'[k].kind = kind
      OBVIOUS
    <2>2. k = Len(err_buf) + 1 \/ k \in 1 .. Len(err_buf)
      BY <1>2, <2>1
    <2> QED BY <1>1, <2>1, <2>2
  <1>5. CASE err_buf' = err_buf
    BY <1>5
  <1> QED BY <1>3, <1>4, <1>5

\* The messages go with the line; a type or syntax error sets error_reported.
LEMMA WaitingToldStep ==
    ASSUME TypeOK, WaitingTold, [Next]_vars
    PROVE  WaitingTold'
  <1>0. MessagesTyped /\ yylineno \in Nat
    BY TypeParts DEF TextTyped
  <1> USE DEF WaitingTold
  <1>1. CASE report_type_error \/ (SyntaxError /\ yyerrstatus = 0)
    <2>1. error_reported'
      BY <1>1 DEF report_type_error, SyntaxError, StopTranslation
    <2> QED BY <2>1
  <1>2. CASE StructuralError
    <2>1. Report("structural", TRUE) /\ UNCHANGED error_reported
      BY <1>2 DEF StructuralError
    <2>2. \A k \in 1 .. Len(err_buf') :
            \/ k \in 1 .. Len(err_buf) /\ err_buf'[k] = err_buf[k]
            \/ err_buf'[k].kind = "structural"
      BY <1>0, <2>1, ReportWaits DEF Kinds
    <2> QED BY <2>1, <2>2
  <1>3. CASE SyntaxError /\ yyerrstatus # 0
    <2>1. UNCHANGED <<err_buf, error_reported>>
      BY <1>3 DEF SyntaxError, errors
    <2> QED BY <2>1
  <1>4. CASE Newline \/ EndOfFile
    <2>1. UNCHANGED error_reported /\ (err_buf' = <<>> \/ UNCHANGED err_buf)
      BY <1>4 DEF Newline, EndOfFile, asc
    <2>2. CASE err_buf' = <<>>
      BY <2>2, EmptySeq
    <2> QED BY <2>1, <2>2
  <1>5. CASE \/ NextArgument \/ OpenSource \/ OpenOutputs \/ Match \/ Shift \/ Discard
             \/ ParseEnds \/ Overflow \/ WriteSymbolTable \/ printIR \/ generateAssembly
             \/ printCG \/ Close \/ UNCHANGED vars
    <2>1. UNCHANGED <<err_buf, error_reported>>
      BY <1>5 DEF NextArgument, OpenSource, OpenOutputs, Match, Shift, Discard, ParseEnds,
                  Overflow, WriteSymbolTable, printIR, generateAssembly, printCG, WriteFile,
                  Close, vars, errors
    <2> QED BY <2>1
  <1> QED BY <1>1, <1>2, <1>3, <1>4, <1>5 DEF Next

\* Before the parse there is no message; in the middle of it only emit returns,
\* which does nothing once error_reported is set; after it all is read.
LEMMA ReturnedEarlyStep ==
    ASSUME NotStarted, ParsedToEnd, ReturnedEarly, [Next]_vars
    PROVE  ReturnedEarly'
  <1> USE DEF ReturnedEarly, Return, GoOn
  <1>1. CASE NextArgument \/ OpenSource \/ OpenOutputs
    <2>1. phase \in {"arguments", "open"} /\ UNCHANGED err_buf
      BY <1>1 DEF NextArgument, OpenSource, OpenOutputs, errors
    <2> QED BY <2>1 DEF NotStarted
  <1>2. CASE Overflow
    <2>1. ~error_reported /\ UNCHANGED error_reported
      BY <1>2 DEF Overflow, errors
    <2> QED BY <2>1
  <1>3. CASE WriteSymbolTable \/ printIR \/ printCG \/ Close
    <2>1. phase \in Parsed /\ UNCHANGED lookahead
      BY <1>3 DEF WriteSymbolTable, printIR, printCG, WriteFile, Close, Parsed, parser
    <2> QED BY <2>1 DEF ParsedToEnd
  <1>4. CASE generateAssembly
    <2>1. phase' # "returned"
      BY <1>4 DEF generateAssembly
    <2> QED BY <2>1
  <1>5. CASE \/ Match \/ Newline \/ EndOfFile \/ Shift \/ Discard \/ ParseEnds
             \/ report_type_error \/ StructuralError \/ SyntaxError
    <2>1. phase = "parse" /\ phase' \in {phase, "parsed", "undefined"}
      BY <1>5 DEF Match, Newline, EndOfFile, Copies, yylex, Shift, Discard, ParseEnds,
                  report_type_error, StructuralError, SyntaxError, Report
    <2> QED BY <2>1
  <1>6. CASE UNCHANGED vars
    BY <1>6 DEF vars, errors, parser
  <1> QED BY <1>1, <1>2, <1>3, <1>4, <1>5, <1>6 DEF Next

\* A message that is never written was reported when the parser had read the
\* end of the input or, when emit exits in the middle of the parse, is of a
\* structural error of the line the scanner was on.
THEOREM LostMessagesAlways == Spec => []LostMessages
  <1> DEFINE IInv == /\ ErrorsHaveText /\ RestIsLate /\ Annotating
                     /\ WaitingTold /\ ParsedToEnd /\ ReturnedEarly
  <1>1. Init => IInv
    <2> SUFFICES ASSUME Init PROVE IInv
      OBVIOUS
    <2>1. ErrorsHaveText /\ RestIsLate /\ ParsedToEnd /\ ReturnedEarly
      BY DEF Init, ErrorsHaveText, RestIsLate, ParsedToEnd, Parsed, ReturnedEarly
    <2>2. NotStarted /\ MessagesKept
      BY DEF Init, NotStarted, MessagesKept
    <2>3. WaitingHere /\ MessagesBelow /\ WaitingTold
      BY EmptySeq DEF Init, WaitingHere, MessagesBelow, WaitingTold
    <2> QED BY <2>1, <2>2, <2>3 DEF Annotating
  <1>2. TypeOK /\ IInv /\ [Next]_vars => IInv'
    <2> SUFFICES ASSUME TypeOK, IInv, [Next]_vars PROVE IInv'
      OBVIOUS
    <2>1. NotStarted
      BY DEF Annotating
    <2>2. ErrorsHaveText' /\ RestIsLate' /\ Annotating' /\ WaitingTold' /\ ParsedToEnd'
      BY ErrorsHaveTextStep, RestIsLateStep, AnnotatingStep, WaitingToldStep, ParsedToEndStep
    <2>3. ReturnedEarly'
      BY <2>1, ReturnedEarlyStep
    <2> QED BY <2>2, <2>3
  <1>3. TypeOK /\ IInv => LostMessages
    <2> SUFFICES ASSUME TypeOK, IInv, phase = "returned", NEW e \in ToSet(err_buf)
                 PROVE  \/ lookahead = "end" /\ e.atEnd
                        \/ lookahead # "end" /\ e.kind = "structural" /\ e.line = yylineno
      BY DEF LostMessages
    <2>1. PICK k \in 1 .. Len(err_buf) : e = err_buf[k]
      <3>1. DOMAIN err_buf = 1 .. Len(err_buf)
        BY LenProperties DEF TypeOK
      <3> QED BY <3>1 DEF ToSet
    <2>2. CASE lookahead = "end"
      BY <2>1, <2>2 DEF RestIsLate
    <2>3. CASE lookahead # "end"
      <3>1. err_buf # <<>>
        BY <2>1, EmptySeq
      <3>2. ~error_reported
        BY <2>3, <3>1 DEF ReturnedEarly
      <3> QED BY <2>1, <2>3, <3>2 DEF WaitingTold, Annotating, WaitingHere
    <2> QED BY <2>2, <2>3
  <1> HIDE DEF IInv
  <1> QED BY <1>1, <1>2, <1>3, TypeCorrect, PTL DEF Spec
=============================================================================

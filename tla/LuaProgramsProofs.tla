--------------------------- MODULE LuaProgramsProofs ---------------------------
(***************************************************************************)
(* Proofs about the parser, in five parts.  For every sequence of tokens:  *)
(* its types and where it stops.  That programs with mistakes are such     *)
(* sequences.  That every program of the grammar, of any length and depth, *)
(* is read to its end without an error.  That the parser waits for the     *)
(* closing words such a program owes, at the depth the program is at.  And *)
(* that what passes without an error is balanced, for every sequence of    *)
(* tokens again.                                                           *)
(***************************************************************************)
EXTENDS LuaPrograms, SequenceTheorems, NaturalsInduction, WellFoundedInduction, TLAPS

(***************************************************************************)
(* The tokens and primitive calls the routines leave behind are symbols,   *)
(* and so are all routines.                                                *)
(***************************************************************************)
LEMMA TokensAreSymbols ==
  ASSUME NEW x \in {"(", ")", ",", "::", "=", "]", "do", "end", "error", "in",
                "name", "skip", "then", "until", "{", "}"}
  PROVE  x \in Symbol
<1>1. CASE x \in {"skip", "error"}
  BY <1>1 DEF Symbol
<1>2. CASE x \in {"name", "end", "until"}
  BY <1>2 DEF Symbol, Token, Atomic, BlockEnd
<1>3. CASE x = ","
  BY <1>3 DEF Symbol, Token, Separator
<1>4. CASE x \in {"(", ")", "::", "=", "]", "do", "in", "then", "{", "}"}
  BY <1>4 DEF Symbol, Token
<1>5. QED BY <1>1, <1>2, <1>3, <1>4

LEMMA RoutinesAreSymbols ==
  ASSUME NEW r \in Routine PROVE r \in Symbol
BY DEF Symbol

LEMMA ShortSequences ==
  ASSUME NEW S, NEW a \in S, NEW b \in S
  PROVE  <<a>> \in Seq(S) /\ <<a, b>> \in Seq(S)
OBVIOUS

LEMMA LongSequence ==
  ASSUME NEW S, NEW a \in S, NEW b \in S, NEW c \in S, NEW d \in S,
         NEW e \in S, NEW f \in S, NEW g \in S, NEW h \in S
  PROVE  <<a, b, c, d, e, f, g, h>> \in Seq(S)
OBVIOUS

(***************************************************************************)
(* What a routine leaves to be done are symbols, for every token.  The     *)
(* steps list the sequences a routine can leave; the routine is one of     *)
(* them whatever the token is.                                             *)
(***************************************************************************)
LEMMA CallsAreSymbols ==
  ASSUME NEW r \in Routine, NEW t
  PROVE  Calls(r, t) \in Seq(Symbol)
<1>1. /\ "Arguments" \in Symbol
      /\ "AssignOrCall" \in Symbol
      /\ "Block" \in Symbol
      /\ "ElseIf" \in Symbol
      /\ "Expression" \in Symbol
      /\ "ExpressionList" \in Symbol
      /\ "Field" \in Symbol
      /\ "FieldOperators" \in Symbol
      /\ "FieldSeparator" \in Symbol
      /\ "Fields" \in Symbol
      /\ "ForKind" \in Symbol
      /\ "ForStep" \in Symbol
      /\ "FunctionBody" \in Symbol
      /\ "FunctionStatement" \in Symbol
      /\ "LocalKind" \in Symbol
      /\ "LocalValues" \in Symbol
      /\ "MethodArguments" \in Symbol
      /\ "MoreExpressions" \in Symbol
      /\ "MoreNames" \in Symbol
      /\ "MoreParameters" \in Symbol
      /\ "MoreTargets" \in Symbol
      /\ "NameTail" \in Symbol
      /\ "NamedField" \in Symbol
      /\ "Operand" \in Symbol
      /\ "Operators" \in Symbol
      /\ "Parameter" \in Symbol
      /\ "Parameters" \in Symbol
      /\ "Power" \in Symbol
      /\ "Primary" \in Symbol
      /\ "ReturnValues" \in Symbol
      /\ "Semicolon" \in Symbol
      /\ "Statement" \in Symbol
      /\ "Suffixes" \in Symbol
      /\ "Table" \in Symbol
  BY RoutinesAreSymbols DEF Routine
<1>2. /\ "(" \in Symbol
      /\ ")" \in Symbol
      /\ "::" \in Symbol
      /\ "=" \in Symbol
      /\ "]" \in Symbol
      /\ "do" \in Symbol
      /\ "end" \in Symbol
      /\ "error" \in Symbol
      /\ "in" \in Symbol
      /\ "name" \in Symbol
      /\ "skip" \in Symbol
      /\ "then" \in Symbol
      /\ "until" \in Symbol
  BY TokensAreSymbols
<1>3. "{" \in Symbol /\ "}" \in Symbol /\ "," \in Symbol  BY TokensAreSymbols
<1>4. Block(t) \in Seq(Symbol)
  <2>1. /\ <<>> \in Seq(Symbol)
        /\ <<"Statement", "Semicolon", "Block">> \in Seq(Symbol)
    BY <1>1, <1>2
  <2> QED BY Zenon, <2>1 DEF Block
<1>5. Semicolon(t) \in Seq(Symbol)
  <2>1. /\ <<"skip">> \in Seq(Symbol)
        /\ <<>> \in Seq(Symbol)
    BY <1>1, <1>2
  <2> QED BY Zenon, <2>1 DEF Semicolon
<1>6. Statement(t) \in Seq(Symbol)
  <2>1. /\ <<"skip", "Expression", "then", "Block", "ElseIf">> \in Seq(Symbol)
        /\ <<"skip", "Expression", "do", "Block", "end">> \in Seq(Symbol)
        /\ <<"skip", "Block", "until", "Expression">> \in Seq(Symbol)
        /\ <<"skip", "name", "ForKind">> \in Seq(Symbol)
        /\ <<"FunctionStatement">> \in Seq(Symbol)
        /\ <<"skip", "LocalKind">> \in Seq(Symbol)
        /\ <<"skip", "ReturnValues">> \in Seq(Symbol)
        /\ <<"skip">> \in Seq(Symbol)
        /\ <<"skip", "name">> \in Seq(Symbol)
        /\ <<"skip", "name", "::">> \in Seq(Symbol)
        /\ <<"skip", "Block", "end">> \in Seq(Symbol)
        /\ <<"Primary", "AssignOrCall">> \in Seq(Symbol)
    BY <1>1, <1>2
  <2> QED BY Zenon, <2>1 DEF Statement
<1>7. AssignOrCall(t) \in Seq(Symbol)
  <2>1. /\ <<"MoreTargets", "=", "ExpressionList">> \in Seq(Symbol)
        /\ <<>> \in Seq(Symbol)
    BY <1>1, <1>2
  <2> QED BY Zenon, <2>1 DEF AssignOrCall
<1>8. MoreTargets(t) \in Seq(Symbol)
  <2>1. /\ <<"skip", "Primary", "MoreTargets">> \in Seq(Symbol)
        /\ <<>> \in Seq(Symbol)
    BY <1>1, <1>2
  <2> QED BY Zenon, <2>1 DEF MoreTargets
<1>9. LocalKind(t) \in Seq(Symbol)
  <2>1. /\ <<"FunctionStatement">> \in Seq(Symbol)
        /\ <<"name", "MoreNames", "LocalValues">> \in Seq(Symbol)
    BY <1>1, <1>2
  <2> QED BY Zenon, <2>1 DEF LocalKind
<1>10. LocalValues(t) \in Seq(Symbol)
  <2>1. /\ <<"skip", "ExpressionList">> \in Seq(Symbol)
        /\ <<>> \in Seq(Symbol)
    BY <1>1, <1>2
  <2> QED BY Zenon, <2>1 DEF LocalValues
<1>11. ElseIf(t) \in Seq(Symbol)
  <2>1. /\ <<"skip", "Expression", "then", "Block", "ElseIf">> \in Seq(Symbol)
        /\ <<"skip", "Block", "end">> \in Seq(Symbol)
        /\ <<"end">> \in Seq(Symbol)
    BY <1>1, <1>2
  <2> QED BY Zenon, <2>1 DEF ElseIf
<1>12. ForKind(t) \in Seq(Symbol)
  <2>1. <<"MoreNames", "in", "ExpressionList", "do", "Block", "end">> \in Seq(Symbol)
    BY <1>1, <1>2
  <2>2. <<"skip", "Expression", ",", "Expression", "ForStep", "do", "Block", "end">> \in Seq(Symbol)
    BY Zenon, LongSequence, <1>1, <1>2, <1>3
  <2> QED BY Zenon, <2>1, <2>2 DEF ForKind
<1>13. ForStep(t) \in Seq(Symbol)
  <2>1. /\ <<"skip", "Expression">> \in Seq(Symbol)
        /\ <<>> \in Seq(Symbol)
    BY <1>1, <1>2
  <2> QED BY Zenon, <2>1 DEF ForStep
<1>14. ReturnValues(t) \in Seq(Symbol)
  <2>1. /\ <<>> \in Seq(Symbol)
        /\ <<"ExpressionList">> \in Seq(Symbol)
    BY <1>1, <1>2
  <2> QED BY Zenon, <2>1 DEF ReturnValues
<1>15. FunctionStatement(t) \in Seq(Symbol)
  <2>1. <<"skip", "name", "NameTail", "FunctionBody">> \in Seq(Symbol)
    BY <1>1, <1>2
  <2> QED BY Zenon, <2>1 DEF FunctionStatement
<1>16. NameTail(t) \in Seq(Symbol)
  <2>1. /\ <<"skip", "name", "NameTail">> \in Seq(Symbol)
        /\ <<"skip", "name">> \in Seq(Symbol)
        /\ <<>> \in Seq(Symbol)
    BY <1>1, <1>2
  <2> QED BY Zenon, <2>1 DEF NameTail
<1>17. FunctionBody(t) \in Seq(Symbol)
  <2>1. <<"(", "Parameters", ")", "Block", "end">> \in Seq(Symbol)
    BY <1>1, <1>2
  <2> QED BY Zenon, <2>1 DEF FunctionBody
<1>18. Parameters(t) \in Seq(Symbol)
  <2>1. /\ <<>> \in Seq(Symbol)
        /\ <<"Parameter">> \in Seq(Symbol)
    BY <1>1, <1>2
  <2> QED BY Zenon, <2>1 DEF Parameters
<1>19. Parameter(t) \in Seq(Symbol)
  <2>1. /\ <<"skip">> \in Seq(Symbol)
        /\ <<"name", "MoreParameters">> \in Seq(Symbol)
    BY <1>1, <1>2
  <2> QED BY Zenon, <2>1 DEF Parameter
<1>20. MoreParameters(t) \in Seq(Symbol)
  <2>1. /\ <<"skip", "Parameter">> \in Seq(Symbol)
        /\ <<>> \in Seq(Symbol)
    BY <1>1, <1>2
  <2> QED BY Zenon, <2>1 DEF MoreParameters
<1>21. MoreNames(t) \in Seq(Symbol)
  <2>1. /\ <<"skip", "name", "MoreNames">> \in Seq(Symbol)
        /\ <<>> \in Seq(Symbol)
    BY <1>1, <1>2
  <2> QED BY Zenon, <2>1 DEF MoreNames
<1>22. ExpressionList(t) \in Seq(Symbol)
  <2>1. <<"Expression", "MoreExpressions">> \in Seq(Symbol)
    BY <1>1, <1>2
  <2> QED BY Zenon, <2>1 DEF ExpressionList
<1>23. MoreExpressions(t) \in Seq(Symbol)
  <2>1. /\ <<"skip", "Expression", "MoreExpressions">> \in Seq(Symbol)
        /\ <<>> \in Seq(Symbol)
    BY <1>1, <1>2
  <2> QED BY Zenon, <2>1 DEF MoreExpressions
<1>24. Expression(t) \in Seq(Symbol)
  <2>1. <<"Operand", "Operators">> \in Seq(Symbol)
    BY <1>1, <1>2
  <2> QED BY Zenon, <2>1 DEF Expression
<1>25. Operators(t) \in Seq(Symbol)
  <2>1. /\ <<"skip", "Operand", "Operators">> \in Seq(Symbol)
        /\ <<>> \in Seq(Symbol)
    BY <1>1, <1>2
  <2> QED BY Zenon, <2>1 DEF Operators
<1>26. Operand(t) \in Seq(Symbol)
  <2>1. /\ <<"skip", "Operand">> \in Seq(Symbol)
        /\ <<"Primary", "Power">> \in Seq(Symbol)
    BY <1>1, <1>2
  <2> QED BY Zenon, <2>1 DEF Operand
<1>27. Power(t) \in Seq(Symbol)
  <2>1. /\ <<"skip", "Operand">> \in Seq(Symbol)
        /\ <<>> \in Seq(Symbol)
    BY <1>1, <1>2
  <2> QED BY Zenon, <2>1 DEF Power
<1>28. Primary(t) \in Seq(Symbol)
  <2>1. /\ <<"skip", "Suffixes">> \in Seq(Symbol)
        /\ <<"skip", "Expression", ")", "Suffixes">> \in Seq(Symbol)
        /\ <<"Table", "Suffixes">> \in Seq(Symbol)
        /\ <<"skip", "FunctionBody", "Suffixes">> \in Seq(Symbol)
        /\ <<"error", "skip">> \in Seq(Symbol)
    BY <1>1, <1>2
  <2> QED BY Zenon, <2>1 DEF Primary
<1>29. Suffixes(t) \in Seq(Symbol)
  <2>1. /\ <<"skip", "name", "Suffixes">> \in Seq(Symbol)
        /\ <<"skip", "Expression", "]", "Suffixes">> \in Seq(Symbol)
        /\ <<"skip", "name", "MethodArguments", "Suffixes">> \in Seq(Symbol)
        /\ <<"skip", "Arguments", ")", "Suffixes">> \in Seq(Symbol)
        /\ <<"skip", "Suffixes">> \in Seq(Symbol)
        /\ <<"Table", "Suffixes">> \in Seq(Symbol)
        /\ <<>> \in Seq(Symbol)
    BY <1>1, <1>2
  <2> QED BY Zenon, <2>1 DEF Suffixes
<1>30. Arguments(t) \in Seq(Symbol)
  <2>1. /\ <<>> \in Seq(Symbol)
        /\ <<"ExpressionList">> \in Seq(Symbol)
    BY <1>1, <1>2
  <2> QED BY Zenon, <2>1 DEF Arguments
<1>31. MethodArguments(t) \in Seq(Symbol)
  <2>1. /\ <<"skip", "Arguments", ")">> \in Seq(Symbol)
        /\ <<"skip">> \in Seq(Symbol)
        /\ <<"Table">> \in Seq(Symbol)
        /\ <<>> \in Seq(Symbol)
    BY <1>1, <1>2
  <2> QED BY Zenon, <2>1 DEF MethodArguments
<1>32. Table(t) \in Seq(Symbol)
  <2>1. <<"{", "Fields">> \in Seq(Symbol)
    BY Zenon, ShortSequences, <1>1, <1>2, <1>3
  <2> QED BY Zenon, <2>1 DEF Table
<1>33. Fields(t) \in Seq(Symbol)
  <2>1. /\ <<"skip", "Fields">> \in Seq(Symbol)
        /\ <<"Field", "FieldSeparator", "Fields">> \in Seq(Symbol)
    BY <1>1, <1>2
  <2>2. <<"}">> \in Seq(Symbol)
    BY Zenon, ShortSequences, <1>1, <1>2, <1>3
  <2> QED BY Zenon, <2>1, <2>2 DEF Fields
<1>34. FieldSeparator(t) \in Seq(Symbol)
  <2>1. /\ <<"skip">> \in Seq(Symbol)
        /\ <<>> \in Seq(Symbol)
    BY <1>1, <1>2
  <2> QED BY Zenon, <2>1 DEF FieldSeparator
<1>35. Field(t) \in Seq(Symbol)
  <2>1. /\ <<"skip", "Expression", "]", "=", "Expression">> \in Seq(Symbol)
        /\ <<"skip", "NamedField">> \in Seq(Symbol)
        /\ <<"Expression">> \in Seq(Symbol)
    BY <1>1, <1>2
  <2> QED BY Zenon, <2>1 DEF Field
<1>36. NamedField(t) \in Seq(Symbol)
  <2>1. /\ <<"skip", "Expression">> \in Seq(Symbol)
        /\ <<"Suffixes">> \in Seq(Symbol)
        /\ <<"Suffixes", "FieldOperators">> \in Seq(Symbol)
    BY <1>1, <1>2
  <2> QED BY Zenon, <2>1 DEF NamedField
<1>37. FieldOperators(t) \in Seq(Symbol)
  <2>1. /\ <<"skip", "Operand", "FieldOperators">> \in Seq(Symbol)
        /\ <<>> \in Seq(Symbol)
    BY <1>1, <1>2
  <2> QED BY Zenon, <2>1 DEF FieldOperators
<1> QED BY Zenon, <1>4, <1>5, <1>6, <1>7, <1>8, <1>9, <1>10, <1>11, <1>12,
       <1>13, <1>14, <1>15, <1>16, <1>17, <1>18, <1>19, <1>20, <1>21, <1>22,
       <1>23, <1>24, <1>25, <1>26, <1>27, <1>28, <1>29, <1>30, <1>31, <1>32,
       <1>33, <1>34, <1>35, <1>36, <1>37 DEF Calls, Routine

------------------------------------------------------------------------------
LEMMA TailIsTyped ==
  ASSUME TypeOK, Ready
  PROVE  /\ tok \in Token
         /\ Head(stack) \in Symbol
         /\ Tail(stack) \in Seq(Symbol)
BY HeadTailProperties DEF TypeOK, Ready

LEMMA TakeIsTyped ==
  ASSUME TypeOK, Ready, Take
  PROVE  tok' \in Token \cup {NoTok} /\ failed' \in BOOLEAN /\ open' \in Int
<1>1. tok' \in Token \cup {NoTok}
  BY TailIsTyped DEF Take, After
<1>2. Opened(tok) \in Int
  BY DEF Opened
<1> QED BY <1>1, <1>2 DEF Take, TypeOK

(***************************************************************************)
(* No token and no routine takes the parser out of its types: every        *)
(* routine knows what to do about every token, Eof included                *)
(* (parser/Parser.cpp, all of it).                                         *)
(***************************************************************************)
LEMMA ParserKeepsTypes ==
  ASSUME TypeOK, [Parse \/ \E t \in Token : Fetch(t)]_parserVars
  PROVE  TypeOK'
<1>1. CASE Advance
  <2>1. Ready /\ Take /\ stack' = Tail(stack)
    BY <1>1 DEF Advance
  <2> QED BY <2>1, TailIsTyped, TakeIsTyped DEF TypeOK
<1>2. CASE Expect
  <2>1. Ready /\ (Take \/ Report) /\ stack' = Tail(stack)
    BY <1>2 DEF Expect
  <2>2. CASE Take
    BY <2>1, <2>2, TailIsTyped, TakeIsTyped DEF TypeOK
  <2>3. CASE Report
    <3>1. tok' = tok /\ failed' = TRUE /\ open' = 0
      BY <2>3 DEF Report
    <3> QED BY <2>1, <3>1, TailIsTyped DEF TypeOK
  <2> QED BY <2>1, <2>2, <2>3
<1>3. CASE Error
  BY <1>3, TailIsTyped DEF Error, Report, TypeOK
<1>4. CASE Call
  <2>1. Calls(Head(stack), tok) \in Seq(Symbol)
    BY <1>4, CallsAreSymbols DEF Call
  <2>2. Calls(Head(stack), tok) \o Tail(stack) \in Seq(Symbol)
    BY <1>4, <2>1, TailIsTyped, ConcatProperties DEF Call
  <2> QED BY <1>4, <2>2 DEF Call, TypeOK
<1>5. ASSUME NEW t \in Token, Fetch(t) PROVE TypeOK'
  BY <1>5 DEF Fetch, TypeOK
<1>6. CASE UNCHANGED parserVars
  BY <1>6 DEF parserVars, TypeOK
<1> QED BY <1>1, <1>2, <1>3, <1>4, <1>5, <1>6 DEF Parse

LEMMA InitTypes == ParserInit => TypeOK
<1> SUFFICES ASSUME ParserInit PROVE TypeOK
  OBVIOUS
<1>1. "Block" \in Symbol
  BY RoutinesAreSymbols DEF Routine
<1>2. <<"Block">> \in Seq(Symbol)
  BY <1>1
<1>3. open \in Int
  BY DEF ParserInit
<1>4. failed \in BOOLEAN
  BY DEF ParserInit
<1>5. stack \in Seq(Symbol) /\ tok \in Token \cup {NoTok}
  BY <1>2 DEF ParserInit
<1> QED BY Zenon, <1>3, <1>4, <1>5 DEF TypeOK

THEOREM ParserTypes == Spec => []TypeOK
<1>1. TypeOK /\ [Parse \/ \E t \in Token : Fetch(t)]_parserVars => TypeOK'
  BY ParserKeepsTypes
<1> QED BY InitTypes, <1>1, PTL DEF Spec

------------------------------------------------------------------------------
(***************************************************************************)
(* The outermost call pending is the block of the chunk.  It alone can     *)
(* empty the stack, and does so only in front of the end of a block.       *)
(***************************************************************************)
StopsAtBlockEnd == Ended => tok \in BlockEnd
OutermostIsBlock == stack # <<>> => stack[Len(stack)] = "Block"
IInv == TypeOK /\ OutermostIsBlock /\ StopsAtBlockEnd

LEMMA LastOfTail ==
  ASSUME NEW S, NEW s \in Seq(S), s # <<>>, Tail(s) # <<>>
  PROVE  Tail(s)[Len(Tail(s))] = s[Len(s)]
<1>1. Len(Tail(s)) \in Nat /\ Len(s) \in Nat /\ Len(Tail(s)) = Len(s) - 1
  BY HeadTailProperties, LenProperties
<1>2. Len(Tail(s)) # 0
  BY HeadTailProperties, EmptySeq
<1>3. Tail(s)[Len(Tail(s))] = s[Len(Tail(s)) + 1]
  BY <1>1, <1>2, HeadTailProperties
<1> QED BY <1>1, <1>3

LEMMA LastOfOne ==
  ASSUME NEW S, NEW s \in Seq(S), s # <<>>, Tail(s) = <<>>
  PROVE  s[Len(s)] = Head(s)
<1>1. Len(s) \in Nat /\ Len(Tail(s)) = Len(s) - 1 /\ Len(Tail(s)) = 0
  BY HeadTailProperties, LenProperties
<1>2. Len(s) = 1
  BY <1>1
<1>3. s[1] = Head(s)
  OBVIOUS
<1> QED BY <1>2, <1>3

LEMMA LastOfConcat ==
  ASSUME NEW S, NEW s \in Seq(S), NEW u \in Seq(S), u # <<>>
  PROVE  /\ s \o u # <<>>
         /\ (s \o u)[Len(s \o u)] = u[Len(u)]
<1>1. Len(s) \in Nat /\ Len(u) \in Nat /\ Len(u) # 0
  BY LenProperties, EmptySeq
<1>2. Len(s \o u) = Len(s) + Len(u)
  BY ConcatProperties
<1>3. (s \o u)[Len(s \o u)] = u[Len(s) + Len(u) - Len(s)]
  BY <1>1, <1>2, ConcatProperties
<1> QED BY <1>1, <1>2, <1>3

\* A call that is taken off the stack and is not the last one leaves the
\* outermost one where it is; the last one is the block.
LEMMA Popping ==
  ASSUME IInv, Ready
  PROVE  /\ Tail(stack) # <<>> => Tail(stack)[Len(Tail(stack))] = "Block"
         /\ Tail(stack) = <<>> => Head(stack) = "Block"
<1> stack \in Seq(Symbol) /\ stack # <<>> /\ stack[Len(stack)] = "Block"
  BY DEF IInv, TypeOK, Ready, OutermostIsBlock
<1> QED BY LastOfTail, LastOfOne

LEMMA BlockIsNoOther == "Block" \notin Token /\ "Block" # "skip" /\ "Block" # "error"
BY DEF Token, BlockEnd, Unary, Binary, Atomic, Separator

LEMMA ParserKeepsIInv ==
  ASSUME IInv, [Parse \/ \E t \in Token : Fetch(t)]_parserVars
  PROVE  IInv'
<1>1. TypeOK'
  BY ParserKeepsTypes DEF IInv
<1>2. OutermostIsBlock' /\ StopsAtBlockEnd'
  <2>1. CASE Advance \/ Expect \/ Error
    <3>1. Ready /\ stack' = Tail(stack) /\ Head(stack) # "Block"
      BY <2>1, BlockIsNoOther DEF Advance, Expect, Error
    <3>2. Tail(stack) # <<>> /\ Tail(stack)[Len(Tail(stack))] = "Block"
      BY <3>1, Popping
    <3> QED BY <3>1, <3>2 DEF OutermostIsBlock, StopsAtBlockEnd, Ended
  <2>2. CASE Call
    <3> DEFINE c == Calls(Head(stack), tok)
    <3>1. /\ Ready /\ stack' = c \o Tail(stack) /\ tok' = tok
          /\ c \in Seq(Symbol) /\ Tail(stack) \in Seq(Symbol)
      BY <2>2, CallsAreSymbols, TailIsTyped DEF Call, IInv
    <3>2. CASE Tail(stack) # <<>>
      <4> HIDE DEF c
      <4>1. stack' # <<>> /\ stack'[Len(stack')] = "Block"
        BY <3>1, <3>2, LastOfConcat, Popping
      <4> QED BY <4>1 DEF OutermostIsBlock, StopsAtBlockEnd, Ended
    <3>3. CASE Tail(stack) = <<>>
      <4>1. Head(stack) = "Block"
        BY <3>1, <3>3, Popping
      <4>2. c = Block(tok)
        BY <4>1 DEF Calls
      <4>3. stack' = Block(tok)
        <5> HIDE DEF c
        <5> QED BY <3>1, <3>3, <4>2, ConcatEmptySeq
      <4>4. CASE tok \in BlockEnd
        BY <3>1, <4>3, <4>4 DEF Block, OutermostIsBlock, StopsAtBlockEnd, Ended
      <4>5. CASE tok \notin BlockEnd
        <5>1. stack' = <<"Statement", "Semicolon", "Block">>
          BY <4>3, <4>5 DEF Block
        <5> QED BY <5>1 DEF OutermostIsBlock, StopsAtBlockEnd, Ended
      <4> QED BY <4>4, <4>5
    <3> QED BY <3>2, <3>3
  <2>3. ASSUME NEW t \in Token, Fetch(t) PROVE OutermostIsBlock' /\ StopsAtBlockEnd'
    BY <2>3 DEF Fetch, IInv, OutermostIsBlock, StopsAtBlockEnd, Ended
  <2>4. CASE UNCHANGED parserVars
    BY <2>4 DEF parserVars, IInv, OutermostIsBlock, StopsAtBlockEnd, Ended
  <2> QED BY <2>1, <2>2, <2>3, <2>4 DEF Parse
<1> QED BY <1>1, <1>2 DEF IInv

LEMMA InitIInv == ParserInit => IInv
<1> SUFFICES ASSUME ParserInit PROVE IInv
  OBVIOUS
<1>1. stack = <<"Block">>
  BY DEF ParserInit
<1> QED BY <1>1, InitTypes DEF IInv, OutermostIsBlock, StopsAtBlockEnd, Ended

(***************************************************************************)
(* Whatever the tokens are, parse() returns in front of the end of the     *)
(* text or of a word that ends a block, and of nothing else                *)
(* (Parser::parse, Parser::parseBlock). ValidProgramsRead rests on it.     *)
(***************************************************************************)
LEMMA ParserStops == Spec => []StopsAtBlockEnd
<1>1. IInv /\ [Parse \/ \E t \in Token : Fetch(t)]_parserVars => IInv'
  BY ParserKeepsIInv
<1>2. IInv => StopsAtBlockEnd
  BY DEF IInv
<1> QED BY InitIInv, <1>1, <1>2, PTL DEF Spec

------------------------------------------------------------------------------
(***************************************************************************)
(* The parser reading programs, however they are derived and whatever      *)
(* slips are made, is the parser reading tokens.                           *)
(***************************************************************************)
LEMMA ProgramStep ==
  ASSUME [Reading \/ Writing \/ Done]_vars
  PROVE  [Parse \/ \E t \in Token : Fetch(t)]_parserVars
<1>1. CASE Reading
  BY <1>1 DEF Reading
<1>2. CASE Derive \/ Omit \/ Done
  BY <1>2 DEF Derive, Omit, Done, vars
<1>3. CASE Supply
  BY <1>3 DEF Supply
<1>4. CASE EndOfText
  <2>1. "eof" \in Token
    BY DEF Token, BlockEnd
  <2> QED BY <1>4, <2>1 DEF EndOfText
<1>5. CASE Mistype
  <2>1. Typed \subseteq Token
    BY SlipAssumption
  <2> QED BY <1>5, <2>1 DEF Mistype
<1>6. CASE UNCHANGED vars
  BY <1>6 DEF vars
<1> QED BY <1>1, <1>2, <1>3, <1>4, <1>5, <1>6 DEF Writing

THEOREM ProgramsAreTokens == ProgramSpec => Spec
<1>1. Init => ParserInit
  BY DEF Init
<1>2. [Reading \/ Writing \/ Done]_vars => [Parse \/ \E t \in Token : Fetch(t)]_parserVars
  BY ProgramStep
<1> QED BY <1>1, <1>2, PTL DEF ProgramSpec, Spec

LEMMA ProgramsStop == ProgramSpec => [](TypeOK /\ StopsAtBlockEnd)
BY ProgramsAreTokens, ParserTypes, ParserStops, PTL

------------------------------------------------------------------------------
(***************************************************************************)
(* A valid program gets no error and all of it is read: the rest of this   *)
(* module.                                                                 *)
(*                                                                         *)
(* The invariant couples the calls pending with the program from the       *)
(* current token on. Both are lists, and each call (or a few calls         *)
(* together) reads one symbol of the grammar, or what has been derived of  *)
(* it from the left: the couple <<calls, program>> is linked with the      *)
(* couple of what is left when that symbol is read, and so on to the end   *)
(* of both. Deriving the program further keeps the couple (CoupleOn),      *)
(* every routine keeps it when it is called (CallKeeps), and a token       *)
(* wanted is the token in front (ReadingKeeps).                            *)
(***************************************************************************)

(***************************************************************************)
(* Lists.                                                                  *)
(***************************************************************************)
List(s)    == \E S : s \in Seq(S)
Cons(x, s) == <<x>> \o s

P2(a, b, s)                   == Cons(a, Cons(b, s))
P3(a, b, c, s)                == Cons(a, P2(b, c, s))
P4(a, b, c, d, s)             == Cons(a, P3(b, c, d, s))
P5(a, b, c, d, e, s)          == Cons(a, P4(b, c, d, e, s))
P6(a, b, c, d, e, f, s)       == Cons(a, P5(b, c, d, e, f, s))
P7(a, b, c, d, e, f, g, s)    == Cons(a, P6(b, c, d, e, f, g, s))
P8(a, b, c, d, e, f, g, h, s) == Cons(a, P7(b, c, d, e, f, g, h, s))

LEMMA ConsList ==
  ASSUME NEW x, NEW s, List(s)
  PROVE  /\ List(Cons(x, s)) /\ Cons(x, s) # <<>>
         /\ Head(Cons(x, s)) = x /\ Tail(Cons(x, s)) = s
<1>1. PICK S : s \in Seq(S)
  BY DEF List
<1>2. PICK T : T = S \cup {x}
  OBVIOUS
<1>3. s \in Seq(T) /\ <<x>> \in Seq(T)
  BY <1>1, <1>2
<1>4. /\ Cons(x, s) \in Seq(T) /\ Len(Cons(x, s)) = 1 + Len(s)
      /\ \A i \in 1 .. 1 + Len(s) : Cons(x, s)[i] = IF i <= 1 THEN <<x>>[i] ELSE s[i - 1]
  BY <1>3, ConcatProperties DEF Cons
<1>n. Len(s) \in Nat
  BY <1>3, LenProperties
<1>5. Cons(x, s) # <<>> /\ Cons(x, s)[1] = x
  BY <1>4, <1>n
<1>6. Head(Cons(x, s)) = x
  BY <1>4, <1>5, HeadTailProperties
<1>7. Tail(Cons(x, s)) \in Seq(T) /\ Len(Tail(Cons(x, s))) = Len(s)
      /\ \A i \in 1 .. Len(s) : Tail(Cons(x, s))[i] = s[i]
  <2>1. Len(Tail(Cons(x, s))) = Len(Cons(x, s)) - 1 /\ Tail(Cons(x, s)) \in Seq(T)
        /\ \A i \in 1 .. Len(Tail(Cons(x, s))) : Tail(Cons(x, s))[i] = Cons(x, s)[i + 1]
    BY <1>4, <1>5, HeadTailProperties
  <2> QED  BY <1>4, <1>n, <2>1
<1>8. Tail(Cons(x, s)) = s
  BY <1>3, <1>7, SeqEqual
<1> QED  BY <1>4, <1>5, <1>6, <1>8 DEF List

LEMMA ListEmpty == List(<<>>)
BY DEF List

LEMMA Injective ==
  ASSUME NEW x, NEW s, NEW y, NEW u, List(s), List(u), Cons(x, s) = Cons(y, u)
  PROVE  x = y /\ s = u
BY ConsList

LEMMA ListCases ==
  ASSUME NEW s, List(s), s # <<>>
  PROVE  s = Cons(Head(s), Tail(s)) /\ List(Tail(s))
<1>1. PICK S : s \in Seq(S)
  BY DEF List
<1>2. Head(s) \in S /\ Tail(s) \in Seq(S) /\ Len(Tail(s)) = Len(s) - 1
      /\ (\A i \in 1 .. Len(Tail(s)) : Tail(s)[i] = s[i + 1]) /\ Head(s) = s[1]
  BY <1>1, HeadTailProperties
<1>3. Cons(Head(s), Tail(s)) \in Seq(S) /\ Len(Cons(Head(s), Tail(s))) = 1 + Len(Tail(s))
      /\ \A i \in 1 .. 1 + Len(Tail(s)) : Cons(Head(s), Tail(s))[i] =
           IF i <= 1 THEN <<Head(s)>>[i] ELSE Tail(s)[i - 1]
  BY <1>2, ConcatProperties DEF Cons
<1>4. Len(s) \in Nat /\ Len(Tail(s)) \in Nat
  BY <1>1, <1>2, LenProperties
<1>5. \A i \in 1 .. Len(s) : s[i] = Cons(Head(s), Tail(s))[i]
  BY <1>2, <1>3, <1>4
<1>6. s = Cons(Head(s), Tail(s))
  BY <1>1, <1>2, <1>3, <1>4, <1>5, SeqEqual
<1> QED  BY <1>2, <1>6 DEF List

\* What stands in front, element by element.
LEMMA InFront ==
  ASSUME NEW S, NEW w \in Seq(S), NEW x, NEW s, List(s), List(w)
  PROVE  Cons(x, w) \o s = Cons(x, w \o s)
<1>1. PICK T : s \in Seq(T)
  BY DEF List
<1>2. PICK U : U = S \cup T \cup {x}
  OBVIOUS
<1>3. <<x>> \in Seq(U) /\ w \in Seq(U) /\ s \in Seq(U)
  BY <1>1, <1>2
<1> QED  BY <1>3, ConcatAssociative DEF Cons

LEMMA Join0 ==
  ASSUME NEW k, List(k)
  PROVE  <<>> \o k = k
BY ConcatEmptySeq DEF List

LEMMA Join1 ==
  ASSUME NEW k, NEW a
  PROVE  <<a>> \o k = Cons(a, k)
BY DEF Cons

LEMMA InFrontOf ==
  ASSUME NEW k, List(k)
  PROVE  \A w, x : (\E S : w \in Seq(S)) => Cons(x, w) \o k = Cons(x, w \o k)
BY InFront DEF List

LEMMA Join2 ==
  ASSUME NEW k, List(k), NEW a, NEW b
  PROVE  <<a, b>> \o k = P2(a, b, k)
<1>1. <<b>> \in Seq({b}) /\ <<a>> \in Seq({a, b}) /\ <<b>> \in Seq({a, b})
  OBVIOUS
<1>2. /\ <<a>> \o <<b>> \in Seq({a, b}) /\ Len(<<a>> \o <<b>>) = 2
      /\ \A i \in 1 .. 2 : (<<a>> \o <<b>>)[i] = IF i <= 1 THEN <<a>>[i] ELSE <<b>>[i - 1]
  BY <1>1, ConcatProperties
<1>3. <<a, b>> \in Seq({a, b}) /\ Len(<<a, b>>) = 2 /\ <<a, b>>[1] = a /\ <<a, b>>[2] = b
  OBVIOUS
<1>4. <<a, b>> = <<a>> \o <<b>>
  <2> DEFINE u == <<a>> \o <<b>>
             v == <<a, b>>
  <2>1. u[1] = a /\ u[2] = b
    BY <1>2
  <2>2. u \in Seq({a, b}) /\ v \in Seq({a, b}) /\ Len(u) = 2 /\ Len(v) = 2 /\ v[1] = a /\ v[2] = b
    BY <1>2, <1>3
  <2> HIDE DEF u, v
  <2>3. \A i \in 1 .. Len(u) : u[i] = v[i]
    BY <2>1, <2>2
  <2>4. u = v
    BY <2>2, <2>3, SeqEqual
  <2> QED  BY <2>4 DEF u, v
<1> QED  BY Zenon, Join1, InFrontOf, <1>1, <1>4 DEF P2, Cons

LEMMA Join3 ==
  ASSUME NEW k, List(k), NEW a, NEW b, NEW c
  PROVE  <<a, b, c>> \o k = P3(a, b, c, k)
<1>1. <<a, b, c>> = Cons(a, <<b, c>>) /\ <<b, c>> \in Seq({b, c})
  BY DEF Cons
<1> QED  BY Zenon, Join2, InFrontOf, <1>1 DEF P3

LEMMA Join4 ==
  ASSUME NEW k, List(k), NEW a, NEW b, NEW c, NEW d
  PROVE  <<a, b, c, d>> \o k = P4(a, b, c, d, k)
<1>1. <<a, b, c, d>> = Cons(a, <<b, c, d>>) /\ <<b, c, d>> \in Seq({b, c, d})
  BY DEF Cons
<1> QED  BY Zenon, Join3, InFrontOf, <1>1 DEF P4

LEMMA Join5 ==
  ASSUME NEW k, List(k), NEW a, NEW b, NEW c, NEW d, NEW e
  PROVE  <<a, b, c, d, e>> \o k = P5(a, b, c, d, e, k)
<1>1. <<a, b, c, d, e>> = Cons(a, <<b, c, d, e>>) /\ <<b, c, d, e>> \in Seq({b, c, d, e})
  BY DEF Cons
<1> QED  BY Zenon, Join4, InFrontOf, <1>1 DEF P5

LEMMA Join6 ==
  ASSUME NEW k, List(k), NEW a, NEW b, NEW c, NEW d, NEW e, NEW f
  PROVE  <<a, b, c, d, e, f>> \o k = P6(a, b, c, d, e, f, k)
<1>1. <<a, b, c, d, e, f>> = Cons(a, <<b, c, d, e, f>>)
        /\ <<b, c, d, e, f>> \in Seq({b, c, d, e, f})
  BY DEF Cons
<1> QED  BY Zenon, Join5, InFrontOf, <1>1 DEF P6

LEMMA Join7 ==
  ASSUME NEW k, List(k), NEW a, NEW b, NEW c, NEW d, NEW e, NEW f, NEW g
  PROVE  <<a, b, c, d, e, f, g>> \o k = P7(a, b, c, d, e, f, g, k)
<1>1. <<a, b, c, d, e, f, g>> = Cons(a, <<b, c, d, e, f, g>>)
        /\ <<b, c, d, e, f, g>> \in Seq({b, c, d, e, f, g})
  BY DEF Cons
<1> QED  BY Zenon, Join6, InFrontOf, <1>1 DEF P7

LEMMA Join8 ==
  ASSUME NEW k, List(k), NEW a, NEW b, NEW c, NEW d, NEW e, NEW f, NEW g, NEW h
  PROVE  <<a, b, c, d, e, f, g, h>> \o k = P8(a, b, c, d, e, f, g, h, k)
<1>1. <<a, b, c, d, e, f, g, h>> = Cons(a, <<b, c, d, e, f, g, h>>)
        /\ <<b, c, d, e, f, g, h>> \in Seq({b, c, d, e, f, g, h})
  BY DEF Cons
<1>2. <<b, c, d, e, f, g, h>> \o k = P7(b, c, d, e, f, g, h, k)
  BY Zenon, Join7
<1> QED  BY Zenon, <1>2, InFrontOf, <1>1 DEF P8

------------------------------------------------------------------------------
(***************************************************************************)
(* The grammar. Each lemma is what deriving the symbol in front can give.  *)
(* The four tokens that have to be kept out of the provers' sight are      *)
(* named.                                                                  *)
(***************************************************************************)
Comma  == ","
Semi   == ";"
LBrace == "{"
RBrace == "}"

Derives(r, r2) ==
  /\ r # <<>> /\ Head(r) \in DOMAIN Rules
  /\ \E rhs \in Rules[Head(r)] : r2 = rhs \o Tail(r)

\* What is in front is derived.
LEMMA DerivesFront ==
  ASSUME NEW n, NEW k, NEW r2, List(k), Derives(Cons(n, k), r2)
  PROVE  n \in DOMAIN Rules /\ \E rhs \in Rules[n] : r2 = rhs \o k
BY Zenon, ConsList DEF Derives

LEMMA NonterminalsAre ==
  DOMAIN Rules = {"Chunk", "Stat", "Values", "Targets", "Var", "Exps", "Names", "Init", "Do",
    "Clause", "Else", "Range", "Path", "Body", "Inner", "Params", "More", "Exp", "Binop", "Opd",
    "Closed", "Sfxs", "Index", "Invoke", "Arg", "Items", "Item"}
BY Zenon DEF Rules

LEMMA NoTokenIsDerived ==
  ASSUME NEW x \in Token PROVE x \notin DOMAIN Rules
<1>1. CASE x \in BlockEnd \cup Unary \cup Binary \cup Atomic \cup Separator
  BY Zenon, <1>1, NonterminalsAre DEF BlockEnd, Unary, Binary, Atomic, Separator
<1>2. CASE x \notin BlockEnd \cup Unary \cup Binary \cup Atomic \cup Separator
  BY Zenon, <1>2, NonterminalsAre DEF Token
<1> QED  BY Zenon, <1>1, <1>2

LEMMA DeriveChunk ==
  ASSUME NEW k, NEW r2, List(k), Derives(Cons("Chunk", k), r2)
  PROVE  \/ r2 = k
         \/ r2 = P2("Stat", "Chunk", k)
         \/ r2 = P3("Stat", Semi, "Chunk", k)
         \/ r2 = P2("return", "Values", k)
         \/ r2 = P3("return", "Values", Semi, k)
<1>1. Rules["Chunk"] = {<<>>, <<"Stat", "Chunk">>, <<"Stat", ";", "Chunk">>, <<"return",
        "Values">>, <<"return", "Values", ";">>}
  BY Zenon DEF Rules
<1>2. \E rhs \in Rules["Chunk"] : r2 = rhs \o k
  BY DerivesFront
<1>3. \/ r2 = <<>> \o k
      \/ r2 = <<"Stat", "Chunk">> \o k
      \/ r2 = <<"Stat", ";", "Chunk">> \o k
      \/ r2 = <<"return", "Values">> \o k
      \/ r2 = <<"return", "Values", ";">> \o k
  BY Zenon, <1>1, <1>2
<1> QED  BY Zenon, <1>3, Join0, Join2, Join3 DEF Semi

LEMMA DeriveValues ==
  ASSUME NEW k, NEW r2, List(k), Derives(Cons("Values", k), r2)
  PROVE  r2 = k \/ r2 = Cons("Exps", k)
<1>1. Rules["Values"] = {<<>>, <<"Exps">>}
  BY Zenon DEF Rules, Maybe
<1>2. \E rhs \in Rules["Values"] : r2 = rhs \o k
  BY DerivesFront
<1>3. r2 = <<>> \o k \/ r2 = <<"Exps">> \o k
  BY Zenon, <1>1, <1>2
<1> QED  BY Zenon, <1>3, Join0, Join1

LEMMA DeriveTargets ==
  ASSUME NEW k, NEW r2, List(k), Derives(Cons("Targets", k), r2)
  PROVE  r2 = k \/ r2 = P3(Comma, "Var", "Targets", k)
<1>1. Rules["Targets"] = {<<>>, <<",", "Var", "Targets">>}
  BY Zenon DEF Rules, Maybe
<1>2. \E rhs \in Rules["Targets"] : r2 = rhs \o k
  BY DerivesFront
<1>3. r2 = <<>> \o k \/ r2 = <<",", "Var", "Targets">> \o k
  BY Zenon, <1>1, <1>2
<1> QED  BY Zenon, <1>3, Join0, Join3 DEF Comma

LEMMA DeriveVar ==
  ASSUME NEW k, NEW r2, List(k), Derives(Cons("Var", k), r2)
  PROVE  r2 = Cons("name", k) \/ r2 = P3("name", "Sfxs", "Index", k)
<1>1. Rules["Var"] = {<<"name">>, <<"name", "Sfxs", "Index">>}
  BY Zenon DEF Rules
<1>2. \E rhs \in Rules["Var"] : r2 = rhs \o k
  BY DerivesFront
<1>3. r2 = <<"name">> \o k \/ r2 = <<"name", "Sfxs", "Index">> \o k
  BY Zenon, <1>1, <1>2
<1> QED  BY Zenon, <1>3, Join1, Join3

LEMMA DeriveExps ==
  ASSUME NEW k, NEW r2, List(k), Derives(Cons("Exps", k), r2)
  PROVE  r2 = Cons("Exp", k) \/ r2 = P3("Exp", Comma, "Exps", k)
<1>1. Rules["Exps"] = {<<"Exp">>, <<"Exp", ",", "Exps">>}
  BY Zenon DEF Rules
<1>2. \E rhs \in Rules["Exps"] : r2 = rhs \o k
  BY DerivesFront
<1>3. r2 = <<"Exp">> \o k \/ r2 = <<"Exp", ",", "Exps">> \o k
  BY Zenon, <1>1, <1>2
<1> QED  BY Zenon, <1>3, Join1, Join3 DEF Comma

LEMMA DeriveNames ==
  ASSUME NEW k, NEW r2, List(k), Derives(Cons("Names", k), r2)
  PROVE  r2 = Cons("name", k) \/ r2 = P3("name", Comma, "Names", k)
<1>1. Rules["Names"] = {<<"name">>, <<"name", ",", "Names">>}
  BY Zenon DEF Rules
<1>2. \E rhs \in Rules["Names"] : r2 = rhs \o k
  BY DerivesFront
<1>3. r2 = <<"name">> \o k \/ r2 = <<"name", ",", "Names">> \o k
  BY Zenon, <1>1, <1>2
<1> QED  BY Zenon, <1>3, Join1, Join3 DEF Comma

LEMMA DeriveInit ==
  ASSUME NEW k, NEW r2, List(k), Derives(Cons("Init", k), r2)
  PROVE  r2 = k \/ r2 = P2("=", "Exps", k)
<1>1. Rules["Init"] = {<<>>, <<"=", "Exps">>}
  BY Zenon DEF Rules, Maybe
<1>2. \E rhs \in Rules["Init"] : r2 = rhs \o k
  BY DerivesFront
<1>3. r2 = <<>> \o k \/ r2 = <<"=", "Exps">> \o k
  BY Zenon, <1>1, <1>2
<1> QED  BY Zenon, <1>3, Join0, Join2

LEMMA DeriveDo ==
  ASSUME NEW k, NEW r2, List(k), Derives(Cons("Do", k), r2)
  PROVE  r2 = P3("do", "Chunk", "end", k)
<1>1. Rules["Do"] = {<<"do", "Chunk", "end">>}
  BY Zenon DEF Rules
<1>2. \E rhs \in Rules["Do"] : r2 = rhs \o k
  BY DerivesFront
<1>3. r2 = <<"do", "Chunk", "end">> \o k
  BY Zenon, <1>1, <1>2
<1> QED  BY Zenon, <1>3, Join3

LEMMA DeriveClause ==
  ASSUME NEW k, NEW r2, List(k), Derives(Cons("Clause", k), r2)
  PROVE  r2 = P4("Exp", "then", "Chunk", "Else", k)
<1>1. Rules["Clause"] = {<<"Exp", "then", "Chunk", "Else">>}
  BY Zenon DEF Rules
<1>2. \E rhs \in Rules["Clause"] : r2 = rhs \o k
  BY DerivesFront
<1>3. r2 = <<"Exp", "then", "Chunk", "Else">> \o k
  BY Zenon, <1>1, <1>2
<1> QED  BY Zenon, <1>3, Join4

LEMMA DeriveElse ==
  ASSUME NEW k, NEW r2, List(k), Derives(Cons("Else", k), r2)
  PROVE  r2 = k \/ r2 = P2("else", "Chunk", k) \/ r2 = P2("elseif", "Clause", k)
<1>1. Rules["Else"] = {<<>>, <<"else", "Chunk">>, <<"elseif", "Clause">>}
  BY Zenon DEF Rules
<1>2. \E rhs \in Rules["Else"] : r2 = rhs \o k
  BY DerivesFront
<1>3. \/ r2 = <<>> \o k
      \/ r2 = <<"else", "Chunk">> \o k
      \/ r2 = <<"elseif", "Clause">> \o k
  BY Zenon, <1>1, <1>2
<1> QED  BY Zenon, <1>3, Join0, Join2

LEMMA DeriveRange ==
  ASSUME NEW k, NEW r2, List(k), Derives(Cons("Range", k), r2)
  PROVE  \/ r2 = P5("name", "=", "Exp", Comma, "Exp", k)
         \/ r2 = P7("name", "=", "Exp", Comma, "Exp", Comma, "Exp", k)
         \/ r2 = P3("Names", "in", "Exps", k)
<1>1. Rules["Range"] = {<<"name", "=", "Exp", ",", "Exp">>, <<"name", "=", "Exp", ",", "Exp",
        ",", "Exp">>, <<"Names", "in", "Exps">>}
  BY Zenon DEF Rules
<1>2. \E rhs \in Rules["Range"] : r2 = rhs \o k
  BY DerivesFront
<1>3. \/ r2 = <<"name", "=", "Exp", ",", "Exp">> \o k
      \/ r2 = <<"name", "=", "Exp", ",", "Exp", ",", "Exp">> \o k
      \/ r2 = <<"Names", "in", "Exps">> \o k
  BY Zenon, <1>1, <1>2
<1> QED  BY Zenon, <1>3, Join3, Join5, Join7 DEF Comma

LEMMA DerivePath ==
  ASSUME NEW k, NEW r2, List(k), Derives(Cons("Path", k), r2)
  PROVE  r2 = k \/ r2 = P3(".", "name", "Path", k) \/ r2 = P2(":", "name", k)
<1>1. Rules["Path"] = {<<>>, <<".", "name", "Path">>, <<":", "name">>}
  BY Zenon DEF Rules
<1>2. \E rhs \in Rules["Path"] : r2 = rhs \o k
  BY DerivesFront
<1>3. \/ r2 = <<>> \o k
      \/ r2 = <<".", "name", "Path">> \o k
      \/ r2 = <<":", "name">> \o k
  BY Zenon, <1>1, <1>2
<1> QED  BY Zenon, <1>3, Join0, Join2, Join3

LEMMA DeriveBody ==
  ASSUME NEW k, NEW r2, List(k), Derives(Cons("Body", k), r2)
  PROVE  r2 = P4("(", "Params", ")", "Inner", k)
<1>1. Rules["Body"] = {<<"(", "Params", ")", "Inner">>}
  BY Zenon DEF Rules
<1>2. \E rhs \in Rules["Body"] : r2 = rhs \o k
  BY DerivesFront
<1>3. r2 = <<"(", "Params", ")", "Inner">> \o k
  BY Zenon, <1>1, <1>2
<1> QED  BY Zenon, <1>3, Join4

LEMMA DeriveInner ==
  ASSUME NEW k, NEW r2, List(k), Derives(Cons("Inner", k), r2)
  PROVE  r2 = P2("Chunk", "end", k)
<1>1. Rules["Inner"] = {<<"Chunk", "end">>}
  BY Zenon DEF Rules
<1>2. \E rhs \in Rules["Inner"] : r2 = rhs \o k
  BY DerivesFront
<1>3. r2 = <<"Chunk", "end">> \o k
  BY Zenon, <1>1, <1>2
<1> QED  BY Zenon, <1>3, Join2

LEMMA DeriveParams ==
  ASSUME NEW k, NEW r2, List(k), Derives(Cons("Params", k), r2)
  PROVE  r2 = k \/ r2 = Cons("...", k) \/ r2 = P2("name", "More", k)
<1>1. Rules["Params"] = {<<>>, <<"...">>, <<"name", "More">>}
  BY Zenon DEF Rules
<1>2. \E rhs \in Rules["Params"] : r2 = rhs \o k
  BY DerivesFront
<1>3. r2 = <<>> \o k \/ r2 = <<"...">> \o k \/ r2 = <<"name", "More">> \o k
  BY Zenon, <1>1, <1>2
<1> QED  BY Zenon, <1>3, Join0, Join1, Join2

LEMMA DeriveMore ==
  ASSUME NEW k, NEW r2, List(k), Derives(Cons("More", k), r2)
  PROVE  r2 = k \/ r2 = P2(Comma, "...", k) \/ r2 = P3(Comma, "name", "More", k)
<1>1. Rules["More"] = {<<>>, <<",", "...">>, <<",", "name", "More">>}
  BY Zenon DEF Rules
<1>2. \E rhs \in Rules["More"] : r2 = rhs \o k
  BY DerivesFront
<1>3. r2 = <<>> \o k \/ r2 = <<",", "...">> \o k \/ r2 = <<",", "name", "More">> \o k
  BY Zenon, <1>1, <1>2
<1> QED  BY Zenon, <1>3, Join0, Join2, Join3 DEF Comma

LEMMA DeriveExp ==
  ASSUME NEW k, NEW r2, List(k), Derives(Cons("Exp", k), r2)
  PROVE  r2 = Cons("Opd", k) \/ r2 = P3("Opd", "Binop", "Exp", k)
<1>1. Rules["Exp"] = {<<"Opd">>, <<"Opd", "Binop", "Exp">>}
  BY Zenon DEF Rules
<1>2. \E rhs \in Rules["Exp"] : r2 = rhs \o k
  BY DerivesFront
<1>3. r2 = <<"Opd">> \o k \/ r2 = <<"Opd", "Binop", "Exp">> \o k
  BY Zenon, <1>1, <1>2
<1> QED  BY Zenon, <1>3, Join1, Join3

LEMMA DeriveOpd ==
  ASSUME NEW k, NEW r2, List(k), Derives(Cons("Opd", k), r2)
  PROVE  \/ r2 = P2("name", "Sfxs", k)
         \/ r2 = P4("name", "Sfxs", "^", "Opd", k)
         \/ r2 = Cons("Closed", k)
<1>1. Rules["Opd"] = {<<"name", "Sfxs">>, <<"name", "Sfxs", "^", "Opd">>, <<"Closed">>}
  BY Zenon DEF Rules
<1>2. \E rhs \in Rules["Opd"] : r2 = rhs \o k
  BY DerivesFront
<1>3. \/ r2 = <<"name", "Sfxs">> \o k
      \/ r2 = <<"name", "Sfxs", "^", "Opd">> \o k
      \/ r2 = <<"Closed">> \o k
  BY Zenon, <1>1, <1>2
<1> QED  BY Zenon, <1>3, Join1, Join2, Join4

LEMMA DeriveClosed ==
  ASSUME NEW k, NEW r2, List(k), Derives(Cons("Closed", k), r2)
  PROVE  \/ r2 = Cons("lit", k)
         \/ r2 = Cons("string", k)
         \/ r2 = Cons("...", k)
         \/ r2 = P2("not", "Opd", k)
         \/ r2 = P2("-", "Opd", k)
         \/ r2 = P2("~", "Opd", k)
         \/ r2 = P3("lit", "^", "Opd", k)
         \/ r2 = P3("string", "^", "Opd", k)
         \/ r2 = P5(LBrace, "Items", RBrace, "^", "Opd", k)
         \/ r2 = P6("(", "Exp", ")", "Sfxs", "^", "Opd", k)
         \/ r2 = P2("function", "Body", k)
         \/ r2 = P3(LBrace, "Items", RBrace, k)
         \/ r2 = P4("(", "Exp", ")", "Sfxs", k)
<1>1. Rules["Closed"] = {<<"lit">>, <<"string">>, <<"...">>, <<"not", "Opd">>, <<"-", "Opd">>,
        <<"~", "Opd">>, <<"lit", "^", "Opd">>, <<"string", "^", "Opd">>, <<"function", "Body">>,
        <<"{", "Items", "}">>, <<"{", "Items", "}", "^", "Opd">>, <<"(", "Exp", ")", "Sfxs">>,
        <<"(", "Exp", ")", "Sfxs", "^", "Opd">>}
  BY Zenon DEF Rules, Paren
<1>2. \E rhs \in Rules["Closed"] : r2 = rhs \o k
  BY DerivesFront
<1>3. \/ r2 = <<"lit">> \o k
      \/ r2 = <<"string">> \o k
      \/ r2 = <<"...">> \o k
      \/ r2 = <<"not", "Opd">> \o k
      \/ r2 = <<"-", "Opd">> \o k
      \/ r2 = <<"~", "Opd">> \o k
      \/ r2 = <<"lit", "^", "Opd">> \o k
      \/ r2 = <<"string", "^", "Opd">> \o k
      \/ r2 = <<"{", "Items", "}", "^", "Opd">> \o k
      \/ r2 = <<"(", "Exp", ")", "Sfxs", "^", "Opd">> \o k
      \/ r2 = <<"function", "Body">> \o k
      \/ r2 = <<"{", "Items", "}">> \o k
      \/ r2 = <<"(", "Exp", ")", "Sfxs">> \o k
  BY Zenon, <1>1, <1>2
<1>4. /\ <<"lit">> \o k = Cons("lit", k) /\ <<"string">> \o k = Cons("string", k)
      /\ <<"...">> \o k = Cons("...", k)
  BY Zenon, Join1
<1>5. /\ <<"not", "Opd">> \o k = P2("not", "Opd", k) /\ <<"-", "Opd">> \o k = P2("-", "Opd", k)
      /\ <<"~", "Opd">> \o k = P2("~", "Opd", k)
      /\ <<"function", "Body">> \o k = P2("function", "Body", k)
  BY Zenon, Join2
<1>6. /\ <<"lit", "^", "Opd">> \o k = P3("lit", "^", "Opd", k)
      /\ <<"string", "^", "Opd">> \o k = P3("string", "^", "Opd", k)
      /\ <<"{", "Items", "}">> \o k = P3(LBrace, "Items", RBrace, k)
  BY Zenon, Join3 DEF LBrace, RBrace
<1>7. /\ <<"(", "Exp", ")", "Sfxs">> \o k = P4("(", "Exp", ")", "Sfxs", k)
      /\ <<"{", "Items", "}", "^", "Opd">> \o k = P5(LBrace, "Items", RBrace, "^", "Opd", k)
  BY Zenon, Join4, Join5 DEF LBrace, RBrace
<1>8. <<"(", "Exp", ")", "Sfxs", "^", "Opd">> \o k = P6("(", "Exp", ")", "Sfxs", "^", "Opd", k)
  BY Zenon, Join6
<1> QED  BY <1>3, <1>4, <1>5, <1>6, <1>7, <1>8

LEMMA DeriveSfxs ==
  ASSUME NEW k, NEW r2, List(k), Derives(Cons("Sfxs", k), r2)
  PROVE  r2 = k \/ r2 = P2("Index", "Sfxs", k) \/ r2 = P2("Invoke", "Sfxs", k)
<1>1. Rules["Sfxs"] = {<<>>, <<"Index", "Sfxs">>, <<"Invoke", "Sfxs">>}
  BY Zenon DEF Rules
<1>2. \E rhs \in Rules["Sfxs"] : r2 = rhs \o k
  BY DerivesFront
<1>3. \/ r2 = <<>> \o k
      \/ r2 = <<"Index", "Sfxs">> \o k
      \/ r2 = <<"Invoke", "Sfxs">> \o k
  BY Zenon, <1>1, <1>2
<1> QED  BY Zenon, <1>3, Join0, Join2

LEMMA DeriveIndex ==
  ASSUME NEW k, NEW r2, List(k), Derives(Cons("Index", k), r2)
  PROVE  r2 = P2(".", "name", k) \/ r2 = P3("[", "Exp", "]", k)
<1>1. Rules["Index"] = {<<".", "name">>, <<"[", "Exp", "]">>}
  BY Zenon DEF Rules
<1>2. \E rhs \in Rules["Index"] : r2 = rhs \o k
  BY DerivesFront
<1>3. r2 = <<".", "name">> \o k \/ r2 = <<"[", "Exp", "]">> \o k
  BY Zenon, <1>1, <1>2
<1> QED  BY Zenon, <1>3, Join2, Join3

LEMMA DeriveInvoke ==
  ASSUME NEW k, NEW r2, List(k), Derives(Cons("Invoke", k), r2)
  PROVE  r2 = Cons("Arg", k) \/ r2 = P3(":", "name", "Arg", k)
<1>1. Rules["Invoke"] = {<<"Arg">>, <<":", "name", "Arg">>}
  BY Zenon DEF Rules
<1>2. \E rhs \in Rules["Invoke"] : r2 = rhs \o k
  BY DerivesFront
<1>3. r2 = <<"Arg">> \o k \/ r2 = <<":", "name", "Arg">> \o k
  BY Zenon, <1>1, <1>2
<1> QED  BY Zenon, <1>3, Join1, Join3

LEMMA DeriveArg ==
  ASSUME NEW k, NEW r2, List(k), Derives(Cons("Arg", k), r2)
  PROVE  \/ r2 = P2("(", ")", k)
         \/ r2 = P3("(", "Exps", ")", k)
         \/ r2 = Cons("string", k)
         \/ r2 = P3(LBrace, "Items", RBrace, k)
<1>1. Rules["Arg"] = {<<"(", ")">>, <<"(", "Exps", ")">>, <<"string">>, <<"{", "Items", "}">>}
  BY Zenon DEF Rules
<1>2. \E rhs \in Rules["Arg"] : r2 = rhs \o k
  BY DerivesFront
<1>3. \/ r2 = <<"(", ")">> \o k
      \/ r2 = <<"(", "Exps", ")">> \o k
      \/ r2 = <<"string">> \o k
      \/ r2 = <<"{", "Items", "}">> \o k
  BY Zenon, <1>1, <1>2
<1> QED  BY Zenon, <1>3, Join1, Join2, Join3 DEF LBrace, RBrace

LEMMA DeriveItems ==
  ASSUME NEW k, NEW r2, List(k), Derives(Cons("Items", k), r2)
  PROVE  \/ r2 = k
         \/ r2 = Cons("Item", k)
         \/ r2 = P3("Item", Comma, "Items", k)
         \/ r2 = P3("Item", Semi, "Items", k)
<1>1. Rules["Items"] = {<<>>, <<"Item">>, <<"Item", ",", "Items">>, <<"Item", ";", "Items">>}
  BY Zenon DEF Rules
<1>2. \E rhs \in Rules["Items"] : r2 = rhs \o k
  BY DerivesFront
<1>3. \/ r2 = <<>> \o k
      \/ r2 = <<"Item">> \o k
      \/ r2 = <<"Item", ",", "Items">> \o k
      \/ r2 = <<"Item", ";", "Items">> \o k
  BY Zenon, <1>1, <1>2
<1> QED  BY Zenon, <1>3, Join0, Join1, Join3 DEF Comma, Semi

LEMMA DeriveBinop ==
  ASSUME NEW k, NEW r2, List(k), Derives(Cons("Binop", k), r2)
  PROVE  \E b \in Binary : r2 = Cons(b, k)
<1>1. Rules["Binop"] = {<<b>> : b \in Binary}
  BY Zenon DEF Rules
<1>2. \E rhs \in Rules["Binop"] : r2 = rhs \o k
  BY DerivesFront
<1>3. \E b \in Binary : r2 = <<b>> \o k
  BY Zenon, <1>1, <1>2
<1> QED  BY Zenon, <1>3, Join1

LEMMA DeriveItem ==
  ASSUME Forms = {}, NEW k, NEW r2, List(k), Derives(Cons("Item", k), r2)
  PROVE  \/ r2 = P5("[", "Exp", "]", "=", "Exp", k) \/ r2 = P3("name", "=", "Exp", k)
         \/ r2 = P2("name", "Sfxs", k) \/ r2 = P3("name", "Binop", "Exp", k)
         \/ r2 = Cons("Closed", k) \/ r2 = P3("Closed", "Binop", "Exp", k)
<1>1. /\ Rules["Item"] = {<<"[", "Exp", "]", "=", "Exp">>, <<"name", "=", "Exp">>} \cup FieldExps
      /\ FieldExps = {<<"name", "Sfxs">>, <<"name", "Binop", "Exp">>, <<"Closed">>, <<"Closed",
           "Binop", "Exp">>}
  BY Zenon DEF Rules, FieldExps
<1>2. \E rhs \in Rules["Item"] : r2 = rhs \o k
  BY DerivesFront
<1>3. \/ r2 = <<"[", "Exp", "]", "=", "Exp">> \o k \/ r2 = <<"name", "=", "Exp">> \o k
      \/ r2 = <<"name", "Sfxs">> \o k \/ r2 = <<"name", "Binop", "Exp">> \o k
      \/ r2 = <<"Closed">> \o k \/ r2 = <<"Closed", "Binop", "Exp">> \o k
  BY Zenon, <1>1, <1>2
<1> QED  BY Zenon, <1>3, Join1, Join2, Join3, Join5

LEMMA DeriveStat ==
  ASSUME Forms = {}, NEW k, NEW r2, List(k), Derives(Cons("Stat", k), r2)
  PROVE  \/ r2 = P4("Var", "Targets", "=", "Exps", k)
         \/ r2 = P3("name", "Sfxs", "Invoke", k)
         \/ r2 = P3("::", "name", "::", k)
         \/ r2 = Cons("break", k)
         \/ r2 = P2("goto", "name", k)
         \/ r2 = P3("do", "Chunk", "end", k)
         \/ r2 = P3("while", "Exp", "Do", k)
         \/ r2 = P3("for", "Range", "Do", k)
         \/ r2 = P4("repeat", "Chunk", "until", "Exp", k)
         \/ r2 = P3("if", "Clause", "end", k)
         \/ r2 = P4("function", "name", "Path", "Body", k)
         \/ r2 = P4("local", "function", "name", "Body", k)
         \/ r2 = P3("local", "Names", "Init", k)
<1>1. Rules["Stat"] = Stats \cup RareStats /\ RareStats = {}
  BY Zenon DEF Rules, RareStats
<1>0. \E rhs \in Rules["Stat"] : r2 = rhs \o k
  BY DerivesFront
<1>2. PICK rhs \in Stats : r2 = rhs \o k
  BY Zenon, <1>0, <1>1
<1>3. CASE rhs \in {<<"break">>, <<"goto", "name">>}
  BY Zenon, <1>2, <1>3, Join1, Join2
<1>4. CASE rhs \in {<<"name", "Sfxs", "Invoke">>, <<"::", "name", "::">>,
                   <<"do", "Chunk", "end">>, <<"while", "Exp", "Do">>, <<"for", "Range", "Do">>,
                   <<"if", "Clause", "end">>, <<"local", "Names", "Init">>}
  BY Zenon, <1>2, <1>4, Join3
<1>5. CASE rhs \in {<<"Var", "Targets", "=", "Exps">>, <<"repeat", "Chunk", "until", "Exp">>,
                   <<"function", "name", "Path", "Body">>, <<"local", "function", "name",
                       "Body">>}
  BY Zenon, <1>2, <1>5, Join4
<1> QED  BY Zenon, <1>2, <1>3, <1>4, <1>5 DEF Stats

\* Lists with elements in front are written out wherever they stand.
USE DEF P2, P3, P4, P5, P6, P7, P8

LEMMA TokensAre ==
  /\ "eof" \in Token /\ "end" \in Token /\ "else" \in Token /\ "elseif" \in Token
       /\ "until" \in Token
  /\ "not" \in Token /\ "-" \in Token /\ "~" \in Token /\ "op" \in Token
  /\ "lit" \in Token /\ "string" \in Token /\ "..." \in Token /\ "name" \in Token
  /\ Comma \in Token /\ Semi \in Token /\ "if" \in Token /\ "then" \in Token /\ "while" \in Token
  /\ "do" \in Token /\ "repeat" \in Token /\ "for" \in Token /\ "in" \in Token
  /\ "function" \in Token /\ "local" \in Token /\ "return" \in Token /\ "break" \in Token
  /\ "goto" \in Token /\ "::" \in Token /\ "=" \in Token /\ "(" \in Token /\ ")" \in Token
  /\ LBrace \in Token /\ RBrace \in Token /\ "[" \in Token /\ "]" \in Token /\ "." \in Token
  /\ ":" \in Token /\ "^" \in Token /\ Binary \subseteq Token
  /\ \A x \in {Comma, Semi, LBrace, RBrace} : x \notin {"end", "until"}
BY Zenon DEF Token, BlockEnd, Unary, Binary, Atomic, Separator, Comma, Semi, LBrace, RBrace

LEMMA TokensStand ==
  ASSUME NEW x \in Token, NEW k, List(k), NEW r2
  PROVE  ~ Derives(Cons(x, k), r2)
BY Zenon, NoTokenIsDerived, DerivesFront

(***************************************************************************)
(* The leftmost forms of the symbols.                                      *)
(***************************************************************************)
BinopAt(r, k) == r = Cons("Binop", k) \/ \E b \in Binary : r = Cons(b, k)
IndexAt(r, k) == r \in {Cons("Index", k), P2(".", "name", k), P3("[", "Exp", "]", k)}
ArgAt(r, k) ==
  r \in {Cons("Arg", k), P2("(", ")", k), P3("(", "Exps", ")", k), Cons("string", k),
         P3(LBrace, "Items", RBrace, k)}
InvokeAt(r, k) == r \in {Cons("Invoke", k), P3(":", "name", "Arg", k)} \/ ArgAt(r, k)
Suffixed(k)     == {k, Cons("Sfxs", k), P2("Sfxs", "Index", k), P2("Sfxs", "Invoke", k)}
SfxsAt(r, k) ==
  \/ r \in Suffixed(k)
  \/ \E m \in Suffixed(k) : IndexAt(r, m) \/ InvokeAt(r, m)
ClosedAt(r, k) ==
  r \in {Cons("Closed", k), Cons("lit", k), Cons("string", k), Cons("...", k), P2("not", "Opd",
      k),
         P2("-", "Opd", k), P2("~", "Opd", k), P3("lit", "^", "Opd", k),
         P3("string", "^", "Opd", k), P2("function", "Body", k),
         P3(LBrace, "Items", RBrace, k), P5(LBrace, "Items", RBrace, "^", "Opd", k),
         P4("(", "Exp", ")", "Sfxs", k), P6("(", "Exp", ")", "Sfxs", "^", "Opd", k)}
OpdAt(r, k) ==
  r \in {Cons("Opd", k), P2("name", "Sfxs", k), P4("name", "Sfxs", "^", "Opd",
      k)} \/ ClosedAt(r, k)
ExpAt(r, k) ==
  r = Cons("Exp", k) \/ \E m \in {k, P2("Binop", "Exp", k)} : OpdAt(r, m)
ExpsAt(r, k) ==
  r = Cons("Exps", k) \/ \E m \in {k, P2(Comma, "Exps", k)} : ExpAt(r, m)
VarAt(r, k)  == r \in {Cons("Var", k), Cons("name", k), P3("name", "Sfxs", "Index", k)}
TargetsAt(r, k) == r \in {k, Cons("Targets", k), P3(Comma, "Var", "Targets", k)}
NamesAt(r, k)   == r \in {Cons("Names", k), Cons("name", k), P3("name", Comma, "Names", k)}
InitAt(r, k)    == r \in {k, Cons("Init", k), P2("=", "Exps", k)}
DoAt(r, k)      == r \in {Cons("Do", k), P3("do", "Chunk", "end", k)}
RangeAt(r, k) ==
  \/ r \in {Cons("Range", k), P5("name", "=", "Exp", Comma, "Exp", k),
            P7("name", "=", "Exp", Comma, "Exp", Comma, "Exp", k)}
  \/ NamesAt(r, P2("in", "Exps", k))
PathAt(r, k)   == r \in {k, Cons("Path", k), P3(".", "name", "Path", k), P2(":", "name", k)}
BodyAt(r, k)   == r \in {Cons("Body", k), P4("(", "Params", ")", "Inner", k)}
ParamsAt(r, k) == r \in {k, Cons("Params", k), Cons("...", k), P2("name", "More", k)}
MoreAt(r, k)   == r \in {k, Cons("More", k), P2(Comma, "...", k), P3(Comma, "name", "More", k)}
ValuesAt(r, k) == r \in {k, Cons("Values", k)} \/ ExpsAt(r, k)
ClauseAt(r, k) == r = Cons("Clause", k) \/ ExpAt(r, P3("then", "Chunk", "Else", k))
ElseAt(r, k)  == r \in {k, Cons("Else", k), P2("else", "Chunk", k), P2("elseif", "Clause", k)}
ItemAt(r, k) ==
  \/ r \in {Cons("Item", k), P5("[", "Exp", "]", "=", "Exp", k), P3("name", "=", "Exp", k),
            P2("name", "Sfxs", k), P3("name", "Binop", "Exp", k)}
  \/ \E m \in {k, P2("Binop", "Exp", k)} : ClosedAt(r, m)
ItemsAt(r, k) ==
  \/ r \in {k, Cons("Items", k)}
  \/ \E m \in {k, P2(Comma, "Items", k), P2(Semi, "Items", k)} : ItemAt(r, m)
StatAt(r, k) ==
  \/ r \in {Cons("Stat", k), P3("name", "Sfxs", "Invoke", k), P3("::", "name", "::", k),
       Cons("break", k),
            P2("goto", "name", k), P3("do", "Chunk", "end", k), P3("while", "Exp", "Do", k),
            P3("for", "Range", "Do", k), P4("repeat", "Chunk", "until", "Exp", k),
            P3("if", "Clause", "end", k),
            P4("function", "name", "Path", "Body", k), P4("local", "function", "name", "Body", k),
            P3("local", "Names", "Init", k)}
  \/ VarAt(r, P3("Targets", "=", "Exps", k))
ChunkAt(r, k) ==
  \/ r \in {k, Cons("Chunk", k), P2("return", "Values", k), P3("return", "Values", Semi, k)}
  \/ \E m \in {Cons("Chunk", k), P2(Semi, "Chunk", k)} : StatAt(r, m)
InnerAt(r, k) == r = Cons("Inner", k) \/ ChunkAt(r, Cons("end", k))

(***************************************************************************)
(* A form that is derived further is a form, or what follows is derived.   *)
(***************************************************************************)
LEMMA FormBinop ==
  ASSUME NEW r, NEW r2, NEW k, List(k), BinopAt(r, k), Derives(r, r2)
  PROVE  BinopAt(r2, k)
BY DeriveBinop, TokensStand, TokensAre DEF BinopAt

LEMMA FormIndex ==
  ASSUME NEW r, NEW r2, NEW k, List(k), IndexAt(r, k), Derives(r, r2)
  PROVE  IndexAt(r2, k)
BY DeriveIndex, TokensStand, TokensAre, ConsList DEF IndexAt

LEMMA FormArg ==
  ASSUME NEW r, NEW r2, NEW k, List(k), ArgAt(r, k), Derives(r, r2)
  PROVE  ArgAt(r2, k)
BY DeriveArg, TokensStand, TokensAre, ConsList DEF ArgAt

LEMMA FormInvoke ==
  ASSUME NEW r, NEW r2, NEW k, List(k), InvokeAt(r, k), Derives(r, r2)
  PROVE  InvokeAt(r2, k)
<1>1. CASE ArgAt(r, k)
  BY <1>1, FormArg DEF InvokeAt
<1>2. CASE ~ ArgAt(r, k)
  <2>1. ArgAt(Cons("Arg", k), k)
    BY DEF ArgAt
  <2> QED  BY <1>2, <2>1, DeriveInvoke, TokensStand, TokensAre, ConsList DEF InvokeAt
<1> QED  BY <1>1, <1>2

LEMMA FormSfxs ==
  ASSUME NEW r, NEW r2, NEW k, List(k), SfxsAt(r, k), Derives(r, r2)
  PROVE  SfxsAt(r2, k) \/ r = k
<1>1. ASSUME NEW m \in Suffixed(k), IndexAt(r, m) \/ InvokeAt(r, m) PROVE SfxsAt(r2, k)
  <2>1. List(m)
    BY <1>1, ConsList DEF Suffixed
  <2> QED  BY <1>1, <2>1, FormIndex, FormInvoke DEF SfxsAt
<1>2. CASE r \in Suffixed(k) /\ r # k
  <2>1. PICK m : m \in {k, Cons("Index", k), Cons("Invoke", k)} /\ r = Cons("Sfxs", m)
    BY <1>2 DEF Suffixed
  <2>2. r \in Suffixed(k) /\ k \in Suffixed(k)
    BY <1>2 DEF Suffixed
  <2>3. List(m)
    BY <2>1, ConsList
  <2>4. r2 = m \/ r2 = Cons("Index", r) \/ r2 = Cons("Invoke", r)
    BY <2>1, <2>3, DeriveSfxs
  <2>5. r2 = m => r2 = k \/ IndexAt(r2, k) \/ InvokeAt(r2, k)
    BY <2>1 DEF IndexAt, InvokeAt
  <2>6. r2 # m => IndexAt(r2, r) \/ InvokeAt(r2, r)
    BY <2>4 DEF IndexAt, InvokeAt
  <2> QED  BY <2>2, <2>5, <2>6 DEF SfxsAt
<1> QED  BY <1>1, <1>2 DEF SfxsAt

LEMMA FormClosed ==
  ASSUME NEW r, NEW r2, NEW k, List(k), ClosedAt(r, k), Derives(r, r2)
  PROVE  ClosedAt(r2, k)
<1>1. CASE r = Cons("Closed", k)
  BY Zenon, <1>1, DeriveClosed DEF ClosedAt
<1>2. CASE r # Cons("Closed", k)
  <2>1. \E x \in Token : \E l : List(l) /\ r = Cons(x, l)
    BY <1>2, TokensAre, ConsList DEF ClosedAt
  <2> QED  BY Zenon, <2>1, TokensStand
<1> QED  BY <1>1, <1>2

LEMMA FormOpd ==
  ASSUME NEW r, NEW r2, NEW k, List(k), OpdAt(r, k), Derives(r, r2)
  PROVE  OpdAt(r2, k)
<1>1. CASE ClosedAt(r, k)
  BY <1>1, FormClosed DEF OpdAt
<1>2. CASE ~ ClosedAt(r, k)
  <2>1. ClosedAt(Cons("Closed", k), k)
    BY DEF ClosedAt
  <2> QED  BY <1>2, <2>1, DeriveOpd, TokensStand, TokensAre, ConsList DEF OpdAt
<1> QED  BY <1>1, <1>2

LEMMA FormExp ==
  ASSUME NEW r, NEW r2, NEW k, List(k), ExpAt(r, k), Derives(r, r2)
  PROVE  ExpAt(r2, k)
<1>1. List(P2("Binop", "Exp", k))
  BY ConsList
<1>2. OpdAt(Cons("Opd", k), k) /\ OpdAt(P3("Opd", "Binop", "Exp", k), P2("Binop", "Exp", k))
  BY DEF OpdAt
<1>3. CASE r = Cons("Exp", k)
  BY <1>2, <1>3, DeriveExp DEF ExpAt
<1>4. ASSUME NEW m \in {k, P2("Binop", "Exp", k)}, OpdAt(r, m) PROVE ExpAt(r2, k)
  BY <1>1, <1>4, FormOpd DEF ExpAt
<1> QED  BY <1>3, <1>4 DEF ExpAt

LEMMA FormExps ==
  ASSUME NEW r, NEW r2, NEW k, List(k), ExpsAt(r, k), Derives(r, r2)
  PROVE  ExpsAt(r2, k)
<1>1. List(P2(Comma, "Exps", k))
  BY ConsList
<1>2. ExpAt(Cons("Exp", k), k) /\ ExpAt(P3("Exp", Comma, "Exps", k), P2(Comma, "Exps", k))
  BY DEF ExpAt
<1>3. CASE r = Cons("Exps", k)
  BY <1>2, <1>3, DeriveExps DEF ExpsAt
<1>4. ASSUME NEW m \in {k, P2(Comma, "Exps", k)}, ExpAt(r, m) PROVE ExpsAt(r2, k)
  BY <1>1, <1>4, FormExp DEF ExpsAt
<1> QED  BY <1>3, <1>4 DEF ExpsAt

LEMMA FormVar ==
  ASSUME NEW r, NEW r2, NEW k, List(k), VarAt(r, k), Derives(r, r2)
  PROVE  VarAt(r2, k)
BY DeriveVar, TokensStand, TokensAre, ConsList DEF VarAt

LEMMA FormNames ==
  ASSUME NEW r, NEW r2, NEW k, List(k), NamesAt(r, k), Derives(r, r2)
  PROVE  NamesAt(r2, k)
BY DeriveNames, TokensStand, TokensAre, ConsList DEF NamesAt

LEMMA FormDo ==
  ASSUME NEW r, NEW r2, NEW k, List(k), DoAt(r, k), Derives(r, r2)
  PROVE  DoAt(r2, k)
BY DeriveDo, TokensStand, TokensAre, ConsList DEF DoAt

LEMMA FormBody ==
  ASSUME NEW r, NEW r2, NEW k, List(k), BodyAt(r, k), Derives(r, r2)
  PROVE  BodyAt(r2, k)
BY DeriveBody, TokensStand, TokensAre, ConsList DEF BodyAt

LEMMA FormTargets ==
  ASSUME NEW r, NEW r2, NEW k, List(k), TargetsAt(r, k), Derives(r, r2)
  PROVE  TargetsAt(r2, k) \/ r = k
BY DeriveTargets, TokensStand, TokensAre, ConsList DEF TargetsAt

LEMMA FormInit ==
  ASSUME NEW r, NEW r2, NEW k, List(k), InitAt(r, k), Derives(r, r2)
  PROVE  InitAt(r2, k) \/ r = k
BY DeriveInit, TokensStand, TokensAre, ConsList DEF InitAt

LEMMA FormPath ==
  ASSUME NEW r, NEW r2, NEW k, List(k), PathAt(r, k), Derives(r, r2)
  PROVE  PathAt(r2, k) \/ r = k
BY DerivePath, TokensStand, TokensAre, ConsList DEF PathAt

LEMMA FormParams ==
  ASSUME NEW r, NEW r2, NEW k, List(k), ParamsAt(r, k), Derives(r, r2)
  PROVE  ParamsAt(r2, k) \/ r = k
BY DeriveParams, TokensStand, TokensAre, ConsList DEF ParamsAt

LEMMA FormMore ==
  ASSUME NEW r, NEW r2, NEW k, List(k), MoreAt(r, k), Derives(r, r2)
  PROVE  MoreAt(r2, k) \/ r = k
BY DeriveMore, TokensStand, TokensAre, ConsList DEF MoreAt

LEMMA FormElse ==
  ASSUME NEW r, NEW r2, NEW k, List(k), ElseAt(r, k), Derives(r, r2)
  PROVE  ElseAt(r2, k) \/ r = k
BY DeriveElse, TokensStand, TokensAre, ConsList DEF ElseAt

LEMMA FormRange ==
  ASSUME NEW r, NEW r2, NEW k, List(k), RangeAt(r, k), Derives(r, r2)
  PROVE  RangeAt(r2, k)
<1>1. CASE NamesAt(r, P2("in", "Exps", k))
  BY <1>1, FormNames, ConsList DEF RangeAt
<1>2. CASE ~ NamesAt(r, P2("in", "Exps", k))
  <2>1. NamesAt(P3("Names", "in", "Exps", k), P2("in", "Exps", k))
    BY DEF NamesAt
  <2> QED  BY <1>2, <2>1, DeriveRange, TokensStand, TokensAre, ConsList DEF RangeAt
<1> QED  BY <1>1, <1>2

LEMMA FormValues ==
  ASSUME NEW r, NEW r2, NEW k, List(k), ValuesAt(r, k), Derives(r, r2)
  PROVE  ValuesAt(r2, k) \/ r = k
<1>1. CASE ExpsAt(r, k)
  BY <1>1, FormExps DEF ValuesAt
<1>2. ExpsAt(Cons("Exps", k), k)
  BY DEF ExpsAt
<1> QED  BY <1>1, <1>2, DeriveValues DEF ValuesAt

LEMMA FormClause ==
  ASSUME NEW r, NEW r2, NEW k, List(k), ClauseAt(r, k), Derives(r, r2)
  PROVE  ClauseAt(r2, k)
<1>1. CASE ExpAt(r, P3("then", "Chunk", "Else", k))
  BY <1>1, FormExp, ConsList DEF ClauseAt
<1>2. ExpAt(P4("Exp", "then", "Chunk", "Else", k), P3("then", "Chunk", "Else", k))
  BY DEF ExpAt
<1> QED  BY <1>1, <1>2, DeriveClause DEF ClauseAt

LEMMA FormItem ==
  ASSUME Forms = {}, NEW r, NEW r2, NEW k, List(k), ItemAt(r, k), Derives(r, r2)
  PROVE  ItemAt(r2, k)
<1>1. List(P2("Binop", "Exp", k))
  BY ConsList
<1>2. ASSUME NEW m \in {k, P2("Binop", "Exp", k)}, ClosedAt(r, m) PROVE ItemAt(r2, k)
  BY <1>1, <1>2, FormClosed DEF ItemAt
<1>3. ClosedAt(Cons("Closed", k), k)
        /\ ClosedAt(P3("Closed", "Binop", "Exp", k), P2("Binop", "Exp", k))
  BY DEF ClosedAt
<1>4. CASE r = Cons("Item", k)
  BY <1>3, <1>4, DeriveItem DEF ItemAt
<1>5. CASE r \in {P5("[", "Exp", "]", "=", "Exp", k), P3("name", "=", "Exp", k),
                  P2("name", "Sfxs", k), P3("name", "Binop", "Exp", k)}
  BY <1>5, TokensStand, TokensAre, ConsList
<1> QED  BY <1>2, <1>4, <1>5 DEF ItemAt

LEMMA FormItems ==
  ASSUME Forms = {}, NEW r, NEW r2, NEW k, List(k), ItemsAt(r, k), Derives(r, r2)
  PROVE  ItemsAt(r2, k) \/ r = k
<1>1. List(P2(Comma, "Items", k)) /\ List(P2(Semi, "Items", k))
  BY ConsList
<1>2. \A m : ItemAt(Cons("Item", m), m)
  BY DEF ItemAt
<1>3. ASSUME NEW m \in {k, P2(Comma, "Items", k), P2(Semi, "Items", k)}, ItemAt(r, m)
               PROVE ItemsAt(r2, k)
  BY <1>1, <1>3, FormItem DEF ItemsAt
<1>4. CASE r = Cons("Items", k)
  BY <1>2, <1>4, DeriveItems DEF ItemsAt
<1> QED  BY <1>3, <1>4 DEF ItemsAt

LEMMA FormStat ==
  ASSUME Forms = {}, NEW r, NEW r2, NEW k, List(k), StatAt(r, k), Derives(r, r2)
  PROVE  StatAt(r2, k)
<1>1. CASE VarAt(r, P3("Targets", "=", "Exps", k))
  BY <1>1, FormVar, ConsList DEF StatAt
<1>2. ASSUME r = P3("do", "Chunk", "end", k) PROVE FALSE
  BY <1>2, TokensStand, TokensAre, ConsList
<1>3. CASE r = Cons("Stat", k)
  <2>1. VarAt(P4("Var", "Targets", "=", "Exps", k), P3("Targets", "=", "Exps", k))
    BY DEF VarAt
  <2> QED  BY <1>3, <2>1, DeriveStat DEF StatAt
<1>4. ASSUME r \in {P3("name", "Sfxs", "Invoke", k), P3("::", "name", "::", k), Cons("break", k),
                   P2("goto", "name", k), P3("while", "Exp", "Do", k), P3("for", "Range", "Do",
                       k)}
      PROVE  FALSE
  BY <1>4, TokensStand, TokensAre, ConsList
<1>5. ASSUME r \in {P4("repeat", "Chunk", "until", "Exp", k), P3("if", "Clause", "end", k),
                   P4("function", "name", "Path", "Body", k), P4("local", "function", "name",
                       "Body", k),
                   P3("local", "Names", "Init", k)}
      PROVE  FALSE
  BY <1>5, TokensStand, TokensAre, ConsList
<1> QED  BY <1>1, <1>2, <1>3, <1>4, <1>5 DEF StatAt

LEMMA FormChunk ==
  ASSUME Forms = {}, NEW r, NEW r2, NEW k, List(k), ChunkAt(r, k), Derives(r, r2)
  PROVE  ChunkAt(r2, k) \/ r = k
<1>1. List(Cons("Chunk", k)) /\ List(P2(Semi, "Chunk", k))
  BY ConsList
<1>2. \A m : StatAt(Cons("Stat", m), m)
  BY DEF StatAt
<1>3. ASSUME NEW m \in {Cons("Chunk", k), P2(Semi, "Chunk", k)}, StatAt(r, m) PROVE ChunkAt(r2, k)
  BY <1>1, <1>3, FormStat DEF ChunkAt
<1>4. CASE r = Cons("Chunk", k)
  BY <1>2, <1>4, DeriveChunk DEF ChunkAt
<1>5. CASE r \in {P2("return", "Values", k), P3("return", "Values", Semi, k)}
  BY <1>5, TokensStand, TokensAre, ConsList
<1> QED  BY <1>3, <1>4, <1>5 DEF ChunkAt

LEMMA FormInner ==
  ASSUME Forms = {}, NEW r, NEW r2, NEW k, List(k), InnerAt(r, k), Derives(r, r2)
  PROVE  InnerAt(r2, k)
<1>1. CASE ChunkAt(r, Cons("end", k))
  BY <1>1, FormChunk, ConsList, TokensStand, TokensAre DEF InnerAt
<1>2. ChunkAt(P2("Chunk", "end", k), Cons("end", k))
  BY DEF ChunkAt
<1> QED  BY <1>1, <1>2, DeriveInner DEF InnerAt

------------------------------------------------------------------------------
(***************************************************************************)
(* What the calls read. Reads(a, r, F, k, G): the call a reads the program *)
(* r up to k; the tokens r can start with are in F, those that k can start *)
(* with in G. Of each routine it says what it is called for, and what may  *)
(* follow without being taken for a part of it.                            *)
(***************************************************************************)

SufFirst   == {".", "[", ":", "(", "string", LBrace}
ExpFirst   == {"not", "-", "~", "lit", "string", "...", "name", "function", "(", LBrace}
ItemFirst  == ExpFirst \cup {"["}
StatFirst  == {"name", "::", "break", "goto", "do", "while", "for", "repeat", "if", "function",
    "local"}
ChunkFirst == StatFirst \cup {"return"}

AfterReturn == BlockEnd \cup {Semi}
AfterStat   == AfterReturn \cup ChunkFirst
AfterField  == {Comma, Semi, RBrace}
Clear(G, S) == \A x \in G : x \notin S
PowNext     == SufFirst \cup {"^"}
ExpNext     == PowNext \cup Binary
ListNext    == ExpNext \cup {Comma}

ReadsBlock(a, r, F, k, G) ==
  \/ /\ a = "Block" /\ G \subseteq BlockEnd /\ G \subseteq F
     /\ r = k \/ (ChunkAt(r, k) /\ ChunkFirst \subseteq F)
  \/ /\ a = "Semicolon" /\ Semi \notin G /\ G \subseteq F
     /\ r = k \/ (r = Cons(Semi, k) /\ Semi \in F)
  \/ a = "Statement" /\ StatAt(r, k) /\ StatFirst \subseteq F /\ G \subseteq AfterStat
  \/ a = "Statement" /\ r = P2("return", "Values", k) /\ "return" \in F /\ G \subseteq AfterReturn
  \/ a = "AssignOrCall" /\ (r = k \/ TargetsAt(r, P2("=", "Exps", k)))
     /\ {Comma, "="} \cup G \subseteq F /\ G \subseteq AfterStat
  \/ a = "MoreTargets" /\ TargetsAt(r, k) /\ {Comma} \cup G \subseteq F /\ G \subseteq {"="}
  \/ a = "LocalKind" /\ (r = P3("function", "name", "Body", k) \/ NamesAt(r, Cons("Init", k)))
     /\ {"function", "name"} \subseteq F /\ G \subseteq AfterStat
  \/ a = "LocalValues" /\ InitAt(r, k) /\ {"="} \cup G \subseteq F /\ G \subseteq AfterStat
  \/ a = "ElseIf" /\ ElseAt(r, Cons("end", k)) /\ {"else", "elseif", "end"} \subseteq F
  \/ a = "ForKind" /\ {"=", Comma, "in"} \subseteq F
     /\ r \in {P5("=", "Exp", Comma, "Exp", "Do", k), P7("=", "Exp", Comma, "Exp", Comma, "Exp",
          "Do", k),
               P5(Comma, "Names", "in", "Exps", "Do", k), P3("in", "Exps", "Do", k)}
  \/ a = "ForStep" /\ r \in {k, P2(Comma, "Exp", k)} /\ {Comma} \cup G \subseteq F
       /\ Clear(G, ListNext)
  \/ a = "ReturnValues" /\ ValuesAt(r, k) /\ ExpFirst \cup G \subseteq F
       /\ G \subseteq AfterReturn

ReadsFunction(a, r, F, k, G) ==
  \/ a = "FunctionStatement" /\ "function" \in F
     /\ r \in {P4("function", "name", "Path", "Body", k), P3("function", "name", "Body", k)}
  \/ a = "NameTail" /\ PathAt(r, k) /\ {".", ":"} \cup G \subseteq F /\ Clear(G, {".", ":"})
  \/ a = "FunctionBody" /\ BodyAt(r, k) /\ "(" \in F
  \/ a = "Parameters" /\ ParamsAt(r, k) /\ {"...", "name"} \cup G \subseteq F /\ G \subseteq {")"}
  \/ a = "Parameter" /\ r \in {Cons("...", k), P2("name", "More", k)}
       /\ {"...", "name"} \subseteq F /\ Comma \notin G
  \/ a = "MoreParameters" /\ MoreAt(r, k) /\ {Comma} \cup G \subseteq F /\ Comma \notin G
  \/ a = "MoreNames" /\ r \in {k, P2(Comma, "Names", k)} /\ {Comma} \cup G \subseteq F
       /\ Comma \notin G
  \/ a = "ExpressionList" /\ ExpsAt(r, k) /\ ExpFirst \subseteq F /\ Clear(G, ListNext)
  \/ a = "MoreExpressions" /\ r \in {k, P2(Comma, "Exps", k)} /\ {Comma} \cup G \subseteq F
       /\ Clear(G, ListNext)

ReadsExpression(a, r, F, k, G) ==
  \/ a = "Expression" /\ ExpAt(r, k) /\ ExpFirst \subseteq F /\ Clear(G, ExpNext)
  \/ a \in {"Operators", "FieldOperators"} /\ (r = k \/ BinopAt(r, Cons("Exp", k)))
     /\ Binary \cup G \subseteq F /\ Clear(G, ExpNext)
  \/ a = "Operand" /\ OpdAt(r, k) /\ ExpFirst \subseteq F /\ Clear(G, PowNext)
  \/ a = "Power" /\ r \in {k, P2("^", "Opd", k)} /\ {"^"} \cup G \subseteq F /\ Clear(G, PowNext)
  \/ a = "Primary" /\ ExpFirst \subseteq F /\ Clear(G, SufFirst)
     /\ \/ VarAt(r, k)
        \/ \E m \in Suffixed(k) : r = Cons("name", m)
        \/ r \in {Cons("lit", k), Cons("string", k), Cons("...", k), P2("function", "Body", k),
                  P3(LBrace, "Items", RBrace, k), P4("(", "Exp", ")", "Sfxs", k)}
  \/ a = "Suffixes" /\ SfxsAt(r, k) /\ SufFirst \cup G \subseteq F /\ Clear(G, SufFirst)
  \/ a = "Arguments" /\ (r = k \/ ExpsAt(r, k)) /\ ExpFirst \cup G \subseteq F
       /\ G \subseteq {")"}
  \/ a = "MethodArguments" /\ ArgAt(r, k) /\ {"(", "string", LBrace} \subseteq F

ReadsTable(a, r, F, k, G) ==
  \/ a = "Table" /\ r = P3(LBrace, "Items", RBrace, k) /\ LBrace \in F
  \/ /\ a = "Fields" /\ RBrace \in F
     /\ r = Cons(RBrace, k) \/ (ItemsAt(r, Cons(RBrace, k)) /\ ItemFirst \subseteq F)
  \/ a = "FieldSeparator" /\ r = k /\ G \subseteq F /\ Clear(G, {Comma, Semi})
  \/ a = "FieldSeparator" /\ r \in {Cons(Comma, k), Cons(Semi, k)} /\ {Comma, Semi} \subseteq F
  \/ a = "Field" /\ ItemAt(r, k) /\ ItemFirst \subseteq F /\ G \subseteq AfterField
  \/ a = "NamedField" /\ (r = P2("=", "Exp", k) \/ SfxsAt(r, k) \/ BinopAt(r, Cons("Exp", k)))
     /\ {"="} \cup SufFirst \cup Binary \cup G \subseteq F /\ G \subseteq AfterField

Reads(a, r, F, k, G) ==
  \/ ReadsBlock(a, r, F, k, G) \/ ReadsFunction(a, r, F, k, G)
  \/ ReadsExpression(a, r, F, k, G) \/ ReadsTable(a, r, F, k, G)

\* Calls that read a symbol of the grammar together.
Joint(s, r, F, s2, k, G) ==
  \/ (\E a \in {"Operators", "FieldOperators"} : s = P2("Operand", a, s2)) /\ ExpAt(r, k)
     /\ ExpFirst \subseteq F /\ Clear(G, ExpNext)
  \/ s = P3("do", "Block", "end", s2) /\ DoAt(r, k) /\ "do" \in F
  \/ s = P2("name", "ForKind", s2) /\ RangeAt(r, Cons("Do", k)) /\ "name" \in F
  \/ s = P4("Expression", "then", "Block", "ElseIf", s2) /\ ClauseAt(r, Cons("end", k))
       /\ ExpFirst \subseteq F
  \/ s = P2("Block", "end", s2) /\ InnerAt(r, k) /\ ChunkFirst \cup {"end"} \subseteq F
  \/ s = P2("name", "MoreNames", s2) /\ NamesAt(r, k) /\ "name" \in F /\ Comma \notin G
  \/ s = P2("Expression", "MoreExpressions", s2) /\ ExpsAt(r, k) /\ ExpFirst \subseteq F
       /\ Clear(G, ListNext)

Takes(s, r, F, s2, k) ==
  \E x \in Token \ {"eof"} :
    /\ s = Cons(x, s2) \/ (s = Cons("skip", s2) /\ x \notin {"end", "until"})
    /\ r = Cons(x, k) /\ x \in F

Link(s, r, F, s2, k, G) ==
  \/ Takes(s, r, F, s2, k)
  \/ \E a : s = Cons(a, s2) /\ Reads(a, r, F, k, G)
  \/ Joint(s, r, F, s2, k, G)

Base(s, r, F) == s = <<>> /\ r = <<"eof">> /\ "eof" \in F

Linked(C) ==
  \A s, r, F : <<s, r, F>> \in C =>
    /\ List(s) /\ List(r)
    /\ Base(s, r, F) \/ \E s2, k, G : <<s2, k, G>> \in C /\ Link(s, r, F, s2, k, G)
Couple(s, r, F) == \E C : <<s, r, F>> \in C /\ Linked(C)

LEMMA Unfold ==
  ASSUME NEW s, NEW r, NEW F, Couple(s, r, F)
  PROVE  /\ List(s) /\ List(r)
         /\ Base(s, r, F) \/ \E s2, k, G : Couple(s2, k, G) /\ Link(s, r, F, s2, k, G)
BY DEF Couple, Linked

LEMMA Fold ==
  ASSUME NEW s, NEW r, NEW F, NEW s2, NEW k, NEW G, Couple(s2, k, G), Link(s, r, F, s2, k, G),
         List(s), List(r)
  PROVE  Couple(s, r, F)
<1>1. PICK C : <<s2, k, G>> \in C /\ Linked(C)
  BY DEF Couple
<1>2. PICK D : D = C \cup {<<s, r, F>>}
  OBVIOUS
<1>3. ASSUME NEW t, NEW u, NEW E, <<t, u, E>> \in D
      PROVE  /\ List(t) /\ List(u)
             /\ Base(t, u, E) \/ \E t2, l, H : <<t2, l, H>> \in D /\ Link(t, u, E, t2, l, H)
  <2>1. CASE <<t, u, E>> \in C
    <3>1. /\ List(t) /\ List(u)
          /\ Base(t, u, E) \/ \E t2, l, H : <<t2, l, H>> \in C /\ Link(t, u, E, t2, l, H)
      BY <1>1, <2>1 DEF Linked
    <3> QED  BY <1>2, <3>1
  <2>2. CASE <<t, u, E>> = <<s, r, F>>
    BY <1>1, <1>2, <2>2
  <2> QED  BY <1>2, <1>3, <2>1, <2>2
<1>4. Linked(D)
  BY <1>3 DEF Linked
<1> QED  BY <1>2, <1>4 DEF Couple

LEMMA FoldTakes ==
  ASSUME NEW x \in Token, x # "eof", NEW s, NEW k, NEW G, Couple(s, k, G)
  PROVE  /\ Couple(Cons(x, s), Cons(x, k), {x})
         /\ x \notin {"end", "until"} => Couple(Cons("skip", s), Cons(x, k), {x})
<1>1. List(s) /\ List(k)
  BY Unfold
<1>2. /\ Takes(Cons(x, s), Cons(x, k), {x}, s, k)
      /\ x \notin {"end", "until"} => Takes(Cons("skip", s), Cons(x, k), {x}, s, k)
  BY DEF Takes
<1> QED  BY <1>1, <1>2, Fold, ConsList DEF Link

LEMMA FoldReads ==
  ASSUME NEW a, NEW r, NEW F, NEW s, NEW k, NEW G, Couple(s, k, G), Reads(a, r, F, k, G), List(r)
  PROVE  Couple(Cons(a, s), r, F)
<1>1. List(s)
  BY Unfold
<1> QED  BY <1>1, Fold, ConsList DEF Link

LEMMA FoldJoint ==
  ASSUME NEW t, NEW r, NEW F, NEW s, NEW k, NEW G, Couple(s, k, G), Joint(t, r, F, s, k, G),
           List(t), List(r)
  PROVE  Couple(t, r, F)
BY Fold DEF Link

LEMMA Distinct ==
  /\ Comma \notin {"eof", "end", "else", "elseif", "until", "not", "-", "~", "op", "lit",
       "string", "...",
       "name", "if", "then", "while", "do", "repeat", "for", "in", "function", "local",
           "return", "break",
       "goto", "::", "=", "(", ")", "[", "]", ".", ":", "^"}
  /\ Semi \notin {"eof", "end", "else", "elseif", "until", "not", "-", "~", "op", "lit",
       "string", "...",
       "name", "if", "then", "while", "do", "repeat", "for", "in", "function", "local",
           "return", "break",
       "goto", "::", "=", "(", ")", "[", "]", ".", ":", "^", Comma}
  /\ LBrace \notin {"eof", "end", "else", "elseif", "until", "not", "-", "~", "op", "lit",
       "string", "...",
       "name", "if", "then", "while", "do", "repeat", "for", "in", "function", "local",
           "return", "break",
       "goto", "::", "=", "(", ")", "[", "]", ".", ":", "^", Comma, Semi}
  /\ RBrace \notin {"eof", "end", "else", "elseif", "until", "not", "-", "~", "op", "lit",
       "string", "...",
       "name", "if", "then", "while", "do", "repeat", "for", "in", "function", "local",
           "return", "break",
       "goto", "::", "=", "(", ")", "[", "]", ".", ":", "^", Comma, Semi, LBrace}
BY Zenon DEF Comma, Semi, LBrace, RBrace

------------------------------------------------------------------------------
(***************************************************************************)
(* Deriving the program further: what a call reads stays what it reads.    *)
(***************************************************************************)

LEMMA ConsIsList ==
  ASSUME NEW x, NEW k, List(k) PROVE List(Cons(x, k))
BY ConsList

LEMMA DerivedIsList ==
  ASSUME Forms = {}, NEW r, NEW r2, List(r), Derives(r, r2)
  PROVE  List(r2)
<1>1. PICK n, k : r = Cons(n, k) /\ List(k) /\ n \in DOMAIN Rules
  BY ListCases DEF Derives
<1>2. CASE n = "Chunk"
  BY <1>1, <1>2, DeriveChunk, ConsIsList
<1>3. CASE n = "Stat"
  BY <1>1, <1>3, DeriveStat, ConsIsList
<1>4. CASE n \in {"Values", "Targets", "Var"}
  BY <1>1, <1>4, DeriveValues, DeriveTargets, DeriveVar, ConsIsList
<1>5. CASE n \in {"Exps", "Names", "Init"}
  BY <1>1, <1>5, DeriveExps, DeriveNames, DeriveInit, ConsIsList
<1>6. CASE n \in {"Do", "Clause", "Else"}
  BY <1>1, <1>6, DeriveDo, DeriveClause, DeriveElse, ConsIsList
<1>7. CASE n \in {"Range", "Path"}
  BY <1>1, <1>7, DeriveRange, DerivePath, ConsIsList
<1>8. CASE n \in {"Body", "Inner", "Params"}
  BY <1>1, <1>8, DeriveBody, DeriveInner, DeriveParams, ConsIsList
<1>9. CASE n \in {"More", "Exp", "Binop"}
  BY <1>1, <1>9, DeriveMore, DeriveExp, DeriveBinop, ConsIsList
<1>10. CASE n \in {"Opd", "Sfxs"}
  BY <1>1, <1>10, DeriveOpd, DeriveSfxs, ConsIsList
<1>11. CASE n = "Closed"
  BY <1>1, <1>11, DeriveClosed, ConsIsList
<1>12. CASE n \in {"Index", "Invoke"}
  BY <1>1, <1>12, DeriveIndex, DeriveInvoke, ConsIsList
<1>13. CASE n \in {"Arg", "Items"}
  BY <1>1, <1>13, DeriveArg, DeriveItems, ConsIsList
<1>14. CASE n = "Item"
  BY <1>1, <1>14, DeriveItem, ConsIsList
<1> QED  BY Zenon, <1>1, <1>2, <1>3, <1>4, <1>5, <1>6, <1>7, <1>8, <1>9, <1>10, <1>11, <1>12,
      <1>13, <1>14, NonterminalsAre

LEMMA ReadsBlockOn ==
  ASSUME Forms = {}, NEW a, NEW r, NEW F, NEW k, NEW G, NEW r2,
         ReadsBlock(a, r, F, k, G), List(k), Derives(r, r2)
  PROVE  ReadsBlock(a, r2, F, k, G) \/ (r = k /\ ReadsBlock(a, r2, F, r2, G))
<1>1. CASE a = "Block"
  BY <1>1, FormChunk DEF ReadsBlock
<1>2. CASE a = "Semicolon"
  BY <1>2, TokensStand, TokensAre DEF ReadsBlock
<1>3. CASE a = "Statement"
  BY <1>3, FormStat, TokensStand, TokensAre, ConsList DEF ReadsBlock
<1>4. CASE a = "AssignOrCall"
  BY <1>4, FormTargets, TokensStand, TokensAre, ConsList DEF ReadsBlock
<1>5. CASE a = "MoreTargets"
  <2>1. TargetsAt(r2, r2)
    BY DEF TargetsAt
  <2> QED  BY <1>5, <2>1, FormTargets DEF ReadsBlock
<1>6. CASE a = "LocalKind"
  BY <1>6, FormNames, TokensStand, TokensAre, ConsList DEF ReadsBlock
<1>7. CASE a = "LocalValues"
  <2>1. InitAt(r2, r2)
    BY DEF InitAt
  <2> QED  BY <1>7, <2>1, FormInit DEF ReadsBlock
<1>8. CASE a = "ElseIf"
  BY <1>8, FormElse, TokensStand, TokensAre, ConsList DEF ReadsBlock
<1>9. CASE a = "ForKind"
  BY <1>9, TokensStand, TokensAre, ConsList DEF ReadsBlock
<1>10. CASE a = "ForStep"
  BY <1>10, TokensStand, TokensAre, ConsList DEF ReadsBlock
<1>11. CASE a = "ReturnValues"
  <2>1. ValuesAt(r2, r2)
    BY DEF ValuesAt
  <2> QED  BY <1>11, <2>1, FormValues DEF ReadsBlock
<1> QED  BY <1>1, <1>2, <1>3, <1>4, <1>5, <1>6, <1>7, <1>8, <1>9, <1>10, <1>11 DEF ReadsBlock

LEMMA ReadsFunctionOn ==
  ASSUME NEW a, NEW r, NEW F, NEW k, NEW G, NEW r2,
         ReadsFunction(a, r, F, k, G), List(k), Derives(r, r2)
  PROVE  ReadsFunction(a, r2, F, k, G) \/ (r = k /\ ReadsFunction(a, r2, F, r2, G))
<1>1. CASE a = "FunctionStatement"
  BY <1>1, TokensStand, TokensAre, ConsList DEF ReadsFunction
<1>2. CASE a = "NameTail"
  <2>1. PathAt(r2, r2)
    BY DEF PathAt
  <2> QED  BY <1>2, <2>1, FormPath DEF ReadsFunction
<1>3. CASE a = "FunctionBody"
  BY <1>3, FormBody DEF ReadsFunction
<1>4. CASE a = "Parameters"
  <2>1. ParamsAt(r2, r2)
    BY DEF ParamsAt
  <2> QED  BY <1>4, <2>1, FormParams DEF ReadsFunction
<1>5. CASE a = "Parameter"
  BY <1>5, TokensStand, TokensAre, ConsList DEF ReadsFunction
<1>6. CASE a = "MoreParameters"
  <2>1. MoreAt(r2, r2)
    BY DEF MoreAt
  <2> QED  BY <1>6, <2>1, FormMore DEF ReadsFunction
<1>7. CASE a = "MoreNames" \/ a = "MoreExpressions"
  BY <1>7, TokensStand, TokensAre, ConsList DEF ReadsFunction
<1>8. CASE a = "ExpressionList"
  BY <1>8, FormExps DEF ReadsFunction
<1> QED  BY <1>1, <1>2, <1>3, <1>4, <1>5, <1>6, <1>7, <1>8 DEF ReadsFunction

LEMMA ReadsExpressionOn ==
  ASSUME NEW a, NEW r, NEW F, NEW k, NEW G, NEW r2,
         ReadsExpression(a, r, F, k, G), List(k), Derives(r, r2)
  PROVE  ReadsExpression(a, r2, F, k, G) \/ (r = k /\ ReadsExpression(a, r2, F, r2, G))
<1>1. CASE a = "Expression"
  BY <1>1, FormExp DEF ReadsExpression
<1>2. CASE a \in {"Operators", "FieldOperators"}
  BY <1>2, FormBinop, ConsList DEF ReadsExpression
<1>3. CASE a = "Operand"
  BY <1>3, FormOpd DEF ReadsExpression
<1>4. CASE a = "Power"
  BY <1>4, TokensStand, TokensAre, ConsList DEF ReadsExpression
<1>5. CASE a = "Primary"
  <2>1. CASE VarAt(r, k)
    BY <1>5, <2>1, FormVar DEF ReadsExpression
  <2>2. ASSUME NEW m \in Suffixed(k), r = Cons("name", m) PROVE FALSE
    <3>1. List(m)
      BY <2>2, ConsList DEF Suffixed
    <3> QED  BY <2>2, <3>1, TokensStand, TokensAre
  <2>3. ASSUME r \in {Cons("lit", k), Cons("string", k), Cons("...", k), P2("function", "Body",
                 k),
                      P3(LBrace, "Items", RBrace, k), P4("(", "Exp", ")", "Sfxs", k)}
        PROVE  FALSE
    BY <2>3, TokensStand, TokensAre, ConsList
  <2> QED  BY <1>5, <2>1, <2>2, <2>3 DEF ReadsExpression
<1>6. CASE a = "Suffixes"
  <2>1. SfxsAt(r2, r2)
    BY DEF SfxsAt, Suffixed
  <2> QED  BY <1>6, <2>1, FormSfxs DEF ReadsExpression
<1>7. CASE a = "Arguments"
  BY <1>7, FormExps DEF ReadsExpression
<1>8. CASE a = "MethodArguments"
  BY <1>8, FormArg DEF ReadsExpression
<1> QED  BY <1>1, <1>2, <1>3, <1>4, <1>5, <1>6, <1>7, <1>8 DEF ReadsExpression

LEMMA ReadsTableOn ==
  ASSUME Forms = {}, NEW a, NEW r, NEW F, NEW k, NEW G, NEW r2,
         ReadsTable(a, r, F, k, G), List(k), Derives(r, r2)
  PROVE  ReadsTable(a, r2, F, k, G) \/ (r = k /\ ReadsTable(a, r2, F, r2, G))
<1>1. CASE a = "Table"
  BY <1>1, TokensStand, TokensAre, ConsList DEF ReadsTable
<1>2. CASE a = "Fields"
  BY <1>2, FormItems, TokensStand, TokensAre, ConsList DEF ReadsTable
<1>3. CASE a = "FieldSeparator"
  BY <1>3, TokensStand, TokensAre, ConsList DEF ReadsTable
<1>4. CASE a = "Field"
  BY <1>4, FormItem DEF ReadsTable
<1>5. CASE a = "NamedField"
  <2>1. SfxsAt(r2, r2)
    BY DEF SfxsAt, Suffixed
  <2> QED  BY <1>5, <2>1, FormSfxs, FormBinop, TokensStand, TokensAre, ConsList DEF ReadsTable
<1> QED  BY <1>1, <1>2, <1>3, <1>4, <1>5 DEF ReadsTable

LEMMA JointOn ==
  ASSUME Forms = {}, NEW s, NEW r, NEW F, NEW s2, NEW k, NEW G, NEW r2,
         Joint(s, r, F, s2, k, G), List(k), Derives(r, r2)
  PROVE  Joint(s, r2, F, s2, k, G)
BY FormExp, FormDo, FormRange, FormClause, FormInner, FormNames, FormExps, ConsList DEF Joint

LEMMA LinkOn ==
  ASSUME Forms = {}, NEW s, NEW r, NEW F, NEW s2, NEW k, NEW G, NEW r2,
         Link(s, r, F, s2, k, G), List(k), Derives(r, r2)
  PROVE  Link(s, r2, F, s2, k, G) \/ (r = k /\ Link(s, r2, F, s2, r2, G))
<1>1. CASE Takes(s, r, F, s2, k)
  BY <1>1, TokensStand DEF Takes
<1>2. ASSUME NEW a, s = Cons(a, s2), Reads(a, r, F, k, G)
      PROVE  Link(s, r2, F, s2, k, G) \/ (r = k /\ Link(s, r2, F, s2, r2, G))
  <2>1. Reads(a, r2, F, k, G) \/ (r = k /\ Reads(a, r2, F, r2, G))
    BY <1>2, ReadsBlockOn, ReadsFunctionOn, ReadsExpressionOn, ReadsTableOn DEF Reads
  <2> QED  BY <1>2, <2>1 DEF Link
<1>3. CASE Joint(s, r, F, s2, k, G)
  BY <1>3, JointOn DEF Link
<1> QED  BY <1>1, <1>2, <1>3 DEF Link

LEMMA EofAlone == <<"eof">> = Cons("eof", <<>>)
BY DEF Cons

(***************************************************************************)
(* The calls pending read the program however it is derived further.       *)
(***************************************************************************)
LEMMA CoupleOn ==
  ASSUME Forms = {}, NEW s, NEW r, NEW F, NEW r2, Couple(s, r, F), Derives(r, r2)
  PROVE  Couple(s, r2, F)
<1>1. PICK C : <<s, r, F>> \in C /\ Linked(C)
  BY DEF Couple
<1>2. PICK D : \A t, u, E : <<t, u, E>> \in D <=> <<t, u, E>> \in C \/ (u = r2 /\ <<t, r,
        E>> \in C)
  <2> DEFINE D == C \cup {<<q[1], r2, q[3]>> : q \in {p \in C : \E t, E : p = <<t, r, E>>}}
  <2>1. ASSUME NEW t, NEW u, NEW E
        PROVE  <<t, u, E>> \in D <=> <<t, u, E>> \in C \/ (u = r2 /\ <<t, r, E>> \in C)
    OBVIOUS
  <2> QED  BY <2>1
<1>3. ASSUME NEW t, NEW u, NEW E, <<t, u, E>> \in D
      PROVE  /\ List(t) /\ List(u)
             /\ Base(t, u, E) \/ \E t2, l, H : <<t2, l, H>> \in D /\ Link(t, u, E, t2, l, H)
  <2>1. CASE <<t, u, E>> \in C
    <3>1. /\ List(t) /\ List(u)
          /\ Base(t, u, E) \/ \E t2, l, H : <<t2, l, H>> \in C /\ Link(t, u, E, t2, l, H)
      BY <1>1, <2>1 DEF Linked
    <3> QED  BY <1>2, <3>1
  <2>2. CASE u = r2 /\ <<t, r, E>> \in C
    <3>1. /\ List(t) /\ List(r)
          /\ Base(t, r, E) \/ \E t2, l, H : <<t2, l, H>> \in C /\ Link(t, r, E, t2, l, H)
      BY <1>1, <2>2 DEF Linked
    <3>2. List(r2)
      BY <3>1, DerivedIsList
    <3>3. ~ Base(t, r, E)
      BY TokensStand, TokensAre, ListEmpty, EofAlone DEF Base
    <3>4. PICK t2, l, H : <<t2, l, H>> \in C /\ Link(t, r, E, t2, l, H)
      BY <3>1, <3>3
    <3>5. List(l)
      BY <1>1, <3>4 DEF Linked
    <3>6. Link(t, r2, E, t2, l, H) \/ (r = l /\ Link(t, r2, E, t2, r2, H))
      BY <3>4, <3>5, LinkOn
    <3> QED  BY <1>2, <2>2, <3>1, <3>2, <3>4, <3>6
  <2> QED  BY <1>2, <1>3, <2>1, <2>2
<1>4. Linked(D)
  BY <1>3 DEF Linked
<1> QED  BY <1>1, <1>2, <1>4 DEF Couple

------------------------------------------------------------------------------
(***************************************************************************)
(* The token in front of a form is one its symbol can start with.          *)
(***************************************************************************)

LEMMA NonterminalsAreNoTokens ==
  /\ "Chunk" \notin Token /\ "Stat" \notin Token /\ "Values" \notin Token
       /\ "Targets" \notin Token
  /\ "Var" \notin Token /\ "Exps" \notin Token /\ "Names" \notin Token /\ "Init" \notin Token
  /\ "Do" \notin Token /\ "Clause" \notin Token /\ "Else" \notin Token /\ "Range" \notin Token
  /\ "Path" \notin Token /\ "Body" \notin Token /\ "Inner" \notin Token /\ "Params" \notin Token
  /\ "More" \notin Token /\ "Exp" \notin Token /\ "Binop" \notin Token /\ "Opd" \notin Token
  /\ "Closed" \notin Token /\ "Sfxs" \notin Token /\ "Index" \notin Token /\ "Invoke" \notin Token
  /\ "Arg" \notin Token /\ "Items" \notin Token /\ "Item" \notin Token
BY Zenon, NoTokenIsDerived, NonterminalsAre

\* The first element, by which the forms are told apart.
LEMMA SameFirst ==
  ASSUME NEW x, NEW t, List(t), NEW y, NEW u, List(u), Cons(x, t) = Cons(y, u)
  PROVE  x = y
BY Injective

LEMMA HeadBinop ==
  ASSUME NEW x \in Token, NEW t, List(t), NEW k, List(k), BinopAt(Cons(x, t), k)
  PROVE  x \in Binary
BY SameFirst, NonterminalsAreNoTokens DEF BinopAt

LEMMA HeadIndex ==
  ASSUME NEW x \in Token, NEW t, List(t), NEW k, List(k), IndexAt(Cons(x, t), k)
  PROVE  x \in {".", "["}
BY SameFirst, ConsIsList, NonterminalsAreNoTokens DEF IndexAt

LEMMA HeadArg ==
  ASSUME NEW x \in Token, NEW t, List(t), NEW k, List(k), ArgAt(Cons(x, t), k)
  PROVE  x \in {"(", "string", LBrace}
BY SameFirst, ConsIsList, NonterminalsAreNoTokens DEF ArgAt

LEMMA HeadInvoke ==
  ASSUME NEW x \in Token, NEW t, List(t), NEW k, List(k), InvokeAt(Cons(x, t), k)
  PROVE  x \in {":", "(", "string", LBrace}
BY SameFirst, ConsIsList, HeadArg, NonterminalsAreNoTokens DEF InvokeAt

LEMMA SfxIsList ==
  ASSUME NEW k, List(k), NEW m \in Suffixed(k)
  PROVE  List(m)
BY ConsIsList DEF Suffixed

LEMMA HeadSfxs ==
  ASSUME NEW x \in Token, NEW t, List(t), NEW k, List(k), SfxsAt(Cons(x, t), k)
  PROVE  x \in SufFirst \/ Cons(x, t) = k
<1>1. CASE Cons(x, t) \in Suffixed(k)
  BY <1>1, SameFirst, ConsIsList, NonterminalsAreNoTokens DEF Suffixed
<1>2. ASSUME NEW m \in Suffixed(k), IndexAt(Cons(x, t), m) \/ InvokeAt(Cons(x, t), m)
      PROVE  x \in SufFirst
  BY <1>2, SfxIsList, HeadIndex, HeadInvoke DEF SufFirst
<1> QED  BY <1>1, <1>2 DEF SfxsAt

LEMMA HeadClosed ==
  ASSUME NEW x \in Token, NEW t, List(t), NEW k, List(k), ClosedAt(Cons(x, t), k)
  PROVE  x \in ExpFirst \ {"name"}
BY SameFirst, ConsIsList, NonterminalsAreNoTokens, Distinct DEF ClosedAt, ExpFirst

LEMMA HeadOpd ==
  ASSUME NEW x \in Token, NEW t, List(t), NEW k, List(k), OpdAt(Cons(x, t), k)
  PROVE  x \in ExpFirst
BY SameFirst, ConsIsList, HeadClosed, NonterminalsAreNoTokens DEF OpdAt, ExpFirst

LEMMA HeadExp ==
  ASSUME NEW x \in Token, NEW t, List(t), NEW k, List(k), ExpAt(Cons(x, t), k)
  PROVE  x \in ExpFirst
BY SameFirst, ConsIsList, HeadOpd, NonterminalsAreNoTokens DEF ExpAt

LEMMA HeadExps ==
  ASSUME NEW x \in Token, NEW t, List(t), NEW k, List(k), ExpsAt(Cons(x, t), k)
  PROVE  x \in ExpFirst
BY SameFirst, ConsIsList, HeadExp, NonterminalsAreNoTokens DEF ExpsAt

LEMMA HeadVar ==
  ASSUME NEW x \in Token, NEW t, List(t), NEW k, List(k), VarAt(Cons(x, t), k)
  PROVE  x = "name"
BY SameFirst, ConsIsList, NonterminalsAreNoTokens DEF VarAt

LEMMA HeadNames ==
  ASSUME NEW x \in Token, NEW t, List(t), NEW k, List(k), NamesAt(Cons(x, t), k)
  PROVE  x = "name"
BY SameFirst, ConsIsList, NonterminalsAreNoTokens DEF NamesAt

LEMMA HeadTargets ==
  ASSUME NEW x \in Token, NEW t, List(t), NEW k, List(k), TargetsAt(Cons(x, t), k)
  PROVE  x = Comma \/ Cons(x, t) = k
BY SameFirst, ConsIsList, NonterminalsAreNoTokens DEF TargetsAt

LEMMA HeadInit ==
  ASSUME NEW x \in Token, NEW t, List(t), NEW k, List(k), InitAt(Cons(x, t), k)
  PROVE  x = "=" \/ Cons(x, t) = k
BY SameFirst, ConsIsList, NonterminalsAreNoTokens DEF InitAt

LEMMA HeadDo ==
  ASSUME NEW x \in Token, NEW t, List(t), NEW k, List(k), DoAt(Cons(x, t), k)
  PROVE  x = "do"
BY SameFirst, ConsIsList, NonterminalsAreNoTokens DEF DoAt

LEMMA HeadRange ==
  ASSUME NEW x \in Token, NEW t, List(t), NEW k, List(k), RangeAt(Cons(x, t), k)
  PROVE  x = "name"
BY SameFirst, ConsIsList, HeadNames, NonterminalsAreNoTokens DEF RangeAt

LEMMA HeadPath ==
  ASSUME NEW x \in Token, NEW t, List(t), NEW k, List(k), PathAt(Cons(x, t), k)
  PROVE  x \in {".", ":"} \/ Cons(x, t) = k
BY SameFirst, ConsIsList, NonterminalsAreNoTokens DEF PathAt

LEMMA HeadBody ==
  ASSUME NEW x \in Token, NEW t, List(t), NEW k, List(k), BodyAt(Cons(x, t), k)
  PROVE  x = "("
BY SameFirst, ConsIsList, NonterminalsAreNoTokens DEF BodyAt

LEMMA HeadParams ==
  ASSUME NEW x \in Token, NEW t, List(t), NEW k, List(k), ParamsAt(Cons(x, t), k)
  PROVE  x \in {"...", "name"} \/ Cons(x, t) = k
BY SameFirst, ConsIsList, NonterminalsAreNoTokens DEF ParamsAt

LEMMA HeadMore ==
  ASSUME NEW x \in Token, NEW t, List(t), NEW k, List(k), MoreAt(Cons(x, t), k)
  PROVE  x = Comma \/ Cons(x, t) = k
BY SameFirst, ConsIsList, NonterminalsAreNoTokens DEF MoreAt

LEMMA HeadValues ==
  ASSUME NEW x \in Token, NEW t, List(t), NEW k, List(k), ValuesAt(Cons(x, t), k)
  PROVE  x \in ExpFirst \/ Cons(x, t) = k
BY SameFirst, ConsIsList, HeadExps, NonterminalsAreNoTokens DEF ValuesAt

LEMMA HeadClause ==
  ASSUME NEW x \in Token, NEW t, List(t), NEW k, List(k), ClauseAt(Cons(x, t), k)
  PROVE  x \in ExpFirst
BY SameFirst, ConsIsList, HeadExp, NonterminalsAreNoTokens DEF ClauseAt

LEMMA HeadElse ==
  ASSUME NEW x \in Token, NEW t, List(t), NEW k, List(k), ElseAt(Cons(x, t), k)
  PROVE  x \in {"else", "elseif"} \/ Cons(x, t) = k
BY SameFirst, ConsIsList, NonterminalsAreNoTokens DEF ElseAt

LEMMA HeadItem ==
  ASSUME NEW x \in Token, NEW t, List(t), NEW k, List(k), ItemAt(Cons(x, t), k)
  PROVE  x \in ItemFirst
<1>1. CASE \E m \in {k, P2("Binop", "Exp", k)} : ClosedAt(Cons(x, t), m)
  BY <1>1, ConsIsList, HeadClosed DEF ItemFirst
<1>2. CASE ~ \E m \in {k, P2("Binop", "Exp", k)} : ClosedAt(Cons(x, t), m)
  <2>1. x \in {"[", "name"}
    BY <1>2, SameFirst, ConsIsList, NonterminalsAreNoTokens DEF ItemAt
  <2> QED  BY <2>1 DEF ItemFirst, ExpFirst
<1> QED  BY <1>1, <1>2

LEMMA HeadItems ==
  ASSUME NEW x \in Token, NEW t, List(t), NEW k, List(k), ItemsAt(Cons(x, t), k)
  PROVE  x \in ItemFirst \/ Cons(x, t) = k
BY SameFirst, ConsIsList, HeadItem, NonterminalsAreNoTokens DEF ItemsAt

LEMMA HeadStat ==
  ASSUME NEW x \in Token, NEW t, List(t), NEW k, List(k), StatAt(Cons(x, t), k)
  PROVE  x \in StatFirst
<1>1. CASE VarAt(Cons(x, t), P3("Targets", "=", "Exps", k))
  BY <1>1, ConsIsList, HeadVar DEF StatFirst
<1>2. CASE ~ VarAt(Cons(x, t), P3("Targets", "=", "Exps", k))
  BY <1>2, SameFirst, ConsIsList, NonterminalsAreNoTokens DEF StatAt, StatFirst
<1> QED  BY <1>1, <1>2

LEMMA HeadChunk ==
  ASSUME NEW x \in Token, NEW t, List(t), NEW k, List(k), ChunkAt(Cons(x, t), k)
  PROVE  x \in ChunkFirst \/ Cons(x, t) = k
<1>1. CASE \E m \in {Cons("Chunk", k), P2(Semi, "Chunk", k)} : StatAt(Cons(x, t), m)
  BY <1>1, ConsIsList, HeadStat DEF ChunkFirst
<1>2. CASE ~ \E m \in {Cons("Chunk", k), P2(Semi, "Chunk", k)} : StatAt(Cons(x, t), m)
  BY <1>2, SameFirst, ConsIsList, NonterminalsAreNoTokens DEF ChunkAt, ChunkFirst
<1> QED  BY <1>1, <1>2

LEMMA HeadInner ==
  ASSUME NEW x \in Token, NEW t, List(t), NEW k, List(k), InnerAt(Cons(x, t), k)
  PROVE  x \in ChunkFirst \cup {"end"}
BY SameFirst, ConsIsList, HeadChunk, NonterminalsAreNoTokens DEF InnerAt

LEMMA MinimumExists ==
  ASSUME NEW T, T \subseteq Nat, T # {}
  PROVE  \E x \in T : \A y \in T : x <= y
<1> DEFINE R == {ss \in Nat \X Nat : ss[1] < ss[2]}
<1>1. IsWellFoundedOn(R, Nat)
  <2>1. OpToRel(<, Nat) = R
    BY DEF OpToRel
  <2> QED  BY <2>1, NatLessThanWellFounded
<1>2. PICK x \in T : \A y \in T : ~ (<<y, x>> \in R)
  <2> HIDE DEF R
  <2> QED  BY <1>1, WFMin
<1>3. ASSUME NEW y \in T  PROVE x <= y
  <2>1. <<y, x>> \in Nat \X Nat /\ ~ (<<y, x>> \in R)
    BY <1>2
  <2>2. ~ (y < x)
    <3>1. <<y, x>>[1] = y /\ <<y, x>>[2] = x
      OBVIOUS
    <3> HIDE <1>2
    <3> QED  BY <2>1, <3>1
  <2> QED  BY <2>2
<1> QED  BY <1>3

LEMMA NotTheEnd ==
  /\ "eof" \notin ChunkFirst /\ "eof" \notin StatFirst /\ "eof" \notin ExpFirst
       /\ "eof" \notin ItemFirst
  /\ "eof" \notin SufFirst /\ "eof" \notin Binary /\ "end" \notin Binary /\ "until" \notin Binary
  /\ "eof" # Comma /\ "eof" # Semi /\ "eof" # LBrace /\ "eof" # RBrace
BY Distinct DEF ChunkFirst, StatFirst, ExpFirst, ItemFirst, SufFirst, Binary

LEMMA HeadBlock ==
  ASSUME NEW a, NEW x \in Token, NEW t, List(t), NEW F, NEW k, List(k), NEW G,
         ReadsBlock(a, Cons(x, t), F, k, G)
  PROVE  (x \in F /\ x # "eof") \/ (Cons(x, t) = k /\ G \subseteq F)
<1>1. CASE a = "Block"
  BY <1>1, NotTheEnd, HeadChunk DEF ReadsBlock
<1>2. CASE a = "Semicolon"
  BY <1>2, NotTheEnd, SameFirst DEF ReadsBlock
<1>3. CASE a = "Statement"
  BY <1>3, NotTheEnd, HeadStat, SameFirst, ConsIsList DEF ReadsBlock
<1>4. CASE a = "AssignOrCall"
  BY <1>4, NotTheEnd, HeadTargets, SameFirst, ConsIsList DEF ReadsBlock
<1>5. CASE a = "MoreTargets"
  BY <1>5, NotTheEnd, HeadTargets DEF ReadsBlock
<1>6. CASE a = "LocalKind"
  BY <1>6, NotTheEnd, HeadNames, SameFirst, ConsIsList DEF ReadsBlock
<1>7. CASE a = "LocalValues"
  BY <1>7, NotTheEnd, HeadInit DEF ReadsBlock
<1>8. CASE a = "ElseIf"
  BY <1>8, NotTheEnd, HeadElse, SameFirst, ConsIsList DEF ReadsBlock
<1>9. CASE a = "ForKind"
  BY <1>9, NotTheEnd, SameFirst, ConsIsList DEF ReadsBlock
<1>10. CASE a = "ForStep"
  BY <1>10, NotTheEnd, SameFirst, ConsIsList DEF ReadsBlock
<1>11. CASE a = "ReturnValues"
  BY <1>11, NotTheEnd, HeadValues DEF ReadsBlock
<1> QED  BY <1>1, <1>2, <1>3, <1>4, <1>5, <1>6, <1>7, <1>8, <1>9, <1>10, <1>11 DEF ReadsBlock

LEMMA HeadFunction ==
  ASSUME NEW a, NEW x \in Token, NEW t, List(t), NEW F, NEW k, List(k), NEW G,
         ReadsFunction(a, Cons(x, t), F, k, G)
  PROVE  (x \in F /\ x # "eof") \/ (Cons(x, t) = k /\ G \subseteq F)
<1>1. CASE a \in {"FunctionStatement", "Parameter", "MoreNames", "MoreExpressions"}
  BY <1>1, NotTheEnd, SameFirst, ConsIsList DEF ReadsFunction
<1>2. CASE a = "NameTail"
  BY <1>2, NotTheEnd, HeadPath DEF ReadsFunction
<1>3. CASE a = "FunctionBody"
  BY <1>3, NotTheEnd, HeadBody DEF ReadsFunction
<1>4. CASE a = "Parameters"
  BY <1>4, NotTheEnd, HeadParams DEF ReadsFunction
<1>5. CASE a = "MoreParameters"
  BY <1>5, NotTheEnd, HeadMore DEF ReadsFunction
<1>6. CASE a = "ExpressionList"
  BY <1>6, NotTheEnd, HeadExps DEF ReadsFunction
<1> QED  BY <1>1, <1>2, <1>3, <1>4, <1>5, <1>6 DEF ReadsFunction

LEMMA HeadExpression ==
  ASSUME NEW a, NEW x \in Token, NEW t, List(t), NEW F, NEW k, List(k), NEW G,
         ReadsExpression(a, Cons(x, t), F, k, G)
  PROVE  (x \in F /\ x # "eof") \/ (Cons(x, t) = k /\ G \subseteq F)
<1>1. CASE a = "Expression"
  BY <1>1, NotTheEnd, HeadExp DEF ReadsExpression
<1>2. CASE a \in {"Operators", "FieldOperators"}
  BY <1>2, NotTheEnd, HeadBinop, ConsIsList DEF ReadsExpression
<1>3. CASE a = "Operand"
  BY <1>3, NotTheEnd, HeadOpd DEF ReadsExpression
<1>4. CASE a = "Power"
  BY <1>4, NotTheEnd, SameFirst, ConsIsList DEF ReadsExpression
<1>5. CASE a = "Primary"
  <2>1. x \in {"name", "lit", "string", "...", "function", LBrace, "("}
    BY <1>5, HeadVar, SfxIsList, SameFirst, ConsIsList DEF ReadsExpression
  <2>2. ExpFirst \subseteq F
    BY <1>5 DEF ReadsExpression
  <2> QED  BY <2>1, <2>2, NotTheEnd DEF ExpFirst
<1>6. CASE a = "Suffixes"
  BY <1>6, NotTheEnd, HeadSfxs DEF ReadsExpression
<1>7. CASE a = "Arguments"
  BY <1>7, NotTheEnd, HeadExps DEF ReadsExpression
<1>8. CASE a = "MethodArguments"
  BY <1>8, NotTheEnd, HeadArg DEF ReadsExpression
<1> QED  BY <1>1, <1>2, <1>3, <1>4, <1>5, <1>6, <1>7, <1>8 DEF ReadsExpression

LEMMA HeadTable ==
  ASSUME NEW a, NEW x \in Token, NEW t, List(t), NEW F, NEW k, List(k), NEW G,
         ReadsTable(a, Cons(x, t), F, k, G)
  PROVE  (x \in F /\ x # "eof") \/ (Cons(x, t) = k /\ G \subseteq F)
<1>1. CASE a \in {"Table", "FieldSeparator"}
  BY <1>1, NotTheEnd, SameFirst, ConsIsList DEF ReadsTable
<1>2. CASE a = "Fields"
  BY <1>2, NotTheEnd, HeadItems, SameFirst, ConsIsList DEF ReadsTable
<1>3. CASE a = "Field"
  BY <1>3, NotTheEnd, HeadItem DEF ReadsTable
<1>4. CASE a = "NamedField"
  BY <1>4, NotTheEnd, HeadSfxs, HeadBinop, SameFirst, ConsIsList DEF ReadsTable
<1> QED  BY <1>1, <1>2, <1>3, <1>4 DEF ReadsTable

LEMMA HeadJoint ==
  ASSUME NEW s, NEW x \in Token, NEW t, List(t), NEW F, NEW s2, NEW k, List(k), NEW G,
         Joint(s, Cons(x, t), F, s2, k, G)
  PROVE  x \in F /\ x # "eof"
BY NotTheEnd, HeadExp, HeadDo, HeadRange, HeadClause, HeadInner, HeadNames, HeadExps, ConsIsList
     DEF Joint
LEMMA ConsLength ==
  ASSUME NEW x, NEW s, List(s)
  PROVE  Len(s) \in Nat /\ Len(Cons(x, s)) = Len(s) + 1
<1>1. PICK S : s \in Seq(S)
  BY DEF List
<1>2. PICK T : T = S \cup {x}
  OBVIOUS
<1>3. s \in Seq(T) /\ <<x>> \in Seq(T)
  BY <1>1, <1>2
<1> QED  BY <1>3, ConcatProperties, LenProperties DEF Cons

(***************************************************************************)
(* The token in front is one of those the calls can start with, and behind *)
(* the end of the text is nothing.                                         *)
(***************************************************************************)
LEMMA HeadLink ==
  ASSUME NEW s, NEW x \in Token, NEW t, List(t), NEW F, NEW s2, NEW k, List(k), NEW G,
         Link(s, Cons(x, t), F, s2, k, G)
  PROVE  \/ x \in F /\ x # "eof"
         \/ Cons(x, t) = k /\ G \subseteq F /\ \E a : s = Cons(a, s2)
<1>1. CASE Takes(s, Cons(x, t), F, s2, k)
  BY <1>1, SameFirst DEF Takes
<1>2. ASSUME NEW a, s = Cons(a, s2), Reads(a, Cons(x, t), F, k, G)
      PROVE  (x \in F /\ x # "eof") \/ (Cons(x, t) = k /\ G \subseteq F)
  BY <1>2, HeadBlock, HeadFunction, HeadExpression, HeadTable DEF Reads
<1>3. CASE Joint(s, Cons(x, t), F, s2, k, G)
  BY <1>3, HeadJoint
<1> QED  BY <1>1, <1>2, <1>3 DEF Link

LEMMA HeadInF ==
  ASSUME NEW s, NEW x \in Token, NEW t, List(t), NEW F, Couple(s, Cons(x, t), F)
  PROVE  x \in F /\ (x = "eof" => t = <<>>)
<1> DEFINE Bad(u, E) == Couple(u, Cons(x, t), E) /\ ~ (x \in E /\ (x = "eof" => t = <<>>))
           Lengths   == {n \in Nat : \E u, E : Bad(u, E) /\ Len(u) = n}
<1>1. ASSUME NEW u, NEW E, Bad(u, E)
      PROVE  \E u2, G, a : Bad(u2, G) /\ u = Cons(a, u2) /\ List(u2)
  <2>1. ~ Base(u, Cons(x, t), E)
    <3>1. Cons(x, t) = <<"eof">> => x = "eof" /\ t = <<>>
      BY EofAlone, ListEmpty, Injective
    <3> QED  BY <1>1, <3>1 DEF Base
  <2>2. PICK u2, k, G : Couple(u2, k, G) /\ Link(u, Cons(x, t), E, u2, k, G)
    BY <1>1, <2>1, Unfold
  <2>3. List(k) /\ List(u2)
    BY <2>2, Unfold
  <2>4. /\ Cons(x, t) = k /\ G \subseteq E /\ \E a : u = Cons(a, u2)
    BY <1>1, <2>2, <2>3, HeadLink
  <2> QED  BY <1>1, <2>2, <2>3, <2>4
<1>2. SUFFICES ASSUME Bad(s, F) PROVE FALSE
  OBVIOUS
<1>3. \A u, E : Bad(u, E) => Len(u) \in Lengths
  <2> SUFFICES ASSUME NEW u, NEW E, Bad(u, E) PROVE Len(u) \in Nat
    OBVIOUS
  <2>1. List(u)
    BY Unfold
  <2> QED  BY <2>1, LenProperties DEF List
<1>4. PICK n \in Lengths : \A m \in Lengths : n <= m
  <2>1. Lengths \subseteq Nat /\ Lengths # {}
    BY <1>2, <1>3
  <2> HIDE DEF Lengths
  <2> QED  BY <2>1, MinimumExists
<1>5. PICK u, E : Bad(u, E) /\ Len(u) = n
  BY <1>4
<1>6. PICK u2, G, a : Bad(u2, G) /\ u = Cons(a, u2) /\ List(u2)
  BY <1>1, <1>5
<1>7. Len(u) = Len(u2) + 1 /\ Len(u2) \in Nat
  BY <1>6, ConsLength
<1>8. Len(u2) \in Lengths
  BY <1>3, <1>6
<1>9. n <= Len(u2)
  BY <1>4, <1>8
<1> QED
  <2> HIDE DEF Bad, Lengths
  <2> QED  BY <1>5, <1>7, <1>9

------------------------------------------------------------------------------
(***************************************************************************)
(* A call is put in front of those pending and what it reads in front of   *)
(* what they read.                                                         *)
(***************************************************************************)

LEMMA PushSemicolon ==
  ASSUME NEW s, NEW k, NEW G, Couple(s, k, G), NEW r, List(r),
         Semi \notin G, r = k \/ r = Cons(Semi, k)
  PROVE  Couple(Cons("Semicolon", s), r, {Semi} \cup G)
<1>1. Reads("Semicolon", r, {Semi} \cup G, k, G)
  BY DEF Reads, ReadsBlock
<1> QED  BY <1>1, FoldReads

LEMMA PushAssignOrCall ==
  ASSUME NEW s, NEW k, NEW G, Couple(s, k, G), NEW r, List(r),
         G \subseteq AfterStat, r = k \/ TargetsAt(r, P2("=", "Exps", k))
  PROVE  Couple(Cons("AssignOrCall", s), r, {Comma, "="} \cup G)
<1>1. Reads("AssignOrCall", r, {Comma, "="} \cup G, k, G)
  BY DEF Reads, ReadsBlock
<1> QED  BY <1>1, FoldReads

LEMMA PushMoreTargets ==
  ASSUME NEW s, NEW k, NEW G, Couple(s, k, G), NEW r, List(r),
         G \subseteq {"="}, TargetsAt(r, k)
  PROVE  Couple(Cons("MoreTargets", s), r, {Comma} \cup G)
<1>1. Reads("MoreTargets", r, {Comma} \cup G, k, G)
  BY DEF Reads, ReadsBlock
<1> QED  BY <1>1, FoldReads

LEMMA PushLocalKind ==
  ASSUME NEW s, NEW k, NEW G, Couple(s, k, G), NEW r, List(r),
         G \subseteq AfterStat, r = P3("function", "name", "Body", k) \/ NamesAt(r, Cons("Init",
             k))
  PROVE  Couple(Cons("LocalKind", s), r, {"function", "name"})
<1>1. Reads("LocalKind", r, {"function", "name"}, k, G)
  BY DEF Reads, ReadsBlock
<1> QED  BY <1>1, FoldReads

LEMMA PushLocalValues ==
  ASSUME NEW s, NEW k, NEW G, Couple(s, k, G), NEW r, List(r),
         G \subseteq AfterStat, InitAt(r, k)
  PROVE  Couple(Cons("LocalValues", s), r, {"="} \cup G)
<1>1. Reads("LocalValues", r, {"="} \cup G, k, G)
  BY DEF Reads, ReadsBlock
<1> QED  BY <1>1, FoldReads

LEMMA PushElseIf ==
  ASSUME NEW s, NEW k, NEW G, Couple(s, k, G), NEW r, List(r),
         ElseAt(r, Cons("end", k))
  PROVE  Couple(Cons("ElseIf", s), r, {"else", "elseif", "end"})
<1>1. Reads("ElseIf", r, {"else", "elseif", "end"}, k, G)
  BY DEF Reads, ReadsBlock
<1> QED  BY <1>1, FoldReads

LEMMA PushForStep ==
  ASSUME NEW s, NEW k, NEW G, Couple(s, k, G), NEW r, List(r),
         Clear(G, ListNext), r = k \/ r = P2(Comma, "Exp", k)
  PROVE  Couple(Cons("ForStep", s), r, {Comma} \cup G)
<1>1. Reads("ForStep", r, {Comma} \cup G, k, G)
  BY DEF Reads, ReadsBlock
<1> QED  BY <1>1, FoldReads

LEMMA PushReturnValues ==
  ASSUME NEW s, NEW k, NEW G, Couple(s, k, G), NEW r, List(r),
         G \subseteq AfterReturn, ValuesAt(r, k)
  PROVE  Couple(Cons("ReturnValues", s), r, ExpFirst \cup G)
<1>1. Reads("ReturnValues", r, ExpFirst \cup G, k, G)
  BY DEF Reads, ReadsBlock
<1> QED  BY <1>1, FoldReads

LEMMA PushFunctionStatement ==
  ASSUME NEW s, NEW k, NEW G, Couple(s, k, G), NEW r, List(r),
         r \in {P4("function", "name", "Path", "Body", k), P3("function", "name", "Body", k)}
  PROVE  Couple(Cons("FunctionStatement", s), r, {"function"})
<1>1. Reads("FunctionStatement", r, {"function"}, k, G)
  BY DEF Reads, ReadsFunction
<1> QED  BY <1>1, FoldReads

LEMMA PushNameTail ==
  ASSUME NEW s, NEW k, NEW G, Couple(s, k, G), NEW r, List(r),
         Clear(G, {".", ":"}), PathAt(r, k)
  PROVE  Couple(Cons("NameTail", s), r, {".", ":"} \cup G)
<1>1. Reads("NameTail", r, {".", ":"} \cup G, k, G)
  BY DEF Reads, ReadsFunction
<1> QED  BY <1>1, FoldReads

LEMMA PushFunctionBody ==
  ASSUME NEW s, NEW k, NEW G, Couple(s, k, G), NEW r, List(r),
         BodyAt(r, k)
  PROVE  Couple(Cons("FunctionBody", s), r, {"("})
<1>1. Reads("FunctionBody", r, {"("}, k, G)
  BY DEF Reads, ReadsFunction
<1> QED  BY <1>1, FoldReads

LEMMA PushParameters ==
  ASSUME NEW s, NEW k, NEW G, Couple(s, k, G), NEW r, List(r),
         G \subseteq {")"}, ParamsAt(r, k)
  PROVE  Couple(Cons("Parameters", s), r, {"...", "name"} \cup G)
<1>1. Reads("Parameters", r, {"...", "name"} \cup G, k, G)
  BY DEF Reads, ReadsFunction
<1> QED  BY <1>1, FoldReads

LEMMA PushParameter ==
  ASSUME NEW s, NEW k, NEW G, Couple(s, k, G), NEW r, List(r),
         Comma \notin G, r \in {Cons("...", k), P2("name", "More", k)}
  PROVE  Couple(Cons("Parameter", s), r, {"...", "name"})
<1>1. Reads("Parameter", r, {"...", "name"}, k, G)
  BY DEF Reads, ReadsFunction
<1> QED  BY <1>1, FoldReads

LEMMA PushMoreParameters ==
  ASSUME NEW s, NEW k, NEW G, Couple(s, k, G), NEW r, List(r),
         Comma \notin G, MoreAt(r, k)
  PROVE  Couple(Cons("MoreParameters", s), r, {Comma} \cup G)
<1>1. Reads("MoreParameters", r, {Comma} \cup G, k, G)
  BY DEF Reads, ReadsFunction
<1> QED  BY <1>1, FoldReads

LEMMA PushMoreNames ==
  ASSUME NEW s, NEW k, NEW G, Couple(s, k, G), NEW r, List(r),
         Comma \notin G, r \in {k, P2(Comma, "Names", k)}
  PROVE  Couple(Cons("MoreNames", s), r, {Comma} \cup G)
<1>1. Reads("MoreNames", r, {Comma} \cup G, k, G)
  BY DEF Reads, ReadsFunction
<1> QED  BY <1>1, FoldReads

LEMMA PushExpressionList ==
  ASSUME NEW s, NEW k, NEW G, Couple(s, k, G), NEW r, List(r),
         Clear(G, ListNext), ExpsAt(r, k)
  PROVE  Couple(Cons("ExpressionList", s), r, ExpFirst)
<1>1. Reads("ExpressionList", r, ExpFirst, k, G)
  BY DEF Reads, ReadsFunction
<1> QED  BY <1>1, FoldReads

LEMMA PushMoreExpressions ==
  ASSUME NEW s, NEW k, NEW G, Couple(s, k, G), NEW r, List(r),
         Clear(G, ListNext), r \in {k, P2(Comma, "Exps", k)}
  PROVE  Couple(Cons("MoreExpressions", s), r, {Comma} \cup G)
<1>1. Reads("MoreExpressions", r, {Comma} \cup G, k, G)
  BY DEF Reads, ReadsFunction
<1> QED  BY <1>1, FoldReads

LEMMA PushExpression ==
  ASSUME NEW s, NEW k, NEW G, Couple(s, k, G), NEW r, List(r),
         Clear(G, ExpNext), ExpAt(r, k)
  PROVE  Couple(Cons("Expression", s), r, ExpFirst)
<1>1. Reads("Expression", r, ExpFirst, k, G)
  BY DEF Reads, ReadsExpression
<1> QED  BY <1>1, FoldReads

LEMMA PushOperators ==
  ASSUME NEW s, NEW k, NEW G, Couple(s, k, G), NEW r, List(r), Clear(G, ExpNext),
         r = k \/ BinopAt(r, Cons("Exp", k)), NEW a \in {"Operators", "FieldOperators"}
  PROVE  Couple(Cons(a, s), r, Binary \cup G)
<1>1. Reads(a, r, Binary \cup G, k, G)
  BY DEF Reads, ReadsExpression
<1> QED  BY <1>1, FoldReads

LEMMA PushOperand ==
  ASSUME NEW s, NEW k, NEW G, Couple(s, k, G), NEW r, List(r),
         Clear(G, PowNext), OpdAt(r, k)
  PROVE  Couple(Cons("Operand", s), r, ExpFirst)
<1>1. Reads("Operand", r, ExpFirst, k, G)
  BY DEF Reads, ReadsExpression
<1> QED  BY <1>1, FoldReads

LEMMA PushPower ==
  ASSUME NEW s, NEW k, NEW G, Couple(s, k, G), NEW r, List(r),
         Clear(G, PowNext), r \in {k, P2("^", "Opd", k)}
  PROVE  Couple(Cons("Power", s), r, {"^"} \cup G)
<1>1. Reads("Power", r, {"^"} \cup G, k, G)
  BY DEF Reads, ReadsExpression
<1> QED  BY <1>1, FoldReads

LEMMA PushPrimary ==
  ASSUME NEW s, NEW k, NEW G, Couple(s, k, G), NEW r, List(r),
         Clear(G, SufFirst), VarAt(r, k) \/ (\E m \in Suffixed(k) : r = Cons("name", m)) \/
           r \in {Cons("lit", k), Cons("string", k), Cons("...", k), P2("function", "Body", k),
                  P3(LBrace, "Items", RBrace, k), P4("(", "Exp", ")", "Sfxs", k)}
  PROVE  Couple(Cons("Primary", s), r, ExpFirst)
<1>1. Reads("Primary", r, ExpFirst, k, G)
  BY DEF Reads, ReadsExpression
<1> QED  BY <1>1, FoldReads

LEMMA PushSuffixes ==
  ASSUME NEW s, NEW k, NEW G, Couple(s, k, G), NEW r, List(r),
         Clear(G, SufFirst), SfxsAt(r, k)
  PROVE  Couple(Cons("Suffixes", s), r, SufFirst \cup G)
<1>1. Reads("Suffixes", r, SufFirst \cup G, k, G)
  BY DEF Reads, ReadsExpression
<1> QED  BY <1>1, FoldReads

LEMMA PushArguments ==
  ASSUME NEW s, NEW k, NEW G, Couple(s, k, G), NEW r, List(r),
         G \subseteq {")"}, r = k \/ ExpsAt(r, k)
  PROVE  Couple(Cons("Arguments", s), r, ExpFirst \cup G)
<1>1. Reads("Arguments", r, ExpFirst \cup G, k, G)
  BY DEF Reads, ReadsExpression
<1> QED  BY <1>1, FoldReads

LEMMA PushMethodArguments ==
  ASSUME NEW s, NEW k, NEW G, Couple(s, k, G), NEW r, List(r),
         ArgAt(r, k)
  PROVE  Couple(Cons("MethodArguments", s), r, {"(", "string", LBrace})
<1>1. Reads("MethodArguments", r, {"(", "string", LBrace}, k, G)
  BY DEF Reads, ReadsExpression
<1> QED  BY <1>1, FoldReads

LEMMA PushTable ==
  ASSUME NEW s, NEW k, NEW G, Couple(s, k, G), NEW r, List(r),
         r = P3(LBrace, "Items", RBrace, k)
  PROVE  Couple(Cons("Table", s), r, {LBrace})
<1>1. Reads("Table", r, {LBrace}, k, G)
  BY DEF Reads, ReadsTable
<1> QED  BY <1>1, FoldReads

LEMMA PushFields ==
  ASSUME NEW s, NEW k, NEW G, Couple(s, k, G)
  PROVE  /\ Couple(Cons("Fields", s), Cons(RBrace, k), {RBrace})
         /\ \A r : List(r) /\ ItemsAt(r, Cons(RBrace, k)) =>
              Couple(Cons("Fields", s), r, ItemFirst \cup {RBrace})
<1>1. /\ Reads("Fields", Cons(RBrace, k), {RBrace}, k, G)
      /\ \A r : ItemsAt(r, Cons(RBrace, k)) => Reads("Fields", r, ItemFirst \cup {RBrace}, k, G)
  BY DEF Reads, ReadsTable
<1>2. List(Cons(RBrace, k))
  BY Unfold, ConsIsList
<1> QED  BY <1>1, <1>2, FoldReads

LEMMA PushFieldSeparator ==
  ASSUME NEW s, NEW k, NEW G, Couple(s, k, G)
  PROVE  /\ Clear(G, {Comma, Semi}) => Couple(Cons("FieldSeparator", s), k, G)
         /\ Couple(Cons("FieldSeparator", s), Cons(Comma, k), {Comma, Semi})
         /\ Couple(Cons("FieldSeparator", s), Cons(Semi, k), {Comma, Semi})
<1>1. /\ Clear(G, {Comma, Semi}) => Reads("FieldSeparator", k, G, k, G)
      /\ Reads("FieldSeparator", Cons(Comma, k), {Comma, Semi}, k, G)
      /\ Reads("FieldSeparator", Cons(Semi, k), {Comma, Semi}, k, G)
  BY DEF Reads, ReadsTable
<1>2. List(k) /\ List(Cons(Comma, k)) /\ List(Cons(Semi, k))
  BY Unfold, ConsIsList
<1> QED  BY <1>1, <1>2, FoldReads

LEMMA PushField ==
  ASSUME NEW s, NEW k, NEW G, Couple(s, k, G), NEW r, List(r),
         G \subseteq AfterField, ItemAt(r, k)
  PROVE  Couple(Cons("Field", s), r, ItemFirst)
<1>1. Reads("Field", r, ItemFirst, k, G)
  BY DEF Reads, ReadsTable
<1> QED  BY <1>1, FoldReads

LEMMA PushNamedField ==
  ASSUME NEW s, NEW k, NEW G, Couple(s, k, G), NEW r, List(r),
         G \subseteq AfterField, r = P2("=", "Exp", k) \/ SfxsAt(r, k) \/ BinopAt(r, Cons("Exp",
             k))
  PROVE  Couple(Cons("NamedField", s), r, {"="} \cup SufFirst \cup Binary \cup G)
<1>1. Reads("NamedField", r, {"="} \cup SufFirst \cup Binary \cup G, k, G)
  BY DEF Reads, ReadsTable
<1> QED  BY <1>1, FoldReads

LEMMA PushBlock ==
  ASSUME NEW s, NEW k, NEW G, Couple(s, k, G), G \subseteq BlockEnd
  PROVE  /\ Couple(Cons("Block", s), k, G)
         /\ \A r : List(r) /\ ChunkAt(r, k) => Couple(Cons("Block", s), r, ChunkFirst \cup G)
<1>1. Reads("Block", k, G, k, G) /\ \A r : ChunkAt(r, k) =>
        Reads("Block", r, ChunkFirst \cup G, k, G)
  BY DEF Reads, ReadsBlock
<1>2. List(k)
  BY Unfold
<1> QED  BY <1>1, <1>2, FoldReads

LEMMA PushSemicolonNone ==
  ASSUME NEW s, NEW k, NEW G, Couple(s, k, G), Semi \notin G
  PROVE  Couple(Cons("Semicolon", s), k, G)
<1>1. Reads("Semicolon", k, G, k, G)
  BY DEF Reads, ReadsBlock
<1>2. List(k)
  BY Unfold
<1> QED  BY <1>1, <1>2, FoldReads

LEMMA PushStatement ==
  ASSUME NEW s, NEW k, NEW G, Couple(s, k, G), NEW r, List(r)
  PROVE  /\ StatAt(r, k) /\ G \subseteq AfterStat => Couple(Cons("Statement", s), r, StatFirst)
         /\ r = P2("return", "Values", k) /\ G \subseteq AfterReturn =>
              Couple(Cons("Statement", s), r, {"return"})
<1>1. StatAt(r, k) /\ G \subseteq AfterStat => Reads("Statement", r, StatFirst, k, G)
  BY DEF Reads, ReadsBlock
<1>2. r = P2("return", "Values", k) /\ G \subseteq AfterReturn =>
        Reads("Statement", r, {"return"}, k, G)
  BY DEF Reads, ReadsBlock
<1> QED  BY <1>1, <1>2, FoldReads

LEMMA PushForKind ==
  ASSUME NEW s, NEW k, NEW G, Couple(s, k, G), NEW r, List(r),
         r \in {P5("=", "Exp", Comma, "Exp", "Do", k), P7("=", "Exp", Comma, "Exp", Comma,
             "Exp", "Do", k),
                P5(Comma, "Names", "in", "Exps", "Do", k), P3("in", "Exps", "Do", k)}
  PROVE  Couple(Cons("ForKind", s), r, {"=", Comma, "in"})
<1>1. Reads("ForKind", r, {"=", Comma, "in"}, k, G)
  BY DEF Reads, ReadsBlock
<1> QED  BY <1>1, FoldReads

LEMMA PushJoint ==
  ASSUME NEW s, NEW k, NEW G, Couple(s, k, G)
  PROVE  /\ \A r, a : List(r) /\ ExpAt(r, k) /\ Clear(G, ExpNext)
              /\ a \in {"Operators", "FieldOperators"}
                     => Couple(P2("Operand", a, s), r, ExpFirst)
         /\ \A r : List(r) /\ DoAt(r, k) => Couple(P3("do", "Block", "end", s), r, {"do"})
         /\ \A r : List(r) /\ RangeAt(r, Cons("Do", k)) =>
              Couple(P2("name", "ForKind", s), r, {"name"})
         /\ \A r : List(r) /\ ClauseAt(r, Cons("end", k))
                  => Couple(P4("Expression", "then", "Block", "ElseIf", s), r, ExpFirst)
         /\ \A r : List(r) /\ InnerAt(r, k) =>
              Couple(P2("Block", "end", s), r, ChunkFirst \cup {"end"})
         /\ \A r : List(r) /\ NamesAt(r, k) /\ Comma \notin G =>
              Couple(P2("name", "MoreNames", s), r, {"name"})
         /\ \A r : List(r) /\ ExpsAt(r, k) /\ Clear(G, ListNext)
                  => Couple(P2("Expression", "MoreExpressions", s), r, ExpFirst)
<1>1. \A r, a : ExpAt(r, k) /\ Clear(G, ExpNext) /\ a \in {"Operators", "FieldOperators"}
               => Joint(P2("Operand", a, s), r, ExpFirst, s, k, G)
  BY DEF Joint
<1>2. \A r : DoAt(r, k) => Joint(P3("do", "Block", "end", s), r, {"do"}, s, k, G)
  BY DEF Joint
<1>3. \A r : RangeAt(r, Cons("Do", k)) => Joint(P2("name", "ForKind", s), r, {"name"}, s, k, G)
  BY DEF Joint
<1>4. \A r : ClauseAt(r, Cons("end", k))
            => Joint(P4("Expression", "then", "Block", "ElseIf", s), r, ExpFirst, s, k, G)
  BY DEF Joint
<1>5. \A r : InnerAt(r, k) => Joint(P2("Block", "end", s), r, ChunkFirst \cup {"end"}, s, k, G)
  BY DEF Joint
<1>6. \A r : NamesAt(r, k) /\ Comma \notin G =>
        Joint(P2("name", "MoreNames", s), r, {"name"}, s, k, G)
  BY DEF Joint
<1>7. \A r : ExpsAt(r, k) /\ Clear(G, ListNext)
            => Joint(P2("Expression", "MoreExpressions", s), r, ExpFirst, s, k, G)
  BY DEF Joint
<1>8. \A a, b, c, d : List(P2(a, b, s)) /\ List(P3(a, b, c, s)) /\ List(P4(a, b, c, d, s))
  <2>1. List(s)
    BY Unfold
  <2> QED  BY <2>1, ConsIsList
<1> QED  BY <1>1, <1>2, <1>3, <1>4, <1>5, <1>6, <1>7, <1>8, FoldJoint

------------------------------------------------------------------------------
(***************************************************************************)
(* What the routines call for each token they look at (parser/Parser.cpp,  *)
(* function by function).                                                  *)
(***************************************************************************)

\* Here they stay folded: what a routine calls is joined to the calls pending by lemmas.
HIDE DEF P2, P3, P4, P5, P6, P7, P8

\* The calls c are made before the pending ones.
Run(c, s) == c \o s

LEMMA SuffixesIs ==
  ASSUME NEW s, List(s)
  PROVE  /\ Run(Suffixes("."), s) = P3("skip", "name", "Suffixes", s)
         /\ Run(Suffixes("["), s) = P4("skip", "Expression", "]", "Suffixes", s)
         /\ Run(Suffixes(":"), s) = P4("skip", "name", "MethodArguments", "Suffixes", s)
         /\ Run(Suffixes("("), s) = P4("skip", "Arguments", ")", "Suffixes", s)
         /\ Run(Suffixes("string"), s) = P2("skip", "Suffixes", s)
         /\ Run(Suffixes(LBrace), s) = P2("Table", "Suffixes", s)
         /\ \A x : x \notin SufFirst => Run(Suffixes(x), s) = s
<1>1. /\ Suffixes(".") = <<"skip", "name", "Suffixes">>
      /\ Suffixes("[") = <<"skip", "Expression", "]", "Suffixes">>
      /\ Suffixes(":") = <<"skip", "name", "MethodArguments", "Suffixes">>
      /\ Suffixes("(") = <<"skip", "Arguments", ")", "Suffixes">>
      /\ Suffixes("string") = <<"skip", "Suffixes">>
      /\ Suffixes(LBrace) = <<"Table", "Suffixes">>
      /\ \A x : x \notin SufFirst => Suffixes(x) = <<>>
  BY Zenon DEF Suffixes, LBrace, SufFirst
<1>2. Run(Suffixes("."), s) = P3("skip", "name", "Suffixes", s)
  BY Zenon, <1>1, Join3 DEF Run
<1>3. Run(Suffixes("["), s) = P4("skip", "Expression", "]", "Suffixes", s)
  BY Zenon, <1>1, Join4 DEF Run
<1>4. Run(Suffixes(":"), s) = P4("skip", "name", "MethodArguments", "Suffixes", s)
  BY Zenon, <1>1, Join4 DEF Run
<1>5. Run(Suffixes("("), s) = P4("skip", "Arguments", ")", "Suffixes", s)
  BY Zenon, <1>1, Join4 DEF Run
<1>6. Run(Suffixes("string"), s) = P2("skip", "Suffixes", s)
  BY Zenon, <1>1, Join2 DEF Run
<1>7. Run(Suffixes(LBrace), s) = P2("Table", "Suffixes", s)
  BY Zenon, <1>1, Join2 DEF Run
<1>8. \A x : x \notin SufFirst => Run(Suffixes(x), s) = s
  BY Zenon, <1>1, Join0 DEF Run
<1> QED  BY <1>2, <1>3, <1>4, <1>5, <1>6, <1>7, <1>8

LEMMA PrimaryIs ==
  ASSUME NEW s, List(s)
  PROVE  /\ Run(Primary("lit"), s) = P2("skip", "Suffixes", s)
         /\ Run(Primary("string"), s) = P2("skip", "Suffixes", s)
         /\ Run(Primary("..."), s) = P2("skip", "Suffixes", s)
         /\ Run(Primary("name"), s) = P2("skip", "Suffixes", s)
         /\ Run(Primary("("), s) = P4("skip", "Expression", ")", "Suffixes", s)
         /\ Run(Primary(LBrace), s) = P2("Table", "Suffixes", s)
         /\ Run(Primary("function"), s) = P3("skip", "FunctionBody", "Suffixes", s)
<1>1. /\ Primary("lit") = <<"skip", "Suffixes">>
      /\ Primary("string") = <<"skip", "Suffixes">>
      /\ Primary("...") = <<"skip", "Suffixes">>
      /\ Primary("name") = <<"skip", "Suffixes">>
      /\ Primary("(") = <<"skip", "Expression", ")", "Suffixes">>
      /\ Primary(LBrace) = <<"Table", "Suffixes">>
      /\ Primary("function") = <<"skip", "FunctionBody", "Suffixes">>
  BY Zenon DEF Primary, Atomic, LBrace
<1> QED  BY Zenon, <1>1, Join2, Join3, Join4 DEF Run

LEMMA PowerIs ==
  ASSUME NEW s, List(s)
  PROVE  /\ Run(Power("^"), s) = P2("skip", "Operand", s)
         /\ \A x : x # "^" => Run(Power(x), s) = s
<1>1. /\ Power("^") = <<"skip", "Operand">>
      /\ \A x : x # "^" => Power(x) = <<>>
  BY Zenon DEF Power
<1> QED  BY Zenon, <1>1, Join0, Join2 DEF Run

LEMMA OperandIs ==
  ASSUME NEW s, List(s)
  PROVE  /\ Run(Operand("not"), s) = P2("skip", "Operand", s)
         /\ Run(Operand("-"), s) = P2("skip", "Operand", s)
         /\ Run(Operand("~"), s) = P2("skip", "Operand", s)
         /\ \A x : x \notin Unary => Run(Operand(x), s) = P2("Primary", "Power", s)
<1>1. /\ Operand("not") = <<"skip", "Operand">>
      /\ Operand("-") = <<"skip", "Operand">>
      /\ Operand("~") = <<"skip", "Operand">>
      /\ \A x : x \notin Unary => Operand(x) = <<"Primary", "Power">>
  BY Zenon DEF Operand, Unary
<1> QED  BY Zenon, <1>1, Join2 DEF Run

LEMMA OperatorsIs ==
  ASSUME NEW s, List(s)
  PROVE  /\ \A x : x \in Binary => Run(Operators(x), s) = P3("skip", "Operand", "Operators", s)
         /\ \A x : x \notin Binary => Run(Operators(x), s) = s
<1>1. /\ \A x : x \in Binary => Operators(x) = <<"skip", "Operand", "Operators">>
      /\ \A x : x \notin Binary => Operators(x) = <<>>
  BY Zenon DEF Operators
<1> QED  BY Zenon, <1>1, Join0, Join3 DEF Run

LEMMA FieldOperatorsIs ==
  ASSUME NEW s, List(s)
  PROVE  /\ \A x : x \in Binary => Run(FieldOperators(x), s) =
              P3("skip", "Operand", "FieldOperators", s)
         /\ \A x : x \notin Binary => Run(FieldOperators(x), s) = s
<1>1. /\ \A x : x \in Binary => FieldOperators(x) = <<"skip", "Operand", "FieldOperators">>
      /\ \A x : x \notin Binary => FieldOperators(x) = <<>>
  BY Zenon DEF FieldOperators
<1> QED  BY Zenon, <1>1, Join0, Join3 DEF Run

LEMMA ArgumentsIs ==
  ASSUME NEW s, List(s)
  PROVE  /\ Run(Arguments(")"), s) = s
         /\ \A x : x # ")" => Run(Arguments(x), s) = Cons("ExpressionList", s)
<1>1. /\ Arguments(")") = <<>>
      /\ \A x : x # ")" => Arguments(x) = <<"ExpressionList">>
  BY Zenon DEF Arguments
<1> QED  BY Zenon, <1>1, Join0, Join1 DEF Run

LEMMA MethodArgumentsIs ==
  ASSUME NEW s, List(s)
  PROVE  /\ Run(MethodArguments("("), s) = P3("skip", "Arguments", ")", s)
         /\ Run(MethodArguments("string"), s) = Cons("skip", s)
         /\ Run(MethodArguments(LBrace), s) = Cons("Table", s)
<1>1. /\ MethodArguments("(") = <<"skip", "Arguments", ")">>
      /\ MethodArguments("string") = <<"skip">>
      /\ MethodArguments(LBrace) = <<"Table">>
  BY Zenon DEF MethodArguments, LBrace
<1> QED  BY Zenon, <1>1, Join1, Join3 DEF Run

LEMMA NameTailIs ==
  ASSUME NEW s, List(s)
  PROVE  /\ Run(NameTail("."), s) = P3("skip", "name", "NameTail", s)
         /\ Run(NameTail(":"), s) = P2("skip", "name", s)
         /\ \A x : x \notin {".", ":"} => Run(NameTail(x), s) = s
<1>1. /\ NameTail(".") = <<"skip", "name", "NameTail">>
      /\ NameTail(":") = <<"skip", "name">>
      /\ \A x : x \notin {".", ":"} => NameTail(x) = <<>>
  BY Zenon DEF NameTail
<1> QED  BY Zenon, <1>1, Join0, Join2, Join3 DEF Run

LEMMA ParametersIs ==
  ASSUME NEW s, List(s)
  PROVE  /\ Run(Parameters(")"), s) = s
         /\ \A x : x # ")" => Run(Parameters(x), s) = Cons("Parameter", s)
<1>1. /\ Parameters(")") = <<>>
      /\ \A x : x # ")" => Parameters(x) = <<"Parameter">>
  BY Zenon DEF Parameters
<1> QED  BY Zenon, <1>1, Join0, Join1 DEF Run

LEMMA ParameterIs ==
  ASSUME NEW s, List(s)
  PROVE  /\ Run(Parameter("..."), s) = Cons("skip", s)
         /\ Run(Parameter("name"), s) = P2("name", "MoreParameters", s)
<1>1. /\ Parameter("...") = <<"skip">>
      /\ Parameter("name") = <<"name", "MoreParameters">>
  BY Zenon DEF Parameter
<1> QED  BY Zenon, <1>1, Join1, Join2 DEF Run

LEMMA MoreParametersIs ==
  ASSUME NEW s, List(s)
  PROVE  /\ Run(MoreParameters(Comma), s) = P2("skip", "Parameter", s)
         /\ \A x : x # Comma => Run(MoreParameters(x), s) = s
<1>1. /\ MoreParameters(Comma) = <<"skip", "Parameter">>
      /\ \A x : x # Comma => MoreParameters(x) = <<>>
  BY Zenon DEF MoreParameters, Comma
<1> QED  BY Zenon, <1>1, Join0, Join2 DEF Run

LEMMA MoreNamesIs ==
  ASSUME NEW s, List(s)
  PROVE  /\ Run(MoreNames(Comma), s) = P3("skip", "name", "MoreNames", s)
         /\ \A x : x # Comma => Run(MoreNames(x), s) = s
<1>1. /\ MoreNames(Comma) = <<"skip", "name", "MoreNames">>
      /\ \A x : x # Comma => MoreNames(x) = <<>>
  BY Zenon DEF MoreNames, Comma
<1> QED  BY Zenon, <1>1, Join0, Join3 DEF Run

LEMMA MoreExpressionsIs ==
  ASSUME NEW s, List(s)
  PROVE  /\ Run(MoreExpressions(Comma), s) = P3("skip", "Expression", "MoreExpressions", s)
         /\ \A x : x # Comma => Run(MoreExpressions(x), s) = s
<1>1. /\ MoreExpressions(Comma) = <<"skip", "Expression", "MoreExpressions">>
      /\ \A x : x # Comma => MoreExpressions(x) = <<>>
  BY Zenon DEF MoreExpressions, Comma
<1> QED  BY Zenon, <1>1, Join0, Join3 DEF Run

LEMMA FieldsIs ==
  ASSUME NEW s, List(s)
  PROVE  /\ Run(Fields(RBrace), s) = Cons(RBrace, s)
         /\ \A x : x \in ItemFirst => Run(Fields(x), s) =
              P3("Field", "FieldSeparator", "Fields", s)
<1>1. /\ Fields(RBrace) = <<"}">>
      /\ \A x : x \in ItemFirst => Fields(x) = <<"Field", "FieldSeparator", "Fields">>
  BY Zenon DEF Fields, Comma, ExpFirst, ItemFirst, LBrace, RBrace, Semi, Separator
<1> QED  BY Zenon, <1>1, Join1, Join3 DEF RBrace, Run

LEMMA FieldSeparatorIs ==
  ASSUME NEW s, List(s)
  PROVE  /\ Run(FieldSeparator(Comma), s) = Cons("skip", s)
         /\ Run(FieldSeparator(Semi), s) = Cons("skip", s)
         /\ \A x : x \notin {Comma, Semi} => Run(FieldSeparator(x), s) = s
<1>1. /\ FieldSeparator(Comma) = <<"skip">>
      /\ FieldSeparator(Semi) = <<"skip">>
      /\ \A x : x \notin {Comma, Semi} => FieldSeparator(x) = <<>>
  BY Zenon DEF FieldSeparator, Comma, Semi, Separator
<1> QED  BY Zenon, <1>1, Join0, Join1 DEF Run

LEMMA FieldIs ==
  ASSUME NEW s, List(s)
  PROVE  /\ Run(Field("["), s) = P5("skip", "Expression", "]", "=", "Expression", s)
         /\ Run(Field("name"), s) = P2("skip", "NamedField", s)
         /\ \A x : x \notin {"[", "name"} => Run(Field(x), s) = Cons("Expression", s)
<1>1. /\ Field("[") = <<"skip", "Expression", "]", "=", "Expression">>
      /\ Field("name") = <<"skip", "NamedField">>
      /\ \A x : x \notin {"[", "name"} => Field(x) = <<"Expression">>
  BY Zenon DEF Field
<1> QED  BY Zenon, <1>1, Join1, Join2, Join5 DEF Run

LEMMA NamedFieldIs ==
  ASSUME NEW s, List(s)
  PROVE  /\ Run(NamedField("="), s) = P2("skip", "Expression", s)
         /\ Run(NamedField("."), s) = Cons("Suffixes", s)
         /\ Run(NamedField("["), s) = Cons("Suffixes", s)
         /\ Run(NamedField("("), s) = Cons("Suffixes", s)
         /\ Run(NamedField(":"), s) = Cons("Suffixes", s)
         /\ \A x : x \notin {"=", ".", "[", "(", ":"} => Run(NamedField(x), s) =
              P2("Suffixes", "FieldOperators", s)
<1>1. /\ NamedField("=") = <<"skip", "Expression">>
      /\ NamedField(".") = <<"Suffixes">>
      /\ NamedField("[") = <<"Suffixes">>
      /\ NamedField("(") = <<"Suffixes">>
      /\ NamedField(":") = <<"Suffixes">>
      /\ \A x : x \notin {"=", ".", "[", "(", ":"} => NamedField(x) =
           <<"Suffixes", "FieldOperators">>
  BY Zenon DEF NamedField
<1> QED  BY Zenon, <1>1, Join1, Join2 DEF Run

LEMMA BlockIs ==
  ASSUME NEW s, List(s)
  PROVE  /\ \A x : x \in BlockEnd => Run(Block(x), s) = s
         /\ \A x : x \in ChunkFirst => Run(Block(x), s) = P3("Statement", "Semicolon", "Block", s)
<1>1. /\ \A x : x \in BlockEnd => Block(x) = <<>>
      /\ \A x : x \in ChunkFirst => Block(x) = <<"Statement", "Semicolon", "Block">>
  BY Zenon DEF Block, BlockEnd, ChunkFirst, StatFirst
<1> QED  BY Zenon, <1>1, Join0, Join3 DEF Run

LEMMA SemicolonIs ==
  ASSUME NEW s, List(s)
  PROVE  /\ Run(Semicolon(Semi), s) = Cons("skip", s)
         /\ \A x : x # Semi => Run(Semicolon(x), s) = s
<1>1. /\ Semicolon(Semi) = <<"skip">>
      /\ \A x : x # Semi => Semicolon(x) = <<>>
  BY Zenon DEF Semicolon, Semi
<1> QED  BY Zenon, <1>1, Join0, Join1 DEF Run

LEMMA StatementIs ==
  ASSUME NEW s, List(s)
  PROVE  /\ Run(Statement("if"), s) = P5("skip", "Expression", "then", "Block", "ElseIf", s)
         /\ Run(Statement("while"), s) = P5("skip", "Expression", "do", "Block", "end", s)
         /\ Run(Statement("repeat"), s) = P4("skip", "Block", "until", "Expression", s)
         /\ Run(Statement("for"), s) = P3("skip", "name", "ForKind", s)
         /\ Run(Statement("function"), s) = Cons("FunctionStatement", s)
         /\ Run(Statement("local"), s) = P2("skip", "LocalKind", s)
         /\ Run(Statement("return"), s) = P2("skip", "ReturnValues", s)
         /\ Run(Statement("break"), s) = Cons("skip", s)
         /\ Run(Statement("goto"), s) = P2("skip", "name", s)
         /\ Run(Statement("::"), s) = P3("skip", "name", "::", s)
         /\ Run(Statement("do"), s) = P3("skip", "Block", "end", s)
         /\ Run(Statement("name"), s) = P2("Primary", "AssignOrCall", s)
<1>1. /\ Statement("if") = <<"skip", "Expression", "then", "Block", "ElseIf">>
      /\ Statement("while") = <<"skip", "Expression", "do", "Block", "end">>
      /\ Statement("repeat") = <<"skip", "Block", "until", "Expression">>
      /\ Statement("for") = <<"skip", "name", "ForKind">>
      /\ Statement("function") = <<"FunctionStatement">>
      /\ Statement("local") = <<"skip", "LocalKind">>
      /\ Statement("return") = <<"skip", "ReturnValues">>
      /\ Statement("break") = <<"skip">>
      /\ Statement("goto") = <<"skip", "name">>
      /\ Statement("::") = <<"skip", "name", "::">>
      /\ Statement("do") = <<"skip", "Block", "end">>
      /\ Statement("name") = <<"Primary", "AssignOrCall">>
  BY Zenon DEF Statement
<1> QED  BY Zenon, <1>1, Join1, Join2, Join3, Join4, Join5 DEF Run

LEMMA AssignOrCallIs ==
  ASSUME NEW s, List(s)
  PROVE  /\ Run(AssignOrCall(Comma), s) = P3("MoreTargets", "=", "ExpressionList", s)
         /\ Run(AssignOrCall("="), s) = P3("MoreTargets", "=", "ExpressionList", s)
         /\ \A x : x \notin {Comma, "="} => Run(AssignOrCall(x), s) = s
<1>1. /\ AssignOrCall(Comma) = <<"MoreTargets", "=", "ExpressionList">>
      /\ AssignOrCall("=") = <<"MoreTargets", "=", "ExpressionList">>
      /\ \A x : x \notin {Comma, "="} => AssignOrCall(x) = <<>>
  BY Zenon DEF AssignOrCall, Comma
<1> QED  BY Zenon, <1>1, Join0, Join3 DEF Run

LEMMA MoreTargetsIs ==
  ASSUME NEW s, List(s)
  PROVE  /\ Run(MoreTargets(Comma), s) = P3("skip", "Primary", "MoreTargets", s)
         /\ \A x : x # Comma => Run(MoreTargets(x), s) = s
<1>1. /\ MoreTargets(Comma) = <<"skip", "Primary", "MoreTargets">>
      /\ \A x : x # Comma => MoreTargets(x) = <<>>
  BY Zenon DEF MoreTargets, Comma
<1> QED  BY Zenon, <1>1, Join0, Join3 DEF Run

LEMMA LocalKindIs ==
  ASSUME NEW s, List(s)
  PROVE  /\ Run(LocalKind("function"), s) = Cons("FunctionStatement", s)
         /\ Run(LocalKind("name"), s) = P3("name", "MoreNames", "LocalValues", s)
<1>1. /\ LocalKind("function") = <<"FunctionStatement">>
      /\ LocalKind("name") = <<"name", "MoreNames", "LocalValues">>
  BY Zenon DEF LocalKind
<1> QED  BY Zenon, <1>1, Join1, Join3 DEF Run

LEMMA LocalValuesIs ==
  ASSUME NEW s, List(s)
  PROVE  /\ Run(LocalValues("="), s) = P2("skip", "ExpressionList", s)
         /\ \A x : x # "=" => Run(LocalValues(x), s) = s
<1>1. /\ LocalValues("=") = <<"skip", "ExpressionList">>
      /\ \A x : x # "=" => LocalValues(x) = <<>>
  BY Zenon DEF LocalValues
<1> QED  BY Zenon, <1>1, Join0, Join2 DEF Run

LEMMA ElseIfIs ==
  ASSUME NEW s, List(s)
  PROVE  /\ Run(ElseIf("elseif"), s) = P5("skip", "Expression", "then", "Block", "ElseIf", s)
         /\ Run(ElseIf("else"), s) = P3("skip", "Block", "end", s)
         /\ Run(ElseIf("end"), s) = Cons("end", s)
<1>1. /\ ElseIf("elseif") = <<"skip", "Expression", "then", "Block", "ElseIf">>
      /\ ElseIf("else") = <<"skip", "Block", "end">>
      /\ ElseIf("end") = <<"end">>
  BY Zenon DEF ElseIf
<1> QED  BY Zenon, <1>1, Join1, Join3, Join5 DEF Run

LEMMA ForKindIs ==
  ASSUME NEW s, List(s)
  PROVE  /\ Run(ForKind("="), s) = P8("skip", "Expression", Comma, "Expression", "ForStep",
              "do", "Block", "end", s)
         /\ \A x : x # "=" => Run(ForKind(x), s) =
              P6("MoreNames", "in", "ExpressionList", "do", "Block", "end", s)
<1>1. /\ ForKind("=") = <<"skip", "Expression", ",", "Expression", "ForStep", "do", "Block",
           "end">>
      /\ \A x : x # "=" => ForKind(x) =
           <<"MoreNames", "in", "ExpressionList", "do", "Block", "end">>
  BY Zenon DEF ForKind, Comma
<1> QED  BY Zenon, <1>1, Join6, Join8 DEF Comma, Run

LEMMA ForStepIs ==
  ASSUME NEW s, List(s)
  PROVE  /\ Run(ForStep(Comma), s) = P2("skip", "Expression", s)
         /\ \A x : x # Comma => Run(ForStep(x), s) = s
<1>1. /\ ForStep(Comma) = <<"skip", "Expression">>
      /\ \A x : x # Comma => ForStep(x) = <<>>
  BY Zenon DEF ForStep, Comma
<1> QED  BY Zenon, <1>1, Join0, Join2 DEF Run

LEMMA ReturnValuesIs ==
  ASSUME NEW s, List(s)
  PROVE  /\ \A x : x \in AfterReturn => Run(ReturnValues(x), s) = s
         /\ \A x : x \notin AfterReturn => Run(ReturnValues(x), s) = Cons("ExpressionList", s)
<1>1. /\ \A x : x \in AfterReturn => ReturnValues(x) = <<>>
      /\ \A x : x \notin AfterReturn => ReturnValues(x) = <<"ExpressionList">>
  BY Zenon DEF ReturnValues, AfterReturn, BlockEnd, Semi
<1> QED  BY Zenon, <1>1, Join0, Join1 DEF Run

LEMMA ExpressionIs ==
  ASSUME NEW s, List(s), NEW x
  PROVE  /\ Run(Expression(x), s) = P2("Operand", "Operators", s)
         /\ Run(ExpressionList(x), s) = P2("Expression", "MoreExpressions", s)
         /\ Run(FunctionStatement(x), s) = P4("skip", "name", "NameTail", "FunctionBody", s)
         /\ Run(FunctionBody(x), s) = P5("(", "Parameters", ")", "Block", "end", s)
         /\ Run(Table(x), s) = P2(LBrace, "Fields", s)
<1>1. /\ Expression(x) = <<"Operand", "Operators">>
      /\ ExpressionList(x) = <<"Expression", "MoreExpressions">>
      /\ FunctionStatement(x) = <<"skip", "name", "NameTail", "FunctionBody">>
      /\ FunctionBody(x) = <<"(", "Parameters", ")", "Block", "end">>
      /\ Table(x) = <<LBrace, "Fields">>
  BY Zenon DEF Expression, ExpressionList, FunctionStatement, FunctionBody, Table, LBrace
<1> QED  BY Zenon, <1>1, Join2, Join4, Join5 DEF Run

USE DEF P2, P3, P4, P5, P6, P7, P8

------------------------------------------------------------------------------
(***************************************************************************)
(* Each routine, called in front of a program it reads, leaves calls that  *)
(* read that program: the choice it makes on the current token is the one  *)
(* the grammar made.                                                       *)
(***************************************************************************)

LEMMA Pristine ==
  ASSUME NEW k
  PROVE  /\ ExpAt(Cons("Exp", k), k) /\ ExpsAt(Cons("Exps", k), k) /\ OpdAt(Cons("Opd", k), k)
         /\ BinopAt(Cons("Binop", k), k) /\ ArgAt(Cons("Arg", k), k) /\ VarAt(Cons("Var", k), k)
         /\ NamesAt(Cons("Names", k), k) /\ DoAt(Cons("Do", k), k) /\ RangeAt(Cons("Range", k), k)
         /\ BodyAt(Cons("Body", k), k) /\ ClauseAt(Cons("Clause", k), k)
              /\ InnerAt(Cons("Inner", k), k)
         /\ TargetsAt(Cons("Targets", k), k) /\ InitAt(Cons("Init", k), k)
              /\ PathAt(Cons("Path", k), k)
         /\ ParamsAt(Cons("Params", k), k) /\ MoreAt(Cons("More", k), k)
              /\ ValuesAt(Cons("Values", k), k)
         /\ ElseAt(Cons("Else", k), k) /\ ItemsAt(Cons("Items", k), k)
              /\ ChunkAt(Cons("Chunk", k), k)
         /\ \A m \in Suffixed(k) : SfxsAt(m, k)
         /\ TargetsAt(k, k) /\ PathAt(k, k) /\ ChunkAt(k, k) /\ SfxsAt(k, k) /\ k \in Suffixed(k)
         /\ Cons("Sfxs", k) \in Suffixed(k)
BY DEF ExpAt, ExpsAt, OpdAt, BinopAt, ArgAt, VarAt, NamesAt, DoAt, RangeAt, BodyAt, ClauseAt,
     InnerAt, TargetsAt, InitAt, PathAt,
       ParamsAt, MoreAt, ValuesAt, ElseAt, ItemsAt, ChunkAt, SfxsAt, Suffixed

LEMMA Nexts ==
  /\ \A x \in {")", "]", "then", "do", "end", "in", "=", "until", RBrace} : Clear({x}, ListNext)
       /\ Clear({x}, ExpNext)
  /\ Clear({Comma}, ExpNext)
  /\ \A G : Clear(G, PowNext) => Clear({"^"} \cup G, SufFirst) /\ Clear(G, SufFirst)
  /\ \A G : Clear(G, ExpNext) => Clear(Binary \cup G, PowNext) /\ Clear(G, PowNext)
  /\ \A G : Clear(G, ListNext) => Clear({Comma} \cup G, ExpNext) /\ Clear(G, ExpNext)
       /\ Comma \notin G
<1>1. \A x \in {")", "]", "then", "do", "end", "in", "=", "until", RBrace} : Clear({x}, ListNext)
        /\ Clear({x}, ExpNext)
  BY Distinct DEF Clear, ListNext, ExpNext, PowNext, SufFirst, Binary
<1>2. Clear({Comma}, ExpNext)
  BY Distinct DEF Clear, ExpNext, PowNext, SufFirst, Binary
<1>3. ASSUME NEW G, Clear(G, PowNext) PROVE Clear({"^"} \cup G, SufFirst) /\ Clear(G, SufFirst)
  BY <1>3, Distinct DEF Clear, PowNext, SufFirst
<1>4. ASSUME NEW G, Clear(G, ExpNext) PROVE Clear(Binary \cup G, PowNext) /\ Clear(G, PowNext)
  BY <1>4, Distinct DEF Clear, ExpNext, PowNext, SufFirst, Binary
<1>5. ASSUME NEW G, Clear(G, ListNext)
      PROVE  Clear({Comma} \cup G, ExpNext) /\ Clear(G, ExpNext) /\ Comma \notin G
  BY <1>2, <1>5 DEF Clear, ListNext
<1> QED  BY <1>1, <1>2, <1>3, <1>4, <1>5

LEMMA CallSuffixes ==
  ASSUME NEW s, NEW k, NEW G, Couple(s, k, G), NEW x \in Token, NEW t, List(t),
         SfxsAt(Cons(x, t), k), Clear(G, SufFirst)
  PROVE  \E E : Couple(Run(Suffixes(x), s), Cons(x, t), E)
<1>1. List(s) /\ List(k)
  BY Unfold
<1>2. CASE Cons(x, t) = k
  <2>1. x \in G
    BY <1>2, HeadInF
  <2>2. Run(Suffixes(x), s) = s
    BY <1>1, <2>1, SuffixesIs DEF Clear
  <2> QED  BY <1>2, <2>2
<1>3. ASSUME NEW m \in Suffixed(k), IndexAt(Cons(x, t), m) \/ InvokeAt(Cons(x, t), m)
      PROVE  \E E : Couple(Run(Suffixes(x), s), Cons(x, t), E)
  <2>1. List(m) /\ SfxsAt(m, k)
    BY <1>1, <1>3, SfxIsList, Pristine
  <2>2. Couple(Cons("Suffixes", s), m, SufFirst \cup G)
    BY <2>1, PushSuffixes
  <2>3. CASE Cons(x, t) = P2(".", "name", m)
    <3>1. x = "."
      BY <2>1, <2>3, SameFirst, ConsIsList
    <3>2. Run(Suffixes(x), s) = P3("skip", "name", "Suffixes", s)
      BY <1>1, <3>1, SuffixesIs
    <3>3. Couple(P3("skip", "name", "Suffixes", s), P2(".", "name", m), {"."})
      BY <1>1, <2>1, <2>2, ConsIsList, FoldTakes, TokensAre
    <3> QED  BY <2>3, <3>2, <3>3
  <2>4. CASE Cons(x, t) = P3("[", "Exp", "]", m)
    <3>1. x = "["
      BY <2>1, <2>4, SameFirst, ConsIsList
    <3>2. Run(Suffixes(x), s) = P4("skip", "Expression", "]", "Suffixes", s)
      BY <1>1, <3>1, SuffixesIs
    <3>3. Couple(P4("skip", "Expression", "]", "Suffixes", s), P3("[", "Exp", "]", m), {"["})
      BY <1>1, <2>1, <2>2, ConsIsList, FoldTakes, TokensAre, PushExpression, Pristine, Nexts
    <3> QED  BY <2>4, <3>2, <3>3
  <2>5. CASE Cons(x, t) = P3(":", "name", "Arg", m)
    <3>1. x = ":"
      BY <2>1, <2>5, SameFirst, ConsIsList
    <3>2. Run(Suffixes(x), s) = P4("skip", "name", "MethodArguments", "Suffixes", s)
      BY <1>1, <3>1, SuffixesIs
    <3>3. Couple(P4("skip", "name", "MethodArguments", "Suffixes", s), P3(":", "name", "Arg",
            m), {":"})
      BY <1>1, <2>1, <2>2, ConsIsList, FoldTakes, TokensAre, PushMethodArguments, Pristine
    <3> QED  BY <2>5, <3>2, <3>3
  <2>6. CASE Cons(x, t) = P2("(", ")", m)
    <3>1. x = "("
      BY <2>1, <2>6, SameFirst, ConsIsList
    <3>2. Run(Suffixes(x), s) = P4("skip", "Arguments", ")", "Suffixes", s)
      BY <1>1, <3>1, SuffixesIs
    <3>3. Couple(P4("skip", "Arguments", ")", "Suffixes", s), P2("(", ")", m), {"("})
      BY <1>1, <2>1, <2>2, ConsIsList, FoldTakes, TokensAre, PushArguments
    <3> QED  BY <2>6, <3>2, <3>3
  <2>7. CASE Cons(x, t) = P3("(", "Exps", ")", m)
    <3>1. x = "("
      BY <2>1, <2>7, SameFirst, ConsIsList
    <3>2. Run(Suffixes(x), s) = P4("skip", "Arguments", ")", "Suffixes", s)
      BY <1>1, <3>1, SuffixesIs
    <3>3. Couple(P4("skip", "Arguments", ")", "Suffixes", s), P3("(", "Exps", ")", m), {"("})
      BY <1>1, <2>1, <2>2, ConsIsList, FoldTakes, TokensAre, PushArguments, Pristine
    <3> QED  BY <2>7, <3>2, <3>3
  <2>8. CASE Cons(x, t) = Cons("string", m)
    <3>1. x = "string"
      BY <2>1, <2>8, SameFirst, ConsIsList
    <3>2. Run(Suffixes(x), s) = P2("skip", "Suffixes", s)
      BY <1>1, <3>1, SuffixesIs
    <3>3. Couple(P2("skip", "Suffixes", s), Cons("string", m), {"string"})
      BY <1>1, <2>1, <2>2, ConsIsList, FoldTakes, TokensAre
    <3> QED  BY <2>8, <3>2, <3>3
  <2>9. CASE Cons(x, t) = P3(LBrace, "Items", RBrace, m)
    BY <1>1, <2>1, <2>2, <2>9, SameFirst, ConsIsList, SuffixesIs, PushTable
  <2>10. /\ Cons(x, t) # Cons("Index", m) /\ Cons(x, t) # Cons("Invoke", m)
         /\ Cons(x, t) # Cons("Arg", m)
    BY <2>1, SameFirst, NonterminalsAreNoTokens
  <2> QED  BY <1>3, <2>3, <2>4, <2>5, <2>6, <2>7, <2>8, <2>9, <2>10 DEF IndexAt, InvokeAt, ArgAt
<1>4. Cons(x, t) \in Suffixed(k) => Cons(x, t) = k
  BY <1>1, SameFirst, ConsIsList, NonterminalsAreNoTokens DEF Suffixed
<1> QED  BY <1>2, <1>3, <1>4 DEF SfxsAt

LEMMA Follows ==
  /\ \A G : G \subseteq AfterStat =>
       /\ Clear(G, ListNext) /\ Clear(G, ExpNext) /\ Clear({Comma, "="} \cup G, SufFirst)
       /\ Comma \notin G /\ "=" \notin G
  /\ \A G : G \subseteq AfterReturn => G \subseteq AfterStat
  /\ \A G : G \subseteq AfterField => Clear(G, ExpNext) /\ Clear(Binary \cup G, SufFirst)
  /\ \A G : G \subseteq BlockEnd => G \subseteq AfterReturn /\ Semi \notin G
       /\ ({Semi} \cup G) \subseteq AfterReturn
                /\ (ChunkFirst \cup G) \subseteq AfterStat /\ Semi \notin (ChunkFirst \cup G)
                /\ ({Semi} \cup (ChunkFirst \cup G)) \subseteq AfterStat
  /\ Clear({Comma, "do"}, ExpNext)
<1>1. \A x \in AfterStat : x \notin ListNext /\ x # "="
  BY Distinct DEF AfterStat, AfterReturn, ChunkFirst, StatFirst, BlockEnd, ListNext, ExpNext,
       PowNext, SufFirst, Binary
<1>2. \A x \in AfterField : x \notin ExpNext /\ x # "="
  BY Distinct DEF AfterField, ExpNext, PowNext, SufFirst, Binary
<1>3. Comma \notin SufFirst /\ "=" \notin SufFirst /\ \A x \in Binary : x \notin SufFirst
  BY Distinct DEF SufFirst, Binary
<1>4. Semi \notin BlockEnd /\ Semi \notin ChunkFirst
  BY Distinct DEF ChunkFirst, StatFirst, BlockEnd
<1>5. Clear({Comma, "do"}, ExpNext)
  BY Distinct DEF Clear, ExpNext, PowNext, SufFirst, Binary
<1>6. SufFirst \subseteq ExpNext /\ ExpNext \subseteq ListNext /\ Comma \in ListNext
  BY DEF PowNext, ExpNext, ListNext
<1>7. AfterReturn \subseteq AfterStat /\ BlockEnd \subseteq AfterReturn /\ Semi \in AfterReturn
        /\ ChunkFirst \subseteq AfterStat
  BY DEF AfterStat, AfterReturn
<1>8. ASSUME NEW G, G \subseteq AfterStat
      PROVE  /\ Clear(G, ListNext) /\ Clear(G, ExpNext) /\ Clear({Comma, "="} \cup G, SufFirst)
             /\ Comma \notin G /\ "=" \notin G
  BY <1>1, <1>3, <1>6, <1>8 DEF Clear
<1>9. ASSUME NEW G, G \subseteq AfterField
      PROVE  Clear(G, ExpNext) /\ Clear(Binary \cup G, SufFirst)
  BY <1>2, <1>3, <1>6, <1>9 DEF Clear
<1>10. ASSUME NEW G, G \subseteq BlockEnd
      PROVE  /\ G \subseteq AfterReturn /\ Semi \notin G /\ ({Semi} \cup G) \subseteq AfterReturn
             /\ (ChunkFirst \cup G) \subseteq AfterStat /\ Semi \notin (ChunkFirst \cup G)
             /\ ({Semi} \cup (ChunkFirst \cup G)) \subseteq AfterStat
  BY <1>4, <1>7, <1>10
<1> QED  BY <1>5, <1>7, <1>8, <1>9, <1>10

LEMMA CallSemicolon ==
  ASSUME NEW s, NEW k, NEW G, Couple(s, k, G), NEW x \in Token, NEW t, List(t),
         Semi \notin G, Cons(x, t) \in {k, Cons(Semi, k)}
  PROVE  \E E : Couple(Run(Semicolon(x), s), Cons(x, t), E)
<1>1. List(s) /\ List(k)
  BY Unfold
<1>2. CASE Cons(x, t) = k
  <2>1. x \in G
    BY <1>2, HeadInF
  <2>2. Run(Semicolon(x), s) = s
    BY <1>1, <2>1, SemicolonIs
  <2> QED  BY <1>2, <2>2
<1>3. CASE Cons(x, t) = Cons(Semi, k)
  <2>1. x = Semi
    BY <1>1, <1>3, SameFirst, ConsIsList
  <2>2. Run(Semicolon(x), s) = Cons("skip", s)
    BY <1>1, <2>1, SemicolonIs
  <2>3. Couple(Cons("skip", s), Cons(Semi, k), {Semi})
    BY <1>1, ConsIsList, FoldTakes, TokensAre, NotTheEnd
  <2> QED  BY <1>3, <2>2, <2>3
<1> QED  BY <1>2, <1>3

LEMMA CallAssignOrCall ==
  ASSUME NEW s, NEW k, NEW G, Couple(s, k, G), NEW x \in Token, NEW t, List(t),
         G \subseteq AfterStat, Cons(x, t) = k \/ TargetsAt(Cons(x, t), P2("=", "Exps", k))
  PROVE  \E E : Couple(Run(AssignOrCall(x), s), Cons(x, t), E)
<1>1. List(s) /\ List(k)
  BY Unfold
<1>2. CASE Cons(x, t) = k
  <2>1. x \in G
    BY <1>2, HeadInF
  <2>2. Run(AssignOrCall(x), s) = s
    BY <1>1, <2>1, AssignOrCallIs, Follows
  <2> QED  BY <1>2, <2>2
<1>3. CASE Cons(x, t) = P2("=", "Exps", k)
  <2>1. x = "="
    BY <1>1, <1>3, SameFirst, ConsIsList
  <2>2. Run(AssignOrCall(x), s) = P3("MoreTargets", "=", "ExpressionList", s)
    BY <1>1, <2>1, AssignOrCallIs
  <2>3. Couple(P2("=", "ExpressionList", s), P2("=", "Exps", k), {"="})
    BY <1>1, PushExpressionList, Pristine, Follows, ConsIsList, FoldTakes, TokensAre
  <2>4. Couple(P3("MoreTargets", "=", "ExpressionList", s), P2("=", "Exps", k),
          {Comma} \cup {"="})
    BY <1>1, <2>3, PushMoreTargets, Pristine, ConsIsList
  <2> QED  BY <1>3, <2>2, <2>4
<1>4. CASE Cons(x, t) = P5(Comma, "Var", "Targets", "=", "Exps", k)
  <2>1. x = Comma
    BY <1>1, <1>4, SameFirst, ConsIsList
  <2>2. Run(AssignOrCall(x), s) = P3("MoreTargets", "=", "ExpressionList", s)
    BY <1>1, <2>1, AssignOrCallIs
  <2>3. Couple(P2("=", "ExpressionList", s), P2("=", "Exps", k), {"="})
    BY <1>1, PushExpressionList, Pristine, Follows, ConsIsList, FoldTakes, TokensAre
  <2>4. Couple(P3("MoreTargets", "=", "ExpressionList", s), P5(Comma, "Var", "Targets", "=",
          "Exps", k), {Comma} \cup {"="})
    BY <1>1, <2>3, PushMoreTargets, ConsIsList DEF TargetsAt
  <2> QED  BY <1>4, <2>2, <2>4
<1>5. Cons(x, t) # P3("Targets", "=", "Exps", k)
  BY <1>1, SameFirst, ConsIsList, NonterminalsAreNoTokens
<1> QED  BY <1>2, <1>3, <1>4, <1>5 DEF TargetsAt

LEMMA CallMoreTargets ==
  ASSUME NEW s, NEW k, NEW G, Couple(s, k, G), NEW x \in Token, NEW t, List(t),
         G \subseteq {"="}, TargetsAt(Cons(x, t), k)
  PROVE  \E E : Couple(Run(MoreTargets(x), s), Cons(x, t), E)
<1>1. List(s) /\ List(k)
  BY Unfold
<1>2. CASE Cons(x, t) = k
  <2>1. x \in G
    BY <1>2, HeadInF
  <2>2. Run(MoreTargets(x), s) = s
    BY <1>1, <2>1, MoreTargetsIs, Distinct
  <2> QED  BY <1>2, <2>2
<1>3. CASE Cons(x, t) = P3(Comma, "Var", "Targets", k)
  <2>1. x = Comma
    BY <1>1, <1>3, SameFirst, ConsIsList
  <2>2. Run(MoreTargets(x), s) = P3("skip", "Primary", "MoreTargets", s)
    BY <1>1, <2>1, MoreTargetsIs
  <2>3. Couple(Cons("MoreTargets", s), Cons("Targets", k), {Comma} \cup G)
    BY <1>1, PushMoreTargets, ConsIsList, Pristine, Distinct
  <2>4. Clear({Comma} \cup G, SufFirst)
    BY <1>1, <2>3, Distinct DEF Clear, SufFirst
  <2>5. Couple(P2("Primary", "MoreTargets", s), P2("Var", "Targets", k), ExpFirst)
    BY <1>1, <2>3, <2>4, PushPrimary, Pristine, ConsIsList
  <2>6. Couple(P3("skip", "Primary", "MoreTargets", s), P3(Comma, "Var", "Targets", k), {Comma})
    BY <1>1, <2>3, <2>4, <2>5, ConsIsList, FoldTakes, TokensAre, NotTheEnd
  <2> QED  BY <1>3, <2>2, <2>6
<1>4. Cons(x, t) # Cons("Targets", k)
  BY <1>1, SameFirst, ConsIsList, NonterminalsAreNoTokens
<1> QED  BY <1>2, <1>3, <1>4 DEF TargetsAt

LEMMA CallLocalValues ==
  ASSUME NEW s, NEW k, NEW G, Couple(s, k, G), NEW x \in Token, NEW t, List(t),
         G \subseteq AfterStat, InitAt(Cons(x, t), k)
  PROVE  \E E : Couple(Run(LocalValues(x), s), Cons(x, t), E)
<1>1. List(s) /\ List(k)
  BY Unfold
<1>2. CASE Cons(x, t) = k
  <2>1. x \in G
    BY <1>2, HeadInF
  <2>2. Run(LocalValues(x), s) = s
    BY <1>1, <2>1, LocalValuesIs, Follows
  <2> QED  BY <1>2, <2>2
<1>3. CASE Cons(x, t) = P2("=", "Exps", k)
  <2>1. x = "="
    BY <1>1, <1>3, SameFirst, ConsIsList
  <2>2. Run(LocalValues(x), s) = P2("skip", "ExpressionList", s)
    BY <1>1, <2>1, LocalValuesIs
  <2>3. Couple(P2("skip", "ExpressionList", s), P2("=", "Exps", k), {"="})
    BY <1>1, PushExpressionList, Pristine, Follows, ConsIsList, FoldTakes, TokensAre
  <2> QED  BY <1>3, <2>2, <2>3
<1>4. Cons(x, t) # Cons("Init", k)
  BY <1>1, SameFirst, ConsIsList, NonterminalsAreNoTokens
<1> QED  BY <1>2, <1>3, <1>4 DEF InitAt

LEMMA CallElseIf ==
  ASSUME NEW s, NEW k, NEW G, Couple(s, k, G), NEW x \in Token, NEW t, List(t),
         ElseAt(Cons(x, t), Cons("end", k))
  PROVE  \E E : Couple(Run(ElseIf(x), s), Cons(x, t), E)
<1>1. List(s) /\ List(k)
  BY Unfold
<1>2. CASE Cons(x, t) = Cons("end", k)
  <2>1. x = "end"
    BY <1>1, <1>2, SameFirst, ConsIsList
  <2>2. Run(ElseIf(x), s) = Cons("end", s)
    BY <1>1, <2>1, ElseIfIs
  <2>3. Couple(Cons("end", s), Cons("end", k), {"end"})
    BY <1>1, ConsIsList, FoldTakes, TokensAre
  <2> QED  BY <1>2, <2>2, <2>3
<1>3. CASE Cons(x, t) = P3("else", "Chunk", "end", k)
  <2>1. x = "else"
    BY <1>1, <1>3, SameFirst, ConsIsList
  <2>2. Run(ElseIf(x), s) = P3("skip", "Block", "end", s)
    BY <1>1, <2>1, ElseIfIs
  <2>3. Couple(Cons("end", s), Cons("end", k), {"end"})
    BY <1>1, ConsIsList, FoldTakes, TokensAre
  <2>4. Couple(P2("Block", "end", s), P2("Chunk", "end", k), ChunkFirst \cup {"end"})
    BY <1>1, <2>3, PushBlock, Pristine, ConsIsList DEF BlockEnd
  <2>5. Couple(P3("skip", "Block", "end", s), P3("else", "Chunk", "end", k), {"else"})
    BY <1>1, <2>3, <2>4, ConsIsList, FoldTakes, TokensAre, Pristine
  <2> QED  BY <1>3, <2>2, <2>5
<1>4. CASE Cons(x, t) = P3("elseif", "Clause", "end", k)
  <2>1. x = "elseif"
    BY <1>1, <1>4, SameFirst, ConsIsList
  <2>2. Run(ElseIf(x), s) = P5("skip", "Expression", "then", "Block", "ElseIf", s)
    BY <1>1, <2>1, ElseIfIs
  <2>3. Couple(P5("skip", "Expression", "then", "Block", "ElseIf", s), P3("elseif", "Clause",
          "end", k), {"elseif"})
    BY <1>1, ConsIsList, FoldTakes, TokensAre, Pristine, PushJoint
  <2> QED  BY <1>4, <2>2, <2>3
<1>5. Cons(x, t) # P2("Else", "end", k)
  BY <1>1, SameFirst, ConsIsList, NonterminalsAreNoTokens
<1> QED  BY <1>2, <1>3, <1>4, <1>5 DEF ElseAt

LEMMA CallForKind ==
  ASSUME NEW s, NEW k, NEW G, Couple(s, k, G), NEW x \in Token, NEW t, List(t),
         Cons(x, t) \in {P5("=", "Exp", Comma, "Exp", "Do", k),
                         P7("=", "Exp", Comma, "Exp", Comma, "Exp", "Do", k),
                         P5(Comma, "Names", "in", "Exps", "Do", k), P3("in", "Exps", "Do", k)}
  PROVE  \E E : Couple(Run(ForKind(x), s), Cons(x, t), E)
<1>1. List(s) /\ List(k)
  BY Unfold
<1>2. CASE Cons(x, t) = P5("=", "Exp", Comma, "Exp", "Do", k)
  <2>1. x = "="
    BY <1>1, <1>2, SameFirst, ConsIsList
  <2>2. Run(ForKind(x), s) = P8("skip", "Expression", Comma, "Expression", "ForStep", "do",
          "Block", "end", s)
    BY <1>1, <2>1, ForKindIs
  <2>3. Couple(P3("do", "Block", "end", s), Cons("Do", k), {"do"})
    BY <1>1, PushJoint, Pristine, ConsIsList
  <2>4. Couple(P4("ForStep", "do", "Block", "end", s), Cons("Do", k), {Comma} \cup {"do"})
    BY <1>1, <2>3, PushForStep, Nexts, ConsIsList
  <2>5. Couple(P5("Expression", "ForStep", "do", "Block", "end", s), P2("Exp", "Do", k), ExpFirst)
    <3>1. Clear({Comma} \cup {"do"}, ExpNext)
      BY Nexts DEF Clear
    <3>2. ExpAt(P2("Exp", "Do", k), Cons("Do", k)) /\ List(P2("Exp", "Do", k))
      BY <1>1, Pristine, ConsIsList
    <3> QED  BY <2>4, <3>1, <3>2, PushExpression
  <2>6. Couple(P6(Comma, "Expression", "ForStep", "do", "Block", "end", s), P3(Comma, "Exp",
          "Do", k), {Comma})
    BY <1>1, <2>3, <2>4, <2>5, ConsIsList, FoldTakes, TokensAre, NotTheEnd
  <2>7. Couple(P7("Expression", Comma, "Expression", "ForStep", "do", "Block", "end", s),
          P4("Exp", Comma, "Exp", "Do", k), ExpFirst)
    BY <1>1, <2>3, <2>4, <2>5, <2>6, PushExpression, Pristine, Nexts, ConsIsList
  <2>8. Couple(P8("skip", "Expression", Comma, "Expression", "ForStep", "do", "Block", "end",
          s), P5("=", "Exp", Comma, "Exp", "Do", k), {"="})
    BY <1>1, <2>3, <2>4, <2>5, <2>6, <2>7, ConsIsList, FoldTakes, TokensAre
  <2> QED  BY <1>2, <2>2, <2>8
<1>3. CASE Cons(x, t) = P7("=", "Exp", Comma, "Exp", Comma, "Exp", "Do", k)
  <2>1. x = "="
    BY <1>1, <1>3, SameFirst, ConsIsList
  <2>2. Run(ForKind(x), s) = P8("skip", "Expression", Comma, "Expression", "ForStep", "do",
          "Block", "end", s)
    BY <1>1, <2>1, ForKindIs
  <2>3. Couple(P3("do", "Block", "end", s), Cons("Do", k), {"do"})
    BY <1>1, PushJoint, Pristine, ConsIsList
  <2>4. Couple(P4("ForStep", "do", "Block", "end", s), P3(Comma, "Exp", "Do", k),
          {Comma} \cup {"do"})
    BY <1>1, <2>3, PushForStep, Nexts, ConsIsList
  <2>5. Couple(P5("Expression", "ForStep", "do", "Block", "end", s), P4("Exp", Comma, "Exp",
          "Do", k), ExpFirst)
    BY <1>1, <2>3, <2>4, PushExpression, Pristine, Follows, ConsIsList
  <2>6. Couple(P6(Comma, "Expression", "ForStep", "do", "Block", "end", s), P5(Comma, "Exp",
          Comma, "Exp", "Do", k), {Comma})
    BY <1>1, <2>3, <2>4, <2>5, ConsIsList, FoldTakes, TokensAre, NotTheEnd
  <2>7. Couple(P7("Expression", Comma, "Expression", "ForStep", "do", "Block", "end", s),
          P6("Exp", Comma, "Exp", Comma, "Exp", "Do", k), ExpFirst)
    BY <1>1, <2>3, <2>4, <2>5, <2>6, PushExpression, Pristine, Nexts, ConsIsList
  <2>8. Couple(P8("skip", "Expression", Comma, "Expression", "ForStep", "do", "Block", "end",
          s), P7("=", "Exp", Comma, "Exp", Comma, "Exp", "Do", k), {"="})
    BY <1>1, <2>3, <2>4, <2>5, <2>6, <2>7, ConsIsList, FoldTakes, TokensAre
  <2> QED  BY <1>3, <2>2, <2>8
<1>4. CASE Cons(x, t) = P5(Comma, "Names", "in", "Exps", "Do", k)
  <2>1. x = Comma
    BY <1>1, <1>4, SameFirst, ConsIsList
  <2>2. Run(ForKind(x), s) = P6("MoreNames", "in", "ExpressionList", "do", "Block", "end", s)
    BY <1>1, <2>1, ForKindIs, Distinct
  <2>3. Couple(P3("do", "Block", "end", s), Cons("Do", k), {"do"})
    BY <1>1, PushJoint, Pristine, ConsIsList
  <2>4. Couple(P4("ExpressionList", "do", "Block", "end", s), P2("Exps", "Do", k), ExpFirst)
    BY <1>1, <2>3, PushExpressionList, Pristine, Nexts, ConsIsList
  <2>5. Couple(P5("in", "ExpressionList", "do", "Block", "end", s), P3("in", "Exps", "Do", k),
          {"in"})
    BY <1>1, <2>3, <2>4, ConsIsList, FoldTakes, TokensAre
  <2>6. Couple(P6("MoreNames", "in", "ExpressionList", "do", "Block", "end", s), P5(Comma,
          "Names", "in", "Exps", "Do", k), {Comma} \cup {"in"})
    BY <1>1, <2>3, <2>4, <2>5, PushMoreNames, Distinct, ConsIsList
  <2> QED  BY <1>4, <2>2, <2>6
<1>5. CASE Cons(x, t) = P3("in", "Exps", "Do", k)
  <2>1. x = "in"
    BY <1>1, <1>5, SameFirst, ConsIsList
  <2>2. Run(ForKind(x), s) = P6("MoreNames", "in", "ExpressionList", "do", "Block", "end", s)
    BY <1>1, <2>1, ForKindIs
  <2>3. Couple(P3("do", "Block", "end", s), Cons("Do", k), {"do"})
    BY <1>1, PushJoint, Pristine, ConsIsList
  <2>4. Couple(P4("ExpressionList", "do", "Block", "end", s), P2("Exps", "Do", k), ExpFirst)
    BY <1>1, <2>3, PushExpressionList, Pristine, Nexts, ConsIsList
  <2>5. Couple(P5("in", "ExpressionList", "do", "Block", "end", s), P3("in", "Exps", "Do", k),
          {"in"})
    BY <1>1, <2>3, <2>4, ConsIsList, FoldTakes, TokensAre
  <2>6. Couple(P6("MoreNames", "in", "ExpressionList", "do", "Block", "end", s), P3("in",
          "Exps", "Do", k), {Comma} \cup {"in"})
    BY <1>1, <2>3, <2>4, <2>5, PushMoreNames, Distinct, ConsIsList
  <2> QED  BY <1>5, <2>2, <2>6
<1> QED  BY <1>2, <1>3, <1>4, <1>5

LEMMA CallForStep ==
  ASSUME NEW s, NEW k, NEW G, Couple(s, k, G), NEW x \in Token, NEW t, List(t),
         Clear(G, ListNext), Cons(x, t) \in {k, P2(Comma, "Exp", k)}
  PROVE  \E E : Couple(Run(ForStep(x), s), Cons(x, t), E)
<1>1. List(s) /\ List(k)
  BY Unfold
<1>2. CASE Cons(x, t) = k
  <2>1. x \in G
    BY <1>2, HeadInF
  <2>2. Run(ForStep(x), s) = s
    BY <1>1, <2>1, ForStepIs, Nexts
  <2> QED  BY <1>2, <2>2
<1>3. CASE Cons(x, t) = P2(Comma, "Exp", k)
  <2>1. x = Comma
    BY <1>1, <1>3, SameFirst, ConsIsList
  <2>2. Run(ForStep(x), s) = P2("skip", "Expression", s)
    BY <1>1, <2>1, ForStepIs
  <2>3. Couple(P2("skip", "Expression", s), P2(Comma, "Exp", k), {Comma})
    BY <1>1, PushExpression, Pristine, Nexts, NotTheEnd, ConsIsList, FoldTakes, TokensAre
  <2> QED  BY <1>3, <2>2, <2>3
<1> QED  BY <1>2, <1>3

LEMMA CallReturnValues ==
  ASSUME NEW s, NEW k, NEW G, Couple(s, k, G), NEW x \in Token, NEW t, List(t),
         G \subseteq AfterReturn, ValuesAt(Cons(x, t), k)
  PROVE  \E E : Couple(Run(ReturnValues(x), s), Cons(x, t), E)
<1>1. List(s) /\ List(k)
  BY Unfold
<1>2. CASE Cons(x, t) = k
  <2>1. x \in G
    BY <1>2, HeadInF
  <2>2. Run(ReturnValues(x), s) = s
    BY <1>1, <2>1, ReturnValuesIs
  <2> QED  BY <1>2, <2>2
<1>3. CASE ExpsAt(Cons(x, t), k)
  <2>1. x \in ExpFirst
    BY <1>1, <1>3, HeadExps
  <2>2. x \notin AfterReturn
    BY <2>1, Distinct DEF ExpFirst, AfterReturn, BlockEnd
  <2>3. Couple(Cons("ExpressionList", s), Cons(x, t), ExpFirst)
    BY <1>1, <1>3, PushExpressionList, Follows, ConsIsList
  <2> QED  BY <1>1, <2>2, <2>3, ReturnValuesIs
<1>4. Cons(x, t) # Cons("Values", k)
  BY <1>1, SameFirst, ConsIsList, NonterminalsAreNoTokens
<1> QED  BY <1>2, <1>3, <1>4 DEF ValuesAt

LEMMA CallLocalKind ==
  ASSUME NEW s, NEW k, NEW G, Couple(s, k, G), NEW x \in Token, NEW t, List(t),
         G \subseteq AfterStat,
         Cons(x, t) = P3("function", "name", "Body", k) \/ NamesAt(Cons(x, t), Cons("Init", k))
  PROVE  \E E : Couple(Run(LocalKind(x), s), Cons(x, t), E)
<1>1. List(s) /\ List(k)
  BY Unfold
<1>2. CASE Cons(x, t) = P3("function", "name", "Body", k)
  <2>1. x = "function"
    BY <1>1, <1>2, SameFirst, ConsIsList
  <2>2. Run(LocalKind(x), s) = Cons("FunctionStatement", s)
    BY <1>1, <2>1, LocalKindIs
  <2>3. Couple(Cons("FunctionStatement", s), P3("function", "name", "Body", k), {"function"})
    BY <1>1, PushFunctionStatement, ConsIsList
  <2> QED  BY <1>2, <2>2, <2>3
<1>3. CASE NamesAt(Cons(x, t), Cons("Init", k))
  <2>1. x = "name"
    BY <1>1, <1>3, HeadNames, ConsIsList
  <2>2. Run(LocalKind(x), s) = P3("name", "MoreNames", "LocalValues", s)
    BY <1>1, <2>1, LocalKindIs
  <2>3. Couple(Cons("LocalValues", s), Cons("Init", k), {"="} \cup G)
    BY <1>1, PushLocalValues, Pristine, ConsIsList
  <2>4. Couple(P3("name", "MoreNames", "LocalValues", s), Cons(x, t), {"name"})
    BY <1>1, <1>3, <2>3, PushJoint, Follows, Distinct, ConsIsList
  <2> QED  BY <2>2, <2>4
<1> QED  BY <1>2, <1>3

LEMMA CallFunctionStatement ==
  ASSUME NEW s, NEW k, NEW G, Couple(s, k, G), NEW x \in Token, NEW t, List(t),
         Cons(x, t) \in {P4("function", "name", "Path", "Body", k), P3("function", "name",
             "Body", k)}
  PROVE  \E E : Couple(Run(FunctionStatement(x), s), Cons(x, t), E)
<1>1. List(s) /\ List(k)
  BY Unfold
<1>2. CASE Cons(x, t) = P4("function", "name", "Path", "Body", k)
  <2>1. x = "function"
    BY <1>1, <1>2, SameFirst, ConsIsList
  <2>2. Run(FunctionStatement(x), s) = P4("skip", "name", "NameTail", "FunctionBody", s)
    BY <1>1, <2>1, ExpressionIs
  <2>3. Couple(Cons("FunctionBody", s), Cons("Body", k), {"("})
    BY <1>1, PushFunctionBody, Pristine, ConsIsList
  <2>4. Couple(P2("NameTail", "FunctionBody", s), P2("Path", "Body", k), {".", ":"} \cup {"("})
    BY <1>1, <2>3, PushNameTail, Pristine, ConsIsList DEF Clear
  <2>5. Couple(P4("skip", "name", "NameTail", "FunctionBody", s), P4("function", "name", "Path",
          "Body", k), {"function"})
    BY <1>1, <2>3, <2>4, ConsIsList, FoldTakes, TokensAre
  <2> QED  BY <1>2, <2>2, <2>5
<1>3. CASE Cons(x, t) = P3("function", "name", "Body", k)
  <2>1. x = "function"
    BY <1>1, <1>3, SameFirst, ConsIsList
  <2>2. Run(FunctionStatement(x), s) = P4("skip", "name", "NameTail", "FunctionBody", s)
    BY <1>1, <2>1, ExpressionIs
  <2>3. Couple(Cons("FunctionBody", s), Cons("Body", k), {"("})
    BY <1>1, PushFunctionBody, Pristine, ConsIsList
  <2>4. Couple(P2("NameTail", "FunctionBody", s), Cons("Body", k), {".", ":"} \cup {"("})
    BY <1>1, <2>3, PushNameTail, Pristine, ConsIsList DEF Clear
  <2>5. Couple(P4("skip", "name", "NameTail", "FunctionBody", s), P3("function", "name", "Body",
          k), {"function"})
    BY <1>1, <2>3, <2>4, ConsIsList, FoldTakes, TokensAre
  <2> QED  BY <1>3, <2>2, <2>5
<1> QED  BY <1>2, <1>3

LEMMA CallNameTail ==
  ASSUME NEW s, NEW k, NEW G, Couple(s, k, G), NEW x \in Token, NEW t, List(t),
         Clear(G, {".", ":"}), PathAt(Cons(x, t), k)
  PROVE  \E E : Couple(Run(NameTail(x), s), Cons(x, t), E)
<1>1. List(s) /\ List(k)
  BY Unfold
<1>2. CASE Cons(x, t) = k
  <2>1. x \in G
    BY <1>2, HeadInF
  <2>2. Run(NameTail(x), s) = s
    BY <1>1, <2>1, NameTailIs DEF Clear
  <2> QED  BY <1>2, <2>2
<1>3. CASE Cons(x, t) = P3(".", "name", "Path", k)
  <2>1. x = "."
    BY <1>1, <1>3, SameFirst, ConsIsList
  <2>2. Run(NameTail(x), s) = P3("skip", "name", "NameTail", s)
    BY <1>1, <2>1, NameTailIs
  <2>3. Couple(P3("skip", "name", "NameTail", s), P3(".", "name", "Path", k), {"."})
    BY <1>1, ConsIsList, FoldTakes, TokensAre, PushNameTail, Pristine
  <2> QED  BY <1>3, <2>2, <2>3
<1>4. CASE Cons(x, t) = P2(":", "name", k)
  <2>1. x = ":"
    BY <1>1, <1>4, SameFirst, ConsIsList
  <2>2. Run(NameTail(x), s) = P2("skip", "name", s)
    BY <1>1, <2>1, NameTailIs
  <2>3. Couple(P2("skip", "name", s), P2(":", "name", k), {":"})
    BY <1>1, ConsIsList, FoldTakes, TokensAre
  <2> QED  BY <1>4, <2>2, <2>3
<1>5. Cons(x, t) # Cons("Path", k)
  BY <1>1, SameFirst, ConsIsList, NonterminalsAreNoTokens
<1> QED  BY <1>2, <1>3, <1>4, <1>5 DEF PathAt

LEMMA CallFunctionBody ==
  ASSUME NEW s, NEW k, NEW G, Couple(s, k, G), NEW x \in Token, NEW t, List(t),
         BodyAt(Cons(x, t), k)
  PROVE  \E E : Couple(Run(FunctionBody(x), s), Cons(x, t), E)
<1>1. List(s) /\ List(k)
  BY Unfold
<1>2. CASE Cons(x, t) = P4("(", "Params", ")", "Inner", k)
  <2>1. x = "("
    BY <1>1, <1>2, SameFirst, ConsIsList
  <2>2. Run(FunctionBody(x), s) = P5("(", "Parameters", ")", "Block", "end", s)
    BY <1>1, <2>1, ExpressionIs
  <2>3. Couple(P2("Block", "end", s), Cons("Inner", k), ChunkFirst \cup {"end"})
    BY <1>1, PushJoint, Pristine, ConsIsList
  <2>4. Couple(P3(")", "Block", "end", s), P2(")", "Inner", k), {")"})
    BY <1>1, <2>3, ConsIsList, FoldTakes, TokensAre
  <2>5. Couple(P4("Parameters", ")", "Block", "end", s), P3("Params", ")", "Inner", k), {"...",
          "name"} \cup {")"})
    BY <1>1, <2>3, <2>4, PushParameters, Pristine, ConsIsList
  <2>6. Couple(P5("(", "Parameters", ")", "Block", "end", s), P4("(", "Params", ")", "Inner",
          k), {"("})
    BY <1>1, <2>3, <2>4, <2>5, ConsIsList, FoldTakes, TokensAre
  <2> QED  BY <1>2, <2>2, <2>6
<1>3. Cons(x, t) # Cons("Body", k)
  BY <1>1, SameFirst, ConsIsList, NonterminalsAreNoTokens
<1> QED  BY <1>2, <1>3 DEF BodyAt

LEMMA CallParameters ==
  ASSUME NEW s, NEW k, NEW G, Couple(s, k, G), NEW x \in Token, NEW t, List(t),
         G \subseteq {")"}, ParamsAt(Cons(x, t), k)
  PROVE  \E E : Couple(Run(Parameters(x), s), Cons(x, t), E)
<1>1. List(s) /\ List(k)
  BY Unfold
<1>2. CASE Cons(x, t) = k
  <2>1. x \in G
    BY <1>2, HeadInF
  <2>2. Run(Parameters(x), s) = s
    BY <1>1, <2>1, ParametersIs
  <2> QED  BY <1>2, <2>2
<1>3. CASE Cons(x, t) = Cons("...", k)
  <2>1. x = "..."
    BY <1>1, <1>3, SameFirst, ConsIsList
  <2>2. Run(Parameters(x), s) = Cons("Parameter", s)
    BY <1>1, <2>1, ParametersIs
  <2>3. Couple(Cons("Parameter", s), Cons("...", k), {"...", "name"})
    BY <1>1, PushParameter, Distinct, ConsIsList
  <2> QED  BY <1>3, <2>2, <2>3
<1>4. CASE Cons(x, t) = P2("name", "More", k)
  <2>1. x = "name"
    BY <1>1, <1>4, SameFirst, ConsIsList
  <2>2. Run(Parameters(x), s) = Cons("Parameter", s)
    BY <1>1, <2>1, ParametersIs
  <2>3. Couple(Cons("Parameter", s), P2("name", "More", k), {"...", "name"})
    BY <1>1, PushParameter, Distinct, ConsIsList
  <2> QED  BY <1>4, <2>2, <2>3
<1>5. Cons(x, t) # Cons("Params", k)
  BY <1>1, SameFirst, ConsIsList, NonterminalsAreNoTokens
<1> QED  BY <1>2, <1>3, <1>4, <1>5 DEF ParamsAt

LEMMA CallParameter ==
  ASSUME NEW s, NEW k, NEW G, Couple(s, k, G), NEW x \in Token, NEW t, List(t),
         Comma \notin G, Cons(x, t) \in {Cons("...", k), P2("name", "More", k)}
  PROVE  \E E : Couple(Run(Parameter(x), s), Cons(x, t), E)
<1>1. List(s) /\ List(k)
  BY Unfold
<1>2. CASE Cons(x, t) = Cons("...", k)
  <2>1. x = "..."
    BY <1>1, <1>2, SameFirst, ConsIsList
  <2>2. Run(Parameter(x), s) = Cons("skip", s)
    BY <1>1, <2>1, ParameterIs
  <2>3. Couple(Cons("skip", s), Cons("...", k), {"..."})
    BY <1>1, ConsIsList, FoldTakes, TokensAre
  <2> QED  BY <1>2, <2>2, <2>3
<1>3. CASE Cons(x, t) = P2("name", "More", k)
  <2>1. x = "name"
    BY <1>1, <1>3, SameFirst, ConsIsList
  <2>2. Run(Parameter(x), s) = P2("name", "MoreParameters", s)
    BY <1>1, <2>1, ParameterIs
  <2>3. Couple(P2("name", "MoreParameters", s), P2("name", "More", k), {"name"})
    BY <1>1, ConsIsList, FoldTakes, TokensAre, PushMoreParameters, Pristine
  <2> QED  BY <1>3, <2>2, <2>3
<1> QED  BY <1>2, <1>3

LEMMA CallMoreParameters ==
  ASSUME NEW s, NEW k, NEW G, Couple(s, k, G), NEW x \in Token, NEW t, List(t),
         Comma \notin G, MoreAt(Cons(x, t), k)
  PROVE  \E E : Couple(Run(MoreParameters(x), s), Cons(x, t), E)
<1>1. List(s) /\ List(k)
  BY Unfold
<1>2. CASE Cons(x, t) = k
  <2>1. x \in G
    BY <1>2, HeadInF
  <2>2. Run(MoreParameters(x), s) = s
    BY <1>1, <2>1, MoreParametersIs
  <2> QED  BY <1>2, <2>2
<1>3. CASE Cons(x, t) = P2(Comma, "...", k)
  <2>1. x = Comma
    BY <1>1, <1>3, SameFirst, ConsIsList
  <2>2. Run(MoreParameters(x), s) = P2("skip", "Parameter", s)
    BY <1>1, <2>1, MoreParametersIs
  <2>3. Couple(P2("skip", "Parameter", s), P2(Comma, "...", k), {Comma})
    BY <1>1, ConsIsList, FoldTakes, TokensAre, PushParameter, NotTheEnd
  <2> QED  BY <1>3, <2>2, <2>3
<1>4. CASE Cons(x, t) = P3(Comma, "name", "More", k)
  <2>1. x = Comma
    BY <1>1, <1>4, SameFirst, ConsIsList
  <2>2. Run(MoreParameters(x), s) = P2("skip", "Parameter", s)
    BY <1>1, <2>1, MoreParametersIs
  <2>3. Couple(P2("skip", "Parameter", s), P3(Comma, "name", "More", k), {Comma})
    BY <1>1, ConsIsList, FoldTakes, TokensAre, PushParameter, NotTheEnd
  <2> QED  BY <1>4, <2>2, <2>3
<1>5. Cons(x, t) # Cons("More", k)
  BY <1>1, SameFirst, ConsIsList, NonterminalsAreNoTokens
<1> QED  BY <1>2, <1>3, <1>4, <1>5 DEF MoreAt

LEMMA CallMoreNames ==
  ASSUME NEW s, NEW k, NEW G, Couple(s, k, G), NEW x \in Token, NEW t, List(t),
         Comma \notin G, Cons(x, t) \in {k, P2(Comma, "Names", k)}
  PROVE  \E E : Couple(Run(MoreNames(x), s), Cons(x, t), E)
<1>1. List(s) /\ List(k)
  BY Unfold
<1>2. CASE Cons(x, t) = k
  <2>1. x \in G
    BY <1>2, HeadInF
  <2>2. Run(MoreNames(x), s) = s
    BY <1>1, <2>1, MoreNamesIs
  <2> QED  BY <1>2, <2>2
<1>3. CASE Cons(x, t) = P2(Comma, "Names", k)
  <2>1. x = Comma
    BY <1>1, <1>3, SameFirst, ConsIsList
  <2>2. Run(MoreNames(x), s) = P3("skip", "name", "MoreNames", s)
    BY <1>1, <2>1, MoreNamesIs
  <2>3. Couple(P3("skip", "name", "MoreNames", s), P2(Comma, "Names", k), {Comma})
    BY <1>1, ConsIsList, FoldTakes, TokensAre, PushJoint, Pristine, NotTheEnd
  <2> QED  BY <1>3, <2>2, <2>3
<1> QED  BY <1>2, <1>3

LEMMA CallExpressionList ==
  ASSUME NEW s, NEW k, NEW G, Couple(s, k, G), NEW x \in Token, NEW t, List(t),
         Clear(G, ListNext), ExpsAt(Cons(x, t), k)
  PROVE  \E E : Couple(Run(ExpressionList(x), s), Cons(x, t), E)
<1>1. List(s) /\ List(k)
  BY Unfold
<1>2. Couple(P2("Expression", "MoreExpressions", s), Cons(x, t), ExpFirst)
  BY <1>1, PushJoint, ConsIsList
<1> QED  BY <1>2, <1>1, ExpressionIs

LEMMA CallMoreExpressions ==
  ASSUME NEW s, NEW k, NEW G, Couple(s, k, G), NEW x \in Token, NEW t, List(t),
         Clear(G, ListNext), Cons(x, t) \in {k, P2(Comma, "Exps", k)}
  PROVE  \E E : Couple(Run(MoreExpressions(x), s), Cons(x, t), E)
<1>1. List(s) /\ List(k)
  BY Unfold
<1>2. CASE Cons(x, t) = k
  <2>1. x \in G
    BY <1>2, HeadInF
  <2>2. Run(MoreExpressions(x), s) = s
    BY <1>1, <2>1, MoreExpressionsIs, Nexts
  <2> QED  BY <1>2, <2>2
<1>3. CASE Cons(x, t) = P2(Comma, "Exps", k)
  <2>1. x = Comma
    BY <1>1, <1>3, SameFirst, ConsIsList
  <2>2. Run(MoreExpressions(x), s) = P3("skip", "Expression", "MoreExpressions", s)
    BY <1>1, <2>1, MoreExpressionsIs
  <2>3. Couple(P3("skip", "Expression", "MoreExpressions", s), P2(Comma, "Exps", k), {Comma})
    BY <1>1, ConsIsList, FoldTakes, TokensAre, PushJoint, Pristine, NotTheEnd
  <2> QED  BY <1>3, <2>2, <2>3
<1> QED  BY <1>2, <1>3

LEMMA CallExpression ==
  ASSUME NEW s, NEW k, NEW G, Couple(s, k, G), NEW x \in Token, NEW t, List(t),
         Clear(G, ExpNext), ExpAt(Cons(x, t), k)
  PROVE  \E E : Couple(Run(Expression(x), s), Cons(x, t), E)
<1>1. List(s) /\ List(k)
  BY Unfold
<1>2. Couple(P2("Operand", "Operators", s), Cons(x, t), ExpFirst)
  BY <1>1, PushJoint, ConsIsList
<1> QED  BY <1>2, <1>1, ExpressionIs

LEMMA CallOperators ==
  ASSUME NEW s, NEW k, NEW G, Couple(s, k, G), NEW x \in Token, NEW t, List(t),
         Clear(G, ExpNext), Cons(x, t) = k \/ BinopAt(Cons(x, t), Cons("Exp", k))
  PROVE  \E E : Couple(Run(Operators(x), s), Cons(x, t), E)
<1>1. List(s) /\ List(k)
  BY Unfold
<1>2. CASE Cons(x, t) = k
  <2>1. x \in G
    BY <1>2, HeadInF
  <2>2. Run(Operators(x), s) = s
    BY <1>1, <2>1, OperatorsIs DEF Clear, ExpNext
  <2> QED  BY <1>2, <2>2
<1>3. CASE BinopAt(Cons(x, t), Cons("Exp", k))
  <2>1. x \in Binary /\ Cons(x, t) = P2(x, "Exp", k)
    BY <1>1, <1>3, SameFirst, ConsIsList, NonterminalsAreNoTokens DEF BinopAt
  <2>2. Run(Operators(x), s) = P3("skip", "Operand", "Operators", s)
    BY <1>1, <2>1, OperatorsIs
  <2>3. Couple(P2("Operand", "Operators", s), Cons("Exp", k), ExpFirst)
    BY <1>1, PushJoint, Pristine, ConsIsList
  <2>4. Couple(P3("skip", "Operand", "Operators", s), P2(x, "Exp", k), {x})
    BY <2>1, <2>3, NotTheEnd, FoldTakes
  <2> QED  BY <2>1, <2>2, <2>4
<1> QED  BY <1>2, <1>3

LEMMA CallFieldOperators ==
  ASSUME NEW s, NEW k, NEW G, Couple(s, k, G), NEW x \in Token, NEW t, List(t),
         Clear(G, ExpNext), Cons(x, t) = k \/ BinopAt(Cons(x, t), Cons("Exp", k))
  PROVE  \E E : Couple(Run(FieldOperators(x), s), Cons(x, t), E)
<1>1. List(s) /\ List(k)
  BY Unfold
<1>2. CASE Cons(x, t) = k
  <2>1. x \in G
    BY <1>2, HeadInF
  <2>2. Run(FieldOperators(x), s) = s
    BY <1>1, <2>1, FieldOperatorsIs DEF Clear, ExpNext
  <2> QED  BY <1>2, <2>2
<1>3. CASE BinopAt(Cons(x, t), Cons("Exp", k))
  <2>1. x \in Binary /\ Cons(x, t) = P2(x, "Exp", k)
    BY <1>1, <1>3, SameFirst, ConsIsList, NonterminalsAreNoTokens DEF BinopAt
  <2>2. Run(FieldOperators(x), s) = P3("skip", "Operand", "FieldOperators", s)
    BY <1>1, <2>1, FieldOperatorsIs
  <2>3. Couple(P2("Operand", "FieldOperators", s), Cons("Exp", k), ExpFirst)
    BY <1>1, PushJoint, Pristine, ConsIsList
  <2>4. Couple(P3("skip", "Operand", "FieldOperators", s), P2(x, "Exp", k), {x})
    BY <2>1, <2>3, NotTheEnd, FoldTakes
  <2> QED  BY <2>1, <2>2, <2>4
<1> QED  BY <1>2, <1>3

LEMMA CallOperand ==
  ASSUME NEW s, NEW k, NEW G, Couple(s, k, G), NEW x \in Token, NEW t, List(t),
         Clear(G, PowNext), OpdAt(Cons(x, t), k)
  PROVE  \E E : Couple(Run(Operand(x), s), Cons(x, t), E)
<1>1. List(s) /\ List(k)
  BY Unfold
<1>2. ASSUME NEW l \in {k, P2("^", "Opd", k)}, x \notin Unary,
            \/ \E m \in Suffixed(l) : Cons(x, t) = Cons("name", m)
            \/ Cons(x, t) \in {Cons("lit", l), Cons("string", l), Cons("...", l), P2("function",
                 "Body", l),
                               P3(LBrace, "Items", RBrace, l), P4("(", "Exp", ")", "Sfxs", l)}
       PROVE  \E E : Couple(Run(Operand(x), s), Cons(x, t), E)
  <2>1. Couple(Cons("Power", s), l, {"^"} \cup G) /\ Clear({"^"} \cup G, SufFirst)
    BY <1>1, <1>2, PushPower, Nexts, ConsIsList
  <2>2. Couple(P2("Primary", "Power", s), Cons(x, t), ExpFirst)
    BY <1>1, <1>2, <2>1, PushPrimary, ConsIsList
  <2> QED  BY <1>1, <1>2, <2>2, OperandIs
<1>3. CASE Cons(x, t) \in {P2("name", "Sfxs", k), P4("name", "Sfxs", "^", "Opd", k)}
  <2>1. x = "name" /\ x \notin Unary
    BY <1>1, <1>3, SameFirst, ConsIsList DEF Unary
  <2>2. PICK l \in {k, P2("^", "Opd", k)} : Cons(x, t) = P2("name", "Sfxs", l)
    BY <1>3
  <2>3. Cons("Sfxs", l) \in Suffixed(l)
    BY Pristine
  <2> QED  BY <1>2, <2>1, <2>2, <2>3
<1>4. CASE Cons(x, t) \in {Cons("lit", k), Cons("string", k), Cons("...", k),
                        P2("function", "Body", k), P3(LBrace, "Items", RBrace, k),
                        P4("(", "Exp", ")", "Sfxs", k)}
  <2>1. x \notin Unary
    BY <1>1, <1>4, SameFirst, ConsIsList, Distinct DEF Unary
  <2> QED  BY <1>2, <1>4, <2>1
<1>8. CASE Cons(x, t) \in {P3("lit", "^", "Opd", k), P3("string", "^", "Opd", k),
                        P5(LBrace, "Items", RBrace, "^", "Opd", k),
                        P6("(", "Exp", ")", "Sfxs", "^", "Opd", k)}
  <2>1. x \notin Unary
    BY <1>1, <1>8, SameFirst, ConsIsList, Distinct DEF Unary
  <2> QED  BY <1>2, <1>8, <2>1
<1>5. CASE Cons(x, t) = P2("not", "Opd", k)
  <2>1. x = "not"
    BY <1>1, <1>5, SameFirst, ConsIsList
  <2>2. Run(Operand(x), s) = P2("skip", "Operand", s)
    BY <1>1, <2>1, OperandIs
  <2>3. Couple(P2("skip", "Operand", s), P2("not", "Opd", k), {"not"})
    BY <1>1, ConsIsList, FoldTakes, TokensAre, PushOperand, Pristine
  <2> QED  BY <1>5, <2>2, <2>3
<1>6. CASE Cons(x, t) = P2("-", "Opd", k)
  <2>1. x = "-"
    BY <1>1, <1>6, SameFirst, ConsIsList
  <2>2. Run(Operand(x), s) = P2("skip", "Operand", s)
    BY <1>1, <2>1, OperandIs
  <2>3. Couple(P2("skip", "Operand", s), P2("-", "Opd", k), {"-"})
    BY <1>1, ConsIsList, FoldTakes, TokensAre, PushOperand, Pristine
  <2> QED  BY <1>6, <2>2, <2>3
<1>9. CASE Cons(x, t) = P2("~", "Opd", k)
  <2>1. x = "~"
    BY <1>1, <1>9, SameFirst, ConsIsList
  <2>2. Run(Operand(x), s) = P2("skip", "Operand", s)
    BY <1>1, <2>1, OperandIs
  <2>3. Couple(P2("skip", "Operand", s), P2("~", "Opd", k), {"~"})
    BY <1>1, ConsIsList, FoldTakes, TokensAre, PushOperand, Pristine
  <2> QED  BY <1>9, <2>2, <2>3
<1>7. Cons(x, t) # Cons("Opd", k) /\ Cons(x, t) # Cons("Closed", k)
  BY <1>1, SameFirst, ConsIsList, NonterminalsAreNoTokens
<1> QED  BY <1>2, <1>3, <1>4, <1>5, <1>6, <1>7, <1>8, <1>9 DEF OpdAt, ClosedAt

LEMMA CallPower ==
  ASSUME NEW s, NEW k, NEW G, Couple(s, k, G), NEW x \in Token, NEW t, List(t),
         Clear(G, PowNext), Cons(x, t) \in {k, P2("^", "Opd", k)}
  PROVE  \E E : Couple(Run(Power(x), s), Cons(x, t), E)
<1>1. List(s) /\ List(k)
  BY Unfold
<1>2. CASE Cons(x, t) = k
  <2>1. x \in G
    BY <1>2, HeadInF
  <2>2. Run(Power(x), s) = s
    BY <1>1, <2>1, PowerIs DEF Clear, PowNext
  <2> QED  BY <1>2, <2>2
<1>3. CASE Cons(x, t) = P2("^", "Opd", k)
  <2>1. x = "^"
    BY <1>1, <1>3, SameFirst, ConsIsList
  <2>2. Run(Power(x), s) = P2("skip", "Operand", s)
    BY <1>1, <2>1, PowerIs
  <2>3. Couple(P2("skip", "Operand", s), P2("^", "Opd", k), {"^"})
    BY <1>1, ConsIsList, FoldTakes, TokensAre, PushOperand, Pristine
  <2> QED  BY <1>3, <2>2, <2>3
<1> QED  BY <1>2, <1>3

LEMMA CallPrimary ==
  ASSUME NEW s, NEW k, NEW G, Couple(s, k, G), NEW x \in Token, NEW t, List(t),
         Clear(G, SufFirst),
         VarAt(Cons(x, t), k) \/ (\E m \in Suffixed(k) : Cons(x, t) = Cons("name", m)) \/
           Cons(x, t) \in {Cons("lit", k), Cons("string", k), Cons("...", k), P2("function",
               "Body", k),
                           P3(LBrace, "Items", RBrace, k), P4("(", "Exp", ")", "Sfxs", k)}
  PROVE  \E E : Couple(Run(Primary(x), s), Cons(x, t), E)
<1>1. List(s) /\ List(k)
  BY Unfold
<1>2. ASSUME NEW m \in Suffixed(k), Cons(x, t) = Cons("name", m)
       PROVE  \E E : Couple(Run(Primary(x), s), Cons(x, t), E)
  <2>1. x = "name" /\ List(m)
    BY <1>1, <1>2, SameFirst, SfxIsList
  <2>2. Couple(Cons("Suffixes", s), m, SufFirst \cup G)
    BY <1>2, <2>1, PushSuffixes, Pristine
  <2>3. Couple(P2("skip", "Suffixes", s), Cons("name", m), {"name"})
    BY <2>2, FoldTakes, TokensAre
  <2> QED  BY <1>1, <1>2, <2>1, <2>3, PrimaryIs
<1>3. CASE Cons(x, t) = Cons("lit", k)
  <2>1. x = "lit"
    BY <1>1, <1>3, SameFirst, ConsIsList
  <2>2. Run(Primary(x), s) = P2("skip", "Suffixes", s)
    BY <1>1, <2>1, PrimaryIs
  <2>3. Couple(Cons("Suffixes", s), k, SufFirst \cup G)
    BY <1>1, PushSuffixes, Pristine
  <2>4. Couple(P2("skip", "Suffixes", s), Cons("lit", k), {"lit"})
    BY <1>1, <2>3, ConsIsList, FoldTakes, TokensAre
  <2> QED  BY <1>3, <2>2, <2>4
<1>4. CASE Cons(x, t) = Cons("string", k)
  <2>1. x = "string"
    BY <1>1, <1>4, SameFirst, ConsIsList
  <2>2. Run(Primary(x), s) = P2("skip", "Suffixes", s)
    BY <1>1, <2>1, PrimaryIs
  <2>3. Couple(Cons("Suffixes", s), k, SufFirst \cup G)
    BY <1>1, PushSuffixes, Pristine
  <2>4. Couple(P2("skip", "Suffixes", s), Cons("string", k), {"string"})
    BY <1>1, <2>3, ConsIsList, FoldTakes, TokensAre
  <2> QED  BY <1>4, <2>2, <2>4
<1>5. CASE Cons(x, t) = Cons("...", k)
  <2>1. x = "..."
    BY <1>1, <1>5, SameFirst, ConsIsList
  <2>2. Run(Primary(x), s) = P2("skip", "Suffixes", s)
    BY <1>1, <2>1, PrimaryIs
  <2>3. Couple(Cons("Suffixes", s), k, SufFirst \cup G)
    BY <1>1, PushSuffixes, Pristine
  <2>4. Couple(P2("skip", "Suffixes", s), Cons("...", k), {"..."})
    BY <1>1, <2>3, ConsIsList, FoldTakes, TokensAre
  <2> QED  BY <1>5, <2>2, <2>4
<1>6. CASE Cons(x, t) = P2("function", "Body", k)
  <2>1. x = "function"
    BY <1>1, <1>6, SameFirst, ConsIsList
  <2>2. Run(Primary(x), s) = P3("skip", "FunctionBody", "Suffixes", s)
    BY <1>1, <2>1, PrimaryIs
  <2>3. Couple(Cons("Suffixes", s), k, SufFirst \cup G)
    BY <1>1, PushSuffixes, Pristine
  <2>4. Couple(P3("skip", "FunctionBody", "Suffixes", s), P2("function", "Body", k), {"function"})
    BY <1>1, <2>3, ConsIsList, FoldTakes, TokensAre, PushFunctionBody, Pristine
  <2> QED  BY <1>6, <2>2, <2>4
<1>7. CASE Cons(x, t) = P3(LBrace, "Items", RBrace, k)
  <2>1. x = LBrace
    BY <1>1, <1>7, SameFirst, ConsIsList
  <2>2. Run(Primary(x), s) = P2("Table", "Suffixes", s)
    BY <1>1, <2>1, PrimaryIs
  <2>3. Couple(Cons("Suffixes", s), k, SufFirst \cup G)
    BY <1>1, PushSuffixes, Pristine
  <2>4. Couple(P2("Table", "Suffixes", s), P3(LBrace, "Items", RBrace, k), {LBrace})
    BY <1>1, <2>3, PushTable, ConsIsList
  <2> QED  BY <1>7, <2>2, <2>4
<1>8. CASE Cons(x, t) = P4("(", "Exp", ")", "Sfxs", k)
  <2>1. x = "("
    BY <1>1, <1>8, SameFirst, ConsIsList
  <2>2. Run(Primary(x), s) = P4("skip", "Expression", ")", "Suffixes", s)
    BY <1>1, <2>1, PrimaryIs
  <2>3. Couple(P4("skip", "Expression", ")", "Suffixes", s), P4("(", "Exp", ")", "Sfxs", k),
          {"("})
    BY <1>1, ConsIsList, FoldTakes, TokensAre, PushExpression, PushSuffixes, Pristine, Nexts
  <2> QED  BY <1>8, <2>2, <2>3
<1>9. CASE VarAt(Cons(x, t), k)
  <2>1. Cons(x, t) # Cons("Var", k)
    BY <1>1, SameFirst, NonterminalsAreNoTokens
  <2>2. \E m \in Suffixed(k) : Cons(x, t) = Cons("name", m)
    BY <1>9, <2>1 DEF VarAt, Suffixed
  <2> QED  BY <1>2, <2>2
<1> QED  BY <1>2, <1>3, <1>4, <1>5, <1>6, <1>7, <1>8, <1>9

LEMMA CallArguments ==
  ASSUME NEW s, NEW k, NEW G, Couple(s, k, G), NEW x \in Token, NEW t, List(t),
         G \subseteq {")"}, Cons(x, t) = k \/ ExpsAt(Cons(x, t), k)
  PROVE  \E E : Couple(Run(Arguments(x), s), Cons(x, t), E)
<1>1. List(s) /\ List(k)
  BY Unfold
<1>2. CASE Cons(x, t) = k
  <2>1. x \in G
    BY <1>2, HeadInF
  <2>2. Run(Arguments(x), s) = s
    BY <1>1, <2>1, ArgumentsIs
  <2> QED  BY <1>2, <2>2
<1>3. CASE ExpsAt(Cons(x, t), k)
  <2>1. x # ")"
    BY <1>1, <1>3, HeadExps, Distinct DEF ExpFirst
  <2>2. Clear(G, ListNext)
    BY Nexts DEF Clear
  <2>3. Couple(Cons("ExpressionList", s), Cons(x, t), ExpFirst)
    BY <1>1, <1>3, <2>2, PushExpressionList, ConsIsList
  <2> QED  BY <1>1, <2>1, <2>3, ArgumentsIs
<1> QED  BY <1>2, <1>3

LEMMA CallMethodArguments ==
  ASSUME NEW s, NEW k, NEW G, Couple(s, k, G), NEW x \in Token, NEW t, List(t),
         ArgAt(Cons(x, t), k)
  PROVE  \E E : Couple(Run(MethodArguments(x), s), Cons(x, t), E)
<1>1. List(s) /\ List(k)
  BY Unfold
<1>2. CASE Cons(x, t) = P2("(", ")", k)
  <2>1. x = "("
    BY <1>1, <1>2, SameFirst, ConsIsList
  <2>2. Run(MethodArguments(x), s) = P3("skip", "Arguments", ")", s)
    BY <1>1, <2>1, MethodArgumentsIs
  <2>3. Couple(P3("skip", "Arguments", ")", s), P2("(", ")", k), {"("})
    BY <1>1, ConsIsList, FoldTakes, TokensAre, PushArguments
  <2> QED  BY <1>2, <2>2, <2>3
<1>3. CASE Cons(x, t) = P3("(", "Exps", ")", k)
  <2>1. x = "("
    BY <1>1, <1>3, SameFirst, ConsIsList
  <2>2. Run(MethodArguments(x), s) = P3("skip", "Arguments", ")", s)
    BY <1>1, <2>1, MethodArgumentsIs
  <2>3. Couple(P3("skip", "Arguments", ")", s), P3("(", "Exps", ")", k), {"("})
    BY <1>1, ConsIsList, FoldTakes, TokensAre, PushArguments, Pristine
  <2> QED  BY <1>3, <2>2, <2>3
<1>4. CASE Cons(x, t) = Cons("string", k)
  <2>1. x = "string"
    BY <1>1, <1>4, SameFirst, ConsIsList
  <2>2. Run(MethodArguments(x), s) = Cons("skip", s)
    BY <1>1, <2>1, MethodArgumentsIs
  <2>3. Couple(Cons("skip", s), Cons("string", k), {"string"})
    BY <1>1, ConsIsList, FoldTakes, TokensAre
  <2> QED  BY <1>4, <2>2, <2>3
<1>5. CASE Cons(x, t) = P3(LBrace, "Items", RBrace, k)
  <2>1. x = LBrace
    BY <1>1, <1>5, SameFirst, ConsIsList
  <2>2. Run(MethodArguments(x), s) = Cons("Table", s)
    BY <1>1, <2>1, MethodArgumentsIs
  <2>3. Couple(Cons("Table", s), P3(LBrace, "Items", RBrace, k), {LBrace})
    BY <1>1, PushTable, ConsIsList
  <2> QED  BY <1>5, <2>2, <2>3
<1>6. Cons(x, t) # Cons("Arg", k)
  BY <1>1, SameFirst, ConsIsList, NonterminalsAreNoTokens
<1> QED  BY <1>2, <1>3, <1>4, <1>5, <1>6 DEF ArgAt

LEMMA CallTable ==
  ASSUME NEW s, NEW k, NEW G, Couple(s, k, G), NEW x \in Token, NEW t, List(t),
         Cons(x, t) = P3(LBrace, "Items", RBrace, k)
  PROVE  \E E : Couple(Run(Table(x), s), Cons(x, t), E)
<1>1. List(s) /\ List(k)
  BY Unfold
<1>2. CASE Cons(x, t) = P3(LBrace, "Items", RBrace, k)
  <2>1. x = LBrace
    BY <1>1, <1>2, SameFirst, ConsIsList
  <2>2. Run(Table(x), s) = P2(LBrace, "Fields", s)
    BY <1>1, <2>1, ExpressionIs
  <2>3. Couple(P2(LBrace, "Fields", s), P3(LBrace, "Items", RBrace, k), {LBrace})
    BY <1>1, ConsIsList, FoldTakes, TokensAre, PushFields, Pristine, NotTheEnd
  <2> QED  BY <1>2, <2>2, <2>3
<1> QED  BY <1>2

LEMMA CallFields ==
  ASSUME NEW s, NEW k, NEW G, Couple(s, k, G), NEW x \in Token, NEW t, List(t),
         Cons(x, t) = Cons(RBrace, k) \/ ItemsAt(Cons(x, t), Cons(RBrace, k))
  PROVE  \E E : Couple(Run(Fields(x), s), Cons(x, t), E)
<1>1. List(s) /\ List(k)
  BY Unfold
<1>2. CASE Cons(x, t) = Cons(RBrace, k)
  <2>1. x = RBrace
    BY <1>1, <1>2, SameFirst, ConsIsList
  <2>2. Run(Fields(x), s) = Cons(RBrace, s)
    BY <1>1, <2>1, FieldsIs
  <2>3. Couple(Cons(RBrace, s), Cons(RBrace, k), {RBrace})
    BY <1>1, ConsIsList, FoldTakes, TokensAre, NotTheEnd
  <2> QED  BY <1>2, <2>2, <2>3
<1>3. ASSUME NEW m \in {Cons(RBrace, k), P3(Comma, "Items", RBrace, k), P3(Semi, "Items",
               RBrace, k)},
            ItemAt(Cons(x, t), m)
       PROVE  \E E : Couple(Run(Fields(x), s), Cons(x, t), E)
  <2>1. x \in ItemFirst
    BY <1>1, <1>3, HeadItem, ConsIsList
  <2>2. Couple(P2("FieldSeparator", "Fields", s), Cons(RBrace, k), {RBrace})
    BY <1>1, PushFields, PushFieldSeparator, Distinct DEF Clear
  <2>3. /\ Couple(P2("FieldSeparator", "Fields", s), P3(Comma, "Items", RBrace, k), {Comma, Semi})
        /\ Couple(P2("FieldSeparator", "Fields", s), P3(Semi, "Items", RBrace, k), {Comma, Semi})
    BY <1>1, PushFields, PushFieldSeparator, Pristine, ConsIsList
  <2>4. {RBrace} \subseteq AfterField /\ {Comma, Semi} \subseteq AfterField
    BY DEF AfterField
  <2>5. Couple(P3("Field", "FieldSeparator", "Fields", s), Cons(x, t), ItemFirst)
    BY <1>1, <1>3, <2>2, <2>3, <2>4, PushField, ConsIsList
  <2> QED  BY <1>1, <2>1, <2>5, FieldsIs
<1>4. Cons(x, t) # P2("Items", RBrace, k)
  BY <1>1, SameFirst, ConsIsList, NonterminalsAreNoTokens
<1> QED  BY <1>2, <1>3, <1>4 DEF ItemsAt

LEMMA CallFieldSeparator ==
  ASSUME NEW s, NEW k, NEW G, Couple(s, k, G), NEW x \in Token, NEW t, List(t),
         (Cons(x, t) = k /\ Clear(G, {Comma, Semi})) \/ Cons(x, t) \in {Cons(Comma, k),
             Cons(Semi, k)}
  PROVE  \E E : Couple(Run(FieldSeparator(x), s), Cons(x, t), E)
<1>1. List(s) /\ List(k)
  BY Unfold
<1>2. CASE Cons(x, t) = k /\ Clear(G, {Comma, Semi})
  <2>1. x \in G
    BY <1>2, HeadInF
  <2>2. Run(FieldSeparator(x), s) = s
    BY <1>1, <1>2, <2>1, FieldSeparatorIs DEF Clear
  <2> QED  BY <1>2, <2>2
<1>3. CASE Cons(x, t) = Cons(Comma, k)
  <2>1. x = Comma
    BY <1>1, <1>3, SameFirst, ConsIsList
  <2>2. Run(FieldSeparator(x), s) = Cons("skip", s)
    BY <1>1, <2>1, FieldSeparatorIs
  <2>3. Couple(Cons("skip", s), Cons(Comma, k), {Comma})
    BY <1>1, ConsIsList, FoldTakes, TokensAre, NotTheEnd
  <2> QED  BY <1>3, <2>2, <2>3
<1>4. CASE Cons(x, t) = Cons(Semi, k)
  <2>1. x = Semi
    BY <1>1, <1>4, SameFirst, ConsIsList
  <2>2. Run(FieldSeparator(x), s) = Cons("skip", s)
    BY <1>1, <2>1, FieldSeparatorIs
  <2>3. Couple(Cons("skip", s), Cons(Semi, k), {Semi})
    BY <1>1, ConsIsList, FoldTakes, TokensAre, NotTheEnd
  <2> QED  BY <1>4, <2>2, <2>3
<1> QED  BY <1>2, <1>3, <1>4

LEMMA CallField ==
  ASSUME NEW s, NEW k, NEW G, Couple(s, k, G), NEW x \in Token, NEW t, List(t),
         G \subseteq AfterField, ItemAt(Cons(x, t), k)
  PROVE  \E E : Couple(Run(Field(x), s), Cons(x, t), E)
<1>1. List(s) /\ List(k)
  BY Unfold
<1>2. CASE Cons(x, t) = P5("[", "Exp", "]", "=", "Exp", k)
  <2>1. x = "["
    BY <1>1, <1>2, SameFirst, ConsIsList
  <2>2. Run(Field(x), s) = P5("skip", "Expression", "]", "=", "Expression", s)
    BY <1>1, <2>1, FieldIs
  <2>3. Couple(P2("=", "Expression", s), P2("=", "Exp", k), {"="})
    BY <1>1, ConsIsList, FoldTakes, TokensAre, PushExpression, Pristine, Follows
  <2>4. Couple(P3("]", "=", "Expression", s), P3("]", "=", "Exp", k), {"]"})
    BY <1>1, <2>3, ConsIsList, FoldTakes, TokensAre
  <2>5. Couple(P4("Expression", "]", "=", "Expression", s), P4("Exp", "]", "=", "Exp", k),
          ExpFirst)
    BY <1>1, <2>3, <2>4, PushExpression, Pristine, Nexts, ConsIsList
  <2>6. Couple(P5("skip", "Expression", "]", "=", "Expression", s), P5("[", "Exp", "]", "=",
          "Exp", k), {"["})
    BY <1>1, <2>3, <2>4, <2>5, ConsIsList, FoldTakes, TokensAre
  <2> QED  BY <1>2, <2>2, <2>6
<1>3. CASE Cons(x, t) = P3("name", "=", "Exp", k)
  <2>1. x = "name"
    BY <1>1, <1>3, SameFirst, ConsIsList
  <2>2. Run(Field(x), s) = P2("skip", "NamedField", s)
    BY <1>1, <2>1, FieldIs
  <2>3. Couple(P2("skip", "NamedField", s), P3("name", "=", "Exp", k), {"name"})
    BY <1>1, ConsIsList, FoldTakes, TokensAre, PushNamedField
  <2> QED  BY <1>3, <2>2, <2>3
<1>4. CASE Cons(x, t) = P2("name", "Sfxs", k)
  <2>1. x = "name"
    BY <1>1, <1>4, SameFirst, ConsIsList
  <2>2. Run(Field(x), s) = P2("skip", "NamedField", s)
    BY <1>1, <2>1, FieldIs
  <2>3. Couple(P2("skip", "NamedField", s), P2("name", "Sfxs", k), {"name"})
    BY <1>1, ConsIsList, FoldTakes, TokensAre, PushNamedField, Pristine
  <2> QED  BY <1>4, <2>2, <2>3
<1>5. CASE Cons(x, t) = P3("name", "Binop", "Exp", k)
  <2>1. x = "name"
    BY <1>1, <1>5, SameFirst, ConsIsList
  <2>2. Run(Field(x), s) = P2("skip", "NamedField", s)
    BY <1>1, <2>1, FieldIs
  <2>3. Couple(P2("skip", "NamedField", s), P3("name", "Binop", "Exp", k), {"name"})
    BY <1>1, ConsIsList, FoldTakes, TokensAre, PushNamedField, Pristine
  <2> QED  BY <1>5, <2>2, <2>3
<1>6. ASSUME NEW m \in {k, P2("Binop", "Exp", k)}, ClosedAt(Cons(x, t), m)
       PROVE  \E E : Couple(Run(Field(x), s), Cons(x, t), E)
  <2>1. x \notin {"[", "name"}
    BY <1>1, <1>6, HeadClosed, ConsIsList, Distinct DEF ExpFirst
  <2>2. ExpAt(Cons(x, t), k)
    BY <1>6 DEF ExpAt, OpdAt
  <2>3. Couple(Cons("Expression", s), Cons(x, t), ExpFirst)
    BY <1>1, <2>2, PushExpression, Follows, ConsIsList
  <2> QED  BY <1>1, <2>1, <2>3, FieldIs
<1>7. Cons(x, t) # Cons("Item", k)
  BY <1>1, SameFirst, ConsIsList, NonterminalsAreNoTokens
<1> QED  BY <1>2, <1>3, <1>4, <1>5, <1>6, <1>7 DEF ItemAt

LEMMA CallNamedField ==
  ASSUME NEW s, NEW k, NEW G, Couple(s, k, G), NEW x \in Token, NEW t, List(t),
         G \subseteq AfterField,
         Cons(x, t) = P2("=", "Exp", k) \/ SfxsAt(Cons(x, t), k) \/ BinopAt(Cons(x, t),
             Cons("Exp", k))
  PROVE  \E E : Couple(Run(NamedField(x), s), Cons(x, t), E)
<1>1. List(s) /\ List(k)
  BY Unfold
<1>2. CASE Cons(x, t) = P2("=", "Exp", k)
  <2>1. x = "="
    BY <1>1, <1>2, SameFirst, ConsIsList
  <2>2. Run(NamedField(x), s) = P2("skip", "Expression", s)
    BY <1>1, <2>1, NamedFieldIs
  <2>3. Couple(P2("skip", "Expression", s), P2("=", "Exp", k), {"="})
    BY <1>1, ConsIsList, FoldTakes, TokensAre, PushExpression, Pristine, Follows
  <2> QED  BY <1>2, <2>2, <2>3
<1>3. Clear(G, ExpNext) /\ Clear(Binary \cup G, SufFirst) /\ Clear(G, SufFirst)
  BY Follows DEF Clear
<1>4. CASE SfxsAt(Cons(x, t), k) /\ x \in {".", "[", "(", ":"}
  <2>1. Couple(Cons("Suffixes", s), Cons(x, t), SufFirst \cup G)
    BY <1>1, <1>3, <1>4, PushSuffixes, ConsIsList
  <2> QED  BY <1>1, <1>4, <2>1, NamedFieldIs
<1>5. CASE SfxsAt(Cons(x, t), k) /\ x \notin {".", "[", "(", ":"}
  <2>1. x # "="
    BY <1>1, <1>5, HeadSfxs, HeadInF, Distinct DEF SufFirst, AfterField
  <2>2. Couple(Cons("FieldOperators", s), k, Binary \cup G)
    BY <1>1, <1>3, PushOperators
  <2>3. Couple(P2("Suffixes", "FieldOperators", s), Cons(x, t), SufFirst \cup (Binary \cup G))
    BY <1>1, <1>3, <1>5, <2>2, PushSuffixes, ConsIsList
  <2> QED  BY <1>1, <1>5, <2>1, <2>3, NamedFieldIs
<1>6. CASE BinopAt(Cons(x, t), Cons("Exp", k))
  <2>1. x \notin {"=", ".", "[", "(", ":"}
    BY <1>1, <1>6, HeadBinop, ConsIsList DEF Binary
  <2>2. Couple(Cons("FieldOperators", s), Cons(x, t), Binary \cup G)
    BY <1>1, <1>3, <1>6, PushOperators, ConsIsList
  <2>3. Couple(P2("Suffixes", "FieldOperators", s), Cons(x, t), SufFirst \cup (Binary \cup G))
    BY <1>1, <1>3, <2>2, PushSuffixes, Pristine, ConsIsList
  <2> QED  BY <1>1, <2>1, <2>3, NamedFieldIs
<1> QED  BY <1>2, <1>3, <1>4, <1>5, <1>6

LEMMA CallBlock ==
  ASSUME NEW s, NEW k, NEW G, Couple(s, k, G), NEW x \in Token, NEW t, List(t),
         G \subseteq BlockEnd, Cons(x, t) = k \/ ChunkAt(Cons(x, t), k)
  PROVE  \E E : Couple(Run(Block(x), s), Cons(x, t), E)
<1>1. List(s) /\ List(k)
  BY Unfold
<1>2. CASE Cons(x, t) = k
  <2>1. x \in G
    BY <1>2, HeadInF
  <2>2. Run(Block(x), s) = s
    BY <1>1, <2>1, BlockIs
  <2> QED  BY <1>2, <2>2
<1>3. Couple(Cons("Block", s), k, G) /\ Couple(P2("Semicolon", "Block", s), k, G)
  BY PushBlock, PushSemicolonNone, Follows
<1>4. Couple(P2("Semicolon", "Block", s), Cons(Semi, k), {Semi} \cup G)
  BY <1>1, <1>3, PushBlock, PushSemicolon, Follows, ConsIsList
<1>5. /\ Couple(Cons("Block", s), Cons("Chunk", k), ChunkFirst \cup G)
      /\ Couple(P2("Semicolon", "Block", s), Cons("Chunk", k), ChunkFirst \cup G)
      /\ Couple(P2("Semicolon", "Block", s), P2(Semi, "Chunk", k),
           {Semi} \cup (ChunkFirst \cup G))
  BY <1>1, PushBlock, PushSemicolon, PushSemicolonNone, Pristine, Follows, ConsIsList
<1>6. ASSUME NEW m, Cons(x, t) = P2("return", "Values", m), m \in {k, Cons(Semi, k)}
      PROVE  \E E : Couple(Run(Block(x), s), Cons(x, t), E)
  <2>1. x \in ChunkFirst
    BY <1>1, <1>6, SameFirst, ConsIsList DEF ChunkFirst
  <2>2. Couple(P3("Statement", "Semicolon", "Block", s), Cons(x, t), {"return"})
    BY <1>1, <1>3, <1>4, <1>6, PushStatement, Follows, ConsIsList
  <2> QED  BY <1>1, <2>1, <2>2, BlockIs
<1>7. ASSUME NEW m \in {Cons("Chunk", k), P2(Semi, "Chunk", k)}, StatAt(Cons(x, t), m)
      PROVE  \E E : Couple(Run(Block(x), s), Cons(x, t), E)
  <2>1. x \in ChunkFirst
    BY <1>1, <1>7, HeadStat, ConsIsList DEF ChunkFirst
  <2>2. Couple(P3("Statement", "Semicolon", "Block", s), Cons(x, t), StatFirst)
    BY <1>1, <1>5, <1>7, PushStatement, Follows, ConsIsList
  <2> QED  BY <1>1, <2>1, <2>2, BlockIs
<1>8. Cons(x, t) # Cons("Chunk", k)
  BY <1>1, SameFirst, ConsIsList, NonterminalsAreNoTokens
<1> QED  BY <1>2, <1>3, <1>4, <1>5, <1>6, <1>7, <1>8 DEF ChunkAt

LEMMA CallStatement ==
  ASSUME NEW s, NEW k, NEW G, Couple(s, k, G), NEW x \in Token, NEW t, List(t),
         (StatAt(Cons(x, t), k) /\ G \subseteq AfterStat) \/
           (Cons(x, t) = P2("return", "Values", k) /\ G \subseteq AfterReturn)
  PROVE  \E E : Couple(Run(Statement(x), s), Cons(x, t), E)
<1>1. List(s) /\ List(k)
  BY Unfold
<1>2. G \subseteq AfterStat
  BY Follows
<1>3. ASSUME NEW l \in {k, P3("Targets", "=", "Exps", k)},
            VarAt(Cons(x, t), l) \/ (\E m \in Suffixed(l) : Cons(x, t) = Cons("name", m)), x =
                "name"
       PROVE  \E E : Couple(Run(Statement(x), s), Cons(x, t), E)
  <2>1. Couple(Cons("AssignOrCall", s), l, {Comma, "="} \cup G)
    BY <1>1, <1>3, <1>2, PushAssignOrCall, Pristine, ConsIsList
  <2>2. Couple(P2("Primary", "AssignOrCall", s), Cons(x, t), ExpFirst)
    BY <1>1, <1>3, <1>2, <2>1, PushPrimary, Follows, ConsIsList
  <2> QED  BY <1>1, <1>3, <2>2, StatementIs
<1>4. CASE Cons(x, t) = P3("name", "Sfxs", "Invoke", k)
  <2>1. x = "name" /\ P2("Sfxs", "Invoke", k) \in Suffixed(k)
    BY <1>1, <1>4, SameFirst, ConsIsList DEF Suffixed
  <2> QED  BY <1>3, <1>4, <2>1
<1>5. CASE VarAt(Cons(x, t), P3("Targets", "=", "Exps", k))
  <2>1. x = "name"
    BY <1>1, <1>5, HeadVar, ConsIsList
  <2> QED  BY <1>3, <1>5, <2>1
<1>6. CASE Cons(x, t) = P3("::", "name", "::", k)
  <2>1. x = "::"
    BY <1>1, <1>6, SameFirst, ConsIsList
  <2>2. Run(Statement(x), s) = P3("skip", "name", "::", s)
    BY <1>1, <2>1, StatementIs
  <2>3. Couple(P3("skip", "name", "::", s), P3("::", "name", "::", k), {"::"})
    BY <1>1, ConsIsList, FoldTakes, TokensAre
  <2> QED  BY <1>6, <2>2, <2>3
<1>7. CASE Cons(x, t) = Cons("break", k)
  <2>1. x = "break"
    BY <1>1, <1>7, SameFirst, ConsIsList
  <2>2. Run(Statement(x), s) = Cons("skip", s)
    BY <1>1, <2>1, StatementIs
  <2>3. Couple(Cons("skip", s), Cons("break", k), {"break"})
    BY <1>1, ConsIsList, FoldTakes, TokensAre
  <2> QED  BY <1>7, <2>2, <2>3
<1>8. CASE Cons(x, t) = P2("goto", "name", k)
  <2>1. x = "goto"
    BY <1>1, <1>8, SameFirst, ConsIsList
  <2>2. Run(Statement(x), s) = P2("skip", "name", s)
    BY <1>1, <2>1, StatementIs
  <2>3. Couple(P2("skip", "name", s), P2("goto", "name", k), {"goto"})
    BY <1>1, ConsIsList, FoldTakes, TokensAre
  <2> QED  BY <1>8, <2>2, <2>3
<1>9. CASE Cons(x, t) = P3("while", "Exp", "Do", k)
  <2>1. x = "while"
    BY <1>1, <1>9, SameFirst, ConsIsList
  <2>2. Run(Statement(x), s) = P5("skip", "Expression", "do", "Block", "end", s)
    BY <1>1, <2>1, StatementIs
  <2>3. Couple(P3("do", "Block", "end", s), Cons("Do", k), {"do"})
    BY <1>1, PushJoint, Pristine, ConsIsList
  <2>4. Couple(P4("Expression", "do", "Block", "end", s), P2("Exp", "Do", k), ExpFirst)
    BY <1>1, <2>3, PushExpression, Pristine, Nexts, ConsIsList
  <2>5. Couple(P5("skip", "Expression", "do", "Block", "end", s), P3("while", "Exp", "Do", k),
          {"while"})
    BY <1>1, <2>3, <2>4, ConsIsList, FoldTakes, TokensAre
  <2> QED  BY <1>9, <2>2, <2>5
<1>10. CASE Cons(x, t) = P3("for", "Range", "Do", k)
  <2>1. x = "for"
    BY <1>1, <1>10, SameFirst, ConsIsList
  <2>2. Run(Statement(x), s) = P3("skip", "name", "ForKind", s)
    BY <1>1, <2>1, StatementIs
  <2>3. Couple(P2("name", "ForKind", s), P2("Range", "Do", k), {"name"})
    BY <1>1, PushJoint, Pristine, ConsIsList
  <2>4. Couple(P3("skip", "name", "ForKind", s), P3("for", "Range", "Do", k), {"for"})
    BY <1>1, <2>3, ConsIsList, FoldTakes, TokensAre
  <2> QED  BY <1>10, <2>2, <2>4
<1>11. CASE Cons(x, t) = P4("repeat", "Chunk", "until", "Exp", k)
  <2>1. x = "repeat"
    BY <1>1, <1>11, SameFirst, ConsIsList
  <2>2. Run(Statement(x), s) = P4("skip", "Block", "until", "Expression", s)
    BY <1>1, <2>1, StatementIs
  <2>3. Couple(P2("until", "Expression", s), P2("until", "Exp", k), {"until"})
    BY <1>1, <1>2, PushExpression, Pristine, Follows, ConsIsList, FoldTakes, TokensAre
  <2>4. Couple(P3("Block", "until", "Expression", s), P3("Chunk", "until", "Exp", k),
          ChunkFirst \cup {"until"})
    BY <1>1, <2>3, PushBlock, Pristine, ConsIsList DEF BlockEnd
  <2>5. Couple(P4("skip", "Block", "until", "Expression", s), P4("repeat", "Chunk", "until",
          "Exp", k), {"repeat"})
    BY <1>1, <2>3, <2>4, ConsIsList, FoldTakes, TokensAre
  <2> QED  BY <1>11, <2>2, <2>5
<1>12. CASE Cons(x, t) = P3("if", "Clause", "end", k)
  <2>1. x = "if"
    BY <1>1, <1>12, SameFirst, ConsIsList
  <2>2. Run(Statement(x), s) = P5("skip", "Expression", "then", "Block", "ElseIf", s)
    BY <1>1, <2>1, StatementIs
  <2>3. Couple(P4("Expression", "then", "Block", "ElseIf", s), P2("Clause", "end", k), ExpFirst)
    BY <1>1, PushJoint, Pristine, ConsIsList
  <2>4. Couple(P5("skip", "Expression", "then", "Block", "ElseIf", s), P3("if", "Clause", "end",
          k), {"if"})
    BY <1>1, <2>3, ConsIsList, FoldTakes, TokensAre
  <2> QED  BY <1>12, <2>2, <2>4
<1>13. CASE Cons(x, t) = P4("function", "name", "Path", "Body", k)
  <2>1. x = "function"
    BY <1>1, <1>13, SameFirst, ConsIsList
  <2>2. Run(Statement(x), s) = Cons("FunctionStatement", s)
    BY <1>1, <2>1, StatementIs
  <2>3. Couple(Cons("FunctionStatement", s), P4("function", "name", "Path", "Body", k),
          {"function"})
    BY <1>1, PushFunctionStatement, ConsIsList
  <2> QED  BY <1>13, <2>2, <2>3
<1>14. CASE Cons(x, t) = P4("local", "function", "name", "Body", k)
  <2>1. x = "local"
    BY <1>1, <1>14, SameFirst, ConsIsList
  <2>2. Run(Statement(x), s) = P2("skip", "LocalKind", s)
    BY <1>1, <2>1, StatementIs
  <2>3. Couple(P2("skip", "LocalKind", s), P4("local", "function", "name", "Body", k), {"local"})
    BY <1>1, <1>2, PushLocalKind, ConsIsList, FoldTakes, TokensAre
  <2> QED  BY <1>14, <2>2, <2>3
<1>15. CASE Cons(x, t) = P3("local", "Names", "Init", k)
  <2>1. x = "local"
    BY <1>1, <1>15, SameFirst, ConsIsList
  <2>2. Run(Statement(x), s) = P2("skip", "LocalKind", s)
    BY <1>1, <2>1, StatementIs
  <2>3. Couple(P2("skip", "LocalKind", s), P3("local", "Names", "Init", k), {"local"})
    BY <1>1, <1>2, PushLocalKind, Pristine, ConsIsList, FoldTakes, TokensAre
  <2> QED  BY <1>15, <2>2, <2>3
<1>16. CASE Cons(x, t) = P3("do", "Chunk", "end", k)
  <2>1. x = "do"
    BY <1>1, <1>16, SameFirst, ConsIsList
  <2>2. Run(Statement(x), s) = P3("skip", "Block", "end", s)
    BY <1>1, <2>1, StatementIs
  <2>3. Couple(Cons("end", s), Cons("end", k), {"end"})
    BY <1>1, ConsIsList, FoldTakes, TokensAre
  <2>4. Couple(P2("Block", "end", s), P2("Chunk", "end", k), ChunkFirst \cup {"end"})
    BY <1>1, <2>3, PushBlock, Pristine, ConsIsList DEF BlockEnd
  <2>5. Couple(P3("skip", "Block", "end", s), P3("do", "Chunk", "end", k), {"do"})
    BY <1>1, <2>3, <2>4, ConsIsList, FoldTakes, TokensAre
  <2> QED  BY <1>16, <2>2, <2>5
<1>17. CASE Cons(x, t) = P2("return", "Values", k)
  <2>1. x = "return"
    BY <1>1, <1>17, SameFirst, ConsIsList
  <2>2. Run(Statement(x), s) = P2("skip", "ReturnValues", s)
    BY <1>1, <2>1, StatementIs
  <2>9. ~ StatAt(Cons(x, t), k)
    BY <1>1, <2>1, HeadStat DEF StatFirst
  <2>3. Couple(Cons("ReturnValues", s), Cons("Values", k), ExpFirst \cup G)
    BY <1>1, <1>17, <2>9, PushReturnValues, Pristine, ConsIsList
  <2>4. Couple(P2("skip", "ReturnValues", s), P2("return", "Values", k), {"return"})
    BY <1>1, <2>3, ConsIsList, FoldTakes, TokensAre
  <2> QED  BY <1>17, <2>2, <2>4
<1>18. Cons(x, t) # Cons("Stat", k)
  BY <1>1, SameFirst, ConsIsList, NonterminalsAreNoTokens
<1> QED  BY <1>2, <1>3, <1>4, <1>5, <1>6, <1>7, <1>8, <1>9, <1>10, <1>11, <1>12, <1>13, <1>14,
      <1>15, <1>16, <1>17, <1>18 DEF StatAt

------------------------------------------------------------------------------
(***************************************************************************)
(* A call on top of the stack is one that reads the program alone, or is   *)
(* the first of several that read a symbol of the grammar together; then   *)
(* the token in front tells which part of the symbol it reads.             *)
(***************************************************************************)
First(s, r) ==
  \E u, l, H, E : Couple(u, l, H) /\ (Takes(s, r, E, u, l) \/ \E a : s = Cons(a, u) /\ Reads(a,
      r, E, l, H))

LEMMA FirstTakes ==
  ASSUME NEW u, NEW l, NEW H, Couple(u, l, H), NEW x \in Token, x # "eof"
  PROVE  First(Cons(x, u), Cons(x, l))
BY DEF First, Takes

LEMMA FirstReads ==
  ASSUME NEW u, NEW l, NEW H, Couple(u, l, H), NEW a, NEW r, NEW E, Reads(a, r, E, l, H)
  PROVE  First(Cons(a, u), r)
BY DEF First

LEMMA FirstOfOperand ==
  ASSUME NEW s, NEW k, NEW G, Couple(s, k, G), NEW a \in {"Operators", "FieldOperators"},
           Clear(G, ExpNext),
         NEW x \in Token, NEW t, List(t), ExpAt(Cons(x, t), k)
  PROVE  First(P2("Operand", a, s), Cons(x, t))
<1>1. List(s) /\ List(k)
  BY Unfold
<1>2. Cons(x, t) # Cons("Exp", k)
  BY <1>1, SameFirst, NonterminalsAreNoTokens
<1>3. PICK m \in {k, P2("Binop", "Exp", k)} : OpdAt(Cons(x, t), m)
  BY <1>2 DEF ExpAt
<1>4. Couple(Cons(a, s), m, Binary \cup G)
  BY <1>1, <1>3, PushOperators, Pristine, ConsIsList
<1>5. Reads("Operand", Cons(x, t), ExpFirst, m, Binary \cup G)
  BY <1>3, Nexts DEF Reads, ReadsExpression
<1> QED  BY <1>4, <1>5, FirstReads

LEMMA FirstOfLoop ==
  ASSUME NEW s, NEW k, NEW G, Couple(s, k, G), NEW x \in Token, NEW t, List(t)
  PROVE  /\ DoAt(Cons(x, t), k) => First(P3("do", "Block", "end", s), Cons(x, t))
         /\ RangeAt(Cons(x, t), Cons("Do", k)) => First(P2("name", "ForKind", s), Cons(x, t))
<1>1. List(s) /\ List(k)
  BY Unfold
<1>2. ASSUME DoAt(Cons(x, t), k) PROVE First(P3("do", "Block", "end", s), Cons(x, t))
  <2>1. Cons(x, t) = P3("do", "Chunk", "end", k)
    BY <1>1, <1>2, SameFirst, NonterminalsAreNoTokens DEF DoAt
  <2>2. Couple(Cons("end", s), Cons("end", k), {"end"})
    BY FoldTakes, TokensAre
  <2>3. Couple(P2("Block", "end", s), P2("Chunk", "end", k), ChunkFirst \cup {"end"})
    BY <1>1, <2>2, PushBlock, Pristine, ConsIsList DEF BlockEnd
  <2> QED  BY <2>1, <2>3, FirstTakes, TokensAre
<1>3. ASSUME RangeAt(Cons(x, t), Cons("Do", k)) PROVE First(P2("name", "ForKind", s), Cons(x, t))
  <2>1. PICK r : /\ r \in {P5("=", "Exp", Comma, "Exp", "Do", k), P7("=", "Exp", Comma, "Exp",
                      Comma, "Exp", "Do", k),
                           P5(Comma, "Names", "in", "Exps", "Do", k), P3("in", "Exps", "Do", k)}
                 /\ Cons(x, t) = Cons("name", r)
    <3>1. Cons(x, t) # P2("Range", "Do", k) /\ Cons(x, t) # P4("Names", "in", "Exps", "Do", k)
      BY <1>1, SameFirst, ConsIsList, NonterminalsAreNoTokens
    <3> QED  BY <1>3, <3>1 DEF RangeAt, NamesAt
  <2>2. Couple(Cons("ForKind", s), r, {"=", Comma, "in"})
    BY <1>1, <2>1, PushForKind, ConsIsList
  <2> QED  BY <2>1, <2>2, FirstTakes, TokensAre
<1> QED  BY <1>2, <1>3

LEMMA FirstOfClause ==
  ASSUME NEW s, NEW k, NEW G, Couple(s, k, G), NEW x \in Token, NEW t, List(t), ClauseAt(Cons(x,
           t), Cons("end", k))
  PROVE  First(P4("Expression", "then", "Block", "ElseIf", s), Cons(x, t))
<1>1. List(s) /\ List(k)
  BY Unfold
<1>2. ExpAt(Cons(x, t), P4("then", "Chunk", "Else", "end", k))
  BY <1>1, SameFirst, ConsIsList, NonterminalsAreNoTokens DEF ClauseAt
<1>3. Couple(Cons("ElseIf", s), P2("Else", "end", k), {"else", "elseif", "end"})
  BY <1>1, PushElseIf, Pristine, ConsIsList
<1>4. Couple(P2("Block", "ElseIf", s), P3("Chunk", "Else", "end", k), ChunkFirst \cup {"else",
        "elseif", "end"})
  BY <1>1, <1>3, PushBlock, Pristine, ConsIsList DEF BlockEnd
<1>5. Couple(P3("then", "Block", "ElseIf", s), P4("then", "Chunk", "Else", "end", k), {"then"})
  BY <1>4, FoldTakes, TokensAre
<1>6. Reads("Expression", Cons(x, t), ExpFirst, P4("then", "Chunk", "Else", "end", k), {"then"})
  BY <1>2, Nexts DEF Reads, ReadsExpression
<1> QED  BY <1>5, <1>6, FirstReads

LEMMA FirstOfBlock ==
  ASSUME NEW s, NEW k, NEW G, Couple(s, k, G), NEW x \in Token, NEW t, List(t), InnerAt(Cons(x,
           t), k)
  PROVE  First(P2("Block", "end", s), Cons(x, t))
<1>1. List(s) /\ List(k)
  BY Unfold
<1>2. ChunkAt(Cons(x, t), Cons("end", k))
  BY <1>1, SameFirst, NonterminalsAreNoTokens DEF InnerAt
<1>3. Couple(Cons("end", s), Cons("end", k), {"end"})
  BY FoldTakes, TokensAre
<1>4. Reads("Block", Cons(x, t), ChunkFirst \cup {"end"}, Cons("end", k), {"end"})
  BY <1>2 DEF Reads, ReadsBlock, BlockEnd
<1> QED  BY <1>3, <1>4, FirstReads

LEMMA FirstOfNames ==
  ASSUME NEW s, NEW k, NEW G, Couple(s, k, G), Comma \notin G, NEW x \in Token, NEW t, List(t),
           NamesAt(Cons(x, t), k)
  PROVE  First(P2("name", "MoreNames", s), Cons(x, t))
<1>1. List(s) /\ List(k)
  BY Unfold
<1>2. PICK r \in {k, P2(Comma, "Names", k)} : Cons(x, t) = Cons("name", r)
  BY <1>1, SameFirst, NonterminalsAreNoTokens DEF NamesAt
<1>3. Couple(Cons("MoreNames", s), r, {Comma} \cup G)
  BY <1>1, <1>2, PushMoreNames, ConsIsList
<1> QED  BY <1>2, <1>3, FirstTakes, TokensAre

LEMMA FirstOfList ==
  ASSUME NEW s, NEW k, NEW G, Couple(s, k, G), Clear(G, ListNext), NEW x \in Token, NEW t,
           List(t), ExpsAt(Cons(x, t), k)
  PROVE  First(P2("Expression", "MoreExpressions", s), Cons(x, t))
<1>1. List(s) /\ List(k)
  BY Unfold
<1>2. PICK m \in {k, P2(Comma, "Exps", k)} : ExpAt(Cons(x, t), m)
  BY <1>1, SameFirst, NonterminalsAreNoTokens DEF ExpsAt
<1>3. Couple(Cons("MoreExpressions", s), m, {Comma} \cup G)
  BY <1>1, <1>2, PushMoreExpressions, ConsIsList
<1>4. Reads("Expression", Cons(x, t), ExpFirst, m, {Comma} \cup G)
  BY <1>2, Nexts DEF Reads, ReadsExpression
<1> QED  BY <1>3, <1>4, FirstReads

LEMMA FirstCall ==
  ASSUME NEW s, NEW x \in Token, NEW t, List(t), NEW F, Couple(s, Cons(x, t), F), s # <<>>
  PROVE  First(s, Cons(x, t))
<1>1. PICK u, k, G : Couple(u, k, G) /\ Link(s, Cons(x, t), F, u, k, G)
  BY Unfold DEF Base
<1>2. CASE Takes(s, Cons(x, t), F, u, k)
  BY <1>1, <1>2 DEF First
<1>3. CASE \E a : s = Cons(a, u) /\ Reads(a, Cons(x, t), F, k, G)
  BY <1>1, <1>3 DEF First
<1>4. CASE Joint(s, Cons(x, t), F, u, k, G)
  BY <1>1, <1>4, FirstOfOperand, FirstOfLoop, FirstOfClause, FirstOfBlock, FirstOfNames,
       FirstOfList DEF Joint
<1> QED  BY <1>1, <1>2, <1>3, <1>4 DEF Link

(***************************************************************************)
(* Whatever routine is on top, its calls read the program it was to read.  *)
(***************************************************************************)
LEMMA CallsAre ==
  ASSUME NEW x
  PROVE  /\ Calls("Block", x) = Block(x)
         /\ Calls("Semicolon", x) = Semicolon(x)
         /\ Calls("Statement", x) = Statement(x)
         /\ Calls("AssignOrCall", x) = AssignOrCall(x)
         /\ Calls("MoreTargets", x) = MoreTargets(x)
         /\ Calls("LocalKind", x) = LocalKind(x)
         /\ Calls("LocalValues", x) = LocalValues(x)
         /\ Calls("ElseIf", x) = ElseIf(x)
         /\ Calls("ForKind", x) = ForKind(x)
         /\ Calls("ForStep", x) = ForStep(x)
         /\ Calls("ReturnValues", x) = ReturnValues(x)
         /\ Calls("FunctionStatement", x) = FunctionStatement(x)
         /\ Calls("NameTail", x) = NameTail(x)
         /\ Calls("FunctionBody", x) = FunctionBody(x)
         /\ Calls("Parameters", x) = Parameters(x)
         /\ Calls("Parameter", x) = Parameter(x)
         /\ Calls("MoreParameters", x) = MoreParameters(x)
         /\ Calls("MoreNames", x) = MoreNames(x)
         /\ Calls("ExpressionList", x) = ExpressionList(x)
         /\ Calls("MoreExpressions", x) = MoreExpressions(x)
         /\ Calls("Expression", x) = Expression(x)
         /\ Calls("Operators", x) = Operators(x)
         /\ Calls("FieldOperators", x) = FieldOperators(x)
         /\ Calls("Operand", x) = Operand(x)
         /\ Calls("Power", x) = Power(x)
         /\ Calls("Primary", x) = Primary(x)
         /\ Calls("Suffixes", x) = Suffixes(x)
         /\ Calls("Arguments", x) = Arguments(x)
         /\ Calls("MethodArguments", x) = MethodArguments(x)
         /\ Calls("Table", x) = Table(x)
         /\ Calls("Fields", x) = Fields(x)
         /\ Calls("FieldSeparator", x) = FieldSeparator(x)
         /\ Calls("Field", x) = Field(x)
         /\ Calls("NamedField", x) = NamedField(x)
BY Zenon DEF Calls

LEMMA RoutinesAre ==
  Routine = {"Block", "Semicolon", "Statement", "AssignOrCall", "MoreTargets", "LocalKind",
      "LocalValues", "ElseIf", "ForKind", "ForStep", "ReturnValues", "FunctionStatement",
          "NameTail", "FunctionBody", "Parameters", "Parameter", "MoreParameters", "MoreNames",
              "ExpressionList", "MoreExpressions", "Expression", "Operators", "FieldOperators",
                  "Operand", "Power", "Primary", "Suffixes", "Arguments", "MethodArguments",
                      "Table", "Fields", "FieldSeparator", "Field", "NamedField"}
BY Zenon DEF Routine

LEMMA CallsBlock ==
  ASSUME NEW s, NEW k, NEW G, Couple(s, k, G), NEW x \in Token, NEW t, List(t), NEW a, NEW F,
         ReadsBlock(a, Cons(x, t), F, k, G)
  PROVE  a \in Routine /\ \E E : Couple(Run(Calls(a, x), s), Cons(x, t), E)
<1>1. CASE a = "Block"
  BY <1>1, CallBlock, CallsAre, RoutinesAre DEF ReadsBlock
<1>2. CASE a = "Semicolon"
  BY <1>2, CallSemicolon, CallsAre, RoutinesAre DEF ReadsBlock
<1>3. CASE a = "Statement"
  BY <1>3, CallStatement, CallsAre, RoutinesAre DEF ReadsBlock
<1>4. CASE a = "AssignOrCall"
  BY <1>4, CallAssignOrCall, CallsAre, RoutinesAre DEF ReadsBlock
<1>5. CASE a = "MoreTargets"
  BY <1>5, CallMoreTargets, CallsAre, RoutinesAre DEF ReadsBlock
<1>6. CASE a = "LocalKind"
  BY <1>6, CallLocalKind, CallsAre, RoutinesAre DEF ReadsBlock
<1>7. CASE a = "LocalValues"
  BY <1>7, CallLocalValues, CallsAre, RoutinesAre DEF ReadsBlock
<1>8. CASE a = "ElseIf"
  BY <1>8, CallElseIf, CallsAre, RoutinesAre DEF ReadsBlock
<1>9. CASE a = "ForKind"
  BY <1>9, CallForKind, CallsAre, RoutinesAre DEF ReadsBlock
<1>10. CASE a = "ForStep"
  BY <1>10, CallForStep, CallsAre, RoutinesAre DEF ReadsBlock
<1>11. CASE a = "ReturnValues"
  BY <1>11, CallReturnValues, CallsAre, RoutinesAre DEF ReadsBlock
<1> QED  BY <1>1, <1>2, <1>3, <1>4, <1>5, <1>6, <1>7, <1>8, <1>9, <1>10, <1>11 DEF ReadsBlock

LEMMA CallsFunction ==
  ASSUME NEW s, NEW k, NEW G, Couple(s, k, G), NEW x \in Token, NEW t, List(t), NEW a, NEW F,
         ReadsFunction(a, Cons(x, t), F, k, G)
  PROVE  a \in Routine /\ \E E : Couple(Run(Calls(a, x), s), Cons(x, t), E)
<1>1. CASE a = "FunctionStatement"
  BY <1>1, CallFunctionStatement, CallsAre, RoutinesAre DEF ReadsFunction
<1>2. CASE a = "NameTail"
  BY <1>2, CallNameTail, CallsAre, RoutinesAre DEF ReadsFunction
<1>3. CASE a = "FunctionBody"
  BY <1>3, CallFunctionBody, CallsAre, RoutinesAre DEF ReadsFunction
<1>4. CASE a = "Parameters"
  BY <1>4, CallParameters, CallsAre, RoutinesAre DEF ReadsFunction
<1>5. CASE a = "Parameter"
  BY <1>5, CallParameter, CallsAre, RoutinesAre DEF ReadsFunction
<1>6. CASE a = "MoreParameters"
  BY <1>6, CallMoreParameters, CallsAre, RoutinesAre DEF ReadsFunction
<1>7. CASE a = "MoreNames"
  BY <1>7, CallMoreNames, CallsAre, RoutinesAre DEF ReadsFunction
<1>8. CASE a = "ExpressionList"
  BY <1>8, CallExpressionList, CallsAre, RoutinesAre DEF ReadsFunction
<1>9. CASE a = "MoreExpressions"
  BY <1>9, CallMoreExpressions, CallsAre, RoutinesAre DEF ReadsFunction
<1> QED  BY <1>1, <1>2, <1>3, <1>4, <1>5, <1>6, <1>7, <1>8, <1>9 DEF ReadsFunction

LEMMA CallsExpression ==
  ASSUME NEW s, NEW k, NEW G, Couple(s, k, G), NEW x \in Token, NEW t, List(t), NEW a, NEW F,
         ReadsExpression(a, Cons(x, t), F, k, G)
  PROVE  a \in Routine /\ \E E : Couple(Run(Calls(a, x), s), Cons(x, t), E)
<1>1. CASE a = "Expression"
  BY <1>1, CallExpression, CallsAre, RoutinesAre DEF ReadsExpression
<1>2. CASE a = "Operators"
  BY <1>2, CallOperators, CallsAre, RoutinesAre DEF ReadsExpression
<1>3. CASE a = "FieldOperators"
  BY <1>3, CallFieldOperators, CallsAre, RoutinesAre DEF ReadsExpression
<1>4. CASE a = "Operand"
  BY <1>4, CallOperand, CallsAre, RoutinesAre DEF ReadsExpression
<1>5. CASE a = "Power"
  BY <1>5, CallPower, CallsAre, RoutinesAre DEF ReadsExpression
<1>6. CASE a = "Primary"
  BY <1>6, CallPrimary, CallsAre, RoutinesAre DEF ReadsExpression
<1>7. CASE a = "Suffixes"
  BY <1>7, CallSuffixes, CallsAre, RoutinesAre DEF ReadsExpression
<1>8. CASE a = "Arguments"
  BY <1>8, CallArguments, CallsAre, RoutinesAre DEF ReadsExpression
<1>9. CASE a = "MethodArguments"
  BY <1>9, CallMethodArguments, CallsAre, RoutinesAre DEF ReadsExpression
<1> QED  BY <1>1, <1>2, <1>3, <1>4, <1>5, <1>6, <1>7, <1>8, <1>9 DEF ReadsExpression

LEMMA CallsTable ==
  ASSUME NEW s, NEW k, NEW G, Couple(s, k, G), NEW x \in Token, NEW t, List(t), NEW a, NEW F,
         ReadsTable(a, Cons(x, t), F, k, G)
  PROVE  a \in Routine /\ \E E : Couple(Run(Calls(a, x), s), Cons(x, t), E)
<1>1. CASE a = "Table"
  BY <1>1, CallTable, CallsAre, RoutinesAre DEF ReadsTable
<1>2. CASE a = "Fields"
  BY <1>2, CallFields, CallsAre, RoutinesAre DEF ReadsTable
<1>3. CASE a = "FieldSeparator"
  BY <1>3, CallFieldSeparator, CallsAre, RoutinesAre DEF ReadsTable
<1>4. CASE a = "Field"
  BY <1>4, CallField, CallsAre, RoutinesAre DEF ReadsTable
<1>5. CASE a = "NamedField"
  BY <1>5, CallNamedField, CallsAre, RoutinesAre DEF ReadsTable
<1> QED  BY <1>1, <1>2, <1>3, <1>4, <1>5 DEF ReadsTable

LEMMA CallKeeps ==
  ASSUME NEW s, NEW k, NEW G, Couple(s, k, G), NEW x \in Token, NEW t, List(t), NEW a, NEW F,
         Reads(a, Cons(x, t), F, k, G)
  PROVE  a \in Routine /\ \E E : Couple(Run(Calls(a, x), s), Cons(x, t), E)
BY CallsBlock, CallsFunction, CallsExpression, CallsTable DEF Reads

------------------------------------------------------------------------------
(***************************************************************************)
(* The program as it is derived, with the end of the text behind it.       *)
(***************************************************************************)

LEMMA ShortLists ==
  /\ List(<<>>)
  /\ \A a : List(<<a>>)
  /\ \A a, b : List(<<a, b>>)
  /\ \A a, b, c : List(<<a, b, c>>)
  /\ \A a, b, c, d : List(<<a, b, c, d>>)
  /\ \A a, b, c, d, e : List(<<a, b, c, d, e>>)
  /\ \A a, b, c, d, e, f : List(<<a, b, c, d, e, f>>)
  /\ \A a, b, c, d, e, f, g : List(<<a, b, c, d, e, f, g>>)
<1>1. \A a : <<a>> \in Seq({a})
  OBVIOUS
<1>2. \A a, b : <<a, b>> \in Seq({a, b})
  OBVIOUS
<1>3. \A a, b, c : <<a, b, c>> \in Seq({a, b, c})
  OBVIOUS
<1>4. \A a, b, c, d : <<a, b, c, d>> \in Seq({a, b, c, d})
  OBVIOUS
<1>5. \A a, b, c, d, e : <<a, b, c, d, e>> \in Seq({a, b, c, d, e})
  OBVIOUS
<1>6. \A a, b, c, d, e, f : <<a, b, c, d, e, f>> \in Seq({a, b, c, d, e, f})
  OBVIOUS
<1>7. \A a, b, c, d, e, f, g : <<a, b, c, d, e, f, g>> \in Seq({a, b, c, d, e, f, g})
  OBVIOUS
<1> QED  BY Zenon, <1>1, <1>2, <1>3, <1>4, <1>5, <1>6, <1>7, ListEmpty DEF List

LEMMA RulesAreLists ==
  ASSUME Forms = {}, NEW n \in DOMAIN Rules, NEW rhs \in Rules[n]
  PROVE  List(rhs)
<1>1. \A r \in Rules["Chunk"] : List(r)
  BY Zenon, ShortLists DEF Rules, Maybe
<1>2. \A r \in Rules["Values"] : List(r)
  BY Zenon, ShortLists DEF Rules, Maybe
<1>3. \A r \in Rules["Targets"] : List(r)
  BY Zenon, ShortLists DEF Rules, Maybe
<1>4. \A r \in Rules["Var"] : List(r)
  BY Zenon, ShortLists DEF Rules, Maybe
<1>5. \A r \in Rules["Exps"] : List(r)
  BY Zenon, ShortLists DEF Rules, Maybe
<1>6. \A r \in Rules["Names"] : List(r)
  BY Zenon, ShortLists DEF Rules, Maybe
<1>7. \A r \in Rules["Init"] : List(r)
  BY Zenon, ShortLists DEF Rules, Maybe
<1>8. \A r \in Rules["Do"] : List(r)
  BY Zenon, ShortLists DEF Rules, Maybe
<1>9. \A r \in Rules["Clause"] : List(r)
  BY Zenon, ShortLists DEF Rules, Maybe
<1>10. \A r \in Rules["Else"] : List(r)
  BY Zenon, ShortLists DEF Rules, Maybe
<1>11. \A r \in Rules["Range"] : List(r)
  BY Zenon, ShortLists DEF Rules, Maybe
<1>12. \A r \in Rules["Path"] : List(r)
  BY Zenon, ShortLists DEF Rules, Maybe
<1>13. \A r \in Rules["Body"] : List(r)
  BY Zenon, ShortLists DEF Rules, Maybe
<1>14. \A r \in Rules["Inner"] : List(r)
  BY Zenon, ShortLists DEF Rules, Maybe
<1>15. \A r \in Rules["Params"] : List(r)
  BY Zenon, ShortLists DEF Rules, Maybe
<1>16. \A r \in Rules["More"] : List(r)
  BY Zenon, ShortLists DEF Rules, Maybe
<1>17. \A r \in Rules["Exp"] : List(r)
  BY Zenon, ShortLists DEF Rules, Maybe
<1>18. \A r \in Rules["Binop"] : List(r)
  BY Zenon, ShortLists DEF Rules, Maybe
<1>19. \A r \in Rules["Opd"] : List(r)
  BY Zenon, ShortLists DEF Rules, Maybe
<1>20. \A r \in Rules["Closed"] : List(r)
  BY Zenon, ShortLists DEF Rules, Maybe, Paren
<1>21. \A r \in Rules["Sfxs"] : List(r)
  BY Zenon, ShortLists DEF Rules, Maybe
<1>22. \A r \in Rules["Index"] : List(r)
  BY Zenon, ShortLists DEF Rules, Maybe
<1>23. \A r \in Rules["Invoke"] : List(r)
  BY Zenon, ShortLists DEF Rules, Maybe
<1>24. \A r \in Rules["Arg"] : List(r)
  BY Zenon, ShortLists DEF Rules, Maybe
<1>25. \A r \in Rules["Items"] : List(r)
  BY Zenon, ShortLists DEF Rules, Maybe
<1>26. \A r \in Rules["Item"] : List(r)
  <2>1. /\ Rules["Item"] = {<<"[", "Exp", "]", "=", "Exp">>, <<"name", "=",
             "Exp">>} \cup FieldExps
        /\ FieldExps = {<<"name", "Sfxs">>, <<"name", "Binop", "Exp">>, <<"Closed">>,
             <<"Closed", "Binop", "Exp">>}
    BY Zenon DEF Rules, FieldExps
  <2>2. \A r \in {<<"name", "Sfxs">>, <<"name", "Binop", "Exp">>, <<"Closed">>, <<"Closed",
          "Binop", "Exp">>} : List(r)
    BY Zenon, ShortLists
  <2>3. \A r \in {<<"[", "Exp", "]", "=", "Exp">>, <<"name", "=", "Exp">>} : List(r)
    BY Zenon, ShortLists
  <2> QED  BY Zenon, <2>1, <2>2, <2>3
<1>27. \A r \in Rules["Stat"] : List(r)
  <2>1. Rules["Stat"] = Stats \cup RareStats /\ RareStats = {}
    BY Zenon DEF Rules, RareStats
  <2>2. \A r \in Stats : List(r)
    BY Zenon, ShortLists DEF Stats
  <2> QED  BY Zenon, <2>1, <2>2
<1> QED  BY Zenon, <1>1, <1>2, <1>3, <1>4, <1>5, <1>6, <1>7, <1>8, <1>9, <1>10, <1>11, <1>12,
      <1>13, <1>14, <1>15, <1>16, <1>17, <1>18, <1>19, <1>20, <1>21, <1>22, <1>23, <1>24, <1>25,
          <1>26, <1>27, NonterminalsAre

Eof == <<"eof">>

LEMMA RunList ==
  ASSUME NEW r, List(r), NEW s, List(s)
  PROVE  List(Run(r, s)) /\ (r # <<>> => Run(r, s) = Cons(Head(r), Run(Tail(r),
           s)) /\ List(Tail(r)))
<1>1. PICK S : r \in Seq(S)
  BY DEF List
<1>2. PICK T : s \in Seq(T)
  BY DEF List
<1>3. PICK U : U = S \cup T
  OBVIOUS
<1>4. r \in Seq(U) /\ s \in Seq(U)
  BY <1>1, <1>2, <1>3
<1>5. List(Run(r, s))
  BY <1>4, ConcatProperties DEF Run, List
<1>6. ASSUME r # <<>> PROVE Run(r, s) = Cons(Head(r), Run(Tail(r), s)) /\ List(Tail(r))
  <2>1. r = Cons(Head(r), Tail(r)) /\ List(Tail(r))
    BY <1>6, ListCases
  <2>2. PICK V : Tail(r) \in Seq(V)
    BY <2>1 DEF List
  <2>3. Cons(Head(r), Tail(r)) \o s = Cons(Head(r), Tail(r) \o s)
    BY <2>1, <2>2, InFront
  <2> QED  BY Zenon, <2>1, <2>3 DEF Run
<1> QED  BY <1>5, <1>6

LEMMA EofIs ==
  /\ List(Eof) /\ Eof = Cons("eof", <<>>)
  /\ Run(<<>>, Eof) = Eof
  /\ \A r : List(r) => Run(r, Eof) # <<>>
<1>1. List(Eof) /\ Eof = Cons("eof", <<>>)
  BY ShortLists, EofAlone DEF Eof
<1>2. Run(<<>>, Eof) = Eof
  BY Zenon, <1>1, Join0 DEF Run
<1>3. Eof # <<>>
  BY <1>1, ConsList, ListEmpty
<1>4. ASSUME NEW r, List(r) PROVE Run(r, Eof) # <<>>
  <2>1. CASE r = <<>>
    BY <1>2, <1>3, <2>1
  <2>2. CASE r # <<>>
    <3>1. Run(r, Eof) = Cons(Head(r), Run(Tail(r), Eof)) /\ List(Tail(r))
      BY <1>1, <1>4, <2>2, RunList
    <3>2. List(Run(Tail(r), Eof))
      BY <1>1, <3>1, RunList
    <3> QED  BY <3>1, <3>2, ConsList
  <2> QED  BY <2>1, <2>2
<1> QED  BY <1>1, <1>2, <1>3, <1>4

LEMMA DerivesBefore ==
  ASSUME Forms = {}, NEW r, List(r), NEW r2, Derives(r, r2), NEW s, List(s)
  PROVE  List(r2) /\ Derives(Run(r, s), Run(r2, s))
<1>1. PICK rhs \in Rules[Head(r)] : r2 = rhs \o Tail(r)
  BY Zenon DEF Derives
<1>2. r # <<>> /\ Head(r) \in DOMAIN Rules
  BY Zenon DEF Derives
<1>3. List(rhs) /\ List(Tail(r))
  BY <1>1, <1>2, RulesAreLists, ListCases
<1>4. PICK S : rhs \in Seq(S) /\ Tail(r) \in Seq(S) /\ s \in Seq(S)
  <2>1. PICK A : rhs \in Seq(A)
    BY <1>3 DEF List
  <2>2. PICK B : Tail(r) \in Seq(B)
    BY <1>3 DEF List
  <2>3. PICK C : s \in Seq(C)
    BY DEF List
  <2>4. PICK S : S = A \cup B \cup C
    OBVIOUS
  <2>5. rhs \in Seq(S) /\ Tail(r) \in Seq(S) /\ s \in Seq(S)
    BY <2>1, <2>2, <2>3, <2>4
  <2> QED  BY <2>5
<1>5. (rhs \o Tail(r)) \o s = rhs \o (Tail(r) \o s)
  BY <1>4, ConcatAssociative
<1>6. Run(r2, s) = rhs \o Run(Tail(r), s)
  BY Zenon, <1>1, <1>5 DEF Run
<1>7. Run(r, s) = Cons(Head(r), Run(Tail(r), s)) /\ List(Run(Tail(r), s))
  BY <1>2, <1>3, RunList
<1>8. /\ Run(r, s) # <<>> /\ Head(Run(r, s)) = Head(r) /\ Tail(Run(r, s)) = Run(Tail(r), s)
  BY <1>7, ConsList
<1>9. List(r2)
  BY DerivedIsList
<1> QED  BY Zenon, <1>1, <1>2, <1>6, <1>8, <1>9 DEF Derives

------------------------------------------------------------------------------
(***************************************************************************)
(* The parser and the program in step: the invariant and its steps.        *)
(***************************************************************************)

\* The program from the current token on.
Program == Run(rest, Eof)
Ahead   == IF tok \in {NoTok, "eof"} THEN Program ELSE Cons(tok, Program)

InStep ==
  /\ ~failed /\ List(rest) /\ (tok = "eof" => rest = <<>>)
  /\ \E F : Couple(stack, Ahead, F)
ProgramInv == TypeOK /\ slips \in Nat /\ (slips = 0 => InStep)

LEMMA SortsDiffer ==
  /\ NoTok \notin Token /\ "skip" \notin Token /\ "error" \notin Token
  /\ "skip" \notin Routine /\ "error" \notin Routine
  /\ \A r \in Routine : r \notin Token
<1>1. NoTok \notin Token /\ "skip" \notin Token /\ "error" \notin Token
  BY Zenon DEF NoTok, Token, BlockEnd, Unary, Binary, Atomic, Separator
<1>2. "skip" \notin Routine /\ "error" \notin Routine
  BY RoutinesAre
<1>3. ASSUME NEW r \in Routine PROVE r \notin Token
  <2>1. r \notin BlockEnd \cup Unary \cup Binary \cup Atomic \cup Separator
    BY Zenon, <1>3 DEF Routine, BlockEnd, Unary, Binary, Atomic, Separator
  <2> QED  BY Zenon, <1>3, <2>1 DEF Routine, Token
<1> QED  BY <1>1, <1>2, <1>3

LEMMA InFrontOfParser ==
  ASSUME InStep, tok \in Token
  PROVE  \E t : /\ List(t) /\ Ahead = Cons(tok, t)
                /\ tok # "eof" => t = Program
<1>1. List(Program)
  BY RunList, EofIs DEF InStep, Program
<1>2. CASE tok = "eof"
  <2>1. Ahead = Eof
    BY <1>2, EofIs DEF InStep, Ahead, Program
  <2> QED  BY <1>2, <2>1, EofIs, ListEmpty
<1>3. CASE tok # "eof"
  BY <1>1, <1>3, SortsDiffer DEF Ahead
<1> QED  BY <1>2, <1>3

LEMMA AheadSame ==
  ASSUME InStep, Fetch(Head(rest)), rest # <<>>, Head(rest) \in Token
  PROVE  Head(rest) # "eof" /\ Ahead = Cons(Head(rest), Run(Tail(rest), Eof)) /\ List(Tail(rest))
<1>1. Ahead = Program
  BY DEF Fetch, Ahead
<1>2. Program = Cons(Head(rest), Run(Tail(rest), Eof)) /\ List(Tail(rest))
  BY RunList, EofIs DEF InStep, Program
<1>3. List(Run(Tail(rest), Eof)) /\ Run(Tail(rest), Eof) # <<>>
  BY <1>2, RunList, EofIs
<1>4. Head(rest) # "eof"
  BY <1>1, <1>2, <1>3, HeadInF DEF InStep
<1> QED  BY <1>1, <1>2, <1>4

LEMMA WritingKeeps ==
  ASSUME Forms = {}, InStep, Derive \/ Supply \/ EndOfText
  PROVE  InStep'
<1>1. CASE Derive
  <2>1. Derives(rest, rest')
    BY Zenon, <1>1 DEF Derive, Derives
  <2>2. List(rest') /\ Derives(Run(rest, Eof), Run(rest', Eof))
    BY <2>1, DerivesBefore, EofIs DEF InStep
  <2>3. PICK F : Couple(stack, Program, F)
    BY <1>1 DEF InStep, Derive, Asked, Ahead
  <2>4. Couple(stack, Run(rest', Eof), F)
    BY <2>2, <2>3, CoupleOn DEF Program
  <2>5. /\ tok = NoTok /\ tok' = tok /\ stack' = stack /\ failed' = failed
    BY <1>1 DEF Derive, Asked, parserVars
  <2>6. Ahead' = Run(rest', Eof)
    BY <2>5 DEF Ahead, Program
  <2> QED  BY <2>2, <2>4, <2>5, <2>6 DEF InStep, NoTok
<1>2. CASE Supply
  <2>1. /\ rest # <<>> /\ Head(rest) \in Token /\ Fetch(Head(rest)) /\ rest' = Tail(rest)
        /\ stack' = stack /\ failed' = failed /\ tok' = Head(rest)
    BY <1>2 DEF Supply, Fetch
  <2>2. Head(rest) # "eof" /\ Ahead = Cons(Head(rest), Run(Tail(rest), Eof)) /\ List(Tail(rest))
    BY <2>1, AheadSame
  <2>3. Ahead' = Cons(Head(rest), Run(Tail(rest), Eof))
    BY <2>1, <2>2, SortsDiffer DEF Ahead, Program
  <2> QED  BY <2>1, <2>2, <2>3 DEF InStep
<1>3. CASE EndOfText
  <2>1. /\ rest = <<>> /\ rest' = rest /\ tok = NoTok /\ tok' = "eof"
        /\ stack' = stack /\ failed' = failed
    BY <1>3 DEF EndOfText, Fetch, programVars
  <2>2. Ahead' = Ahead
    BY <2>1 DEF Ahead, Program
  <2> QED  BY <2>1, <2>2 DEF InStep
<1> QED  BY <1>1, <1>2, <1>3

LEMMA ReadingKeeps ==
  ASSUME TypeOK, InStep, Reading
  PROVE  InStep'
<1>1. tok \in Token /\ stack # <<>> /\ rest' = rest
  BY DEF Reading, Parse, Advance, Expect, Error, Call, Ready, TypeOK, programVars
<1>2. PICK t : List(t) /\ Ahead = Cons(tok, t) /\ (tok # "eof" => t = Program)
  BY <1>1, InFrontOfParser
<1>3. First(stack, Cons(tok, t))
  BY <1>1, <1>2, FirstCall DEF InStep
<1>4. PICK u, l, H, E : /\ Couple(u, l, H)
                        /\ \/ Takes(stack, Cons(tok, t), E, u, l)
                           \/ \E a : stack = Cons(a, u) /\ Reads(a, Cons(tok, t), E, l, H)
  BY <1>3 DEF First
<1>5. List(u) /\ List(l)
  BY <1>4, Unfold
<1>6. CASE Takes(stack, Cons(tok, t), E, u, l)
  <2>1. PICK y \in Token \ {"eof"} : stack \in {Cons(y, u), Cons("skip", u)} /\ Cons(tok, t) =
          Cons(y, l)
    BY <1>6 DEF Takes
  <2>2. tok = y /\ t = l /\ tok # "eof"
    BY <1>2, <1>5, <2>1, Injective
  <2>3. Head(stack) \in {tok, "skip"} /\ Tail(stack) = u
    BY <1>5, <2>1, <2>2, ConsList
  <2>4. ~ Error /\ ~ Call
    BY <1>1, <2>3, SortsDiffer DEF Error, Call
  <2>5. stack' = u /\ tok' = NoTok /\ failed' = failed
    BY <2>2, <2>3, <2>4, SortsDiffer, <1>1 DEF Reading, Parse, Advance, Expect, Take, After
  <2>6. Ahead' = l
    BY <1>1, <1>2, <2>2, <2>5 DEF Ahead, Program
  <2> QED  BY <1>1, <1>4, <2>5, <2>6 DEF InStep, NoTok
<1>7. ASSUME NEW a, stack = Cons(a, u), Reads(a, Cons(tok, t), E, l, H)
      PROVE  InStep'
  <2>1. Head(stack) = a /\ Tail(stack) = u
    BY <1>5, <1>7, ConsList
  <2>2. a \in Routine /\ \E D : Couple(Run(Calls(a, tok), u), Cons(tok, t), D)
    BY <1>1, <1>2, <1>4, <1>7, CallKeeps
  <2>3. ~ Advance /\ ~ Expect /\ ~ Error
    BY <2>1, <2>2, SortsDiffer DEF Advance, Expect, Error
  <2>4. stack' = Run(Calls(a, tok), u) /\ tok' = tok /\ failed' = failed
    BY <2>1, <2>3 DEF Reading, Parse, Call, Run
  <2>5. Ahead' = Ahead
    BY <1>1, <2>4 DEF Ahead, Program
  <2> QED  BY <1>1, <1>2, <2>2, <2>4, <2>5 DEF InStep
<1> QED  BY <1>4, <1>6, <1>7

LEMMA InitInStep == Init => InStep
<1> SUFFICES ASSUME Init PROVE InStep
  OBVIOUS
<1>1. stack = <<"Block">> /\ tok = NoTok /\ failed = FALSE /\ rest = <<"Chunk">>
  BY DEF Init, ParserInit
<1>2. Linked({<<<<>>, Eof, {"eof"}>>})
  BY EofIs, ListEmpty DEF Linked, Base, Eof
<1>3. Couple(<<>>, Eof, {"eof"})
  BY <1>2 DEF Couple
<1>4. Couple(Cons("Block", <<>>), Cons("Chunk", Eof), ChunkFirst \cup {"eof"})
  BY <1>3, PushBlock, Pristine, ConsIsList, EofIs DEF BlockEnd
<1>5. stack = Cons("Block", <<>>) /\ List(rest)
  BY <1>1, ShortLists DEF Cons
<1>6. Run(<<"Chunk">>, Eof) = Cons("Chunk", Eof)
  BY Zenon, Join1 DEF Run
<1>7. Ahead = Cons("Chunk", Eof)
  BY <1>1, <1>6 DEF Ahead, Program
<1> QED  BY <1>1, <1>4, <1>5, <1>7 DEF InStep, NoTok

LEMMA EverythingRead ==
  ASSUME InStep, Ended, tok \in BlockEnd
  PROVE  tok = "eof"
<1>1. tok \in Token
  BY DEF Token
<1>2. PICK t : List(t) /\ Ahead = Cons(tok, t)
  BY <1>1, InFrontOfParser
<1>3. PICK F : Couple(<<>>, Ahead, F)
  BY DEF InStep, Ended
<1>4. Ahead = Eof
  <2>1. \A s2, k, G : Couple(s2, k, G) => ~ Link(<<>>, Ahead, F, s2, k, G)
    <3> SUFFICES ASSUME NEW s2, NEW k, NEW G, Couple(s2, k, G), Link(<<>>, Ahead, F, s2, k, G)
          PROVE FALSE
      OBVIOUS
    <3>1. List(s2)
      BY Unfold
    <3>2. \E a, v : List(v) /\ <<>> = Cons(a, v)
      BY <3>1, ConsIsList DEF Link, Takes, Joint
    <3> QED  BY <3>2, ConsList
  <2> QED  BY <1>3, <2>1, Unfold DEF Base, Eof
<1> QED  BY <1>2, <1>4, EofIs, ListEmpty, Injective

LEMMA ProgramInvKept ==
  ASSUME Forms = {}, ProgramInv, [Reading \/ Writing \/ Done]_vars
  PROVE  ProgramInv'
<1>1. TypeOK'
  BY ProgramStep, ParserKeepsTypes DEF ProgramInv
<1>2. slips' \in Nat /\ (slips' = 0 => slips = 0 /\ ~ Omit /\ ~ Mistype)
  BY DEF ProgramInv, Reading, Writing, Done, Derive, Supply, EndOfText, Omit, Mistype,
       programVars, vars
<1>3. ASSUME slips = 0, ~ Omit, ~ Mistype PROVE InStep'
  <2>1. CASE Reading
    BY <1>3, <2>1, ReadingKeeps DEF ProgramInv
  <2>2. CASE Derive \/ Supply \/ EndOfText
    BY <1>3, <2>2, WritingKeeps DEF ProgramInv
  <2>3. CASE Done \/ UNCHANGED vars
    BY <1>3, <2>3 DEF ProgramInv, InStep, Done, vars, parserVars, programVars, Ahead, Program
  <2> QED  BY <1>3, <2>1, <2>2, <2>3 DEF Writing
<1> QED  BY <1>1, <1>2, <1>3 DEF ProgramInv

LEMMA ProgramInvInit == Init => ProgramInv
BY InitTypes, InitInStep DEF ProgramInv, Init

(***************************************************************************)
(* A program of the grammar gets no error, however long it is, however     *)
(* deep it nests and whatever it is made of: one token of look-ahead is    *)
(* enough for every choice the parser makes (parser/Parser.cpp, all of it).*)
(* The forms of RareForms are left out: for them it does not hold.         *)
(***************************************************************************)
THEOREM ValidProgramsPass ==
  ASSUME Forms = {}
  PROVE  ProgramSpec => []NoSpuriousError
<1>1. ProgramInv /\ [Reading \/ Writing \/ Done]_vars => ProgramInv'
  BY ProgramInvKept
<1>2. ProgramInv => NoSpuriousError
  BY DEF ProgramInv, InStep, NoSpuriousError
<1> QED  BY ProgramInvInit, <1>1, <1>2, PTL DEF ProgramSpec

(***************************************************************************)
(* And all of it is read: parse() returns on such a program only at the    *)
(* end of the text (Parser::parse, which does not look whether it is       *)
(* there).                                                                 *)
(***************************************************************************)
THEOREM ValidProgramsRead ==
  ASSUME Forms = {}
  PROVE  ProgramSpec => []AllRead
<1>1. ProgramInv /\ [Reading \/ Writing \/ Done]_vars => ProgramInv'
  BY ProgramInvKept
<1>2. ProgramInv /\ StopsAtBlockEnd => AllRead
  BY EverythingRead DEF ProgramInv, StopsAtBlockEnd, AllRead
<1> QED  BY ProgramInvInit, <1>1, <1>2, ProgramsStop, PTL DEF ProgramSpec

------------------------------------------------------------------------------
(***************************************************************************)
(* The closing words of a list are those of its first symbol and those of  *)
(* the rest.                                                               *)
(***************************************************************************)
LEMMA UpTo ==
  ASSUME NEW n \in Nat, NEW T, 0 \in T, \A i \in 1 .. n : i - 1 \in T => i \in T
  PROVE  \A i \in 0 .. n : i \in T
<1> DEFINE Bad == {i \in 0 .. n : i \notin T}
<1> SUFFICES ASSUME Bad # {} PROVE FALSE
  OBVIOUS
<1>1. PICK i \in Bad : \A j \in Bad : i <= j
  <2>1. Bad \subseteq Nat
    OBVIOUS
  <2> HIDE DEF Bad
  <2> QED  BY <2>1, MinimumExists
<1>2. i \in 1 .. n /\ i - 1 \in 0 .. n /\ i - 1 \notin Bad
  BY <1>1
<1> QED  BY <1>2

\* What is owed from position i on.
Owing(s, f) ==
  f = [i \in 1 .. Len(s) + 1 |-> IF i = Len(s) + 1 THEN <<>> ELSE Closer(s[i]) \o f[i + 1]]

LEMMA ConsAt ==
  ASSUME NEW x, NEW s, List(s)
  PROVE  /\ Len(s) \in Nat /\ Len(Cons(x, s)) = Len(s) + 1
         /\ Cons(x, s)[1] = x /\ \A i \in 1 .. Len(s) : Cons(x, s)[i + 1] = s[i]
<1>1. PICK S : s \in Seq(S)
  BY DEF List
<1>2. PICK T : T = S \cup {x}
  OBVIOUS
<1>3. s \in Seq(T) /\ <<x>> \in Seq(T) /\ Len(<<x>>) = 1 /\ <<x>>[1] = x
  BY <1>1, <1>2
<1>4. Len(s) \in Nat
  BY <1>3, LenProperties
<1>5. /\ Len(Cons(x, s)) = 1 + Len(s)
      /\ \A i \in 1 .. 1 + Len(s) : Cons(x, s)[i] = IF i <= 1 THEN <<x>>[i] ELSE s[i - 1]
  BY <1>3, ConcatProperties DEF Cons
<1>6. Cons(x, s)[1] = x
  BY <1>3, <1>4, <1>5
<1>7. ASSUME NEW i \in 1 .. Len(s) PROVE Cons(x, s)[i + 1] = s[i]
  BY <1>4, <1>5
<1> QED  BY <1>4, <1>5, <1>6, <1>7

LEMMA OwingExists ==
  ASSUME NEW s, List(s)
  PROVE  \E f : Owing(s, f)
<1> DEFINE n == Len(s)
<1>0. n \in Nat
  BY LenProperties DEF List
<1> HIDE DEF n
<1> DEFINE P(m) == \E f : f = [i \in n + 1 - m .. n + 1 |->
                                 IF i = n + 1 THEN <<>> ELSE Closer(s[i]) \o f[i + 1]]
           T == {m \in 0 .. n : P(m)}
<1>1. P(0)
  <2> DEFINE f == [i \in n + 1 .. n + 1 |-> <<>>]
  <2>1. f = [i \in n + 1 - 0 .. n + 1 |-> IF i = n + 1 THEN <<>> ELSE Closer(s[i]) \o f[i + 1]]
    BY <1>0
  <2> HIDE DEF f
  <2> QED  BY <2>1
<1>2. ASSUME NEW m \in 1 .. n, P(m - 1) PROVE P(m)
  <2> DEFINE lo == n + 1 - m
  <2>0. lo \in Int /\ lo < n + 1 /\ n + 1 - (m - 1) = lo + 1
    BY <1>0
   <2>1. PICK f : f = [i \in lo + 1 .. n + 1 |-> IF i = n + 1 THEN <<>> ELSE Closer(s[i]) \o f[i +
        1]]
    BY <1>2, <2>0
  <2> HIDE DEF lo
  <2> DEFINE g == [i \in lo .. n + 1 |-> IF i = lo THEN Closer(s[i]) \o f[i + 1] ELSE f[i]]
  <2>2. \A i \in lo + 1 .. n + 1 : g[i] = f[i]
    BY <1>0, <2>0
  <2>3. g[lo] = Closer(s[lo]) \o f[lo + 1]
    <3>1. lo \in lo .. n + 1
      BY <1>0, <2>0
    <3> QED  BY <3>1
  <2>4. g = [i \in lo .. n + 1 |-> g[i]]
    OBVIOUS
  <2> HIDE DEF g
  <2>5. ASSUME NEW i \in lo .. n + 1
        PROVE  g[i] = IF i = n + 1 THEN <<>> ELSE Closer(s[i]) \o g[i + 1]
    <3>1. CASE i = lo
      <4>1. lo + 1 \in lo + 1 .. n + 1 /\ i # n + 1
        BY <1>0, <2>0, <3>1
      <4> QED  BY <2>2, <2>3, <3>1, <4>1
    <3>2. CASE i # lo
      <4>1. i \in lo + 1 .. n + 1 /\ (i # n + 1 => i + 1 \in lo + 1 .. n + 1)
        BY <1>0, <2>0, <3>2
      <4>2. f[i] = IF i = n + 1 THEN <<>> ELSE Closer(s[i]) \o f[i + 1]
        BY <2>1, <4>1
      <4> QED  BY <2>2, <4>1, <4>2
    <3> QED  BY <3>1, <3>2
  <2>6. g = [i \in lo .. n + 1 |-> IF i = n + 1 THEN <<>> ELSE Closer(s[i]) \o g[i + 1]]
    BY <2>4, <2>5
  <2> QED  BY <2>6 DEF lo
<1> HIDE DEF P
<1>3. 0 \in T /\ \A i \in 1 .. n : i - 1 \in T => i \in T
  BY <1>0, <1>1, <1>2
<1> HIDE DEF T
<1>4. n \in T
  BY <1>0, <1>3, UpTo
<1>5. P(n) /\ n + 1 - n = 1
  BY <1>0, <1>4 DEF T
<1> QED  BY <1>5 DEF P, Owing, n

LEMMA OwingOne ==
  ASSUME NEW s, List(s), NEW f, NEW g, Owing(s, f), Owing(s, g)
  PROVE  f[1] = g[1] /\ f[1] \in Seq({"end", "until"})
<1> DEFINE n == Len(s)
           W == {"end", "until"}
           T == {m \in 0 .. n : f[n + 1 - m] = g[n + 1 - m] /\ f[n + 1 - m] \in Seq(W)}
<1>0. n \in Nat
  BY LenProperties DEF List
<1>1. /\ \A i \in 1 .. n + 1 : f[i] = IF i = n + 1 THEN <<>> ELSE Closer(s[i]) \o f[i + 1]
      /\ \A i \in 1 .. n + 1 : g[i] = IF i = n + 1 THEN <<>> ELSE Closer(s[i]) \o g[i + 1]
  BY DEF Owing
<1>w. \A x : Closer(x) \in Seq(W)
  <2>1. <<"end">> \in Seq(W) /\ <<"until">> \in Seq(W) /\ <<>> \in Seq(W)
    OBVIOUS
  <2> QED  BY Zenon, <2>1 DEF Closer
<1> HIDE DEF n, W
<1>2. 0 \in T
  <2>1. n + 1 \in 1 .. n + 1 /\ n + 1 - 0 = n + 1
    BY <1>0
  <2>2. f[n + 1] = <<>> /\ g[n + 1] = <<>> /\ <<>> \in Seq(W)
    BY <1>1, <2>1, EmptySeq
  <2>3. f[n + 1 - 0] = g[n + 1 - 0] /\ f[n + 1 - 0] \in Seq(W)
    BY <2>1, <2>2
  <2> QED  BY <1>0, <2>3
<1>3. ASSUME NEW m \in 1 .. n, m - 1 \in T PROVE m \in T
  <2> DEFINE i == n + 1 - m
  <2>1. i \in 1 .. n + 1 /\ i # n + 1 /\ n + 1 - (m - 1) = i + 1
    BY <1>0
  <2>2. f[i + 1] = g[i + 1] /\ f[i + 1] \in Seq(W)
    BY <1>3, <2>1
  <2> HIDE DEF i
  <2>3. f[i] = Closer(s[i]) \o f[i + 1] /\ g[i] = Closer(s[i]) \o g[i + 1]
    BY <1>1, <2>1
  <2>4. f[i] = g[i] /\ f[i] \in Seq(W)
    BY <1>w, <2>2, <2>3, ConcatProperties
  <2> QED  BY <1>0, <2>4 DEF i
<1> HIDE DEF T
<1>4. n \in T /\ n + 1 - n = 1
  BY <1>0, <1>2, <1>3, UpTo
<1> QED  BY <1>4 DEF T, W

LEMMA ClosersIs ==
  ASSUME NEW s, List(s), NEW f, Owing(s, f)
  PROVE  Closers(s) = f[1] /\ f[1] \in Seq({"end", "until"})
<1> DEFINE Body(h) == [i \in 1 .. Len(s) + 1 |->
                         IF i = Len(s) + 1 THEN <<>> ELSE Closer(s[i]) \o h[i + 1]]
           owed == CHOOSE h : h = Body(h)
<1>1. \E h : h = Body(h)
  BY DEF Owing
<1>2. owed = Body(owed)
  <2> HIDE DEF Body
  <2> QED  BY <1>1
<1>3. Closers(s) = owed[1]
  BY DEF Closers
<1> HIDE DEF owed
<1>4. Owing(s, owed)
  BY <1>2 DEF Owing
<1> HIDE DEF Body
<1> QED  BY <1>3, <1>4, OwingOne

LEMMA ClosersOf ==
  /\ Closers(<<>>) = <<>>
  /\ \A x, s : List(s) => /\ Closers(Cons(x, s)) = Closer(x) \o Closers(s)
                          /\ Closers(s) \in Seq({"end", "until"})
<1>1. Closers(<<>>) = <<>>
  <2>1. PICK f : Owing(<<>>, f)
    BY OwingExists, ListEmpty
  <2>2. f[1] = <<>>
    BY <2>1 DEF Owing
  <2> QED  BY <2>1, <2>2, ClosersIs, ListEmpty
<1>2. ASSUME NEW x, NEW s, List(s)
      PROVE  Closers(Cons(x, s)) = Closer(x) \o Closers(s) /\ Closers(s) \in Seq({"end", "until"})
  <2>1. PICK f : Owing(s, f)
    BY <1>2, OwingExists
  <2> DEFINE n == Len(s)
             u == Cons(x, s)
  <2>2. n \in Nat /\ Len(u) = n + 1 /\ u[1] = x /\ (\A i \in 1 .. n : u[i + 1] = s[i]) /\ List(u)
    BY <1>2, ConsAt, ConsList
  <2>3. \A i \in 1 .. n + 1 : f[i] = IF i = n + 1 THEN <<>> ELSE Closer(s[i]) \o f[i + 1]
    BY <2>1 DEF Owing
  <2> HIDE DEF n, u
  <2> DEFINE g == [i \in 1 .. n + 2 |-> IF i = 1 THEN Closer(x) \o f[1] ELSE f[i - 1]]
  <2>4. g[1] = Closer(x) \o f[1] /\ \A i \in 1 .. n + 1 : g[i + 1] = f[i]
    BY <2>2
  <2>5. g = [i \in 1 .. n + 2 |-> g[i]]
    OBVIOUS
  <2> HIDE DEF g
  <2>6. ASSUME NEW i \in 1 .. n + 2
        PROVE  g[i] = IF i = n + 2 THEN <<>> ELSE Closer(u[i]) \o g[i + 1]
    <3>1. CASE i = 1
      <4>1. i # n + 2 /\ 1 \in 1 .. n + 1
        BY <2>2, <3>1
      <4>2. g[i + 1] = f[1]
        BY <2>4, <3>1, <4>1
      <4> QED  BY <2>2, <2>4, <3>1, <4>1, <4>2
    <3>2. CASE i # 1
      <4> DEFINE j == i - 1
      <4>1. j \in 1 .. n + 1 /\ i = j + 1 /\ (i = n + 2 <=> j = n + 1)
        BY <2>2, <3>2
      <4>2. j # n + 1 => j \in 1 .. n /\ j + 1 \in 1 .. n + 1
        BY <2>2, <4>1
      <4> HIDE DEF j
      <4>3. g[i] = f[j] /\ (j # n + 1 => g[i + 1] = f[j + 1] /\ u[i] = s[j])
        BY <2>2, <2>4, <4>1, <4>2
      <4>4. f[j] = IF j = n + 1 THEN <<>> ELSE Closer(s[j]) \o f[j + 1]
        BY <2>3, <4>1
      <4> QED  BY <4>1, <4>3, <4>4
    <3> QED  BY <3>1, <3>2
  <2>7. n + 2 = Len(u) + 1
    BY <2>2
  <2>8. Owing(u, g)
    BY <2>5, <2>6, <2>7 DEF Owing
  <2>9. Closers(u) = g[1] /\ Closers(s) = f[1] /\ f[1] \in Seq({"end", "until"})
    BY <1>2, <2>1, <2>2, <2>8, ClosersIs
  <2> QED  BY <2>4, <2>9 DEF u
<1> QED  BY <1>1, <1>2

(***************************************************************************)
(* A program no block of which is about to be opened.                      *)
(***************************************************************************)
Tame(s)  == \A i \in 1 .. Len(s) : s[i] \notin Openers
Plain(x) == x \notin EndsBlock \cup {"until"}

LEMMA TameOf ==
  /\ Tame(<<>>)
  /\ \A x, s : List(s) => (Tame(Cons(x, s)) <=> x \notin Openers /\ Tame(s))
<1>1. Tame(<<>>)
  BY DEF Tame
<1>2. ASSUME NEW x, NEW s, List(s)
      PROVE  Tame(Cons(x, s)) <=> x \notin Openers /\ Tame(s)
  <2> DEFINE n == Len(s)
             u == Cons(x, s)
  <2>1. n \in Nat /\ Len(u) = n + 1 /\ u[1] = x /\ \A i \in 1 .. n : u[i + 1] = s[i]
    BY <1>2, ConsAt
  <2> HIDE DEF n, u
  <2>2. ASSUME \A i \in 1 .. n + 1 : u[i] \notin Openers
        PROVE  x \notin Openers /\ \A i \in 1 .. n : s[i] \notin Openers
    <3>1. 1 \in 1 .. n + 1 /\ \A i \in 1 .. n : i + 1 \in 1 .. n + 1
      BY <2>1
    <3> QED  BY <2>1, <2>2, <3>1
  <2>3. ASSUME x \notin Openers, \A i \in 1 .. n : s[i] \notin Openers, NEW i \in 1 .. n + 1
        PROVE  u[i] \notin Openers
    <3>1. CASE i = 1
      BY <2>1, <2>3, <3>1
    <3>2. CASE i # 1
      <4>1. i - 1 \in 1 .. n /\ (i - 1) + 1 = i
        BY <2>1, <3>2
      <4> QED  BY <2>1, <2>3, <4>1
    <3> QED  BY <3>1, <3>2
  <2> QED  BY <2>1, <2>2, <2>3 DEF Tame, n, u
<1> QED  BY <1>1, <1>2

LEMMA Level ==
  /\ \A x, s : List(s) => /\ Plain(x) => Closers(Cons(x, s)) = Closers(s)
                          /\ Tame(Cons(x, s)) => x \notin Openers /\ Tame(s)
  /\ \A x, y, s, u : x \in EndsBlock /\ y \in EndsBlock /\ List(s) /\ List(u)
                      /\ Closers(s) = Closers(u) => Closers(Cons(x, s)) = Closers(Cons(y, u))
  /\ \A x, s, u : List(s) /\ List(u) /\ Closers(s) = Closers(u)
                  => Closers(Cons(x, s)) = Closers(Cons(x, u))
<1>1. ASSUME NEW x, NEW s, List(s), Plain(x) PROVE Closers(Cons(x, s)) = Closers(s)
  <2>1. Closer(x) = <<>>
    BY <1>1 DEF Plain, Closer
  <2>2. Closers(Cons(x, s)) = Closer(x) \o Closers(s) /\ Closers(s) \in Seq({"end", "until"})
    BY <1>1, ClosersOf
  <2> QED  BY <2>1, <2>2, ConcatEmptySeq
<1>2. \A x, y : x \in EndsBlock /\ y \in EndsBlock => Closer(x) = Closer(y)
  <2>1. \A x \in EndsBlock : Closer(x) = <<"end">>
    BY DEF Closer, EndsBlock
  <2> QED  BY <2>1
<1>3. \A x, s : List(s) => Closers(Cons(x, s)) = Closer(x) \o Closers(s)
  BY ClosersOf
<1>4. ASSUME NEW x, NEW y, NEW s, NEW u, x \in EndsBlock /\ y \in EndsBlock, List(s), List(u),
             Closers(s) = Closers(u)
      PROVE  Closers(Cons(x, s)) = Closers(Cons(y, u))
  BY Zenon, <1>2, <1>3, <1>4
<1>5. ASSUME NEW x, NEW s, NEW u, List(s), List(u), Closers(s) = Closers(u)
      PROVE  Closers(Cons(x, s)) = Closers(Cons(x, u))
  BY Zenon, <1>3, <1>5
<1>6. ASSUME NEW x, NEW s, List(s), Tame(Cons(x, s)) PROVE x \notin Openers /\ Tame(s)
  BY <1>6, TameOf
<1> QED  BY <1>1, <1>4, <1>5, <1>6

LEMMA PlainOnes ==
  /\ Plain(Comma) /\ Plain(Semi) /\ Plain(LBrace) /\ Plain(RBrace)
  /\ \A b \in Binary : Plain(b)
BY Zenon DEF Plain, EndsBlock, Comma, Semi, LBrace, RBrace, Binary

LEMMA PlainTokens ==
  /\ Plain("eof") /\ Plain("else") /\ Plain("elseif") /\ Plain("not") /\ Plain("-")
  /\ Plain("~") /\ Plain("op") /\ Plain("lit") /\ Plain("string") /\ Plain("...")
  /\ Plain("name") /\ Plain("if") /\ Plain("then") /\ Plain("while") /\ Plain("do")
  /\ Plain("repeat") /\ Plain("for") /\ Plain("in") /\ Plain("function") /\ Plain("local")
  /\ Plain("return") /\ Plain("break") /\ Plain("goto") /\ Plain("::") /\ Plain("=")
  /\ Plain("(") /\ Plain(")") /\ Plain("[") /\ Plain("]") /\ Plain(".") /\ Plain(":")
  /\ Plain("^")
BY DEF Plain, EndsBlock

LEMMA PlainNonterminals ==
  /\ Plain("Chunk") /\ Plain("Stat") /\ Plain("Values") /\ Plain("Targets") /\ Plain("Var")
  /\ Plain("Exps") /\ Plain("Names") /\ Plain("Init") /\ Plain("Clause") /\ Plain("Else")
  /\ Plain("Range") /\ Plain("Path") /\ Plain("Params") /\ Plain("More") /\ Plain("Exp")
  /\ Plain("Binop") /\ Plain("Opd") /\ Plain("Closed") /\ Plain("Sfxs") /\ Plain("Index")
  /\ Plain("Invoke") /\ Plain("Arg") /\ Plain("Items") /\ Plain("Item")
BY DEF Plain, EndsBlock

LEMMA PlainRoutines ==
  /\ Plain("Block") /\ Plain("Semicolon") /\ Plain("Statement") /\ Plain("AssignOrCall")
  /\ Plain("MoreTargets") /\ Plain("LocalKind") /\ Plain("LocalValues") /\ Plain("ForStep")
  /\ Plain("ReturnValues") /\ Plain("FunctionStatement") /\ Plain("NameTail")
  /\ Plain("Parameters") /\ Plain("Parameter") /\ Plain("MoreParameters")
  /\ Plain("MoreNames") /\ Plain("ExpressionList") /\ Plain("MoreExpressions")
  /\ Plain("Expression") /\ Plain("Operators") /\ Plain("Operand") /\ Plain("Power")
  /\ Plain("Primary") /\ Plain("Suffixes") /\ Plain("Arguments") /\ Plain("MethodArguments")
  /\ Plain("Table") /\ Plain("Fields") /\ Plain("FieldSeparator") /\ Plain("Field")
  /\ Plain("NamedField") /\ Plain("FieldOperators") /\ Plain("skip") /\ Plain("error")
BY DEF Plain, EndsBlock

LEMMA OpenersAre ==
  /\ "function" \in Openers /\ "if" \in Openers /\ "repeat" \in Openers /\ "while" \in Openers
  /\ "for" \in Openers /\ "do" \in Openers
BY DEF Openers

LEMMA EndersAre ==
  /\ "end" \in EndsBlock /\ "ElseIf" \in EndsBlock /\ "Do" \in EndsBlock /\ "ForKind" \in EndsBlock
  /\ "Inner" \in EndsBlock /\ "Body" \in EndsBlock /\ "FunctionBody" \in EndsBlock
BY DEF EndsBlock

(***************************************************************************)
(* The forms of a symbol that owes nothing owe nothing.                    *)
(***************************************************************************)
Even(r, k) == Tame(r) => Tame(k) /\ Closers(r) = Closers(k)

LEMMA EvenBinop ==
  ASSUME NEW r, NEW k, List(k), BinopAt(r, k)
  PROVE  Even(r, k)
BY ConsIsList, Level, PlainOnes, PlainTokens, PlainNonterminals, OpenersAre
   DEF BinopAt, Even

LEMMA EvenIndex ==
  ASSUME NEW r, NEW k, List(k), IndexAt(r, k)
  PROVE  Even(r, k)
BY ConsIsList, Level, PlainOnes, PlainTokens, PlainNonterminals, OpenersAre
   DEF IndexAt, Even

LEMMA EvenArg ==
  ASSUME NEW r, NEW k, List(k), ArgAt(r, k)
  PROVE  Even(r, k)
BY ConsIsList, Level, PlainOnes, PlainTokens, PlainNonterminals, OpenersAre
   DEF ArgAt, Even

LEMMA EvenInvoke ==
  ASSUME NEW r, NEW k, List(k), InvokeAt(r, k)
  PROVE  Even(r, k)
BY ConsIsList, Level, PlainOnes, PlainTokens, PlainNonterminals, OpenersAre, EvenArg
   DEF InvokeAt, Even

LEMMA EvenSfxs ==
  ASSUME NEW r, NEW k, List(k), SfxsAt(r, k)
  PROVE  Even(r, k)
BY ConsIsList, Level, PlainOnes, PlainTokens, PlainNonterminals, OpenersAre, EvenIndex, EvenInvoke
   DEF SfxsAt, Even, Suffixed

LEMMA EvenClosed ==
  ASSUME NEW r, NEW k, List(k), ClosedAt(r, k)
  PROVE  Even(r, k)
BY ConsIsList, Level, PlainOnes, PlainTokens, PlainNonterminals, OpenersAre
   DEF ClosedAt, Even

LEMMA EvenOpd ==
  ASSUME NEW r, NEW k, List(k), OpdAt(r, k)
  PROVE  Even(r, k)
BY ConsIsList, Level, PlainOnes, PlainTokens, PlainNonterminals, OpenersAre, EvenClosed
   DEF OpdAt, Even

LEMMA EvenExp ==
  ASSUME NEW r, NEW k, List(k), ExpAt(r, k)
  PROVE  Even(r, k)
BY ConsIsList, Level, PlainOnes, PlainTokens, PlainNonterminals, OpenersAre, EvenOpd
   DEF ExpAt, Even

LEMMA EvenExps ==
  ASSUME NEW r, NEW k, List(k), ExpsAt(r, k)
  PROVE  Even(r, k)
BY ConsIsList, Level, PlainOnes, PlainTokens, PlainNonterminals, OpenersAre, EvenExp
   DEF ExpsAt, Even

LEMMA EvenVar ==
  ASSUME NEW r, NEW k, List(k), VarAt(r, k)
  PROVE  Even(r, k)
BY ConsIsList, Level, PlainOnes, PlainTokens, PlainNonterminals, OpenersAre
   DEF VarAt, Even

LEMMA EvenTargets ==
  ASSUME NEW r, NEW k, List(k), TargetsAt(r, k)
  PROVE  Even(r, k)
BY ConsIsList, Level, PlainOnes, PlainTokens, PlainNonterminals, OpenersAre
   DEF TargetsAt, Even

LEMMA EvenNames ==
  ASSUME NEW r, NEW k, List(k), NamesAt(r, k)
  PROVE  Even(r, k)
BY ConsIsList, Level, PlainOnes, PlainTokens, PlainNonterminals, OpenersAre
   DEF NamesAt, Even

LEMMA EvenInit ==
  ASSUME NEW r, NEW k, List(k), InitAt(r, k)
  PROVE  Even(r, k)
BY ConsIsList, Level, PlainOnes, PlainTokens, PlainNonterminals, OpenersAre
   DEF InitAt, Even

LEMMA EvenPath ==
  ASSUME NEW r, NEW k, List(k), PathAt(r, k)
  PROVE  Even(r, k)
BY ConsIsList, Level, PlainOnes, PlainTokens, PlainNonterminals, OpenersAre
   DEF PathAt, Even

LEMMA EvenParams ==
  ASSUME NEW r, NEW k, List(k), ParamsAt(r, k)
  PROVE  Even(r, k)
BY ConsIsList, Level, PlainOnes, PlainTokens, PlainNonterminals, OpenersAre
   DEF ParamsAt, Even

LEMMA EvenMore ==
  ASSUME NEW r, NEW k, List(k), MoreAt(r, k)
  PROVE  Even(r, k)
BY ConsIsList, Level, PlainOnes, PlainTokens, PlainNonterminals, OpenersAre
   DEF MoreAt, Even

LEMMA EvenValues ==
  ASSUME NEW r, NEW k, List(k), ValuesAt(r, k)
  PROVE  Even(r, k)
BY ConsIsList, Level, PlainOnes, PlainTokens, PlainNonterminals, OpenersAre, EvenExps
   DEF ValuesAt, Even

LEMMA EvenItem ==
  ASSUME NEW r, NEW k, List(k), ItemAt(r, k)
  PROVE  Even(r, k)
BY ConsIsList, Level, PlainOnes, PlainTokens, PlainNonterminals, OpenersAre, EvenClosed
   DEF ItemAt, Even

LEMMA EvenItems ==
  ASSUME NEW r, NEW k, List(k), ItemsAt(r, k)
  PROVE  Even(r, k)
BY ConsIsList, Level, PlainOnes, PlainTokens, PlainNonterminals, OpenersAre, EvenItem
   DEF ItemsAt, Even

LEMMA EvenStat ==
  ASSUME NEW r, NEW k, List(k), StatAt(r, k)
  PROVE  Even(r, k)
BY ConsIsList, Level, PlainOnes, PlainTokens, PlainNonterminals, OpenersAre, EvenVar
   DEF StatAt, Even

LEMMA EvenChunk ==
  ASSUME NEW r, NEW k, List(k), ChunkAt(r, k)
  PROVE  Even(r, k)
BY ConsIsList, Level, PlainOnes, PlainTokens, PlainNonterminals, OpenersAre, EvenStat
   DEF ChunkAt, Even

(***************************************************************************)
(* What a call owes is what the program it reads owes.                     *)
(***************************************************************************)
Owes(a, r, k) ==
  \/ Plain(a) /\ Even(r, k)
  \/ a \in EndsBlock /\ \E y \in EndsBlock : Even(r, Cons(y, k))

LEMMA EvenSame == \A k : Even(k, k)
BY DEF Even

LEMMA EvenElse ==
  ASSUME NEW r, NEW k, List(k), ElseAt(r, Cons("end", k))
  PROVE  Even(r, Cons("end", k))
BY ConsIsList, Level, PlainTokens, PlainNonterminals DEF ElseAt, Even

LEMMA EvenBlock ==
  ASSUME NEW a, NEW r, NEW F, NEW k, NEW G, List(k), ReadsBlock(a, r, F, k, G)
  PROVE  Owes(a, r, k)
<1>1. CASE a = "Block"
   BY <1>1, EvenChunk, ConsIsList, Level, EvenSame, PlainOnes, PlainTokens, PlainNonterminals,
        PlainRoutines,
     OpenersAre, EndersAre
     DEF ReadsBlock, Owes
<1>2. CASE a = "Semicolon"
  BY <1>2, ConsIsList, Level, EvenSame, PlainOnes, PlainTokens, PlainNonterminals, PlainRoutines,
     OpenersAre, EndersAre
     DEF ReadsBlock, Owes, Even
<1>3. CASE a = "Statement"
   BY <1>3, EvenStat, ConsIsList, Level, EvenSame, PlainOnes, PlainTokens, PlainNonterminals,
        PlainRoutines,
     OpenersAre, EndersAre
     DEF ReadsBlock, Owes, Even
<1>4. CASE a \in {"AssignOrCall", "MoreTargets"}
   BY <1>4, EvenTargets, ConsIsList, Level, EvenSame, PlainOnes, PlainTokens, PlainNonterminals,
        PlainRoutines,
     OpenersAre, EndersAre
     DEF ReadsBlock, Owes, Even
<1>5. CASE a = "LocalKind"
   BY <1>5, EvenNames, ConsIsList, Level, EvenSame, PlainOnes, PlainTokens, PlainNonterminals,
        PlainRoutines,
     OpenersAre, EndersAre
     DEF ReadsBlock, Owes, Even
<1>6. CASE a = "LocalValues"
   BY <1>6, EvenInit, ConsIsList, Level, EvenSame, PlainOnes, PlainTokens, PlainNonterminals,
        PlainRoutines,
     OpenersAre, EndersAre
     DEF ReadsBlock, Owes
<1>7. CASE a = "ElseIf"
   BY <1>7, EvenElse, ConsIsList, Level, EvenSame, PlainOnes, PlainTokens, PlainNonterminals,
        PlainRoutines,
     OpenersAre, EndersAre
     DEF ReadsBlock, Owes
<1>8. CASE a = "ForKind"
  BY <1>8, ConsIsList, Level, EvenSame, PlainOnes, PlainTokens, PlainNonterminals, PlainRoutines,
     OpenersAre, EndersAre
     DEF ReadsBlock, Owes, Even
<1>9. CASE a = "ForStep"
  BY <1>9, ConsIsList, Level, EvenSame, PlainOnes, PlainTokens, PlainNonterminals, PlainRoutines,
     OpenersAre, EndersAre
     DEF ReadsBlock, Owes, Even
<1>10. CASE a = "ReturnValues"
   BY <1>10, EvenValues, ConsIsList, Level, EvenSame, PlainOnes, PlainTokens, PlainNonterminals,
        PlainRoutines,
     OpenersAre, EndersAre
     DEF ReadsBlock, Owes
<1> QED  BY <1>1, <1>2, <1>3, <1>4, <1>5, <1>6, <1>7, <1>8, <1>9, <1>10 DEF ReadsBlock

LEMMA EvenFunction ==
  ASSUME NEW a, NEW r, NEW F, NEW k, NEW G, List(k), ReadsFunction(a, r, F, k, G)
  PROVE  Owes(a, r, k)
<1>1. CASE a = "FunctionStatement"
  BY <1>1, ConsIsList, Level, EvenSame, PlainOnes, PlainTokens, PlainNonterminals, PlainRoutines,
     OpenersAre, EndersAre
     DEF ReadsFunction, Owes, Even
<1>2. CASE a = "NameTail"
   BY <1>2, EvenPath, ConsIsList, Level, EvenSame, PlainOnes, PlainTokens, PlainNonterminals,
        PlainRoutines,
     OpenersAre, EndersAre
     DEF ReadsFunction, Owes
<1>3. CASE a = "FunctionBody"
  BY <1>3, ConsIsList, Level, EvenSame, PlainOnes, PlainTokens, PlainNonterminals, PlainRoutines,
     OpenersAre, EndersAre
     DEF ReadsFunction, Owes, BodyAt, Even
<1>4. CASE a = "Parameters"
   BY <1>4, EvenParams, ConsIsList, Level, EvenSame, PlainOnes, PlainTokens, PlainNonterminals,
        PlainRoutines,
     OpenersAre, EndersAre
     DEF ReadsFunction, Owes
<1>5. CASE a \in {"Parameter", "MoreNames", "MoreExpressions"}
  BY <1>5, ConsIsList, Level, EvenSame, PlainOnes, PlainTokens, PlainNonterminals, PlainRoutines,
     OpenersAre, EndersAre
     DEF ReadsFunction, Owes, Even
<1>6. CASE a = "MoreParameters"
   BY <1>6, EvenMore, ConsIsList, Level, EvenSame, PlainOnes, PlainTokens, PlainNonterminals,
        PlainRoutines,
     OpenersAre, EndersAre
     DEF ReadsFunction, Owes
<1>7. CASE a = "ExpressionList"
   BY <1>7, EvenExps, ConsIsList, Level, EvenSame, PlainOnes, PlainTokens, PlainNonterminals,
        PlainRoutines,
     OpenersAre, EndersAre
     DEF ReadsFunction, Owes
<1> QED  BY <1>1, <1>2, <1>3, <1>4, <1>5, <1>6, <1>7 DEF ReadsFunction

LEMMA EvenExpression ==
  ASSUME NEW a, NEW r, NEW F, NEW k, NEW G, List(k), ReadsExpression(a, r, F, k, G)
  PROVE  Owes(a, r, k)
<1>1. CASE a = "Expression"
   BY <1>1, EvenExp, ConsIsList, Level, EvenSame, PlainOnes, PlainTokens, PlainNonterminals,
        PlainRoutines,
     OpenersAre, EndersAre
     DEF ReadsExpression, Owes
<1>2. CASE a \in {"Operators", "FieldOperators"}
   BY <1>2, EvenBinop, ConsIsList, Level, EvenSame, PlainOnes, PlainTokens, PlainNonterminals,
        PlainRoutines,
     OpenersAre, EndersAre
     DEF ReadsExpression, Owes, Even
<1>3. CASE a = "Operand"
   BY <1>3, EvenOpd, ConsIsList, Level, EvenSame, PlainOnes, PlainTokens, PlainNonterminals,
        PlainRoutines,
     OpenersAre, EndersAre
     DEF ReadsExpression, Owes
<1>4. CASE a = "Power"
  BY <1>4, ConsIsList, Level, EvenSame, PlainOnes, PlainTokens, PlainNonterminals, PlainRoutines,
     OpenersAre, EndersAre
     DEF ReadsExpression, Owes, Even
<1>5. CASE a = "Primary"
   BY <1>5, EvenVar, ConsIsList, Level, EvenSame, PlainOnes, PlainTokens, PlainNonterminals,
        PlainRoutines,
     OpenersAre, EndersAre
     DEF ReadsExpression, Owes, Suffixed, Even
<1>6. CASE a = "Suffixes"
   BY <1>6, EvenSfxs, ConsIsList, Level, EvenSame, PlainOnes, PlainTokens, PlainNonterminals,
        PlainRoutines,
     OpenersAre, EndersAre
     DEF ReadsExpression, Owes
<1>7. CASE a = "Arguments"
   BY <1>7, EvenExps, ConsIsList, Level, EvenSame, PlainOnes, PlainTokens, PlainNonterminals,
        PlainRoutines,
     OpenersAre, EndersAre
     DEF ReadsExpression, Owes
<1>8. CASE a = "MethodArguments"
   BY <1>8, EvenArg, ConsIsList, Level, EvenSame, PlainOnes, PlainTokens, PlainNonterminals,
        PlainRoutines,
     OpenersAre, EndersAre
     DEF ReadsExpression, Owes
<1> QED  BY <1>1, <1>2, <1>3, <1>4, <1>5, <1>6, <1>7, <1>8 DEF ReadsExpression

LEMMA EvenTable ==
  ASSUME NEW a, NEW r, NEW F, NEW k, NEW G, List(k), ReadsTable(a, r, F, k, G)
  PROVE  Owes(a, r, k)
<1>1. CASE a \in {"Table", "FieldSeparator"}
  BY <1>1, ConsIsList, Level, EvenSame, PlainOnes, PlainTokens, PlainNonterminals, PlainRoutines,
     OpenersAre, EndersAre
     DEF ReadsTable, Owes, Even
<1>2. CASE a = "Fields"
   BY <1>2, EvenItems, ConsIsList, Level, EvenSame, PlainOnes, PlainTokens, PlainNonterminals,
        PlainRoutines,
     OpenersAre, EndersAre
     DEF ReadsTable, Owes, Even
<1>3. CASE a = "Field"
   BY <1>3, EvenItem, ConsIsList, Level, EvenSame, PlainOnes, PlainTokens, PlainNonterminals,
        PlainRoutines,
     OpenersAre, EndersAre
     DEF ReadsTable, Owes
<1>4. CASE a = "NamedField"
   BY <1>4, EvenSfxs, EvenBinop, ConsIsList, Level, EvenSame, PlainOnes, PlainTokens,
        PlainNonterminals, PlainRoutines,
     OpenersAre, EndersAre
     DEF ReadsTable, Owes, Even
<1> QED  BY <1>1, <1>2, <1>3, <1>4 DEF ReadsTable

LEMMA EvenReads ==
  ASSUME NEW a, NEW r, NEW F, NEW k, NEW G, List(k), Reads(a, r, F, k, G), Tame(r)
  PROVE  Tame(k) /\ \A u : List(u) /\ Closers(u) = Closers(k) => Closers(Cons(a, u)) = Closers(r)
<1>1. Owes(a, r, k)
  BY EvenBlock, EvenFunction, EvenExpression, EvenTable DEF Reads
<1>2. CASE Plain(a) /\ Even(r, k)
  BY <1>2, Level DEF Even
<1>3. ASSUME a \in EndsBlock, NEW y \in EndsBlock, Even(r, Cons(y, k))
       PROVE  Tame(k) /\ \A u : List(u) /\ Closers(u) = Closers(k) => Closers(Cons(a, u)) =
            Closers(r)
  <2>1. Tame(Cons(y, k)) /\ Closers(r) = Closers(Cons(y, k))
    BY <1>3 DEF Even
  <2> QED  BY <1>3, <2>1, Level
<1> QED  BY <1>1, <1>2, <1>3 DEF Owes

LEMMA EvenJoint ==
   ASSUME NEW s, NEW r, NEW F, NEW s2, NEW k, NEW G, List(s2), List(k), Joint(s, r, F, s2, k, G),
        Tame(r)
  PROVE  Tame(k) /\ (Closers(s2) = Closers(k) => Closers(s) = Closers(r))
<1>1. ASSUME \E a \in {"Operators", "FieldOperators"} : s = P2("Operand", a, s2), ExpAt(r, k)
      PROVE  Tame(k) /\ (Closers(s2) = Closers(k) => Closers(s) = Closers(r))
  BY <1>1, EvenExp, ConsIsList, Level, PlainRoutines DEF Even
<1>2. ASSUME s = P3("do", "Block", "end", s2), DoAt(r, k)
      PROVE  Tame(k) /\ (Closers(s2) = Closers(k) => Closers(s) = Closers(r))
  BY <1>2, ConsIsList, Level, PlainRoutines, PlainTokens, OpenersAre, EndersAre DEF DoAt
<1>3. ASSUME s = P2("name", "ForKind", s2), RangeAt(r, Cons("Do", k))
      PROVE  Tame(k) /\ (Closers(s2) = Closers(k) => Closers(s) = Closers(r))
  <2>1. Even(r, Cons("Do", k))
     BY <1>3, EvenNames, ConsIsList, Level, PlainOnes, PlainTokens, PlainNonterminals DEF RangeAt,
          Even
  <2> QED  BY <1>3, <2>1, ConsIsList, Level, PlainTokens, EndersAre DEF Even
<1>4. ASSUME s = P4("Expression", "then", "Block", "ElseIf", s2), ClauseAt(r, Cons("end", k))
      PROVE  Tame(k) /\ (Closers(s2) = Closers(k) => Closers(s) = Closers(r))
  <2>1. Even(r, Cons("end", k))
     BY <1>4, EvenExp, ConsIsList, Level, PlainOnes, PlainTokens, PlainNonterminals DEF ClauseAt,
          Even
  <2> QED  BY <1>4, <2>1, ConsIsList, Level, PlainTokens, PlainRoutines, EndersAre DEF Even
<1>5. ASSUME s = P2("Block", "end", s2), InnerAt(r, k)
      PROVE  Tame(k) /\ (Closers(s2) = Closers(k) => Closers(s) = Closers(r))
  BY <1>5, EvenChunk, ConsIsList, Level, PlainRoutines, EndersAre DEF InnerAt, Even
<1>6. ASSUME s = P2("name", "MoreNames", s2), NamesAt(r, k)
      PROVE  Tame(k) /\ (Closers(s2) = Closers(k) => Closers(s) = Closers(r))
  BY <1>6, EvenNames, ConsIsList, Level, PlainTokens, PlainRoutines DEF Even
<1>7. ASSUME s = P2("Expression", "MoreExpressions", s2), ExpsAt(r, k)
      PROVE  Tame(k) /\ (Closers(s2) = Closers(k) => Closers(s) = Closers(r))
  BY <1>7, EvenExps, ConsIsList, Level, PlainRoutines DEF Even
<1> QED  BY <1>1, <1>2, <1>3, <1>4, <1>5, <1>6, <1>7 DEF Joint

LEMMA RoutinesNoTokens ==
  \A x \in {"ElseIf", "Do", "ForKind", "Inner", "Body", "FunctionBody"} : x \notin Token
BY Zenon DEF Token, BlockEnd, Unary, Binary, Atomic, Separator

LEMMA EvenLink ==
   ASSUME NEW s, NEW r, NEW F, NEW s2, NEW k, NEW G, List(s2), List(k), Link(s, r, F, s2, k, G),
        Tame(r)
  PROVE  /\ Tame(k) /\ (Closers(s2) = Closers(k) => Closers(s) = Closers(r))
         /\ Len(s2) < Len(s)
<1>1. Len(s2) < Len(s)
  <2>1. \A x, u : List(u) => Len(u) \in Nat /\ Len(Cons(x, u)) = Len(u) + 1
    BY ConsLength
  <2> QED  BY <2>1, ConsIsList DEF Link, Takes, Joint
<1>2. CASE Takes(s, r, F, s2, k)
  <2>1. PICK x : /\ s = Cons(x, s2) \/ (s = Cons("skip", s2) /\ Plain(x))
                 /\ r = Cons(x, k)
    <3>1. \A x \in Token : x \notin {"end", "until"} => Plain(x)
      BY RoutinesNoTokens DEF Plain, EndsBlock
    <3> QED  BY <1>2, <3>1 DEF Takes
  <2> QED  BY <1>1, <2>1, Level, PlainRoutines
<1>3. CASE \E a : s = Cons(a, s2) /\ Reads(a, r, F, k, G)
  BY <1>1, <1>3, EvenReads
<1>4. CASE Joint(s, r, F, s2, k, G)
  BY <1>1, <1>4, EvenJoint
<1> QED  BY <1>2, <1>3, <1>4 DEF Link

LEMMA EvenCouple ==
  ASSUME NEW s, NEW r, NEW F, Couple(s, r, F), Tame(r)
  PROVE  Closers(s) = Closers(r)
<1> DEFINE Bad(u, l) == (\E E : Couple(u, l, E)) /\ Tame(l) /\ Closers(u) # Closers(l)
           Lengths   == {n \in Nat : \E u, l : Bad(u, l) /\ Len(u) = n}
<1>1. ASSUME NEW u, NEW l, Bad(u, l)
      PROVE  \E u2, l2 : Bad(u2, l2) /\ Len(u2) < Len(u)
  <2>1. PICK E : Couple(u, l, E)
    BY <1>1
  <2>2. ~ Base(u, l, E)
    <3>1. Closers(<<"eof">>) = Closers(<<>>)
      BY EofAlone, Level, ListEmpty, PlainTokens
    <3> QED  BY <1>1, <3>1 DEF Base
  <2>3. PICK u2, l2, G : Couple(u2, l2, G) /\ Link(u, l, E, u2, l2, G)
    BY <2>1, <2>2, Unfold
  <2>4. List(u2) /\ List(l2)
    BY <2>3, Unfold
  <2> QED  BY <1>1, <2>3, <2>4, EvenLink
<1>2. SUFFICES ASSUME Bad(s, r) PROVE FALSE
  OBVIOUS
<1>3. \A u, l : Bad(u, l) => Len(u) \in Lengths
  <2> SUFFICES ASSUME NEW u, NEW l, Bad(u, l) PROVE Len(u) \in Nat
    OBVIOUS
  <2>1. List(u)
    BY Unfold
  <2> QED  BY <2>1, LenProperties DEF List
<1>4. PICK n \in Lengths : \A m \in Lengths : n <= m
  <2>1. Lengths \subseteq Nat /\ Lengths # {}
    BY <1>2, <1>3
  <2> HIDE DEF Lengths
  <2> QED  BY <2>1, MinimumExists
<1>5. PICK u, l : Bad(u, l) /\ Len(u) = n
  BY <1>4
<1>6. PICK u2, l2 : Bad(u2, l2) /\ Len(u2) < n
  BY <1>1, <1>5
<1>7. Len(u2) \in Lengths
  BY <1>3, <1>6
<1>8. n <= Len(u2) /\ n \in Nat /\ Len(u2) \in Nat
  BY <1>4, <1>7
<1> QED
  <2> HIDE DEF Bad, Lengths
  <2> QED  BY <1>6, <1>8

(***************************************************************************)
(* What is left of the program is tame but for the opening word in front.  *)
(***************************************************************************)
Orderly(r) ==
  \/ Tame(r)
  \/ \E x, u : List(u) /\ Tame(u) /\ (r = Cons(x, u) \/ r = P2("local", x, u))

LEMMA SignsOpenNothing ==
  /\ Comma \notin Openers /\ Semi \notin Openers /\ LBrace \notin Openers /\ RBrace \notin Openers
  /\ \A b \in Binary : b \notin Openers
BY Zenon DEF Openers, Comma, Semi, LBrace, RBrace, Binary

LEMMA OrderlyDerived ==
  ASSUME Forms = {}, NEW n, NEW k, NEW r2, List(k), Tame(k), Derives(Cons(n, k), r2)
  PROVE  Orderly(r2)
<1>1. CASE n = "Chunk"
  BY <1>1, DeriveChunk, ConsIsList, TameOf, SignsOpenNothing DEF Orderly, Openers
<1>2. CASE n = "Stat"
  BY <1>2, DeriveStat, ConsIsList, TameOf, SignsOpenNothing DEF Orderly, Openers
<1>3. CASE n \in {"Values", "Targets", "Var"}
   BY <1>3, DeriveValues, DeriveTargets, DeriveVar, ConsIsList, TameOf, SignsOpenNothing DEF
        Orderly, Openers
<1>4. CASE n \in {"Exps", "Names", "Init"}
   BY <1>4, DeriveExps, DeriveNames, DeriveInit, ConsIsList, TameOf, SignsOpenNothing DEF Orderly,
        Openers
<1>5. CASE n \in {"Do", "Clause", "Else"}
   BY <1>5, DeriveDo, DeriveClause, DeriveElse, ConsIsList, TameOf, SignsOpenNothing DEF Orderly,
        Openers
<1>6. CASE n \in {"Range", "Path"}
  BY <1>6, DeriveRange, DerivePath, ConsIsList, TameOf, SignsOpenNothing DEF Orderly, Openers
<1>7. CASE n \in {"Body", "Inner", "Params"}
   BY <1>7, DeriveBody, DeriveInner, DeriveParams, ConsIsList, TameOf, SignsOpenNothing DEF
        Orderly, Openers
<1>8. CASE n \in {"More", "Exp", "Binop"}
   BY <1>8, DeriveMore, DeriveExp, DeriveBinop, ConsIsList, TameOf, SignsOpenNothing DEF Orderly,
        Openers
<1>9. CASE n \in {"Opd", "Sfxs"}
  BY <1>9, DeriveOpd, DeriveSfxs, ConsIsList, TameOf, SignsOpenNothing DEF Orderly, Openers
<1>10. CASE n = "Closed"
  BY <1>10, DeriveClosed, ConsIsList, TameOf, SignsOpenNothing DEF Orderly, Openers
<1>11. CASE n \in {"Index", "Invoke"}
  BY <1>11, DeriveIndex, DeriveInvoke, ConsIsList, TameOf, SignsOpenNothing DEF Orderly, Openers
<1>12. CASE n \in {"Arg", "Items"}
  BY <1>12, DeriveArg, DeriveItems, ConsIsList, TameOf, SignsOpenNothing DEF Orderly, Openers
<1>13. CASE n = "Item"
  BY <1>13, DeriveItem, ConsIsList, TameOf, SignsOpenNothing DEF Orderly, Openers
<1>14. n \in DOMAIN Rules
  BY DerivesFront
<1> QED  BY Zenon, <1>1, <1>2, <1>3, <1>4, <1>5, <1>6, <1>7, <1>8, <1>9, <1>10, <1>11, <1>12,
      <1>13, <1>14, NonterminalsAre

LEMMA BeforeEof ==
  ASSUME NEW s, List(s)
  PROVE  Closers(Run(s, Eof)) = Closers(s) /\ (Tame(s) => Tame(Run(s, Eof)))
<1> DEFINE n == Len(s)
           u == Run(s, Eof)
<1>1. n \in Nat /\ List(u) /\ Len(u) = n + 1 /\ (\A i \in 1 .. n : u[i] = s[i]) /\ u[n + 1] = "eof"
  <2>1. PICK S : s \in Seq(S)
    BY DEF List
  <2>2. PICK T : T = S \cup {"eof"}
    OBVIOUS
  <2>3. s \in Seq(T) /\ Eof \in Seq(T) /\ Len(Eof) = 1 /\ Eof[1] = "eof"
    BY <2>1, <2>2 DEF Eof
  <2>4. n \in Nat
    BY <2>3, LenProperties
  <2>6. /\ u \in Seq(T) /\ Len(u) = Len(s) + Len(Eof)
        /\ \A i \in 1 .. Len(s) + Len(Eof) : u[i] = IF i <= Len(s) THEN s[i] ELSE Eof[i - Len(s)]
    BY <2>3, ConcatProperties DEF Run
  <2> HIDE DEF u
  <2>5. /\ u \in Seq(T) /\ Len(u) = n + 1
        /\ \A i \in 1 .. n + 1 : u[i] = IF i <= n THEN s[i] ELSE Eof[i - n]
    BY <2>6, <2>3
  <2>7. \A i \in 1 .. n : i \in 1 .. n + 1 /\ i <= n
    BY <2>4
  <2> HIDE DEF n
  <2>8. u[n + 1] = "eof"
    <3>1. PICK m : m = n + 1
      OBVIOUS
    <3>2. m \in 1 .. n + 1 /\ ~ (m <= n) /\ m - n = 1
      BY <2>4, <3>1
    <3>3. u[m] = Eof[m - n]
      BY Zenon, <2>5, <3>2
    <3> QED  BY <2>3, <3>1, <3>2, <3>3
  <2>9. \A i \in 1 .. n : u[i] = s[i]
    BY <2>5, <2>7
  <2> QED  BY <2>4, <2>5, <2>8, <2>9 DEF List
<1>2. PICK f : Owing(s, f)
  BY OwingExists
<1>3. \A i \in 1 .. n + 1 : f[i] = IF i = n + 1 THEN <<>> ELSE Closer(s[i]) \o f[i + 1]
  BY <1>2 DEF Owing
<1> HIDE DEF n, u
<1> DEFINE g == [i \in 1 .. n + 2 |-> IF i = n + 2 THEN <<>> ELSE f[i]]
<1>4. g[n + 2] = <<>> /\ \A i \in 1 .. n + 1 : g[i] = f[i]
  BY <1>1
<1>5. g = [i \in 1 .. n + 2 |-> g[i]]
  OBVIOUS
<1> HIDE DEF g
<1>6. ASSUME NEW i \in 1 .. n + 2
      PROVE  g[i] = IF i = n + 2 THEN <<>> ELSE Closer(u[i]) \o g[i + 1]
  <2>1. CASE i = n + 2
    BY <1>4, <2>1
  <2>2. CASE i = n + 1
    <3>1. i \in 1 .. n + 1 /\ i # n + 2 /\ i + 1 = n + 2
      BY <1>1, <2>2
    <3>2. Closer(u[i]) = <<>>
      BY <1>1, <2>2, PlainTokens DEF Closer, Plain
    <3>3. g[i] = <<>> /\ g[i + 1] = <<>>
      BY <1>3, <1>4, <2>2, <3>1
    <3>4. Closer(u[i]) \o g[i + 1] = <<>>
      BY <3>2, <3>3, ListEmpty, Join0
    <3> QED  BY <3>1, <3>3, <3>4
  <2>3. CASE i \in 1 .. n
    <3>1. i \in 1 .. n + 1 /\ i + 1 \in 1 .. n + 1 /\ i # n + 1 /\ i # n + 2
      BY <1>1, <2>3
    <3> QED  BY <1>1, <1>3, <1>4, <2>3, <3>1
  <2> QED  BY <1>1, <2>1, <2>2, <2>3
<1>7. n + 2 = Len(u) + 1
  BY <1>1
<1>8. Owing(u, g)
  BY <1>5, <1>6, <1>7 DEF Owing
<1>9. Closers(u) = g[1] /\ Closers(s) = f[1] /\ g[1] = f[1]
  BY <1>1, <1>2, <1>4, <1>8, ClosersIs
<1>10. ASSUME Tame(s) PROVE Tame(u)
  <2>1. \A i \in 1 .. n + 1 : u[i] \notin Openers
    BY <1>1, <1>10 DEF Tame, Openers, n
  <2> QED  BY <1>1, <2>1 DEF Tame
<1> QED  BY <1>9, <1>10 DEF u

BlocksInv == ProgramInv /\ (slips = 0 => Orderly(rest))

LEMMA BlocksInvInit == Init => BlocksInv
<1> SUFFICES ASSUME Init PROVE BlocksInv
  OBVIOUS
<1>1. rest = Cons("Chunk", <<>>)
  BY ListEmpty DEF Init, Cons
<1>2. Tame(rest)
  BY <1>1, ListEmpty, TameOf DEF Openers
<1> QED  BY <1>2, ProgramInvInit DEF BlocksInv, Orderly

LEMMA OrderlyFront ==
  ASSUME NEW n, NEW k, List(k), Orderly(Cons(n, k)), n # "local"
  PROVE  Tame(k)
<1>1. CASE Tame(Cons(n, k))
  BY <1>1, TameOf
<1>2. ASSUME NEW x, NEW u, List(u), Tame(u), Cons(n, k) = Cons(x, u) \/ Cons(n, k) = P2("local",
      x, u)
      PROVE  Tame(k)
  BY <1>2, Injective, ConsIsList
<1> QED  BY <1>1, <1>2 DEF Orderly

LEMMA OrderlyTail ==
  ASSUME NEW n, NEW k, List(k), Orderly(Cons(n, k))
  PROVE  Orderly(k)
<1>1. CASE Tame(Cons(n, k))
  BY <1>1, TameOf DEF Orderly
<1>2. ASSUME NEW x, NEW u, List(u), Tame(u), Cons(n, k) = Cons(x, u) \/ Cons(n, k) = P2("local",
      x, u)
      PROVE  Orderly(k)
  <2>1. k = u \/ k = Cons(x, u)
    BY <1>2, Injective, ConsIsList
  <2> QED  BY <1>2, <2>1 DEF Orderly
<1> QED  BY <1>1, <1>2 DEF Orderly

LEMMA BlocksInvKept ==
  ASSUME Forms = {}, BlocksInv, [Reading \/ Writing \/ Done]_vars
  PROVE  BlocksInv'
<1>1. ProgramInv'
  BY ProgramInvKept DEF BlocksInv
<1>2. ASSUME slips' = 0 PROVE Orderly(rest')
  <2>1. slips = 0 /\ ~ Omit /\ ~ Mistype
    BY <1>2 DEF BlocksInv, ProgramInv, Reading, Writing, Done, Derive, Supply, EndOfText, Omit,
         Mistype, programVars, vars
  <2>2. Orderly(rest) /\ List(rest)
    BY <2>1 DEF BlocksInv, ProgramInv, InStep
  <2>3. CASE Derive
    <3>1. Derives(rest, rest')
      BY Zenon, <2>3 DEF Derive, Derives
    <3>2. rest = Cons(Head(rest), Tail(rest)) /\ List(Tail(rest)) /\ Head(rest) \in DOMAIN Rules
      BY <2>2, <2>3, ListCases DEF Derive
    <3>3. Head(rest) # "local"
      BY <3>2, NonterminalsAre
    <3>4. Tame(Tail(rest))
      BY Zenon, <2>2, <3>2, <3>3, OrderlyFront
    <3> QED  BY Zenon, <3>1, <3>2, <3>4, OrderlyDerived
  <2>4. CASE Supply
    <3>1. rest = Cons(Head(rest), Tail(rest)) /\ List(Tail(rest)) /\ rest' = Tail(rest)
      BY <2>2, <2>4, ListCases DEF Supply
    <3> QED  BY Zenon, <2>2, <3>1, OrderlyTail
  <2>5. CASE Reading \/ EndOfText \/ Done \/ UNCHANGED vars
    <3>1. rest' = rest
      BY <2>5 DEF Reading, EndOfText, Done, programVars, vars
    <3> QED  BY <2>2, <3>1
  <2> QED  BY <2>1, <2>3, <2>4, <2>5 DEF Writing
<1> QED  BY <1>1, <1>2 DEF BlocksInv

LEMMA BlocksStay ==
  ASSUME BlocksInv
  PROVE  BlocksInStep
<1> SUFFICES ASSUME slips = 0, tok = NoTok, ~ Opening PROVE Closers(stack) = Closers(rest)
  BY DEF BlocksInStep
<1>1. InStep /\ List(rest) /\ Orderly(rest)
  BY DEF BlocksInv, ProgramInv, InStep
<1>2. Tame(rest)
  <2>1. ASSUME NEW x, NEW u, List(u), Tame(u), rest = Cons(x, u) \/ rest = P2("local", x, u)
        PROVE  Tame(rest)
    <3>1. Head(rest) \notin Openers /\ Head(rest) # "local"
      BY <2>1, ConsIsList, ConsList DEF Opening
    <3> QED  BY <2>1, <3>1, ConsIsList, ConsList, TameOf
  <2> QED  BY <1>1, <2>1 DEF Orderly
<1>3. PICK F : Couple(stack, Run(rest, Eof), F)
  BY <1>1 DEF InStep, Ahead, Program
<1> QED  BY <1>1, <1>2, <1>3, BeforeEof, EvenCouple

(***************************************************************************)
(* The closing words the parser waits for are those the program owes, in   *)
(* their order, at every point of every program of the grammar but within  *)
(* the moment an opening word is read: no block is closed by the end of    *)
(* another (parser/Parser.cpp, parseBlock and the statements and functions *)
(* that expect the end of theirs).                                         *)
(***************************************************************************)
THEOREM BlocksStayInStep ==
  ASSUME Forms = {}
  PROVE  ProgramSpec => []BlocksInStep
<1>1. BlocksInv /\ [Reading \/ Writing \/ Done]_vars => BlocksInv'
  BY BlocksInvKept
<1>2. BlocksInv => BlocksInStep
  BY BlocksStay
<1> QED  BY BlocksInvInit, <1>1, <1>2, PTL DEF ProgramSpec

------------------------------------------------------------------------------
(***************************************************************************)
(* What passes without an error is balanced, whatever the tokens are.      *)
(* Every call pending has a weight: how many open blocks it closes, less   *)
(* those it opens. The pending calls together close exactly what is open:  *)
(* a routine leaves calls of its own weight, and a token that is taken     *)
(* opens what the call that wants it has the weight for.                   *)
(***************************************************************************)

\* skip takes the token that is there, and FunctionStatement begins with it:
\* they are called at once, on the token they were chosen for.
AtOnce == {"skip", "FunctionStatement", "error"}
Closing == {"ElseIf", "FunctionBody", "FunctionStatement"}
Heavy == {"function", "if", "do", "repeat", "end", "until"} \cup Closing

Weight(x) == IF x \in Closing THEN 1 ELSE - Opened(x)

\* The calls s, none of which has to be made at once, close n blocks; `c`
\* counts them from every position of s on.
Counts(c, s, n) ==
  /\ c \in Seq(Int) /\ Len(c) = Len(s) + 1
  /\ c[1] = n /\ c[Len(s) + 1] = 0
  /\ \A i \in 1 .. Len(s) : c[i] = Weight(s[i]) + c[i + 1] /\ s[i] \notin AtOnce
Rests(s, n) == List(s) /\ n \in Int /\ \E c : Counts(c, s, n)

\* The calls s, the first of which finds the token t, close n blocks.
Settled(s, n, t) ==
  \/ Rests(s, n)
  \/ \E a, u, m : /\ s = Cons(a, u) /\ Rests(u, m) /\ a \in {"skip", "FunctionStatement"}
                  /\ n + Opened(t) = Weight(a) + m /\ t # NoTok
  \/ \E u : s = Cons("error", u) /\ List(u)

Balanced == TypeOK /\ (~ failed => Settled(stack, open, tok))

LEMMA Weights ==
  /\ \A x : Opened(x) \in Int /\ Weight(x) \in Int
  /\ \A x : x \notin Heavy => Weight(x) = 0 /\ Opened(x) = 0
  /\ Weight("end") = 1 /\ Weight("until") = 1 /\ Weight("do") = -1
  /\ \A x \in Closing : Weight(x) = 1
  /\ Weight("skip") = 0 /\ Weight("FunctionStatement") = 1 /\ Opened(NoTok) = 0
  /\ \A x \in {"function", "if", "do", "repeat"} : Opened(x) = 1
<1>1. \A x : Opened(x) \in Int /\ (x \notin Heavy => Opened(x) = 0)
  BY DEF Opened, Heavy
<1>2. /\ Opened("end") = -1 /\ Opened("until") = -1 /\ Opened("do") = 1 /\ Opened("skip") = 0
      /\ Opened(NoTok) = 0
      /\ \A x \in {"function", "if", "do", "repeat"} : Opened(x) = 1
  BY DEF Opened, NoTok
<1> QED  BY <1>1, <1>2 DEF Weight, Heavy, Closing

\* A token wanted has the weight of the block it closes, or less the one it opens.
LEMMA TokensWeigh == \A x \in Token : Weight(x) = - Opened(x) /\ x \notin AtOnce
<1>1. \A x \in BlockEnd \cup Unary \cup Binary \cup Atomic \cup Separator :
        x \notin AtOnce \cup Closing
  BY Zenon DEF BlockEnd, Unary, Binary, Atomic, Separator, AtOnce, Closing
<1>2. \A x \in Token : x \notin AtOnce \cup Closing
  BY Zenon, <1>1 DEF Token, AtOnce, Closing
<1> QED  BY Zenon, <1>2 DEF Weight

LEMMA NoTokIsNone == NoTok \notin Token
BY Zenon DEF NoTok, Token, BlockEnd, Unary, Binary, Atomic, Separator

LEMMA RestsEmpty ==
  ASSUME NEW n, Rests(<<>>, n)
  PROVE  n = 0
BY DEF Rests, Counts

LEMMA NoneRests == Rests(<<>>, 0)
<1>1. Counts(<<0>>, <<>>, 0)
  BY DEF Counts
<1> QED  BY <1>1, ListEmpty DEF Rests

LEMMA RestsTail ==
  ASSUME NEW s, s # <<>>, NEW n, Rests(s, n)
  PROVE  /\ Rests(Tail(s), n - Weight(Head(s)))
         /\ Head(s) \notin AtOnce
<1>1. PICK S : s \in Seq(S)
  BY DEF Rests, List
<1>2. PICK c : Counts(c, s, n)
  BY DEF Rests
<1>3. /\ Len(s) \in Nat /\ Len(s) # 0 /\ Tail(s) \in Seq(S) /\ Len(Tail(s)) = Len(s) - 1
      /\ Head(s) = s[1]
      /\ \A i \in 1 .. Len(Tail(s)) : Tail(s)[i] = s[i + 1]
  BY <1>1, HeadTailProperties, LenProperties, EmptySeq
<1>4. c \in Seq(Int) /\ Len(c) = Len(s) + 1 /\ c # <<>>
  BY <1>2, <1>3 DEF Counts
<1>5. /\ Tail(c) \in Seq(Int) /\ Len(Tail(c)) = Len(s)
      /\ \A i \in 1 .. Len(s) : Tail(c)[i] = c[i + 1]
  BY <1>3, <1>4, HeadTailProperties
<1>6. c[1] \in Int /\ c[2] \in Int /\ c[1] = Weight(s[1]) + c[2] /\ s[1] \notin AtOnce /\ c[1] = n
  BY <1>2, <1>3, <1>4, ElementOfSeq DEF Counts
<1>7. Tail(c)[1] = n - Weight(Head(s)) /\ n - Weight(Head(s)) \in Int
  <2>1. 1 \in 1 .. Len(s) /\ Tail(c)[1] = c[2]
    BY <1>3, <1>5
  <2>2. Weight(s[1]) \in Int
    BY Weights
  <2>3. c[2] = n - Weight(s[1])
    BY <1>6, <2>2
  <2> QED  BY <1>3, <1>6, <2>1, <2>3
<1>8. Tail(c)[Len(Tail(s)) + 1] = 0
  BY <1>2, <1>3, <1>5 DEF Counts
<1>9. ASSUME NEW i \in 1 .. Len(Tail(s))
      PROVE  Tail(c)[i] = Weight(Tail(s)[i]) + Tail(c)[i + 1] /\ Tail(s)[i] \notin AtOnce
  <2>1. i \in 1 .. Len(s) /\ i + 1 \in 1 .. Len(s)
    BY <1>3
  <2> QED  BY <1>2, <1>3, <1>5, <2>1 DEF Counts
<1>10. Counts(Tail(c), Tail(s), n - Weight(Head(s)))
  BY <1>3, <1>5, <1>7, <1>8, <1>9 DEF Counts
<1> QED  BY <1>3, <1>6, <1>7, <1>10 DEF Rests, List

LEMMA RestsCons ==
  ASSUME NEW s, NEW n, Rests(s, n), NEW a, a \notin AtOnce
  PROVE  Rests(Cons(a, s), Weight(a) + n)
<1>1. PICK S : s \in Seq(S)
  BY DEF Rests, List
<1>2. PICK c : Counts(c, s, n)
  BY DEF Rests
<1> DEFINE w == Weight(a) + n
           d == <<w>> \o c
           u == Cons(a, s)
<1>3. n \in Int /\ w \in Int /\ Len(s) \in Nat /\ c \in Seq(Int) /\ Len(c) = Len(s) + 1
  BY <1>1, <1>2, Weights, LenProperties DEF Rests, Counts
<1>4. <<w>> \in Seq(Int) /\ Len(<<w>>) = 1 /\ <<w>>[1] = w
  BY <1>3
<1>5. /\ d \in Seq(Int) /\ Len(d) = 1 + Len(c) /\ d[1] = w
      /\ \A i \in 2 .. 1 + Len(c) : d[i] = c[i - 1]
  <2> HIDE DEF w
  <2> QED  BY <1>3, <1>4, ConcatProperties
<1>6. List(u) /\ Len(u) = Len(s) + 1 /\ u[1] = a /\ \A i \in 2 .. Len(s) + 1 : u[i] = s[i - 1]
  <2>1. <<a>> \in Seq(S \cup {a}) /\ s \in Seq(S \cup {a}) /\ Len(<<a>>) = 1 /\ <<a>>[1] = a
    BY <1>1
  <2> QED  BY <1>3, <2>1, ConcatProperties DEF Cons, List
<1> HIDE DEF d, u, w
<1>7. ASSUME NEW i \in 1 .. Len(u)
      PROVE  d[i] = Weight(u[i]) + d[i + 1] /\ u[i] \notin AtOnce
  <2>1. CASE i = 1
    <3>1. d[2] = c[1] /\ c[1] = n
      BY <1>2, <1>3, <1>5 DEF Counts
    <3> QED  BY <1>5, <1>6, <2>1, <3>1 DEF w
  <2>2. CASE i # 1
    <3>1. i - 1 \in 1 .. Len(s) /\ i \in 2 .. Len(s) + 1 /\ i + 1 \in 2 .. 1 + Len(c)
          /\ i \in 2 .. 1 + Len(c) /\ i + 1 - 1 = i - 1 + 1
      BY <1>3, <1>6, <2>2
    <3>2. c[i - 1] = Weight(s[i - 1]) + c[i - 1 + 1] /\ s[i - 1] \notin AtOnce
      BY <1>2, <3>1 DEF Counts
    <3>3. d[i] = c[i - 1] /\ d[i + 1] = c[i + 1 - 1] /\ u[i] = s[i - 1]
      BY <1>5, <1>6, <3>1
    <3> QED  BY <3>1, <3>2, <3>3
  <2> QED  BY <2>1, <2>2
<1>8. d[Len(u) + 1] = 0
  BY <1>2, <1>3, <1>5, <1>6 DEF Counts
<1>9. Counts(d, u, w)
  BY <1>3, <1>5, <1>6, <1>7, <1>8 DEF Counts
<1> QED  BY <1>3, <1>6, <1>9 DEF Rests, u, w

LEMMA Settles ==
  ASSUME NEW s, NEW n, Rests(s, n), NEW t
  PROVE  /\ List(s) /\ n \in Int
         /\ \A a : a \notin Heavy \cup AtOnce => Rests(Cons(a, s), n)
         /\ Rests(Cons("end", s), n + 1) /\ Rests(Cons("until", s), n + 1)
         /\ Rests(Cons("ElseIf", s), n + 1) /\ Rests(Cons("FunctionBody", s), n + 1)
         /\ Rests(Cons("do", s), n - 1)
         /\ Settled(s, n, t)
         /\ t \in Token \ Heavy => Settled(Cons("skip", s), n, t)
         /\ Settled(Cons("FunctionStatement", s), n, "function")
         /\ Settled(Cons("error", s), n, t)
<1>1. List(s) /\ n \in Int
  BY DEF Rests
<1>2. \A a : a \notin Heavy \cup AtOnce => Rests(Cons(a, s), n)
  <2> TAKE a
  <2> HAVE a \notin Heavy \cup AtOnce
  <2>1. Rests(Cons(a, s), Weight(a) + n) /\ Weight(a) = 0
    BY RestsCons, Weights
  <2> QED  BY <1>1, <2>1
<1>3. \A x \in {"end", "until", "ElseIf", "FunctionBody", "do"} :
        Rests(Cons(x, s), Weight(x) + n)
  BY RestsCons DEF AtOnce
<1>4. /\ Rests(Cons("end", s), n + 1) /\ Rests(Cons("until", s), n + 1)
      /\ Rests(Cons("ElseIf", s), n + 1) /\ Rests(Cons("FunctionBody", s), n + 1)
      /\ Rests(Cons("do", s), n - 1)
  <2>1. /\ Weight("end") + n = n + 1 /\ Weight("until") + n = n + 1
        /\ Weight("ElseIf") + n = n + 1 /\ Weight("FunctionBody") + n = n + 1
        /\ Weight("do") + n = n - 1
    BY <1>1, Weights DEF Closing
  <2> QED  BY <1>3, <2>1
<1>5. ASSUME t \in Token \ Heavy PROVE Settled(Cons("skip", s), n, t)
  <2>1. n + Opened(t) = Weight("skip") + n
    BY <1>1, <1>5, Weights
  <2>2. t # NoTok
    BY Zenon, <1>5, NoTokIsNone
  <2> QED  BY <2>1, <2>2 DEF Settled
<1>7. Settled(Cons("FunctionStatement", s), n, "function")
  <2>1. n + Opened("function") = Weight("FunctionStatement") + n
    BY <1>1, Weights
  <2> QED  BY <2>1 DEF Settled, NoTok
<1> QED  BY <1>1, <1>2, <1>4, <1>5, <1>7 DEF Settled

LEMMA SignsAreLight ==
  /\ Comma \notin Heavy \cup AtOnce /\ Semi \notin Heavy \cup AtOnce
  /\ LBrace \notin Heavy \cup AtOnce /\ RBrace \notin Heavy \cup AtOnce
  /\ \A b \in Unary \cup Binary \cup Atomic \cup Separator : b \notin Heavy \cup AtOnce
BY Zenon DEF Heavy, Closing, AtOnce, Comma, Semi, LBrace, RBrace, Unary, Binary, Atomic, Separator

LEMMA RestsLight ==
  ASSUME NEW s, NEW n, Rests(s, n), NEW a, a \notin Heavy \cup AtOnce
  PROVE  Rests(Cons(a, s), n)
BY Settles

LEMMA SettledRests ==
  ASSUME NEW s, NEW n, Rests(s, n), NEW t
  PROVE  List(s) /\ Settled(s, n, t) /\ Settled(Cons("error", s), n, t)
BY Settles

LEMMA SettledSkip ==
  ASSUME NEW s, NEW n, Rests(s, n), NEW t \in Token, t \notin Heavy
  PROVE  Settled(Cons("skip", s), n, t)
BY Settles

LEMMA SettledOpener ==
  ASSUME NEW s, NEW n \in Int, Rests(s, n + 1), NEW t, t \in {"function", "if", "do", "repeat"}
  PROVE  Settled(Cons("skip", s), n, t)
<1>1. n + Opened(t) = Weight("skip") + (n + 1)
  BY Weights
<1>2. t # NoTok
  BY DEF NoTok
<1> QED  BY <1>1, <1>2 DEF Settled

\* What the routines call on the tokens no valid program has there.
LEMMA OtherwiseIs ==
  ASSUME NEW s, List(s), NEW x
  PROVE  /\ x \in Atomic => Run(Primary(x), s) = P2("skip", "Suffixes", s)
         /\ x \notin Atomic \cup {"(", LBrace, "function"} =>
              Run(Primary(x), s) = P2("error", "skip", s)
         /\ x \notin {"(", "string", LBrace} => Run(MethodArguments(x), s) = s
         /\ x # "..." => Run(Parameter(x), s) = P2("name", "MoreParameters", s)
         /\ x \in {RBrace, "eof"} => Run(Fields(x), s) = Cons(RBrace, s)
         /\ x \in Separator => Run(Fields(x), s) = P2("skip", "Fields", s)
         /\ x \notin Separator \cup {RBrace, "eof"} =>
              Run(Fields(x), s) = P3("Field", "FieldSeparator", "Fields", s)
         /\ x \notin BlockEnd => Run(Block(x), s) = P3("Statement", "Semicolon", "Block", s)
         /\ x \notin {"if", "while", "repeat", "for", "function", "local", "return", "break",
                      "goto", "::", "do"} =>
              Run(Statement(x), s) = P2("Primary", "AssignOrCall", s)
         /\ x # "function" => Run(LocalKind(x), s) = P3("name", "MoreNames", "LocalValues", s)
         /\ x \notin {"elseif", "else"} => Run(ElseIf(x), s) = Cons("end", s)
         /\ x \in Unary => Run(Operand(x), s) = P2("skip", "Operand", s)
<1> HIDE DEF P2, P3, P4, P5, P6, P7, P8
<1>1. /\ x \in Atomic => Primary(x) = <<"skip", "Suffixes">>
      /\ x \notin Atomic \cup {"(", LBrace, "function"} => Primary(x) = <<"error", "skip">>
      /\ x \notin {"(", "string", LBrace} => MethodArguments(x) = <<>>
      /\ x # "..." => Parameter(x) = <<"name", "MoreParameters">>
  BY Zenon DEF Primary, MethodArguments, Parameter, LBrace, Atomic
<1>2. /\ x \in {RBrace, "eof"} => Fields(x) = <<RBrace>>
      /\ x \in Separator => Fields(x) = <<"skip", "Fields">>
      /\ x \notin Separator \cup {RBrace, "eof"} =>
           Fields(x) = <<"Field", "FieldSeparator", "Fields">>
  BY Zenon DEF Fields, RBrace, Separator
<1>3. /\ x \notin BlockEnd => Block(x) = <<"Statement", "Semicolon", "Block">>
      /\ x \notin {"if", "while", "repeat", "for", "function", "local", "return", "break",
                   "goto", "::", "do"} => Statement(x) = <<"Primary", "AssignOrCall">>
  BY Zenon DEF Block, Statement
<1>4. /\ x # "function" => LocalKind(x) = <<"name", "MoreNames", "LocalValues">>
      /\ x \notin {"elseif", "else"} => ElseIf(x) = <<"end">>
      /\ x \in Unary => Operand(x) = <<"skip", "Operand">>
  BY Zenon DEF LocalKind, ElseIf, Operand
<1>5. \A a, b, c : /\ Run(<<>>, s) = s /\ Run(<<a>>, s) = Cons(a, s)
                  /\ Run(<<a, b>>, s) = P2(a, b, s) /\ Run(<<a, b, c>>, s) = P3(a, b, c, s)
  BY Zenon, Join0, Join1, Join2, Join3 DEF Run
<1> QED  BY Zenon, <1>1, <1>2, <1>3, <1>4, <1>5

(***************************************************************************)
(* Each routine leaves calls of its own weight, on every token.            *)
(***************************************************************************)
LEMMA BalanceSuffixes ==
  ASSUME NEW s, NEW n, Rests(s, n), NEW t \in Token
  PROVE  Settled(Run(Suffixes(t), s), n, t)
<1>1. CASE t \in {".", "[", ":", "(", "string"}
  BY <1>1, RestsLight, SettledRests, SettledSkip, SuffixesIs DEF Heavy, Closing, AtOnce
<1>2. CASE t = LBrace
  BY <1>2, RestsLight, SettledRests, SuffixesIs DEF Heavy, Closing, AtOnce
<1>3. CASE t \notin SufFirst
  BY <1>3, SettledRests, SuffixesIs
<1> QED  BY <1>1, <1>2, <1>3 DEF SufFirst

LEMMA BalancePower ==
  ASSUME NEW s, NEW n, Rests(s, n), NEW t \in Token
  PROVE  Settled(Run(Power(t), s), n, t)
BY RestsLight, SettledRests, SettledSkip, SignsAreLight, PowerIs DEF Heavy, Closing, AtOnce

LEMMA BalanceOperators ==
  ASSUME NEW s, NEW n, Rests(s, n), NEW t \in Token
  PROVE  Settled(Run(Operators(t), s), n, t)
BY RestsLight, SettledRests, SettledSkip, SignsAreLight, OperatorsIs DEF Heavy, Closing, AtOnce

LEMMA BalanceFieldOperators ==
  ASSUME NEW s, NEW n, Rests(s, n), NEW t \in Token
  PROVE  Settled(Run(FieldOperators(t), s), n, t)
BY RestsLight, SettledRests, SettledSkip, SignsAreLight, FieldOperatorsIs DEF Heavy, Closing, AtOnce

LEMMA BalanceArguments ==
  ASSUME NEW s, NEW n, Rests(s, n), NEW t \in Token
  PROVE  Settled(Run(Arguments(t), s), n, t)
BY RestsLight, SettledRests, SettledSkip, SignsAreLight, ArgumentsIs DEF Heavy, Closing, AtOnce

LEMMA BalanceMethodArguments ==
  ASSUME NEW s, NEW n, Rests(s, n), NEW t \in Token
  PROVE  Settled(Run(MethodArguments(t), s), n, t)
BY RestsLight, SettledRests, SettledSkip, SignsAreLight, MethodArgumentsIs, OtherwiseIs DEF Heavy, Closing, AtOnce

LEMMA BalanceNameTail ==
  ASSUME NEW s, NEW n, Rests(s, n), NEW t \in Token
  PROVE  Settled(Run(NameTail(t), s), n, t)
BY RestsLight, SettledRests, SettledSkip, SignsAreLight, NameTailIs DEF Heavy, Closing, AtOnce

LEMMA BalanceParameters ==
  ASSUME NEW s, NEW n, Rests(s, n), NEW t \in Token
  PROVE  Settled(Run(Parameters(t), s), n, t)
BY RestsLight, SettledRests, SettledSkip, SignsAreLight, ParametersIs DEF Heavy, Closing, AtOnce

LEMMA BalanceParameter ==
  ASSUME NEW s, NEW n, Rests(s, n), NEW t \in Token
  PROVE  Settled(Run(Parameter(t), s), n, t)
BY RestsLight, SettledRests, SettledSkip, SignsAreLight, ParameterIs, OtherwiseIs DEF Heavy, Closing, AtOnce

LEMMA BalanceMoreParameters ==
  ASSUME NEW s, NEW n, Rests(s, n), NEW t \in Token
  PROVE  Settled(Run(MoreParameters(t), s), n, t)
BY RestsLight, SettledRests, SettledSkip, SignsAreLight, MoreParametersIs DEF Heavy, Closing, AtOnce

LEMMA BalanceMoreNames ==
  ASSUME NEW s, NEW n, Rests(s, n), NEW t \in Token
  PROVE  Settled(Run(MoreNames(t), s), n, t)
BY RestsLight, SettledRests, SettledSkip, SignsAreLight, MoreNamesIs DEF Heavy, Closing, AtOnce

LEMMA BalanceMoreExpressions ==
  ASSUME NEW s, NEW n, Rests(s, n), NEW t \in Token
  PROVE  Settled(Run(MoreExpressions(t), s), n, t)
BY RestsLight, SettledRests, SettledSkip, SignsAreLight, MoreExpressionsIs DEF Heavy, Closing, AtOnce

LEMMA BalanceFields ==
  ASSUME NEW s, NEW n, Rests(s, n), NEW t \in Token
  PROVE  Settled(Run(Fields(t), s), n, t)
BY RestsLight, SettledRests, SettledSkip, SignsAreLight, OtherwiseIs DEF Heavy, Closing, AtOnce

LEMMA BalanceFieldSeparator ==
  ASSUME NEW s, NEW n, Rests(s, n), NEW t \in Token
  PROVE  Settled(Run(FieldSeparator(t), s), n, t)
BY RestsLight, SettledRests, SettledSkip, SignsAreLight, FieldSeparatorIs DEF Heavy, Closing, AtOnce

LEMMA BalanceField ==
  ASSUME NEW s, NEW n, Rests(s, n), NEW t \in Token
  PROVE  Settled(Run(Field(t), s), n, t)
BY RestsLight, SettledRests, SettledSkip, SignsAreLight, FieldIs DEF Heavy, Closing, AtOnce

LEMMA BalanceNamedField ==
  ASSUME NEW s, NEW n, Rests(s, n), NEW t \in Token
  PROVE  Settled(Run(NamedField(t), s), n, t)
BY RestsLight, SettledRests, SettledSkip, SignsAreLight, NamedFieldIs DEF Heavy, Closing, AtOnce

LEMMA BalanceBlock ==
  ASSUME NEW s, NEW n, Rests(s, n), NEW t \in Token
  PROVE  Settled(Run(Block(t), s), n, t)
BY RestsLight, SettledRests, SettledSkip, SignsAreLight, BlockIs, OtherwiseIs DEF Heavy, Closing, AtOnce

LEMMA BalanceSemicolon ==
  ASSUME NEW s, NEW n, Rests(s, n), NEW t \in Token
  PROVE  Settled(Run(Semicolon(t), s), n, t)
BY RestsLight, SettledRests, SettledSkip, SignsAreLight, SemicolonIs DEF Heavy, Closing, AtOnce

LEMMA BalanceAssignOrCall ==
  ASSUME NEW s, NEW n, Rests(s, n), NEW t \in Token
  PROVE  Settled(Run(AssignOrCall(t), s), n, t)
BY RestsLight, SettledRests, SettledSkip, SignsAreLight, AssignOrCallIs DEF Heavy, Closing, AtOnce

LEMMA BalanceMoreTargets ==
  ASSUME NEW s, NEW n, Rests(s, n), NEW t \in Token
  PROVE  Settled(Run(MoreTargets(t), s), n, t)
BY RestsLight, SettledRests, SettledSkip, SignsAreLight, MoreTargetsIs DEF Heavy, Closing, AtOnce

LEMMA BalanceLocalValues ==
  ASSUME NEW s, NEW n, Rests(s, n), NEW t \in Token
  PROVE  Settled(Run(LocalValues(t), s), n, t)
BY RestsLight, SettledRests, SettledSkip, SignsAreLight, LocalValuesIs DEF Heavy, Closing, AtOnce

LEMMA BalanceForStep ==
  ASSUME NEW s, NEW n, Rests(s, n), NEW t \in Token
  PROVE  Settled(Run(ForStep(t), s), n, t)
BY RestsLight, SettledRests, SettledSkip, SignsAreLight, ForStepIs DEF Heavy, Closing, AtOnce

LEMMA BalanceReturnValues ==
  ASSUME NEW s, NEW n, Rests(s, n), NEW t \in Token
  PROVE  Settled(Run(ReturnValues(t), s), n, t)
BY RestsLight, SettledRests, SettledSkip, SignsAreLight, ReturnValuesIs DEF Heavy, Closing, AtOnce

LEMMA BalanceExpression ==
  ASSUME NEW s, NEW n, Rests(s, n), NEW t \in Token
  PROVE  Settled(Run(Expression(t), s), n, t)
BY RestsLight, SettledRests, SettledSkip, SignsAreLight, ExpressionIs DEF Heavy, Closing, AtOnce

LEMMA BalanceExpressionList ==
  ASSUME NEW s, NEW n, Rests(s, n), NEW t \in Token
  PROVE  Settled(Run(ExpressionList(t), s), n, t)
BY RestsLight, SettledRests, SettledSkip, SignsAreLight, ExpressionIs DEF Heavy, Closing, AtOnce

LEMMA BalanceTable ==
  ASSUME NEW s, NEW n, Rests(s, n), NEW t \in Token
  PROVE  Settled(Run(Table(t), s), n, t)
BY RestsLight, SettledRests, SettledSkip, SignsAreLight, ExpressionIs DEF Heavy, Closing, AtOnce

LEMMA BalanceOperand ==
  ASSUME NEW s, NEW n, Rests(s, n), NEW t \in Token
  PROVE  Settled(Run(Operand(t), s), n, t)
BY RestsLight, SettledRests, SettledSkip, SignsAreLight, OperandIs, OtherwiseIs DEF Heavy, Closing, AtOnce

LEMMA BalanceLocalKind ==
  ASSUME NEW s, NEW n, Rests(s, n), NEW t \in Token
  PROVE  Settled(Run(LocalKind(t), s), n, t)
<1>1. CASE t = "function"
  <2>1. Settled(Cons("FunctionStatement", s), n, "function")
    BY Settles
  <2> QED  BY <1>1, <2>1, SettledRests, LocalKindIs
<1>2. CASE t # "function"
  BY <1>2, RestsLight, SettledRests, OtherwiseIs DEF Heavy, Closing, AtOnce
<1> QED  BY <1>1, <1>2

LEMMA BalanceStatement ==
  ASSUME NEW s, NEW n, Rests(s, n), NEW t \in Token
  PROVE  Settled(Run(Statement(t), s), n, t)
<1>1. n \in Int /\ List(s) /\ Rests(s, n)
  BY Settles
<1>n. n + 1 - 1 = n
  BY <1>1
<1>2. CASE t = "if"
  <2>1. Rests(Cons("ElseIf", s), n + 1)
    BY Settles
  <2>2. Rests(P4("Expression", "then", "Block", "ElseIf", s), n + 1)
    BY <2>1, RestsLight DEF Heavy, Closing, AtOnce
  <2>3. Settled(P5("skip", "Expression", "then", "Block", "ElseIf", s), n, t)
    BY <1>1, <1>2, <2>2, SettledOpener
  <2> QED  BY <1>1, <1>2, <2>3, StatementIs
<1>3. CASE t = "while"
  <2>1. Rests(Cons("end", s), n + 1)
    BY Settles
  <2>2. Rests(P2("Block", "end", s), n + 1)
    BY <2>1, RestsLight DEF Heavy, Closing, AtOnce
  <2>3. Rests(P3("do", "Block", "end", s), n + 1 - 1)
    BY <2>2, Settles
  <2>4. Rests(P4("Expression", "do", "Block", "end", s), n)
    BY <1>n, <2>3, RestsLight DEF Heavy, Closing, AtOnce
  <2>5. Settled(P5("skip", "Expression", "do", "Block", "end", s), n, t)
    BY <1>3, <2>4, SettledSkip DEF Heavy, Closing
  <2> QED  BY <1>1, <1>3, <2>5, StatementIs
<1>4. CASE t = "repeat"
  <2>1. Rests(Cons("Expression", s), n)
    BY RestsLight DEF Heavy, Closing, AtOnce
  <2>2. Rests(P2("until", "Expression", s), n + 1)
    BY <2>1, Settles
  <2>3. Rests(P3("Block", "until", "Expression", s), n + 1)
    BY <2>2, RestsLight DEF Heavy, Closing, AtOnce
  <2>4. Settled(P4("skip", "Block", "until", "Expression", s), n, t)
    BY <1>1, <1>4, <2>3, SettledOpener
  <2> QED  BY <1>1, <1>4, <2>4, StatementIs
<1>5. CASE t = "do"
  <2>1. Rests(Cons("end", s), n + 1)
    BY Settles
  <2>2. Rests(P2("Block", "end", s), n + 1)
    BY <2>1, RestsLight DEF Heavy, Closing, AtOnce
  <2>3. Settled(P3("skip", "Block", "end", s), n, t)
    BY <1>1, <1>5, <2>2, SettledOpener
  <2> QED  BY <1>1, <1>5, <2>3, StatementIs
<1>6. CASE t = "function"
  <2>1. Settled(Cons("FunctionStatement", s), n, "function")
    BY Settles
  <2> QED  BY <1>1, <1>6, <2>1, StatementIs
<1>7. CASE t \in {"for", "local", "return", "break", "goto", "::"}
  BY <1>7, RestsLight, SettledRests, SettledSkip, StatementIs DEF Heavy, Closing, AtOnce
<1>8. CASE t \notin {"if", "while", "repeat", "for", "function", "local", "return", "break",
                    "goto", "::", "do"}
  BY <1>8, RestsLight, SettledRests, OtherwiseIs DEF Heavy, Closing, AtOnce
<1> QED  BY <1>2, <1>3, <1>4, <1>5, <1>6, <1>7, <1>8

LEMMA BalanceElseIf ==
  ASSUME NEW s, NEW n, Rests(s, n), NEW t \in Token
  PROVE  Settled(Run(ElseIf(t), s), n + 1, t)
<1>1. Rests(Cons("end", s), n + 1) /\ Rests(Cons("ElseIf", s), n + 1) /\ List(s)
  BY Settles
<1>2. CASE t = "elseif"
  BY <1>1, <1>2, RestsLight, SettledSkip, ElseIfIs DEF Heavy, Closing, AtOnce
<1>3. CASE t = "else"
  BY <1>1, <1>3, RestsLight, SettledSkip, ElseIfIs DEF Heavy, Closing, AtOnce
<1>4. CASE t \notin {"elseif", "else"}
  BY <1>1, <1>4, SettledRests, OtherwiseIs
<1> QED  BY <1>2, <1>3, <1>4

LEMMA BalanceForKind ==
  ASSUME NEW s, NEW n, Rests(s, n), NEW t \in Token
  PROVE  Settled(Run(ForKind(t), s), n, t)
<1>1. n \in Int /\ List(s) /\ Rests(s, n)
  BY Settles
<1>n. n + 1 - 1 = n
  BY <1>1
<1>2. Rests(Cons("end", s), n + 1)
  BY Settles
<1>3. Rests(P2("Block", "end", s), n + 1)
  BY <1>2, RestsLight DEF Heavy, Closing, AtOnce
<1>4. Rests(P3("do", "Block", "end", s), n + 1 - 1)
  BY <1>3, Settles
<1>5. CASE t = "="
  <2>1. Rests(P5("Expression", "ForStep", "do", "Block", "end", s), n)
    BY <1>n, <1>4, RestsLight DEF Heavy, Closing, AtOnce
  <2>2. Rests(P7("Expression", Comma, "Expression", "ForStep", "do", "Block", "end", s), n)
    BY <2>1, RestsLight, SignsAreLight DEF Heavy, Closing, AtOnce
  <2>3. Settled(P8("skip", "Expression", Comma, "Expression", "ForStep", "do", "Block", "end", s),
                n, t)
    BY <1>5, <2>2, SettledSkip DEF Heavy, Closing
  <2> QED  BY <1>1, <1>5, <2>3, ForKindIs
<1>6. CASE t # "="
  <2>1. Rests(P6("MoreNames", "in", "ExpressionList", "do", "Block", "end", s), n)
    BY <1>n, <1>4, RestsLight DEF Heavy, Closing, AtOnce
  <2> QED  BY <1>1, <1>6, <2>1, SettledRests, ForKindIs
<1> QED  BY <1>5, <1>6

LEMMA BalanceFunctionStatement ==
  ASSUME NEW s, NEW m, Rests(s, m), NEW t \in Token, NEW n \in Int, n + Opened(t) = 1 + m
  PROVE  Settled(Run(FunctionStatement(t), s), n, t)
<1>1. m \in Int /\ List(s) /\ Rests(Cons("FunctionBody", s), m + 1)
  BY Settles
<1>2. Rests(P3("name", "NameTail", "FunctionBody", s), m + 1)
  BY <1>1, RestsLight DEF Heavy, Closing, AtOnce
<1>3. n + Opened(t) = Weight("skip") + (m + 1)
  BY <1>1, Weights
<1>4. t # NoTok
  BY Zenon, NoTokIsNone
<1>5. Settled(Cons("skip", P3("name", "NameTail", "FunctionBody", s)), n, t)
  BY <1>2, <1>3, <1>4 DEF Settled
<1> QED  BY <1>1, <1>5, ExpressionIs

LEMMA BalanceFunctionBody ==
  ASSUME NEW s, NEW n, Rests(s, n), NEW t \in Token
  PROVE  Settled(Run(FunctionBody(t), s), n + 1, t)
<1>1. Rests(Cons("end", s), n + 1) /\ List(s)
  BY Settles
<1>2. Rests(P5("(", "Parameters", ")", "Block", "end", s), n + 1)
  BY <1>1, RestsLight DEF Heavy, Closing, AtOnce
<1> QED  BY <1>1, <1>2, SettledRests, ExpressionIs

LEMMA BalancePrimary ==
  ASSUME NEW s, NEW n, Rests(s, n), NEW t \in Token
  PROVE  Settled(Run(Primary(t), s), n, t)
<1>1. n \in Int /\ List(s) /\ Rests(s, n)
  BY Settles
<1>n. n + 1 - 1 = n
  BY <1>1
<1>2. CASE t \in Atomic
  BY <1>1, <1>2, RestsLight, SettledSkip, SignsAreLight, OtherwiseIs DEF Heavy, Closing, AtOnce
<1>3. CASE t = "("
  BY <1>1, <1>3, RestsLight, SettledSkip, PrimaryIs DEF Heavy, Closing, AtOnce
<1>4. CASE t = LBrace
  BY <1>1, <1>4, RestsLight, SettledRests, PrimaryIs DEF Heavy, Closing, AtOnce
<1>5. CASE t = "function"
  <2>1. Rests(Cons("Suffixes", s), n)
    BY RestsLight DEF Heavy, Closing, AtOnce
  <2>2. Rests(P2("FunctionBody", "Suffixes", s), n + 1)
    BY <2>1, Settles
  <2>3. Settled(P3("skip", "FunctionBody", "Suffixes", s), n, t)
    BY <1>1, <1>5, <2>2, SettledOpener
  <2> QED  BY <1>1, <1>5, <2>3, PrimaryIs
<1>6. CASE t \notin Atomic \cup {"(", LBrace, "function"}
  <2>1. Run(Primary(t), s) = Cons("error", Cons("skip", s)) /\ List(Cons("skip", s))
    BY <1>1, <1>6, OtherwiseIs, ConsIsList
  <2> QED  BY <2>1 DEF Settled
<1> QED  BY <1>2, <1>3, <1>4, <1>5, <1>6

LEMMA BalanceLight ==
  ASSUME NEW s, NEW n, Rests(s, n), NEW t \in Token, NEW r \in Routine \ Closing
  PROVE  Settled(Run(Calls(r, t), s), n, t) /\ Weight(r) = 0
<1>1. Settled(Run(Calls(r, t), s), n, t)
  <2>1. CASE r \in {"Block", "Semicolon", "Statement", "AssignOrCall", "MoreTargets", "LocalKind",
                   "LocalValues", "ForKind", "ForStep", "ReturnValues"}
    BY <2>1, CallsAre, BalanceBlock, BalanceSemicolon, BalanceStatement, BalanceAssignOrCall,
       BalanceMoreTargets, BalanceLocalKind, BalanceLocalValues, BalanceForKind, BalanceForStep,
       BalanceReturnValues
  <2>2. CASE r \in {"NameTail", "Parameters", "Parameter", "MoreParameters", "MoreNames",
                   "ExpressionList", "MoreExpressions", "Expression", "Operators",
                   "FieldOperators", "Operand", "Power"}
    BY <2>2, CallsAre, BalanceNameTail, BalanceParameters, BalanceParameter,
       BalanceMoreParameters, BalanceMoreNames, BalanceExpressionList, BalanceMoreExpressions,
       BalanceExpression, BalanceOperators, BalanceFieldOperators, BalanceOperand, BalancePower
  <2>3. CASE r \in {"Primary", "Suffixes", "Arguments", "MethodArguments", "Table", "Fields",
                   "FieldSeparator", "Field", "NamedField"}
    BY <2>3, CallsAre, BalancePrimary, BalanceSuffixes, BalanceArguments, BalanceMethodArguments,
       BalanceTable, BalanceFields, BalanceFieldSeparator, BalanceField, BalanceNamedField
  <2> QED  BY Zenon, <2>1, <2>2, <2>3, RoutinesAre DEF Closing
<1>2. r \notin Heavy
  BY Zenon, RoutinesAre DEF Heavy, Closing
<1> QED  BY <1>1, <1>2, Weights

LEMMA BalanceInit == ParserInit => Balanced
<1> SUFFICES ASSUME ParserInit PROVE Balanced
  OBVIOUS
<1>1. Rests(Cons("Block", <<>>), 0)
  BY NoneRests, RestsLight DEF Heavy, Closing, AtOnce
<1>2. stack = Cons("Block", <<>>) /\ open = 0
  BY DEF ParserInit, Cons
<1>3. Settled(stack, open, tok)
  BY <1>1, <1>2 DEF Settled
<1> QED  BY <1>3, InitTypes DEF Balanced

LEMMA BalanceTake ==
  ASSUME Balanced, ~ failed, Ready, Take, stack' = Tail(stack),
         Head(stack) = "skip" \/ (Head(stack) \in Token /\ tok = Head(stack))
  PROVE  Settled(stack', open', tok')
<1>1. open \in Int /\ open' = open + Opened(tok) /\ stack # <<>> /\ Opened(tok) \in Int
  BY Weights DEF Balanced, TypeOK, Take, Ready
<1>2. CASE Rests(stack, open)
  <2>1. /\ Rests(Tail(stack), open - Weight(Head(stack)))
        /\ Head(stack) \notin AtOnce
    BY <1>1, <1>2, RestsTail
  <2>2. Head(stack) \in Token /\ tok = Head(stack)
    BY <2>1 DEF AtOnce
  <2>3. Weight(Head(stack)) = - Opened(tok)
    BY Zenon, <2>2, TokensWeigh
  <2>4. open - Weight(Head(stack)) = open'
    BY <1>1, <2>3
  <2> QED  BY <2>1, <2>4 DEF Settled
<1>3. ASSUME NEW a, NEW u, NEW m, stack = Cons(a, u), Rests(u, m),
             a \in {"skip", "FunctionStatement"}, open + Opened(tok) = Weight(a) + m
      PROVE  Settled(stack', open', tok')
  <2>1. Head(stack) = a /\ Tail(stack) = u /\ m \in Int
    BY <1>3, ConsList DEF Rests
  <2>2. a = "skip"
    BY Zenon, <1>3, <2>1, TokensWeigh DEF AtOnce
  <2>3. m = open'
    BY <1>1, <1>3, <2>1, <2>2, Weights
  <2> QED  BY <1>3, <2>1, <2>3 DEF Settled
<1>4. ASSUME NEW u, stack = Cons("error", u), List(u) PROVE FALSE
  <2>1. Head(stack) = "error"
    BY <1>4, ConsList
  <2> QED  BY Zenon, <2>1, TokensWeigh DEF AtOnce
<1> QED  BY <1>2, <1>3, <1>4 DEF Balanced, Settled

LEMMA BalanceCall ==
  ASSUME Balanced, ~ failed, Call
  PROVE  Settled(stack', open', tok')
<1> DEFINE h == Head(stack)
           u == Tail(stack)
<1>1. /\ stack # <<>> /\ h \in Routine /\ tok \in Token /\ open \in Int
      /\ stack' = Run(Calls(h, tok), u) /\ open' = open /\ tok' = tok
  BY DEF Balanced, TypeOK, Call, Ready, Run
<1>2. h # "skip" /\ h # "error"
  BY Zenon, <1>1, RoutinesAre
<1> HIDE DEF h, u
<1>3. CASE Rests(stack, open)
  <2>1. Rests(u, open - Weight(h)) /\ h \notin AtOnce
    BY <1>1, <1>3, RestsTail DEF h, u
  <2>2. CASE h \notin Closing
    <3>1. Settled(Run(Calls(h, tok), u), open - Weight(h), tok) /\ Weight(h) = 0
      BY <1>1, <2>1, <2>2, BalanceLight
    <3>2. open - Weight(h) = open
      BY <1>1, <3>1
    <3> QED  BY <1>1, <3>1, <3>2
  <2>3. CASE h \in {"ElseIf", "FunctionBody"}
    <3>1. Weight(h) = 1
      BY <2>3, Weights DEF Closing
    <3>2. Rests(u, open - 1) /\ open - 1 + 1 = open
      BY <1>1, <2>1, <3>1
    <3>3. /\ Settled(Run(ElseIf(tok), u), open - 1 + 1, tok)
          /\ Settled(Run(FunctionBody(tok), u), open - 1 + 1, tok)
      BY <1>1, <3>2, BalanceElseIf, BalanceFunctionBody
    <3> QED  BY <1>1, <2>3, <3>2, <3>3, CallsAre
  <2> QED  BY <2>1, <2>2, <2>3 DEF Closing, AtOnce
<1>4. ASSUME NEW a, NEW v, NEW m, stack = Cons(a, v), Rests(v, m),
             a \in {"skip", "FunctionStatement"}, open + Opened(tok) = Weight(a) + m
      PROVE  Settled(stack', open', tok')
  <2>1. h = a /\ u = v
    BY <1>4, ConsList DEF Rests, h, u
  <2>2. a = "FunctionStatement" /\ open + Opened(tok) = 1 + m
    BY <1>2, <1>4, <2>1, Weights
  <2>3. Settled(Run(FunctionStatement(tok), v), open, tok)
    BY <1>1, <1>4, <2>2, BalanceFunctionStatement
  <2> QED  BY <1>1, <2>1, <2>2, <2>3, CallsAre
<1>5. ASSUME NEW v, stack = Cons("error", v), List(v) PROVE FALSE
  BY <1>2, <1>5, ConsList DEF h
<1> QED  BY <1>3, <1>4, <1>5 DEF Balanced, Settled

LEMMA BalanceKept ==
  ASSUME Balanced, [Parse \/ \E t \in Token : Fetch(t)]_parserVars
  PROVE  Balanced'
<1>1. TypeOK'
  BY ParserKeepsTypes DEF Balanced
<1>2. ASSUME ~ failed' PROVE Settled(stack', open', tok')
  <2>1. CASE Advance
    <3>1. Ready /\ Take /\ stack' = Tail(stack) /\ Head(stack) = "skip" /\ ~ failed
      BY <1>2, <2>1 DEF Advance, Take
    <3> QED  BY <3>1, BalanceTake
  <2>2. CASE Expect
    <3>1. ~ Report
      BY <1>2 DEF Report
    <3>2. Ready /\ Take /\ stack' = Tail(stack) /\ Head(stack) \in Token /\ tok = Head(stack)
      BY <2>2, <3>1 DEF Expect
    <3>3. ~ failed
      BY <1>2, <3>2 DEF Take
    <3> QED  BY <3>2, <3>3, BalanceTake
  <2>3. CASE Error
    BY <1>2, <2>3 DEF Error, Report
  <2>4. CASE Call
    BY <1>2, <2>4, BalanceCall DEF Call
  <2>5. ASSUME NEW t \in Token, Fetch(t) PROVE Settled(stack', open', tok')
    <3>1. /\ tok = NoTok /\ stack # <<>> /\ stack' = stack /\ open' = open /\ ~ failed
          /\ Settled(stack, open, tok)
      BY <1>2, <2>5 DEF Fetch, Ended, Balanced
    <3> QED  BY <3>1 DEF Settled
  <2>6. CASE UNCHANGED parserVars
    BY <1>2, <2>6 DEF parserVars, Balanced
  <2> QED  BY <2>1, <2>2, <2>3, <2>4, <2>5, <2>6 DEF Parse
<1> QED  BY <1>1, <1>2 DEF Balanced

LEMMA BalancedAtEnd == Balanced => AcceptedIsBalanced
<1> SUFFICES ASSUME Balanced, Ended, ~ failed PROVE open = 0
  BY DEF AcceptedIsBalanced
<1>1. stack = <<>>
  BY DEF Ended
<1>2. ASSUME NEW a, NEW u, List(u) PROVE stack # Cons(a, u)
  BY <1>1, <1>2, ConsList
<1>3. Rests(<<>>, open)
  BY <1>1, <1>2 DEF Balanced, Settled, Rests
<1> QED  BY <1>3, RestsEmpty

(***************************************************************************)
(* Whatever the tokens are, what parse() lets pass without an error is     *)
(* balanced: at the end of the text and at a stray closing word alike,     *)
(* every block that was opened has been closed by a word of its own        *)
(* (parser/Parser.cpp, parseBlock and all that call it).                   *)
(***************************************************************************)
THEOREM AcceptedBalanced == Spec => []AcceptedIsBalanced
<1>1. Balanced /\ [Parse \/ \E t \in Token : Fetch(t)]_parserVars => Balanced'
  BY BalanceKept
<1> QED  BY BalanceInit, <1>1, BalancedAtEnd, PTL DEF Spec

(***************************************************************************)
(* And so of programs, with mistakes and without.                          *)
(***************************************************************************)
THEOREM ProgramsBalanced == ProgramSpec => []AcceptedIsBalanced
BY ProgramsAreTokens, AcceptedBalanced, PTL
==============================================================================

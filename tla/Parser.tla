-------------------------------- MODULE Parser --------------------------------
(***************************************************************************)
(* The recursive-descent parser of the server (parser/Parser.cpp), as the  *)
(* pushdown machine its mutually recursive functions are: `stack` is what  *)
(* the pending calls still have to do, the innermost first.  A symbol on   *)
(* it is a token to expect(), "skip" (advance()), "error" (error()) or the *)
(* name of a routine, which looks at the current token and is replaced by  *)
(* the calls it then makes.  Loops are routines that push themselves.      *)
(*                                                                         *)
(* Tokens are token types.  Types the parser treats alike are one here:    *)
(* "lit" is a number, nil, true or false, "not" is not and #, "op" is a    *)
(* binary operator other than - ~ ^.  The levels of the precedence climb   *)
(* (parseOrExpr ... parseMultiplicativeExpr) read an operand and, as long  *)
(* as operators come, operator and operand; which level takes which        *)
(* operator shapes the tree and not what is read, so they are one routine. *)
(*                                                                         *)
(* The tokens come from outside: Fetch takes any of them.                  *)
(***************************************************************************)
EXTENDS Integers, Sequences

VARIABLES
  stack,    \* the calls still to be made, innermost first
  tok,      \* current_, or NoTok while the lexer is asked for the next one
  failed,   \* errors_ is not empty
  open      \* history: the blocks opened and not closed by the tokens taken so
            \* far, counted up to the first error

parserVars == <<stack, tok, failed, open>>

NoTok == "none"

BlockEnd == {"eof", "end", "else", "elseif", "until"}
Unary == {"not", "-", "~"}
Binary == {"op", "-", "~"}
Atomic == {"lit", "string", "...", "name"}
Separator == {",", ";"}

Token == BlockEnd \cup Unary \cup Binary \cup Atomic \cup Separator \cup
  {"if", "then", "while", "do", "repeat", "for", "in", "function", "local",
   "return", "break", "goto", "::", "=", "(", ")", "{", "}", "[", "]", ".",
   ":", "^", "invalid"}

------------------------------------------------------------------------------
(* Blocks and statements.                                                   *)

Block(t) == IF t \in BlockEnd THEN <<>> ELSE <<"Statement", "Semicolon", "Block">>

Semicolon(t) == IF t = ";" THEN <<"skip">> ELSE <<>>

Statement(t) ==
  CASE t = "if"       -> <<"skip", "Expression", "then", "Block", "ElseIf">>
    [] t = "while"    -> <<"skip", "Expression", "do", "Block", "end">>
    [] t = "repeat"   -> <<"skip", "Block", "until", "Expression">>
    [] t = "for"      -> <<"skip", "name", "ForKind">>
    [] t = "function" -> <<"FunctionStatement">>
    [] t = "local"    -> <<"skip", "LocalKind">>
    [] t = "return"   -> <<"skip", "ReturnValues">>
    [] t = "break"    -> <<"skip">>
    [] t = "goto"     -> <<"skip", "name">>
    [] t = "::"       -> <<"skip", "name", "::">>
    [] t = "do"       -> <<"skip", "Block", "end">>
    [] OTHER          -> <<"Primary", "AssignOrCall">>

AssignOrCall(t) ==
  IF t \in {",", "="} THEN <<"MoreTargets", "=", "ExpressionList">> ELSE <<>>

MoreTargets(t) == IF t = "," THEN <<"skip", "Primary", "MoreTargets">> ELSE <<>>

LocalKind(t) ==
  IF t = "function" THEN <<"FunctionStatement">> ELSE <<"name", "MoreNames", "LocalValues">>

LocalValues(t) == IF t = "=" THEN <<"skip", "ExpressionList">> ELSE <<>>

\* For the mutation of ElseIf: the end after else is not waited for.
ElseWithoutEnd(t) ==
  CASE t = "elseif" -> <<"skip", "Expression", "then", "Block", "ElseIf">>
    [] t = "else"   -> <<"skip", "Block">>
    [] OTHER        -> <<"end">>

ElseIf(t) ==
  CASE t = "elseif" -> <<"skip", "Expression", "then", "Block", "ElseIf">>
    [] t = "else"   -> <<"skip", "Block", "end">>
    [] OTHER        -> <<"end">>

ForKind(t) ==
  IF t = "="
  THEN <<"skip", "Expression", ",", "Expression", "ForStep", "do", "Block", "end">>
  ELSE <<"MoreNames", "in", "ExpressionList", "do", "Block", "end">>

ForStep(t) == IF t = "," THEN <<"skip", "Expression">> ELSE <<>>

\* For the mutation of ReturnValues: until is not among the words that end it.
ReturnBeforeUntil(t) ==
  IF t \in (BlockEnd \ {"until"}) \cup {";"} THEN <<>> ELSE <<"ExpressionList">>

ReturnValues(t) == IF t \in BlockEnd \cup {";"} THEN <<>> ELSE <<"ExpressionList">>

------------------------------------------------------------------------------
(* Functions and lists.                                                     *)

FunctionStatement(t) == <<"skip", "name", "NameTail", "FunctionBody">>

NameTail(t) ==
  CASE t = "." -> <<"skip", "name", "NameTail">>
    [] t = ":" -> <<"skip", "name">>
    [] OTHER   -> <<>>

\* For the mutation of FunctionBody: the end is left to the enclosing block.
FunctionBodyWithoutEnd(t) == <<"(", "Parameters", ")", "Block">>

FunctionBody(t) == <<"(", "Parameters", ")", "Block", "end">>

Parameters(t) == IF t = ")" THEN <<>> ELSE <<"Parameter">>

Parameter(t) == IF t = "..." THEN <<"skip">> ELSE <<"name", "MoreParameters">>

MoreParameters(t) == IF t = "," THEN <<"skip", "Parameter">> ELSE <<>>

MoreNames(t) == IF t = "," THEN <<"skip", "name", "MoreNames">> ELSE <<>>

ExpressionList(t) == <<"Expression", "MoreExpressions">>

MoreExpressions(t) == IF t = "," THEN <<"skip", "Expression", "MoreExpressions">> ELSE <<>>

------------------------------------------------------------------------------
(* Expressions.                                                             *)

Expression(t) == <<"Operand", "Operators">>

Operators(t) == IF t \in Binary THEN <<"skip", "Operand", "Operators">> ELSE <<>>

Operand(t) == IF t \in Unary THEN <<"skip", "Operand">> ELSE <<"Primary", "Power">>

Power(t) == IF t = "^" THEN <<"skip", "Operand">> ELSE <<>>

\* For the mutation of Primary: the unexpected token is not skipped.
PrimaryStays(t) ==
  CASE t \in Atomic   -> <<"skip", "Suffixes">>
    [] t = "("        -> <<"skip", "Expression", ")", "Suffixes">>
    [] t = "{"        -> <<"Table", "Suffixes">>
    [] t = "function" -> <<"skip", "FunctionBody", "Suffixes">>
    [] OTHER          -> <<"error">>

\* What starts no expression is reported and skipped, whatever it is.
Primary(t) ==
  CASE t \in Atomic   -> <<"skip", "Suffixes">>
    [] t = "("        -> <<"skip", "Expression", ")", "Suffixes">>
    [] t = "{"        -> <<"Table", "Suffixes">>
    [] t = "function" -> <<"skip", "FunctionBody", "Suffixes">>
    [] OTHER          -> <<"error", "skip">>

Suffixes(t) ==
  CASE t = "."      -> <<"skip", "name", "Suffixes">>
    [] t = "["      -> <<"skip", "Expression", "]", "Suffixes">>
    [] t = ":"      -> <<"skip", "name", "MethodArguments", "Suffixes">>
    [] t = "("      -> <<"skip", "Arguments", ")", "Suffixes">>
    [] t = "string" -> <<"skip", "Suffixes">>
    [] t = "{"      -> <<"Table", "Suffixes">>
    [] OTHER        -> <<>>

Arguments(t) == IF t = ")" THEN <<>> ELSE <<"ExpressionList">>

MethodArguments(t) ==
  CASE t = "("      -> <<"skip", "Arguments", ")">>
    [] t = "string" -> <<"skip">>
    [] t = "{"      -> <<"Table">>
    [] OTHER        -> <<>>

------------------------------------------------------------------------------
(* Table constructors.  A field that starts with a name has readers of its  *)
(* own instead of Expression.                                               *)

Table(t) == <<"{", "Fields">>

Fields(t) ==
  CASE t \in {"}", "eof"}  -> <<"}">>
    [] t \in Separator     -> <<"skip", "Fields">>
    [] OTHER               -> <<"Field", "FieldSeparator", "Fields">>

FieldSeparator(t) == IF t \in Separator THEN <<"skip">> ELSE <<>>

Field(t) ==
  CASE t = "["    -> <<"skip", "Expression", "]", "=", "Expression">>
    [] t = "name" -> <<"skip", "NamedField">>
    [] OTHER      -> <<"Expression">>

NamedField(t) ==
  CASE t = "="                   -> <<"skip", "Expression">>
    [] t \in {".", "[", "(", ":"} -> <<"Suffixes">>
    [] OTHER                     -> <<"Suffixes", "FieldOperators">>

FieldOperators(t) == IF t \in Binary THEN <<"skip", "Operand", "FieldOperators">> ELSE <<>>

------------------------------------------------------------------------------
Routine ==
  {"Block", "Semicolon", "Statement", "AssignOrCall", "MoreTargets",
   "LocalKind", "LocalValues", "ElseIf", "ForKind", "ForStep",
   "ReturnValues", "FunctionStatement", "NameTail", "FunctionBody",
   "Parameters", "Parameter", "MoreParameters", "MoreNames",
   "ExpressionList", "MoreExpressions", "Expression", "Operators",
   "Operand", "Power", "Primary", "Suffixes", "Arguments",
   "MethodArguments", "Table", "Fields", "FieldSeparator", "Field",
   "NamedField", "FieldOperators"}

\* The calls routine r makes when t is the current token.
Calls(r, t) ==
  CASE r = "Block"             -> Block(t)
    [] r = "Semicolon"         -> Semicolon(t)
    [] r = "Statement"         -> Statement(t)
    [] r = "AssignOrCall"      -> AssignOrCall(t)
    [] r = "MoreTargets"       -> MoreTargets(t)
    [] r = "LocalKind"         -> LocalKind(t)
    [] r = "LocalValues"       -> LocalValues(t)
    [] r = "ElseIf"            -> ElseIf(t)
    [] r = "ForKind"           -> ForKind(t)
    [] r = "ForStep"           -> ForStep(t)
    [] r = "ReturnValues"      -> ReturnValues(t)
    [] r = "FunctionStatement" -> FunctionStatement(t)
    [] r = "NameTail"          -> NameTail(t)
    [] r = "FunctionBody"      -> FunctionBody(t)
    [] r = "Parameters"        -> Parameters(t)
    [] r = "Parameter"         -> Parameter(t)
    [] r = "MoreParameters"    -> MoreParameters(t)
    [] r = "MoreNames"         -> MoreNames(t)
    [] r = "ExpressionList"    -> ExpressionList(t)
    [] r = "MoreExpressions"   -> MoreExpressions(t)
    [] r = "Expression"        -> Expression(t)
    [] r = "Operators"         -> Operators(t)
    [] r = "Operand"           -> Operand(t)
    [] r = "Power"             -> Power(t)
    [] r = "Primary"           -> Primary(t)
    [] r = "Suffixes"          -> Suffixes(t)
    [] r = "Arguments"         -> Arguments(t)
    [] r = "MethodArguments"   -> MethodArguments(t)
    [] r = "Table"             -> Table(t)
    [] r = "Fields"            -> Fields(t)
    [] r = "FieldSeparator"    -> FieldSeparator(t)
    [] r = "Field"             -> Field(t)
    [] r = "NamedField"        -> NamedField(t)
    [] r = "FieldOperators"    -> FieldOperators(t)

Symbol == Token \cup Routine \cup {"skip", "error"}

------------------------------------------------------------------------------
ParserInit ==
  /\ stack = <<"Block">>
  /\ tok = NoTok
  /\ failed = FALSE
  /\ open = 0

Ended == stack = <<>>
Ready == stack # <<>> /\ tok # NoTok

\* lexer_.next(); at the end of the text it returns Eof again and again.
After(t) == IF t = "eof" THEN "eof" ELSE NoTok

\* What token t does to the number of open blocks: while and for open theirs
\* with do.
Opened(t) ==
  CASE t \in {"function", "if", "do", "repeat"} -> 1
    [] t \in {"end", "until"}                  -> -1
    [] OTHER                                   -> 0

\* advance()
Take ==
  /\ tok' = After(tok)
  /\ open' = IF failed THEN 0 ELSE open + Opened(tok)
  /\ UNCHANGED failed

\* error()
Report == failed' = TRUE /\ open' = 0 /\ UNCHANGED tok

Advance ==
  /\ Ready /\ Head(stack) = "skip"
  /\ Take
  /\ stack' = Tail(stack)

\* For the mutation of Expect: match() in its place, which reports nothing.
ExpectQuietly ==
  /\ Ready /\ Head(stack) \in Token
  /\ IF tok = Head(stack) THEN Take ELSE UNCHANGED <<tok, failed, open>>
  /\ stack' = Tail(stack)

\* expect(): a token that is not the one wanted is reported and stays.
Expect ==
  /\ Ready /\ Head(stack) \in Token
  /\ IF tok = Head(stack) THEN Take ELSE Report
  /\ stack' = Tail(stack)

Error ==
  /\ Ready /\ Head(stack) = "error"
  /\ Report
  /\ stack' = Tail(stack)

Call ==
  /\ Ready /\ Head(stack) \in Routine
  /\ stack' = Calls(Head(stack), tok) \o Tail(stack)
  /\ UNCHANGED <<tok, failed, open>>

Parse == Advance \/ Expect \/ Error \/ Call

\* The lexer hands over t.
Fetch(t) ==
  /\ ~Ended /\ tok = NoTok
  /\ tok' = t
  /\ UNCHANGED <<stack, failed, open>>

Spec == ParserInit /\ [][Parse \/ \E t \in Token : Fetch(t)]_parserVars

------------------------------------------------------------------------------
TypeOK ==
  /\ stack \in Seq(Symbol)
  /\ tok \in Token \cup {NoTok}
  /\ failed \in BOOLEAN
  /\ open \in Int

(***************************************************************************)
(* What passes without an error is balanced, whatever the tokens are: when *)
(* parse() returns, at the end of the text or at a closing word nobody     *)
(* waits for, every block that was opened has been closed, by an end or    *)
(* until of its own.  No routine takes the end of another's block, and no  *)
(* block is left open in silence (parseBlock, and all that call it).       *)
(***************************************************************************)
AcceptedIsBalanced == Ended /\ ~failed => open = 0

==============================================================================

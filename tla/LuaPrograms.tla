------------------------------ MODULE LuaPrograms ------------------------------
(***************************************************************************)
(* The parser reading programs: Lua 5.3 programs are derived from the      *)
(* grammar of the language's reference manual, leftmost symbol first, and  *)
(* every terminal that comes up is the lexer's next token.  `rest` is what *)
(* is still to be derived.  Up to MaxSlips times the author slips: a token *)
(* of the program is missing, or one too many is typed.                    *)
(*                                                                         *)
(* The programs are of any length; MaxRest bounds how deep they nest       *)
(* before and after each slip.                                             *)
(***************************************************************************)
EXTENDS Parser

CONSTANTS
  MaxSlips,  \* how often the author slips
  MaxRest,   \* the longest remainder a production may leave unless it is the
             \* shortest of its symbol, by slips made
  Typed,     \* the tokens that may be typed by mistake
  Forms      \* valid forms beyond the common ones, of RareForms

RareForms == {"field operators", "parenthesised statements", "empty statements"}

ASSUME SlipAssumption ==
  MaxSlips \in Nat /\ MaxRest \in [0..MaxSlips -> Nat] /\ Typed \subseteq Token \ {"eof"}
ASSUME FormAssumption == Forms \subseteq RareForms

VARIABLES
  rest,      \* what is left of the program, grammar symbols
  slips      \* the slips made so far

programVars == <<rest, slips>>
vars == <<parserVars, programVars>>

------------------------------------------------------------------------------
Maybe(s) == {<<>>, s}

Paren == <<"(", "Exp", ")", "Sfxs">>

Stats ==
  {<<"Var", "Targets", "=", "Exps">>, <<"name", "Sfxs", "Invoke">>, <<"::", "name", "::">>,
   <<"break">>, <<"goto", "name">>, <<"do", "Chunk", "end">>, <<"while", "Exp", "Do">>,
   <<"for", "Range", "Do">>, <<"repeat", "Chunk", "until", "Exp">>, <<"if", "Clause", "end">>,
   <<"function", "name", "Path", "Body">>, <<"local", "function", "name", "Body">>,
   <<"local", "Names", "Init">>}

RareStats ==
  (IF "parenthesised statements" \in Forms
   THEN {Paren \o <<"Index", "=", "Exps">>, Paren \o <<"Invoke">>}
   ELSE {}) \cup
  (IF "empty statements" \in Forms THEN {<<";">>} ELSE {})

FieldExps ==
  IF "field operators" \in Forms THEN {<<"Exp">>}
  ELSE {<<"name", "Sfxs">>, <<"name", "Binop", "Exp">>, <<"Closed">>, <<"Closed", "Binop", "Exp">>}

\* The right hand sides of a nonterminal.
Rules ==
  [Chunk  |-> {<<>>, <<"Stat", "Chunk">>, <<"Stat", ";", "Chunk">>, <<"return", "Values">>,
               <<"return", "Values", ";">>},
   Stat   |-> Stats \cup RareStats,
   Values |-> Maybe(<<"Exps">>),
   Targets |-> Maybe(<<",", "Var", "Targets">>),
   Var    |-> {<<"name">>, <<"name", "Sfxs", "Index">>},
   Exps   |-> {<<"Exp">>, <<"Exp", ",", "Exps">>},
   Names  |-> {<<"name">>, <<"name", ",", "Names">>},
   Init   |-> Maybe(<<"=", "Exps">>),
   Do     |-> {<<"do", "Chunk", "end">>},
   Clause |-> {<<"Exp", "then", "Chunk", "Else">>},
   Else   |-> {<<>>, <<"else", "Chunk">>, <<"elseif", "Clause">>},
   Range  |-> {<<"name", "=", "Exp", ",", "Exp">>, <<"name", "=", "Exp", ",", "Exp", ",", "Exp">>,
               <<"Names", "in", "Exps">>},
   Path   |-> {<<>>, <<".", "name", "Path">>, <<":", "name">>},
   Body   |-> {<<"(", "Params", ")", "Inner">>},
   Inner  |-> {<<"Chunk", "end">>},
   Params |-> {<<>>, <<"...">>, <<"name", "More">>},
   More   |-> {<<>>, <<",", "...">>, <<",", "name", "More">>},
   Exp    |-> {<<"Opd">>, <<"Opd", "Binop", "Exp">>},
   Binop  |-> {<<b>> : b \in Binary},
   Opd    |-> {<<"name", "Sfxs">>, <<"name", "Sfxs", "^", "Opd">>, <<"Closed">>},
   Closed |-> {<<"lit">>, <<"string">>, <<"...">>, <<"not", "Opd">>, <<"-", "Opd">>, <<"~", "Opd">>,
               <<"function", "Body">>, <<"{", "Items", "}">>, Paren, <<"lit", "^", "Opd">>,
               <<"string", "^", "Opd">>, <<"{", "Items", "}", "^", "Opd">>,
               <<"(", "Exp", ")", "Sfxs", "^", "Opd">>},
   Sfxs   |-> {<<>>, <<"Index", "Sfxs">>, <<"Invoke", "Sfxs">>},
   Index  |-> {<<".", "name">>, <<"[", "Exp", "]">>},
   Invoke |-> {<<"Arg">>, <<":", "name", "Arg">>},
   Arg    |-> {<<"(", ")">>, <<"(", "Exps", ")">>, <<"string">>, <<"{", "Items", "}">>},
   Items  |-> {<<>>, <<"Item">>, <<"Item", ",", "Items">>, <<"Item", ";", "Items">>},
   Item   |-> {<<"[", "Exp", "]", "=", "Exp">>, <<"name", "=", "Exp">>} \cup FieldExps]

------------------------------------------------------------------------------
Init == ParserInit /\ rest = <<"Chunk">> /\ slips = 0

\* The lexer is asked for a token.
Asked == ~Ended /\ tok = NoTok

\* The author decides how the program goes on.
Derive ==
  /\ Asked /\ rest # <<>> /\ Head(rest) \in DOMAIN Rules
  /\ \E rhs \in Rules[Head(rest)] :
       /\ \/ Len(rhs) + Len(rest) <= MaxRest[slips] + 1
          \/ \A r \in Rules[Head(rest)] : Len(rhs) <= Len(r)
       /\ rest' = rhs \o Tail(rest)
  /\ UNCHANGED <<parserVars, slips>>

Supply ==
  /\ rest # <<>> /\ Head(rest) \in Token
  /\ Fetch(Head(rest))
  /\ rest' = Tail(rest)
  /\ UNCHANGED slips

EndOfText == rest = <<>> /\ Fetch("eof") /\ UNCHANGED programVars

Omit ==
  /\ Asked /\ rest # <<>> /\ Head(rest) \in Token
  /\ slips < MaxSlips
  /\ rest' = Tail(rest) /\ slips' = slips + 1
  /\ UNCHANGED parserVars

Mistype ==
  /\ slips < MaxSlips
  /\ \E t \in Typed : Fetch(t)
  /\ slips' = slips + 1
  /\ UNCHANGED rest

Reading == Parse /\ UNCHANGED programVars
Writing == Derive \/ Supply \/ EndOfText \/ Omit \/ Mistype

Done == Ended /\ UNCHANGED vars

\* The parser runs to its end whenever it has a token: it is one call.
ProgramSpec == Init /\ [][Reading \/ Writing \/ Done]_vars /\ WF_vars(Reading)

------------------------------------------------------------------------------
(***************************************************************************)
(* A valid program gets no error: every one of the parser's choices on one *)
(* token of look-ahead goes the way the grammar went.                      *)
(***************************************************************************)
NoSpuriousError == slips = 0 => ~failed

(***************************************************************************)
(* The parser waits for the closing words the program still owes, in that  *)
(* order, so that the depth the symbols are given is the block depth of    *)
(* the program.  It does so wherever the program stands, but for the       *)
(* moment when an opening word has been decided on and not yet been read.  *)
(***************************************************************************)
Openers == {"function", "if", "repeat", "while", "for", "do"}
EndsBlock == {"end", "ElseIf", "Do", "ForKind", "Inner", "Body", "FunctionBody"}

\* The closing word that symbol x comes with.
Closer(x) ==
  CASE x \in EndsBlock -> <<"end">> [] x = "until" -> <<"until">> [] OTHER -> <<>>
Closers(s) ==
  LET owed[i \in 1 .. Len(s) + 1] ==
        IF i = Len(s) + 1 THEN <<>> ELSE Closer(s[i]) \o owed[i + 1]
  IN  owed[1]
Opening == rest # <<>> /\ Head(rest) \in Openers \cup {"local"}
BlocksInStep == slips = 0 /\ tok = NoTok /\ ~Opening => Closers(stack) = Closers(rest)

(***************************************************************************)
(* All of a valid program is read.                                         *)
(***************************************************************************)
AllRead == slips = 0 /\ Ended => tok = "eof"

(***************************************************************************)
(* From any token the parser comes to ask for the next one or to an end,   *)
(* after errors too: none of its loops stands still.                       *)
(***************************************************************************)
KeepsReading == []<>(Ended \/ tok = NoTok)
==============================================================================

---------------------------------- MODULE Lexer ----------------------------------
(***************************************************************************)
(* Lexer: how a text is cut into tokens, comments left out.                *)
(*                                                                         *)
(* One action is one pass of readToken from a character that is not blank; *)
(* after a comment, or a byte that is not ASCII, the code calls itself,    *)
(* which is the next action here.  What a token is worth (the value of a   *)
(* string, the keyword behind a name) is left out, and so are line and     *)
(* column, which follow the position character by character.               *)
(***************************************************************************)
EXTENDS Integers, Sequences

CONSTANTS
  Texts,    \* the texts that may come, sequences of characters
  NonASCII  \* a byte from 128 on

Nul == "\\0"
\* The texts have no NUL, which the lexer takes for their end here and there.
ASSUME TextsAssumption == \A s \in Texts : s \in Seq(STRING \ {Nul})
ASSUME NonASCIIAssumption == NonASCII # Nul

VARIABLES
  source,   \* source_
  pos,      \* pos_, counted from 1
  tokens,   \* what next() has returned: type, start and length
  comments  \* the comments passed over: start, end, and the level of their
            \* bracket or Line; comments_ has those with doc

lexerVars == <<source, pos, tokens, comments>>

Blank    == {" ", "\t", "\r", "\n", "\f"}
Digit    == {"0", "1"}
Letter   == {"a", "e", "p", "u", "x", "z"}
HexDigit == Digit \cup {"a", "e"}
Word     == Letter \cup Digit \cup {"_"}
Quote    == {"\"", "'"}
Doubles  == {<<"/", "/">>, <<":", ":">>, <<".", ".">>, <<"=", "=">>, <<"<", "=">>, <<"<", "<">>,
             <<">", "=">>, <<">", ">">>, <<"~", "=">>}
Line     == -1

End == Len(source) + 1
\* current() and peekChar(): a NUL behind the end.
At(p) == IF p < End THEN source[p] ELSE Nul
\* The position after n calls of advance().
Forward(p, n) == IF p + n < End THEN p + n ELSE End
\* while (current() is one of them) advance()
Run(p, chars) ==
  CHOOSE q \in p .. End : At(q) \notin chars /\ \A r \in p .. q - 1 : At(r) \in chars

-------------------------------------------------------------------------------
(* readNumber                                                              *)

Exponent(p) ==
  Run(Forward(p, IF At(p + 1) \in {"+", "-"} THEN 2 ELSE 1), Digit \cup {"_"})

HexEnd(p) ==
  LET int  == Run(Forward(p, 2), HexDigit \cup {"_"})
      frac == IF At(int) = "." THEN Run(Forward(int, 1), HexDigit \cup {"_"}) ELSE int
  IN IF At(frac) = "p" THEN Exponent(frac) ELSE frac

DecimalEnd(p) ==
  LET int  == Run(p, Digit \cup {"_"})
      frac == IF At(int) = "." /\ At(int + 1) \in Digit
              THEN Run(Forward(int, 1), Digit \cup {"_"}) ELSE int
  IN IF At(frac) = "e" THEN Exponent(frac) ELSE frac

NumberEnd(p) == IF At(p) = "0" /\ At(p + 1) = "x" THEN HexEnd(p) ELSE DecimalEnd(p)

-------------------------------------------------------------------------------
(* readString and readLongString                                           *)

\* As if a backslash hid nothing.
BareEscape(p) == Forward(p, 1)
\* Behind the escape sequence at p.
Escape(p) ==
  LET digits == {q \in p + 2 .. p + 4 : \A r \in p + 1 .. q - 1 : At(r) \in Digit}
  IN CASE At(p + 1) = "z" -> Run(Forward(p, 2), Blank)
       [] At(p + 1) = "x" -> Forward(p, 4)
       [] At(p + 1) = "u" -> Forward(Run(Forward(p, 3), HexDigit), 1)
       [] At(p + 1) \in Digit -> CHOOSE q \in digits : \A r \in digits : r <= q
       [] OTHER -> Forward(p, 2)

\* From a position in a string to the quote, the end of the line or of the text.
StringStop(p, quote) ==
  LET stop[q \in 1 .. End] ==
        CASE At(q) \in {quote, "\n", Nul} -> q
          [] At(q) = "\\" -> stop[Escape(q)]
          [] OTHER -> stop[q + 1]
  IN stop[p]
StringEnd(p, quote) ==
  LET q == StringStop(p, quote) IN IF At(q) = quote THEN q + 1 ELSE q

\* As if the "]" behind the equals signs were passed over.
BracketSkipped(q) == Forward(q, 1)
\* A bracket that does not match ends with its equals signs: the "]" behind
\* them may begin the one that does.
BracketPassed(q) == q
\* In a comment the character behind them is passed over, unless it is that "]".
CommentPassed(q) == IF At(q) = "]" THEN q ELSE Forward(q, 1)

Passed(q, kind) == IF kind = "comment" THEN CommentPassed(q) ELSE BracketPassed(q)

\* From a position in a long string or comment to behind its closing bracket.
LongEnd(p, level, kind) ==
  LET stop[q \in 1 .. End] ==
        LET r == Run(q + 1, {"="})
        IN CASE q = End -> q
             [] q # End /\ At(q) # "]" -> stop[q + 1]
             [] q # End /\ At(q) = "]" /\ At(r) = "]" /\ r - q - 1 = level -> r + 1
             [] OTHER -> stop[Passed(r, kind)]
  IN stop[p]

-------------------------------------------------------------------------------
(* readToken                                                               *)

OperatorLength(p) ==
  IF At(p) = "." /\ At(p + 1) = "." /\ At(p + 2) = "." THEN 3
  ELSE IF <<At(p), At(p + 1)>> \in Doubles THEN 2 ELSE 1

Read(type, start, length, end) ==
  /\ tokens' = Append(tokens, [type |-> type, start |-> start, length |-> length])
  /\ pos' = end
  /\ UNCHANGED <<source, comments>>

Done == tokens # <<>> /\ tokens[Len(tokens)].type = "eof"
\* What skipWhitespace leaves.
Here == Run(pos, Blank)
Commented == At(Here) = "-" /\ At(Here + 1) = "-"
Bracketed(p) == At(p) = "[" /\ At(p + 1) \in {"[", "="}

ReadEof == Here = End /\ Read("eof", End, 0, End)

ReadName ==
  /\ At(Here) \in Letter \cup {"_"}
  /\ LET end == Run(Here, Word) IN Read("name", Here, end - Here, end)

ReadNumber ==
  /\ At(Here) \in Digit \/ (At(Here) = "." /\ At(Here + 1) \in Digit)
  /\ LET end == NumberEnd(Here) IN Read("number", Here, end - Here, end)

ReadString ==
  /\ At(Here) \in Quote
  /\ LET end == StringEnd(Here + 1, At(Here)) IN Read("string", Here, end - Here, end)

\* The position is taken behind the first bracket, and so is the length.
ReadLongString ==
  /\ Bracketed(Here)
  /\ LET open == Run(Here + 1, {"="})
         end  == LongEnd(open + 1, open - Here - 1, "string")
     IN IF At(open) = "[" THEN Read("string", Here + 1, end - Here - 1, end)
        ELSE Read("invalid", Here + 1, 1, open)

ReadOperator ==
  /\ At(Here) \notin Letter \cup {"_", NonASCII, Nul} \cup Digit \cup Quote
  /\ ~Bracketed(Here) /\ ~Commented /\ ~(At(Here) = "." /\ At(Here + 1) \in Digit)
  /\ Read("operator", Here, OperatorLength(Here), Here + OperatorLength(Here))

\* As if the byte were left.
StayAt(p) == p
ByteBehind(p) == p + 1
SkipNonASCII ==
  /\ At(Here) = NonASCII
  /\ pos' = ByteBehind(Here)
  /\ UNCHANGED <<source, tokens, comments>>

\* --, or --[ with a second bracket after its equals signs.  If that is missing
\* the rest of the line is the comment, and a doc comment if it starts with "-".
SkipComment ==
  /\ Commented
  /\ LET open  == IF Bracketed(Here + 2) THEN Run(Here + 3, {"="}) ELSE Here + 2
         long  == Bracketed(Here + 2) /\ At(open) = "["
         level == IF long THEN open - Here - 3 ELSE Line
         end   == IF long THEN LongEnd(open + 1, level, "comment")
                  ELSE CHOOSE q \in open .. End :
                         At(q) \in {"\n", Nul} /\ \A r \in open .. q - 1 : At(r) \notin {"\n", Nul}
     IN /\ comments' = Append(comments, [start |-> Here, end |-> end, level |-> level,
                                         doc |-> ~long /\ At(open) = "-"])
        /\ pos' = end
  /\ UNCHANGED <<source, tokens>>

LexerInit == source \in Texts /\ pos = 1 /\ tokens = <<>> /\ comments = <<>>

ReadToken ==
  \/ ReadEof \/ ReadName \/ ReadNumber \/ ReadString \/ ReadLongString \/ ReadOperator
  \/ SkipNonASCII \/ SkipComment

LexerNext == ~Done /\ ReadToken

\* Whoever reads a text reads it to its end.
LexerSpec == LexerInit /\ [][LexerNext]_lexerVars /\ WF_lexerVars(LexerNext)

-------------------------------------------------------------------------------
(* Properties                                                              *)

\* The first closing bracket of a level from a position on, by the manual; the
\* code counts its way from bracket to bracket instead.
ClosesAt(q, level) ==
  /\ At(q) = "]" /\ At(q + level + 1) = "]"
  /\ \A r \in q + 1 .. q + level : At(r) = "="
Closed(from, end, level) ==
  \/ /\ end - level - 2 >= from /\ ClosesAt(end - level - 2, level)
     /\ \A q \in from .. end - level - 3 : ~ClosesAt(q, level)
  \/ end = End /\ \A q \in from .. End : ~ClosesAt(q, level)

\* A long string or comment ends behind the first closing bracket of its own
\* level, whatever other brackets and equals signs come before it.
LongBracketsMatch ==
  /\ \A i \in DOMAIN tokens :
       LET t == tokens[i]
           open == Run(t.start, {"="})
       IN t.type = "string" /\ At(t.start) \notin Quote =>
            Closed(open + 1, t.start + t.length, open - t.start)
  /\ \A i \in DOMAIN comments :
       LET c == comments[i]
       IN c.level # Line => Closed(c.start + c.level + 4, c.end, c.level)

\* Escaped by an odd number of backslashes, counted from the quote on.
Escaped(i, start) == (i - (CHOOSE q \in start + 1 .. i :
    /\ \A r \in q .. i - 1 : source[r] = "\\"
    /\ q = start + 1 \/ source[q - 1] # "\\")) % 2 = 1
\* An escape that the manual allows, and that does not span lines.
Regular(i) ==
  /\ At(i) = "x" => At(i + 1) \in HexDigit /\ At(i + 2) \in HexDigit
  /\ At(i) = "u" => At(i + 1) = "{" /\ At(Run(i + 2, HexDigit)) = "}"
  /\ At(i) = "z" => At(Run(i + 1, Blank \ {"\n"})) # "\n"

\* If its escapes are regular, a string ends with the first quote of its kind
\* that no backslash escapes, or in front of the end of its line.
StringsClose ==
  \A i \in DOMAIN tokens :
    LET t    == tokens[i]
        last == t.start + t.length - 1
        stops == {q \in t.start + 1 .. Len(source) :
                    source[q] \in {At(t.start), "\n"} /\ ~Escaped(q, t.start)}
    IN t.type = "string" /\ At(t.start) \in Quote
       /\ (\A q \in t.start + 1 .. last : Escaped(q, t.start) => Regular(q)) =>
         IF stops = {} THEN last = Len(source)
         ELSE LET first == CHOOSE q \in stops : \A r \in stops : q <= r
              IN last = IF source[first] = "\n" THEN first - 1 ELSE first

\* Every text is read to its end; nothing that is read stands still.
ReadsToEnd == <>Done

===============================================================================

----------------------------- MODULE DocumentIndex -----------------------------
(***************************************************************************)
(* What DocumentIndex keeps of one file: the symbols analyzeScope finds,   *)
(* their places, and the parameters of its functions.                      *)
(*                                                                         *)
(* A text is a sequence of lines, a line a sequence of words, and a place  *)
(* <<line, column>> counts words.  A line holds one statement, opens a     *)
(* block, closes one with "end", or is a comment; the texts are balanced   *)
(* (what the parser makes of others is the subject of Parser).  A symbol's *)
(* name is the sequence of its words: <<f>>, or <<M, ".", f>> in a module. *)
(***************************************************************************)
EXTENDS Integers, SequencesExt, FiniteSets

CONSTANTS
  Names,    \* identifiers
  NoName,   \* no word, no module
  NoSymbol  \* a null SymbolDef*

Punctuation == {"(", ")", "{", "}", "[", "]", ",", ";", ".", "=", "\"", "--"}
Keywords    == {"function", "local", "for", "in", "do", "end"}

\* SymbolDef
Symbols ==
  [name : Seq(STRING), scope : {"global", "local", "parameter"},
   start : Nat \X Nat, end : Nat \X Nat, namePos : Nat \X Nat,
   isFunction : BOOLEAN, depth : Int]

ASSUME DocumentAssumption ==
  /\ Names \cup Punctuation \cup Keywords \subseteq STRING
  /\ Names \cap (Punctuation \cup Keywords) = {} /\ NoName \notin Names
  /\ NoSymbol \notin Symbols

\* Written next to the word before it, without a space,
Adjacent == Punctuation \ {"{", "=", "--"}
\* and with the word behind it next to it.
Prefixed == {"(", "{", "[", ".", "\""}

Before(p, q) == p[1] < q[1] \/ (p[1] = q[1] /\ p[2] < q[2])
Column(line, word) == SelectInSeq(line, LAMBDA w : w = word)

-------------------------------------------------------------------------------
(* Reading the lines, as the parser does.                                  *)

IsComment(line) == line[1] = "--"
IsFunction(line) ==
  \/ line[1] = "function"
  \/ line[1] = "local" /\ line[2] = "function"
Declares(line) == line[1] \in {"local", "for"} /\ ~IsFunction(line)
Opens(line) ==
  ~IsComment(line) /\ (IsFunction(line) \/ Contains(line, "do"))
Closes(line) == line = <<"end">>
NamesIn(words) ==
  FlattenSeq([c \in DOMAIN words |-> IF words[c] \in Names THEN <<words[c]>> ELSE <<>>])
CallsModule(line) == Len(line) > 4 /\ SubSeq(line, 1, 3) = <<"module", "(", "\"">>

\* The name of a function statement is the last word before its parenthesis.
FunctionName(line) == line[Column(line, "(") - 1]
Parameters(line) == NamesIn(SubSeq(line, Column(line, "("), Column(line, ")")))

\* local x, y = ...; for x = ...; for x, y in ...
NamesEnd(line) ==
  LET stop == SelectInSeq(line, LAMBDA w : w \in {"=", "in"})
  IN IF stop = 0 THEN Len(line) ELSE stop
DeclaredNames(line) == NamesIn(SubSeq(line, 1, NamesEnd(line)))
FunctionValue(line) ==
  LET equals == Column(line, "=")
  IN equals \in 1 .. Len(line) - 1 /\ line[equals + 1] = "function"

Number(text, Test(_), i) == Cardinality({k \in 1 .. i - 1 : Test(text[k])})
\* Blocks open before line i: analyzeScope's depth.
Depth(text, i) == Number(text, Opens, i) - Number(text, Closes, i)
ClosingLine(text, i) ==
  CHOOSE j \in i + 1 .. Len(text) :
    /\ Closes(text[j]) /\ Depth(text, j) = Depth(text, i) + 1
    /\ \A k \in i + 1 .. j - 1 : ~(Closes(text[k]) /\ Depth(text, k) = Depth(text, i) + 1)

\* The position of current_ once line i has been read: the next token, which
\* is not a comment, or the end of the file.
NextToken(text, i) ==
  <<SelectInSubSeq(text \o << <<"end of file">> >>, i + 1, Len(text) + 1,
                   LAMBDA line : ~IsComment(line)), 1>>

\* As if the range were never closed.
RangeOpen(text, i) == <<i, 1>>

\* range.end.  A block ends, like a local without a value or with a function
\* for one, where the next token starts.
RangeEnd(text, i) ==
  IF Opens(text[i]) THEN NextToken(text, ClosingLine(text, i))
  ELSE IF Contains(text[i], "=") /\ ~FunctionValue(text[i]) THEN <<i, Len(text[i]) + 1>>
  ELSE NextToken(text, i)

-------------------------------------------------------------------------------
(* findNamePosition: the first whole-word occurrence from a place on,      *)
(* whatever it stands in.                                                  *)

Positions(text) == UNION {{i} \X DOMAIN text[i] : i \in DOMAIN text}
\* The words of a line from a column on, as many as there are of the two.
Words(line, c, n) == SubSeq(line, c, IF c + n - 1 <= Len(line) THEN c + n - 1 ELSE Len(line))
Occurrences(text, name) ==
  {p \in Positions(text) : Words(text[p[1]], p[2], Len(name)) = name}

FindNamePosition(text, name, start) ==
  LET found == {p \in Occurrences(text, name) : ~Before(p, start)}
  IN IF found = {} THEN start
     ELSE CHOOSE p \in found : \A q \in found : ~Before(q, p)

\* As if every name were searched from the start.
PlacesFromStart(text, names, start) ==
  [k \in DOMAIN names |-> FindNamePosition(text, <<names[k]>>, start)]

\* Each name is searched from behind the one before it.
Places(text, names, start) ==
  LET place[k \in DOMAIN names] ==
        FindNamePosition(text, <<names[k]>>,
          IF k = 1 THEN start ELSE <<place[k - 1][1], place[k - 1][2] + 1>>)
  IN place

-------------------------------------------------------------------------------
(* analyzeScope                                                            *)

Symbol(name, scope, start, end, namePos, isFunction, depth) ==
  [name |-> name, scope |-> scope, start |-> start, end |-> end,
   namePos |-> namePos, isFunction |-> isFunction, depth |-> depth]

LocalSymbols(text, i) ==
  LET line  == text[i]
      names == DeclaredNames(line)
      place == Places(text, names, <<i, 1>>)
  IN [k \in DOMAIN names |->
       Symbol(<<names[k]>>, "local", <<i, 1>>, RangeEnd(text, i), place[k],
              k = 1 /\ FunctionValue(line), Depth(text, i))]

\* The range of `local function` starts at its second word.
FunctionSymbols(text, i, module) ==
  LET line   == text[i]
      start  == <<i, Column(line, "function")>>
      end    == RangeEnd(text, i)
      name   == FunctionName(line)
      global == line[1] = "function"
      at     == FindNamePosition(text, <<name>>, start)
      params == Parameters(line)
      place  == Places(text, params, start)
      Function(n) ==
        Symbol(n, IF global THEN "global" ELSE "local", start, end, at, TRUE, Depth(text, i))
  IN <<Function(<<name>>)>>
     \o (IF global /\ module # NoName THEN <<Function(<<module, ".", name>>)>> ELSE <<>>)
     \o [k \in DOMAIN params |->
          Symbol(<<params[k]>>, "parameter", start, end, place[k], FALSE, Depth(text, i) + 1)]

\* module("M") counts from its line on, and only the first one.
ModuleLine(text) == SelectInSeq(text, CallsModule)
ModuleName(text, supportModulePattern) ==
  IF supportModulePattern /\ ModuleLine(text) > 0 THEN text[ModuleLine(text)][4] ELSE NoName

LineSymbols(text, i, module) ==
  IF IsFunction(text[i])
  THEN FunctionSymbols(text, i, IF ModuleLine(text) < i THEN module ELSE NoName)
  ELSE IF Declares(text[i]) THEN LocalSymbols(text, i)
  ELSE <<>>
AnalyzeScope(text, module) ==
  FlattenSeq([i \in DOMAIN text |-> LineSymbols(text, i, module)])

\* funcParams_: a later function of the same name replaces an earlier one,
\* unless it has no parameters.
FuncParams(text) ==
  LET WithParameters(line) == IsFunction(line) /\ Parameters(line) # <<>>
      lines == {line \in ToSet(text) : WithParameters(line)}
  IN [f \in {FunctionName(line) : line \in lines} |->
       Parameters(text[SelectLastInSeq(text,
         LAMBDA line : WithParameters(line) /\ FunctionName(line) = f)])]

\* DocumentIndex::update
Index(text, supportModulePattern) ==
  LET module == ModuleName(text, supportModulePattern)
  IN [text |-> text, moduleName |-> module,
      symbols |-> AnalyzeScope(text, module), funcParams |-> FuncParams(text)]

-------------------------------------------------------------------------------
(* Queries on one document                                                 *)

FirstSymbol(doc, Test(_)) ==
  LET i == SelectInSeq(doc.symbols, Test)
  IN IF i = 0 THEN NoSymbol ELSE doc.symbols[i]

\* As if the end of the name were part of it.
FindSymbolBefore(doc, p) ==
  FirstSymbol(doc, LAMBDA s :
    /\ p[1] = s.namePos[1]
    /\ p[2] \in s.namePos[2] .. s.namePos[2] + Len(s.name))

\* The name is taken to be as wide as it is long, a qualified one too.
FindSymbolAt(doc, p) ==
  FirstSymbol(doc, LAMBDA s :
    /\ p[1] \in s.start[1] .. s.end[1]
    /\ p[1] = s.namePos[1]
    /\ p[2] \in s.namePos[2] .. s.namePos[2] + Len(s.name) - 1)

\* The word at the cursor, of letters and digits: it may end where the cursor is.
WordColumn(line, c) ==
  IF c <= Len(line) /\ line[c] \notin Punctuation THEN c
  ELSE IF c > 1 /\ line[c - 1] \notin Punctuation
          /\ (c > Len(line) \/ line[c] \in Adjacent) THEN c - 1
  ELSE 0
WordAt(text, p) ==
  LET c == WordColumn(text[p[1]], p[2])
  IN IF c = 0 THEN NoName ELSE text[p[1]][c]

=============================================================================

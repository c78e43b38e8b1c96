--------------------------------- MODULE Editor ---------------------------------
(***************************************************************************)
(* The documents of the symbol index under edits, and what the server      *)
(* answers about them: hover, definition, references, highlight,           *)
(* completion, workspace symbol, folding, signature help, rename and inlay *)
(* hints.  The main thread handles one message at a time, so that an       *)
(* answer is computed from one state: the answers are operators, and the   *)
(* properties hold every handler to the others and to the text.            *)
(*                                                                         *)
(* documents_ is an unordered map: where a handler takes the first match   *)
(* of all documents, the answers are a set of possible ones.               *)
(***************************************************************************)
EXTENDS DocumentIndex, FiniteSets, Functions

CONSTANTS
  Uris,      \* normalized uris
  NoDoc,     \* a uri without a document
  LowerCase, \* [Names -> Names]
  Resolve,   \* [Names -> Uris \cup {NoDoc}]: resolveModulePath, on the files on disk
  RequireLikeFunctions, \* emmylua.requireLikeFunctions
  Lines,     \* lines the user types: those that stand alone,
  Openers,   \* and those that open a block
  Fresh,     \* new names for rename
  Unnormalized, \* documents whose uri the client writes differently from the key
  MaxResults,   \* the limit of workspace/symbol: 100
  Settings,  \* what didChangeConfiguration brings: records with some of the
             \* fields caseSensitive and modulePattern
  MaxLines   \* bound on the lines of all documents

ASSUME EditorAssumption ==
  /\ NoDoc \notin Uris /\ IsFiniteSet(Uris) /\ Unnormalized \subseteq Uris
  /\ MaxResults \in Nat \ {0}
  /\ LowerCase \in [Names -> Names] /\ Resolve \in [Names -> Uris \cup {NoDoc}]
  /\ Fresh \subseteq Names /\ MaxLines \in Nat
  /\ \A line \in Lines \cup Openers :
       /\ line \in Seq(STRING) /\ line # <<>> /\ ToSet(line) \cap Fresh = {}
       /\ IsFunction(line) => /\ Contains(line, "(") /\ Column(line, "(") < Column(line, ")")
                              /\ FunctionName(line) \in Names
       /\ CallsModule(line) => line[4] \in Names
  /\ \A line \in Lines : ~Opens(line) /\ ~Closes(line)
  /\ \A line \in Openers : Opens(line)
  /\ \A settings \in Settings : \A field \in DOMAIN settings :
       field \in {"caseSensitive", "modulePattern"} /\ settings[field] \in BOOLEAN

VARIABLES
  documents, \* documents_: [Uris -> a DocumentIndex or NoDoc]
  config,    \* completion_case_sensitive and support_module_pattern
  supportModulePattern \* the SymbolIndex's own copy of the latter

vars == <<documents, config, supportModulePattern>>
settingVars == <<config, supportModulePattern>>

Indexed == {u \in Uris : documents[u] # NoDoc}
Text(u) == IF u \in Indexed THEN documents[u].text ELSE <<>>
\* A cursor may also stand behind the last word of a line.
Cursors(text) == UNION {{i} \X (1 .. Len(text[i]) + 1) : i \in DOMAIN text}

NormalizeName(word) == IF word \in Names THEN LowerCase[word] ELSE word
Same(a, b) ==
  \/ a = b
  \/ /\ ~config.caseSensitive /\ Len(a) = Len(b)
     /\ \A k \in DOMAIN a : NormalizeName(a[k]) = NormalizeName(b[k])

Span(u, p, width) == [uri |-> u, line |-> p[1], column |-> p[2], width |-> width]
Covers(range, u, p) ==
  /\ range.uri = u /\ range.line = p[1]
  /\ p[2] \in range.column .. range.column + range.width - 1

-------------------------------------------------------------------------------
(* SymbolIndex                                                             *)

\* findDefinition: the first answer comes from any document with a match.
FirstNamed(u, name) == FirstSymbol(documents[u], LAMBDA s : Same(s.name, name))
FindDefinition(name) ==
  UNION {LET s == FirstNamed(u, name)
         IN IF s = NoSymbol THEN {} ELSE {Span(u, s.namePos, Len(s.name))} : u \in Indexed}

\* As if only declarations were searched.
FindDeclarations(name) ==
  UNION {{Span(u, s.namePos, Len(name)) :
            s \in {s \in ToSet(documents[u].symbols) : Same(s.name, name)}} : u \in Indexed}

FindReferences(name) ==
  UNION {{Span(u, p, Len(name)) :
            p \in {p \in Positions(Text(u)) :
                     Same(Words(Text(u)[p[1]], p[2], Len(name)), name)}}
         : u \in Indexed}

\* The symbols of a document with the query in their name.
Matches(u, query) ==
  LET symbols == documents[u].symbols
      Matching(s) == \E k \in DOMAIN s.name : Same(<<s.name[k]>>, <<query>>)
  IN FlattenSeq([k \in DOMAIN symbols |->
       IF Matching(symbols[k]) THEN <<Span(u, symbols[k].namePos, 0)>> ELSE <<>>])
Shortened(results) ==
  IF Len(results) > MaxResults THEN SubSeq(results, 1, MaxResults) ELSE results

\* searchSymbols: the documents come in any order, and what exceeds the limit is lost.
SearchSymbols(query) ==
  {Shortened(FlattenSeq([n \in DOMAIN order |-> Matches(order[n], query)])) :
     order \in SetToSeqs(Indexed)}

\* getFuncParams: whichever document of the map comes first.
GetFuncParams(f) ==
  {documents[u].funcParams[f] : u \in {u \in Indexed : f \in DOMAIN documents[u].funcParams}}

-------------------------------------------------------------------------------
(* hover, definition, references, highlight, completion                    *)

\* The parameters of the function, taken to be those whose range starts on its
\* first line or on one of the three below it.
ParametersNear(doc, s) ==
  LET Near(p) == p.scope = "parameter" /\ p.start[1] \in s.start[1] .. s.start[1] + 3
  IN FlattenSeq([k \in DOMAIN doc.symbols |->
       IF Near(doc.symbols[k]) THEN doc.symbols[k].name ELSE <<>>])

\* As if the last symbol of the name were taken.
HoverLast(u, p) ==
  LET word == WordAt(Text(u), p)
      i    == SelectLastInSeq(documents[u].symbols, LAMBDA t : t.name = <<word>>)
      s    == documents[u].symbols[i]
  IN IF word = NoName \/ i = 0 THEN [kind |-> "word", word |-> word, params |-> <<>>]
     ELSE IF s.isFunction
     THEN [kind |-> "function", word |-> word, params |-> ParametersNear(documents[u], s)]
     ELSE [kind |-> s.scope, word |-> word, params |-> <<>>]

Hover(u, p) ==
  LET word == WordAt(Text(u), p)
      s    == FirstSymbol(documents[u], LAMBDA t : t.name = <<word>>)
  IN IF word = NoName \/ s = NoSymbol THEN [kind |-> "word", word |-> word, params |-> <<>>]
     ELSE IF s.isFunction
     THEN [kind |-> "function", word |-> word, params |-> ParametersNear(documents[u], s)]
     ELSE [kind |-> s.scope, word |-> word, params |-> <<>>]

\* The module path in the quotes around the cursor, if the string is the
\* argument of a require-like function.
RequiredAt(line, c) ==
  LET open  == SelectLastInSubSeq(line, 1, c - 1, LAMBDA w : w = "\"")
      close == SelectInSubSeq(line, c, Len(line), LAMBDA w : w = "\"")
  IN IF open > 2 /\ close = open + 2 /\ line[open - 1] = "("
        /\ line[open - 2] \in RequireLikeFunctions
     THEN line[open + 1] ELSE NoName

\* M.f, with the cursor on either of them.
QualifiedAt(line, p) ==
  LET c == WordColumn(line, p[2])
  IN IF c > 2 /\ line[c - 1] = "." THEN SubSeq(line, c - 2, c)
     ELSE IF c \in 1 .. Len(line) - 2 /\ line[c + 1] = "." THEN SubSeq(line, c, c + 2)
     ELSE <<>>

\* The word at the cursor or, without one, the symbol whose width covers it.
NameAt(u, p) ==
  LET word == WordAt(Text(u), p)
      s    == FindSymbolAt(documents[u], p)
  IN IF word # NoName THEN <<word>> ELSE IF s # NoSymbol THEN s.name ELSE <<>>

OwnDefinition(u, name) ==
  LET s == FirstSymbol(documents[u], LAMBDA t : t.name = name)
  IN IF s = NoSymbol THEN {} ELSE {Span(u, s.namePos, Len(s.name))}

Definition(u, p) ==
  LET line      == Text(u)[p[1]]
      required  == RequiredAt(line, p[2])
      name      == NameAt(u, p)
      qualified == QualifiedAt(line, p)
      foreign   == IF qualified = <<>> THEN {} ELSE FindDefinition(qualified)
      own       == OwnDefinition(u, name)
  IN IF required # NoName /\ Resolve[required] # NoDoc
     THEN {Span(Resolve[required], <<1, 1>>, 0)}
     ELSE IF name = <<>> THEN {}
     ELSE IF foreign # {} THEN foreign
     ELSE IF own # {} THEN own
     ELSE FindDefinition(name)

\* As if the other files of a module's users were not searched.
ReferencesInModule(u, p) ==
  LET name == NameAt(u, p)
  IN IF name = <<>> THEN {}
     ELSE IF documents[u].moduleName # NoName
     THEN {Span(u, q, Len(name)) : q \in Occurrences(Text(u), name)}
     ELSE FindReferences(name)

\* In a module file: the word in this file, the qualified name in the others,
\* whatever the case sensitivity.  This file is told from the others by the uri of
\* the request.
References(u, p) ==
  LET name   == NameAt(u, p)
      module == documents[u].moduleName
  IN IF name = <<>> THEN {}
     ELSE IF module # NoName
     THEN {Span(u, q, Len(name)) : q \in Occurrences(Text(u), name)}
          \cup UNION {{Span(v, q, Len(name) + 2) : q \in Occurrences(Text(v), <<module, ".">> \o name)}
                      : v \in Indexed \ ({u} \ Unnormalized)}
     ELSE FindReferences(name)

Highlights(u, p) ==
  LET target == FindSymbolAt(documents[u], p)
  IN IF target = NoSymbol THEN {}
     ELSE {Span(u, s.namePos, Len(s.name)) :
             s \in {s \in ToSet(documents[u].symbols) : s.name = target.name}}

Completion(u) ==
  UNION {{[label |-> s.name, isFunction |-> s.isFunction] :
            s \in {s \in ToSet(documents[v].symbols) : v = u \/ s.scope = "global"}}
         : v \in Indexed}

\* emmy/annotator: globals in one colour, locals in another, parameters in none.
Annotators(u) ==
  {[range |-> Span(u, s.namePos, Len(s.name)), type |-> IF s.scope = "global" THEN 1 ELSE 2] :
     s \in {s \in ToSet(documents[u].symbols) : s.scope # "parameter"}}

DocumentSymbols(u) ==
  {[name |-> s.name, kind |-> IF s.isFunction THEN "function" ELSE "variable",
    start |-> s.start, end |-> s.end, selection |-> s.namePos] : s \in ToSet(documents[u].symbols)}

FoldingRanges(text) ==
  {<<i, RangeEnd(text, i)[1]>> : i \in {i \in DOMAIN text : Opens(text[i])}}

-------------------------------------------------------------------------------
(* signature help and inlay hints: calls are found by their parentheses.   *)

NumberOf(line, word, from, to) == Cardinality({k \in from .. to : line[k] = word})
\* As many parentheses close as open between the two columns.
Level(line, from, to) == NumberOf(line, "(", from, to) = NumberOf(line, ")", from, to)

\* What signatureHelp walks back over is the line of a place, up to its column.
\* The byte it starts from is one to the right of the cursor on the first line, and
\* one to the left on the others, where the line break counts as their first byte.
WalkFrom(text, p) ==
  LET line  == text[p[1]]
      Tight == p[2] > Len(line) \/ line[p[2]] \in Adjacent \/ line[p[2] - 1] \in Prefixed
  IN IF p[1] = 1
     THEN IF p[2] <= Len(line) THEN <<1, p[2] + 1>> ELSE IF Len(text) = 1 THEN p ELSE <<1, 1>>
     ELSE IF p[2] = 1 THEN <<p[1] - 1, Len(text[p[1] - 1]) + 1>>
     ELSE IF Tight THEN <<p[1], p[2] - 1>>
     ELSE p

\* The parenthesis the cursor is in: a semicolon, in a string too, ends the walk.
OpenParenthesis(line, c) ==
  LET opening == {k \in 1 .. c - 1 : /\ line[k] = "(" /\ Level(line, k + 1, c - 1)
                                     /\ \A m \in k + 1 .. c - 1 : line[m] # ";"}
  IN IF opening = {} THEN 0 ELSE CHOOSE k \in opening : \A m \in opening : m <= k

\* The called function f, of f( or M.f(, and not one that is being declared.
Called(line, paren) ==
  LET start == IF paren > 3 /\ line[paren - 2] = "." THEN paren - 3 ELSE paren - 1
  IN IF paren < 2 THEN NoName
     ELSE IF line[paren - 1] \in Punctuation THEN NoName
     ELSE IF start > 1 /\ line[start - 1] = "function" THEN NoName
     ELSE line[paren - 1]

\* The walk counts the commas in tables and in strings, too.
Commas(line, paren, c) ==
  {k \in paren + 1 .. c - 1 : line[k] = "," /\ Level(line, k + 1, c - 1)}

SignatureHelp(u, p) ==
  LET at     == WalkFrom(Text(u), p)
      line   == Text(u)[at[1]]
      paren  == OpenParenthesis(line, at[2])
      f      == IF paren = 0 THEN NoName ELSE Called(line, paren)
      s      == FirstSymbol(documents[u], LAMBDA t : t.name = <<f>> /\ t.isFunction)
      params == IF s = NoSymbol THEN <<>> ELSE ParametersNear(documents[u], s)
      number == Cardinality(Commas(line, paren, at[2]))
  IN IF f = NoName \/ params = <<>> THEN [label |-> NoName, params |-> <<>>, active |-> 0]
     ELSE [label |-> f, params |-> params,
           active |-> IF number < Len(params) THEN number ELSE Len(params) - 1]

\* inlayHint skips strings, and tracks brackets of every kind.
InString(line, k) == NumberOf(line, "\"", 1, k - 1) % 2 = 1
NumberOutside(line, words, from, to) ==
  Cardinality({k \in from .. to : line[k] \in words /\ ~InString(line, k)})
Nest(line, from, to) ==
  NumberOutside(line, {"(", "{", "["}, from, to) - NumberOutside(line, {")", "}", "]"}, from, to)

\* As if the first argument were the parameter after the first.
NextParameter(params, k) == IF k + 2 \in DOMAIN params THEN params[k + 2] ELSE NoName
Parameter(params, k) == params[k + 1]

\* The commas between the arguments of a call, up to the bracket that ends it.
Separators(line, paren) ==
  LET Outermost(k) == ~InString(line, k) /\ Nest(line, paren + 1, k - 1) = 0
      Ends(k) == line[k] \in {")", "}", "]"} /\ Outermost(k)
  IN {k \in paren + 1 .. Len(line) :
        line[k] = "," /\ Outermost(k) /\ \A m \in paren + 1 .. k : ~Ends(m)}

\* The hints of one call: one where the first argument starts, and one behind
\* each comma of the call, as far as there are parameters.
CallHints(line, paren, params) ==
  LET commas   == Separators(line, paren)
      index(k) == Cardinality({m \in commas : m <= k})
      starts   == {paren} \cup {k \in commas : index(k) < Len(params)}
  IN {[column |-> k + 1, label |-> Parameter(params, index(k))] :
        k \in {k \in starts : line[k + 1] # ")" /\ (k = paren \/ line[k + 1] # ",")}}

\* The calls of a text that may get hints.
Calls(text) ==
  {p \in Positions(text) :
     LET line == text[p[1]]
     IN /\ ~IsComment(line) /\ line[p[2]] = "(" /\ ~InString(line, p[2])
        /\ Called(line, p[2]) # NoName}

\* textDocument/inlayHint: for each call, what it may get.
InlayHints(u) ==
  {[call |-> p, hints |-> {CallHints(Text(u)[p[1]], p[2], params) :
                             params \in GetFuncParams(Called(Text(u)[p[1]], p[2]))}]
     : p \in Calls(Text(u))}

-------------------------------------------------------------------------------
(* Edits                                                                   *)

Init ==
  /\ documents = [u \in Uris |-> NoDoc]
  /\ config = [caseSensitive |-> FALSE, modulePattern |-> TRUE]
  /\ supportModulePattern = FALSE

NumberOfLines == FoldFunctionOnSet(+, 0, [u \in Uris |-> Len(Text(u))], Uris)
Renamed == \E u \in Indexed : \E p \in Positions(Text(u)) : Text(u)[p[1]][p[2]] \in Fresh

\* workspaceMgr.indexFile on the new full text.
Update(u, text) ==
  documents' = [documents EXCEPT ![u] = Index(text, supportModulePattern)]

\* The user types a line (didOpen, didChange).  Bound: not after a rename.
Type(u) ==
  /\ NumberOfLines < MaxLines /\ ~Renamed
  /\ \E line \in Lines, k \in 1 .. Len(Text(u)) + 1 : Update(u, InsertAt(Text(u), k, line))
  /\ UNCHANGED settingVars

\* The user puts a block around lines that are balanced.
Wrap(u) ==
  LET text == Text(u) IN
  /\ NumberOfLines + 1 < MaxLines /\ ~Renamed
  /\ \E opener \in Openers, k \in 1 .. Len(text) + 1 : \E m \in k - 1 .. Len(text) :
       /\ \A i \in k .. m + 1 : Depth(text, i) >= Depth(text, k)
       /\ Depth(text, m + 1) = Depth(text, k)
       /\ Update(u, SubSeq(text, 1, k - 1) \o <<opener>> \o SubSeq(text, k, m)
                    \o << <<"end">> >> \o SubSeq(text, m + 1, Len(text)))
  /\ UNCHANGED settingVars

\* didClose: removeFile
Close(u) ==
  /\ u \in Indexed
  /\ documents' = [documents EXCEPT ![u] = NoDoc]
  /\ UNCHANGED settingVars

\* A workspace edit: newName in place of every range, in every document.
Applied(text, ranges, newName) ==
  [i \in DOMAIN text |->
     FlattenSeq([c \in DOMAIN text[i] |->
       IF \E r \in ranges : r.line = i /\ r.column = c THEN <<newName>>
       ELSE IF \E r \in ranges : r.line = i /\ c \in r.column .. r.column + r.width - 1 THEN <<>>
       ELSE <<text[i][c]>>])]

\* textDocument/rename, and the editor's changes that follow from it.
Rename(u, p, newName) ==
  LET s      == FindSymbolAt(documents[u], p)
      ranges == FindReferences(s.name)
      Edited == {r.uri : r \in ranges}
  IN /\ s # NoSymbol /\ ~Renamed
     /\ documents' = [v \in Uris |->
          IF v \in Edited
          THEN Index(Applied(Text(v), {r \in ranges : r.uri = v}, newName), supportModulePattern)
          ELSE documents[v]]
     /\ UNCHANGED settingVars

\* Config::update: only the settings that are given change.
Updated(settings) ==
  [field \in DOMAIN config |-> IF field \in DOMAIN settings THEN settings[field] ELSE config[field]]

\* didChangeConfiguration: the documents stay as they were parsed.
Configure ==
  /\ \E settings \in Settings : config' = Updated(settings)
  /\ supportModulePattern' = config'.modulePattern
  /\ UNCHANGED documents

RenameAnywhere ==
  \E u \in Indexed, newName \in Fresh : \E p \in Positions(Text(u)) : Rename(u, p, newName)

Next ==
  \/ \E u \in Uris : Type(u) \/ Wrap(u) \/ Close(u)
  \/ RenameAnywhere
  \/ Configure

Spec == Init /\ [][Next]_vars

-------------------------------------------------------------------------------
(* Properties                                                              *)

\* The columns of a line that declare a name.
DeclaringColumns(line) ==
  LET from == IF IsFunction(line) THEN Column(line, "(") - 1 ELSE 1
      to   == IF IsFunction(line) THEN Column(line, ")") ELSE NamesEnd(line)
  IN {c \in from .. to : line[c] \in Names /\ (IsFunction(line) \/ Declares(line))}

\* The words of a function's name before the last, and the last.
NamePath(line) ==
  IF IsFunction(line) THEN {line[c] : c \in 1 .. Column(line, "(") - 1} ELSE {}
\* Nothing that is searched for stands in the statement before its declaration.
Unambiguous(line) ==
  IsFunction(line) =>
    /\ NamePath(line) \cap ToSet(Parameters(line)) = {}
    /\ FunctionName(line) \notin {line[c] : c \in 1 .. Column(line, "(") - 2}

\* Although findNamePosition looks for any occurrence of the name, the place of
\* every symbol is where its name is declared: the second of two equal names is
\* not given the place of the first, nor a declaration that of a use before it.
NamesInPlace ==
  \A u \in Indexed : \A i \in DOMAIN Text(u) :
    LET place(j) == documents[u].symbols[j].namePos
        found == {j \in DOMAIN documents[u].symbols :
                    documents[u].symbols[j].start[1] = i /\ Len(documents[u].symbols[j].name) = 1}
    IN Unambiguous(Text(u)[i]) =>
         /\ {place(j) : j \in found} = {i} \X DeclaringColumns(Text(u)[i])
         /\ \A j, k \in found : j < k => Before(place(j), place(k))

\* findSymbolAt answers with the symbol of the word the cursor is on, in a
\* document without a module: what highlight marks for it are words that rename
\* would replace, and what the annotator colours is among the marked.
CursorOnWord ==
  \A u \in Indexed : documents[u].moduleName = NoName =>
    /\ \A p \in Positions(Text(u)) :
         LET s == FindSymbolAt(documents[u], p)
         IN s # NoSymbol => /\ s.name = <<Text(u)[p[1]][p[2]]>>
                            /\ Highlights(u, p) \subseteq FindReferences(s.name)
    /\ \A a \in Annotators(u) : a.range \in Highlights(u, <<a.range.line, a.range.column>>)

\* hover describes the symbol that definition goes to: both take the first of
\* the document, and completion offers what hover describes.  hover knows of no
\* other document; the symbol there is one that workspace/symbol finds, unless there
\* are as many as it answers at most.
HoverDescribesTarget ==
  \A u \in Indexed : \A p \in Cursors(Text(u)) :
    LET line    == Text(u)[p[1]]
        word    == WordAt(Text(u), p)
        hover   == Hover(u, p)
        targets == Definition(u, p)
    IN word # NoName /\ QualifiedAt(line, p) = <<>> /\ RequiredAt(line, p[2]) = NoName =>
         IF hover.kind = "word"
         THEN \A d \in targets :
                /\ config.caseSensitive => d.uri # u
                /\ \A answer \in SearchSymbols(word) :
                     Len(answer) < MaxResults => [d EXCEPT !.width = 0] \in ToSet(answer)
         ELSE \E s \in ToSet(documents[u].symbols) :
                /\ targets = {Span(u, s.namePos, 1)}
                /\ hover.kind = IF s.isFunction THEN "function" ELSE s.scope
                /\ [label |-> <<word>>, isFunction |-> s.isFunction] \in Completion(u)

ReferencesFind(d, u, p) ==
  \E r \in References(d.uri, <<d.line, d.column>>) :
    Covers(r, u, <<p[1], WordColumn(Text(u)[p[1]], p[2])>>)
WithoutModules == \A u \in Indexed : documents[u].moduleName = NoName

\* Where definition may go from a use, references finds that use again: the
\* two agree on what one name is, across documents and in either case mode, and
\* for a use M.f of a module's function in another file.
DefinitionReferencesAgree ==
  /\ WithoutModules =>
       \A u \in Indexed : \A p \in Cursors(Text(u)) :
         RequiredAt(Text(u)[p[1]], p[2]) = NoName =>
           \A d \in Definition(u, p) : ReferencesFind(d, u, p)
  /\ config.caseSensitive =>
       \A u \in Indexed : \A p \in Positions(Text(u)) :
         LET name == QualifiedAt(Text(u)[p[1]], p)
         IN \A d \in IF name = <<>> THEN {} ELSE FindDefinition(name) :
              d.uri # u => ReferencesFind(d, u, p)

\* Declarations of f in a text as a function with a parameter list, or otherwise.
FunctionLines(text, f) == {i \in DOMAIN text : IsFunction(text[i]) /\ FunctionName(text[i]) = f}
Alone(text, i) ==
  \A j \in i + 1 .. i + 3 : j \in DOMAIN text /\ IsFunction(text[j]) => Parameters(text[j]) = <<>>

\* No bracket closes up to the column that did not open behind the parenthesis, and
\* no string holds a parenthesis.
WellNested(line, paren, c) ==
  \A k \in paren + 1 .. c - 1 :
    NumberOf(line, "(", paren + 1, k) - NumberOf(line, ")", paren + 1, k)
      \in 0 .. Nest(line, paren + 1, k)
\* The commas of an argument list in its tables and strings, not in calls within it.
Enclosed(line, paren, c) ==
  {k \in paren + 1 .. c - 1 : /\ line[k] = "," /\ Level(line, paren + 1, k - 1)
                              /\ InString(line, k) \/ Nest(line, paren + 1, k - 1) > 0}
\* The cursors from which signatureHelp walks back over what stands before a word,
\* and over the word itself at most if it is a name.
CursorsBefore(text, i, c) ==
  {p \in Cursors(text) :
     LET at == WalkFrom(text, p)
     IN at = <<i, c>> \/ (at = <<i, c + 1>> /\ c <= Len(text[i]) /\ text[i][c] \in Names)}

\* What help tells of an argument with a hint: nothing behind a semicolon, else its
\* parameter, or one further on for each enclosed comma.
HelpFits(help, f, hint, line, paren) ==
  IF \E k \in paren + 1 .. hint.column - 1 : line[k] = ";" THEN help.label = NoName
  ELSE /\ help.label = f
       /\ \E n \in DOMAIN help.params :
            LET expected == n + Cardinality(Enclosed(line, paren, hint.column))
            IN /\ hint.label = help.params[n]
               /\ help.active + 1 =
                    IF expected < Len(help.params) THEN expected ELSE Len(help.params)

\* signatureHelp, which walks back over parentheses and commas from a byte beside
\* the cursor, and inlayHint, which reads on over brackets and strings, agree on the
\* parameter an argument stands for but for the commas and semicolons that only the
\* former sees, when this document declares the function, once, with no other within
\* three lines, and no other document does.
SignatureAgreesWithHints ==
  \A u \in Indexed : \A entry \in InlayHints(u) :
    LET i     == entry.call[1]
        paren == entry.call[2]
        line  == Text(u)[i]
        f     == Called(line, paren)
        lines == FunctionLines(Text(u), f)
    IN /\ \E j \in lines : lines = {j} /\ Alone(Text(u), j)
       /\ \A v \in Indexed : v = u \/ FunctionLines(Text(v), f) = {}
       /\ \A j \in DOMAIN Text(u) : ~(Declares(Text(u)[j]) /\ FunctionValue(Text(u)[j]))
       => \A hint \in UNION entry.hints : WellNested(line, paren, hint.column) =>
            \A p \in CursorsBefore(Text(u), i, hint.column) :
              HelpFits(SignatureHelp(u, p), f, hint, line, paren)

\* Every line lies in the folds of all the blocks around it, two folds are
\* nested or share at most a line, although a fold reaches to the next token,
\* and an outline entry contains its name.
RangesNest ==
  \A u \in Indexed :
    LET folds == FoldingRanges(Text(u)) IN
    /\ \A i \in DOMAIN Text(u) :
         Cardinality({f \in folds : i \in f[1] + 1 .. f[2]}) >= Depth(Text(u), i)
    /\ \A f, g \in folds : f[1] < g[1] => g[1] >= f[2] \/ g[2] <= f[2]
    /\ \A s \in DocumentSymbols(u) : ~Before(s.selection, s.start) /\ Before(s.selection, s.end)

\* Rename to a new name, in case-sensitive mode and without modules, keeps every
\* binding: exactly the old name is replaced, in every document, and what the
\* index knows of the new texts differs in that name alone.
Substituted(name, old, new) ==
  [k \in DOMAIN name |-> IF name[k] = old THEN new ELSE name[k]]
KeepsBindings ==
  \E old \in Names \ Fresh, new \in Fresh : \A u \in Indexed :
    /\ documents'[u].text = [i \in DOMAIN Text(u) |-> Substituted(Text(u)[i], old, new)]
    /\ documents'[u].symbols =
         [k \in DOMAIN documents[u].symbols |->
            [documents[u].symbols[k] EXCEPT !.name = Substituted(@, old, new)]]
RenameKeepsBindings ==
  [][~Renamed /\ Renamed' /\ config.caseSensitive /\ ~supportModulePattern /\ WithoutModules
     => KeepsBindings]_vars

===============================================================================

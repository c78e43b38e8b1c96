---------------------------- MODULE DebugFramesProofs ----------------------------
(***************************************************************************)
(* Proofs about DebugFrames, for any stacks, files and bounds.             *)
(***************************************************************************)
EXTENDS DebugFrames, SequenceTheorems, WellFoundedInduction, TLAPS

\* A set of numbers has a least one.
LEMMA MinimumExists ==
  ASSUME NEW T, T \subseteq Nat, T # {}
  PROVE  \E x \in T : \A y \in T : x <= y
<1> DEFINE R == {ss \in Nat \X Nat : ss[1] < ss[2]}
<1>1. IsWellFoundedOn(R, Nat)
  <2>1. OpToRel(<, Nat) = R
    BY DEF OpToRel
  <2> QED  BY <2>1, NatLessThanWellFounded
<1>2. PICK x \in T : \A y \in T : ~ (<<y, x>> \in R)
  <2> HIDE DEF R
  <2> QED  BY <1>1, WFMin
<1>3. ASSUME NEW y \in T  PROVE x <= y
  <2>1. <<y, x>> \in Nat \X Nat /\ ~ (<<y, x>> \in R)
    BY <1>2
  <2>2. ~ (y < x)
    <3>1. <<y, x>>[1] = y /\ <<y, x>>[2] = x
      OBVIOUS
    <3> HIDE <1>2
    <3> QED  BY <2>1, <3>1
  <2> QED  BY <2>2
<1> QED  BY <1>3

LEMMA LengthOf ==
  ASSUME NEW S, NEW s \in Seq(S), NEW n \in Nat, DOMAIN s = 1 .. n
  PROVE  Len(s) = n
<1>1. Len(s) \in Nat /\ 1 .. Len(s) = 1 .. n
  BY LenProperties
<1>2. \A m \in Nat : m = 0 \/ m \in 1 .. m
  OBVIOUS
<1>3. Len(s) <= n /\ n <= Len(s)
  BY <1>1, <1>2
<1> QED  BY <1>1, <1>3

-------------------------------------------------------------------------------
(* Stack traces                                                             *)

Frame     == [file : DOMAIN Found, source : BOOLEAN, env : BOOLEAN]
Path      == DOMAIN Found \cup {Found[f] : f \in DOMAIN Found}
Shown     == [level : Nat, path : Path]
TraceType == [stop : Nat, next : Nat, turns : Seq(Seq(Shown)), search : Nat \cup {NoSearch}]
Search    == [seq : Nat, file : DOMAIN Found]

\* The cache holds what VS Code found.
CacheInv(cache) ==
  /\ DOMAIN cache \subseteq DOMAIN Found
  /\ \A f \in DOMAIN cache : Found[f] # NoPath /\ cache[f] = Found[f]

\* A trace up to its next turn, ss being the stacks of the stops.
TraceSoFar(ss, t) ==
  /\ t \in TraceType
  /\ t.stop \in 1 .. Len(ss)
  /\ t.next \in 1 .. Len(ss[t.stop]) + 1
  /\ Len(t.turns) = t.next - 1
  /\ \A i \in 1 .. t.next - 1 : t.turns[i] = Listed(ss[t.stop], i)

\* A trace between two events: at its end, or it waits for the file of that turn.
TraceInv(ss, t) ==
  /\ TraceSoFar(ss, t)
  /\ IF t.search = NoSearch THEN t.next = Len(ss[t.stop]) + 1
     ELSE t.next <= Len(ss[t.stop]) /\ ss[t.stop][t.next].source

SearchOf(ss, t) == [seq |-> t.search, file |-> ss[t.stop][t.next].file]

\* Each search has a number of its own, below n, and no two traces share one.
SearchesApart(srch, n) ==
  /\ srch \subseteq Search
  /\ \A s \in srch : s.seq < n
  /\ \A s, r \in srch : s.seq = r.seq => s = r
TracesInv(ss, ts, srch) ==
  /\ ts \in Seq(TraceType)
  /\ \A k \in 1 .. Len(ts) : TraceInv(ss, ts[k])
  /\ \A k \in 1 .. Len(ts) : ts[k].search # NoSearch => SearchOf(ss, ts[k]) \in srch
  /\ \A j, k \in 1 .. Len(ts) :
       ts[j].search = ts[k].search /\ ts[j].search # NoSearch => j = k

LEMMA StopsAreStacks ==
  ASSUME stops \in Seq(Stacks), NEW n \in 1 .. Len(stops)
  PROVE  stops[n] \in Seq(Frame) /\ stops[n] # <<>>
BY ElementOfSeq, FramesAssumption DEF FramesAssumption, Frame

\* What a turn pushes when the file it shows is the one VS Code finds.
LEMMA TurnLists ==
  ASSUME NEW stack \in Seq(Frame), NEW i \in 1 .. Len(stack), NEW path,
         path = IF stack[i].source THEN PathOf(stack[i].file) ELSE stack[i].file
  PROVE  Turn(stack, i, path) = Listed(stack, i) /\ Listed(stack, i) \in Seq(Shown)
<1>1. stack[i] \in Frame /\ Len(stack) \in Nat
  BY ElementOfSeq, LenProperties
<1>2. path \in Path
  BY <1>1 DEF PathOf, Path, Frame
<1>3. [level |-> i - 1, path |-> path] \in Shown
  BY <1>2 DEF Shown
<1>4. <<[level |-> i - 1, path |-> path]>> \in Seq(Shown) /\ <<>> \in Seq(Shown)
  BY <1>3
<1>5. Turn(stack, i, path) = Listed(stack, i)
  BY <1>1 DEF Turn, Listed
<1>6. Turn(stack, i, path) \in Seq(Shown)
  BY <1>4 DEF Turn
<1> QED  BY <1>5, <1>6

\* The turns from one to another, with every file of theirs in the cache.
LEMMA TurnsList ==
  ASSUME NEW stack \in Seq(Frame), NEW from \in 1 .. Len(stack) + 1,
         NEW to \in from .. Len(stack) + 1, NEW cache, CacheInv(cache),
         \A i \in from .. to - 1 : stack[i].source => stack[i].file \in DOMAIN cache
  PROVE  /\ Turns(stack, from, to, cache) \in Seq(Seq(Shown))
         /\ Len(Turns(stack, from, to, cache)) = to - from
         /\ \A k \in 1 .. to - from :
              Turns(stack, from, to, cache)[k] = Listed(stack, from + k - 1)
<1> DEFINE T == Turns(stack, from, to, cache)
           n == to - from
<1>1. Len(stack) \in Nat /\ n \in Nat
  BY LenProperties
<1>2. DOMAIN T = 1 .. n
  BY DEF Turns
<1>3. ASSUME NEW k \in 1 .. n
      PROVE  T[k] = Listed(stack, from + k - 1) /\ T[k] \in Seq(Shown)
  <2> DEFINE i == from + k - 1
  <2>1. i \in from .. to - 1 /\ i \in 1 .. Len(stack)
    BY <1>1
  <2> DEFINE path == IF stack[i].source THEN cache[stack[i].file] ELSE stack[i].file
  <2>2. T[k] = Turn(stack, i, path)
    BY DEF Turns
  <2>3. path = IF stack[i].source THEN PathOf(stack[i].file) ELSE stack[i].file
    BY <2>1 DEF CacheInv, PathOf
  <2> HIDE DEF path, i
  <2>4. T[k] = Listed(stack, i) /\ T[k] \in Seq(Shown)
    BY <2>1, <2>2, <2>3, TurnLists
  <2> QED  BY <2>4 DEF i
<1>4. T \in [1 .. n -> Seq(Shown)]
  BY <1>2, <1>3 DEF Turns
<1> HIDE DEF T
<1>5. T \in Seq(Seq(Shown))
  BY <1>1, <1>4, SeqDef
<1>6. Len(T) = n
  BY <1>1, <1>2, <1>5, LengthOf
<1> QED  BY <1>3, <1>5, <1>6 DEF T

\* Where the loop goes on: at the first turn of a set, or behind the last.
LEMMA FirstOf ==
  ASSUME NEW n \in Nat, NEW m \in Nat, n <= m + 1, NEW S, S \subseteq n .. m, NEW next,
         S = {} => next = m + 1,
         S # {} => next \in S /\ \A j \in S : next <= j
  PROVE  /\ next \in n .. m + 1
         /\ \A i \in n .. next - 1 : i \in n .. m /\ i \notin S
<1>1. next \in n .. m + 1
  <2>1. CASE S = {}
    BY <2>1
  <2>2. CASE S # {}
    <3>1. next \in n .. m
      BY <2>2
    <3> QED  BY <3>1
  <2> QED  BY <2>1, <2>2
<1>2. ASSUME NEW i \in n .. next - 1  PROVE i \in n .. m /\ i \notin S
  <2>1. next \in Int /\ next <= m + 1 /\ i < next
    BY <1>1
  <2> QED  BY <2>1
<1> QED  BY <1>1, <1>2

\* Turns that are added to those before them.
List(stack, from, turns, n) ==
  /\ turns \in Seq(Seq(Shown)) /\ Len(turns) = n
  /\ \A k \in 1 .. n : turns[k] = Listed(stack, from + k)
LEMMA TurnsGoOn ==
  ASSUME NEW stack, NEW turns, NEW new, NEW a \in Nat, NEW b \in Nat,
         List(stack, 0, turns, a), List(stack, a, new, b)
  PROVE  List(stack, 0, turns \o new, a + b)
<1> USE DEF List
<1>1. /\ turns \o new \in Seq(Seq(Shown)) /\ Len(turns \o new) = a + b
      /\ \A i \in 1 .. a + b : (turns \o new)[i] = IF i <= a THEN turns[i] ELSE new[i - a]
  BY ConcatProperties
<1>2. ASSUME NEW i \in 1 .. a + b  PROVE (turns \o new)[i] = Listed(stack, 0 + i)
  <2>1. CASE i <= a
    BY <1>1, <2>1
  <2>2. CASE ~ (i <= a)
    <3> DEFINE k == i - a
    <3>1. k \in 1 .. b /\ a + k = i
      BY <2>2
    <3> HIDE DEF k
    <3>2. new[k] = Listed(stack, i)
      BY <3>1
    <3> QED  BY <1>1, <2>2, <3>2 DEF k
  <2> QED  BY <2>1, <2>2
<1> QED  BY <1>1, <1>2

\* Going on leaves a trace at its end or at a file for which it asks now.
LEMMA ResumeTrace ==
  ASSUME stops \in Seq(Stacks), findFileSeq \in Nat,
         NEW t, TraceSoFar(stops, t), NEW cache, CacheInv(cache)
  PROVE  /\ TraceInv(stops, Resume(t, cache))
         /\ Resume(t, cache).search \in {NoSearch, findFileSeq}
         /\ Resume(t, cache).stop = t.stop
<1> DEFINE stack   == stops[t.stop]
           n       == t.next
           unknown == {i \in n .. Len(stack) :
                         stack[i].source /\ stack[i].file \notin DOMAIN cache}
           next    == IF unknown = {} THEN Len(stack) + 1
                      ELSE CHOOSE i \in unknown : \A j \in unknown : i <= j
           new     == Turns(stack, n, next, cache)
           search  == IF unknown = {} THEN NoSearch ELSE findFileSeq
           u       == Resume(t, cache)
<1>1. stack \in Seq(Frame) /\ Len(stack) \in Nat
  BY StopsAreStacks, LenProperties DEF TraceSoFar
<1>2. /\ t \in TraceType /\ n \in 1 .. Len(stack) + 1 /\ n \in Nat
      /\ t.turns \in Seq(Seq(Shown)) /\ Len(t.turns) = n - 1
      /\ \A i \in 1 .. n - 1 : t.turns[i] = Listed(stack, i)
  BY <1>1 DEF TraceSoFar, TraceType
<1> HIDE DEF n
<1>3. /\ next \in n .. Len(stack) + 1
      /\ unknown = {} => next = Len(stack) + 1
      /\ unknown # {} => next \in unknown
      /\ \A i \in n .. next - 1 : i \in n .. Len(stack) /\ i \notin unknown
  <2> DEFINE m == Len(stack)
  <2>1. n <= m + 1 /\ unknown \subseteq n .. m /\ m \in Nat
    BY <1>1, <1>2
  <2>2. unknown = {} => next = m + 1
    OBVIOUS
  <2>3. unknown # {} => next \in unknown /\ \A j \in unknown : next <= j
    <3>1. SUFFICES ASSUME unknown # {}
                   PROVE  next \in unknown /\ \A j \in unknown : next <= j
      OBVIOUS
    <3>2. unknown \subseteq Nat
      BY <1>2
    <3>3. next = CHOOSE i \in unknown : \A j \in unknown : i <= j
      BY <3>1
    <3> HIDE DEF unknown, next
    <3>4. \E i \in unknown : \A j \in unknown : i <= j
      BY <3>1, <3>2, MinimumExists
    <3> QED  BY <3>3, <3>4
  <2> HIDE DEF unknown, m, next
  <2>4. /\ next \in n .. m + 1
        /\ \A i \in n .. next - 1 : i \in n .. m /\ i \notin unknown
    BY <1>2, <2>1, <2>2, <2>3, FirstOf
  <2> QED  BY <2>2, <2>3, <2>4 DEF m
<1>4. \A i \in n .. next - 1 : stack[i].source => stack[i].file \in DOMAIN cache
  BY <1>3
<1>5. u = [t EXCEPT !.next = next, !.turns = @ \o new, !.search = search]
  BY DEF Resume, StackOf, n
<1>6. /\ u.stop = t.stop /\ u.next = next /\ u.turns = t.turns \o new /\ u.search = search
      /\ u = [stop |-> t.stop, next |-> next, turns |-> t.turns \o new, search |-> search]
  <2> HIDE DEF u, next, new, search
  <2> QED  BY <1>2, <1>5 DEF TraceType
<1>7. stops[u.stop] = stack
  BY <1>6
<1>8. /\ new \in Seq(Seq(Shown)) /\ Len(new) = next - n
      /\ \A k \in 1 .. next - n : new[k] = Listed(stack, n + k - 1)
  <2>1. next \in n .. Len(stack) + 1 /\ n \in 1 .. Len(stack) + 1 /\ stack \in Seq(Frame)
    BY <1>1, <1>2, <1>3
  <2> HIDE DEF next, stack, n
  <2> QED  BY <2>1, <1>4, TurnsList
<1> HIDE DEF new, unknown, u
<1>9. /\ t.turns \o new \in Seq(Seq(Shown)) /\ Len(t.turns \o new) = next - 1
      /\ \A i \in 1 .. next - 1 : (t.turns \o new)[i] = Listed(stack, i)
  <2> DEFINE a == n - 1
             b == next - n
             turns == t.turns
  <2>1. a \in Nat /\ b \in Nat /\ a + b = next - 1 /\ \A k \in 1 .. b : a + k = n + k - 1
    <3> HIDE DEF next, stack
    <3> QED  BY <1>1, <1>2, <1>3
  <2>2. List(stack, 0, turns, a)
    <3>1. \A k \in 1 .. a : 0 + k = k
      BY <2>1
    <3> QED  BY <1>2, <3>1 DEF List
  <2>3. List(stack, a, new, b)
    <3> HIDE DEF next, stack
    <3> QED  BY <1>8, <2>1 DEF List
  <2> HIDE DEF a, b, stack, turns, next, n
  <2>4. List(stack, 0, turns \o new, a + b)
    BY <2>1, <2>2, <2>3, TurnsGoOn
  <2>5. \A i \in 1 .. next - 1 : 0 + i = i
    BY <2>1
  <2> QED  BY <2>1, <2>4, <2>5 DEF turns, List
<1>10. TraceSoFar(stops, u)
  <2>1. next \in 1 .. Len(stack) + 1 /\ next \in Nat
    <3> HIDE DEF next, stack
    <3> QED  BY <1>1, <1>2, <1>3
  <2>2. u \in TraceType
    <3> HIDE DEF next
    <3> QED  BY <1>2, <1>6, <1>9, <2>1 DEF TraceType
  <2>3. u.stop \in 1 .. Len(stops)
    BY <1>6 DEF TraceSoFar
  <2> HIDE DEF next, stack
  <2> QED  BY <1>6, <1>7, <1>9, <2>1, <2>2, <2>3 DEF TraceSoFar
<1>11. /\ u.search \in {NoSearch, findFileSeq}
       /\ IF u.search = NoSearch THEN u.next = Len(stack) + 1
          ELSE u.next <= Len(stack) /\ stack[u.next].source
  <2>1. CASE unknown = {}
    BY <1>6, <2>1 DEF NoSearch
  <2>2. CASE unknown # {}
    <3>1. u.search = findFileSeq /\ u.search # NoSearch
      BY <1>6, <2>2 DEF NoSearch
    <3>2. next \in n .. Len(stack) /\ stack[next].source
      BY <1>3, <2>2 DEF unknown
    <3> HIDE DEF next, stack
    <3> QED  BY <1>1, <1>2, <1>6, <3>1, <3>2
  <2> QED  BY <2>1, <2>2
<1> QED  BY <1>6, <1>7, <1>10, <1>11 DEF TraceInv, u

\* The searches that traces ask for now join those under way.
LEMMA FindFileAsks ==
  ASSUME stops \in Seq(Stacks), findFileSeq \in Nat,
         NEW rest, SearchesApart(rest, findFileSeq),
         NEW ts \in Seq(TraceType), \A k \in 1 .. Len(ts) : TraceInv(stops, ts[k]),
         \A k \in 1 .. Len(ts) : ts[k].search \notin {NoSearch, findFileSeq}
                                  => SearchOf(stops, ts[k]) \in rest,
         \A j, k \in 1 .. Len(ts) :
           ts[j].search = ts[k].search /\ ts[j].search # NoSearch => j = k,
         FindFile(ts, rest)
  PROVE  /\ findFileSeq' \in Nat
         /\ SearchesApart(searches', findFileSeq')
         /\ TracesInv(stops, ts, searches')
<1> DEFINE asked == {t \in ToSet(ts) : t.search = findFileSeq}
           new   == {SearchOf(stops, t) : t \in asked}
<1>1. /\ searches' = rest \cup new
      /\ findFileSeq' = IF asked = {} THEN findFileSeq ELSE findFileSeq + 1
  BY DEF FindFile, SearchOf, StackOf
<1>2. DOMAIN ts = 1 .. Len(ts)
  BY LenProperties
<1>3. ASSUME NEW t \in asked  PROVE SearchOf(stops, t) \in Search /\ SearchOf(stops, t).seq = findFileSeq
  <2>1. TraceInv(stops, t) /\ t.search = findFileSeq
    BY <1>2 DEF ToSet
  <2>2. t.search # NoSearch
    BY <2>1 DEF NoSearch
  <2>3. /\ t.next \in 1 .. Len(stops[t.stop]) + 1 /\ t.next <= Len(stops[t.stop])
        /\ stops[t.stop] \in Seq(Frame)
    BY <2>1, <2>2, StopsAreStacks DEF TraceInv, TraceSoFar
  <2>4. t.next \in 1 .. Len(stops[t.stop])
    BY <2>3, LenProperties
  <2>5. stops[t.stop][t.next] \in Frame
    BY <2>3, <2>4, ElementOfSeq
  <2> QED  BY <2>1, <2>5 DEF SearchOf, Search, Frame
<1>4. \A t, u \in asked : t = u
  BY <1>2 DEF ToSet, NoSearch
<1> HIDE DEF asked
<1>5. new # {} => asked # {}
  OBVIOUS
<1>6. new \subseteq Search /\ \A s \in new : s.seq = findFileSeq
  BY <1>3
<1>7. \A s, r \in new : s = r
  BY <1>4
<1> HIDE DEF new
<1>8. findFileSeq' \in Nat /\ findFileSeq <= findFileSeq'
  BY <1>1
<1>9. SearchesApart(searches', findFileSeq')
  <2>1. searches' \subseteq Search
    BY <1>1, <1>6 DEF SearchesApart
  <2>2. ASSUME NEW s \in searches'  PROVE s.seq < findFileSeq'
    <3>1. CASE s \in rest
      BY <2>1, <3>1, <1>8 DEF SearchesApart, Search
    <3>2. CASE s \in new
      BY <1>1, <1>5, <1>6, <3>2
    <3> QED  BY <1>1, <3>1, <3>2
  <2>3. ASSUME NEW s \in searches', NEW r \in searches', s.seq = r.seq  PROVE s = r
    <3>1. \A q \in rest : q.seq \in Nat /\ q.seq < findFileSeq
      BY DEF SearchesApart, Search
    <3>2. \A q \in new : q.seq = findFileSeq
      BY <1>6
    <3>3. CASE s \in rest /\ r \in rest
      BY <2>3, <3>3 DEF SearchesApart
    <3>4. CASE s \in new /\ r \in new
      BY <1>7, <3>4
    <3>5. ~ (s \in rest /\ r \in new) /\ ~ (s \in new /\ r \in rest)
      BY <2>3, <3>1, <3>2
    <3> QED  BY <1>1, <3>3, <3>4, <3>5
  <2> QED  BY <2>1, <2>2, <2>3 DEF SearchesApart
<1>10. ASSUME NEW k \in 1 .. Len(ts), ts[k].search # NoSearch
       PROVE  SearchOf(stops, ts[k]) \in searches'
  <2>1. CASE ts[k].search = findFileSeq
    BY <1>1, <1>2, <2>1 DEF asked, new, ToSet
  <2>2. CASE ts[k].search # findFileSeq
    BY <1>1, <1>10, <2>2
  <2> QED  BY <2>1, <2>2
<1> QED  BY <1>8, <1>9, <1>10 DEF TracesInv

\* The answer to a search is the next turn of the trace that asked.
Answered(t, file) ==
  [t EXCEPT !.next = @ + 1, !.turns = Append(@, Turn(StackOf(t), t.next, PathOf(file)))]
LEMMA AnsweredTrace ==
  ASSUME stops \in Seq(Stacks), NEW t, TraceInv(stops, t), t.search # NoSearch,
         NEW file, file = stops[t.stop][t.next].file
  PROVE  TraceSoFar(stops, Answered(t, file))
<1> DEFINE stack == stops[t.stop]
           n     == t.next
           turns == t.turns
           new   == Turn(stack, n, PathOf(file))
           u     == Answered(t, file)
<1>1. stack \in Seq(Frame) /\ Len(stack) \in Nat
  BY StopsAreStacks, LenProperties DEF TraceInv, TraceSoFar
<1>2. /\ t \in TraceType /\ n \in 1 .. Len(stack) /\ turns \in Seq(Seq(Shown))
      /\ Len(turns) = n - 1 /\ stack[n].source
      /\ \A i \in 1 .. n - 1 : turns[i] = Listed(stack, i)
  BY <1>1 DEF TraceInv, TraceSoFar, TraceType
<1>3. /\ u.stop = t.stop /\ u.next = n + 1 /\ u.turns = Append(turns, new)
      /\ u.search = t.search
      /\ u = [stop |-> t.stop, next |-> n + 1, turns |-> Append(turns, new),
              search |-> t.search]
  <2>1. u = [t EXCEPT !.next = n + 1, !.turns = Append(turns, new)]
    BY <1>2 DEF Answered, StackOf, TraceType
  <2> HIDE DEF u, new
  <2> QED  BY <1>2, <2>1 DEF TraceType
<1> HIDE DEF u, n, turns
<1>4. new = Listed(stack, n) /\ new \in Seq(Shown)
  BY <1>1, <1>2, TurnLists DEF n
<1> HIDE DEF new
<1>5. /\ Append(turns, new) \in Seq(Seq(Shown)) /\ Len(Append(turns, new)) = n
      /\ \A i \in 1 .. n : Append(turns, new)[i] = Listed(stack, i)
  BY <1>1, <1>2, <1>4, AppendProperties
<1>6. /\ n + 1 \in Nat /\ n + 1 \in 1 .. Len(stack) + 1 /\ (n + 1) - 1 = n
  BY <1>1, <1>2
<1>7. u \in TraceType
  BY <1>2, <1>3, <1>5, <1>6 DEF TraceType
<1>8. t.stop \in 1 .. Len(stops)
  BY DEF TraceInv, TraceSoFar
<1> QED  BY <1>3, <1>5, <1>6, <1>7, <1>8 DEF TraceSoFar, u

-------------------------------------------------------------------------------
(* The variables and their types                                            *)

Names    == ToSet(Members) \cup {"_ENV", "_G", "expression"}
Place    == [stop : Nat, level : Nat]
Value    == [at : Place, expr : Seq(Names)]
NodeType == [type : {"stack", "ENV", "group", "table"}, path : Seq(Names),
             value : Value, root : Place, sure : BOOLEAN]
Listener == [seq : Nat, use : {"children", "_G", "result"}, path : Seq(Names),
             value : Value, root : Place, sure : BOOLEAN]
ToLua    == [cmd : {"EvalReq"}, seq : Nat, level : Nat, expr : Seq(Names)]
              \cup [cmd : {"ActionReq"}]
FromLua  == [cmd : {"BreakNotify"}, stop : Nat]
              \cup [cmd : {"EvalRsp"}, seq : Nat, success : BOOLEAN, value : Value]

EvalTypes ==
  /\ toLua \in Seq(ToLua) /\ handles \in Seq(NodeType)
  /\ evalIdCount \in Nat /\ waiting \subseteq Listener

TypeOK ==
  /\ stops \in Seq(Stacks) /\ running \in BOOLEAN
  /\ fromLua \in Seq(FromLua) /\ breakNotify \in Nat /\ stopped \in BOOLEAN
  /\ traces \in Seq(TraceType) /\ searches \subseteq Search /\ findFileSeq \in Nat
  /\ DOMAIN fileCache \subseteq DOMAIN Found
  /\ currentFrameId \in Nat /\ requests \in Nat
  /\ EvalTypes

FramesInv ==
  /\ TypeOK
  /\ breakNotify \in 0 .. Len(stops) /\ (stopped => breakNotify # 0)
  /\ \A k \in 1 .. Len(fromLua) :
       fromLua[k].cmd = "BreakNotify" => fromLua[k].stop \in 1 .. Len(stops)
  /\ CacheInv(fileCache)
  /\ SearchesApart(searches, findFileSeq)
  /\ TracesInv(stops, traces, searches)

LEMMA StackTraceStep ==
  ASSUME FramesInv, StackTrace
  PROVE  FramesInv'
<1> DEFINE t  == [stop |-> breakNotify, next |-> 1, turns |-> <<>>, search |-> NoSearch]
           u  == Resume(t, fileCache)
           ts == Append(traces, u)
<1> USE DEF FramesInv
<1>1. /\ stops \in Seq(Stacks) /\ findFileSeq \in Nat /\ CacheInv(fileCache)
      /\ Len(stops) \in Nat /\ breakNotify \in 1 .. Len(stops) /\ breakNotify \in Nat
  BY LenProperties DEF StackTrace, TypeOK
<1>2. TraceSoFar(stops, t)
  <2>1. stops[breakNotify] \in Seq(Frame)
    BY <1>1, StopsAreStacks
  <2>2. Len(stops[breakNotify]) \in Nat
    BY <2>1, LenProperties
  <2>3. t \in TraceType
    <3>1. <<>> \in Seq(Seq(Shown))
      BY EmptySeq
    <3> QED  BY <1>1, <3>1 DEF TraceType
  <2>4. Len(<<>>) = 1 - 1
    OBVIOUS
  <2> QED  BY <1>1, <2>2, <2>3, <2>4 DEF TraceSoFar
<1> HIDE DEF t
<1>3. TraceInv(stops, u) /\ u.search \in {NoSearch, findFileSeq}
  BY <1>1, <1>2, ResumeTrace
<1> HIDE DEF u
<1>4. traces \in Seq(TraceType) /\ u \in TraceType /\ Len(traces) \in Nat
  BY <1>3, LenProperties DEF TypeOK, TraceInv, TraceSoFar
<1>5. /\ ts \in Seq(TraceType) /\ Len(ts) = Len(traces) + 1
      /\ \A k \in 1 .. Len(traces) : ts[k] = traces[k]
      /\ ts[Len(traces) + 1] = u
  BY <1>4, AppendProperties
<1>6. FindFile(ts, searches) /\ traces' = ts
  BY DEF StackTrace, FindFile, t, u
<1> HIDE DEF ts
<1>7. ASSUME NEW k \in 1 .. Len(ts)
      PROVE  k \in 1 .. Len(traces) \/ (ts[k] = u /\ k = Len(traces) + 1)
  <2> DEFINE n == Len(traces)
             m == Len(ts)
  <2>1. n \in Nat /\ m = n + 1 /\ k \in 1 .. m
    BY <1>4, <1>5
  <2> HIDE DEF n, m
  <2>2. k \in 1 .. n \/ k = n + 1
    BY <2>1
  <2> QED  BY <1>5, <2>2 DEF n
<1>8. \A k \in 1 .. Len(ts) : TraceInv(stops, ts[k])
  BY <1>3, <1>5, <1>7 DEF TracesInv
<1>9. ASSUME NEW k \in 1 .. Len(traces), traces[k].search # NoSearch
      PROVE  traces[k].search # findFileSeq
  <2>1. SearchOf(stops, traces[k]) \in searches
    BY <1>9 DEF TracesInv
  <2>2. /\ SearchOf(stops, traces[k]).seq < findFileSeq
        /\ SearchOf(stops, traces[k]).seq = traces[k].search
    BY <2>1 DEF SearchesApart, SearchOf
  <2> QED  BY <1>1, <2>2
<1>10. \A k \in 1 .. Len(ts) : ts[k].search \notin {NoSearch, findFileSeq}
                                => SearchOf(stops, ts[k]) \in searches
  BY <1>3, <1>5, <1>7 DEF TracesInv
<1>11. \A j, k \in 1 .. Len(ts) :
         ts[j].search = ts[k].search /\ ts[j].search # NoSearch => j = k
  <2>1. \A j, k \in 1 .. Len(traces) :
          traces[j].search = traces[k].search /\ traces[j].search # NoSearch => j = k
    BY DEF TracesInv
  <2> QED  BY <1>3, <1>5, <1>7, <1>9, <2>1
<1>12. /\ findFileSeq' \in Nat /\ SearchesApart(searches', findFileSeq')
       /\ TracesInv(stops, ts, searches')
  BY <1>1, <1>5, <1>6, <1>8, <1>10, <1>11, FindFileAsks
<1>13. UNCHANGED <<lua, fromLua, breakNotify, stopped, fileCache, currentFrameId,
                   handles, asking>> /\ requests' \in Nat
  BY DEF StackTrace, Request, TypeOK
<1>14. TypeOK'
  BY <1>5, <1>6, <1>12, <1>13 DEF TypeOK, EvalTypes, lua, asking, SearchesApart
<1> QED  BY <1>6, <1>12, <1>13, <1>14 DEF lua

LEMMA FindFileRspStep ==
  ASSUME FramesInv, NEW s \in searches, FindFileRsp(s)
  PROVE  FramesInv'
<1> DEFINE cache == CacheOf(s.file)
           t(k)  == traces[k]
           u(k)  == Resume(Answered(t(k), s.file), cache)
           ts    == [k \in DOMAIN traces |-> IF t(k).search = s.seq THEN u(k) ELSE t(k)]
           n     == Len(traces)
<1> USE DEF FramesInv
<1>1. /\ stops \in Seq(Stacks) /\ findFileSeq \in Nat /\ CacheInv(fileCache)
      /\ traces \in Seq(TraceType) /\ n \in Nat /\ DOMAIN traces = 1 .. n
      /\ s \in Search /\ s.seq < findFileSeq /\ s.seq \in Nat /\ s.seq # NoSearch
  BY LenProperties DEF TypeOK, SearchesApart, Search, NoSearch
<1>2. \A k \in 1 .. n :
        /\ TraceInv(stops, t(k))
        /\ t(k).search # NoSearch => SearchOf(stops, t(k)) \in searches
  BY DEF TracesInv
<1>3. CacheInv(cache) /\ DOMAIN cache \subseteq DOMAIN Found
  BY <1>1 DEF CacheOf, CacheInv, Search
<1> HIDE DEF cache
<1>4. ASSUME NEW k \in 1 .. n, t(k).search = s.seq
      PROVE  /\ TraceInv(stops, u(k)) /\ u(k) \in TraceType
             /\ u(k).search \in {NoSearch, findFileSeq}
  <2>1. SearchOf(stops, t(k)) = s
    BY <1>1, <1>2, <1>4 DEF SearchesApart, SearchOf
  <2>2. s.file = stops[t(k).stop][t(k).next].file
    BY <2>1 DEF SearchOf
  <2>3. TraceSoFar(stops, Answered(t(k), s.file))
    BY <1>1, <1>2, <1>4, <2>2, AnsweredTrace
  <2>4. TraceInv(stops, u(k)) /\ u(k).search \in {NoSearch, findFileSeq}
    BY <1>1, <1>3, <2>3, ResumeTrace
  <2> QED  BY <2>4 DEF TraceInv, TraceSoFar
<1>5. FindFile(ts, searches \ {s}) /\ traces' = ts /\ fileCache' = cache
  BY DEF FindFileRsp, FindFile, Answered, WaitsOn, cache
<1>6. /\ \A k \in 1 .. n : t(k).search = s.seq => ts[k] = u(k)
      /\ \A k \in 1 .. n : t(k).search # s.seq => ts[k] = t(k)
      /\ DOMAIN ts = 1 .. n
  BY <1>1
<1>7. \A k \in 1 .. n : t(k) \in TraceType
  BY <1>1, ElementOfSeq
<1>8. ts \in Seq(TraceType) /\ Len(ts) = n
  <2>1. ts \in [1 .. n -> TraceType]
    BY <1>1, <1>4, <1>7
  <2> HIDE DEF ts, n
  <2>2. ts \in Seq(TraceType)
    BY <1>1, <2>1, SeqDef
  <2> QED  BY <1>1, <1>6, <2>2, LengthOf
<1> HIDE DEF u, ts, n
<1>9. \A k \in 1 .. n : TraceInv(stops, ts[k])
  BY <1>2, <1>4, <1>6
<1>10. \A k \in 1 .. n : t(k).search # NoSearch => t(k).search < findFileSeq
  BY <1>2 DEF SearchesApart, SearchOf
<1>11. ASSUME NEW k \in 1 .. n, ts[k].search \notin {NoSearch, findFileSeq}
       PROVE  SearchOf(stops, ts[k]) \in searches \ {s}
  <2>1. t(k).search # s.seq /\ ts[k] = t(k)
    BY <1>4, <1>6, <1>11
  <2>2. SearchOf(stops, t(k)) \in searches /\ SearchOf(stops, t(k)).seq # s.seq
    BY <1>2, <1>11, <2>1 DEF SearchOf
  <2> QED  BY <2>1, <2>2
<1>12. ASSUME NEW j \in 1 .. n, NEW k \in 1 .. n,
              ts[j].search = ts[k].search, ts[j].search # NoSearch
       PROVE  j = k
  <2>1. \A i, l \in 1 .. n : t(i).search = t(l).search /\ t(i).search # NoSearch => i = l
    BY DEF TracesInv, n
  <2>2. \A i \in 1 .. n : t(i).search # s.seq /\ ts[i].search # NoSearch
                           => ts[i].search # findFileSeq
    BY <1>1, <1>6, <1>10
  <2>3. CASE t(j).search = s.seq /\ t(k).search = s.seq
    BY <1>1, <2>1, <2>3
  <2>4. CASE t(j).search # s.seq /\ t(k).search # s.seq
    BY <1>6, <1>12, <2>1, <2>4
  <2>5. CASE t(j).search = s.seq /\ t(k).search # s.seq
    BY <1>4, <1>6, <1>12, <2>2, <2>5
  <2>6. CASE t(j).search # s.seq /\ t(k).search = s.seq
    BY <1>4, <1>6, <1>12, <2>2, <2>6
  <2> QED  BY <2>3, <2>4, <2>5, <2>6
<1>13. SearchesApart(searches \ {s}, findFileSeq)
  BY DEF SearchesApart
<1>14. /\ findFileSeq' \in Nat /\ SearchesApart(searches', findFileSeq')
       /\ TracesInv(stops, ts, searches')
  <2> DEFINE rest == searches \ {s}
  <2>1. /\ \A k \in 1 .. Len(ts) : TraceInv(stops, ts[k])
        /\ \A k \in 1 .. Len(ts) : ts[k].search \notin {NoSearch, findFileSeq}
                                    => SearchOf(stops, ts[k]) \in rest
        /\ \A j, k \in 1 .. Len(ts) :
             ts[j].search = ts[k].search /\ ts[j].search # NoSearch => j = k
    BY <1>8, <1>9, <1>11, <1>12
  <2>2. FindFile(ts, rest) /\ SearchesApart(rest, findFileSeq)
    BY <1>5, <1>13
  <2> HIDE DEF rest
  <2> QED  BY <1>1, <1>8, <2>1, <2>2, FindFileAsks
<1>15. UNCHANGED <<lua, fromLua, breakNotify, stopped, currentFrameId, handles,
                   asking, requests>>
  BY DEF FindFileRsp
<1>16. TypeOK'
  BY <1>3, <1>5, <1>8, <1>14, <1>15 DEF TypeOK, EvalTypes, lua, asking, SearchesApart
<1> QED  BY <1>3, <1>5, <1>14, <1>15, <1>16 DEF lua

\* What other actions leave of the stack traces: the stacks of a stop stay.
LEMMA TracesKept ==
  ASSUME FramesInv, UNCHANGED <<traces, files>>,
         stops' = stops \/ \E stack \in Stacks : stops' = Append(stops, stack)
  PROVE  /\ stops' \in Seq(Stacks) /\ Len(stops) \in Nat /\ Len(stops') \in Nat
         /\ Len(stops) <= Len(stops')
         /\ CacheInv(fileCache)' /\ SearchesApart(searches, findFileSeq)'
         /\ TracesInv(stops, traces, searches)'
<1> USE DEF FramesInv
<1>1. stops \in Seq(Stacks) /\ Len(stops) \in Nat
  BY LenProperties DEF TypeOK
<1>2. /\ stops' \in Seq(Stacks) /\ Len(stops') \in Nat /\ Len(stops) <= Len(stops')
      /\ \A n \in 1 .. Len(stops) : stops'[n] = stops[n]
  <2>1. CASE stops' = stops
    BY <1>1, <2>1
  <2>2. CASE \E stack \in Stacks : stops' = Append(stops, stack)
    BY <1>1, <2>2, AppendProperties
  <2> QED  BY <2>1, <2>2
<1>3. ASSUME NEW t, TraceInv(stops, t)
      PROVE  TraceInv(stops', t) /\ SearchOf(stops', t) = SearchOf(stops, t)
  <2>1. t.stop \in 1 .. Len(stops) /\ t.stop \in 1 .. Len(stops')
    BY <1>1, <1>2, <1>3 DEF TraceInv, TraceSoFar
  <2>2. stops'[t.stop] = stops[t.stop]
    BY <1>2, <2>1
  <2> QED  BY <1>3, <2>1, <2>2 DEF TraceInv, TraceSoFar, SearchOf
<1>4. TracesInv(stops', traces, searches)
  BY <1>3 DEF TracesInv
<1>5. traces' = traces /\ fileCache' = fileCache /\ searches' = searches
      /\ findFileSeq' = findFileSeq
  BY DEF files
<1> QED  BY <1>1, <1>2, <1>4, <1>5

LEMMA OtherStep ==
  ASSUME FramesInv, UNCHANGED <<traces, files>>,
         stops' = stops \/ \E stack \in Stacks : stops' = Append(stops, stack),
         running' \in BOOLEAN, stopped' \in BOOLEAN, fromLua' \in Seq(FromLua),
         breakNotify' \in 0 .. Len(stops'), stopped' => breakNotify' # 0,
         \A k \in 1 .. Len(fromLua') :
           fromLua'[k].cmd = "BreakNotify" => fromLua'[k].stop \in 1 .. Len(stops'),
         currentFrameId' \in Nat, requests' \in Nat, EvalTypes'
  PROVE  FramesInv'
<1>1. /\ stops' \in Seq(Stacks) /\ CacheInv(fileCache)'
      /\ SearchesApart(searches, findFileSeq)' /\ TracesInv(stops, traces, searches)'
  BY TracesKept
<1>2. breakNotify' \in Nat
  OBVIOUS
<1>3. traces' = traces /\ fileCache' = fileCache /\ searches' = searches
      /\ findFileSeq' = findFileSeq
  BY DEF files
<1>4. TypeOK'
  BY <1>1, <1>2, <1>3 DEF TypeOK, FramesInv
<1> QED  BY <1>1, <1>4 DEF FramesInv

LEMMA LevelsAreNumbers ==
  ASSUME TypeOK
  PROVE  Levels \subseteq Nat
<1>1. SUFFICES ASSUME NEW t \in ToSet(traces), NEW i \in DOMAIN t.turns, t.turns[i] # <<>>
               PROVE  t.turns[i][1].level \in Nat
  BY DEF Levels
<1>2. traces \in Seq(TraceType)
  BY DEF TypeOK
<1>3. t \in TraceType
  BY <1>2, LenProperties, ElementOfSeq DEF ToSet
<1>4. t.turns \in Seq(Seq(Shown))
  BY <1>3 DEF TraceType
<1>5. t.turns[i] \in Seq(Shown)
  BY <1>4, LenProperties, ElementOfSeq
<1>6. Head(t.turns[i]) \in Shown /\ Head(t.turns[i]) = t.turns[i][1]
  BY <1>1, <1>5, HeadTailProperties
<1> QED  BY <1>6 DEF Shown

-------------------------------------------------------------------------------
(* Evaluations                                                              *)

\* A node shows its own value in its own frame, if that frame was in focus.
OwnValue(w, value) == value.at = w.root /\ value.expr = w.path
NodeInv(node)      == node.sure => OwnValue(node, node.value)

LEMMA OneName ==
  <<"_ENV">> \in Seq(Names) /\ <<"_G">> \in Seq(Names) /\ <<"expression">> \in Seq(Names)
BY DEF Names

LEMMA MembersAreNames ==
  Members \in Seq(Names)
<1>1. Members \in Seq(STRING)
  BY FramesAssumption DEF FramesAssumption
<1>2. Len(Members) \in Nat /\ DOMAIN Members = 1 .. Len(Members) /\ Members \in [1 .. Len(Members) -> STRING]
  BY <1>1, LenProperties
<1>3. \A k \in 1 .. Len(Members) : Members[k] \in Names
  BY <1>2 DEF Names, ToSet
<1>4. Members \in [1 .. Len(Members) -> Names]
  BY <1>2, <1>3
<1> QED  BY <1>2, <1>4, SeqDef

LEMMA NamesTyped ==
  ASSUME NEW names \in Seq(Names), NEW name \in Names
  PROVE  Named(names, name) \in Seq(Names)
BY AppendProperties DEF Named

LEMMA ChildrenOfNode ==
  ASSUME NEW w, w.path \in Seq(Names), w.root \in Place, w.sure \in BOOLEAN,
         NEW value \in Value, NEW names \in Seq(Names)
  PROVE  /\ Children(w, value, names) \in Seq(NodeType)
         /\ (w.sure => OwnValue(w, value)) =>
              \A k \in 1 .. Len(Children(w, value, names)) : NodeInv(Children(w, value, names)[k])
<1> DEFINE C == Children(w, value, names)
           n == Len(names)
           type(k)  == IF names[k] \in Groups THEN "group" ELSE "table"
           path(k)  == Named(w.path, names[k])
           shown(k) == [at |-> value.at, expr |-> Named(value.expr, names[k])]
<1>1. n \in Nat /\ DOMAIN names = 1 .. n /\ \A k \in 1 .. n : names[k] \in Names
  BY LenProperties, ElementOfSeq
<1>2. DOMAIN C = 1 .. n
  BY <1>1 DEF Children
<1>3. \A k \in 1 .. n : C[k] = [type |-> type(k), path |-> path(k), value |-> shown(k),
                                root |-> w.root, sure |-> w.sure]
  BY <1>1 DEF Children, Node, Value
<1>4. ASSUME NEW k \in 1 .. n  PROVE C[k] \in NodeType
  <2>1. value.at \in Place /\ value.expr \in Seq(Names)
    BY DEF Value
  <2>2. path(k) \in Seq(Names) /\ Named(value.expr, names[k]) \in Seq(Names)
    BY <1>1, <2>1, NamesTyped
  <2>3. shown(k) \in Value /\ type(k) \in {"stack", "ENV", "group", "table"}
    BY <2>1, <2>2 DEF Value
  <2> DEFINE ty == type(k)
             pa == path(k)
             sh == shown(k)
  <2>4. C[k] = [type |-> ty, path |-> pa, value |-> sh, root |-> w.root, sure |-> w.sure]
    BY <1>3
  <2> HIDE DEF ty, pa, sh, C
  <2> QED  BY <2>2, <2>3, <2>4 DEF NodeType, ty, pa, sh
<1>5. ASSUME w.sure => OwnValue(w, value), NEW k \in 1 .. n  PROVE NodeInv(C[k])
  <2> DEFINE c  == C[k]
             ty == type(k)
             pa == path(k)
             sh == shown(k)
  <2>0. c = [type |-> ty, path |-> pa, value |-> sh, root |-> w.root, sure |-> w.sure]
    BY <1>3
  <2> HIDE DEF c, ty, pa, sh
  <2>1. /\ c.path = Named(w.path, names[k]) /\ c.root = w.root /\ c.sure = w.sure
        /\ c.value = [at |-> value.at, expr |-> Named(value.expr, names[k])]
    BY <2>0 DEF pa, sh
  <2>2. c.value.at = value.at /\ c.value.expr = Named(value.expr, names[k])
    BY <2>1
  <2>3. NodeInv(c)
    BY <1>5, <2>1, <2>2 DEF NodeInv, OwnValue
  <2> QED  BY <2>3 DEF c
<1>6. C \in [1 .. n -> NodeType]
  BY <1>2, <1>4 DEF Children
<1> HIDE DEF C
<1>7. C \in Seq(NodeType)
  <2> HIDE DEF n
  <2> QED  BY <1>1, <1>6, SeqDef
<1>8. Len(C) = n
  <2> HIDE DEF n
  <2> QED  BY <1>1, <1>2, <1>7, LengthOf
<1> QED  BY <1>5, <1>7, <1>8 DEF C

IsEval(msg)   == msg.cmd = "EvalReq"
IsAction(msg) == msg.cmd = "ActionReq"
IsBreak(msg)  == msg.cmd = "BreakNotify"

\* One of four says how far the last stop is: VS Code takes the program for stopped,
\* its ActionReq or the BreakNotify is on the way, or the program runs.
TokenInv ==
  /\ running \/ Len(stops) # 0
  /\ stopped =>
       /\ ~running /\ breakNotify = Len(stops)
       /\ \A k \in 1 .. Len(toLua) : ~IsAction(toLua[k])
       /\ \A k \in 1 .. Len(fromLua) : ~IsBreak(fromLua[k])
  /\ \A k \in 1 .. Len(toLua) : IsAction(toLua[k]) =>
       /\ ~running /\ ~stopped
       /\ \A j \in 1 .. Len(toLua) : IsAction(toLua[j]) => j = k
       /\ \A j \in 1 .. Len(fromLua) : ~IsBreak(fromLua[j])
  /\ \A k \in 1 .. Len(fromLua) : IsBreak(fromLua[k]) =>
       /\ ~running /\ ~stopped /\ fromLua[k].stop = Len(stops)
       /\ \A j \in 1 .. Len(fromLua) : IsBreak(fromLua[j]) => j = k

\* A listener that was sent for the frame in focus: the question and its answer
\* are about that frame, which the program does not leave before it answers.
ListenerInv(w) ==
  /\ w.use = "children" /\ w.sure => OwnValue(w, w.value)
  /\ w.use = "_G" => w.path = <<"_G">>
QuestionFor(w, msg) ==
  msg.level = w.root.level /\ msg.expr = w.path /\ ~running /\ w.root.stop = Len(stops)

HandlesInv == \A k \in 1 .. Len(handles) : NodeInv(handles[k])
AskingInv ==
  /\ \A w \in waiting : w.seq < evalIdCount /\ ListenerInv(w)
  /\ \A w, v \in waiting : w.seq = v.seq => w = v
  /\ \A k \in 1 .. Len(toLua) : IsEval(toLua[k]) =>
       /\ toLua[k].seq < evalIdCount
       /\ \A w \in waiting : w.sure /\ w.seq = toLua[k].seq =>
            /\ QuestionFor(w, toLua[k])
            /\ \A j \in 1 .. k : ~IsAction(toLua[j])
  /\ \A k \in 1 .. Len(fromLua) : fromLua[k].cmd = "EvalRsp" =>
       /\ fromLua[k].seq < evalIdCount
       /\ \A w \in waiting : w.sure /\ w.seq = fromLua[k].seq => OwnValue(w, fromLua[k].value)

-------------------------------------------------------------------------------
(* Steps: types                                                             *)

LEMMA EvalTyped ==
  ASSUME TypeOK, NEW use \in {"children", "_G", "result"}, NEW path \in Seq(Names),
         NEW w, w.value \in Value, w.root \in Place, w.sure \in BOOLEAN,
         NEW others \in SUBSET waiting, Eval(use, path, w, others)
  PROVE  evalIdCount' \in Nat /\ waiting' \subseteq Listener /\ toLua' \in Seq(ToLua)
<1> DEFINE sure == w.sure /\ InFocus(w.root)
           v    == [seq |-> evalIdCount, use |-> use, path |-> path, value |-> w.value,
                    root |-> w.root, sure |-> sure]
           msg  == [cmd |-> "EvalReq", seq |-> evalIdCount, level |-> Level, expr |-> path]
<1>1. /\ evalIdCount \in Nat /\ toLua \in Seq(ToLua) /\ waiting \subseteq Listener
      /\ currentFrameId \in Nat /\ stopped \in BOOLEAN
  BY DEF TypeOK, EvalTypes
<1>2. evalIdCount' = evalIdCount + 1 /\ waiting' = others \cup {v} /\ toLua' = Append(toLua, msg)
  BY DEF Eval, NextId
<1>3. sure \in BOOLEAN
  BY <1>1 DEF InFocus
<1> HIDE DEF sure
<1>4. v \in Listener
  BY <1>1, <1>3 DEF Listener
<1>5. msg \in ToLua
  BY <1>1 DEF ToLua, Level
<1> HIDE DEF v, msg
<1> QED  BY <1>1, <1>2, <1>4, <1>5, AppendProperties

LEMMA ScopesTyped ==
  ASSUME FramesInv, NEW level, Scopes(level)
  PROVE  FramesInv'
<1> DEFINE frame == [stop |-> breakNotify, level |-> level]
           value == [at |-> frame, expr |-> <<>>]
           w     == [root |-> frame, sure |-> TRUE]
           n1    == Node("stack", <<>>, value, w)
           n2    == Node("ENV", <<>>, value, w)
<1>1. TypeOK /\ level \in Nat /\ breakNotify \in Nat
  BY LevelsAreNumbers DEF FramesInv, TypeOK, Scopes
<1>2. <<>> \in Seq(Names)
  BY EmptySeq
<1>3. frame \in Place
  BY <1>1 DEF Place
<1> HIDE DEF frame
<1>4. value \in Value
  BY <1>2, <1>3 DEF Value
<1> HIDE DEF value
<1>5. n1 \in NodeType /\ n2 \in NodeType
  BY <1>2, <1>3, <1>4 DEF Node, NodeType
<1>6. handles' = handles \o <<n1, n2>>
  BY DEF Scopes, frame, value
<1> HIDE DEF n1, n2
<1>7. <<n1, n2>> \in Seq(NodeType)
  BY <1>5
<1>8. handles' \in Seq(NodeType)
  BY <1>1, <1>6, <1>7, ConcatProperties DEF TypeOK, EvalTypes
<1>9. EvalTypes'
  BY <1>1, <1>8 DEF Scopes, TypeOK, EvalTypes, asking
<1>10. /\ UNCHANGED <<traces, files, stops, running, stopped, fromLua, breakNotify>>
       /\ currentFrameId' = level /\ requests' = requests + 1
  BY DEF Scopes, lua, files, Request
<1> QED  BY <1>1, <1>9, <1>10, OtherStep DEF FramesInv, TypeOK

LEMMA ContinueTyped ==
  ASSUME FramesInv, Continue
  PROVE  FramesInv'
<1>1. [cmd |-> "ActionReq"] \in ToLua
  BY DEF ToLua
<1>2. toLua' \in Seq(ToLua)
  BY <1>1, AppendProperties DEF Continue, FramesInv, TypeOK, EvalTypes
<1>3. EvalTypes'
  BY <1>2 DEF Continue, FramesInv, TypeOK, EvalTypes
<1>4. /\ UNCHANGED <<traces, files, stops, running, fromLua, breakNotify, currentFrameId>>
      /\ requests' = requests + 1 /\ stopped' = FALSE
  BY DEF Continue, lua, files, Request
<1>5. /\ running' \in BOOLEAN /\ stopped' \in BOOLEAN /\ fromLua' \in Seq(FromLua)
      /\ breakNotify' \in 0 .. Len(stops') /\ ~stopped'
      /\ \A k \in 1 .. Len(fromLua') :
           fromLua'[k].cmd = "BreakNotify" => fromLua'[k].stop \in 1 .. Len(stops')
      /\ currentFrameId' \in Nat /\ requests' \in Nat
  <2>1. ~stopped' /\ stopped' \in BOOLEAN
    BY <1>4
  <2>2. running' \in BOOLEAN /\ fromLua' \in Seq(FromLua) /\ currentFrameId' \in Nat
    BY <1>4 DEF FramesInv, TypeOK
  <2>3. requests' \in Nat
    BY <1>4 DEF FramesInv, TypeOK
  <2>4. /\ breakNotify' \in 0 .. Len(stops')
        /\ \A k \in 1 .. Len(fromLua') :
             fromLua'[k].cmd = "BreakNotify" => fromLua'[k].stop \in 1 .. Len(stops')
    BY <1>4 DEF FramesInv
  <2> QED  BY <2>1, <2>2, <2>3, <2>4
<1> QED  BY <1>3, <1>4, <1>5, OtherStep

LEMMA EvaluateTyped ==
  ASSUME FramesInv, NEW level \in Levels \cup {0}, Evaluate(level)
  PROVE  FramesInv'
<1> DEFINE root  == [stop |-> breakNotify, level |-> level]
           value == [at |-> root, expr |-> <<>>]
           w     == [root |-> root, sure |-> TRUE, value |-> value]
<1>1. TypeOK /\ level \in Nat /\ breakNotify \in Nat
  BY LevelsAreNumbers DEF FramesInv, TypeOK
<1>2. root \in Place
  BY <1>1 DEF Place
<1>3. value \in Value
  <2>1. <<>> \in Seq(Names)
    BY EmptySeq
  <2> HIDE DEF root
  <2> QED  BY <1>2, <2>1 DEF Value
<1>4. Eval("result", <<"expression">>, w, waiting)
  BY DEF Evaluate
<1> HIDE DEF root, value
<1>5. w.value \in Value /\ w.root \in Place /\ w.sure \in BOOLEAN
  BY <1>2, <1>3
<1> HIDE DEF w
<1>6. <<"expression">> \in Seq(Names)
  BY OneName
<1>7. evalIdCount' \in Nat /\ waiting' \subseteq Listener /\ toLua' \in Seq(ToLua)
  BY <1>1, <1>4, <1>5, <1>6, EvalTyped
<1>8. EvalTypes'
  BY <1>1, <1>7 DEF Evaluate, TypeOK, EvalTypes
<1>9. /\ UNCHANGED <<traces, files, stops, running, stopped, fromLua, breakNotify, currentFrameId>>
      /\ requests' = requests + 1
  BY DEF Evaluate, lua, files, Request
<1> QED  BY <1>1, <1>8, <1>9, OtherStep DEF FramesInv, TypeOK

\* What a request for the variables of a node does: it shows children, or it asks.
LEMMA VariablesDoes ==
  ASSUME TypeOK, NEW node \in ToSet(handles), Variables(node)
  PROVE  /\ node \in NodeType
         /\ \/ /\ UNCHANGED asking
               /\ \E names \in Seq(Names) : handles' = handles \o Children(node, node.value, names)
            \/ /\ UNCHANGED handles
               /\ \/ Eval("children", node.path, node, waiting)
                  \/ Eval("children", <<"_ENV">>, [node EXCEPT !.value.expr = <<"_ENV">>], waiting)
                  \/ Eval("_G", <<"_G">>, node, waiting)
<1>1. node \in NodeType
  BY LenProperties, ElementOfSeq DEF TypeOK, EvalTypes, ToSet
<1>2. CASE node.type = "stack"
  <2> DEFINE env   == IF FrameOf(node).env THEN <<"_ENV">> ELSE <<>>
             names == Members \o env
  <2>1. env \in Seq(Names) /\ Members \in Seq(Names)
    BY MembersAreNames, OneName, EmptySeq
  <2>2. handles' = handles \o Children(node, node.value, names) /\ UNCHANGED asking
    BY <1>2 DEF Variables
  <2> HIDE DEF env
  <2>3. names \in Seq(Names)
    BY <2>1, ConcatProperties
  <2> HIDE DEF names
  <2> QED  BY <1>1, <2>2, <2>3
<1>3. CASE node.type = "group"
  BY <1>1, <1>3, MembersAreNames DEF Variables
<1>4. CASE node.type = "table"
  BY <1>1, <1>4 DEF Variables
<1>5. CASE node.type = "ENV"
  BY <1>1, <1>5 DEF Variables
<1> QED  BY <1>1, <1>2, <1>3, <1>4, <1>5 DEF NodeType

LEMMA VariablesTyped ==
  ASSUME FramesInv, NEW node \in ToSet(handles), Variables(node)
  PROVE  FramesInv'
<1>1. TypeOK /\ EvalTypes
  BY DEF FramesInv, TypeOK
<1>2. node \in NodeType
  BY <1>1, VariablesDoes
<1>3. /\ node.path \in Seq(Names) /\ node.root \in Place /\ node.sure \in BOOLEAN
      /\ node.value \in Value
  BY <1>2 DEF NodeType
<1>4. <<"_ENV">> \in Seq(Names) /\ <<"_G">> \in Seq(Names)
  BY OneName
<1>5. EvalTypes'
  <2>1. CASE /\ UNCHANGED asking
             /\ \E names \in Seq(Names) : handles' = handles \o Children(node, node.value, names)
    <3>1. PICK names \in Seq(Names) : handles' = handles \o Children(node, node.value, names)
      BY <2>1
    <3>2. Children(node, node.value, names) \in Seq(NodeType)
      BY <1>3, ChildrenOfNode
    <3>3. handles' \in Seq(NodeType)
      BY <1>1, <3>1, <3>2, ConcatProperties DEF EvalTypes
    <3> QED  BY <1>1, <2>1, <3>3 DEF EvalTypes, asking
  <2>2. CASE UNCHANGED handles /\ Eval("children", node.path, node, waiting)
    <3>1. evalIdCount' \in Nat /\ waiting' \subseteq Listener /\ toLua' \in Seq(ToLua)
      BY <1>1, <1>3, <2>2, EvalTyped
    <3> QED  BY <1>1, <2>2, <3>1 DEF EvalTypes
  <2>3. CASE /\ UNCHANGED handles
             /\ Eval("children", <<"_ENV">>, [node EXCEPT !.value.expr = <<"_ENV">>], waiting)
    <3> DEFINE w == [node EXCEPT !.value.expr = <<"_ENV">>]
    <3>1. w.value \in Value /\ w.root \in Place /\ w.sure \in BOOLEAN
      BY <1>2, <1>4 DEF NodeType, Value
    <3> HIDE DEF w
    <3>2. evalIdCount' \in Nat /\ waiting' \subseteq Listener /\ toLua' \in Seq(ToLua)
      BY <1>1, <1>4, <2>3, <3>1, EvalTyped DEF w
    <3> QED  BY <1>1, <2>3, <3>2 DEF EvalTypes
  <2>4. CASE UNCHANGED handles /\ Eval("_G", <<"_G">>, node, waiting)
    <3>1. evalIdCount' \in Nat /\ waiting' \subseteq Listener /\ toLua' \in Seq(ToLua)
      BY <1>1, <1>3, <1>4, <2>4, EvalTyped
    <3> QED  BY <1>1, <2>4, <3>1 DEF EvalTypes
  <2> QED  BY <1>1, <2>1, <2>2, <2>3, <2>4, VariablesDoes
<1>6. /\ UNCHANGED <<traces, files, stops, running, stopped, fromLua, breakNotify, currentFrameId>>
      /\ requests' = requests + 1
  BY DEF Variables, lua, files, Request
<1> QED  BY <1>1, <1>5, <1>6, OtherStep DEF FramesInv, TypeOK

\* Messages that are left and messages that come last.
LEMMA TailKeeps ==
  ASSUME NEW S, NEW s \in Seq(S), s # <<>>
  PROVE  /\ Head(s) \in S /\ Head(s) = s[1] /\ 1 \in 1 .. Len(s)
         /\ Tail(s) \in Seq(S)
         /\ \A k \in 1 .. Len(Tail(s)) : k + 1 \in 1 .. Len(s) /\ Tail(s)[k] = s[k + 1]
<1>1. /\ Head(s) \in S /\ Tail(s) \in Seq(S) /\ Len(Tail(s)) = Len(s) - 1
      /\ \A k \in 1 .. Len(Tail(s)) : Tail(s)[k] = s[k + 1]
  BY HeadTailProperties
<1>2. Len(s) \in Nat \ {0}
  BY EmptySeq
<1>3. Head(s) = s[1]
  OBVIOUS
<1>4. \A k \in 1 .. Len(Tail(s)) : k + 1 \in 1 .. Len(s)
  BY <1>1, <1>2
<1> QED  BY <1>1, <1>2, <1>3, <1>4

LEMMA AppendKeeps ==
  ASSUME NEW S, NEW s \in Seq(S), NEW e
  PROVE  /\ Len(s) \in Nat /\ Len(Append(s, e)) = Len(s) + 1
         /\ \A k \in 1 .. Len(Append(s, e)) :
              \/ k \in 1 .. Len(s) /\ Append(s, e)[k] = s[k]
              \/ k = Len(s) + 1 /\ Append(s, e)[k] = e
<1>1. /\ Len(Append(s, e)) = Len(s) + 1 /\ Len(s) \in Nat
      /\ \A k \in 1 .. Len(s) : Append(s, e)[k] = s[k]
      /\ Append(s, e)[Len(s) + 1] = e
  <2> DEFINE T == S \cup {e}
  <2>1. s \in Seq(T) /\ e \in T
    BY SeqMonotonic
  <2> HIDE DEF T
  <2> QED  BY <2>1, AppendProperties, LenProperties
<1>2. \A k \in 1 .. Len(s) + 1 : k \in 1 .. Len(s) \/ k = Len(s) + 1
  BY <1>1
<1> QED  BY <1>1, <1>2

\* What an answer does to the listener it is for.
LEMMA AnswerTakes ==
  ASSUME TypeOK, AskingInv, NEW msg, OnEvalRsp(msg)
  PROVE  \/ UNCHANGED <<handles, asking>>
         \/ \E w \in waiting :
              /\ w.seq = msg.seq /\ w \in Listener
              /\ \/ /\ w.use = "_G" /\ msg.success /\ UNCHANGED handles
                    /\ Eval("children", <<"_G">>, [w EXCEPT !.value = msg.value], waiting \ {w})
                 \/ /\ waiting' = waiting \ {w} /\ UNCHANGED <<evalIdCount, toLua>>
                    /\ \/ /\ w.use = "children"
                          /\ handles' = handles \o
                               Children(w, IF msg.success THEN msg.value ELSE w.value, Members)
                       \/ /\ msg.success
                          /\ handles' = handles \o <<Node("table", w.path, msg.value, w)>>
                       \/ handles' = handles \o <<>>
<1> DEFINE heard == {w \in waiting : w.seq = msg.seq}
           w     == CHOOSE v \in heard : TRUE
<1>1. CASE heard = {}
  BY <1>1 DEF OnEvalRsp
<1>2. CASE heard # {}
  <2>1. w \in heard
    BY <1>2
  <2>2. waiting \subseteq Listener
    BY DEF TypeOK, EvalTypes
  <2>3. w \in waiting /\ w.seq = msg.seq /\ w \in Listener
    BY <2>1, <2>2
  <2>4. heard = {w}
    BY <2>1 DEF AskingInv
  <2>5. IF w.use = "_G" /\ msg.success
        THEN /\ Eval("children", <<"_G">>, [w EXCEPT !.value = msg.value], waiting \ heard)
             /\ UNCHANGED handles
        ELSE /\ waiting' = waiting \ heard /\ UNCHANGED <<evalIdCount, toLua>>
             /\ handles' = handles \o
                  CASE w.use = "children" ->
                         Children(w, IF msg.success THEN msg.value ELSE w.value, Members)
                    [] w.use = "result" /\ msg.success -> <<Node("table", w.path, msg.value, w)>>
                    [] OTHER -> <<>>
    BY <1>2 DEF OnEvalRsp
  <2> HIDE DEF heard, w
  <2>6. CASE w.use = "_G" /\ msg.success
    BY <2>3, <2>4, <2>5, <2>6
  <2>7. CASE ~ (w.use = "_G" /\ msg.success)
    <3>1. CASE w.use = "children"
      BY <2>3, <2>4, <2>5, <2>7, <3>1
    <3>2. CASE w.use = "result" /\ msg.success
      BY <2>3, <2>4, <2>5, <2>7, <3>2
    <3>3. CASE w.use # "children" /\ ~ (w.use = "result" /\ msg.success)
      BY <2>3, <2>4, <2>5, <2>7, <3>3
    <3> QED  BY <3>1, <3>2, <3>3
  <2> QED  BY <2>6, <2>7
<1> QED  BY <1>1, <1>2

LEMMA OnEvalRspTyped ==
  ASSUME TypeOK, AskingInv, NEW msg \in FromLua, msg.cmd = "EvalRsp", OnEvalRsp(msg)
  PROVE  EvalTypes'
<1>1. msg.value \in Value /\ msg.success \in BOOLEAN
  BY DEF FromLua
<1>2. EvalTypes
  BY DEF TypeOK
<1>3. CASE UNCHANGED <<handles, asking>>
  BY <1>2, <1>3 DEF EvalTypes, asking
<1>4. ASSUME NEW w \in waiting, w \in Listener, UNCHANGED handles,
             Eval("children", <<"_G">>, [w EXCEPT !.value = msg.value], waiting \ {w})
      PROVE  EvalTypes'
  <2> DEFINE v == [w EXCEPT !.value = msg.value]
  <2>1. v.value \in Value /\ v.root \in Place /\ v.sure \in BOOLEAN
    BY <1>1, <1>4 DEF Listener
  <2>2. Eval("children", <<"_G">>, v, waiting \ {w})
    BY <1>4
  <2> HIDE DEF v
  <2>3. evalIdCount' \in Nat /\ waiting' \subseteq Listener /\ toLua' \in Seq(ToLua)
    BY <2>1, <2>2, OneName, EvalTyped
  <2> QED  BY <1>2, <1>4, <2>3 DEF EvalTypes
<1>5. ASSUME NEW w \in waiting, w \in Listener, waiting' = waiting \ {w},
             UNCHANGED <<evalIdCount, toLua>>, handles' \in Seq(NodeType)
      PROVE  EvalTypes'
  BY <1>2, <1>5 DEF EvalTypes
<1>6. ASSUME NEW w \in Listener
      PROVE  /\ \A value \in Value : handles \o Children(w, value, Members) \in Seq(NodeType)
             /\ handles \o <<Node("table", w.path, msg.value, w)>> \in Seq(NodeType)
             /\ handles \o <<>> \in Seq(NodeType)
  <2>1. w.path \in Seq(Names) /\ w.root \in Place /\ w.sure \in BOOLEAN
    BY DEF Listener
  <2>2. \A value \in Value : Children(w, value, Members) \in Seq(NodeType)
    BY <2>1, MembersAreNames, ChildrenOfNode
  <2>3. Node("table", w.path, msg.value, w) \in NodeType
    BY <1>1, <2>1 DEF Node, NodeType
  <2>4. <<Node("table", w.path, msg.value, w)>> \in Seq(NodeType)
    BY <2>3
  <2>5. handles \in Seq(NodeType) /\ <<>> \in Seq(NodeType)
    BY <1>2, EmptySeq DEF EvalTypes
  <2> QED  BY <2>2, <2>4, <2>5, ConcatProperties
<1>7. ASSUME NEW w \in Listener
      PROVE  (IF msg.success THEN msg.value ELSE w.value) \in Value
  BY <1>1 DEF Listener
<1>8. CASE ~ UNCHANGED <<handles, asking>>
  <2>1. PICK w \in waiting :
          /\ w.seq = msg.seq /\ w \in Listener
          /\ \/ /\ w.use = "_G" /\ msg.success /\ UNCHANGED handles
                /\ Eval("children", <<"_G">>, [w EXCEPT !.value = msg.value], waiting \ {w})
             \/ /\ waiting' = waiting \ {w} /\ UNCHANGED <<evalIdCount, toLua>>
                /\ \/ /\ w.use = "children"
                      /\ handles' = handles \o
                           Children(w, IF msg.success THEN msg.value ELSE w.value, Members)
                   \/ /\ msg.success
                      /\ handles' = handles \o <<Node("table", w.path, msg.value, w)>>
                   \/ handles' = handles \o <<>>
    BY <1>8, AnswerTakes
  <2>2. CASE UNCHANGED handles
             /\ Eval("children", <<"_G">>, [w EXCEPT !.value = msg.value], waiting \ {w})
    BY <1>4, <2>1, <2>2
  <2>3. CASE waiting' = waiting \ {w} /\ UNCHANGED <<evalIdCount, toLua>>
             /\ \/ handles' = handles \o
                     Children(w, IF msg.success THEN msg.value ELSE w.value, Members)
                \/ handles' = handles \o <<Node("table", w.path, msg.value, w)>>
                \/ handles' = handles \o <<>>
    <3> DEFINE value == IF msg.success THEN msg.value ELSE w.value
    <3>1. value \in Value
      BY <1>7, <2>1
    <3> HIDE DEF value
    <3>2. handles' \in Seq(NodeType)
      BY <1>6, <2>1, <2>3, <3>1 DEF value
    <3> QED  BY <1>5, <2>1, <2>3, <3>2
  <2> QED  BY <2>1, <2>2, <2>3
<1> QED  BY <1>3, <1>8

LEMMA OnReceiveTyped ==
  ASSUME FramesInv, AskingInv, OnReceive
  PROVE  FramesInv'
<1> DEFINE msg == Head(fromLua)
<1>1. /\ TypeOK /\ fromLua \in Seq(FromLua) /\ fromLua # <<>> /\ fromLua' = Tail(fromLua)
      /\ breakNotify \in 0 .. Len(stops) /\ (stopped => breakNotify # 0)
      /\ \A k \in 1 .. Len(fromLua) :
           fromLua[k].cmd = "BreakNotify" => fromLua[k].stop \in 1 .. Len(stops)
  BY DEF FramesInv, TypeOK, OnReceive
<1>2. /\ msg \in FromLua /\ msg = fromLua[1] /\ 1 \in 1 .. Len(fromLua)
      /\ Tail(fromLua) \in Seq(FromLua)
      /\ \A k \in 1 .. Len(Tail(fromLua)) :
           k + 1 \in 1 .. Len(fromLua) /\ Tail(fromLua)[k] = fromLua[k + 1]
  BY <1>1, TailKeeps
<1>3. /\ IF msg.cmd = "BreakNotify" THEN OnBreakNotify(msg) ELSE OnEvalRsp(msg)
      /\ UNCHANGED <<stops, running, traces, files, currentFrameId, requests>>
  BY DEF OnReceive, lua
<1>4. /\ fromLua' \in Seq(FromLua)
      /\ \A k \in 1 .. Len(fromLua') :
           fromLua'[k].cmd = "BreakNotify" => fromLua'[k].stop \in 1 .. Len(stops')
  BY <1>1, <1>2, <1>3
<1>5. EvalTypes' /\ stopped' \in BOOLEAN /\ breakNotify' \in 0 .. Len(stops')
      /\ (stopped' => breakNotify' # 0)
  <2>1. CASE msg.cmd = "BreakNotify"
    <3>1. breakNotify' = msg.stop /\ stopped' = TRUE /\ UNCHANGED <<handles, asking>>
      BY <1>3, <2>1 DEF OnBreakNotify
    <3>2. msg.stop \in 1 .. Len(stops)
      BY <1>1, <1>2, <2>1
    <3>3. EvalTypes'
      BY <1>1, <3>1 DEF TypeOK, EvalTypes, asking
    <3> QED  BY <1>3, <3>1, <3>2, <3>3
  <2>2. CASE msg.cmd # "BreakNotify"
    <3>1. msg.cmd = "EvalRsp"
      BY <1>2, <2>2 DEF FromLua
    <3>2. OnEvalRsp(msg) /\ UNCHANGED <<breakNotify, stopped>>
      BY <1>3, <2>2 DEF OnEvalRsp
    <3> HIDE DEF msg
    <3>3. EvalTypes'
      BY <1>1, <1>2, <3>1, <3>2, OnEvalRspTyped
    <3> QED  BY <1>1, <1>3, <3>2, <3>3 DEF TypeOK
  <2> QED  BY <2>1, <2>2
<1>6. running' \in BOOLEAN /\ currentFrameId' \in Nat /\ requests' \in Nat
  BY <1>1, <1>3 DEF TypeOK
<1> QED  BY <1>3, <1>4, <1>5, <1>6, OtherStep

LEMMA StopTyped ==
  ASSUME FramesInv, Stop
  PROVE  FramesInv'
<1> DEFINE msg == [cmd |-> "BreakNotify", stop |-> Len(stops')]
<1>1. /\ TypeOK /\ fromLua \in Seq(FromLua) /\ breakNotify \in 0 .. Len(stops)
      /\ (stopped => breakNotify # 0) /\ stops \in Seq(Stacks)
      /\ \A k \in 1 .. Len(fromLua) :
           fromLua[k].cmd = "BreakNotify" => fromLua[k].stop \in 1 .. Len(stops)
  BY DEF FramesInv, TypeOK
<1>2. PICK stack \in Stacks : stops' = Append(stops, stack)
  BY DEF Stop
<1>3. Len(stops) \in Nat /\ Len(stops') = Len(stops) + 1
  BY <1>1, <1>2, AppendProperties, LenProperties
<1>4. msg \in FromLua /\ msg.stop \in 1 .. Len(stops')
  BY <1>3 DEF FromLua
<1>5. fromLua' = Append(fromLua, msg) /\ running' = FALSE
  BY DEF Stop
<1> HIDE DEF msg
<1>6. /\ fromLua' \in Seq(FromLua)
      /\ \A k \in 1 .. Len(fromLua') : \/ k \in 1 .. Len(fromLua) /\ fromLua'[k] = fromLua[k]
                                       \/ fromLua'[k] = msg
  BY <1>1, <1>4, <1>5, AppendKeeps, AppendProperties
<1>7. \A k \in 1 .. Len(fromLua') :
        fromLua'[k].cmd = "BreakNotify" => fromLua'[k].stop \in 1 .. Len(stops')
  BY <1>1, <1>3, <1>4, <1>6
<1>8. UNCHANGED <<toLua, breakNotify, stopped, traces, files, currentFrameId, handles,
                  evalIdCount, waiting, requests>>
  BY DEF Stop
<1>9. EvalTypes' /\ breakNotify' \in 0 .. Len(stops') /\ currentFrameId' \in Nat
      /\ requests' \in Nat /\ stopped' \in BOOLEAN /\ (stopped' => breakNotify' # 0)
  BY <1>1, <1>3, <1>8 DEF TypeOK, EvalTypes
<1> QED  BY <1>2, <1>5, <1>6, <1>7, <1>8, <1>9, OtherStep

LEMMA LuaReceiveTyped ==
  ASSUME FramesInv, TokenInv, LuaReceive
  PROVE  FramesInv'
<1> DEFINE msg == Head(toLua)
<1>1. /\ TypeOK /\ toLua \in Seq(ToLua) /\ fromLua \in Seq(FromLua) /\ toLua # <<>>
      /\ stops \in Seq(Stacks)
      /\ \A k \in 1 .. Len(fromLua) :
           fromLua[k].cmd = "BreakNotify" => fromLua[k].stop \in 1 .. Len(stops)
  BY DEF FramesInv, TypeOK, EvalTypes, LuaReceive
<1>2. msg \in ToLua /\ Tail(toLua) \in Seq(ToLua) /\ Len(stops) \in Nat
  BY <1>1, TailKeeps, LenProperties
<1>3. /\ toLua' = Tail(toLua)
      /\ IF msg.cmd = "ActionReq" THEN running' = TRUE /\ UNCHANGED fromLua
         ELSE UNCHANGED running /\ IF running THEN UNCHANGED fromLua ELSE Answer(msg)
      /\ UNCHANGED <<stops, breakNotify, stopped, traces, files, currentFrameId, handles,
                     evalIdCount, waiting, requests>>
  BY DEF LuaReceive
<1> HIDE DEF msg
<1>4. /\ fromLua' \in Seq(FromLua)
      /\ \A k \in 1 .. Len(fromLua') :
           fromLua'[k].cmd = "BreakNotify" => fromLua'[k].stop \in 1 .. Len(stops)
  <2>1. CASE UNCHANGED fromLua
    BY <1>1, <2>1
  <2>2. CASE msg.cmd # "ActionReq" /\ ~running /\ Answer(msg)
    <3> DEFINE rsp(ok) == [cmd |-> "EvalRsp", seq |-> msg.seq, success |-> ok,
                 value |-> [at |-> [stop |-> Len(stops), level |-> msg.level], expr |-> msg.expr]]
    <3>1. PICK ok \in {FALSE, msg.level < Len(stops[Len(stops)])} : fromLua' = Append(fromLua, rsp(ok))
      BY <2>2 DEF Answer
    <3>2. msg.seq \in Nat /\ msg.level \in Nat /\ msg.expr \in Seq(Names)
      BY <1>2, <2>2 DEF ToLua
    <3>6. ok \in BOOLEAN
      <4>1. Len(stops) \in 1 .. Len(stops)
        BY <1>2, <2>2 DEF TokenInv
      <4>2. Len(stops[Len(stops)]) \in Nat
        BY <1>1, <4>1, StopsAreStacks, LenProperties
      <4>3. (msg.level < Len(stops[Len(stops)])) \in BOOLEAN
        BY <3>2, <4>2
      <4>4. ok = FALSE \/ ok = (msg.level < Len(stops[Len(stops)]))
        BY Zenon
      <4> QED  BY <4>3, <4>4, Zenon
    <3>3. [at |-> [stop |-> Len(stops), level |-> msg.level], expr |-> msg.expr] \in Value
      BY <1>2, <3>2 DEF Value, Place
    <3>4. rsp(ok) \in FromLua /\ rsp(ok).cmd # "BreakNotify"
      BY <3>2, <3>3, <3>6 DEF FromLua
    <3> HIDE DEF rsp
    <3>5. /\ fromLua' \in Seq(FromLua)
          /\ \A k \in 1 .. Len(fromLua') : \/ k \in 1 .. Len(fromLua) /\ fromLua'[k] = fromLua[k]
                                           \/ fromLua'[k] = rsp(ok)
      BY <1>1, <3>1, <3>4, AppendKeeps, AppendProperties
    <3> QED  BY <1>1, <3>4, <3>5
  <2> QED  BY <1>3, <2>1, <2>2
<1>5. EvalTypes' /\ running' \in BOOLEAN /\ stopped' \in BOOLEAN /\ currentFrameId' \in Nat
      /\ requests' \in Nat
  BY <1>1, <1>2, <1>3 DEF TypeOK, EvalTypes
<1>6. breakNotify' \in 0 .. Len(stops') /\ (stopped' => breakNotify' # 0) /\ stops' = stops
  BY <1>3 DEF FramesInv
<1> QED  BY <1>3, <1>4, <1>5, <1>6, OtherStep

-------------------------------------------------------------------------------
(* Steps: how far the last stop is                                          *)

LEMMA SameActions ==
  ASSUME toLua \in Seq(ToLua), TokenInv,
         \/ toLua' = toLua
         \/ toLua # <<>> /\ toLua' = Tail(toLua)
         \/ \E msg : ~IsAction(msg) /\ toLua' = Append(toLua, msg)
  PROVE  /\ \A k \in 1 .. Len(toLua') :
              IsAction(toLua'[k]) => \E i \in 1 .. Len(toLua) : IsAction(toLua[i])
         /\ \A j, k \in 1 .. Len(toLua') : IsAction(toLua'[j]) /\ IsAction(toLua'[k]) => j = k
<1>1. \A j, k \in 1 .. Len(toLua) : IsAction(toLua[j]) /\ IsAction(toLua[k]) => j = k
  BY DEF TokenInv
<1>2. Len(toLua) \in Nat
  BY LenProperties
<1>3. CASE toLua' = toLua
  BY <1>1, <1>3
<1>4. CASE toLua # <<>> /\ toLua' = Tail(toLua)
  <2>1. \A k \in 1 .. Len(toLua') : k + 1 \in 1 .. Len(toLua) /\ toLua'[k] = toLua[k + 1]
    BY <1>4, TailKeeps
  <2>2. \A j, k \in 1 .. Len(toLua') : j + 1 = k + 1 => j = k
    OBVIOUS
  <2>3. ASSUME NEW j \in 1 .. Len(toLua'), NEW k \in 1 .. Len(toLua'),
               IsAction(toLua'[j]), IsAction(toLua'[k])
        PROVE  j = k
    <3>1. j + 1 = k + 1
      BY <1>1, <2>1, <2>3
    <3> QED  BY <2>2, <3>1
  <2> QED  BY <2>1, <2>3
<1>5. CASE \E msg : ~IsAction(msg) /\ toLua' = Append(toLua, msg)
  <2>1. PICK msg : ~IsAction(msg) /\ toLua' = Append(toLua, msg)
    BY <1>5
  <2>2. \A k \in 1 .. Len(toLua') : \/ k \in 1 .. Len(toLua) /\ toLua'[k] = toLua[k]
                                    \/ toLua'[k] = msg
    BY <2>1, AppendKeeps
  <2> QED  BY <1>1, <2>1, <2>2
<1> QED  BY <1>3, <1>4, <1>5

LEMMA SameBreaks ==
  ASSUME fromLua \in Seq(FromLua), TokenInv,
         \/ fromLua' = fromLua
         \/ fromLua # <<>> /\ fromLua' = Tail(fromLua)
         \/ \E msg : ~IsBreak(msg) /\ fromLua' = Append(fromLua, msg)
  PROVE  /\ \A k \in 1 .. Len(fromLua') : IsBreak(fromLua'[k]) =>
              \E i \in 1 .. Len(fromLua) : fromLua'[k] = fromLua[i]
         /\ \A j, k \in 1 .. Len(fromLua') : IsBreak(fromLua'[j]) /\ IsBreak(fromLua'[k]) => j = k
<1>1. \A j, k \in 1 .. Len(fromLua) : IsBreak(fromLua[j]) /\ IsBreak(fromLua[k]) => j = k
  BY DEF TokenInv
<1>2. CASE fromLua' = fromLua
  BY <1>1, <1>2
<1>3. CASE fromLua # <<>> /\ fromLua' = Tail(fromLua)
  <2>1. \A k \in 1 .. Len(fromLua') : k + 1 \in 1 .. Len(fromLua) /\ fromLua'[k] = fromLua[k + 1]
    BY <1>3, TailKeeps
  <2>2. \A j, k \in 1 .. Len(fromLua') : j + 1 = k + 1 => j = k
    OBVIOUS
  <2>3. ASSUME NEW j \in 1 .. Len(fromLua'), NEW k \in 1 .. Len(fromLua'),
               IsBreak(fromLua'[j]), IsBreak(fromLua'[k])
        PROVE  j = k
    <3>1. j + 1 = k + 1
      BY <1>1, <2>1, <2>3
    <3> QED  BY <2>2, <3>1
  <2> QED  BY <2>1, <2>3
<1>4. CASE \E msg : ~IsBreak(msg) /\ fromLua' = Append(fromLua, msg)
  <2>1. PICK msg : ~IsBreak(msg) /\ fromLua' = Append(fromLua, msg)
    BY <1>4
  <2>2. \A k \in 1 .. Len(fromLua') : \/ k \in 1 .. Len(fromLua) /\ fromLua'[k] = fromLua[k]
                                      \/ fromLua'[k] = msg
    BY <2>1, AppendKeeps
  <2> QED  BY <1>1, <2>1, <2>2
<1> QED  BY <1>2, <1>3, <1>4

\* Steps that neither stop the program nor let it run.
LEMMA TokenQuiet ==
  ASSUME TypeOK, TokenInv, UNCHANGED <<stops, running, stopped, breakNotify>>,
         \/ toLua' = toLua
         \/ toLua # <<>> /\ toLua' = Tail(toLua)
         \/ \E msg : ~IsAction(msg) /\ toLua' = Append(toLua, msg),
         \/ fromLua' = fromLua
         \/ fromLua # <<>> /\ fromLua' = Tail(fromLua)
         \/ \E msg : ~IsBreak(msg) /\ fromLua' = Append(fromLua, msg)
  PROVE  TokenInv'
<1>1. /\ \A k \in 1 .. Len(toLua') :
           IsAction(toLua'[k]) => \E i \in 1 .. Len(toLua) : IsAction(toLua[i])
      /\ \A j, k \in 1 .. Len(toLua') : IsAction(toLua'[j]) /\ IsAction(toLua'[k]) => j = k
  BY SameActions DEF TypeOK, EvalTypes
<1>2. /\ \A k \in 1 .. Len(fromLua') : IsBreak(fromLua'[k]) =>
           \E i \in 1 .. Len(fromLua) : fromLua'[k] = fromLua[i]
      /\ \A j, k \in 1 .. Len(fromLua') : IsBreak(fromLua'[j]) /\ IsBreak(fromLua'[k]) => j = k
  BY SameBreaks DEF TypeOK
<1> HIDE DEF IsAction, IsBreak
<1>3. /\ stops' = stops /\ running' = running /\ stopped' = stopped /\ breakNotify' = breakNotify
  OBVIOUS
<1>4. (running \/ Len(stops) # 0)'
  BY <1>3 DEF TokenInv
<1>5. stopped' => /\ ~running' /\ breakNotify' = Len(stops')
                  /\ \A k \in 1 .. Len(toLua') : ~IsAction(toLua'[k])
                  /\ \A k \in 1 .. Len(fromLua') : ~IsBreak(fromLua'[k])
  BY <1>1, <1>2, <1>3 DEF TokenInv
<1>6. ASSUME NEW k \in 1 .. Len(toLua'), IsAction(toLua'[k])
      PROVE  /\ ~running' /\ ~stopped'
             /\ \A j \in 1 .. Len(toLua') : IsAction(toLua'[j]) => j = k
             /\ \A j \in 1 .. Len(fromLua') : ~IsBreak(fromLua'[j])
  BY <1>1, <1>2, <1>3, <1>6 DEF TokenInv
<1>7. ASSUME NEW k \in 1 .. Len(fromLua'), IsBreak(fromLua'[k])
      PROVE  /\ ~running' /\ ~stopped' /\ fromLua'[k].stop = Len(stops')
             /\ \A j \in 1 .. Len(fromLua') : IsBreak(fromLua'[j]) => j = k
  <2>1. PICK i \in 1 .. Len(fromLua) : fromLua'[k] = fromLua[i]
    BY <1>2, <1>7
  <2>2. IsBreak(fromLua[i])
    BY <1>7, <2>1
  <2> QED  BY <1>2, <1>3, <1>7, <2>1, <2>2 DEF TokenInv
<1> QED  BY <1>4, <1>5, <1>6, <1>7 DEF TokenInv, IsAction, IsBreak

LEMMA EvalAsks ==
  ASSUME NEW use, NEW path, NEW w, NEW others, Eval(use, path, w, others)
  PROVE  \E msg : ~IsAction(msg) /\ toLua' = Append(toLua, msg)
<1> DEFINE msg == [cmd |-> "EvalReq", seq |-> evalIdCount, level |-> Level, expr |-> path]
<1>1. toLua' = Append(toLua, msg)
  BY DEF Eval
<1>2. ~IsAction(msg)
  BY DEF IsAction
<1> QED  BY <1>1, <1>2

LEMMA ContinueToken ==
  ASSUME TypeOK, TokenInv, Continue
  PROVE  TokenInv'
<1> DEFINE msg == [cmd |-> "ActionReq"]
<1>1. /\ stopped /\ ~stopped' /\ toLua' = Append(toLua, msg) /\ toLua \in Seq(ToLua)
      /\ UNCHANGED <<stops, running, fromLua, breakNotify>>
  BY DEF Continue, lua, TypeOK, EvalTypes
<1>2. /\ ~running /\ Len(stops) # 0
      /\ \A k \in 1 .. Len(toLua) : ~IsAction(toLua[k])
      /\ \A k \in 1 .. Len(fromLua) : ~IsBreak(fromLua[k])
  BY <1>1 DEF TokenInv
<1> HIDE DEF msg
<1>3. \A k \in 1 .. Len(toLua') : \/ k \in 1 .. Len(toLua) /\ toLua'[k] = toLua[k]
                                  \/ k = Len(toLua) + 1
  BY <1>1, AppendKeeps
<1> HIDE DEF IsAction, IsBreak
<1>4. \A k \in 1 .. Len(toLua') : IsAction(toLua'[k]) => k = Len(toLua) + 1
  BY <1>2, <1>3
<1> QED  BY <1>1, <1>2, <1>4 DEF TokenInv

LEMMA OnReceiveToken ==
  ASSUME TypeOK, TokenInv, AskingInv, OnReceive
  PROVE  TokenInv'
<1> DEFINE msg == Head(fromLua)
<1>1. /\ fromLua \in Seq(FromLua) /\ fromLua # <<>> /\ fromLua' = Tail(fromLua)
      /\ UNCHANGED <<stops, running>>
      /\ IF msg.cmd = "BreakNotify" THEN OnBreakNotify(msg) ELSE OnEvalRsp(msg)
  BY DEF OnReceive, lua, TypeOK
<1>2. /\ msg = fromLua[1] /\ 1 \in 1 .. Len(fromLua)
      /\ \A k \in 1 .. Len(fromLua') : k + 1 \in 1 .. Len(fromLua) /\ fromLua'[k] = fromLua[k + 1]
  BY <1>1, TailKeeps
<1>3. CASE IsBreak(msg)
  <2>1. /\ ~running /\ ~stopped /\ msg.stop = Len(stops)
        /\ \A j \in 1 .. Len(fromLua) : IsBreak(fromLua[j]) => j = 1
        /\ \A k \in 1 .. Len(toLua) : ~IsAction(toLua[k])
    BY <1>2, <1>3 DEF TokenInv
  <2>2. breakNotify' = msg.stop /\ stopped' = TRUE /\ toLua' = toLua
    BY <1>1, <1>3 DEF OnBreakNotify, IsBreak, asking
  <2>3. \A k \in 1 .. Len(fromLua') : k + 1 # 1
    OBVIOUS
  <2> HIDE DEF IsBreak, IsAction, msg
  <2>4. \A k \in 1 .. Len(fromLua') : ~IsBreak(fromLua'[k])
    BY <1>2, <2>1, <2>3
  <2> QED  BY <1>1, <2>1, <2>2, <2>4 DEF TokenInv
<1>4. CASE ~IsBreak(msg)
  <2>1. OnEvalRsp(msg) /\ UNCHANGED <<breakNotify, stopped>>
    BY <1>1, <1>4 DEF OnEvalRsp, IsBreak
  <2>2. \/ toLua' = toLua
        \/ \E m : ~IsAction(m) /\ toLua' = Append(toLua, m)
    BY <2>1, AnswerTakes, EvalAsks DEF asking
  <2> QED  BY <1>1, <2>1, <2>2, TokenQuiet
<1> QED  BY <1>3, <1>4

LEMMA StopToken ==
  ASSUME TypeOK, TokenInv, Stop
  PROVE  TokenInv'
<1> DEFINE msg == [cmd |-> "BreakNotify", stop |-> Len(stops')]
<1>1. /\ running /\ ~running' /\ fromLua' = Append(fromLua, msg) /\ fromLua \in Seq(FromLua)
      /\ stops \in Seq(Stacks) /\ \E stack \in Stacks : stops' = Append(stops, stack)
      /\ UNCHANGED <<toLua, breakNotify, stopped>>
  BY DEF Stop, TypeOK
<1>2. /\ ~stopped
      /\ \A k \in 1 .. Len(toLua) : ~IsAction(toLua[k])
      /\ \A k \in 1 .. Len(fromLua) : ~IsBreak(fromLua[k])
  BY <1>1 DEF TokenInv
<1>3. Len(stops') # 0
  BY <1>1, AppendProperties, LenProperties
<1>4. msg.stop = Len(stops')
  OBVIOUS
<1> HIDE DEF msg
<1>5. \A k \in 1 .. Len(fromLua') : \/ k \in 1 .. Len(fromLua) /\ fromLua'[k] = fromLua[k]
                                    \/ k = Len(fromLua) + 1 /\ fromLua'[k] = msg
  BY <1>1, AppendKeeps
<1> HIDE DEF IsAction, IsBreak
<1>6. \A k \in 1 .. Len(fromLua') :
        IsBreak(fromLua'[k]) => k = Len(fromLua) + 1 /\ fromLua'[k].stop = Len(stops')
  BY <1>2, <1>4, <1>5
<1> QED  BY <1>1, <1>2, <1>3, <1>6 DEF TokenInv

LEMMA LuaReceiveToken ==
  ASSUME TypeOK, TokenInv, LuaReceive
  PROVE  TokenInv'
<1> DEFINE msg == Head(toLua)
<1>1. /\ toLua \in Seq(ToLua) /\ toLua # <<>> /\ toLua' = Tail(toLua)
      /\ UNCHANGED <<stops, stopped, breakNotify>>
      /\ IF msg.cmd = "ActionReq" THEN running' = TRUE /\ UNCHANGED fromLua
         ELSE UNCHANGED running /\ IF running THEN UNCHANGED fromLua ELSE Answer(msg)
  BY DEF LuaReceive, TypeOK, EvalTypes
<1>2. /\ msg = toLua[1] /\ 1 \in 1 .. Len(toLua)
      /\ \A k \in 1 .. Len(toLua') : k + 1 \in 1 .. Len(toLua) /\ toLua'[k] = toLua[k + 1]
  BY <1>1, TailKeeps
<1>3. CASE IsAction(msg)
  <2>1. /\ ~running /\ ~stopped
        /\ \A j \in 1 .. Len(toLua) : IsAction(toLua[j]) => j = 1
        /\ \A j \in 1 .. Len(fromLua) : ~IsBreak(fromLua[j])
    BY <1>2, <1>3 DEF TokenInv
  <2>2. running' = TRUE /\ fromLua' = fromLua
    BY <1>1, <1>3 DEF IsAction
  <2>3. \A k \in 1 .. Len(toLua') : k + 1 # 1
    OBVIOUS
  <2> HIDE DEF IsBreak, IsAction, msg
  <2>4. \A k \in 1 .. Len(toLua') : ~IsAction(toLua'[k])
    BY <1>2, <2>1, <2>3
  <2> QED  BY <1>1, <2>1, <2>2, <2>4 DEF TokenInv
<1>4. CASE ~IsAction(msg)
  <2>1. running' = running /\ (fromLua' = fromLua \/ Answer(msg))
    BY <1>1, <1>4 DEF IsAction
  <2>2. Answer(msg) => \E m : ~IsBreak(m) /\ fromLua' = Append(fromLua, m)
    <3>1. SUFFICES ASSUME Answer(msg) PROVE \E m : ~IsBreak(m) /\ fromLua' = Append(fromLua, m)
      OBVIOUS
    <3> HIDE DEF msg
    <3> DEFINE rsp(ok) == [cmd |-> "EvalRsp", seq |-> msg.seq, success |-> ok,
                 value |-> [at |-> [stop |-> Len(stops), level |-> msg.level], expr |-> msg.expr]]
    <3>2. PICK ok \in {FALSE, msg.level < Len(stops[Len(stops)])} : fromLua' = Append(fromLua, rsp(ok))
      BY <3>1 DEF Answer
    <3>3. ~IsBreak(rsp(ok))
      BY DEF IsBreak
    <3> QED  BY <3>2, <3>3
  <2> QED  BY <1>1, <2>1, <2>2, TokenQuiet
<1> QED  BY <1>3, <1>4

-------------------------------------------------------------------------------
(* Steps: what is asked and answered                                        *)

\* The messages of the Lua process that are left are some of those before.
FromLuaLeft ==
  \A k \in 1 .. Len(fromLua') : \E i \in 1 .. Len(fromLua) : fromLua'[k] = fromLua[i]

\* Nothing is asked; at most a listener is removed.
LEMMA AskingLess ==
  ASSUME AskingInv, UNCHANGED <<stops, running, toLua, evalIdCount>>,
         waiting' \subseteq waiting, FromLuaLeft
  PROVE  AskingInv'
<1>1. \A k \in 1 .. Len(toLua') : IsEval(toLua'[k]) =>
        /\ toLua'[k].seq < evalIdCount'
        /\ \A w \in waiting' : w.sure /\ w.seq = toLua'[k].seq =>
             /\ QuestionFor(w, toLua[k])
             /\ \A j \in 1 .. k : ~IsAction(toLua'[j])
  BY DEF AskingInv, QuestionFor
<1>2. \A k \in 1 .. Len(fromLua') : fromLua'[k].cmd = "EvalRsp" =>
        /\ fromLua'[k].seq < evalIdCount'
        /\ \A w \in waiting' : w.sure /\ w.seq = fromLua'[k].seq
                               => OwnValue(w, fromLua'[k].value)
  BY DEF AskingInv, FromLuaLeft
<1>3. /\ \A w \in waiting' : w.seq < evalIdCount' /\ ListenerInv(w)
      /\ \A w, v \in waiting' : w.seq = v.seq => w = v
  BY DEF AskingInv
<1> QED  BY <1>1, <1>2, <1>3 DEF AskingInv, QuestionFor

\* A listener is added, and its evaluation is sent: under the frame in focus the
\* program is stopped where VS Code takes it to be, and cannot go on before.
LEMMA AskingMore ==
  ASSUME TypeOK, TokenInv, AskingInv, UNCHANGED <<stops, running>>, FromLuaLeft,
         NEW use, NEW path, NEW w, NEW others \in SUBSET waiting,
         Eval(use, path, w, others),
         use = "children" /\ w.sure => w.value.at = w.root /\ w.value.expr = path,
         use = "_G" => path = <<"_G">>
  PROVE  AskingInv'
<1> DEFINE sure == w.sure /\ InFocus(w.root)
           v    == [seq |-> evalIdCount, use |-> use, path |-> path, value |-> w.value,
                    root |-> w.root, sure |-> sure]
           msg  == [cmd |-> "EvalReq", seq |-> evalIdCount, level |-> Level, expr |-> path]
           n    == Len(toLua) + 1
<1>1. /\ evalIdCount \in Nat /\ toLua \in Seq(ToLua) /\ waiting \subseteq Listener
  BY DEF TypeOK, EvalTypes
<1>2. evalIdCount' = evalIdCount + 1 /\ waiting' = others \cup {v} /\ toLua' = Append(toLua, msg)
  BY DEF Eval, NextId
<1>3. /\ v.seq = evalIdCount /\ v.use = use /\ v.path = path /\ v.value = w.value
      /\ v.root = w.root /\ v.sure = sure
      /\ msg.seq = evalIdCount /\ msg.expr = path /\ msg.level = currentFrameId
      /\ ~IsAction(msg) /\ IsEval(msg)
  BY DEF IsAction, IsEval, Level
<1> HIDE DEF v, msg
<1>4. \A k \in 1 .. Len(toLua') : \/ k \in 1 .. Len(toLua) /\ toLua'[k] = toLua[k]
                                  \/ k = n /\ toLua'[k] = msg
  BY <1>1, <1>2, AppendKeeps
<1>5. sure => /\ w.sure /\ ~running /\ w.root.stop = Len(stops) /\ w.root.level = currentFrameId
              /\ \A k \in 1 .. Len(toLua) : ~IsAction(toLua[k])
  <2> HIDE DEF IsAction, IsBreak
  <2> QED  BY DEF InFocus, TokenInv
<1>6. \A x \in others : x.seq < evalIdCount /\ x.seq \in Nat /\ x \in waiting
  BY <1>1 DEF AskingInv, Listener
<1> HIDE DEF sure
<1>7. \A x \in waiting' : x.seq < evalIdCount' /\ ListenerInv(x)
  <2>1. ListenerInv(v)
    BY <1>3, <1>5 DEF ListenerInv, OwnValue
  <2>2. \A x \in others : x.seq < evalIdCount' /\ ListenerInv(x)
    BY <1>1, <1>2, <1>6 DEF AskingInv
  <2>3. v.seq < evalIdCount'
    BY <1>1, <1>2, <1>3
  <2> QED  BY <1>2, <2>1, <2>2, <2>3
<1>8. \A x, y \in waiting' : x.seq = y.seq => x = y
  <2>1. \A x, y \in others : x.seq = y.seq => x = y
    BY DEF AskingInv
  <2>2. \A x \in others : x.seq # v.seq
    BY <1>1, <1>3, <1>6
  <2> QED  BY <1>2, <2>1, <2>2
<1>9. ASSUME NEW k \in 1 .. Len(toLua'), IsEval(toLua'[k])
      PROVE  /\ toLua'[k].seq < evalIdCount'
             /\ \A x \in waiting' : x.sure /\ x.seq = toLua'[k].seq =>
                  /\ QuestionFor(x, toLua'[k])
                  /\ \A j \in 1 .. k : ~IsAction(toLua'[j])
  <2>1. CASE k \in 1 .. Len(toLua) /\ toLua'[k] = toLua[k]
    <3>1. /\ toLua[k].seq < evalIdCount
          /\ \A x \in others : x.sure /\ x.seq = toLua[k].seq =>
               QuestionFor(x, toLua[k]) /\ \A j \in 1 .. k : ~IsAction(toLua[j])
      BY <1>9, <2>1 DEF AskingInv
    <3>2. toLua[k].seq \in Nat
      <4>1. toLua[k] \in ToLua
        BY <1>1, <2>1, ElementOfSeq
      <4> QED  BY <1>9, <2>1, <4>1 DEF ToLua, IsEval
    <3>3. toLua[k].seq < evalIdCount' /\ toLua[k].seq # v.seq
      BY <1>1, <1>2, <1>3, <3>1, <3>2
    <3>4. \A j \in 1 .. k : j \in 1 .. Len(toLua) /\ toLua'[j] = toLua[j]
      <4>1. Len(toLua) \in Nat /\ Len(toLua') = n
        BY <1>1, <1>2, AppendKeeps
      <4>2. \A j \in 1 .. k : j \in 1 .. Len(toLua) /\ j \in 1 .. Len(toLua') /\ j # n
        BY <2>1, <4>1
      <4> QED  BY <1>4, <4>2
    <3> QED  BY <1>2, <2>1, <3>1, <3>3, <3>4
  <2>2. CASE k = n /\ toLua'[k] = msg
    <3>1. \A x \in others : x.seq # msg.seq
      BY <1>1, <1>3, <1>6
    <3>2. msg.seq < evalIdCount'
      BY <1>1, <1>2, <1>3
    <3>3. v.sure => QuestionFor(v, msg)
      BY <1>3, <1>5 DEF QuestionFor
    <3>4. v.sure => \A j \in 1 .. k : ~IsAction(toLua'[j])
      <4>1. \A j \in 1 .. k : j \in 1 .. Len(toLua')
        BY <1>1, LenProperties
      <4> HIDE DEF IsAction
      <4> QED  BY <1>3, <1>4, <1>5, <4>1
    <3> QED  BY <1>2, <2>2, <3>1, <3>2, <3>3, <3>4
  <2> QED  BY <1>4, <2>1, <2>2
<1>10. \A k \in 1 .. Len(fromLua') : fromLua'[k].cmd = "EvalRsp" =>
         /\ fromLua'[k].seq < evalIdCount'
         /\ \A x \in waiting' : x.sure /\ x.seq = fromLua'[k].seq
                                => OwnValue(x, fromLua'[k].value)
  <2>1. ASSUME NEW i \in 1 .. Len(fromLua), fromLua[i].cmd = "EvalRsp"
        PROVE  /\ fromLua[i].seq < evalIdCount'
               /\ \A x \in waiting' : x.sure /\ x.seq = fromLua[i].seq
                                      => OwnValue(x, fromLua[i].value)
    <3>1. /\ fromLua[i].seq < evalIdCount
          /\ \A x \in others : x.sure /\ x.seq = fromLua[i].seq => OwnValue(x, fromLua[i].value)
      BY <2>1 DEF AskingInv
    <3>2. fromLua[i].seq \in Nat
      <4>1. fromLua[i] \in FromLua
        BY ElementOfSeq DEF TypeOK
      <4> QED  BY <2>1, <4>1 DEF FromLua
    <3>3. fromLua[i].seq < evalIdCount' /\ fromLua[i].seq # v.seq
      BY <1>1, <1>2, <1>3, <3>1, <3>2
    <3> QED  BY <1>2, <3>1, <3>3
  <2> QED  BY <2>1 DEF FromLuaLeft
<1>11. \A k \in 1 .. Len(toLua') : \A x \in waiting' :
         QuestionFor(x, toLua'[k]) => /\ toLua'[k].level = x.root.level /\ toLua'[k].expr = x.path
                                      /\ ~running' /\ x.root.stop = Len(stops')
  BY DEF QuestionFor
<1> QED  BY <1>7, <1>8, <1>9, <1>10, <1>11 DEF AskingInv, QuestionFor

LEMMA HandlesMore ==
  ASSUME TypeOK, HandlesInv, NEW new \in Seq(NodeType), handles' = handles \o new,
         \A k \in 1 .. Len(new) : NodeInv(new[k])
  PROVE  HandlesInv'
<1>1. handles \in Seq(NodeType) /\ Len(handles) \in Nat /\ Len(new) \in Nat
  BY LenProperties DEF TypeOK, EvalTypes
<1>2. /\ Len(handles') = Len(handles) + Len(new)
      /\ \A k \in 1 .. Len(handles) + Len(new) :
           handles'[k] = IF k <= Len(handles) THEN handles[k] ELSE new[k - Len(handles)]
  BY <1>1, ConcatProperties
<1>3. ASSUME NEW k \in 1 .. Len(handles')  PROVE NodeInv(handles'[k])
  <2>1. k <= Len(handles) => k \in 1 .. Len(handles)
    BY <1>1, <1>2
  <2>2. ~ (k <= Len(handles)) => k - Len(handles) \in 1 .. Len(new)
    BY <1>1, <1>2
  <2> QED  BY <1>2, <2>1, <2>2 DEF HandlesInv
<1> QED  BY <1>3 DEF HandlesInv, NodeInv, OwnValue

LEMMA ScopesKeeps ==
  ASSUME TypeOK, HandlesInv, AskingInv, NEW level, Scopes(level)
  PROVE  HandlesInv' /\ AskingInv'
<1> DEFINE frame == [stop |-> breakNotify, level |-> level]
           value == [at |-> frame, expr |-> <<>>]
           w     == [root |-> frame, sure |-> TRUE]
           n1    == Node("stack", <<>>, value, w)
           n2    == Node("ENV", <<>>, value, w)
<1>1. level \in Nat /\ breakNotify \in Nat
  BY LevelsAreNumbers DEF TypeOK, Scopes
<1>2. frame \in Place /\ <<>> \in Seq(Names)
  BY <1>1, EmptySeq DEF Place
<1>3. handles' = handles \o <<n1, n2>>
  BY DEF Scopes
<1> HIDE DEF frame
<1>4. value \in Value
  BY <1>2 DEF Value
<1>5. NodeInv(n1) /\ NodeInv(n2)
  BY DEF Node, NodeInv, OwnValue
<1> HIDE DEF value
<1>6. n1 \in NodeType /\ n2 \in NodeType
  BY <1>2, <1>4 DEF Node, NodeType
<1> HIDE DEF n1, n2
<1> DEFINE new == <<n1, n2>>
<1>7. new \in Seq(NodeType) /\ \A k \in 1 .. Len(new) : NodeInv(new[k])
  BY <1>5, <1>6
<1>8. handles' = handles \o new
  BY <1>3
<1> HIDE DEF new
<1>9. HandlesInv'
  BY <1>7, <1>8, HandlesMore
<1>10. UNCHANGED <<stops, running, toLua, evalIdCount, waiting, fromLua>>
  BY DEF Scopes, lua, asking
<1>11. FromLuaLeft
  BY <1>10 DEF FromLuaLeft
<1> QED  BY <1>9, <1>10, <1>11, AskingLess

LEMMA EvaluateKeeps ==
  ASSUME TypeOK, TokenInv, HandlesInv, AskingInv,
         NEW level \in Levels \cup {0}, Evaluate(level)
  PROVE  HandlesInv' /\ AskingInv'
<1> DEFINE root == [stop |-> breakNotify, level |-> level]
           w    == [root |-> root, sure |-> TRUE, value |-> [at |-> root, expr |-> <<>>]]
<1>1. Eval("result", <<"expression">>, w, waiting)
  BY DEF Evaluate
<1>2. UNCHANGED <<stops, running, fromLua, handles>>
  BY DEF Evaluate, lua
<1>3. FromLuaLeft
  BY <1>2 DEF FromLuaLeft
<1> HIDE DEF w
<1>4. AskingInv'
  BY <1>1, <1>2, <1>3, AskingMore
<1>5. HandlesInv'
  BY <1>2 DEF HandlesInv, NodeInv, OwnValue
<1> QED  BY <1>4, <1>5

LEMMA VariablesKeeps ==
  ASSUME TypeOK, TokenInv, HandlesInv, AskingInv,
         NEW node \in ToSet(handles), Variables(node)
  PROVE  HandlesInv' /\ AskingInv'
<1>1. node \in NodeType
  BY VariablesDoes
<1>2. /\ node.path \in Seq(Names) /\ node.root \in Place /\ node.sure \in BOOLEAN
      /\ node.value \in Value
  BY <1>1 DEF NodeType
<1>3. NodeInv(node)
  BY LenProperties DEF HandlesInv, ToSet, TypeOK, EvalTypes
<1>4. UNCHANGED <<stops, running, fromLua>>
  BY DEF Variables, lua
<1>5. FromLuaLeft
  BY <1>4 DEF FromLuaLeft
<1>6. UNCHANGED handles => HandlesInv'
  BY DEF HandlesInv, NodeInv, OwnValue
<1>7. CASE /\ UNCHANGED asking
           /\ \E names \in Seq(Names) : handles' = handles \o Children(node, node.value, names)
  <2>1. PICK names \in Seq(Names) : handles' = handles \o Children(node, node.value, names)
    BY <1>7
  <2>2. /\ Children(node, node.value, names) \in Seq(NodeType)
        /\ \A k \in 1 .. Len(Children(node, node.value, names)) :
             NodeInv(Children(node, node.value, names)[k])
    BY <1>2, <1>3, ChildrenOfNode DEF NodeInv
  <2>3. HandlesInv'
    BY <2>1, <2>2, HandlesMore
  <2>4. UNCHANGED <<toLua, evalIdCount, waiting>>
    BY <1>7 DEF asking
  <2>5. AskingInv'
    BY <1>4, <1>5, <2>4, AskingLess
  <2> QED  BY <2>3, <2>5
<1>8. CASE UNCHANGED handles /\ Eval("children", node.path, node, waiting)
  <2>1. node.sure => node.value.at = node.root /\ node.value.expr = node.path
    BY <1>3 DEF NodeInv, OwnValue
  <2>2. AskingInv'
    BY <1>4, <1>5, <1>8, <2>1, AskingMore
  <2> QED  BY <1>6, <1>8, <2>2
<1>9. CASE /\ UNCHANGED handles
           /\ Eval("children", <<"_ENV">>, [node EXCEPT !.value.expr = <<"_ENV">>], waiting)
  <2> DEFINE w == [node EXCEPT !.value.expr = <<"_ENV">>]
  <2>1. /\ w.root = node.root /\ w.sure = node.sure
        /\ w.value.at = node.value.at /\ w.value.expr = <<"_ENV">>
    BY <1>1 DEF NodeType, Value
  <2>2. w.sure => w.value.at = w.root /\ w.value.expr = <<"_ENV">>
    BY <1>3, <2>1 DEF NodeInv, OwnValue
  <2>3. Eval("children", <<"_ENV">>, w, waiting)
    BY <1>9
  <2> HIDE DEF w
  <2>4. AskingInv'
    BY <1>4, <1>5, <2>2, <2>3, AskingMore
  <2> QED  BY <1>6, <1>9, <2>4
<1>10. CASE UNCHANGED handles /\ Eval("_G", <<"_G">>, node, waiting)
  <2>1. AskingInv'
    BY <1>4, <1>5, <1>10, AskingMore
  <2> QED  BY <1>6, <1>10, <2>1
<1> QED  BY <1>7, <1>8, <1>9, <1>10, VariablesDoes

LEMMA ContinueKeeps ==
  ASSUME TypeOK, HandlesInv, AskingInv, Continue
  PROVE  HandlesInv' /\ AskingInv'
<1> DEFINE msg == [cmd |-> "ActionReq"]
<1>1. /\ toLua' = Append(toLua, msg) /\ toLua \in Seq(ToLua)
      /\ UNCHANGED <<stops, running, fromLua, handles, evalIdCount, waiting>>
  BY DEF Continue, lua, TypeOK, EvalTypes
<1>2. ~IsEval(msg)
  BY DEF IsEval
<1> HIDE DEF msg
<1>3. /\ \A k \in 1 .. Len(toLua') : \/ k \in 1 .. Len(toLua) /\ toLua'[k] = toLua[k]
                                     \/ k = Len(toLua) + 1 /\ toLua'[k] = msg
      /\ Len(toLua) \in Nat /\ Len(toLua') = Len(toLua) + 1
  BY <1>1, AppendKeeps
<1>4. ASSUME NEW k \in 1 .. Len(toLua'), IsEval(toLua'[k])
      PROVE  /\ k \in 1 .. Len(toLua) /\ toLua'[k] = toLua[k]
             /\ \A j \in 1 .. k : toLua'[j] = toLua[j]
  <2>1. k \in 1 .. Len(toLua) /\ toLua'[k] = toLua[k]
    BY <1>2, <1>3, <1>4
  <2>2. \A j \in 1 .. k : j \in 1 .. Len(toLua') /\ j # Len(toLua) + 1
    BY <1>3, <2>1
  <2> QED  BY <1>3, <2>1, <2>2
<1>5. \A k \in 1 .. Len(toLua') : IsEval(toLua'[k]) =>
        /\ toLua'[k].seq < evalIdCount
        /\ \A w \in waiting : w.sure /\ w.seq = toLua'[k].seq =>
             /\ QuestionFor(w, toLua'[k])
             /\ \A j \in 1 .. k : ~IsAction(toLua'[j])
  <2> HIDE DEF IsAction, IsEval
  <2> QED  BY <1>4 DEF AskingInv
<1>6. HandlesInv'
  BY <1>1 DEF HandlesInv, NodeInv, OwnValue
<1> QED  BY <1>1, <1>5, <1>6 DEF AskingInv, QuestionFor

LEMMA OnReceiveKeeps ==
  ASSUME TypeOK, TokenInv, HandlesInv, AskingInv, OnReceive
  PROVE  HandlesInv' /\ AskingInv'
<1> DEFINE msg == Head(fromLua)
<1>1. /\ fromLua \in Seq(FromLua) /\ fromLua # <<>> /\ fromLua' = Tail(fromLua)
      /\ UNCHANGED <<stops, running>>
      /\ IF msg.cmd = "BreakNotify" THEN OnBreakNotify(msg) ELSE OnEvalRsp(msg)
  BY DEF OnReceive, lua, TypeOK
<1>2. /\ msg \in FromLua /\ msg = fromLua[1] /\ 1 \in 1 .. Len(fromLua)
      /\ \A k \in 1 .. Len(fromLua') : k + 1 \in 1 .. Len(fromLua) /\ fromLua'[k] = fromLua[k + 1]
  BY <1>1, TailKeeps
<1>3. FromLuaLeft
  BY <1>2 DEF FromLuaLeft
<1>4. CASE UNCHANGED <<handles, asking>>
  <2>1. HandlesInv'
    BY <1>4 DEF HandlesInv, NodeInv, OwnValue
  <2>2. UNCHANGED <<toLua, evalIdCount, waiting>>
    BY <1>4 DEF asking
  <2> QED  BY <1>1, <1>3, <2>1, <2>2, AskingLess
<1>5. CASE ~ UNCHANGED <<handles, asking>>
  <2>1. msg.cmd = "EvalRsp" /\ OnEvalRsp(msg)
    BY <1>1, <1>2, <1>5 DEF FromLua, OnBreakNotify
  <2>2. msg.value \in Value /\ msg.success \in BOOLEAN
    BY <1>2, <2>1 DEF FromLua
  <2> HIDE DEF msg
  <2>3. PICK w \in waiting :
          /\ w.seq = msg.seq /\ w \in Listener
          /\ \/ /\ w.use = "_G" /\ msg.success /\ UNCHANGED handles
                /\ Eval("children", <<"_G">>, [w EXCEPT !.value = msg.value], waiting \ {w})
             \/ /\ waiting' = waiting \ {w} /\ UNCHANGED <<evalIdCount, toLua>>
                /\ \/ /\ w.use = "children"
                      /\ handles' = handles \o
                           Children(w, IF msg.success THEN msg.value ELSE w.value, Members)
                   \/ /\ msg.success
                      /\ handles' = handles \o <<Node("table", w.path, msg.value, w)>>
                   \/ handles' = handles \o <<>>
    BY <1>5, <2>1, AnswerTakes
  <2>4. /\ w.path \in Seq(Names) /\ w.root \in Place /\ w.sure \in BOOLEAN
        /\ w.value \in Value
    BY <2>3 DEF Listener
  <2>5. w.sure => OwnValue(w, msg.value)
    BY <1>2, <2>1, <2>3 DEF AskingInv
  <2>6. ListenerInv(w)
    BY DEF AskingInv
  <2>7. CASE /\ w.use = "_G" /\ UNCHANGED handles
             /\ Eval("children", <<"_G">>, [w EXCEPT !.value = msg.value], waiting \ {w})
    <3> DEFINE v == [w EXCEPT !.value = msg.value]
    <3>1. v.root = w.root /\ v.sure = w.sure /\ v.value = msg.value
      BY <2>3 DEF Listener
    <3>2. v.sure => v.value.at = v.root /\ v.value.expr = <<"_G">>
      BY <2>5, <2>6, <2>7, <3>1 DEF OwnValue, ListenerInv
    <3>3. Eval("children", <<"_G">>, v, waiting \ {w})
      BY <2>7
    <3> HIDE DEF v
    <3>4. AskingInv'
      BY <1>1, <1>3, <3>2, <3>3, AskingMore
    <3>5. HandlesInv'
      BY <2>7 DEF HandlesInv, NodeInv, OwnValue
    <3> QED  BY <3>4, <3>5
  <2>8. CASE waiting' = waiting \ {w} /\ UNCHANGED <<evalIdCount, toLua>>
    <3>1. AskingInv'
      BY <1>1, <1>3, <2>8, AskingLess
    <3>2. CASE w.use = "children" /\ handles' = handles \o
                 Children(w, IF msg.success THEN msg.value ELSE w.value, Members)
      <4> DEFINE value == IF msg.success THEN msg.value ELSE w.value
      <4>1. value \in Value
        BY <2>2, <2>4
      <4>2. w.sure => OwnValue(w, value)
        BY <2>5, <2>6, <3>2 DEF ListenerInv
      <4>3. handles' = handles \o Children(w, value, Members)
        BY <3>2
      <4> HIDE DEF value
      <4>4. /\ Children(w, value, Members) \in Seq(NodeType)
            /\ \A k \in 1 .. Len(Children(w, value, Members)) :
                 NodeInv(Children(w, value, Members)[k])
        BY <2>4, <4>1, <4>2, MembersAreNames, ChildrenOfNode
      <4>5. HandlesInv'
        BY <4>3, <4>4, HandlesMore
      <4> QED  BY <3>1, <4>5
    <3>3. CASE handles' = handles \o <<Node("table", w.path, msg.value, w)>>
      <4> DEFINE node == Node("table", w.path, msg.value, w)
                 new  == <<node>>
      <4>1. node \in NodeType
        BY <2>2, <2>4 DEF Node, NodeType
      <4>2. NodeInv(node)
        BY <2>5 DEF Node, NodeInv, OwnValue
      <4> HIDE DEF node
      <4>3. new \in Seq(NodeType) /\ \A k \in 1 .. Len(new) : NodeInv(new[k])
        BY <4>1, <4>2
      <4>4. handles' = handles \o new
        BY <3>3 DEF node
      <4> HIDE DEF new
      <4>5. HandlesInv'
        BY <4>3, <4>4, HandlesMore
      <4> QED  BY <3>1, <4>5
    <3>4. CASE handles' = handles \o <<>>
      <4>1. <<>> \in Seq(NodeType) /\ \A k \in 1 .. Len(<<>>) : NodeInv(<<>>[k])
        BY EmptySeq
      <4>2. HandlesInv'
        BY <3>4, <4>1, HandlesMore
      <4> QED  BY <3>1, <4>2
    <3> QED  BY <2>3, <2>8, <3>2, <3>3, <3>4
  <2> QED  BY <2>3, <2>7, <2>8
<1> QED  BY <1>4, <1>5

LEMMA StopKeeps ==
  ASSUME TypeOK, HandlesInv, AskingInv, Stop
  PROVE  HandlesInv' /\ AskingInv'
<1> DEFINE msg == [cmd |-> "BreakNotify", stop |-> Len(stops')]
<1>1. /\ running /\ fromLua' = Append(fromLua, msg) /\ fromLua \in Seq(FromLua)
      /\ UNCHANGED <<toLua, handles, evalIdCount, waiting>>
  BY DEF Stop, TypeOK
<1>2. msg.cmd # "EvalRsp"
  OBVIOUS
<1> HIDE DEF msg
<1>3. \A k \in 1 .. Len(fromLua') : \/ k \in 1 .. Len(fromLua) /\ fromLua'[k] = fromLua[k]
                                    \/ fromLua'[k] = msg
  BY <1>1, AppendKeeps
<1>4. \A k \in 1 .. Len(toLua) : IsEval(toLua[k]) =>
        \A w \in waiting : ~ (w.sure /\ w.seq = toLua[k].seq)
  BY <1>1 DEF AskingInv, QuestionFor
<1>5. \A k \in 1 .. Len(fromLua') : fromLua'[k].cmd = "EvalRsp" =>
        /\ fromLua'[k].seq < evalIdCount
        /\ \A w \in waiting : w.sure /\ w.seq = fromLua'[k].seq
                              => OwnValue(w, fromLua'[k].value)
  BY <1>2, <1>3 DEF AskingInv
<1>6. HandlesInv'
  BY <1>1 DEF HandlesInv, NodeInv, OwnValue
<1> QED  BY <1>1, <1>4, <1>5, <1>6 DEF AskingInv

LEMMA LuaReceiveKeeps ==
  ASSUME TypeOK, HandlesInv, AskingInv, LuaReceive
  PROVE  HandlesInv' /\ AskingInv'
<1> DEFINE msg == Head(toLua)
<1>1. /\ toLua \in Seq(ToLua) /\ toLua # <<>> /\ toLua' = Tail(toLua)
      /\ fromLua \in Seq(FromLua)
      /\ UNCHANGED <<stops, handles, evalIdCount, waiting>>
      /\ IF msg.cmd = "ActionReq" THEN running' = TRUE /\ UNCHANGED fromLua
         ELSE UNCHANGED running /\ IF running THEN UNCHANGED fromLua ELSE Answer(msg)
  BY DEF LuaReceive, TypeOK, EvalTypes
<1>2. /\ msg \in ToLua /\ msg = toLua[1] /\ 1 \in 1 .. Len(toLua)
      /\ Tail(toLua) \in Seq(ToLua)
      /\ \A k \in 1 .. Len(toLua') : k + 1 \in 1 .. Len(toLua) /\ toLua'[k] = toLua[k + 1]
  BY <1>1, TailKeeps
<1>3. IsAction(msg) => running' = TRUE /\ fromLua' = fromLua
  BY <1>1 DEF IsAction
<1>4. ~IsAction(msg) => /\ running' = running /\ IsEval(msg)
                        /\ fromLua' = fromLua \/ (~running /\ Answer(msg))
  BY <1>1, <1>2 DEF IsAction, IsEval, ToLua
<1> HIDE DEF msg
<1>5. \A k \in 1 .. Len(toLua') : IsEval(toLua'[k]) =>
        /\ toLua'[k].seq < evalIdCount
        /\ \A w \in waiting : w.sure /\ w.seq = toLua'[k].seq =>
             /\ toLua'[k].level = w.root.level /\ toLua'[k].expr = w.path
             /\ ~running' /\ w.root.stop = Len(stops)
             /\ \A j \in 1 .. k : ~IsAction(toLua'[j])
  <2>1. SUFFICES ASSUME NEW k \in 1 .. Len(toLua'), IsEval(toLua'[k])
                 PROVE  /\ toLua'[k].seq < evalIdCount
                        /\ \A w \in waiting : w.sure /\ w.seq = toLua'[k].seq =>
                             /\ toLua'[k].level = w.root.level /\ toLua'[k].expr = w.path
                             /\ ~running' /\ w.root.stop = Len(stops)
                             /\ \A j \in 1 .. k : ~IsAction(toLua'[j])
    OBVIOUS
  <2> HIDE DEF IsAction, IsEval
  <2>2. k + 1 \in 1 .. Len(toLua) /\ toLua'[k] = toLua[k + 1]
    BY <1>2
  <2>3. /\ toLua[k + 1].seq < evalIdCount
        /\ \A w \in waiting : w.sure /\ w.seq = toLua[k + 1].seq =>
             /\ QuestionFor(w, toLua[k + 1])
             /\ \A j \in 1 .. k + 1 : ~IsAction(toLua[j])
    BY <2>1, <2>2 DEF AskingInv
  <2>4. ASSUME NEW w \in waiting, w.sure, w.seq = toLua'[k].seq
        PROVE  /\ toLua'[k].level = w.root.level /\ toLua'[k].expr = w.path
               /\ ~running' /\ w.root.stop = Len(stops)
               /\ \A j \in 1 .. k : ~IsAction(toLua'[j])
    <3>1. QuestionFor(w, toLua[k + 1]) /\ \A j \in 1 .. k + 1 : ~IsAction(toLua[j])
      BY <2>2, <2>3, <2>4
    <3>2. 1 \in 1 .. k + 1 /\ \A j \in 1 .. k : j + 1 \in 1 .. k + 1
      OBVIOUS
    <3>3. ~IsAction(msg) /\ running' = running
      BY <1>2, <1>4, <3>1, <3>2
    <3>4. \A j \in 1 .. k : j \in 1 .. Len(toLua')
      BY <1>1, <1>2, LenProperties
    <3>5. \A j \in 1 .. k : ~IsAction(toLua'[j])
      BY <1>2, <3>1, <3>2, <3>4
    <3> QED  BY <2>2, <3>1, <3>3, <3>5 DEF QuestionFor
  <2> QED  BY <2>2, <2>3, <2>4
<1>6. \A k \in 1 .. Len(fromLua') : fromLua'[k].cmd = "EvalRsp" =>
        /\ fromLua'[k].seq < evalIdCount
        /\ \A w \in waiting : w.sure /\ w.seq = fromLua'[k].seq
                              => OwnValue(w, fromLua'[k].value)
  <2>1. CASE fromLua' = fromLua
    BY <2>1 DEF AskingInv
  <2>2. CASE ~IsAction(msg) /\ Answer(msg)
    <3> DEFINE value   == [at |-> [stop |-> Len(stops), level |-> msg.level], expr |-> msg.expr]
               rsp(ok) == [cmd |-> "EvalRsp", seq |-> msg.seq, success |-> ok, value |-> value]
    <3>1. PICK ok \in {FALSE, msg.level < Len(stops[Len(stops)])} : fromLua' = Append(fromLua, rsp(ok))
      BY <2>2 DEF Answer
    <3>2. /\ msg.seq < evalIdCount
          /\ \A w \in waiting : w.sure /\ w.seq = msg.seq => QuestionFor(w, msg)
      <4> HIDE DEF IsAction, IsEval
      <4> QED  BY <1>2, <1>4, <2>2 DEF AskingInv
    <3>3. \A w \in waiting : w.root \in Place
      BY DEF TypeOK, EvalTypes, Listener
    <3>4. \A w \in waiting : w.sure /\ w.seq = msg.seq => OwnValue(w, value)
      <4>1. SUFFICES ASSUME NEW w \in waiting, w.sure, w.seq = msg.seq
                     PROVE  OwnValue(w, value)
        OBVIOUS
      <4>2. QuestionFor(w, msg)
        BY <3>2, <4>1
      <4>3. w.root = [stop |-> Len(stops), level |-> msg.level]
        BY <3>3, <4>2 DEF QuestionFor, Place
      <4> QED  BY <4>2, <4>3 DEF OwnValue, QuestionFor
    <3>5. rsp(ok).seq = msg.seq /\ rsp(ok).value = value
      OBVIOUS
    <3> HIDE DEF rsp, value
    <3>6. \A k \in 1 .. Len(fromLua') : \/ k \in 1 .. Len(fromLua) /\ fromLua'[k] = fromLua[k]
                                        \/ fromLua'[k] = rsp(ok)
      BY <1>1, <3>1, AppendKeeps
    <3> QED  BY <3>2, <3>4, <3>5, <3>6 DEF AskingInv
  <2> QED  BY <1>3, <1>4, <2>1, <2>2
<1>7. HandlesInv'
  BY <1>1 DEF HandlesInv, NodeInv, OwnValue
<1>8. /\ \A w \in waiting : w.seq < evalIdCount /\ ListenerInv(w)
      /\ \A w, v \in waiting : w.seq = v.seq => w = v
  BY DEF AskingInv
<1> HIDE DEF IsAction, IsEval
<1> QED  BY <1>1, <1>5, <1>6, <1>7, <1>8 DEF AskingInv, QuestionFor

-------------------------------------------------------------------------------
(* The theorems                                                             *)

IInv == FramesInv /\ TokenInv /\ HandlesInv /\ AskingInv

LEMMA InitIInv == Init => IInv
<1> SUFFICES ASSUME Init PROVE IInv
  OBVIOUS
<1>1. <<>> \in Seq(Stacks) /\ <<>> \in Seq(FromLua) /\ <<>> \in Seq(ToLua)
      /\ <<>> \in Seq(TraceType) /\ <<>> \in Seq(NodeType) /\ Len(<<>>) = 0
  BY EmptySeq
<1>2. TypeOK
  <2>1. DOMAIN fileCache = {}
    BY DEF Init
  <2>2. EvalTypes
    BY <1>1 DEF Init, EvalTypes
  <2> QED  BY <1>1, <2>1, <2>2 DEF Init, TypeOK
<1>3. CacheInv(fileCache) /\ SearchesApart(searches, findFileSeq)
  BY DEF Init, CacheInv, SearchesApart
<1>4. TracesInv(stops, traces, searches)
  BY <1>1 DEF Init, TracesInv
<1>5. FramesInv
  BY <1>1, <1>2, <1>3, <1>4 DEF Init, FramesInv
<1>6. TokenInv /\ HandlesInv /\ AskingInv
  BY <1>1 DEF Init, TokenInv, HandlesInv, AskingInv
<1> QED  BY <1>5, <1>6 DEF IInv

LEMMA QuietStep ==
  ASSUME TypeOK, TokenInv, HandlesInv, AskingInv,
         UNCHANGED <<lua, fromLua, breakNotify, stopped, handles, asking>>
  PROVE  TokenInv' /\ HandlesInv' /\ AskingInv'
<1>1. UNCHANGED <<stops, running, fromLua, breakNotify, stopped, handles, toLua,
                  evalIdCount, waiting>>
  BY DEF lua, asking
<1>2. FromLuaLeft
  BY <1>1 DEF FromLuaLeft
<1>3. HandlesInv'
  BY <1>1 DEF HandlesInv, NodeInv, OwnValue
<1> QED  BY <1>1, <1>2, <1>3, TokenQuiet, AskingLess

LEMMA NextIInv == IInv /\ [Next]_vars => IInv'
<1> SUFFICES ASSUME IInv, [Next]_vars PROVE IInv'
  OBVIOUS
<1>1. FramesInv /\ TypeOK /\ TokenInv /\ HandlesInv /\ AskingInv
  BY DEF IInv, FramesInv
<1>2. CASE StackTrace
  <2>1. UNCHANGED <<lua, fromLua, breakNotify, stopped, handles, asking>>
    BY <1>2 DEF StackTrace
  <2> QED  BY <1>1, <1>2, <2>1, StackTraceStep, QuietStep DEF IInv
<1>3. ASSUME NEW s \in searches, FindFileRsp(s)  PROVE IInv'
  <2>1. UNCHANGED <<lua, fromLua, breakNotify, stopped, handles, asking>>
    BY <1>3 DEF FindFileRsp
  <2> QED  BY <1>1, <1>3, <2>1, FindFileRspStep, QuietStep DEF IInv
<1>4. CASE Continue
  BY <1>1, <1>4, ContinueTyped, ContinueToken, ContinueKeeps DEF IInv
<1>5. ASSUME NEW level \in Levels \cup {0}, Scopes(level)  PROVE IInv'
  <2>1. UNCHANGED <<stops, running, stopped, breakNotify, toLua, fromLua>>
    BY <1>5 DEF Scopes, lua, asking
  <2> QED  BY <1>1, <1>5, <2>1, ScopesTyped, TokenQuiet, ScopesKeeps DEF IInv
<1>6. ASSUME NEW level \in Levels \cup {0}, Evaluate(level)  PROVE IInv'
  <2>1. UNCHANGED <<stops, running, stopped, breakNotify, fromLua>>
    BY <1>6 DEF Evaluate, lua
  <2>2. \E msg : ~IsAction(msg) /\ toLua' = Append(toLua, msg)
    BY <1>6, EvalAsks DEF Evaluate
  <2>3. TokenInv'
    BY <1>1, <2>1, <2>2, TokenQuiet
  <2> QED  BY <1>1, <1>6, <2>3, EvaluateTyped, EvaluateKeeps DEF IInv
<1>7. ASSUME NEW node \in ToSet(handles), Variables(node)  PROVE IInv'
  <2>1. UNCHANGED <<stops, running, stopped, breakNotify, fromLua>>
    BY <1>7 DEF Variables, lua
  <2>2. toLua' = toLua \/ \E msg : ~IsAction(msg) /\ toLua' = Append(toLua, msg)
    BY <1>1, <1>7, VariablesDoes, EvalAsks DEF asking
  <2>3. TokenInv'
    BY <1>1, <2>1, <2>2, TokenQuiet
  <2> QED  BY <1>1, <1>7, <2>3, VariablesTyped, VariablesKeeps DEF IInv
<1>8. CASE OnReceive
  BY <1>1, <1>8, OnReceiveTyped, OnReceiveToken, OnReceiveKeeps DEF IInv
<1>9. CASE Stop
  BY <1>1, <1>9, StopTyped, StopToken, StopKeeps DEF IInv
<1>10. CASE LuaReceive
  BY <1>1, <1>10, LuaReceiveTyped, LuaReceiveToken, LuaReceiveKeeps DEF IInv
<1>11. CASE UNCHANGED vars
  <2>1. UNCHANGED <<lua, fromLua, breakNotify, stopped, handles, asking>>
    BY <1>11 DEF vars
  <2>2. /\ UNCHANGED <<traces, files, stops, running, stopped, fromLua, breakNotify,
                       currentFrameId, requests, toLua, handles, evalIdCount, waiting>>
    BY <1>11 DEF vars, lua, asking
  <2>3. EvalTypes'
    BY <1>1, <2>2 DEF TypeOK, EvalTypes
  <2>4. FramesInv'
    BY <1>1, <2>2, <2>3, OtherStep DEF FramesInv, TypeOK
  <2> QED  BY <1>1, <2>1, <2>4, QuietStep DEF IInv
<1> QED  BY <1>2, <1>3, <1>4, <1>5, <1>6, <1>7, <1>8, <1>9, <1>10, <1>11 DEF Next

LEMMA IInvHolds == Spec => []IInv
<1>1. Init => IInv
  BY InitIInv
<1>2. IInv /\ [Next]_vars => IInv'
  BY NextIInv
<1> QED  BY <1>1, <1>2, PTL DEF Spec

\* The variables keep their types: the debug adapter's, the messages and VS Code's.
THEOREM FramesTypes == Spec => []TypeOK
<1>1. IInv => TypeOK
  BY DEF IInv, FramesInv
<1> QED  BY <1>1, IInvHolds, PTL

\* stackTraceRequest: for any stacks and files and however its waits for findFile
\* interleave with other traces, searches and stops, a trace lists the frames of
\* the stop it was asked for, each with the file VS Code finds for it.
THEOREM TracesShowTheirStop == Spec => []FramesOfStop
<1>1. IInv => FramesOfStop
  <2> SUFFICES ASSUME IInv, NEW t \in ToSet(traces)
               PROVE  /\ t.next <= Len(stops[t.stop]) + 1
                      /\ DOMAIN t.turns = 1 .. t.next - 1
                      /\ \A i \in DOMAIN t.turns : t.turns[i] = Listed(stops[t.stop], i)
    BY DEF FramesOfStop
  <2>1. stops \in Seq(Stacks) /\ TracesInv(stops, traces, searches)
    BY DEF IInv, FramesInv, TypeOK
  <2>2. TraceSoFar(stops, t)
    BY <2>1, LenProperties DEF TracesInv, TraceInv, ToSet
  <2>3. t.turns \in Seq(Seq(Shown)) /\ Len(t.turns) = t.next - 1 /\ t.stop \in 1 .. Len(stops)
    BY <2>2 DEF TraceSoFar, TraceType
  <2>4. DOMAIN t.turns = 1 .. t.next - 1
    BY <2>3, LenProperties
  <2>5. Len(stops[t.stop]) \in Nat
    BY <2>1, <2>3, StopsAreStacks, LenProperties
  <2> QED  BY <2>2, <2>4, <2>5 DEF TraceSoFar
<1> QED  BY <1>1, IInvHolds, PTL

\* eval and the listeners on onEvalRsp: a variable under the frame in focus shows its
\* own value in that frame at that stop, whatever is asked, answered or run between.
THEOREM VariablesShowTheirFrame == Spec => []VariablesOfFrame
<1>1. IInv => VariablesOfFrame
  <2> SUFFICES ASSUME IInv, NEW node \in ToSet(handles)
               PROVE  node.sure => node.value.at = node.root /\ node.value.expr = node.path
    BY DEF VariablesOfFrame
  <2>1. handles \in Seq(NodeType) /\ HandlesInv
    BY DEF IInv, FramesInv, TypeOK, EvalTypes
  <2>2. NodeInv(node)
    BY <2>1, LenProperties DEF HandlesInv, ToSet
  <2> QED  BY <2>2 DEF NodeInv, OwnValue
<1> QED  BY <1>1, IInvHolds, PTL
===============================================================================

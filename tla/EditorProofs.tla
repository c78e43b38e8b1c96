------------------------------ MODULE EditorProofs ------------------------------
(***************************************************************************)
(* Editor and DocumentIndex, for all names, lines, documents, settings and *)
(* any number of lines: what the handlers answer about the symbol index    *)
(* agrees with the texts and with what other handlers answer.              *)
(*                                                                         *)
(* Everything rests on three invariants.  EditorInv: a document's symbols  *)
(* are those of a text of statements, and its module, until a rename       *)
(* replaces it, is a name.  BlockInv: the text is balanced.  IndexInv: the *)
(* module and the parameters, too, are those of the text.                  *)
(* From the first follows what is true of each symbol (SymbolAt): it lies  *)
(* on the line that declares it, its place holds the last word of its      *)
(* name, and its range begins before that and ends with its line or below. *)
(***************************************************************************)
EXTENDS Editor, SequenceTheorems, FiniteSetTheorems, WellFoundedInduction, TLAPS

-------------------------------------------------------------------------------
(* Sequences put together                                                  *)

\* A set of numbers has a least one.
LEMMA MinimumExists ==
  ASSUME NEW T, T \subseteq Nat, T # {}
  PROVE  \E x \in T : \A y \in T : x <= y
<1> DEFINE R == {ss \in Nat \X Nat : ss[1] < ss[2]}
<1>1. IsWellFoundedOn(R, Nat)
  <2>1. OpToRel(<, Nat) = R
    BY DEF OpToRel
  <2> QED  BY <2>1, NatLessThanWellFounded
<1>2. PICK x \in T : \A y \in T : ~ (<<y, x>> \in R)
  <2> HIDE DEF R
  <2> QED  BY <1>1, WFMin
<1>3. ASSUME NEW y \in T  PROVE x <= y
  <2>1. <<y, x>> \in Nat \X Nat /\ ~ (<<y, x>> \in R)
    BY <1>2
  <2>2. ~ (y < x)
    <3>1. <<y, x>>[1] = y /\ <<y, x>>[2] = x
      OBVIOUS
    <3> HIDE <1>2
    <3> QED  BY <2>1, <3>1
  <2> QED  BY <2>2
<1> QED  BY <1>3

\* Induction from 0 to n, for membership in a set.
LEMMA UpTo ==
  ASSUME NEW n \in Nat, NEW T, 0 \in T, \A i \in 1 .. n : i - 1 \in T => i \in T
  PROVE  \A i \in 0 .. n : i \in T
<1> DEFINE Bad == {i \in 0 .. n : i \notin T}
<1> SUFFICES ASSUME Bad # {} PROVE FALSE
  OBVIOUS
<1>1. PICK i \in Bad : \A j \in Bad : i <= j
  <2>1. Bad \subseteq Nat
    OBVIOUS
  <2> HIDE DEF Bad
  <2> QED  BY <2>1, MinimumExists
<1>2. i \in 1 .. n /\ i - 1 \in 0 .. n /\ i - 1 \notin Bad
  BY <1>1
<1> QED  BY <1>2

\* The running concatenations of a sequence of sequences.
Runs(f, seqs, n) == f[0] = <<>> /\ \A i \in 1 .. n : f[i] = f[i - 1] \o seqs[i]

LEMMA RunsExist ==
  ASSUME NEW n \in Nat, NEW seqs
  PROVE  \E f : f = [i \in 1 .. n |-> IF i = 1 THEN seqs[i] ELSE f[i - 1] \o seqs[i]]
<1> DEFINE P(m) == \E f : f = [i \in 1 .. m |-> IF i = 1 THEN seqs[i] ELSE f[i - 1] \o seqs[i]]
           T == {m \in 0 .. n : P(m)}
<1>1. P(0)
  <2> DEFINE f == [i \in {} |-> i]
  <2>1. f = [i \in 1 .. 0 |-> IF i = 1 THEN seqs[i] ELSE f[i - 1] \o seqs[i]]
    OBVIOUS
  <2> HIDE DEF f
  <2> QED  BY <2>1
<1>2. ASSUME NEW m \in 1 .. n, P(m - 1) PROVE P(m)
  <2>1. PICK f : f = [i \in 1 .. m - 1 |-> IF i = 1 THEN seqs[i] ELSE f[i - 1] \o seqs[i]]
    BY <1>2
  <2> DEFINE g == [i \in 1 .. m |-> IF i < m THEN f[i]
                                    ELSE IF i = 1 THEN seqs[i] ELSE f[i - 1] \o seqs[i]]
  <2>2. \A i \in 1 .. m - 1 : g[i] = f[i]
    OBVIOUS
  <2>3. g[m] = IF m = 1 THEN seqs[m] ELSE f[m - 1] \o seqs[m]
    OBVIOUS
  <2>4. g = [i \in 1 .. m |-> g[i]]
    OBVIOUS
  <2> HIDE DEF g
  <2>5. ASSUME NEW i \in 1 .. m PROVE g[i] = IF i = 1 THEN seqs[i] ELSE g[i - 1] \o seqs[i]
    <3>1. CASE i < m
      <4>1. i \in 1 .. m - 1 /\ (i # 1 => i - 1 \in 1 .. m - 1)
        BY <3>1
      <4>2. f[i] = IF i = 1 THEN seqs[i] ELSE f[i - 1] \o seqs[i]
        BY <2>1, <4>1
      <4> QED  BY <2>2, <4>1, <4>2
    <3>2. CASE i = m
      BY <2>2, <2>3, <3>2
    <3> QED  BY <3>1, <3>2
  <2>6. g = [i \in 1 .. m |-> IF i = 1 THEN seqs[i] ELSE g[i - 1] \o seqs[i]]
    BY <2>4, <2>5
  <2> QED  BY <2>6
<1> HIDE DEF P
<1>3. 0 \in T /\ \A i \in 1 .. n : i - 1 \in T => i \in T
  BY <1>1, <1>2
<1> HIDE DEF T
<1>4. n \in T
  BY <1>3, UpTo
<1>5. P(n)
  BY <1>4 DEF T
<1> QED  BY <1>5 DEF P

LEMMA RunsTyped ==
  ASSUME NEW n \in Nat, NEW S, NEW seqs \in [1 .. n -> Seq(S)], NEW f, Runs(f, seqs, n)
  PROVE  \A i \in 0 .. n : f[i] \in Seq(S)
<1> DEFINE T == {i \in 0 .. n : f[i] \in Seq(S)}
<1>1. 0 \in T
  <2>1. f[0] = <<>> /\ <<>> \in Seq(S)
    BY EmptySeq DEF Runs
  <2>2. f[0] \in Seq(S)
    BY Zenon, <2>1
  <2>3. 0 \in 0 .. n
    OBVIOUS
  <2> QED  BY Zenon, <2>2, <2>3
<1>2. ASSUME NEW i \in 1 .. n, i - 1 \in T PROVE i \in T
  <2>1. f[i] = f[i - 1] \o seqs[i] /\ f[i - 1] \in Seq(S) /\ seqs[i] \in Seq(S)
    BY <1>2 DEF Runs
  <2>2. f[i] \in Seq(S)
    BY Zenon, <2>1, ConcatProperties
  <2>3. i \in 0 .. n
    OBVIOUS
  <2> QED  BY Zenon, <2>2, <2>3
<1> HIDE DEF T
<1>3. \A i \in 0 .. n : i \in T
  BY <1>1, <1>2, UpTo
<1> QED  BY <1>3 DEF T

LEMMA FlattenRuns ==
  ASSUME NEW n \in Nat, NEW S, NEW seqs \in [1 .. n -> Seq(S)]
  PROVE  \E f : Runs(f, seqs, n) /\ f[n] = FlattenSeq(seqs)
<1>0. Len(seqs) = n
  BY LenProperties
<1>1. CASE n = 0
  <2> DEFINE f == [i \in {0} |-> <<>>]
  <2>1. FlattenSeq(seqs) = seqs /\ seqs = <<>>
    BY <1>0, <1>1 DEF FlattenSeq
  <2>2. f[0] = <<>>
    OBVIOUS
  <2> HIDE DEF f
  <2>3. Runs(f, seqs, n)
    BY <1>1, <2>2 DEF Runs
  <2> QED  BY <1>1, <2>1, <2>2, <2>3
<1>2. CASE n # 0
  <2> DEFINE Body(f) == [i \in 1 .. Len(seqs) |-> IF i = 1 THEN seqs[i] ELSE f[i - 1] \o seqs[i]]
             flatten == CHOOSE f : f = Body(f)
  <2>1. \E f : f = Body(f)
    BY <1>0, RunsExist
  <2>2. flatten = Body(flatten)
    <3> HIDE DEF Body
    <3> QED  BY <2>1
  <2>3. FlattenSeq(seqs) = flatten[n]
    BY <1>0, <1>2 DEF FlattenSeq
  <2> HIDE DEF flatten
  <2>4. \A i \in 1 .. n : flatten[i] = IF i = 1 THEN seqs[i] ELSE flatten[i - 1] \o seqs[i]
    BY <1>0, <2>2
  <2> DEFINE f == [i \in 0 .. n |-> IF i = 0 THEN <<>> ELSE flatten[i]]
  <2>5. f[0] = <<>> /\ \A i \in 1 .. n : f[i] = flatten[i]
    OBVIOUS
  <2> HIDE DEF f
  <2>6. ASSUME NEW i \in 1 .. n PROVE f[i] = f[i - 1] \o seqs[i]
    <3>1. CASE i = 1
      <4>1. f[i] = seqs[i] /\ f[i - 1] = <<>> /\ seqs[i] \in Seq(S)
        BY <2>4, <2>5, <3>1
      <4> QED  BY <4>1
    <3>2. CASE i # 1
      <4>1. i - 1 \in 1 .. n
        BY <3>2
      <4> QED  BY <2>4, <2>5, <3>2, <4>1
    <3> QED  BY <3>1, <3>2
  <2>7. f[n] = FlattenSeq(seqs)
    BY <1>2, <2>3, <2>5
  <2> QED  BY <2>5, <2>6, <2>7 DEF Runs
<1> QED  BY <1>1, <1>2

LEMMA FlattenTyped ==
  ASSUME NEW n \in Nat, NEW S, NEW seqs \in [1 .. n -> Seq(S)]
  PROVE  FlattenSeq(seqs) \in Seq(S)
BY FlattenRuns, RunsTyped

\* Each element of the whole is one of a part, and the other way round.
FromParts(f, seqs, n) ==
  \A m \in 1 .. Len(f[n]) : \E k \in 1 .. n : \E j \in 1 .. Len(seqs[k]) :
    m = Len(f[k - 1]) + j /\ f[n][m] = seqs[k][j]
HasParts(f, seqs, n) ==
  \A k \in 1 .. n : \A j \in 1 .. Len(seqs[k]) :
    /\ Len(f[k - 1]) + j \in 1 .. Len(f[n])
    /\ f[n][Len(f[k - 1]) + j] = seqs[k][j]

LEMMA RunsElements ==
  ASSUME NEW n \in Nat, NEW S, NEW seqs \in [1 .. n -> Seq(S)], NEW f, Runs(f, seqs, n)
  PROVE  FromParts(f, seqs, n)
<1> DEFINE P(i) == \A m \in 1 .. Len(f[i]) : \E k \in 1 .. i : \E j \in 1 .. Len(seqs[k]) :
                     m = Len(f[k - 1]) + j /\ f[i][m] = seqs[k][j]
           T == {i \in 0 .. n : P(i)}
<1>0. \A i \in 0 .. n : f[i] \in Seq(S)
  BY RunsTyped
<1>1. 0 \in T
  BY DEF Runs
<1>2. ASSUME NEW i \in 1 .. n, i - 1 \in T PROVE i \in T
  <2>0. i - 1 \in 0 .. n
    OBVIOUS
  <2> HIDE DEF T
  <2>1. f[i] = f[i - 1] \o seqs[i] /\ f[i - 1] \in Seq(S) /\ seqs[i] \in Seq(S)
    BY <1>0, <2>0 DEF Runs
  <2>5. P(i - 1)
    BY <1>2 DEF T
  <2>2. ASSUME NEW m \in 1 .. Len(f[i])
        PROVE  \E k \in 1 .. i : \E j \in 1 .. Len(seqs[k]) :
                 m = Len(f[k - 1]) + j /\ f[i][m] = seqs[k][j]
    <3>1. CASE m <= Len(f[i - 1])
      <4>1. m \in 1 .. Len(f[i - 1]) /\ f[i][m] = f[i - 1][m]
        BY <2>1, <3>1
      <4>2. PICK k \in 1 .. i - 1 : \E j \in 1 .. Len(seqs[k]) :
              m = Len(f[k - 1]) + j /\ f[i - 1][m] = seqs[k][j]
        BY <2>5, <4>1
      <4>3. k \in 1 .. i
        OBVIOUS
      <4> QED  BY <4>1, <4>2, <4>3
    <3>2. CASE m > Len(f[i - 1])
      <4> DEFINE j == m - Len(f[i - 1])
      <4>1. j \in 1 .. Len(seqs[i]) /\ f[i][m] = seqs[i][j] /\ m = Len(f[i - 1]) + j
        BY <2>1, <3>2
      <4> HIDE DEF j
      <4>2. i \in 1 .. i
        OBVIOUS
      <4> QED  BY <4>1, <4>2
    <3> QED  BY SMTT(20), <2>1, <3>1, <3>2, LenProperties
  <2>3. P(i)
    BY <2>2
  <2> QED  BY <2>3 DEF T
<1> HIDE DEF P
<1>3. 0 \in T /\ \A i \in 1 .. n : i - 1 \in T => i \in T
  BY <1>1, <1>2
<1> HIDE DEF T
<1>6. \A i \in 0 .. n : i \in T
  BY Zenon, <1>3, UpTo
<1>5. n \in T
  BY <1>6
<1>4. P(n)
  BY <1>5 DEF T
<1> QED  BY <1>4 DEF P, FromParts

\* What a run has, the later ones keep.
LEMMA RunsGrow ==
  ASSUME NEW n \in Nat, NEW S, NEW seqs \in [1 .. n -> Seq(S)], NEW f, Runs(f, seqs, n),
         NEW k \in 0 .. n
  PROVE  \A i \in k .. n : /\ Len(f[k]) <= Len(f[i])
                           /\ \A m \in 1 .. Len(f[k]) : f[i][m] = f[k][m]
<1> DEFINE P(i) == i >= k => /\ Len(f[k]) <= Len(f[i])
                             /\ \A m \in 1 .. Len(f[k]) : f[i][m] = f[k][m]
           T == {i \in 0 .. n : P(i)}
<1>0. \A i \in 0 .. n : f[i] \in Seq(S)
  BY RunsTyped
<1>1. 0 \in T
  <2>1. 0 >= k => k = 0
    OBVIOUS
  <2>2. f[k] \in Seq(S)
    BY <1>0
  <2> QED  BY <2>1, <2>2, LenProperties
<1>2. ASSUME NEW i \in 1 .. n, i - 1 \in T PROVE i \in T
  <2>0. i - 1 \in 0 .. n
    OBVIOUS
  <2>1. f[i] = f[i - 1] \o seqs[i] /\ f[i - 1] \in Seq(S) /\ seqs[i] \in Seq(S) /\ f[k] \in Seq(S)
    BY <1>0, <2>0 DEF Runs
  <2>2. CASE i = k
    BY <2>1, <2>2, LenProperties
  <2>3. CASE i > k
    <3>1. /\ Len(f[k]) <= Len(f[i - 1])
          /\ \A m \in 1 .. Len(f[k]) : f[i - 1][m] = f[k][m]
      BY <1>2, <2>3
    <3>2. /\ Len(f[i]) = Len(f[i - 1]) + Len(seqs[i])
          /\ \A m \in 1 .. Len(f[i - 1]) : f[i][m] = f[i - 1][m]
      BY <2>1, ConcatProperties, LenProperties
    <3>3. Len(f[i - 1]) \in Nat /\ Len(f[k]) \in Nat /\ Len(seqs[i]) \in Nat
      BY <2>1, LenProperties
    <3> QED  BY <3>1, <3>2, <3>3
  <2>4. CASE i < k
    BY <2>4
  <2> QED  BY <2>2, <2>3, <2>4
<1> HIDE DEF T
<1>3. \A i \in 0 .. n : i \in T
  BY <1>1, <1>2, UpTo
<1> QED  BY <1>3 DEF T

LEMMA RunsHave ==
  ASSUME NEW n \in Nat, NEW S, NEW seqs \in [1 .. n -> Seq(S)], NEW f, Runs(f, seqs, n)
  PROVE  HasParts(f, seqs, n)
<1> SUFFICES ASSUME NEW k \in 1 .. n, NEW j \in 1 .. Len(seqs[k])
             PROVE  /\ Len(f[k - 1]) + j \in 1 .. Len(f[n])
                    /\ f[n][Len(f[k - 1]) + j] = seqs[k][j]
  BY DEF HasParts
<1>1. f[k - 1] \in Seq(S) /\ f[k] \in Seq(S) /\ f[n] \in Seq(S) /\ seqs[k] \in Seq(S)
  BY RunsTyped
<1>2. f[k] = f[k - 1] \o seqs[k]
  BY DEF Runs
<1>3. Len(f[k]) <= Len(f[n]) /\ \A m \in 1 .. Len(f[k]) : f[n][m] = f[k][m]
  BY RunsGrow
<1>4. Len(f[k - 1]) + j \in 1 .. Len(f[k]) /\ f[k][Len(f[k - 1]) + j] = seqs[k][j]
  BY <1>1, <1>2
<1> QED  BY SMTT(20), <1>1, <1>3, <1>4

\* The elements of the whole are those of the parts.
LEMMA FlattenElements ==
  ASSUME NEW n \in Nat, NEW S, NEW seqs \in [1 .. n -> Seq(S)], NEW x
  PROVE  x \in ToSet(FlattenSeq(seqs)) <=> \E k \in 1 .. n : x \in ToSet(seqs[k])
<1>1. PICK f : Runs(f, seqs, n) /\ f[n] = FlattenSeq(seqs)
  BY FlattenRuns
<1>2. f[n] \in Seq(S) /\ \A k \in 1 .. n : seqs[k] \in Seq(S)
  BY <1>1, RunsTyped
<1>3. DOMAIN f[n] = 1 .. Len(f[n]) /\ \A k \in 1 .. n : DOMAIN seqs[k] = 1 .. Len(seqs[k])
  BY <1>2, LenProperties
<1>4. FromParts(f, seqs, n) /\ HasParts(f, seqs, n)
  BY <1>1, RunsElements, RunsHave
<1>5. ASSUME NEW m \in 1 .. Len(f[n]), x = f[n][m] PROVE \E k \in 1 .. n : x \in ToSet(seqs[k])
  <2>1. PICK k \in 1 .. n : \E j \in 1 .. Len(seqs[k]) : x = seqs[k][j]
    BY <1>4, <1>5 DEF FromParts
  <2> QED  BY <1>3, <2>1 DEF ToSet
<1>6. ASSUME NEW k \in 1 .. n, NEW j \in 1 .. Len(seqs[k]), x = seqs[k][j]
      PROVE  x \in ToSet(f[n])
  <2>1. Len(f[k - 1]) + j \in 1 .. Len(f[n]) /\ f[n][Len(f[k - 1]) + j] = seqs[k][j]
    BY <1>4 DEF HasParts
  <2> QED  BY <1>3, <1>6, <2>1 DEF ToSet
<1> QED  BY <1>1, <1>3, <1>5, <1>6 DEF ToSet

-------------------------------------------------------------------------------
(* The columns of a line                                                   *)

LEMMA LeastIs ==
  ASSUME NEW T, T \subseteq Nat, T # {}
  PROVE  Min(T) \in T /\ \A y \in T : Min(T) <= y
BY MinimumExists DEF Min

LEMMA ColumnIs ==
  ASSUME NEW S, NEW line \in Seq(S), NEW word
  PROVE  /\ Column(line, word) \in 0 .. Len(line)
         /\ Contains(line, word) => Column(line, word) # 0
         /\ Column(line, word) # 0 => /\ line[Column(line, word)] = word
                                      /\ \A k \in 1 .. Column(line, word) - 1 : line[k] # word
<1> DEFINE I == {i \in 1 .. Len(line) : line[i] = word}
<1>1. Column(line, word) = IF I # {} THEN Min(I) ELSE 0
  BY DEF Column, SelectInSeq
<1>2. Len(line) \in Nat /\ I \subseteq Nat
  BY LenProperties
<1>3. Contains(line, word) => I # {}
  BY DEF Contains
<1>4. ASSUME I # {} PROVE Min(I) \in I /\ \A y \in I : Min(I) <= y
  <2> HIDE DEF I
  <2> QED  BY <1>2, <1>4, LeastIs
<1>5. CASE I = {}
  BY <1>1, <1>2, <1>3, <1>5
<1>6. CASE I # {}
  <2> DEFINE c == Column(line, word)
  <2>1. c \in I /\ \A y \in I : c <= y
    BY <1>1, <1>4, <1>6
  <2> HIDE DEF c
  <2>2. c \in 1 .. Len(line) /\ line[c] = word
    BY <2>1
  <2>3. \A k \in 1 .. c - 1 : line[k] # word
    BY <1>2, <2>1, <2>2
  <2> QED  BY <1>2, <2>2, <2>3 DEF c
<1> QED  BY <1>5, <1>6

\* col are the columns of a line's names, and found are those names.
Columns(col, words, found) ==
  /\ found \in Seq(Names)
  /\ col \in [1 .. Len(found) -> 1 .. Len(words)]
  /\ \A k \in 1 .. Len(found) : found[k] = words[col[k]]
  /\ \A k, m \in 1 .. Len(found) : m < k => col[m] < col[k]
  /\ \A c \in 1 .. Len(words) : words[c] \in Names => \E k \in 1 .. Len(found) : col[k] = c

LEMMA NamesInColumns ==
  ASSUME NEW S, NEW words \in Seq(S)
  PROVE  \E col : Columns(col, words, NamesIn(words))
<1> DEFINE n == Len(words)
           seqs == [c \in 1 .. n |-> IF words[c] \in Names THEN <<words[c]>> ELSE <<>>]
           found == NamesIn(words)
<1>1. n \in Nat /\ DOMAIN words = 1 .. n
  BY LenProperties
<1>2. found = FlattenSeq(seqs)
  BY <1>1 DEF NamesIn
<1>3. seqs \in [1 .. n -> Seq(Names)]
  OBVIOUS
<1>4. \A c \in 1 .. n : /\ words[c] \in Names => seqs[c] = <<words[c]>>
                        /\ words[c] \notin Names => seqs[c] = <<>>
  OBVIOUS
<1>4a. \A c \in 1 .. n : /\ words[c] \in Names => Len(seqs[c]) = 1 /\ seqs[c][1] = words[c]
                         /\ words[c] \notin Names => Len(seqs[c]) = 0
  BY <1>4
<1> HIDE DEF n, seqs
<1>5. PICK f : Runs(f, seqs, n) /\ f[n] = FlattenSeq(seqs)
  BY <1>1, <1>3, FlattenRuns
<1>6. FromParts(f, seqs, n) /\ HasParts(f, seqs, n)
  BY <1>1, <1>3, <1>5, RunsElements, RunsHave
<1>7. \A i \in 0 .. n : f[i] \in Seq(Names) /\ Len(f[i]) \in Nat
  BY <1>1, <1>3, <1>5, RunsTyped, LenProperties
<1>8. found = f[n] /\ found \in Seq(Names) /\ Len(found) \in Nat
  BY <1>1, <1>2, <1>5, <1>7
<1> HIDE DEF found
<1> DEFINE At1(k, c) == words[c] \in Names /\ Len(f[c - 1]) + 1 = k
           col == [k \in 1 .. Len(found) |-> CHOOSE c \in 1 .. n : At1(k, c)]
<1>9. ASSUME NEW k \in 1 .. Len(found)
      PROVE  col[k] \in 1 .. n /\ At1(k, col[k]) /\ found[k] = words[col[k]]
  <2>1. PICK c \in 1 .. n : \E j \in 1 .. Len(seqs[c]) :
               k = Len(f[c - 1]) + j /\ f[n][k] = seqs[c][j]
    BY <1>6, <1>8 DEF FromParts
  <2>2. words[c] \in Names
    BY <1>4a, <2>1
  <2>3. At1(k, c)
    BY <1>4a, <2>1, <2>2
  <2>4. col[k] \in 1 .. n /\ At1(k, col[k])
    <3>1. col[k] = CHOOSE cc \in 1 .. n : At1(k, cc)
      OBVIOUS
    <3> HIDE DEF col, At1
    <3> QED  BY <2>3, <3>1
  <2> HIDE DEF col
  <2>5. 1 \in 1 .. Len(seqs[col[k]]) /\ seqs[col[k]][1] = words[col[k]]
    BY <1>4a, <2>4
  <2>6. f[n][Len(f[col[k] - 1]) + 1] = seqs[col[k]][1]
    BY <1>6, <2>4, <2>5 DEF HasParts
  <2> QED  BY <1>8, <2>4, <2>5, <2>6
<1>10. col \in [1 .. Len(found) -> 1 .. n]
  <2>1. \A k \in 1 .. Len(found) : col[k] \in 1 .. n
    BY <1>9
  <2>2. col = [k \in 1 .. Len(found) |-> col[k]]
    OBVIOUS
  <2> HIDE DEF col
  <2> QED  BY <2>1, <2>2
<1> HIDE DEF col
<1>11. ASSUME NEW k \in 1 .. Len(found), NEW m \in 1 .. Len(found), m < k  PROVE col[m] < col[k]
  <2>2. /\ col[k] \in 1 .. n /\ Len(f[col[k] - 1]) + 1 = k
        /\ col[m] \in 1 .. n /\ Len(f[col[m] - 1]) + 1 = m
    BY <1>9
  <2>3. ASSUME col[k] <= col[m] PROVE Len(f[col[k] - 1]) <= Len(f[col[m] - 1])
    <3>1. col[k] - 1 \in 0 .. n /\ col[m] - 1 \in col[k] - 1 .. n
      BY SMTT(20), <1>1, <2>2, <2>3
    <3> QED  BY <1>1, <1>3, <1>5, <3>1, RunsGrow
  <2>4. Len(f[col[k] - 1]) \in Nat /\ Len(f[col[m] - 1]) \in Nat
    BY SMTT(20), <1>1, <1>7, <2>2
  <2> QED  BY SMTT(20), <1>8, <1>11, <2>2, <2>3, <2>4
<1>12. ASSUME NEW c \in 1 .. n, words[c] \in Names  PROVE \E k \in 1 .. Len(found) : col[k] = c
  <2> DEFINE k == Len(f[c - 1]) + 1
  <2>1. 1 \in 1 .. Len(seqs[c])
    BY <1>4a, <1>12
  <2>2. k \in 1 .. Len(found)
    BY <1>6, <1>8, <2>1 DEF HasParts
  <2>3. c - 1 \in 0 .. n /\ c \in 0 .. n /\ Len(f[c - 1]) \in Nat
    BY <1>1, <1>7
  <2> HIDE DEF k
  <2>4. col[k] \in 1 .. n /\ Len(f[col[k] - 1]) + 1 = k /\ words[col[k]] \in Names
    BY <1>9, <2>2
  <2>5. \A d \in 1 .. n : words[d] \in Names => Len(f[d]) = Len(f[d - 1]) + 1
    <3> SUFFICES ASSUME NEW d \in 1 .. n, words[d] \in Names PROVE Len(f[d]) = Len(f[d - 1]) + 1
      OBVIOUS
    <3>1. f[d] = f[d - 1] \o seqs[d] /\ seqs[d] \in Seq(Names) /\ Len(seqs[d]) = 1
      BY <1>3, <1>4a, <1>5 DEF Runs
    <3>2. d - 1 \in 0 .. n
      BY <1>1
    <3>3. f[d - 1] \in Seq(Names) /\ Len(f[d - 1]) \in Nat
      BY <1>7, <3>2
    <3>4. Len(f[d]) = Len(f[d - 1]) + Len(seqs[d])
      <4>1. Len(f[d - 1] \o seqs[d]) = Len(f[d - 1]) + Len(seqs[d])
        BY <3>1, <3>3, ConcatProperties
      <4> QED  BY Zenon, <3>1, <4>1
    <3> QED  BY <3>1, <3>3, <3>4
  <2>6. \A d, e \in 1 .. n : d < e => Len(f[d]) <= Len(f[e - 1])
    <3> SUFFICES ASSUME NEW d \in 1 .. n, NEW e \in 1 .. n, d < e PROVE Len(f[d]) <= Len(f[e - 1])
      OBVIOUS
    <3>1. d \in 0 .. n /\ e - 1 \in d .. n
      BY <1>1
    <3> QED  BY <1>1, <1>3, <1>5, <3>1, RunsGrow
  <2> DEFINE b == col[k]
  <2>7. Len(f[b - 1]) = Len(f[c - 1]) /\ b \in 1 .. n /\ Len(f[b - 1]) \in Nat
    BY SMTT(20), <1>1, <1>7, <2>3, <2>4 DEF k
  <2>8. Len(f[b]) = Len(f[b - 1]) + 1 /\ Len(f[c]) = Len(f[c - 1]) + 1
    BY <1>12, <2>4, <2>5
  <2> HIDE DEF b
  <2>9. ~(b < c)
    BY <2>3, <2>6, <2>7, <2>8
  <2>10. ~(c < b)
    BY <2>3, <2>6, <2>7, <2>8
  <2>11. b = c
    BY <2>7, <2>9, <2>10
  <2> QED  BY <2>2, <2>11 DEF b
<1>13. /\ \A k \in 1 .. Len(found) : found[k] = words[col[k]]
       /\ \A k, m \in 1 .. Len(found) : m < k => col[m] < col[k]
  BY <1>9, <1>11
<1>14. Columns(col, words, found)
  BY Zenon, <1>8, <1>10, <1>12, <1>13 DEF Columns, n
<1> QED  BY Zenon, <1>14 DEF found

-------------------------------------------------------------------------------
(* findNamePosition: the first place from a place on                       *)

LEMMA FirstPlace ==
  ASSUME NEW T, T \subseteq Nat \X Nat, T # {}
  PROVE  \E p \in T : \A q \in T : ~Before(q, p)
<1> DEFINE Is == {p[1] : p \in T}
<1>1. PICK i \in Is : \A j \in Is : i <= j
  <2>1. Is \subseteq Nat /\ Is # {}
    OBVIOUS
  <2> HIDE DEF Is
  <2> QED  BY <2>1, MinimumExists
<1> DEFINE Cs == {c \in Nat : <<i, c>> \in T}
<1>2. PICK c \in Cs : \A d \in Cs : c <= d
  <2>1. PICK p \in T : p[1] = i
    BY <1>1
  <2>2. p = <<i, p[2]>> /\ p[2] \in Nat
    BY <2>1
  <2>3. Cs \subseteq Nat /\ Cs # {}
    BY <2>1, <2>2
  <2> HIDE DEF Cs
  <2> QED  BY <2>3, MinimumExists
<1>3. ASSUME NEW q \in T  PROVE ~Before(q, <<i, c>>)
  <2>1. q[1] \in Is /\ q = <<q[1], q[2]>> /\ q[1] \in Nat /\ q[2] \in Nat
    OBVIOUS
  <2>2. i <= q[1] /\ i \in Nat /\ c \in Nat
    BY <1>1, <2>1
  <2>3. q[1] = i => c <= q[2]
    BY <1>2, <2>1
  <2> QED  BY <2>1, <2>2, <2>3 DEF Before
<1> QED  BY <1>2, <1>3

\* The places of a text.
LEMMA PositionsAre ==
  ASSUME NEW text, \A i \in DOMAIN text : i \in Nat /\ DOMAIN text[i] \subseteq Nat
  PROVE  /\ \A p : p \in Positions(text) <=>
              \E i \in DOMAIN text : \E c \in DOMAIN text[i] : p = <<i, c>>
         /\ Positions(text) \subseteq Nat \X Nat
<1>1. \A p : p \in Positions(text) <=> \E i \in DOMAIN text : p \in {i} \X DOMAIN text[i]
  BY DEF Positions
<1>2. \A p : \A i \in DOMAIN text : p \in {i} \X DOMAIN text[i]
                                     <=> \E c \in DOMAIN text[i] : p = <<i, c>>
  OBVIOUS
<1>3. \A p : p \in Positions(text) <=>
              \E i \in DOMAIN text : \E c \in DOMAIN text[i] : p = <<i, c>>
  BY <1>1, <1>2
<1> QED  BY <1>3

Texted(text) == text \in Seq(Seq(STRING))

LEMMA TextIs ==
  ASSUME NEW text, Texted(text)
  PROVE  /\ Len(text) \in Nat /\ DOMAIN text = 1 .. Len(text)
         /\ \A i \in DOMAIN text : /\ i \in Nat /\ text[i] \in Seq(STRING) /\ Len(text[i]) \in Nat
                                   /\ DOMAIN text[i] = 1 .. Len(text[i])
         /\ Positions(text) \subseteq Nat \X Nat
         /\ \A i \in DOMAIN text : \A c \in 1 .. Len(text[i]) : <<i, c>> \in Positions(text)
         /\ \A p \in Positions(text) : /\ p = <<p[1], p[2]>>
                                       /\ p[1] \in DOMAIN text
                                       /\ p[2] \in 1 .. Len(text[p[1]])
<1>1. Len(text) \in Nat /\ DOMAIN text = 1 .. Len(text)
  BY LenProperties DEF Texted
<1>2. \A i \in DOMAIN text : i \in Nat /\ text[i] \in Seq(STRING)
  BY <1>1, ElementOfSeq DEF Texted
<1>3. \A i \in DOMAIN text : Len(text[i]) \in Nat /\ DOMAIN text[i] = 1 .. Len(text[i])
  BY <1>2, LenProperties
<1>4. \A i \in DOMAIN text : DOMAIN text[i] \subseteq Nat
  BY <1>3
<1>5. Positions(text) \subseteq Nat \X Nat
  BY <1>2, <1>4, PositionsAre
<1>6. \A p : p \in Positions(text) <=>
              \E i \in DOMAIN text : \E c \in DOMAIN text[i] : p = <<i, c>>
  BY <1>2, <1>4, PositionsAre
<1> QED  BY <1>1, <1>2, <1>3, <1>5, <1>6

LEMMA OneWord ==
  ASSUME NEW S, NEW line \in Seq(S), NEW c \in 1 .. Len(line)
  PROVE  Words(line, c, 1) = <<line[c]>>
<1>1. Len(line) \in Nat
  BY LenProperties
<1>2. Words(line, c, 1) = SubSeq(line, c, c)
  BY <1>1 DEF Words
<1> QED  BY <1>1, <1>2

LEMMA OccurrencesOfOne ==
  ASSUME NEW text, Texted(text), NEW name, NEW p
  PROVE  p \in Occurrences(text, <<name>>) <=> p \in Positions(text) /\ text[p[1]][p[2]] = name
<1> SUFFICES ASSUME p \in Positions(text)
             PROVE  Words(text[p[1]], p[2], Len(<<name>>)) = <<name>> <=> text[p[1]][p[2]] = name
  BY DEF Occurrences
<1>1. text[p[1]] \in Seq(STRING) /\ p[2] \in 1 .. Len(text[p[1]])
  BY TextIs
<1>2. Words(text[p[1]], p[2], 1) = <<text[p[1]][p[2]]>>
  BY <1>1, OneWord
<1> QED  BY <1>2

\* p is an occurrence from start on, and not one behind q.
IsFound(p, text, name, start, q) ==
  /\ p \in Positions(text) /\ text[p[1]][p[2]] = name
  /\ ~Before(p, start) /\ ~Before(q, p)

\* findNamePosition finds what there is to find, and the first of it.
LEMMA Found ==
  ASSUME NEW text, Texted(text), NEW name, NEW start,
         NEW q \in Occurrences(text, <<name>>), ~Before(q, start)
  PROVE  IsFound(FindNamePosition(text, <<name>>, start), text, name, start, q)
<1> DEFINE found == {p \in Occurrences(text, <<name>>) : ~Before(p, start)}
           p == FindNamePosition(text, <<name>>, start)
<1>1. q \in found
  OBVIOUS
<1>2. found \subseteq Nat \X Nat
  BY TextIs DEF Occurrences
<1>3. p = CHOOSE r \in found : \A s \in found : ~Before(s, r)
  BY <1>1 DEF FindNamePosition
<1> HIDE DEF p
<1>4. p \in found /\ \A s \in found : ~Before(s, p)
  <2> HIDE DEF found
  <2>1. \E r \in found : \A s \in found : ~Before(s, r)
    BY <1>1, <1>2, FirstPlace
  <2> QED  BY <1>3, <2>1
<1>5. p \in Occurrences(text, <<name>>) /\ ~Before(p, start) /\ ~Before(q, p)
  BY <1>1, <1>4
<1>6. p \in Positions(text) /\ text[p[1]][p[2]] = name
  BY <1>5, OccurrencesOfOne
<1> QED  BY <1>5, <1>6 DEF p, IsFound

-------------------------------------------------------------------------------
(* Names placed one behind another                                         *)

Follows(f, text, names, start, k) ==
  FindNamePosition(text, <<names[k]>>,
    IF k = 1 THEN start ELSE <<f[k - 1][1], f[k - 1][2] + 1>>)

IsPlaces(f, n, text, names, start) == f = [k \in 1 .. n |-> Follows(f, text, names, start, k)]

LEMMA PlacesExist ==
  ASSUME NEW n \in Nat, NEW text, NEW names, NEW start
  PROVE  \E f : IsPlaces(f, n, text, names, start)
<1> SUFFICES \E f : f = [k \in 1 .. n |-> Follows(f, text, names, start, k)]
  BY DEF IsPlaces
<1> DEFINE P(m) == \E f : f = [k \in 1 .. m |-> Follows(f, text, names, start, k)]
           T == {m \in 0 .. n : P(m)}
<1>1. P(0)
  <2> DEFINE f == [i \in {} |-> i]
  <2>1. f = [k \in 1 .. 0 |-> Follows(f, text, names, start, k)]
    OBVIOUS
  <2> HIDE DEF f
  <2> QED  BY <2>1
<1>2. ASSUME NEW m \in 1 .. n, P(m - 1) PROVE P(m)
  <2>1. PICK f : f = [k \in 1 .. m - 1 |-> Follows(f, text, names, start, k)]
    BY <1>2
  <2> DEFINE g == [k \in 1 .. m |-> IF k < m THEN f[k] ELSE Follows(f, text, names, start, k)]
  <2>2. \A k \in 1 .. m - 1 : g[k] = f[k]
    OBVIOUS
  <2>3. g[m] = Follows(f, text, names, start, m)
    OBVIOUS
  <2>4. g = [k \in 1 .. m |-> g[k]]
    OBVIOUS
  <2> HIDE DEF g
  <2>5. ASSUME NEW k \in 1 .. m PROVE g[k] = Follows(g, text, names, start, k)
    <3>0. k # 1 => g[k - 1] = f[k - 1]
      <4>1. k # 1 => k - 1 \in 1 .. m - 1
        OBVIOUS
      <4> QED  BY <2>2, <4>1
    <3>1. Follows(g, text, names, start, k) = Follows(f, text, names, start, k)
      <4>1. CASE k = 1
        BY <4>1 DEF Follows
      <4>2. CASE k # 1
        BY Zenon, <3>0, <4>2 DEF Follows
      <4> QED  BY <4>1, <4>2
    <3>2. CASE k < m
      <4>1. k \in 1 .. m - 1
        BY <3>2
      <4>2. f[k] = Follows(f, text, names, start, k)
        BY <2>1, <4>1
      <4> QED  BY <2>2, <3>1, <4>1, <4>2
    <3>3. CASE k = m
      BY <2>3, <3>1, <3>3
    <3> QED  BY <3>2, <3>3
  <2>6. g = [k \in 1 .. m |-> Follows(g, text, names, start, k)]
    BY <2>4, <2>5
  <2> QED  BY <2>6
<1> HIDE DEF P
<1>3. 0 \in T /\ \A i \in 1 .. n : i - 1 \in T => i \in T
  BY <1>1, <1>2
<1> HIDE DEF T
<1>4. \A i \in 0 .. n : i \in T
  BY <1>3, UpTo
<1>5. P(n)
  BY <1>4 DEF T
<1> QED  BY <1>5 DEF P

LEMMA PlacesAre ==
  ASSUME NEW text, NEW names \in Seq(Names), NEW start
  PROVE  /\ DOMAIN Places(text, names, start) = 1 .. Len(names)
         /\ \A k \in 1 .. Len(names) :
              Places(text, names, start)[k]
                = Follows(Places(text, names, start), text, names, start, k)
<1> DEFINE Body(f) == [k \in DOMAIN names |-> Follows(f, text, names, start, k)]
           place == CHOOSE f : f = Body(f)
<1>1. Len(names) \in Nat /\ DOMAIN names = 1 .. Len(names)
  BY LenProperties
<1>2. \E f : f = Body(f)
  <2>1. \E f : IsPlaces(f, Len(names), text, names, start)
    BY <1>1, PlacesExist
  <2> QED  BY Zenon, <1>1, <2>1 DEF IsPlaces
<1>3. Places(text, names, start) = place
  BY DEF Places, Follows
<1>4. place = Body(place)
  <2> HIDE DEF Body
  <2> QED  BY <1>2
<1> HIDE DEF place
<1>5. DOMAIN place = 1 .. Len(names) /\ \A k \in 1 .. Len(names) : place[k] = Follows(place, text, names, start, k)
  BY <1>1, <1>4
<1> QED  BY <1>3, <1>5

\* Names that stand in a line in their order are found there, the first from
\* column c0 on, each not behind its own column.
InOrder(text, i, names, col, c0) ==
  /\ Texted(text) /\ i \in DOMAIN text /\ names \in Seq(Names)
  /\ col \in [1 .. Len(names) -> 1 .. Len(text[i])]
  /\ \A k \in 1 .. Len(names) : names[k] = text[i][col[k]]
  /\ \A k, m \in 1 .. Len(names) : m < k => col[m] < col[k]
  /\ c0 \in Nat /\ (Len(names) # 0 => c0 <= col[1])

PlacedBy(place, text, i, names, col, c0, k) ==
  /\ place[k] \in Positions(text) /\ place[k][1] = i
  /\ text[i][place[k][2]] = names[k]
  /\ (IF k = 1 THEN c0 ELSE place[k - 1][2] + 1) <= place[k][2]
  /\ place[k][2] <= col[k]
  /\ \A c \in (IF k = 1 THEN c0 ELSE place[k - 1][2] + 1) .. place[k][2] - 1 :
       c \in 1 .. Len(text[i]) => text[i][c] # names[k]

LEMMA PlaceFound ==
  ASSUME NEW text, NEW i, Texted(text), i \in DOMAIN text,
         NEW c \in Nat, NEW d \in 1 .. Len(text[i]), c <= d, NEW name, text[i][d] = name
  PROVE  LET p == FindNamePosition(text, <<name>>, <<i, c>>)
         IN /\ p \in Positions(text) /\ p[1] = i /\ text[i][p[2]] = name
            /\ p[2] \in Nat /\ c <= p[2] /\ p[2] <= d
            /\ \A e \in c .. p[2] - 1 : e \in 1 .. Len(text[i]) => text[i][e] # name
<1> DEFINE p == FindNamePosition(text, <<name>>, <<i, c>>)
<1>1. /\ i \in Nat /\ Len(text[i]) \in Nat /\ <<i, d>> \in Positions(text)
      /\ \A e \in 1 .. Len(text[i]) : <<i, e>> \in Positions(text)
  BY TextIs
<1>2. \A e \in 1 .. Len(text[i]) : text[i][e] = name => <<i, e>> \in Occurrences(text, <<name>>)
  BY <1>1, OccurrencesOfOne
<1>3. ASSUME NEW e \in 1 .. Len(text[i]), c <= e, text[i][e] = name
      PROVE  /\ p \in Positions(text) /\ text[p[1]][p[2]] = name
             /\ ~Before(p, <<i, c>>) /\ ~Before(<<i, e>>, p)
  <2>1. <<i, e>> \in Occurrences(text, <<name>>)
    BY <1>2, <1>3
  <2>2. ~Before(<<i, e>>, <<i, c>>)
    BY <1>1, <1>3 DEF Before
  <2>3. IsFound(p, text, name, <<i, c>>, <<i, e>>)
    BY <2>1, <2>2, Found
  <2> QED  BY <2>3 DEF IsFound
<1> HIDE DEF p
<1>4. /\ p \in Positions(text) /\ text[p[1]][p[2]] = name
      /\ ~Before(p, <<i, c>>) /\ ~Before(<<i, d>>, p)
  BY <1>3
<1>5. p[1] \in Nat /\ p[2] \in Nat /\ p[2] \in 1 .. Len(text[p[1]])
  BY <1>4, TextIs
<1>6. p[1] = i /\ c <= p[2] /\ p[2] <= d
  BY <1>1, <1>4, <1>5 DEF Before
<1>7. ASSUME NEW e \in c .. p[2] - 1, e \in 1 .. Len(text[i]), text[i][e] = name PROVE FALSE
  <2>1. ~Before(<<i, e>>, p)
    BY <1>3, <1>5, <1>7
  <2> QED  BY <1>1, <1>5, <1>6, <1>7, <2>1 DEF Before
<1> QED  BY <1>4, <1>5, <1>6, <1>7 DEF p

LEMMA PlacesFound ==
  ASSUME NEW text, NEW i, NEW names, NEW col, NEW c0, InOrder(text, i, names, col, c0)
  PROVE  \A k \in 1 .. Len(names) :
           PlacedBy(Places(text, names, <<i, c0>>), text, i, names, col, c0, k)
<1> DEFINE place == Places(text, names, <<i, c0>>)
           n == Len(names)
           P(k) == PlacedBy(place, text, i, names, col, c0, k)
           T == {k \in 0 .. n : k = 0 \/ P(k)}
<1>1. names \in Seq(Names) /\ n \in Nat
  BY LenProperties DEF InOrder
<1>2. \A k \in 1 .. n : place[k] = Follows(place, text, names, <<i, c0>>, k)
  BY <1>1, PlacesAre
<1> HIDE DEF place
<1>3. ASSUME NEW k \in 1 .. n, k # 1 => P(k - 1) PROVE P(k)
  <2> DEFINE c == IF k = 1 THEN c0 ELSE place[k - 1][2] + 1
  <2>1. place[k] = FindNamePosition(text, <<names[k]>>, <<i, c>>)
    <3>1. CASE k = 1
      BY <1>2, <3>1 DEF Follows
    <3>2. CASE k # 1
      <4>1. place[k - 1][1] = i
        BY <1>3, <3>2 DEF PlacedBy
      <4>2. place[k] = FindNamePosition(text, <<names[k]>>, <<place[k - 1][1], place[k - 1][2] + 1>>)
        BY <1>2, <3>2 DEF Follows
      <4> QED  BY <3>2, <4>1, <4>2
    <3> QED  BY <3>1, <3>2
  <2>2. col[k] \in 1 .. Len(text[i]) /\ text[i][col[k]] = names[k] /\ Len(text[i]) \in Nat
    BY TextIs DEF InOrder
  <2>3. c \in Nat /\ c <= col[k]
    <3>1. CASE k = 1
      BY <3>1 DEF InOrder
    <3>2. CASE k # 1
      <4>1. place[k - 1] \in Positions(text) /\ place[k - 1][2] <= col[k - 1]
        BY <1>3, <3>2 DEF PlacedBy
      <4>2. place[k - 1][2] \in Nat
        BY <4>1, TextIs DEF InOrder
      <4>3. k - 1 \in 1 .. n /\ k - 1 < k
        BY <1>1, <3>2
      <4>4. col[k - 1] < col[k] /\ col[k - 1] \in 1 .. Len(text[i])
        BY <4>3 DEF InOrder
      <4> QED  BY SMTT(20), <2>2, <3>2, <4>1, <4>2, <4>4
    <3> QED  BY <3>1, <3>2
  <2> HIDE DEF c
  <2>4. Texted(text) /\ i \in DOMAIN text
    BY DEF InOrder
  <2>5. /\ place[k] \in Positions(text) /\ place[k][1] = i /\ text[i][place[k][2]] = names[k]
        /\ c <= place[k][2] /\ place[k][2] <= col[k]
        /\ \A e \in c .. place[k][2] - 1 : e \in 1 .. Len(text[i]) => text[i][e] # names[k]
    BY <2>1, <2>2, <2>3, <2>4, PlaceFound
  <2> QED  BY <2>5 DEF c, PlacedBy
<1> HIDE DEF P
<1>4. 0 \in T /\ \A k \in 1 .. n : k - 1 \in T => k \in T
  <2>1. ASSUME NEW k \in 1 .. n, k - 1 \in T PROVE k \in T
    <3>1. k # 1 => P(k - 1)
      BY <2>1
    <3> QED  BY <1>3, <3>1
  <2> QED  BY <1>1, <2>1
<1> HIDE DEF T
<1>5. \A k \in 0 .. n : k \in T
  BY <1>1, <1>4, UpTo
<1>6. \A k \in 1 .. n : P(k)
  BY <1>1, <1>5 DEF T
<1> QED  BY <1>6 DEF P, place

\* If the names stand nowhere else before, each is found in its own column.
LEMMA PlacesExact ==
  ASSUME NEW text, NEW i, NEW names, NEW col, NEW c0, InOrder(text, i, names, col, c0),
         \A k \in 1 .. Len(names) : \A e \in c0 .. col[k] :
           e \in 1 .. Len(text[i]) /\ text[i][e] = names[k]
             => \E m \in 1 .. Len(names) : col[m] = e
  PROVE  \A k \in 1 .. Len(names) : Places(text, names, <<i, c0>>)[k] = <<i, col[k]>>
<1> DEFINE place == Places(text, names, <<i, c0>>)
           n == Len(names)
           T == {k \in 0 .. n : k = 0 \/ place[k] = <<i, col[k]>>}
<1>1. /\ Texted(text) /\ i \in DOMAIN text /\ n \in Nat /\ c0 \in Nat
      /\ \A k \in 1 .. n : col[k] \in 1 .. Len(text[i])
      /\ \A k, m \in 1 .. n : m < k => col[m] < col[k]
  BY LenProperties DEF InOrder
<1>2. \A k \in 1 .. n : PlacedBy(place, text, i, names, col, c0, k)
  BY PlacesFound
<1> HIDE DEF place
<1>3. ASSUME NEW k \in 1 .. n, k # 1 => place[k - 1] = <<i, col[k - 1]>>
      PROVE  place[k] = <<i, col[k]>>
  <2>1. /\ place[k] \in Positions(text) /\ place[k][1] = i
        /\ text[i][place[k][2]] = names[k] /\ place[k][2] <= col[k]
    BY <1>2 DEF PlacedBy
  <2>2. place[k] = <<i, place[k][2]>> /\ place[k][2] \in 1 .. Len(text[i]) /\ Len(text[i]) \in Nat
    BY <1>1, <2>1, TextIs
  <2>3. c0 <= place[k][2]
    <3>1. CASE k = 1
      BY <1>2, <3>1 DEF PlacedBy
    <3>2. CASE k # 1
      <4>1. k - 1 \in 1 .. n /\ 1 \in 1 .. n
        BY <1>1, <3>2
      <4>2. c0 <= col[1]
        BY <1>1, <4>1 DEF InOrder
      <4>3. col[1] <= col[k - 1]
        BY <1>1, <4>1
      <4>4. place[k - 1][2] + 1 <= place[k][2] /\ place[k - 1][2] = col[k - 1]
        BY <1>2, <1>3, <3>2 DEF PlacedBy
      <4> QED  BY SMTT(20), <1>1, <2>2, <4>1, <4>2, <4>3, <4>4
    <3> QED  BY <3>1, <3>2
  <2>4. PICK m \in 1 .. n : col[m] = place[k][2]
    <3>1. place[k][2] \in c0 .. col[k]
      BY <1>1, <2>1, <2>2, <2>3
    <3> QED  BY <2>1, <2>2, <3>1
  <2>5. ~(m > k)
    BY <1>1, <2>1, <2>2, <2>4
  <2>6. ASSUME m < k PROVE FALSE
    <3>1. k # 1 /\ k - 1 \in 1 .. n
      BY <1>1, <2>6
    <3>2. col[k - 1] + 1 <= place[k][2]
      BY <1>2, <1>3, <3>1 DEF PlacedBy
    <3>3. m = k - 1 \/ col[m] < col[k - 1]
      <4>1. m = k - 1 \/ m < k - 1
        <5>1. m \in Int /\ k \in Int
          BY <1>1
        <5> QED  BY <2>6, <5>1
      <4> QED  BY Zenon, <1>1, <3>1, <4>1
    <3> QED  BY <1>1, <2>2, <2>4, <3>1, <3>2, <3>3
  <2>7. m = k
    BY <2>5, <2>6
  <2> QED  BY <2>2, <2>4, <2>7
<1>4. 0 \in T /\ \A k \in 1 .. n : k - 1 \in T => k \in T
  <2>1. ASSUME NEW k \in 1 .. n, k - 1 \in T PROVE k \in T
    BY <1>3, <2>1
  <2> QED  BY SMTT(20), <1>1, <2>1
<1> HIDE DEF T
<1>5. \A k \in 0 .. n : k \in T
  BY <1>1, <1>4, UpTo
<1> QED  BY <1>1, <1>5 DEF T, place

-------------------------------------------------------------------------------
(* Statements                                                              *)

LEMMA KnownWords ==
  /\ "(" \in Punctuation /\ ")" \in Punctuation /\ "." \in Punctuation /\ "=" \in Punctuation
  /\ "--" \in Punctuation
  /\ "function" \in Keywords /\ "local" \in Keywords /\ "for" \in Keywords /\ "in" \in Keywords
  /\ "do" \in Keywords /\ "end" \in Keywords
BY Zenon DEF Punctuation, Keywords

LEMMA NamesAreNot ==
  ASSUME NEW n \in Names
  PROVE  /\ n \notin Punctuation /\ n \notin Keywords /\ n \in STRING /\ n # NoName
         /\ n # "(" /\ n # ")" /\ n # "." /\ n # "=" /\ n # "--"
         /\ n # "function" /\ n # "local" /\ n # "for" /\ n # "in" /\ n # "do" /\ n # "end"
BY Zenon, DocumentAssumption, KnownWords

\* What the parser makes of a line of a program: the name of a function
\* statement stands before its parenthesis.
Statement(line) ==
  /\ line \in Seq(STRING) /\ line # <<>>
  /\ IsFunction(line) => /\ Contains(line, "(") /\ Column(line, "(") < Column(line, ")")
                         /\ FunctionName(line) \in Names

LEMMA FunctionColumns ==
  ASSUME NEW line, Statement(line), IsFunction(line)
  PROVE  /\ Column(line, "(") \in 3 .. Len(line) - 1 /\ Len(line) \in Nat
         /\ line[Column(line, "(")] = "("
         /\ line[Column(line, "(") - 1] = FunctionName(line) /\ FunctionName(line) \in Names
         /\ Column(line, ")") \in Column(line, "(") + 1 .. Len(line)
         /\ line[Column(line, ")")] = ")"
         /\ Column(line, "function") \in 1 .. 2
         /\ Column(line, "function") < Column(line, "(") - 1
<1> DEFINE q == Column(line, "(")
           c0 == Column(line, "function")
<1>1. Len(line) \in Nat /\ Len(line) # 0
  BY LenProperties, EmptySeq DEF Statement
<1>2. q \in 1 .. Len(line) /\ line[q] = "(" /\ \A k \in 1 .. q - 1 : line[k] # "("
  BY <1>1, ColumnIs DEF Statement
<1>3. line[q - 1] \in Names /\ line[q - 1] = FunctionName(line)
  BY DEF Statement, FunctionName
<1>3a. Column(line, ")") \in q + 1 .. Len(line) /\ line[Column(line, ")")] = ")"
  <2>1. q < Column(line, ")") /\ q # 0 /\ q \in Nat
    BY <1>1, <1>2 DEF Statement
  <2> HIDE DEF q
  <2>2. Column(line, ")") # 0 /\ Column(line, ")") \in 0 .. Len(line)
    BY <1>1, <2>1, ColumnIs DEF Statement
  <2> QED  BY <1>1, <2>1, <2>2, ColumnIs DEF Statement
<1> HIDE DEF q
<1>4. line[1] = "function" \/ (line[1] = "local" /\ line[2] = "function")
  BY DEF IsFunction
<1>5. q # 1
  BY <1>2, <1>4
<1>6. line[1] # "function" => q # 2
  BY <1>2, <1>3, <1>4, NamesAreNot
<1>7. line[1] = "function" => q # 2
  BY <1>2, <1>3, <1>4, NamesAreNot
<1>8. q \in 3 .. Len(line)
  BY <1>1, <1>2, <1>5, <1>6, <1>7
<1>9. Contains(line, "function")
  BY <1>1, <1>4, <1>8 DEF Contains
<1>10. c0 \in 1 .. Len(line) /\ line[c0] = "function" /\ \A k \in 1 .. c0 - 1 : line[k] # "function"
  BY <1>1, <1>9, ColumnIs DEF Statement
<1> HIDE DEF c0
<1>11. c0 \in 1 .. 2
  BY <1>1, <1>4, <1>10
<1>12. c0 # q - 1
  BY <1>3, <1>10, NamesAreNot
<1> QED  BY <1>1, <1>2, <1>3, <1>3a, <1>8, <1>11, <1>12 DEF q, c0

\* col are the columns of the names between two columns of a line.
NameColumns(col, line, from, to, found) ==
  /\ found \in Seq(Names) /\ Len(found) \in Nat
  /\ col \in [1 .. Len(found) -> 1 .. Len(line)]
  /\ \A k \in 1 .. Len(found) : /\ col[k] \in from .. to /\ found[k] = line[col[k]]
                                /\ found[k] \in Names
  /\ \A k, m \in 1 .. Len(found) : m < k => col[m] < col[k]
  /\ \A c \in from .. to : line[c] \in Names => \E k \in 1 .. Len(found) : col[k] = c

LEMMA NamesBetween ==
  ASSUME NEW line \in Seq(STRING), NEW from \in 1 .. Len(line) + 1, NEW to \in 0 .. Len(line)
  PROVE  \E col : NameColumns(col, line, from, to, NamesIn(SubSeq(line, from, to)))
<1> DEFINE words == SubSeq(line, from, to)
           found == NamesIn(words)
<1>1. Len(line) \in Nat
  BY LenProperties
<1>2. \A i \in from .. to : line[i] \in STRING
  BY <1>1, ElementOfSeq
<1>3. /\ words \in Seq(STRING)
      /\ Len(words) = IF from <= to THEN to - from + 1 ELSE 0
      /\ \A i \in 1 .. to - from + 1 : words[i] = line[from + i - 1]
  BY <1>1, <1>2, SubSeqProperties
<1> HIDE DEF words
<1>4. PICK inner : Columns(inner, words, found)
  BY <1>3, NamesInColumns
<1> HIDE DEF found
<1>5. Len(found) \in Nat /\ \A k \in 1 .. Len(found) : found[k] \in Names
  BY <1>4, LenProperties, ElementOfSeq DEF Columns
<1> DEFINE col == [k \in 1 .. Len(found) |-> from + inner[k] - 1]
<1>6. ASSUME NEW k \in 1 .. Len(found)
      PROVE  /\ inner[k] \in 1 .. to - from + 1 /\ found[k] = words[inner[k]]
             /\ col[k] = from + inner[k] - 1
  <2>1. inner[k] \in 1 .. Len(words) /\ found[k] = words[inner[k]]
    BY <1>4 DEF Columns
  <2>2. inner[k] \in 1 .. to - from + 1
    BY <1>1, <1>3, <2>1
  <2> QED  BY <2>1, <2>2
<1>7. ASSUME NEW k \in 1 .. Len(found)
      PROVE  col[k] \in from .. to /\ col[k] \in 1 .. Len(line) /\ found[k] = line[col[k]]
  <2>1. inner[k] \in 1 .. to - from + 1 /\ found[k] = words[inner[k]] /\ col[k] = from + inner[k] - 1
    BY <1>6
  <2> HIDE DEF col
  <2>2. words[inner[k]] = line[from + inner[k] - 1]
    BY <1>3, <2>1
  <2> QED  BY <1>1, <2>1, <2>2
<1>8. col \in [1 .. Len(found) -> 1 .. Len(line)]
  <2>1. col = [k \in 1 .. Len(found) |-> col[k]]
    OBVIOUS
  <2> HIDE DEF col
  <2> QED  BY <1>7, <2>1
<1> HIDE DEF col
<1>9. ASSUME NEW k \in 1 .. Len(found), NEW m \in 1 .. Len(found), m < k  PROVE col[m] < col[k]
  <2>1. inner[m] < inner[k]
    BY <1>4, <1>9 DEF Columns
  <2>2. /\ inner[k] \in 1 .. to - from + 1 /\ col[k] = from + inner[k] - 1
        /\ inner[m] \in 1 .. to - from + 1 /\ col[m] = from + inner[m] - 1
    BY <1>6
  <2>3. inner[m] \in Int /\ inner[k] \in Int /\ from \in Int
    BY <1>1, <2>2
  <2> QED  BY <2>1, <2>2, <2>3
<1>10. ASSUME NEW c \in from .. to, line[c] \in Names  PROVE \E k \in 1 .. Len(found) : col[k] = c
  <2> DEFINE d == c - from + 1
  <2>1. d \in 1 .. Len(words) /\ words[d] = line[c] /\ c = from + d - 1
    BY <1>1, <1>3
  <2> HIDE DEF d
  <2>2. PICK k \in 1 .. Len(found) : inner[k] = d
    BY <1>4, <1>10, <2>1 DEF Columns
  <2> QED  BY <1>6, <2>1, <2>2
<1>11. found \in Seq(Names)
  BY <1>4 DEF Columns
<1> QED  BY <1>5, <1>7, <1>8, <1>9, <1>10, <1>11 DEF NameColumns, found, words

-------------------------------------------------------------------------------
(* The symbols of a line                                                   *)

LEMMA NamesEndIs ==
  ASSUME NEW S, NEW line \in Seq(S)
  PROVE  NamesEnd(line) \in 0 .. Len(line)
<1> DEFINE I == {i \in 1 .. Len(line) : line[i] \in {"=", "in"}}
<1>1. NamesEnd(line) = IF (IF I # {} THEN Min(I) ELSE 0) = 0 THEN Len(line)
                       ELSE (IF I # {} THEN Min(I) ELSE 0)
  BY DEF NamesEnd, SelectInSeq
<1>2. Len(line) \in Nat /\ I \subseteq 1 .. Len(line) /\ I \subseteq Nat
  BY LenProperties
<1>3. I # {} => Min(I) \in I
  <2> HIDE DEF I
  <2> QED  BY <1>2, LeastIs
<1> DEFINE m == IF I # {} THEN Min(I) ELSE 0
<1>4. m \in 0 .. Len(line)
  <2>1. CASE I = {}
    BY <1>2, <2>1
  <2>2. CASE I # {}
    <3>1. m \in I
      BY <1>3, <2>2
    <3> HIDE DEF m
    <3> QED  BY <1>2, <3>1
  <2> QED  BY <2>1, <2>2
<1> HIDE DEF m
<1>5. NamesEnd(line) = IF m = 0 THEN Len(line) ELSE m
  BY <1>1 DEF m
<1> QED  BY <1>2, <1>4, <1>5

\* What is true of each symbol of a line, in a document of that module.
SymbolAt(text, module, i, s) ==
  /\ s.start = <<i, s.start[2]>> /\ s.start[2] \in Nat /\ s.end = RangeEnd(text, i)
  /\ s.namePos \in Positions(text) /\ s.namePos[1] = i /\ s.start[2] <= s.namePos[2]
  /\ \E n \in Names : /\ text[i][s.namePos[2]] = n
                      /\ s.name = <<n>> \/ (module # NoName /\ s.name = <<module, ".", n>>)
  /\ s.scope \in {"global", "local", "parameter"}

\* Names that are placed from a column on: one symbol for each.
PlacedSymbols(L, text, i, names, col, c0, scope) ==
  /\ Len(L) = Len(names) /\ DOMAIN L = 1 .. Len(names) /\ L \in Seq(ToSet(L))
  /\ \A k \in 1 .. Len(names) : /\ SymbolAt(text, NoName, i, L[k]) /\ L[k].name = <<names[k]>>
                                /\ L[k].scope = scope /\ L[k].start = <<i, c0>>
                                /\ L[k].namePos = Places(text, names, <<i, c0>>)[k]

LEMMA OneEach ==
  ASSUME NEW text, NEW i, NEW names, NEW col, NEW c0, InOrder(text, i, names, col, c0),
         NEW scope \in {"global", "local", "parameter"}, NEW L, DOMAIN L = DOMAIN names,
         L = [k \in DOMAIN names |-> L[k]],
         \A k \in DOMAIN names :
           /\ L[k].name = <<names[k]>> /\ L[k].scope = scope /\ L[k].start = <<i, c0>>
           /\ L[k].end = RangeEnd(text, i) /\ L[k].namePos = Places(text, names, <<i, c0>>)[k]
  PROVE  PlacedSymbols(L, text, i, names, col, c0, scope)
<1> DEFINE place == Places(text, names, <<i, c0>>)
<1>1. /\ names \in Seq(Names) /\ Len(names) \in Nat /\ DOMAIN names = 1 .. Len(names)
      /\ \A k \in 1 .. Len(names) : names[k] \in Names
      /\ c0 \in Nat /\ Texted(text)
  BY LenProperties, ElementOfSeq DEF InOrder
<1>2. \A k \in 1 .. Len(names) : PlacedBy(place, text, i, names, col, c0, k)
  BY PlacesFound
<1> HIDE DEF place
<1>2a. \A k \in 1 .. Len(names) :
         /\ place[k] \in Positions(text) /\ place[k][1] = i /\ text[i][place[k][2]] = names[k]
         /\ place[k][2] \in Nat /\ place[k][2] <= col[k]
  BY <1>1, <1>2, TextIs DEF PlacedBy
<1>2b. \A k \in 1 .. Len(names) : c0 <= place[k][2]
  <2> DEFINE T == {k \in 0 .. Len(names) : k = 0 \/ c0 <= place[k][2]}
  <2>1. ASSUME NEW k \in 1 .. Len(names), k - 1 \in T PROVE k \in T
    <3>1. CASE k = 1
      BY <1>2, <3>1 DEF PlacedBy
    <3>2. CASE k # 1
      <4>1. place[k - 1][2] + 1 <= place[k][2] /\ c0 <= place[k - 1][2]
        BY <1>2, <2>1, <3>2 DEF PlacedBy
      <4>2. place[k][2] \in Nat /\ place[k - 1][2] \in Nat
        <5>1. k - 1 \in 1 .. Len(names)
          BY <1>1, <3>2
        <5> QED  BY <1>2a, <5>1
      <4> QED  BY <1>1, <4>1, <4>2
    <3> QED  BY <3>1, <3>2
  <2>2. 0 \in T /\ \A k \in 1 .. Len(names) : k - 1 \in T => k \in T
    BY <1>1, <2>1
  <2> HIDE DEF T
  <2>3. \A k \in 0 .. Len(names) : k \in T
    BY <1>1, <2>2, UpTo
  <2> QED  BY <1>1, <2>3 DEF T
<1>3. ASSUME NEW k \in 1 .. Len(names)  PROVE SymbolAt(text, NoName, i, L[k])
  <2>1. /\ L[k].name = <<names[k]>> /\ L[k].scope = scope /\ L[k].start = <<i, c0>>
        /\ L[k].end = RangeEnd(text, i) /\ L[k].namePos = place[k]
    BY <1>1 DEF place
  <2>2. names[k] \in Names /\ text[i][L[k].namePos[2]] = names[k]
    BY <1>1, <1>2a, <2>1
  <2> QED  BY <1>1, <1>2a, <1>2b, <2>1, <2>2 DEF SymbolAt
<1>4. L \in Seq(ToSet(L)) /\ Len(L) = Len(names)
  <2>1. L \in [1 .. Len(names) -> ToSet(L)]
    BY <1>1 DEF ToSet
  <2> QED  BY <1>1, <2>1, SeqDef
<1> QED  BY <1>1, <1>3, <1>4 DEF PlacedSymbols, place

LEMMA LocalSymbolsAre ==
  ASSUME NEW text, NEW i, Texted(text), i \in DOMAIN text,
         NEW col, NameColumns(col, text[i], 1, NamesEnd(text[i]), DeclaredNames(text[i]))
  PROVE  PlacedSymbols(LocalSymbols(text, i), text, i, DeclaredNames(text[i]), col, 1, "local")
<1> DEFINE names == DeclaredNames(text[i])
           L == LocalSymbols(text, i)
<1>1. L = [k \in DOMAIN names |->
             Symbol(<<names[k]>>, "local", <<i, 1>>, RangeEnd(text, i), Places(text, names, <<i, 1>>)[k],
                    k = 1 /\ FunctionValue(text[i]), Depth(text, i))]
  BY DEF LocalSymbols
<1>2. InOrder(text, i, names, col, 1)
  BY LenProperties DEF NameColumns, InOrder
<1> HIDE DEF names
<1>3. /\ DOMAIN L = DOMAIN names /\ L = [k \in DOMAIN names |-> L[k]]
      /\ \A k \in DOMAIN names :
           /\ L[k].name = <<names[k]>> /\ L[k].scope = "local" /\ L[k].start = <<i, 1>>
           /\ L[k].end = RangeEnd(text, i) /\ L[k].namePos = Places(text, names, <<i, 1>>)[k]
  BY <1>1 DEF Symbol
<1> HIDE DEF L
<1> QED  BY <1>2, <1>3, OneEach DEF names, L

\* The symbols of a function statement: the function, with and without the
\* name of the module, and its parameters.
FunctionPart(F, text, i, m, h, P) ==
  /\ h \in {1, 2} /\ DOMAIN F = 1 .. h + Len(P) /\ Len(F) = h + Len(P) /\ F \in Seq(ToSet(F))
  /\ \A j \in 1 .. h : /\ SymbolAt(text, m, i, F[j])
                       /\ F[j].namePos = FindNamePosition(text, <<FunctionName(text[i])>>,
                                                          <<i, Column(text[i], "function")>>)
                     /\ F[j].isFunction = TRUE /\ F[j].scope \in {"global", "local"}
  /\ F[1].name = <<FunctionName(text[i])>>
  /\ h = 2 => Len(F[2].name) = 3
  /\ \A k \in 1 .. Len(P) : F[h + k] = P[k]

LEMMA TwoParts ==
  ASSUME NEW A, NEW P, NEW S, A \in Seq(S), P \in Seq(S)
  PROVE  LET F == A \o P
         IN /\ DOMAIN F = 1 .. Len(A) + Len(P) /\ Len(F) = Len(A) + Len(P) /\ F \in Seq(ToSet(F))
            /\ \A j \in 1 .. Len(A) : F[j] = A[j]
            /\ \A k \in 1 .. Len(P) : F[Len(A) + k] = P[k]
<1> DEFINE F == A \o P
<1>1. /\ F \in Seq(S) /\ Len(F) = Len(A) + Len(P)
      /\ \A j \in 1 .. Len(A) + Len(P) : F[j] = IF j <= Len(A) THEN A[j] ELSE P[j - Len(A)]
  BY ConcatProperties
<1>2. Len(A) \in Nat /\ Len(P) \in Nat
  BY LenProperties
<1> HIDE DEF F
<1>3. DOMAIN F = 1 .. Len(F) /\ Len(F) \in Nat /\ F = [j \in 1 .. Len(F) |-> F[j]]
  BY <1>1, LenProperties
<1>4. F \in Seq(ToSet(F))
  <2>1. F \in [1 .. Len(F) -> ToSet(F)]
    BY <1>3 DEF ToSet
  <2> QED  BY <1>3, <2>1, SeqDef
<1>5. \A j \in 1 .. Len(A) : F[j] = A[j]
  BY <1>1, <1>2
<1>6. ASSUME NEW k \in 1 .. Len(P)  PROVE F[Len(A) + k] = P[k]
  <2>1. Len(A) + k \in 1 .. Len(A) + Len(P) /\ ~(Len(A) + k <= Len(A)) /\ Len(A) + k - Len(A) = k
    BY <1>2
  <2> QED  BY <1>1, <2>1
<1> QED  BY <1>1, <1>3, <1>4, <1>5, <1>6 DEF F

LEMMA FunctionSymbolsAre ==
  ASSUME NEW text, NEW i, Texted(text), i \in DOMAIN text, Statement(text[i]), IsFunction(text[i]),
         NEW m, NEW col,
         NameColumns(col, text[i], Column(text[i], "("), Column(text[i], ")"), Parameters(text[i]))
  PROVE  \E h, P : /\ FunctionPart(FunctionSymbols(text, i, m), text, i, m, h, P)
                   /\ PlacedSymbols(P, text, i, Parameters(text[i]), col, Column(text[i], "function"), "parameter")
<1> DEFINE line   == text[i]
           c0     == Column(line, "function")
           start  == <<i, c0>>
           end    == RangeEnd(text, i)
           name   == FunctionName(line)
           q      == Column(line, "(")
           global == line[1] = "function"
           at     == FindNamePosition(text, <<name>>, start)
           params == Parameters(line)
           scope  == IF global THEN "global" ELSE "local"
           one    == Symbol(<<name>>, scope, start, end, at, TRUE, Depth(text, i))
           two    == Symbol(<<m, ".", name>>, scope, start, end, at, TRUE, Depth(text, i))
           A      == <<one>> \o (IF global /\ m # NoName THEN <<two>> ELSE <<>>)
           P      == [k \in DOMAIN params |->
                        Symbol(<<params[k]>>, "parameter", start, end, Places(text, params, start)[k],
                               FALSE, Depth(text, i) + 1)]
           F      == FunctionSymbols(text, i, m)
<1>1. F = A \o P
  BY DEF FunctionSymbols
<1>2. /\ q \in 3 .. Len(line) /\ Len(line) \in Nat /\ c0 \in 1 .. 2 /\ c0 < q - 1
      /\ line[q - 1] = name /\ name \in Names
  BY FunctionColumns
<1>3. /\ at \in Positions(text) /\ at[1] = i /\ text[i][at[2]] = name /\ at[2] \in Nat /\ c0 <= at[2]
  <2> HIDE DEF name, c0
  <2>1. q - 1 \in 1 .. Len(text[i]) /\ c0 \in Nat /\ c0 <= q - 1 /\ text[i][q - 1] = name
    BY <1>2
  <2> HIDE DEF q
  <2> QED  BY <2>1, PlaceFound
<1>4. InOrder(text, i, params, col, c0)
  <2>1. /\ params \in Seq(Names) /\ col \in [1 .. Len(params) -> 1 .. Len(line)]
        /\ \A k \in 1 .. Len(params) : params[k] = line[col[k]]
        /\ \A k, r \in 1 .. Len(params) : r < k => col[r] < col[k]
    BY DEF NameColumns
  <2>2. c0 \in Nat /\ (Len(params) # 0 => c0 <= col[1])
    <3>1. Len(params) \in Nat /\ \A k \in 1 .. Len(params) : col[k] \in q .. Column(line, ")")
      BY DEF NameColumns
    <3>2. Len(params) # 0 => 1 \in 1 .. Len(params)
      BY <3>1
    <3> HIDE DEF q, c0, params, line
    <3> QED  BY <1>2, <3>1, <3>2
  <2> HIDE DEF params, c0
  <2> QED  BY <2>1, <2>2 DEF InOrder
<1>5. PlacedSymbols(P, text, i, params, col, c0, "parameter")
  <2> HIDE DEF params, c0
  <2>1. /\ DOMAIN P = DOMAIN params /\ P = [k \in DOMAIN params |-> P[k]]
        /\ \A k \in DOMAIN params :
             /\ P[k].name = <<params[k]>> /\ P[k].scope = "parameter" /\ P[k].start = <<i, c0>>
             /\ P[k].end = RangeEnd(text, i) /\ P[k].namePos = Places(text, params, <<i, c0>>)[k]
    BY DEF Symbol
  <2> HIDE DEF P
  <2> QED  BY <1>4, <2>1, OneEach
<1>6. P \in Seq(ToSet(P)) /\ Len(P) \in Nat
  <2>1. P \in Seq(ToSet(P))
    BY <1>5 DEF PlacedSymbols
  <2> QED  BY <2>1, LenProperties
<1>7. /\ one.name = <<name>> /\ one.namePos = at /\ one.start = <<i, c0>> /\ one.end = end /\ one.scope = scope
      /\ one.isFunction = TRUE /\ two.isFunction = TRUE
      /\ two.name = <<m, ".", name>> /\ two.namePos = at /\ two.start = <<i, c0>> /\ two.end = end
      /\ two.scope = scope
  BY Zenon DEF Symbol
<1>8. scope \in {"global", "local"}
  OBVIOUS
<1> DEFINE h == Len(A)
<1>9. /\ h \in {1, 2} /\ A \in Seq({one, two}) /\ A[1] = one
      /\ h = 2 => A[2] = two /\ m # NoName
  <2> HIDE DEF one, two
  <2>1. CASE global /\ m # NoName
    <3>1. A = <<one>> \o <<two>>
      BY Zenon, <2>1
    <3>2. <<one>> \in Seq({one, two}) /\ <<two>> \in Seq({one, two}) /\ Len(<<one>>) = 1 /\ Len(<<two>>) = 1
      OBVIOUS
    <3> HIDE DEF A
    <3>3. A \in Seq({one, two}) /\ Len(A) = 2 /\ A[1] = <<one>>[1] /\ A[2] = <<two>>[1]
      BY <3>1, <3>2, ConcatProperties
    <3> QED  BY <2>1, <3>3
  <2>2. CASE ~(global /\ m # NoName)
    <3>1. A = <<one>> \o <<>>
      BY Zenon, <2>2
    <3>2. <<one>> \o <<>> = <<one>>
      OBVIOUS
    <3> HIDE DEF A
    <3> QED  BY <2>2, <3>1, <3>2
  <2> QED  BY <2>1, <2>2
<1> HIDE DEF A, P, F, one, two, scope, params
<1>10. /\ DOMAIN F = 1 .. h + Len(P) /\ Len(F) = h + Len(P) /\ F \in Seq(ToSet(F))
       /\ \A j \in 1 .. h : F[j] = A[j]
       /\ \A k \in 1 .. Len(P) : F[h + k] = P[k]
  <2> DEFINE S == {one, two} \cup ToSet(P)
  <2>1. A \in Seq(S) /\ P \in Seq(S)
    BY <1>6, <1>9, SeqMonotonic
  <2> HIDE DEF S
  <2> QED  BY <1>1, <2>1, TwoParts
<1>11. SymbolAt(text, m, i, one)
  BY <1>2, <1>3, <1>7, <1>8 DEF SymbolAt
<1>12. m # NoName => SymbolAt(text, m, i, two)
  BY <1>2, <1>3, <1>7, <1>8 DEF SymbolAt
<1>13. \A j \in 1 .. h : SymbolAt(text, m, i, F[j]) /\ F[j].namePos = at
  BY <1>7, <1>9, <1>10, <1>11, <1>12
<1>13a. \A j \in 1 .. h : F[j].isFunction = TRUE /\ F[j].scope \in {"global", "local"}
  BY <1>7, <1>8, <1>9, <1>10
<1>14. F[1].name = <<name>> /\ (h = 2 => Len(F[2].name) = 3)
  <2>1. F[1] = one /\ (h = 2 => F[2] = two)
    BY <1>9, <1>10
  <2>2. Len(<<m, ".", name>>) = 3
    OBVIOUS
  <2> QED  BY Zenon, <1>7, <2>1, <2>2
<1>15. FunctionPart(F, text, i, m, h, P)
  BY <1>9, <1>10, <1>13, <1>13a, <1>14 DEF FunctionPart
<1> QED  BY <1>5, <1>15 DEF F, params

LEMMA WithModule ==
  ASSUME NEW text, NEW i, NEW m, NEW module, NEW s, SymbolAt(text, m, i, s), m \in {NoName, module}
  PROVE  SymbolAt(text, module, i, s)
BY Zenon DEF SymbolAt

\* The symbols of one line.
LineIs(L, text, module, i) ==
  L \in Seq(ToSet(L)) /\ \A j \in 1 .. Len(L) : SymbolAt(text, module, i, L[j])

\* A function statement: the names in its parentheses.
LEMMA ParameterColumns ==
  ASSUME NEW line, Statement(line), IsFunction(line)
  PROVE  \E col : NameColumns(col, line, Column(line, "("), Column(line, ")"), Parameters(line))
<1>1. /\ line \in Seq(STRING) /\ Len(line) \in Nat
      /\ Column(line, "(") \in 1 .. Len(line) + 1 /\ Column(line, ")") \in 0 .. Len(line)
  BY FunctionColumns DEF Statement
<1> QED  BY <1>1, NamesBetween DEF Parameters

LEMMA DeclaredColumns ==
  ASSUME NEW line, Statement(line)
  PROVE  \E col : NameColumns(col, line, 1, NamesEnd(line), DeclaredNames(line))
<1>1. line \in Seq(STRING) /\ Len(line) \in Nat /\ NamesEnd(line) \in 0 .. Len(line)
  BY LenProperties, NamesEndIs DEF Statement
<1>2. 1 \in 1 .. Len(line) + 1
  BY <1>1
<1> QED  BY <1>1, <1>2, NamesBetween DEF DeclaredNames

LEMMA LineSymbolsAre ==
  ASSUME NEW text, NEW i, Texted(text), i \in DOMAIN text, Statement(text[i]), NEW module
  PROVE  LineIs(LineSymbols(text, i, module), text, module, i)
<1> DEFINE L == LineSymbols(text, i, module)
           m == IF ModuleLine(text) < i THEN module ELSE NoName
<1>1. CASE IsFunction(text[i])
  <2>1. L = FunctionSymbols(text, i, m)
    BY <1>1 DEF LineSymbols
  <2>2. PICK col : NameColumns(col, text[i], Column(text[i], "("), Column(text[i], ")"), Parameters(text[i]))
    BY <1>1, ParameterColumns
  <2> HIDE DEF L
  <2>3. PICK h, P : /\ FunctionPart(L, text, i, m, h, P)
                    /\ PlacedSymbols(P, text, i, Parameters(text[i]), col, Column(text[i], "function"), "parameter")
    <3> HIDE DEF m
    <3> QED  BY <1>1, <2>1, <2>2, FunctionSymbolsAre
  <2>4. m \in {NoName, module} /\ NoName \in {NoName, m}
    OBVIOUS
  <2> HIDE DEF m
  <2>5. ASSUME NEW j \in 1 .. Len(L)  PROVE SymbolAt(text, module, i, L[j])
    <3>1. CASE j \in 1 .. h
      <4>1. SymbolAt(text, m, i, L[j])
        BY <2>3, <3>1 DEF FunctionPart
      <4> QED  BY <2>4, <4>1, WithModule
    <3>2. CASE j \notin 1 .. h
      <4>1. Len(P) = Len(Parameters(text[i])) /\ Len(P) \in Nat
        BY <2>2, <2>3 DEF PlacedSymbols, NameColumns
      <4>2. h \in {1, 2} /\ Len(L) = h + Len(P) /\ \A k \in 1 .. Len(P) : L[h + k] = P[k]
        BY <2>3 DEF FunctionPart
      <4>3. j - h \in 1 .. Len(P) /\ j = h + (j - h)
        BY <3>2, <4>1, <4>2
      <4>4. L[j] = P[j - h]
        BY <4>2, <4>3
      <4>5. SymbolAt(text, NoName, i, P[j - h])
        BY <2>3, <4>1, <4>3 DEF PlacedSymbols
      <4> QED  BY <4>4, <4>5, WithModule
    <3> QED  BY <3>1, <3>2
  <2>6. L \in Seq(ToSet(L))
    BY <2>3 DEF FunctionPart
  <2> QED  BY <2>5, <2>6 DEF LineIs, L
<1>2. CASE ~IsFunction(text[i]) /\ Declares(text[i])
  <2>1. L = LocalSymbols(text, i)
    BY <1>2 DEF LineSymbols
  <2>2. PICK col : NameColumns(col, text[i], 1, NamesEnd(text[i]), DeclaredNames(text[i]))
    BY DeclaredColumns
  <2> HIDE DEF L
  <2>3. PlacedSymbols(L, text, i, DeclaredNames(text[i]), col, 1, "local")
    BY <2>1, <2>2, LocalSymbolsAre
  <2>4. \A j \in 1 .. Len(L) : SymbolAt(text, NoName, i, L[j])
    BY <2>3 DEF PlacedSymbols
  <2>5. L \in Seq(ToSet(L))
    BY <2>3 DEF PlacedSymbols
  <2> QED  BY <2>4, <2>5, WithModule DEF LineIs, L
<1>3. CASE ~IsFunction(text[i]) /\ ~Declares(text[i])
  <2>1. L = <<>>
    BY <1>3 DEF LineSymbols
  <2> HIDE DEF L
  <2>2. L \in Seq(ToSet(L)) /\ Len(L) = 0
    BY <2>1, EmptySeq
  <2> QED  BY <2>2 DEF LineIs, L
<1> QED  BY <1>1, <1>2, <1>3

\* A text of statements.
Statements(text) == Texted(text) /\ \A i \in DOMAIN text : Statement(text[i])

\* A symbol of a document belongs to the line where its range starts.
LEMMA SymbolsAre ==
  ASSUME NEW text, Statements(text), NEW module
  PROVE  /\ AnalyzeScope(text, module) \in Seq(ToSet(AnalyzeScope(text, module)))
         /\ \A s \in ToSet(AnalyzeScope(text, module)) :
              \E i \in DOMAIN text : SymbolAt(text, module, i, s)
<1> DEFINE n == Len(text)
           seqs == [i \in 1 .. n |-> LineSymbols(text, i, module)]
           S == UNION {ToSet(seqs[i]) : i \in 1 .. n}
           all == AnalyzeScope(text, module)
<1>1. n \in Nat /\ DOMAIN text = 1 .. n
  BY TextIs DEF Statements
<1>2. all = FlattenSeq(seqs)
  BY <1>1 DEF AnalyzeScope
<1>3. \A i \in 1 .. n : LineIs(seqs[i], text, module, i)
  BY <1>1, LineSymbolsAre DEF Statements
<1>4. seqs \in [1 .. n -> Seq(S)]
  <2>1. ASSUME NEW i \in 1 .. n  PROVE seqs[i] \in Seq(S)
    <3>1. seqs[i] \in Seq(ToSet(seqs[i]))
      BY <1>3 DEF LineIs
    <3>2. ToSet(seqs[i]) \subseteq S
      OBVIOUS
    <3> HIDE DEF seqs, S
    <3> QED  BY <3>1, <3>2, SeqMonotonic
  <2>2. seqs = [i \in 1 .. n |-> seqs[i]]
    OBVIOUS
  <2> HIDE DEF seqs, S
  <2> QED  BY <2>1, <2>2
<1> HIDE DEF seqs, S, n, all
<1>5. all \in Seq(S) /\ \A s : s \in ToSet(all) <=> \E i \in 1 .. n : s \in ToSet(seqs[i])
  BY <1>1, <1>2, <1>4, FlattenTyped, FlattenElements
<1>6. all \in Seq(ToSet(all))
  <2>1. all \in [1 .. Len(all) -> ToSet(all)] /\ Len(all) \in Nat
    BY <1>5, LenProperties DEF ToSet
  <2> QED  BY <2>1, SeqDef
<1>7. ASSUME NEW s \in ToSet(all)  PROVE \E i \in DOMAIN text : SymbolAt(text, module, i, s)
  <2>1. PICK i \in 1 .. n : s \in ToSet(seqs[i])
    BY <1>5
  <2>2. DOMAIN seqs[i] = 1 .. Len(seqs[i])
    BY <1>4, LenProperties
  <2>3. PICK j \in 1 .. Len(seqs[i]) : s = seqs[i][j]
    BY <2>1, <2>2 DEF ToSet
  <2> QED  BY <1>1, <1>3, <2>3 DEF LineIs
<1> QED  BY <1>6, <1>7 DEF all

-------------------------------------------------------------------------------
(* The first symbol of a document                                          *)

\* A document is what DocumentIndex::update makes of a text of statements.
GoodDoc(d) == Statements(d.text) /\ d.symbols = AnalyzeScope(d.text, d.moduleName)

LEMMA GoodDocIs ==
  ASSUME NEW d, GoodDoc(d)
  PROVE  /\ Statements(d.text) /\ Texted(d.text)
         /\ d.symbols \in Seq(ToSet(d.symbols))
         /\ Len(d.symbols) \in Nat /\ DOMAIN d.symbols = 1 .. Len(d.symbols)
         /\ \A s \in ToSet(d.symbols) :
              \E i \in DOMAIN d.text : SymbolAt(d.text, d.moduleName, i, s)
         /\ \A j \in 1 .. Len(d.symbols) : d.symbols[j] \in ToSet(d.symbols)
<1>1. Statements(d.text) /\ Texted(d.text)
  BY DEF GoodDoc, Statements
<1>2. /\ d.symbols \in Seq(ToSet(d.symbols))
      /\ \A s \in ToSet(d.symbols) : \E i \in DOMAIN d.text : SymbolAt(d.text, d.moduleName, i, s)
  BY SymbolsAre DEF GoodDoc
<1>3. Len(d.symbols) \in Nat /\ DOMAIN d.symbols = 1 .. Len(d.symbols)
  BY <1>2, LenProperties
<1> QED  BY <1>1, <1>2, <1>3 DEF ToSet

\* s is the first symbol of the document among those of some indices.
FirstIs(s, doc, I) ==
  (I = {} /\ s = NoSymbol) \/ \E i \in I : s = doc.symbols[i] /\ \A j \in I : i <= j

Selected(I) == IF I # {} THEN Min(I) ELSE 0

LEMMA FirstOfThem ==
  ASSUME NEW doc, GoodDoc(doc), NEW I, I \subseteq 1 .. Len(doc.symbols), NEW s,
         s = IF Selected(I) = 0 THEN NoSymbol ELSE doc.symbols[Selected(I)]
  PROVE  FirstIs(s, doc, I)
<1>1. CASE I = {}
  BY <1>1 DEF FirstIs, Selected
<1>2. CASE I # {}
  <2>1. I \subseteq Nat
    BY GoodDocIs
  <2> DEFINE i == Selected(I)
  <2>2. i \in I /\ \A j \in I : i <= j
    BY <1>2, <2>1, LeastIs DEF Selected
  <2> HIDE DEF i
  <2>3. i # 0
    BY <2>2, GoodDocIs
  <2> QED  BY <2>2, <2>3 DEF FirstIs, i
<1> QED  BY <1>1, <1>2

Exactly(doc, name) == FirstSymbol(doc, LAMBDA t : t.name = name)
NamedExactly(doc, name) == {j \in 1 .. Len(doc.symbols) : doc.symbols[j].name = name}
NamedSame(doc, name) == {j \in 1 .. Len(doc.symbols) : Same(doc.symbols[j].name, name)}
Under(doc, p) ==
  {j \in 1 .. Len(doc.symbols) :
     LET s == doc.symbols[j]
     IN /\ p[1] \in s.start[1] .. s.end[1] /\ p[1] = s.namePos[1]
        /\ p[2] \in s.namePos[2] .. s.namePos[2] + Len(s.name) - 1}

LEMMA FirstExactly ==
  ASSUME NEW doc, GoodDoc(doc), NEW name
  PROVE  FirstIs(Exactly(doc, name), doc, NamedExactly(doc, name))
<1> DEFINE I == NamedExactly(doc, name)
<1>1. I \subseteq 1 .. Len(doc.symbols)
  BY DEF NamedExactly
<1>2. Exactly(doc, name) = IF Selected(I) = 0 THEN NoSymbol ELSE doc.symbols[Selected(I)]
  BY Zenon DEF Selected, Exactly, FirstSymbol, SelectInSeq, NamedExactly
<1> HIDE DEF I
<1> QED  BY <1>1, <1>2, FirstOfThem DEF I

LEMMA FirstSame ==
  ASSUME NEW u, GoodDoc(documents[u]), NEW name
  PROVE  FirstIs(FirstNamed(u, name), documents[u], NamedSame(documents[u], name))
<1> DEFINE doc == documents[u]
           I == NamedSame(doc, name)
<1>1. I \subseteq 1 .. Len(doc.symbols)
  BY DEF NamedSame
<1>2. FirstNamed(u, name) = IF Selected(I) = 0 THEN NoSymbol ELSE doc.symbols[Selected(I)]
  BY Zenon DEF Selected, FirstNamed, FirstSymbol, SelectInSeq, NamedSame
<1> HIDE DEF I, doc
<1> QED  BY <1>1, <1>2, FirstOfThem DEF doc, I

LEMMA FirstUnder ==
  ASSUME NEW doc, GoodDoc(doc), NEW p
  PROVE  FirstIs(FindSymbolAt(doc, p), doc, Under(doc, p))
<1> DEFINE I == Under(doc, p)
<1>1. I \subseteq 1 .. Len(doc.symbols)
  BY DEF Under
<1>2. FindSymbolAt(doc, p) = IF Selected(I) = 0 THEN NoSymbol ELSE doc.symbols[Selected(I)]
  BY Zenon DEF Selected, FindSymbolAt, FirstSymbol, SelectInSeq, Under
<1> HIDE DEF I
<1> QED  BY <1>1, <1>2, FirstOfThem DEF I

-------------------------------------------------------------------------------
(* hover                                                                   *)

DocInv == \A u \in Indexed : GoodDoc(documents[u])

LEMMA TextOf ==
  ASSUME NEW u \in Indexed
  PROVE  Text(u) = documents[u].text
BY DEF Text

LEMMA SymbolShape ==
  ASSUME NEW d, GoodDoc(d), NEW s \in ToSet(d.symbols)
  PROVE  \E n \in Names : \E i \in DOMAIN d.text :
           /\ SymbolAt(d.text, d.moduleName, i, s)
           /\ d.text[i][s.namePos[2]] = n
           /\ (s.name = <<n>> /\ Len(s.name) = 1)
              \/ (d.moduleName # NoName /\ s.name = <<d.moduleName, ".", n>> /\ Len(s.name) = 3)
<1>1. PICK i \in DOMAIN d.text : SymbolAt(d.text, d.moduleName, i, s)
  BY GoodDocIs
<1>2. PICK n \in Names : /\ d.text[i][s.namePos[2]] = n
                         /\ s.name = <<n>> \/ (d.moduleName # NoName /\ s.name = <<d.moduleName, ".", n>>)
  BY <1>1 DEF SymbolAt
<1>3. Len(<<n>>) = 1 /\ Len(<<d.moduleName, ".", n>>) = 3
  OBVIOUS
<1> QED  BY Zenon, <1>1, <1>2, <1>3

LEMMA FindsSame ==
  ASSUME DocInv, NEW name, NEW d \in FindDefinition(name)
  PROVE  \E v \in Indexed : \E s \in ToSet(documents[v].symbols) :
           /\ d = Span(v, s.namePos, Len(s.name)) /\ Same(s.name, name)
           /\ s = FirstNamed(v, name) /\ s # NoSymbol
<1>1. PICK v \in Indexed : LET s == FirstNamed(v, name)
                           IN s # NoSymbol /\ d = Span(v, s.namePos, Len(s.name))
  BY DEF FindDefinition
<1>2. GoodDoc(documents[v])
  BY DEF DocInv
<1>3. FirstIs(FirstNamed(v, name), documents[v], NamedSame(documents[v], name))
  BY <1>2, FirstSame
<1>4. PICK j \in NamedSame(documents[v], name) : FirstNamed(v, name) = documents[v].symbols[j]
  BY <1>1, <1>3 DEF FirstIs
<1>5. j \in 1 .. Len(documents[v].symbols) /\ Same(documents[v].symbols[j].name, name)
  BY <1>4 DEF NamedSame
<1>6. documents[v].symbols[j] \in ToSet(documents[v].symbols)
  BY <1>2, <1>5, GoodDocIs
<1> QED  BY <1>1, <1>4, <1>5, <1>6

\* What workspace/symbol may answer is a part of all matches, in some order of the
\* documents, and the whole of them below the limit.
LEMMA MatchesTyped ==
  ASSUME NEW v, GoodDoc(documents[v]), NEW query,
         NEW S, \A s \in ToSet(documents[v].symbols) : Span(v, s.namePos, 0) \in S
  PROVE  /\ Matches(v, query) \in Seq(S)
         /\ \A s \in ToSet(documents[v].symbols) :
              (\E k \in DOMAIN s.name : Same(<<s.name[k]>>, <<query>>))
                => Span(v, s.namePos, 0) \in ToSet(Matches(v, query))
<1> DEFINE symbols == documents[v].symbols
           n == Len(symbols)
           Matching(s) == \E k \in DOMAIN s.name : Same(<<s.name[k]>>, <<query>>)
           seqs == [k \in 1 .. n |->
                      IF Matching(symbols[k]) THEN <<Span(v, symbols[k].namePos, 0)>> ELSE <<>>]
<1>1. n \in Nat /\ DOMAIN symbols = 1 .. n /\ \A k \in 1 .. n : symbols[k] \in ToSet(symbols)
  BY GoodDocIs
<1>2. Matches(v, query) = FlattenSeq(seqs)
  BY Zenon, <1>1 DEF Matches
<1>3. ASSUME NEW k \in 1 .. n
      PROVE  /\ seqs[k] \in Seq(S)
             /\ Matching(symbols[k]) => Span(v, symbols[k].namePos, 0) \in ToSet(seqs[k])
  <2>1. Span(v, symbols[k].namePos, 0) \in S
    BY <1>1
  <2> DEFINE x == Span(v, symbols[k].namePos, 0)
  <2>2. seqs[k] = IF Matching(symbols[k]) THEN <<x>> ELSE <<>>
    BY Zenon
  <2> HIDE DEF x, seqs, Matching
  <2>3. <<x>> \in Seq(S) /\ <<>> \in Seq(S) /\ x \in ToSet(<<x>>)
    BY <2>1 DEF ToSet, x
  <2> QED  BY Zenon, <2>2, <2>3 DEF x
<1>4. seqs \in [1 .. n -> Seq(S)]
  <2>1. seqs = [k \in 1 .. n |-> seqs[k]]
    BY Zenon
  <2> HIDE DEF seqs
  <2> QED  BY <1>3, <2>1
<1>5. ASSUME NEW s \in ToSet(symbols), Matching(s)
      PROVE  Span(v, s.namePos, 0) \in ToSet(FlattenSeq(seqs))
  <2>1. PICK k \in 1 .. n : s = symbols[k]
    BY <1>1 DEF ToSet
  <2>2. Span(v, s.namePos, 0) \in ToSet(seqs[k])
    BY Zenon, <1>3, <1>5, <2>1
  <2> HIDE DEF seqs, n
  <2> QED  BY <1>1, <1>4, <2>2, FlattenElements
<1>6. FlattenSeq(seqs) \in Seq(S)
  <2> HIDE DEF seqs, n
  <2> QED  BY <1>1, <1>4, FlattenTyped
<1> HIDE DEF seqs
<1> QED  BY Zenon, <1>2, <1>5, <1>6

LEMMA SearchFinds ==
  ASSUME DocInv, NEW query, NEW answer \in SearchSymbols(query), Len(answer) < MaxResults,
         NEW v \in Indexed, NEW t \in ToSet(documents[v].symbols),
         \E k \in DOMAIN t.name : Same(<<t.name[k]>>, <<query>>)
  PROVE  Span(v, t.namePos, 0) \in ToSet(answer)
<1> DEFINE n == Cardinality(Indexed)
           S == UNION {{Span(w, s.namePos, 0) : s \in ToSet(documents[w].symbols)} : w \in Indexed}
<1>1. IsFiniteSet(Indexed) /\ n \in Nat
  <2>1. IsFiniteSet(Uris) /\ Indexed \subseteq Uris
    BY EditorAssumption DEF Indexed
  <2>2. IsFiniteSet(Indexed)
    BY <2>1, FS_Subset
  <2> QED  BY <2>2, FS_CardinalityType
<1>2. PICK order \in SetToSeqs(Indexed) :
        answer = Shortened(FlattenSeq([m \in DOMAIN order |-> Matches(order[m], query)]))
  BY DEF SearchSymbols
<1>3. order \in [1 .. n -> Indexed] /\ \A a, b \in 1 .. n : a # b => order[a] # order[b]
  BY <1>2 DEF SetToSeqs
<1>4. \E m \in 1 .. n : order[m] = v
  <2>1. order \in Injection(1 .. n, Indexed)
    <3>1. IsInjective(order)
      BY <1>3 DEF IsInjective
    <3> QED  BY <1>3, <3>1 DEF Injection
  <2>2. Cardinality(1 .. n) = n
    BY <1>1, FS_Interval
  <2>3. order \in Surjection(1 .. n, Indexed)
    BY <1>1, <2>1, <2>2, FS_Injection
  <2> QED  BY <2>3 DEF Surjection
<1>5. PICK m \in 1 .. n : order[m] = v
  BY <1>4
<1> DEFINE seqs == [k \in 1 .. n |-> Matches(order[k], query)]
<1>6. ASSUME NEW w \in Indexed
      PROVE  /\ Matches(w, query) \in Seq(S)
             /\ \A s \in ToSet(documents[w].symbols) :
                  (\E k \in DOMAIN s.name : Same(<<s.name[k]>>, <<query>>))
                    => Span(w, s.namePos, 0) \in ToSet(Matches(w, query))
  <2>1. GoodDoc(documents[w]) /\ \A s \in ToSet(documents[w].symbols) : Span(w, s.namePos, 0) \in S
    BY DEF DocInv
  <2> HIDE DEF S
  <2> QED  BY <2>1, MatchesTyped
<1> HIDE DEF S
<1>7. seqs \in [1 .. n -> Seq(S)]
  BY <1>3, <1>6
<1>8. answer = Shortened(FlattenSeq(seqs))
  <2>1. DOMAIN order = 1 .. n
    BY <1>3
  <2> QED  BY Zenon, <1>2, <2>1
<1>9. Span(v, t.namePos, 0) \in ToSet(seqs[m])
  BY Zenon, <1>5, <1>6
<1> HIDE DEF seqs, n
<1>10. Span(v, t.namePos, 0) \in ToSet(FlattenSeq(seqs)) /\ FlattenSeq(seqs) \in Seq(S)
  BY <1>1, <1>7, <1>9, FlattenElements, FlattenTyped
<1>11. answer = FlattenSeq(seqs)
  <2> DEFINE all == FlattenSeq(seqs)
  <2>1. all \in Seq(S) /\ Len(all) \in Nat /\ MaxResults \in Nat
    BY <1>10, EditorAssumption
  <2>2. answer = IF Len(all) > MaxResults THEN SubSeq(all, 1, MaxResults) ELSE all
    BY <1>8 DEF Shortened
  <2> HIDE DEF all
  <2>3. CASE Len(all) > MaxResults
    <3>1. Len(SubSeq(all, 1, MaxResults)) = MaxResults
      BY <2>1, <2>3
    <3> QED  BY <2>1, <2>2, <2>3, <3>1
  <2> QED  BY <2>1, <2>2, <2>3 DEF all
<1> QED  BY <1>10, <1>11

LEMMA HoverHolds ==
  ASSUME DocInv
  PROVE  HoverDescribesTarget
<1> SUFFICES ASSUME NEW u \in Indexed, NEW p \in Cursors(Text(u)),
                    WordAt(Text(u), p) # NoName, QualifiedAt(Text(u)[p[1]], p) = <<>>,
                    RequiredAt(Text(u)[p[1]], p[2]) = NoName
             PROVE  IF Hover(u, p).kind = "word"
                    THEN \A d \in Definition(u, p) :
                           /\ config.caseSensitive => d.uri # u
                           /\ \A answer \in SearchSymbols(WordAt(Text(u), p)) :
                                Len(answer) < MaxResults => [d EXCEPT !.width = 0] \in ToSet(answer)
                    ELSE \E s \in ToSet(documents[u].symbols) :
                           /\ Definition(u, p) = {Span(u, s.namePos, 1)}
                           /\ Hover(u, p).kind = IF s.isFunction THEN "function" ELSE s.scope
                           /\ [label |-> <<WordAt(Text(u), p)>>, isFunction |-> s.isFunction] \in Completion(u)
  BY Zenon DEF HoverDescribesTarget
<1> DEFINE word == WordAt(Text(u), p)
           s    == Exactly(documents[u], <<word>>)
           own  == OwnDefinition(u, <<word>>)
<1>1. Hover(u, p) = IF s = NoSymbol THEN [kind |-> "word", word |-> word, params |-> <<>>]
                    ELSE IF s.isFunction
                    THEN [kind |-> "function", word |-> word, params |-> ParametersNear(documents[u], s)]
                    ELSE [kind |-> s.scope, word |-> word, params |-> <<>>]
  BY Zenon DEF Hover, Exactly
<1>2. own = IF s = NoSymbol THEN {} ELSE {Span(u, s.namePos, Len(s.name))}
  BY Zenon DEF OwnDefinition, Exactly
<1>3. Definition(u, p) = IF own # {} THEN own ELSE FindDefinition(<<word>>)
  <2>1. NameAt(u, p) = <<word>> /\ <<word>> # <<>>
    BY DEF NameAt
  <2> HIDE DEF word
  <2> QED  BY Zenon, <2>1 DEF Definition
<1>4. GoodDoc(documents[u])
  BY DEF DocInv
<1>5. FirstIs(s, documents[u], NamedExactly(documents[u], <<word>>))
  BY <1>4, FirstExactly
<1> HIDE DEF s, own, word
<1>6. CASE s = NoSymbol
  <2>1. Hover(u, p).kind = "word" /\ Definition(u, p) = FindDefinition(<<word>>)
    BY <1>1, <1>2, <1>3, <1>6
  <2>2. ASSUME NEW d \in FindDefinition(<<word>>)
        PROVE  /\ config.caseSensitive => d.uri # u
               /\ \A answer \in SearchSymbols(word) :
                    Len(answer) < MaxResults => [d EXCEPT !.width = 0] \in ToSet(answer)
    <3>1. PICK v \in Indexed : \E t \in ToSet(documents[v].symbols) :
            /\ d = Span(v, t.namePos, Len(t.name)) /\ Same(t.name, <<word>>)
            /\ t = FirstNamed(v, <<word>>) /\ t # NoSymbol
      BY FindsSame
    <3>2. PICK t \in ToSet(documents[v].symbols) :
            /\ d = Span(v, t.namePos, Len(t.name)) /\ Same(t.name, <<word>>)
            /\ t = FirstNamed(v, <<word>>) /\ t # NoSymbol
      BY <3>1
    <3>3. ASSUME config.caseSensitive, d.uri = u  PROVE FALSE
      <4>1. v = u
        BY <3>2, <3>3 DEF Span
      <4>2. NamedSame(documents[u], <<word>>) = NamedExactly(documents[u], <<word>>)
        BY Zenon, <3>3 DEF NamedSame, NamedExactly, Same
      <4>3. FirstIs(t, documents[u], NamedExactly(documents[u], <<word>>))
        BY <1>4, <3>2, <4>1, <4>2, FirstSame
      <4>4. PICK i \in NamedExactly(documents[u], <<word>>) :
              t = documents[u].symbols[i] /\ \A j \in NamedExactly(documents[u], <<word>>) : i <= j
        BY <3>2, <4>3 DEF FirstIs
      <4>5. PICK k \in NamedExactly(documents[u], <<word>>) :
              s = documents[u].symbols[k] /\ \A j \in NamedExactly(documents[u], <<word>>) : k <= j
        BY <1>5, <4>4 DEF FirstIs
      <4>6. i \in Nat /\ k \in Nat /\ i <= k /\ k <= i
        BY <1>4, <4>4, <4>5, GoodDocIs DEF NamedExactly
      <4>7. i = k
        BY <4>6
      <4> QED  BY Zenon, <1>6, <3>2, <4>4, <4>5, <4>7
    <3>4. [d EXCEPT !.width = 0] = Span(v, t.namePos, 0)
      BY <3>2 DEF Span
    <3>5. \E k \in DOMAIN t.name : Same(<<t.name[k]>>, <<word>>)
      <4>1. GoodDoc(documents[v])
        BY DEF DocInv
      <4>2. PICK n \in Names : \/ t.name = <<n>> /\ Len(t.name) = 1
                               \/ Len(t.name) = 3
        BY <4>1, SymbolShape
      <4>3. Len(<<word>>) = 1
        OBVIOUS
      <4>4. t.name = <<n>>
        <5>1. t.name = <<word>> \/ Len(t.name) = Len(<<word>>)
          BY <3>2 DEF Same
        <5> QED  BY <4>2, <4>3, <5>1
      <4>5. 1 \in DOMAIN t.name /\ <<t.name[1]>> = t.name
        BY <4>4
      <4> QED  BY <3>2, <4>5
    <3>6. ASSUME NEW answer \in SearchSymbols(word), Len(answer) < MaxResults
          PROVE  Span(v, t.namePos, 0) \in ToSet(answer)
      BY <3>5, <3>6, SearchFinds
    <3> QED  BY <3>3, <3>4, <3>6
  <2> QED  BY <2>1, <2>2 DEF word
<1>7. CASE s # NoSymbol
  <2>1. PICK j \in NamedExactly(documents[u], <<word>>) : s = documents[u].symbols[j]
    BY <1>5, <1>7 DEF FirstIs
  <2>2. s \in ToSet(documents[u].symbols) /\ s.name = <<word>>
    BY <1>4, <2>1, GoodDocIs DEF NamedExactly
  <2>3. Len(s.name) = 1
    BY <2>2
  <2>4. own = {Span(u, s.namePos, 1)} /\ Definition(u, p) = {Span(u, s.namePos, 1)}
    BY <1>2, <1>3, <1>7, <2>3
  <2>5. s.scope \in {"global", "local", "parameter"}
    BY <1>4, <2>2, GoodDocIs DEF SymbolAt
  <2>6. Hover(u, p).kind = IF s.isFunction THEN "function" ELSE s.scope
    BY <1>1, <1>7
  <2>7. Hover(u, p).kind # "word"
    BY <2>5, <2>6
  <2>8. [label |-> <<word>>, isFunction |-> s.isFunction] \in Completion(u)
    <3>1. s \in {t \in ToSet(documents[u].symbols) : u = u \/ t.scope = "global"}
      BY Zenon, <2>2
    <3>2. [label |-> s.name, isFunction |-> s.isFunction] \in Completion(u)
      <4> DEFINE E(v) == {[label |-> t.name, isFunction |-> t.isFunction] :
                            t \in {t \in ToSet(documents[v].symbols) : v = u \/ t.scope = "global"}}
      <4>1. Completion(u) = UNION {E(v) : v \in Indexed}
        BY Zenon DEF Completion
      <4>2. [label |-> s.name, isFunction |-> s.isFunction] \in E(u)
        BY Zenon, <3>1
      <4> HIDE DEF E
      <4> QED  BY Zenon, <4>1, <4>2
    <3> QED  BY Zenon, <2>2, <3>2
  <2> QED  BY <2>2, <2>4, <2>6, <2>7, <2>8 DEF word
<1> QED  BY <1>6, <1>7

-------------------------------------------------------------------------------
(* definition and references                                               *)

LEMMA IndexedTexts ==
  ASSUME DocInv, NEW u \in Indexed
  PROVE  GoodDoc(documents[u]) /\ Texted(Text(u)) /\ Text(u) = documents[u].text
BY TextOf, GoodDocIs DEF DocInv

LEMMA CursorsAre ==
  ASSUME NEW text, Texted(text), NEW p \in Cursors(text)
  PROVE  p = <<p[1], p[2]>> /\ p[1] \in DOMAIN text /\ p[2] \in 1 .. Len(text[p[1]]) + 1
<1>1. PICK i \in DOMAIN text : p \in {i} \X (1 .. Len(text[i]) + 1)
  BY DEF Cursors
<1> QED  BY <1>1

LEMMA WordColumnIs ==
  ASSUME NEW line \in Seq(STRING), NEW c \in 1 .. Len(line) + 1
  PROVE  /\ WordColumn(line, c) \in 0 .. Len(line)
         /\ c <= Len(line) /\ line[c] \notin Punctuation => WordColumn(line, c) = c
<1>1. Len(line) \in Nat
  BY LenProperties
<1>2. CASE c <= Len(line) /\ line[c] \notin Punctuation
  BY <1>1, <1>2 DEF WordColumn
<1>3. CASE ~(c <= Len(line) /\ line[c] \notin Punctuation)
  <2>1. WordColumn(line, c) \in {0, c - 1} /\ (c = 1 => WordColumn(line, c) = 0)
    BY <1>1, <1>3 DEF WordColumn
  <2> QED  BY <1>1, <1>3, <2>1
<1> QED  BY <1>2, <1>3

LEMMA WordIs ==
  ASSUME NEW text, Texted(text), NEW p \in Cursors(text), WordAt(text, p) # NoName
  PROVE  LET c == WordColumn(text[p[1]], p[2])
         IN /\ c \in 1 .. Len(text[p[1]]) /\ WordAt(text, p) = text[p[1]][c]
            /\ <<p[1], c>> \in Positions(text)
<1> DEFINE c == WordColumn(text[p[1]], p[2])
<1>1. p[1] \in DOMAIN text /\ p[2] \in 1 .. Len(text[p[1]]) + 1 /\ text[p[1]] \in Seq(STRING)
  BY CursorsAre, TextIs
<1>2. c \in 0 .. Len(text[p[1]]) /\ Len(text[p[1]]) \in Nat
  BY <1>1, WordColumnIs, LenProperties
<1>3. c # 0 /\ WordAt(text, p) = text[p[1]][c]
  BY DEF WordAt
<1> HIDE DEF c
<1>4. c \in 1 .. Len(text[p[1]])
  BY <1>2, <1>3
<1>5. <<p[1], c>> \in Positions(text)
  BY <1>1, <1>4, TextIs
<1> QED  BY <1>3, <1>4, <1>5 DEF c

\* At a name that is declared, the word is that name.
LEMMA WordAtName ==
  ASSUME DocInv, NEW u \in Indexed, NEW q \in Positions(Text(u)), NEW n \in Names,
         Text(u)[q[1]][q[2]] = n
  PROVE  /\ WordAt(Text(u), q) = n /\ n # NoName /\ NameAt(u, q) = <<n>>
         /\ WordColumn(Text(u)[q[1]], q[2]) = q[2]
<1>1. Texted(Text(u))
  BY IndexedTexts
<1>2. /\ q[1] \in DOMAIN Text(u) /\ q[2] \in 1 .. Len(Text(u)[q[1]])
      /\ Text(u)[q[1]] \in Seq(STRING) /\ Len(Text(u)[q[1]]) \in Nat
  BY <1>1, TextIs
<1>3. n \notin Punctuation /\ n # NoName
  BY NamesAreNot
<1>4. WordColumn(Text(u)[q[1]], q[2]) = q[2]
  BY <1>2, <1>3, WordColumnIs
<1>5. WordAt(Text(u), q) = n
  BY <1>2, <1>4 DEF WordAt
<1> QED  BY <1>3, <1>4, <1>5 DEF NameAt

LEMMA SameSymmetric ==
  ASSUME NEW a, NEW b, Same(a, b), DOMAIN a = 1 .. Len(a), DOMAIN b = 1 .. Len(b)
  PROVE  Same(b, a)
<1>1. CASE a = b
  BY <1>1 DEF Same
<1>2. CASE a # b
  <2>1. /\ ~config.caseSensitive /\ Len(a) = Len(b)
        /\ \A k \in DOMAIN a : NormalizeName(a[k]) = NormalizeName(b[k])
    BY <1>2 DEF Same
  <2>2. \A k \in DOMAIN b : NormalizeName(b[k]) = NormalizeName(a[k])
    BY <2>1
  <2> QED  BY <2>1, <2>2 DEF Same
<1> QED  BY <1>1, <1>2

LEMMA ReferencesHave ==
  ASSUME DocInv, NEW u \in Indexed, NEW q \in Positions(Text(u)), NEW word, NEW n,
         Text(u)[q[1]][q[2]] = word, Same(<<word>>, <<n>>)
  PROVE  Span(u, q, 1) \in FindReferences(<<n>>)
<1>1. Texted(Text(u))
  BY IndexedTexts
<1>2. q[1] \in DOMAIN Text(u) /\ q[2] \in 1 .. Len(Text(u)[q[1]]) /\ Text(u)[q[1]] \in Seq(STRING)
  BY <1>1, TextIs
<1>3. Words(Text(u)[q[1]], q[2], 1) = <<word>>
  BY <1>2, OneWord
<1>4. Len(<<n>>) = 1
  OBVIOUS
<1>5. Same(Words(Text(u)[q[1]], q[2], Len(<<n>>)), <<n>>)
  BY Zenon, <1>3, <1>4
<1> DEFINE R(v) == {Span(v, p, Len(<<n>>)) :
                      p \in {p \in Positions(Text(v)) :
                               Same(Words(Text(v)[p[1]], p[2], Len(<<n>>)), <<n>>)}}
<1>6. FindReferences(<<n>>) = UNION {R(v) : v \in Indexed}
  BY Zenon DEF FindReferences
<1>7. Span(u, q, Len(<<n>>)) \in R(u)
  BY Zenon, <1>5
<1> HIDE DEF R
<1>8. Span(u, q, Len(<<n>>)) \in FindReferences(<<n>>)
  BY Zenon, <1>6, <1>7
<1> QED  BY Zenon, <1>4, <1>8

LEMMA QualifiedIs ==
  ASSUME NEW line \in Seq(STRING), NEW p, p[2] \in 1 .. Len(line) + 1, QualifiedAt(line, p) # <<>>
  PROVE  /\ WordColumn(line, p[2]) \in 1 .. Len(line)
         /\ \E b \in 1 .. Len(line) : /\ b + 2 <= Len(line) /\ WordColumn(line, p[2]) \in b .. b + 2
                                      /\ QualifiedAt(line, p) = SubSeq(line, b, b + 2)
                                      /\ Len(QualifiedAt(line, p)) = 3
<1> DEFINE c == WordColumn(line, p[2])
           name == QualifiedAt(line, p)
<1>1. c \in 0 .. Len(line) /\ Len(line) \in Nat
  BY WordColumnIs, LenProperties
<1>2. \/ c > 2 /\ name = SubSeq(line, c - 2, c)
      \/ c \in 1 .. Len(line) - 2 /\ name = SubSeq(line, c, c + 2)
  BY DEF QualifiedAt
<1> HIDE DEF c, name
<1>3. PICK b \in 1 .. Len(line) : b + 2 <= Len(line) /\ c \in b .. b + 2 /\ name = SubSeq(line, b, b + 2)
  <2>1. CASE c > 2 /\ name = SubSeq(line, c - 2, c)
    <3> DEFINE b == c - 2
    <3>1. c = b + 2 /\ b \in 1 .. Len(line) /\ b + 2 <= Len(line) /\ c \in b .. b + 2
      BY <1>1, <2>1
    <3>2. name = SubSeq(line, b, c)
      BY <2>1
    <3> HIDE DEF b
    <3>3. name = SubSeq(line, b, b + 2)
      BY Zenon, <3>1, <3>2
    <3> QED  BY Zenon, <3>1, <3>3
  <2>2. CASE c \in 1 .. Len(line) - 2 /\ name = SubSeq(line, c, c + 2)
    BY <1>1, <2>2
  <2> QED  BY <1>2, <2>1, <2>2
<1>4. \A i \in b .. b + 2 : line[i] \in STRING
  BY <1>1, <1>3, ElementOfSeq
<1>5. Len(SubSeq(line, b, b + 2)) = 3
  <2>1. Len(SubSeq(line, b, b + 2)) = IF b <= b + 2 THEN b + 2 - b + 1 ELSE 0
    BY <1>4, SubSeqProperties
  <2> QED  BY <2>1
<1> QED  BY <1>1, <1>3, <1>5 DEF c, name

\* Without modules, only the word itself may be gone to.
LEMMA DefinitionIs ==
  ASSUME DocInv, WithoutModules, NEW u \in Indexed, NEW p \in Cursors(Text(u)),
         RequiredAt(Text(u)[p[1]], p[2]) = NoName, NEW d \in Definition(u, p)
  PROVE  LET word == WordAt(Text(u), p)
         IN /\ word # NoName
            /\ \E v \in Indexed : \E s \in ToSet(documents[v].symbols) :
                 d = Span(v, s.namePos, Len(s.name)) /\ Same(s.name, <<word>>)
<1> DEFINE word == WordAt(Text(u), p)
           name == NameAt(u, p)
           qualified == QualifiedAt(Text(u)[p[1]], p)
           under == FindSymbolAt(documents[u], p)
<1>0. GoodDoc(documents[u]) /\ Texted(Text(u)) /\ Text(u) = documents[u].text
  BY IndexedTexts
<1>1. /\ p = <<p[1], p[2]>> /\ p[1] \in DOMAIN Text(u) /\ p[2] \in 1 .. Len(Text(u)[p[1]]) + 1
      /\ Text(u)[p[1]] \in Seq(STRING) /\ Len(Text(u)[p[1]]) \in Nat /\ p[1] \in Nat /\ p[2] \in Nat
  BY <1>0, CursorsAre, TextIs
<1>2. \A v \in Indexed : \A s \in ToSet(documents[v].symbols) :
        \E n \in Names : \E i \in DOMAIN Text(v) :
          /\ SymbolAt(Text(v), NoName, i, s) /\ Text(v)[i][s.namePos[2]] = n
          /\ s.name = <<n>> /\ Len(s.name) = 1
  <2> SUFFICES ASSUME NEW v \in Indexed, NEW s \in ToSet(documents[v].symbols)
               PROVE  \E n \in Names : \E i \in DOMAIN Text(v) :
                        /\ SymbolAt(Text(v), NoName, i, s) /\ Text(v)[i][s.namePos[2]] = n
                        /\ s.name = <<n>> /\ Len(s.name) = 1
    OBVIOUS
  <2>1. GoodDoc(documents[v]) /\ Text(v) = documents[v].text /\ documents[v].moduleName = NoName
    BY IndexedTexts DEF WithoutModules
  <2> QED  BY <2>1, SymbolShape
<1>3. ASSUME word = NoName  PROVE under = NoSymbol
  <2> SUFFICES ASSUME under # NoSymbol PROVE FALSE
    OBVIOUS
  <2>1. FirstIs(under, documents[u], Under(documents[u], p))
    BY <1>0, FirstUnder
  <2>2. PICK j \in Under(documents[u], p) : under = documents[u].symbols[j]
    BY <2>1 DEF FirstIs
  <2> DEFINE s == documents[u].symbols[j]
  <2>3. /\ j \in 1 .. Len(documents[u].symbols) /\ p[1] = s.namePos[1]
        /\ p[2] \in s.namePos[2] .. s.namePos[2] + Len(s.name) - 1
    BY <2>2 DEF Under
  <2>4. s \in ToSet(documents[u].symbols)
    BY <1>0, <2>3, GoodDocIs
  <2> HIDE DEF s
  <2>5. PICK n \in Names, i \in DOMAIN Text(u) :
          /\ SymbolAt(Text(u), NoName, i, s) /\ Text(u)[i][s.namePos[2]] = n
          /\ s.name = <<n>> /\ Len(s.name) = 1
    BY <1>2, <2>4
  <2>6. s.namePos \in Positions(Text(u)) /\ s.namePos[1] = i
    BY <2>5 DEF SymbolAt
  <2>7. s.namePos = <<s.namePos[1], s.namePos[2]>> /\ s.namePos[2] \in Nat
    BY <1>0, <2>6, TextIs
  <2>8. p[2] = s.namePos[2]
    BY <1>1, <2>3, <2>5, <2>7
  <2>9. p = s.namePos
    BY <1>1, <2>3, <2>7, <2>8
  <2>10. word = n /\ n # NoName
    BY <2>5, <2>6, <2>9, WordAtName
  <2> QED  BY <1>3, <2>10
<1>4. \A q : Len(q) = 3 => FindDefinition(q) = {}
  <2> SUFFICES ASSUME NEW q, Len(q) = 3, NEW e \in FindDefinition(q) PROVE FALSE
    OBVIOUS
  <2>0. PICK v \in Indexed : \E s \in ToSet(documents[v].symbols) : Same(s.name, q)
    BY FindsSame
  <2>1. PICK s \in ToSet(documents[v].symbols) : Same(s.name, q)
    BY <2>0
  <2>2. Len(s.name) = 1
    BY <1>2
  <2>3. s.name = q \/ Len(s.name) = Len(q)
    BY <2>1 DEF Same
  <2> QED  BY <2>2, <2>3
<1>5. qualified = <<>> \/ FindDefinition(qualified) = {}
  <2> HIDE DEF qualified
  <2>1. qualified # <<>> => Len(qualified) = 3
    BY <1>1, QualifiedIs DEF qualified
  <2> QED  BY <1>4, <2>1
<1>6. name = IF word # NoName THEN <<word>> ELSE IF under # NoSymbol THEN under.name ELSE <<>>
  BY Zenon DEF NameAt
<1>7. Definition(u, p) = IF name = <<>> THEN {}
                         ELSE IF OwnDefinition(u, name) # {} THEN OwnDefinition(u, name)
                         ELSE FindDefinition(name)
  BY Zenon, <1>5 DEF Definition
<1> HIDE DEF word, name, under, qualified
<1>8. word # NoName /\ name = <<word>>
  BY <1>3, <1>6, <1>7
<1>9. CASE d \in OwnDefinition(u, name)
  <2> DEFINE s == Exactly(documents[u], name)
  <2>1. OwnDefinition(u, name) = IF s = NoSymbol THEN {} ELSE {Span(u, s.namePos, Len(s.name))}
    BY Zenon DEF OwnDefinition, Exactly
  <2>2. FirstIs(s, documents[u], NamedExactly(documents[u], name))
    BY <1>0, FirstExactly
  <2> HIDE DEF s
  <2>3. s # NoSymbol /\ d = Span(u, s.namePos, Len(s.name))
    BY <1>9, <2>1
  <2>4. PICK j \in NamedExactly(documents[u], name) : s = documents[u].symbols[j]
    BY <2>2, <2>3 DEF FirstIs
  <2>5. s \in ToSet(documents[u].symbols) /\ s.name = name
    BY <1>0, <2>4, GoodDocIs DEF NamedExactly
  <2>6. Same(s.name, <<word>>)
    BY <1>8, <2>5 DEF Same
  <2> QED  BY <1>8, <2>3, <2>5, <2>6 DEF word
<1>10. CASE d \in FindDefinition(name)
  BY <1>8, <1>10, FindsSame DEF word
<1> QED  BY <1>7, <1>9, <1>10

\* References of a symbol's own place, in a document without a module.
LEMMA ReferencesOf ==
  ASSUME DocInv, NEW v \in Indexed, NEW s \in ToSet(documents[v].symbols)
  PROVE  \E n \in Names :
           /\ s.namePos = <<s.namePos[1], s.namePos[2]>> /\ NameAt(v, s.namePos) = <<n>>
           /\ \/ s.name = <<n>> /\ Len(s.name) = 1
              \/ /\ documents[v].moduleName # NoName /\ Len(s.name) = 3
                 /\ s.name = <<documents[v].moduleName, ".", n>>
<1>0. GoodDoc(documents[v]) /\ Texted(Text(v)) /\ Text(v) = documents[v].text
  BY IndexedTexts
<1>1. PICK n \in Names : \E i \in DOMAIN Text(v) :
           /\ SymbolAt(Text(v), documents[v].moduleName, i, s)
           /\ Text(v)[i][s.namePos[2]] = n
           /\ (s.name = <<n>> /\ Len(s.name) = 1)
              \/ (/\ documents[v].moduleName # NoName
                  /\ s.name = <<documents[v].moduleName, ".", n>> /\ Len(s.name) = 3)
  BY <1>0, SymbolShape
<1>2. s.namePos \in Positions(Text(v)) /\ Text(v)[s.namePos[1]][s.namePos[2]] = n
  BY <1>1 DEF SymbolAt
<1>3. s.namePos = <<s.namePos[1], s.namePos[2]>>
  BY <1>0, <1>2, TextIs
<1>4. NameAt(v, s.namePos) = <<n>>
  BY <1>2, WordAtName
<1> QED  BY <1>1, <1>3, <1>4

LEMMA AgreeWithoutModules ==
  ASSUME DocInv, WithoutModules, NEW u \in Indexed, NEW p \in Cursors(Text(u)),
         RequiredAt(Text(u)[p[1]], p[2]) = NoName, NEW d \in Definition(u, p)
  PROVE  ReferencesFind(d, u, p)
<1> DEFINE word == WordAt(Text(u), p)
           c == WordColumn(Text(u)[p[1]], p[2])
<1>0. GoodDoc(documents[u]) /\ Texted(Text(u)) /\ Text(u) = documents[u].text
  BY IndexedTexts
<1>1. word # NoName
  BY DefinitionIs
<1>2. PICK v \in Indexed : \E s \in ToSet(documents[v].symbols) :
         d = Span(v, s.namePos, Len(s.name)) /\ Same(s.name, <<word>>)
  BY DefinitionIs
<1>3. PICK s \in ToSet(documents[v].symbols) :
         d = Span(v, s.namePos, Len(s.name)) /\ Same(s.name, <<word>>)
  BY <1>2
<1>4. documents[v].moduleName = NoName
  BY DEF WithoutModules
<1>5. PICK n \in Names : /\ s.namePos = <<s.namePos[1], s.namePos[2]>>
                         /\ NameAt(v, s.namePos) = <<n>> /\ s.name = <<n>>
  BY <1>4, ReferencesOf
<1>6. <<d.line, d.column>> = s.namePos /\ d.uri = v
  BY <1>3, <1>5 DEF Span
<1>7. References(v, s.namePos) = FindReferences(<<n>>)
  <2>1. <<n>> # <<>>
    OBVIOUS
  <2> QED  BY Zenon, <1>4, <1>5, <2>1 DEF References
<1>8. /\ c \in 1 .. Len(Text(u)[p[1]]) /\ word = Text(u)[p[1]][c] /\ <<p[1], c>> \in Positions(Text(u))
  BY <1>0, <1>1, WordIs
<1> HIDE DEF word, c
<1>9. Same(<<word>>, <<n>>)
  <2>1. DOMAIN <<word>> = 1 .. Len(<<word>>) /\ DOMAIN <<n>> = 1 .. Len(<<n>>)
    OBVIOUS
  <2>2. Same(<<n>>, <<word>>)
    BY <1>3, <1>5
  <2> QED  BY <2>1, <2>2, SameSymmetric
<1>10. Span(u, <<p[1], c>>, 1) \in FindReferences(<<n>>)
  <2>1. <<p[1], c>>[1] = p[1] /\ <<p[1], c>>[2] = c
    OBVIOUS
  <2>2. Text(u)[<<p[1], c>>[1]][<<p[1], c>>[2]] = word
    BY Zenon, <1>8, <2>1
  <2> QED  BY <1>8, <1>9, <2>2, ReferencesHave
<1>11. Covers(Span(u, <<p[1], c>>, 1), u, <<p[1], c>>)
  <2>1. c \in Nat
    BY <1>8
  <2> QED  BY <2>1 DEF Covers, Span
<1>12. \E r \in References(d.uri, <<d.line, d.column>>) : Covers(r, u, <<p[1], c>>)
  BY <1>6, <1>7, <1>10, <1>11
<1> QED  BY <1>12 DEF ReferencesFind, c

LEMMA AgreeOnModules ==
  ASSUME DocInv, config.caseSensitive, NEW u \in Indexed, NEW p \in Positions(Text(u)),
         QualifiedAt(Text(u)[p[1]], p) # <<>>,
         NEW d \in FindDefinition(QualifiedAt(Text(u)[p[1]], p)), d.uri # u
  PROVE  ReferencesFind(d, u, p)
<1> DEFINE line == Text(u)[p[1]]
           name == QualifiedAt(line, p)
           c == WordColumn(line, p[2])
<1>0. GoodDoc(documents[u]) /\ Texted(Text(u)) /\ Text(u) = documents[u].text
  BY IndexedTexts
<1>1. /\ p[1] \in DOMAIN Text(u) /\ p[2] \in 1 .. Len(line) + 1 /\ line \in Seq(STRING) /\ Len(line) \in Nat
  BY <1>0, TextIs
<1>2. PICK b \in 1 .. Len(line) : /\ b + 2 <= Len(line) /\ c \in b .. b + 2
                                  /\ name = SubSeq(line, b, b + 2) /\ Len(name) = 3
  BY <1>1, QualifiedIs
<1>3. PICK v \in Indexed : \E s \in ToSet(documents[v].symbols) :
           d = Span(v, s.namePos, Len(s.name)) /\ Same(s.name, name)
  BY FindsSame
<1>4. PICK s \in ToSet(documents[v].symbols) : d = Span(v, s.namePos, Len(s.name)) /\ Same(s.name, name)
  BY <1>3
<1> HIDE DEF name, line, c
<1>5. s.name = name
  BY <1>4 DEF Same
<1> DEFINE m == documents[v].moduleName
<1>6. PICK n \in Names : /\ s.namePos = <<s.namePos[1], s.namePos[2]>> /\ NameAt(v, s.namePos) = <<n>>
                         /\ m # NoName /\ name = <<m, ".", n>>
  <2>1. PICK n \in Names :
           /\ s.namePos = <<s.namePos[1], s.namePos[2]>> /\ NameAt(v, s.namePos) = <<n>>
           /\ \/ s.name = <<n>> /\ Len(s.name) = 1
              \/ m # NoName /\ Len(s.name) = 3 /\ s.name = <<m, ".", n>>
    BY ReferencesOf
  <2> HIDE DEF m
  <2> QED  BY <1>2, <1>5, <2>1
<1>7. <<d.line, d.column>> = s.namePos /\ d.uri = v /\ v # u
  BY <1>4, <1>6 DEF Span
<1> HIDE DEF m
<1>8. <<m, ".">> \o <<n>> = name
  <2> DEFINE S == {m, ".", n}
  <2>1. <<m, ".">> \in Seq(S) /\ <<n>> \in Seq(S) /\ name \in Seq(S) /\ Len(<<m, ".">>) = 2 /\ Len(<<n>>) = 1
    BY <1>6
  <2>2. /\ <<m, ".">> \o <<n>> \in Seq(S) /\ Len(<<m, ".">> \o <<n>>) = 3
        /\ \A i \in 1 .. 3 : (<<m, ".">> \o <<n>>)[i] = IF i <= 2 THEN <<m, ".">>[i] ELSE <<n>>[i - 2]
    BY <2>1, ConcatProperties
  <2>3. /\ (<<m, ".">> \o <<n>>)[1] = m /\ (<<m, ".">> \o <<n>>)[2] = "." /\ (<<m, ".">> \o <<n>>)[3] = n
    BY <2>2
  <2>4. name[1] = m /\ name[2] = "." /\ name[3] = n
    BY <1>6
  <2> DEFINE t == <<m, ".">> \o <<n>>
  <2>5. t \in Seq(S) /\ Len(t) = 3 /\ t[1] = m /\ t[2] = "." /\ t[3] = n
    BY <2>2, <2>3
  <2> HIDE DEF S, t
  <2>6. Len(t) = Len(name) /\ \A i \in 1 .. Len(t) : t[i] = name[i]
    BY <1>2, <2>4, <2>5
  <2>7. t = name
    BY <2>1, <2>5, <2>6, SeqEqual
  <2> QED  BY <2>7 DEF t
<1>9. <<p[1], b>> \in Occurrences(Text(u), name)
  <2>1. <<p[1], b>> \in Positions(Text(u))
    BY <1>0, <1>1, TextIs DEF line
  <2>2. Words(line, b, 3) = name
    <3>1. b + 3 - 1 = b + 2
      OBVIOUS
    <3> QED  BY <1>1, <1>2, <3>1 DEF Words
  <2> QED  BY <1>2, <2>1, <2>2 DEF Occurrences, line
<1> DEFINE own == NameAt(v, s.namePos)
           Other(w) == {Span(w, q, Len(own) + 2) : q \in Occurrences(Text(w), <<documents[v].moduleName, ".">> \o own)}
<1>10. UNION {Other(w) : w \in Indexed \ ({v} \ Unnormalized)} \subseteq References(v, s.namePos)
  <2>1. own # <<>> /\ documents[v].moduleName # NoName
    <3>1. <<n>> # <<>>
      OBVIOUS
    <3> QED  BY Zenon, <1>6, <3>1 DEF m
  <2>2. References(v, s.namePos) =
         {Span(v, q, Len(own)) : q \in Occurrences(Text(v), own)}
         \cup UNION {Other(w) : w \in Indexed \ ({v} \ Unnormalized)}
    BY Zenon, <2>1 DEF References
  <2> HIDE DEF Other, own
  <2> QED  BY Zenon, <2>2
<1>11. Span(u, <<p[1], b>>, 3) \in Other(u)
  <2>1. Len(own) + 2 = 3
    <3>1. Len(<<n>>) + 2 = 3
      OBVIOUS
    <3> QED  BY Zenon, <1>6, <3>1
  <2>2. <<p[1], b>> \in Occurrences(Text(u), <<documents[v].moduleName, ".">> \o own)
    BY Zenon, <1>6, <1>8, <1>9 DEF m
  <2> HIDE DEF own
  <2> QED  BY Zenon, <2>1, <2>2
<1> HIDE DEF Other
<1>12. Span(u, <<p[1], b>>, 3) \in References(v, s.namePos)
  <2>1. u \in Indexed \ ({v} \ Unnormalized)
    BY <1>7
  <2> QED  BY Zenon, <1>10, <1>11, <2>1
<1>13. Covers(Span(u, <<p[1], b>>, 3), u, <<p[1], c>>)
  <2>1. c \in b .. b + 3 - 1
    BY <1>2
  <2> QED  BY <2>1 DEF Covers, Span
<1>14. \E r \in References(d.uri, <<d.line, d.column>>) : Covers(r, u, <<p[1], c>>)
  BY <1>7, <1>12, <1>13
<1> QED  BY <1>14 DEF ReferencesFind, c, line

LEMMA DefinitionAgrees ==
  ASSUME DocInv
  PROVE  DefinitionReferencesAgree
<1>1. ASSUME WithoutModules, NEW u \in Indexed, NEW p \in Cursors(Text(u)),
             RequiredAt(Text(u)[p[1]], p[2]) = NoName, NEW d \in Definition(u, p)
      PROVE  ReferencesFind(d, u, p)
  BY <1>1, AgreeWithoutModules
<1>2. ASSUME config.caseSensitive, NEW u \in Indexed, NEW p \in Positions(Text(u)),
             NEW d \in (IF QualifiedAt(Text(u)[p[1]], p) = <<>> THEN {}
                        ELSE FindDefinition(QualifiedAt(Text(u)[p[1]], p))), d.uri # u
      PROVE  ReferencesFind(d, u, p)
  BY <1>2, AgreeOnModules
<1> QED  BY Zenon, <1>1, <1>2 DEF DefinitionReferencesAgree

-------------------------------------------------------------------------------
(* The names of a line are in place                                        *)

LEMMA ParametersInOrder ==
  ASSUME NEW text, NEW i, Texted(text), i \in DOMAIN text, Statement(text[i]), IsFunction(text[i]), NEW col,
         NameColumns(col, text[i], Column(text[i], "("), Column(text[i], ")"), Parameters(text[i]))
  PROVE  InOrder(text, i, Parameters(text[i]), col, Column(text[i], "function"))
<1> DEFINE params == Parameters(text[i])
           c0 == Column(text[i], "function")
           q == Column(text[i], "(")
<1>1. /\ params \in Seq(Names) /\ col \in [1 .. Len(params) -> 1 .. Len(text[i])] /\ Len(params) \in Nat
      /\ \A k \in 1 .. Len(params) : params[k] = text[i][col[k]] /\ col[k] \in q .. Column(text[i], ")")
      /\ \A k, r \in 1 .. Len(params) : r < k => col[r] < col[k]
  BY DEF NameColumns
<1>2. q \in 3 .. Len(text[i]) - 1 /\ c0 \in 1 .. 2
  BY FunctionColumns
<1> HIDE DEF params, c0, q
<1>3. Len(params) # 0 => 1 \in 1 .. Len(params)
  BY <1>1
<1>4. c0 \in Nat /\ (Len(params) # 0 => c0 <= col[1])
  BY <1>1, <1>2, <1>3
<1> QED  BY <1>1, <1>4 DEF InOrder, params, c0

LEMMA DeclaredInOrder ==
  ASSUME NEW text, NEW i, Texted(text), i \in DOMAIN text, NEW col,
         NameColumns(col, text[i], 1, NamesEnd(text[i]), DeclaredNames(text[i]))
  PROVE  InOrder(text, i, DeclaredNames(text[i]), col, 1)
BY LenProperties DEF NameColumns, InOrder

LEMMA LengthOne ==
  ASSUME NEW n
  PROVE  Len(<<n>>) = 1
OBVIOUS

\* The symbols of a line with names of one word: their places are the columns
\* that declare names, in their order.
LineInPlace(L, text, i) ==
  LET found == {j \in 1 .. Len(L) : Len(L[j].name) = 1}
      cols  == DeclaringColumns(text[i])
  IN /\ \A j \in found : \E c \in cols : L[j].namePos = <<i, c>>
     /\ \A c \in cols : \E j \in found : L[j].namePos = <<i, c>>
     /\ \A j, k \in found : j < k => Before(L[j].namePos, L[k].namePos)

LEMMA BeforeInLine ==
  ASSUME NEW i, NEW c, NEW d, c < d
  PROVE  Before(<<i, c>>, <<i, d>>)
BY DEF Before

LEMMA LocalsInPlace ==
  ASSUME NEW text, NEW i, Texted(text), i \in DOMAIN text, Statement(text[i]),
         ~IsFunction(text[i]), Declares(text[i])
  PROVE  LineInPlace(LocalSymbols(text, i), text, i)
<1> DEFINE L == LocalSymbols(text, i)
           names == DeclaredNames(text[i])
           cols == DeclaringColumns(text[i])
<1>1. PICK col : NameColumns(col, text[i], 1, NamesEnd(text[i]), names)
  BY DeclaredColumns
<1>2. PlacedSymbols(L, text, i, names, col, 1, "local")
  BY <1>1, LocalSymbolsAre
<1>3. InOrder(text, i, names, col, 1)
  BY <1>1, DeclaredInOrder
<1>4. /\ Len(names) \in Nat
      /\ \A k \in 1 .. Len(names) : /\ col[k] \in 1 .. NamesEnd(text[i]) /\ names[k] = text[i][col[k]]
                                    /\ names[k] \in Names
      /\ \A k, m \in 1 .. Len(names) : m < k => col[m] < col[k]
      /\ \A c \in 1 .. NamesEnd(text[i]) : text[i][c] \in Names => \E k \in 1 .. Len(names) : col[k] = c
  BY <1>1 DEF NameColumns
<1>5. cols = {c \in 1 .. NamesEnd(text[i]) : text[i][c] \in Names}
  BY DEF DeclaringColumns
<1>6. NamesEnd(text[i]) \in Nat
  BY NamesEndIs, LenProperties DEF Statement
<1> HIDE DEF L, names, cols
<1>7. \A k \in 1 .. Len(names) : Places(text, names, <<i, 1>>)[k] = <<i, col[k]>>
  <2>1. ASSUME NEW k \in 1 .. Len(names), NEW e \in 1 .. col[k],
               e \in 1 .. Len(text[i]), text[i][e] = names[k]
        PROVE  \E m \in 1 .. Len(names) : col[m] = e
    <3>1. e \in 1 .. NamesEnd(text[i]) /\ text[i][e] \in Names
      BY <1>4, <1>6, <2>1
    <3> QED  BY <1>4, <3>1
  <2> QED  BY SMTT(20), <1>3, <2>1, PlacesExact
<1>8. /\ Len(L) = Len(names)
      /\ \A k \in 1 .. Len(names) : Len(L[k].name) = 1 /\ L[k].namePos = <<i, col[k]>>
  <2>1. /\ Len(L) = Len(names)
        /\ \A k \in 1 .. Len(names) : /\ L[k].name = <<names[k]>>
                                      /\ L[k].namePos = Places(text, names, <<i, 1>>)[k]
    BY Zenon, <1>2 DEF PlacedSymbols
  <2> QED  BY Zenon, <1>7, <2>1, LengthOne
<1>9. ASSUME NEW c \in cols  PROVE \E k \in 1 .. Len(L) : L[k].namePos = <<i, c>>
  <2>1. PICK k \in 1 .. Len(names) : col[k] = c
    BY <1>4, <1>5
  <2> QED  BY <1>8, <2>1
<1>10. ASSUME NEW k \in 1 .. Len(L)  PROVE \E c \in cols : L[k].namePos = <<i, c>>
  BY <1>4, <1>5, <1>8
<1>11. ASSUME NEW j \in 1 .. Len(L), NEW k \in 1 .. Len(L), j < k
       PROVE  Before(L[j].namePos, L[k].namePos)
  <2>1. col[j] < col[k]
    BY <1>4, <1>8, <1>11
  <2> QED  BY <1>8, <2>1, BeforeInLine
<1>12. {j \in 1 .. Len(L) : Len(L[j].name) = 1} = 1 .. Len(L)
  BY <1>8
<1> QED  BY <1>9, <1>10, <1>11, <1>12 DEF LineInPlace, L, cols

LEMMA FunctionInPlace ==
  ASSUME NEW text, NEW i, Texted(text), i \in DOMAIN text, Statement(text[i]),
         IsFunction(text[i]), Unambiguous(text[i]), NEW m
  PROVE  LineInPlace(FunctionSymbols(text, i, m), text, i)
<1> DEFINE L == FunctionSymbols(text, i, m)
           names == Parameters(text[i])
           cols == DeclaringColumns(text[i])
           q == Column(text[i], "(")
           last == Column(text[i], ")")
           c0 == Column(text[i], "function")
           name == FunctionName(text[i])
<1>1. PICK col : NameColumns(col, text[i], q, last, names)
  BY ParameterColumns
<1>2. PICK h, P : FunctionPart(L, text, i, m, h, P) /\ PlacedSymbols(P, text, i, names, col, c0, "parameter")
  BY <1>1, FunctionSymbolsAre
<1>3. InOrder(text, i, names, col, c0)
  BY <1>1, ParametersInOrder
<1>4. /\ names \in Seq(Names) /\ Len(names) \in Nat
      /\ \A k \in 1 .. Len(names) : /\ col[k] \in q .. last /\ names[k] = text[i][col[k]]
                                    /\ names[k] \in Names
      /\ \A k, r \in 1 .. Len(names) : r < k => col[r] < col[k]
      /\ \A c \in q .. last : text[i][c] \in Names => \E k \in 1 .. Len(names) : col[k] = c
  BY <1>1 DEF NameColumns
<1>5. cols = {c \in q - 1 .. last : text[i][c] \in Names}
  BY DEF DeclaringColumns
<1>6. /\ q \in 3 .. Len(text[i]) - 1 /\ Len(text[i]) \in Nat
      /\ text[i][q - 1] = name /\ name \in Names /\ last \in q + 1 .. Len(text[i])
      /\ c0 \in 1 .. 2 /\ c0 < q - 1
  BY FunctionColumns
<1>7. /\ \A c \in 1 .. q - 1 : text[i][c] \notin ToSet(names)
      /\ \A c \in 1 .. q - 2 : text[i][c] # name
  BY DEF Unambiguous, NamePath
<1>7a. ToSet(names) = {names[k] : k \in 1 .. Len(names)}
  BY <1>4, LenProperties DEF ToSet
<1> HIDE DEF L, names, cols, q, last, c0, name
<1>8. \A k \in 1 .. Len(names) : Places(text, names, <<i, c0>>)[k] = <<i, col[k]>>
  <2>1. ASSUME NEW k \in 1 .. Len(names), NEW e \in c0 .. col[k],
               e \in 1 .. Len(text[i]), text[i][e] = names[k]
        PROVE  \E r \in 1 .. Len(names) : col[r] = e
    <3>1. text[i][e] \in ToSet(names)
      BY <1>7a, <2>1
    <3>2. e \notin 1 .. q - 1
      BY <1>7, <3>1
    <3>3. e \in q .. last /\ text[i][e] \in Names
      BY <1>4, <1>6, <2>1, <3>2
    <3> QED  BY <1>4, <3>3
  <2> QED  BY SMTT(20), <1>3, <2>1, PlacesExact
<1>9. FindNamePosition(text, <<name>>, <<i, c0>>) = <<i, q - 1>>
  <2> DEFINE p == FindNamePosition(text, <<name>>, <<i, c0>>)
  <2>1. c0 \in Nat /\ q - 1 \in 1 .. Len(text[i]) /\ c0 <= q - 1 /\ text[i][q - 1] = name
    BY <1>6
  <2>2. /\ p \in Positions(text) /\ p[1] = i /\ text[i][p[2]] = name
        /\ p[2] \in Nat /\ c0 <= p[2] /\ p[2] <= q - 1
    <3> DEFINE d == q - 1
    <3>1. c0 \in Nat /\ d \in 1 .. Len(text[i]) /\ c0 <= d /\ text[i][d] = name
      BY <2>1
    <3> HIDE DEF d
    <3>2. /\ p \in Positions(text) /\ p[1] = i /\ text[i][p[2]] = name
          /\ p[2] \in Nat /\ c0 <= p[2] /\ p[2] <= d
      BY <3>1, PlaceFound
    <3> QED  BY <3>2 DEF d
  <2> HIDE DEF p
  <2>3. p[2] \notin 1 .. q - 2
    BY <1>7, <2>2
  <2>4. p[2] = q - 1
    BY <1>6, <2>2, <2>3
  <2>5. p = <<p[1], p[2]>>
    BY <2>2, TextIs
  <2> QED  BY Zenon, <2>2, <2>4, <2>5 DEF p
<1>10. /\ Len(P) = Len(names)
       /\ \A k \in 1 .. Len(names) : Len(P[k].name) = 1 /\ P[k].namePos = <<i, col[k]>>
  <2>1. /\ Len(P) = Len(names)
        /\ \A k \in 1 .. Len(names) : /\ P[k].name = <<names[k]>>
                                      /\ P[k].namePos = Places(text, names, <<i, c0>>)[k]
    BY Zenon, <1>2 DEF PlacedSymbols
  <2> QED  BY Zenon, <1>8, <2>1, LengthOne
<1>11. /\ h \in {1, 2} /\ Len(L) = h + Len(names) /\ \A k \in 1 .. Len(names) : L[h + k] = P[k]
       /\ L[1].namePos = <<i, q - 1>> /\ Len(L[1].name) = 1 /\ (h = 2 => Len(L[2].name) = 3)
  <2>1. L[1].name = <<name>> /\ 1 \in 1 .. h /\ h \in {1, 2}
    BY <1>2 DEF FunctionPart, name
  <2>2. Len(<<name>>) = 1
    OBVIOUS
  <2>3. L[1].namePos = <<i, q - 1>>
    BY <1>2, <1>9, <2>1 DEF FunctionPart, name, c0
  <2>4. /\ Len(L) = h + Len(names) /\ \A k \in 1 .. Len(names) : L[h + k] = P[k]
        /\ (h = 2 => Len(L[2].name) = 3)
    BY <1>2, <1>10 DEF FunctionPart
  <2> QED  BY <2>1, <2>2, <2>3, <2>4
<1> DEFINE found == {j \in 1 .. Len(L) : Len(L[j].name) = 1}
<1>12. ASSUME NEW j \in found
       PROVE  j = 1 \/ \E k \in 1 .. Len(names) : j = h + k /\ L[j].namePos = <<i, col[k]>>
  <2>1. j \in 1 .. Len(L) /\ Len(L[j].name) = 1
    OBVIOUS
  <2> HIDE DEF found
  <2>2. j # 1 => j # 2 \/ h # 2
    <3>1. SUFFICES ASSUME j = 2, h = 2  PROVE FALSE
      OBVIOUS
    <3>2. Len(L[2].name) = 1 /\ Len(L[2].name) = 3
      BY Zenon, <1>11, <2>1, <3>1
    <3> DEFINE n == Len(L[2].name)
    <3>3. n = 1 /\ n = 3
      BY <3>2
    <3> HIDE DEF n
    <3> QED  BY <3>3
  <2>3. j # 1 => j - h \in 1 .. Len(names) /\ j = h + (j - h)
    BY <1>4, <1>11, <2>1, <2>2
  <2> QED  BY SMTT(20), <1>10, <1>11, <2>3
<1>13. 1 \in found /\ \A k \in 1 .. Len(names) : h + k \in found /\ L[h + k].namePos = <<i, col[k]>>
  <2>1. 1 \in 1 .. Len(L) /\ \A k \in 1 .. Len(names) : h + k \in 1 .. Len(L)
    BY <1>4, <1>11
  <2> QED  BY <1>10, <1>11, <2>1
<1> HIDE DEF found
<1>14. \A k \in 1 .. Len(names) : col[k] \in cols /\ q - 1 < col[k]
  BY SMTT(20), <1>4, <1>5, <1>6
<1>15. q - 1 \in cols
  BY <1>5, <1>6
<1>16. ASSUME NEW j \in found  PROVE \E c \in cols : L[j].namePos = <<i, c>>
  <2>1. CASE j = 1
    BY <1>11, <1>15, <2>1
  <2>2. CASE \E k \in 1 .. Len(names) : j = h + k /\ L[j].namePos = <<i, col[k]>>
    BY <1>14, <2>2
  <2> QED  BY <1>12, <2>1, <2>2
<1>17. ASSUME NEW c \in cols  PROVE \E j \in found : L[j].namePos = <<i, c>>
  <2>1. CASE c = q - 1
    BY <1>11, <1>13, <2>1
  <2>2. CASE c # q - 1
    <3>1. c \in q .. last /\ text[i][c] \in Names
      BY <1>5, <1>6, <2>2
    <3>2. PICK k \in 1 .. Len(names) : col[k] = c
      BY <1>4, <3>1
    <3> QED  BY <1>13, <3>2
  <2> QED  BY <2>1, <2>2
<1>18. ASSUME NEW j \in found, NEW k \in found, j < k
       PROVE  Before(L[j].namePos, L[k].namePos)
  <2>1. k # 1
    <3>1. j \in 1 .. Len(L)
      BY DEF found
    <3> QED  BY <1>18, <3>1
  <2>2. PICK b \in 1 .. Len(names) : k = h + b /\ L[k].namePos = <<i, col[b]>>
    BY <1>12, <2>1
  <2>3. CASE j = 1
    <3>1. q - 1 < col[b]
      BY <1>14
    <3> QED  BY <1>11, <2>2, <2>3, <3>1, BeforeInLine
  <2>4. CASE j # 1
    <3>1. PICK a \in 1 .. Len(names) : j = h + a /\ L[j].namePos = <<i, col[a]>>
      BY <1>12, <2>4
    <3>2. col[a] < col[b]
      BY <1>4, <1>11, <1>18, <2>2, <3>1
    <3> QED  BY <2>2, <3>1, <3>2, BeforeInLine
  <2> QED  BY <2>3, <2>4
<1> QED  BY <1>16, <1>17, <1>18 DEF LineInPlace, L, cols, found

LEMMA LinesInPlace ==
  ASSUME NEW text, NEW i, Texted(text), i \in DOMAIN text, Statement(text[i]),
         Unambiguous(text[i]), NEW module
  PROVE  LineInPlace(LineSymbols(text, i, module), text, i)
<1> DEFINE m == IF ModuleLine(text) < i THEN module ELSE NoName
<1>1. CASE IsFunction(text[i])
  <2>1. LineSymbols(text, i, module) = FunctionSymbols(text, i, m)
    BY <1>1 DEF LineSymbols
  <2> HIDE DEF m
  <2> QED  BY <1>1, <2>1, FunctionInPlace
<1>2. CASE ~IsFunction(text[i]) /\ Declares(text[i])
  <2>1. LineSymbols(text, i, module) = LocalSymbols(text, i)
    BY <1>2 DEF LineSymbols
  <2> QED  BY <1>2, <2>1, LocalsInPlace
<1>3. CASE ~IsFunction(text[i]) /\ ~Declares(text[i])
  <2>1. Len(LineSymbols(text, i, module)) = 0
    BY <1>3, EmptySeq DEF LineSymbols
  <2>2. DeclaringColumns(text[i]) = {}
    BY <1>3 DEF DeclaringColumns
  <2> QED  BY <2>1, <2>2 DEF LineInPlace
<1> QED  BY <1>1, <1>2, <1>3

\* The symbols of line i stand together in the document's, behind off others.
LineStands(all, L, i, off) ==
  /\ off \in Nat
  /\ \A j \in 1 .. Len(L) : off + j \in 1 .. Len(all) /\ all[off + j] = L[j]
  /\ \A m \in 1 .. Len(all) : all[m].start[1] = i => \E j \in 1 .. Len(L) : m = off + j

LEMMA SymbolsOfLine ==
  ASSUME NEW text, Statements(text), NEW module, NEW i \in DOMAIN text
  PROVE  \E off : LineStands(AnalyzeScope(text, module), LineSymbols(text, i, module), i, off)
<1> DEFINE n == Len(text)
           seqs == [k \in 1 .. n |-> LineSymbols(text, k, module)]
           S == UNION {ToSet(seqs[k]) : k \in 1 .. n}
           all == AnalyzeScope(text, module)
<1>1. n \in Nat /\ DOMAIN text = 1 .. n
  BY TextIs DEF Statements
<1>2. all = FlattenSeq(seqs)
  BY <1>1 DEF AnalyzeScope
<1>3. \A k \in 1 .. n : LineIs(seqs[k], text, module, k)
  BY <1>1, LineSymbolsAre DEF Statements
<1>4. seqs \in [1 .. n -> Seq(S)]
  <2>1. ASSUME NEW k \in 1 .. n  PROVE seqs[k] \in Seq(S)
    <3>1. seqs[k] \in Seq(ToSet(seqs[k]))
      BY <1>3 DEF LineIs
    <3>2. ToSet(seqs[k]) \subseteq S
      OBVIOUS
    <3> HIDE DEF seqs, S
    <3> QED  BY <3>1, <3>2, SeqMonotonic
  <2>2. seqs = [k \in 1 .. n |-> seqs[k]]
    OBVIOUS
  <2> HIDE DEF seqs, S
  <2> QED  BY <2>1, <2>2
<1>5. seqs[i] = LineSymbols(text, i, module)
  BY <1>1
<1> HIDE DEF seqs, S, n, all
<1>6. PICK f : Runs(f, seqs, n) /\ f[n] = all
  BY <1>1, <1>2, <1>4, FlattenRuns
<1>7. FromParts(f, seqs, n) /\ HasParts(f, seqs, n)
  BY <1>1, <1>4, <1>6, RunsElements, RunsHave
<1> DEFINE off == Len(f[i - 1])
<1>8. off \in Nat
  <2>1. i - 1 \in 0 .. n
    BY <1>1
  <2>2. f[i - 1] \in Seq(S)
    BY <1>1, <1>4, <1>6, <2>1, RunsTyped
  <2> QED  BY <2>2, LenProperties
<1>9. \A j \in 1 .. Len(seqs[i]) : off + j \in 1 .. Len(all) /\ all[off + j] = seqs[i][j]
  BY <1>1, <1>6, <1>7 DEF HasParts
<1>10. ASSUME NEW m \in 1 .. Len(all), all[m].start[1] = i
       PROVE  \E j \in 1 .. Len(seqs[i]) : m = off + j
  <2>1. PICK k \in 1 .. n : \E j \in 1 .. Len(seqs[k]) : m = Len(f[k - 1]) + j /\ all[m] = seqs[k][j]
    BY <1>6, <1>7 DEF FromParts
  <2>2. PICK j \in 1 .. Len(seqs[k]) : m = Len(f[k - 1]) + j /\ all[m] = seqs[k][j]
    BY <2>1
  <2>3. SymbolAt(text, module, k, seqs[k][j])
    BY <1>3 DEF LineIs
  <2>4. all[m].start[1] = k
    <3>1. all[m].start = <<k, all[m].start[2]>>
      BY Zenon, <2>2, <2>3 DEF SymbolAt
    <3> QED  BY <3>1
  <2>5. k = i
    BY <1>10, <2>4
  <2> QED  BY <2>2, <2>5
<1> HIDE DEF off
<1>11. LineStands(all, seqs[i], i, off)
  BY <1>8, <1>9, <1>10 DEF LineStands
<1> QED  BY <1>5, <1>11 DEF all

LEMMA PlacesHold ==
  ASSUME DocInv
  PROVE  NamesInPlace
<1> SUFFICES ASSUME NEW u \in Indexed, NEW i \in DOMAIN Text(u), Unambiguous(Text(u)[i])
             PROVE  LET place(j) == documents[u].symbols[j].namePos
                        found == {j \in DOMAIN documents[u].symbols :
                                    /\ documents[u].symbols[j].start[1] = i
                                    /\ Len(documents[u].symbols[j].name) = 1}
                    IN /\ {place(j) : j \in found} = {i} \X DeclaringColumns(Text(u)[i])
                       /\ \A j, k \in found : j < k => Before(place(j), place(k))
  BY Zenon DEF NamesInPlace
<1> DEFINE all == documents[u].symbols
           text == Text(u)
           module == documents[u].moduleName
           L == LineSymbols(text, i, module)
           cols == DeclaringColumns(text[i])
           inLine == {j \in 1 .. Len(L) : Len(L[j].name) = 1}
           found == {j \in DOMAIN all : all[j].start[1] = i /\ Len(all[j].name) = 1}
<1>1. /\ Statements(text) /\ Texted(text) /\ all = AnalyzeScope(text, module)
      /\ DOMAIN all = 1 .. Len(all)
  BY TextOf, GoodDocIs DEF DocInv, GoodDoc
<1>2. Statement(text[i])
  BY <1>1 DEF Statements
<1>3. LineIs(L, text, module, i) /\ LineInPlace(L, text, i)
  BY <1>1, <1>2, LineSymbolsAre, LinesInPlace
<1>4. PICK off : LineStands(all, L, i, off)
  BY <1>1, SymbolsOfLine
<1>5. /\ \A j \in inLine : \E c \in cols : L[j].namePos = <<i, c>>
      /\ \A c \in cols : \E j \in inLine : L[j].namePos = <<i, c>>
      /\ \A j, k \in inLine : j < k => Before(L[j].namePos, L[k].namePos)
  BY <1>3 DEF LineInPlace
<1>6. \A j \in 1 .. Len(L) : L[j].start[1] = i
  <2>1. ASSUME NEW j \in 1 .. Len(L)  PROVE L[j].start[1] = i
    <3>1. L[j].start = <<i, L[j].start[2]>>
      BY Zenon, <1>3, <2>1 DEF LineIs, SymbolAt
    <3> QED  BY <3>1
  <2> QED  BY <2>1
<1> HIDE DEF L, cols, all, text, module
<1>7. ASSUME NEW m \in found
      PROVE  \E j \in inLine : m = off + j /\ all[m] = L[j]
  <2>1. PICK j \in 1 .. Len(L) : m = off + j
    BY <1>1, <1>4 DEF LineStands
  <2>2. all[m] = L[j]
    BY <1>4, <2>1 DEF LineStands
  <2> QED  BY <2>1, <2>2
<1>8. ASSUME NEW j \in inLine
      PROVE  off + j \in found /\ all[off + j] = L[j]
  BY <1>1, <1>4, <1>6 DEF LineStands
<1>9. off \in Nat
  BY <1>4 DEF LineStands
<1>10. ASSUME NEW x  PROVE x \in {all[m].namePos : m \in found} <=> x \in {i} \X cols
  <2>1. ASSUME x \in {all[m].namePos : m \in found}  PROVE x \in {i} \X cols
    <3>1. PICK m \in found : x = all[m].namePos
      BY <2>1
    <3>2. PICK j \in inLine : all[m] = L[j]
      BY <1>7
    <3>3. PICK c \in cols : L[j].namePos = <<i, c>>
      BY <1>5
    <3>4. x = <<i, c>>
      BY Zenon, <3>1, <3>2, <3>3
    <3> QED  BY <3>4
  <2>2. ASSUME x \in {i} \X cols  PROVE x \in {all[m].namePos : m \in found}
    <3>1. PICK c \in cols : x = <<i, c>>
      BY <2>2
    <3>2. PICK j \in inLine : L[j].namePos = <<i, c>>
      BY <1>5
    <3>3. off + j \in found /\ all[off + j].namePos = x
      BY Zenon, <1>8, <3>1, <3>2
    <3> QED  BY Zenon, <3>3
  <2> QED  BY <2>1, <2>2
<1>11. ASSUME NEW m \in found, NEW k \in found, m < k
       PROVE  Before(all[m].namePos, all[k].namePos)
  <2>1. PICK a \in inLine : m = off + a /\ all[m] = L[a]
    BY <1>7
  <2>2. PICK b \in inLine : k = off + b /\ all[k] = L[b]
    BY <1>7
  <2>3. a < b
    BY <1>9, <1>11, <2>1, <2>2
  <2> QED  BY Zenon, <1>5, <2>1, <2>2, <2>3
<1> HIDE DEF found
<1>12. {all[m].namePos : m \in found} = {i} \X cols
  BY Zenon, <1>10
<1> QED  BY Zenon, <1>11, <1>12 DEF found, all, cols, text

-------------------------------------------------------------------------------
(* A line in which a name is replaced                                      *)

\* The pieces of a line after an edit: a word stays, or it is a name or a dot
\* that the new name replaces, or it goes behind one that was replaced.
Pieces(seqs, line, newName) ==
  /\ seqs \in [1 .. Len(line) -> Seq(STRING)]
  /\ \A c \in 1 .. Len(line) :
       \/ seqs[c] = <<line[c]>>
       \/ /\ line[c] \in Names \cup {"."}
          /\ \/ seqs[c] = <<newName>>
             \/ seqs[c] = <<>> /\ c > 1 /\ seqs[c - 1] \in {<<>>, <<newName>>}

LEMMA AddedWord ==
  ASSUME NEW S, NEW s \in Seq(S), NEW w \in S
  PROVE  /\ s \o <<w>> \in Seq(S) /\ Len(s \o <<w>>) = Len(s) + 1
         /\ (s \o <<w>>)[Len(s) + 1] = w
BY LenProperties

LEMMA AddedNothing ==
  ASSUME NEW S, NEW s \in Seq(S)
  PROVE  s \o <<>> = s
OBVIOUS

\* What stands last once column c has been written.
WordEnd(seqs, line, newName, c) == IF seqs[c] = <<line[c]>> THEN line[c] ELSE newName

LEMMA PiecesEnd ==
  ASSUME NEW line \in Seq(STRING), NEW newName \in Names, NEW seqs, Pieces(seqs, line, newName),
         NEW f, Runs(f, seqs, Len(line))
  PROVE  \A c \in 1 .. Len(line) : /\ f[c] \in Seq(STRING) /\ Len(f[c]) \in Nat \ {0}
                                   /\ f[c][Len(f[c])] = WordEnd(seqs, line, newName, c)
<1> DEFINE n == Len(line)
           P(c) == /\ f[c] \in Seq(STRING) /\ Len(f[c]) \in Nat \ {0}
                   /\ f[c][Len(f[c])] = WordEnd(seqs, line, newName, c)
           T == {c \in 0 .. n : c = 0 \/ P(c)}
<1>0. n \in Nat /\ newName \in STRING /\ \A c \in 1 .. n : line[c] \in STRING
  BY LenProperties, ElementOfSeq, NamesAreNot
<1>1. \A c \in 0 .. n : f[c] \in Seq(STRING)
  <2>1. seqs \in [1 .. n -> Seq(STRING)] /\ Runs(f, seqs, n)
    BY DEF Pieces
  <2> HIDE DEF n
  <2> QED  BY <1>0, <2>1, RunsTyped
<1>2. ASSUME NEW c \in 1 .. n, c - 1 = 0 \/ P(c - 1)  PROVE P(c)
  <2>1. f[c] = f[c - 1] \o seqs[c] /\ f[c] \in Seq(STRING) /\ f[c - 1] \in Seq(STRING)
    <3>1. c - 1 \in 0 .. n /\ c \in 0 .. n
      BY <1>0
    <3> QED  BY <1>1, <3>1 DEF Runs
  <2>2. CASE seqs[c] = <<line[c]>>
    <3>1. line[c] \in STRING
      BY <1>0
    <3>2. /\ Len(f[c]) = Len(f[c - 1]) + 1 /\ f[c][Len(f[c - 1]) + 1] = line[c]
      BY <2>1, <2>2, <3>1, AddedWord
    <3>3. Len(f[c - 1]) \in Nat
      BY <2>1, LenProperties
    <3> QED  BY <2>1, <2>2, <3>2, <3>3 DEF WordEnd
  <2>3. CASE seqs[c] # <<line[c]>> /\ seqs[c] = <<newName>>
    <3>2. /\ Len(f[c]) = Len(f[c - 1]) + 1 /\ f[c][Len(f[c - 1]) + 1] = newName
      <4>1. newName \in STRING
        BY <1>0
      <4>2. f[c] = f[c - 1] \o <<newName>>
        BY Zenon, <2>1, <2>3
      <4>3. /\ Len(f[c - 1] \o <<newName>>) = Len(f[c - 1]) + 1
            /\ (f[c - 1] \o <<newName>>)[Len(f[c - 1]) + 1] = newName
        <5> DEFINE g == f[c - 1]
        <5>1. g \in Seq(STRING)
          BY <2>1
        <5> HIDE DEF g
        <5>2. Len(g \o <<newName>>) = Len(g) + 1 /\ (g \o <<newName>>)[Len(g) + 1] = newName
          BY <4>1, <5>1, AddedWord
        <5> QED  BY <5>2 DEF g
      <4> QED  BY Zenon, <4>2, <4>3
    <3>3. Len(f[c - 1]) \in Nat
      BY <2>1, LenProperties
    <3> QED  BY <2>1, <2>3, <3>2, <3>3 DEF WordEnd
  <2>4. CASE seqs[c] # <<line[c]>> /\ seqs[c] = <<>>
    <3>1. seqs[c] # <<newName>>
      BY <2>4
    <3>2. c > 1 /\ seqs[c - 1] \in {<<>>, <<newName>>}
      BY <2>4, <3>1 DEF Pieces
    <3>3. c - 1 \in 1 .. n /\ P(c - 1)
      <4>1. c - 1 \in 1 .. n /\ c - 1 # 0
        BY <1>0, <3>2
      <4> HIDE DEF P
      <4> QED  BY Zenon, <1>2, <4>1
    <3>4. f[c] = f[c - 1]
      BY <2>1, <2>4, AddedNothing
    <3>5. WordEnd(seqs, line, newName, c - 1) = newName
      <4>1. seqs[c - 1] = <<line[c - 1]>> => line[c - 1] = newName
        BY <3>2
      <4> QED  BY <4>1 DEF WordEnd
    <3>6. WordEnd(seqs, line, newName, c) = newName
      BY <2>4 DEF WordEnd
    <3> QED  BY Zenon, <3>3, <3>4, <3>5, <3>6
  <2> QED  BY <2>2, <2>3, <2>4 DEF Pieces
<1> HIDE DEF P
<1>3. 0 \in T /\ \A c \in 1 .. n : c - 1 \in T => c \in T
  BY <1>0, <1>2
<1> HIDE DEF T
<1>4. \A c \in 0 .. n : c \in T
  BY <1>0, <1>3, UpTo
<1>5. \A c \in 1 .. n : P(c)
  BY <1>0, <1>4 DEF T
<1> QED  BY <1>5 DEF P

LEMMA ColumnUnique ==
  ASSUME NEW S, NEW line \in Seq(S), NEW word, NEW c \in 1 .. Len(line), line[c] = word,
         \A k \in 1 .. c - 1 : line[k] # word
  PROVE  Contains(line, word) /\ Column(line, word) = c
<1>1. Contains(line, word) /\ Len(line) \in Nat
  BY LenProperties DEF Contains
<1> DEFINE d == Column(line, word)
<1>2. d \in 1 .. Len(line) /\ line[d] = word /\ \A k \in 1 .. d - 1 : line[k] # word
  BY <1>1, ColumnIs
<1> HIDE DEF d
<1>3. d = c
  BY <1>1, <1>2
<1> QED  BY <1>1, <1>3 DEF d

\* A word that is no name stays, and stands behind what was written before it.
LEMMA WordStays ==
  ASSUME NEW line \in Seq(STRING), NEW newName \in Names, NEW seqs, Pieces(seqs, line, newName),
         NEW f, Runs(f, seqs, Len(line)), NEW new, f[Len(line)] = new,
         NEW word, word \notin Names \cup {"."}, Column(line, word) # 0
  PROVE  /\ Contains(new, word) /\ Column(new, word) = Len(f[Column(line, word) - 1]) + 1
         /\ Len(f[Column(line, word)]) = Len(f[Column(line, word) - 1]) + 1
<1> DEFINE n == Len(line)
           c == Column(line, word)
<1>1. n \in Nat /\ c \in 1 .. n /\ line[c] = word /\ \A k \in 1 .. c - 1 : line[k] # word
  BY ColumnIs, LenProperties
<1> HIDE DEF c
<1>2. seqs \in [1 .. n -> Seq(STRING)] /\ Runs(f, seqs, n)
  BY DEF Pieces
<1>3. seqs[c] = <<word>>
  BY <1>1 DEF Pieces
<1>4. f[c - 1] \in Seq(STRING) /\ new \in Seq(STRING) /\ Len(f[c - 1]) \in Nat /\ f[c] = f[c - 1] \o seqs[c]
  <2>0. c - 1 \in 0 .. n /\ n \in 0 .. n /\ c \in 1 .. n
    BY <1>1
  <2> HIDE DEF n
  <2>1. \A k \in 0 .. n : f[k] \in Seq(STRING)
    BY <1>1, <1>2, RunsTyped
  <2>2. f[c - 1] \in Seq(STRING) /\ new \in Seq(STRING)
    BY <2>0, <2>1 DEF n
  <2> QED  BY <1>2, <2>0, <2>2, LenProperties DEF Runs
<1>5. Len(f[c]) = Len(f[c - 1]) + 1
  BY <1>3, <1>4, AddedWord
<1>6. FromParts(f, seqs, n) /\ HasParts(f, seqs, n)
  <2> HIDE DEF n
  <2> QED  BY <1>1, <1>2, RunsElements, RunsHave
<1> DEFINE d == Len(f[c - 1]) + 1
<1>7. d \in 1 .. Len(new) /\ new[d] = word
  <2>1. Len(seqs[c]) = 1 /\ seqs[c][1] = word
    BY <1>3
  <2>2. 1 \in 1 .. Len(seqs[c])
    BY <2>1
  <2> QED  BY <1>1, <1>6, <2>1, <2>2 DEF HasParts
<1>8. ASSUME NEW m \in 1 .. d - 1  PROVE new[m] # word
  <2>0. m \in 1 .. Len(f[c - 1])
    BY <1>4
  <2>1. f[c - 1][m] = new[m] /\ m \in 1 .. Len(new)
    <3>1. c - 1 \in 0 .. n /\ n \in c - 1 .. n
      BY <1>1
    <3>2. \A i \in c - 1 .. n : /\ Len(f[c - 1]) <= Len(f[i])
                                /\ \A k \in 1 .. Len(f[c - 1]) : f[i][k] = f[c - 1][k]
      <4> HIDE DEF n
      <4> QED  BY SMTT(20), <1>1, <1>2, <3>1, RunsGrow
    <3>3. Len(f[c - 1]) <= Len(new) /\ f[c - 1][m] = new[m]
      BY <2>0, <3>1, <3>2
    <3>4. Len(new) \in Nat
      BY <1>4, LenProperties
    <3> QED  BY <1>4, <2>0, <3>3, <3>4
  <2>2. PICK k \in 1 .. n : \E j \in 1 .. Len(seqs[k]) : m = Len(f[k - 1]) + j /\ new[m] = seqs[k][j]
    BY <1>6, <2>1 DEF FromParts
  <2>3. PICK j \in 1 .. Len(seqs[k]) : m = Len(f[k - 1]) + j /\ new[m] = seqs[k][j]
    BY <2>2
  <2>4. k < c
    <3>1. SUFFICES ASSUME k >= c PROVE FALSE
      BY <1>1
    <3>2. c - 1 \in 0 .. n /\ k - 1 \in c - 1 .. n
      BY <1>1, <3>1
    <3>3. Len(f[c - 1]) <= Len(f[k - 1])
      <4> HIDE DEF n
      <4> QED  BY <1>1, <1>2, <3>2, RunsGrow
    <3>4. Len(f[k - 1]) \in Nat
      <4>0. k - 1 \in 0 .. n
        BY <1>1
      <4> HIDE DEF n
      <4> QED  BY <1>1, <1>2, <4>0, RunsTyped, LenProperties
    <3> QED  BY <1>4, <2>0, <2>3, <3>3, <3>4
  <2>5. seqs[k][j] \in {line[k], newName}
    <3>1. seqs[k] = <<line[k]>> \/ seqs[k] = <<newName>> \/ seqs[k] = <<>>
      BY DEF Pieces
    <3> QED  BY <3>1
  <2>6. line[k] # word /\ newName # word
    BY <1>1, <2>4
  <2> QED  BY <2>3, <2>5, <2>6
<1> HIDE DEF d
<1>9. Contains(new, word) /\ Column(new, word) = d
  BY <1>4, <1>7, <1>8, ColumnUnique
<1> QED  BY <1>5, <1>9 DEF d, c

LEMMA RunKeeps ==
  ASSUME NEW n \in Nat, NEW S, NEW seqs \in [1 .. n -> Seq(S)], NEW f, Runs(f, seqs, n),
         NEW b \in 0 .. n, NEW at \in 1 .. Len(f[b])
  PROVE  f[n][at] = f[b][at]
<1>1. n \in b .. n
  OBVIOUS
<1>2. \A i \in b .. n : /\ Len(f[b]) <= Len(f[i])
                        /\ \A m \in 1 .. Len(f[b]) : f[i][m] = f[b][m]
  BY SMTT(20), RunsGrow
<1> QED  BY <1>1, <1>2

LEMMA PieceRuns ==
  ASSUME NEW line \in Seq(STRING), line # <<>>, NEW newName \in Names,
         NEW seqs, Pieces(seqs, line, newName)
  PROVE  \E f : /\ Runs(f, seqs, Len(line)) /\ f[Len(line)] = FlattenSeq(seqs)
                /\ FlattenSeq(seqs) \in Seq(STRING) /\ FlattenSeq(seqs) # <<>>
                /\ \A c \in 1 .. Len(line) : /\ f[c] \in Seq(STRING) /\ Len(f[c]) \in Nat \ {0}
                                             /\ f[c][Len(f[c])] = WordEnd(seqs, line, newName, c)
<1> DEFINE n == Len(line)
           new == FlattenSeq(seqs)
<1>1. n \in Nat /\ n # 0 /\ seqs \in [1 .. n -> Seq(STRING)]
  BY LenProperties, EmptySeq DEF Pieces
<1>2. PICK f : Runs(f, seqs, n) /\ f[n] = new
  <2> HIDE DEF n, new
  <2> QED  BY <1>1, FlattenRuns DEF new
<1>3. \A c \in 1 .. n : /\ f[c] \in Seq(STRING) /\ Len(f[c]) \in Nat \ {0}
                        /\ f[c][Len(f[c])] = WordEnd(seqs, line, newName, c)
  BY <1>2, PiecesEnd
<1>4. new \in Seq(STRING) /\ Len(new) # 0
  <2>1. n \in 1 .. n
    BY <1>1
  <2> HIDE DEF n, new
  <2> QED  BY <1>2, <1>3, <2>1
<1> HIDE DEF new
<1>5. new # <<>>
  BY <1>4
<1> QED  BY <1>2, <1>3, <1>4, <1>5 DEF new

\* No word of the keywords and punctuation is new.
LEMMA WordKept ==
  ASSUME NEW line \in Seq(STRING), line # <<>>, NEW newName \in Names,
         NEW seqs, Pieces(seqs, line, newName), NEW word, word \notin Names \cup {"."},
         Contains(FlattenSeq(seqs), word)
  PROVE  Contains(line, word)
<1> DEFINE n == Len(line)
           new == FlattenSeq(seqs)
<1>1. PICK f : Runs(f, seqs, n) /\ f[n] = new
  BY PieceRuns
<1>2. n \in Nat /\ seqs \in [1 .. n -> Seq(STRING)]
  BY LenProperties DEF Pieces
<1>3. FromParts(f, seqs, n)
  <2> HIDE DEF n
  <2> QED  BY <1>1, <1>2, RunsElements
<1>4. PICK m \in 1 .. Len(new) : new[m] = word
  BY DEF Contains
<1> HIDE DEF new
<1>5. PICK k \in 1 .. n : \E j \in 1 .. Len(seqs[k]) : new[m] = seqs[k][j]
  BY <1>1, <1>3, <1>4 DEF FromParts
<1>6. PICK j \in 1 .. Len(seqs[k]) : new[m] = seqs[k][j]
  BY <1>5
<1>7. seqs[k][j] \in {line[k], newName}
  <2>1. seqs[k] = <<line[k]>> \/ seqs[k] = <<newName>> \/ seqs[k] = <<>>
    BY DEF Pieces
  <2> QED  BY <2>1
<1>8. line[k] = word
  BY <1>4, <1>6, <1>7
<1> QED  BY <1>8 DEF Contains

\* The first word, and the second behind one that stays.
LEMMA FirstWords ==
  ASSUME NEW line \in Seq(STRING), line # <<>>, NEW newName \in Names,
         NEW seqs, Pieces(seqs, line, newName), NEW new, new = FlattenSeq(seqs)
  PROVE  /\ new[1] \in {line[1], newName} /\ (line[1] \notin Names \cup {"."} => new[1] = line[1])
         /\ Len(line) = 1 /\ line[1] \notin Names \cup {"."} => new = line
         /\ Len(line) # 1 /\ line[1] \notin Names \cup {"."} =>
              /\ Len(new) > 1 /\ new[2] \in {line[2], newName}
              /\ (line[2] \notin Names \cup {"."} => new[2] = line[2])
<1> DEFINE n == Len(line)
<1>1. n \in Nat /\ n # 0 /\ seqs \in [1 .. n -> Seq(STRING)]
  BY LenProperties, EmptySeq DEF Pieces
<1>2. PICK f : Runs(f, seqs, n) /\ f[n] = new /\ new \in Seq(STRING)
  BY PieceRuns
<1>3. HasParts(f, seqs, n)
  <2> HIDE DEF n
  <2> QED  BY <1>1, <1>2, RunsHave
<1>4. /\ f[0] = <<>> /\ f[1] = f[0] \o seqs[1]
      /\ Len(f[0]) = 0
  <2>1. 1 \in 1 .. n /\ 1 - 1 = 0
    BY <1>1
  <2> QED  BY <1>2, <2>1 DEF Runs
<1>5. /\ seqs[1] = <<line[1]>> \/ (line[1] \in Names \cup {"."} /\ seqs[1] = <<newName>>)
  <2>1. 1 \in 1 .. n
    BY <1>1
  <2> QED  BY <2>1 DEF Pieces
<1>6. Len(seqs[1]) = 1 /\ seqs[1][1] \in {line[1], newName}
      /\ (line[1] \notin Names \cup {"."} => seqs[1][1] = line[1])
  <2>1. PICK w \in {line[1], newName} : /\ seqs[1] = <<w>>
                                        /\ line[1] \notin Names \cup {"."} => w = line[1]
    BY <1>5
  <2>2. Len(<<w>>) = 1 /\ <<w>>[1] = w
    OBVIOUS
  <2> QED  BY Zenon, <2>1, <2>2
<1>7. new[1] = seqs[1][1]
  <2>1. 1 \in 1 .. n /\ 1 \in 1 .. Len(seqs[1]) /\ Len(f[1 - 1]) + 1 = 1
    BY <1>1, <1>4, <1>6
  <2>2. new[Len(f[1 - 1]) + 1] = seqs[1][1]
    BY <1>2, <1>3, <2>1 DEF HasParts
  <2> QED  BY <2>1, <2>2
<1>8. seqs[1] \in Seq(STRING) /\ f[1] = seqs[1]
  <2>1. seqs[1] \in Seq(STRING)
    BY <1>1
  <2>2. <<>> \o seqs[1] = seqs[1]
    BY <2>1
  <2> QED  BY <1>4, <2>1, <2>2
<1>9. ASSUME n = 1, line[1] \notin Names \cup {"."}  PROVE new = line
  <2>1. new = seqs[1]
    BY <1>2, <1>8, <1>9
  <2>2. Len(new) = Len(line)
    BY <1>6, <1>9, <2>1
  <2>3. \A k \in 1 .. Len(new) : new[k] = line[k]
    BY <1>6, <1>9, <2>1
  <2> QED  BY <1>2, <2>2, <2>3, SeqEqual
<1>10. ASSUME n # 1, line[1] \notin Names \cup {"."}
       PROVE  /\ Len(new) > 1 /\ new[2] \in {line[2], newName}
              /\ (line[2] \notin Names \cup {"."} => new[2] = line[2])
  <2>1. 2 \in 1 .. n
    <3>1. n \in Nat /\ n # 0 /\ n # 1
      BY <1>1, <1>10
    <3> HIDE DEF n
    <3> QED  BY <3>1
  <2>2. seqs[1] # <<>> /\ seqs[1] # <<newName>>
    <3>1. seqs[1] = <<line[1]>> /\ line[1] # newName
      BY <1>5, <1>10
    <3> QED  BY <3>1
  <2>3. seqs[2] = <<line[2]>> \/ (line[2] \in Names \cup {"."} /\ seqs[2] = <<newName>>)
    BY <2>1, <2>2 DEF Pieces
  <2>4. Len(seqs[2]) = 1 /\ seqs[2][1] \in {line[2], newName}
        /\ (line[2] \notin Names \cup {"."} => seqs[2][1] = line[2])
    <3>1. PICK w \in {line[2], newName} : /\ seqs[2] = <<w>>
                                          /\ line[2] \notin Names \cup {"."} => w = line[2]
      BY <2>3
    <3>2. Len(<<w>>) = 1 /\ <<w>>[1] = w
      OBVIOUS
    <3> QED  BY Zenon, <3>1, <3>2
  <2>5. Len(f[2 - 1]) = 1 /\ 1 \in 1 .. Len(seqs[2])
    BY <1>6, <1>8, <2>4
  <2>6. Len(f[2 - 1]) + 1 \in 1 .. Len(new) /\ new[Len(f[2 - 1]) + 1] = seqs[2][1]
    BY <1>2, <1>3, <2>1, <2>5 DEF HasParts
  <2>7. 2 \in 1 .. Len(new) /\ new[2] = seqs[2][1]
    BY <2>5, <2>6
  <2>8. Len(new) > 1
    BY <1>2, <2>7, LenProperties
  <2> QED  BY <2>4, <2>7, <2>8
<1> QED  BY <1>6, <1>7, <1>9, <1>10

LEMMA SameKind ==
  ASSUME NEW line, Statement(line), NEW newName \in Names,
         NEW seqs, Pieces(seqs, line, newName), NEW new, new = FlattenSeq(seqs)
  PROVE  /\ IsFunction(new) <=> IsFunction(line)
         /\ IsComment(new) <=> IsComment(line)
         /\ Closes(new) <=> Closes(line)
         /\ Contains(new, "do") <=> Contains(line, "do")
<1> DEFINE kept(w) == w \notin Names \cup {"."}
<1>1. /\ line \in Seq(STRING) /\ line # <<>> /\ Len(line) \in Nat
      /\ \A c \in 1 .. Len(line) : line[c] \in STRING
  BY LenProperties, ElementOfSeq DEF Statement
<1>2. /\ kept("function") /\ kept("local") /\ kept("--") /\ kept("end") /\ kept("do")
      /\ newName # "function" /\ newName # "local" /\ newName # "--" /\ newName # "end"
  BY NamesAreNot
<1>3. /\ new[1] \in {line[1], newName} /\ (kept(line[1]) => new[1] = line[1])
      /\ Len(line) = 1 /\ kept(line[1]) => new = line
      /\ Len(line) # 1 /\ kept(line[1]) =>
              /\ Len(new) > 1 /\ new[2] \in {line[2], newName}
              /\ (kept(line[2]) => new[2] = line[2])
  BY <1>1, FirstWords
<1> HIDE DEF kept
<1>4. ASSUME IsFunction(line)  PROVE IsFunction(new)
  <2>1. Len(line) # 1
    BY <1>4, FunctionColumns
  <2> QED  BY <1>2, <1>3, <1>4, <2>1 DEF IsFunction
<1>5. ASSUME IsFunction(new)  PROVE IsFunction(line)
  <2>1. CASE new[1] = "function"
    BY <1>2, <1>3, <2>1 DEF IsFunction
  <2>2. CASE new[1] = "local" /\ new[2] = "function"
    <3>1. line[1] = "local"
      BY <1>2, <1>3, <2>2
    <3>2. CASE Len(line) = 1
      BY <1>2, <1>3, <1>5, <3>1, <3>2
    <3>3. CASE Len(line) # 1
      BY <1>2, <1>3, <2>2, <3>1, <3>3 DEF IsFunction
    <3> QED  BY <3>2, <3>3
  <2> QED  BY <1>5, <2>1, <2>2 DEF IsFunction
<1>6. IsComment(new) <=> IsComment(line)
  BY <1>2, <1>3 DEF IsComment
<1>7. ASSUME Closes(line)  PROVE Closes(new)
  <2>1. line = <<"end">>
    BY <1>7 DEF Closes
  <2>2. Len(line) = 1 /\ line[1] = "end"
    BY <2>1
  <2> QED  BY <1>2, <1>3, <1>7, <2>2
<1>8. ASSUME Closes(new)  PROVE Closes(line)
  <2>1. new[1] = "end" /\ Len(new) = 1
    BY <1>8 DEF Closes
  <2>2. line[1] = "end"
    BY <1>2, <1>3, <2>1
  <2>3. Len(line) = 1
    BY <1>2, <1>3, <2>1, <2>2
  <2> QED  BY <1>2, <1>3, <1>8, <2>2, <2>3
<1>9. ASSUME Contains(line, "do")  PROVE Contains(new, "do")
  <2>1. Column(line, "do") # 0
    BY <1>1, <1>9, ColumnIs
  <2>2. PICK f : Runs(f, seqs, Len(line)) /\ f[Len(line)] = new
    BY <1>1, PieceRuns
  <2>3. "do" \notin Names \cup {"."}
    BY <1>2 DEF kept
  <2> DEFINE word == "do"
  <2>4. word \notin Names \cup {"."} /\ Column(line, word) # 0
    BY <2>1, <2>3
  <2> HIDE DEF word
  <2>5. Contains(new, word)
    BY <1>1, <2>2, <2>4, WordStays
  <2> QED  BY <2>5 DEF word
<1>10. ASSUME Contains(new, "do")  PROVE Contains(line, "do")
  <2>1. "do" \notin Names \cup {"."}
    BY <1>2 DEF kept
  <2> QED  BY <1>1, <1>10, <2>1, WordKept
<1> QED  BY <1>4, <1>5, <1>6, <1>7, <1>8, <1>9, <1>10

\* An edited line is still a statement.
LEMMA EditedLine ==
  ASSUME NEW line, Statement(line), NEW newName \in Names,
         NEW seqs, Pieces(seqs, line, newName), NEW new, new = FlattenSeq(seqs)
  PROVE  Statement(new)
<1> DEFINE n == Len(line)
           q == Column(line, "(")
           z == Column(line, ")")
<1>1. /\ line \in Seq(STRING) /\ line # <<>> /\ n \in Nat
      /\ seqs \in [1 .. n -> Seq(STRING)]
  BY LenProperties DEF Statement, Pieces
<1>2. PICK f : /\ Runs(f, seqs, n) /\ f[n] = new
               /\ new \in Seq(STRING) /\ new # <<>>
               /\ \A c \in 1 .. n : /\ f[c] \in Seq(STRING) /\ Len(f[c]) \in Nat \ {0}
                                    /\ f[c][Len(f[c])] = WordEnd(seqs, line, newName, c)
  BY <1>1, PieceRuns
<1> SUFFICES ASSUME IsFunction(new)
             PROVE  /\ Contains(new, "(") /\ Column(new, "(") < Column(new, ")")
                    /\ FunctionName(new) \in Names
  BY <1>2 DEF Statement
<1>3. IsFunction(line)
  BY SameKind
<1>4. /\ q \in 3 .. n - 1 /\ z \in q + 1 .. n /\ line[q - 1] \in Names
  BY <1>3, FunctionColumns
<1>5. "(" \notin Names \cup {"."} /\ ")" \notin Names \cup {"."}
  <2>1. "(" \notin Names /\ ")" \notin Names
    BY NamesAreNot
  <2>2. "(" # "." /\ ")" # "."
    OBVIOUS
  <2> QED  BY Zenon, <2>1, <2>2
<1>6. /\ Contains(new, "(") /\ Column(new, "(") = Len(f[q - 1]) + 1
      /\ Len(f[q]) = Len(f[q - 1]) + 1
  <2>1. q # 0
    BY <1>4
  <2> QED  BY <1>1, <1>2, <1>5, <2>1, WordStays
<1>7. Column(new, ")") = Len(f[z - 1]) + 1
  <2>1. z # 0
    BY <1>1, <1>4
  <2> QED  BY <1>1, <1>2, <1>5, <2>1, WordStays
<1> HIDE DEF q, z
<1>8. Len(f[q]) <= Len(f[z - 1])
  <2>1. q \in 0 .. n /\ z - 1 \in q .. n
    BY <1>1, <1>4
  <2> HIDE DEF n
  <2> QED  BY <1>1, <1>2, <2>1, RunsGrow
<1>9. q - 1 \in 1 .. n /\ q \in 1 .. n /\ z - 1 \in 1 .. n
  BY <1>1, <1>4
<1>10. Column(new, "(") < Column(new, ")")
  <2>1. Len(f[q - 1]) \in Nat /\ Len(f[z - 1]) \in Nat
    BY <1>2, <1>9
  <2> QED  BY <1>6, <1>7, <1>8, <2>1
<1>11. FunctionName(new) \in Names
  <2> DEFINE m == Len(f[q - 1])
  <2>1. m \in Nat \ {0} /\ f[q - 1][m] = WordEnd(seqs, line, newName, q - 1)
    BY <1>2, <1>9
  <2>2. f[q - 1][m] \in Names
    BY <1>4, <2>1 DEF WordEnd
  <2>3. new[m] = f[q - 1][m]
    <3>1. q - 1 \in 0 .. n /\ n \in q - 1 .. n
      BY <1>1, <1>9
    <3>2. m \in 1 .. Len(f[q - 1])
      BY <2>1
    <3> HIDE DEF n, m
    <3>3. f[n][m] = f[q - 1][m]
      BY SMTT(20), <1>1, <1>2, <3>1, <3>2, RunKeeps
    <3> QED  BY <1>2, <3>3
  <2>4. Column(new, "(") - 1 = m
    BY <1>6, <2>1
  <2> QED  BY <2>2, <2>3, <2>4 DEF FunctionName
<1> QED  BY <1>6, <1>10, <1>11

-------------------------------------------------------------------------------
(* A text in which a name is replaced                                      *)

LEMMA OneTyped ==
  ASSUME NEW S, NEW w \in S
  PROVE  <<w>> \in Seq(S)
OBVIOUS

\* The ranges of an edit lie in the lines, and cover names and dots alone.
Fitting(ranges, text) ==
  \A r \in ranges :
    /\ r.line \in DOMAIN text /\ r.column \in 1 .. Len(text[r.line]) /\ r.width \in Nat \ {0}
    /\ r.column + r.width - 1 <= Len(text[r.line])
    /\ \A c \in r.column .. r.column + r.width - 1 : text[r.line][c] \in Names \cup {"."}

EditedWords(text, ranges, newName, i) ==
  [c \in DOMAIN text[i] |->
     IF \E r \in ranges : r.line = i /\ r.column = c THEN <<newName>>
     ELSE IF \E r \in ranges : r.line = i /\ c \in r.column .. r.column + r.width - 1 THEN <<>>
     ELSE <<text[i][c]>>]

LEMMA EditedPieces ==
  ASSUME NEW text, Texted(text), NEW ranges, Fitting(ranges, text), NEW newName \in Names,
         NEW i \in DOMAIN text
  PROVE  Pieces(EditedWords(text, ranges, newName, i), text[i], newName)
<1> DEFINE seqs == EditedWords(text, ranges, newName, i)
           line == text[i]
           Starts(c) == \E r \in ranges : r.line = i /\ r.column = c
           Covered(c) == \E r \in ranges : r.line = i /\ c \in r.column .. r.column + r.width - 1
<1>1. /\ line \in Seq(STRING) /\ Len(line) \in Nat /\ DOMAIN line = 1 .. Len(line)
      /\ \A c \in 1 .. Len(line) : line[c] \in STRING
  BY TextIs, ElementOfSeq
<1>2. /\ seqs = [c \in 1 .. Len(line) |-> seqs[c]]
      /\ \A c \in 1 .. Len(line) : /\ Starts(c) => seqs[c] = <<newName>>
                                   /\ ~Starts(c) /\ Covered(c) => seqs[c] = <<>>
                                   /\ ~Starts(c) /\ ~Covered(c) => seqs[c] = <<line[c]>>
  BY <1>1 DEF EditedWords
<1>3. \A c : Starts(c) => Covered(c)
  BY DEF Fitting
<1>4. \A c : Covered(c) => line[c] \in Names \cup {"."}
  BY DEF Fitting
<1>5. ASSUME NEW c \in 1 .. Len(line), Covered(c), ~Starts(c)
      PROVE  c > 1 /\ c - 1 \in 1 .. Len(line) /\ Covered(c - 1)
  <2>1. PICK r \in ranges : r.line = i /\ c \in r.column .. r.column + r.width - 1
    BY <1>5
  <2>2. r.column # c
    BY <1>5, <2>1
  <2>3. r.column \in 1 .. Len(line) /\ r.width \in Nat
    BY <2>1 DEF Fitting
  <2>4. c > 1 /\ c - 1 \in 1 .. Len(line) /\ c - 1 \in r.column .. r.column + r.width - 1
    BY <1>1, <2>1, <2>2, <2>3
  <2> QED  BY <2>1, <2>4
<1> HIDE DEF seqs, Starts, Covered, line
<1>6. ASSUME NEW c \in 1 .. Len(line)
      PROVE  /\ seqs[c] \in Seq(STRING)
             /\ \/ seqs[c] = <<line[c]>>
                \/ /\ line[c] \in Names \cup {"."}
                   /\ \/ seqs[c] = <<newName>>
                      \/ seqs[c] = <<>> /\ c > 1 /\ seqs[c - 1] \in {<<>>, <<newName>>}
  <2>1. newName \in STRING /\ line[c] \in STRING
    BY <1>1, NamesAreNot
  <2>2. <<newName>> \in Seq(STRING) /\ <<line[c]>> \in Seq(STRING) /\ <<>> \in Seq(STRING)
    <3>1. <<>> \in Seq(STRING)
      OBVIOUS
    <3> QED  BY <2>1, <3>1, OneTyped
  <2>3. CASE Starts(c)
    <3>1. seqs[c] = <<newName>> /\ line[c] \in Names \cup {"."}
      BY <1>2, <1>3, <1>4, <2>3
    <3> QED  BY <2>2, <3>1
  <2>4. CASE ~Starts(c) /\ Covered(c)
    <3>1. seqs[c] = <<>> /\ line[c] \in Names \cup {"."} /\ c > 1 /\ c - 1 \in 1 .. Len(line) /\ Covered(c - 1)
      BY <1>2, <1>4, <1>5, <2>4
    <3>2. seqs[c - 1] \in {<<>>, <<newName>>}
      BY <1>2, <3>1
    <3> QED  BY <2>2, <3>1, <3>2
  <2>5. CASE ~Starts(c) /\ ~Covered(c)
    <3>1. seqs[c] = <<line[c]>>
      BY <1>2, <2>5
    <3> QED  BY <2>2, <3>1
  <2> QED  BY <2>3, <2>4, <2>5, <1>3
<1>7. seqs \in [1 .. Len(line) -> Seq(STRING)]
  BY <1>2, <1>6
<1>8. Pieces(seqs, line, newName)
  BY <1>6, <1>7 DEF Pieces
<1> QED  BY <1>8 DEF seqs, line

\* Of the new text, line by line.
EditedText(new, text) ==
  /\ Statements(new) /\ DOMAIN new = DOMAIN text
  /\ \A i \in DOMAIN text : /\ IsFunction(new[i]) <=> IsFunction(text[i])
                            /\ IsComment(new[i]) <=> IsComment(text[i])
                            /\ Closes(new[i]) <=> Closes(text[i])
                            /\ Contains(new[i], "do") <=> Contains(text[i], "do")

LEMMA AppliedText ==
  ASSUME NEW text, Statements(text), NEW ranges, Fitting(ranges, text), NEW newName \in Names
  PROVE  EditedText(Applied(text, ranges, newName), text)
<1> DEFINE new == Applied(text, ranges, newName)
<1>1. Texted(text) /\ Len(text) \in Nat /\ DOMAIN text = 1 .. Len(text)
  BY TextIs DEF Statements
<1>2. /\ DOMAIN new = DOMAIN text
      /\ \A i \in DOMAIN text : new[i] = FlattenSeq(EditedWords(text, ranges, newName, i))
      /\ new = [i \in DOMAIN text |-> new[i]]
  BY DEF Applied, EditedWords
<1> HIDE DEF new
<1>3. ASSUME NEW i \in DOMAIN text
      PROVE  /\ Statement(new[i])
             /\ IsFunction(new[i]) <=> IsFunction(text[i])
             /\ IsComment(new[i]) <=> IsComment(text[i])
             /\ Closes(new[i]) <=> Closes(text[i])
             /\ Contains(new[i], "do") <=> Contains(text[i], "do")
  <2>1. Statement(text[i]) /\ new[i] = FlattenSeq(EditedWords(text, ranges, newName, i))
    BY <1>2 DEF Statements
  <2>2. Pieces(EditedWords(text, ranges, newName, i), text[i], newName)
    BY <1>1, EditedPieces
  <2> DEFINE seqs == EditedWords(text, ranges, newName, i)
             line == text[i]
             edited == new[i]
  <2>3. Statement(line) /\ Pieces(seqs, line, newName) /\ edited = FlattenSeq(seqs)
    BY <2>1, <2>2
  <2> HIDE DEF seqs, line, edited
  <2>4. Statement(edited)
    BY <2>3, EditedLine
  <2>5. /\ IsFunction(edited) <=> IsFunction(line)
        /\ IsComment(edited) <=> IsComment(line)
        /\ Closes(edited) <=> Closes(line)
        /\ Contains(edited, "do") <=> Contains(line, "do")
    BY <2>3, SameKind
  <2> QED  BY <2>4, <2>5 DEF line, edited
<1>4. new \in [1 .. Len(text) -> Seq(STRING)]
  BY <1>1, <1>2, <1>3 DEF Statement
<1>5. Texted(new)
  <2> DEFINE S == Seq(STRING)
             n == Len(text)
  <2>1. new \in [1 .. n -> S] /\ n \in Nat
    BY <1>1, <1>4
  <2> HIDE DEF S, n
  <2>2. new \in Seq(S)
    BY <2>1, SeqDef
  <2> QED  BY <2>2 DEF Texted, S
<1> QED  BY <1>2, <1>3, <1>5 DEF EditedText, Statements, new

FreshIn(text) == \E p \in Positions(text) : text[p[1]][p[2]] \in Fresh

\* The new name stands in the new text.
LEMMA AppliedFresh ==
  ASSUME NEW text, Statements(text), NEW ranges, Fitting(ranges, text), NEW newName \in Fresh,
         NEW r \in ranges
  PROVE  FreshIn(Applied(text, ranges, newName))
<1> DEFINE new == Applied(text, ranges, newName)
           i == r.line
           c == r.column
           seqs == EditedWords(text, ranges, newName, i)
           n == Len(text[i])
<1>1. newName \in Names /\ Texted(text) /\ i \in DOMAIN text /\ c \in 1 .. n
  BY EditorAssumption DEF Statements, Fitting
<1>2. text[i] \in Seq(STRING) /\ n \in Nat /\ DOMAIN text[i] = 1 .. n
  BY <1>1, TextIs
<1>3. new[i] = FlattenSeq(seqs) /\ i \in DOMAIN new
  BY <1>1 DEF Applied, EditedWords
<1>4. seqs[c] = <<newName>>
  BY <1>1, <1>2 DEF EditedWords
<1>5. Pieces(seqs, text[i], newName)
  BY <1>1, EditedPieces
<1>6. Texted(new)
  BY <1>1, AppliedText DEF EditedText, Statements
<1> HIDE DEF new, i, c, seqs
<1>7. seqs \in [1 .. n -> Seq(STRING)]
  BY <1>5 DEF Pieces
<1>8. PICK f : Runs(f, seqs, n) /\ f[n] = new[i]
  <2> HIDE DEF n
  <2> QED  BY <1>2, <1>3, <1>7, FlattenRuns
<1>9. HasParts(f, seqs, n)
  <2> HIDE DEF n
  <2> QED  BY <1>2, <1>7, <1>8, RunsHave
<1>10. 1 \in 1 .. Len(seqs[c]) /\ seqs[c][1] = newName
  BY <1>4
<1> DEFINE d == Len(f[c - 1]) + 1
<1>11. d \in 1 .. Len(new[i]) /\ new[i][d] = newName
  BY <1>1, <1>8, <1>9, <1>10 DEF HasParts
<1> HIDE DEF d
<1>12. <<i, d>> \in Positions(new)
  BY <1>3, <1>6, <1>11, TextIs
<1>13. new[<<i, d>>[1]][<<i, d>>[2]] = newName
  <2>1. <<i, d>>[1] = i /\ <<i, d>>[2] = d
    OBVIOUS
  <2> QED  BY Zenon, <1>11, <2>1
<1> QED  BY <1>12, <1>13 DEF FreshIn, new

-------------------------------------------------------------------------------
(* The invariant of the documents                                          *)

\* In either case mode, only a name is the same as a name, and a dot as a dot.
LEMMA NamesSame ==
  ASSUME NEW a, NEW b \in Names \cup {"."}, NormalizeName(a) = NormalizeName(b)
  PROVE  a \in Names \cup {"."}
<1>1. \A n \in Names : NormalizeName(n) \in Names
  BY EditorAssumption DEF NormalizeName
<1>2. \A w : w \notin Names => NormalizeName(w) = w
  BY DEF NormalizeName
<1> QED  BY <1>1, <1>2

LEMMA WordsSame ==
  ASSUME NEW line \in Seq(STRING), NEW c \in 1 .. Len(line),
         NEW name \in Seq(Names \cup {"."}), name # <<>>, Same(Words(line, c, Len(name)), name)
  PROVE  /\ c + Len(name) - 1 <= Len(line) /\ Len(name) \in Nat \ {0}
         /\ \A d \in c .. c + Len(name) - 1 : line[d] \in Names \cup {"."}
<1> DEFINE n == Len(name)
           e == IF c + n - 1 <= Len(line) THEN c + n - 1 ELSE Len(line)
           words == Words(line, c, n)
<1>1. /\ n \in Nat \ {0} /\ Len(line) \in Nat /\ DOMAIN name = 1 .. n
      /\ \A k \in 1 .. n : name[k] \in Names \cup {"."}
  BY LenProperties, ElementOfSeq, EmptySeq
<1> HIDE DEF n
<1>2. words = SubSeq(line, c, e)
  BY DEF Words
<1>3. e \in c .. Len(line) /\ e <= c + n - 1 /\ e \in Nat
  BY <1>1
<1> HIDE DEF e
<1>4. /\ Len(words) = e - c + 1
      /\ \A k \in 1 .. e - c + 1 : words[k] = line[c + k - 1]
      /\ DOMAIN words = 1 .. e - c + 1
  <2>1. \A k \in c .. e : line[k] \in STRING
    BY <1>1, <1>3, ElementOfSeq
  <2>2. c \in Nat /\ c <= e
    BY <1>3
  <2>3. /\ words \in Seq(STRING) /\ Len(words) = e - c + 1
        /\ \A k \in 1 .. e - c + 1 : words[k] = line[c + k - 1]
    BY <1>2, <1>3, <2>1, <2>2, SubSeqProperties
  <2> QED  BY <2>3, LenProperties
<1> HIDE DEF words
<1>5. Len(words) = n /\ \A k \in 1 .. n : words[k] \in Names \cup {"."}
  <2>1. CASE words = name
    BY <1>1, <2>1 DEF n
  <2>2. CASE words # name
    <3>1. Len(words) = n /\ \A k \in DOMAIN words : NormalizeName(words[k]) = NormalizeName(name[k])
      BY <2>2 DEF Same, words, n
    <3>2. DOMAIN words = 1 .. n
      BY <1>4, <3>1
    <3> QED  BY <1>1, <3>1, <3>2, NamesSame
  <2> QED  BY <2>1, <2>2
<1>6. e = c + n - 1
  BY <1>1, <1>3, <1>4, <1>5
<1>7. ASSUME NEW d \in c .. c + n - 1  PROVE line[d] \in Names \cup {"."}
  <2> DEFINE k == d - c + 1
  <2>1. k \in 1 .. n /\ k \in 1 .. e - c + 1 /\ c + k - 1 = d
    BY <1>1, <1>6
  <2> HIDE DEF k
  <2> QED  BY <1>4, <1>5, <2>1
<1> QED  BY <1>1, <1>3, <1>6, <1>7 DEF n

\* What references finds are words that rename may replace.
LEMMA ReferencesFit ==
  ASSUME DocInv, NEW name \in Seq(Names \cup {"."}), name # <<>>
  PROVE  /\ \A r \in FindReferences(name) : r.uri \in Indexed
         /\ \A v \in Indexed : Fitting({r \in FindReferences(name) : r.uri = v}, Text(v))
<1> DEFINE R(v) == {Span(v, p, Len(name)) :
                      p \in {p \in Positions(Text(v)) :
                               Same(Words(Text(v)[p[1]], p[2], Len(name)), name)}}
<1>1. FindReferences(name) = UNION {R(v) : v \in Indexed}
  BY Zenon DEF FindReferences
<1>2. ASSUME NEW v \in Indexed, NEW r \in R(v)
      PROVE  /\ r.uri = v /\ r.line \in DOMAIN Text(v) /\ r.column \in 1 .. Len(Text(v)[r.line])
             /\ r.width \in Nat \ {0} /\ r.column + r.width - 1 <= Len(Text(v)[r.line])
             /\ \A c \in r.column .. r.column + r.width - 1 : Text(v)[r.line][c] \in Names \cup {"."}
  <2>1. PICK p \in Positions(Text(v)) : /\ r = Span(v, p, Len(name))
                                        /\ Same(Words(Text(v)[p[1]], p[2], Len(name)), name)
    BY <1>2
  <2>2. r.uri = v /\ r.line = p[1] /\ r.column = p[2] /\ r.width = Len(name)
    BY <2>1 DEF Span
  <2>3. /\ p[1] \in DOMAIN Text(v) /\ p[2] \in 1 .. Len(Text(v)[p[1]])
        /\ Text(v)[p[1]] \in Seq(STRING)
    BY IndexedTexts, TextIs
  <2>4. /\ p[2] + Len(name) - 1 <= Len(Text(v)[p[1]]) /\ Len(name) \in Nat \ {0}
        /\ \A d \in p[2] .. p[2] + Len(name) - 1 : Text(v)[p[1]][d] \in Names \cup {"."}
    BY <2>1, <2>3, WordsSame
  <2> QED  BY <2>2, <2>3, <2>4
<1> HIDE DEF R
<1>3. ASSUME NEW r \in FindReferences(name)  PROVE \E v \in Indexed : r \in R(v) /\ r.uri = v
  <2>1. PICK v \in Indexed : r \in R(v)
    BY Zenon, <1>1
  <2>2. r.uri = v
    BY <1>2, <2>1
  <2> QED  BY <2>1, <2>2
<1>4. ASSUME NEW v \in Indexed  PROVE Fitting({r \in FindReferences(name) : r.uri = v}, Text(v))
  <2> SUFFICES ASSUME NEW r \in FindReferences(name), r.uri = v
               PROVE  /\ r.line \in DOMAIN Text(v) /\ r.column \in 1 .. Len(Text(v)[r.line])
                      /\ r.width \in Nat \ {0} /\ r.column + r.width - 1 <= Len(Text(v)[r.line])
                      /\ \A c \in r.column .. r.column + r.width - 1 :
                           Text(v)[r.line][c] \in Names \cup {"."}
    BY DEF Fitting
  <2>1. r \in R(v)
    BY <1>3
  <2> QED  BY <1>2, <2>1
<1> QED  BY <1>3, <1>4

\* The lines of programs, with modules that are names.
ProgramLines == {line \in Seq(STRING) : Statement(line) /\ (CallsModule(line) => line[4] \in Names)}
\* A document whose modules are names.
ModuleNamed(d) ==
  /\ \A i \in DOMAIN d.text : CallsModule(d.text[i]) => d.text[i][4] \in Names
  /\ d.moduleName \in Names \cup {NoName}

DocumentOk(d) == GoodDoc(d) /\ (FreshIn(d.text) \/ ModuleNamed(d))

\* Each document is what the index makes of a text of statements, and until a
\* rename brought a new name to it, its modules are names.
EditorInv ==
  /\ documents = [u \in Uris |-> documents[u]]
  /\ \A u \in Indexed : DocumentOk(documents[u])

LEMMA ProgramTexts ==
  ASSUME NEW text
  PROVE  text \in Seq(ProgramLines) <=>
           Statements(text) /\ \A i \in DOMAIN text : CallsModule(text[i]) => text[i][4] \in Names
<1>1. ASSUME text \in Seq(ProgramLines)
      PROVE  Statements(text) /\ \A i \in DOMAIN text : CallsModule(text[i]) => text[i][4] \in Names
  <2>1. text \in [1 .. Len(text) -> ProgramLines] /\ Len(text) \in Nat
    BY <1>1, LenProperties
  <2>2. ProgramLines \subseteq Seq(STRING)
    BY DEF ProgramLines
  <2>3. text \in Seq(Seq(STRING))
    BY <1>1, <2>2, SeqMonotonic
  <2> QED  BY <2>1, <2>3 DEF Statements, Texted, ProgramLines
<1>2. ASSUME Statements(text), \A i \in DOMAIN text : CallsModule(text[i]) => text[i][4] \in Names
      PROVE  text \in Seq(ProgramLines)
  <2>1. Len(text) \in Nat /\ DOMAIN text = 1 .. Len(text) /\ text \in [1 .. Len(text) -> Seq(STRING)]
    BY <1>2, LenProperties DEF Statements, Texted
  <2>2. \A i \in 1 .. Len(text) : text[i] \in ProgramLines
    BY <1>2, <2>1 DEF Statements, Statement, ProgramLines
  <2>3. text \in [1 .. Len(text) -> ProgramLines]
    BY <2>1, <2>2
  <2> HIDE DEF ProgramLines
  <2> QED  BY <2>1, <2>3, SeqDef
<1> QED  BY <1>1, <1>2

LEMMA IndexedDocument ==
  ASSUME NEW text, Statements(text), NEW on
  PROVE  GoodDoc(Index(text, on)) /\ Index(text, on).text = text
BY DEF Index, GoodDoc

LEMMA ModuleLineIs ==
  ASSUME NEW text, Texted(text)
  PROVE  /\ ModuleLine(text) \in 0 .. Len(text)
         /\ ModuleLine(text) # 0 => CallsModule(text[ModuleLine(text)])
<1> DEFINE I == {i \in 1 .. Len(text) : CallsModule(text[i])}
<1>1. ModuleLine(text) = IF I # {} THEN Min(I) ELSE 0
  BY DEF ModuleLine, SelectInSeq
<1>2. Len(text) \in Nat /\ I \subseteq Nat
  BY TextIs
<1>3. ASSUME I # {}  PROVE Min(I) \in I
  <2> HIDE DEF I
  <2> QED  BY <1>2, <1>3, LeastIs
<1>4. CASE I = {}
  BY <1>1, <1>2, <1>4
<1>5. CASE I # {}
  <2> DEFINE m == ModuleLine(text)
  <2>1. m \in I
    BY <1>1, <1>3, <1>5
  <2> HIDE DEF m
  <2>2. m \in 1 .. Len(text) /\ CallsModule(text[m])
    BY <2>1
  <2> QED  BY <1>2, <2>2 DEF m
<1> QED  BY <1>4, <1>5

LEMMA ProgramDocument ==
  ASSUME NEW text \in Seq(ProgramLines), NEW on
  PROVE  DocumentOk(Index(text, on))
<1>1. Statements(text) /\ \A i \in DOMAIN text : CallsModule(text[i]) => text[i][4] \in Names
  BY ProgramTexts
<1>2. GoodDoc(Index(text, on)) /\ Index(text, on).text = text
      /\ Index(text, on).moduleName = ModuleName(text, on)
  BY <1>1, IndexedDocument DEF Index
<1>3. ModuleName(text, on) \in Names \cup {NoName}
  <2>0. Len(text) \in Nat /\ DOMAIN text = 1 .. Len(text)
    BY LenProperties
  <2>1. /\ ModuleLine(text) \in 0 .. Len(text)
        /\ ModuleLine(text) # 0 => CallsModule(text[ModuleLine(text)])
    BY <1>1, ModuleLineIs DEF Statements
  <2>2. CASE ModuleLine(text) = 0
    BY <2>2 DEF ModuleName
  <2>3. CASE ModuleLine(text) # 0
    <3>1. ModuleLine(text) \in DOMAIN text
      BY <2>0, <2>1, <2>3
    <3>2. text[ModuleLine(text)][4] \in Names
      BY <1>1, <2>1, <2>3, <3>1
    <3> QED  BY <3>2 DEF ModuleName
  <2> QED  BY <2>2, <2>3
<1> QED  BY <1>1, <1>2, <1>3 DEF DocumentOk, ModuleNamed

-------------------------------------------------------------------------------
(* Every edit keeps the invariant                                          *)

LEMMA IndexedTyped ==
  ASSUME EditorInv, NEW u \in Indexed
  PROVE  /\ DocumentOk(documents[u]) /\ GoodDoc(documents[u]) /\ Text(u) = documents[u].text
         /\ Statements(Text(u)) /\ Texted(Text(u))
BY TextOf DEF EditorInv, DocumentOk, GoodDoc, Statements

LEMMA GoodDocuments ==
  ASSUME EditorInv
  PROVE  DocInv
BY DEF EditorInv, DocInv, DocumentOk

LEMMA NotRenamed ==
  ASSUME EditorInv, ~Renamed, NEW u \in Indexed
  PROVE  ModuleNamed(documents[u]) /\ ~FreshIn(Text(u))
<1>1. Text(u) = documents[u].text /\ DocumentOk(documents[u])
  BY IndexedTyped
<1>2. ~FreshIn(Text(u))
  BY DEF Renamed, FreshIn
<1> QED  BY <1>1, <1>2 DEF DocumentOk

\* What the user edits before a rename.
LEMMA EditableText ==
  ASSUME EditorInv, ~Renamed, NEW u \in Uris
  PROVE  Text(u) \in Seq(ProgramLines)
<1>1. CASE u \in Indexed
  <2>1. /\ Statements(Text(u))
        /\ \A i \in DOMAIN Text(u) : CallsModule(Text(u)[i]) => Text(u)[i][4] \in Names
    BY <1>1, IndexedTyped, NotRenamed DEF ModuleNamed
  <2> QED  BY <2>1, ProgramTexts
<1>2. CASE u \notin Indexed
  BY <1>2, EmptySeq DEF Text
<1> QED  BY <1>1, <1>2

LEMMA TypedLines ==
  /\ Lines \cup Openers \subseteq ProgramLines
  /\ <<"end">> \in ProgramLines
<1>1. Lines \cup Openers \subseteq ProgramLines
  BY EditorAssumption DEF ProgramLines, Statement
<1>2. <<"end">> \in ProgramLines
  <2> DEFINE line == <<"end">>
  <2>1. line \in Seq(STRING) /\ line # <<>> /\ line[1] = "end" /\ Len(line) = 1
    <3>1. "end" \in STRING
      BY DocumentAssumption, KnownWords
    <3> QED  BY <3>1
  <2> HIDE DEF line
  <2>2. ~IsFunction(line) /\ ~CallsModule(line)
    BY <2>1 DEF IsFunction, CallsModule
  <2>3. line \in ProgramLines
    BY <2>1, <2>2 DEF ProgramLines, Statement
  <2> QED  BY <2>3 DEF line
<1> QED  BY <1>1, <1>2

LEMMA PartTyped ==
  ASSUME NEW S, NEW s \in Seq(S), NEW m \in 1 .. Len(s) + 1, NEW n \in 0 .. Len(s)
  PROVE  SubSeq(s, m, n) \in Seq(S)
<1>1. Len(s) \in Nat
  BY LenProperties
<1>2. \A i \in m .. n : s[i] \in S
  BY <1>1, ElementOfSeq
<1>3. m \in Int /\ n \in Int
  BY <1>1
<1> QED  BY <1>2, <1>3, SubSeqProperties

LEMMA InsertedTyped ==
  ASSUME NEW S, NEW s \in Seq(S), NEW k \in 1 .. Len(s) + 1, NEW e \in S
  PROVE  InsertAt(s, k, e) \in Seq(S)
<1>1. Len(s) \in Nat /\ k - 1 \in 0 .. Len(s) /\ 1 \in 1 .. Len(s) + 1 /\ Len(s) \in 0 .. Len(s)
  BY LenProperties
<1>2. SubSeq(s, 1, k - 1) \in Seq(S) /\ SubSeq(s, k, Len(s)) \in Seq(S) /\ <<e>> \in Seq(S)
  BY <1>1, PartTyped, OneTyped
<1>3. (SubSeq(s, 1, k - 1) \o <<e>>) \o SubSeq(s, k, Len(s)) \in Seq(S)
  BY <1>2, ConcatProperties
<1> QED  BY <1>3 DEF InsertAt

LEMMA WrappedTyped ==
  ASSUME NEW S, NEW s \in Seq(S), NEW k \in 1 .. Len(s) + 1, NEW m \in k - 1 .. Len(s),
         NEW a \in S, NEW b \in S
  PROVE  SubSeq(s, 1, k - 1) \o <<a>> \o SubSeq(s, k, m) \o <<b>> \o SubSeq(s, m + 1, Len(s)) \in Seq(S)
<1>1. /\ Len(s) \in Nat /\ k - 1 \in 0 .. Len(s) /\ 1 \in 1 .. Len(s) + 1 /\ Len(s) \in 0 .. Len(s)
      /\ m \in 0 .. Len(s) /\ m + 1 \in 1 .. Len(s) + 1
  BY LenProperties
<1>2. /\ SubSeq(s, 1, k - 1) \in Seq(S) /\ SubSeq(s, k, m) \in Seq(S)
      /\ SubSeq(s, m + 1, Len(s)) \in Seq(S) /\ <<a>> \in Seq(S) /\ <<b>> \in Seq(S)
  BY <1>1, PartTyped, OneTyped
<1> QED  BY <1>2, ConcatProperties

\* A step that indexes one new text.
LEMMA UpdateKeeps ==
  ASSUME EditorInv, NEW u \in Uris, NEW d, d = NoDoc \/ DocumentOk(d),
         documents' = [documents EXCEPT ![u] = d]
  PROVE  EditorInv'
<1>1. documents' = [v \in Uris |-> documents'[v]]
  BY DEF EditorInv
<1>2. ASSUME NEW v \in Uris, documents'[v] # NoDoc  PROVE DocumentOk(documents'[v])
  BY <1>2 DEF EditorInv, Indexed
<1> QED  BY <1>1, <1>2 DEF EditorInv, Indexed

LEMMA TypeKeeps ==
  ASSUME EditorInv, NEW u \in Uris, Type(u)
  PROVE  EditorInv'
<1>1. ~Renamed
  BY DEF Type
<1>2. PICK line \in Lines, k \in 1 .. Len(Text(u)) + 1 : Update(u, InsertAt(Text(u), k, line))
  BY DEF Type
<1>3. line \in ProgramLines /\ Text(u) \in Seq(ProgramLines)
  BY <1>1, TypedLines, EditableText
<1>4. InsertAt(Text(u), k, line) \in Seq(ProgramLines)
  BY <1>3, InsertedTyped
<1>5. DocumentOk(Index(InsertAt(Text(u), k, line), supportModulePattern))
  BY <1>4, ProgramDocument
<1> QED  BY <1>2, <1>5, UpdateKeeps DEF Update

LEMMA WrapKeeps ==
  ASSUME EditorInv, NEW u \in Uris, Wrap(u)
  PROVE  EditorInv'
<1> DEFINE text == Text(u)
           Wrapped(opener, k, m) ==
             SubSeq(text, 1, k - 1) \o <<opener>> \o SubSeq(text, k, m)
               \o << <<"end">> >> \o SubSeq(text, m + 1, Len(text))
<1>1. ~Renamed
  BY DEF Wrap
<1>2. PICK opener \in Openers, k \in 1 .. Len(text) + 1 :
        \E m \in k - 1 .. Len(text) : Update(u, Wrapped(opener, k, m))
  BY DEF Wrap
<1>3. PICK m \in k - 1 .. Len(text) : Update(u, Wrapped(opener, k, m))
  BY <1>2
<1>4. opener \in ProgramLines /\ <<"end">> \in ProgramLines /\ text \in Seq(ProgramLines)
  BY <1>1, TypedLines, EditableText
<1>5. Wrapped(opener, k, m) \in Seq(ProgramLines)
  <2> DEFINE b == <<"end">>
  <2>1. b \in ProgramLines
    BY <1>4
  <2> HIDE DEF b, text
  <2>2. SubSeq(text, 1, k - 1) \o <<opener>> \o SubSeq(text, k, m) \o <<b>>
          \o SubSeq(text, m + 1, Len(text)) \in Seq(ProgramLines)
    BY <1>4, <2>1, WrappedTyped
  <2> QED  BY <2>2 DEF b
<1>6. DocumentOk(Index(Wrapped(opener, k, m), supportModulePattern))
  <2> HIDE DEF Wrapped
  <2> QED  BY <1>5, ProgramDocument
<1> HIDE DEF Wrapped, text
<1> QED  BY <1>3, <1>6, UpdateKeeps DEF Update

LEMMA CloseKeeps ==
  ASSUME EditorInv, NEW u \in Uris, Close(u)
  PROVE  EditorInv'
BY UpdateKeeps DEF Close

LEMMA ConfigureKeeps ==
  ASSUME EditorInv, UNCHANGED documents
  PROVE  EditorInv'
BY DEF EditorInv, Indexed

\* The symbol under the cursor, and what is searched for it.
LEMMA NameUnder ==
  ASSUME EditorInv, ~Renamed, NEW u \in Indexed, NEW p, FindSymbolAt(documents[u], p) # NoSymbol
  PROVE  /\ FindSymbolAt(documents[u], p).name \in Seq(Names \cup {"."})
         /\ FindSymbolAt(documents[u], p).name # <<>>
<1> DEFINE s == FindSymbolAt(documents[u], p)
           d == documents[u]
<1>1. GoodDoc(d) /\ ModuleNamed(d)
  BY IndexedTyped, NotRenamed
<1>2. FirstIs(s, d, Under(d, p))
  BY <1>1, FirstUnder
<1>3. s \in ToSet(d.symbols)
  <2>1. PICK i \in Under(d, p) : s = d.symbols[i]
    BY <1>2 DEF FirstIs
  <2>2. i \in 1 .. Len(d.symbols)
    BY DEF Under
  <2> QED  BY <1>1, <2>1, <2>2, GoodDocIs
<1> HIDE DEF s, d
<1>4. PICK n \in Names : \/ s.name = <<n>>
                         \/ d.moduleName # NoName /\ s.name = <<d.moduleName, ".", n>>
  BY <1>1, <1>3, SymbolShape
<1>5. d.moduleName # NoName => d.moduleName \in Names
  BY <1>1 DEF ModuleNamed
<1> DEFINE W == Names \cup {"."}
           M == d.moduleName
<1>6. <<n>> \in Seq(W) /\ <<n>> # <<>> /\ (M \in Names => <<M, ".", n>> \in Seq(W) /\ <<M, ".", n>> # <<>>)
  OBVIOUS
<1>7. s.name \in Seq(W) /\ s.name # <<>>
  <2> HIDE DEF W, M
  <2> QED  BY Zenon, <1>4, <1>5, <1>6 DEF M
<1> QED  BY <1>7 DEF s, d

LEMMA RenameKeeps ==
  ASSUME EditorInv, NEW u \in Indexed, NEW newName \in Fresh, NEW p, Rename(u, p, newName)
  PROVE  EditorInv'
<1> DEFINE s == FindSymbolAt(documents[u], p)
           ranges == FindReferences(s.name)
           Edited == {r.uri : r \in ranges}
           In(v) == {r \in ranges : r.uri = v}
           new(v) == Applied(Text(v), In(v), newName)
<1>1. /\ s # NoSymbol /\ ~Renamed
      /\ documents' = [v \in Uris |-> IF v \in Edited THEN Index(new(v), supportModulePattern)
                                      ELSE documents[v]]
  BY Zenon DEF Rename
<1>2. s.name \in Seq(Names \cup {"."}) /\ s.name # <<>>
  BY <1>1, NameUnder
<1>3. DocInv /\ newName \in Names
  BY GoodDocuments, EditorAssumption
<1> HIDE DEF s
<1>4. Edited \subseteq Indexed /\ \A v \in Indexed : Fitting(In(v), Text(v))
  <2>1. /\ \A r \in ranges : r.uri \in Indexed
        /\ \A v \in Indexed : Fitting({r \in ranges : r.uri = v}, Text(v))
    BY <1>2, <1>3, ReferencesFit
  <2> HIDE DEF ranges
  <2> QED  BY <2>1
<1> HIDE DEF ranges
<1>5. ASSUME NEW v \in Edited  PROVE DocumentOk(Index(new(v), supportModulePattern))
  <2>1. PICK r \in In(v) : TRUE
    OBVIOUS
  <2>2. v \in Indexed /\ Statements(Text(v)) /\ Fitting(In(v), Text(v))
    BY <1>4, IndexedTyped
  <2> HIDE DEF In
  <2>3. FreshIn(new(v)) /\ Statements(new(v))
    BY <1>3, <2>1, <2>2, AppliedFresh, AppliedText DEF EditedText
  <2> HIDE DEF new
  <2>4. GoodDoc(Index(new(v), supportModulePattern)) /\ Index(new(v), supportModulePattern).text = new(v)
    BY <2>3, IndexedDocument
  <2> QED  BY <2>3, <2>4 DEF DocumentOk
<1> HIDE DEF new, Edited
<1>6. documents' = [v \in Uris |-> documents'[v]]
  BY <1>1
<1>7. ASSUME NEW v \in Uris, documents'[v] # NoDoc  PROVE DocumentOk(documents'[v])
  <2>1. CASE v \in Edited
    BY <1>1, <1>5, <2>1
  <2>2. CASE v \notin Edited
    BY <1>1, <1>7, <2>2 DEF EditorInv, Indexed
  <2> QED  BY <2>1, <2>2
<1> QED  BY <1>6, <1>7 DEF EditorInv, Indexed

-------------------------------------------------------------------------------
(* The depth of lines                                                      *)

\* What a line adds to the depth.
Rise(line) == (IF Opens(line) THEN 1 ELSE 0) - (IF Closes(line) THEN 1 ELSE 0)

LEMMA NumberIs ==
  ASSUME NEW text, NEW i \in Nat, NEW Marked
  PROVE  LET N(b) == Cardinality({k \in 1 .. b : k \in Marked})
         IN N(0) = 0 /\ N(i) \in Nat /\ N(i + 1) = N(i) + (IF i + 1 \in Marked THEN 1 ELSE 0)
<1> DEFINE S(b) == {k \in 1 .. b : k \in Marked}
<1>1. IsFiniteSet(S(i))
  <2>1. S(i) \subseteq 1 .. i /\ IsFiniteSet(1 .. i)
    BY FS_Interval
  <2> QED  BY <2>1, FS_Subset
<1>2. S(0) = {} /\ Cardinality({}) = 0
  BY FS_EmptySet
<1>3. Cardinality(S(i)) \in Nat
  BY <1>1, FS_CardinalityType
<1>4. Cardinality(S(i + 1)) = Cardinality(S(i)) + (IF i + 1 \in Marked THEN 1 ELSE 0)
  <2>1. CASE i + 1 \in Marked
    <3>1. S(i + 1) = S(i) \cup {i + 1} /\ i + 1 \notin S(i)
      BY <2>1
    <3> HIDE DEF S
    <3> QED  BY <1>1, <2>1, <3>1, FS_AddElement
  <2>2. CASE i + 1 \notin Marked
    <3>1. S(i + 1) = S(i)
      BY <2>2
    <3> QED  BY <1>3, <2>2, <3>1
  <2> QED  BY <2>1, <2>2
<1> QED  BY Zenon, <1>2, <1>3, <1>4

LEMMA OpensOrCloses ==
  ASSUME NEW line, line \in Seq(STRING)
  PROVE  ~(Opens(line) /\ Closes(line))
<1> SUFFICES ASSUME Opens(line), line = <<"end">>  PROVE FALSE
  BY DEF Closes
<1>1. Len(line) = 1 /\ line[1] = "end"
  OBVIOUS
<1>2. ~IsFunction(line) /\ ~Contains(line, "do")
  BY <1>1 DEF IsFunction, Contains
<1> QED  BY <1>2 DEF Opens

LEMMA DepthSteps ==
  ASSUME NEW text
  PROVE  /\ Depth(text, 1) = 0
         /\ \A i \in Nat \ {0} : Depth(text, i) \in Int /\ Depth(text, i + 1) = Depth(text, i) + Rise(text[i])
<1> DEFINE OpenLines == {k \in Nat : Opens(text[k])}
           CloseLines == {k \in Nat : Closes(text[k])}
           N(M, b) == Cardinality({k \in 1 .. b : k \in M})
<1>1. ASSUME NEW i \in Nat \ {0}
      PROVE  Depth(text, i) = N(OpenLines, i - 1) - N(CloseLines, i - 1)
  <2>1. /\ {k \in 1 .. i - 1 : Opens(text[k])} = {k \in 1 .. i - 1 : k \in OpenLines}
        /\ {k \in 1 .. i - 1 : Closes(text[k])} = {k \in 1 .. i - 1 : k \in CloseLines}
    OBVIOUS
  <2>2. Depth(text, i) = Cardinality({k \in 1 .. i - 1 : Opens(text[k])})
                           - Cardinality({k \in 1 .. i - 1 : Closes(text[k])})
    BY DEF Depth, Number
  <2> HIDE DEF OpenLines, CloseLines
  <2> QED  BY Zenon, <2>1, <2>2
<1>2. \A k \in Nat : (k \in OpenLines <=> Opens(text[k])) /\ (k \in CloseLines <=> Closes(text[k]))
  OBVIOUS
<1> HIDE DEF OpenLines, CloseLines
<1>3. ASSUME NEW M, NEW b \in Nat
      PROVE  N(M, 0) = 0 /\ N(M, b) \in Nat /\ N(M, b + 1) = N(M, b) + (IF b + 1 \in M THEN 1 ELSE 0)
  BY NumberIs
<1> HIDE DEF N
<1>4. Depth(text, 1) = 0
  BY <1>1, <1>3
<1>5. ASSUME NEW i \in Nat \ {0}
      PROVE  Depth(text, i) \in Int /\ Depth(text, i + 1) = Depth(text, i) + Rise(text[i])
  <2>1. i - 1 \in Nat /\ (i - 1) + 1 = i /\ i + 1 \in Nat \ {0} /\ (i + 1) - 1 = i
    OBVIOUS
  <2>2. /\ N(OpenLines, i - 1) \in Nat /\ N(CloseLines, i - 1) \in Nat
        /\ N(OpenLines, i) = N(OpenLines, i - 1) + (IF i \in OpenLines THEN 1 ELSE 0)
        /\ N(CloseLines, i) = N(CloseLines, i - 1) + (IF i \in CloseLines THEN 1 ELSE 0)
    BY <1>3, <2>1
  <2>3. /\ Depth(text, i) = N(OpenLines, i - 1) - N(CloseLines, i - 1)
        /\ Depth(text, i + 1) = N(OpenLines, i) - N(CloseLines, i)
    BY <1>1, <2>1
  <2>4. Rise(text[i]) = (IF i \in OpenLines THEN 1 ELSE 0) - (IF i \in CloseLines THEN 1 ELSE 0)
    BY <1>2 DEF Rise
  <2> QED  BY <2>2, <2>3, <2>4
<1> QED  BY <1>4, <1>5

\* Depths are what starts at 0 and rises with the lines.
LEMMA DepthIs ==
  ASSUME NEW text, NEW n \in Nat, NEW e \in [0 .. n -> Int], e[0] = 0,
         \A j \in 1 .. n : e[j] = e[j - 1] + Rise(text[j])
  PROVE  \A j \in 0 .. n : Depth(text, j + 1) = e[j]
<1> DEFINE T == {j \in 0 .. n : Depth(text, j + 1) = e[j]}
<1>1. 0 \in T
  BY DepthSteps
<1>2. ASSUME NEW j \in 1 .. n, j - 1 \in T  PROVE j \in T
  <2>1. Depth(text, j) = e[j - 1]
    BY <1>2
  <2>2. Depth(text, j + 1) = Depth(text, j) + Rise(text[j])
    BY DepthSteps
  <2> QED  BY <2>1, <2>2
<1>3. 0 \in T /\ \A j \in 1 .. n : j - 1 \in T => j \in T
  BY <1>1, <1>2
<1> HIDE DEF T
<1>4. \A j \in 0 .. n : j \in T
  BY <1>3, UpTo
<1> QED  BY <1>4 DEF T

\* Every block is closed, and none that is not open.
Balanced(text) ==
  /\ Depth(text, Len(text) + 1) = 0
  /\ \A i \in 1 .. Len(text) + 1 : Depth(text, i) \in Nat

LEMMA PartIs ==
  ASSUME NEW S, NEW s \in Seq(S), NEW m \in 1 .. Len(s) + 1, NEW n \in m - 1 .. Len(s)
  PROVE  /\ SubSeq(s, m, n) \in Seq(S) /\ Len(SubSeq(s, m, n)) = n - m + 1
         /\ \A j \in 1 .. n - m + 1 : SubSeq(s, m, n)[j] = s[m + j - 1]
<1>1. Len(s) \in Nat
  BY LenProperties
<1>2. \A j \in m .. n : s[j] \in S
  BY <1>1, ElementOfSeq
<1>3. m \in Int /\ n \in Int /\ (m > n => n - m + 1 = 0)
  BY <1>1
<1> QED  BY <1>2, <1>3, SubSeqProperties

\* t is s with a word behind its first k.
LEMMA AddedIs ==
  ASSUME NEW S, NEW s \in Seq(S), NEW e \in S, NEW k, k = Len(s)
  PROVE  /\ s \o <<e>> \in Seq(S) /\ Len(s \o <<e>>) = k + 1 /\ k \in Nat
         /\ \A j \in 1 .. k + 1 : (s \o <<e>>)[j] = IF j <= k THEN s[j] ELSE e
<1>1. <<e>> \in Seq(S) /\ Len(<<e>>) = 1 /\ <<e>>[1] = e /\ k \in Nat
  BY LenProperties
<1> DEFINE a == <<e>>
<1>2. a \in Seq(S) /\ Len(a) = 1 /\ a[1] = e
  BY <1>1
<1> HIDE DEF a
<1>3. /\ s \o a \in Seq(S) /\ Len(s \o a) = Len(s) + Len(a)
      /\ \A j \in 1 .. Len(s) + Len(a) : (s \o a)[j] = IF j <= Len(s) THEN s[j] ELSE a[j - Len(s)]
  BY <1>2, ConcatProperties
<1>4. /\ s \o a \in Seq(S) /\ Len(s \o a) = k + 1
      /\ \A j \in 1 .. k + 1 : (s \o a)[j] = IF j <= k THEN s[j] ELSE e
  BY <1>1, <1>2, <1>3
<1> QED  BY <1>1, <1>4 DEF a

LEMMA JoinedIs ==
  ASSUME NEW S, NEW s \in Seq(S), NEW t \in Seq(S), NEW k, k = Len(s), NEW m, m = Len(t)
  PROVE  /\ s \o t \in Seq(S) /\ Len(s \o t) = k + m /\ k \in Nat /\ m \in Nat
         /\ \A j \in 1 .. k + m : (s \o t)[j] = IF j <= k THEN s[j] ELSE t[j - k]
BY ConcatProperties, LenProperties

\* new is text with line at its k.
InsertedAt(new, text, k, line) ==
  /\ Len(new) = Len(text) + 1
  /\ \A j \in 1 .. Len(text) + 1 :
       new[j] = IF j < k THEN text[j] ELSE IF j = k THEN line ELSE text[j - 1]

LEMMA InsertedIs ==
  ASSUME NEW S, NEW text \in Seq(S), NEW k \in 1 .. Len(text) + 1, NEW line \in S
  PROVE  InsertedAt(InsertAt(text, k, line), text, k, line)
<1> DEFINE n == Len(text)
           a == SubSeq(text, 1, k - 1)
           b == a \o <<line>>
           c == SubSeq(text, k, n)
           new == InsertAt(text, k, line)
<1>1. n \in Nat
  BY LenProperties
<1>2. a \in Seq(S) /\ Len(a) = k - 1 /\ \A j \in 1 .. k - 1 : a[j] = text[j]
  <2>1. 1 \in 1 .. Len(text) + 1 /\ k - 1 \in 1 - 1 .. Len(text)
    BY <1>1
  <2>2. /\ a \in Seq(S) /\ Len(a) = (k - 1) - 1 + 1
        /\ \A j \in 1 .. (k - 1) - 1 + 1 : a[j] = text[1 + j - 1]
    BY <2>1, PartIs
  <2> HIDE DEF a
  <2> QED  BY <1>1, <2>2
<1>3. c \in Seq(S) /\ Len(c) = n - k + 1 /\ \A j \in 1 .. n - k + 1 : c[j] = text[k + j - 1]
  <2>1. Len(text) \in k - 1 .. Len(text)
    BY <1>1
  <2> QED  BY <2>1, PartIs
<1>4. new = b \o c
  BY DEF InsertAt
<1> HIDE DEF a, c, new, n
<1>5. b \in Seq(S) /\ Len(b) = k /\ \A j \in 1 .. k : b[j] = IF j <= k - 1 THEN a[j] ELSE line
  <2>1. /\ b \in Seq(S) /\ Len(b) = (k - 1) + 1
        /\ \A j \in 1 .. (k - 1) + 1 : b[j] = IF j <= k - 1 THEN a[j] ELSE line
    <3> DEFINE i == k - 1
    <3>1. Len(a) = i
      BY <1>2
    <3> HIDE DEF i
    <3>2. /\ b \in Seq(S) /\ Len(b) = i + 1 /\ \A j \in 1 .. i + 1 : b[j] = IF j <= i THEN a[j] ELSE line
      BY <1>2, <3>1, AddedIs
    <3> QED  BY <3>2 DEF i
  <2> HIDE DEF b
  <2> QED  BY <1>1, <2>1
<1> HIDE DEF b
<1>6. /\ Len(new) = k + Len(c) /\ \A j \in 1 .. k + Len(c) : new[j] = IF j <= k THEN b[j] ELSE c[j - k]
  <2> DEFINE m == Len(c)
  <2>1. b \in Seq(S) /\ c \in Seq(S) /\ k = Len(b) /\ m = Len(c)
    BY <1>3, <1>5
  <2> HIDE DEF m
  <2>2. /\ Len(b \o c) = k + m
        /\ \A j \in 1 .. k + m : (b \o c)[j] = IF j <= k THEN b[j] ELSE c[j - k]
    BY <2>1, JoinedIs
  <2> QED  BY <1>4, <2>2 DEF m
<1>7. Len(new) = n + 1
  BY <1>1, <1>3, <1>6
<1>8. ASSUME NEW j \in 1 .. n + 1
      PROVE  new[j] = IF j < k THEN text[j] ELSE IF j = k THEN line ELSE text[j - 1]
  <2>0. k \in 1 .. n + 1
    BY DEF n
  <2>1. CASE j < k
    BY <1>1, <1>2, <1>3, <1>5, <1>6, <2>0, <2>1
  <2>2. CASE j = k
    BY <1>1, <1>3, <1>5, <1>6, <2>0, <2>2
  <2>3. CASE j > k
    <3>1. new[j] = c[j - k]
      BY <1>1, <1>3, <1>6, <2>0, <2>3
    <3>2. j - k \in 1 .. n - k + 1 /\ k + (j - k) - 1 = j - 1
      BY <1>1, <2>0, <2>3
    <3> QED  BY <1>3, <2>3, <3>1, <3>2
  <2> QED  BY <1>1, <2>0, <2>1, <2>2, <2>3
<1> QED  BY <1>7, <1>8 DEF InsertedAt, new, n

\* From the new line on, the depths are those of the line before, and its rise.
LEMMA InsertedDepth ==
  ASSUME NEW new, NEW text, NEW line, Len(text) \in Nat, NEW k \in 1 .. Len(text) + 1,
         InsertedAt(new, text, k, line)
  PROVE  \A j \in 1 .. Len(text) + 2 :
           Depth(new, j) = IF j <= k THEN Depth(text, j) ELSE Depth(text, j - 1) + Rise(line)
<1> DEFINE n == Len(text)
           E(j) == IF j < k THEN Depth(text, j + 1) ELSE Depth(text, j) + Rise(line)
           e == [j \in 0 .. n + 1 |-> E(j)]
<1>1. n \in Nat /\ k \in 1 .. n + 1
  OBVIOUS
<1>2. /\ \A j \in 1 .. n + 1 : new[j] = IF j < k THEN text[j] ELSE IF j = k THEN line ELSE text[j - 1]
      /\ Len(new) = n + 1
  BY DEF InsertedAt
<1> HIDE DEF n
<1>3. \A j \in Nat \ {0} : Depth(text, j) \in Int /\ Depth(text, j + 1) = Depth(text, j) + Rise(text[j])
  BY DepthSteps
<1>4. Depth(text, 1) = 0
  BY DepthSteps
<1>4a. Rise(line) \in Int
  BY DEF Rise
<1>5. \A j \in 0 .. n + 1 : E(j) \in Int
  <2>1. ASSUME NEW j \in 0 .. n + 1  PROVE E(j) \in Int
    <3>1. j + 1 \in Nat \ {0} /\ (~(j < k) => j \in Nat \ {0})
      BY <1>1
    <3>2. Depth(text, j + 1) \in Int /\ (~(j < k) => Depth(text, j) \in Int)
      BY <1>3, <3>1
    <3> QED  BY <1>4a, <3>2
  <2> QED  BY <2>1
<1>6. E(0) = 0
  BY <1>1, <1>4
<1>7. ASSUME NEW j \in 1 .. n + 1  PROVE E(j) = E(j - 1) + Rise(new[j])
  <2>1. CASE j < k
    <3>1. new[j] = text[j] /\ E(j) = Depth(text, j + 1) /\ E(j - 1) = Depth(text, j)
      BY <1>1, <1>2, <2>1
    <3>2. j \in Nat \ {0}
      BY <1>1
    <3> HIDE DEF E
    <3>3. Depth(text, j + 1) = Depth(text, j) + Rise(text[j])
      BY <1>3, <3>2
    <3> QED  BY Zenon, <3>1, <3>3
  <2>2. CASE j = k
    <3>1. new[j] = line /\ E(j) = Depth(text, j) + Rise(line) /\ E(j - 1) = Depth(text, j)
      BY <1>1, <1>2, <2>2
    <3> HIDE DEF E
    <3> QED  BY <1>3, <3>1
  <2>3. CASE j > k
    <3>1. /\ new[j] = text[j - 1] /\ E(j) = Depth(text, j) + Rise(line)
          /\ E(j - 1) = Depth(text, j - 1) + Rise(line)
      BY <1>1, <1>2, <2>3
    <3>2. j - 1 \in Nat \ {0} /\ (j - 1) + 1 = j
      BY <1>1, <2>3
    <3>3. /\ Depth(text, j) = Depth(text, j - 1) + Rise(text[j - 1]) /\ Depth(text, j - 1) \in Int
          /\ Rise(text[j - 1]) \in Int
      <4> DEFINE h == j - 1
      <4>1. h \in Nat \ {0} /\ h + 1 = j
        BY <3>2
      <4> HIDE DEF h
      <4>2. Depth(text, h + 1) = Depth(text, h) + Rise(text[h]) /\ Depth(text, h) \in Int
        BY <1>3, <4>1
      <4>3. Rise(text[h]) \in Int
        BY DEF Rise
      <4> QED  BY <4>1, <4>2, <4>3 DEF h
    <3> HIDE DEF E
    <3> QED  BY <1>4a, <3>1, <3>3
  <2> QED  BY <1>1, <2>1, <2>2, <2>3
<1>8. e \in [0 .. n + 1 -> Int] /\ e[0] = 0 /\ \A j \in 0 .. n + 1 : e[j] = E(j)
  <2> HIDE DEF E
  <2> QED  BY <1>1, <1>5, <1>6
<1> HIDE DEF e
<1>9. n + 1 \in Nat /\ \A j \in 1 .. n + 1 : e[j] = e[j - 1] + Rise(new[j])
  <2>1. n + 1 \in Nat /\ \A j \in 1 .. n + 1 : j - 1 \in 0 .. n + 1 /\ j \in 0 .. n + 1
    BY <1>1
  <2> HIDE DEF E
  <2> QED  BY <1>7, <1>8, <2>1
<1> DEFINE m == n + 1
<1>10. \A j \in 0 .. m : Depth(new, j + 1) = e[j]
  <2>1. m \in Nat /\ e \in [0 .. m -> Int] /\ e[0] = 0 /\ \A j \in 1 .. m : e[j] = e[j - 1] + Rise(new[j])
    BY <1>8, <1>9
  <2> HIDE DEF m
  <2> QED  BY <2>1, DepthIs
<1>11. ASSUME NEW j \in 1 .. n + 2
       PROVE  Depth(new, j) = IF j <= k THEN Depth(text, j) ELSE Depth(text, j - 1) + Rise(line)
  <2>1. j - 1 \in 0 .. n + 1 /\ (j - 1) + 1 = j
    BY <1>1
  <2>2. Depth(new, j) = E(j - 1)
    BY <1>8, <1>10, <2>1
  <2> QED  BY <1>1, <2>2
<1> QED  BY <1>11 DEF n

-------------------------------------------------------------------------------
(* Edits keep texts balanced                                               *)

LEMMA InsertedBalanced ==
  ASSUME NEW S, NEW text \in Seq(S), Balanced(text), NEW k \in 1 .. Len(text) + 1, NEW line \in S,
         Rise(line) = 0
  PROVE  Balanced(InsertAt(text, k, line))
<1> DEFINE n == Len(text)
           new == InsertAt(text, k, line)
<1>1. n \in Nat /\ k \in 1 .. n + 1
  BY LenProperties
<1>2. InsertedAt(new, text, k, line)
  BY InsertedIs
<1>3. /\ Len(new) = n + 1
      /\ \A j \in 1 .. n + 2 : Depth(new, j) = IF j <= k THEN Depth(text, j) ELSE Depth(text, j - 1) + Rise(line)
  <2> HIDE DEF new
  <2>1. /\ Len(new) = Len(text) + 1
        /\ \A j \in 1 .. Len(text) + 2 :
             Depth(new, j) = IF j <= k THEN Depth(text, j) ELSE Depth(text, j - 1) + Rise(line)
    BY <1>1, <1>2, InsertedDepth DEF InsertedAt
  <2> QED  BY <2>1
<1>4. Depth(text, n + 1) = 0 /\ \A j \in 1 .. n + 1 : Depth(text, j) \in Nat
  BY DEF Balanced
<1> HIDE DEF new, n
<1>5. Depth(new, n + 2) = 0
  <2>1. n + 2 \in 1 .. n + 2 /\ ~(n + 2 <= k) /\ (n + 2) - 1 = n + 1
    BY <1>1
  <2>2. Depth(new, n + 2) = Depth(text, n + 1) + 0
    BY <1>3, <2>1
  <2> QED  BY <1>4, <2>2
<1>6. ASSUME NEW j \in 1 .. n + 2  PROVE Depth(new, j) \in Nat
  <2>1. CASE j <= k
    BY <1>1, <1>3, <1>4, <2>1
  <2>2. CASE j > k
    <3>1. j - 1 \in 1 .. n + 1
      BY <1>1, <2>2
    <3>2. Depth(text, j - 1) \in Nat
      BY <1>4, <3>1
    <3>3. Depth(new, j) = Depth(text, j - 1) + 0
      BY <1>1, <1>3, <2>2
    <3> QED  BY <3>2, <3>3
  <2> QED  BY <1>1, <2>1, <2>2
<1>7. Len(new) + 1 = n + 2
  BY <1>1, <1>3
<1> QED  BY <1>5, <1>6, <1>7 DEF Balanced, new

WrappedIn(new, text, k, m, a, b) ==
  new = SubSeq(text, 1, k - 1) \o <<a>> \o SubSeq(text, k, m) \o <<b>> \o SubSeq(text, m + 1, Len(text))

\* A block put around lines is two insertions.
LEMMA WrappedIs ==
  ASSUME NEW S, NEW text \in Seq(S), NEW k \in 1 .. Len(text) + 1, NEW m \in k - 1 .. Len(text),
         NEW a \in S, NEW b \in S, NEW new, WrappedIn(new, text, k, m, a, b)
  PROVE  InsertedAt(new, InsertAt(text, m + 1, b), k, a)
<1> DEFINE n == Len(text)
           mid == InsertAt(text, m + 1, b)
           p == SubSeq(text, 1, k - 1)
           q == SubSeq(text, k, m)
           r == SubSeq(text, m + 1, n)
           h == k - 1
           d == m - k + 1
           g == n - m
<1>1. /\ n \in Nat /\ k \in 1 .. n + 1 /\ m \in k - 1 .. n /\ m \in Nat
      /\ h \in Nat /\ d \in Nat /\ g \in Nat
  BY LenProperties
<1>2. p \in Seq(S) /\ Len(p) = h /\ \A j \in 1 .. h : p[j] = text[j]
  <2>1. 1 \in 1 .. Len(text) + 1 /\ k - 1 \in 1 - 1 .. Len(text)
    BY <1>1
  <2>2. /\ p \in Seq(S) /\ Len(p) = (k - 1) - 1 + 1
        /\ \A j \in 1 .. (k - 1) - 1 + 1 : p[j] = text[1 + j - 1]
    BY <2>1, PartIs
  <2> HIDE DEF p
  <2> QED  BY <1>1, <2>2
<1>3. q \in Seq(S) /\ Len(q) = d /\ \A j \in 1 .. d : q[j] = text[k + j - 1]
  BY PartIs
<1>4. r \in Seq(S) /\ Len(r) = g /\ \A j \in 1 .. g : r[j] = text[m + j]
  <2>1. m + 1 \in 1 .. Len(text) + 1 /\ Len(text) \in (m + 1) - 1 .. Len(text)
    BY <1>1
  <2>2. /\ r \in Seq(S) /\ Len(r) = Len(text) - (m + 1) + 1
        /\ \A j \in 1 .. Len(text) - (m + 1) + 1 : r[j] = text[(m + 1) + j - 1]
    BY <2>1, PartIs
  <2> HIDE DEF r
  <2> QED  BY <1>1, <2>2
<1> DEFINE pa == p \o <<a>>
           pq == pa \o q
           pb == pq \o <<b>>
<1>5. new = pb \o r
  BY DEF WrappedIn
<1>6. InsertedAt(mid, text, m + 1, b)
  <2>1. m + 1 \in 1 .. Len(text) + 1
    BY <1>1
  <2> QED  BY <2>1, InsertedIs
<1>7. /\ Len(mid) = n + 1
      /\ \A j \in 1 .. n + 1 : mid[j] = IF j < m + 1 THEN text[j] ELSE IF j = m + 1 THEN b ELSE text[j - 1]
  BY <1>6 DEF InsertedAt
<1>1a. h = k - 1 /\ d = m - k + 1 /\ g = n - m
  OBVIOUS
<1> HIDE DEF n, p, q, r, mid, h, d, g
<1>8. pa \in Seq(S) /\ Len(pa) = h + 1 /\ \A j \in 1 .. h + 1 : pa[j] = IF j <= h THEN p[j] ELSE a
  BY <1>2, AddedIs
<1> HIDE DEF pa
<1> DEFINE x == h + 1
<1>9. /\ pq \in Seq(S) /\ Len(pq) = x + d
      /\ \A j \in 1 .. x + d : pq[j] = IF j <= x THEN pa[j] ELSE q[j - x]
  <2>1. Len(pa) = x
    BY <1>8
  <2> HIDE DEF x
  <2> QED  BY SMTT(20), <1>3, <1>8, <2>1, JoinedIs
<1> HIDE DEF pq
<1> DEFINE y == x + d
<1>10. pb \in Seq(S) /\ Len(pb) = y + 1 /\ \A j \in 1 .. y + 1 : pb[j] = IF j <= y THEN pq[j] ELSE b
  <2>1. Len(pq) = y /\ pq \in Seq(S)
    BY <1>9
  <2> HIDE DEF y
  <2> QED  BY <2>1, AddedIs
<1> HIDE DEF pb
<1> DEFINE z == y + 1
<1>11. /\ Len(new) = z + g
       /\ \A j \in 1 .. z + g : new[j] = IF j <= z THEN pb[j] ELSE r[j - z]
  <2>1. Len(pb) = z /\ pb \in Seq(S) /\ r \in Seq(S) /\ Len(r) = g
    BY <1>4, <1>10
  <2> HIDE DEF z
  <2>2. /\ Len(pb \o r) = z + g
        /\ \A j \in 1 .. z + g : (pb \o r)[j] = IF j <= z THEN pb[j] ELSE r[j - z]
    BY SMTT(20), <2>1, JoinedIs
  <2> QED  BY <1>5, <2>2
<1>12. x = k /\ y = m + 1 /\ z = m + 2 /\ z + g = n + 2
  BY <1>1, <1>1a
<1> HIDE DEF x, y, z
<1>13. ASSUME NEW j \in 1 .. n + 2
       PROVE  new[j] = IF j < k THEN mid[j] ELSE IF j = k THEN a ELSE mid[j - 1]
  <2>1. CASE j < k
    <3>1. new[j] = pb[j] /\ pb[j] = pq[j] /\ pq[j] = pa[j] /\ pa[j] = p[j] /\ p[j] = text[j]
      <4>1. /\ j \in 1 .. z + g /\ j <= z /\ j \in 1 .. y + 1 /\ j <= y /\ j \in 1 .. x + d /\ j <= x
            /\ j \in 1 .. h + 1 /\ j <= h /\ j \in 1 .. h
        BY <1>1, <1>1a, <1>12, <2>1
      <4>2. new[j] = pb[j] /\ pb[j] = pq[j] /\ pq[j] = pa[j]
        BY <1>9, <1>10, <1>11, <4>1
      <4>3. pa[j] = p[j] /\ p[j] = text[j]
        BY <1>2, <1>8, <4>1
      <4> QED  BY <4>2, <4>3
    <3>2. mid[j] = text[j]
      BY <1>1, <1>7, <2>1
    <3> QED  BY <2>1, <3>1, <3>2
  <2>2. CASE j = k
    <3>1. new[j] = pb[j] /\ pb[j] = pq[j] /\ pq[j] = pa[j] /\ pa[j] = a
      <4>4. /\ j \in 1 .. z + g /\ j <= z /\ j \in 1 .. y + 1 /\ j <= y /\ j \in 1 .. x + d /\ j <= x
        BY <1>1, <1>1a, <1>12, <2>2
      <4>1. new[j] = pb[j] /\ pb[j] = pq[j] /\ pq[j] = pa[j]
        BY <1>9, <1>10, <1>11, <4>4
      <4>3. j \in 1 .. h + 1 /\ ~(j <= h)
        BY <1>1, <1>1a, <2>2
      <4>2. pa[j] = a
        BY <1>8, <4>3
      <4> QED  BY <4>1, <4>2
    <3> QED  BY <1>1, <2>2, <3>1
  <2>3. CASE k < j /\ j <= m + 1
    <3>1. new[j] = pb[j] /\ pb[j] = pq[j] /\ pq[j] = q[j - k]
      <4>1. /\ j \in 1 .. z + g /\ j <= z /\ j \in 1 .. y + 1 /\ j <= y /\ j \in 1 .. x + d /\ ~(j <= x)
        BY <1>1, <1>1a, <1>12, <2>3
      <4>2. new[j] = pb[j] /\ pb[j] = pq[j] /\ pq[j] = q[j - x]
        BY <1>9, <1>10, <1>11, <4>1
      <4> QED  BY <1>12, <4>2
    <3>2. j - k \in 1 .. d /\ k + (j - k) - 1 = j - 1
      BY <1>1, <1>1a, <2>3
    <3>3. q[j - k] = text[j - 1]
      BY <1>3, <3>2
    <3>4. mid[j - 1] = text[j - 1]
      <4>1. j - 1 \in 1 .. n + 1 /\ j - 1 < m + 1
        BY <1>1, <2>3
      <4> QED  BY <1>7, <4>1
    <3> QED  BY <1>1, <2>3, <3>1, <3>3, <3>4
  <2>4. CASE j = m + 2
    <3>1. new[j] = pb[j] /\ pb[j] = b
      BY <1>1, <1>10, <1>11, <1>12, <2>4
    <3>2. mid[j - 1] = b
      <4>1. j - 1 \in 1 .. n + 1 /\ j - 1 = m + 1
        BY <1>1, <2>4
      <4> QED  BY <1>7, <4>1
    <3> QED  BY <1>1, <2>4, <3>1, <3>2
  <2>5. CASE j > m + 2
    <3>1. new[j] = r[j - z]
      BY <1>1, <1>11, <1>12, <2>5
    <3>2. j - z \in 1 .. g /\ m + (j - z) = j - 2
      BY <1>1, <1>1a, <1>12, <2>5
    <3>3. r[j - z] = text[j - 2]
      BY <1>4, <3>2
    <3>4. mid[j - 1] = text[j - 2]
      <4>1. j - 1 \in 1 .. n + 1 /\ j - 1 > m + 1 /\ (j - 1) - 1 = j - 2
        BY <1>1, <2>5
      <4> QED  BY <1>1, <1>7, <4>1
    <3> QED  BY <1>1, <2>5, <3>1, <3>3, <3>4
  <2> QED  BY <1>1, <2>1, <2>2, <2>3, <2>4, <2>5
<1>14. Len(new) = Len(mid) + 1 /\ Len(mid) + 1 = n + 2
  BY <1>1, <1>7, <1>11, <1>12
<1>15. InsertedAt(new, mid, k, a)
  BY <1>13, <1>14 DEF InsertedAt
<1> QED  BY <1>15 DEF mid

LEMMA WrappedBalanced ==
  ASSUME NEW S, NEW text \in Seq(S), Balanced(text), NEW k \in 1 .. Len(text) + 1,
         NEW m \in k - 1 .. Len(text), NEW a \in S, Rise(a) = 1, NEW b \in S, Rise(b) = -1,
         NEW new, WrappedIn(new, text, k, m, a, b)
  PROVE  Balanced(new)
<1> DEFINE n == Len(text)
           mid == InsertAt(text, m + 1, b)
<1>1. n \in Nat /\ k \in 1 .. n + 1 /\ m \in k - 1 .. n /\ m + 1 \in 1 .. Len(text) + 1 /\ m \in Nat
  BY LenProperties
<1>2. InsertedAt(mid, text, m + 1, b) /\ InsertedAt(new, mid, k, a)
  BY <1>1, InsertedIs, WrappedIs
<1>3. Len(mid) = n + 1 /\ Len(new) = n + 2
  <2>1. Len(mid) = Len(text) + 1 /\ Len(new) = Len(mid) + 1
    BY <1>2 DEF InsertedAt
  <2> HIDE DEF mid
  <2> QED  BY <1>1, <2>1
<1>4. Depth(text, n + 1) = 0 /\ \A j \in 1 .. n + 1 : Depth(text, j) \in Nat
  BY DEF Balanced
<1> HIDE DEF mid
<1>5. \A j \in 1 .. n + 2 : Depth(mid, j) = IF j <= m + 1 THEN Depth(text, j) ELSE Depth(text, j - 1) + Rise(b)
  <2> DEFINE d == m + 1
  <2>1. d \in 1 .. Len(text) + 1 /\ InsertedAt(mid, text, d, b) /\ Len(text) \in Nat
    BY <1>1, <1>2
  <2> HIDE DEF d
  <2>2. \A j \in 1 .. Len(text) + 2 :
          Depth(mid, j) = IF j <= d THEN Depth(text, j) ELSE Depth(text, j - 1) + Rise(b)
    BY <2>1, InsertedDepth
  <2> QED  BY <2>2 DEF d
<1>6. \A j \in 1 .. n + 3 : Depth(new, j) = IF j <= k THEN Depth(mid, j) ELSE Depth(mid, j - 1) + Rise(a)
  <2>1. k \in 1 .. Len(mid) + 1 /\ Len(mid) \in Nat
    BY <1>1, <1>3
  <2>2. \A j \in 1 .. Len(mid) + 2 :
          Depth(new, j) = IF j <= k THEN Depth(mid, j) ELSE Depth(mid, j - 1) + Rise(a)
    BY <1>2, <2>1, InsertedDepth
  <2>3. 1 .. Len(mid) + 2 = 1 .. n + 3
    BY <1>1, <1>3
  <2> QED  BY <2>2, <2>3
<1> HIDE DEF n
<1>7. ASSUME NEW j \in 1 .. n + 3
      PROVE  Depth(new, j) \in Nat /\ (j = n + 3 => Depth(new, j) = 0)
  <2>1. CASE j <= k
    <3>1. j \in 1 .. n + 1 /\ j <= m + 1 /\ j \in 1 .. n + 2
      BY <1>1, <2>1
    <3>2. Depth(new, j) = Depth(text, j)
      BY <1>5, <1>6, <2>1, <3>1
    <3> QED  BY <1>1, <1>4, <2>1, <3>1, <3>2
  <2>2. CASE j > k /\ j - 1 <= m + 1
    <3>1. j - 1 \in 1 .. n + 1 /\ j - 1 \in 1 .. n + 2 /\ ~(j <= k) /\ j # n + 3
      BY <1>1, <2>2
    <3>2. Depth(new, j) = Depth(mid, j - 1) + 1
      BY <1>6, <3>1
    <3>3. Depth(mid, j - 1) = Depth(text, j - 1)
      BY <1>5, <2>2, <3>1
    <3>4. Depth(text, j - 1) \in Nat
      BY <1>4, <3>1
    <3> QED  BY <3>1, <3>2, <3>3, <3>4
  <2>3. CASE j > k /\ j - 1 > m + 1
    <3> DEFINE h == j - 1
    <3>1. h \in 1 .. n + 2 /\ ~(h <= m + 1) /\ ~(j <= k) /\ h - 1 \in 1 .. n + 1 /\ (j = n + 3 => h - 1 = n + 1)
      BY <1>1, <2>3
    <3>2. Depth(new, j) = Depth(mid, h) + 1
      BY <1>6, <3>1
    <3> HIDE DEF h
    <3>3. Depth(mid, h) = Depth(text, h - 1) + Rise(b)
      BY <1>5, <3>1
    <3>4. Depth(text, h - 1) \in Nat /\ (j = n + 3 => Depth(text, h - 1) = 0)
      BY <1>4, <3>1
    <3> QED  BY <3>2, <3>3, <3>4
  <2> QED  BY <1>1, <2>1, <2>2, <2>3
<1>8. Len(new) + 1 = n + 3 /\ n + 3 \in 1 .. n + 3
  BY <1>1, <1>3 DEF n
<1> QED  BY <1>7, <1>8 DEF Balanced

LEMMA SameDepths ==
  ASSUME NEW text, NEW new, NEW n \in Nat, \A i \in 1 .. n : Rise(new[i]) = Rise(text[i])
  PROVE  \A i \in 1 .. n + 1 : Depth(new, i) = Depth(text, i)
<1> DEFINE e == [j \in 0 .. n |-> Depth(text, j + 1)]
<1>1. e \in [0 .. n -> Int] /\ e[0] = 0
  <2>1. \A j \in 0 .. n : Depth(text, j + 1) \in Int
    BY DepthSteps
  <2> QED  BY <2>1, DepthSteps
<1>2. ASSUME NEW j \in 1 .. n  PROVE e[j] = e[j - 1] + Rise(new[j])
  <2>1. e[j] = Depth(text, j + 1) /\ e[j - 1] = Depth(text, j)
    OBVIOUS
  <2> HIDE DEF e
  <2>2. \A i \in Nat \ {0} : Depth(text, i + 1) = Depth(text, i) + Rise(text[i])
    BY DepthSteps
  <2>3. j \in Nat \ {0}
    OBVIOUS
  <2>4. Depth(text, j + 1) = Depth(text, j) + Rise(text[j])
    BY <2>2, <2>3
  <2>5. Rise(new[j]) = Rise(text[j])
    OBVIOUS
  <2> QED  BY Zenon, <2>1, <2>4, <2>5
<1>3. \A j \in 0 .. n : e[j] = Depth(text, j + 1)
  OBVIOUS
<1> HIDE DEF e
<1>4. \A j \in 0 .. n : Depth(new, j + 1) = e[j]
  BY Zenon, <1>1, <1>2, DepthIs
<1>5. ASSUME NEW i \in 1 .. n + 1  PROVE Depth(new, i) = Depth(text, i)
  <2> DEFINE j == i - 1
  <2>1. j \in 0 .. n /\ j + 1 = i
    OBVIOUS
  <2> HIDE DEF j
  <2> QED  BY <1>3, <1>4, <2>1
<1> QED  BY <1>5

LEMMA EditedBalanced ==
  ASSUME NEW text, Statements(text), Balanced(text), NEW new, EditedText(new, text)
  PROVE  Balanced(new)
<1> DEFINE n == Len(text)
<1>1. n \in Nat /\ DOMAIN text = 1 .. n /\ Len(new) = n
  <2>1. /\ Len(text) \in Nat /\ DOMAIN text = 1 .. Len(text)
        /\ Len(new) \in Nat /\ DOMAIN new = 1 .. Len(new) /\ DOMAIN new = DOMAIN text
    BY TextIs DEF Statements, EditedText
  <2> DEFINE p == Len(new)
             q == Len(text)
  <2>2. p \in Nat /\ q \in Nat /\ 1 .. p = 1 .. q
    BY <2>1
  <2> HIDE DEF p, q
  <2>3. p \in 1 .. p \/ p = 0
    BY <2>2
  <2>4. q \in 1 .. q \/ q = 0
    BY <2>2
  <2>5. p = 0 \/ p <= q
    BY <2>2, <2>3
  <2>6. q = 0 \/ q <= p
    BY <2>2, <2>4
  <2>7. p = q
    BY <2>2, <2>5, <2>6
  <2>8. Len(new) = Len(text)
    BY <2>7 DEF p, q
  <2> QED  BY <2>1, <2>8
<1>2. \A i \in 1 .. n : Rise(new[i]) = Rise(text[i])
  BY <1>1 DEF EditedText, Rise, Opens
<1> HIDE DEF n
<1>7. Depth(text, n + 1) = 0 /\ \A i \in 1 .. n + 1 : Depth(text, i) \in Nat
  BY DEF Balanced, n
<1>8. \A i \in 1 .. n + 1 : Depth(new, i) = Depth(text, i)
  BY <1>1, <1>2, SameDepths
<1>9. n + 1 \in 1 .. n + 1
  BY <1>1
<1> QED  BY <1>1, <1>7, <1>8, <1>9 DEF Balanced

BlockInv == \A u \in Indexed : Balanced(Text(u))

LEMMA BalancedTexts ==
  ASSUME BlockInv, NEW u \in Uris
  PROVE  Balanced(Text(u))
<1>1. CASE u \in Indexed
  BY <1>1 DEF BlockInv
<1>2. CASE u \notin Indexed
  <2> DEFINE text == Text(u)
  <2>1. Len(text) = 0
    BY <1>2, EmptySeq DEF Text
  <2> HIDE DEF text
  <2>2. Depth(text, 1) = 0
    BY DepthSteps
  <2>3. Len(text) + 1 = 1 /\ 1 .. Len(text) + 1 = {1}
    BY <2>1
  <2>4. Balanced(text)
    BY <2>2, <2>3 DEF Balanced
  <2> QED  BY <2>4 DEF text
<1> QED  BY <1>1, <1>2

LEMMA UpdateBalances ==
  ASSUME EditorInv, BlockInv, NEW u \in Uris, NEW text, Balanced(text), Update(u, text)
  PROVE  BlockInv'
<1> SUFFICES ASSUME NEW v \in Indexed'  PROVE Balanced(Text(v)')
  BY DEF BlockInv
<1>1. Text(v)' = documents'[v].text
  BY DEF Text
<1>2. v \in Uris /\ documents'[v] # NoDoc
  BY DEF Indexed
<1>3. documents' = [documents EXCEPT ![u] = Index(text, supportModulePattern)] /\ DOMAIN documents = Uris
  BY DEF Update, EditorInv
<1>4. CASE v = u
  <2>1. documents'[v].text = text
    BY <1>2, <1>3, <1>4 DEF Index
  <2> QED  BY <1>1, <2>1
<1>5. CASE v # u
  <2>1. documents'[v] = documents[v]
    BY <1>2, <1>3, <1>5
  <2>2. v \in Indexed /\ Text(v) = documents[v].text
    BY <1>2, <2>1 DEF Indexed, Text
  <2> QED  BY <1>1, <2>1, <2>2 DEF BlockInv
<1> QED  BY <1>4, <1>5

LEMMA BlockLines ==
  /\ \A line \in Lines : Rise(line) = 0
  /\ \A line \in Openers : Rise(line) = 1
  /\ Rise(<<"end">>) = -1
<1>1. \A line \in Lines : Rise(line) = 0
  BY EditorAssumption DEF Rise
<1>2. ASSUME NEW line \in Openers  PROVE Rise(line) = 1
  <2>1. Opens(line) /\ line \in Seq(STRING)
    BY EditorAssumption
  <2>2. ~Closes(line)
    BY <2>1, OpensOrCloses
  <2> QED  BY <2>1, <2>2 DEF Rise
<1>3. Rise(<<"end">>) = -1
  <2> DEFINE line == <<"end">>
  <2>1. Closes(line) /\ line \in Seq(STRING)
    BY TypedLines DEF Closes, ProgramLines
  <2> HIDE DEF line
  <2>2. ~Opens(line)
    BY <2>1, OpensOrCloses
  <2>3. Rise(line) = -1
    BY <2>1, <2>2 DEF Rise
  <2> QED  BY <2>3 DEF line
<1> QED  BY <1>1, <1>2, <1>3

LEMMA TypeBalances ==
  ASSUME EditorInv, BlockInv, NEW u \in Uris, Type(u)
  PROVE  BlockInv'
<1>1. ~Renamed
  BY DEF Type
<1>2. PICK line \in Lines, k \in 1 .. Len(Text(u)) + 1 : Update(u, InsertAt(Text(u), k, line))
  BY DEF Type
<1>3. line \in ProgramLines /\ Text(u) \in Seq(ProgramLines) /\ Rise(line) = 0 /\ Balanced(Text(u))
  BY <1>1, TypedLines, EditableText, BlockLines, BalancedTexts
<1>4. Balanced(InsertAt(Text(u), k, line))
  BY <1>3, InsertedBalanced
<1> QED  BY <1>2, <1>4, UpdateBalances

LEMMA WrapBalances ==
  ASSUME EditorInv, BlockInv, NEW u \in Uris, Wrap(u)
  PROVE  BlockInv'
<1> DEFINE text == Text(u)
           Wrapped(opener, k, m) ==
             SubSeq(text, 1, k - 1) \o <<opener>> \o SubSeq(text, k, m)
               \o << <<"end">> >> \o SubSeq(text, m + 1, Len(text))
<1>1. ~Renamed
  BY DEF Wrap
<1>2. PICK opener \in Openers, k \in 1 .. Len(text) + 1 :
        \E m \in k - 1 .. Len(text) : Update(u, Wrapped(opener, k, m))
  BY DEF Wrap
<1>3. PICK m \in k - 1 .. Len(text) : Update(u, Wrapped(opener, k, m))
  BY <1>2
<1>4. /\ opener \in ProgramLines /\ <<"end">> \in ProgramLines /\ text \in Seq(ProgramLines)
      /\ Rise(opener) = 1 /\ Rise(<<"end">>) = -1 /\ Balanced(text)
  BY <1>1, TypedLines, EditableText, BlockLines, BalancedTexts
<1>5. WrappedIn(Wrapped(opener, k, m), text, k, m, opener, <<"end">>)
  BY Zenon DEF WrappedIn
<1> HIDE DEF Wrapped, text
<1>6. Balanced(Wrapped(opener, k, m))
  BY <1>4, <1>5, WrappedBalanced
<1> QED  BY <1>3, <1>6, UpdateBalances

LEMMA CloseBalances ==
  ASSUME EditorInv, BlockInv, NEW u \in Uris, Close(u)
  PROVE  BlockInv'
<1>1. \A v \in Indexed' : v \in Indexed /\ Text(v)' = Text(v)
  BY DEF Close, EditorInv, Indexed, Text
<1> QED  BY <1>1 DEF BlockInv

LEMMA ConfigureBalances ==
  ASSUME BlockInv, UNCHANGED documents
  PROVE  BlockInv'
BY DEF BlockInv, Indexed, Text

LEMMA RenameBalances ==
  ASSUME EditorInv, BlockInv, NEW u \in Indexed, NEW newName \in Fresh, NEW p, Rename(u, p, newName)
  PROVE  BlockInv'
<1> DEFINE s == FindSymbolAt(documents[u], p)
           ranges == FindReferences(s.name)
           Edited == {r.uri : r \in ranges}
           In(v) == {r \in ranges : r.uri = v}
           new(v) == Applied(Text(v), In(v), newName)
<1>1. /\ s # NoSymbol /\ ~Renamed
      /\ documents' = [v \in Uris |-> IF v \in Edited THEN Index(new(v), supportModulePattern)
                                      ELSE documents[v]]
  BY Zenon DEF Rename
<1>2. s.name \in Seq(Names \cup {"."}) /\ s.name # <<>>
  BY <1>1, NameUnder
<1>3. DocInv /\ newName \in Names
  BY GoodDocuments, EditorAssumption
<1> HIDE DEF s
<1>4. Edited \subseteq Indexed /\ \A v \in Indexed : Fitting(In(v), Text(v))
  <2>1. /\ \A r \in ranges : r.uri \in Indexed
        /\ \A v \in Indexed : Fitting({r \in ranges : r.uri = v}, Text(v))
    BY <1>2, <1>3, ReferencesFit
  <2> HIDE DEF ranges
  <2> QED  BY <2>1
<1> HIDE DEF ranges
<1>5. ASSUME NEW v \in Edited  PROVE Balanced(new(v))
  <2>2. v \in Indexed /\ Statements(Text(v)) /\ Fitting(In(v), Text(v)) /\ Balanced(Text(v))
    BY <1>4, IndexedTyped DEF BlockInv
  <2> HIDE DEF In
  <2>3. EditedText(new(v), Text(v))
    BY <1>3, <2>2, AppliedText
  <2> HIDE DEF new
  <2> QED  BY <2>2, <2>3, EditedBalanced
<1> HIDE DEF new, Edited
<1> SUFFICES ASSUME NEW v \in Indexed'  PROVE Balanced(Text(v)')
  BY DEF BlockInv
<1>6. Text(v)' = documents'[v].text
  BY DEF Text
<1>7. v \in Uris /\ documents'[v] # NoDoc
  BY DEF Indexed
<1>8. CASE v \in Edited
  <2>1. documents'[v].text = new(v)
    BY <1>1, <1>7, <1>8 DEF Index
  <2> QED  BY <1>5, <1>6, <1>8, <2>1
<1>9. CASE v \notin Edited
  <2>1. documents'[v] = documents[v]
    BY <1>1, <1>7, <1>9
  <2>2. v \in Indexed /\ Text(v) = documents[v].text
    BY <1>7, <2>1 DEF Indexed, Text
  <2> QED  BY <1>6, <2>1, <2>2 DEF BlockInv
<1> QED  BY <1>8, <1>9

-------------------------------------------------------------------------------
(* Blocks and their folds                                                  *)

LEMMA MaximumExists ==
  ASSUME NEW n \in Nat, NEW T, T \subseteq 0 .. n, T # {}
  PROVE  \E x \in T : \A y \in T : y <= x
<1> DEFINE M == {n - y : y \in T}
<1>1. M \subseteq Nat /\ M # {}
  <2>1. \A y \in T : y \in 0 .. n /\ n - y \in Nat
    OBVIOUS
  <2>2. M \subseteq Nat
    BY <2>1
  <2>3. PICK y \in T : TRUE
    OBVIOUS
  <2>4. n - y \in M
    BY <2>3
  <2> QED  BY <2>2, <2>4
<1>2. \E a \in M : \A b \in M : a <= b
  <2> HIDE DEF M
  <2> QED  BY <1>1, MinimumExists
<1>3. PICK x \in T : \A b \in M : n - x <= b
  BY <1>2
<1>4. \A y \in T : n - x <= n - y
  BY <1>3
<1>5. \A y \in T : y <= x
  BY <1>4
<1> QED  BY <1>5

\* The depths of a balanced text of statements.
Depths(text, n) ==
  /\ n \in Nat /\ n = Len(text) /\ DOMAIN text = 1 .. n
  /\ Depth(text, 1) = 0 /\ Depth(text, n + 1) = 0
  /\ \A i \in 1 .. n + 1 : Depth(text, i) \in Nat
  /\ \A i \in 1 .. n : Depth(text, i + 1) = Depth(text, i) + Rise(text[i])
  /\ \A i \in 1 .. n : /\ Opens(text[i]) <=> Rise(text[i]) = 1
                       /\ Closes(text[i]) <=> Rise(text[i]) = -1
                       /\ Rise(text[i]) \in {-1, 0, 1}

LEMMA DepthsOf ==
  ASSUME NEW text, Statements(text), Balanced(text)
  PROVE  Depths(text, Len(text))
<1>1. Len(text) \in Nat /\ DOMAIN text = 1 .. Len(text) /\ \A i \in 1 .. Len(text) : text[i] \in Seq(STRING)
  BY TextIs DEF Statements
<1>2. Depth(text, 1) = 0 /\ \A i \in 1 .. Len(text) : Depth(text, i + 1) = Depth(text, i) + Rise(text[i])
  <2>1. Depth(text, 1) = 0
    BY DepthSteps
  <2>2. \A i \in Nat \ {0} : Depth(text, i + 1) = Depth(text, i) + Rise(text[i])
    BY DepthSteps
  <2> QED  BY <1>1, <2>1, <2>2
<1>3. ASSUME NEW i \in 1 .. Len(text)
      PROVE  /\ Opens(text[i]) <=> Rise(text[i]) = 1
             /\ Closes(text[i]) <=> Rise(text[i]) = -1
             /\ Rise(text[i]) \in {-1, 0, 1}
  <2>1. ~(Opens(text[i]) /\ Closes(text[i]))
    BY <1>1, OpensOrCloses
  <2> QED  BY <2>1 DEF Rise
<1> QED  BY <1>1, <1>2, <1>3 DEF Depths, Balanced

\* The line that closes the block of line i, and the depths in between.
ClosedAt(text, i, j) ==
  /\ i \in Nat /\ j \in Nat /\ i < j /\ j <= Len(text) /\ Closes(text[j])
  /\ Depth(text, j + 1) = Depth(text, i)
  /\ \A k \in i + 1 .. j : Depth(text, k) > Depth(text, i)

LEMMA ClosingLineIs ==
  ASSUME NEW text, NEW n, Depths(text, n), NEW i \in 1 .. n, Opens(text[i])
  PROVE  ClosedAt(text, i, ClosingLine(text, i))
<1> DEFINE D(k) == Depth(text, k)
           T == {k \in i + 1 .. n : D(k + 1) <= D(i)}
           Ends(k) == Closes(text[k]) /\ D(k) = D(i) + 1
           Chosen(j) == j \in i + 1 .. n /\ Ends(j) /\ \A k \in i + 1 .. j - 1 : ~Ends(k)
           j == ClosingLine(text, i)
<1>1. /\ n \in Nat /\ n = Len(text) /\ D(n + 1) = 0 /\ \A k \in 1 .. n + 1 : D(k) \in Nat
      /\ \A k \in 1 .. n : D(k + 1) = D(k) + Rise(text[k])
      /\ \A k \in 1 .. n : /\ Opens(text[k]) <=> Rise(text[k]) = 1
                           /\ Closes(text[k]) <=> Rise(text[k]) = -1
                           /\ Rise(text[k]) \in {-1, 0, 1}
  BY DEF Depths
<1>2. j = CHOOSE k \in i + 1 .. n : Ends(k) /\ \A m \in i + 1 .. k - 1 : ~Ends(m)
  BY <1>1 DEF ClosingLine
<1> HIDE DEF D, j
<1>3. D(i + 1) = D(i) + 1 /\ D(i) \in Nat
  BY <1>1
<1>4. n \in T
  <2>1. i # n
    BY <1>1, <1>3
  <2> QED  BY <1>1, <1>3, <2>1
<1>5. PICK least \in T : \A k \in T : least <= k
  <2>1. T \subseteq Nat
    BY <1>1
  <2>2. T # {}
    BY <1>4
  <2> HIDE DEF T
  <2> QED  BY <2>1, <2>2, MinimumExists
<1>6. least \in i + 1 .. n /\ D(least + 1) <= D(i)
  BY <1>5
<1>7. \A k \in i + 1 .. least : D(k) > D(i)
  <2> SUFFICES ASSUME NEW k \in i + 1 .. least  PROVE D(k) > D(i)
    OBVIOUS
  <2>1. CASE k = i + 1
    BY <1>3, <2>1
  <2>2. CASE k # i + 1
    <3> DEFINE m == k - 1
    <3>1. m \in i + 1 .. n /\ m < least /\ m + 1 = k /\ k \in 1 .. n + 1
      BY <1>1, <1>6, <2>2
    <3> HIDE DEF m
    <3>2. m \notin T
      BY <1>1, <1>5, <1>6, <3>1
    <3>3. ~(D(k) <= D(i))
      BY <3>1, <3>2
    <3> QED  BY <1>1, <1>3, <3>1, <3>3
  <2> QED  BY <2>1, <2>2
<1>8. Ends(least) /\ D(least + 1) = D(i)
  <2>1. D(least) > D(i) /\ least \in 1 .. n /\ least \in 1 .. n + 1
    BY <1>1, <1>6, <1>7
  <2>2. D(least + 1) = D(least) + Rise(text[least]) /\ Rise(text[least]) \in {-1, 0, 1} /\ D(least) \in Nat
    BY <1>1, <2>1
  <2>3. Rise(text[least]) = -1 /\ D(least) = D(i) + 1
    BY <1>3, <1>6, <2>1, <2>2
  <2> QED  BY <1>1, <2>1, <2>2, <2>3
<1>9. Chosen(least)
  <2> SUFFICES ASSUME NEW k \in i + 1 .. least - 1, Ends(k)  PROVE FALSE
    BY <1>6, <1>8
  <2>1. k \in 1 .. n /\ k < least
    BY <1>1, <1>6
  <2>2. D(k + 1) = D(i)
    BY <1>1, <1>3, <2>1
  <2>3. k \in T
    BY <1>1, <1>3, <1>6, <2>2
  <2> QED  BY <1>1, <1>5, <1>6, <2>1, <2>3
<1>10. Chosen(j)
  <2> HIDE DEF Ends
  <2> QED  BY <1>2, <1>9
<1>11. j = least
  <2>1. ~(least < j)
    <3> SUFFICES ASSUME least < j  PROVE FALSE
      OBVIOUS
    <3>1. least \in i + 1 .. j - 1
      BY <1>1, <1>6, <1>10
    <3> HIDE DEF Ends
    <3> QED  BY <1>8, <1>10, <3>1
  <2>2. ~(j < least)
    <3> SUFFICES ASSUME j < least  PROVE FALSE
      OBVIOUS
    <3>1. j \in i + 1 .. least - 1
      BY <1>1, <1>6, <1>10
    <3> HIDE DEF Ends
    <3> QED  BY <1>9, <1>10, <3>1
  <2>3. j \in Nat /\ least \in Nat
    BY <1>1, <1>6, <1>10
  <2> QED  BY <2>1, <2>2, <2>3
<1>12. /\ i \in Nat /\ least \in Nat /\ i < least /\ least <= n /\ Closes(text[least])
       /\ D(least + 1) = D(i)
  BY <1>1, <1>6, <1>8
<1> QED  BY <1>1, <1>7, <1>11, <1>12 DEF ClosedAt, D, j

\* The first line behind line i that is not a comment.
TokenAt(text, i, t) ==
  /\ t \in Nat /\ i < t /\ t <= Len(text) + 1
  /\ \A k \in i + 1 .. t - 1 : IsComment(text[k])
  /\ t <= Len(text) => ~IsComment(text[t])

LEMMA NextTokenIs ==
  ASSUME NEW text, Texted(text), NEW i \in 0 .. Len(text)
  PROVE  NextToken(text, i) = <<NextToken(text, i)[1], 1>> /\ TokenAt(text, i, NextToken(text, i)[1])
<1> DEFINE n == Len(text)
           last == <<"end of file">>
           all == text \o <<last>>
           I == {k \in i + 1 .. n + 1 : ~IsComment(all[k])}
           t == NextToken(text, i)[1]
<1>1. /\ NextToken(text, i) = <<t, 1>>
      /\ t = IF I # {} THEN Min(I) ELSE 0
  BY DEF NextToken, SelectInSubSeq
<1>2. n \in Nat
  BY TextIs
<1>3. \A k \in 1 .. n + 1 : all[k] = IF k <= n THEN text[k] ELSE last
  <2> DEFINE S == Seq(STRING) \cup {last}
  <2>1. text \in Seq(S)
    <3>1. text \in Seq(Seq(STRING))
      BY DEF Texted
    <3>2. Seq(STRING) \subseteq S
      OBVIOUS
    <3> HIDE DEF S
    <3> DEFINE R == Seq(STRING)
    <3>3. text \in Seq(R) /\ R \subseteq S
      BY <3>1, <3>2
    <3> HIDE DEF R
    <3>4. text \in Seq(S)
      BY <3>3
    <3> QED  BY <3>4
  <2>2. last \in S
    OBVIOUS
  <2> HIDE DEF S, last
  <2> QED  BY <2>1, <2>2, AddedIs
<1>4. ~IsComment(last)
  <2>1. last[1] = "end of file"
    OBVIOUS
  <2> HIDE DEF last
  <2> QED  BY <2>1 DEF IsComment
<1> HIDE DEF last, all, t
<1>5. n + 1 \in I
  BY <1>2, <1>3, <1>4
<1>6. t \in I /\ \A k \in I : t <= k
  <2>1. I \subseteq Nat /\ I # {}
    BY <1>2, <1>5
  <2> HIDE DEF I
  <2> QED  BY <1>1, <2>1, LeastIs
<1>7. t \in i + 1 .. n + 1 /\ ~IsComment(all[t])
  BY <1>6
<1>8. \A k \in i + 1 .. t - 1 : IsComment(text[k])
  <2> SUFFICES ASSUME NEW k \in i + 1 .. t - 1, ~IsComment(text[k])  PROVE FALSE
    OBVIOUS
  <2>1. k \in i + 1 .. n + 1 /\ k \in 1 .. n + 1 /\ k <= n /\ ~(t <= k)
    BY <1>2, <1>7
  <2>2. k \in I
    BY <1>3, <2>1
  <2> QED  BY <1>6, <2>1, <2>2
<1>9. t <= n => ~IsComment(text[t])
  BY <1>2, <1>3, <1>7
<1>10. TokenAt(text, i, t)
  BY <1>2, <1>7, <1>8, <1>9 DEF TokenAt
<1>11. NextToken(text, i) = <<t, 1>>
  BY <1>1
<1> QED  BY Zenon, <1>10, <1>11 DEF t

LEMMA KindsOfLines ==
  ASSUME NEW line
  PROVE  /\ Opens(line) => ~IsComment(line)
         /\ Closes(line) => ~IsComment(line)
<1>1. Closes(line) => line[1] = "end"
  BY DEF Closes
<1> QED  BY <1>1 DEF Opens, IsComment

\* The line a block's range ends on.
FoldEnd(text, i) == RangeEnd(text, i)[1]

LEMMA FoldIs ==
  ASSUME NEW text, Statements(text), NEW n, Depths(text, n), NEW i \in 1 .. n, Opens(text[i])
  PROVE  /\ RangeEnd(text, i) = <<FoldEnd(text, i), 1>>
         /\ ClosedAt(text, i, ClosingLine(text, i))
         /\ TokenAt(text, ClosingLine(text, i), FoldEnd(text, i))
<1> DEFINE j == ClosingLine(text, i)
<1>1. ClosedAt(text, i, j)
  BY ClosingLineIs
<1>2. RangeEnd(text, i) = NextToken(text, j)
  BY DEF RangeEnd
<1>3. j \in 0 .. Len(text) /\ Texted(text)
  BY <1>1 DEF ClosedAt, Depths, Statements
<1> HIDE DEF j
<1>4. NextToken(text, j) = <<NextToken(text, j)[1], 1>> /\ TokenAt(text, j, NextToken(text, j)[1])
  BY <1>3, NextTokenIs
<1>5. FoldEnd(text, i) = NextToken(text, j)[1]
  BY <1>2 DEF FoldEnd
<1> QED  BY Zenon, <1>1, <1>2, <1>4, <1>5 DEF j

LEMMA RangeEndIs ==
  ASSUME NEW text, Statements(text), NEW n, Depths(text, n), NEW i \in 1 .. n
  PROVE  /\ RangeEnd(text, i) \in Nat \X Nat /\ i <= RangeEnd(text, i)[1]
         /\ \A c \in 1 .. Len(text[i]) : Before(<<i, c>>, RangeEnd(text, i))
<1>1. Texted(text) /\ i \in 0 .. Len(text) /\ i \in Nat /\ Len(text[i]) \in Nat
  BY TextIs DEF Depths, Statements
<1> DEFINE e == RangeEnd(text, i)
           t == NextToken(text, i)[1]
           f == FoldEnd(text, i)
<1>2. CASE Opens(text[i])
  <2>1. e = <<f, 1>> /\ ClosedAt(text, i, ClosingLine(text, i)) /\ TokenAt(text, ClosingLine(text, i), f)
    BY <1>2, FoldIs
  <2> HIDE DEF e, f
  <2>2. f \in Nat /\ i < f
    BY <1>1, <2>1 DEF ClosedAt, TokenAt
  <2>3. e[1] = f /\ e \in Nat \X Nat
    BY <2>1, <2>2
  <2>4. \A c \in 1 .. Len(text[i]) : Before(<<i, c>>, e)
    BY <2>2, <2>3 DEF Before
  <2> QED  BY <1>1, <2>2, <2>3, <2>4 DEF e
<1>3. CASE e = NextToken(text, i)
  <2>1. NextToken(text, i) = <<t, 1>> /\ TokenAt(text, i, t)
    BY <1>1, NextTokenIs
  <2>2. e = <<t, 1>>
    BY <1>3, <2>1
  <2> HIDE DEF e, t
  <2>3. t \in Nat /\ i < t
    BY <2>1 DEF TokenAt
  <2>4. e[1] = t /\ e \in Nat \X Nat
    BY <2>2, <2>3
  <2>5. \A c \in 1 .. Len(text[i]) : Before(<<i, c>>, e)
    BY <2>3, <2>4 DEF Before
  <2> QED  BY <1>1, <2>3, <2>4, <2>5 DEF e
<1>4. CASE e = <<i, Len(text[i]) + 1>>
  <2> HIDE DEF e
  <2>1. e[1] = i /\ e[2] = Len(text[i]) + 1 /\ e \in Nat \X Nat
    BY <1>1, <1>4
  <2>2. \A c \in 1 .. Len(text[i]) : Before(<<i, c>>, e)
    BY <1>1, <2>1 DEF Before
  <2> QED  BY <1>1, <2>1, <2>2 DEF e
<1>5. Opens(text[i]) \/ e = NextToken(text, i) \/ e = <<i, Len(text[i]) + 1>>
  BY DEF RangeEnd
<1> QED  BY <1>2, <1>3, <1>4, <1>5

LEMMA FoldsNest ==
  ASSUME NEW text, Statements(text), NEW n, Depths(text, n),
         NEW i \in 1 .. n, Opens(text[i]), NEW k \in 1 .. n, Opens(text[k]), i < k
  PROVE  k >= FoldEnd(text, i) \/ FoldEnd(text, k) <= FoldEnd(text, i)
<1> DEFINE a == ClosingLine(text, i)
           b == ClosingLine(text, k)
           s == FoldEnd(text, i)
           t == FoldEnd(text, k)
           D(m) == Depth(text, m)
<1>1. ClosedAt(text, i, a) /\ TokenAt(text, a, s) /\ ClosedAt(text, k, b) /\ TokenAt(text, b, t)
  BY FoldIs
<1>2. n \in Nat /\ n = Len(text) /\ (\A m \in 1 .. n + 1 : D(m) \in Nat) /\ ~Closes(text[k])
  BY DEF Depths
<1>3. ~IsComment(text[k]) /\ ~IsComment(text[a])
  BY <1>1, KindsOfLines DEF ClosedAt
<1> HIDE DEF a, b, s, t, D
<1>4. /\ a \in Nat /\ i < a /\ a <= n /\ Closes(text[a]) /\ D(a + 1) = D(i)
      /\ \A m \in i + 1 .. a : D(m) > D(i)
      /\ b \in Nat /\ k < b /\ b <= n /\ \A m \in k + 1 .. b : D(m) > D(k)
      /\ s \in Nat /\ t \in Nat /\ a < s /\ b < t
      /\ \A m \in a + 1 .. s - 1 : IsComment(text[m])
      /\ \A m \in b + 1 .. t - 1 : IsComment(text[m])
  BY <1>1, <1>2 DEF ClosedAt, TokenAt, D
<1>5. CASE k > a
  <2>1. k \notin a + 1 .. s - 1
    BY <1>3, <1>4
  <2> QED  BY <1>4, <1>5, <2>1 DEF s
<1>6. CASE k < a
  <2>1. D(k) > D(i) /\ D(k) \in Nat /\ D(i) \in Nat
    BY <1>2, <1>4, <1>6
  <2>2. b <= a
    <3> SUFFICES ASSUME a < b  PROVE FALSE
      BY <1>4
    <3>1. a + 1 \in k + 1 .. b
      BY <1>4, <1>6
    <3>2. D(a + 1) > D(k)
      BY <1>4, <3>1
    <3> QED  BY <1>4, <2>1, <3>2
  <2>3. CASE a = b
    <3>1. s = t
      <4>1. ~(s < t)
        <5> SUFFICES ASSUME s < t  PROVE FALSE
          OBVIOUS
        <5>1. s \in b + 1 .. t - 1 /\ s <= Len(text)
          BY <1>1, <1>4, <2>3 DEF TokenAt
        <5> QED  BY <1>1, <1>4, <5>1 DEF TokenAt
      <4>2. ~(t < s)
        <5> SUFFICES ASSUME t < s  PROVE FALSE
          OBVIOUS
        <5>1. t \in a + 1 .. s - 1 /\ t <= Len(text)
          BY <1>1, <1>2, <1>4, <2>3 DEF TokenAt
        <5> QED  BY <1>1, <1>4, <5>1 DEF TokenAt
      <4> QED  BY <1>4, <4>1, <4>2
    <3> QED  BY <1>4, <3>1 DEF s, t
  <2>4. CASE b < a
    <3>1. a \notin b + 1 .. t - 1
      BY <1>3, <1>4
    <3>2. t <= a
      BY <1>4, <2>4, <3>1
    <3> QED  BY <1>4, <3>2 DEF s, t
  <2> QED  BY <1>4, <2>2, <2>3, <2>4
<1>7. k # a
  BY <1>2, <1>4
<1> QED  BY <1>4, <1>5, <1>6, <1>7

\* For every depth below that of line i, a block of that depth around it.
LEMMA FoldAround ==
  ASSUME NEW text, Statements(text), NEW n, Depths(text, n), NEW i \in 1 .. n,
         NEW d \in 0 .. Depth(text, i) - 1
  PROVE  \E k \in 1 .. n : /\ Opens(text[k]) /\ Depth(text, k) = d
                           /\ i \in k + 1 .. FoldEnd(text, k)
<1> DEFINE D(m) == Depth(text, m)
           T == {k \in 1 .. i - 1 : D(k) <= d}
<1>1. /\ n \in Nat /\ D(1) = 0 /\ (\A k \in 1 .. n + 1 : D(k) \in Nat)
      /\ \A k \in 1 .. n : D(k + 1) = D(k) + Rise(text[k])
      /\ \A k \in 1 .. n : /\ Opens(text[k]) <=> Rise(text[k]) = 1
                           /\ Rise(text[k]) \in {-1, 0, 1}
  BY DEF Depths
<1>2. d \in 0 .. D(i) - 1
  OBVIOUS
<1> HIDE DEF D
<1>3. d \in Nat /\ d < D(i) /\ i # 1
  BY <1>1, <1>2
<1>4. 1 \in T
  BY <1>1, <1>3
<1>5. PICK k \in T : \A m \in T : m <= k
  <2>1. T \subseteq 0 .. i
    BY <1>1
  <2>2. T # {} /\ i \in Nat
    BY <1>1, <1>4
  <2> HIDE DEF T
  <2> QED  BY <2>1, <2>2, MaximumExists
<1>6. k \in 1 .. i - 1 /\ k \in 1 .. n /\ k < i /\ D(k) <= d /\ k \in 1 .. n + 1
  BY <1>1, <1>5
<1>7. \A m \in k + 1 .. i : D(m) > d
  <2> SUFFICES ASSUME NEW m \in k + 1 .. i  PROVE D(m) > d
    OBVIOUS
  <2>1. CASE m = i
    BY <1>3, <2>1
  <2>2. CASE m # i
    <3>1. m \in 1 .. i - 1 /\ ~(m <= k) /\ m \in 1 .. n + 1
      BY <1>1, <1>6, <2>2
    <3>2. ~(D(m) <= d)
      BY <1>5, <3>1
    <3> QED  BY <1>1, <1>3, <3>1, <3>2
  <2> QED  BY <2>1, <2>2
<1>8. D(k) = d /\ Opens(text[k])
  <2>1. D(k + 1) > d
    BY <1>6, <1>7
  <2> QED  BY <1>1, <1>3, <1>6, <2>1
<1> DEFINE a == ClosingLine(text, k)
           e == FoldEnd(text, k)
<1>9. ClosedAt(text, k, a) /\ TokenAt(text, a, e)
  BY <1>6, <1>8, FoldIs
<1> HIDE DEF a, e
<1>10. a \in Nat /\ e \in Nat /\ k < a /\ a < e /\ D(a + 1) = D(k)
  BY <1>9 DEF ClosedAt, TokenAt, D
<1>11. ~(a < i)
  <2> SUFFICES ASSUME a < i  PROVE FALSE
    OBVIOUS
  <2>1. a + 1 \in k + 1 .. i
    BY <1>6, <1>10
  <2>2. D(a + 1) > d
    BY <1>7, <2>1
  <2> QED  BY <1>3, <1>8, <1>10, <2>2
<1>12. i \in k + 1 .. e
  BY <1>6, <1>10, <1>11
<1> QED  BY <1>6, <1>8, <1>12 DEF D, e

LEMMA FoldsAre ==
  ASSUME NEW text, NEW n \in Nat, DOMAIN text = 1 .. n
  PROVE  /\ IsFiniteSet(FoldingRanges(text))
         /\ \A i \in 1 .. n : Opens(text[i]) => <<i, FoldEnd(text, i)>> \in FoldingRanges(text)
         /\ \A f \in FoldingRanges(text) :
              \E i \in 1 .. n : Opens(text[i]) /\ f = <<i, FoldEnd(text, i)>>
<1> DEFINE O == {i \in 1 .. n : Opens(text[i])}
           F == FoldingRanges(text)
           g == [i \in O |-> <<i, FoldEnd(text, i)>>]
<1>1. F = {<<i, FoldEnd(text, i)>> : i \in O}
  BY DEF FoldingRanges, FoldEnd
<1>2. IsFiniteSet(O)
  <2>1. IsFiniteSet(1 .. n)
    BY FS_Interval
  <2>2. O \in SUBSET (1 .. n)
    OBVIOUS
  <2> HIDE DEF O
  <2> QED  BY <2>1, <2>2, FS_Subset
<1>3. g \in Surjection(O, F)
  <2> HIDE DEF O, F
  <2>1. g \in [O -> F] /\ \A f \in F : \E i \in O : g[i] = f
    BY <1>1
  <2> HIDE DEF g
  <2> QED  BY <2>1 DEF Surjection
<1>4. IsFiniteSet(F)
  <2> HIDE DEF O, F, g
  <2> QED  BY <1>2, <1>3, FS_Surjection
<1> QED  BY <1>1, <1>4

LEMMA FoldsAround ==
  ASSUME NEW text, Statements(text), NEW n, Depths(text, n), NEW i \in 1 .. n
  PROVE  Cardinality({f \in FoldingRanges(text) : i \in f[1] + 1 .. f[2]}) >= Depth(text, i)
<1> DEFINE F == FoldingRanges(text)
           W == {f \in F : i \in f[1] + 1 .. f[2]}
           d == Depth(text, i)
           G == {f \in W : Depth(text, f[1]) \in 0 .. d - 1}
           h == [f \in G |-> Depth(text, f[1])]
<1>1. n \in Nat /\ DOMAIN text = 1 .. n /\ d \in Nat
  BY DEF Depths
<1>2. /\ IsFiniteSet(F)
      /\ \A k \in 1 .. n : Opens(text[k]) => <<k, FoldEnd(text, k)>> \in F
  BY <1>1, FoldsAre
<1>3. \A e \in 0 .. d - 1 : \E k \in 1 .. n : /\ Opens(text[k]) /\ Depth(text, k) = e
                                              /\ i \in k + 1 .. FoldEnd(text, k)
  BY FoldAround
<1> HIDE DEF F, d
<1>4. ASSUME NEW e \in 0 .. d - 1  PROVE \E f \in G : h[f] = e
  <2>1. PICK k \in 1 .. n : Opens(text[k]) /\ Depth(text, k) = e /\ i \in k + 1 .. FoldEnd(text, k)
    BY <1>3
  <2> DEFINE f == <<k, FoldEnd(text, k)>>
  <2>2. f \in F /\ f[1] = k /\ f[2] = FoldEnd(text, k)
    BY <1>2, <2>1
  <2> HIDE DEF f
  <2>3. f \in W
    BY <2>1, <2>2
  <2>4. Depth(text, f[1]) = e
    BY <2>1, <2>2
  <2>5. f \in G /\ h[f] = e
    BY <2>3, <2>4
  <2> QED  BY <2>5
<1>5. h \in Surjection(G, 0 .. d - 1)
  <2>1. h \in [G -> 0 .. d - 1]
    OBVIOUS
  <2> HIDE DEF h, G
  <2> QED  BY <1>4, <2>1 DEF Surjection
<1>6. G \in SUBSET W /\ W \in SUBSET F
  OBVIOUS
<1> HIDE DEF G, W, h
<1>7. IsFiniteSet(W) /\ IsFiniteSet(G) /\ Cardinality(G) <= Cardinality(W)
  BY <1>2, <1>6, FS_Subset
<1>8. Cardinality(0 .. d - 1) <= Cardinality(G)
  BY <1>5, <1>7, FS_Surjection
<1>9. Cardinality(0 .. d - 1) = d
  BY <1>1, FS_Interval
<1>10. Cardinality(W) \in Nat /\ Cardinality(G) \in Nat
  BY <1>7, FS_CardinalityType
<1>11. Cardinality(W) >= d
  BY <1>1, <1>7, <1>8, <1>9, <1>10
<1> QED  BY <1>11 DEF W, F, d

LEMMA OutlineHolds ==
  ASSUME NEW d, GoodDoc(d), NEW n, Depths(d.text, n), NEW s \in ToSet(d.symbols)
  PROVE  ~Before(s.namePos, s.start) /\ Before(s.namePos, s.end)
<1> DEFINE text == d.text
<1>1. PICK i \in DOMAIN text : SymbolAt(text, d.moduleName, i, s)
  BY GoodDocIs
<1>2. Statements(text) /\ Texted(text) /\ Depths(text, n) /\ i \in 1 .. n
  BY GoodDocIs DEF Depths
<1> HIDE DEF text
<1>3. /\ s.start = <<i, s.start[2]>> /\ s.start[2] \in Nat /\ s.end = RangeEnd(text, i)
      /\ s.namePos \in Positions(text) /\ s.namePos[1] = i /\ s.start[2] <= s.namePos[2]
  BY <1>1 DEF SymbolAt
<1> DEFINE c == s.namePos[2]
<1>4. s.namePos = <<i, c>> /\ c \in 1 .. Len(text[i]) /\ i \in Nat /\ c \in Nat
  BY <1>2, <1>3, TextIs
<1>5. \A e \in 1 .. Len(text[i]) : Before(<<i, e>>, RangeEnd(text, i))
  BY <1>2, RangeEndIs
<1>6. Before(s.namePos, s.end)
  BY <1>3, <1>4, <1>5
<1>7. ~Before(s.namePos, s.start)
  <2>1. s.start[1] = i
    BY <1>3
  <2> QED  BY <1>3, <1>4, <2>1 DEF Before
<1> QED  BY <1>6, <1>7

LEMMA NestingHolds ==
  ASSUME EditorInv, BlockInv
  PROVE  RangesNest
<1> SUFFICES ASSUME NEW u \in Indexed
             PROVE  LET folds == FoldingRanges(Text(u)) IN
                    /\ \A i \in DOMAIN Text(u) :
                         Cardinality({f \in folds : i \in f[1] + 1 .. f[2]}) >= Depth(Text(u), i)
                    /\ \A f, g \in folds : f[1] < g[1] => g[1] >= f[2] \/ g[2] <= f[2]
                    /\ \A s \in DocumentSymbols(u) :
                         ~Before(s.selection, s.start) /\ Before(s.selection, s.end)
  BY DEF RangesNest
<1> DEFINE text == Text(u)
           n == Len(text)
           F == FoldingRanges(text)
<1>1. GoodDoc(documents[u]) /\ text = documents[u].text /\ Statements(text)
  BY IndexedTyped
<1>2. Depths(text, n)
  BY <1>1, DepthsOf DEF BlockInv
<1> HIDE DEF n
<1>3. n \in Nat /\ DOMAIN text = 1 .. n
  BY <1>2 DEF Depths
<1> HIDE DEF text
<1>4. \A i \in DOMAIN text : Cardinality({f \in FoldingRanges(text) : i \in f[1] + 1 .. f[2]}) >= Depth(text, i)
  BY <1>1, <1>2, <1>3, FoldsAround
<1>5. ASSUME NEW f \in F, NEW g \in F, f[1] < g[1]  PROVE g[1] >= f[2] \/ g[2] <= f[2]
  <2>1. PICK i \in 1 .. n : Opens(text[i]) /\ f = <<i, FoldEnd(text, i)>>
    BY <1>3, FoldsAre
  <2>2. PICK k \in 1 .. n : Opens(text[k]) /\ g = <<k, FoldEnd(text, k)>>
    BY <1>3, FoldsAre
  <2>3. f[1] = i /\ f[2] = FoldEnd(text, i) /\ g[1] = k /\ g[2] = FoldEnd(text, k)
    BY <2>1, <2>2
  <2>4. i < k
    BY <1>5, <2>3
  <2>5. k >= FoldEnd(text, i) \/ FoldEnd(text, k) <= FoldEnd(text, i)
    BY <1>1, <1>2, <2>1, <2>2, <2>4, FoldsNest
  <2> QED  BY <2>3, <2>5
<1>6. ASSUME NEW s \in DocumentSymbols(u)
      PROVE  ~Before(s.selection, s.start) /\ Before(s.selection, s.end)
  <2>1. PICK t \in ToSet(documents[u].symbols) :
          s.start = t.start /\ s.end = t.end /\ s.selection = t.namePos
    BY DEF DocumentSymbols
  <2>2. ~Before(t.namePos, t.start) /\ Before(t.namePos, t.end)
    BY <1>1, <1>2, OutlineHolds
  <2> QED  BY <2>1, <2>2
<1> QED  BY <1>4, <1>5, <1>6 DEF text

-------------------------------------------------------------------------------
(* Symbols have the fields of a SymbolDef                                  *)

\* A symbol has the fields of a SymbolDef.
Fielded(s) ==
  /\ s = Symbol(s.name, s.scope, s.start, s.end, s.namePos, s.isFunction, s.depth)
  /\ s.isFunction \in BOOLEAN /\ s.depth \in Int

\* A function's symbol is that of a function statement or of a variable with a
\* function for a value, a parameter's is one of a function statement's.
KindFits(s, line) ==
  /\ s.isFunction => \/ IsFunction(line) /\ (s.name = <<FunctionName(line)>> \/ Len(s.name) = 3)
                     \/ Declares(line) /\ FunctionValue(line)
  /\ s.scope = "parameter" => IsFunction(line) /\ Parameters(line) # <<>>

LEMMA SymbolFielded ==
  ASSUME NEW name, NEW scope, NEW start, NEW end, NEW at, NEW b \in BOOLEAN, NEW d \in Int
  PROVE  Fielded(Symbol(name, scope, start, end, at, b, d))
BY DEF Fielded, Symbol

LEMMA LocalsFielded ==
  ASSUME NEW text, NEW i \in Nat \ {0}, Declares(text[i]), NEW j \in DOMAIN LocalSymbols(text, i)
  PROVE  Fielded(LocalSymbols(text, i)[j]) /\ KindFits(LocalSymbols(text, i)[j], text[i])
<1> DEFINE names == DeclaredNames(text[i])
           place == Places(text, names, <<i, 1>>)
           L == LocalSymbols(text, i)
           Is(k) == Symbol(<<names[k]>>, "local", <<i, 1>>, RangeEnd(text, i), place[k],
                           k = 1 /\ FunctionValue(text[i]), Depth(text, i))
<1>1. L = [k \in DOMAIN names |-> Is(k)]
  BY DEF LocalSymbols
<1>2. Depth(text, i) \in Int
  BY DepthSteps
<1>3. ASSUME NEW k  PROVE Fielded(Is(k)) /\ KindFits(Is(k), text[i])
  <2>1. (k = 1 /\ FunctionValue(text[i])) \in BOOLEAN
    OBVIOUS
  <2>2. Fielded(Is(k))
    BY <1>2, <2>1, SymbolFielded
  <2>3. KindFits(Is(k), text[i])
    <3>1. Is(k).isFunction = (k = 1 /\ FunctionValue(text[i])) /\ Is(k).scope = "local"
      BY Zenon DEF Symbol
    <3> HIDE DEF Is
    <3> QED  BY Zenon, <3>1 DEF KindFits
  <2> QED  BY <2>2, <2>3
<1> HIDE DEF Is
<1>4. L[j] = Is(j)
  BY <1>1
<1> QED  BY <1>3, <1>4

LEMMA FunctionFielded ==
  ASSUME NEW text, NEW i \in Nat \ {0}, NEW m, Texted(text), i \in DOMAIN text, Statement(text[i]), IsFunction(text[i]),
         NEW s \in ToSet(FunctionSymbols(text, i, m))
  PROVE  Fielded(s) /\ KindFits(s, text[i])
<1> DEFINE line == text[i]
           start == <<i, Column(line, "function")>>
           end == RangeEnd(text, i)
           name == FunctionName(line)
           global == line[1] = "function"
           at == FindNamePosition(text, <<name>>, start)
           params == Parameters(line)
           place == Places(text, params, start)
           Function(n) ==
             Symbol(n, IF global THEN "global" ELSE "local", start, end, at, TRUE, Depth(text, i))
           Param(k) == Symbol(<<params[k]>>, "parameter", start, end, place[k], FALSE, Depth(text, i) + 1)
           a == <<Function(<<name>>)>>
           b == IF global /\ m # NoName THEN <<Function(<<m, ".", name>>)>> ELSE <<>>
           c == [k \in DOMAIN params |-> Param(k)]
<1>1. FunctionSymbols(text, i, m) = a \o b \o c
  BY DEF FunctionSymbols
<1>2. Depth(text, i) \in Int /\ Depth(text, i) + 1 \in Int
  BY DepthSteps
<1>3. ASSUME NEW n  PROVE Fielded(Function(n))
  BY <1>2, SymbolFielded
<1>4. ASSUME NEW k  PROVE Fielded(Param(k))
  BY <1>2, SymbolFielded
<1>3a. ASSUME NEW n, n = <<name>> \/ Len(n) = 3  PROVE KindFits(Function(n), line)
  <2>1. /\ Function(n).name = n
        /\ Function(n).scope = IF global THEN "global" ELSE "local"
    BY Zenon DEF Symbol
  <2>2. Function(n).scope # "parameter"
    BY Zenon, <2>1
  <2> HIDE DEF Function
  <2> QED  BY Zenon, <1>3a, <2>1, <2>2 DEF KindFits
<1>4a. ASSUME NEW k \in DOMAIN params  PROVE KindFits(Param(k), line)
  <2>1. Param(k).isFunction = FALSE /\ params # <<>>
    <3>1. Param(k).isFunction = FALSE
      BY Zenon DEF Symbol
    <3>2. params # <<>>
      <4> HIDE DEF params
      <4> QED  OBVIOUS
    <3> QED  BY <3>1, <3>2
  <2> HIDE DEF Param
  <2> QED  BY Zenon, <2>1 DEF KindFits
<1>5. params \in Seq(Names)
  BY ParameterColumns DEF NameColumns
<1> HIDE DEF Function, Param, params
<1> DEFINE T == {Function(n) : n \in {<<name>>, <<m, ".", name>>}} \cup {Param(k) : k \in DOMAIN params}
<1>6. \A t \in T : Fielded(t) /\ KindFits(t, line)
  <2>1. \A n \in {<<name>>, <<m, ".", name>>} : n = <<name>> \/ Len(n) = 3
    OBVIOUS
  <2> HIDE DEF line, name
  <2> QED  BY Zenon, <1>3, <1>3a, <1>4, <1>4a, <2>1
<1>7. a \in Seq(T) /\ b \in Seq(T)
  <2>1. Function(<<name>>) \in T /\ Function(<<m, ".", name>>) \in T
    BY Zenon
  <2> DEFINE x == Function(<<name>>)
             y == Function(<<m, ".", name>>)
  <2> HIDE DEF T, x, y
  <2>2. x \in T /\ y \in T
    BY <2>1 DEF x, y
  <2>3. <<x>> \in Seq(T) /\ <<y>> \in Seq(T) /\ <<>> \in Seq(T)
    BY <2>2
  <2>4. a = <<x>> /\ (b = <<y>> \/ b = <<>>)
    BY Zenon DEF x, y
  <2> HIDE DEF a, b
  <2> QED  BY <2>3, <2>4
<1>8. c \in Seq(T)
  <2>1. \A k \in DOMAIN params : Param(k) \in T
    BY Zenon
  <2>2. DOMAIN params = 1 .. Len(params) /\ Len(params) \in Nat
    BY <1>5, LenProperties
  <2> HIDE DEF T
  <2> DEFINE q == Len(params)
  <2>3. c = [k \in 1 .. q |-> Param(k)] /\ q \in Nat /\ \A k \in 1 .. q : Param(k) \in T
    BY <2>1, <2>2
  <2> HIDE DEF q
  <2> QED  BY <2>3
<1> HIDE DEF a, b, c, T
<1>9. a \o b \o c \in Seq(T)
  BY <1>7, <1>8
<1>10. s \in T
  <2> DEFINE all == a \o b \o c
  <2>1. all \in Seq(T) /\ s \in ToSet(all)
    BY <1>1, <1>9
  <2> HIDE DEF all
  <2> QED  BY <2>1, ElementOfSeq, LenProperties DEF ToSet
<1> QED  BY <1>6, <1>10

LEMMA LineFielded ==
  ASSUME NEW text, NEW i, Texted(text), i \in DOMAIN text, Statement(text[i]), NEW module,
         NEW s \in ToSet(LineSymbols(text, i, module))
  PROVE  Fielded(s) /\ KindFits(s, text[i])
<1>1. i \in Nat \ {0}
  BY TextIs
<1>2. CASE IsFunction(text[i])
  BY <1>1, <1>2, FunctionFielded DEF LineSymbols
<1>3. CASE ~IsFunction(text[i]) /\ Declares(text[i])
  <2>1. s \in ToSet(LocalSymbols(text, i))
    BY <1>3 DEF LineSymbols
  <2>2. PICK j \in DOMAIN LocalSymbols(text, i) : s = LocalSymbols(text, i)[j]
    BY <2>1 DEF ToSet
  <2> QED  BY <1>1, <1>3, <2>2, LocalsFielded
<1>4. CASE ~IsFunction(text[i]) /\ ~Declares(text[i])
  <2>1. s \in ToSet(<<>>)
    BY <1>4 DEF LineSymbols
  <2> QED  BY <2>1 DEF ToSet
<1> QED  BY <1>2, <1>3, <1>4

LEMMA ScopeFielded ==
  ASSUME NEW text, Statements(text), NEW module, NEW s \in ToSet(AnalyzeScope(text, module))
  PROVE  Fielded(s) /\ \E i \in DOMAIN text : SymbolAt(text, module, i, s) /\ KindFits(s, text[i])
<1> DEFINE n == Len(text)
           seqs == [i \in 1 .. n |-> LineSymbols(text, i, module)]
           S == UNION {ToSet(seqs[i]) : i \in 1 .. n}
           all == AnalyzeScope(text, module)
<1>1. n \in Nat /\ DOMAIN text = 1 .. n /\ Texted(text)
  BY TextIs DEF Statements
<1>2. all = FlattenSeq(seqs)
  BY <1>1 DEF AnalyzeScope
<1>3. \A i \in 1 .. n : LineIs(seqs[i], text, module, i)
  BY <1>1, LineSymbolsAre DEF Statements
<1>4. seqs \in [1 .. n -> Seq(S)]
  <2>1. ASSUME NEW i \in 1 .. n  PROVE seqs[i] \in Seq(S)
    <3>1. seqs[i] \in Seq(ToSet(seqs[i]))
      BY <1>3 DEF LineIs
    <3>2. ToSet(seqs[i]) \subseteq S
      OBVIOUS
    <3> HIDE DEF seqs, S
    <3> QED  BY <3>1, <3>2, SeqMonotonic
  <2>2. seqs = [i \in 1 .. n |-> seqs[i]]
    OBVIOUS
  <2> HIDE DEF seqs, S
  <2> QED  BY <2>1, <2>2
<1>5. \A i \in 1 .. n : \A t \in ToSet(seqs[i]) : Fielded(t) /\ KindFits(t, text[i])
  BY <1>1, LineFielded DEF Statements
<1>5a. \A i \in 1 .. n : \A t \in ToSet(seqs[i]) : SymbolAt(text, module, i, t)
  <2> SUFFICES ASSUME NEW i \in 1 .. n, NEW t \in ToSet(seqs[i])  PROVE SymbolAt(text, module, i, t)
    OBVIOUS
  <2>1. DOMAIN seqs[i] = 1 .. Len(seqs[i])
    <3> HIDE DEF seqs, S
    <3> QED  BY <1>4, LenProperties
  <2> HIDE DEF seqs, S
  <2>2. PICK j \in 1 .. Len(seqs[i]) : t = seqs[i][j]
    BY <2>1 DEF ToSet
  <2> QED  BY <1>3, <2>2 DEF LineIs
<1> HIDE DEF seqs, S, n, all
<1>6. \A t : t \in ToSet(all) <=> \E i \in 1 .. n : t \in ToSet(seqs[i])
  BY <1>1, <1>2, <1>4, FlattenElements
<1>7. s \in ToSet(all)
  BY DEF all
<1> QED  BY <1>1, <1>5, <1>5a, <1>6, <1>7

\* No symbol of a document is taken for the absence of one.
LEMMA SymbolsHaveType ==
  ASSUME NEW d, GoodDoc(d), Balanced(d.text), d.moduleName # NoName => d.moduleName \in STRING,
         NEW s \in ToSet(d.symbols)
  PROVE  s \in Symbols /\ s # NoSymbol
<1> DEFINE text == d.text
<1>1. Statements(text) /\ Fielded(s)
  BY GoodDocIs, ScopeFielded DEF GoodDoc
<1>2. PICK i \in DOMAIN text : SymbolAt(text, d.moduleName, i, s)
  BY GoodDocIs
<1>3. Depths(text, Len(text)) /\ Texted(text)
  BY <1>1, DepthsOf DEF Statements
<1> HIDE DEF text
<1>4. i \in 1 .. Len(text) /\ i \in Nat
  BY <1>3, TextIs
<1>5. s.end \in Nat \X Nat
  BY <1>1, <1>2, <1>3, <1>4, RangeEndIs DEF SymbolAt
<1>6. s.start \in Nat \X Nat
  <2> DEFINE c == s.start[2]
  <2>1. s.start = <<i, c>> /\ c \in Nat
    BY <1>2 DEF SymbolAt
  <2> HIDE DEF c
  <2> QED  BY <1>4, <2>1
<1>7. s.namePos \in Nat \X Nat
  BY <1>2, <1>3, TextIs DEF SymbolAt
<1>8. s.name \in Seq(STRING)
  <2> DEFINE module == d.moduleName
             dot == "."
  <2>1. PICK n \in Names : s.name = <<n>> \/ (module # NoName /\ s.name = <<module, dot, n>>)
    BY <1>2 DEF SymbolAt
  <2>2. n \in STRING /\ dot \in STRING /\ (module # NoName => module \in STRING)
    BY DocumentAssumption, KnownWords
  <2> HIDE DEF module, dot
  <2>3. CASE s.name = <<n>>
    BY <2>2, <2>3
  <2>4. CASE module # NoName /\ s.name = <<module, dot, n>>
    <3>1. <<module, dot, n>> \in Seq(STRING)
      BY <2>2, <2>4
    <3> QED  BY <2>4, <3>1
  <2> QED  BY <2>1, <2>3, <2>4
<1>9. s.scope \in {"global", "local", "parameter"}
  BY <1>2 DEF SymbolAt
<1>10. s \in Symbols
  <2>1. s = [name |-> s.name, scope |-> s.scope, start |-> s.start, end |-> s.end,
             namePos |-> s.namePos, isFunction |-> s.isFunction, depth |-> s.depth]
    BY <1>1 DEF Fielded, Symbol
  <2>2. s.isFunction \in BOOLEAN /\ s.depth \in Int
    BY <1>1 DEF Fielded
  <2> QED  BY <1>5, <1>6, <1>7, <1>8, <1>9, <2>1, <2>2 DEF Symbols
<1> QED  BY <1>10, DocumentAssumption

LEMMA SymbolsTyped ==
  ASSUME NEW d, GoodDoc(d), Balanced(d.text), d.moduleName = NoName, NEW s \in ToSet(d.symbols)
  PROVE  s \in Symbols /\ s # NoSymbol
BY SymbolsHaveType

\* In a document without a module, a symbol's name is the one word at its place.
LEMMA NamedByWord ==
  ASSUME NEW d, GoodDoc(d), d.moduleName = NoName, NEW s \in ToSet(d.symbols)
  PROVE  /\ s.namePos \in Positions(d.text) /\ s.namePos = <<s.namePos[1], s.namePos[2]>>
         /\ s.name = <<d.text[s.namePos[1]][s.namePos[2]]>> /\ Len(s.name) = 1
         /\ s.namePos[1] \in Nat /\ s.namePos[2] \in Nat
<1>1. PICK n \in Names : \E i \in DOMAIN d.text :
        /\ SymbolAt(d.text, d.moduleName, i, s) /\ d.text[i][s.namePos[2]] = n
        /\ (s.name = <<n>> /\ Len(s.name) = 1)
  BY SymbolShape
<1>2. PICK i \in DOMAIN d.text :
        /\ SymbolAt(d.text, d.moduleName, i, s) /\ d.text[i][s.namePos[2]] = n
        /\ (s.name = <<n>> /\ Len(s.name) = 1)
  BY <1>1
<1>3. s.namePos \in Positions(d.text) /\ s.namePos[1] = i
  BY <1>2 DEF SymbolAt
<1>4. Texted(d.text)
  BY GoodDocIs
<1>5. s.namePos = <<s.namePos[1], s.namePos[2]>> /\ s.namePos[1] \in Nat /\ s.namePos[2] \in Nat
  BY <1>3, <1>4, TextIs
<1> QED  BY <1>2, <1>3, <1>5

LEMMA UnderCursor ==
  ASSUME NEW d, GoodDoc(d), d.moduleName = NoName, NEW p, p[2] \in Nat,
         FindSymbolAt(d, p) # NoSymbol
  PROVE  FindSymbolAt(d, p) \in ToSet(d.symbols) /\ FindSymbolAt(d, p).name = <<d.text[p[1]][p[2]]>>
<1> DEFINE s == FindSymbolAt(d, p)
<1>1. FirstIs(s, d, Under(d, p))
  BY FirstUnder
<1> HIDE DEF s
<1>2. PICK j \in Under(d, p) : s = d.symbols[j]
  BY <1>1 DEF FirstIs, s
<1>3. j \in 1 .. Len(d.symbols) /\ p[1] = s.namePos[1] /\ p[2] \in s.namePos[2] .. s.namePos[2] + Len(s.name) - 1
  BY <1>2 DEF Under
<1>4. s \in ToSet(d.symbols)
  BY <1>2, <1>3, GoodDocIs
<1>5. /\ s.name = <<d.text[s.namePos[1]][s.namePos[2]]>> /\ Len(s.name) = 1
      /\ s.namePos[1] \in Nat /\ s.namePos[2] \in Nat
  BY <1>4, NamedByWord
<1>6. p[2] = s.namePos[2]
  BY <1>3, <1>5
<1> QED  BY <1>3, <1>4, <1>5, <1>6 DEF s

LEMMA CursorHolds ==
  ASSUME EditorInv, BlockInv
  PROVE  CursorOnWord
<1> SUFFICES ASSUME NEW u \in Indexed, documents[u].moduleName = NoName
             PROVE  /\ \A p \in Positions(Text(u)) :
                         LET s == FindSymbolAt(documents[u], p)
                         IN s # NoSymbol => /\ s.name = <<Text(u)[p[1]][p[2]]>>
                                            /\ Highlights(u, p) \subseteq FindReferences(s.name)
                    /\ \A a \in Annotators(u) : a.range \in Highlights(u, <<a.range.line, a.range.column>>)
  BY Zenon DEF CursorOnWord
<1> DEFINE d == documents[u]
<1>1. GoodDoc(d) /\ Text(u) = d.text /\ d.moduleName = NoName /\ Balanced(d.text) /\ DocInv /\ Texted(d.text)
  BY IndexedTyped, GoodDocuments DEF BlockInv
<1>2. ASSUME NEW p \in Positions(Text(u)), FindSymbolAt(d, p) # NoSymbol
      PROVE  /\ FindSymbolAt(d, p).name = <<Text(u)[p[1]][p[2]]>>
             /\ Highlights(u, p) \subseteq FindReferences(FindSymbolAt(d, p).name)
  <2> DEFINE s == FindSymbolAt(d, p)
             n == Text(u)[p[1]][p[2]]
  <2>1. p[2] \in Nat
    BY <1>1, TextIs
  <2>2. s.name = <<n>>
    BY <1>1, <1>2, <2>1, UnderCursor
  <2>3. ASSUME NEW h \in Highlights(u, p)  PROVE h \in FindReferences(<<n>>)
    <3>1. PICK t \in ToSet(d.symbols) : h = Span(u, t.namePos, Len(t.name)) /\ t.name = s.name
      BY <1>2, <2>3 DEF Highlights
    <3> DEFINE w == d.text[t.namePos[1]][t.namePos[2]]
    <3>2. t.namePos \in Positions(d.text) /\ t.name = <<w>> /\ Len(t.name) = 1
      BY <1>1, NamedByWord
    <3>3. Same(<<w>>, <<n>>)
      BY <2>2, <3>1, <3>2 DEF Same
    <3> HIDE DEF s, n
    <3>4. Span(u, t.namePos, 1) \in FindReferences(<<n>>)
      BY <1>1, <3>2, <3>3, ReferencesHave
    <3> QED  BY <3>1, <3>2, <3>4
  <2> QED  BY <2>2, <2>3
<1>3. ASSUME NEW a \in Annotators(u)
      PROVE  a.range \in Highlights(u, <<a.range.line, a.range.column>>)
  <2>1. PICK s \in ToSet(d.symbols) : a.range = Span(u, s.namePos, Len(s.name))
    BY DEF Annotators
  <2> DEFINE p == s.namePos
             t == FindSymbolAt(d, p)
  <2>2. /\ p \in Positions(d.text) /\ p = <<p[1], p[2]>> /\ p[1] \in Nat /\ p[2] \in Nat
        /\ s.name = <<d.text[p[1]][p[2]]>> /\ Len(s.name) = 1
    BY <1>1, NamedByWord
  <2>3. PICK j \in 1 .. Len(d.symbols) : s = d.symbols[j]
    BY <1>1, GoodDocIs DEF ToSet
  <2>4. p[1] \in s.start[1] .. s.end[1]
    <3>1. PICK i \in DOMAIN d.text : SymbolAt(d.text, d.moduleName, i, s)
      BY <1>1, GoodDocIs
    <3>2. Statements(d.text) /\ Depths(d.text, Len(d.text)) /\ i \in 1 .. Len(d.text)
      BY <1>1, GoodDocIs, DepthsOf DEF Depths
    <3>3. i <= RangeEnd(d.text, i)[1] /\ RangeEnd(d.text, i) \in Nat \X Nat
      BY <3>2, RangeEndIs
    <3>4. s.start[1] = i /\ s.end = RangeEnd(d.text, i) /\ p[1] = i
      BY <3>1 DEF SymbolAt
    <3>5. s.end[1] \in Nat /\ i <= s.end[1]
      BY <3>3, <3>4
    <3> QED  BY <2>2, <3>4, <3>5
  <2>5. p[2] \in p[2] .. p[2] + Len(s.name) - 1
    BY <2>2
  <2>6. j \in Under(d, p)
    BY <2>3, <2>4, <2>5 DEF Under
  <2>7. t # NoSymbol
    <3>1. FirstIs(t, d, Under(d, p))
      BY <1>1, FirstUnder
    <3>2. PICK m \in Under(d, p) : t = d.symbols[m]
      BY <2>6, <3>1 DEF FirstIs
    <3>3. t \in ToSet(d.symbols)
      BY <1>1, <3>2, GoodDocIs DEF Under
    <3> QED  BY <1>1, <3>3, SymbolsTyped
  <2>8. t.name = s.name
    BY <1>1, <2>2, <2>7, UnderCursor
  <2>9. Span(u, p, Len(s.name)) \in Highlights(u, p)
    BY <2>7, <2>8 DEF Highlights
  <2>10. a.range.line = p[1] /\ a.range.column = p[2]
    BY <2>1 DEF Span
  <2> QED  BY <2>1, <2>2, <2>9, <2>10
<1> QED  BY <1>2, <1>3

-------------------------------------------------------------------------------
(* Sequences under a map                                                   *)

\* g applied to each member of s.
Mapped(g, s) == [k \in DOMAIN s |-> g[s[k]]]
ImageOf(g, S) == {g[e] : e \in S}

IsMapped(l, g, s) == Len(l) = Len(s) /\ \A k \in 1 .. Len(s) : l[k] = g[s[k]]

LEMMA MappedIs ==
  ASSUME NEW g, NEW S, NEW s \in Seq(S)
  PROVE  Mapped(g, s) \in Seq(ImageOf(g, S)) /\ IsMapped(Mapped(g, s), g, s)
<1>1. Len(s) \in Nat /\ DOMAIN s = 1 .. Len(s) /\ \A k \in 1 .. Len(s) : s[k] \in S
  BY LenProperties, ElementOfSeq
<1>2. Mapped(g, s) = [k \in 1 .. Len(s) |-> g[s[k]]]
  BY <1>1 DEF Mapped
<1>3. \A k \in 1 .. Len(s) : g[s[k]] \in ImageOf(g, S)
  BY <1>1 DEF ImageOf
<1>4. [k \in 1 .. Len(s) |-> g[s[k]]] \in Seq(ImageOf(g, S))
  BY <1>1, <1>3, IsASeq
<1>5. Mapped(g, s) \in Seq(ImageOf(g, S)) /\ \A k \in 1 .. Len(s) : Mapped(g, s)[k] = g[s[k]]
  BY <1>2, <1>4
<1>6. DOMAIN Mapped(g, s) = 1 .. Len(s)
  BY <1>2
<1>7. Len(Mapped(g, s)) = Len(s)
  BY <1>1, <1>5, <1>6, LenProperties
<1> QED  BY <1>5, <1>7 DEF IsMapped

LEMMA MappedConcat ==
  ASSUME NEW g, NEW S, NEW a \in Seq(S), NEW b \in Seq(S)
  PROVE  Mapped(g, a \o b) = Mapped(g, a) \o Mapped(g, b)
<1> DEFINE c == a \o b
           x == Mapped(g, a)
           y == Mapped(g, b)
           m == Len(a)
           n == Len(b)
           l == Mapped(g, c)
           z == x \o y
<1>1. /\ c \in Seq(S) /\ Len(c) = m + n /\ m \in Nat /\ n \in Nat
      /\ \A k \in 1 .. m + n : c[k] = IF k <= m THEN a[k] ELSE b[k - m]
  <2>1. m = Len(a) /\ n = Len(b)
    OBVIOUS
  <2> HIDE DEF m, n
  <2> QED  BY <2>1, JoinedIs
<1>2. x \in Seq(ImageOf(g, S)) /\ Len(x) = m /\ \A k \in 1 .. m : x[k] = g[a[k]]
  <2>1. x \in Seq(ImageOf(g, S)) /\ IsMapped(x, g, a)
    BY MappedIs
  <2> QED  BY <2>1 DEF IsMapped
<1>3. y \in Seq(ImageOf(g, S)) /\ Len(y) = n /\ \A k \in 1 .. n : y[k] = g[b[k]]
  <2>1. y \in Seq(ImageOf(g, S)) /\ IsMapped(y, g, b)
    BY MappedIs
  <2> QED  BY <2>1 DEF IsMapped
<1>4. /\ z \in Seq(ImageOf(g, S)) /\ Len(z) = m + n
      /\ \A k \in 1 .. m + n : z[k] = IF k <= m THEN x[k] ELSE y[k - m]
  <2>1. /\ x \in Seq(ImageOf(g, S)) /\ y \in Seq(ImageOf(g, S)) /\ m = Len(x) /\ n = Len(y)
    BY <1>2, <1>3
  <2> HIDE DEF m, n, x, y
  <2> QED  BY <2>1, JoinedIs
<1> HIDE DEF c
<1>5. l \in Seq(ImageOf(g, S)) /\ Len(l) = Len(c) /\ \A k \in 1 .. Len(c) : l[k] = g[c[k]]
  <2>1. l \in Seq(ImageOf(g, S)) /\ IsMapped(l, g, c)
    BY <1>1, MappedIs
  <2> QED  BY <2>1 DEF IsMapped
<1> HIDE DEF l, x, y, z, m, n
<1>6. ASSUME NEW k \in 1 .. m + n  PROVE l[k] = z[k]
  <2>0. l[k] = g[c[k]]
    BY <1>1, <1>5
  <2>1. CASE k <= m
    <3>1. k \in 1 .. m
      BY <1>1, <2>1
    <3>2. c[k] = a[k] /\ z[k] = x[k]
      BY <1>1, <1>4, <2>1
    <3> QED  BY <1>2, <2>0, <3>1, <3>2
  <2>2. CASE ~(k <= m)
    <3>1. k - m \in 1 .. n
      BY <1>1, <2>2
    <3>2. c[k] = b[k - m] /\ z[k] = y[k - m]
      BY <1>1, <1>4, <2>2
    <3> QED  BY <1>3, <2>0, <3>1, <3>2
  <2> QED  BY <2>1, <2>2
<1>7. l = z
  <2>1. Len(l) = Len(z) /\ \A k \in 1 .. Len(l) : l[k] = z[k]
    BY <1>1, <1>4, <1>5, <1>6
  <2> QED  BY <1>4, <1>5, <2>1, SeqEqual
<1> QED  BY <1>7 DEF l, x, y, z, c

LEMMA FlattenMapped ==
  ASSUME NEW g, NEW n \in Nat, NEW S, NEW seqs \in [1 .. n -> Seq(S)],
         NEW others, others = [i \in 1 .. n |-> Mapped(g, seqs[i])]
  PROVE  FlattenSeq(others) = Mapped(g, FlattenSeq(seqs))
<1>1. others \in [1 .. n -> Seq(ImageOf(g, S))] /\ \A i \in 1 .. n : others[i] = Mapped(g, seqs[i])
  BY MappedIs
<1>2. PICK f : Runs(f, seqs, n) /\ f[n] = FlattenSeq(seqs)
  BY FlattenRuns
<1>3. PICK h : Runs(h, others, n) /\ h[n] = FlattenSeq(others)
  BY <1>1, FlattenRuns
<1>4. \A i \in 0 .. n : f[i] \in Seq(S)
  BY <1>2, RunsTyped
<1> DEFINE R == {i \in 0 .. n : h[i] = Mapped(g, f[i])}
<1>5. 0 \in R
  <2>1. Mapped(g, <<>>) = <<>>
    BY DEF Mapped
  <2> QED  BY <1>2, <1>3, <2>1 DEF Runs
<1>6. ASSUME NEW i \in 1 .. n, i - 1 \in R  PROVE i \in R
  <2>1. /\ h[i] = h[i - 1] \o others[i] /\ f[i] = f[i - 1] \o seqs[i]
        /\ others[i] = Mapped(g, seqs[i])
    BY <1>1, <1>2, <1>3 DEF Runs
  <2>2. i - 1 \in 0 .. n /\ i \in 0 .. n
    OBVIOUS
  <2>3. f[i - 1] \in Seq(S) /\ seqs[i] \in Seq(S) /\ h[i - 1] = Mapped(g, f[i - 1])
    BY <1>4, <1>6, <2>2
  <2>4. Mapped(g, f[i - 1] \o seqs[i]) = Mapped(g, f[i - 1]) \o Mapped(g, seqs[i])
    <3> DEFINE p == f[i - 1]
               q == seqs[i]
    <3>1. p \in Seq(S) /\ q \in Seq(S)
      BY <2>3
    <3> HIDE DEF p, q
    <3>2. Mapped(g, p \o q) = Mapped(g, p) \o Mapped(g, q)
      BY <3>1, MappedConcat
    <3> QED  BY <3>2 DEF p, q
  <2>5. h[i] = Mapped(g, f[i])
    BY <2>1, <2>3, <2>4
  <2> QED  BY <2>2, <2>5
<1> HIDE DEF R
<1>7. \A i \in 0 .. n : i \in R
  BY <1>5, <1>6, UpTo
<1>8. n \in R
  BY <1>7
<1> QED  BY <1>2, <1>3, <1>8 DEF R

-------------------------------------------------------------------------------
(* A line under a renaming                                                 *)

\* A word after old was renamed to new.
Word(w, old, new) == IF w = old THEN new ELSE w
Renaming(old, new) == [w \in STRING |-> Word(w, old, new)]
\* A line in which old was renamed to new, which did not stand in it.
RenamedLine(other, line, old, new) ==
  /\ old \in Names /\ new \in Names /\ line \in Seq(STRING) /\ other \in Seq(STRING)
  /\ Len(line) \in Nat /\ Len(other) = Len(line)
  /\ \A k \in 1 .. Len(line) : other[k] = Word(line[k], old, new)
  /\ \A k \in 1 .. Len(line) : line[k] # new /\ line[k] \in STRING
RenamedNames(others, names, old, new) ==
  /\ RenamedLine(others, names, old, new)
  /\ names \in Seq(Names) /\ others \in Seq(Names)

LEMMA SubstitutedIs ==
  ASSUME NEW line \in Seq(STRING), NEW old \in Names, NEW new \in Names,
         \A k \in 1 .. Len(line) : line[k] # new
  PROVE  RenamedLine(Substituted(line, old, new), line, old, new)
<1> DEFINE other == Substituted(line, old, new)
<1>1. /\ Len(line) \in Nat /\ DOMAIN line = 1 .. Len(line)
      /\ \A k \in 1 .. Len(line) : line[k] \in STRING
  BY LenProperties, ElementOfSeq
<1>2. other = [k \in 1 .. Len(line) |-> Word(line[k], old, new)]
  BY <1>1 DEF Substituted, Word
<1>3. \A k \in 1 .. Len(line) : Word(line[k], old, new) \in STRING
  BY <1>1, NamesAreNot DEF Word
<1>4. other \in Seq(STRING)
  <2>1. [k \in 1 .. Len(line) |-> Word(line[k], old, new)] \in Seq(STRING)
    BY <1>1, <1>3, IsASeq
  <2> QED  BY <1>2, <2>1
<1>5. DOMAIN other = 1 .. Len(line) /\ \A k \in 1 .. Len(line) : other[k] = Word(line[k], old, new)
  BY <1>2
<1> HIDE DEF other
<1>6. Len(other) = Len(line)
  BY <1>1, <1>4, <1>5, LenProperties
<1> QED  BY <1>1, <1>4, <1>5, <1>6 DEF RenamedLine, other

\* The replaced line is the only one with these words.
LEMMA SubstitutedAlone ==
  ASSUME NEW other, NEW line, NEW old, NEW new, RenamedLine(other, line, old, new)
  PROVE  other = Substituted(line, old, new)
<1>1. RenamedLine(Substituted(line, old, new), line, old, new)
  BY SubstitutedIs DEF RenamedLine
<1>2. /\ other \in Seq(STRING) /\ Substituted(line, old, new) \in Seq(STRING)
      /\ Len(other) = Len(Substituted(line, old, new))
      /\ \A k \in 1 .. Len(other) : other[k] = Substituted(line, old, new)[k]
  BY <1>1 DEF RenamedLine
<1> QED  BY <1>2, SeqEqual

LEMMA WordsApart ==
  ASSUME NEW old \in Names, NEW new \in Names, NEW w, w # new
  PROVE  /\ Word(w, old, new) \in Names <=> w \in Names
         /\ \A v : v \notin Names => (Word(w, old, new) = v <=> w = v)
         /\ \A v : v # new => (Word(w, old, new) = Word(v, old, new) <=> w = v)
BY DEF Word

LEMMA SameColumn ==
  ASSUME NEW other, NEW line, NEW old, NEW new, RenamedLine(other, line, old, new),
         NEW word, word \notin Names
  PROVE  Column(other, word) = Column(line, word) /\ (Contains(other, word) <=> Contains(line, word))
<1> DEFINE I(x) == {i \in 1 .. Len(x) : x[i] = word}
<1>1. \A x : Column(x, word) = IF I(x) # {} THEN Min(I(x)) ELSE 0
  BY DEF Column, SelectInSeq
<1>2. \A k \in 1 .. Len(line) : other[k] = word <=> line[k] = word
  BY WordsApart DEF RenamedLine
<1>3. Len(other) = Len(line) /\ DOMAIN line = 1 .. Len(line) /\ DOMAIN other = 1 .. Len(line)
  BY LenProperties DEF RenamedLine
<1>4. I(other) = I(line)
  BY <1>2, <1>3
<1> HIDE DEF I
<1>5. Column(other, word) = Column(line, word)
  BY <1>1, <1>4
<1>6. Contains(other, word) <=> Contains(line, word)
  BY <1>2, <1>3 DEF Contains
<1> QED  BY <1>5, <1>6

LEMMA SameNamesEnd ==
  ASSUME NEW other, NEW line, NEW old, NEW new, RenamedLine(other, line, old, new)
  PROVE  NamesEnd(other) = NamesEnd(line)
<1> DEFINE I(x) == {i \in 1 .. Len(x) : x[i] \in {"=", "in"}}
           At(x) == IF I(x) # {} THEN Min(I(x)) ELSE 0
<1>1. \A x : NamesEnd(x) = IF At(x) = 0 THEN Len(x) ELSE At(x)
  BY DEF NamesEnd, SelectInSeq
<1>2. "=" \notin Names /\ "in" \notin Names
  BY KnownWords, DocumentAssumption
<1>3. \A k \in 1 .. Len(line) : other[k] \in {"=", "in"} <=> line[k] \in {"=", "in"}
  BY <1>2, WordsApart DEF RenamedLine
<1>4. Len(other) = Len(line)
  BY DEF RenamedLine
<1>5. I(other) = I(line)
  BY <1>3, <1>4
<1> HIDE DEF I
<1>6. At(other) = At(line)
  BY <1>5
<1> HIDE DEF At
<1> QED  BY <1>1, <1>4, <1>6

LEMMA RenamedPart ==
  ASSUME NEW other, NEW line, NEW old, NEW new, RenamedLine(other, line, old, new),
         NEW a \in 1 .. Len(line) + 1, NEW b \in a - 1 .. Len(line)
  PROVE  RenamedLine(SubSeq(other, a, b), SubSeq(line, a, b), old, new)
<1> DEFINE x == SubSeq(other, a, b)
           y == SubSeq(line, a, b)
           n == b - a + 1
<1>1. /\ line \in Seq(STRING) /\ other \in Seq(STRING) /\ Len(line) \in Nat /\ Len(other) = Len(line)
      /\ old \in Names /\ new \in Names
  BY DEF RenamedLine
<1>2. x \in Seq(STRING) /\ Len(x) = n /\ \A j \in 1 .. n : x[j] = other[a + j - 1]
  BY <1>1, PartIs
<1>3. y \in Seq(STRING) /\ Len(y) = n /\ \A j \in 1 .. n : y[j] = line[a + j - 1]
  BY <1>1, PartIs
<1> HIDE DEF x, y
<1>4. ASSUME NEW j \in 1 .. n
      PROVE  x[j] = Word(y[j], old, new) /\ y[j] # new /\ y[j] \in STRING
  <2>1. a + j - 1 \in 1 .. Len(line)
    BY <1>1
  <2> DEFINE k == a + j - 1
  <2>2. k \in 1 .. Len(line) /\ x[j] = other[k] /\ y[j] = line[k]
    BY <1>2, <1>3, <2>1
  <2> HIDE DEF k
  <2> QED  BY <2>2 DEF RenamedLine
<1>5. n \in Nat
  BY <1>1
<1> QED  BY <1>1, <1>2, <1>3, <1>4, <1>5 DEF RenamedLine, x, y

LEMMA WiderSeq ==
  ASSUME NEW S, NEW T, S \subseteq T, NEW s \in Seq(S)
  PROVE  s \in Seq(T)
OBVIOUS

LEMMA RenamedNamesIn ==
  ASSUME NEW other, NEW line, NEW old, NEW new, RenamedLine(other, line, old, new)
  PROVE  RenamedNames(NamesIn(other), NamesIn(line), old, new)
<1> DEFINE g == Renaming(old, new)
           n == Len(line)
           seqs == [c \in 1 .. n |-> IF line[c] \in Names THEN <<line[c]>> ELSE <<>>]
           others == [c \in 1 .. n |-> IF other[c] \in Names THEN <<other[c]>> ELSE <<>>]
           S == {x \in Names : x # new}
           names == NamesIn(line)
           renamed == NamesIn(other)
<1>1. /\ n \in Nat /\ DOMAIN line = 1 .. n /\ DOMAIN other = 1 .. n /\ old \in Names /\ new \in Names
      /\ \A c \in 1 .. n : other[c] = Word(line[c], old, new) /\ line[c] # new /\ line[c] \in STRING
  BY LenProperties DEF RenamedLine
<1>2. names = FlattenSeq(seqs) /\ renamed = FlattenSeq(others)
  BY <1>1 DEF NamesIn
<1>3. seqs \in [1 .. n -> Seq(S)]
  <2>1. \A c \in 1 .. n : line[c] \in Names => line[c] \in S
    BY <1>1
  <2> HIDE DEF S, n
  <2>2. \A c \in 1 .. n : (IF line[c] \in Names THEN <<line[c]>> ELSE <<>>) \in Seq(S)
    BY <2>1
  <2> QED  BY <2>2
<1>4. \A x \in S : x \in STRING /\ g[x] = Word(x, old, new) /\ g[x] \in Names
  BY <1>1, NamesAreNot DEF Renaming, Word
<1>5. ASSUME NEW c \in 1 .. n  PROVE others[c] = Mapped(g, seqs[c])
  <2> DEFINE w == line[c]
  <2>1. other[c] = Word(w, old, new) /\ w # new /\ (Word(w, old, new) \in Names <=> w \in Names)
    BY <1>1, WordsApart
  <2>2. CASE w \in Names
    <3>1. seqs[c] = <<w>> /\ others[c] = <<Word(w, old, new)>> /\ g[w] = Word(w, old, new)
      BY <1>4, <2>1, <2>2
    <3> HIDE DEF w, g, seqs, others
    <3>2. Mapped(g, <<w>>) = <<g[w]>>
      BY DEF Mapped
    <3> QED  BY <3>1, <3>2
  <2>3. CASE w \notin Names
    <3>1. seqs[c] = <<>> /\ others[c] = <<>>
      BY <2>1, <2>3
    <3> HIDE DEF w, g, seqs, others
    <3>2. Mapped(g, <<>>) = <<>>
      BY DEF Mapped
    <3> QED  BY <3>1, <3>2
  <2> QED  BY <2>2, <2>3
<1>6. others = [c \in 1 .. n |-> others[c]]
  OBVIOUS
<1> HIDE DEF others, seqs, n, g, names, renamed
<1>7. others = [c \in 1 .. n |-> Mapped(g, seqs[c])]
  BY <1>5, <1>6
<1> HIDE DEF S
<1>8. renamed = Mapped(g, names)
  <2>1. n \in Nat
    BY <1>1
  <2>2. FlattenSeq(others) = Mapped(g, FlattenSeq(seqs))
    BY <1>3, <1>7, <2>1, FlattenMapped
  <2> QED  BY <1>2, <2>2
<1>9. names \in Seq(S)
  BY <1>1, <1>2, <1>3, FlattenTyped
<1>10. renamed \in Seq(ImageOf(g, S)) /\ IsMapped(renamed, g, names)
  BY <1>8, <1>9, MappedIs
<1>11. S \subseteq Names /\ S \subseteq STRING /\ ImageOf(g, S) \subseteq Names /\ ImageOf(g, S) \subseteq STRING
  BY <1>4, NamesAreNot DEF ImageOf, S
<1>12. names \in Seq(Names) /\ names \in Seq(STRING) /\ renamed \in Seq(Names) /\ renamed \in Seq(STRING)
  <2> DEFINE R == ImageOf(g, S)
  <2>1. renamed \in Seq(R) /\ R \subseteq Names /\ R \subseteq STRING
    BY <1>10, <1>11
  <2> HIDE DEF R
  <2>2. renamed \in Seq(Names) /\ renamed \in Seq(STRING)
    BY <2>1, WiderSeq
  <2>3. names \in Seq(Names) /\ names \in Seq(STRING)
    BY <1>9, <1>11, WiderSeq
  <2> QED  BY <2>2, <2>3
<1>13. Len(names) \in Nat /\ \A k \in 1 .. Len(names) : names[k] \in S
  BY <1>9, LenProperties, ElementOfSeq
<1>14. \A k \in 1 .. Len(names) : /\ renamed[k] = Word(names[k], old, new)
                                  /\ names[k] # new /\ names[k] \in STRING
  BY <1>4, <1>10, <1>13 DEF IsMapped, S
<1>15. Len(renamed) = Len(names)
  BY <1>10 DEF IsMapped
<1>16. RenamedNames(renamed, names, old, new)
  BY <1>1, <1>12, <1>13, <1>14, <1>15 DEF RenamedNames, RenamedLine
<1> QED  BY <1>16 DEF renamed, names

\* What a line declares.
LEMMA RenamedStatement ==
  ASSUME NEW other, NEW line, NEW old, NEW new, RenamedLine(other, line, old, new),
         Statement(line), IsFunction(line)
  PROVE  /\ Column(other, "function") = Column(line, "function")
         /\ RenamedNames(Parameters(other), Parameters(line), old, new)
         /\ FunctionName(other) = Word(FunctionName(line), old, new)
         /\ FunctionName(line) # new /\ FunctionName(line) \in Names
         /\ other[1] = "function" <=> line[1] = "function"
<1>1. \A w \in {"(", ")", "function"} : w \notin Names
  BY KnownWords, DocumentAssumption
<1>2. /\ Column(other, "(") = Column(line, "(") /\ Column(other, ")") = Column(line, ")")
      /\ Column(other, "function") = Column(line, "function")
  BY <1>1, SameColumn
<1> DEFINE a == Column(line, "(")
           b == Column(line, ")")
<1>3. a \in 3 .. Len(line) - 1 /\ b \in a + 1 .. Len(line) /\ Len(line) \in Nat
  BY FunctionColumns
<1>4. Parameters(other) = NamesIn(SubSeq(other, a, b)) /\ Parameters(line) = NamesIn(SubSeq(line, a, b))
  BY <1>2 DEF Parameters
<1>5. FunctionName(line) = line[a - 1] /\ FunctionName(other) = other[a - 1]
  BY <1>2 DEF FunctionName
<1> HIDE DEF a, b
<1>6. a \in 1 .. Len(line) + 1 /\ b \in a - 1 .. Len(line) /\ a - 1 \in 1 .. Len(line) /\ 1 \in 1 .. Len(line)
  BY <1>3
<1>7. RenamedLine(SubSeq(other, a, b), SubSeq(line, a, b), old, new)
  BY <1>6, RenamedPart
<1>8. RenamedNames(Parameters(other), Parameters(line), old, new)
  BY <1>4, <1>7, RenamedNamesIn
<1>9. FunctionName(other) = Word(FunctionName(line), old, new) /\ FunctionName(line) # new
  BY <1>5, <1>6 DEF RenamedLine
<1>10. other[1] = "function" <=> line[1] = "function"
  BY <1>1, <1>6, WordsApart DEF RenamedLine
<1> QED  BY <1>2, <1>8, <1>9, <1>10 DEF Statement

LEMMA RenamedLocal ==
  ASSUME NEW other, NEW line, NEW old, NEW new, RenamedLine(other, line, old, new)
  PROVE  /\ RenamedNames(DeclaredNames(other), DeclaredNames(line), old, new)
         /\ FunctionValue(other) <=> FunctionValue(line)
         /\ Contains(other, "=") <=> Contains(line, "=")
<1>1. "=" \notin Names /\ "function" \notin Names
  BY KnownWords, DocumentAssumption
<1>2. /\ Column(other, "=") = Column(line, "=") /\ (Contains(other, "=") <=> Contains(line, "="))
      /\ NamesEnd(other) = NamesEnd(line)
  BY <1>1, SameColumn, SameNamesEnd
<1>3. /\ Len(line) \in Nat /\ Len(other) = Len(line) /\ NamesEnd(line) \in 0 .. Len(line)
      /\ line \in Seq(STRING)
  BY NamesEndIs DEF RenamedLine
<1>4. RenamedLine(SubSeq(other, 1, NamesEnd(line)), SubSeq(line, 1, NamesEnd(line)), old, new)
  <2>1. 1 \in 1 .. Len(line) + 1 /\ NamesEnd(line) \in 1 - 1 .. Len(line)
    BY <1>3
  <2> QED  BY <2>1, RenamedPart
<1>5. RenamedNames(DeclaredNames(other), DeclaredNames(line), old, new)
  BY <1>2, <1>4, RenamedNamesIn DEF DeclaredNames
<1>6. FunctionValue(other) <=> FunctionValue(line)
  <2> DEFINE e == Column(line, "=")
  <2>1. /\ FunctionValue(line) <=> e \in 1 .. Len(line) - 1 /\ line[e + 1] = "function"
        /\ FunctionValue(other) <=> e \in 1 .. Len(line) - 1 /\ other[e + 1] = "function"
    BY <1>2, <1>3 DEF FunctionValue
  <2> HIDE DEF e
  <2>2. ASSUME e \in 1 .. Len(line) - 1  PROVE other[e + 1] = "function" <=> line[e + 1] = "function"
    <3>1. e + 1 \in 1 .. Len(line)
      BY <1>3, <2>2
    <3> QED  BY <1>1, <3>1, WordsApart DEF RenamedLine
  <2> QED  BY <2>1, <2>2
<1> QED  BY <1>2, <1>5, <1>6

\* A renamed line is of the same kind.
LEMMA RenamedKind ==
  ASSUME NEW other, NEW line, NEW old, NEW new, RenamedLine(other, line, old, new), line # <<>>
  PROVE  /\ IsFunction(other) <=> IsFunction(line)
         /\ Declares(other) <=> Declares(line)
         /\ IsComment(other) <=> IsComment(line)
         /\ Opens(other) <=> Opens(line)
         /\ Closes(other) <=> Closes(line)
         /\ other # <<>>
<1>1. \A w \in {"function", "local", "for", "end", "--", "do"} : w \notin Names
  BY KnownWords, DocumentAssumption
<1>2. /\ Len(line) \in Nat \ {0} /\ Len(other) = Len(line) /\ line \in Seq(STRING) /\ other \in Seq(STRING)
  BY EmptySeq, LenProperties DEF RenamedLine
<1>3. \A k \in 1 .. Len(line) : \A w : w \notin Names => (other[k] = w <=> line[k] = w)
  BY WordsApart DEF RenamedLine
<1>4. IsComment(other) <=> IsComment(line)
  BY <1>1, <1>2, <1>3 DEF IsComment
<1>5. /\ other[1] \in {"local", "for"} <=> line[1] \in {"local", "for"}
      /\ other[1] = "local" <=> line[1] = "local"
      /\ other[1] = "function" <=> line[1] = "function"
  BY <1>1, <1>2, <1>3
<1>6. IsFunction(other) <=> IsFunction(line)
  <2>1. CASE Len(line) > 1
    <3>1. other[2] = "function" <=> line[2] = "function"
      BY <1>1, <1>2, <1>3, <2>1
    <3> QED  BY <1>5, <3>1 DEF IsFunction
  <2>2. CASE ~(Len(line) > 1)
    <3>1. CASE line[1] = "local"
      <4>1. Len(line) = 1 /\ other[1] = line[1]
        BY <1>2, <1>5, <2>2, <3>1
      <4>2. \A k \in 1 .. Len(line) : other[k] = line[k]
        BY <4>1
      <4>3. other = line
        BY <1>2, <4>2, SeqEqual
      <4> QED  BY <4>3
    <3>2. CASE line[1] # "local"
      BY <1>5, <3>2 DEF IsFunction
    <3> QED  BY <3>1, <3>2
  <2> QED  BY <2>1, <2>2
<1>7. Opens(other) <=> Opens(line)
  BY <1>1, <1>4, <1>6, SameColumn DEF Opens
<1>8. Closes(other) <=> Closes(line)
  <2>1. \A x \in Seq(STRING) : x = <<"end">> <=> Len(x) = 1 /\ x[1] = "end"
    OBVIOUS
  <2>2. Len(line) = 1 => (other[1] = "end" <=> line[1] = "end")
    BY <1>1, <1>2, <1>3
  <2> QED  BY <1>2, <2>1, <2>2 DEF Closes
<1> QED  BY <1>2, <1>4, <1>5, <1>6, <1>7, <1>8 DEF Declares

-------------------------------------------------------------------------------
(* A text under a renaming                                                 *)

\* A text in which old was renamed to new, which did not stand in it.
RenamedText(other, text, old, new) ==
  /\ Statements(text) /\ Statements(other) /\ Len(other) = Len(text)
  /\ old \in Names /\ new \in Names
  /\ \A i \in 1 .. Len(text) : RenamedLine(other[i], text[i], old, new)

LEMMA RenamedTyped ==
  ASSUME NEW other, NEW text, NEW old, NEW new, RenamedText(other, text, old, new)
  PROVE  /\ Texted(text) /\ Texted(other) /\ Len(text) \in Nat
         /\ DOMAIN text = 1 .. Len(text) /\ DOMAIN other = 1 .. Len(text)
         /\ \A i \in 1 .. Len(text) :
              /\ RenamedLine(other[i], text[i], old, new) /\ Statement(text[i]) /\ text[i] # <<>>
              /\ DOMAIN text[i] = DOMAIN other[i] /\ DOMAIN text[i] = 1 .. Len(text[i])
<1>1. Texted(text) /\ Texted(other) /\ Len(other) = Len(text)
  BY DEF RenamedText, Statements
<1>2. /\ Len(text) \in Nat /\ DOMAIN text = 1 .. Len(text) /\ DOMAIN other = 1 .. Len(text)
      /\ \A i \in DOMAIN text : DOMAIN text[i] = 1 .. Len(text[i])
      /\ \A i \in DOMAIN other : DOMAIN other[i] = 1 .. Len(other[i])
  BY <1>1, TextIs
<1>3. ASSUME NEW i \in 1 .. Len(text)
      PROVE  /\ RenamedLine(other[i], text[i], old, new) /\ Statement(text[i]) /\ text[i] # <<>>
             /\ DOMAIN text[i] = DOMAIN other[i] /\ DOMAIN text[i] = 1 .. Len(text[i])
  <2>1. RenamedLine(other[i], text[i], old, new) /\ Statement(text[i])
    BY <1>2 DEF RenamedText, Statements
  <2>2. Len(other[i]) = Len(text[i])
    BY <2>1 DEF RenamedLine
  <2> QED  BY <1>2, <2>1, <2>2 DEF Statement
<1> QED  BY <1>1, <1>2, <1>3

LEMMA RenamedStatements ==
  ASSUME NEW other, NEW line, NEW old, NEW new, RenamedLine(other, line, old, new), Statement(line)
  PROVE  Statement(other)
<1>1. line # <<>>
  BY DEF Statement
<1>2. other # <<>> /\ (IsFunction(other) <=> IsFunction(line)) /\ other \in Seq(STRING)
  BY <1>1, RenamedKind DEF RenamedLine
<1>3. "(" \notin Names /\ ")" \notin Names
  BY KnownWords, DocumentAssumption
<1>4. /\ Column(other, "(") = Column(line, "(") /\ Column(other, ")") = Column(line, ")")
      /\ Contains(other, "(") <=> Contains(line, "(")
  BY <1>3, SameColumn
<1>5. IsFunction(line) => FunctionName(other) \in Names
  <2>1. ASSUME IsFunction(line)  PROVE FunctionName(other) \in Names
    <3>1. FunctionName(other) = Word(FunctionName(line), old, new) /\ FunctionName(line) \in Names
      BY <2>1, RenamedStatement
    <3>2. new \in Names
      BY DEF RenamedLine
    <3> QED  BY <3>1, <3>2 DEF Word
  <2> QED  BY <2>1
<1> QED  BY <1>2, <1>4, <1>5 DEF Statement

LEMMA SamePositions ==
  ASSUME NEW other, NEW text, NEW old, NEW new, RenamedText(other, text, old, new)
  PROVE  Positions(other) = Positions(text)
BY RenamedTyped DEF Positions

LEMMA SameOccurrences ==
  ASSUME NEW other, NEW text, NEW old, NEW new, RenamedText(other, text, old, new),
         NEW w, w # new
  PROVE  Occurrences(other, <<Word(w, old, new)>>) = Occurrences(text, <<w>>)
<1> DEFINE v == Word(w, old, new)
<1>1. Texted(text) /\ Texted(other) /\ Positions(other) = Positions(text)
  BY RenamedTyped, SamePositions
<1>2. \A p : p \in Occurrences(other, <<v>>) <=> p \in Positions(other) /\ other[p[1]][p[2]] = v
  <2> HIDE DEF v
  <2> QED  BY <1>1, OccurrencesOfOne
<1>3. \A p : p \in Occurrences(text, <<w>>) <=> p \in Positions(text) /\ text[p[1]][p[2]] = w
  BY <1>1, OccurrencesOfOne
<1>4. ASSUME NEW p \in Positions(text)  PROVE other[p[1]][p[2]] = v <=> text[p[1]][p[2]] = w
  <2>1. p[1] \in DOMAIN text /\ p[2] \in 1 .. Len(text[p[1]])
    BY <1>1, TextIs
  <2>2. RenamedLine(other[p[1]], text[p[1]], old, new)
    BY <2>1, RenamedTyped
  <2> DEFINE a == text[p[1]][p[2]]
  <2>3. other[p[1]][p[2]] = Word(a, old, new) /\ a # new /\ old \in Names /\ new \in Names
    BY <2>1, <2>2 DEF RenamedLine
  <2> HIDE DEF a
  <2>4. Word(a, old, new) = Word(w, old, new) <=> a = w
    BY <2>3, WordsApart
  <2> QED  BY <2>3, <2>4 DEF a
<1> HIDE DEF v
<1> QED  BY <1>1, <1>2, <1>3, <1>4 DEF v

LEMMA SameFound ==
  ASSUME NEW other, NEW text, NEW old, NEW new, RenamedText(other, text, old, new),
         NEW w, w # new, NEW start
  PROVE  FindNamePosition(other, <<Word(w, old, new)>>, start) = FindNamePosition(text, <<w>>, start)
<1> DEFINE F(O) == LET found == {p \in O : ~Before(p, start)}
                   IN IF found = {} THEN start
                      ELSE CHOOSE p \in found : \A q \in found : ~Before(q, p)
           v == Word(w, old, new)
<1>1. Occurrences(other, <<v>>) = Occurrences(text, <<w>>)
  BY SameOccurrences
<1>2. FindNamePosition(other, <<v>>, start) = F(Occurrences(other, <<v>>))
  BY Zenon DEF FindNamePosition
<1>3. FindNamePosition(text, <<w>>, start) = F(Occurrences(text, <<w>>))
  BY Zenon DEF FindNamePosition
<1> HIDE DEF F, v
<1> QED  BY <1>1, <1>2, <1>3 DEF v

LEMMA SamePlaces ==
  ASSUME NEW other, NEW text, NEW old, NEW new, RenamedText(other, text, old, new),
         NEW others, NEW names, RenamedNames(others, names, old, new), NEW start
  PROVE  \A k \in 1 .. Len(names) : Places(other, others, start)[k] = Places(text, names, start)[k]
<1> DEFINE f == Places(text, names, start)
           h == Places(other, others, start)
           n == Len(names)
<1>1. names \in Seq(Names) /\ others \in Seq(Names) /\ Len(others) = n /\ n \in Nat
  BY DEF RenamedNames, RenamedLine
<1>2. \A k \in 1 .. n : f[k] = Follows(f, text, names, start, k)
  BY <1>1, PlacesAre
<1>3. \A k \in 1 .. n : h[k] = Follows(h, other, others, start, k)
  BY <1>1, PlacesAre
<1> HIDE DEF f, h
<1>4. ASSUME NEW k \in 1 .. n, k = 1 \/ h[k - 1] = f[k - 1]  PROVE h[k] = f[k]
  <2> DEFINE a == IF k = 1 THEN start ELSE <<f[k - 1][1], f[k - 1][2] + 1>>
             b == IF k = 1 THEN start ELSE <<h[k - 1][1], h[k - 1][2] + 1>>
             w == names[k]
  <2>1. a = b
    BY <1>4
  <2>2. f[k] = FindNamePosition(text, <<w>>, a) /\ h[k] = FindNamePosition(other, <<others[k]>>, b)
    BY Zenon, <1>2, <1>3 DEF Follows
  <2>3. others[k] = Word(w, old, new) /\ w # new
    BY DEF RenamedNames, RenamedLine
  <2> HIDE DEF a, b, w
  <2>4. FindNamePosition(other, <<Word(w, old, new)>>, a) = FindNamePosition(text, <<w>>, a)
    BY <2>3, SameFound
  <2> QED  BY <2>1, <2>2, <2>3, <2>4
<1> DEFINE T == {0} \cup {k \in 1 .. n : h[k] = f[k]}
<1>5. ASSUME NEW k \in 1 .. n, k - 1 \in T  PROVE k \in T
  BY <1>4, <1>5
<1>6. 0 \in T
  OBVIOUS
<1> HIDE DEF T, n
<1>7. \A k \in 0 .. n : k \in T
  BY <1>1, <1>5, <1>6, UpTo
<1>8. \A k \in 1 .. n : h[k] = f[k]
  BY <1>1, <1>7 DEF T
<1> QED  BY <1>8 DEF f, h, n

LEMMA RenamedDepths ==
  ASSUME NEW other, NEW text, NEW old, NEW new, RenamedText(other, text, old, new)
  PROVE  \A i \in 1 .. Len(text) + 1 : Depth(other, i) = Depth(text, i)
<1>1. Len(text) \in Nat
  BY RenamedTyped
<1>2. \A i \in 1 .. Len(text) : Rise(other[i]) = Rise(text[i])
  BY RenamedTyped, RenamedKind DEF Rise
<1> QED  BY <1>1, <1>2, SameDepths

LEMMA BothDepths ==
  ASSUME NEW other, NEW text, NEW old, NEW new, RenamedText(other, text, old, new), Balanced(text)
  PROVE  /\ Depths(text, Len(text)) /\ Depths(other, Len(text)) /\ Statements(other) /\ Statements(text)
<1>1. Statements(text) /\ Statements(other) /\ Len(other) = Len(text) /\ Len(text) \in Nat
  BY RenamedTyped DEF RenamedText
<1>2. Balanced(other)
  BY <1>1, RenamedDepths DEF Balanced
<1>3. Depths(text, Len(text)) /\ Depths(other, Len(other))
  BY <1>1, <1>2, DepthsOf
<1> QED  BY <1>1, <1>3

LEMMA ClosedOnce ==
  ASSUME NEW text, NEW i, NEW j, NEW k, ClosedAt(text, i, j), ClosedAt(text, i, k), 
         \A m \in i + 1 .. Len(text) + 1 : Depth(text, m) \in Int, Depth(text, i) \in Int
  PROVE  j <= k
<1> SUFFICES ASSUME k < j  PROVE FALSE
  BY DEF ClosedAt
<1>1. i \in Nat /\ j \in Nat /\ k \in Nat /\ k + 1 \in i + 1 .. j
  BY DEF ClosedAt
<1>2. Depth(text, k + 1) > Depth(text, i) /\ Depth(text, k + 1) = Depth(text, i)
  BY <1>1 DEF ClosedAt
<1> QED  BY <1>2

LEMMA SameClosing ==
  ASSUME NEW other, NEW text, NEW old, NEW new, RenamedText(other, text, old, new), Balanced(text),
         NEW i \in 1 .. Len(text), Opens(text[i])
  PROVE  ClosingLine(other, i) = ClosingLine(text, i)
<1> DEFINE j == ClosingLine(text, i)
           k == ClosingLine(other, i)
           n == Len(text)
<1>1. Depths(text, n) /\ Depths(other, n) /\ Opens(other[i])
  BY BothDepths, RenamedTyped, RenamedKind
<1> HIDE DEF n
<1>2. i \in 1 .. n /\ n \in Nat /\ n = Len(text) /\ n = Len(other)
  BY <1>1 DEF n, Depths
<1>3. ClosedAt(text, i, j)
  BY <1>1, <1>2, ClosingLineIs
<1>4. ClosedAt(other, i, k)
  BY <1>1, <1>2, ClosingLineIs
<1> HIDE DEF j, k
<1>5. ClosedAt(text, i, k)
  <2>1. i \in Nat /\ k \in Nat /\ i < k /\ k <= n /\ Closes(other[k])
    BY <1>2, <1>4 DEF ClosedAt
  <2>2. k \in 1 .. n /\ k + 1 \in 1 .. n + 1 /\ i \in 1 .. n + 1
    BY <1>2, <2>1
  <2>3. Closes(text[k])
    BY <1>2, <2>1, <2>2, RenamedTyped, RenamedKind
  <2>4. \A m \in 1 .. n + 1 : Depth(other, m) = Depth(text, m)
    BY <1>2, RenamedDepths
  <2>5. \A m \in i + 1 .. k : m \in 1 .. n + 1
    BY <2>1, <1>2
  <2> QED  BY <1>2, <1>4, <2>1, <2>2, <2>3, <2>4, <2>5 DEF ClosedAt
<1>6. /\ Depth(text, i) \in Int
      /\ \A m \in i + 1 .. Len(text) + 1 : Depth(text, m) \in Int
  BY <1>1, <1>2 DEF Depths
<1>7. j <= k /\ k <= j
  BY <1>3, <1>5, <1>6, ClosedOnce
<1>8. j \in Nat /\ k \in Nat
  BY <1>3, <1>5 DEF ClosedAt
<1> QED  BY <1>7, <1>8 DEF j, k

LEMMA TokenOnce ==
  ASSUME NEW text, NEW i \in Nat, NEW s, NEW t, TokenAt(text, i, s), TokenAt(text, i, t), Len(text) \in Nat
  PROVE  s <= t
<1> SUFFICES ASSUME t < s  PROVE FALSE
  BY DEF TokenAt
<1>1. t \in i + 1 .. s - 1 /\ t <= Len(text)
  BY DEF TokenAt
<1> QED  BY <1>1 DEF TokenAt

LEMMA SameToken ==
  ASSUME NEW other, NEW text, NEW old, NEW new, RenamedText(other, text, old, new),
         NEW i \in 0 .. Len(text)
  PROVE  NextToken(other, i) = NextToken(text, i)
<1> DEFINE s == NextToken(text, i)[1]
           t == NextToken(other, i)[1]
<1>1. Texted(text) /\ Texted(other) /\ Len(text) \in Nat /\ Len(other) = Len(text) /\ i \in Nat
  <2>1. Texted(text) /\ Texted(other) /\ Len(text) \in Nat
    BY RenamedTyped
  <2>2. Len(other) = Len(text)
    BY DEF RenamedText
  <2> QED  BY <2>1, <2>2
<1>2. NextToken(text, i) = <<s, 1>> /\ TokenAt(text, i, s)
  BY <1>1, NextTokenIs
<1>3. NextToken(other, i) = <<t, 1>> /\ TokenAt(other, i, t)
  BY <1>1, NextTokenIs
<1> HIDE DEF s, t
<1>4. \A k \in 1 .. Len(text) : IsComment(other[k]) <=> IsComment(text[k])
  BY RenamedTyped, RenamedKind
<1>5. TokenAt(text, i, t)
  <2>1. t \in Nat /\ i < t /\ t <= Len(text) + 1
    BY <1>1, <1>3 DEF TokenAt
  <2>2. \A k \in i + 1 .. t - 1 : k \in 1 .. Len(text)
    BY <1>1, <2>1
  <2>3. t <= Len(text) => t \in 1 .. Len(text)
    BY <1>1, <2>1
  <2> QED  BY <1>1, <1>3, <1>4, <2>1, <2>2, <2>3 DEF TokenAt
<1>6. s <= t /\ t <= s
  BY <1>1, <1>2, <1>5, TokenOnce
<1>7. s \in Nat /\ t \in Nat
  BY <1>2, <1>5 DEF TokenAt
<1> QED  BY <1>2, <1>3, <1>6, <1>7

LEMMA SameRange ==
  ASSUME NEW other, NEW text, NEW old, NEW new, RenamedText(other, text, old, new), Balanced(text),
         NEW i \in 1 .. Len(text)
  PROVE  RangeEnd(other, i) = RangeEnd(text, i)
<1>1. /\ Opens(other[i]) <=> Opens(text[i])
      /\ FunctionValue(other[i]) <=> FunctionValue(text[i])
      /\ Contains(other[i], "=") <=> Contains(text[i], "=")
      /\ Len(other[i]) = Len(text[i]) /\ Len(text) \in Nat
  <2> DEFINE x == other[i]
             y == text[i]
  <2>1. RenamedLine(x, y, old, new) /\ y # <<>> /\ Len(text) \in Nat
    BY RenamedTyped
  <2> HIDE DEF x, y
  <2>2. Opens(x) <=> Opens(y)
    BY <2>1, RenamedKind
  <2>3. (FunctionValue(x) <=> FunctionValue(y)) /\ (Contains(x, "=") <=> Contains(y, "="))
    BY <2>1, RenamedLocal
  <2>4. Len(x) = Len(y)
    BY <2>1 DEF RenamedLine
  <2> QED  BY <2>1, <2>2, <2>3, <2>4 DEF x, y
<1>2. CASE Opens(text[i])
  <2> DEFINE j == ClosingLine(text, i)
  <2>1. ClosingLine(other, i) = j
    BY <1>2, SameClosing
  <2>2. j \in 0 .. Len(text)
    <3>1. Depths(text, Len(text))
      BY BothDepths
    <3>2. ClosedAt(text, i, j)
      BY <1>2, <3>1, ClosingLineIs
    <3> QED  BY <3>2, <1>1 DEF ClosedAt
  <2>3. RangeEnd(text, i) = NextToken(text, j) /\ RangeEnd(other, i) = NextToken(other, j)
    BY <1>1, <1>2, <2>1 DEF RangeEnd
  <2> HIDE DEF j
  <2> QED  BY <2>2, <2>3, SameToken
<1>3. CASE ~Opens(text[i])
  <2>1. NextToken(other, i) = NextToken(text, i)
    BY <1>1, SameToken
  <2> QED  BY <1>1, <1>3, <2>1 DEF RangeEnd
<1> QED  BY <1>2, <1>3

\* A symbol under its new name.
Renames(S, old, new) == [s \in S |-> [s EXCEPT !.name = Substituted(@, old, new)]]

LEMMA RenamedSymbol ==
  ASSUME NEW S, NEW old, NEW new, NEW w, NEW scope, NEW start, NEW end, NEW at, NEW b, NEW d,
         Symbol(<<w>>, scope, start, end, at, b, d) \in S
  PROVE  Renames(S, old, new)[Symbol(<<w>>, scope, start, end, at, b, d)]
           = Symbol(<<Word(w, old, new)>>, scope, start, end, at, b, d)
<1> DEFINE n == <<w>>
           s == Symbol(n, scope, start, end, at, b, d)
<1>1. Substituted(n, old, new) = <<Word(w, old, new)>>
  BY DEF Substituted, Word
<1> HIDE DEF n
<1>2. s.name = n /\ \A m : [s EXCEPT !.name = m] = Symbol(m, scope, start, end, at, b, d)
  BY DEF Symbol
<1>3. Renames(S, old, new)[s] = [s EXCEPT !.name = Substituted(s.name, old, new)]
  <2> HIDE DEF s
  <2> QED  BY DEF Renames, s, n
<1> HIDE DEF s
<1> QED  BY <1>1, <1>2, <1>3 DEF s, n

\* The symbols of several names of one statement.
Listed(names, scope, start, end, place, isFunction, d) ==
  [k \in 1 .. Len(names) |->
     Symbol(<<names[k]>>, scope, start, end, place[k], isFunction[k], d)]

LEMMA RenamedList ==
  ASSUME NEW others, NEW names, NEW old, NEW new, RenamedNames(others, names, old, new),
         NEW scope, NEW start, NEW end, NEW d, NEW place, NEW replaced, NEW isFunction,
         \A k \in 1 .. Len(names) : replaced[k] = place[k],
         NEW S, Listed(names, scope, start, end, place, isFunction, d) \in Seq(S)
  PROVE  Listed(others, scope, start, end, replaced, isFunction, d)
           = Mapped(Renames(S, old, new), Listed(names, scope, start, end, place, isFunction, d))
<1> DEFINE n == Len(names)
           g == Renames(S, old, new)
           L == Listed(names, scope, start, end, place, isFunction, d)
           s(k) == Symbol(<<names[k]>>, scope, start, end, place[k], isFunction[k], d)
           t(k) == Symbol(<<others[k]>>, scope, start, end, replaced[k], isFunction[k], d)
<1>1. n \in Nat /\ Len(others) = n /\ \A k \in 1 .. n : others[k] = Word(names[k], old, new)
  BY DEF RenamedNames, RenamedLine
<1>2. L = [k \in 1 .. n |-> s(k)] /\ Listed(others, scope, start, end, replaced, isFunction, d) = [k \in 1 .. n |-> t(k)]
  BY <1>1 DEF Listed
<1>3. DOMAIN L = 1 .. n /\ \A k \in 1 .. n : L[k] = s(k)
  <2> HIDE DEF s
  <2> QED  BY <1>2
<1>4. \A k \in 1 .. n : L[k] \in S
  <2>1. L \in Seq(S)
    OBVIOUS
  <2> HIDE DEF L
  <2>2. Len(L) = n
    BY <1>1, <1>3, <2>1, LenProperties
  <2> QED  BY <2>1, <2>2, ElementOfSeq
<1> HIDE DEF n, L, g
<1>5. ASSUME NEW k \in 1 .. n  PROVE g[L[k]] = t(k)
  <2>1. s(k) \in S
    BY <1>3, <1>4
  <2> DEFINE w == names[k]
             at == place[k]
             b == isFunction[k]
  <2>2. Symbol(<<w>>, scope, start, end, at, b, d) \in S
    BY <2>1
  <2>3. t(k) = Symbol(<<Word(w, old, new)>>, scope, start, end, at, b, d)
    BY <1>1 DEF n
  <2> HIDE DEF w, at, b, t
  <2>4. g[Symbol(<<w>>, scope, start, end, at, b, d)] = Symbol(<<Word(w, old, new)>>, scope, start, end, at, b, d)
    BY <2>2, RenamedSymbol DEF g
  <2> QED  BY <1>3, <2>3, <2>4 DEF w, at, b
<1> HIDE DEF s, t
<1>6. Mapped(g, L) = [k \in 1 .. n |-> t(k)]
  BY <1>3, <1>5 DEF Mapped
<1> QED  BY <1>2, <1>6 DEF g, L

LEMMA RenamedLocals ==
  ASSUME NEW other, NEW text, NEW old, NEW new, RenamedText(other, text, old, new), Balanced(text),
         NEW i \in 1 .. Len(text), NEW S, LocalSymbols(text, i) \in Seq(S)
  PROVE  LocalSymbols(other, i) = Mapped(Renames(S, old, new), LocalSymbols(text, i))
<1> DEFINE names == DeclaredNames(text[i])
           others == DeclaredNames(other[i])
           start == <<i, 1>>
           end == RangeEnd(text, i)
           place == Places(text, names, start)
           replaced == Places(other, others, start)
           isFunction == [k \in 1 .. Len(names) |-> k = 1 /\ FunctionValue(text[i])]
           d == Depth(text, i)
<1>1. RenamedLine(other[i], text[i], old, new) /\ Len(text) \in Nat
  BY RenamedTyped
<1>2. RenamedNames(others, names, old, new) /\ (FunctionValue(other[i]) <=> FunctionValue(text[i]))
  BY <1>1, RenamedLocal
<1>3. RangeEnd(other, i) = end
  BY SameRange
<1>4. Depth(other, i) = d
  BY <1>1, RenamedDepths
<1>5. \A k \in 1 .. Len(names) : replaced[k] = place[k]
  <2> HIDE DEF names, others, start
  <2> QED  BY <1>2, SamePlaces
<1>6. DOMAIN names = 1 .. Len(names) /\ DOMAIN others = 1 .. Len(names) /\ Len(others) = Len(names)
  <2> HIDE DEF names, others
  <2>1. names \in Seq(Names) /\ others \in Seq(Names) /\ Len(others) = Len(names)
    BY <1>2 DEF RenamedNames, RenamedLine
  <2> QED  BY <2>1, LenProperties
<1>7. LocalSymbols(text, i) = Listed(names, "local", start, end, place, isFunction, d)
  <2>1. LocalSymbols(text, i)
          = [k \in 1 .. Len(names) |-> Symbol(<<names[k]>>, "local", start, end, place[k],
                                              k = 1 /\ FunctionValue(text[i]), d)]
    BY <1>6 DEF LocalSymbols
  <2> HIDE DEF names, start, end, place, d
  <2> QED  BY <2>1 DEF Listed
<1>8. LocalSymbols(other, i) = Listed(others, "local", start, end, replaced, isFunction, d)
  <2>1. LocalSymbols(other, i)
          = [k \in 1 .. Len(names) |-> Symbol(<<others[k]>>, "local", start, RangeEnd(other, i), replaced[k],
                                              k = 1 /\ FunctionValue(other[i]), Depth(other, i))]
    BY <1>6 DEF LocalSymbols
  <2> HIDE DEF names, start, end, replaced, d, others
  <2>2. LocalSymbols(other, i)
          = [k \in 1 .. Len(names) |-> Symbol(<<others[k]>>, "local", start, end, replaced[k],
                                              k = 1 /\ FunctionValue(text[i]), d)]
    BY <1>2, <1>3, <1>4, <2>1
  <2> QED  BY <1>6, <2>2 DEF Listed
<1> HIDE DEF names, others, start, end, place, replaced, isFunction, d
<1> QED  BY <1>2, <1>5, <1>7, <1>8, RenamedList

\* A function statement without a module: the function, then its parameters.
FunctionHead(text, i) ==
  LET line  == text[i]
      start == <<i, Column(line, "function")>>
  IN Symbol(<<FunctionName(line)>>, IF line[1] = "function" THEN "global" ELSE "local",
            start, RangeEnd(text, i), FindNamePosition(text, <<FunctionName(line)>>, start),
            TRUE, Depth(text, i))
FunctionRest(text, i) ==
  LET line   == text[i]
      start  == <<i, Column(line, "function")>>
      params == Parameters(line)
  IN Listed(params, "parameter", start, RangeEnd(text, i), Places(text, params, start),
            [k \in 1 .. Len(params) |-> FALSE], Depth(text, i) + 1)

LEMMA FunctionParts ==
  ASSUME NEW text, NEW i, Statement(text[i]), IsFunction(text[i])
  PROVE  FunctionSymbols(text, i, NoName) = <<FunctionHead(text, i)>> \o FunctionRest(text, i)
<1> DEFINE line   == text[i]
           start  == <<i, Column(line, "function")>>
           end    == RangeEnd(text, i)
           params == Parameters(line)
           place  == Places(text, params, start)
           d      == Depth(text, i)
           a      == FunctionHead(text, i)
           P      == FunctionRest(text, i)
           Q      == [k \in DOMAIN params |->
                        Symbol(<<params[k]>>, "parameter", start, end, place[k], FALSE, d + 1)]
<1>1. FunctionSymbols(text, i, NoName) = <<a>> \o <<>> \o Q
  BY DEF FunctionSymbols, FunctionHead
<1>2. DOMAIN params = 1 .. Len(params)
  <2>1. PICK col : NameColumns(col, line, Column(line, "("), Column(line, ")"), params)
    BY ParameterColumns
  <2>2. params \in Seq(Names)
    BY <2>1 DEF NameColumns
  <2> HIDE DEF params
  <2> QED  BY <2>2, LenProperties
<1>3. P = Q
  <2>1. P = Listed(params, "parameter", start, end, place, [k \in 1 .. Len(params) |-> FALSE], d + 1)
    BY DEF FunctionRest
  <2> HIDE DEF params, start, end, place, d, P
  <2> QED  BY <1>2, <2>1 DEF Listed
<1> HIDE DEF a, P, Q
<1>4. <<a>> \o <<>> = <<a>>
  BY OneTyped, AddedNothing
<1> QED  BY <1>1, <1>3, <1>4 DEF a, P

LEMMA RenamedFunction ==
  ASSUME NEW other, NEW text, NEW old, NEW new, RenamedText(other, text, old, new), Balanced(text),
         NEW i \in 1 .. Len(text), IsFunction(text[i]), NEW S, FunctionSymbols(text, i, NoName) \in Seq(S)
  PROVE  FunctionSymbols(other, i, NoName) = Mapped(Renames(S, old, new), FunctionSymbols(text, i, NoName))
<1> DEFINE x == other[i]
           y == text[i]
           g == Renames(S, old, new)
           a == FunctionHead(text, i)
           b == FunctionHead(other, i)
           P == FunctionRest(text, i)
           Q == FunctionRest(other, i)
           start == <<i, Column(y, "function")>>
           end == RangeEnd(text, i)
           d == Depth(text, i)
<1>1. RenamedLine(x, y, old, new) /\ Statement(y) /\ y # <<>> /\ Len(text) \in Nat
  BY RenamedTyped
<1>2. Statement(x) /\ IsFunction(x)
  BY <1>1, RenamedStatements, RenamedKind
<1>3. /\ Column(x, "function") = Column(y, "function")
      /\ RenamedNames(Parameters(x), Parameters(y), old, new)
      /\ FunctionName(x) = Word(FunctionName(y), old, new) /\ FunctionName(y) # new
      /\ x[1] = "function" <=> y[1] = "function"
  <2> HIDE DEF x
  <2> QED  BY <1>1, RenamedStatement
<1>4. RangeEnd(other, i) = end
  BY SameRange
<1>5. Depth(other, i) = d
  BY <1>1, RenamedDepths
<1>6. FunctionSymbols(text, i, NoName) = <<a>> \o P /\ FunctionSymbols(other, i, NoName) = <<b>> \o Q
  BY <1>1, <1>2, FunctionParts
<1> DEFINE names == Parameters(y)
           others == Parameters(x)
           place == Places(text, names, start)
           replaced == Places(other, others, start)
           none == [k \in 1 .. Len(names) |-> FALSE]
           w == FunctionName(y)
           at == FindNamePosition(text, <<w>>, start)
           scope == IF y[1] = "function" THEN "global" ELSE "local"
<1>7. P = Listed(names, "parameter", start, end, place, none, d + 1)
  BY DEF FunctionRest
<1>8. Q = Listed(others, "parameter", start, end, replaced, none, d + 1)
  <2>1. Len(others) = Len(names)
    BY <1>3 DEF RenamedNames, RenamedLine
  <2> QED  BY <1>3, <1>4, <1>5, <2>1 DEF FunctionRest
<1>9. a = Symbol(<<w>>, scope, start, end, at, TRUE, d)
  BY DEF FunctionHead
<1>10. b = Symbol(<<Word(w, old, new)>>, scope, start, end, at, TRUE, d)
  <2>1. FindNamePosition(other, <<Word(w, old, new)>>, start) = at
    <3> HIDE DEF w, start
    <3> QED  BY <1>3, SameFound DEF w
  <2> QED  BY <1>3, <1>4, <1>5, <2>1 DEF FunctionHead
<1>11. a \in S /\ P \in Seq(S)
  <2> DEFINE T == {a} \cup ToSet(P)
             F == FunctionSymbols(text, i, NoName)
  <2>1. P \in Seq(T) /\ <<a>> \in Seq(T)
    <3>1. names \in Seq(Names)
      BY <1>3 DEF RenamedNames
    <3>2. Len(names) \in Nat
      <4> HIDE DEF names
      <4> QED  BY <3>1, LenProperties
    <3>3. DOMAIN P = 1 .. Len(names) /\ P = [k \in 1 .. Len(names) |-> P[k]]
      BY <1>7 DEF Listed
    <3> HIDE DEF P, names, a
    <3>4. \A k \in 1 .. Len(names) : P[k] \in T
      BY <3>3 DEF ToSet
    <3> HIDE DEF T
    <3>5. P \in Seq(T)
      BY <3>2, <3>3, <3>4, IsASeq
    <3> QED  BY <3>5, OneTyped DEF T
  <2> HIDE DEF a, P, F
  <2>2. /\ Len(F) = Len(<<a>>) + Len(P) /\ (\A j \in 1 .. Len(<<a>>) : F[j] = <<a>>[j])
        /\ (\A k \in 1 .. Len(P) : F[Len(<<a>>) + k] = P[k])
    <3> DEFINE A == <<a>>
    <3>1. A \in Seq(T) /\ P \in Seq(T) /\ F = A \o P
      BY <1>6, <2>1 DEF F
    <3> HIDE DEF A, T
    <3>2. /\ Len(F) = Len(A) + Len(P) /\ (\A j \in 1 .. Len(A) : F[j] = A[j])
          /\ (\A k \in 1 .. Len(P) : F[Len(A) + k] = P[k])
      BY <3>1, TwoParts
    <3> QED  BY <3>2 DEF A
  <2> HIDE DEF T
  <2>3. Len(P) \in Nat /\ Len(<<a>>) = 1 /\ <<a>>[1] = a
    BY <2>1, LenProperties
  <2>4. F[1] = a /\ Len(F) = 1 + Len(P) /\ \A k \in 1 .. Len(P) : F[1 + k] = P[k]
    BY <2>2, <2>3
  <2>5. F \in Seq(S)
    BY DEF F
  <2>6. \A j \in 1 .. 1 + Len(P) : F[j] \in S
    BY <2>4, <2>5, ElementOfSeq
  <2>7. a \in S /\ \A k \in 1 .. Len(P) : P[k] \in S
    BY <2>3, <2>4, <2>6
  <2>8. P = [k \in 1 .. Len(P) |-> P[k]]
    BY <2>1, LenProperties
  <2> QED  BY <2>3, <2>7, <2>8, IsASeq
<1>12. g[a] = b
  <2>1. Symbol(<<w>>, scope, start, end, at, TRUE, d) \in S
    BY <1>9, <1>11
  <2> HIDE DEF w, scope, start, end, at, d, a, b
  <2> DEFINE yes == TRUE
  <2>2. Symbol(<<w>>, scope, start, end, at, yes, d) \in S
    BY <2>1
  <2> HIDE DEF yes
  <2>3. Renames(S, old, new)[Symbol(<<w>>, scope, start, end, at, yes, d)]
          = Symbol(<<Word(w, old, new)>>, scope, start, end, at, yes, d)
    BY <2>2, RenamedSymbol
  <2>4. Renames(S, old, new)[Symbol(<<w>>, scope, start, end, at, TRUE, d)]
          = Symbol(<<Word(w, old, new)>>, scope, start, end, at, TRUE, d)
    BY <2>3 DEF yes
  <2> HIDE DEF g
  <2> QED  BY <1>9, <1>10, <2>4 DEF g
<1>13. \A k \in 1 .. Len(names) : replaced[k] = place[k]
  <2> HIDE DEF names, others, start
  <2> QED  BY <1>3, SamePlaces DEF names, others
<1>14. Q = Mapped(g, P)
  <2>1. Listed(names, "parameter", start, end, place, none, d + 1) \in Seq(S)
    BY <1>7, <1>11
  <2>2. RenamedNames(others, names, old, new)
    BY <1>3
  <2> HIDE DEF names, others, start, end, place, replaced, none, d, P, Q
  <2> QED  BY <1>7, <1>8, <1>13, <2>1, <2>2, RenamedList
<1> HIDE DEF a, b, P, Q, g
<1>15. Mapped(g, <<a>>) = <<g[a]>>
  BY DEF Mapped
<1>16. Mapped(g, <<a>> \o P) = Mapped(g, <<a>>) \o Mapped(g, P)
  <2> DEFINE A == <<a>>
  <2>1. A \in Seq(S) /\ P \in Seq(S)
    BY <1>11, OneTyped
  <2> HIDE DEF A
  <2>2. Mapped(g, A \o P) = Mapped(g, A) \o Mapped(g, P)
    BY <2>1, MappedConcat
  <2> QED  BY <2>2 DEF A
<1> QED  BY <1>6, <1>12, <1>14, <1>15, <1>16 DEF g

\* Without modules.
LinesOf(text) == UNION {ToSet(LineSymbols(text, i, NoName)) : i \in 1 .. Len(text)}

LEMMA LineWithoutModule ==
  ASSUME NEW text, NEW i
  PROVE  LineSymbols(text, i, NoName)
           = IF IsFunction(text[i]) THEN FunctionSymbols(text, i, NoName)
             ELSE IF Declares(text[i]) THEN LocalSymbols(text, i)
             ELSE <<>>
BY DEF LineSymbols

LEMMA RenamedLineSymbols ==
  ASSUME NEW other, NEW text, NEW old, NEW new, RenamedText(other, text, old, new), Balanced(text),
         NEW i \in 1 .. Len(text), NEW S, LineSymbols(text, i, NoName) \in Seq(S)
  PROVE  LineSymbols(other, i, NoName) = Mapped(Renames(S, old, new), LineSymbols(text, i, NoName))
<1>1. (IsFunction(other[i]) <=> IsFunction(text[i])) /\ (Declares(other[i]) <=> Declares(text[i]))
  BY RenamedTyped, RenamedKind
<1>2. CASE IsFunction(text[i])
  BY <1>1, <1>2, LineWithoutModule, RenamedFunction
<1>3. CASE ~IsFunction(text[i]) /\ Declares(text[i])
  BY <1>1, <1>3, LineWithoutModule, RenamedLocals
<1>4. CASE ~IsFunction(text[i]) /\ ~Declares(text[i])
  <2>1. LineSymbols(text, i, NoName) = <<>> /\ LineSymbols(other, i, NoName) = <<>>
    BY <1>1, <1>4, LineWithoutModule
  <2>2. \A g : Mapped(g, <<>>) = <<>>
    BY DEF Mapped
  <2> QED  BY <2>1, <2>2
<1> QED  BY <1>2, <1>3, <1>4

\* The symbols of the renamed text are those of the text, under the new name.
LEMMA RenamedScope ==
  ASSUME NEW other, NEW text, NEW old, NEW new, RenamedText(other, text, old, new), Balanced(text)
  PROVE  AnalyzeScope(other, NoName)
           = [k \in DOMAIN AnalyzeScope(text, NoName) |->
                [AnalyzeScope(text, NoName)[k] EXCEPT !.name = Substituted(@, old, new)]]
<1> DEFINE n == Len(text)
           S == LinesOf(text)
           g == Renames(S, old, new)
           seqs == [i \in 1 .. n |-> LineSymbols(text, i, NoName)]
           others == [i \in 1 .. n |-> LineSymbols(other, i, NoName)]
           all == AnalyzeScope(text, NoName)
<1>1. n \in Nat /\ DOMAIN text = 1 .. n /\ DOMAIN other = 1 .. n /\ Texted(text)
  BY RenamedTyped
<1>2. all = FlattenSeq(seqs) /\ AnalyzeScope(other, NoName) = FlattenSeq(others)
  BY <1>1 DEF AnalyzeScope
<1>3. \A i \in 1 .. n : LineSymbols(text, i, NoName) \in Seq(S)
  <2> TAKE i \in 1 .. n
  <2> DEFINE L == LineSymbols(text, i, NoName)
  <2>1. LineIs(L, text, NoName, i)
    BY <1>1, RenamedTyped, LineSymbolsAre
  <2>2. ToSet(L) \subseteq S
    BY DEF LinesOf
  <2>3. L \in Seq(ToSet(L))
    BY <2>1 DEF LineIs
  <2> DEFINE T == ToSet(L)
  <2>4. T \subseteq S /\ L \in Seq(T)
    BY <2>2, <2>3
  <2> HIDE DEF L, S, T
  <2>5. L \in Seq(S)
    BY <2>4, WiderSeq
  <2> QED  BY <2>5 DEF L
<1>4. seqs \in [1 .. n -> Seq(S)]
  BY <1>3
<1>5. \A i \in 1 .. n : LineSymbols(other, i, NoName) = Mapped(g, LineSymbols(text, i, NoName))
  <2> HIDE DEF S
  <2> QED  BY <1>3, RenamedLineSymbols
<1>6. others = [i \in 1 .. n |-> Mapped(g, seqs[i])]
  <2> HIDE DEF g
  <2> QED  BY <1>5
<1> HIDE DEF seqs, others, n, S, g, all
<1>7. FlattenSeq(others) = Mapped(g, FlattenSeq(seqs))
  BY <1>1, <1>4, <1>6, FlattenMapped
<1>8. all \in Seq(S)
  BY <1>1, <1>2, <1>4, FlattenTyped
<1>9. DOMAIN all = 1 .. Len(all) /\ \A k \in 1 .. Len(all) : all[k] \in S
  BY <1>8, LenProperties, ElementOfSeq
<1>10. \A k \in DOMAIN all : g[all[k]] = [all[k] EXCEPT !.name = Substituted(@, old, new)]
  BY <1>9 DEF g, Renames
<1> QED  BY <1>2, <1>7, <1>10 DEF Mapped, all

-------------------------------------------------------------------------------
(* What rename does to a document                                          *)

LEMMA SinglesKeep ==
  ASSUME NEW n \in Nat, NEW S, NEW seqs \in [1 .. n -> Seq(S)], NEW f, Runs(f, seqs, n),
         \A c \in 0 .. n : Len(f[c]) = c
  PROVE  \A c \in 1 .. n : f[n][c] = f[c][c]
<1> TAKE c \in 1 .. n
<1>1. c \in 0 .. n /\ c \in 1 .. Len(f[c])
  OBVIOUS
<1> QED  BY <1>1, RunKeeps

LEMMA FlattenSingles ==
  ASSUME NEW S, NEW line \in Seq(S), NEW seqs \in [1 .. Len(line) -> Seq(S)],
         \A c \in 1 .. Len(line) : seqs[c] = <<line[c]>>
  PROVE  FlattenSeq(seqs) = line
<1> DEFINE n == Len(line)
<1>1. n \in Nat /\ \A c \in 1 .. n : line[c] \in S
  BY LenProperties, ElementOfSeq
<1>2. \A c \in 1 .. n : seqs[c] = <<line[c]>> /\ <<line[c]>> \in Seq(S)
  BY <1>1, OneTyped
<1>3. seqs \in [1 .. n -> Seq(S)]
  OBVIOUS
<1> HIDE DEF n
<1>4. PICK f : Runs(f, seqs, n) /\ f[n] = FlattenSeq(seqs)
  BY <1>1, <1>3, FlattenRuns
<1>5. \A c \in 0 .. n : f[c] \in Seq(S)
  BY <1>1, <1>3, <1>4, RunsTyped
<1> DEFINE T == {c \in 0 .. n : Len(f[c]) = c}
<1>6. ASSUME NEW c \in 1 .. n, Len(f[c - 1]) = c - 1
      PROVE  Len(f[c]) = c /\ f[c][c] = line[c]
  <2> DEFINE a == f[c - 1]
             w == line[c]
  <2>1. c - 1 \in 0 .. n /\ f[c] = a \o <<w>> /\ w \in S /\ Len(a) = c - 1
    <3>0. c - 1 \in 0 .. n
      BY <1>1
    <3>1. w \in S /\ Len(a) = c - 1 /\ seqs[c] = <<w>>
      BY Zenon, <1>1, <1>2, <1>6
    <3>2. f[c] = a \o seqs[c]
      BY <1>4 DEF Runs
    <3> QED  BY <3>0, <3>1, <3>2
  <2>2. a \in Seq(S)
    BY <1>5, <2>1
  <2> HIDE DEF a, w
  <2>3. Len(a \o <<w>>) = Len(a) + 1 /\ (a \o <<w>>)[Len(a) + 1] = w
    BY <2>1, <2>2, AddedWord
  <2>4. Len(a) + 1 = c
    BY <2>1
  <2> QED  BY <2>1, <2>3, <2>4 DEF w
<1>7. 0 \in T /\ \A c \in 1 .. n : c - 1 \in T => c \in T
  <2>1. Len(f[0]) = 0
    BY <1>4 DEF Runs
  <2>2. ASSUME NEW c \in 1 .. n, c - 1 \in T  PROVE c \in T
    BY <1>6, <2>2
  <2> QED  BY <1>1, <2>1, <2>2
<1> HIDE DEF T
<1>8. \A c \in 0 .. n : c \in T
  BY <1>1, <1>7, UpTo
<1>9. \A c \in 0 .. n : Len(f[c]) = c
  BY <1>8 DEF T
<1>10. ASSUME NEW c \in 1 .. n  PROVE f[n][c] = line[c]
  <2>1. n \in Nat /\ c - 1 \in 0 .. n /\ c \in 0 .. n /\ Len(f[c - 1]) = c - 1 /\ Len(f[c]) = c /\ c \in 1 .. Len(f[c])
    BY <1>1, <1>9
  <2>2. f[n][c] = f[c][c]
    <3>1. \A d \in 1 .. n : f[n][d] = f[d][d]
      BY ZenonT(40), <1>1, <1>3, <1>4, <1>9, SinglesKeep
    <3> QED  BY <3>1
  <2> QED  BY <1>6, <2>1, <2>2
<1>11. n \in 0 .. n /\ f[n] \in Seq(S) /\ Len(f[n]) = n
  BY <1>1, <1>5, <1>9
<1>12. f[n] = line
  BY <1>10, <1>11, SeqEqual DEF n
<1> QED  BY <1>4, <1>12

\* Ranges of one word each, on every occurrence of old and nowhere else.
Exact(ranges, text, old) ==
  /\ \A r \in ranges : r.width = 1 /\ r.column \in Nat
  /\ \A i \in DOMAIN text : \A c \in DOMAIN text[i] :
       (\E r \in ranges : r.line = i /\ r.column = c) <=> text[i][c] = old

LEMMA AppliedExactly ==
  ASSUME NEW text, Texted(text), NEW old \in Names, NEW new \in Names, NEW ranges, Exact(ranges, text, old),
         ~\E p \in Positions(text) : text[p[1]][p[2]] = new
  PROVE  Applied(text, ranges, new) = [i \in DOMAIN text |-> Substituted(text[i], old, new)]
<1>1. ASSUME NEW i \in DOMAIN text
      PROVE  FlattenSeq(EditedWords(text, ranges, new, i)) = Substituted(text[i], old, new)
  <2> DEFINE line == text[i]
             other == Substituted(line, old, new)
             seqs == EditedWords(text, ranges, new, i)
  <2>1. line \in Seq(STRING) /\ DOMAIN line = 1 .. Len(line) /\ Len(line) \in Nat
    BY TextIs
  <2>2. \A k \in 1 .. Len(line) : line[k] # new
    <3> TAKE k \in 1 .. Len(line)
    <3> DEFINE q == <<i, k>>
    <3>1. q \in Positions(text) /\ q[1] = i /\ q[2] = k
      BY TextIs
    <3> HIDE DEF q
    <3> QED  BY <3>1
  <2>3. RenamedLine(other, line, old, new)
    <3> HIDE DEF line
    <3> QED  BY <2>1, <2>2, SubstitutedIs
  <2>4. /\ other \in Seq(STRING) /\ Len(other) = Len(line)
        /\ \A c \in 1 .. Len(line) : other[c] = Word(line[c], old, new)
    BY <2>3 DEF RenamedLine
  <2>5. ASSUME NEW c \in 1 .. Len(line)
        PROVE (IF \E r \in ranges : r.line = i /\ r.column = c THEN <<new>>
               ELSE IF \E r \in ranges : r.line = i /\ c \in r.column .. r.column + r.width - 1 THEN <<>>
               ELSE <<line[c]>>) = <<other[c]>>
    <3>1. c \in DOMAIN line /\ other[c] = Word(line[c], old, new)
      BY <2>1, <2>4
    <3>2. (\E r \in ranges : r.line = i /\ r.column = c) <=> line[c] = old
      BY <3>1 DEF Exact
    <3>3. (\E r \in ranges : r.line = i /\ c \in r.column .. r.column + r.width - 1)
            => \E r \in ranges : r.line = i /\ r.column = c
      <4>1. ASSUME NEW r \in ranges, r.line = i, c \in r.column .. r.column + r.width - 1
            PROVE  r.line = i /\ r.column = c
        BY <4>1, <2>1 DEF Exact
      <4> QED  BY <4>1
    <3> HIDE DEF other, line
    <3>4. CASE line[c] = old
      BY <3>1, <3>2, <3>4 DEF Word
    <3>5. CASE line[c] # old
      BY <3>1, <3>2, <3>3, <3>5 DEF Word
    <3> QED  BY <3>4, <3>5
  <2>6. seqs = [c \in 1 .. Len(other) |-> <<other[c]>>]
    <3>1. seqs = [c \in 1 .. Len(line) |->
                    IF \E r \in ranges : r.line = i /\ r.column = c THEN <<new>>
                    ELSE IF \E r \in ranges : r.line = i /\ c \in r.column .. r.column + r.width - 1 THEN <<>>
                    ELSE <<line[c]>>]
      BY <2>1 DEF EditedWords
    <3> HIDE DEF other, line, seqs
    <3> QED  BY <2>4, <2>5, <3>1
  <2>7. \A c \in 1 .. Len(other) : other[c] \in STRING
    BY <2>4, ElementOfSeq
  <2> HIDE DEF other, line, seqs
  <2>8. /\ \A c \in 1 .. Len(other) : seqs[c] = <<other[c]>>
        /\ seqs \in [1 .. Len(other) -> Seq(STRING)]
    BY <2>6, <2>7
  <2>9. FlattenSeq(seqs) = other
    BY <2>4, <2>8, FlattenSingles
  <2> QED  BY <2>9 DEF other, line, seqs
<1>2. Applied(text, ranges, new) = [i \in DOMAIN text |-> FlattenSeq(EditedWords(text, ranges, new, i))]
  BY DEF Applied, EditedWords
<1> QED  BY <1>1, <1>2

\* In case-sensitive mode the references to a name are its occurrences.
LEMMA ReferencesExactly ==
  ASSUME DocInv, config.caseSensitive, NEW n, NEW v \in Indexed
  PROVE  Exact({r \in FindReferences(<<n>>) : r.uri = v}, Text(v), n)
<1> DEFINE refs == {r \in FindReferences(<<n>>) : r.uri = v}
           text == Text(v)
<1>1. Texted(text)
  BY IndexedTexts
<1>2. Len(<<n>>) = 1
  OBVIOUS
<1>3. ASSUME NEW r \in refs
      PROVE  \E q \in Positions(text) : r = Span(v, q, 1) /\ text[q[1]][q[2]] = n
  <2>1. PICK x \in Indexed : \E q \in Positions(Text(x)) :
               /\ Same(Words(Text(x)[q[1]], q[2], Len(<<n>>)), <<n>>)
               /\ r = Span(x, q, Len(<<n>>))
    BY Zenon DEF FindReferences
  <2>2. PICK q \in Positions(Text(x)) :
               /\ Same(Words(Text(x)[q[1]], q[2], Len(<<n>>)), <<n>>)
               /\ r = Span(x, q, Len(<<n>>))
    BY <2>1
  <2>3. r.uri = x /\ r.uri = v
    BY <2>2 DEF Span
  <2>4. q \in Positions(text) /\ r = Span(v, q, 1)
    BY <1>2, <2>2, <2>3
  <2>5. Words(text[q[1]], q[2], 1) = <<n>>
    <3>1. Same(Words(text[q[1]], q[2], 1), <<n>>)
      BY Zenon, <1>2, <2>2, <2>3
    <3> QED  BY <3>1 DEF Same
  <2>6. Words(text[q[1]], q[2], 1) = <<text[q[1]][q[2]]>>
    <3>1. q[1] \in DOMAIN text /\ q[2] \in 1 .. Len(text[q[1]]) /\ text[q[1]] \in Seq(STRING)
      BY <1>1, <2>4, TextIs
    <3> QED  BY <3>1, OneWord
  <2>7. text[q[1]][q[2]] = n
    BY <2>5, <2>6
  <2> QED  BY <2>4, <2>7
<1>4. ASSUME NEW r \in refs  PROVE r.width = 1 /\ r.column \in Nat
  <2>1. PICK q \in Positions(text) : r = Span(v, q, 1)
    BY <1>3
  <2>2. q[2] \in Nat
    BY <1>1, <2>1, TextIs
  <2> QED  BY <2>1, <2>2 DEF Span
<1>5. ASSUME NEW i \in DOMAIN text, NEW c \in DOMAIN text[i]
      PROVE  (\E r \in refs : r.line = i /\ r.column = c) <=> text[i][c] = n
  <2>1. ASSUME NEW r \in refs, r.line = i, r.column = c  PROVE text[i][c] = n
    <3>1. PICK q \in Positions(text) : r = Span(v, q, 1) /\ text[q[1]][q[2]] = n
      BY <1>3
    <3>2. q[1] = i /\ q[2] = c
      BY <2>1, <3>1 DEF Span
    <3> QED  BY <3>1, <3>2
  <2>2. ASSUME text[i][c] = n  PROVE \E r \in refs : r.line = i /\ r.column = c
    <3> DEFINE q == <<i, c>>
    <3>1. q \in Positions(text) /\ q[1] = i /\ q[2] = c
      BY <1>1, TextIs
    <3> HIDE DEF q
    <3>2. Same(<<n>>, <<n>>) /\ text[q[1]][q[2]] = n
      BY <2>2, <3>1 DEF Same
    <3>3. Span(v, q, 1) \in FindReferences(<<n>>)
      BY <3>1, <3>2, ReferencesHave
    <3>4. Span(v, q, 1) \in refs /\ Span(v, q, 1).line = i /\ Span(v, q, 1).column = c
      BY <3>1, <3>3 DEF Span
    <3> QED  BY <3>4
  <2> QED  BY <2>1, <2>2
<1> HIDE DEF refs, text
<1>6. Exact(refs, text, n)
  BY <1>4, <1>5 DEF Exact
<1> QED  BY <1>6 DEF refs, text

\* Document v after the rename of old to new.
RenamedAs(d, v, old, new) ==
  /\ d.text = [i \in DOMAIN Text(v) |-> Substituted(Text(v)[i], old, new)]
  /\ d.symbols = [k \in DOMAIN documents[v].symbols |->
                    [documents[v].symbols[k] EXCEPT !.name = Substituted(@, old, new)]]

\* The new text, whatever it comes from, and its symbols.
LEMMA RenamedDocument ==
  ASSUME EditorInv, BlockInv, NEW v \in Indexed, documents[v].moduleName = NoName,
         NEW old \in Names, NEW new \in Names,
         ~\E p \in Positions(Text(v)) : Text(v)[p[1]][p[2]] = new,
         NEW d, d.text = [i \in DOMAIN Text(v) |-> Substituted(Text(v)[i], old, new)],
         d.symbols = AnalyzeScope(d.text, NoName)
  PROVE  RenamedAs(d, v, old, new)
<1> DEFINE text == Text(v)
           other == [i \in DOMAIN text |-> Substituted(text[i], old, new)]
<1>1. /\ GoodDoc(documents[v]) /\ text = documents[v].text /\ Statements(text) /\ Texted(text)
      /\ Balanced(text)
  BY IndexedTyped DEF BlockInv
<1>2. documents[v].symbols = AnalyzeScope(text, NoName)
  BY <1>1 DEF GoodDoc
<1>3. /\ Len(text) \in Nat /\ DOMAIN text = 1 .. Len(text)
      /\ \A i \in DOMAIN text : text[i] \in Seq(STRING) /\ DOMAIN text[i] = 1 .. Len(text[i])
  BY <1>1, TextIs
<1>4. ASSUME NEW i \in DOMAIN text
      PROVE  RenamedLine(Substituted(text[i], old, new), text[i], old, new) /\ Statement(text[i])
  <2> DEFINE line == text[i]
  <2>1. ASSUME NEW k \in 1 .. Len(line)  PROVE line[k] # new
    <3> DEFINE q == <<i, k>>
    <3>1. q \in Positions(text) /\ q[1] = i /\ q[2] = k
      BY <1>1, TextIs
    <3> HIDE DEF q
    <3> QED  BY <3>1
  <2>2. line \in Seq(STRING) /\ Statement(line)
    BY <1>1, <1>3 DEF Statements
  <2> HIDE DEF line
  <2>3. RenamedLine(Substituted(line, old, new), line, old, new)
    BY <2>1, <2>2, SubstitutedIs
  <2> QED  BY <2>2, <2>3 DEF line
<1> HIDE DEF text
<1>5. /\ DOMAIN other = 1 .. Len(text) /\ other = [i \in 1 .. Len(text) |-> other[i]]
      /\ \A i \in 1 .. Len(text) : other[i] = Substituted(text[i], old, new)
  BY <1>3
<1> HIDE DEF other
<1>6. \A i \in 1 .. Len(text) : RenamedLine(other[i], text[i], old, new) /\ Statement(text[i])
  BY <1>3, <1>4, <1>5
<1>7. \A i \in 1 .. Len(text) : Statement(other[i])
  BY <1>6, RenamedStatements
<1>8. other \in Seq(Seq(STRING)) /\ Len(other) = Len(text)
  <2>1. \A i \in 1 .. Len(text) : other[i] \in Seq(STRING)
    BY <1>7 DEF Statement
  <2>2. other \in Seq(Seq(STRING))
    <3> DEFINE T == Seq(STRING)
    <3>1. \A i \in 1 .. Len(text) : other[i] \in T
      BY <2>1
    <3> HIDE DEF T
    <3>2. other \in Seq(T)
      BY <1>3, <1>5, <3>1, IsASeq
    <3> QED  BY <3>2 DEF T
  <2> QED  BY <1>3, <1>5, <2>2, LenProperties
<1>9. RenamedText(other, text, old, new)
  BY <1>1, <1>5, <1>6, <1>7, <1>8 DEF RenamedText, Statements, Texted
<1>10. AnalyzeScope(other, NoName)
         = [k \in DOMAIN AnalyzeScope(text, NoName) |->
              [AnalyzeScope(text, NoName)[k] EXCEPT !.name = Substituted(@, old, new)]]
  BY <1>1, <1>9, RenamedScope
<1>11. d.text = other
  BY DEF other, text
<1>12. d.symbols = [k \in DOMAIN documents[v].symbols |->
                      [documents[v].symbols[k] EXCEPT !.name = Substituted(@, old, new)]]
  BY <1>2, <1>10, <1>11
<1> QED  BY <1>11, <1>12 DEF RenamedAs, other, text

\* A document in which the old name does not stand is its own renamed document.
LEMMA RenamedNothing ==
  ASSUME NEW text, Texted(text), NEW old \in Names, NEW new \in Names,
         ~\E p \in Positions(text) : text[p[1]][p[2]] = old
  PROVE  text = [i \in DOMAIN text |-> Substituted(text[i], old, new)]
<1>1. /\ Len(text) \in Nat /\ DOMAIN text = 1 .. Len(text) /\ text = [i \in 1 .. Len(text) |-> text[i]]
      /\ \A i \in DOMAIN text : text[i] \in Seq(STRING) /\ DOMAIN text[i] = 1 .. Len(text[i])
  BY TextIs, LenProperties DEF Texted
<1>2. ASSUME NEW i \in DOMAIN text  PROVE Substituted(text[i], old, new) = text[i]
  <2> DEFINE line == text[i]
  <2>1. ASSUME NEW k \in 1 .. Len(line)  PROVE line[k] # old
    <3> DEFINE q == <<i, k>>
    <3>1. q \in Positions(text) /\ q[1] = i /\ q[2] = k
      BY TextIs
    <3> HIDE DEF q
    <3> QED  BY <3>1
  <2>2. line \in Seq(STRING) /\ DOMAIN line = 1 .. Len(line)
    BY <1>1
  <2> HIDE DEF line
  <2>3. line = [k \in 1 .. Len(line) |-> line[k]]
    BY <2>2, LenProperties
  <2>4. Substituted(line, old, new) = [k \in 1 .. Len(line) |-> line[k]]
    BY <2>1, <2>2 DEF Substituted
  <2> QED  BY <2>3, <2>4 DEF line
<1> QED  BY <1>1, <1>2

LEMMA RenameKeepsNames ==
  ASSUME EditorInv, BlockInv, config.caseSensitive, ~supportModulePattern, WithoutModules,
         NEW u \in Indexed, NEW newName \in Fresh, NEW p \in Positions(Text(u)), Rename(u, p, newName)
  PROVE  KeepsBindings
<1> DEFINE s == FindSymbolAt(documents[u], p)
           n == Text(u)[p[1]][p[2]]
           ranges == FindReferences(<<n>>)
           Edited == {r.uri : r \in ranges}
           In(v) == {r \in ranges : r.uri = v}
           renamed(v) == [i \in DOMAIN Text(v) |-> Substituted(Text(v)[i], n, newName)]
<1>1. /\ DocInv /\ newName \in Names /\ ~Renamed
      /\ \A v \in Indexed : GoodDoc(documents[v]) /\ Text(v) = documents[v].text /\ Texted(Text(v))
      /\ \A v \in Indexed : documents[v].moduleName = NoName
  BY IndexedTyped, GoodDocuments, EditorAssumption DEF Rename, WithoutModules
<1>2. s # NoSymbol
  BY DEF Rename
<1>3. s.name = <<n>> /\ n \in Names
  <2>1. p[2] \in Nat
    BY <1>1, TextIs
  <2>2. s \in ToSet(documents[u].symbols) /\ s.name = <<n>>
    BY <1>1, <1>2, <2>1, UnderCursor
  <2> HIDE DEF s, n
  <2>3. PICK m \in Names : s.name = <<m>>
    BY <1>1, <2>2, SymbolShape
  <2> QED  BY <2>2, <2>3
<1>4. documents' = [v \in Uris |-> IF v \in Edited
                      THEN Index(Applied(Text(v), In(v), newName), supportModulePattern)
                      ELSE documents[v]]
  <2>1. documents' = [v \in Uris |->
          IF v \in {r.uri : r \in FindReferences(s.name)}
          THEN Index(Applied(Text(v), {r \in FindReferences(s.name) : r.uri = v}, newName), supportModulePattern)
          ELSE documents[v]]
    BY Zenon DEF Rename
  <2> HIDE DEF s, n
  <2> QED  BY <1>3, <2>1
<1>5. \A v \in Indexed : \A q \in Positions(Text(v)) : Text(v)[q[1]][q[2]] \notin Fresh
  BY <1>1 DEF Renamed
<1>6. n \notin Fresh
  BY <1>5
<1>7. \A v \in Indexed : Exact(In(v), Text(v), n)
  <2> HIDE DEF n
  <2> QED  BY <1>1, ReferencesExactly
<1> HIDE DEF s, n, ranges
<1>8. ASSUME NEW v \in Indexed  PROVE RenamedAs(documents'[v], v, n, newName)
  <2> DEFINE text == Text(v)
             d == documents'[v]
  <2>1. v \in Uris /\ Texted(text) /\ Exact(In(v), text, n) /\ (~\E q \in Positions(text) : text[q[1]][q[2]] = newName)
    BY <1>1, <1>5, <1>7 DEF Indexed
  <2>2. d.text = renamed(v) /\ d.symbols = AnalyzeScope(d.text, NoName)
    <3>1. CASE v \in Edited
      <4>1. d = Index(Applied(text, In(v), newName), supportModulePattern)
        BY <1>4, <2>1, <3>1
      <4>2. Applied(text, In(v), newName) = renamed(v)
        <5> HIDE DEF In, text
        <5>1. Applied(text, In(v), newName) = [i \in DOMAIN text |-> Substituted(text[i], n, newName)]
          BY <1>1, <1>3, <2>1, AppliedExactly
        <5> QED  BY <5>1 DEF text
      <4> HIDE DEF renamed, In, text, d
      <4>3. d.text = renamed(v) /\ d.symbols = AnalyzeScope(renamed(v), ModuleName(renamed(v), supportModulePattern))
        BY <4>1, <4>2 DEF Index
      <4>4. ModuleName(renamed(v), supportModulePattern) = NoName
        BY DEF ModuleName
      <4> QED  BY <4>3, <4>4
    <3>2. CASE v \notin Edited
      <4>1. d = documents[v]
        BY <1>4, <2>1, <3>2
      <4>2. ~\E q \in Positions(text) : text[q[1]][q[2]] = n
        <5>1. SUFFICES ASSUME NEW q \in Positions(text), text[q[1]][q[2]] = n  PROVE FALSE
          OBVIOUS
        <5>2. q[1] \in DOMAIN text /\ q[2] \in DOMAIN text[q[1]]
          BY <2>1, TextIs
        <5>3. \E r \in In(v) : r.line = q[1] /\ r.column = q[2]
          BY <2>1, <5>1, <5>2 DEF Exact
        <5> QED  BY <3>2, <5>3
      <4>3. text = renamed(v)
        BY <1>1, <1>3, <2>1, <4>2, RenamedNothing
      <4>4. d.text = text /\ d.symbols = AnalyzeScope(text, NoName)
        BY <1>1, <4>1 DEF GoodDoc
      <4> HIDE DEF renamed, text, d
      <4> QED  BY <4>3, <4>4
    <3> QED  BY <3>1, <3>2
  <2> HIDE DEF In, Edited, d
  <2>3. RenamedAs(d, v, n, newName)
    BY <1>1, <1>3, <2>1, <2>2, RenamedDocument
  <2> QED  BY <2>3 DEF d
<1>9. n \in Names \ Fresh
  BY <1>3, <1>6
<1> HIDE DEF renamed, In, Edited
<1> QED  BY <1>8, <1>9 DEF KeepsBindings, RenamedAs

-------------------------------------------------------------------------------
(* No other step brings a new name                                         *)

\* Lines without a new name.
CleanLines == {line \in Seq(STRING) : ToSet(line) \cap Fresh = {}}

LEMMA CleanTexts ==
  ASSUME NEW text, Texted(text)
  PROVE  ~FreshIn(text) <=> text \in Seq(CleanLines)
<1>1. /\ Len(text) \in Nat /\ DOMAIN text = 1 .. Len(text) /\ text = [i \in 1 .. Len(text) |-> text[i]]
      /\ \A i \in DOMAIN text : text[i] \in Seq(STRING) /\ DOMAIN text[i] = 1 .. Len(text[i])
  BY TextIs, LenProperties DEF Texted
<1>2. ASSUME ~FreshIn(text)  PROVE text \in Seq(CleanLines)
  <2>1. ASSUME NEW i \in 1 .. Len(text)  PROVE text[i] \in CleanLines
    <3>1. ASSUME NEW k \in 1 .. Len(text[i])  PROVE text[i][k] \notin Fresh
      <4> DEFINE q == <<i, k>>
      <4>1. q \in Positions(text) /\ q[1] = i /\ q[2] = k
        BY <1>1, TextIs
      <4> HIDE DEF q
      <4> QED  BY <1>2, <4>1 DEF FreshIn
    <3> QED  BY <1>1, <3>1 DEF CleanLines, ToSet
  <2> HIDE DEF CleanLines
  <2> QED  BY <1>1, <2>1, IsASeq
<1>3. ASSUME text \in Seq(CleanLines)  PROVE ~FreshIn(text)
  <2>1. \A i \in 1 .. Len(text) : text[i] \in CleanLines
    BY <1>3, ElementOfSeq
  <2>2. ASSUME NEW q \in Positions(text)  PROVE text[q[1]][q[2]] \notin Fresh
    <3>1. q[1] \in 1 .. Len(text) /\ q[2] \in DOMAIN text[q[1]]
      BY <1>1, TextIs
    <3>2. text[q[1]][q[2]] \in ToSet(text[q[1]])
      BY <3>1 DEF ToSet
    <3> QED  BY <2>1, <3>1, <3>2 DEF CleanLines
  <2> QED  BY <2>2 DEF FreshIn
<1> QED  BY <1>2, <1>3

LEMMA RenamedIs ==
  Renamed <=> \E u \in Indexed : FreshIn(Text(u))
BY DEF Renamed, FreshIn

LEMMA CleanTyped ==
  /\ Lines \cup Openers \subseteq CleanLines
  /\ <<"end">> \in CleanLines
<1>1. Lines \cup Openers \subseteq CleanLines
  BY EditorAssumption DEF CleanLines
<1>2. <<"end">> \in CleanLines
  <2> DEFINE line == <<"end">>
  <2>1. line \in Seq(STRING) /\ ToSet(line) = {"end"}
    <3>1. "end" \in STRING
      BY DocumentAssumption, KnownWords
    <3> QED  BY <3>1 DEF ToSet
  <2>2. "end" \notin Fresh
    BY DocumentAssumption, KnownWords, EditorAssumption
  <2> HIDE DEF line
  <2>3. line \in CleanLines
    BY <2>1, <2>2 DEF CleanLines
  <2> QED  BY <2>3 DEF line
<1> QED  BY <1>1, <1>2

LEMMA CleanBefore ==
  ASSUME EditorInv, ~Renamed, NEW u \in Uris
  PROVE  Text(u) \in Seq(CleanLines)
<1>1. CASE u \in Indexed
  <2>1. Texted(Text(u)) /\ ~FreshIn(Text(u))
    BY <1>1, IndexedTyped, NotRenamed
  <2> QED  BY <2>1, CleanTexts
<1>2. CASE u \notin Indexed
  BY <1>2, EmptySeq DEF Text
<1> QED  BY <1>1, <1>2

\* What the user types does not bring a new name.
LEMMA UpdateClean ==
  ASSUME EditorInv, ~Renamed, NEW u \in Uris, NEW text \in Seq(CleanLines), Update(u, text)
  PROVE  ~Renamed'
<1>1. ASSUME NEW v \in Indexed', FreshIn(Text(v)')  PROVE FALSE
  <2>1. Text(v)' = documents'[v].text
    BY DEF Text
  <2>2. v \in Uris /\ documents'[v] # NoDoc
    BY DEF Indexed
  <2>3. documents' = [documents EXCEPT ![u] = Index(text, supportModulePattern)] /\ DOMAIN documents = Uris
    BY DEF Update, EditorInv
  <2>4. CASE v = u
    <3>1. Text(v)' = text
      BY <2>1, <2>2, <2>3, <2>4 DEF Index
    <3>2. Texted(text)
      <4>1. CleanLines \subseteq Seq(STRING)
        BY DEF CleanLines
      <4> DEFINE T == Seq(STRING)
      <4>2. CleanLines \subseteq T
        BY <4>1
      <4> HIDE DEF T
      <4>3. text \in Seq(T)
        BY <4>2, WiderSeq
      <4> QED  BY <4>3 DEF T, Texted
    <3>3. ~FreshIn(text)
      BY <3>2, CleanTexts
    <3> QED  BY <1>1, <3>1, <3>3
  <2>5. CASE v # u
    <3>1. documents'[v] = documents[v]
      BY <2>2, <2>3, <2>5
    <3>2. v \in Indexed /\ Text(v) = documents[v].text
      BY <2>2, <3>1 DEF Indexed, Text
    <3>3. ~FreshIn(Text(v))
      BY <3>2, RenamedIs
    <3> QED  BY <1>1, <2>1, <3>1, <3>2, <3>3
  <2> QED  BY <2>4, <2>5
<1> SUFFICES ASSUME Renamed'  PROVE FALSE
  OBVIOUS
<1>2. PICK v \in Indexed' : \E q \in Positions(Text(v)') : Text(v)'[q[1]][q[2]] \in Fresh
  BY DEF Renamed
<1> QED  BY <1>1, <1>2 DEF FreshIn

LEMMA TypeClean ==
  ASSUME EditorInv, NEW u \in Uris, Type(u)
  PROVE  ~Renamed'
<1>1. ~Renamed
  BY DEF Type
<1>2. PICK line \in Lines, k \in 1 .. Len(Text(u)) + 1 : Update(u, InsertAt(Text(u), k, line))
  BY DEF Type
<1>3. line \in CleanLines /\ Text(u) \in Seq(CleanLines)
  BY <1>1, CleanTyped, CleanBefore
<1>4. InsertAt(Text(u), k, line) \in Seq(CleanLines)
  BY <1>3, InsertedTyped
<1> QED  BY <1>1, <1>2, <1>4, UpdateClean

LEMMA WrapClean ==
  ASSUME EditorInv, NEW u \in Uris, Wrap(u)
  PROVE  ~Renamed'
<1> DEFINE text == Text(u)
           Wrapped(opener, k, m) ==
             SubSeq(text, 1, k - 1) \o <<opener>> \o SubSeq(text, k, m)
               \o << <<"end">> >> \o SubSeq(text, m + 1, Len(text))
<1>1. ~Renamed
  BY DEF Wrap
<1>2. PICK opener \in Openers, k \in 1 .. Len(text) + 1 :
        \E m \in k - 1 .. Len(text) : Update(u, Wrapped(opener, k, m))
  BY DEF Wrap
<1>3. PICK m \in k - 1 .. Len(text) : Update(u, Wrapped(opener, k, m))
  BY <1>2
<1>4. opener \in CleanLines /\ <<"end">> \in CleanLines /\ text \in Seq(CleanLines)
  BY <1>1, CleanTyped, CleanBefore
<1>5. Wrapped(opener, k, m) \in Seq(CleanLines)
  <2> DEFINE a == <<"end">>
  <2>1. a \in CleanLines
    BY <1>4
  <2> HIDE DEF text, a
  <2>2. SubSeq(text, 1, k - 1) \o <<opener>> \o SubSeq(text, k, m) \o <<a>> \o SubSeq(text, m + 1, Len(text))
          \in Seq(CleanLines)
    BY <1>4, <2>1, WrappedTyped
  <2> QED  BY <2>2 DEF a
<1> HIDE DEF Wrapped
<1> QED  BY <1>1, <1>3, <1>5, UpdateClean

LEMMA StillClean ==
  ASSUME ~Renamed, \A v \in Indexed' : v \in Indexed /\ Text(v)' = Text(v)
  PROVE  ~Renamed'
<1> SUFFICES ASSUME Renamed'  PROVE FALSE
  OBVIOUS
<1>1. PICK v \in Indexed' : \E q \in Positions(Text(v)') : Text(v)'[q[1]][q[2]] \in Fresh
  BY DEF Renamed
<1> QED  BY <1>1 DEF Renamed

LEMMA OthersClean ==
  ASSUME EditorInv, ~Renamed, (\E u \in Uris : Close(u)) \/ Configure \/ UNCHANGED vars
  PROVE  ~Renamed'
<1>1. \A v \in Indexed' : v \in Indexed /\ Text(v)' = Text(v)
  <2>1. ASSUME NEW u \in Uris, Close(u)
        PROVE  \A v \in Indexed' : v \in Indexed /\ Text(v)' = Text(v)
    BY <2>1 DEF Close, EditorInv, Indexed, Text
  <2>2. ASSUME UNCHANGED documents
        PROVE  \A v \in Indexed' : v \in Indexed /\ Text(v)' = Text(v)
    BY <2>2 DEF Indexed, Text
  <2> QED  BY <2>1, <2>2 DEF Configure, vars
<1> QED  BY <1>1, StillClean

-------------------------------------------------------------------------------
(* Parentheses and commas                                                  *)

\* How many more parentheses open than close between two columns.
Opened(line, from, to) == NumberOf(line, "(", from, to) - NumberOf(line, ")", from, to)

LEMMA NumberParts ==
  ASSUME NEW line, NEW word, NEW from \in Int, NEW m \in Int, NEW to \in Int, from <= m + 1, m <= to
  PROVE  /\ NumberOf(line, word, from, m) \in Nat /\ NumberOf(line, word, m + 1, to) \in Nat
         /\ NumberOf(line, word, from, to) = NumberOf(line, word, from, m) + NumberOf(line, word, m + 1, to)
<1> DEFINE Of(a, b) == {k \in a .. b : line[k] = word}
<1>1. ASSUME NEW a \in Int, NEW b \in Int
      PROVE  IsFiniteSet(Of(a, b)) /\ Cardinality(Of(a, b)) \in Nat
  <2>1. IsFiniteSet(a .. b) /\ Of(a, b) \subseteq a .. b
    BY FS_Interval
  <2> HIDE DEF Of
  <2>2. IsFiniteSet(Of(a, b))
    BY <2>1, FS_Subset
  <2> QED  BY <2>2, FS_CardinalityType
<1>2. Of(from, to) = Of(from, m) \cup Of(m + 1, to) /\ Of(from, m) \cap Of(m + 1, to) = {}
  OBVIOUS
<1>3. \A a, b : NumberOf(line, word, a, b) = Cardinality(Of(a, b))
  BY DEF NumberOf
<1> HIDE DEF Of
<1>4. m + 1 \in Int
  OBVIOUS
<1>5. Cardinality(Of(from, to)) = Cardinality(Of(from, m)) + Cardinality(Of(m + 1, to)) - Cardinality({})
  BY <1>1, <1>2, <1>4, FS_Union
<1> QED  BY <1>1, <1>3, <1>4, <1>5, FS_EmptySet

LEMMA NumberOne ==
  ASSUME NEW line, NEW word, NEW k \in Int
  PROVE  NumberOf(line, word, k, k) = IF line[k] = word THEN 1 ELSE 0
<1>1. k .. k = {k}
  OBVIOUS
<1>2. CASE line[k] = word
  <2>1. {c \in k .. k : line[c] = word} = {k}
    BY <1>1, <1>2
  <2> QED  BY <1>2, <2>1, FS_Singleton DEF NumberOf
<1>3. CASE line[k] # word
  <2>1. {c \in k .. k : line[c] = word} = {}
    BY <1>1, <1>3
  <2> QED  BY <1>3, <2>1, FS_EmptySet DEF NumberOf
<1> QED  BY <1>2, <1>3

LEMMA NumberNone ==
  ASSUME NEW line, NEW word, NEW from \in Int
  PROVE  NumberOf(line, word, from, from - 1) = 0
<1>1. {c \in from .. from - 1 : line[c] = word} = {}
  OBVIOUS
<1> QED  BY <1>1, FS_EmptySet DEF NumberOf

LEMMA OpenedParts ==
  ASSUME NEW line, NEW from \in Int, NEW m \in Int, NEW to \in Int, from <= m + 1, m <= to
  PROVE  /\ Opened(line, from, m) \in Int /\ Opened(line, m + 1, to) \in Int
         /\ Opened(line, from, to) = Opened(line, from, m) + Opened(line, m + 1, to)
<1>1. /\ NumberOf(line, "(", from, m) \in Nat /\ NumberOf(line, "(", m + 1, to) \in Nat
      /\ NumberOf(line, "(", from, to) = NumberOf(line, "(", from, m) + NumberOf(line, "(", m + 1, to)
  BY NumberParts
<1>2. /\ NumberOf(line, ")", from, m) \in Nat /\ NumberOf(line, ")", m + 1, to) \in Nat
      /\ NumberOf(line, ")", from, to) = NumberOf(line, ")", from, m) + NumberOf(line, ")", m + 1, to)
  BY NumberParts
<1> QED  BY <1>1, <1>2 DEF Opened

LEMMA OpenedOne ==
  ASSUME NEW line, NEW k \in Int
  PROVE  /\ line[k] = "(" => Opened(line, k, k) = 1
         /\ line[k] = ")" => Opened(line, k, k) = -1
         /\ line[k] # "(" /\ line[k] # ")" => Opened(line, k, k) = 0
BY NumberOne DEF Opened

LEMMA OpenedNone ==
  ASSUME NEW line, NEW k \in Int
  PROVE  Opened(line, k, k - 1) = 0
BY NumberNone DEF Opened

LEMMA LevelIs ==
  ASSUME NEW line, NEW from \in Int, NEW to \in Int, from <= to + 1
  PROVE  Level(line, from, to) <=> Opened(line, from, to) = 0
<1>1. NumberOf(line, "(", from, to) \in Nat /\ NumberOf(line, ")", from, to) \in Nat
  BY NumberParts
<1> QED  BY <1>1 DEF Level, Opened

\* From a parenthesis to column k, no other closes that did not open.
Within(line, paren, k) == \A m \in paren .. k : Opened(line, paren + 1, m) \in Nat
Semicolon(line, paren, k) == \E x \in paren + 1 .. k : line[x] = ";"

\* The parenthesis around a place of the same level is the one found there, unless
\* a semicolon ends the walk.
LEMMA ParenthesisFound ==
  ASSUME NEW line, NEW paren \in Nat \ {0}, NEW k \in Nat, paren <= k, line[paren] = "(",
         Within(line, paren, k), Level(line, paren + 1, k)
  PROVE  OpenParenthesis(line, k + 1) = IF Semicolon(line, paren, k) THEN 0 ELSE paren
<1> DEFINE opening == {m \in 1 .. (k + 1) - 1 :
                         /\ line[m] = "(" /\ Level(line, m + 1, (k + 1) - 1)
                         /\ \A x \in m + 1 .. (k + 1) - 1 : line[x] # ";"}
           Clear(m) == \A x \in m + 1 .. k : line[x] # ";"
<1>1. opening = {m \in 1 .. k : line[m] = "(" /\ Level(line, m + 1, k) /\ Clear(m)}
  <2>1. (k + 1) - 1 = k
    OBVIOUS
  <2> QED  BY Zenon, <2>1
<1>2. OpenParenthesis(line, k + 1) =
        IF opening = {} THEN 0 ELSE CHOOSE m \in opening : \A q \in opening : q <= m
  BY Zenon DEF OpenParenthesis
<1> HIDE DEF opening, Clear
<1>3. ASSUME NEW m \in opening  PROVE m <= paren
  <2> SUFFICES ASSUME m > paren PROVE FALSE
    BY <1>1
  <2>1. m \in 1 .. k /\ line[m] = "(" /\ Level(line, m + 1, k)
    BY <1>1
  <2> DEFINE a == Opened(line, paren + 1, m - 1)
             b == Opened(line, m, m)
             c == Opened(line, m + 1, k)
  <2>2. Opened(line, paren + 1, k) = Opened(line, paren + 1, m - 1) + Opened(line, (m - 1) + 1, k)
    <3>1. paren + 1 \in Int /\ m - 1 \in Int /\ k \in Int /\ paren + 1 <= (m - 1) + 1 /\ m - 1 <= k
      BY <2>1
    <3> QED  BY <3>1, OpenedParts
  <2>3. Opened(line, m, k) = b + c
    <3>1. m \in Int /\ k \in Int /\ m <= m + 1 /\ m <= k
      BY <2>1
    <3> QED  BY <3>1, OpenedParts
  <2>4. a \in Nat
    <3>1. m - 1 \in paren .. k
      BY <2>1
    <3> QED  BY <3>1 DEF Within
  <2>5. b = 1 /\ c = 0 /\ Opened(line, paren + 1, k) = 0
    <3>1. m + 1 \in Int /\ k \in Int /\ m + 1 <= k + 1 /\ paren + 1 \in Int /\ paren + 1 <= k + 1 /\ m \in Int
      BY <2>1
    <3> QED  BY <2>1, <3>1, LevelIs, OpenedOne
  <2>6. (m - 1) + 1 = m
    BY <2>1
  <2> HIDE DEF a, b, c
  <2>7. Opened(line, paren + 1, k) = a + (b + c)
    BY <2>2, <2>3, <2>6 DEF a
  <2> QED  BY <2>4, <2>5, <2>7
<1>4. CASE Semicolon(line, paren, k)
  <2>1. PICK x \in paren + 1 .. k : line[x] = ";"
    BY <1>4 DEF Semicolon
  <2>2. opening = {}
    <3> SUFFICES ASSUME NEW m \in opening PROVE FALSE
      OBVIOUS
    <3>1. m \in 1 .. k /\ m <= paren /\ Clear(m)
      BY <1>1, <1>3
    <3>2. x \in m + 1 .. k
      BY <3>1
    <3>3. line[x] # ";"
      BY Zenon, <3>1, <3>2 DEF Clear
    <3> QED  BY Zenon, <2>1, <3>3
  <2> QED  BY <1>2, <1>4, <2>2
<1>5. CASE ~Semicolon(line, paren, k)
  <2>1. paren \in opening
    <3>1. Clear(paren)
      BY Zenon, <1>5 DEF Semicolon, Clear
    <3>2. paren \in 1 .. k
      OBVIOUS
    <3> QED  BY Zenon, <1>1, <3>1, <3>2
  <2>2. \A m, q \in opening : m <= q /\ q <= m => m = q
    BY <1>1
  <2> DEFINE best == CHOOSE m \in opening : \A q \in opening : q <= m
  <2>3. best \in opening /\ \A q \in opening : q <= best
    BY <1>3, <2>1
  <2> HIDE DEF best
  <2>4. best = paren
    BY <1>3, <2>1, <2>2, <2>3
  <2> QED  BY <1>2, <1>5, <2>1, <2>4 DEF best
<1> QED  BY <1>4, <1>5

\* One word further, if it is no parenthesis.
LEMMA OneFurther ==
  ASSUME NEW line, NEW paren \in Nat, NEW k \in Nat, paren <= k,
         line[k + 1] # "(", line[k + 1] # ")"
  PROVE  /\ Level(line, paren + 1, k + 1) <=> Level(line, paren + 1, k)
         /\ Within(line, paren, k + 1) <=> Within(line, paren, k)
<1> DEFINE a == Opened(line, paren + 1, k)
           b == Opened(line, k + 1, k + 1)
           c == Opened(line, paren + 1, k + 1)
<1>1. /\ paren + 1 \in Int /\ k \in Int /\ k + 1 \in Int /\ paren + 1 <= k + 1 /\ k <= k + 1
      /\ paren + 1 <= (k + 1) + 1
  OBVIOUS
<1>2. a \in Int /\ c = a + b
  BY <1>1, OpenedParts
<1>3. b = 0
  BY <1>1, OpenedOne
<1>4. /\ Level(line, paren + 1, k + 1) <=> c = 0
      /\ Level(line, paren + 1, k) <=> a = 0
  BY <1>1, LevelIs
<1> HIDE DEF a, b, c
<1>5. a = c
  BY <1>2, <1>3
<1>6. Within(line, paren, k + 1) <=> Within(line, paren, k)
  <2>1. ASSUME NEW m \in paren .. k + 1  PROVE m \in paren .. k \/ m = k + 1
    OBVIOUS
  <2>2. k \in paren .. k /\ paren .. k \subseteq paren .. k + 1
    OBVIOUS
  <2>3. c \in Nat <=> a \in Nat
    BY <1>5
  <2> QED  BY <2>1, <2>2, <2>3 DEF Within, a, c
<1> QED  BY <1>4, <1>5, <1>6

CommaAt(line, k) == line[k] = ","

LEMMA CommaIs ==
  ASSUME NEW line, NEW k, CommaAt(line, k)
  PROVE  line[k] # "(" /\ line[k] # ")"
BY Zenon DEF CommaAt

\* The commas of a call: counted from the cursor back or from the parenthesis on.
LEMMA SameCommas ==
  ASSUME NEW line, NEW paren \in Nat, NEW k \in Nat, paren <= k, Level(line, paren + 1, k)
  PROVE  Commas(line, paren, k + 1) =
           {m \in paren + 1 .. k : CommaAt(line, m) /\ Level(line, paren + 1, m - 1)}
<1>1. Commas(line, paren, k + 1) = {m \in paren + 1 .. k : CommaAt(line, m) /\ Level(line, m + 1, k)}
  <2>1. (k + 1) - 1 = k
    OBVIOUS
  <2> QED  BY Zenon, <2>1 DEF Commas, CommaAt
<1>2. ASSUME NEW m \in paren + 1 .. k, CommaAt(line, m)
      PROVE  Level(line, m + 1, k) <=> Level(line, paren + 1, m - 1)
  <2> DEFINE a == Opened(line, paren + 1, m - 1)
             b == Opened(line, m, m)
             c == Opened(line, m + 1, k)
  <2>1. /\ a \in Int /\ Opened(line, (m - 1) + 1, k) \in Int
        /\ Opened(line, paren + 1, k) = a + Opened(line, (m - 1) + 1, k)
    <3>1. paren + 1 \in Int /\ m - 1 \in Int /\ k \in Int /\ paren + 1 <= (m - 1) + 1 /\ m - 1 <= k
      OBVIOUS
    <3> QED  BY <3>1, OpenedParts
  <2>2. /\ b \in Int /\ c \in Int /\ Opened(line, m, k) = b + c
    <3>1. m \in Int /\ k \in Int /\ m <= m + 1 /\ m <= k
      OBVIOUS
    <3> QED  BY <3>1, OpenedParts
  <2>3. b = 0
    <3>1. line[m] # "(" /\ line[m] # ")"
      BY <1>2, CommaIs
    <3> QED  BY <3>1, OpenedOne
  <2>4. /\ Level(line, m + 1, k) <=> c = 0
        /\ Level(line, paren + 1, m - 1) <=> a = 0
        /\ Opened(line, paren + 1, k) = 0
    <3>1. /\ m + 1 \in Int /\ k \in Int /\ m + 1 <= k + 1 /\ paren + 1 \in Int /\ paren + 1 <= k + 1
          /\ m - 1 \in Int /\ paren + 1 <= (m - 1) + 1
      OBVIOUS
    <3> QED  BY <3>1, LevelIs
  <2>5. (m - 1) + 1 = m
    OBVIOUS
  <2> HIDE DEF a, b, c
  <2> QED  BY <2>1, <2>2, <2>3, <2>4, <2>5
<1> QED  BY <1>1, <1>2

\* Where a call's brackets are in order, the commas signature help counts up to column
\* k are those between its arguments and those enclosed.
CommasUpTo(line, paren, k) ==
  {m \in paren + 1 .. k : CommaAt(line, m) /\ Level(line, paren + 1, m - 1)}
SeparatorsUpTo(line, paren, k) == {m \in Separators(line, paren) : m <= k}

\* Column k of the call: its parenthesis, or a comma between its arguments.
Starts(line, paren, k) == k = paren \/ k \in Separators(line, paren)

LEMMA NestedLevel ==
  ASSUME NEW line, NEW paren \in Nat \ {0}, NEW k \in Nat, paren <= k, WellNested(line, paren, k + 1),
         NEW m \in paren + 1 .. k
  PROVE  /\ Opened(line, paren + 1, m - 1) \in Nat
         /\ Nest(line, paren + 1, m - 1) = 0 => Level(line, paren + 1, m - 1)
         /\ Nest(line, paren + 1, m - 1) \in Nat
<1>1. /\ m - 1 \in Int /\ paren + 1 \in Int /\ paren + 1 <= (m - 1) + 1
  OBVIOUS
<1>2. Level(line, paren + 1, m - 1) <=> Opened(line, paren + 1, m - 1) = 0
  BY <1>1, LevelIs
<1>3. CASE m = paren + 1
  <2>1. m - 1 = (paren + 1) - 1 /\ m - 1 = paren
    BY <1>3
  <2>2. Opened(line, paren + 1, (paren + 1) - 1) = 0
    BY OpenedNone
  <2>3. Nest(line, paren + 1, m - 1) = 0
    <3> DEFINE Outside(words) == {x \in paren + 1 .. paren : line[x] \in words /\ ~InString(line, x)}
    <3>1. \A words : Outside(words) = {}
      OBVIOUS
    <3>2. \A words : NumberOutside(line, words, paren + 1, paren) = 0
      BY <3>1, FS_EmptySet DEF NumberOutside
    <3> DEFINE opened == NumberOutside(line, {"(", "{", "["}, paren + 1, paren)
               closed == NumberOutside(line, {")", "}", "]"}, paren + 1, paren)
    <3>3. opened = 0 /\ closed = 0 /\ Nest(line, paren + 1, paren) = opened - closed
      BY Zenon, <3>2 DEF Nest
    <3> HIDE DEF opened, closed
    <3>4. Nest(line, paren + 1, paren) = 0
      BY <3>3
    <3> QED  BY <2>1, <3>4
  <2> QED  BY <1>2, <2>1, <2>2, <2>3
<1>4. CASE m # paren + 1
  <2>1. m - 1 \in paren + 1 .. (k + 1) - 1
    BY <1>4
  <2>2. Opened(line, paren + 1, m - 1) \in 0 .. Nest(line, paren + 1, m - 1)
    BY <2>1 DEF WellNested, Opened
  <2>3. Nest(line, paren + 1, m - 1) \in Int
    <3> DEFINE low == paren + 1
               top == m - 1
    <3>1. ASSUME NEW words PROVE NumberOutside(line, words, low, top) \in Nat
      <4> DEFINE T == {x \in low .. top : line[x] \in words /\ ~InString(line, x)}
      <4>1. IsFiniteSet(low .. top) /\ T \subseteq low .. top
        <5>1. low \in Int /\ top \in Int
          OBVIOUS
        <5> HIDE DEF low, top
        <5>2. IsFiniteSet(low .. top)
          BY <5>1, FS_Interval
        <5> QED  BY <5>2
      <4> HIDE DEF T, low, top
      <4>2. IsFiniteSet(T)
        BY <4>1, FS_Subset
      <4> QED  BY <4>2, FS_CardinalityType DEF NumberOutside, T
    <3> HIDE DEF low, top
    <3> DEFINE opened == NumberOutside(line, {"(", "{", "["}, low, top)
               closed == NumberOutside(line, {")", "}", "]"}, low, top)
    <3>2. Nest(line, low, top) \in Int
      <4>1. opened \in Nat /\ closed \in Nat /\ Nest(line, low, top) = opened - closed
        BY Zenon, <3>1 DEF Nest
      <4> HIDE DEF opened, closed
      <4> QED  BY <4>1
    <3> QED  BY <3>2 DEF low, top
  <2> QED  BY <1>2, <2>2, <2>3
<1> QED  BY <1>3, <1>4

LEMMA CommasSplit ==
  ASSUME NEW line, Len(line) \in Nat, NEW paren \in Nat \ {0}, NEW k \in Nat, paren <= k,
         WellNested(line, paren, k + 1), Starts(line, paren, k)
  PROVE  /\ CommasUpTo(line, paren, k) =
              SeparatorsUpTo(line, paren, k) \cup Enclosed(line, paren, k + 1)
         /\ SeparatorsUpTo(line, paren, k) \cap Enclosed(line, paren, k + 1) = {}
<1> DEFINE Outermost(m) == ~InString(line, m) /\ Nest(line, paren + 1, m - 1) = 0
           Ends(m) == line[m] \in {")", "}", "]"} /\ Outermost(m)
           E == Enclosed(line, paren, k + 1)
           S == SeparatorsUpTo(line, paren, k)
           C == CommasUpTo(line, paren, k)
<1>1. Separators(line, paren) =
        {m \in paren + 1 .. Len(line) :
           CommaAt(line, m) /\ Outermost(m) /\ \A x \in paren + 1 .. m : ~Ends(x)}
  BY Zenon DEF Separators, CommaAt
<1>2. E = {m \in paren + 1 .. k : /\ CommaAt(line, m) /\ Level(line, paren + 1, m - 1)
                                  /\ InString(line, m) \/ Nest(line, paren + 1, m - 1) > 0}
  <2>1. (k + 1) - 1 = k
    OBVIOUS
  <2> QED  BY Zenon, <2>1 DEF Enclosed, CommaAt
<1>3. C = {m \in paren + 1 .. k : CommaAt(line, m) /\ Level(line, paren + 1, m - 1)}
  BY DEF CommasUpTo
<1>4. \A m \in paren + 1 .. k : /\ Nest(line, paren + 1, m - 1) = 0 => Level(line, paren + 1, m - 1)
                                /\ Nest(line, paren + 1, m - 1) \in Nat
  BY NestedLevel
<1>5. S = {m \in paren + 1 .. k : CommaAt(line, m) /\ Outermost(m)}
  <2>1. CASE k = paren
    <3>1. paren + 1 .. k = {}
      BY <2>1
    <3>2. S = {}
      <4> HIDE DEF Outermost, Ends
      <4> QED  BY <1>1, <2>1 DEF SeparatorsUpTo
    <3> QED  BY <3>1, <3>2
  <2>2. CASE k \in Separators(line, paren)
    <3> HIDE DEF Outermost, Ends
    <3>1. k \in paren + 1 .. Len(line) /\ \A x \in paren + 1 .. k : ~Ends(x)
      BY <1>1, <2>2
    <3>2. ASSUME NEW m \in paren + 1 .. k
          PROVE  m \in paren + 1 .. Len(line) /\ \A x \in paren + 1 .. m : ~Ends(x)
      BY <3>1
    <3>3. \A m \in paren + 1 .. Len(line) : m <= k => m \in paren + 1 .. k
      OBVIOUS
    <3>4. \A m \in paren + 1 .. k : m <= k
      OBVIOUS
    <3> QED  BY <1>1, <3>2, <3>3, <3>4 DEF SeparatorsUpTo
  <2> QED  BY <2>1, <2>2 DEF Starts
<1> HIDE DEF E, S, C
<1>6. S \cap E = {}
  <2> SUFFICES ASSUME NEW m \in S, m \in E PROVE FALSE
    OBVIOUS
  <2>1. ~InString(line, m) /\ Nest(line, paren + 1, m - 1) = 0
    BY <1>5
  <2>2. Nest(line, paren + 1, m - 1) > 0
    BY <1>2, <2>1
  <2> QED  BY <2>1, <2>2
<1>7. C \subseteq S \cup E
  <2> SUFFICES ASSUME NEW m \in C, m \notin E PROVE m \in S
    OBVIOUS
  <2>1. m \in paren + 1 .. k /\ CommaAt(line, m) /\ Level(line, paren + 1, m - 1)
    BY <1>3
  <2>2. ~InString(line, m) /\ ~(Nest(line, paren + 1, m - 1) > 0)
    BY <1>2, <2>1
  <2>3. Nest(line, paren + 1, m - 1) = 0
    <3> DEFINE nest == Nest(line, paren + 1, m - 1)
    <3>1. nest \in Nat /\ ~(nest > 0)
      BY <1>4, <2>1, <2>2
    <3> HIDE DEF nest
    <3>2. nest = 0
      BY <3>1
    <3> QED  BY <3>2 DEF nest
  <2> QED  BY <1>5, <2>1, <2>2, <2>3
<1>8. S \subseteq C
  <2> SUFFICES ASSUME NEW m \in S PROVE m \in C
    OBVIOUS
  <2>1. m \in paren + 1 .. k /\ CommaAt(line, m) /\ Nest(line, paren + 1, m - 1) = 0
    BY <1>5
  <2> QED  BY <1>3, <1>4, <2>1
<1>9. E \subseteq C
  BY Zenon, <1>2, <1>3
<1>10. C = S \cup E
  BY Zenon, <1>7, <1>8, <1>9
<1> QED  BY <1>6, <1>10 DEF C, S, E

\* What a hint names, and what signature help finds and counts up to column c, from
\* where it has the words before the hint, and the name behind it at most.
HintFits(hint, line, paren, params, c) ==
  /\ OpenParenthesis(line, c) = IF Semicolon(line, paren, hint.column - 1) THEN 0 ELSE paren
  /\ Cardinality(Enclosed(line, paren, hint.column)) \in Nat
  /\ \E n \in 1 .. Len(params) :
       /\ hint.label = params[n]
       /\ Cardinality(Commas(line, paren, c)) = (n - 1) + Cardinality(Enclosed(line, paren, hint.column))

\* The word at column c is neither parenthesis, comma nor semicolon.
Passive(line, c) == line[c] \notin {"(", ")", ",", ";"}

LEMMA HintPlace ==
  ASSUME NEW line, Len(line) \in Nat, NEW paren \in Nat \ {0}, NEW k \in Nat, paren <= k, line[paren] = "(",
         WellNested(line, paren, k + 1), Starts(line, paren, k), NEW params, Len(params) \in Nat,
         Cardinality(SeparatorsUpTo(line, paren, k)) < Len(params),
         NEW hint, hint.column = k + 1,
         hint.label = params[Cardinality(SeparatorsUpTo(line, paren, k)) + 1],
         NEW c, c = k + 1 \/ (c = k + 2 /\ Passive(line, k + 1))
  PROVE  HintFits(hint, line, paren, params, c)
<1> DEFINE S == SeparatorsUpTo(line, paren, k)
           E == Enclosed(line, paren, k + 1)
           C == CommasUpTo(line, paren, k)
<1>0. paren \in Nat /\ k + 1 \in Nat
  OBVIOUS
<1>1. Within(line, paren, k) /\ Level(line, paren + 1, k)
  <2>1. ASSUME NEW m \in paren .. k - 1  PROVE Opened(line, paren + 1, m) \in Nat
    <3>1. m + 1 \in paren + 1 .. k /\ (m + 1) - 1 = m
      OBVIOUS
    <3> QED  BY <3>1, NestedLevel
  <2>2. Opened(line, paren + 1, k) = 0
    <3>1. CASE k = paren
      <4>1. Opened(line, paren + 1, (paren + 1) - 1) = 0 /\ (paren + 1) - 1 = k
        BY <3>1, OpenedNone
      <4> QED  BY <4>1
    <3>2. CASE k \in Separators(line, paren)
      <4>1. k \in paren + 1 .. k /\ CommaAt(line, k) /\ Nest(line, paren + 1, k - 1) = 0
        <5>1. k \in paren + 1 .. Len(line) /\ CommaAt(line, k) /\ Nest(line, paren + 1, k - 1) = 0
          BY Zenon, <3>2 DEF Separators, CommaAt
        <5> QED  BY <5>1
      <4>2. Level(line, paren + 1, k - 1)
        BY <4>1, NestedLevel
      <4>3. line[k] # "(" /\ line[k] # ")"
        BY <4>1, CommaIs
      <4> DEFINE b == Opened(line, k, k)
                 a == Opened(line, paren + 1, k - 1)
                 d == Opened(line, paren + 1, k)
      <4>4. /\ paren + 1 \in Int /\ k - 1 \in Int /\ k \in Int /\ paren + 1 <= (k - 1) + 1 /\ k - 1 <= k
            /\ (k - 1) + 1 = k
        BY <4>1
      <4>5. b = 0 /\ a = 0
        BY <4>2, <4>3, <4>4, OpenedOne, LevelIs
      <4>6. Opened(line, paren + 1, k) = Opened(line, paren + 1, k - 1) + Opened(line, (k - 1) + 1, k)
        BY <4>4, OpenedParts
      <4>7. d = a + b
        BY <4>4, <4>6
      <4> HIDE DEF a, b, d
      <4>8. d = 0
        BY <4>5, <4>7
      <4> QED  BY <4>8 DEF d
    <3> QED  BY <3>1, <3>2 DEF Starts
  <2>3. paren + 1 \in Int /\ k \in Int /\ paren + 1 <= k + 1
    OBVIOUS
  <2>4. ASSUME NEW m \in paren .. k  PROVE m \in paren .. k - 1 \/ m = k
    OBVIOUS
  <2> QED  BY <2>1, <2>2, <2>3, <2>4, LevelIs DEF Within
<1>2. OpenParenthesis(line, c) = IF Semicolon(line, paren, k) THEN 0 ELSE paren
  <2>1. CASE c = k + 1
    BY <1>1, <2>1, ParenthesisFound
  <2>2. CASE c = k + 2 /\ Passive(line, k + 1)
    <3>1. line[k + 1] # "(" /\ line[k + 1] # ")" /\ line[k + 1] # ";"
      BY <2>2 DEF Passive
    <3>2. Within(line, paren, k + 1) /\ Level(line, paren + 1, k + 1)
      BY <1>0, <1>1, <3>1, OneFurther
    <3>3. c = (k + 1) + 1 /\ paren <= k + 1
      BY <2>2
    <3>4. OpenParenthesis(line, (k + 1) + 1) = IF Semicolon(line, paren, k + 1) THEN 0 ELSE paren
      BY <1>0, <3>2, <3>3, ParenthesisFound
    <3>5. Semicolon(line, paren, k + 1) <=> Semicolon(line, paren, k)
      <4>1. \A x \in paren + 1 .. k + 1 : x = k + 1 \/ x \in paren + 1 .. k
        OBVIOUS
      <4>2. paren + 1 .. k \subseteq paren + 1 .. k + 1
        OBVIOUS
      <4> QED  BY <3>1, <4>1, <4>2 DEF Semicolon
    <3> QED  BY <3>3, <3>4, <3>5
  <2> QED  BY <2>1, <2>2
<1>3. Commas(line, paren, c) = C
  <2>1. CASE c = k + 1
    BY <1>0, <1>1, <2>1, SameCommas DEF CommasUpTo
  <2>2. CASE c = k + 2 /\ Passive(line, k + 1)
    <3>1. line[k + 1] # "(" /\ line[k + 1] # ")" /\ ~CommaAt(line, k + 1)
      BY <2>2 DEF Passive, CommaAt
    <3>2. Level(line, paren + 1, k + 1)
      BY <1>0, <1>1, <3>1, OneFurther
    <3>3. c = (k + 1) + 1 /\ paren <= k + 1
      BY <2>2
    <3>4. Commas(line, paren, (k + 1) + 1) =
            {m \in paren + 1 .. k + 1 : CommaAt(line, m) /\ Level(line, paren + 1, m - 1)}
      BY <1>0, <3>2, <3>3, SameCommas
    <3>5. \A m \in paren + 1 .. k + 1 : m = k + 1 \/ m \in paren + 1 .. k
      OBVIOUS
    <3>6. paren + 1 .. k \subseteq paren + 1 .. k + 1
      OBVIOUS
    <3> QED  BY <3>1, <3>3, <3>4, <3>5, <3>6 DEF CommasUpTo
  <2> QED  BY <2>1, <2>2
<1>4. C = S \cup E /\ S \cap E = {}
  BY CommasSplit
<1>5. IsFiniteSet(S) /\ IsFiniteSet(E) /\ Cardinality(S) \in Nat /\ Cardinality(E) \in Nat
  <2>1. IsFiniteSet(paren + 1 .. k)
    BY <1>0, FS_Interval
  <2>2. C \subseteq paren + 1 .. k
    BY Zenon DEF CommasUpTo
  <2> HIDE DEF S, E, C
  <2>3. S \subseteq paren + 1 .. k /\ E \subseteq paren + 1 .. k
    BY <1>4, <2>2
  <2>4. IsFiniteSet(S) /\ IsFiniteSet(E)
    BY <2>1, <2>3, FS_Subset
  <2> QED  BY <2>4, FS_CardinalityType
<1>6. Cardinality(C) = Cardinality(S) + Cardinality(E)
  <2> HIDE DEF S, E, C
  <2>1. Cardinality(S \cup E) = Cardinality(S) + Cardinality(E) - Cardinality(S \cap E)
    BY <1>5, FS_Union
  <2>2. Cardinality(S \cap E) = 0
    BY <1>4, FS_EmptySet
  <2> QED  BY <1>4, <1>5, <2>1, <2>2
<1> DEFINE n == Cardinality(S) + 1
<1>7. Cardinality(S) < Len(params) /\ hint.label = params[Cardinality(S) + 1]
  OBVIOUS
<1> HIDE DEF S, E, C
<1>8. n \in 1 .. Len(params) /\ hint.label = params[n] /\ n - 1 = Cardinality(S)
  BY <1>5, <1>7
<1> HIDE DEF n
<1>9. Cardinality(Commas(line, paren, c)) = (n - 1) + Cardinality(Enclosed(line, paren, hint.column))
  BY <1>3, <1>6, <1>8 DEF E
<1>10. Cardinality(Enclosed(line, paren, hint.column)) \in Nat /\ hint.column - 1 = k
  BY <1>5 DEF E
<1> QED  BY <1>2, <1>8, <1>9, <1>10 DEF HintFits

LEMMA HintIs ==
  ASSUME NEW line, Len(line) \in Nat, NEW paren \in 1 .. Len(line), line[paren] = "(",
         NEW params, Len(params) \in Nat \ {0}, NEW hint \in CallHints(line, paren, params),
         WellNested(line, paren, hint.column),
         NEW c, c = hint.column \/ (c = hint.column + 1 /\ Passive(line, hint.column))
  PROVE  HintFits(hint, line, paren, params, c) /\ hint.column \in Nat \ {0}
<1> DEFINE commas   == Separators(line, paren)
           index(k) == Cardinality({m \in commas : m <= k})
           starts   == {paren} \cup {k \in commas : index(k) < Len(params)}
<1>0. \E k \in starts : hint = [column |-> k + 1, label |-> Parameter(params, index(k))]
  BY Zenon DEF CallHints
<1>1. PICK k \in starts : hint = [column |-> k + 1, label |-> Parameter(params, index(k))]
  BY Zenon, <1>0
<1>2. k \in starts /\ hint.column = k + 1 /\ hint.label = params[index(k) + 1]
  <2> HIDE DEF starts, index
  <2>1. k \in starts
    OBVIOUS
  <2>2. hint.column = k + 1 /\ hint.label = Parameter(params, index(k))
    BY <1>1
  <2> QED  BY <2>1, <2>2 DEF Parameter
<1>3. commas \subseteq paren + 1 .. Len(line)
  BY Zenon DEF Separators
<1>4. index(k) = Cardinality(SeparatorsUpTo(line, paren, k))
  BY Zenon DEF SeparatorsUpTo
<1> HIDE DEF index
<1>5. CASE k = paren
  <2>1. SeparatorsUpTo(line, paren, k) = {}
    <3> HIDE DEF commas
    <3> QED  BY <1>3, <1>5 DEF SeparatorsUpTo, commas
  <2>2. index(k) = 0
    BY <1>4, <2>1, FS_EmptySet
  <2>3. k \in Nat /\ paren <= k /\ paren \in Nat \ {0} /\ index(k) < Len(params) /\ Starts(line, paren, k)
    BY <1>5, <2>2 DEF Starts
  <2> QED  BY <1>2, <1>4, <2>3, HintPlace
<1>6. CASE k # paren
  <2>1. k \in commas /\ index(k) < Len(params)
    BY <1>2, <1>6
  <2>2. k \in Nat /\ paren <= k /\ paren \in Nat \ {0} /\ Starts(line, paren, k)
    BY <1>3, <2>1 DEF Starts
  <2> QED  BY <1>2, <1>4, <2>1, <2>2, HintPlace
<1> QED  BY <1>5, <1>6

-------------------------------------------------------------------------------
(* The parameters near a function                                          *)

\* Behind a empty sequences the words of w, one each, and then empty ones again.
Block(seqs, n, a, w) ==
  \A k \in 1 .. n : /\ k \in a + 1 .. a + Len(w) => seqs[k] = <<w[k - a]>>
                    /\ k \notin a + 1 .. a + Len(w) => seqs[k] = <<>>

LEMMA FlattenBlock ==
  ASSUME NEW n \in Nat, NEW S, NEW w \in Seq(S), NEW a \in Nat, a + Len(w) <= n,
         NEW seqs \in [1 .. n -> Seq(S)],
         Block(seqs, n, a, w)
  PROVE  FlattenSeq(seqs) = w
<1> DEFINE b == Len(w)
           Upto(c) == IF c <= a THEN 0 ELSE IF c <= a + b THEN c - a ELSE b
<1>1. b \in Nat /\ a + b <= n
  BY LenProperties
<1>2. PICK f : Runs(f, seqs, n) /\ f[n] = FlattenSeq(seqs)
  BY FlattenRuns
<1>2a. \A c \in 0 .. n : f[c] \in Seq(S)
  BY <1>2, RunsTyped
<1> DEFINE T == {c \in 0 .. n : f[c] = SubSeq(w, 1, Upto(c))}
<1>3. 0 \in T
  <2>1. f[0] = <<>> /\ Upto(0) = 0 /\ SubSeq(w, 1, 0) = <<>>
    <3>1. SubSeq(w, 1, 0) = <<>>
      BY SubSeqEmpty
    <3> QED  BY <1>2, <3>1 DEF Runs
  <2> HIDE DEF Upto
  <2>2. f[0] = SubSeq(w, 1, Upto(0))
    BY Zenon, <2>1
  <2>3. 0 \in 0 .. n
    OBVIOUS
  <2> QED  BY Zenon, <2>2, <2>3
<1>4. ASSUME NEW c \in 1 .. n, c - 1 \in T  PROVE c \in T
  <2>1. f[c - 1] = SubSeq(w, 1, Upto(c - 1)) /\ f[c] = f[c - 1] \o seqs[c] /\ f[c - 1] \in Seq(S)
    <3>1. c - 1 \in 0 .. n
      OBVIOUS
    <3> HIDE DEF Upto
    <3> QED  BY <1>2, <1>2a, <1>4, <3>1 DEF Runs
  <2>2. CASE c \in a + 1 .. a + b
    <3> DEFINE m == c - a
    <3>1. m \in 1 .. b /\ Upto(c) = m /\ Upto(c - 1) = m - 1 /\ seqs[c] = <<w[m]>>
      BY <1>1, <2>2 DEF Block
    <3> HIDE DEF m, Upto
    <3>2. SubSeq(w, 1, m) = SubSeq(w, 1, m - 1) \o <<w[m]>>
      <4>1. m \in Nat /\ 1 <= m /\ m <= Len(w)
        BY <1>1, <3>1
      <4> QED  BY SMTT(30), <3>1, <4>1, SubSeqRecursiveSecond
    <3>3. f[c] = SubSeq(w, 1, Upto(c))
      BY Zenon, <2>1, <3>1, <3>2
    <3>4. c \in 0 .. n
      OBVIOUS
    <3> QED  BY <3>3, <3>4
  <2>3. CASE c \notin a + 1 .. a + b
    <3>1. Upto(c) = Upto(c - 1) /\ seqs[c] = <<>>
      BY <1>1, <2>3 DEF Block
    <3> HIDE DEF Upto
    <3>2. f[c] = f[c - 1]
      BY <2>1, <3>1, AddedNothing
    <3>3. c \in 0 .. n
      OBVIOUS
    <3> QED  BY <2>1, <3>1, <3>2, <3>3
  <2> QED  BY <2>2, <2>3
<1> HIDE DEF T
<1>5. \A c \in 0 .. n : c \in T
  BY <1>3, <1>4, UpTo
<1>6. f[n] = SubSeq(w, 1, Upto(n))
  BY <1>5 DEF T
<1>7. Upto(n) = b
  <2> HIDE DEF b
  <2>1. CASE n <= a
    BY <1>1, <2>1
  <2>2. CASE ~(n <= a)
    <3>1. n <= a + b => n - a = b
      BY <1>1
    <3> QED  BY Zenon, <2>2, <3>1
  <2> QED  BY <2>1, <2>2
<1> HIDE DEF Upto
<1>8. SubSeq(w, 1, b) = w
  BY SubSeqFull
<1> QED  BY Zenon, <1>2, <1>6, <1>7, <1>8

\* A symbol of a document, the line it belongs to, and what it may be there.
LEMMA SymbolOfLine ==
  ASSUME NEW d, GoodDoc(d), NEW m \in 1 .. Len(d.symbols)
  PROVE  \E i \in DOMAIN d.text :
           d.symbols[m].start[1] = i /\ KindFits(d.symbols[m], d.text[i])
<1> DEFINE s == d.symbols[m]
           text == d.text
           module == d.moduleName
<1>1. Statements(text) /\ s \in ToSet(AnalyzeScope(text, module))
  BY GoodDocIs DEF GoodDoc
<1>2. PICK i \in DOMAIN text : SymbolAt(text, module, i, s) /\ KindFits(s, text[i])
  <2> HIDE DEF s, text, module
  <2> QED  BY <1>1, ScopeFielded
<1>3. s.start[1] = i
  <2>1. s.start = <<i, s.start[2]>>
    BY Zenon, <1>2 DEF SymbolAt
  <2> HIDE DEF s
  <2> QED  BY <2>1
<1> QED  BY <1>2, <1>3

\* The symbols of a function statement among those of the document: off others,
\* the function in one or two forms, and its parameters.
FunctionStands(all, off, h, j, line) ==
  LET w == Parameters(line)
  IN /\ off \in Nat /\ h \in {1, 2} /\ off + h + Len(w) \in 1 .. Len(all)
     /\ \A m \in off + 1 .. off + h : /\ all[m].scope \in {"global", "local"}
                                      /\ all[m].isFunction = TRUE /\ all[m].start[1] = j
     /\ all[off + 1].name = <<FunctionName(line)>>
     /\ \A k \in 1 .. Len(w) : /\ all[off + h + k].name = <<w[k]>>
                               /\ all[off + h + k].scope = "parameter"
                               /\ all[off + h + k].start[1] = j
     /\ \A m \in 1 .. Len(all) : all[m].start[1] = j => m \in off + 1 .. off + h + Len(w)

LEMMA FunctionsStand ==
  ASSUME NEW d, GoodDoc(d), NEW j \in DOMAIN d.text, IsFunction(d.text[j])
  PROVE  \E off, h : FunctionStands(d.symbols, off, h, j, d.text[j])
<1> DEFINE text == d.text
           all == d.symbols
           w == Parameters(text[j])
           L == LineSymbols(text, j, d.moduleName)
           m == IF ModuleLine(text) < j THEN d.moduleName ELSE NoName
<1>1. /\ Statements(text) /\ Texted(text) /\ Statement(text[j]) /\ Len(all) \in Nat
      /\ all = AnalyzeScope(text, d.moduleName)
  BY GoodDocIs DEF GoodDoc, Statements
<1>2. PICK off : LineStands(all, L, j, off)
  BY <1>1, SymbolsOfLine
<1>3. PICK col : NameColumns(col, text[j], Column(text[j], "("), Column(text[j], ")"), w)
  BY <1>1, ParameterColumns
<1>4. L = FunctionSymbols(text, j, m)
  BY DEF LineSymbols
<1>5. Len(w) \in Nat
  BY <1>3 DEF NameColumns
<1> HIDE DEF m, L, w, all
<1>6. PICK h, P : /\ FunctionPart(L, text, j, m, h, P)
                  /\ PlacedSymbols(P, text, j, w, col, Column(text[j], "function"), "parameter")
  <2> HIDE DEF text
  <2>1. j \in DOMAIN text /\ IsFunction(text[j])
    BY DEF text
  <2> QED  BY <1>1, <1>3, <1>4, <2>1, FunctionSymbolsAre DEF w
<1>7. /\ h \in {1, 2} /\ Len(P) = Len(w) /\ Len(L) = h + Len(w)
      /\ \A k \in 1 .. Len(w) : L[h + k] = P[k]
  BY <1>6 DEF FunctionPart, PlacedSymbols
<1>8. off \in Nat /\ \A x \in 1 .. Len(L) : off + x \in 1 .. Len(all) /\ all[off + x] = L[x]
  BY <1>2 DEF LineStands
<1>9. off + h + Len(w) \in 1 .. Len(all)
  <2>1. Len(L) \in 1 .. Len(L) /\ off + Len(L) = off + h + Len(w)
    BY <1>5, <1>7, <1>8
  <2> QED  BY <1>8, <2>1
<1>10. ASSUME NEW x \in 1 .. h
       PROVE  /\ all[off + x].scope \in {"global", "local"}
              /\ all[off + x].isFunction = TRUE /\ all[off + x].start[1] = j
  <2>1. x \in 1 .. Len(L) /\ all[off + x] = L[x]
    BY <1>5, <1>7, <1>8
  <2>2. SymbolAt(text, m, j, L[x]) /\ L[x].isFunction = TRUE /\ L[x].scope \in {"global", "local"}
    BY <1>6 DEF FunctionPart
  <2>3. L[x].start = <<j, L[x].start[2]>>
    BY Zenon, <2>2 DEF SymbolAt
  <2>4. L[x].start[1] = j
    BY <2>3
  <2> QED  BY <2>1, <2>2, <2>4
<1>11. all[off + 1].name = <<FunctionName(text[j])>>
  <2>1. 1 \in 1 .. Len(L) /\ L[1].name = <<FunctionName(text[j])>>
    BY <1>5, <1>6, <1>7 DEF FunctionPart
  <2> QED  BY <1>8, <2>1
<1>12. ASSUME NEW k \in 1 .. Len(w)
       PROVE  /\ all[off + h + k].name = <<w[k]>> /\ all[off + h + k].scope = "parameter"
              /\ all[off + h + k].start[1] = j
  <2>1. h + k \in 1 .. Len(L) /\ off + (h + k) = off + h + k /\ L[h + k] = P[k]
    <3>1. h \in Nat /\ h + k \in 1 .. h + Len(w) /\ off + (h + k) = off + h + k
      BY <1>5, <1>7, <1>8
    <3>2. h + Len(w) = Len(L) /\ L[h + k] = P[k]
      BY <1>7
    <3> QED  BY <3>1, <3>2
  <2>2. all[off + h + k] = P[k]
    BY <1>8, <2>1
  <2>3. /\ P[k].name = <<w[k]>> /\ P[k].scope = "parameter"
        /\ P[k].start = <<j, Column(text[j], "function")>>
    BY <1>6 DEF PlacedSymbols
  <2> QED  BY <2>2, <2>3
<1>13. ASSUME NEW x \in 1 .. Len(all), all[x].start[1] = j
       PROVE  x \in off + 1 .. off + h + Len(w)
  <2>1. PICK y \in 1 .. Len(L) : x = off + y
    BY <1>2, <1>13 DEF LineStands
  <2> QED  BY <1>5, <1>7, <1>8, <2>1
<1>14. \A x \in off + 1 .. off + h : /\ all[x].scope \in {"global", "local"}
                                     /\ all[x].isFunction = TRUE /\ all[x].start[1] = j
  <2> SUFFICES ASSUME NEW x \in off + 1 .. off + h
               PROVE  /\ all[x].scope \in {"global", "local"}
                      /\ all[x].isFunction = TRUE /\ all[x].start[1] = j
    OBVIOUS
  <2>1. x - off \in 1 .. h /\ off + (x - off) = x
    BY <1>7, <1>8
  <2> QED  BY <1>10, <2>1
<1>15. FunctionStands(all, off, h, j, text[j])
  BY <1>7, <1>8, <1>9, <1>11, <1>12, <1>13, <1>14 DEF FunctionStands, w
<1> QED  BY <1>15 DEF all

\* The parameters near a function without others nearby are its own, in order.
LEMMA NearAre ==
  ASSUME NEW d, GoodDoc(d), NEW j \in DOMAIN d.text, IsFunction(d.text[j]), Alone(d.text, j),
         NEW s, s.start[1] = j
  PROVE  ParametersNear(d, s) = Parameters(d.text[j])
<1> DEFINE text == d.text
           all == d.symbols
           w == Parameters(text[j])
           n == Len(all)
           Near(p) == p.scope = "parameter" /\ p.start[1] \in s.start[1] .. s.start[1] + 3
           seqs == [k \in 1 .. n |-> IF Near(all[k]) THEN all[k].name ELSE <<>>]
<1>1. n \in Nat /\ DOMAIN all = 1 .. n /\ Statement(text[j]) /\ j \in Nat
  BY GoodDocIs, TextIs DEF Statements
<1>2. ParametersNear(d, s) = FlattenSeq(seqs)
  BY <1>1 DEF ParametersNear
<1>3. w \in Seq(Names) /\ Len(w) \in Nat /\ \A k \in 1 .. Len(w) : w[k] \in Names
  <2>1. PICK col : NameColumns(col, text[j], Column(text[j], "("), Column(text[j], ")"), w)
    BY <1>1, ParameterColumns
  <2> HIDE DEF w, text
  <2> QED  BY <2>1, ElementOfSeq DEF NameColumns
<1>4. PICK off, h : FunctionStands(all, off, h, j, text[j])
  BY FunctionsStand
<1> DEFINE a == off + h
<1>5. /\ off \in Nat /\ h \in {1, 2} /\ a + Len(w) \in 1 .. n
      /\ \A m \in off + 1 .. a : all[m].scope \in {"global", "local"}
      /\ \A k \in 1 .. Len(w) : /\ all[a + k].name = <<w[k]>> /\ all[a + k].scope = "parameter"
                                /\ all[a + k].start[1] = j
      /\ \A m \in 1 .. n : all[m].start[1] = j => m \in off + 1 .. a + Len(w)
  BY <1>4 DEF FunctionStands
<1>6. ASSUME NEW m \in 1 .. n, Near(all[m])  PROVE m \in a + 1 .. a + Len(w)
  <2>1. PICK i \in DOMAIN text : all[m].start[1] = i /\ KindFits(all[m], text[i])
    BY SymbolOfLine
  <2>2. all[m].scope = "parameter" /\ i \in j .. j + 3
    BY <1>6, <2>1
  <2>3. IsFunction(text[i]) /\ Parameters(text[i]) # <<>>
    BY <2>1, <2>2 DEF KindFits
  <2>4. i = j
    <3> SUFFICES ASSUME i # j PROVE FALSE
      OBVIOUS
    <3>1. i \in j + 1 .. j + 3
      BY <1>1, <2>2
    <3> QED  BY <2>3, <3>1 DEF Alone
  <2>5. m \in off + 1 .. a + Len(w)
    BY <1>5, <2>1, <2>4
  <2>6. m \notin off + 1 .. a
    BY <1>5, <2>2
  <2> HIDE DEF w
  <2> QED  BY <1>3, <1>5, <2>5, <2>6
<1>7. ASSUME NEW m \in 1 .. n, m \in a + 1 .. a + Len(w)
      PROVE  Near(all[m]) /\ all[m].name = <<w[m - a]>>
  <2>1. m - a \in 1 .. Len(w) /\ a + (m - a) = m
    <3> HIDE DEF w
    <3> QED  BY <1>3, <1>5, <1>7
  <2>2. /\ all[m].name = <<w[m - a]>> /\ all[m].scope = "parameter" /\ all[m].start[1] = j
    BY <1>5, <2>1
  <2> HIDE DEF w, a, all
  <2> QED  BY <1>1, <2>2
<1> HIDE DEF Near, w, all
<1>8. Block(seqs, n, a, w)
  BY <1>6, <1>7 DEF Block
<1>9. seqs \in [1 .. n -> Seq(Names)]
  <2>1. ASSUME NEW k \in 1 .. n  PROVE seqs[k] \in Seq(Names)
    <3>1. CASE k \in a + 1 .. a + Len(w)
      <4>1. k - a \in 1 .. Len(w)
        BY <1>3, <1>5, <3>1
      <4>2. seqs[k] = <<w[k - a]>> /\ w[k - a] \in Names
        BY <1>3, <1>8, <3>1, <4>1 DEF Block
      <4> HIDE DEF seqs
      <4> QED  BY <4>2, OneTyped
    <3>2. CASE k \notin a + 1 .. a + Len(w)
      <4>1. seqs[k] = <<>>
        BY <1>8, <3>2 DEF Block
      <4> HIDE DEF seqs
      <4> QED  BY <4>1, EmptySeq
    <3> QED  BY <3>1, <3>2
  <2>2. seqs = [k \in 1 .. n |-> seqs[k]]
    OBVIOUS
  <2> HIDE DEF seqs
  <2> QED  BY <2>1, <2>2
<1>10. a \in Nat /\ a + Len(w) <= n
  BY <1>1, <1>3, <1>5
<1> HIDE DEF seqs, a, n
<1>11. FlattenSeq(seqs) = w
  BY Zenon, <1>1, <1>3, <1>8, <1>9, <1>10, FlattenBlock
<1> QED  BY <1>2, <1>11 DEF w

\* signatureHelp's function: the first symbol of that name that is one.
Callee(d, f) == FirstSymbol(d, LAMBDA t : t.name = <<f>> /\ t.isFunction)

LEMMA CalleeIs ==
  ASSUME NEW d, GoodDoc(d), NEW f, NEW j, FunctionLines(d.text, f) = {j},
         \A i \in DOMAIN d.text : ~(Declares(d.text[i]) /\ FunctionValue(d.text[i]))
  PROVE  Callee(d, f) \in ToSet(d.symbols) /\ Callee(d, f).start[1] = j
<1> DEFINE all == d.symbols
           text == d.text
           I == {m \in 1 .. Len(all) : all[m].name = <<f>> /\ all[m].isFunction}
           s == Callee(d, f)
<1>1. s = IF Selected(I) = 0 THEN NoSymbol ELSE all[Selected(I)]
  BY Zenon DEF Selected, Callee, FirstSymbol, SelectInSeq
<1>2. I \subseteq 1 .. Len(all) /\ Len(all) \in Nat
  BY GoodDocIs
<1> HIDE DEF s, I, all
<1>3. FirstIs(s, d, I)
  BY <1>1, <1>2, FirstOfThem DEF all
<1>4. j \in DOMAIN text /\ IsFunction(text[j]) /\ FunctionName(text[j]) = f
  BY DEF FunctionLines
<1>5. PICK off, h : FunctionStands(all, off, h, j, text[j])
  BY <1>4, FunctionsStand DEF all
<1>6. off + 1 \in I
  <2> DEFINE w == Parameters(text[j])
  <2>1. /\ off \in Nat /\ h \in {1, 2} /\ off + h + Len(w) \in 1 .. Len(all)
        /\ all[off + 1].name = <<f>>
        /\ \A m \in off + 1 .. off + h : all[m].isFunction = TRUE
    BY <1>4, <1>5 DEF FunctionStands
  <2>2. Len(w) \in Nat
    <3>1. Statement(text[j])
      BY <1>4, GoodDocIs DEF Statements
    <3>2. PICK col : NameColumns(col, text[j], Column(text[j], "("), Column(text[j], ")"), w)
      BY <1>4, <3>1, ParameterColumns
    <3> QED  BY <3>2 DEF NameColumns
  <2> HIDE DEF w
  <2>3. off + 1 \in 1 .. Len(all) /\ off + 1 \in off + 1 .. off + h
    BY <1>2, <2>1, <2>2
  <2>4. all[off + 1].isFunction = TRUE
    BY <2>1, <2>3
  <2>5. all[off + 1].isFunction
    BY <2>4
  <2> QED  BY <2>1, <2>3, <2>5 DEF I
<1>7. PICK m \in I : s = all[m]
  BY <1>3, <1>6 DEF FirstIs, all
<1>8. m \in 1 .. Len(all) /\ all[m].name = <<f>> /\ all[m].isFunction
  BY <1>7 DEF I
<1>9. PICK i \in DOMAIN text : all[m].start[1] = i /\ KindFits(all[m], text[i])
  BY <1>8, SymbolOfLine DEF all
<1>10. IsFunction(text[i]) /\ (all[m].name = <<FunctionName(text[i])>> \/ Len(all[m].name) = 3)
  BY <1>8, <1>9 DEF KindFits
<1>11. Len(<<f>>) = 1 /\ \A x : <<f>> = <<x>> => f = x
  OBVIOUS
<1>12. FunctionName(text[i]) = f
  <2>1. Len(all[m].name) = 1
    BY <1>8, <1>11
  <2>2. <<f>> = <<FunctionName(text[i])>>
    BY <1>8, <1>10, <2>1
  <2> QED  BY <2>2
<1>13. i \in FunctionLines(text, f)
  BY <1>10, <1>12 DEF FunctionLines
<1>14. i = j
  BY <1>13
<1>15. s \in ToSet(d.symbols)
  BY <1>7, <1>8, GoodDocIs DEF all
<1> QED  BY <1>7, <1>9, <1>14, <1>15 DEF s

-------------------------------------------------------------------------------
(* Documents are what the index makes of their texts                       *)

\* Index(text, on), for the text of the document and some setting.
IndexedAs(d) == \E on \in BOOLEAN : d = Index(d.text, on)
AllIndexed == \A u \in Indexed : IndexedAs(documents[u])
SettingsInv ==
  /\ config \in [{"caseSensitive", "modulePattern"} -> BOOLEAN]
  /\ supportModulePattern \in BOOLEAN
IndexInv == SettingsInv /\ AllIndexed

LEMMA SettingsStay ==
  ASSUME SettingsInv, [Next]_vars
  PROVE  SettingsInv'
<1> DEFINE Fields == {"caseSensitive", "modulePattern"}
<1>1. CASE UNCHANGED settingVars
  BY <1>1 DEF SettingsInv, settingVars
<1>2. CASE Configure
  <2>1. PICK settings \in Settings : config' = Updated(settings)
    BY <1>2 DEF Configure
  <2>2. \A field \in DOMAIN settings : field \in Fields /\ settings[field] \in BOOLEAN
    BY <2>1, EditorAssumption
  <2>3. DOMAIN config = Fields /\ \A field \in Fields : config[field] \in BOOLEAN
    BY DEF SettingsInv
  <2>4. "modulePattern" \in Fields
    OBVIOUS
  <2> HIDE DEF Fields
  <2>5. config' = [field \in Fields |-> IF field \in DOMAIN settings THEN settings[field] ELSE config[field]]
    BY Zenon, <2>1, <2>3 DEF Updated
  <2>6. config' \in [Fields -> BOOLEAN]
    BY <2>2, <2>3, <2>5
  <2>7. supportModulePattern' \in BOOLEAN
    BY <1>2, <2>4, <2>6 DEF Configure
  <2> QED  BY <2>6, <2>7 DEF SettingsInv, Fields
<1> QED  BY <1>1, <1>2 DEF Next, Type, Wrap, Close, Update, RenameAnywhere, Rename, vars, settingVars

LEMMA IndexIs ==
  ASSUME NEW text, NEW on \in BOOLEAN
  PROVE  IndexedAs(Index(text, on))
<1> DEFINE d == Index(text, on)
<1>1. d.text = text
  BY DEF Index
<1>2. d = Index(text, on)
  OBVIOUS
<1> HIDE DEF d
<1> QED  BY <1>1, <1>2 DEF IndexedAs, d

\* A step that replaces documents by indexed ones, or removes them.
LEMMA IndexStep ==
  ASSUME AllIndexed, \A v \in Uris : documents'[v] # NoDoc =>
                     \/ documents[v] # NoDoc /\ documents'[v] = documents[v]
                     \/ IndexedAs(documents'[v])
  PROVE  AllIndexed'
<1> SUFFICES ASSUME NEW v \in Uris, documents'[v] # NoDoc  PROVE IndexedAs(documents'[v])
  BY DEF AllIndexed, Indexed
<1>1. CASE documents[v] # NoDoc /\ documents'[v] = documents[v]
  BY <1>1 DEF AllIndexed, Indexed
<1>2. CASE IndexedAs(documents'[v])
  BY <1>2
<1> QED  BY <1>1, <1>2

LEMMA UpdateIndexes ==
  ASSUME EditorInv, IndexInv, NEW u \in Uris, NEW text, Update(u, text)
  PROVE  AllIndexed'
<1> DEFINE d == Index(text, supportModulePattern)
<1>1. IndexedAs(d)
  BY IndexIs DEF IndexInv, SettingsInv
<1>2. documents' = [documents EXCEPT ![u] = d] /\ documents = [v \in Uris |-> documents[v]]
  BY DEF Update, EditorInv
<1> HIDE DEF d
<1>3. \A v \in Uris : documents'[v] = IF v = u THEN d ELSE documents[v]
  BY <1>2
<1> QED  BY <1>1, <1>3, IndexStep DEF IndexInv

LEMMA TypeIndexes ==
  ASSUME EditorInv, IndexInv, NEW u \in Uris, Type(u)
  PROVE  AllIndexed'
<1>1. \E text : Update(u, text)
  BY DEF Type
<1> QED  BY <1>1, UpdateIndexes

LEMMA WrapIndexes ==
  ASSUME EditorInv, IndexInv, NEW u \in Uris, Wrap(u)
  PROVE  AllIndexed'
<1>1. \E text : Update(u, text)
  BY Zenon DEF Wrap
<1> QED  BY <1>1, UpdateIndexes

LEMMA RenameIndexes ==
  ASSUME EditorInv, IndexInv, NEW u, NEW p, NEW newName, Rename(u, p, newName)
  PROVE  AllIndexed'
<1> DEFINE ranges == FindReferences(FindSymbolAt(documents[u], p).name)
           Edited == {r.uri : r \in ranges}
           new(v) == Applied(Text(v), {r \in ranges : r.uri = v}, newName)
<1>1. documents' = [v \in Uris |-> IF v \in Edited THEN Index(new(v), supportModulePattern)
                                   ELSE documents[v]]
  BY DEF Rename
<1> HIDE DEF new, Edited
<1>2. \A v \in Uris : \/ documents'[v] = Index(new(v), supportModulePattern)
                      \/ documents'[v] = documents[v]
  BY <1>1
<1>3. AllIndexed /\ supportModulePattern \in BOOLEAN
  BY DEF IndexInv, SettingsInv
<1> QED  BY <1>2, <1>3, IndexIs, IndexStep

LEMMA IndexedNames ==
  ASSUME NEW d, IndexedAs(d), Texted(d.text)
  PROVE  /\ d.funcParams = FuncParams(d.text)
         /\ d.moduleName # NoName => d.moduleName \in STRING
<1>1. PICK on \in BOOLEAN : d = Index(d.text, on)
  BY DEF IndexedAs
<1> DEFINE text == d.text
<1>2. d.funcParams = FuncParams(text) /\ d.moduleName = ModuleName(text, on)
  <2> DEFINE e == Index(text, on)
  <2>1. e.funcParams = FuncParams(text) /\ e.moduleName = ModuleName(text, on)
    BY DEF Index
  <2>2. d = e
    BY <1>1
  <2> HIDE DEF e, text
  <2> QED  BY <2>1, <2>2
<1> HIDE DEF text
<1>3. Texted(text)
  BY DEF text
<1>4. ASSUME ModuleLine(text) > 0  PROVE text[ModuleLine(text)][4] \in STRING
  <2>1. ModuleLine(text) \in 1 .. Len(text) /\ CallsModule(text[ModuleLine(text)])
    BY <1>3, <1>4, ModuleLineIs, TextIs
  <2> DEFINE line == text[ModuleLine(text)]
  <2>2. line \in Seq(STRING) /\ Len(line) \in Nat /\ CallsModule(line)
    BY <1>3, <2>1, TextIs
  <2> HIDE DEF line
  <2>3. 4 \in 1 .. Len(line)
    <3>1. Len(line) > 4
      BY Zenon, <2>2 DEF CallsModule
    <3> QED  BY <2>2, <3>1
  <2> QED  BY <2>2, <2>3, ElementOfSeq DEF line
<1>5. d.moduleName # NoName => d.moduleName \in STRING
  BY <1>2, <1>4 DEF ModuleName
<1> QED  BY <1>2, <1>5 DEF text

\* Whose parameters funcParams_ has: a function's that the text declares, and if
\* it declares one only, of that one.
LEMMA FuncParamsAre ==
  ASSUME NEW text, Texted(text), NEW f \in DOMAIN FuncParams(text)
  PROVE  /\ FunctionLines(text, f) # {}
         /\ \A j : FunctionLines(text, f) = {j} =>
              FuncParams(text)[f] = Parameters(text[j]) /\ Parameters(text[j]) # <<>>
<1> DEFINE Having(line) == IsFunction(line) /\ Parameters(line) # <<>>
           Of(line) == Having(line) /\ FunctionName(line) = f
           lines == {line \in ToSet(text) : Having(line)}
           I == {i \in 1 .. Len(text) : Of(text[i])}
           last == IF I # {} THEN Max(I) ELSE 0
<1>1. Len(text) \in Nat /\ DOMAIN text = 1 .. Len(text)
  BY TextIs
<1>2. f \in {FunctionName(line) : line \in lines}
  BY Zenon DEF FuncParams
<1>3. FuncParams(text)[f] = Parameters(text[last])
  <2> DEFINE Row(g) == Parameters(text[SelectLastInSeq(text,
                         LAMBDA line : Having(line) /\ FunctionName(line) = g)])
  <2>1. FuncParams(text) = [g \in {FunctionName(line) : line \in lines} |-> Row(g)]
    BY Zenon DEF FuncParams
  <2>2. Row(f) = Parameters(text[last])
    BY Zenon DEF SelectLastInSeq
  <2> HIDE DEF Row, last, lines
  <2> QED  BY <1>2, <2>1, <2>2
<1>4. I # {}
  <2>1. PICK line \in ToSet(text) : Having(line) /\ f = FunctionName(line)
    BY <1>2
  <2>2. PICK i \in DOMAIN text : line = text[i]
    BY <2>1 DEF ToSet
  <2> HIDE DEF Having
  <2> QED  BY <1>1, <2>1, <2>2
<1>5. I \subseteq FunctionLines(text, f)
  BY <1>1 DEF FunctionLines
<1>6. ASSUME NEW j, FunctionLines(text, f) = {j}
      PROVE  FuncParams(text)[f] = Parameters(text[j]) /\ Parameters(text[j]) # <<>>
  <2>1. I = {j}
    <3> HIDE DEF I
    <3> QED  BY <1>4, <1>5, <1>6
  <2>2. Max({j}) = j
    <3>1. j \in Nat
      BY <1>1, <2>1
    <3> QED  BY <3>1 DEF Max
  <2>3. last = j
    <3> HIDE DEF I
    <3> QED  BY <1>4, <2>1, <2>2
  <2>4. Parameters(text[j]) # <<>>
    BY Zenon, <2>1
  <2> HIDE DEF last
  <2> QED  BY <1>3, <2>3, <2>4
<1>7. FunctionLines(text, f) # {}
  <2> HIDE DEF I
  <2> QED  BY <1>4, <1>5
<1> QED  BY <1>6, <1>7

-------------------------------------------------------------------------------
(* signatureHelp and inlayHint                                             *)

\* signatureHelp in a call whose function, symbol and parameters are known.
LEMMA HelpIs ==
  ASSUME NEW u, NEW p, NEW i, NEW c, WalkFrom(Text(u), p) = <<i, c>>,
         NEW paren, paren # 0, OpenParenthesis(Text(u)[i], c) = paren,
         NEW f, f # NoName, Called(Text(u)[i], paren) = f,
         Callee(documents[u], f) # NoSymbol,
         NEW params, params # <<>>, ParametersNear(documents[u], Callee(documents[u], f)) = params,
         NEW number, Cardinality(Commas(Text(u)[i], paren, c)) = number
  PROVE  SignatureHelp(u, p) =
           [label |-> f, params |-> params,
            active |-> IF number < Len(params) THEN number ELSE Len(params) - 1]
<1> DEFINE at      == WalkFrom(Text(u), p)
           line    == Text(u)[at[1]]
           paren1  == OpenParenthesis(line, at[2])
           f1      == IF paren1 = 0 THEN NoName ELSE Called(line, paren1)
           s1      == Callee(documents[u], f1)
           params1 == IF s1 = NoSymbol THEN <<>> ELSE ParametersNear(documents[u], s1)
           number1 == Cardinality(Commas(line, paren1, at[2]))
<1>1. SignatureHelp(u, p) =
        IF f1 = NoName \/ params1 = <<>> THEN [label |-> NoName, params |-> <<>>, active |-> 0]
        ELSE [label |-> f1, params |-> params1,
              active |-> IF number1 < Len(params1) THEN number1 ELSE Len(params1) - 1]
  BY Zenon DEF SignatureHelp, Callee
<1>2. at[1] = i /\ at[2] = c
  OBVIOUS
<1> HIDE DEF at
<1>3. paren1 = paren
  BY Zenon, <1>2
<1>4. f1 = f
  BY Zenon, <1>2, <1>3
<1>5. params1 = params
  <2>1. s1 = Callee(documents[u], f)
    BY Zenon, <1>4
  <2>2. s1 # NoSymbol /\ ParametersNear(documents[u], s1) = params
    BY Zenon, <2>1
  <2> HIDE DEF s1
  <2> QED  BY Zenon, <2>2
<1>6. number1 = number
  BY Zenon, <1>2, <1>3
<1> HIDE DEF paren1, f1, s1, params1, number1
<1> QED  BY Zenon, <1>1, <1>4, <1>5, <1>6

\* Without a parenthesis, signatureHelp knows nothing.
LEMMA NoHelp ==
  ASSUME NEW u, NEW p, NEW i, NEW c, WalkFrom(Text(u), p) = <<i, c>>,
         OpenParenthesis(Text(u)[i], c) = 0
  PROVE  SignatureHelp(u, p).label = NoName
<1> DEFINE at      == WalkFrom(Text(u), p)
           line    == Text(u)[at[1]]
           paren1  == OpenParenthesis(line, at[2])
           f1      == IF paren1 = 0 THEN NoName ELSE Called(line, paren1)
           s1      == Callee(documents[u], f1)
           params1 == IF s1 = NoSymbol THEN <<>> ELSE ParametersNear(documents[u], s1)
           number1 == Cardinality(Commas(line, paren1, at[2]))
           none    == [label |-> NoName, params |-> <<>>, active |-> 0]
<1>1. SignatureHelp(u, p) =
        IF f1 = NoName \/ params1 = <<>> THEN none
        ELSE [label |-> f1, params |-> params1,
              active |-> IF number1 < Len(params1) THEN number1 ELSE Len(params1) - 1]
  BY Zenon DEF SignatureHelp, Callee
<1>2. at[1] = i /\ at[2] = c
  OBVIOUS
<1> HIDE DEF at
<1>3. paren1 = 0
  BY Zenon, <1>2
<1>4. f1 = NoName
  BY Zenon, <1>3
<1>5. none.label = NoName
  OBVIOUS
<1> HIDE DEF paren1, f1, s1, params1, number1, none
<1> QED  BY Zenon, <1>1, <1>4, <1>5

LEMMA OneHint ==
  ASSUME EditorInv, BlockInv, IndexInv, NEW u \in Indexed, NEW p \in Calls(Text(u)),
         NEW f, f = Called(Text(u)[p[1]], p[2]),
         NEW j, FunctionLines(Text(u), f) = {j}, Alone(Text(u), j),
         \A v \in Indexed : v = u \/ FunctionLines(Text(v), f) = {},
         \A i \in DOMAIN Text(u) : ~(Declares(Text(u)[i]) /\ FunctionValue(Text(u)[i])),
         NEW params \in GetFuncParams(f), NEW hint \in CallHints(Text(u)[p[1]], p[2], params),
         WellNested(Text(u)[p[1]], p[2], hint.column),
         NEW q \in CursorsBefore(Text(u), p[1], hint.column)
  PROVE  HelpFits(SignatureHelp(u, q), f, hint, Text(u)[p[1]], p[2])
<1> DEFINE d == documents[u]
           text == d.text
           line == text[p[1]]
           paren == p[2]
<1>1. /\ GoodDoc(d) /\ Text(u) = text /\ Texted(text) /\ Balanced(text) /\ IndexedAs(d)
  BY IndexedTyped DEF BlockInv, IndexInv, AllIndexed
<1>2. d.funcParams = FuncParams(text) /\ (d.moduleName # NoName => d.moduleName \in STRING)
  BY <1>1, IndexedNames
<1>3. /\ p \in Positions(text) /\ line[paren] = "(" /\ Called(line, paren) # NoName
  BY <1>1 DEF Calls
<1>4. p[1] \in DOMAIN text /\ Len(line) \in Nat /\ paren \in 1 .. Len(line)
  BY <1>1, <1>3, TextIs
<1>5. params = Parameters(text[j]) /\ params # <<>>
  <2>1. PICK v \in Indexed : f \in DOMAIN documents[v].funcParams /\ params = documents[v].funcParams[f]
    BY DEF GetFuncParams
  <2>2. Text(v) = documents[v].text /\ Texted(Text(v)) /\ documents[v].funcParams = FuncParams(Text(v))
    BY IndexedTyped, IndexedNames DEF IndexInv, AllIndexed
  <2>3. FunctionLines(Text(v), f) # {}
    BY <2>1, <2>2, FuncParamsAre
  <2>4. v = u
    BY <2>3
  <2>5. f \in DOMAIN FuncParams(text) /\ params = FuncParams(text)[f] /\ FunctionLines(text, f) = {j}
    BY <1>1, <2>1, <2>2, <2>4
  <2> HIDE DEF text
  <2> QED  BY <1>1, <2>5, FuncParamsAre
<1>6. j \in DOMAIN text /\ IsFunction(text[j]) /\ Statement(text[j])
  <2>1. j \in FunctionLines(text, f)
    BY <1>1
  <2>2. Statements(text)
    BY <1>1, GoodDocIs
  <2> QED  BY <2>1, <2>2 DEF FunctionLines, Statements
<1>7. Len(params) \in Nat \ {0} /\ DOMAIN params = 1 .. Len(params)
  <2>1. PICK col : NameColumns(col, text[j], Column(text[j], "("), Column(text[j], ")"), params)
    BY <1>5, <1>6, ParameterColumns
  <2>2. params \in Seq(Names)
    BY <2>1 DEF NameColumns
  <2> QED  BY <1>5, <2>2, EmptySeq, LenProperties
<1>8. PICK c : /\ WalkFrom(text, q) = <<p[1], c>>
               /\ c = hint.column \/ (c = hint.column + 1 /\ line[hint.column] \in Names)
  <2>1. CursorsBefore(Text(u), p[1], hint.column) = CursorsBefore(text, p[1], hint.column)
    BY <1>1
  <2> HIDE DEF line, text
  <2>2. \/ WalkFrom(text, q) = <<p[1], hint.column>>
        \/ WalkFrom(text, q) = <<p[1], hint.column + 1>> /\ text[p[1]][hint.column] \in Names
    BY Zenon, <2>1 DEF CursorsBefore
  <2> QED  BY Zenon, <2>2 DEF line
<1>9. c = hint.column \/ (c = hint.column + 1 /\ Passive(line, hint.column))
  <2>1. ASSUME NEW name \in Names PROVE name \notin {"(", ")", ",", ";"}
    BY NamesAreNot DEF Punctuation
  <2> QED  BY Zenon, <1>8, <2>1 DEF Passive
<1>10. HintFits(hint, line, paren, params, c) /\ hint.column \in Nat \ {0}
  <2>1. hint \in CallHints(line, paren, params) /\ WellNested(line, paren, hint.column)
    BY <1>1
  <2> HIDE DEF line, paren
  <2> QED  BY <1>3, <1>4, <1>7, <1>9, <2>1, HintIs
<1>11. /\ Callee(d, f) \in ToSet(d.symbols) /\ Callee(d, f).start[1] = j
  <2>1. FunctionLines(d.text, f) = {j} /\ \A i \in DOMAIN d.text : ~(Declares(d.text[i]) /\ FunctionValue(d.text[i]))
    BY <1>1
  <2> HIDE DEF d, text
  <2> QED  BY <1>1, <2>1, CalleeIs
<1>12. Callee(d, f) # NoSymbol
  <2>1. Balanced(d.text)
    BY <1>1
  <2> HIDE DEF d, text
  <2> QED  BY <1>1, <1>2, <1>11, <2>1, SymbolsHaveType
<1>13. ParametersNear(d, Callee(d, f)) = params
  <2>1. j \in DOMAIN d.text /\ IsFunction(d.text[j]) /\ Alone(d.text, j) /\ params = Parameters(d.text[j])
    BY <1>1, <1>5, <1>6
  <2> HIDE DEF d, text
  <2> QED  BY <1>1, <1>11, <2>1, NearAre
<1> DEFINE help == SignatureHelp(u, q)
           number == Cardinality(Commas(line, paren, c))
           enclosed == Cardinality(Enclosed(line, paren, hint.column))
<1>14. CASE Semicolon(line, paren, hint.column - 1)
  <2>1. OpenParenthesis(Text(u)[p[1]], c) = 0 /\ WalkFrom(Text(u), q) = <<p[1], c>>
    BY <1>1, <1>8, <1>10, <1>14 DEF HintFits
  <2>2. help.label = NoName
    <3> HIDE DEF help
    <3> QED  BY <2>1, NoHelp DEF help
  <2>3. \E k \in paren + 1 .. hint.column - 1 : Text(u)[p[1]][k] = ";"
    BY Zenon, <1>1, <1>14 DEF Semicolon
  <2> HIDE DEF help
  <2> QED  BY Zenon, <2>2, <2>3 DEF HelpFits, help
<1>15. CASE ~Semicolon(line, paren, hint.column - 1)
  <2>1. PICK n \in 1 .. Len(params) : hint.label = params[n] /\ number = (n - 1) + enclosed
    BY <1>10 DEF HintFits
  <2>2. enclosed \in Nat /\ OpenParenthesis(line, c) = paren
    BY <1>10, <1>15 DEF HintFits
  <2>3. help = [label |-> f, params |-> params,
                active |-> IF number < Len(params) THEN number ELSE Len(params) - 1]
    <3>1. /\ OpenParenthesis(Text(u)[p[1]], c) = paren /\ WalkFrom(Text(u), q) = <<p[1], c>>
          /\ Called(Text(u)[p[1]], paren) = f /\ f # NoName /\ paren # 0
          /\ Cardinality(Commas(Text(u)[p[1]], paren, c)) = number
      BY <1>1, <1>3, <1>4, <1>8, <2>2
    <3> HIDE DEF help, number, paren, line, text
    <3>2. Callee(documents[u], f) # NoSymbol /\ ParametersNear(documents[u], Callee(documents[u], f)) = params
      BY <1>12, <1>13
    <3>3. params # <<>>
      BY <1>5
    <3> QED  BY <3>1, <3>2, <3>3, HelpIs DEF help
  <2>4. help.label = f /\ help.params = params
        /\ help.active = IF number < Len(params) THEN number ELSE Len(params) - 1
    BY <2>3
  <2> DEFINE expected == n + enclosed
  <2> HIDE DEF help, number, enclosed
  <2>5. help.active + 1 = IF expected < Len(params) THEN expected ELSE Len(params)
    BY <1>7, <2>1, <2>2, <2>4
  <2> HIDE DEF expected
  <2>6. n \in DOMAIN help.params /\ hint.label = help.params[n]
        /\ help.active + 1 = IF expected < Len(help.params) THEN expected ELSE Len(help.params)
    BY <1>7, <2>1, <2>4, <2>5
  <2>7. ~ \E k \in paren + 1 .. hint.column - 1 : Text(u)[p[1]][k] = ";"
    BY Zenon, <1>1, <1>15 DEF Semicolon
  <2>8. enclosed = Cardinality(Enclosed(Text(u)[p[1]], p[2], hint.column))
    BY Zenon, <1>1 DEF enclosed
  <2> QED  BY Zenon, <2>4, <2>6, <2>7, <2>8 DEF HelpFits, help, expected
<1> QED  BY <1>14, <1>15

LEMMA SignatureHolds ==
  ASSUME EditorInv, BlockInv, IndexInv
  PROVE  SignatureAgreesWithHints
<1> DEFINE L(u, entry) == Text(u)[entry.call[1]]
           F(u, entry) == Called(L(u, entry), entry.call[2])
<1>1. SUFFICES ASSUME NEW u \in Indexed, NEW entry \in InlayHints(u),
                      \E j \in FunctionLines(Text(u), F(u, entry)) :
                        FunctionLines(Text(u), F(u, entry)) = {j} /\ Alone(Text(u), j),
                      \A v \in Indexed : v = u \/ FunctionLines(Text(v), F(u, entry)) = {},
                      \A i \in DOMAIN Text(u) : ~(Declares(Text(u)[i]) /\ FunctionValue(Text(u)[i])),
                      NEW hint \in UNION entry.hints, WellNested(L(u, entry), entry.call[2], hint.column),
                      NEW q \in CursorsBefore(Text(u), entry.call[1], hint.column)
               PROVE  HelpFits(SignatureHelp(u, q), F(u, entry), hint, L(u, entry), entry.call[2])
  BY Zenon DEF SignatureAgreesWithHints
<1>2. PICK p \in Calls(Text(u)) :
        entry = [call |-> p, hints |-> {CallHints(Text(u)[p[1]], p[2], params) :
                                          params \in GetFuncParams(Called(Text(u)[p[1]], p[2]))}]
  BY Zenon DEF InlayHints
<1>3. entry.call = p /\ entry.hints = {CallHints(Text(u)[p[1]], p[2], params) :
                                          params \in GetFuncParams(Called(Text(u)[p[1]], p[2]))}
  BY Zenon, <1>2
<1> DEFINE f == Called(Text(u)[p[1]], p[2])
<1>4. PICK params \in GetFuncParams(f) : hint \in CallHints(Text(u)[p[1]], p[2], params)
  BY <1>3
<1>5. F(u, entry) = f /\ L(u, entry) = Text(u)[p[1]]
  BY <1>3
<1> HIDE DEF f, F, L
<1>6. PICK j : FunctionLines(Text(u), f) = {j} /\ Alone(Text(u), j)
  BY <1>1, <1>5
<1>7. \A v \in Indexed : v = u \/ FunctionLines(Text(v), f) = {}
  BY <1>1, <1>5
<1>8. f = Called(Text(u)[p[1]], p[2])
  BY DEF f
<1>9. WellNested(Text(u)[p[1]], p[2], hint.column) /\ q \in CursorsBefore(Text(u), p[1], hint.column)
  BY Zenon, <1>1, <1>3, <1>5
<1>10. HelpFits(SignatureHelp(u, q), f, hint, Text(u)[p[1]], p[2])
  BY Zenon, <1>1, <1>4, <1>6, <1>7, <1>8, <1>9, OneHint
<1> QED  BY Zenon, <1>3, <1>5, <1>10

-------------------------------------------------------------------------------
(* What holds of every state and step                                      *)

\* Every document is what DocumentIndex::update makes of a text of statements,
\* whatever was typed, wrapped, renamed, closed and configured before.
THEOREM EditorInvariant == Spec => []EditorInv
<1>1. Init => EditorInv
  BY DEF Init, EditorInv, Indexed
<1>2. ASSUME EditorInv, [Next]_vars  PROVE EditorInv'
  <2>1. ASSUME NEW u \in Uris, Type(u)  PROVE EditorInv'
    BY <1>2, <2>1, TypeKeeps
  <2>2. ASSUME NEW u \in Uris, Wrap(u)  PROVE EditorInv'
    BY <1>2, <2>2, WrapKeeps
  <2>3. ASSUME NEW u \in Uris, Close(u)  PROVE EditorInv'
    BY <1>2, <2>3, CloseKeeps
  <2>4. ASSUME RenameAnywhere  PROVE EditorInv'
    <3>1. PICK u \in Indexed, newName \in Fresh : \E p \in Positions(Text(u)) : Rename(u, p, newName)
      BY <2>4 DEF RenameAnywhere
    <3>2. PICK p \in Positions(Text(u)) : Rename(u, p, newName)
      BY <3>1
    <3> QED  BY <1>2, <3>2, RenameKeeps
  <2>5. ASSUME Configure  PROVE EditorInv'
    BY <1>2, <2>5, ConfigureKeeps DEF Configure
  <2>6. ASSUME UNCHANGED vars  PROVE EditorInv'
    BY <1>2, <2>6, ConfigureKeeps DEF vars
  <2> QED  BY <1>2, <2>1, <2>2, <2>3, <2>4, <2>5, <2>6 DEF Next
<1> QED  BY <1>1, <1>2, PTL DEF Spec

\* Every text stays balanced: no edit, and no rename, opens or closes a block by
\* itself.
THEOREM BlocksBalanced == Spec => []BlockInv
<1>1. Init => BlockInv
  BY DEF Init, BlockInv, Indexed
<1>2. ASSUME EditorInv, BlockInv, [Next]_vars  PROVE BlockInv'
  <2>1. ASSUME NEW u \in Uris, Type(u)  PROVE BlockInv'
    BY <1>2, <2>1, TypeBalances
  <2>2. ASSUME NEW u \in Uris, Wrap(u)  PROVE BlockInv'
    BY <1>2, <2>2, WrapBalances
  <2>3. ASSUME NEW u \in Uris, Close(u)  PROVE BlockInv'
    BY <1>2, <2>3, CloseBalances
  <2>4. ASSUME RenameAnywhere  PROVE BlockInv'
    <3>1. PICK u \in Indexed, newName \in Fresh : \E p \in Positions(Text(u)) : Rename(u, p, newName)
      BY <2>4 DEF RenameAnywhere
    <3>2. PICK p \in Positions(Text(u)) : Rename(u, p, newName)
      BY <3>1
    <3> QED  BY <1>2, <3>2, RenameBalances
  <2>5. ASSUME Configure  PROVE BlockInv'
    BY <1>2, <2>5, ConfigureBalances DEF Configure
  <2>6. ASSUME UNCHANGED vars  PROVE BlockInv'
    BY <1>2, <2>6, ConfigureBalances DEF vars
  <2> QED  BY <1>2, <2>1, <2>2, <2>3, <2>4, <2>5, <2>6 DEF Next
<1> QED  BY <1>1, <1>2, EditorInvariant, PTL DEF Spec

\* A document is what DocumentIndex::update makes of its text under some setting of
\* the module pattern: no edit leaves the symbols, the module or the parameters of
\* an earlier text.
THEOREM DocumentsIndexed == Spec => []IndexInv
<1>1. Init => IndexInv
  <2>1. ASSUME Init  PROVE SettingsInv
    <3>1. config = [caseSensitive |-> FALSE, modulePattern |-> TRUE]
      BY <2>1 DEF Init
    <3> DEFINE Records == [caseSensitive : BOOLEAN, modulePattern : BOOLEAN]
    <3>2. ASSUME NEW a \in BOOLEAN, NEW b \in BOOLEAN
          PROVE  [caseSensitive |-> a, modulePattern |-> b] \in Records
      OBVIOUS
    <3>3. ASSUME NEW c \in Records  PROVE c \in [{"caseSensitive", "modulePattern"} -> BOOLEAN]
      OBVIOUS
    <3> HIDE DEF Records
    <3>4. TRUE \in BOOLEAN /\ FALSE \in BOOLEAN
      OBVIOUS
    <3>5. config \in [{"caseSensitive", "modulePattern"} -> BOOLEAN]
      BY Zenon, <3>1, <3>2, <3>3, <3>4
    <3> QED  BY <2>1, <3>5 DEF Init, SettingsInv
  <2>2. ASSUME Init  PROVE AllIndexed
    BY <2>2 DEF Init, AllIndexed, Indexed
  <2> QED  BY <2>1, <2>2 DEF IndexInv
<1>2. ASSUME EditorInv, IndexInv, [Next]_vars  PROVE IndexInv'
  <2>0. SettingsInv' /\ AllIndexed
    BY <1>2, SettingsStay DEF IndexInv
  <2>1. ASSUME NEW u \in Uris, Type(u)  PROVE AllIndexed'
    BY <1>2, <2>1, TypeIndexes
  <2>2. ASSUME NEW u \in Uris, Wrap(u)  PROVE AllIndexed'
    BY <1>2, <2>2, WrapIndexes
  <2>3. ASSUME NEW u \in Uris, Close(u)  PROVE AllIndexed'
    <3>1. \A v \in Uris : documents'[v] # NoDoc => documents'[v] = documents[v]
      BY <1>2, <2>3 DEF Close, EditorInv
    <3> QED  BY <2>0, <3>1, IndexStep
  <2>4. ASSUME RenameAnywhere  PROVE AllIndexed'
    <3>1. PICK u \in Indexed, newName \in Fresh : \E p \in Positions(Text(u)) : Rename(u, p, newName)
      BY <2>4 DEF RenameAnywhere
    <3>2. PICK p \in Positions(Text(u)) : Rename(u, p, newName)
      BY <3>1
    <3> QED  BY <1>2, <3>2, RenameIndexes
  <2>5. ASSUME UNCHANGED documents  PROVE AllIndexed'
    BY <2>0, <2>5 DEF AllIndexed, Indexed
  <2>6. AllIndexed'
    BY <1>2, <2>1, <2>2, <2>3, <2>4, <2>5 DEF Next, Configure, vars
  <2> QED  BY <2>0, <2>6 DEF IndexInv
<1> QED  BY <1>1, <1>2, EditorInvariant, PTL DEF Spec

\* hover and definition take the same symbol for a word, and completion offers
\* it: three handlers that search the symbols each in a loop of its own.
THEOREM HoverAgrees == Spec => []HoverDescribesTarget
<1>1. EditorInv => HoverDescribesTarget
  BY GoodDocuments, HoverHolds
<1> QED  BY <1>1, EditorInvariant, PTL

\* Where definition goes from a use, references finds that use again, over
\* documents, modules and both case modes: the two compare names separately.
THEOREM ReferencesAgree == Spec => []DefinitionReferencesAgree
<1>1. EditorInv => DefinitionReferencesAgree
  BY GoodDocuments, DefinitionAgrees
<1> QED  BY <1>1, EditorInvariant, PTL

\* findNamePosition, a search for any whole word, ends at the declaration of
\* each name: also for equal names on a line.
THEOREM SymbolsInPlace == Spec => []NamesInPlace
<1>1. EditorInv => NamesInPlace
  BY GoodDocuments, PlacesHold
<1> QED  BY <1>1, EditorInvariant, PTL

\* foldingRange and documentSymbol: blocks fold within those around them although
\* a fold reaches to the next token, and an outline entry contains its name.
THEOREM FoldsAreNested == Spec => []RangesNest
<1>1. EditorInv /\ BlockInv => RangesNest
  BY NestingHolds
<1> QED  BY <1>1, EditorInvariant, BlocksBalanced, PTL

\* findSymbolAt finds the symbol of the word under the cursor: highlight marks
\* what rename replaces, and the annotator colours what highlight marks.
THEOREM CursorsFind == Spec => []CursorOnWord
<1>1. EditorInv /\ BlockInv => CursorOnWord
  BY CursorHolds
<1> QED  BY <1>1, EditorInvariant, BlocksBalanced, PTL

\* signatureHelp and inlayHint, which find calls, functions and parameters each by
\* rules of its own, give an argument the same parameter: the parenthesis around a
\* hint is its call's unless a semicolon comes between, and the commas before it are
\* as many from either side, but for those enclosed in tables and strings.
THEOREM HintsAgree == Spec => []SignatureAgreesWithHints
<1>1. EditorInv /\ BlockInv /\ IndexInv => SignatureAgreesWithHints
  BY SignatureHolds
<1> QED  BY <1>1, EditorInvariant, BlocksBalanced, DocumentsIndexed, PTL

\* A rename to a new name, case-sensitive and without modules, replaces exactly the
\* old name in every document, and the index of the new texts differs in it alone:
\* scopes, ranges and places of all symbols stay.
THEOREM RenamesKeepBindings == Spec => RenameKeepsBindings
<1>1. ASSUME EditorInv, BlockInv, [Next]_vars
      PROVE  [~Renamed /\ Renamed' /\ config.caseSensitive /\ ~supportModulePattern /\ WithoutModules
                => KeepsBindings]_vars
  <2> SUFFICES ASSUME ~Renamed, Renamed', config.caseSensitive, ~supportModulePattern, WithoutModules
               PROVE  KeepsBindings
    OBVIOUS
  <2>1. \A u \in Uris : ~Type(u) /\ ~Wrap(u) /\ ~Close(u)
    BY <1>1, TypeClean, WrapClean, OthersClean
  <2>2. ~Configure /\ ~UNCHANGED vars
    BY <1>1, OthersClean
  <2>3. RenameAnywhere
    BY <1>1, <2>1, <2>2 DEF Next
  <2>4. PICK u \in Indexed, newName \in Fresh : \E p \in Positions(Text(u)) : Rename(u, p, newName)
    BY <2>3 DEF RenameAnywhere
  <2>5. PICK p \in Positions(Text(u)) : Rename(u, p, newName)
    BY <2>4
  <2> QED  BY <1>1, <2>5, RenameKeepsNames
<1> QED  BY <1>1, EditorInvariant, BlocksBalanced, PTL DEF Spec, RenameKeepsBindings

===============================================================================

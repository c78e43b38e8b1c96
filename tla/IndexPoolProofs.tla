---------------------------- MODULE IndexPoolProofs ----------------------------
(***************************************************************************)
(* IndexPool, for every number of files and of cores: its types, that the  *)
(* slices keep the threads apart, and that the pool is a FileSweep.        *)
(***************************************************************************)
EXTENDS IndexPool, FiniteSetTheorems, SequenceTheorems, TLAPS

LEMMA ThreadsType == NumThreads \in 1 .. 8
BY PoolAssumption DEF PoolAssumption, NumThreads

\* The residue classes of n threads: stepping by n stays in the class, and the
\* next member of the class is n away.
LEMMA Residues ==
  ASSUME NEW n \in 1 .. 8, NEW a \in Nat, NEW f \in Nat
  PROVE  /\ (a + n) % n = a % n
         /\ f % n \in 0 .. n - 1
         /\ f % n = a % n /\ f > a => f >= a + n
         /\ f \in 0 .. n - 1 => f % n = f
<1>1. CASE n = 1 BY <1>1
<1>2. CASE n = 2 BY <1>2
<1>3. CASE n = 3 BY <1>3
<1>4. CASE n = 4 BY <1>4
<1>5. CASE n = 5 BY <1>5
<1>6. CASE n = 6 BY <1>6
<1>7. CASE n = 7 BY <1>7
<1>8. CASE n = 8 BY <1>8
<1>9. n = 1 \/ n = 2 \/ n = 3 \/ n = 4 \/ n = 5 \/ n = 6 \/ n = 7 \/ n = 8
  OBVIOUS
<1>10. QED
  BY <1>1, <1>2, <1>3, <1>4, <1>5, <1>6, <1>7, <1>8, <1>9

LEMMA InitPool == Init => PoolInv
<1> SUFFICES ASSUME Init PROVE PoolInv
  OBVIOUS
<1> USE ThreadsType
<1>1. TypeOK
  BY DEF Init, TypeOK, Threads
<1>2. SlicesInOrder
  <2>1. ASSUME NEW w \in Threads, NEW f \in Files, f % NumThreads = w
        PROVE  at[w] <= f /\ phase[f] = "todo" /\ pc[w] \notin Busy
    <3>1. at[w] = w /\ phase[f] = "todo" /\ pc[w] \notin Busy
      BY DEF Init, Busy
    <3>2. f \in Nat /\ f >= f % NumThreads
      <4>1. f \in Nat
        BY PoolAssumption DEF Files, PoolAssumption
      <4>2. CASE f < NumThreads
        BY <4>1, <4>2, Residues
      <4>3. CASE f >= NumThreads
        BY <4>1, <4>3, Residues
      <4>4. QED
        BY <4>1, <4>2, <4>3
    <3>3. QED
      BY <2>1, <3>1, <3>2
  <2>2. QED
    <3>1. \A w \in Threads, f \in Files : w \in Nat /\ f \in Nat /\ at[w] = w
      BY PoolAssumption DEF Init, Threads, Files, PoolAssumption
    <3>2. QED
      BY <2>1, <3>1 DEF SlicesInOrder
<1>3. PoolShape
  <2>1. \A w \in Threads : at[w] % NumThreads = w
    BY Residues DEF Init, Threads
  <2>2. QED
    BY <2>1 DEF Init, PoolShape, Busy
<1>4. QED
  BY <1>1, <1>2, <1>3 DEF PoolInv

\* A thread that leaves a file behind keeps the invariant: the next file of its
\* slice is the next member of its residue class.
LEMMA NextFileKeeps ==
  ASSUME PoolInv, NEW w \in Threads, pc[w] \in Busy, NextFile(w),
         UNCHANGED <<stage, launched, announced>>
  PROVE  SlicesInOrder' /\ PoolShape'
<1> USE ThreadsType
<1>1. NumThreads \in Nat /\ Threads \subseteq Nat /\ Files \subseteq Nat /\ Total \in Nat
  BY PoolAssumption DEF Threads, Files, PoolAssumption
<1>2. at \in [Threads -> Nat] /\ pc \in [Threads -> {"unborn", "loop", "read", "exit"} \cup Busy]
      /\ phase \in [Files -> {"todo", "held", "done"}]
  BY DEF PoolInv, TypeOK
<1>3. at[w] \in Nat /\ at[w] < Total /\ at[w] % NumThreads = w /\ at[w] \in Files
  BY <1>1, <1>2 DEF PoolInv, PoolShape, Files
<1>4. at'[w] = at[w] + NumThreads /\ \A v \in Threads \ {w} : at'[v] = at[v]
  BY <1>2 DEF NextFile, NextIndex
<1>5. pc'[w] = "loop" /\ \A v \in Threads \ {w} : pc'[v] = pc[v]
  BY <1>2 DEF NextFile, Goto
<1>6. phase'[at[w]] = "done" /\ \A f \in Files \ {at[w]} : phase'[f] = phase[f]
  BY <1>2, <1>3 DEF NextFile
<1>7. SlicesInOrder'
  <2> SUFFICES ASSUME NEW v \in Threads, NEW f \in Files, f % NumThreads = v
               PROVE  /\ f < at'[v] => phase'[f] = "done"
                      /\ f > at'[v] => phase'[f] = "todo"
                      /\ f = at'[v] => phase'[f] = IF pc'[v] \in Busy THEN "held" ELSE "todo"
    BY DEF SlicesInOrder
  <2>1. f \in Nat /\ at[v] \in Nat
    BY <1>1, <1>2
  <2>2. /\ f < at[v] => phase[f] = "done"
        /\ f > at[v] => phase[f] = "todo"
        /\ f = at[v] => phase[f] = IF pc[v] \in Busy THEN "held" ELSE "todo"
    BY DEF PoolInv, SlicesInOrder
  <2>3. CASE v # w
    <3>1. f # at[w]
      BY <1>3, <2>3
    <3>2. QED
      BY <1>4, <1>5, <1>6, <2>2, <2>3, <3>1
  <2>4. CASE v = w /\ f < at[w]
    BY <1>4, <1>6, <2>1, <2>2, <2>4, <1>1, <1>3
  <2>5. CASE v = w /\ f = at[w]
    BY <1>4, <1>6, <2>1, <2>5, <1>1, <1>3
  <2>6. CASE v = w /\ f > at[w]
    <3>1. f >= at[w] + NumThreads
      BY <1>3, <2>1, <2>6, Residues
    <3>2. phase'[f] = "todo" /\ pc'[w] \notin Busy
      <4>1. f # at[w]
        BY <2>6, <2>1, <1>3
      <4>2. QED
        BY <1>5, <1>6, <2>2, <2>6, <4>1 DEF Busy
    <3>3. QED
      BY <1>1, <1>3, <1>4, <2>1, <2>6, <3>1, <3>2
  <2>7. QED
    BY <1>3, <2>1, <2>3, <2>4, <2>5, <2>6
<1>8. PoolShape'
  <2>1. \A v \in Threads : at'[v] % NumThreads = v
    <3>1. (at[w] + NumThreads) % NumThreads = at[w] % NumThreads
      BY <1>3, Residues
    <3>2. QED
      BY <1>3, <1>4, <3>1 DEF PoolInv, PoolShape
  <2>2. \A v \in Threads : v >= launched' => pc'[v] = "unborn"
    BY <1>5 DEF PoolInv, PoolShape, Busy
  <2>3. \A v \in Threads : /\ pc'[v] \in {"read"} \cup Busy => at'[v] < Total
                           /\ pc'[v] = "exit" => at'[v] >= Total
    BY <1>4, <1>5 DEF PoolInv, PoolShape, Busy
  <2>4. stage \notin {"ready", "done"}
    BY DEF PoolInv, PoolShape, Busy
  <2>5. QED
    BY <2>1, <2>2, <2>3, <2>4 DEF PoolShape, PoolInv
<1>9. QED
  BY <1>7, <1>8

LEMMA PoolKeepsType ==
  ASSUME PoolInv, [Next]_vars
  PROVE  TypeOK'
<1> USE ThreadsType DEF PoolInv
<1>0. TypeOK /\ NumThreads \in Nat /\ Threads \subseteq Nat
  BY DEF Threads
<1>1. CASE UNCHANGED vars
  BY <1>1 DEF TypeOK, vars, counters
<1>2. CASE IndexerStep
  <2>1. launched' \in 0 .. NumThreads
    BY <1>0, <1>2 DEF IndexerStep, Launch, Join, Done, MoreToLaunch, TypeOK
  <2>2. pc' \in [Threads -> {"unborn", "loop", "read", "exit"} \cup Busy]
    BY <1>2 DEF IndexerStep, Launch, Join, Done, TypeOK
  <2>3. stage' \in {"launch", "join", "ready", "done"} /\ announced' \in BOOLEAN
    BY <1>2 DEF IndexerStep, Launch, Join, Done, TypeOK
  <2>4. UNCHANGED <<kind, phase, at, count, indexed, skipped, failed, reports>>
    BY <1>2 DEF IndexerStep, Launch, Join, Done, counters
  <2>5. QED
    BY <2>1, <2>2, <2>3, <2>4 DEF TypeOK
<1>3. ASSUME NEW w \in Threads, WorkerStep(w)
      PROVE  TypeOK'
  <2> USE DEF WorkerStep
  <2>0. w \in Nat /\ at[w] \in Nat /\ at[w] + NumThreads \in Nat
    BY <1>0 DEF TypeOK
  <2>1. at' \in [Threads -> Nat]
    BY <1>3, <2>0 DEF TypeOK, Loop, Read, Skip, Fail, Store, Count, Report, NextFile, NextIndex
  <2>2. pc' \in [Threads -> {"unborn", "loop", "read", "exit"} \cup Busy]
    BY <1>3 DEF TypeOK, Loop, Read, Skip, Fail, Store, Count, Report, NextFile, Goto, Busy
  <2>3. phase' \in [Files -> {"todo", "held", "done"}]
    BY <1>3 DEF TypeOK, Loop, Read, Skip, Fail, Store, Count, Report, NextFile
  <2>4. count' \in [Threads -> Nat] /\ indexed' \in Nat /\ skipped' \in Nat /\ failed' \in Nat
    BY <1>3 DEF TypeOK, Loop, Read, Skip, Fail, Store, Count, Report, NextFile, Counted, counters
  <2>5. reports' \in Seq(Nat)
    <3>1. reports \in Seq(Nat) /\ count[w] \in Nat
      BY <1>0 DEF TypeOK
    <3>2. Append(reports, count[w]) \in Seq(Nat)
      BY <3>1
    <3>3. reports' = reports \/ reports' = Append(reports, count[w])
      BY <1>3 DEF Loop, Read, Skip, Fail, Store, Count, Report
    <3>4. QED
      BY <3>1, <3>2, <3>3
  <2>6. UNCHANGED <<kind, announced, stage, launched>>
    BY <1>3 DEF Loop, Read, Skip, Fail, Store, Count, Report
  <2>7. QED
    BY <2>1, <2>2, <2>3, <2>4, <2>5, <2>6 DEF TypeOK
<1>4. QED
  BY <1>1, <1>2, <1>3 DEF Next

LEMMA PoolKeepsOrder ==
  ASSUME PoolInv, [Next]_vars
  PROVE  SlicesInOrder' /\ PoolShape'
<1> USE ThreadsType
<1>0. /\ TypeOK /\ SlicesInOrder /\ PoolShape
      /\ NumThreads \in Nat /\ Threads \subseteq Nat /\ Files \subseteq Nat /\ Total \in Nat
  BY PoolAssumption DEF PoolInv, Threads, Files, PoolAssumption
<1>t. /\ at \in [Threads -> Nat] /\ phase \in [Files -> {"todo", "held", "done"}]
      /\ pc \in [Threads -> {"unborn", "loop", "read", "exit"} \cup Busy]
      /\ launched \in 0 .. NumThreads
  BY <1>0 DEF TypeOK
<1>1. CASE UNCHANGED vars
  BY <1>0, <1>1 DEF SlicesInOrder, PoolShape, vars
<1>2. CASE Launch
  <2>1. UNCHANGED <<at, phase, announced>>
    BY <1>2 DEF Launch
  <2>2. CASE MoreToLaunch
    <3>1. launched \in Threads /\ launched' = launched + 1 /\ stage' = stage
          /\ pc' = [pc EXCEPT ![launched] = "loop"]
      BY <1>2, <1>t, <2>2 DEF Launch, MoreToLaunch, Threads
    <3>2. pc[launched] = "unborn" /\ pc'[launched] = "loop"
          /\ \A v \in Threads \ {launched} : pc'[v] = pc[v]
      BY <1>0, <1>t, <3>1 DEF PoolShape
    <3>3. SlicesInOrder'
      BY <1>0, <2>1, <3>1, <3>2 DEF SlicesInOrder, Busy
    <3>4. stage \notin {"ready", "done"}
      BY <1>2 DEF Launch
    <3>5. \A v \in Threads : v >= launched' => pc'[v] = "unborn"
      BY <1>0, <1>t, <3>1, <3>2 DEF PoolShape
    <3>6. QED
      BY <1>0, <2>1, <3>1, <3>2, <3>3, <3>4, <3>5 DEF PoolShape, Busy
  <2>3. CASE ~ MoreToLaunch
    BY <1>0, <1>2, <2>1, <2>3 DEF Launch, SlicesInOrder, PoolShape
  <2>4. QED
    BY <2>2, <2>3
<1>3. CASE Join
  BY <1>0, <1>3 DEF Join, Joined, SlicesInOrder, PoolShape
<1>4. CASE Done
  BY <1>0, <1>4 DEF Done, SlicesInOrder, PoolShape
<1>5. ASSUME NEW w \in Threads, WorkerStep(w)
      PROVE  SlicesInOrder' /\ PoolShape'
  <2>0. UNCHANGED <<announced, stage, launched>>
    BY <1>5 DEF WorkerStep, Loop, Read, Skip, Fail, Store, Count, Report
  <2>1. CASE NextFile(w) /\ pc[w] \in Busy
    BY <2>0, <2>1, NextFileKeeps
  <2>2. CASE Loop(w)
    <3>1. UNCHANGED <<at, phase>> /\ pc[w] = "loop"
          /\ pc'[w] = (IF at[w] < Total THEN "read" ELSE "exit")
          /\ \A v \in Threads \ {w} : pc'[v] = pc[v]
      BY <1>t, <2>2 DEF Loop, Goto
    <3>2. SlicesInOrder'
      BY <1>0, <3>1 DEF SlicesInOrder, Busy
    <3>3. at[w] \in Nat /\ stage \notin {"ready", "done"} /\ w < launched
      BY <1>0, <1>t, <3>1 DEF PoolShape
    <3>4. QED
      BY <1>0, <2>0, <3>1, <3>2, <3>3 DEF PoolShape, Busy
  <2>3. CASE Read(w)
    <3>1. UNCHANGED at /\ pc[w] = "read" /\ pc'[w] = "sift"
          /\ \A v \in Threads \ {w} : pc'[v] = pc[v]
      BY <1>t, <2>3 DEF Read, Goto
    <3>2. at[w] \in Files /\ at[w] \in Nat /\ at[w] % NumThreads = w /\ at[w] < Total
      BY <1>0, <1>t, <3>1 DEF PoolShape, Files
    <3>3. phase'[at[w]] = "held" /\ \A f \in Files \ {at[w]} : phase'[f] = phase[f]
      BY <1>t, <2>3, <3>2 DEF Read
    <3>4. SlicesInOrder'
      <4> SUFFICES ASSUME NEW v \in Threads, NEW f \in Files, f % NumThreads = v
                   PROVE  /\ f < at'[v] => phase'[f] = "done"
                          /\ f > at'[v] => phase'[f] = "todo"
                          /\ f = at'[v] => phase'[f] = IF pc'[v] \in Busy THEN "held" ELSE "todo"
        BY DEF SlicesInOrder
      <4>1. CASE f = at[w]
        BY <3>1, <3>2, <3>3, <4>1 DEF Busy
      <4>2. CASE f # at[w]
        BY <1>0, <3>1, <3>3, <4>2 DEF SlicesInOrder
      <4>3. QED
        BY <4>1, <4>2
    <3>5. stage \notin {"ready", "done"} /\ w < launched
      BY <1>0, <1>t, <3>1 DEF PoolShape
    <3>6. QED
      BY <1>0, <2>0, <3>1, <3>2, <3>4, <3>5 DEF PoolShape, Busy
  <2>4. CASE Store(w) \/ (Count(w) /\ ~ NextFile(w))
    <3>1. UNCHANGED <<at, phase>> /\ pc[w] \in Busy /\ pc'[w] \in Busy
          /\ \A v \in Threads \ {w} : pc'[v] = pc[v]
      BY <1>t, <2>4 DEF Store, Count, Goto, Busy
    <3>2. SlicesInOrder'
      BY <1>0, <3>1 DEF SlicesInOrder
    <3>3. at[w] < Total /\ stage \notin {"ready", "done"} /\ w < launched
      BY <1>0, <1>t, <3>1 DEF PoolShape, Busy
    <3>4. QED
      BY <1>0, <2>0, <3>1, <3>2, <3>3 DEF PoolShape, Busy
  <2>5. QED
    BY <1>5, <2>1, <2>2, <2>3, <2>4 DEF WorkerStep, Skip, Fail, Count, Report, Busy
<1>6. QED
  BY <1>1, <1>2, <1>3, <1>4, <1>5 DEF Next, IndexerStep

LEMMA PoolInductive == PoolInv /\ [Next]_vars => PoolInv'
BY PoolKeepsType, PoolKeepsOrder DEF PoolInv

\* The invariant of the indexing threads in one piece.
THEOREM PoolInvariant == Spec => []PoolInv
<1>1. QED
  BY InitPool, PoolInductive, PTL DEF Spec

\* Types, for any number of files and cores.
THEOREM PoolTypes == Spec => []TypeOK
BY PoolInvariant, PTL DEF PoolInv

\* No two threads ever meet on a file, and none is passed over: the stride of
\* the worker's loop in indexWorkspace keeps every thread in its own slice.
THEOREM SlicesStayApart == Spec => []SlicesInOrder
BY PoolInvariant, PTL DEF PoolInv

-------------------------------------------------------------------------------

LEMMA FinishStep ==
  ASSUME PoolInv, NEW w \in Threads, pc[w] \in Busy, NextFile(w), UNCHANGED announced
  PROVE  \E f \in Files : Sweep!Finish(f)
<1>1. at[w] \in Files /\ at[w] % NumThreads = w
  BY PoolAssumption DEF PoolInv, PoolShape, TypeOK, Files, PoolAssumption
<1>2. phase[at[w]] = "held"
  BY <1>1, PoolAssumption DEF PoolInv, SlicesInOrder, TypeOK, Files, PoolAssumption
<1>3. Sweep!Finish(at[w])
  BY <1>2 DEF Sweep!Finish, NextFile
<1>4. QED
  BY <1>1, <1>3

LEMMA SweepStep ==
  ASSUME PoolInv, [Next]_vars
  PROVE  [Sweep!Next]_Sweep!sweepVars
<1> USE DEF Sweep!Next, Sweep!sweepVars
<1>1. CASE UNCHANGED vars
  BY <1>1 DEF vars
<1>2. CASE Launch \/ Join
  BY <1>2 DEF Launch, Join
<1>3. CASE Done
  <2>1. ~ announced
    BY <1>3 DEF Done, PoolInv, PoolShape
  <2>2. ASSUME NEW f \in Files PROVE phase[f] = "done"
    <3>1. f \in Nat /\ f < Total
      BY PoolAssumption DEF Files, PoolAssumption
    <3>2. f % NumThreads \in Threads
      BY <3>1, ThreadsType, Residues DEF Threads
    <3>3. at[f % NumThreads] >= Total /\ at[f % NumThreads] \in Nat
      BY <1>3, <3>2 DEF Done, PoolInv, PoolShape, TypeOK
    <3>4. f < at[f % NumThreads]
      BY <3>1, <3>3, PoolAssumption DEF PoolAssumption
    <3>5. QED
      BY <3>2, <3>4 DEF PoolInv, SlicesInOrder
  <2>3. QED
    BY <1>3, <2>1, <2>2 DEF Done, Sweep!Announce
<1>4. ASSUME NEW w \in Threads, WorkerStep(w)
      PROVE  [Sweep!Next]_Sweep!sweepVars
  <2>0. UNCHANGED announced
    BY <1>4 DEF WorkerStep, Loop, Read, Skip, Fail, Store, Count, Report
  <2>1. CASE NextFile(w) /\ pc[w] \in Busy
    BY <2>0, <2>1, FinishStep
  <2>2. CASE Read(w)
    <3>1. at[w] \in Files /\ at[w] % NumThreads = w
      BY <2>2, PoolAssumption DEF Read, PoolInv, PoolShape, TypeOK, Files, PoolAssumption
    <3>2. phase[at[w]] = "todo"
      BY <2>2, <3>1, PoolAssumption
      DEF Read, PoolInv, SlicesInOrder, TypeOK, Files, Busy, PoolAssumption
    <3>3. Sweep!Take(at[w])
      BY <2>0, <2>2, <3>2 DEF Read, Sweep!Take
    <3>4. QED
      BY <3>1, <3>3
  <2>3. CASE Loop(w) \/ Store(w) \/ (Count(w) /\ ~ NextFile(w))
    BY <2>0, <2>3 DEF Loop, Store, Count
  <2>4. QED
    BY <1>4, <2>1, <2>2, <2>3 DEF WorkerStep, Skip, Fail, Count, Report, Busy
<1>5. QED
  BY <1>1, <1>2, <1>3, <1>4 DEF Next, IndexerStep

\* The pool of indexWorkspace is a FileSweep: every file once, then the notice.
THEOREM PoolIsSweep == Spec => RefinesSweep
<1>1. Init => Sweep!Init
  BY DEF Init, Sweep!Init
<1>2. QED
  BY <1>1, PoolInvariant, SweepStep, PTL DEF Spec, RefinesSweep, Sweep!Spec

-------------------------------------------------------------------------------
(* The counters.                                                            *)

Finished  == {f \in Files : phase[f] = "done"}
Reporting == {w \in Threads : pc[w] = "report"}

LEMMA PoolIsFinite ==
  /\ IsFiniteSet(Finished) /\ Cardinality(Finished) \in Nat
  /\ IsFiniteSet(Reporting) /\ Cardinality(Reporting) \in Nat
<1>1. IsFiniteSet(Files) /\ IsFiniteSet(Threads)
  BY FS_Interval, ThreadsType, PoolAssumption DEF Files, Threads, PoolAssumption
<1>2. Finished \in SUBSET Files /\ Reporting \in SUBSET Threads
  BY DEF Finished, Reporting
<1>3. IsFiniteSet(Finished) /\ IsFiniteSet(Reporting)
  BY <1>1, <1>2, FS_Subset
<1>4. QED
  BY <1>3, FS_CardinalityType

\* A file that is left behind was not finished before.
LEMMA OneMoreFinished ==
  ASSUME PoolInv, NEW w \in Threads, pc[w] \in Busy, NextFile(w)
  PROVE  Cardinality(Finished') = Cardinality(Finished) + 1
<1>1. at[w] \in Files /\ at[w] % NumThreads = w
  BY PoolAssumption DEF PoolInv, PoolShape, TypeOK, Files, PoolAssumption
<1>2. phase[at[w]] = "held"
  BY <1>1, PoolAssumption DEF PoolInv, SlicesInOrder, TypeOK, Files, PoolAssumption
<1>3. Finished' = Finished \cup {at[w]} /\ at[w] \notin Finished
  BY <1>1, <1>2 DEF Finished, NextFile, PoolInv, TypeOK
<1>4. QED
  BY <1>3, PoolIsFinite, FS_AddElement

\* A thread that comes to its report, and one that leaves it.
LEMMA OneMoreReporting ==
  ASSUME TypeOK, NEW w \in Threads, pc[w] # "report", Goto(w, "report")
  PROVE  Cardinality(Reporting') = Cardinality(Reporting) + 1
<1>1. Reporting' = Reporting \cup {w} /\ w \notin Reporting
  BY DEF Reporting, Goto, TypeOK
<1>2. QED
  BY <1>1, PoolIsFinite, FS_AddElement

LEMMA OneLessReporting ==
  ASSUME TypeOK, NEW w \in Threads, pc[w] = "report", Goto(w, "loop")
  PROVE  Cardinality(Reporting') = Cardinality(Reporting) - 1
<1>1. Reporting' = Reporting \ {w} /\ w \in Reporting
  BY DEF Reporting, Goto, TypeOK
<1>2. QED
  BY <1>1, PoolIsFinite, FS_RemoveElement

LEMMA SameReporting ==
  ASSUME TypeOK, NEW w \in Threads, NEW l, pc[w] # "report", l # "report", Goto(w, l)
  PROVE  Reporting' = Reporting
BY DEF Reporting, Goto, TypeOK

LEMMA TallyStep ==
  ASSUME PoolInv, CountersTally, [Next]_vars
  PROVE  CountersTally'
<1>0. /\ indexed + skipped + failed = Cardinality(Finished) + Cardinality(Reporting)
      /\ CountersTally' <=> indexed' + skipped' + failed'
                              = Cardinality(Finished') + Cardinality(Reporting')
  BY DEF CountersTally, Finished, Reporting
<1>t. TypeOK /\ indexed \in Nat /\ skipped \in Nat /\ failed \in Nat
  BY DEF PoolInv, TypeOK
<1>1. CASE UNCHANGED vars
  BY <1>0, <1>1 DEF vars, counters, Finished, Reporting
<1>2. CASE Launch
  <2>1. UNCHANGED <<phase, counters>>
    BY <1>2 DEF Launch
  <2>2. Reporting' = Reporting
    <3>1. CASE MoreToLaunch
      <4>1. launched \in Threads
        BY <1>t, <3>1, ThreadsType DEF TypeOK, MoreToLaunch, Threads
      <4>2. pc[launched] = "unborn"
        BY <4>1, <1>t, ThreadsType DEF PoolInv, PoolShape, TypeOK
      <4>3. QED
        BY <1>2, <1>t, <3>1, <4>1, <4>2 DEF Launch, Reporting, TypeOK
    <3>2. CASE ~ MoreToLaunch
      BY <1>2, <3>2 DEF Launch, Reporting
    <3>3. QED
      BY <3>1, <3>2
  <2>3. QED
    BY <1>0, <2>1, <2>2 DEF counters, Finished
<1>3. CASE Join \/ Done
  BY <1>0, <1>3 DEF Join, Done, counters, Finished, Reporting
<1>4. ASSUME NEW w \in Threads, WorkerStep(w)
      PROVE  CountersTally'
  <2>1. CASE Loop(w) \/ Read(w) \/ Store(w)
    <3>1. Reporting' = Reporting
      BY <1>t, <2>1, SameReporting DEF Loop, Read, Store
    <3>2. Finished' = Finished
      <4>1. CASE Read(w)
        <5>1. at[w] \in Files /\ at[w] % NumThreads = w
          BY <4>1, PoolAssumption DEF Read, PoolInv, PoolShape, TypeOK, Files, PoolAssumption
        <5>2. phase[at[w]] = "todo"
          BY <4>1, <5>1, PoolAssumption
          DEF Read, PoolInv, SlicesInOrder, TypeOK, Files, Busy, PoolAssumption
        <5>3. QED
          BY <1>t, <4>1, <5>1, <5>2 DEF Read, Finished, TypeOK
      <4>2. CASE Loop(w) \/ Store(w)
        BY <4>2 DEF Loop, Store, Finished
      <4>3. QED
        BY <2>1, <4>1, <4>2
    <3>3. UNCHANGED <<indexed, skipped, failed>>
      BY <2>1 DEF Loop, Read, Store, counters
    <3>4. QED
      BY <1>0, <3>1, <3>2, <3>3
  <2>2. CASE Skip(w) \/ Fail(w)
    <3>1. pc[w] = "sift" /\ NextFile(w) /\ indexed' + skipped' + failed' = indexed + skipped + failed + 1
      BY <1>t, <2>2 DEF Skip, Fail
    <3>2. Cardinality(Finished') = Cardinality(Finished) + 1
      BY <3>1, OneMoreFinished DEF Busy
    <3>3. Reporting' = Reporting
      BY <1>t, <3>1, SameReporting DEF NextFile
    <3>4. QED
      BY <1>0, <1>t, <3>1, <3>2, <3>3, PoolIsFinite
  <2>3. CASE Count(w)
    <3>1. pc[w] = "count" /\ indexed' = indexed + 1 /\ UNCHANGED <<skipped, failed>>
      BY <2>3 DEF Count
    <3>2. CASE Goto(w, "report") /\ UNCHANGED <<phase, at>>
      <4>1. Cardinality(Reporting') = Cardinality(Reporting) + 1
        BY <1>t, <3>1, <3>2, OneMoreReporting
      <4>2. Finished' = Finished
        BY <3>2 DEF Finished
      <4>3. QED
        BY <1>0, <1>t, <3>1, <4>1, <4>2, PoolIsFinite
    <3>3. CASE NextFile(w)
      <4>1. Cardinality(Finished') = Cardinality(Finished) + 1
        BY <3>1, <3>3, OneMoreFinished DEF Busy
      <4>2. Reporting' = Reporting
        BY <1>t, <3>1, <3>3, SameReporting DEF NextFile
      <4>3. QED
        BY <1>0, <1>t, <3>1, <4>1, <4>2, PoolIsFinite
    <3>4. QED
      BY <2>3, <3>2, <3>3 DEF Count
  <2>4. CASE Report(w)
    <3>1. pc[w] = "report" /\ NextFile(w) /\ UNCHANGED <<indexed, skipped, failed>>
      BY <2>4 DEF Report, counters
    <3>2. Cardinality(Finished') = Cardinality(Finished) + 1
      BY <3>1, OneMoreFinished DEF Busy
    <3>3. Cardinality(Reporting') = Cardinality(Reporting) - 1
      BY <1>t, <3>1, OneLessReporting DEF NextFile
    <3>4. QED
      BY <1>0, <1>t, <3>1, <3>2, <3>3, PoolIsFinite
  <2>5. QED
    BY <1>4, <2>1, <2>2, <2>3, <2>4 DEF WorkerStep
<1>5. QED
  BY <1>1, <1>2, <1>3, <1>4 DEF Next, IndexerStep

LEMMA InitTally == Init => CountersTally
<1> SUFFICES ASSUME Init PROVE CountersTally
  OBVIOUS
<1>1. Finished = {} /\ Reporting = {}
  BY DEF Init, Finished, Reporting
<1>2. Cardinality(Finished) = 0 /\ Cardinality(Reporting) = 0
  BY <1>1, FS_EmptySet
<1>3. indexed = 0 /\ skipped = 0 /\ failed = 0
  BY DEF Init
<1>4. QED
  BY <1>2, <1>3 DEF CountersTally, Finished, Reporting

\* The three atomic counters of indexWorkspace account for every finished file,
\* for any number of files and threads and whatever the files hold.
THEOREM CountersAddUp == Spec => []CountersTally
<1>1. PoolInv /\ PoolInv' /\ CountersTally /\ [Next]_vars => CountersTally'
  BY TallyStep
<1>2. QED
  BY InitTally, PoolInvariant, <1>1, PTL DEF Spec

-------------------------------------------------------------------------------
(* The milestones.                                                          *)

\* A multiple that was reached is with the one thread that counted it, or was
\* reported; no two threads, and no two reports, have the same.
MilestoneInv ==
  /\ \A i, j \in DOMAIN reports : i # j => reports[i] # reports[j]
  /\ \A i \in DOMAIN reports : reports[i] \in Milestones(indexed)
  /\ \A w \in Threads : pc[w] = "report" =>
       /\ count[w] \in Milestones(indexed)
       /\ \A i \in DOMAIN reports : reports[i] # count[w]
       /\ \A v \in Threads : pc[v] = "report" /\ v # w => count[v] # count[w]
  /\ \A m \in Milestones(indexed) :
       \/ \E i \in DOMAIN reports : reports[i] = m
       \/ \E w \in Threads : pc[w] = "report" /\ count[w] = m

LEMMA NextMilestone ==
  ASSUME NEW n \in Nat
  PROVE  /\ \A m \in Milestones(n) : m \in Milestones(n + 1) /\ m # n + 1 /\ m \in Nat
         /\ (n + 1) % Every = 0 => n + 1 \in Milestones(n + 1)
         /\ \A m \in Milestones(n + 1) : m \in Milestones(n) \/ (m = n + 1 /\ (n + 1) % Every = 0)
<1>1. 1 .. n + 1 = (1 .. n) \cup {n + 1} /\ n + 1 \notin 1 .. n /\ 1 .. n \subseteq Nat
  OBVIOUS
<1>2. QED
  BY <1>1 DEF Milestones

LEMMA InitMilestones == Init => MilestoneInv
<1> SUFFICES ASSUME Init PROVE MilestoneInv
  OBVIOUS
<1>1. Milestones(indexed) = {}
  BY DEF Init, Milestones
<1>2. DOMAIN reports = {}
  BY EmptySeq, LenProperties DEF Init
<1>3. \A w \in Threads : pc[w] # "report"
  BY DEF Init
<1>4. QED
  BY <1>1, <1>2, <1>3 DEF MilestoneInv

\* What leaves the reports, the counter and the threads' counts alone, and brings
\* no thread to its report or away from it.
LEMMA MilestonesStay ==
  ASSUME MilestoneInv, UNCHANGED <<reports, indexed, count>>,
         \A v \in Threads : pc'[v] = "report" <=> pc[v] = "report"
  PROVE  MilestoneInv'
BY DEF MilestoneInv

LEMMA MilestoneStep ==
  ASSUME PoolInv, MilestoneInv, [Next]_vars
  PROVE  MilestoneInv'
<1>t. /\ TypeOK /\ indexed \in Nat /\ count \in [Threads -> Nat] /\ reports \in Seq(Nat)
      /\ pc \in [Threads -> {"unborn", "loop", "read", "exit"} \cup Busy]
  BY DEF PoolInv, TypeOK
<1>1. CASE UNCHANGED vars
  BY <1>1, MilestonesStay DEF vars, counters
<1>2. CASE IndexerStep
  <2>1. UNCHANGED <<reports, indexed, count>>
    BY <1>2 DEF IndexerStep, Launch, Join, Done, counters
  <2>2. \A v \in Threads : pc'[v] = "report" <=> pc[v] = "report"
    <3>1. CASE Launch /\ MoreToLaunch
      <4>1. launched \in Threads
        BY <1>t, <3>1, ThreadsType DEF TypeOK, MoreToLaunch, Threads
      <4>2. pc[launched] = "unborn"
        BY <4>1, <1>t, ThreadsType DEF PoolInv, PoolShape, TypeOK
      <4>3. QED
        BY <1>t, <3>1, <4>1, <4>2 DEF Launch
    <3>2. CASE UNCHANGED pc
      BY <3>2
    <3>3. QED
      BY <1>2, <3>1, <3>2 DEF IndexerStep, Launch, Join, Done
  <2>3. QED
    BY <2>1, <2>2, MilestonesStay
<1>3. ASSUME NEW w \in Threads, WorkerStep(w)
      PROVE  MilestoneInv'
  <2>1. CASE Loop(w) \/ Read(w) \/ Skip(w) \/ Fail(w) \/ Store(w)
    <3>1. UNCHANGED <<reports, indexed, count>>
      BY <2>1 DEF Loop, Read, Skip, Fail, Store, counters
    <3>2. pc[w] # "report" /\ pc'[w] # "report" /\ \A v \in Threads \ {w} : pc'[v] = pc[v]
      BY <1>t, <2>1 DEF Loop, Read, Skip, Fail, Store, NextFile, Goto
    <3>3. QED
      BY <3>1, <3>2, MilestonesStay
  <2>2. CASE Count(w)
    <3>1. /\ pc[w] = "count" /\ indexed' = indexed + 1 /\ reports' = reports
          /\ count'[w] = indexed + 1 /\ \A v \in Threads \ {w} : count'[v] = count[v]
          /\ pc'[w] = (IF (indexed + 1) % Every = 0 THEN "report" ELSE "loop")
          /\ \A v \in Threads \ {w} : pc'[v] = pc[v]
      BY <1>t, <2>2 DEF Count, Counted, NextFile, Goto
    <3>2. \A m \in Milestones(indexed) : m \in Milestones(indexed') /\ m # indexed + 1
      BY <1>t, <3>1, NextMilestone
    <3>3. /\ \A i, j \in DOMAIN reports' : i # j => reports'[i] # reports'[j]
          /\ \A i \in DOMAIN reports' : reports'[i] \in Milestones(indexed')
      BY <3>1, <3>2 DEF MilestoneInv
    <3>4. ASSUME NEW v \in Threads, pc'[v] = "report"
          PROVE  /\ count'[v] \in Milestones(indexed')
                 /\ \A i \in DOMAIN reports' : reports'[i] # count'[v]
                 /\ \A u \in Threads : pc'[u] = "report" /\ u # v => count'[u] # count'[v]
      <4>1. CASE v = w
        <5>1. count'[v] \in Milestones(indexed')
          BY <1>t, <3>1, <3>4, <4>1, NextMilestone
        <5>2. QED
          BY <3>1, <3>2, <4>1, <5>1 DEF MilestoneInv
      <4>2. CASE v # w
        <5>1. pc[v] = "report" /\ count'[v] = count[v]
          BY <3>1, <3>4, <4>2
        <5>2. count[v] \in Milestones(indexed') /\ count[v] # indexed + 1
          BY <3>2, <5>1 DEF MilestoneInv
        <5>3. QED
          BY <3>1, <5>1, <5>2 DEF MilestoneInv
      <4>3. QED
        BY <4>1, <4>2
    <3>5. ASSUME NEW m \in Milestones(indexed')
          PROVE  \/ \E i \in DOMAIN reports' : reports'[i] = m
                 \/ \E v \in Threads : pc'[v] = "report" /\ count'[v] = m
      <4>1. CASE m \in Milestones(indexed)
        <5>1. CASE \E i \in DOMAIN reports : reports[i] = m
          BY <3>1, <5>1
        <5>2. ASSUME NEW v \in Threads, pc[v] = "report", count[v] = m
              PROVE  pc'[v] = "report" /\ count'[v] = m
          BY <3>1, <5>2
        <5>3. QED
          BY <4>1, <5>1, <5>2 DEF MilestoneInv
      <4>2. CASE m = indexed + 1 /\ (indexed + 1) % Every = 0
        BY <3>1, <4>2
      <4>3. QED
        BY <1>t, <3>1, <4>1, <4>2, NextMilestone
    <3>6. QED
      BY <3>3, <3>4, <3>5 DEF MilestoneInv
  <2>3. CASE Report(w)
    <3>1. /\ pc[w] = "report" /\ UNCHANGED <<indexed, count>>
          /\ pc'[w] = "loop" /\ \A v \in Threads \ {w} : pc'[v] = pc[v]
      BY <1>t, <2>3 DEF Report, NextFile, Goto, counters
    <3>2. /\ DOMAIN reports' = (DOMAIN reports) \cup {Len(reports) + 1}
          /\ reports'[Len(reports) + 1] = count[w]
          /\ \A i \in DOMAIN reports : reports'[i] = reports[i] /\ i # Len(reports) + 1
      <4>1. reports' = Append(reports, count[w]) /\ count[w] \in Nat
        BY <1>t, <2>3 DEF Report
      <4>2. Len(reports) \in Nat /\ DOMAIN reports = 1 .. Len(reports)
        BY <1>t, LenProperties
      <4>3. reports' \in Seq(Nat) /\ Len(reports') = Len(reports) + 1
        BY <1>t, <4>1, AppendProperties
      <4>4. DOMAIN reports' = 1 .. Len(reports) + 1
        BY <4>3, LenProperties
      <4>5. QED
        BY <1>t, <4>1, <4>2, <4>4, AppendProperties
    <3>3. \A i, j \in DOMAIN reports' : i # j => reports'[i] # reports'[j]
      BY <3>1, <3>2 DEF MilestoneInv
    <3>4. \A i \in DOMAIN reports' : reports'[i] \in Milestones(indexed')
      BY <3>1, <3>2 DEF MilestoneInv
    <3>5. \A v \in Threads : pc'[v] = "report" => v # w /\ pc[v] = "report" /\ count'[v] = count[v]
      BY <3>1
    <3>6. ASSUME NEW v \in Threads, pc'[v] = "report"
          PROVE  /\ count'[v] \in Milestones(indexed')
                 /\ \A i \in DOMAIN reports' : reports'[i] # count'[v]
                 /\ \A u \in Threads : pc'[u] = "report" /\ u # v => count'[u] # count'[v]
      BY <3>1, <3>2, <3>5, <3>6 DEF MilestoneInv
    <3>7. ASSUME NEW m \in Milestones(indexed')
          PROVE  \/ \E i \in DOMAIN reports' : reports'[i] = m
                 \/ \E v \in Threads : pc'[v] = "report" /\ count'[v] = m
      BY <3>1, <3>2 DEF MilestoneInv
    <3>8. QED
      BY <3>3, <3>4, <3>6, <3>7 DEF MilestoneInv
  <2>4. QED
    BY <1>3, <2>1, <2>2, <2>3 DEF WorkerStep
<1>4. QED
  BY <1>1, <1>2, <1>3 DEF Next

\* "only one thread will hit this", in the words of indexWorkspace: every multiple
\* that is reached is reported once, and by the end all of them are.
THEOREM OneThreadHitsThis == Spec => []MilestonesReportedOnce
<1>1. PoolInv /\ MilestoneInv /\ [Next]_vars => MilestoneInv'
  BY MilestoneStep
<1>2. PoolInv /\ MilestoneInv => MilestonesReportedOnce
  <2> SUFFICES ASSUME PoolInv, MilestoneInv PROVE MilestonesReportedOnce
    OBVIOUS
  <2>1. DOMAIN reports = 1 .. Len(reports)
    BY LenProperties DEF PoolInv, TypeOK
  <2>2. announced => \A w \in Threads : pc[w] # "report"
    BY DEF PoolInv, PoolShape
  <2>3. QED
    BY <2>1, <2>2 DEF MilestoneInv, MilestonesReportedOnce
<1>3. QED
  BY InitMilestones, PoolInvariant, <1>1, <1>2, PTL DEF Spec
===============================================================================

------------------------------- MODULE IndexPool -------------------------------
(***************************************************************************)
(* WorkspaceManager::indexWorkspace: up to eight threads index the files   *)
(* that discovery found.  Thread w takes the files w, w + n, w + 2n, ...   *)
(* where n is the number of threads; atomic counters say how far they are; *)
(* the indexing thread joins them and then reports "Ready" and sends       *)
(* emmy/indexingDone.  Files are named by their index in luaFiles.         *)
(***************************************************************************)
EXTENDS Integers, Sequences, FiniteSets

CONSTANTS Total,  \* luaFiles.size()
          Cores,  \* std::thread::hardware_concurrency()
          Every   \* progress is reported every so many files (1000)

ASSUME PoolAssumption ==
  Total \in Nat /\ Cores \in Nat /\ Every \in Nat \ {0}

Files == 0 .. Total - 1

\* What reading and parsing a file leads to.
Kinds == {"lua", "empty", "large", "throws"}

NumThreads == IF Cores = 0 THEN 4 ELSE IF Cores > 8 THEN 8 ELSE Cores
Threads == 0 .. NumThreads - 1

VARIABLES
  kind,      \* [Files -> Kinds], chosen once
  phase,     \* how far each file is, as in FileSweep
  announced, \* emmy/indexingDone sent
  stage,     \* the indexing thread: "launch", "join", "ready", "done"
  launched,  \* threads started so far
  pc,        \* where each worker is
  at,        \* its idx
  count,     \* the value its last ++indexedFiles returned
  indexed, skipped, failed,   \* the atomic counters
  reports    \* counts reported so far, in the order sent

counters == <<indexed, skipped, failed>>
vars == <<kind, phase, announced, stage, launched, pc, at, count, counters,
          reports>>

Init ==
  /\ kind \in [Files -> Kinds]
  /\ phase = [f \in Files |-> "todo"] /\ announced = FALSE
  /\ stage = "launch" /\ launched = 0
  /\ pc = [w \in Threads |-> "unborn"]
  /\ at = [w \in Threads |-> w] /\ count = [w \in Threads |-> 0]
  /\ indexed = 0 /\ skipped = 0 /\ failed = 0
  /\ reports = <<>>

-------------------------------------------------------------------------------
(* The worker lambda.                                                       *)

Crowded(i) == i + 1                  \* variant: the next file, not the next of the slice
NextIndex(i) == i + NumThreads

Goto(w, l) == pc' = [pc EXCEPT ![w] = l]

\* Leave file at[w] behind: continue with the slice.
NextFile(w) ==
  /\ phase' = [phase EXCEPT ![at[w]] = "done"]
  /\ at' = [at EXCEPT ![w] = NextIndex(@)]
  /\ Goto(w, "loop")

Loop(w) ==
  /\ pc[w] = "loop"
  /\ Goto(w, IF at[w] < Total THEN "read" ELSE "exit")
  /\ UNCHANGED <<kind, phase, announced, stage, launched, at, count, counters,
                 reports>>

Read(w) ==
  /\ pc[w] = "read"
  /\ phase' = [phase EXCEPT ![at[w]] = "held"]
  /\ Goto(w, "sift")
  /\ UNCHANGED <<kind, announced, stage, launched, at, count, counters, reports>>

\* Nothing readable, or more than 500 KB.
Skip(w) ==
  /\ pc[w] = "sift"
  /\ kind[at[w]] \in {"empty", "large"}
  /\ skipped' = skipped + 1
  /\ NextFile(w)
  /\ UNCHANGED <<kind, announced, stage, launched, count, indexed, failed, reports>>

\* catch (...)
Uncaught(w) == FALSE                 \* variant: the thread dies of it
Caught(w) == kind[at[w]] = "throws"

Fail(w) ==
  /\ pc[w] = "sift"
  /\ Caught(w)
  /\ failed' = failed + 1
  /\ NextFile(w)
  /\ UNCHANGED <<kind, announced, stage, launched, count, indexed, skipped, reports>>

\* parseDocument without the lock and storeDocument with it.
Store(w) ==
  /\ pc[w] = "sift"
  /\ kind[at[w]] = "lua"
  /\ Goto(w, "count")
  /\ UNCHANGED <<kind, phase, announced, stage, launched, at, count, counters,
                 reports>>

\* int count = ++indexedFiles
PostIncrement(n) == n                \* variant: indexedFiles++
Counted(n) == n + 1

Count(w) ==
  /\ pc[w] = "count"
  /\ indexed' = indexed + 1
  /\ count' = [count EXCEPT ![w] = Counted(indexed)]
  /\ IF Counted(indexed) % Every = 0
     THEN Goto(w, "report") /\ UNCHANGED <<phase, at>>
     ELSE NextFile(w)
  /\ UNCHANGED <<kind, announced, stage, launched, skipped, failed, reports>>

Report(w) ==
  /\ pc[w] = "report"
  /\ reports' = Append(reports, count[w])
  /\ NextFile(w)
  /\ UNCHANGED <<kind, announced, stage, launched, count, counters>>

WorkerStep(w) ==
  Loop(w) \/ Read(w) \/ Skip(w) \/ Fail(w) \/ Store(w) \/ Count(w) \/ Report(w)

-------------------------------------------------------------------------------
(* The indexing thread.                                                     *)

MoreToLaunch == launched < NumThreads

Launch ==
  /\ stage = "launch"
  /\ IF MoreToLaunch
     THEN /\ pc' = [pc EXCEPT ![launched] = "loop"]
          /\ launched' = launched + 1
          /\ UNCHANGED stage
     ELSE /\ stage' = "join"
          /\ UNCHANGED <<pc, launched>>
  /\ UNCHANGED <<kind, phase, announced, at, count, counters, reports>>

Detached == TRUE                     \* variant: threads detached, not joined
Joined == \A w \in Threads : pc[w] = "exit"

Join ==
  /\ stage = "join"
  /\ Joined
  /\ stage' = "ready"
  /\ UNCHANGED <<kind, phase, announced, launched, pc, at, count, counters,
                 reports>>

\* reportProgress("Ready", 1.0f), then emmy/indexingDone.
Done ==
  /\ stage = "ready"
  /\ stage' = "done"
  /\ announced' = TRUE
  /\ UNCHANGED <<kind, phase, launched, pc, at, count, counters, reports>>

IndexerStep == Launch \/ Join \/ Done

Next == IndexerStep \/ \E w \in Threads : WorkerStep(w)

Fairness == WF_vars(IndexerStep) /\ \A w \in Threads : WF_vars(WorkerStep(w))

Spec == Init /\ [][Next]_vars /\ Fairness

-------------------------------------------------------------------------------
(* Properties.                                                              *)

Busy == {"sift", "count", "report"}

\* Every variable of the pool has its type.
TypeOK ==
  /\ kind \in [Files -> Kinds]
  /\ phase \in [Files -> {"todo", "held", "done"}] /\ announced \in BOOLEAN
  /\ stage \in {"launch", "join", "ready", "done"} /\ launched \in 0 .. NumThreads
  /\ pc \in [Threads -> {"unborn", "loop", "read", "exit"} \cup Busy]
  /\ at \in [Threads -> Nat] /\ count \in [Threads -> Nat]
  /\ indexed \in Nat /\ skipped \in Nat /\ failed \in Nat
  /\ reports \in Seq(Nat)

\* A thread of the worker lambda works through its slice in order: what lies before its index is
\* finished, what lies after it has not been touched by anyone.
SlicesInOrder ==
  \A w \in Threads : \A f \in Files : f % NumThreads = w =>
    /\ f < at[w] => phase[f] = "done"
    /\ f > at[w] => phase[f] = "todo"
    /\ f = at[w] => phase[f] = IF pc[w] \in Busy THEN "held" ELSE "todo"

\* What else SlicesInOrder rests on: a thread stays in its residue class, leaves
\* its loop only past the end, and Ready comes after the last thread.
PoolShape ==
  /\ \A w \in Threads :
       /\ at[w] % NumThreads = w
       /\ w >= launched => pc[w] = "unborn"
       /\ pc[w] \in {"read"} \cup Busy => at[w] < Total
       /\ pc[w] = "exit" => at[w] >= Total
  /\ stage \in {"ready", "done"} => \A w \in Threads : pc[w] = "exit"
  /\ announced <=> stage = "done"

PoolInv == TypeOK /\ SlicesInOrder /\ PoolShape

\* The three atomic counters account for every finished file and no other: none
\* is counted twice and, at the end, none is missing.
CountersTally ==
  indexed + skipped + failed
    = Cardinality({f \in Files : phase[f] = "done"})
        + Cardinality({w \in Threads : pc[w] = "report"})

\* "Progress reporting every 1000 files (only one thread will hit this)":
\* every multiple that is reached is reported once, and nothing else is.
Milestones(n) == {m \in 1 .. n : m % Every = 0}
MilestonesReportedOnce ==
  /\ \A i, j \in 1 .. Len(reports) : i # j => reports[i] # reports[j]
  /\ {reports[i] : i \in 1 .. Len(reports)} \subseteq Milestones(indexed)
  /\ announced => \A m \in Milestones(indexed) : \E i \in 1 .. Len(reports) : reports[i] = m

\* The pool is a FileSweep: every file is taken once and finished once, and
\* emmy/indexingDone is sent once, after all of them.
Sweep == INSTANCE FileSweep
RefinesSweep == Sweep!Spec

\* Indexing comes to an end: every thread leaves its loop, the join returns and
\* emmy/indexingDone is sent, whatever the files hold.
IndexingEnds == <>announced
===============================================================================

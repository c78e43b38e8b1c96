------------------------------- MODULE FileSweep -------------------------------
(***************************************************************************)
(* What indexing a workspace amounts to: every file that was discovered is *)
(* picked up once and finished once, in any order and any number at a      *)
(* time, and only after the last one is finished is the end announced.     *)
(* IndexPool implements it with threads; DocSync uses it as the other      *)
(* writer of the symbol index.                                             *)
(***************************************************************************)

CONSTANT Files

VARIABLES phase,      \* [Files -> Phases]
          announced   \* emmy/indexingDone has been sent

sweepVars == <<phase, announced>>

Phases == {"todo", "held", "done"}

Init ==
  /\ phase = [f \in Files |-> "todo"]
  /\ announced = FALSE

\* The file is read ...
Take(f) ==
  /\ phase[f] = "todo"
  /\ phase' = [phase EXCEPT ![f] = "held"]
  /\ UNCHANGED announced

\* ... and later stored, skipped or given up.
Finish(f) ==
  /\ phase[f] = "held"
  /\ phase' = [phase EXCEPT ![f] = "done"]
  /\ UNCHANGED announced

Announce ==
  /\ ~ announced
  /\ \A f \in Files : phase[f] = "done"
  /\ announced' = TRUE
  /\ UNCHANGED phase

Next == Announce \/ \E f \in Files : Take(f) \/ Finish(f)

Spec == Init /\ [][Next]_sweepVars
===============================================================================

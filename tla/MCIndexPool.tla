------------------------------ MODULE MCIndexPool ------------------------------
(* Two threads that share five files, with a report every second one.       *)
EXTENDS IndexPool
===============================================================================

---------------------------- MODULE MCLuaPrograms ----------------------------
(***************************************************************************)
(* LuaPrograms for TLC.                                                    *)
(***************************************************************************)
EXTENDS LuaPrograms

MCMaxRest == [s \in 0..MaxSlips |-> IF s = 0 THEN 6 ELSE 3]
==============================================================================

-------------------------- MODULE MCEmmyDebugSession --------------------------
(* A debug session with two connections, one after or on top of the other, *)
(* one source file and one place for a breakpoint in it.                    *)
EXTENDS EmmyDebugSession
===============================================================================

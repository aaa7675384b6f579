------------------------------- MODULE MCSeq -------------------------------
(***************************************************************************)
(* Two callers in one process and a third in another; calls come from two  *)
(* of one process or from one of each process, one at a time or not.       *)
(* Blocks of two numbers, so that every second call refills; two blocks    *)
(* and a number more are drawn; one restart.  A process refers to one      *)
(* object by its map and to one by each of its callers: three objects      *)
(* never run out.                                                          *)
(***************************************************************************)
EXTENDS Seq

CONSTANTS p1, p2, a, b, d

MCProcs == {p1, p2}
MCCallers == {a, b, d}
MCLoads == {{a, b}, {a, d}}
MCProcOf == [c \in MCCallers |-> IF c = d THEN p2 ELSE p1]
============================================================================

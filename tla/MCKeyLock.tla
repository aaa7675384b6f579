----------------------------- MODULE MCKeyLock ------------------------------
(***************************************************************************)
(* Three goroutines on two keys, two cleaning loops.  When an innerLock is *)
(* created, the other two goroutines refer to at most two swept ones and   *)
(* the other key maps at most one: four addresses never run out.           *)
(***************************************************************************)
EXTENDS KeyLock
=============================================================================

--------------------------- MODULE MCTransaction ---------------------------
(***************************************************************************)
(* Two concurrent transactions on two databases, one nested call and two   *)
(* NewOrm calls each, pools of one connection (they starve each other) and *)
(* of two.                                                                 *)
(***************************************************************************)
EXTENDS Transaction
============================================================================

------------------------------ MODULE MCErrors -----------------------------
(***************************************************************************)
(* A server and a client that make errors and send them to one another.    *)
(***************************************************************************)
EXTENDS Errors

MCMessages == {<<"not found">>, <<"taken">>}
============================================================================

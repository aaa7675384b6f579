------------------------------ MODULE MCQueue ------------------------------
(***************************************************************************)
(* Three consumers, so that one sleeps while another is signalled and a    *)
(* third arrives and takes the value first; three values, so that two can  *)
(* be buffered while consumers are on their way; one observer.             *)
(***************************************************************************)
EXTENDS Queue
============================================================================

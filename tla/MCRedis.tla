------------------------------ MODULE MCRedis ------------------------------
(***************************************************************************)
(* Two goroutines with two calls each, one retry per call (three in the    *)
(* code): a release is executed late, when another goroutine has the lock; *)
(* a late SET takes the lock again after its release.                      *)
(***************************************************************************)
EXTENDS Redis, TLC

\* A lock without an owner promises nothing: three calls of the four are enough for all
\* that its callers can meet (a model bound).
PlainIsShort == use = "plain" => \E g \in Goroutines : calls[g] < MaxCalls

Symmetric == Permutations(Goroutines)
============================================================================

------------------------------- MODULE Lease -------------------------------
(***************************************************************************)
(* What SetNX and CompareAndDelete of pkg/redis promise, used as a lock    *)
(* that expires: one owner at a time.  Requests have numbers; the lock is  *)
(* given to one that was made, whoever made it and however long ago; who   *)
(* is told so while nobody has released it relies on it; and only a        *)
(* release of that very request, or time, takes it away.  Nothing here     *)
(* knows of attempts, retries and answers.  Module Redis, the code, is     *)
(* shown to implement this specification.                                  *)
(***************************************************************************)
EXTENDS Integers

CONSTANTS
    Owners,
    NoOne,      \* nobody has the lock
    Numbers     \* the numbers a request may have, positive

VARIABLES
    asked,      \* the number of each owner's last request, 0 before the first
    lease,      \* the request that has the lock, or NoOne
    releases,   \* the requests whose release is on its way
    holders,    \* the owners that rely on the lock
    lapsed      \* the requests whose time has run out

leaseVars == <<asked, lease, releases, holders, lapsed>>

Last(o) == <<o, asked[o]>>

LeaseInit ==
    /\ asked = [o \in Owners |-> 0]
    /\ lease = NoOne
    /\ releases = {} /\ holders = {} /\ lapsed = {}

\* Who asks does not have the lock, and asks with a number of his own.
Ask(o) ==
    /\ o \notin holders
    /\ \E n \in Numbers : n > asked[o] /\ asked' = [asked EXCEPT ![o] = n]
    /\ UNCHANGED <<lease, releases, holders, lapsed>>

\* The lock is free and goes to a request, which may be an old one.
Grant(o) ==
    /\ lease = NoOne
    /\ \E n \in Numbers : n <= asked[o] /\ lease' = <<o, n>>
    /\ UNCHANGED <<asked, releases, holders, lapsed>>

\* The owner learns that his last request has the lock, or had it until its time was over.
Told(o) ==
    /\ lease = Last(o) \/ Last(o) \in lapsed
    /\ Last(o) \notin releases
    /\ holders' = holders \cup {o}
    /\ UNCHANGED <<asked, lease, releases, lapsed>>

\* Who releases does not rely on the lock any more.
Release(o) ==
    /\ asked[o] # 0
    /\ releases' = releases \cup {Last(o)}
    /\ holders' = holders \ {o}
    /\ UNCHANGED <<asked, lease, lapsed>>

\* A release comes to its request's lock; more of them may be on their way.
Free ==
    /\ lease \in releases
    /\ lease' = NoOne
    /\ releases' \in {releases, releases \ {lease}}
    /\ UNCHANGED <<asked, holders, lapsed>>

\* A release comes to nothing.
Forget ==
    /\ \E r \in releases : releases' = releases \ {r}
    /\ UNCHANGED <<asked, lease, holders, lapsed>>

Lapse ==
    /\ lease # NoOne
    /\ lapsed' = lapsed \cup {lease}
    /\ lease' = NoOne
    /\ UNCHANGED <<asked, releases, holders>>

LeaseNext ==
    \/ \E o \in Owners : Ask(o) \/ Grant(o) \/ Told(o) \/ Release(o)
    \/ Free \/ Forget \/ Lapse

LeaseSpec == LeaseInit /\ [][LeaseNext]_leaseVars

----------------------------------------------------------------------------
\* Whoever relies on the lock has it, until his time is over (redis.go SetNX): so no
\* two do whose time is not.
OneOwner == \A o \in holders : Last(o) \notin lapsed => lease = Last(o)
============================================================================

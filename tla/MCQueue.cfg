CONSTANTS
    Consumers = {c1, c2, c3}
    Observers = {o1}
    MaxPush = 3
SPECIFICATION FairSpec
INVARIANT ExactlyOnceInOrder
INVARIANT NoLostWakeup
INVARIANT NobodySleepsOnClosed
INVARIANT EndIsFinal
PROPERTY CloseReleasesEveryPop
PROPERTY AcceptedIsDelivered

--------------------------- MODULE MCRuntimeStore ---------------------------
EXTENDS RuntimeStore, TLC

CONSTANTS d1, d2, elsewhere, p1, p2, p3, p4, v1, x1

\* Three posts to one dataset, the first two within the same microsecond once
\* rounded, and one to a dataset nobody registered.
MCOf == p1 :> d1 @@ p2 :> d1 @@ p3 :> d1 @@ p4 :> elsewhere
MCAt == p1 :> 1 @@ p2 :> 2 @@ p3 :> 3 @@ p4 :> 1
MCEpoch == p1 :> 1 @@ p2 :> 1 @@ p3 :> 2 @@ p4 :> 1
MCViewed == [v \in Views |-> d1]
=============================================================================

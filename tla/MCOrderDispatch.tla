---------------------------- MODULE MCOrderDispatch ----------------------------
(***************************************************************************)
(* Instances of OrderDispatch for TLC.  SameDistance lets a dispatch pick  *)
(* any ranked rider, as riders who move about may; ParkedRiders fixes an   *)
(* order of nearness.                                                      *)
(***************************************************************************)
EXTENDS OrderDispatch, TLC

SameDistance == [o \in Orders |-> [r \in Riders |-> 0]]

ParkedRiders ==
    CHOOSE d \in [Orders -> [Riders -> 1 .. Cardinality(Riders)]] :
        \A o \in Orders, r, s \in Riders : r # s => d[o][r] # d[o][s]

\* Bound: trips are followed no further than the assignment (an assigned order
\* may still be cancelled, which frees its rider).
TripsEndAtAssignment ==
    \A o \in Orders :
        status[o] \in PreAssignment \cup {"NONE", "ASSIGNED", "CANCELLED"}

RiderSymmetry == Permutations(Riders)
BothSymmetries == Permutations(Riders) \cup Permutations(Orders)
================================================================================

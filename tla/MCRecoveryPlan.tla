---------------------------- MODULE MCRecoveryPlan ----------------------------
(* Two records and two plans that may select the same ones.  In one half of    *)
(* the states one operator applies them through several generations, and only  *)
(* one applied selection is remembered; in the other half, P, two operators    *)
(* apply them and may be interrupted, and all that was applied is remembered.  *)
(* The operators of P are alike, so it is enough that the properties look at   *)
(* the first.                                                                  *)
EXTENDS RecoveryPlan, TLC

CONSTANTS d1, d2, p1, p2, o1, o2, k1, w1
VARIABLE together

P == INSTANCE RecoveryPlan
        WITH Keys <- {}, Operators <- {o1, o2}, AppliedMax <- 4, MaxCrashes <- 1, MaxGeneration <- 2

MCInit == together \in BOOLEAN /\ IF together THEN P!RecoveryInit ELSE RecoveryInit
MCNext == UNCHANGED together /\ IF together THEN P!Next ELSE Next
MCSpec == MCInit /\ [][MCNext]_<<vars, together>>
Symmetry == Permutations(Deliveries) \cup Permutations(Plans)
=============================================================================

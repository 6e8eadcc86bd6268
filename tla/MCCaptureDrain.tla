---------------------------- MODULE MCCaptureDrain ----------------------------
(* A session start, the pre-action and the post-result of one operation, and a *)
(* second pre-action of that operation with other content.                     *)
EXTENDS CaptureDrain, TLC

CONSTANTS start, request, result, clash, session, operation, w1, w2

AnnouncesInstance ==
    [d \in Deliveries |-> CASE d = start -> session [] d \in {request, clash} -> operation [] OTHER -> None]
SessionOfInstance ==
    [d \in Deliveries |-> IF d # start /\ start \in Deliveries THEN session ELSE None]
RequestOfInstance == [d \in Deliveries |-> IF d = result THEN operation ELSE None]
ConflictsInstance ==
    [d \in Deliveries |-> IF d \in {request, clash} THEN ({request, clash} \cap Deliveries) \ {d} ELSE {}]
Symmetry == Permutations(Drainers)
=============================================================================

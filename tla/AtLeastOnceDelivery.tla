-------------------------- MODULE AtLeastOnceDelivery --------------------------
(***************************************************************************)
(* What asynchronous capture promises of each delivery, whatever processes *)
(* crash, overlap or repeat work: an accepted delivery reaches the         *)
(* database once, after those it needs and never beside one it contradicts *)
(* -- or is rejected, and then only a replay gives it another chance.      *)
(***************************************************************************)
CONSTANTS
    Deliveries,
    Needs,      \* sets of deliveries: one of each must be in the database first
    Excludes    \* the deliveries that must not be in the database

VARIABLE status

StatusTypeOK == status \in [Deliveries -> {"absent", "accepted", "delivered", "rejected"}]

Init == status = [d \in Deliveries |-> "absent"]

Becomes(d, from, to) == status[d] = from /\ status' = [status EXCEPT ![d] = to]

Accept(d) == Becomes(d, "absent", "accepted")

Deliver(d) ==
    /\ Becomes(d, "accepted", "delivered")
    /\ \A needed \in Needs[d] : \E e \in needed : status[e] = "delivered"
    /\ \A e \in Excludes[d] : status[e] # "delivered"

Replay(d) == Becomes(d, "rejected", "accepted")

\* Deliveries are given up; the history of rejections is bounded, so that any of
\* them may be forgotten on the way.
Reject(refused, forgotten) ==
    /\ \A d \in refused : status[d] = "accepted"
    /\ \A d \in forgotten : status[d] = "rejected" \/ d \in refused
    /\ status' = [d \in Deliveries |->
                    IF d \in forgotten THEN "absent" ELSE IF d \in refused THEN "rejected" ELSE status[d]]

Next ==
    \/ \E d \in Deliveries : Accept(d) \/ Deliver(d) \/ Replay(d)
    \/ \E refused, forgotten \in SUBSET Deliveries : Reject(refused, forgotten)

Spec == Init /\ [][Next]_status
=============================================================================

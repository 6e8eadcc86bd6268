----------------------------- MODULE StreamProgress -----------------------------
(***************************************************************************)
(* What analysis promises for each stream of evidence: what is analysed is *)
(* a growing prefix of what was admitted, and a range that cannot be       *)
(* analysed holds the stream where it is, for good.                        *)
(***************************************************************************)
EXTENDS Naturals

CONSTANT Streams

VARIABLES
    admitted,   \* the highest ordinal admitted so far
    analysed,   \* the highest ordinal whose results are stored
    held        \* a range of the stream is in quarantine

vars == <<admitted, analysed, held>>

Init ==
    /\ admitted = [s \in Streams |-> 0]
    /\ analysed = [s \in Streams |-> 0]
    /\ held = [s \in Streams |-> FALSE]

Admit(s) ==
    /\ admitted'[s] > admitted[s]
    /\ admitted' = [admitted EXCEPT ![s] = admitted'[s]]
    /\ UNCHANGED <<analysed, held>>

Analyse(s) ==
    /\ ~held[s]
    /\ analysed'[s] > analysed[s] /\ analysed'[s] <= admitted[s]
    /\ analysed' = [analysed EXCEPT ![s] = analysed'[s]]
    /\ UNCHANGED <<admitted, held>>

\* One recovery may give up on several streams.
Hold ==
    /\ \A s \in Streams : held[s] => held'[s]
    /\ UNCHANGED <<admitted, analysed>>

Next == Hold \/ \E s \in Streams : Admit(s) \/ Analyse(s)

Progress == Init /\ [][Next]_vars
=============================================================================

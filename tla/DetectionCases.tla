---------------------------- MODULE DetectionCases ----------------------------
(* Sessions for Detection: three commands of one intent that overlap or not,  *)
(* each of them failing or not; and claims, a correction and a closed task    *)
(* about one command, in every order in which they could have been imported.  *)
EXTENDS Integers, Sequences, FiniteSets, SequencesExt

Req(n, command) == [kind |-> "request", id |-> n, at |-> 0, intent |-> 1, command |-> command]
Res(n, outcome) == [kind |-> "result", id |-> n + 3, at |-> 0, related |-> n, outcome |-> outcome]
Note(kind, state, id, producer, decision, relates) ==
    [kind |-> kind, state |-> state, id |-> id, producer |-> producer, decision |-> decision,
     scope |-> 1, operation |-> 1, relates |-> relates]

\* Every entry is captured at the time of its place in the log.
Timed(s) == [i \in DOMAIN s |-> <<[s[i] EXCEPT !.at = i]>>]
Commands(outcomes) ==
    LET r == {Req(1, 1), Req(2, 2), Req(3, 1)} \cup {Res(n, outcomes[n]) : n \in 1 .. 3}
        in(s, e) == CHOOSE i \in DOMAIN s : s[i].id = e
    IN  { Timed(s) : s \in { q \in SetToSeqs(r) :
            in(q, 1) < in(q, 2) /\ in(q, 2) < in(q, 3) /\ \A n \in 1 .. 3 : in(q, n) < in(q, n + 3) } }
CommandLogs == UNION { Commands(o) : o \in [1 .. 3 -> {"failed", "succeeded"}] }

Notes ==
    { {Note("agent-claim", "succeeded", 11, 1, 1, {}), Note("agent-claim", "succeeded", 12, 1, 2, {}),
       Note("agent-claim", "succeeded", 13, 1, 2, {}), Note("agent-claim", "succeeded", 14, 1, 1, {})},
      {Note("agent-claim", "succeeded", 11, 1, 1, {}), Note("agent-claim", "succeeded", 15, 2, 1, {}),
       Note("user-instruction", "observed", 16, 1, 3, {}), Note("user-instruction", "observed", 17, 1, 3, {16}),
       Note("task-transition", "closed", 18, 1, 3, {17})} }
Grounded(s) == \A i \in DOMAIN s : s[i].relates \subseteq {s[j].id : j \in 1 .. i - 1}
AnnotationLogs ==
    { <<<<[Req(1, 1) EXCEPT !.at = 1]>>>> \o [i \in DOMAIN s |-> <<s[i]>>] :
        s \in UNION { {q \in SetToSeqs(n) : Grounded(q)} : n \in Notes } }
MCLogs == CommandLogs \cup AnnotationLogs
=============================================================================

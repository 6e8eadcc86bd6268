------------------------------ MODULE SessionWindow ------------------------------
(***************************************************************************)
(* What a review keeps of a session file (review/bounded-session.ts,       *)
(* normalizeSession in review/contracts.ts): the last MaxEvents records    *)
(* with as much of the newest text as fits, and the times of all.  A       *)
(* record is [ordinal, at, text]: the ordinal or None, a time, the bytes   *)
(* of its text or None.                                                    *)
(***************************************************************************)
EXTENDS Integers, Sequences, SequencesExt

CONSTANTS
    None,
    MaxEvents, MaxText  \* positive: MAX_NORMALIZED_SESSION_EVENTS, MAX_SESSION_REVIEW_TEXT_LENGTH

Empty == [records |-> <<>>, next |-> 0, start |-> None, end |-> None, bytes |-> 0, rejected |-> FALSE]

UsedOrdinals(records) == {r.ordinal : r \in ToSet(records)}
Bytes(r) == IF r.text = None THEN 0 ELSE r.text

RECURSIVE FirstFree(_, _)
FirstFree(n, used) == IF n \in used THEN FirstFree(n + 1, used) ELSE n

\* The oldest texts go until the rest fits.
RECURSIVE Trimmed(_, _, _)
Trimmed(records, bytes, i) ==
    IF bytes <= MaxText \/ i > Len(records) THEN [records |-> records, bytes |-> bytes]
    ELSE Trimmed([records EXCEPT ![i].text = None], bytes - Bytes(records[i]), i + 1)

\* add(); what the code throws on rejects the session.
Add(w, record) ==
    LET full == Len(w.records) >= MaxEvents
        kept == IF full THEN Tail(w.records) ELSE w.records
        free == FirstFree(w.next, UsedOrdinals(w.records))
        ordinal == IF record.ordinal = None THEN free ELSE record.ordinal
        text == IF record.text # None /\ record.text > MaxText THEN None ELSE record.text
        added == [ordinal |-> ordinal, at |-> record.at, text |-> text]
        left == IF full THEN w.bytes - Bytes(Head(w.records)) ELSE w.bytes
        trimmed == Trimmed(Append(kept, added), left + Bytes(added), 1)
    IN  IF w.rejected \/ ordinal \in UsedOrdinals(kept) THEN [w EXCEPT !.rejected = TRUE]
        ELSE [records |-> trimmed.records, bytes |-> trimmed.bytes,
              next |-> IF ordinal >= free THEN ordinal + 1 ELSE free,
              start |-> IF w.start = None \/ record.at < w.start THEN record.at ELSE w.start,
              end |-> IF w.end = None \/ record.at > w.end THEN record.at ELSE w.end,
              rejected |-> FALSE]

Window(records) == FoldLeft(Add, Empty, records)

\* What normalizeSession() asks of the window.
Normalizes(w) ==
    /\ w.records # <<>> /\ Len(w.records) <= MaxEvents
    /\ FoldLeft(LAMBDA sum, r : sum + Bytes(r), 0, w.records) <= MaxText
    /\ \A i, j \in DOMAIN w.records : w.records[i].ordinal = w.records[j].ordinal => i = j
    /\ \A r \in ToSet(w.records) : w.start <= r.at /\ r.at <= w.end
=============================================================================

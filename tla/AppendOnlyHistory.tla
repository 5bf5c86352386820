-------------------------- MODULE AppendOnlyHistory --------------------------
(***************************************************************************)
(* What a source archive promises, without files, locks or processes: one  *)
(* history of records that only grows, whose ids and sequence numbers are  *)
(* never reused for different data, and of which a power failure can only  *)
(* undo what was not yet confirmed.                                        *)
(***************************************************************************)
CONSTANT Record            \* source records, each with an id and a sequence

VARIABLES history,         \* the records a reader of the archive is given
          confirmed        \* the records that are stored for good

absVars == <<history, confirmed>>

\* An id or a sequence number names at most one record.
Consistent(S) ==
    \A r, s \in S : (r.id = s.id \/ r.sequence = s.sequence) => r = s

Init ==
    /\ history \in SUBSET Record
    /\ Consistent(history)
    /\ confirmed \in SUBSET history

\* A batch becomes visible, all of it in one step.
Extend ==
    /\ history' \in SUBSET Record
    /\ history \subseteq history'
    /\ Consistent(history')
    /\ UNCHANGED confirmed

\* Records are stored for good, as a caller may be told.
Confirm ==
    /\ confirmed' \in SUBSET history
    /\ confirmed \subseteq confirmed'
    /\ UNCHANGED history

\* A power failure takes back unconfirmed records; what is left is durable.
Lose ==
    /\ history' \in SUBSET history
    /\ confirmed' \in SUBSET history'
    /\ confirmed \subseteq confirmed'

Next == Extend \/ Confirm \/ Lose

Spec == Init /\ [][Next]_absVars
=============================================================================

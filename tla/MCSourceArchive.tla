--------------------------- MODULE MCSourceArchive ---------------------------
(***************************************************************************)
(* Instances of SourceArchive for TLC: five records, of which two collide  *)
(* with a third, on its id and on its sequence.                            *)
(***************************************************************************)
EXTENDS SourceArchiveProofs, TLC

Goal      == [id |-> "goal", sequence |-> 1, content |-> "x"]
GoalEdit  == [id |-> "goal", sequence |-> 1, content |-> "y"]
Intruder  == [id |-> "other", sequence |-> 1, content |-> "x"]
Decision  == [id |-> "decision", sequence |-> 0, content |-> "x"]
Note      == [id |-> "note", sequence |-> 2, content |-> "x"]

MCRecord == {Goal, GoalEdit, Intruder, Decision, Note}

\* An idempotent retry, writers that collide on a sequence number, a batch of
\* two, an empty batch, and a merge beyond the limit.
MCBatches == {{}, {Goal}, {Intruder}, {Decision}, {Decision, Note}}

\* An empty file, and one with a record.
MCInitialHistories == {{}, {Goal}}

\* Writers that collide on an id or not at all, and a batch beyond the limit.
SmallBatches == {{GoalEdit}, {Decision}, {Goal, Decision, Note}}

\* A file with a record, beside no file.
SharedHistories == {{Goal}}

Symmetric == Permutations(Process)
=============================================================================

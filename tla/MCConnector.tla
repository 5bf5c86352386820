----------------------------- MODULE MCConnector -----------------------------
(***************************************************************************)
(* Instances of Connector for TLC.                                         *)
(***************************************************************************)
EXTENDS ConnectorProofs, TLC

CONSTANTS e, f, x, y, A, B

\* An event with an id and a sequence, one with neither, and an edit of the first.
Named  == [id |-> e, sequence |-> 0, content |-> x]
Edited == [id |-> e, sequence |-> 0, content |-> y]
Plain  == [id |-> Unset, sequence |-> Unset, content |-> y]
Late   == [id |-> f, sequence |-> 2, content |-> x]

SharedBatches == {<<Named>>, <<Plain>>, <<Late, Plain>>}
EmptyArchive == [chained |-> TRUE, records |-> {}]
LegacyArchive == [chained |-> FALSE, records |-> {Late}]
MCArchives == {EmptyArchive, LegacyArchive}

\* A checkpoint of a standalone compiler, which claims a verified empty archive.
Claim == [session |-> A,
          state |-> [sources |-> {Edited}, head |-> {}, verified |-> TRUE]]
MCForeign == {Claim}
Symmetric == Permutations(ArchiveHost)
=============================================================================

------------------------------ MODULE Connector ------------------------------
(***************************************************************************)
(* context_compiler.connector.LocalAIConnector: host processes, each with   *)
(* its own in-memory sessions, that ingest source events and compile them.  *)
(* Hosts configured with a SourceArchive share one archive directory, and   *)
(* every step that touches it interleaves with those of the other hosts.    *)
(* A host answers one request at a time.  The archive itself is taken at    *)
(* the level of AppendOnlyHistory: a load sees one history, an append       *)
(* installs a longer one and syncs it, each may fail.                       *)
(*                                                                         *)
(* Source records are compared after the connector's normalization, which   *)
(* is idempotent and applied on every path.  A digest or a chain head is    *)
(* the set of records it is computed from.                                  *)
(***************************************************************************)
EXTENDS Integers, Sequences, FiniteSets

CONSTANTS Host,            \* connector processes
          ArchiveHost,     \* those configured with the archive
          Session,         \* session ids
          Id, Content,     \* explicit event ids, and what an event says
          MaxSequence,     \* bound of the model: the largest sequence number
          Batches,         \* the event batches hosts are given
          Foreign,         \* checkpoints of standalone compilers
          InitialArchives, \* what the archive directory may hold at first
          MaxRecords,      \* source_limits.max_records
          MaxCalls,        \* bound of the model: requests
          MaxFaults,       \* bound of the model: failing archive calls
          MaxCrashes,      \* bound of the model: host deaths and power losses
          Unset,           \* an omitted id or sequence of an event
          NoHead,          \* no archive head: none known, none expected, legacy
          NoSession,       \* no such session
          NoCheckpoint, NoEvents

Sequence == 0..MaxSequence

\* SourceRecord.create derives an omitted id from the sequence and the content.
DerivedId == Sequence \X Content
Record == [id : Id \cup DerivedId, sequence : Sequence, content : Content]
Event == [id : Id \cup {Unset}, sequence : Sequence \cup {Unset}, content : Content]

\* An id or a sequence number names at most one record.
Consistent(S) ==
    \A r, s \in S : (r.id = s.id \/ r.sequence = s.sequence) => r = s
WithinLimits(S) == Cardinality(S) <= MaxRecords

Heads == (SUBSET Record) \cup {NoHead}
Archive == [chained : BOOLEAN, records : SUBSET Record]

\* An IncrementalCompiler: its prefix, and the archive head it is bound to.
SessionState == [sources : SUBSET Record, head : Heads, verified : BOOLEAN]
Fresh == [sources |-> {}, head |-> NoHead, verified |-> FALSE]

Checkpoint == [session : Session, state : SessionState]

Request == [kind : {"ingest", "compile"}, session : Session,
            checkpoint : Checkpoint \cup {NoCheckpoint},
            events : Seq(Event) \cup {NoEvents}, expected : Heads]

ASSUME ConnectorAssumption ==
    /\ ArchiveHost \subseteq Host
    /\ NoSession \notin SessionState
    /\ NoSession \notin Session
    /\ NoHead \notin SUBSET Record
    /\ NoCheckpoint \notin Checkpoint
    /\ NoEvents \notin Seq(Event)
    /\ Batches \subseteq Seq(Event)
    /\ Foreign \subseteq Checkpoint
    /\ InitialArchives \subseteq Archive
    /\ \A a \in InitialArchives : Consistent(a.records) /\ WithinLimits(a.records)
    /\ MaxSequence \in Nat
    /\ MaxRecords \in Nat
    /\ MaxCalls \in Nat /\ MaxFaults \in Nat /\ MaxCrashes \in Nat

VARIABLES archive,     \* what a reader of events.jsonl is given
          durable,     \* what the directory may hold after a power failure
          live,        \* _sessions of each host
          bound,       \* _archive_session_id of each host
          checkpoints, \* the checkpoints callers hold
          pc,          \* where each host is in its request
          request,     \* the request, kept after a retryable answer
          work,        \* the detached session it builds
          required,    \* the archive head the synchronization in progress requires
          missing,     \* the records the synchronization appends
          head,        \* the head that verify() reported
          round,       \* the synchronization of the request, 1 or 2
          reply,       \* how the last request of a host was answered
          calls, faults, crashes

archiveVars == <<archive, durable>>
sessionVars == <<live, bound>>
syncVars == <<required, missing, head, round>>
boundVars == <<calls, faults, crashes>>
vars == <<archiveVars, sessionVars, checkpoints, pc, request, work, syncVars,
          reply, boundVars>>

NoRequest == [kind |-> "none"]
ArchiveSteps == {"attest", "compare", "load", "append", "settle", "verify", "reload"}
Steps == ArchiveSteps \cup {"idle", "select", "begin", "compile"}
Replies == {"none", "ok", "refused", "failed", "retryable"}

TypeOK ==
    /\ archive \in Archive
    /\ durable \subseteq Archive
    /\ live \in [Host -> [Session -> SessionState \cup {NoSession}]]
    /\ bound \in [Host -> Session \cup {NoSession}]
    /\ checkpoints \subseteq Checkpoint
    /\ pc \in [Host -> Steps]
    /\ request \in [Host -> Request \cup {NoRequest}]
    /\ work \in [Host -> SessionState]
    /\ required \in [Host -> Heads]
    /\ missing \in [Host -> SUBSET Record]
    /\ head \in [Host -> Heads]
    /\ round \in [Host -> {1, 2}]
    /\ reply \in [Host -> Replies]
    /\ calls \in 0..MaxCalls /\ faults \in 0..MaxFaults /\ crashes \in 0..MaxCrashes
-----------------------------------------------------------------------------
(* IncrementalCompiler.ingest_source_events.                               *)

Later(m, n) == IF m > n THEN m ELSE n
NextSequence(S) ==
    IF S = {} THEN 0
    ELSE 1 + CHOOSE n \in {r.sequence : r \in S} : \A r \in S : r.sequence <= n

\* The default sequence after the first k events of a batch.
DefaultSequence(S, batch) ==
    LET next[k \in 0..Len(batch)] ==
          IF k = 0 THEN NextSequence(S)
          ELSE IF batch[k].sequence = Unset THEN next[k - 1] + 1
          ELSE Later(next[k - 1], batch[k].sequence + 1)
    IN  next

\* source_event_to_record.
RecordOf(event, default) ==
    LET sequence == IF event.sequence = Unset THEN default ELSE event.sequence
    IN  [id |-> IF event.id = Unset THEN <<sequence, event.content>> ELSE event.id,
         sequence |-> sequence, content |-> event.content]

\* The records a batch stands for when it is appended to the prefix S.
RecordsOf(S, batch) ==
    LET next == DefaultSequence(S, batch)
    IN  {RecordOf(batch[k], next[k - 1]) : k \in 1..Len(batch)}

\* No collision, no limit exceeded; a record already there is passed over.
Ingestible(S, batch) ==
    /\ Len(batch) <= MaxRecords
    /\ RecordsOf(S, batch) \subseteq Record
    /\ Consistent(S \cup RecordsOf(S, batch))
    /\ WithinLimits(S \cup RecordsOf(S, batch))

Ingest(state, batch) ==
    [state EXCEPT !.sources = @ \cup RecordsOf(@, batch)]
-----------------------------------------------------------------------------
(* Helpers.                                                                *)

HeadOf(a) == IF a.chained THEN a.records ELSE NoHead
HeadAccepted(expected) == expected # NoHead => HeadOf(archive) = expected

Archived(h) == h \in ArchiveHost
HasEvents(h) == request[h].events # NoEvents
SessionOf(h) == request[h].session

\* A head claimed for the state without an archive to check it against.
WithClaimedHead(state, expected) ==
    IF expected = NoHead THEN state ELSE [state EXCEPT !.head = expected]
ClaimAccepted(state, expected) ==
    state.head = NoHead \/ expected = NoHead \/ state.head = expected

Goto(h, step) == pc' = [pc EXCEPT ![h] = step]

\* The request is answered; a retryable one may come again as it was.
Answer(h, status) ==
    /\ Goto(h, "idle")
    /\ reply' = [reply EXCEPT ![h] = status]
    /\ request' = [request EXCEPT ![h] = IF status = "retryable" THEN @ ELSE NoRequest]
    /\ work' = [work EXCEPT ![h] = Fresh]
    /\ required' = [required EXCEPT ![h] = NoHead]
    /\ missing' = [missing EXCEPT ![h] = {}]
    /\ head' = [head EXCEPT ![h] = NoHead]
    /\ round' = [round EXCEPT ![h] = 1]

\* A failed or refused request changes no session and nothing in the archive.
Reject(h, status) ==
    /\ Answer(h, status)
    /\ UNCHANGED <<archiveVars, sessionVars, checkpoints>>

\* Success: the response carries a checkpoint of the registered session.
Succeed(h, state) ==
    /\ Answer(h, "ok")
    /\ checkpoints' = checkpoints \cup {[session |-> SessionOf(h), state |-> state]}

Register(h, state) == live' = [live EXCEPT ![h][SessionOf(h)] = state]

\* slip: a session takes over an archive that another one owns.
ForeignBindingIgnored(h) == FALSE
\* _synchronize_archive_session refuses a second session of the host.
BoundToAnother(h) == bound[h] # NoSession /\ bound[h] # SessionOf(h)
-----------------------------------------------------------------------------
(* Choosing the session of a request.                                      *)

Ask(h, r) ==
    /\ pc[h] = "idle"
    /\ calls < MaxCalls
    /\ calls' = calls + 1
    /\ request' = [request EXCEPT ![h] = r]
    /\ reply' = [reply EXCEPT ![h] = "none"]
    /\ \/ /\ r.checkpoint = NoCheckpoint
          /\ Goto(h, "select")
          /\ UNCHANGED work
       \/ /\ r.checkpoint # NoCheckpoint
          /\ work' = [work EXCEPT ![h] = [r.checkpoint.state EXCEPT !.verified = FALSE]]
          /\ Goto(h, IF Archived(h) /\ r.checkpoint.state.head # NoHead
                     THEN "attest" ELSE "select")
    /\ UNCHANGED <<archiveVars, sessionVars, checkpoints, syncVars, faults, crashes>>

\* _archive_attests: verify(expected_chain_head=...) of the archive.
Attest(h) ==
    /\ pc[h] = "attest"
    /\ Goto(h, IF HeadOf(archive) = work[h].head THEN "compare" ELSE "select")
    /\ UNCHANGED <<archiveVars, sessionVars, checkpoints, request, work, syncVars,
                   reply, boundVars>>

\* _archive_attests: load(expected_chain_head=...), and the comparison of the
\* archived sources with those of the checkpoint.
AttestSources(h) ==
    /\ pc[h] = "compare"
    /\ work' = [work EXCEPT ![h].verified =
                   /\ HeadOf(archive) = work[h].head
                   /\ archive.records = work[h].sources]
    /\ Goto(h, "select")
    /\ UNCHANGED <<archiveVars, sessionVars, checkpoints, request, syncVars, reply,
                   boundVars>>

\* slip: a checkpoint replaces the live session.
ConflictIgnored(h) == FALSE
\* _new_session: the checkpoint is not the state of the live session.
Conflicts(h) ==
    LET s == request[h].checkpoint.session
    IN  \/ s # SessionOf(h)
        \/ live[h][s] # NoSession /\ live[h][s] # work[h]

\* _session and _new_session(register=False).
Select(h) ==
    /\ pc[h] = "select"
    /\ UNCHANGED <<archiveVars, sessionVars, checkpoints, boundVars>>
    /\ \/ /\ request[h].checkpoint # NoCheckpoint
          /\ Conflicts(h)
          /\ Answer(h, "refused")
       \/ /\ request[h].checkpoint # NoCheckpoint
          /\ ~Conflicts(h)
          /\ Goto(h, "begin")
          /\ UNCHANGED <<request, work, syncVars, reply>>
       \/ /\ request[h].checkpoint = NoCheckpoint
          /\ live[h][SessionOf(h)] # NoSession
          /\ work' = [work EXCEPT ![h] = live[h][SessionOf(h)]]
          /\ Goto(h, "begin")
          /\ UNCHANGED <<request, syncVars, reply>>
       \/ /\ request[h].checkpoint = NoCheckpoint
          /\ live[h][SessionOf(h)] = NoSession
          /\ HasEvents(h)
          /\ work' = [work EXCEPT ![h] = Fresh]
          /\ Goto(h, "begin")
          /\ UNCHANGED <<request, syncVars, reply>>
       \/ /\ request[h].checkpoint = NoCheckpoint
          /\ live[h][SessionOf(h)] = NoSession
          /\ ~HasEvents(h)
          /\ Answer(h, "refused")
-----------------------------------------------------------------------------
(* A host without an archive: everything is local.                         *)

\* An answer with a registered session, or the compilation that follows.
Registered(h, state) ==
    /\ Register(h, state)
    /\ \/ /\ request[h].kind = "ingest"
          /\ Succeed(h, state)
       \/ /\ request[h].kind = "compile"
          /\ work' = [work EXCEPT ![h] = state]
          /\ Goto(h, "compile")
          /\ UNCHANGED <<checkpoints, request, syncVars, reply>>

IngestLocally(h) ==
    /\ pc[h] = "begin"
    /\ ~Archived(h)
    /\ HasEvents(h)
    /\ Ingestible(work[h].sources, request[h].events)
    /\ ClaimAccepted(work[h], request[h].expected)
    /\ Registered(h, WithClaimedHead(Ingest(work[h], request[h].events),
                                     request[h].expected))
    /\ UNCHANGED <<archiveVars, bound, boundVars>>

CompileLocally(h) ==
    /\ pc[h] = "begin"
    /\ ~Archived(h)
    /\ ~HasEvents(h)
    /\ ClaimAccepted(work[h], request[h].expected)
    /\ work' = [work EXCEPT ![h] = WithClaimedHead(@, request[h].expected)]
    /\ Goto(h, "compile")
    /\ UNCHANGED <<archiveVars, sessionVars, checkpoints, request, syncVars, reply,
                   boundVars>>

RefuseLocally(h) ==
    /\ pc[h] = "begin"
    /\ ~Archived(h)
    /\ \/ ~ClaimAccepted(work[h], request[h].expected)
       \/ HasEvents(h) /\ ~Ingestible(work[h].sources, request[h].events)
    /\ Reject(h, "refused")
    /\ UNCHANGED boundVars
-----------------------------------------------------------------------------
(* _synchronize_archive_session.                                           *)

\* The head the archive must have: the caller's, or that of a verified session.
Precondition(h) ==
    IF request[h].expected # NoHead THEN request[h].expected
    ELSE IF work[h].verified THEN work[h].head ELSE NoHead

SyncBegin(h) ==
    /\ pc[h] = "begin"
    /\ Archived(h)
    /\ \/ /\ BoundToAnother(h)
          /\ Reject(h, "refused")
       \/ /\ ~BoundToAnother(h)
          /\ required' = [required EXCEPT ![h] = Precondition(h)]
          /\ Goto(h, "load")
          /\ UNCHANGED <<archiveVars, sessionVars, checkpoints, request, work, missing,
                         head, round, reply>>
    /\ UNCHANGED boundVars

\* Records of the session that the archive has under the same id, changed.
ClashesWithArchive(h) ==
    \E r \in work[h].sources, a \in archive.records : r.id = a.id /\ r # a

\* slip: what only the session holds is not appended.
SyncLoadOnly(h) ==
    /\ pc[h] = "load"
    /\ HeadAccepted(required[h])
    /\ ~ClashesWithArchive(h)
    /\ missing' = [missing EXCEPT ![h] = {}]
    /\ Goto(h, "append")
    /\ UNCHANGED <<archiveVars, sessionVars, checkpoints, request, work, required,
                   head, round, reply, boundVars>>

\* The load, and the comparison of the session with what is archived.
SyncLoad(h) ==
    /\ pc[h] = "load"
    /\ \/ /\ ~HeadAccepted(required[h]) \/ ClashesWithArchive(h)
          /\ Reject(h, "refused")
       \/ /\ HeadAccepted(required[h])
          /\ ~ClashesWithArchive(h)
          /\ missing' = [missing EXCEPT ![h] = work[h].sources \ archive.records]
          /\ Goto(h, "append")
          /\ UNCHANGED <<archiveVars, sessionVars, checkpoints, request, work, required,
                         head, round, reply>>
    /\ UNCHANGED boundVars

\* No other host is between installing a history and syncing the directory.
LockIsFree == \A g \in Host : pc[g] # "settle"

MergedFromSession(h) == work[h].sources   \* slip: the archive is not reloaded
Merged(h) == archive.records \cup missing[h]

\* append() answers 0: there is nothing to add.
SyncAppendNothing(h) ==
    /\ pc[h] = "append"
    /\ \/ missing[h] = {} /\ required[h] = NoHead
       \/ LockIsFree /\ HeadAccepted(required[h]) /\ missing[h] \subseteq archive.records
    /\ Goto(h, "verify")
    /\ UNCHANGED <<archiveVars, sessionVars, checkpoints, request, work, syncVars,
                   reply, boundVars>>

SyncAppendRefused(h) ==
    /\ pc[h] = "append"
    /\ missing[h] # {} \/ required[h] # NoHead
    /\ LockIsFree
    /\ ~HeadAccepted(required[h]) \/ ~Consistent(Merged(h)) \/ ~WithinLimits(Merged(h))
    /\ Reject(h, "refused")
    /\ UNCHANGED boundVars

\* append() installs the longer history.
SyncAppend(h) ==
    /\ pc[h] = "append"
    /\ LockIsFree
    /\ HeadAccepted(required[h])
    /\ ~(missing[h] \subseteq archive.records)
    /\ Consistent(Merged(h))
    /\ WithinLimits(Merged(h))
    /\ archive' = [chained |-> TRUE, records |-> Merged(h)]
    /\ durable' = durable \cup {archive'}
    /\ Goto(h, "settle")
    /\ UNCHANGED <<sessionVars, checkpoints, request, work, syncVars, reply, boundVars>>

\* append() syncs the directory and returns.
SyncSettle(h) ==
    /\ pc[h] = "settle"
    /\ durable' = {archive}
    /\ Goto(h, "verify")
    /\ UNCHANGED <<archive, sessionVars, checkpoints, request, work, syncVars, reply,
                   boundVars>>

\* verify(), without an expected head: whatever the archive is by now.
SyncVerify(h) ==
    /\ pc[h] = "verify"
    /\ \/ /\ ~archive.chained
          /\ Reject(h, "refused")
       \/ /\ archive.chained
          /\ head' = [head EXCEPT ![h] = archive.records]
          /\ Goto(h, "reload")
          /\ UNCHANGED <<archiveVars, sessionVars, checkpoints, request, work, required,
                         missing, round, reply>>
    /\ UNCHANGED boundVars

Synchronized(h) == [sources |-> archive.records, head |-> head[h], verified |-> TRUE]

\* slip: the sources are loaded without the head that was verified.
ReloadAcceptedAlways(h) == TRUE
\* load(expected_chain_head=report.chain_head_sha256).
ReloadAccepted(h) == HeadOf(archive) = head[h]

ReloadRefused(h) ==
    /\ pc[h] = "reload"
    /\ ~ReloadAccepted(h)
    /\ Reject(h, "refused")
    /\ UNCHANGED boundVars

\* slip: the copy is synchronized without the head just seen.
StageEventsUnanchored(h) ==
    /\ pc[h] = "reload"
    /\ ReloadAccepted(h)
    /\ HasEvents(h)
    /\ round[h] = 1
    /\ Ingestible(archive.records, request[h].events)
    /\ work' = [work EXCEPT ![h] = Ingest(Synchronized(h), request[h].events)]
    /\ required' = [required EXCEPT ![h] = NoHead]
    /\ missing' = [missing EXCEPT ![h] = {}]
    /\ head' = [head EXCEPT ![h] = NoHead]
    /\ round' = [round EXCEPT ![h] = 2]
    /\ Goto(h, "load")
    /\ UNCHANGED <<archiveVars, sessionVars, checkpoints, request, reply, boundVars>>

\* The first synchronization is over: the events are appended to a copy of the
\* archived prefix, and the copy is synchronized against the head just seen.
StageEvents(h) ==
    /\ pc[h] = "reload"
    /\ ReloadAccepted(h)
    /\ HasEvents(h)
    /\ round[h] = 1
    /\ \/ /\ ~Ingestible(archive.records, request[h].events)
          /\ Reject(h, "refused")
       \/ /\ Ingestible(archive.records, request[h].events)
          /\ work' = [work EXCEPT ![h] = Ingest(Synchronized(h), request[h].events)]
          /\ required' = [required EXCEPT ![h] = head[h]]
          /\ missing' = [missing EXCEPT ![h] = {}]
          /\ head' = [head EXCEPT ![h] = NoHead]
          /\ round' = [round EXCEPT ![h] = 2]
          /\ Goto(h, "load")
          /\ UNCHANGED <<archiveVars, sessionVars, checkpoints, request, reply>>
    /\ UNCHANGED boundVars

Bind(h) == bound' = [bound EXCEPT ![h] = SessionOf(h)]

\* The second synchronization is over: the session owns the archive of its
\* host and replaces the live one.
RegisterIngested(h) ==
    /\ pc[h] = "reload"
    /\ ReloadAccepted(h)
    /\ HasEvents(h)
    /\ round[h] = 2
    /\ Bind(h)
    /\ Registered(h, Synchronized(h))
    /\ UNCHANGED <<archiveVars, boundVars>>

\* compile_memory without events: the archive is bound before the compilation.
BindForCompile(h) ==
    /\ pc[h] = "reload"
    /\ ReloadAccepted(h)
    /\ ~HasEvents(h)
    /\ Bind(h)
    /\ work' = [work EXCEPT ![h] = Synchronized(h)]
    /\ Goto(h, "compile")
    /\ UNCHANGED <<archiveVars, live, checkpoints, request, syncVars, reply, boundVars>>
-----------------------------------------------------------------------------
(* Compilation, failures and restarts.                                     *)

\* compile_memory returns a bundle and registers the session it compiled.
CompileReturns(h) ==
    /\ pc[h] = "compile"
    /\ Register(h, work[h])
    /\ Succeed(h, work[h])
    /\ UNCHANGED <<archiveVars, bound, boundVars>>

\* compile_memory raises: TimeoutError is answered as retryable.
CompileRaises(h) ==
    /\ pc[h] = "compile"
    /\ \E status \in {"failed", "retryable"} : Reject(h, status)
    /\ UNCHANGED boundVars

\* An archive call fails; within _archive_attests that only withholds the flag.
ArchiveFault(h) ==
    /\ pc[h] \in ArchiveSteps
    /\ faults < MaxFaults
    /\ faults' = faults + 1
    /\ \/ /\ pc[h] \in {"attest", "compare"}
          /\ Goto(h, "select")
          /\ UNCHANGED <<archiveVars, sessionVars, checkpoints, request, work, syncVars,
                         reply>>
       \/ /\ pc[h] \notin {"attest", "compare"}
          /\ Reject(h, "failed")
    /\ UNCHANGED <<calls, crashes>>

NoSessions == [s \in Session |-> NoSession]

\* A host process ends, in a request or between two, and is started again.
HostDeath(h) ==
    /\ crashes < MaxCrashes
    /\ crashes' = crashes + 1
    /\ Answer(h, "none")
    /\ live' = [live EXCEPT ![h] = NoSessions]
    /\ bound' = [bound EXCEPT ![h] = NoSession]
    /\ UNCHANGED <<archiveVars, checkpoints, calls, faults>>

\* The machine loses power: what was installed and not synced may be gone.
PowerLoss ==
    /\ crashes < MaxCrashes
    /\ crashes' = crashes + 1
    /\ archive' \in durable
    /\ durable' = {archive'}
    /\ live' = [h \in Host |-> NoSessions]
    /\ bound' = [h \in Host |-> NoSession]
    /\ pc' = [h \in Host |-> "idle"]
    /\ request' = [h \in Host |-> NoRequest]
    /\ work' = [h \in Host |-> Fresh]
    /\ required' = [h \in Host |-> NoHead]
    /\ missing' = [h \in Host |-> {}]
    /\ head' = [h \in Host |-> NoHead]
    /\ round' = [h \in Host |-> 1]
    /\ reply' = [h \in Host |-> "none"]
    /\ UNCHANGED <<checkpoints, calls, faults>>
-----------------------------------------------------------------------------
Init ==
    /\ archive \in InitialArchives
    /\ durable = {archive}
    /\ live = [h \in Host |-> NoSessions]
    /\ bound = [h \in Host |-> NoSession]
    /\ checkpoints = Foreign
    /\ pc = [h \in Host |-> "idle"]
    /\ request = [h \in Host |-> NoRequest]
    /\ work = [h \in Host |-> Fresh]
    /\ required = [h \in Host |-> NoHead]
    /\ missing = [h \in Host |-> {}]
    /\ head = [h \in Host |-> NoHead]
    /\ round = [h \in Host |-> 1]
    /\ reply = [h \in Host |-> "none"]
    /\ calls = 0 /\ faults = 0 /\ crashes = 0

\* The heads a caller can hold.
KnownHeads == {NoHead} \cup {c.state.head : c \in checkpoints}

\* A caller asks for an ingestion, or for a compilation with or without events.
Call(h) ==
    \E s \in Session, c \in checkpoints \cup {NoCheckpoint}, expected \in KnownHeads :
        \/ \E kind \in {"ingest", "compile"}, batch \in Batches :
             Ask(h, [kind |-> kind, session |-> s, checkpoint |-> c,
                     events |-> batch, expected |-> expected])
        \/ Ask(h, [kind |-> "compile", session |-> s, checkpoint |-> c,
                   events |-> NoEvents, expected |-> expected])

Choose(h) == Attest(h) \/ AttestSources(h) \/ Select(h)
Local(h) == IngestLocally(h) \/ CompileLocally(h) \/ RefuseLocally(h)
Synchronize(h) ==
    \/ SyncBegin(h) \/ SyncLoad(h) \/ SyncAppendNothing(h) \/ SyncAppendRefused(h)
    \/ SyncAppend(h) \/ SyncSettle(h) \/ SyncVerify(h)
    \/ ReloadRefused(h) \/ StageEvents(h) \/ RegisterIngested(h) \/ BindForCompile(h)
Compile(h) == CompileReturns(h) \/ CompileRaises(h)

Next ==
    \/ \E h \in Host : Call(h) \/ Choose(h) \/ Local(h) \/ Synchronize(h) \/ Compile(h)
    \/ \E h \in Host : ArchiveFault(h) \/ HostDeath(h)
    \/ PowerLoss

Spec == Init /\ [][Next]_vars
-----------------------------------------------------------------------------
(* Properties.                                                             *)

LiveOf(h) == {live[h][s] : s \in {t \in Session : live[h][t] # NoSession}}

\* A session that says its archive head is verified holds exactly the history
\* of that head, whatever other hosts did between verify() and load().
VerifiedSourcesAreTheHead ==
    \A h \in Host : \A state \in LiveOf(h) :
        state.verified => state.sources = state.head

\* No live session of an archive host holds a record that the shared archive
\* does not have: nothing was registered that was not committed.
LiveSessionsArchived ==
    \A h \in ArchiveHost : \A state \in LiveOf(h) :
        state.sources \subseteq archive.records

\* The live sessions of all archive hosts are points of one history.
NoForkedSessions ==
    \A g, h \in ArchiveHost : \A a \in LiveOf(g), b \in LiveOf(h) :
        a.sources \subseteq b.sources \/ b.sources \subseteq a.sources

\* A live session of an archive host is the one that owns the archive there.
LiveSessionOwnsArchive ==
    \A h \in ArchiveHost, s \in Session :
        live[h][s] # NoSession => bound[h] = s

\* A live session is never rolled back nor replaced by a fork: while its host
\* lives, its sources only grow.
LiveSessionsGrow ==
    [][\A h \in Host, s \in Session :
          (live[h][s] # NoSession /\ crashes' = crashes) =>
              /\ live'[h][s] # NoSession
              /\ live[h][s].sources \subseteq live'[h][s].sources]_vars

\* The history an ingestion installs is the copy it staged: the prefix its
\* default sequences were assigned from, and its events, although other hosts
\* append in between.
EventsCommitOnTheirBase ==
    [][\A h \in Host :
          (pc[h] = "append" /\ pc'[h] = "settle" /\ round[h] = 2)
            => archive'.records = work[h].sources]_vars

\* A session resumed from a checkpoint keeps every source of the checkpoint,
\* even when a power failure took them from the archive in the meantime.
ResumedSessionKeepsCheckpoint ==
    [][\A h \in Host :
          (reply[h] = "none" /\ reply'[h] = "ok" /\ request[h].checkpoint # NoCheckpoint)
            => request[h].checkpoint.state.sources
                 \subseteq live'[h][SessionOf(h)].sources]_vars

\* The archive step of the connector is that of an append-only history.
History == INSTANCE AppendOnlyHistory
             WITH history <- archive.records,
                  confirmed <- {r \in archive.records : \A d \in durable : r \in d.records}
ImplementsHistory == History!Spec
=============================================================================

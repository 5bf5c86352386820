--------------------------- MODULE ConnectorProofs ---------------------------
(***************************************************************************)
(* Proofs about Connector, for any number of hosts, sessions and requests. *)
(* The inductive invariant has four parts: types; the shared history and    *)
(* what a power failure leaves of it; where each synchronization stands;    *)
(* and the live sessions as points of the history.                          *)
(***************************************************************************)
EXTENDS Connector, TLAPS

SyncSteps == {"load", "append", "settle", "verify", "reload"}

\* A host in the middle of a request has one.
TypeInv ==
    /\ TypeOK
    /\ \A h \in Host : pc[h] # "idle" => request[h] \in Request

\* The history is consistent, and a power failure leaves part of it.
HistoryInv ==
    /\ archive \in durable
    /\ Consistent(archive.records)
    /\ \A d \in durable : d.records \subseteq archive.records

\* Where a synchronization stands: who owns the archive of the host, what is
\* still to be and that the second round rests on the first.
SyncOK(h) ==
    /\ pc[h] \in SyncSteps => bound[h] \in {NoSession, SessionOf(h)}
    /\ pc[h] \notin SyncSteps \cup {"compile"} => round[h] = 1
    /\ pc[h] = "append" => work[h].sources \subseteq archive.records \cup missing[h]
    /\ pc[h] \in {"settle", "verify", "reload"} =>
         work[h].sources \subseteq archive.records
    /\ pc[h] = "reload" => head[h] # NoHead
    /\ (pc[h] \in {"load", "append"} /\ round[h] = 2) =>
         required[h] # NoHead /\ required[h] \subseteq work[h].sources
    /\ (pc[h] = "append" /\ round[h] = 2) => missing[h] = work[h].sources \ required[h]

\* From the session that was chosen on, the sources of a checkpoint are kept.
KeepsCheckpoint(h) ==
    (pc[h] # "idle" /\ request[h].checkpoint # NoCheckpoint)
      => request[h].checkpoint.state.sources \subseteq work[h].sources

\* A host without an archive never has a verified head, and builds on what is live.
LocalOK(h) ==
    /\ pc[h] \notin ArchiveSteps
    /\ ~work[h].verified
    /\ \A s \in Session : live[h][s] # NoSession => ~live[h][s].verified
    /\ (pc[h] \in {"begin", "compile"} /\ live[h][SessionOf(h)] # NoSession)
         => live[h][SessionOf(h)].sources \subseteq work[h].sources

\* A state of the history that an archive host has taken for its session.
IsPoint(state) ==
    /\ state.verified => state.sources = state.head
    /\ state.sources \subseteq archive.records

SharedOK(h) ==
    /\ \A s \in Session : live[h][s] # NoSession => bound[h] = s /\ IsPoint(live[h][s])
    /\ pc[h] = "compile" =>
         /\ bound[h] = SessionOf(h)
         /\ IsPoint(work[h])
         /\ live[h][SessionOf(h)] # NoSession =>
              live[h][SessionOf(h)].sources \subseteq work[h].sources

\* The live sessions, and those about to be registered.
Points(h) == LiveOf(h) \cup (IF pc[h] = "compile" THEN {work[h]} ELSE {})

Comparable(a, b) == a.sources \subseteq b.sources \/ b.sources \subseteq a.sources

ForkInv ==
    \A g, h \in ArchiveHost : \A a \in Points(g), b \in Points(h) : Comparable(a, b)

HostOK(h) ==
    /\ KeepsCheckpoint(h)
    /\ h \notin ArchiveHost => LocalOK(h)
    /\ h \in ArchiveHost => SharedOK(h) /\ SyncOK(h)

SessionInv == \A h \in Host : HostOK(h)

SafeInv == TypeInv /\ HistoryInv /\ SessionInv /\ ForkInv
-----------------------------------------------------------------------------
(* Types.                                                                  *)

LEMMA InitTyped == Init => TypeInv
  BY ConnectorAssumption DEF Init, TypeInv, TypeOK, NoSessions, Fresh, SessionState,
     Heads, Steps, Replies

\* The state of a session with more sources is a session state.
LEMMA IngestTyped ==
  ASSUME NEW state \in SessionState, NEW batch, Ingestible(state.sources, batch)
  PROVE  Ingest(state, batch) \in SessionState
  BY DEF Ingestible, Ingest, SessionState

LEMMA ClaimTyped ==
  ASSUME NEW state \in SessionState, NEW expected \in Heads
  PROVE  WithClaimedHead(state, expected) \in SessionState
  BY DEF WithClaimedHead, SessionState

LEMMA SynchronizedTyped ==
  ASSUME TypeInv, NEW h \in Host
  PROVE  Synchronized(h) \in SessionState
  BY DEF Synchronized, SessionState, TypeInv, TypeOK, Archive

\* An answer leaves the locals of the host typed.
LEMMA AnswerTyped ==
  ASSUME TypeInv, NEW h \in Host, NEW status \in Replies, Answer(h, status)
  PROVE  /\ pc' \in [Host -> Steps]
         /\ request' \in [Host -> Request \cup {NoRequest}]
         /\ work' \in [Host -> SessionState]
         /\ required' \in [Host -> Heads]
         /\ missing' \in [Host -> SUBSET Record]
         /\ head' \in [Host -> Heads]
         /\ round' \in [Host -> {1, 2}]
         /\ reply' \in [Host -> Replies]
         /\ \A g \in Host : pc'[g] # "idle" => request'[g] \in Request
  <1>1. Fresh \in SessionState /\ NoHead \in Heads /\ "idle" \in Steps
    BY DEF Fresh, SessionState, Heads, Steps
  <1>2. QED
    BY <1>1 DEF Answer, Goto, TypeInv, TypeOK

LEMMA RejectTyped ==
  ASSUME TypeInv, NEW h \in Host, NEW status \in Replies, Reject(h, status),
         calls' \in 0..MaxCalls, faults' \in 0..MaxFaults, crashes' \in 0..MaxCrashes
  PROVE  TypeInv'
  <1>1. Answer(h, status)
    BY DEF Reject
  <1>2. QED
    BY <1>1, AnswerTyped DEF Reject, TypeInv, TypeOK, archiveVars, sessionVars

\* A session is registered and answered for, or compiled.
LEMMA RegisteredTyped ==
  ASSUME TypeInv, NEW h \in Host, request[h] \in Request, NEW state \in SessionState,
         Registered(h, state), UNCHANGED <<archiveVars, boundVars>>,
         bound' \in [Host -> Session \cup {NoSession}]
  PROVE  TypeInv'
  <1>1. SessionOf(h) \in Session
    BY DEF SessionOf, Request
  <1>2. live' \in [Host -> [Session -> SessionState \cup {NoSession}]]
    BY <1>1 DEF Registered, Register, TypeInv, TypeOK
  <1>3. CASE request[h].kind = "ingest"
    <2>1. Succeed(h, state)
      BY <1>3 DEF Registered
    <2>2. Answer(h, "ok") /\ "ok" \in Replies
      BY <2>1 DEF Succeed, Replies
    <2>3. checkpoints' \subseteq Checkpoint
      BY <1>1, <2>1 DEF Succeed, Checkpoint, TypeInv, TypeOK
    <2>4. QED
      BY <1>2, <2>2, <2>3, AnswerTyped DEF TypeInv, TypeOK, archiveVars, boundVars
  <1>4. CASE request[h].kind # "ingest"
    <2>1. /\ work' = [work EXCEPT ![h] = state]
          /\ pc' = [pc EXCEPT ![h] = "compile"]
          /\ UNCHANGED <<checkpoints, request, required, missing, head, round, reply>>
      BY <1>4 DEF Registered, Goto, syncVars
    <2>2. UNCHANGED <<archive, durable, calls, faults, crashes>>
      BY DEF archiveVars, boundVars
    <2>3. work' \in [Host -> SessionState] /\ pc' \in [Host -> Steps]
      BY <2>1 DEF TypeInv, TypeOK, Steps
    <2>4. TypeOK'
      BY <1>2, <2>1, <2>2, <2>3 DEF TypeInv, TypeOK
    <2>5. \A g \in Host : pc'[g] # "idle" => request'[g] \in Request
      BY <2>1 DEF TypeInv, TypeOK
    <2> QED BY <2>4, <2>5 DEF TypeInv
  <1>5. QED
    BY <1>3, <1>4

\* The steps that choose a session.
LEMMA ChooseTyped ==
  ASSUME TypeInv, NEW h \in Host, Choose(h)
  PROVE  TypeInv'
  <1>0. work[h] \in SessionState
    BY DEF TypeInv, TypeOK
  <1>1. CASE Attest(h)
    BY <1>1 DEF Attest, Goto, Steps, ArchiveSteps, TypeInv, TypeOK, archiveVars,
       sessionVars, syncVars, boundVars
  <1>2. CASE AttestSources(h)
    <2>1. work' \in [Host -> SessionState]
      BY <1>0, <1>2 DEF AttestSources, TypeInv, TypeOK, SessionState
    <2>2. QED
      BY <1>2, <2>1 DEF AttestSources, Goto, Steps, ArchiveSteps, TypeInv, TypeOK,
         archiveVars, sessionVars, syncVars, boundVars
  <1>3. CASE Select(h)
    <2>1. CASE Answer(h, "refused")
      BY <1>3, <2>1, AnswerTyped DEF Select, Replies, TypeInv, TypeOK, archiveVars,
         sessionVars, boundVars
    <2>2. CASE ~Answer(h, "refused")
      <3>1. request[h] \in Request
        BY <1>3 DEF Select, TypeInv
      <3>2. SessionOf(h) \in Session
        BY <3>1 DEF SessionOf, Request
      <3>3. live[h][SessionOf(h)] \in SessionState \cup {NoSession}
        BY <3>2 DEF TypeInv, TypeOK
      <3>4. Fresh \in SessionState
        BY DEF Fresh, SessionState, Heads
      <3>5. work' \in [Host -> SessionState]
        BY <1>3, <2>2, <3>3, <3>4 DEF Select, TypeInv, TypeOK
      <3>6. QED
        BY <1>3, <2>2, <3>5 DEF Select, Goto, Steps, ArchiveSteps, TypeInv, TypeOK,
           archiveVars, sessionVars, syncVars, boundVars
    <2>3. QED
      BY <2>1, <2>2
  <1>4. QED
    BY <1>1, <1>2, <1>3 DEF Choose

\* A request is well formed.
LEMMA CallAsks ==
  ASSUME TypeInv, NEW h \in Host, Call(h)
  PROVE  \E r \in Request : Ask(h, r)
  <1>1. PICK s \in Session, c \in checkpoints \cup {NoCheckpoint},
             expected \in KnownHeads :
           \/ \E kind \in {"ingest", "compile"}, batch \in Batches :
                Ask(h, [kind |-> kind, session |-> s, checkpoint |-> c,
                        events |-> batch, expected |-> expected])
           \/ Ask(h, [kind |-> "compile", session |-> s, checkpoint |-> c,
                      events |-> NoEvents, expected |-> expected])
    BY DEF Call
  <1>2. c \in Checkpoint \cup {NoCheckpoint}
    BY DEF TypeInv, TypeOK
  <1>3. expected \in Heads
    BY DEF KnownHeads, TypeInv, TypeOK, Checkpoint, SessionState, Heads
  <1>4. \A kind \in {"ingest", "compile"}, batch \in Seq(Event) \cup {NoEvents} :
          [kind |-> kind, session |-> s, checkpoint |-> c, events |-> batch,
           expected |-> expected] \in Request
    BY <1>2, <1>3 DEF Request
  <1>5. QED
    BY <1>1, <1>4, ConnectorAssumption

\* A request that arrives.
LEMMA CallTyped ==
  ASSUME TypeInv, NEW h \in Host, Call(h)
  PROVE  TypeInv'
  <1>1. PICK r \in Request : Ask(h, r)
    BY CallAsks
  <1>2. calls' \in 0..MaxCalls
    BY <1>1, ConnectorAssumption DEF Ask, TypeInv, TypeOK
  <1>3. work' \in [Host -> SessionState]
    <2>1. CASE r.checkpoint = NoCheckpoint
      BY <1>1, <2>1 DEF Ask, TypeInv, TypeOK
    <2>2. CASE r.checkpoint # NoCheckpoint
      <3>1. r.checkpoint.state \in SessionState
        BY <1>1, <2>2 DEF Request, Checkpoint
      <3>2. [r.checkpoint.state EXCEPT !.verified = FALSE] \in SessionState
        BY <3>1 DEF SessionState
      <3>3. QED
        BY <1>1, <2>2, <3>2 DEF Ask, TypeInv, TypeOK
    <2>3. QED
      BY <2>1, <2>2
  <1>4. QED
    BY <1>1, <1>2, <1>3 DEF Ask, Goto, Steps, ArchiveSteps, Replies, TypeInv, TypeOK,
       archiveVars, sessionVars, syncVars, boundVars

\* The steps of a host without an archive.
LEMMA LocalTyped ==
  ASSUME TypeInv, NEW h \in Host, Local(h)
  PROVE  TypeInv'
  <1>1. work[h] \in SessionState
    BY DEF TypeInv, TypeOK
  <1>2. request[h] \in Request /\ request[h].expected \in Heads
    BY DEF Local, IngestLocally, CompileLocally, RefuseLocally, TypeInv, Request
  <1>3. CASE IngestLocally(h)
    BY <1>1, <1>2, <1>3, IngestTyped, ClaimTyped, RegisteredTyped
       DEF IngestLocally, TypeInv, TypeOK
  <1>4. CASE CompileLocally(h)
    <2>1. work' \in [Host -> SessionState]
      BY <1>1, <1>2, <1>4, ClaimTyped DEF CompileLocally, TypeInv, TypeOK
    <2>2. QED
      BY <1>4, <2>1 DEF CompileLocally, Goto, Steps, TypeInv, TypeOK, archiveVars,
         sessionVars, syncVars, boundVars
  <1>5. CASE RefuseLocally(h)
    BY <1>5, RejectTyped DEF RefuseLocally, Replies, TypeInv, TypeOK, boundVars
  <1>6. QED
    BY <1>3, <1>4, <1>5 DEF Local

\* The steps of _synchronize_archive_session.
LEMMA SynchronizeTyped ==
  ASSUME TypeInv, NEW h \in Host, Synchronize(h)
  PROVE  TypeInv'
  <1>1. request[h] \in Request /\ request[h].expected \in Heads /\ SessionOf(h) \in Session
    BY DEF Synchronize, SyncBegin, SyncLoad, SyncAppendNothing, SyncAppendRefused,
       SyncAppend, SyncSettle, SyncVerify, ReloadRefused, StageEvents,
       RegisterIngested, BindForCompile, TypeInv, Request, SessionOf
  <1>2. archive \in Archive /\ archive.records \in SUBSET Record
    BY DEF TypeInv, TypeOK, Archive
  <1>3. work[h] \in SessionState /\ work[h].head \in Heads /\ work[h].sources \in SUBSET Record
    BY DEF TypeInv, TypeOK, SessionState
  <1>4. Synchronized(h) \in SessionState
    BY SynchronizedTyped
  <1>5. CASE Reject(h, "refused") /\ UNCHANGED boundVars
    BY <1>5, RejectTyped DEF Replies, TypeInv, TypeOK, boundVars
  <1>6. CASE SyncBegin(h) /\ ~Reject(h, "refused")
    <2>1. Precondition(h) \in Heads
      BY <1>1, <1>3 DEF Precondition, Heads
    <2>2. /\ required' = [required EXCEPT ![h] = Precondition(h)]
          /\ pc' = [pc EXCEPT ![h] = "load"]
          /\ UNCHANGED <<archiveVars, sessionVars, checkpoints, request, work, missing,
                         head, round, reply, boundVars>>
      BY <1>6 DEF SyncBegin, Goto
    <2>3. required' \in [Host -> Heads] /\ pc' \in [Host -> Steps]
      BY <2>1, <2>2 DEF Steps, ArchiveSteps, TypeInv, TypeOK
    <2>4. \A g \in Host : pc'[g] # "idle" => request'[g] \in Request
      BY <1>1, <2>2 DEF TypeInv, TypeOK
    <2>5. QED
      BY <2>2, <2>3, <2>4 DEF TypeInv, TypeOK, archiveVars, sessionVars, boundVars
  <1>7. CASE SyncLoad(h) /\ ~Reject(h, "refused")
    <2>1. /\ missing' = [missing EXCEPT ![h] = work[h].sources \ archive.records]
          /\ pc' = [pc EXCEPT ![h] = "append"]
          /\ pc[h] = "load"
          /\ UNCHANGED <<archiveVars, sessionVars, checkpoints, request, work, required,
                         head, round, reply, boundVars>>
      BY <1>7 DEF SyncLoad, Goto
    <2>2. missing' \in [Host -> SUBSET Record] /\ pc' \in [Host -> Steps]
      BY <1>3, <2>1 DEF Steps, ArchiveSteps, TypeInv, TypeOK
    <2>3. \A g \in Host : pc'[g] # "idle" => request'[g] \in Request
      BY <2>1 DEF TypeInv, TypeOK
    <2>4. QED
      BY <2>1, <2>2, <2>3 DEF TypeInv, TypeOK, archiveVars, sessionVars, boundVars
  <1>8. CASE SyncAppendNothing(h)
    BY <1>8 DEF SyncAppendNothing, Goto, Steps, ArchiveSteps, TypeInv, TypeOK,
       archiveVars, sessionVars, syncVars, boundVars
  <1>9. CASE SyncAppendRefused(h)
    BY <1>5, <1>9 DEF SyncAppendRefused
  <1>10. CASE SyncAppend(h)
    <2>1. archive' \in Archive
      BY <1>2, <1>10 DEF SyncAppend, Merged, Archive, TypeInv, TypeOK
    <2>2. durable' \subseteq Archive
      BY <1>10, <2>1 DEF SyncAppend, TypeInv, TypeOK
    <2>3. QED
      BY <1>10, <2>1, <2>2 DEF SyncAppend, Goto, Steps, ArchiveSteps, TypeInv,
         TypeOK, sessionVars, syncVars, boundVars
  <1>11. CASE SyncSettle(h)
    BY <1>2, <1>11 DEF SyncSettle, Goto, Steps, ArchiveSteps, TypeInv, TypeOK,
       sessionVars, syncVars, boundVars
  <1>12. CASE SyncVerify(h) /\ ~Reject(h, "refused")
    BY <1>2, <1>12 DEF SyncVerify, Goto, Steps, ArchiveSteps, Heads, TypeInv, TypeOK,
       archiveVars, sessionVars, boundVars
  <1>13. CASE ReloadRefused(h)
    BY <1>5, <1>13 DEF ReloadRefused
  <1>14. CASE StageEvents(h) /\ ~Reject(h, "refused")
    <2>1. Ingest(Synchronized(h), request[h].events) \in SessionState
      BY <1>4, <1>14, IngestTyped DEF StageEvents, Synchronized
    <2>2. head[h] \in Heads /\ NoHead \in Heads
      BY DEF TypeInv, TypeOK, Heads
    <2>3. /\ work' = [work EXCEPT ![h] = Ingest(Synchronized(h), request[h].events)]
          /\ required' = [required EXCEPT ![h] = head[h]]
          /\ missing' = [missing EXCEPT ![h] = {}]
          /\ head' = [head EXCEPT ![h] = NoHead]
          /\ round' = [round EXCEPT ![h] = 2]
          /\ pc' = [pc EXCEPT ![h] = "load"]
          /\ UNCHANGED <<archiveVars, sessionVars, checkpoints, request, reply, boundVars>>
      BY <1>14 DEF StageEvents, Goto
    <2>4. work' \in [Host -> SessionState]
      BY <2>1, <2>3 DEF TypeInv, TypeOK
    <2>5. required' \in [Host -> Heads] /\ head' \in [Host -> Heads]
      BY <2>2, <2>3 DEF TypeInv, TypeOK
    <2>6. missing' \in [Host -> SUBSET Record] /\ round' \in [Host -> {1, 2}]
      BY <2>3 DEF TypeInv, TypeOK
    <2>7. pc' \in [Host -> Steps]
      BY <2>3 DEF Steps, ArchiveSteps, TypeInv, TypeOK
    <2>8. \A g \in Host : pc'[g] # "idle" => request'[g] \in Request
      BY <1>1, <2>3 DEF TypeInv, TypeOK
    <2>9. QED
      BY <2>3, <2>4, <2>5, <2>6, <2>7, <2>8 DEF TypeInv, TypeOK, archiveVars,
         sessionVars, boundVars
  <1>15. CASE RegisterIngested(h)
    <2>1. bound' \in [Host -> Session \cup {NoSession}]
      BY <1>1, <1>15 DEF RegisterIngested, Bind, TypeInv, TypeOK
    <2>2. QED
      BY <1>1, <1>4, <1>15, <2>1, RegisteredTyped DEF RegisterIngested
  <1>16. CASE BindForCompile(h)
    BY <1>1, <1>4, <1>16 DEF BindForCompile, Bind, Goto, Steps, TypeInv, TypeOK,
       archiveVars, syncVars, boundVars
  <1>17. QED
    BY <1>5, <1>6, <1>7, <1>8, <1>9, <1>10, <1>11, <1>12, <1>13, <1>14, <1>15, <1>16
       DEF Synchronize, SyncBegin, SyncLoad, SyncVerify, StageEvents

\* The end of a compilation, a failing archive call, the death of a host.
LEMMA EndTyped ==
  ASSUME TypeInv, NEW h \in Host, Compile(h) \/ ArchiveFault(h) \/ HostDeath(h)
  PROVE  TypeInv'
  <1>1. CASE CompileReturns(h)
    <2>1. request[h] \in Request /\ SessionOf(h) \in Session
      BY <1>1 DEF CompileReturns, TypeInv, SessionOf, Request
    <2>2. work[h] \in SessionState
      BY DEF TypeInv, TypeOK
    <2>3. live' \in [Host -> [Session -> SessionState \cup {NoSession}]]
      BY <1>1, <2>1, <2>2 DEF CompileReturns, Register, TypeInv, TypeOK
    <2>4. checkpoints' \subseteq Checkpoint
      BY <1>1, <2>1, <2>2 DEF CompileReturns, Succeed, Checkpoint, TypeInv, TypeOK
    <2>5. QED
      BY <1>1, <2>3, <2>4, AnswerTyped DEF CompileReturns, Succeed, Replies, TypeInv,
         TypeOK, archiveVars, boundVars
  <1>2. CASE CompileRaises(h)
    BY <1>2, RejectTyped DEF CompileRaises, Replies, TypeInv, TypeOK, boundVars
  <1>3. CASE ArchiveFault(h)
    <2>1. faults' \in 0..MaxFaults
      BY <1>3, ConnectorAssumption DEF ArchiveFault, TypeInv, TypeOK
    <2>2. CASE Reject(h, "failed")
      BY <1>3, <2>1, <2>2, RejectTyped DEF ArchiveFault, Replies, TypeInv, TypeOK
    <2>3. CASE ~Reject(h, "failed")
      BY <1>3, <2>1, <2>3 DEF ArchiveFault, Goto, Steps, ArchiveSteps, TypeInv, TypeOK,
         archiveVars, sessionVars, syncVars
    <2>4. QED
      BY <2>2, <2>3
  <1>4. CASE HostDeath(h)
    <2>1. crashes' \in 0..MaxCrashes
      BY <1>4, ConnectorAssumption DEF HostDeath, TypeInv, TypeOK
    <2>2. QED
      BY <1>4, <2>1, AnswerTyped DEF HostDeath, NoSessions, Replies, TypeInv, TypeOK,
         archiveVars
  <1>5. QED
    BY <1>1, <1>2, <1>3, <1>4 DEF Compile

LEMMA PowerLossTyped ==
  ASSUME TypeInv, PowerLoss
  PROVE  TypeInv'
  <1>1. crashes' \in 0..MaxCrashes
    BY ConnectorAssumption DEF PowerLoss, TypeInv, TypeOK
  <1>2. Fresh \in SessionState /\ NoHead \in Heads
    BY DEF Fresh, SessionState, Heads
  <1>3. QED
    BY <1>1, <1>2 DEF PowerLoss, NoSessions, Steps, Replies, TypeInv, TypeOK

LEMMA StepTyped == TypeInv /\ [Next]_vars => TypeInv'
  <1> SUFFICES ASSUME TypeInv, [Next]_vars PROVE TypeInv'
    OBVIOUS
  <1>1. CASE UNCHANGED vars
    BY <1>1 DEF vars, archiveVars, sessionVars, syncVars, boundVars, TypeInv, TypeOK
  <1>2. CASE Next
    BY <1>2, CallTyped, ChooseTyped, LocalTyped, SynchronizeTyped, EndTyped,
       PowerLossTyped DEF Next
  <1>3. QED
    BY <1>1, <1>2

\* Every value stays in its type.
THEOREM TypeCorrect == Spec => []TypeOK
  <1>1. TypeInv => TypeOK
    BY DEF TypeInv
  <1>2. QED
    BY <1>1, InitTyped, StepTyped, PTL DEF Spec
-----------------------------------------------------------------------------
(* The shared history.                                                     *)

LEMMA InitHistory == Init => HistoryInv
  BY ConnectorAssumption DEF Init, HistoryInv

\* What a commit does to the archive.
LEMMA CommitStep ==
  ASSUME NEW h \in Host, SyncAppend(h)
  PROVE  /\ archive'.records = archive.records \cup missing[h]
         /\ archive'.chained
         /\ Consistent(archive'.records)
         /\ durable' = durable \cup {archive'}
  BY DEF SyncAppend, Merged

\* Only a commit, a settlement and a power failure touch the archive.
LEMMA ArchiveUntouched ==
  ASSUME NEW h \in Host,
         \/ Call(h) \/ Choose(h) \/ Local(h) \/ Compile(h) \/ ArchiveFault(h)
         \/ HostDeath(h)
         \/ Synchronize(h) /\ ~SyncAppend(h) /\ ~SyncSettle(h)
  PROVE  archive' = archive /\ durable' = durable
  <1>1. CASE Call(h)
    BY <1>1 DEF Call, Ask, archiveVars
  <1>2. CASE Choose(h)
    BY <1>2 DEF Choose, Attest, AttestSources, Select, archiveVars
  <1>3. CASE Local(h)
    BY <1>3 DEF Local, IngestLocally, CompileLocally, RefuseLocally, Reject, archiveVars
  <1>4. CASE Compile(h)
    BY <1>4 DEF Compile, CompileReturns, CompileRaises, Reject, archiveVars
  <1>5. CASE ArchiveFault(h) \/ HostDeath(h)
    BY <1>5 DEF ArchiveFault, HostDeath, Reject, archiveVars
  <1>6. CASE Synchronize(h) /\ ~SyncAppend(h) /\ ~SyncSettle(h)
    BY <1>6 DEF Synchronize, SyncBegin, SyncLoad, SyncAppendNothing, SyncAppendRefused,
       SyncVerify, ReloadRefused, StageEvents, RegisterIngested, BindForCompile, Reject,
       archiveVars
  <1>7. QED
    BY <1>1, <1>2, <1>3, <1>4, <1>5, <1>6

\* Except for a power failure, the history grows.
LEMMA ArchiveGrows ==
  ASSUME [Next]_vars, ~PowerLoss
  PROVE  archive.records \subseteq archive'.records
  <1>1. ASSUME NEW h \in Host, SyncAppend(h)
        PROVE  archive.records \subseteq archive'.records
    BY <1>1, CommitStep
  <1>2. ASSUME NEW h \in Host, SyncSettle(h)
        PROVE  archive.records \subseteq archive'.records
    BY <1>2 DEF SyncSettle
  <1>3. CASE UNCHANGED vars
    BY <1>3 DEF vars, archiveVars
  <1>4. QED
    BY <1>1, <1>2, <1>3, ArchiveUntouched DEF Next

LEMMA HistoryStep ==
  ASSUME HistoryInv, [Next]_vars
  PROVE  HistoryInv'
  <1>1. ASSUME NEW h \in Host, SyncAppend(h)
        PROVE  HistoryInv'
    <2>1. \A d \in durable' : d.records \subseteq archive'.records
      BY <1>1, CommitStep DEF HistoryInv
    <2>2. QED
      BY <1>1, <2>1, CommitStep DEF HistoryInv, Consistent
  <1>2. ASSUME NEW h \in Host, SyncSettle(h)
        PROVE  HistoryInv'
    BY <1>2 DEF SyncSettle, HistoryInv, Consistent
  <1>3. CASE PowerLoss
    BY <1>3 DEF PowerLoss, HistoryInv, Consistent
  <1>4. ASSUME archive' = archive, durable' = durable
        PROVE  HistoryInv'
    BY <1>4 DEF HistoryInv, Consistent
  <1>5. CASE UNCHANGED vars
    BY <1>4, <1>5 DEF vars, archiveVars
  <1>6. QED
    BY <1>1, <1>2, <1>3, <1>4, <1>5, ArchiveUntouched DEF Next

-----------------------------------------------------------------------------
(* The archive as the connector uses it is an append-only history.         *)

Confirmed == {r \in archive.records : \A d \in durable : r \in d.records}

LEMMA InitImplements == Init => History!Init
  <1> SUFFICES ASSUME Init PROVE History!Init
    OBVIOUS
  <1>1. TypeInv /\ HistoryInv
    BY InitTyped, InitHistory
  <1>2. QED
    BY <1>1 DEF History!Init, History!Consistent, HistoryInv, Consistent, TypeInv,
       TypeOK, Archive

LEMMA StepImplements ==
  ASSUME TypeInv, TypeInv', HistoryInv, HistoryInv', [Next]_vars
  PROVE  [History!Next]_(History!absVars)
  <1>0. archive'.records \in SUBSET Record /\ Consistent(archive'.records)
    BY DEF TypeInv, TypeOK, Archive, HistoryInv, Consistent
  <1>1. ASSUME NEW h \in Host, SyncAppend(h)
        PROVE  History!Extend
    <2>1. archive.records \subseteq archive'.records
      BY <1>1, CommitStep
    <2>2. Confirmed' = Confirmed
      BY <1>1, <2>1, CommitStep DEF Confirmed, HistoryInv
    <2>3. QED
      BY <1>0, <2>1, <2>2 DEF History!Extend, History!Consistent, Consistent, Confirmed
  <1>2. ASSUME NEW h \in Host, SyncSettle(h)
        PROVE  History!Confirm
    <2>1. archive' = archive /\ durable' = {archive}
      BY <1>2 DEF SyncSettle
    <2>2. Confirmed \subseteq archive.records /\ Confirmed' = archive.records
      BY <2>1 DEF Confirmed
    <2>3. QED
      BY <2>1, <2>2 DEF History!Confirm, Confirmed
  <1>3. ASSUME PowerLoss
        PROVE  History!Lose
    <2>1. archive' \in durable /\ durable' = {archive'}
      BY <1>3 DEF PowerLoss
    <2>2. archive'.records \subseteq archive.records
      BY <2>1 DEF HistoryInv
    <2>3. Confirmed \subseteq Confirmed' /\ Confirmed' \subseteq archive'.records
      BY <2>1 DEF Confirmed
    <2>4. /\ archive'.records \in SUBSET archive.records
          /\ Confirmed' \in SUBSET archive'.records
      BY <2>2, <2>3
    <2>5. QED
      BY <2>3, <2>4 DEF History!Lose, Confirmed
  <1>4. CASE archive' = archive /\ durable' = durable
    BY <1>4 DEF History!absVars
  <1>5. CASE UNCHANGED vars
    BY <1>4, <1>5 DEF vars, archiveVars
  <1>6. QED
    BY <1>1, <1>2, <1>3, <1>4, <1>5, ArchiveUntouched DEF Next, History!Next

\* What the hosts do to the shared archive, whatever they are asked, is what an
\* append-only history allows.
THEOREM Refinement == Spec => ImplementsHistory
  <1>1. TypeInv /\ HistoryInv /\ [Next]_vars => (TypeInv /\ HistoryInv)'
    BY StepTyped, HistoryStep
  <1>2. TypeInv /\ HistoryInv /\ (TypeInv /\ HistoryInv)' /\ [Next]_vars
          => [History!Next]_(History!absVars)
    BY StepImplements
  <1>3. QED
    BY <1>1, <1>2, InitTyped, InitHistory, InitImplements, PTL
       DEF Spec, ImplementsHistory, History!Spec
-----------------------------------------------------------------------------
(* The sessions.                                                           *)

\* A step of a host.
HostStep(h) ==
    \/ Call(h) \/ Choose(h) \/ Local(h) \/ Synchronize(h) \/ Compile(h)
    \/ ArchiveFault(h) \/ HostDeath(h)

LEMMA NextIsHostStep == Next <=> (\E h \in Host : HostStep(h)) \/ PowerLoss
  BY DEF Next, HostStep

\* What a host is in the middle of, and has registered.
SameHost(g) ==
    /\ pc'[g] = pc[g] /\ request'[g] = request[g] /\ work'[g] = work[g]
    /\ required'[g] = required[g] /\ missing'[g] = missing[g] /\ head'[g] = head[g]
    /\ round'[g] = round[g] /\ live'[g] = live[g] /\ bound'[g] = bound[g]
    /\ reply'[g] = reply[g]

LEMMA AnswerIsLocal ==
  ASSUME TypeInv, NEW h \in Host, NEW g \in Host, g # h, NEW status, Answer(h, status),
         live'[g] = live[g], bound'[g] = bound[g]
  PROVE  SameHost(g)
  BY DEF Answer, Goto, SameHost, TypeInv, TypeOK

LEMMA RegisteredIsLocal ==
  ASSUME TypeInv, NEW h \in Host, NEW g \in Host, g # h, NEW state,
         Registered(h, state), bound'[g] = bound[g]
  PROVE  SameHost(g)
  <1>1. live'[g] = live[g]
    BY DEF Registered, Register, TypeInv, TypeOK
  <1>2. CASE Answer(h, "ok")
    BY <1>1, <1>2, AnswerIsLocal
  <1>3. CASE ~Answer(h, "ok")
    BY <1>1, <1>3 DEF Registered, Succeed, Goto, SameHost, syncVars, TypeInv, TypeOK
  <1>4. QED
    BY <1>2, <1>3

\* A step of one host leaves the others where they are.
LEMMA OthersUntouched ==
  ASSUME TypeInv, NEW h \in Host, NEW g \in Host, g # h, HostStep(h)
  PROVE  SameHost(g)
  <1>1. ASSUME NEW status, Reject(h, status)
        PROVE  SameHost(g)
    BY <1>1, AnswerIsLocal DEF Reject, sessionVars
  <1>2. CASE Call(h)
    BY <1>2 DEF Call, Ask, Goto, SameHost, sessionVars, syncVars, TypeInv, TypeOK
  <1>3. CASE Attest(h) \/ AttestSources(h)
    BY <1>3 DEF Attest, AttestSources, Goto, SameHost, sessionVars, syncVars, TypeInv,
       TypeOK
  <1>4. CASE Select(h)
    <2>1. CASE Answer(h, "refused")
      BY <1>4, <2>1, AnswerIsLocal DEF Select, sessionVars
    <2>2. CASE ~Answer(h, "refused")
      BY <1>4, <2>2 DEF Select, Goto, SameHost, sessionVars, syncVars, TypeInv, TypeOK
    <2>3. QED
      BY <2>1, <2>2
  <1>5. CASE IngestLocally(h)
    BY <1>5, RegisteredIsLocal DEF IngestLocally
  <1>6. CASE CompileLocally(h)
    BY <1>6 DEF CompileLocally, Goto, SameHost, sessionVars, syncVars, TypeInv, TypeOK
  <1>7. CASE RefuseLocally(h) \/ SyncAppendRefused(h) \/ ReloadRefused(h) \/ CompileRaises(h)
    BY <1>1, <1>7 DEF RefuseLocally, SyncAppendRefused, ReloadRefused, CompileRaises
  <1>8. CASE SyncBegin(h)
    BY <1>1, <1>8 DEF SyncBegin, Goto, SameHost, sessionVars, TypeInv, TypeOK
  <1>9. CASE SyncLoad(h)
    BY <1>1, <1>9 DEF SyncLoad, Goto, SameHost, sessionVars, TypeInv, TypeOK
  <1>10. CASE SyncAppendNothing(h) \/ SyncAppend(h) \/ SyncSettle(h)
    BY <1>10 DEF SyncAppendNothing, SyncAppend, SyncSettle, Goto, SameHost, sessionVars,
       syncVars, TypeInv, TypeOK
  <1>11. CASE SyncVerify(h)
    BY <1>1, <1>11 DEF SyncVerify, Goto, SameHost, sessionVars, TypeInv, TypeOK
  <1>12. CASE StageEvents(h)
    BY <1>1, <1>12 DEF StageEvents, Goto, SameHost, sessionVars, TypeInv, TypeOK
  <1>13. CASE RegisterIngested(h)
    BY <1>13, RegisteredIsLocal DEF RegisterIngested, Bind, TypeInv, TypeOK
  <1>14. CASE BindForCompile(h)
    BY <1>14 DEF BindForCompile, Bind, Goto, SameHost, syncVars, TypeInv, TypeOK
  <1>15. CASE CompileReturns(h)
    <2>1. live'[g] = live[g] /\ bound'[g] = bound[g]
      BY <1>15 DEF CompileReturns, Register, TypeInv, TypeOK
    <2>2. QED
      BY <1>15, <2>1, AnswerIsLocal DEF CompileReturns, Succeed
  <1>16. CASE ArchiveFault(h)
    BY <1>1, <1>16 DEF ArchiveFault, Goto, SameHost, sessionVars, syncVars, TypeInv,
       TypeOK
  <1>17. CASE HostDeath(h)
    <2>1. live'[g] = live[g] /\ bound'[g] = bound[g]
      BY <1>17 DEF HostDeath, TypeInv, TypeOK
    <2>2. QED
      BY <1>17, <2>1, AnswerIsLocal DEF HostDeath
  <1>18. QED
    BY <1>2, <1>3, <1>4, <1>5, <1>6, <1>7, <1>8, <1>9, <1>10, <1>11, <1>12, <1>13,
       <1>14, <1>15, <1>16, <1>17 DEF HostStep, Choose, Local, Synchronize, Compile

\* A host that is left alone stays as it should be while the history grows.
LEMMA OthersStayOK ==
  ASSUME NEW g \in Host, HostOK(g), SameHost(g), archive.records \subseteq archive'.records
  PROVE  HostOK(g)'
  <1>1. KeepsCheckpoint(g)'
    BY DEF HostOK, KeepsCheckpoint, SameHost
  <1>2. g \notin ArchiveHost => LocalOK(g)'
    BY DEF HostOK, LocalOK, SameHost, SessionOf
  <1>3. g \in ArchiveHost => SharedOK(g)'
    BY DEF HostOK, SharedOK, IsPoint, SameHost, SessionOf
  <1>4. g \in ArchiveHost => SyncOK(g)'
    BY DEF HostOK, SyncOK, SameHost, SessionOf
  <1>5. QED
    BY <1>1, <1>2, <1>3, <1>4 DEF HostOK

\* What an answer leaves behind.
LEMMA AnswerResets ==
  ASSUME TypeInv, NEW h \in Host, NEW status, Answer(h, status)
  PROVE  pc'[h] = "idle" /\ work'[h] = Fresh /\ round'[h] = 1
  BY DEF Answer, Goto, TypeInv, TypeOK

\* A request that ends without registering anything.
LEMMA RejectOK ==
  ASSUME TypeInv, NEW h \in Host, HostOK(h), NEW status, Reject(h, status)
  PROVE  HostOK(h)'
  <1>1. /\ pc'[h] = "idle" /\ work'[h] = Fresh /\ round'[h] = 1
        /\ live' = live /\ bound' = bound /\ archive' = archive
    BY AnswerResets DEF Reject, archiveVars, sessionVars
  <1>2. KeepsCheckpoint(h)'
    BY <1>1 DEF KeepsCheckpoint
  <1>3. h \notin ArchiveHost => LocalOK(h)'
    BY <1>1 DEF HostOK, LocalOK, Fresh, ArchiveSteps
  <1>4. h \in ArchiveHost => SharedOK(h)' /\ SyncOK(h)'
    BY <1>1 DEF HostOK, SharedOK, SyncOK, SyncSteps, IsPoint
  <1>5. QED
    BY <1>2, <1>3, <1>4 DEF HostOK

LEMMA CallOK ==
  ASSUME TypeInv, NEW h \in Host, HostOK(h), Call(h)
  PROVE  HostOK(h)'
  <1>1. PICK r \in Request : Ask(h, r)
    BY CallAsks
  <1>2. /\ request'[h] = r /\ pc[h] = "idle"
        /\ live' = live /\ bound' = bound /\ archive' = archive /\ round' = round
    BY <1>1 DEF Ask, TypeInv, TypeOK, archiveVars, sessionVars, syncVars
  <1>3. CASE r.checkpoint = NoCheckpoint
    <2>1. pc'[h] = "select" /\ work' = work
      BY <1>1, <1>3 DEF Ask, Goto, TypeInv, TypeOK
    <2>2. KeepsCheckpoint(h)'
      BY <1>2, <1>3 DEF KeepsCheckpoint
    <2>3. QED
      BY <1>2, <2>1, <2>2 DEF HostOK, LocalOK, SharedOK, SyncOK, SyncSteps, IsPoint,
         ArchiveSteps
  <1>4. CASE r.checkpoint # NoCheckpoint
    <2>1. /\ work'[h] = [r.checkpoint.state EXCEPT !.verified = FALSE]
          /\ pc'[h] \in {"select", "attest"}
          /\ h \notin ArchiveHost => pc'[h] = "select"
      BY <1>1, <1>4 DEF Ask, Goto, Archived, TypeInv, TypeOK
    <2>2. r.checkpoint.state \in SessionState
      BY <1>4 DEF Request, Checkpoint
    <2>3. work'[h].sources = r.checkpoint.state.sources /\ ~work'[h].verified
      BY <2>1, <2>2 DEF SessionState
    <2>4. KeepsCheckpoint(h)'
      BY <1>2, <2>3 DEF KeepsCheckpoint
    <2>5. QED
      BY <1>2, <2>1, <2>3, <2>4 DEF HostOK, LocalOK, SharedOK, SyncOK, SyncSteps, IsPoint,
         ArchiveSteps
  <1>5. QED
    BY <1>3, <1>4

LEMMA ChooseOK ==
  ASSUME TypeInv, NEW h \in Host, HostOK(h), Choose(h)
  PROVE  HostOK(h)'
  <1>0. work[h] \in SessionState /\ request[h] \in Request /\ SessionOf(h) \in Session
    BY DEF Choose, Attest, AttestSources, Select, TypeInv, TypeOK, SessionOf, Request
  <1>1. live' = live /\ bound' = bound /\ archive' = archive
    BY DEF Choose, Attest, AttestSources, Select, archiveVars, sessionVars
  <1>2. CASE Attest(h) \/ AttestSources(h)
    <2>1. /\ pc[h] \in {"attest", "compare"} /\ pc'[h] \in {"compare", "select"}
          /\ request' = request /\ round' = round /\ work'[h].sources = work[h].sources
      BY <1>0, <1>2 DEF Attest, AttestSources, Goto, syncVars, TypeInv, TypeOK, SessionState
    <2>2. h \in ArchiveHost
      BY <2>1 DEF HostOK, LocalOK, ArchiveSteps
    <2>3. KeepsCheckpoint(h)'
      BY <2>1 DEF HostOK, KeepsCheckpoint
    <2>4. QED
      BY <1>1, <2>1, <2>2, <2>3 DEF HostOK, SharedOK, SyncOK, SyncSteps, IsPoint
  <1>3. CASE Select(h) /\ Answer(h, "refused")
    <2>1. Reject(h, "refused")
      BY <1>3 DEF Select, Reject
    <2>2. QED
      BY <2>1, RejectOK
  <1>4. CASE Select(h) /\ ~Answer(h, "refused")
    <2>1. /\ pc[h] = "select" /\ pc'[h] = "begin"
          /\ request' = request /\ round' = round
      BY <1>4 DEF Select, Goto, syncVars, TypeInv, TypeOK
    <2>2. CASE request[h].checkpoint # NoCheckpoint
      <3>1. work' = work /\ ~Conflicts(h)
        BY <1>4, <2>2 DEF Select
      <3>2. live[h][SessionOf(h)] # NoSession => live[h][SessionOf(h)] = work[h]
        BY <3>1 DEF Conflicts
      <3>3. KeepsCheckpoint(h)'
        BY <2>1, <3>1 DEF HostOK, KeepsCheckpoint
      <3>4. QED
        BY <1>1, <2>1, <3>1, <3>2, <3>3 DEF HostOK, LocalOK, SharedOK, SyncOK, SyncSteps,
           IsPoint, ArchiveSteps, SessionOf
    <2>3. CASE request[h].checkpoint = NoCheckpoint
      <3>1. \/ live[h][SessionOf(h)] # NoSession /\ work'[h] = live[h][SessionOf(h)]
            \/ live[h][SessionOf(h)] = NoSession /\ work'[h] = Fresh
        BY <1>4, <2>3 DEF Select, TypeInv, TypeOK
      <3>2. KeepsCheckpoint(h)'
        BY <2>1, <2>3 DEF KeepsCheckpoint
      <3>3. QED
        BY <1>0, <1>1, <2>1, <3>1, <3>2 DEF HostOK, LocalOK, SharedOK, SyncOK, SyncSteps,
           IsPoint, ArchiveSteps, SessionOf, Fresh
    <2>4. QED
      BY <2>2, <2>3
  <1>5. QED
    BY <1>2, <1>3, <1>4 DEF Choose

\* What the registration of a session changes.
LEMMA RegisteredEffect ==
  ASSUME TypeInv, NEW h \in Host, request[h] \in Request, NEW state, Registered(h, state)
  PROVE  /\ live'[h][SessionOf(h)] = state
         /\ \A s \in Session : s # SessionOf(h) => live'[h][s] = live[h][s]
         /\ \/ pc'[h] = "idle" /\ work'[h] = Fresh /\ round'[h] = 1
            \/ /\ pc'[h] = "compile" /\ work'[h] = state
               /\ round' = round /\ request' = request
  <1>1. SessionOf(h) \in Session
    BY DEF SessionOf, Request
  <1>2. /\ live'[h][SessionOf(h)] = state
        /\ \A s \in Session : s # SessionOf(h) => live'[h][s] = live[h][s]
    BY <1>1 DEF Registered, Register, TypeInv, TypeOK
  <1>3. CASE Succeed(h, state)
    BY <1>2, <1>3, AnswerResets DEF Succeed
  <1>4. CASE ~Succeed(h, state)
    BY <1>2, <1>4 DEF Registered, Goto, syncVars, TypeInv, TypeOK
  <1>5. QED
    BY <1>3, <1>4

\* The records of a state and what is known of its head do not depend on events.
LEMMA IngestKeeps ==
  ASSUME NEW state \in SessionState, NEW batch
  PROVE  /\ state.sources \subseteq Ingest(state, batch).sources
         /\ Ingest(state, batch).verified = state.verified
  BY DEF Ingest, SessionState

LEMMA ClaimKeeps ==
  ASSUME NEW state \in SessionState, NEW expected
  PROVE  /\ WithClaimedHead(state, expected).sources = state.sources
         /\ WithClaimedHead(state, expected).verified = state.verified
  BY DEF WithClaimedHead, SessionState

\* The steps of a host without an archive.
LEMMA LocalStepOK ==
  ASSUME TypeInv, NEW h \in Host, HostOK(h), Local(h)
  PROVE  HostOK(h)'
  <1>0. /\ pc[h] = "begin" /\ h \notin ArchiveHost
        /\ request[h] \in Request /\ SessionOf(h) \in Session
        /\ work[h] \in SessionState
    BY DEF Local, IngestLocally, CompileLocally, RefuseLocally, Archived, TypeInv, TypeOK,
       SessionOf, Request
  <1>1. /\ LocalOK(h)
        /\ request[h].checkpoint # NoCheckpoint =>
             request[h].checkpoint.state.sources \subseteq work[h].sources
    BY <1>0 DEF HostOK, KeepsCheckpoint
  <1>2. CASE IngestLocally(h)
    <2> DEFINE grown == Ingest(work[h], request[h].events)
               state == WithClaimedHead(grown, request[h].expected)
    <2>1. grown \in SessionState
      BY <1>0, <1>2, IngestTyped DEF IngestLocally
    <2>2. work[h].sources \subseteq state.sources /\ ~state.verified
      <3>1. ~work[h].verified
        BY <1>1 DEF LocalOK
      <3>2. work[h].sources \subseteq grown.sources /\ grown.verified = work[h].verified
        BY <1>0, IngestKeeps
      <3>3. state.sources = grown.sources /\ state.verified = grown.verified
        BY <2>1, ClaimKeeps
      <3>4. QED
        BY <3>1, <3>2, <3>3
    <2>3. Registered(h, state)
      BY <1>2 DEF IngestLocally
    <2> HIDE DEF state
    <2>4. /\ live'[h][SessionOf(h)] = state
          /\ \A s \in Session : s # SessionOf(h) => live'[h][s] = live[h][s]
          /\ \/ pc'[h] = "idle" /\ work'[h] = Fresh /\ round'[h] = 1
             \/ /\ pc'[h] = "compile" /\ work'[h] = state
                /\ round' = round /\ request' = request
      BY <1>0, <2>3, RegisteredEffect
    <2>5. KeepsCheckpoint(h)'
      BY <1>1, <2>2, <2>4 DEF KeepsCheckpoint
    <2>6. LocalOK(h)'
      BY <1>1, <2>2, <2>4 DEF LocalOK, Fresh, ArchiveSteps, SessionOf
    <2>7. QED
      BY <1>0, <2>5, <2>6 DEF HostOK
  <1>3. CASE CompileLocally(h)
    <2>1. /\ pc'[h] = "compile" /\ live' = live /\ request' = request
          /\ work'[h] = WithClaimedHead(work[h], request[h].expected)
      BY <1>3 DEF CompileLocally, Goto, sessionVars, TypeInv, TypeOK
    <2>2. work'[h].sources = work[h].sources /\ work'[h].verified = work[h].verified
      BY <1>0, <2>1, ClaimKeeps
    <2>3. KeepsCheckpoint(h)'
      BY <1>1, <2>1, <2>2 DEF KeepsCheckpoint
    <2>4. LocalOK(h)'
      BY <1>0, <1>1, <2>1, <2>2 DEF LocalOK, ArchiveSteps, SessionOf
    <2>5. QED
      BY <1>0, <2>3, <2>4 DEF HostOK
  <1>4. CASE RefuseLocally(h)
    BY <1>4, RejectOK DEF RefuseLocally
  <1>5. QED
    BY <1>2, <1>3, <1>4 DEF Local

\* In a synchronization: the host has an archive, and a session that may own it.
LEMMA SyncContext ==
  ASSUME TypeInv, NEW h \in ArchiveHost, HostOK(h), pc[h] # "idle"
  PROVE  /\ h \in Host /\ SharedOK(h) /\ SyncOK(h)
         /\ request[h] \in Request /\ SessionOf(h) \in Session
         /\ work[h] \in SessionState /\ archive \in Archive
         /\ request[h].checkpoint # NoCheckpoint =>
              request[h].checkpoint.state.sources \subseteq work[h].sources
  <1>1. h \in Host
    BY ConnectorAssumption
  <1>2. request[h] \in Request /\ SessionOf(h) \in Session
    BY <1>1 DEF TypeInv, SessionOf, Request
  <1>3. QED
    BY <1>1, <1>2 DEF HostOK, KeepsCheckpoint, TypeInv, TypeOK

\* An accepted head is the whole history of a chained archive.
LEMMA HeadIsHistory ==
  ASSUME NEW expected, expected # NoHead, HeadOf(archive) = expected
  PROVE  archive.chained /\ expected = archive.records
  BY DEF HeadOf

\* A host that goes on with the same session and the same request.
LEMMA GoesOn ==
  ASSUME TypeInv, NEW h \in ArchiveHost, HostOK(h), pc[h] # "idle",
         live' = live, bound' = bound, request' = request,
         archive.records \subseteq archive'.records, pc'[h] # "compile",
         work[h].sources \subseteq work'[h].sources, SyncOK(h)'
  PROVE  HostOK(h)'
  <1>1. KeepsCheckpoint(h)'
    BY SyncContext DEF KeepsCheckpoint
  <1>2. SharedOK(h)'
    BY SyncContext DEF SharedOK, IsPoint
  <1>3. QED
    BY <1>1, <1>2 DEF HostOK

LEMMA SyncBeginOK ==
  ASSUME TypeInv, NEW h \in ArchiveHost, HostOK(h), SyncBegin(h)
  PROVE  HostOK(h)'
  <1>1. h \in Host /\ SyncOK(h) /\ pc[h] = "begin"
    BY SyncContext DEF SyncBegin
  <1>2. CASE Reject(h, "refused")
    BY <1>1, <1>2, RejectOK
  <1>3. CASE ~Reject(h, "refused")
    <2>1. /\ pc'[h] = "load" /\ ~BoundToAnother(h) /\ archive' = archive
          /\ live' = live /\ bound' = bound /\ request' = request
          /\ work' = work /\ round' = round
      BY <1>1, <1>3 DEF SyncBegin, Goto, archiveVars, sessionVars, TypeInv, TypeOK
    <2>2. SyncOK(h)'
      BY <1>1, <2>1 DEF SyncOK, SyncSteps, BoundToAnother, SessionOf
    <2>3. QED
      BY <1>1, <2>1, <2>2, GoesOn
  <1>4. QED
    BY <1>2, <1>3

LEMMA SyncLoadOK ==
  ASSUME TypeInv, NEW h \in ArchiveHost, HostOK(h), SyncLoad(h)
  PROVE  HostOK(h)'
  <1>1. h \in Host /\ SyncOK(h) /\ pc[h] = "load"
    BY SyncContext DEF SyncLoad
  <1>2. CASE Reject(h, "refused")
    BY <1>1, <1>2, RejectOK
  <1>3. CASE ~Reject(h, "refused")
    <2>1. /\ pc'[h] = "append" /\ HeadAccepted(required[h])
          /\ missing'[h] = work[h].sources \ archive.records
          /\ archive' = archive /\ live' = live /\ bound' = bound /\ request' = request
          /\ work' = work /\ round' = round /\ required' = required
      BY <1>1, <1>3 DEF SyncLoad, Goto, archiveVars, sessionVars, TypeInv, TypeOK
    <2>2. required[h] # NoHead => required[h] = archive.records
      BY <2>1, HeadIsHistory DEF HeadAccepted
    <2>3. SyncOK(h)'
      BY <1>1, <2>1, <2>2 DEF SyncOK, SyncSteps, SessionOf
    <2>4. QED
      BY <1>1, <2>1, <2>3, GoesOn
  <1>4. QED
    BY <1>2, <1>3

LEMMA SyncAppendNothingOK ==
  ASSUME TypeInv, NEW h \in ArchiveHost, HostOK(h), SyncAppendNothing(h)
  PROVE  HostOK(h)'
  <1>1. h \in Host /\ SyncOK(h) /\ pc[h] = "append"
    BY SyncContext DEF SyncAppendNothing
  <1>2. /\ pc'[h] = "verify" /\ missing[h] \subseteq archive.records
        /\ archive' = archive /\ live' = live /\ bound' = bound /\ request' = request
        /\ work' = work
    BY <1>1 DEF SyncAppendNothing, Goto, archiveVars, sessionVars, TypeInv, TypeOK
  <1>3. SyncOK(h)'
    BY <1>1, <1>2 DEF SyncOK, SyncSteps, SessionOf
  <1>4. QED
    BY <1>1, <1>2, <1>3, GoesOn

LEMMA SyncAppendOK ==
  ASSUME TypeInv, NEW h \in ArchiveHost, HostOK(h), SyncAppend(h)
  PROVE  HostOK(h)'
  <1>1. h \in Host /\ SyncOK(h) /\ pc[h] = "append"
    BY SyncContext DEF SyncAppend
  <1>2. /\ pc'[h] = "settle" /\ archive'.records = archive.records \cup missing[h]
        /\ live' = live /\ bound' = bound /\ request' = request /\ work' = work
    BY <1>1 DEF SyncAppend, Merged, Goto, sessionVars, TypeInv, TypeOK
  <1>3. SyncOK(h)'
    BY <1>1, <1>2 DEF SyncOK, SyncSteps, SessionOf
  <1>4. QED
    BY <1>1, <1>2, <1>3, GoesOn

LEMMA SyncSettleOK ==
  ASSUME TypeInv, NEW h \in ArchiveHost, HostOK(h), SyncSettle(h)
  PROVE  HostOK(h)'
  <1>1. h \in Host /\ SyncOK(h) /\ pc[h] = "settle"
    BY SyncContext DEF SyncSettle
  <1>2. /\ pc'[h] = "verify" /\ archive' = archive
        /\ live' = live /\ bound' = bound /\ request' = request /\ work' = work
    BY <1>1 DEF SyncSettle, Goto, sessionVars, TypeInv, TypeOK
  <1>3. SyncOK(h)'
    BY <1>1, <1>2 DEF SyncOK, SyncSteps, SessionOf
  <1>4. QED
    BY <1>1, <1>2, <1>3, GoesOn

LEMMA SyncVerifyOK ==
  ASSUME TypeInv, NEW h \in ArchiveHost, HostOK(h), SyncVerify(h)
  PROVE  HostOK(h)'
  <1>1. h \in Host /\ SyncOK(h) /\ pc[h] = "verify" /\ archive \in Archive
    BY SyncContext DEF SyncVerify
  <1>2. CASE Reject(h, "refused")
    BY <1>1, <1>2, RejectOK
  <1>3. CASE ~Reject(h, "refused")
    <2>1. /\ pc'[h] = "reload" /\ head'[h] = archive.records
          /\ archive' = archive /\ live' = live /\ bound' = bound /\ request' = request
          /\ work' = work
      BY <1>1, <1>3 DEF SyncVerify, Goto, archiveVars, sessionVars, TypeInv, TypeOK
    <2>2. head'[h] # NoHead
      BY <1>1, <2>1, ConnectorAssumption DEF Archive
    <2>3. SyncOK(h)'
      BY <1>1, <2>1, <2>2 DEF SyncOK, SyncSteps, SessionOf
    <2>4. QED
      BY <1>1, <2>1, <2>3, GoesOn
  <1>4. QED
    BY <1>2, <1>3

\* The session that a synchronization ends with is the history under its head.
LEMMA ReloadIsHead ==
  ASSUME NEW h, SyncOK(h), pc[h] = "reload", ReloadAccepted(h)
  PROVE  /\ head[h] # NoHead /\ head[h] = archive.records
         /\ Synchronized(h).sources = archive.records
         /\ IsPoint(Synchronized(h))
         /\ work[h].sources \subseteq archive.records
  <1>1. head[h] # NoHead /\ work[h].sources \subseteq archive.records
    BY DEF SyncOK
  <1>2. head[h] = archive.records
    BY <1>1, HeadIsHistory DEF ReloadAccepted
  <1>3. QED
    BY <1>1, <1>2 DEF Synchronized, IsPoint

LEMMA StageEventsOK ==
  ASSUME TypeInv, NEW h \in ArchiveHost, HostOK(h), StageEvents(h)
  PROVE  HostOK(h)'
  <1>1. h \in Host /\ SyncOK(h) /\ pc[h] = "reload" /\ ReloadAccepted(h)
    BY SyncContext DEF StageEvents
  <1>2. CASE Reject(h, "refused")
    BY <1>1, <1>2, RejectOK
  <1>3. CASE ~Reject(h, "refused")
    <2>1. /\ pc'[h] = "load" /\ required'[h] = head[h]
          /\ archive' = archive /\ live' = live /\ bound' = bound /\ request' = request
          /\ work'[h] = Ingest(Synchronized(h), request[h].events)
      BY <1>1, <1>3 DEF StageEvents, Goto, archiveVars, sessionVars, TypeInv, TypeOK
    <2>2. archive.records \subseteq work'[h].sources
      BY <1>1, <2>1, IngestKeeps, SynchronizedTyped, ReloadIsHead
    <2>3. SyncOK(h)'
      BY <1>1, <2>1, <2>2, ReloadIsHead DEF SyncOK, SyncSteps, SessionOf
    <2>4. QED
      BY <1>1, <2>1, <2>2, <2>3, GoesOn, ReloadIsHead
  <1>4. QED
    BY <1>2, <1>3

\* The session that owns the archive of a host is the only live one there.
LEMMA OwnerIsAlone ==
  ASSUME TypeInv, NEW h \in ArchiveHost, SharedOK(h), SyncOK(h), pc[h] \in SyncSteps,
         NEW s \in Session, s # SessionOf(h)
  PROVE  live[h][s] = NoSession
  BY ConnectorAssumption DEF SharedOK, SyncOK

LEMMA RegisterIngestedOK ==
  ASSUME TypeInv, NEW h \in ArchiveHost, HostOK(h), RegisterIngested(h)
  PROVE  HostOK(h)'
  <1>1. /\ h \in Host /\ SyncOK(h) /\ SharedOK(h) /\ pc[h] = "reload"
        /\ ReloadAccepted(h) /\ request[h] \in Request /\ SessionOf(h) \in Session
        /\ request[h].checkpoint # NoCheckpoint =>
             request[h].checkpoint.state.sources \subseteq work[h].sources
    BY SyncContext DEF RegisterIngested
  <1>2. /\ Registered(h, Synchronized(h)) /\ archive' = archive
        /\ bound'[h] = SessionOf(h)
    BY <1>1 DEF RegisterIngested, Bind, archiveVars, TypeInv, TypeOK
  <1> DEFINE state == Synchronized(h)
  <1>3. /\ state.sources = archive.records /\ IsPoint(state)
        /\ work[h].sources \subseteq state.sources
    BY <1>1, ReloadIsHead
  <1> HIDE DEF state
  <1>4. /\ live'[h][SessionOf(h)] = state
        /\ \A s \in Session : s # SessionOf(h) => live'[h][s] = live[h][s]
        /\ \/ pc'[h] = "idle" /\ work'[h] = Fresh /\ round'[h] = 1
           \/ /\ pc'[h] = "compile" /\ work'[h] = state
              /\ round' = round /\ request' = request
    BY <1>1, <1>2, RegisteredEffect DEF state
  <1>5. \A s \in Session : s # SessionOf(h) => live'[h][s] = NoSession
    BY <1>1, <1>4, OwnerIsAlone DEF SyncSteps
  <1>6. KeepsCheckpoint(h)'
    BY <1>1, <1>3, <1>4 DEF KeepsCheckpoint
  <1>7. SharedOK(h)'
    BY <1>1, <1>2, <1>3, <1>4, <1>5 DEF SharedOK, IsPoint, SessionOf
  <1>8. SyncOK(h)'
    BY <1>4 DEF SyncOK, SyncSteps
  <1>9. QED
    BY <1>6, <1>7, <1>8 DEF HostOK

LEMMA BindForCompileOK ==
  ASSUME TypeInv, NEW h \in ArchiveHost, HostOK(h), BindForCompile(h)
  PROVE  HostOK(h)'
  <1>1. /\ h \in Host /\ SyncOK(h) /\ SharedOK(h) /\ pc[h] = "reload"
        /\ ReloadAccepted(h) /\ SessionOf(h) \in Session
        /\ request[h].checkpoint # NoCheckpoint =>
             request[h].checkpoint.state.sources \subseteq work[h].sources
    BY SyncContext DEF BindForCompile
  <1>2. /\ pc'[h] = "compile" /\ archive' = archive /\ live' = live
        /\ request' = request /\ bound'[h] = SessionOf(h) /\ work'[h] = Synchronized(h)
    BY <1>1 DEF BindForCompile, Bind, Goto, archiveVars, TypeInv, TypeOK
  <1>3. /\ work'[h].sources = archive.records /\ IsPoint(work'[h])
        /\ work[h].sources \subseteq work'[h].sources
    BY <1>1, <1>2, ReloadIsHead
  <1>4. \A s \in Session : s # SessionOf(h) => live'[h][s] = NoSession
    BY <1>1, <1>2, OwnerIsAlone DEF SyncSteps
  <1>5. KeepsCheckpoint(h)'
    BY <1>1, <1>2, <1>3 DEF KeepsCheckpoint
  <1>6. SharedOK(h)'
    BY <1>1, <1>2, <1>3, <1>4 DEF SharedOK, IsPoint, SessionOf
  <1>7. SyncOK(h)'
    BY <1>2 DEF SyncOK, SyncSteps
  <1>8. QED
    BY <1>5, <1>6, <1>7 DEF HostOK

\* Any step of a synchronization.
LEMMA SynchronizeOK ==
  ASSUME TypeInv, NEW h \in Host, HostOK(h), Synchronize(h)
  PROVE  HostOK(h)'
  <1>1. pc[h] \in SyncSteps \cup {"begin"}
    BY DEF Synchronize, SyncBegin, SyncLoad, SyncAppendNothing, SyncAppendRefused,
       SyncAppend, SyncSettle, SyncVerify, ReloadRefused, StageEvents, RegisterIngested,
       BindForCompile, SyncSteps
  <1>2. CASE h \in ArchiveHost
    <2>1. CASE SyncAppendRefused(h) \/ ReloadRefused(h)
      BY <2>1, RejectOK DEF SyncAppendRefused, ReloadRefused
    <2>2. QED
      BY <1>2, <2>1, SyncBeginOK, SyncLoadOK, SyncAppendNothingOK, SyncAppendOK,
         SyncSettleOK, SyncVerifyOK, StageEventsOK, RegisterIngestedOK, BindForCompileOK
         DEF Synchronize
  <1>3. CASE h \notin ArchiveHost
    <2>1. pc[h] = "begin"
      BY <1>1, <1>3 DEF HostOK, LocalOK, SyncSteps, ArchiveSteps
    <2>2. FALSE
      BY <1>3, <2>1 DEF Synchronize, SyncBegin, SyncLoad, SyncAppendNothing,
         SyncAppendRefused, SyncAppend, SyncSettle, SyncVerify, ReloadRefused, StageEvents,
         RegisterIngested, BindForCompile, Archived
    <2>3. QED
      BY <2>2
  <1>4. QED
    BY <1>2, <1>3

\* The compiled session is registered, or the compilation fails.
LEMMA CompileOK ==
  ASSUME TypeInv, NEW h \in Host, HostOK(h), Compile(h)
  PROVE  HostOK(h)'
  <1>1. CASE CompileRaises(h)
    BY <1>1, RejectOK DEF CompileRaises
  <1>2. CASE CompileReturns(h)
    <2>1. pc[h] = "compile" /\ request[h] \in Request /\ SessionOf(h) \in Session
      BY <1>2 DEF CompileReturns, TypeInv, SessionOf, Request
    <2>2. /\ live'[h][SessionOf(h)] = work[h]
          /\ \A s \in Session : s # SessionOf(h) => live'[h][s] = live[h][s]
          /\ archive' = archive /\ bound' = bound
      BY <1>2, <2>1 DEF CompileReturns, Register, archiveVars, TypeInv, TypeOK
    <2>3. pc'[h] = "idle" /\ work'[h] = Fresh /\ round'[h] = 1
      BY <1>2, AnswerResets DEF CompileReturns, Succeed
    <2>4. KeepsCheckpoint(h)'
      BY <2>3 DEF KeepsCheckpoint
    <2>5. h \notin ArchiveHost => LocalOK(h)'
      BY <2>1, <2>2, <2>3 DEF HostOK, LocalOK, Fresh, ArchiveSteps
    <2>6. h \in ArchiveHost => SharedOK(h)' /\ SyncOK(h)'
      BY <2>1, <2>2, <2>3 DEF HostOK, SharedOK, SyncOK, SyncSteps, IsPoint
    <2>7. QED
      BY <2>4, <2>5, <2>6 DEF HostOK
  <1>3. QED
    BY <1>1, <1>2 DEF Compile

LEMMA FaultOK ==
  ASSUME TypeInv, NEW h \in Host, HostOK(h), ArchiveFault(h)
  PROVE  HostOK(h)'
  <1>1. pc[h] \in ArchiveSteps
    BY DEF ArchiveFault
  <1>2. CASE Reject(h, "failed")
    BY <1>2, RejectOK
  <1>3. CASE ~Reject(h, "failed")
    <2>1. /\ pc[h] \in {"attest", "compare"} /\ pc'[h] = "select"
          /\ archive' = archive /\ live' = live /\ bound' = bound /\ request' = request
          /\ work' = work /\ round' = round
      BY <1>3 DEF ArchiveFault, Goto, archiveVars, sessionVars, syncVars, TypeInv, TypeOK
    <2>2. h \in ArchiveHost
      BY <1>1 DEF HostOK, LocalOK
    <2>3. SyncOK(h)'
      BY <2>1, <2>2 DEF HostOK, SyncOK, SyncSteps
    <2>4. QED
      BY <2>1, <2>2, <2>3, GoesOn
  <1>4. QED
    BY <1>2, <1>3

\* A host that has just been started.
Restarted(h) ==
    /\ pc'[h] = "idle" /\ work'[h] = Fresh /\ round'[h] = 1
    /\ live'[h] = NoSessions /\ bound'[h] = NoSession

LEMMA RestartedOK ==
  ASSUME NEW h \in Host, Restarted(h)
  PROVE  HostOK(h)'
  <1>1. KeepsCheckpoint(h)'
    BY DEF Restarted, KeepsCheckpoint
  <1>2. LocalOK(h)' /\ SharedOK(h)' /\ SyncOK(h)'
    BY DEF Restarted, LocalOK, SharedOK, SyncOK, NoSessions, Fresh, ArchiveSteps, SyncSteps
  <1>3. QED
    BY <1>1, <1>2 DEF HostOK

LEMMA DeathOK ==
  ASSUME TypeInv, NEW h \in Host, HostDeath(h)
  PROVE  HostOK(h)'
  <1>1. live'[h] = NoSessions /\ bound'[h] = NoSession
    BY DEF HostDeath, TypeInv, TypeOK
  <1>2. QED
    BY <1>1, AnswerResets, RestartedOK DEF HostDeath, Restarted

LEMMA PowerLossRestarts ==
  ASSUME PowerLoss, NEW h \in Host
  PROVE  Restarted(h)
  BY DEF PowerLoss, Restarted

\* A step of a host leaves it as it should be.
LEMMA HostStepOK ==
  ASSUME TypeInv, NEW h \in Host, HostOK(h), HostStep(h)
  PROVE  HostOK(h)'
  BY CallOK, ChooseOK, LocalStepOK, SynchronizeOK, CompileOK, FaultOK, DeathOK
     DEF HostStep

LEMMA SessionStep ==
  ASSUME TypeInv, SessionInv, [Next]_vars
  PROVE  SessionInv'
  <1>1. CASE PowerLoss
    BY <1>1, PowerLossRestarts, RestartedOK DEF SessionInv
  <1>2. ASSUME NEW h \in Host, HostStep(h), ~PowerLoss
        PROVE  SessionInv'
    <2>1. archive.records \subseteq archive'.records
      <3>1. Next
        BY <1>2, NextIsHostStep
      <3>2. QED
        BY <1>2, <3>1, ArchiveGrows
    <2>2. ASSUME NEW g \in Host, g # h
          PROVE  HostOK(g)'
      BY <1>2, <2>1, <2>2, OthersUntouched, OthersStayOK DEF SessionInv
    <2>3. HostOK(h)'
      BY <1>2, HostStepOK DEF SessionInv
    <2>4. QED
      BY <2>2, <2>3 DEF SessionInv
  <1>3. CASE UNCHANGED vars
    <2>1. \A g \in Host : SameHost(g) /\ archive' = archive
      BY <1>3 DEF vars, archiveVars, sessionVars, syncVars, SameHost
    <2>2. QED
      BY <2>1, OthersStayOK DEF SessionInv
  <1>4. QED
    BY <1>1, <1>2, <1>3, NextIsHostStep

-----------------------------------------------------------------------------
(* One history for all of them.                                            *)

\* A step of an archive host registers nothing but the whole history.
LEMMA PointsStep ==
  ASSUME TypeInv, NEW h \in ArchiveHost, HostOK(h), HostStep(h), NEW a \in Points(h)'
  PROVE  a \in Points(h) \/ a.sources = archive'.records
  <1>0. h \in Host
    BY ConnectorAssumption
  <1>1. CASE live' = live /\ pc'[h] # "compile"
    BY <1>1 DEF Points, LiveOf
  <1>2. CASE HostDeath(h)
    <2>1. live'[h] = NoSessions /\ pc'[h] = "idle"
      BY <1>0, <1>2, AnswerResets DEF HostDeath, TypeInv, TypeOK
    <2>2. QED
      BY <2>1 DEF Points, LiveOf, NoSessions
  <1>3. CASE RegisterIngested(h)
    <2>1. /\ SyncOK(h) /\ pc[h] = "reload" /\ ReloadAccepted(h) /\ request[h] \in Request
          /\ Registered(h, Synchronized(h)) /\ archive' = archive
      BY <1>3, SyncContext DEF RegisterIngested, archiveVars
    <2>2. Synchronized(h).sources = archive.records
      BY <2>1, ReloadIsHead
    <2>3. /\ live'[h][SessionOf(h)] = Synchronized(h)
          /\ \A s \in Session : s # SessionOf(h) => live'[h][s] = live[h][s]
          /\ pc'[h] = "compile" => work'[h] = Synchronized(h)
      BY <1>0, <2>1, RegisteredEffect
    <2>4. QED
      BY <2>1, <2>2, <2>3 DEF Points, LiveOf
  <1>4. CASE BindForCompile(h)
    <2>1. /\ SyncOK(h) /\ pc[h] = "reload" /\ ReloadAccepted(h)
          /\ live' = live /\ archive' = archive /\ work'[h] = Synchronized(h)
      BY <1>0, <1>4, SyncContext DEF BindForCompile, archiveVars, TypeInv, TypeOK
    <2>2. QED
      BY <2>1, ReloadIsHead DEF Points, LiveOf
  <1>5. CASE CompileReturns(h)
    <2>1. pc[h] = "compile" /\ SessionOf(h) \in Session
      BY <1>0, <1>5 DEF CompileReturns, TypeInv, SessionOf, Request
    <2>2. /\ live'[h][SessionOf(h)] = work[h] /\ pc'[h] = "idle"
          /\ \A s \in Session : s # SessionOf(h) => live'[h][s] = live[h][s]
      BY <1>0, <1>5, <2>1, AnswerResets DEF CompileReturns, Succeed, Register, TypeInv,
         TypeOK
    <2>3. QED
      BY <2>1, <2>2 DEF Points, LiveOf
  <1>6. ASSUME NEW status, Reject(h, status)
        PROVE  live' = live /\ pc'[h] # "compile"
    BY <1>0, <1>6, AnswerResets DEF Reject, sessionVars
  <1>7. CASE Call(h)
    BY <1>0, <1>1, <1>7 DEF Call, Ask, Goto, sessionVars, TypeInv, TypeOK
  <1>8. CASE Choose(h)
    BY <1>0, <1>1, <1>8, AnswerResets
       DEF Choose, Attest, AttestSources, Select, Goto, sessionVars, TypeInv, TypeOK
  <1>9. CASE Local(h)
    BY <1>9 DEF Local, IngestLocally, CompileLocally, RefuseLocally, Archived
  <1>10. CASE SyncBegin(h) \/ SyncLoad(h) \/ SyncVerify(h) \/ StageEvents(h)
    BY <1>0, <1>1, <1>6, <1>10
       DEF SyncBegin, SyncLoad, SyncVerify, StageEvents, Goto, sessionVars, TypeInv, TypeOK
  <1>11. CASE SyncAppendNothing(h) \/ SyncAppend(h) \/ SyncSettle(h)
    BY <1>0, <1>1, <1>11
       DEF SyncAppendNothing, SyncAppend, SyncSettle, Goto, sessionVars, TypeInv, TypeOK
  <1>12. CASE SyncAppendRefused(h) \/ ReloadRefused(h) \/ CompileRaises(h)
    BY <1>1, <1>6, <1>12 DEF SyncAppendRefused, ReloadRefused, CompileRaises
  <1>13. CASE ArchiveFault(h)
    BY <1>0, <1>1, <1>6, <1>13 DEF ArchiveFault, Goto, sessionVars, TypeInv, TypeOK
  <1>14. QED
    BY <1>2, <1>3, <1>4, <1>5, <1>7, <1>8, <1>9, <1>10, <1>11, <1>12, <1>13
       DEF HostStep, Synchronize, Compile

\* What is registered is part of the history.
LEMMA PointsAreHistory ==
  ASSUME NEW h \in ArchiveHost, SharedOK(h), NEW a \in Points(h)
  PROVE  a.sources \subseteq archive.records
  BY DEF SharedOK, IsPoint, Points, LiveOf

LEMMA ForkStep ==
  ASSUME TypeInv, SessionInv, SessionInv', ForkInv, [Next]_vars
  PROVE  ForkInv'
  <1>1. CASE PowerLoss
    BY <1>1, PowerLossRestarts, ConnectorAssumption
       DEF ForkInv, Points, LiveOf, Restarted, NoSessions
  <1>2. CASE UNCHANGED vars
    BY <1>2 DEF vars, sessionVars, ForkInv, Points, LiveOf, Comparable
  <1>3. ASSUME NEW k \in Host, HostStep(k), ~PowerLoss
        PROVE  ForkInv'
    <2>1. archive.records \subseteq archive'.records
      BY <1>3, ArchiveGrows
    <2>2. ASSUME NEW h \in ArchiveHost, NEW a \in Points(h)'
          PROVE  \/ a \in Points(h)
                 \/ a.sources = archive'.records
      <3>1. h \in Host /\ HostOK(h)
        BY ConnectorAssumption DEF SessionInv
      <3>2. CASE h = k
        BY <1>3, <2>2, <3>1, <3>2, PointsStep
      <3>3. CASE h # k
        <4>1. SameHost(h)
          BY <1>3, <3>1, <3>3, OthersUntouched
        <4>2. QED
          BY <2>2, <4>1 DEF SameHost, Points, LiveOf
      <3>4. QED
        BY <3>2, <3>3
    <2>3. \A h \in ArchiveHost : \A a \in Points(h) : a.sources \subseteq archive'.records
      BY <2>1, PointsAreHistory, ConnectorAssumption DEF SessionInv, HostOK
    <2>4. QED
      BY <2>2, <2>3 DEF ForkInv, Comparable
  <1>4. QED
    BY <1>1, <1>2, <1>3, NextIsHostStep

LEMMA InitSafe == Init => SafeInv
  <1> SUFFICES ASSUME Init PROVE SafeInv
    OBVIOUS
  <1>1. SessionInv
    BY DEF Init, SessionInv, HostOK, KeepsCheckpoint, LocalOK, SharedOK, SyncOK, SyncSteps,
       ArchiveSteps, NoSessions, Fresh
  <1>2. ForkInv
    BY ConnectorAssumption DEF Init, ForkInv, Points, LiveOf, NoSessions
  <1>3. QED
    BY <1>1, <1>2, InitTyped, InitHistory DEF SafeInv

\* The inductive invariant.
THEOREM AlwaysSafe == Spec => []SafeInv
  <1>1. SafeInv /\ [Next]_vars => SafeInv'
    BY StepTyped, HistoryStep, SessionStep, ForkStep DEF SafeInv
  <1>2. QED
    BY <1>1, InitSafe, PTL DEF Spec

\* Whatever other hosts do between verify() and load(), a session that says its
\* archive head is verified holds exactly the history under that head.
THEOREM VerifiedSessions == Spec => []VerifiedSourcesAreTheHead
  <1>1. SafeInv => VerifiedSourcesAreTheHead
    BY DEF SafeInv, SessionInv, HostOK, LocalOK, SharedOK, IsPoint, LiveOf,
       VerifiedSourcesAreTheHead
  <1>2. QED
    BY <1>1, AlwaysSafe, PTL

\* Nothing is registered on an archive host that was not committed.
THEOREM ArchivedSessions == Spec => []LiveSessionsArchived
  <1>1. SafeInv => LiveSessionsArchived
    BY ConnectorAssumption DEF SafeInv, SessionInv, HostOK, SharedOK, IsPoint, LiveOf,
       LiveSessionsArchived
  <1>2. QED
    BY <1>1, AlwaysSafe, PTL

\* The live sessions of all archive hosts are points of one history.
THEOREM OneHistory == Spec => []NoForkedSessions
  <1>1. SafeInv => NoForkedSessions
    BY DEF SafeInv, ForkInv, Points, Comparable, NoForkedSessions
  <1>2. QED
    BY <1>1, AlwaysSafe, PTL

\* At most one session of an archive host is live: the one that owns the archive.
THEOREM OwnedArchive == Spec => []LiveSessionOwnsArchive
  <1>1. SafeInv => LiveSessionOwnsArchive
    BY ConnectorAssumption DEF SafeInv, SessionInv, HostOK, SharedOK, LiveSessionOwnsArchive
  <1>2. QED
    BY <1>1, AlwaysSafe, PTL

-----------------------------------------------------------------------------
(* What a step may never do.                                               *)

\* A session that replaces a live one keeps all of its sources.
LEMMA GrowStep ==
  ASSUME TypeInv, NEW h \in Host, HostOK(h), HostStep(h), ~HostDeath(h),
         NEW s \in Session, live[h][s] # NoSession
  PROVE  live'[h][s] # NoSession /\ live[h][s].sources \subseteq live'[h][s].sources
  <1>1. CASE IngestLocally(h)
    <2> DEFINE grown == Ingest(work[h], request[h].events)
               state == WithClaimedHead(grown, request[h].expected)
    <2>1. /\ pc[h] = "begin" /\ h \notin ArchiveHost /\ request[h] \in Request
          /\ work[h] \in SessionState /\ grown \in SessionState
          /\ request[h].expected \in Heads
      BY <1>1, IngestTyped DEF IngestLocally, Archived, TypeInv, TypeOK, Request
    <2>2. state \in SessionState /\ work[h].sources \subseteq state.sources
      <3>1. state \in SessionState /\ state.sources = grown.sources
        BY <2>1, ClaimTyped, ClaimKeeps
      <3>2. QED
        BY <2>1, <3>1, IngestKeeps
    <2>3. Registered(h, state)
      BY <1>1 DEF IngestLocally
    <2> HIDE DEF state
    <2>4. CASE s = SessionOf(h)
      <3>1. live'[h][s] = state
        BY <2>1, <2>3, <2>4, RegisteredEffect
      <3>2. live[h][s].sources \subseteq work[h].sources
        BY <2>1, <2>4 DEF HostOK, LocalOK
      <3>3. QED
        BY <2>2, <3>1, <3>2, ConnectorAssumption
    <2>5. CASE s # SessionOf(h)
      BY <2>1, <2>3, <2>5, RegisteredEffect
    <2>6. QED
      BY <2>4, <2>5
  <1>2. CASE RegisterIngested(h)
    <2>1. h \in ArchiveHost
      BY <1>2 DEF HostOK, LocalOK, RegisterIngested, ArchiveSteps
    <2>2. /\ SharedOK(h) /\ SyncOK(h) /\ pc[h] = "reload" /\ ReloadAccepted(h)
          /\ request[h] \in Request /\ Registered(h, Synchronized(h))
      BY <1>2, <2>1, SyncContext DEF RegisterIngested
    <2>3. s = SessionOf(h) /\ live[h][s].sources \subseteq archive.records
      BY <2>1, <2>2, OwnerIsAlone DEF SyncSteps, SharedOK, IsPoint
    <2>4. live'[h][s] = Synchronized(h)
      BY <2>2, <2>3, RegisteredEffect
    <2>5. QED
      BY <2>2, <2>3, <2>4, ReloadIsHead, SynchronizedTyped, ConnectorAssumption
  <1>3. CASE CompileReturns(h)
    <2>1. /\ pc[h] = "compile" /\ SessionOf(h) \in Session /\ work[h] \in SessionState
      BY <1>3 DEF CompileReturns, TypeInv, TypeOK, SessionOf, Request
    <2>2. /\ live'[h][SessionOf(h)] = work[h]
          /\ s # SessionOf(h) => live'[h][s] = live[h][s]
      BY <1>3, <2>1 DEF CompileReturns, Register, TypeInv, TypeOK
    <2>3. s = SessionOf(h) => live[h][s].sources \subseteq work[h].sources
      BY <2>1 DEF HostOK, LocalOK, SharedOK
    <2>4. QED
      BY <2>1, <2>2, <2>3, ConnectorAssumption
  <1>4. CASE live' = live
    BY <1>4
  <1>5. CASE Choose(h) \/ Call(h) \/ ArchiveFault(h) \/ CompileRaises(h)
    BY <1>4, <1>5 DEF Choose, Attest, AttestSources, Select, Call, Ask, ArchiveFault,
       CompileRaises, Reject, sessionVars
  <1>6. CASE CompileLocally(h) \/ RefuseLocally(h)
    BY <1>4, <1>6 DEF CompileLocally, RefuseLocally, Reject, sessionVars
  <1>7. CASE Synchronize(h) /\ ~RegisterIngested(h)
    BY <1>4, <1>7 DEF Synchronize, SyncBegin, SyncLoad, SyncAppendNothing,
       SyncAppendRefused, SyncAppend, SyncSettle, SyncVerify, ReloadRefused, StageEvents,
       BindForCompile, Reject, sessionVars
  <1>8. QED
    BY <1>1, <1>2, <1>3, <1>5, <1>6, <1>7 DEF HostStep, Local, Compile

\* While its host lives, a live session is neither rolled back nor forked.
THEOREM SessionsGrow == Spec => LiveSessionsGrow
  <1> DEFINE Grows == \A h \in Host, s \in Session :
                         (live[h][s] # NoSession /\ crashes' = crashes) =>
                             /\ live'[h][s] # NoSession
                             /\ live[h][s].sources \subseteq live'[h][s].sources
  <1>1. SafeInv /\ [Next]_vars => [Grows]_vars
    <2> SUFFICES ASSUME SafeInv, [Next]_vars, NEW h \in Host, NEW s \in Session,
                        live[h][s] # NoSession, crashes' = crashes
                 PROVE  /\ live'[h][s] # NoSession
                        /\ live[h][s].sources \subseteq live'[h][s].sources
      OBVIOUS
    <2>1. TypeInv /\ \A g \in Host : HostOK(g)
      BY DEF SafeInv, SessionInv
    <2>2. ~PowerLoss /\ \A g \in Host : ~HostDeath(g)
      BY <2>1, ConnectorAssumption DEF PowerLoss, HostDeath, TypeInv, TypeOK
    <2>3. CASE live'[h] = live[h]
      BY <2>3
    <2>4. ASSUME NEW k \in Host, HostStep(k)
          PROVE  /\ live'[h][s] # NoSession
                 /\ live[h][s].sources \subseteq live'[h][s].sources
      BY <2>1, <2>2, <2>3, <2>4, GrowStep, OthersUntouched DEF SameHost
    <2>5. CASE UNCHANGED vars
      BY <2>3, <2>5 DEF vars, sessionVars
    <2>6. QED
      BY <2>2, <2>4, <2>5, NextIsHostStep
  <1>2. QED
    BY <1>1, AlwaysSafe, PTL DEF Spec, LiveSessionsGrow

\* The only step of a host that installs a history.
LEMMA CommitIsAppend ==
  ASSUME TypeInv, NEW h \in Host, HostStep(h), pc[h] = "append", pc'[h] = "settle"
  PROVE  SyncAppend(h)
  <1>1. ~\E status \in {"refused", "failed", "retryable"} : Reject(h, status)
    BY AnswerResets DEF Reject
  <1>2. ~HostDeath(h)
    BY AnswerResets DEF HostDeath
  <1>3. ~SyncAppendNothing(h)
    BY DEF SyncAppendNothing, Goto, TypeInv, TypeOK
  <1>4. QED
    BY <1>1, <1>2, <1>3 DEF HostStep, Call, Ask, Choose, Attest, AttestSources, Select,
       Local, IngestLocally, CompileLocally, RefuseLocally, Synchronize, SyncBegin,
       SyncLoad, SyncAppendRefused, SyncSettle, SyncVerify, ReloadRefused, StageEvents,
       RegisterIngested, BindForCompile, Compile, CompileReturns, CompileRaises,
       ArchiveFault

\* A history installed in the second round is the prefix and the events staged on
\* it: an archive that other hosts have extended meanwhile is refused.
THEOREM EventsCommit == Spec => EventsCommitOnTheirBase
  <1> DEFINE OnBase == \A h \in Host :
                          (pc[h] = "append" /\ pc'[h] = "settle" /\ round[h] = 2)
                             => archive'.records = work[h].sources
  <1>1. SafeInv /\ [Next]_vars => [OnBase]_vars
    <2> SUFFICES ASSUME SafeInv, [Next]_vars, NEW h \in Host,
                        pc[h] = "append", pc'[h] = "settle", round[h] = 2
                 PROVE  archive'.records = work[h].sources
      OBVIOUS
    <2>1. TypeInv /\ HostOK(h)
      BY DEF SafeInv, SessionInv
    <2>2. PICK k \in Host : HostStep(k)
      BY NextIsHostStep DEF PowerLoss, vars
    <2>3. k = h
      BY <2>1, <2>2, OthersUntouched DEF SameHost
    <2>4. SyncAppend(h)
      BY <2>1, <2>2, <2>3, CommitIsAppend
    <2>5. h \in ArchiveHost /\ SyncOK(h)
      BY <2>1, <2>4 DEF SyncAppend, HostOK, LocalOK, ArchiveSteps
    <2>6. /\ required[h] # NoHead /\ required[h] \subseteq work[h].sources
          /\ missing[h] = work[h].sources \ required[h]
      BY <2>5 DEF SyncOK
    <2>7. required[h] = archive.records
      BY <2>4, <2>6, HeadIsHistory DEF SyncAppend, HeadAccepted
    <2>8. archive'.records = archive.records \cup missing[h]
      BY <2>4 DEF SyncAppend, Merged
    <2>9. QED
      BY <2>6, <2>7, <2>8
  <1>2. QED
    BY <1>1, AlwaysSafe, PTL DEF Spec, EventsCommitOnTheirBase

\* The steps of a host that answer a request with success.
LEMMA SuccessIs ==
  ASSUME TypeInv, NEW h \in Host, HostStep(h), reply[h] = "none", reply'[h] = "ok"
  PROVE  IngestLocally(h) \/ RegisterIngested(h) \/ CompileReturns(h)
  <1>1. ~\E status \in {"none", "refused", "failed", "retryable"} : Answer(h, status)
    BY DEF Answer, TypeInv, TypeOK
  <1>2. ~(reply' = reply)
    OBVIOUS
  <1>3. ~Call(h)
    BY DEF Call, Ask, TypeInv, TypeOK
  <1>4. ~Choose(h)
    BY <1>1, <1>2 DEF Choose, Attest, AttestSources, Select
  <1>5. ~CompileLocally(h) /\ ~RefuseLocally(h)
    BY <1>1, <1>2 DEF CompileLocally, RefuseLocally, Reject
  <1>6. ~Synchronize(h) \/ RegisterIngested(h)
    BY <1>1, <1>2 DEF Synchronize, SyncBegin, SyncLoad, SyncAppendNothing,
       SyncAppendRefused, SyncAppend, SyncSettle, SyncVerify, ReloadRefused, StageEvents,
       BindForCompile, Reject
  <1>7. ~CompileRaises(h) /\ ~ArchiveFault(h) /\ ~HostDeath(h)
    BY <1>1, <1>2 DEF CompileRaises, ArchiveFault, HostDeath, Reject
  <1>8. QED
    BY <1>3, <1>4, <1>5, <1>6, <1>7 DEF HostStep, Local, Compile

\* The session that a successful request registers holds what was chosen for it.
LEMMA SuccessKeeps ==
  ASSUME TypeInv, NEW h \in Host, HostOK(h), HostStep(h),
         reply[h] = "none", reply'[h] = "ok", request[h].checkpoint # NoCheckpoint
  PROVE  request[h].checkpoint.state.sources \subseteq live'[h][SessionOf(h)].sources
  <1>1. CASE IngestLocally(h)
    <2> DEFINE grown == Ingest(work[h], request[h].events)
               state == WithClaimedHead(grown, request[h].expected)
    <2>1. /\ pc[h] = "begin" /\ request[h] \in Request
          /\ work[h] \in SessionState /\ grown \in SessionState
      BY <1>1, IngestTyped DEF IngestLocally, TypeInv, TypeOK
    <2>2. work[h].sources \subseteq grown.sources
      BY <2>1, IngestKeeps
    <2>3. state.sources = grown.sources
      BY <2>1, ClaimKeeps
    <2>4. live'[h][SessionOf(h)] = state
      <3>1. Registered(h, state)
        BY <1>1 DEF IngestLocally
      <3> HIDE DEF state
      <3>2. QED
        BY <2>1, <3>1, RegisteredEffect
    <2>5. request[h].checkpoint.state.sources \subseteq work[h].sources
      BY <2>1 DEF HostOK, KeepsCheckpoint
    <2> HIDE DEF state, grown
    <2>6. QED
      BY <2>2, <2>3, <2>4, <2>5
  <1>2. CASE RegisterIngested(h)
    <2>1. h \in ArchiveHost
      BY <1>2 DEF HostOK, LocalOK, RegisterIngested, ArchiveSteps
    <2>2. /\ SyncOK(h) /\ pc[h] = "reload" /\ ReloadAccepted(h)
          /\ request[h] \in Request /\ Registered(h, Synchronized(h))
          /\ request[h].checkpoint.state.sources \subseteq work[h].sources
      BY <1>2, <2>1, SyncContext DEF RegisterIngested
    <2>3. live'[h][SessionOf(h)] = Synchronized(h)
      BY <2>2, RegisteredEffect
    <2>4. QED
      BY <2>2, <2>3, ReloadIsHead
  <1>3. CASE CompileReturns(h)
    <2>1. pc[h] = "compile" /\ SessionOf(h) \in Session
      BY <1>3 DEF CompileReturns, TypeInv, SessionOf, Request
    <2>2. live'[h][SessionOf(h)] = work[h]
      BY <1>3, <2>1 DEF CompileReturns, Register, TypeInv, TypeOK
    <2>3. QED
      BY <2>1, <2>2 DEF HostOK, KeepsCheckpoint
  <1>4. QED
    BY <1>1, <1>2, <1>3, SuccessIs

\* A session resumed from a checkpoint keeps every source of the checkpoint, also
\* when a power failure took them from the archive in the meantime.
THEOREM ResumedSessions == Spec => ResumedSessionKeepsCheckpoint
  <1> DEFINE Keeps == \A h \in Host :
          (reply[h] = "none" /\ reply'[h] = "ok" /\ request[h].checkpoint # NoCheckpoint)
            => request[h].checkpoint.state.sources
                 \subseteq live'[h][SessionOf(h)].sources
  <1>1. SafeInv /\ [Next]_vars => [Keeps]_vars
    <2> SUFFICES ASSUME SafeInv, [Next]_vars, NEW h \in Host, reply[h] = "none",
                        reply'[h] = "ok", request[h].checkpoint # NoCheckpoint
                 PROVE  request[h].checkpoint.state.sources
                          \subseteq live'[h][SessionOf(h)].sources
      OBVIOUS
    <2>1. TypeInv /\ HostOK(h)
      BY DEF SafeInv, SessionInv
    <2>2. PICK k \in Host : HostStep(k)
      BY NextIsHostStep DEF PowerLoss, vars
    <2>3. k = h
      BY <2>1, <2>2, OthersUntouched DEF SameHost
    <2>4. QED
      BY <2>1, <2>2, <2>3, SuccessKeeps
  <1>2. QED
    BY <1>1, AlwaysSafe, PTL DEF Spec, ResumedSessionKeepsCheckpoint
=============================================================================

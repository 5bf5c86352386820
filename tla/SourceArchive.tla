---------------------------- MODULE SourceArchive ----------------------------
(***************************************************************************)
(* context_compiler.archive.SourceArchive: processes on one host that      *)
(* append to, load and verify one events.jsonl.  A writer takes the        *)
(* advisory lock on .append.lock, reloads the history, merges its batch,   *)
(* and installs the merged history with atomic_write_text: temporary file, *)
(* write, fsync, replace, directory fsync.  Readers take no lock.  A       *)
(* process may die at any step (the kernel drops its lock) and the machine *)
(* may lose power (what was not synced is lost or torn).                   *)
(*                                                                         *)
(* A history is the SET of its records: the file is sorted by sequence and *)
(* sequences are unique, so the set determines the file.  The chain head   *)
(* of a chained file is that set too, which makes the hash collision-free. *)
(***************************************************************************)
EXTENDS Naturals, Sequences, FiniteSets

CONSTANTS Process,          \* the processes that use the archive
          Responsive,       \* those of them that never hang
          Record,           \* the source records, with fields id and sequence
          NoProcess,        \* nobody holds the lock
          NoHead,           \* "no chain head": a legacy file, or no expectation
          Batches,          \* the batches callers append
          InitialHistories, \* the histories an existing archive may hold
          MaxRecords,       \* source_limits.max_records
          PathAttempts,     \* io._PATH_OPEN_ATTEMPTS
          MaxCalls,         \* bound of the model: calls started
          MaxCrashes        \* bound of the model: deaths, power losses, interrupts
                            \* and failing cleanups

\* An id or a sequence number names at most one record.
Consistent(S) ==
    \A r, s \in S : (r.id = s.id \/ r.sequence = s.sequence) => r = s

\* SourceLimits, of which the record count stands for every size limit.
WithinLimits(S) == Cardinality(S) <= MaxRecords

ASSUME ArchiveAssumption ==
    /\ NoProcess \notin Process
    /\ Responsive \subseteq Process
    /\ NoHead \notin SUBSET Record
    /\ Batches \subseteq SUBSET Record
    /\ InitialHistories \subseteq SUBSET Record
    /\ \A S \in InitialHistories : Consistent(S) /\ WithinLimits(S)
    /\ MaxRecords \in Nat
    /\ PathAttempts \in Nat \ {0}
    /\ MaxCalls \in Nat
    /\ MaxCrashes \in Nat

Heads == (SUBSET Record) \cup {NoHead}

Format == {"chained", "legacy", "torn"}

Absent == 0                \* events.jsonl does not exist

File == [format : Format, records : SUBSET Record, synced : BOOLEAN]
State == [format : {"chained", "legacy"}, records : SUBSET Record]
Call == [kind : {"none", "append", "read"}, batch : SUBSET Record, expected : Heads]

NoCall == [kind |-> "none", batch |-> {}, expected |-> NoHead]
EmptyFile == [format |-> "torn", records |-> {}, synced |-> FALSE]
Genesis == [format |-> "chained", records |-> {}]

VARIABLES disk,      \* inode number -> file, for every inode ever allocated
          entry,     \* the inode events.jsonl names, or Absent
          durable,   \* what it may name after a power failure
          temps,     \* the inodes linked under a .ctxc-*.tmp name
          lock,      \* the process that holds the flock on .append.lock
          pc,        \* where each process is in its call
          call,      \* each process's call and its arguments
          attempt,   \* its tries at opening events.jsonl, so far
          candidate, \* the inode it saw before opening
          fd,        \* the inode it has open: events.jsonl, or its temporary
          view,      \* the archive state it loaded
          reply,     \* how its last call ended
          acked,     \* the records some append has reported as accepted
          calls, crashes

fsVars == <<disk, entry, durable, temps>>
localVars == <<attempt, candidate, fd, view>>
boundVars == <<calls, crashes>>
vars == <<fsVars, lock, pc, call, localVars, reply, acked, boundVars>>

ReadingSteps == {"stat", "open", "fstat", "read"}
WritingSteps == {"create", "write", "fsync", "replace"}
Steps == ReadingSteps \cup WritingSteps
            \cup {"idle", "locking", "check", "dirsync", "close"}
Replies == {"none", "ok", "refused", "invalid", "failed"}

TypeOK ==
    /\ disk \in Seq(File)
    /\ entry \in 0..Len(disk)
    /\ durable \subseteq 0..Len(disk)
    /\ temps \subseteq 1..Len(disk)
    /\ lock \in Process \cup {NoProcess}
    /\ pc \in [Process -> Steps]
    /\ call \in [Process -> Call]
    /\ attempt \in [Process -> 0..(PathAttempts - 1)]
    /\ candidate \in [Process -> Nat]
    /\ fd \in [Process -> 0..Len(disk)]
    /\ view \in [Process -> State]
    /\ reply \in [Process -> Replies]
    /\ acked \subseteq Record
    /\ calls \in 0..MaxCalls
    /\ crashes \in 0..MaxCrashes
-----------------------------------------------------------------------------
(* What a file says to a reader.                                           *)

\* The records an inode holds; a missing file is an empty archive.
RecordsOf(i) == IF i = Absent THEN {} ELSE disk[i].records

\* The history that events.jsonl names now.
Visible == RecordsOf(entry)

\* _load_state accepts the file: it is complete, within the limits, and no
\* id or sequence occurs twice.
Loadable(f) ==
    /\ f.format # "torn"
    /\ Consistent(f.records)
    /\ WithinLimits(f.records)

StateOf(f) == [format |-> f.format, records |-> f.records]

ChainHead(state) == IF state.format = "legacy" THEN NoHead ELSE state.records

\* slip: a legacy file is refused, another head is not.
HeadAcceptedIfChained(state, expected) ==
    expected # NoHead => ChainHead(state) # NoHead
\* _require_expected_head.
HeadAccepted(state, expected) ==
    expected # NoHead => ChainHead(state) = expected

Accepted(p) == call[p].batch \ view[p].records

Merged(p) == view[p].records \cup call[p].batch

\* slip: only ids are compared.
CollidesOnId(p) == \E r, s \in Merged(p) : r.id = s.id /\ r # s
\* A record of the batch has the id or the sequence of a different record.
Collides(p) == ~Consistent(Merged(p))

IsAppend(p) == call[p].kind = "append"

\* An append between taking the lock and closing its descriptor.
Holding(p) == IsAppend(p) /\ pc[p] \notin {"idle", "locking"}
-----------------------------------------------------------------------------
(* Ends of a call.                                                         *)

ClearLocals(p) ==
    /\ attempt' = [attempt EXCEPT ![p] = 0]
    /\ candidate' = [candidate EXCEPT ![p] = Absent]
    /\ fd' = [fd EXCEPT ![p] = Absent]
    /\ view' = [view EXCEPT ![p] = Genesis]

\* The call of a process that holds nothing ends.
Return(p, status) ==
    /\ pc' = [pc EXCEPT ![p] = "idle"]
    /\ call' = [call EXCEPT ![p] = NoCall]
    /\ reply' = [reply EXCEPT ![p] = status]
    /\ ClearLocals(p)
    /\ UNCHANGED lock

\* The call of a process that holds the lock has its outcome and goes on to
\* the finally clause, which closes the descriptor.
Unwind(p, status) ==
    /\ pc' = [pc EXCEPT ![p] = "close"]
    /\ reply' = [reply EXCEPT ![p] = status]
    /\ UNCHANGED <<call, lock, attempt, candidate, view>>

\* An error or an answer found on the way: an append unwinds, a read returns.
Finish(p, status) ==
    IF IsAppend(p)
    THEN Unwind(p, status) /\ UNCHANGED fd
    ELSE Return(p, status)

Goto(p, step) == pc' = [pc EXCEPT ![p] = step]
-----------------------------------------------------------------------------
(* Calls.                                                                  *)

StartCall(p, c, step) ==
    /\ pc[p] = "idle"
    /\ calls < MaxCalls
    /\ calls' = calls + 1
    /\ call' = [call EXCEPT ![p] = c]
    /\ reply' = [reply EXCEPT ![p] = "none"]
    /\ Goto(p, step)
    /\ UNCHANGED <<fsVars, lock, localVars, acked, crashes>>

\* append(): the batch is checked before anything is touched.
AppendBegin(p, batch, expected) ==
    /\ WithinLimits(batch)
    /\ batch # {} \/ expected # NoHead
    /\ StartCall(p, [kind |-> "append", batch |-> batch, expected |-> expected],
                 "locking")

\* append(): too many records are refused, and an empty batch without an
\* expected head is answered with 0, both before the lock.
AppendAnsweredEarly(p, batch, expected) ==
    /\ pc[p] = "idle"
    /\ calls < MaxCalls
    /\ calls' = calls + 1
    /\ \/ /\ ~WithinLimits(batch)
          /\ Return(p, "failed")
       \/ /\ batch = {}
          /\ expected = NoHead
          /\ Return(p, "ok")
    /\ UNCHANGED <<fsVars, acked, crashes>>

\* load() and verify(): the same steps, without a lock.
ReadBegin(p, expected) ==
    StartCall(p, [kind |-> "read", batch |-> {}, expected |-> expected], "stat")
-----------------------------------------------------------------------------
(* The advisory lock.                                                      *)

AcquireLock(p) ==
    /\ pc[p] = "locking"
    /\ lock = NoProcess
    /\ lock' = p
    /\ Goto(p, "stat")
    /\ UNCHANGED <<fsVars, call, localVars, reply, acked, boundVars>>

\* slip: the deadline ends the wait but not the append.
LockTimeoutIgnored(p) ==
    /\ pc[p] = "locking"
    /\ lock # NoProcess
    /\ Goto(p, "stat")
    /\ UNCHANGED <<fsVars, lock, call, localVars, reply, acked, boundVars>>

\* slip: the wait has no deadline.
LockTimeoutNever(p) == pc[p] = "locking" /\ FALSE /\ UNCHANGED vars

\* The deadline passed and the last try found the lock taken.
LockTimeout(p) ==
    /\ pc[p] = "locking"
    /\ lock # NoProcess
    /\ Return(p, "failed")
    /\ UNCHANGED <<fsVars, acked, boundVars>>

\* The marker cannot be opened, or is not a single-link regular file.
LockUnavailable(p) ==
    /\ pc[p] = "locking"
    /\ Return(p, "failed")
    /\ UNCHANGED <<fsVars, acked, boundVars>>
-----------------------------------------------------------------------------
(* _load_state: the stable read of events.jsonl.                           *)

\* Another try at opening the path, or its exhaustion.
RetryOpen(p, status) ==
    IF attempt[p] + 1 < PathAttempts
    THEN /\ attempt' = [attempt EXCEPT ![p] = @ + 1]
         /\ Goto(p, "stat")
         /\ UNCHANGED <<lock, call, candidate, fd, view, reply>>
    ELSE Finish(p, status)

\* The file was absent at every try: an empty archive.
LoadedAbsent(p) ==
    /\ attempt[p] + 1 = PathAttempts
    /\ view' = [view EXCEPT ![p] = Genesis]
    /\ Goto(p, "check")
    /\ UNCHANGED <<lock, call, attempt, candidate, fd, reply>>

\* os.stat of the path.
StatEvents(p) ==
    /\ pc[p] = "stat"
    /\ \/ /\ entry = Absent
          /\ attempt[p] + 1 < PathAttempts
          /\ RetryOpen(p, "invalid")
       \/ /\ entry = Absent
          /\ LoadedAbsent(p)
       \/ /\ entry # Absent
          /\ candidate' = [candidate EXCEPT ![p] = entry]
          /\ Goto(p, "open")
          /\ UNCHANGED <<lock, call, attempt, fd, view, reply>>
    /\ UNCHANGED <<fsVars, acked, boundVars>>

\* os.open of the path; no step of the program removes events.jsonl.
OpenEvents(p) ==
    /\ pc[p] = "open"
    /\ fd' = [fd EXCEPT ![p] = entry]
    /\ Goto(p, "fstat")
    /\ UNCHANGED <<fsVars, lock, call, attempt, candidate, view, reply, acked,
                   boundVars>>

\* os.fstat of the descriptor.  A file replaced since it was opened has no
\* link left, which is refused at once; a file other than the one inspected
\* is tried again.
InspectOpened(p) ==
    /\ pc[p] = "fstat"
    /\ \/ /\ fd[p] # entry
          /\ Finish(p, "invalid")
       \/ /\ fd[p] = entry
          /\ candidate[p] # fd[p]
          /\ RetryOpen(p, "invalid")
       \/ /\ fd[p] = entry
          /\ candidate[p] = fd[p]
          /\ Goto(p, "read")
          /\ UNCHANGED <<lock, call, localVars, reply>>
    /\ UNCHANGED <<fsVars, acked, boundVars>>

\* slip: the descriptor is not inspected after reading.
ReadEventsUnchecked(p) ==
    /\ pc[p] = "read"
    /\ Loadable(disk[fd[p]])
    /\ view' = [view EXCEPT ![p] = StateOf(disk[fd[p]])]
    /\ Goto(p, "check")
    /\ UNCHANGED <<fsVars, lock, call, attempt, candidate, fd, reply, acked,
                   boundVars>>

\* The text is read, the descriptor inspected again, the records decoded.
\* An installed file is never written to, so it changed exactly when it was
\* replaced and lost its link.
ReadEvents(p) ==
    /\ pc[p] = "read"
    /\ \/ /\ fd[p] = entry
          /\ Loadable(disk[fd[p]])
          /\ view' = [view EXCEPT ![p] = StateOf(disk[fd[p]])]
          /\ Goto(p, "check")
          /\ UNCHANGED <<lock, call, attempt, candidate, fd, reply>>
       \/ /\ fd[p] # entry \/ ~Loadable(disk[fd[p]])
          /\ Finish(p, "invalid")
    /\ UNCHANGED <<fsVars, acked, boundVars>>

\* A system call of the read fails, or an ancestor directory was replaced.
ReadFault(p) ==
    /\ pc[p] \in ReadingSteps
    /\ Finish(p, "failed")
    /\ UNCHANGED <<fsVars, acked, boundVars>>
-----------------------------------------------------------------------------
(* What is decided on the loaded state.                                    *)

\* The expected chain head is not the head that was loaded.
HeadRefused(p) ==
    /\ pc[p] = "check"
    /\ ~HeadAccepted(view[p], call[p].expected)
    /\ Finish(p, "refused")
    /\ UNCHANGED <<fsVars, acked, boundVars>>

\* load() and verify() hand out what was loaded.
ReadReturns(p) ==
    /\ pc[p] = "check"
    /\ ~IsAppend(p)
    /\ HeadAccepted(view[p], call[p].expected)
    /\ Return(p, "ok")
    /\ UNCHANGED <<fsVars, acked, boundVars>>

\* append(): an id or a sequence is in use by a different record.
CollisionRefused(p) ==
    /\ pc[p] = "check"
    /\ IsAppend(p)
    /\ HeadAccepted(view[p], call[p].expected)
    /\ Collides(p)
    /\ Finish(p, "refused")
    /\ UNCHANGED <<fsVars, acked, boundVars>>

\* append(): every record is stored already, the answer is 0.
NothingNew(p) ==
    /\ pc[p] = "check"
    /\ IsAppend(p)
    /\ HeadAccepted(view[p], call[p].expected)
    /\ ~Collides(p)
    /\ Accepted(p) = {}
    /\ Finish(p, "ok")
    /\ UNCHANGED <<fsVars, acked, boundVars>>

\* append(): _serialize_records refuses the merged history.
LimitRefused(p) ==
    /\ pc[p] = "check"
    /\ IsAppend(p)
    /\ HeadAccepted(view[p], call[p].expected)
    /\ ~Collides(p)
    /\ Accepted(p) # {}
    /\ ~WithinLimits(Merged(p))
    /\ Finish(p, "failed")
    /\ UNCHANGED <<fsVars, acked, boundVars>>

\* append(): the merged history goes to atomic_write_text.
Stage(p) ==
    /\ pc[p] = "check"
    /\ IsAppend(p)
    /\ HeadAccepted(view[p], call[p].expected)
    /\ ~Collides(p)
    /\ Accepted(p) # {}
    /\ WithinLimits(Merged(p))
    /\ Goto(p, "create")
    /\ UNCHANGED <<fsVars, lock, call, localVars, reply, acked, boundVars>>
-----------------------------------------------------------------------------
(* atomic_write_text(overwrite=True).                                      *)

\* open(O_CREAT | O_EXCL) of a fresh .ctxc-*.tmp.
CreateTemporary(p) ==
    /\ pc[p] = "create"
    /\ disk' = Append(disk, EmptyFile)
    /\ temps' = temps \cup {Len(disk')}
    /\ fd' = [fd EXCEPT ![p] = Len(disk')]
    /\ Goto(p, "write")
    /\ UNCHANGED <<entry, durable, lock, call, attempt, candidate, view, reply,
                   acked, boundVars>>

\* stream.write and flush: complete in the page cache, not yet on the disk.
WriteTemporary(p) ==
    /\ pc[p] = "write"
    /\ disk' = [disk EXCEPT ![fd[p]] =
                  [format |-> "chained", records |-> Merged(p), synced |-> FALSE]]
    /\ Goto(p, "fsync")
    /\ UNCHANGED <<entry, durable, temps, lock, call, localVars, reply, acked,
                   boundVars>>

\* slip: the temporary file is flushed and not synced.
SyncTemporarySkipped(p) ==
    /\ pc[p] = "fsync"
    /\ Goto(p, "replace")
    /\ UNCHANGED <<fsVars, lock, call, localVars, reply, acked, boundVars>>

\* os.fsync of the temporary file.
SyncTemporary(p) ==
    /\ pc[p] = "fsync"
    /\ disk' = [disk EXCEPT ![fd[p]].synced = TRUE]
    /\ Goto(p, "replace")
    /\ UNCHANGED <<entry, durable, temps, lock, call, localVars, reply, acked,
                   boundVars>>

\* os.replace: the new history is visible, the directory not yet synced.
Replace(p) ==
    /\ pc[p] = "replace"
    /\ entry' = fd[p]
    /\ durable' = durable \cup {fd[p]}
    /\ temps' = temps \ {fd[p]}
    /\ Goto(p, "dirsync")
    /\ UNCHANGED <<disk, lock, call, localVars, reply, acked, boundVars>>

\* slip: the directory is not synced.
SyncDirectorySkipped(p) ==
    /\ pc[p] = "dirsync"
    /\ Unwind(p, "ok")
    /\ UNCHANGED <<fsVars, fd, acked, boundVars>>

\* os.fsync of the directory and the last verification of its ancestors.
SyncDirectory(p) ==
    /\ pc[p] = "dirsync"
    /\ durable' = {entry}
    /\ Unwind(p, "ok")
    /\ UNCHANGED <<disk, entry, temps, fd, acked, boundVars>>

\* slip: the temporary file is not unlinked.
WriteFaultUncleaned(p) ==
    /\ pc[p] \in WritingSteps
    /\ Unwind(p, "failed")
    /\ UNCHANGED <<fsVars, fd, acked, boundVars>>

\* A step before the replacement fails: the finally clause unlinks the
\* temporary file, the archive is untouched.  CleanupFault is the finally
\* clause that does not come to the unlinking.
WriteFault(p) ==
    /\ pc[p] \in WritingSteps
    /\ temps' = IF pc[p] = "create" THEN temps ELSE temps \ {fd[p]}
    /\ Unwind(p, "failed")
    /\ UNCHANGED <<disk, entry, durable, fd, acked, boundVars>>

\* An interrupt, or a failing fstat, between the creation of the temporary file
\* and temporary_present = True: the finally clause does not know of the file.
CreateFault(p) ==
    /\ pc[p] = "create"
    /\ crashes < MaxCrashes
    /\ crashes' = crashes + 1
    /\ disk' = Append(disk, EmptyFile)
    /\ temps' = temps \cup {Len(disk')}
    /\ Unwind(p, "failed")
    /\ UNCHANGED <<entry, durable, fd, acked, calls>>

\* The os.close, os.stat or os.unlink of the finally clause fails or is
\* interrupted in its turn: the temporary file stays, the archive is untouched.
CleanupFault(p) ==
    /\ pc[p] \in WritingSteps \ {"create"}
    /\ crashes < MaxCrashes
    /\ crashes' = crashes + 1
    /\ Unwind(p, "failed")
    /\ UNCHANGED <<fsVars, fd, acked, calls>>

\* A step after the replacement fails: append() raises although the new
\* history is installed.
InstalledFault(p) ==
    /\ pc[p] = "dirsync"
    /\ Unwind(p, "failed")
    /\ UNCHANGED <<fsVars, fd, acked, boundVars>>

\* slip: the descriptor is closed on success only.
CloseLockOnSuccess(p) ==
    /\ pc[p] = "close"
    /\ lock' = IF reply[p] = "ok" THEN NoProcess ELSE lock
    /\ acked' = IF reply[p] = "ok" THEN acked \cup Accepted(p) ELSE acked
    /\ Goto(p, "idle")
    /\ call' = [call EXCEPT ![p] = NoCall]
    /\ ClearLocals(p)
    /\ UNCHANGED <<fsVars, reply, boundVars>>

\* close_lock_file, after which append() returns or raises.
CloseLock(p) ==
    /\ pc[p] = "close"
    /\ lock' = NoProcess
    /\ acked' = IF reply[p] = "ok" THEN acked \cup Accepted(p) ELSE acked
    /\ Goto(p, "idle")
    /\ call' = [call EXCEPT ![p] = NoCall]
    /\ ClearLocals(p)
    /\ UNCHANGED <<fsVars, reply, boundVars>>
\* os.close reports an error, with the descriptor gone: append() raises it
\* although it was about to return.
CloseFault(p) ==
    /\ pc[p] = "close"
    /\ reply[p] = "ok"
    /\ lock' = NoProcess
    /\ reply' = [reply EXCEPT ![p] = "failed"]
    /\ Goto(p, "idle")
    /\ call' = [call EXCEPT ![p] = NoCall]
    /\ ClearLocals(p)
    /\ UNCHANGED <<fsVars, acked, boundVars>>
-----------------------------------------------------------------------------
(* Crashes.                                                                *)

\* A process is killed; the kernel closes its descriptors.
ProcessDeath(p) ==
    /\ pc[p] # "idle"
    /\ crashes < MaxCrashes
    /\ crashes' = crashes + 1
    /\ lock' = IF lock = p THEN NoProcess ELSE lock
    /\ Goto(p, "idle")
    /\ call' = [call EXCEPT ![p] = NoCall]
    /\ reply' = [reply EXCEPT ![p] = "none"]
    /\ ClearLocals(p)
    /\ UNCHANGED <<fsVars, acked, calls>>

\* The machine loses power: the directory entry falls back to any value it
\* had since the last directory fsync, and a file that was never synced is torn.
PowerLoss ==
    /\ crashes < MaxCrashes
    /\ crashes' = crashes + 1
    /\ \E i \in durable :
        /\ entry' = i
        /\ durable' = {i}
    /\ disk' = [i \in DOMAIN disk |->
                  IF disk[i].synced THEN disk[i]
                  ELSE [disk[i] EXCEPT !.format = "torn"]]
    /\ lock' = NoProcess
    /\ pc' = [p \in Process |-> "idle"]
    /\ call' = [p \in Process |-> NoCall]
    /\ attempt' = [p \in Process |-> 0]
    /\ candidate' = [p \in Process |-> Absent]
    /\ fd' = [p \in Process |-> Absent]
    /\ view' = [p \in Process |-> Genesis]
    /\ reply' = [p \in Process |-> "none"]
    /\ UNCHANGED <<temps, acked, calls>>
-----------------------------------------------------------------------------
Init ==
    /\ \/ disk = <<>> /\ entry = Absent
       \/ \E S \in InitialHistories, f \in {"chained", "legacy"} :
            /\ f = "legacy" => S # {}      \* an empty file is a chained archive
            /\ disk = <<[format |-> f, records |-> S, synced |-> TRUE]>>
            /\ entry = 1
    /\ durable = {entry}
    /\ temps = {}
    /\ lock = NoProcess
    /\ pc = [p \in Process |-> "idle"]
    /\ call = [p \in Process |-> NoCall]
    /\ attempt = [p \in Process |-> 0]
    /\ candidate = [p \in Process |-> Absent]
    /\ fd = [p \in Process |-> Absent]
    /\ view = [p \in Process |-> Genesis]
    /\ reply = [p \in Process |-> "none"]
    /\ acked = {}
    /\ calls = 0
    /\ crashes = 0

\* The heads a caller can hold: none, that of an empty archive, or the head of
\* a history it once saw.
KnownHeads == {NoHead, {}} \cup {disk[i].records : i \in {j \in DOMAIN disk :
                                disk[j].format = "chained" /\ j \notin temps}}

\* A caller starts a call.
Request(p) ==
    \E expected \in KnownHeads :
        \/ ReadBegin(p, expected)
        \/ \E batch \in Batches : \/ AppendBegin(p, batch, expected)
                                  \/ AppendAnsweredEarly(p, batch, expected)

\* The steps of _acquire_lock and _load_state.
LoadStep(p) ==
    \/ AcquireLock(p) \/ LockTimeout(p)
    \/ StatEvents(p) \/ OpenEvents(p) \/ InspectOpened(p) \/ ReadEvents(p)

\* What load(), verify() and append() do with the loaded state.
DecideStep(p) ==
    \/ HeadRefused(p) \/ ReadReturns(p) \/ CollisionRefused(p)
    \/ NothingNew(p) \/ LimitRefused(p) \/ Stage(p)

\* The steps of atomic_write_text, and the finally clause of append().
WriteStep(p) ==
    \/ CreateTemporary(p) \/ WriteTemporary(p) \/ SyncTemporary(p) \/ Replace(p)
    \/ SyncDirectory(p) \/ CloseLock(p)

\* A process goes on with the call it is in.
Proceed(p) == LoadStep(p) \/ DecideStep(p) \/ WriteStep(p)

\* A system call of the process fails.
Fault(p) ==
    \/ LockUnavailable(p) \/ ReadFault(p) \/ WriteFault(p)
    \/ CreateFault(p) \/ CleanupFault(p) \/ InstalledFault(p) \/ CloseFault(p)

Next ==
    \/ \E p \in Process : Request(p) \/ Proceed(p) \/ Fault(p) \/ ProcessDeath(p)
    \/ PowerLoss

Spec == Init /\ [][Next]_vars

\* The operating system schedules the processes of Responsive; the others may
\* hang at any step, with or without the lock.
FairSpec == Spec /\ \A p \in Responsive : WF_vars(Proceed(p))
-----------------------------------------------------------------------------
(* Properties.                                                             *)

\* Writers are serialized: at most one process is between taking the lock
\* and closing its descriptor, and it is the lock's owner.
OneWriter == \A p \in Process : Holding(p) => lock = p

\* The merge a writer is about to install was computed from the history that
\* is still visible: nothing was committed between its load and its replace.
StagedOnVisibleHistory ==
    \A p \in Process :
        pc[p] \in WritingSteps => view[p].records = Visible

\* Whatever events.jsonl names, now or after a power failure, is a complete
\* synced file that _load_state accepts.
DurableFilesLoadable ==
    \A i \in durable \cup {entry} :
        i # Absent => disk[i].synced /\ Loadable(disk[i])

\* A record that an append reported as accepted survives every crash.
AckedSurvives == \A i \in durable \cup {entry} : acked \subseteq RecordsOf(i)

\* A temporary file outlives its writer only if the writer was killed, was
\* interrupted before it took note of the file, or had its cleanup fail after
\* the step that made it clean up: each such event leaves one file behind.
StrandedTemporaries ==
    temps \ {fd[p] : p \in {q \in Process : pc[q] \in WritingSteps}}
TemporariesAccountedFor == Cardinality(StrandedTemporaries) <= crashes

\* While one process holds the lock its reload is stable: it is never told
\* that the file changed or lost its link under it.
LockedLoadAccepted ==
    \A p \in Process : Holding(p) => reply[p] # "invalid"

\* What the documentation says of readers: they are given the history before
\* or after a concurrent commit.  The code may instead refuse them both.
ReadersObserveAHistory == \A p \in Process : reply[p] # "invalid"

\* Except for a power failure, a step never removes a record from the history.
HistoryGrows ==
    [][PowerLoss \/ Visible \subseteq Visible']_vars

\* A commit with an expected head extends exactly the history of that head.
CommitsOnExpectedHead ==
    [][\A p \in Process :
          (pc[p] = "replace" /\ pc'[p] = "dirsync" /\ call[p].expected # NoHead)
            => Visible = call[p].expected]_vars

\* A load that succeeds gives the history visible when it finished reading.
LoadsVisibleHistory ==
    [][\A p \in Process :
          (pc[p] \in ReadingSteps /\ pc'[p] = "check") =>
              view'[p].records = Visible]_vars

\* A call of a scheduled process ends, whatever the others do with the lock.
EveryCallEnds ==
    \A p \in Responsive : pc[p] # "idle" ~> pc[p] = "idle"

\* A scheduled process that holds the lock gives it up, on every path.
EveryLockIsReleased ==
    \A p \in Responsive : lock = p ~> lock # p

History == INSTANCE AppendOnlyHistory WITH history <- Visible, confirmed <- acked

\* The archive behaves as one append-only history.
ImplementsHistory == History!Spec
=============================================================================

------------------------- MODULE SourceArchiveProofs -------------------------
(***************************************************************************)
(* SourceArchive for every set of processes, records, batches and bounds:  *)
(* type correctness, writer exclusion, and the invariant that makes the    *)
(* commit protocol correct.                                                *)
(***************************************************************************)
EXTENDS SourceArchive, FiniteSetTheorems, TLAPS

\* A descriptor that is about to be used names an inode.
OpenOK ==
    /\ \A p \in Process : pc[p] = "open" => entry # Absent
    /\ \A p \in Process :
          pc[p] \in {"fstat", "read", "write", "fsync", "replace"} => fd[p] # Absent

TypeInv == TypeOK /\ OpenOK

\* Only an append waits for the lock, writes, or closes it; and OneWriter.
LockInv ==
    /\ \A p \in Process :
          pc[p] \in WritingSteps \cup {"locking", "dirsync", "close"} => IsAppend(p)
    /\ OneWriter

\* The directory: every file it may name after a power failure is complete,
\* holds every acknowledged record, and nothing that is not visible now.
FilesOK ==
    /\ entry \in durable
    /\ temps \cap durable = {}
    /\ \A i \in durable :
          /\ i # Absent => disk[i].synced /\ Loadable(disk[i])
          /\ RecordsOf(i) \subseteq Visible
          /\ acked \subseteq RecordsOf(i)

\* A process that loads under the lock works on the visible file.
LoaderOK(p) ==
    /\ Holding(p) =>
        /\ pc[p] = "open" => candidate[p] = entry
        /\ pc[p] \in {"fstat", "read"} => candidate[p] = entry /\ fd[p] = entry
        /\ pc[p] \in {"check"} \cup WritingSteps => view[p].records = Visible
    /\ IsAppend(p) => reply[p] # "invalid"

\* What a writer has staged, installed, and is about to acknowledge.
StagerOK(p) ==
    /\ pc[p] \in WritingSteps =>
          /\ HeadAccepted(view[p], call[p].expected)
          /\ Consistent(Merged(p))
          /\ WithinLimits(Merged(p))
    /\ pc[p] \in {"write", "fsync", "replace"} => fd[p] \in temps
    /\ pc[p] \in {"fsync", "replace"} =>
          /\ disk[fd[p]].format = "chained"
          /\ disk[fd[p]].records = Merged(p)
    /\ pc[p] = "replace" => disk[fd[p]].synced
    /\ pc[p] = "dirsync" => Merged(p) = Visible
    /\ pc[p] = "close" /\ reply[p] = "ok" =>
          \A i \in durable : Accepted(p) \subseteq RecordsOf(i)

CommitInv == FilesOK /\ \A p \in Process : LoaderOK(p) /\ StagerOK(p)
-----------------------------------------------------------------------------
LEMMA Defaults == NoCall \in Call /\ Genesis \in State
  <1>1. NoHead \in Heads
    BY DEF Heads
  <1>2. {} \in SUBSET Record
    OBVIOUS
  <1>3. NoCall \in Call
    BY <1>1, <1>2 DEF NoCall, Call
  <1>4. Genesis \in State
    BY <1>2 DEF Genesis, State
  <1>5. QED
    BY <1>3, <1>4

LEMMA InitTyped == Init => TypeInv
  <1> SUFFICES ASSUME Init PROVE TypeInv
    OBVIOUS
  <1> USE ArchiveAssumption DEF Init, State, Call, NoCall, Genesis, Heads, Steps,
          ReadingSteps, WritingSteps, Replies, Absent
  <1>1. disk \in Seq(File) /\ entry \in 0..Len(disk)
    <2>1. CASE disk = <<>> /\ entry = Absent
      BY <2>1
    <2>2. CASE \E S \in InitialHistories, f \in {"chained", "legacy"} :
                 /\ disk = <<[format |-> f, records |-> S, synced |-> TRUE]>>
                 /\ entry = 1
      BY <2>2 DEF File, Format
    <2>3. QED
      BY <2>1, <2>2
  <1>2. durable \subseteq 0..Len(disk) /\ temps \subseteq 1..Len(disk)
    BY <1>1
  <1>3. NoCall \in Call /\ Genesis \in State
    BY Defaults
  <1>4. call \in [Process -> Call] /\ view \in [Process -> State]
    BY <1>3
  <1>5. /\ lock \in Process \cup {NoProcess}
        /\ pc \in [Process -> Steps]
        /\ reply \in [Process -> Replies]
        /\ acked \subseteq Record
    OBVIOUS
  <1>6. /\ attempt \in [Process -> 0..(PathAttempts - 1)]
        /\ candidate \in [Process -> Nat]
        /\ fd \in [Process -> 0..Len(disk)]
    <2>1. Len(disk) \in Nat
      BY <1>1
    <2>2. 0 \in 0..(PathAttempts - 1) /\ 0 \in 0..Len(disk)
      BY <2>1
    <2>3. QED
      BY <2>2
  <1>7. calls \in 0..MaxCalls /\ crashes \in 0..MaxCrashes
    OBVIOUS
  <1>8. TypeOK
    BY <1>1, <1>2, <1>4, <1>5, <1>6, <1>7 DEF TypeOK
  <1>9. OpenOK
    BY DEF OpenOK
  <1>10. QED
    BY <1>8, <1>9 DEF TypeInv

-----------------------------------------------------------------------------
(* Ends of a call keep the types, whatever the files are.                  *)

\* The types of everything but the file system.
LocalsTyped ==
    /\ lock \in Process \cup {NoProcess}
    /\ pc \in [Process -> Steps]
    /\ call \in [Process -> Call]
    /\ attempt \in [Process -> 0..(PathAttempts - 1)]
    /\ candidate \in [Process -> Nat]
    /\ fd \in [Process -> 0..Len(disk)]
    /\ view \in [Process -> State]
    /\ reply \in [Process -> Replies]

LEMMA ReturnTyped ==
  ASSUME TypeInv, NEW p \in Process, NEW status \in Replies, Return(p, status),
         UNCHANGED <<disk, entry>>
  PROVE  LocalsTyped' /\ OpenOK'
  <1> USE DEF TypeInv, TypeOK, Return, ClearLocals
  <1>1. Len(disk) \in Nat
    OBVIOUS
  <1>2. 0 \in 0..(PathAttempts - 1) /\ 0 \in 0..Len(disk) /\ 0 \in Nat /\ "idle" \in Steps
    BY <1>1, ArchiveAssumption DEF Steps
  <1>3. LocalsTyped'
    BY <1>2, Defaults DEF LocalsTyped, Absent
  <1>4. OpenOK'
    BY DEF OpenOK, Absent
  <1>5. QED
    BY <1>3, <1>4

LEMMA UnwindTyped ==
  ASSUME TypeInv, NEW p \in Process, NEW status \in Replies, Unwind(p, status),
         UNCHANGED <<disk, entry, fd>>
  PROVE  LocalsTyped' /\ OpenOK'
  <1> USE DEF TypeInv, TypeOK, Unwind
  <1>1. LocalsTyped'
    BY DEF LocalsTyped, Steps
  <1>2. OpenOK'
    BY DEF OpenOK
  <1>3. QED
    BY <1>1, <1>2

LEMMA FinishTyped ==
  ASSUME TypeInv, NEW p \in Process, NEW status \in Replies, Finish(p, status),
         UNCHANGED <<disk, entry>>
  PROVE  LocalsTyped' /\ OpenOK'
  BY ReturnTyped, UnwindTyped DEF Finish

\* A step that leaves the files alone keeps the invariant if it keeps the
\* types of the locals and of the bounds.
LEMMA FilesKept ==
  ASSUME TypeInv, UNCHANGED fsVars, LocalsTyped', OpenOK',
         acked' \subseteq Record, calls' \in 0..MaxCalls, crashes' \in 0..MaxCrashes
  PROVE  TypeInv'
  BY DEF TypeInv, TypeOK, LocalsTyped, fsVars

LEMMA RequestTyped ==
  ASSUME TypeInv, NEW p \in Process, Request(p)
  PROVE  TypeInv'
  <1> USE DEF TypeInv
  <1>1. KnownHeads \subseteq Heads
    <2>1. ASSUME NEW i \in DOMAIN disk
          PROVE  disk[i].records \in SUBSET Record
      <3>1. disk[i] \in File
        BY DEF TypeOK
      <3>2. QED
        BY <3>1 DEF File
    <2>2. QED
      BY <2>1 DEF KnownHeads, Heads
  <1>2. calls < MaxCalls => calls + 1 \in 0..MaxCalls
    BY ArchiveAssumption DEF TypeOK
  <1>3. ASSUME NEW c \in Call, NEW step \in {"locking", "stat"}, StartCall(p, c, step)
        PROVE  TypeInv'
    <2>1. LocalsTyped'
      BY <1>3 DEF TypeOK, LocalsTyped, StartCall, Goto, fsVars, localVars, Steps,
                  ReadingSteps, Replies
    <2>2. OpenOK'
      BY <1>3 DEF TypeOK, OpenOK, StartCall, Goto, fsVars, localVars
    <2>3. QED
      BY <1>2, <1>3, <2>1, <2>2, FilesKept DEF TypeOK, StartCall, fsVars
  <1>4. ASSUME NEW expected \in KnownHeads, ReadBegin(p, expected)
        PROVE  TypeInv'
    <2>1. [kind |-> "read", batch |-> {}, expected |-> expected] \in Call
      BY <1>1 DEF Call
    <2>2. QED
      BY <1>3, <1>4, <2>1 DEF ReadBegin
  <1>5. ASSUME NEW expected \in KnownHeads, NEW batch \in Batches,
               AppendBegin(p, batch, expected)
        PROVE  TypeInv'
    <2>1. [kind |-> "append", batch |-> batch, expected |-> expected] \in Call
      BY <1>1, ArchiveAssumption DEF Call
    <2>2. QED
      BY <1>3, <1>5, <2>1 DEF AppendBegin
  <1>6. ASSUME NEW expected \in KnownHeads, NEW batch \in Batches,
               AppendAnsweredEarly(p, batch, expected)
        PROVE  TypeInv'
    <2>1. PICK status \in {"ok", "failed"} : Return(p, status)
      BY <1>6 DEF AppendAnsweredEarly
    <2>2. LocalsTyped' /\ OpenOK'
      BY <1>6, <2>1, ReturnTyped DEF AppendAnsweredEarly, fsVars, Replies
    <2>3. QED
      BY <1>2, <1>6, <2>2, FilesKept DEF TypeOK, AppendAnsweredEarly, fsVars
  <1>7. QED
    BY <1>4, <1>5, <1>6 DEF Request

LEMMA LoadTyped ==
  ASSUME TypeInv, NEW p \in Process, LoadStep(p)
  PROVE  TypeInv'
  <1> USE DEF TypeInv
  <1>1. SUFFICES ASSUME UNCHANGED <<fsVars, acked, boundVars>>
                 PROVE  LocalsTyped' /\ OpenOK'
    BY FilesKept DEF TypeOK, LoadStep, AcquireLock, LockTimeout, StatEvents,
       OpenEvents, InspectOpened, ReadEvents, boundVars
  <1> USE <1>1 DEF fsVars
  <1>2. ASSUME NEW status \in Replies, RetryOpen(p, status)
        PROVE  LocalsTyped' /\ OpenOK'
    <2>1. CASE attempt[p] + 1 < PathAttempts
      <3>1. attempt[p] + 1 \in 0..(PathAttempts - 1)
        BY <2>1, ArchiveAssumption DEF TypeOK
      <3>2. LocalsTyped'
        BY <1>2, <2>1, <3>1 DEF TypeOK, LocalsTyped, RetryOpen, Goto, Steps, ReadingSteps
      <3>3. OpenOK'
        BY <1>2, <2>1 DEF TypeOK, OpenOK, RetryOpen, Goto
      <3>4. QED
        BY <3>2, <3>3
    <2>2. CASE ~(attempt[p] + 1 < PathAttempts)
      BY <1>2, <2>2, FinishTyped DEF RetryOpen
    <2>3. QED
      BY <2>1, <2>2
  <1>3. CASE AcquireLock(p)
    BY <1>3 DEF TypeOK, LocalsTyped, OpenOK, AcquireLock, Goto, localVars, Steps,
                ReadingSteps
  <1>4. CASE LockTimeout(p)
    BY <1>4, ReturnTyped DEF LockTimeout, Replies
  <1>5. CASE StatEvents(p)
    <2>1. CASE RetryOpen(p, "invalid")
      BY <2>1, <1>2 DEF Replies
    <2>2. CASE LoadedAbsent(p)
      BY <2>2, Defaults DEF TypeOK, LocalsTyped, OpenOK, LoadedAbsent, Goto, Steps
    <2>3. CASE /\ entry # Absent
               /\ candidate' = [candidate EXCEPT ![p] = entry]
               /\ Goto(p, "open")
               /\ UNCHANGED <<lock, call, attempt, fd, view, reply>>
      <3>1. entry \in Nat
        BY DEF TypeOK
      <3>2. LocalsTyped'
        BY <2>3, <3>1 DEF TypeOK, LocalsTyped, Goto, Steps, ReadingSteps
      <3>3. OpenOK'
        BY <2>3 DEF TypeOK, OpenOK, Goto
      <3>4. QED
        BY <3>2, <3>3
    <2>4. QED
      BY <1>5, <2>1, <2>2, <2>3 DEF StatEvents
  <1>6. CASE OpenEvents(p)
    <2>1. pc[p] = "open" /\ entry # Absent
      BY <1>6 DEF OpenEvents, OpenOK
    <2>2. LocalsTyped'
      BY <1>6 DEF TypeOK, LocalsTyped, OpenEvents, Goto, Steps, ReadingSteps
    <2>3. OpenOK'
      BY <1>6, <2>1 DEF TypeOK, OpenOK, OpenEvents, Goto
    <2>4. QED
      BY <2>2, <2>3
  <1>7. CASE InspectOpened(p)
    <2>1. CASE Finish(p, "invalid")
      BY <2>1, FinishTyped DEF Replies
    <2>2. CASE RetryOpen(p, "invalid")
      BY <2>2, <1>2 DEF Replies
    <2>3. CASE Goto(p, "read") /\ UNCHANGED <<lock, call, localVars, reply>>
      BY <1>7, <2>3 DEF TypeOK, LocalsTyped, OpenOK, InspectOpened, Goto, localVars,
                        Steps, ReadingSteps
    <2>4. QED
      BY <1>7, <2>1, <2>2, <2>3 DEF InspectOpened
  <1>8. CASE ReadEvents(p)
    <2>1. CASE Finish(p, "invalid")
      BY <2>1, FinishTyped DEF Replies
    <2>2. CASE /\ Loadable(disk[fd[p]])
               /\ view' = [view EXCEPT ![p] = StateOf(disk[fd[p]])]
               /\ Goto(p, "check")
               /\ UNCHANGED <<lock, call, attempt, candidate, fd, reply>>
      <3>1. disk[fd[p]] \in File
        BY <1>8 DEF TypeOK, OpenOK, ReadEvents, Absent
      <3>2. StateOf(disk[fd[p]]) \in State
        BY <2>2, <3>1 DEF Loadable, StateOf, State, File, Format
      <3>3. LocalsTyped'
        BY <2>2, <3>2 DEF TypeOK, LocalsTyped, Goto, Steps
      <3>4. OpenOK'
        BY <2>2 DEF TypeOK, OpenOK, Goto
      <3>5. QED
        BY <3>3, <3>4
    <2>3. QED
      BY <1>8, <2>1, <2>2 DEF ReadEvents
  <1>9. QED
    BY <1>3, <1>4, <1>5, <1>6, <1>7, <1>8 DEF LoadStep

LEMMA DecideTyped ==
  ASSUME TypeInv, NEW p \in Process, DecideStep(p)
  PROVE  TypeInv'
  <1> USE DEF TypeInv
  <1>1. SUFFICES ASSUME UNCHANGED <<fsVars, acked, boundVars>>
                 PROVE  LocalsTyped' /\ OpenOK'
    BY FilesKept DEF TypeOK, DecideStep, HeadRefused, ReadReturns, CollisionRefused,
       NothingNew, LimitRefused, Stage, boundVars
  <1> USE <1>1 DEF fsVars
  <1>2. CASE \E status \in {"refused", "ok", "failed"} : Finish(p, status)
    BY <1>2, FinishTyped DEF Replies
  <1>3. CASE ReadReturns(p)
    BY <1>3, ReturnTyped DEF ReadReturns, Replies
  <1>4. CASE Stage(p)
    <2>1. LocalsTyped'
      BY <1>4 DEF TypeOK, LocalsTyped, Stage, Goto, localVars, Steps, WritingSteps
    <2>2. OpenOK'
      BY <1>4 DEF TypeOK, OpenOK, Stage, Goto, localVars
    <2>3. QED
      BY <2>1, <2>2
  <1>5. QED
    BY <1>2, <1>3, <1>4 DEF DecideStep, HeadRefused, CollisionRefused, NothingNew,
       LimitRefused

\* Writing to an inode that exists keeps the disk's shape.
LEMMA DiskUpdated ==
  ASSUME TypeOK, NEW i \in 1..Len(disk), NEW f \in File,
         disk' = [disk EXCEPT ![i] = f]
  PROVE  disk' \in Seq(File) /\ Len(disk') = Len(disk)
  BY DEF TypeOK

LEMMA WriteTyped ==
  ASSUME TypeInv, NEW p \in Process, WriteStep(p) \/ Fault(p)
  PROVE  TypeInv'
  <1> USE DEF TypeInv
  <1>1. Len(disk) \in Nat
    BY DEF TypeOK
  <1>2. CASE CreateTemporary(p)
    <2>1. EmptyFile \in File
      BY DEF EmptyFile, File, Format
    <2>2. disk' \in Seq(File) /\ Len(disk') = Len(disk) + 1
      BY <1>2, <2>1 DEF TypeOK, CreateTemporary
    <2>3. 0..Len(disk) \subseteq 0..Len(disk') /\ 1..Len(disk) \subseteq 1..Len(disk')
      BY <1>1, <2>2
    <2>4. Len(disk') \in 1..Len(disk')
      BY <1>1, <2>2
    <2>5. fd' \in [Process -> 0..Len(disk')]
      BY <1>2, <2>3, <2>4 DEF TypeOK, CreateTemporary
    <2>6. TypeOK'
      BY <1>2, <2>2, <2>3, <2>4, <2>5 DEF TypeOK, CreateTemporary, Goto, boundVars,
                                     Steps, WritingSteps
    <2>7. OpenOK'
      BY <1>1, <1>2, <2>2 DEF TypeOK, OpenOK, CreateTemporary, Goto, Absent
    <2>8. QED
      BY <2>6, <2>7
  <1>3. CASE WriteTemporary(p)
    <2>1. fd[p] \in 1..Len(disk)
      BY <1>1, <1>3 DEF TypeOK, OpenOK, WriteTemporary, Absent
    <2> DEFINE f == [format |-> "chained", records |-> Merged(p), synced |-> FALSE]
    <2>2. Merged(p) \in SUBSET Record
      BY DEF TypeOK, Merged, State, Call
    <2>3. f \in File
      BY <2>2 DEF File, Format
    <2>4. disk' = [disk EXCEPT ![fd[p]] = f]
      BY <1>3 DEF WriteTemporary
    <2> HIDE DEF f
    <2>5. disk' \in Seq(File) /\ Len(disk') = Len(disk)
      BY <2>1, <2>3, <2>4, DiskUpdated
    <2>6. TypeOK'
      BY <1>3, <2>5 DEF TypeOK, WriteTemporary, Goto, localVars, boundVars, Steps,
                        WritingSteps
    <2>7. OpenOK'
      BY <1>3 DEF TypeOK, OpenOK, WriteTemporary, Goto, localVars
    <2>8. QED
      BY <2>6, <2>7
  <1>4. CASE SyncTemporary(p)
    <2>1. fd[p] \in 1..Len(disk)
      BY <1>1, <1>4 DEF TypeOK, OpenOK, SyncTemporary, Absent
    <2> DEFINE f == [disk[fd[p]] EXCEPT !.synced = TRUE]
    <2>2. disk[fd[p]] \in File
      BY <2>1 DEF TypeOK
    <2>3. f \in File
      BY <2>2 DEF File
    <2>4. disk' = [disk EXCEPT ![fd[p]] = f]
      BY <1>4 DEF SyncTemporary
    <2> HIDE DEF f
    <2>5. disk' \in Seq(File) /\ Len(disk') = Len(disk)
      BY <2>1, <2>3, <2>4, DiskUpdated
    <2>6. TypeOK'
      BY <1>4, <2>5 DEF TypeOK, SyncTemporary, Goto, localVars, boundVars, Steps,
                        WritingSteps
    <2>7. OpenOK'
      BY <1>4 DEF TypeOK, OpenOK, SyncTemporary, Goto, localVars
    <2>8. QED
      BY <2>6, <2>7
  <1>5. CASE Replace(p)
    <2>1. fd[p] \in 0..Len(disk) /\ fd[p] # Absent
      BY <1>5 DEF TypeOK, OpenOK, Replace
    <2>2. TypeOK'
      BY <1>5, <2>1 DEF TypeOK, Replace, Goto, localVars, boundVars, Steps
    <2>3. OpenOK'
      BY <1>5, <2>1 DEF TypeOK, OpenOK, Replace, Goto, localVars
    <2>4. QED
      BY <2>2, <2>3
  <1>6. CASE SyncDirectory(p)
    <2>1. LocalsTyped' /\ OpenOK'
      BY <1>6, UnwindTyped DEF SyncDirectory, Replies
    <2>2. QED
      BY <1>6, <2>1 DEF TypeOK, LocalsTyped, SyncDirectory, boundVars
  <1>7. CASE WriteFault(p)
    <2>1. LocalsTyped' /\ OpenOK'
      BY <1>7, UnwindTyped DEF WriteFault, Replies
    <2>2. QED
      BY <1>7, <2>1 DEF TypeOK, LocalsTyped, WriteFault, boundVars
  <1>8. CASE InstalledFault(p)
    <2>1. LocalsTyped' /\ OpenOK'
      BY <1>8, UnwindTyped DEF InstalledFault, fsVars, Replies
    <2>2. QED
      BY <1>8, <2>1, FilesKept DEF TypeOK, InstalledFault, boundVars
  <1>9. CASE CloseLock(p)
    <2>1. Accepted(p) \subseteq Record
      BY DEF TypeOK, Accepted, Call
    <2>2. acked' \subseteq Record
      BY <1>9, <2>1 DEF TypeOK, CloseLock
    <2>3. 0 \in 0..(PathAttempts - 1) /\ 0 \in 0..Len(disk) /\ "idle" \in Steps
      BY <1>1, ArchiveAssumption DEF Steps
    <2>4. LocalsTyped'
      BY <1>9, <2>3, Defaults DEF TypeOK, LocalsTyped, CloseLock, Goto, ClearLocals,
                                  fsVars, Absent
    <2>5. OpenOK'
      BY <1>9 DEF TypeOK, OpenOK, CloseLock, Goto, ClearLocals, fsVars
    <2>6. QED
      BY <1>9, <2>2, <2>4, <2>5, FilesKept DEF TypeOK, CloseLock, boundVars
  <1>10. CASE LockUnavailable(p)
    <2>1. LocalsTyped' /\ OpenOK'
      BY <1>10, ReturnTyped DEF LockUnavailable, fsVars, Replies
    <2>2. QED
      BY <1>10, <2>1, FilesKept DEF TypeOK, LockUnavailable, boundVars
  <1>11. CASE ReadFault(p)
    <2>1. LocalsTyped' /\ OpenOK'
      BY <1>11, FinishTyped DEF ReadFault, fsVars, Replies
    <2>2. QED
      BY <1>11, <2>1, FilesKept DEF TypeOK, ReadFault, boundVars
  <1>12. CASE CreateFault(p)
    <2>1. EmptyFile \in File
      BY DEF EmptyFile, File, Format
    <2>2. disk' \in Seq(File) /\ Len(disk') = Len(disk) + 1
      BY <1>12, <2>1 DEF TypeOK, CreateFault
    <2>3. 0..Len(disk) \subseteq 0..Len(disk') /\ 1..Len(disk) \subseteq 1..Len(disk')
      BY <1>1, <2>2
    <2>4. Len(disk') \in 1..Len(disk')
      BY <1>1, <2>2
    <2>5. crashes' \in 0..MaxCrashes
      BY <1>12, ArchiveAssumption DEF TypeOK, CreateFault
    <2>6. TypeOK'
      BY <1>12, <2>2, <2>3, <2>4, <2>5 DEF TypeOK, CreateFault, Unwind, Steps, Replies
    <2>7. OpenOK'
      BY <1>12 DEF TypeOK, OpenOK, CreateFault, Unwind
    <2>8. QED
      BY <2>6, <2>7
  <1>13. CASE CloseFault(p)
    <2>1. 0 \in 0..(PathAttempts - 1) /\ 0 \in 0..Len(disk) /\ "idle" \in Steps
      BY <1>1, ArchiveAssumption DEF Steps
    <2>2. LocalsTyped'
      BY <1>13, <2>1, Defaults DEF TypeOK, LocalsTyped, CloseFault, Goto, ClearLocals,
                                   fsVars, Absent, Replies
    <2>3. OpenOK'
      BY <1>13 DEF TypeOK, OpenOK, CloseFault, Goto, ClearLocals, fsVars
    <2>4. QED
      BY <1>13, <2>2, <2>3, FilesKept DEF TypeOK, CloseFault, boundVars
  <1>14. CASE CleanupFault(p)
    <2>1. LocalsTyped' /\ OpenOK'
      BY <1>14, UnwindTyped DEF CleanupFault, fsVars, Replies
    <2>2. crashes' \in 0..MaxCrashes
      BY <1>14, ArchiveAssumption DEF TypeOK, CleanupFault
    <2>3. QED
      BY <1>14, <2>1, <2>2, FilesKept DEF TypeOK, CleanupFault
  <1>15. QED
    BY <1>2, <1>3, <1>4, <1>5, <1>6, <1>7, <1>8, <1>9, <1>10, <1>11, <1>12, <1>13, <1>14
       DEF WriteStep, Fault

LEMMA CrashTyped ==
  ASSUME TypeInv, PowerLoss \/ (\E p \in Process : ProcessDeath(p))
  PROVE  TypeInv'
  <1> USE DEF TypeInv
  <1>1. Len(disk) \in Nat
    BY DEF TypeOK
  <1>2. /\ 0 \in 0..(PathAttempts - 1)
        /\ 0 \in 0..Len(disk)
        /\ "idle" \in Steps
        /\ "none" \in Replies
    BY <1>1, ArchiveAssumption DEF Steps, Replies
  <1>3. crashes < MaxCrashes => crashes + 1 \in 0..MaxCrashes
    BY ArchiveAssumption DEF TypeOK
  <1>4. ASSUME NEW p \in Process, ProcessDeath(p)
        PROVE  TypeInv'
    <2>1. LocalsTyped'
      BY <1>2, <1>4, Defaults DEF TypeOK, LocalsTyped, ProcessDeath, Goto, ClearLocals,
                                  fsVars, Absent
    <2>2. OpenOK'
      BY <1>4 DEF TypeOK, OpenOK, ProcessDeath, Goto, ClearLocals, fsVars
    <2>3. QED
      BY <1>3, <1>4, <2>1, <2>2, FilesKept DEF TypeOK, ProcessDeath
  <1>5. CASE PowerLoss
    <2>1. \A i \in DOMAIN disk : disk[i] \in File /\ [disk[i] EXCEPT !.format = "torn"] \in File
      <3>1. TAKE i \in DOMAIN disk
      <3>2. disk[i] \in File
        BY DEF TypeOK
      <3>3. QED
        BY <3>2 DEF File, Format
    <2>2. disk' \in [1..Len(disk) -> File]
      BY <1>5, <2>1 DEF TypeOK, PowerLoss
    <2>3. disk' \in Seq(File) /\ Len(disk') = Len(disk)
      BY <1>1, <2>2
    <2>4. entry' \in 0..Len(disk) /\ durable' \subseteq 0..Len(disk)
      BY <1>5 DEF TypeOK, PowerLoss
    <2>5. LocalsTyped'
      BY <1>2, <1>5, <2>3, Defaults DEF LocalsTyped, PowerLoss, Absent
    <2>6. OpenOK'
      BY <1>5 DEF OpenOK, PowerLoss
    <2>7. QED
      BY <1>3, <1>5, <2>3, <2>4, <2>5, <2>6 DEF TypeOK, LocalsTyped, PowerLoss
  <1>6. QED
    BY <1>4, <1>5

LEMMA StepTyped == TypeInv /\ [Next]_vars => TypeInv'
  <1> SUFFICES ASSUME TypeInv, [Next]_vars PROVE TypeInv'
    OBVIOUS
  <1>1. ASSUME NEW p \in Process, Request(p) PROVE TypeInv'
    BY <1>1, RequestTyped
  <1>2. ASSUME NEW p \in Process, Proceed(p) PROVE TypeInv'
    BY <1>2, LoadTyped, DecideTyped, WriteTyped DEF Proceed
  <1>3. ASSUME NEW p \in Process, Fault(p) PROVE TypeInv'
    BY <1>3, WriteTyped
  <1>4. CASE PowerLoss \/ \E p \in Process : ProcessDeath(p)
    BY <1>4, CrashTyped
  <1>5. CASE UNCHANGED vars
    BY <1>5 DEF TypeInv, TypeOK, OpenOK, vars, fsVars, localVars, boundVars
  <1>6. QED
    BY <1>1, <1>2, <1>3, <1>4, <1>5 DEF Next

\* Every variable keeps its type, and a descriptor in use names an inode, in
\* every state of every behaviour of the archive.
THEOREM TypeCorrect == Spec => []TypeInv
  <1>1. QED
    BY InitTyped, StepTyped, PTL DEF Spec
-----------------------------------------------------------------------------
(* Writer exclusion.                                                       *)

LEMMA InitLocked == Init => LockInv
  BY DEF Init, LockInv, OneWriter, Holding, IsAppend, NoCall, WritingSteps

\* A process that has no call holds nothing.
LEMMA ReturnLocked ==
  ASSUME TypeInv, LockInv, NEW p \in Process, NEW status, Return(p, status)
  PROVE  LockInv'
  BY DEF TypeInv, TypeOK, LockInv, OneWriter, Holding, IsAppend, Return, WritingSteps

LEMMA FinishLocked ==
  ASSUME TypeInv, LockInv, NEW p \in Process, NEW status, Finish(p, status),
         pc[p] \notin {"idle", "locking"}
  PROVE  LockInv'
  <1>1. CASE IsAppend(p)
    BY <1>1 DEF TypeInv, TypeOK, LockInv, OneWriter, Holding, IsAppend, Finish, Unwind,
                WritingSteps
  <1>2. CASE ~IsAppend(p)
    BY <1>2, ReturnLocked DEF Finish
  <1>3. QED
    BY <1>1, <1>2

\* A step within a call moves the process among the steps its kind of call has.
LEMMA MoveLocked ==
  ASSUME TypeInv, LockInv, NEW p \in Process, NEW step, Goto(p, step),
         pc[p] \notin {"idle", "locking"},
         step \in WritingSteps \cup {"dirsync", "close"} => IsAppend(p),
         step # "locking",
         UNCHANGED <<call, lock>>
  PROVE  LockInv'
  BY DEF TypeInv, TypeOK, LockInv, OneWriter, Holding, IsAppend, Goto, WritingSteps

LEMMA StepLocked == TypeInv /\ LockInv /\ [Next]_vars => LockInv'
  <1> SUFFICES ASSUME TypeInv, LockInv, [Next]_vars PROVE LockInv'
    OBVIOUS
  <1>1. ASSUME NEW p \in Process, Request(p) PROVE LockInv'
    <2>1. ASSUME NEW c, NEW step \in {"locking", "stat"}, StartCall(p, c, step),
                 c.kind = "append" <=> step = "locking"
          PROVE  LockInv'
      BY <2>1 DEF TypeInv, TypeOK, LockInv, OneWriter, Holding, IsAppend, StartCall,
                  Goto, WritingSteps
    <2>2. ASSUME NEW expected, ReadBegin(p, expected) PROVE LockInv'
      BY <2>1, <2>2 DEF ReadBegin
    <2>3. ASSUME NEW expected, NEW batch, AppendBegin(p, batch, expected) PROVE LockInv'
      BY <2>1, <2>3 DEF AppendBegin
    <2>4. ASSUME NEW expected, NEW batch, AppendAnsweredEarly(p, batch, expected)
          PROVE  LockInv'
      BY <2>4, ReturnLocked DEF AppendAnsweredEarly
    <2>5. QED
      BY <1>1, <2>2, <2>3, <2>4 DEF Request
  <1>2. ASSUME NEW p \in Process, LoadStep(p) PROVE LockInv'
    <2>1. ASSUME NEW status, RetryOpen(p, status), pc[p] \in ReadingSteps PROVE LockInv'
      BY <2>1, MoveLocked, FinishLocked DEF RetryOpen, ReadingSteps, WritingSteps
    <2>2. CASE AcquireLock(p)
      <3>1. \A q \in Process : ~Holding(q)
        BY <2>2, ArchiveAssumption DEF LockInv, OneWriter, AcquireLock
      <3>2. QED
        BY <2>2, <3>1 DEF TypeInv, TypeOK, LockInv, OneWriter, Holding, IsAppend,
                          AcquireLock, Goto, WritingSteps
    <2>3. CASE LockTimeout(p)
      BY <2>3, ReturnLocked DEF LockTimeout
    <2>4. CASE StatEvents(p)
      BY <2>1, <2>4, MoveLocked DEF StatEvents, LoadedAbsent, ReadingSteps, WritingSteps
    <2>5. CASE OpenEvents(p)
      BY <2>5, MoveLocked DEF OpenEvents, WritingSteps
    <2>6. CASE InspectOpened(p)
      BY <2>1, <2>6, MoveLocked, FinishLocked DEF InspectOpened, ReadingSteps, WritingSteps
    <2>7. CASE ReadEvents(p)
      BY <2>7, MoveLocked, FinishLocked DEF ReadEvents, WritingSteps
    <2>8. QED
      BY <1>2, <2>2, <2>3, <2>4, <2>5, <2>6, <2>7 DEF LoadStep
  <1>3. ASSUME NEW p \in Process, DecideStep(p) PROVE LockInv'
    <2>1. CASE Stage(p)
      BY <2>1, MoveLocked DEF Stage, WritingSteps
    <2>2. CASE ReadReturns(p)
      BY <2>2, ReturnLocked DEF ReadReturns
    <2>3. CASE \E status : Finish(p, status) /\ pc[p] = "check"
      BY <2>3, FinishLocked
    <2>4. QED
      BY <1>3, <2>1, <2>2, <2>3 DEF DecideStep, HeadRefused, CollisionRefused,
         NothingNew, LimitRefused
  <1>4. ASSUME NEW p \in Process, WriteStep(p) PROVE LockInv'
    <2>1. CASE CloseLock(p)
      BY <2>1 DEF TypeInv, TypeOK, LockInv, OneWriter, Holding, IsAppend, CloseLock, Goto,
                  NoCall, WritingSteps
    <2>2. CASE CreateTemporary(p) \/ WriteTemporary(p) \/ SyncTemporary(p) \/ Replace(p)
      <3>1. IsAppend(p)
        BY <2>2 DEF LockInv, CreateTemporary, WriteTemporary, SyncTemporary, Replace,
                    WritingSteps
      <3>2. QED
        BY <2>2, <3>1, MoveLocked DEF CreateTemporary, WriteTemporary, SyncTemporary,
           Replace, localVars
    <2>3. CASE SyncDirectory(p)
      <3>1. IsAppend(p)
        BY <2>3 DEF LockInv, SyncDirectory
      <3>2. QED
        BY <2>3, <3>1, MoveLocked DEF SyncDirectory, Unwind, Goto
    <2>4. QED
      BY <1>4, <2>1, <2>2, <2>3 DEF WriteStep
  <1>5. ASSUME NEW p \in Process, Fault(p) PROVE LockInv'
    <2>1. CASE LockUnavailable(p)
      BY <2>1, ReturnLocked DEF LockUnavailable
    <2>2. CASE ReadFault(p)
      BY <2>2, FinishLocked DEF ReadFault, ReadingSteps
    <2>3. CASE WriteFault(p) \/ CreateFault(p) \/ CleanupFault(p) \/ InstalledFault(p)
      <3>1. IsAppend(p)
        BY <2>3 DEF LockInv, WriteFault, CreateFault, CleanupFault, InstalledFault,
                    WritingSteps
      <3>2. QED
        BY <2>3, <3>1, MoveLocked DEF WriteFault, CreateFault, CleanupFault,
           InstalledFault, WritingSteps, Unwind, Goto
    <2>4. CASE CloseFault(p)
      BY <2>4 DEF TypeInv, TypeOK, LockInv, OneWriter, Holding, IsAppend, CloseFault, Goto,
                  NoCall, WritingSteps
    <2>5. QED
      BY <1>5, <2>1, <2>2, <2>3, <2>4 DEF Fault
  <1>6. ASSUME NEW p \in Process, ProcessDeath(p) PROVE LockInv'
    <2>1. \A q \in Process \ {p} : Holding(q)' => Holding(q)
      BY <1>6 DEF TypeInv, TypeOK, Holding, IsAppend, ProcessDeath, Goto
    <2>2. ~Holding(p)'
      BY <1>6 DEF TypeInv, TypeOK, Holding, ProcessDeath, Goto
    <2>3. QED
      BY <1>6, <2>1, <2>2 DEF TypeInv, TypeOK, LockInv, OneWriter, IsAppend, ProcessDeath,
                              Goto, WritingSteps
  <1>7. CASE PowerLoss
    BY <1>7 DEF LockInv, OneWriter, Holding, IsAppend, PowerLoss, WritingSteps
  <1>8. CASE UNCHANGED vars
    BY <1>8 DEF LockInv, OneWriter, Holding, IsAppend, vars
  <1>9. QED
    BY <1>1, <1>2, <1>3, <1>4, <1>5, <1>6, <1>7, <1>8 DEF Next, Proceed

\* Writers are serialized: whatever times out, fails or is killed, a process
\* between taking the lock and closing its descriptor is the lock's owner.
THEOREM WritersExclude == Spec => []OneWriter
  <1>1. LockInv => OneWriter
    BY DEF LockInv
  <1>2. QED
    BY <1>1, InitLocked, StepLocked, TypeCorrect, PTL DEF Spec
-----------------------------------------------------------------------------
(* The commit protocol.                                                    *)

SafeInv == TypeInv /\ LockInv /\ CommitInv

LEMMA InitCommits == Init => CommitInv
  <1> SUFFICES ASSUME Init PROVE CommitInv
    OBVIOUS
  <1>1. entry # Absent => disk[entry].synced /\ Loadable(disk[entry])
    BY ArchiveAssumption DEF Init, Loadable, Absent
  <1>2. FilesOK
    BY <1>1 DEF Init, FilesOK, Visible
  <1>3. ASSUME NEW p \in Process PROVE LoaderOK(p) /\ StagerOK(p)
    BY DEF Init, LoaderOK, StagerOK, Holding, IsAppend, NoCall, WritingSteps
  <1>4. QED
    BY <1>2, <1>3 DEF CommitInv

\* A step of p leaves the call of every other process alone.
OthersKept(p) ==
    \A q \in Process \ {p} :
        /\ pc'[q] = pc[q] /\ call'[q] = call[q] /\ reply'[q] = reply[q]
        /\ candidate'[q] = candidate[q] /\ fd'[q] = fd[q] /\ view'[q] = view[q]

\* A step that leaves the files alone has to be justified for its own process.
LEMMA QuietStep ==
  ASSUME SafeInv, NEW p \in Process, OthersKept(p), UNCHANGED <<fsVars, acked>>,
         LoaderOK(p)', StagerOK(p)'
  PROVE  CommitInv'
  <1>1. FilesOK'
    BY DEF SafeInv, CommitInv, FilesOK, Visible, RecordsOf, fsVars
  <1>2. ASSUME NEW q \in Process \ {p} PROVE LoaderOK(q)' /\ StagerOK(q)'
    <2>1. LoaderOK(q) /\ StagerOK(q)
      BY DEF SafeInv, CommitInv
    <2>2. /\ pc'[q] = pc[q] /\ call'[q] = call[q] /\ reply'[q] = reply[q]
          /\ candidate'[q] = candidate[q] /\ fd'[q] = fd[q] /\ view'[q] = view[q]
      BY DEF OthersKept
    <2>3. LoaderOK(q)'
      BY <2>1, <2>2 DEF LoaderOK, Holding, IsAppend, Visible, RecordsOf, fsVars
    <2>4. StagerOK(q)'
      BY <2>1, <2>2 DEF StagerOK, Merged, Accepted, Visible, RecordsOf, fsVars
    <2>5. QED
      BY <2>3, <2>4
  <1>3. QED
    BY <1>1, <1>2 DEF CommitInv

\* While p holds the lock, nothing is claimed of the others: a step of p that
\* changes files has to be justified for the files and for p.
LEMMA HolderStep ==
  ASSUME SafeInv, NEW p \in Process, Holding(p), OthersKept(p),
         FilesOK', LoaderOK(p)', StagerOK(p)'
  PROVE  CommitInv'
  <1>1. ASSUME NEW q \in Process \ {p} PROVE LoaderOK(q)' /\ StagerOK(q)'
    <2>1. ~Holding(q)
      BY DEF SafeInv, LockInv, OneWriter
    <2>2. ~Holding(q)'
      BY <2>1 DEF OthersKept, Holding, IsAppend
    <2>3. pc'[q] \notin WritingSteps \cup {"dirsync", "close"}
      BY <2>1 DEF OthersKept, SafeInv, LockInv, Holding, WritingSteps
    <2>4. IsAppend(q)' => reply'[q] # "invalid"
      BY DEF OthersKept, IsAppend, SafeInv, CommitInv, LoaderOK
    <2>5. QED
      BY <2>2, <2>3, <2>4 DEF LoaderOK, StagerOK, WritingSteps
  <1>2. QED
    BY <1>1 DEF CommitInv

\* A process between calls claims nothing.
LEMMA IdleClaimsNothing ==
  ASSUME NEW p \in Process, pc'[p] \in {"idle", "locking"},
         call'[p].kind = "append" => reply'[p] # "invalid"
  PROVE  LoaderOK(p)' /\ StagerOK(p)'
  BY DEF IsAppend, LoaderOK, StagerOK, Holding, WritingSteps

LEMMA ReturnCommits ==
  ASSUME SafeInv, NEW p \in Process, NEW status, Return(p, status),
         UNCHANGED <<fsVars, acked>>
  PROVE  CommitInv'
  <1>1. pc'[p] = "idle" /\ call'[p] = NoCall /\ OthersKept(p)
    BY DEF SafeInv, TypeInv, TypeOK, Return, ClearLocals, OthersKept
  <1>2. QED
    BY <1>1, IdleClaimsNothing, QuietStep DEF NoCall

\* An append that fails, or has nothing to add, acknowledges nothing.
LEMMA FinishCommits ==
  ASSUME SafeInv, NEW p \in Process, NEW status, Finish(p, status),
         UNCHANGED <<fsVars, acked>>,
         IsAppend(p) => status # "invalid" /\ (status = "ok" => Accepted(p) = {})
  PROVE  CommitInv'
  <1>1. CASE ~IsAppend(p)
    BY <1>1, ReturnCommits DEF Finish
  <1>2. CASE IsAppend(p)
    <2>1. /\ pc'[p] = "close" /\ reply'[p] = status
          /\ OthersKept(p) /\ UNCHANGED <<call, view>>
      BY <1>2 DEF SafeInv, TypeInv, TypeOK, Finish, Unwind, OthersKept
    <2>2. Accepted(p)' = Accepted(p)
      BY <2>1 DEF Accepted
    <2>3. LoaderOK(p)'
      BY <1>2, <2>1 DEF LoaderOK, WritingSteps
    <2>4. StagerOK(p)'
      BY <1>2, <2>1, <2>2 DEF StagerOK, WritingSteps
    <2>5. QED
      BY <2>1, <2>3, <2>4, QuietStep
  <1>3. QED
    BY <1>1, <1>2

LEMMA RequestCommits ==
  ASSUME SafeInv, NEW p \in Process, Request(p)
  PROVE  CommitInv'
  <1>1. ASSUME NEW c, NEW step \in {"locking", "stat"}, StartCall(p, c, step),
               c.kind = "append" => step = "locking"
        PROVE  CommitInv'
    <2>1. pc'[p] = step /\ call'[p] = c /\ reply'[p] = "none" /\ OthersKept(p)
      BY <1>1 DEF SafeInv, TypeInv, TypeOK, StartCall, Goto, OthersKept, localVars
    <2>2. LoaderOK(p)' /\ StagerOK(p)'
      BY <1>1, <2>1 DEF LoaderOK, StagerOK, Holding, IsAppend, WritingSteps
    <2>3. QED
      BY <1>1, <2>1, <2>2, QuietStep DEF StartCall
  <1>2. ASSUME NEW expected, ReadBegin(p, expected) PROVE CommitInv'
    BY <1>1, <1>2 DEF ReadBegin
  <1>3. ASSUME NEW expected, NEW batch, AppendBegin(p, batch, expected) PROVE CommitInv'
    BY <1>1, <1>3 DEF AppendBegin
  <1>4. ASSUME NEW expected, NEW batch, AppendAnsweredEarly(p, batch, expected)
        PROVE  CommitInv'
    BY <1>4, ReturnCommits DEF AppendAnsweredEarly
  <1>5. QED
    BY <1>2, <1>3, <1>4 DEF Request

\* Under the lock the loaded file cannot change; without it nothing is claimed.
LEMMA LoadCommits ==
  ASSUME SafeInv, NEW p \in Process, LoadStep(p)
  PROVE  CommitInv'
  <1> USE DEF SafeInv, TypeInv, TypeOK
  <1>1. LoaderOK(p) /\ StagerOK(p) /\ FilesOK
    BY DEF CommitInv
  <1>2. ASSUME NEW step \in ReadingSteps \cup {"check"}, pc'[p] = step,
               UNCHANGED <<fsVars, acked, call, reply>>, OthersKept(p),
               Holding(p) =>
                  /\ step = "open" => candidate'[p] = entry
                  /\ step \in {"fstat", "read"} => candidate'[p] = entry /\ fd'[p] = entry
                  /\ step = "check" => view'[p].records = Visible,
               pc[p] # "locking", pc[p] # "idle"
        PROVE  CommitInv'
    <2>1. LoaderOK(p)'
      BY <1>1, <1>2 DEF LoaderOK, Holding, IsAppend, Visible, RecordsOf, fsVars,
                        ReadingSteps, WritingSteps
    <2>2. StagerOK(p)'
      BY <1>2 DEF StagerOK, ReadingSteps, WritingSteps
    <2>3. QED
      BY <1>2, <2>1, <2>2, QuietStep
  <1>3. CASE AcquireLock(p)
    <2>1. /\ pc'[p] = "stat" /\ OthersKept(p)
          /\ UNCHANGED <<fsVars, acked, call, reply>>
      BY <1>3 DEF AcquireLock, Goto, OthersKept, localVars
    <2>2. LoaderOK(p)' /\ StagerOK(p)'
      BY <1>1, <2>1 DEF LoaderOK, StagerOK, IsAppend, WritingSteps
    <2>3. QED
      BY <2>1, <2>2, QuietStep
  <1>4. CASE LockTimeout(p)
    BY <1>4, ReturnCommits DEF LockTimeout
  <1>5. CASE StatEvents(p)
    <2>1. CASE attempt[p] + 1 < PathAttempts /\ RetryOpen(p, "invalid")
      BY <1>2, <1>5, <2>1 DEF StatEvents, RetryOpen, Goto, OthersKept, ReadingSteps
    <2>2. CASE entry = Absent /\ LoadedAbsent(p)
      BY <1>2, <1>5, <2>2 DEF StatEvents, LoadedAbsent, Genesis, Visible, RecordsOf, Goto,
                              OthersKept, ReadingSteps
    <2>3. CASE /\ candidate' = [candidate EXCEPT ![p] = entry]
               /\ Goto(p, "open")
               /\ UNCHANGED <<lock, call, attempt, fd, view, reply>>
      BY <1>2, <1>5, <2>3 DEF StatEvents, Goto, OthersKept, ReadingSteps
    <2>4. QED
      BY <1>5, <2>1, <2>2, <2>3 DEF StatEvents
  <1>6. CASE OpenEvents(p)
    BY <1>1, <1>2, <1>6 DEF OpenEvents, LoaderOK, Goto, OthersKept, ReadingSteps
  <1>7. CASE InspectOpened(p)
    <2>1. Holding(p) => candidate[p] = entry /\ fd[p] = entry
      BY <1>1, <1>7 DEF InspectOpened, LoaderOK
    <2>2. ~Holding(p) => ~IsAppend(p)
      BY <1>7 DEF InspectOpened, Holding
    <2>3. CASE fd[p] # entry /\ Finish(p, "invalid")
      BY <1>7, <2>1, <2>2, <2>3, FinishCommits DEF InspectOpened
    <2>4. CASE candidate[p] # fd[p] /\ RetryOpen(p, "invalid")
      <3>1. ~IsAppend(p)
        BY <2>1, <2>2, <2>4
      <3>2. CASE Finish(p, "invalid")
        BY <1>7, <3>1, <3>2, FinishCommits DEF InspectOpened
      <3>3. CASE /\ Goto(p, "stat")
                 /\ UNCHANGED <<lock, call, candidate, fd, view, reply>>
        BY <1>2, <1>7, <3>3 DEF InspectOpened, Goto, OthersKept, ReadingSteps
      <3>4. QED
        BY <2>4, <3>2, <3>3 DEF RetryOpen
    <2>5. CASE Goto(p, "read") /\ UNCHANGED <<lock, call, localVars, reply>>
      BY <1>2, <1>7, <2>1, <2>5 DEF InspectOpened, Goto, OthersKept, localVars, ReadingSteps
    <2>6. QED
      BY <1>7, <2>3, <2>4, <2>5 DEF InspectOpened
  <1>8. CASE ReadEvents(p)
    <2>1. fd[p] # Absent
      BY <1>8 DEF ReadEvents, OpenOK
    <2>2. CASE /\ fd[p] = entry
               /\ view' = [view EXCEPT ![p] = StateOf(disk[fd[p]])]
               /\ Goto(p, "check")
               /\ UNCHANGED <<lock, call, attempt, candidate, fd, reply>>
      <3>1. view'[p].records = Visible
        BY <2>1, <2>2 DEF StateOf, Visible, RecordsOf
      <3>2. QED
        BY <1>2, <1>8, <2>2, <3>1 DEF ReadEvents, Goto, OthersKept
    <2>3. CASE (fd[p] # entry \/ ~Loadable(disk[fd[p]])) /\ Finish(p, "invalid")
      <3>1. Holding(p) => fd[p] = entry
        BY <1>1, <1>8 DEF ReadEvents, LoaderOK
      <3>2. fd[p] = entry => Loadable(disk[fd[p]])
        BY <1>1, <2>1 DEF FilesOK
      <3>3. ~IsAppend(p)
        BY <1>8, <2>3, <3>1, <3>2 DEF ReadEvents, Holding
      <3>4. QED
        BY <1>8, <2>3, <3>3, FinishCommits DEF ReadEvents
    <2>4. QED
      BY <1>8, <2>2, <2>3 DEF ReadEvents
  <1>9. QED
    BY <1>3, <1>4, <1>5, <1>6, <1>7, <1>8 DEF LoadStep

LEMMA DecideCommits ==
  ASSUME SafeInv, NEW p \in Process, DecideStep(p)
  PROVE  CommitInv'
  <1>1. CASE HeadRefused(p) \/ CollisionRefused(p) \/ LimitRefused(p) \/ NothingNew(p)
    BY <1>1, FinishCommits DEF HeadRefused, CollisionRefused, LimitRefused, NothingNew
  <1>2. CASE ReadReturns(p)
    BY <1>2, ReturnCommits DEF ReadReturns
  <1>3. CASE Stage(p)
    <2>1. /\ pc'[p] = "create" /\ OthersKept(p)
          /\ UNCHANGED <<fsVars, acked, call, view, reply, candidate, fd>>
      BY <1>3 DEF SafeInv, TypeInv, TypeOK, Stage, Goto, OthersKept, localVars
    <2>2. LoaderOK(p) /\ Holding(p)
      BY <1>3 DEF SafeInv, CommitInv, Stage, Holding
    <2>3. LoaderOK(p)'
      BY <1>3, <2>1, <2>2 DEF LoaderOK, Stage, IsAppend, Visible, RecordsOf, fsVars
    <2>4. StagerOK(p)'
      BY <1>3, <2>1 DEF StagerOK, Stage, Collides, Merged
    <2>5. QED
      BY <2>1, <2>3, <2>4, QuietStep
  <1>4. QED
    BY <1>1, <1>2, <1>3 DEF DecideStep

\* Changing a temporary file changes nothing the directory can name.
LEMMA TemporaryWritten ==
  ASSUME SafeInv, NEW t, t \notin durable, UNCHANGED <<entry, durable, acked>>,
         temps' \cap durable = {},
         \A i \in durable \ {Absent} : disk'[i] = disk[i]
  PROVE  FilesOK' /\ Visible' = Visible /\ \A i \in durable : RecordsOf(i)' = RecordsOf(i)
  <1>1. FilesOK
    BY DEF SafeInv, CommitInv
  <1>2. \A i \in durable : RecordsOf(i)' = RecordsOf(i)
    BY DEF RecordsOf
  <1>3. Visible' = Visible
    BY <1>1, <1>2 DEF Visible, RecordsOf, FilesOK
  <1>4. FilesOK'
    BY <1>1, <1>2, <1>3 DEF FilesOK
  <1>5. QED
    BY <1>2, <1>3, <1>4

\* Creating, writing and syncing a temporary file are invisible.
LEMMA TemporarySteps ==
  ASSUME SafeInv, NEW p \in Process,
         \/ CreateTemporary(p) \/ CreateFault(p)
         \/ WriteTemporary(p) \/ SyncTemporary(p)
  PROVE  FilesOK' /\ Visible' = Visible
  <1> USE DEF SafeInv, TypeInv, TypeOK
  <1>1. StagerOK(p) /\ FilesOK
    BY DEF CommitInv
  <1>2. CASE CreateTemporary(p) \/ CreateFault(p)
    <2>1. /\ UNCHANGED <<acked, entry, durable>>
          /\ temps' = temps \cup {Len(disk')}
          /\ Len(disk') = Len(disk) + 1
          /\ \A i \in 1..Len(disk) : disk'[i] = disk[i]
      <3>1. /\ UNCHANGED <<acked, entry, durable>>
            /\ temps' = temps \cup {Len(disk')}
            /\ disk' = Append(disk, EmptyFile)
        BY <1>2 DEF CreateTemporary, CreateFault
      <3>2. disk \in Seq(File)
        OBVIOUS
      <3> HIDE DEF SafeInv, TypeInv, TypeOK
      <3> QED BY <3>1, <3>2
    <2>2. Len(disk') \notin durable /\ Len(disk) \in Nat
      BY <2>1
    <2>3. durable \ {Absent} \subseteq 1..Len(disk)
      BY <2>2 DEF Absent
    <2>4. temps' \cap durable = {}
      BY <1>1, <2>1, <2>2 DEF FilesOK
    <2>5. \A i \in durable \ {Absent} : disk'[i] = disk[i]
      BY <2>1, <2>3
    <2>6. QED
      <3> HIDE DEF SafeInv, TypeInv, TypeOK
      <3> QED BY <2>1, <2>2, <2>4, <2>5, TemporaryWritten
  <1>3. CASE WriteTemporary(p) \/ SyncTemporary(p)
    <2>1. UNCHANGED <<acked, entry, durable, temps>>
      BY <1>3 DEF WriteTemporary, SyncTemporary
    <2>2. fd[p] \in temps /\ fd[p] \notin durable
      BY <1>1, <1>3 DEF StagerOK, FilesOK, WriteTemporary, SyncTemporary
    <2>3. \A i \in DOMAIN disk : i # fd[p] => disk'[i] = disk[i]
      BY <1>3 DEF WriteTemporary, SyncTemporary
    <2>4. durable \ {Absent} \subseteq DOMAIN disk
      BY DEF Absent
    <2>5. QED
      BY <1>1, <2>1, <2>2, <2>3, <2>4, TemporaryWritten DEF FilesOK
  <1>4. QED
    BY <1>2, <1>3

\* A replacement shows the merge of the batch with what was visible.
LEMMA ReplaceStep ==
  ASSUME SafeInv, NEW p \in Process, Replace(p)
  PROVE  /\ Visible' = Merged(p)
         /\ Visible \subseteq Merged(p)
         /\ Loadable(disk[fd[p]]) /\ disk[fd[p]].synced
         /\ RecordsOf(fd[p]) = Merged(p)
         /\ HeadAccepted(view[p], call[p].expected) /\ view[p].records = Visible
  <1>1. LoaderOK(p) /\ StagerOK(p)
    BY DEF SafeInv, CommitInv
  <1>2. pc[p] = "replace" /\ entry' = fd[p] /\ UNCHANGED disk /\ fd[p] # Absent
    BY DEF Replace, SafeInv, TypeInv, OpenOK
  <1>3. Holding(p)
    BY <1>2 DEF SafeInv, LockInv, Holding, WritingSteps
  <1>4. /\ disk[fd[p]].format = "chained" /\ disk[fd[p]].records = Merged(p)
        /\ disk[fd[p]].synced
        /\ Consistent(Merged(p)) /\ WithinLimits(Merged(p))
        /\ HeadAccepted(view[p], call[p].expected)
    BY <1>1, <1>2 DEF StagerOK, WritingSteps
  <1>5. view[p].records = Visible
    BY <1>1, <1>2, <1>3 DEF LoaderOK, WritingSteps
  <1>6. RecordsOf(fd[p]) = Merged(p) /\ Visible' = Merged(p)
    BY <1>2, <1>4 DEF RecordsOf, Visible
  <1>7. QED
    BY <1>4, <1>5, <1>6 DEF Loadable, Merged

LEMMA WriteCommits ==
  ASSUME SafeInv, NEW p \in Process, WriteStep(p)
  PROVE  CommitInv'
  <1> USE DEF SafeInv, TypeInv, TypeOK
  <1>1. LoaderOK(p) /\ StagerOK(p) /\ FilesOK
    BY DEF CommitInv
  <1>2. IsAppend(p) /\ Holding(p)
    BY DEF LockInv, Holding, WriteStep, CreateTemporary, WriteTemporary, SyncTemporary,
           Replace, SyncDirectory, CloseLock, WritingSteps
  <1>3. CASE CreateTemporary(p)
    <2>1. /\ pc[p] = "create" /\ pc'[p] = "write" /\ OthersKept(p)
          /\ UNCHANGED <<call, view, reply, acked, entry, durable>>
          /\ fd'[p] = Len(disk') /\ temps' = temps \cup {Len(disk')}
      BY <1>3 DEF CreateTemporary, Goto, OthersKept
    <2>5. FilesOK' /\ Visible' = Visible
      BY <1>3, TemporarySteps
    <2>6. LoaderOK(p)' /\ StagerOK(p)'
      BY <1>1, <1>2, <2>1, <2>5 DEF LoaderOK, StagerOK, IsAppend, Merged, WritingSteps
    <2>7. QED
      BY <1>2, <2>1, <2>5, <2>6, HolderStep
  <1>4. CASE WriteTemporary(p) \/ SyncTemporary(p)
    <2>1. /\ pc[p] \in {"write", "fsync"} /\ OthersKept(p)
          /\ pc'[p] = IF pc[p] = "write" THEN "fsync" ELSE "replace"
          /\ UNCHANGED <<call, view, reply, acked, entry, durable, temps, fd>>
      BY <1>4 DEF WriteTemporary, SyncTemporary, Goto, OthersKept, localVars
    <2>2. fd[p] \in temps /\ fd[p] \notin durable /\ fd[p] \in DOMAIN disk
      BY <1>1, <2>1 DEF StagerOK, FilesOK
    <2>5. FilesOK' /\ Visible' = Visible
      BY <1>4, TemporarySteps
    <2>6. /\ disk'[fd[p]].format = "chained" /\ disk'[fd[p]].records = Merged(p)
          /\ pc'[p] = "replace" => disk'[fd[p]].synced
      <3>1. CASE WriteTemporary(p)
        <4>1. pc'[p] = "fsync"
          BY <3>1 DEF WriteTemporary, Goto
        <4>2. disk'[fd[p]] = [format |-> "chained", records |-> Merged(p), synced |-> FALSE]
          BY <2>2, <3>1 DEF WriteTemporary
        <4>3. QED
          BY <4>1, <4>2
      <3>2. CASE SyncTemporary(p)
        <4>1. pc[p] = "fsync"
          BY <3>2 DEF SyncTemporary
        <4>2. disk[fd[p]] \in File
          BY <2>2
        <4>3. disk'[fd[p]] = [disk[fd[p]] EXCEPT !.synced = TRUE]
          BY <2>2, <3>2 DEF SyncTemporary
        <4>4. disk[fd[p]].format = "chained" /\ disk[fd[p]].records = Merged(p)
          BY <1>1, <4>1 DEF StagerOK
        <4>5. QED
          BY <4>2, <4>3, <4>4 DEF File
      <3>3. QED
        BY <1>4, <3>1, <3>2
    <2>7. LoaderOK(p)' /\ StagerOK(p)'
      BY <1>1, <1>2, <2>1, <2>2, <2>5, <2>6 DEF LoaderOK, StagerOK, IsAppend, Merged,
                                               WritingSteps
    <2>8. QED
      BY <1>2, <2>1, <2>5, <2>7, HolderStep
  <1>5. CASE Replace(p)
    <2>1. /\ pc[p] = "replace" /\ pc'[p] = "dirsync" /\ OthersKept(p)
          /\ UNCHANGED <<disk, call, view, reply, acked, fd>>
          /\ entry' = fd[p] /\ durable' = durable \cup {fd[p]}
          /\ temps' = temps \ {fd[p]}
      BY <1>5 DEF Replace, Goto, OthersKept, localVars
    <2>2. /\ Visible' = Merged(p) /\ Visible \subseteq Merged(p)
          /\ Loadable(disk[fd[p]]) /\ disk[fd[p]].synced
          /\ RecordsOf(fd[p]) = Merged(p)
      BY <1>5, ReplaceStep
    <2>6. acked \subseteq Visible
      BY <1>1 DEF FilesOK, Visible
    <2>7. FilesOK'
      BY <1>1, <2>1, <2>2, <2>6 DEF FilesOK, RecordsOf
    <2>8. LoaderOK(p)' /\ StagerOK(p)'
      BY <1>1, <1>2, <2>1, <2>2 DEF LoaderOK, StagerOK, IsAppend, Merged, WritingSteps
    <2>9. QED
      BY <1>2, <2>1, <2>7, <2>8, HolderStep
  <1>6. CASE SyncDirectory(p)
    <2>1. /\ pc[p] = "dirsync" /\ pc'[p] = "close" /\ reply'[p] = "ok" /\ OthersKept(p)
          /\ UNCHANGED <<disk, entry, temps, acked, call, view>>
          /\ durable' = {entry}
      BY <1>6 DEF SyncDirectory, Unwind, OthersKept
    <2>2. FilesOK'
      BY <1>1, <2>1 DEF FilesOK, Visible, RecordsOf
    <2>3. Accepted(p) \subseteq Visible
      BY <1>1, <2>1 DEF StagerOK, Merged, Accepted
    <2>4. LoaderOK(p)' /\ StagerOK(p)'
      BY <1>2, <2>1, <2>3 DEF LoaderOK, StagerOK, Visible, RecordsOf, Accepted, WritingSteps
    <2>5. QED
      BY <1>2, <2>1, <2>2, <2>4, HolderStep
  <1>7. CASE CloseLock(p)
    <2>1. /\ pc[p] = "close" /\ pc'[p] = "idle" /\ call'[p] = NoCall /\ OthersKept(p)
          /\ UNCHANGED <<disk, entry, durable, temps, reply>>
      BY <1>7 DEF CloseLock, Goto, ClearLocals, OthersKept, fsVars
    <2>2. \A i \in durable : acked' \subseteq RecordsOf(i)
      BY <1>1, <1>7, <2>1 DEF CloseLock, FilesOK, StagerOK
    <2>3. FilesOK'
      BY <1>1, <2>1, <2>2 DEF FilesOK, Visible, RecordsOf
    <2>4. LoaderOK(p)' /\ StagerOK(p)'
      BY <2>1, IdleClaimsNothing DEF NoCall
    <2>5. QED
      BY <1>2, <2>1, <2>3, <2>4, HolderStep
  <1>8. QED
    BY <1>3, <1>4, <1>5, <1>6, <1>7 DEF WriteStep

LEMMA FaultCommits ==
  ASSUME SafeInv, NEW p \in Process, Fault(p)
  PROVE  CommitInv'
  <1> USE DEF SafeInv, TypeInv, TypeOK
  <1>1. CASE LockUnavailable(p)
    BY <1>1, ReturnCommits DEF LockUnavailable
  <1>2. CASE ReadFault(p)
    BY <1>2, FinishCommits DEF ReadFault
  <1>3. CASE WriteFault(p) \/ CleanupFault(p) \/ InstalledFault(p)
    <2>1. FilesOK /\ IsAppend(p) /\ Holding(p)
      BY <1>3 DEF CommitInv, LockInv, Holding, WriteFault, CleanupFault, InstalledFault,
                  WritingSteps
    <2>2. /\ pc'[p] = "close" /\ reply'[p] = "failed" /\ OthersKept(p)
          /\ UNCHANGED <<disk, entry, durable, acked, call>>
          /\ temps' \subseteq temps
      BY <1>3 DEF WriteFault, CleanupFault, InstalledFault, Unwind, OthersKept, fsVars
    <2>3. FilesOK'
      BY <2>1, <2>2 DEF FilesOK, Visible, RecordsOf
    <2>4. LoaderOK(p)' /\ StagerOK(p)'
      BY <2>2 DEF LoaderOK, StagerOK, WritingSteps
    <2>5. QED
      BY <2>1, <2>2, <2>3, <2>4, HolderStep
  <1>4. CASE CreateFault(p)
    <2>1. Holding(p)
      BY <1>4 DEF LockInv, Holding, CreateFault, WritingSteps
    <2>2. /\ pc'[p] = "close" /\ reply'[p] = "failed" /\ OthersKept(p)
          /\ FilesOK'
      BY <1>4, TemporarySteps DEF CreateFault, Unwind, OthersKept
    <2>3. LoaderOK(p)' /\ StagerOK(p)'
      BY <2>2 DEF LoaderOK, StagerOK, WritingSteps
    <2>4. QED
      BY <2>1, <2>2, <2>3, HolderStep
  <1>5. CASE CloseFault(p)
    <2>1. /\ pc'[p] = "idle" /\ call'[p] = NoCall /\ OthersKept(p)
          /\ UNCHANGED <<fsVars, acked>>
      BY <1>5 DEF CloseFault, Goto, ClearLocals, OthersKept
    <2>2. LoaderOK(p)' /\ StagerOK(p)'
      BY <2>1, IdleClaimsNothing DEF NoCall
    <2>3. QED
      BY <2>1, <2>2, QuietStep
  <1>6. QED
    BY <1>1, <1>2, <1>3, <1>4, <1>5 DEF Fault

LEMMA CrashCommits ==
  ASSUME SafeInv, PowerLoss \/ (\E p \in Process : ProcessDeath(p))
  PROVE  CommitInv'
  <1> USE DEF SafeInv, TypeInv, TypeOK
  <1>1. ASSUME NEW p \in Process, ProcessDeath(p) PROVE CommitInv'
    <2>1. /\ pc'[p] = "idle" /\ call'[p] = NoCall /\ OthersKept(p)
          /\ UNCHANGED <<fsVars, acked>>
      BY <1>1 DEF ProcessDeath, Goto, ClearLocals, OthersKept
    <2>2. LoaderOK(p)' /\ StagerOK(p)'
      BY <2>1, IdleClaimsNothing DEF NoCall
    <2>3. QED
      BY <2>1, <2>2, QuietStep
  <1>2. CASE PowerLoss
    <2>1. FilesOK
      BY DEF CommitInv
    <2>2. PICK i \in durable : entry' = i /\ durable' = {i}
      BY <1>2 DEF PowerLoss
    <2>3. i # Absent => i \in DOMAIN disk /\ disk[i].synced
      BY <2>1 DEF FilesOK, Absent
    <2>4. i # Absent => disk'[i] = disk[i]
      BY <1>2, <2>3 DEF PowerLoss
    <2>5. RecordsOf(i)' = RecordsOf(i)
      BY <2>4 DEF RecordsOf
    <2>6. FilesOK'
      BY <1>2, <2>1, <2>2, <2>4, <2>5 DEF FilesOK, Visible, PowerLoss
    <2>7. ASSUME NEW q \in Process PROVE LoaderOK(q)' /\ StagerOK(q)'
      BY <1>2, <2>7, IdleClaimsNothing DEF PowerLoss, NoCall
    <2>8. QED
      BY <2>6, <2>7 DEF CommitInv
  <1>3. QED
    BY <1>1, <1>2

LEMMA StepCommits == SafeInv /\ [Next]_vars => CommitInv'
  <1> SUFFICES ASSUME SafeInv, [Next]_vars PROVE CommitInv'
    OBVIOUS
  <1>1. ASSUME NEW p \in Process, Request(p) \/ Proceed(p) \/ Fault(p) PROVE CommitInv'
    BY <1>1, RequestCommits, LoadCommits, DecideCommits, WriteCommits, FaultCommits
       DEF Proceed
  <1>2. CASE PowerLoss \/ \E p \in Process : ProcessDeath(p)
    BY <1>2, CrashCommits
  <1>3. CASE UNCHANGED vars
    <2> USE <1>3 DEF vars, fsVars, localVars
    <2>1. FilesOK'
      BY DEF SafeInv, CommitInv, FilesOK, Visible, RecordsOf
    <2>2. ASSUME NEW p \in Process PROVE LoaderOK(p)' /\ StagerOK(p)'
      <3>1. LoaderOK(p) /\ StagerOK(p)
        BY DEF SafeInv, CommitInv
      <3>2. LoaderOK(p)'
        BY <3>1 DEF LoaderOK, Holding, IsAppend, Visible, RecordsOf
      <3>3. StagerOK(p)'
        BY <3>1 DEF StagerOK, Merged, Accepted, Visible, RecordsOf
      <3>4. QED
        BY <3>2, <3>3
    <2>3. QED
      BY <2>1, <2>2 DEF CommitInv
  <1>4. QED
    BY <1>1, <1>2, <1>3 DEF Next

LEMMA AlwaysSafe == Spec => []SafeInv
  <1>1. Init => SafeInv
    BY InitTyped, InitLocked, InitCommits DEF SafeInv
  <1>2. SafeInv /\ [Next]_vars => SafeInv'
    BY StepTyped, StepLocked, StepCommits DEF SafeInv
  <1>3. QED
    BY <1>1, <1>2, PTL DEF Spec
-----------------------------------------------------------------------------
(* Theorems.                                                               *)

\* An appender merges into the history that is still there when it installs
\* the result: no commit is lost between its reload and its os.replace.
THEOREM NoLostCommit == Spec => []StagedOnVisibleHistory
  <1>1. SafeInv => StagedOnVisibleHistory
    BY DEF SafeInv, LockInv, CommitInv, LoaderOK, StagedOnVisibleHistory, Holding,
           WritingSteps
  <1>2. QED
    BY <1>1, AlwaysSafe, PTL

\* Whatever events.jsonl names, now or after a power failure at any step of
\* atomic_write_text, is complete, synced, and accepted by _load_state.
THEOREM CrashSafe == Spec => []DurableFilesLoadable
  <1>1. SafeInv => DurableFilesLoadable
    BY DEF SafeInv, CommitInv, FilesOK, DurableFilesLoadable
  <1>2. QED
    BY <1>1, AlwaysSafe, PTL

\* A record that append() counted is in the archive ever after, crashes included.
THEOREM AckedDurable == Spec => []AckedSurvives
  <1>1. SafeInv => AckedSurvives
    BY DEF SafeInv, CommitInv, FilesOK, AckedSurvives
  <1>2. QED
    BY <1>1, AlwaysSafe, PTL

\* append() never takes its own reload for a changed or hard-linked file.
THEOREM LockedLoadsSucceed == Spec => []LockedLoadAccepted
  <1>1. SafeInv => LockedLoadAccepted
    BY DEF SafeInv, CommitInv, LoaderOK, LockedLoadAccepted, Holding
  <1>2. QED
    BY <1>1, AlwaysSafe, PTL

\* A step of a process shows the same history, or the merge it installs.
LEMMA VisibleStep ==
  ASSUME SafeInv, NEW p \in Process, Request(p) \/ Proceed(p) \/ Fault(p) \/ ProcessDeath(p)
  PROVE  Visible' = Visible \/ Replace(p)
  <1>1. CASE \/ CreateTemporary(p) \/ CreateFault(p)
             \/ WriteTemporary(p) \/ SyncTemporary(p)
    BY <1>1, TemporarySteps
  <1>2. CASE Request(p)
    BY <1>2 DEF Request, ReadBegin, AppendBegin, AppendAnsweredEarly, StartCall, fsVars,
                Visible, RecordsOf
  <1>3. CASE LoadStep(p)
    BY <1>3 DEF LoadStep, AcquireLock, LockTimeout, StatEvents, OpenEvents, InspectOpened,
                ReadEvents, fsVars, Visible, RecordsOf
  <1>4. CASE DecideStep(p)
    BY <1>4 DEF DecideStep, HeadRefused, ReadReturns, CollisionRefused, NothingNew,
                LimitRefused, Stage, fsVars, Visible, RecordsOf
  <1>5. CASE \/ SyncDirectory(p) \/ CloseLock(p) \/ ProcessDeath(p)
             \/ Fault(p) /\ ~CreateFault(p)
    BY <1>5 DEF SyncDirectory, CloseLock, Fault, LockUnavailable, ReadFault, WriteFault,
                CleanupFault, InstalledFault, CloseFault, ProcessDeath, fsVars, Visible, RecordsOf
  <1>6. QED
    BY <1>1, <1>2, <1>3, <1>4, <1>5 DEF Proceed, WriteStep

\* Nothing but a power failure takes a record out of the visible history.
THEOREM AppendOnly == Spec => HistoryGrows
  <1>1. SafeInv /\ [Next]_vars => [PowerLoss \/ Visible \subseteq Visible']_vars
    <2> SUFFICES ASSUME SafeInv, Next, ~PowerLoss PROVE Visible \subseteq Visible'
      OBVIOUS
    <2>1. PICK p \in Process : Request(p) \/ Proceed(p) \/ Fault(p) \/ ProcessDeath(p)
      BY DEF Next
    <2>2. QED
      BY <2>1, VisibleStep, ReplaceStep
  <1>2. QED
    BY <1>1, AlwaysSafe, PTL DEF Spec, HistoryGrows

\* The step to "dirsync" of a writer is its replacement.
LEMMA OnlyReplaceInstalls ==
  ASSUME SafeInv, NEW p \in Process, pc[p] = "replace", pc'[p] = "dirsync", Next
  PROVE  Replace(p)
  <1> USE DEF SafeInv, TypeInv, TypeOK
  <1>1. ~PowerLoss
    BY DEF PowerLoss
  <1>2. PICK q \in Process : Request(q) \/ Proceed(q) \/ Fault(q) \/ ProcessDeath(q)
    BY <1>1 DEF Next
  <1>3. ~Request(q)
    BY DEF Request, ReadBegin, AppendBegin, AppendAnsweredEarly, StartCall, Return, Goto
  <1>4. ~LoadStep(q)
    BY DEF LoadStep, AcquireLock, LockTimeout, StatEvents, OpenEvents, InspectOpened,
           ReadEvents, RetryOpen, LoadedAbsent, Finish, Unwind, Return, Goto
  <1>5. ~DecideStep(q)
    BY DEF DecideStep, HeadRefused, ReadReturns, CollisionRefused, NothingNew,
           LimitRefused, Stage, Finish, Unwind, Return, Goto
  <1>6. ~Fault(q)
    BY DEF Fault, LockUnavailable, ReadFault, WriteFault, CreateFault, CleanupFault,
           InstalledFault, CloseFault, Finish, Unwind, Return, Goto
  <1>7. ~ProcessDeath(q)
    BY DEF ProcessDeath, Goto
  <1>8. WriteStep(q) => Replace(p)
    BY DEF WriteStep, CreateTemporary, WriteTemporary, SyncTemporary, Replace,
           SyncDirectory, CloseLock, Unwind, Goto
  <1>9. QED
    BY <1>2, <1>3, <1>4, <1>5, <1>6, <1>7, <1>8 DEF Proceed

\* An append with an expected head installs its merge only while the archive
\* is exactly the history of that head: a stale anchor never commits.
THEOREM AnchoredCommits == Spec => CommitsOnExpectedHead
  <1>1. ASSUME SafeInv, Next, NEW p \in Process, pc[p] = "replace", pc'[p] = "dirsync",
               call[p].expected # NoHead
        PROVE  Visible = call[p].expected
    <2>1. HeadAccepted(view[p], call[p].expected) /\ view[p].records = Visible
      BY <1>1, OnlyReplaceInstalls, ReplaceStep
    <2>2. ChainHead(view[p]) = call[p].expected
      BY <1>1, <2>1 DEF HeadAccepted
    <2>3. QED
      BY <1>1, <2>1, <2>2 DEF ChainHead
  <1>2. SafeInv /\ [Next]_vars =>
          [\A p \in Process :
             (pc[p] = "replace" /\ pc'[p] = "dirsync" /\ call[p].expected # NoHead)
               => Visible = call[p].expected]_vars
    BY <1>1
  <1>3. QED
    BY <1>2, AlwaysSafe, PTL DEF Spec, CommitsOnExpectedHead

\* The step from reading to "check" finds no file at every try, or has read it.
LEMMA OnlyReadsLoad ==
  ASSUME SafeInv, NEW p \in Process, pc[p] \in ReadingSteps, pc'[p] = "check", Next
  PROVE  (entry = Absent /\ LoadedAbsent(p)) \/ (ReadEvents(p) /\ pc'[p] = "check")
  <1> USE DEF SafeInv, TypeInv, TypeOK, ReadingSteps
  <1>1. ~PowerLoss
    BY DEF PowerLoss
  <1>2. PICK q \in Process : Request(q) \/ Proceed(q) \/ Fault(q) \/ ProcessDeath(q)
    BY <1>1 DEF Next
  <1>3. ~Request(q)
    BY DEF Request, ReadBegin, AppendBegin, AppendAnsweredEarly, StartCall, Return, Goto
  <1>4. ASSUME LoadStep(q)
        PROVE  (entry = Absent /\ LoadedAbsent(p)) \/ ReadEvents(p)
    <2>1. ~AcquireLock(q) /\ ~LockTimeout(q) /\ ~OpenEvents(q) /\ ~InspectOpened(q)
      BY DEF AcquireLock, LockTimeout, OpenEvents, InspectOpened, RetryOpen, Finish, Unwind,
             Return, Goto
    <2>2. CASE ReadEvents(q)
      BY <2>2 DEF ReadEvents, Finish, Unwind, Return, Goto
    <2>3. CASE StatEvents(q)
      <3>1. q = p
        BY <2>3 DEF StatEvents, RetryOpen, LoadedAbsent, Finish, Unwind, Return, Goto
      <3>2. QED
        BY <2>3, <3>1 DEF StatEvents, RetryOpen, Finish, Unwind, Return, Goto
    <2>4. QED
      BY <1>4, <2>1, <2>2, <2>3 DEF LoadStep
  <1>5. ~DecideStep(q)
    BY DEF DecideStep, HeadRefused, ReadReturns, CollisionRefused, NothingNew,
           LimitRefused, Stage, Finish, Unwind, Return, Goto
  <1>6. ~Fault(q)
    BY DEF Fault, LockUnavailable, ReadFault, WriteFault, CreateFault, CleanupFault,
           InstalledFault, CloseFault, Finish, Unwind, Return, Goto
  <1>7. ~ProcessDeath(q)
    BY DEF ProcessDeath, Goto
  <1>8. ~WriteStep(q)
    BY DEF WriteStep, CreateTemporary, WriteTemporary, SyncTemporary, Replace,
           SyncDirectory, CloseLock, Unwind, Goto
  <1>9. QED
    BY <1>2, <1>3, <1>4, <1>5, <1>6, <1>7, <1>8 DEF Proceed

\* A load that succeeds, with the lock or without it, has the history that was
\* visible in the step that ended it: never a mixture, never an older one.
THEOREM LoadsAreCurrent == Spec => LoadsVisibleHistory
  <1>1. ASSUME SafeInv, Next, NEW p \in Process, pc[p] \in ReadingSteps, pc'[p] = "check"
        PROVE  view'[p].records = Visible
    <2>1. view \in [Process -> State]
      BY <1>1 DEF SafeInv, TypeInv, TypeOK
    <2>2. CASE entry = Absent /\ LoadedAbsent(p)
      BY <2>1, <2>2 DEF LoadedAbsent, Visible, RecordsOf, Genesis
    <2>3. CASE ReadEvents(p)
      <3>1. pc[p] = "read" /\ fd[p] # Absent
        BY <1>1, <2>3 DEF ReadEvents, SafeInv, TypeInv, OpenOK
      <3>2. fd[p] = entry /\ view' = [view EXCEPT ![p] = StateOf(disk[fd[p]])]
        BY <1>1, <2>3 DEF ReadEvents, Finish, Unwind, Return, SafeInv, TypeInv, TypeOK
      <3>3. QED
        BY <2>1, <3>1, <3>2 DEF StateOf, Visible, RecordsOf
    <2>4. QED
      BY <1>1, <2>2, <2>3, OnlyReadsLoad
  <1>2. SafeInv /\ [Next]_vars =>
          [\A p \in Process :
             (pc[p] \in ReadingSteps /\ pc'[p] = "check") => view'[p].records = Visible]_vars
    BY <1>1
  <1>3. QED
    BY <1>2, AlwaysSafe, PTL DEF Spec, LoadsVisibleHistory
-----------------------------------------------------------------------------
(* Temporary files.                                                        *)

\* A process knows a temporary file only from its creation to its replacement,
\* or until it returns from a cleanup that failed.
Keeping == {"write", "fsync", "replace", "close"}

TemporaryInv == \A p \in Process : fd[p] \in temps => pc[p] \in Keeping

AccountInv == TemporaryInv /\ TemporariesAccountedFor

\* A step of a process leaves the calls of the others alone.
LEMMA StepIsLocal ==
  ASSUME SafeInv, NEW p \in Process, Request(p) \/ Proceed(p) \/ Fault(p) \/ ProcessDeath(p)
  PROVE  OthersKept(p)
  <1> USE DEF SafeInv, TypeInv, TypeOK, OthersKept, Goto, Finish, Unwind, Return, ClearLocals,
              localVars
  <1>1. CASE Request(p)
    BY <1>1 DEF Request, ReadBegin, AppendBegin, AppendAnsweredEarly, StartCall
  <1>2. CASE LoadStep(p)
    BY <1>2 DEF LoadStep, AcquireLock, LockTimeout, StatEvents, OpenEvents, InspectOpened,
                ReadEvents, RetryOpen, LoadedAbsent
  <1>3. CASE DecideStep(p)
    BY <1>3 DEF DecideStep, HeadRefused, ReadReturns, CollisionRefused, NothingNew,
                LimitRefused, Stage
  <1>4. CASE WriteStep(p)
    BY <1>4 DEF WriteStep, CreateTemporary, WriteTemporary, SyncTemporary, Replace,
                SyncDirectory, CloseLock
  <1>5. CASE Fault(p) \/ ProcessDeath(p)
    BY <1>5 DEF Fault, LockUnavailable, ReadFault, WriteFault, CreateFault,
                CleanupFault, InstalledFault, CloseFault, ProcessDeath
  <1>6. QED
    BY <1>1, <1>2, <1>3, <1>4, <1>5 DEF Proceed

\* What a process has not to answer for: a step that creates no temporary but
\* the one it opens, and abandons none, strands none.
LEMMA NothingStranded ==
  ASSUME NEW p \in Process, OthersKept(p),
         \A i \in temps' \ temps : pc'[p] \in WritingSteps /\ fd'[p] = i,
         pc[p] \in WritingSteps /\ fd[p] \in temps' =>
             pc'[p] \in WritingSteps /\ fd'[p] = fd[p]
  PROVE  StrandedTemporaries' \subseteq StrandedTemporaries
  <1> SUFFICES ASSUME NEW i \in temps',
                      \A q \in Process : pc'[q] \in WritingSteps => fd'[q] # i
               PROVE  i \in temps /\ \A q \in Process : pc[q] \in WritingSteps => fd[q] # i
    BY DEF StrandedTemporaries
  <1>1. i \in temps
    OBVIOUS
  <1>2. ASSUME NEW q \in Process, pc[q] \in WritingSteps, fd[q] = i PROVE FALSE
    <2>1. CASE q = p
      BY <1>2, <2>1
    <2>2. CASE q # p
      BY <1>2, <2>2 DEF OthersKept
    <2>3. QED
      BY <2>1, <2>2
  <1>3. QED
    BY <1>1, <1>2

\* The others keep their descriptors; a temporary is created past all of them.
LEMMA TemporariesKept ==
  ASSUME TemporaryInv, NEW p \in Process, OthersKept(p),
         \A q \in Process \ {p} : fd[q] \in temps' => fd[q] \in temps,
         fd'[p] \in temps' => pc'[p] \in Keeping
  PROVE  TemporaryInv'
  BY DEF TemporaryInv, OthersKept

\* Steps that touch no temporary file.
LEMMA UntouchedTemporaries ==
  ASSUME SafeInv, TemporaryInv, NEW p \in Process,
         \/ Request(p) \/ LoadStep(p) \/ DecideStep(p)
         \/ SyncDirectory(p) \/ CloseLock(p)
         \/ LockUnavailable(p) \/ ReadFault(p) \/ InstalledFault(p) \/ CloseFault(p)
  PROVE  /\ temps' = temps /\ pc[p] \notin WritingSteps
         /\ fd'[p] \in {fd[p], entry, Absent}
         /\ pc[p] = "close" => fd'[p] = Absent
  <1> USE DEF SafeInv, TypeInv, TypeOK, WritingSteps, Goto, Finish, Unwind, Return,
              ClearLocals, localVars, fsVars
  <1>1. CASE Request(p)
    BY <1>1 DEF Request, ReadBegin, AppendBegin, AppendAnsweredEarly, StartCall
  <1>2. CASE LoadStep(p)
    BY <1>2 DEF LoadStep, AcquireLock, LockTimeout, StatEvents, OpenEvents, InspectOpened,
                ReadEvents, RetryOpen, LoadedAbsent
  <1>3. CASE DecideStep(p)
    BY <1>3 DEF DecideStep, HeadRefused, ReadReturns, CollisionRefused, NothingNew,
                LimitRefused, Stage
  <1>4. CASE SyncDirectory(p) \/ CloseLock(p)
    BY <1>4 DEF SyncDirectory, CloseLock
  <1>5. CASE LockUnavailable(p) \/ ReadFault(p) \/ InstalledFault(p) \/ CloseFault(p)
    BY <1>5 DEF LockUnavailable, ReadFault, ReadingSteps, InstalledFault, CloseFault
  <1>6. QED
    BY <1>1, <1>2, <1>3, <1>4, <1>5

\* While the calls go on, and clean up what fails, no temporary is stranded.
LEMMA CallsStrandNothing ==
  ASSUME SafeInv, TemporaryInv, NEW p \in Process,
         Request(p) \/ Proceed(p) \/ (Fault(p) /\ ~CreateFault(p) /\ ~CleanupFault(p))
  PROVE  TemporaryInv' /\ StrandedTemporaries' \subseteq StrandedTemporaries
  <1> USE DEF SafeInv, TypeInv, TypeOK
  <1>1. OthersKept(p)
    BY StepIsLocal
  <1>2. entry \notin temps /\ Absent \notin temps
    BY DEF CommitInv, FilesOK, Absent
  <1>3. fd[p] \in temps => pc[p] \in Keeping
    BY DEF TemporaryInv
  <1>4. CASE \/ Request(p) \/ LoadStep(p) \/ DecideStep(p)
             \/ SyncDirectory(p) \/ CloseLock(p)
             \/ LockUnavailable(p) \/ ReadFault(p) \/ InstalledFault(p) \/ CloseFault(p)
    <2>1. /\ temps' = temps /\ pc[p] \notin WritingSteps
          /\ fd'[p] \in {fd[p], entry, Absent}
          /\ pc[p] = "close" => fd'[p] = Absent
      BY <1>4, UntouchedTemporaries
    <2>2. fd'[p] \notin temps'
      BY <1>2, <1>3, <2>1 DEF WritingSteps, Keeping
    <2>3. QED
      BY <1>1, <2>1, <2>2, NothingStranded, TemporariesKept
  <1>5. CASE CreateTemporary(p)
    <2>1. /\ temps' = temps \cup {Len(disk) + 1}
          /\ fd'[p] = Len(disk) + 1 /\ pc'[p] = "write" /\ pc[p] = "create"
      BY <1>5 DEF CreateTemporary, Goto
    <2>2. \A q \in Process : fd[q] # Len(disk) + 1
      <3>1. Len(disk) \in Nat
        OBVIOUS
      <3>2. QED
        BY <3>1
    <2>3. TemporaryInv'
      BY <1>1, <2>1, <2>2, TemporariesKept DEF Keeping
    <2>4. fd[p] \notin temps'
      BY <1>3, <2>1, <2>2 DEF Keeping
    <2>5. QED
      BY <1>1, <2>1, <2>3, <2>4, NothingStranded DEF WritingSteps
  <1>6. CASE WriteTemporary(p) \/ SyncTemporary(p)
    <2>1. temps' = temps /\ fd' = fd /\ pc'[p] \in {"fsync", "replace"}
      BY <1>6 DEF WriteTemporary, SyncTemporary, Goto, localVars
    <2>2. QED
      BY <1>1, <2>1, NothingStranded, TemporariesKept DEF WritingSteps, Keeping
  <1>7. CASE Replace(p) \/ WriteFault(p)
    <2>1. /\ temps' \subseteq temps /\ fd' = fd
          /\ fd[p] \notin temps'
      BY <1>3, <1>7 DEF Replace, WriteFault, Unwind, localVars, Keeping
    <2>2. QED
      BY <1>1, <2>1, NothingStranded, TemporariesKept
  <1>8. QED
    BY <1>4, <1>5, <1>6, <1>7 DEF Proceed, WriteStep, Fault

\* A crash strands the temporary of at most one process: an interrupted or
\* killed one, one whose cleanup fails, or the one writer that the lock admits.
LEMMA CrashesStrandOne ==
  ASSUME SafeInv, TemporaryInv,
         \/ PowerLoss
         \/ \E p \in Process : ProcessDeath(p) \/ CreateFault(p) \/ CleanupFault(p)
  PROVE  /\ TemporaryInv'
         /\ crashes' = crashes + 1
         /\ \E t : StrandedTemporaries' \subseteq StrandedTemporaries \cup {t}
  <1> USE DEF SafeInv, TypeInv, TypeOK
  <1>1. ASSUME NEW p \in Process, ProcessDeath(p)
        PROVE  TemporaryInv' /\ StrandedTemporaries' \subseteq StrandedTemporaries \cup {fd[p]}
    <2>1. OthersKept(p)
      BY <1>1, StepIsLocal
    <2>2. temps' = temps /\ fd'[p] = Absent /\ Absent \notin temps
      BY <1>1 DEF ProcessDeath, ClearLocals, fsVars, Absent
    <2>3. QED
      BY <2>1, <2>2, TemporariesKept DEF StrandedTemporaries, OthersKept
  <1>2. ASSUME NEW p \in Process, CreateFault(p)
        PROVE  /\ TemporaryInv'
               /\ StrandedTemporaries' \subseteq StrandedTemporaries \cup {Len(disk) + 1}
    <2>1. OthersKept(p)
      BY <1>2, StepIsLocal DEF Fault
    <2>2. /\ temps' = temps \cup {Len(disk) + 1} /\ fd' = fd
          /\ pc[p] = "create"
      BY <1>2 DEF CreateFault, Unwind
    <2>3. \A q \in Process : fd[q] # Len(disk) + 1
      <3>1. Len(disk) \in Nat
        OBVIOUS
      <3>2. QED
        BY <3>1
    <2>4. fd[p] \notin temps
      BY <2>2 DEF TemporaryInv, Keeping
    <2>5. QED
      BY <2>1, <2>2, <2>3, <2>4, TemporariesKept DEF StrandedTemporaries, OthersKept
  <1>3. ASSUME PowerLoss
        PROVE  /\ TemporaryInv'
               /\ \E t : StrandedTemporaries' \subseteq StrandedTemporaries \cup {t}
    <2>1. temps' = temps /\ Absent \notin temps /\ \A p \in Process : fd'[p] = Absent
      BY <1>3 DEF PowerLoss, Absent
    <2>2. \A p, q \in Process :
             pc[p] \in WritingSteps /\ pc[q] \in WritingSteps => p = q
      BY DEF LockInv, OneWriter, Holding, WritingSteps
    <2>3. CASE \E p \in Process : pc[p] \in WritingSteps
      <3>1. PICK p \in Process : pc[p] \in WritingSteps
        BY <2>3
      <3>2. StrandedTemporaries' \subseteq StrandedTemporaries \cup {fd[p]}
        BY <2>1, <2>2, <3>1 DEF StrandedTemporaries
      <3>3. QED
        BY <2>1, <3>2 DEF TemporaryInv
    <2>4. CASE \A p \in Process : pc[p] \notin WritingSteps
      BY <2>1, <2>4 DEF StrandedTemporaries, TemporaryInv
    <2>5. QED
      BY <2>3, <2>4
  <1>4. ASSUME NEW p \in Process, CleanupFault(p)
        PROVE  TemporaryInv' /\ StrandedTemporaries' \subseteq StrandedTemporaries \cup {fd[p]}
    <2>1. OthersKept(p)
      BY <1>4, StepIsLocal DEF Fault
    <2>2. temps' = temps /\ fd' = fd /\ pc'[p] = "close"
      BY <1>4 DEF CleanupFault, Unwind, fsVars
    <2>3. TemporaryInv'
      BY <2>1, <2>2, TemporariesKept DEF Keeping
    <2>4. QED
      BY <2>1, <2>2, <2>3 DEF StrandedTemporaries, OthersKept
  <1>5. crashes' = crashes + 1
    BY DEF ProcessDeath, CreateFault, CleanupFault, PowerLoss
  <1>6. QED
    BY <1>1, <1>2, <1>3, <1>4, <1>5

LEMMA StrandedFinite == TypeOK => IsFiniteSet(StrandedTemporaries)
  <1> SUFFICES ASSUME TypeOK PROVE IsFiniteSet(StrandedTemporaries)
    OBVIOUS
  <1>1. Len(disk) \in Nat /\ StrandedTemporaries \in SUBSET (1..Len(disk))
    <2>1. disk \in Seq(File) /\ temps \subseteq 1..Len(disk)
      BY DEF TypeOK
    <2>2. Len(disk) \in Nat
      BY <2>1
    <2>3. StrandedTemporaries \in SUBSET temps
      BY DEF StrandedTemporaries
    <2>4. QED
      BY <2>1, <2>2, <2>3
  <1>2. IsFiniteSet(1..Len(disk))
    BY <1>1, FS_Interval
  <1>3. QED
    BY <1>1, <1>2, FS_Subset

\* One more element at the most, one more in number at the most.
LEMMA CountedOnce ==
  ASSUME NEW S, IsFiniteSet(S), NEW t, NEW T \in SUBSET (S \cup {t})
  PROVE  Cardinality(T) <= Cardinality(S) + 1
  <1>1. Cardinality(S) \in Nat
    BY FS_CardinalityType
  <1>2. IsFiniteSet(S \cup {t}) /\ Cardinality(S \cup {t}) \in {Cardinality(S), Cardinality(S) + 1}
    BY FS_AddElement
  <1>3. IsFiniteSet(T) /\ Cardinality(T) <= Cardinality(S \cup {t})
    BY <1>2, FS_Subset
  <1>4. Cardinality(T) \in Nat
    BY <1>3, FS_CardinalityType
  <1>5. QED
    BY <1>1, <1>2, <1>3, <1>4

LEMMA StepAccounted == SafeInv /\ AccountInv /\ [Next]_vars => AccountInv'
  <1> SUFFICES ASSUME SafeInv, AccountInv, [Next]_vars PROVE AccountInv'
    OBVIOUS
  <1>1. IsFiniteSet(StrandedTemporaries) /\ Cardinality(StrandedTemporaries) \in Nat
    BY StrandedFinite, FS_CardinalityType DEF SafeInv, TypeInv
  <1>2. Cardinality(StrandedTemporaries) <= crashes /\ crashes \in Nat
    BY DEF AccountInv, TemporariesAccountedFor, SafeInv, TypeInv, TypeOK
  <1>3. ASSUME TemporaryInv', StrandedTemporaries' \subseteq StrandedTemporaries,
               crashes' \in Nat, crashes <= crashes'
        PROVE  AccountInv'
    <2>1. /\ IsFiniteSet(StrandedTemporaries')
          /\ Cardinality(StrandedTemporaries') <= Cardinality(StrandedTemporaries)
      BY <1>1, <1>3, FS_Subset
    <2>2. Cardinality(StrandedTemporaries') \in Nat
      BY <2>1, FS_CardinalityType
    <2>3. Cardinality(StrandedTemporaries') <= crashes'
      BY <1>1, <1>2, <1>3, <2>1, <2>2
    <2>4. QED
      BY <1>3, <2>3 DEF AccountInv, TemporariesAccountedFor
  <1>4. ASSUME NEW p \in Process,
               Request(p) \/ Proceed(p) \/ (Fault(p) /\ ~CreateFault(p) /\ ~CleanupFault(p))
        PROVE  AccountInv'
    <2>1. crashes' = crashes
      BY <1>4 DEF Request, ReadBegin, AppendBegin, AppendAnsweredEarly, StartCall, Proceed,
             LoadStep, AcquireLock, LockTimeout, StatEvents, OpenEvents, InspectOpened,
             ReadEvents, DecideStep, HeadRefused, ReadReturns, CollisionRefused, NothingNew,
             LimitRefused, Stage, WriteStep, CreateTemporary, WriteTemporary, SyncTemporary,
             Replace, SyncDirectory, CloseLock, Fault, LockUnavailable, ReadFault, WriteFault,
             InstalledFault, CloseFault, boundVars
    <2>2. QED
      BY <1>2, <1>3, <1>4, <2>1, CallsStrandNothing DEF AccountInv
  <1>5. CASE \/ PowerLoss
             \/ \E p \in Process : ProcessDeath(p) \/ CreateFault(p) \/ CleanupFault(p)
    <2>1. /\ TemporaryInv' /\ crashes' = crashes + 1
          /\ \E t : StrandedTemporaries' \subseteq StrandedTemporaries \cup {t}
      BY <1>5, CrashesStrandOne DEF AccountInv
    <2>2. PICK t : StrandedTemporaries' \subseteq StrandedTemporaries \cup {t}
      BY <2>1
    <2>3. Cardinality(StrandedTemporaries') <= Cardinality(StrandedTemporaries) + 1
      BY <1>1, <2>2, CountedOnce
    <2>4. Cardinality(StrandedTemporaries') \in Nat
      <3>1. IsFiniteSet(StrandedTemporaries')
        BY <1>1, <2>2, FS_AddElement, FS_Subset
      <3>2. QED
        BY <3>1, FS_CardinalityType
    <2>5. QED
      BY <1>1, <1>2, <2>1, <2>3, <2>4 DEF AccountInv, TemporariesAccountedFor
  <1>6. CASE UNCHANGED vars
    <2>1. /\ TemporaryInv' /\ StrandedTemporaries' = StrandedTemporaries
          /\ crashes' = crashes
      BY <1>6 DEF vars, fsVars, localVars, boundVars, StrandedTemporaries, AccountInv,
                  TemporaryInv
    <2>2. QED
      BY <1>2, <1>3, <2>1
  <1>7. QED
    BY <1>4, <1>5, <1>6 DEF Next

\* However many processes append, fail and are killed: a .ctxc-*.tmp without a
\* writer is there for each crash, interrupt or failed cleanup at most, and for
\* nothing else.
THEOREM TemporariesAreAccountedFor == Spec => []TemporariesAccountedFor
  <1>1. Init => AccountInv
    <2> SUFFICES ASSUME Init PROVE AccountInv
      OBVIOUS
    <2>1. temps = {} /\ StrandedTemporaries = {} /\ crashes = 0
      BY DEF Init, StrandedTemporaries
    <2>2. QED
      BY <2>1, FS_EmptySet DEF AccountInv, TemporaryInv, TemporariesAccountedFor
  <1>2. AccountInv => TemporariesAccountedFor
    BY DEF AccountInv
  <1>3. QED
    BY <1>1, <1>2, AlwaysSafe, StepAccounted, PTL DEF Spec
-----------------------------------------------------------------------------
(* Refinement of AppendOnlyHistory.                                        *)

LEMMA VisibleConsistent ==
  ASSUME SafeInv
  PROVE  Visible \in SUBSET Record /\ Consistent(Visible)
  <1>1. CASE entry = Absent
    BY <1>1 DEF Visible, RecordsOf, Consistent
  <1>2. CASE entry # Absent
    <2>1. disk[entry] \in File /\ Loadable(disk[entry])
      BY <1>2 DEF SafeInv, TypeInv, TypeOK, CommitInv, FilesOK, Absent
    <2>2. QED
      BY <1>2, <2>1 DEF Visible, RecordsOf, File, Loadable
  <1>3. QED
    BY <1>1, <1>2

\* Only the end of a successful append acknowledges records.
LEMMA AckedStep ==
  ASSUME SafeInv, NEW p \in Process, Request(p) \/ Proceed(p) \/ Fault(p) \/ ProcessDeath(p)
  PROVE  acked' = acked \/ CloseLock(p)
  <1>1. CASE Request(p)
    BY <1>1 DEF Request, ReadBegin, AppendBegin, AppendAnsweredEarly, StartCall
  <1>2. CASE LoadStep(p)
    BY <1>2 DEF LoadStep, AcquireLock, LockTimeout, StatEvents, OpenEvents, InspectOpened,
                ReadEvents
  <1>3. CASE DecideStep(p)
    BY <1>3 DEF DecideStep, HeadRefused, ReadReturns, CollisionRefused, NothingNew,
                LimitRefused, Stage
  <1>4. CASE WriteStep(p)
    BY <1>4 DEF WriteStep, CreateTemporary, WriteTemporary, SyncTemporary, Replace,
                SyncDirectory
  <1>5. CASE Fault(p) \/ ProcessDeath(p)
    BY <1>5 DEF Fault, LockUnavailable, ReadFault, WriteFault, CreateFault,
                CleanupFault, InstalledFault, CloseFault, ProcessDeath
  <1>6. QED
    BY <1>1, <1>2, <1>3, <1>4, <1>5 DEF Proceed

\* Each step of the archive is a step of the append-only history, or none: a
\* replacement extends it, the end of an append confirms, a power failure loses.
LEMMA StepImplements ==
  ASSUME SafeInv, SafeInv', [Next]_vars
  PROVE  [History!Next]_(History!absVars)
  <1>1. ASSUME NEW p \in Process, Request(p) \/ Proceed(p) \/ Fault(p) \/ ProcessDeath(p)
        PROVE  [History!Next]_(History!absVars)
    <2>1. CASE Replace(p)
      <3>1. Visible \subseteq Visible' /\ acked' = acked
        BY <2>1, ReplaceStep DEF Replace
      <3>2. Visible' = Merged(p) /\ Merged(p) \in SUBSET Record
        BY <2>1, ReplaceStep DEF SafeInv, TypeInv, TypeOK, Merged, State, Call
      <3>3. Consistent(Merged(p))
        BY <2>1 DEF Replace, SafeInv, CommitInv, StagerOK, WritingSteps
      <3>4. QED
        BY <3>1, <3>2, <3>3 DEF History!Next, History!Extend, History!Consistent, Consistent
    <2>2. CASE CloseLock(p)
      <3>1. Visible' = Visible
        BY <2>2 DEF CloseLock, fsVars, Visible, RecordsOf
      <3>2. acked \subseteq acked' /\ acked' \subseteq Visible'
        BY <2>2 DEF CloseLock, SafeInv, CommitInv, FilesOK, Visible
      <3>3. QED
        BY <3>1, <3>2 DEF History!Next, History!Confirm
    <2>3. CASE ~Replace(p) /\ ~CloseLock(p)
      BY <1>1, <2>3, VisibleStep, AckedStep DEF History!absVars
    <2>4. QED
      BY <2>1, <2>2, <2>3
  <1>2. CASE PowerLoss
    <2>1. PICK i \in durable : entry' = i
      BY <1>2 DEF PowerLoss
    <2>2. i # Absent => disk'[i] = disk[i]
      BY <1>2, <2>1 DEF PowerLoss, SafeInv, TypeInv, TypeOK, CommitInv, FilesOK, Absent
    <2>3. Visible' = RecordsOf(i)
      BY <2>1, <2>2 DEF Visible, RecordsOf
    <2>4. Visible' \subseteq Visible /\ acked \subseteq Visible' /\ acked' = acked
      BY <1>2, <2>3 DEF PowerLoss, SafeInv, CommitInv, FilesOK
    <2>5. QED
      BY <2>4 DEF History!Next, History!Lose
  <1>3. CASE UNCHANGED vars
    BY <1>3 DEF vars, fsVars, Visible, RecordsOf, History!absVars
  <1>4. QED
    BY <1>1, <1>2, <1>3 DEF Next

\* The archive, with its files, its lock and its crashes, implements one
\* append-only history whose confirmed records are never lost.
THEOREM Refinement == Spec => ImplementsHistory
  <1>1. Init => History!Init
    <2> SUFFICES ASSUME Init PROVE History!Init
      OBVIOUS
    <2>1. SafeInv
      BY InitTyped, InitLocked, InitCommits DEF SafeInv
    <2>2. QED
      BY <2>1, VisibleConsistent DEF Init, History!Init, History!Consistent, Consistent
  <1>2. SafeInv /\ SafeInv' /\ [Next]_vars => [History!Next]_(History!absVars)
    BY StepImplements
  <1>3. QED
    BY <1>1, <1>2, AlwaysSafe, PTL DEF Spec, ImplementsHistory, History!Spec
=============================================================================

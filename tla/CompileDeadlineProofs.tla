------------------------ MODULE CompileDeadlineProofs ------------------------
(***************************************************************************)
(* Proofs about CompileDeadline, for any number of processes of the worker  *)
(* and for both platforms.                                                 *)
(***************************************************************************)
EXTENDS CompileDeadline, TLAPS

\* An exited or running worker that is not reaped anchors the group number.
Anchored == state[Leader] \in {"running", "dying", "zombie"}

\* From the start to the reaping the worker anchors its group, whose number
\* then is nobody else's.
AnchorInv ==
    /\ pc \in {"prepare", "spawn"} => \A p \in Proc : state[p] = "none"
    /\ pc \in Waiting \cup Signalling \cup Reaping \cup {"killDirect"} => Anchored
    /\ pc = "waitDirect" => Anchored \/ Reaped
    /\ pc = "read" => Reaped
    /\ stranger => Reaped
    /\ ~strayed

\* A cleanup that neither an exception nor a timeout has begun follows a worker
\* that was seen to have exited in time.
ClockInv ==
    /\ late => expired
    /\ pc \in Polling /\ late => lapsed
    /\ observed => state[Leader] \in {"zombie", "gone"}
    /\ (pc \in Cleanup \cup {"read"} /\ raised = "none" /\ ~timedOut) =>
         ~late /\ state[Leader] \in {"zombie", "gone"}
    /\ pc = "read" => raised = "none" /\ ~timedOut
    /\ OnlyTimelyResults

\* Nobody runs on in the group but those Linux does not let the parent signal.
Closed == \A p \in Group : state[p] = "running" => p \in foreign /\ ~darwin

\* When the leader may be reaped the group is closed, and it stays closed; the
\* last kill ends the worker where it is not refused.
ClosedInv ==
    /\ pc \in Reaping \cup {"read"} => Closed
    /\ pc = "waitDirect" /\ ~spared => state[Leader] # "running"
    /\ CleanEndLeavesNothing
    /\ WorkerDoesNotOutliveCall

DeadlineInv == TypeOK /\ AnchorInv /\ ClockInv /\ ClosedInv
-----------------------------------------------------------------------------
(* Types.                                                                  *)

LEMMA InitInv == Init => DeadlineInv
  BY DeadlineAssumption DEF Init, DeadlineInv, TypeOK, AnchorInv, ClockInv, ClosedInv,
     Proc, Steps, Waiting, Polling, Signalling, Reaping, Fallback, Cleanup, Outcomes, Reaped,
     Group,
     OnlyTimelyResults, CleanEndLeavesNothing, WorkerDoesNotOutliveCall

LEMMA WorldTyped ==
  ASSUME TypeOK, World
  PROVE  TypeOK'
  <1>1. ASSUME NEW p \in Proc, Die(p)
        PROVE  TypeOK'
    BY <1>1 DEF Die, TypeOK, traits, pastVars, parentVars
  <1>2. ASSUME NEW p \in Proc, Collected(p)
        PROVE  TypeOK'
    BY <1>2 DEF Collected, TypeOK, traits, workerVars, pastVars, parentVars
  <1>3. ASSUME NEW p \in Proc, NEW c \in Child, Spawn(p, c)
        PROVE  TypeOK'
    BY <1>3 DEF Spawn, TypeOK, Proc, traits, workerVars, pastVars, parentVars
  <1>4. ASSUME NEW c \in Child, Escape(c)
        PROVE  TypeOK'
    BY <1>4 DEF Escape, TypeOK, traits, workerVars, pastVars, parentVars
  <1>5. CASE Reuse
    BY <1>5 DEF Reuse, TypeOK, traits, workerVars, pastVars, parentVars
  <1>6. QED
    BY <1>1, <1>2, <1>3, <1>4, <1>5 DEF World

LEMMA WorkerTyped ==
  ASSUME TypeOK, Worker
  PROVE  TypeOK'
  <1>1. CASE WorkerExits
    BY <1>1 DEF WorkerExits, TypeOK, Proc, traits, pastVars, parentVars
  <1>2. CASE WorkerWrites \/ WorkerRaises \/ WorkerReports
    BY <1>2 DEF WorkerWrites, WorkerRaises, WorkerReports, WorkerStep, TypeOK, kernelVars,
       traits, pastVars, parentVars
  <1>3. QED
    BY <1>1, <1>2 DEF Worker

LEMMA ClockTyped ==
  ASSUME TypeOK, Clock
  PROVE  TypeOK'
  <1>1. expired' \in BOOLEAN /\ lapsed' \in BOOLEAN
    BY DEF Clock, Expire, Lapse, TypeOK
  <1>2. late' \in BOOLEAN
    BY DEF Clock, Expire, Lapse
  <1>3. UNCHANGED <<spared, kernelVars, traits, workerVars, parentVars>>
    BY DEF Clock, Expire, Lapse
  <1>4. QED
    BY <1>1, <1>2, <1>3 DEF TypeOK, kernelVars, traits, workerVars, parentVars

\* What a step of the parent may do to the kernel.
LEMMA KillGroupTyped ==
  ASSUME TypeOK, NEW immune, KillGroup(immune)
  PROVE  /\ state' \in [Proc -> {"none", "running", "dying", "zombie", "gone"}]
         /\ escaped' = escaped /\ stranger' = stranger /\ strayed' \in BOOLEAN
  BY DEF KillGroup, TypeOK

\* The steps of the parent change no trait, no clock and nothing of the worker's.
Untouched == UNCHANGED <<escaped, stranger, traits, workerVars, pastVars>>

LEMMA TypedFrom ==
  ASSUME TypeOK, Untouched, strayed' \in BOOLEAN,
         state' \in [Proc -> {"none", "running", "dying", "zombie", "gone"}],
         pc' \in Steps, observed' \in BOOLEAN, timedOut' \in BOOLEAN,
         raised' \in {"none", "unobservable", "interrupted"}, outcome' \in Outcomes,
         pc' = "done" <=> outcome' # "none"
  PROVE  TypeOK'
  BY DEF TypeOK, Untouched, traits, workerVars, pastVars

\* The group is signalled, and the parent goes on.
LEMMA SignalTyped ==
  ASSUME TypeOK, NEW immune, KillGroup(immune), UnlessKernel, pc # "done",
         NEW step \in Steps \ {"done"}, Goes(step)
  PROVE  TypeOK'
  BY KillGroupTyped, TypedFrom DEF Goes, Untouched, UnlessKernel, TypeOK

\* The parent goes on, or ends the call.
LEMMA GoesTyped ==
  ASSUME TypeOK, Elsewhere, pc # "done", NEW step \in Steps \ {"done"}, Goes(step)
  PROVE  TypeOK'
  BY TypedFrom DEF Goes, Elsewhere, Untouched, kernelVars, TypeOK

LEMMA EndsTyped ==
  ASSUME TypeOK, Untouched, strayed' = strayed, NEW how \in Outcomes \ {"none"}, Ends(how),
         state' \in [Proc -> {"none", "running", "dying", "zombie", "gone"}]
  PROVE  TypeOK'
  BY TypedFrom DEF Ends, Untouched, TypeOK, Steps

\* The cleanup begins.
LEMMA TimesOutTyped ==
  ASSUME TypeOK, Elsewhere, pc # "done", TimesOut
  PROVE  TypeOK'
  BY TypedFrom DEF TimesOut, FirstSignal, Elsewhere, Untouched, kernelVars, TypeOK, Steps,
     Cleanup, Signalling

LEMMA RaisesTyped ==
  ASSUME TypeOK, Untouched, UNCHANGED <<state, strayed>>, pc # "done",
         NEW what \in {"unobservable", "interrupted"}, NEW exited \in BOOLEAN,
         Raises(what, exited)
  PROVE  TypeOK'
  BY TypedFrom DEF Raises, FirstSignal, Untouched, TypeOK, Steps, Cleanup, Signalling

LEMMA BeginTyped ==
  ASSUME TypeOK, Begin
  PROVE  TypeOK'
  <1>0. Elsewhere => Untouched /\ UNCHANGED <<state, strayed>>
    BY DEF Elsewhere, Untouched, kernelVars
  <1>1. CASE Prepare
    <2>1. CASE Goes("spawn")
      BY <1>1, <2>1, GoesTyped DEF Prepare, Steps
    <2>2. CASE ~Goes("spawn")
      BY <1>0, <1>1, <2>2, EndsTyped DEF Prepare, Outcomes, TypeOK
    <2>3. QED
      BY <2>1, <2>2
  <1>2. CASE Start
    BY <1>2, TypedFrom DEF Start, Ends, Goes, Untouched, TypeOK, Proc, Steps, Waiting, Polling, Outcomes
  <1>3. CASE Remaining \/ Wait
    BY <1>3, GoesTyped, TimesOutTyped DEF Remaining, Wait, Steps, Waiting, Polling
  <1>4. CASE Observe
    <2>1. CASE Raises("unobservable", FALSE)
      BY <1>0, <1>4, <2>1, RaisesTyped DEF Observe
    <2>2. CASE ~Raises("unobservable", FALSE)
      BY <1>0, <1>4, <2>2, TypedFrom DEF Observe, LeaderIsZombie, TypeOK, Steps, Waiting, Polling
    <2>3. QED
      BY <2>1, <2>2
  <1>5. CASE Accept
    <2>1. CASE lapsed
      BY <1>5, <2>1, TimesOutTyped DEF Accept
    <2>2. CASE ~lapsed
      BY <1>5, <2>2, GoesTyped DEF Accept, FirstSignal, Steps, Waiting, Polling, Cleanup, Signalling
    <2>3. QED
      BY <2>1, <2>2
  <1>6. QED
    BY <1>1, <1>2, <1>3, <1>4, <1>5 DEF Begin

\* What follows the reaping of the worker.
LEMMA AfterCleanupTyped ==
  ASSUME TypeOK, Untouched, strayed' = strayed, pc # "done", AfterCleanup,
         state' \in [Proc -> {"none", "running", "dying", "zombie", "gone"}]
  PROVE  TypeOK'
  <1>1. CASE raised # "none"
    BY <1>1, EndsTyped DEF AfterCleanup, TypeOK, Outcomes
  <1>2. CASE raised = "none" /\ timedOut
    BY <1>2, EndsTyped DEF AfterCleanup, Outcomes
  <1>3. CASE raised = "none" /\ ~timedOut
    BY <1>3, TypedFrom DEF AfterCleanup, Goes, Steps, TypeOK
  <1>4. QED
    BY <1>1, <1>2, <1>3

LEMMA CleanTyped ==
  ASSUME TypeOK, Clean \/ CleanupFails
  PROVE  TypeOK'
  <1> USE DEF Steps, Cleanup, Signalling, Reaping, Fallback
  <1>1. CASE Terminate
    BY <1>1, SignalTyped DEF Terminate, Delivery
  <1>2. CASE Probe
    BY <1>2, SignalTyped DEF Probe, ProbeGroup
  <1>3. CASE ForceKill
    BY <1>3, SignalTyped DEF ForceKill, Delivery
  <1>4. CASE Confirm
    <2>1. CASE ProbeGroup
      BY <1>4, <2>1, SignalTyped DEF Confirm, ProbeGroup
    <2>2. CASE UNCHANGED kernelVars
      BY <1>4, <2>2, GoesTyped DEF Confirm, Elsewhere, UnlessKernel
    <2>3. QED
      BY <1>4, <2>1, <2>2 DEF Confirm
  <1>5. CASE Recheck \/ GraceEnds \/ Prove \/ ReapTimesOut \/ ReapGivesUp \/ CleanupFails
    BY <1>5, GoesTyped DEF Recheck, GraceEnds, Prove, ReapTimesOut, ReapGivesUp,
       CleanupFails
  <1>6. CASE Reap
    BY <1>6, AfterCleanupTyped DEF Reap, Collect, UnlessKernel, Untouched, TypeOK
  <1>7. CASE Kill
    <2>1. /\ Untouched /\ strayed' = strayed /\ pc # "done"
          /\ state' \in [Proc -> {"none", "running", "dying", "zombie", "gone"}]
      BY <1>7 DEF Kill, KillLeader, UnlessKernel, Untouched, TypeOK
    <2>2. CASE LeaderIsZombie
      BY <1>7, <2>1, <2>2, AfterCleanupTyped DEF Kill
    <2>3. CASE ~LeaderIsZombie
      BY <1>7, <2>1, <2>3, TypedFrom DEF Kill, Goes, TypeOK
    <2>4. QED
      BY <2>2, <2>3
  <1>8. CASE KillDirect
    <2>1. /\ UNCHANGED <<escaped, stranger, strayed, traits, workerVars, expired, lapsed, late>>
          /\ UNCHANGED <<observed, timedOut, raised, outcome>> /\ spared' \in BOOLEAN
          /\ pc = "killDirect" /\ pc' = "waitDirect"
          /\ state' \in [Proc -> {"none", "running", "dying", "zombie", "gone"}]
      BY <1>8 DEF KillDirect, KillLeader, kernelVars, Goes, TypeOK
    <2>2. QED
      BY <2>1 DEF TypeOK, traits, workerVars
  <1>9. CASE WaitDirect
    BY <1>9, EndsTyped DEF WaitDirect, Collect, UnlessKernel, Untouched, kernelVars,
       TypeOK, Outcomes
  <1>10. QED
    BY <1>1, <1>2, <1>3, <1>4, <1>5, <1>6, <1>7, <1>8, <1>9 DEF Clean

LEMMA ReadTyped ==
  ASSUME TypeOK, Read
  PROVE  TypeOK'
  BY EndsTyped DEF Read, Elsewhere, Untouched, kernelVars, TypeOK, Outcomes

LEMMA InterruptTyped ==
  ASSUME TypeOK, Interrupt
  PROVE  TypeOK'
  <1>1. Untouched /\ strayed' = strayed /\ pc # "done"
    BY DEF Interrupt, Untouched, Cleanup, Signalling, Reaping, Fallback, Waiting, Polling
  <1>2. CASE \E exited \in {FALSE, observed} : Raises("interrupted", exited) /\ UNCHANGED state
    BY <1>1, <1>2, RaisesTyped DEF TypeOK
  <1>3. CASE Ends("interrupted") \/ Ends("abandoned")
    <2>1. state' \in [Proc -> {"none", "running", "dying", "zombie", "gone"}]
      BY <1>3 DEF Interrupt, TypeOK, Proc
    <2>2. QED
      BY <1>1, <1>3, <2>1, EndsTyped DEF Outcomes
  <1>4. QED
    BY <1>2, <1>3 DEF Interrupt

LEMMA StepTyped ==
  ASSUME TypeOK, [Next]_vars
  PROVE  TypeOK'
  <1>1. CASE UNCHANGED vars
    BY <1>1 DEF vars, kernelVars, traits, workerVars, pastVars, parentVars, TypeOK
  <1>2. QED
    BY <1>1, WorldTyped, WorkerTyped, ClockTyped, BeginTyped, CleanTyped, ReadTyped,
       InterruptTyped DEF Next, Parent

\* Every variable keeps its type, and a call that has ended has one outcome.
THEOREM TypeCorrect == Spec => []TypeOK
  <1>1. Init => TypeOK
    BY InitInv DEF DeadlineInv
  <1>2. QED
    BY <1>1, StepTyped, PTL DEF Spec

-----------------------------------------------------------------------------
(* The processes of the worker, and the deadline.                          *)

\* What the worker and its children can do: the worker exits, nobody who may not
\* run on in the group begins to, and the number is free only once it is reaped.
Environment ==
    /\ UNCHANGED <<pastVars, parentVars, traits, strayed>>
    /\ \/ state'[Leader] = state[Leader]
       \/ state[Leader] \in {"running", "dying"} /\ state'[Leader] = "zombie"
    /\ Reaped => UNCHANGED <<status, response>>
    /\ stranger' => stranger \/ Reaped
    /\ (\A p \in Proc : state[p] = "none") => (\A p \in Proc : state'[p] = "none")
    /\ Closed => Closed'

LEMMA LeaderIsNoChild == Leader \in Proc /\ (\A c \in Child : c \in Proc /\ c # Leader)
  BY DeadlineAssumption DEF Proc

LEMMA WorldIsEnvironment ==
  ASSUME TypeOK, World
  PROVE  Environment
  <1> USE LeaderIsNoChild DEF Reaped
  <1>1. ASSUME NEW p \in Proc, Die(p)
        PROVE  Environment
    <2>1. /\ UNCHANGED <<pastVars, parentVars, traits, strayed, escaped, stranger, response>>
          /\ state[p] \in {"running", "dying"}
          /\ \A q \in Proc : q # p => state'[q] = state[q]
          /\ state'[p] \in {"zombie", "gone"} /\ (p = Leader => state'[p] = "zombie")
          /\ p # Leader => status' = status
      BY <1>1 DEF Die, TypeOK
    <2>2. Closed => Closed'
      BY <2>1 DEF Closed, Group, traits
    <2>3. QED
      BY <2>1, <2>2 DEF Environment
  <1>2. ASSUME NEW p \in Proc, Collected(p)
        PROVE  Environment
    <2>1. /\ UNCHANGED <<pastVars, parentVars, traits, workerVars, strayed, escaped, stranger>>
          /\ p # Leader /\ state[p] = "zombie" /\ state'[p] = "gone"
          /\ \A q \in Proc : q # p => state'[q] = state[q]
      BY <1>2 DEF Collected, TypeOK
    <2>2. Closed => Closed'
      BY <2>1 DEF Closed, Group, traits
    <2>3. QED
      BY <2>1, <2>2 DEF Environment, workerVars
  <1>3. ASSUME NEW p \in Proc, NEW c \in Child, Spawn(p, c)
        PROVE  Environment
    <2>1. /\ UNCHANGED <<pastVars, parentVars, traits, workerVars, strayed, stranger>>
          /\ state[p] = "running" /\ state'[c] = "running" /\ (p \in foreign => c \in foreign)
          /\ escaped' = IF p \in escaped THEN escaped \cup {c} ELSE escaped
          /\ \A q \in Proc : q # c => state'[q] = state[q]
      BY <1>3 DEF Spawn, TypeOK
    <2>2. Closed => Closed'
      BY <2>1 DEF Closed, Group, traits
    <2>3. QED
      BY <2>1, <2>2 DEF Environment, workerVars
  <1>4. ASSUME NEW c \in Child, Escape(c)
        PROVE  Environment
    <2>1. Closed => Closed'
      BY <1>4 DEF Escape, Closed, Group, traits
    <2>2. QED
      BY <1>4, <2>1 DEF Escape, Environment, workerVars
  <1>5. CASE Reuse
    <2>1. Closed => Closed'
      BY <1>5 DEF Reuse, Closed, Group, traits
    <2>2. QED
      BY <1>5, <2>1 DEF Reuse, Environment, workerVars
  <1>6. QED
    BY <1>1, <1>2, <1>3, <1>4, <1>5 DEF World

LEMMA WorkerIsEnvironment ==
  ASSUME TypeOK, Worker
  PROVE  Environment
  <1> USE LeaderIsNoChild DEF Reaped
  <1>1. CASE WorkerExits
    <2>1. /\ UNCHANGED <<pastVars, parentVars, traits, strayed, escaped, stranger>>
          /\ state[Leader] = "running" /\ state'[Leader] = "zombie"
          /\ \A q \in Proc : q # Leader => state'[q] = state[q]
      BY <1>1 DEF WorkerExits, TypeOK
    <2>2. Closed => Closed'
      BY <2>1 DEF Closed, Group, traits
    <2>3. QED
      BY <2>1, <2>2 DEF Environment
  <1>2. CASE WorkerWrites \/ WorkerRaises \/ WorkerReports
    <2>1. /\ UNCHANGED <<pastVars, parentVars, traits, kernelVars>>
          /\ state[Leader] = "running"
      BY <1>2 DEF WorkerWrites, WorkerRaises, WorkerReports, WorkerStep
    <2>2. Closed => Closed'
      BY <2>1 DEF Closed, Group, traits, kernelVars
    <2>3. QED
      BY <2>1, <2>2 DEF Environment, kernelVars
  <1>3. QED
    BY <1>1, <1>2 DEF Worker

LEMMA EnvironmentStep ==
  ASSUME DeadlineInv, Environment
  PROVE  AnchorInv' /\ ClockInv' /\ ClosedInv'
  <1> USE DEF DeadlineInv, Environment, pastVars, parentVars, traits
  <1>1. AnchorInv'
    BY DEF AnchorInv, Anchored, Reaped
  <1>2. ClockInv'
    BY DEF ClockInv, OnlyTimelyResults, Reaped
  <1>3. ClosedInv'
    <2>1. WorkerDoesNotOutliveCall'
      BY DEF ClosedInv, WorkerDoesNotOutliveCall
    <2>2. CleanEndLeavesNothing <=>
            ((pc \in {"read", "done"} /\ outcome \notin {"cleanup_failed", "abandoned"})
               => state[Leader] \in {"none", "gone"} /\ Closed)
      BY DEF CleanEndLeavesNothing, Closed
    <2>3. CleanEndLeavesNothing' <=>
            ((pc' \in {"read", "done"} /\ outcome' \notin {"cleanup_failed", "abandoned"})
               => state'[Leader] \in {"none", "gone"} /\ Closed')
      BY DEF CleanEndLeavesNothing, Closed
    <2>4. CleanEndLeavesNothing'
      BY <2>2, <2>3 DEF ClosedInv
    <2>5. QED
      BY <2>1, <2>4 DEF ClosedInv
  <1>4. QED
    BY <1>1, <1>2, <1>3

\* Time passes: a worker that has exited was in time for the wait.
LEMMA ClockStep ==
  ASSUME DeadlineInv, Clock
  PROVE  AnchorInv' /\ ClockInv' /\ ClosedInv'
  <1>1. UNCHANGED <<kernelVars, traits, workerVars, parentVars, spared>>
    BY DEF Clock, Expire, Lapse
  <1> USE <1>1 DEF DeadlineInv, kernelVars, traits, workerVars, parentVars
  <1>2. AnchorInv'
    BY DEF AnchorInv, Anchored, Reaped
  <1>3. ClockInv'
    <2>1. CASE Expire
      <3>1. expired' /\ (late' => late \/ pc \in {"prepare", "spawn", "remaining"})
        BY <2>1 DEF Expire
      <3>2. lapsed' = lapsed
        BY <2>1 DEF Expire
      <3>3. pc \in {"prepare", "spawn", "remaining"} =>
              pc \notin Polling /\ pc \notin Cleanup \cup {"read"} /\ outcome = "none"
        BY DEF Polling, Cleanup, Signalling, Reaping, Fallback, TypeOK
      <3>4. QED
        BY <3>1, <3>2, <3>3 DEF ClockInv, OnlyTimelyResults, Reaped
    <2>2. CASE Lapse
      <3>1. expired' /\ lapsed' /\ pc \in Polling
        BY <2>2 DEF Lapse
      <3>2. pc \notin Cleanup \cup {"read"} /\ outcome = "none"
        BY <3>1 DEF Polling, Cleanup, Signalling, Reaping, Fallback, TypeOK
      <3>3. QED
        BY <3>1, <3>2 DEF ClockInv, OnlyTimelyResults
    <2>3. QED
      BY <2>1, <2>2 DEF Clock
  <1>4. ClosedInv'
    BY DEF ClosedInv, Closed, Group, CleanEndLeavesNothing, WorkerDoesNotOutliveCall
  <1>5. QED
    BY <1>2, <1>3, <1>4

-----------------------------------------------------------------------------
(* The parent.                                                             *)

\* A member of the group anchors its number: no signal strays.
LEMMA SignalsAnchored ==
  ASSUME TypeOK, AnchorInv, Anchored, NEW immune, KillGroup(immune)
  PROVE  /\ strayed' = strayed /\ stranger' = stranger /\ escaped' = escaped
         /\ Delivery # "gone"
         /\ Anchored'
         /\ state[Leader] = "zombie" => state'[Leader] = "zombie"
         /\ \A p \in Proc : state'[p] = "running" => state[p] = "running"
         /\ \A p \in Proc : state'[p] \in {"none", "gone"} <=> state[p] \in {"none", "gone"}
  <1>1. Leader \in Group
    BY LeaderIsNoChild DEF Group, Anchored, TypeOK
  <1>2. QED
    BY <1>1, LeaderIsNoChild DEF KillGroup, Delivery, Anchored, TypeOK

\* SIGKILL closes the group, but for members that may not be signalled; Linux
\* does deliver it as long as the leader is not reaped.
LEMMA KillCloses ==
  ASSUME TypeOK, KillGroup({}), ~darwin, UNCHANGED traits
  PROVE  Closed'
  BY DEF KillGroup, Closed, Group, Signallable, TypeOK, traits

LEMMA LinuxDelivers ==
  ASSUME TypeOK, Anchored, ~darwin
  PROVE  Delivery = "sent"
  <1>1. Leader \in Group /\ Leader \notin foreign
    BY LeaderIsNoChild DEF Group, Anchored, TypeOK
  <1>2. QED
    BY <1>1 DEF Delivery, Signallable

\* A step of the parent before the cleanup, or between two of its signals, that
\* leaves the processes alone.
LEMMA Quiet ==
  ASSUME DeadlineInv, Elsewhere, pc \notin {"prepare", "spawn", "read", "done"},
         pc' \notin {"prepare", "spawn", "read", "done", "waitDirect"},
         pc \notin {"waitDirect"},
         pc' \in Reaping => Closed,
         observed' => LeaderIsZombie \/ observed,
         (pc' \in Cleanup /\ raised' = "none" /\ ~timedOut') =>
           ~late /\ state[Leader] \in {"zombie", "gone"},
         pc' \in Polling /\ late => lapsed,
         pc' \in Steps, outcome' = outcome
  PROVE  AnchorInv' /\ ClockInv' /\ ClosedInv'
  <1> USE DEF DeadlineInv, Elsewhere, kernelVars, traits, workerVars, pastVars
  <1>1. pc \in Waiting \cup Signalling \cup Reaping \cup {"killDirect"}
    BY DEF TypeOK, Steps, Cleanup, Fallback
  <1>2. pc' \in Waiting \cup Signalling \cup Reaping \cup {"killDirect"}
    BY DEF Steps, Cleanup, Fallback
  <1>3. AnchorInv'
    BY <1>1, <1>2 DEF AnchorInv, Anchored, Reaped, Waiting, Polling, Signalling, Reaping
  <1>4. ClockInv'
    BY <1>2 DEF ClockInv, OnlyTimelyResults, Reaped, LeaderIsZombie, Waiting, Polling, Signalling,
       Reaping
  <1>5. ClosedInv'
    BY <1>2 DEF ClosedInv, Closed, Group, CleanEndLeavesNothing, WorkerDoesNotOutliveCall,
       Waiting, Polling, Signalling, Reaping
  <1>6. QED
    BY <1>3, <1>4, <1>5

\* A step of the parent before any process of the worker exists.
LEMMA BornNowhere ==
  ASSUME DeadlineInv, Elsewhere, pc \in {"prepare", "spawn"}, pc' \in {"spawn", "done"},
         outcome' \notin {"ok"}, UNCHANGED <<observed, timedOut, raised>>
  PROVE  AnchorInv' /\ ClockInv' /\ ClosedInv'
  <1>1. \A p \in Proc : state[p] = "none"
    BY DEF DeadlineInv, AnchorInv
  <1> USE <1>1, LeaderIsNoChild DEF Elsewhere, kernelVars, traits, workerVars, pastVars,
          DeadlineInv, Cleanup, Waiting, Polling, Signalling, Reaping, Fallback
  <1>2. AnchorInv'
    BY DEF AnchorInv, Anchored, Reaped
  <1>3. ClockInv'
    BY DEF ClockInv, OnlyTimelyResults
  <1>4. ClosedInv'
    BY DEF ClosedInv, Closed, Group, CleanEndLeavesNothing, WorkerDoesNotOutliveCall
  <1>5. QED
    BY <1>2, <1>3, <1>4

LEMMA BeginStep ==
  ASSUME DeadlineInv, Begin
  PROVE  AnchorInv' /\ ClockInv' /\ ClosedInv'
  <1> USE DEF Steps, Cleanup, Waiting, Polling, Signalling, Reaping, Fallback
  <1>1. CASE Prepare
    <2>1. pc = "prepare" /\ pc' \in {"spawn", "done"} /\ outcome' \in {"none", "timeout", "not_started"}
      BY <1>1 DEF Prepare, Ends, Goes, DeadlineInv, TypeOK
    <2>2. UNCHANGED <<observed, timedOut, raised>> /\ Elsewhere
      BY <1>1 DEF Prepare, Ends, Goes
    <2>3. QED
      BY <2>1, <2>2, BornNowhere
  <1>2. CASE Start
    <2>1. CASE Ends("not_started") /\ UNCHANGED state
      BY <1>2, <2>1, BornNowhere DEF Start, Ends, Elsewhere, kernelVars
    <2>2. CASE Goes("remaining") /\ state' = [state EXCEPT ![Leader] = "running"]
      <3>1. pc = "spawn" /\ UNCHANGED <<escaped, stranger, strayed, traits, workerVars, pastVars>>
        BY <1>2 DEF Start
      <3>2. Anchored' /\ \A p \in Proc : state[p] = "none"
        BY <2>2, <3>1, LeaderIsNoChild DEF Anchored, DeadlineInv, AnchorInv, TypeOK
      <3>3. AnchorInv'
        BY <2>2, <3>1, <3>2, LeaderIsNoChild DEF Goes, AnchorInv, DeadlineInv, Reaped
      <3>4. ClockInv'
        BY <2>2, <3>1, <3>2, LeaderIsNoChild DEF Goes, ClockInv, DeadlineInv, OnlyTimelyResults,
           pastVars, TypeOK
      <3>5. ClosedInv'
        BY <2>2, <3>1 DEF Goes, ClosedInv, DeadlineInv, CleanEndLeavesNothing,
           WorkerDoesNotOutliveCall
      <3>6. QED
        BY <3>3, <3>4, <3>5
    <2>3. QED
      BY <1>2, <2>1, <2>2 DEF Start
  <1>3. CASE Remaining \/ Wait
    <2>1. CASE TimesOut
      BY <1>3, <2>1, Quiet DEF Remaining, Wait, TimesOut, FirstSignal
    <2>2. CASE ~TimesOut
      <3>1. Elsewhere /\ pc \in {"remaining", "wait"}
        BY <1>3 DEF Remaining, Wait
      <3>2. pc' \in {"wait", "observe"} /\ UNCHANGED <<observed, timedOut, raised, outcome>>
        BY <1>3, <2>2 DEF Remaining, Wait, Goes
      <3>3. ~late
        <4>1. CASE Remaining
          BY <2>2, <4>1 DEF Remaining, DeadlineInv, ClockInv
        <4>2. CASE Wait
          BY <2>2, <4>2 DEF Wait, DeadlineInv, ClockInv
        <4>3. QED
          BY <1>3, <4>1, <4>2
      <3>4. QED
        BY <3>1, <3>2, <3>3, Quiet DEF DeadlineInv, ClockInv
    <2>3. QED
      BY <2>1, <2>2
  <1>4. CASE Observe
    <2>1. CASE Raises("unobservable", FALSE)
      BY <1>4, <2>1, Quiet DEF Observe, Raises, FirstSignal
    <2>2. CASE ~Raises("unobservable", FALSE)
      <3>1. pc = "observe" /\ pc' = "observed" /\ outcome' = outcome /\ Elsewhere
        BY <1>4, <2>2 DEF Observe
      <3>2. observed' => LeaderIsZombie
        BY <1>4, <2>2 DEF Observe
      <3>3. late => lapsed
        BY <3>1 DEF DeadlineInv, ClockInv
      <3>4. QED
        BY <3>1, <3>2, <3>3, Quiet
    <2>3. QED
      BY <2>1, <2>2
  <1>5. CASE Accept
    <2>1. late => lapsed
      BY <1>5 DEF DeadlineInv, ClockInv, Accept
    <2>2. observed => state[Leader] \in {"zombie", "gone"}
      BY DEF DeadlineInv, ClockInv
    <2>3. CASE lapsed
      BY <1>5, <2>3, Quiet DEF Accept, TimesOut, FirstSignal
    <2>4. CASE ~lapsed
      BY <1>5, <2>1, <2>2, <2>4, Quiet DEF Accept, Goes, FirstSignal
    <2>5. QED
      BY <2>3, <2>4
  <1>6. QED
    BY <1>1, <1>2, <1>3, <1>4, <1>5 DEF Begin

\* A signal to the group, after which the parent goes on with the cleanup.
LEMMA SignalStep ==
  ASSUME DeadlineInv, pc \in Signalling, NEW immune, KillGroup(immune), UnlessKernel,
         pc' \in Signalling \cup {"reap", "killDirect"}, pc' = "reap" => Closed',
         UNCHANGED <<observed, timedOut, raised, outcome>>
  PROVE  AnchorInv' /\ ClockInv' /\ ClosedInv'
  <1> USE DEF DeadlineInv, UnlessKernel, traits, workerVars, pastVars, Cleanup, Waiting,
          Signalling, Reaping, Fallback
  <1>1. Anchored
    BY DEF AnchorInv
  <1>2. /\ strayed' = strayed /\ stranger' = stranger /\ Anchored'
        /\ state[Leader] = "zombie" => state'[Leader] = "zombie"
    BY <1>1, SignalsAnchored
  <1>3. AnchorInv'
    BY <1>1, <1>2 DEF AnchorInv, Anchored, Reaped
  <1>4. ClockInv'
    BY <1>1, <1>2 DEF ClockInv, Anchored, OnlyTimelyResults, TypeOK, Polling
  <1>5. ClosedInv'
    BY DEF ClosedInv, CleanEndLeavesNothing, WorkerDoesNotOutliveCall, TypeOK
  <1>6. QED
    BY <1>3, <1>4, <1>5

LEMMA SignallingSteps ==
  ASSUME DeadlineInv, Terminate \/ Probe \/ ForceKill \/ Confirm
  PROVE  AnchorInv' /\ ClockInv' /\ ClosedInv'
  <1> USE DEF Goes, Signalling, Steps, Cleanup
  <1>1. pc \in Signalling /\ Anchored /\ TypeOK /\ AnchorInv
    BY DEF Terminate, Probe, ForceKill, Confirm, DeadlineInv, AnchorInv
  <1>2. CASE Terminate
    <2>1. Delivery # "gone"
      BY <1>1, <1>2, SignalsAnchored DEF Terminate
    <2>2. QED
      BY <1>1, <1>2, <2>1, SignalStep DEF Terminate, Delivery
  <1>3. CASE Probe
    <2>1. Delivery # "gone"
      BY <1>1, <1>3, SignalsAnchored DEF Probe, ProbeGroup
    <2>2. QED
      BY <1>1, <1>3, <2>1, SignalStep DEF Probe, ProbeGroup
  <1>4. CASE ForceKill
    <2>1. Delivery # "gone"
      BY <1>1, <1>4, SignalsAnchored DEF ForceKill
    <2>2. ~darwin => Delivery = "sent" /\ Closed'
      BY <1>1, <1>4, LinuxDelivers, KillCloses DEF ForceKill, UnlessKernel
    <2>3. QED
      BY <1>1, <1>4, <2>1, <2>2, SignalStep DEF ForceKill, Delivery
  <1>5. CASE Confirm
    <2>1. CASE ProbeGroup
      <3>1. Delivery # "gone"
        BY <1>1, <2>1, SignalsAnchored DEF ProbeGroup
      <3>2. pc' = "prove" /\ UnlessKernel /\ UNCHANGED <<observed, timedOut, raised, outcome>>
        BY <1>5, <3>1 DEF Confirm
      <3>3. QED
        BY <1>1, <2>1, <3>2, SignalStep DEF ProbeGroup
    <2>2. CASE UNCHANGED kernelVars
      <3>1. Elsewhere /\ pc' = "prove" /\ pc = "confirm"
        BY <1>5, <1>1, <2>2, SignalsAnchored DEF Confirm, ProbeGroup, Elsewhere, UnlessKernel
      <3>2. QED
        BY <3>1, <1>5, Quiet DEF Confirm, Reaping, DeadlineInv, ClockInv, Polling
    <2>3. QED
      BY <1>5, <2>1, <2>2 DEF Confirm
  <1>6. QED
    BY <1>2, <1>3, <1>4, <1>5

\* The steps of the cleanup that leave the processes alone: the one that leads to
\* the reaping has proved the group closed.
LEMMA QuietSteps ==
  ASSUME DeadlineInv,
         Recheck \/ GraceEnds \/ Prove \/ ReapTimesOut \/ ReapGivesUp \/ CleanupFails
  PROVE  AnchorInv' /\ ClockInv' /\ ClosedInv'
  <1>1. /\ Elsewhere /\ UNCHANGED <<observed, timedOut, raised, outcome>>
        /\ pc \in Signalling \cup Reaping
        /\ pc' \in Signalling \cup Reaping \cup {"killDirect"}
    BY DEF Recheck, GraceEnds, Prove, ReapTimesOut, ReapGivesUp, CleanupFails, Goes,
       Signalling, Reaping
  <1>2. (raised = "none" /\ ~timedOut) => ~late /\ state[Leader] \in {"zombie", "gone"}
    BY <1>1 DEF DeadlineInv, ClockInv, Cleanup
  <1>3. pc' \in Reaping => Closed
    <2>1. CASE pc \in Reaping
      BY <2>1 DEF DeadlineInv, ClosedInv
    <2>2. CASE pc \in Signalling
      BY <2>2 DEF Recheck, GraceEnds, Prove, ReapTimesOut, ReapGivesUp, CleanupFails, Goes,
         Signalling, Reaping, Closed
    <2>3. QED
      BY <1>1, <2>1, <2>2
  <1>4. pc \notin {"prepare", "spawn", "read", "done", "waitDirect"} /\ pc' \in Steps
        /\ pc' \notin {"prepare", "spawn", "read", "done", "waitDirect"}
    BY <1>1 DEF Steps, Cleanup, Fallback, Signalling, Reaping
  <1>5. observed' => observed
    BY <1>1
  <1>6. pc' \notin Polling
    BY <1>1 DEF Polling, Signalling, Reaping
  <1>7. QED
    BY <1>1, <1>2, <1>3, <1>4, <1>5, <1>6, Quiet

\* The worker is reaped, and nothing else happens to its group: a closed group
\* stays closed.
LEMMA LeaderCollected ==
  ASSUME TypeOK, Closed, Untouched,
         \A p \in Proc \ {Leader} : state'[p] = state[p], state'[Leader] # "running"
  PROVE  Closed'
  BY DEF Closed, Group, Untouched, traits

\* What follows the reaping: the exception, the timeout or the response.
LEMMA CleanupOver ==
  ASSUME DeadlineInv, pc \in Reaping, LeaderIsZombie, AfterCleanup, Untouched,
         strayed' = strayed, state' = [state EXCEPT ![Leader] = "gone"]
  PROVE  AnchorInv' /\ ClockInv' /\ ClosedInv'
  <1> USE DEF DeadlineInv, Untouched, traits, workerVars, pastVars
  <1>1. /\ pc' \in {"read", "done"} /\ UNCHANGED <<observed, timedOut, raised>>
        /\ outcome' \notin {"ok", "cleanup_failed", "abandoned"}
        /\ pc' = "read" => raised = "none" /\ ~timedOut
    BY DEF AfterCleanup, Ends, Goes, TypeOK, Reaping
  <1>2. state'[Leader] = "gone" /\ \A p \in Proc \ {Leader} : state'[p] = state[p]
    BY LeaderIsNoChild DEF TypeOK
  <1>3. Closed'
    BY <1>2, LeaderCollected DEF ClosedInv
  <1>4. AnchorInv'
    BY <1>1, <1>2 DEF AnchorInv, Reaped, LeaderIsZombie, Waiting, Polling, Signalling, Reaping
  <1>5. ClockInv'
    BY <1>1, <1>2 DEF ClockInv, OnlyTimelyResults, Cleanup, Signalling, Reaping, Fallback,
       Polling
  <1>6. ClosedInv'
    BY <1>1, <1>2, <1>3 DEF ClosedInv, Closed, CleanEndLeavesNothing,
       WorkerDoesNotOutliveCall, Reaping
  <1>7. QED
    BY <1>4, <1>5, <1>6

\* The parent kills the worker itself, and goes on to wait for it.
LEMMA LeaderKilled ==
  ASSUME DeadlineInv, pc \in {"kill", "killDirect"}, KillLeader, UnlessKernel,
         pc = "kill" => ~LeaderIsZombie, UNCHANGED <<observed, timedOut, raised, outcome>>,
         pc' = IF pc = "kill" THEN "rereap" ELSE "waitDirect"
  PROVE  AnchorInv' /\ ClockInv' /\ ClosedInv'
  <1> USE DEF DeadlineInv, UnlessKernel, traits, workerVars, pastVars
  <1>1. Anchored
    BY DEF AnchorInv, Reaping
  <1>2. /\ state'[Leader] = IF state[Leader] = "zombie" THEN "gone" ELSE "dying"
        /\ \A p \in Proc \ {Leader} : state'[p] = state[p]
        /\ UNCHANGED <<escaped, stranger, strayed>>
    BY <1>1, LeaderIsNoChild DEF KillLeader, Anchored, TypeOK
  <1>3. AnchorInv'
    BY <1>1, <1>2 DEF AnchorInv, Anchored, Reaped, LeaderIsZombie, Waiting, Polling,
       Signalling, Reaping
  <1>4. ClockInv'
    BY <1>1, <1>2 DEF ClockInv, Anchored, OnlyTimelyResults, Cleanup, Signalling, Reaping,
       Fallback, Polling, TypeOK
  <1>5. ClosedInv'
    <2>1. Closed => Closed'
      BY <1>2, LeaderCollected DEF Untouched
    <2>2. state'[Leader] # "running"
      BY <1>2
    <2>3. QED
      BY <2>1, <2>2 DEF ClosedInv, CleanEndLeavesNothing, WorkerDoesNotOutliveCall, TypeOK,
         Reaping
  <1>6. QED
    BY <1>3, <1>4, <1>5

\* The kernel refuses the kill: the worker is waited for all the same.
LEMMA LeaderSpared ==
  ASSUME DeadlineInv, pc = "killDirect", pc' = "waitDirect", spared',
         UNCHANGED <<kernelVars, traits, workerVars, expired, lapsed, late>>,
         UNCHANGED <<observed, timedOut, raised, outcome>>
  PROVE  AnchorInv' /\ ClockInv' /\ ClosedInv'
  <1> USE DEF DeadlineInv, kernelVars, traits, workerVars
  <1>1. Anchored
    BY DEF AnchorInv
  <1>2. AnchorInv'
    BY <1>1 DEF AnchorInv, Anchored, Reaped, Waiting, Polling, Signalling, Reaping
  <1>3. ClockInv'
    BY DEF ClockInv, OnlyTimelyResults, Cleanup, Signalling, Reaping, Fallback, Polling, TypeOK
  <1>4. ClosedInv'
    BY DEF ClosedInv, CleanEndLeavesNothing, WorkerDoesNotOutliveCall, TypeOK, Reaping
  <1>5. QED
    BY <1>2, <1>3, <1>4

LEMMA ReapingSteps ==
  ASSUME DeadlineInv, Reap \/ Kill \/ KillDirect \/ WaitDirect
  PROVE  AnchorInv' /\ ClockInv' /\ ClosedInv'
  <1>1. CASE Reap
    BY <1>1, CleanupOver DEF Reap, Collect, UnlessKernel, Untouched, Reaping
  <1>2. CASE Kill
    <2>1. CASE LeaderIsZombie
      <3>1. state' = [state EXCEPT ![Leader] = "gone"]
        BY <1>2, <2>1 DEF Kill, KillLeader, LeaderIsZombie
      <3>2. QED
        BY <1>2, <2>1, <3>1, CleanupOver DEF Kill, KillLeader, UnlessKernel, Untouched, Reaping
    <2>2. CASE ~LeaderIsZombie
      BY <1>2, <2>2, LeaderKilled DEF Kill, Goes
    <2>3. QED
      BY <2>1, <2>2
  <1>3. CASE KillDirect
    <2>1. pc = "killDirect" /\ pc' = "waitDirect" /\ UNCHANGED <<observed, timedOut, raised, outcome>>
      BY <1>3 DEF KillDirect, Goes
    <2>2. CASE KillLeader /\ UNCHANGED spared
      BY <1>3, <2>1, <2>2, LeaderKilled DEF KillDirect, UnlessKernel, pastVars
    <2>3. CASE UNCHANGED kernelVars /\ spared' = TRUE
      BY <1>3, <2>1, <2>3, LeaderSpared DEF KillDirect
    <2>4. QED
      BY <1>3, <2>2, <2>3 DEF KillDirect
  <1>4. CASE WaitDirect
    <2>1. /\ pc = "waitDirect" /\ pc' = "done" /\ outcome' = "cleanup_failed"
          /\ UNCHANGED <<observed, timedOut, raised, stranger, strayed, pastVars>>
      BY <1>4 DEF WaitDirect, Ends, Collect, kernelVars, UnlessKernel
    <2>2. (Anchored \/ Reaped) /\ (~spared => state[Leader] # "running")
      BY <2>1 DEF DeadlineInv, AnchorInv, ClosedInv
    <2>3. state'[Leader] = IF state[Leader] = "zombie" THEN "gone" ELSE state[Leader]
      BY <1>4, LeaderIsNoChild DEF WaitDirect, Collect, kernelVars, LeaderIsZombie,
         DeadlineInv, TypeOK
    <2>4. AnchorInv'
      BY <2>1, <2>2, <2>3 DEF AnchorInv, DeadlineInv, Anchored, Reaped, Waiting, Polling,
         Signalling, Reaping
    <2>5. ClockInv'
      BY <2>1, <2>2, <2>3 DEF ClockInv, DeadlineInv, OnlyTimelyResults, pastVars, Cleanup,
         Signalling, Reaping, Fallback, Polling
    <2>6. ClosedInv'
      BY <2>1, <2>2, <2>3 DEF ClosedInv, CleanEndLeavesNothing, WorkerDoesNotOutliveCall,
         Reaping, pastVars
    <2>7. QED
      BY <2>4, <2>5, <2>6
  <1>5. QED
    BY <1>1, <1>2, <1>3, <1>4

\* An artifact is only read of a worker that has been reaped in time.
LEMMA ReadStep ==
  ASSUME DeadlineInv, Read
  PROVE  AnchorInv' /\ ClockInv' /\ ClosedInv'
  <1> USE DEF DeadlineInv, Elsewhere, kernelVars, traits, workerVars, pastVars
  <1>1. /\ pc = "read" /\ pc' = "done" /\ UNCHANGED <<observed, timedOut, raised>>
        /\ outcome' \in {"unusable", "worker_error", "ok"} /\ Elsewhere
        /\ outcome' = "ok" => response = "ok" /\ status = "0"
    BY DEF Read, Ends
  <1>2. Reaped /\ Closed /\ ~late
    BY <1>1 DEF AnchorInv, ClosedInv, ClockInv
  <1>3. AnchorInv'
    BY <1>1, <1>2 DEF AnchorInv, Reaped, Waiting, Polling, Signalling, Reaping
  <1>4. ClockInv'
    BY <1>1, <1>2 DEF ClockInv, OnlyTimelyResults, Reaped, Cleanup, Signalling, Reaping, Fallback
  <1>5. ClosedInv'
    BY <1>1, <1>2 DEF ClosedInv, Closed, Group, Reaped, CleanEndLeavesNothing,
       WorkerDoesNotOutliveCall, Reaping
  <1>6. QED
    BY <1>3, <1>4, <1>5

\* An interrupt ends the call before the worker or begins the cleanup; one that
\* meets the cleanup, or a worker just started, abandons the worker.
LEMMA InterruptStep ==
  ASSUME DeadlineInv, Interrupt
  PROVE  AnchorInv' /\ ClockInv' /\ ClosedInv'
  <1>1. UNCHANGED <<escaped, stranger, strayed, traits, workerVars, pastVars>>
    BY DEF Interrupt
  <1> USE DEF DeadlineInv, traits, workerVars, pastVars, Cleanup, Waiting, Polling, Signalling,
          Reaping, Fallback
  <1>2. CASE Ends("interrupted") /\ pc \in {"prepare", "spawn", "read"} /\ UNCHANGED state
    <2>1. pc' = "done" /\ outcome' = "interrupted" /\ UNCHANGED <<observed, timedOut, raised>>
      BY <1>2 DEF Ends
    <2>2. state[Leader] \in {"none", "gone"} /\ Closed
      <3>1. CASE pc = "read"
        BY <3>1 DEF AnchorInv, ClosedInv, Reaped
      <3>2. CASE pc # "read"
        BY <1>2, <3>2, LeaderIsNoChild DEF AnchorInv, Closed, Group
      <3>3. QED
        BY <3>1, <3>2
    <2>3. AnchorInv'
      BY <1>1, <1>2, <2>1 DEF AnchorInv, Reaped
    <2>4. ClockInv'
      BY <1>1, <1>2, <2>1 DEF ClockInv, OnlyTimelyResults
    <2>5. ClosedInv'
      BY <1>1, <1>2, <2>1, <2>2 DEF ClosedInv, Closed, Group, CleanEndLeavesNothing,
         WorkerDoesNotOutliveCall
    <2>6. QED
      BY <2>3, <2>4, <2>5
  <1>3. CASE /\ Ends("abandoned")
             /\ \/ UNCHANGED state
                \/ pc = "spawn" /\ state' = [state EXCEPT ![Leader] = "running"]
    <2>1. pc' = "done" /\ outcome' = "abandoned" /\ UNCHANGED <<observed, timedOut, raised>>
      BY <1>3 DEF Ends
    <2>2. Reaped => UNCHANGED state
      BY <1>3, LeaderIsNoChild DEF AnchorInv, Reaped
    <2>3. state[Leader] = "zombie" => UNCHANGED state
      BY <1>3, LeaderIsNoChild DEF AnchorInv
    <2>4. AnchorInv'
      BY <1>1, <2>1, <2>2 DEF AnchorInv, Reaped
    <2>5. ClockInv'
      BY <1>1, <2>1, <2>2, <2>3 DEF ClockInv, OnlyTimelyResults, Reaped
    <2>6. ClosedInv'
      BY <2>1 DEF ClosedInv, CleanEndLeavesNothing, WorkerDoesNotOutliveCall
    <2>7. QED
      BY <2>4, <2>5, <2>6
  <1>4. CASE /\ pc \in Waiting /\ UNCHANGED state
             /\ \E exited \in {FALSE, observed} : Raises("interrupted", exited)
    <2>1. PICK exited \in {FALSE, observed} : Raises("interrupted", exited)
      BY <1>4
    <2>2. pc' \in Signalling /\ raised' = "interrupted" /\ outcome' = outcome
      BY <2>1 DEF Raises, FirstSignal
    <2>3. observed' => observed
      BY <2>1 DEF Raises
    <2>4. QED
      BY <1>1, <1>4, <2>2, <2>3, Quiet DEF Elsewhere, kernelVars, Steps
  <1>5. QED
    BY <1>2, <1>3, <1>4 DEF Interrupt

LEMMA StutterStep ==
  ASSUME DeadlineInv, UNCHANGED vars
  PROVE  AnchorInv' /\ ClockInv' /\ ClosedInv'
  BY DEF DeadlineInv, vars, kernelVars, traits, workerVars, pastVars, parentVars, AnchorInv,
     Anchored, ClockInv, ClosedInv, Closed, Group, Reaped, OnlyTimelyResults,
     CleanEndLeavesNothing, WorkerDoesNotOutliveCall

LEMMA InvStep ==
  ASSUME DeadlineInv, [Next]_vars
  PROVE  DeadlineInv'
  <1>1. TypeOK /\ TypeOK'
    BY StepTyped DEF DeadlineInv
  <1>2. CASE World \/ Worker
    BY <1>1, <1>2, WorldIsEnvironment, WorkerIsEnvironment, EnvironmentStep DEF DeadlineInv
  <1>3. CASE Clock
    BY <1>1, <1>3, ClockStep DEF DeadlineInv
  <1>4. CASE Begin \/ Read \/ Interrupt \/ UNCHANGED vars
    BY <1>1, <1>4, BeginStep, ReadStep, InterruptStep, StutterStep DEF DeadlineInv
  <1>5. CASE Clean \/ CleanupFails
    BY <1>1, <1>5, SignallingSteps, QuietSteps, ReapingSteps DEF Clean, DeadlineInv
  <1>6. QED
    BY <1>2, <1>3, <1>4, <1>5 DEF Next, Parent

-----------------------------------------------------------------------------
(* The theorems.                                                           *)

\* The invariant of compile_isolated: the unreaped worker anchors its group from
\* the Popen to the reaping, and the group is closed before the reaping.
THEOREM AlwaysSafe == Spec => []DeadlineInv
  <1>1. Init => DeadlineInv
    BY InitInv
  <1>2. DeadlineInv /\ [Next]_vars => DeadlineInv'
    BY InvStep
  <1>3. QED
    BY <1>1, <1>2, PTL DEF Spec

\* killpg() and the probes of the cleanup never reach a process group that took
\* over the number of the worker's.
THEOREM SignalsStayHome == Spec => []NeverSignalsAStranger
  <1>1. DeadlineInv => NeverSignalsAStranger
    BY DEF DeadlineInv, AnchorInv, NeverSignalsAStranger
  <1>2. QED
    BY <1>1, AlwaysSafe, PTL

\* compile_isolated returns the artifact only of a worker that is reaped, and had
\* exited with success before the deadline of the wait for it, a wait that began
\* before the budget of the call was spent.
THEOREM TimelyResults == Spec => []OnlyTimelyResults
  <1>1. DeadlineInv => OnlyTimelyResults
    BY DEF DeadlineInv, ClockInv
  <1>2. QED
    BY <1>1, AlwaysSafe, PTL

\* A call whose cleanup went through leaves neither its worker nor a running
\* member of its group that Linux would let it signal.
THEOREM CleanEnds == Spec => []CleanEndLeavesNothing
  <1>1. DeadlineInv => CleanEndLeavesNothing
    BY DEF DeadlineInv, ClosedInv
  <1>2. QED
    BY <1>1, AlwaysSafe, PTL

\* Whatever of the cleanup failed, the worker was killed or had exited when
\* compile_isolated raised, unless the kernel refused its last kill.
THEOREM WorkerEnds == Spec => []WorkerDoesNotOutliveCall
  <1>1. DeadlineInv => WorkerDoesNotOutliveCall
    BY DEF DeadlineInv, ClosedInv
  <1>2. QED
    BY <1>1, AlwaysSafe, PTL
=============================================================================

-------------------------- MODULE ProcessTreeProofs --------------------------
(***************************************************************************)
(* The processes of the CLI.  For any number of them, on any platform and   *)
(* for any limits: a completion answers only with the whole output of a CLI *)
(* that ended, cleans up what is its own, and keeps others out (LocalQwen); *)
(* and the Darwin proof that its cleanup relies on accepts dead groups      *)
(* only, and a group of zombies unless it has too many members              *)
(* (ZombieProof).                                                          *)
(***************************************************************************)
EXTENDS LocalQwen, ZombieProof, FiniteSets, FiniteSetTheorems, TLAPS

\* While the CLI process is the call's to end, and once that is done or given up.
Owning == Reading \cup Awaiting \cup Terminating \cup {"reap", "kill", "rereap"}
Ending == {"reap", "kill", "rereap", "closeJob", "judge", "release", "frame", "done"}
Over == {"closeJob", "judge", "release", "frame", "done"}

\* Nothing runs but what has left a POSIX group.
Settled == \A p \in Proc : state[p] \in {"suspended", "running"} => Posix /\ p \in outside

LockInv == lock = "mine" <=> pc \notin {"lock", "frame", "done"}

\* How far the launch has come: nothing runs before it, on Windows nothing but
\* the suspended CLI until it is in the job, and then nothing out of the job.
LaunchInv ==
    /\ pc \in {"lock", "spawn"} \cup Preflight => \A p \in Proc : state[p] = "none"
    /\ pc \in {"assign", "resume", "launchFailed"} => ~Posix /\ state[Leader] = "suspended"
    /\ pc = "launchWait" => ~Posix /\ state[Leader] \notin {"none", "suspended", "running"}
    /\ pc \in {"assign", "resume", "launchFailed", "launchWait"} =>
          \A c \in Child : state[c] = "none"
    /\ pc \in {"launchFailed", "launchWait"} => reason = "launch"
    /\ pc \in Owning => state[Leader] # "none"
    /\ ~Posix /\ pc \in {"lock", "spawn", "assign"} \cup Preflight => outside \subseteq {Leader}
    /\ ~Posix /\ pc \in Owning \cup {"resume"} => outside = {}

\* The cleanup is not left before everything has been reached, unless it failed.
CleanupInv ==
    /\ pc \in Ending => Settled \/ failed \/ reason = "abandoned"
    /\ pc \in Over => ~Alive(Leader) \/ failed \/ reason = "abandoned"

\* As long as there is a result, its output is complete; then the CLI is reaped,
\* and then its status is known.
ResultInv ==
    /\ pc = "frame" => reason = "none"
    /\ reason = "none" =>
        /\ pc \in Awaiting \cup Terminating \cup Ending => pipe = <<>> /\ Holders = {} /\ ~held
        /\ pc \in Over => state[Leader] = "gone" \/ failed
        /\ pc \in {"release", "frame", "done"} => status = "zero" /\ ~failed

QwenInv == LockInv /\ LaunchInv /\ CleanupInv /\ ResultInv

-----------------------------------------------------------------------------
(* Types.                                                                  *)

LEMMA EnvironmentTypes ==
  ASSUME TypeOK, Environment \/ Expire \/ UNCHANGED vars
  PROVE  TypeOK'
<1> USE QwenAssumption DEF TypeOK, World, kernelVars, cliVars, callVars, Proc
<1>1. ASSUME NEW p \in Proc, Write(p) PROVE TypeOK'
  <2>1. written' \in 0..MaxWritten /\ pipe' \in Seq({"char", "half"})
    BY <1>1 DEF Write
  <2> QED BY <1>1, <2>1 DEF Write
<1>2. ASSUME NEW p \in Proc, ClosesStdout(p) \/ Exits(p) PROVE TypeOK'
  BY <1>2 DEF ClosesStdout, Exits
<1>3. ASSUME NEW p \in Proc, NEW c \in Child, Spawn(p, c) PROVE TypeOK'
  BY <1>3 DEF Spawn
<1>4. ASSUME NEW c \in Child, Escape(c) \/ Collected(c) PROVE TypeOK'
  BY <1>4 DEF Escape, Collected
<1>5. CASE Reuse
  BY <1>5 DEF Reuse
<1>6. CASE Other
  BY <1>6 DEF Other
<1>7. CASE Expire
  BY <1>7 DEF Expire
<1>8. CASE UNCHANGED vars
  BY <1>8 DEF vars
<1> QED BY <1>1, <1>2, <1>3, <1>4, <1>5, <1>6, <1>7, <1>8 DEF Environment

LEMMA StartingTypes ==
  ASSUME TypeOK, Starting
  PROVE  TypeOK'
<1> USE QwenAssumption DEF TypeOK, Goes, Gives, Locals, Flags, Quiet, Still, kernelVars,
        cliVars, callVars, KillLeader, SignalOwned, Steps, Reasons, Preflight, Launching,
        Reading, Awaiting, Terminating, Reaping
<1>1. CASE Acquire
  BY <1>1 DEF Acquire
<1>2. CASE AskCli
  BY <1>2 DEF AskCli
<1>3. CASE Launch
  BY <1>3 DEF Launch, Proc
<1>4. CASE Assign
  BY <1>4 DEF Assign
<1>5. CASE Resume
  BY <1>5 DEF Resume, Proc
<1>6. CASE LaunchCleanup
  BY <1>6 DEF LaunchCleanup, Proc
<1>7. CASE LaunchWait
  <2>1. (state[Leader] # "gone") \in BOOLEAN
    OBVIOUS
  <2>2. failed' \in BOOLEAN
    BY <1>7, <2>1 DEF LaunchWait
  <2> QED BY <1>7, <2>2 DEF LaunchWait
<1> QED BY <1>1, <1>2, <1>3, <1>4, <1>5, <1>6, <1>7 DEF Starting

LEMMA RunningTypes ==
  ASSUME TypeOK, Running
  PROVE  TypeOK'
<1> USE QwenAssumption DEF TypeOK, Goes, Gives, Locals, Flags, Quiet, Still, kernelVars,
        cliVars, callVars, KillLeader, SignalOwned, Steps, Reasons, Preflight, Launching,
        Reading, Awaiting, Terminating, Reaping
<1>1. CASE Clock
  BY <1>1 DEF Clock, Stops, Boundary
<1>2. CASE ReadUnit
  <2>1. pipe' \in Seq({"char", "half"})
    BY <1>2 DEF ReadUnit
  <2>2. held' \in BOOLEAN
    BY <1>2 DEF ReadUnit, Stops
  <2>3. retained' = retained \/ (retained # MaxOutput /\ retained' = retained + 1)
    BY <1>2 DEF ReadUnit, Stops
  <2>4. retained' \in 0..MaxOutput
    BY <2>3
  <2>5. pc' \in Steps /\ reason' \in Reasons
    BY <1>2 DEF ReadUnit, Stops, Boundary
  <2>6. UNCHANGED <<platform, kernelVars, status, mute, written, lock, expired, final, failed>>
    BY <1>2 DEF ReadUnit, Stops
  <2> QED BY <2>1, <2>2, <2>4, <2>5, <2>6
<1>3. CASE NoData
  BY <1>3 DEF NoData, Proc
<1>4. CASE EndOfOutput
  <2>1. pc' \in Steps /\ reason' \in Reasons /\ final' \in BOOLEAN
    BY <1>4 DEF EndOfOutput, Stops, Boundary
  <2>2. UNCHANGED <<platform, kernelVars, cliVars, lock, expired, held, retained, failed>>
    BY <1>4 DEF EndOfOutput, Stops
  <2> QED BY <2>1, <2>2
<1>5. CASE ReadFault
  BY <1>5 DEF ReadFault, Stops, Boundary
<1>6. CASE Await
  BY <1>6 DEF Await, Stops, Boundary
<1>7. CASE AwaitExit
  BY <1>7 DEF AwaitExit, Boundary
<1>8. CASE Unobservable
  BY <1>8 DEF Unobservable, Proc
<1> QED BY <1>1, <1>2, <1>3, <1>4, <1>5, <1>6, <1>7, <1>8 DEF Running

LEMMA CleaningTypes ==
  ASSUME TypeOK, Cleaning
  PROVE  TypeOK'
<1> USE QwenAssumption DEF TypeOK, Goes, Gives, Locals, Flags, Quiet, Still, kernelVars,
        cliVars, callVars, KillLeader, SignalOwned, Steps, Reasons, Preflight, Launching,
        Reading, Awaiting, Terminating, Reaping
<1>1. CASE TerminationFails
  BY <1>1 DEF TerminationFails, Proc
<1>2. CASE Observe
  BY <1>2 DEF Observe
<1>3. CASE Terminate
  <2>1. pc' \in Steps
    BY <1>3 DEF Terminate, Answers
  <2>2. UNCHANGED <<platform, cliVars, lock, expired, held, retained, final, reason, failed>>
    BY <1>3 DEF Terminate
  <2>3. PICK deaf \in SUBSET Proc : SignalOwned(deaf)
    BY <1>3 DEF Terminate
  <2> QED BY <2>1, <2>2, <2>3
<1>4. CASE Recheck
  BY <1>4 DEF Recheck
<1>5. CASE Probe
  BY <1>5 DEF Probe, Proc
<1>6. CASE GraceEnds
  BY <1>6 DEF GraceEnds
<1>7. CASE DeniedExit
  BY <1>7 DEF DeniedExit
<1>8. CASE ForceGroup
  BY <1>8 DEF ForceGroup, Proc
<1>9. CASE Confirm
  BY <1>9 DEF Confirm, Proc
<1>10. CASE Prove
  BY <1>10 DEF Prove, Proc
<1>11. CASE TerminateJob
  BY <1>11 DEF TerminateJob, Proc
<1>12. CASE JobIsEmpty
  BY <1>12 DEF JobIsEmpty, Proc
<1>13. CASE Reap
  BY <1>13 DEF Reap, Ended, Proc
<1>14. CASE ReapTimesOut
  BY <1>14 DEF ReapTimesOut
<1>15. CASE Kill
  BY <1>15 DEF Kill, Proc
<1>16. CASE ReapGivesUp
  BY <1>16 DEF ReapGivesUp, Ended
<1>17. CASE CloseJob
  BY <1>17 DEF CloseJob, Proc
<1> QED BY <1>1, <1>2, <1>3, <1>4, <1>5, <1>6, <1>7, <1>8, <1>9, <1>10, <1>11, <1>12, <1>13,
           <1>14, <1>15, <1>16, <1>17 DEF Cleaning

LEMMA EndingTypes ==
  ASSUME TypeOK, Judge \/ Release \/ Frame \/ Interrupt
  PROVE  TypeOK'
<1> USE QwenAssumption DEF TypeOK, Goes, Gives, Locals, Flags, Quiet, Still, kernelVars,
        cliVars, callVars, Steps, Reasons, Preflight, Launching, Reading, Awaiting,
        Terminating, Reaping
<1>1. CASE Judge
  BY <1>1 DEF Judge
<1>2. CASE Release
  BY <1>2 DEF Release
<1>3. CASE Frame
  BY <1>3 DEF Frame
<1>4. CASE Interrupt
  <2>1. state' \in [Proc -> {"none", "suspended", "running", "dying", "zombie", "gone"}]
    BY <1>4 DEF Interrupt
  <2>2. pc' \in Steps /\ reason' \in Reasons /\ failed' \in BOOLEAN
    BY <1>4 DEF Interrupt, Stops, Boundary
  <2>3. UNCHANGED <<platform, outside, stranger, strayed, cliVars, lock, expired, held, retained,
                    final>>
    BY <1>4 DEF Interrupt, Stops
  <2> QED BY <2>1, <2>2, <2>3
<1> QED BY <1>1, <1>2, <1>3, <1>4
-----------------------------------------------------------------------------
LEMMA InitQwen == Init => TypeOK /\ QwenInv
<1> SUFFICES ASSUME Init PROVE TypeOK /\ QwenInv
  OBVIOUS
<1>1. TypeOK
  <2>1. state \in [Proc -> {"none", "suspended", "running", "dying", "zombie", "gone"}]
    BY DEF Init
  <2>2. outside \subseteq Proc
    BY DEF Init, Proc
  <2>3. pipe \in Seq({"char", "half"})
    BY DEF Init
  <2>4. written \in 0..MaxWritten /\ retained \in 0..MaxOutput
    BY QwenAssumption DEF Init
  <2> QED BY <2>1, <2>2, <2>3, <2>4 DEF Init, TypeOK, Steps, Reasons
<1>2. QwenInv
  BY DEF Init, QwenInv, LockInv, LaunchInv, CleanupInv, ResultInv, Posix, Owning, Ending,
       Over, Preflight, Reading, Awaiting, Terminating
<1> QED BY <1>1, <1>2

\* The steps of the CLI and of the kernel.
LEMMA WriteInv ==
  ASSUME TypeOK, QwenInv, NEW p \in Proc, Write(p)
  PROVE  QwenInv'
BY DEF TypeOK, Write, World, callVars, kernelVars, QwenInv, LockInv, LaunchInv, CleanupInv,
     ResultInv, Settled, Posix, Holders, Alive

LEMMA ClosesInv ==
  ASSUME TypeOK, QwenInv, NEW p \in Proc, ClosesStdout(p)
  PROVE  QwenInv'
BY DEF TypeOK, ClosesStdout, World, callVars, kernelVars, QwenInv, LockInv, LaunchInv,
     CleanupInv, ResultInv, Settled, Posix, Holders, Alive

LEMMA SpawnInv ==
  ASSUME TypeOK, QwenInv, NEW p \in Proc, NEW c \in Child, Spawn(p, c)
  PROVE  QwenInv'
<1> USE QwenAssumption DEF TypeOK, Spawn, World, callVars, Proc
<1> USE DEF QwenInv
<1>1. LockInv'
  BY DEF LockInv
<1>2. LaunchInv'
  BY DEF LaunchInv, Posix
<1>3. CleanupInv'
  BY DEF CleanupInv, Settled, Posix, Alive
<1>4. ResultInv'
  BY DEF ResultInv, Holders, Alive
<1> QED BY <1>1, <1>2, <1>3, <1>4

LEMMA EscapeInv ==
  ASSUME TypeOK, QwenInv, NEW c \in Child, Escape(c)
  PROVE  QwenInv'
BY DEF TypeOK, Escape, World, callVars, cliVars, kernelVars, QwenInv, LockInv, LaunchInv,
     CleanupInv, ResultInv, Settled, Posix, Holders, Alive

LEMMA ExitsInv ==
  ASSUME TypeOK, QwenInv, NEW p \in Proc, Exits(p)
  PROVE  QwenInv'
<1> USE QwenAssumption DEF TypeOK, Exits, World, callVars, Proc
<1> USE DEF QwenInv
<1>1. LockInv'
  BY DEF LockInv
<1>2. LaunchInv'
  BY DEF LaunchInv, Posix
<1>3. CleanupInv'
  BY DEF CleanupInv, Settled, Posix, Alive
<1>4. ResultInv'
  BY DEF ResultInv, Holders, Alive, Over
<1> QED BY <1>1, <1>2, <1>3, <1>4

LEMMA CollectedInv ==
  ASSUME TypeOK, QwenInv, NEW c \in Child, Collected(c)
  PROVE  QwenInv'
<1> USE QwenAssumption DEF TypeOK, Collected, World, callVars, cliVars, Proc
<1> USE DEF QwenInv
<1>1. LockInv'
  BY DEF LockInv
<1>2. LaunchInv'
  BY DEF LaunchInv, Posix
<1>3. CleanupInv'
  BY DEF CleanupInv, Settled, Posix, Alive
<1>4. ResultInv'
  BY DEF ResultInv, Holders, Alive
<1> QED BY <1>1, <1>2, <1>3, <1>4
-----------------------------------------------------------------------------
(* What the signals of the call do.                                        *)

\* A kill or a signal starts nothing, and leaves who has ended.
Calmer ==
    /\ state' \in [Proc -> {"none", "suspended", "running", "dying", "zombie", "gone"}]
    /\ \A p \in Proc : state'[p] \in {"suspended", "running"} => state'[p] = state[p]
    /\ \A p \in Proc : Alive(p)' => Alive(p)
    /\ \A p \in Proc : state'[p] = "none" <=> state[p] = "none"
    /\ state[Leader] = "gone" => state'[Leader] = "gone"
    /\ UNCHANGED outside /\ stranger' \in BOOLEAN /\ strayed' \in BOOLEAN

LEMMA KillLeaderCalms ==
  ASSUME TypeOK, NEW also \in SUBSET Proc, \A p \in also : Alive(p), state[Leader] # "none",
         KillLeader(also)
  PROVE  Calmer /\ state'[Leader] \in {"dying", "gone"}
BY DEF TypeOK, Calmer, KillLeader, Alive, Exited, Proc

LEMMA SignalCalms ==
  ASSUME TypeOK, NEW immune, SignalOwned(immune)
  PROVE  Calmer
BY DEF TypeOK, Calmer, SignalOwned, Alive, Proc

\* Neither undoes what the invariant says of the processes.
KeepsCalm ==
  /\ Settled => Settled'
  /\ ~Alive(Leader) => ~Alive(Leader)'
  /\ Holders = {} => Holders' = {}
  /\ state[Leader] # "none" => state'[Leader] # "none"
  /\ Posix' = Posix

LEMMA CalmerKeeps ==
  ASSUME TypeOK, Calmer, UNCHANGED <<platform, mute>>
  PROVE  KeepsCalm
BY DEF Calmer, Settled, Holders, Posix, Proc, KeepsCalm

\* When everything in reach has been signalled or has ended, the call is settled.
LEMMA InReach ==
  ASSUME TypeOK, Posix \/ outside = {},
         \A p \in Owned : state[p] \notin {"suspended", "running"}
  PROVE  Settled
BY DEF Settled, Owned, Alive, TypeOK

LEMMA KilledIsSettled ==
  ASSUME TypeOK, Posix \/ outside = {}, SignalOwned({}), UNCHANGED platform
  PROVE  Settled'
BY DEF Settled, Owned, Alive, TypeOK, SignalOwned, Posix
-----------------------------------------------------------------------------
(* The steps of the call.                                                  *)

LEMMA StartingQwen ==
  ASSUME TypeOK, QwenInv, Starting
  PROVE  QwenInv'
<1> USE QwenAssumption DEF TypeOK, QwenInv, LockInv, LaunchInv, CleanupInv, ResultInv, Goes,
        Gives, Locals, Flags, Quiet, Still, kernelVars, cliVars, callVars, Owning, Ending,
        Over, Preflight, Reading, Awaiting, Terminating
<1>1. CASE Acquire
  BY <1>1 DEF Acquire, Settled, Holders, Alive, Posix, Proc
<1>2. CASE AskCli
  BY <1>2 DEF AskCli, Settled, Holders, Alive, Posix, Proc
<1>3. CASE Launch
  BY <1>3 DEF Launch, Settled, Holders, Alive, Posix, Proc
<1>4. CASE Assign
  BY <1>4 DEF Assign, Settled, Holders, Alive, Posix
<1>5. CASE Resume
  BY <1>5 DEF Resume, Settled, Holders, Alive, Posix, Proc
<1>6. CASE LaunchCleanup
  <2> DEFINE also == {p \in Owned : Alive(p)}
  <2>1. Calmer /\ state'[Leader] \in {"dying", "gone"}
    <3>1. also \in SUBSET Proc /\ (\A p \in also : Alive(p)) /\ KillLeader(also)
      BY <1>6 DEF LaunchCleanup, Owned
    <3>2. state[Leader] # "none"
      BY <1>6 DEF LaunchCleanup
    <3> QED BY <3>1, <3>2, KillLeaderCalms
  <2>2. \A c \in Child : state'[c] = "none"
    BY <1>6, <2>1 DEF LaunchCleanup, Calmer, Proc
  <2> QED BY <1>6, <2>1, <2>2 DEF LaunchCleanup, Posix
<1>7. CASE LaunchWait
  <2>1. /\ pc = "launchWait" /\ pc' = "closeJob" /\ reason' = "launch"
        /\ UNCHANGED <<platform, lock, outside>>
    BY <1>7 DEF LaunchWait
  <2>2. Leader \in Proc /\ \A p \in Proc : p = Leader \/ state[p] = "none"
    BY <2>1 DEF Proc
  <2>3. ~(Alive(Leader)') \/ failed'
    BY <1>7, <2>2 DEF LaunchWait, Exited, Alive
  <2>4. Settled'
    BY <1>7, <2>1, <2>2 DEF LaunchWait, Settled
  <2> QED BY <2>1, <2>3, <2>4
<1> QED BY <1>1, <1>2, <1>3, <1>4, <1>5, <1>6, <1>7 DEF Starting

LEMMA RunningQwen ==
  ASSUME TypeOK, QwenInv, Running
  PROVE  QwenInv'
<1> USE QwenAssumption DEF TypeOK, QwenInv, LockInv, LaunchInv, CleanupInv, ResultInv, Goes,
        Gives, Locals, Flags, Quiet, Still, kernelVars, cliVars, callVars, Owning, Ending,
        Over, Preflight, Reading, Awaiting, Terminating
<1>1. CASE Clock
  BY <1>1 DEF Clock, Settled, Holders, Alive, Posix, Stops, Boundary
<1>2. CASE ReadUnit
  BY <1>2 DEF ReadUnit, Settled, Holders, Alive, Posix, Stops, Boundary
<1>3. CASE NoData
  BY <1>3 DEF NoData, Settled, Holders, Alive, Posix, Proc
<1>4. CASE EndOfOutput
  BY <1>4 DEF EndOfOutput, Settled, Holders, Alive, Posix, Proc, Stops, Boundary
<1>5. CASE ReadFault
  BY <1>5 DEF ReadFault, Settled, Holders, Alive, Posix, Stops, Boundary
<1>6. CASE Await
  BY <1>6 DEF Await, Settled, Holders, Alive, Posix, Stops, Boundary
<1>7. CASE AwaitExit
  BY <1>7 DEF AwaitExit, Settled, Holders, Alive, Posix, Boundary, Exited
<1>8. CASE Unobservable
  <2>1. Calmer /\ state'[Leader] \in {"dying", "gone"}
    BY <1>8, KillLeaderCalms DEF Unobservable, Alive
  <2>2. KeepsCalm
    BY <1>8, <2>1, CalmerKeeps DEF Unobservable, KeepsCalm
  <2> QED BY <1>8, <2>1, <2>2 DEF Unobservable, KeepsCalm, Calmer
<1> QED BY <1>1, <1>2, <1>3, <1>4, <1>5, <1>6, <1>7, <1>8 DEF Running

LEMMA CleaningQwen ==
  ASSUME TypeOK, QwenInv, Cleaning
  PROVE  QwenInv'
<1> USE QwenAssumption DEF TypeOK, QwenInv, LockInv, LaunchInv, CleanupInv, ResultInv, Goes,
        Gives, Locals, Flags, Quiet, Still, kernelVars, cliVars, callVars, Owning, Ending,
        Over, Preflight, Reading, Awaiting, Terminating
<1>1. CASE TerminationFails
  <2>1. Calmer /\ state'[Leader] \in {"dying", "gone"}
    BY <1>1, KillLeaderCalms DEF TerminationFails, Alive
  <2>2. KeepsCalm
    BY <1>1, <2>1, CalmerKeeps DEF TerminationFails, KeepsCalm
  <2> QED BY <1>1, <2>1, <2>2 DEF TerminationFails, KeepsCalm, Calmer
<1>2. CASE Observe
  BY <1>2 DEF Observe, Settled, Holders, Alive, Posix, Exited
<1>3. CASE Terminate
  <2>1. Calmer
    BY <1>3, SignalCalms DEF Terminate
  <2>2. KeepsCalm
    BY <1>3, <2>1, CalmerKeeps DEF Terminate, KeepsCalm
  <2>3. Posix \/ outside = {}
    BY <1>3 DEF Terminate, Posix
  <2>4. Owned = {} => Settled'
    BY <2>2, <2>3, InReach DEF KeepsCalm
  <2>5. (pc' = "reap" /\ Owned = {}) \/ pc' \in {"grace", "recheck"}
    BY <1>3 DEF Terminate, Goes, Answers
  <2>6. pc = "term" /\ Locals /\ Flags /\ Still
    BY <1>3 DEF Terminate, Goes
  <2> QED BY <1>3, <2>1, <2>2, <2>4, <2>5, <2>6 DEF KeepsCalm, Calmer
<1>4. CASE Recheck
  BY <1>4 DEF Recheck, Settled, Holders, Alive, Posix, Exited
<1>5. CASE Probe
  <2>1. Calmer
    BY <1>5, SignalCalms DEF Probe
  <2>2. KeepsCalm
    BY <1>5, <2>1, CalmerKeeps DEF Probe, KeepsCalm
  <2>3. Posix \/ outside = {}
    BY <1>5 DEF Probe, Posix
  <2>4. Owned = {} => Settled'
    BY <2>2, <2>3, InReach DEF KeepsCalm
  <2>5. (pc' = "reap" /\ Owned = {}) \/ pc' \in {"denied", "force"}
    BY <1>5 DEF Probe, Goes, Answers
  <2> QED BY <1>5, <2>1, <2>2, <2>4, <2>5 DEF Probe, KeepsCalm, Calmer
<1>6. CASE GraceEnds
  BY <1>6 DEF GraceEnds, Settled, Holders, Alive, Posix
<1>7. CASE DeniedExit
  BY <1>7 DEF DeniedExit, Settled, Holders, Alive, Posix, Exited
<1>8. CASE ForceGroup
  <2>1. Calmer
    BY <1>8, SignalCalms DEF ForceGroup
  <2>2. KeepsCalm
    BY <1>8, <2>1, CalmerKeeps DEF ForceGroup, KeepsCalm
  <2>3. Posix \/ outside = {}
    BY <1>8 DEF ForceGroup, Posix
  <2>4. Settled'
    BY <1>8, <2>3, KilledIsSettled DEF ForceGroup
  <2> QED BY <1>8, <2>1, <2>2, <2>4 DEF ForceGroup, KeepsCalm, Calmer
<1>9. CASE Confirm
  <2>1. Calmer
    BY <1>9, SignalCalms DEF Confirm, Calmer, Alive
  <2>2. KeepsCalm
    BY <1>9, <2>1, CalmerKeeps DEF Confirm, KeepsCalm
  <2>3. Posix \/ outside = {}
    BY <1>9 DEF Confirm, Posix
  <2>4. Owned = {} => Settled'
    BY <2>2, <2>3, InReach DEF KeepsCalm
  <2>5. (pc' = "reap" /\ Owned = {}) \/ pc' = "prove"
    BY <1>9 DEF Confirm, Goes, Answers
  <2> QED BY <1>9, <2>1, <2>2, <2>4, <2>5 DEF Confirm, KeepsCalm, Calmer
<1>10. CASE Prove
  <2>1. Settled
    BY <1>10, InReach DEF Prove
  <2>2. Settled' /\ Holders' = Holders /\ Posix' = Posix
    BY <1>10, <2>1 DEF Prove, Settled, Holders, Alive, Posix
  <2> QED BY <1>10, <2>2 DEF Prove, Posix
<1>11. CASE TerminateJob
  <2>1. Calmer
    BY <1>11, SignalCalms DEF TerminateJob
  <2>2. KeepsCalm
    BY <1>11, <2>1, CalmerKeeps DEF TerminateJob, KeepsCalm
  <2> QED BY <1>11, <2>1, <2>2 DEF TerminateJob, KeepsCalm, Calmer
<1>12. CASE JobIsEmpty
  <2>1. Calmer
    BY <1>12, KillLeaderCalms DEF JobIsEmpty, Alive
  <2>2. KeepsCalm
    BY <1>12, <2>1, CalmerKeeps DEF JobIsEmpty, KeepsCalm
  <2>3. Posix \/ outside = {}
    BY <1>12 DEF JobIsEmpty, Posix
  <2>4. Settled'
    BY <1>12, <2>2, <2>3, InReach DEF JobIsEmpty, KeepsCalm
  <2> QED BY <1>12, <2>1, <2>2, <2>4 DEF JobIsEmpty, KeepsCalm, Calmer
<1>13. CASE Reap
  BY <1>13 DEF Reap, Settled, Holders, Alive, Posix, Ended, Proc
<1>14. CASE ReapTimesOut
  BY <1>14 DEF ReapTimesOut, Settled, Holders, Alive, Posix
<1>15. CASE Kill
  <2>1. Calmer /\ state'[Leader] \in {"dying", "gone"}
    BY <1>15, KillLeaderCalms DEF Kill, Alive
  <2>2. KeepsCalm
    BY <1>15, <2>1, CalmerKeeps DEF Kill, KeepsCalm
  <2> QED BY <1>15, <2>1, <2>2 DEF Kill, KeepsCalm, Calmer, Posix
<1>16. CASE ReapGivesUp
  BY <1>16 DEF ReapGivesUp, Settled, Holders, Alive, Posix, Ended
<1>17. CASE CloseJob
  <2>1. Calmer
    BY <1>17, SignalCalms DEF CloseJob
  <2>2. KeepsCalm
    BY <1>17, <2>1, CalmerKeeps DEF CloseJob, KeepsCalm
  <2> QED BY <1>17, <2>1, <2>2 DEF CloseJob, KeepsCalm, Calmer
<1> QED BY <1>1, <1>2, <1>3, <1>4, <1>5, <1>6, <1>7, <1>8, <1>9, <1>10, <1>11, <1>12, <1>13,
           <1>14, <1>15, <1>16, <1>17 DEF Cleaning

LEMMA EndingQwen ==
  ASSUME TypeOK, QwenInv, Judge \/ Release \/ Frame
  PROVE  QwenInv'
<1> USE QwenAssumption DEF TypeOK, QwenInv, LockInv, LaunchInv, CleanupInv, ResultInv, Goes,
        Gives, Locals, Flags, Quiet, Still, kernelVars, cliVars, callVars, Owning, Ending,
        Over, Preflight, Reading, Awaiting, Terminating, Settled, Holders, Alive, Posix, Proc
<1>1. CASE Judge
  BY <1>1 DEF Judge
<1>2. CASE Release
  BY <1>2 DEF Release
<1>3. CASE Frame
  BY <1>3 DEF Frame
<1> QED BY <1>1, <1>2, <1>3

LEMMA InterruptQwen ==
  ASSUME TypeOK, QwenInv, Interrupt
  PROVE  QwenInv'
<1> USE QwenAssumption DEF TypeOK, QwenInv, Gives, Locals, Still, kernelVars, cliVars,
        callVars, Owning, Ending, Over, Preflight, Reading, Awaiting, Terminating, Reaping,
        Posix, Proc, Interrupt, Stops, Boundary
<1>1. LockInv'
  BY DEF LockInv
<1>2. LaunchInv'
  BY DEF LaunchInv
<1>3. CleanupInv'
  BY DEF CleanupInv, LaunchInv, Settled, Alive
<1>4. ResultInv'
  BY DEF ResultInv, LaunchInv, Holders, Alive
<1> QED BY <1>1, <1>2, <1>3, <1>4

LEMMA EnvironmentQwen ==
  ASSUME TypeOK, QwenInv, Environment \/ Expire \/ UNCHANGED vars
  PROVE  QwenInv'
<1>1. CASE Reuse \/ Other \/ Expire \/ UNCHANGED vars
  BY <1>1 DEF Reuse, Other, Expire, World, vars, callVars, cliVars, kernelVars, QwenInv,
       LockInv, LaunchInv, CleanupInv, ResultInv, Settled, Posix, Holders, Alive
<1> QED BY <1>1, WriteInv, ClosesInv, SpawnInv, EscapeInv, ExitsInv,
        CollectedInv DEF Environment

LEMMA NextQwen ==
  ASSUME TypeOK /\ QwenInv, [Next]_vars
  PROVE  (TypeOK /\ QwenInv)'
<1>1. TypeOK'
  BY EnvironmentTypes, StartingTypes, RunningTypes, CleaningTypes, EndingTypes DEF Next, Call
<1>2. QwenInv'
  BY EnvironmentQwen, StartingQwen, RunningQwen, CleaningQwen, EndingQwen,
       InterruptQwen DEF Next, Call
<1> QED BY <1>1, <1>2
-----------------------------------------------------------------------------
\* The inductive invariant of a completion.
THEOREM AlwaysQwen == Spec => [](TypeOK /\ QwenInv)
<1>1. TypeOK /\ QwenInv /\ [Next]_vars => (TypeOK /\ QwenInv)'
  BY NextQwen
<1> QED BY <1>1, InitQwen, PTL DEF Spec

\* A result is the whole output of a CLI that ended by itself, with success.
THEOREM CompleteAnswers == Spec => []AnswersAreComplete
<1>1. TypeOK /\ QwenInv => AnswersAreComplete
  BY DEF QwenInv, ResultInv, CleanupInv, Settled, AnswersAreComplete, Ending, Over, Owned
<1> QED BY <1>1, AlwaysQwen, PTL

\* A call that does not fail leaves no process that is its own to end.
THEOREM NothingLeftBehind == Spec => []CleanEndLeavesNothing
<1>1. TypeOK /\ QwenInv => CleanEndLeavesNothing
  BY DEF QwenInv, CleanupInv, Settled, CleanEndLeavesNothing, Ending
<1> QED BY <1>1, AlwaysQwen, PTL

\* Another completion starts only when the CLI of this one has ended.
THEOREM OneAtATime == Spec => []OneCompletionAtATime
<1>1. TypeOK /\ QwenInv => OneCompletionAtATime
  BY DEF QwenInv, LockInv, LaunchInv, CleanupInv, OneCompletionAtATime, Alive, Over, Proc
<1> QED BY <1>1, AlwaysQwen, PTL
-----------------------------------------------------------------------------
(* The number of the group.                                                *)

\* The number is free for others only when the leader has been reaped, and then
\* a POSIX group is not signalled any more.
StrangerInv ==
    /\ ~strayed
    /\ stranger => state[Leader] = "gone"
    /\ pc \in Reading \cup Awaiting \cup Terminating => state[Leader] # "gone"
    /\ pc = "closeJob" => ~Posix

LEMMA EnvironmentStrangers ==
  ASSUME TypeOK, StrangerInv, Environment \/ Expire \/ UNCHANGED vars
  PROVE  StrangerInv'
<1> USE QwenAssumption DEF TypeOK, StrangerInv, World, kernelVars, cliVars, callVars, Proc,
        Posix
<1>1. ASSUME NEW p \in Proc, Write(p) \/ ClosesStdout(p) \/ Exits(p) PROVE StrangerInv'
  BY <1>1 DEF Write, ClosesStdout, Exits
<1>2. ASSUME NEW p \in Proc, NEW c \in Child, Spawn(p, c) PROVE StrangerInv'
  BY <1>2 DEF Spawn
<1>3. ASSUME NEW c \in Child, Escape(c) \/ Collected(c) PROVE StrangerInv'
  BY <1>3 DEF Escape, Collected
<1>4. CASE Reuse \/ Other \/ Expire \/ UNCHANGED vars
  BY <1>4 DEF Reuse, Other, Expire, vars
<1> QED BY <1>1, <1>2, <1>3, <1>4 DEF Environment

LEMMA CallStrangers ==
  ASSUME TypeOK, QwenInv, StrangerInv, Call \/ Interrupt
  PROVE  StrangerInv'
<1> USE QwenAssumption DEF TypeOK, QwenInv, LaunchInv, StrangerInv, Goes, Gives, Quiet,
        Still, kernelVars, KillLeader, SignalOwned, Exited, Proc, Posix, Owned, Alive,
        Preflight, Reading, Awaiting, Terminating, Reaping, Stops, Boundary, Ended
<1>1. CASE Starting
  BY <1>1 DEF Starting, Acquire, AskCli, Launch, Assign, Resume, LaunchCleanup, LaunchWait
<1>2. CASE Running
  BY <1>2 DEF Running, Clock, ReadUnit, NoData, EndOfOutput, ReadFault, Await, AwaitExit,
       Unobservable
<1>3. CASE TerminationFails \/ Observe \/ Recheck \/ GraceEnds \/ DeniedExit \/ Prove \/ JobIsEmpty
  BY <1>3 DEF TerminationFails, Observe, Recheck, GraceEnds, DeniedExit, Prove, JobIsEmpty
<1>4. CASE Terminate \/ Probe \/ ForceGroup \/ Confirm \/ TerminateJob
  <2>1. pc \in Terminating /\ pc' # "closeJob" /\ Posix' = Posix
    <3>1. CASE Terminate
      BY <3>1 DEF Terminate, Answers
    <3> QED BY <1>4, <3>1 DEF Probe, ForceGroup, Confirm, TerminateJob
  <2>2. UNCHANGED kernelVars \/ \E immune : SignalOwned(immune)
    BY <1>4 DEF Terminate, Probe, ForceGroup, Confirm, TerminateJob
  <2>3. ASSUME NEW immune, SignalOwned(immune)
        PROVE  state'[Leader] # "gone" /\ ~strayed' /\ stranger' = stranger
    BY <2>1, <2>3
  <2> QED BY <2>1, <2>2, <2>3
<1>5. CASE Reap \/ ReapTimesOut \/ Kill \/ ReapGivesUp \/ CloseJob
  BY <1>5 DEF Reap, ReapTimesOut, Kill, ReapGivesUp, CloseJob
<1>6. CASE Judge \/ Release \/ Frame \/ Interrupt
  BY <1>6 DEF Judge, Release, Frame, Interrupt
<1> QED BY <1>1, <1>2, <1>3, <1>4, <1>5, <1>6 DEF Call, Cleaning

\* No signal of a completion reaches a group that took over the leader's number.
THEOREM NoStrangerSignalled == Spec => []NeverSignalsAStranger
<1>1. Init => StrangerInv
  BY DEF Init, StrangerInv, Reading, Awaiting, Terminating
<1>2. TypeOK /\ QwenInv /\ StrangerInv /\ [Next]_vars => StrangerInv'
  BY EnvironmentStrangers, CallStrangers DEF Next
<1>3. StrangerInv => NeverSignalsAStranger
  BY DEF StrangerInv, NeverSignalsAStranger
<1> QED BY <1>1, <1>2, <1>3, AlwaysQwen, PTL DEF Spec
-----------------------------------------------------------------------------
(* The proof that a group is dead is sound.                                *)

USE ZombieAssumption

\* The process with this identity does not run, and never will again.
Spent(i) ==
    \/ start[i[1]] > i[2]
    \/ start[i[1]] = i[2] /\ table[i[1]] # "running"

\* The last complete snapshot had zombies only.
HistoryInv == \A i \in previousComplete : Spent(i)

\* Every process that ran when the snapshot was listed is a member, is read as
\* itself or a successor, and is not of the last complete snapshot; if none ran,
\* none runs.
SnapshotInv ==
    phase \in {"read", "recheck"} =>
        /\ listed = {} => RunningPids = {}
        /\ \A i \in listed : i[1] \in members /\ start[i[1]] >= i[2]
        /\ \A i \in listed, j \in previousComplete : i[1] = j[1] => j[2] < i[2]
        /\ \A i \in listed, j \in identities : i[1] = j[1] => i[2] <= j[2]
        /\ \A p \in members : \/ phase = "read" /\ p \in todo
                              \/ p \in vanished
                              \/ \E j \in identities : j[1] = p
        /\ \A j \in identities : j[1] \in live \/ Spent(j)

\* There is an attempt left.
CountInv == phase # "done" => attempts < LiveAttempts /\ stability < StabilityAttempts

SoundInv == ProofTypeOK /\ CountInv /\ HistoryInv /\ SnapshotInv /\ ProvedGroupsAreDead

\* Time passes for a number: it is used again, or its process does not start to run.
Ages == \A p \in Pid : \/ start'[p] > start[p]
                       \/ start'[p] = start[p] /\ (table'[p] = "running" => table[p] = "running")
-----------------------------------------------------------------------------
LEMMA InitSound == ProofInit => SoundInv
BY DEF ProofInit, SoundInv, CountInv, ProofTypeOK, HistoryInv, SnapshotInv,
     ProvedGroupsAreDead, NoSnapshot, RunningPids, Identity

\* The kernel keeps the types, lets numbers age, and starts nothing in a dead group.
LEMMA KernelAges ==
  ASSUME ProofTypeOK, Kernel
  PROVE  ProofTypeOK' /\ Ages /\ (RunningPids = {} => RunningPids' = {}) /\ UNCHANGED proverVars
<1> USE DEF ProofTypeOK, Ages, RunningPids, Identity, proverVars, snapshotVars, historyVars,
        knownVars, countVars
<1>1. ASSUME NEW p \in Pid, NEW from, NEW to \in {"free", "zombie", "outside"},
             Turns(p, from, to), disturbed' = disturbed, p # GroupLeader \/ to = "zombie"
      PROVE  ProofTypeOK' /\ Ages /\ (RunningPids = {} => RunningPids' = {}) /\ UNCHANGED proverVars
  <2>1. \A q \in Pid : table'[q] = IF q = p THEN to ELSE table[q]
    BY <1>1 DEF Turns
  <2>2. ProofTypeOK'
    BY <1>1, <2>1 DEF Turns
  <2> QED BY <1>1, <2>1, <2>2 DEF Turns
<1>2. ASSUME NEW p \in Pid, Reused(p)
      PROVE  ProofTypeOK' /\ Ages /\ (RunningPids = {} => RunningPids' = {}) /\ UNCHANGED proverVars
  BY <1>2 DEF Reused, Takes
<1>3. ASSUME NEW p \in Pid, NEW c \in Pid, Fork(p, c)
      PROVE  ProofTypeOK' /\ Ages /\ (RunningPids = {} => RunningPids' = {}) /\ UNCHANGED proverVars
  BY <1>3 DEF Fork, Takes
<1>4. ASSUME NEW p \in Pid, Exit(p) \/ CollectedByOthers(p) \/ Leave(p) \/ StrangerEnds(p)
      PROVE  \E from : \E to \in {"free", "zombie", "outside"} :
                Turns(p, from, to) /\ disturbed' = disturbed /\ (p # GroupLeader \/ to = "zombie")
  <2>1. StrangerEnds(p) => p # GroupLeader
    BY DEF StrangerEnds, Turns
  <2> QED BY <1>4, <2>1 DEF Exit, CollectedByOthers, Leave, StrangerEnds
<1> QED BY <1>1, <1>2, <1>3, <1>4 DEF Kernel

LEMMA SpentStays ==
  ASSUME ProofTypeOK, Ages, ProofTypeOK', NEW i \in Identity, Spent(i)
  PROVE  Spent(i)'
BY DEF ProofTypeOK, Ages, Spent, Identity

LEMMA KernelSound ==
  ASSUME SoundInv, Kernel
  PROVE  SoundInv'
<1>1. ProofTypeOK' /\ Ages /\ (RunningPids = {} => RunningPids' = {}) /\ UNCHANGED proverVars
  BY KernelAges DEF SoundInv
<1> USE DEF proverVars, snapshotVars, historyVars, knownVars, countVars
<1>2. \A i \in Identity : Spent(i) => Spent(i)'
  BY <1>1, SpentStays DEF SoundInv
<1>3. HistoryInv'
  BY <1>1, <1>2 DEF SoundInv, HistoryInv, ProofTypeOK
<1>4. ProvedGroupsAreDead'
  BY <1>1 DEF SoundInv, ProvedGroupsAreDead
<1>5. ASSUME phase \in {"read", "recheck"} PROVE SnapshotInv'
  <2> USE <1>1, <1>2, <1>5
  <2>1. (listed = {} => RunningPids = {})'
    BY DEF SoundInv, SnapshotInv
  <2>2. (\A i \in listed : i[1] \in members /\ start[i[1]] >= i[2])'
    BY DEF SoundInv, SnapshotInv, ProofTypeOK, Ages, Identity
  <2>3. (\A j \in identities : j[1] \in live \/ Spent(j))'
    BY DEF SoundInv, SnapshotInv, ProofTypeOK
  <2> QED BY <2>1, <2>2, <2>3 DEF SoundInv, SnapshotInv
<1> QED BY <1>1, <1>3, <1>4, <1>5 DEF SoundInv, CountInv, SnapshotInv
-----------------------------------------------------------------------------
(* The steps of the prover.                                                *)

LEMMA ListSound ==
  ASSUME SoundInv, List
  PROVE  SoundInv'
<1> USE DEF SoundInv, CountInv, List, historyVars, knownVars, countVars, tableVars
<1>1. ProofTypeOK'
  <2>1. members' \subseteq Pid /\ todo' \subseteq Pid
    BY DEF RunningPids, ZombiePids, Pid
  <2>2. listed' \subseteq Identity
    BY DEF ProofTypeOK, RunningPids, Identity
  <2>3. disturbed' \in BOOLEAN
    BY DEF ProofTypeOK
  <2> QED BY <2>1, <2>2, <2>3 DEF ProofTypeOK
<1>2. HistoryInv' /\ ProvedGroupsAreDead'
  BY DEF HistoryInv, ProvedGroupsAreDead, Spent, RunningPids
<1>3. SnapshotInv'
  <2>1. RunningPids \subseteq members' /\ RunningPids' = RunningPids
    BY DEF RunningPids
  <2>2. listed' = {<<p, start[p]>> : p \in RunningPids}
    OBVIOUS
  <2>3. listed' = {} => RunningPids' = {}
    BY <2>1, <2>2
  <2>4. \A i \in listed' : i[1] \in RunningPids /\ i[2] = start[i[1]]
    BY <2>2
  <2>5. \A i \in listed' : i[1] \in members' /\ start'[i[1]] >= i[2]
    BY <2>1, <2>4 DEF ProofTypeOK, RunningPids
  <2>6. \A i \in listed', j \in previousComplete' : i[1] = j[1] => j[2] < i[2]
    BY <2>4 DEF HistoryInv, Spent, RunningPids, ProofTypeOK, Identity
  <2> QED BY <2>3, <2>5, <2>6 DEF SnapshotInv
<1> QED BY <1>1, <1>2, <1>3

LEMMA ReadSound ==
  ASSUME SoundInv, NEW p \in Pid, Read(p)
  PROVE  SoundInv'
<1> USE DEF SoundInv, CountInv, Read, historyVars, knownVars, countVars, tableVars
<1>1. ProofTypeOK'
  <2>1. table[p] = "free" => p \in Others
    BY DEF ProofTypeOK, Pid
  <2>2. <<p, start[p]>> \in Identity
    BY DEF ProofTypeOK, Identity
  <2> QED BY <2>1, <2>2 DEF ProofTypeOK
<1>2. HistoryInv' /\ ProvedGroupsAreDead'
  BY DEF HistoryInv, ProvedGroupsAreDead, Spent, RunningPids
<1>3. SnapshotInv'
  <2> DEFINE this == <<p, start[p]>>
  <2>1. this[1] = p /\ this[2] = start[p]
    OBVIOUS
  <2>2. RunningPids' = RunningPids /\ (\A i \in Identity : Spent(i)' = Spent(i))
    BY DEF RunningPids, Spent
  <2>3. identities' \subseteq identities \cup {this} /\ live \subseteq live'
    OBVIOUS
  <2>4. \A i \in listed', j \in identities' : i[1] = j[1] => i[2] <= j[2]
    BY <2>1, <2>3 DEF SnapshotInv, ProofTypeOK, Identity
  <2>5. \A q \in members' : \/ phase' = "read" /\ q \in todo'
                            \/ q \in vanished'
                            \/ \E j \in identities' : j[1] = q
    BY <2>1 DEF SnapshotInv
  <2>6. this \in identities' => p \in live' \/ Spent(this) \/ this \in identities
    BY <2>1 DEF Spent, ProofTypeOK
  <2>7. \A j \in identities' : j[1] \in live' \/ Spent(j)'
    BY <2>1, <2>2, <2>3, <2>6, <1>1 DEF SnapshotInv, ProofTypeOK
  <2> QED BY <2>2, <2>4, <2>5, <2>7 DEF SnapshotInv
<1> QED BY <1>1, <1>2, <1>3

\* Two snapshots with the same records, complete and without a live member:
\* who ran at the second listing would be spent since the first.
LEMMA StableGroupsAreDead ==
  ASSUME SoundInv, Judging, Stable
  PROVE  RunningPids = {}
<1>1. SUFFICES ASSUME NEW i \in listed PROVE FALSE
  BY DEF SoundInv, SnapshotInv, Judging
<1>2. i[1] \in members /\ i[2] \in Nat
  BY DEF SoundInv, SnapshotInv, Judging, ProofTypeOK, Identity
<1>3. PICK j \in identities : j[1] = i[1]
  BY <1>2 DEF SoundInv, SnapshotInv, Judging, Stable, Complete
<1>4. j \in previousComplete /\ j[2] \in Nat
  BY DEF Stable, SoundInv, ProofTypeOK, Identity
<1>5. j[2] < i[2] /\ i[2] <= j[2]
  BY <1>1, <1>3, <1>4 DEF SoundInv, SnapshotInv, Judging
<1> QED BY <1>2, <1>4, <1>5

LEMMA ProvesSound ==
  ASSUME SoundInv, Proves
  PROVE  SoundInv'
<1> USE DEF SoundInv, CountInv, Proves, Ends, historyVars, knownVars, countVars,
        snapshotVars, tableVars
<1>1. ProofTypeOK'
  BY DEF ProofTypeOK, Judging
<1>2. HistoryInv' /\ SnapshotInv'
  BY DEF HistoryInv, SnapshotInv, Spent
<1>3. RunningPids = {}
  BY StableGroupsAreDead
<1> QED BY <1>1, <1>2, <1>3 DEF ProvedGroupsAreDead, RunningPids

LEMMA CompareSound ==
  ASSUME SoundInv, Compare
  PROVE  SoundInv'
<1> USE DEF SoundInv, CountInv, Compare, historyVars, countVars, snapshotVars, tableVars
<1>1. ProofTypeOK'
  BY DEF ProofTypeOK
<1>2. HistoryInv' /\ ProvedGroupsAreDead' /\ SnapshotInv'
  BY DEF HistoryInv, SnapshotInv, ProvedGroupsAreDead, Spent, RunningPids
<1> QED BY <1>1, <1>2

LEMMA RecheckSound ==
  ASSUME SoundInv, NEW p \in Pid, ReadAgain(p)
  PROVE  SoundInv'
<1> USE DEF SoundInv, CountInv, ReadAgain, historyVars, countVars, snapshotVars, tableVars
<1>1. ProofTypeOK'
  <2>1. <<p, start[p]>> \in Identity
    BY DEF ProofTypeOK, Identity
  <2> QED BY <2>1 DEF ProofTypeOK
<1>2. HistoryInv' /\ ProvedGroupsAreDead' /\ SnapshotInv'
  BY DEF HistoryInv, SnapshotInv, ProvedGroupsAreDead, Spent, RunningPids
<1> QED BY <1>1, <1>2

LEMMA RetriesSound ==
  ASSUME SoundInv, Retries
  PROVE  SoundInv'
<1> USE DEF SoundInv, Retries, snapshotVars, tableVars
<1>1. /\ phase' \in {"list", "done"} /\ result' \in {result, "rejected"}
      /\ phase' = "done" <=> result' # "none"
  BY DEF Ends, ProofTypeOK, Judging
<1>2. HistoryInv'
  BY DEF HistoryInv, SnapshotInv, Judging, Complete, NoSnapshot, Spent
<1>3. SnapshotInv' /\ ProvedGroupsAreDead'
  BY <1>1 DEF SnapshotInv, ProvedGroupsAreDead, RunningPids, Judging, ProofTypeOK
<1>4. CountInv' /\ attempts' \in 0..LiveAttempts /\ stability' \in 0..StabilityAttempts
  BY DEF ProofTypeOK, CountInv, Counts, GivesUp, Ends, Judging
<1>5. ProofTypeOK'
  BY <1>1, <1>4 DEF ProofTypeOK, NoSnapshot, Judging
<1> QED BY <1>2, <1>3, <1>4, <1>5

LEMMA RejectsSound ==
  ASSUME SoundInv, Rejects, disturbed' \in BOOLEAN
  PROVE  SoundInv'
<1> USE DEF SoundInv, CountInv, Rejects, Ends, snapshotVars, tableVars, historyVars,
        knownVars, countVars
<1>1. ProofTypeOK'
  BY DEF ProofTypeOK
<1>2. HistoryInv' /\ SnapshotInv' /\ ProvedGroupsAreDead'
  BY DEF HistoryInv, SnapshotInv, ProvedGroupsAreDead, Spent
<1> QED BY <1>1, <1>2
-----------------------------------------------------------------------------
LEMMA NextSound ==
  ASSUME SoundInv, [ProofNext]_proofVars
  PROVE  SoundInv'
<1>1. CASE Kernel
  BY <1>1, KernelSound
<1>2. CASE List
  BY <1>2, ListSound
<1>3. CASE Compare
  BY <1>3, CompareSound
<1>4. CASE Proves
  BY <1>4, ProvesSound
<1>5. CASE Retries
  BY <1>5, RetriesSound
<1>6. CASE CompareRejects \/ Fails
  BY <1>6, RejectsSound DEF CompareRejects, Fails, SoundInv, ProofTypeOK
<1>7. ASSUME NEW p \in Pid, Read(p) \/ ReadsStranger(p) \/ ReadAgain(p) \/ RecheckRejects(p)
      PROVE  SoundInv'
  <2>1. CASE Read(p)
    BY <2>1, ReadSound
  <2>2. CASE ReadAgain(p)
    BY <2>2, RecheckSound
  <2>3. CASE ReadsStranger(p) \/ RecheckRejects(p)
    BY <2>3, RejectsSound DEF ReadsStranger, RecheckRejects, SoundInv, ProofTypeOK
  <2> QED BY <1>7, <2>1, <2>2, <2>3
<1>8. CASE UNCHANGED proofVars
  BY <1>8 DEF proofVars, tableVars, proverVars, snapshotVars, historyVars, knownVars,
       countVars, SoundInv, CountInv, ProofTypeOK, HistoryInv, SnapshotInv,
       ProvedGroupsAreDead, Spent, RunningPids
<1> QED BY <1>1, <1>2, <1>3, <1>4, <1>5, <1>6, <1>7, <1>8 DEF ProofNext, Prover

\* The inductive invariant of the proof of a zombie group.
THEOREM AlwaysSound == ProofSpec => []SoundInv
<1>1. ProofInit => SoundInv
  BY InitSound
<1>2. SoundInv /\ [ProofNext]_proofVars => SoundInv'
  BY NextSound
<1> QED BY <1>1, <1>2, PTL DEF ProofSpec

\* Every variable keeps its type.
THEOREM TypeCorrect == ProofSpec => []ProofTypeOK
<1>1. SoundInv => ProofTypeOK
  BY DEF SoundInv
<1> QED BY <1>1, AlwaysSound, PTL

\* prove_darwin_process_group_all_zombies returns only of a group without a
\* running process, and none will run in it again.
THEOREM ProofIsSound == ProofSpec => []ProvedGroupsAreDead
<1>1. SoundInv => ProvedGroupsAreDead
  BY DEF SoundInv
<1> QED BY <1>1, AlwaysSound, PTL
-----------------------------------------------------------------------------
(* The proof of a group of zombies succeeds.                               *)

\* No process runs, and each has its first number.
QuietGroup == RunningPids = {} /\ \A p \in Pid : start[p] = 0

Firsts(S) == S \X {0}

\* What the last snapshot says of a group of zombies: all that are left were in
\* it, and it was complete, or somebody has vanished from it for good.
QuietHistory ==
    /\ requiredAbsent \cap ZombiePids = {}
    /\ requiredAbsent \subseteq previousMembers
    /\ previousMembers = NoSnapshot => previousComplete = NoSnapshot /\ stability = 0
    /\ previousMembers # NoSnapshot =>
          /\ ZombiePids \subseteq previousMembers
          /\ \/ previousComplete = Firsts(previousMembers)
             \/ previousComplete = NoSnapshot /\ requiredAbsent # {}

QuietSnapshot ==
    phase \in {"read", "recheck"} =>
        /\ ZombiePids \subseteq members
        /\ \A p \in members : table[p] # "outside"
        /\ MembersShrink
        /\ vanished \cap ZombiePids = {} /\ vanished \subseteq members
        /\ identities \subseteq Firsts(members)
        /\ \A p \in members : p \in vanished \/ <<p, 0>> \in identities \/ p \in todo
        /\ todo \subseteq members
        /\ phase = "recheck" => todo = {}

\* Two attempts for each member that has gone, and one or two for the last snapshot.
Spared ==
    previousMembers # NoSnapshot =>
        stability <= 2 * (Cardinality(Pid) - Cardinality(previousMembers))
                        + (IF previousComplete = NoSnapshot THEN 2 ELSE 1)

QuietInv ==
    ~disturbed => /\ result # "rejected"
                  /\ live = {} /\ pendingLive = {} /\ known \subseteq Firsts(Pid)
                  /\ QuietGroup /\ QuietHistory /\ QuietSnapshot /\ Spared
-----------------------------------------------------------------------------
LEMMA FirstsOfSome ==
  ASSUME NEW S, S # {}
  PROVE  Firsts(S) # NoSnapshot
<1>1. PICK p \in S : TRUE
  OBVIOUS
<1>2. <<p, 0>> \in Firsts(S)
  BY DEF Firsts
<1> QED BY <1>2 DEF NoSnapshot

LEMMA InitQuiet == ProofInit => QuietInv
BY DEF ProofInit, QuietInv, QuietGroup, QuietHistory, QuietSnapshot, Spared, NoSnapshot, Firsts

\* The kernel only collects the zombies of a quiet group, and lets strangers end.
LEMMA KernelQuiet ==
  ASSUME ProofTypeOK, QuietInv, Kernel
  PROVE  QuietInv'
<1> SUFFICES ASSUME ~disturbed' PROVE QuietInv'
  BY DEF QuietInv
<1> USE DEF proverVars, snapshotVars, historyVars, knownVars, countVars
<1>1. UNCHANGED <<proverVars, disturbed>>
  BY DEF Kernel, Exit, CollectedByOthers, Leave, Reused, StrangerEnds, Fork, Takes, Turns
<1>2. QuietGroup
  BY <1>1 DEF QuietInv
<1>3. PICK p \in Pid : CollectedByOthers(p) \/ StrangerEnds(p)
  BY <1>2 DEF Kernel, Exit, Leave, Reused, Fork, Takes, Turns, QuietGroup, RunningPids
<1>4. start' = start /\ table[p] \in {"zombie", "outside"} /\ table' = [table EXCEPT ![p] = "free"]
  BY <1>3 DEF CollectedByOthers, StrangerEnds, Turns
<1>5. QuietGroup' /\ ZombiePids' \subseteq ZombiePids
  BY <1>2, <1>4 DEF ProofTypeOK, QuietGroup, RunningPids, ZombiePids
<1>6. QuietHistory' /\ Spared'
  BY <1>1, <1>5 DEF QuietInv, QuietHistory, Spared
<1>7. QuietSnapshot'
  BY <1>1, <1>4, <1>5 DEF QuietInv, QuietSnapshot, ProofTypeOK, MembersShrink
<1> QED BY <1>1, <1>5, <1>6, <1>7 DEF QuietInv

LEMMA ListQuiet ==
  ASSUME ProofTypeOK, QuietInv, List
  PROVE  QuietInv'
<1> SUFFICES ASSUME ~disturbed' PROVE QuietInv'
  BY DEF QuietInv
<1> USE DEF List, historyVars, knownVars, countVars, tableVars
<1>1. ~disturbed /\ ZombiePids \subseteq members'
  BY DEF ProofTypeOK
<1>2. RunningPids = {} /\ GroupLeader \in ZombiePids
  BY <1>1 DEF QuietInv, QuietGroup, RunningPids, ProofTypeOK, Pid, ZombiePids
<1>3. members' = ZombiePids /\ ZombiePids' = ZombiePids
  BY <1>1, <1>2 DEF ZombiePids
<1>4. QuietGroup' /\ QuietHistory' /\ Spared'
  BY <1>1, <1>3 DEF QuietInv, QuietGroup, RunningPids, QuietHistory, Spared
<1>5. QuietSnapshot'
  BY <1>1, <1>3 DEF QuietInv, QuietHistory, QuietSnapshot, MembersShrink, ZombiePids, Firsts,
       NoSnapshot
<1> QED BY <1>1, <1>4, <1>5 DEF QuietInv

LEMMA ReadQuiet ==
  ASSUME ProofTypeOK, QuietInv, NEW p \in Pid, Read(p)
  PROVE  QuietInv'
<1> SUFFICES ASSUME ~disturbed' PROVE QuietInv'
  BY DEF QuietInv
<1> USE DEF Read, historyVars, knownVars, countVars, tableVars
<1>1. ~disturbed /\ ZombiePids' = ZombiePids /\ p \in members
  BY DEF ZombiePids, QuietInv, QuietSnapshot
<1>2. QuietGroup' /\ QuietHistory' /\ Spared'
  BY <1>1 DEF QuietInv, QuietGroup, RunningPids, QuietHistory, Spared
<1>3. live' = {} /\ start[p] = 0
  BY <1>1 DEF QuietInv, QuietGroup, RunningPids
<1>4. QuietSnapshot'
  BY <1>1, <1>3 DEF QuietInv, QuietSnapshot, MembersShrink, ZombiePids, Firsts
<1> QED BY <1>1, <1>2, <1>3, <1>4 DEF QuietInv

LEMMA CompareQuiet ==
  ASSUME ProofTypeOK, QuietInv, Compare \/ CompareRejects
  PROVE  QuietInv'
<1> SUFFICES ASSUME ~disturbed' PROVE QuietInv'
  BY DEF QuietInv
<1> USE DEF historyVars, countVars, snapshotVars, tableVars
<1>1. ~disturbed /\ ZombiePids' = ZombiePids
  BY DEF Compare, CompareRejects, Rejects, ZombiePids
<1>2. Unchanged
  <2>1. known \subseteq Firsts(Pid) /\ identities \subseteq Firsts(Pid) /\ MembersShrink
    BY <1>1 DEF QuietInv, QuietSnapshot, Compare, CompareRejects, ProofTypeOK, Firsts
  <2>2. \A i, j \in Firsts(Pid) : i[1] = j[1] => i = j
    BY DEF Firsts
  <2> QED BY <2>1, <2>2 DEF Unchanged, SameProcesses
<1>3. Compare
  BY <1>2 DEF CompareRejects
<1>4. QuietGroup' /\ QuietHistory' /\ Spared'
  BY <1>1, <1>3 DEF QuietInv, QuietGroup, RunningPids, QuietHistory, Spared, Compare
<1>5. known' \subseteq Firsts(Pid) /\ todo' = {}
  BY <1>1, <1>3 DEF Compare, QuietInv, QuietSnapshot, Firsts, ProofTypeOK
<1>6. QuietSnapshot'
  BY <1>1, <1>3, <1>5 DEF QuietInv, QuietSnapshot, MembersShrink, ZombiePids, Compare
<1> QED BY <1>1, <1>3, <1>4, <1>5, <1>6 DEF QuietInv, Compare

\* Nothing of a quiet group is read again, or is a stranger.
LEMMA OthersQuiet ==
  ASSUME ProofTypeOK, QuietInv, NEW p \in Pid, ReadAgain(p) \/ ReadsStranger(p) \/ RecheckRejects(p)
  PROVE  disturbed /\ QuietInv'
<1>1. disturbed' = disturbed
  BY DEF ReadAgain, ReadsStranger, RecheckRejects
<1>2. p \in todo /\ phase \in {"read", "recheck"} /\ (phase = "recheck" \/ table[p] = "outside")
  BY DEF ReadAgain, ReadsStranger, RecheckRejects
<1> QED BY <1>1, <1>2 DEF QuietInv, QuietSnapshot

\* The group has at most so many members that collecting them one at a time, two
\* attempts each, does not use up the stability attempts: 2 * 3 + 1 < 8 in the code.
FewMembers == IsFiniteSet(Others) /\ 2 * Cardinality(Others) + 1 < StabilityAttempts

\* What the proof needs to know of the sizes of sets of numbers.
LEMMA Sizes ==
  ASSUME FewMembers
  PROVE  /\ IsFiniteSet(Pid) /\ Cardinality(Pid) = Cardinality(Others) + 1
         /\ Cardinality(Others) \in Nat
         /\ \A S \in SUBSET Pid : Cardinality(S) \in Nat /\ IsFiniteSet(S)
         /\ \A S \in SUBSET Pid : S # {} => Cardinality(S) >= 1
         /\ \A S \in SUBSET Pid : \A T \in SUBSET S :
               T # S => Cardinality(T) + 1 <= Cardinality(S)
<1>1. IsFiniteSet(Pid) /\ Cardinality(Pid) = Cardinality(Others) + 1 /\ Cardinality(Others) \in Nat
  BY FS_AddElement, FS_CardinalityType, ZombieAssumption DEF FewMembers, Pid
<1>2. \A S \in SUBSET Pid : Cardinality(S) \in Nat /\ IsFiniteSet(S)
  BY <1>1, FS_Subset, FS_CardinalityType
<1>3. \A S \in SUBSET Pid : S # {} => Cardinality(S) >= 1
  BY <1>2, FS_EmptySet
<1>4. ASSUME NEW S \in SUBSET Pid, NEW T \in SUBSET S, T # S
      PROVE  Cardinality(T) + 1 <= Cardinality(S)
  <2>1. T \in SUBSET Pid
    OBVIOUS
  <2> QED BY <1>2, <1>4, <2>1, FS_Subset
<1> QED BY <1>1, <1>2, <1>3, <1>4

LEMMA RetriesQuiet ==
  ASSUME FewMembers, ProofTypeOK, QuietInv, Retries
  PROVE  QuietInv'
<1> SUFFICES ASSUME ~disturbed' PROVE QuietInv'
  BY DEF QuietInv
<1> USE DEF snapshotVars, tableVars
<1>1. ~disturbed /\ ZombiePids' = ZombiePids /\ Judging /\ ~Stable
  BY DEF Retries, ZombiePids
<1>2. /\ live = {} /\ pendingLive' = {} /\ stability' = stability + 1
      /\ previousMembers' = members /\ requiredAbsent' = vanished
      /\ previousComplete' = IF vanished = {} THEN identities ELSE NoSnapshot
  BY <1>1 DEF Retries, QuietInv, Counts, Complete
<1>3. GroupLeader \in ZombiePids
  BY <1>1 DEF QuietInv, QuietGroup, RunningPids, ProofTypeOK, Pid, ZombiePids
<1>4. /\ GroupLeader \in members /\ members \subseteq Pid /\ vanished \subseteq members
      /\ GroupLeader \notin vanished /\ vanished \cap ZombiePids = {} /\ ZombiePids \subseteq members
      /\ vanished = {} => identities = Firsts(members)
  BY <1>1, <1>3 DEF QuietInv, QuietSnapshot, Judging, ProofTypeOK, Firsts
<1>5. QuietGroup' /\ QuietHistory'
  BY <1>1, <1>2, <1>4 DEF QuietInv, QuietGroup, RunningPids, QuietHistory, NoSnapshot, Retries
<1>6. Spared'
  <2> DEFINE c(S) == Cardinality(S)
  <2>1. c(Pid) \in Nat /\ c(members) \in Nat /\ c(members) <= c(Pid) /\ stability \in Nat
    <3>1. members = Pid \/ c(members) + 1 <= c(Pid)
      BY <1>4, Sizes
    <3> QED BY <1>4, <3>1, Sizes DEF ProofTypeOK
  <2>2. CASE previousMembers = NoSnapshot
    <3>1. stability' = 1
      BY <1>1, <1>2, <2>2 DEF QuietInv, QuietHistory
    <3> QED BY <1>2, <2>1, <3>1 DEF Spared
  <2>3. CASE previousMembers # NoSnapshot
    <3>1. members \subseteq previousMembers /\ requiredAbsent \cap members = {}
      BY <1>1, <2>3 DEF QuietInv, QuietSnapshot, Judging, MembersShrink
    <3>2. /\ c(previousMembers) \in Nat
          /\ members = previousMembers \/ c(members) + 1 <= c(previousMembers)
      BY <3>1, Sizes DEF ProofTypeOK
    <3>3. members = previousMembers => previousComplete # NoSnapshot
      BY <1>1, <2>3, <3>1, FirstsOfSome DEF QuietInv, QuietHistory, NoSnapshot
    <3>4. members = previousMembers => previousComplete' = NoSnapshot
      BY <1>1, <1>2, <1>4, <2>3, <3>3 DEF QuietInv, QuietHistory, Stable, Complete
    <3>5. stability <= 2 * (c(Pid) - c(previousMembers))
                          + (IF previousComplete = NoSnapshot THEN 2 ELSE 1)
      BY <1>1, <2>3 DEF QuietInv, Spared
    <3> QED BY <1>2, <2>1, <3>2, <3>3, <3>4, <3>5 DEF Spared
  <2> QED BY <2>2, <2>3
<1>7. result' # "rejected" /\ phase' # "recheck" /\ phase' # "read"
  <2>1. Cardinality(members) >= 1 /\ Cardinality(members) \in Nat
    BY <1>4, Sizes
  <2>2. vanished # {} => Cardinality(members) >= 2
    <3>1. /\ members \ vanished \in SUBSET members /\ members \ vanished \in SUBSET Pid
          /\ members \ vanished # {}
      BY <1>4
    <3>2. Cardinality(members \ vanished) >= 1 /\ Cardinality(members \ vanished) \in Nat
      BY <3>1, Sizes
    <3>3. vanished # {} => Cardinality(members \ vanished) + 1 <= Cardinality(members)
      BY <1>4, <3>1, Sizes
    <3> QED BY <2>1, <3>2, <3>3
  <2>3. members # NoSnapshot /\ (previousComplete' = NoSnapshot => vanished # {})
    BY <1>2, <1>4, FirstsOfSome DEF NoSnapshot
  <2>4. stability' <= 2 * (Cardinality(Pid) - 1) + 1
    BY <1>2, <1>6, <2>1, <2>2, <2>3, Sizes DEF Spared
  <2>5. stability' < StabilityAttempts
    BY <1>2, <2>4, Sizes, ZombieAssumption DEF FewMembers, ProofTypeOK
  <2>6. ~GivesUp
    BY <1>2, <2>5, ZombieAssumption DEF GivesUp, ProofTypeOK
  <2> QED BY <1>1, <2>6 DEF Retries, QuietInv
<1>8. known' = known /\ live' = live
  BY DEF Retries
<1> QED BY <1>1, <1>2, <1>5, <1>6, <1>7, <1>8 DEF QuietInv, QuietSnapshot

LEMMA NextQuiet ==
  ASSUME FewMembers, ProofTypeOK, QuietInv, [ProofNext]_proofVars
  PROVE  QuietInv'
<1>1. CASE Kernel
  BY <1>1, KernelQuiet
<1>2. CASE List \/ Compare \/ CompareRejects \/ Retries
  BY <1>2, ListQuiet, CompareQuiet, RetriesQuiet
<1>3. CASE \E p \in Pid : Read(p) \/ ReadsStranger(p) \/ ReadAgain(p) \/ RecheckRejects(p)
  BY <1>3, ReadQuiet, OthersQuiet
<1>4. CASE Fails
  BY <1>4 DEF Fails, QuietInv
<1>5. CASE Proves \/ UNCHANGED proofVars
  BY <1>5 DEF Proves, Ends, proofVars, tableVars, proverVars, snapshotVars, historyVars,
       knownVars, countVars, QuietInv, QuietGroup, QuietHistory, QuietSnapshot, Spared,
       MembersShrink, RunningPids, ZombiePids
<1> QED BY <1>1, <1>2, <1>3, <1>4, <1>5 DEF ProofNext, Prover

\* A group of zombies that fits the stability attempts is not rejected, however
\* its members are collected meanwhile.
THEOREM ZombiesAreSpared ==
  ASSUME FewMembers
  PROVE  ProofSpec => []ZombiesAreNotRejected
<1>1. ProofTypeOK /\ QuietInv /\ [ProofNext]_proofVars => QuietInv'
  BY NextQuiet
<1>2. QuietInv => ZombiesAreNotRejected
  BY DEF QuietInv, ZombiesAreNotRejected
<1> QED BY <1>1, <1>2, InitQuiet, TypeCorrect, PTL DEF ProofSpec
==============================================================================

--------------------------- MODULE CompileDeadline ---------------------------
(***************************************************************************)
(* context_compiler.isolation.compile_isolated on POSIX: a parent starts a  *)
(* worker as the leader of a new process group, observes its exit without   *)
(* reaping it, signals the group while the unreaped leader still anchors    *)
(* the group number, reaps the leader, and only then reads the response.    *)
(*                                                                         *)
(* The worker and what it spawns run concurrently with the parent; they may *)
(* hang, ignore SIGTERM, be killed, change their credentials or leave the   *)
(* group.  Time is the order of events: Expire is the budget of the call    *)
(* being spent, Lapse the deadline of the wait for the worker passing, and  *)
(* any other bounded wait of the parent may run out.  The two kernels       *)
(* differ in what killpg() does to zombies.                                *)
(***************************************************************************)
EXTENDS FiniteSets

CONSTANTS Leader,  \* the worker
          Child    \* processes the worker and its children may start

ASSUME DeadlineAssumption == Leader \notin Child

Proc == Child \cup {Leader}

VARIABLES state,    \* of each process; "dying" has a fatal signal pending
          escaped,  \* the processes that have left the group
          deaf,     \* the processes that survive SIGTERM
          foreign,  \* the processes the parent may not signal
          darwin,   \* the platform: Darwin, or else Linux
          stranger, \* the number of the reaped leader names somebody else
          strayed,  \* a signal of the parent has reached that stranger
          worker,   \* where the worker is in run_worker()
          status,   \* its exit status
          response, \* what response.json holds
          expired,  \* timeout_seconds have passed since the call began
          lapsed,   \* the deadline of _wait_posix_worker_without_reaping has passed
          late,     \* the budget was spent before that wait, or the worker had
                    \* not exited when the wait's deadline passed
          spared,   \* the kernel has refused the direct kill of the cleanup
          pc,       \* where the parent is
          observed, \* leader_exited, as the last waitid() reported it
          timedOut, \* timed_out
          raised,   \* an exception waits for the cleanup in finally
          outcome   \* how the call ended

kernelVars == <<state, escaped, stranger, strayed>>
traits == <<deaf, foreign, darwin>>
workerVars == <<worker, status, response>>
pastVars == <<expired, lapsed, late, spared>>
parentVars == <<pc, observed, timedOut, raised, outcome>>
vars == <<kernelVars, traits, workerVars, pastVars, parentVars>>

Signalling == {"terminate", "recheck", "grace", "force", "confirm", "prove"}
Reaping == {"reap", "kill", "rereap"}
Fallback == {"killDirect", "waitDirect"}
Cleanup == Signalling \cup Reaping \cup Fallback
Polling == {"wait", "observe", "observed"}
Waiting == {"remaining"} \cup Polling
Steps == {"prepare", "spawn", "read", "done"} \cup Waiting \cup Cleanup
Outcomes == {"none", "ok", "timeout", "worker_error", "unusable", "not_started",
             "unobservable", "interrupted", "cleanup_failed", "abandoned"}

TypeOK ==
    /\ state \in [Proc -> {"none", "running", "dying", "zombie", "gone"}]
    /\ escaped \subseteq Child /\ foreign \subseteq Child /\ deaf \subseteq Proc
    /\ darwin \in BOOLEAN /\ stranger \in BOOLEAN /\ strayed \in BOOLEAN
    /\ worker \in {"compiling", "written", "failing", "reported"}
    /\ status \in {"none", "0", "1", "2", "signal"}
    /\ response \in {"none", "ok", "error"}
    /\ expired \in BOOLEAN /\ lapsed \in BOOLEAN /\ late \in BOOLEAN
    /\ spared \in BOOLEAN
    /\ pc \in Steps
    /\ observed \in BOOLEAN /\ timedOut \in BOOLEAN
    /\ raised \in {"none", "unobservable", "interrupted"}
    /\ outcome \in Outcomes
    /\ pc = "done" <=> outcome # "none"
-----------------------------------------------------------------------------
(* The kernel.                                                             *)

\* Who the group number stands for: an unreaped zombie still is a member.
Group == {p \in Proc \ escaped : state[p] \notin {"none", "gone"}}
Signallable == {p \in Group \ foreign : darwin => state[p] # "zombie"}

\* ESRCH, EPERM or success.
Delivery == IF Group = {} THEN "gone" ELSE IF Signallable = {} THEN "denied" ELSE "sent"

\* Who dies of a signal; with no member left the number may be a stranger's.
KillGroup(immune) ==
    /\ state' = [p \in Proc |-> IF p \in Signallable \ immune /\ state[p] = "running"
                                THEN "dying" ELSE state[p]]
    /\ strayed' = (strayed \/ (Group = {} /\ stranger))
    /\ UNCHANGED <<escaped, stranger>>

\* Probing a group is signalling it too.
ProbeGroup == KillGroup(Proc)

LeaderIsZombie == state[Leader] = "zombie"
Reaped == state[Leader] = "gone"

\* An unreaped process dies: a child may be collected at once by its parent.
Die(p) ==
    /\ state[p] \in {"running", "dying"}
    /\ \/ state' = [state EXCEPT ![p] = "zombie"]
       \/ p # Leader /\ state' = [state EXCEPT ![p] = "gone"]
    /\ status' = IF p = Leader THEN "signal" ELSE status
    /\ UNCHANGED <<escaped, stranger, strayed, traits, worker, response, pastVars,
                   parentVars>>

\* A zombie other than the leader is collected by its own parent.
Collected(p) ==
    /\ p # Leader
    /\ state[p] = "zombie"
    /\ state' = [state EXCEPT ![p] = "gone"]
    /\ UNCHANGED <<escaped, stranger, strayed, traits, workerVars, pastVars, parentVars>>

Spawn(p, c) ==
    /\ state[p] = "running"
    /\ state[c] = "none"
    /\ p \in foreign => c \in foreign
    /\ state' = [state EXCEPT ![c] = "running"]
    /\ escaped' = IF p \in escaped THEN escaped \cup {c} ELSE escaped
    /\ UNCHANGED <<stranger, strayed, traits, workerVars, pastVars, parentVars>>

\* setsid(), or setpgid(): not for a group leader.
Escape(c) ==
    /\ state[c] = "running"
    /\ escaped' = escaped \cup {c}
    /\ UNCHANGED <<state, stranger, strayed, traits, workerVars, pastVars, parentVars>>

\* The number is free once the leader is reaped and the group is empty.
Reuse ==
    /\ Reaped
    /\ Group = {}
    /\ stranger' = TRUE
    /\ UNCHANGED <<state, escaped, strayed, traits, workerVars, pastVars, parentVars>>

\* timeout_seconds have passed.
Expire ==
    /\ ~expired
    /\ expired' = TRUE
    /\ late' = (late \/ pc \in {"prepare", "spawn", "remaining"})
    /\ UNCHANGED <<lapsed, spared, kernelVars, traits, workerVars, parentVars>>

\* The wait has a deadline of its own: what remained when the parent asked, from
\* the moment the wait begins.  It is never before the other.
Lapse ==
    /\ expired /\ ~lapsed
    /\ pc \in Polling
    /\ lapsed' = TRUE
    /\ late' = (late \/ state[Leader] \in {"none", "running", "dying"})
    /\ UNCHANGED <<expired, spared, kernelVars, traits, workerVars, parentVars>>
-----------------------------------------------------------------------------
(* run_worker.                                                             *)

WorkerStep(from, to) ==
    /\ state[Leader] = "running"
    /\ worker = from
    /\ worker' = to
    /\ UNCHANGED <<kernelVars, traits, status, pastVars, parentVars>>

\* atomic_write_text installs a complete response.
WorkerWrites == WorkerStep("compiling", "written") /\ response' = "ok"

\* An exception in the compilation, or in the write: also after the response
\* was installed, when its directory cannot be synced.
WorkerRaises ==
    /\ \E from \in {"compiling", "written"} : WorkerStep(from, "failing")
    /\ UNCHANGED response

WorkerReports == WorkerStep("failing", "reported") /\ response' = "error"

\* It exits 0 after a result, 1 after an error record, 2 without one.
WorkerExits ==
    /\ state[Leader] = "running"
    /\ worker # "compiling"
    /\ status' = CASE worker = "written"  -> "0"
                   [] worker = "reported" -> "1"
                   [] worker = "failing"  -> "2"
    /\ state' = [state EXCEPT ![Leader] = "zombie"]
    /\ UNCHANGED <<escaped, stranger, strayed, traits, worker, response, pastVars,
                   parentVars>>
-----------------------------------------------------------------------------
(* compile_isolated: starting and waiting.                                 *)

Elsewhere == UNCHANGED <<kernelVars, traits, workerVars, pastVars>>

Ends(how) == pc' = "done" /\ outcome' = how /\ UNCHANGED <<observed, timedOut, raised>>
Goes(step) == pc' = step /\ UNCHANGED <<observed, timedOut, raised, outcome>>

\* Where the cleanup begins: an exited leader leaves nobody to ask politely.
FirstSignal(exited) == IF exited THEN "force" ELSE "terminate"

TimesOut ==
    /\ timedOut' = TRUE /\ observed' = FALSE
    /\ pc' = FirstSignal(FALSE)
    /\ UNCHANGED <<raised, outcome>>

\* An exception reaches the finally clause before the cleanup has begun.
Raises(what, exited) ==
    /\ raised' = what /\ observed' = exited
    /\ pc' = FirstSignal(exited)
    /\ UNCHANGED <<timedOut, outcome>>

Prepare ==
    /\ pc = "prepare"
    /\ \/ Ends("not_started")
       \/ expired /\ Ends("timeout")
       \/ ~expired /\ Goes("spawn")
    /\ Elsewhere

Start ==
    /\ pc = "spawn"
    /\ \/ Ends("not_started") /\ UNCHANGED state
       \/ Goes("remaining") /\ state' = [state EXCEPT ![Leader] = "running"]
    /\ UNCHANGED <<escaped, stranger, strayed, traits, workerVars, pastVars>>

Remaining ==
    /\ pc = "remaining"
    /\ IF expired THEN TimesOut ELSE Goes("wait")
    /\ Elsewhere

\* _wait_posix_worker_without_reaping looks at the clock, at the worker, and at
\* the clock again.
Wait ==
    /\ pc = "wait"
    /\ IF lapsed THEN TimesOut ELSE Goes("observe")
    /\ Elsewhere

\* slip: the exit is observed by reaping.
ObserveReaping ==
    /\ pc = "observe"
    /\ pc' = "observed"
    /\ observed' = LeaderIsZombie
    /\ state' = IF LeaderIsZombie THEN [state EXCEPT ![Leader] = "gone"] ELSE state
    /\ UNCHANGED <<timedOut, raised, outcome, escaped, stranger, strayed, traits,
                   workerVars, pastVars>>

\* waitid(WNOHANG | WNOWAIT): the answer, an interrupted call, or an error.
Observe ==
    /\ pc = "observe"
    /\ \/ /\ pc' = "observed"
          /\ observed' \in {LeaderIsZombie, FALSE}
          /\ UNCHANGED <<timedOut, raised, outcome>>
       \/ Raises("unobservable", FALSE)
    /\ Elsewhere

\* slip: the clock is not looked at again.
AcceptLate ==
    /\ pc = "observed"
    /\ Goes(IF observed THEN FirstSignal(TRUE) ELSE "wait")
    /\ Elsewhere

Accept ==
    /\ pc = "observed"
    /\ IF lapsed THEN TimesOut
       ELSE Goes(IF observed THEN FirstSignal(TRUE) ELSE "wait")
    /\ Elsewhere
-----------------------------------------------------------------------------
(* _finalize_posix_compile_process_fail_closed.                            *)

UnlessKernel == UNCHANGED <<traits, workerVars, pastVars>>

\* A system call of the cleanup fails: the direct child is killed all the same.
\* (After a failing kill() the child is waited for first, as in WaitDirect.)
CleanupFails ==
    /\ pc \in (Signalling \ {"prove"}) \cup Reaping
    /\ Goes("killDirect")
    /\ Elsewhere

\* SIGTERM to the group.
Terminate ==
    /\ pc = "terminate"
    /\ KillGroup(deaf)
    /\ Goes(CASE Delivery = "gone"   -> "reap"
              [] Delivery = "sent"   -> "grace"
              [] Delivery = "denied" -> IF darwin THEN "recheck" ELSE "killDirect")
    /\ UnlessKernel

\* Darwin denies a signal to a group of zombies: has the leader exited?
Recheck ==
    /\ pc = "recheck"
    /\ Goes(IF LeaderIsZombie THEN "prove" ELSE "killDirect")
    /\ Elsewhere

\* The group is probed until it is gone or may not be signalled.
Probe ==
    /\ pc = "grace"
    /\ Delivery # "sent"
    /\ ProbeGroup
    /\ Goes(IF Delivery = "gone" THEN "reap" ELSE IF darwin THEN "prove" ELSE "killDirect")
    /\ UnlessKernel

\* slip: the group is probed for ever.
GraceNeverEnds == FALSE /\ UNCHANGED vars
GraceEnds == pc = "grace" /\ Goes("force") /\ Elsewhere

\* SIGKILL to the group.
ForceKill ==
    /\ pc = "force"
    /\ KillGroup({})
    /\ Goes(CASE Delivery = "gone"   -> "reap"
              [] Delivery = "sent"   -> IF darwin THEN "confirm" ELSE "reap"
              [] Delivery = "denied" -> IF darwin THEN "confirm" ELSE "killDirect")
    /\ UnlessKernel

\* Darwin: probed until denied, or for as long as the grace period.
Confirm ==
    /\ pc = "confirm"
    /\ \/ ProbeGroup /\ Delivery # "sent" /\ Goes(IF Delivery = "gone" THEN "reap" ELSE "prove")
       \/ UNCHANGED kernelVars /\ Goes("prove")
    /\ UnlessKernel

\* slip: the proof is taken for granted.
ProofAssumed == pc = "prove" /\ Goes("reap") /\ Elsewhere
\* prove_darwin_process_group_all_zombies: bounded, and it may not succeed.
Prove ==
    /\ pc = "prove"
    /\ \/ (\A p \in Group : state[p] = "zombie") /\ Goes("reap")
       \/ Goes("killDirect")
    /\ Elsewhere

Collect == state' = [state EXCEPT ![Leader] = "gone"] /\ UNCHANGED <<escaped, stranger, strayed>>

\* The cleanup is over: the exception, the timeout, or else the response.
AfterCleanup ==
    IF raised # "none" THEN Ends(raised)
    ELSE IF timedOut THEN Ends("timeout")
    ELSE Goes("read")

\* process.wait(timeout=1), before and after a kill.
Reap ==
    /\ pc \in {"reap", "rereap"}
    /\ LeaderIsZombie
    /\ Collect
    /\ AfterCleanup
    /\ UnlessKernel

ReapTimesOut ==
    /\ pc = "reap"
    /\ ~LeaderIsZombie
    /\ Goes("kill")
    /\ Elsewhere

ReapGivesUp ==
    /\ pc = "rereap"
    /\ ~LeaderIsZombie
    /\ Goes("killDirect")
    /\ Elsewhere

\* Popen.kill() polls first, and signals only a child that has not exited.
KillLeader ==
    /\ UNCHANGED <<escaped, stranger, strayed>>
    /\ state' = [state EXCEPT ![Leader] = IF @ \in {"zombie", "gone"} THEN "gone" ELSE "dying"]

Kill ==
    /\ pc = "kill"
    /\ KillLeader
    /\ IF LeaderIsZombie THEN AfterCleanup ELSE Goes("rereap")
    /\ UnlessKernel

\* slip: the direct child is only waited for.
KillDirectSpares == pc = "killDirect" /\ Goes("waitDirect") /\ Elsewhere
\* _kill_and_reap_direct_compile_process: an error of kill() is suppressed.
KillDirect ==
    /\ pc = "killDirect"
    /\ \/ KillLeader /\ UNCHANGED spared
       \/ UNCHANGED kernelVars /\ spared' = TRUE
    /\ Goes("waitDirect")
    /\ UNCHANGED <<traits, workerVars, expired, lapsed, late>>

WaitDirect ==
    /\ pc = "waitDirect"
    /\ IF LeaderIsZombie THEN Collect ELSE UNCHANGED kernelVars
    /\ Ends("cleanup_failed")
    /\ UnlessKernel
-----------------------------------------------------------------------------
(* The response, and interrupts of the parent.                             *)

Read ==
    /\ pc = "read"
    /\ \/ Ends("unusable")
       \/ response = "error" /\ Ends("worker_error")
       \/ response = "ok" /\ status = "0" /\ Ends("ok")
    /\ Elsewhere

\* KeyboardInterrupt: cleaned up after in finally, unless the worker is not yet
\* known to the parent or the cleanup has already begun.
Interrupt ==
    /\ UNCHANGED <<escaped, stranger, strayed, traits, workerVars, pastVars>>
    /\ \/ /\ pc \in {"prepare", "spawn", "read"}
          /\ Ends("interrupted")
          /\ UNCHANGED state
       \/ /\ pc = "spawn"
          /\ Ends("abandoned")
          /\ state' = [state EXCEPT ![Leader] = "running"]
       \/ /\ pc \in Waiting
          /\ \E exited \in {FALSE, observed} : Raises("interrupted", exited)
          /\ UNCHANGED state
       \/ /\ pc \in Cleanup
          /\ Ends("abandoned")
          /\ UNCHANGED state
-----------------------------------------------------------------------------
Init ==
    /\ state = [p \in Proc |-> "none"]
    /\ escaped = {}
    /\ deaf \in SUBSET Proc
    /\ foreign \in SUBSET Child
    /\ darwin \in BOOLEAN
    /\ stranger = FALSE /\ strayed = FALSE
    /\ worker = "compiling" /\ status = "none" /\ response = "none"
    /\ expired = FALSE /\ lapsed = FALSE /\ late = FALSE /\ spared = FALSE
    /\ pc = "prepare"
    /\ observed = FALSE /\ timedOut = FALSE /\ raised = "none" /\ outcome = "none"

World ==
    \/ \E p \in Proc : Die(p) \/ Collected(p) \/ \E c \in Child : Spawn(p, c)
    \/ \E c \in Child : Escape(c)
    \/ Reuse
Worker == WorkerWrites \/ WorkerRaises \/ WorkerReports \/ WorkerExits
Begin == Prepare \/ Start \/ Remaining \/ Wait \/ Observe \/ Accept
Clean == \/ Terminate \/ Recheck \/ Probe \/ GraceEnds \/ ForceKill \/ Confirm \/ Prove
         \/ Reap \/ ReapTimesOut \/ Kill \/ ReapGivesUp \/ KillDirect \/ WaitDirect
Parent == Begin \/ Clean \/ Read

Clock == Expire \/ Lapse

Next == World \/ Worker \/ Clock \/ Parent \/ CleanupFails \/ Interrupt

Spec == Init /\ [][Next]_vars
\* The parent is scheduled and time passes; the worker may hang.
FairSpec == Spec /\ WF_vars(Parent) /\ WF_vars(Clock)
-----------------------------------------------------------------------------
(* Properties.                                                             *)

\* Every signal of the parent reaches its own group: the number never was free.
NeverSignalsAStranger == ~strayed

\* An artifact is returned only of a worker that was waited for before the budget
\* of the call was spent, had exited with success before the deadline of that
\* wait, and can no longer change the response.
OnlyTimelyResults ==
    outcome = "ok" => ~late /\ Reaped /\ status = "0" /\ response = "ok"

\* When the cleanup went through, however the call ended, its worker is reaped
\* and no member of its group runs on.  Linux cannot answer for members that
\* may not be signalled; on Darwin they make the cleanup fail.
CleanEndLeavesNothing ==
    (pc \in {"read", "done"} /\ outcome \notin {"cleanup_failed", "abandoned"}) =>
        /\ state[Leader] \in {"none", "gone"}
        /\ \A p \in Group : state[p] = "running" => p \in foreign /\ ~darwin

\* Even after a failed cleanup the worker itself does not outlive the call,
\* unless the kernel refused its last kill too.
WorkerDoesNotOutliveCall ==
    (pc = "done" /\ outcome # "abandoned" /\ ~spared) => state[Leader] # "running"

\* Whatever the worker does, the call ends.
CallEnds == <>(pc = "done")
=============================================================================

------------------------------ MODULE LocalQwen ------------------------------
(***************************************************************************)
(* local_qwen.LmsQwenCompletion: one completion, from the inference lock to *)
(* the framed answer, with the LM Studio CLI run by _run_bounded_process    *)
(* under a deadline and an output limit, and the cleanup of its processes   *)
(* by process_tree: a process group on Linux and Darwin, a Job Object on    *)
(* Windows.  The CLI, what it starts, the clock and another thread that     *)
(* wants the lock run between any two steps of the call.                    *)
(***************************************************************************)
EXTENDS Naturals, Sequences

CONSTANTS Leader,    \* the CLI process
          Child,     \* processes it may start
          Platform,  \* subset of {"linux", "darwin", "windows"}
          MaxOutput, \* max_output_chars
          MaxWritten \* bound on what is written to the pipe

ASSUME QwenAssumption ==
    /\ Leader \notin Child
    /\ Platform \subseteq {"linux", "darwin", "windows"}
    /\ MaxOutput \in Nat /\ MaxWritten \in Nat

Proc == Child \cup {Leader}

VARIABLES platform,
          state,    \* of each process; "dying" has a fatal signal pending
          outside,  \* the processes outside the owned group, or Job Object
          stranger, \* the number of the reaped leader names somebody else's group
          strayed,  \* a signal has reached it
          status,   \* the exit status of the leader
          mute,     \* processes that have closed their stdout
          pipe,     \* what was written and not read: characters, and halves of characters
          written,  \* how much was written
          lock,     \* _INFERENCE_LOCK
          expired,  \* the deadline of the process has passed
          pc,
          held,     \* the decoder holds half a character
          retained, \* retained_chars
          final,    \* the finally clause of _run_bounded_process has begun
          reason,   \* why there will be no result
          failed    \* some of the cleanup failed, or was cut short

kernelVars == <<state, outside, stranger, strayed>>
cliVars == <<status, mute, pipe, written>>
callVars == <<pc, held, retained, final, reason, failed>>
vars == <<platform, kernelVars, cliVars, lock, expired, callVars>>

Preflight == {"ls", "ps"}
Launching == {"spawn", "assign", "resume", "launchFailed", "launchWait"}
Reading == {"clock", "chunk"}
Awaiting == {"await", "awaitExit"}
Terminating == {"observe", "term", "recheck", "grace", "denied", "force", "confirm", "prove",
                "job", "jobWait"}
Reaping == {"reap", "kill", "rereap", "closeJob"}
Steps == {"lock", "judge", "release", "frame", "done"}
            \cup Preflight \cup Launching \cup Reading \cup Awaiting \cup Terminating \cup Reaping
Reasons == {"none", "busy", "preflight", "launch", "timeout", "exceeded", "undecodable",
            "unreadable", "interrupted", "abandoned", "cleanup_failed", "exit_status", "framing"}

TypeOK ==
    /\ platform \in Platform
    /\ state \in [Proc -> {"none", "suspended", "running", "dying", "zombie", "gone"}]
    /\ outside \subseteq Proc /\ stranger \in BOOLEAN /\ strayed \in BOOLEAN
    /\ status \in {"none", "zero", "other", "killed"}
    /\ mute \subseteq Proc /\ pipe \in Seq({"char", "half"}) /\ written \in 0..MaxWritten
    /\ lock \in {"free", "mine", "other"} /\ expired \in BOOLEAN
    /\ pc \in Steps /\ reason \in Reasons
    /\ held \in BOOLEAN /\ final \in BOOLEAN /\ failed \in BOOLEAN
    /\ retained \in 0..MaxOutput
-----------------------------------------------------------------------------
(* The kernel and the CLI.                                                 *)

Posix == platform # "windows"
Alive(p) == state[p] \in {"suspended", "running", "dying"}
\* The group, zombies included, or the processes of the job.
Owned == {p \in Proc \ outside : Alive(p) \/ (Posix /\ state[p] = "zombie")}
Holders == {p \in Proc \ mute : Alive(p)}

\* killpg(): Darwin does not find zombies, and may not find what is exiting.
Answers ==
    IF Owned = {} THEN {"gone"}
    ELSE IF platform = "linux" \/ \E p \in Owned : state[p] = "running" THEN {"sent"}
    ELSE IF \E p \in Owned : state[p] = "dying" THEN {"sent", "denied"}
    ELSE {"denied"}

SignalOwned(immune) ==
    /\ state' = [p \in Proc |-> IF p \in Owned \ immune /\ state[p] \in {"suspended", "running"}
                                THEN "dying" ELSE state[p]]
    /\ strayed' = (strayed \/ (Posix /\ Owned = {} /\ stranger))
    /\ UNCHANGED <<outside, stranger>>

Exited == state[Leader] = "zombie"

World == UNCHANGED <<platform, lock, expired, callVars>>

Write(p) ==
    /\ state[p] = "running" /\ p \notin mute
    /\ written < MaxWritten
    /\ written' = written + 1
    /\ \E unit \in {"char", "half"} : pipe' = Append(pipe, unit)
    /\ UNCHANGED <<kernelVars, status, mute>>
    /\ World

ClosesStdout(p) ==
    /\ state[p] = "running"
    /\ mute' = mute \cup {p}
    /\ UNCHANGED <<kernelVars, status, pipe, written>>
    /\ World

Spawn(p, c) ==
    /\ state[p] = "running" /\ state[c] = "none"
    /\ state' = [state EXCEPT ![c] = "running"]
    /\ outside' = IF p \in outside THEN outside \cup {c} ELSE outside
    /\ mute' = IF p \in mute THEN mute \cup {c} ELSE mute
    /\ UNCHANGED <<stranger, strayed, status, pipe, written>>
    /\ World

\* setsid() or setpgid(); a job is not left.
Escape(c) ==
    /\ Posix
    /\ state[c] = "running"
    /\ outside' = outside \cup {c}
    /\ UNCHANGED <<state, stranger, strayed, cliVars>>
    /\ World

Exits(p) ==
    /\ state[p] \in {"running", "dying"}
    /\ state' = [state EXCEPT ![p] = "zombie"]
    /\ IF p # Leader THEN UNCHANGED status
       ELSE IF state[p] = "dying" THEN status' = "killed"
       ELSE status' \in {"zero", "other"}
    /\ UNCHANGED <<outside, stranger, strayed, mute, pipe, written>>
    /\ World

Collected(c) ==
    /\ state[c] = "zombie"
    /\ state' = [state EXCEPT ![c] = "gone"]
    /\ UNCHANGED <<outside, stranger, strayed, cliVars>>
    /\ World

Reuse ==
    /\ Posix
    /\ state[Leader] = "gone"
    /\ Owned = {}
    /\ stranger' = TRUE
    /\ UNCHANGED <<state, outside, strayed, cliVars>>
    /\ World

Expire ==
    /\ ~expired
    /\ expired' = TRUE
    /\ UNCHANGED <<kernelVars, cliVars, platform, lock, callVars>>

\* Another thread's completion.
Other ==
    /\ \/ lock = "free" /\ lock' = "other"
       \/ lock = "other" /\ lock' = "free"
    /\ UNCHANGED <<kernelVars, cliVars, platform, expired, callVars>>
-----------------------------------------------------------------------------
(* __call__: the lock, the preflight, the start of the chat.               *)

Quiet == UNCHANGED <<kernelVars, cliVars, platform, lock, expired>>
Locals == UNCHANGED <<held, retained>>
Flags == UNCHANGED <<final, reason, failed>>
Goes(step) == pc' = step /\ Locals /\ Flags

\* There will be no result, because of `why`.
Gives(why, step) == reason' = why /\ pc' = step /\ Locals /\ UNCHANGED <<final, failed>>

Acquire ==
    /\ pc = "lock"
    /\ IF lock = "free" THEN lock' = "mine" /\ Goes("ls")
                        ELSE Gives("busy", "done") /\ UNCHANGED lock
    /\ UNCHANGED <<kernelVars, cliVars, platform, expired>>

\* Each is a bounded process of its own, whose answer must name the model.
AskCli ==
    /\ pc \in Preflight
    /\ \/ Gives("preflight", "release")
       \/ Goes(IF pc = "ls" THEN "ps" ELSE "spawn")
    /\ Quiet

\* slip: the process is created running.
LaunchRunning ==
    /\ pc = "spawn"
    /\ state' = [state EXCEPT ![Leader] = "running"]
    /\ Goes(IF Posix THEN "clock" ELSE "assign")
    /\ UNCHANGED <<outside, stranger, strayed, cliVars, platform, lock, expired>>

\* On Windows a suspended process, which is not yet in the job.
Launch ==
    /\ pc = "spawn"
    /\ \/ Gives("launch", "release") /\ UNCHANGED state
       \/ /\ state' = [state EXCEPT ![Leader] = IF Posix THEN "running" ELSE "suspended"]
          /\ Goes(IF Posix THEN "clock" ELSE "assign")
    /\ UNCHANGED <<outside, stranger, strayed, cliVars, platform, lock, expired>>

\* AssignProcessToJobObject and IsProcessInJob.
Assign ==
    /\ pc = "assign"
    /\ \/ Goes("resume") /\ outside' = outside \ {Leader}
       \/ Gives("launch", "launchFailed") /\ UNCHANGED outside
    /\ UNCHANGED <<state, stranger, strayed, cliVars, platform, lock, expired>>

\* resume_windows_process.
Resume ==
    /\ pc = "resume"
    /\ \/ Goes("clock") /\ state' = [state EXCEPT ![Leader] = "running"]
       \/ Gives("launch", "launchFailed") /\ UNCHANGED state
    /\ UNCHANGED <<outside, stranger, strayed, cliVars, platform, lock, expired>>

\* Popen.kill() polls first, and signals only a child that has not exited.
KillLeader(also) ==
    /\ state' = [p \in Proc |->
                    IF p = Leader /\ state[p] # "gone" THEN IF Exited THEN "gone" ELSE "dying"
                    ELSE IF p \in also THEN "dying" ELSE state[p]]
    /\ UNCHANGED <<outside, stranger, strayed>>

LaunchCleanup ==
    /\ pc = "launchFailed"
    /\ KillLeader({p \in Owned : Alive(p)})
    /\ Goes("launchWait")
    /\ UNCHANGED <<cliVars, platform, lock, expired>>

LaunchWait ==
    /\ pc = "launchWait"
    /\ pc' = "closeJob"
    /\ IF Exited THEN state' = [state EXCEPT ![Leader] = "gone"] /\ UNCHANGED failed
                 ELSE failed' = (state[Leader] # "gone") /\ UNCHANGED state
    /\ UNCHANGED <<final, reason, outside, stranger, strayed, cliVars, platform, lock, expired>>
    /\ Locals
-----------------------------------------------------------------------------
(* _run_bounded_process: reading the output.                               *)

Boundary == IF Posix THEN "observe" ELSE "job"
\* terminate_owned_tree(), because of `why`.
Stops(why) == Gives(why, Boundary)

Clock ==
    /\ pc = "clock"
    /\ IF expired THEN Stops("timeout") ELSE Goes("chunk")
    /\ Quiet

\* One unit of the output; two halves are a character.
ReadUnit ==
    /\ pc = "chunk"
    /\ pipe # <<>>
    /\ pipe' = Tail(pipe)
    /\ IF held /\ Head(pipe) = "char" THEN Stops("undecodable")
       ELSE IF ~held /\ Head(pipe) = "half"
            THEN held' = TRUE /\ pc' = "clock" /\ UNCHANGED retained /\ Flags
       ELSE IF retained = MaxOutput THEN Stops("exceeded")
       ELSE held' = FALSE /\ retained' = retained + 1 /\ pc' = "clock" /\ Flags
    /\ UNCHANGED <<kernelVars, status, mute, written, platform, lock, expired>>

NoData ==
    /\ pc = "chunk"
    /\ pipe = <<>> /\ Holders # {}
    /\ Goes("clock")
    /\ Quiet

\* slip: a quiet pipe is taken for the end of the output.
EndOfQuietOutput ==
    /\ pc = "chunk"
    /\ pipe = <<>>
    /\ IF held THEN Stops("undecodable") ELSE pc' = "await" /\ final' = TRUE /\ Locals /\ UNCHANGED <<reason, failed>>
    /\ Quiet

\* Nobody holds the pipe any more; half a character at the end is an error.
EndOfOutput ==
    /\ pc = "chunk"
    /\ pipe = <<>> /\ Holders = {}
    /\ IF held THEN Stops("undecodable")
       ELSE pc' = "await" /\ final' = TRUE /\ Locals /\ UNCHANGED <<reason, failed>>
    /\ Quiet

ReadFault == pc = "chunk" /\ Stops("unreadable") /\ Quiet

\* The leader must exit before the deadline too; it is not reaped.
Await ==
    /\ pc = "await"
    /\ IF expired THEN Stops("timeout") ELSE Goes("awaitExit")
    /\ Quiet

AwaitExit ==
    /\ pc = "awaitExit"
    /\ Goes(IF Exited THEN Boundary ELSE "await")
    /\ Quiet

\* The parent cannot observe its child: it only kills that child.
Unobservable ==
    /\ pc = "awaitExit"
    /\ Posix
    /\ KillLeader({})
    /\ failed' = TRUE
    /\ pc' = "reap" /\ Locals /\ UNCHANGED <<final, reason>>
    /\ UNCHANGED <<cliVars, platform, lock, expired>>
-----------------------------------------------------------------------------
(* terminate_owned_tree.                                                   *)

Still == UNCHANGED <<cliVars, platform, lock, expired>>

\* A call of the cleanup fails: the leader is killed all the same.
TerminationFails ==
    /\ pc \in Terminating
    /\ KillLeader({})
    /\ failed' = TRUE
    /\ pc' = "reap" /\ Locals /\ UNCHANGED <<final, reason>>
    /\ Still

\* terminate_anchored_posix_process_group: has the leader exited?
Observe ==
    /\ pc = "observe"
    /\ \E exited \in {Exited, FALSE} : Goes(IF exited THEN "force" ELSE "term")
    /\ Quiet

\* SIGTERM to the group, which some may survive.
Terminate ==
    /\ pc = "term"
    /\ \E deaf \in SUBSET Proc : SignalOwned(deaf)
    /\ \E answer \in Answers :
         Goes(CASE answer = "gone" -> "reap" [] answer = "sent" -> "grace"
                [] answer = "denied" -> "recheck")
    /\ Still

\* Denied: a group of zombies, if the leader has exited meanwhile.
Recheck == pc = "recheck" /\ Exited /\ Goes("prove") /\ Quiet

\* The group is probed until it is gone, is denied, or its leader has exited.
Probe ==
    /\ pc = "grace"
    /\ SignalOwned(Proc)
    /\ \E answer \in Answers :
         \/ answer = "gone" /\ Goes("reap")
         \/ answer = "denied" /\ Goes("denied")
         \/ answer = "sent" /\ Exited /\ Goes("force")
    /\ Still

GraceEnds == pc = "grace" /\ Goes("force") /\ Quiet

\* Darwin may deny before waitid() shows the exit: it is awaited, or the grace ends.
DeniedExit == pc = "denied" /\ Exited /\ Goes("prove") /\ Quiet

\* SIGKILL to the group.
ForceGroup ==
    /\ pc = "force"
    /\ SignalOwned({})
    /\ \E answer \in Answers :
         Goes(IF answer = "gone" \/ platform = "linux" THEN "reap" ELSE "confirm")
    /\ Still

\* _verify_darwin_process_group_after_sigkill.
Confirm ==
    /\ pc = "confirm"
    /\ \/ \E answer \in Answers \ {"sent"} :
            SignalOwned(Proc) /\ Goes(IF answer = "gone" THEN "reap" ELSE "prove")
       \/ Goes("prove") /\ UNCHANGED kernelVars
    /\ Still

\* The proof of ZombieProof.
Prove ==
    /\ pc = "prove"
    /\ \A p \in Owned : state[p] = "zombie"
    /\ Goes("reap")
    /\ Quiet

\* WindowsJob.terminate, and a kill of a leader that is not seen to have exited.
TerminateJob == pc = "job" /\ SignalOwned({}) /\ Goes("jobWait") /\ Still
JobIsEmpty ==
    /\ pc = "jobWait"
    /\ Owned = {}
    /\ KillLeader({})
    /\ Goes("reap")
    /\ Still
-----------------------------------------------------------------------------
(* Reaping, and the result.                                                *)

Ended == IF Posix THEN "judge" ELSE "closeJob"

\* process.wait(timeout=1.0), before and after a kill.
Reap ==
    /\ pc \in {"reap", "rereap"}
    /\ state[Leader] \in {"zombie", "gone"}
    /\ state' = [state EXCEPT ![Leader] = "gone"]
    /\ Goes(Ended)
    /\ UNCHANGED <<outside, stranger, strayed>>
    /\ Still

ReapTimesOut ==
    /\ pc = "reap"
    /\ Alive(Leader)
    /\ Goes("kill")
    /\ Quiet

Kill == pc = "kill" /\ KillLeader({}) /\ Goes("rereap") /\ Still

\* slip: nobody is told of it.
ReapGivesUpQuietly == pc = "rereap" /\ Alive(Leader) /\ Goes(Ended) /\ Quiet

ReapGivesUp ==
    /\ pc = "rereap"
    /\ Alive(Leader)
    /\ failed' = TRUE
    /\ pc' = Ended /\ Locals /\ UNCHANGED <<final, reason>>
    /\ Quiet

\* JOB_OBJECT_LIMIT_KILL_ON_JOB_CLOSE.
CloseJob ==
    /\ pc = "closeJob"
    /\ SignalOwned({})
    /\ Goes(IF reason = "launch" THEN "release" ELSE "judge")
    /\ Still

\* The errors in their order, and then _run: the exit status.
Judge ==
    /\ pc = "judge"
    /\ IF reason = "interrupted" THEN Goes("release")
       ELSE IF failed THEN Gives("cleanup_failed", "release")
       ELSE IF reason # "none" \/ status = "zero" THEN Goes("release")
       ELSE Gives("exit_status", "release")
    /\ Quiet

\* slip: only a call that went through releases the lock.
ReleaseResult ==
    /\ pc = "release"
    /\ lock' = IF reason = "none" THEN "free" ELSE lock
    /\ Goes(IF reason = "none" THEN "frame" ELSE "done")
    /\ UNCHANGED <<kernelVars, cliVars, platform, expired>>

Release ==
    /\ pc = "release"
    /\ lock' = "free"
    /\ Goes(IF reason = "none" THEN "frame" ELSE "done")
    /\ UNCHANGED <<kernelVars, cliVars, platform, expired>>

\* One JSON object after known status lines, or nothing.
Frame ==
    /\ pc = "frame"
    /\ Goes("done") \/ Gives("framing", "done")
    /\ Quiet

\* KeyboardInterrupt: while reading, the processes are terminated; while that
\* goes on, only the leader is; in the finally clause, nothing more is done.
Interrupt ==
    /\ \/ /\ pc \in (Preflight \cup {"spawn"})
          /\ Gives("interrupted", "release") /\ UNCHANGED state
       \/ /\ pc = "spawn" /\ Posix
          /\ state' = [state EXCEPT ![Leader] = "running"]
          /\ Gives("abandoned", "release")
       \/ /\ pc \in {"assign", "resume"}
          /\ Gives("launch", "launchFailed") /\ UNCHANGED state
       \/ /\ pc \in Reading
          /\ Stops("interrupted") /\ UNCHANGED state
       \/ /\ pc \in Terminating /\ ~final
          /\ reason' = "interrupted" /\ failed' = TRUE /\ pc' = "reap"
          /\ Locals /\ UNCHANGED <<final, state>>
       \/ /\ pc \in Awaiting \cup Reaping \cup Terminating /\ (pc \in Terminating => final)
          /\ Gives("abandoned", "release") /\ UNCHANGED state
    /\ UNCHANGED <<outside, stranger, strayed>>
    /\ Still
-----------------------------------------------------------------------------
Init ==
    /\ platform \in Platform
    /\ state = [p \in Proc |-> "none"]
    /\ outside = IF Posix THEN {} ELSE {Leader}
    /\ stranger = FALSE /\ strayed = FALSE
    /\ status = "none" /\ mute = {} /\ pipe = <<>> /\ written = 0
    /\ lock \in {"free", "other"}
    /\ expired = FALSE
    /\ pc = "lock"
    /\ held = FALSE /\ retained = 0
    /\ final = FALSE /\ reason = "none" /\ failed = FALSE

Environment ==
    \/ \E p \in Proc : Write(p) \/ ClosesStdout(p) \/ Exits(p) \/ \E c \in Child : Spawn(p, c)
    \/ \E c \in Child : Escape(c) \/ Collected(c)
    \/ Reuse \/ Other
Starting == Acquire \/ AskCli \/ Launch \/ Assign \/ Resume \/ LaunchCleanup \/ LaunchWait
Running == \/ Clock \/ ReadUnit \/ NoData \/ EndOfOutput \/ ReadFault
           \/ Await \/ AwaitExit \/ Unobservable
Cleaning == \/ TerminationFails \/ Observe \/ Terminate \/ Recheck \/ Probe \/ GraceEnds
            \/ DeniedExit \/ ForceGroup \/ Confirm \/ Prove \/ TerminateJob \/ JobIsEmpty
            \/ Reap \/ ReapTimesOut \/ Kill \/ ReapGivesUp \/ CloseJob
Call == Starting \/ Running \/ Cleaning \/ Judge \/ Release \/ Frame

Next == Environment \/ Expire \/ Call \/ Interrupt

Spec == Init /\ [][Next]_vars
\* The thread is scheduled and time passes; the CLI may hang.
FairSpec == Spec /\ WF_vars(Call) /\ WF_vars(Expire)
-----------------------------------------------------------------------------
(* Properties.                                                             *)

\* An answer is the whole output of a CLI process that ended by itself, with
\* success: nobody is left who could have written more, and nothing runs on.
AnswersAreComplete ==
    (pc = "done" /\ reason = "none") =>
        /\ pipe = <<>> /\ Holders = {} /\ ~held
        /\ status = "zero" /\ state[Leader] = "gone"
        /\ \A p \in Owned : state[p] # "running"

\* Every process that is the call's to end: on Windows all of them, elsewhere
\* those that did not leave the group.
CleanEndLeavesNothing ==
    (pc \in {"judge", "release", "frame", "done"} /\ ~failed /\ reason # "abandoned") =>
        \A p \in Proc : state[p] \in {"suspended", "running"} => Posix /\ p \in outside

\* No signal or probe reaches a group that took over the number.
NeverSignalsAStranger == ~strayed

\* Another thread gets the lock only when this call's CLI process has ended,
\* unless ending it failed or was interrupted.
OneCompletionAtATime ==
    lock = "other" => ~Alive(Leader) \/ failed \/ reason = "abandoned"

\* Whatever the CLI does, the call ends, and gives the lock back.
CallEnds == <>(pc = "done" /\ lock # "mine")
=============================================================================

----------------------------- MODULE ZombieProof -----------------------------
(***************************************************************************)
(* process_tree.prove_darwin_process_group_all_zombies: Darwin answers     *)
(* EPERM both for a group of zombies and for one that may not be signalled, *)
(* so the cleanup reads the group member by member, again and again, while *)
(* its processes fork, exit, are collected or leave, and numbers are used  *)
(* again.  The leader is unreaped: its number stays its own.               *)
(***************************************************************************)
EXTENDS Naturals

CONSTANTS GroupLeader,       \* the number of the leader, and of the group
          Others,            \* the other process numbers
          MaxStarts,         \* how often a number is used
          LiveAttempts,      \* _DARWIN_SIGNAL_TRANSITION_ATTEMPTS
          StabilityAttempts  \* _DARWIN_PROCESS_GROUP_STABILITY_ATTEMPTS

ASSUME ZombieAssumption ==
    /\ GroupLeader \notin Others
    /\ MaxStarts \in Nat
    /\ LiveAttempts \in Nat \ {0} /\ StabilityAttempts \in Nat \ {0}

Pid == Others \cup {GroupLeader}

VARIABLES table,             \* the state of the process that has the number, in or outside the group
          start,             \* its start time: the use of the number
          delivered,         \* termination_signal_delivered
          phase,             \* list, read, recheck, done
          todo,              \* the numbers still to be read
          members,           \* process_ids of this snapshot
          identities,        \* numbers and start times of the records read in it
          vanished, live,    \* ... of members that were gone, or not yet zombies
          previousMembers, previousComplete, requiredAbsent,
          known,             \* known_identities
          knownZombies, pendingLive,
          attempts,          \* live_transition_attempts
          stability,         \* stability_attempts
          result,
          listed,            \* ghost: the identities that ran when this snapshot was listed
          disturbed          \* ghost: something ran, took a number or was not listed, or a call failed

tableVars == <<table, start>>
snapshotVars == <<members, identities, vanished, live>>
historyVars == <<previousMembers, previousComplete, requiredAbsent>>
knownVars == <<known, knownZombies, pendingLive>>
countVars == <<attempts, stability>>
proverVars == <<delivered, phase, todo, snapshotVars, historyVars, knownVars, countVars,
                result, listed>>
proofVars == <<tableVars, proverVars, disturbed>>

Identity == Pid \X Nat
\* None of the code: a snapshot is never empty, it has the leader.
NoSnapshot == {}

ProofTypeOK ==
    /\ table \in [Pid -> {"free", "running", "zombie", "outside"}]
    /\ start \in [Pid -> Nat]
    /\ table[GroupLeader] \in {"running", "zombie"}
    /\ delivered \in BOOLEAN /\ disturbed \in BOOLEAN
    /\ phase \in {"list", "read", "recheck", "done"}
    /\ todo \subseteq Pid /\ members \subseteq Pid
    /\ identities \subseteq Identity /\ known \subseteq Identity /\ listed \subseteq Identity
    /\ vanished \subseteq Others /\ live \subseteq Pid
    /\ previousMembers \subseteq Pid
    /\ previousComplete \subseteq Identity
    /\ requiredAbsent \subseteq Others
    /\ knownZombies \subseteq Pid /\ pendingLive \subseteq Pid
    /\ attempts \in 0..LiveAttempts /\ stability \in 0..StabilityAttempts
    /\ result \in {"none", "proved", "rejected"}
    /\ phase = "done" <=> result # "none"
-----------------------------------------------------------------------------
(* The kernel.                                                             *)

RunningPids == {p \in Pid : table[p] = "running"}
ZombiePids == {p \in Pid : table[p] = "zombie"}

Turns(p, from, to) ==
    /\ table[p] = from
    /\ table' = [table EXCEPT ![p] = to]
    /\ UNCHANGED <<start, proverVars>>

\* A free number is given to a new process.
Takes(c, to) ==
    /\ table[c] = "free"
    /\ start[c] < MaxStarts
    /\ table' = [table EXCEPT ![c] = to]
    /\ start' = [start EXCEPT ![c] = @ + 1]
    /\ disturbed' = TRUE
    /\ UNCHANGED proverVars

Exit(p) == Turns(p, "running", "zombie") /\ UNCHANGED disturbed
\* By its own parent, or by init; the leader's parent does not collect it yet.
CollectedByOthers(p) == p # GroupLeader /\ Turns(p, "zombie", "free") /\ UNCHANGED disturbed
Fork(p, c) == table[p] = "running" /\ Takes(c, "running")
\* setsid() or setpgid(): not by the leader.
Leave(p) == p # GroupLeader /\ Turns(p, "running", "outside") /\ UNCHANGED disturbed
\* The number goes to a program of somebody else, which ends some day.
Reused(c) == Takes(c, "outside")
StrangerEnds(c) == Turns(c, "outside", "free") /\ UNCHANGED disturbed
-----------------------------------------------------------------------------
(* One snapshot.                                                           *)

Ends(how) == phase' = "done" /\ result' = how

Rejects ==
    /\ Ends("rejected")
    /\ UNCHANGED <<tableVars, delivered, todo, snapshotVars, historyVars, knownVars, countVars,
                   listed>>

\* A call fails, or answers with what cannot be: too many numbers, a short record.
Fails ==
    /\ phase \in {"list", "read", "recheck"}
    /\ Rejects
    /\ disturbed' = TRUE

\* proc_listpgrppids() names every running member and may omit zombies; the
\* leader is inspected in any case.
List ==
    /\ phase = "list"
    /\ \E shown \in SUBSET ZombiePids : members' = RunningPids \cup shown \cup {GroupLeader}
    /\ disturbed' = (disturbed \/ ~(ZombiePids \subseteq members'))
    /\ todo' = members'
    /\ identities' = {} /\ vanished' = {} /\ live' = {}
    /\ listed' = {<<p, start[p]>> : p \in RunningPids}
    /\ phase' = "read"
    /\ UNCHANGED <<tableVars, delivered, historyVars, knownVars, countVars, result>>

\* proc_pidinfo() of one member: the leader first, then the others in some order.
Read(p) ==
    /\ phase = "read"
    /\ p \in todo
    /\ GroupLeader \in todo => p = GroupLeader
    /\ table[p] # "outside"
    /\ todo' = todo \ {p}
    /\ IF table[p] = "free"
       THEN vanished' = vanished \cup {p} /\ UNCHANGED <<identities, live>>
       ELSE /\ identities' = identities \cup {<<p, start[p]>>}
            /\ live' = IF table[p] = "running" THEN live \cup {p} ELSE live
            /\ UNCHANGED vanished
    /\ UNCHANGED <<tableVars, delivered, phase, members, historyVars, knownVars, countVars, result,
                   listed, disturbed>>

ReadsStranger(p) ==
    /\ phase \in {"read", "recheck"}
    /\ p \in todo
    /\ table[p] = "outside"
    /\ Rejects
    /\ UNCHANGED disturbed
-----------------------------------------------------------------------------
(* What the snapshot is compared with.                                     *)

\* The numbers that two sets of records share have the same start times.
SameProcesses(S, T) == \A i \in S, j \in T : i[1] = j[1] => i = j

\* Nobody came back and nobody was added.
MembersShrink ==
    previousMembers # NoSnapshot =>
        requiredAbsent \cap members = {} /\ members \subseteq previousMembers

Unchanged == MembersShrink /\ SameProcesses(known, identities)

\* Live members of the last snapshot that are no longer listed are read again.
Compare ==
    /\ phase = "read"
    /\ todo = {}
    /\ Unchanged
    /\ known' = known \cup identities
    /\ todo' = pendingLive \ members
    /\ phase' = "recheck"
    /\ UNCHANGED <<tableVars, delivered, snapshotVars, historyVars, knownZombies, pendingLive,
                   countVars, result, listed, disturbed>>

CompareRejects ==
    /\ phase = "read"
    /\ todo = {}
    /\ ~Unchanged
    /\ Rejects
    /\ UNCHANGED disturbed

ReadAgain(p) ==
    /\ phase = "recheck"
    /\ p \in todo
    /\ \/ table[p] = "free" /\ UNCHANGED <<known, knownZombies>>
       \/ /\ table[p] = "zombie"
          /\ SameProcesses(known, {<<p, start[p]>>})
          /\ known' = known \cup {<<p, start[p]>>}
          /\ knownZombies' = knownZombies \cup {p}
    /\ todo' = todo \ {p}
    /\ UNCHANGED <<tableVars, delivered, phase, snapshotVars, historyVars, pendingLive, countVars,
                   result, listed, disturbed>>

RecheckRejects(p) ==
    /\ phase = "recheck"
    /\ p \in todo
    /\ \/ table[p] = "running"
       \/ table[p] = "zombie" /\ ~SameProcesses(known, {<<p, start[p]>>})
    /\ Rejects
    /\ UNCHANGED disturbed

Complete == live = {} /\ vanished = {}

\* slip: one complete snapshot suffices.
CompleteOnce == Complete
Stable == Complete /\ previousComplete = identities /\ previousMembers = members

Judging == phase = "recheck" /\ todo = {}

Proves ==
    /\ Judging
    /\ Stable
    /\ Ends("proved")
    /\ UNCHANGED <<tableVars, delivered, todo, snapshotVars, historyVars, knownVars, countVars,
                   listed, disturbed>>

\* slip: snapshots with live members are not counted.
PatientWithTheLiving ==
    IF live # {} THEN UNCHANGED countVars
                 ELSE stability' = stability + 1 /\ UNCHANGED attempts
Counts ==
    IF live # {} THEN attempts' = attempts + 1 /\ UNCHANGED stability
                 ELSE stability' = stability + 1 /\ UNCHANGED attempts

\* slip: the last attempt is not used.
GivesUpEarly ==
    \/ live # {} /\ (~delivered \/ attempts' >= LiveAttempts)
    \/ live = {} /\ stability' + 1 >= StabilityAttempts
\* A zombie came back to life, or the attempts are used up.
GivesUp ==
    \/ knownZombies \cap live # {}
    \/ live # {} /\ (~delivered \/ attempts' >= LiveAttempts)
    \/ live = {} /\ stability' >= StabilityAttempts

\* Another snapshot, or none.
Retries ==
    /\ Judging
    /\ ~Stable
    /\ knownZombies' = knownZombies \cup {p \in Pid \ live : \E i \in identities : i[1] = p}
    /\ pendingLive' = live
    /\ previousComplete' = IF Complete THEN identities ELSE NoSnapshot
    /\ previousMembers' = members
    /\ requiredAbsent' = vanished
    /\ Counts
    /\ IF GivesUp THEN Ends("rejected") ELSE phase' = "list" /\ UNCHANGED result
    /\ UNCHANGED <<tableVars, delivered, todo, snapshotVars, known, listed, disturbed>>
-----------------------------------------------------------------------------
\* The prover is called with any group; some numbers are in use outside.
ProofInit ==
    /\ table \in [Pid -> {"free", "running", "zombie", "outside"}]
    /\ table[GroupLeader] \in {"running", "zombie"}
    /\ start = [p \in Pid |-> 0]
    /\ delivered \in BOOLEAN
    /\ phase = "list"
    /\ todo = {} /\ members = {} /\ identities = {} /\ vanished = {} /\ live = {}
    /\ previousMembers = NoSnapshot /\ previousComplete = NoSnapshot /\ requiredAbsent = {}
    /\ known = {} /\ knownZombies = {} /\ pendingLive = {}
    /\ attempts = 0 /\ stability = 0
    /\ result = "none"
    /\ listed = {}
    /\ disturbed = (RunningPids # {})

Kernel ==
    \/ \E p \in Pid : \/ Exit(p) \/ CollectedByOthers(p) \/ Leave(p) \/ Reused(p) \/ StrangerEnds(p)
                      \/ \E c \in Pid : Fork(p, c)
Prover ==
    \/ List \/ Compare \/ CompareRejects \/ Proves \/ Retries
    \/ \E p \in Pid : Read(p) \/ ReadsStranger(p) \/ ReadAgain(p) \/ RecheckRejects(p)

ProofNext == Kernel \/ Prover \/ Fails

ProofSpec == ProofInit /\ [][ProofNext]_proofVars
\* The prover is scheduled; the processes of the group may run for ever.
FairProofSpec == ProofSpec /\ WF_proofVars(Prover)
-----------------------------------------------------------------------------
(* Properties.                                                             *)

\* When the proof succeeds no process of the group runs, and none ever will.
ProvedGroupsAreDead == result = "proved" => RunningPids = {}

\* A group of zombies that are only being collected is not rejected: every
\* unstable snapshot costs a member, and the attempts outlast the members.
ZombiesAreNotRejected == result = "rejected" => disturbed

\* However the group behaves, the proof ends.
EveryProofEnds == <>(phase = "done")
=============================================================================

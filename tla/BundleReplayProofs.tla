------------------------- MODULE BundleReplayProofs -------------------------
(***************************************************************************)
(* What verify_memory reports of a bundle is proved for any number of       *)
(* hosts, sessions, records, compilations, verifications and changes.       *)
(***************************************************************************)
EXTENDS BundleReplay, TLAPS

(* The inductive invariant.                                                *)

\* A session that was verified holds a history of the archive, and its head.
TrueState(s, past) == s.verified => s.sources = s.head /\ s.head \in past

\* Sessions of a host with the archive are verified, others are not.
TrueSessions ==
    \A h \in Host, s \in Session : live[h][s] # NoSession =>
        /\ TrueState(live[h][s], histories)
        /\ live[h][s].verified <=> Archived(h)

\* The bundles that compile_memory returns.
TrueBundle(b, past) ==
    /\ b.artifact = b.sources /\ b.memory = TrustedMemory(b.sources, b.sources)
    /\ b.ledger = "whole" => b.certified
    /\ TrueState(StateOf(b), past)
TrueBundles == \A b \in bundles : TrueBundle(b, histories)

\* Where a host is, and what it has of a verification.
Placed(h, step, j, verdict) ==
    /\ step # "idle" => verdict = "none"
    /\ (step # "idle" \/ verdict = "passed") => j.bundle # NoBundle
    /\ step \notin {"idle", "judge"} => Archived(h)

\* The sources are those of the bundle; what vouches for a head knows it.
Sound(h, j, past) ==
    j.bundle # NoBundle =>
        /\ j.bundle.artifact = j.state.sources /\ j.bundle.sources = j.state.sources
        /\ TrueState(j.state, past)
        /\ j.attested => /\ Archived(h)
                         /\ j.bundle.head = j.state.sources /\ j.bundle.head \in past

Passed(j, verdict) == (verdict = "passed" /\ j.bundle.verified) => Anchored(j)

\* A bundle with the live session it was compiled from.
WithSession(h, step, j) ==
    (step # "idle" /\ j.own = "live") =>
        /\ j.session # NoSession /\ j.state = StateOf(j.bundle)
        /\ step \notin {"restore", "restore load"}
        /\ j.bundle.verified <=> Archived(h)

\* A bundle with its checkpoint, while the archive agrees with it.
WithCheckpoint(h, step, j, records) ==
    (step # "idle" /\ j.own = "checkpoint" /\ j.calm) =>
        /\ j.session # NoSession /\ j.state.head = j.bundle.head
        /\ Agrees(h, j.bundle, records)
        /\ j.bundle.verified => j.bundle.head = j.state.sources
        /\ j.state.verified => j.bundle.verified
        /\ j.attested => j.bundle.verified
        /\ (j.bundle.verified /\ step \notin {"restore", "restore load"}) => j.state.verified

Untouched(j, verdict) ==
    verdict \in {"failed", "refused"} =>
        j.own = "no" \/ (j.own = "checkpoint" /\ ~j.calm)

HostInv(h, step, j, verdict, records, past) ==
    /\ Placed(h, step, j, verdict) /\ Sound(h, j, past) /\ Passed(j, verdict)
    /\ WithSession(h, step, j) /\ WithCheckpoint(h, step, j, records)
    /\ Untouched(j, verdict)

SafeInv ==
    /\ archive \in histories
    /\ TrueSessions /\ TrueBundles
    /\ \A h \in Host : HostInv(h, pc[h], job[h], reply[h], archive, histories)
-----------------------------------------------------------------------------
(* Types.                                                                  *)

LEMMA JobTypes ==
    /\ Fresh \in SessionState /\ NoJob \in Job
    /\ NoSessions \in [Session -> SessionState \cup {NoSession}]
BY DEF Fresh, NoJob, NoSessions, SessionState, Sources, Heads, Job

LEMMA StateOfType ==
    ASSUME NEW b \in Bundle PROVE StateOf(b) \in SessionState
BY DEF StateOf, Bundle, SessionState

LEMMA BundleOfType ==
    ASSUME NEW s \in Session, NEW state \in SessionState, NEW ledger \in Ledgers
    PROVE  /\ BundleOf(s, state, ledger) \in Bundle
           /\ [session |-> s, state |-> state] \in Checkpoint
BY DEF BundleOf, TrustedMemory, Bundle, Ledgers, SessionState, Checkpoint

LEMMA RelabelledType ==
    ASSUME TypeOK, NEW b \in bundles
    PROVE  Relabelled(b) \subseteq Bundle
<1>1. b \in Bundle /\ bundles \subseteq Bundle
  BY DEF TypeOK
<1>2. \A s \in Session : [b EXCEPT !.session = s] \in Bundle
  BY <1>1 DEF Bundle
<1>3. \A S \in Sources : [b EXCEPT !.sources = S] \in Bundle
  BY <1>1 DEF Bundle
<1>4. \A S \in Sources : /\ [b EXCEPT !.memory = TrustedMemory(b.artifact, S)] \in Bundle
                         /\ [b EXCEPT !.memory = TrustedMemory(S, b.sources)] \in Bundle
  BY <1>1 DEF Bundle, TrustedMemory
<1>5. \A c \in bundles : [b EXCEPT !.artifact = c.artifact, !.ledger = c.ledger] \in Bundle
  BY <1>1 DEF Bundle
<1>6. \A k \in Heads \X BOOLEAN : [b EXCEPT !.head = k[1], !.verified = k[2]] \in Bundle
  BY <1>1 DEF Bundle
<1>7. \A k \in Ledgers \X BOOLEAN : [b EXCEPT !.ledger = k[1], !.certified = k[2]] \in Bundle
  BY <1>1 DEF Bundle
<1> SUFFICES ASSUME NEW d \in Relabelled(b) PROVE d \in Bundle
  BY Zenon
<1>8. \/ d \in {[b EXCEPT !.session = s] : s \in Session}
      \/ d \in {[b EXCEPT !.sources = S] : S \in Sources}
      \/ d \in {[b EXCEPT !.memory = TrustedMemory(b.artifact, S)] : S \in Sources}
      \/ d \in {[b EXCEPT !.memory = TrustedMemory(S, b.sources)] : S \in Sources}
      \/ d \in {[b EXCEPT !.artifact = c.artifact, !.ledger = c.ledger] : c \in bundles}
      \/ d \in {[b EXCEPT !.head = k[1], !.verified = k[2]] : k \in Heads \X BOOLEAN}
      \/ d \in {[b EXCEPT !.ledger = k[1], !.certified = k[2]] : k \in Ledgers \X BOOLEAN}
  BY Zenon DEF Relabelled
<1> QED BY <1>2, <1>3, <1>4, <1>5, <1>6, <1>7, <1>8, Zenon

LEMMA NoneIsNoBundle == NoBundle \notin Bundle
BY BundleAssumption
-----------------------------------------------------------------------------
(* A step of one host that leaves archive, sessions and callers alone.     *)

Counted ==
    /\ compiles' \in 0..MaxCompiles /\ replays' \in 0..MaxReplays
    /\ changes' \in 0..MaxChanges /\ restarts' \in 0..MaxRestarts

LEMMA HostMoves ==
    ASSUME TypeOK, SafeInv, NEW h \in Host, NEW j \in Job, NEW step \in Steps,
           NEW verdict \in Replies, Counted,
           job' = [job EXCEPT ![h] = j], pc' = [pc EXCEPT ![h] = step],
           reply' = [reply EXCEPT ![h] = verdict],
           live' \in [Host -> [Session -> SessionState \cup {NoSession}]], TrueSessions',
           UNCHANGED <<archiveVars, callerVars>>,
           HostInv(h, step, j, verdict, archive, histories)
    PROVE  TypeOK' /\ SafeInv'
<1>1. TypeOK'
  BY DEF TypeOK, Counted, archiveVars, callerVars
<1>2. (archive \in histories /\ TrueSessions /\ TrueBundles)'
  BY DEF SafeInv, archiveVars, callerVars, TrueBundles
<1>3. ASSUME NEW g \in Host
      PROVE  HostInv(g, pc'[g], job'[g], reply'[g], archive', histories')
  <2>1. archive' = archive /\ histories' = histories
    BY DEF archiveVars
  <2>2. CASE g = h
    <3>1. pc'[g] = step /\ job'[g] = j /\ reply'[g] = verdict
      BY <2>2 DEF TypeOK
    <3> QED BY <3>1, <2>1, <2>2
  <2>3. CASE g # h
    <3>1. pc'[g] = pc[g] /\ job'[g] = job[g] /\ reply'[g] = reply[g]
      BY <2>3 DEF TypeOK
    <3>2. HostInv(g, pc[g], job[g], reply[g], archive, histories)
      BY DEF SafeInv
    <3> QED BY <3>1, <3>2, <2>1
  <2> QED BY <2>2, <2>3
<1>4. \A g \in Host : HostInv(g, pc[g], job[g], reply[g], archive, histories)'
  BY <1>3 DEF HostInv, Placed, Sound, Passed, WithSession, WithCheckpoint, Untouched,
              TrueState, Agrees, Anchored, Archived, StateOf
<1> QED BY <1>1, <1>2, <1>4 DEF SafeInv

LEMMA HostStep ==
    ASSUME TypeOK, SafeInv, NEW h \in Host, NEW j \in Job, NEW step \in Steps,
           NEW verdict \in Replies, Counted,
           job' = [job EXCEPT ![h] = j], pc' = [pc EXCEPT ![h] = step],
           reply' = [reply EXCEPT ![h] = verdict],
           UNCHANGED <<archiveVars, live, callerVars>>,
           HostInv(h, step, j, verdict, archive, histories)
    PROVE  TypeOK' /\ SafeInv'
<1>1. live' \in [Host -> [Session -> SessionState \cup {NoSession}]]
  BY DEF TypeOK
<1>2. TrueSessions'
  BY DEF SafeInv, TrueSessions, TrueState, archiveVars
<1> QED BY <1>1, <1>2, HostMoves
-----------------------------------------------------------------------------
(* The steps of verify_memory.                                             *)

\* What a host is known to hold before a step.
LEMMA HostHolds ==
    ASSUME TypeOK, SafeInv, NEW h \in Host
    PROVE  /\ HostInv(h, pc[h], job[h], reply[h], archive, histories)
           /\ archive \in histories /\ archive \in Sources
           /\ pc[h] \in Steps /\ job[h] \in Job /\ reply[h] \in Replies
           /\ job = [job EXCEPT ![h] = job[h]]
           /\ reply = [reply EXCEPT ![h] = reply[h]]
           /\ UNCHANGED boundVars => Counted
BY DEF TypeOK, SafeInv, boundVars, Counted

LEMMA AttestFromType ==
    ASSUME NEW h, NEW b
    PROVE  /\ AttestFrom(h, b) \in {"attest", "judge"}
           /\ AttestFrom(h, b) = "attest" => Archived(h)
BY DEF AttestFrom

LEMMA Restoring ==
    ASSUME TypeOK, SafeInv, NEW h \in Host, Restore(h)
    PROVE  TypeOK' /\ SafeInv'
<1> DEFINE j == job[h]
           step == IF archive = j.state.head THEN "restore load" ELSE AttestFrom(h, j.bundle)
<1>1. HostInv(h, "restore", j, reply[h], archive, histories) /\ j \in Job
  BY HostHolds DEF Restore
<1>2. step \in {"restore load", "attest", "judge"} /\ step \in Steps
  BY AttestFromType DEF Steps
<1>3. HostInv(h, step, j, reply[h], archive, histories)
  <2>1. Placed(h, step, j, reply[h])
    BY <1>1, <1>2, AttestFromType DEF HostInv, Placed
  <2>2. WithSession(h, step, j)
    BY <1>1 DEF HostInv, WithSession
  <2>3. WithCheckpoint(h, step, j, archive)
    BY <1>1 DEF HostInv, WithCheckpoint, Agrees
  <2> QED BY <1>1, <2>1, <2>2, <2>3 DEF HostInv
<1>4. /\ job' = [job EXCEPT ![h] = j] /\ pc' = [pc EXCEPT ![h] = step]
      /\ reply' = [reply EXCEPT ![h] = reply[h]]
      /\ UNCHANGED <<archiveVars, live, callerVars>> /\ Counted
  BY HostHolds DEF Restore, Goes
<1> QED BY <1>1, <1>2, <1>3, <1>4, HostStep, HostHolds

LEMMA RestoreLoading ==
    ASSUME TypeOK, SafeInv, NEW h \in Host, RestoreLoad(h)
    PROVE  TypeOK' /\ SafeInv'
<1> DEFINE old == job[h]
           vouched == archive = old.state.head /\ archive = old.state.sources
           j == [old EXCEPT !.state.verified = vouched]
           step == AttestFrom(h, old.bundle)
<1>1. /\ HostInv(h, "restore load", old, reply[h], archive, histories) /\ old \in Job
      /\ archive \in histories
  BY HostHolds DEF RestoreLoad
<1>2. step \in {"attest", "judge"} /\ step \in Steps
  BY AttestFromType DEF Steps
<1>3. /\ j \in Job /\ j.bundle = old.bundle /\ j.session = old.session
      /\ j.state.sources = old.state.sources /\ j.state.head = old.state.head
      /\ j.state.verified = vouched /\ j.attested = old.attested
      /\ j.own = old.own /\ j.calm = old.calm
  BY <1>1 DEF Job, SessionState
<1>4. HostInv(h, step, j, reply[h], archive, histories)
  <2>1. Placed(h, step, j, reply[h]) /\ reply[h] = "none" /\ Archived(h)
    BY <1>1, <1>2, <1>3, AttestFromType DEF HostInv, Placed
  <2>2. Sound(h, j, histories)
    BY <1>1, <1>3 DEF HostInv, Sound, TrueState
  <2>3. WithSession(h, step, j)
    BY <1>1, <1>3 DEF HostInv, WithSession
  <2>4. WithCheckpoint(h, step, j, archive)
    BY <1>1, <1>3, <2>1 DEF HostInv, WithCheckpoint, Agrees
  <2> QED BY <2>1, <2>2, <2>3, <2>4 DEF HostInv, Passed, Untouched
<1>5. /\ job' = [job EXCEPT ![h] = j] /\ pc' = [pc EXCEPT ![h] = step]
      /\ reply' = [reply EXCEPT ![h] = reply[h]]
      /\ UNCHANGED <<archiveVars, live, callerVars>> /\ Counted
  BY HostHolds DEF RestoreLoad, Goes
<1> QED BY <1>2, <1>3, <1>4, <1>5, HostStep, HostHolds

LEMMA Attesting ==
    ASSUME TypeOK, SafeInv, NEW h \in Host, Attest(h)
    PROVE  TypeOK' /\ SafeInv'
<1> DEFINE j == job[h]
           step == IF archive = j.bundle.head THEN "attest load" ELSE "judge"
<1>1. HostInv(h, "attest", j, reply[h], archive, histories) /\ j \in Job
  BY HostHolds DEF Attest
<1>2. step \in {"attest load", "judge"} /\ step \in Steps
  BY DEF Steps
<1>3. HostInv(h, step, j, reply[h], archive, histories)
  <2>1. Placed(h, step, j, reply[h])
    BY <1>1, <1>2 DEF HostInv, Placed
  <2>2. WithSession(h, step, j)
    BY <1>1, <1>2 DEF HostInv, WithSession
  <2>3. WithCheckpoint(h, step, j, archive)
    BY <1>1, <1>2 DEF HostInv, WithCheckpoint
  <2> QED BY <1>1, <2>1, <2>2, <2>3 DEF HostInv
<1>4. /\ job' = [job EXCEPT ![h] = j] /\ pc' = [pc EXCEPT ![h] = step]
      /\ reply' = [reply EXCEPT ![h] = reply[h]]
      /\ UNCHANGED <<archiveVars, live, callerVars>> /\ Counted
  BY HostHolds DEF Attest, Goes
<1> QED BY <1>1, <1>2, <1>3, <1>4, HostStep, HostHolds

LEMMA AttestLoading ==
    ASSUME TypeOK, SafeInv, NEW h \in Host, AttestLoad(h)
    PROVE  TypeOK' /\ SafeInv'
<1> DEFINE old == job[h]
           vouched == archive = old.bundle.head /\ archive = old.state.sources
           j == [old EXCEPT !.attested = vouched]
<1>1. /\ HostInv(h, "attest load", old, reply[h], archive, histories) /\ old \in Job
      /\ archive \in histories
  BY HostHolds DEF AttestLoad
<1>2. /\ j \in Job /\ j.bundle = old.bundle /\ j.session = old.session
      /\ j.state = old.state /\ j.attested = vouched
      /\ j.own = old.own /\ j.calm = old.calm
  BY <1>1 DEF Job
<1>3. HostInv(h, "judge", j, reply[h], archive, histories)
  <2>1. Placed(h, "judge", j, reply[h]) /\ reply[h] = "none" /\ Archived(h)
    BY <1>1, <1>2 DEF HostInv, Placed
  <2>2. Sound(h, j, histories)
    BY <1>1, <1>2, <2>1 DEF HostInv, Sound
  <2>3. WithSession(h, "judge", j)
    BY <1>1, <1>2 DEF HostInv, WithSession
  <2>4. WithCheckpoint(h, "judge", j, archive)
    BY <1>1, <1>2, <2>1 DEF HostInv, WithCheckpoint, Agrees
  <2> QED BY <2>1, <2>2, <2>3, <2>4 DEF HostInv, Passed, Untouched
<1>4. /\ job' = [job EXCEPT ![h] = j] /\ pc' = [pc EXCEPT ![h] = "judge"]
      /\ reply' = [reply EXCEPT ![h] = reply[h]]
      /\ UNCHANGED <<archiveVars, live, callerVars>> /\ Counted
  BY HostHolds DEF AttestLoad, Goes
<1>5. "judge" \in Steps
  BY DEF Steps
<1> QED BY <1>2, <1>3, <1>4, <1>5, HostStep, HostHolds

LEMMA Judging ==
    ASSUME TypeOK, SafeInv, NEW h \in Host, Judge(h)
    PROVE  TypeOK' /\ SafeInv'
<1> DEFINE old == job[h]
           right == old.bundle.verified <=> Anchored(old)
           verdict == IF right THEN "passed" ELSE "failed"
           j == IF right THEN old ELSE [NoJob EXCEPT !.own = old.own, !.calm = old.calm]
<1>1. HostInv(h, "judge", old, reply[h], archive, histories) /\ old \in Job
  BY HostHolds DEF Judge
<1>2. /\ job' = [job EXCEPT ![h] = j] /\ pc' = [pc EXCEPT ![h] = "idle"]
      /\ reply' = [reply EXCEPT ![h] = verdict]
      /\ UNCHANGED <<archiveVars, live, callerVars>> /\ Counted
  <2>1. reply' = [reply EXCEPT ![h] = verdict] /\ reply'[h] = verdict
    BY DEF Judge, TypeOK
  <2> QED BY <2>1, HostHolds DEF Judge, Goes
<1>3. "idle" \in Steps /\ verdict \in Replies
  BY DEF Steps, Replies
<1>4. CASE right
  <2>1. j = old /\ verdict = "passed"
    BY <1>4
  <2>2. HostInv(h, "idle", j, verdict, archive, histories)
    BY <1>1, <1>4, <2>1 DEF HostInv, Placed, Passed, WithSession, WithCheckpoint, Untouched
  <2> QED BY <1>1, <1>2, <1>3, <2>1, <2>2, HostStep
<1>5. CASE ~right
  <2>1. verdict = "failed" /\ j = [NoJob EXCEPT !.own = old.own, !.calm = old.calm]
    BY <1>5
  <2>2. /\ j \in Job /\ j.bundle = NoBundle /\ j.own = old.own /\ j.calm = old.calm
    BY <1>1, <2>1, JobTypes DEF Job, NoJob
  <2>3. ~(old.own = "live")
    <3> SUFFICES ASSUME old.own = "live" PROVE FALSE
      OBVIOUS
    <3>1. /\ old.session # NoSession /\ old.state = StateOf(old.bundle)
          /\ old.bundle.verified <=> Archived(h)
      BY <1>1 DEF HostInv, WithSession
    <3>2. old.state.verified = old.bundle.verified /\ old.state.head = old.bundle.head
      BY <3>1 DEF StateOf
    <3>3. old.attested => Archived(h)
      BY <1>1 DEF HostInv, Placed, Sound
    <3> QED BY <1>5, <3>1, <3>2, <3>3 DEF Anchored
  <2>4. ~(old.own = "checkpoint" /\ old.calm)
    BY <1>1, <1>5 DEF HostInv, WithCheckpoint, Anchored
  <2>5. old.own \in {"no", "live", "checkpoint"}
    BY <1>1 DEF Job
  <2>6. HostInv(h, "idle", j, verdict, archive, histories)
    BY <2>1, <2>2, <2>3, <2>4, <2>5 DEF HostInv, Placed, Sound, Passed, WithSession,
                                        WithCheckpoint, Untouched
  <2> QED BY <1>2, <1>3, <2>2, <2>6, HostStep
<1> QED BY <1>4, <1>5

LEMMA Failing ==
    ASSUME TypeOK, SafeInv, NEW h \in Host, Fault(h)
    PROVE  TypeOK' /\ SafeInv'
<1> DEFINE old == job[h]
           j == [old EXCEPT !.calm = FALSE]
           step == IF pc[h] \in {"restore", "restore load"} THEN AttestFrom(h, old.bundle)
                   ELSE "judge"
<1>1. /\ HostInv(h, pc[h], old, reply[h], archive, histories) /\ old \in Job
      /\ pc[h] \in {"restore", "restore load", "attest", "attest load"}
  BY HostHolds DEF Fault
<1>2. step \in {"attest", "judge"} /\ step \in Steps /\ (step = "attest" => Archived(h))
  BY AttestFromType DEF Steps
<1>3. /\ j \in Job /\ j.bundle = old.bundle /\ j.session = old.session
      /\ j.state = old.state /\ j.attested = old.attested
      /\ j.own = old.own /\ j.calm = FALSE
  BY <1>1 DEF Job
<1>4. HostInv(h, step, j, reply[h], archive, histories)
  <2>1. Placed(h, step, j, reply[h]) /\ reply[h] = "none"
    BY <1>1, <1>2, <1>3 DEF HostInv, Placed
  <2>2. Sound(h, j, histories)
    BY <1>1, <1>3 DEF HostInv, Sound
  <2>3. WithSession(h, step, j)
    BY <1>1, <1>2, <1>3 DEF HostInv, WithSession
  <2>4. WithCheckpoint(h, step, j, archive)
    BY <1>3 DEF WithCheckpoint
  <2> QED BY <2>1, <2>2, <2>3, <2>4 DEF HostInv, Passed, Untouched
<1>5. /\ job' = [job EXCEPT ![h] = j] /\ pc' = [pc EXCEPT ![h] = step]
      /\ reply' = [reply EXCEPT ![h] = reply[h]]
      /\ UNCHANGED <<archiveVars, live, callerVars>>
  BY HostHolds DEF Fault, Goes
<1>6. Counted
  <2>1. changes < MaxChanges /\ changes' = changes + 1
        /\ UNCHANGED <<compiles, replays, restarts>>
    BY DEF Fault
  <2> QED BY <2>1, BundleAssumption DEF TypeOK, Counted
<1> QED BY <1>2, <1>3, <1>4, <1>5, <1>6, HostStep, HostHolds

LEMMA Restarting ==
    ASSUME TypeOK, SafeInv, NEW h \in Host, Restart(h)
    PROVE  TypeOK' /\ SafeInv'
<1>1. /\ job' = [job EXCEPT ![h] = NoJob] /\ pc' = [pc EXCEPT ![h] = "idle"]
      /\ reply' = [reply EXCEPT ![h] = "none"] /\ live' = [live EXCEPT ![h] = NoSessions]
      /\ UNCHANGED <<archiveVars, callerVars>>
  BY DEF Restart
<1>2. Counted
  BY BundleAssumption DEF Restart, TypeOK, Counted
<1>3. live' \in [Host -> [Session -> SessionState \cup {NoSession}]]
  BY <1>1, JobTypes DEF TypeOK
<1>4. TrueSessions'
  <2> SUFFICES ASSUME NEW g \in Host, NEW s \in Session, live'[g][s] # NoSession
               PROVE  /\ TrueState(live'[g][s], histories')
                      /\ live'[g][s].verified <=> Archived(g)
    BY DEF TrueSessions, TrueState, Archived
  <2>1. g # h /\ live'[g] = live[g]
    BY <1>1 DEF NoSessions, TypeOK
  <2> QED BY <1>1, <2>1 DEF SafeInv, TrueSessions, archiveVars
<1>5. NoJob \in Job /\ "idle" \in Steps /\ "none" \in Replies
  BY JobTypes DEF Steps, Replies
<1>6. HostInv(h, "idle", NoJob, "none", archive, histories)
  BY DEF HostInv, Placed, Sound, Passed, WithSession, WithCheckpoint, Untouched, NoJob
<1> QED BY <1>1, <1>2, <1>3, <1>4, <1>5, <1>6, HostMoves

LEMMA Beginning ==
    ASSUME TypeOK, SafeInv, NEW h \in Host, NEW b \in Bundle,
           NEW session \in Session \cup {NoSession}, NEW state \in SessionState,
           NEW given, NEW expected, NEW restored \in BOOLEAN,
           NEW own \in {"no", "live", "checkpoint"},
           replays < MaxReplays, TrueState(state, histories),
           own = "live" => restored = FALSE /\ state = StateOf(b) /\ (b.verified <=> Archived(h)),
           own = "checkpoint" => restored = TRUE /\ state = [StateOf(b) EXCEPT !.verified = FALSE],
           own # "no" => Consistent(b, given, expected) /\ session = b.session,
           Begin(h, b, session, state, given, expected, restored, own)
    PROVE  TypeOK' /\ SafeInv'
<1> DEFINE passes == /\ Holds(b, session, state, given, expected)
                     /\ ~Disagrees(session, given, restored)
           j == [NoJob EXCEPT !.own = own, !.calm = Agrees(h, b, archive),
                              !.bundle = IF passes THEN b ELSE NoBundle,
                              !.session = IF passes THEN session ELSE NoSession,
                              !.state = IF passes THEN state ELSE Fresh]
           step == IF passes THEN AskFirst(h, b, state, restored) ELSE "idle"
           verdict == IF passes THEN "none"
                      ELSE IF Disagrees(session, given, restored) THEN "refused" ELSE "failed"
<1>1. /\ job' = [job EXCEPT ![h] = j] /\ pc' = [pc EXCEPT ![h] = step]
      /\ reply' = [reply EXCEPT ![h] = verdict]
      /\ UNCHANGED <<archiveVars, live, callerVars>>
  BY DEF Begin
<1>2. Counted
  <2>1. replays' = replays + 1 /\ UNCHANGED <<compiles, changes, restarts>>
    BY DEF Begin
  <2> QED BY <2>1, BundleAssumption DEF TypeOK, Counted
<1>3. AskFirst(h, b, state, restored) \in {"restore", "attest", "judge"}
  BY AttestFromType DEF AskFirst
<1>4. step \in Steps /\ verdict \in Replies
  BY <1>3 DEF Steps, Replies
<1>5. Agrees(h, b, archive) \in BOOLEAN /\ passes \in BOOLEAN
  BY DEF Agrees, Holds, Disagrees
<1>6. j.own = own /\ j.calm = Agrees(h, b, archive) /\ j.attested = FALSE
      /\ j.bundle = (IF passes THEN b ELSE NoBundle)
      /\ j.session = (IF passes THEN session ELSE NoSession)
      /\ j.state = (IF passes THEN state ELSE Fresh)
      /\ j \in Job
  BY <1>5, JobTypes DEF NoJob, Job
<1> HIDE DEF j
<1>7. own # "no" => passes
  <2> SUFFICES ASSUME own # "no" PROVE passes
    OBVIOUS
  <2>1. Consistent(b, given, expected) /\ session = b.session /\ b.session \in Session
    BY DEF Bundle
  <2>2. state.sources = b.sources /\ state.head = b.head
    BY DEF StateOf
  <2>3. TrueBundle(b, histories) /\ b.ledger = "whole"
    BY <2>1 DEF SafeInv, TrueBundles, Consistent
  <2>4. Replays(b, state.sources) /\ b.sources = state.sources /\ b.certified
        /\ b.memory = TrustedMemory(b.artifact, state.sources)
    BY <2>2, <2>3 DEF TrueBundle, Replays
  <2>5. SessionMatches(b, session, given) /\ ~Disagrees(session, given, restored)
    BY <2>1 DEF Consistent, SessionMatches, Disagrees
  <2>6. HeadMatches(b, session, state, expected)
    BY <2>1, <2>2 DEF Consistent, HeadMatches
  <2> QED BY <2>4, <2>5, <2>6 DEF Holds
<1>8. HostInv(h, step, j, verdict, archive, histories)
  <2>1. CASE ~passes
    <3>1. step = "idle" /\ verdict # "none" /\ verdict # "passed"
          /\ j.bundle = NoBundle /\ j.own = "no"
      BY <1>6, <1>7, <2>1
    <3> QED BY <3>1 DEF HostInv, Placed, Sound, Passed, WithSession, WithCheckpoint, Untouched
  <2>2. CASE passes
    <3>1. /\ j.bundle = b /\ j.session = session /\ j.state = state /\ j.own = own
          /\ j.attested = FALSE /\ j.calm = Agrees(h, b, archive)
          /\ step = AskFirst(h, b, state, restored) /\ verdict = "none"
      BY <1>6, <2>2
    <3>2. step \in {"restore", "attest", "judge"} /\ (step # "judge" => Archived(h))
      BY <1>3, <3>1, AttestFromType DEF AskFirst
    <3>3. Placed(h, step, j, verdict)
      BY <3>1, <3>2, NoneIsNoBundle DEF Placed
    <3>4. Sound(h, j, histories)
      BY <2>2, <3>1 DEF Sound, Holds, Replays
    <3>5. WithSession(h, step, j)
      <4> SUFFICES ASSUME own = "live"
                   PROVE  /\ session # NoSession /\ state = StateOf(b)
                          /\ step \notin {"restore", "restore load"}
                          /\ b.verified <=> Archived(h)
        BY <3>1 DEF WithSession
      <4>1. session # NoSession
        BY BundleAssumption DEF Bundle
      <4>2. step = AttestFrom(h, b)
        BY <3>1 DEF AskFirst
      <4> QED BY <4>1, <4>2, AttestFromType
    <3>6. WithCheckpoint(h, step, j, archive)
      <4> SUFFICES ASSUME own = "checkpoint", Agrees(h, b, archive)
                   PROVE  /\ session # NoSession /\ state.head = b.head
                          /\ b.verified => b.head = state.sources
                          /\ ~state.verified
                          /\ b.verified => step = "restore"
        BY <3>1 DEF WithCheckpoint
      <4>1. session # NoSession
        BY BundleAssumption DEF Bundle
      <4>2. state.sources = b.sources /\ state.head = b.head /\ ~state.verified
        BY DEF StateOf
      <4>3. TrueState(StateOf(b), histories)
        BY DEF SafeInv, TrueBundles, TrueBundle, Consistent
      <4>4. b.verified => b.head = b.sources
        BY <4>3 DEF TrueState, StateOf
      <4>5. b.verified => Archived(h) /\ b.head # NoHead
        BY BundleAssumption DEF Agrees, TypeOK, Sources
      <4>6. b.verified => step = "restore"
        BY <3>1, <4>2, <4>5 DEF AskFirst
      <4> QED BY <4>1, <4>2, <4>4, <4>6
    <3> QED BY <3>1, <3>3, <3>4, <3>5, <3>6 DEF HostInv, Passed, Untouched
  <2> QED BY <2>1, <2>2
<1> QED BY <1>1, <1>2, <1>4, <1>6, <1>8, HostStep

LEMMA LiveReplay ==
    ASSUME TypeOK, SafeInv, NEW h \in Host, NEW b \in Bundle,
           NEW given \in Session \cup {NoSession}, NEW expected, replays < MaxReplays,
           FromLive(h, b, given, expected)
    PROVE  TypeOK' /\ SafeInv'
<1> DEFINE s == IdOf(b, given)
           own == IF Consistent(b, given, expected) /\ live[h][s] = StateOf(b) THEN "live" ELSE "no"
<1>1. s \in Session
  BY DEF IdOf, Bundle
<1>2. live[h][s] \in SessionState /\ TrueState(live[h][s], histories)
      /\ (live[h][s].verified <=> Archived(h))
  BY <1>1 DEF FromLive, TypeOK, SafeInv, TrueSessions
<1>3. Begin(h, b, s, live[h][s], given, expected, FALSE, own)
  BY DEF FromLive
<1>4. own = "live" => /\ live[h][s] = StateOf(b) /\ (b.verified <=> Archived(h))
                      /\ Consistent(b, given, expected) /\ s = b.session
  BY <1>2 DEF StateOf, Consistent, IdOf
<1> HIDE DEF s
<1>5. own \in {"no", "live", "checkpoint"} /\ own # "checkpoint" /\ (own # "no" => own = "live")
  OBVIOUS
<1> HIDE DEF own
<1> QED BY <1>1, <1>2, <1>3, <1>4, <1>5, Beginning

LEMMA CheckpointReplay ==
    ASSUME TypeOK, SafeInv, NEW h \in Host, NEW b \in Bundle,
           NEW given \in Session \cup {NoSession}, NEW expected, replays < MaxReplays,
           FromCheckpoint(h, b, given, expected)
    PROVE  TypeOK' /\ SafeInv'
<1>1. PICK c \in checkpoints :
        Begin(h, b, c.session, [c.state EXCEPT !.verified = FALSE], given, expected, TRUE,
              OwnCheckpoint(b, given, expected, c))
  BY DEF FromCheckpoint
<1> DEFINE own == OwnCheckpoint(b, given, expected, c)
           s == c.session
           state == [c.state EXCEPT !.verified = FALSE]
<1>2. c.session \in Session /\ c.state \in SessionState
  BY DEF TypeOK, Checkpoint
<1>3. state \in SessionState /\ TrueState(state, histories)
  BY <1>2 DEF SessionState, TrueState
<1>4. own \in {"no", "live", "checkpoint"} /\ (own # "no" => own = "checkpoint") /\ own # "live"
  BY DEF OwnCheckpoint
<1>5. own # "no" => Consistent(b, given, expected)
                   /\ c = [session |-> b.session, state |-> StateOf(b)]
  BY DEF OwnCheckpoint
<1>6. own # "no" => c.session = b.session /\ state = [StateOf(b) EXCEPT !.verified = FALSE]
  <2>1. ASSUME c = [session |-> b.session, state |-> StateOf(b)]
        PROVE  c.session = b.session /\ c.state = StateOf(b)
    BY <2>1
  <2> QED BY <1>5, <2>1, Zenon
<1>7. Begin(h, b, s, state, given, expected, TRUE, own)
  BY <1>1
<1>8. /\ own = "live" => TRUE = FALSE /\ state = StateOf(b) /\ (b.verified <=> Archived(h))
      /\ own = "checkpoint" => TRUE = TRUE /\ state = [StateOf(b) EXCEPT !.verified = FALSE]
      /\ own # "no" => Consistent(b, given, expected) /\ s = b.session
  BY <1>4, <1>5, <1>6
<1> HIDE DEF own, s, state
<1>9. s \in Session \cup {NoSession}
  BY <1>2 DEF s
<1> QED BY <1>3, <1>4, <1>7, <1>8, <1>9, Beginning, ZenonT(30)

LEMMA SourcesReplay ==
    ASSUME TypeOK, SafeInv, NEW h \in Host, NEW b \in Bundle,
           NEW given \in Session \cup {NoSession}, NEW expected, replays < MaxReplays,
           FromSources(h, b, given, expected)
    PROVE  TypeOK' /\ SafeInv'
<1>1. PICK S \in {archive} \cup {c.state.sources : c \in checkpoints},
           session \in {NoSession, IdOf(b, given)} :
        Begin(h, b, session, [Fresh EXCEPT !.sources = S], given, expected, FALSE, "no")
  BY DEF FromSources
<1> DEFINE state == [Fresh EXCEPT !.sources = S]
<1>2. S \in Sources
  BY DEF TypeOK, Checkpoint, SessionState
<1>3. state \in SessionState /\ TrueState(state, histories)
  BY <1>2, JobTypes DEF Fresh, SessionState, TrueState
<1>4. session \in Session \cup {NoSession}
  BY DEF IdOf, Bundle
<1> HIDE DEF state
<1>5. Begin(h, b, session, state, given, expected, FALSE, "no")
  BY <1>1 DEF state
<1> QED BY <1>3, <1>4, <1>5, Beginning

LEMMA Asking ==
    ASSUME TypeOK, SafeInv, NEW h \in Host, Ask(h)
    PROVE  TypeOK' /\ SafeInv'
<1>1. PICK b \in bundles, given \in Session \cup {NoSession} :
        \E d \in {b} \cup Relabelled(b) : \E expected \in {NoHead, archive} :
          \/ FromLive(h, d, given, expected)
          \/ FromCheckpoint(h, d, given, expected)
          \/ FromSources(h, d, given, expected)
  BY DEF Ask
<1>2. PICK d \in {b} \cup Relabelled(b) : \E expected \in {NoHead, archive} :
          \/ FromLive(h, d, given, expected)
          \/ FromCheckpoint(h, d, given, expected)
          \/ FromSources(h, d, given, expected)
  BY <1>1
<1>3. d \in Bundle /\ replays < MaxReplays
  BY RelabelledType DEF TypeOK, Ask
<1> QED BY <1>2, <1>3, LiveReplay, CheckpointReplay, SourcesReplay
-----------------------------------------------------------------------------
(* The archive grows, or an older copy comes back.                         *)

LEMMA ArchiveMoves ==
    ASSUME TypeOK, SafeInv, NEW records \in Sources, ArchiveBecomes(records),
           UNCHANGED <<pc, reply>>
    PROVE  /\ archive' \in histories' /\ archive' \in Sources
           /\ histories' \subseteq Sources /\ histories \subseteq histories'
           /\ job' \in [Host -> Job]
           /\ \A g \in Host : HostInv(g, pc[g], job[g], reply[g], archive, histories)'
<1>1. /\ archive' = records /\ histories' = histories \cup {records}
      /\ job' = [h \in Host |->
                   IF job[h].bundle = NoBundle THEN job[h]
                   ELSE [job[h] EXCEPT !.calm = @ /\ Agrees(h, job[h].bundle, records)]]
  BY DEF ArchiveBecomes
<1>2. ASSUME NEW g \in Host
      PROVE  job'[g] \in Job /\ HostInv(g, pc'[g], job'[g], reply'[g], archive', histories')
  <2> DEFINE old == job[g]
             j == job'[g]
  <2>1. HostInv(g, pc[g], old, reply[g], archive, histories) /\ old \in Job
    BY HostHolds
  <2>2. (old.calm /\ Agrees(g, old.bundle, records)) \in BOOLEAN
    BY <2>1 DEF Job, Agrees
  <2>3. /\ j \in Job /\ j.bundle = old.bundle /\ j.session = old.session
        /\ j.state = old.state /\ j.attested = old.attested /\ j.own = old.own
        /\ j.calm => old.calm
        /\ (j.calm /\ j.bundle # NoBundle) => Agrees(g, old.bundle, records)
    BY <1>1, <2>1 DEF Job
  <2> HIDE DEF j
  <2>4. Placed(g, pc[g], j, reply[g])
    BY <2>1, <2>3 DEF HostInv, Placed
  <2>5. Sound(g, j, histories')
    BY <1>1, <2>1, <2>3 DEF HostInv, Sound, TrueState
  <2>6. Passed(j, reply[g])
    BY <2>1, <2>3 DEF HostInv, Passed, Anchored
  <2>7. WithSession(g, pc[g], j)
    BY <2>1, <2>3 DEF HostInv, WithSession
  <2>8. WithCheckpoint(g, pc[g], j, records)
    BY <2>1, <2>3, <2>4 DEF HostInv, WithCheckpoint, Placed
  <2>9. Untouched(j, reply[g])
    BY <2>1, <2>3 DEF HostInv, Untouched
  <2>10. HostInv(g, pc[g], j, reply[g], archive', histories')
    BY <1>1, <2>4, <2>5, <2>6, <2>7, <2>8, <2>9 DEF HostInv
  <2> QED BY <2>3, <2>10 DEF j
<1>3. job' \in [Host -> Job]
  BY <1>1, <1>2
<1>4. \A g \in Host : HostInv(g, pc[g], job[g], reply[g], archive, histories)'
  BY <1>2 DEF HostInv, Placed, Sound, Passed, WithSession, WithCheckpoint, Untouched,
              TrueState, Agrees, Anchored, Archived, StateOf
<1> QED BY <1>1, <1>3, <1>4 DEF TypeOK

\* What was true of an archive that has moved is still true.
LEMMA SessionsStayTrue ==
    ASSUME TypeOK, SafeInv, NEW records \in Sources, ArchiveBecomes(records)
    PROVE  /\ \A h \in Host, s \in Session : live[h][s] # NoSession =>
                /\ TrueState(live[h][s], histories')
                /\ live[h][s].verified <=> Archived(h)
           /\ \A b \in bundles : TrueBundle(b, histories')
<1>1. histories \subseteq histories'
  BY DEF ArchiveBecomes
<1>2. \A st : TrueState(st, histories) => TrueState(st, histories')
  BY <1>1 DEF TrueState
<1> QED BY <1>2 DEF SafeInv, TrueSessions, TrueBundles, TrueBundle

LEMMA ArchiveChanging ==
    ASSUME TypeOK, SafeInv, ArchiveChanges
    PROVE  TypeOK' /\ SafeInv'
<1>1. PICK records \in histories \cup {S \in Sources : archive \subseteq S} :
        ArchiveBecomes(records)
  BY DEF ArchiveChanges
<1>2. records \in Sources
  BY DEF TypeOK
<1>3. UNCHANGED <<live, callerVars, pc, reply, compiles, replays, restarts>>
      /\ changes < MaxChanges /\ changes' = changes + 1
  BY DEF ArchiveChanges
<1>4. Counted
  BY <1>3, BundleAssumption DEF TypeOK, Counted
<1>5. /\ archive' \in histories' /\ archive' \in Sources /\ histories' \subseteq Sources
      /\ job' \in [Host -> Job]
      /\ \A g \in Host : HostInv(g, pc[g], job[g], reply[g], archive, histories)'
  BY <1>1, <1>2, <1>3, ArchiveMoves
<1>6. TypeOK'
  BY <1>3, <1>4, <1>5 DEF TypeOK, Counted, callerVars
<1>7. (TrueSessions /\ TrueBundles)'
  BY <1>1, <1>2, <1>3, SessionsStayTrue DEF TrueSessions, TrueBundles, TrueBundle, TrueState,
                                            callerVars
<1> QED BY <1>5, <1>6, <1>7 DEF SafeInv
-----------------------------------------------------------------------------
(* A compilation.                                                          *)

LEMMA Returning ==
    ASSUME TypeOK, SafeInv, NEW h \in Host, NEW s \in Session, NEW state \in SessionState,
           NEW ledger \in Outcomes, compiles < MaxCompiles,
           TrueState(state, histories'), state.verified <=> Archived(h),
           Returned(h, s, state, ledger), UNCHANGED <<pc, reply, replays, changes, restarts>>,
           archive' \in histories', archive' \in Sources, histories' \subseteq Sources,
           job' \in [Host -> Job],
           \A g \in Host : HostInv(g, pc[g], job[g], reply[g], archive, histories)',
           \A g \in Host, t \in Session : live[g][t] # NoSession =>
                /\ TrueState(live[g][t], histories')
                /\ live[g][t].verified <=> Archived(g),
           \A b \in bundles : TrueBundle(b, histories')
    PROVE  TypeOK' /\ SafeInv'
<1>1. /\ live' = [live EXCEPT ![h][s] = state]
      /\ checkpoints' = checkpoints \cup {[session |-> s, state |-> state]}
      /\ bundles' = bundles \cup {BundleOf(s, state, ledger)}
      /\ compiles' = compiles + 1
  BY DEF Returned
<1>2. ledger \in Ledgers
  BY BundleAssumption
<1>3. BundleOf(s, state, ledger) \in Bundle /\ [session |-> s, state |-> state] \in Checkpoint
  BY <1>2, BundleOfType
<1>4. live' \in [Host -> [Session -> SessionState \cup {NoSession}]]
  BY <1>1 DEF TypeOK
<1>5. compiles' \in 0..MaxCompiles
  BY <1>1, BundleAssumption DEF TypeOK
<1>6. TypeOK'
  BY <1>1, <1>3, <1>4, <1>5 DEF TypeOK
<1>7. ASSUME NEW g \in Host, NEW t \in Session, live'[g][t] # NoSession
      PROVE  TrueState(live'[g][t], histories') /\ (live'[g][t].verified <=> Archived(g))
  <2>1. CASE g = h /\ t = s
    <3>1. live'[g][t] = state
      BY <1>1, <2>1 DEF TypeOK
    <3> QED BY <3>1, <2>1
  <2>2. CASE ~(g = h /\ t = s)
    <3>1. live'[g][t] = live[g][t]
      BY <1>1, <2>2 DEF TypeOK
    <3> QED BY <3>1, <1>7
  <2> QED BY <2>1, <2>2
<1>8. TrueBundle(BundleOf(s, state, ledger), histories')
  BY DEF TrueBundle, BundleOf, TrustedMemory, StateOf, TrueState
<1>9. \A b \in bundles' : TrueBundle(b, histories')
  BY <1>1, <1>8
<1>10. TrueSessions'
  BY <1>7 DEF TrueSessions, TrueState, Archived
<1>11. TrueBundles'
  BY <1>9 DEF TrueBundles, TrueBundle, TrueState
<1> QED BY <1>6, <1>10, <1>11 DEF SafeInv

LEMMA BaseType ==
    ASSUME TypeOK, NEW h \in Host, NEW s \in Session, NEW base \in Base(h, s)
    PROVE  base \in SessionState
<1>1. CASE live[h][s] # NoSession
  BY <1>1 DEF Base, TypeOK
<1>2. CASE live[h][s] = NoSession
  <2>1. base = Fresh \/ \E c \in checkpoints : base = [c.state EXCEPT !.verified = FALSE]
    BY <1>2 DEF Base
  <2>2. \A c \in checkpoints : [c.state EXCEPT !.verified = FALSE] \in SessionState
    BY DEF TypeOK, Checkpoint, SessionState
  <2> QED BY <2>1, <2>2, JobTypes
<1> QED BY <1>1, <1>2

LEMMA CompilingArchived ==
    ASSUME TypeOK, SafeInv, NEW h \in Host, NEW s \in Session, compiles < MaxCompiles,
           CompileArchived(h, s)
    PROVE  TypeOK' /\ SafeInv'
<1>1. PICK base \in Base(h, s), new \in Sources, ledger \in Outcomes :
        LET all == archive \cup base.sources \cup new
        IN  /\ ArchiveBecomes(all)
            /\ Returned(h, s, [sources |-> all, head |-> all, verified |-> TRUE], ledger)
  BY DEF CompileArchived
<1> DEFINE all == archive \cup base.sources \cup new
           state == [sources |-> all, head |-> all, verified |-> TRUE]
<1>2. all \in Sources
  BY BaseType DEF TypeOK, SessionState, Sources
<1>3. state \in SessionState
  BY <1>2 DEF SessionState, Heads
<1>4. ArchiveBecomes(all) /\ Returned(h, s, state, ledger)
  BY <1>1
<1>5. UNCHANGED <<pc, reply, replays, changes, restarts>> /\ Archived(h)
  BY DEF CompileArchived
<1> HIDE DEF all
<1>6. /\ archive' \in histories' /\ archive' \in Sources /\ histories' \subseteq Sources
      /\ job' \in [Host -> Job]
      /\ \A g \in Host : HostInv(g, pc[g], job[g], reply[g], archive, histories)'
  BY <1>2, <1>4, <1>5, ArchiveMoves
<1>7. TrueState(state, histories') /\ (state.verified <=> Archived(h))
  BY <1>4, <1>5 DEF TrueState, ArchiveBecomes
<1> HIDE DEF state
<1> QED BY <1>2, <1>3, <1>4, <1>5, <1>6, <1>7, SessionsStayTrue, Returning

\* What is known of a host stays true while neither it nor the archive moves.
LEMMA UntouchedHosts ==
    ASSUME SafeInv, UNCHANGED <<pc, job, reply, archive, histories>>
    PROVE  \A g \in Host : HostInv(g, pc[g], job[g], reply[g], archive, histories)'
<1> SUFFICES ASSUME NEW g \in Host
             PROVE  HostInv(g, pc[g], job[g], reply[g], archive, histories)'
  OBVIOUS
<1>1. HostInv(g, pc[g], job[g], reply[g], archive, histories)
  BY DEF SafeInv
<1>2. Placed(g, pc[g], job[g], reply[g])'
  BY <1>1 DEF HostInv, Placed, Archived
<1>3. Sound(g, job[g], histories)'
  BY <1>1 DEF HostInv, Sound, TrueState, Archived
<1>4. Passed(job[g], reply[g])'
  BY <1>1 DEF HostInv, Passed, Anchored
<1>5. WithSession(g, pc[g], job[g])'
  BY <1>1 DEF HostInv, WithSession, StateOf, Archived
<1>6. WithCheckpoint(g, pc[g], job[g], archive)'
  BY <1>1 DEF HostInv, WithCheckpoint, Agrees, Archived
<1>7. Untouched(job[g], reply[g])'
  BY <1>1 DEF HostInv, Untouched
<1> QED BY <1>2, <1>3, <1>4, <1>5, <1>6, <1>7 DEF HostInv

LEMMA CompilingLocally ==
    ASSUME TypeOK, SafeInv, NEW h \in Host, NEW s \in Session, compiles < MaxCompiles,
           CompileLocally(h, s)
    PROVE  TypeOK' /\ SafeInv'
<1>1. PICK base \in Base(h, s), new \in Sources, claim \in histories \cup {NoHead},
           ledger \in Outcomes :
        Returned(h, s, [sources |-> base.sources \cup new,
                        head |-> IF claim = NoHead THEN base.head ELSE claim,
                        verified |-> FALSE], ledger)
  BY DEF CompileLocally
<1> DEFINE state == [sources |-> base.sources \cup new,
                     head |-> IF claim = NoHead THEN base.head ELSE claim,
                     verified |-> FALSE]
<1>2. UNCHANGED <<archiveVars, pc, job, reply, replays, changes, restarts>> /\ ~Archived(h)
  BY DEF CompileLocally
<1>3. base \in SessionState
  BY BaseType
<1>4. base.sources \cup new \in Sources
  BY <1>3 DEF SessionState, Sources
<1>5. (IF claim = NoHead THEN base.head ELSE claim) \in Heads
  BY <1>3 DEF SessionState, Heads, TypeOK
<1>6. state \in SessionState
  BY <1>4, <1>5 DEF SessionState
<1>7. TrueState(state, histories') /\ (state.verified <=> Archived(h))
  BY <1>2 DEF TrueState
<1>8. archive' = archive /\ histories' = histories /\ job' = job /\ pc' = pc /\ reply' = reply
  BY <1>2 DEF archiveVars
<1>9. /\ archive' \in histories' /\ archive' \in Sources /\ histories' \subseteq Sources
      /\ job' \in [Host -> Job]
  BY <1>8 DEF TypeOK, SafeInv
<1>10. \A g \in Host : HostInv(g, pc[g], job[g], reply[g], archive, histories)'
  BY <1>8, UntouchedHosts
<1>11. /\ \A g \in Host, t \in Session : live[g][t] # NoSession =>
             /\ TrueState(live[g][t], histories')
             /\ live[g][t].verified <=> Archived(g)
       /\ \A b \in bundles : TrueBundle(b, histories')
  BY <1>8 DEF SafeInv, TrueSessions, TrueBundles
<1>12. Returned(h, s, state, ledger)
  BY <1>1
<1> HIDE DEF state
<1> QED BY <1>2, <1>6, <1>7, <1>9, <1>10, <1>11, <1>12, Returning
-----------------------------------------------------------------------------
(* The theorems.                                                           *)

LEMMA NextIsSafe ==
    ASSUME TypeOK, SafeInv, Next PROVE TypeOK' /\ SafeInv'
<1>1. ASSUME NEW h \in Host, Compile(h) PROVE TypeOK' /\ SafeInv'
  <2>1. PICK s \in Session : CompileArchived(h, s) \/ CompileLocally(h, s)
    BY <1>1 DEF Compile
  <2>2. compiles < MaxCompiles
    BY <1>1 DEF Compile
  <2> QED BY <2>1, <2>2, CompilingArchived, CompilingLocally
<1>2. ASSUME NEW h \in Host, Ask(h) PROVE TypeOK' /\ SafeInv'
  BY <1>2, Asking
<1>3. ASSUME NEW h \in Host, Verify(h) PROVE TypeOK' /\ SafeInv'
  BY <1>3, Restoring, RestoreLoading, Attesting, AttestLoading, Judging DEF Verify
<1>4. ASSUME NEW h \in Host, Fault(h) PROVE TypeOK' /\ SafeInv'
  BY <1>4, Failing
<1>5. ASSUME NEW h \in Host, Restart(h) PROVE TypeOK' /\ SafeInv'
  BY <1>5, Restarting
<1>6. ASSUME ArchiveChanges PROVE TypeOK' /\ SafeInv'
  BY <1>6, ArchiveChanging
<1> QED BY <1>1, <1>2, <1>3, <1>4, <1>5, <1>6 DEF Next

LEMMA InitIsSafe == Init => TypeOK /\ SafeInv
<1> SUFFICES ASSUME Init PROVE TypeOK /\ SafeInv
  OBVIOUS
<1>1. /\ archive = {} /\ histories = {archive} /\ live = [h \in Host |-> NoSessions]
      /\ checkpoints = {} /\ bundles = {} /\ pc = [h \in Host |-> "idle"]
      /\ job = [h \in Host |-> NoJob] /\ reply = [h \in Host |-> "none"]
      /\ compiles = 0 /\ replays = 0 /\ changes = 0 /\ restarts = 0
  BY DEF Init
<1>2. compiles \in 0..MaxCompiles /\ replays \in 0..MaxReplays
      /\ changes \in 0..MaxChanges /\ restarts \in 0..MaxRestarts
  BY <1>1, BundleAssumption
<1>3. TypeOK
  BY <1>1, <1>2, JobTypes DEF TypeOK, Sources, Steps, Replies
<1>4. TrueSessions /\ TrueBundles /\ archive \in histories
  BY <1>1 DEF TrueSessions, TrueBundles, NoSessions
<1>5. \A h \in Host : HostInv(h, "idle", NoJob, "none", archive, histories)
  BY DEF HostInv, Placed, Sound, Passed, WithSession, WithCheckpoint, Untouched, NoJob
<1> QED BY <1>1, <1>3, <1>4, <1>5 DEF SafeInv

\* Verified sessions and bundles hold histories of the archive, and a
\* verification in progress knows only what the archive has said.
THEOREM AlwaysSafe == Spec => [](TypeOK /\ SafeInv)
<1>1. TypeOK /\ SafeInv /\ UNCHANGED vars => (TypeOK /\ SafeInv)'
  <2> SUFFICES ASSUME TypeOK, SafeInv, UNCHANGED vars PROVE TypeOK' /\ SafeInv'
    OBVIOUS
  <2>1. TypeOK'
    BY DEF vars, archiveVars, callerVars, boundVars, TypeOK
  <2>2. archive' \in histories' /\ TrueSessions' /\ TrueBundles'
    BY DEF vars, archiveVars, callerVars, SafeInv, TrueSessions, TrueBundles, TrueBundle,
           TrueState, Archived
  <2>3. \A g \in Host : HostInv(g, pc[g], job[g], reply[g], archive, histories)'
    BY UntouchedHosts DEF vars, archiveVars
  <2> QED BY <2>1, <2>2, <2>3 DEF SafeInv
<1> QED BY <1>1, InitIsSafe, NextIsSafe, PTL DEF Spec

\* A bundle that verify_memory passes with a verified head holds the memory of
\* a history of the archive.
THEOREM VerifiedClaims == Spec => []PassedClaimIsHistory
<1>1. TypeOK /\ SafeInv => PassedClaimIsHistory
  <2> SUFFICES ASSUME TypeOK, SafeInv, NEW h \in Host,
                      reply[h] = "passed", job[h].bundle.verified
               PROVE  /\ job[h].bundle.head \in histories
                      /\ job[h].bundle.artifact = job[h].bundle.head
                      /\ job[h].bundle.sources = job[h].bundle.head
                      /\ job[h].state.sources = job[h].bundle.head
    BY DEF PassedClaimIsHistory
  <2>1. HostInv(h, pc[h], job[h], reply[h], archive, histories)
    BY HostHolds
  <2>2. job[h].bundle # NoBundle /\ Anchored(job[h]) /\ Sound(h, job[h], histories)
    BY <2>1 DEF HostInv, Placed, Passed
  <2> QED BY <2>2 DEF Anchored, Sound, TrueState
<1> QED BY <1>1, AlwaysSafe, PTL

\* verify_memory passes a bundle that comes back as compile_memory made it.
THEOREM UntouchedPass == Spec => []UntouchedBundlesPass
<1>1. TypeOK /\ SafeInv => UntouchedBundlesPass
  BY DEF SafeInv, HostInv, Untouched, UntouchedBundlesPass
<1> QED BY <1>1, AlwaysSafe, PTL
=============================================================================

---------------------------- MODULE BundleReplay ----------------------------
(***************************************************************************)
(* ContextBundles of LocalAIConnector: what compile_memory hands out, what  *)
(* happens to it on its way, and what verify_memory makes of it, perhaps in *)
(* another process and after a restart, while other programs append to the  *)
(* archive.  A compilation is one step here: Connector has its steps, and   *)
(* VerifiedSourcesAreTheHead is what this module takes from it.  A digest   *)
(* is modelled by what it is the digest of, and a chain head by the set of  *)
(* records of its history.  Token counts are estimated, as with stdio.      *)
(***************************************************************************)
EXTENDS Naturals

CONSTANTS Host,          \* connector processes
          ArchiveHost,   \* those configured with the archive
          Session,       \* session ids
          Record,        \* source records, after normalization
          Outcomes,      \* how the compilations of the callers end
          NoHead,        \* no archive head
          NoSession,     \* no such session, or no session id
          NoBundle,      \* no request is under way
          MaxCompiles,   \* bound of the model: compilations
          MaxReplays,    \* bound of the model: verifications
          MaxChanges,    \* bound of the model: changes from outside
          MaxRestarts    \* bound of the model: restarts of a host

Sources == SUBSET Record
Heads == Sources \cup {NoHead}
SessionState == [sources : Sources, head : Heads, verified : BOOLEAN]
Checkpoint == [session : Session, state : SessionState]

\* The ledger of an artifact: complete and verified, active items only, or not
\* verified.
Ledgers == {"whole", "partial", "unsound"}

\* A ContextBundle whose own digest is right: its artifact, its trusted memory,
\* its bindings and its certificate, each of which may belong to another.
Bundle == [artifact : Sources, ledger : Ledgers, memory : Sources \X Sources,
           session : Session, sources : Sources, head : Heads, verified : BOOLEAN,
           certified : BOOLEAN]

\* A verification in progress: its bundle, the session behind the sources it
\* was given, if any, the sources and what is known of their head, and whether
\* the archive has attested the bundle.  `own` is said of a bundle that is sent
\* with what was returned with it, and `calm` while the archive agrees with it.
Job == [bundle : Bundle \cup {NoBundle}, session : Session \cup {NoSession},
        state : SessionState, attested : BOOLEAN, own : {"no", "live", "checkpoint"},
        calm : BOOLEAN]

ASSUME BundleAssumption ==
    /\ ArchiveHost \subseteq Host
    /\ Outcomes \subseteq Ledgers
    /\ NoHead \notin SUBSET Record
    /\ NoSession \notin Session /\ NoSession \notin SessionState
    /\ NoBundle \notin Bundle
    /\ MaxCompiles \in Nat /\ MaxReplays \in Nat
    /\ MaxChanges \in Nat /\ MaxRestarts \in Nat

VARIABLES archive,     \* the records of the archive
          histories,   \* all it has ever held
          live,        \* the sessions of each host
          checkpoints, \* the checkpoints callers hold
          bundles,     \* the bundles compile_memory has returned
          pc,          \* where each host is in a verification
          job,         \* the verification
          reply,       \* its verdict
          compiles, replays, changes, restarts

archiveVars == <<archive, histories>>
callerVars == <<checkpoints, bundles>>
boundVars == <<compiles, replays, changes, restarts>>
vars == <<archiveVars, live, callerVars, pc, job, reply, boundVars>>

Steps == {"idle", "restore", "restore load", "attest", "attest load", "judge"}
Replies == {"none", "passed", "failed", "refused"}

TypeOK ==
    /\ archive \in Sources /\ histories \subseteq Sources
    /\ live \in [Host -> [Session -> SessionState \cup {NoSession}]]
    /\ checkpoints \subseteq Checkpoint
    /\ bundles \subseteq Bundle
    /\ pc \in [Host -> Steps]
    /\ job \in [Host -> Job]
    /\ reply \in [Host -> Replies]
    /\ compiles \in 0..MaxCompiles /\ replays \in 0..MaxReplays
    /\ changes \in 0..MaxChanges /\ restarts \in 0..MaxRestarts
-----------------------------------------------------------------------------
Fresh == [sources |-> {}, head |-> NoHead, verified |-> FALSE]
NoJob == [bundle |-> NoBundle, session |-> NoSession, state |-> Fresh,
          attested |-> FALSE, own |-> "no", calm |-> FALSE]
NoSessions == [s \in Session |-> NoSession]

Archived(h) == h \in ArchiveHost

\* What host h can see of the head of a bundle is what the bundle says of it.
Agrees(h, b, records) == b.verified <=> (Archived(h) /\ b.head = records)

\* The archive becomes another history, under the verifications in progress.
ArchiveBecomes(records) ==
    /\ archive' = records
    /\ histories' = histories \cup {records}
    /\ job' = [h \in Host |->
                 IF job[h].bundle = NoBundle THEN job[h]
                 ELSE [job[h] EXCEPT !.calm = @ /\ Agrees(h, job[h].bundle, records)]]

\* What ContextBundle refuses to be made of.
WellFormed(b) == b.verified => b.head # NoHead

StateOf(b) == [sources |-> b.sources, head |-> b.head, verified |-> b.verified]
-----------------------------------------------------------------------------
(* compile_memory: the bundle, the checkpoint and the live session.        *)

\* The projection of an artifact's memory, with the hashes of its sources.
TrustedMemory(artifact, sources) == <<artifact, sources>>

\* The bundle of a session that was compiled to a ledger.
BundleOf(s, state, ledger) ==
    [artifact |-> state.sources, ledger |-> ledger,
     memory |-> TrustedMemory(state.sources, state.sources),
     session |-> s, sources |-> state.sources, head |-> state.head,
     verified |-> state.verified, certified |-> ledger # "unsound"]

Returned(h, s, state, ledger) ==
    /\ live' = [live EXCEPT ![h][s] = state]
    /\ checkpoints' = checkpoints \cup {[session |-> s, state |-> state]}
    /\ bundles' = bundles \cup {BundleOf(s, state, ledger)}
    /\ compiles' = compiles + 1

\* The session a compilation starts from: live, resumed or new.
Base(h, s) ==
    IF live[h][s] # NoSession THEN {live[h][s]}
    ELSE {Fresh} \cup {[c.state EXCEPT !.verified = FALSE] :
                         c \in {d \in checkpoints : d.session = s}}

\* The session is synchronized with the archive; one session of the host owns it.
CompileArchived(h, s) ==
    /\ Archived(h)
    /\ \A t \in Session \ {s} : live[h][t] = NoSession
    /\ \E base \in Base(h, s), new \in Sources, ledger \in Outcomes :
         LET all == archive \cup base.sources \cup new
         IN  /\ base.verified => base.head = archive
             /\ ArchiveBecomes(all)
             /\ Returned(h, s, [sources |-> all, head |-> all, verified |-> TRUE], ledger)
    /\ UNCHANGED <<pc, reply, replays, changes, restarts>>

\* Without an archive, a head is what the caller says it is.
CompileLocally(h, s) ==
    /\ ~Archived(h)
    /\ \E base \in Base(h, s), new \in Sources, claim \in histories \cup {NoHead},
          ledger \in Outcomes :
         /\ base.head = NoHead \/ claim = NoHead \/ base.head = claim
         /\ Returned(h, s, [sources |-> base.sources \cup new,
                            head |-> IF claim = NoHead THEN base.head ELSE claim,
                            verified |-> FALSE], ledger)
    /\ UNCHANGED <<archiveVars, pc, job, reply, replays, changes, restarts>>
-----------------------------------------------------------------------------
(* verify_memory.                                                          *)

\* verify_artifact_dict passes the artifact with these sources.
Replays(b, sources) == b.artifact = sources /\ b.ledger = "whole"

\* The session the sources came from, or the one that was named, is that of
\* the bundle.
SessionMatches(b, session, given) ==
    LET trusted == IF session # NoSession THEN session ELSE given
    IN  trusted # NoSession => b.session = trusted

\* The head is the one expected, and that of the session.
HeadMatches(b, session, state, expected) ==
    /\ expected # NoHead => b.head = expected
    /\ (session # NoSession /\ state.head # NoHead) => b.head = state.head

\* The replay and the bindings, as far as the archive has no say in them.
Holds(b, session, state, given, expected) ==
    /\ Replays(b, state.sources)
    /\ SessionMatches(b, session, given)
    /\ b.sources = state.sources
    /\ b.memory = TrustedMemory(b.artifact, state.sources)
    /\ HeadMatches(b, session, state, expected)
    /\ b.certified

\* The session id must be that of the checkpoint.
Disagrees(session, given, restored) ==
    restored /\ given \notin {NoSession, session}

\* What the archive is asked first: about the checkpoint, then about the bundle.
AttestFrom(h, b) == IF Archived(h) /\ b.head # NoHead THEN "attest" ELSE "judge"
AskFirst(h, b, state, restored) ==
    IF restored /\ Archived(h) /\ state.head # NoHead THEN "restore" ELSE AttestFrom(h, b)

\* Bundle b comes with sources.  When the replay or a binding fails, nothing
\* the archive may say changes the verdict.
Begin(h, b, session, state, given, expected, restored, own) ==
    /\ replays' = replays + 1
    /\ LET passes == /\ Holds(b, session, state, given, expected)
                     /\ ~Disagrees(session, given, restored)
       IN  /\ job' = [job EXCEPT ![h] =
                [NoJob EXCEPT !.own = own, !.calm = Agrees(h, b, archive),
                              !.bundle = IF passes THEN b ELSE NoBundle,
                              !.session = IF passes THEN session ELSE NoSession,
                              !.state = IF passes THEN state ELSE Fresh]]
           /\ pc' = [pc EXCEPT ![h] =
                IF passes THEN AskFirst(h, b, state, restored) ELSE "idle"]
           /\ reply' = [reply EXCEPT ![h] =
                IF passes THEN "none"
                ELSE IF Disagrees(session, given, restored) THEN "refused" ELSE "failed"]
    /\ UNCHANGED <<archiveVars, live, callerVars, compiles, changes, restarts>>

IdOf(b, given) == IF given = NoSession THEN b.session ELSE given

\* The caller names no other session and expects no other head than the bundle's.
Consistent(b, given, expected) ==
    /\ b \in bundles /\ b.ledger = "whole"
    /\ given \in {NoSession, b.session} /\ expected \in {NoHead, b.head}

\* With a live session of the host.
FromLive(h, b, given, expected) ==
    LET s == IdOf(b, given)
    IN  /\ live[h][s] # NoSession
        /\ Begin(h, b, s, live[h][s], given, expected, FALSE,
                 IF Consistent(b, given, expected) /\ live[h][s] = StateOf(b) THEN "live"
                 ELSE "no")

OwnCheckpoint(b, given, expected, c) ==
    IF Consistent(b, given, expected) /\ c = [session |-> b.session, state |-> StateOf(b)]
    THEN "checkpoint" ELSE "no"

\* slip: the checkpoint replaces, or conflicts with, the live session.
RestoresAsLive(h, b, given, expected) ==
    \E c \in checkpoints :
        LET state == IF live[h][c.session] # NoSession THEN live[h][c.session]
                     ELSE [c.state EXCEPT !.verified = FALSE]
        IN  Begin(h, b, c.session, state, given, expected, TRUE,
                  OwnCheckpoint(b, given, expected, c))

\* With a detached session, restored from a checkpoint.
FromCheckpoint(h, b, given, expected) ==
    \E c \in checkpoints :
        Begin(h, b, c.session, [c.state EXCEPT !.verified = FALSE], given, expected, TRUE,
              OwnCheckpoint(b, given, expected, c))

\* With records, which have no session, or with events: a session that knows
\* of no archive.
FromSources(h, b, given, expected) ==
    \E S \in {archive} \cup {c.state.sources : c \in checkpoints},
       session \in {NoSession, IdOf(b, given)} :
        Begin(h, b, session, [Fresh EXCEPT !.sources = S], given, expected, FALSE, "no")

Goes(h, step) == pc' = [pc EXCEPT ![h] = step]

\* _archive_attests, its verify(expected_chain_head=...), for the checkpoint.
Restore(h) ==
    /\ pc[h] = "restore"
    /\ Goes(h, IF archive = job[h].state.head THEN "restore load"
               ELSE AttestFrom(h, job[h].bundle))
    /\ UNCHANGED <<archiveVars, live, callerVars, job, reply, boundVars>>

\* _archive_attests, its load and the comparison, for the checkpoint.
RestoreLoad(h) ==
    /\ pc[h] = "restore load"
    /\ job' = [job EXCEPT ![h].state.verified =
                 archive = job[h].state.head /\ archive = job[h].state.sources]
    /\ Goes(h, AttestFrom(h, job[h].bundle))
    /\ UNCHANGED <<archiveVars, live, callerVars, reply, boundVars>>

\* _archive_attests for the bundle, in the same two reads.
Attest(h) ==
    /\ pc[h] = "attest"
    /\ Goes(h, IF archive = job[h].bundle.head THEN "attest load" ELSE "judge")
    /\ UNCHANGED <<archiveVars, live, callerVars, job, reply, boundVars>>

\* slip: the archive is loaded without the head that was verified.
LoadsAnything(h) ==
    /\ pc[h] = "attest load"
    /\ job' = [job EXCEPT ![h].attested = archive = job[h].state.sources]
    /\ Goes(h, "judge")
    /\ UNCHANGED <<archiveVars, live, callerVars, reply, boundVars>>

AttestLoad(h) ==
    /\ pc[h] = "attest load"
    /\ job' = [job EXCEPT ![h].attested =
                 archive = job[h].bundle.head /\ archive = job[h].state.sources]
    /\ Goes(h, "judge")
    /\ UNCHANGED <<archiveVars, live, callerVars, reply, boundVars>>

\* The archive attests the head, or the session was verified with it.
Anchored(j) ==
    \/ j.attested
    \/ j.session # NoSession /\ j.state.verified /\ j.state.head = j.bundle.head

\* The report: the archive claim of the bundle is what the connector can vouch for.
Judge(h) ==
    /\ pc[h] = "judge"
    /\ Goes(h, "idle")
    /\ reply' = [reply EXCEPT ![h] =
                  IF job[h].bundle.verified <=> Anchored(job[h]) THEN "passed" ELSE "failed"]
    /\ job' = [job EXCEPT ![h] =
                  IF reply'[h] = "passed" THEN @
                  ELSE [NoJob EXCEPT !.own = job[h].own, !.calm = job[h].calm]]
    /\ UNCHANGED <<archiveVars, live, callerVars, boundVars>>
-----------------------------------------------------------------------------
(* The rest of the world.                                                  *)

\* An archive call fails, which only withholds what it would have attested.
Fault(h) ==
    /\ pc[h] \in {"restore", "restore load", "attest", "attest load"}
    /\ changes < MaxChanges
    /\ changes' = changes + 1
    /\ job' = [job EXCEPT ![h].calm = FALSE]
    /\ Goes(h, IF pc[h] \in {"restore", "restore load"} THEN AttestFrom(h, job[h].bundle)
               ELSE "judge")
    /\ UNCHANGED <<archiveVars, live, callerVars, reply, compiles, replays, restarts>>

\* Another program appends to the archive, or an older copy comes back.
ArchiveChanges ==
    /\ changes < MaxChanges
    /\ changes' = changes + 1
    /\ \E records \in histories \cup {S \in Sources : archive \subseteq S} :
         ArchiveBecomes(records)
    /\ UNCHANGED <<live, callerVars, pc, reply, compiles, replays, restarts>>

\* One part of a bundle is another's, and its digest is computed again.
Relabelled(b) ==
    {d \in {[b EXCEPT !.session = s] : s \in Session}
           \cup {[b EXCEPT !.sources = S] : S \in Sources}
           \cup {[b EXCEPT !.memory = TrustedMemory(b.artifact, S)] : S \in Sources}
           \cup {[b EXCEPT !.memory = TrustedMemory(S, b.sources)] : S \in Sources}
           \cup {[b EXCEPT !.artifact = c.artifact, !.ledger = c.ledger] : c \in bundles}
           \cup {[b EXCEPT !.head = k[1], !.verified = k[2]] : k \in Heads \X BOOLEAN}
           \cup {[b EXCEPT !.ledger = k[1], !.certified = k[2]] : k \in Ledgers \X BOOLEAN} :
       WellFormed(d)}

\* A host process that has something to lose is started again.
Restart(h) ==
    /\ restarts < MaxRestarts
    /\ live[h] # NoSessions \/ pc[h] # "idle"
    /\ restarts' = restarts + 1
    /\ live' = [live EXCEPT ![h] = NoSessions]
    /\ pc' = [pc EXCEPT ![h] = "idle"]
    /\ job' = [job EXCEPT ![h] = NoJob]
    /\ reply' = [reply EXCEPT ![h] = "none"]
    /\ UNCHANGED <<archiveVars, callerVars, compiles, replays, changes>>
-----------------------------------------------------------------------------
Init ==
    /\ archive = {}
    /\ histories = {archive}
    /\ live = [h \in Host |-> NoSessions]
    /\ checkpoints = {} /\ bundles = {}
    /\ pc = [h \in Host |-> "idle"]
    /\ job = [h \in Host |-> NoJob]
    /\ reply = [h \in Host |-> "none"]
    /\ compiles = 0 /\ replays = 0 /\ changes = 0 /\ restarts = 0

Compile(h) ==
    /\ pc[h] = "idle"
    /\ compiles < MaxCompiles
    /\ \E s \in Session : CompileArchived(h, s) \/ CompileLocally(h, s)
\* A bundle is sent as it was returned, or relabelled.
Ask(h) ==
    /\ pc[h] = "idle"
    /\ replays < MaxReplays
    /\ \E b \in bundles, given \in Session \cup {NoSession} :
         \E d \in {b} \cup Relabelled(b) : \E expected \in {NoHead, archive} :
           \/ FromLive(h, d, given, expected)
           \/ FromCheckpoint(h, d, given, expected)
           \/ FromSources(h, d, given, expected)
Verify(h) == Restore(h) \/ RestoreLoad(h) \/ Attest(h) \/ AttestLoad(h) \/ Judge(h)

Next ==
    \/ \E h \in Host : Compile(h) \/ Ask(h) \/ Verify(h) \/ Fault(h) \/ Restart(h)
    \/ ArchiveChanges

Spec == Init /\ [][Next]_vars
-----------------------------------------------------------------------------
(* Properties.                                                             *)

\* A bundle that passes and says that its archive head was verified holds the
\* memory of one history of the archive, and its head is that of this history,
\* whoever relabelled it and however the archive changed between the reads.
PassedClaimIsHistory ==
    \A h \in Host : LET b == job[h].bundle IN
        (reply[h] = "passed" /\ b.verified) =>
            /\ b.head \in histories
            /\ b.artifact = b.head /\ b.sources = b.head /\ job[h].state.sources = b.head

\* A bundle that comes back as it was made passes: with its live session
\* whatever happens to the archive, and with its checkpoint, after any restart,
\* as long as the archive says of its head what the bundle says.
UntouchedBundlesPass ==
    \A h \in Host : reply[h] \in {"failed", "refused"} =>
        job[h].own = "no" \/ (job[h].own = "checkpoint" /\ ~job[h].calm)
=============================================================================

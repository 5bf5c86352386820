----------------------------- MODULE CommandLine -----------------------------
(***************************************************************************)
(* The ctxc commands that share an archive, an artifact file and a trust    *)
(* manifest file: compile, archive append, archive verify, verify, trust    *)
(* create and trust verify, each a process of its own.  A command reads and *)
(* writes one file after another; other commands, edits of the files and a  *)
(* restored archive come in between.  An append is atomic and a load        *)
(* returns one visible history (SourceArchive, which implements             *)
(* AppendOnlyHistory); a file is replaced as a whole.  SHA-256 does not     *)
(* collide: a digest is modelled by what it is the digest of.               *)
(***************************************************************************)
EXTENDS Naturals

CONSTANTS Process,      \* concurrent commands
          Record,       \* source records
          Inputs,       \* the source files, sets of records
          Policy,       \* compilation policies
          Slack,        \* those that require a target they miss
          ActiveOnly,   \* those whose artifact leaves out what is not active
          Unverifiable, \* the source sets whose memory does not verify
          None,
          MaxCommands,  \* bound on the commands started
          MaxEdits      \* bound on the edits of the files

\* A serialized artifact: `intact` when its digest matches, `made` when its
\* items and reports are those the compiler made.
Artifact == [of : SUBSET Record, policy : Policy, intact : BOOLEAN, made : BOOLEAN]
\* What a manifest's digest covers; no chain head when its sources came from a file.
Binding == [artifact : Artifact, sources : SUBSET Record, head : {None} \cup SUBSET Record]
Manifest == [binding : Binding, self : BOOLEAN]

ASSUME CommandLineAssumption ==
    /\ \A S \in SUBSET Record : S # None
    /\ None \notin Artifact \cup Binding \cup Manifest
    /\ Inputs \subseteq SUBSET Record /\ Unverifiable \subseteq SUBSET Record
    /\ Slack \subseteq Policy /\ ActiveOnly \subseteq Policy
    /\ MaxCommands \in Nat /\ MaxEdits \in Nat

VARIABLES events,   \* the records of the archive, which are kept in their order
          chained,  \* the archive is not in the legacy format
          artifact, \* the artifact file
          manifest, \* the manifest file
          prompt,   \* the source set of the rendered prompt
          retained, \* the bindings whose digest somebody has retained
          noted,    \* the chain heads somebody has noted
          valid,    \* those retained whose files nobody has touched since
          call,     \* the commands
          commands, \* how many were started
          edits     \* and how many edits made

archiveVars == <<events, chained>>
fileVars == <<artifact, manifest, prompt>>
anchorVars == <<retained, noted>>
vars == <<archiveVars, fileVars, anchorVars, valid, call, commands, edits>>

Trusting == {"trust create", "trust verify"}
Commands == {"compile", "append", "archive verify", "verify"} \cup Trusting
Paths == {"artifact", "manifest", "elsewhere"}
Heads == {None} \cup SUBSET Record

\* A command: its options, what it has read, and its exit code.
Call == [cmd : Commands \cup {"none"},
         pc : {"append", "manifest", "artifact", "verify", "load", "compile", "write", "exited"},
         input : SUBSET Record, archived : BOOLEAN, expected : Heads,
         anchor : {None} \cup Binding, stable : BOOLEAN,
         sources : SUBSET Record, head : Heads,
         artifact : {None} \cup Artifact, manifest : {None} \cup Manifest,
         exit : {0, 2, 3, 4}]

Blank == [cmd |-> "none", pc |-> "exited", input |-> {}, archived |-> FALSE, expected |-> None,
          anchor |-> None, stable |-> FALSE, sources |-> {}, head |-> None,
          artifact |-> None, manifest |-> None, exit |-> 0]

TypeOK ==
    /\ events \subseteq Record /\ chained \in BOOLEAN
    /\ artifact \in {None} \cup Artifact /\ manifest \in {None} \cup Manifest
    /\ prompt \in Heads
    /\ retained \subseteq Binding /\ noted \subseteq SUBSET Record /\ valid \subseteq retained
    /\ call \in [Process -> Call]
    /\ commands \in 0..MaxCommands /\ edits \in 0..MaxEdits
-----------------------------------------------------------------------------
\* The chain head of the archive; a legacy archive has none.
Head == IF chained THEN events ELSE None
HeadAccepted(expected) == expected = None \/ expected = Head

\* validate_artifact_envelope: the digest is that of the artifact.
Intact(a) == a.intact
\* The source digest and the source count are those of the sources.
CompiledFrom(a, sources) == a.of = sources
\* A ledger with all its items; an active-only artifact leaves some out.
Complete(a) == a.policy \notin ActiveOnly
\* The compression report, the counts and the metrics, computed again.
ReportsHold(a) == a.made
\* The verification of the memory of these sources, done again.
Verifies(sources) == sources \notin Unverifiable

\* What verify_artifact_dict passes.
Replays(a, sources) ==
    Intact(a) /\ CompiledFrom(a, sources) /\ Complete(a) /\ ReportsHold(a) /\ Verifies(sources)

Goes(p, step, reading) == call' = [call EXCEPT ![p] = [reading EXCEPT !.pc = step]]

\* The command is over: its code remains, and what a success was about.
Ended(c, code) ==
    IF code = 0 /\ c.cmd \in {"compile", "append", "trust verify"}
    THEN [c EXCEPT !.pc = "exited", !.expected = None, !.manifest = None]
    ELSE [Blank EXCEPT !.stable = c.stable, !.exit = code]
Exit(p, code) == call' = [call EXCEPT ![p] = Ended(@, code)]

Faulted(p) == call' = [call EXCEPT ![p] = [Ended(@, 2) EXCEPT !.stable = FALSE]]

\* Command p writes what other commands may be reading.
Touch(p, c) ==
    call' = [q \in Process |-> IF q = p THEN c ELSE [call[q] EXCEPT !.stable = FALSE]]
-----------------------------------------------------------------------------
(* The start of a command, with its options.                               *)

Starts(p, c) ==
    /\ call[p].pc = "exited"
    /\ commands < MaxCommands
    /\ commands' = commands + 1
    /\ call' = [call EXCEPT ![p] = c]
    /\ UNCHANGED <<archiveVars, fileVars, anchorVars, valid, edits>>

Expectations == noted \cup {None}

StartCompile(p) ==
    \E input \in Inputs :
        \/ Starts(p, [Blank EXCEPT !.cmd = "compile", !.pc = "compile", !.input = input,
                        !.sources = input])
        \/ \E expected \in Expectations :
             Starts(p, [Blank EXCEPT !.cmd = "compile", !.pc = "append", !.input = input,
                          !.archived = TRUE, !.expected = expected])

StartArchive(p) ==
    \E expected \in Expectations :
        \/ Starts(p, [Blank EXCEPT !.cmd = "archive verify", !.pc = "verify",
                        !.expected = expected])
        \/ \E input \in Inputs :
             Starts(p, [Blank EXCEPT !.cmd = "append", !.pc = "append", !.input = input,
                          !.expected = expected])

StartVerify(p) ==
    \/ \E input \in Inputs :
         Starts(p, [Blank EXCEPT !.cmd = "verify", !.pc = "artifact", !.sources = input])
    \/ \E expected \in Expectations :
         Starts(p, [Blank EXCEPT !.cmd = "verify", !.pc = "artifact", !.archived = TRUE,
                      !.expected = expected])

\* The files are those the digest was retained of, and these options name them.
Untouched(archived, expected, input, anchor) ==
    /\ anchor \in valid
    /\ archived <=> anchor.head # None
    /\ archived \/ input = anchor.sources
    /\ expected \in {None, Head}

TrustCall(cmd, archived, expected, input, anchor) ==
    [Blank EXCEPT !.cmd = cmd, !.archived = archived, !.expected = expected,
       !.pc = IF cmd = "trust verify" THEN "manifest" ELSE "artifact",
       !.sources = IF archived THEN {} ELSE input,
       !.anchor = anchor,
       !.stable = Untouched(archived, expected, input, anchor)]

StartTrust(p) ==
    \E cmd \in Trusting, archived \in BOOLEAN, input \in Inputs, expected \in Expectations :
    \E anchor \in IF cmd = "trust verify" THEN retained ELSE {None} :
        /\ archived => input = CHOOSE i \in Inputs : TRUE
        /\ ~archived => expected = None
        /\ Starts(p, TrustCall(cmd, archived, expected, input, anchor))
-----------------------------------------------------------------------------
(* The steps of the commands.                                              *)

\* slip: a refused append is passed over.
AppendRefusalIgnored(p) ==
    LET c == call[p]
        next == IF c.cmd = "compile" THEN "load" ELSE "verify" IN
    /\ c.pc = "append"
    /\ IF ~HeadAccepted(c.expected) \/ c.input \subseteq events
       THEN Goes(p, next, c) /\ UNCHANGED <<archiveVars, valid>>
       ELSE /\ events' = events \cup c.input /\ chained' = TRUE
            /\ valid' = {}
            /\ Touch(p, [c EXCEPT !.pc = next])
    /\ UNCHANGED <<fileVars, anchorVars, commands, edits>>

\* SourceArchive.append(); what is stored already is not stored again.
Append(p) ==
    LET c == call[p]
        next == IF c.cmd = "compile" THEN "load" ELSE "verify" IN
    /\ c.pc = "append"
    /\ IF ~HeadAccepted(c.expected)
       THEN Exit(p, 2) /\ UNCHANGED <<archiveVars, valid>>
       ELSE IF c.input \subseteq events
       THEN Goes(p, next, c) /\ UNCHANGED <<archiveVars, valid>>
       ELSE /\ events' = events \cup c.input /\ chained' = TRUE
            /\ valid' = {}
            /\ \/ Touch(p, [c EXCEPT !.pc = next])
               \/ Touch(p, Ended(c, 2))
    /\ UNCHANGED <<fileVars, anchorVars, commands, edits>>

\* SourceArchive.verify(): what is there, and its head.
VerifyArchive(p) ==
    LET c == call[p]
        read == [c EXCEPT !.sources = events, !.head = Head] IN
    /\ c.pc = "verify"
    /\ IF c.cmd \notin Trusting THEN Goes(p, "write", read)
       ELSE IF Head # None /\ HeadAccepted(c.expected) THEN Goes(p, "load", read)
       ELSE Exit(p, 2)
    /\ UNCHANGED <<archiveVars, fileVars, anchorVars, valid, commands, edits>>

\* slip: a trust command loads whatever there is.
LoadAnything(p) ==
    LET c == call[p] IN
    /\ c.pc = "load"
    /\ Goes(p, IF c.cmd = "compile" THEN "compile" ELSE "write", [c EXCEPT !.sources = events])
    /\ UNCHANGED <<archiveVars, fileVars, anchorVars, valid, commands, edits>>

\* SourceArchive.load(): a trust command expects the head it has verified.
Load(p) ==
    LET c == call[p]
        accepted == CASE c.cmd = "compile" -> TRUE
                      [] c.cmd = "verify" -> HeadAccepted(c.expected)
                      [] c.cmd \in Trusting -> HeadAccepted(c.head) IN
    /\ c.pc = "load"
    /\ IF accepted
       THEN Goes(p, IF c.cmd = "compile" THEN "compile" ELSE "write",
                  [c EXCEPT !.sources = events])
       ELSE Exit(p, 2)
    /\ UNCHANGED <<archiveVars, fileVars, anchorVars, valid, commands, edits>>

\* load_artifact_path.
ReadArtifact(p) ==
    LET c == call[p] IN
    /\ c.pc = "artifact"
    /\ IF artifact = None THEN Exit(p, 2)
       ELSE Goes(p, CASE ~c.archived -> "write" [] c.cmd = "verify" -> "load" [] OTHER -> "verify",
                  [c EXCEPT !.artifact = artifact])
    /\ UNCHANGED <<archiveVars, fileVars, anchorVars, valid, commands, edits>>

\* load_trust_manifest_path.
ReadManifest(p) ==
    LET c == call[p] IN
    /\ c.pc = "manifest"
    /\ IF manifest = None THEN Exit(p, 2)
       ELSE Goes(p, "artifact", [c EXCEPT !.manifest = manifest])
    /\ UNCHANGED <<archiveVars, fileVars, anchorVars, valid, commands, edits>>

\* A file cannot be read or written, or compiling fails or takes too long.
Fails(p) ==
    /\ call[p].pc # "exited"
    /\ Faulted(p)
    /\ UNCHANGED <<archiveVars, fileVars, anchorVars, valid, commands, edits>>

Compile(p) ==
    LET c == call[p] IN
    /\ c.pc = "compile"
    /\ \E policy \in Policy :
         Goes(p, "write", [c EXCEPT !.artifact = [of |-> c.sources, policy |-> policy,
                                                  intact |-> TRUE, made |-> TRUE]])
    /\ UNCHANGED <<archiveVars, fileVars, anchorVars, valid, commands, edits>>

\* The exit code of a compilation, whose target may be required.
CompileCode(c) ==
    IF ~Verifies(c.sources) THEN 3 ELSE IF c.artifact.policy \in Slack THEN 4 ELSE 0

\* A prompt is refused when the memory does not verify.
Renders(c) == Verifies(c.sources)

\* The output, and then the event: either may fail, the first with or without effect.
WriteCompiled(p) ==
    LET c == call[p] IN
    /\ c.pc = "write" /\ c.cmd = "compile"
    /\ \/ /\ \/ Renders(c) /\ prompt' = c.sources /\ UNCHANGED artifact
             \/ artifact' = c.artifact /\ UNCHANGED prompt
          /\ valid' = {}
          /\ \E code \in {CompileCode(c), 2} : Touch(p, Ended(c, code))
       \/ ~Renders(c) /\ Exit(p, 3) /\ UNCHANGED <<artifact, prompt, valid>>
    /\ UNCHANGED <<archiveVars, manifest, anchorVars, commands, edits>>

\* The reports of archive append and archive verify give the head.
WriteArchiveReport(p) ==
    LET c == call[p]
        passed == c.cmd = "append" \/ c.expected \in {None, c.head} IN
    /\ c.pc = "write" /\ c.cmd \in {"append", "archive verify"}
    /\ Exit(p, IF passed THEN 0 ELSE 3)
    /\ noted' = noted \cup ({c.head} \ {None})
    /\ UNCHANGED <<archiveVars, fileVars, retained, valid, commands, edits>>

WriteVerification(p) ==
    LET c == call[p] IN
    /\ c.pc = "write" /\ c.cmd = "verify"
    /\ Exit(p, IF Replays(c.artifact, c.sources) THEN 0 ELSE 3)
    /\ UNCHANGED <<archiveVars, fileVars, anchorVars, valid, commands, edits>>

\* slip: the output may be any file.
OutputUnchecked(cmd) == Paths
\* _trust_output_aliases_input: what a trust command does not write to.
\* The paths are checked at the start; they are chosen below where they are used.
OutputAllowed(cmd) == Paths \ ({"artifact"} \cup IF cmd = "trust verify" THEN {"manifest"} ELSE {})

\* What a trust command writes replaces the file of that name.
Replaces(output, written) ==
    /\ artifact' = IF output = "artifact" THEN None ELSE artifact
    /\ manifest' = IF output = "manifest" THEN written ELSE manifest
    /\ UNCHANGED prompt

Bound(c) == [artifact |-> c.artifact, sources |-> c.sources, head |-> c.head]

\* The files hold what a command has read.
Current(c) == c.artifact = artifact /\ c.head \in {None, Head}

\* create_trust_manifest, for an artifact that replays.
CreateManifest(p) ==
    LET c == call[p]
        created == [binding |-> Bound(c), self |-> TRUE] IN
    /\ c.pc = "write" /\ c.cmd = "trust create"
    /\ \/ /\ ~Replays(c.artifact, c.sources) /\ Exit(p, 2)
          /\ UNCHANGED <<fileVars, retained, valid>>
       \/ /\ Replays(c.artifact, c.sources)
          /\ \E output \in OutputAllowed(c.cmd), code \in {0, 2} :
               /\ Replaces(output, created)
               /\ retained' = IF code = 0 THEN retained \cup {Bound(c)} ELSE retained
               /\ IF output # "manifest" THEN Exit(p, code) /\ UNCHANGED valid
                  ELSE /\ Touch(p, Ended(c, code))
                       /\ valid' = IF code = 0 /\ Current(c) THEN {Bound(c)} ELSE {}
    /\ UNCHANGED <<archiveVars, noted, commands, edits>>

\* slip: the artifact need only replay.
PassesAnyArtifact(c) ==
    /\ c.manifest.self /\ c.manifest.binding = c.anchor
    /\ Replays(c.artifact, c.sources)
    /\ c.manifest.binding.sources = c.sources
    /\ c.manifest.binding.head = c.head

\* The checks of verify_trust_manifest: the manifest's own hash and the digest
\* retained outside, the replay, and the three bindings.
Passes(c) ==
    /\ c.manifest.self /\ c.manifest.binding = c.anchor
    /\ Replays(c.artifact, c.sources)
    /\ c.manifest.binding.artifact = c.artifact
    /\ c.manifest.binding.sources = c.sources
    /\ c.manifest.binding.head = c.head

VerifyManifest(p) ==
    LET c == call[p] IN
    /\ c.pc = "write" /\ c.cmd = "trust verify"
    /\ Exit(p, IF Passes(c) THEN 0 ELSE 3)
    /\ \E output \in OutputAllowed(c.cmd) : Replaces(output, None)
    /\ UNCHANGED <<archiveVars, anchorVars, valid, commands, edits>>
-----------------------------------------------------------------------------
(* What else happens to the files.                                         *)

Edit ==
    /\ edits < MaxEdits
    /\ edits' = edits + 1
    /\ valid' = {}
    /\ call' = [q \in Process |-> [call[q] EXCEPT !.stable = FALSE]]
    /\ UNCHANGED <<prompt, anchorVars, commands>>

\* The artifact is edited, and its digest computed again or not.
EditArtifact ==
    /\ artifact # None
    /\ \E intact, made \in BOOLEAN :
         /\ ~(intact /\ made)
         /\ artifact' = [artifact EXCEPT !.intact = intact, !.made = made]
    /\ Edit
    /\ UNCHANGED <<archiveVars, manifest>>

\* The manifest is made to bind what the files hold now, its own hash too or not.
EditManifest ==
    /\ manifest # None /\ artifact # None
    /\ \E self \in BOOLEAN :
         manifest' = [binding |-> [artifact |-> artifact, sources |-> events, head |-> Head],
                      self |-> self]
    /\ Edit
    /\ UNCHANGED <<archiveVars, artifact>>

\* An older copy of the archive is restored.
Restore ==
    /\ \E older \in {{}} \cup Inputs : older # events /\ older \subseteq events /\ events' = older
    /\ UNCHANGED <<chained, artifact, manifest>>
    /\ Edit
-----------------------------------------------------------------------------
Init ==
    /\ \/ events = {} /\ chained = TRUE
       \/ events \in Inputs /\ chained = FALSE
    /\ \/ artifact = None
       \/ \E of \in Inputs, policy \in Slack :
            artifact = [of |-> of, policy |-> policy, intact |-> TRUE, made |-> TRUE]
    /\ manifest = None /\ prompt = None
    /\ retained = {} /\ noted = {} /\ valid = {}
    /\ call = [p \in Process |-> Blank]
    /\ commands = 0 /\ edits = 0

Step(p) ==
    \/ StartCompile(p) \/ StartArchive(p) \/ StartVerify(p) \/ StartTrust(p)
    \/ Append(p) \/ VerifyArchive(p) \/ Load(p) \/ ReadArtifact(p) \/ ReadManifest(p)
    \/ Fails(p) \/ Compile(p) \/ WriteCompiled(p) \/ WriteArchiveReport(p)
    \/ WriteVerification(p) \/ CreateManifest(p) \/ VerifyManifest(p)

Next == (\E p \in Process : Step(p)) \/ EditArtifact \/ EditManifest \/ Restore

Spec == Init /\ [][Next]_vars
-----------------------------------------------------------------------------
(* Properties.                                                             *)

\* Whatever happens to the files while it is created, a manifest whose digest
\* was retained binds an artifact that replays to its sources, and these are
\* the sources of the chain head it names.
ManifestBindsOneState ==
    \A b \in retained :
        Replays(b.artifact, b.sources) /\ (b.head # None => b.head = b.sources)

\* trust verify accepts nothing but what trust create bound under the digest.
AcceptedWasBound ==
    \A p \in Process :
        LET c == call[p] IN
        (c.pc = "exited" /\ c.cmd = "trust verify" /\ c.exit = 0) =>
            Bound(c) = c.anchor /\ c.anchor \in retained

\* And it does accept that, as long as nobody has touched the files: the trust
\* commands themselves do not.
UntouchedIsAccepted ==
    \A p \in Process :
        LET c == call[p] IN
        (c.pc = "exited" /\ c.stable) => c.exit = 0

\* What a command appends is in what it compiles, and in the head it reports,
\* whoever else appends meanwhile.
ReportsCoverTheInput ==
    \A p \in Process :
        LET c == call[p] IN
        (edits = 0 /\ c.pc = "exited" /\ c.exit = 0) =>
            /\ c.cmd = "compile" => c.input \subseteq c.sources
            /\ c.cmd = "append" => c.input \subseteq c.sources
=============================================================================

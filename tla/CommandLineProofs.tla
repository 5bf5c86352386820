-------------------------- MODULE CommandLineProofs --------------------------
(***************************************************************************)
(* What CommandLine's commands report is proved for any number of          *)
(* commands, records, source files and edits.                              *)
(***************************************************************************)
EXTENDS CommandLine, TLAPS

(* What holds of a command between its steps.                              *)

\* Each command has its own steps.
Placed(c) ==
    /\ c.pc = "append" => c.cmd \in {"compile", "append"}
    /\ c.pc = "manifest" => c.cmd = "trust verify"
    /\ c.pc \in {"artifact", "verify"} => c.cmd # "compile"
    /\ c.pc \in {"artifact", "load"} => c.cmd # "append"
    /\ c.pc = "compile" => c.cmd = "compile"

\* A trust command that has a chain head has that head's sources.
HeadFits(c) == (c.cmd \in Trusting /\ c.head # None) => c.head = c.sources

\* And the artifact it has read.
HasArtifact(c) ==
    (c.cmd \in Trusting /\ c.pc \in {"verify", "load", "write"}) => c.artifact \in Artifact

\* A digest that is expected was retained.
Anchored(c, kept) == c.cmd = "trust verify" => c.anchor \in kept

\* What a compilation writes is made of the sources it has.
Made(c) ==
    (c.cmd = "compile" /\ c.pc = "write") =>
        /\ c.artifact \in Artifact
        /\ c.artifact.of = c.sources /\ c.artifact.intact = TRUE /\ c.artifact.made = TRUE

\* What remains of a command that has succeeded.
EndedWell(c) ==
    c.pc = "exited" =>
        /\ c.cmd = "trust verify" => Bound(c) = c.anchor
        /\ (c.cmd = "compile" /\ c.artifact.policy \notin ActiveOnly) =>
               Replays(c.artifact, c.sources)

\* What a command appends it has, or will find in the archive.
Covered(c, seen) ==
    /\ ((c.cmd = "compile" /\ c.pc = "load") \/ (c.cmd = "append" /\ c.pc = "verify")) =>
           c.input \subseteq seen
    /\ (c.cmd = "compile" /\ c.pc \in {"compile", "write", "exited"}) =>
           c.input \subseteq c.sources
    /\ (c.cmd = "append" /\ c.pc \in {"write", "exited"}) => c.input \subseteq c.sources

SafeCall(c, kept) ==
    /\ Placed(c) /\ HeadFits(c) /\ HasArtifact(c)
    /\ Anchored(c, kept) /\ Made(c) /\ EndedWell(c)

SafeInv ==
    /\ ManifestBindsOneState
    /\ prompt \notin Unverifiable
    /\ \A p \in Process : SafeCall(call[p], retained)
    /\ edits = 0 => \A p \in Process : Covered(call[p], events)
-----------------------------------------------------------------------------
(* A command that ends, and a command whose files were touched.            *)

Shaken(c) == [c EXCEPT !.stable = FALSE]

LEMMA BlankType == Blank \in Call
BY DEF Blank, Call, Commands, Heads

\* What a step of a command leaves of its options and of what it has read.
Keeps(c, d) ==
    /\ d.cmd = c.cmd /\ d.input = c.input /\ d.anchor = c.anchor
    /\ d.sources = c.sources /\ d.head = c.head /\ d.artifact = c.artifact

LEMMA Succeeds ==
    ASSUME NEW c \in Call, c.cmd \in {"compile", "append", "trust verify"}
    PROVE  Ended(c, 0) \in Call /\ Keeps(c, Ended(c, 0)) /\ Ended(c, 0).pc = "exited"
BY DEF Ended, Call, Heads, Keeps

\* The end of a command that did not succeed.
Idle(d) == d.pc = "exited" /\ d.cmd = "none"

LEMMA Reset ==
    ASSUME NEW c \in Call, NEW code \in {0, 2, 3, 4},
           Ended(c, code) = [Blank EXCEPT !.stable = c.stable, !.exit = code]
    PROVE  Ended(c, code) \in Call /\ Idle(Ended(c, code))
<1>1. [Blank EXCEPT !.stable = c.stable, !.exit = code] \in Call
  BY BlankType DEF Call
<1>2. /\ [Blank EXCEPT !.stable = c.stable, !.exit = code].pc = "exited"
      /\ [Blank EXCEPT !.stable = c.stable, !.exit = code].cmd = "none"
  BY DEF Blank
<1> QED BY <1>1, <1>2 DEF Idle

LEMMA Refused ==
    ASSUME NEW c \in Call, NEW code \in {2, 3, 4}
    PROVE  Ended(c, code) \in Call /\ Idle(Ended(c, code))
<1>1. Ended(c, code) = [Blank EXCEPT !.stable = c.stable, !.exit = code]
  <2>1. code # 0
    OBVIOUS
  <2> QED BY <2>1 DEF Ended
<1> QED BY <1>1, Reset

LEMMA Forgets ==
    ASSUME NEW c \in Call, c.cmd \notin {"compile", "append", "trust verify"}
    PROVE  Ended(c, 0) \in Call /\ Idle(Ended(c, 0))
<1>1. Ended(c, 0) = [Blank EXCEPT !.stable = c.stable, !.exit = 0]
  BY DEF Ended
<1> QED BY <1>1, Reset

LEMMA IdleSafe ==
    ASSUME NEW d, Idle(d), NEW kept, NEW seen
    PROVE  SafeCall(d, kept) /\ Covered(d, seen)
BY DEF Idle, SafeCall, Placed, HeadFits, HasArtifact, Anchored, Made, EndedWell, Covered, Trusting

LEMMA ShakenType ==
    ASSUME NEW c \in Call
    PROVE  Shaken(c) \in Call /\ Keeps(c, Shaken(c)) /\ Shaken(c).pc = c.pc
BY DEF Shaken, Call, Keeps

\* Command p is now d; the others are as they were, or shaken.
Moves(p, d) ==
    /\ call' \in [Process -> Call] /\ call'[p] = d
    /\ \A q \in Process : q # p => call'[q] \in {call[q], Shaken(call[q])}

LEMMA GoingMoves ==
    ASSUME TypeOK, NEW p \in Process, NEW d \in Call,
           call' = [call EXCEPT ![p] = d] \/ Touch(p, d)
    PROVE  Moves(p, d)
BY ShakenType DEF TypeOK, Moves, Touch, Shaken

Stages == {"append", "manifest", "artifact", "verify", "load", "compile", "write"}

LEMMA GoesType ==
    ASSUME NEW c \in Call,
           NEW step, step \in Stages
    PROVE  /\ [c EXCEPT !.pc = step] \in Call
           /\ Keeps(c, [c EXCEPT !.pc = step]) /\ [c EXCEPT !.pc = step].pc = step
BY DEF Call, Keeps, Stages

LEMMA KeptSafe ==
    ASSUME NEW c, NEW d, NEW kept, SafeCall(c, kept), Keeps(c, d), d.pc = c.pc
    PROVE  SafeCall(d, kept) /\ \A seen : Covered(c, seen) => Covered(d, seen)
BY DEF SafeCall, Placed, Keeps, HeadFits, HasArtifact, Anchored, Made, EndedWell, Bound, Covered

\* A step of one command, with what it makes of the files, keeps the invariant.
LEMMA StepSafe ==
    ASSUME TypeOK, SafeInv, NEW p \in Process, NEW d \in Call, Moves(p, d),
           retained \subseteq retained', events \subseteq events', edits' = edits,
           ManifestBindsOneState', prompt' \notin Unverifiable,
           SafeCall(d, retained'), edits = 0 => Covered(d, events')
    PROVE  SafeInv'
<1>1. ASSUME NEW q \in Process
      PROVE  SafeCall(call'[q], retained') /\ (edits = 0 => Covered(call'[q], events'))
  <2>1. CASE q = p
    BY <2>1 DEF Moves
  <2>2. CASE q # p
    <3>1. call'[q] \in {call[q], Shaken(call[q])} /\ call[q] \in Call
      BY <2>2 DEF Moves, TypeOK
    <3>2. SafeCall(call[q], retained) /\ (edits = 0 => Covered(call[q], events))
      BY DEF SafeInv
    <3>3. SafeCall(call'[q], retained) /\ (edits = 0 => Covered(call'[q], events))
      BY <3>1, <3>2, ShakenType, KeptSafe
    <3>4. SafeCall(call'[q], retained')
      BY <3>3 DEF SafeCall, Anchored
    <3>5. Covered(call'[q], events) => Covered(call'[q], events')
      BY DEF Covered
    <3> QED BY <3>3, <3>4, <3>5
  <2> QED BY <2>1, <2>2
<1> QED BY <1>1 DEF SafeInv

-----------------------------------------------------------------------------
(* The steps of the commands.                                              *)

Rest == <<events, chained, artifact, manifest, prompt, retained, noted, commands, edits>>

\* A command goes on, and has touched nothing.
LEMMA QuietStep ==
    ASSUME TypeOK, SafeInv, NEW p \in Process, NEW d \in Call,
           call' = [call EXCEPT ![p] = d], UNCHANGED <<Rest, valid>>,
           SafeCall(d, retained), edits = 0 => Covered(d, events)
    PROVE  TypeOK' /\ SafeInv'
<1>1. Moves(p, d)
  BY GoingMoves
<1>2. TypeOK'
  BY <1>1 DEF TypeOK, Rest, Moves
<1>3. ManifestBindsOneState' /\ prompt' \notin Unverifiable
  BY DEF SafeInv, ManifestBindsOneState, Rest
<1> QED BY <1>1, <1>2, <1>3, StepSafe DEF Rest

\* A command is over, and has touched nothing.
LEMMA IdleStep ==
    ASSUME TypeOK, SafeInv, NEW p \in Process, NEW d \in Call, Idle(d),
           call' = [call EXCEPT ![p] = d], UNCHANGED <<Rest, valid>>
    PROVE  TypeOK' /\ SafeInv'
BY IdleSafe, QuietStep

LEMMA RefusedStep ==
    ASSUME TypeOK, SafeInv, NEW p \in Process, NEW code \in {2, 3, 4}, Exit(p, code),
           UNCHANGED <<Rest, valid>>
    PROVE  TypeOK' /\ SafeInv'
<1> DEFINE d == Ended(call[p], code)
<1>1. d \in Call /\ Idle(d)
  BY Refused DEF TypeOK
<1>2. call' = [call EXCEPT ![p] = d]
  BY DEF Exit
<1> HIDE DEF d
<1> QED BY <1>1, <1>2, IdleStep

LEMMA StartsSafe ==
    ASSUME TypeOK, SafeInv, NEW p \in Process, NEW c \in Call, Starts(p, c),
           Placed(c), c.pc \notin {"write", "exited"}, c.head = None, Anchored(c, retained),
           c.pc = "compile" => c.input = c.sources,
           c.pc # "load", c.pc = "verify" => c.cmd \notin Trusting \cup {"append"}
    PROVE  TypeOK' /\ SafeInv'
<1>1. SafeCall(c, retained) /\ Covered(c, events)
  BY DEF SafeCall, Placed, HeadFits, HasArtifact, Made, EndedWell, Covered
<1>2. Moves(p, c)
  BY GoingMoves DEF Starts
<1>3. TypeOK'
  BY <1>2, CommandLineAssumption DEF Starts, TypeOK, Moves, archiveVars, fileVars, anchorVars
<1>4. ManifestBindsOneState' /\ prompt' \notin Unverifiable
  BY DEF SafeInv, ManifestBindsOneState, Starts, anchorVars, fileVars
<1> QED BY <1>1, <1>2, <1>3, <1>4, StepSafe DEF Starts, archiveVars, anchorVars

LEMMA HeadsTyped ==
    ASSUME TypeOK
    PROVE  Head \in Heads /\ Expectations \subseteq Heads
BY DEF TypeOK, Head, Heads, Expectations

LEMMA StartCompileSafe ==
    ASSUME TypeOK, SafeInv, NEW p \in Process, StartCompile(p)
    PROVE  TypeOK' /\ SafeInv'
<1>1. ASSUME NEW input \in Inputs,
             Starts(p, [Blank EXCEPT !.cmd = "compile", !.pc = "compile", !.input = input,
                          !.sources = input])
      PROVE  TypeOK' /\ SafeInv'
  <2> DEFINE c == [Blank EXCEPT !.cmd = "compile", !.pc = "compile", !.input = input,
                     !.sources = input]
  <2>1. c \in Call
    BY BlankType, CommandLineAssumption DEF Call, Commands
  <2>2. /\ c.cmd = "compile" /\ c.pc = "compile" /\ c.input = input /\ c.sources = input
        /\ c.head = None
    BY DEF Blank
  <2>3. Starts(p, c)
    BY <1>1
  <2> HIDE DEF c
  <2> QED BY <2>1, <2>2, <2>3, StartsSafe DEF Anchored, Placed, Trusting
<1>2. ASSUME NEW input \in Inputs, NEW expected \in Expectations,
             Starts(p, [Blank EXCEPT !.cmd = "compile", !.pc = "append", !.input = input,
                          !.archived = TRUE, !.expected = expected])
      PROVE  TypeOK' /\ SafeInv'
  <2> DEFINE c == [Blank EXCEPT !.cmd = "compile", !.pc = "append", !.input = input,
                     !.archived = TRUE, !.expected = expected]
  <2>1. c \in Call
    BY BlankType, CommandLineAssumption, HeadsTyped DEF Call, Commands
  <2>2. c.cmd = "compile" /\ c.pc = "append" /\ c.head = None
    BY DEF Blank
  <2>3. Starts(p, c)
    BY <1>2
  <2> HIDE DEF c
  <2> QED BY <2>1, <2>2, <2>3, StartsSafe DEF Anchored, Placed, Trusting
<1> QED BY <1>1, <1>2 DEF StartCompile

LEMMA StartArchiveSafe ==
    ASSUME TypeOK, SafeInv, NEW p \in Process, StartArchive(p)
    PROVE  TypeOK' /\ SafeInv'
<1>1. ASSUME NEW expected \in Expectations,
             Starts(p, [Blank EXCEPT !.cmd = "archive verify", !.pc = "verify",
                          !.expected = expected])
      PROVE  TypeOK' /\ SafeInv'
  <2> DEFINE c == [Blank EXCEPT !.cmd = "archive verify", !.pc = "verify",
                     !.expected = expected]
  <2>1. c \in Call
    BY BlankType, HeadsTyped DEF Call, Commands
  <2>2. c.cmd = "archive verify" /\ c.pc = "verify" /\ c.head = None
    BY DEF Blank
  <2>3. Starts(p, c)
    BY <1>1
  <2> HIDE DEF c
  <2> QED BY <2>1, <2>2, <2>3, StartsSafe DEF Anchored, Placed, Trusting
<1>2. ASSUME NEW expected \in Expectations, NEW input \in Inputs,
             Starts(p, [Blank EXCEPT !.cmd = "append", !.pc = "append", !.input = input,
                          !.expected = expected])
      PROVE  TypeOK' /\ SafeInv'
  <2> DEFINE c == [Blank EXCEPT !.cmd = "append", !.pc = "append", !.input = input,
                     !.expected = expected]
  <2>1. c \in Call
    BY BlankType, CommandLineAssumption, HeadsTyped DEF Call, Commands
  <2>2. c.cmd = "append" /\ c.pc = "append" /\ c.head = None
    BY DEF Blank
  <2>3. Starts(p, c)
    BY <1>2
  <2> HIDE DEF c
  <2> QED BY <2>1, <2>2, <2>3, StartsSafe DEF Anchored, Placed, Trusting
<1> QED BY <1>1, <1>2 DEF StartArchive

LEMMA StartVerifySafe ==
    ASSUME TypeOK, SafeInv, NEW p \in Process, StartVerify(p)
    PROVE  TypeOK' /\ SafeInv'
<1>1. ASSUME NEW input \in Inputs,
             Starts(p, [Blank EXCEPT !.cmd = "verify", !.pc = "artifact", !.sources = input])
      PROVE  TypeOK' /\ SafeInv'
  <2> DEFINE c == [Blank EXCEPT !.cmd = "verify", !.pc = "artifact", !.sources = input]
  <2>1. c \in Call
    BY BlankType, CommandLineAssumption DEF Call, Commands
  <2>2. c.cmd = "verify" /\ c.pc = "artifact" /\ c.head = None
    BY DEF Blank
  <2>3. Starts(p, c)
    BY <1>1
  <2> HIDE DEF c
  <2> QED BY <2>1, <2>2, <2>3, StartsSafe DEF Anchored, Placed, Trusting
<1>2. ASSUME NEW expected \in Expectations,
             Starts(p, [Blank EXCEPT !.cmd = "verify", !.pc = "artifact", !.archived = TRUE,
                          !.expected = expected])
      PROVE  TypeOK' /\ SafeInv'
  <2> DEFINE c == [Blank EXCEPT !.cmd = "verify", !.pc = "artifact", !.archived = TRUE,
                     !.expected = expected]
  <2>1. c \in Call
    BY BlankType, HeadsTyped DEF Call, Commands
  <2>2. c.cmd = "verify" /\ c.pc = "artifact" /\ c.head = None
    BY DEF Blank
  <2>3. Starts(p, c)
    BY <1>2
  <2> HIDE DEF c
  <2> QED BY <2>1, <2>2, <2>3, StartsSafe DEF Anchored, Placed, Trusting
<1> QED BY <1>1, <1>2 DEF StartVerify

LEMMA TrustCallType ==
    ASSUME NEW cmd \in Trusting, NEW archived \in BOOLEAN, NEW expected \in Heads,
           NEW input \in SUBSET Record, NEW anchor \in {None} \cup Binding
    PROVE  TrustCall(cmd, archived, expected, input, anchor) \in Call
<1> DEFINE pc == IF cmd = "trust verify" THEN "manifest" ELSE "artifact"
           sources == IF archived THEN {} ELSE input
           stable == Untouched(archived, expected, input, anchor)
<1>1. cmd \in Commands \cup {"none"}
  BY DEF Commands
<1>2. pc \in {"manifest", "artifact"} /\ sources \in SUBSET Record
  OBVIOUS
<1>3. stable \in BOOLEAN
  BY DEF Untouched
<1>4. TrustCall(cmd, archived, expected, input, anchor) =
        [Blank EXCEPT !.cmd = cmd, !.archived = archived, !.expected = expected, !.pc = pc,
           !.sources = sources, !.anchor = anchor, !.stable = stable]
  BY DEF TrustCall
<1> HIDE DEF pc, sources, stable
<1> DEFINE options == [Blank EXCEPT !.cmd = cmd, !.archived = archived, !.expected = expected]
<1>5. options \in Call
  BY <1>1, BlankType DEF Call
<1>6. TrustCall(cmd, archived, expected, input, anchor) =
        [options EXCEPT !.pc = pc, !.sources = sources, !.anchor = anchor, !.stable = stable]
  BY <1>4
<1> HIDE DEF options
<1> QED BY <1>2, <1>3, <1>5, <1>6 DEF Call

LEMMA StartTrustSafe ==
    ASSUME TypeOK, SafeInv, NEW p \in Process, StartTrust(p)
    PROVE  TypeOK' /\ SafeInv'
<1>1. PICK cmd \in Trusting, archived \in BOOLEAN, input \in Inputs, expected \in Expectations :
      \E anchor \in IF cmd = "trust verify" THEN retained ELSE {None} :
        Starts(p, TrustCall(cmd, archived, expected, input, anchor))
  BY DEF StartTrust
<1>2. PICK anchor \in IF cmd = "trust verify" THEN retained ELSE {None} :
        Starts(p, TrustCall(cmd, archived, expected, input, anchor))
  BY <1>1
<1> DEFINE c == TrustCall(cmd, archived, expected, input, anchor)
<1>3. anchor \in {None} \cup Binding
  BY DEF TypeOK
<1>4. expected \in Heads
  BY HeadsTyped
<1>5. input \in SUBSET Record
  BY CommandLineAssumption
<1>6. c \in Call
  BY <1>3, <1>4, <1>5, TrustCallType, Zenon
<1>7. c.cmd = cmd /\ c.pc = (IF cmd = "trust verify" THEN "manifest" ELSE "artifact")
      /\ c.head = None /\ c.anchor = anchor
  BY DEF TrustCall, Blank
<1>8. Starts(p, c)
  BY <1>2
<1>9. cmd = "trust verify" => anchor \in retained
  OBVIOUS
<1> HIDE DEF c
<1>10. Placed(c) /\ Anchored(c, retained)
  BY <1>7, <1>9 DEF Placed, Anchored, Trusting
<1> QED BY <1>6, <1>7, <1>8, <1>10, StartsSafe

LEMMA OnwardSafe ==
    ASSUME NEW c, NEW d, NEW kept, SafeCall(c, kept), Keeps(c, d), Placed(d),
           d.pc \notin {"write", "exited"},
           d.cmd \in Trusting => c.pc \in {"verify", "load"} \/ d.pc \notin {"verify", "load"}
    PROVE  SafeCall(d, kept)
BY DEF SafeCall, Keeps, HeadFits, HasArtifact, Anchored, Made, EndedWell

LEMMA CallSafe ==
    ASSUME TypeOK, SafeInv, NEW p \in Process
    PROVE  call[p] \in Call /\ SafeCall(call[p], retained) /\ (edits = 0 => Covered(call[p], events))
BY DEF TypeOK, SafeInv

LEMMA AppendSafe ==
    ASSUME TypeOK, SafeInv, NEW p \in Process, Append(p)
    PROVE  TypeOK' /\ SafeInv'
<1> DEFINE c == call[p]
           next == IF c.cmd = "compile" THEN "load" ELSE "verify"
           d == [c EXCEPT !.pc = next]
<1>1. /\ c \in Call /\ SafeCall(c, retained) /\ c.pc = "append"
      /\ c.cmd \in {"compile", "append"}
  BY CallSafe DEF Append, SafeCall, Placed
<1>0. next \in {"load", "verify"} /\ (c.cmd = "compile" <=> next = "load") /\ next \in Stages
  BY DEF Stages
<1>2. d \in Call /\ Keeps(c, d) /\ d.pc = next
  <2> HIDE DEF next
  <2> QED BY <1>1, <1>0, GoesType
<1>3. Placed(d) /\ next \notin {"write", "exited"}
  BY <1>1, <1>2, <1>0 DEF Placed, Keeps
<1>4. SafeCall(d, retained)
  <2>1. d.cmd \notin Trusting
    BY <1>1, <1>2 DEF Keeps, Trusting
  <2> QED BY <1>1, <1>2, <1>3, <2>1, OnwardSafe
<1>5. \A seen : c.input \subseteq seen => Covered(d, seen)
  BY <1>2 DEF Covered, Keeps
<1>6. CASE Exit(p, 2) /\ UNCHANGED <<archiveVars, valid>>
  <2>1. UNCHANGED <<Rest, valid>>
    BY <1>6 DEF Append, Rest, archiveVars, fileVars, anchorVars
  <2> QED BY <1>6, <2>1, RefusedStep
<1>7. CASE c.input \subseteq events /\ Goes(p, next, c) /\ UNCHANGED <<archiveVars, valid>>
  <2>1. UNCHANGED <<Rest, valid>>
    BY <1>7 DEF Append, Rest, archiveVars, fileVars, anchorVars
  <2>2. call' = [call EXCEPT ![p] = d]
    BY <1>7 DEF Goes
  <2> HIDE DEF d
  <2> QED BY <1>2, <1>4, <1>5, <1>7, <2>1, <2>2, QuietStep
<1>8. CASE /\ events' = events \cup c.input /\ chained' = TRUE /\ valid' = {}
           /\ Touch(p, d) \/ Touch(p, Ended(c, 2))
  <2>1. PICK e \in Call : /\ Touch(p, e) /\ SafeCall(e, retained) /\ Covered(e, events')
    <3>1. CASE Touch(p, d)
      BY <1>2, <1>4, <1>5, <1>8, <3>1
    <3>2. CASE Touch(p, Ended(c, 2))
      <4>1. Ended(c, 2) \in Call /\ Idle(Ended(c, 2))
        BY <1>1, Refused
      <4>2. SafeCall(Ended(c, 2), retained) /\ Covered(Ended(c, 2), events')
        BY <4>1, IdleSafe
      <4> QED BY <3>2, <4>1, <4>2
    <3> QED BY <1>8, <3>1, <3>2
  <2>2. Moves(p, e)
    BY <2>1, GoingMoves
  <2>3. UNCHANGED <<fileVars, anchorVars, commands, edits>>
    BY DEF Append
  <2>4. c.input \in SUBSET Record
    BY <1>1 DEF Call
  <2>5. TypeOK'
    BY <1>8, <2>2, <2>3, <2>4 DEF TypeOK, Moves, fileVars, anchorVars
  <2>6. ManifestBindsOneState' /\ prompt' \notin Unverifiable
    BY <2>3 DEF SafeInv, ManifestBindsOneState, anchorVars, fileVars
  <2> QED BY <1>8, <2>1, <2>2, <2>3, <2>5, <2>6, StepSafe DEF anchorVars
<1> QED BY <1>6, <1>7, <1>8 DEF Append

LEMMA VerifyArchiveSafe ==
    ASSUME TypeOK, SafeInv, NEW p \in Process, VerifyArchive(p)
    PROVE  TypeOK' /\ SafeInv'
<1> DEFINE c == call[p]
           read == [c EXCEPT !.sources = events, !.head = Head]
<1>1. /\ c \in Call /\ SafeCall(c, retained) /\ (edits = 0 => Covered(c, events))
      /\ c.pc = "verify" /\ c.cmd # "compile" /\ UNCHANGED <<Rest, valid>>
  BY CallSafe DEF VerifyArchive, SafeCall, Placed, Rest, archiveVars, fileVars, anchorVars
<1>2. /\ read \in Call /\ read.sources = events /\ read.head = Head
      /\ read.cmd = c.cmd /\ read.input = c.input /\ read.anchor = c.anchor
      /\ read.artifact = c.artifact
  BY <1>1, HeadsTyped DEF TypeOK, Call
<1>3. ASSUME NEW step \in {"write", "load"}, Goes(p, step, read),
             step = "load" => c.cmd # "append"
      PROVE  TypeOK' /\ SafeInv'
  <2> DEFINE d == [read EXCEPT !.pc = step]
  <2>1. d \in Call /\ Keeps(read, d) /\ d.pc = step
    <3>1. step \in Stages
      BY DEF Stages
    <3> HIDE DEF read
    <3> QED BY <3>1, <1>2, GoesType
  <2>2. call' = [call EXCEPT ![p] = d]
    BY <1>3 DEF Goes
  <2> HIDE DEF d, read
  <2>3. d.cmd = c.cmd /\ d.input = c.input /\ d.sources = events /\ d.head = Head
        /\ d.anchor = c.anchor /\ d.artifact = c.artifact
    BY <1>2, <2>1 DEF Keeps
  <2>4. SafeCall(d, retained)
    BY <1>1, <1>3, <2>1, <2>3 DEF SafeCall, Placed, HeadFits, HasArtifact, Anchored, Made, EndedWell, Head
  <2>5. edits = 0 => Covered(d, events)
    BY <1>1, <1>3, <2>1, <2>3 DEF Covered
  <2> QED BY <1>1, <2>1, <2>2, <2>4, <2>5, QuietStep
<1>4. CASE c.cmd \notin Trusting
  BY <1>3, <1>4 DEF VerifyArchive
<1>5. CASE c.cmd \in Trusting
  <2>1. CASE Goes(p, "load", read)
    BY <1>3, <1>5, <2>1 DEF Trusting
  <2>2. CASE Exit(p, 2)
    BY <1>1, <2>2, RefusedStep
  <2> QED BY <1>5, <2>1, <2>2 DEF VerifyArchive
<1> QED BY <1>4, <1>5

\* A command reads something, and goes on.
LEMMA ReadingStep ==
    ASSUME TypeOK, SafeInv, NEW p \in Process, NEW read \in Call, NEW step, step \in Stages,
           Goes(p, step, read), UNCHANGED <<Rest, valid>>,
           \A d \in Call : (Keeps(read, d) /\ d.pc = step) =>
               SafeCall(d, retained) /\ (edits = 0 => Covered(d, events))
    PROVE  TypeOK' /\ SafeInv'
<1> DEFINE d == [read EXCEPT !.pc = step]
<1>1. d \in Call /\ Keeps(read, d) /\ d.pc = step
  BY GoesType
<1>2. call' = [call EXCEPT ![p] = d]
  BY DEF Goes
<1> HIDE DEF d
<1> QED BY <1>1, <1>2, QuietStep

LEMMA LoadSafe ==
    ASSUME TypeOK, SafeInv, NEW p \in Process, Load(p)
    PROVE  TypeOK' /\ SafeInv'
<1> DEFINE c == call[p]
           read == [c EXCEPT !.sources = events]
           step == IF c.cmd = "compile" THEN "compile" ELSE "write"
<1>1. /\ c \in Call /\ SafeCall(c, retained) /\ (edits = 0 => Covered(c, events))
      /\ c.pc = "load" /\ c.cmd # "append" /\ UNCHANGED <<Rest, valid>>
  BY CallSafe DEF Load, SafeCall, Placed, Rest, archiveVars, fileVars, anchorVars
<1>2. /\ read \in Call /\ read.sources = events /\ read.head = c.head
      /\ read.cmd = c.cmd /\ read.input = c.input /\ read.anchor = c.anchor
      /\ read.artifact = c.artifact
  BY <1>1 DEF TypeOK, Call
<1>3. CASE Exit(p, 2)
  BY <1>1, <1>3, RefusedStep
<1>4. CASE Goes(p, step, read) /\ (c.cmd \in Trusting => HeadAccepted(c.head))
  <2>1. step \in Stages /\ step = (IF c.cmd = "compile" THEN "compile" ELSE "write")
    BY DEF Stages
  <2> HIDE DEF read, step
  <2>2. ASSUME NEW d \in Call, Keeps(read, d), d.pc = step
        PROVE  SafeCall(d, retained) /\ (edits = 0 => Covered(d, events))
    <3>1. d.cmd = c.cmd /\ d.input = c.input /\ d.sources = events /\ d.head = c.head
          /\ d.anchor = c.anchor /\ d.artifact = c.artifact
      BY <1>2, <2>2 DEF Keeps
    <3>2. Placed(d)
      BY <2>1, <2>2, <3>1 DEF Placed
    <3>3. HeadFits(d) /\ HasArtifact(d)
      BY <1>1, <1>4, <3>1 DEF SafeCall, HeadFits, HasArtifact, HeadAccepted, Head
    <3>4. Anchored(d, retained) /\ Made(d) /\ EndedWell(d)
      BY <1>1, <2>1, <2>2, <3>1 DEF SafeCall, Anchored, Made, EndedWell
    <3>5. edits = 0 => Covered(d, events)
      BY <1>1, <2>1, <2>2, <3>1 DEF Covered
    <3> QED BY <3>2, <3>3, <3>4, <3>5 DEF SafeCall
  <2> QED BY <1>1, <1>2, <1>4, <2>1, <2>2, ReadingStep
<1> QED BY <1>3, <1>4 DEF Load, Trusting

LEMMA ReadArtifactSafe ==
    ASSUME TypeOK, SafeInv, NEW p \in Process, ReadArtifact(p)
    PROVE  TypeOK' /\ SafeInv'
<1> DEFINE c == call[p]
           read == [c EXCEPT !.artifact = artifact]
           step == CASE ~c.archived -> "write" [] c.cmd = "verify" -> "load" [] OTHER -> "verify"
<1>1. /\ c \in Call /\ SafeCall(c, retained) /\ c.pc = "artifact"
      /\ c.cmd \notin {"compile", "append"} /\ UNCHANGED <<Rest, valid>>
  BY CallSafe DEF ReadArtifact, SafeCall, Placed, Rest, archiveVars, fileVars, anchorVars
<1>2. CASE Exit(p, 2)
  BY <1>1, <1>2, RefusedStep
<1>3. CASE artifact # None /\ Goes(p, step, read)
  <2>1. /\ read \in Call /\ read.sources = c.sources /\ read.head = c.head
        /\ read.cmd = c.cmd /\ read.input = c.input /\ read.anchor = c.anchor
        /\ read.artifact = artifact
    BY <1>1 DEF TypeOK, Call
  <2>2. artifact \in Artifact
    BY <1>3 DEF TypeOK
  <2>3. step \in {"write", "load", "verify"}
    OBVIOUS
  <2>4. step \in Stages
    BY <2>3 DEF Stages
  <2> HIDE DEF read, step
  <2>5. ASSUME NEW d \in Call, Keeps(read, d), d.pc = step
        PROVE  SafeCall(d, retained) /\ (edits = 0 => Covered(d, events))
    <3>1. d.cmd = c.cmd /\ d.sources = c.sources /\ d.head = c.head
          /\ d.anchor = c.anchor /\ d.artifact = artifact
      BY <2>1, <2>5 DEF Keeps
    <3>2. Placed(d)
      BY <1>1, <2>3, <2>5, <3>1 DEF Placed
    <3>3. HeadFits(d) /\ HasArtifact(d) /\ Anchored(d, retained)
      BY <1>1, <2>2, <3>1 DEF SafeCall, HeadFits, HasArtifact, Anchored
    <3>4. Made(d) /\ EndedWell(d)
      BY <1>1, <2>3, <2>5, <3>1 DEF Made, EndedWell
    <3>5. Covered(d, events)
      BY <1>1, <3>1 DEF Covered
    <3> QED BY <3>2, <3>3, <3>4, <3>5 DEF SafeCall
  <2> QED BY <1>1, <1>3, <2>1, <2>4, <2>5, ReadingStep
<1> QED BY <1>2, <1>3 DEF ReadArtifact

LEMMA ReadManifestSafe ==
    ASSUME TypeOK, SafeInv, NEW p \in Process, ReadManifest(p)
    PROVE  TypeOK' /\ SafeInv'
<1> DEFINE c == call[p]
           read == [c EXCEPT !.manifest = manifest]
<1>1. /\ c \in Call /\ SafeCall(c, retained) /\ c.pc = "manifest"
      /\ c.cmd = "trust verify" /\ UNCHANGED <<Rest, valid>>
  BY CallSafe DEF ReadManifest, SafeCall, Placed, Rest, archiveVars, fileVars, anchorVars
<1>2. CASE Exit(p, 2)
  BY <1>1, <1>2, RefusedStep
<1>3. CASE Goes(p, "artifact", read)
  <2>1. read \in Call /\ Keeps(c, read)
    BY <1>1 DEF TypeOK, Call, Keeps
  <2>2. "artifact" \in Stages
    BY DEF Stages
  <2> HIDE DEF read
  <2>3. ASSUME NEW d \in Call, Keeps(read, d), d.pc = "artifact"
        PROVE  SafeCall(d, retained) /\ (edits = 0 => Covered(d, events))
    <3>1. Keeps(c, d) /\ d.cmd = "trust verify"
      BY <1>1, <2>1, <2>3 DEF Keeps
    <3>2. Placed(d) /\ Covered(d, events)
      BY <2>3, <3>1 DEF Placed, Covered
    <3>3. SafeCall(d, retained)
      BY <1>1, <2>3, <3>1, <3>2, OnwardSafe
    <3> QED BY <3>2, <3>3
  <2> QED BY <1>1, <1>3, <2>1, <2>2, <2>3, ReadingStep
<1> QED BY <1>2, <1>3 DEF ReadManifest

LEMMA FailsSafe ==
    ASSUME TypeOK, SafeInv, NEW p \in Process, Fails(p)
    PROVE  TypeOK' /\ SafeInv'
<1> DEFINE d == Shaken(Ended(call[p], 2))
<1>1. call[p] \in Call /\ UNCHANGED <<Rest, valid>>
  BY CallSafe DEF Fails, Rest, archiveVars, fileVars, anchorVars
<1>2. Ended(call[p], 2) \in Call /\ Idle(Ended(call[p], 2))
  BY <1>1, Refused
<1>3. d \in Call /\ Idle(d)
  BY <1>2, ShakenType DEF Idle, Keeps
<1>4. call' = [call EXCEPT ![p] = d]
  BY DEF Fails, Faulted, Shaken
<1> HIDE DEF d
<1> QED BY <1>1, <1>3, <1>4, IdleStep

LEMMA CompileSafe ==
    ASSUME TypeOK, SafeInv, NEW p \in Process, Compile(p)
    PROVE  TypeOK' /\ SafeInv'
<1> DEFINE c == call[p]
<1>1. /\ c \in Call /\ SafeCall(c, retained) /\ (edits = 0 => Covered(c, events))
      /\ c.pc = "compile" /\ c.cmd = "compile" /\ UNCHANGED <<Rest, valid>>
  BY CallSafe DEF Compile, SafeCall, Placed, Rest, archiveVars, fileVars, anchorVars
<1>2. PICK policy \in Policy :
        Goes(p, "write", [c EXCEPT !.artifact = [of |-> c.sources, policy |-> policy,
                                                  intact |-> TRUE, made |-> TRUE]])
  BY DEF Compile
<1> DEFINE a == [of |-> c.sources, policy |-> policy, intact |-> TRUE, made |-> TRUE]
           read == [c EXCEPT !.artifact = a]
<1>3. a \in Artifact /\ a.of = c.sources /\ a.intact = TRUE /\ a.made = TRUE
  BY <1>1 DEF Call, Artifact
<1>4. "write" \in Stages
  BY DEF Stages
<1>5. Goes(p, "write", read)
  BY <1>2
<1> HIDE DEF a
<1>6. /\ read \in Call /\ read.sources = c.sources /\ read.input = c.input
      /\ read.cmd = c.cmd /\ read.artifact = a
  BY <1>1, <1>3 DEF Call
<1> HIDE DEF read
<1>7. ASSUME NEW d \in Call, Keeps(read, d), d.pc = "write"
      PROVE  SafeCall(d, retained) /\ (edits = 0 => Covered(d, events))
  <2>1. d.cmd = "compile" /\ d.sources = c.sources /\ d.input = c.input /\ d.artifact = a
    BY <1>1, <1>6, <1>7 DEF Keeps
  <2>2. SafeCall(d, retained)
    BY <1>3, <1>7, <2>1
       DEF SafeCall, Placed, HeadFits, HasArtifact, Anchored, Made, EndedWell, Trusting
  <2>3. edits = 0 => Covered(d, events)
    BY <1>1, <1>7, <2>1 DEF Covered
  <2> QED BY <2>2, <2>3
<1> QED BY <1>1, <1>4, <1>5, <1>6, <1>7, ReadingStep

\* A compilation that has succeeded left what its memory verifies.
LEMMA CompiledSafe ==
    ASSUME TypeOK, SafeInv, NEW p \in Process, NEW code \in {CompileCode(call[p]), 2},
           call[p].pc = "write", call[p].cmd = "compile"
    PROVE  /\ Ended(call[p], code) \in Call
           /\ SafeCall(Ended(call[p], code), retained)
           /\ edits = 0 => Covered(Ended(call[p], code), events)
<1> DEFINE c == call[p]
           d == Ended(c, code)
<1>1. c \in Call /\ SafeCall(c, retained) /\ (edits = 0 => Covered(c, events))
  BY CallSafe
<1>2. CASE code \in {2, 3, 4}
  <2>1. d \in Call /\ Idle(d)
    BY <1>1, <1>2, Refused
  <2>2. SafeCall(d, retained) /\ Covered(d, events)
    <3> HIDE DEF d
    <3> QED BY <2>1, IdleSafe
  <2> QED BY <2>1, <2>2
<1>3. CASE code = 0
  <2>1. d \in Call /\ Keeps(c, d) /\ d.pc = "exited"
    BY <1>1, <1>3, Succeeds
  <2>2. c.sources \notin Unverifiable
    <3>1. CompileCode(c) = 0
      BY <1>3
    <3> QED BY <3>1 DEF CompileCode, Verifies
  <2>3. EndedWell(d)
    <3> HIDE DEF d
    <3> QED BY <1>1, <2>1, <2>2
       DEF SafeCall, Made, EndedWell, Keeps, Replays, Intact, CompiledFrom, Complete,
           ReportsHold, Verifies
  <2>4. SafeCall(d, retained) /\ (edits = 0 => Covered(d, events))
    <3> HIDE DEF d
    <3> QED BY <1>1, <2>1, <2>3
       DEF SafeCall, Placed, HeadFits, HasArtifact, Anchored, Made, Covered, Keeps, Trusting
  <2> QED BY <2>1, <2>4
<1> QED BY <1>2, <1>3 DEF CompileCode

LEMMA WriteCompiledSafe ==
    ASSUME TypeOK, SafeInv, NEW p \in Process, WriteCompiled(p)
    PROVE  TypeOK' /\ SafeInv'
<1> DEFINE c == call[p]
<1>1. /\ c \in Call /\ SafeCall(c, retained) /\ c.pc = "write" /\ c.cmd = "compile"
      /\ UNCHANGED <<archiveVars, manifest, anchorVars, commands, edits>>
  BY CallSafe DEF WriteCompiled
<1>2. CASE Exit(p, 3) /\ UNCHANGED <<artifact, prompt, valid>>
  <2>1. UNCHANGED <<Rest, valid>>
    BY <1>1, <1>2 DEF Rest, archiveVars, anchorVars
  <2> QED BY <1>2, <2>1, RefusedStep
<1>3. CASE /\ \/ Renders(c) /\ prompt' = c.sources /\ UNCHANGED artifact
              \/ artifact' = c.artifact /\ UNCHANGED prompt
           /\ valid' = {}
           /\ \E code \in {CompileCode(c), 2} : Touch(p, Ended(c, code))
  <2>1. PICK code \in {CompileCode(c), 2} : Touch(p, Ended(c, code))
    BY <1>3
  <2>2. /\ Ended(c, code) \in Call /\ SafeCall(Ended(c, code), retained)
        /\ edits = 0 => Covered(Ended(c, code), events)
    BY <1>1, CompiledSafe
  <2>3. Moves(p, Ended(c, code))
    BY <2>1, <2>2, GoingMoves
  <2>4. prompt' \in Heads /\ artifact' \in {None} \cup Artifact
    BY <1>1, <1>3 DEF TypeOK, SafeCall, Made, Heads, Call
  <2>5. TypeOK'
    BY <1>1, <1>3, <2>3, <2>4 DEF TypeOK, Moves, archiveVars, anchorVars
  <2>6. ManifestBindsOneState' /\ prompt' \notin Unverifiable
    BY <1>1, <1>3 DEF SafeInv, ManifestBindsOneState, anchorVars, Renders, Verifies
  <2> QED BY <1>1, <2>2, <2>3, <2>5, <2>6, StepSafe DEF archiveVars, anchorVars
<1> QED BY <1>2, <1>3 DEF WriteCompiled

LEMMA WriteArchiveReportSafe ==
    ASSUME TypeOK, SafeInv, NEW p \in Process, WriteArchiveReport(p)
    PROVE  TypeOK' /\ SafeInv'
<1> DEFINE c == call[p]
<1>1. /\ c \in Call /\ SafeCall(c, retained) /\ (edits = 0 => Covered(c, events))
      /\ c.pc = "write" /\ c.cmd \in {"append", "archive verify"}
      /\ UNCHANGED <<archiveVars, fileVars, retained, valid, commands, edits>>
      /\ noted' = noted \cup ({c.head} \ {None})
  BY CallSafe DEF WriteArchiveReport
<1>2. PICK code \in {0, 3} : call' = [call EXCEPT ![p] = Ended(c, code)]
  BY DEF WriteArchiveReport, Exit
<1> DEFINE d == Ended(c, code)
<1>3. /\ d \in Call /\ SafeCall(d, retained) /\ (edits = 0 => Covered(d, events))
  <2>1. CASE code = 3
    <3>1. d \in Call /\ Idle(d)
      BY <1>1, <2>1, Refused
    <3> HIDE DEF d
    <3> QED BY <3>1, IdleSafe
  <2>2. CASE code = 0 /\ c.cmd = "append"
    <3>1. d \in Call /\ Keeps(c, d) /\ d.pc = "exited"
      BY <1>1, <2>2, Succeeds
    <3> HIDE DEF d
    <3> QED BY <1>1, <2>2, <3>1
            DEF SafeCall, Placed, HeadFits, HasArtifact, Anchored, Made, EndedWell, Covered,
                Keeps, Trusting
  <2>3. CASE code = 0 /\ c.cmd = "archive verify"
    <3>1. d \in Call /\ Idle(d)
      BY <1>1, <2>3, Forgets
    <3> HIDE DEF d
    <3> QED BY <3>1, IdleSafe
  <2> QED BY <1>1, <2>1, <2>2, <2>3
<1>4. call' = [call EXCEPT ![p] = d]
  BY <1>2
<1> HIDE DEF d
<1>5. Moves(p, d)
  BY <1>3, <1>4, GoingMoves
<1>6. noted' \subseteq SUBSET Record
  BY <1>1 DEF TypeOK, Call, Heads
<1>7. TypeOK'
  BY <1>1, <1>5, <1>6 DEF TypeOK, Moves, archiveVars, fileVars
<1>8. ManifestBindsOneState' /\ prompt' \notin Unverifiable
  BY <1>1 DEF SafeInv, ManifestBindsOneState, fileVars
<1> QED BY <1>1, <1>3, <1>5, <1>7, <1>8, StepSafe DEF archiveVars

LEMMA WriteVerificationSafe ==
    ASSUME TypeOK, SafeInv, NEW p \in Process, WriteVerification(p)
    PROVE  TypeOK' /\ SafeInv'
<1>1. call[p] \in Call /\ call[p].cmd = "verify" /\ UNCHANGED <<Rest, valid>>
  BY CallSafe DEF WriteVerification, Rest, archiveVars, fileVars, anchorVars
<1>2. CASE Exit(p, 3)
  BY <1>1, <1>2, RefusedStep
<1>3. CASE Exit(p, 0)
  <2> DEFINE d == Ended(call[p], 0)
  <2>1. d \in Call /\ Idle(d)
    BY <1>1, Forgets
  <2>2. call' = [call EXCEPT ![p] = d]
    BY <1>3 DEF Exit
  <2> HIDE DEF d
  <2> QED BY <1>1, <2>1, <2>2, IdleStep
<1> QED BY <1>2, <1>3 DEF WriteVerification

LEMMA ReplacesType ==
    ASSUME TypeOK, NEW output, NEW written \in {None} \cup Manifest, Replaces(output, written)
    PROVE  /\ artifact' \in {None} \cup Artifact /\ manifest' \in {None} \cup Manifest
           /\ prompt' = prompt
BY DEF TypeOK, Replaces

LEMMA CreateManifestSafe ==
    ASSUME TypeOK, SafeInv, NEW p \in Process, CreateManifest(p)
    PROVE  TypeOK' /\ SafeInv'
<1> DEFINE c == call[p]
           created == [binding |-> Bound(c), self |-> TRUE]
<1>1. /\ c \in Call /\ SafeCall(c, retained) /\ c.pc = "write" /\ c.cmd = "trust create"
      /\ UNCHANGED <<archiveVars, noted, commands, edits>>
  BY CallSafe DEF CreateManifest
<1>2. CASE Exit(p, 2) /\ UNCHANGED <<fileVars, retained, valid>>
  <2>1. UNCHANGED <<Rest, valid>>
    BY <1>1, <1>2 DEF Rest, archiveVars, fileVars
  <2> QED BY <1>2, <2>1, RefusedStep
<1>3. CASE /\ Replays(c.artifact, c.sources)
           /\ \E output \in OutputAllowed(c.cmd), code \in {0, 2} :
                /\ Replaces(output, created)
                /\ retained' = IF code = 0 THEN retained \cup {Bound(c)} ELSE retained
                /\ IF output # "manifest" THEN Exit(p, code) /\ UNCHANGED valid
                   ELSE /\ Touch(p, Ended(c, code))
                        /\ valid' = IF code = 0 /\ Current(c) THEN {Bound(c)} ELSE {}
  <2>1. PICK output \in OutputAllowed(c.cmd), code \in {0, 2} :
                /\ Replaces(output, created)
                /\ retained' = IF code = 0 THEN retained \cup {Bound(c)} ELSE retained
                /\ IF output # "manifest" THEN Exit(p, code) /\ UNCHANGED valid
                   ELSE /\ Touch(p, Ended(c, code))
                        /\ valid' = IF code = 0 /\ Current(c) THEN {Bound(c)} ELSE {}
    BY <1>3
  <2> DEFINE b == Bound(c)
             d == Ended(c, code)
  <2>2. /\ b.artifact = c.artifact /\ b.sources = c.sources /\ b.head = c.head
        /\ b \in Binding
    BY <1>1 DEF Bound, Binding, SafeCall, HasArtifact, Trusting, Call, Heads
  <2>3. created \in Manifest
    BY <2>2 DEF Manifest
  <2>4. c.head # None => c.head = c.sources
    BY <1>1 DEF SafeCall, HeadFits, Trusting
  <2>5. d \in Call /\ Idle(d)
    BY <1>1, Refused, Forgets
  <2>6. call' = [call EXCEPT ![p] = d] \/ Touch(p, d)
    BY <2>1 DEF Exit
  <2>7. /\ artifact' \in {None} \cup Artifact /\ manifest' \in {None} \cup Manifest
        /\ prompt' = prompt
    BY <2>1, <2>3, ReplacesType
  <2> HIDE DEF b, d, created
  <2>8. retained' \in {retained, retained \cup {b}}
    BY <2>1 DEF b
  <2>9. valid' \subseteq retained'
    BY <2>1 DEF TypeOK, b
  <2>10. Moves(p, d)
    BY <2>5, <2>6, GoingMoves
  <2>11. SafeCall(d, retained') /\ Covered(d, events')
    BY <2>5, IdleSafe
  <2>12. TypeOK'
    BY <1>1, <2>2, <2>7, <2>8, <2>9, <2>10 DEF TypeOK, Moves, archiveVars
  <2>13. ManifestBindsOneState' /\ prompt' \notin Unverifiable
    BY <1>3, <2>2, <2>4, <2>7, <2>8 DEF SafeInv, ManifestBindsOneState
  <2> QED BY <1>1, <2>5, <2>8, <2>10, <2>11, <2>12, <2>13, StepSafe DEF archiveVars
<1> QED BY <1>2, <1>3 DEF CreateManifest

LEMMA VerifyManifestSafe ==
    ASSUME TypeOK, SafeInv, NEW p \in Process, VerifyManifest(p)
    PROVE  TypeOK' /\ SafeInv'
<1> DEFINE c == call[p]
<1>1. /\ c \in Call /\ SafeCall(c, retained) /\ c.pc = "write" /\ c.cmd = "trust verify"
      /\ UNCHANGED <<archiveVars, anchorVars, valid, commands, edits>>
  BY CallSafe DEF VerifyManifest
<1>2. PICK code \in {0, 3} : Exit(p, code) /\ (code = 3 \/ Passes(c))
  BY DEF VerifyManifest
<1>3. PICK output \in OutputAllowed(c.cmd) : Replaces(output, None)
  BY DEF VerifyManifest
<1> DEFINE d == Ended(c, code)
<1>4. d \in Call /\ SafeCall(d, retained) /\ Covered(d, events)
  <2>1. CASE code = 3
    <3>1. d \in Call /\ Idle(d)
      BY <1>1, <2>1, Refused
    <3> HIDE DEF d
    <3> QED BY <3>1, IdleSafe
  <2>2. CASE code = 0
    <3>1. d \in Call /\ Keeps(c, d) /\ d.pc = "exited"
      BY <1>1, <2>2, Succeeds
    <3> HIDE DEF d
    <3>2. c.anchor \in retained /\ c.anchor \in Binding
      BY <1>1 DEF SafeCall, Anchored, TypeOK
    <3>3. /\ c.anchor.artifact = c.artifact /\ c.anchor.sources = c.sources
          /\ c.anchor.head = c.head
      BY <1>2, <2>2 DEF Passes
    <3>4. Bound(d) = d.anchor
      BY <3>1, <3>2, <3>3 DEF Bound, Binding, Keeps
    <3> QED BY <1>1, <3>1, <3>2, <3>4
            DEF SafeCall, Placed, HeadFits, HasArtifact, Anchored, Made, EndedWell, Covered,
                Keeps, Trusting
  <2> QED BY <2>1, <2>2
<1>5. call' = [call EXCEPT ![p] = d]
  BY <1>2 DEF Exit
<1> HIDE DEF d
<1>6. Moves(p, d)
  BY <1>4, <1>5, GoingMoves
<1>7. /\ artifact' \in {None} \cup Artifact /\ manifest' \in {None} \cup Manifest
      /\ prompt' = prompt
  BY <1>3, ReplacesType
<1>8. TypeOK'
  BY <1>1, <1>6, <1>7 DEF TypeOK, Moves, archiveVars, anchorVars
<1>9. ManifestBindsOneState' /\ prompt' \notin Unverifiable
  BY <1>1, <1>7 DEF SafeInv, ManifestBindsOneState, anchorVars
<1> QED BY <1>1, <1>4, <1>6, <1>8, <1>9, StepSafe DEF archiveVars, anchorVars

\* After an edit there is nothing left to cover.
LEMMA EditSafe ==
    ASSUME TypeOK, SafeInv, Edit, events' \subseteq Record, UNCHANGED chained,
           artifact' \in {None} \cup Artifact, manifest' \in {None} \cup Manifest
    PROVE  TypeOK' /\ SafeInv'
<1>1. call' = [q \in Process |-> Shaken(call[q])]
  BY DEF Edit, Shaken
<1>2. \A q \in Process : /\ call[q] \in Call /\ SafeCall(call[q], retained)
  BY CallSafe
<1>3. \A q \in Process : Shaken(call[q]) \in Call /\ SafeCall(Shaken(call[q]), retained)
  BY <1>2, ShakenType, KeptSafe
<1>4. TypeOK'
  <2>1. call' \in [Process -> Call]
    BY <1>1, <1>3
  <2>2. edits' \in 0..MaxEdits
    BY CommandLineAssumption DEF Edit, TypeOK
  <2> QED BY <2>1, <2>2 DEF TypeOK, Edit, anchorVars
<1>5. edits' # 0
  BY DEF Edit, TypeOK
<1> QED BY <1>1, <1>3, <1>4, <1>5 DEF SafeInv, ManifestBindsOneState, Edit, anchorVars

LEMMA EditArtifactSafe ==
    ASSUME TypeOK, SafeInv, EditArtifact
    PROVE  TypeOK' /\ SafeInv'
<1>1. artifact' \in Artifact
  BY DEF EditArtifact, TypeOK, Artifact
<1> QED BY <1>1, EditSafe DEF EditArtifact, archiveVars, TypeOK

LEMMA EditManifestSafe ==
    ASSUME TypeOK, SafeInv, EditManifest
    PROVE  TypeOK' /\ SafeInv'
<1>1. PICK self \in BOOLEAN :
        manifest' = [binding |-> [artifact |-> artifact, sources |-> events, head |-> Head],
                     self |-> self]
  BY DEF EditManifest
<1>2. [artifact |-> artifact, sources |-> events, head |-> Head] \in Binding
  BY HeadsTyped DEF EditManifest, TypeOK, Binding, Heads
<1>3. manifest' \in Manifest
  BY <1>1, <1>2 DEF Manifest
<1> QED BY <1>3, EditSafe DEF EditManifest, archiveVars, TypeOK

LEMMA RestoreSafe ==
    ASSUME TypeOK, SafeInv, Restore
    PROVE  TypeOK' /\ SafeInv'
<1>1. events' \subseteq Record
  BY CommandLineAssumption DEF Restore
<1> QED BY <1>1, EditSafe DEF Restore, TypeOK
-----------------------------------------------------------------------------
(* Files that nobody has touched.                                          *)

\* The files are those whose digest was retained.
FilesFit ==
    \A b \in valid : /\ artifact = b.artifact
                     /\ manifest = [binding |-> b, self |-> TRUE]
                     /\ b.head # None => b.head = Head

\* What a verification of untouched files has read is what the digest binds.
Steady(c, fitting) ==
    /\ c.exit = 0
    /\ c.pc # "exited" =>
          /\ c.cmd = "trust verify" /\ c.anchor \in fitting
          /\ c.archived <=> c.anchor.head # None
          /\ c.archived => c.expected \in {None, c.anchor.head}
          /\ ~c.archived => c.sources = c.anchor.sources /\ c.head = None
          /\ c.pc # "manifest" => c.manifest = [binding |-> c.anchor, self |-> TRUE]
          /\ c.pc \in {"verify", "load", "write"} => c.artifact = c.anchor.artifact
          /\ c.pc \in {"verify", "load"} => c.archived
          /\ c.pc \in {"load", "write"} => c.head = c.anchor.head
          /\ c.pc = "write" => c.sources = c.anchor.sources

SteadyInv == FilesFit /\ \A p \in Process : call[p].stable => Steady(call[p], valid)

\* One command goes on with the files as they are.
LEMMA QuietSteady ==
    ASSUME TypeOK, SteadyInv, NEW p \in Process, NEW d, call' = [call EXCEPT ![p] = d],
           UNCHANGED <<events, chained, artifact, manifest, valid>>,
           d.stable => Steady(d, valid)
    PROVE  SteadyInv'
<1>1. FilesFit'
  BY DEF SteadyInv, FilesFit, Head
<1>2. \A q \in Process : call'[q].stable => Steady(call'[q], valid')
  BY DEF SteadyInv, TypeOK
<1> QED BY <1>1, <1>2 DEF SteadyInv

\* One command touches the files, and the digests of before say nothing of them.
LEMMA TouchSteady ==
    ASSUME TypeOK, NEW p \in Process, NEW d, Touch(p, d), ~d.stable, FilesFit'
    PROVE  SteadyInv'
<1>1. \A q \in Process : ~call'[q].stable
  BY DEF Touch, TypeOK, Call
<1> QED BY <1>1 DEF SteadyInv

LEMMA EndedExit ==
    ASSUME NEW c \in Call, NEW code \in {0, 2, 3, 4}
    PROVE  /\ Ended(c, code).pc = "exited" /\ Ended(c, code).stable = c.stable
           /\ Ended(c, code).exit = code \/ (code = 0 /\ Ended(c, code).exit = c.exit)
<1>1. CASE code = 0 /\ c.cmd \in {"compile", "append", "trust verify"}
  BY <1>1 DEF Ended, Call
<1>2. CASE ~(code = 0 /\ c.cmd \in {"compile", "append", "trust verify"})
  BY <1>2 DEF Ended, Blank
<1> QED BY <1>1, <1>2

\* Only verifications are told that the files are untouched, and they succeed.
LEMMA OthersAreNotSteady ==
    ASSUME TypeOK, SteadyInv, NEW p \in Process, call[p].pc # "exited",
           call[p].cmd # "trust verify"
    PROVE  call[p].stable = FALSE
BY DEF SteadyInv, Steady, TypeOK, Call

LEMMA ExitSteady ==
    ASSUME TypeOK, SteadyInv, NEW p \in Process, NEW code \in {0, 2, 3, 4}, Exit(p, code),
           UNCHANGED <<events, chained, artifact, manifest, valid>>,
           call[p].stable => code = 0
    PROVE  SteadyInv'
<1> DEFINE d == Ended(call[p], code)
<1>1. /\ d.pc = "exited" /\ d.stable = call[p].stable
      /\ d.exit = code \/ (code = 0 /\ d.exit = call[p].exit)
  BY EndedExit DEF TypeOK
<1>2. d.stable => Steady(d, valid)
  <2> HIDE DEF d
  <2> QED BY <1>1 DEF Steady, SteadyInv
<1>3. call' = [call EXCEPT ![p] = d]
  BY DEF Exit
<1> HIDE DEF d
<1> QED BY <1>2, <1>3, QuietSteady

Untied == <<events, chained, artifact, manifest, valid>>

LEMMA StartsSteady ==
    ASSUME TypeOK, SteadyInv, NEW p \in Process, NEW c, Starts(p, c),
           c.stable => Steady(c, valid)
    PROVE  SteadyInv'
BY QuietSteady DEF Starts, archiveVars, fileVars

LEMMA StartSteady ==
    ASSUME TypeOK, SteadyInv, NEW p \in Process,
           StartCompile(p) \/ StartArchive(p) \/ StartVerify(p)
    PROVE  SteadyInv'
<1>1. PICK c : Starts(p, c) /\ c.stable = FALSE
  <2>1. CASE StartCompile(p)
    <3>1. \A input, expected :
             /\ [Blank EXCEPT !.cmd = "compile", !.pc = "compile", !.input = input,
                   !.sources = input].stable = FALSE
             /\ [Blank EXCEPT !.cmd = "compile", !.pc = "append", !.input = input,
                   !.archived = TRUE, !.expected = expected].stable = FALSE
      BY DEF Blank
    <3> QED BY <2>1, <3>1 DEF StartCompile
  <2>2. CASE StartArchive(p)
    <3>1. \A input, expected :
             /\ [Blank EXCEPT !.cmd = "archive verify", !.pc = "verify",
                   !.expected = expected].stable = FALSE
             /\ [Blank EXCEPT !.cmd = "append", !.pc = "append", !.input = input,
                   !.expected = expected].stable = FALSE
      BY DEF Blank
    <3> QED BY <2>2, <3>1 DEF StartArchive
  <2>3. CASE StartVerify(p)
    <3>1. \A input, expected :
             /\ [Blank EXCEPT !.cmd = "verify", !.pc = "artifact",
                   !.sources = input].stable = FALSE
             /\ [Blank EXCEPT !.cmd = "verify", !.pc = "artifact", !.archived = TRUE,
                   !.expected = expected].stable = FALSE
      BY DEF Blank
    <3> QED BY <2>3, <3>1 DEF StartVerify
  <2> QED BY <2>1, <2>2, <2>3
<1> QED BY <1>1, StartsSteady

LEMMA StartTrustSteady ==
    ASSUME TypeOK, SteadyInv, NEW p \in Process, StartTrust(p)
    PROVE  SteadyInv'
<1>1. PICK cmd \in Trusting, archived \in BOOLEAN, input \in Inputs, expected \in Expectations :
        \E anchor \in IF cmd = "trust verify" THEN retained ELSE {None} :
           Starts(p, TrustCall(cmd, archived, expected, input, anchor))
  BY DEF StartTrust
<1>2. PICK anchor \in IF cmd = "trust verify" THEN retained ELSE {None} :
        Starts(p, TrustCall(cmd, archived, expected, input, anchor))
  BY <1>1
<1> DEFINE c == TrustCall(cmd, archived, expected, input, anchor)
<1>3. /\ c.cmd = cmd /\ c.archived = archived /\ c.expected = expected
      /\ c.pc = IF cmd = "trust verify" THEN "manifest" ELSE "artifact"
      /\ c.sources = IF archived THEN {} ELSE input
      /\ c.anchor = anchor /\ c.exit = 0 /\ c.head = None
      /\ c.stable = Untouched(archived, expected, input, anchor)
  BY DEF TrustCall, Blank
<1> HIDE DEF c
<1>4. ASSUME Untouched(archived, expected, input, anchor) PROVE Steady(c, valid)
  <2>1. anchor \in valid /\ anchor \in Binding
    BY <1>4 DEF Untouched, TypeOK
  <2>2. cmd = "trust verify"
    BY <1>2, <2>1, CommandLineAssumption
  <2>3. anchor.head # None => anchor.head = Head
    BY <2>1 DEF SteadyInv, FilesFit
  <2> QED BY <1>3, <1>4, <2>1, <2>2, <2>3 DEF Steady, Untouched
<1>5. Starts(p, c)
  BY <1>2 DEF c
<1> QED BY <1>3, <1>4, <1>5, StartsSteady

LEMMA AppendSteady ==
    ASSUME TypeOK, SafeInv, SteadyInv, NEW p \in Process, Append(p)
    PROVE  SteadyInv'
<1> DEFINE c == call[p]
           next == IF c.cmd = "compile" THEN "load" ELSE "verify"
           d == [c EXCEPT !.pc = next]
<1>1. /\ c \in Call /\ c.pc = "append" /\ c.stable = FALSE
      /\ UNCHANGED <<fileVars, anchorVars, commands, edits>>
  BY CallSafe, OthersAreNotSteady DEF Append, SafeCall, Placed
<1>2. d.stable = FALSE /\ Ended(c, 2).stable = FALSE
  BY <1>1, EndedExit DEF Call
<1>3. CASE Exit(p, 2) /\ UNCHANGED <<archiveVars, valid>>
  BY <1>1, <1>3, ExitSteady DEF archiveVars, fileVars
<1>4. CASE Goes(p, next, c) /\ UNCHANGED <<archiveVars, valid>>
  BY <1>1, <1>2, <1>4, QuietSteady DEF Goes, archiveVars, fileVars
<1>5. CASE valid' = {} /\ (Touch(p, d) \/ Touch(p, Ended(c, 2)))
  BY <1>2, <1>5, TouchSteady DEF FilesFit
<1> QED BY <1>3, <1>4, <1>5 DEF Append

LEMMA VerifyArchiveSteady ==
    ASSUME TypeOK, SafeInv, SteadyInv, NEW p \in Process, VerifyArchive(p)
    PROVE  SteadyInv'
<1> DEFINE c == call[p]
           read == [c EXCEPT !.sources = events, !.head = Head]
           d(step) == [read EXCEPT !.pc = step]
<1>1. /\ c \in Call /\ c.pc = "verify"
      /\ UNCHANGED <<events, chained, artifact, manifest, valid>>
  BY CallSafe DEF VerifyArchive, archiveVars, fileVars
<1>2. c.stable => Steady(c, valid)
  BY DEF SteadyInv
<1>3. \A step \in Stages : /\ d(step).stable = c.stable /\ d(step).cmd = c.cmd /\ d(step).pc = step
                           /\ d(step).anchor = c.anchor /\ d(step).archived = c.archived
                           /\ d(step).expected = c.expected /\ d(step).manifest = c.manifest
                           /\ d(step).artifact = c.artifact /\ d(step).exit = c.exit
                           /\ d(step).sources = events /\ d(step).head = Head
  BY <1>1 DEF Call
<1>4. ASSUME c.stable
      PROVE  /\ c.cmd = "trust verify" /\ c.anchor \in valid /\ c.archived
             /\ c.anchor.head # None /\ c.anchor.head = Head /\ HeadAccepted(c.expected)
    BY <1>1, <1>2, <1>4 DEF Steady, SteadyInv, FilesFit, HeadAccepted
<1>5. CASE c.cmd \notin Trusting /\ Goes(p, "write", read)
  <2>1. d("write").stable = FALSE
    BY <1>1, <1>3, <1>4, <1>5 DEF Trusting, Stages, Call
  <2>2. call' = [call EXCEPT ![p] = d("write")]
    BY <1>5 DEF Goes
  <2> HIDE DEF d
  <2> QED BY <1>1, <2>1, <2>2, QuietSteady
<1>6. CASE Goes(p, "load", read)
  <2>1. d("load").stable => Steady(d("load"), valid)
    <3> HIDE DEF d
    <3> QED BY <1>1, <1>2, <1>3, <1>4 DEF Steady, Stages
  <2>2. call' = [call EXCEPT ![p] = d("load")]
    BY <1>6 DEF Goes
  <2> HIDE DEF d
  <2> QED BY <1>1, <2>1, <2>2, QuietSteady
<1>7. CASE ~(Head # None /\ HeadAccepted(c.expected)) /\ Exit(p, 2)
  BY <1>1, <1>4, <1>7, ExitSteady
<1> QED BY <1>5, <1>6, <1>7 DEF VerifyArchive

LEMMA LoadSteady ==
    ASSUME TypeOK, SafeInv, SteadyInv, NEW p \in Process, Load(p)
    PROVE  SteadyInv'
<1> DEFINE c == call[p]
           next == IF c.cmd = "compile" THEN "compile" ELSE "write"
           d == [[c EXCEPT !.sources = events] EXCEPT !.pc = next]
<1>1. /\ c \in Call /\ c.pc = "load"
      /\ UNCHANGED <<events, chained, artifact, manifest, valid>>
  BY CallSafe DEF Load, archiveVars, fileVars
<1>2. c.stable => Steady(c, valid)
  BY DEF SteadyInv
<1>3. /\ d.stable = c.stable /\ d.cmd = c.cmd /\ d.pc = next
      /\ d.anchor = c.anchor /\ d.archived = c.archived
      /\ d.expected = c.expected /\ d.manifest = c.manifest
      /\ d.artifact = c.artifact /\ d.exit = c.exit
      /\ d.sources = events /\ d.head = c.head
  BY <1>1 DEF Call
<1>4. ASSUME c.stable
      PROVE  /\ c.cmd = "trust verify" /\ c.anchor \in valid /\ c.archived
             /\ c.head = Head /\ c.head # None /\ c.head = c.anchor.head
             /\ c.anchor.sources = events
  <2>1. /\ c.cmd = "trust verify" /\ c.anchor \in valid /\ c.archived /\ c.head = c.anchor.head
        /\ c.anchor.head # None
    BY <1>1, <1>2, <1>4 DEF Steady
  <2>2. c.anchor.head = Head /\ c.anchor.head = c.anchor.sources
    BY <2>1 DEF SteadyInv, FilesFit, SafeInv, ManifestBindsOneState, TypeOK
  <2> QED BY <2>1, <2>2 DEF Head
<1>5. CASE Goes(p, next, [c EXCEPT !.sources = events])
  <2>1. d.stable => Steady(d, valid)
    <3> HIDE DEF d
    <3> QED BY <1>1, <1>2, <1>3, <1>4 DEF Steady
  <2>2. call' = [call EXCEPT ![p] = d]
    BY <1>5 DEF Goes
  <2> HIDE DEF d
  <2> QED BY <1>1, <2>1, <2>2, QuietSteady
<1>6. CASE ~c.stable /\ Exit(p, 2)
  BY <1>1, <1>6, ExitSteady
<1>7. c.stable => Goes(p, next, [c EXCEPT !.sources = events])
  BY <1>4 DEF Load, HeadAccepted, Trusting
<1> QED BY <1>5, <1>6, <1>7 DEF Load

LEMMA ReadArtifactSteady ==
    ASSUME TypeOK, SafeInv, SteadyInv, NEW p \in Process, ReadArtifact(p)
    PROVE  SteadyInv'
<1> DEFINE c == call[p]
           next == CASE ~c.archived -> "write" [] c.cmd = "verify" -> "load" [] OTHER -> "verify"
           d == [[c EXCEPT !.artifact = artifact] EXCEPT !.pc = next]
<1>1. /\ c \in Call /\ c.pc = "artifact"
      /\ UNCHANGED <<events, chained, artifact, manifest, valid>>
  BY CallSafe DEF ReadArtifact, archiveVars, fileVars
<1>2. c.stable => Steady(c, valid)
  BY DEF SteadyInv
<1>3. /\ d.stable = c.stable /\ d.cmd = c.cmd /\ d.pc = next
      /\ d.anchor = c.anchor /\ d.archived = c.archived
      /\ d.expected = c.expected /\ d.manifest = c.manifest
      /\ d.artifact = artifact /\ d.exit = c.exit
      /\ d.sources = c.sources /\ d.head = c.head
  BY <1>1 DEF Call
<1>4. ASSUME c.stable
      PROVE  /\ c.cmd = "trust verify" /\ c.anchor \in valid
             /\ artifact = c.anchor.artifact /\ artifact # None
  <2>1. c.cmd = "trust verify" /\ c.anchor \in valid
    BY <1>1, <1>2, <1>4 DEF Steady
  <2>2. artifact = c.anchor.artifact /\ c.anchor.artifact \in Artifact
    BY <2>1 DEF SteadyInv, FilesFit, TypeOK, Binding
  <2> QED BY <2>1, <2>2, CommandLineAssumption
<1>5. CASE Goes(p, next, [c EXCEPT !.artifact = artifact])
  <2>1. ASSUME c.stable
        PROVE  next = IF c.archived THEN "verify" ELSE "write"
    BY <1>4, <2>1
  <2> HIDE DEF next
  <2>2. d.stable => Steady(d, valid)
    <3> HIDE DEF d
    <3> QED BY <1>1, <1>2, <1>3, <1>4, <2>1 DEF Steady
  <2>3. call' = [call EXCEPT ![p] = d]
    BY <1>5 DEF Goes
  <2> HIDE DEF d
  <2> QED BY <1>1, <2>2, <2>3, QuietSteady
<1>6. CASE artifact = None /\ Exit(p, 2)
  BY <1>1, <1>4, <1>6, ExitSteady
<1> QED BY <1>5, <1>6 DEF ReadArtifact

LEMMA ReadManifestSteady ==
    ASSUME TypeOK, SafeInv, SteadyInv, NEW p \in Process, ReadManifest(p)
    PROVE  SteadyInv'
<1> DEFINE c == call[p]
           d == [[c EXCEPT !.manifest = manifest] EXCEPT !.pc = "artifact"]
<1>1. /\ c \in Call /\ c.pc = "manifest"
      /\ UNCHANGED <<events, chained, artifact, manifest, valid>>
  BY CallSafe DEF ReadManifest, archiveVars, fileVars
<1>2. c.stable => Steady(c, valid)
  BY DEF SteadyInv
<1>3. /\ d.stable = c.stable /\ d.cmd = c.cmd /\ d.pc = "artifact"
      /\ d.anchor = c.anchor /\ d.archived = c.archived
      /\ d.expected = c.expected /\ d.manifest = manifest
      /\ d.exit = c.exit /\ d.sources = c.sources /\ d.head = c.head
  BY <1>1 DEF Call
<1>4. ASSUME c.stable
      PROVE  /\ manifest = [binding |-> c.anchor, self |-> TRUE] /\ manifest # None
  <2>1. c.cmd = "trust verify" /\ c.anchor \in valid
    BY <1>1, <1>2, <1>4 DEF Steady
  <2>2. manifest = [binding |-> c.anchor, self |-> TRUE] /\ c.anchor \in Binding
    BY <2>1 DEF SteadyInv, FilesFit, TypeOK
  <2>3. manifest \in Manifest
    BY <2>2 DEF Manifest
  <2> QED BY <2>2, <2>3, CommandLineAssumption
<1>5. CASE Goes(p, "artifact", [c EXCEPT !.manifest = manifest])
  <2>1. d.stable => Steady(d, valid)
    <3> HIDE DEF d
    <3> QED BY <1>1, <1>2, <1>3, <1>4 DEF Steady
  <2>2. call' = [call EXCEPT ![p] = d]
    BY <1>5 DEF Goes
  <2> HIDE DEF d
  <2> QED BY <1>1, <2>1, <2>2, QuietSteady
<1>6. CASE manifest = None /\ Exit(p, 2)
  BY <1>1, <1>4, <1>6, ExitSteady
<1> QED BY <1>5, <1>6 DEF ReadManifest

LEMMA FailsSteady ==
    ASSUME TypeOK, SteadyInv, NEW p \in Process, Fails(p)
    PROVE  SteadyInv'
<1> DEFINE d == [Ended(call[p], 2) EXCEPT !.stable = FALSE]
<1>1. Ended(call[p], 2) \in Call
  BY Refused DEF TypeOK
<1>2. d.stable = FALSE
  BY <1>1 DEF Call
<1>3. call' = [call EXCEPT ![p] = d]
  BY DEF Fails, Faulted
<1> HIDE DEF d
<1> QED BY <1>2, <1>3, QuietSteady DEF Fails, archiveVars, fileVars

LEMMA CompileSteady ==
    ASSUME TypeOK, SafeInv, SteadyInv, NEW p \in Process, Compile(p)
    PROVE  SteadyInv'
<1> DEFINE c == call[p]
<1>1. /\ c \in Call /\ c.stable = FALSE
      /\ UNCHANGED <<events, chained, artifact, manifest, valid>>
  BY CallSafe, OthersAreNotSteady DEF Compile, SafeCall, Placed, archiveVars, fileVars
<1>2. PICK a : call' = [call EXCEPT ![p] = [[c EXCEPT !.artifact = a] EXCEPT !.pc = "write"]]
  BY DEF Compile, Goes
<1>3. [[c EXCEPT !.artifact = a] EXCEPT !.pc = "write"].stable = FALSE
  BY <1>1 DEF Call
<1> QED BY <1>1, <1>2, <1>3, QuietSteady

LEMMA WritingSteady ==
    ASSUME TypeOK, SteadyInv, NEW p \in Process,
           WriteCompiled(p) \/ WriteArchiveReport(p) \/ WriteVerification(p)
    PROVE  SteadyInv'
<1> DEFINE c == call[p]
<1>1. c \in Call /\ c.stable = FALSE
  BY OthersAreNotSteady DEF WriteCompiled, WriteArchiveReport, WriteVerification, TypeOK
<1>2. CASE WriteCompiled(p)
  <2>1. CASE Exit(p, 3) /\ UNCHANGED <<artifact, prompt, valid>>
    BY <1>1, <1>2, <2>1, ExitSteady DEF WriteCompiled, archiveVars
  <2>2. CASE valid' = {} /\ \E code \in {CompileCode(c), 2} : Touch(p, Ended(c, code))
    <3>1. PICK code \in {CompileCode(c), 2} : Touch(p, Ended(c, code))
      BY <2>2
    <3>2. code \in {0, 2, 3, 4}
      BY <3>1 DEF CompileCode
    <3>3. ~Ended(c, code).stable
      BY <1>1, <3>2, EndedExit
    <3> QED BY <2>2, <3>1, <3>3, TouchSteady DEF FilesFit
  <2> QED BY <1>2, <2>1, <2>2 DEF WriteCompiled
<1>3. CASE WriteArchiveReport(p)
  <2>1. PICK code \in {0, 3} : Exit(p, code)
    BY <1>3 DEF WriteArchiveReport
  <2> QED BY <1>1, <1>3, <2>1, ExitSteady DEF WriteArchiveReport, archiveVars, fileVars
<1>4. CASE WriteVerification(p)
  <2>1. PICK code \in {0, 3} : Exit(p, code)
    BY <1>4 DEF WriteVerification
  <2> QED BY <1>1, <1>4, <2>1, ExitSteady DEF WriteVerification, archiveVars, fileVars
<1> QED BY <1>2, <1>3, <1>4

\* A manifest replaces what was retained before, and fits if nothing has changed.
LEMMA CreateManifestSteady ==
    ASSUME TypeOK, SteadyInv, NEW p \in Process, CreateManifest(p)
    PROVE  SteadyInv'
<1> DEFINE c == call[p]
           created == [binding |-> Bound(c), self |-> TRUE]
<1>1. c \in Call /\ c.stable = FALSE /\ c.cmd = "trust create" /\ UNCHANGED archiveVars
  BY OthersAreNotSteady DEF CreateManifest, TypeOK
<1>2. CASE Exit(p, 2) /\ UNCHANGED <<fileVars, retained, valid>>
  BY <1>1, <1>2, ExitSteady DEF archiveVars, fileVars
<1>3. ASSUME NEW output \in OutputAllowed(c.cmd), NEW code \in {0, 2},
             Replaces(output, created), output # "manifest", Exit(p, code), UNCHANGED valid
      PROVE  SteadyInv'
  <2>1. UNCHANGED <<artifact, manifest>>
    BY <1>3 DEF OutputAllowed, Replaces
  <2> QED BY <1>1, <1>3, <2>1, ExitSteady DEF archiveVars
<1>4. ASSUME NEW code \in {0, 2}, Replaces("manifest", created), Touch(p, Ended(c, code)),
             valid' = IF code = 0 /\ Current(c) THEN {Bound(c)} ELSE {}
      PROVE  SteadyInv'
  <2>1. artifact' = artifact /\ manifest' = created /\ Head' = Head
    BY <1>1, <1>4 DEF Replaces, Head, archiveVars
  <2>2. FilesFit'
    <3> SUFFICES ASSUME NEW b \in valid'
                 PROVE  /\ artifact' = b.artifact /\ manifest' = [binding |-> b, self |-> TRUE]
                        /\ b.head # None => b.head = Head'
      BY DEF FilesFit
    <3>1. b = Bound(c) /\ Current(c)
      BY <1>4
    <3> QED BY <2>1, <3>1 DEF Bound, Current
  <2>3. code \in {0, 2, 3, 4}
    OBVIOUS
  <2>4. Ended(c, code).stable = FALSE
    BY <1>1, <2>3, EndedExit
  <2> QED BY <1>4, <2>2, <2>4, TouchSteady
<1>5. CASE \E output \in OutputAllowed(c.cmd), code \in {0, 2} :
                /\ Replaces(output, created)
                /\ IF output # "manifest" THEN Exit(p, code) /\ UNCHANGED valid
                   ELSE /\ Touch(p, Ended(c, code))
                        /\ valid' = IF code = 0 /\ Current(c) THEN {Bound(c)} ELSE {}
  BY <1>3, <1>4, <1>5
<1> QED BY <1>2, <1>5 DEF CreateManifest

\* What has been read of untouched files passes.
LEMMA VerifyManifestSteady ==
    ASSUME TypeOK, SafeInv, SteadyInv, NEW p \in Process, VerifyManifest(p)
    PROVE  SteadyInv'
<1> DEFINE c == call[p]
<1>1. /\ c.pc = "write" /\ c.cmd = "trust verify" /\ UNCHANGED <<events, chained, valid>>
  BY DEF VerifyManifest, archiveVars
<1>2. UNCHANGED <<artifact, manifest>>
  BY <1>1 DEF VerifyManifest, OutputAllowed, Replaces
<1>3. ASSUME c.stable PROVE Passes(c)
  <2>1. /\ c.anchor \in valid /\ c.manifest = [binding |-> c.anchor, self |-> TRUE]
        /\ c.artifact = c.anchor.artifact /\ c.head = c.anchor.head
        /\ c.sources = c.anchor.sources
    BY <1>1, <1>3 DEF SteadyInv, Steady
  <2>2. Replays(c.anchor.artifact, c.anchor.sources)
    BY <2>1 DEF TypeOK, SafeInv, ManifestBindsOneState
  <2> QED BY <2>1, <2>2 DEF Passes
<1>4. PICK code \in {0, 3} : Exit(p, code) /\ (c.stable => code = 0)
  BY <1>3 DEF VerifyManifest
<1> QED BY <1>1, <1>2, <1>4, ExitSteady

LEMMA EditSteady ==
    ASSUME TypeOK, Edit
    PROVE  SteadyInv'
<1>1. \A q \in Process : ~call'[q].stable
  BY DEF Edit, TypeOK, Call
<1>2. FilesFit'
  BY DEF Edit, FilesFit
<1> QED BY <1>1, <1>2 DEF SteadyInv
-----------------------------------------------------------------------------
(* The theorems.                                                           *)

LEMMA InitSafe == Init => TypeOK /\ SafeInv
<1> SUFFICES ASSUME Init PROVE TypeOK /\ SafeInv
  OBVIOUS
<1>1. call \in [Process -> Call] /\ \A p \in Process : call[p] = Blank
  BY BlankType DEF Init
<1>2. events \subseteq Record /\ chained \in BOOLEAN
  BY CommandLineAssumption DEF Init
<1>3. artifact \in {None} \cup Artifact
  <2>1. CASE artifact = None
    BY <2>1
  <2>2. CASE \E of \in Inputs, policy \in Slack :
               artifact = [of |-> of, policy |-> policy, intact |-> TRUE, made |-> TRUE]
    BY <2>2, CommandLineAssumption DEF Artifact
  <2> QED BY <2>1, <2>2 DEF Init
<1>4. TypeOK
  BY <1>1, <1>2, <1>3, CommandLineAssumption DEF Init, TypeOK, Heads
<1>5. \A p \in Process : SafeCall(call[p], retained) /\ Covered(call[p], events)
  <2>1. Idle(Blank)
    BY DEF Idle, Blank
  <2> QED BY <1>1, <2>1, IdleSafe
<1>6. prompt \notin Unverifiable
  BY CommandLineAssumption DEF Init
<1> QED BY <1>4, <1>5, <1>6 DEF Init, SafeInv, ManifestBindsOneState

LEMMA NextSafe == TypeOK /\ SafeInv /\ [Next]_vars => TypeOK' /\ SafeInv'
<1> SUFFICES ASSUME TypeOK, SafeInv, [Next]_vars PROVE TypeOK' /\ SafeInv'
  OBVIOUS
<1>1. ASSUME NEW p \in Process, Step(p)
      PROVE  TypeOK' /\ SafeInv'
  BY <1>1, StartCompileSafe, StartArchiveSafe, StartVerifySafe, StartTrustSafe, AppendSafe,
     VerifyArchiveSafe, LoadSafe, ReadArtifactSafe, ReadManifestSafe, FailsSafe, CompileSafe,
     WriteCompiledSafe, WriteArchiveReportSafe, WriteVerificationSafe, CreateManifestSafe,
     VerifyManifestSafe DEF Step
<1>2. CASE UNCHANGED vars
  BY <1>2 DEF vars, archiveVars, fileVars, anchorVars, TypeOK, SafeInv, ManifestBindsOneState
<1> QED BY <1>1, <1>2, EditArtifactSafe, EditManifestSafe, RestoreSafe DEF Next

\* The inductive invariant: every variable keeps its type, and every command
\* has between its steps what the later ones rely on.
THEOREM AlwaysSafe == Spec => [](TypeOK /\ SafeInv)
BY InitSafe, NextSafe, PTL DEF Spec

\* trust create: a retained digest binds an artifact that replays to its
\* sources, which are those of its chain head, for any number of commands.
THEOREM OneStateBound == Spec => []ManifestBindsOneState
<1>1. SafeInv => ManifestBindsOneState
  BY DEF SafeInv
<1> QED BY <1>1, AlwaysSafe, PTL

\* trust verify passes nothing but what was bound under the retained digest.
THEOREM OnlyTheBoundPasses == Spec => []AcceptedWasBound
<1>1. SafeInv => AcceptedWasBound
  BY DEF SafeInv, SafeCall, Anchored, EndedWell, AcceptedWasBound
<1> QED BY <1>1, AlwaysSafe, PTL

\* compile and archive append: the report covers the input, as long as nobody
\* edits the files.
THEOREM InputCovered == Spec => []ReportsCoverTheInput
<1>1. SafeInv => ReportsCoverTheInput
  BY DEF SafeInv, Covered, ReportsCoverTheInput
<1> QED BY <1>1, AlwaysSafe, PTL

LEMMA InitSteady == Init => SteadyInv
BY DEF Init, SteadyInv, FilesFit, Blank

LEMMA NextSteady == TypeOK /\ SafeInv /\ SteadyInv /\ [Next]_vars => SteadyInv'
<1> SUFFICES ASSUME TypeOK, SafeInv, SteadyInv, [Next]_vars PROVE SteadyInv'
  OBVIOUS
<1>1. ASSUME NEW p \in Process, Step(p)
      PROVE  SteadyInv'
  BY <1>1, StartSteady, StartTrustSteady, AppendSteady, VerifyArchiveSteady, LoadSteady,
     ReadArtifactSteady, ReadManifestSteady, FailsSteady, CompileSteady, WritingSteady,
     CreateManifestSteady, VerifyManifestSteady DEF Step
<1>2. CASE UNCHANGED vars
  BY <1>2 DEF vars, archiveVars, fileVars, anchorVars, SteadyInv, FilesFit, Head
<1> QED BY <1>1, <1>2, EditSteady DEF Next, EditArtifact, EditManifest, Restore

THEOREM AlwaysSteady == Spec => []SteadyInv
<1>1. Init => SteadyInv
  BY InitSteady
<1>2. TypeOK /\ SafeInv /\ SteadyInv /\ [Next]_vars => SteadyInv'
  BY NextSteady
<1> QED BY <1>1, <1>2, AlwaysSafe, PTL DEF Spec

\* trust verify: what was bound is accepted as long as nobody touches the files,
\* whatever other commands read and write elsewhere meanwhile.
THEOREM TheUntouchedPasses == Spec => []UntouchedIsAccepted
<1>1. SteadyInv => UntouchedIsAccepted
  BY DEF SteadyInv, Steady, UntouchedIsAccepted
<1> QED BY <1>1, AlwaysSteady, PTL
=============================================================================

--------------------------- MODULE LedgerCompiler ---------------------------
(***************************************************************************)
(* ContextCompiler._compile_impl(): extraction, protected recovery,         *)
(* resolve_temporal_state() - corrections, answered questions, conflicts -, *)
(* selection and verification.  One compilation is sequential; a step here  *)
(* is one pass of its loops, or one phase.                                  *)
(*                                                                         *)
(* Items sort by sequence number and id, and an id is a digest, so among    *)
(* items of one source the order is arbitrary but fixed: a choice.          *)
(***************************************************************************)
EXTENDS LedgerVerifier

CONSTANTS MaxItems,           \* compilation_limits.max_resolved_items
          ModelPrimary        \* may a model be the primary extractor?

VARIABLES history,   \* the sources and what they say; never changes
          phase, items,
          todo,      \* ids of the corrections, then of the answers, still to try
          selected,  \* selected_item_ids
          issues     \* error codes of the verification report

vars == <<history, phase, items, todo, selected, issues>>

ASSUME CompilerAssumption ==
    MaxItems \in Nat /\ ModelPrimary \in BOOLEAN

Phase == {"extract", "recover", "canonicalize", "corrections", "questions",
          "conflicts", "select", "verify", "done", "refused"}

Init ==
    /\ history \in Histories
    /\ phase = "extract" /\ items = {} /\ todo = {} /\ selected = {} /\ issues = {}

\* CompilationLimitError: compile raises, nothing is returned.
Raise == /\ phase' = "refused" /\ items' = {} /\ todo' = {}
         /\ UNCHANGED <<history, selected, issues>>

\* A collection is checked against max_resolved_items before the next step.
Continue(S, next, ids) ==
    \/ /\ Cardinality(S) <= MaxItems
       /\ items' = S /\ phase' = next /\ todo' = ids
       /\ UNCHANGED <<history, selected, issues>>
    \/ Cardinality(S) > MaxItems /\ Raise

\* Any consume() may exceed max_item_work, and any check max_provenance_spans.
ExceedBudget == phase \notin {"done", "refused"} /\ Raise
-----------------------------------------------------------------------------
\* The primary extractor: the rules, or a model that returns some of the same
\* atoms.  _decode_candidate() refuses reserved tags: a model's item has none.
ExtractByRules == phase = "extract" /\ Continue(Rules(history), "recover", {})

ByModel(i) == [i EXCEPT !.tags = @ \cap {"exact"}]
ExtractByModel ==
    /\ phase = "extract" /\ ModelPrimary
    /\ \E found \in SUBSET Rules(history) :
          Continue({ByModel(i) : i \in found}, "recover", {})

\* slip: recovery of the protected kinds only.
RecoverProtected ==
    /\ phase = "recover"
    /\ LET missed == {c \in Certification(history) : ~CoveredIn(c, items)}
       IN  Continue(items \cup missed, "canonicalize", {})

\* What the primary did not cover is added from the built-in rules.
Recover ==
    /\ phase = "recover"
    /\ LET missed == {c \in Rules(history) : ~CoveredIn(c, items)}
       IN  Continue(items \cup missed, "canonicalize", {})

IdsOf(S) == {i.id : i \in S}
Corrections(S) == {i \in S : i.kind = "user_correction"}

Begin ==
    /\ phase = "canonicalize"
    /\ LET S == Canonicalize(items)
       IN  Continue(S, "corrections", IdsOf(Corrections(S)))
-----------------------------------------------------------------------------
\* i is the next of the todo list: none left is older.
IsNext(i) == /\ i.id \in todo
              /\ \A j \in items : j.id \in todo => Seq(i) <= Seq(j)

Replaceable ==
    {"goal", "constraint", "confirmed_fact", "decision", "exact_reference"}
ScoreOf(c, p) == Score[c.text, p.kind, p.text]
\* slip: the order of the sources is not looked at.
RankedAnywhere(c) == {p \in items : /\ p.kind \in Replaceable
                                    /\ p.id # c.id
                                    /\ p.status = "active"
                                    /\ ScoreOf(c, p) > 0}
Ranked(c) == {p \in items : /\ p.kind \in Replaceable
                            /\ Seq(p) < Seq(c)
                            /\ p.status = "active"
                            /\ ScoreOf(c, p) > 0}
Strong(c) == {p \in Ranked(c) : ScoreOf(c, p) >= 45}
\* A prior that no other comes within 8 percent of.
ClearMatch(c) == {p \in Strong(c) :
                    \A q \in Ranked(c) \ {p} : ScoreOf(c, p) - ScoreOf(c, q) >= 8}

Tagged(i, tag) == [i EXCEPT !.tags = @ \cup {tag}]
Linked(i, id) == [i EXCEPT !.supersedes = @ \cup {id}]
Retired(p) ==
    Tagged([p EXCEPT !.status = "superseded"], "superseded-by-correction")
CurrentValues(c, p) == {i \in items : /\ i.id # c.id
                                      /\ i.kind = p.kind
                                      /\ Seq(i) = Seq(c)
                                      /\ "correction-derived" \in i.tags}

TryCorrection(c) == phase = "corrections" /\ c \in items /\ IsNext(c)
Done(c, S) == Continue(S, "corrections", todo \ {c.id})

\* Not recognized as a correction after all: left alone.
SkipUnmarked(c) == TryCorrection(c) /\ ~IsCorrection(c) /\ Done(c, items)

KeepAsClarification(c) ==
    /\ TryCorrection(c) /\ IsCorrection(c) /\ Strong(c) = {}
    /\ Done(c, (items \ {c}) \cup {Tagged(c, "additive-clarification")})

\* slip: an ambiguous correction is left without a tag.
KeepUntagged(c) ==
    /\ TryCorrection(c) /\ IsCorrection(c) /\ Strong(c) # {} /\ ClearMatch(c) = {}
    /\ Done(c, items)

KeepAsAmbiguous(c) ==
    /\ TryCorrection(c) /\ IsCorrection(c) /\ Strong(c) # {} /\ ClearMatch(c) = {}
    /\ Done(c, (items \ {c}) \cup {Tagged(c, "ambiguous-supersession")})

\* slip: the prior is retired; the correction is not linked to it.
SettledUnlinked(c, p) == (items \ {p}) \cup {Retired(p)}

\* The prior is retired and the correction linked to it...
Correct(c, p) ==
    /\ TryCorrection(c) /\ IsCorrection(c) /\ p \in ClearMatch(c)
Settled(c, p) == (items \ {c, p}) \cup {Retired(p), Linked(c, p.id)}

\* ... which is all a revocation does;
Revoke(c, p) ==
    /\ Correct(c, p) /\ c.text \in Revokes
    /\ Done(c, Settled(c, p))

\* ... a current value that was extracted is linked too,
LinkCurrentValue(c, p) ==
    /\ Correct(c, p) /\ c.text \notin Revokes
    /\ \E r \in CurrentValues(c, p) :
          Done(c, (Settled(c, p) \ {r}) \cup {Linked(r, p.id)})

\* ... or one is made of the correction.
Replacement(c, p) ==
    [id |-> <<"replacement", p.kind, Norm[c.text]>>, kind |-> p.kind, text |-> c.text,
     spans |-> c.spans, status |-> "active",
     tags |-> c.tags \cup {"correction-derived"},
     supersedes |-> {p.id}, conflicts |-> {}]
AppendReplacement(c, p) ==
    /\ Correct(c, p) /\ c.text \notin Revokes /\ CurrentValues(c, p) = {}
    /\ Done(c, Settled(c, p) \cup {Replacement(c, p)})

\* slip: a tool's confirmation answers too.
AnswersOfAnyone(S) == {i \in S : /\ i.kind = "confirmed_fact"
                                 /\ i.status = "active"
                                 /\ i.text \in Confirms}

Answers(S) == {i \in S : /\ i.kind = "confirmed_fact"
                         /\ i.status = "active"
                         /\ i.text \in Confirms
                         /\ "tool" \notin Roles(history, i)}
EndCorrections ==
    /\ phase = "corrections" /\ todo = {}
    /\ LET S == Canonicalize(items)
       IN  Continue(S, "questions", IdsOf(Answers(S)))
-----------------------------------------------------------------------------
AnswerTo(r, q) == AnswerScore[r.text, q.text]
Open(r) == {q \in items : /\ q.kind = "unresolved"
                          /\ q.status = "active"
                          /\ Seq(q) < Seq(r)
                          /\ AnswerTo(r, q) > 0}
Answered(r) == {q \in Open(r) : /\ AnswerTo(r, q) >= 55
                                /\ \A o \in Open(r) \ {q} :
                                      AnswerTo(r, q) - AnswerTo(r, o) >= 8}

TryAnswer(r) == phase = "questions" /\ r \in items /\ IsNext(r)

LeaveOpen(r) ==
    /\ TryAnswer(r) /\ Answered(r) = {}
    /\ Continue(items, "questions", todo \ {r.id})

Close(r, q) ==
    /\ TryAnswer(r) /\ q \in Answered(r)
    /\ Continue((items \ {r, q})
                   \cup {[q EXCEPT !.status = "superseded"],
                         Tagged(Linked(r, q.id), "resolves-protected")},
                "questions", todo \ {r.id})

EndAnswers ==
    /\ phase = "questions" /\ todo = {}
    /\ Continue(Canonicalize(items), "conflicts", {})
-----------------------------------------------------------------------------
Contradicts(l, r) ==
    /\ l.id # r.id /\ l.kind = r.kind
    /\ l.kind \in {"constraint", "confirmed_fact", "decision"}
    /\ l.status = "active" /\ r.status = "active"
    /\ {l.text, r.text} \in Opposed
Opponents(i) == {j \in items : Contradicts(i, j)}
Pairs == {{x[1], x[2]} : x \in {y \in items \X items : Contradicts(y[1], y[2])}}

Marked(i) == IF Opponents(i) = {} THEN i
             ELSE [i EXCEPT !.status = "conflicting",
                            !.conflicts = @ \cup IdsOf(Opponents(i))]
ConflictNode(l, r) ==
    [id |-> <<"unresolved", Norm[<<l.text, r.text>>]>>, kind |-> "unresolved",
     text |-> <<l.text, r.text>>, spans |-> l.spans \cup r.spans,
     status |-> "active", tags |-> {"detected-conflict"},
     supersedes |-> {}, conflicts |-> {l.id, r.id}]

\* Both sides are marked, and an open question quotes them, older first.
MarkConflicts ==
    /\ phase = "conflicts"
    /\ \E left \in [Pairs -> items] :
          /\ \A pair \in Pairs :
                left[pair] \in pair /\ \A i \in pair : Seq(left[pair]) <= Seq(i)
          /\ LET right(pair) == CHOOSE i \in pair : i # left[pair]
                 S == {Marked(i) : i \in items}
                         \cup {ConflictNode(left[pair], right(pair)) : pair \in Pairs}
             IN  IF Cardinality(S) > MaxItems
                 THEN Raise ELSE Continue(Canonicalize(S), "select", {})
-----------------------------------------------------------------------------
\* Every protected item that is current, and optional ones while they fit: the
\* policy without include_superseded.
Select ==
    /\ phase = "select"
    /\ LET eligible == {i \in items : i.status # "superseded"}
           protected == {i \in eligible : IsProtected(i)}
       IN  \E optional \in SUBSET (eligible \ protected) :
              selected' = IdsOf(protected \cup optional)
    /\ phase' = "verify"
    /\ UNCHANGED <<history, items, todo, issues>>

Verify ==
    /\ phase = "verify"
    /\ issues' = Issues(history, items, selected)
    /\ phase' = "done"
    /\ UNCHANGED <<history, items, todo, selected>>

Resolve ==
    \/ \E c \in items :
          \/ SkipUnmarked(c) \/ KeepAsClarification(c) \/ KeepAsAmbiguous(c)
          \/ \E p \in items : \/ Revoke(c, p) \/ LinkCurrentValue(c, p)
                              \/ AppendReplacement(c, p)
    \/ \E r \in items : LeaveOpen(r) \/ \E q \in items : Close(r, q)
    \/ EndCorrections \/ EndAnswers \/ MarkConflicts

Next == \/ ExtractByRules \/ ExtractByModel \/ Recover \/ Begin
        \/ Resolve \/ Select \/ Verify \/ ExceedBudget

Spec == Init /\ [][Next]_vars
-----------------------------------------------------------------------------
TypeOK ==
    /\ history \in [Source -> [role : Role, says : SUBSET Statement]]
    /\ phase \in Phase
    /\ items \subseteq Item
    /\ todo \subseteq Id /\ selected \subseteq Id
    /\ issues \subseteq IssueCode

Resolved == phase \in {"select", "verify", "done"}

\* Protected recovery and resolution lose nothing: once recovery has run, each
\* atom that the built-in rules recognize is in the ledger as an item of its kind
\* and meaning, perhaps in an older spelling, that cites its place, whatever the
\* primary extractor left out and however often items were merged, retired or
\* marked.
Retains(candidate, i) ==
    /\ candidate.kind = i.kind
    /\ Norm[candidate.text] = Norm[i.text]
    /\ candidate.spans \subseteq i.spans
RetainedIn(candidate, S) == \E i \in S : Retains(candidate, i)
NothingIsForgotten ==
    phase \notin {"extract", "recover", "refused"} =>
       \A c \in Rules(history) : RetainedIn(c, items)

\* Retired state has a reason that is itself current: each superseded item is
\* named by a later, unretired correction or answer - by its id, or by the id it
\* had as a replacement before the last canonicalization.
RetiredForAReason ==
    \A i \in items : i.status = "superseded" =>
       \E c \in items :
          /\ c.status # "superseded" /\ Seq(c) > Seq(i)
          /\ c.kind = "user_correction" \/ "resolves-protected" \in c.tags
          /\ {i.id, <<"replacement", i.kind, Norm[i.text]>>} \cap c.supersedes # {}

\* A question is closed only by a later confirmation that answers it and that no
\* tool had a part in, not even by saying the same thing as the participant.
ClosedByAParticipant ==
    Resolved =>
       \A q \in items : q.kind = "unresolved" /\ q.status = "superseded" =>
          \E r \in items : /\ q.id \in r.supersedes
                           /\ ConfirmedLater(history, r, q)
                           /\ AnswerTo(r, q) >= 55

\* Every correction of the ledger is settled: it retires what it clearly matches,
\* or says in a tag that it matches nothing well enough, or too much.
EveryCorrectionIsSettled ==
    Resolved =>
       \A c \in items : IsCorrection(c) =>
          \/ c.supersedes # {}
          \/ c.tags \cap {"additive-clarification", "ambiguous-supersession"} # {}

\* What the rules recognize as a correction is resolved as one, whatever the
\* primary extractor made of it.
CorrectionsStayCorrections ==
    Resolved =>
       \A c \in Rules(history) : IsCorrection(c) =>
          \E i \in items : Retains(c, i) /\ IsCorrection(i)

\* The histories without the combinations that verification refuses although the
\* compiler made the ledger itself: nothing is said twice, in any spelling, ...
SaidIn(h) == UNION {h[n].says : n \in Source}
SaidOnce(h) ==
    \A m, n \in Source : \A s \in h[m].says, t \in h[n].says :
       Norm[s.text] = Norm[t.text] => m = n /\ s = t
\* ... each fact stands where it is confirmed, and is not uncertain, ...
FactsStand(h) ==
    \A s \in SaidIn(h) : "confirmed_fact" \in {s.kind, s.twin} =>
       s.evidenced /\ s.text \notin Uncertain
\* ... the verifier relates what the resolver relates, ...
Replaces(c, t) ==
    /\ c.kind = "user_correction" /\ c # t
    /\ \E k \in Replaceable : Score[c.text, k, t.text] >= 45
Related(h) ==
    \A s, t \in SaidIn(h) :
       /\ Replaces(s, t) =>
             \/ <<s.text, t.text>> \in Supports
             \/ /\ s.label /\ s.text \notin Marker
                /\ <<s.text, t.text>> \in SupportsLabelled
       /\ AnswerScore[s.text, t.text] >= 55 => <<s.text, t.text>> \in SupportsAnswer
\* ... no correction replaces what a correction made, nor, with a value of its
\* own, a reference or a fact that it does not confirm, ...
ReplacesLike(h) ==
    \A c, t \in SaidIn(h) : Replaces(c, t) =>
       /\ t.kind # "user_correction"
       /\ \/ c.text \in Revokes
          \/ /\ t.kind # "exact_reference"
             /\ t.kind = "confirmed_fact" =>
                   c.evidenced /\ c.text \notin Uncertain
\* ... no correction answers a question, no tool contradicts anyone, ...
Answering(h) ==
    \A c \in SaidIn(h) : c.kind = "user_correction" => c.text \notin Confirms
ToolsAgree(h) ==
    \A m, n \in Source : h[m].role = "tool" =>
       \A s \in h[m].says, t \in h[n].says : {s.text, t.text} \notin Opposed
\* ... the resolver takes as a correction what the rules give a new value, ...
Recognized(h) == \A c \in SaidIn(h) : c.twin # None => c.text \in Marker
\* ... and no two corrections contradict each other as values of two kinds.
OneKind(h, c) ==
    c.text \in Revokes \/ \A t \in SaidIn(h) : Replaces(c, t) => t.kind = c.twin
KindsAgree(h) ==
    \A c, d \in SaidIn(h) :
       c.twin # None /\ d.twin # None /\ {c.text, d.text} \in Opposed =>
          OneKind(h, c) \/ OneKind(h, d)
Ordinary(h) ==
    /\ SaidOnce(h) /\ FactsStand(h) /\ Related(h) /\ ReplacesLike(h)
    /\ Answering(h) /\ ToolsAgree(h) /\ Recognized(h) /\ KindsAgree(h)

\* Every error of verification has one of those causes: an ordinary history
\* compiles to a ledger and a selection that verify without an error.
OrdinaryHistoriesVerify ==
    phase = "done" /\ Ordinary(history) => issues = {}
=============================================================================

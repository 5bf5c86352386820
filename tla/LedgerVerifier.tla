--------------------------- MODULE LedgerVerifier ---------------------------
(***************************************************************************)
(* context_compiler.verifier.verify_memory(): the checks that relate items  *)
(* of the resolved ledger S to one another, to the sources they cite, to    *)
(* the selection and to the certification pass, each named for the issue    *)
(* code it reports.                                                         *)
(*                                                                         *)
(* The verifier measures token overlap with tables of its own: Supports,    *)
(* SupportsLabelled and SupportsAnswer; its markers and confirmations are   *)
(* the resolver's.  Left out: atomic, order and polarity support of a text  *)
(* by its quotes, and the hashes and role strings of spans.                 *)
(***************************************************************************)
EXTENDS MemoryLedger

IsProtected(i) == i.kind \in Protected \/ "resolves-protected" \in i.tags
IsCorrection(i) ==
    /\ i.kind = "user_correction"
    /\ i.text \in Marker \/ "explicit-correction-label" \in i.tags

\* What RuleBasedExtractor(protected_only=True) requires of the ledger.
Certification(h) == {i \in Rules(h) : i.kind \in Protected}

InvalidSupersessionEdge(i, S) ==
    \E t \in i.supersedes : t = i.id \/ \A j \in S : j.id # t

InvalidSupersessionOrder(i, S) ==
    \E j \in S \ {i} : /\ j.id \in i.supersedes
                       /\ j.status # "superseded" \/ Seq(i) <= Seq(j)

InvalidConflictEdge(i, S) ==
    /\ i.status = "conflicting"
    /\ \/ i.conflicts = {}
       \/ \E t \in i.conflicts :
             ~\E j \in S : j.id = t /\ j.status = "conflicting" /\ i.id \in j.conflicts

ValidInternalConflict(i, S) ==
    /\ "detected-conflict" \in i.tags
    /\ i.kind = "unresolved"
    /\ \E l, r \in S :
          /\ l # r /\ i.conflicts = {l.id, r.id}
          /\ l.status = "conflicting" /\ r.status = "conflicting"
          /\ r.id \in l.conflicts /\ l.id \in r.conflicts
          /\ i.text \in {<<l.text, r.text>>, <<r.text, l.text>>}
          /\ l.spans \cup r.spans \subseteq i.spans
InvalidInternalConflict(i, S) ==
    "detected-conflict" \in i.tags /\ ~ValidInternalConflict(i, S)

\* A derived value needs the correction it was read from, at its own place.
InvalidCorrectionDerived(i, S) ==
    /\ "correction-derived" \in i.tags
    /\ \/ i.kind = "user_correction"
       \/ ~\E c \in S : /\ IsCorrection(c)
                        /\ Seq(c) = Seq(i)
                        /\ i.spans \subseteq c.spans

\* _valid_resolution_edge(): a later confirmation by participants that is about q.
ConfirmedLater(h, r, q) ==
    /\ r.kind = "confirmed_fact" /\ q.kind = "unresolved"
    /\ Seq(r) > Seq(q)
    /\ r.text \in Confirms
    /\ "tool" \notin Roles(h, r)
ValidResolutionEdge(h, r, q) ==
    ConfirmedLater(h, r, q) /\ <<r.text, q.text>> \in SupportsAnswer

InvalidProtectedResolution(h, i, S) ==
    /\ "resolves-protected" \in i.tags
    /\ LET closed == {j \in S : j.id \in i.supersedes}
       IN  closed = {} \/ \E j \in closed : ~ValidResolutionEdge(h, i, j)

\* Two tokens in common, one with a revocation, or one value for another below a
\* label.  The certification pass must have seen the correction as it stands.
SupportsCorrection(c, i) ==
    \/ <<c.text, i.text>> \in Supports
    \/ /\ "explicit-correction-label" \in c.tags
       /\ <<c.text, i.text>> \in SupportsLabelled
ValidRetirement(h, c, i) ==
    \/ /\ IsCorrection(c)
       /\ CoveredIn(c, Certification(h))
       /\ Seq(c) > Seq(i)
       /\ SupportsCorrection(c, i)
    \/ "resolves-protected" \in c.tags /\ ValidResolutionEdge(h, c, i)
OrphanedSupersededItem(h, i, S) ==
    /\ i.status = "superseded"
    /\ ~\E c \in S : /\ i.id \in c.supersedes
                     /\ c.status \in {"active", "conflicting"}
                     /\ ValidRetirement(h, c, i)

UnauthorizedSource(h, i) ==
    \/ i.kind \in AuthorityGated /\ Roles(h, i) # {"user"}
    \/ i.kind \in {"unresolved", "decision"} /\ "tool" \in Roles(h, i)

ExactnessDisabled(i) == i.kind = "exact_reference" /\ "exact" \notin i.tags
LiteralChanged(i) ==
    /\ i.kind = "exact_reference" \/ "exact" \in i.tags
    /\ \E p \in i.spans : p[2] # i.text

\* Every place a fact cites must be confirmed there, and none be uncertain.
UncertainFact(i) ==
    i.kind = "confirmed_fact" /\ \E p \in i.spans : p[2] \in Uncertain
HasConfirmation(h, p) == \E s \in h[p[1]].says : s.text = p[2] /\ s.evidenced
FactWithoutEvidence(h, i) ==
    i.kind = "confirmed_fact" /\ \E p \in i.spans : ~HasConfirmation(h, p)

Where(code, S, Bad(_)) == IF \E i \in S : Bad(i) THEN {code} ELSE {}

IssueCode ==
    {"selected_superseded_item", "invalid_supersession_edge",
     "invalid_supersession_order", "invalid_conflict_edge", "unauthorized_source",
     "intrinsic_exactness_disabled", "exact_literal_changed",
     "unresolved_promoted_to_fact", "fact_without_confirmation_evidence",
     "invalid_internal_conflict", "invalid_correction_derived_state",
     "invalid_protected_resolution", "orphaned_superseded_item",
     "protected_commitment_missing", "active_protected_item_not_selected"}

Issues(h, S, selected) ==
    UNION {
      Where("selected_superseded_item", S,
            LAMBDA i : i.id \in selected /\ i.status = "superseded"),
      Where("invalid_supersession_edge", S,
            LAMBDA i : InvalidSupersessionEdge(i, S)),
      Where("invalid_supersession_order", S,
            LAMBDA i : InvalidSupersessionOrder(i, S)),
      Where("invalid_conflict_edge", S, LAMBDA i : InvalidConflictEdge(i, S)),
      Where("unauthorized_source", S, LAMBDA i : UnauthorizedSource(h, i)),
      Where("intrinsic_exactness_disabled", S, ExactnessDisabled),
      Where("exact_literal_changed", S, LiteralChanged),
      Where("unresolved_promoted_to_fact", S, UncertainFact),
      Where("fact_without_confirmation_evidence", S,
            LAMBDA i : FactWithoutEvidence(h, i)),
      Where("invalid_internal_conflict", S,
            LAMBDA i : InvalidInternalConflict(i, S)),
      Where("invalid_correction_derived_state", S,
            LAMBDA i : InvalidCorrectionDerived(i, S)),
      Where("invalid_protected_resolution", S,
            LAMBDA i : InvalidProtectedResolution(h, i, S)),
      Where("orphaned_superseded_item", S,
            LAMBDA i : OrphanedSupersededItem(h, i, S)),
      Where("protected_commitment_missing", Certification(h),
            LAMBDA c : ~CoveredIn(c, S)),
      Where("active_protected_item_not_selected", S,
            LAMBDA i : /\ IsProtected(i) /\ i.status # "superseded"
                       /\ i.id \notin selected)}
=============================================================================

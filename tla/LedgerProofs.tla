---------------------------- MODULE LedgerProofs ----------------------------
(***************************************************************************)
(* Proofs about LedgerCompiler for every history, vocabulary and bound:    *)
(* recovery and resolution forget no atom, nothing is retired and no       *)
(* question closed without its reason, and ordinary histories verify.      *)
(***************************************************************************)
EXTENDS LedgerCompiler, WellFoundedInduction, TLAPS

\* Each item has the fields of an Item, which EXCEPT then leaves in place, and
\* cites sources.
IsShaped(i) ==
    /\ i.spans # {} /\ Sources(i) \subseteq Source
    /\ i = [id |-> i.id, kind |-> i.kind, text |-> i.text, spans |-> i.spans,
            status |-> i.status, tags |-> i.tags, supersedes |-> i.supersedes,
            conflicts |-> i.conflicts]
Shaped(S) == \A i \in S : IsShaped(i)

\* What S says, T says.
Keeps(S, T) == \A i \in S : RetainedIn(i, T)

LedgerInv == Shaped(items) /\ NothingIsForgotten
-----------------------------------------------------------------------------
(* Positions.                                                              *)

\* A set of natural numbers has a least element,
LEMMA LeastNatural ==
  ASSUME NEW T, T \subseteq Nat, T # {}
  PROVE  \E m \in T : \A k \in T : m <= k
<1>1. PICK m \in T : \A k \in T : ~ (<<k, m>> \in OpToRel(<, Nat))
  BY WFMin, NatLessThanWellFounded
<1>2. \A k \in T : ~(k < m)
  BY <1>1 DEF OpToRel
<1> QED BY <1>2

\* and, if it is bounded, a greatest one.
LEMMA GreatestNatural ==
  ASSUME NEW b \in Nat, NEW T, T \subseteq 0..b, T # {}
  PROVE  Max(T) \in T /\ \A k \in T : k <= Max(T)
<1> DEFINE U == {b - k : k \in T}
<1>1. PICK m \in U : \A k \in U : m <= k
  <2>1. \A k \in T : b - k \in Nat
    OBVIOUS
  <2>2. U \subseteq Nat
    BY <2>1, SMT
  <2>3. U # {}
    OBVIOUS
  <2> HIDE DEF U
  <2> QED BY <2>2, <2>3, LeastNatural
<1>2. PICK x \in T : m = b - x
  BY <1>1
<1>3. \A k \in T : x >= k
  BY <1>1, <1>2
<1> QED BY <1>3 DEF Max

\* The position of an item is its last source.
LEMMA SeqIsGreatest ==
  ASSUME NEW i, Sources(i) \subseteq Source, i.spans # {}
  PROVE  Seq(i) \in Sources(i) /\ Seq(i) \in Source /\ \A n \in Sources(i) : n <= Seq(i)
<1>1. Sources(i) \subseteq 0..NumSources /\ NumSources \in Nat
  BY LedgerAssumption DEF Source
<1>2. Sources(i) # {}
  BY DEF Sources
<1> QED BY <1>1, <1>2, GreatestNatural DEF Seq

\* The merged text is that of an oldest member.
LEMMA MergedTextIsOldest ==
  ASSUME NEW G, G # {}, Shaped(G)
  PROVE  \E i \in G : MergedText(G) = i.text /\ \A j \in G : Seq(i) <= Seq(j)
<1> DEFINE Seqs == {Seq(i) : i \in G}
           First(i) == \A j \in G : Seq(i) <= Seq(j)
<1>1. \A i \in G : Seq(i) \in Nat
  BY SeqIsGreatest DEF Shaped, IsShaped, Source
<1>2. \E i \in G : First(i)
  <2>1. Seqs \subseteq Nat /\ Seqs # {}
    BY <1>1
  <2>2. PICK m \in Seqs : \A k \in Seqs : m <= k
    <3> HIDE DEF Seqs
    <3> QED BY <2>1, LeastNatural
  <2> QED BY <2>2
<1> DEFINE old == CHOOSE i \in G : First(i)
<1>3. old \in G /\ First(old)
  <2> HIDE DEF First
  <2> QED BY <1>2
<1>4. MergedText(G) = old.text
  BY DEF MergedText
<1> HIDE DEF old
<1> QED BY <1>3, <1>4
-----------------------------------------------------------------------------
LEMMA SubsetKeeps ==
  ASSUME NEW S, NEW T, S \subseteq T
  PROVE  Keeps(S, T)
BY DEF Keeps, RetainedIn, Retains

LEMMA KeepsIsTransitive ==
  ASSUME NEW S, NEW T, NEW U, Keeps(S, T), Keeps(T, U)
  PROVE  Keeps(S, U)
<1> SUFFICES ASSUME NEW i \in S
             PROVE  RetainedIn(i, U)
  BY DEF Keeps
<1>1. PICK j \in T : Retains(i, j)
  BY DEF Keeps, RetainedIn
<1>2. PICK k \in U : Retains(j, k)
  BY DEF Keeps, RetainedIn
<1>3. Retains(i, k)
  BY <1>1, <1>2 DEF Retains
<1> QED  BY <1>3 DEF RetainedIn

\* The rules emit well-formed items.
LEMMA RulesAreShaped ==
  ASSUME NEW h
  PROVE  Shaped(Rules(h))
<1> SUFFICES ASSUME NEW i \in Rules(h)
             PROVE  IsShaped(i)
  BY DEF Shaped
<1>1. PICK n \in Source : i \in FromSource(h, n)
  BY DEF Rules
<1>2. PICK s : i = Atom(s, n) \/ i = Twin(s, n)
  BY <1>1 DEF FromSource
<1>3. i.spans = {<<n, s.text>>}
  BY <1>2 DEF Atom, Twin, Extracted
<1>4. i.spans # {} /\ Sources(i) \subseteq Source
  BY <1>3 DEF Sources
<1> QED  BY <1>2, <1>4 DEF Atom, Twin, Extracted, IsShaped

\* canonicalize() keeps one spelling of what a group says, all citations, and
\* drops no group.
LEMMA CanonicalizeKeeps ==
  ASSUME NEW S, Shaped(S)
  PROVE  Keeps(S, Canonicalize(S)) /\ Shaped(Canonicalize(S))
<1> DEFINE G(k) == {j \in S : Key(j) = k}
<1>1. ASSUME NEW i \in S
      PROVE  /\ Retains(i, Merge(Key(i), G(Key(i))))
             /\ IsShaped(Merge(Key(i), G(Key(i))))
  <2> DEFINE m == Merge(Key(i), G(Key(i)))
  <2>1. i \in G(Key(i)) /\ G(Key(i)) # {} /\ Shaped(G(Key(i)))
    BY DEF Shaped
  <2>2. PICK old \in G(Key(i)) : MergedText(G(Key(i))) = old.text
    <3> HIDE DEF G
    <3> QED BY <2>1, MergedTextIsOldest
  <2>3. m.kind = i.kind /\ Norm[m.text] = Norm[i.text]
    BY <2>2 DEF Merge, Key
  <2>4. m.spans = UNION {j.spans : j \in G(Key(i))}
    BY DEF Merge
  <2>5. i.spans \subseteq m.spans
    BY <2>1, <2>4
  <2>6. \A p \in m.spans : p[1] \in Source
    <3>1. \A j \in G(Key(i)) : \A p \in j.spans : p[1] \in Source
      BY <2>1 DEF Shaped, IsShaped, Sources
    <3> QED BY <2>4, <3>1
  <2>7. m = [id |-> m.id, kind |-> m.kind, text |-> m.text, spans |-> m.spans,
             status |-> m.status, tags |-> m.tags, supersedes |-> m.supersedes,
             conflicts |-> m.conflicts]
    BY DEF Merge
  <2> HIDE DEF m
  <2>8. IsShaped(m)
    <3>1. i.spans # {}
      BY DEF Shaped, IsShaped
    <3>2. Sources(m) \subseteq Source
      BY <2>6 DEF Sources
    <3> QED BY <2>5, <2>7, <3>1, <3>2 DEF IsShaped
  <2> USE DEF m
  <2> QED BY <2>3, <2>5, <2>8 DEF Retains
<1>2. Canonicalize(S) = {Merge(k, G(k)) : k \in {Key(i) : i \in S}}
  BY DEF Canonicalize
<1> HIDE DEF G
<1> QED BY <1>1, <1>2 DEF Keeps, RetainedIn, Shaped

\* Tags, links, statuses and conflicts change; what an item says does not.
LEMMA ChangesKeep ==
  ASSUME NEW i, IsShaped(i), NEW x, NEW y
  PROVE  /\ Retains(i, Tagged(i, x)) /\ IsShaped(Tagged(i, x))
         /\ Retains(i, Linked(i, x)) /\ IsShaped(Linked(i, x))
         /\ Retains(i, Tagged(Linked(i, x), y)) /\ IsShaped(Tagged(Linked(i, x), y))
         /\ Retains(i, Retired(i)) /\ IsShaped(Retired(i))
         /\ Retains(i, [i EXCEPT !.status = x]) /\ IsShaped([i EXCEPT !.status = x])
         /\ Retains(i, Marked(i)) /\ IsShaped(Marked(i))
<1>1. Retains(i, i)
  BY DEF Retains
<1>0. \A j, k : IsShaped(j) /\ k.spans = j.spans => k.spans # {} /\ Sources(k) \subseteq Source
  BY DEF IsShaped, Sources
<1>2. \A j, t : IsShaped(j) => Retains(j, Tagged(j, t)) /\ IsShaped(Tagged(j, t))
  <2> SUFFICES ASSUME NEW j, NEW t, IsShaped(j)
               PROVE  Retains(j, Tagged(j, t)) /\ IsShaped(Tagged(j, t))
    OBVIOUS
  <2>1. /\ Tagged(j, t).spans = j.spans /\ Tagged(j, t).kind = j.kind
        /\ Tagged(j, t).text = j.text
    BY DEF IsShaped, Tagged
  <2>2. Tagged(j, t).spans # {} /\ Sources(Tagged(j, t)) \subseteq Source
    BY <1>0, <2>1
  <2> QED BY <2>1, <2>2 DEF IsShaped, Retains, Tagged
<1>3. Retains(i, Linked(i, x)) /\ IsShaped(Linked(i, x))
  <2>1. /\ Linked(i, x).spans = i.spans /\ Linked(i, x).kind = i.kind
        /\ Linked(i, x).text = i.text
    BY DEF IsShaped, Linked
  <2>2. Linked(i, x).spans # {} /\ Sources(Linked(i, x)) \subseteq Source
    BY <1>0, <2>1
  <2> QED BY <2>1, <2>2 DEF IsShaped, Retains, Linked
<1>4. Retains(i, Tagged(Linked(i, x), y)) /\ IsShaped(Tagged(Linked(i, x), y))
  BY <1>2, <1>3 DEF Retains
<1>5. \A s : /\ Retains(i, [i EXCEPT !.status = s])
             /\ IsShaped([i EXCEPT !.status = s])
  BY DEF IsShaped, Retains, Sources
<1>6. Retains(i, Retired(i)) /\ IsShaped(Retired(i))
  <2> DEFINE p == [i EXCEPT !.status = "superseded"]
             t == "superseded-by-correction"
  <2>1. Retains(i, p) /\ IsShaped(p)
    BY <1>5
  <2>2. Retired(i) = Tagged(p, t)
    BY DEF Retired
  <2> HIDE DEF p, t
  <2>3. Retains(p, Tagged(p, t)) /\ IsShaped(Tagged(p, t))
    BY <1>2, <2>1
  <2> QED BY <2>1, <2>2, <2>3 DEF Retains
<1>7. Retains(i, Marked(i)) /\ IsShaped(Marked(i))
  BY <1>1 DEF IsShaped, Retains, Marked, Sources
<1> QED  BY <1>2, <1>3, <1>4, <1>5, <1>6, <1>7

\* A set in which some items are replaced by ones that cover them.
LEMMA ReplacementsKeep ==
  ASSUME NEW S, NEW T, Shaped(T),
         \A i \in S : i \in T \/ \E j \in T : Retains(i, j)
  PROVE  Keeps(S, T)
BY DEF Keeps, RetainedIn, Retains

\* A correction that is settled keeps its own text and that of what it retires.
LEMMA SettledKeeps ==
  ASSUME Shaped(items), NEW c \in items, NEW p \in items
  PROVE  Keeps(items, Settled(c, p)) /\ Shaped(Settled(c, p))
<1>1. IsShaped(c) /\ IsShaped(p)
  BY DEF Shaped
<1>2. /\ Retains(p, Retired(p)) /\ IsShaped(Retired(p))
      /\ Retains(c, Linked(c, p.id)) /\ IsShaped(Linked(c, p.id))
  BY <1>1, ChangesKeep
<1>3. Shaped(Settled(c, p))
  BY <1>2 DEF Shaped, Settled
<1>4. Keeps(items, Settled(c, p))
  BY <1>2, <1>3, ReplacementsKeep DEF Settled
<1> QED  BY <1>3, <1>4
-----------------------------------------------------------------------------
LEMMA RaiseForgets ==
  ASSUME Raise
  PROVE  LedgerInv'
BY DEF Raise, LedgerInv, Shaped, NothingIsForgotten

\* A step after recovery that only keeps, keeps the invariant.
LEMMA KeepingStep ==
  ASSUME LedgerInv, phase \notin {"extract", "recover", "refused"},
         NEW S, Keeps(items, S), Shaped(S), NEW next, NEW ids,
         Continue(S, next, ids)
  PROVE  LedgerInv'
<1>1. CASE Raise
  BY <1>1, RaiseForgets
<1>2. CASE items' = S /\ history' = history
  <2>1. Shaped(items')
    BY <1>2
  <2>2. \A d \in Rules(history) : RetainedIn(d, items')
    BY <1>2 DEF LedgerInv, NothingIsForgotten, Keeps, RetainedIn, Retains
  <2>3. \A d \in Rules(history') : RetainedIn(d, items')
    BY <1>2, <2>2
  <2> QED  BY <2>1, <2>3 DEF LedgerInv, NothingIsForgotten, Shaped, RetainedIn, Retains, IsShaped
<1> QED  BY <1>1, <1>2 DEF Continue
-----------------------------------------------------------------------------
\* Recovery adds each atom of the rules that the primary extractor left out.
LEMMA RecoverKeeps ==
  ASSUME LedgerInv, Recover
  PROVE  LedgerInv'
<1> DEFINE missed == {c \in Rules(history) : ~CoveredIn(c, items)}
           S == items \cup missed
<1>1. Continue(S, "canonicalize", {})
  BY DEF Recover
<1>2. CASE Raise
  BY <1>2, RaiseForgets
<1>3. CASE items' = S /\ history' = history
  <2>1. Shaped(S)
    BY RulesAreShaped DEF LedgerInv, Shaped
  <2>2. \A c \in Rules(history) : CoveredIn(c, items) => RetainedIn(c, items)
    BY DEF CoveredIn, Covers, RetainedIn, Retains
  <2>3. \A c \in Rules(history) : RetainedIn(c, S)
    BY <2>2 DEF RetainedIn, Retains
  <2>4. \A c \in Rules(history') : RetainedIn(c, items')
    BY <1>3, <2>3
  <2>5. Shaped(items')
    BY <1>3, <2>1
  <2> QED  BY <2>4, <2>5
           DEF LedgerInv, NothingIsForgotten, Shaped, RetainedIn, Retains, IsShaped
<1> QED  BY <1>1, <1>2, <1>3 DEF Continue

\* Extraction leads to the phase in which recovery is still to come.
LEMMA ExtractionIsShaped ==
  ASSUME NEW S, Shaped(S), Continue(S, "recover", {})
  PROVE  LedgerInv'
<1>1. CASE Raise
  BY <1>1, RaiseForgets
<1>2. CASE items' = S /\ phase' = "recover"
  <2>1. Shaped(items')
    BY <1>2
  <2> QED  BY <1>2, <2>1 DEF LedgerInv, NothingIsForgotten, Shaped, IsShaped
<1> QED  BY <1>1, <1>2 DEF Continue

LEMMA MarkConflictsKeeps ==
  ASSUME LedgerInv, MarkConflicts
  PROVE  LedgerInv'
<1> DEFINE Right(left, pair) == CHOOSE i \in pair : i # left[pair]
           After(left) == {Marked(i) : i \in items}
                             \cup {ConflictNode(left[pair], Right(left, pair)) : pair \in Pairs}
           Outcome(left) == IF Cardinality(After(left)) > MaxItems
                            THEN Raise ELSE Continue(Canonicalize(After(left)), "select", {})
<1>0. \E left \in [Pairs -> items] : Outcome(left)
  BY DEF MarkConflicts
<1> HIDE DEF Outcome
<1>1. PICK left \in [Pairs -> items] : Outcome(left)
  BY <1>0
<1> DEFINE right(pair) == Right(left, pair)
           S == After(left)
<1>2. CASE Raise
  BY <1>2, RaiseForgets
<1>3. CASE Continue(Canonicalize(S), "select", {})
  <2>0. Shaped(S)
    <3>1. \A i \in items : IsShaped(Marked(i))
      BY ChangesKeep DEF LedgerInv, Shaped
    <3>2. ASSUME NEW pair \in Pairs
          PROVE  left[pair] \in items /\ right(pair) \in items
      <4>1. PICK x \in items, y \in items : Contradicts(x, y) /\ pair = {x, y}
        BY DEF Pairs
      <4>2. x # y
        BY <4>1 DEF Contradicts
      <4>3. right(pair) \in pair
        BY <4>1, <4>2
      <4>4. left[pair] \in items
        BY <1>1
      <4> HIDE DEF Right
      <4> QED BY <4>1, <4>3, <4>4
    <3>3. \A l, r \in items : IsShaped(ConflictNode(l, r))
      <4> SUFFICES ASSUME NEW l \in items, NEW r \in items
                   PROVE  IsShaped(ConflictNode(l, r))
        OBVIOUS
      <4>1. ConflictNode(l, r).spans = l.spans \cup r.spans
        BY DEF ConflictNode
      <4>2. /\ l.spans # {} /\ \A p \in l.spans : p[1] \in Source
            /\ \A p \in r.spans : p[1] \in Source
        BY DEF LedgerInv, Shaped, IsShaped, Sources
      <4>3. /\ ConflictNode(l, r).spans # {}
            /\ Sources(ConflictNode(l, r)) \subseteq Source
        BY <4>1, <4>2 DEF Sources
      <4> QED BY <4>3 DEF ConflictNode, IsShaped
    <3> HIDE DEF Right
    <3> QED BY <3>1, <3>2, <3>3 DEF Shaped
  <2>1. Keeps(items, S)
    <3> SUFFICES ASSUME NEW i \in items
                 PROVE  RetainedIn(i, S)
      BY DEF Keeps
    <3>1. Retains(i, Marked(i)) /\ Marked(i) \in S
      BY ChangesKeep DEF LedgerInv, Shaped
    <3> QED  BY <3>1 DEF RetainedIn
  <2>2. Keeps(items, Canonicalize(S)) /\ Shaped(Canonicalize(S))
    BY <2>0, <2>1, CanonicalizeKeeps, KeepsIsTransitive
  <2>3. phase \notin {"extract", "recover", "refused"}
    BY DEF MarkConflicts
  <2> HIDE DEF S
  <2> QED  BY <1>3, <2>2, <2>3, KeepingStep
<1> QED  BY <1>1, <1>2, <1>3 DEF Outcome

\* Each pass of the loops keeps what it changes.
LEMMA ResolveKeeps ==
  ASSUME LedgerInv, Resolve
  PROVE  LedgerInv'
<1>0. Shaped(items)
  BY DEF LedgerInv
<1>1. Keeps(items, items)
  BY SubsetKeeps
<1>2. ASSUME NEW c \in items, SkipUnmarked(c)
      PROVE  LedgerInv'
  BY <1>0, <1>1, <1>2, KeepingStep DEF SkipUnmarked, TryCorrection, Done
<1>3. ASSUME NEW c \in items, NEW tag, TryCorrection(c),
             Done(c, (items \ {c}) \cup {Tagged(c, tag)})
      PROVE  LedgerInv'
  <2> DEFINE S == (items \ {c}) \cup {Tagged(c, tag)}
  <2>1. Retains(c, Tagged(c, tag)) /\ IsShaped(Tagged(c, tag))
    BY <1>0, ChangesKeep DEF Shaped
  <2>2. Shaped(S)
    BY <1>0, <2>1 DEF Shaped
  <2>3. Keeps(items, S)
    BY <2>1, <2>2, ReplacementsKeep
  <2> HIDE DEF S
  <2> QED  BY <1>3, <2>2, <2>3, KeepingStep DEF TryCorrection, Done, S
<1>4. ASSUME NEW c \in items, NEW p \in items, Revoke(c, p)
      PROVE  LedgerInv'
  <2>1. Keeps(items, Settled(c, p)) /\ Shaped(Settled(c, p))
    BY <1>0, SettledKeeps
  <2> QED  BY <1>4, <2>1, KeepingStep DEF Revoke, Correct, TryCorrection, Done
<1>5. ASSUME NEW c \in items, NEW p \in items, LinkCurrentValue(c, p)
      PROVE  LedgerInv'
  <2>1. PICK r \in items :
           Done(c, (Settled(c, p) \ {r}) \cup {Linked(r, p.id)})
    BY <1>5 DEF LinkCurrentValue, CurrentValues
  <2> DEFINE S == (Settled(c, p) \ {r}) \cup {Linked(r, p.id)}
  <2>2. Retains(r, Linked(r, p.id)) /\ IsShaped(Linked(r, p.id))
    BY <1>0, ChangesKeep DEF Shaped
  <2>3. Keeps(items, Settled(c, p)) /\ Shaped(Settled(c, p))
    BY <1>0, SettledKeeps
  <2>4. Shaped(S)
    BY <2>2, <2>3 DEF Shaped
  <2>5. Keeps(Settled(c, p), S)
    BY <2>2, <2>4, ReplacementsKeep
  <2>6. Keeps(items, S)
    BY <2>3, <2>5, KeepsIsTransitive
  <2> HIDE DEF S
  <2> QED  BY <1>5, <2>1, <2>4, <2>6, KeepingStep
           DEF LinkCurrentValue, Correct, TryCorrection, Done, S
<1>6. ASSUME NEW c \in items, NEW p \in items, AppendReplacement(c, p)
      PROVE  LedgerInv'
  <2> DEFINE S == Settled(c, p) \cup {Replacement(c, p)}
  <2>1. Keeps(items, Settled(c, p)) /\ Shaped(Settled(c, p))
    BY <1>0, SettledKeeps
  <2>2. Shaped(S)
    <3>1. c.spans # {} /\ \A n \in Sources(c) : n \in Source
      BY <1>0 DEF Shaped, IsShaped
    <3>2. Sources(Replacement(c, p)) = Sources(c)
      BY DEF Sources, Replacement
    <3>3. IsShaped(Replacement(c, p))
      BY <3>1, <3>2 DEF IsShaped, Replacement
    <3> QED BY <2>1, <3>3 DEF Shaped
  <2>3. Keeps(items, S)
    BY <2>1, SubsetKeeps, KeepsIsTransitive
  <2> HIDE DEF S
  <2> QED  BY <1>6, <2>2, <2>3, KeepingStep
           DEF AppendReplacement, Correct, TryCorrection, Done, S
<1>7. ASSUME NEW r \in items, LeaveOpen(r)
      PROVE  LedgerInv'
  BY <1>0, <1>1, <1>7, KeepingStep DEF LeaveOpen, TryAnswer
<1>8. ASSUME NEW r \in items, NEW q \in items, Close(r, q)
      PROVE  LedgerInv'
  <2> DEFINE S == (items \ {r, q})
                     \cup {[q EXCEPT !.status = "superseded"],
                           Tagged(Linked(r, q.id), "resolves-protected")}
  <2>1. /\ Retains(q, [q EXCEPT !.status = "superseded"])
        /\ IsShaped([q EXCEPT !.status = "superseded"])
        /\ Retains(r, Tagged(Linked(r, q.id), "resolves-protected"))
        /\ IsShaped(Tagged(Linked(r, q.id), "resolves-protected"))
    BY <1>0, ChangesKeep DEF Shaped
  <2>2. Shaped(S)
    BY <1>0, <2>1 DEF Shaped
  <2>3. Keeps(items, S)
    BY <2>1, <2>2, ReplacementsKeep
  <2> HIDE DEF S
  <2> QED  BY <1>8, <2>2, <2>3, KeepingStep DEF Close, TryAnswer, S
<1>9. CASE EndCorrections \/ EndAnswers
  <2>1. Keeps(items, Canonicalize(items)) /\ Shaped(Canonicalize(items))
    BY <1>0, CanonicalizeKeeps
  <2> QED  BY <1>9, <2>1, KeepingStep DEF EndCorrections, EndAnswers
<1>10. CASE MarkConflicts
  BY <1>10, MarkConflictsKeeps
<1> QED  BY <1>2, <1>3, <1>4, <1>5, <1>6, <1>7, <1>8, <1>9, <1>10
         DEF Resolve, KeepAsClarification, KeepAsAmbiguous
-----------------------------------------------------------------------------
\* At the start nothing is extracted, and recovery is still to come.
THEOREM InitLedger == Init => LedgerInv
BY DEF Init, LedgerInv, Shaped, NothingIsForgotten

\* Every phase and every pass of resolve_temporal_state() preserves LedgerInv.
THEOREM StepLedger == LedgerInv /\ [Next]_vars => LedgerInv'
<1> SUFFICES ASSUME LedgerInv, [Next]_vars
             PROVE  LedgerInv'
  OBVIOUS
<1>1. CASE ExtractByRules
  BY <1>1, RulesAreShaped, ExtractionIsShaped DEF ExtractByRules
<1>2. CASE ExtractByModel
  <2>1. PICK found \in SUBSET Rules(history) :
           Continue({ByModel(i) : i \in found}, "recover", {})
    BY <1>2 DEF ExtractByModel
  <2>2. \A i \in found : IsShaped(i)
    BY RulesAreShaped DEF Shaped
  <2>3. ASSUME NEW i \in found
        PROVE  IsShaped(ByModel(i))
    <3>1. IsShaped(i) /\ ByModel(i).spans = i.spans
      BY <2>2 DEF IsShaped, ByModel
    <3>2. ByModel(i).spans # {} /\ Sources(ByModel(i)) \subseteq Source
      BY <3>1 DEF IsShaped, Sources
    <3> QED BY <3>1, <3>2 DEF IsShaped, ByModel
  <2>4. Shaped({ByModel(i) : i \in found})
    BY <2>3 DEF Shaped
  <2> QED  BY <2>1, <2>4, ExtractionIsShaped
<1>3. CASE Recover
  BY <1>3, RecoverKeeps
<1>4. CASE Begin
  <2>1. Keeps(items, Canonicalize(items)) /\ Shaped(Canonicalize(items))
    BY CanonicalizeKeeps DEF LedgerInv
  <2> QED  BY <1>4, <2>1, KeepingStep DEF Begin
<1>5. CASE Resolve
  BY <1>5, ResolveKeeps
<1>6. CASE Select \/ Verify \/ UNCHANGED vars
  <2>1. items' = items /\ history' = history
    BY <1>6 DEF Select, Verify, vars
  <2>2. phase' \notin {"extract", "recover", "refused"}
          => phase \notin {"extract", "recover", "refused"}
    BY <1>6 DEF Select, Verify, vars
  <2>3. Shaped(items')
    BY <2>1 DEF LedgerInv
  <2>4. phase' \notin {"extract", "recover", "refused"}
          => \A c \in Rules(history') : RetainedIn(c, items')
    BY <2>1, <2>2 DEF LedgerInv, NothingIsForgotten
  <2> QED  BY <2>3, <2>4
           DEF LedgerInv, NothingIsForgotten, Shaped, IsShaped, RetainedIn, Retains
<1>7. CASE ExceedBudget
  BY <1>7, RaiseForgets DEF ExceedBudget
<1> QED  BY <1>1, <1>2, <1>3, <1>4, <1>5, <1>6, <1>7 DEF Next

\* Whatever the history says and the primary extractor leaves out, and however
\* items are merged, retired, answered or marked, no atom that the built-in rules
\* recognize is missing from the ledger once recovery has run.
THEOREM NothingForgotten == Spec => []NothingIsForgotten
<1>1. LedgerInv => NothingIsForgotten
  BY DEF LedgerInv
<1> QED  BY <1>1, InitLedger, StepLedger, PTL DEF Spec
-----------------------------------------------------------------------------
(* The ledger through its phases.                                          *)

Typed(S) == S \subseteq Item /\ \A i \in S : i.spans # {}
Atomic(S) == \A i \in S : i.text \in Text

\* As extracted.
RawLedger(S) ==
    /\ Typed(S) /\ Atomic(S)
    /\ \A i \in S : i.status = "active" /\ i.supersedes = {} /\ "resolves-protected" \notin i.tags

ReplacementKey(i) == <<"replacement", i.kind, Norm[i.text]>>

\* i is retired by c, and everything retired is retired by something.
RetiredBy(i, c) ==
    /\ c.status # "superseded" /\ Seq(c) > Seq(i)
    /\ c.kind = "user_correction" \/ "resolves-protected" \in c.tags
    /\ {i.id, ReplacementKey(i)} \cap c.supersedes # {}
Reasons(S) == \A i \in S : i.status = "superseded" => \E c \in S : RetiredBy(i, c)

\* A correction says what became of it.
Settles(c) ==
    \/ c.supersedes # {}
    \/ c.tags \cap {"additive-clarification", "ambiguous-supersession"} # {}

\* While corrections are resolved: only replacements have ids of their own, and
\* what no correction replaces is as it was.
CorrectingLedger(S, ids) ==
    /\ Typed(S) /\ Atomic(S)
    /\ ids \subseteq {"user_correction"} \X Text
    /\ \A i \in S : /\ i.id \in {Key(i), ReplacementKey(i)}
                    /\ "resolves-protected" \notin i.tags
                    /\ i.kind \notin Replaceable => i.id = Key(i) /\ i.status = "active"
    /\ \A i, j \in S : i.kind = "user_correction" /\ Key(i) = Key(j) => i = j
    /\ \A c \in S : IsCorrection(c) => c.id \in ids \/ Settles(c)
    /\ Reasons(S)

\* r closes q.
Closes(h, r, q) == q.id \in r.supersedes /\ ConfirmedLater(h, r, q) /\ AnswerTo(r, q) >= 55
Closings(h, S) ==
    \A q \in S : q.kind = "unresolved" /\ q.status = "superseded" => \E r \in S : Closes(h, r, q)

\* From then on: one item of each kind and text, and only facts answer.
Distinct(S) ==
    /\ \A i \in S : /\ i.id = Key(i)
                    /\ i.kind = "user_correction" => i.status # "superseded"
                    /\ "resolves-protected" \in i.tags => i.kind = "confirmed_fact"
    /\ \A i, j \in S : Key(i) = Key(j) => i = j

SettledLedger(h, S) ==
    /\ Typed(S) /\ Distinct(S) /\ Reasons(S) /\ Closings(h, S)
    /\ \A c \in S : IsCorrection(c) => Settles(c)

\* While questions are answered: an answer still to be tried is one.
IsAnswer(h, i) ==
    /\ i.kind = "confirmed_fact" /\ i.status = "active"
    /\ i.text \in Confirms /\ "tool" \notin Roles(h, i)
AnsweringLedger(h, S, ids) ==
    /\ SettledLedger(h, S) /\ Atomic(S)
    /\ ids \subseteq Id /\ \A i \in S : i.id \in ids => IsAnswer(h, i)

LedgerAt(h, ph, S, ids) ==
    /\ ph \in {"extract", "recover", "canonicalize"} => RawLedger(S) /\ ids = {}
    /\ ph = "corrections" => CorrectingLedger(S, ids)
    /\ ph \in {"questions", "conflicts"} => AnsweringLedger(h, S, ids)
    /\ ph \in {"select", "verify", "done"} => SettledLedger(h, S) /\ ids = {}
    /\ ph = "refused" => S = {} /\ ids = {}

ResolutionInv == TypeOK /\ LedgerAt(history, phase, items, todo)
-----------------------------------------------------------------------------
(* Positions, and what canonicalize() makes of a group.                    *)

LEMMA TypedSeq ==
  ASSUME NEW S, Typed(S), NEW i \in S
  PROVE  /\ Seq(i) \in Sources(i) /\ Seq(i) \in Source /\ Seq(i) \in Nat
         /\ \A n \in Sources(i) : n <= Seq(i)
<1>1. i.spans \subseteq Place /\ i.spans # {}
  BY DEF Typed, Item
<1>2. Sources(i) \subseteq Source
  BY <1>1 DEF Sources, Place
<1> QED BY <1>1, <1>2, SeqIsGreatest DEF Source

\* A spelling of an atom never has the meaning of a quoted pair.
LEMMA SameSort ==
  ASSUME NEW s \in ItemText, NEW t \in ItemText, Norm[s] = Norm[t]
  PROVE  s \in Text <=> t \in Text
<1>1. ASSUME NEW u \in ItemText PROVE u \in Text <=> Norm[u] \in Text
  <2>1. CASE u \in Text
    BY <2>1, LedgerAssumption
  <2>2. CASE u \in Text \X Text
    <3>1. Norm[u] \in Text \X Text /\ Text \cap (Text \X Text) = {}
      BY <2>2, LedgerAssumption
    <3> QED BY <2>2, <3>1
  <2> QED BY <2>1, <2>2 DEF ItemText
<1> QED BY <1>1

LEMMA TypedIsShaped ==
  ASSUME NEW S, Typed(S)
  PROVE  Shaped(S)
<1> SUFFICES ASSUME NEW i \in S
             PROVE  IsShaped(i)
  BY DEF Shaped
<1>1. i \in Item /\ i.spans # {} /\ i.spans \subseteq Place
  BY DEF Typed, Item
<1>2. Sources(i) \subseteq Source
  BY <1>1 DEF Sources, Place
<1> QED BY <1>1, <1>2 DEF IsShaped, Item

\* The merged status is that of a newest member.
LEMMA MergedStatusIsNewest ==
  ASSUME NEW G, G # {}, Typed(G)
  PROVE  \E i \in G : MergedStatus(G) = i.status /\ \A j \in G : Seq(j) <= Seq(i)
<1> DEFINE newest == {i \in G : \A j \in G : Seq(j) <= Seq(i)}
           Seqs == {Seq(i) : i \in G}
           Ranks == {StatusRank[i.status] : i \in newest}
<1>1. newest # {}
  <2>1. \A i \in G : Seq(i) \in 0..NumSources
    BY TypedSeq DEF Source
  <2>2. Seqs \subseteq 0..NumSources /\ Seqs # {} /\ NumSources \in Nat
    BY <2>1, LedgerAssumption
  <2>3. Max(Seqs) \in Seqs /\ \A k \in Seqs : k <= Max(Seqs)
    <3> HIDE DEF Seqs
    <3> QED BY <2>2, GreatestNatural
  <2> QED BY <2>3
<1>2. \E i \in newest : \A j \in newest : StatusRank[j.status] <= StatusRank[i.status]
  <2>1. \A i \in newest : StatusRank[i.status] \in 0..3
    BY DEF Typed, Item, Status, StatusRank
  <2>2. Ranks \subseteq 0..3 /\ Ranks # {}
    BY <1>1, <2>1
  <2>3. Max(Ranks) \in Ranks /\ \A k \in Ranks : k <= Max(Ranks)
    <3> HIDE DEF Ranks
    <3> QED BY <2>2, GreatestNatural
  <2> QED BY <2>3
<1> DEFINE top == CHOOSE i \in newest : \A j \in newest : StatusRank[j.status] <= StatusRank[i.status]
<1>3. top \in newest
  <2> HIDE DEF newest
  <2> QED BY <1>2
<1>4. MergedStatus(G) = top.status
  BY DEF MergedStatus
<1> HIDE DEF top
<1> QED BY <1>3, <1>4

\* A merged item has an id of its own, the citations, tags and links of its
\* group, and the position and status of a newest member.
LEMMA MergedItem ==
  ASSUME NEW S, Typed(S), NEW m \in Canonicalize(S)
  PROVE  /\ m \in Item /\ m.spans # {} /\ m.id = Key(m)
         /\ \E i \in S : /\ Key(i) = Key(m) /\ i.status = m.status
                         /\ Seq(i) = Seq(m)
         /\ \A i \in S : Key(i) = Key(m) =>
               /\ i.spans \subseteq m.spans /\ i.tags \subseteq m.tags
               /\ i.supersedes \subseteq m.supersedes
               /\ i.conflicts \subseteq m.conflicts
               /\ Seq(i) <= Seq(m)
         /\ \A x \in m.tags : \E i \in S : Key(i) = Key(m) /\ x \in i.tags
         /\ \A x \in m.supersedes : \E i \in S : Key(i) = Key(m) /\ x \in i.supersedes
         /\ \A x \in m.spans : \E i \in S : Key(i) = Key(m) /\ x \in i.spans
         /\ \A x \in m.conflicts : \E i \in S : Key(i) = Key(m) /\ x \in i.conflicts
         /\ \E i \in S : /\ Key(i) = Key(m) /\ i.text = m.text
                         /\ \A j \in S : Key(j) = Key(m) => Seq(i) <= Seq(j)
<1>1. PICK k \in {Key(i) : i \in S} : m = Merge(k, {i \in S : Key(i) = k})
  BY DEF Canonicalize
<1> DEFINE G == {i \in S : Key(i) = k}
<1>2. G # {} /\ Typed(G)
  BY <1>1 DEF Typed
<1>3. PICK top \in G : MergedStatus(G) = top.status /\ \A j \in G : Seq(j) <= Seq(top)
  <2> HIDE DEF G
  <2> QED BY <1>2, MergedStatusIsNewest
<1>12. PICK old \in G : MergedText(G) = old.text /\ \A j \in G : Seq(old) <= Seq(j)
  <2> HIDE DEF G
  <2> QED BY <1>2, TypedIsShaped, MergedTextIsOldest
<1>4. /\ k = <<top.kind, Norm[top.text]>> /\ top \in Item /\ top.spans # {}
      /\ k = <<old.kind, Norm[old.text]>> /\ old \in Item
  BY <1>3, <1>12 DEF Key, Typed
<1>5. /\ m.id = k /\ m.kind = top.kind /\ m.text = old.text /\ m.status = top.status
      /\ m.spans = UNION {i.spans : i \in G} /\ m.tags = UNION {i.tags : i \in G}
      /\ m.supersedes = UNION {i.supersedes : i \in G}
      /\ m.conflicts = UNION {i.conflicts : i \in G}
      /\ m = [id |-> m.id, kind |-> m.kind, text |-> m.text, spans |-> m.spans,
              status |-> m.status, tags |-> m.tags, supersedes |-> m.supersedes,
              conflicts |-> m.conflicts]
  BY <1>1, <1>3, <1>4, <1>12 DEF Merge
<1>6. Key(m) = k
  BY <1>4, <1>5 DEF Key
<1>7. \A i \in G : /\ i.spans \subseteq Place /\ i.tags \subseteq Tag
                   /\ i.supersedes \subseteq Id /\ i.conflicts \subseteq Id
  BY <1>2 DEF Typed, Item
<1>8. /\ m.spans \subseteq Place /\ m.tags \subseteq Tag
      /\ m.supersedes \subseteq Id /\ m.conflicts \subseteq Id
  BY <1>5, <1>7
<1>9. m \in Item
  <2>1. Norm[top.text] \in ItemText
    BY <1>4, LedgerAssumption DEF Item
  <2>2. m.id \in Id
    BY <1>4, <1>5, <2>1 DEF Item, Id, CanonicalId
  <2>3. m.kind \in Kind /\ m.text \in ItemText /\ m.status \in Status
    BY <1>4, <1>5 DEF Item
  <2> QED BY <1>5, <1>8, <2>2, <2>3 DEF Item
<1>10. top.spans \subseteq m.spans /\ m.spans # {}
  BY <1>3, <1>4, <1>5
<1>11. Seq(m) = Seq(top)
  <2>1. Seq(m) \in Sources(m) /\ Seq(m) \in Nat /\ \A n \in Sources(m) : n <= Seq(m)
    <3>1. Typed({m})
      BY <1>9, <1>10 DEF Typed
    <3> QED BY <3>1, TypedSeq
  <2>2. PICK i \in G : Seq(m) \in Sources(i)
    <3>1. PICK p \in m.spans : Seq(m) = p[1]
      BY <2>1 DEF Sources
    <3> QED BY <1>5, <3>1 DEF Sources
  <2>3. Seq(m) <= Seq(i) /\ Seq(i) <= Seq(top) /\ Seq(i) \in Nat
    BY <1>2, <1>3, <2>2, TypedSeq
  <2>4. Seq(top) \in Sources(m) /\ Seq(top) \in Nat
    <3>1. Seq(top) \in Sources(top) /\ Seq(top) \in Nat
      BY <1>2, <1>3, TypedSeq
    <3> QED BY <1>10, <3>1 DEF Sources
  <2> QED BY <2>1, <2>3, <2>4
<1> QED BY <1>3, <1>5, <1>6, <1>9, <1>10, <1>11, <1>12

\* A group has one merged item, and each merged item has a group.
LEMMA MergedOnce ==
  ASSUME NEW S, Shaped(S)
  PROVE  /\ \A i \in S : \E m \in Canonicalize(S) : Key(m) = Key(i)
         /\ \A m, n \in Canonicalize(S) : Key(m) = Key(n) => m = n
<1> DEFINE G(k) == {i \in S : Key(i) = k}
           Of(k) == Merge(k, G(k))
<1>1. ASSUME NEW k \in {Key(i) : i \in S}
      PROVE  Key(Of(k)) = k
  <2>1. G(k) # {} /\ Shaped(G(k))
    BY DEF Shaped
  <2>2. PICK old \in G(k) : MergedText(G(k)) = old.text
    <3> HIDE DEF G
    <3> QED BY <2>1, MergedTextIsOldest
  <2> QED BY <2>2 DEF Merge, Key
<1>2. Canonicalize(S) = {Of(k) : k \in {Key(i) : i \in S}}
  BY DEF Canonicalize
<1> HIDE DEF Of
<1> QED BY <1>1, <1>2

\* An item that shares its kind and meaning with no other keeps everything but its id.
LEMMA LoneItem ==
  ASSUME NEW S, Typed(S), NEW i \in S, \A j \in S : Key(j) = Key(i) => j = i,
         NEW m \in Canonicalize(S), Key(m) = Key(i)
  PROVE  /\ m.id = Key(i) /\ m.kind = i.kind /\ m.text = i.text /\ m.spans = i.spans
         /\ m.status = i.status /\ m.tags = i.tags /\ m.supersedes = i.supersedes
         /\ m.conflicts = i.conflicts /\ Seq(m) = Seq(i)
<1>1. PICK k \in {Key(j) : j \in S} : m = Merge(k, {j \in S : Key(j) = k})
  BY DEF Canonicalize
<1>0. Typed({i}) /\ Shaped({i}) /\ {i} # {}
  BY TypedIsShaped DEF Typed
<1>2. Key(m) = k
  <2> DEFINE G == {j \in S : Key(j) = k}
  <2>1. G # {} /\ Shaped(G)
    BY <1>1, TypedIsShaped DEF Shaped
  <2>2. PICK old \in G : MergedText(G) = old.text
    <3> HIDE DEF G
    <3> QED BY <2>1, MergedTextIsOldest
  <2> QED BY <1>1, <2>2 DEF Merge, Key
<1>3. {j \in S : Key(j) = k} = {i}
  BY <1>2
<1>4. m = Merge(<<i.kind, Norm[i.text]>>, {i})
  BY <1>1, <1>2, <1>3 DEF Key
<1>5. MergedStatus({i}) = i.status
  BY <1>0, MergedStatusIsNewest
<1>6. MergedText({i}) = i.text
  BY <1>0, MergedTextIsOldest
<1> QED BY <1>4, <1>5, <1>6 DEF Merge, Key, Seq, Sources
-----------------------------------------------------------------------------
(* Extraction.                                                             *)

LEMMA HistoryType ==
  ASSUME history \in Histories
  PROVE  history \in [Source -> [role : Role, says : SUBSET Statement]]
<1>1. Records \subseteq [role : Role, says : SUBSET Statement]
  <2> SUFFICES ASSUME NEW r \in Records
               PROVE  r \in [role : Role, says : SUBSET Statement]
    OBVIOUS
  <2>1. PICK role \in Role : r \in {[role |-> role, says |-> says] : says \in MaySay(role)}
    BY DEF Records
  <2>2. PICK says \in MaySay(role) : r = [role |-> role, says |-> says]
    BY <2>1
  <2>3. says \subseteq Statement
    BY DEF MaySay
  <2> QED BY <2>2, <2>3
<1> QED BY <1>1 DEF Histories

LEMMA ExtractedIsRaw ==
  ASSUME NEW text \in Text, NEW kind \in Kind, NEW n \in Source,
         NEW tags \in SUBSET (Tag \ {"resolves-protected"})
  PROVE  RawLedger({Extracted(text, kind, n, tags)})
<1> DEFINE i == Extracted(text, kind, n, tags)
<1>1. <<kind, text, n>> \in Id
  BY DEF Id, SourceId
<1>2. i \in Item /\ i.spans = {<<n, text>>}
  BY <1>1 DEF Extracted, Item, ItemText, Status, Place
<1>3. /\ i.text \in Text /\ i.status = "active" /\ i.supersedes = {}
      /\ "resolves-protected" \notin i.tags
  BY DEF Extracted
<1>4. RawLedger({i})
  <2> HIDE DEF i
  <2> QED BY <1>2, <1>3 DEF RawLedger, Typed, Atomic
<1> QED BY <1>4

\* What the rules extract is raw.
LEMMA RulesAreRaw ==
  ASSUME NEW h \in [Source -> [role : Role, says : SUBSET Statement]]
  PROVE  RawLedger(Rules(h))
<1>1. ASSUME NEW n \in Source, NEW s \in h[n].says
      PROVE  RawLedger({Atom(s, n)}) /\ (s.twin # None => RawLedger({Twin(s, n)}))
  <2>1. s \in Statement /\ s \in Classified
    BY <1>1, LedgerAssumption
  <2>2. s.text \in Text /\ s.kind \in Kind /\ s.twin \in Kind \cup {None}
    BY <2>1 DEF Classified
  <2>3. {"correction-derived"} \subseteq Tag \ {"resolves-protected"}
    BY DEF Tag
  <2>4. (IF s.label THEN {"explicit-correction-label"} ELSE {})
           \cup (IF s.kind = "exact_reference" THEN {"exact"} ELSE {})
          \subseteq Tag \ {"resolves-protected"}
    BY DEF Tag
  <2> QED BY <2>2, <2>3, <2>4, ExtractedIsRaw DEF Atom, Twin
<1>2. ASSUME NEW i \in Rules(h) PROVE RawLedger({i})
  <2>1. PICK n \in Source : i \in FromSource(h, n)
    BY DEF Rules
  <2>2. PICK s \in h[n].says : i = Atom(s, n) \/ (s.twin # None /\ i = Twin(s, n))
    BY <2>1 DEF FromSource
  <2> QED BY <1>1, <2>2
<1> QED BY <1>2 DEF RawLedger, Typed, Atomic

\* What a model returns of it is raw too.
LEMMA ModelIsRaw ==
  ASSUME NEW S, RawLedger(S)
  PROVE  RawLedger({ByModel(i) : i \in S})
<1> SUFFICES ASSUME NEW i \in S PROVE RawLedger({ByModel(i)})
  BY DEF RawLedger, Typed, Atomic
<1>1. i \in Item /\ i.spans # {} /\ i.text \in Text /\ i.status = "active" /\ i.supersedes = {}
  BY DEF RawLedger, Typed, Atomic
<1>2. /\ ByModel(i).spans = i.spans /\ ByModel(i).text = i.text /\ ByModel(i).status = i.status
      /\ ByModel(i).supersedes = i.supersedes /\ ByModel(i).tags = i.tags \cap {"exact"}
      /\ ByModel(i) \in Item
  BY <1>1 DEF ByModel, Item
<1> QED BY <1>1, <1>2 DEF RawLedger, Typed, Atomic

\* Merged for the first time: every correction is still to be tried.
LEMMA BeginsCorrecting ==
  ASSUME NEW S, RawLedger(S), NEW ids,
         ids = IdsOf(Corrections(Canonicalize(S)))
  PROVE  CorrectingLedger(Canonicalize(S), ids)
<1> DEFINE C == Canonicalize(S)
<1>1. Typed(S)
  BY DEF RawLedger
<1>2. ASSUME NEW m \in C
      PROVE  /\ m \in Item /\ m.spans # {} /\ m.id = Key(m) /\ m.text \in Text
             /\ m.status = "active" /\ m.supersedes = {} /\ "resolves-protected" \notin m.tags
  <2>1. \E i \in S : Key(i) = Key(m) /\ i.status = m.status
    BY <1>1, MergedItem
  <2>4. \E i \in S : Key(i) = Key(m) /\ i.text = m.text
    BY <1>1, MergedItem
  <2>2. m.text \in Text /\ m.status = "active"
    BY <2>1, <2>4 DEF RawLedger, Atomic
  <2>3. m.supersedes = {} /\ "resolves-protected" \notin m.tags
    BY <1>1, MergedItem DEF RawLedger
  <2> QED BY <1>1, <2>2, <2>3, MergedItem
<1>3. Typed(C) /\ Atomic(C) /\ Reasons(C)
  BY <1>2 DEF Typed, Atomic, Reasons
<1>4. ids \subseteq {"user_correction"} \X Text
  <2>1. ASSUME NEW m \in C, m.kind = "user_correction"
        PROVE  m.id \in {"user_correction"} \X Text
    <3>1. m.text \in Text /\ m.id = <<m.kind, Norm[m.text]>>
      BY <1>2 DEF Key
    <3> HIDE DEF C
    <3> QED BY <2>1, <3>1, LedgerAssumption
  <2> QED BY <2>1 DEF IdsOf, Corrections
<1>5. \A c \in C : IsCorrection(c) => c.id \in ids
  BY DEF IdsOf, Corrections, IsCorrection
<1> HIDE DEF C
<1>6. \A i, j \in C : Key(i) = Key(j) => i = j
  BY <1>1, TypedIsShaped, MergedOnce DEF C
<1> QED BY <1>2, <1>3, <1>4, <1>5, <1>6 DEF CorrectingLedger, C
-----------------------------------------------------------------------------
(* Corrections: one item is changed at a time.                             *)

\* An item gains tags or links.
LEMMA GainKeeps ==
  ASSUME NEW S, NEW ids, CorrectingLedger(S, ids), NEW i \in S, NEW j \in Item,
         j.id = i.id, j.kind = i.kind, j.text = i.text, j.spans = i.spans,
         j.status = i.status, i.tags \subseteq j.tags, i.supersedes \subseteq j.supersedes,
         "resolves-protected" \notin j.tags,
         "explicit-correction-label" \in j.tags => "explicit-correction-label" \in i.tags
  PROVE  CorrectingLedger((S \ {i}) \cup {j}, ids)
<1> DEFINE T == (S \ {i}) \cup {j}
<1>1. Key(j) = Key(i) /\ ReplacementKey(j) = ReplacementKey(i) /\ Seq(j) = Seq(i)
  BY DEF Key, ReplacementKey, Seq, Sources
<1>2. Typed(T) /\ Atomic(T)
  BY DEF CorrectingLedger, Typed, Atomic
<1>3. \A x \in T : /\ x.id \in {Key(x), ReplacementKey(x)}
                   /\ "resolves-protected" \notin x.tags
                   /\ x.kind \notin Replaceable => x.id = Key(x) /\ x.status = "active"
  BY <1>1 DEF CorrectingLedger
<1>4. \A x, y \in T : x.kind = "user_correction" /\ Key(x) = Key(y) => x = y
  BY <1>1 DEF CorrectingLedger
<1>5. IsCorrection(j) => IsCorrection(i)
  BY DEF IsCorrection
<1>6. Settles(i) => Settles(j)
  BY DEF Settles
<1>7. \A c \in T : IsCorrection(c) => c.id \in ids \/ Settles(c)
  BY <1>5, <1>6 DEF CorrectingLedger
<1>8. Reasons(T)
  <2> SUFFICES ASSUME NEW x \in T, x.status = "superseded"
               PROVE  \E c \in T : RetiredBy(x, c)
    BY DEF Reasons
  <2>1. PICK y \in S : /\ y.status = "superseded" /\ y.id = x.id /\ Seq(y) = Seq(x)
                       /\ ReplacementKey(y) = ReplacementKey(x)
    BY <1>1
  <2>2. PICK c \in S : RetiredBy(y, c)
    BY <2>1 DEF CorrectingLedger, Reasons
  <2>3. CASE c = i
    BY <1>1, <2>1, <2>2, <2>3 DEF RetiredBy
  <2>4. CASE c # i
    BY <2>1, <2>2, <2>4 DEF RetiredBy
  <2> QED BY <2>3, <2>4
<1> HIDE DEF T
<1> QED BY <1>2, <1>3, <1>4, <1>7, <1>8 DEF CorrectingLedger, T

\* A prior is retired, and its correction says so.
LEMMA RetireKeeps ==
  ASSUME NEW S, NEW ids, CorrectingLedger(S, ids), NEW p \in S, p.kind \in Replaceable,
         NEW c \in S, c.kind = "user_correction", Seq(p) < Seq(c), p.id \in c.supersedes
  PROVE  CorrectingLedger((S \ {p}) \cup {Retired(p)}, ids)
<1> DEFINE q == Retired(p)
           T == (S \ {p}) \cup {q}
<1>1. p \in Item
  BY DEF CorrectingLedger, Typed
<1>2. /\ q.id = p.id /\ q.kind = p.kind /\ q.text = p.text /\ q.spans = p.spans
      /\ q.status = "superseded" /\ q.supersedes = p.supersedes
      /\ q.tags = p.tags \cup {"superseded-by-correction"}
      /\ q \in Item
  BY <1>1 DEF Retired, Tagged, Item, Status, Tag
<1> HIDE DEF q
<1>3. Key(q) = Key(p) /\ ReplacementKey(q) = ReplacementKey(p) /\ Seq(q) = Seq(p)
  BY <1>2 DEF Key, ReplacementKey, Seq, Sources
<1>4. p.kind # "user_correction" /\ c # p
  BY DEF Replaceable
<1>5. Typed(T) /\ Atomic(T)
  BY <1>2 DEF CorrectingLedger, Typed, Atomic
<1>6. \A x \in T : /\ x.id \in {Key(x), ReplacementKey(x)}
                   /\ "resolves-protected" \notin x.tags
                   /\ x.kind \notin Replaceable => x.id = Key(x) /\ x.status = "active"
  BY <1>2, <1>3 DEF CorrectingLedger
<1>7. \A x, y \in T : x.kind = "user_correction" /\ Key(x) = Key(y) => x = y
  BY <1>2, <1>3, <1>4 DEF CorrectingLedger, Key
<1>8. \A d \in T : IsCorrection(d) => d.id \in ids \/ Settles(d)
  BY <1>2, <1>4 DEF CorrectingLedger, IsCorrection
<1>9. Reasons(T)
  <2>1. c \in T /\ c.status # "superseded"
    BY <1>4 DEF CorrectingLedger, Replaceable
  <2>2. RetiredBy(q, c)
    BY <1>2, <1>3, <2>1 DEF RetiredBy
  <2>3. ASSUME NEW x \in S \ {p}, x.status = "superseded" PROVE \E d \in T : RetiredBy(x, d)
    <3>1. PICK d \in S : RetiredBy(x, d)
      BY <2>3 DEF CorrectingLedger, Reasons
    <3>2. d # p
      BY <1>4, <3>1 DEF RetiredBy, CorrectingLedger
    <3> QED BY <3>1, <3>2
  <2> QED BY <2>1, <2>2, <2>3 DEF Reasons
<1> HIDE DEF T
<1> QED BY <1>5, <1>6, <1>7, <1>8, <1>9 DEF CorrectingLedger, T, q

\* A replacement is added.
LEMMA AddKeeps ==
  ASSUME NEW S, NEW ids, CorrectingLedger(S, ids), NEW j \in Item, j.spans # {},
         j.kind \in Replaceable, j.text \in Text, j.status = "active",
         j.id = ReplacementKey(j), "resolves-protected" \notin j.tags
  PROVE  CorrectingLedger(S \cup {j}, ids)
<1> DEFINE T == S \cup {j}
<1>1. j.kind # "user_correction"
  BY DEF Replaceable
<1>2. Typed(T) /\ Atomic(T)
  BY DEF CorrectingLedger, Typed, Atomic
<1>3. \A x \in T : /\ x.id \in {Key(x), ReplacementKey(x)}
                   /\ "resolves-protected" \notin x.tags
                   /\ x.kind \notin Replaceable => x.id = Key(x) /\ x.status = "active"
  BY DEF CorrectingLedger
<1>4. \A x, y \in T : x.kind = "user_correction" /\ Key(x) = Key(y) => x = y
  BY <1>1 DEF CorrectingLedger, Key
<1>5. \A d \in T : IsCorrection(d) => d.id \in ids \/ Settles(d)
  BY <1>1 DEF CorrectingLedger, IsCorrection
<1>6. Reasons(T)
  BY DEF Reasons, CorrectingLedger
<1> HIDE DEF T
<1> QED BY <1>2, <1>3, <1>4, <1>5, <1>6 DEF CorrectingLedger, T

\* A correction that settles need not be tried again.
LEMMA DoneKeeps ==
  ASSUME NEW S, NEW ids, CorrectingLedger(S, ids), NEW x,
         \A d \in S : IsCorrection(d) /\ d.id = x => Settles(d)
  PROVE  CorrectingLedger(S, ids \ {x})
BY DEF CorrectingLedger

\* Ids of corrections are told apart by their texts, also from replacements' ids.
LEMMA TriedOnce ==
  ASSUME NEW S, NEW ids, CorrectingLedger(S, ids), NEW c \in S, c.id \in ids,
         NEW d \in S, d.kind = "user_correction", d.id = c.id
  PROVE  d = c
<1>1. d.id = Key(d)
  BY DEF CorrectingLedger, Replaceable
<1>2. c.id \in {Key(c), ReplacementKey(c)}
  BY DEF CorrectingLedger
<1>3. DOMAIN Key(d) = 1..2 /\ DOMAIN ReplacementKey(c) = 1..3
  BY DEF Key, ReplacementKey
<1>4. c.id = Key(c)
  BY <1>1, <1>2, <1>3
<1> QED BY <1>1, <1>4 DEF CorrectingLedger

\* What became of a correction that was tried.
Tried(S, c) == \A d \in S : IsCorrection(d) /\ d.id = c.id => Settles(d)

LEMMA SkippedKeeps ==
  ASSUME CorrectingLedger(items, todo), NEW c \in items, SkipUnmarked(c)
  PROVE  CorrectingLedger(items, todo \ {c.id})
<1>1. c.id \in todo /\ ~IsCorrection(c)
  BY DEF SkipUnmarked, TryCorrection, IsNext
<1>2. Tried(items, c)
  BY <1>1, TriedOnce DEF Tried, IsCorrection
<1> QED BY <1>2, DoneKeeps DEF Tried

LEMMA KeptKeeps ==
  ASSUME CorrectingLedger(items, todo), NEW c \in items, c.id \in todo,
         NEW tag \in {"additive-clarification", "ambiguous-supersession"}
  PROVE  CorrectingLedger((items \ {c}) \cup {Tagged(c, tag)}, todo \ {c.id})
<1> DEFINE j == Tagged(c, tag)
           T == (items \ {c}) \cup {j}
<1>1. c \in Item /\ "resolves-protected" \notin c.tags
  BY DEF CorrectingLedger, Typed
<1>2. /\ j \in Item /\ j.id = c.id /\ j.kind = c.kind /\ j.text = c.text
      /\ j.spans = c.spans /\ j.status = c.status /\ j.supersedes = c.supersedes
      /\ j.tags = c.tags \cup {tag}
  BY <1>1 DEF Tagged, Item, Tag
<1> HIDE DEF j
<1>3. CorrectingLedger(T, todo)
  BY <1>1, <1>2, GainKeeps
<1>4. Tried(T, c)
  BY <1>2, TriedOnce DEF Tried, IsCorrection, Settles
<1> HIDE DEF T
<1>5. CorrectingLedger(T, todo \ {c.id})
  BY <1>3, <1>4, DoneKeeps DEF Tried
<1> QED BY <1>5 DEF T, j

LEMMA RetiringKeeps ==
  ASSUME NEW c, NEW p, CorrectingLedger(items, todo), c \in items, c.id \in todo,
         IsCorrection(c), p \in Ranked(c)
  PROVE  CorrectingLedger(Settled(c, p), todo) /\ Tried(Settled(c, p), c)
<1> DEFINE j == Linked(c, p.id)
           T == (items \ {c}) \cup {j}
           U == (T \ {p}) \cup {Retired(p)}
<1>1. /\ c \in Item /\ p \in Item /\ "resolves-protected" \notin c.tags /\ p \in items
      /\ p.kind \in Replaceable /\ Seq(p) < Seq(c) /\ c.kind = "user_correction"
  BY DEF CorrectingLedger, Typed, Ranked, IsCorrection
<1>2. /\ j \in Item /\ j.id = c.id /\ j.kind = c.kind /\ j.text = c.text
      /\ j.spans = c.spans /\ j.status = c.status /\ j.tags = c.tags
      /\ j.supersedes = c.supersedes \cup {p.id} /\ Seq(j) = Seq(c)
  BY <1>1 DEF Linked, Item, Seq, Sources
<1> HIDE DEF j
<1>3. CorrectingLedger(T, todo)
  BY <1>1, <1>2, GainKeeps
<1>4. p # c /\ p # j /\ p \in T /\ j \in T
  BY <1>1, <1>2 DEF Replaceable
<1>5. CorrectingLedger(U, todo)
  <2> HIDE DEF T
  <2> QED BY <1>1, <1>2, <1>3, <1>4, RetireKeeps
<1>6. Settled(c, p) = U
  BY <1>4 DEF Settled, j
<1>7. Retired(p).kind = p.kind
  BY <1>1 DEF Retired, Tagged, Item
<1>8. Tried(U, c)
  BY <1>1, <1>2, <1>7, TriedOnce DEF Tried, IsCorrection, Settles, Replaceable
<1> HIDE DEF U
<1> QED BY <1>5, <1>6, <1>8

LEMMA RevokedKeeps ==
  ASSUME CorrectingLedger(items, todo), NEW c \in items, NEW p \in items, Correct(c, p)
  PROVE  CorrectingLedger(Settled(c, p), todo \ {c.id})
<1>1. c.id \in todo /\ IsCorrection(c) /\ p \in Ranked(c)
  BY DEF Correct, TryCorrection, IsNext, ClearMatch, Strong
<1>2. CorrectingLedger(Settled(c, p), todo) /\ Tried(Settled(c, p), c)
  BY <1>1, RetiringKeeps
<1> QED BY <1>2, DoneKeeps DEF Tried

LEMMA LinkedKeeps ==
  ASSUME CorrectingLedger(items, todo), NEW c \in items, NEW p \in items, Correct(c, p),
         NEW r \in CurrentValues(c, p)
  PROVE  CorrectingLedger((Settled(c, p) \ {r}) \cup {Linked(r, p.id)}, todo \ {c.id})
<1> DEFINE S == Settled(c, p)
           j == Linked(r, p.id)
           T == (S \ {r}) \cup {j}
<1>1. c.id \in todo /\ IsCorrection(c) /\ p \in Ranked(c)
  BY DEF Correct, TryCorrection, IsNext, ClearMatch, Strong
<1>2. CorrectingLedger(S, todo) /\ Tried(S, c)
  BY <1>1, RetiringKeeps
<1>3. /\ r \in items /\ r.id # c.id /\ Seq(r) = Seq(c) /\ Seq(p) < Seq(c)
      /\ r \in Item /\ p \in Item /\ "resolves-protected" \notin r.tags
      /\ Seq(r) \in Nat /\ Seq(p) \in Nat
  BY <1>1, TypedSeq DEF CurrentValues, CorrectingLedger, Typed, Ranked
<1>4. r # p /\ r # c
  BY <1>3
<1>5. r \in S
  BY <1>3, <1>4 DEF Settled
<1>6. /\ j \in Item /\ j.id = r.id /\ j.kind = r.kind /\ j.text = r.text
      /\ j.spans = r.spans /\ j.status = r.status /\ j.tags = r.tags
      /\ j.supersedes = r.supersedes \cup {p.id}
  BY <1>3 DEF Linked, Item
<1> HIDE DEF S, j
<1>7. CorrectingLedger(T, todo)
  BY <1>2, <1>3, <1>5, <1>6, GainKeeps
<1>8. Tried(T, c)
  BY <1>2, <1>3, <1>6 DEF Tried
<1> HIDE DEF T
<1>9. CorrectingLedger(T, todo \ {c.id})
  BY <1>7, <1>8, DoneKeeps DEF Tried
<1> QED BY <1>9 DEF T, S, j

LEMMA AppendedKeeps ==
  ASSUME CorrectingLedger(items, todo), NEW c \in items, NEW p \in items, Correct(c, p)
  PROVE  CorrectingLedger(Settled(c, p) \cup {Replacement(c, p)}, todo \ {c.id})
<1> DEFINE S == Settled(c, p)
           j == Replacement(c, p)
           T == S \cup {j}
<1>1. c.id \in todo /\ IsCorrection(c) /\ p \in Ranked(c)
  BY DEF Correct, TryCorrection, IsNext, ClearMatch, Strong
<1>2. CorrectingLedger(S, todo) /\ Tried(S, c)
  BY <1>1, RetiringKeeps
<1>3. /\ c \in Item /\ p \in Item /\ c.text \in Text /\ c.spans # {}
      /\ "resolves-protected" \notin c.tags /\ p.kind \in Replaceable
  BY <1>1 DEF CorrectingLedger, Typed, Atomic, Ranked
<1>4. /\ j.id = ReplacementKey(j) /\ j.kind = p.kind /\ j.text = c.text
      /\ j.spans = c.spans /\ j.status = "active"
      /\ j.tags = c.tags \cup {"correction-derived"}
  BY DEF Replacement, ReplacementKey
<1>5. j \in Item
  <2>1. <<"replacement", p.kind, Norm[c.text]>> \in Id
    BY <1>3, LedgerAssumption DEF Id, ReplacementId, Item
  <2> QED BY <1>3, <2>1 DEF Replacement, Item, Tag, Status, ItemText
<1> HIDE DEF S, j
<1>6. CorrectingLedger(T, todo)
  BY <1>2, <1>3, <1>4, <1>5, AddKeeps
<1>7. Tried(T, c)
  BY <1>2, <1>3, <1>4 DEF Tried, IsCorrection, Replaceable
<1> HIDE DEF T
<1>8. CorrectingLedger(T, todo \ {c.id})
  BY <1>6, <1>7, DoneKeeps DEF Tried
<1> QED BY <1>8 DEF T, S, j
-----------------------------------------------------------------------------
(* Questions.                                                              *)

\* Merged for the second time: one item of each kind and text, and the answers
\* still to be tried.
LEMMA BeginsAnswering ==
  ASSUME NEW S, CorrectingLedger(S, {}), NEW ids, ids = IdsOf(Answers(Canonicalize(S)))
  PROVE  AnsweringLedger(history, Canonicalize(S), ids)
<1> DEFINE C == Canonicalize(S)
<1>1. Typed(S)
  BY DEF CorrectingLedger
<1>2. ASSUME NEW m \in C
      PROVE  /\ m \in Item /\ m.spans # {} /\ m.id = Key(m)
             /\ "resolves-protected" \notin m.tags
             /\ \E i \in S : Key(i) = Key(m) /\ i.status = m.status /\ Seq(i) = Seq(m)
             /\ \E i \in S : Key(i) = Key(m) /\ i.text = m.text
  <2>1. "resolves-protected" \notin m.tags
    BY <1>1, MergedItem DEF CorrectingLedger
  <2> QED BY <1>1, <2>1, MergedItem
<1>3. \A m \in C : /\ m.text \in Text
                   /\ m.kind \notin Replaceable => m.status = "active"
  BY <1>2 DEF Key, CorrectingLedger, Atomic
<1>4. \A m, n \in C : Key(m) = Key(n) => m = n
  BY <1>1, TypedIsShaped, MergedOnce
<1>5. Typed(C) /\ Atomic(C) /\ Shaped(S)
  BY <1>1, <1>2, <1>3, TypedIsShaped DEF Typed, Atomic
<1>6. Distinct(C)
  BY <1>2, <1>3, <1>4 DEF Distinct, Replaceable
<1>7. Reasons(C)
  <2> SUFFICES ASSUME NEW m \in C, m.status = "superseded"
               PROVE  \E n \in C : RetiredBy(m, n)
    BY DEF Reasons
  <2>1. PICK i \in S : Key(i) = Key(m) /\ i.status = m.status /\ Seq(i) = Seq(m)
    BY <1>2
  <2>2. PICK c \in S : RetiredBy(i, c)
    BY <2>1 DEF CorrectingLedger, Reasons
  <2>3. PICK n \in C : Key(n) = Key(c)
    BY <1>5, MergedOnce
  <2>4. c.kind = "user_correction" /\ n.kind = "user_correction"
    BY <2>2, <2>3 DEF RetiredBy, CorrectingLedger, Key
  <2>5. n.status # "superseded" /\ c.supersedes \subseteq n.supersedes /\ Seq(c) <= Seq(n)
    BY <1>1, <1>6, <2>3, <2>4, MergedItem DEF Distinct
  <2>6. Seq(c) \in Nat /\ Seq(n) \in Nat /\ Seq(m) \in Nat /\ Seq(m) < Seq(c)
    BY <1>1, <1>5, <2>1, <2>2, TypedSeq DEF RetiredBy
  <2>7. {i.id, ReplacementKey(i)} \subseteq {m.id, ReplacementKey(m)}
    BY <1>2, <2>1 DEF CorrectingLedger, Key, ReplacementKey
  <2>8. Seq(n) > Seq(m)
    BY <2>5, <2>6
  <2> HIDE DEF C
  <2> QED BY <2>2, <2>4, <2>5, <2>7, <2>8 DEF RetiredBy
<1>8. Closings(history, C)
  BY <1>3 DEF Closings, Replaceable
<1>9. \A c \in C : IsCorrection(c) => Settles(c)
  <2> SUFFICES ASSUME NEW c \in C, IsCorrection(c) PROVE Settles(c)
    OBVIOUS
  <2>1. PICK i \in S : Key(i) = Key(c)
    BY <1>2
  <2>2. i.kind = "user_correction"
    BY <2>1 DEF IsCorrection, Key
  <2>3. \A j \in S : Key(j) = Key(i) => j = i
    BY <2>2 DEF CorrectingLedger, Key
  <2>4. i.tags = c.tags /\ i.supersedes = c.supersedes /\ i.kind = c.kind /\ i.text = c.text
    BY <1>1, <2>1, <2>3, LoneItem
  <2>5. Settles(i)
    BY <2>4 DEF CorrectingLedger, IsCorrection
  <2> QED BY <2>4, <2>5 DEF Settles
<1>10. ids \subseteq Id /\ \A i \in C : i.id \in ids => IsAnswer(history, i)
  <2>1. \A i \in C : i.id \in ids => i \in Answers(C)
    BY <1>2, <1>4 DEF IdsOf, Answers
  <2>2. ids \subseteq Id
    BY <1>2 DEF IdsOf, Answers, Item
  <2> QED BY <2>1, <2>2 DEF Answers, IsAnswer
<1> HIDE DEF C
<1>11. AnsweringLedger(history, C, ids)
  BY <1>5, <1>6, <1>7, <1>8, <1>9, <1>10 DEF AnsweringLedger, SettledLedger
<1> QED BY <1>11 DEF C

\* An answer closes the question that it is about.
LEMMA CloseKeeps ==
  ASSUME AnsweringLedger(history, items, todo), NEW r, NEW q, r \in items, r.id \in todo,
         q \in Answered(r)
  PROVE  AnsweringLedger(history,
                         (items \ {r, q})
                            \cup {[q EXCEPT !.status = "superseded"],
                                  Tagged(Linked(r, q.id), "resolves-protected")},
                         todo \ {r.id})
<1> DEFINE u == [q EXCEPT !.status = "superseded"]
           a == Tagged(Linked(r, q.id), "resolves-protected")
           T == (items \ {r, q}) \cup {u, a}
<1>1. /\ q \in items /\ q.kind = "unresolved" /\ q.status = "active" /\ Seq(q) < Seq(r)
      /\ AnswerTo(r, q) >= 55
  BY DEF Answered, Open
<1>2. IsAnswer(history, r)
  BY DEF AnsweringLedger
<1>3. r.kind = "confirmed_fact" /\ r.status = "active" /\ q # r
  BY <1>1, <1>2 DEF IsAnswer
<1>4. Typed(items) /\ Atomic(items) /\ Distinct(items) /\ q \in Item /\ r \in Item
  BY <1>1 DEF AnsweringLedger, SettledLedger, Typed
<1>5. /\ u \in Item /\ u.id = q.id /\ u.kind = q.kind /\ u.text = q.text
      /\ u.spans = q.spans /\ u.status = "superseded" /\ u.tags = q.tags
      /\ u.supersedes = q.supersedes
  BY <1>4 DEF Item, Status
<1>6. /\ a \in Item /\ a.id = r.id /\ a.kind = r.kind /\ a.text = r.text
      /\ a.spans = r.spans /\ a.status = r.status
      /\ a.tags = r.tags \cup {"resolves-protected"}
      /\ a.supersedes = r.supersedes \cup {q.id}
  BY <1>4 DEF Tagged, Linked, Item, Tag
<1> HIDE DEF u, a
<1>7. /\ Key(u) = Key(q) /\ ReplacementKey(u) = ReplacementKey(q) /\ Seq(u) = Seq(q)
      /\ Key(a) = Key(r) /\ ReplacementKey(a) = ReplacementKey(r) /\ Seq(a) = Seq(r)
      /\ Roles(history, a) = Roles(history, r)
  BY <1>5, <1>6 DEF Key, ReplacementKey, Seq, Sources, Roles
<1>8. Typed(T) /\ Atomic(T)
  BY <1>1, <1>4, <1>5, <1>6 DEF Typed, Atomic
<1>9. Distinct(T)
  <2>1. \A i \in T : /\ i.id = Key(i)
                     /\ i.kind = "user_correction" => i.status # "superseded"
                     /\ "resolves-protected" \in i.tags => i.kind = "confirmed_fact"
    BY <1>1, <1>3, <1>4, <1>5, <1>6, <1>7 DEF Distinct
  <2>2. \A i, j \in T : Key(i) = Key(j) => i = j
    BY <1>1, <1>3, <1>4, <1>7 DEF Distinct
  <2> QED BY <2>1, <2>2 DEF Distinct
<1>10. \A c \in items : c.kind = "user_correction" \/ "resolves-protected" \in c.tags => c # q
  BY <1>1, <1>4 DEF Distinct
<1>11. Reasons(T)
  <2> SUFFICES ASSUME NEW x \in T, x.status = "superseded" PROVE \E c \in T : RetiredBy(x, c)
    BY DEF Reasons
  <2>1. CASE x = u
    <3>1. RetiredBy(u, a)
      BY <1>1, <1>3, <1>5, <1>6, <1>7 DEF RetiredBy
    <3> QED BY <2>1, <3>1
  <2>2. CASE x # u
    <3>1. x \in items
      BY <1>3, <1>6, <2>2
    <3>2. PICK c \in items : RetiredBy(x, c)
      BY <3>1 DEF AnsweringLedger, SettledLedger, Reasons
    <3>3. c # q
      BY <1>10, <3>2 DEF RetiredBy
    <3>4. c = r => RetiredBy(x, a)
      BY <1>6, <1>7, <3>2 DEF RetiredBy
    <3> QED BY <3>2, <3>3, <3>4
  <2> QED BY <2>1, <2>2
<1>12. Closings(history, T)
  <2> SUFFICES ASSUME NEW x \in T, x.kind = "unresolved", x.status = "superseded"
               PROVE  \E c \in T : Closes(history, c, x)
    BY DEF Closings
  <2>1. CASE x = u
    <3>1. Seq(r) > Seq(q) /\ AnswerTo(a, u) >= 55
      BY <1>1, <1>5, <1>6, <1>4, TypedSeq DEF AnswerTo
    <3>2. Closes(history, a, u)
      BY <1>1, <1>2, <1>5, <1>6, <1>7, <3>1 DEF Closes, ConfirmedLater, IsAnswer
    <3> QED BY <2>1, <3>2
  <2>2. CASE x # u
    <3>1. x \in items
      BY <1>3, <1>6, <2>2
    <3>2. PICK c \in items : Closes(history, c, x)
      BY <3>1, <2>2 DEF AnsweringLedger, SettledLedger, Closings
    <3>3. c # q
      BY <1>1, <3>2 DEF Closes, ConfirmedLater
    <3>4. c = r => Closes(history, a, x)
      BY <1>6, <1>7, <3>2 DEF Closes, ConfirmedLater, AnswerTo
    <3> QED BY <3>2, <3>3, <3>4
  <2> QED BY <2>1, <2>2
<1>13. \A c \in T : IsCorrection(c) => Settles(c)
  BY <1>1, <1>3, <1>5, <1>6 DEF IsCorrection, AnsweringLedger, SettledLedger
<1>14. \A i \in T : i.id \in todo \ {r.id} => IsAnswer(history, i)
  <2>1. q.id \notin todo
    BY <1>1 DEF AnsweringLedger, IsAnswer
  <2> QED BY <1>5, <1>6, <2>1 DEF AnsweringLedger
<1> HIDE DEF T
<1>15. AnsweringLedger(history, T, todo \ {r.id})
  BY <1>8, <1>9, <1>11, <1>12, <1>13, <1>14 DEF AnsweringLedger, SettledLedger
<1> QED BY <1>15 DEF T, u, a

\* Merging items that differ in kind or text changes nothing.
LEMMA DistinctIsCanonical ==
  ASSUME NEW S, Typed(S), Distinct(S)
  PROVE  Canonicalize(S) = S
<1>1. ASSUME NEW i \in S, NEW m \in Canonicalize(S), Key(m) = Key(i) PROVE m = i
  <2>1. \A j \in S : Key(j) = Key(i) => j = i
    BY DEF Distinct
  <2>2. /\ m.id = Key(i) /\ m.kind = i.kind /\ m.text = i.text /\ m.spans = i.spans
        /\ m.status = i.status /\ m.tags = i.tags /\ m.supersedes = i.supersedes
        /\ m.conflicts = i.conflicts
    BY <1>1, <2>1, LoneItem
  <2>3. m \in Item /\ i \in Item /\ i.id = Key(i)
    BY MergedItem DEF Typed, Distinct
  <2> QED BY <2>2, <2>3 DEF Item
<1>2. \A m \in Canonicalize(S) : \E i \in S : Key(m) = Key(i)
  BY MergedItem
<1> QED BY <1>1, <1>2, TypedIsShaped, MergedOnce
-----------------------------------------------------------------------------
(* Conflicts.                                                              *)

\* What a mark leaves as it was.
Alike(i, j) ==
    /\ i.kind = j.kind /\ i.text = j.text /\ i.spans = j.spans /\ i.tags = j.tags
    /\ i.supersedes = j.supersedes
    /\ i.status = "superseded" <=> j.status = "superseded"

\* A conflict node retires nothing and is retired by nothing.
IsNode(i) ==
    /\ i.kind = "unresolved" /\ i.status = "active"
    /\ i.supersedes = {} /\ i.tags = {"detected-conflict"}

LEMMA MarkingSettles ==
  ASSUME NEW h, NEW S, NEW T, SettledLedger(h, S), Atomic(S), Typed(T),
         \A x \in T : x.text \in Text => \E i \in S : Alike(x, i),
         \A i \in S : \E x \in T : Alike(x, i),
         \A x, y \in T : x.text \in Text /\ Key(x) = Key(y) => x = y,
         \A x \in T : x.text \notin Text => IsNode(x)
  PROVE  SettledLedger(h, Canonicalize(T))
<1> DEFINE C == Canonicalize(T)
<1>1. /\ \A m \in C : m \in Item /\ m.spans # {} /\ m.id = Key(m)
      /\ Shaped(T)
  BY MergedItem, TypedIsShaped
<1>14. ASSUME NEW x \in T, NEW m \in C, Key(x) = Key(m)
       PROVE  x.text \in Text <=> m.text \in Text
  <2>1. x.text \in ItemText /\ m.text \in ItemText
    BY <1>1 DEF Typed, Item
  <2> QED BY <1>14, <2>1, SameSort DEF Key
<1>2. ASSUME NEW x \in T, x.text \in Text, NEW m \in C, Key(m) = Key(x)
      PROVE  Alike(m, x)
  BY <1>2, LoneItem DEF Alike
<1>3. ASSUME NEW m \in C, m.text \in Text PROVE \E i \in S : Alike(m, i)
  <2>1. PICK x \in T : Key(x) = Key(m)
    BY MergedItem
  <2>2. x.text \in Text
    BY <1>3, <1>14, <2>1
  <2>3. Alike(m, x)
    BY <1>2, <2>1, <2>2
  <2>4. PICK i \in S : Alike(x, i)
    BY <2>2
  <2> QED BY <2>3, <2>4 DEF Alike
<1>4. ASSUME NEW i \in S PROVE \E m \in C : Alike(m, i)
  <2>1. PICK x \in T : Alike(x, i)
    OBVIOUS
  <2>2. x.text \in Text
    BY <2>1 DEF Alike, Atomic
  <2>3. PICK m \in C : Key(m) = Key(x)
    BY <1>1, MergedOnce
  <2>4. Alike(m, x)
    BY <1>2, <2>2, <2>3
  <2> QED BY <2>1, <2>4 DEF Alike
<1>5. ASSUME NEW m \in C, m.text \notin Text
      PROVE  /\ m.kind = "unresolved" /\ m.status = "active"
             /\ m.supersedes = {} /\ m.tags \subseteq {"detected-conflict"}
  <2>1. \A x \in T : Key(x) = Key(m) => IsNode(x)
    BY <1>5, <1>14
  <2>2. PICK x \in T : Key(x) = Key(m) /\ x.status = m.status
    BY MergedItem
  <2>3. m.kind = "unresolved" /\ m.status = "active"
    BY <2>1, <2>2 DEF IsNode, Key
  <2>4. m.supersedes = {} /\ m.tags \subseteq {"detected-conflict"}
    BY <2>1, MergedItem DEF IsNode
  <2> QED BY <2>3, <2>4
<1>6. \A m, n \in C : Key(m) = Key(n) => m = n
  BY <1>1, MergedOnce
<1> HIDE DEF C
<1>7. ASSUME NEW m, NEW i, Alike(m, i)
      PROVE  /\ Key(m) = Key(i) /\ ReplacementKey(m) = ReplacementKey(i)
             /\ Seq(m) = Seq(i) /\ Roles(h, m) = Roles(h, i)
  BY <1>7 DEF Alike, Key, ReplacementKey, Seq, Sources, Roles
<1>8. Typed(C)
  BY <1>1 DEF Typed
<1>9. Distinct(C)
  <2>1. ASSUME NEW m \in C
        PROVE  /\ m.kind = "user_correction" => m.status # "superseded"
               /\ "resolves-protected" \in m.tags => m.kind = "confirmed_fact"
    <3>1. CASE m.text \notin Text
      BY <1>5, <3>1
    <3>2. CASE m.text \in Text
      BY <1>3, <3>2 DEF Alike, SettledLedger, Distinct
    <3> QED BY <3>1, <3>2
  <2> QED BY <1>1, <1>6, <2>1 DEF Distinct
<1>10. Reasons(C)
  <2> SUFFICES ASSUME NEW m \in C, m.status = "superseded" PROVE \E n \in C : RetiredBy(m, n)
    BY DEF Reasons
  <2>1. PICK i \in S : Alike(m, i)
    BY <1>3, <1>5
  <2>2. PICK c \in S : RetiredBy(i, c)
    BY <2>1 DEF Alike, SettledLedger, Reasons
  <2>3. PICK n \in C : Alike(n, c)
    BY <1>4
  <2>4. m.id = i.id
    BY <1>1, <1>7, <2>1 DEF SettledLedger, Distinct
  <2>5. Seq(n) > Seq(m) /\ ReplacementKey(m) = ReplacementKey(i)
    BY <1>7, <2>1, <2>2, <2>3 DEF RetiredBy
  <2>6. RetiredBy(m, n)
    BY <2>2, <2>3, <2>4, <2>5 DEF RetiredBy, Alike
  <2> QED BY <2>6
<1>11. Closings(h, C)
  <2> SUFFICES ASSUME NEW m \in C, m.kind = "unresolved", m.status = "superseded"
               PROVE  \E n \in C : Closes(h, n, m)
    BY DEF Closings
  <2>1. PICK i \in S : Alike(m, i)
    BY <1>3, <1>5
  <2>2. PICK c \in S : Closes(h, c, i)
    BY <2>1 DEF Alike, SettledLedger, Closings
  <2>3. PICK n \in C : Alike(n, c)
    BY <1>4
  <2>4. m.id = i.id /\ Seq(n) = Seq(c) /\ Seq(m) = Seq(i) /\ Roles(h, n) = Roles(h, c)
    BY <1>1, <1>7, <2>1, <2>3 DEF SettledLedger, Distinct
  <2>5. Closes(h, n, m)
    BY <2>1, <2>2, <2>3, <2>4 DEF Closes, ConfirmedLater, Alike, AnswerTo
  <2> QED BY <2>5
<1>12. \A c \in C : IsCorrection(c) => Settles(c)
  <2> SUFFICES ASSUME NEW c \in C, IsCorrection(c) PROVE Settles(c)
    OBVIOUS
  <2>1. PICK i \in S : Alike(c, i)
    BY <1>3, <1>5 DEF IsCorrection
  <2>2. Settles(i)
    BY <2>1 DEF Alike, IsCorrection, SettledLedger
  <2> QED BY <2>1, <2>2 DEF Settles, Alike
<1>13. SettledLedger(h, C)
  BY <1>8, <1>9, <1>10, <1>11, <1>12 DEF SettledLedger
<1> QED BY <1>13 DEF C

\* A mark changes the status of a current item, and its conflicts.
LEMMA MarkedIsAlike ==
  ASSUME items \subseteq Item, NEW i \in items
  PROVE  Marked(i) \in Item /\ Alike(Marked(i), i)
<1>1. IdsOf(Opponents(i)) \subseteq Id
  BY DEF IdsOf, Opponents, Item
<1>2. CASE Opponents(i) = {}
  BY <1>2 DEF Marked, Alike
<1>3. CASE Opponents(i) # {}
  <2>1. i.status = "active" /\ i \in Item
    BY <1>3 DEF Opponents, Contradicts
  <2>2. Marked(i) = [i EXCEPT !.status = "conflicting", !.conflicts = @ \cup IdsOf(Opponents(i))]
    BY <1>3 DEF Marked
  <2> HIDE DEF Marked
  <2>3. Marked(i) \in Item
    BY <1>1, <2>1, <2>2 DEF Item, Status
  <2>4. /\ Marked(i).kind = i.kind /\ Marked(i).text = i.text /\ Marked(i).spans = i.spans
        /\ Marked(i).tags = i.tags /\ Marked(i).supersedes = i.supersedes
        /\ Marked(i).status = "conflicting"
    BY <2>1, <2>2 DEF Item
  <2> QED BY <2>1, <2>3, <2>4 DEF Alike
<1> QED BY <1>2, <1>3

LEMMA NodeIsTyped ==
  ASSUME NEW l \in Item, NEW r \in Item, l.text \in Text, r.text \in Text, l.spans # {}
  PROVE  /\ ConflictNode(l, r) \in Item /\ ConflictNode(l, r).spans # {}
         /\ ConflictNode(l, r).text \notin Text /\ IsNode(ConflictNode(l, r))
<1> DEFINE n == ConflictNode(l, r)
<1>1. <<l.text, r.text>> \in Text \X Text
  OBVIOUS
<1>2. <<l.text, r.text>> \in ItemText /\ <<l.text, r.text>> \notin Text
  BY <1>1, LedgerAssumption DEF ItemText
<1>3. <<"unresolved", Norm[<<l.text, r.text>>]>> \in Id
  <2>1. Norm[<<l.text, r.text>>] \in ItemText
    BY <1>2, LedgerAssumption
  <2> QED BY <2>1 DEF Id, CanonicalId, Kind
<1>4. /\ n.spans = l.spans \cup r.spans /\ n.text = <<l.text, r.text>>
      /\ IsNode(n)
  BY DEF ConflictNode, IsNode
<1>5. n \in Item
  <2>1. {l.id, r.id} \subseteq Id /\ l.spans \cup r.spans \subseteq Place
    BY DEF Item
  <2> QED BY <1>2, <1>3, <2>1 DEF ConflictNode, Item, Kind, Status, Tag
<1> QED BY <1>2, <1>4, <1>5

\* Both sides of each pair are marked, and a node quotes them.
LEMMA MarkedSettles ==
  ASSUME AnsweringLedger(history, items, todo), NEW left \in [Pairs -> items],
         \A pair \in Pairs : left[pair] \in pair
  PROVE  SettledLedger(history,
            Canonicalize({Marked(i) : i \in items}
                           \cup {ConflictNode(left[pair], CHOOSE i \in pair : i # left[pair])
                                    : pair \in Pairs}))
<1> DEFINE right(pair) == CHOOSE i \in pair : i # left[pair]
           M == {Marked(i) : i \in items}
           N == {ConflictNode(left[pair], right(pair)) : pair \in Pairs}
<1>1. SettledLedger(history, items) /\ Atomic(items) /\ Typed(items) /\ Distinct(items)
  BY DEF AnsweringLedger, SettledLedger
<1>2. \A i \in items : Marked(i) \in Item /\ Alike(Marked(i), i)
  BY <1>1, MarkedIsAlike DEF Typed
<1>3. ASSUME NEW pair \in Pairs PROVE left[pair] \in items /\ right(pair) \in items
  <2>1. PICK y \in items \X items : Contradicts(y[1], y[2]) /\ pair = {y[1], y[2]}
    BY DEF Pairs
  <2>2. y[1] \in items /\ y[2] \in items /\ y[1] # y[2]
    BY <2>1 DEF Contradicts
  <2>3. \E i \in pair : i # left[pair]
    BY <2>1, <2>2
  <2> QED BY <2>1, <2>2, <2>3
<1>4. ASSUME NEW n \in N
      PROVE  n \in Item /\ n.spans # {} /\ n.text \notin Text /\ IsNode(n)
  <2>1. PICK pair \in Pairs : n = ConflictNode(left[pair], right(pair))
    OBVIOUS
  <2>2. left[pair] \in items /\ right(pair) \in items
    BY <1>3
  <2> HIDE DEF right
  <2> QED BY <1>1, <2>1, <2>2, NodeIsTyped DEF Typed, Atomic
<1>5. ASSUME NEW x \in M PROVE \E i \in items : x = Marked(i) /\ x \in Item /\ Alike(x, i)
  BY <1>2
<1> HIDE DEF N
<1>6. Typed(M \cup N)
  <2>1. \A x \in M : x \in Item /\ x.spans # {}
    BY <1>1, <1>5 DEF Typed, Alike
  <2> HIDE DEF M
  <2> QED BY <1>4, <2>1 DEF Typed
<1>7. \A x \in M \cup N : x.text \in Text => \E i \in items : Alike(x, i)
  BY <1>4, <1>5
<1>8. \A i \in items : \E x \in M \cup N : Alike(x, i)
  BY <1>2
<1>9. \A x, y \in M \cup N : x.text \in Text /\ Key(x) = Key(y) => x = y
  <2> SUFFICES ASSUME NEW x \in M \cup N, NEW y \in M \cup N, x.text \in Text, Key(x) = Key(y)
               PROVE  x = y
    OBVIOUS
  <2>0. x.text \in ItemText /\ y.text \in ItemText /\ Norm[x.text] = Norm[y.text]
    BY <1>4, <1>5 DEF Item, Key
  <2>1. x \in M /\ y \in M
    BY <1>4, <2>0, SameSort
  <2>2. PICK i \in items : x = Marked(i) /\ Alike(x, i)
    BY <1>5, <2>1
  <2>3. PICK j \in items : y = Marked(j) /\ Alike(y, j)
    BY <1>5, <2>1
  <2>4. Key(i) = Key(j)
    BY <2>2, <2>3 DEF Alike, Key
  <2> QED BY <1>1, <2>2, <2>3, <2>4 DEF Distinct
<1>10. \A x \in M \cup N : x.text \notin Text => IsNode(x)
  BY <1>1, <1>4, <1>5 DEF Alike, Atomic
<1> HIDE DEF M
<1>11. SettledLedger(history, Canonicalize(M \cup N))
  BY <1>1, <1>6, <1>7, <1>8, <1>9, <1>10, MarkingSettles
<1> QED BY <1>11 DEF M, N
-----------------------------------------------------------------------------
(* The whole compilation.                                                  *)

LEMMA LedgerIsTyped ==
  ASSUME NEW h, NEW ph \in Phase, NEW S, NEW ids, LedgerAt(h, ph, S, ids)
  PROVE  S \subseteq Item /\ ids \subseteq Id
<1>1. {"user_correction"} \X Text \subseteq Id
  BY DEF Id, CanonicalId, ItemText, Kind
<1>2. CASE ph \in {"extract", "recover", "canonicalize"}
  BY <1>2 DEF LedgerAt, RawLedger, Typed
<1>3. CASE ph = "corrections"
  BY <1>1, <1>3 DEF LedgerAt, CorrectingLedger, Typed
<1>4. CASE ph \in {"questions", "conflicts"}
  BY <1>4 DEF LedgerAt, AnsweringLedger, SettledLedger, Typed
<1>5. CASE ph \in {"select", "verify", "done"}
  BY <1>5 DEF LedgerAt, SettledLedger, Typed
<1>6. CASE ph = "refused"
  BY <1>6 DEF LedgerAt
<1> QED BY <1>2, <1>3, <1>4, <1>5, <1>6 DEF Phase

\* A refused compilation has no ledger.
LEMMA RaiseResolves ==
  ASSUME ResolutionInv, Raise
  PROVE  ResolutionInv'
BY DEF ResolutionInv, TypeOK, LedgerAt, Raise, Phase

\* A collection that the next phase can start from, or none.
LEMMA ContinueResolves ==
  ASSUME ResolutionInv, NEW S, NEW next \in Phase, NEW ids, Continue(S, next, ids),
         LedgerAt(history, next, S, ids)
  PROVE  ResolutionInv'
<1>1. CASE items' = S /\ phase' = next /\ todo' = ids /\ UNCHANGED <<history, selected, issues>>
  <2>1. S \subseteq Item /\ ids \subseteq Id
    BY LedgerIsTyped
  <2> QED BY <1>1, <2>1 DEF ResolutionInv, TypeOK
<1>2. CASE Raise
  BY <1>2, RaiseResolves
<1> QED BY <1>1, <1>2 DEF Continue

LEMMA RawTogether ==
  ASSUME NEW S, RawLedger(S), NEW T, RawLedger(T)
  PROVE  RawLedger(S \cup T)
BY DEF RawLedger, Typed, Atomic

LEMMA ExtractionResolves ==
  ASSUME ResolutionInv, ExtractByRules \/ ExtractByModel \/ Recover \/ Begin
  PROVE  ResolutionInv'
<1>1. RawLedger(Rules(history))
  BY RulesAreRaw DEF ResolutionInv, TypeOK
<1>2. phase \in {"extract", "recover", "canonicalize"} => RawLedger(items)
  BY DEF ResolutionInv, LedgerAt
<1>3. CASE ExtractByRules
  <2>1. LedgerAt(history, "recover", Rules(history), {})
    BY <1>1 DEF LedgerAt
  <2> QED BY <1>3, <2>1, ContinueResolves DEF ExtractByRules, Phase
<1>4. CASE ExtractByModel
  <2>1. PICK found \in SUBSET Rules(history) :
               Continue({ByModel(i) : i \in found}, "recover", {})
    BY <1>4 DEF ExtractByModel
  <2>2. RawLedger(found)
    BY <1>1 DEF RawLedger, Typed, Atomic
  <2>3. LedgerAt(history, "recover", {ByModel(i) : i \in found}, {})
    BY <2>2, ModelIsRaw DEF LedgerAt
  <2> QED BY <2>1, <2>3, ContinueResolves DEF Phase
<1>5. CASE Recover
  <2> DEFINE missed == {c \in Rules(history) : ~CoveredIn(c, items)}
  <2>1. RawLedger(missed)
    BY <1>1 DEF RawLedger, Typed, Atomic
  <2>2. RawLedger(items)
    BY <1>2, <1>5 DEF Recover
  <2>3. LedgerAt(history, "canonicalize", items \cup missed, {})
    BY <2>1, <2>2, RawTogether DEF LedgerAt
  <2>4. Continue(items \cup missed, "canonicalize", {})
    BY <1>5 DEF Recover
  <2> HIDE DEF missed
  <2> QED BY <2>3, <2>4, ContinueResolves DEF Phase
<1>6. CASE Begin
  <2> DEFINE S == Canonicalize(items)
             ids == IdsOf(Corrections(S))
  <2>1. RawLedger(items)
    BY <1>2, <1>6 DEF Begin
  <2>2. LedgerAt(history, "corrections", S, ids)
    BY <2>1, BeginsCorrecting DEF LedgerAt
  <2>3. Continue(S, "corrections", ids)
    BY <1>6 DEF Begin
  <2> HIDE DEF S, ids
  <2> QED BY <2>2, <2>3, ContinueResolves DEF Phase
<1> QED BY <1>3, <1>4, <1>5, <1>6

LEMMA CorrectionResolves ==
  ASSUME ResolutionInv, NEW c \in items, NEW S, Done(c, S), phase = "corrections",
         CorrectingLedger(S, todo \ {c.id})
  PROVE  ResolutionInv'
<1>1. LedgerAt(history, "corrections", S, todo \ {c.id})
  BY DEF LedgerAt
<1> QED BY <1>1, ContinueResolves DEF Done, Phase

LEMMA CorrectionsResolve ==
  ASSUME ResolutionInv, NEW c \in items,
         \/ SkipUnmarked(c) \/ KeepAsClarification(c) \/ KeepAsAmbiguous(c)
         \/ \E p \in items : Revoke(c, p) \/ LinkCurrentValue(c, p) \/ AppendReplacement(c, p)
  PROVE  ResolutionInv'
<1>1. phase = "corrections" /\ c.id \in todo
  BY DEF SkipUnmarked, KeepAsClarification, KeepAsAmbiguous, Revoke, LinkCurrentValue,
         AppendReplacement, Correct, TryCorrection, IsNext
<1>2. CorrectingLedger(items, todo)
  BY <1>1 DEF ResolutionInv, LedgerAt
<1>3. CASE SkipUnmarked(c)
  <2>1. CorrectingLedger(items, todo \ {c.id})
    BY <1>2, <1>3, SkippedKeeps
  <2> QED BY <1>1, <1>3, <2>1, CorrectionResolves DEF SkipUnmarked
<1>4. CASE KeepAsClarification(c)
  <2>1. CorrectingLedger((items \ {c}) \cup {Tagged(c, "additive-clarification")},
                         todo \ {c.id})
    BY <1>1, <1>2, KeptKeeps
  <2> QED BY <1>1, <1>4, <2>1, CorrectionResolves DEF KeepAsClarification
<1>5. CASE KeepAsAmbiguous(c)
  <2>1. CorrectingLedger((items \ {c}) \cup {Tagged(c, "ambiguous-supersession")},
                         todo \ {c.id})
    BY <1>1, <1>2, KeptKeeps
  <2> QED BY <1>1, <1>5, <2>1, CorrectionResolves DEF KeepAsAmbiguous
<1>6. ASSUME NEW p \in items, Revoke(c, p) PROVE ResolutionInv'
  <2>1. CorrectingLedger(Settled(c, p), todo \ {c.id})
    BY <1>2, <1>6, RevokedKeeps DEF Revoke
  <2> QED BY <1>1, <1>6, <2>1, CorrectionResolves DEF Revoke
<1>7. ASSUME NEW p \in items, LinkCurrentValue(c, p) PROVE ResolutionInv'
  <2>1. PICK r \in CurrentValues(c, p) :
               Done(c, (Settled(c, p) \ {r}) \cup {Linked(r, p.id)})
    BY <1>7 DEF LinkCurrentValue
  <2>2. CorrectingLedger((Settled(c, p) \ {r}) \cup {Linked(r, p.id)}, todo \ {c.id})
    BY <1>2, <1>7, LinkedKeeps DEF LinkCurrentValue
  <2> QED BY <1>1, <2>1, <2>2, CorrectionResolves
<1>8. ASSUME NEW p \in items, AppendReplacement(c, p) PROVE ResolutionInv'
  <2>1. CorrectingLedger(Settled(c, p) \cup {Replacement(c, p)}, todo \ {c.id})
    BY <1>2, <1>8, AppendedKeeps DEF AppendReplacement
  <2> QED BY <1>1, <1>8, <2>1, CorrectionResolves DEF AppendReplacement
<1> QED BY <1>3, <1>4, <1>5, <1>6, <1>7, <1>8

LEMMA EndCorrectionsResolves ==
  ASSUME ResolutionInv, EndCorrections
  PROVE  ResolutionInv'
<1> DEFINE S == Canonicalize(items)
           ids == IdsOf(Answers(S))
<1>1. CorrectingLedger(items, {}) /\ Continue(S, "questions", ids)
  BY DEF EndCorrections, ResolutionInv, LedgerAt
<1>2. LedgerAt(history, "questions", S, ids)
  BY <1>1, BeginsAnswering DEF LedgerAt
<1> HIDE DEF S, ids
<1> QED BY <1>1, <1>2, ContinueResolves DEF Phase

LEMMA AnswersResolve ==
  ASSUME ResolutionInv, NEW r \in items, LeaveOpen(r) \/ \E q \in items : Close(r, q)
  PROVE  ResolutionInv'
<1>1. phase = "questions" /\ r.id \in todo
  BY DEF LeaveOpen, Close, TryAnswer, IsNext
<1>2. AnsweringLedger(history, items, todo)
  BY <1>1 DEF ResolutionInv, LedgerAt
<1>3. CASE LeaveOpen(r)
  <2>1. LedgerAt(history, "questions", items, todo \ {r.id})
    BY <1>2 DEF LedgerAt, AnsweringLedger
  <2> QED BY <1>3, <2>1, ContinueResolves DEF LeaveOpen, Phase
<1>4. ASSUME NEW q \in items, Close(r, q) PROVE ResolutionInv'
  <2> DEFINE T == (items \ {r, q})
                     \cup {[q EXCEPT !.status = "superseded"],
                           Tagged(Linked(r, q.id), "resolves-protected")}
  <2>1. q \in Answered(r) /\ Continue(T, "questions", todo \ {r.id})
    BY <1>4 DEF Close
  <2>2. AnsweringLedger(history, T, todo \ {r.id})
    BY <1>1, <1>2, <2>1, CloseKeeps
  <2> HIDE DEF T
  <2>3. LedgerAt(history, "questions", T, todo \ {r.id})
    BY <2>2 DEF LedgerAt
  <2> QED BY <2>1, <2>3, ContinueResolves DEF Phase
<1> QED BY <1>3, <1>4

LEMMA EndAnswersResolves ==
  ASSUME ResolutionInv, EndAnswers
  PROVE  ResolutionInv'
<1>1. AnsweringLedger(history, items, {}) /\ Continue(Canonicalize(items), "conflicts", {})
  BY DEF EndAnswers, ResolutionInv, LedgerAt
<1>2. Canonicalize(items) = items
  BY <1>1, DistinctIsCanonical DEF AnsweringLedger, SettledLedger
<1>3. LedgerAt(history, "conflicts", items, {})
  BY <1>1 DEF LedgerAt
<1> QED BY <1>1, <1>2, <1>3, ContinueResolves DEF Phase

LEMMA MarkConflictsResolves ==
  ASSUME ResolutionInv, MarkConflicts
  PROVE  ResolutionInv'
<1> DEFINE Both(left) == {Marked(i) : i \in items}
                            \cup {ConflictNode(left[pair], CHOOSE i \in pair : i # left[pair])
                                     : pair \in Pairs}
<1>1. PICK left \in [Pairs -> items] :
             /\ \A pair \in Pairs : left[pair] \in pair
             /\ Raise \/ Continue(Canonicalize(Both(left)), "select", {})
  BY DEF MarkConflicts
<1>2. AnsweringLedger(history, items, todo)
  BY DEF MarkConflicts, ResolutionInv, LedgerAt
<1>3. SettledLedger(history, Canonicalize(Both(left)))
  BY <1>1, <1>2, MarkedSettles
<1> HIDE DEF Both
<1>4. LedgerAt(history, "select", Canonicalize(Both(left)), {})
  BY <1>3 DEF LedgerAt
<1>5. CASE Raise
  BY <1>5, RaiseResolves
<1>6. CASE Continue(Canonicalize(Both(left)), "select", {})
  BY <1>4, <1>6, ContinueResolves DEF Phase
<1> QED BY <1>1, <1>5, <1>6

LEMMA SelectResolves ==
  ASSUME ResolutionInv, Select
  PROVE  ResolutionInv'
<1>1. PICK chosen \in SUBSET items : selected' = IdsOf(chosen)
  BY DEF Select
<1>2. selected' \subseteq Id
  BY <1>1 DEF IdsOf, ResolutionInv, TypeOK, Item
<1> QED BY <1>2 DEF Select, ResolutionInv, TypeOK, LedgerAt, Phase

LEMMA VerifyResolves ==
  ASSUME ResolutionInv, Verify
  PROVE  ResolutionInv'
<1>1. Issues(history, items, selected) \subseteq IssueCode
  BY DEF Issues, Where, IssueCode
<1> QED BY <1>1 DEF Verify, ResolutionInv, TypeOK, LedgerAt, Phase

\* Before anything is extracted.
THEOREM InitResolution == Init => ResolutionInv
<1> SUFFICES ASSUME Init PROVE ResolutionInv
  OBVIOUS
<1>1. history \in [Source -> [role : Role, says : SUBSET Statement]]
  BY HistoryType DEF Init
<1>2. RawLedger({})
  BY DEF RawLedger, Typed, Atomic
<1> QED BY <1>1, <1>2 DEF Init, ResolutionInv, TypeOK, LedgerAt, Phase

\* Every phase and every pass of resolve_temporal_state() preserves ResolutionInv.
THEOREM StepResolution == ResolutionInv /\ [Next]_vars => ResolutionInv'
<1> SUFFICES ASSUME ResolutionInv, [Next]_vars PROVE ResolutionInv'
  OBVIOUS
<1>1. CASE ExtractByRules \/ ExtractByModel \/ Recover \/ Begin
  BY <1>1, ExtractionResolves
<1>2. CASE Resolve
  <2>1. CASE \E c \in items :
               \/ SkipUnmarked(c) \/ KeepAsClarification(c) \/ KeepAsAmbiguous(c)
               \/ \E p \in items : \/ Revoke(c, p) \/ LinkCurrentValue(c, p)
                                   \/ AppendReplacement(c, p)
    BY <2>1, CorrectionsResolve
  <2>2. CASE \E r \in items : LeaveOpen(r) \/ \E q \in items : Close(r, q)
    BY <2>2, AnswersResolve
  <2>3. CASE EndCorrections
    BY <2>3, EndCorrectionsResolves
  <2>4. CASE EndAnswers
    BY <2>4, EndAnswersResolves
  <2>5. CASE MarkConflicts
    BY <2>5, MarkConflictsResolves
  <2> QED BY <1>2, <2>1, <2>2, <2>3, <2>4, <2>5 DEF Resolve
<1>3. CASE Select
  BY <1>3, SelectResolves
<1>4. CASE Verify
  BY <1>4, VerifyResolves
<1>5. CASE ExceedBudget
  BY <1>5, RaiseResolves DEF ExceedBudget
<1>6. CASE UNCHANGED vars
  BY <1>6 DEF vars, ResolutionInv, TypeOK
<1> QED BY <1>1, <1>2, <1>3, <1>4, <1>5, <1>6 DEF Next

THEOREM SpecResolution == Spec => []ResolutionInv
BY InitResolution, StepResolution, PTL DEF Spec

\* Ledger, work list, selection and report keep their types in every phase.
THEOREM LedgerTypes == Spec => []TypeOK
<1>1. ResolutionInv => TypeOK
  BY DEF ResolutionInv
<1> QED BY <1>1, SpecResolution, PTL

\* No phase retires an item without a later, unretired correction or answer that
\* names it, and no later merge or mark takes that reason away.
THEOREM NothingRetiredWithoutReason == Spec => []RetiredForAReason
<1>1. ResolutionInv => RetiredForAReason
  <2> SUFFICES ASSUME ResolutionInv PROVE Reasons(items)
    BY DEF RetiredForAReason, Reasons, RetiredBy, ReplacementKey
  <2>1. LedgerAt(history, phase, items, todo) /\ phase \in Phase
    BY DEF ResolutionInv, TypeOK
  <2>2. CASE phase \in {"extract", "recover", "canonicalize"}
    BY <2>1, <2>2 DEF LedgerAt, RawLedger, Reasons
  <2>3. CASE phase = "corrections"
    BY <2>1, <2>3 DEF LedgerAt, CorrectingLedger
  <2>4. CASE phase \in {"questions", "conflicts"}
    BY <2>1, <2>4 DEF LedgerAt, AnsweringLedger, SettledLedger
  <2>5. CASE phase \in {"select", "verify", "done"}
    BY <2>1, <2>5 DEF LedgerAt, SettledLedger
  <2>6. CASE phase = "refused"
    BY <2>1, <2>6 DEF LedgerAt, Reasons
  <2> QED BY <2>1, <2>2, <2>3, <2>4, <2>5, <2>6 DEF Phase
<1> QED BY <1>1, SpecResolution, PTL

\* A resolved ledger shows no closed question without the later confirmation of
\* participants only that answers it well enough.
THEOREM QuestionsClosedByParticipants == Spec => []ClosedByAParticipant
<1>1. ResolutionInv => ClosedByAParticipant
  BY DEF ResolutionInv, LedgerAt, SettledLedger, Closings, Closes,
         ClosedByAParticipant, Resolved
<1> QED BY <1>1, SpecResolution, PTL

\* No correction of a resolved ledger is left without a link or a tag that says
\* what became of it.
THEOREM CorrectionsSettled == Spec => []EveryCorrectionIsSettled
<1>1. ResolutionInv => EveryCorrectionIsSettled
  BY DEF ResolutionInv, LedgerAt, SettledLedger, Settles,
         EveryCorrectionIsSettled, Resolved
<1> QED BY <1>1, SpecResolution, PTL
-----------------------------------------------------------------------------
(* Ordinary histories.                                                     *)

\* i is the value that the correction s carries or makes.
IsValueOf(i, s) ==
    /\ s.kind = "user_correction" /\ i.text = s.text
    /\ i.kind \notin {"user_correction", "exact_reference"}
IsValue(h, i) == \E s \in SaidIn(h) : IsValueOf(i, s)

\* t is confirmed where it is said, and not uncertain.
Stands(h, t) == t \notin Uncertain /\ \E s \in SaidIn(h) : s.text = t /\ s.evidenced

\* i is what one statement says, or a value of it.
Grounded(h, i) ==
    /\ i.conflicts = {} /\ i.status # "conflicting" /\ "detected-conflict" \notin i.tags
    /\ i.kind = "exact_reference" => "exact" \in i.tags
    /\ i.kind = "confirmed_fact" => Stands(h, i.text)
    /\ \E n \in Source : \E s \in h[n].says :
          i.text = s.text /\ i.spans = {<<n, s.text>>} /\ (i.kind = s.kind \/ IsValueOf(i, s))

\* A value is of the kind its statement has it, or of the kind of the one item
\* that its correction replaces.
MadeFor(h, S, i, s) ==
    /\ i.text \notin Revokes
    /\ \E u \in SaidIn(h) :
          /\ Replaces(s, u) /\ u.kind = i.kind
          /\ \E c \in S : /\ c.kind = "user_correction" /\ c.text = i.text
                          /\ c.supersedes = {Key(u)}
OfItsKind(h, S, i) ==
    \A s \in SaidIn(h) : IsValueOf(i, s) => i.kind = s.twin \/ MadeFor(h, S, i, s)

\* A tagged value has its correction.
Backed(S, i) ==
    "correction-derived" \in i.tags =>
       /\ i.kind # "user_correction"
       /\ \E c \in S : IsCorrection(c) /\ c.text = i.text

OrdinaryLedger(h, S) ==
    \A i \in S : Grounded(h, i) /\ OfItsKind(h, S, i) /\ Backed(S, i)

\* As extracted: a value, and a tag that says so, is its statement's.
RawOrdinary(h, S) ==
    \A i \in S :
       /\ Grounded(h, i)
       /\ \A s \in SaidIn(h) : IsValueOf(i, s) => i.kind = s.twin
       /\ "correction-derived" \in i.tags =>
             \E s \in SaidIn(h) : IsValueOf(i, s) /\ s.twin # None

\* j is retired and older than i.
Older(i, j) == j.status = "superseded" /\ Seq(j) < Seq(i)

\* c replaces i, and the verifier sees how.
Replaced(c, i) ==
    /\ IsCorrection(c) /\ Key(i) \in c.supersedes /\ Seq(c) > Seq(i)
    /\ SupportsCorrection(c, i)

\* While corrections are resolved: only values share a kind and text, and only
\* what is no value is replaced.
CorrectingOrdinary(h, S, ids) ==
    /\ OrdinaryLedger(h, S)
    /\ \A i \in S : ~IsValue(h, i) =>
          i.id = Key(i) /\ \A j \in S : Key(i) = Key(j) => i = j
    /\ \A i \in S : i.status = "superseded" =>
          ~IsValue(h, i) /\ \E c \in S : Replaced(c, i)
    /\ \A i \in S : \A t \in i.supersedes :
          /\ i.kind = "user_correction" \/ IsValue(h, i)
          /\ \E j \in S : ~IsValue(h, j) /\ Key(j) = t /\ Older(i, j)
    /\ \A c \in S : c.kind = "user_correction" /\ c.id \in ids => c.supersedes = {}

\* From then on: what is retired has its reason, what is linked is retired, and
\* an answer closes one question.
RetiredWell(h, S, i) ==
    i.status = "superseded" =>
       \E c \in S : /\ i.id \in c.supersedes /\ c.status # "superseded"
                    /\ ValidRetirement(h, c, i)
LinkedWell(S, i) == \A t \in i.supersedes : \E j \in S : j.id = t /\ Older(i, j)
ResolvesWell(h, S, i) ==
    "resolves-protected" \in i.tags =>
       \E q \in S : i.supersedes = {q.id} /\ ValidResolutionEdge(h, i, q)
AnsweringOrdinary(h, S, ids) ==
    /\ OrdinaryLedger(h, S)
    /\ \A i \in S : /\ RetiredWell(h, S, i) /\ LinkedWell(S, i) /\ ResolvesWell(h, S, i)
                    /\ i.id \in ids => i.supersedes = {}

\* What the verifier requires of each item.
Verifies(h, S, i) ==
    /\ ~InvalidSupersessionEdge(i, S) /\ ~InvalidSupersessionOrder(i, S)
    /\ ~InvalidConflictEdge(i, S) /\ ~InvalidInternalConflict(i, S)
    /\ ~InvalidCorrectionDerived(i, S) /\ ~InvalidProtectedResolution(h, i, S)
    /\ ~OrphanedSupersededItem(h, i, S) /\ ~UnauthorizedSource(h, i)
    /\ ~FactWithoutEvidence(h, i) /\ ~UncertainFact(i)
    /\ ~ExactnessDisabled(i) /\ ~LiteralChanged(i)

\* No atom is spelled as no source has it.
AsSaid(h, S) ==
    \A i \in S : i.text \in Text => \E s \in SaidIn(h) : s.text = i.text

\* The selection has all that is protected and current, and nothing retired.
SelectedWell(S, chosen) ==
    \A i \in S : /\ i.id \in chosen => i.status # "superseded"
                 /\ IsProtected(i) /\ i.status # "superseded" => i.id \in chosen

OrdinaryAt(h, ph, S, ids, chosen, found) ==
    /\ ph \in {"extract", "recover", "canonicalize"} => RawOrdinary(h, S)
    /\ ph = "corrections" => CorrectingOrdinary(h, S, ids)
    /\ ph \in {"questions", "conflicts"} => AnsweringOrdinary(h, S, ids)
    /\ ph \in {"select", "verify"} =>
          AsSaid(h, S) /\ \A i \in S : Verifies(h, S, i)
    /\ ph = "verify" => SelectedWell(S, chosen)
    /\ ph = "done" => found = {}

OrdinaryInv ==
    /\ history \in Histories
    /\ Ordinary(history) => OrdinaryAt(history, phase, items, todo, selected, issues)

-----------------------------------------------------------------------------
\* What a record of a history says, its role may say.
LEMMA HistoryRecords ==
  ASSUME NEW h \in Histories, NEW n \in Source, NEW s \in h[n].says
  PROVE  /\ h[n].role \in Role /\ MayAuthor(h[n].role, s.kind)
         /\ s \in Statement /\ s \in Classified /\ s \in SaidIn(h)
<1>1. h[n] \in Records
  BY DEF Histories
<1>2. PICK role \in Role : h[n] \in {[role |-> role, says |-> says] : says \in MaySay(role)}
  BY <1>1 DEF Records
<1>3. h[n].role = role /\ h[n].says \in MaySay(role)
  BY <1>2
<1>4. h[n].role \in Role /\ MayAuthor(h[n].role, s.kind) /\ s \in Statement
  BY <1>3 DEF MaySay
<1> QED BY <1>4, LedgerAssumption DEF SaidIn

\* An item of one source has its position.
LEMMA PositionOfOne ==
  ASSUME NEW n \in Source, NEW t, NEW i, i.spans = {<<n, t>>}
  PROVE  Seq(i) = n
<1>1. Sources(i) = {n}
  BY DEF Sources
<1> QED BY <1>1, SeqIsGreatest

\* An item has one statement and one source.
LEMMA OneStatement ==
  ASSUME NEW h, SaidOnce(h), NEW i, Grounded(h, i)
  PROVE  /\ Seq(i) \in Source /\ i.spans = {<<Seq(i), i.text>>}
         /\ \E s \in h[Seq(i)].says :
               /\ s \in SaidIn(h) /\ s.text = i.text
               /\ i.kind = s.kind \/ IsValueOf(i, s)
               /\ \A t \in SaidIn(h) : Norm[t.text] = Norm[i.text] => t = s
<1>1. PICK n \in Source : \E s \in h[n].says :
         i.text = s.text /\ i.spans = {<<n, s.text>>} /\ (i.kind = s.kind \/ IsValueOf(i, s))
  BY DEF Grounded
<1>2. Seq(i) = n
  BY <1>1, PositionOfOne
<1>3. PICK s \in h[n].says :
         i.text = s.text /\ i.spans = {<<n, s.text>>} /\ (i.kind = s.kind \/ IsValueOf(i, s))
  BY <1>1
<1>4. \A t \in SaidIn(h) : Norm[t.text] = Norm[i.text] => t = s
  BY <1>3 DEF SaidIn, SaidOnce
<1>5. s \in SaidIn(h)
  BY <1>3 DEF SaidIn
<1> QED BY <1>2, <1>3, <1>4, <1>5

\* Items with one meaning have one text, of one source.
LEMMA OneSource ==
  ASSUME NEW h, SaidOnce(h), NEW i, Grounded(h, i), NEW j, Grounded(h, j),
         Norm[i.text] = Norm[j.text]
  PROVE  i.text = j.text /\ i.spans = j.spans /\ Seq(i) = Seq(j)
<1>1. PICK s \in h[Seq(i)].says : s \in SaidIn(h) /\ s.text = i.text
  BY OneStatement
<1>2. PICK t \in h[Seq(j)].says : t \in SaidIn(h) /\ t.text = j.text
  BY OneStatement
<1>3. /\ Seq(i) \in Source /\ Seq(j) \in Source
      /\ i.spans = {<<Seq(i), i.text>>} /\ j.spans = {<<Seq(j), j.text>>}
  BY OneStatement
<1>4. Seq(i) = Seq(j) /\ s = t
  BY <1>1, <1>2, <1>3 DEF SaidOnce
<1> QED BY <1>1, <1>2, <1>3, <1>4

\* A correction of the ledger is one that its source says.
LEMMA CorrectionIsSaid ==
  ASSUME NEW h \in Histories, SaidOnce(h), NEW c, Grounded(h, c), c.kind = "user_correction"
  PROVE  /\ \E s \in SaidIn(h) : s.kind = "user_correction" /\ s.text = c.text
         /\ CoveredIn(c, Certification(h))
<1>1. PICK s \in h[Seq(c)].says :
         s \in SaidIn(h) /\ s.text = c.text /\ (c.kind = s.kind \/ IsValueOf(c, s))
  BY OneStatement
<1>2. Seq(c) \in Source /\ c.spans = {<<Seq(c), c.text>>}
  BY OneStatement
<1>3. s.kind = "user_correction"
  BY <1>1 DEF IsValueOf
<1> DEFINE a == Atom(s, Seq(c))
<1>4. a.kind = c.kind /\ a.text = c.text /\ a.spans = c.spans
  BY <1>1, <1>2, <1>3 DEF Atom, Extracted
<1>5. a \in Rules(h)
  BY <1>1, <1>2 DEF Rules, FromSource
<1>6. a \in Certification(h)
  BY <1>4, <1>5 DEF Certification, Protected
<1> HIDE DEF a
<1>7. CoveredIn(c, Certification(h))
  BY <1>4, <1>6 DEF CoveredIn, Covers
<1> QED BY <1>1, <1>3, <1>7

\* What no correction makes is of the kind its source has it.
LEMMA PlainIsSaid ==
  ASSUME NEW h, SaidOnce(h), NEW i, Grounded(h, i), ~IsValue(h, i)
  PROVE  \E s \in h[Seq(i)].says : s \in SaidIn(h) /\ s.text = i.text /\ s.kind = i.kind
BY OneStatement DEF IsValue
-----------------------------------------------------------------------------
(* Extraction from an ordinary history.                                    *)

\* What the rules find in an ordinary history is ordinary,
LEMMA RulesAreOrdinary ==
  ASSUME NEW h \in Histories, SaidOnce(h), FactsStand(h)
  PROVE  RawOrdinary(h, Rules(h))
<1> SUFFICES ASSUME NEW n \in Source, NEW s \in h[n].says
             PROVE  /\ RawOrdinary(h, {Atom(s, n)})
                    /\ s.twin # None => RawOrdinary(h, {Twin(s, n)})
  BY DEF RawOrdinary, Rules, FromSource
<1>1. s \in Statement /\ s \in Classified /\ s \in SaidIn(h)
  BY HistoryRecords
<1>2. /\ s.twin # None => s.kind = "user_correction"
      /\ s.twin \in {None, "constraint", "unresolved", "confirmed_fact", "decision"}
      /\ "confirmed_fact" \in {s.kind, s.twin} => Stands(h, s.text)
  BY <1>1, LedgerAssumption DEF FactsStand, Stands
<1>3. \A t \in SaidIn(h) : t.text = s.text => t = s
  BY <1>1 DEF SaidIn, SaidOnce
<1>4. RawOrdinary(h, {Atom(s, n)})
  <2> DEFINE i == Atom(s, n)
  <2>1. /\ i.text = s.text /\ i.kind = s.kind /\ i.spans = {<<n, s.text>>} /\ i.conflicts = {}
        /\ i.status = "active"
        /\ i.kind = "exact_reference" => "exact" \in i.tags
        /\ "detected-conflict" \notin i.tags /\ "correction-derived" \notin i.tags
    BY DEF Atom, Extracted
  <2> HIDE DEF i
  <2>2. Grounded(h, i)
    BY <1>2, <2>1 DEF Grounded
  <2>3. \A t \in SaidIn(h) : ~IsValueOf(i, t)
    BY <1>3, <2>1 DEF IsValueOf
  <2>4. RawOrdinary(h, {i})
    BY <2>1, <2>2, <2>3 DEF RawOrdinary
  <2> QED BY <2>4 DEF i
<1>5. ASSUME s.twin # None PROVE RawOrdinary(h, {Twin(s, n)})
  <2> DEFINE i == Twin(s, n)
  <2>1. /\ i.text = s.text /\ i.kind = s.twin /\ i.spans = {<<n, s.text>>} /\ i.conflicts = {}
        /\ i.status = "active" /\ i.tags = {"correction-derived"}
    BY DEF Twin, Extracted
  <2> HIDE DEF i
  <2>2. s.twin \in {"constraint", "unresolved", "confirmed_fact", "decision"}
    BY <1>2, <1>5
  <2>3. IsValueOf(i, s)
    BY <1>2, <1>5, <2>1, <2>2 DEF IsValueOf
  <2>4. Grounded(h, i)
    BY <1>2, <2>1, <2>2, <2>3 DEF Grounded
  <2>5. \A t \in SaidIn(h) : IsValueOf(i, t) => t = s
    BY <1>3, <2>1 DEF IsValueOf
  <2>6. RawOrdinary(h, {i})
    BY <1>1, <1>5, <2>1, <2>3, <2>4, <2>5 DEF RawOrdinary
  <2> QED BY <2>6 DEF i
<1> QED BY <1>4, <1>5

\* and so it is when it comes from a model.
LEMMA ModelIsOrdinary ==
  ASSUME NEW h, NEW S, S \subseteq Item, RawOrdinary(h, S)
  PROVE  RawOrdinary(h, {ByModel(i) : i \in S})
<1> SUFFICES ASSUME NEW i \in S PROVE RawOrdinary(h, {ByModel(i)})
  BY DEF RawOrdinary
<1> DEFINE j == ByModel(i)
<1>1. /\ j.kind = i.kind /\ j.text = i.text /\ j.spans = i.spans /\ j.status = i.status
      /\ j.conflicts = i.conflicts /\ j.tags = i.tags \cap {"exact"}
  BY DEF ByModel, Item
<1> HIDE DEF j
<1>2. \A s : IsValueOf(j, s) <=> IsValueOf(i, s)
  BY <1>1 DEF IsValueOf
<1>3. Grounded(h, j)
  BY <1>1, <1>2 DEF RawOrdinary, Grounded
<1>4. RawOrdinary(h, {j})
  BY <1>1, <1>2, <1>3 DEF RawOrdinary
<1> QED BY <1>4 DEF j

\* Merging items of one place leaves one item of that place.
LEMMA MergedIsGrounded ==
  ASSUME NEW h, SaidOnce(h), NEW S, Typed(S), \A i \in S : Grounded(h, i),
         NEW m \in Canonicalize(S)
  PROVE  /\ Grounded(h, m)
         /\ \A i \in S : Key(i) = Key(m) =>
               i.text = m.text /\ i.spans = m.spans /\ Seq(i) = Seq(m)
<1>1. PICK i \in S : Key(i) = Key(m) /\ i.status = m.status /\ Seq(i) = Seq(m)
  BY MergedItem
<1>3. \A j \in S : Key(j) = Key(m) => j.text = i.text /\ j.spans = i.spans
  BY <1>1, OneSource DEF Key
<1>2. i.kind = m.kind /\ i.text = m.text
  <2>1. PICK j \in S : Key(j) = Key(m) /\ j.text = m.text
    BY MergedItem
  <2> QED BY <1>1, <1>3, <2>1 DEF Key
<1>4. m.spans = i.spans
  <2>1. \A x \in m.spans : x \in i.spans
    BY <1>3, MergedItem
  <2> QED BY <1>1, <2>1, MergedItem
<1>5. m.conflicts = {} /\ "detected-conflict" \notin m.tags
  BY MergedItem DEF Grounded
<1>6. i.tags \subseteq m.tags
  BY <1>1, MergedItem
<1>7. \A s : IsValueOf(m, s) <=> IsValueOf(i, s)
  BY <1>2 DEF IsValueOf
<1>8. Grounded(h, m)
  BY <1>1, <1>2, <1>4, <1>5, <1>6, <1>7 DEF Grounded
<1>9. \A j \in S : Key(j) = Key(m) => /\ j.text = m.text /\ j.spans = m.spans
                                        /\ Seq(j) = Seq(m)
  BY <1>2, <1>3, <1>4 DEF Seq, Sources
<1> QED BY <1>8, <1>9

\* Merged for the first time: values have their corrections, since recovery has
\* the correction of every statement that carries one.
LEMMA BeginsOrdinary ==
  ASSUME NEW h \in Histories, Ordinary(h), NEW S, RawLedger(S), RawOrdinary(h, S),
         \A c \in Rules(h) : RetainedIn(c, S),
         NEW ids
  PROVE  CorrectingOrdinary(h, Canonicalize(S), ids)
<1> DEFINE C == Canonicalize(S)
<1>1. Typed(S) /\ \A i \in S : Grounded(h, i)
  BY DEF RawLedger, RawOrdinary
<1>2. SaidOnce(h) /\ Recognized(h)
  BY DEF Ordinary
<1>3. ASSUME NEW m \in C
      PROVE  /\ Grounded(h, m) /\ m.id = Key(m) /\ m.status = "active" /\ m.supersedes = {}
             /\ \A i \in S : Key(i) = Key(m) => i.kind = m.kind /\ i.text = m.text
  <2>1. Grounded(h, m) /\ \A i \in S : Key(i) = Key(m) => i.text = m.text
    BY <1>1, <1>2, MergedIsGrounded
  <2>2. m.supersedes = {} /\ m.status = "active"
    BY <1>1, MergedItem DEF RawLedger
  <2> QED BY <1>1, <2>1, <2>2, MergedItem DEF Key
<1>4. ASSUME NEW m \in C PROVE OfItsKind(h, C, m)
  <2> SUFFICES ASSUME NEW s \in SaidIn(h), IsValueOf(m, s) PROVE m.kind = s.twin
    BY DEF OfItsKind
  <2>1. PICK i \in S : Key(i) = Key(m)
    BY <1>1, MergedItem
  <2>3. i.kind = m.kind /\ i.text = m.text
    BY <1>3, <2>1
  <2>2. IsValueOf(i, s)
    BY <2>3 DEF IsValueOf
  <2> QED BY <2>2, <2>3 DEF RawOrdinary
<1>5. ASSUME NEW m \in C PROVE Backed(C, m)
  <2> SUFFICES ASSUME "correction-derived" \in m.tags
               PROVE  /\ m.kind # "user_correction"
                      /\ \E c \in C : IsCorrection(c) /\ c.text = m.text
    BY DEF Backed
  <2>0. \E i \in S : Key(i) = Key(m) /\ "correction-derived" \in i.tags
    BY <1>1, MergedItem
  <2>1. PICK i \in S : i.kind = m.kind /\ i.text = m.text /\ "correction-derived" \in i.tags
    BY <1>3, <2>0
  <2>2. PICK s \in SaidIn(h) : IsValueOf(i, s) /\ s.twin # None
    BY <2>1 DEF RawOrdinary
  <2>3. PICK n \in Source : s \in h[n].says
    BY <2>2 DEF SaidIn
  <2> DEFINE a == Atom(s, n)
  <2>4. a \in Rules(h)
    BY <2>3 DEF Rules, FromSource
  <2>5. a.kind = "user_correction" /\ a.text = m.text
    BY <2>1, <2>2 DEF Atom, Extracted, IsValueOf
  <2> HIDE DEF a
  <2>6. PICK c \in C : c.kind = "user_correction" /\ c.text = m.text
    <3>1. PICK j \in S : Retains(a, j)
      BY <2>4 DEF RetainedIn
    <3>2. Keeps(S, C)
      BY <1>1, CanonicalizeKeeps, TypedIsShaped
    <3>3. PICK c \in C : Retains(j, c)
      BY <3>2 DEF Keeps, RetainedIn
    <3>4. c.kind = "user_correction" /\ Norm[c.text] = Norm[m.text]
      BY <2>5, <3>1, <3>3 DEF Retains
    <3> QED BY <1>2, <1>3, <3>4, OneSource
  <2>7. m.text \in Marker /\ m.kind # "user_correction"
    BY <1>2, <2>1, <2>2 DEF Recognized, IsValueOf
  <2> QED BY <2>6, <2>7 DEF IsCorrection
<1>6. \A m, n \in C : Key(m) = Key(n) => m = n
  BY <1>1, MergedOnce, TypedIsShaped
<1> HIDE DEF C
<1>7. CorrectingOrdinary(h, C, ids)
  BY <1>3, <1>4, <1>5, <1>6 DEF CorrectingOrdinary, OrdinaryLedger
<1> QED BY <1>7 DEF C

-----------------------------------------------------------------------------
(* Corrections of an ordinary history.                                     *)

\* j is i with more tags or links, or retired.
Grown(j, i) ==
    /\ j.id = i.id /\ j.kind = i.kind /\ j.text = i.text /\ j.spans = i.spans
    /\ j.conflicts = i.conflicts
    /\ j.status \in {i.status, "superseded"}
    /\ i.tags \subseteq j.tags /\ i.supersedes \subseteq j.supersedes
    /\ j.tags \cap {"detected-conflict", "correction-derived"} \subseteq i.tags

\* An item that a pass retires, links or tags stays the item it was.
LEMMA GrownIsAlike ==
  ASSUME NEW j, NEW i, Grown(j, i)
  PROVE  /\ Key(j) = Key(i) /\ Seq(j) = Seq(i)
         /\ \A h : Roles(h, j) = Roles(h, i) /\ (IsValue(h, j) <=> IsValue(h, i))
         /\ \A s : IsValueOf(j, s) <=> IsValueOf(i, s)
         /\ IsCorrection(i) => IsCorrection(j)
<1>1. Key(j) = Key(i) /\ Sources(j) = Sources(i) /\ (IsCorrection(i) => IsCorrection(j))
  BY DEF Grown, Key, Sources, IsCorrection
<1>2. Seq(j) = Seq(i) /\ \A h : Roles(h, j) = Roles(h, i)
  BY <1>1 DEF Seq, Roles
<1>3. \A s : IsValueOf(j, s) <=> IsValueOf(i, s)
  BY DEF Grown, IsValueOf
<1> QED BY <1>1, <1>2, <1>3 DEF IsValue

\* Such a pass leaves an ordinary ledger ordinary.
LEMMA GrownStaysOrdinary ==
  ASSUME NEW h, NEW S, OrdinaryLedger(h, S), NEW f, \A i \in S : Grown(f[i], i),
         \A c \in S : c.kind = "user_correction" /\ c.supersedes # {} =>
            f[c].supersedes = c.supersedes
  PROVE  OrdinaryLedger(h, {f[i] : i \in S})
<1> DEFINE T == {f[i] : i \in S}
<1> SUFFICES ASSUME NEW i \in S
             PROVE  Grounded(h, f[i]) /\ OfItsKind(h, T, f[i]) /\ Backed(T, f[i])
  BY DEF OrdinaryLedger
<1> DEFINE j == f[i]
<1>1. Grown(j, i) /\ Grounded(h, i) /\ OfItsKind(h, S, i) /\ Backed(S, i)
  BY DEF OrdinaryLedger
<1>2. \A s : IsValueOf(j, s) <=> IsValueOf(i, s)
  BY <1>1, GrownIsAlike
<1> HIDE DEF j
<1>3. Grounded(h, j)
  BY <1>1, <1>2 DEF Grounded, Grown
<1>4. OfItsKind(h, T, j)
  <2> SUFFICES ASSUME NEW s \in SaidIn(h), IsValueOf(j, s), j.kind # s.twin
               PROVE  MadeFor(h, T, j, s)
    BY DEF OfItsKind
  <2>1. MadeFor(h, S, i, s)
    BY <1>1, <1>2 DEF OfItsKind, Grown
  <2>2. PICK u \in SaidIn(h), c \in S :
           /\ Replaces(s, u) /\ u.kind = i.kind
           /\ c.kind = "user_correction" /\ c.text = i.text
           /\ c.supersedes = {Key(u)}
    BY <2>1 DEF MadeFor
  <2>3. f[c] \in T /\ f[c].supersedes = {Key(u)}
    BY <2>2
  <2>4. f[c].kind = "user_correction" /\ f[c].text = j.text /\ u.kind = j.kind
    BY <1>1, <2>2 DEF Grown
  <2>5. j.text \notin Revokes
    BY <1>1, <2>1 DEF MadeFor, Grown
  <2> HIDE DEF T
  <2> QED BY <2>2, <2>3, <2>4, <2>5 DEF MadeFor
<1>5. Backed(T, j)
  <2> SUFFICES ASSUME "correction-derived" \in j.tags
               PROVE  /\ j.kind # "user_correction"
                      /\ \E c \in T : IsCorrection(c) /\ c.text = j.text
    BY DEF Backed
  <2>3. j.kind # "user_correction"
    BY <1>1 DEF Backed, Grown
  <2>1. PICK c \in S : IsCorrection(c) /\ c.text = i.text
    BY <1>1 DEF Backed, Grown
  <2>2. IsCorrection(f[c]) /\ f[c].text = j.text
    BY <1>1, <2>1, GrownIsAlike DEF Grown
  <2> QED BY <2>2, <2>3
<1> QED BY <1>3, <1>4, <1>5 DEF j

\* A pass that retires and links as the resolver does.
LEMMA GrownStaysCorrecting ==
  ASSUME NEW h, NEW S, NEW ids, CorrectingOrdinary(h, S, ids),
         NEW f, \A i \in S : Grown(f[i], i), NEW rest,
         \A c \in S : c.kind = "user_correction" /\ c.supersedes # {} =>
            f[c].supersedes = c.supersedes,
         \A i \in S : f[i].status = "superseded" /\ i.status # "superseded" =>
            ~IsValue(h, i) /\ \E c \in S : Replaced(f[c], f[i]),
         \A i \in S : \A t \in f[i].supersedes \ i.supersedes :
            /\ i.kind = "user_correction" \/ IsValue(h, i)
            /\ \E j \in S : ~IsValue(h, j) /\ Key(j) = t /\ Older(f[i], f[j]),
         \A c \in S : c.kind = "user_correction" /\ c.id \in rest =>
            c.id \in ids /\ f[c].supersedes = c.supersedes
  PROVE  CorrectingOrdinary(h, {f[i] : i \in S}, rest)
<1> DEFINE T == {f[i] : i \in S}
<1>1. OrdinaryLedger(h, T)
  BY GrownStaysOrdinary DEF CorrectingOrdinary
<1>2. \A i \in S : /\ Key(f[i]) = Key(i) /\ Seq(f[i]) = Seq(i)
                   /\ IsValue(h, f[i]) <=> IsValue(h, i)
                   /\ f[i].id = i.id /\ f[i].kind = i.kind /\ f[i].text = i.text
                   /\ i.supersedes \subseteq f[i].supersedes
                   /\ i.status = "superseded" => f[i].status = "superseded"
                   /\ IsCorrection(i) => IsCorrection(f[i])
                   /\ i.tags \subseteq f[i].tags
  BY GrownIsAlike DEF Grown
<1>3. \A i \in S : ~IsValue(h, f[i]) =>
         f[i].id = Key(f[i]) /\ \A j \in S : Key(f[i]) = Key(f[j]) => f[i] = f[j]
  BY <1>2 DEF CorrectingOrdinary
<1>4. ASSUME NEW i \in S, f[i].status = "superseded"
      PROVE  ~IsValue(h, f[i]) /\ \E c \in S : Replaced(f[c], f[i])
  <2>1. CASE i.status = "superseded"
    <3>1. PICK c \in S : Replaced(c, i)
      BY <2>1 DEF CorrectingOrdinary
    <3>2. Replaced(f[c], f[i])
      BY <1>2, <3>1 DEF Replaced, SupportsCorrection
    <3> QED BY <1>2, <2>1, <3>2 DEF CorrectingOrdinary
  <2>2. CASE i.status # "superseded"
    BY <1>2, <1>4, <2>2
  <2> QED BY <2>1, <2>2
<1>5. ASSUME NEW i \in S, NEW t \in f[i].supersedes
      PROVE  /\ f[i].kind = "user_correction" \/ IsValue(h, f[i])
             /\ \E j \in S : ~IsValue(h, f[j]) /\ Key(f[j]) = t /\ Older(f[i], f[j])
  <2>1. CASE t \in i.supersedes
    <3>1. PICK j \in S : ~IsValue(h, j) /\ Key(j) = t /\ Older(i, j)
      BY <2>1 DEF CorrectingOrdinary
    <3>2. Older(f[i], f[j])
      BY <1>2, <3>1 DEF Older
    <3> QED BY <1>2, <2>1, <3>1, <3>2 DEF CorrectingOrdinary
  <2>2. CASE t \notin i.supersedes
    <3>1. PICK j \in S : ~IsValue(h, j) /\ Key(j) = t /\ Older(f[i], f[j])
      BY <1>5, <2>2
    <3> QED BY <1>2, <1>5, <2>2, <3>1
  <2> QED BY <2>1, <2>2
<1>6. \A c \in S : f[c].kind = "user_correction" /\ f[c].id \in rest => f[c].supersedes = {}
  BY <1>2 DEF CorrectingOrdinary
<1>7. /\ \A i \in T : ~IsValue(h, i) =>
             i.id = Key(i) /\ \A j \in T : Key(i) = Key(j) => i = j
      /\ \A i \in T : i.status = "superseded" =>
             ~IsValue(h, i) /\ \E c \in T : Replaced(c, i)
      /\ \A i \in T : \A t \in i.supersedes :
             /\ i.kind = "user_correction" \/ IsValue(h, i)
             /\ \E j \in T : ~IsValue(h, j) /\ Key(j) = t /\ Older(i, j)
      /\ \A c \in T : c.kind = "user_correction" /\ c.id \in rest => c.supersedes = {}
  <2>1. \A i \in T : ~IsValue(h, i) =>
             i.id = Key(i) /\ \A j \in T : Key(i) = Key(j) => i = j
    BY <1>3
  <2>2. \A i \in T : i.status = "superseded" =>
             ~IsValue(h, i) /\ \E c \in T : Replaced(c, i)
    BY <1>4
  <2>3. \A i \in T : \A t \in i.supersedes :
             /\ i.kind = "user_correction" \/ IsValue(h, i)
             /\ \E j \in T : ~IsValue(h, j) /\ Key(j) = t /\ Older(i, j)
    BY <1>5
  <2>4. \A c \in T : c.kind = "user_correction" /\ c.id \in rest => c.supersedes = {}
    BY <1>6
  <2> QED BY <2>1, <2>2, <2>3, <2>4
<1> HIDE DEF T
<1>8. CorrectingOrdinary(h, T, rest)
  BY <1>1, <1>7 DEF CorrectingOrdinary
<1> QED BY <1>8 DEF T

\* p is an older item that the correction c matches well enough.
IsPrior(h, c, p) ==
    /\ Grounded(h, c) /\ c.kind = "user_correction"
    /\ Grounded(h, p) /\ p.kind \in Replaceable
    /\ Seq(p) < Seq(c) /\ ScoreOf(c, p) >= 45

\* It replaces it, as a statement that it is no value of,
LEMMA PriorIsReplaced ==
  ASSUME NEW h, Ordinary(h), NEW c, NEW p, IsPrior(h, c, p)
  PROVE  \E s \in SaidIn(h), u \in SaidIn(h) :
            /\ s.text = c.text /\ s.kind = "user_correction"
            /\ u.kind = p.kind /\ u.text = p.text /\ u.kind # "user_correction"
            /\ \A t \in SaidIn(h) : t.text = p.text => t = u
            /\ Replaces(s, u)
<1> /\ Grounded(h, c) /\ c.kind = "user_correction"
    /\ Grounded(h, p) /\ p.kind \in Replaceable
    /\ Seq(p) < Seq(c) /\ ScoreOf(c, p) >= 45
  BY DEF IsPrior
<1>1. SaidOnce(h) /\ ReplacesLike(h)
  BY DEF Ordinary
<1>2. PICK s \in h[Seq(c)].says : /\ s \in SaidIn(h) /\ s.text = c.text
                                  /\ c.kind = s.kind \/ IsValueOf(c, s)
  BY <1>1, OneStatement
<1>3. PICK u \in h[Seq(p)].says : /\ u \in SaidIn(h) /\ u.text = p.text
                                  /\ p.kind = u.kind \/ IsValueOf(p, u)
                                  /\ \A t \in SaidIn(h) : t.text = p.text => t = u
  BY <1>1, OneStatement
<1>4. s.kind = "user_correction"
  BY <1>2 DEF IsValueOf
<1>5. s # u
  <2>1. Seq(c) \in Source /\ Seq(p) \in Source /\ Seq(c) # Seq(p)
    BY <1>1, OneStatement DEF Source
  <2> QED BY <1>1, <1>2, <1>3, <2>1 DEF SaidOnce
<1>6. Replaces(s, u)
  BY <1>2, <1>3, <1>4, <1>5 DEF Replaces, ScoreOf
<1>7. u.kind # "user_correction" /\ u.kind = p.kind
  BY <1>1, <1>2, <1>3, <1>6 DEF ReplacesLike, IsValueOf
<1> QED BY <1>2, <1>3, <1>4, <1>6, <1>7

\* and the verifier relates them.
LEMMA PriorIsPlain ==
  ASSUME NEW h, Ordinary(h), NEW c, NEW p, IsPrior(h, c, p)
  PROVE  /\ ~IsValue(h, p)
         /\ IsCorrection(c) => SupportsCorrection(c, p)
         /\ c.text \in Revokes
               \/ (p.kind # "exact_reference"
                     /\ (p.kind = "confirmed_fact" => Stands(h, c.text)))
<1>1. Related(h) /\ ReplacesLike(h)
  BY DEF Ordinary
<1>2. PICK s \in SaidIn(h), u \in SaidIn(h) :
            /\ s.text = c.text /\ s.kind = "user_correction"
            /\ u.kind = p.kind /\ u.text = p.text /\ u.kind # "user_correction"
            /\ \A t \in SaidIn(h) : t.text = p.text => t = u
            /\ Replaces(s, u)
  BY PriorIsReplaced
<1>3. ~IsValue(h, p)
  BY <1>2 DEF IsValue, IsValueOf
<1>4. c.text \in Revokes \/ (p.kind # "exact_reference"
                              /\ (p.kind = "confirmed_fact" => Stands(h, c.text)))
  <2>1. s.text \in Revokes \/
           (u.kind # "exact_reference"
              /\ (u.kind = "confirmed_fact" => s.evidenced /\ s.text \notin Uncertain))
    BY <1>1, <1>2 DEF ReplacesLike
  <2>2. s.evidenced /\ s.text \notin Uncertain => Stands(h, c.text)
    BY <1>2 DEF Stands
  <2> QED BY <1>2, <2>1, <2>2
<1>5. IsCorrection(c) => SupportsCorrection(c, p)
  BY <1>1, <1>2 DEF Related, IsCorrection, SupportsCorrection
<1> QED BY <1>3, <1>4, <1>5


\* c is a correction still to be tried.
Trying(S, ids, c) == CorrectingLedger(S, ids) /\ c \in S /\ c.id \in ids

\* Left alone,
LEMMA SkippedStaysOrdinary ==
  ASSUME NEW h, NEW S, NEW ids, CorrectingOrdinary(h, S, ids), NEW c
  PROVE  CorrectingOrdinary(h, S, ids \ {c.id})
BY DEF CorrectingOrdinary

\* or tagged as matching nothing or too much.
LEMMA KeptStaysOrdinary ==
  ASSUME NEW h, NEW S, NEW ids, CorrectingOrdinary(h, S, ids), NEW c, Trying(S, ids, c),
         NEW tag \in {"additive-clarification", "ambiguous-supersession"}
  PROVE  CorrectingOrdinary(h, (S \ {c}) \cup {Tagged(c, tag)}, ids \ {c.id})
<1> DEFINE f == [i \in S |-> IF i = c THEN Tagged(c, tag) ELSE i]
<1>1. c \in Item
  BY DEF Trying, CorrectingLedger, Typed
<1>2. /\ Grown(Tagged(c, tag), c) /\ Tagged(c, tag).supersedes = c.supersedes
      /\ Tagged(c, tag).status = c.status
  BY <1>1 DEF Tagged, Item, Grown
<1>3. \A i : Grown(i, i)
  BY DEF Grown
<1>4. \A i \in S : Grown(f[i], i) /\ f[i].supersedes = i.supersedes /\ f[i].status = i.status
  BY <1>2, <1>3
<1>5. {f[i] : i \in S} = (S \ {c}) \cup {Tagged(c, tag)}
  BY DEF Trying
<1> HIDE DEF f
<1>6. CorrectingOrdinary(h, {f[i] : i \in S}, ids \ {c.id})
  BY <1>4, GrownStaysCorrecting
<1> QED BY <1>5, <1>6

\* A match is retired and linked.
LEMMA SettledStaysOrdinary ==
  ASSUME CorrectingOrdinary(history, items, todo), Ordinary(history),
         NEW c, Trying(items, todo, c), IsCorrection(c), NEW p, p \in ClearMatch(c)
  PROVE  /\ CorrectingOrdinary(history, Settled(c, p), todo \ {c.id})
         /\ ~IsValue(history, p) /\ p.id = Key(p) /\ p # c
         /\ Retired(p) \in Settled(c, p) /\ Grown(Retired(p), p)
         /\ Retired(p).status = "superseded"
         /\ Linked(c, p.id) \in Settled(c, p) /\ Grown(Linked(c, p.id), c)
         /\ Linked(c, p.id).supersedes = {p.id}
<1> DEFINE l == Linked(c, p.id)
           q == Retired(p)
           f == [i \in items |-> IF i = c THEN l ELSE IF i = p THEN q ELSE i]
<1>1. /\ c \in items /\ c \in Item /\ p \in items /\ p \in Item /\ c.kind = "user_correction"
      /\ p.kind \in Replaceable /\ Seq(p) < Seq(c) /\ p.status = "active"
      /\ ScoreOf(c, p) >= 45
  BY DEF Trying, CorrectingLedger, Typed, ClearMatch, Strong, Ranked, IsCorrection
<1>2. Grounded(history, c) /\ Grounded(history, p)
  BY <1>1 DEF CorrectingOrdinary, OrdinaryLedger
<1>3. ~IsValue(history, p) /\ SupportsCorrection(c, p)
  <2>1. IsPrior(history, c, p)
    BY <1>1, <1>2 DEF IsPrior
  <2> QED BY <2>1, PriorIsPlain
<1>4. p.id = Key(p)
  BY <1>1, <1>3 DEF CorrectingOrdinary
<1>5. p # c
  BY <1>1 DEF Replaceable
<1>6. c.supersedes = {}
  BY <1>1 DEF CorrectingOrdinary, Trying
<1>7. Grown(l, c) /\ l.supersedes = {p.id} /\ l.status = c.status
  BY <1>1, <1>6 DEF Linked, Item, Grown
<1>8. Grown(q, p) /\ q.status = "superseded" /\ q.supersedes = p.supersedes
  BY <1>1 DEF Retired, Tagged, Item, Grown
<1> HIDE DEF l, q
<1>9. \A i : Grown(i, i)
  BY DEF Grown
<1>10. /\ f[c] = l /\ f[p] = q
       /\ \A i \in items : i # c /\ i # p => f[i] = i
  BY <1>1, <1>5
<1>11. {f[i] : i \in items} = Settled(c, p)
  BY <1>1, <1>5 DEF Settled, l, q
<1> HIDE DEF f
<1>12. \A i \in items : Grown(f[i], i)
  BY <1>7, <1>8, <1>9, <1>10
<1>13. /\ Key(q) = Key(p) /\ Seq(q) = Seq(p) /\ Seq(l) = Seq(c) /\ IsCorrection(l)
  BY <1>7, <1>8, GrownIsAlike
<1>14. Replaced(l, q)
  <2>1. Seq(c) \in Source /\ Seq(p) \in Source
    BY <1>2, OneStatement DEF Ordinary
  <2>2. Seq(l) > Seq(q)
    BY <1>1, <1>13, <2>1 DEF Source
  <2>3. SupportsCorrection(l, q)
    BY <1>3, <1>7, <1>8 DEF Grown, SupportsCorrection
  <2> QED BY <1>4, <1>7, <1>13, <2>2, <2>3 DEF Replaced
<1>15. \A i \in items : f[i].status = "superseded" /\ i.status # "superseded" =>
          ~IsValue(history, i) /\ \E d \in items : Replaced(f[d], f[i])
  <2> SUFFICES ASSUME NEW i \in items, f[i].status = "superseded", i.status # "superseded"
               PROVE  i = p
    BY <1>1, <1>3, <1>10, <1>14
  <2> QED BY <1>7, <1>10
<1>16. \A i \in items : \A t \in f[i].supersedes \ i.supersedes :
          /\ i.kind = "user_correction" \/ IsValue(history, i)
          /\ \E j \in items : ~IsValue(history, j) /\ Key(j) = t /\ Older(f[i], f[j])
  <2> SUFFICES ASSUME NEW i \in items, NEW t \in f[i].supersedes \ i.supersedes
               PROVE  i = c /\ t = p.id /\ Older(l, q)
    BY <1>1, <1>3, <1>4, <1>10
  <2>1. i = c /\ t = p.id
    BY <1>7, <1>8, <1>10
  <2> QED BY <1>1, <1>8, <1>13, <2>1 DEF Older
<1>17. \A d \in items : d.kind = "user_correction" =>
          /\ d.supersedes # {} => f[d].supersedes = d.supersedes
          /\ d.id \in todo \ {c.id} => d.id \in todo /\ f[d].supersedes = d.supersedes
  BY <1>6, <1>8, <1>10
<1>18. CorrectingOrdinary(history, {f[i] : i \in items}, todo \ {c.id})
  <2>1. \A d \in items : d.kind = "user_correction" /\ d.supersedes # {} =>
           f[d].supersedes = d.supersedes
    BY <1>17
  <2>2. \A d \in items : d.kind = "user_correction" /\ d.id \in todo \ {c.id} =>
           d.id \in todo /\ f[d].supersedes = d.supersedes
    BY <1>17
  <2> QED BY <1>12, <1>15, <1>16, <2>1, <2>2, GrownStaysCorrecting
<1>19. q \in Settled(c, p) /\ l \in Settled(c, p)
  BY DEF Settled, l, q
<1> QED BY <1>3, <1>4, <1>5, <1>7, <1>8, <1>11, <1>18, <1>19 DEF l, q

\* A current value of the correction's source is linked too,
LEMMA LinkedStaysOrdinary ==
  ASSUME CorrectingOrdinary(history, items, todo), Ordinary(history), history \in Histories,
         NEW c, Trying(items, todo, c), IsCorrection(c), NEW p, p \in ClearMatch(c),
         c.text \notin Revokes, NEW r \in CurrentValues(c, p)
  PROVE  CorrectingOrdinary(history, (Settled(c, p) \ {r}) \cup {Linked(r, p.id)},
                            todo \ {c.id})
<1> DEFINE S == Settled(c, p)
           j == Linked(r, p.id)
           f == [i \in S |-> IF i = r THEN j ELSE i]
<1>1. /\ CorrectingOrdinary(history, S, todo \ {c.id})
      /\ ~IsValue(history, p) /\ p.id = Key(p) /\ p # c
      /\ Retired(p) \in S /\ Grown(Retired(p), p) /\ Retired(p).status = "superseded"
  BY SettledStaysOrdinary
<1>2. /\ c \in items /\ p \in items /\ r \in items /\ r \in Item
      /\ c.kind = "user_correction" /\ p.kind \in Replaceable /\ Seq(p) < Seq(c)
      /\ ScoreOf(c, p) >= 45 /\ r.kind = p.kind /\ Seq(r) = Seq(c)
      /\ "correction-derived" \in r.tags /\ r.id # c.id
  BY DEF Trying, CorrectingLedger, Typed, ClearMatch, Strong, Ranked, IsCorrection,
         CurrentValues
<1>3. Grounded(history, c) /\ Grounded(history, p) /\ Grounded(history, r)
  BY <1>2 DEF CorrectingOrdinary, OrdinaryLedger
<1>4. SaidOnce(history)
  BY DEF Ordinary
<1>5. Seq(c) \in Nat /\ Seq(p) \in Nat
  BY <1>3, <1>4, OneStatement DEF Source
<1>6. r # p /\ r # c
  BY <1>2, <1>5
<1>7. r \in S
  BY <1>2, <1>6 DEF Settled
<1>8. IsValue(history, r)
  <2>1. PICK d \in items : IsCorrection(d) /\ d.text = r.text
    BY <1>2 DEF CorrectingOrdinary, OrdinaryLedger, Backed
  <2>2. PICK s \in SaidIn(history) : s.kind = "user_correction" /\ s.text = d.text
    BY <1>4, <2>1, CorrectionIsSaid DEF CorrectingOrdinary, OrdinaryLedger, IsCorrection
  <2>3. p.kind # "exact_reference"
    <3>1. IsPrior(history, c, p)
      BY <1>2, <1>3 DEF IsPrior
    <3> QED BY <3>1, PriorIsPlain
  <2>4. r.kind \notin {"user_correction", "exact_reference"}
    BY <1>2, <2>3 DEF Replaceable
  <2> QED BY <2>1, <2>2, <2>4 DEF IsValue, IsValueOf
<1>9. Grown(j, r) /\ j.status = r.status /\ j.supersedes = r.supersedes \cup {p.id}
  BY <1>2 DEF Linked, Item, Grown
<1> HIDE DEF S, j
<1>10. \A i \in S : f[i] = IF i = r THEN j ELSE i
  OBVIOUS
<1>11. {f[i] : i \in S} = (S \ {r}) \cup {j}
  BY <1>7
<1> HIDE DEF f
<1>12. \A i \in S : Grown(f[i], i)
  BY <1>9, <1>10 DEF Grown
<1>13. r.kind # "user_correction"
  BY <1>2 DEF Replaceable
<1>14. Older(j, Retired(p)) /\ Retired(p) # r
  <2>1. Seq(Retired(p)) = Seq(p) /\ Seq(j) = Seq(r) /\ Retired(p).id = p.id
    BY <1>1, <1>9, GrownIsAlike DEF Grown
  <2>2. Seq(Retired(p)) # Seq(r)
    BY <1>2, <1>5, <2>1
  <2> QED BY <1>1, <1>2, <2>1, <2>2 DEF Older
<1>15. ~IsValue(history, Retired(p)) /\ Key(Retired(p)) = p.id
  BY <1>1, GrownIsAlike
<1>16. \A i \in S : \A t \in f[i].supersedes \ i.supersedes :
          /\ i.kind = "user_correction" \/ IsValue(history, i)
          /\ \E k \in S : ~IsValue(history, k) /\ Key(k) = t /\ Older(f[i], f[k])
  <2> SUFFICES ASSUME NEW i \in S, NEW t \in f[i].supersedes \ i.supersedes
               PROVE  i = r /\ t = p.id /\ f[Retired(p)] = Retired(p)
    BY <1>1, <1>8, <1>10, <1>14, <1>15
  <2> QED BY <1>1, <1>9, <1>10, <1>14
<1>17. \A i \in S : f[i].status = i.status
  BY <1>9, <1>10
<1>18. \A d \in S : d.kind = "user_correction" => f[d].supersedes = d.supersedes
  BY <1>10, <1>13
<1>19. CorrectingOrdinary(history, {f[i] : i \in S}, todo \ {c.id})
  BY <1>1, <1>12, <1>16, <1>17, <1>18, GrownStaysCorrecting
<1> QED BY <1>11, <1>19 DEF S, j

\* or one is made.
LEMMA AppendedStaysOrdinary ==
  ASSUME CorrectingOrdinary(history, items, todo), Ordinary(history),
         NEW c, Trying(items, todo, c), IsCorrection(c), NEW p, p \in ClearMatch(c),
         c.text \notin Revokes
  PROVE  CorrectingOrdinary(history, Settled(c, p) \cup {Replacement(c, p)}, todo \ {c.id})
<1> DEFINE S == Settled(c, p)
           j == Replacement(c, p)
           l == Linked(c, p.id)
           T == S \cup {j}
<1>1. /\ CorrectingOrdinary(history, S, todo \ {c.id})
      /\ ~IsValue(history, p) /\ p.id = Key(p) /\ p # c
      /\ Retired(p) \in S /\ Grown(Retired(p), p) /\ Retired(p).status = "superseded"
      /\ l \in S /\ Grown(l, c) /\ l.supersedes = {p.id}
  BY SettledStaysOrdinary
<1>2. /\ c \in items /\ p \in items /\ c.kind = "user_correction" /\ p.kind \in Replaceable
      /\ Seq(p) < Seq(c) /\ ScoreOf(c, p) >= 45
  BY DEF Trying, ClearMatch, Strong, Ranked, IsCorrection
<1>3. Grounded(history, c) /\ Grounded(history, p)
  BY <1>2 DEF CorrectingOrdinary, OrdinaryLedger
<1>4. SaidOnce(history) /\ IsPrior(history, c, p)
  BY <1>2, <1>3 DEF Ordinary, IsPrior
<1>5. PICK s \in SaidIn(history), u \in SaidIn(history) :
         /\ s.text = c.text /\ s.kind = "user_correction"
         /\ u.kind = p.kind /\ u.text = p.text /\ Replaces(s, u)
  BY <1>4, PriorIsReplaced
<1>6. p.kind # "exact_reference" /\ (p.kind = "confirmed_fact" => Stands(history, c.text))
  BY <1>4, PriorIsPlain
<1>7. /\ j.kind = p.kind /\ j.text = c.text /\ j.spans = c.spans /\ j.status = "active"
      /\ j.tags = c.tags \cup {"correction-derived"} /\ j.supersedes = {p.id}
      /\ j.conflicts = {}
  BY DEF Replacement
<1> HIDE DEF S, j, l
<1>8. IsValueOf(j, s)
  BY <1>2, <1>5, <1>6, <1>7 DEF IsValueOf, Replaceable
<1>9. IsValue(history, j) /\ j.kind # "user_correction"
  BY <1>8 DEF IsValue, IsValueOf
<1>10. Seq(j) = Seq(c)
  BY <1>7 DEF Seq, Sources
<1>11. Grounded(history, j)
  <2>1. PICK n \in Source :
           \E t \in history[n].says : t.text = c.text /\ c.spans = {<<n, t.text>>}
    BY <1>3 DEF Grounded
  <2>2. PICK t \in history[n].says : /\ t.text = c.text /\ c.spans = {<<n, t.text>>}
                                    /\ t \in SaidIn(history)
    BY <2>1 DEF SaidIn
  <2>3. t = s
    BY <1>3, <1>4, <1>5, <2>2, OneStatement
  <2>4. /\ "detected-conflict" \notin j.tags /\ j.status # "conflicting"
        /\ j.kind # "exact_reference"
        /\ j.kind = "confirmed_fact" => Stands(history, j.text)
    BY <1>3, <1>6, <1>7 DEF Grounded
  <2>5. j.text = t.text /\ j.spans = {<<n, t.text>>} /\ IsValueOf(j, t)
    BY <1>7, <1>8, <2>2, <2>3
  <2> QED BY <1>7, <2>2, <2>4, <2>5 DEF Grounded
<1>12. l.kind = "user_correction" /\ l.text = c.text /\ IsCorrection(l)
  BY <1>1, <1>2, GrownIsAlike DEF Grown
<1>13. MadeFor(history, T, j, s)
  <2>1. l.supersedes = {Key(u)}
    BY <1>1, <1>5 DEF Key
  <2> QED BY <1>1, <1>5, <1>7, <1>12, <2>1 DEF MadeFor
<1>14. OfItsKind(history, T, j)
  <2> SUFFICES ASSUME NEW t \in SaidIn(history), IsValueOf(j, t) PROVE t = s
    BY <1>13 DEF OfItsKind
  <2>1. Norm[t.text] = Norm[c.text] /\ Norm[s.text] = Norm[c.text]
    BY <1>5, <1>7 DEF IsValueOf
  <2> QED BY <1>3, <1>4, <1>5, <2>1, OneStatement
<1>15. Backed(T, j)
  BY <1>1, <1>7, <1>9, <1>12 DEF Backed
<1>16. OrdinaryLedger(history, T)
  <2>1. ASSUME NEW i \in S
        PROVE  Grounded(history, i) /\ OfItsKind(history, T, i) /\ Backed(T, i)
    <3>1. Grounded(history, i) /\ OfItsKind(history, S, i) /\ Backed(S, i)
      BY <1>1 DEF OrdinaryLedger, CorrectingOrdinary
    <3>2. \A t : MadeFor(history, S, i, t) => MadeFor(history, T, i, t)
      BY DEF MadeFor
    <3>3. Backed(T, i)
      BY <3>1 DEF Backed
    <3> QED BY <3>1, <3>2, <3>3 DEF OfItsKind
  <2> QED BY <1>11, <1>14, <1>15, <2>1 DEF OrdinaryLedger
<1>17. Older(j, Retired(p)) /\ ~IsValue(history, Retired(p)) /\ Key(Retired(p)) = p.id
  <2>1. Seq(Retired(p)) = Seq(p) /\ Key(Retired(p)) = Key(p) /\ ~IsValue(history, Retired(p))
    BY <1>1, GrownIsAlike
  <2> QED BY <1>1, <1>2, <1>10, <2>1 DEF Older
<1>18. ASSUME NEW i \in T, Key(i) = Key(j) PROVE IsValue(history, i)
  <2>1. Grounded(history, i)
    BY <1>16 DEF OrdinaryLedger
  <2>2. i.kind = j.kind /\ i.text = j.text
    BY <1>4, <1>11, <1>18, <2>1, OneSource DEF Key
  <2> QED BY <1>9, <2>2 DEF IsValue, IsValueOf
<1>19. \A i \in T : ~IsValue(history, i) =>
          i.id = Key(i) /\ \A k \in T : Key(i) = Key(k) => i = k
  BY <1>1, <1>9, <1>18 DEF CorrectingOrdinary
<1>20. \A i \in T : i.status = "superseded" =>
          ~IsValue(history, i) /\ \E d \in T : Replaced(d, i)
  BY <1>1, <1>7 DEF CorrectingOrdinary
<1>21. \A i \in T : \A t \in i.supersedes :
          /\ i.kind = "user_correction" \/ IsValue(history, i)
          /\ \E k \in T : ~IsValue(history, k) /\ Key(k) = t /\ Older(i, k)
  BY <1>1, <1>7, <1>9, <1>17 DEF CorrectingOrdinary
<1>22. \A d \in T : d.kind = "user_correction" /\ d.id \in todo \ {c.id} => d.supersedes = {}
  BY <1>1, <1>9 DEF CorrectingOrdinary
<1> HIDE DEF T
<1>23. CorrectingOrdinary(history, T, todo \ {c.id})
  BY <1>16, <1>19, <1>20, <1>21, <1>22 DEF CorrectingOrdinary
<1> QED BY <1>23 DEF T, S, j

-----------------------------------------------------------------------------
(* Questions of an ordinary history.                                       *)

\* What no correction made, or is one, keeps everything when items are merged.
LEMMA PlainIsLone ==
  ASSUME NEW h, NEW S, NEW ids, CorrectingOrdinary(h, S, ids), Typed(S),
         NEW i \in S, ~IsValue(h, i)
  PROVE  \E m \in Canonicalize(S) :
            /\ m.id = Key(i) /\ m.kind = i.kind /\ m.text = i.text /\ m.spans = i.spans
            /\ m.status = i.status /\ m.tags = i.tags /\ m.supersedes = i.supersedes
            /\ Seq(m) = Seq(i)
<1>1. \A j \in S : Key(j) = Key(i) => j = i
  BY DEF CorrectingOrdinary
<1>2. PICK m \in Canonicalize(S) : Key(m) = Key(i)
  BY MergedOnce, TypedIsShaped
<1> QED BY <1>1, <1>2, LoneItem

\* A correction is no value.
LEMMA CorrectionIsPlain ==
  ASSUME NEW h, NEW c, c.kind = "user_correction"
  PROVE  ~IsValue(h, c)
BY DEF IsValue, IsValueOf

\* Merging at the end of the corrections leaves an ordinary ledger ordinary:
\* items that merge are of one source, and one of them is the correction of each.
LEMMA MergedStaysOrdinary ==
  ASSUME NEW h, SaidOnce(h), NEW S, NEW ids, CorrectingOrdinary(h, S, ids), Typed(S)
  PROVE  OrdinaryLedger(h, Canonicalize(S))
<1> DEFINE C == Canonicalize(S)
<1> SUFFICES ASSUME NEW m \in C
             PROVE  Grounded(h, m) /\ OfItsKind(h, C, m) /\ Backed(C, m)
  BY DEF OrdinaryLedger
<1>1. \A i \in S : Grounded(h, i) /\ OfItsKind(h, S, i) /\ Backed(S, i)
  BY DEF CorrectingOrdinary, OrdinaryLedger
<1>2. ASSUME NEW c \in S, c.kind = "user_correction"
      PROVE  \E n \in C : /\ n.kind = c.kind /\ n.text = c.text /\ n.tags = c.tags
                          /\ n.supersedes = c.supersedes
  BY <1>2, PlainIsLone, CorrectionIsPlain
<1>3. /\ Grounded(h, m)
      /\ \A i \in S : Key(i) = Key(m) => i.kind = m.kind /\ i.text = m.text
  BY <1>1, MergedIsGrounded DEF Key
<1> HIDE DEF C
<1>4. OfItsKind(h, C, m)
  <2> SUFFICES ASSUME NEW s \in SaidIn(h), IsValueOf(m, s), m.kind # s.twin
               PROVE  MadeFor(h, C, m, s)
    BY DEF OfItsKind
  <2>1. PICK i \in S : Key(i) = Key(m)
    BY MergedItem DEF C
  <2>2. i.kind = m.kind /\ i.text = m.text
    BY <1>3, <2>1
  <2>3. IsValueOf(i, s)
    BY <2>2 DEF IsValueOf
  <2>4. MadeFor(h, S, i, s)
    BY <1>1, <2>2, <2>3 DEF OfItsKind
  <2>5. PICK u \in SaidIn(h) :
           /\ Replaces(s, u) /\ u.kind = i.kind
           /\ \E c \in S : /\ c.kind = "user_correction" /\ c.text = i.text
                           /\ c.supersedes = {Key(u)}
    BY <2>4 DEF MadeFor
  <2>6. \E c \in C : /\ c.kind = "user_correction" /\ c.text = m.text
                     /\ c.supersedes = {Key(u)}
    BY <1>2, <2>2, <2>5
  <2> QED BY <2>2, <2>4, <2>5, <2>6 DEF MadeFor
<1>5. Backed(C, m)
  <2> SUFFICES ASSUME "correction-derived" \in m.tags
               PROVE  /\ m.kind # "user_correction"
                      /\ \E c \in C : IsCorrection(c) /\ c.text = m.text
    BY DEF Backed
  <2>1. PICK i \in S : Key(i) = Key(m) /\ "correction-derived" \in i.tags
    BY MergedItem DEF C
  <2>2. i.kind # "user_correction" /\ \E c \in S : IsCorrection(c) /\ c.text = i.text
    BY <1>1, <2>1 DEF Backed
  <2>3. \E c \in C : IsCorrection(c) /\ c.text = i.text
    BY <1>2, <2>2 DEF IsCorrection
  <2> QED BY <1>3, <2>1, <2>2, <2>3
<1> QED BY <1>3, <1>4, <1>5

\* Merged for the second time: what was retired has its correction, and an answer
\* is no value of a correction.
LEMMA AnsweringStartsOrdinary ==
  ASSUME history \in Histories, Ordinary(history), NEW S, CorrectingLedger(S, {}),
         CorrectingOrdinary(history, S, {}),
         NEW ids, AnsweringLedger(history, Canonicalize(S), ids)
  PROVE  AnsweringOrdinary(history, Canonicalize(S), ids)
<1> DEFINE C == Canonicalize(S)
<1>1. Typed(S) /\ SaidOnce(history) /\ Answering(history)
  BY DEF CorrectingLedger, Ordinary
<1>2. OrdinaryLedger(history, C)
  BY <1>1, MergedStaysOrdinary
<1>3. Distinct(C) /\ Typed(C)
  BY DEF AnsweringLedger, SettledLedger
<1>4. ASSUME NEW i \in S, ~IsValue(history, i)
      PROVE  \E m \in C :
                /\ m.id = Key(i) /\ m.kind = i.kind /\ m.text = i.text /\ m.spans = i.spans
                /\ m.status = i.status /\ m.tags = i.tags /\ m.supersedes = i.supersedes
                /\ Seq(m) = Seq(i)
  BY <1>1, <1>4, PlainIsLone
<1>5. ASSUME NEW m \in C
      PROVE  /\ \E i \in S : Key(i) = Key(m) /\ i.status = m.status /\ Seq(i) = Seq(m)
             /\ \A i \in S : Key(i) = Key(m) => Seq(i) <= Seq(m)
             /\ \A t \in m.supersedes : \E i \in S : Key(i) = Key(m) /\ t \in i.supersedes
             /\ "resolves-protected" \notin m.tags
             /\ \A i \in S : Key(i) = Key(m) => i.kind = m.kind /\ i.text = m.text
  <2>1. "resolves-protected" \notin m.tags
    BY <1>1, MergedItem DEF CorrectingLedger
  <2>2. \A i \in S : Key(i) = Key(m) => i.kind = m.kind /\ i.text = m.text
    BY <1>1, MergedIsGrounded DEF Key, CorrectingOrdinary, OrdinaryLedger
  <2> QED BY <1>1, <2>1, <2>2, MergedItem
<1> HIDE DEF C
<1>6. ASSUME NEW m \in C PROVE RetiredWell(history, C, m)
  <2> SUFFICES ASSUME m.status = "superseded"
               PROVE  \E c \in C : /\ m.id \in c.supersedes /\ c.status # "superseded"
                                   /\ ValidRetirement(history, c, m)
    BY DEF RetiredWell
  <2>1. PICK i \in S : Key(i) = Key(m) /\ i.status = m.status /\ Seq(i) = Seq(m)
    BY <1>5
  <2>2. PICK c \in S : Replaced(c, i)
    BY <2>1 DEF CorrectingOrdinary
  <2>3. PICK n \in C : /\ n.kind = c.kind /\ n.text = c.text /\ n.tags = c.tags
                       /\ n.supersedes = c.supersedes /\ Seq(n) = Seq(c)
    <3>1. ~IsValue(history, c)
      BY <2>2, CorrectionIsPlain DEF Replaced, IsCorrection
    <3> QED BY <1>4, <3>1
  <2>4. IsCorrection(n)
    BY <2>2, <2>3 DEF Replaced, IsCorrection
  <2>5. CoveredIn(n, Certification(history))
    BY <1>1, <1>2, <2>4, CorrectionIsSaid DEF OrdinaryLedger, IsCorrection
  <2>6. m.id = Key(m) /\ n.status # "superseded"
    BY <1>3, <2>4 DEF Distinct, IsCorrection
  <2>7. Seq(n) > Seq(m) /\ i.text = m.text
    BY <1>5, <2>1, <2>2, <2>3 DEF Replaced
  <2>9. SupportsCorrection(n, m)
    BY <2>2, <2>3, <2>7 DEF Replaced, SupportsCorrection
  <2>8. ValidRetirement(history, n, m)
    BY <2>4, <2>5, <2>7, <2>9 DEF ValidRetirement
  <2> QED BY <2>1, <2>2, <2>3, <2>6, <2>8 DEF Replaced
<1>7. ASSUME NEW m \in C PROVE LinkedWell(C, m)
  <2> SUFFICES ASSUME NEW t \in m.supersedes
               PROVE  \E n \in C : n.id = t /\ Older(m, n)
    BY DEF LinkedWell
  <2>1. PICK i \in S : Key(i) = Key(m) /\ t \in i.supersedes
    BY <1>5
  <2>2. PICK j \in S : ~IsValue(history, j) /\ Key(j) = t /\ Older(i, j)
    BY <2>1 DEF CorrectingOrdinary
  <2>3. PICK n \in C : n.id = Key(j) /\ n.status = j.status /\ Seq(n) = Seq(j)
    BY <1>4, <2>2
  <2>4. Seq(i) <= Seq(m)
    BY <1>5, <2>1
  <2>5. Seq(i) \in Nat /\ Seq(m) \in Nat /\ Seq(j) \in Nat
    BY <1>1, <1>3, TypedSeq
  <2> QED BY <2>2, <2>3, <2>4, <2>5 DEF Older
<1>8. ASSUME NEW m \in C, m.id \in ids PROVE m.supersedes = {}
  <2> SUFFICES ASSUME NEW t \in m.supersedes PROVE FALSE
    OBVIOUS
  <2>1. m.kind = "confirmed_fact" /\ m.text \in Confirms
    BY <1>8 DEF AnsweringLedger, IsAnswer, C
  <2>2. PICK i \in S : Key(i) = Key(m) /\ t \in i.supersedes
    BY <1>5
  <2>3. i.kind = m.kind /\ i.text = m.text
    BY <1>5, <2>2
  <2>4. IsValue(history, i)
    BY <2>1, <2>2, <2>3 DEF CorrectingOrdinary
  <2> QED BY <1>1, <2>1, <2>3, <2>4 DEF IsValue, IsValueOf, Answering
<1>9. AnsweringOrdinary(history, C, ids)
  BY <1>2, <1>5, <1>6, <1>7, <1>8 DEF AnsweringOrdinary, ResolvesWell
<1> QED BY <1>9 DEF C

\* An answer that the resolver takes is one that the verifier takes.
LEMMA AnswerIsValid ==
  ASSUME NEW h, Ordinary(h), NEW r, Grounded(h, r), NEW q, Grounded(h, q),
         AnswerTo(r, q) >= 55
  PROVE  <<r.text, q.text>> \in SupportsAnswer
<1>1. SaidOnce(h) /\ Related(h)
  BY DEF Ordinary
<1>2. PICK s \in SaidIn(h) : s.text = r.text
  BY <1>1, OneStatement
<1>3. PICK t \in SaidIn(h) : t.text = q.text
  BY <1>1, OneStatement
<1> QED BY <1>1, <1>2, <1>3 DEF Related, AnswerTo

\* Closing a question with its answer gives both their reasons.
LEMMA ClosedStaysOrdinary ==
  ASSUME AnsweringLedger(history, items, todo), AnsweringOrdinary(history, items, todo),
         Ordinary(history), NEW r, NEW q, r \in items, r.id \in todo, q \in Answered(r)
  PROVE  AnsweringOrdinary(history,
                           (items \ {r, q})
                              \cup {[q EXCEPT !.status = "superseded"],
                                    Tagged(Linked(r, q.id), "resolves-protected")},
                           todo \ {r.id})
<1> DEFINE u == [q EXCEPT !.status = "superseded"]
           a == Tagged(Linked(r, q.id), "resolves-protected")
           f == [i \in items |-> IF i = r THEN a ELSE IF i = q THEN u ELSE i]
           T == {f[i] : i \in items}
<1>1. /\ q \in items /\ q.kind = "unresolved" /\ q.status = "active" /\ Seq(q) < Seq(r)
      /\ AnswerTo(r, q) >= 55
  BY DEF Answered, Open
<1>2. IsAnswer(history, r)
  BY DEF AnsweringLedger
<1>3. r.kind = "confirmed_fact" /\ r.status = "active" /\ q # r /\ r.supersedes = {}
  BY <1>1, <1>2 DEF IsAnswer, AnsweringOrdinary
<1>4. Typed(items) /\ Distinct(items) /\ q \in Item /\ r \in Item
  BY <1>1 DEF AnsweringLedger, SettledLedger, Typed
<1>5. Grown(u, q) /\ u.status = "superseded" /\ u.supersedes = q.supersedes /\ u.tags = q.tags
  BY <1>4 DEF Item, Grown
<1>6. /\ Grown(a, r) /\ a.supersedes = {q.id} /\ "resolves-protected" \in a.tags
      /\ a.status = r.status
  BY <1>3, <1>4 DEF Tagged, Linked, Item, Grown
<1>7. {f[i] : i \in items} = (items \ {r, q}) \cup {u, a}
  BY <1>1, <1>3
<1> HIDE DEF u, a
<1>8. /\ f[r] = a /\ f[q] = u
      /\ \A i \in items : i # r /\ i # q => f[i] = i
  BY <1>1, <1>3
<1> HIDE DEF f
<1>9. \A i \in items : Grown(f[i], i)
  BY <1>5, <1>6, <1>8 DEF Grown
<1>10. OrdinaryLedger(history, T)
  <2>1. \A c \in items : c.kind = "user_correction" => f[c].supersedes = c.supersedes
    BY <1>1, <1>3, <1>8
  <2> QED BY <1>9, <2>1, GrownStaysOrdinary DEF AnsweringOrdinary
<1>11. ASSUME NEW i \in items
       PROVE  /\ Seq(f[i]) = Seq(i) /\ Roles(history, f[i]) = Roles(history, i)
              /\ IsCorrection(i) => IsCorrection(f[i])
              /\ f[i].id = i.id /\ f[i].kind = i.kind /\ f[i].text = i.text
              /\ f[i].spans = i.spans /\ i.supersedes \subseteq f[i].supersedes
              /\ i.tags \subseteq f[i].tags
              /\ i.status = "superseded" => f[i].status = "superseded"
              /\ i # q => f[i].status = i.status
              /\ i # r => f[i].supersedes = i.supersedes /\ f[i].tags = i.tags
  <2>1. Grown(f[i], i)
    BY <1>9
  <2>2. i # q => f[i].status = i.status
    BY <1>6, <1>8
  <2>3. i # r => f[i].supersedes = i.supersedes /\ f[i].tags = i.tags
    BY <1>5, <1>8
  <2>4. i.status = "superseded" => f[i].status = "superseded"
    BY <1>1, <2>2
  <2> QED BY <2>1, <2>2, <2>3, <2>4, GrownIsAlike DEF Grown
<1>12. ASSUME NEW c \in items, NEW i \in items, ValidResolutionEdge(history, c, i)
       PROVE  ValidResolutionEdge(history, f[c], f[i])
  BY <1>11, <1>12 DEF ValidResolutionEdge, ConfirmedLater
<1>13. ValidResolutionEdge(history, a, u)
  <2>1. <<r.text, q.text>> \in SupportsAnswer
    BY <1>1, AnswerIsValid DEF AnsweringOrdinary, OrdinaryLedger
  <2>2. Seq(r) > Seq(q)
    BY <1>1, <1>4, TypedSeq
  <2>3. ValidResolutionEdge(history, r, q)
    BY <1>1, <1>2, <2>1, <2>2 DEF ValidResolutionEdge, ConfirmedLater, IsAnswer
  <2> QED BY <1>1, <1>8, <1>12, <2>3
<1>14. ASSUME NEW i \in items PROVE RetiredWell(history, T, f[i])
  <2> SUFFICES ASSUME f[i].status = "superseded"
               PROVE  \E c \in items : /\ f[i].id \in f[c].supersedes
                                       /\ f[c].status # "superseded"
                                       /\ ValidRetirement(history, f[c], f[i])
    BY DEF RetiredWell
  <2>1. CASE i = q
    <3>1. ValidRetirement(history, a, u)
      BY <1>6, <1>13 DEF ValidRetirement
    <3> QED BY <1>1, <1>3, <1>6, <1>8, <1>11, <2>1, <3>1
  <2>2. CASE i # q
    <3>1. PICK c \in items : /\ i.id \in c.supersedes /\ c.status # "superseded"
                             /\ ValidRetirement(history, c, i)
      BY <1>11, <2>2 DEF AnsweringOrdinary, RetiredWell
    <3>2. c # q
      BY <1>1, <3>1 DEF ValidRetirement, IsCorrection, ValidResolutionEdge, ConfirmedLater
    <3>3. CoveredIn(c, Certification(history)) => CoveredIn(f[c], Certification(history))
      BY <1>11 DEF CoveredIn, Covers
    <3>5. SupportsCorrection(c, i) => SupportsCorrection(f[c], f[i])
      BY <1>11 DEF SupportsCorrection
    <3>4. ValidRetirement(history, f[c], f[i])
      BY <1>11, <1>12, <3>1, <3>3, <3>5 DEF ValidRetirement
    <3> QED BY <1>11, <3>1, <3>2, <3>4
  <2> QED BY <2>1, <2>2
<1>15. ASSUME NEW i \in items PROVE LinkedWell(T, f[i])
  <2> SUFFICES ASSUME NEW t \in f[i].supersedes
               PROVE  \E j \in items : f[j].id = t /\ Older(f[i], f[j])
    BY DEF LinkedWell
  <2>1. CASE i = r
    <3>1. t = q.id
      BY <1>6, <1>8, <2>1
    <3>2. Older(f[r], f[q])
      BY <1>1, <1>5, <1>8, <1>11 DEF Older
    <3> QED BY <1>1, <1>11, <2>1, <3>1, <3>2
  <2>2. CASE i # r
    <3>1. PICK j \in items : j.id = t /\ Older(i, j)
      BY <1>11, <2>2 DEF AnsweringOrdinary, LinkedWell
    <3>2. Older(f[i], f[j])
      BY <1>11, <3>1 DEF Older
    <3> QED BY <1>11, <3>1, <3>2
  <2> QED BY <2>1, <2>2
<1>16. ASSUME NEW i \in items PROVE ResolvesWell(history, T, f[i])
  <2> SUFFICES ASSUME "resolves-protected" \in f[i].tags
               PROVE  \E j \in items : /\ f[i].supersedes = {f[j].id}
                                       /\ ValidResolutionEdge(history, f[i], f[j])
    BY DEF ResolvesWell
  <2>1. CASE i = r
    BY <1>1, <1>6, <1>8, <1>11, <1>13, <2>1
  <2>2. CASE i # r
    <3>1. PICK j \in items : i.supersedes = {j.id} /\ ValidResolutionEdge(history, i, j)
      BY <1>11, <2>2 DEF AnsweringOrdinary, ResolvesWell
    <3> QED BY <1>11, <1>12, <2>2, <3>1
  <2> QED BY <2>1, <2>2
<1>17. ASSUME NEW i \in items, f[i].id \in todo \ {r.id} PROVE f[i].supersedes = {}
  BY <1>11, <1>17 DEF AnsweringOrdinary
<1>18. AnsweringOrdinary(history, T, todo \ {r.id})
  BY <1>10, <1>14, <1>15, <1>16, <1>17 DEF AnsweringOrdinary
<1> QED BY <1>7, <1>18 DEF u, a

-----------------------------------------------------------------------------
(* Conflicts of an ordinary history.                                       *)

Contradictable == {"constraint", "confirmed_fact", "decision"}

\* A text of two kinds is a correction's with two values.
LEMMA TwoKinds ==
  ASSUME NEW h, SaidOnce(h), NEW S, OrdinaryLedger(h, S), Distinct(S),
         NEW i \in S, i.kind \in Contradictable, NEW j \in S, j.kind \in Contradictable,
         i.text = j.text, i.kind # j.kind
  PROVE  \E s \in SaidIn(h) : s.text = i.text /\ s.twin # None /\ ~OneKind(h, s)
<1>1. Grounded(h, i) /\ Grounded(h, j) /\ OfItsKind(h, S, i) /\ OfItsKind(h, S, j)
  BY DEF OrdinaryLedger
<1>2. PICK s \in SaidIn(h) :
         /\ s.text = i.text /\ (i.kind = s.kind \/ IsValueOf(i, s))
         /\ \A t \in SaidIn(h) : t.text = i.text => t = s
  BY <1>1, OneStatement
<1>3. PICK t \in SaidIn(h) : t.text = j.text /\ (j.kind = t.kind \/ IsValueOf(j, t))
  BY <1>1, OneStatement
<1>4. t = s
  BY <1>2, <1>3
<1>5. IsValueOf(i, s) /\ IsValueOf(j, s)
  BY <1>2, <1>3, <1>4 DEF IsValueOf, Contradictable
<1>6. (i.kind = s.twin \/ MadeFor(h, S, i, s)) /\ (j.kind = s.twin \/ MadeFor(h, S, j, s))
  BY <1>1, <1>5 DEF OfItsKind
<1>7. ~(MadeFor(h, S, i, s) /\ MadeFor(h, S, j, s))
  <2> SUFFICES ASSUME MadeFor(h, S, i, s), MadeFor(h, S, j, s) PROVE FALSE
    OBVIOUS
  <2>1. PICK u \in SaidIn(h) :
           /\ u.kind = i.kind
           /\ \E c \in S : /\ c.kind = "user_correction" /\ c.text = i.text
                           /\ c.supersedes = {Key(u)}
    BY DEF MadeFor
  <2>2. PICK w \in SaidIn(h) :
           /\ w.kind = j.kind
           /\ \E c \in S : /\ c.kind = "user_correction" /\ c.text = j.text
                           /\ c.supersedes = {Key(w)}
    BY DEF MadeFor
  <2>3. PICK c \in S : /\ c.kind = "user_correction" /\ c.text = i.text
                       /\ c.supersedes = {Key(u)}
    BY <2>1
  <2>4. PICK d \in S : /\ d.kind = "user_correction" /\ d.text = j.text
                       /\ d.supersedes = {Key(w)}
    BY <2>2
  <2>5. c = d
    BY <2>3, <2>4 DEF Distinct, Key
  <2>6. Key(u) = Key(w)
    BY <2>3, <2>4, <2>5
  <2> QED BY <2>1, <2>2, <2>6 DEF Key
<1>8. s.twin \in {i.kind, j.kind}
  BY <1>6, <1>7
<1>9. s.twin # None
  BY <1>8, LedgerAssumption DEF Contradictable, Kind
<1>10. ~OneKind(h, s)
  <2>1. i.text \notin Revokes /\ \E u \in SaidIn(h) : Replaces(s, u) /\ u.kind # s.twin
    BY <1>6, <1>7, <1>8 DEF MadeFor
  <2> QED BY <1>2, <2>1 DEF OneKind
<1> QED BY <1>2, <1>9, <1>10

\* Two pairs with the same texts are one pair.
LEMMA OnePair ==
  ASSUME NEW h, Ordinary(h), NEW S, OrdinaryLedger(h, S), Distinct(S),
         NEW l \in S, NEW r \in S, Contradicts(l, r),
         NEW x \in S, NEW y \in S, Contradicts(x, y),
         l.text = x.text, r.text = y.text
  PROVE  l = x /\ r = y
<1>1. /\ l.kind = r.kind /\ x.kind = y.kind /\ l.kind \in Contradictable
      /\ x.kind \in Contradictable /\ {l.text, r.text} \in Opposed
  BY DEF Contradicts, Contradictable
<1>2. SaidOnce(h) /\ KindsAgree(h)
  BY DEF Ordinary
<1>3. CASE l.kind = x.kind
  <2>1. Key(l) = Key(x) /\ Key(r) = Key(y)
    BY <1>1, <1>3 DEF Key
  <2> QED BY <2>1 DEF Distinct
<1>4. CASE l.kind # x.kind
  <2>1. PICK s \in SaidIn(h) : s.text = l.text /\ s.twin # None /\ ~OneKind(h, s)
    BY <1>1, <1>2, <1>4, TwoKinds
  <2>2. PICK t \in SaidIn(h) : t.text = r.text /\ t.twin # None /\ ~OneKind(h, t)
    BY <1>1, <1>2, <1>4, TwoKinds
  <2> QED BY <1>1, <1>2, <2>1, <2>2 DEF KindsAgree
<1> QED BY <1>3, <1>4

\* Whoever says what an item says may say it.
LEMMA AuthorsMay ==
  ASSUME NEW h \in Histories, SaidOnce(h), NEW i, Grounded(h, i),
         NEW x, x.kind = i.kind, x.spans = i.spans
  PROVE  ~UnauthorizedSource(h, x)
<1>1. PICK s \in h[Seq(i)].says : /\ s \in SaidIn(h) /\ s.text = i.text
                                  /\ i.kind = s.kind \/ IsValueOf(i, s)
  BY OneStatement
<1>2. Seq(i) \in Source /\ i.spans = {<<Seq(i), i.text>>}
  BY OneStatement
<1>3. MayAuthor(h[Seq(i)].role, s.kind) /\ s.kind \in Kind
  BY <1>1, <1>2, HistoryRecords DEF Classified
<1>4. Roles(h, x) = {h[Seq(i)].role}
  BY <1>2 DEF Roles, Sources
<1>5. s.kind \in AuthorityGated => h[Seq(i)].role = "user"
  BY <1>3 DEF MayAuthor, AuthorityGated
<1>6. s.kind \in {"unresolved", "decision"} => h[Seq(i)].role # "tool"
  BY <1>3 DEF MayAuthor, AuthorityGated
<1>7. i.kind # s.kind => h[Seq(i)].role = "user"
  BY <1>1, <1>5 DEF IsValueOf, AuthorityGated
<1> QED BY <1>4, <1>5, <1>6, <1>7 DEF UnauthorizedSource

\* What a mark does to an item of an ordinary ledger.
LEMMA MarkOfOrdinary ==
  ASSUME Typed(items), Distinct(items), OrdinaryLedger(history, items), NEW i \in items
  PROVE  /\ Marked(i) \in Item /\ Alike(Marked(i), i) /\ Marked(i).id = i.id
         /\ Key(Marked(i)) = Key(i) /\ Seq(Marked(i)) = Seq(i)
         /\ IsCorrection(Marked(i)) <=> IsCorrection(i)
         /\ Marked(i).status = "conflicting" <=> Opponents(i) # {}
         /\ Marked(i).conflicts = IdsOf(Opponents(i))
<1>1. i \in Item /\ i.conflicts = {} /\ i.status # "conflicting"
  BY DEF Typed, OrdinaryLedger, Grounded
<1>2. Marked(i) \in Item /\ Alike(Marked(i), i)
  BY MarkedIsAlike DEF Typed
<1>3. /\ Key(Marked(i)) = Key(i) /\ Seq(Marked(i)) = Seq(i)
      /\ IsCorrection(Marked(i)) <=> IsCorrection(i)
  BY <1>2 DEF Alike, Key, Seq, Sources, IsCorrection
<1>4. CASE Opponents(i) = {}
  BY <1>1, <1>2, <1>3, <1>4 DEF Marked, IdsOf
<1>5. CASE Opponents(i) # {}
  <2>1. Marked(i) = [i EXCEPT !.status = "conflicting", !.conflicts = @ \cup IdsOf(Opponents(i))]
    BY <1>5 DEF Marked
  <2> HIDE DEF Marked
  <2>2. /\ Marked(i).status = "conflicting" /\ Marked(i).id = i.id
        /\ Marked(i).conflicts = IdsOf(Opponents(i))
    BY <1>1, <2>1 DEF Item
  <2> QED BY <1>2, <1>3, <1>5, <2>2
<1> QED BY <1>4, <1>5

\* The ledger with its marks M and nodes N.
MarkedLedger(S, T) ==
    /\ Distinct(T) /\ Typed(T)
    /\ \A i \in S : Marked(i) \in T
    /\ \A x \in T : \/ \E i \in S : x = Marked(i)
                    \/ \E l, r \in S : Contradicts(l, r) /\ x = ConflictNode(l, r)

\* Items and conflict nodes have ids of their own.
LEMMA MarksAreDistinct ==
  ASSUME AnsweringLedger(history, items, todo), AnsweringOrdinary(history, items, todo),
         Ordinary(history), NEW left \in [Pairs -> items],
         \A pair \in Pairs : left[pair] \in pair
  PROVE  MarkedLedger(items,
            {Marked(i) : i \in items}
               \cup {ConflictNode(left[pair], CHOOSE i \in pair : i # left[pair])
                        : pair \in Pairs})
<1> DEFINE right(pair) == CHOOSE i \in pair : i # left[pair]
           M == {Marked(i) : i \in items}
           N == {ConflictNode(left[pair], right(pair)) : pair \in Pairs}
           T == M \cup N
<1>1. Atomic(items) /\ Typed(items) /\ Distinct(items) /\ OrdinaryLedger(history, items)
  BY DEF AnsweringLedger, SettledLedger, AnsweringOrdinary
<1>2. ASSUME NEW i \in items
      PROVE  Marked(i) \in Item /\ Alike(Marked(i), i) /\ Marked(i).id = i.id
  BY <1>1, MarkOfOrdinary
<1>3. ASSUME NEW pair \in Pairs
      PROVE  /\ left[pair] \in items /\ right(pair) \in items
             /\ pair = {left[pair], right(pair)} /\ Contradicts(left[pair], right(pair))
  <2>1. PICK y \in items \X items : Contradicts(y[1], y[2]) /\ pair = {y[1], y[2]}
    BY DEF Pairs
  <2>2. y[1] \in items /\ y[2] \in items /\ y[1] # y[2] /\ Contradicts(y[2], y[1])
    <3>1. {y[1].text, y[2].text} = {y[2].text, y[1].text}
      OBVIOUS
    <3> QED BY <2>1, <3>1 DEF Contradicts
  <2>3. \E i \in pair : i # left[pair]
    BY <2>1, <2>2
  <2>4. right(pair) \in pair /\ right(pair) # left[pair]
    BY <2>3
  <2> HIDE DEF right
  <2> QED BY <2>1, <2>2, <2>4
<1> HIDE DEF right
<1>4. ASSUME NEW n \in N
      PROVE  /\ n \in Item /\ n.spans # {} /\ n.text \notin Text /\ IsNode(n) /\ n.id = Key(n)
             /\ \E pair \in Pairs : n = ConflictNode(left[pair], right(pair))
  <2>1. PICK pair \in Pairs : n = ConflictNode(left[pair], right(pair))
    OBVIOUS
  <2>2. n.id = Key(n)
    BY <2>1 DEF ConflictNode, Key
  <2> QED BY <1>1, <1>3, <2>1, <2>2, NodeIsTyped DEF Typed, Atomic
<1>5. ASSUME NEW x \in M
      PROVE  \E i \in items : x = Marked(i) /\ x \in Item /\ Alike(x, i) /\ x.id = i.id
  BY <1>2
<1>6. \A x \in M : x.text \in Text /\ x.spans # {} /\ x \in Item
  BY <1>1, <1>5 DEF Alike, Typed, Atomic
<1>7. Typed(T)
  <2> HIDE DEF M, N
  <2> QED BY <1>4, <1>6 DEF Typed
<1>8. \A x \in T : /\ x.id = Key(x)
                   /\ x.kind = "user_correction" => x.status # "superseded"
                   /\ "resolves-protected" \in x.tags => x.kind = "confirmed_fact"
  <2>1. ASSUME NEW x \in M
        PROVE  /\ x.id = Key(x)
               /\ x.kind = "user_correction" => x.status # "superseded"
               /\ "resolves-protected" \in x.tags => x.kind = "confirmed_fact"
    <3>1. PICK i \in items : Alike(x, i) /\ x.id = i.id
      BY <1>5
    <3> QED BY <1>1, <3>1 DEF Alike, Distinct, Key
  <2> HIDE DEF M, N
  <2> QED BY <1>4, <2>1 DEF IsNode
<1>9. ASSUME NEW x \in M, NEW y \in M, Key(x) = Key(y) PROVE x = y
  <2>1. PICK i \in items : x = Marked(i) /\ Alike(x, i)
    BY <1>5
  <2>2. PICK j \in items : y = Marked(j) /\ Alike(y, j)
    BY <1>5
  <2>3. Key(i) = Key(j)
    BY <1>9, <2>1, <2>2 DEF Alike, Key
  <2> QED BY <1>1, <2>1, <2>2, <2>3 DEF Distinct
<1>10. ASSUME NEW x \in N, NEW y \in N, Key(x) = Key(y) PROVE x = y
  <2>1. PICK p \in Pairs : x = ConflictNode(left[p], right(p))
    BY <1>4
  <2>2. PICK q \in Pairs : y = ConflictNode(left[q], right(q))
    BY <1>4
  <2>0. /\ left[p] \in items /\ right(p) \in items
        /\ left[q] \in items /\ right(q) \in items
    BY <1>3
  <2> DEFINE u == <<left[p].text, right(p).text>>
             v == <<left[q].text, right(q).text>>
  <2>5. Norm[u] = Norm[v]
    BY <1>10, <2>1, <2>2 DEF ConflictNode, Key
  <2>6. u \in Text \X Text /\ v \in Text \X Text
    BY <1>1, <2>0 DEF Atomic
  <2>7. \A k \in {1, 2} : Norm[u[k]] = Norm[v[k]]
    <3> HIDE DEF u, v
    <3> QED BY <2>5, <2>6, LedgerAssumption
  <2>8. /\ Norm[left[p].text] = Norm[left[q].text]
        /\ Norm[right(p).text] = Norm[right(q).text]
    BY <2>7
  <2>3. left[p].text = left[q].text /\ right(p).text = right(q).text
    BY <1>1, <2>0, <2>8, OneSource DEF OrdinaryLedger, Ordinary
  <2>4. left[p] = left[q] /\ right(p) = right(q)
    BY <1>1, <1>3, <2>3, OnePair
  <2> QED BY <2>1, <2>2, <2>4
<1>11. \A x \in M, y \in N : Key(x) # Key(y)
  BY <1>4, <1>6, SameSort DEF Key, Item
<1>12. Distinct(T)
  <2>1. \A x, y \in T : Key(x) = Key(y) => x = y
    <3> HIDE DEF M, N
    <3> QED BY <1>9, <1>10, <1>11
  <2> HIDE DEF T
  <2> QED BY <1>8, <2>1 DEF Distinct
<1>13. \A x \in T : \/ \E i \in items : x = Marked(i)
                    \/ \E l, r \in items : Contradicts(l, r) /\ x = ConflictNode(l, r)
  BY <1>3
<1>14. MarkedLedger(items, T)
  <2>1. \A i \in items : Marked(i) \in T
    OBVIOUS
  <2> HIDE DEF T
  <2> QED BY <1>7, <1>12, <1>13, <2>1 DEF MarkedLedger
<1> QED BY <1>14 DEF right


\* What is not superseded is current.
LEMMA CurrentStatus ==
  ASSUME NEW i \in Item, i.status # "superseded"
  PROVE  i.status \in {"active", "conflicting"}
BY DEF Item, Status

\* Each marked item passes the checks,
LEMMA MarkVerifies ==
  ASSUME AnsweringLedger(history, items, todo), AnsweringOrdinary(history, items, todo),
         Ordinary(history), history \in Histories, NEW T, MarkedLedger(items, T), NEW i \in items
  PROVE  Verifies(history, T, Marked(i))
<1> DEFINE x == Marked(i)
<1>1. Typed(items) /\ Distinct(items) /\ OrdinaryLedger(history, items)
  BY DEF AnsweringLedger, SettledLedger, AnsweringOrdinary
<1>2. ASSUME NEW j \in items
      PROVE  /\ Marked(j) \in T /\ Marked(j) \in Item /\ Alike(Marked(j), j)
             /\ Marked(j).id = j.id /\ Seq(Marked(j)) = Seq(j)
             /\ IsCorrection(Marked(j)) <=> IsCorrection(j)
             /\ Marked(j).status = "conflicting" <=> Opponents(j) # {}
             /\ Marked(j).conflicts = IdsOf(Opponents(j))
             /\ Roles(history, Marked(j)) = Roles(history, j)
             /\ Seq(j) \in Nat /\ j.id = Key(j)
  <2>1. Roles(history, Marked(j)) = Roles(history, j)
    BY <1>1, MarkOfOrdinary DEF Alike, Roles, Sources
  <2> QED BY <1>1, <2>1, MarkOfOrdinary, TypedSeq DEF MarkedLedger, Distinct
<1>3. ASSUME NEW j \in items, NEW y \in T, y.id = j.id PROVE y = Marked(j)
  <2>1. Key(y) = Key(Marked(j))
    BY <1>2, <1>3 DEF MarkedLedger, Distinct
  <2> QED BY <1>2, <2>1 DEF MarkedLedger, Distinct
<1>4. x.supersedes = i.supersedes /\ x.tags = i.tags /\ x.kind = i.kind /\ x.text = i.text /\ x.spans = i.spans
  BY <1>2 DEF Alike
<1>5. Grounded(history, i) /\ SaidOnce(history)
  BY <1>1 DEF OrdinaryLedger, Ordinary
<1>6. /\ RetiredWell(history, items, i) /\ LinkedWell(items, i)
      /\ ResolvesWell(history, items, i)
  BY DEF AnsweringOrdinary
<1>7. ASSUME NEW c \in items, NEW j \in items, ValidResolutionEdge(history, c, j)
      PROVE  ValidResolutionEdge(history, Marked(c), Marked(j))
  BY <1>2, <1>7 DEF ValidResolutionEdge, ConfirmedLater, Alike
<1> HIDE DEF x
<1>8. ~InvalidSupersessionEdge(x, T)
  <2> SUFFICES ASSUME NEW t \in x.supersedes PROVE t # x.id /\ \E y \in T : y.id = t
    BY DEF InvalidSupersessionEdge
  <2>1. PICK j \in items : j.id = t /\ Older(i, j)
    BY <1>4, <1>6 DEF LinkedWell
  <2>2. j # i
    BY <1>2, <2>1 DEF Older
  <2>3. j.id # i.id
    BY <1>1, <2>2 DEF Distinct
  <2> QED BY <1>2, <2>1, <2>3 DEF x
<1>9. ~InvalidSupersessionOrder(x, T)
  <2> SUFFICES ASSUME NEW y \in T, y.id \in x.supersedes
               PROVE  y.status = "superseded" /\ ~(Seq(x) <= Seq(y))
    BY DEF InvalidSupersessionOrder
  <2>1. PICK j \in items : j.id = y.id /\ Older(i, j)
    BY <1>4, <1>6 DEF LinkedWell
  <2>2. y = Marked(j)
    BY <1>3, <2>1
  <2>3. Seq(y) = Seq(j) /\ Seq(x) = Seq(i) /\ y.status = "superseded"
    BY <1>2, <2>1, <2>2 DEF x, Alike, Older
  <2> QED BY <1>2, <2>1, <2>3 DEF Older
<1>10. ~InvalidConflictEdge(x, T)
  <2> SUFFICES ASSUME x.status = "conflicting"
               PROVE  /\ x.conflicts # {}
                      /\ \A t \in x.conflicts :
                            \E y \in T : /\ y.id = t /\ y.status = "conflicting"
                                         /\ x.id \in y.conflicts
    BY DEF InvalidConflictEdge
  <2>1. Opponents(i) # {} /\ x.conflicts = IdsOf(Opponents(i)) /\ x.id = i.id
    BY <1>2 DEF x
  <2>2. ASSUME NEW j \in Opponents(i)
        PROVE  /\ Marked(j) \in T /\ Marked(j).id = j.id /\ Marked(j).status = "conflicting"
               /\ x.id \in Marked(j).conflicts
    <3>1. j \in items /\ Contradicts(i, j)
      BY <2>2 DEF Opponents
    <3>2. {i.text, j.text} = {j.text, i.text}
      OBVIOUS
    <3>3. i \in Opponents(j)
      BY <3>1, <3>2 DEF Opponents, Contradicts
    <3> QED BY <1>2, <2>1, <3>1, <3>3 DEF IdsOf
  <2> QED BY <2>1, <2>2 DEF IdsOf
<1>11. ~InvalidInternalConflict(x, T)
  BY <1>4, <1>5 DEF InvalidInternalConflict, Grounded
<1>12. ~InvalidCorrectionDerived(x, T)
  <2> SUFFICES ASSUME "correction-derived" \in x.tags
               PROVE  /\ x.kind # "user_correction"
                      /\ \E c \in T : /\ IsCorrection(c) /\ Seq(c) = Seq(x)
                                      /\ x.spans \subseteq c.spans
    BY DEF InvalidCorrectionDerived
  <2>4. x.kind # "user_correction"
    BY <1>1, <1>4 DEF OrdinaryLedger, Backed
  <2>1. PICK c \in items : IsCorrection(c) /\ c.text = i.text
    BY <1>1, <1>4 DEF OrdinaryLedger, Backed
  <2>2. c.spans = i.spans /\ Seq(c) = Seq(i)
    BY <1>1, <1>5, <2>1, OneSource DEF OrdinaryLedger
  <2>3. Marked(c).spans = c.spans
    BY <1>2 DEF Alike
  <2> QED BY <1>2, <1>4, <2>1, <2>2, <2>3, <2>4 DEF x
<1>13. ~InvalidProtectedResolution(history, x, T)
  <2> SUFFICES ASSUME "resolves-protected" \in x.tags
               PROVE  /\ \E y \in T : y.id \in x.supersedes
                      /\ \A y \in T : y.id \in x.supersedes => ValidResolutionEdge(history, x, y)
    BY DEF InvalidProtectedResolution
  <2>1. PICK q \in items : i.supersedes = {q.id} /\ ValidResolutionEdge(history, i, q)
    BY <1>4, <1>6 DEF ResolvesWell
  <2>2. Marked(q) \in T /\ Marked(q).id = q.id /\ ValidResolutionEdge(history, x, Marked(q))
    BY <1>2, <1>7, <2>1 DEF x
  <2> QED BY <1>3, <1>4, <2>1, <2>2
<1>14. ~OrphanedSupersededItem(history, x, T)
  <2> SUFFICES ASSUME x.status = "superseded"
               PROVE  \E c \in T : /\ x.id \in c.supersedes
                                   /\ c.status \in {"active", "conflicting"}
                                   /\ ValidRetirement(history, c, x)
    BY DEF OrphanedSupersededItem
  <2>1. i.status = "superseded"
    BY <1>2 DEF x, Alike
  <2>2. PICK c \in items : /\ i.id \in c.supersedes /\ c.status # "superseded"
                           /\ ValidRetirement(history, c, i)
    BY <1>6, <2>1 DEF RetiredWell
  <2>3. Marked(c).status \in {"active", "conflicting"}
    BY <1>2, <2>2, CurrentStatus DEF Alike
  <2>4. CoveredIn(c, Certification(history)) => CoveredIn(Marked(c), Certification(history))
    BY <1>2 DEF CoveredIn, Covers, Alike
  <2>7. SupportsCorrection(c, i) => SupportsCorrection(Marked(c), x)
    BY <1>2 DEF SupportsCorrection, x, Alike
  <2>5. ValidRetirement(history, Marked(c), x)
    BY <1>2, <1>7, <2>2, <2>4, <2>7 DEF ValidRetirement, x, Alike
  <2>6. x.id = i.id /\ Marked(c).supersedes = c.supersedes /\ Marked(c) \in T
    BY <1>2 DEF x, Alike
  <2> QED BY <2>2, <2>3, <2>5, <2>6
<1>15. ~UnauthorizedSource(history, x)
  BY <1>4, <1>5, AuthorsMay
<1>18. x.spans = {<<Seq(i), x.text>>}
  BY <1>4, <1>5, OneStatement
<1>16. ~LiteralChanged(x) /\ ~ExactnessDisabled(x)
  BY <1>4, <1>5, <1>18 DEF LiteralChanged, ExactnessDisabled, Grounded
<1>19. ~FactWithoutEvidence(history, x) /\ ~UncertainFact(x)
  <2>1. CASE x.kind = "confirmed_fact"
    <3>1. PICK s \in history[Seq(i)].says :
             s.text = i.text /\ \A t \in SaidIn(history) : Norm[t.text] = Norm[i.text] => t = s
      BY <1>5, OneStatement
    <3>2. x.text \notin Uncertain /\ \E t \in SaidIn(history) : t.text = x.text /\ t.evidenced
      BY <1>4, <1>5, <2>1 DEF Grounded, Stands
    <3>3. s.text = x.text /\ s.evidenced
      BY <1>4, <3>1, <3>2
    <3>4. HasConfirmation(history, <<Seq(i), x.text>>)
      BY <3>1, <3>3 DEF HasConfirmation
    <3> QED BY <1>18, <3>2, <3>4 DEF FactWithoutEvidence, UncertainFact
  <2> QED BY <2>1 DEF FactWithoutEvidence, UncertainFact
<1>17. Verifies(history, T, x)
  BY <1>8, <1>9, <1>10, <1>11, <1>12, <1>13, <1>14, <1>15, <1>16, <1>19 DEF Verifies
<1> QED BY <1>17 DEF x

\* and so does each node.
LEMMA NodeVerifies ==
  ASSUME AnsweringLedger(history, items, todo), AnsweringOrdinary(history, items, todo),
         Ordinary(history), NEW T, MarkedLedger(items, T),
         NEW l \in items, NEW r \in items, Contradicts(l, r)
  PROVE  Verifies(history, T, ConflictNode(l, r))
<1> DEFINE n == ConflictNode(l, r)
<1>1. Typed(items) /\ Distinct(items) /\ OrdinaryLedger(history, items)
  BY DEF AnsweringLedger, SettledLedger, AnsweringOrdinary
<1>2. /\ n.kind = "unresolved" /\ n.text = <<l.text, r.text>> /\ n.spans = l.spans \cup r.spans
      /\ n.status = "active" /\ n.tags = {"detected-conflict"} /\ n.supersedes = {}
      /\ n.conflicts = {l.id, r.id}
  BY DEF ConflictNode
<1> HIDE DEF n
<1>3. /\ Grounded(history, l) /\ Grounded(history, r)
      /\ SaidOnce(history) /\ ToolsAgree(history)
  BY <1>1 DEF OrdinaryLedger, Ordinary
<1>4. /\ l \in Opponents(r) /\ r \in Opponents(l)
      /\ {l.text, r.text} \in Opposed /\ {r.text, l.text} \in Opposed /\ l # r
  <2>1. {l.text, r.text} = {r.text, l.text}
    OBVIOUS
  <2> QED BY <2>1 DEF Opponents, Contradicts
<1>5. ValidInternalConflict(n, T)
  <2> DEFINE a == Marked(l)
             b == Marked(r)
  <2>1. /\ a \in T /\ b \in T /\ a.id = l.id /\ b.id = r.id
        /\ a.status = "conflicting" /\ b.status = "conflicting"
        /\ a.conflicts = IdsOf(Opponents(l)) /\ b.conflicts = IdsOf(Opponents(r))
        /\ Alike(a, l) /\ Alike(b, r)
    BY <1>1, <1>4, MarkOfOrdinary DEF MarkedLedger
  <2>2. b.id \in a.conflicts /\ a.id \in b.conflicts
    BY <1>4, <2>1 DEF IdsOf
  <2>3. a # b
    BY <1>1, <1>4, <2>1 DEF Distinct
  <2> HIDE DEF a, b
  <2>4. a.text = l.text /\ b.text = r.text /\ a.spans = l.spans /\ b.spans = r.spans
    BY <2>1 DEF Alike
  <2> QED BY <1>2, <2>1, <2>2, <2>3, <2>4 DEF ValidInternalConflict
<1>6. "tool" \notin Roles(history, n)
  <2>1. PICK s \in history[Seq(l)].says : s.text = l.text
    BY <1>3, OneStatement
  <2>2. PICK t \in history[Seq(r)].says : t.text = r.text
    BY <1>3, OneStatement
  <2>3. /\ Seq(l) \in Source /\ l.spans = {<<Seq(l), l.text>>}
        /\ Seq(r) \in Source /\ r.spans = {<<Seq(r), r.text>>}
    BY <1>3, OneStatement
  <2>4. history[Seq(l)].role # "tool" /\ history[Seq(r)].role # "tool"
    BY <1>3, <1>4, <2>1, <2>2, <2>3 DEF ToolsAgree
  <2> QED BY <1>2, <2>3, <2>4 DEF Roles, Sources
<1>7. ~UnauthorizedSource(history, n)
  BY <1>2, <1>6 DEF UnauthorizedSource, AuthorityGated
<1>8. Verifies(history, T, n)
  BY <1>2, <1>5, <1>7
     DEF Verifies, InvalidSupersessionEdge, InvalidSupersessionOrder, InvalidConflictEdge,
         InvalidInternalConflict, InvalidCorrectionDerived, InvalidProtectedResolution,
         OrphanedSupersededItem, FactWithoutEvidence, UncertainFact, ExactnessDisabled,
         LiteralChanged
<1> QED BY <1>8 DEF n

\* Marks and nodes put no words in a mouth.
LEMMA MarksAreSaid ==
  ASSUME AnsweringLedger(history, items, todo), AnsweringOrdinary(history, items, todo),
         Ordinary(history), NEW T, MarkedLedger(items, T)
  PROVE  AsSaid(history, T)
<1> SUFFICES ASSUME NEW x \in T, x.text \in Text
             PROVE  \E s \in SaidIn(history) : s.text = x.text
  BY DEF AsSaid
<1>1. Typed(items) /\ Atomic(items) /\ Distinct(items) /\ OrdinaryLedger(history, items)
  BY DEF AnsweringLedger, SettledLedger, AnsweringOrdinary
<1>2. CASE \E i \in items : x = Marked(i)
  <2>1. PICK i \in items : x = Marked(i)
    BY <1>2
  <2>2. x.text = i.text /\ Grounded(history, i)
    BY <1>1, <2>1, MarkOfOrdinary DEF Alike, OrdinaryLedger
  <2> QED BY <2>2, OneStatement DEF Ordinary
<1>3. CASE \E l, r \in items : x = ConflictNode(l, r)
  <2>1. PICK l \in items, r \in items : x = ConflictNode(l, r)
    BY <1>3
  <2>2. x.text \in Text \X Text
    BY <1>1, <2>1 DEF ConflictNode, Atomic
  <2> QED BY <2>2, LedgerAssumption
<1> QED BY <1>2, <1>3 DEF MarkedLedger
-----------------------------------------------------------------------------
(* Every phase of the compilation of an ordinary history.                  *)

\* A refusal leaves no ledger to verify.
LEMMA RaiseStaysOrdinary ==
  ASSUME OrdinaryInv, Raise
  PROVE  OrdinaryInv'
BY DEF OrdinaryInv, Raise, OrdinaryAt, Histories, Ordinary, Records

\* A phase that ends with an ordinary ledger, or over the limits, keeps the
\* invariant.
LEMMA ContinueStaysOrdinary ==
  ASSUME OrdinaryInv, NEW S, NEW next, next \notin {"verify", "done"}, NEW ids,
         Continue(S, next, ids),
         Ordinary(history) => OrdinaryAt(history, next, S, ids, selected, issues)
  PROVE  OrdinaryInv'
<1>1. CASE items' = S /\ phase' = next /\ todo' = ids /\ UNCHANGED <<history, selected, issues>>
  BY <1>1 DEF OrdinaryInv
<1>2. CASE Raise
  BY <1>2, RaiseStaysOrdinary
<1> QED BY <1>1, <1>2 DEF Continue

\* Up to the first merge.
LEMMA ExtractionStaysOrdinary ==
  ASSUME ResolutionInv, LedgerInv, OrdinaryInv,
         ExtractByRules \/ ExtractByModel \/ Recover \/ Begin
  PROVE  OrdinaryInv'
<1>1. Ordinary(history) => RawOrdinary(history, Rules(history))
  BY RulesAreOrdinary DEF OrdinaryInv, Ordinary
<1>2. Rules(history) \subseteq Item
  BY RulesAreRaw DEF ResolutionInv, TypeOK, RawLedger, Typed
<1>3. (phase \in {"extract", "recover", "canonicalize"} /\ Ordinary(history))
         => RawOrdinary(history, items)
  BY DEF OrdinaryInv, OrdinaryAt
<1>4. CASE ExtractByRules
  <2>1. Ordinary(history) => OrdinaryAt(history, "recover", Rules(history), {}, selected, issues)
    BY <1>1 DEF OrdinaryAt
  <2> QED BY <1>4, <2>1, ContinueStaysOrdinary DEF ExtractByRules
<1>5. CASE ExtractByModel
  <2>1. PICK found \in SUBSET Rules(history) :
               Continue({ByModel(i) : i \in found}, "recover", {})
    BY <1>5 DEF ExtractByModel
  <2>2. Ordinary(history) => RawOrdinary(history, found)
    BY <1>1 DEF RawOrdinary
  <2>3. Ordinary(history) => RawOrdinary(history, {ByModel(i) : i \in found})
    BY <1>2, <2>2, ModelIsOrdinary
  <2>4. Ordinary(history) =>
           OrdinaryAt(history, "recover", {ByModel(i) : i \in found}, {}, selected, issues)
    BY <2>3 DEF OrdinaryAt
  <2> QED BY <2>1, <2>4, ContinueStaysOrdinary
<1>6. CASE Recover
  <2> DEFINE missed == {c \in Rules(history) : ~CoveredIn(c, items)}
  <2>1. Ordinary(history) => RawOrdinary(history, items \cup missed)
    BY <1>1, <1>3, <1>6 DEF Recover, RawOrdinary
  <2>2. Continue(items \cup missed, "canonicalize", {})
    BY <1>6 DEF Recover
  <2> HIDE DEF missed
  <2>3. Ordinary(history) =>
           OrdinaryAt(history, "canonicalize", items \cup missed, {}, selected, issues)
    BY <2>1 DEF OrdinaryAt
  <2> QED BY <2>2, <2>3, ContinueStaysOrdinary
<1>7. CASE Begin
  <2> DEFINE S == Canonicalize(items)
             ids == IdsOf(Corrections(S))
  <2>1. RawLedger(items) /\ phase = "canonicalize" /\ history \in Histories
    BY <1>7 DEF Begin, ResolutionInv, LedgerAt, OrdinaryInv
  <2>2. \A c \in Rules(history) : RetainedIn(c, items)
    BY <2>1 DEF LedgerInv, NothingIsForgotten
  <2>3. Continue(S, "corrections", ids)
    BY <1>7 DEF Begin
  <2> HIDE DEF ids
  <2>4. Ordinary(history) => CorrectingOrdinary(history, S, ids)
    BY <1>3, <2>1, <2>2, BeginsOrdinary
  <2> HIDE DEF S
  <2>5. Ordinary(history) => OrdinaryAt(history, "corrections", S, ids, selected, issues)
    BY <2>4 DEF OrdinaryAt
  <2> QED BY <2>3, <2>5, ContinueStaysOrdinary
<1> QED BY <1>4, <1>5, <1>6, <1>7

\* Each correction, whatever becomes of it, ...
LEMMA CorrectionStaysOrdinary ==
  ASSUME OrdinaryInv, NEW c \in items, NEW S, Done(c, S),
         Ordinary(history) => CorrectingOrdinary(history, S, todo \ {c.id})
  PROVE  OrdinaryInv'
<1>1. Ordinary(history) =>
         OrdinaryAt(history, "corrections", S, todo \ {c.id}, selected, issues)
  BY DEF OrdinaryAt
<1> QED BY <1>1, ContinueStaysOrdinary DEF Done

\* ... in the six ways in which it can end.
LEMMA CorrectionsStayOrdinary ==
  ASSUME ResolutionInv, OrdinaryInv, NEW c \in items,
         \/ SkipUnmarked(c) \/ KeepAsClarification(c) \/ KeepAsAmbiguous(c)
         \/ \E p \in items : Revoke(c, p) \/ LinkCurrentValue(c, p) \/ AppendReplacement(c, p)
  PROVE  OrdinaryInv'
<1>1. phase = "corrections" /\ c.id \in todo
  BY DEF SkipUnmarked, KeepAsClarification, KeepAsAmbiguous, Revoke, LinkCurrentValue,
         AppendReplacement, Correct, TryCorrection, IsNext
<1>2. Trying(items, todo, c)
  BY <1>1 DEF ResolutionInv, LedgerAt, Trying
<1>3. history \in Histories /\ (Ordinary(history) => CorrectingOrdinary(history, items, todo))
  BY <1>1 DEF OrdinaryInv, OrdinaryAt
<1>4. CASE SkipUnmarked(c)
  <2>1. Ordinary(history) => CorrectingOrdinary(history, items, todo \ {c.id})
    BY <1>3, SkippedStaysOrdinary
  <2> QED BY <1>4, <2>1, CorrectionStaysOrdinary DEF SkipUnmarked
<1>5. CASE KeepAsClarification(c)
  <2> DEFINE S == (items \ {c}) \cup {Tagged(c, "additive-clarification")}
  <2>1. Ordinary(history) => CorrectingOrdinary(history, S, todo \ {c.id})
    BY <1>2, <1>3, KeptStaysOrdinary
  <2>2. Done(c, S)
    BY <1>5 DEF KeepAsClarification
  <2> HIDE DEF S
  <2> QED BY <2>1, <2>2, CorrectionStaysOrdinary
<1>6. CASE KeepAsAmbiguous(c)
  <2> DEFINE S == (items \ {c}) \cup {Tagged(c, "ambiguous-supersession")}
  <2>1. Ordinary(history) => CorrectingOrdinary(history, S, todo \ {c.id})
    BY <1>2, <1>3, KeptStaysOrdinary
  <2>2. Done(c, S)
    BY <1>6 DEF KeepAsAmbiguous
  <2> HIDE DEF S
  <2> QED BY <2>1, <2>2, CorrectionStaysOrdinary
<1>7. ASSUME NEW p \in items, Revoke(c, p) PROVE OrdinaryInv'
  <2>1. IsCorrection(c) /\ p \in ClearMatch(c) /\ Done(c, Settled(c, p))
    BY <1>7 DEF Revoke, Correct
  <2>2. Ordinary(history) => CorrectingOrdinary(history, Settled(c, p), todo \ {c.id})
    BY <1>2, <1>3, <2>1, SettledStaysOrdinary
  <2> QED BY <2>1, <2>2, CorrectionStaysOrdinary
<1>8. ASSUME NEW p \in items, LinkCurrentValue(c, p) PROVE OrdinaryInv'
  <2>1. IsCorrection(c) /\ p \in ClearMatch(c) /\ c.text \notin Revokes
    BY <1>8 DEF LinkCurrentValue, Correct
  <2>2. PICK r \in CurrentValues(c, p) :
               Done(c, (Settled(c, p) \ {r}) \cup {Linked(r, p.id)})
    BY <1>8 DEF LinkCurrentValue
  <2> DEFINE S == (Settled(c, p) \ {r}) \cup {Linked(r, p.id)}
  <2>3. Ordinary(history) => CorrectingOrdinary(history, S, todo \ {c.id})
    BY <1>2, <1>3, <2>1, LinkedStaysOrdinary
  <2> HIDE DEF S
  <2> QED BY <2>2, <2>3, CorrectionStaysOrdinary DEF S
<1>9. ASSUME NEW p \in items, AppendReplacement(c, p) PROVE OrdinaryInv'
  <2> DEFINE S == Settled(c, p) \cup {Replacement(c, p)}
  <2>1. IsCorrection(c) /\ p \in ClearMatch(c) /\ c.text \notin Revokes /\ Done(c, S)
    BY <1>9 DEF AppendReplacement, Correct
  <2>2. Ordinary(history) => CorrectingOrdinary(history, S, todo \ {c.id})
    BY <1>2, <1>3, <2>1, AppendedStaysOrdinary
  <2> HIDE DEF S
  <2> QED BY <2>1, <2>2, CorrectionStaysOrdinary
<1> QED BY <1>4, <1>5, <1>6, <1>7, <1>8, <1>9

\* The merge after the corrections.
LEMMA EndCorrectionsStaysOrdinary ==
  ASSUME ResolutionInv, OrdinaryInv, EndCorrections
  PROVE  OrdinaryInv'
<1> DEFINE S == Canonicalize(items)
           ids == IdsOf(Answers(S))
<1>1. CorrectingLedger(items, {}) /\ Continue(S, "questions", ids)
  BY DEF EndCorrections, ResolutionInv, LedgerAt
<1>2. AnsweringLedger(history, S, ids)
  BY <1>1, BeginsAnswering
<1>3. /\ history \in Histories
      /\ Ordinary(history) => CorrectingOrdinary(history, items, {})
  BY DEF OrdinaryInv, OrdinaryAt, EndCorrections
<1> HIDE DEF ids
<1>4. Ordinary(history) => AnsweringOrdinary(history, S, ids)
  BY <1>1, <1>2, <1>3, AnsweringStartsOrdinary
<1> HIDE DEF S
<1>5. Ordinary(history) => OrdinaryAt(history, "questions", S, ids, selected, issues)
  BY <1>4 DEF OrdinaryAt
<1> QED BY <1>1, <1>5, ContinueStaysOrdinary

\* Each answer, whether it closes a question or leaves it open.
LEMMA AnswersStayOrdinary ==
  ASSUME ResolutionInv, OrdinaryInv, NEW r \in items, LeaveOpen(r) \/ \E q \in items : Close(r, q)
  PROVE  OrdinaryInv'
<1>1. phase = "questions" /\ r.id \in todo
  BY DEF LeaveOpen, Close, TryAnswer, IsNext
<1>2. /\ AnsweringLedger(history, items, todo)
      /\ Ordinary(history) => AnsweringOrdinary(history, items, todo)
  BY <1>1 DEF ResolutionInv, LedgerAt, OrdinaryInv, OrdinaryAt
<1>3. CASE LeaveOpen(r)
  <2>1. Ordinary(history) =>
           OrdinaryAt(history, "questions", items, todo \ {r.id}, selected, issues)
    BY <1>2 DEF OrdinaryAt, AnsweringOrdinary
  <2> QED BY <1>3, <2>1, ContinueStaysOrdinary DEF LeaveOpen
<1>4. ASSUME NEW q \in items, Close(r, q) PROVE OrdinaryInv'
  <2> DEFINE T == (items \ {r, q})
                     \cup {[q EXCEPT !.status = "superseded"],
                           Tagged(Linked(r, q.id), "resolves-protected")}
  <2>1. q \in Answered(r) /\ Continue(T, "questions", todo \ {r.id})
    BY <1>4 DEF Close
  <2>2. Ordinary(history) => AnsweringOrdinary(history, T, todo \ {r.id})
    BY <1>1, <1>2, <2>1, ClosedStaysOrdinary
  <2> HIDE DEF T
  <2>3. Ordinary(history) =>
           OrdinaryAt(history, "questions", T, todo \ {r.id}, selected, issues)
    BY <2>2 DEF OrdinaryAt
  <2> QED BY <2>1, <2>3, ContinueStaysOrdinary
<1> QED BY <1>3, <1>4

\* The merge after the answers changes nothing.
LEMMA EndAnswersStaysOrdinary ==
  ASSUME ResolutionInv, OrdinaryInv, EndAnswers
  PROVE  OrdinaryInv'
<1>1. AnsweringLedger(history, items, {}) /\ Continue(Canonicalize(items), "conflicts", {})
  BY DEF EndAnswers, ResolutionInv, LedgerAt
<1>2. Canonicalize(items) = items
  BY <1>1, DistinctIsCanonical DEF AnsweringLedger, SettledLedger
<1>3. Ordinary(history) => OrdinaryAt(history, "conflicts", items, {}, selected, issues)
  BY DEF OrdinaryInv, OrdinaryAt, EndAnswers
<1> QED BY <1>1, <1>2, <1>3, ContinueStaysOrdinary

\* The conflicts of an ordinary ledger are marked on both sides, under a question
\* that cites both.
LEMMA MarkConflictsStaysOrdinary ==
  ASSUME ResolutionInv, OrdinaryInv, MarkConflicts
  PROVE  OrdinaryInv'
<1> DEFINE Both(left) == {Marked(i) : i \in items}
                            \cup {ConflictNode(left[pair], CHOOSE i \in pair : i # left[pair])
                                     : pair \in Pairs}
<1>1. PICK left \in [Pairs -> items] :
             /\ \A pair \in Pairs : left[pair] \in pair
             /\ Raise \/ Continue(Canonicalize(Both(left)), "select", {})
  BY DEF MarkConflicts
<1>2. /\ AnsweringLedger(history, items, todo) /\ history \in Histories
      /\ Ordinary(history) => AnsweringOrdinary(history, items, todo)
  BY DEF MarkConflicts, ResolutionInv, LedgerAt, OrdinaryInv, OrdinaryAt
<1>3. Ordinary(history) => MarkedLedger(items, Both(left))
  BY <1>1, <1>2, MarksAreDistinct
<1> HIDE DEF Both
<1>4. Ordinary(history) => Canonicalize(Both(left)) = Both(left)
  BY <1>3, DistinctIsCanonical DEF MarkedLedger
<1>5. Ordinary(history) => \A x \in Both(left) : Verifies(history, Both(left), x)
  BY <1>2, <1>3, MarkVerifies, NodeVerifies DEF MarkedLedger
<1>9. Ordinary(history) => AsSaid(history, Both(left))
  BY <1>2, <1>3, MarksAreSaid
<1>6. Ordinary(history) =>
         OrdinaryAt(history, "select", Canonicalize(Both(left)), {}, selected, issues)
  BY <1>4, <1>5, <1>9 DEF OrdinaryAt
<1>7. CASE Raise
  BY <1>7, RaiseStaysOrdinary
<1>8. CASE Continue(Canonicalize(Both(left)), "select", {})
  BY <1>6, <1>8, ContinueStaysOrdinary
<1> QED BY <1>1, <1>7, <1>8

\* The policy selects what the verifier asks for, and nothing retired.
LEMMA SelectStaysOrdinary ==
  ASSUME ResolutionInv, OrdinaryInv, Select
  PROVE  OrdinaryInv'
<1> DEFINE eligible == {i \in items : i.status # "superseded"}
           protected == {i \in eligible : IsProtected(i)}
<1>1. PICK optional \in SUBSET (eligible \ protected) :
               selected' = IdsOf(protected \cup optional)
  BY DEF Select
<1>2. \A i, j \in items : i.id = j.id => i = j
  BY DEF Select, ResolutionInv, LedgerAt, SettledLedger, Distinct
<1>3. SelectedWell(items, selected')
  BY <1>1, <1>2 DEF SelectedWell, IdsOf
<1>4. phase' = "verify" /\ UNCHANGED <<history, items, todo, issues>>
  BY DEF Select
<1>5. Ordinary(history) =>
         AsSaid(history, items) /\ \A i \in items : Verifies(history, items, i)
  BY DEF Select, OrdinaryInv, OrdinaryAt
<1>6. Ordinary(history') => OrdinaryAt(history', phase', items', todo', selected', issues')
  BY <1>3, <1>4, <1>5 DEF OrdinaryAt
<1> QED BY <1>4, <1>6 DEF OrdinaryInv

\* A ledger whose items all pass, with a selection as the policy makes it, has
\* no issue.
LEMMA NothingToReport ==
  ASSUME NEW h, NEW S, \A i \in S : Verifies(h, S, i), NEW chosen, SelectedWell(S, chosen),
         \A c \in Certification(h) : CoveredIn(c, S)
  PROVE  Issues(h, S, chosen) = {}
<1>2. \A i \in S : /\ ~(i.id \in chosen /\ i.status = "superseded")
                   /\ ~(/\ IsProtected(i) /\ i.status # "superseded"
                        /\ i.id \notin chosen)
  BY DEF SelectedWell
<1> QED BY <1>2 DEF Issues, Where, Verifies

\* What is retained where nothing is said twice is retained as it is spelled.
LEMMA RetainedIsCovered ==
  ASSUME NEW h \in Histories, SaidOnce(h), NEW S \in SUBSET Item, AsSaid(h, S),
         NEW c \in Rules(h), RetainedIn(c, S)
  PROVE  CoveredIn(c, S)
<1>1. PICK s \in SaidIn(h) : c.text = s.text
  BY DEF Rules, FromSource, Atom, Twin, Extracted, SaidIn
<1>2. s.text \in Text
  BY HistoryRecords DEF SaidIn, Classified
<1>3. PICK i \in S : Retains(c, i)
  BY DEF RetainedIn
<1>4. i.text \in Text
  <2>1. i.text \in ItemText /\ s.text \in ItemText /\ Norm[i.text] = Norm[s.text]
    BY <1>1, <1>2, <1>3 DEF Item, ItemText, Retains
  <2> QED BY <1>2, <2>1, SameSort
<1>5. PICK t \in SaidIn(h) : t.text = i.text
  BY <1>4 DEF AsSaid
<1>6. t = s
  BY <1>1, <1>3, <1>5 DEF SaidOnce, SaidIn, Retains
<1> QED BY <1>1, <1>3, <1>5, <1>6 DEF Retains, CoveredIn, Covers

\* Verification finds nothing.
LEMMA VerifyStaysOrdinary ==
  ASSUME ResolutionInv, LedgerInv, OrdinaryInv, Verify
  PROVE  OrdinaryInv'
<1>1. Ordinary(history) => \A c \in Certification(history) : CoveredIn(c, items)
  <2> SUFFICES ASSUME Ordinary(history), NEW c \in Certification(history)
               PROVE  CoveredIn(c, items)
    OBVIOUS
  <2>1. c \in Rules(history) /\ RetainedIn(c, items)
    BY DEF Certification, Verify, LedgerInv, NothingIsForgotten
  <2>2. AsSaid(history, items) /\ history \in Histories /\ items \subseteq Item
    BY DEF Verify, OrdinaryInv, OrdinaryAt, ResolutionInv, TypeOK
  <2> QED BY <2>1, <2>2, RetainedIsCovered DEF Ordinary
<1>2. Ordinary(history) => /\ \A i \in items : Verifies(history, items, i)
                           /\ SelectedWell(items, selected)
  BY DEF Verify, OrdinaryInv, OrdinaryAt
<1>3. Ordinary(history) => Issues(history, items, selected) = {}
  BY <1>1, <1>2, NothingToReport
<1>4. issues' = Issues(history, items, selected) /\ phase' = "done" /\ history' = history
  BY DEF Verify
<1>5. Ordinary(history') => OrdinaryAt(history', phase', items', todo', selected', issues')
  BY <1>3, <1>4 DEF OrdinaryAt
<1> QED BY <1>4, <1>5 DEF OrdinaryInv

\* Nothing is extracted yet.
THEOREM InitOrdinary == Init => OrdinaryInv
BY DEF Init, OrdinaryInv, OrdinaryAt, RawOrdinary

\* Every step of the compilation preserves OrdinaryInv.
THEOREM StepOrdinary ==
  ResolutionInv /\ LedgerInv /\ OrdinaryInv /\ [Next]_vars => OrdinaryInv'
<1> SUFFICES ASSUME ResolutionInv, LedgerInv, OrdinaryInv, [Next]_vars PROVE OrdinaryInv'
  OBVIOUS
<1>1. CASE ExtractByRules \/ ExtractByModel \/ Recover \/ Begin
  BY <1>1, ExtractionStaysOrdinary
<1>2. CASE Resolve
  <2>1. CASE \E c \in items :
               \/ SkipUnmarked(c) \/ KeepAsClarification(c) \/ KeepAsAmbiguous(c)
               \/ \E p \in items : \/ Revoke(c, p) \/ LinkCurrentValue(c, p)
                                   \/ AppendReplacement(c, p)
    BY <2>1, CorrectionsStayOrdinary
  <2>2. CASE \E r \in items : LeaveOpen(r) \/ \E q \in items : Close(r, q)
    BY <2>2, AnswersStayOrdinary
  <2>3. CASE EndCorrections
    BY <2>3, EndCorrectionsStaysOrdinary
  <2>4. CASE EndAnswers
    BY <2>4, EndAnswersStaysOrdinary
  <2>5. CASE MarkConflicts
    BY <2>5, MarkConflictsStaysOrdinary
  <2> QED BY <1>2, <2>1, <2>2, <2>3, <2>4, <2>5 DEF Resolve
<1>3. CASE Select
  BY <1>3, SelectStaysOrdinary
<1>4. CASE Verify
  BY <1>4, VerifyStaysOrdinary
<1>5. CASE ExceedBudget
  BY <1>5, RaiseStaysOrdinary DEF ExceedBudget
<1>6. CASE UNCHANGED vars
  BY <1>6 DEF vars, OrdinaryInv
<1> QED BY <1>1, <1>2, <1>3, <1>4, <1>5, <1>6 DEF Next

\* Whatever the vocabulary and the primary extractor, and however items of one
\* source are ordered, verify_memory() reports no error on the ledger that
\* compile() resolves from an ordinary history.
THEOREM OrdinaryVerify == Spec => []OrdinaryHistoriesVerify
<1>1. OrdinaryInv => OrdinaryHistoriesVerify
  BY DEF OrdinaryInv, OrdinaryAt, OrdinaryHistoriesVerify
<1>2. Spec => []OrdinaryInv
  <2>1. Spec => []ResolutionInv
    BY SpecResolution
  <2>2. Spec => []LedgerInv
    BY InitLedger, StepLedger, PTL DEF Spec
  <2> QED BY <2>1, <2>2, InitOrdinary, StepOrdinary, PTL DEF Spec
<1> QED BY <1>1, <1>2, PTL
=============================================================================

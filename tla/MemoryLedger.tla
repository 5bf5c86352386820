---------------------------- MODULE MemoryLedger ----------------------------
(***************************************************************************)
(* The typed ledger of context_compiler.models and .resolver: what the      *)
(* built-in rules extract from a source history, and how canonicalize()     *)
(* merges items of one kind and meaning.                                    *)
(*                                                                         *)
(* A text is an atomic value, stripped, as an item holds it; Norm is        *)
(* normalize_text(), which several spellings may share.  What the regular   *)
(* expressions and token overlaps say about texts are constants, and the    *)
(* character span of a statement is its source and the text found there.    *)
(***************************************************************************)
EXTENDS Integers, FiniteSets, FiniteSetsExt

CONSTANTS NumSources,    \* the history has sources 1..NumSources, in this order
          Text,          \* what an atom of a source can say
          Norm,          \* normalize_text(): one spelling for each meaning
          Statement,     \* the atoms the rules recognize, and as what
          MaxSays,       \* bound of the model: atoms in each source
          Marker,        \* texts with a _CORRECTION_MARKER
          Revokes,       \* texts that match _REVOCATION
          Confirms,      \* texts that match _POSITIVE_CONFIRMATION
          Uncertain,     \* texts that match _UNCERTAINTY
          Score,         \* percent: _replacement_score where there is evidence, or 0
          AnswerScore,   \* percent: overlap of question and answer, 0 below 2 tokens
          Supports,      \* correction and prior that verify_memory() finds related
          SupportsLabelled, \* the same for a labelled correction of a typed value
          SupportsAnswer, \* answer and question that it finds related
          Opposed,       \* pairs of texts that mark_conflicts() takes as contradictory
          None           \* a statement without a second kind

Source == 1..NumSources
Role == {"user", "assistant", "tool"}  \* "tool" is one the host trusts for facts

Kind == {"goal", "constraint", "user_correction", "confirmed_fact", "decision",
         "unresolved", "exact_reference"}
Protected == {"goal", "constraint", "user_correction", "unresolved", "exact_reference"}
AuthorityGated == {"goal", "constraint", "user_correction"}
Status == {"active", "superseded", "conflicting"}
StatusRank == [s \in Status |->
    CASE s = "active" -> 0 [] s = "conflicting" -> 2 [] OTHER -> 3]
\* The internal tags that decide anything, and the exact flag as one more.
Tag == {"explicit-correction-label", "correction-derived", "superseded-by-correction",
        "additive-clarification", "ambiguous-supersession", "resolves-protected",
        "detected-conflict", "exact"}

\* The text of a conflict node quotes the two items, in order.
ItemText == Text \cup (Text \X Text)
Place == Source \X Text
SourceId == Kind \X Text \X Source
CanonicalId == Kind \X ItemText
ReplacementId == {"replacement"} \X Kind \X Text
Id == SourceId \cup CanonicalId \cup ReplacementId

Item == [id : Id, kind : Kind, text : ItemText, spans : SUBSET Place,
         status : Status, tags : SUBSET Tag,
         supersedes : SUBSET Id, conflicts : SUBSET Id]

\* The kind an atom is classified as, and the kind of its new value when it is
\* a correction that carries one.  A labelled line has no second kind.  evidenced:
\* its line has _CONFIRMATION_EVIDENCE or a fact: label, or the line above is one,
\* which for the second bullet below a Facts: label is the first bullet.
Classified == [text : Text, kind : Kind, twin : Kind \cup {None},
               label : BOOLEAN, evidenced : BOOLEAN]

ASSUME LedgerAssumption ==
    /\ NumSources \in Nat /\ MaxSays \in [Source -> Nat]
    /\ None \notin Kind
    /\ Text \cap (Text \X Text) = {}
    /\ Norm \in [ItemText -> ItemText]
    /\ \A t \in Text : Norm[t] \in Text
    /\ \A p \in Text \X Text : Norm[p] \in Text \X Text
    /\ \A p, q \in Text \X Text :
          Norm[p] = Norm[q] => \A k \in {1, 2} : Norm[p[k]] = Norm[q[k]]
    /\ Statement \subseteq Classified
    /\ \A s \in Statement :
          /\ s.twin # None => s.kind = "user_correction" /\ ~s.label
          /\ s.twin \in {None, "constraint", "unresolved", "confirmed_fact", "decision"}
    /\ Score \in [Text \X Kind \X Text -> 0..100]
    /\ AnswerScore \in [Text \X Text -> 0..100]
    /\ Supports \subseteq Text \X Text /\ SupportsLabelled \subseteq Text \X Text
    /\ SupportsAnswer \subseteq Text \X Text
    /\ Opposed \subseteq SUBSET Text

\* _source_can_author_kind()
MayAuthor(role, kind) ==
    CASE kind \in AuthorityGated -> role = "user"
      [] kind \in {"unresolved", "decision"} -> role # "tool"
      [] OTHER -> TRUE

\* A source says a text at one place only.
MaySay(role) ==
    {says \in SUBSET {s \in Statement : MayAuthor(role, s.kind)} :
        /\ \E n \in Source : Cardinality(says) <= MaxSays[n]
        /\ \A s, t \in says : s.text = t.text => s = t}
Records ==
    UNION {{[role |-> role, says |-> says] : says \in MaySay(role)} : role \in Role}
Histories == {h \in [Source -> Records] :
                \A n \in Source : Cardinality(h[n].says) <= MaxSays[n]}
-----------------------------------------------------------------------------
\* What RuleBasedExtractor emits for one statement: the item and, for a
\* correction with a new value, a second item of the value's kind.
Extracted(text, kind, n, tags) ==
    [id |-> <<kind, text, n>>, kind |-> kind, text |-> text, spans |-> {<<n, text>>},
     status |-> "active", tags |-> tags, supersedes |-> {}, conflicts |-> {}]
Atom(s, n) ==
    Extracted(s.text, s.kind, n,
              (IF s.label THEN {"explicit-correction-label"} ELSE {})
                \cup (IF s.kind = "exact_reference" THEN {"exact"} ELSE {}))
Twin(s, n) == Extracted(s.text, s.twin, n, {"correction-derived"})
FromSource(h, n) ==
    {Atom(s, n) : s \in h[n].says}
        \cup {Twin(s, n) : s \in {x \in h[n].says : x.twin # None}}
Rules(h) == UNION {FromSource(h, n) : n \in Source}

\* memory_item_covers_candidate(), which compares texts as they are spelled.
Covers(candidate, i) ==
    /\ candidate.kind = i.kind
    /\ candidate.text = i.text
    /\ candidate.spans \subseteq i.spans
CoveredIn(candidate, S) == \E i \in S : Covers(candidate, i)

\* The sources an item cites, their roles, and its position in the history.
Sources(i) == {p[1] : p \in i.spans}
Roles(h, i) == {h[n].role : n \in Sources(i)}
Seq(i) == Max(Sources(i))
-----------------------------------------------------------------------------
Key(i) == <<i.kind, Norm[i.text]>>

\* The spelling of the oldest member of a group stays; of two in one source the
\* one with the smaller digest, which is as good as a choice made once.
MergedText(G) == (CHOOSE i \in G : \A j \in G : Seq(i) <= Seq(j)).text

\* The status of the newest member of a group wins, then the highest rank.
MergedStatus(G) ==
    LET newest == {i \in G : \A j \in G : Seq(j) <= Seq(i)}
    IN  (CHOOSE i \in newest :
            \A j \in newest : StatusRank[j.status] <= StatusRank[i.status]).status

Merge(key, G) ==
    [id |-> key, kind |-> key[1], text |-> MergedText(G),
     spans |-> UNION {i.spans : i \in G},
     status |-> MergedStatus(G),
     tags |-> UNION {i.tags : i \in G},
     supersedes |-> UNION {i.supersedes : i \in G},
     conflicts |-> UNION {i.conflicts : i \in G}]

Canonicalize(S) == {Merge(k, {i \in S : Key(i) = k}) : k \in {Key(i) : i \in S}}
=============================================================================

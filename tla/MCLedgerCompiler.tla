-------------------------- MODULE MCLedgerCompiler --------------------------
(***************************************************************************)
(* A vocabulary for LedgerCompiler.  The constants stand for the sentences  *)
(* beside them, and the tables say what the expressions and the token       *)
(* overlaps of extractors.py, resolver.py and verifier.py make of them.     *)
(***************************************************************************)
EXTENDS LedgerCompiler

CONSTANTS
    ten,     \* Decision: run the cache with 10 nodes.
    twenty,  \* Correction: run the cache with 20 nodes.
    thirty,  \* Actually we decided to run the cache with 30 nodes rather than 20 nodes.
    small,   \* Decision: cap attachments at 15 megabytes.
    large,   \* Actually we decided to cap attachments at 25 megabytes.
    allow,   \* Uploads must be enabled.
    forbid,  \* Constraint: Uploads disabled
    shut,    \* Correction: uploads disabled.
    drop,    \* Correction: ignore my earlier uploads requirement.
    port,    \* Is the proxy port 80 or not?
    port80,  \* Confirmed: the proxy port is 80.
    port81,  \* Actually, confirmed: the proxy port is 81 instead of 80.
    maybe80, \* Fact: the proxy port may be 80.
    bare80   \* - the proxy port is 80.   (below Facts: and an empty bullet)

MCText == {ten, twenty, thirty, small, large, allow, forbid, shut, drop,
           port, port80, port81, maybe80, bare80}

\* forbid and shut are one text but for the capital and the full stop.
Spelled(t) == IF t = shut THEN forbid ELSE t
MCNorm == [t \in ItemText |->
    IF t \in Text THEN Spelled(t) ELSE <<Spelled(t[1]), Spelled(t[2])>>]

MCMarker == {thirty, large, drop, port81}
MCRevokes == {drop}
MCConfirms == {port80, port81}
MCUncertain == {port, maybe80}
MCOpposed == {{allow, forbid}, {allow, shut}}

Matches(c, p) ==
    CASE {c, p} \in {{ten, twenty}, {small, large}} -> 75
      [] c = thirty /\ p = ten -> 75
      [] c = thirty /\ p \in {twenty, thirty} -> 100
      [] {c, p} = {thirty, large} -> 33
      [] {c, p} \in {{allow, forbid}, {allow, shut}} -> 75
      [] c = drop /\ p \in {allow, forbid, shut} -> 70
      [] c = drop /\ p = drop -> 100
      [] c = port81 /\ p \in {port80, port81, maybe80, bare80} -> 100
      [] c \in {thirty, large, port81} /\ p \in {thirty, large, port81} \ {c} -> 17
      [] OTHER -> 0
MCScore == [x \in Text \X Kind \X Text |-> Matches(x[1], x[3])]
Ports == {port80, port81, maybe80, bare80}
MCAnswerScore ==
    [x \in Text \X Text |-> IF x \in Ports \X {port} THEN 100 ELSE 0]
MCSupports ==
    ({twenty, thirty} \X {ten, twenty, thirty})
        \cup {<<thirty, large>>, <<large, thirty>>, <<large, large>>, <<large, small>>}
        \cup {<<shut, forbid>>, <<shut, shut>>}
        \cup ({drop} \X {allow, forbid, shut, drop})
        \cup ({port81} \X Ports)
MCSupportsLabelled == {<<shut, allow>>, <<forbid, allow>>, <<allow, forbid>>}
MCSupportsAnswer == Ports \X {port}

Plain(text, kind) == [text |-> text, kind |-> kind, twin |-> None,
                      label |-> FALSE, evidenced |-> FALSE]
Labelled(text) == [Plain(text, "user_correction") EXCEPT !.label = TRUE]
Valued(text, twin) == [Plain(text, "user_correction") EXCEPT !.twin = twin]
Evidenced(s) == [s EXCEPT !.evidenced = TRUE]

\* The atoms of each run.  An assistant's sentence is a decision where the
\* user's would be a constraint or a correction.
Cache == {Plain(ten, "decision"), Labelled(twenty), Valued(thirty, "decision")}
Uploads == {Plain(allow, "constraint"), Plain(forbid, "constraint"),
            Labelled(shut), Labelled(drop)}
Port == {Plain(port, "unresolved"), Evidenced(Plain(port80, "confirmed_fact")),
         Evidenced(Valued(port81, "confirmed_fact"))}
Facts == {Evidenced(Plain(maybe80, "confirmed_fact")), Plain(bare80, "confirmed_fact")}
Everyday == Cache \cup Uploads \cup Port \cup Facts

\* The last but one speaks twice.
MCMaxSays == [n \in Source |-> IF n = NumSources - 1 THEN 2 ELSE 1]
=============================================================================

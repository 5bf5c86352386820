-------------------------- MODULE StdioServerProofs --------------------------
(***************************************************************************)
(* That serve_stdio answers whole lines, one after the other, cut nowhere but *)
(* at a return that its stream kept, and handles nothing above its limit is  *)
(* proved for any limit and any input.                                       *)
(***************************************************************************)
EXTENDS StdioServer, Integers, FiniteSetTheorems, TLAPS

(* The inductive invariant.                                                *)

\* The span begins where a line or what follows a cut begins, and has no end of a line
\* before its last character.
Within(span) ==
    /\ span.from \in 1..Len(written) /\ span.to \in span.from..Len(written)
    /\ Starts(span.from - 1)
    /\ \A k \in span.from..(span.to - 1) : written[k] # "nl"

\* What is decided upon.
Read(span) == Within(span) /\ (span.to \in LineEnds \/ Cut(span.to))

\* Between two lines the server has read up to the beginning of one, or of what
\* follows a cut, or all there is.
Between == pc = "read" => Starts(taken) \/ (eof /\ taken = Len(written))

\* A line that is drained has not ended; one that is decided upon has, or is cut.
\* A cut read has the length of the limit, and is not handled.
InLine ==
    /\ pc = "drain" => Within(line) /\ line.to = taken /\ ~AtLineEnd(taken)
    /\ pc \in {"decode", "handle", "write"} => Read(line) /\ line.to = taken
    /\ pc = "decode" => line.to \in LineEnds \/ Length(line) = Limit
    /\ pc = "handle" => line.to \in LineEnds /\ Bytes(line) <= MaxRequest

\* Where the line under way begins, or the next one will.
NextFrom == IF pc \in {"drain", "decode", "handle", "write"} THEN line.from ELSE taken + 1

Responses ==
    /\ \A k \in 1..Len(out) : Read(out[k][1]) /\ out[k][1].to < NextFrom
    /\ \A k \in 2..Len(out) : out[k - 1][1].to < out[k][1].from

LineInv == Between /\ InLine /\ Responses
-----------------------------------------------------------------------------
(* Reading.                                                                *)

\* readline() ends after the first end of a line, or after Limit characters, or
\* with the input.
LEMMA ReadEndsWhere ==
    ASSUME TypeOK, NEW end \in ReadEnds
    PROVE  /\ end \in taken..Len(written) /\ end <= taken + Limit
           /\ \A k \in (taken + 1)..(end - 1) : written[k] # "nl"
           /\ end = taken => eof /\ taken = Len(written)
           /\ end # taken => \/ written[end] = "nl" \/ end = taken + Limit
                             \/ eof /\ end = Len(written)
<1> DEFINE ends == {i \in (taken + 1)..Len(written) : written[i] = "nl" /\ i <= taken + Limit}
<1>1. taken \in Nat /\ Len(written) \in Nat /\ taken <= Len(written) /\ Limit \in Nat /\ Limit > 0
  BY StdioAssumption DEF TypeOK, Limit
<1>2. CASE ends # {}
  <2>1. end \in ends /\ \A j \in ends : end <= j
    BY <1>2 DEF ReadEnds
  <2>2. \A k \in (taken + 1)..(end - 1) : written[k] # "nl"
    BY <1>1, <2>1
  <2> QED BY <1>1, <2>1, <2>2
<1>3. CASE ends = {}
  <2>1. \A k \in (taken + 1)..Len(written) : k <= taken + Limit => written[k] # "nl"
    BY <1>3
  <2>2. \/ Len(written) >= taken + Limit /\ end = taken + Limit
        \/ Len(written) < taken + Limit /\ eof /\ end = Len(written)
    BY <1>1, <1>3 DEF ReadEnds
  <2> QED BY <1>1, <2>1, <2>2
<1> QED BY <1>2, <1>3

\* A read that ends with a return ends its line or is a cut.
LEMMA ReadEndsOrCuts ==
    ASSUME TypeOK, NEW end \in ReadEnds, end # taken, AtLineEnd(end)
    PROVE  end \in LineEnds \/ Cut(end)
<1>1. taken \in Nat /\ Len(written) \in Nat /\ taken <= Len(written) /\ Limit \in Nat /\ Limit > 0
  BY StdioAssumption DEF TypeOK, Limit
<1>2. end \in 1..Len(written) /\ end > taken
  BY <1>1, ReadEndsWhere
<1>3. CASE written[end] = "nl" \/ (eof /\ end = Len(written))
  BY <1>2, <1>3 DEF LineEnds
<1>4. CASE ~(written[end] = "nl" \/ (eof /\ end = Len(written)))
  <2>1. end = taken + Limit /\ written[end] = "cr"
    BY <1>4, ReadEndsWhere DEF AtLineEnd
  <2>2. \A k \in (end + 1 - Limit)..(end - 1) : written[k] # "nl"
    BY <1>1, <2>1, ReadEndsWhere
  <2> QED BY <1>1, <2>1, <2>2 DEF Cut
<1> QED BY <1>3, <1>4

\* What is decided upon is whole.
LEMMA ReadIsWhole ==
    ASSUME NEW span, Read(span)
    PROVE  Whole(span)
BY DEF Read, Within, Whole

-----------------------------------------------------------------------------
(* The types.                                                              *)

THEOREM StdioTypes == Spec => []TypeOK
<1>1. Init => TypeOK
  <2> SUFFICES ASSUME Init PROVE TypeOK
    OBVIOUS
  <2>1. written \in Seq(Char) /\ Len(written) = 0 /\ out \in Seq(Response)
    BY DEF Init
  <2>2. [from |-> 1, to |-> 0] \in Spans
    BY StdioAssumption DEF Spans
  <2>3. Len(written) <= MaxWritten /\ taken \in 0..Len(written)
    BY StdioAssumption, <2>1 DEF Init
  <2> QED BY <2>1, <2>2, <2>3 DEF Init, TypeOK, Kinds
<1>2. TypeOK /\ [Next]_vars => TypeOK'
  <2> SUFFICES ASSUME TypeOK, [Next]_vars PROVE TypeOK'
    OBVIOUS
  <2> USE StdioAssumption
  <2>1. CASE WriteChar
    BY <2>1 DEF WriteChar, TypeOK
  <2>2. CASE Close
    BY <2>2 DEF Close, TypeOK
  <2>3. CASE ReadLine
    <3> PICK end \in ReadEnds : /\ taken' = end
                                /\ line' = [from |-> taken + 1, to |-> end]
                                /\ pc' \in {"done", "drain", "read", "decode"}
                                /\ UNCHANGED <<translates, written, eof, reply, out>>
      BY <2>3 DEF ReadLine
    <3>1. end \in taken..Len(written) /\ taken \in 0..Len(written) /\ Len(written) \in 0..MaxWritten
      BY ReadEndsWhere DEF TypeOK
    <3>2. line' \in Spans
      BY <3>1 DEF Spans
    <3> QED BY <3>1, <3>2 DEF TypeOK
  <2>4. CASE Drain
    <3> PICK end \in ReadEnds : /\ taken' = end
                                /\ line' = [line EXCEPT !.to = end]
                                /\ pc' \in {"drain", "write"} /\ reply' \in {"too_long", reply}
                                /\ UNCHANGED <<translates, written, eof, out>>
      BY <2>4 DEF Drain
    <3>1. end \in taken..Len(written) /\ taken \in 0..Len(written) /\ Len(written) \in 0..MaxWritten
      BY ReadEndsWhere DEF TypeOK
    <3>2. line' \in Spans
      BY <3>1 DEF TypeOK, Spans
    <3> QED BY <3>1, <3>2 DEF TypeOK, Kinds
  <2>5. CASE Decode
    BY <2>5 DEF Decode, Undecodable, TypeOK, Kinds
  <2>6. CASE Handle
    BY <2>6 DEF Handle, Dispatched, TypeOK, Kinds
  <2>7. CASE Write
    BY <2>7 DEF Write, TypeOK, Response
  <2>8. CASE Breaks
    BY <2>8 DEF Breaks, TypeOK
  <2>9. CASE UNCHANGED vars
    BY <2>9 DEF vars, TypeOK
  <2> QED BY <2>1, <2>2, <2>3, <2>4, <2>5, <2>6, <2>7, <2>8, <2>9 DEF Next, Server
<1> QED BY <1>1, <1>2, PTL DEF Spec
-----------------------------------------------------------------------------
(* The steps.                                                              *)

LEMMA LineInvInit == Init => LineInv
BY DEF Init, LineInv, Between, InLine, Responses, Starts

\* What the client writes, or that it closes its end, changes no line that is read.
LEMMA ClientKeeps ==
    ASSUME TypeOK, LineInv, WriteChar \/ Close
    PROVE  LineInv'
<1>1. /\ Len(written) \in Nat /\ Len(written') \in Nat /\ Len(written) <= Len(written')
      /\ \A i \in 1..Len(written) : written'[i] = written[i]
  BY DEF WriteChar, Close, TypeOK
<1>2. UNCHANGED <<taken, pc, line, reply, out>>
  BY DEF WriteChar, Close
<1>3. taken \in 0..Len(written)
  BY DEF TypeOK
<1>4. eof => eof' /\ written' = written
  BY DEF WriteChar, Close
<1>5. ASSUME NEW n \in 0..Len(written), Cut(n) PROVE Cut(n)'
  <2>1. Limit \in Nat /\ Limit > 0 /\ Limit' = Limit
    BY StdioAssumption DEF Limit
  <2>2. n \in 1..Len(written) /\ n >= Limit /\ written[n] = "cr"
    BY <1>1, <1>5, <2>1 DEF Cut
  <2>3. ASSUME NEW k \in (n + 1 - Limit)..(n - 1) PROVE written'[k] # "nl"
    <3>1. k \in 1..Len(written)
      BY <1>1, <2>1, <2>2
    <3>2. written[k] # "nl"
      BY <1>5 DEF Cut
    <3> QED BY <1>1, <3>1, <3>2
  <2>4. n >= Limit' /\ written'[n] = "cr"
    BY <1>1, <2>1, <2>2
  <2> QED BY <2>1, <2>3, <2>4 DEF Cut
<1>6. ASSUME NEW n \in 0..Len(written), Starts(n) PROVE Starts(n)'
  BY <1>1, <1>6, <1>5 DEF Starts
<1>7. ASSUME NEW span, Within(span) PROVE Within(span)'
  <2>1. span.from \in 1..Len(written) /\ span.to \in span.from..Len(written)
    BY <1>7 DEF Within
  <2>2. span.from \in 1..Len(written') /\ span.to \in span.from..Len(written')
    BY <1>1, <2>1
  <2>3. Starts(span.from - 1)'
    BY <1>1, <1>6, <1>7, <2>1 DEF Within
  <2>4. \A k \in span.from..(span.to - 1) : written'[k] # "nl"
    BY <1>1, <1>7, <2>1 DEF Within
  <2> QED BY <2>2, <2>3, <2>4 DEF Within
<1>8. ASSUME NEW i \in LineEnds PROVE i \in LineEnds'
  BY <1>1, <1>4, <1>8 DEF LineEnds
<1>9. ASSUME NEW span, Read(span) PROVE Read(span)'
  <2>1. span.to \in 0..Len(written)
    BY <1>1, <1>9 DEF Read, Within
  <2>2. Cut(span.to) => Cut(span.to)'
    BY <1>5, <2>1
  <2> QED BY <1>7, <1>8, <1>9, <2>2 DEF Read
<1>10. Between'
  BY <1>2, <1>3, <1>4, <1>6 DEF Between, LineInv
<1>11. InLine'
  <2>1. pc = "drain" => taken \in 1..Len(written)
    BY <1>1 DEF LineInv, InLine, Within
  <2>2. Bytes(line)' = Bytes(line) \/ pc # "handle"
    <3>1. CASE pc = "handle"
      <4>1. line.from \in 1..Len(written) /\ line.to \in line.from..Len(written)
        BY <3>1 DEF LineInv, InLine, Read, Within
      <4>2. {i \in line.from..line.to : written'[i] = "wide"} = {i \in line.from..line.to : written[i] = "wide"}
        BY <1>1, <4>1
      <4> QED BY <1>2, <4>2 DEF Bytes, Length
    <3> QED BY <3>1
  <2>3. pc = "drain" => ~AtLineEnd(taken)'
    BY <1>1, <1>2, <2>1 DEF LineInv, InLine, AtLineEnd
  <2>4. Length(line)' = Length(line) /\ Limit' = Limit
    BY <1>2 DEF Length, Limit
  <2> QED BY <1>2, <1>7, <1>8, <1>9, <2>1, <2>2, <2>3, <2>4 DEF LineInv, InLine
<1>12. Responses'
  BY <1>2, <1>9 DEF LineInv, Responses, NextFrom
<1> QED BY <1>10, <1>11, <1>12 DEF LineInv

\* A line is read: it is dropped, drained or decoded.
LEMMA ReadLineKeeps ==
    ASSUME TypeOK, LineInv, ReadLine
    PROVE  LineInv'
<1> PICK end \in ReadEnds :
         /\ taken' = end /\ line' = [from |-> taken + 1, to |-> end]
         /\ pc' = IF end = taken THEN "done"
                  ELSE IF TooLong([from |-> taken + 1, to |-> end]) THEN "drain"
                  ELSE IF Blank([from |-> taken + 1, to |-> end]) THEN "read"
                  ELSE "decode"
         /\ UNCHANGED <<translates, written, eof, reply, out>>
  BY DEF ReadLine
<1> DEFINE read == [from |-> taken + 1, to |-> end]
<1>1. /\ taken \in Nat /\ Len(written) \in Nat /\ taken <= Len(written)
      /\ MaxRequest \in Nat /\ pc = "read" /\ Limit = MaxRequest + 2
  BY StdioAssumption DEF TypeOK, ReadLine, Limit
<1>2. ASSUME end # taken PROVE Within(read)
  BY <1>1, <1>2, ReadEndsWhere DEF Within, LineInv, Between
<1>3. ASSUME end # taken, ~TooLong(read)
      PROVE  Read(read) /\ (end \in LineEnds \/ Length(read) = Limit)
  <2>1. end \in 1..Len(written)
    BY <1>1, <1>3, ReadEndsWhere
  <2>2. AtLineEnd(end) \/ (eof /\ end = Len(written))
    BY <1>1, <1>3, ReadEndsWhere DEF TooLong, Length, AtLineEnd
  <2>3. end \in LineEnds \/ Cut(end)
    BY <1>3, <2>1, <2>2, ReadEndsOrCuts DEF LineEnds
  <2>4. end \in LineEnds \/ end = taken + Limit
    BY <1>3, <2>1, ReadEndsWhere DEF LineEnds
  <2> QED BY <1>1, <1>2, <1>3, <2>3, <2>4 DEF Read, Length
<1>4. Between'
  <2>1. CASE pc' = "read"
    <3>1. end # taken /\ ~TooLong(read) /\ end \in 1..Len(written)
      BY <1>1, <2>1, ReadEndsWhere
    <3> QED BY <1>3, <3>1 DEF Between, Starts, Cut, Read, LineEnds
  <2> QED BY <2>1 DEF Between
<1>5. InLine'
  <2>1. CASE pc' = "drain"
    <3>1. end # taken /\ TooLong(read)
      BY <2>1
    <3>2. Within(line)'
      BY <1>2, <3>1 DEF Within, Starts, Cut
    <3> QED BY <2>1, <3>1, <3>2 DEF InLine, TooLong, AtLineEnd
  <2>2. CASE pc' = "decode"
    <3>1. Read(line)' /\ (line.to \in LineEnds \/ Length(line) = Limit)'
      BY <1>3, <2>2 DEF Read, Within, Starts, Cut, LineEnds, Length
    <3> QED BY <2>2, <3>1 DEF InLine
  <2>3. CASE pc' \in {"done", "read"}
    BY <2>3 DEF InLine
  <2> QED BY <2>1, <2>2, <2>3
<1>6. Responses'
  <2>1. NextFrom = taken + 1 /\ NextFrom' >= taken + 1
    BY <1>1, ReadEndsWhere DEF NextFrom
  <2>2. ASSUME NEW k \in 1..Len(out) PROVE Read(out[k][1])' /\ out[k][1].to < NextFrom'
    <3>1. Read(out[k][1]) /\ out[k][1].to < NextFrom
      BY DEF LineInv, Responses
    <3>2. Read(out[k][1])'
      BY <3>1 DEF Read, Within, Starts, Cut, LineEnds
    <3>3. out[k][1].to \in Int
      <4>1. out[k][1].from \in 1..Len(written) /\ out[k][1].to \in out[k][1].from..Len(written)
        BY <3>1 DEF Read, Within
      <4> QED BY <1>1, <4>1
    <3>4. NextFrom' \in Int
      BY <1>1, ReadEndsWhere DEF NextFrom
    <3> QED BY <1>1, <2>1, <3>1, <3>2, <3>3, <3>4
  <2> QED BY <2>2 DEF LineInv, Responses
<1> QED BY <1>4, <1>5, <1>6 DEF LineInv

\* More of a line that is too long is read: it still has not ended, or is whole.
LEMMA DrainKeeps ==
    ASSUME TypeOK, LineInv, Drain
    PROVE  LineInv'
<1> PICK end \in ReadEnds :
         /\ taken' = end /\ line' = [line EXCEPT !.to = end]
         /\ IF end = taken \/ AtLineEnd(end) THEN pc' = "write"
            ELSE UNCHANGED pc
         /\ UNCHANGED <<translates, written, eof, out>>
  BY DEF Drain
<1>1. /\ taken \in Nat /\ Len(written) \in Nat /\ taken <= Len(written) /\ pc = "drain"
      /\ line.to = taken /\ ~AtLineEnd(taken) /\ Within(line)
      /\ line' = [from |-> line.from, to |-> end]
  BY DEF TypeOK, Drain, LineInv, InLine, Spans
<1>2. end \in taken..Len(written) /\ \A k \in line.from..(end - 1) : written[k] # "nl"
  BY <1>1, ReadEndsWhere DEF Within, AtLineEnd
<1>3. Within(line')
  BY <1>1, <1>2 DEF Within
<1>4. InLine'
  <2>1. Within(line)'
    BY <1>3 DEF Within, Starts, Cut
  <2>2. CASE end = taken \/ AtLineEnd(end)
    <3>1. end \in 1..Len(written)
      BY <1>1, <1>2 DEF Within
    <3>2. end \in LineEnds \/ Cut(end)
      BY <1>1, <2>2, <3>1, ReadEndsWhere, ReadEndsOrCuts DEF LineEnds
    <3>3. (line.to \in LineEnds \/ Cut(line.to))'
      BY <1>1, <3>2 DEF LineEnds, Cut
    <3> QED BY <1>1, <2>1, <2>2, <3>3 DEF InLine, Read
  <2>3. CASE ~(end = taken \/ AtLineEnd(end))
    BY <1>1, <2>1, <2>3 DEF InLine, AtLineEnd
  <2> QED BY <2>2, <2>3
<1>5. Between'
  BY <1>1 DEF Between
<1>6. Responses'
  <2>1. NextFrom' = NextFrom
    BY <1>1 DEF NextFrom
  <2>2. ASSUME NEW span, Read(span) PROVE Read(span)'
    BY <2>2 DEF Read, Within, Starts, Cut, LineEnds
  <2> QED BY <2>1, <2>2 DEF LineInv, Responses
<1> QED BY <1>4, <1>5, <1>6 DEF LineInv

\* A line is decoded and handled: only one within the limit is handled.
LEMMA HandlingKeeps ==
    ASSUME TypeOK, LineInv, Decode \/ Handle
    PROVE  LineInv'
<1>1. UNCHANGED <<translates, written, eof, taken, line, out>>
  BY DEF Decode, Handle
<1>2. pc \in {"decode", "handle"} /\ pc' \in {"handle", "write"}
  BY DEF Decode, Handle, Undecodable
<1>3. pc' = "handle" => pc = "decode" /\ Bytes(line) <= MaxRequest
  BY DEF Decode, Handle, Undecodable, Dispatched
<1>4. ASSUME NEW span, Read(span) PROVE Read(span)'
  BY <1>1, <1>4 DEF Read, Within, Starts, Cut, LineEnds
<1>5. Bytes(line)' = Bytes(line)
  BY <1>1 DEF Bytes, Length
<1>6. Between'
  BY <1>2 DEF Between
<1>7. InLine'
  <2>1. pc' = "handle" => line.to \in LineEnds
    <3>1. SUFFICES ASSUME pc = "decode", Bytes(line) <= MaxRequest, Length(line) = Limit
                   PROVE  FALSE
      BY <1>3 DEF LineInv, InLine
    <3>2. IsFiniteSet({i \in line.from..line.to : written[i] = "wide"})
      <4>1. line.from \in Int /\ line.to \in Int
        BY DEF TypeOK, Spans
      <4>2. IsFiniteSet(line.from..line.to)
        BY <4>1, FS_Interval
      <4> QED BY <4>2, FS_Subset
    <3>3. Cardinality({i \in line.from..line.to : written[i] = "wide"}) \in Nat
      BY <3>2, FS_CardinalityType
    <3> QED BY <3>1, <3>3, StdioAssumption DEF Bytes, Limit
  <2>2. (line.to \in LineEnds)' = (line.to \in LineEnds)
    BY <1>1 DEF LineEnds
  <2>3. Read(line)' /\ (line.to = taken)'
    BY <1>1, <1>2, <1>4 DEF LineInv, InLine
  <2> QED BY <1>2, <1>3, <1>5, <2>1, <2>2, <2>3 DEF InLine
<1>8. Responses'
  BY <1>1, <1>2, <1>4 DEF LineInv, Responses, NextFrom
<1> QED BY <1>6, <1>7, <1>8 DEF LineInv

\* A line is answered: it is whole, and after those answered before.
LEMMA WriteKeeps ==
    ASSUME TypeOK, LineInv, Write
    PROVE  LineInv'
<1>1. /\ UNCHANGED <<translates, written, eof, taken, line>> /\ pc = "write" /\ pc' = "read"
      /\ out' = Append(out, <<line, reply>>)
  BY DEF Write
<1>2. Read(line) /\ line.to = taken /\ taken \in Nat /\ Len(written) \in Nat
  BY <1>1 DEF LineInv, InLine, TypeOK
<1>3. /\ Len(out) \in Nat /\ Len(out') = Len(out) + 1 /\ out'[Len(out) + 1][1] = line
      /\ \A k \in 1..Len(out) : out'[k] = out[k]
  BY <1>1 DEF TypeOK
<1>4. Between'
  BY <1>1, <1>2 DEF Between, Starts, Cut, Read, LineEnds
<1>5. InLine'
  BY <1>1 DEF InLine
<1>6. NextFrom = line.from /\ NextFrom' = taken + 1 /\ line.from <= taken /\ line.from \in Nat
  BY <1>1, <1>2 DEF NextFrom, Read, Within
<1>7. ASSUME NEW k \in 1..Len(out') PROVE (Read(out[k][1]) /\ out[k][1].to < NextFrom)'
  <2>1. CASE k = Len(out) + 1
    <3>1. Read(out[k][1])'
      BY <1>1, <1>2, <1>3, <2>1 DEF Read, Within, Starts, Cut, LineEnds
    <3>2. line.to < NextFrom'
      BY <1>2, <1>6
    <3> QED BY <1>3, <2>1, <3>1, <3>2
  <2>2. CASE k \in 1..Len(out)
    <3>1. Read(out[k][1]) /\ out[k][1].to < NextFrom /\ out'[k] = out[k]
      BY <1>3, <2>2 DEF LineInv, Responses
    <3>2. out[k][1].to \in Int
      BY <1>2, <3>1 DEF Read, Within
    <3>3. Read(out[k][1])'
      BY <1>1, <3>1 DEF Read, Within, Starts, Cut, LineEnds
    <3> QED BY <1>2, <1>6, <3>1, <3>2, <3>3
  <2> QED BY <1>3, <1>7, <2>1, <2>2
<1>8. ASSUME NEW k \in 2..Len(out') PROVE out'[k - 1][1].to < out'[k][1].from
  <2>1. CASE k = Len(out) + 1
    <3>1. k - 1 \in 1..Len(out)
      BY <1>3, <1>8, <2>1
    <3> QED BY <1>3, <1>6, <2>1, <3>1 DEF LineInv, Responses
  <2>2. CASE k \in 2..Len(out)
    BY <1>3, <2>2 DEF LineInv, Responses
  <2> QED BY <1>3, <1>8, <2>1, <2>2
<1>9. Responses'
  BY <1>7, <1>8 DEF Responses
<1> QED BY <1>4, <1>5, <1>9 DEF LineInv

\* The server ends in the middle of a line.
LEMMA BreaksKeeps ==
    ASSUME TypeOK, LineInv, Breaks
    PROVE  LineInv'
<1>1. UNCHANGED <<translates, written, eof, taken, line, out>> /\ pc' = "broken" /\ pc \in {"read", "drain", "write"}
  BY DEF Breaks
<1>2. ASSUME NEW span, Read(span) PROVE Read(span)'
  BY <1>1, <1>2 DEF Read, Within, Starts, Cut, LineEnds
<1>3. NextFrom' = taken + 1 /\ NextFrom <= taken + 1 /\ NextFrom \in Int /\ taken \in Nat
  BY <1>1 DEF NextFrom, LineInv, InLine, Read, Within, TypeOK
<1>4. ASSUME NEW k \in 1..Len(out) PROVE out[k][1].to < taken + 1
  <2>1. Read(out[k][1]) /\ out[k][1].to < NextFrom
    BY DEF LineInv, Responses
  <2>2. out[k][1].to \in Int
    BY <2>1 DEF Read, Within, TypeOK
  <2> QED BY <1>3, <2>1, <2>2
<1>5. Responses'
  BY <1>1, <1>2, <1>3, <1>4 DEF LineInv, Responses
<1> QED BY <1>1, <1>5 DEF LineInv, Between, InLine
-----------------------------------------------------------------------------
(* The theorems.                                                           *)

\* The invariant holds in every state of the server.
THEOREM LinesStayWhole == Spec => []LineInv
<1>1. TypeOK /\ LineInv /\ [Next]_vars => LineInv'
  <2> SUFFICES ASSUME TypeOK, LineInv, [Next]_vars PROVE LineInv'
    OBVIOUS
  <2>1. CASE UNCHANGED vars
    BY <2>1 DEF vars, LineInv, Between, InLine, Responses, NextFrom, Read, Within, Starts,
                Cut, LineEnds, Bytes, Length, Limit, AtLineEnd
  <2> QED BY <2>1, ClientKeeps, ReadLineKeeps, DrainKeeps, HandlingKeeps, WriteKeeps, BreaksKeeps
          DEF Next, Server
<1> QED BY <1>1, LineInvInit, StdioTypes, PTL DEF Spec

\* Whatever the client writes, and wherever readline() cuts it, a response of
\* serve_stdio is about one whole physical line, or about a part between the returns
\* at which bounded reads ended, and the responses follow the lines.
THEOREM WholeLinesAnswered == Spec => []OneResponseForAWholeLine
<1>1. TypeOK /\ LineInv => OneResponseForAWholeLine
  BY ReadIsWhole DEF TypeOK, LineInv, Responses, OneResponseForAWholeLine
<1> QED BY <1>1, LinesStayWhole, StdioTypes, PTL

\* What serve_stdio has handled ends with its line and has at most max_request_bytes bytes,
\* though the limit of its readline() counts characters.
THEOREM LimitHolds == Spec => []HandledWithinTheLimit
<1>1. TypeOK /\ LineInv => HandledWithinTheLimit
  BY ReadIsWhole DEF TypeOK, LineInv, InLine, HandledWithinTheLimit
<1> QED BY <1>1, LinesStayWhole, StdioTypes, PTL
=============================================================================

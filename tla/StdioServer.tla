----------------------------- MODULE StdioServer -----------------------------
(***************************************************************************)
(* connector.serve_stdio: requests and responses as lines of JSON.  A client *)
(* writes characters, a line at a time or not, and closes its end when it    *)
(* likes; the server reads with a bounded readline(), drains what is left of *)
(* a line that is too long, decodes, has the request handled and answers.    *)
(* The sessions of the connector are modelled by Connector; here a request   *)
(* is handled or not.                                                        *)
(***************************************************************************)
EXTENDS Naturals, Sequences, FiniteSets

CONSTANTS MaxRequest, \* max_request_bytes
          MaxWritten, \* bound on what the client writes
          MaxOther    \* bound on the white space and wide characters in it

ASSUME StdioAssumption == MaxRequest \in Nat \ {0} /\ MaxWritten \in Nat /\ MaxOther \in Nat

\* A character of one byte, one of two, white space, a carriage return, and the end
\* of a line.
Char == {"narrow", "wide", "space", "cr", "nl"}

VARIABLES translates, \* the stream makes line ends of returns, as sys.stdin does
          written,  \* what the client has written
          eof,      \* it has closed its end
          taken,    \* how much of it the server has read
          pc,
          line,     \* raw_line: where it begins, and ends
          reply,    \* how the line was answered
          out       \* the responses: the last character of the line, and the kind

vars == <<translates, written, eof, taken, pc, line, reply, out>>

Kinds == {"too_long", "undecodable", "refused", "failed", "result"}
Spans == [from : 1..(MaxWritten + 1), to : 0..MaxWritten]
Response == Spans \X Kinds

TypeOK ==
    /\ translates \in BOOLEAN
    /\ written \in Seq(Char) /\ Len(written) <= MaxWritten
    /\ eof \in BOOLEAN
    /\ taken \in 0..Len(written)
    /\ pc \in {"read", "drain", "decode", "handle", "write", "done", "broken"}
    /\ line \in Spans /\ reply \in Kinds
    /\ out \in Seq(Response)
-----------------------------------------------------------------------------
(* The client.                                                             *)

Other == {"space", "wide", "cr"}
Others == {i \in 1..Len(written) : written[i] \in Other}

WriteChar ==
    /\ ~eof
    /\ Len(written) < MaxWritten
    /\ \E c \in Char :
         /\ c \in Other => Cardinality(Others) < MaxOther
         /\ c = "cr" => ~translates
         /\ written' = Append(written, c)
    /\ UNCHANGED <<translates, eof, taken, pc, line, reply, out>>

Close ==
    /\ ~eof
    /\ eof' = TRUE
    /\ UNCHANGED <<translates, written, taken, pc, line, reply, out>>
-----------------------------------------------------------------------------
(* The server.                                                             *)

\* The size that readline() is given.
Limit == MaxRequest + 2

\* Where readline() ends: after the end of a line, the limit, or the input.
\* It waits as long as there is none of these.  A return that is kept, as io.StringIO
\* keeps it, ends nothing.
ReadEnds ==
    LET ends == {i \in (taken + 1)..Len(written) : written[i] = "nl" /\ i <= taken + Limit} IN
    IF ends # {} THEN {i \in ends : \A j \in ends : i <= j}
    ELSE IF Len(written) >= taken + Limit THEN {taken + Limit}
    ELSE IF eof THEN {Len(written)}
    ELSE {}

Length(span) == (span.to + 1) - span.from
\* endswith(("\n", "\r")).
AtLineEnd(i) == i > 0 /\ written[i] \in {"nl", "cr"}
\* line_too_long.
TooLong(span) == Length(span) > MaxRequest /\ ~AtLineEnd(span.to)
Blank(span) == \A i \in span.from..span.to : written[i] \in {"space", "cr", "nl"}
Bytes(span) ==
    Length(span) + Cardinality({i \in span.from..span.to : written[i] = "wide"})

ReadLine ==
    /\ pc = "read"
    /\ \E end \in ReadEnds :
         LET read == [from |-> taken + 1, to |-> end] IN
         /\ taken' = end
         /\ line' = read
         /\ pc' = IF end = taken THEN "done"
                  ELSE IF TooLong(read) THEN "drain"
                  ELSE IF Blank(read) THEN "read"
                  ELSE "decode"
    /\ UNCHANGED <<translates, written, eof, reply, out>>

\* slip: the end of the input is not the end of the line.
DrainToLineEnd ==
    /\ pc = "drain"
    /\ \E end \in ReadEnds :
         /\ taken' = end
         /\ line' = [line EXCEPT !.to = end]
         /\ IF AtLineEnd(end) THEN pc' = "write" /\ reply' = "too_long"
            ELSE UNCHANGED <<pc, reply>>
    /\ UNCHANGED <<translates, written, eof, out>>

\* slip: what is left is read once.
DrainOnce ==
    /\ pc = "drain"
    /\ \E end \in ReadEnds : taken' = end /\ line' = [line EXCEPT !.to = end]
    /\ pc' = "write" /\ reply' = "too_long"
    /\ UNCHANGED <<translates, written, eof, out>>

\* The rest of a line that is too long.
Drain ==
    /\ pc = "drain"
    /\ \E end \in ReadEnds :
         /\ taken' = end
         /\ line' = [line EXCEPT !.to = end]
         /\ IF end = taken \/ AtLineEnd(end) THEN pc' = "write" /\ reply' = "too_long"
            ELSE UNCHANGED <<pc, reply>>
    /\ UNCHANGED <<translates, written, eof, out>>

\* Surrogates, nesting, duplicate keys, numbers or the shape: any line may be refused.
Undecodable == pc' = "write" /\ reply' = "undecodable"

\* decode_connector_request: the bytes, with those of the end of the line, come first.
Decode ==
    /\ pc = "decode"
    /\ \/ Undecodable
       \/ Bytes(line) <= MaxRequest /\ pc' = "handle" /\ UNCHANGED reply
    /\ UNCHANGED <<translates, written, eof, taken, line, out>>

\* _dispatch_operation: the payload is refused, the operation fails, or there is
\* a result.
Dispatched == {"refused", "failed", "result"}

\* handle_request, which may refuse the envelope too.
Handle ==
    /\ pc = "handle"
    /\ reply' \in Dispatched
    /\ pc' = "write"
    /\ UNCHANGED <<translates, written, eof, taken, line, out>>

Write ==
    /\ pc = "write"
    /\ out' = Append(out, <<line, reply>>)
    /\ pc' = "read"
    /\ UNCHANGED <<translates, written, eof, taken, line, reply>>

\* The input is not UTF-8, or the output cannot be written: the server ends.
Breaks ==
    /\ pc \in {"read", "drain", "write"}
    /\ pc' = "broken"
    /\ UNCHANGED <<translates, written, eof, taken, line, reply, out>>
-----------------------------------------------------------------------------
Init ==
    /\ translates \in BOOLEAN
    /\ written = <<>> /\ eof = FALSE /\ taken = 0
    /\ pc = "read" /\ line = [from |-> 1, to |-> 0] /\ reply = "refused" /\ out = <<>>

Server == ReadLine \/ Drain \/ Decode \/ Handle \/ Write
Next == WriteChar \/ Close \/ Server \/ Breaks

Spec == Init /\ [][Next]_vars
\* The server runs; the client need not do anything.
FairSpec == Spec /\ WF_vars(Server)
-----------------------------------------------------------------------------
(* Properties.                                                             *)

\* A physical line ends at i, and begins after the end before it.
LineEnds == {i \in 1..Len(written) : written[i] = "nl" \/ (eof /\ i = Len(written))}
Begins(i) == 1 + (CHOOSE j \in 0..(i - 1) :
                     /\ j = 0 \/ written[j] = "nl"
                     /\ \A k \in (j + 1)..(i - 1) : written[k] # "nl")

\* A bounded read may end at i, with a return that the stream kept: the server takes
\* it for the end of the line.  Where the stream translates there is no such place.
Cut(i) ==
    /\ i >= Limit /\ written[i] = "cr"
    /\ \A k \in (i + 1 - Limit)..(i - 1) : written[k] # "nl"

\* A line, or what follows a cut, begins after n characters.
Starts(n) == n = 0 \/ written[n] = "nl" \/ Cut(n)

\* A line that no read cuts, or a part between such cuts.
Whole(span) ==
    /\ Starts(span.from - 1)
    /\ span.to \in LineEnds \/ Cut(span.to)
    /\ \A k \in span.from..(span.to - 1) : written[k] # "nl"

\* A response is about one whole physical line, or about a part of one between the
\* returns at which bounded reads ended, and the responses are in the order of the
\* lines.  No line is answered or handled in other parts, or together with the next.
OneResponseForAWholeLine ==
    /\ \A k \in 1..Len(out) : Whole(out[k][1])
    /\ \A k \in 2..Len(out) : out[k - 1][1].to < out[k][1].from

\* What is handled ends with its line and has at most max_request_bytes.
HandledWithinTheLimit ==
    pc = "handle" => Whole(line) /\ line.to \in LineEnds /\ Bytes(line) <= MaxRequest

\* Every line that is not blank is answered, without waiting for the next, and
\* the server ends with its input, unless its input or output breaks.
EveryLineIsAnswered ==
    []<>(\/ pc = "broken"
         \/ /\ \A i \in LineEnds :
                  \/ Blank([from |-> Begins(i), to |-> i])
                  \/ \E k \in 1..Len(out) : out[k][1].to \in Begins(i)..i
            /\ eof => pc = "done")
=============================================================================

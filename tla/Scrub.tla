------------------------------- MODULE Scrub -------------------------------
(* The response scrub (secrets/scrub.go): every spelling of a held secret is *)
(* replaced in what a declared host sends back, while the body streams in    *)
(* chunks of any size.                                                       *)
(*                                                                           *)
(* A body is a sequence over a small alphabet. "p" starts an escape, which   *)
(* takes one more byte and spells it (%XX, \uXXXX, \xNN, &#NN; and the       *)
(* short forms are all this, with longer bodies); "g" is a format character, *)
(* "o" anything else. The derived needles (hex, base64, ...) are needles     *)
(* like the value itself, and the replacement of a match, which the code     *)
(* spells the way the match was spelled, is the one symbol "R".              *)
EXTENDS Naturals, Sequences, FiniteSets

CONSTANTS
    Needles,  \* what must not come back
    Bytes,    \* what bodies are made of
    MaxBody,  \* bound on a body
    MaxGap    \* maxGap

ASSUME ScrubConstants ==
    /\ \A n \in Needles : n \in Seq(Bytes) /\ n # <<>>
    /\ MaxBody \in Nat /\ MaxGap \in Nat

Spellable == Bytes \ {"o", "g"}
isEscapeStart(b) == b = "p"
isGap(r) == r = "g"

\* The character at the start of data[at..]: its width, whether it was an escape,
\* and whether the data ends inside it.
readToken(data, at, escaped, final) ==
    LET literal == [more |-> FALSE, r |-> data[at], w |-> 1] IN
    IF ~(escaped /\ isEscapeStart(data[at])) THEN literal
    ELSE IF at = Len(data) THEN IF final THEN literal ELSE [more |-> TRUE, r |-> "o", w |-> 0]
    ELSE IF data[at + 1] \in Spellable THEN [more |-> FALSE, r |-> data[at + 1], w |-> 2]
    ELSE literal

\* matchAt, from the k-th character of n on, after gap format characters: where the
\* match ends, 0 for none, and whether it depends on what follows the data.
RECURSIVE matchFrom(_, _, _, _, _, _, _)
matchFrom(data, at, n, k, gap, escaped, final) ==
    IF k > Len(n) THEN [end |-> at, more |-> FALSE]
    ELSE IF at > Len(data) THEN [end |-> 0, more |-> ~final]
    ELSE LET t == readToken(data, at, escaped, final) IN
         IF t.more THEN [end |-> 0, more |-> TRUE]
         ELSE IF t.r = n[k]
              THEN matchFrom(data, at + t.w, n, k + 1, 0, escaped, final)
         ELSE IF t.w > 1 /\ data[at] = n[k]
              THEN matchFrom(data, at + 1, n, k + 1, 0, escaped, final)
         ELSE IF k = 1 \/ gap >= MaxGap \/ ~isGap(t.r) THEN [end |-> 0, more |-> FALSE]
         ELSE matchFrom(data, at + t.w, n, k, gap + 1, escaped, final)

matchAt(data, i, n, escaped, final) == matchFrom(data, i, n, 1, 0, escaped, final)

mayStartPlain(data, i) ==
    \/ isEscapeStart(data[i])
    \/ \E n \in Needles :
          /\ data[i] = n[1]
          /\ i = Len(data) \/ Len(n) = 1 \/ data[i + 1] \in {n[2], "p"}

\* The tables start and pair: a byte, or two, with which a match can begin.
mayStart(data, i) ==
    \/ isEscapeStart(data[i])
    \/ \E n \in Needles :
          /\ data[i] = n[1]
          /\ i = Len(data) \/ Len(n) = 1 \/ data[i + 1] \in {n[2], "p", "g"}

\* Every attempt at i in one reading; the plain byte after the first character
\* decides most of them beforehand.
Attempts(data, i, escaped, final) ==
    LET t == readToken(data, i, escaped, final)
        excluded(n) ==
            /\ Len(n) > 1 /\ i + t.w <= Len(data)
            /\ data[i + t.w] \notin {"p", "g", n[2]}
    IN IF t.more THEN {[end |-> 0, more |-> TRUE]}
       ELSE { matchAt(data, i, n, escaped, final) :
                n \in { m \in Needles : /\ m[1] = t.r /\ ~excluded(m)
                                        /\ escaped \/ \E k \in DOMAIN m : isEscapeStart(m[k]) } }

Longest(S) == CHOOSE e \in {0} \cup { a.end : a \in S } : \A a \in S : a.end <= e

\* The escaped reading, and the literal one where an escape starts and nothing was
\* found.
BestAt(data, i, final) ==
    LET first == Attempts(data, i, TRUE, final)
        second == IF isEscapeStart(data[i]) /\ Longest(first) = 0
                  THEN Attempts(data, i, FALSE, final) ELSE {}
    IN [end |-> Longest(first \cup second), more |-> \E a \in first \cup second : a.more]

\* The replacement, in the spelling of the match: no needle occurs in it.
encodeRepl(out) == Append(out, "R")

\* scan, from byte i on with out behind it: the output, and how many trailing bytes
\* are held because a match may still begin there.
RECURSIVE scanFrom(_, _, _, _)
scanFrom(data, i, out, final) ==
    IF i > Len(data) THEN [out |-> out, held |-> 0]
    ELSE LET best == IF mayStart(data, i) THEN BestAt(data, i, final)
                     ELSE [end |-> 0, more |-> FALSE]
         IN IF best.more THEN [out |-> out, held |-> Len(data) - i + 1]
            ELSE IF best.end = 0 THEN scanFrom(data, i + 1, Append(out, data[i]), final)
            ELSE scanFrom(data, best.end, encodeRepl(out), final)

scan(data, final) == scanFrom(data, 1, <<>>, final)

-----------------------------------------------------------------------------
VARIABLES
    body,      \* what the upstream sends
    header,    \* what the headers say: "plain", "bodyless" or "encoded"
    stage,     \* "headers", "stream", "done" or "rejected"
    taken,     \* how much of the body was read
    pending,   \* read and not yet passed on
    output     \* what the client got of the body

scrubVars == <<body, header, stage, taken, pending, output>>

Streams == UNION { [1..n -> Bytes] : n \in 0..MaxBody }

ScrubInit ==
    /\ body \in Streams
    /\ header \in {"plain", "bodyless", "encoded"}
    /\ header # "plain" => body = <<>>
    /\ stage = "headers" /\ taken = 0 /\ pending = <<>> /\ output = <<>>

\* TransformResponse for a request that carried a secret: no body, nothing to do; a
\* body the proxy cannot read is refused; any other is wrapped.
TransformResponse ==
    /\ stage = "headers"
    /\ stage' = [plain |-> "stream", bodyless |-> "done", encoded |-> "rejected"][header]
    /\ UNCHANGED <<body, header, taken, pending, output>>

ReadDropsHeld(n, end) ==
    LET data == pending \o SubSeq(body, taken + 1, taken + n)
        s == scan(data, TRUE)
    IN /\ output' = output \o s.out
       /\ pending' = SubSeq(data, Len(data) - s.held + 1, Len(data))

\* scrubReader.Read: n more bytes of the body, and whether its end, or an error,
\* came with them.
Read(n, end) ==
    LET data == pending \o SubSeq(body, taken + 1, taken + n)
        s == scan(data, end)
    IN /\ output' = output \o s.out
       /\ pending' = SubSeq(data, Len(data) - s.held + 1, Len(data))

Stream ==
    /\ stage = "stream"
    /\ \E n \in 0..(Len(body) - taken), end \in BOOLEAN :
          /\ n > 0 \/ end
          /\ Read(n, end)
          /\ taken' = taken + n
          /\ stage' = IF end THEN "done" ELSE "stream"
    /\ UNCHANGED <<body, header>>

ScrubNext == TransformResponse \/ Stream

ScrubSpec == ScrubInit /\ [][ScrubNext]_scrubVars

-----------------------------------------------------------------------------
\* Every way to read a character at data[at..]: as it stands, or as an escape.
Readings(data, at) ==
    {[r |-> data[at], w |-> 1]}
    \cup IF isEscapeStart(data[at]) /\ at < Len(data) /\ data[at + 1] \in Spellable
         THEN {[r |-> data[at + 1], w |-> 2]} ELSE {}

\* n is spelled in data from at on, in any mixture of readings, with at most MaxGap
\* format characters between two of its characters.
RECURSIVE Spelled(_, _, _, _, _)
Spelled(data, at, n, k, gap) ==
    \/ k > Len(n)
    \/ /\ at <= Len(data)
       /\ \E t \in Readings(data, at) :
             \/ t.r = n[k] /\ Spelled(data, at + t.w, n, k + 1, 0)
             \/ k > 1 /\ gap < MaxGap /\ isGap(t.r) /\ Spelled(data, at + t.w, n, k, gap + 1)

\* Whatever sizes the upstream's chunks have, what the client got is at every moment
\* what scanning everything at once would deliver first, less at most what is held;
\* at the end it is all of it, also when the stream broke off.
ChunksInvisible ==
    LET whole == scan(SubSeq(body, 1, taken), TRUE).out
        all == scan(body, TRUE).out
    IN /\ stage = "stream" => /\ Len(output) <= Len(all)
                              /\ output = SubSeq(all, 1, Len(output))
       /\ stage = "done" => output = whole

\* No needle is spelled anywhere in what the client got, in any mixture of
\* literals, escapes and gaps, whether or not a chunk ended inside it.
NothingSpelled ==
    \A n \in Needles, i \in DOMAIN output : ~Spelled(output, i, n, 1, 0)

\* A secret that the host returns as it is does not reach the client: "so any byte
\* string matches itself".
MatchesItself ==
    \A n \in Needles, i \in DOMAIN output :
        Len(n) <= Len(output) - i + 1 => SubSeq(output, i, i + Len(n) - 1) # n
=============================================================================

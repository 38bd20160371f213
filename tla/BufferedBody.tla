---------------------------- MODULE BufferedBody ----------------------------
(* transform/body.go: the body the proxy puts around a request's reader.      *)
(*                                                                            *)
(* A body is a record. While `original` is TRUE the reader behind it still    *)
(* holds `rest`, and then ends or, if `fails`, returns an error. The first    *)
(* Read moves up to `max` bytes (0: no limit) into `data` and drops the       *)
(* reader; `once` is the sync.Once. A byte is a token of the body.            *)
EXTENDS Integers, Sequences

NewBufferedBody(content, fails, max) ==
    [original |-> TRUE, rest |-> content, fails |-> fails, max |-> max,
     once |-> FALSE, data |-> <<>>, pos |-> 0]

NewBufferedBodyFromBytes(data) ==
    [original |-> FALSE, rest |-> <<>>, fails |-> FALSE, max |-> 0,
     once |-> TRUE, data |-> data, pos |-> 0]

\* The limit ends the read before the reader does.
Truncates(b) == b.max > 0 /\ Len(b.rest) >= b.max

\* Only the call that runs the sync.Once sees the reader's error.
BufferFails(b) == ~b.once /\ b.fails /\ ~Truncates(b)

\* What was read before an error stays in data.
Buffer(b) ==
    IF b.once THEN b
    ELSE [b EXCEPT !.once = TRUE, !.original = FALSE, !.rest = <<>>,
                   !.data = IF Truncates(b) THEN SubSeq(b.rest, 1, b.max) ELSE b.rest]

Unread(b) == SubSeq(b.data, b.pos + 1, Len(b.data))

\* io.ReadAll of the body: [err, bytes, body].
ReadAll(b) ==
    IF BufferFails(b)
    THEN [err |-> TRUE, bytes |-> <<>>, body |-> Buffer(b)]
    ELSE [err |-> FALSE, bytes |-> Unread(Buffer(b)),
          body |-> [Buffer(b) EXCEPT !.pos = Len(Buffer(b).data)]]

Reset(b) == [b EXCEPT !.pos = 0]

\* The reader handed to the transport: [bytes, fails].
StreamingReader(b) ==
    IF b.original THEN [bytes |-> b.rest, fails |-> b.fails]
    ELSE [bytes |-> Unread(b), fails |-> FALSE]

Length(b) == IF b.original THEN -1 ELSE Len(b.data)
=============================================================================

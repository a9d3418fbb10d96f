---------------------------- MODULE RewindReader ----------------------------
(***************************************************************************)
(* common.RewindReader: a reader that remembers what was read so that the  *)
(* next layer can read it again.  A byte is its position in the stream; a  *)
(* reader is a record of the bytes still to come from rawReader (`src')    *)
(* and the fields of the struct.                                           *)
(***************************************************************************)
EXTENDS Naturals, Sequences

\* NewRewindConn over a connection that will deliver the bytes src.
NewRewindConn(src) ==
    [src |-> src, buf |-> <<>>, idx |-> 0, rewound |-> FALSE, buffering |-> FALSE, size |-> 0]

\* What a reader that comes now will get, in order.
Ahead(r) == (IF r.rewound THEN SubSeq(r.buf, r.idx + 1, Len(r.buf)) ELSE <<>>) \o r.src

\* SetBufferSize(n) for n > 0; it panics when the reader is buffering.
SetBufferSize(r, n) == [r EXCEPT !.buffering = TRUE, !.idx = 0, !.size = n, !.buf = <<>>]

FromBuffer(r) == r.rewound /\ Len(r.buf) > r.idx

\* Read of up to n bytes: from the buffer while something of it is left, else
\* from rawReader, keeping a copy while buffering.
Read(r, n) ==
    LET k == IF n < Len(r.src) THEN n ELSE Len(r.src)
        m == IF r.idx + n < Len(r.buf) THEN r.idx + n ELSE Len(r.buf)
    IN IF FromBuffer(r)
       THEN [r EXCEPT !.idx = m]
       ELSE [r EXCEPT !.rewound = FALSE,
                      !.src = SubSeq(@, k + 1, Len(@)),
                      !.buf = IF r.buffering THEN @ \o SubSeq(r.src, 1, k) ELSE @]

\* Rewind panics without a buffer; every caller has set one.
Rewind(r) == [r EXCEPT !.rewound = TRUE, !.idx = 0]

StopBuffering(r) == [r EXCEPT !.buffering = FALSE]

\* The common use: look at up to n bytes and give them back.
Peeked(r, n) == StopBuffering(Rewind(Read(r, n)))
=============================================================================

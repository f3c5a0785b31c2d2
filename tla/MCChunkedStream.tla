-------------------------- MODULE MCChunkedStream --------------------------
(***************************************************************************)
(* ChunkedStream for TLC: short messages of characters that are, and that  *)
(* look like, parts of the encoding.                                       *)
(***************************************************************************)
EXTENDS ChunkedStream

Chunks == [k \in DOMAIN Payloads |-> Chunk(Payloads[k])]

StreamOfChunks == FlattenSeq(Chunks)

EndsOfChunks == [k \in 0 .. Len(Payloads) |-> Len(FlattenSeq(SubSeq(Chunks, 1, k)))]

Data == 211

FourMessages ==
    << << Data, CR >>, << Digit(1) >>, << CR, LF, Digit(2) >>, << Data, LF >> >>

SixMessages ==
    << << Data >>, << Digit(1), CR, LF >>, << Data, Data >>,
       << LF, CR >>, << Digit(3) >>, << CR, LF, Digit(2), CR, LF >> >>
============================================================================

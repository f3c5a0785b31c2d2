----------------------------- MODULE ChunkedStream -----------------------------
(***************************************************************************)
(* NtripSocket::read_chunked_stream (common/ntripSocket.cpp): the parser   *)
(* of HTTP chunks that every NTRIP download runs, at the level of          *)
(* characters.  Each call parses what downloadBuf holds, in a loop that    *)
(* alternates between a header line and a body, and leaves what is not a   *)
(* whole chunk in downloadBuf for the next call.                           *)
(*                                                                         *)
(* The loop reads the buffer through a stream but decides how much there   *)
(* is with an index i of its own.  A read past the end fails and leaves    *)
(* the character variable as it was.                                       *)
(***************************************************************************)
EXTENDS Integers, Sequences, SequencesExt

CONSTANTS
    Payloads,       \* the messages the caster sends, as character sequences
    Stream,         \* what the caster sends: the messages, each as a chunk
    EndOfChunk,     \* where in the stream the first k chunks end
    Uninitialised,  \* what a character variable may hold that was not set
    MaxReconnects   \* bound on the number of lost connections

VARIABLES
    arrived,                 \* characters of the caster's stream read so far
    downloadBuf,
    chunked_message_length,  \* length in the last header, 0: none
    pc,                      \* "wait": for async_read; "parse": in the loop
    i, sz,                   \* locals of read_chunked_stream
    c_i, c_j,
    receivedDataBuffer,      \* payloads handed to dataChunkDownloaded
    numberValidChunks,
    numberErroredChunks,
    reconnects,
    lost,                    \* messages of which a reconnection lost a part
    cutShort                 \* history: a read ended where the lag can bite

counts == <<numberValidChunks, numberErroredChunks>>
vars == <<arrived, downloadBuf, chunked_message_length, pc, i, sz, c_i, c_j,
          receivedDataBuffer, counts, reconnects, lost, cutShort>>

------------------------------------------------------------------------------
CR == 13
LF == 10
Digit(n) == 48 + n
IsDigit(ch) == ch \in 48 .. 57 \cup 65 .. 70 \cup 97 .. 102
IsSpace(ch) == ch \in {CR, LF}

HexValue(ch) == IF ch <= 57 THEN ch - 48 ELSE IF ch <= 70 THEN ch - 55 ELSE ch - 87

(* What the caster sends for a message: its length, CR LF, the message,    *)
(* CR LF.                                                                  *)
Chunk(payload) == << Digit(Len(payload)), CR, LF >> \o payload \o << CR, LF >>

ASSUME ConstantsAssumption ==
    /\ Payloads \in Seq(Seq(0 .. 255))
    /\ \A k \in DOMAIN Payloads : Len(Payloads[k]) \in 1 .. 9
    /\ Stream \in Seq(0 .. 255)
    /\ EndOfChunk \in [0 .. Len(Payloads) -> 0 .. Len(Stream)]
    /\ EndOfChunk[0] = 0
    /\ EndOfChunk[Len(Payloads)] = Len(Stream)
    /\ \A k \in DOMAIN Payloads :
          SubSeq(Stream, EndOfChunk[k - 1] + 1, EndOfChunk[k]) = Chunk(Payloads[k])
    /\ \A j, k \in 0 .. Len(Payloads) : j < k => EndOfChunk[j] < EndOfChunk[k]
    /\ Uninitialised \subseteq 0 .. 255 /\ Uninitialised # {}
    /\ MaxReconnects \in Nat

(* The read that starts after `arrived' may end anywhere.                  *)
ReadEnds == arrived + 1 .. Len(Stream)

(* The headers that end within the read: the parser's index will lag       *)
(* behind the stream by one character for each of them.                    *)
HeadersIn(upTo) ==
    {k \in 0 .. Len(Payloads) - 1 :
        /\ arrived < EndOfChunk[k] + 3
        /\ EndOfChunk[k] + 3 <= upTo}

(* Reads whose end the lag leaves alone: they end with a chunk, in a       *)
(* header before which the index does not lag, or in a body of which more  *)
(* is missing than the index lags behind.                                  *)
Harmless(upTo) ==
    \A k \in 0 .. Len(Payloads) - 1 :
        EndOfChunk[k] < upTo /\ upTo < EndOfChunk[k + 1] =>
            IF upTo < EndOfChunk[k] + 3
            THEN HeadersIn(upTo) = {}
            ELSE upTo + Cardinality(HeadersIn(upTo)) < EndOfChunk[k + 1]

LongestMessage == 1000000

TypeOK ==
    /\ arrived \in 0 .. Len(Stream)
    /\ downloadBuf \in Seq(0 .. 255)
    /\ chunked_message_length \in 0 .. LongestMessage
    /\ pc \in {"wait", "parse"}
    /\ i \in 0 .. sz
    /\ sz \in Nat
    /\ {c_i, c_j} \subseteq 0 .. 255
    /\ receivedDataBuffer \in Seq(Seq(0 .. 255))
    /\ numberValidChunks \in Nat
    /\ numberErroredChunks \in Nat
    /\ reconnects \in 0 .. MaxReconnects
    /\ lost \subseteq DOMAIN Payloads
    /\ cutShort \in BOOLEAN

Init ==
    /\ arrived = 0
    /\ downloadBuf = << >>
    /\ chunked_message_length = 0
    /\ pc = "wait"
    /\ i = 0 /\ sz = 0
    /\ c_i \in Uninitialised /\ c_j \in Uninitialised
    /\ receivedDataBuffer = << >>
    /\ numberValidChunks = 0
    /\ numberErroredChunks = 0
    /\ reconnects = 0
    /\ lost = {}
    /\ cutShort = FALSE

------------------------------------------------------------------------------
(* async_read with transfer_at_least(1) completes: the parser is called.   *)
Receive ==
    /\ pc = "wait"
    /\ \E upTo \in ReadEnds :
          /\ arrived' = upTo
          /\ downloadBuf' = downloadBuf \o SubSeq(Stream, arrived + 1, upTo)
          /\ cutShort' = (cutShort \/ ~Harmless(upTo))
    /\ sz' = Len(downloadBuf')
    /\ i' = 0
    /\ c_i' \in Uninitialised /\ c_j' \in Uninitialised
    /\ pc' = "parse"
    /\ UNCHANGED <<chunked_message_length, receivedDataBuffer, counts,
                   reconnects, lost>>

(* The read fails: delayed_reconnect() clears downloadBuf and connect()    *)
(* forgets the length.  The caster's new stream starts with a whole chunk. *)
Reconnect ==
    /\ pc = "wait"
    /\ reconnects < MaxReconnects
    /\ reconnects' = reconnects + 1
    /\ downloadBuf' = << >>
    /\ chunked_message_length' = 0
    /\ \E k \in 0 .. Len(Payloads) :
          /\ arrived <= EndOfChunk[k]
          /\ k > 0 => EndOfChunk[k - 1] < arrived
          /\ arrived' = EndOfChunk[k]
          /\ lost' = IF arrived = EndOfChunk[k] THEN lost ELSE lost \cup {k}
    /\ UNCHANGED <<pc, i, sz, c_i, c_j, receivedDataBuffer, counts, cutShort>>

------------------------------------------------------------------------------
LogChunkError ==
    /\ numberErroredChunks' = IF numberValidChunks = 0 THEN numberErroredChunks
                              ELSE numberErroredChunks + 1
    /\ UNCHANGED numberValidChunks

(* The header line.  Its characters are read one by one until CR LF or     *)
(* until i reaches sz.                                                     *)
HeaderReads == IF sz - i > 1 THEN sz - i ELSE 1

HeaderChar(k) ==
    CASE k <= Len(downloadBuf)                     -> downloadBuf[k]
      [] k > Len(downloadBuf) /\ k = 1             -> c_i
      [] Len(downloadBuf) > 1 /\ k > Len(downloadBuf) -> Last(downloadBuf)
      [] OTHER                                     -> c_j

EndsHeader(k) == HeaderChar(k - 1) = CR /\ HeaderChar(k) = LF

HeaderEnds == {k \in 2 .. HeaderReads : EndsHeader(k)}

(* The line as a C string, which a zero ends, less two characters for CR   *)
(* LF (substr keeps all of a string too short for that).                   *)
LineLength(k) ==
    LET zeros == {l \in 1 .. k : HeaderChar(l) = 0}
        size  == IF zeros = {} THEN k ELSE Min(zeros) - 1
    IN  IF size < 2 THEN size ELSE size - 2

Line(k) == [l \in 1 .. LineLength(k) |-> HeaderChar(l)]

(* std::stoi(line, 0, 16): white space, then digits; -1 when it throws.  A *)
(* sign, a prefix 0x and an extension behind a semicolon are left out.     *)
ToInteger(line) ==
    LET run == {k \in DOMAIN line :
                  \E first \in 1 .. k :
                        /\ \A j \in 1 .. first - 1 : IsSpace(line[j])
                        /\ \A j \in first .. k : IsDigit(line[j])}
        number[k \in DOMAIN line] ==
            HexValue(line[k]) + IF k - 1 \in run THEN 16 * number[k - 1] ELSE 0
    IN  IF run = {} THEN -1 ELSE number[Max(run)]

(* Mutant: what was read of a header is forgotten.                         *)
ForgetHeader ==
    /\ pc = "parse"
    /\ chunked_message_length = 0
    /\ HeaderEnds = {}
    /\ downloadBuf' = << >>
    /\ i' = sz
    /\ pc' = "wait"
    /\ UNCHANGED <<arrived, chunked_message_length, sz, c_i, c_j,
                   receivedDataBuffer, counts, reconnects, lost, cutShort>>

EndOfBuffer ==
    /\ pc = "parse"
    /\ chunked_message_length = 0
    /\ HeaderEnds = {}
    /\ downloadBuf' = [k \in 1 .. HeaderReads |-> HeaderChar(k)]
    /\ i' = sz
    /\ pc' = "wait"
    /\ UNCHANGED <<arrived, chunked_message_length, sz, c_i, c_j,
                   receivedDataBuffer, counts, reconnects, lost, cutShort>>

ReadHeader ==
    /\ pc = "parse"
    /\ chunked_message_length = 0
    /\ \E k \in HeaderEnds :
          /\ \A l \in HeaderEnds : k <= l
          /\ i' = i + k - 1
          /\ downloadBuf' = SubSeq(downloadBuf, k + 1, Len(downloadBuf))
          /\ LET length == ToInteger(Line(k))
             IN  IF length \in 0 .. LongestMessage
                 THEN /\ chunked_message_length' = length
                      /\ UNCHANGED counts
                 ELSE /\ chunked_message_length' = 0
                      /\ LogChunkError
    /\ c_i' = CR
    /\ c_j' = LF
    /\ UNCHANGED <<arrived, pc, sz, receivedDataBuffer, reconnects, lost, cutShort>>

(* The body, with the CR LF after it.                                      *)
bodyPos == i + chunked_message_length + 2

BodyChar(k) ==
    CASE k <= Len(downloadBuf) -> downloadBuf[k]
      [] downloadBuf # << >> /\ k > Len(downloadBuf) -> Last(downloadBuf)
      [] OTHER                 -> c_i

NoTest == TRUE              \* mutant: the body is read whatever sz is
BodyExpected == sz >= bodyPos

Body == [k \in 1 .. chunked_message_length + 2 |-> BodyChar(k)]

Terminated ==
    /\ Body[chunked_message_length + 1] = CR
    /\ Body[chunked_message_length + 2] = LF

WaitForBody ==
    /\ pc = "parse"
    /\ chunked_message_length # 0
    /\ ~BodyExpected
    /\ pc' = "wait"
    /\ UNCHANGED <<arrived, downloadBuf, chunked_message_length, i, sz, c_i,
                   c_j, receivedDataBuffer, counts, reconnects, lost, cutShort>>

ReadBody ==
    /\ pc = "parse"
    /\ chunked_message_length # 0
    /\ BodyExpected
    /\ i' = bodyPos
    /\ downloadBuf' = SubSeq(downloadBuf, Len(Body) + 1, Len(downloadBuf))
    /\ c_i' = Last(Body)
    /\ IF Terminated
       THEN /\ numberValidChunks' = numberValidChunks + 1
            /\ receivedDataBuffer' =
                   Append(receivedDataBuffer, SubSeq(Body, 1, Len(Body) - 2))
            /\ UNCHANGED numberErroredChunks
       ELSE /\ LogChunkError
            /\ UNCHANGED receivedDataBuffer
    /\ chunked_message_length' = 0
    /\ UNCHANGED <<arrived, pc, sz, c_j, reconnects, lost, cutShort>>

Next ==
    \/ Receive
    \/ Reconnect
    \/ EndOfBuffer
    \/ ReadHeader
    \/ WaitForBody
    \/ ReadBody

Spec == Init /\ [][Next]_vars

------------------------------------------------------------------------------
(* Wherever the reads end, in headers, bodies or between chunks, and       *)
(* whatever connections are lost: as long as no read has ended where the   *)
(* lagging index can bite, every message that no reconnection cut has      *)
(* arrived, in order, and no error is counted.  The parser writes          *)
(* characters it read too much back into the buffer, but these never       *)
(* damage the chunks that follow.                                          *)
Whole(k) == {j \in 1 .. k : j \notin lost}

EveryChunkDelivered ==
    pc = "wait" /\ ~cutShort =>
        /\ \A k \in 0 .. Len(Payloads) :
              arrived = EndOfChunk[k] =>
                  /\ Len(receivedDataBuffer) = Cardinality(Whole(k))
                  /\ \A j \in Whole(k) :
                        receivedDataBuffer[Cardinality(Whole(j))] = Payloads[j]
        /\ numberErroredChunks = 0

(* "receivedDataBuffer is filled with valid RCTM messages in the           *)
(* background without the chunked encoding data": however the stream is    *)
(* cut and whichever chunks are dropped, what is handed on are messages    *)
(* the caster sent, in the order it sent them.                             *)
DeliveredInOrder ==
    \E sent \in [DOMAIN receivedDataBuffer -> DOMAIN Payloads] :
        \A k \in DOMAIN receivedDataBuffer :
            /\ receivedDataBuffer[k] = Payloads[sent[k]]
            /\ k > 1 => sent[k - 1] < sent[k]
==============================================================================

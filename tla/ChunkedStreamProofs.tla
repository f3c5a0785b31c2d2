------------------------- MODULE ChunkedStreamProofs -------------------------
(***************************************************************************)
(* Proofs about ChunkedStream, for any messages and any number of reads.   *)
(***************************************************************************)
EXTENDS ChunkedStream, SequenceTheorems, FiniteSetTheorems, TLAPS

Char == 0 .. 255

N == Len(Payloads)
End(k) == EndOfChunk[k]
ChunkEnds == {End(k) : k \in 0 .. N}

(* The constants.                                                          *)
LEMMA ConstantTypes ==
    /\ N \in Nat /\ DOMAIN Payloads = 1 .. N
    /\ \A k \in 1 .. N : Payloads[k] \in Seq(Char) /\ Len(Payloads[k]) \in 1 .. 9
    /\ Stream \in Seq(Char) /\ Len(Stream) \in Nat
    /\ \A k \in 0 .. N : End(k) \in 0 .. Len(Stream) /\ End(k) \in Nat
    /\ End(0) = 0 /\ End(N) = Len(Stream)
    /\ \A j, k \in 0 .. N : j < k => End(j) < End(k)
    /\ Uninitialised \subseteq Char
    /\ MaxReconnects \in Nat
<1>1. Payloads \in Seq(Seq(Char)) /\ Stream \in Seq(Char)
  BY ConstantsAssumption DEF ConstantsAssumption, Char
<1>2. N \in Nat /\ DOMAIN Payloads = 1 .. N /\ Len(Stream) \in Nat
  BY <1>1, LenProperties DEF N
<1>3. \A k \in 1 .. N : Payloads[k] \in Seq(Char)
  BY <1>1, ElementOfSeq DEF N
<1>4. \A k \in 0 .. N : End(k) \in 0 .. Len(Stream)
  BY ConstantsAssumption DEF ConstantsAssumption, N, End
<1>5. \A k \in 0 .. N : End(k) \in Nat
  BY <1>2, <1>4
<1>6. /\ \A k \in 1 .. N : Len(Payloads[k]) \in 1 .. 9
      /\ End(0) = 0 /\ End(N) = Len(Stream)
      /\ \A j, k \in 0 .. N : j < k => End(j) < End(k)
      /\ Uninitialised \subseteq Char
      /\ MaxReconnects \in Nat
  BY <1>2, ConstantsAssumption DEF ConstantsAssumption, N, End, Char
<1> QED
  BY <1>1, <1>2, <1>3, <1>4, <1>5, <1>6

(* A chunk, character by character.                                        *)
LEMMA ChunkChars ==
    ASSUME NEW p \in Seq(Char), Len(p) \in 1 .. 9
    PROVE  LET c == Chunk(p)
               n == Len(p)
           IN  /\ Len(c) = n + 5
               /\ c[1] = 48 + n /\ c[2] = CR /\ c[3] = LF
               /\ \A j \in 1 .. n : c[j + 3] = p[j]
               /\ c[n + 4] = CR /\ c[n + 5] = LF
<1> DEFINE n == Len(p)
           head == << 48 + n, CR, LF >>
           tail == << CR, LF >>
<1>1. /\ head \in Seq(Int) /\ Len(head) = 3
      /\ head[1] = 48 + n /\ head[2] = CR /\ head[3] = LF
      /\ tail \in Seq(Int) /\ Len(tail) = 2 /\ tail[1] = CR /\ tail[2] = LF
      /\ n \in Nat
  BY DEF CR, LF
<1>2. p \in Seq(Int)
  <2>1. Char \subseteq Int
    BY DEF Char
  <2> HIDE DEF head, tail, n
  <2> QED
    BY <2>1, SeqMonotonic
<1> HIDE DEF head, tail, n
<1>3. /\ head \o p \in Seq(Int) /\ Len(head \o p) = 3 + n
      /\ \A x \in 1 .. 3 + n : (head \o p)[x] = IF x <= 3 THEN head[x] ELSE p[x - 3]
  <2>1. /\ Len(head \o p) = Len(head) + Len(p)
        /\ \A x \in 1 .. Len(head) + Len(p) :
              (head \o p)[x] = IF x <= Len(head) THEN head[x] ELSE p[x - Len(head)]
    BY <1>1, <1>2, ConcatProperties, Zenon
  <2>2. head \o p \in Seq(Int)
    BY <1>1, <1>2, ConcatProperties, Zenon
  <2> QED
    BY <1>1, <2>1, <2>2 DEF n
<1> DEFINE h == head \o p
           c == h \o tail
<1> HIDE DEF h
<1>4. /\ Len(c) = n + 5
      /\ \A x \in 1 .. n + 5 : c[x] = IF x <= n + 3 THEN h[x] ELSE tail[x - (n + 3)]
  <2>1. /\ Len(c) = Len(h) + 2
        /\ \A x \in 1 .. Len(h) + 2 : c[x] = IF x <= Len(h) THEN h[x] ELSE tail[x - Len(h)]
    <3>1. h \in Seq(Int)
      BY <1>3 DEF h
    <3>2. /\ Len(c) = Len(h) + Len(tail)
          /\ \A x \in 1 .. Len(h) + Len(tail) : c[x] = IF x <= Len(h) THEN h[x] ELSE tail[x - Len(h)]
      BY <1>1, <3>1, ConcatProperties, Zenon
    <3> QED
      BY <1>1, <3>2
  <2>2. Len(h) = n + 3
    BY <1>1, <1>3 DEF h
  <2> HIDE DEF c
  <2> QED
    BY <1>1, <2>1, <2>2
<1>5. Chunk(p) = c
  BY DEF Chunk, c, h, head, tail, n, Digit
<1> HIDE DEF c
<1>6. \A x \in 1 .. n + 3 : h[x] = IF x <= 3 THEN head[x] ELSE p[x - 3]
  <2>1. 3 + n = n + 3
    BY <1>1
  <2> QED
    BY <1>3, <2>1, Zenon DEF h
<1>7. c[1] = 48 + n /\ c[2] = CR /\ c[3] = LF
  <2>1. \A x \in {1, 2, 3} : x \in 1 .. n + 5 /\ x \in 1 .. n + 3 /\ x <= n + 3 /\ x <= 3
    BY <1>1
  <2>2. \A x \in {1, 2, 3} : c[x] = h[x]
    BY <1>4, <2>1, Zenon
  <2>3. \A x \in {1, 2, 3} : h[x] = head[x]
    BY <1>6, <2>1, Zenon
  <2>4. c[1] = head[1] /\ c[2] = head[2] /\ c[3] = head[3]
    BY <2>2, <2>3, Zenon
  <2> QED
    BY <1>1, <2>4
<1>8. \A j \in 1 .. n : c[j + 3] = p[j]
  <2> TAKE j \in 1 .. n
  <2>1. /\ j + 3 \in 1 .. n + 5 /\ j + 3 \in 1 .. n + 3 /\ j + 3 <= n + 3
        /\ ~ j + 3 <= 3 /\ (j + 3) - 3 = j
    BY <1>1
  <2> QED
    BY <1>4, <1>6, <2>1, Zenon
<1>9. c[n + 4] = CR /\ c[n + 5] = LF
  BY <1>1, <1>4
<1> QED
  BY <1>4, <1>5, <1>7, <1>8, <1>9 DEF n

(* The chunk behind the first n of the stream.                             *)
LEMMA ChunkInStream ==
    ASSUME NEW n \in 0 .. N - 1
    PROVE  LET p == Payloads[n + 1]
               l == Len(p)
           IN  /\ n + 1 \in 1 .. N /\ n + 1 \in 0 .. N
               /\ p \in Seq(Char) /\ l \in 1 .. 9
               /\ End(n + 1) = End(n) + l + 5
               /\ Stream[End(n) + 1] = 48 + l
               /\ Stream[End(n) + 2] = CR /\ Stream[End(n) + 3] = LF
               /\ \A j \in 1 .. l : Stream[End(n) + 3 + j] = p[j]
               /\ Stream[End(n) + l + 4] = CR /\ Stream[End(n) + l + 5] = LF
<1> DEFINE p == Payloads[n + 1]
           l == Len(p)
           c == SubSeq(Stream, End(n) + 1, End(n + 1))
<1>1. n \in 0 .. N /\ n + 1 \in 1 .. N /\ n + 1 \in 0 .. N /\ n < n + 1 /\ (n + 1) - 1 = n
  BY ConstantTypes
<1>2. /\ p \in Seq(Char) /\ l \in 1 .. 9
      /\ End(n) \in Nat /\ End(n + 1) \in Nat /\ End(n + 1) \in 0 .. Len(Stream) /\ End(n) < End(n + 1)
  BY <1>1, ConstantTypes
<1>3. c = Chunk(p)
  BY <1>1, ConstantTypes, ConstantsAssumption DEF ConstantsAssumption, End
<1>4. /\ Len(c) = End(n + 1) - End(n)
      /\ \A x \in 1 .. End(n + 1) - End(n) : c[x] = Stream[End(n) + x]
  <2>1. \A x \in End(n) + 1 .. End(n + 1) : Stream[x] \in Char
    BY <1>2, ConstantTypes, ElementOfSeq
  <2>2. End(n) + 1 \in Int /\ End(n + 1) \in Int
    BY <1>2
  <2>3. /\ Len(c) = IF End(n) + 1 <= End(n + 1) THEN End(n + 1) - (End(n) + 1) + 1 ELSE 0
        /\ \A x \in 1 .. End(n + 1) - (End(n) + 1) + 1 : c[x] = Stream[(End(n) + 1) + x - 1]
    <3> HIDE DEF Char
    <3> QED
      BY <2>1, <2>2, SubSeqProperties
  <2> QED
    BY <1>2, <2>3
<1> HIDE DEF c
<1>5. /\ Len(c) = l + 5
      /\ c[1] = 48 + l /\ c[2] = CR /\ c[3] = LF
      /\ \A j \in 1 .. l : c[j + 3] = p[j]
      /\ c[l + 4] = CR /\ c[l + 5] = LF
  <2> DEFINE d == Chunk(p)
  <2>1. /\ Len(d) = l + 5
        /\ d[1] = 48 + l /\ d[2] = CR /\ d[3] = LF
        /\ \A j \in 1 .. l : d[j + 3] = p[j]
        /\ d[l + 4] = CR /\ d[l + 5] = LF
    <3> HIDE DEF p
    <3> QED
      BY <1>2, ChunkChars, Zenon
  <2> HIDE DEF p, d
  <2>2. c = d
    BY <1>3 DEF d
  <2> QED
    BY <2>1, <2>2
<1> HIDE DEF p, l
<1>6. End(n + 1) = End(n) + l + 5 /\ l \in Nat
  <2>1. l + 5 = End(n + 1) - End(n)
    BY <1>4, <1>5, Zenon
  <2>2. l \in Nat
    BY <1>2
  <2>3. End(n) \in Nat /\ End(n + 1) \in Nat
    BY <1>2, Zenon
  <2> QED
    BY <2>1, <2>2, <2>3
<1>7. \A x \in 1 .. l + 5 : Stream[End(n) + x] = c[x]
  BY <1>2, <1>4, <1>6
<1>8. /\ Stream[End(n) + 1] = 48 + l
      /\ Stream[End(n) + 2] = CR /\ Stream[End(n) + 3] = LF
  <2>1. 1 \in 1 .. l + 5 /\ 2 \in 1 .. l + 5 /\ 3 \in 1 .. l + 5
    BY <1>6
  <2> QED
    BY <1>5, <1>7, <2>1
<1>9. \A j \in 1 .. l : Stream[End(n) + 3 + j] = p[j]
  <2> TAKE j \in 1 .. l
  <2>1. j + 3 \in 1 .. l + 5 /\ End(n) + (j + 3) = End(n) + 3 + j
    BY <1>2, <1>6
  <2> QED
    BY <1>5, <1>7, <2>1
<1>10. Stream[End(n) + l + 4] = CR /\ Stream[End(n) + l + 5] = LF
  <2>1. /\ l + 4 \in 1 .. l + 5 /\ End(n) + (l + 4) = End(n) + l + 4
        /\ l + 5 \in 1 .. l + 5 /\ End(n) + (l + 5) = End(n) + l + 5
    BY <1>2, <1>6
  <2> QED
    BY <1>5, <1>7, <2>1
<1> QED
  BY <1>1, <1>2, <1>6, <1>8, <1>9, <1>10 DEF p, l

------------------------------------------------------------------------------
(* Types.                                                                  *)
LEMMA LongestType == LongestMessage \in Nat /\ LongestMessage > 9
  BY SMT DEF LongestMessage

LEMMA HeaderTypes ==
    ASSUME TypeOK
    PROVE  /\ sz \in Nat /\ i \in Nat /\ i <= sz /\ Len(downloadBuf) \in Nat
           /\ HeaderReads \in Nat /\ HeaderReads >= 1
           /\ HeaderReads >= 2 => HeaderReads = sz - i
           /\ \A k \in Nat \ {0} :
                 /\ HeaderChar(k) \in Char
                 /\ k <= Len(downloadBuf) => HeaderChar(k) = downloadBuf[k]
                 /\ Len(downloadBuf) = 0 => HeaderChar(k) = IF k = 1 THEN c_i ELSE c_j
<1>1. /\ sz \in Nat /\ i \in 0 .. sz /\ downloadBuf \in Seq(Char)
      /\ c_i \in Char /\ c_j \in Char
  BY DEF TypeOK, Char
<1>2. i \in Nat /\ i <= sz /\ Len(downloadBuf) \in Nat
  BY <1>1, LenProperties
<1>3. \A k \in 1 .. Len(downloadBuf) : downloadBuf[k] \in Char
  BY <1>1, ElementOfSeq
<1>4. HeaderReads \in Nat /\ HeaderReads >= 1 /\ (HeaderReads >= 2 => HeaderReads = sz - i)
  BY <1>1, <1>2 DEF HeaderReads
<1>5. ASSUME NEW k \in Nat \ {0}
      PROVE  /\ HeaderChar(k) \in Char
             /\ k <= Len(downloadBuf) => HeaderChar(k) = downloadBuf[k]
             /\ Len(downloadBuf) = 0 => HeaderChar(k) = IF k = 1 THEN c_i ELSE c_j
  <2>1. CASE k <= Len(downloadBuf)
    <3>1. k \in 1 .. Len(downloadBuf) /\ Len(downloadBuf) # 0
      BY <1>2, <2>1
    <3>2. HeaderChar(k) = downloadBuf[k]
      BY <1>2, <2>1, <3>1 DEF HeaderChar
    <3> QED
      BY <1>3, <3>1, <3>2
  <2>2. CASE k > Len(downloadBuf) /\ k = 1
    <3>1. HeaderChar(k) = c_i
      BY <1>2, <2>2 DEF HeaderChar
    <3> QED
      BY <1>1, <1>2, <2>2, <3>1
  <2>3. CASE k > Len(downloadBuf) /\ k # 1 /\ Len(downloadBuf) > 1
    <3>1. HeaderChar(k) = downloadBuf[Len(downloadBuf)]
      BY <1>2, <2>3 DEF HeaderChar, Last
    <3>2. Len(downloadBuf) \in 1 .. Len(downloadBuf)
      BY <1>2, <2>3
    <3> QED
      BY <1>2, <1>3, <2>3, <3>1, <3>2
  <2>4. CASE k > Len(downloadBuf) /\ k # 1 /\ ~ Len(downloadBuf) > 1
    <3>1. HeaderChar(k) = c_j
      BY <1>2, <2>4 DEF HeaderChar
    <3> QED
      BY <1>1, <1>2, <2>4, <3>1
  <2> QED
    BY <1>2, <2>1, <2>2, <2>3, <2>4
<1> QED
  BY <1>1, <1>2, <1>4, <1>5

LEMMA BodyTypes ==
    ASSUME TypeOK
    PROVE  /\ chunked_message_length \in Nat
           /\ Len(Body) = chunked_message_length + 2
           /\ Body \in Seq(Char)
           /\ \A k \in 1 .. chunked_message_length + 2 :
                 k <= Len(downloadBuf) => Body[k] = downloadBuf[k]
<1>1. /\ chunked_message_length \in Nat /\ downloadBuf \in Seq(Char) /\ c_i \in Char
  BY LongestType DEF TypeOK, Char
<1>2. /\ Len(downloadBuf) \in Nat
      /\ \A k \in 1 .. Len(downloadBuf) : downloadBuf[k] \in Char
      /\ downloadBuf # << >> => Len(downloadBuf) \in 1 .. Len(downloadBuf)
  <2>1. downloadBuf # << >> => Len(downloadBuf) \in Nat \ {0}
    BY <1>1, EmptySeq
  <2>2. Len(downloadBuf) \in Nat
    BY <1>1, LenProperties
  <2>3. downloadBuf # << >> => Len(downloadBuf) \in 1 .. Len(downloadBuf)
    BY <2>1, <2>2
  <2> QED
    BY <1>1, <2>2, <2>3, ElementOfSeq
<1>3. ASSUME NEW k \in 1 .. chunked_message_length + 2
      PROVE  BodyChar(k) \in Char /\ (k <= Len(downloadBuf) => BodyChar(k) = downloadBuf[k])
  <2>1. k \in Nat /\ k >= 1
    BY <1>1
  <2>2. CASE k <= Len(downloadBuf)
    <3>1. BodyChar(k) = downloadBuf[k]
      BY <1>2, <2>1, <2>2 DEF BodyChar
    <3> QED
      BY <1>2, <2>1, <2>2, <3>1
  <2>3. CASE downloadBuf # << >> /\ k > Len(downloadBuf)
    <3>1. BodyChar(k) = downloadBuf[Len(downloadBuf)]
      BY <1>2, <2>1, <2>3 DEF BodyChar, Last
    <3> QED
      BY <1>2, <2>1, <2>3, <3>1
  <2>4. CASE downloadBuf = << >> /\ k > Len(downloadBuf)
    <3>1. BodyChar(k) = c_i
      BY <1>2, <2>1, <2>4 DEF BodyChar
    <3> QED
      BY <1>1, <1>2, <2>1, <2>4, <3>1
  <2> QED
    BY <1>2, <2>1, <2>2, <2>3, <2>4
<1>4. Body \in Seq(Char) /\ Len(Body) = chunked_message_length + 2
  BY <1>1, <1>3 DEF Body
<1>5. \A k \in 1 .. chunked_message_length + 2 : Body[k] = BodyChar(k)
  BY DEF Body
<1> QED
  BY <1>1, <1>3, <1>4, <1>5

LEMMA RestOfBuffer ==
    ASSUME TypeOK, NEW k \in Nat
    PROVE  LET rest == SubSeq(downloadBuf, k + 1, Len(downloadBuf))
           IN  /\ rest \in Seq(Char)
               /\ Len(rest) = IF k <= Len(downloadBuf) THEN Len(downloadBuf) - k ELSE 0
               /\ \A j \in 1 .. Len(rest) : rest[j] = downloadBuf[k + j]
<1> DEFINE rest == SubSeq(downloadBuf, k + 1, Len(downloadBuf))
<1>1. downloadBuf \in Seq(Char) /\ Len(downloadBuf) \in Nat
  BY LenProperties DEF TypeOK, Char
<1>2. \A j \in k + 1 .. Len(downloadBuf) : downloadBuf[j] \in Char
  <2>1. \A j \in k + 1 .. Len(downloadBuf) : j \in 1 .. Len(downloadBuf)
    BY <1>1
  <2> QED
    BY <1>1, <2>1, ElementOfSeq
<1>3. /\ rest \in Seq(Char)
      /\ Len(rest) = IF k + 1 <= Len(downloadBuf) THEN Len(downloadBuf) - (k + 1) + 1 ELSE 0
      /\ \A j \in 1 .. Len(downloadBuf) - (k + 1) + 1 : rest[j] = downloadBuf[(k + 1) + j - 1]
  <2>1. k + 1 \in Int /\ Len(downloadBuf) \in Int
    BY <1>1
  <2> HIDE DEF Char
  <2> QED
    BY <1>2, <2>1, SubSeqProperties
<1> HIDE DEF rest
<1>4. Len(rest) = IF k <= Len(downloadBuf) THEN Len(downloadBuf) - k ELSE 0
  BY <1>1, <1>3
<1>5. \A j \in 1 .. Len(rest) : rest[j] = downloadBuf[k + j]
  <2> TAKE j \in 1 .. Len(rest)
  <2>1. j \in 1 .. Len(downloadBuf) - (k + 1) + 1 /\ (k + 1) + j - 1 = k + j
    BY <1>1, <1>4
  <2> QED
    BY <1>3, <2>1
<1> QED
  BY <1>3, <1>4, <1>5 DEF rest

Types ==
    /\ arrived \in 0 .. Len(Stream)
    /\ downloadBuf \in Seq(Char)
    /\ chunked_message_length \in 0 .. LongestMessage
    /\ pc \in {"wait", "parse"}
    /\ i \in 0 .. sz /\ sz \in Nat
    /\ c_i \in Char /\ c_j \in Char
    /\ receivedDataBuffer \in Seq(Seq(Char))
    /\ numberValidChunks \in Nat /\ numberErroredChunks \in Nat
    /\ reconnects \in 0 .. MaxReconnects
    /\ lost \subseteq 1 .. N
    /\ cutShort \in BOOLEAN

LEMMA TypeParts == (TypeOK <=> Types) /\ (TypeOK' <=> Types')
  BY ConstantTypes DEF TypeOK, Types, Char

LEMMA TypeInit == Init => TypeOK
<1> SUFFICES ASSUME Init PROVE TypeOK
  OBVIOUS
<1>1. << >> \in Seq(Char) /\ << >> \in Seq(Seq(Char))
  OBVIOUS
<1>2. /\ arrived \in 0 .. Len(Stream) /\ chunked_message_length \in 0 .. LongestMessage
      /\ i \in 0 .. sz /\ sz \in Nat /\ c_i \in Char /\ c_j \in Char
      /\ reconnects \in 0 .. MaxReconnects
  BY LongestType, ConstantTypes DEF Init
<1>3. Types
  BY <1>1, <1>2 DEF Init, Types
<1> QED
  BY <1>3, TypeParts

(* What a read adds.                                                       *)
LEMMA ReadMore ==
    ASSUME TypeOK, NEW upTo \in ReadEnds
    PROVE  LET more == SubSeq(Stream, arrived + 1, upTo)
           IN  /\ arrived \in Nat /\ upTo \in Nat
               /\ arrived < upTo /\ upTo <= Len(Stream)
               /\ more \in Seq(Char)
               /\ Len(more) = upTo - arrived
               /\ \A j \in 1 .. Len(more) : more[j] = Stream[arrived + j]
<1> DEFINE more == SubSeq(Stream, arrived + 1, upTo)
<1>1. upTo \in arrived + 1 .. Len(Stream)
  BY ConstantsAssumption DEF ReadEnds, ConstantsAssumption
<1>2. arrived \in Nat /\ upTo \in Nat /\ arrived < upTo /\ upTo <= Len(Stream)
  BY <1>1, ConstantTypes, TypeParts DEF Types
<1>3. \A j \in arrived + 1 .. upTo : Stream[j] \in Char
  <2>1. \A j \in arrived + 1 .. upTo : j \in 1 .. Len(Stream)
    BY <1>2, ConstantTypes
  <2> QED
    BY <2>1, ConstantTypes, ElementOfSeq
<1>4. /\ more \in Seq(Char)
      /\ Len(more) = IF arrived + 1 <= upTo THEN upTo - (arrived + 1) + 1 ELSE 0
      /\ \A j \in 1 .. upTo - (arrived + 1) + 1 : more[j] = Stream[(arrived + 1) + j - 1]
  <2>1. arrived + 1 \in Int /\ upTo \in Int
    BY <1>2
  <2> HIDE DEF Char
  <2> QED
    BY <1>3, <2>1, SubSeqProperties
<1> HIDE DEF more
<1>5. Len(more) = upTo - arrived
  BY <1>2, <1>4
<1>6. \A j \in 1 .. Len(more) : more[j] = Stream[arrived + j]
  <2> TAKE j \in 1 .. Len(more)
  <2>1. j \in 1 .. upTo - (arrived + 1) + 1 /\ (arrived + 1) + j - 1 = arrived + j
    BY <1>2, <1>5
  <2> QED
    BY <1>4, <2>1
<1> QED
  BY <1>2, <1>4, <1>5, <1>6 DEF more

LEMMA LogTypes ==
    ASSUME TypeOK, LogChunkError
    PROVE  numberErroredChunks' \in Nat /\ numberValidChunks' \in Nat
  BY DEF TypeOK, LogChunkError

LEMMA TypeNext == ASSUME TypeOK, [Next]_vars PROVE TypeOK'
<1> SUFFICES ASSUME Types PROVE Types'
  BY TypeParts
<1>1. CASE Receive
  <2>1. PICK upTo \in ReadEnds :
            /\ arrived' = upTo
            /\ downloadBuf' = downloadBuf \o SubSeq(Stream, arrived + 1, upTo)
    BY <1>1 DEF Receive
  <2>2. SubSeq(Stream, arrived + 1, upTo) \in Seq(Char) /\ arrived' \in 0 .. Len(Stream)
    BY <2>1, ReadMore, ConstantTypes
  <2>3. downloadBuf \in Seq(Char)
    BY  DEF Types
  <2>4. downloadBuf' \in Seq(Char)
    BY <2>1, <2>2, <2>3, ConcatProperties
  <2>5. sz' \in Nat /\ i' \in 0 .. sz'
    <3>1. Len(downloadBuf') \in Nat
      BY <2>4, LenProperties
    <3>2. sz' = Len(downloadBuf') /\ i' = 0
      BY <1>1 DEF Receive
    <3> QED
      BY <3>1, <3>2
  <2> QED
    BY <1>1, <2>2, <2>4, <2>5, ConstantTypes DEF Types, Receive, counts
<1>2. CASE Reconnect
  <2>1. PICK k \in 0 .. N :
            /\ arrived <= End(k)
            /\ arrived' = End(k)
            /\ lost' = IF arrived = End(k) THEN lost ELSE lost \cup {k}
    BY <1>2 DEF Reconnect, N, End
  <2>2. arrived' \in 0 .. Len(Stream)
    BY <2>1, ConstantTypes
  <2>3. lost' \subseteq 1 .. N
    <3>1. k = 0 => arrived = End(k)
      BY <2>1, ConstantTypes DEF Types
    <3> QED
      BY <2>1, <3>1, ConstantTypes DEF Types
  <2>4. downloadBuf' \in Seq(Char) /\ chunked_message_length' \in 0 .. LongestMessage
    BY <1>2, LongestType DEF Reconnect
  <2>5. reconnects' \in 0 .. MaxReconnects
    BY <1>2, ConstantTypes DEF Types, Reconnect
  <2> QED
    BY <1>2, <2>2, <2>3, <2>4, <2>5 DEF Types, Reconnect, counts
<1>3. CASE EndOfBuffer
  <2>1. downloadBuf' \in Seq(Char)
    <3>1. \A k \in 1 .. HeaderReads : HeaderChar(k) \in Char
      BY HeaderTypes
    <3>2. downloadBuf' = [k \in 1 .. HeaderReads |-> HeaderChar(k)] /\ HeaderReads \in Nat
      BY <1>3, HeaderTypes DEF EndOfBuffer
    <3> QED
      BY <3>1, <3>2
  <2> QED
    BY <1>3, <2>1 DEF Types, EndOfBuffer, counts
<1>4. CASE ReadHeader
  <2>1. PICK k \in HeaderEnds :
            /\ i' = i + k - 1
            /\ downloadBuf' = SubSeq(downloadBuf, k + 1, Len(downloadBuf))
            /\ LET length == ToInteger(Line(k))
               IN  IF length \in 0 .. LongestMessage
                   THEN chunked_message_length' = length /\ UNCHANGED counts
                   ELSE chunked_message_length' = 0 /\ LogChunkError
    BY <1>4 DEF ReadHeader
  <2>2. k \in Nat /\ k >= 2 /\ k <= sz - i
    <3>1. k \in 2 .. HeaderReads
      BY DEF HeaderEnds
    <3> QED
      BY <3>1, HeaderTypes
  <2>3. i' \in 0 .. sz' /\ sz' = sz
    BY <1>4, <2>1, <2>2, HeaderTypes DEF ReadHeader
  <2>4. downloadBuf' \in Seq(Char)
    BY <2>1, <2>2, RestOfBuffer
  <2>5. /\ chunked_message_length' \in 0 .. LongestMessage
        /\ numberErroredChunks' \in Nat /\ numberValidChunks' \in Nat
    BY <2>1, LogTypes, LongestType DEF Types, counts
  <2>6. c_i' \in Char /\ c_j' \in Char
    BY <1>4 DEF ReadHeader, CR, LF, Char
  <2> QED
    BY <1>4, <2>3, <2>4, <2>5, <2>6 DEF Types, ReadHeader
<1>5. CASE WaitForBody
  BY <1>5 DEF Types, WaitForBody, counts
<1>6. CASE ReadBody
  <2>1. i' \in 0 .. sz' /\ sz' = sz
    BY <1>6, HeaderTypes, BodyTypes DEF ReadBody, BodyExpected, bodyPos
  <2>2. /\ Body \in Seq(Char) /\ Len(Body) \in Nat /\ Len(Body) >= 2
        /\ \A k \in 1 .. Len(Body) : Body[k] \in Char
    BY BodyTypes, ElementOfSeq
  <2>3. downloadBuf' \in Seq(Char)
    BY <1>6, <2>2, RestOfBuffer DEF ReadBody
  <2>4. c_i' \in Char
    <3>1. Len(Body) \in 1 .. Len(Body)
      BY <2>2
    <3> QED
      BY <1>6, <2>2, <3>1 DEF ReadBody, Last
  <2>5. /\ receivedDataBuffer' \in Seq(Seq(Char))
        /\ numberErroredChunks' \in Nat /\ numberValidChunks' \in Nat
    <3>1. SubSeq(Body, 1, Len(Body) - 2) \in Seq(Char)
      <4>1. 1 \in Int /\ Len(Body) - 2 \in Int /\ \A k \in 1 .. Len(Body) - 2 : Body[k] \in Char
        BY <2>2
      <4> HIDE DEF Char
      <4> QED
        BY <4>1, SubSeqProperties
    <3>2. /\ receivedDataBuffer \in Seq(Seq(Char))
          /\ numberErroredChunks \in Nat /\ numberValidChunks \in Nat
      BY DEF Types
    <3>3. CASE Terminated
      <4>1. /\ receivedDataBuffer' = Append(receivedDataBuffer, SubSeq(Body, 1, Len(Body) - 2))
            /\ numberErroredChunks' \in Nat /\ numberValidChunks' \in Nat
        BY <1>6, <3>2, <3>3 DEF ReadBody
      <4>2. \A S : \A s \in Seq(S) : \A e \in S : Append(s, e) \in Seq(S)
        BY AppendProperties, Zenon
      <4> QED
        BY <3>1, <3>2, <4>1, <4>2, Zenon
    <3>4. CASE ~ Terminated
      BY <1>6, <3>2, <3>4, LogTypes DEF ReadBody
    <3> QED
      BY <3>3, <3>4
  <2>6. chunked_message_length' \in 0 .. LongestMessage
    BY <1>6, LongestType DEF ReadBody
  <2> QED
    BY <1>6, <2>1, <2>3, <2>4, <2>5, <2>6 DEF Types, ReadBody
<1>7. CASE UNCHANGED vars
  BY <1>7 DEF Types, vars, counts
<1> QED
  BY <1>1, <1>2, <1>3, <1>4, <1>5, <1>6, <1>7 DEF Next

(* The parser's variables are always well typed, wherever reads end: its    *)
(* index never passes sz although it lags, and no stoi leads outside the    *)
(* lengths that a header may have (read_chunked_stream).                    *)
THEOREM TypeCorrect == Spec => []TypeOK
  BY TypeInit, TypeNext, PTL DEF Spec

------------------------------------------------------------------------------
(* Every message arrives, as long as reads end where they do no harm.      *)

(* A header as the caster sends it, behind line feeds that were left.      *)
LEMMA HeaderNumber ==
    ASSUME NEW m \in Nat, NEW l \in 1 .. 9, NEW line,
           DOMAIN line = 1 .. m + 1,
           \A j \in 1 .. m : line[j] = LF,
           line[m + 1] = 48 + l
    PROVE  ToInteger(line) = l
<1> DEFINE run == {k \in DOMAIN line :
                     \E first \in 1 .. k :
                           /\ \A j \in 1 .. first - 1 : IsSpace(line[j])
                           /\ \A j \in first .. k : IsDigit(line[j])}
           number[k \in DOMAIN line] ==
               HexValue(line[k]) + IF k - 1 \in run THEN 16 * number[k - 1] ELSE 0
<1>1. run = {m + 1}
  <2>1. ASSUME NEW k \in run PROVE k = m + 1
    <3>1. k \in 1 .. m + 1 /\ IsDigit(line[k])
      <4>1. k \in 1 .. m + 1
        OBVIOUS
      <4>2. PICK first \in 1 .. k : \A j \in first .. k : IsDigit(line[j])
        BY Zenon
      <4>3. k \in first .. k
        BY <4>1, <4>2
      <4> QED
        BY <4>1, <4>2, <4>3
    <3>2. ~ IsDigit(LF)
      BY DEF IsDigit, LF
    <3>3. k \notin 1 .. m
      BY <3>1, <3>2
    <3> QED
      BY <3>1, <3>3
  <2>2. m + 1 \in run
    <3>1. m + 1 \in 1 .. m + 1 /\ (m + 1) - 1 = m
      OBVIOUS
    <3>2. \A j \in 1 .. (m + 1) - 1 : IsSpace(line[j])
      BY <3>1 DEF IsSpace
    <3>3. \A j \in m + 1 .. m + 1 : IsDigit(line[j])
      <4>1. \A j \in m + 1 .. m + 1 : j = m + 1
        OBVIOUS
      <4>2. IsDigit(48 + l)
        BY DEF IsDigit
      <4> QED
        BY <4>1, <4>2
    <3> QED
      BY <3>1, <3>2, <3>3, Zenon
  <2> QED
    BY <2>1, <2>2, Zenon
<1>2. number = [k \in DOMAIN line |->
                  HexValue(line[k]) + IF k - 1 \in run THEN 16 * number[k - 1] ELSE 0]
  <2> DEFINE body(f) == [k \in DOMAIN line |->
                           HexValue(line[k]) + IF k - 1 \in run THEN 16 * f[k - 1] ELSE 0]
             alone == [k \in DOMAIN line |-> HexValue(line[k]) + 0]
  <2>1. \A k \in DOMAIN line : k - 1 \notin run
    BY <1>1
  <2> HIDE DEF run
  <2>2. alone = body(alone)
    BY <2>1
  <2>3. \E f : f = body(f)
    BY <2>2, Zenon
  <2>4. number = CHOOSE f : f = body(f)
    BY DEF number
  <2> QED
    BY <2>3, <2>4, Zenon
<1>3. ToInteger(line) = IF run = {} THEN -1 ELSE number[Max(run)]
  BY DEF ToInteger
<1> HIDE DEF run, number
<1>4. number[m + 1] = l
  <2>1. m + 1 \in DOMAIN line /\ (m + 1) - 1 \notin run
    BY <1>1
  <2>2. number[m + 1] = HexValue(48 + l) + 0
    BY <1>2, <2>1
  <2>3. HexValue(48 + l) = l
    BY DEF HexValue
  <2> QED
    BY <2>2, <2>3
<1>5. Max(run) = m + 1
  BY <1>1 DEF Max
<1> QED
  BY <1>1, <1>3, <1>4, <1>5

(* The invariant.  The parser has handed on the first n chunks and is at   *)
(* the next one.  The buffer holds line feeds, written back by an earlier  *)
(* call, and then the stream from a position on.                           *)
Holds(left, position) ==
    /\ left \in Nat
    /\ Len(downloadBuf) = left + arrived - position
    /\ \A j \in 1 .. Len(downloadBuf) :
          downloadBuf[j] = IF j <= left THEN LF ELSE Stream[position + j - left]

(* Of the first n messages, those are handed on that no reconnection cut.  *)
DeliveredTo(n) ==
    /\ lost \subseteq 1 .. n
    /\ Len(receivedDataBuffer) = Cardinality(Whole(n))
    /\ \A j \in Whole(n) : receivedDataBuffer[Cardinality(Whole(j))] = Payloads[j]
    /\ numberErroredChunks = 0

(* By how much the index lags behind the stream.                           *)
lag == sz - i - Len(downloadBuf)

(* By how much the index will lag when it comes to the end of what has     *)
(* arrived, one character for each header on the way.  In the chunk of     *)
(* which a part has arrived that leaves the header alone, where the index  *)
(* does not lag, and more of the body is missing.                          *)
HeaderMargin(n) ==
    \A k \in n .. N - 1 : End(k) < arrived /\ arrived < End(k + 1) =>
        IF arrived < End(k) + 3
        THEN k = n /\ lag = 0
        ELSE arrived + lag + (k - n + 1) < End(k + 1)

BodyMargin(n) ==
    \A k \in n .. N - 1 : End(k) < arrived /\ arrived < End(k + 1) =>
        IF arrived < End(k) + 3
        THEN k = n + 1 /\ lag = 0
        ELSE arrived + lag + (k - n) < End(k + 1)

(* At a header: a call leaves it while it is not whole.  What a call with  *)
(* a lagging index reads too much are line feeds.                          *)
AtHeader(n) ==
    /\ chunked_message_length = 0
    /\ End(n) <= arrived
    /\ Holds(Len(downloadBuf) + End(n) - arrived, End(n))
    /\ pc = "wait" => arrived <= End(n) + 2
    /\ pc = "parse" =>
           /\ lag >= 0
           /\ HeaderMargin(n)
           /\ lag > 0 => c_i = LF /\ c_j = LF /\ Len(downloadBuf) + End(n) = arrived
           /\ downloadBuf = << >> => c_i = LF

(* At a body: a call leaves it while it is not whole.                      *)
AtBody(n) ==
    /\ n < N
    /\ chunked_message_length = Len(Payloads[n + 1])
    /\ End(n) + 3 <= arrived
    /\ Holds(0, End(n) + 3)
    /\ pc = "wait" => arrived < End(n + 1)
    /\ pc = "parse" =>
           /\ lag >= 0
           /\ BodyMargin(n)
           /\ lag > 0 => c_j = LF

InStep ==
    \E n \in 0 .. N : DeliveredTo(n) /\ (AtHeader(n) \/ AtBody(n))

ParserInv == ~cutShort => InStep

(* The caster sends a chunk at a time.                                     *)
LEMMA NextEnd ==
    ASSUME NEW n \in 0 .. N, NEW a \in ChunkEnds, End(n) < a
    PROVE  n \in 0 .. N - 1 /\ End(n + 1) <= a
<1>1. PICK k \in 0 .. N : a = End(k)
  BY DEF ChunkEnds, End, N
<1>2. /\ N \in Nat /\ k \in Nat /\ n \in Nat /\ k <= N /\ n <= N
      /\ End(n) \in Nat /\ End(k) \in Nat
      /\ \A x, y \in 0 .. N : x < y => End(x) < End(y)
  BY ConstantTypes
<1>3. n < k
  <2>1. ~ k < n
    BY <1>1, <1>2
  <2>2. k # n
    BY <1>1, <1>2
  <2> QED
    BY <1>2, <2>1, <2>2
<1>4. n \in 0 .. N - 1 /\ n + 1 \in 0 .. N /\ (n + 1 = k \/ n + 1 < k)
  BY <1>2, <1>3
<1>5. End(n + 1) \in Nat
  BY <1>4, ConstantTypes
<1> QED
  BY <1>1, <1>2, <1>4, <1>5

LEMMA ArrivedBehind ==
    ASSUME TypeOK, NEW n \in 0 .. N, End(n) < arrived
    PROVE  n \in 0 .. N - 1
<1>1. arrived <= End(N) /\ arrived \in Nat /\ End(N) \in Nat /\ N \in Nat
  BY TypeParts, ConstantTypes DEF Types
<1>2. n # N
  BY <1>1
<1> QED
  BY <1>1, <1>2

(* The header that the parser is at: of its characters there are at most    *)
(* two, and then it does not end, ...                                       *)
LEMMA PartOfHeader ==
    ASSUME TypeOK, NEW n \in 0 .. N, AtHeader(n), pc = "parse", arrived <= End(n) + 2
    PROVE  /\ HeaderEnds = {}
           /\ \/ HeaderReads = Len(downloadBuf)
              \/ arrived = End(n) /\ \A k \in 1 .. HeaderReads : HeaderChar(k) = LF
<1> DEFINE m == Len(downloadBuf) + End(n) - arrived
           size == Len(downloadBuf)
<1>1. /\ arrived \in Nat /\ End(n) \in Nat /\ size \in Nat /\ sz \in Nat /\ i \in Nat
      /\ HeaderReads \in Nat /\ HeaderReads >= 1 /\ i <= sz
  BY HeaderTypes, TypeParts, ConstantTypes DEF Types
<1>2. /\ End(n) <= arrived
      /\ m \in Nat
      /\ \A j \in 1 .. size : downloadBuf[j] = IF j <= m THEN LF ELSE Stream[End(n) + j - m]
  BY DEF AtHeader, Holds
<1>3. /\ sz - i >= size
      /\ HeaderMargin(n)
      /\ sz - i > size => c_i = LF /\ c_j = LF /\ m = 0
      /\ downloadBuf = << >> => c_i = LF
  BY <1>1 DEF AtHeader, lag
<1>4. \A k \in Nat \ {0} :
          /\ k <= size => HeaderChar(k) = downloadBuf[k]
          /\ size = 0 => HeaderChar(k) = IF k = 1 THEN c_i ELSE c_j
  BY HeaderTypes
<1>5. downloadBuf = << >> <=> size = 0
  <2>1. downloadBuf \in Seq(Char)
    BY TypeParts DEF Types
  <2> QED
    BY <1>1, <2>1, EmptySeq
<1>6. size = m + (arrived - End(n)) /\ m <= size
  BY <1>1, <1>2
<1>7. arrived > End(n) => sz - i = size
  <2> SUFFICES ASSUME arrived > End(n) PROVE sz - i = size
    OBVIOUS
  <2>1. n \in 0 .. N - 1
    BY ArrivedBehind
  <2>2. End(n + 1) = End(n) + Len(Payloads[n + 1]) + 5 /\ Len(Payloads[n + 1]) \in 1 .. 9
    BY <2>1, ChunkInStream
  <2>3. n \in n .. N - 1 /\ arrived < End(n + 1) /\ arrived < End(n) + 3
    BY <1>1, <2>1, <2>2, ConstantTypes
  <2>4. lag = 0
    BY <1>3, <2>3, Zenon DEF HeaderMargin
  <2> QED
    BY <1>1, <2>4 DEF lag
<1> HIDE DEF m, size
<1>8. CASE arrived = End(n)
  <2>1. size = m
    BY <1>1, <1>2, <1>6, <1>8
  <2>2. \A k \in 1 .. HeaderReads : HeaderChar(k) = LF
    <3>1. CASE size = 0
      <4>1. c_i = LF /\ (HeaderReads >= 2 => c_j = LF)
        <5>1. HeaderReads >= 2 => sz - i > size
          BY <1>1, <3>1, HeaderTypes
        <5> QED
          BY <1>3, <1>5, <3>1, <5>1
      <4>2. \A k \in 1 .. HeaderReads : k \in Nat \ {0} /\ (k = 1 \/ HeaderReads >= 2)
        BY <1>1
      <4> QED
        BY <1>4, <3>1, <4>1, <4>2
    <3>2. CASE size # 0
      <4>1. sz - i = size
        BY <1>1, <1>2, <1>3, <2>1, <3>2
      <4>2. HeaderReads = size
        BY <1>1, <3>2, <4>1 DEF HeaderReads
      <4>3. \A k \in 1 .. HeaderReads : k \in Nat \ {0} /\ k \in 1 .. size /\ k <= size /\ k <= m
        BY <1>1, <2>1, <4>2
      <4> QED
        BY <1>2, <1>4, <4>3
    <3> QED
      BY <3>1, <3>2
  <2>3. HeaderEnds = {}
    <3>1. \A k \in 2 .. HeaderReads : k - 1 \in 1 .. HeaderReads
      BY <1>1
    <3>2. LF # CR
      BY DEF LF, CR
    <3> QED
      BY <2>2, <3>1, <3>2 DEF HeaderEnds, EndsHeader
  <2> QED
    BY <1>8, <2>2, <2>3
<1>9. CASE arrived > End(n)
  <2>1. sz - i = size /\ size = m + (arrived - End(n)) /\ arrived - End(n) \in {1, 2}
    BY <1>1, <1>6, <1>7, <1>9
  <2>2. HeaderReads = size
    BY <1>1, <1>2, <2>1 DEF HeaderReads
  <2>3. n \in 0 .. N - 1
    BY <1>9, ArrivedBehind
  <2>4. Stream[End(n) + 1] = 48 + Len(Payloads[n + 1]) /\ Len(Payloads[n + 1]) \in 1 .. 9
    BY <2>3, ChunkInStream
  <2>5. HeaderEnds = {}
    <3> SUFFICES ASSUME NEW k \in 2 .. HeaderReads, EndsHeader(k) PROVE FALSE
      BY DEF HeaderEnds
    <3>1. /\ k - 1 \in Nat \ {0} /\ k - 1 <= size /\ k - 1 \in 1 .. size
          /\ k - 1 <= m \/ k - 1 = m + 1
          /\ End(n) + (m + 1) - m = End(n) + 1 /\ ~ m + 1 <= m
      BY <1>1, <1>2, <2>1, <2>2
    <3>2. downloadBuf[k - 1] = CR
      BY <1>4, <3>1 DEF EndsHeader
    <3>3. downloadBuf[k - 1] = LF \/ downloadBuf[k - 1] = Stream[End(n) + 1]
      BY <1>2, <3>1
    <3> QED
      BY <2>4, <3>2, <3>3 DEF CR, LF
  <2> QED
    BY <2>2, <2>5 DEF size
<1> QED
  BY <1>1, <1>2, <1>8, <1>9

(* ... or it is whole, and its end is the first that is found.              *)
LEMMA WholeHeader ==
    ASSUME TypeOK, NEW n \in 0 .. N, AtHeader(n), pc = "parse", arrived > End(n) + 2
    PROVE  LET m == Len(downloadBuf) + End(n) - arrived
           IN  /\ n \in 0 .. N - 1 /\ m \in Nat
               /\ m + 3 \in HeaderEnds
               /\ \A k \in HeaderEnds : k >= m + 3
               /\ \A j \in 1 .. m : HeaderChar(j) = LF
               /\ HeaderChar(m + 1) = 48 + Len(Payloads[n + 1])
<1> DEFINE m == Len(downloadBuf) + End(n) - arrived
           size == Len(downloadBuf)
<1>1. /\ arrived \in Nat /\ End(n) \in Nat /\ size \in Nat /\ sz \in Nat /\ i \in Nat
      /\ HeaderReads \in Nat /\ HeaderReads >= 1 /\ i <= sz
  BY HeaderTypes, TypeParts, ConstantTypes DEF Types
<1>2. /\ m \in Nat
      /\ \A j \in 1 .. size : downloadBuf[j] = IF j <= m THEN LF ELSE Stream[End(n) + j - m]
  BY DEF AtHeader, Holds
<1>3. sz - i >= size
  BY <1>1 DEF AtHeader, lag
<1>4. \A k \in Nat \ {0} : k <= size => HeaderChar(k) = downloadBuf[k]
  BY HeaderTypes
<1>5. size = m + (arrived - End(n)) /\ size >= m + 3
  BY <1>1, <1>2
<1>6. HeaderReads >= size
  BY <1>1, <1>2, <1>3, <1>5 DEF HeaderReads
<1>7. n \in 0 .. N - 1
  BY <1>1, ArrivedBehind
<1>8. /\ Stream[End(n) + 1] = 48 + Len(Payloads[n + 1]) /\ Len(Payloads[n + 1]) \in 1 .. 9
      /\ Stream[End(n) + 2] = CR /\ Stream[End(n) + 3] = LF
  BY <1>7, ChunkInStream
<1> HIDE DEF m, size
<1>9. \A j \in 1 .. size : HeaderChar(j) = IF j <= m THEN LF ELSE Stream[End(n) + j - m]
  <2>1. \A j \in 1 .. size : j \in Nat \ {0} /\ j <= size
    BY <1>1
  <2> QED
    BY <1>2, <1>4, <2>1
<1>10. \A j \in 1 .. m : HeaderChar(j) = LF
  <2>1. \A j \in 1 .. m : j \in 1 .. size /\ j <= m
    BY <1>1, <1>2, <1>5
  <2> QED
    BY <1>9, <2>1
<1>11. /\ HeaderChar(m + 1) = Stream[End(n) + 1]
       /\ HeaderChar(m + 2) = CR /\ HeaderChar(m + 3) = LF
  <2>1. \A x \in {1, 2, 3} : m + x \in 1 .. size /\ ~ m + x <= m /\ End(n) + (m + x) - m = End(n) + x
    BY <1>1, <1>2, <1>5
  <2>2. \A x \in {1, 2, 3} : HeaderChar(m + x) = Stream[End(n) + x]
    BY <1>9, <2>1
  <2> QED
    BY <1>8, <2>2
<1>12. m + 3 \in HeaderEnds
  <2>1. m + 3 \in 2 .. HeaderReads /\ (m + 3) - 1 = m + 2
    BY <1>1, <1>2, <1>5, <1>6
  <2> QED
    BY <1>11, <2>1 DEF HeaderEnds, EndsHeader
<1>13. \A k \in HeaderEnds : k >= m + 3
  <2> SUFFICES ASSUME NEW k \in 2 .. HeaderReads, EndsHeader(k), ~ k >= m + 3 PROVE FALSE
    BY DEF HeaderEnds
  <2>1. k - 1 \in 1 .. m \/ k - 1 = m + 1
    BY <1>1, <1>2
  <2>2. HeaderChar(k - 1) = CR
    BY DEF EndsHeader
  <2> QED
    BY <1>8, <1>10, <1>11, <2>1, <2>2 DEF CR, LF
<1> QED
  BY <1>2, <1>7, <1>8, <1>10, <1>11, <1>12, <1>13 DEF m

(* The messages that no reconnection cut.                                  *)
LEMMA WholeCount ==
    ASSUME NEW n \in Nat
    PROVE  IsFiniteSet(Whole(n)) /\ Cardinality(Whole(n)) \in Nat
<1>1. IsFiniteSet(1 .. n)
  BY FS_Interval
<1>2. Whole(n) \in SUBSET (1 .. n)
  BY DEF Whole
<1> QED
  BY <1>1, <1>2, FS_Subset, FS_CardinalityType

LEMMA WholeBefore ==
    ASSUME NEW n \in Nat, NEW j \in Whole(n)
    PROVE  Cardinality(Whole(j)) \in 1 .. Cardinality(Whole(n))
<1>1. j \in 1 .. n /\ j \in Nat /\ j \in Whole(j)
  BY DEF Whole
<1>2. Whole(j) \in SUBSET Whole(n)
  BY <1>1 DEF Whole
<1>3. Cardinality(Whole(j)) <= Cardinality(Whole(n))
  BY <1>2, WholeCount, FS_Subset
<1>4. Cardinality(Whole(j)) # 0
  BY <1>1, WholeCount, FS_EmptySet
<1> QED
  BY <1>1, <1>3, <1>4, WholeCount

LEMMA WholeNext ==
    ASSUME NEW n \in Nat, n + 1 \notin lost
    PROVE  /\ Whole(n + 1) = Whole(n) \cup {n + 1}
           /\ Cardinality(Whole(n + 1)) = Cardinality(Whole(n)) + 1
<1>1. Whole(n + 1) = Whole(n) \cup {n + 1} /\ n + 1 \notin Whole(n)
  BY DEF Whole
<1> QED
  BY <1>1, WholeCount, FS_AddElement

LEMMA ParserInit == Init => ParserInv
<1> SUFFICES ASSUME Init PROVE InStep
  BY DEF ParserInv
<1>1. 0 \in 0 .. N /\ End(0) = 0
  BY ConstantTypes
<1>2. /\ arrived = 0 /\ downloadBuf = << >> /\ chunked_message_length = 0 /\ pc = "wait"
      /\ receivedDataBuffer = << >> /\ lost = {} /\ numberErroredChunks = 0
  BY DEF Init
<1>3. DeliveredTo(0)
  <2>1. Whole(0) = {} /\ Len(receivedDataBuffer) = 0
    BY <1>2 DEF Whole
  <2> QED
    BY <1>2, <2>1, FS_EmptySet DEF DeliveredTo
<1>4. AtHeader(0)
  <2>1. Len(downloadBuf) = 0
    BY <1>2
  <2> QED
    BY <1>1, <1>2, <2>1 DEF AtHeader, Holds
<1> QED
  BY <1>1, <1>3, <1>4 DEF InStep

LEMMA SameDelivered ==
    ASSUME NEW n, DeliveredTo(n),
           UNCHANGED <<lost, receivedDataBuffer, numberErroredChunks>>
    PROVE  DeliveredTo(n)'
  BY DEF DeliveredTo, Whole

(* A read adds to what the buffer holds.                                   *)
LEMMA HoldsMore ==
    ASSUME TypeOK, NEW left \in Nat, NEW position \in Nat, position <= arrived,
           Holds(left, position), NEW upTo \in ReadEnds, arrived' = upTo,
           downloadBuf' = downloadBuf \o SubSeq(Stream, arrived + 1, upTo)
    PROVE  /\ Holds(left, position)'
           /\ Len(downloadBuf') = Len(downloadBuf) + upTo - arrived
           /\ downloadBuf' # << >>
<1> DEFINE more == SubSeq(Stream, arrived + 1, upTo)
           size == Len(downloadBuf)
<1>1. /\ arrived \in Nat /\ upTo \in Nat /\ arrived < upTo
      /\ more \in Seq(Char) /\ Len(more) = upTo - arrived
      /\ \A j \in 1 .. Len(more) : more[j] = Stream[arrived + j]
  BY ReadMore
<1>2. downloadBuf \in Seq(Char) /\ size \in Nat
  BY TypeParts, LenProperties DEF Types
<1>3. /\ downloadBuf' \in Seq(Char)
      /\ Len(downloadBuf') = size + Len(more)
      /\ \A j \in 1 .. size + Len(more) :
            downloadBuf'[j] = IF j <= size THEN downloadBuf[j] ELSE more[j - size]
  <2> HIDE DEF more
  <2>1. downloadBuf' = downloadBuf \o more
    BY DEF more
  <2> QED
    <3>1. /\ downloadBuf \o more \in Seq(Char)
          /\ Len(downloadBuf \o more) = Len(downloadBuf) + Len(more)
          /\ \A j \in 1 .. Len(downloadBuf) + Len(more) : (downloadBuf \o more)[j] =
                IF j <= Len(downloadBuf) THEN downloadBuf[j] ELSE more[j - Len(downloadBuf)]
      BY <1>1, <1>2, ConcatProperties
    <3> QED
      BY <2>1, <3>1
<1>4. /\ size = left + arrived - position
      /\ \A j \in 1 .. size : downloadBuf[j] = IF j <= left THEN LF ELSE Stream[position + j - left]
  BY DEF Holds
<1> HIDE DEF more, size
<1>5. Len(downloadBuf') = size + upTo - arrived /\ Len(downloadBuf') = left + arrived' - position
  <2>1. PICK total : total = Len(downloadBuf')
    OBVIOUS
  <2>4. total = size + (upTo - arrived)
    BY <1>1, <1>3, <2>1, Zenon
  <2>2. arrived' = upTo /\ arrived \in Nat /\ upTo \in Nat /\ size \in Nat
    BY <1>1, <1>2
  <2>3. size = left + arrived - position
    BY <1>4
  <2>5. total = size + upTo - arrived /\ total = left + arrived' - position
    BY <2>2, <2>3, <2>4
  <2> QED
    BY <2>1, <2>5, Zenon
<1>6. ASSUME NEW j \in 1 .. Len(downloadBuf')
      PROVE  downloadBuf'[j] = IF j <= left THEN LF ELSE Stream[position + j - left]
  <2>1. j \in 1 .. size + Len(more) /\ j \in Nat
    BY <1>3
  <2>2. CASE j <= size
    <3>1. j \in 1 .. size
      BY <1>2, <2>1, <2>2
    <3> QED
      BY <1>3, <1>4, <2>1, <2>2, <3>1
  <2>3. CASE ~ j <= size
    <3>1. /\ j - size \in 1 .. Len(more) /\ ~ j <= left
          /\ arrived + (j - size) = position + j - left
      <4>1. PICK n : n = Len(more)
        OBVIOUS
      <4>2. size = left + arrived - position
        BY <1>4
      <4>3. /\ arrived \in Nat /\ n \in Nat /\ size \in Nat
            /\ j \in Nat /\ j <= size + n
        <5>1. arrived \in Nat /\ Len(more) \in Nat
          BY <1>1
        <5> QED
          BY <1>2, <2>1, <4>1, <5>1
      <4>4. /\ j - size \in 1 .. n /\ ~ j <= left
            /\ arrived + (j - size) = position + j - left
        BY <2>3, <4>2, <4>3
      <4> QED
        BY <4>1, <4>4
    <3> QED
      BY <1>1, <1>3, <2>1, <2>3, <3>1
  <2> QED
    BY <2>2, <2>3
<1>7. downloadBuf' # << >>
  <2>1. Len(downloadBuf') # 0
    BY <1>1, <1>2, <1>5
  <2> QED
    BY <2>1
<1> QED
  BY <1>5, <1>6, <1>7 DEF Holds, size

(* The headers before the one that the parser is at have arrived.          *)
LEMMA EarlierHeaders ==
    ASSUME TypeOK, NEW n \in 0 .. N, End(n) <= arrived
    PROVE  \A j \in 0 .. N - 1 : j < n => End(j) + 3 <= arrived
<1> SUFFICES ASSUME NEW j \in 0 .. N - 1, j < n PROVE End(j) + 3 <= arrived
  OBVIOUS
<1>1. /\ arrived \in Nat /\ N \in Nat /\ j \in Nat /\ n \in Nat /\ End(n) \in Nat
      /\ j \in 0 .. N
  BY TypeParts, ConstantTypes DEF Types
<1>2. /\ j + 1 \in 0 .. N
      /\ End(j + 1) = End(j) + Len(Payloads[j + 1]) + 5 /\ Len(Payloads[j + 1]) \in 1 .. 9
  BY ChunkInStream
<1>3. End(j) \in Nat /\ End(j + 1) \in Nat /\ (j + 1 = n \/ j + 1 < n)
  BY <1>1, <1>2, ConstantTypes
<1>4. End(j + 1) <= End(n)
  BY <1>1, <1>2, <1>3, ConstantTypes
<1> QED
  BY <1>1, <1>2, <1>3, <1>4

(* The margin that a harmless read leaves, where the f-th header is the     *)
(* first of which something was missing.                                    *)
LEMMA ReadMargin ==
    ASSUME TypeOK, NEW upTo \in ReadEnds, Harmless(upTo),
           NEW f \in 0 .. N, f < N => arrived < End(f) + 3,
           \A j \in 0 .. N - 1 : j < f => End(j) + 3 <= arrived,
           NEW k \in 0 .. N - 1, f <= k + 1,
           End(k) < upTo, upTo < End(k + 1)
    PROVE  IF upTo < End(k) + 3 THEN k <= f ELSE upTo + (k - f + 1) < End(k + 1)
<1>1. /\ arrived \in Nat /\ upTo \in Nat /\ arrived < upTo
      /\ N \in Nat /\ f \in Nat /\ k \in Nat /\ k < N /\ k \in 0 .. N /\ k + 1 \in 0 .. N
  BY ReadMore, ConstantTypes
<1>2. \A j \in 0 .. N - 1 : /\ End(j) \in Nat /\ End(j + 1) \in Nat
                            /\ End(j) + 5 <= End(j + 1)
  <2> TAKE j \in 0 .. N - 1
  <2>1. j \in 0 .. N /\ j + 1 \in 0 .. N
    BY <1>1
  <2>2. End(j + 1) = End(j) + Len(Payloads[j + 1]) + 5 /\ Len(Payloads[j + 1]) \in 1 .. 9
    BY ChunkInStream
  <2>3. End(j) \in Nat /\ End(j + 1) \in Nat
    BY <2>1, ConstantTypes
  <2> QED
    BY <2>2, <2>3
<1>3. \A x, y \in 0 .. N : x < y => End(x) < End(y)
  BY ConstantTypes
<1>4. HeadersIn(upTo) = {j \in 0 .. N - 1 : arrived < End(j) + 3 /\ End(j) + 3 <= upTo}
  BY DEF HeadersIn, N, End
<1>5. IF upTo < End(k) + 3 THEN HeadersIn(upTo) = {}
      ELSE upTo + Cardinality(HeadersIn(upTo)) < End(k + 1)
  BY DEF Harmless, N, End
<1>6. CASE upTo < End(k) + 3
  <2> SUFFICES ASSUME f < k PROVE FALSE
    BY <1>1, <1>6
  <2>1. f \in 0 .. N - 1 /\ f \in 0 .. N /\ f + 1 \in 0 .. N
    BY <1>1
  <2>2. f + 1 = k \/ f + 1 < k
    BY <1>1
  <2>3. End(f + 1) <= End(k)
    BY <1>1, <1>2, <1>3, <2>1, <2>2
  <2>4. arrived < End(f) + 3 /\ End(f) + 3 <= upTo
    BY <1>1, <1>2, <2>1, <2>3
  <2> QED
    BY <1>4, <1>5, <1>6, <2>1, <2>4
<1>7. CASE ~ upTo < End(k) + 3
  <2>1. ASSUME NEW j \in 0 .. N - 1
        PROVE  (arrived < End(j) + 3 /\ End(j) + 3 <= upTo) <=> j \in f .. k
    <3>1. /\ j \in Nat /\ j \in 0 .. N /\ End(j) \in Nat /\ End(k) \in Nat
          /\ End(k + 1) \in Nat
      BY <1>1, <1>2
    <3>2. CASE j < f
      BY <1>1, <3>1, <3>2
    <3>3. CASE k < j
      <4>1. k + 1 = j \/ k + 1 < j
        BY <1>1, <3>1, <3>3
      <4>2. End(k + 1) <= End(j)
        BY <1>1, <1>3, <3>1, <4>1
      <4> QED
        BY <1>1, <3>1, <3>3, <4>2
    <3>4. CASE f <= j /\ j <= k
      <4>1. f < N /\ End(f) \in Nat
        BY <1>1, <3>1, <3>4, ConstantTypes
      <4>2. (f = j \/ f < j) /\ (j = k \/ j < k)
        BY <1>1, <3>1, <3>4
      <4>3. End(f) <= End(j) /\ End(j) <= End(k)
        BY <1>1, <1>3, <3>1, <4>1, <4>2
      <4> QED
        BY <1>1, <1>7, <3>1, <3>4, <4>1, <4>3
    <3> QED
      BY <1>1, <3>1, <3>2, <3>3, <3>4
  <2>2. \A j \in f .. k : j \in 0 .. N - 1
    BY <1>1
  <2>3. HeadersIn(upTo) = f .. k
    BY <1>4, <2>1, <2>2
  <2>4. Cardinality(f .. k) = k - f + 1
    <3>1. Cardinality(f .. k) = IF f > k THEN 0 ELSE k - f + 1
      BY <1>1, FS_Interval
    <3> QED
      BY <1>1, <3>1
  <2> QED
    BY <1>5, <1>7, <2>3, <2>4
<1> QED
  BY <1>6, <1>7

LEMMA ReceiveInv ==
    ASSUME TypeOK, NEW n \in 0 .. N, AtHeader(n) \/ AtBody(n), Receive, ~cutShort'
    PROVE  AtHeader(n)' \/ AtBody(n)'
<1>1. PICK upTo \in ReadEnds :
          /\ arrived' = upTo
          /\ downloadBuf' = downloadBuf \o SubSeq(Stream, arrived + 1, upTo)
          /\ Harmless(upTo)
  BY DEF Receive
<1>2. /\ pc = "wait" /\ pc' = "parse" /\ sz' = Len(downloadBuf') /\ i' = 0
      /\ chunked_message_length' = chunked_message_length
  BY DEF Receive
<1>3. arrived \in Nat /\ upTo \in Nat /\ arrived < upTo /\ upTo <= Len(Stream)
  BY ReadMore
<1>4. End(n) \in Nat /\ n \in Nat /\ N \in Nat
  BY ConstantTypes
<1>5. Len(downloadBuf) \in Nat
  BY HeaderTypes
<1>6. CASE AtHeader(n)
  <2>0. PICK m : m = Len(downloadBuf) + End(n) - arrived
    OBVIOUS
  <2>1. End(n) <= arrived /\ arrived <= End(n) + 2 /\ Holds(m, End(n)) /\ m \in Nat
    BY <1>2, <1>6, <2>0 DEF AtHeader, Holds
  <2>2. n \in 0 .. N - 1
    <3>1. End(N) = Len(Stream) /\ Len(Stream) \in Nat
      BY ConstantTypes
    <3>2. n # N
      BY <1>3, <1>4, <2>1, <3>1
    <3> QED
      BY <1>4, <3>2
  <2>4. /\ Holds(m, End(n))' /\ downloadBuf' # << >>
        /\ Len(downloadBuf') = Len(downloadBuf) + upTo - arrived
    BY <1>1, <1>4, <2>1, HoldsMore
  <2>5. m = Len(downloadBuf') + End(n) - arrived'
    BY <1>1, <1>3, <1>4, <1>5, <2>0, <2>4
  <2>6. lag' = 0
    <3>1. Len(downloadBuf') \in Nat
      BY <1>3, <1>5, <2>4
    <3> QED
      BY <1>2, <3>1 DEF lag
  <2>7. chunked_message_length' = 0 /\ End(n) <= arrived'
    BY <1>1, <1>2, <1>3, <1>4, <1>6, <2>1 DEF AtHeader
  <2>8. HeaderMargin(n)'
    <3> SUFFICES ASSUME NEW k \in n .. N - 1, End(k) < upTo, upTo < End(k + 1)
                 PROVE  IF upTo < End(k) + 3 THEN k = n
                        ELSE upTo + 0 + (k - n + 1) < End(k + 1)
      BY <1>1, <2>6 DEF HeaderMargin
    <3>1. k \in 0 .. N - 1 /\ k \in Nat /\ n <= k /\ n <= k + 1
      BY <1>4
    <3>2. arrived < End(n) + 3
      BY <1>3, <1>4, <2>1
    <3>3. \A j \in 0 .. N - 1 : j < n => End(j) + 3 <= arrived
      BY <1>4, <2>1, EarlierHeaders
    <3>4. IF upTo < End(k) + 3 THEN k <= n ELSE upTo + (k - n + 1) < End(k + 1)
      BY <1>1, <3>1, <3>2, <3>3, ReadMargin
    <3> QED
      BY <1>3, <1>4, <3>1, <3>4
  <2> QED
    BY <1>2, <2>4, <2>5, <2>6, <2>7, <2>8 DEF AtHeader
<1>7. CASE AtBody(n)
  <2>1. /\ n < N /\ End(n) + 3 <= arrived /\ arrived < End(n + 1) /\ Holds(0, End(n) + 3)
        /\ chunked_message_length = Len(Payloads[n + 1])
    BY <1>2, <1>7 DEF AtBody
  <2>2. n \in 0 .. N - 1
    BY <1>4, <2>1
  <2>4. /\ Holds(0, End(n) + 3)' /\ downloadBuf' # << >>
        /\ Len(downloadBuf') = Len(downloadBuf) + upTo - arrived
    <3>1. 0 \in Nat /\ End(n) + 3 \in Nat
      BY <1>4
    <3> QED
      BY <1>1, <2>1, <3>1, HoldsMore
  <2>5. lag' = 0
    <3>1. Len(downloadBuf') \in Nat
      BY <1>3, <1>5, <2>4
    <3> QED
      BY <1>2, <3>1 DEF lag
  <2>6. End(n) + 3 <= arrived'
    BY <1>1, <1>3, <1>4, <2>1
  <2>7. BodyMargin(n)'
    <3> SUFFICES ASSUME NEW k \in n .. N - 1, End(k) < upTo, upTo < End(k + 1)
                 PROVE  IF upTo < End(k) + 3 THEN k = n + 1
                        ELSE upTo + 0 + (k - n) < End(k + 1)
      BY <1>1, <2>5 DEF BodyMargin
    <3>1. k \in 0 .. N - 1 /\ k \in Nat /\ n <= k /\ n + 1 <= k + 1 /\ n + 1 \in 0 .. N
      BY <1>4, <2>2
    <3>2. n + 1 < N => arrived < End(n + 1) + 3
      BY <1>3, <2>1, <3>1, ConstantTypes
    <3>3. \A j \in 0 .. N - 1 : j < n + 1 => End(j) + 3 <= arrived
      <4> TAKE j \in 0 .. N - 1
      <4>1. j < n + 1 => j < n \/ j = n
        BY <1>4
      <4>2. End(n) <= arrived
        BY <1>3, <1>4, <2>1
      <4>3. j < n => End(j) + 3 <= arrived
        BY <4>2, EarlierHeaders
      <4> QED
        BY <2>1, <4>1, <4>3
    <3>4. IF upTo < End(k) + 3 THEN k <= n + 1
          ELSE upTo + (k - (n + 1) + 1) < End(k + 1)
      BY <1>1, <3>1, <3>2, <3>3, ReadMargin
    <3>5. k = n => ~ upTo < End(k) + 3
      BY <1>3, <1>4, <2>1
    <3>6. k - (n + 1) + 1 = 0 + (k - n) /\ upTo + (0 + (k - n)) = upTo + 0 + (k - n)
      BY <1>3, <1>4, <3>1
    <3>7. CASE upTo < End(k) + 3
      BY <1>4, <3>1, <3>4, <3>5, <3>7
    <3>8. CASE ~ upTo < End(k) + 3
      BY <3>4, <3>6, <3>8
    <3> QED
      BY <3>7, <3>8
  <2> QED
    BY <1>2, <2>1, <2>4, <2>5, <2>6, <2>7 DEF AtBody
<1> QED
  BY <1>6, <1>7

(* A lost connection costs the message of which a part had arrived.        *)
LEMMA ReconnectInv ==
    ASSUME TypeOK, NEW n \in 0 .. N, DeliveredTo(n), AtHeader(n) \/ AtBody(n), Reconnect
    PROVE  InStep'
<1>1. PICK k \in 0 .. N :
          /\ arrived <= End(k)
          /\ k > 0 => End(k - 1) < arrived
          /\ arrived' = End(k)
          /\ lost' = IF arrived = End(k) THEN lost ELSE lost \cup {k}
  BY DEF Reconnect, N, End
<1>2. /\ pc = "wait" /\ pc' = "wait" /\ downloadBuf' = << >> /\ chunked_message_length' = 0
      /\ UNCHANGED <<receivedDataBuffer, numberErroredChunks>>
  BY DEF Reconnect, counts
<1>3. /\ N \in Nat /\ n \in Nat /\ k \in Nat /\ k <= N /\ n <= N /\ arrived \in Nat
      /\ End(n) \in Nat /\ End(k) \in Nat
      /\ \A x, y \in 0 .. N : x < y => End(x) < End(y)
  <2>1. arrived \in Nat
    BY TypeParts, ConstantTypes DEF Types
  <2> QED
    BY <2>1, ConstantTypes
<1>4. End(n) <= arrived /\ (n < N => arrived < End(n + 1))
  <2>1. n < N => n + 1 \in 0 .. N /\ End(n + 1) \in Nat /\ End(n) + 5 <= End(n + 1)
    <3> SUFFICES ASSUME n < N PROVE n + 1 \in 0 .. N /\ End(n + 1) \in Nat /\ End(n) + 5 <= End(n + 1)
      OBVIOUS
    <3>1. n \in 0 .. N - 1
      BY <1>3
    <3>2. n + 1 \in 0 .. N /\ End(n + 1) = End(n) + Len(Payloads[n + 1]) + 5 /\ Len(Payloads[n + 1]) \in 1 .. 9
      BY <3>1, ChunkInStream
    <3> QED
      BY <1>3, <3>2
  <2>2. CASE AtHeader(n)
    BY <1>2, <1>3, <2>1, <2>2 DEF AtHeader
  <2>3. CASE AtBody(n)
    BY <1>2, <1>3, <2>3 DEF AtBody
  <2> QED
    BY <2>2, <2>3
<1>5. \/ k = n /\ arrived = End(k)
      \/ k = n + 1 /\ arrived # End(k)
  <2>1. ~ k < n
    BY <1>1, <1>3, <1>4
  <2>2. k = n => arrived = End(k)
    BY <1>1, <1>3, <1>4
  <2>3. ASSUME k > n PROVE k = n + 1 /\ arrived # End(k)
    <3>1. n < N /\ n + 1 \in 0 .. N /\ k - 1 \in 0 .. N
      BY <1>3, <2>3
    <3>2. End(n + 1) \in Nat /\ End(k - 1) \in Nat
      BY <3>1, ConstantTypes
    <3>3. End(k - 1) < arrived
      BY <1>1, <1>3, <2>3
    <3>4. ~ n + 1 < k
      <4>1. n + 1 < k => n + 1 = k - 1 \/ n + 1 < k - 1
        BY <1>3
      <4> QED
        BY <1>3, <1>4, <3>1, <3>2, <3>3, <4>1
    <3>5. k = n + 1
      BY <1>3, <2>3, <3>4
    <3> QED
      BY <1>3, <1>4, <3>1, <3>2, <3>5
  <2> QED
    BY <1>3, <2>1, <2>2, <2>3
<1>6. AtHeader(k)'
  <2>1. Len(downloadBuf') = 0
    BY <1>2
  <2>2. Holds(0, End(k))'
    BY <1>1, <1>3, <2>1 DEF Holds
  <2>3. Len(downloadBuf') + End(k) - arrived' = 0
    BY <1>1, <1>3, <2>1
  <2> QED
    BY <1>1, <1>2, <1>3, <2>2, <2>3 DEF AtHeader
<1>7. DeliveredTo(k)'
  <2>1. CASE k = n /\ arrived = End(k)
    BY <1>1, <1>2, <2>1, SameDelivered
  <2>2. CASE k = n + 1 /\ arrived # End(k)
    <3>1. lost' = lost \cup {n + 1} /\ lost \subseteq 1 .. n
      BY <1>1, <2>2 DEF DeliveredTo
    <3>2. lost' \subseteq 1 .. n + 1
      BY <1>3, <3>1
    <3>3. Whole(n + 1)' = Whole(n)
      BY <1>3, <3>1 DEF Whole
    <3>4. \A j \in Whole(n) : Whole(j)' = Whole(j)
      BY <1>3, <3>1 DEF Whole
    <3>5. /\ Len(receivedDataBuffer) = Cardinality(Whole(n))
          /\ \A j \in Whole(n) : receivedDataBuffer[Cardinality(Whole(j))] = Payloads[j]
          /\ numberErroredChunks = 0
      BY DEF DeliveredTo
    <3> QED
      BY <1>2, <2>2, <3>2, <3>3, <3>4, <3>5 DEF DeliveredTo
  <2> QED
    BY <1>5, <2>1, <2>2
<1> QED
  BY <1>6, <1>7 DEF InStep

LEMMA IntervalEnds ==
    ASSUME NEW a \in Nat, NEW b \in Nat, 1 .. a = 1 .. b
    PROVE  a = b
<1>1. a <= b
  <2>1. a >= 1 => a \in 1 .. a
    OBVIOUS
  <2>2. a >= 1 => a \in 1 .. b
    BY <2>1, Zenon
  <2> QED
    BY <2>2
<1>2. b <= a
  <2>1. b >= 1 => b \in 1 .. b
    OBVIOUS
  <2>2. b >= 1 => b \in 1 .. a
    BY <2>1, Zenon
  <2> QED
    BY <2>2
<1> QED
  BY <1>1, <1>2

LEMMA BodyLength ==
    ASSUME NEW n \in 0 .. N, AtBody(n)
    PROVE  n \in 0 .. N - 1 /\ chunked_message_length \in 1 .. 9
<1>1. n \in 0 .. N - 1
  BY ConstantTypes DEF AtBody
<1>2. Len(Payloads[n + 1]) \in 1 .. 9
  BY <1>1, ChunkInStream
<1> QED
  BY <1>1, <1>2, Zenon DEF AtBody

(* The header is not whole: what was read of it is put back, with a line   *)
(* feed for each character that the index lags.                            *)
LEMMA EndOfBufferInv ==
    ASSUME TypeOK, NEW n \in 0 .. N, AtHeader(n) \/ AtBody(n), EndOfBuffer
    PROVE  AtHeader(n)'
<1>1. /\ pc = "parse" /\ chunked_message_length = 0 /\ HeaderEnds = {}
      /\ downloadBuf' = [k \in 1 .. HeaderReads |-> HeaderChar(k)]
      /\ pc' = "wait" /\ UNCHANGED <<arrived, chunked_message_length>>
  BY DEF EndOfBuffer
<1>2. AtHeader(n)
  <2> SUFFICES ASSUME AtBody(n) PROVE FALSE
    OBVIOUS
  <2>1. chunked_message_length \in 1 .. 9
    BY BodyLength
  <2> QED
    BY <1>1, <2>1
<1>3. /\ arrived \in Nat /\ End(n) \in Nat /\ Len(downloadBuf) \in Nat
      /\ HeaderReads \in Nat /\ HeaderReads >= 1
      /\ \A k \in Nat \ {0} : k <= Len(downloadBuf) => HeaderChar(k) = downloadBuf[k]
  BY HeaderTypes, TypeParts, ConstantTypes DEF Types
<1>4. arrived <= End(n) + 2
  <2> SUFFICES ASSUME arrived > End(n) + 2 PROVE FALSE
    BY <1>3
  <2> QED
    BY <1>1, <1>2, WholeHeader
<1>5. /\ End(n) <= arrived
      /\ Holds(Len(downloadBuf) + End(n) - arrived, End(n))
  BY <1>2 DEF AtHeader
<1>6. /\ Len(downloadBuf') = HeaderReads
      /\ \A k \in 1 .. HeaderReads : downloadBuf'[k] = HeaderChar(k)
  <2>1. \A k \in 1 .. HeaderReads : HeaderChar(k) \in Char
    BY HeaderTypes
  <2>2. downloadBuf' \in Seq(Char)
    BY <1>1, <1>3, <2>1
  <2>3. DOMAIN downloadBuf' = 1 .. Len(downloadBuf') /\ Len(downloadBuf') \in Nat
    BY <2>2, LenProperties
  <2>4. DOMAIN downloadBuf' = 1 .. HeaderReads
    BY <1>1
  <2>5. Len(downloadBuf') = HeaderReads
    BY <1>3, <2>3, <2>4, IntervalEnds
  <2> QED
    BY <1>1, <2>5
<1>7. PICK left : left = HeaderReads + End(n) - arrived
  OBVIOUS
<1>8. Holds(left, End(n))'
  <2>1. CASE HeaderReads = Len(downloadBuf)
    <3>1. \A k \in 1 .. Len(downloadBuf) : k \in Nat \ {0} /\ k <= Len(downloadBuf)
      BY <1>3
    <3>2. \A k \in 1 .. Len(downloadBuf) : downloadBuf'[k] = downloadBuf[k]
      BY <1>3, <1>6, <2>1, <3>1
    <3>3. Len(downloadBuf') = Len(downloadBuf) /\ arrived' = arrived
      BY <1>1, <1>6, <2>1
    <3>4. /\ left \in Nat /\ Len(downloadBuf) = left + arrived - End(n)
          /\ \A k \in 1 .. Len(downloadBuf) :
                downloadBuf[k] = IF k <= left THEN LF ELSE Stream[End(n) + k - left]
      BY <1>5, <1>7, <2>1 DEF Holds
    <3>5. \A k \in 1 .. Len(downloadBuf) :
              downloadBuf'[k] = IF k <= left THEN LF ELSE Stream[End(n) + k - left]
      BY <3>2, <3>4, Zenon
    <3> QED
      BY <3>3, <3>4, <3>5, Zenon DEF Holds
  <2>2. CASE arrived = End(n) /\ \A k \in 1 .. HeaderReads : HeaderChar(k) = LF
    <3>1. left = HeaderReads /\ HeaderReads = left + arrived - End(n)
      BY <1>3, <1>7, <2>2
    <3>2. \A k \in 1 .. HeaderReads : downloadBuf'[k] = LF /\ k <= HeaderReads
      BY <1>3, <1>6, <2>2
    <3>3. \A k \in 1 .. Len(downloadBuf') :
              downloadBuf'[k] = IF k <= left THEN LF ELSE Stream[End(n) + k - left]
      BY <1>6, <3>1, <3>2
    <3>4. left \in Nat /\ Len(downloadBuf') = left + arrived' - End(n)
      BY <1>1, <1>3, <1>6, <3>1
    <3> QED
      BY <3>3, <3>4, Zenon DEF Holds
  <2> QED
    BY <1>1, <1>2, <1>4, <2>1, <2>2, PartOfHeader
<1>9. left = Len(downloadBuf') + End(n) - arrived'
  BY <1>1, <1>6, <1>7
<1> QED
  BY <1>1, <1>4, <1>5, <1>8, <1>9 DEF AtHeader

LEMMA ReadHeaderInv ==
    ASSUME TypeOK, NEW n \in 0 .. N, AtHeader(n) \/ AtBody(n), ReadHeader
    PROVE  AtBody(n)' /\ UNCHANGED <<lost, receivedDataBuffer, numberErroredChunks>>
<1>1. PICK k \in HeaderEnds :
          /\ \A l \in HeaderEnds : k <= l
          /\ i' = i + k - 1
          /\ downloadBuf' = SubSeq(downloadBuf, k + 1, Len(downloadBuf))
          /\ LET length == ToInteger(Line(k))
             IN  IF length \in 0 .. LongestMessage
                 THEN chunked_message_length' = length /\ UNCHANGED counts
                 ELSE chunked_message_length' = 0 /\ LogChunkError
  BY DEF ReadHeader
<1>2. /\ pc = "parse" /\ pc' = "parse" /\ chunked_message_length = 0 /\ c_j' = LF
      /\ UNCHANGED <<arrived, sz, lost, receivedDataBuffer>>
  BY DEF ReadHeader
<1>3. AtHeader(n)
  <2> SUFFICES ASSUME AtBody(n) PROVE FALSE
    OBVIOUS
  <2>1. chunked_message_length \in 1 .. 9
    BY BodyLength
  <2> QED
    BY <1>2, <2>1
<1>4. arrived \in Nat /\ End(n) \in Nat /\ Len(downloadBuf) \in Nat /\ sz \in Nat /\ i \in Nat
  BY HeaderTypes, TypeParts, ConstantTypes DEF Types
<1>5. arrived > End(n) + 2
  <2> SUFFICES ASSUME arrived <= End(n) + 2 PROVE FALSE
    BY <1>4
  <2> QED
    BY <1>1, <1>2, <1>3, PartOfHeader
<1>6. PICK m : m = Len(downloadBuf) + End(n) - arrived
  OBVIOUS
<1>7. PICK l : l = Len(Payloads[n + 1])
  OBVIOUS
<1>8. /\ n \in 0 .. N - 1 /\ m \in Nat
      /\ m + 3 \in HeaderEnds
      /\ \A h \in HeaderEnds : h >= m + 3
      /\ \A j \in 1 .. m : HeaderChar(j) = LF
      /\ HeaderChar(m + 1) = 48 + l
  BY <1>2, <1>3, <1>5, <1>6, <1>7, WholeHeader
<1>9. l \in 1 .. 9 /\ End(n + 1) = End(n) + l + 5
  BY <1>7, <1>8, ChunkInStream
<1>10. k = m + 3
  <2>1. k \in Nat
    BY DEF HeaderEnds
  <2>2. k <= m + 3 /\ k >= m + 3
    BY <1>1, <1>8
  <2> QED
    BY <1>8, <2>1, <2>2
<1>11. chunked_message_length' = l /\ UNCHANGED numberErroredChunks
  <2> DEFINE line == Line(k)
  <2>0. LineLength(k) = m + 1
    <3>1. HeaderChar(m + 2) = CR /\ HeaderChar(m + 3) = LF
      BY <1>8 DEF HeaderEnds, EndsHeader
    <3>2. ASSUME NEW j \in 1 .. k PROVE HeaderChar(j) # 0
      <4>1. j \in 1 .. m \/ j = m + 1 \/ j = m + 2 \/ j = m + 3
        BY <1>8, <1>10
      <4> QED
        BY <1>8, <1>9, <3>1, <4>1 DEF CR, LF
    <3>3. LineLength(k) = IF k < 2 THEN k ELSE k - 2
      BY <3>2 DEF LineLength
    <3> QED
      BY <1>8, <1>10, <3>3
  <2>1. DOMAIN line = 1 .. m + 1
    BY <2>0 DEF Line
  <2>2. (\A j \in 1 .. m : line[j] = LF) /\ line[m + 1] = 48 + l
    <3>1. (\A j \in 1 .. m : j \in 1 .. m + 1) /\ m + 1 \in 1 .. m + 1
      BY <1>8
    <3>2. \A j \in 1 .. m + 1 : line[j] = HeaderChar(j)
      BY <2>0 DEF Line
    <3> QED
      BY <1>8, <3>1, <3>2
  <2> HIDE DEF line
  <2>3. ToInteger(line) = l
    BY <1>8, <1>9, <2>1, <2>2, HeaderNumber
  <2>4. l \in 0 .. LongestMessage
    BY <1>9, LongestType
  <2> QED
    BY <1>1, <2>3, <2>4 DEF line, counts
<1>12. /\ Len(downloadBuf') = arrived - (End(n) + 3) /\ Len(downloadBuf') \in Nat
       /\ Len(downloadBuf) = Len(downloadBuf') + m + 3
       /\ \A j \in 1 .. Len(downloadBuf') : downloadBuf'[j] = downloadBuf[m + 3 + j]
  <2>1. m + 3 \in Nat /\ m + 3 <= Len(downloadBuf) /\ Len(downloadBuf) - (m + 3) = arrived - (End(n) + 3)
    BY <1>4, <1>5, <1>6, <1>8
  <2>2. downloadBuf' = SubSeq(downloadBuf, (m + 3) + 1, Len(downloadBuf))
    BY <1>1, <1>10
  <2>3. /\ Len(downloadBuf') = Len(downloadBuf) - (m + 3)
        /\ \A j \in 1 .. Len(downloadBuf') : downloadBuf'[j] = downloadBuf[(m + 3) + j]
    <3> DEFINE k0 == m + 3
               rest == SubSeq(downloadBuf, k0 + 1, Len(downloadBuf))
    <3>1. k0 \in Nat /\ k0 <= Len(downloadBuf)
      BY <2>1, Zenon
    <3>2. downloadBuf' = rest
      BY <2>2
    <3> HIDE DEF k0
    <3>3. /\ Len(rest) = IF k0 <= Len(downloadBuf) THEN Len(downloadBuf) - k0 ELSE 0
          /\ \A j \in 1 .. Len(rest) : rest[j] = downloadBuf[k0 + j]
      BY <3>1, RestOfBuffer
    <3> HIDE DEF rest
    <3>4. /\ Len(downloadBuf') = Len(downloadBuf) - k0
          /\ \A j \in 1 .. Len(downloadBuf') : downloadBuf'[j] = downloadBuf[k0 + j]
      BY <3>1, <3>2, <3>3, Zenon
    <3> QED
      BY <3>4, Zenon DEF k0
  <2>4. Len(downloadBuf) - (m + 3) \in Nat /\ (Len(downloadBuf) - (m + 3)) + m + 3 = Len(downloadBuf)
    BY <1>4, <1>8, <2>1
  <2>5. Len(downloadBuf') = arrived - (End(n) + 3) /\ Len(downloadBuf') \in Nat
    BY <2>1, <2>3, <2>4
  <2>6. Len(downloadBuf) = Len(downloadBuf') + m + 3
    BY <2>3, <2>4
  <2> QED
    BY <2>3, <2>5, <2>6, Zenon
<1>13. Holds(0, End(n) + 3)'
  <2>1. \A j \in 1 .. Len(downloadBuf) :
            downloadBuf[j] = IF j <= m THEN LF ELSE Stream[End(n) + j - m]
    BY <1>3, <1>6 DEF AtHeader, Holds
  <2>2. ASSUME NEW j \in 1 .. Len(downloadBuf')
        PROVE  downloadBuf'[j] = Stream[(End(n) + 3) + j - 0] /\ ~ j <= 0
    <3>1. /\ m + 3 + j \in 1 .. Len(downloadBuf) /\ ~ m + 3 + j <= m
          /\ End(n) + (m + 3 + j) - m = (End(n) + 3) + j - 0 /\ ~ j <= 0
      <4>1. PICK before, after : before = Len(downloadBuf) /\ after = Len(downloadBuf')
        OBVIOUS
      <4>2. before = after + m + 3 /\ before \in Nat /\ after \in Nat /\ j \in 1 .. after
        BY <1>4, <1>12, <4>1
      <4>3. m + 3 + j \in 1 .. before /\ ~ m + 3 + j <= m
        BY <1>8, <4>2
      <4>4. End(n) + (m + 3 + j) - m = (End(n) + 3) + j - 0 /\ ~ j <= 0
        BY <1>4, <1>8, <4>2
      <4> QED
        BY <4>1, <4>3, <4>4, Zenon
    <3>2. downloadBuf[m + 3 + j] = Stream[End(n) + (m + 3 + j) - m]
      BY <2>1, <3>1
    <3> QED
      BY <1>12, <3>1, <3>2
  <2>3. Len(downloadBuf') = 0 + arrived' - (End(n) + 3)
    BY <1>2, <1>4, <1>12
  <2> QED
    BY <2>2, <2>3 DEF Holds
<1>14. lag' >= 0 /\ BodyMargin(n)'
  <2>1. lag >= 0 /\ lag \in Int /\ HeaderMargin(n)
    BY <1>2, <1>3, <1>4 DEF AtHeader, lag
  <2>2. lag' = lag + 1
    <3>1. sz' = sz /\ i' = i + m + 2
      BY <1>1, <1>2, <1>4, <1>8, <1>10
    <3>2. PICK before, after : before = Len(downloadBuf) /\ after = Len(downloadBuf')
      OBVIOUS
    <3>3. before = after + m + 3 /\ before \in Nat /\ after \in Nat
      BY <1>4, <1>12, <3>2
    <3>4. lag = sz - i - before /\ lag' = sz - (i + m + 2) - after
      BY <3>1, <3>2 DEF lag
    <3> QED
      BY <1>4, <1>8, <3>3, <3>4
  <2>3. BodyMargin(n)'
    <3> SUFFICES ASSUME NEW c \in n .. N - 1, End(c) < arrived, arrived < End(c + 1)
                 PROVE  IF arrived < End(c) + 3 THEN c = n + 1 /\ lag' = 0
                        ELSE arrived + lag' + (c - n) < End(c + 1)
      BY <1>2 DEF BodyMargin
    <3>1. IF arrived < End(c) + 3 THEN c = n /\ lag = 0
          ELSE arrived + lag + (c - n + 1) < End(c + 1)
      BY <2>1 DEF HeaderMargin
    <3>2. ~ arrived < End(n) + 3
      BY <1>4, <1>5
    <3>3. ~ arrived < End(c) + 3 /\ arrived + lag + (c - n + 1) < End(c + 1)
      BY <3>1, <3>2
    <3>4. n \in Int /\ c \in Int
      OBVIOUS
    <3>5. arrived + lag + (c - n + 1) = arrived + lag' + (c - n)
      BY <1>4, <2>1, <2>2, <3>4
    <3> QED
      BY <3>3, <3>5
  <2> QED
    BY <2>1, <2>2, <2>3
<1>15. n < N /\ End(n) + 3 <= arrived /\ chunked_message_length' = Len(Payloads[n + 1])
  BY <1>4, <1>5, <1>7, <1>8, <1>11, ConstantTypes
<1> QED
  BY <1>2, <1>11, <1>13, <1>14, <1>15 DEF AtBody

(* A call that leaves a body for the next has not taken all of it.         *)
LEMMA WaitForBodyInv ==
    ASSUME TypeOK, NEW n \in 0 .. N, AtHeader(n) \/ AtBody(n), WaitForBody
    PROVE  AtBody(n)'
<1>1. /\ pc = "parse" /\ pc' = "wait" /\ chunked_message_length # 0 /\ ~ BodyExpected
      /\ UNCHANGED <<arrived, downloadBuf, chunked_message_length>>
  BY DEF WaitForBody
<1>2. AtBody(n)
  BY <1>1 DEF AtHeader
<1>3. n \in 0 .. N - 1 /\ chunked_message_length = Len(Payloads[n + 1])
  BY <1>2, BodyLength DEF AtBody
<1>4. PICK l : l = Len(Payloads[n + 1])
  OBVIOUS
<1>5. l \in 1 .. 9 /\ End(n + 1) = End(n) + l + 5
  BY <1>3, <1>4, ChunkInStream
<1>6. arrived \in Nat /\ End(n) \in Nat /\ Len(downloadBuf) \in Nat /\ sz \in Nat /\ i \in Nat
  BY HeaderTypes, TypeParts, ConstantTypes DEF Types
<1>7. sz - i < l + 2
  BY <1>1, <1>3, <1>4, <1>5, <1>6 DEF BodyExpected, bodyPos
<1>8. /\ End(n) + 3 <= arrived /\ Len(downloadBuf) = arrived - (End(n) + 3)
      /\ sz - i >= Len(downloadBuf)
  BY <1>1, <1>2, <1>6 DEF AtBody, Holds, lag
<1>9. arrived < End(n + 1)
  BY <1>5, <1>6, <1>7, <1>8
<1>10. Holds(0, End(n) + 3)'
  BY <1>1, <1>2 DEF AtBody, Holds
<1> QED
  BY <1>1, <1>2, <1>9, <1>10 DEF AtBody

(* A body that is taken has arrived, however the index lags.               *)
LEMMA BodyArrived ==
    ASSUME TypeOK, NEW n \in 0 .. N, AtBody(n), pc = "parse", BodyExpected
    PROVE  LET l == Len(Payloads[n + 1])
           IN  /\ n \in 0 .. N - 1 /\ l \in 1 .. 9 /\ l = chunked_message_length
               /\ End(n + 1) = End(n) + l + 5 /\ End(n + 1) <= arrived
               /\ Len(downloadBuf) = arrived - (End(n) + 3) /\ l + 2 <= Len(downloadBuf)
               /\ \A j \in 1 .. Len(downloadBuf) : downloadBuf[j] = Stream[End(n) + 3 + j]
               /\ BodyMargin(n)
               /\ lag \in Nat /\ (lag > 0 => c_j = LF)
<1>1. n \in 0 .. N - 1 /\ chunked_message_length = Len(Payloads[n + 1])
  BY BodyLength DEF AtBody
<1>2. PICK l : l = Len(Payloads[n + 1])
  OBVIOUS
<1>3. l \in 1 .. 9 /\ End(n + 1) = End(n) + l + 5 /\ n + 1 \in 0 .. N
  BY <1>1, <1>2, ChunkInStream
<1>4. arrived \in Nat /\ End(n) \in Nat /\ Len(downloadBuf) \in Nat /\ sz \in Nat /\ i \in Nat
  BY HeaderTypes, TypeParts, ConstantTypes DEF Types
<1>5. sz - i >= l + 2
  BY <1>1, <1>2, <1>3, <1>4 DEF BodyExpected, bodyPos
<1>6. /\ End(n) + 3 <= arrived /\ Len(downloadBuf) = arrived - (End(n) + 3)
      /\ \A j \in 1 .. Len(downloadBuf) : downloadBuf[j] = Stream[End(n) + 3 + j]
  <2>1. /\ End(n) + 3 <= arrived /\ Len(downloadBuf) = 0 + arrived - (End(n) + 3)
        /\ \A j \in 1 .. Len(downloadBuf) :
              downloadBuf[j] = IF j <= 0 THEN LF ELSE Stream[(End(n) + 3) + j - 0]
    BY DEF AtBody, Holds
  <2>2. \A j \in 1 .. Len(downloadBuf) : ~ j <= 0 /\ (End(n) + 3) + j - 0 = End(n) + 3 + j
    BY <1>4
  <2> QED
    BY <1>4, <2>1, <2>2
<1>7. /\ lag = sz - i - Len(downloadBuf) /\ lag \in Nat /\ (lag > 0 => c_j = LF)
      /\ BodyMargin(n)
  BY <1>4 DEF AtBody, lag
<1>8. End(n + 1) <= arrived
  <2> SUFFICES ASSUME arrived < End(n + 1) PROVE FALSE
    BY <1>3, <1>4, ConstantTypes
  <2>1. n \in n .. N - 1 /\ n \in Nat
    BY <1>1
  <2>2. End(n) < arrived /\ ~ arrived < End(n) + 3
    BY <1>4, <1>6
  <2>3. arrived + lag + (n - n) < End(n + 1)
    <3> SUFFICES ASSUME NEW k, k = n PROVE arrived + lag + (k - n) < End(n + 1)
      BY Zenon
    <3>1. k \in n .. N - 1 /\ End(k) < arrived /\ arrived < End(k + 1) /\ ~ arrived < End(k) + 3
      BY <2>1, <2>2
    <3>2. IF arrived < End(k) + 3 THEN k = n + 1 /\ lag = 0
          ELSE arrived + lag + (k - n) < End(k + 1)
      BY <1>7, <3>1, Zenon DEF BodyMargin
    <3> QED
      BY <3>1, <3>2
  <2>4. PICK size : size = Len(downloadBuf)
    OBVIOUS
  <2>5. size \in Nat /\ size = arrived - (End(n) + 3) /\ lag = sz - i - size
    BY <1>4, <1>6, <1>7, <2>4
  <2>6. PICK behind : behind = lag
    OBVIOUS
  <2>7. /\ behind \in Nat /\ behind = sz - i - size
        /\ arrived + behind + (n - n) < End(n + 1)
    BY <1>7, <2>3, <2>5, <2>6
  <2>8. arrived + behind = End(n) + 3 + (sz - i)
    <3>1. /\ arrived \in Int /\ End(n) \in Int /\ sz \in Int /\ i \in Int
          /\ size \in Int /\ behind \in Int
      BY <1>4, <2>5, <2>7
    <3>2. size = arrived - (End(n) + 3) /\ behind = sz - i - size
      BY <2>5, <2>7
    <3> QED
      BY <3>1, <3>2
  <2>9. arrived + behind < End(n) + l + 5
    BY <1>3, <1>4, <2>1, <2>7
  <2> QED
    BY <1>3, <1>4, <1>5, <2>8, <2>9
<1>9. l + 2 <= Len(downloadBuf)
  BY <1>3, <1>4, <1>6, <1>8
<1> QED
  BY <1>1, <1>2, <1>3, <1>6, <1>7, <1>8, <1>9

LEMMA BodyIsPayload ==
    ASSUME TypeOK, NEW n \in 0 .. N, AtBody(n), pc = "parse", BodyExpected
    PROVE  /\ Len(Body) = chunked_message_length + 2
           /\ Terminated
           /\ SubSeq(Body, 1, Len(Body) - 2) = Payloads[n + 1]
           /\ Last(Body) = LF
<1>1. PICK l : l = Len(Payloads[n + 1])
  OBVIOUS
<1>2. /\ n \in 0 .. N - 1 /\ l \in 1 .. 9 /\ l = chunked_message_length
      /\ l + 2 <= Len(downloadBuf)
      /\ \A j \in 1 .. Len(downloadBuf) : downloadBuf[j] = Stream[End(n) + 3 + j]
  BY <1>1, BodyArrived
<1>3. Len(downloadBuf) \in Nat /\ End(n) \in Nat
  BY HeaderTypes, ConstantTypes
<1>4. /\ Len(Body) = l + 2 /\ Body \in Seq(Char)
      /\ \A k \in 1 .. l + 2 : k <= Len(downloadBuf) => Body[k] = downloadBuf[k]
  BY <1>2, BodyTypes
<1>5. \A k \in 1 .. l + 2 : Body[k] = Stream[End(n) + 3 + k]
  <2>1. \A k \in 1 .. l + 2 : k \in 1 .. Len(downloadBuf) /\ k <= Len(downloadBuf)
    BY <1>2, <1>3
  <2> QED
    BY <1>2, <1>4, <2>1
<1>6. /\ Payloads[n + 1] \in Seq(Char)
      /\ \A j \in 1 .. l : Stream[End(n) + 3 + j] = Payloads[n + 1][j]
      /\ Stream[End(n) + l + 4] = CR /\ Stream[End(n) + l + 5] = LF
  BY <1>1, <1>2, ChunkInStream
<1>7. Body[l + 1] = CR /\ Body[l + 2] = LF
  <2>1. /\ l + 1 \in 1 .. l + 2 /\ l + 2 \in 1 .. l + 2
        /\ End(n) + 3 + (l + 1) = End(n) + l + 4 /\ End(n) + 3 + (l + 2) = End(n) + l + 5
    BY <1>2, <1>3
  <2> QED
    BY <1>5, <1>6, <2>1
<1>8. SubSeq(Body, 1, Len(Body) - 2) = Payloads[n + 1]
  <2> DEFINE part == SubSeq(Body, 1, l)
  <2>1. /\ part \in Seq(Char) /\ Len(part) = l
        /\ \A j \in 1 .. l : part[j] = Body[j]
    <3>1. \A j \in 1 .. l : j \in 1 .. Len(Body)
      BY <1>2, <1>4
    <3>2. \A j \in 1 .. l : Body[j] \in Char
      BY <1>4, <3>1, ElementOfSeq
    <3>3. 1 \in Int /\ l \in Int /\ 1 <= l /\ l - 1 + 1 = l /\ \A j \in 1 .. l : 1 + j - 1 = j
      BY <1>2
    <3>4. /\ part \in Seq(Char)
          /\ Len(part) = IF 1 <= l THEN l - 1 + 1 ELSE 0
          /\ \A j \in 1 .. l - 1 + 1 : part[j] = Body[1 + j - 1]
      BY <3>2, <3>3, SubSeqProperties
    <3> HIDE DEF part
    <3> QED
      BY <3>3, <3>4
  <2> HIDE DEF part
  <2>2. \A j \in 1 .. l : part[j] = Payloads[n + 1][j]
    <3>1. \A j \in 1 .. l : j \in 1 .. l + 2
      BY <1>2
    <3> QED
      BY <1>5, <1>6, <2>1, <3>1
  <2>3. part = Payloads[n + 1]
    BY <1>1, <1>6, <2>1, <2>2, SeqEqual
  <2>4. Len(Body) - 2 = l
    BY <1>2, <1>4
  <2> QED
    BY <2>3, <2>4 DEF part
<1> QED
  BY <1>2, <1>4, <1>7, <1>8 DEF Terminated, Last

LEMMA ReadBodyInv ==
    ASSUME TypeOK, NEW n \in 0 .. N, DeliveredTo(n), AtHeader(n) \/ AtBody(n), ReadBody
    PROVE  n + 1 \in 0 .. N /\ DeliveredTo(n + 1)' /\ AtHeader(n + 1)'
<1>1. /\ pc = "parse" /\ pc' = "parse" /\ chunked_message_length # 0 /\ BodyExpected
      /\ i' = bodyPos
      /\ downloadBuf' = SubSeq(downloadBuf, Len(Body) + 1, Len(downloadBuf))
      /\ c_i' = Last(Body) /\ chunked_message_length' = 0
      /\ UNCHANGED <<arrived, sz, c_j, lost>>
      /\ Terminated =>
             /\ receivedDataBuffer' = Append(receivedDataBuffer, SubSeq(Body, 1, Len(Body) - 2))
             /\ UNCHANGED numberErroredChunks
  BY DEF ReadBody
<1>2. AtBody(n)
  BY <1>1 DEF AtHeader
<1>3. PICK l : l = Len(Payloads[n + 1])
  OBVIOUS
<1>4. /\ n \in 0 .. N - 1 /\ l \in 1 .. 9 /\ l = chunked_message_length
      /\ End(n + 1) = End(n) + l + 5 /\ End(n + 1) <= arrived
      /\ Len(downloadBuf) = arrived - (End(n) + 3) /\ l + 2 <= Len(downloadBuf)
      /\ \A j \in 1 .. Len(downloadBuf) : downloadBuf[j] = Stream[End(n) + 3 + j]
      /\ BodyMargin(n)
      /\ lag \in Nat /\ (lag > 0 => c_j = LF)
  BY <1>1, <1>2, <1>3, BodyArrived
<1>5. /\ Len(Body) = l + 2 /\ c_i' = LF
      /\ receivedDataBuffer' = Append(receivedDataBuffer, Payloads[n + 1])
      /\ numberErroredChunks' = numberErroredChunks
  BY <1>1, <1>2, <1>4, BodyIsPayload
<1>6. /\ arrived \in Nat /\ End(n) \in Nat /\ Len(downloadBuf) \in Nat /\ sz \in Nat /\ i \in Nat
      /\ n \in Nat /\ n + 1 \in 0 .. N /\ End(n + 1) \in Nat
  BY <1>4, HeaderTypes, TypeParts, ConstantTypes DEF Types
<1>7. PICK before, after : before = Len(downloadBuf) /\ after = Len(downloadBuf')
  OBVIOUS
<1>8. /\ after = before - (l + 2) /\ after \in Nat /\ before \in Nat /\ after = arrived - End(n + 1)
      /\ \A j \in 1 .. after : downloadBuf'[j] = downloadBuf[l + 2 + j]
  <2>1. l + 2 \in Nat /\ l + 2 <= before /\ before \in Nat /\ before = arrived - (End(n) + 3)
    BY <1>4, <1>6, <1>7
  <2>2. /\ after = IF l + 2 <= before THEN before - (l + 2) ELSE 0
        /\ \A j \in 1 .. after : downloadBuf'[j] = downloadBuf[(l + 2) + j]
    BY <1>1, <1>5, <1>7, <2>1, RestOfBuffer
  <2>3. after = before - (l + 2) /\ (l + 2) = l + 2 /\ after \in Nat
    BY <2>1, <2>2
  <2>4. after = arrived - End(n + 1)
    <3>1. arrived \in Nat /\ End(n) \in Nat /\ l \in Nat /\ End(n + 1) = End(n) + l + 5
      BY <1>4, <1>6
    <3> QED
      BY <2>1, <2>3, <3>1
  <2> QED
    BY <2>1, <2>2, <2>3, <2>4, Zenon
<1>9. Holds(0, End(n + 1))'
  <2>1. after = 0 + arrived' - End(n + 1)
    BY <1>1, <1>6, <1>8
  <2>2. ASSUME NEW j \in 1 .. after
        PROVE  downloadBuf'[j] = IF j <= 0 THEN LF ELSE Stream[End(n + 1) + j - 0]
    <3>1. /\ l + 2 + j \in 1 .. before /\ ~ j <= 0
          /\ End(n) + 3 + (l + 2 + j) = End(n + 1) + j - 0
      <4>1. /\ End(n) \in Nat /\ l \in Nat /\ End(n + 1) = End(n) + l + 5
            /\ after = before - (l + 2) /\ after \in Nat /\ before \in Nat
        BY <1>4, <1>6, <1>8
      <4> QED
        BY <4>1
    <3> QED
      BY <1>4, <1>7, <1>8, <3>1
  <2> QED
    BY <1>7, <2>1, <2>2 DEF Holds
<1>10. lag' = lag
  <2>1. lag = sz - i - before /\ lag' = sz - (i + l + 2) - after
    BY <1>1, <1>4, <1>7 DEF lag, bodyPos
  <2>2. /\ sz \in Nat /\ i \in Nat /\ l \in Nat
        /\ after = before - (l + 2) /\ after \in Nat /\ before \in Nat
    BY <1>4, <1>6, <1>8
  <2> QED
    BY <2>1, <2>2
<1>11. AtHeader(n + 1)'
  <2>1. Len(downloadBuf') + End(n + 1) - arrived' = 0 /\ Len(downloadBuf') + End(n + 1) = arrived'
    <3>1. after + End(n + 1) - arrived = 0 /\ after + End(n + 1) = arrived
      BY <1>6, <1>8
    <3> QED
      BY <1>1, <1>7, <3>1
  <2>2. lag' >= 0 /\ (lag' > 0 => c_i' = LF /\ c_j' = LF)
    BY <1>1, <1>4, <1>5, <1>10
  <2>3. End(n + 1) <= arrived' /\ pc' = "parse" /\ chunked_message_length' = 0
    BY <1>1, <1>4
  <2>4. HeaderMargin(n + 1)'
    <3> SUFFICES ASSUME NEW k \in n + 1 .. N - 1, End(k) < arrived, arrived < End(k + 1)
                 PROVE  IF arrived < End(k) + 3 THEN k = n + 1 /\ lag = 0
                        ELSE arrived + lag + (k - (n + 1) + 1) < End(k + 1)
      BY <1>1, <1>10 DEF HeaderMargin
    <3>1. k \in n .. N - 1 /\ k - (n + 1) + 1 = k - n
      BY <1>6
    <3>2. IF arrived < End(k) + 3 THEN k = n + 1 /\ lag = 0
          ELSE arrived + lag + (k - n) < End(k + 1)
      BY <1>4, <3>1 DEF BodyMargin
    <3> QED
      BY <3>1, <3>2
  <2> QED
    BY <1>5, <1>9, <2>1, <2>2, <2>3, <2>4 DEF AtHeader
<1>12. DeliveredTo(n + 1)'
  <2>1. /\ lost \subseteq 1 .. n
        /\ Len(receivedDataBuffer) = Cardinality(Whole(n))
        /\ \A j \in Whole(n) : receivedDataBuffer[Cardinality(Whole(j))] = Payloads[j]
        /\ numberErroredChunks = 0
    BY DEF DeliveredTo
  <2>2. n + 1 \notin lost /\ lost' \subseteq 1 .. n + 1
    BY <1>1, <1>6, <2>1
  <2>3. /\ Whole(n + 1) = Whole(n) \cup {n + 1}
        /\ Cardinality(Whole(n + 1)) = Cardinality(Whole(n)) + 1
    BY <1>6, <2>2, WholeNext
  <2>4. \A j : Whole(j)' = Whole(j)
    BY <1>1 DEF Whole
  <2>5. PICK c : c = Cardinality(Whole(n))
    OBVIOUS
  <2>6. c \in Nat
    BY <1>6, <2>5, WholeCount
  <2>7. /\ Len(receivedDataBuffer') = c + 1 /\ receivedDataBuffer'[c + 1] = Payloads[n + 1]
        /\ \A k \in 1 .. c : receivedDataBuffer'[k] = receivedDataBuffer[k]
    <3>1. receivedDataBuffer \in Seq(Seq(Char)) /\ Payloads[n + 1] \in Seq(Char)
      BY <1>4, ChunkInStream, TypeParts DEF Types
    <3> QED
      BY <1>5, <2>1, <2>5, <2>6, <3>1, AppendProperties
  <2>8. ASSUME NEW j \in Whole(n + 1)
        PROVE  receivedDataBuffer'[Cardinality(Whole(j))] = Payloads[j]
    <3>1. CASE j = n + 1
      BY <2>3, <2>5, <2>7, <3>1
    <3>2. CASE j \in Whole(n)
      <4>1. Cardinality(Whole(j)) \in 1 .. c
        BY <1>6, <2>5, <3>2, WholeBefore
      <4> QED
        BY <2>1, <2>7, <3>2, <4>1
    <3> QED
      BY <2>3, <3>1, <3>2
  <2> QED
    BY <1>5, <2>1, <2>2, <2>3, <2>4, <2>5, <2>7, <2>8 DEF DeliveredTo
<1> QED
  BY <1>6, <1>11, <1>12

LEMMA ParserNext == ASSUME TypeOK, ParserInv, [Next]_vars PROVE ParserInv'
<1> SUFFICES ASSUME ~cutShort' PROVE InStep'
  BY DEF ParserInv
<1>0. InStep
  <2>1. ~cutShort
    BY DEF Next, vars, Receive, Reconnect, EndOfBuffer, ReadHeader, WaitForBody, ReadBody
  <2> QED
    BY <2>1 DEF ParserInv
<1>1. PICK n \in 0 .. N : DeliveredTo(n) /\ (AtHeader(n) \/ AtBody(n))
  BY <1>0 DEF InStep
<1>2. CASE Receive
  <2>1. DeliveredTo(n)'
    BY <1>1, <1>2, SameDelivered DEF Receive, counts
  <2> QED
    BY <1>1, <1>2, <2>1, ReceiveInv DEF InStep
<1>3. CASE Reconnect
  BY <1>1, <1>3, ReconnectInv
<1>4. CASE EndOfBuffer
  <2>1. DeliveredTo(n)'
    BY <1>1, <1>4, SameDelivered DEF EndOfBuffer, counts
  <2> QED
    BY <1>1, <1>4, <2>1, EndOfBufferInv DEF InStep
<1>5. CASE ReadHeader
  <2>1. AtBody(n)' /\ DeliveredTo(n)'
    BY <1>1, <1>5, ReadHeaderInv, SameDelivered
  <2> QED
    BY <1>1, <2>1 DEF InStep
<1>6. CASE WaitForBody
  <2>1. DeliveredTo(n)'
    BY <1>1, <1>6, SameDelivered DEF WaitForBody, counts
  <2> QED
    BY <1>1, <1>6, <2>1, WaitForBodyInv DEF InStep
<1>7. CASE ReadBody
  BY <1>1, <1>7, ReadBodyInv DEF InStep
<1>8. CASE UNCHANGED vars
  <2>1. DeliveredTo(n)'
    BY <1>1, <1>8, SameDelivered DEF vars, counts
  <2>2. AtHeader(n)' \/ AtBody(n)'
    BY <1>1, <1>8 DEF vars, AtHeader, AtBody, Holds, lag, HeaderMargin, BodyMargin
  <2> QED
    BY <1>1, <2>1, <2>2 DEF InStep
<1> QED
  BY <1>2, <1>3, <1>4, <1>5, <1>6, <1>7, <1>8 DEF Next

(* However many reads it takes and wherever they end, and whatever          *)
(* connections are lost: as long as no read has ended where the lagging     *)
(* index can bite, every message that no reconnection cut is handed on, in  *)
(* order and as it was sent, and no error is counted (read_chunked_stream). *)
THEOREM ChunksAreDelivered == Spec => []EveryChunkDelivered
<1>1. ParserInv /\ TypeOK => EveryChunkDelivered
  <2> SUFFICES ASSUME InStep, TypeOK, pc = "wait"
               PROVE  /\ numberErroredChunks = 0
                      /\ \A k \in 0 .. N : arrived = End(k) =>
                            /\ Len(receivedDataBuffer) = Cardinality(Whole(k))
                            /\ \A j \in Whole(k) :
                                  receivedDataBuffer[Cardinality(Whole(j))] = Payloads[j]
    BY DEF ParserInv, EveryChunkDelivered, N, End
  <2>1. PICK n \in 0 .. N : DeliveredTo(n) /\ (AtHeader(n) \/ AtBody(n))
    BY DEF InStep
  <2>2. ASSUME NEW k \in 0 .. N, arrived = End(k) PROVE k = n
    <3>1. arrived \in ChunkEnds /\ arrived \in Nat /\ End(n) \in Nat /\ End(n) <= arrived
      <4>1. End(n) <= arrived \/ End(n) + 3 <= arrived
        BY <2>1 DEF AtHeader, AtBody
      <4>2. arrived \in Nat
        BY TypeParts DEF Types
      <4>3. End(n) \in Nat
        BY ConstantTypes
      <4>4. arrived \in ChunkEnds
        BY <2>2 DEF ChunkEnds, End, N
      <4> QED
        BY <4>1, <4>2, <4>3, <4>4
    <3>2. ~ End(n) < arrived
      <4> SUFFICES ASSUME End(n) < arrived PROVE FALSE
        OBVIOUS
      <4>1. n \in 0 .. N - 1 /\ End(n + 1) <= arrived
        BY <3>1, NextEnd
      <4>2. PICK l : l = Len(Payloads[n + 1])
        OBVIOUS
      <4>3. l \in 1 .. 9 /\ End(n + 1) = End(n) + l + 5
        BY <4>1, <4>2, ChunkInStream
      <4>4. arrived <= End(n) + 2 \/ arrived < End(n + 1)
        BY <2>1 DEF AtHeader, AtBody
      <4> QED
        BY <3>1, <4>1, <4>3, <4>4
    <3>3. End(k) = End(n)
      BY <2>2, <3>1, <3>2
    <3>4. /\ k \in Nat /\ n \in Nat /\ End(k) \in Nat
          /\ k < n => End(k) < End(n)
          /\ n < k => End(n) < End(k)
      BY ConstantTypes
    <3> QED
      BY <3>1, <3>3, <3>4
  <2> QED
    BY <2>1, <2>2 DEF DeliveredTo
<1> QED
  BY <1>1, ParserInit, ParserNext, TypeCorrect, PTL DEF Spec
==============================================================================

-------------------------- MODULE NtripUploadProofs --------------------------
(***************************************************************************)
(* Theorems about NtripUpload, for any number of chain slots, endpoints    *)
(* and sends.                                                              *)
(***************************************************************************)
EXTENDS NtripUpload, TLAPS

------------------------------------------------------------------------------
(* The queue of handlers, as a sequence.                                   *)

In(q, h) == \E i \in DOMAIN q : q[i] = h

Once(q, h) == \E i \in DOMAIN q :
                 /\ q[i] = h
                 /\ \A j \in DOMAIN q : q[j] = h => j = i

LEMMA ShortQueues ==
    ASSUME NEW S, NEW x \in S, NEW h
    PROVE  /\ << >> \in Seq(S) /\ ~In(<< >>, h)
           /\ << x >> \in Seq(S) /\ Once(<< x >>, x)
           /\ h # x => ~In(<< x >>, h)
BY DEF In, Once

(* Posting a handler adds that one to the queue.                           *)
LEMMA AppendQueue ==
    ASSUME NEW S, NEW q \in Seq(S), NEW x \in S, NEW h
    PROVE  /\ Append(q, x) \in Seq(S)
           /\ In(Append(q, x), h) <=> In(q, h) \/ h = x
           /\ x = h /\ ~In(q, h) => Once(Append(q, x), h)
           /\ x # h /\ Once(q, h) => Once(Append(q, x), h)
<1> DEFINE r == Append(q, x)
<1>1. /\ r \in Seq(S)
      /\ Len(r) = Len(q) + 1
      /\ DOMAIN q = 1 .. Len(q)
      /\ DOMAIN r = 1 .. Len(r)
      /\ Len(q) \in Nat
      /\ r[Len(q) + 1] = x
      /\ \A i \in 1 .. Len(q) : r[i] = q[i]
    OBVIOUS
<1> HIDE DEF r
<1>2. In(r, h) <=> In(q, h) \/ h = x
    <2>1. In(r, h) => In(q, h) \/ h = x
        BY <1>1 DEF In
    <2>2. In(q, h) => In(r, h)
        BY <1>1 DEF In
    <2>3. h = x => In(r, h)
        BY <1>1, Len(q) + 1 \in DOMAIN r DEF In
    <2> QED BY <2>1, <2>2, <2>3
<1>3. ASSUME x = h, ~In(q, h) PROVE Once(r, h)
    <2>1. \A j \in DOMAIN r : r[j] = h => j = Len(q) + 1
        BY <1>1, <1>3 DEF In
    <2> QED BY <1>1, <1>3, <2>1, Len(q) + 1 \in DOMAIN r DEF Once
<1>4. ASSUME x # h, Once(q, h) PROVE Once(r, h)
    <2>1. PICK i \in DOMAIN q : q[i] = h /\ \A j \in DOMAIN q : q[j] = h => j = i
        BY <1>4 DEF Once
    <2>2. i \in DOMAIN r /\ r[i] = h
        BY <1>1, <2>1
    <2>3. \A j \in DOMAIN r : r[j] = h => j = i
        BY <1>1, <1>4, <2>1
    <2> QED BY <2>2, <2>3 DEF Once
<1> QED BY <1>1, <1>2, <1>3, <1>4 DEF r

(* Taking the handler at the head leaves the others where they are.        *)
LEMMA TailQueue ==
    ASSUME NEW S, NEW q \in Seq(S), q # << >>, NEW h
    PROVE  /\ Tail(q) \in Seq(S)
           /\ In(Tail(q), h) => In(q, h)
           /\ Head(q) # h => (In(q, h) => In(Tail(q), h))
           /\ Head(q) # h => (Once(q, h) => Once(Tail(q), h))
           /\ Head(q) = h => (Once(q, h) => ~In(Tail(q), h))
<1> DEFINE r == Tail(q)
<1>1. /\ r \in Seq(S)
      /\ Len(q) \in Nat \ {0}
      /\ Len(r) = Len(q) - 1
      /\ DOMAIN q = 1 .. Len(q)
      /\ DOMAIN r = 1 .. Len(r)
      /\ \A i \in 1 .. Len(r) : r[i] = q[i + 1]
      /\ Head(q) = q[1]
    OBVIOUS
<1> HIDE DEF r
<1>2. In(r, h) => In(q, h)
    BY <1>1 DEF In
<1>3. ASSUME Head(q) # h, In(q, h) PROVE In(r, h)
    <2>1. PICK i \in DOMAIN q : q[i] = h
        BY <1>3 DEF In
    <2>2. i - 1 \in DOMAIN r /\ r[i - 1] = h
        BY <1>1, <1>3, <2>1
    <2> QED BY <2>2 DEF In
<1>4. ASSUME Head(q) # h, Once(q, h) PROVE Once(r, h)
    <2>1. PICK i \in DOMAIN q : q[i] = h /\ \A j \in DOMAIN q : q[j] = h => j = i
        BY <1>4 DEF Once
    <2>2. i - 1 \in DOMAIN r /\ r[i - 1] = h
        BY <1>1, <1>4, <2>1
    <2>3. \A j \in DOMAIN r : r[j] = h => j = i - 1
        BY <1>1, <2>1
    <2> QED BY <2>2, <2>3 DEF Once
<1>5. ASSUME Head(q) = h, Once(q, h) PROVE ~In(r, h)
    BY <1>1, <1>5 DEF In, Once
<1> QED BY <1>1, <1>2, <1>3, <1>4, <1>5 DEF r

(* Posting several handlers at once.                                       *)
LEMMA ConcatQueue ==
    ASSUME NEW S, NEW q \in Seq(S), NEW t \in Seq(S), NEW h
    PROVE  /\ q \o t \in Seq(S)
           /\ In(q \o t, h) <=> In(q, h) \/ In(t, h)
           /\ Once(q, h) /\ ~In(t, h) => Once(q \o t, h)
           /\ ~In(q, h) /\ Once(t, h) => Once(q \o t, h)
<1> DEFINE r == q \o t
<1>1. /\ r \in Seq(S)
      /\ Len(q) \in Nat /\ Len(t) \in Nat
      /\ Len(r) = Len(q) + Len(t)
      /\ DOMAIN q = 1 .. Len(q)
      /\ DOMAIN t = 1 .. Len(t)
      /\ DOMAIN r = 1 .. Len(r)
      /\ \A i \in 1 .. Len(q) : r[i] = q[i]
      /\ \A i \in 1 .. Len(t) : r[Len(q) + i] = t[i]
    OBVIOUS
<1> HIDE DEF r
<1>2. \A j \in DOMAIN r : \/ j \in DOMAIN q /\ r[j] = q[j]
                          \/ /\ j - Len(q) \in DOMAIN t
                             /\ r[j] = t[j - Len(q)]
    <2> TAKE j \in DOMAIN r
    <2>1. CASE j <= Len(q)
        BY <1>1, <2>1
    <2>2. CASE j > Len(q)
        <3>1. j - Len(q) \in 1 .. Len(t) /\ j = Len(q) + (j - Len(q))
            BY <1>1, <2>2
        <3> QED BY <1>1, <3>1
    <2> QED BY <1>1, <2>1, <2>2
<1>3. In(r, h) <=> In(q, h) \/ In(t, h)
    <2>1. In(r, h) => In(q, h) \/ In(t, h)
        BY <1>2 DEF In
    <2>2. In(q, h) => In(r, h)
        BY <1>1 DEF In
    <2>3. ASSUME In(t, h) PROVE In(r, h)
        <3>1. PICK i \in DOMAIN t : t[i] = h
            BY <2>3 DEF In
        <3>2. Len(q) + i \in DOMAIN r /\ r[Len(q) + i] = h
            BY <1>1, <3>1
        <3> QED BY <3>2 DEF In
    <2> QED BY <2>1, <2>2, <2>3
<1>4. ASSUME Once(q, h), ~In(t, h) PROVE Once(r, h)
    <2>1. PICK i \in DOMAIN q : q[i] = h /\ \A j \in DOMAIN q : q[j] = h => j = i
        BY <1>4 DEF Once
    <2>2. i \in DOMAIN r /\ r[i] = h
        BY <1>1, <2>1
    <2>3. \A j \in DOMAIN r : r[j] = h => j = i
        BY <1>2, <1>4, <2>1 DEF In
    <2> QED BY <2>2, <2>3 DEF Once
<1>5. ASSUME ~In(q, h), Once(t, h) PROVE Once(r, h)
    <2>1. PICK i \in DOMAIN t : t[i] = h /\ \A j \in DOMAIN t : t[j] = h => j = i
        BY <1>5 DEF Once
    <2>2. Len(q) + i \in DOMAIN r /\ r[Len(q) + i] = h
        BY <1>1, <2>1
    <2>3. \A j \in DOMAIN r : r[j] = h => j = Len(q) + i
        <3> SUFFICES ASSUME NEW j \in DOMAIN r, r[j] = h
                     PROVE  j = Len(q) + i
            OBVIOUS
        <3>1. j - Len(q) \in DOMAIN t /\ t[j - Len(q)] = h
            BY <1>2, <1>5 DEF In
        <3>2. j - Len(q) = i
            BY <2>1, <3>1
        <3> QED BY <1>1, <3>2
    <2> QED BY <2>2, <2>3 DEF Once
<1> QED BY <1>1, <1>3, <1>4, <1>5 DEF r

------------------------------------------------------------------------------
(* Type correctness.  The type of `endpoints' is preserved because a name  *)
(* that is being resolved has all its endpoints left to try.  A chain that *)
(* has ended has no status.                                                *)
ChainsWellFormed ==
    \A c \in Chains :
        /\ chain[c].op = "resolve" => chain[c].endpoints = NumEndpoints
        /\ chain[c].op = "none" => chain[c].status = "none"

(* ... and that of `taken', because a send that waits for the mutex is one *)
(* of the MaxSends.                                                        *)
SendsLeft == mainPc = "lock" => taken < MaxSends

TypeInv == TypeOK /\ ChainsWellFormed

ChainOps == Operations \ {"none", "resolve"}

ChainRecords == [op : Operations, endpoints : 0 .. NumEndpoints,
                 status : Statuses]

LEMMA StatusOfOperation ==
    ASSUME NEW op
    PROVE  StartStatus(op) \in {"waiting", "ok", "err"}
BY DEF StartStatus

(* A socket that is closed or destroyed queues the handlers of chains that *)
(* are in use, and the write's if one was outstanding, once.               *)
LEMMA AbortedQueue ==
    ASSUME TypeOK
    PROVE  /\ AbortedHandlers \in Seq(Handlers)
           /\ outWrite = "waiting" => Once(AbortedHandlers, "write")
           /\ outWrite # "waiting" => ~In(AbortedHandlers, "write")
<1> DEFINE reads == \E c \in Chains : OnSocket(c) /\ chain[c].op = "read"
           retry == \E c \in Chains : RetriesWhenAborted(c)
           first == CHOOSE c \in Chains : RetriesWhenAborted(c)
           p == IF reads THEN << "abortedRead" >> ELSE << >>
           q == IF retry THEN << first >> ELSE << >>
           t == IF outWrite = "waiting" THEN << "write" >> ELSE << >>
<1>1. AbortedHandlers = p \o q \o t
    BY DEF AbortedHandlers
<1>2. p \in Seq(Handlers) /\ ~In(p, "write")
    BY ShortQueues, "abortedRead" \in Handlers DEF Handlers
<1>3. q \in Seq(Handlers) /\ ~In(q, "write")
    <2>1. CASE retry
        <3>1. first \in Handlers /\ first # "write"
            BY <2>1, ConstantsAssumption DEF Handlers
        <3> HIDE DEF first
        <3> QED BY <2>1, <3>1, ShortQueues
    <2>2. CASE ~retry
        BY <2>2, ShortQueues DEF Handlers
    <2> QED BY <2>1, <2>2
<1>4. /\ t \in Seq(Handlers)
      /\ outWrite = "waiting" => Once(t, "write")
      /\ outWrite # "waiting" => ~In(t, "write")
    BY ShortQueues, "write" \in Handlers DEF Handlers
<1> HIDE DEF p, q, t
<1>5. p \o q \in Seq(Handlers) /\ ~In(p \o q, "write")
    BY <1>2, <1>3, ConcatQueue
<1> QED BY <1>1, <1>4, <1>5, ConcatQueue

(* What disconnect() leaves in `chain' and in the queue is well typed.     *)
LEMMA DisconnectType ==
    ASSUME TypeInv, NEW done \in SUBSET Chains, Disconnect(done)
    PROVE  /\ chain' \in [Chains -> ChainRecords]
           /\ ChainsWellFormed'
           /\ socket' \in {"closed", "connecting", "up", "dead"}
           /\ request' \in 0 .. 2
           /\ response' \in {"none", "200", "refused"}
           /\ requested' \in BOOLEAN /\ stray' \in BOOLEAN
           /\ HandlersOfDisconnect \in Seq(Handlers)
           /\ WriteAfterDisconnect \in Statuses
<1>1. HandlersOfDisconnect \in Seq(Handlers)
    BY AbortedQueue DEF HandlersOfDisconnect, TypeInv
<1>2. WriteAfterDisconnect \in Statuses
    BY DEF WriteAfterDisconnect, AbortedWrite, Statuses, TypeInv, TypeOK
<1>3. ASSUME NEW c \in Chains
      PROVE  AbortedChain(c) \in ChainRecords
    <2>1. chain[c] \in ChainRecords
        BY DEF ChainRecords, TypeInv, TypeOK
    <2>2. [chain[c] EXCEPT !.status = "err"] \in ChainRecords
        BY <2>1 DEF ChainRecords, Statuses
    <2>3. NoOp \in ChainRecords
        BY ConstantsAssumption DEF NoOp, ChainRecords, Operations, Statuses
    <2> QED BY <2>2, <2>3 DEF AbortedChain
<1>4. \A c \in Chains : /\ AbortedChain(c).op # "resolve"
                        /\ AbortedChain(c).op = "none" =>
                               AbortedChain(c).status = "none"
    BY DEF AbortedChain, RetriesWhenAborted, OnSocket, NoOp, TypeInv, TypeOK
<1>5. NoOp \in ChainRecords /\ NoOp.op # "resolve" /\ NoOp.status = "none"
    BY ConstantsAssumption DEF NoOp, ChainRecords, Operations, Statuses
<1>6. chain' \in [Chains -> ChainRecords]
    BY <1>3, <1>5 DEF Disconnect, TypeInv, TypeOK, ChainRecords
<1>7. ChainsWellFormed'
    BY <1>4, <1>5 DEF Disconnect, TypeInv, ChainsWellFormed
<1>8. socket' \in {"closed", "connecting", "up", "dead"}
    BY DEF Disconnect, ShutdownSucceeds, TypeInv, TypeOK
<1>9. request' \in 0 .. 2
    BY DEF Disconnect
<1>10. response' \in {"none", "200", "refused"}
    BY DEF Disconnect
<1>11. requested' \in BOOLEAN /\ stray' \in BOOLEAN
    BY Zenon DEF Disconnect
<1> QED BY <1>1, <1>2, <1>6, <1>7, <1>8, <1>9, <1>10, <1>11

LEMMA DelayedReconnectType ==
    ASSUME TypeInv, NEW done \in SUBSET Chains, NEW q \in Seq(Handlers),
           DelayedReconnect(done, q)
    PROVE  TypeInv'
<1>1. Disconnect(done)
    BY DEF DelayedReconnect
<1>2. ready' \in Seq(Handlers)
    BY <1>1, DisconnectType, ConcatQueue DEF DelayedReconnect
<1> QED BY <1>1, <1>2, DisconnectType
        DEF DelayedReconnect, TypeInv, TypeOK, ChainRecords

LEMMA KeepGoingType ==
    ASSUME TypeInv, NEW c \in Chains, NEW op \in ChainOps,
           NEW n \in 0 .. NumEndpoints, ready # << >>, KeepGoing(c, op, n),
           response' \in {"none", "200", "refused"}, isConnected' \in BOOLEAN,
           stray' \in BOOLEAN, UNCHANGED requested
    PROVE  TypeInv'
<1>1. StartStatus(op) \in Statuses
    BY StatusOfOperation DEF Statuses
<1>2. ready' \in Seq(Handlers)
    <2>1. Tail(ready) \in Seq(Handlers)
        BY TailQueue DEF TypeInv, TypeOK
    <2> QED BY <2>1, AppendQueue DEF KeepGoing, StartOp, Handlers
<1>3. chain' \in [Chains -> ChainRecords]
    BY <1>1 DEF KeepGoing, StartOp, TypeInv, TypeOK, ChainRecords, ChainOps
<1>4. ChainsWellFormed'
    BY DEF ChainOps, KeepGoing, StartOp, TypeInv, TypeOK, ChainsWellFormed
<1> QED BY <1>2, <1>3, <1>4
        DEF KeepGoing, StartOp, outVars, TypeInv, TypeOK, ChainRecords

LEMMA ChainStepType ==
    ASSUME TypeInv, NEW c \in Chains,
           \/ HandleResolve(c)      \/ HandleConnect(c)
           \/ HandleSslHandshake(c) \/ HandleWriteRequest(c)
           \/ ReadChunkedStream(c)
    PROVE  TypeInv'
<1>1. CASE GiveUp(c) /\ ready # << >>
    BY <1>1, DelayedReconnectType, TailQueue DEF GiveUp, TypeInv, TypeOK
<1>2. ASSUME NEW op \in ChainOps, NEW n \in 0 .. NumEndpoints,
             KeepGoing(c, op, n), ready # << >>,
             UNCHANGED stray \/ stray' \in BOOLEAN,
             UNCHANGED <<response, requested, isConnected>>
      PROVE  TypeInv'
    <2>1. stray' \in BOOLEAN
        BY <1>2, Zenon DEF TypeInv, TypeOK
    <2> QED BY <1>2, <2>1, KeepGoingType DEF TypeInv, TypeOK
<1>3. chain[c].endpoints \in 0 .. NumEndpoints
    BY DEF TypeInv, TypeOK
<1>4. ASSUME chain[c].endpoints # 0
      PROVE  chain[c].endpoints - 1 \in 0 .. NumEndpoints
    BY <1>3, <1>4, ConstantsAssumption
<1>5. CASE HandleResolve(c)
    <2>1. Handling(c, "resolve", "ok") => chain[c].endpoints # 0
        BY ConstantsAssumption DEF Handling, TypeInv, ChainsWellFormed
    <2>2. "connect" \in ChainOps
        BY DEF ChainOps, Operations
    <2> QED BY <1>1, <1>2, <1>4, <1>5, <2>1, <2>2
            DEF HandleResolve, Handling, Runs
<1>6. CASE HandleConnect(c)
    <2>1. {"connect", "handshake", "writeRequest"} \subseteq ChainOps
        BY DEF ChainOps, Operations
    <2>2. CASE HandleConnected(c)
        BY <1>2, <1>3, <2>1, <2>2 DEF HandleConnected, Handling, Runs
    <2>3. CASE TryNextEndpoint(c)
        <3>1. chain[c].endpoints # 0
            BY <2>3 DEF TryNextEndpoint, MoreEndpoints
        <3> QED BY <1>2, <1>4, <2>1, <2>3, <3>1
                DEF TryNextEndpoint, Handling, Runs
    <2>4. CASE NoEndpointLeft(c)
        BY <1>1, <2>4 DEF NoEndpointLeft, Handling, Runs
    <2> QED BY <1>6, <2>2, <2>3, <2>4 DEF HandleConnect
<1>7. CASE HandleSslHandshake(c)
    BY <1>1, <1>2, <1>3, <1>7, "writeRequest" \in ChainOps
    DEF HandleSslHandshake, Handling, Runs, ChainOps, Operations
<1>8. CASE HandleWriteRequest(c)
    BY <1>1, <1>2, <1>3, <1>8, "readResponse" \in ChainOps
    DEF HandleWriteRequest, Handling, Runs, ChainOps, Operations
<1>9. CASE ReadChunkedStream(c)
    BY <1>1, <1>2, <1>3, <1>9, "read" \in ChainOps
    DEF ReadChunkedStream, Handling, Runs, ChainOps, Operations
<1> QED BY <1>5, <1>6, <1>7, <1>8, <1>9

LEMMA ResponseType ==
    ASSUME TypeInv, NEW c \in Chains, HandleRequestResponse(c)
    PROVE  TypeInv'
<1> USE DEF HandleRequestResponse
<1>1. ready # << >>
    BY DEF Handling, Runs
<1>2. CASE GiveUp(c)
    BY <1>1, <1>2, DelayedReconnectType, TailQueue DEF GiveUp, TypeInv, TypeOK
<1>3. CASE /\ response' = "none" /\ isConnected' = TRUE
           /\ UNCHANGED <<stray, requested>>
           /\ KeepGoing(c, "read", chain[c].endpoints)
    <2>1. chain[c].endpoints \in 0 .. NumEndpoints
        BY DEF TypeInv, TypeOK
    <2>2. "read" \in ChainOps
        BY DEF ChainOps, Operations
    <2>3. isConnected' \in BOOLEAN
        BY <1>3, Zenon
    <2>4. response' \in {"none", "200", "refused"}
        BY <1>3
    <2>5. stray' \in BOOLEAN
        BY <1>3 DEF TypeInv, TypeOK
    <2> QED BY <1>1, <1>3, <2>1, <2>2, <2>3, <2>4, <2>5, KeepGoingType
<1>4. CASE /\ response' = "none" /\ isConnected' = TRUE
           /\ lifetime' = "terminated"
           /\ UNCHANGED <<chain, ready, timerArmed, socket, request, outVars,
                          mainPc, ioPc, stray, requested>>
    BY <1>4 DEF TypeInv, TypeOK, ChainsWellFormed, outVars
<1> QED BY <1>2, <1>3, <1>4

(* A new chain starts in one of the slots.                                 *)
LEMMA NewChain ==
    ASSUME NEW ch, FreeSlots(ch) # {}
    PROVE  \E c \in Chains : WithNewChain(ch) = [ch EXCEPT ![c] = FirstOp]
<1> DEFINE c == CHOOSE d \in FreeSlots(ch) : TRUE
<1>1. c \in FreeSlots(ch)
    OBVIOUS
<1>2. c \in Chains
    BY <1>1 DEF FreeSlots
<1>3. WithNewChain(ch) = [ch EXCEPT ![c] = FirstOp]
    BY DEF WithNewChain
<1> QED BY <1>2, <1>3

(* ... and so does the first one.                                          *)
LEMMA FirstChain ==
    ASSUME Init
    PROVE  \E c \in Chains :
              chain = [d \in Chains |-> IF d = c THEN FirstOp ELSE NoOp]
<1> DEFINE none == [c \in Chains |-> NoOp]
<1>1. FreeSlots(none) # {}
    BY ConstantsAssumption DEF FreeSlots
<1>2. PICK c \in Chains : chain = [none EXCEPT ![c] = FirstOp]
    BY <1>1, NewChain DEF Init
<1> QED BY <1>2

LEMMA ReconnectType ==
    ASSUME TypeInv, HandleReconnect
    PROVE  TypeInv'
<1> DEFINE cancelled == [c \in Chains |->
                           IF OnSocket(c) THEN AbortedChain(c)
                           ELSE IF chain[c].status = "waiting" THEN NoOp
                           ELSE chain[c]]
<1>1. PICK c \in Chains : chain' = [cancelled EXCEPT ![c] = FirstOp]
    BY NewChain DEF HandleReconnect, Connect
<1>2. \A d \in Chains : /\ cancelled[d] \in ChainRecords
                        /\ cancelled[d].op = "resolve" =>
                               cancelled[d].endpoints = NumEndpoints
                        /\ cancelled[d].op = "none" =>
                               cancelled[d].status = "none"
    BY ConstantsAssumption
    DEF AbortedChain, RetriesWhenAborted, OnSocket, NoOp, ChainRecords, TypeInv,
        TypeOK, ChainsWellFormed, Operations, Statuses
<1>3. /\ FirstOp \in ChainRecords
      /\ FirstOp.op = "resolve"
      /\ FirstOp.endpoints = NumEndpoints
    BY ConstantsAssumption DEF FirstOp, ChainRecords, Operations, Statuses
<1>4. chain' \in [Chains -> ChainRecords] /\ ChainsWellFormed'
    <2>1. cancelled \in [Chains -> ChainRecords]
        BY <1>2
    <2> HIDE DEF cancelled
    <2> QED BY <1>1, <1>2, <1>3, <2>1 DEF ChainsWellFormed
<1>5. ready' \in Seq(Handlers)
    <2>1. Tail(ready) \in Seq(Handlers)
        BY TailQueue DEF HandleReconnect, Runs, TypeInv, TypeOK
    <2> QED BY <2>1, AbortedQueue, ConcatQueue
            DEF HandleReconnect, Connect, TypeInv
<1>6. request' \in 0 .. 2
    BY DEF HandleReconnect, Connect, AppendRequest, TypeInv, TypeOK
<1>7. outWrite' \in Statuses
    BY DEF HandleReconnect, Connect, AbortedWrite, Statuses, TypeInv, TypeOK
<1>8. requested' \in BOOLEAN
    BY Zenon DEF HandleReconnect, Connect
<1>9. socket' \in {"closed", "connecting", "up", "dead"}
    BY DEF HandleReconnect, Connect
<1> QED BY <1>4, <1>5, <1>6, <1>7, <1>8, <1>9
        DEF HandleReconnect, TypeInv, TypeOK, ChainRecords

LEMMA WriteHandlerType ==
    ASSUME TypeInv, WriteFailed \/ WriteSucceeded
    PROVE  TypeInv'
<1>1. ready' \in Seq(Handlers)
    <2>1. ready' = Tail(ready) /\ ready # << >>
        BY DEF WriteFailed, WriteSucceeded, Writing, Runs
    <2> QED BY <2>1, TailQueue DEF TypeInv, TypeOK
<1>2. outMessagesMtx' \in BOOLEAN
    BY Zenon DEF WriteFailed, WriteSucceeded
<1>3. outWrite' \in Statuses
    BY DEF WriteFailed, WriteSucceeded, Writing, Statuses
<1>4. numberChunksSent' \in Nat
    BY DEF WriteFailed, WriteSucceeded, TypeInv, TypeOK
<1>5. ioPc' \in {"run", "reconnect"}
    BY DEF WriteFailed, WriteSucceeded, TypeInv, TypeOK
<1>6. UNCHANGED <<chain, timerArmed, net, taken, mainPc, lifetime>>
    BY DEF WriteFailed, WriteSucceeded, Writing
<1> QED BY <1>1, <1>2, <1>3, <1>4, <1>5, <1>6
        DEF net, TypeInv, TypeOK, ChainsWellFormed

LEMMA MainThreadType ==
    ASSUME TypeInv, SendsLeft, MainThread
    PROVE  TypeInv'
<1>1. CASE SendMessages
    BY <1>1 DEF SendMessages, net, outVars, TypeInv, TypeOK, ChainsWellFormed
<1>2. CASE LockAndWrite
    <2>1. ready' \in Seq(Handlers)
        BY <1>2, AppendQueue, "write" \in Handlers
        DEF LockAndWrite, Handlers, TypeInv, TypeOK
    <2>2. outWrite' \in Statuses
        BY <1>2, StatusOfOperation DEF LockAndWrite, Statuses
    <2>3. outMessagesMtx' \in BOOLEAN
        BY <1>2, Zenon DEF LockAndWrite
    <2>4. taken' \in 0 .. MaxSends
        BY <1>2, ConstantsAssumption
        DEF LockAndWrite, SendsLeft, TypeInv, TypeOK
    <2>5. mainPc' \in {"idle", "lock"}
        BY <1>2 DEF LockAndWrite
    <2> QED BY <1>2, <2>1, <2>2, <2>3, <2>4, <2>5
            DEF LockAndWrite, net, TypeInv, TypeOK, ChainsWellFormed
<1>3. CASE StopBroadcast
    <2>1. Disconnect({})
        BY <1>3 DEF StopBroadcast
    <2>2. ready' \in Seq(Handlers)
        BY <1>3, <2>1, DisconnectType, ConcatQueue
        DEF StopBroadcast, TypeInv, TypeOK
    <2> QED BY <1>3, <2>1, <2>2, DisconnectType
            DEF StopBroadcast, TypeInv, TypeOK, ChainRecords
<1> QED BY <1>1, <1>2, <1>3 DEF MainThread

LEMMA ReactorType ==
    ASSUME TypeInv, Reactor
    PROVE  TypeInv'
<1>1. ASSUME NEW c \in Chains, NEW result \in {"ok", "err"}, Complete(c, result)
      PROVE  TypeInv'
    <2>1. chain' \in [Chains -> ChainRecords] /\ ChainsWellFormed'
        BY <1>1
        DEF Complete, ChainRecords, Statuses, TypeInv, TypeOK, ChainsWellFormed
    <2>2. ready' \in Seq(Handlers)
        BY <1>1, AppendQueue, c \in Handlers
        DEF Complete, Handlers, TypeInv, TypeOK
    <2>3. socket' \in {"closed", "connecting", "up", "dead"}
        BY <1>1 DEF Complete, TypeInv, TypeOK
    <2>4. request' \in 0 .. 2
        BY <1>1 DEF Complete, TypeInv, TypeOK
    <2>5. requested' \in BOOLEAN
        BY <1>1, Zenon DEF Complete, TypeInv, TypeOK
    <2>6. response' \in {"none", "200", "refused"}
        BY <1>1 DEF Complete, TypeInv, TypeOK
    <2>7. UNCHANGED <<timerArmed, stray, isConnected, outVars, mainPc, ioPc, lifetime>>
        BY <1>1 DEF Complete
    <2> QED BY <2>1, <2>2, <2>3, <2>4, <2>5, <2>6, <2>7
            DEF outVars, TypeInv, TypeOK, ChainRecords
<1>2. ASSUME NEW result \in {"ok", "err"}, CompleteWrite(result) PROVE TypeInv'
    <2>1. ready' \in Seq(Handlers)
        BY <1>2, AppendQueue, "write" \in Handlers
        DEF CompleteWrite, Handlers, TypeInv, TypeOK
    <2>2. outWrite' \in Statuses
        BY <1>2 DEF CompleteWrite, Statuses
    <2> QED BY <1>2, <2>1, <2>2
            DEF CompleteWrite, net, TypeInv, TypeOK, ChainsWellFormed
<1>3. CASE TimerExpires
    <2>1. ready' \in Seq(Handlers)
        BY <1>3, AppendQueue, "timer" \in Handlers
        DEF TimerExpires, Handlers, TypeInv, TypeOK
    <2>2. timerArmed' \in BOOLEAN
        BY <1>3, Zenon DEF TimerExpires
    <2> QED BY <1>3, <2>1, <2>2
            DEF TimerExpires, net, outVars, TypeInv, TypeOK, ChainsWellFormed
<1> QED BY <1>1, <1>2, <1>3 DEF Reactor

LEMMA InitType == Init => TypeInv
<1> SUFFICES ASSUME Init PROVE TypeInv
    OBVIOUS
<1>1. FirstOp \in ChainRecords /\ NoOp \in ChainRecords
    BY ConstantsAssumption DEF FirstOp, NoOp, ChainRecords, Operations, Statuses
<1>2. chain \in [Chains -> ChainRecords] /\ ChainsWellFormed
    BY <1>1, FirstChain DEF ChainsWellFormed, FirstOp, NoOp
<1>3. {timerArmed, stray, requested, isConnected, outMessagesMtx} \subseteq BOOLEAN
    BY Zenon DEF Init
<1>4. ready \in Seq(Handlers)
    BY DEF Init
<1> QED BY <1>2, <1>3, <1>4, ConstantsAssumption
        DEF Init, TypeInv, TypeOK, ChainRecords, Statuses

LEMMA NextType == TypeInv /\ SendsLeft /\ [Next]_vars => TypeInv'
<1> SUFFICES ASSUME TypeInv, SendsLeft, [Next]_vars PROVE TypeInv'
    OBVIOUS
<1>1. CASE IoThread
    <2>1. CASE ReconnectAfterWrite
        BY <2>1, DelayedReconnectType DEF ReconnectAfterWrite, TypeInv, TypeOK
    <2>2. CASE ReadAborted
        BY <2>2, TailQueue, Zenon
        DEF ReadAborted, Runs, outVars, TypeInv, TypeOK, ChainsWellFormed
    <2> QED BY <1>1, <2>1, <2>2, ReconnectType, WriteHandlerType, ChainStepType,
               ResponseType
            DEF IoThread
<1>2. CASE UNCHANGED vars
    BY <1>2 DEF vars, net, outVars, TypeInv, TypeOK, ChainsWellFormed
<1> QED BY <1>1, <1>2, MainThreadType, ReactorType DEF Next

(* Only sendMessages changes what the main thread owns.                    *)
LEMMA MainThreadOwns ==
    ASSUME [Next]_vars, ~SendMessages, ~LockAndWrite
    PROVE  UNCHANGED <<mainPc, taken>>
<1> USE DEF outVars, net
<1>1. ASSUME NEW c \in Chains, GiveUp(c)
      PROVE  UNCHANGED <<mainPc, taken>>
    BY <1>1 DEF GiveUp, DelayedReconnect
<1>2. ASSUME NEW c \in Chains, NEW op, NEW n, KeepGoing(c, op, n)
      PROVE  UNCHANGED <<mainPc, taken>>
    BY <1>2 DEF KeepGoing
<1>3. CASE IoThread
    <2>1. CASE \/ HandleReconnect     \/ WriteFailed
               \/ ReconnectAfterWrite \/ WriteSucceeded \/ ReadAborted
        BY <2>1
        DEF HandleReconnect, WriteFailed, ReconnectAfterWrite, WriteSucceeded,
            Writing, DelayedReconnect, ReadAborted
    <2>2. ASSUME NEW c \in Chains,
                 HandleResolve(c) \/ HandleConnect(c) \/ HandleSslHandshake(c)
          PROVE  UNCHANGED <<mainPc, taken>>
        BY <1>1, <1>2, <2>2
        DEF HandleResolve, HandleConnect, HandleConnected, TryNextEndpoint,
            NoEndpointLeft, HandleSslHandshake
    <2>3. ASSUME NEW c \in Chains,
                 \/ HandleWriteRequest(c)
                 \/ HandleRequestResponse(c)
                 \/ ReadChunkedStream(c)
          PROVE  UNCHANGED <<mainPc, taken>>
        BY <1>1, <1>2, <2>3
        DEF HandleWriteRequest, HandleRequestResponse, ReadChunkedStream
    <2> QED BY <1>3, <2>1, <2>2, <2>3 DEF IoThread
<1>4. CASE MainThread \/ Reactor
    BY <1>4 DEF MainThread, StopBroadcast, Reactor, Complete, CompleteWrite,
                TimerExpires
<1> QED BY <1>3, <1>4 DEF Next, vars

LEMMA NextSendsLeft == TypeInv /\ SendsLeft /\ [Next]_vars => SendsLeft'
<1> SUFFICES ASSUME TypeInv, SendsLeft, [Next]_vars PROVE SendsLeft'
    OBVIOUS
<1>1. CASE SendMessages
    BY <1>1 DEF SendMessages, outVars, SendsLeft
<1>2. CASE LockAndWrite
    BY <1>2 DEF LockAndWrite, SendsLeft
<1> QED BY <1>1, <1>2, MainThreadOwns DEF SendsLeft

LEMMA TypeInvariant == Spec => [](TypeInv /\ SendsLeft)
<1>1. Init => SendsLeft
    BY DEF Init, SendsLeft
<1> QED BY InitType, NextType, NextSendsLeft, <1>1, PTL DEF Spec

(* The variables of an upload client keep their types: in particular no    *)
(* handler dereferences the end of the resolver's list of endpoints.       *)
THEOREM TypeCorrect == Spec => []TypeOK
<1>1. TypeInv => TypeOK
    BY DEF TypeInv
<1> QED BY TypeInvariant, <1>1, PTL

------------------------------------------------------------------------------
(* The mutex.  A write with status w has its handler in queue q.           *)
WriteAt(q, w) ==
    /\ w \in {"ok", "err"} => Once(q, "write")
    /\ w \in {"none", "waiting"} => ~In(q, "write")

LEMMA MutexAndQueue ==
    MutexHandedOver <=> /\ outMessagesMtx <=> outWrite # "none"
                        /\ WriteAt(ready, outWrite)
BY DEF MutexHandedOver, WriteAt, InQueue, QueuedOnce, In, Once

LEMMA MutexAndQueueNext ==
    MutexHandedOver' <=> /\ outMessagesMtx' <=> outWrite' # "none"
                         /\ WriteAt(ready', outWrite')
BY DEF MutexHandedOver, WriteAt, InQueue, QueuedOnce, In, Once

(* Other handlers come and go without moving the write's.                  *)
LEMMA OtherHandlerRuns ==
    ASSUME TypeInv, NEW h, h # "write", ready # << >>, Head(ready) = h,
           WriteAt(ready, outWrite)
    PROVE  WriteAt(Tail(ready), outWrite)
BY TailQueue DEF WriteAt, TypeInv, TypeOK

LEMMA OtherHandlerPosted ==
    ASSUME NEW q \in Seq(Handlers), NEW h \in Handlers \ {"write"}, NEW w,
           WriteAt(q, w)
    PROVE  WriteAt(Append(q, h), w)
BY AppendQueue DEF WriteAt

(* Closing or replacing the socket fails an outstanding write, and queues  *)
(* its handler.                                                            *)
LEMMA AbortQueuesWrite ==
    ASSUME TypeInv, NEW q \in Seq(Handlers), WriteAt(q, outWrite)
    PROVE  /\ WriteAt(q \o AbortedHandlers, AbortedWrite)
           /\ AbortedWrite = "none" <=> outWrite = "none"
           /\ WriteAt(q \o HandlersOfDisconnect, WriteAfterDisconnect)
           /\ WriteAfterDisconnect = "none" <=> outWrite = "none"
<1>1. outWrite \in Statuses
    BY DEF TypeInv, TypeOK
<1>2. AbortedHandlers \in Seq(Handlers)
    BY AbortedQueue DEF TypeInv
<1>3. AbortedWrite = "none" <=> outWrite = "none"
    BY DEF AbortedWrite
<1>4. WriteAt(q \o AbortedHandlers, AbortedWrite)
    <2>1. CASE outWrite = "waiting"
        BY <1>2, <2>1, AbortedQueue, ConcatQueue
        DEF WriteAt, AbortedWrite, TypeInv
    <2>2. CASE outWrite # "waiting"
        BY <1>2, <2>2, AbortedQueue, ConcatQueue
        DEF WriteAt, AbortedWrite, TypeInv
    <2> QED BY <2>1, <2>2
<1>5. q \o << >> = q
    OBVIOUS
<1> QED BY <1>3, <1>4, <1>5 DEF HandlersOfDisconnect, WriteAfterDisconnect

LEMMA GiveUpHandsOver ==
    ASSUME TypeInv, MutexHandedOver, NEW done \in SUBSET Chains,
           NEW q \in Seq(Handlers), WriteAt(q, outWrite),
           DelayedReconnect(done, q)
    PROVE  MutexHandedOver'
<1>1. outMessagesMtx' <=> outWrite' # "none"
    BY AbortQueuesWrite, MutexAndQueue DEF DelayedReconnect
<1>2. WriteAt(ready', outWrite')
    BY AbortQueuesWrite DEF DelayedReconnect
<1> QED BY <1>1, <1>2, MutexAndQueueNext

LEMMA KeepGoingHandsOver ==
    ASSUME TypeInv, MutexHandedOver, NEW c \in Chains, NEW op, NEW n,
           ready # << >>, Head(ready) = c, KeepGoing(c, op, n)
    PROVE  MutexHandedOver'
<1>1. c \in Handlers \ {"write"}
    BY ConstantsAssumption DEF Handlers
<1>2. Tail(ready) \in Seq(Handlers) /\ WriteAt(Tail(ready), outWrite)
    BY <1>1, TailQueue, OtherHandlerRuns, MutexAndQueue DEF TypeInv, TypeOK
<1>3. WriteAt(ready', outWrite)
    BY <1>1, <1>2, OtherHandlerPosted DEF KeepGoing, StartOp
<1> QED BY <1>3, MutexAndQueue, MutexAndQueueNext DEF KeepGoing, outVars

LEMMA IoThreadHandsOver ==
    ASSUME TypeInv, MutexHandedOver, IoThread
    PROVE  MutexHandedOver'
<1>1. ASSUME NEW c \in Chains, GiveUp(c), ready # << >>, Head(ready) = c
      PROVE  MutexHandedOver'
    <2>1. c # "write"
        BY ConstantsAssumption
    <2>2. Tail(ready) \in Seq(Handlers) /\ WriteAt(Tail(ready), outWrite)
        BY <1>1, <2>1, TailQueue, OtherHandlerRuns, MutexAndQueue
        DEF TypeInv, TypeOK
    <2> QED BY <1>1, <2>2, GiveUpHandsOver DEF GiveUp
<1>2. ASSUME NEW c \in Chains,
             \/ HandleResolve(c)      \/ HandleConnect(c)
             \/ HandleSslHandshake(c) \/ HandleWriteRequest(c)
             \/ ReadChunkedStream(c)
      PROVE  MutexHandedOver'
    BY <1>1, <1>2, KeepGoingHandsOver
    DEF HandleResolve, HandleConnect, HandleConnected, TryNextEndpoint,
        NoEndpointLeft, HandleSslHandshake, HandleWriteRequest,
        ReadChunkedStream, Handling, Runs
<1>3. ASSUME NEW c \in Chains, HandleRequestResponse(c)
      PROVE  MutexHandedOver'
    <2>1. CASE GiveUp(c) \/ KeepGoing(c, "read", chain[c].endpoints)
        BY <1>1, <1>3, <2>1, KeepGoingHandsOver
        DEF HandleRequestResponse, Handling, Runs
    <2>2. CASE UNCHANGED <<ready, outVars>>
        BY <2>2, MutexAndQueue, MutexAndQueueNext DEF outVars
    <2> QED BY <1>3, <2>1, <2>2 DEF HandleRequestResponse
<1>4. CASE HandleReconnect
    <2>1. Tail(ready) \in Seq(Handlers) /\ WriteAt(Tail(ready), outWrite)
        BY <1>4, TailQueue, OtherHandlerRuns, MutexAndQueue
        DEF HandleReconnect, Runs, TypeInv, TypeOK
    <2>2. WriteAt(ready', outWrite') /\ (outWrite' = "none" <=> outWrite = "none")
        BY <1>4, <2>1, AbortQueuesWrite DEF HandleReconnect, Connect
    <2> QED BY <1>4, <2>2, MutexAndQueue, MutexAndQueueNext DEF HandleReconnect
<1>5. CASE WriteFailed \/ WriteSucceeded
    <2>1. outWrite \in {"ok", "err"} /\ Head(ready) = "write" /\ ready # << >>
        BY <1>5 DEF WriteFailed, WriteSucceeded, Writing, Runs
    <2>2. ~In(Tail(ready), "write")
        BY <2>1, TailQueue, MutexAndQueue DEF WriteAt, TypeInv, TypeOK
    <2>3. outWrite' = "none" /\ ready' = Tail(ready) /\ ~outMessagesMtx'
        BY <1>5 DEF WriteFailed, WriteSucceeded, Writing
    <2>4. WriteAt(ready', outWrite')
        BY <2>2, <2>3 DEF WriteAt
    <2> QED BY <2>3, <2>4, MutexAndQueueNext
<1>6. CASE ReconnectAfterWrite
    BY <1>6, GiveUpHandsOver, MutexAndQueue
    DEF ReconnectAfterWrite, TypeInv, TypeOK
<1>7. CASE ReadAborted
    <2>1. WriteAt(Tail(ready), outWrite)
        BY <1>7, OtherHandlerRuns, MutexAndQueue DEF ReadAborted, Runs
    <2> QED BY <1>7, <2>1, MutexAndQueue, MutexAndQueueNext DEF ReadAborted, outVars
<1> QED BY <1>2, <1>3, <1>4, <1>5, <1>6, <1>7 DEF IoThread

LEMMA OthersHandOver ==
    ASSUME TypeInv, MutexHandedOver, MainThread \/ Reactor
    PROVE  MutexHandedOver'
<1>1. ready \in Seq(Handlers) /\ WriteAt(ready, outWrite)
    BY MutexAndQueue DEF TypeInv, TypeOK
<1>2. CASE SendMessages
    BY <1>1, <1>2, MutexAndQueue, MutexAndQueueNext DEF SendMessages, outVars
<1>3. CASE LockAndWrite
    <2>1. outWrite = "none" /\ ~In(ready, "write")
        BY <1>1, <1>3, MutexAndQueue DEF LockAndWrite, MutexFree, WriteAt
    <2>2. CASE StartStatus("write") = "waiting"
        BY <1>3, <2>1, <2>2, MutexAndQueueNext DEF LockAndWrite, WriteAt
    <2>3. CASE StartStatus("write") # "waiting"
        <3>1. Once(Append(ready, "write"), "write")
            BY <1>1, <2>1, AppendQueue, "write" \in Handlers DEF Handlers
        <3>2. outWrite' \in {"ok", "err"} /\ ready' = Append(ready, "write")
            BY <1>3, <2>3, StatusOfOperation DEF LockAndWrite
        <3>3. WriteAt(ready', outWrite')
            BY <3>1, <3>2 DEF WriteAt
        <3> QED BY <1>3, <3>2, <3>3, MutexAndQueueNext DEF LockAndWrite
    <2> QED BY <2>2, <2>3
<1>4. CASE StopBroadcast
    BY <1>1, <1>4, AbortQueuesWrite, MutexAndQueue, MutexAndQueueNext
    DEF StopBroadcast
<1>5. ASSUME NEW h \in {"timer"} \cup Chains, ready' = Append(ready, h),
             UNCHANGED outVars
      PROVE  MutexHandedOver'
    <2>1. h \in Handlers \ {"write"}
        BY ConstantsAssumption DEF Handlers
    <2> QED BY <1>1, <1>5, <2>1, OtherHandlerPosted, MutexAndQueue,
               MutexAndQueueNext
            DEF outVars
<1>6. ASSUME NEW result \in {"ok", "err"}, CompleteWrite(result)
      PROVE  MutexHandedOver'
    <2>1. outWrite = "waiting" /\ ~In(ready, "write")
        BY <1>1, <1>6 DEF CompleteWrite, WriteAt
    <2>2. Once(ready', "write")
        BY <1>1, <1>6, <2>1, AppendQueue, "write" \in Handlers
        DEF CompleteWrite, Handlers
    <2>3. WriteAt(ready', outWrite')
        BY <1>6, <2>2 DEF CompleteWrite, WriteAt
    <2> QED BY <1>6, <2>1, <2>3, MutexAndQueue, MutexAndQueueNext
            DEF CompleteWrite
<1> QED BY <1>2, <1>3, <1>4, <1>5, <1>6
        DEF MainThread, Reactor, Complete, TimerExpires

LEMMA MutexInvariant == Spec => [](TypeInv /\ MutexHandedOver)
<1>1. Init => MutexHandedOver
    BY DEF Init, MutexHandedOver, InQueue
<1>2. TypeInv /\ MutexHandedOver /\ [Next]_vars => MutexHandedOver'
    <2> SUFFICES ASSUME TypeInv, MutexHandedOver, [Next]_vars
                 PROVE  MutexHandedOver'
        OBVIOUS
    <2>1. CASE UNCHANGED vars
        BY <2>1, MutexAndQueue, MutexAndQueueNext DEF vars, outVars
    <2> QED BY <2>1, IoThreadHandsOver, OthersHandOver DEF Next
<1> QED BY TypeInvariant, <1>1, <1>2, PTL DEF Spec

(* outMessagesMtx, locked by the main thread, is unlocked exactly once, by *)
(* the handler of the write that was started under it, and is never left   *)
(* locked without such a handler.                                          *)
THEOREM MutexIsHandedOver == Spec => []MutexHandedOver
BY MutexInvariant, PTL

------------------------------------------------------------------------------
(* Recovery.  Every handler leaves something outstanding.                  *)
LEMMA InReady ==
    /\ \A h : InQueue(h) <=> In(ready, h)
    /\ \A h : InQueue(h)' <=> In(ready', h)
BY DEF InQueue, In

Alive(c) == chain[c].status = "waiting" \/ (chain[c].op # "none" /\ InQueue(c))

LEMMA NeverStrandedStep ==
    ASSUME TypeInv, MutexHandedOver, NeverStranded, [Next]_vars
    PROVE  NeverStranded'
<1> DEFINE Goal == NeverStranded'
<1>1. ASSUME NEW done, NEW q, DelayedReconnect(done, q) PROVE Goal
    BY <1>1 DEF DelayedReconnect, NeverStranded
<1>2. ASSUME NEW c \in Chains, Alive(c)' PROVE Goal
    BY <1>2 DEF NeverStranded, Alive
<1>3. ASSUME NEW c \in Chains, NEW op \in Operations \ {"none"}, NEW n,
             ready # << >>, KeepGoing(c, op, n)
      PROVE  Goal
    <2>1. chain'[c].status = StartStatus(op) /\ chain'[c].op = op
        BY <1>3 DEF KeepGoing, StartOp, TypeInv, TypeOK
    <2>2. CASE StartStatus(op) = "waiting"
        BY <1>2, <2>1, <2>2 DEF Alive
    <2>3. CASE StartStatus(op) # "waiting"
        <3>1. Tail(ready) \in Seq(Handlers) /\ c \in Handlers
            BY <1>3, TailQueue DEF TypeInv, TypeOK, Handlers
        <3>2. In(ready', c)
            BY <1>3, <2>3, <3>1, AppendQueue DEF KeepGoing, StartOp
        <3> QED BY <1>2, <2>1, <3>2, InReady DEF Alive
    <2> QED BY <2>2, <2>3
<1>4. ASSUME NEW c \in Chains,
             \/ HandleResolve(c)      \/ HandleConnect(c)
             \/ HandleSslHandshake(c) \/ HandleWriteRequest(c)
             \/ HandleRequestResponse(c) \/ ReadChunkedStream(c)
      PROVE  Goal
    <2>1. {"connect", "handshake", "writeRequest", "readResponse", "read"}
              \subseteq Operations \ {"none"}
        BY DEF ChainOps, Operations
    <2>2. lifetime' = "terminated" => Goal
        BY DEF NeverStranded
    <2> QED BY <1>1, <1>3, <1>4, <2>1, <2>2
            DEF HandleResolve, HandleConnect, HandleConnected, TryNextEndpoint,
                NoEndpointLeft, HandleSslHandshake, HandleWriteRequest,
                HandleRequestResponse, ReadChunkedStream, GiveUp, Handling, Runs
<1>5. CASE HandleReconnect
    <2>1. \E c \in Chains : chain'[c] = FirstOp
        BY <1>5, NewChain DEF HandleReconnect, Connect
    <2> QED BY <1>2, <2>1 DEF Alive, FirstOp
<1>6. CASE WriteFailed \/ ReconnectAfterWrite
    BY <1>1, <1>6 DEF WriteFailed, ReconnectAfterWrite, NeverStranded
(* What was outstanding stays so when other handlers are posted or the     *)
(* write's is taken.                                                       *)
<1>7. ASSUME \A h \in (Chains \cup {"timer"}) : In(ready, h) => In(ready', h),
             UNCHANGED <<chain, timerArmed, ioPc, lifetime>>
      PROVE  Goal
    <2>1. \A c \in Chains : Alive(c) => Alive(c)'
        BY <1>7, InReady, ConstantsAssumption DEF Alive, Handlers
    <2>2. InQueue("timer") => InQueue("timer")'
        BY <1>7, InReady DEF Handlers
    <2> QED BY <1>7, <2>1, <2>2 DEF NeverStranded, Alive
<1>8. CASE WriteSucceeded \/ ReadAborted
    <2>1. /\ ready # << >> /\ ready' = Tail(ready)
          /\ Head(ready) \in {"write", "abortedRead"}
        BY <1>8 DEF WriteSucceeded, Writing, ReadAborted, Runs
    <2>2. ready \in Seq(Handlers)
        BY DEF TypeInv, TypeOK
    <2>3. \A h \in (Chains \cup {"timer"}) : Head(ready) # h
        BY <2>1, ConstantsAssumption
    <2>4. \A h \in (Chains \cup {"timer"}) : In(ready, h) => In(ready', h)
        BY <2>1, <2>2, <2>3, TailQueue
    <2> QED BY <1>7, <1>8, <2>4 DEF WriteSucceeded, Writing, ReadAborted
<1>9. CASE SendMessages \/ LockAndWrite
    <2>1. ready' = ready \/ ready' = Append(ready, "write")
        BY <1>9 DEF SendMessages, LockAndWrite
    <2>2. \A h : In(ready, h) => In(Append(ready, "write"), h)
        BY AppendQueue, "write" \in Handlers DEF Handlers, TypeInv, TypeOK
    <2>3. \A h : In(ready, h) => In(ready', h)
        BY <2>1, <2>2
    <2> QED BY <1>7, <1>9, <2>3 DEF SendMessages, LockAndWrite
<1>10. CASE StopBroadcast
    BY <1>10 DEF StopBroadcast, NeverStranded
<1>11. ASSUME NEW c \in Chains, NEW result, Complete(c, result) PROVE Goal
    <2>1. chain'[c].op = chain[c].op /\ chain[c].op # "none"
        BY <1>11 DEF Complete, TypeInv, TypeOK, ChainsWellFormed
    <2>2. In(ready', c)
        BY <1>11, AppendQueue, c \in Handlers
        DEF Complete, Handlers, TypeInv, TypeOK
    <2> QED BY <1>2, <2>1, <2>2, InReady DEF Alive
<1>12. ASSUME NEW result, CompleteWrite(result) PROVE Goal
    <2>1. \A h \in (Chains \cup {"timer"}) : In(ready, h) => In(ready', h)
        BY <1>12, AppendQueue, "write" \in Handlers
        DEF CompleteWrite, Handlers, TypeInv, TypeOK
    <2> QED BY <1>7, <1>12, <2>1 DEF CompleteWrite
<1>13. CASE TimerExpires
    <2>1. In(ready', "timer")
        BY <1>13, AppendQueue, "timer" \in Handlers
        DEF TimerExpires, Handlers, TypeInv, TypeOK
    <2> QED BY <2>1, InReady DEF NeverStranded
<1>14. CASE UNCHANGED vars
    BY <1>7, <1>14 DEF vars
<1> QED BY <1>4, <1>5, <1>6, <1>8, <1>9, <1>10, <1>11, <1>12, <1>13, <1>14
        DEF Next, IoThread, MainThread, Reactor

(* No path through the handlers, the main thread's calls or the aborts     *)
(* leaves a running client with nothing that would reconnect it.           *)
THEOREM ClientIsNeverStranded == Spec => []NeverStranded
<1>1. Init => NeverStranded
    <2> SUFFICES ASSUME Init PROVE NeverStranded
        OBVIOUS
    <2>1. \E c \in Chains : chain[c] = FirstOp
        BY FirstChain
    <2> QED BY <2>1 DEF NeverStranded, FirstOp
<1> QED BY MutexInvariant, <1>1, NeverStrandedStep, PTL DEF Spec

------------------------------------------------------------------------------
(* Refinement of the upload channel.                                       *)

LEMMA ChannelStep ==
    ASSUME TypeInv, MutexHandedOver, [Next]_vars
    PROVE  [Channel!Next]_(Channel!vars)
<1> DEFINE Same == UNCHANGED <<mainPc, outMessagesMtx, taken,
                               numberChunksSent>>
<1>1. taken \in Int /\ numberChunksSent \in Int
    BY DEF TypeInv, TypeOK
<1>2. Same => UNCHANGED Channel!vars
    BY DEF Channel!vars, LostChunks
<1>3. CASE WriteFailed
    <2>1. outMessagesMtx /\ ~outMessagesMtx'
        BY <1>3, MutexAndQueue DEF WriteFailed, Writing
    <2>2. UNCHANGED <<mainPc, taken, numberChunksSent>>
        BY <1>3 DEF WriteFailed, Writing
    <2>3. LostChunks' = LostChunks + 1
        BY <1>1, <2>1, <2>2 DEF LostChunks
    <2>4. Channel!Lose
        BY <2>1, <2>2, <2>3, <1>3 DEF WriteFailed, Channel!Lose
    <2> QED BY <2>4 DEF Channel!Next
<1>4. CASE WriteSucceeded
    <2>1. outMessagesMtx /\ ~outMessagesMtx'
        BY <1>4, MutexAndQueue DEF WriteSucceeded, Writing
    <2>2. /\ UNCHANGED <<mainPc, taken>>
          /\ numberChunksSent' = numberChunksSent + 1
        BY <1>4 DEF WriteSucceeded, Writing
    <2>3. LostChunks' = LostChunks
        BY <1>1, <2>1, <2>2 DEF LostChunks
    <2>4. Channel!Send
        BY <2>1, <2>2, <2>3, <1>4 DEF WriteSucceeded, Channel!Send
    <2> QED BY <2>4 DEF Channel!Next
<1>5. CASE SendMessages
    <2>1. UNCHANGED <<outMessagesMtx, taken, numberChunksSent>>
        BY <1>5 DEF SendMessages, outVars
    <2>2. Channel!Offer
        BY <1>5, <2>1 DEF SendMessages, Channel!Offer, LostChunks
    <2> QED BY <2>2 DEF Channel!Next
<1>6. CASE LockAndWrite
    <2>1. /\ ~outMessagesMtx /\ outMessagesMtx'
          /\ mainPc = "lock" /\ mainPc' = "idle"
        BY <1>6 DEF LockAndWrite, MutexFree
    <2>2. /\ taken' = taken + 1
          /\ UNCHANGED numberChunksSent
        BY <1>6 DEF LockAndWrite
    <2>3. LostChunks' = LostChunks
        BY <1>1, <2>1, <2>2 DEF LostChunks
    <2>4. Channel!Accept
        BY <2>1, <2>2, <2>3, <1>6 DEF LockAndWrite, Channel!Accept
    <2> QED BY <2>4 DEF Channel!Next
<1>7. ASSUME ~WriteFailed, ~WriteSucceeded, ~SendMessages, ~LockAndWrite
      PROVE  Same
    <2>1. UNCHANGED <<mainPc, taken>>
        BY <1>7, MainThreadOwns
    <2>2. UNCHANGED <<outMessagesMtx, numberChunksSent>>
        BY <1>7
        DEF Next, IoThread, MainThread, Reactor, vars, outVars, HandleReconnect,
            HandleResolve, HandleConnect, HandleConnected, TryNextEndpoint,
            NoEndpointLeft, HandleSslHandshake, HandleWriteRequest,
            HandleRequestResponse, ReadChunkedStream, ReconnectAfterWrite, GiveUp,
            DelayedReconnect, KeepGoing, ReadAborted, StopBroadcast, Complete, CompleteWrite,
            TimerExpires
    <2> QED BY <2>1, <2>2
<1> QED BY <1>2, <1>3, <1>4, <1>5, <1>6, <1>7

(* A client implements the upload channel: a message is accepted one at a  *)
(* time, and each accepted message is sent or lost exactly once.           *)
THEOREM ClientImplementsChannel == Spec => ImplementsChannel
<1>1. Init => Channel!Init
    <2> SUFFICES ASSUME Init PROVE Channel!Init
        OBVIOUS
    <2>1. ~outMessagesMtx /\ mainPc # "lock"
        BY DEF Init
    <2>2. taken = 0 /\ numberChunksSent = 0
        BY DEF Init
    <2>3. LostChunks = 0 - 0 - 0
        BY <2>1, <2>2, Zenon DEF LostChunks
    <2>4. LostChunks = 0
        BY <2>3
    <2> QED BY <2>1, <2>2, <2>4 DEF Channel!Init
<1>2. TypeInv /\ MutexHandedOver /\ [Next]_vars => [Channel!Next]_(Channel!vars)
    BY ChannelStep
<1> QED BY MutexInvariant, <1>1, <1>2, PTL
        DEF Spec, ImplementsChannel, Channel!SafeSpec
==============================================================================

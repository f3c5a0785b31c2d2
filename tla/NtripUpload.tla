----------------------------- MODULE NtripUpload -----------------------------
(***************************************************************************)
(* One NTRIP upload client of the PEA: class NtripSocket                   *)
(* (common/ntripSocket.cpp) with its subclass NtripUploadClient            *)
(* (common/acsNtripBroadcast.cpp).                                         *)
(*                                                                         *)
(* Two threads share the object.  The io_service thread runs completion    *)
(* handlers one at a time, in the order boost::asio queued them; the main  *)
(* thread calls sendMessages once per epoch and stopBroadcast at the end.  *)
(* Every connect() starts a chain of operations                            *)
(*     resolve, connect, (TLS handshake), write request,                   *)
(*     read response, read, read, ...                                      *)
(* in which each handler starts the next operation or falls back to        *)
(* delayed_reconnect().  A chain has one operation outstanding at a time,  *)
(* and several chains can be outstanding at once.                          *)
(***************************************************************************)
EXTENDS Integers, Sequences

CONSTANTS
    Chains,        \* slots for concurrently outstanding operation chains
    NumEndpoints,  \* endpoints the resolver returns for the caster's name
    Https,         \* url.protocol == "https"
    MaxSends       \* bound: sendMessages calls that have something to send

ASSUME ConstantsAssumption ==
    /\ Chains # {}
    /\ Chains \cap {"timer", "write", "abortedRead"} = {}
    /\ NumEndpoints \in Nat \ {0}
    /\ Https \in BOOLEAN
    /\ MaxSends \in Nat

VARIABLES
    chain,               \* per chain: operation, endpoints left, status
    ready,               \* handlers queued in the io_service, oldest first
    timerArmed,          \* an async_wait of `timer' is outstanding
    socket,              \* what socket_ptr points to
    request,             \* copies of request_string held in `request'
    response,            \* the response header complete in downloadBuf, if any
    stray,               \* downloadBuf holds bytes that spoil a response
    requested,           \* the caster on `socket' has the request
    isConnected,
    outMessagesMtx,      \* the mutex is held
    outWrite,            \* status of the async_write of outMessages
    mainPc,              \* main thread: idle, or waiting for outMessagesMtx
    ioPc,                \* io_service thread: run handlers, or, in the middle
                         \* of writeResponse, about to call delayed_reconnect
    numberChunksSent,
    taken,               \* history: chunks handed to async_write
    lifetime             \* running, terminated (exception) or destroyed

net     == <<socket, request, response, stray, requested, isConnected>>
outVars == <<outMessagesMtx, outWrite, numberChunksSent, taken>>
vars    == <<chain, ready, timerArmed, net, outVars, mainPc, ioPc, lifetime>>

------------------------------------------------------------------------------
Operations == {"none", "resolve", "connect", "handshake", "writeRequest",
               "readResponse", "read"}
Statuses   == {"none", "waiting", "ok", "err"}
Handlers   == Chains \cup {"timer", "write", "abortedRead"}

NoOp    == [op |-> "none", endpoints |-> 0, status |-> "none"]
FirstOp == [op |-> "resolve", endpoints |-> NumEndpoints, status |-> "waiting"]

TypeOK ==
    /\ chain \in [Chains -> [op : Operations, endpoints : 0 .. NumEndpoints,
                             status : Statuses]]
    /\ ready \in Seq(Handlers)
    /\ timerArmed \in BOOLEAN
    /\ socket \in {"closed", "connecting", "up", "dead"}
    /\ request \in 0 .. 2
    /\ response \in {"none", "200", "refused"}
    /\ stray \in BOOLEAN
    /\ requested \in BOOLEAN
    /\ isConnected \in BOOLEAN
    /\ outMessagesMtx \in BOOLEAN
    /\ outWrite \in Statuses
    /\ mainPc \in {"idle", "lock"}
    /\ ioPc \in {"run", "reconnect"}
    /\ numberChunksSent \in Nat
    /\ taken \in 0 .. MaxSends
    /\ lifetime \in {"running", "terminated", "destroyed"}

(* The slots are interchangeable: a new chain takes a free one.            *)
FreeSlots(ch) == {c \in Chains : ch[c] = NoOp}

WithNewChain(ch) == [ch EXCEPT ![CHOOSE c \in FreeSlots(ch) : TRUE] = FirstOp]

(* The constructor calls connect(): the first chain is resolving.          *)
Init ==
    /\ chain = WithNewChain([c \in Chains |-> NoOp])
    /\ ready = << >>
    /\ timerArmed = FALSE
    /\ socket = "closed"
    /\ request = 1
    /\ response = "none"
    /\ stray = FALSE
    /\ requested = FALSE
    /\ isConnected = FALSE
    /\ outMessagesMtx = FALSE
    /\ outWrite = "none"
    /\ mainPc = "idle"
    /\ ioPc = "run"
    /\ numberChunksSent = 0
    /\ taken = 0
    /\ lifetime = "running"

------------------------------------------------------------------------------
(* Cancelling.  Closing or destroying a socket completes its outstanding   *)
(* operations with operation_aborted, which the handlers of a chain only   *)
(* log: the chain ends.  Three handlers do more and are queued.            *)
(* read_chunked_stream parses downloadBuf before it looks at the error,    *)
(* handle_connect tries the next endpoint whatever the error, and          *)
(* writeResponse treats an abort like every other error.                   *)

OnSocket(c) == chain[c].status = "waiting" /\ chain[c].op # "resolve"

RetriesWhenAborted(c) ==
    /\ OnSocket(c)
    /\ chain[c].op = "connect"
    /\ chain[c].endpoints > 0

AbortedChain(c) ==
    IF RetriesWhenAborted(c) THEN [chain[c] EXCEPT !.status = "err"] ELSE NoOp

(* What socket_ptr->close(), or the destruction of the socket, queues:     *)
(* reads first.  Several aborted reads do what one does.                   *)
AbortedHandlers ==
    (IF \E c \in Chains : OnSocket(c) /\ chain[c].op = "read"
     THEN << "abortedRead" >> ELSE << >>)
    \o (IF \E c \in Chains : RetriesWhenAborted(c)
        THEN << CHOOSE c \in Chains : RetriesWhenAborted(c) >> ELSE << >>)
    \o (IF outWrite = "waiting" THEN << "write" >> ELSE << >>)

AbortedWrite == IF outWrite = "waiting" THEN "err" ELSE outWrite

(* disconnect(): shutdown() throws on a socket that is not connected, and  *)
(* close(), which would abort what is outstanding, is then skipped.        *)
ShutdownSucceeds == socket \in {"connecting", "up"}

HandlersOfDisconnect == IF ShutdownSucceeds THEN AbortedHandlers ELSE << >>
WriteAfterDisconnect == IF ShutdownSucceeds THEN AbortedWrite ELSE outWrite

------------------------------------------------------------------------------
(* Operations.  An asynchronous call either stays outstanding or, when the *)
(* socket cannot take it, is queued at once with its error.  A second      *)
(* connect on a socket in use fails (EALREADY, EISCONN); reads and writes  *)
(* fail on a closed or dead socket; writing an empty buffer succeeds.      *)
StartStatus(op) ==
    CASE op = "connect" ->
            IF socket \in {"closed", "dead"} THEN "waiting" ELSE "err"
      [] op = "writeRequest" /\ request = 0 -> "ok"
      [] OTHER -> IF socket \in {"connecting", "up"} THEN "waiting" ELSE "err"

(* The io_service thread takes handler h from the head of the queue.       *)
Runs(h) ==
    /\ lifetime = "running"
    /\ ioPc = "run"
    /\ ready # << >>
    /\ Head(ready) = h

Handling(c, op, status) ==
    /\ Runs(c)
    /\ chain[c].op = op
    /\ chain[c].status = status

(* ... and starts the chain's next operation.                              *)
StartOp(c, op, endpoints) ==
    /\ chain' = [chain EXCEPT ![c] = [op |-> op, endpoints |-> endpoints,
                                      status |-> StartStatus(op)]]
    /\ ready' = IF StartStatus(op) = "waiting" THEN Tail(ready)
                ELSE Append(Tail(ready), c)
    /\ socket' = IF op = "connect" /\ StartStatus(op) = "waiting"
                 THEN "connecting" ELSE socket

(* disconnect(); the chains in `done' end here.                            *)
Disconnect(done) ==
    /\ chain' = [c \in Chains |->
                   IF c \in done THEN NoOp
                   ELSE IF ShutdownSucceeds /\ OnSocket(c) THEN AbortedChain(c)
                   ELSE chain[c]]
    /\ socket' = IF ShutdownSucceeds THEN "closed" ELSE socket
    /\ request' = 0
    /\ response' = "none"
    /\ stray' = FALSE
    /\ requested' = FALSE

(* delayed_reconnect(): expires_from_now cancels the wait that may be      *)
(* outstanding, and async_wait starts one.                                 *)
DelayedReconnect(done, queue) ==
    /\ Disconnect(done)
    /\ ready' = queue \o HandlersOfDisconnect
    /\ outWrite' = WriteAfterDisconnect
    /\ isConnected' = FALSE
    /\ timerArmed' = TRUE
    /\ ioPc' = "run"
    /\ UNCHANGED <<outMessagesMtx, numberChunksSent, taken, mainPc, lifetime>>

GiveUp(c) == DelayedReconnect({c}, Tail(ready))

------------------------------------------------------------------------------
(* Completion handlers, run by the io_service thread.                      *)

(* request_stream << request_string, which appends.                        *)
NoRequest == UNCHANGED request      \* mutant: a reconnect does not append it

AppendRequest == request' = IF request = 2 THEN 2 ELSE request + 1

(* connect(): new socket, TLS socket and resolver; the old ones are        *)
(* destroyed, which cancels what is outstanding on them.                   *)
Connect ==
    LET cancelled == [c \in Chains |->
                        IF OnSocket(c) THEN AbortedChain(c)
                        ELSE IF chain[c].status = "waiting" THEN NoOp
                        ELSE chain[c]]
    IN  /\ FreeSlots(cancelled) # {}
        /\ chain' = WithNewChain(cancelled)
        /\ ready' = Tail(ready) \o AbortedHandlers
        /\ outWrite' = AbortedWrite
        /\ socket' = "closed"
        /\ requested' = FALSE
        /\ AppendRequest

HandleReconnect ==
    /\ Runs("timer")
    /\ Connect
    /\ UNCHANGED <<timerArmed, response, stray, isConnected, outMessagesMtx,
                   numberChunksSent, taken, mainPc, ioPc, lifetime>>

(* What a handler that started its chain's next operation leaves alone.    *)
KeepGoing(c, op, endpoints) ==
    /\ StartOp(c, op, endpoints)
    /\ UNCHANGED <<timerArmed, request, outVars, mainPc, ioPc, lifetime>>

HandleResolve(c) ==
    \/ /\ Handling(c, "resolve", "ok")
       /\ KeepGoing(c, "connect", chain[c].endpoints - 1)
       /\ UNCHANGED <<response, stray, requested, isConnected>>
    \/ /\ Handling(c, "resolve", "err")
       /\ GiveUp(c)

HandleConnected(c) ==
    /\ Handling(c, "connect", "ok")
    /\ KeepGoing(c, IF Https THEN "handshake" ELSE "writeRequest",
                 chain[c].endpoints)
    /\ UNCHANGED <<response, stray, requested, isConnected>>

AnyIterator(c) == TRUE              \* mutant: the end is not tested for

MoreEndpoints(c) == chain[c].endpoints > 0

TryNextEndpoint(c) ==
    /\ Handling(c, "connect", "err")
    /\ MoreEndpoints(c)
    /\ KeepGoing(c, "connect", chain[c].endpoints - 1)
    /\ UNCHANGED <<response, stray, requested, isConnected>>

(* Mutant: the error of the last endpoint is logged and nothing more.      *)
LogConnectError(c) ==
    /\ Handling(c, "connect", "err")
    /\ ~MoreEndpoints(c)
    /\ chain' = [chain EXCEPT ![c] = NoOp]
    /\ ready' = Tail(ready)
    /\ UNCHANGED <<timerArmed, net, outVars, mainPc, ioPc, lifetime>>

NoEndpointLeft(c) ==
    /\ Handling(c, "connect", "err")
    /\ ~MoreEndpoints(c)
    /\ GiveUp(c)

HandleConnect(c) ==
    HandleConnected(c) \/ TryNextEndpoint(c) \/ NoEndpointLeft(c)

HandleSslHandshake(c) ==
    \/ /\ Handling(c, "handshake", "ok")
       /\ KeepGoing(c, "writeRequest", chain[c].endpoints)
       /\ UNCHANGED <<response, stray, requested, isConnected>>
    \/ /\ Handling(c, "handshake", "err")
       /\ GiveUp(c)

HandleWriteRequest(c) ==
    \/ /\ Handling(c, "writeRequest", "ok")
       /\ KeepGoing(c, "readResponse", chain[c].endpoints)
       /\ UNCHANGED <<response, stray, requested, isConnected>>
    \/ /\ Handling(c, "writeRequest", "err")
       /\ GiveUp(c)

(* downloadBuf may have been cleared since the read completed, or hold     *)
(* stray bytes in front of the response.  Only an intact 200 response      *)
(* makes the client connected; connected() starts the read that monitors   *)
(* the socket.  set_option() throws on a closed socket, nothing catches    *)
(* it, and the process terminates.                                         *)
Accepted == response = "200" /\ ~stray

HandleRequestResponse(c) ==
    \/ /\ Handling(c, "readResponse", "ok")
       /\ Accepted
       /\ response' = "none"
       /\ isConnected' = TRUE
       /\ \/ /\ socket # "closed"
             /\ KeepGoing(c, "read", chain[c].endpoints)
          \/ /\ socket = "closed"
             /\ lifetime' = "terminated"
             /\ UNCHANGED <<chain, ready, timerArmed, socket, request, outVars,
                            mainPc, ioPc>>
       /\ UNCHANGED <<stray, requested>>
    \/ /\ Handling(c, "readResponse", "ok")
       /\ ~Accepted
       /\ GiveUp(c)
    \/ /\ Handling(c, "readResponse", "err")
       /\ GiveUp(c)

(* What the caster sends is parsed as chunks and what does not make a      *)
(* whole chunk stays in downloadBuf.  The chunks found are counted in      *)
(* numberValidChunks, of which see LostChunks.                             *)
ReadChunkedStream(c) ==
    \/ /\ Handling(c, "read", "ok")
       /\ KeepGoing(c, "read", chain[c].endpoints)
       /\ stray' \in BOOLEAN
       /\ UNCHANGED <<response, requested, isConnected>>
    \/ /\ Handling(c, "read", "err")
       /\ GiveUp(c)

(* read_chunked_stream with operation_aborted.  The buffer is empty by     *)
(* then; the parser reads a character all the same, an uninitialized one,  *)
(* and puts it into downloadBuf.                                           *)
ReadAborted ==
    /\ Runs("abortedRead")
    /\ ready' = Tail(ready)
    /\ stray' \in {stray, TRUE}
    /\ UNCHANGED <<chain, timerArmed, socket, request, response, requested,
                   isConnected, outVars, mainPc, ioPc, lifetime>>

(* writeResponse(): the io_service thread releases the mutex that the main *)
(* thread locked.  An error, an abort included, restarts the connection,   *)
(* after the unlock: the main thread can start its next write in between.  *)
Writing(status) ==
    /\ Runs("write")
    /\ outWrite = status
    /\ outWrite' = "none"
    /\ ready' = Tail(ready)
    /\ UNCHANGED <<chain, timerArmed, net, taken, mainPc, lifetime>>

(* Mutant: the error path does not unlock.                                 *)
WriteFailedNoUnlock ==
    /\ Writing("err")
    /\ ioPc' = "reconnect"
    /\ UNCHANGED <<outMessagesMtx, numberChunksSent>>

WriteFailed ==
    /\ Writing("err")
    /\ outMessagesMtx' = FALSE
    /\ ioPc' = "reconnect"
    /\ UNCHANGED numberChunksSent

ReconnectAfterWrite ==
    /\ lifetime = "running"
    /\ ioPc = "reconnect"
    /\ DelayedReconnect({}, ready)

WriteSucceeded ==
    /\ Writing("ok")
    /\ outMessagesMtx' = FALSE
    /\ numberChunksSent' = numberChunksSent + 1
    /\ UNCHANGED ioPc

IoThread ==
    \/ HandleReconnect
    \/ ReadAborted
    \/ WriteFailed
    \/ ReconnectAfterWrite
    \/ WriteSucceeded
    \/ \E c \in Chains :
          \/ HandleResolve(c)
          \/ HandleConnect(c)
          \/ HandleSslHandshake(c)
          \/ HandleWriteRequest(c)
          \/ HandleRequestResponse(c)
          \/ ReadChunkedStream(c)

------------------------------------------------------------------------------
(* The main thread.                                                        *)

(* sendMessages(): there is something to send; wait for outMessagesMtx.    *)
SendMessages ==
    /\ lifetime = "running"
    /\ mainPc = "idle"
    /\ taken < MaxSends
    /\ mainPc' = "lock"
    /\ UNCHANGED <<chain, ready, timerArmed, net, outVars, ioPc, lifetime>>

(* outMessagesMtx.lock() returns.                                          *)
NotWaitedFor == TRUE                \* mutant: the lock is left out

MutexFree == ~outMessagesMtx

(* The mutex is free: fill outMessages, hand it to async_write and return  *)
(* with the mutex held.  isConnected is not consulted.  What follows       *)
(* async_write in the code, numberValidChunks++, changes nothing that the  *)
(* two threads go by.                                                      *)
LockAndWrite ==
    /\ lifetime = "running"
    /\ mainPc = "lock"
    /\ MutexFree
    /\ outMessagesMtx' = TRUE
    /\ outWrite' = StartStatus("write")
    /\ ready' = IF StartStatus("write") = "waiting" THEN ready
                ELSE Append(ready, "write")
    /\ taken' = taken + 1
    /\ mainPc' = "idle"
    /\ UNCHANGED <<chain, timerArmed, net, numberChunksSent, ioPc, lifetime>>

(* stopBroadcast(), at the end of main(): disconnect, then destroy.        *)
StopBroadcast ==
    /\ lifetime = "running"
    /\ mainPc = "idle"
    /\ Disconnect({})
    /\ ready' = ready \o HandlersOfDisconnect
    /\ outWrite' = WriteAfterDisconnect
    /\ lifetime' = "destroyed"
    /\ UNCHANGED <<timerArmed, isConnected, outMessagesMtx, numberChunksSent,
                   taken, mainPc, ioPc>>

MainThread == SendMessages \/ LockAndWrite \/ StopBroadcast

------------------------------------------------------------------------------
(* The reactor: the network and the clock complete what is outstanding.    *)

(* A socket operation succeeds only on a socket in the right state; one    *)
(* that fails may have failed because the peer reset the connection.       *)
Complete(c, result) ==
    /\ lifetime = "running"
    /\ chain[c].status = "waiting"
    /\ chain' = [chain EXCEPT ![c].status = result]
    /\ ready' = Append(ready, c)
    /\ \/ chain[c].op = "resolve" /\ UNCHANGED socket
       \/ /\ chain[c].op = "connect"
          /\ socket' = IF result = "ok" THEN "up" ELSE "dead"
       \/ /\ chain[c].op \notin {"resolve", "connect"}
          /\ result = "ok"
          /\ socket = "up"
          /\ UNCHANGED socket
       \/ /\ chain[c].op \notin {"resolve", "connect"}
          /\ result = "err"
          /\ socket' \in IF socket = "up" THEN {"up", "dead"} ELSE {socket}
    /\ IF chain[c].op = "writeRequest" /\ result = "ok"
       THEN request' = 0 /\ requested' = TRUE
       ELSE UNCHANGED <<request, requested>>
    /\ IF chain[c].op = "readResponse" /\ result = "ok"
       THEN response' \in {"refused"} \cup (IF requested THEN {"200"} ELSE {})
       ELSE UNCHANGED response
    /\ UNCHANGED <<timerArmed, stray, isConnected, outVars, mainPc, ioPc, lifetime>>

CompleteWrite(result) ==
    /\ lifetime = "running"
    /\ outWrite = "waiting"
    /\ result = "ok" => socket = "up"
    /\ outWrite' = result
    /\ ready' = Append(ready, "write")
    /\ UNCHANGED <<chain, timerArmed, net, outMessagesMtx, numberChunksSent,
                   taken, mainPc, ioPc, lifetime>>

TimerExpires ==
    /\ lifetime = "running"
    /\ timerArmed
    /\ timerArmed' = FALSE
    /\ ready' = Append(ready, "timer")
    /\ UNCHANGED <<chain, net, outVars, mainPc, ioPc, lifetime>>

Reactor ==
    \/ \E c \in Chains, result \in {"ok", "err"} : Complete(c, result)
    \/ \E result \in {"ok", "err"} : CompleteWrite(result)
    \/ TimerExpires

Next == IoThread \/ MainThread \/ Reactor

Spec == Init /\ [][Next]_vars

------------------------------------------------------------------------------
(* Safety.                                                                 *)

InQueue(h) == \E i \in DOMAIN ready : ready[i] = h

QueuedOnce(h) == \E i \in DOMAIN ready :
                    /\ ready[i] = h
                    /\ \A j \in DOMAIN ready : ready[j] = h => j = i

(* outMessagesMtx is locked by the main thread and unlocked by the handler *)
(* of the write that was started under it.  It is held exactly while one   *)
(* such write is outstanding, and the write's handler is queued once, when *)
(* the write has completed: no write of outMessages overlaps another, no   *)
(* lock is left behind and no free mutex is unlocked.                      *)
MutexHandedOver ==
    /\ outMessagesMtx <=> outWrite # "none"
    /\ outWrite \in {"ok", "err"} => QueuedOnce("write")
    /\ outWrite \in {"none", "waiting"} => ~InQueue("write")

(* Whatever fails, aborts or races, a running client always has something  *)
(* outstanding that will bring it back: the timer, a queued reconnect, or  *)
(* an operation of some chain that the reactor will complete or whose      *)
(* handler is queued.  No path through the handlers drops the last one.    *)
NeverStranded ==
    lifetime = "running" =>
        \/ timerArmed
        \/ InQueue("timer")
        \/ ioPc = "reconnect"
        \/ \E c \in Chains :
              \/ chain[c].status = "waiting"
              \/ chain[c].op # "none" /\ InQueue(c)

(* The upload channel this client implements.  A chunk is lost when it was *)
(* handed to async_write (taken) but is neither counted as sent nor still  *)
(* under way.  The code's own counter numberValidChunks cannot tell: it is *)
(* incremented behind async_write, when writeResponse may have run, and,   *)
(* unsynchronized, by read_chunked_stream for what is received.  Only the  *)
(* trace reads it; it is not modelled.                                     *)
LostChunks == taken - numberChunksSent - (IF outMessagesMtx THEN 1 ELSE 0)

Channel == INSTANCE UploadChannel WITH
    offering <- mainPc = "lock",
    busy     <- outMessagesMtx,
    sent     <- numberChunksSent,
    lost     <- LostChunks

(* Each accepted message is sent or lost exactly once, one at a time.      *)
ImplementsChannel == Channel!SafeSpec

------------------------------------------------------------------------------
(* Liveness.  The io_service thread keeps running handlers, the main       *)
(* thread takes the mutex when it is free, the clock advances, and TCP     *)
(* takes or fails a write.                                                 *)
AnyResult == {"ok", "err"}

Scheduling ==
    /\ WF_vars(IoThread)
    /\ WF_vars(LockAndWrite)
    /\ WF_vars(TimerExpires)
    /\ WF_vars(\E result \in AnyResult : CompleteWrite(result))

(* The code sets no timeouts: that no operation of a connection attempt    *)
(* hangs is up to the caster and the network.                              *)
CasterAnswers ==
    \A c \in Chains :
        WF_vars(/\ chain[c].op # "read"
                /\ \E result \in AnyResult : Complete(c, result))

FairSpec == Spec /\ Scheduling /\ CasterAnswers

(* The main thread, blocked on a mutex that another thread must release,   *)
(* gets it: the epoch loop is not stopped by a lost connection.            *)
SendReturns == mainPc = "lock" ~> (mainPc = "idle" \/ lifetime # "running")

(* A network that has become stable: operations no longer fail, the caster *)
(* refuses no request it got, and the io_service thread handles each       *)
(* completion before the next one arrives.                                 *)
Failure ==
    \/ \E c \in Chains : Complete(c, "err")
    \/ CompleteWrite("err")
    \/ requested /\ response' = "refused"

StableNetwork == <>[][~Failure /\ (Reactor => ready = << >>)]_vars

Streaming == isConnected /\ \E c \in Chains : chain[c].op = "read"

(* From any state the earlier failures left behind (several chains, queued *)
(* reconnects, a live connection replaced under isConnected) the client    *)
(* gets back to reading from its caster once the network is stable and the *)
(* main thread has stopped interrupting attempts with its writes.          *)
Reconnects == StableNetwork => []<>(Streaming \/ lifetime # "running")

------------------------------------------------------------------------------
(* What the comments say.                                                  *)

(* "Pointers are required as objects may need to be destroyed to full      *)
(* recover socket error": replacing them never brings the process down.    *)
RecoversFromSocketErrors == lifetime # "terminated"
==============================================================================

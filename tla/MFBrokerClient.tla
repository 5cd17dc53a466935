--------------------------- MODULE MFBrokerClient ---------------------------
(***************************************************************************)
(* A broker in client mode (mfbroker.c, Mode = bmClient): one connection,  *)
(* one worker thread that polls it, application threads that use the       *)
(* connection through references, the remote peer, and MFBroker_Free.      *)
(*                                                                         *)
(* The behaviour starts when MFBroker_Alloc has returned: slot 0 of the    *)
(* connection table is initialised, ConnectionCount is 1, and the worker   *)
(* is about to run.                                                        *)
(*                                                                         *)
(* A critical section of SendLock is one step when nothing outside it can  *)
(* see its intermediate states.  Undefined behaviour is a transition to a  *)
(* state with fault # "none", where the behaviour ends, next to the        *)
(* transition the build makes when memory happens to be intact.            *)
(***************************************************************************)
EXTENDS Integers, Sequences, FiniteSets, Functions

CONSTANTS
    Apps,         \* application threads
    Kinds,        \* kinds of message the peer sends, a subset of AllKinds
    MaxSends,     \* bound: MFConnection_SendAsync calls of one thread
    MaxReceives,  \* bound: messages the peer sends
    MaxKeys,      \* bound: MFConnection_SetKey calls
    MaxStale      \* bound: releases made through freed list entries

(* "signed" verifies with the connection's key and "forged" does not;      *)
(* "sealed" has an encrypted header; "short" announces a size below that   *)
(* of a header; the rest of a "truncated" message never arrives.           *)
AllKinds == {"plain", "signed", "forged", "sealed", "short", "truncated"}

ASSUME ClientAssumption ==
    /\ IsFiniteSet(Apps)
    /\ Kinds \subseteq AllKinds
    /\ {MaxSends, MaxReceives, MaxKeys, MaxStale} \subseteq Nat

VARIABLES
    (* MF_CONNECTION and MF_BROKER *)
    refCount,         \* ReferenceCount
    state,            \* State: "free", "handshake", "established"
    socket,           \* "open"; "closed": handle closed, field not yet reset;
                      \* "invalid": INVALID_SOCKET stored and Disconnected = 1
    queue,            \* MessagesToSend
    key,              \* Key: "none", "torn" (being copied), "whole"
    connectionCount,
    terminated,       \* the worker's Terminated flag
    (* the worker *)
    wpc,              \* where _MFBrokerThreadRoutine is
    failed,           \* ret # 0: the variable is shared by the whole loop
    fdCount,
    fds,              \* the entry filled for the connection
    revents,          \* what WSAPoll reported
    incoming,         \* the message being checked, if any
    hand,             \* the message taken off MessagesToSend, if any
    recvList,         \* messages received, in list order; never re-initialised
    freed,            \* how many leading entries of recvList are freed memory
    cursor,           \* the entry of recvList the dispatch loop is at
    (* application threads, MFBroker_Free, the peer *)
    apc,              \* what each application thread is doing
    holders,          \* threads that own a reference to the connection
    sends,            \* SendAsync calls made by each thread
    freePc,           \* progress of MFBroker_Free
    inbox,            \* what the peer sent and the worker has not received
    arrived,          \* number of messages the peer sent
    peer,             \* "open" or "closed"
    (* what happened *)
    fault,            \* undefined behaviour the program ran into
    base,             \* the table's own reference is still held
    staleReleases,    \* releases made through freed list entries
    closes,           \* closesocket calls
    keysSet,          \* SetKey calls begun
    tornUse,          \* Key was used while it was being copied
    reports,          \* messages reported to the application: sent, refused
                      \* or failed
    waived,           \* messages accepted by the bmetCannotVerify callback
    delivered         \* messages handed to the application (bmetReady)

connVars   == <<refCount, state, socket, queue, closes>>
keyVars    == <<key, keysSet>>
pollVars   == <<fdCount, fds, revents>>
recvVars   == <<recvList, freed, cursor, delivered, staleReleases>>
workVars   == <<incoming, hand, reports, tornUse, waived>>
appVars    == <<apc, holders, sends>>
peerVars   == <<inbox, arrived, peer>>
brokerVars == <<connectionCount, terminated, freePc, base>>

vars == <<connVars, keyVars, pollVars, recvVars, workVars, appVars, peerVars,
          brokerVars, wpc, failed, fault>>

Worker == "worker"

NoEntry == [open |-> FALSE, out |-> FALSE]

OutgoingMessage == Apps \X Nat
IncomingMessage == [n : 1 .. MaxReceives, kind : AllKinds]

WorkerPoints ==
    {"loop", "build", "poll", "scan", "recv", "verify", "cannotVerify",
     "hup", "hupMark", "hupRelease", "hupCount", "drain", "popped", "check",
     "send", "putDown", "dispatch", "ready", "done"}

(* The worker is inside a message callback that was given the connection.  *)
CallbackPoints == {"cannotVerify", "popped", "ready"}

(* MFList_InsertTail on a list seen as a sequence.                         *)
InsertHead(list, entry) == <<entry>> \o list

InsertTail(list, entry) == Append(list, entry)

(***************************************************************************)
(* MFConnection_Release.  At zero it disconnects, clears the queue, which  *)
(* releases one more reference per message, destroys the lock and frees    *)
(* the slot.  Nothing holds a reference then, so this is one step.         *)
(***************************************************************************)
ReleaseAtOne ==
    LET last == refCount = 2 IN
    /\ refCount' = IF last THEN 1 - Len(queue) ELSE refCount - 1
    /\ queue'    = IF last THEN << >> ELSE queue
    /\ state'    = IF last THEN "free" ELSE state
    /\ socket'   = IF last THEN "invalid" ELSE socket
    /\ closes'   = IF last /\ socket # "invalid" THEN closes + 1 ELSE closes

ReleaseConnection ==
    LET last == refCount = 1 IN
    /\ refCount' = IF last THEN 0 - Len(queue) ELSE refCount - 1
    /\ queue'    = IF last THEN << >> ELSE queue
    /\ state'    = IF last THEN "free" ELSE state
    /\ socket'   = IF last THEN "invalid" ELSE socket
    /\ closes'   = IF last /\ socket # "invalid" THEN closes + 1 ELSE closes

(* The first half of MFConnection_Disconnect: test, shutdown, close.       *)
CloseUntested == socket' = "closed" /\ closes' = closes + 1

CloseSocket ==
    /\ socket' = IF socket = "invalid" THEN socket ELSE "closed"
    /\ closes' = IF socket = "invalid" THEN closes ELSE closes + 1

(* Actors between closesocket and the store of INVALID_SOCKET.             *)
Disconnecting ==
    {t \in Apps : apc[t] = "closing"}
        \cup (IF wpc = "hupMark" THEN {Worker} ELSE {})

Init ==
    /\ holders \in SUBSET Apps
    /\ refCount = 1 + Cardinality(holders)
    /\ state = "handshake" /\ socket = "open" /\ queue = << >>
    /\ key = "none" /\ keysSet = 0 /\ tornUse = FALSE
    /\ connectionCount = 1 /\ terminated = FALSE
    /\ wpc = "loop" /\ failed = FALSE
    /\ fdCount = 0 /\ fds = NoEntry /\ revents = {}
    /\ incoming = << >> /\ hand = << >>
    /\ recvList = << >> /\ freed = 0 /\ cursor = 1
    /\ apc = [t \in Apps |-> "idle"]
    /\ sends = [t \in Apps |-> 0]
    /\ freePc = "idle"
    /\ inbox = << >> /\ arrived = 0 /\ peer = "open"
    /\ fault = "none" /\ base = TRUE /\ staleReleases = 0 /\ closes = 0
    /\ reports = << >> /\ waived = {} /\ delivered = << >>

(***************************************************************************)
(* The worker: top of the loop.                                            *)
(***************************************************************************)
(* A change of ConnectionCount replaces the array; success resets ret.     *)
WorkerResize ==
    /\ wpc = "loop" /\ ~terminated /\ fdCount # connectionCount
    /\ fdCount' = connectionCount
    /\ failed' = FALSE
    /\ wpc' = "build"
    /\ UNCHANGED <<fds, revents, connVars, keyVars, recvVars, workVars,
                   appVars, peerVars, brokerVars, fault>>

(* The allocation fails and the error callback decides: retry or leave.    *)
WorkerResizeFails ==
    /\ wpc = "loop" /\ ~terminated /\ fdCount # connectionCount
    /\ \/ wpc' = "loop" /\ failed' = FALSE
       \/ wpc' = "done" /\ failed' = TRUE
    /\ UNCHANGED <<pollVars, connVars, keyVars, recvVars, workVars, appVars,
                   peerVars, brokerVars, fault>>

WorkerKeepArray ==
    /\ wpc = "loop" /\ ~terminated /\ fdCount = connectionCount
    /\ wpc' = "build"
    /\ UNCHANGED <<failed, pollVars, connVars, keyVars, recvVars, workVars,
                   appVars, peerVars, brokerVars, fault>>

WorkerExit ==
    /\ wpc = "loop" /\ terminated
    /\ wpc' = "done"
    /\ UNCHANGED <<failed, pollVars, connVars, keyVars, recvVars, workVars,
                   appVars, peerVars, brokerVars, fault>>

(* The pollfd entry; the queue is read without SendLock.                   *)
PollEntryInputOnly == [open |-> socket # "invalid", out |-> FALSE]

PollEntry == [open |-> socket # "invalid", out |-> queue # << >>]

WorkerBuild ==
    /\ wpc = "build" /\ ~(fdCount = 1 /\ state = "free")
    /\ fds' = IF fdCount = 0 THEN fds ELSE PollEntry
    /\ wpc' = "poll"
    /\ UNCHANGED <<failed, fdCount, revents, connVars, keyVars, recvVars,
                   workVars, appVars, peerVars, brokerVars, fault>>

(* _MFConn_First found no connection for the entry: a null pointer is      *)
(* dereferenced, here or in the pass over the reported events.             *)
WorkerNullConnection ==
    /\ wpc \in {"build", "scan"} /\ fdCount = 1 /\ state = "free"
    /\ fault' = "nullConnection"
    /\ UNCHANGED <<wpc, failed, pollVars, connVars, keyVars, recvVars,
                   workVars, appVars, peerVars, brokerVars>>

(***************************************************************************)
(* WSAPoll.  A handle that was closed, or never valid, yields POLLNVAL,    *)
(* POLLHUP if the close happens during the call, or an error.              *)
(***************************************************************************)
Reportable ==
    IF socket # "open"
    THEN IF fds.open THEN {{"hup"}, {"nval"}} ELSE {{"nval"}}
    ELSE {r \in SUBSET {"in", "out", "hup", "err"} :
             /\ r # {}
             /\ "in" \in r => inbox # << >>
             /\ "out" \in r => fds.out
             /\ r \cap {"hup", "err"} # {} => peer = "closed"}

WorkerPollReady ==
    /\ wpc = "poll" /\ fdCount = 1
    /\ revents' \in Reportable
    /\ wpc' = "scan"
    /\ UNCHANGED <<failed, fdCount, fds, connVars, keyVars, recvVars,
                   workVars, appVars, peerVars, brokerVars, fault>>

WorkerPollTimeout ==
    /\ wpc = "poll"
    /\ wpc' = "dispatch"
    /\ UNCHANGED <<failed, pollVars, connVars, keyVars, recvVars, workVars,
                   appVars, peerVars, brokerVars, fault>>

(* SOCKET_ERROR: the worker asks itself to terminate.                      *)
WorkerPollFails ==
    /\ wpc = "poll" /\ (fdCount = 0 \/ socket # "open")
    /\ failed' = TRUE /\ terminated' = TRUE
    /\ wpc' = "dispatch"
    /\ UNCHANGED <<pollVars, connVars, keyVars, recvVars, workVars, appVars,
                   peerVars, connectionCount, freePc, base, fault>>

(***************************************************************************)
(* The pass over the reported events: POLLERR, POLLIN, POLLHUP, POLLOUT.   *)
(***************************************************************************)
AfterReceive ==
    IF "hup" \in revents THEN "hup"
    ELSE IF "out" \in revents THEN "drain"
    ELSE "dispatch"

WorkerScan ==
    /\ wpc = "scan" /\ state # "free"
    /\ wpc' = IF "err" \in revents THEN "hup"
              ELSE IF "in" \in revents THEN "recv"
              ELSE AfterReceive
    /\ UNCHANGED <<failed, pollVars, connVars, keyVars, recvVars, workVars,
                   appVars, peerVars, brokerVars, fault>>

(* _MFMessage_Recv.  It waits for every byte: a truncated message blocks   *)
(* it, and after an orderly close by the peer recv returns 0 for ever.     *)
WorkerReceive ==
    /\ wpc = "recv" /\ socket = "open"
    /\ inbox # << >> /\ Head(inbox).kind \notin {"short", "truncated"}
    /\ incoming' = <<Head(inbox)>>
    /\ inbox' = Tail(inbox)
    /\ failed' = FALSE
    /\ wpc' = "verify"
    /\ UNCHANGED <<hand, reports, tornUse, waived, arrived, peer, pollVars,
                   connVars, keyVars, recvVars, appVars, brokerVars, fault>>

(* The handle is gone or the announced size is invalid.                    *)
WorkerReceiveFails ==
    /\ wpc = "recv"
    /\ \/ socket # "open" /\ UNCHANGED inbox
       \/ /\ socket = "open" /\ inbox # << >> /\ Head(inbox).kind = "short"
          /\ inbox' = Tail(inbox)
    /\ failed' = TRUE
    /\ wpc' = AfterReceive
    /\ UNCHANGED <<arrived, peer, pollVars, connVars, keyVars, recvVars,
                   workVars, appVars, brokerVars, fault>>

(* Only the header was read when the allocation fails, so what follows in  *)
(* the stream is taken for a header next time.                             *)
WorkerReceiveNoMemory ==
    /\ wpc = "recv" /\ socket = "open"
    /\ inbox # << >> /\ Head(inbox).kind \notin {"short", "truncated"}
    /\ \E k \in {"short", "truncated"} \cap Kinds :
          inbox' = <<[n |-> Head(inbox).n, kind |-> k]>> \o Tail(inbox)
    /\ failed' = TRUE
    /\ wpc' = AfterReceive
    /\ UNCHANGED <<arrived, peer, pollVars, connVars, keyVars, recvVars,
                   workVars, appVars, brokerVars, fault>>

(* The message joins recvList with a reference to its connection.          *)
AcceptUncounted ==
    /\ recvList' = InsertTail(recvList, incoming[1])
    /\ UNCHANGED <<freed, cursor, delivered, staleReleases, connVars>>

Accept ==
    /\ recvList' = InsertTail(recvList, incoming[1])
    /\ refCount' = refCount + 1
    /\ UNCHANGED <<freed, cursor, delivered, staleReleases, state, socket,
                   queue, closes>>

(* ok is the value of ret == 0 after the checks.                           *)
FinishReceiveAnyway(ok) ==
    /\ failed' = ~ok
    /\ Accept
    /\ incoming' = << >>
    /\ wpc' = AfterReceive

FinishReceive(ok) ==
    /\ failed' = ~ok
    /\ IF ok THEN Accept ELSE UNCHANGED <<recvVars, connVars>>
    /\ incoming' = << >>
    /\ wpc' = AfterReceive

(* Verify a signature when there is a key; otherwise ask the application.  *)
(* MFBroker_Alloc never stores the broker's keys, so whether a sealed      *)
(* header opens with the zero key pair depends on the sender.              *)
WorkerVerify ==
    /\ wpc = "verify"
    /\ LET kind == incoming[1].kind
           checked == kind \in {"signed", "forged"} /\ state = "established"
       IN IF kind \in {"signed", "forged"} /\ ~checked
          THEN /\ wpc' = "cannotVerify"
               /\ UNCHANGED <<failed, incoming, tornUse, recvVars, connVars>>
          ELSE /\ \E ok \in BOOLEAN :
                     /\ kind = "plain" => ok
                     /\ kind = "forged" => ~ok
                     /\ kind = "signed" /\ key # "torn" => ok
                     /\ FinishReceive(ok)
               /\ tornUse' = (tornUse \/ (checked /\ key = "torn"))
    /\ UNCHANGED <<hand, reports, waived, pollVars, keyVars, appVars,
                   peerVars, brokerVars, fault>>

(* bmetCannotVerify returns; nonzero rejects the message.                  *)
WorkerCannotVerify ==
    /\ wpc = "cannotVerify"
    /\ \E ok \in BOOLEAN :
          /\ FinishReceive(ok)
          /\ waived' = IF ok THEN waived \cup {incoming[1].n} ELSE waived
    /\ UNCHANGED <<hand, reports, tornUse, pollVars, keyVars, appVars,
                   peerVars, brokerVars, fault>>

(* POLLERR and POLLHUP: disconnect, drop the table's reference, uncount.   *)
WorkerHangUp ==
    /\ wpc = "hup"
    /\ CloseSocket
    /\ wpc' = "hupMark"
    /\ UNCHANGED <<refCount, state, queue, failed, pollVars, keyVars,
                   recvVars, workVars, appVars, peerVars, brokerVars, fault>>

WorkerHangUpMark ==
    /\ wpc = "hupMark"
    /\ socket' = "invalid"
    /\ wpc' = "hupRelease"
    /\ UNCHANGED <<refCount, state, queue, closes, failed, pollVars, keyVars,
                   recvVars, workVars, appVars, peerVars, brokerVars, fault>>

WorkerHangUpRelease ==
    /\ wpc = "hupRelease"
    /\ ReleaseConnection
    /\ base' = FALSE
    /\ wpc' = "hupCount"
    /\ UNCHANGED <<failed, pollVars, keyVars, recvVars, workVars, appVars,
                   peerVars, connectionCount, terminated, freePc, fault>>

(* Both branches end in "continue": the entry is not looked at again.      *)
AfterHangUpFallThrough == IF "hup" \in revents THEN "hup" ELSE "dispatch"

AfterHangUp == "dispatch"

WorkerHangUpCount ==
    /\ wpc = "hupCount"
    /\ connectionCount' = connectionCount - 1
    /\ wpc' = AfterHangUp
    /\ UNCHANGED <<failed, pollVars, connVars, keyVars, recvVars, workVars,
                   appVars, peerVars, terminated, freePc, base, fault>>

(***************************************************************************)
(* POLLOUT: the queue is drained as long as nothing failed.                *)
(***************************************************************************)
WorkerPop ==
    /\ wpc = "drain" /\ ~failed /\ queue # << >>
    /\ hand' = <<Head(queue)>>
    /\ queue' = Tail(queue)
    /\ wpc' = "popped"
    /\ UNCHANGED <<refCount, state, socket, closes, incoming, reports, tornUse,
                   waived, failed, pollVars, keyVars, recvVars, appVars,
                   peerVars, brokerVars, fault>>

(* A failure of an earlier message, or of a receive in the same pass,      *)
(* leaves the queue as it is.                                              *)
WorkerDrainEnds ==
    /\ wpc = "drain" /\ (failed \/ queue = << >>)
    /\ wpc' = "dispatch"
    /\ UNCHANGED <<failed, pollVars, connVars, keyVars, recvVars, workVars,
                   appVars, peerVars, brokerVars, fault>>

(* The callbacks decide about encryption and signature; a message that     *)
(* cannot be encrypted for lack of a key may be refused.                   *)
WorkerPrepare ==
    /\ wpc = "popped"
    /\ \/ /\ wpc' = "check"
          /\ UNCHANGED <<failed, reports, tornUse>>
       \/ /\ state = "established"
          /\ tornUse' = (tornUse \/ key = "torn")
          /\ wpc' = "check"
          /\ UNCHANGED <<failed, reports>>
       \/ /\ state # "established"
          /\ failed' = TRUE
          /\ reports' = Append(reports, hand[1])
          /\ wpc' = "putDown"
          /\ UNCHANGED tornUse
    /\ UNCHANGED <<incoming, hand, waived, pollVars, connVars, keyVars,
                   recvVars, appVars, peerVars, brokerVars, fault>>

(* Disconnected is tested here and the socket is used in the next step.    *)
WorkerCheck ==
    /\ wpc = "check"
    /\ IF socket # "invalid"
       THEN wpc' = "send" /\ UNCHANGED <<failed, reports>>
       ELSE /\ failed' = TRUE
            /\ reports' = Append(reports, hand[1])
            /\ wpc' = "putDown"
    /\ UNCHANGED <<incoming, hand, tornUse, waived, pollVars, connVars,
                   keyVars, recvVars, appVars, peerVars, brokerVars, fault>>

WorkerSend ==
    /\ wpc = "send"
    /\ \E ok \in BOOLEAN :
          /\ ok => socket = "open"
          /\ failed' = ~ok
    /\ reports' = Append(reports, hand[1])
    /\ wpc' = "putDown"
    /\ UNCHANGED <<incoming, hand, tornUse, waived, pollVars, connVars,
                   keyVars, recvVars, appVars, peerVars, brokerVars, fault>>

(* The message gives up its connection reference and is freed.             *)
WorkerPutDown ==
    /\ wpc = "putDown"
    /\ ReleaseConnection
    /\ hand' = << >>
    /\ wpc' = "drain"
    /\ UNCHANGED <<incoming, reports, tornUse, waived, failed, pollVars,
                   keyVars, recvVars, appVars, peerVars, brokerVars, fault>>

(***************************************************************************)
(* Dispatch of recvList.  The list is initialised once, before the loop,   *)
(* so entries freed by an earlier iteration are walked again.              *)
(***************************************************************************)
WorkerReady ==
    /\ wpc = "dispatch" /\ cursor <= Len(recvList)
    /\ cursor <= freed => staleReleases < MaxStale
    /\ delivered' = Append(delivered, recvList[cursor])
    /\ wpc' = "ready"
    /\ UNCHANGED <<recvList, freed, cursor, staleReleases, failed,
                   pollVars, connVars, keyVars, workVars, appVars, peerVars,
                   brokerVars, fault>>

(* A message is put behind an entry that was freed by an earlier iteration,*)
(* as all entries were that were there before this one.                    *)
InsertsBehindFreed ==
    /\ freed > 0
    /\ \/ wpc = "cannotVerify"
       \/ wpc = "verify" /\ \/ incoming[1].kind \in {"plain", "sealed"}
                            \/ /\ incoming[1].kind = "signed"
                               /\ state = "established"

(* The list's freed entries are written by MFList_InsertTail and read by   *)
(* the walk.                                                               *)
WorkerUseAfterFree ==
    /\ InsertsBehindFreed \/ (wpc = "dispatch" /\ cursor <= freed)
    /\ fault' = "useAfterFree"
    /\ UNCHANGED <<wpc, failed, pollVars, connVars, keyVars, recvVars,
                   workVars, appVars, peerVars, brokerVars>>

(* bmetReady returned: release the connection, then the message.           *)
WorkerReadyReturns ==
    /\ wpc = "ready"
    /\ ReleaseConnection
    /\ staleReleases' = IF cursor <= freed THEN staleReleases + 1
                        ELSE staleReleases
    /\ freed' = IF cursor <= freed THEN freed ELSE cursor
    /\ cursor' = cursor + 1
    /\ wpc' = "dispatch"
    /\ UNCHANGED <<recvList, delivered, failed, pollVars, keyVars,
                   workVars, appVars, peerVars, brokerVars, fault>>

(* The array is filled anew in the next pass; what it held is forgotten.   *)
WorkerDispatched ==
    /\ wpc = "dispatch" /\ cursor > Len(recvList)
    /\ cursor' = 1
    /\ fds' = NoEntry /\ revents' = {}
    /\ wpc' = "loop"
    /\ UNCHANGED <<recvList, freed, delivered, staleReleases, failed, fdCount,
                   connVars, keyVars, workVars, appVars, peerVars, brokerVars,
                   fault>>

(***************************************************************************)
(* Application threads.  A thread uses the connection while it owns a      *)
(* reference; it takes one in a callback, or has one from the start.       *)
(***************************************************************************)
MayUse(t) == t \in holders /\ apc[t] = "idle" /\ state # "free"

AppAddRef(t) ==
    /\ t \notin holders /\ wpc \in CallbackPoints
    /\ freePc = "idle" /\ state # "free"
    /\ holders' = holders \cup {t}
    /\ refCount' = refCount + 1
    /\ UNCHANGED <<state, socket, queue, closes, apc, sends, keyVars,
                   pollVars, recvVars, workVars, peerVars, brokerVars, wpc,
                   failed, fault>>

AppRelease(t) ==
    /\ MayUse(t)
    /\ holders' = holders \ {t}
    /\ ReleaseConnection
    /\ UNCHANGED <<apc, sends, keyVars, pollVars, recvVars, workVars,
                   peerVars, brokerVars, wpc, failed, fault>>

(* MFConnection_SendAsync: a reference for the message, then the queue.    *)
AppSend(t) ==
    /\ MayUse(t) /\ sends[t] < MaxSends
    /\ sends' = [sends EXCEPT ![t] = @ + 1]
    /\ apc' = [apc EXCEPT ![t] = "inserting"]
    /\ refCount' = refCount + 1
    /\ UNCHANGED <<state, socket, queue, closes, holders, keyVars, pollVars,
                   recvVars, workVars, peerVars, brokerVars, wpc, failed,
                   fault>>

AppInsert(t) ==
    /\ apc[t] = "inserting" /\ state # "free"
    /\ queue' = InsertTail(queue, <<t, sends[t]>>)
    /\ apc' = [apc EXCEPT ![t] = "idle"]
    /\ UNCHANGED <<refCount, state, socket, closes, holders, sends, keyVars,
                   pollVars, recvVars, workVars, peerVars, brokerVars, wpc,
                   failed, fault>>

(* MFConnection_Disconnect by the application.                             *)
AppDisconnect(t) ==
    /\ MayUse(t) /\ socket # "invalid"
    /\ CloseSocket
    /\ apc' = [apc EXCEPT ![t] = "closing"]
    /\ UNCHANGED <<refCount, state, queue, holders, sends, keyVars, pollVars,
                   recvVars, workVars, peerVars, brokerVars, wpc, failed,
                   fault>>

AppDisconnectMark(t) ==
    /\ apc[t] = "closing"
    /\ socket' = "invalid"
    /\ apc' = [apc EXCEPT ![t] = "idle"]
    /\ UNCHANGED <<refCount, state, queue, closes, holders, sends, keyVars,
                   pollVars, recvVars, workVars, peerVars, brokerVars, wpc,
                   failed, fault>>

(* MFConnection_SetKey: the structure is copied, then State is stored.     *)
AppSetKey(t) ==
    /\ MayUse(t) /\ keysSet < MaxKeys
    /\ keysSet' = keysSet + 1
    /\ key' = "torn"
    /\ apc' = [apc EXCEPT ![t] = "keying"]
    /\ UNCHANGED <<holders, sends, connVars, pollVars, recvVars, workVars,
                   peerVars, brokerVars, wpc, failed, fault>>

AppKeySet(t) ==
    /\ apc[t] = "keying" /\ state # "free"
    /\ key' = IF \E u \in Apps \ {t} : apc[u] = "keying" THEN key ELSE "whole"
    /\ state' = "established"
    /\ apc' = [apc EXCEPT ![t] = "idle"]
    /\ UNCHANGED <<refCount, socket, queue, closes, keysSet, holders, sends,
                   pollVars, recvVars, workVars, peerVars, brokerVars, wpc,
                   failed, fault>>

(* A thread that owns a reference touches a connection already finalised.  *)
AppUseAfterFinalise(t) ==
    /\ t \in holders /\ state = "free"
    /\ fault' = "useAfterFinalise"
    /\ UNCHANGED <<wpc, failed, pollVars, connVars, keyVars, recvVars,
                   workVars, appVars, peerVars, brokerVars>>

(***************************************************************************)
(* MFBroker_Free.  The connection lives inside the broker's allocation, so *)
(* a correct caller has given up its own references before.                *)
(***************************************************************************)
FreeWithoutTerminate ==
    /\ freePc = "idle" /\ holders = {}
    /\ freePc' = "wait"
    /\ UNCHANGED <<connectionCount, terminated, base, wpc, failed, pollVars,
                   connVars, keyVars, recvVars, workVars, appVars, peerVars,
                   fault>>

FreeTerminate ==
    /\ freePc = "idle" /\ holders = {}
    /\ terminated' = TRUE
    /\ freePc' = "wait"
    /\ UNCHANGED <<connectionCount, base, wpc, failed, pollVars, connVars,
                   keyVars, recvVars, workVars, appVars, peerVars, fault>>

FreeWait ==
    /\ freePc = "wait" /\ wpc = "done"
    /\ freePc' = IF state = "free" THEN "freed" ELSE "clear"
    /\ UNCHANGED <<connectionCount, terminated, base, wpc, failed, pollVars,
                   connVars, keyVars, recvVars, workVars, appVars, peerVars,
                   fault>>

(* MFConnection_Clear: one release and one free per queued message.        *)
FreeClear ==
    /\ freePc = "clear" /\ refCount > Len(queue)
    /\ refCount' = refCount - Len(queue)
    /\ queue' = << >>
    /\ freePc' = "release"
    /\ UNCHANGED <<state, socket, closes, connectionCount, terminated, base,
                   wpc, failed, pollVars, keyVars, recvVars, workVars,
                   appVars, peerVars, fault>>

(* A release inside Clear reaches zero: the nested Clear walks the same    *)
(* list and frees every message of it a second time.                       *)
FreeClearTwice ==
    /\ freePc = "clear" /\ refCount <= Len(queue)
    /\ fault' = "doubleFree"
    /\ UNCHANGED <<wpc, failed, pollVars, connVars, keyVars, recvVars,
                   workVars, appVars, peerVars, brokerVars>>

FreeRelease ==
    /\ freePc = "release"
    /\ ReleaseConnection
    /\ base' = FALSE
    /\ freePc' = "freed"
    /\ UNCHANGED <<connectionCount, terminated, wpc, failed, pollVars,
                   keyVars, recvVars, workVars, appVars, peerVars, fault>>

(***************************************************************************)
(* The peer.                                                               *)
(***************************************************************************)
PeerSends ==
    /\ peer = "open" /\ arrived < MaxReceives
    /\ arrived' = arrived + 1
    /\ \E k \in Kinds : inbox' = Append(inbox, [n |-> arrived + 1, kind |-> k])
    /\ UNCHANGED <<peer, wpc, failed, pollVars, connVars, keyVars, recvVars,
                   workVars, appVars, brokerVars, fault>>

PeerCloses ==
    /\ peer = "open"
    /\ peer' = "closed"
    /\ UNCHANGED <<inbox, arrived, wpc, failed, pollVars, connVars, keyVars,
                   recvVars, workVars, appVars, brokerVars, fault>>

(***************************************************************************)
(* The specification.                                                      *)
(***************************************************************************)
WorkerReceiveStep ==
    \/ WorkerReceive \/ WorkerReceiveFails \/ WorkerReceiveNoMemory
    \/ WorkerVerify \/ WorkerCannotVerify

WorkerHangUpStep ==
    \/ WorkerHangUp \/ WorkerHangUpMark \/ WorkerHangUpRelease
    \/ WorkerHangUpCount

WorkerDrainStep ==
    \/ WorkerPop \/ WorkerDrainEnds \/ WorkerPrepare \/ WorkerCheck
    \/ WorkerSend \/ WorkerPutDown

WorkerDispatchStep ==
    \/ WorkerReady \/ WorkerUseAfterFree \/ WorkerReadyReturns
    \/ WorkerDispatched

WorkerLoopStep ==
    \/ WorkerResize \/ WorkerResizeFails \/ WorkerKeepArray \/ WorkerExit
    \/ WorkerBuild \/ WorkerNullConnection
    \/ WorkerPollReady \/ WorkerPollTimeout \/ WorkerPollFails
    \/ WorkerScan

WorkerStep ==
    \/ WorkerLoopStep \/ WorkerReceiveStep \/ WorkerHangUpStep
    \/ WorkerDrainStep \/ WorkerDispatchStep

AppFinish(t) == AppInsert(t) \/ AppDisconnectMark(t) \/ AppKeySet(t)

AppStep(t) ==
    \/ AppAddRef(t) \/ AppRelease(t) \/ AppSend(t) \/ AppDisconnect(t)
    \/ AppSetKey(t) \/ AppFinish(t) \/ AppUseAfterFinalise(t)

PeerStep == PeerSends \/ PeerCloses

FreeStep ==
    \/ FreeTerminate \/ FreeWait \/ FreeClear \/ FreeClearTwice \/ FreeRelease

Next ==
    /\ fault = "none"
    /\ \/ WorkerStep
       \/ \E t \in Apps : AppStep(t)
       \/ FreeStep
       \/ PeerStep

Spec == Init /\ [][Next]_vars

(* The worker runs, callbacks return, threads finish a call they began, a  *)
(* writable socket is reported in the end, memory is found in the end.     *)
Fairness ==
    /\ WF_vars(fault = "none" /\ WorkerStep)
    /\ SF_vars(fault = "none" /\ WorkerResize)
    /\ SF_vars(fault = "none" /\ WorkerPollReady /\ "out" \in revents')
    /\ WF_vars(fault = "none" /\ (FreeWait \/ FreeClear \/ FreeClearTwice
                                    \/ FreeRelease))
    /\ \A t \in Apps : WF_vars(fault = "none" /\ AppFinish(t))

FairSpec == Spec /\ Fairness

-----------------------------------------------------------------------------
ConnectionType ==
    /\ refCount \in Int
    /\ state \in {"free", "handshake", "established"}
    /\ socket \in {"open", "closed", "invalid"}
    /\ queue \in Seq(OutgoingMessage)
    /\ key \in {"none", "torn", "whole"}
    /\ connectionCount \in 0 .. 1 /\ base \in BOOLEAN
    /\ terminated \in BOOLEAN

WorkerType ==
    /\ wpc \in WorkerPoints /\ failed \in BOOLEAN
    /\ fdCount \in 0 .. 1
    /\ fds \in [open : BOOLEAN, out : BOOLEAN]
    /\ revents \in SUBSET {"in", "out", "hup", "err", "nval"}
    /\ incoming \in Seq(IncomingMessage)
    /\ hand \in Seq(OutgoingMessage)
    /\ recvList \in Seq(IncomingMessage)
    /\ freed \in Nat /\ cursor \in Nat \ {0}

CallerType ==
    /\ apc \in [Apps -> {"idle", "inserting", "closing", "keying"}]
    /\ holders \in SUBSET Apps
    /\ sends \in [Apps -> 0 .. MaxSends]
    /\ freePc \in {"idle", "wait", "clear", "release", "freed"}
    /\ inbox \in Seq(IncomingMessage)
    /\ arrived \in 0 .. MaxReceives
    /\ peer \in {"open", "closed"}

HistoryType ==
    /\ fault \in {"none", "nullConnection", "useAfterFree",
                   "useAfterFinalise", "doubleFree"}
    /\ staleReleases \in Nat /\ closes \in Nat
    /\ keysSet \in Nat /\ tornUse \in BOOLEAN
    /\ reports \in Seq(OutgoingMessage)
    /\ waived \in SUBSET (1 .. MaxReceives)
    /\ delivered \in Seq(IncomingMessage)

(* Every variable has its type.                                            *)
TypeOK == ConnectionType /\ WorkerType /\ CallerType /\ HistoryType

(* Everything that owns a reference to the connection: the table, every    *)
(* message queued, being inserted, being sent or received and not yet      *)
(* released, and the threads that called AddRef.                           *)
Inserting == {t \in Apps : apc[t] = "inserting"}

TableReference == IF base THEN 1 ELSE 0

WorkerOwners == TableReference + Len(hand) + (Len(recvList) - freed)

CallerOwners == Cardinality(holders) + Cardinality(Inserting)

Owners == WorkerOwners + CallerOwners

References == Len(queue) + Owners

(* ReferenceCount is the number of owners, less the releases the dispatch  *)
(* loop made through list entries it had already freed (lines 295-302).    *)
RefAccounting == refCount = References - staleReleases

(* As long as no freed entry was walked, the slot is free exactly when     *)
(* nobody owns a reference: no early finalisation, no slot kept for ever.  *)
FreeIffUnreferenced ==
    staleReleases = 0 => (state = "free" <=> References = 0)

(* No message accepted by SendAsync vanishes or changes place: what was    *)
(* reported, is being sent, or is queued is, for every thread, the messages*)
(* of its calls in the order of its calls, and all of them until the queue *)
(* is cleared.  A message being put down has its report already.           *)
Taken == IF wpc = "putDown" THEN reports ELSE reports \o hand

Pipeline == Taken \o queue

InOrder(s) ==
    \A i, j \in DOMAIN s : (i < j /\ s[i][1] = s[j][1]) => s[i][2] < s[j][2]

From(s, t) == {m \in Range(s) : m[1] = t}

Accepted(t) == sends[t] - (IF t \in Inserting THEN 1 ELSE 0)

Cleared == state = "free" \/ freePc \in {"release", "freed"}

Complete(s, t) == \A m \in From(s, t) : {t} \X (1 .. m[2]) \subseteq Range(s)

CallerOrder ==
    /\ InOrder(Pipeline)
    /\ \A t \in Apps :
        LET all == {t} \X (1 .. Accepted(t))
        IN  /\ From(Pipeline, t) \subseteq all /\ Complete(Pipeline, t)
            /\ Cleared \/ From(Pipeline, t) = all

(* The application sees a message whose signature is wrong only if it      *)
(* accepted it itself while there was no key, and sees no message twice    *)
(* except through freed list entries, once for each such entry walked.     *)
(* The key is never used half written unless SetKey is called again: State *)
(* is stored after the key (lines 617-618).                                *)
CheckedAndOnce ==
    /\ \A m \in Range(delivered) : m.kind = "forged" => m.n \in waived
    /\ Len(delivered) <= Cardinality(Range(delivered)) + staleReleases
          + (IF wpc = "ready" /\ cursor <= freed THEN 1 ELSE 0)
    /\ tornUse => keysSet > 1

(* Undefined behaviour has one of two causes: the freed entries recvList   *)
(* keeps, or a hang-up that dropped the table's reference while           *)
(* messages were queued, found by MFBroker_Free.                           *)
FaultCauses ==
    /\ fault = "useAfterFree" => freed > 0
    /\ fault \in {"nullConnection", "useAfterFinalise"} => staleReleases > 0
    /\ fault = "doubleFree" =>
          \/ ~base /\ queue # << >>
          \/ staleReleases > 0

(* closesocket is called on a handle already closed only when two threads  *)
(* are inside MFConnection_Disconnect at the same time (lines 569-574).    *)
NoDoubleClose ==
    [][closes' > closes => socket = "open" \/ Disconnecting # {}]_vars

(* A receive that waits for bytes the peer does not send.                  *)
Blocked ==
    /\ wpc = "recv" /\ socket = "open"
    /\ inbox = << >> \/ Head(inbox).kind = "truncated"

(* Queued messages leave the queue unless the connection or the worker is  *)
(* gone, a receive blocks, or the sticky ret holds the drain back.         *)
Stalled ==
    \/ failed \/ terminated \/ Blocked \/ fault # "none"
    \/ socket # "open" \/ peer = "closed" \/ wpc = "done"

QueueDrains == (queue # << >>) ~> (queue = << >> \/ Stalled)

(* MFBroker_Free returns unless a receive blocks the worker.               *)
FreeReturns ==
    (freePc = "wait") ~> (freePc = "freed" \/ Blocked \/ fault # "none")
=============================================================================

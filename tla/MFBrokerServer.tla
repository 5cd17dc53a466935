--------------------------- MODULE MFBrokerServer ---------------------------
(***************************************************************************)
(* A broker in server mode (mfbroker.c, Mode = bmServer): a thread that    *)
(* accepts connections into a table of slots, worker threads that each     *)
(* poll the slots on a walk of their own, MFBroker_Alloc, which starts     *)
(* these threads, and MFBroker_Free.                                       *)
(*                                                                         *)
(* The subject is the table, which no lock protects: the slots, the walks  *)
(* over them, ConnectionCount, and who refers to a connection: the table,  *)
(* the application, and the messages in the list of each worker, which is  *)
(* initialised once and never emptied.  What is in a message, and those    *)
(* queued to be sent, are the subject of MFBrokerClient.  A peer is a      *)
(* number, and a socket is the number of the peer it is connected to.  The *)
(* element size of the poll array (mfbroker.c:174) is not modelled.        *)
(***************************************************************************)
EXTENDS Integers, Sequences, FiniteSets, FiniteSetsExt, Functions

CONSTANTS
    MaxConnections,   \* _maxConnections
    ThreadCount,      \* _workerThreadCount
    FirstIndex,       \* Index of the first worker thread, modulo ThreadCount
    MaxPeers,         \* bound: connections requested by peers
    MaxMessages,      \* bound: messages in the list of a worker
    MaxStale          \* bound: releases of a slot through freed messages

ASSUME ServerAssumption ==
    /\ MaxConnections \in Nat \ {0}
    /\ ThreadCount \in Nat \ {0}
    /\ FirstIndex \in 0 .. ThreadCount - 1
    /\ {MaxPeers, MaxMessages, MaxStale} \subseteq Nat

Slots   == 0 .. MaxConnections - 1
Workers == 0 .. ThreadCount - 1
Peers   == 1 .. MaxPeers

NULL == -1
INVALID_SOCKET == 0

VARIABLES
    (* the table *)
    live,         \* State # mcsFree
    socket,       \* Socket
    refCount,     \* ReferenceCount
    connectionCount,
    (* worker threads *)
    wpc,          \* where each worker is: "none" before it was created
    terminated,   \* its Terminated flag
    array,        \* entries fds has room for, NULL if there is none
    fdCount,
    fds,          \* the sockets entered in the array
    revents,      \* what WSAPoll reported for each of them
    conn,         \* the slot the walk is at, or NULL
    index,        \* the entry of the array it stands for
    loaded,       \* value of ConnectionCount about to be stored, less one
    recvList,     \* the connections of the messages each has received
    freed,        \* how many leading messages of recvList are freed memory
    cursor,       \* the message of recvList it is dispatching
    (* the accepting thread *)
    apc,
    acceptTerminated,
    acceptFailed, \* ret # 0, which no iteration resets
    newSocket,
    newSlot,
    newCount,     \* value of ConnectionCount about to be stored, plus one
    (* the thread in MFBroker_Alloc and MFBroker_Free; the environment *)
    main,
    started,      \* worker threads created so far
    listening,    \* ListenSocket has not been closed
    peer,         \* what each peer does
    held,         \* slots to which the application has a reference
    base,         \* slots to which the table still has its own reference
    (* what happened *)
    closed,       \* sockets the broker has closed
    shifted,      \* workers for whom a slot was taken or freed since they
                  \* filled their array
    lostUpdate,   \* a store to ConnectionCount undid another one
    staleReleases,\* releases of each slot through freed messages
    astray,       \* a worker gave up a reference that was not its to give, a
                  \* slot was freed while it was referred to, or a reference
                  \* was taken to a slot without any
    overwritten,  \* a socket was dropped from its slot without being closed
    fault         \* memory misused

tableVars  == <<live, socket, refCount>>
listVars   == <<recvList, freed, cursor>>
walkVars   == <<terminated, array, fdCount, fds, revents, conn, index, loaded>>
workerVars == <<wpc, walkVars, listVars>>
acceptVars == <<apc, acceptTerminated, acceptFailed, newSocket, newSlot,
                newCount>>
mainVars   == <<main, started, listening>>
historyVars == <<closed, shifted, lostUpdate, staleReleases, astray,
                 overwritten, base>>

vars == <<tableVars, connectionCount, workerVars, acceptVars, mainVars, peer,
          held, historyVars, fault>>

(* MFBroker_Alloc has created the accepting thread.                        *)
Init ==
    /\ live = [s \in Slots |-> FALSE]
    /\ socket = [s \in Slots |-> INVALID_SOCKET]
    /\ refCount = [s \in Slots |-> 0]
    /\ connectionCount = 0
    /\ wpc = [w \in Workers |-> "none"]
    /\ terminated = [w \in Workers |-> FALSE]
    /\ array = [w \in Workers |-> NULL]
    /\ fdCount = [w \in Workers |-> 0]
    /\ fds = [w \in Workers |-> << >>]
    /\ revents = [w \in Workers |-> << >>]
    /\ conn = [w \in Workers |-> NULL]
    /\ index = [w \in Workers |-> 1]
    /\ loaded = [w \in Workers |-> 0]
    /\ recvList = [w \in Workers |-> << >>]
    /\ freed = [w \in Workers |-> 0] /\ cursor = [w \in Workers |-> 1]
    /\ apc = "poll" /\ acceptTerminated = FALSE /\ acceptFailed = FALSE
    /\ newSocket = INVALID_SOCKET /\ newSlot = NULL /\ newCount = 0
    /\ main = "create" /\ started = 0 /\ listening = TRUE
    /\ peer = [p \in Peers |-> "absent"]
    /\ held = {} /\ base = {}
    /\ closed = {} /\ shifted = {}
    /\ staleReleases = [s \in Slots |-> 0]
    /\ lostUpdate = FALSE /\ astray = FALSE /\ overwritten = FALSE
    /\ fault = "none"

(***************************************************************************)
(* _MFConn_Next and _MFConn_First: the next slot in use from a given one,  *)
(* in strides.  A walk that goes on from conn + 1 leaves the slots it      *)
(* began with.                                                             *)
(***************************************************************************)
NextConnUnbounded(from, step) ==
    LET used == {s \in Slots : s >= from /\ (s - from) % step = 0 /\ live[s]}
    IN  IF used = {} THEN MaxConnections ELSE Min(used)

NextConn(from, step) ==
    LET used == {s \in Slots : s >= from /\ (s - from) % step = 0 /\ live[s]}
    IN  IF used = {} THEN NULL ELSE Min(used)

(* The indices of the threads of a process are consecutive; those of one   *)
(* broker are too, if nobody else creates threads at the time.             *)
FirstConn(w) == NextConn((FirstIndex + w) % ThreadCount, ThreadCount)

FollowingConn(s) == NextConn(s + 1, ThreadCount)

(* _MFConn_FindFree                                                        *)
FindFree ==
    LET free == {s \in Slots : ~live[s]}
    IN  IF free = {} THEN NULL ELSE Min(free)

Sockets(S) == {socket[s] : s \in S} \ {INVALID_SOCKET}

CloseSocket(s) == closed' = closed \cup Sockets({s})

(* MFConnection_Release: the last reference closes the socket and frees    *)
(* the slot.                                                               *)
ReleaseConnection(s) ==
    /\ refCount' = [refCount EXCEPT ![s] = @ - 1]
    /\ IF refCount[s] = 1
       THEN /\ CloseSocket(s)
            /\ socket' = [socket EXCEPT ![s] = INVALID_SOCKET]
            /\ live' = [live EXCEPT ![s] = FALSE]
            /\ shifted' = Workers
       ELSE UNCHANGED <<closed, socket, live, shifted>>

(* The reference of the table, of each message, and a mutant: none.        *)
NoReference == 0

TableReference == 1

MessageReference == 1

(* MFConnection_AddRef: by a callback that is given the connection and may *)
(* take a reference, and for a message that is kept.                       *)
One(condition) == IF condition THEN 1 ELSE 0

AddReferences(s, messages) ==
    \E taken \in BOOLEAN :
        /\ taken => main \in {"create", "ready"} /\ s \notin held
        /\ held' = IF taken THEN held \cup {s} ELSE held
        /\ refCount' = [refCount EXCEPT ![s] = @ + One(taken) + messages]
        /\ astray' = (astray \/ (refCount'[s] # refCount[s]
                                  /\ refCount[s] <= 0))

(***************************************************************************)
(* A worker thread (_MFBrokerThreadRoutine).  What it will write again     *)
(* before it reads it is forgotten, to keep states few.                    *)
(***************************************************************************)
GoTo(w, place) == wpc' = [wpc EXCEPT ![w] = place]

(* The thread ends, its array and its list with it, and the listening      *)
(* socket is closed.                                                       *)
Exit(w) ==
    /\ GoTo(w, "exited")
    /\ array' = [array EXCEPT ![w] = NULL]
    /\ fdCount' = [fdCount EXCEPT ![w] = 0]
    /\ recvList' = [recvList EXCEPT ![w] = << >>]
    /\ freed' = [freed EXCEPT ![w] = 0]
    /\ listening' = FALSE
    /\ UNCHANGED <<terminated, fds, revents, conn, index, loaded, cursor>>

WorkerExit(w) ==
    /\ wpc[w] = "loop" /\ terminated[w]
    /\ Exit(w)
    /\ UNCHANGED <<tableVars, connectionCount, acceptVars, main, started, peer,
                   held, historyVars, fault>>

(* ConnectionCount is read to compare it with fdCount, again for the size  *)
(* of the array, and again for fdCount.                                    *)
WorkerResize(w) ==
    /\ wpc[w] = "loop" /\ ~terminated[w] /\ fdCount[w] # connectionCount
    /\ array' = [array EXCEPT ![w] = NULL]
    /\ GoTo(w, "resize")
    /\ UNCHANGED <<tableVars, connectionCount, terminated, fdCount, fds,
                   revents, conn, index, loaded, listVars, acceptVars,
                   mainVars, peer, held, historyVars, fault>>

WorkerAllocate(w) ==
    /\ wpc[w] = "resize"
    /\ array' = [array EXCEPT ![w] = connectionCount]
    /\ GoTo(w, "resized")
    /\ UNCHANGED <<tableVars, connectionCount, terminated, fdCount, fds,
                   revents, conn, index, loaded, listVars, acceptVars,
                   mainVars, peer, held, historyVars, fault>>

(* No memory: the error callback says whether to go on.                    *)
WorkerAllocateFails(w) ==
    /\ wpc[w] = "resize"
    /\ \/ /\ GoTo(w, "loop")
          /\ UNCHANGED <<walkVars, listVars, listening>>
       \/ Exit(w)
    /\ UNCHANGED <<tableVars, connectionCount, acceptVars, main, started,
                   peer, held, historyVars, fault>>

(* Whatever came of the poll, the messages in the list are dispatched.     *)
EndWalk(w) ==
    /\ conn' = [conn EXCEPT ![w] = NULL]
    /\ index' = [index EXCEPT ![w] = 1]
    /\ fds' = [fds EXCEPT ![w] = << >>]
    /\ revents' = [revents EXCEPT ![w] = << >>]
    /\ GoTo(w, IF recvList[w] = << >> THEN "loop" ELSE "dispatch")

StartWalk(w, place) ==
    /\ conn' = [conn EXCEPT ![w] = FirstConn(w)]
    /\ index' = [index EXCEPT ![w] = 1]
    /\ GoTo(w, place)

WorkerBuild(w) ==
    /\ \/ wpc[w] = "resized"
            /\ fdCount' = [fdCount EXCEPT ![w] = connectionCount]
       \/ wpc[w] = "loop" /\ ~terminated[w] /\ fdCount[w] = connectionCount
            /\ UNCHANGED fdCount
    /\ StartWalk(w, "build")
    /\ fds' = [fds EXCEPT ![w] = << >>]
    /\ shifted' = shifted \ {w}
    /\ UNCHANGED <<tableVars, connectionCount, terminated, array, revents,
                   loaded, listVars, acceptVars, mainVars, peer, held, closed,
                   lostUpdate, staleReleases, astray, overwritten, base,
                   fault>>

WorkerEntry(w) ==
    /\ wpc[w] = "build" /\ index[w] <= fdCount[w]
    /\ conn[w] # NULL /\ index[w] <= array[w]
    /\ fds' = [fds EXCEPT ![w] = Append(@, socket[conn[w]])]
    /\ conn' = [conn EXCEPT ![w] = FollowingConn(conn[w])]
    /\ index' = [index EXCEPT ![w] = @ + 1]
    /\ UNCHANGED <<tableVars, connectionCount, wpc, terminated, array, fdCount,
                   revents, loaded, listVars, acceptVars, mainVars, peer, held,
                   historyVars, fault>>

(* The walk ends before the array is full, or the array before fdCount.    *)
WorkerOutOfConnections(w) ==
    /\ wpc[w] \in {"build", "scan"} /\ index[w] <= fdCount[w]
    /\ conn[w] = NULL
    /\ fault' = "connection"
    /\ UNCHANGED <<tableVars, connectionCount, workerVars, acceptVars,
                   mainVars, peer, held, historyVars>>

WorkerOutOfArray(w) ==
    /\ wpc[w] = "build" /\ index[w] <= fdCount[w] /\ index[w] > array[w]
    /\ fault' = "array"
    /\ UNCHANGED <<tableVars, connectionCount, workerVars, acceptVars,
                   mainVars, peer, held, historyVars>>

(* What WSAPoll may report of a socket.  It returns when there is something*)
(* to report, or after its timeout; a closed socket may count as that.     *)
(* "both" is POLLIN with POLLHUP: the peer has gone and left some data.    *)
Polled(p) ==
    IF p = INVALID_SOCKET \/ p \in closed THEN {"invalid"}
    ELSE IF peer[p] = "gone" THEN {"hangup", "both"}
    ELSE {"nothing", "message"}

Events == {"invalid", "hangup", "both", "nothing", "message"}

Reports(w) ==
    {r \in [1 .. fdCount[w] -> Events] :
        \A i \in 1 .. fdCount[w] : r[i] \in Polled(fds[w][i])}

WorkerPoll(w) ==
    /\ wpc[w] = "build" /\ index[w] > fdCount[w]
    /\ \E report \in Reports(w) :
          /\ Range(report) # {"nothing"} /\ report # << >>
          /\ revents' = [revents EXCEPT ![w] = report]
    /\ fds' = [fds EXCEPT ![w] = << >>]
    /\ conn' = [conn EXCEPT ![w] = NULL]
    /\ index' = [index EXCEPT ![w] = 1]
    /\ GoTo(w, "polled")
    /\ UNCHANGED <<tableVars, connectionCount, terminated, array, fdCount,
                   loaded, listVars, acceptVars, mainVars, peer, held,
                   historyVars, fault>>

WorkerPollTimeout(w) ==
    /\ wpc[w] = "build" /\ index[w] > fdCount[w]
    /\ \E report \in Reports(w) :
          Range(report) \subseteq {"nothing", "invalid"}
    /\ EndWalk(w)
    /\ UNCHANGED <<tableVars, connectionCount, terminated, array, fdCount,
                   loaded, listVars, acceptVars, mainVars, peer, held,
                   historyVars, fault>>

(* It fails, as it does for an empty array.                                *)
WorkerPollFails(w) ==
    /\ wpc[w] = "build" /\ index[w] > fdCount[w]
    /\ terminated' = [terminated EXCEPT ![w] = TRUE]
    /\ EndWalk(w)
    /\ UNCHANGED <<tableVars, connectionCount, array, fdCount, loaded,
                   listVars, acceptVars, mainVars, peer, held, historyVars,
                   fault>>

(* The second walk looks at the table anew.                                *)
WorkerScan(w) ==
    /\ wpc[w] = "polled"
    /\ StartWalk(w, "scan")
    /\ UNCHANGED <<tableVars, connectionCount, terminated, array, fdCount, fds,
                   revents, loaded, listVars, acceptVars, mainVars, peer, held,
                   historyVars, fault>>

Reported(w, event) ==
    /\ wpc[w] = "scan" /\ index[w] <= fdCount[w] /\ conn[w] # NULL
    /\ revents[w][index[w]] = event

Advance(w) ==
    /\ conn' = [conn EXCEPT ![w] = FollowingConn(conn[w])]
    /\ index' = [index EXCEPT ![w] = @ + 1]
    /\ revents' = [revents EXCEPT ![w][index[w]] = "nothing"]
    /\ GoTo(w, "scan")

WorkerSkipEntry(w) ==
    /\ Reported(w, "nothing") \/ Reported(w, "invalid")
    /\ index' = [index EXCEPT ![w] = @ + 1]
    /\ UNCHANGED <<tableVars, connectionCount, wpc, terminated, array, fdCount,
                   fds, revents, conn, loaded, listVars, acceptVars, mainVars,
                   peer, held, historyVars, fault>>

WorkerSkip(w) ==
    /\ Reported(w, "nothing") \/ Reported(w, "invalid")
    /\ Advance(w)
    /\ UNCHANGED <<tableVars, connectionCount, terminated, array, fdCount, fds,
                    loaded, listVars, acceptVars, mainVars, peer, held,
                   historyVars, fault>>

(* _MFMessage_Recv reads from the socket that is in the slot now.  If there*)
(* is not a whole message, it blocks in recv, or asks recv again and again *)
(* once the peer has closed (line 42), until more arrives or recv fails.   *)
Readable(w) ==
    /\ Reported(w, "message") \/ Reported(w, "both")
    /\ socket[conn[w]] \notin closed \cup {INVALID_SOCKET}

WorkerReceive(w) ==
    /\ Readable(w)
    /\ GoTo(w, "receiving")
    /\ UNCHANGED <<tableVars, connectionCount, walkVars, listVars, acceptVars,
                   mainVars, peer, held, historyVars, fault>>

(* What is left to do for an entry after its POLLIN: POLLHUP, or nothing.  *)
ReceiveDone(w) ==
    IF revents[w][index[w]] = "both"
    THEN /\ revents' = [revents EXCEPT ![w][index[w]] = "hangup"]
         /\ GoTo(w, "scan")
         /\ UNCHANGED <<conn, index>>
    ELSE Advance(w)

(* The receipt fails, or the signature or the header does not hold.        *)
WorkerDrop(w) ==
    /\ Reported(w, "message") \/ Reported(w, "both") \/ wpc[w] = "receiving"
    /\ AddReferences(conn[w], 0)
    /\ ReceiveDone(w)
    /\ UNCHANGED <<live, socket, connectionCount, terminated, array, fdCount,
                   fds, loaded, listVars, acceptVars, mainVars, peer, closed,
                   shifted, lostUpdate, staleReleases, overwritten, base,
                   fault>>

(* A message is kept in recvList and has a reference to its connection.    *)
WorkerKeep(w) ==
    /\ Readable(w) \/ wpc[w] = "receiving"
    /\ Len(recvList[w]) < MaxMessages
    /\ AddReferences(conn[w], MessageReference)
    /\ recvList' = [recvList EXCEPT ![w] = Append(@, conn[w])]
    /\ ReceiveDone(w)
    /\ UNCHANGED <<live, socket, connectionCount, terminated, array, fdCount,
                   fds, loaded, freed, cursor, acceptVars, mainVars, peer,
                   closed, shifted, lostUpdate, staleReleases, overwritten,
                   base, fault>>

(* POLLERR or POLLHUP: MFConnection_Disconnect, MFConnection_Release and   *)
(* --ConnectionCount.                                                      *)
WorkerHangUp(w) ==
    /\ Reported(w, "hangup")
    /\ CloseSocket(conn[w])
    /\ GoTo(w, "mark")
    /\ UNCHANGED <<tableVars, connectionCount, terminated, array, fdCount, fds,
                   revents, conn, index, loaded, listVars, acceptVars,
                   mainVars, peer, held, shifted, lostUpdate, staleReleases,
                   astray, overwritten, base, fault>>

WorkerMark(w) ==
    /\ wpc[w] = "mark"
    /\ socket' = [socket EXCEPT ![conn[w]] = INVALID_SOCKET]
    /\ overwritten' = (overwritten \/ socket[conn[w]] \notin
                                          closed \cup {INVALID_SOCKET})
    /\ GoTo(w, "release")
    /\ UNCHANGED <<live, refCount, connectionCount, terminated, array, fdCount,
                   fds, revents, conn, index, loaded, listVars, acceptVars,
                   mainVars, peer, held, closed, shifted, lostUpdate,
                   staleReleases, astray, base, fault>>

(* The last reference of slot s that is counted is given up while it has   *)
(* owners left.                                                            *)
FreedInUse(s) == refCount[s] = 1 /\ staleReleases'[s] > 0

WorkerRelease(w) ==
    /\ wpc[w] = "release"
    /\ ReleaseConnection(conn[w])
    /\ base' = base \ {conn[w]}
    /\ staleReleases' = staleReleases
    /\ astray' = (astray \/ conn[w] \notin base
                         \/ socket[conn[w]] # INVALID_SOCKET
                         \/ FreedInUse(conn[w]))
    /\ GoTo(w, "load")
    /\ UNCHANGED <<connectionCount, walkVars, listVars, acceptVars, mainVars,
                   peer, held, lostUpdate, overwritten, fault>>

WorkerKeepCount(w) ==
    /\ wpc[w] = "load"
    /\ Advance(w)
    /\ UNCHANGED <<tableVars, connectionCount, terminated, array, fdCount, fds,
                    loaded, listVars, acceptVars, mainVars, peer, held,
                   historyVars, fault>>

WorkerLoad(w) ==
    /\ wpc[w] = "load"
    /\ loaded' = [loaded EXCEPT ![w] = connectionCount]
    /\ GoTo(w, "store")
    /\ UNCHANGED <<tableVars, connectionCount, terminated, array, fdCount, fds,
                   revents, conn, index, listVars, acceptVars, mainVars, peer,
                   held, historyVars, fault>>

WorkerStore(w) ==
    /\ wpc[w] = "store"
    /\ connectionCount' = loaded[w] - 1
    /\ lostUpdate' = (lostUpdate \/ connectionCount # loaded[w])
    /\ loaded' = [loaded EXCEPT ![w] = 0]
    /\ Advance(w)
    /\ UNCHANGED <<tableVars, terminated, array, fdCount, fds,
                   listVars, acceptVars, mainVars, peer, held, closed, shifted,
                   staleReleases, astray, overwritten, base, fault>>

WorkerScanned(w) ==
    /\ wpc[w] = "scan" /\ index[w] > fdCount[w]
    /\ EndWalk(w)
    /\ UNCHANGED <<tableVars, connectionCount, terminated, array, fdCount,
                   loaded, listVars, acceptVars, mainVars, peer, held,
                   historyVars, fault>>

(***************************************************************************)
(* Dispatch of recvList: every message in it, those freed in an earlier    *)
(* pass too, gives its connection to the callback and releases it.         *)
(***************************************************************************)
Dispatched(w) == recvList[w][cursor[w]]

WorkerReady(w) ==
    /\ wpc[w] = "dispatch"
    /\ cursor[w] <= freed[w] => staleReleases[Dispatched(w)] < MaxStale
    /\ AddReferences(Dispatched(w), 0)
    /\ GoTo(w, "ready")
    /\ UNCHANGED <<live, socket, connectionCount, walkVars, listVars,
                   acceptVars, mainVars, peer, closed, shifted, lostUpdate,
                   staleReleases, overwritten, base, fault>>

WorkerReadyReturns(w) ==
    /\ wpc[w] = "ready"
    /\ ReleaseConnection(Dispatched(w))
    /\ staleReleases' = [staleReleases EXCEPT
           ![Dispatched(w)] = @ + One(cursor[w] <= freed[w])]
    /\ astray' = (astray \/ FreedInUse(Dispatched(w)))
    /\ freed' = [freed EXCEPT ![w] = Max({@, cursor[w]})]
    /\ IF cursor[w] = Len(recvList[w])
       THEN cursor' = [cursor EXCEPT ![w] = 1] /\ GoTo(w, "loop")
       ELSE cursor' = [cursor EXCEPT ![w] = @ + 1] /\ GoTo(w, "dispatch")
    /\ UNCHANGED <<connectionCount, walkVars, recvList, acceptVars, mainVars,
                   peer, held, lostUpdate, overwritten, base, fault>>

(* The walk reads a message that was freed, or one is put behind it.       *)
WorkerUseAfterFree(w) ==
    /\ \/ wpc[w] = "dispatch" /\ cursor[w] <= freed[w]
       \/ /\ Readable(w) \/ wpc[w] = "receiving"
          /\ freed[w] > 0 /\ freed[w] = Len(recvList[w])
    /\ fault' = "useAfterFree"
    /\ UNCHANGED <<tableVars, connectionCount, workerVars, acceptVars,
                   mainVars, peer, held, historyVars>>

(***************************************************************************)
(* The accepting thread (_MFBrokerServerThread), which forgets likewise.   *)
(***************************************************************************)
AcceptExit ==
    /\ apc = "poll" /\ acceptTerminated
    /\ apc' = "exited"
    /\ UNCHANGED <<tableVars, connectionCount, workerVars, acceptTerminated,
                   acceptFailed, newSocket, newSlot, newCount, mainVars, peer,
                   held, historyVars, fault>>

(* Mutant: one connection at a time.                                       *)
AcceptingOnce ==
    /\ apc = "poll" /\ ~acceptTerminated /\ ~acceptFailed /\ listening
    /\ connectionCount = 0

(* Nothing is accepted any more once ret # 0.                              *)
Accepting ==
    apc = "poll" /\ ~acceptTerminated /\ ~acceptFailed /\ listening

AcceptConnection(p) ==
    /\ Accepting /\ peer[p] = "waiting"
    /\ \A q \in 1 .. p - 1 : peer[q] # "waiting"
    /\ peer' = [peer EXCEPT ![p] = "connected"]
    /\ newSocket' = p
    /\ apc' = "find"
    /\ UNCHANGED <<tableVars, connectionCount, workerVars, acceptTerminated,
                   acceptFailed, newSlot, newCount, mainVars, held,
                   historyVars, fault>>

(* POLLERR, or accept fails.                                               *)
AcceptFails ==
    /\ apc = "poll" /\ ~acceptTerminated /\ ~acceptFailed
    /\ acceptFailed' = TRUE
    /\ UNCHANGED <<tableVars, connectionCount, workerVars, apc,
                   acceptTerminated, newSocket, newSlot, newCount, mainVars,
                   peer, held, historyVars, fault>>

AcceptPollFails ==
    /\ apc = "poll" /\ ~acceptTerminated
    /\ acceptTerminated' = TRUE /\ acceptFailed' = TRUE
    /\ UNCHANGED <<tableVars, connectionCount, workerVars, apc, newSocket,
                   newSlot, newCount, mainVars, peer, held, historyVars,
                   fault>>

CloseNewSocket ==
    /\ closed' = closed \cup {newSocket}
    /\ newSocket' = INVALID_SOCKET

AcceptFind ==
    /\ apc = "find"
    /\ newSlot' = FindFree
    /\ IF newSlot' # NULL
       THEN /\ apc' = "initialise"
            /\ UNCHANGED <<acceptFailed, closed, newSocket>>
       ELSE /\ apc' = "poll" /\ acceptFailed' = TRUE
            /\ CloseNewSocket
    /\ UNCHANGED <<tableVars, connectionCount, workerVars, acceptTerminated,
                   newCount, mainVars, peer, held, shifted, lostUpdate,
                   staleReleases, astray, overwritten, base, fault>>

(* _MFConn_Init clears the slot, fills it, and stores State at the end.    *)
AcceptInitialise ==
    /\ apc = "initialise"
    /\ staleReleases' = [staleReleases EXCEPT ![newSlot] = 0]
    /\ \/ /\ socket' = [socket EXCEPT ![newSlot] = newSocket]
          /\ refCount' = [refCount EXCEPT ![newSlot] = TableReference]
          /\ apc' = "state" /\ newSocket' = INVALID_SOCKET
          /\ UNCHANGED <<acceptFailed, closed, newSlot>>
       \/ /\ socket' = [socket EXCEPT ![newSlot] = INVALID_SOCKET]
          /\ refCount' = [refCount EXCEPT ![newSlot] = 0]
          /\ apc' = "poll" /\ acceptFailed' = TRUE
          /\ CloseNewSocket /\ newSlot' = NULL
    /\ UNCHANGED <<live, connectionCount, workerVars, acceptTerminated,
                   newCount, mainVars, peer, held, shifted, lostUpdate, astray,
                   overwritten, base, fault>>

AcceptState ==
    /\ apc = "state"
    /\ live' = [live EXCEPT ![newSlot] = TRUE]
    /\ base' = base \cup {newSlot}
    /\ shifted' = Workers
    /\ apc' = "load" /\ newSlot' = NULL
    /\ UNCHANGED <<socket, refCount, connectionCount, workerVars,
                   acceptTerminated, acceptFailed, newSocket, newCount,
                   mainVars, peer, held, closed, lostUpdate, staleReleases,
                   astray, overwritten, fault>>

AcceptKeepCount ==
    /\ apc = "load" /\ apc' = "poll"
    /\ UNCHANGED <<tableVars, connectionCount, workerVars, acceptTerminated,
                   acceptFailed, newSocket, newSlot, newCount, mainVars, peer,
                   held, historyVars, fault>>

AcceptLoad ==
    /\ apc = "load"
    /\ newCount' = connectionCount
    /\ apc' = "store"
    /\ UNCHANGED <<tableVars, connectionCount, workerVars, acceptTerminated,
                   acceptFailed, newSocket, newSlot, mainVars, peer, held,
                   historyVars, fault>>

AcceptStore ==
    /\ apc = "store"
    /\ connectionCount' = newCount + 1
    /\ lostUpdate' = (lostUpdate \/ connectionCount # newCount)
    /\ apc' = "poll" /\ newCount' = 0
    /\ UNCHANGED <<tableVars, workerVars, acceptTerminated, acceptFailed,
                   newSocket, newSlot, mainVars, peer, held, closed,
                   shifted, staleReleases, astray, overwritten, base, fault>>

(***************************************************************************)
(* MFBroker_Alloc: the worker threads are created one by one, and if one   *)
(* cannot be, those before it and the accepting thread are stopped.        *)
(***************************************************************************)
AllocCreate ==
    /\ main = "create" /\ started < ThreadCount
    /\ GoTo(started, "loop")
    /\ started' = started + 1
    /\ main' = IF started' = ThreadCount THEN "ready" ELSE "create"
    /\ UNCHANGED <<tableVars, connectionCount, terminated, array, fdCount, fds,
                   revents, conn, index, loaded, listVars, acceptVars,
                   listening, peer, held, historyVars, fault>>

AllocCreateFails ==
    /\ main = "create" /\ started < ThreadCount
    /\ terminated' = [w \in Workers |-> w < started]
    /\ main' = "undo"
    /\ UNCHANGED <<tableVars, connectionCount, wpc, array, fdCount, fds,
                   revents, conn, index, loaded, listVars, acceptVars, started,
                   listening, peer, held, historyVars, fault>>

WorkersExited == \A w \in Workers : w < started => wpc[w] = "exited"

(* MFThread_WaitFor for the workers, then the accepting thread is told.    *)
WorkersJoined ==
    /\ WorkersExited
    /\ acceptTerminated' = TRUE
    /\ UNCHANGED <<tableVars, connectionCount, workerVars, apc, acceptFailed,
                   newSocket, newSlot, newCount, started,
                   listening, peer, held, historyVars, fault>>

AllocUndoJoin == main = "undo" /\ main' = "undoAccept" /\ WorkersJoined

(* What was accepted meanwhile stays in the table that is freed.           *)
AllocReturnsError ==
    /\ main = "undoAccept" /\ apc = "exited"
    /\ listening' = FALSE
    /\ main' = "failed"
    /\ UNCHANGED <<tableVars, connectionCount, workerVars, acceptVars, started,
                   peer, held, historyVars, fault>>

(***************************************************************************)
(* MFBroker_Free, by a caller that has given back its references.          *)
(***************************************************************************)
FreeTerminate ==
    /\ main = "ready" /\ held = {}
    /\ terminated' = [w \in Workers |-> TRUE]
    /\ main' = "free"
    /\ UNCHANGED <<tableVars, connectionCount, wpc, array, fdCount, fds,
                   revents, conn, index, loaded, listVars, acceptVars, started,
                   listening, peer, held, historyVars, fault>>

FreeJoin == main = "free" /\ main' = "freeAccept" /\ WorkersJoined

(* MFConnection_Clear has no messages to release here.                     *)
ReleaseNone == UNCHANGED <<live, socket, refCount, closed>>

ReleaseAll ==
    LET last == {s \in Slots : live[s] /\ refCount[s] = 1}
    IN  /\ refCount' = [s \in Slots |-> IF live[s] THEN refCount[s] - 1
                                        ELSE refCount[s]]
        /\ live' = [s \in Slots |-> live[s] /\ s \notin last]
        /\ closed' = closed \cup Sockets(last)
        /\ socket' = [s \in Slots |-> IF s \in last THEN INVALID_SOCKET
                                      ELSE socket[s]]

FreeRelease ==
    /\ main = "freeAccept" /\ apc = "exited"
    /\ listening' = FALSE
    /\ ReleaseAll
    /\ base' = {}
    /\ main' = "freed"
    /\ UNCHANGED <<connectionCount, workerVars, acceptVars, started, peer,
                   held, shifted, lostUpdate, staleReleases, astray,
                   overwritten, fault>>

(***************************************************************************)
(* The application gives a reference back.  Peers ask for connections and  *)
(* go away.                                                                *)
(***************************************************************************)
AppRelease(s) ==
    /\ s \in held
    /\ held' = held \ {s}
    /\ ReleaseConnection(s)
    /\ staleReleases' = staleReleases
    /\ astray' = (astray \/ FreedInUse(s))
    /\ UNCHANGED <<connectionCount, workerVars, acceptVars, mainVars, peer,
                   lostUpdate, overwritten, base, fault>>

(* Peers are numbered in the order in which they ask, and accept takes     *)
(* them in that order.                                                     *)
PeerConnects(p) ==
    /\ peer[p] = "absent" /\ listening
    /\ \A q \in 1 .. p - 1 : peer[q] # "absent"
    /\ peer' = [peer EXCEPT ![p] = "waiting"]
    /\ UNCHANGED <<tableVars, connectionCount, workerVars, acceptVars,
                   mainVars, held, historyVars, fault>>

(* One whose socket was closed has no part in anything any more.           *)
PeerGoes(p) ==
    /\ peer[p] = "connected" /\ p \notin closed
    /\ peer' = [peer EXCEPT ![p] = "gone"]
    /\ UNCHANGED <<tableVars, connectionCount, workerVars, acceptVars,
                   mainVars, held, historyVars, fault>>

WorkerStep(w) ==
    \/ WorkerExit(w) \/ WorkerResize(w)
    \/ WorkerAllocate(w) \/ WorkerAllocateFails(w)
    \/ WorkerBuild(w) \/ WorkerEntry(w)
    \/ WorkerOutOfConnections(w) \/ WorkerOutOfArray(w)
    \/ WorkerPoll(w) \/ WorkerPollTimeout(w) \/ WorkerPollFails(w)
    \/ WorkerScan(w) \/ WorkerSkip(w) \/ WorkerScanned(w)
    \/ WorkerReceive(w) \/ WorkerDrop(w) \/ WorkerKeep(w)
    \/ WorkerReady(w) \/ WorkerReadyReturns(w) \/ WorkerUseAfterFree(w)
    \/ WorkerHangUp(w) \/ WorkerMark(w) \/ WorkerRelease(w)
    \/ WorkerLoad(w) \/ WorkerStore(w)

AcceptRest ==
    AcceptFind \/ AcceptInitialise \/ AcceptState \/ AcceptLoad \/ AcceptStore

AcceptStep ==
    \/ AcceptExit \/ AcceptFails \/ AcceptPollFails \/ AcceptRest
    \/ \E p \in Peers : AcceptConnection(p)

MainStep ==
    \/ AllocCreate \/ AllocCreateFails \/ AllocUndoJoin \/ AllocReturnsError
    \/ FreeTerminate \/ FreeJoin \/ FreeRelease

Next ==
    /\ fault = "none"
    /\ \/ \E w \in Workers : WorkerStep(w)
       \/ AcceptStep
       \/ MainStep
       \/ \E s \in Slots : AppRelease(s)
       \/ \E p \in Peers : PeerConnects(p) \/ PeerGoes(p)

Spec == Init /\ [][Next]_vars

(* The threads that were created run, but a recv that waits for the rest   *)
(* of a message need not return; memory that is asked for again and again  *)
(* is had at last; and a peer that waits to be accepted is accepted when   *)
(* the accepting thread polls.                                             *)
AcceptNext == AcceptRest \/ \E p \in Peers : AcceptConnection(p)

Fairness ==
    /\ WF_vars(fault = "none" /\ AcceptNext)
    /\ \A w \in Workers :
          /\ WF_vars(fault = "none" /\ wpc[w] # "receiving" /\ WorkerStep(w))
          /\ SF_vars(fault = "none" /\ WorkerAllocate(w))

FairSpec == Spec /\ Fairness

-----------------------------------------------------------------------------
(* Every variable has its type.                                            *)
TypeOK ==
    /\ live \in [Slots -> BOOLEAN]
    /\ socket \in [Slots -> Peers \cup {INVALID_SOCKET}]
    /\ refCount \in [Slots -> Int] /\ connectionCount \in Int
    /\ wpc \in [Workers -> {"none", "loop", "resize", "resized", "build",
                            "polled", "scan", "receiving", "mark", "release",
                            "load", "store", "dispatch", "ready", "exited"}]
    /\ terminated \in [Workers -> BOOLEAN] /\ loaded \in [Workers -> Int]
    /\ array \in [Workers -> Int] /\ fdCount \in [Workers -> Int]
    /\ conn \in [Workers -> Slots \cup {NULL}] /\ index \in [Workers -> Nat]
    /\ fds \in [Workers -> Seq(Peers \cup {INVALID_SOCKET})]
    /\ recvList \in [Workers -> Seq(Slots)]
    /\ freed \in [Workers -> Nat] /\ cursor \in [Workers -> Nat \ {0}]
    /\ staleReleases \in [Slots -> Nat]
    /\ apc \in {"poll", "find", "initialise", "state", "load", "store",
                "exited"}
    /\ {acceptTerminated, acceptFailed, listening, lostUpdate, astray,
        overwritten} \subseteq BOOLEAN
    /\ newSocket \in Peers \cup {INVALID_SOCKET}
    /\ newSlot \in Slots \cup {NULL} /\ newCount \in Int
    /\ main \in {"create", "ready", "undo", "undoAccept", "failed", "free",
                 "freeAccept", "freed"}
    /\ started \in 0 .. ThreadCount
    /\ peer \in [Peers -> {"absent", "waiting", "connected", "gone"}]
    /\ held \subseteq Slots /\ base \subseteq Slots
    /\ shifted \subseteq Workers
    /\ closed \subseteq Peers
    /\ fault \in {"none", "connection", "array", "useAfterFree"}

(* ReferenceCount is the number of references, that of the table, that of  *)
(* the application and those of the messages not dispatched yet, less what *)
(* the dispatch loop gave up through messages it had already freed         *)
(* (mfbroker.c:232-235, 295-302).  This holds until the last reference     *)
(* that is counted is given up while the connection has owners left, a     *)
(* worker hangs up a connection that is not the one it had found, or a     *)
(* reference is taken to a slot another worker has freed since it was      *)
(* found (202-245): references there are lost when the slot is taken anew  *)
(* (line 107).                                                             *)
Messages(s) ==
    {m \in Workers \X (1 .. MaxMessages) :
        /\ freed[m[1]] < m[2] /\ m[2] <= Len(recvList[m[1]])
        /\ recvList[m[1]][m[2]] = s}

Owners(s) ==
    One(s \in base) + One(s \in held) + One(apc = "state" /\ s = newSlot)
        + Cardinality(Messages(s))

ReferencesCounted ==
    ~astray => \A s \in Slots : refCount[s] = Owners(s) - staleReleases[s]

(* ConnectionCount is the number of connections the table refers to, less  *)
(* one that is just being added and plus those just being taken out, as    *)
(* long as no two updates overlap (mfbroker.c:208, 246, 357).  A single    *)
(* worker then finds as many connections in both of its walks: the count   *)
(* follows State when a connection is added, and a slot is freed late when *)
(* one is taken out (mfbroker.c:187-197, 202-210).  It does not once a     *)
(* slot was freed that is still counted: the dispatch loop releases the    *)
(* connection of a message again in every later pass (line 300), and frees *)
(* the slot without taking it from the count.                              *)
CountExact ==
    /\ (~lostUpdate /\ ~astray /\ main # "freed") =>
        connectionCount =
            Cardinality(base) - One(apc \in {"load", "store"})
                + Cardinality({w \in Workers : wpc[w] \in {"load", "store"}})
    /\ (ThreadCount = 1 /\ fault = "connection") => lostUpdate \/ astray

(* A worker closes a connection whose peer is still there only if a slot   *)
(* was taken or freed since it filled its array: its second walk then      *)
(* takes an entry of the array for another connection's, or the connection *)
(* it hangs up was freed meanwhile and its slot taken anew                 *)
(* (mfbroker.c:187, 202-207); or in the dispatch loop, by a release of a   *)
(* connection that was released through a freed message, or when the slots *)
(* and their references have come apart before (line 300).                 *)
HangUpJustified ==
    [][\A w \in Workers, p \in closed' \ closed :
          wpc'[w] # wpc[w] =>
              \/ peer[p] = "gone"
              \/ w \in shifted /\ wpc[w] \in {"scan", "release"}
              \/ wpc[w] = "ready"
                   /\ (astray \/ staleReleases'[Dispatched(w)] > 0)]_vars

(* MFBroker_Free leaves no socket open that was accepted, whatever went    *)
(* wrong before, unless a worker stored INVALID_SOCKET over the socket of  *)
(* a slot that had been taken anew (mfbroker.c:526-531, 574).              *)
SocketsClosed ==
    main = "freed" =>
        overwritten
            \/ \A p \in Peers :
                  peer[p] \in {"connected", "gone"} => p \in closed

(* A peer asks for a connection once, so a time when nobody waits comes if *)
(* and only if each of them has been answered; the same for the sockets    *)
(* of peers that have gone.                                                *)
Waiting   == {p \in Peers : peer[p] = "waiting"}
Unnoticed == {p \in Peers : peer[p] = "gone" /\ p \notin closed}

(* Peers that ask for a connection are accepted, or refused for want of a  *)
(* slot, as long as nothing failed in the accepting thread, whose ret is   *)
(* never reset, and no worker has ended and closed the listening socket    *)
(* (mfbroker.c:336, 309).                                                  *)
PeersServed ==
    []<>(Waiting = {} \/ acceptFailed \/ acceptTerminated \/ ~listening
            \/ fault # "none")

(* The sockets of peers that have gone are closed by a single worker that  *)
(* is running, unless it waits in recv for the rest of a message, the count*)
(* or a reference is wrong, which it is once a freed message was walked,   *)
(* or a connection that was hung up is still referred to: it stays in the  *)
(* walk and is not counted, so the walk ends before it reaches all the     *)
(* others (mfbroker.c:42, 120, 188, 246, 295).                             *)
HangUpsNoticed ==
    []<>(Unnoticed = {} \/ fault # "none" \/ lostUpdate \/ astray
            \/ main \in {"undo", "undoAccept", "failed"}
            \/ (\E w \in Workers :
                   wpc[w] \in {"none", "exited", "receiving"})
            \/ (\E s \in Slots :
                   staleReleases[s] > 0 \/ (live[s] /\ s \notin base)))
=============================================================================

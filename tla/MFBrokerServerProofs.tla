----------------------- MODULE MFBrokerServerProofs -----------------------
(***************************************************************************)
(* Proofs about a broker in server mode (MFBrokerServer): who refers to a  *)
(* connection, how many there are, whose sockets are closed when, for any  *)
(* number of slots, worker threads, peers and messages.                    *)
(***************************************************************************)
EXTENDS MFBrokerServer, FiniteSetTheorems, WellFoundedInduction, TLAPS

(***************************************************************************)
(* The inductive invariant.                                                *)
(***************************************************************************)
(* Where the threads are in relation to each other; a slot chosen for a    *)
(* new connection is free until it is taken.                               *)
Arriving(s) == apc = "state" /\ s = newSlot

AfterPoll == {"polled", "scan", "receiving", "mark", "release", "load",
              "store"}

(* A worker's list: its leading messages are freed, all of them before it  *)
(* begins a walk.                                                          *)
ListInv(w) ==
    /\ Len(recvList[w]) <= MaxMessages /\ freed[w] <= Len(recvList[w])
    /\ wpc[w] \in {"dispatch", "ready"} =>
          cursor[w] \in 1 .. Len(recvList[w]) /\ cursor[w] <= freed[w] + 1
    /\ wpc[w] \notin {"dispatch", "ready"} => cursor[w] = 1
    /\ wpc[w] \notin AfterPoll \cup {"dispatch", "ready"} =>
          freed[w] = Len(recvList[w])

PlaceInv(w) ==
    /\ index[w] # 0 /\ (wpc[w] # "none" => w < started)
    /\ wpc[w] \in {"receiving", "mark", "release", "load", "store"} =>
          conn[w] # NULL
    /\ wpc[w] \in AfterPoll => revents[w] \in [1 .. fdCount[w] -> Events]
    /\ wpc[w] \in AfterPoll \ {"polled", "scan"} => index[w] <= fdCount[w]

PlacesInv ==
    /\ DOMAIN revents = Workers
    /\ \A w \in Workers : PlaceInv(w)
    /\ main \in {"undoAccept", "failed", "freeAccept", "freed"} =>
          \A w \in Workers : wpc[w] \in {"none", "exited"}
    /\ main \in {"free", "freeAccept", "freed"} => held = {}
    /\ main = "freed" => apc = "exited"
    /\ apc \in {"find", "initialise"} <=> newSocket # INVALID_SOCKET
    /\ apc \in {"initialise", "state"} =>
          newSlot \in Slots /\ ~live[newSlot]

ListsInv == \A w \in Workers : ListInv(w)

(* Whatever else went wrong, a socket is in a slot in use, and the slot has*)
(* a reference but not more than it should; and no socket is lost.         *)
Claims(s) == One(s \in held) + Cardinality(Messages(s))

SlotInv(s) ==
    /\ socket[s] # INVALID_SOCKET =>
          refCount[s] >= 1 /\ (live[s] \/ Arriving(s))
    /\ refCount[s] <= Claims(s) + One(live[s] \/ Arriving(s))
    /\ main = "freed" => socket[s] = INVALID_SOCKET

Kept ==
    ~overwritten =>
        \A p \in Peers :
           peer[p] \in {"connected", "gone"} =>
              p \in closed \/ p = newSocket \/ \E s \in Slots : socket[s] = p

SocketsInv == (\A s \in Slots : SlotInv(s)) /\ Kept

(* As long as nothing went astray, a slot is in use while it is counted to *)
(* have a reference, and has no owner otherwise; it has no socket once the *)
(* table has given up its reference.                                       *)
Referred(s) ==
    /\ refCount[s] = Owners(s) - staleReleases[s]
    /\ IF live[s] \/ Arriving(s) THEN refCount[s] >= 1
       ELSE s \notin base /\ s \notin held /\ Messages(s) = {}
    /\ Arriving(s) => s \notin base
    /\ s \notin base /\ ~Arriving(s) => socket[s] = INVALID_SOCKET

ReferencesInv == ~astray => \A s \in Slots : Referred(s)

(* What a single worker has left of its array, and of the table.           *)
AheadInv ==
    (ThreadCount = 1 /\ ~lostUpdate /\ ~astray) =>
        \A w \in Workers :
            /\ wpc[w] \in {"build", "polled"} =>
                  fdCount[w] <= Cardinality(base)
            /\ wpc[w] \in {"build", "scan", "receiving", "mark", "release",
                           "load", "store"} =>
                  IF conn[w] = NULL THEN fdCount[w] < index[w]
                  ELSE fdCount[w] - index[w] <=
                          Cardinality({s \in base : s > conn[w]})

(* The slots a worker visits, as long as none is taken or freed, and what  *)
(* it may know of their sockets.                                           *)
Visited(w, walk, i) ==
    IF i = 1 THEN FirstConn(w) ELSE FollowingConn(walk[i - 1])

IsWalk(w, walk) == \A i \in DOMAIN walk : walk[i] = Visited(w, walk, i)

Settled(p) == p = INVALID_SOCKET \/ p \in closed \/ peer[p] = "gone"

HungUp == {"hangup", "both"}

Building(w) ==
    \E walk \in [1 .. index[w] - 1 -> Slots] :
        /\ IsWalk(w, walk) /\ conn[w] = Visited(w, walk, index[w])
        /\ Len(fds[w]) = index[w] - 1
        /\ \A i \in 1 .. index[w] - 1 :
              socket[walk[i]] \in {fds[w][i], INVALID_SOCKET}

Scanning(w) ==
    \E walk \in [1 .. fdCount[w] -> Slots] :
        /\ IsWalk(w, walk)
        /\ \A i \in 1 .. fdCount[w] :
              revents[w][i] \in HungUp => Settled(socket[walk[i]])
        /\ (wpc[w] # "polled" /\ index[w] <= fdCount[w]) =>
              conn[w] = walk[index[w]]

WalksInv ==
    \A w \in Workers \ shifted :
        /\ wpc[w] = "build" => Building(w)
        /\ wpc[w] \in AfterPoll => Scanning(w)
        /\ wpc[w] \in {"scan", "receiving", "mark", "release"}
                /\ conn[w] # NULL => live[conn[w]]
        /\ wpc[w] = "release" => socket[conn[w]] = INVALID_SOCKET

IInv ==
    /\ PlacesInv /\ ListsInv /\ SocketsInv /\ ReferencesInv
    /\ CountExact /\ AheadInv /\ WalksInv
-----------------------------------------------------------------------------
(* The types, of the table, of the workers and of the rest.                *)
TableTyped ==
    /\ live \in [Slots -> BOOLEAN]
    /\ socket \in [Slots -> Peers \cup {INVALID_SOCKET}]
    /\ refCount \in [Slots -> Int] /\ connectionCount \in Int

Points == {"none", "loop", "resize", "resized", "build", "polled", "scan",
           "receiving", "mark", "release", "load", "store", "dispatch",
           "ready", "exited"}

WorkersTyped ==
    /\ wpc \in [Workers -> Points]
    /\ terminated \in [Workers -> BOOLEAN] /\ loaded \in [Workers -> Int]
    /\ array \in [Workers -> Int] /\ fdCount \in [Workers -> Int]
    /\ conn \in [Workers -> Slots \cup {NULL}] /\ index \in [Workers -> Nat]
    /\ fds \in [Workers -> Seq(Peers \cup {INVALID_SOCKET})]
    /\ recvList \in [Workers -> Seq(Slots)]
    /\ freed \in [Workers -> Nat] /\ cursor \in [Workers -> Nat \ {0}]

AcceptTyped ==
    /\ apc \in {"poll", "find", "initialise", "state", "load", "store",
                "exited"}
    /\ {acceptTerminated, acceptFailed} \subseteq BOOLEAN
    /\ newSocket \in Peers \cup {INVALID_SOCKET}
    /\ newSlot \in Slots \cup {NULL} /\ newCount \in Int

MainTyped ==
    /\ {listening, lostUpdate, astray, overwritten} \subseteq BOOLEAN
    /\ main \in {"create", "ready", "undo", "undoAccept", "failed", "free",
                 "freeAccept", "freed"}
    /\ started \in 0 .. ThreadCount
    /\ peer \in [Peers -> {"absent", "waiting", "connected", "gone"}]
    /\ held \subseteq Slots /\ base \subseteq Slots
    /\ shifted \subseteq Workers
    /\ closed \subseteq Peers /\ staleReleases \in [Slots -> Nat]
    /\ fault \in {"none", "connection", "array", "useAfterFree"}

LEMMA TypeParts ==
    TypeOK <=> TableTyped /\ WorkersTyped /\ AcceptTyped /\ MainTyped
BY DEF TypeOK, TableTyped, WorkersTyped, AcceptTyped, MainTyped, Points

(* The steps that leave the table alone.                                   *)
WalkStep(w) ==
    \/ WorkerExit(w) \/ WorkerResize(w)
    \/ WorkerAllocate(w) \/ WorkerAllocateFails(w)
    \/ WorkerBuild(w) \/ WorkerEntry(w)
    \/ WorkerOutOfConnections(w) \/ WorkerOutOfArray(w)
    \/ WorkerPoll(w) \/ WorkerPollTimeout(w) \/ WorkerPollFails(w)
    \/ WorkerScan(w) \/ WorkerSkip(w) \/ WorkerScanned(w)
    \/ WorkerReceive(w) \/ WorkerUseAfterFree(w)
    \/ WorkerLoad(w) \/ WorkerStore(w)

(* The steps that take references to the connection the walk is at.        *)
TakeStep(w) == WorkerDrop(w) \/ WorkerKeep(w) \/ WorkerReady(w)

(* A set of natural numbers has a least element.                           *)
LEMMA MinFacts ==
    ASSUME NEW S \in SUBSET Nat, S # {}
    PROVE  Min(S) \in S /\ \A y \in S : Min(S) <= y
<1> DEFINE R == {ss \in Nat \X Nat : ss[1] < ss[2]}
<1>1. IsWellFoundedOn(R, Nat)
  BY NatLessThanWellFounded DEF OpToRel
<1>2. \A x, y \in Nat : <<y, x>> \in R <=> y < x
  OBVIOUS
<1>. HIDE DEF R
<1>3. PICK x \in S : \A y \in S : ~(<<y, x>> \in R)
  BY <1>1, WFMin
<1>4. ASSUME NEW y \in S PROVE x <= y
  <2>1. x \in Nat /\ y \in Nat /\ ~(y < x)
    BY <1>2, <1>3
  <2>. QED BY <2>1
<1>. QED BY <1>4 DEF Min

(* The greater of two.                                                     *)
LEMMA MaxFacts ==
    ASSUME NEW a \in Int, NEW b \in Int
    PROVE  Max({a, b}) = IF a >= b THEN a ELSE b
<1>1. \E x \in {a, b} : \A y \in {a, b} : x >= y
  OBVIOUS
<1>2. Max({a, b}) \in {a, b} /\ \A y \in {a, b} : Max({a, b}) >= y
  BY <1>1 DEF Max
<1>. QED BY <1>2

(* The next slot in use, and that a walk in strides of one misses none.    *)
LEMMA NextConnFacts ==
    ASSUME NEW from \in Nat, NEW step \in Nat \ {0}
    PROVE  /\ NextConn(from, step) \in Slots \cup {NULL}
           /\ NextConn(from, step) # NULL =>
                NextConn(from, step) >= from /\ live[NextConn(from, step)]
           /\ step = 1 =>
                \A s \in Slots : (live[s] /\ s >= from) =>
                    NextConn(from, step) # NULL /\ NextConn(from, step) <= s
<1> DEFINE used ==
        {s \in Slots : s >= from /\ (s - from) % step = 0 /\ live[s]}
<1>1. used \in SUBSET Nat /\ \A s \in Slots : s \in Nat /\ s # NULL
  BY ServerAssumption DEF Slots, NULL
<1>2. NextConn(from, step) = IF used = {} THEN NULL ELSE Min(used)
  BY DEF NextConn
<1>3. used # {} => Min(used) \in used /\ \A y \in used : Min(used) <= y
  BY <1>1, MinFacts
<1>4. ASSUME step = 1, NEW s \in Slots, live[s], s >= from
      PROVE  s \in used
  <2>1. (s - from) % 1 = 0
    BY <1>1, <1>4
  <2>. QED BY <1>4, <2>1
<1>. HIDE DEF used
<1>5. \A s \in used : s \in Slots /\ s >= from /\ live[s]
  BY DEF used
<1>. QED BY <1>1, <1>2, <1>3, <1>4, <1>5

(* Where a walk begins and goes on.                                        *)
LEMMA WalkFacts ==
    /\ \A w \in Workers :
          /\ FirstConn(w) \in Slots \cup {NULL}
          /\ FirstConn(w) # NULL => live[FirstConn(w)]
          /\ ThreadCount = 1 =>
               \A s \in Slots : live[s] =>
                   FirstConn(w) # NULL /\ FirstConn(w) <= s
    /\ \A c \in Slots \cup {NULL} :
          /\ FollowingConn(c) \in Slots \cup {NULL}
          /\ FollowingConn(c) # NULL => live[FollowingConn(c)]
          /\ ThreadCount = 1 =>
               \A s \in Slots : (live[s] /\ s > c) =>
                   FollowingConn(c) # NULL /\ FollowingConn(c) <= s
<1>1. /\ ThreadCount \in Nat \ {0} /\ MaxConnections \in Nat
      /\ FirstIndex \in 0 .. ThreadCount - 1
  BY ServerAssumption
<1>2. ASSUME NEW w \in Workers
      PROVE  /\ (FirstIndex + w) % ThreadCount \in Nat
             /\ ThreadCount = 1 => (FirstIndex + w) % ThreadCount = 0
  BY <1>1 DEF Workers
<1>3. \A c \in Slots \cup {NULL} : c \in Int /\ c + 1 \in Nat
  BY <1>1 DEF Slots, NULL
<1>4. ASSUME NEW w \in Workers
      PROVE  /\ FirstConn(w) \in Slots \cup {NULL}
             /\ FirstConn(w) # NULL => live[FirstConn(w)]
             /\ ThreadCount = 1 =>
                  \A s \in Slots : live[s] =>
                      FirstConn(w) # NULL /\ FirstConn(w) <= s
  <2>1. \A s \in Slots : s >= 0
    BY <1>1 DEF Slots
  <2>. QED BY <1>1, <1>2, <2>1, NextConnFacts DEF FirstConn
<1>5. ASSUME NEW c \in Slots \cup {NULL}
      PROVE  /\ FollowingConn(c) \in Slots \cup {NULL}
             /\ FollowingConn(c) # NULL => live[FollowingConn(c)]
             /\ ThreadCount = 1 =>
                  \A s \in Slots : (live[s] /\ s > c) =>
                      FollowingConn(c) # NULL /\ FollowingConn(c) <= s
  <2>1. \A s \in Slots : s > c => s >= c + 1
    BY <1>3 DEF Slots
  <2>. QED BY <1>1, <1>3, <2>1, NextConnFacts DEF FollowingConn
<1>. QED BY <1>4, <1>5

(* A slot that is found free is free.                                      *)
LEMMA FindFreeFacts ==
    /\ FindFree \in Slots \cup {NULL} /\ NULL \notin Slots
    /\ FindFree # NULL => ~live[FindFree]
<1> DEFINE free == {s \in Slots : ~live[s]}
<1>1. free \in SUBSET Nat /\ NULL \notin Slots
  BY ServerAssumption DEF Slots, NULL
<1>2. FindFree = IF free = {} THEN NULL ELSE Min(free)
  BY DEF FindFree
<1>3. free # {} => Min(free) \in free
  BY <1>1, MinFacts
<1>. QED BY <1>1, <1>2, <1>3

(* An array stays one of its type when an element is replaced.             *)
LEMMA Updated ==
    ASSUME NEW A, NEW B, NEW f \in [A -> B], NEW a \in A, NEW b \in B
    PROVE  [f EXCEPT ![a] = b] \in [A -> B]
OBVIOUS

(* The moves of a worker keep its place, its slot and its entry typed.     *)
LEMMA MovesTyped ==
    ASSUME WorkersTyped, NEW w \in Workers
    PROVE  /\ \A place \in Points :
                GoTo(w, place) => wpc' \in [Workers -> Points]
           /\ EndWalk(w) =>
                /\ wpc' \in [Workers -> Points] /\ index' \in [Workers -> Nat]
                /\ conn' \in [Workers -> Slots \cup {NULL}]
                /\ fds' \in [Workers -> Seq(Peers \cup {INVALID_SOCKET})]
           /\ \A place \in Points : StartWalk(w, place) =>
                /\ wpc' \in [Workers -> Points] /\ index' \in [Workers -> Nat]
                /\ conn' \in [Workers -> Slots \cup {NULL}]
           /\ Advance(w) \/ ReceiveDone(w) =>
                /\ wpc' \in [Workers -> Points] /\ index' \in [Workers -> Nat]
                /\ conn' \in [Workers -> Slots \cup {NULL}]
<1>1. wpc \in [Workers -> Points] /\ index \in [Workers -> Nat]
      /\ conn \in [Workers -> Slots \cup {NULL}]
      /\ fds \in [Workers -> Seq(Peers \cup {INVALID_SOCKET})]
  BY DEF WorkersTyped
<1>2. FirstConn(w) \in Slots \cup {NULL} /\ conn[w] \in Slots \cup {NULL}
  BY <1>1, WalkFacts
<1>3. FollowingConn(conn[w]) \in Slots \cup {NULL}
  BY <1>2, WalkFacts
<1>4. ASSUME NEW place \in Points, GoTo(w, place)
      PROVE  wpc' \in [Workers -> Points]
  BY <1>1, <1>4, Updated DEF GoTo
<1>5. index[w] + 1 \in Nat /\ << >> \in Seq(Peers \cup {INVALID_SOCKET})
  BY <1>1
<1>6. /\ [index EXCEPT ![w] = 1] \in [Workers -> Nat]
      /\ [index EXCEPT ![w] = @ + 1] \in [Workers -> Nat]
      /\ [fds EXCEPT ![w] = << >>]
            \in [Workers -> Seq(Peers \cup {INVALID_SOCKET})]
      /\ \A c \in Slots \cup {NULL} :
            [conn EXCEPT ![w] = c] \in [Workers -> Slots \cup {NULL}]
  BY <1>1, <1>5, Updated
<1>7. {"loop", "dispatch", "scan"} \subseteq Points
      /\ NULL \in Slots \cup {NULL}
  BY DEF Points
<1>8. Advance(w) =>
        /\ wpc' \in [Workers -> Points] /\ index' \in [Workers -> Nat]
        /\ conn' \in [Workers -> Slots \cup {NULL}]
  BY <1>3, <1>4, <1>6, <1>7 DEF Advance
<1>9. ReceiveDone(w) =>
        /\ wpc' \in [Workers -> Points] /\ index' \in [Workers -> Nat]
        /\ conn' \in [Workers -> Slots \cup {NULL}]
  BY <1>1, <1>4, <1>7, <1>8 DEF ReceiveDone
<1>. QED BY <1>2, <1>4, <1>6, <1>7, <1>8, <1>9 DEF EndWalk, StartWalk

(* Every step of a worker keeps the types of the workers.                  *)
LEMMA WorkerStepTyped ==
    ASSUME TypeOK, PlacesInv, NEW w \in Workers, WorkerStep(w)
    PROVE  WorkersTyped'
<1>1. /\ connectionCount \in Int /\ WorkersTyped /\ NULL \in Int
      /\ socket \in [Slots -> Peers \cup {INVALID_SOCKET}]
  BY TypeParts DEF TableTyped, NULL
<1>2. /\ wpc \in [Workers -> Points] /\ index \in [Workers -> Nat]
      /\ conn \in [Workers -> Slots \cup {NULL}]
      /\ fds \in [Workers -> Seq(Peers \cup {INVALID_SOCKET})]
      /\ terminated \in [Workers -> BOOLEAN] /\ loaded \in [Workers -> Int]
      /\ array \in [Workers -> Int] /\ fdCount \in [Workers -> Int]
      /\ recvList \in [Workers -> Seq(Slots)] /\ freed \in [Workers -> Nat]
      /\ cursor \in [Workers -> Nat \ {0}]
  BY <1>1 DEF WorkersTyped
<1> DEFINE WalkTyped ==
        /\ wpc' \in [Workers -> Points] /\ index' \in [Workers -> Nat]
        /\ conn' \in [Workers -> Slots \cup {NULL}]
        /\ fds' \in [Workers -> Seq(Peers \cup {INVALID_SOCKET})]
        /\ terminated' \in [Workers -> BOOLEAN] /\ loaded' \in [Workers -> Int]
        /\ array' \in [Workers -> Int] /\ fdCount' \in [Workers -> Int]
<1>3. /\ WorkersTyped' <=>
           /\ WalkTyped /\ recvList' \in [Workers -> Seq(Slots)]
           /\ freed' \in [Workers -> Nat] /\ cursor' \in [Workers -> Nat \ {0}]
      /\ WalkTyped /\ UNCHANGED listVars => WorkersTyped'
  BY <1>2 DEF WorkersTyped, listVars
<1>4. \A place \in {"loop", "resize", "resized", "build", "polled", "scan",
                     "receiving", "mark", "release", "load", "store",
                     "dispatch", "ready", "exited"} : place \in Points
  BY DEF Points
<1>5. /\ [terminated EXCEPT ![w] = TRUE] \in [Workers -> BOOLEAN]
      /\ \A n \in Int : /\ [loaded EXCEPT ![w] = n] \in [Workers -> Int]
                        /\ [array EXCEPT ![w] = n] \in [Workers -> Int]
                        /\ [fdCount EXCEPT ![w] = n] \in [Workers -> Int]
      /\ [fds EXCEPT ![w] = << >>]
            \in [Workers -> Seq(Peers \cup {INVALID_SOCKET})]
  <2>1. << >> \in Seq(Peers \cup {INVALID_SOCKET})
    OBVIOUS
  <2>2. [fds EXCEPT ![w] = << >>]
            \in [Workers -> Seq(Peers \cup {INVALID_SOCKET})]
    BY <1>2, <2>1, Updated
  <2>. QED BY <1>2, <2>2, Updated
<1>6. ASSUME Exit(w) PROVE WorkersTyped'
  <2>1. WalkTyped
    <3>1. NULL \in Int /\ 0 \in Int /\ "exited" \in Points
      BY <1>1, <1>4
    <3>2. wpc' \in [Workers -> Points]
      BY <1>1, <1>6, <3>1, MovesTyped DEF Exit
    <3>. QED BY <1>2, <1>5, <1>6, <3>1, <3>2 DEF Exit
  <2>2. << >> \in Seq(Slots) /\ 0 \in Nat
    OBVIOUS
  <2>3. /\ recvList' \in [Workers -> Seq(Slots)] /\ freed' \in [Workers -> Nat]
        /\ cursor' \in [Workers -> Nat \ {0}]
    BY <1>2, <1>6, <2>2, Updated DEF Exit
  <2>. QED BY <1>3, <2>1, <2>3
<1>7. CASE WorkerExit(w)
  BY <1>6, <1>7 DEF WorkerExit
<1>8. CASE WorkerResize(w) \/ WorkerAllocate(w)
  <2>1. wpc' \in [Workers -> Points]
    BY <1>1, <1>4, <1>8, MovesTyped DEF WorkerResize, WorkerAllocate
  <2>2. array' \in [Workers -> Int]
    BY <1>1, <1>5, <1>8 DEF WorkerResize, WorkerAllocate
  <2>3. WalkTyped /\ UNCHANGED listVars
    BY <1>2, <1>8, <2>1, <2>2 DEF WorkerResize, WorkerAllocate
  <2>. QED BY <1>3, <2>3
<1>9. CASE WorkerAllocateFails(w)
  <2>1. ASSUME GoTo(w, "loop"), UNCHANGED <<walkVars, listVars>>
        PROVE  WalkTyped /\ UNCHANGED listVars
    BY <1>1, <1>2, <1>4, <2>1, MovesTyped DEF walkVars
  <2>. QED BY <1>3, <1>6, <1>9, <2>1 DEF WorkerAllocateFails
<1>10. CASE WorkerBuild(w)
  <2>1. fdCount' \in [Workers -> Int]
    <3>1. \/ fdCount' = [fdCount EXCEPT ![w] = connectionCount]
          \/ fdCount' = fdCount
      BY <1>10 DEF WorkerBuild
    <3>2. fdCount \in [Workers -> Int]
      BY <1>2
    <3>3. [fdCount EXCEPT ![w] = connectionCount] \in [Workers -> Int]
      BY <1>1, <1>5
    <3>. QED BY <3>1, <3>2, <3>3
  <2>2. WalkTyped /\ UNCHANGED listVars
    BY <1>1, <1>2, <1>4, <1>5, <1>10, <2>1, MovesTyped DEF WorkerBuild
  <2>. QED BY <1>3, <2>2
<1>11. CASE WorkerEntry(w)
  <2>1. conn[w] \in Slots /\ FollowingConn(conn[w]) \in Slots \cup {NULL}
    BY <1>1, <1>2, <1>11, WalkFacts DEF WorkerEntry
  <2>2. Append(fds[w], socket[conn[w]]) \in Seq(Peers \cup {INVALID_SOCKET})
    BY <1>1, <1>2, <2>1
  <2>3. index[w] + 1 \in Nat
    BY <1>2
  <2>4. /\ fds' \in [Workers -> Seq(Peers \cup {INVALID_SOCKET})]
        /\ index' \in [Workers -> Nat]
        /\ conn' \in [Workers -> Slots \cup {NULL}]
    BY <1>2, <1>11, <2>1, <2>2, <2>3, Updated DEF WorkerEntry
  <2>5. WalkTyped /\ UNCHANGED listVars
    BY <1>2, <1>11, <2>4 DEF WorkerEntry
  <2>. QED BY <1>3, <2>5
<1>12. CASE WorkerOutOfConnections(w) \/ WorkerOutOfArray(w)
            \/ WorkerUseAfterFree(w)
  <2>1. UNCHANGED workerVars
    BY <1>12 DEF WorkerOutOfConnections, WorkerOutOfArray, WorkerUseAfterFree
  <2>2. WalkTyped /\ UNCHANGED listVars
    BY <1>2, <2>1 DEF workerVars, walkVars
  <2>. QED BY <1>3, <2>2
<1>13. CASE WorkerPoll(w)
  <2>1. WalkTyped /\ UNCHANGED listVars
    <3>1. NULL \in Slots \cup {NULL} /\ 1 \in Nat
      OBVIOUS
    <3>2. /\ conn' \in [Workers -> Slots \cup {NULL}]
          /\ index' \in [Workers -> Nat]
      BY <1>2, <1>13, <3>1, Updated DEF WorkerPoll
    <3>. QED BY <1>1, <1>2, <1>4, <1>5, <1>13, <3>2, MovesTyped DEF WorkerPoll
  <2>. QED BY <1>3, <2>1
<1>14. CASE WorkerPollTimeout(w) \/ WorkerPollFails(w) \/ WorkerScanned(w)
  <2>1. WalkTyped /\ UNCHANGED listVars
    BY <1>1, <1>2, <1>4, <1>5, <1>14, MovesTyped
       DEF WorkerPollTimeout, WorkerPollFails, WorkerScanned
  <2>. QED BY <1>3, <2>1
<1>15. CASE WorkerScan(w) \/ WorkerSkip(w)
  <2>1. WalkTyped /\ UNCHANGED listVars
    BY <1>1, <1>2, <1>4, <1>5, <1>15, MovesTyped DEF WorkerScan, WorkerSkip
  <2>. QED BY <1>3, <2>1
<1>16. CASE WorkerReceive(w)
  <2>1. WalkTyped /\ UNCHANGED listVars
    BY <1>1, <1>2, <1>4, <1>16, MovesTyped DEF WorkerReceive, walkVars
  <2>. QED BY <1>3, <2>1
<1>17. CASE WorkerDrop(w)
  <2>1. WalkTyped /\ UNCHANGED listVars
    BY <1>1, <1>2, <1>17, MovesTyped DEF WorkerDrop
  <2>. QED BY <1>3, <2>1
<1>18. CASE WorkerKeep(w)
  <2>1. WalkTyped
    BY <1>1, <1>2, <1>18, MovesTyped DEF WorkerKeep
  <2>2. conn[w] \in Slots
    BY <1>2, <1>18 DEF WorkerKeep, Readable, Reported, PlacesInv, PlaceInv
  <2>3. Append(recvList[w], conn[w]) \in Seq(Slots)
    BY <1>2, <2>2
  <2>4. recvList' \in [Workers -> Seq(Slots)]
    BY <1>2, <1>18, <2>3, Updated DEF WorkerKeep
  <2>. QED BY <1>2, <1>3, <1>18, <2>1, <2>4 DEF WorkerKeep
<1>19. CASE WorkerReady(w)
  <2>1. WalkTyped /\ UNCHANGED listVars
    BY <1>1, <1>2, <1>4, <1>19, MovesTyped DEF WorkerReady, walkVars
  <2>. QED BY <1>3, <2>1
<1>20. CASE WorkerReadyReturns(w)
  <2>1. Max({freed[w], cursor[w]}) \in Nat /\ cursor[w] + 1 \in Nat \ {0}
    <3>1. freed[w] \in Nat /\ cursor[w] \in Nat \ {0}
      BY <1>2
    <3>2. freed[w] \in Int /\ cursor[w] \in Int /\ cursor[w] + 1 \in Nat \ {0}
      BY <3>1
    <3>. QED BY <3>1, <3>2, MaxFacts
  <2>2. freed' \in [Workers -> Nat]
    BY <1>2, <1>20, <2>1, Updated DEF WorkerReadyReturns
  <2>3. cursor' \in [Workers -> Nat \ {0}] /\ wpc' \in [Workers -> Points]
    <3>1. /\ [cursor EXCEPT ![w] = 1] \in [Workers -> Nat \ {0}]
          /\ [cursor EXCEPT ![w] = @ + 1] \in [Workers -> Nat \ {0}]
      BY <1>2, <2>1
    <3>2. \A place \in {"loop", "dispatch"} :
            GoTo(w, place) => wpc' \in [Workers -> Points]
      BY <1>1, <1>4, MovesTyped
    <3>. QED BY <1>20, <3>1, <3>2 DEF WorkerReadyReturns
  <2>4. UNCHANGED <<walkVars, recvList>>
    BY <1>20 DEF WorkerReadyReturns
  <2>. QED BY <1>2, <1>3, <2>2, <2>3, <2>4 DEF walkVars
<1>21. CASE WorkerHangUp(w) \/ WorkerMark(w)
  <2>1. WalkTyped /\ UNCHANGED listVars
    BY <1>1, <1>2, <1>4, <1>21, MovesTyped DEF WorkerHangUp, WorkerMark
  <2>. QED BY <1>3, <2>1
<1>22. CASE WorkerRelease(w)
  <2>1. WalkTyped /\ UNCHANGED listVars
    BY <1>1, <1>2, <1>4, <1>22, MovesTyped DEF WorkerRelease, walkVars
  <2>. QED BY <1>3, <2>1
<1>23. CASE WorkerLoad(w)
  <2>1. WalkTyped /\ UNCHANGED listVars
    BY <1>1, <1>2, <1>4, <1>5, <1>23, MovesTyped DEF WorkerLoad
  <2>. QED BY <1>3, <2>1
<1>24. CASE WorkerStore(w)
  <2>1. loaded' \in [Workers -> Int]
    BY <1>5, <1>24 DEF WorkerStore
  <2>2. WalkTyped /\ UNCHANGED listVars
    BY <1>1, <1>2, <1>24, <2>1, MovesTyped DEF WorkerStore
  <2>. QED BY <1>3, <2>2
<1>. QED BY <1>7, <1>8, <1>9, <1>10, <1>11, <1>12, <1>13, <1>14, <1>15, <1>16,
            <1>17, <1>18, <1>19, <1>20, <1>21, <1>22, <1>23, <1>24
            DEF WorkerStep

(* What the walks leave alone.                                             *)
LEMMA WalkQuiet ==
    ASSUME NEW w \in Workers, WalkStep(w)
    PROVE  /\ live' = live /\ socket' = socket /\ refCount' = refCount
           /\ base' = base /\ held' = held /\ peer' = peer
           /\ closed' = closed /\ staleReleases' = staleReleases
           /\ astray' = astray /\ overwritten' = overwritten
           /\ apc' = apc /\ newSocket' = newSocket /\ newSlot' = newSlot
           /\ newCount' = newCount /\ acceptFailed' = acceptFailed
           /\ acceptTerminated' = acceptTerminated
           /\ main' = main /\ started' = started
<1> DEFINE Quiet == UNCHANGED <<tableVars, base, held, peer, closed,
                                staleReleases, astray, overwritten, acceptVars,
                                main, started>>
<1>1. ASSUME WorkerExit(w) \/ WorkerResize(w) \/ WorkerAllocate(w)
             \/ WorkerAllocateFails(w) \/ WorkerBuild(w) \/ WorkerEntry(w)
      PROVE  Quiet
  BY <1>1
     DEF WorkerExit, WorkerResize, WorkerAllocate, WorkerAllocateFails,
         WorkerBuild, WorkerEntry, historyVars, mainVars
<1>2. ASSUME WorkerOutOfConnections(w) \/ WorkerOutOfArray(w)
             \/ WorkerPoll(w) \/ WorkerPollTimeout(w) \/ WorkerPollFails(w)
      PROVE  Quiet
  BY <1>2
     DEF WorkerOutOfConnections, WorkerOutOfArray, WorkerPoll,
         WorkerPollTimeout, WorkerPollFails, historyVars, mainVars
<1>3. ASSUME WorkerScan(w) \/ WorkerSkip(w) \/ WorkerScanned(w)
             \/ WorkerReceive(w) \/ WorkerUseAfterFree(w)
             \/ WorkerLoad(w) \/ WorkerStore(w)
      PROVE  Quiet
  BY <1>3 DEF WorkerScan, WorkerSkip, WorkerScanned, WorkerReceive,
              WorkerUseAfterFree, WorkerLoad, WorkerStore, historyVars,
              mainVars
<1>. QED BY <1>1, <1>2, <1>3 DEF WalkStep, tableVars, acceptVars

(* The steps there are, those of the walks and those that take references  *)
(* taken together.                                                         *)
LEMMA Steps ==
    ASSUME Next
    PROVE  \/ \E w \in Workers :
                \/ WalkStep(w) \/ TakeStep(w) \/ WorkerReadyReturns(w)
                \/ WorkerHangUp(w) \/ WorkerMark(w) \/ WorkerRelease(w)
           \/ AcceptExit \/ AcceptFails \/ AcceptPollFails \/ AcceptFind
           \/ AcceptInitialise \/ AcceptState \/ AcceptLoad \/ AcceptStore
           \/ \E p \in Peers : AcceptConnection(p)
           \/ AllocCreate \/ AllocCreateFails \/ AllocUndoJoin
           \/ AllocReturnsError \/ FreeTerminate \/ FreeJoin \/ FreeRelease
           \/ \E s \in Slots : AppRelease(s)
           \/ \E p \in Peers : PeerConnects(p) \/ PeerGoes(p)
BY DEF Next, WorkerStep, WalkStep, TakeStep, AcceptStep, AcceptRest, MainStep

(* Taking references to a slot.                                            *)
Taken(c, n) ==
    /\ \A s \in Slots :
          refCount'[s] = IF s = c THEN refCount[s] + One(held' # held) + n
                         ELSE refCount[s]
    /\ held' # held => /\ c \notin held /\ held' = held \cup {c}
                        /\ main \in {"create", "ready"}
    /\ astray' = (astray \/ (refCount'[c] # refCount[c] /\ refCount[c] <= 0))

LEMMA TakenFacts ==
    ASSUME TypeOK, NEW c \in Slots, NEW n \in Nat, AddReferences(c, n)
    PROVE  /\ Taken(c, n) /\ refCount' \in [Slots -> Int]
           /\ held' \subseteq Slots /\ astray' \in BOOLEAN
<1>1. /\ refCount \in [Slots -> Int] /\ held \subseteq Slots
      /\ astray \in BOOLEAN
  BY TypeParts DEF TableTyped, MainTyped
<1>2. PICK taken \in BOOLEAN :
        /\ taken => main \in {"create", "ready"} /\ c \notin held
        /\ held' = IF taken THEN held \cup {c} ELSE held
        /\ refCount' = [refCount EXCEPT ![c] = @ + One(taken) + n]
        /\ astray' = (astray \/ (refCount'[c] # refCount[c]
                                  /\ refCount[c] <= 0))
  BY DEF AddReferences
<1>3. taken <=> held' # held
  BY <1>2
<1>4. One(taken) = One(held' # held) /\ One(taken) \in Nat
  BY <1>3 DEF One
<1>5. refCount[c] + One(taken) + n \in Int
  BY <1>1, <1>4
<1>6. \A s \in Slots :
          refCount'[s] = IF s = c THEN refCount[s] + One(taken) + n
                         ELSE refCount[s]
  BY <1>1, <1>2
<1>7. refCount' \in [Slots -> Int]
  BY <1>1, <1>2, <1>5, Updated
<1>8. Taken(c, n)
  BY <1>2, <1>4, <1>6 DEF Taken
<1>. QED BY <1>1, <1>2, <1>7, <1>8

(* The slot such a step takes references to, and what else it leaves alone.*)
TakenSlot(w) == IF wpc[w] = "dispatch" THEN Dispatched(w) ELSE conn[w]

LEMMA TakeEffects ==
    ASSUME TypeOK, PlacesInv, ListsInv, NEW w \in Workers, TakeStep(w)
    PROVE  /\ TakenSlot(w) \in Slots
           /\ AddReferences(TakenSlot(w), One(WorkerKeep(w)))
           /\ live' = live /\ socket' = socket /\ base' = base
           /\ connectionCount' = connectionCount /\ peer' = peer
           /\ closed' = closed /\ staleReleases' = staleReleases
           /\ shifted' = shifted /\ lostUpdate' = lostUpdate
           /\ overwritten' = overwritten /\ fault' = fault
           /\ UNCHANGED <<acceptVars, mainVars, fdCount, freed>>
<1>1. WorkersTyped /\ ListInv(w)
  BY TypeParts DEF ListsInv
<1>2. CASE WorkerDrop(w) \/ WorkerKeep(w)
  <2>1. wpc[w] \in {"scan", "receiving"} /\ conn[w] \in Slots
    BY <1>1, <1>2
       DEF WorkerDrop, WorkerKeep, Readable, Reported, PlacesInv, PlaceInv,
           WorkersTyped
  <2>2. CASE WorkerKeep(w)
    BY <2>1, <2>2 DEF WorkerKeep, TakenSlot, One, MessageReference
  <2>3. CASE ~WorkerKeep(w)
    BY <1>2, <2>1, <2>3 DEF WorkerDrop, TakenSlot, One, listVars
  <2>. QED BY <2>2, <2>3
<1>3. CASE WorkerReady(w)
  <2>1. /\ wpc[w] = "dispatch" /\ cursor[w] \in 1 .. Len(recvList[w])
        /\ recvList[w] \in Seq(Slots)
    BY <1>1, <1>3 DEF WorkerReady, ListInv, WorkersTyped
  <2>2. ~WorkerKeep(w)
    BY <2>1 DEF WorkerKeep, Readable, Reported
  <2>3. Dispatched(w) \in Slots
    BY <2>1 DEF Dispatched
  <2>. QED BY <1>3, <2>1, <2>2, <2>3
              DEF WorkerReady, TakenSlot, One, walkVars, listVars
<1>. QED BY <1>2, <1>3 DEF TakeStep

(* The accepting thread and the thread in MFBroker_Alloc and MFBroker_Free *)
(* leave the walks alone, but for creating the workers and telling them to *)
(* end; so do the application and the peers.                               *)
LEMMA OthersQuiet ==
    ASSUME \/ AcceptExit \/ AcceptFails \/ AcceptPollFails \/ AcceptFind
           \/ AcceptInitialise \/ AcceptState \/ AcceptLoad \/ AcceptStore
           \/ \E p \in Peers : AcceptConnection(p)
           \/ AllocUndoJoin
           \/ AllocReturnsError \/ FreeJoin \/ FreeRelease
           \/ \E s \in Slots : AppRelease(s)
           \/ \E p \in Peers : PeerConnects(p) \/ PeerGoes(p)
    PROVE  UNCHANGED workerVars
<1>1. CASE AcceptExit \/ AcceptFails \/ AcceptPollFails \/ AcceptFind
  BY <1>1 DEF AcceptExit, AcceptFails, AcceptPollFails, AcceptFind
<1>2. CASE AcceptInitialise \/ AcceptState \/ AcceptLoad \/ AcceptStore
  BY <1>2 DEF AcceptInitialise, AcceptState, AcceptLoad, AcceptStore
<1>3. ASSUME NEW p \in Peers,
             AcceptConnection(p) \/ PeerConnects(p) \/ PeerGoes(p)
      PROVE  UNCHANGED workerVars
  BY <1>3 DEF AcceptConnection, PeerConnects, PeerGoes
<1>4. CASE AllocUndoJoin \/ AllocReturnsError \/ FreeJoin \/ FreeRelease
  BY <1>4
     DEF AllocUndoJoin, AllocReturnsError, FreeJoin, FreeRelease, WorkersJoined
<1>5. ASSUME NEW s \in Slots, AppRelease(s)
      PROVE  UNCHANGED workerVars
  BY <1>5 DEF AppRelease
<1>. QED BY <1>1, <1>2, <1>3, <1>4, <1>5

(* What the walks do to what they do not leave alone.                      *)
LEMMA WalkEffects ==
    ASSUME TypeOK, NEW w \in Workers, WalkStep(w)
    PROVE  /\ connectionCount' \in Int /\ lostUpdate' \in BOOLEAN
           /\ listening' \in BOOLEAN /\ shifted' \subseteq Workers
           /\ fault' \in {"none", "connection", "array", "useAfterFree"}
           /\ connectionCount' # connectionCount => wpc[w] = "store"
           /\ lostUpdate => lostUpdate'
<1>1. /\ connectionCount \in Int /\ lostUpdate \in BOOLEAN
      /\ listening \in BOOLEAN /\ shifted \subseteq Workers
      /\ fault \in {"none", "connection", "array", "useAfterFree"}
      /\ loaded[w] \in Int
  BY TypeParts DEF TableTyped, MainTyped, WorkersTyped
<1>2. CASE WorkerExit(w) \/ WorkerResize(w) \/ WorkerAllocate(w)
           \/ WorkerAllocateFails(w) \/ WorkerBuild(w) \/ WorkerEntry(w)
  BY <1>1, <1>2
     DEF WorkerExit, WorkerResize, WorkerAllocate, WorkerAllocateFails, Exit,
         WorkerBuild, WorkerEntry, historyVars, mainVars
<1>3. CASE WorkerOutOfConnections(w) \/ WorkerOutOfArray(w)
             \/ WorkerPoll(w) \/ WorkerPollTimeout(w) \/ WorkerPollFails(w)
  BY <1>1, <1>3
     DEF WorkerOutOfConnections, WorkerOutOfArray, WorkerPoll,
         WorkerPollTimeout, WorkerPollFails, historyVars, mainVars
<1>4. CASE WorkerScan(w) \/ WorkerSkip(w) \/ WorkerScanned(w)
           \/ WorkerReceive(w) \/ WorkerUseAfterFree(w) \/ WorkerLoad(w)
  BY <1>1, <1>4 DEF WorkerScan, WorkerSkip, WorkerScanned, WorkerReceive,
              WorkerUseAfterFree, WorkerLoad, historyVars, mainVars
<1>5. CASE WorkerStore(w)
  BY <1>1, <1>5 DEF WorkerStore, mainVars
<1>. QED BY <1>2, <1>3, <1>4, <1>5 DEF WalkStep

(* Closing a socket leaves what is known of sockets typed.                 *)
LEMMA CloseTyped ==
    ASSUME TypeOK, NEW s \in Slots, CloseSocket(s)
    PROVE  closed' \subseteq Peers /\ closed \subseteq closed'
<1>1. socket[s] \in Peers \cup {INVALID_SOCKET} /\ closed \subseteq Peers
  BY TypeParts DEF TableTyped, MainTyped
<1>2. Sockets({s}) \subseteq Peers
  BY <1>1 DEF Sockets
<1>. QED BY <1>1, <1>2 DEF CloseSocket

(* So does the release of a connection.                                    *)
LEMMA ReleaseTyped ==
    ASSUME TypeOK, NEW s \in Slots, ReleaseConnection(s)
    PROVE  /\ live' \in [Slots -> BOOLEAN] /\ refCount' \in [Slots -> Int]
           /\ socket' \in [Slots -> Peers \cup {INVALID_SOCKET}]
           /\ closed' \subseteq Peers /\ shifted' \subseteq Workers
<1>1. /\ live \in [Slots -> BOOLEAN] /\ refCount \in [Slots -> Int]
      /\ socket \in [Slots -> Peers \cup {INVALID_SOCKET}]
      /\ closed \subseteq Peers /\ shifted \subseteq Workers
  BY TypeParts DEF TableTyped, MainTyped
<1>2. refCount' \in [Slots -> Int]
  BY <1>1 DEF ReleaseConnection
<1>3. CASE refCount[s] = 1
  <2>1. /\ CloseSocket(s) /\ shifted' = Workers
        /\ socket' = [socket EXCEPT ![s] = INVALID_SOCKET]
        /\ live' = [live EXCEPT ![s] = FALSE]
    BY <1>3 DEF ReleaseConnection
  <2>2. socket' \in [Slots -> Peers \cup {INVALID_SOCKET}]
        /\ live' \in [Slots -> BOOLEAN]
    BY <1>1, <2>1, Updated
  <2>. QED BY <1>2, <2>1, <2>2, CloseTyped
<1>4. CASE refCount[s] # 1
  BY <1>1, <1>2, <1>4 DEF ReleaseConnection
<1>. QED BY <1>3, <1>4

(* The accepting thread's steps keep the types.                            *)
LEMMA AcceptTypes ==
    ASSUME TypeOK, PlacesInv,
           \/ AcceptExit \/ AcceptFails \/ AcceptPollFails \/ AcceptFind
           \/ AcceptInitialise \/ AcceptState \/ AcceptLoad \/ AcceptStore
           \/ \E p \in Peers : AcceptConnection(p)
    PROVE  TableTyped' /\ AcceptTyped' /\ MainTyped'
<1>1. TableTyped /\ AcceptTyped /\ MainTyped /\ WorkersTyped
  BY TypeParts
<1>2. FindFree \in Slots \cup {NULL} /\ NULL \notin Slots
  BY FindFreeFacts
<1>3. apc \in {"find", "initialise"} => newSocket \in Peers
  BY <1>1 DEF PlacesInv, AcceptTyped
<1>4. apc \in {"initialise", "state"} => newSlot \in Slots
  BY DEF PlacesInv
<1>5. CASE AcceptExit
  BY <1>1, <1>5 DEF AcceptExit, TableTyped, AcceptTyped, MainTyped,
        tableVars, mainVars, historyVars
<1>6. CASE AcceptFails
  BY <1>1, <1>6 DEF AcceptFails, TableTyped, AcceptTyped, MainTyped,
        tableVars, mainVars, historyVars
<1>7. CASE AcceptPollFails
  BY <1>1, <1>7 DEF AcceptPollFails, TableTyped, AcceptTyped, MainTyped,
        tableVars, mainVars, historyVars
<1>8. CASE AcceptFind
  <2>1. TableTyped'
    BY <1>1, <1>8 DEF AcceptFind, TableTyped, tableVars
  <2>2. AcceptTyped' /\ closed' \subseteq Peers
    BY <1>1, <1>2, <1>3, <1>8
       DEF AcceptFind, CloseNewSocket, AcceptTyped, MainTyped
  <2>3. MainTyped'
    BY <1>1, <1>8, <2>2 DEF AcceptFind, MainTyped, mainVars
  <2>. QED BY <2>1, <2>2, <2>3
<1>9. CASE AcceptInitialise
  <2>1. TableTyped'
    BY <1>1, <1>3, <1>4, <1>9
       DEF AcceptInitialise, TableTyped, AcceptTyped, TableReference
  <2>2. AcceptTyped' /\ closed' \subseteq Peers
    BY <1>1, <1>2, <1>3, <1>9
       DEF AcceptInitialise, CloseNewSocket, AcceptTyped, MainTyped
  <2>3. staleReleases' \in [Slots -> Nat]
    BY <1>1, <1>4, <1>9 DEF AcceptInitialise, MainTyped
  <2>4. MainTyped'
    BY <1>1, <1>9, <2>2, <2>3 DEF AcceptInitialise, MainTyped, mainVars
  <2>. QED BY <2>1, <2>2, <2>4
<1>10. CASE AcceptState
  <2>1. TableTyped'
    BY <1>1, <1>4, <1>10 DEF AcceptState, TableTyped
  <2>2. AcceptTyped'
    BY <1>1, <1>2, <1>10 DEF AcceptState, AcceptTyped
  <2>3. MainTyped'
    BY <1>1, <1>4, <1>10 DEF AcceptState, MainTyped, mainVars
  <2>. QED BY <2>1, <2>2, <2>3
<1>11. CASE AcceptLoad
  BY <1>1, <1>11 DEF AcceptLoad, TableTyped, AcceptTyped, MainTyped,
        tableVars, mainVars, historyVars
<1>12. CASE AcceptStore
  <2>1. TableTyped'
    BY <1>1, <1>12 DEF AcceptStore, TableTyped, AcceptTyped, tableVars
  <2>2. AcceptTyped'
    BY <1>1, <1>2, <1>12 DEF AcceptStore, AcceptTyped
  <2>3. MainTyped'
    BY <1>1, <1>12 DEF AcceptStore, MainTyped, mainVars
  <2>. QED BY <2>1, <2>2, <2>3
<1>13. ASSUME NEW p \in Peers, AcceptConnection(p)
       PROVE  TableTyped' /\ AcceptTyped' /\ MainTyped'
  <2>1. TableTyped'
    BY <1>1, <1>13 DEF AcceptConnection, TableTyped, tableVars
  <2>2. AcceptTyped'
    BY <1>1, <1>13 DEF AcceptConnection, AcceptTyped
  <2>3. MainTyped'
    BY <1>1, <1>13 DEF AcceptConnection, MainTyped, mainVars, historyVars
  <2>. QED BY <2>1, <2>2, <2>3
<1>. QED BY <1>5, <1>6, <1>7, <1>8, <1>9, <1>10, <1>11, <1>12, <1>13

(* So do MFBroker_Alloc, MFBroker_Free, the application and the peers.     *)
LEMMA RestTypes ==
    ASSUME TypeOK,
           \/ AllocCreate \/ AllocCreateFails \/ AllocUndoJoin
           \/ AllocReturnsError \/ FreeTerminate \/ FreeJoin \/ FreeRelease
           \/ \E s \in Slots : AppRelease(s)
           \/ \E p \in Peers : PeerConnects(p) \/ PeerGoes(p)
    PROVE  TypeOK'
<1>1. TableTyped /\ AcceptTyped /\ MainTyped /\ WorkersTyped
  BY TypeParts
<1>2. TypeOK' <=> TableTyped' /\ WorkersTyped' /\ AcceptTyped' /\ MainTyped'
  BY TypeParts, PTL
<1>3. CASE AllocCreate
  <2>1. started \in Workers /\ started + 1 \in 0 .. ThreadCount
    BY <1>1, <1>3, ServerAssumption DEF AllocCreate, MainTyped, Workers
  <2>2. wpc' \in [Workers -> Points]
    BY <1>1, <1>3, <2>1, Updated DEF AllocCreate, GoTo, WorkersTyped, Points
  <2>3. WorkersTyped'
    BY <1>1, <1>3, <2>2 DEF AllocCreate, WorkersTyped, listVars
  <2>4. TableTyped' /\ AcceptTyped'
    BY <1>1, <1>3
       DEF AllocCreate, TableTyped, AcceptTyped, tableVars, acceptVars
  <2>5. MainTyped'
    BY <1>1, <1>3, <2>1 DEF AllocCreate, MainTyped, historyVars
  <2>. QED BY <1>2, <2>3, <2>4, <2>5
<1>4. CASE AllocCreateFails \/ FreeTerminate
  <2>1. terminated' \in [Workers -> BOOLEAN]
    <3>1. CASE FreeTerminate
      BY <3>1 DEF FreeTerminate
    <3>2. CASE AllocCreateFails
      <4>1. \A v \in Workers : (v < started) \in BOOLEAN
        OBVIOUS
      <4>. QED BY <3>2, <4>1 DEF AllocCreateFails
    <3>. QED BY <1>4, <3>1, <3>2
  <2>2. WorkersTyped'
    BY <1>1, <1>4, <2>1
       DEF AllocCreateFails, FreeTerminate, WorkersTyped, listVars
  <2>3. TableTyped' /\ AcceptTyped'
    BY <1>1, <1>4 DEF AllocCreateFails, FreeTerminate, TableTyped, AcceptTyped,
           tableVars, acceptVars
  <2>4. MainTyped'
    BY <1>1, <1>4 DEF AllocCreateFails, FreeTerminate, MainTyped, historyVars
  <2>. QED BY <1>2, <2>2, <2>3, <2>4
<1>5. ASSUME UNCHANGED workerVars PROVE WorkersTyped'
  BY <1>1, <1>5 DEF workerVars, walkVars, listVars, WorkersTyped
<1>6. CASE AllocUndoJoin \/ FreeJoin \/ AllocReturnsError
  <2>1. WorkersTyped'
    BY <1>5, <1>6, OthersQuiet
  <2>2. TableTyped' /\ AcceptTyped'
    BY <1>1, <1>6
       DEF AllocUndoJoin, FreeJoin, AllocReturnsError, WorkersJoined,
           TableTyped, AcceptTyped, tableVars, acceptVars
  <2>3. MainTyped'
    BY <1>1, <1>6
       DEF AllocUndoJoin, FreeJoin, AllocReturnsError, WorkersJoined,
           MainTyped, historyVars
  <2>. QED BY <1>2, <2>1, <2>2, <2>3
<1>7. CASE FreeRelease
  <2>1. WorkersTyped'
    BY <1>5, <1>7, OthersQuiet
  <2>2. AcceptTyped'
    BY <1>1, <1>7 DEF FreeRelease, AcceptTyped, acceptVars
  <2>3. TableTyped'
    BY <1>1, <1>7 DEF FreeRelease, ReleaseAll, TableTyped
  <2>4. closed' \subseteq Peers
    BY <1>1, <1>7 DEF FreeRelease, ReleaseAll, Sockets, TableTyped, MainTyped
  <2>5. MainTyped'
    BY <1>1, <1>7, <2>4 DEF FreeRelease, MainTyped
  <2>. QED BY <1>2, <2>1, <2>2, <2>3, <2>5
<1>8. ASSUME NEW s \in Slots, AppRelease(s) PROVE TypeOK'
  <2>1. WorkersTyped'
    BY <1>5, <1>8, OthersQuiet
  <2>2. AcceptTyped'
    BY <1>1, <1>8 DEF AppRelease, AcceptTyped, acceptVars
  <2>3. ReleaseConnection(s)
    BY <1>8 DEF AppRelease
  <2>4. TableTyped'
    BY <1>1, <1>8, <2>3, ReleaseTyped DEF AppRelease, TableTyped
  <2>5. astray' \in BOOLEAN /\ held' \subseteq Slots
    BY <1>1, <1>8 DEF AppRelease, FreedInUse, MainTyped
  <2>6. MainTyped'
    BY <1>1, <1>8, <2>3, <2>5, ReleaseTyped DEF AppRelease, MainTyped, mainVars
  <2>. QED BY <1>2, <2>1, <2>2, <2>4, <2>6
<1>9. ASSUME NEW p \in Peers, PeerConnects(p) \/ PeerGoes(p) PROVE TypeOK'
  <2>1. WorkersTyped'
    BY <1>5, <1>9, OthersQuiet
  <2>2. TableTyped' /\ AcceptTyped'
    BY <1>1, <1>9
       DEF PeerConnects, PeerGoes, TableTyped, AcceptTyped, tableVars, 
           acceptVars
  <2>3. MainTyped'
    BY <1>1, <1>9 DEF PeerConnects, PeerGoes, MainTyped, mainVars, historyVars
  <2>. QED BY <1>2, <2>1, <2>2, <2>3
<1>. QED BY <1>3, <1>4, <1>6, <1>7, <1>8, <1>9

(* Every step keeps the types.                                             *)
LEMMA TypeHolds ==
    ASSUME TypeOK, PlacesInv, ListsInv, [Next]_vars
    PROVE  TypeOK'
<1>1. TableTyped /\ AcceptTyped /\ MainTyped /\ WorkersTyped
  BY TypeParts
<1>2. TypeOK' <=> TableTyped' /\ WorkersTyped' /\ AcceptTyped' /\ MainTyped'
  BY TypeParts, PTL
<1>3. CASE UNCHANGED vars
  BY <1>3 DEF vars, TypeOK, tableVars, workerVars, walkVars, listVars,
              acceptVars, mainVars, historyVars
<1>4. ASSUME NEW w \in Workers, WalkStep(w) PROVE TypeOK'
  <2>1. WorkersTyped'
    BY <1>4, WorkerStepTyped DEF WorkerStep, WalkStep
  <2>2. TableTyped' /\ AcceptTyped' /\ MainTyped'
    BY <1>1, <1>4, WalkQuiet, WalkEffects
       DEF TableTyped, AcceptTyped, MainTyped
  <2>. QED BY <1>2, <2>1, <2>2
<1>5. ASSUME NEW w \in Workers, TakeStep(w) PROVE TypeOK'
  <2>1. WorkersTyped'
    BY <1>5, WorkerStepTyped DEF WorkerStep, TakeStep
  <2>2. One(WorkerKeep(w)) \in Nat
    BY DEF One
  <2>3. /\ refCount' \in [Slots -> Int] /\ held' \subseteq Slots
        /\ astray' \in BOOLEAN
    BY <1>5, <2>2, TakeEffects, TakenFacts
  <2>4. TableTyped'
    BY <1>1, <1>5, <2>3, TakeEffects DEF TableTyped
  <2>5. AcceptTyped'
    BY <1>1, <1>5, TakeEffects DEF AcceptTyped, acceptVars
  <2>6. MainTyped'
    BY <1>1, <1>5, <2>3, TakeEffects DEF MainTyped, mainVars
  <2>. QED BY <1>2, <2>1, <2>4, <2>5, <2>6
<1>6. ASSUME NEW w \in Workers, WorkerHangUp(w) PROVE TypeOK'
  <2>1. WorkersTyped'
    BY <1>6, WorkerStepTyped DEF WorkerStep
  <2>2. conn[w] \in Slots
    BY <1>1, <1>6 DEF WorkerHangUp, Reported, WorkersTyped
  <2>3. closed' \subseteq Peers
    BY <1>6, <2>2, CloseTyped DEF WorkerHangUp
  <2>4. TableTyped' /\ AcceptTyped'
    BY <1>1, <1>6
       DEF WorkerHangUp, TableTyped, AcceptTyped, tableVars, acceptVars
  <2>5. MainTyped'
    BY <1>1, <1>6, <2>3 DEF WorkerHangUp, MainTyped, mainVars
  <2>. QED BY <1>2, <2>1, <2>4, <2>5
<1>7. ASSUME NEW w \in Workers, WorkerMark(w) PROVE TypeOK'
  <2>1. WorkersTyped'
    BY <1>7, WorkerStepTyped DEF WorkerStep
  <2>2. conn[w] \in Slots
    BY <1>1, <1>7 DEF WorkerMark, PlacesInv, PlaceInv, WorkersTyped
  <2>3. TableTyped'
    BY <1>1, <1>7, <2>2 DEF WorkerMark, TableTyped
  <2>4. MainTyped' /\ AcceptTyped'
    BY <1>1, <1>7 DEF WorkerMark, MainTyped, AcceptTyped, mainVars, acceptVars
  <2>. QED BY <1>2, <2>1, <2>3, <2>4
<1>8. ASSUME NEW w \in Workers, WorkerRelease(w) PROVE TypeOK'
  <2>1. WorkersTyped'
    BY <1>8, WorkerStepTyped DEF WorkerStep
  <2>2. conn[w] \in Slots
    BY <1>1, <1>8 DEF WorkerRelease, PlacesInv, PlaceInv, WorkersTyped
  <2>3. ReleaseConnection(conn[w])
    BY <1>8 DEF WorkerRelease
  <2>4. TableTyped' /\ AcceptTyped'
    BY <1>1, <1>8, <2>2, <2>3, ReleaseTyped
       DEF WorkerRelease, TableTyped, AcceptTyped, acceptVars
  <2>5. astray' \in BOOLEAN
    BY <1>1, <1>8 DEF WorkerRelease, FreedInUse, MainTyped
  <2>6. MainTyped'
    BY <1>1, <1>8, <2>2, <2>3, <2>5, ReleaseTyped
       DEF WorkerRelease, MainTyped, mainVars
  <2>. QED BY <1>2, <2>1, <2>4, <2>6
<1>9. ASSUME NEW w \in Workers, WorkerReadyReturns(w) PROVE TypeOK'
  <2>1. WorkersTyped'
    BY <1>9, WorkerStepTyped DEF WorkerStep
  <2>2. Dispatched(w) \in Slots /\ ReleaseConnection(Dispatched(w))
    BY <1>1, <1>9
       DEF WorkerReadyReturns, Dispatched, ListsInv, ListInv, WorkersTyped
  <2>3. TableTyped' /\ AcceptTyped'
    BY <1>1, <1>9, <2>2, ReleaseTyped
       DEF WorkerReadyReturns, TableTyped, AcceptTyped, acceptVars
  <2>4. astray' \in BOOLEAN /\ staleReleases' \in [Slots -> Nat]
    BY <1>1, <1>9, <2>2 DEF WorkerReadyReturns, FreedInUse, MainTyped, One
  <2>5. MainTyped'
    BY <1>1, <1>9, <2>2, <2>4, ReleaseTyped
       DEF WorkerReadyReturns, MainTyped, mainVars
  <2>. QED BY <1>2, <2>1, <2>3, <2>5
<1>10. ASSUME \/ AcceptExit \/ AcceptFails \/ AcceptPollFails \/ AcceptFind
              \/ AcceptInitialise \/ AcceptState \/ AcceptLoad \/ AcceptStore
              \/ \E p \in Peers : AcceptConnection(p)
       PROVE  TypeOK'
  <2>1. WorkersTyped'
    BY <1>1, <1>10, OthersQuiet
       DEF workerVars, walkVars, listVars, WorkersTyped
  <2>. QED BY <1>2, <1>10, <2>1, AcceptTypes
<1>. QED BY <1>3, <1>4, <1>5, <1>6, <1>7, <1>8, <1>9, <1>10, Steps, RestTypes

(* A step of a worker leaves the others where they are.                    *)
Elsewhere(w) ==
    /\ DOMAIN revents' = Workers
    /\ \A v \in Workers \ {w} :
          /\ wpc'[v] = wpc[v] /\ conn'[v] = conn[v] /\ index'[v] = index[v]
          /\ fdCount'[v] = fdCount[v] /\ array'[v] = array[v]
          /\ fds'[v] = fds[v] /\ revents'[v] = revents[v]
          /\ loaded'[v] = loaded[v] /\ recvList'[v] = recvList[v]
          /\ freed'[v] = freed[v] /\ cursor'[v] = cursor[v]

LEMMA OtherWorkers ==
    ASSUME TypeOK, PlacesInv, NEW w \in Workers, WorkerStep(w)
    PROVE  Elsewhere(w)
<1>1. WorkersTyped /\ DOMAIN revents = Workers
  BY TypeParts DEF PlacesInv
<1>2. ASSUME Exit(w) PROVE Elsewhere(w)
  BY <1>1, <1>2 DEF Exit, GoTo, WorkersTyped, Elsewhere
<1>3. CASE WorkerExit(w) \/ WorkerResize(w) \/ WorkerAllocate(w)
  BY <1>1, <1>2, <1>3
     DEF WorkerExit, WorkerResize, WorkerAllocate, GoTo, WorkersTyped,
         Elsewhere, listVars
<1>4. CASE WorkerAllocateFails(w)
  BY <1>1, <1>2, <1>4
     DEF WorkerAllocateFails, GoTo, WorkersTyped, Elsewhere, walkVars, listVars
<1>5. CASE WorkerBuild(w) \/ WorkerScan(w)
  BY <1>1, <1>5 DEF WorkerBuild, WorkerScan, StartWalk, GoTo, WorkersTyped,
                    Elsewhere, listVars
<1>6. CASE WorkerEntry(w)
  BY <1>1, <1>6 DEF WorkerEntry, WorkersTyped, Elsewhere, listVars
<1>7. CASE WorkerOutOfConnections(w) \/ WorkerOutOfArray(w)
           \/ WorkerUseAfterFree(w)
  BY <1>1, <1>7 DEF WorkerOutOfConnections, WorkerOutOfArray, walkVars,
                    WorkerUseAfterFree, workerVars, Elsewhere, listVars
<1>8. CASE WorkerPoll(w)
  <2>1. PICK report \in Reports(w) :
            revents' = [revents EXCEPT ![w] = report]
    BY <1>8 DEF WorkerPoll
  <2>. QED BY <1>1, <1>8, <2>1
              DEF WorkerPoll, GoTo, WorkersTyped, Elsewhere, listVars
<1>9. CASE WorkerPollTimeout(w) \/ WorkerPollFails(w) \/ WorkerScanned(w)
  <2>1. EndWalk(w) /\ UNCHANGED <<listVars, array, fdCount, loaded>>
    BY <1>9 DEF WorkerPollTimeout, WorkerPollFails, WorkerScanned
  <2>. QED BY <1>1, <2>1
              DEF EndWalk, GoTo, WorkersTyped, Elsewhere, listVars
<1>10. ASSUME Advance(w) \/ ReceiveDone(w)
       PROVE  /\ DOMAIN revents' = Workers
              /\ \A v \in Workers \ {w} :
                    /\ wpc'[v] = wpc[v] /\ conn'[v] = conn[v]
                    /\ index'[v] = index[v] /\ revents'[v] = revents[v]
  BY <1>1, <1>10 DEF Advance, ReceiveDone, GoTo, WorkersTyped
<1>11. CASE WorkerSkip(w) \/ WorkerDrop(w)
  BY <1>1, <1>10, <1>11 DEF WorkerSkip, WorkerDrop, Elsewhere, listVars
<1>12. CASE WorkerKeep(w)
  BY <1>1, <1>10, <1>12 DEF WorkerKeep, Elsewhere, WorkersTyped
<1>13. CASE WorkerReceive(w) \/ WorkerReady(w)
  BY <1>1, <1>13 DEF WorkerReceive, WorkerReady, GoTo, WorkersTyped, Elsewhere,
                     walkVars, listVars
<1>14. CASE WorkerReadyReturns(w)
  BY <1>1, <1>14
     DEF WorkerReadyReturns, GoTo, WorkersTyped, Elsewhere, walkVars
<1>15. CASE WorkerHangUp(w) \/ WorkerMark(w) \/ WorkerRelease(w)
            \/ WorkerLoad(w)
  BY <1>1, <1>15
     DEF WorkerHangUp, WorkerMark, WorkerRelease, WorkerLoad, GoTo, 
         WorkersTyped, Elsewhere, walkVars, listVars
<1>16. CASE WorkerStore(w)
  BY <1>1, <1>10, <1>16 DEF WorkerStore, Elsewhere, WorkersTyped, listVars
<1>. QED BY <1>3, <1>4, <1>5, <1>6, <1>7, <1>8, <1>9, <1>11, <1>12, <1>13,
            <1>14, <1>15, <1>16 DEF WorkerStep

(* Where a worker that takes a step has been and gets to.                  *)
LEMMA WorkerPlaces ==
    ASSUME TypeOK, PlacesInv, NEW w \in Workers, WorkerStep(w)
    PROVE  wpc[w] \notin {"none", "exited"} /\ PlaceInv(w)'
<1>1. /\ WorkersTyped /\ index[w] \in Nat /\ PlaceInv(w)
      /\ DOMAIN revents = Workers
  BY TypeParts DEF PlacesInv, WorkersTyped
<1>2. wpc[w] \notin {"none", "exited"} /\ started' = started
  BY DEF WorkerStep, WorkerExit, WorkerResize, WorkerAllocate,
         WorkerAllocateFails, WorkerBuild, WorkerEntry, WorkerOutOfConnections,
         WorkerOutOfArray, WorkerPoll, WorkerPollTimeout, WorkerPollFails,
         WorkerScan, WorkerSkip, WorkerScanned, WorkerReceive, WorkerDrop,
         WorkerKeep, WorkerReady, WorkerReadyReturns, WorkerUseAfterFree,
         WorkerHangUp, WorkerMark, WorkerRelease, WorkerLoad, WorkerStore,
         Readable, Reported, mainVars
<1>3. w < started'
  BY <1>1, <1>2 DEF PlaceInv
<1>4. ASSUME wpc'[w] \notin AfterPoll, index'[w] # 0 PROVE PlaceInv(w)'
  BY <1>3, <1>4 DEF PlaceInv, AfterPoll
<1>5. CASE WorkerExit(w) \/ WorkerResize(w) \/ WorkerAllocate(w)
           \/ WorkerAllocateFails(w)
  BY <1>1, <1>4, <1>5
     DEF WorkerExit, WorkerResize, WorkerAllocate, WorkerAllocateFails, Exit,
         GoTo, WorkersTyped, AfterPoll, PlaceInv, walkVars
<1>6. CASE WorkerBuild(w)
  BY <1>1, <1>4, <1>6 DEF WorkerBuild, StartWalk, GoTo, WorkersTyped, AfterPoll
<1>7. CASE WorkerEntry(w)
  BY <1>1, <1>4, <1>7 DEF WorkerEntry, WorkersTyped, AfterPoll
<1>8. CASE WorkerOutOfConnections(w) \/ WorkerOutOfArray(w)
           \/ WorkerUseAfterFree(w)
  BY <1>1, <1>2, <1>8
     DEF WorkerOutOfConnections, WorkerOutOfArray, WorkerUseAfterFree,
         workerVars, walkVars, PlaceInv
<1>9. CASE WorkerPoll(w)
  <2>1. PICK report \in Reports(w) :
            revents' = [revents EXCEPT ![w] = report]
    BY <1>9 DEF WorkerPoll
  <2>2. revents'[w] \in [1 .. fdCount[w] -> Events]
    BY <1>1, <2>1 DEF Reports
  <2>3. wpc'[w] = "polled" /\ index'[w] = 1 /\ fdCount' = fdCount
    BY <1>1, <1>9 DEF WorkerPoll, GoTo, WorkersTyped
  <2>. QED BY <1>2, <1>3, <2>2, <2>3 DEF PlaceInv, AfterPoll
<1>10. CASE WorkerPollTimeout(w) \/ WorkerPollFails(w) \/ WorkerScanned(w)
  <2>1. EndWalk(w)
    BY <1>10 DEF WorkerPollTimeout, WorkerPollFails, WorkerScanned
  <2>. QED BY <1>1, <1>2, <1>4, <2>1 DEF EndWalk, GoTo, WorkersTyped, AfterPoll
<1>11. CASE WorkerScan(w)
  BY <1>1, <1>2, <1>3, <1>11
     DEF WorkerScan, StartWalk, GoTo, WorkersTyped, AfterPoll, PlaceInv
<1>12. ASSUME wpc[w] \in AfterPoll \ {"polled"},
              index[w] <= fdCount[w], Advance(w) \/ ReceiveDone(w),
              fdCount' = fdCount
       PROVE  PlaceInv(w)'
  <2>1. revents[w] \in [1 .. fdCount[w] -> Events]
    BY <1>1, <1>12 DEF PlaceInv
  <2>2. revents'[w] \in [1 .. fdCount[w] -> Events]
    BY <1>1, <1>12, <2>1 DEF Advance, ReceiveDone, Events
  <2>3. wpc'[w] = "scan" /\ index'[w] # 0
    <3>1. wpc' = [wpc EXCEPT ![w] = "scan"]
      BY <1>12 DEF Advance, ReceiveDone, GoTo
    <3>2. index' = index \/ index' = [index EXCEPT ![w] = @ + 1]
      BY <1>12 DEF Advance, ReceiveDone
    <3>. QED BY <1>1, <3>1, <3>2 DEF WorkersTyped, PlaceInv
  <2>. QED BY <1>2, <1>3, <1>12, <2>2, <2>3 DEF PlaceInv, AfterPoll
<1>13. CASE WorkerSkip(w) \/ WorkerStore(w)
  BY <1>1, <1>2, <1>12, <1>13
     DEF WorkerSkip, WorkerStore, Reported, AfterPoll, PlaceInv
<1>14. CASE WorkerDrop(w) \/ WorkerKeep(w)
  BY <1>1, <1>2, <1>12, <1>14
     DEF WorkerDrop, WorkerKeep, Readable, Reported, AfterPoll, PlaceInv
<1>15. CASE WorkerReceive(w) \/ WorkerHangUp(w)
  BY <1>1, <1>2, <1>3, <1>15
     DEF WorkerReceive, WorkerHangUp, Readable, Reported, GoTo, WorkersTyped,
         AfterPoll, PlaceInv, walkVars
<1>16. CASE WorkerReady(w) \/ WorkerReadyReturns(w)
  <2>1. wpc'[w] \in {"ready", "loop", "dispatch"} /\ index' = index
    <3>1. \E place \in {"ready", "loop", "dispatch"} : GoTo(w, place)
      BY <1>16 DEF WorkerReady, WorkerReadyReturns
    <3>2. index' = index
      BY <1>16 DEF WorkerReady, WorkerReadyReturns, walkVars
    <3>. QED BY <1>1, <3>1, <3>2 DEF GoTo, WorkersTyped
  <2>. QED BY <1>1, <1>2, <1>4, <2>1 DEF AfterPoll, PlaceInv
<1>17. CASE WorkerMark(w) \/ WorkerRelease(w) \/ WorkerLoad(w)
  BY <1>1, <1>2, <1>3, <1>17
     DEF WorkerMark, WorkerRelease, WorkerLoad, GoTo, WorkersTyped, AfterPoll,
         PlaceInv, walkVars
<1>. QED BY <1>2, <1>5, <1>6, <1>7, <1>8, <1>9, <1>10, <1>11, <1>13, <1>14,
            <1>15, <1>16, <1>17 DEF WorkerStep

(* What a step of a worker does to its own list.                           *)
LEMMA WorkerLists ==
    ASSUME TypeOK, ListsInv, NEW w \in Workers, WorkerStep(w)
    PROVE  ListInv(w)'
<1>1. /\ WorkersTyped /\ ListInv(w)
      /\ recvList[w] \in Seq(Slots) /\ freed[w] \in Nat
      /\ cursor[w] \in Nat \ {0} /\ MaxMessages \in Nat
  BY TypeParts, ServerAssumption DEF ListsInv, WorkersTyped
<1>2. Len(recvList[w]) \in Nat /\ Len(<< >>) = 0
  BY <1>1
<1> DEFINE Rest == Points \ (AfterPoll \cup {"dispatch", "ready"})
<1>3. ASSUME Exit(w), wpc[w] \in Rest PROVE ListInv(w)'
  <2>1. /\ wpc'[w] = "exited" /\ recvList'[w] = << >> /\ freed'[w] = 0
        /\ cursor'[w] = 1
    BY <1>1, <1>3 DEF Exit, GoTo, WorkersTyped, ListInv
  <2>. QED BY <1>1, <1>2, <2>1 DEF ListInv, AfterPoll
<1>4. ASSUME UNCHANGED listVars,
             \/ wpc[w] \in Rest /\ wpc'[w] \in Rest \cup AfterPoll
             \/ wpc[w] \in AfterPoll /\ wpc'[w] \in AfterPoll
      PROVE  ListInv(w)'
  BY <1>1, <1>4 DEF ListInv, AfterPoll, listVars
<1>5. CASE WorkerExit(w) \/ WorkerAllocateFails(w)
  BY <1>1, <1>3, <1>4, <1>5
     DEF WorkerExit, WorkerAllocateFails, GoTo, WorkersTyped, Points, AfterPoll
<1>6. CASE WorkerResize(w) \/ WorkerAllocate(w) \/ WorkerBuild(w)
           \/ WorkerEntry(w) \/ WorkerPoll(w)
  BY <1>1, <1>4, <1>6
     DEF WorkerResize, WorkerAllocate, WorkerBuild, WorkerEntry, WorkerPoll,
         StartWalk, GoTo, WorkersTyped, Points, AfterPoll
<1>7. CASE WorkerOutOfConnections(w) \/ WorkerOutOfArray(w)
           \/ WorkerUseAfterFree(w)
  <2>1. UNCHANGED workerVars
    BY <1>7 DEF WorkerOutOfConnections, WorkerOutOfArray, WorkerUseAfterFree
  <2>2. wpc' = wpc /\ UNCHANGED listVars
    BY <2>1 DEF workerVars
  <2>. QED BY <1>1, <2>2 DEF ListInv, listVars
<1>8. CASE WorkerPollTimeout(w) \/ WorkerPollFails(w) \/ WorkerScanned(w)
  <2>1. EndWalk(w) /\ UNCHANGED listVars /\ wpc[w] \in {"build", "scan"}
    BY <1>8 DEF WorkerPollTimeout, WorkerPollFails, WorkerScanned
  <2>2. cursor[w] = 1
    BY <1>1, <2>1 DEF ListInv
  <2>3. CASE recvList[w] = << >>
    <3>1. wpc'[w] = "loop"
      BY <1>1, <2>1, <2>3 DEF EndWalk, GoTo, WorkersTyped
    <3>. QED BY <1>1, <1>2, <2>1, <2>2, <2>3, <3>1
             DEF ListInv, AfterPoll, listVars
  <2>4. CASE recvList[w] # << >>
    <3>1. wpc'[w] = "dispatch" /\ Len(recvList[w]) >= 1
      BY <1>1, <2>1, <2>4 DEF EndWalk, GoTo, WorkersTyped
    <3>. QED BY <1>1, <1>2, <2>1, <2>2, <3>1 DEF ListInv, AfterPoll, listVars
  <2>. QED BY <2>3, <2>4
<1>9. CASE WorkerScan(w) \/ WorkerSkip(w) \/ WorkerReceive(w) \/ WorkerDrop(w)
           \/ WorkerHangUp(w) \/ WorkerMark(w) \/ WorkerRelease(w)
           \/ WorkerLoad(w) \/ WorkerStore(w)
  <2>1. UNCHANGED listVars /\ wpc[w] \in AfterPoll
    BY <1>9
       DEF WorkerScan, WorkerSkip, WorkerReceive, WorkerDrop, WorkerHangUp,
           WorkerMark, WorkerRelease, WorkerLoad, WorkerStore, Readable,
           Reported, AfterPoll
  <2>2. \E place \in AfterPoll : GoTo(w, place)
    BY <1>9
       DEF WorkerScan, WorkerSkip, WorkerReceive, WorkerDrop, WorkerHangUp,
           WorkerMark, WorkerRelease, WorkerLoad, WorkerStore, StartWalk,
           Advance, ReceiveDone, AfterPoll
  <2>3. wpc'[w] \in AfterPoll
    BY <1>1, <2>2 DEF GoTo, WorkersTyped
  <2>. QED BY <1>4, <2>1, <2>3
<1>10. CASE WorkerKeep(w)
  <2>1. /\ wpc[w] \in AfterPoll /\ Len(recvList[w]) < MaxMessages
        /\ recvList' = [recvList EXCEPT ![w] = Append(@, conn[w])]
        /\ freed' = freed /\ cursor' = cursor /\ GoTo(w, "scan")
    BY <1>10 DEF WorkerKeep, Readable, Reported, AfterPoll, ReceiveDone,
                 Advance
  <2>2. recvList'[w] = Append(recvList[w], conn[w]) /\ wpc'[w] = "scan"
    BY <1>1, <2>1 DEF GoTo, WorkersTyped
  <2>3. /\ conn[w] \in Slots \cup {NULL}
        /\ recvList[w] \in Seq(Slots \cup {NULL})
    BY <1>1 DEF WorkersTyped
  <2>4. Len(recvList'[w]) = Len(recvList[w]) + 1
    BY <2>2, <2>3
  <2>5. cursor[w] = 1 /\ freed[w] <= Len(recvList[w])
    BY <1>1, <2>1 DEF ListInv, AfterPoll
  <2>. QED BY <1>1, <1>2, <2>1, <2>2, <2>4, <2>5 DEF ListInv, AfterPoll
<1>11. CASE WorkerReady(w)
  <2>1. wpc[w] = "dispatch" /\ wpc'[w] = "ready" /\ UNCHANGED listVars
    BY <1>1, <1>11 DEF WorkerReady, GoTo, WorkersTyped
  <2>. QED BY <1>1, <2>1 DEF ListInv, AfterPoll, listVars
<1>12. CASE WorkerReadyReturns(w)
  <2>1. /\ wpc[w] = "ready" /\ recvList' = recvList
        /\ freed'[w] = Max({freed[w], cursor[w]})
    BY <1>1, <1>12 DEF WorkerReadyReturns, WorkersTyped
  <2>2. cursor[w] \in 1 .. Len(recvList[w]) /\ cursor[w] <= freed[w] + 1
    BY <1>1, <2>1 DEF ListInv
  <2>3. freed'[w] = IF freed[w] >= cursor[w] THEN freed[w] ELSE cursor[w]
    <3>1. freed[w] \in Int /\ cursor[w] \in Int
      BY <1>1
    <3>. QED BY <2>1, <3>1, MaxFacts
  <2>4. CASE cursor[w] = Len(recvList[w])
    <3>1. cursor'[w] = 1 /\ wpc'[w] = "loop"
      BY <1>1, <1>12, <2>4 DEF WorkerReadyReturns, GoTo, WorkersTyped
    <3>. QED BY <1>1, <1>2, <2>1, <2>2, <2>3, <2>4, <3>1
             DEF ListInv, AfterPoll
  <2>5. CASE cursor[w] # Len(recvList[w])
    <3>1. cursor'[w] = cursor[w] + 1 /\ wpc'[w] = "dispatch"
      BY <1>1, <1>12, <2>5 DEF WorkerReadyReturns, GoTo, WorkersTyped
    <3>. QED BY <1>1, <1>2, <2>1, <2>2, <2>3, <2>5, <3>1
             DEF ListInv, AfterPoll
  <2>. QED BY <2>4, <2>5
<1>. QED BY <1>5, <1>6, <1>7, <1>8, <1>9, <1>10, <1>11, <1>12 DEF WorkerStep

(* Every step keeps the lists.                                             *)
LEMMA ListsHold ==
    ASSUME TypeOK, PlacesInv, ListsInv, [Next]_vars
    PROVE  ListsInv'
<1>1. CASE UNCHANGED workerVars
  BY <1>1 DEF workerVars, listVars, ListsInv, ListInv
<1>2. ASSUME NEW w \in Workers, WorkerStep(w) PROVE ListsInv'
  <2>1. ASSUME NEW v \in Workers \ {w} PROVE ListInv(v)'
    BY <1>2, <2>1, OtherWorkers DEF Elsewhere, ListsInv, ListInv
  <2>. QED BY <1>2, <2>1, WorkerLists DEF ListsInv
<1>3. CASE AllocCreate
  <2>1. WorkersTyped /\ started \in Workers /\ UNCHANGED listVars
    BY <1>3, TypeParts, ServerAssumption DEF AllocCreate, MainTyped, Workers
  <2>2. wpc[started] = "none"
    <3>1. ~(started < started)
      BY ServerAssumption DEF TypeOK
    <3>. QED BY <2>1, <3>1 DEF PlacesInv, PlaceInv
  <2>3. \A v \in Workers : wpc'[v] = IF v = started THEN "loop" ELSE wpc[v]
    BY <1>3, <2>1 DEF AllocCreate, GoTo, WorkersTyped
  <2>. QED BY <2>1, <2>2, <2>3 DEF ListsInv, ListInv, listVars, AfterPoll
<1>4. CASE AllocCreateFails \/ FreeTerminate
  <2>1. wpc' = wpc /\ UNCHANGED listVars
    BY <1>4 DEF AllocCreateFails, FreeTerminate
  <2>. QED BY <2>1 DEF ListsInv, ListInv, listVars
<1>. QED BY <1>1, <1>2, <1>3, <1>4, OthersQuiet
         DEF Next, AcceptStep, AcceptRest, MainStep, vars

(* What a step of a worker does to what relates the other threads.         *)
LEMMA WorkerQuiet ==
    ASSUME TypeOK, PlacesInv, ListsInv, NEW w \in Workers, WorkerStep(w)
    PROVE  /\ main' = main /\ started' = started /\ apc' = apc
           /\ newSocket' = newSocket /\ newSlot' = newSlot /\ peer' = peer
           /\ held' # held => main \in {"create", "ready"}
           /\ \A s \in Slots : ~live[s] => ~live'[s]
<1>1. CASE WalkStep(w)
  BY <1>1, WalkQuiet
<1>2. CASE TakeStep(w)
  <2>1. One(WorkerKeep(w)) \in Nat
    BY DEF One
  <2>2. held' # held => main \in {"create", "ready"}
    BY <1>2, <2>1, TakeEffects, TakenFacts DEF Taken
  <2>. QED BY <1>2, <2>2, TakeEffects DEF acceptVars, mainVars
<1>3. CASE WorkerHangUp(w)
  BY <1>3 DEF WorkerHangUp, acceptVars, mainVars, tableVars
<1>4. CASE WorkerMark(w)
  BY <1>4 DEF WorkerMark, acceptVars, mainVars
<1>5. ASSUME NEW c, ReleaseConnection(c)
      PROVE  \A s \in Slots : ~live[s] => ~live'[s]
  <2>1. live \in [Slots -> BOOLEAN]
    BY DEF TypeOK
  <2>2. live' = live \/ live' = [live EXCEPT ![c] = FALSE]
    BY <1>5 DEF ReleaseConnection
  <2>. QED BY <2>1, <2>2
<1>6. CASE WorkerRelease(w) \/ WorkerReadyReturns(w)
  <2>1. /\ UNCHANGED <<acceptVars, mainVars, peer, held>>
        /\ \E c : ReleaseConnection(c)
    BY <1>6 DEF WorkerRelease, WorkerReadyReturns
  <2>. QED BY <1>5, <2>1 DEF acceptVars, mainVars
<1>. QED BY <1>1, <1>2, <1>3, <1>4, <1>6
         DEF WorkerStep, WalkStep, TakeStep

(* Every step keeps the threads where they may be.                         *)
LEMMA PlacesHold ==
    ASSUME TypeOK, PlacesInv, ListsInv, [Next]_vars
    PROVE  PlacesInv'
<1>1. TableTyped /\ AcceptTyped /\ MainTyped /\ WorkersTyped
  BY TypeParts
<1> DEFINE Joined ==
        main \in {"undoAccept", "failed", "freeAccept", "freed"} =>
            \A w \in Workers : wpc[w] \in {"none", "exited"}
           Rest ==
        /\ main \in {"free", "freeAccept", "freed"} => held = {}
        /\ main = "freed" => apc = "exited"
        /\ apc \in {"find", "initialise"} <=> newSocket # INVALID_SOCKET
        /\ apc \in {"initialise", "state"} =>
              newSlot \in Slots /\ ~live[newSlot]
<1>2. CASE UNCHANGED vars
  BY <1>2 DEF vars, PlacesInv, PlaceInv, tableVars, workerVars, walkVars, 
              listVars, acceptVars, mainVars
<1>3. ASSUME NEW w \in Workers, WorkerStep(w) PROVE PlacesInv'
  <2>1. DOMAIN revents' = Workers
    BY <1>3, OtherWorkers DEF Elsewhere
  <2>2. ASSUME NEW v \in Workers \ {w} PROVE PlaceInv(v)'
    BY <1>3, <2>2, OtherWorkers, WorkerQuiet
       DEF Elsewhere, PlacesInv, PlaceInv
  <2>3. PlaceInv(w)' /\ wpc[w] \notin {"none", "exited"}
    BY <1>3, WorkerPlaces
  <2>4. main' \in {"free", "freeAccept", "freed"} => held' = {}
    BY <1>3, WorkerQuiet DEF PlacesInv
  <2>5. main' \notin {"undoAccept", "failed", "freeAccept", "freed"}
    BY <1>3, <2>3, WorkerQuiet DEF PlacesInv
  <2>6. \A v \in Workers : PlaceInv(v)'
    BY <2>2, <2>3
  <2>. QED BY <1>3, <2>1, <2>4, <2>5, <2>6, WorkerQuiet DEF PlacesInv
<1>4. ASSUME UNCHANGED workerVars, started' = started,
             main' \in {main} \/ WorkersExited
      PROVE  /\ DOMAIN revents' = Workers
             /\ \A w \in Workers : PlaceInv(w)'
             /\ Joined'
  <2>1. UNCHANGED <<wpc, walkVars>>
    BY <1>4 DEF workerVars
  <2>2. DOMAIN revents' = Workers /\ \A w \in Workers : PlaceInv(w)'
    BY <1>4, <2>1 DEF PlacesInv, PlaceInv, walkVars
  <2>3. Joined'
    BY <1>4, <2>1 DEF PlacesInv, PlaceInv, WorkersExited
  <2>. QED BY <2>2, <2>3
<1>5. ASSUME UNCHANGED workerVars, started' = started,
             main' \in {main} \/ WorkersExited, Rest'
      PROVE  PlacesInv'
  BY <1>4, <1>5 DEF PlacesInv
<1>6. ASSUME AcceptExit \/ AcceptFails \/ AcceptPollFails \/ AcceptFind
             \/ AcceptInitialise \/ AcceptState \/ AcceptLoad \/ AcceptStore
             \/ (\E p \in Peers : AcceptConnection(p)), Rest'
      PROVE  PlacesInv'
  <2>1. main' = main /\ started' = started
    BY <1>6 DEF AcceptExit, AcceptFails, AcceptPollFails, AcceptFind,
        AcceptInitialise, AcceptState, AcceptLoad, AcceptStore,
        AcceptConnection, mainVars
  <2>. QED BY <1>5, <1>6, <2>1, OthersQuiet
<1>7. CASE AcceptExit \/ AcceptFails \/ AcceptPollFails \/ AcceptLoad
           \/ AcceptStore
  <2>1. Rest'
    BY <1>1, <1>7
       DEF AcceptExit, AcceptFails, AcceptPollFails, AcceptLoad, AcceptStore,
           tableVars, mainVars, PlacesInv
  <2>. QED BY <1>6, <1>7, <2>1
<1>8. CASE AcceptFind
  <2>1. newSlot' # NULL => newSlot' \in Slots /\ ~live[newSlot']
    BY <1>8, FindFreeFacts DEF AcceptFind
  <2>2. Rest'
    BY <1>1, <1>8, <2>1
       DEF AcceptFind, CloseNewSocket, tableVars, mainVars, PlacesInv
  <2>. QED BY <1>6, <1>8, <2>2
<1>9. CASE AcceptInitialise
  <2>1. Rest'
    BY <1>1, <1>9 DEF AcceptInitialise, CloseNewSocket, mainVars, PlacesInv
  <2>. QED BY <1>6, <1>9, <2>1
<1>10. CASE AcceptState
  <2>1. Rest'
    BY <1>1, <1>10 DEF AcceptState, mainVars, PlacesInv
  <2>. QED BY <1>6, <1>10, <2>1
<1>11. ASSUME NEW p \in Peers, AcceptConnection(p) PROVE PlacesInv'
  <2>1. p # INVALID_SOCKET
    BY DEF Peers, INVALID_SOCKET
  <2>2. Rest'
    BY <1>1, <1>11, <2>1
       DEF AcceptConnection, Accepting, tableVars, mainVars, PlacesInv
  <2>. QED BY <1>6, <1>11, <2>2
<1>12. CASE AllocCreate
  <2>1. started \in Workers /\ started' = started + 1 /\ started \in Nat
    BY <1>1, <1>12, ServerAssumption DEF AllocCreate, MainTyped, Workers
  <2>2. \A w \in Workers : wpc'[w] = IF w = started THEN "loop" ELSE wpc[w]
    BY <1>1, <1>12, <2>1 DEF AllocCreate, GoTo, WorkersTyped
  <2>3. \A w \in Workers : w < started => w < started'
    BY <2>1 DEF Workers
  <2>4. ASSUME NEW w \in Workers PROVE PlaceInv(w)'
    <3>1. PlaceInv(w) /\ UNCHANGED <<index, conn, revents, fdCount>>
      BY <1>12 DEF PlacesInv, AllocCreate
    <3>2. CASE w = started
      <4>1. w < started'
        BY <2>1, <3>2
      <4>. QED BY <2>2, <3>1, <3>2, <4>1 DEF PlaceInv, AfterPoll
    <3>3. CASE w # started
      BY <2>2, <2>3, <3>1, <3>3 DEF PlaceInv
    <3>. QED BY <3>2, <3>3
  <2>5. Rest' /\ main' \in {"create", "ready"} /\ revents' = revents
    BY <1>1, <1>12 DEF AllocCreate, tableVars, acceptVars, PlacesInv
  <2>. QED BY <2>4, <2>5 DEF PlacesInv
<1>13. CASE AllocCreateFails \/ FreeTerminate
  <2>1. UNCHANGED <<wpc, index, conn, revents, fdCount, started>>
    BY <1>13 DEF AllocCreateFails, FreeTerminate
  <2>2. \A w \in Workers : PlaceInv(w)'
    BY <2>1 DEF PlacesInv, PlaceInv
  <2>3. Rest' /\ main' \in {"undo", "free"}
    BY <1>1, <1>13
       DEF AllocCreateFails, FreeTerminate, tableVars, acceptVars, PlacesInv
  <2>. QED BY <2>1, <2>2, <2>3 DEF PlacesInv
<1>14. CASE AllocUndoJoin \/ FreeJoin
  <2>1. Rest' /\ WorkersExited /\ started' = started
    BY <1>1, <1>14
       DEF AllocUndoJoin, FreeJoin, WorkersJoined, tableVars, PlacesInv
  <2>. QED BY <1>5, <1>14, <2>1, OthersQuiet
<1>15. CASE AllocReturnsError \/ FreeRelease
  <2>1. \A s \in Slots : ~live[s] => ~live'[s]
    BY <1>15 DEF AllocReturnsError, FreeRelease, ReleaseAll, tableVars
  <2>2. Rest' /\ Joined' /\ started' = started
    <3>1. UNCHANGED workerVars
      BY <1>15, OthersQuiet
    <3>. QED BY <1>1, <1>15, <2>1, <3>1
             DEF AllocReturnsError, FreeRelease, acceptVars, workerVars,
                 PlacesInv
  <2>3. UNCHANGED <<wpc, walkVars>>
    BY <1>15, OthersQuiet DEF workerVars
  <2>4. \A w \in Workers : PlaceInv(w)'
    BY <2>2, <2>3 DEF PlacesInv, PlaceInv, walkVars
  <2>. QED BY <2>2, <2>3, <2>4 DEF PlacesInv, walkVars
<1>16. ASSUME NEW s \in Slots, AppRelease(s) PROVE PlacesInv'
  <2>1. live' = live \/ live' = [live EXCEPT ![s] = FALSE]
    BY <1>16 DEF AppRelease, ReleaseConnection
  <2>2. \A t \in Slots : ~live[t] => ~live'[t]
    BY <1>1, <2>1 DEF TableTyped
  <2>3. Rest' /\ main' = main /\ started' = started
    BY <1>1, <1>16, <2>2 DEF AppRelease, acceptVars, mainVars, PlacesInv
  <2>. QED BY <1>5, <1>16, <2>3, OthersQuiet
<1>17. ASSUME NEW p \in Peers, PeerConnects(p) \/ PeerGoes(p) PROVE PlacesInv'
  <2>1. Rest' /\ main' = main /\ started' = started
    BY <1>1, <1>17
       DEF PeerConnects, PeerGoes, tableVars, acceptVars, mainVars, PlacesInv
  <2>. QED BY <1>5, <1>17, <2>1, OthersQuiet
<1>. QED BY <1>2, <1>3, <1>7, <1>8, <1>9, <1>10, <1>11, <1>12, <1>13, <1>14,
            <1>15, <1>16, <1>17 DEF Next, AcceptStep, AcceptRest, MainStep

(* The messages in the lists are finitely many.                            *)
LEMMA MessagesFinite ==
    ASSUME NEW s
    PROVE  /\ IsFiniteSet(Messages(s)) /\ Cardinality(Messages(s)) \in Nat
           /\ One(s \in held) \in 0 .. 1 /\ Claims(s) \in Nat
<1> DEFINE all == Workers \X (1 .. MaxMessages)
<1>1. IsFiniteSet(Workers) /\ IsFiniteSet(1 .. MaxMessages)
  BY FS_Interval, ServerAssumption DEF Workers
<1>2. IsFiniteSet(all)
  BY <1>1, FS_Product
<1>3. Messages(s) \subseteq all
  BY DEF Messages
<1>. HIDE DEF all
<1>4. IsFiniteSet(Messages(s))
  BY <1>2, <1>3, FS_Subset
<1>5. Cardinality(Messages(s)) \in Nat
  BY <1>4, FS_CardinalityType
<1>. QED BY <1>4, <1>5 DEF One, Claims

(* Those of a worker that is not yet there, or has ended, are freed.       *)
LEMMA FreedAll ==
    ASSUME WorkersTyped, ListsInv,
           \A w \in Workers : wpc[w] \in {"none", "exited"}
    PROVE  \A s : Messages(s) = {}
<1>1. ASSUME NEW m \in Workers \X (1 .. MaxMessages)
      PROVE  ~(freed[m[1]] < m[2] /\ m[2] <= Len(recvList[m[1]]))
  <2>1. m[1] \in Workers /\ m[2] \in 1 .. MaxMessages
    OBVIOUS
  <2>2. freed[m[1]] = Len(recvList[m[1]]) /\ freed[m[1]] \in Nat
    BY <2>1 DEF ListsInv, ListInv, AfterPoll, WorkersTyped
  <2>. QED BY <2>1, <2>2, ServerAssumption
<1>. QED BY <1>1 DEF Messages

(* The lists as they are, or with a message of one of them more or less.   *)
LEMMA MessagesKept ==
    ASSUME UNCHANGED listVars
    PROVE  \A s : Messages(s)' = Messages(s)
BY DEF listVars, Messages

LEMMA MessagesOneMore ==
    ASSUME TypeOK, PlacesInv, ListsInv, NEW w \in Workers, WorkerKeep(w),
           NEW s \in Slots
    PROVE  /\ Cardinality(Messages(s)') =
                 Cardinality(Messages(s)) + One(s = conn[w])
           /\ s # conn[w] => Messages(s)' = Messages(s)
<1> DEFINE n == Len(recvList[w])
           new == <<w, n + 1>>
<1>1. /\ WorkersTyped /\ recvList[w] \in Seq(Slots) /\ freed[w] \in Nat
      /\ freed[w] <= n /\ n < MaxMessages /\ n \in Nat
  <2>1. WorkersTyped /\ ListInv(w) /\ Len(recvList[w]) < MaxMessages
    BY TypeParts DEF ListsInv, WorkerKeep
  <2>2. /\ recvList[w] \in Seq(Slots) /\ freed[w] \in Nat
        /\ freed[w] <= Len(recvList[w])
    BY <2>1 DEF WorkersTyped, ListInv
  <2>. QED BY <2>1, <2>2
<1>2. conn[w] \in Slots
  BY <1>1 DEF WorkerKeep, Readable, Reported, PlacesInv, PlaceInv, WorkersTyped
<1>3. /\ recvList'[w] = Append(recvList[w], conn[w]) /\ freed' = freed
      /\ \A v \in Workers \ {w} : recvList'[v] = recvList[v]
  BY <1>1 DEF WorkerKeep, WorkersTyped
<1>4. /\ Len(recvList'[w]) = n + 1 /\ recvList'[w][n + 1] = conn[w]
      /\ \A i \in 1 .. n : recvList'[w][i] = recvList[w][i]
  BY <1>1, <1>2, <1>3
<1>5. new \notin Messages(s) /\ new \in Workers \X (1 .. MaxMessages)
  BY <1>1, ServerAssumption DEF Messages
<1>6. ASSUME NEW m \in Workers \X (1 .. MaxMessages)
      PROVE  m \in Messages(s)' <=>
                 m \in Messages(s) \/ (m = new /\ s = conn[w])
  <2>1. PICK v \in Workers, i \in 1 .. MaxMessages : m = <<v, i>>
    OBVIOUS
  <2>2. i \in Nat \ {0}
    BY <2>1, ServerAssumption
  <2>3. CASE v # w
    BY <1>3, <2>1, <2>3 DEF Messages
  <2>4. CASE v = w
    BY <1>1, <1>3, <1>4, <2>1, <2>2, <2>4 DEF Messages
  <2>. QED BY <2>3, <2>4
<1>7. Messages(s) \subseteq Workers \X (1 .. MaxMessages)
      /\ Messages(s)' \subseteq Workers \X (1 .. MaxMessages)
  BY DEF Messages
<1>. HIDE DEF new
<1>8. Messages(s)' = IF s = conn[w] THEN Messages(s) \cup {new}
                     ELSE Messages(s)
  BY <1>5, <1>6, <1>7
<1>9. Cardinality(Messages(s) \cup {new}) = Cardinality(Messages(s)) + 1
  BY <1>5, MessagesFinite, FS_AddElement
<1>10. Cardinality(Messages(s)) \in Nat
  BY MessagesFinite
<1>. QED BY <1>8, <1>9, <1>10 DEF One

LEMMA MessagesOneLess ==
    ASSUME TypeOK, ListsInv, NEW w \in Workers, WorkerReadyReturns(w),
           NEW s \in Slots
    PROVE  /\ Cardinality(Messages(s)') =
                 Cardinality(Messages(s))
                     - One(s = Dispatched(w) /\ cursor[w] > freed[w])
           /\ Messages(s)' \subseteq Messages(s)
           /\ s # Dispatched(w) => Messages(s)' = Messages(s)
           /\ s = Dispatched(w) /\ cursor[w] > freed[w] =>
                 Messages(s) # {}
<1> DEFINE n == Len(recvList[w])
           old == <<w, cursor[w]>>
<1>1. /\ WorkersTyped /\ recvList[w] \in Seq(Slots) /\ freed[w] \in Nat
      /\ cursor[w] \in 1 .. n /\ cursor[w] <= freed[w] + 1
      /\ n \in Nat /\ n <= MaxMessages
  <2>1. WorkersTyped /\ ListInv(w) /\ wpc[w] = "ready"
    BY TypeParts DEF ListsInv, WorkerReadyReturns
  <2>2. recvList[w] \in Seq(Slots) /\ freed[w] \in Nat
    BY <2>1 DEF WorkersTyped
  <2>. QED BY <2>1, <2>2 DEF ListInv
<1>2. /\ recvList' = recvList /\ freed'[w] = Max({freed[w], cursor[w]})
      /\ \A v \in Workers \ {w} : freed'[v] = freed[v]
  BY <1>1 DEF WorkerReadyReturns, WorkersTyped
<1>3. freed'[w] = IF freed[w] >= cursor[w] THEN freed[w] ELSE cursor[w]
  <2>1. freed[w] \in Int /\ cursor[w] \in Int
    BY <1>1
  <2>. QED BY <1>2, <2>1, MaxFacts
<1>4. ASSUME NEW m \in Workers \X (1 .. MaxMessages)
      PROVE  m \in Messages(s)' <=>
                 m \in Messages(s) /\ ~(m = old /\ cursor[w] > freed[w])
  <2>1. PICK v \in Workers, i \in 1 .. MaxMessages : m = <<v, i>>
    OBVIOUS
  <2>2. i \in Nat \ {0}
    BY <2>1, ServerAssumption
  <2>3. CASE v # w
    BY <1>2, <2>1, <2>3 DEF Messages
  <2>4. CASE v = w
    BY <1>1, <1>2, <1>3, <2>1, <2>2, <2>4 DEF Messages
  <2>. QED BY <2>3, <2>4
<1>5. cursor[w] > freed[w] => (old \in Messages(s) <=> s = Dispatched(w))
  <2>1. old \in Workers \X (1 .. MaxMessages)
    BY <1>1, ServerAssumption
  <2>. QED BY <1>1, <2>1 DEF Messages, Dispatched
<1>6. Messages(s) \subseteq Workers \X (1 .. MaxMessages)
      /\ Messages(s)' \subseteq Workers \X (1 .. MaxMessages)
  BY DEF Messages
<1>. HIDE DEF old
<1>7. Messages(s)' = IF s = Dispatched(w) /\ cursor[w] > freed[w]
                     THEN Messages(s) \ {old} ELSE Messages(s)
  BY <1>4, <1>5, <1>6
<1>8. old \in Messages(s) => Cardinality(Messages(s) \ {old})
                                = Cardinality(Messages(s)) - 1
  BY MessagesFinite, FS_RemoveElement
<1>9. Cardinality(Messages(s)) \in Nat
  BY MessagesFinite
<1>. QED BY <1>5, <1>7, <1>8, <1>9 DEF One

(* All other steps of workers leave the messages alone: a worker ends when *)
(* all of its messages are freed.                                          *)
LEMMA MessagesQuiet ==
    ASSUME TypeOK, PlacesInv, ListsInv, NEW w \in Workers,
           \/ WalkStep(w) \/ WorkerDrop(w) \/ WorkerReady(w)
           \/ WorkerHangUp(w) \/ WorkerMark(w) \/ WorkerRelease(w)
    PROVE  \A s : Messages(s)' = Messages(s)
<1>1. CASE Exit(w) /\ wpc[w] \in {"loop", "resize"}
  <2>1. /\ freed[w] = Len(recvList[w]) /\ freed'[w] = 0
        /\ recvList'[w] = << >>
    BY <1>1, TypeParts DEF Exit, ListsInv, ListInv, AfterPoll, WorkersTyped
  <2>2. \A v \in Workers \ {w} : freed'[v] = freed[v]
                                    /\ recvList'[v] = recvList[v]
    BY OtherWorkers DEF Elsewhere, WorkerStep, WalkStep
  <2>3. \A i \in 1 .. MaxMessages : ~(freed[w] < i /\ i <= Len(recvList[w]))
                                     /\ ~(0 < i /\ i <= 0)
    BY <2>1, TypeParts, ServerAssumption DEF WorkersTyped
  <2>4. Len(<< >>) = 0
    OBVIOUS
  <2>5. ASSUME NEW s, NEW m \in Workers \X (1 .. MaxMessages)
        PROVE  /\ freed'[m[1]] < m[2] /\ m[2] <= Len(recvList'[m[1]])
                  /\ recvList'[m[1]][m[2]] = s
               <=> /\ freed[m[1]] < m[2] /\ m[2] <= Len(recvList[m[1]])
                   /\ recvList[m[1]][m[2]] = s
    <3>1. m[1] \in Workers /\ m[2] \in 1 .. MaxMessages
      OBVIOUS
    <3>2. CASE m[1] = w
      BY <2>1, <2>3, <2>4, <3>1, <3>2
    <3>3. CASE m[1] # w
      BY <2>2, <3>1, <3>3
    <3>. QED BY <3>2, <3>3
  <2>6. ASSUME NEW s PROVE Messages(s)' = Messages(s)
    BY <2>5 DEF Messages
  <2>. QED BY <2>6
<1>2. CASE UNCHANGED listVars
  BY <1>2, MessagesKept
<1>3. (Exit(w) /\ wpc[w] \in {"loop", "resize"}) \/ UNCHANGED listVars
  <2>1. CASE WorkerOutOfConnections(w) \/ WorkerOutOfArray(w)
             \/ WorkerUseAfterFree(w)
    BY <2>1 DEF WorkerOutOfConnections, WorkerOutOfArray, WorkerUseAfterFree,
                workerVars
  <2>. QED
    BY <2>1
       DEF WalkStep, WorkerExit, WorkerResize, WorkerAllocate,
           WorkerAllocateFails, WorkerBuild, WorkerEntry, WorkerPoll,
           WorkerPollTimeout, WorkerPollFails, WorkerScan, WorkerSkip,
           WorkerScanned, WorkerReceive, WorkerDrop, WorkerReady, WorkerHangUp,
           WorkerMark, WorkerRelease, WorkerLoad, WorkerStore
<1>. QED BY <1>1, <1>2, <1>3

(* The release of a connection, by a worker or the application.            *)
Released(c) ==
    /\ \A s \in Slots :
          /\ refCount'[s] = IF s = c THEN refCount[s] - 1 ELSE refCount[s]
          /\ live'[s] <=> live[s] /\ ~(s = c /\ refCount[c] = 1)
          /\ socket'[s] = IF s = c /\ refCount[c] = 1 THEN INVALID_SOCKET
                          ELSE socket[s]
    /\ closed \subseteq closed'
    /\ IF refCount[c] = 1
       THEN socket[c] \in closed' \cup {INVALID_SOCKET} /\ shifted' = Workers
       ELSE shifted' = shifted

LEMMA ReleaseFacts ==
    ASSUME TypeOK, NEW c \in Slots, ReleaseConnection(c)
    PROVE  Released(c)
<1>1. /\ live \in [Slots -> BOOLEAN] /\ refCount \in [Slots -> Int]
      /\ socket \in [Slots -> Peers \cup {INVALID_SOCKET}]
  BY DEF TypeOK
<1>2. refCount' = [refCount EXCEPT ![c] = @ - 1]
  BY DEF ReleaseConnection
<1>3. CASE refCount[c] = 1
  <2>1. /\ socket' = [socket EXCEPT ![c] = INVALID_SOCKET]
        /\ live' = [live EXCEPT ![c] = FALSE] /\ shifted' = Workers
    BY <1>3 DEF ReleaseConnection
  <2>2. closed \subseteq closed' /\ socket[c] \in closed' \cup {INVALID_SOCKET}
    BY <1>3 DEF ReleaseConnection, CloseSocket, Sockets
  <2>. QED BY <1>1, <1>2, <1>3, <2>1, <2>2 DEF Released
<1>4. CASE refCount[c] # 1
  <2>1. socket' = socket /\ live' = live /\ shifted' = shifted
        /\ closed' = closed
    BY <1>4 DEF ReleaseConnection
  <2>. QED BY <1>1, <1>2, <1>4, <2>1 DEF Released
<1>. QED BY <1>3, <1>4

(* It keeps the sockets in their slots if no more than that claim is gone. *)
LEMMA ReleaseKeeps ==
    ASSUME TypeOK, SocketsInv, NEW c \in Slots, Released(c),
           \A s \in Slots : Claims(s)' \in Nat
                              /\ Claims(s)' >= Claims(s) - One(s = c),
           apc' = apc, newSlot' = newSlot, newSocket' = newSocket,
           main' = main, peer' = peer, overwritten' = overwritten
    PROVE  SocketsInv'
<1>1. ASSUME NEW s \in Slots PROVE SlotInv(s)'
  <2>1. /\ SlotInv(s) /\ refCount[s] \in Int /\ Claims(s) \in Nat
        /\ Claims(s)' \in Nat /\ Claims(s)' >= Claims(s) - One(s = c)
    BY MessagesFinite DEF SocketsInv, TypeOK
  <2>2. Arriving(s)' <=> Arriving(s)
    BY DEF Arriving
  <2>3. CASE s # c
    <3>1. /\ refCount'[s] = refCount[s] /\ (live'[s] <=> live[s])
          /\ socket'[s] = socket[s] /\ One(s = c) = 0
      BY <2>3 DEF Released, One
    <3>. QED BY <2>1, <2>2, <3>1 DEF SlotInv, One
  <2>4. CASE s = c /\ refCount[s] = 1
    <3>1. refCount'[s] = 0 /\ socket'[s] = INVALID_SOCKET
      BY <2>4 DEF Released
    <3>. QED BY <2>1, <3>1 DEF SlotInv, One
  <2>5. CASE s = c /\ refCount[s] # 1
    <3>1. /\ refCount'[s] = refCount[s] - 1 /\ (live'[s] <=> live[s])
          /\ socket'[s] = socket[s] /\ One(s = c) = 1
      BY <2>5 DEF Released, One
    <3>. QED BY <2>1, <2>2, <2>5, <3>1 DEF SlotInv, One
  <2>. QED BY <2>3, <2>4, <2>5
<1>2. Kept'
  <2>. SUFFICES ASSUME ~overwritten', NEW p \in Peers,
                       peer'[p] \in {"connected", "gone"}
                PROVE  \/ p \in closed' \/ p = newSocket'
                       \/ \E s \in Slots : socket'[s] = p
    BY DEF Kept
  <2>1. p \in closed \/ p = newSocket \/ \E s \in Slots : socket[s] = p
    BY  DEF SocketsInv, Kept
  <2>2. ASSUME NEW s \in Slots, socket[s] = p
        PROVE  p \in closed' \/ socket'[s] = p
    <3>1. p # INVALID_SOCKET
      BY DEF Peers, INVALID_SOCKET
    <3>. QED BY <2>2, <3>1 DEF Released
  <2>. QED BY <2>1, <2>2 DEF Released
<1>. QED BY <1>1, <1>2 DEF SocketsInv

(* Every step of a worker keeps the sockets in their slots.                *)
LEMMA WorkerKeepsSockets ==
    ASSUME TypeOK, PlacesInv, ListsInv, SocketsInv,
           NEW w \in Workers, WorkerStep(w)
    PROVE  SocketsInv'
<1>1. TableTyped /\ MainTyped /\ WorkersTyped
  BY TypeParts
<1>2. ASSUME NEW s \in Slots, Messages(s)' = Messages(s)
      PROVE  Claims(s)' = One(s \in held') + Cardinality(Messages(s))
  BY <1>2 DEF Claims
<1>3. /\ \A s \in Slots :
            Claims(s) = One(s \in held) + Cardinality(Messages(s))
      /\ \A s \in Slots : One(s \in held) \in 0 .. 1
                             /\ Cardinality(Messages(s)) \in Nat
  BY MessagesFinite DEF Claims
<1>4. CASE WalkStep(w)
  <2>1. \A s \in Slots : Messages(s)' = Messages(s) /\ held' = held
    BY <1>4, MessagesQuiet, WalkQuiet
  <2>2. \A s \in Slots : Claims(s)' = Claims(s)
    BY <1>2, <1>3, <2>1
  <2>. QED BY <1>4, <2>2, WalkQuiet DEF SocketsInv, SlotInv, Kept, Arriving
<1>5. CASE TakeStep(w)
  <2> DEFINE c == TakenSlot(w)
             n == One(WorkerKeep(w))
  <2>1. /\ c \in Slots /\ AddReferences(c, n) /\ n \in Nat
        /\ live' = live /\ socket' = socket /\ closed' = closed
        /\ overwritten' = overwritten /\ peer' = peer /\ main' = main
        /\ apc' = apc /\ newSlot' = newSlot /\ newSocket' = newSocket
    BY <1>5, TakeEffects DEF One, acceptVars, mainVars
  <2>. HIDE DEF c, n
  <2>2. Taken(c, n)
    BY <2>1, TakenFacts
  <2>3. ASSUME NEW s \in Slots
        PROVE  Cardinality(Messages(s)') =
                   Cardinality(Messages(s)) + IF s = c THEN n ELSE 0
    <3>1. CASE WorkerKeep(w)
      <4>1. c = conn[w]
        BY <3>1 DEF c, TakenSlot, WorkerKeep, Readable, Reported
      <4>. QED BY <1>3, <3>1, <4>1, MessagesOneMore DEF n, One
    <3>2. CASE ~WorkerKeep(w)
      <4>1. Messages(s)' = Messages(s)
        BY <1>5, <3>2, MessagesQuiet DEF TakeStep
      <4>. QED BY <1>3, <3>2, <4>1 DEF n, One
    <3>. QED BY <3>1, <3>2
  <2>4. ASSUME NEW s \in Slots
        PROVE  refCount'[s] - Claims(s)' = refCount[s] - Claims(s)
               /\ refCount'[s] >= refCount[s] /\ refCount'[s] \in Int
    <3>1. refCount[s] \in Int /\ One(held' # held) \in 0 .. 1
      BY <1>1 DEF TableTyped, One
    <3>2. One(s \in held') = One(s \in held)
                             + IF s = c THEN One(held' # held) ELSE 0
      BY <2>2 DEF Taken, One
    <3>3. refCount'[s] = IF s = c THEN refCount[s] + One(held' # held) + n
                         ELSE refCount[s]
      BY <2>2 DEF Taken
    <3>4. Claims(s)' = One(s \in held') + Cardinality(Messages(s)')
      BY DEF Claims
    <3>. QED BY <1>3, <2>1, <2>3, <3>1, <3>2, <3>3, <3>4
  <2>5. ASSUME NEW s \in Slots PROVE SlotInv(s)'
    <3>1. SlotInv(s) /\ refCount[s] \in Int /\ Claims(s) \in Nat
      BY <1>1, MessagesFinite DEF SocketsInv, TableTyped
    <3>2. Arriving(s)' <=> Arriving(s)
      BY <2>1 DEF Arriving
    <3>3. Claims(s)' = refCount'[s] - refCount[s] + Claims(s)
      <4>1. Claims(s)' \in Int
        BY <1>3, <2>1, <2>3 DEF Claims, One
      <4>. QED BY <2>4, <3>1, <4>1
    <3>. QED BY <2>1, <2>4, <3>1, <3>2, <3>3 DEF SlotInv, One
  <2>6. Kept'
    BY <2>1 DEF SocketsInv, Kept
  <2>. QED BY <2>5, <2>6 DEF SocketsInv
<1>6. CASE WorkerHangUp(w) \/ WorkerMark(w)
  <2>1. \A s \in Slots : Messages(s)' = Messages(s) /\ held' = held
    BY <1>6, MessagesQuiet DEF WorkerHangUp, WorkerMark
  <2>2. \A s \in Slots : Claims(s)' = Claims(s)
    BY <1>2, <1>3, <2>1
  <2>3. CASE WorkerHangUp(w)
    <3>1. closed \subseteq closed'
      BY <2>3 DEF WorkerHangUp, CloseSocket
    <3>2. /\ live' = live /\ socket' = socket /\ refCount' = refCount
          /\ overwritten' = overwritten /\ peer' = peer /\ main' = main
          /\ apc' = apc /\ newSlot' = newSlot /\ newSocket' = newSocket
      BY <2>3 DEF WorkerHangUp, acceptVars, mainVars, tableVars
    <3>3. \A s \in Slots : SlotInv(s)'
      BY <2>2, <3>2 DEF SocketsInv, SlotInv, Arriving
    <3>4. Kept'
      BY <3>1, <3>2 DEF SocketsInv, Kept
    <3>. QED BY <3>3, <3>4 DEF SocketsInv
  <2>4. CASE WorkerMark(w)
    <3>1. conn[w] \in Slots
      BY <1>1, <2>4 DEF WorkerMark, PlacesInv, PlaceInv, WorkersTyped
    <3>2. /\ live' = live /\ refCount' = refCount /\ peer' = peer
          /\ main' = main /\ closed' = closed
          /\ apc' = apc /\ newSlot' = newSlot /\ newSocket' = newSocket
      BY <2>4 DEF WorkerMark, acceptVars, mainVars
    <3>3. \A s \in Slots : socket'[s] = IF s = conn[w] THEN INVALID_SOCKET
                                        ELSE socket[s]
      BY <1>1, <2>4, <3>1 DEF WorkerMark, TableTyped
    <3>4. \A s \in Slots : SlotInv(s)'
      BY <2>2, <3>2, <3>3 DEF SocketsInv, SlotInv, Arriving
    <3>5. ~overwritten' =>
            ~overwritten /\ socket[conn[w]] \in closed \cup {INVALID_SOCKET}
      BY <2>4 DEF WorkerMark
    <3>6. INVALID_SOCKET \notin Peers
      BY DEF INVALID_SOCKET, Peers
    <3>7. Kept'
      BY <3>2, <3>3, <3>5, <3>6 DEF SocketsInv, Kept
    <3>. QED BY <3>4, <3>7 DEF SocketsInv
  <2>. QED BY <1>6, <2>3, <2>4
<1>7. ASSUME NEW c \in Slots, ReleaseConnection(c),
             held' = held, UNCHANGED <<acceptVars, mainVars>>,
             peer' = peer, overwritten' = overwritten,
             \A s \in Slots :
                 /\ Cardinality(Messages(s)') \in Nat
                 /\ Cardinality(Messages(s)')
                       >= Cardinality(Messages(s)) - One(s = c)
      PROVE  SocketsInv'
  <2>1. ASSUME NEW s \in Slots
        PROVE  Claims(s)' \in Nat /\ Claims(s)' >= Claims(s) - One(s = c)
    <3>1. Claims(s)' = One(s \in held) + Cardinality(Messages(s)')
      BY <1>7 DEF Claims
    <3>. QED BY <1>3, <1>7, <3>1 DEF One
  <2>. QED BY <1>7, <2>1, ReleaseFacts, ReleaseKeeps DEF acceptVars, mainVars
<1>8. CASE WorkerRelease(w)
  <2>1. conn[w] \in Slots /\ ReleaseConnection(conn[w])
    BY <1>1, <1>8 DEF WorkerRelease, PlacesInv, PlaceInv, WorkersTyped
  <2>2. \A s \in Slots : Messages(s)' = Messages(s)
    BY <1>8, MessagesQuiet
  <2>3. \A s \in Slots :
             /\ Cardinality(Messages(s)') \in Nat
             /\ Cardinality(Messages(s)')
                       >= Cardinality(Messages(s)) - One(s = conn[w])
    BY <1>3, <2>2 DEF One
  <2>. QED BY <1>7, <1>8, <2>1, <2>3 DEF WorkerRelease
<1>9. CASE WorkerReadyReturns(w)
  <2>1. Dispatched(w) \in Slots /\ ReleaseConnection(Dispatched(w))
    BY <1>1, <1>9
       DEF WorkerReadyReturns, Dispatched, ListsInv, ListInv, WorkersTyped
  <2>2. ASSUME NEW s \in Slots
        PROVE  /\ Cardinality(Messages(s)') \in Nat
               /\ Cardinality(Messages(s)')
                     >= Cardinality(Messages(s)) - One(s = Dispatched(w))
    <3>1. Cardinality(Messages(s)') \in Nat
      <4>1. IsFiniteSet(Messages(s)')
        BY <1>9, MessagesOneLess, MessagesFinite, FS_Subset
      <4>. QED BY <4>1, FS_CardinalityType
    <3>. QED BY <1>3, <1>9, <3>1, MessagesOneLess DEF One
  <2>. QED BY <1>7, <1>9, <2>1, <2>2 DEF WorkerReadyReturns
<1>. QED BY <1>4, <1>5, <1>6, <1>8, <1>9 DEF WorkerStep, WalkStep, TakeStep

(* Every step of the accepting thread does.                                *)
LEMMA AcceptKeepsSockets ==
    ASSUME TypeOK, PlacesInv, SocketsInv,
           \/ AcceptExit \/ AcceptFails \/ AcceptPollFails \/ AcceptFind
           \/ AcceptInitialise \/ AcceptState \/ AcceptLoad \/ AcceptStore
           \/ \E p \in Peers : AcceptConnection(p)
    PROVE  SocketsInv'
<1>1. TableTyped /\ MainTyped /\ AcceptTyped
  BY TypeParts
<1>2. /\ INVALID_SOCKET \notin Peers
      /\ held' = held => \A s \in Slots :
                            Claims(s) \in Nat /\ Claims(s)' = Claims(s)
  BY OthersQuiet, MessagesKept, MessagesFinite
     DEF workerVars, Claims, INVALID_SOCKET, Peers
<1>3. CASE AcceptExit \/ AcceptFails \/ AcceptPollFails
           \/ AcceptLoad \/ AcceptStore
  <2>1. /\ UNCHANGED tableVars /\ overwritten' = overwritten /\ peer' = peer
        /\ main' = main /\ held' = held /\ newSlot' = newSlot
        /\ newSocket' = newSocket /\ closed' = closed
        /\ apc # "state" /\ apc' # "state"
    BY <1>3
       DEF AcceptExit, AcceptFails, AcceptPollFails, AcceptLoad, AcceptStore,
           mainVars, historyVars
  <2>. QED BY <1>2, <2>1 DEF SocketsInv, SlotInv, Kept, Arriving, tableVars
<1>4. CASE AcceptFind
  <2>1. /\ UNCHANGED tableVars /\ overwritten' = overwritten /\ peer' = peer
        /\ main' = main /\ held' = held /\ apc # "state" /\ apc' # "state"
    BY <1>4 DEF AcceptFind, mainVars
  <2>2. \/ /\ newSocket' = newSocket
           /\ closed' = closed
        \/ closed' = closed \cup {newSocket}
    BY <1>4 DEF AcceptFind, CloseNewSocket
  <2>3. \A s \in Slots : SlotInv(s)'
    BY <1>2, <2>1 DEF SocketsInv, SlotInv, Arriving, tableVars
  <2>4. Kept'
    BY <2>1, <2>2 DEF SocketsInv, Kept, tableVars
  <2>. QED BY <2>3, <2>4 DEF SocketsInv
<1>5. CASE AcceptInitialise
  <2>1. newSlot \in Slots /\ ~live[newSlot] /\ apc = "initialise"
    BY <1>5 DEF AcceptInitialise, PlacesInv
  <2>2. socket[newSlot] = INVALID_SOCKET /\ main # "freed"
    BY <2>1 DEF SocketsInv, SlotInv, Kept, Arriving, PlacesInv
  <2>3. /\ live' = live /\ overwritten' = overwritten /\ peer' = peer
        /\ main' = main /\ held' = held
    BY <1>5 DEF AcceptInitialise, mainVars
  <2>4. CASE /\ socket' = [socket EXCEPT ![newSlot] = newSocket]
             /\ refCount' = [refCount EXCEPT ![newSlot] = TableReference]
             /\ apc' = "state" /\ newSocket' = INVALID_SOCKET
             /\ closed' = closed /\ newSlot' = newSlot
    <3>1. ASSUME NEW s \in Slots PROVE SlotInv(s)'
      <4>1. CASE s = newSlot
        <5>1. refCount'[s] = 1 /\ Arriving(s)'
          BY <1>1, <2>4, <4>1 DEF TableTyped, TableReference, Arriving
        <5>. QED BY <1>2, <2>2, <2>3, <5>1 DEF SlotInv, One
      <4>2. CASE s # newSlot
        <5>1. refCount'[s] = refCount[s] /\ socket'[s] = socket[s]
              /\ ~Arriving(s) /\ ~Arriving(s)'
          BY <1>1, <2>4, <4>2 DEF TableTyped, Arriving
        <5>. QED BY <1>2, <2>3, <5>1 DEF SocketsInv, SlotInv
      <4>. QED BY <4>1, <4>2
    <3>2. \A s \in Slots : socket'[s] = IF s = newSlot THEN newSocket
                                        ELSE socket[s]
      BY <1>1, <2>4 DEF TableTyped
    <3>3. Kept'
      BY <1>2, <2>1, <2>2, <2>3, <2>4, <3>2 DEF SocketsInv, Kept
    <3>. QED BY <3>1, <3>3 DEF SocketsInv
  <2>5. CASE /\ socket' = [socket EXCEPT ![newSlot] = INVALID_SOCKET]
             /\ refCount' = [refCount EXCEPT ![newSlot] = 0]
             /\ apc' = "poll" /\ CloseNewSocket
    <3>1. \A s \in Slots :
             /\ socket'[s] = socket[s]
             /\ refCount'[s] = IF s = newSlot THEN 0 ELSE refCount[s]
      BY <1>1, <2>2, <2>5 DEF TableTyped
    <3>2. ASSUME NEW s \in Slots PROVE SlotInv(s)'
      <4>1. ~Arriving(s) /\ ~Arriving(s)' /\ SlotInv(s)
        BY <2>1, <2>5 DEF SocketsInv, Arriving
      <4>. QED BY <1>2, <2>2, <2>3, <3>1, <4>1 DEF SlotInv, One
    <3>3. Kept'
      BY <2>3, <2>5, <3>1 DEF SocketsInv, Kept, CloseNewSocket
    <3>. QED BY <3>2, <3>3 DEF SocketsInv
  <2>. QED BY <1>5, <2>4, <2>5 DEF AcceptInitialise
<1>6. CASE AcceptState
  <2>1. newSlot \in Slots /\ apc = "state" /\ apc' = "load"
    BY <1>6 DEF AcceptState, PlacesInv
  <2>2. /\ socket' = socket /\ refCount' = refCount /\ held' = held
        /\ main' = main /\ overwritten' = overwritten /\ peer' = peer
        /\ newSocket' = newSocket /\ closed' = closed
    BY <1>6 DEF AcceptState, mainVars
  <2>3. \A s \in Slots : live'[s] <=> live[s] \/ s = newSlot
    BY <1>1, <1>6, <2>1 DEF AcceptState, TableTyped
  <2>4. \A s \in Slots : (live[s] \/ Arriving(s))' <=> live[s] \/ Arriving(s)
    BY <2>1, <2>3 DEF Arriving
  <2>5. \A s \in Slots : SlotInv(s)'
    BY <1>2, <2>2, <2>4 DEF SocketsInv, SlotInv, One
  <2>6. Kept'
    BY <2>2 DEF SocketsInv, Kept
  <2>. QED BY <2>5, <2>6 DEF SocketsInv
<1>7. ASSUME NEW p \in Peers, AcceptConnection(p) PROVE SocketsInv'
  <2>1. newSocket = INVALID_SOCKET /\ apc # "state" /\ apc' # "state"
    BY <1>7 DEF AcceptConnection, Accepting, PlacesInv
  <2>2. /\ UNCHANGED tableVars /\ held' = held /\ newSocket' = p
        /\ main' = main /\ overwritten' = overwritten /\ closed' = closed
    BY <1>7 DEF AcceptConnection, mainVars, historyVars
  <2>3. \A q \in Peers : q # p => peer'[q] = peer[q]
    BY <1>1, <1>7 DEF AcceptConnection, MainTyped
  <2>4. \A s \in Slots : SlotInv(s)'
    BY <1>2, <2>1, <2>2 DEF SocketsInv, SlotInv, Arriving, tableVars
  <2>5. Kept'
    BY <1>2, <2>1, <2>2, <2>3 DEF SocketsInv, Kept, tableVars
  <2>. QED BY <2>4, <2>5 DEF SocketsInv
<1>. QED BY <1>3, <1>4, <1>5, <1>6, <1>7

(* So do all others; MFBroker_Free closes what is left.                    *)
LEMMA SocketsHold ==
    ASSUME TypeOK, PlacesInv, ListsInv, SocketsInv, [Next]_vars
    PROVE  SocketsInv'
<1>1. TableTyped /\ MainTyped /\ AcceptTyped
  BY TypeParts
<1>2. CASE UNCHANGED vars
  <2>1. \A s : Claims(s)' = Claims(s)
    BY <1>2, MessagesKept DEF vars, workerVars, Claims
  <2>. QED
    BY <1>2, <2>1
       DEF vars, SocketsInv, SlotInv, Kept, Arriving, tableVars, acceptVars,
           mainVars, historyVars
<1>3. ASSUME AllocCreate \/ AllocCreateFails \/ AllocUndoJoin
             \/ AllocReturnsError \/ FreeTerminate \/ FreeJoin
      PROVE  SocketsInv'
  <2>1. /\ UNCHANGED <<tableVars, held, peer, historyVars, listVars>>
        /\ apc' = apc /\ newSocket' = newSocket /\ newSlot' = newSlot
    BY <1>3
       DEF AllocCreate, AllocCreateFails, AllocUndoJoin, WorkersJoined,
           AllocReturnsError, FreeTerminate, FreeJoin, acceptVars, workerVars
  <2>2. main' # "freed"
    BY <1>3
       DEF AllocCreate, AllocCreateFails, AllocUndoJoin, AllocReturnsError,
           FreeTerminate, FreeJoin
  <2>3. \A s : Claims(s)' = Claims(s)
    BY <2>1, MessagesKept DEF Claims
  <2>. QED BY <2>1, <2>2, <2>3
              DEF SocketsInv, SlotInv, Kept, Arriving, tableVars, historyVars
<1>4. CASE FreeRelease
  <2>1. /\ apc = "exited" /\ held = {} /\ newSocket = INVALID_SOCKET
        /\ apc' = apc /\ held' = held /\ newSocket' = newSocket
        /\ overwritten' = overwritten /\ peer' = peer /\ newSlot' = newSlot
    BY <1>4 DEF FreeRelease, PlacesInv, acceptVars
  <2>2. \A s \in Slots : Claims(s) = 0 /\ Claims(s)' = 0
    <3>1. \A s : Messages(s) = {}
      BY <1>4, TypeParts, FreedAll DEF FreeRelease, PlacesInv
    <3>2. \A s : Messages(s)' = Messages(s)
      BY <1>4, OthersQuiet, MessagesKept DEF workerVars
    <3>. QED BY <2>1, <3>1, <3>2, FS_EmptySet DEF Claims, One
  <2> DEFINE last == {s \in Slots : live[s] /\ refCount[s] = 1}
  <2>3. /\ refCount' = [s \in Slots |-> IF live[s] THEN refCount[s] - 1
                                        ELSE refCount[s]]
        /\ live' = [s \in Slots |-> live[s] /\ s \notin last]
        /\ closed' = closed \cup Sockets(last)
        /\ socket' = [s \in Slots |-> IF s \in last THEN INVALID_SOCKET
                                      ELSE socket[s]]
    BY <1>4 DEF FreeRelease, ReleaseAll
  <2>4. ASSUME NEW s \in Slots
        PROVE  /\ socket[s] # INVALID_SOCKET => s \in last
               /\ refCount[s] <= One(live[s])
    <3>1. SlotInv(s) /\ ~Arriving(s) /\ refCount[s] \in Int
      BY <1>1, <2>1 DEF SocketsInv, Arriving, TableTyped
    <3>2. refCount[s] <= One(live[s])
      BY <2>2, <3>1 DEF SlotInv, One
    <3>. QED BY <3>1, <3>2 DEF SlotInv, One
  <2>5. ASSUME NEW s \in Slots PROVE SlotInv(s)'
    <3>1. socket'[s] = INVALID_SOCKET
      BY <2>3, <2>4
    <3>2. refCount'[s] <= 0
      <4>1. refCount[s] \in Int
        BY <1>1 DEF TableTyped
      <4>2. CASE live[s]
        BY <2>3, <2>4, <4>1, <4>2 DEF One
      <4>3. CASE ~live[s]
        BY <2>3, <2>4, <4>1, <4>3 DEF One
      <4>. QED BY <4>2, <4>3
    <3>3. refCount'[s] \in Int
      BY <1>1, <2>3 DEF TableTyped
    <3>. QED BY <2>2, <3>1, <3>2, <3>3 DEF SlotInv, One
  <2>6. Kept'
    BY <2>1, <2>3, <2>4 DEF SocketsInv, Kept, Sockets
  <2>. QED BY <2>5, <2>6 DEF SocketsInv
<1>5. ASSUME NEW s \in Slots, AppRelease(s) PROVE SocketsInv'
  <2>1. /\ overwritten' = overwritten /\ peer' = peer /\ main' = main
        /\ apc' = apc /\ newSlot' = newSlot /\ newSocket' = newSocket
        /\ s \in held /\ held' = held \ {s} /\ ReleaseConnection(s)
    BY <1>5 DEF AppRelease, acceptVars, mainVars
  <2>2. \A t : Messages(t)' = Messages(t)
    BY <1>5, OthersQuiet, MessagesKept DEF workerVars
  <2>3. ASSUME NEW t \in Slots
        PROVE  Claims(t)' \in Nat /\ Claims(t)' >= Claims(t) - One(t = s)
    <3>1. Cardinality(Messages(t)) \in Nat
      BY MessagesFinite
    <3>2. Claims(t)' = One(t \in held') + Cardinality(Messages(t))
      BY <2>2 DEF Claims
    <3>. QED BY <2>1, <3>1, <3>2 DEF Claims, One
  <2>. QED BY <2>1, <2>3, ReleaseFacts, ReleaseKeeps
<1>6. ASSUME NEW p \in Peers, PeerConnects(p) \/ PeerGoes(p)
      PROVE  SocketsInv'
  <2>1. /\ UNCHANGED <<tableVars, held, historyVars>> /\ main' = main
        /\ apc' = apc /\ newSocket' = newSocket /\ newSlot' = newSlot
    BY <1>6 DEF PeerConnects, PeerGoes, acceptVars, mainVars
  <2>2. \A q \in Peers : peer'[q] \in {"connected", "gone"} =>
                            peer[q] \in {"connected", "gone"}
    BY <1>1, <1>6 DEF PeerConnects, PeerGoes, MainTyped
  <2>3. \A s : Claims(s)' = Claims(s)
    BY <1>6, <2>1, OthersQuiet, MessagesKept DEF workerVars, Claims
  <2>4. \A s \in Slots : SlotInv(s)'
    BY <2>1, <2>3 DEF SocketsInv, SlotInv, Arriving, tableVars
  <2>5. Kept'
    BY <2>1, <2>2 DEF SocketsInv, Kept, tableVars, historyVars
  <2>. QED BY <2>4, <2>5 DEF SocketsInv
<1>. QED BY <1>2, <1>3, <1>4, <1>5, <1>6, WorkerKeepsSockets,
            AcceptKeepsSockets DEF Next, MainStep, AcceptStep, AcceptRest

(* What refers to a slot, if anything.                                     *)
LEMMA OwnersFacts ==
    ASSUME NEW s
    PROVE  /\ Owners(s) = One(s \in base) + One(s \in held) + One(Arriving(s))
                             + Cardinality(Messages(s))
           /\ One(s \in base) \in 0 .. 1 /\ One(s \in held) \in 0 .. 1
           /\ One(Arriving(s)) \in 0 .. 1 /\ Owners(s) \in Nat
           /\ Cardinality(Messages(s)) \in Nat
           /\ Messages(s) = {} <=> Cardinality(Messages(s)) = 0
<1>1. Owners(s) = One(s \in base) + One(s \in held) + One(Arriving(s))
                    + Cardinality(Messages(s))
  BY DEF Owners, Arriving
<1>2. /\ One(s \in base) \in 0 .. 1 /\ One(s \in held) \in 0 .. 1
      /\ One(Arriving(s)) \in 0 .. 1
  BY DEF One
<1>3. /\ Cardinality(Messages(s)) \in Nat
      /\ Messages(s) = {} <=> Cardinality(Messages(s)) = 0
  BY MessagesFinite, FS_EmptySet
<1>. QED BY <1>1, <1>2, <1>3

(* A slot of which nothing is counted or owned that was not before stays   *)
(* referred to as it should be.                                            *)
LEMMA ReferredKept ==
    ASSUME NEW s \in Slots, Referred(s),
           refCount'[s] = refCount[s], live'[s] <=> live[s],
           socket'[s] \in {socket[s], INVALID_SOCKET},
           s \in base' <=> s \in base, s \in held' <=> s \in held,
           Arriving(s)' <=> Arriving(s), Messages(s)' = Messages(s),
           staleReleases'[s] = staleReleases[s]
    PROVE  Referred(s)'
<1>1. Owners(s)' = Owners(s)
  BY DEF Owners, Arriving, One
<1>. QED BY <1>1 DEF Referred

(* The release of a connection, by an owner that is one no more or through *)
(* a freed message.                                                        *)
LEMMA ReleaseCounts ==
    ASSUME TypeOK, NEW c \in Slots, Released(c),
           \A s \in Slots : Referred(s),
           refCount[c] = 1 => ~(staleReleases'[c] > 0),
           Owners(c)' - staleReleases'[c] = Owners(c) - staleReleases[c] - 1,
           Messages(c)' \subseteq Messages(c), staleReleases'[c] \in Nat,
           base' \subseteq base, held' \subseteq held,
           c \in base' \/ c \notin base \/ socket[c] = INVALID_SOCKET,
           \A s \in Slots \ {c} :
               /\ s \in base' <=> s \in base
               /\ s \in held' <=> s \in held
               /\ Messages(s)' = Messages(s)
               /\ staleReleases'[s] = staleReleases[s],
           apc' = apc, newSlot' = newSlot
    PROVE  \A s \in Slots : Referred(s)'
<1>1. \A s : Arriving(s)' <=> Arriving(s)
  BY DEF Arriving
<1>2. ASSUME NEW s \in Slots \ {c} PROVE Referred(s)'
  BY <1>1, ReferredKept DEF Released
<1>3. Referred(c)'
  <2>1. /\ refCount[c] \in Int /\ staleReleases[c] \in Nat /\ Referred(c)
        /\ refCount'[c] = refCount[c] - 1
        /\ live'[c] <=> live[c] /\ refCount[c] # 1
        /\ socket'[c] = IF refCount[c] = 1 THEN INVALID_SOCKET ELSE socket[c]
    BY DEF TypeOK, Released
  <2>2. Cardinality(Messages(c)') \in Nat
        /\ (Messages(c)' = {} <=> Cardinality(Messages(c)') = 0)
    <3>1. IsFiniteSet(Messages(c)')
      BY MessagesFinite, FS_Subset
    <3>. QED BY <3>1, FS_CardinalityType, FS_EmptySet
  <2>3. Owners(c)' = One(c \in base') + One(c \in held')
                       + One(Arriving(c)) + Cardinality(Messages(c)')
    BY <1>1 DEF Owners, Arriving, One
  <2>4. /\ Owners(c) \in Nat /\ Owners(c)' \in Nat
        /\ One(Arriving(c)) \in 0 .. 1 /\ One(c \in base') \in 0 .. 1
        /\ One(c \in held') \in 0 .. 1
    BY <2>2, <2>3, OwnersFacts DEF One
  <2>5. refCount'[c] = Owners(c)' - staleReleases'[c]
    BY <2>1, <2>4 DEF Referred
  <2>6. CASE refCount[c] = 1
    <3>1. Owners(c)' = 0
      BY <2>1, <2>4, <2>5, <2>6
    <3>2. /\ One(c \in base') = 0 /\ One(c \in held') = 0
          /\ One(Arriving(c)) = 0 /\ Cardinality(Messages(c)') = 0
      BY <2>2, <2>3, <2>4, <3>1
    <3>3. c \notin base' /\ c \notin held' /\ ~Arriving(c)
      BY <3>2 DEF One
    <3>. QED BY <1>1, <2>1, <2>2, <2>5, <2>6, <3>2, <3>3 DEF Referred
  <2>7. CASE refCount[c] # 1
    BY <1>1, <2>1, <2>5, <2>7 DEF Referred
  <2>. QED BY <2>6, <2>7
<1>. QED BY <1>2, <1>3

(* Every step of a worker keeps the references counted.                    *)
LEMMA WorkerKeepsReferences ==
    ASSUME TypeOK, PlacesInv, ListsInv, ReferencesInv,
           NEW w \in Workers, WorkerStep(w)
    PROVE  ReferencesInv'
<1>1. TableTyped /\ MainTyped /\ WorkersTyped
  BY TypeParts
<1>2. CASE WalkStep(w) \/ WorkerHangUp(w) \/ WorkerMark(w)
  <2>1. /\ live' = live /\ refCount' = refCount /\ base' = base
        /\ held' = held /\ astray' = astray
        /\ apc' = apc /\ newSlot' = newSlot
        /\ staleReleases' = staleReleases
    BY <1>2, WalkQuiet DEF WorkerHangUp, WorkerMark, tableVars, acceptVars
  <2>2. \A s \in Slots : socket'[s] \in {socket[s], INVALID_SOCKET}
    <3>1. CASE WalkStep(w) \/ WorkerHangUp(w)
      BY <3>1, WalkQuiet DEF WorkerHangUp, tableVars
    <3>2. CASE WorkerMark(w)
      BY <1>1, <3>2 DEF WorkerMark, TableTyped
    <3>. QED BY <1>2, <3>1, <3>2
  <2>3. \A s : (Arriving(s)' <=> Arriving(s)) /\ Messages(s)' = Messages(s)
    BY <1>2, <2>1, MessagesQuiet DEF Arriving
  <2>. QED BY <2>1, <2>2, <2>3, ReferredKept DEF ReferencesInv
<1>3. CASE TakeStep(w)
  <2> DEFINE k == One(WorkerKeep(w))
  <2>1. /\ TakenSlot(w) \in Slots /\ AddReferences(TakenSlot(w), k)
        /\ k \in 0 .. 1
        /\ live' = live /\ socket' = socket /\ base' = base
        /\ staleReleases' = staleReleases
        /\ apc' = apc /\ newSlot' = newSlot
    BY <1>3, TakeEffects DEF One, acceptVars
  <2>2. PICK c \in Slots, n \in 0 .. 1 :
            Taken(c, n) /\ c = TakenSlot(w) /\ n = One(WorkerKeep(w))
    BY <2>1, TakenFacts
  <2>3. /\ \A s \in Slots \ {c} : Messages(s)' = Messages(s)
        /\ Cardinality(Messages(c)') = Cardinality(Messages(c)) + n
        /\ n = 0 => Messages(c)' = Messages(c)
    <3>1. CASE WorkerKeep(w)
      <4>1. c = conn[w]
        BY <2>2, <3>1 DEF TakenSlot, WorkerKeep, Readable, Reported
      <4>2. n = 1
        BY <2>2, <3>1 DEF One
      <4>. QED BY <2>1, <3>1, <4>1, <4>2, MessagesOneMore DEF One
    <3>2. CASE ~WorkerKeep(w)
      <4>1. \A s : Messages(s)' = Messages(s)
        BY <1>3, <3>2, MessagesQuiet DEF TakeStep
      <4>2. n = 0 /\ Cardinality(Messages(c)) \in Nat
        BY <2>2, <3>2, MessagesFinite DEF One
      <4>. QED BY <4>1, <4>2
    <3>. QED BY <3>1, <3>2
  <2>4. \A s : Arriving(s)' <=> Arriving(s)
    BY <2>1 DEF Arriving
  <2>5. ASSUME ~astray', NEW s \in Slots \ {c} PROVE Referred(s)'
    <3>1. ~astray /\ refCount'[s] = refCount[s]
          /\ (s \in held' <=> s \in held)
      BY <2>2, <2>5 DEF Taken
    <3>. QED BY <2>1, <2>3, <2>4, <3>1, ReferredKept DEF ReferencesInv
  <2>6. ASSUME ~astray' PROVE Referred(c)'
    <3>1. /\ ~astray /\ Referred(c) /\ refCount[c] \in Int
          /\ refCount'[c] = refCount[c] + One(held' # held) + n
          /\ One(held' # held) \in 0 .. 1
      <4>1. ~astray
        BY <2>2, <2>6 DEF Taken
      <4>2. refCount'[c] = refCount[c] + One(held' # held) + n
        BY <2>2 DEF Taken
      <4>. QED BY <1>1, <4>1, <4>2 DEF ReferencesInv, TableTyped, One
    <3>2. CASE refCount'[c] = refCount[c]
      <4>1. n = 0 /\ held' = held
        BY <2>1, <3>1, <3>2 DEF One
      <4>. QED BY <2>1, <2>3, <2>4, <3>1, <3>2, <4>1, ReferredKept
    <3>3. CASE refCount'[c] # refCount[c]
      <4>1. refCount[c] >= 1 /\ refCount'[c] >= 1
        <5>1. ~(refCount[c] <= 0)
          BY <2>2, <2>6, <3>3 DEF Taken
        <5>. QED BY <3>1, <5>1
      <4>2. staleReleases[c] \in Nat
        BY <1>1, <2>1 DEF MainTyped
      <4>3. live[c] \/ Arriving(c)
        <5>1. Owners(c) = 0 => refCount[c] <= 0
          BY <3>1, <4>2 DEF Referred
        <5>. QED BY <3>1, <4>1, <5>1, OwnersFacts DEF Referred, One
      <4>4. Owners(c)' = Owners(c) + One(held' # held) + n
        <5>1. One(c \in held') = One(c \in held) + One(held' # held)
          BY <2>2 DEF Taken, One
        <5>2. Owners(c)' = One(c \in base) + One(c \in held')
                             + One(Arriving(c)) + Cardinality(Messages(c)')
          BY <2>1 DEF Owners, Arriving
        <5>. QED BY <2>1, <2>3, <3>1, <5>1, <5>2, OwnersFacts
      <4>5. refCount'[c] = Owners(c)' - staleReleases[c]
        BY <2>1, <3>1, <4>2, <4>4, OwnersFacts DEF Referred
      <4>. QED BY <2>1, <2>4, <3>1, <4>1, <4>3, <4>5 DEF Referred
    <3>. QED BY <3>2, <3>3
  <2>. QED BY <2>5, <2>6 DEF ReferencesInv
<1>4. CASE WorkerRelease(w)
  <2>1. PICK c \in Slots : c = conn[w] /\ ReleaseConnection(c)
    BY <1>1, <1>4 DEF WorkerRelease, PlacesInv, PlaceInv, WorkersTyped
  <2>2. /\ apc' = apc /\ newSlot' = newSlot /\ held' = held
        /\ base' = base \ {c} /\ staleReleases' = staleReleases
        /\ astray' = (astray \/ c \notin base
                         \/ socket[c] # INVALID_SOCKET \/ FreedInUse(c))
    BY <1>4, <2>1 DEF WorkerRelease, acceptVars
  <2>3. \A s : Messages(s)' = Messages(s)
    BY <1>4, MessagesQuiet
  <2>4. SUFFICES ASSUME ~astray' PROVE \A s \in Slots : Referred(s)'
    BY DEF ReferencesInv
  <2>5. /\ c \in base /\ socket[c] = INVALID_SOCKET
        /\ \A s \in Slots : Referred(s)
        /\ refCount[c] = 1 => ~(staleReleases'[c] > 0)
    BY <2>2, <2>4 DEF ReferencesInv, FreedInUse
  <2>6. Owners(c)' - staleReleases'[c] = Owners(c) - staleReleases[c] - 1
    <3>1. staleReleases[c] \in Nat
      BY <1>1, <2>1 DEF MainTyped
    <3>2. /\ One(c \in base) = 1
          /\ Owners(c)' = 0 + One(c \in held)
                             + One(Arriving(c)) + Cardinality(Messages(c))
      BY <2>2, <2>3, <2>5 DEF Owners, Arriving, One
    <3>. QED BY <2>2, <3>1, <3>2, OwnersFacts
  <2>7. Released(c) /\ staleReleases'[c] \in Nat
    BY <1>1, <2>1, <2>2, ReleaseFacts DEF MainTyped
  <2>. QED BY <2>1, <2>2, <2>3, <2>5, <2>6, <2>7, ReleaseCounts
<1>5. CASE WorkerReadyReturns(w)
  <2>1. PICK c \in Slots : c = Dispatched(w) /\ ReleaseConnection(c)
    BY <1>1, <1>5
       DEF WorkerReadyReturns, Dispatched, ListsInv, ListInv, WorkersTyped
  <2>2. /\ apc' = apc /\ newSlot' = newSlot /\ held' = held /\ base' = base
        /\ staleReleases' = [staleReleases EXCEPT
                               ![c] = @ + One(cursor[w] <= freed[w])]
        /\ astray' = (astray \/ FreedInUse(c))
    BY <1>5, <2>1 DEF WorkerReadyReturns, acceptVars
  <2>3. ASSUME NEW s \in Slots
        PROVE  /\ Cardinality(Messages(s)') =
                     Cardinality(Messages(s))
                         - One(s = c /\ cursor[w] > freed[w])
               /\ Messages(s)' \subseteq Messages(s)
               /\ s # c => Messages(s)' = Messages(s)
    BY <1>5, <2>1, MessagesOneLess
  <2>4. SUFFICES ASSUME ~astray' PROVE \A s \in Slots : Referred(s)'
    BY DEF ReferencesInv
  <2>5. /\ \A s \in Slots : Referred(s)
        /\ refCount[c] = 1 => ~(staleReleases'[c] > 0)
    BY <2>2, <2>4 DEF ReferencesInv, FreedInUse
  <2>6. /\ \A s \in Slots : staleReleases'[s] = staleReleases[s]
             + IF s = c THEN One(cursor[w] <= freed[w]) ELSE 0
        /\ staleReleases[c] \in Nat /\ staleReleases'[c] \in Nat
    <3>1. staleReleases \in [Slots -> Nat]
      BY <1>1 DEF MainTyped
    <3>. QED BY <2>1, <2>2, <3>1 DEF One
  <2>7. Owners(c)' - staleReleases'[c] = Owners(c) - staleReleases[c] - 1
    <3>1. One(cursor[w] > freed[w]) = 1 - One(cursor[w] <= freed[w])
      <4>1. cursor[w] \in Int /\ freed[w] \in Int
        BY <1>1 DEF WorkersTyped
      <4>. QED BY <4>1 DEF One
    <3>2. Owners(c)' = One(c \in base) + One(c \in held)
                         + One(Arriving(c)) + Cardinality(Messages(c)')
      BY <2>2 DEF Owners, Arriving
    <3>3. Cardinality(Messages(c)') =
             Cardinality(Messages(c)) - One(cursor[w] > freed[w])
      BY <2>1, <2>3 DEF One
    <3>4. One(cursor[w] <= freed[w]) \in 0 .. 1
      BY DEF One
    <3>. QED BY <2>1, <2>6, <3>1, <3>2, <3>3, <3>4, OwnersFacts
  <2>8. Released(c) /\ \A s \in Slots \ {c} :
                            staleReleases'[s] = staleReleases[s]
    <3>1. \A s \in Slots : staleReleases[s] \in Nat
      BY <1>1 DEF MainTyped
    <3>. QED BY <2>1, <2>6, <3>1, ReleaseFacts
  <2>. QED BY <2>1, <2>2, <2>3, <2>5, <2>6, <2>7, <2>8, ReleaseCounts
<1>. QED BY <1>2, <1>3, <1>4, <1>5 DEF WorkerStep, WalkStep, TakeStep

(* Every other step does.                                                  *)
LEMMA ReferencesHold ==
    ASSUME TypeOK, PlacesInv, ListsInv, ReferencesInv, [Next]_vars
    PROVE  ReferencesInv'
<1>1. TableTyped /\ MainTyped /\ AcceptTyped
  BY TypeParts
<1>2. ASSUME \/ UNCHANGED vars
             \/ AllocCreate \/ AllocCreateFails \/ AllocUndoJoin
             \/ AllocReturnsError \/ FreeTerminate \/ FreeJoin
             \/ \E p \in Peers : PeerConnects(p) \/ PeerGoes(p)
      PROVE  ReferencesInv'
  <2>1. /\ UNCHANGED <<tableVars, held, historyVars, listVars>>
        /\ apc' = apc /\ newSlot' = newSlot
    BY <1>2
       DEF vars, AllocCreate, AllocCreateFails, AllocUndoJoin, WorkersJoined,
           AllocReturnsError, FreeTerminate, FreeJoin, PeerConnects, PeerGoes,
           acceptVars, workerVars
  <2>2. \A s : (Arriving(s)' <=> Arriving(s)) /\ Messages(s)' = Messages(s)
    BY <2>1, MessagesKept DEF Arriving
  <2>. QED BY <2>1, <2>2, ReferredKept
              DEF ReferencesInv, tableVars, historyVars
<1>3. ASSUME \/ AcceptExit \/ AcceptFails \/ AcceptPollFails \/ AcceptFind
             \/ AcceptLoad \/ AcceptStore
             \/ \E p \in Peers : AcceptConnection(p)
      PROVE  ReferencesInv'
  <2>1. /\ UNCHANGED tableVars /\ held' = held /\ base' = base
        /\ astray' = astray /\ apc # "state" /\ apc' # "state"
        /\ staleReleases' = staleReleases
    BY <1>3
       DEF AcceptExit, AcceptFails, AcceptPollFails, AcceptFind, AcceptLoad,
           AcceptStore, AcceptConnection, Accepting, historyVars
  <2>2. \A s : (Arriving(s)' <=> Arriving(s)) /\ Messages(s)' = Messages(s)
    BY <1>3, <2>1, OthersQuiet, MessagesKept DEF Arriving, workerVars
  <2>. QED BY <2>1, <2>2, ReferredKept DEF ReferencesInv, tableVars
<1>4. CASE AcceptInitialise
  <2>1. PICK c \in Slots :
            /\ newSlot = c /\ ~live[c] /\ apc = "initialise"
            /\ live' = live /\ held' = held /\ base' = base /\ astray' = astray
            /\ \A s : Messages(s)' = Messages(s)
    BY <1>4, OthersQuiet, MessagesKept
       DEF AcceptInitialise, PlacesInv, workerVars
  <2>2. \A s \in Slots :
             staleReleases'[s] = IF s = c THEN 0 ELSE staleReleases[s]
    BY <1>1, <1>4, <2>1 DEF AcceptInitialise, MainTyped
  <2>3. SUFFICES ASSUME ~astray PROVE \A s \in Slots : Referred(s)'
    BY <2>1 DEF ReferencesInv
  <2>4. /\ \A s \in Slots : Referred(s) /\ ~Arriving(s)
        /\ c \notin base \cup held /\ Messages(c) = {}
    BY <2>1, <2>3 DEF ReferencesInv, Referred, Arriving
  <2>5. Cardinality(Messages(c)) = 0
    BY <2>4, FS_EmptySet
  <2>6. CASE /\ refCount' = [refCount EXCEPT ![c] = TableReference]
             /\ socket' = [socket EXCEPT ![c] = newSocket]
             /\ apc' = "state" /\ newSlot' = c
    <3>1. ASSUME NEW s \in Slots \ {c} PROVE Referred(s)'
      BY <1>1, <2>1, <2>2, <2>4, <2>6, ReferredKept DEF TableTyped, Arriving
    <3>2. refCount'[c] = 1 /\ Arriving(c)'
      BY <1>1, <2>1, <2>6 DEF TableTyped, TableReference, Arriving
    <3>3. Owners(c)' = 1
      BY <2>1, <2>4, <2>5, <3>2 DEF Owners, Arriving, One
    <3>4. Referred(c)'
      BY <2>1, <2>2, <2>4, <3>2, <3>3 DEF Referred
    <3>. QED BY <3>1, <3>4
  <2>7. CASE /\ refCount' = [refCount EXCEPT ![c] = 0]
             /\ socket' = [socket EXCEPT ![c] = INVALID_SOCKET]
             /\ apc' = "poll"
    <3>1. ASSUME NEW s \in Slots \ {c} PROVE Referred(s)'
      BY <1>1, <2>1, <2>2, <2>4, <2>7, ReferredKept DEF TableTyped, Arriving
    <3>2. /\ refCount'[c] = 0 /\ ~Arriving(c)'
          /\ socket'[c] = INVALID_SOCKET
      BY <1>1, <2>1, <2>7 DEF TableTyped, Arriving
    <3>3. Owners(c)' = 0
      BY <2>1, <2>4, <2>5, <3>2 DEF Owners, Arriving, One
    <3>4. Referred(c)'
      BY <2>1, <2>2, <2>4, <3>2, <3>3 DEF Referred
    <3>. QED BY <3>1, <3>4
  <2>. QED BY <1>4, <2>1, <2>6, <2>7 DEF AcceptInitialise
<1>5. CASE AcceptState
  <2>1. /\ newSlot \in Slots /\ apc = "state" /\ apc' = "load"
        /\ refCount' = refCount /\ held' = held /\ astray' = astray
        /\ base' = base \cup {newSlot} /\ socket' = socket
        /\ staleReleases' = staleReleases
        /\ \A s : Messages(s)' = Messages(s)
    BY <1>5, OthersQuiet, MessagesKept DEF AcceptState, PlacesInv, workerVars
  <2>2. SUFFICES ASSUME ~astray, NEW s \in Slots PROVE Referred(s)'
    BY <2>1 DEF ReferencesInv
  <2>3. Referred(s) /\ Referred(newSlot)
    BY <2>1, <2>2 DEF ReferencesInv
  <2>4. live'[s] <=> live[s] \/ s = newSlot
    BY <1>1, <1>5, <2>1 DEF AcceptState, TableTyped
  <2>5. (Arriving(s) <=> s = newSlot) /\ ~Arriving(s)'
    BY <2>1 DEF Arriving
  <2>6. Owners(s)' = Owners(s)
    <3>1. s = newSlot => s \notin base
      BY <2>3, <2>5 DEF Referred
    <3>2. One(s \in base') + One(Arriving(s)')
              = One(s \in base) + One(Arriving(s))
      BY <2>1, <2>5, <3>1 DEF One
    <3>3. Owners(s)' = One(s \in base') + One(s \in held) + One(Arriving(s)')
                         + Cardinality(Messages(s))
      BY <2>1 DEF Owners, Arriving
    <3>4. One(s \in base') \in Int /\ One(Arriving(s)') \in Int
      BY DEF One
    <3>. QED BY <3>2, <3>3, <3>4, OwnersFacts
  <2>. QED BY <2>1, <2>3, <2>4, <2>5, <2>6 DEF Referred
<1>6. CASE FreeRelease
  <2>1. /\ held = {} /\ held' = held /\ base' = {} /\ astray' = astray
        /\ apc = "exited" /\ apc' = apc /\ staleReleases' = staleReleases
        /\ refCount' = [s \in Slots |-> IF live[s] THEN refCount[s] - 1
                                        ELSE refCount[s]]
    BY <1>6 DEF FreeRelease, ReleaseAll, PlacesInv, acceptVars
  <2>2. /\ \A s \in Slots : live'[s] <=> live[s] /\ refCount[s] # 1
        /\ \A s \in Slots : socket'[s] = IF live[s] /\ refCount[s] = 1
                                          THEN INVALID_SOCKET ELSE socket[s]
    BY <1>1, <1>6 DEF FreeRelease, ReleaseAll, TableTyped
  <2>3. \A s : Messages(s) = {} /\ Messages(s)' = {}
    <3>1. \A s : Messages(s) = {}
      BY <1>6, TypeParts, FreedAll DEF FreeRelease, PlacesInv
    <3>. QED BY <1>6, <3>1, OthersQuiet, MessagesKept DEF workerVars
  <2>4. SUFFICES ASSUME ~astray, NEW s \in Slots PROVE Referred(s)'
    BY <2>1 DEF ReferencesInv
  <2>5. /\ Referred(s) /\ ~Arriving(s) /\ ~Arriving(s)'
        /\ refCount[s] \in Int /\ staleReleases[s] \in Nat
    BY <1>1, <2>1, <2>4
       DEF ReferencesInv, Arriving, TableTyped, MainTyped
  <2>6. Owners(s) = One(s \in base) /\ Owners(s)' = 0
    <3>1. Cardinality(Messages(s)) = 0 /\ Cardinality(Messages(s)') = 0
      BY <2>3, FS_EmptySet
    <3>. QED BY <2>1, <2>5, <3>1 DEF Owners, Arriving, One
  <2>7. live[s] => refCount[s] = 1 /\ staleReleases[s] = 0
    BY <2>5, <2>6 DEF Referred, One
  <2>8. /\ refCount'[s] = - staleReleases[s] /\ ~live'[s]
        /\ socket'[s] = INVALID_SOCKET
    <3>1. CASE live[s]
      BY <2>1, <2>2, <2>7, <3>1
    <3>2. CASE ~live[s]
      BY <2>1, <2>2, <2>5, <2>6, <3>2 DEF Referred, One
    <3>. QED BY <3>1, <3>2
  <2>. QED BY <2>1, <2>3, <2>5, <2>6, <2>8 DEF Referred
<1>7. ASSUME NEW c \in Slots, AppRelease(c) PROVE ReferencesInv'
  <2>1. /\ apc' = apc /\ newSlot' = newSlot /\ base' = base
        /\ astray' = (astray \/ FreedInUse(c)) /\ c \in held
        /\ held' = held \ {c} /\ ReleaseConnection(c)
        /\ staleReleases' = staleReleases
        /\ \A s : Messages(s)' = Messages(s)
    BY <1>7, OthersQuiet, MessagesKept DEF AppRelease, acceptVars, workerVars
  <2>2. SUFFICES ASSUME ~astray' PROVE \A s \in Slots : Referred(s)'
    BY DEF ReferencesInv
  <2>3. /\ \A s \in Slots : Referred(s)
        /\ refCount[c] = 1 => ~(staleReleases'[c] > 0)
    BY <2>1, <2>2 DEF ReferencesInv, FreedInUse
  <2>4. Released(c) /\ staleReleases[c] \in Nat
    BY <1>1, <2>1, ReleaseFacts DEF MainTyped
  <2>5. Owners(c)' - staleReleases'[c] = Owners(c) - staleReleases[c] - 1
    <3>1. /\ One(c \in held) = 1
          /\ Owners(c)' = One(c \in base) + 0
                             + One(Arriving(c)) + Cardinality(Messages(c))
      BY <2>1 DEF Owners, Arriving, One
    <3>. QED BY <2>1, <2>4, <3>1, OwnersFacts
  <2>. QED BY <2>1, <2>3, <2>4, <2>5, ReleaseCounts
<1>. QED BY <1>2, <1>3, <1>4, <1>5, <1>6, <1>7, WorkerKeepsReferences
            DEF Next, AcceptStep, AcceptRest, MainStep

(* Sets of slots and of workers are finite.                                *)
LEMMA Finite ==
    /\ \A S \in SUBSET Slots : IsFiniteSet(S) /\ Cardinality(S) \in Nat
    /\ \A S \in SUBSET Workers : IsFiniteSet(S) /\ Cardinality(S) \in Nat
<1>1. IsFiniteSet(Slots) /\ IsFiniteSet(Workers)
  <2>1. /\ 0 \in Int /\ MaxConnections - 1 \in Int /\ ThreadCount - 1 \in Int
    BY ServerAssumption
  <2>. QED BY <2>1, FS_Interval DEF Slots, Workers
<1>. QED BY <1>1, FS_Subset, FS_CardinalityType

(* The workers that are taking a connection out of the count.              *)
Counting == {w \in Workers : wpc[w] \in {"load", "store"}}

LEMMA CountParts ==
    CountExact <=>
        /\ (~lostUpdate /\ ~astray /\ main # "freed") =>
              connectionCount = Cardinality(base)
                  - One(apc \in {"load", "store"}) + Cardinality(Counting)
        /\ (ThreadCount = 1 /\ fault = "connection") => lostUpdate \/ astray
BY DEF CountExact, Counting

(* Who writes the count and takes slots out of the table.                  *)
LEMMA WorkerCounts ==
    ASSUME TypeOK, PlacesInv, ListsInv, NEW w \in Workers, WorkerStep(w)
    PROVE  /\ astray => astray'
           /\ lostUpdate => lostUpdate'
           /\ \/ WorkerRelease(w) \/ WorkerLoad(w) \/ WorkerStore(w)
              \/ /\ {wpc[w], wpc'[w]} \cap {"load", "store"} = {}
                 /\ connectionCount' = connectionCount
                 /\ base' = base /\ lostUpdate' = lostUpdate
<1>1. WorkersTyped /\ astray \in BOOLEAN /\ lostUpdate \in BOOLEAN
  BY TypeParts DEF MainTyped
<1> DEFINE Counts ==
        /\ astray => astray'
        /\ lostUpdate' = lostUpdate
        /\ {wpc[w], wpc'[w]} \cap {"load", "store"} = {}
        /\ connectionCount' = connectionCount /\ base' = base
<1>2. CASE WorkerExit(w) \/ WorkerResize(w) \/ WorkerAllocate(w)
           \/ WorkerAllocateFails(w)
  <2>1. Counts
    BY <1>1, <1>2
       DEF WorkerExit, WorkerResize, WorkerAllocate, WorkerAllocateFails, Exit,
           GoTo, historyVars, WorkersTyped
  <2>. QED BY <2>1
<1>3. CASE WorkerBuild(w) \/ WorkerEntry(w) \/ WorkerScan(w)
  <2>1. Counts
    BY <1>1, <1>3 DEF WorkerBuild, WorkerEntry, WorkerScan, StartWalk, GoTo,
                      historyVars, WorkersTyped
  <2>. QED BY <2>1
<1>4. CASE WorkerOutOfConnections(w) \/ WorkerOutOfArray(w)
           \/ WorkerUseAfterFree(w)
  <2>1. Counts
    BY <1>1, <1>4
       DEF WorkerOutOfConnections, WorkerOutOfArray, WorkerUseAfterFree,
           Readable, Reported, historyVars, workerVars, WorkersTyped
  <2>. QED BY <2>1
<1>5. CASE WorkerPoll(w) \/ WorkerPollTimeout(w) \/ WorkerPollFails(w)
           \/ WorkerScanned(w)
  <2>1. Counts
    BY <1>1, <1>5
       DEF WorkerPoll, WorkerPollTimeout, WorkerPollFails, WorkerScanned,
           EndWalk, GoTo, historyVars, WorkersTyped
  <2>. QED BY <2>1
<1>6. CASE WorkerSkip(w) \/ WorkerReceive(w)
  <2>1. Counts
    BY <1>1, <1>6 DEF WorkerSkip, WorkerReceive, Readable, Reported, Advance,
                      GoTo, historyVars, WorkersTyped
  <2>. QED BY <2>1
<1>7. CASE TakeStep(w)
  <2>1. connectionCount' = connectionCount /\ base' = base
        /\ lostUpdate' = lostUpdate
    BY <1>7, TakeEffects
  <2>2. astray => astray'
    <3>1. PICK c \in Slots : AddReferences(c, One(WorkerKeep(w)))
      BY <1>7, TakeEffects
    <3>. QED BY <3>1 DEF AddReferences
  <2>3. {wpc[w], wpc'[w]} \cap {"load", "store"} = {}
    BY <1>1, <1>7
       DEF TakeStep, WorkerDrop, WorkerKeep, WorkerReady, Readable, Reported,
           ReceiveDone, Advance, GoTo, WorkersTyped
  <2>. QED BY <2>1, <2>2, <2>3
<1>8. CASE WorkerReadyReturns(w) \/ WorkerHangUp(w) \/ WorkerMark(w)
  <2>1. Counts
    BY <1>1, <1>8 DEF WorkerReadyReturns, WorkerHangUp, WorkerMark, Reported,
                      GoTo, WorkersTyped
  <2>. QED BY <2>1
<1>9. CASE WorkerRelease(w) \/ WorkerLoad(w) \/ WorkerStore(w)
  BY <1>1, <1>9 DEF WorkerRelease, WorkerLoad, WorkerStore, historyVars
<1>. QED BY <1>2, <1>3, <1>4, <1>5, <1>6, <1>7, <1>8, <1>9
            DEF WorkerStep, TakeStep

(* Every step of a worker keeps the count exact.                           *)
LEMMA WorkerKeepsCount ==
    ASSUME TypeOK, PlacesInv, ListsInv, CountExact,
           NEW w \in Workers, WorkerStep(w),
           ~lostUpdate', ~astray', main' # "freed"
    PROVE  connectionCount' = Cardinality(base')
               - One(apc' \in {"load", "store"}) + Cardinality(Counting')
<1>1. MainTyped /\ WorkersTyped /\ TableTyped
  BY TypeParts
<1>2. ~lostUpdate /\ ~astray /\ main # "freed" /\ apc' = apc
  BY WorkerCounts, WorkerQuiet
<1>3. connectionCount = Cardinality(base)
          - One(apc \in {"load", "store"}) + Cardinality(Counting)
  BY <1>2, CountParts
<1>4. /\ IsFiniteSet(base) /\ Cardinality(base) \in Nat
      /\ IsFiniteSet(Counting) /\ Cardinality(Counting) \in Nat
      /\ One(apc \in {"load", "store"}) \in Nat
      /\ One(apc' \in {"load", "store"}) = One(apc \in {"load", "store"})
  BY <1>1, <1>2, Finite DEF MainTyped, Counting, One
<1>5. /\ w \in Counting <=> wpc[w] \in {"load", "store"}
      /\ Counting' = IF wpc'[w] \in {"load", "store"} THEN Counting \cup {w}
                     ELSE Counting \ {w}
  BY OtherWorkers DEF Elsewhere, Counting
<1>6. CASE WorkerRelease(w)
  <2>1. /\ wpc[w] = "release" /\ wpc'[w] = "load" /\ conn[w] \in base
        /\ base' = base \ {conn[w]} /\ connectionCount' = connectionCount
    BY <1>1, <1>6 DEF WorkerRelease, GoTo, WorkersTyped
  <2>2. /\ Cardinality(base') = Cardinality(base) - 1
        /\ Cardinality(Counting') = Cardinality(Counting) + 1
    BY <1>4, <1>5, <2>1, FS_AddElement, FS_RemoveElement
  <2>. QED BY <1>1, <1>3, <1>4, <2>1, <2>2
<1>7. CASE WorkerLoad(w)
  <2>1. /\ wpc[w] = "load" /\ wpc'[w] = "store" /\ base' = base
        /\ connectionCount' = connectionCount
    BY <1>1, <1>7 DEF WorkerLoad, GoTo, WorkersTyped, historyVars
  <2>2. Counting' = Counting
    BY <1>5, <2>1
  <2>. QED BY <1>3, <1>4, <2>1, <2>2
<1>8. CASE WorkerStore(w)
  <2>1. /\ wpc[w] = "store" /\ wpc'[w] = "scan" /\ base' = base
        /\ connectionCount' = connectionCount - 1
    BY <1>1, <1>8 DEF WorkerStore, Advance, GoTo, WorkersTyped
  <2>2. Cardinality(Counting') = Cardinality(Counting) - 1
    BY <1>4, <1>5, <2>1, FS_RemoveElement
  <2>. QED BY <1>1, <1>3, <1>4, <2>1, <2>2 DEF TableTyped
<1>9. CASE /\ {wpc[w], wpc'[w]} \cap {"load", "store"} = {}
           /\ connectionCount' = connectionCount /\ base' = base
  <2>1. Counting' = Counting
    BY <1>5, <1>9
  <2>. QED BY <1>3, <1>4, <1>9, <2>1
<1>. QED BY <1>6, <1>7, <1>8, <1>9, WorkerCounts

(* A worker runs out of connections only if the count or the walk misled   *)
(* it.                                                                     *)
LEMMA WorkerKeepsAhead ==
    ASSUME TypeOK, PlacesInv, AheadInv, NEW w \in Workers, WorkerStep(w),
           fault = "none", ThreadCount = 1, fault' = "connection"
    PROVE  lostUpdate' \/ astray'
<1>1. wpc[w] \in {"build", "scan"} /\ index[w] <= fdCount[w] /\ conn[w] = NULL
      /\ lostUpdate' = lostUpdate /\ astray' = astray
  <2>1. CASE WorkerOutOfConnections(w)
    BY <2>1 DEF WorkerOutOfConnections, historyVars
  <2>2. CASE WorkerOutOfArray(w)
    BY <2>2 DEF WorkerOutOfArray
  <2>3. CASE ~WorkerOutOfConnections(w) /\ ~WorkerOutOfArray(w)
    BY <2>3
       DEF WorkerStep, WorkerExit, WorkerResize, WorkerAllocate,
           WorkerAllocateFails, WorkerBuild, WorkerEntry, WorkerPoll,
           WorkerPollTimeout, WorkerPollFails, WorkerScan, WorkerSkip,
           WorkerScanned, WorkerReceive, WorkerDrop, WorkerKeep, WorkerReady,
           WorkerReadyReturns, WorkerUseAfterFree, WorkerHangUp, WorkerMark,
           WorkerRelease, WorkerLoad, WorkerStore
  <2>. QED BY <2>1, <2>2, <2>3
<1>2. /\ index[w] \in Nat /\ fdCount[w] \in Int
      /\ lostUpdate \in BOOLEAN /\ astray \in BOOLEAN
  BY TypeParts DEF WorkersTyped, MainTyped
<1>3. ASSUME ~lostUpdate, ~astray PROVE fdCount[w] < index[w]
  BY <1>1, <1>3 DEF AheadInv
<1>. QED BY <1>1, <1>2, <1>3

(* The steps that touch neither the count nor what is counted.             *)
LEMMA QuietCount ==
    ASSUME \/ AcceptExit \/ AcceptFails \/ AcceptPollFails \/ AcceptFind
           \/ AcceptInitialise \/ AcceptLoad
           \/ \E p \in Peers : AcceptConnection(p)
           \/ AllocCreateFails \/ AllocUndoJoin \/ AllocReturnsError
           \/ FreeTerminate \/ FreeJoin
           \/ \E s \in Slots : AppRelease(s)
           \/ \E p \in Peers : PeerConnects(p) \/ PeerGoes(p)
    PROVE  /\ connectionCount' = connectionCount /\ base' = base
           /\ wpc' = wpc /\ conn' = conn /\ index' = index
           /\ fdCount' = fdCount
           /\ lostUpdate' = lostUpdate /\ (astray => astray')
           /\ fault' = fault
           /\ apc' \in {"load", "store"} <=> apc \in {"load", "store"}
           /\ main = "freed" => main' = "freed"
<1>1. CASE AcceptExit \/ AcceptFails \/ AcceptPollFails
  BY <1>1 DEF AcceptExit, AcceptFails, AcceptPollFails, workerVars, walkVars,
              mainVars, historyVars
<1>2. CASE AcceptFind \/ AcceptInitialise \/ AcceptLoad
  BY <1>2 DEF AcceptFind, AcceptInitialise, AcceptLoad, workerVars, walkVars,
              mainVars, historyVars
<1>3. ASSUME NEW p \in Peers,
             AcceptConnection(p) \/ PeerConnects(p) \/ PeerGoes(p)
      PROVE  /\ UNCHANGED <<workerVars, connectionCount, base, lostUpdate,
                            astray, fault, main>>
             /\ apc' \in {"load", "store"} <=> apc \in {"load", "store"}
  BY <1>3 DEF AcceptConnection, Accepting, PeerConnects, PeerGoes, acceptVars,
              mainVars, historyVars
<1>4. CASE \/ AllocCreateFails \/ AllocUndoJoin \/ AllocReturnsError
           \/ FreeTerminate \/ FreeJoin
  BY <1>4
     DEF AllocCreateFails, AllocUndoJoin, AllocReturnsError, FreeTerminate,
         FreeJoin, WorkersJoined, acceptVars, workerVars, walkVars,
         historyVars
<1>5. ASSUME NEW s \in Slots, AppRelease(s)
      PROVE  /\ UNCHANGED <<workerVars, connectionCount, base, lostUpdate,
                            fault, main, apc>>
             /\ astray => astray'
  BY <1>5 DEF AppRelease, acceptVars, mainVars
<1>. QED BY <1>1, <1>2, <1>3, <1>4, <1>5 DEF workerVars, walkVars

(* So do all others.                                                       *)
LEMMA CountHolds ==
    ASSUME TypeOK, PlacesInv, ListsInv, ReferencesInv, AheadInv, CountExact,
           [Next]_vars
    PROVE  CountExact'
<1>1. TableTyped /\ MainTyped /\ AcceptTyped /\ WorkersTyped
  BY TypeParts
<1>2. /\ IsFiniteSet(base) /\ Cardinality(base) \in Nat
      /\ Cardinality(Counting) \in Nat
  BY <1>1, Finite DEF MainTyped, Counting
<1>3. CASE UNCHANGED vars
  BY <1>3 DEF vars, CountExact, workerVars, acceptVars, mainVars, historyVars
<1>4. ASSUME NEW w \in Workers, WorkerStep(w), fault = "none"
      PROVE  CountExact'
  <2>1. (ThreadCount = 1 /\ fault' = "connection") => lostUpdate' \/ astray'
    BY <1>4, WorkerKeepsAhead
  <2>2. (~lostUpdate' /\ ~astray' /\ main' # "freed") =>
           connectionCount' = Cardinality(base')
               - One(apc' \in {"load", "store"}) + Cardinality(Counting')
    BY <1>4, WorkerKeepsCount
  <2>. QED BY <2>1, <2>2 DEF CountExact, Counting
<1>5. ASSUME \/ AcceptExit \/ AcceptFails \/ AcceptPollFails \/ AcceptFind
             \/ AcceptInitialise \/ AcceptLoad
             \/ \E p \in Peers : AcceptConnection(p)
             \/ AllocCreateFails \/ AllocUndoJoin \/ AllocReturnsError
             \/ FreeTerminate \/ FreeJoin
             \/ \E s \in Slots : AppRelease(s)
             \/ \E p \in Peers : PeerConnects(p) \/ PeerGoes(p)
      PROVE  CountExact'
  <2>1. /\ connectionCount' = connectionCount /\ base' = base /\ wpc' = wpc
        /\ lostUpdate' = lostUpdate /\ (astray => astray')
        /\ fault' = fault
        /\ apc' \in {"load", "store"} <=> apc \in {"load", "store"}
        /\ main = "freed" => main' = "freed"
    BY <1>5, QuietCount
  <2>. QED BY <2>1 DEF CountExact, One
<1>6. CASE AllocCreate
  <2>1. /\ connectionCount' = connectionCount /\ base' = base
        /\ lostUpdate' = lostUpdate /\ astray' = astray /\ fault' = fault
        /\ apc' = apc /\ main = "create" /\ started < ThreadCount
        /\ wpc' = [wpc EXCEPT ![started] = "loop"]
    BY <1>6 DEF AllocCreate, GoTo, acceptVars, historyVars
  <2>2. started \in Workers /\ wpc[started] = "none"
    BY <1>1, <2>1, ServerAssumption
       DEF Workers, MainTyped, WorkersTyped, PlacesInv, PlaceInv
  <2>3. Counting' = Counting
    BY <1>1, <2>1, <2>2 DEF Counting, WorkersTyped
  <2>. QED BY <2>1, <2>3, CountParts DEF CountExact, Counting
<1>7. CASE AcceptState
  <2>1. /\ apc = "state" /\ apc' = "load" /\ wpc' = wpc /\ astray' = astray
        /\ base' = base \cup {newSlot} /\ lostUpdate' = lostUpdate
        /\ connectionCount' = connectionCount /\ main' = main
        /\ fault' = fault
    BY <1>7 DEF AcceptState, workerVars, mainVars
  <2>2. ASSUME ~astray, ~lostUpdate, main # "freed"
        PROVE  connectionCount = Cardinality(base') - 1 + Cardinality(Counting)
    <3>1. newSlot \in Slots /\ newSlot \notin base
      BY <2>1, <2>2 DEF ReferencesInv, Referred, Arriving, PlacesInv
    <3>2. connectionCount = Cardinality(base) - 0 + Cardinality(Counting)
      BY <2>1, <2>2, CountParts DEF One
    <3>3. Cardinality(base') = Cardinality(base) + 1
      BY <1>2, <2>1, <3>1, FS_AddElement
    <3>. QED BY <1>1, <1>2, <3>2, <3>3
  <2>. QED BY <2>1, <2>2 DEF CountExact, Counting, One
<1>8. CASE AcceptStore
  <2>1. /\ apc = "store" /\ apc' = "poll" /\ wpc' = wpc /\ astray' = astray
        /\ base' = base /\ connectionCount' = newCount + 1 /\ main' = main
        /\ lostUpdate' = (lostUpdate \/ connectionCount # newCount)
        /\ fault' = fault
    BY <1>8 DEF AcceptStore, workerVars, mainVars
  <2>2. ASSUME ~astray, ~lostUpdate', main # "freed"
        PROVE  connectionCount' = Cardinality(base) + Cardinality(Counting)
    <3>1. ~lostUpdate /\ connectionCount = newCount
      BY <2>1, <2>2
    <3>2. connectionCount = Cardinality(base) - 1 + Cardinality(Counting)
      BY <2>1, <2>2, <3>1, CountParts DEF One
    <3>. QED BY <1>2, <2>1, <3>1, <3>2
  <2>3. lostUpdate => lostUpdate'
    BY <2>1
  <2>. QED BY <1>2, <2>1, <2>2, <2>3 DEF CountExact, Counting, One
<1>9. CASE FreeRelease
  <2>1. /\ main' = "freed" /\ astray' = astray /\ lostUpdate' = lostUpdate
        /\ fault' = fault
    BY <1>9 DEF FreeRelease
  <2>. QED BY <2>1 DEF CountExact
<1>. QED BY <1>3, <1>4, <1>5, <1>6, <1>7, <1>8, <1>9, Steps
            DEF Next, WorkerStep, WalkStep, TakeStep

(* What is left of a walk's array is no more than what is left of the      *)
(* table behind the slot it is at.                                         *)
Ahead(n, c, i) ==
    IF c = NULL THEN n < i
    ELSE n - i <= Cardinality({s \in base : s > c})

(* So it is where a walk that misses no slot begins, and where it goes on. *)
LEMMA WalkAhead ==
    ASSUME TypeOK, ThreadCount = 1, \A s \in base : live[s],
           NEW w \in Workers, NEW n \in Int
    PROVE  /\ n <= Cardinality(base) => Ahead(n, FirstConn(w), 1)
           /\ \A c \in Slots, i \in Nat :
                 n - i <= Cardinality({s \in base : s > c}) =>
                     Ahead(n, FollowingConn(c), i + 1)
<1>1. base \subseteq Slots
  BY DEF TypeOK
<1>2. /\ Slots \subseteq Nat /\ NULL \notin Slots
      /\ \A S \in SUBSET Slots : IsFiniteSet(S) /\ Cardinality(S) \in Nat
  BY Finite, ServerAssumption DEF Slots, NULL
<1>3. ASSUME NEW f \in Slots, NEW S \in SUBSET base, \A s \in S : s >= f
      PROVE  Cardinality(S) <= Cardinality({s \in base : s > f}) + 1
  <2> DEFINE later == {s \in base : s > f}
  <2>1. IsFiniteSet(later) /\ Cardinality(later) \in Nat
    BY <1>1, <1>2
  <2>2. S \in SUBSET (later \cup {f})
    BY <1>1, <1>2, <1>3
  <2>3. /\ IsFiniteSet(later \cup {f})
        /\ Cardinality(later \cup {f}) <= Cardinality(later) + 1
    BY <2>1, FS_AddElement
  <2>4. Cardinality(S) <= Cardinality(later \cup {f})
    BY <2>2, <2>3, FS_Subset
  <2>5. Cardinality(S) \in Nat /\ Cardinality(later \cup {f}) \in Nat
    BY <1>1, <1>2, <2>3, FS_CardinalityType
  <2>. QED BY <2>1, <2>3, <2>4, <2>5
<1>4. ASSUME n <= Cardinality(base) PROVE Ahead(n, FirstConn(w), 1)
  <2>1. /\ FirstConn(w) \in Slots \cup {NULL}
        /\ \A s \in base : FirstConn(w) # NULL /\ FirstConn(w) <= s
    BY <1>1, WalkFacts
  <2>2. CASE FirstConn(w) = NULL
    <3>1. Cardinality(base) = 0
      BY <2>1, <2>2, FS_EmptySet
    <3>. QED BY <1>4, <2>2, <3>1 DEF Ahead
  <2>3. CASE FirstConn(w) # NULL
    <3>1. FirstConn(w) \in Slots /\ \A s \in base : s >= FirstConn(w)
      BY <1>1, <1>2, <2>1, <2>3
    <3> DEFINE later == {s \in base : s > FirstConn(w)}
    <3>2. Cardinality(base) <= Cardinality(later) + 1
      BY <1>3, <3>1
    <3>3. Cardinality(base) \in Nat /\ Cardinality(later) \in Nat
      BY <1>1, <1>2
    <3>4. n - 1 <= Cardinality(later)
      BY <1>4, <3>2, <3>3
    <3>. QED BY <2>3, <3>4 DEF Ahead
  <2>. QED BY <2>2, <2>3
<1>5. ASSUME NEW c \in Slots, NEW i \in Nat,
             n - i <= Cardinality({s \in base : s > c})
      PROVE  Ahead(n, FollowingConn(c), i + 1)
  <2> DEFINE S == {s \in base : s > c}
  <2>1. /\ FollowingConn(c) \in Slots \cup {NULL}
        /\ \A s \in S : FollowingConn(c) # NULL /\ FollowingConn(c) <= s
    BY <1>1, WalkFacts
  <2>2. S \in SUBSET base
    OBVIOUS
  <2>3. n - i <= Cardinality(S)
    BY <1>5
  <2> HIDE DEF S
  <2>4. CASE FollowingConn(c) = NULL
    <3>1. Cardinality(S) = 0
      <4>1. S = {}
        BY <2>1, <2>4
      <4>. QED BY <4>1, FS_EmptySet
    <3>2. n < i + 1
      BY <2>3, <3>1
    <3>. QED BY <2>4, <3>2 DEF Ahead
  <2>5. CASE FollowingConn(c) # NULL
    <3>1. FollowingConn(c) \in Slots /\ \A s \in S : s >= FollowingConn(c)
      BY <1>1, <1>2, <2>1, <2>2, <2>5
    <3> DEFINE later == {s \in base : s > FollowingConn(c)}
    <3>2. Cardinality(S) <= Cardinality(later) + 1
      BY <1>3, <2>2, <3>1
    <3>3. Cardinality(S) \in Nat /\ Cardinality(later) \in Nat
      BY <1>1, <1>2, <2>2
    <3>4. n - (i + 1) <= Cardinality(later)
      BY <2>3, <3>2, <3>3
    <3>. QED BY <2>5, <3>4 DEF Ahead
  <2>. QED BY <2>4, <2>5
<1>. QED BY <1>4, <1>5

(* The steps of a worker's walk, as far as its place in it goes.           *)
Walking == {"build", "scan", "receiving", "mark", "release", "load", "store"}

Stays(w) ==
    /\ wpc[w] \in Walking /\ wpc'[w] \in Walking
    /\ conn'[w] = conn[w] /\ index'[w] = index[w] /\ fdCount'[w] = fdCount[w]
    /\ wpc'[w] = "build" <=> wpc[w] = "build"

Polls(w) ==
    /\ wpc[w] \in {"build", "polled"} /\ wpc'[w] = "polled"
    /\ fdCount'[w] = fdCount[w]

Begins(w) ==
    /\ conn'[w] = FirstConn(w) /\ index'[w] = 1
    /\ \/ /\ wpc[w] \in {"loop", "resized"} /\ fdCount'[w] = connectionCount
          /\ wpc'[w] = "build"
       \/ /\ wpc[w] = "polled" /\ fdCount'[w] = fdCount[w]
          /\ wpc'[w] = "scan"

GoesOn(w) ==
    /\ wpc[w] \in Walking /\ conn[w] # NULL /\ wpc'[w] \in Walking
    /\ conn'[w] = FollowingConn(conn[w]) /\ index'[w] = index[w] + 1
    /\ fdCount'[w] = fdCount[w]
    /\ wpc'[w] = "build" => wpc[w] = "build"

LEMMA Moves ==
    ASSUME TypeOK, PlacesInv, NEW w \in Workers, WorkerStep(w)
    PROVE  Stays(w) \/ Polls(w) \/ Begins(w) \/ GoesOn(w)
           \/ wpc'[w] \notin Walking \cup {"polled"}
<1>1. WorkersTyped /\ PlaceInv(w)
  BY TypeParts DEF PlacesInv
<1>2. CASE WorkerExit(w) \/ WorkerResize(w) \/ WorkerAllocate(w)
           \/ WorkerAllocateFails(w)
  BY <1>1, <1>2
     DEF WorkerExit, WorkerResize, WorkerAllocate, WorkerAllocateFails, Exit,
         GoTo, WorkersTyped, Walking
<1>3. CASE WorkerBuild(w)
  BY <1>1, <1>3 DEF WorkerBuild, StartWalk, GoTo, WorkersTyped, Begins
<1>4. CASE WorkerEntry(w)
  BY <1>1, <1>4 DEF WorkerEntry, WorkersTyped, GoesOn, Walking
<1>5. CASE WorkerOutOfConnections(w) \/ WorkerOutOfArray(w)
           \/ WorkerUseAfterFree(w)
  BY <1>1, <1>5
     DEF WorkerOutOfConnections, WorkerOutOfArray, WorkerUseAfterFree,
         Readable, Reported, workerVars, walkVars, Stays, Walking
<1>6. CASE WorkerPoll(w)
  BY <1>1, <1>6 DEF WorkerPoll, GoTo, WorkersTyped, Polls
<1>7. CASE WorkerPollTimeout(w) \/ WorkerPollFails(w) \/ WorkerScanned(w)
  BY <1>1, <1>7
     DEF WorkerPollTimeout, WorkerPollFails, WorkerScanned, EndWalk, GoTo,
         WorkersTyped, Walking
<1>8. CASE WorkerScan(w)
  BY <1>1, <1>8 DEF WorkerScan, StartWalk, GoTo, WorkersTyped, Begins
<1>9. ASSUME wpc[w] \in {"scan", "receiving", "store"}, conn[w] # NULL,
             Advance(w), fdCount' = fdCount
      PROVE  GoesOn(w)
  BY <1>1, <1>9 DEF Advance, GoTo, WorkersTyped, GoesOn, Walking
<1>10. CASE WorkerSkip(w)
  BY <1>9, <1>10 DEF WorkerSkip, Reported
<1>11. CASE WorkerDrop(w) \/ WorkerKeep(w)
  <2>1. /\ wpc[w] \in {"scan", "receiving"} /\ conn[w] # NULL
        /\ ReceiveDone(w) /\ fdCount' = fdCount
    BY <1>1, <1>11
       DEF WorkerDrop, WorkerKeep, Readable, Reported, PlaceInv
  <2>2. CASE Advance(w)
    BY <1>9, <2>1, <2>2
  <2>3. CASE ~Advance(w)
    BY <1>1, <2>1, <2>3 DEF ReceiveDone, GoTo, WorkersTyped, Stays, Walking
  <2>. QED BY <2>2, <2>3
<1>12. CASE WorkerReceive(w) \/ WorkerHangUp(w) \/ WorkerMark(w)
            \/ WorkerRelease(w) \/ WorkerLoad(w)
  BY <1>1, <1>12
     DEF WorkerReceive, WorkerHangUp, WorkerMark, WorkerRelease, WorkerLoad,
         Readable, Reported, GoTo, walkVars, WorkersTyped, Stays, Walking
<1>13. CASE WorkerReady(w) \/ WorkerReadyReturns(w)
  <2>1. wpc'[w] \in {"ready", "loop", "dispatch"}
    BY <1>1, <1>13 DEF WorkerReady, WorkerReadyReturns, GoTo, WorkersTyped
  <2>. QED BY <2>1 DEF Walking
<1>14. CASE WorkerStore(w)
  BY <1>1, <1>9, <1>14 DEF WorkerStore, PlaceInv
<1>. QED BY <1>2, <1>3, <1>4, <1>5, <1>6, <1>7, <1>8, <1>10, <1>11, <1>12,
            <1>13, <1>14 DEF WorkerStep

AheadOf(w) ==
    /\ wpc[w] \in {"build", "polled"} => fdCount[w] <= Cardinality(base)
    /\ wpc[w] \in Walking => Ahead(fdCount[w], conn[w], index[w])

LEMMA AheadParts ==
    AheadInv <=>
        ((ThreadCount = 1 /\ ~lostUpdate /\ ~astray) =>
            \A w \in Workers : AheadOf(w))
BY DEF AheadInv, AheadOf, Ahead, Walking

(* A step of the worker keeps it ahead.                                    *)
LEMMA WorkerStaysAhead ==
    ASSUME TypeOK, PlacesInv, ListsInv, ReferencesInv, CountExact, AheadInv,
           ThreadCount = 1, NEW w \in Workers, WorkerStep(w),
           ~lostUpdate', ~astray'
    PROVE  AheadOf(w)'
<1>1. WorkersTyped /\ TableTyped /\ MainTyped
  BY TypeParts
<1>2. ~lostUpdate /\ ~astray /\ wpc[w] \notin {"none", "exited"}
  BY WorkerCounts, WorkerPlaces
<1>3. AheadOf(w)
  BY <1>2, AheadParts
<1>4. \A s \in base : live[s]
  BY <1>1, <1>2 DEF ReferencesInv, Referred, MainTyped
<1>5. /\ fdCount[w] \in Int /\ index[w] \in Nat /\ Slots \subseteq Nat
      /\ conn[w] \in Slots \cup {NULL} /\ connectionCount \in Int
  BY <1>1 DEF WorkersTyped, TableTyped, Slots
<1>6. CASE WorkerRelease(w)
  <2>1. /\ conn'[w] = conn[w] /\ index'[w] = index[w] /\ conn[w] # NULL
        /\ fdCount'[w] = fdCount[w] /\ base' = base \ {conn[w]}
        /\ wpc[w] = "release" /\ wpc'[w] = "load"
    BY <1>1, <1>6 DEF WorkerRelease, walkVars, GoTo, WorkersTyped, PlacesInv,
                      PlaceInv
  <2>2. {s \in base' : s > conn[w]} = {s \in base : s > conn[w]}
    <3>1. conn[w] \in Nat /\ \A s \in base : s \in Nat
      BY <1>1, <1>5, <2>1 DEF MainTyped
    <3>. QED BY <2>1, <3>1
  <2>. QED BY <1>3, <2>1, <2>2 DEF AheadOf, Ahead, Walking
<1>7. CASE ~WorkerRelease(w)
  <2>1. base' = base
    <3>1. WorkerLoad(w) \/ WorkerStore(w) => base' = base
      BY DEF WorkerLoad, WorkerStore, historyVars
    <3>. QED BY <1>7, <3>1, WorkerCounts
  <2>2. CASE Stays(w)
    <3>1. Ahead(fdCount[w], conn[w], index[w]) =>
              Ahead(fdCount[w], conn[w], index[w])'
      BY <2>1, <2>2 DEF Ahead, Stays
    <3>2. wpc'[w] \in Walking => wpc[w] \in Walking
      BY <2>2 DEF Stays, Walking
    <3>. QED BY <1>3, <2>1, <2>2, <3>1, <3>2 DEF AheadOf, Stays, Walking
  <2>6. CASE Polls(w)
    BY <1>3, <2>1, <2>6 DEF AheadOf, Polls, Walking
  <2>3. CASE Begins(w)
    <3>1. ASSUME fdCount'[w] <= Cardinality(base)
          PROVE  Ahead(fdCount'[w], conn'[w], index'[w])
      <4>1. fdCount'[w] \in Int
        BY <1>5, <2>3 DEF Begins
      <4>. QED BY <1>4, <2>3, <3>1, <4>1, WalkAhead DEF Begins
    <3>2. CASE wpc[w] = "polled"
      BY <1>3, <2>1, <2>3, <3>1, <3>2 DEF AheadOf, Ahead, Begins, Walking
    <3>3. CASE wpc[w] \in {"loop", "resized"}
      <4>1. Workers = {w}
        BY DEF Workers
      <4>2. Counting = {}
        BY <3>3, <4>1 DEF Counting
      <4>3. main # "freed"
        BY <1>2 DEF PlacesInv
      <4>4. connectionCount = Cardinality(base)
                - One(apc \in {"load", "store"}) + 0
        BY <1>2, <4>2, <4>3, CountParts, FS_EmptySet
      <4>5. Cardinality(base) \in Nat
        BY <1>1, Finite DEF MainTyped
      <4>6. connectionCount <= Cardinality(base)
        BY <4>4, <4>5 DEF One
      <4>. QED BY <2>1, <2>3, <3>1, <3>3, <4>6
                  DEF AheadOf, Ahead, Begins, Walking
    <3>. QED BY <2>3, <3>2, <3>3 DEF Begins
  <2>4. CASE GoesOn(w)
    <3>1. fdCount[w] - index[w] <= Cardinality({s \in base : s > conn[w]})
      BY <1>3, <2>4 DEF AheadOf, Ahead, GoesOn
    <3>2. Ahead(fdCount[w], FollowingConn(conn[w]), index[w] + 1)
      BY <1>4, <1>5, <2>4, <3>1, WalkAhead DEF GoesOn
    <3>. QED BY <1>3, <2>1, <2>4, <3>2
                DEF AheadOf, Ahead, GoesOn, Walking
  <2>5. CASE wpc'[w] \notin Walking \cup {"polled"}
    BY <2>5 DEF AheadOf, Walking
  <2>. QED BY <2>2, <2>3, <2>4, <2>5, <2>6, Moves
<1>. QED BY <1>6, <1>7

(* So does every other step.                                               *)
LEMMA AheadHolds ==
    ASSUME TypeOK, PlacesInv, ListsInv, ReferencesInv, CountExact, AheadInv,
           [Next]_vars
    PROVE  AheadInv'
<1>1. MainTyped /\ WorkersTyped /\ AcceptTyped
  BY TypeParts
<1>2. ASSUME NEW w \in Workers, WorkerStep(w) PROVE AheadInv'
  <2>. SUFFICES ASSUME ThreadCount = 1, ~lostUpdate', ~astray',
                       NEW v \in Workers
                PROVE  AheadOf(v)'
    BY DEF AheadInv, AheadOf, Ahead, Walking
  <2>1. v = w
    BY DEF Workers
  <2>. QED BY <1>2, <2>1, WorkerStaysAhead
<1>3. ASSUME conn' = conn, index' = index, fdCount' = fdCount, wpc' = wpc,
             base' = base, lostUpdate' = lostUpdate, astray => astray'
      PROVE  AheadInv'
  BY <1>3 DEF AheadInv
<1>4. CASE UNCHANGED vars
  BY <1>3, <1>4 DEF vars, workerVars, walkVars, historyVars
<1>5. CASE AllocCreate
  <2>1. /\ conn' = conn /\ index' = index /\ fdCount' = fdCount
        /\ base' = base /\ lostUpdate' = lostUpdate /\ astray' = astray
        /\ main = "create" /\ started < ThreadCount
        /\ wpc' = [wpc EXCEPT ![started] = "loop"]
    BY <1>5 DEF AllocCreate, GoTo, historyVars
  <2>2. \A v \in Workers : wpc'[v] = wpc[v] \/ wpc'[v] = "loop"
    BY <1>1, <2>1 DEF WorkersTyped
  <2>. QED BY <2>1, <2>2 DEF AheadInv
<1>6. CASE AcceptState
  <2>1. /\ conn' = conn /\ index' = index /\ fdCount' = fdCount /\ wpc' = wpc
        /\ base' = base \cup {newSlot} /\ lostUpdate' = lostUpdate
        /\ astray' = astray /\ newSlot \in Slots
    BY <1>6 DEF AcceptState, workerVars, walkVars, PlacesInv
  <2>. SUFFICES ASSUME ThreadCount = 1, ~lostUpdate', ~astray',
                       NEW v \in Workers
                PROVE  AheadOf(v)'
    BY DEF AheadInv, AheadOf, Ahead, Walking
  <2>2. AheadOf(v) /\ fdCount[v] \in Int /\ index[v] \in Nat
    BY <1>1, <2>1, AheadParts DEF WorkersTyped
  <2>3. base \in SUBSET Slots /\ base' \in SUBSET Slots /\ base \subseteq base'
    BY <1>1, <2>1 DEF MainTyped
  <2>4. ASSUME NEW S \in SUBSET Slots, NEW T \in SUBSET S
        PROVE  /\ Cardinality(T) <= Cardinality(S)
               /\ Cardinality(S) \in Nat /\ Cardinality(T) \in Nat
    BY Finite, FS_Subset
  <2>5. ASSUME fdCount[v] <= Cardinality(base)
        PROVE  fdCount[v] <= Cardinality(base')
    BY <2>2, <2>3, <2>4, <2>5
  <2> DEFINE later == {s \in base : s > conn[v]}
             later2 == {s \in base' : s > conn[v]}
  <2>6. /\ Cardinality(later) <= Cardinality(later2)
        /\ Cardinality(later) \in Nat /\ Cardinality(later2) \in Nat
    <3>1. later2 \in SUBSET Slots /\ later \in SUBSET later2
      BY <2>3
    <3>. QED BY <2>4, <3>1
  <2>7. Ahead(fdCount[v], conn[v], index[v]) =>
            Ahead(fdCount[v], conn[v], index[v])'
    BY <2>1, <2>2, <2>6 DEF Ahead
  <2>. QED BY <2>1, <2>2, <2>5, <2>7 DEF AheadOf
<1>7. CASE AcceptStore
  <2>1. /\ conn' = conn /\ index' = index /\ fdCount' = fdCount /\ wpc' = wpc
        /\ base' = base /\ (lostUpdate => lostUpdate') /\ astray' = astray
    BY <1>1, <1>7 DEF AcceptStore, workerVars, walkVars, MainTyped
  <2>. QED BY <2>1 DEF AheadInv
<1>8. CASE FreeRelease
  <2>1. /\ wpc' = wpc /\ \A w \in Workers : wpc[w] \in {"none", "exited"}
    BY <1>8 DEF FreeRelease, workerVars, PlacesInv
  <2>. QED BY <2>1 DEF AheadInv
<1>9. CASE \/ AcceptExit \/ AcceptFails \/ AcceptPollFails \/ AcceptFind
           \/ AcceptInitialise \/ AcceptLoad
           \/ \E p \in Peers : AcceptConnection(p)
           \/ AllocCreateFails \/ AllocUndoJoin \/ AllocReturnsError
           \/ FreeTerminate \/ FreeJoin
           \/ \E s \in Slots : AppRelease(s)
           \/ \E p \in Peers : PeerConnects(p) \/ PeerGoes(p)
  BY <1>3, <1>9, QuietCount
<1>. QED BY <1>2, <1>4, <1>5, <1>6, <1>7, <1>8, <1>9, Steps
            DEF WorkerStep, WalkStep, TakeStep

(* What is known of the walk of a worker for whom no slot was taken or     *)
(* freed since it filled its array.                                        *)
Scans == {"scan", "receiving", "mark", "release"}

WalkInv(w) ==
    /\ wpc[w] = "build" => Building(w)
    /\ wpc[w] \in AfterPoll => Scanning(w)
    /\ wpc[w] \in Scans /\ conn[w] # NULL => live[conn[w]]
    /\ wpc[w] = "release" => socket[conn[w]] = INVALID_SOCKET

LEMMA WalksParts == WalksInv <=> \A w \in Workers \ shifted : WalkInv(w)
BY DEF WalksInv, WalkInv, Scans

(* A walk visits slots in use.                                             *)
LEMMA WalkIsLive ==
    ASSUME TypeOK, NEW w \in Workers, NEW n \in Int,
           NEW walk \in [1 .. n -> Slots], IsWalk(w, walk)
    PROVE  \A i \in 1 .. n : walk[i] \in Slots /\ live[walk[i]]
<1>. SUFFICES ASSUME NEW i \in 1 .. n
              PROVE  walk[i] \in Slots /\ live[walk[i]]
  OBVIOUS
<1>2. walk[i] \in Slots /\ NULL \notin Slots /\ walk[i] = Visited(w, walk, i)
  BY FindFreeFacts DEF IsWalk
<1>3. CASE i = 1
  BY <1>2, <1>3, WalkFacts DEF Visited
<1>4. CASE i # 1
  <2>1. walk[i - 1] \in Slots
    BY <1>4
  <2>. QED BY <1>2, <1>4, <2>1, WalkFacts DEF Visited
<1>. QED BY <1>3, <1>4

(* No hang-up is reported anew.                                            *)
HungUpKept(w) ==
    \A i \in 1 .. fdCount[w] :
        revents'[w][i] \in HungUp => revents[w][i] \in HungUp

LEMMA EntryDone ==
    ASSUME TypeOK, PlacesInv, NEW w \in Workers,
           wpc[w] \in AfterPoll, index[w] <= fdCount[w],
           Advance(w) \/ ReceiveDone(w)
    PROVE  HungUpKept(w)
<1>1. /\ index[w] \in Nat \ {0} /\ fdCount[w] \in Int
      /\ DOMAIN revents = Workers
      /\ revents[w] \in [1 .. fdCount[w] -> Events]
  BY TypeParts DEF WorkersTyped, PlacesInv, PlaceInv
<1>2. CASE revents' = [revents EXCEPT ![w][index[w]] = "nothing"]
  BY <1>1, <1>2 DEF HungUpKept, HungUp
<1>3. CASE /\ revents[w][index[w]] = "both"
           /\ revents' = [revents EXCEPT ![w][index[w]] = "hangup"]
  BY <1>1, <1>3 DEF HungUpKept, HungUp
<1>. QED BY <1>2, <1>3 DEF Advance, ReceiveDone

(* The places a worker goes through without moving in its walk, and those  *)
(* where it moves on in its second one.                                    *)
StaysAt(w) ==
    /\ conn'[w] = conn[w] /\ index'[w] = index[w] /\ fdCount'[w] = fdCount[w]
    /\ fds'[w] = fds[w] /\ HungUpKept(w)
    /\ wpc'[w] = "build" => wpc[w] = "build"
    /\ wpc'[w] \in AfterPoll => wpc[w] \in AfterPoll
    /\ wpc'[w] # "polled" => wpc[w] # "polled"
    /\ wpc'[w] \in Scans => wpc[w] \in Scans
    /\ wpc'[w] = "release" =>
          wpc[w] = "release" \/ socket'[conn[w]] = INVALID_SOCKET

MovesOn(w) ==
    /\ wpc[w] \in AfterPoll /\ wpc'[w] = "scan" /\ socket' = socket
    /\ fdCount'[w] = fdCount[w] /\ HungUpKept(w)
    /\ \/ conn'[w] = FirstConn(w) /\ index'[w] = 1
       \/ /\ wpc[w] # "polled" /\ conn[w] # NULL
          /\ conn'[w] = FollowingConn(conn[w]) /\ index'[w] = index[w] + 1

(* The table as a walk sees it: no slot is taken or freed, and sockets are *)
(* only taken away.                                                        *)
Steady ==
    /\ live' = live
    /\ \A s \in Slots : live[s] => socket'[s] \in {socket[s], INVALID_SOCKET}
    /\ \A p \in Peers \cup {INVALID_SOCKET} : Settled(p) => Settled(p)'

LEMMA SteadyWalks ==
    ASSUME Steady
    PROVE  /\ \A w, walk, i : Visited(w, walk, i)' = Visited(w, walk, i)
           /\ \A w, walk : IsWalk(w, walk)' <=> IsWalk(w, walk)
<1>1. live' = live
  BY DEF Steady
<1>2. /\ \A w : FirstConn(w)' = FirstConn(w)
      /\ \A s : FollowingConn(s)' = FollowingConn(s)
  BY <1>1 DEF FirstConn, FollowingConn, NextConn
<1>3. \A w, walk, i : Visited(w, walk, i)' = Visited(w, walk, i)
  BY <1>2 DEF Visited
<1>. QED BY <1>3 DEF IsWalk

(* Then what is known of a walk stays true.                                *)
LEMMA WalkStays ==
    ASSUME TypeOK, PlacesInv, NEW w \in Workers, WalkInv(w), Steady,
           StaysAt(w)
    PROVE  WalkInv(w)'
<1>1. /\ fdCount[w] \in Int /\ index[w] \in Nat /\ NULL \notin Slots
      /\ socket \in [Slots -> Peers \cup {INVALID_SOCKET}]
      /\ conn[w] \in Slots \cup {NULL}
  BY FindFreeFacts DEF TypeOK
<1>2. \A p \in Peers \cup {INVALID_SOCKET} : Settled(p) => Settled(p)'
  BY DEF Steady
<1>3. ASSUME wpc'[w] = "build" PROVE Building(w)'
  <2>1. PICK walk \in [1 .. index[w] - 1 -> Slots] :
           /\ IsWalk(w, walk) /\ conn[w] = Visited(w, walk, index[w])
           /\ Len(fds[w]) = index[w] - 1
           /\ \A i \in 1 .. index[w] - 1 :
                 socket[walk[i]] \in {fds[w][i], INVALID_SOCKET}
    BY <1>3 DEF WalkInv, StaysAt, Building
  <2>2. \A i \in 1 .. index[w] - 1 : walk[i] \in Slots /\ live[walk[i]]
    <3>1. index[w] - 1 \in Int
      BY <1>1
    <3>. QED BY <2>1, <3>1, WalkIsLive
  <2>3. \A i \in 1 .. index[w] - 1 :
            socket'[walk[i]] \in {fds[w][i], INVALID_SOCKET}
    BY <2>1, <2>2 DEF Steady
  <2>4. /\ IsWalk(w, walk)'
        /\ \A i : Visited(w, walk, i)' = Visited(w, walk, i)
    BY <2>1, SteadyWalks
  <2>5. conn'[w] = Visited(w, walk, index[w])'
    <3>1. conn'[w] = Visited(w, walk, index[w]) /\ index'[w] = index[w]
      BY <2>1 DEF StaysAt
    <3>. QED BY <2>4, <3>1
  <2>. QED BY <2>1, <2>3, <2>4, <2>5 DEF Building, StaysAt
<1>4. ASSUME wpc'[w] \in AfterPoll PROVE Scanning(w)'
  <2>1. PICK walk \in [1 .. fdCount[w] -> Slots] :
           /\ IsWalk(w, walk)
           /\ \A i \in 1 .. fdCount[w] :
                 revents[w][i] \in HungUp => Settled(socket[walk[i]])
           /\ (wpc[w] # "polled" /\ index[w] <= fdCount[w]) =>
                 conn[w] = walk[index[w]]
    BY <1>4 DEF WalkInv, StaysAt, Scanning
  <2>2. \A i \in 1 .. fdCount[w] : walk[i] \in Slots /\ live[walk[i]]
    BY <1>1, <2>1, WalkIsLive
  <2>3. ASSUME NEW i \in 1 .. fdCount[w], revents'[w][i] \in HungUp
        PROVE  Settled(socket[walk[i]])'
    <3>1. socket'[walk[i]] \in {socket[walk[i]], INVALID_SOCKET}
      BY <2>2 DEF Steady
    <3>2. Settled(socket[walk[i]]) /\ Settled(INVALID_SOCKET)
      BY <2>1, <2>3 DEF Settled, StaysAt, HungUpKept
    <3>3. socket[walk[i]] \in Peers \cup {INVALID_SOCKET}
      BY <1>1, <2>2
    <3>. QED BY <1>2, <3>1, <3>2, <3>3 DEF Settled
  <2>4. IsWalk(w, walk)'
    BY <2>1, SteadyWalks
  <2>5. (wpc'[w] # "polled" /\ index'[w] <= fdCount'[w]) =>
            conn'[w] = walk[index'[w]]
    BY <2>1 DEF StaysAt
  <2>6. fdCount'[w] = fdCount[w]
    BY DEF StaysAt
  <2>. QED BY <2>1, <2>3, <2>4, <2>5, <2>6 DEF Scanning
<1>5. ASSUME wpc'[w] \in Scans, conn'[w] # NULL
      PROVE  live'[conn'[w]]
  BY <1>5 DEF WalkInv, StaysAt, Steady
<1>6. ASSUME wpc'[w] = "release" PROVE socket'[conn'[w]] = INVALID_SOCKET
  <2>1. CASE wpc[w] = "release"
    <3>1. /\ conn[w] \in Slots /\ live[conn[w]]
          /\ socket[conn[w]] = INVALID_SOCKET
      BY <1>1, <2>1 DEF WalkInv, Scans, PlacesInv, PlaceInv
    <3>. QED BY <3>1 DEF Steady, StaysAt
  <2>2. CASE wpc[w] # "release"
    BY <1>6, <2>2 DEF StaysAt
  <2>. QED BY <2>1, <2>2
<1>. QED BY <1>3, <1>4, <1>5, <1>6 DEF WalkInv

(* A release leaves the table steady, or frees a slot.                     *)
LEMMA ReleaseSteady ==
    ASSUME TypeOK, NEW c \in Slots, ReleaseConnection(c), peer' = peer
    PROVE  /\ shifted' = Workers \/ (Steady /\ shifted' = shifted)
           /\ shifted \subseteq shifted'
<1>1. shifted \subseteq Workers
  BY TypeParts DEF MainTyped
<1>2. CASE refCount[c] = 1
  BY <1>1, <1>2 DEF ReleaseConnection
<1>3. CASE refCount[c] # 1
  <2>1. live' = live /\ socket' = socket /\ closed' = closed
        /\ shifted' = shifted
    BY <1>3 DEF ReleaseConnection
  <2>. QED BY <2>1 DEF Steady, Settled
<1>. QED BY <1>2, <1>3

(* Unless it takes or frees a slot, a step of a worker leaves the table    *)
(* steady.                                                                 *)
LEMMA WorkerSteady ==
    ASSUME TypeOK, PlacesInv, ListsInv, NEW w \in Workers, WorkerStep(w)
    PROVE  /\ shifted' = Workers \/ Steady
           /\ WorkerBuild(w) \/ shifted \subseteq shifted'
           /\ WorkerBuild(w) => shifted' = shifted \ {w}
<1>1. TableTyped /\ WorkersTyped /\ MainTyped
  BY TypeParts
<1>2. WorkerBuild(w) => shifted' = shifted \ {w}
  BY DEF WorkerBuild
<1>3. CASE WalkStep(w)
  <2>1. shifted' = shifted \/ WorkerBuild(w)
    BY <1>3
       DEF WalkStep, WorkerExit, WorkerResize, WorkerAllocate,
           WorkerAllocateFails, WorkerEntry, WorkerOutOfConnections,
           WorkerOutOfArray, WorkerPoll, WorkerPollTimeout, WorkerPollFails,
           WorkerScan, WorkerSkip, WorkerScanned, WorkerReceive,
           WorkerUseAfterFree, WorkerLoad, WorkerStore, historyVars
  <2>2. Steady
    BY <1>3, WalkQuiet DEF Steady, Settled
  <2>. QED BY <1>2, <2>1, <2>2
<1>4. peer' = peer
  BY WorkerQuiet
<1>5. TakeStep(w) \/ WorkerHangUp(w) \/ WorkerMark(w) \/ WorkerRelease(w)
          \/ WorkerReadyReturns(w) => ~WorkerBuild(w)
  BY DEF TakeStep, WorkerBuild, WorkerDrop, WorkerKeep, WorkerReady,
         WorkerReadyReturns, WorkerHangUp, WorkerMark, WorkerRelease,
         Readable, Reported
<1>6. CASE TakeStep(w)
  <2>1. live' = live /\ socket' = socket /\ closed' = closed
        /\ shifted' = shifted
    BY <1>6, TakeEffects
  <2>. QED BY <1>4, <1>5, <1>6, <2>1 DEF Steady, Settled
<1>7. CASE WorkerHangUp(w)
  <2>1. live' = live /\ socket' = socket /\ closed \subseteq closed'
        /\ shifted' = shifted
    BY <1>7 DEF WorkerHangUp, CloseSocket, tableVars
  <2>. QED BY <1>4, <1>5, <1>7, <2>1 DEF Steady, Settled
<1>8. CASE WorkerMark(w)
  <2>1. /\ live' = live /\ closed' = closed /\ shifted' = shifted
        /\ socket' = [socket EXCEPT ![conn[w]] = INVALID_SOCKET]
    BY <1>8 DEF WorkerMark
  <2>2. \A s \in Slots : socket'[s] \in {socket[s], INVALID_SOCKET}
    BY <1>1, <2>1 DEF TableTyped
  <2>. QED BY <1>4, <1>5, <1>8, <2>1, <2>2 DEF Steady, Settled
<1>9. CASE WorkerRelease(w)
  <2>1. conn[w] \in Slots /\ ReleaseConnection(conn[w])
    BY <1>1, <1>9 DEF WorkerRelease, PlacesInv, PlaceInv, WorkersTyped
  <2>. QED BY <1>4, <1>5, <1>9, <2>1, ReleaseSteady
<1>10. CASE WorkerReadyReturns(w)
  <2>1. Dispatched(w) \in Slots /\ ReleaseConnection(Dispatched(w))
    BY <1>1, <1>10
       DEF WorkerReadyReturns, Dispatched, ListsInv, ListInv, WorkersTyped
  <2>. QED BY <1>4, <1>5, <1>10, <2>1, ReleaseSteady
<1>. QED BY <1>3, <1>6, <1>7, <1>8, <1>9, <1>10
            DEF WorkerStep, WalkStep, TakeStep

(* What a step of a worker does to its own walk.                           *)
LEMMA OwnPlace ==
    ASSUME TypeOK, PlacesInv, ListsInv, NEW w \in Workers, WorkerStep(w)
    PROVE  \/ WorkerBuild(w) \/ WorkerEntry(w) \/ WorkerPoll(w)
           \/ MovesOn(w) \/ StaysAt(w)
           \/ wpc'[w] \notin AfterPoll \cup {"build"}
<1>1. /\ WorkersTyped /\ TableTyped /\ PlaceInv(w)
      /\ index[w] \in Nat /\ fdCount[w] \in Int
  BY TypeParts DEF PlacesInv, WorkersTyped
<1>2. CASE WorkerExit(w) \/ WorkerResize(w) \/ WorkerAllocate(w)
           \/ WorkerAllocateFails(w)
  BY <1>1, <1>2
     DEF WorkerExit, WorkerResize, WorkerAllocate, WorkerAllocateFails, Exit,
         GoTo, WorkersTyped, AfterPoll
<1>3. CASE WorkerOutOfConnections(w) \/ WorkerOutOfArray(w)
           \/ WorkerUseAfterFree(w)
  <2>1. UNCHANGED workerVars
    BY <1>3 DEF WorkerOutOfConnections, WorkerOutOfArray, WorkerUseAfterFree
  <2>2. /\ wpc' = wpc /\ conn' = conn /\ index' = index
        /\ fdCount' = fdCount /\ fds' = fds /\ revents' = revents
    BY <2>1 DEF workerVars, walkVars
  <2>. QED BY <2>2 DEF StaysAt, HungUpKept
<1>4. CASE WorkerPollTimeout(w) \/ WorkerPollFails(w) \/ WorkerScanned(w)
  BY <1>1, <1>4
     DEF WorkerPollTimeout, WorkerPollFails, WorkerScanned, EndWalk, GoTo,
         WorkersTyped, AfterPoll
<1>5. CASE WorkerScan(w)
  BY <1>1, <1>5 DEF WorkerScan, StartWalk, GoTo, WorkersTyped, AfterPoll,
                    tableVars, MovesOn, HungUpKept
<1>6. ASSUME wpc[w] \in AfterPoll \ {"polled"}, index[w] <= fdCount[w],
             conn[w] # NULL, fdCount' = fdCount, socket' = socket,
             Advance(w)
      PROVE  MovesOn(w)
  <2>1. HungUpKept(w)
    BY <1>6, EntryDone
  <2>. QED BY <1>1, <1>6, <2>1 DEF Advance, GoTo, WorkersTyped, MovesOn
<1>7. CASE WorkerSkip(w)
  BY <1>6, <1>7 DEF WorkerSkip, Reported, AfterPoll, tableVars
<1>8. CASE WorkerStore(w)
  BY <1>1, <1>6, <1>8 DEF WorkerStore, PlaceInv, AfterPoll, tableVars
<1>9. CASE WorkerDrop(w) \/ WorkerKeep(w)
  <2>1. /\ wpc[w] \in {"scan", "receiving"} /\ index[w] <= fdCount[w]
        /\ conn[w] # NULL /\ fdCount' = fdCount /\ fds' = fds
        /\ socket' = socket /\ ReceiveDone(w)
    BY <1>1, <1>9
       DEF WorkerDrop, WorkerKeep, Readable, Reported, PlaceInv, AfterPoll
  <2>2. CASE Advance(w)
    BY <1>6, <2>1, <2>2 DEF AfterPoll
  <2>3. CASE ~Advance(w)
    <3>1. HungUpKept(w)
      BY <2>1, EntryDone DEF AfterPoll
    <3>2. wpc'[w] = "scan" /\ conn' = conn /\ index' = index
      BY <1>1, <2>1, <2>3 DEF ReceiveDone, GoTo, WorkersTyped
    <3>. QED BY <2>1, <3>1, <3>2 DEF StaysAt, AfterPoll, Scans
  <2>. QED BY <2>2, <2>3
<1>10. CASE WorkerReady(w) \/ WorkerReadyReturns(w)
  <2>1. wpc'[w] \in {"ready", "loop", "dispatch"}
    BY <1>1, <1>10 DEF WorkerReady, WorkerReadyReturns, GoTo, WorkersTyped
  <2>. QED BY <2>1 DEF AfterPoll
<1>11. CASE WorkerReceive(w) \/ WorkerHangUp(w)
  BY <1>1, <1>11
     DEF WorkerReceive, WorkerHangUp, Readable, Reported, GoTo, WorkersTyped,
         StaysAt, HungUpKept, AfterPoll, Scans, walkVars
<1>12. CASE WorkerMark(w)
  <2>1. conn[w] \in Slots
    BY <1>1, <1>12 DEF WorkerMark, PlaceInv, WorkersTyped
  <2>2. socket'[conn[w]] = INVALID_SOCKET
    BY <1>1, <1>12, <2>1 DEF WorkerMark, TableTyped
  <2>. QED BY <1>1, <1>12, <2>2
              DEF WorkerMark, GoTo, WorkersTyped, StaysAt, HungUpKept,
                  AfterPoll, Scans
<1>13. CASE WorkerRelease(w) \/ WorkerLoad(w)
  BY <1>1, <1>13
     DEF WorkerRelease, WorkerLoad, GoTo, WorkersTyped, StaysAt, HungUpKept,
         AfterPoll, Scans, walkVars
<1>. QED BY <1>2, <1>3, <1>4, <1>5, <1>7, <1>8, <1>9, <1>10, <1>11, <1>12,
            <1>13 DEF WorkerStep

(* It fills its array with the sockets of the slots it visits.             *)
LEMMA EntryKeepsWalk ==
    ASSUME TypeOK, PlacesInv, NEW w \in Workers, WorkerEntry(w), Steady,
           Building(w)
    PROVE  Building(w)'
<1>1. /\ WorkersTyped /\ TableTyped /\ index[w] \in Nat \ {0}
      /\ fds[w] \in Seq(Peers \cup {INVALID_SOCKET})
  BY TypeParts DEF PlacesInv, PlaceInv, WorkersTyped
<1>2. /\ conn[w] \in Slots /\ conn'[w] = FollowingConn(conn[w])
      /\ index'[w] = index[w] + 1 /\ socket' = socket
      /\ fds'[w] = Append(fds[w], socket[conn[w]])
  BY <1>1 DEF WorkerEntry, WorkersTyped, tableVars
<1>3. PICK walk \in [1 .. index[w] - 1 -> Slots] :
         /\ IsWalk(w, walk) /\ conn[w] = Visited(w, walk, index[w])
         /\ Len(fds[w]) = index[w] - 1
         /\ \A i \in 1 .. index[w] - 1 :
               socket[walk[i]] \in {fds[w][i], INVALID_SOCKET}
  BY DEF Building
<1>4. PICK longer \in [1 .. index[w] -> Slots] :
         /\ longer[index[w]] = conn[w]
         /\ \A i \in 1 .. index[w] - 1 : longer[i] = walk[i]
  <2> DEFINE l == [i \in 1 .. index[w] |->
                      IF i = index[w] THEN conn[w] ELSE walk[i]]
  <2>1. /\ l \in [1 .. index[w] -> Slots] /\ l[index[w]] = conn[w]
        /\ \A i \in 1 .. index[w] - 1 : l[i] = walk[i]
    BY <1>1, <1>2
  <2>. QED BY <2>1
<1>5. socket[conn[w]] \in Peers \cup {INVALID_SOCKET}
  BY <1>1, <1>2 DEF TableTyped
<1>6. /\ Len(fds'[w]) = index[w]
      /\ \A i \in 1 .. index[w] - 1 : fds'[w][i] = fds[w][i]
      /\ fds'[w][index[w]] = socket[conn[w]]
  BY <1>1, <1>2, <1>3, <1>5
<1>7. \A i \in 1 .. index[w] : Visited(w, longer, i) = Visited(w, walk, i)
  BY <1>1, <1>4 DEF Visited
<1>8. IsWalk(w, longer)
  <2>. SUFFICES ASSUME NEW i \in 1 .. index[w]
                PROVE  longer[i] = Visited(w, longer, i)
    BY <1>4 DEF IsWalk
  <2>1. CASE i = index[w]
    BY <1>3, <1>4, <1>7, <2>1
  <2>2. CASE i # index[w]
    <3>1. i \in 1 .. index[w] - 1
      BY <1>1, <2>2
    <3>. QED BY <1>3, <1>4, <1>7, <3>1 DEF IsWalk
  <2>. QED BY <2>1, <2>2
<1>9. conn'[w] = Visited(w, longer, index[w] + 1)
  BY <1>1, <1>2, <1>4 DEF Visited
<1>10. ASSUME NEW i \in 1 .. index[w]
       PROVE  socket[longer[i]] \in {fds'[w][i], INVALID_SOCKET}
  <2>1. CASE i = index[w]
    BY <1>4, <1>6, <2>1
  <2>2. CASE i # index[w]
    <3>1. i \in 1 .. index[w] - 1
      BY <1>1, <2>2
    <3>. QED BY <1>3, <1>4, <1>6, <3>1
  <2>. QED BY <2>1, <2>2
<1>11. /\ IsWalk(w, longer)'
       /\ \A i : Visited(w, longer, i)' = Visited(w, longer, i)
  BY <1>8, SteadyWalks
<1>12. index'[w] - 1 = index[w]
  BY <1>1, <1>2
<1>13. conn'[w] = Visited(w, longer, index[w])'
  BY <1>2, <1>9, <1>11
<1>. QED BY <1>2, <1>4, <1>6, <1>10, <1>11, <1>12, <1>13 DEF Building

(* What WSAPoll reports of them is true as long as their slots are theirs. *)
LEMMA PollKeepsWalk ==
    ASSUME TypeOK, PlacesInv, NEW w \in Workers, WorkerPoll(w), Steady,
           Building(w)
    PROVE  Scanning(w)'
<1>1. WorkersTyped /\ index[w] \in Nat /\ fdCount[w] \in Int
  BY TypeParts DEF WorkersTyped
<1>2. PICK walk \in [1 .. index[w] - 1 -> Slots] :
         /\ IsWalk(w, walk)
         /\ \A i \in 1 .. index[w] - 1 :
               socket[walk[i]] \in {fds[w][i], INVALID_SOCKET}
  BY DEF Building
<1>3. /\ index[w] > fdCount[w] /\ fdCount'[w] = fdCount[w]
      /\ revents'[w] \in Reports(w) /\ wpc'[w] = "polled"
      /\ socket' = socket /\ closed' = closed /\ peer' = peer
  BY <1>1 DEF WorkerPoll, GoTo, WorkersTyped, tableVars, historyVars, PlacesInv
<1>4. \A i \in 1 .. fdCount[w] : i \in 1 .. index[w] - 1
  BY <1>1, <1>3
<1>5. PICK seen \in [1 .. fdCount[w] -> Slots] :
         \A i \in 1 .. fdCount[w] : seen[i] = walk[i]
  <2>1. [i \in 1 .. fdCount[w] |-> walk[i]] \in [1 .. fdCount[w] -> Slots]
    BY <1>4
  <2>. QED BY <2>1
<1>6. IsWalk(w, seen)
  <2>. SUFFICES ASSUME NEW i \in 1 .. fdCount[w]
                PROVE  seen[i] = Visited(w, seen, i)
    BY <1>5 DEF IsWalk
  <2>1. seen[i] = Visited(w, walk, i)
    BY <1>2, <1>4, <1>5 DEF IsWalk
  <2>2. i # 1 => i - 1 \in 1 .. fdCount[w]
    BY <1>1
  <2>. QED BY <1>5, <2>1, <2>2 DEF Visited
<1>7. ASSUME NEW i \in 1 .. fdCount[w], revents'[w][i] \in HungUp
      PROVE  Settled(socket[seen[i]])'
  <2>1. revents'[w][i] \in Polled(fds[w][i])
    BY <1>3 DEF Reports
  <2>2. peer[fds[w][i]] = "gone"
    BY <1>7, <2>1 DEF Polled, HungUp
  <2>3. socket[seen[i]] \in {fds[w][i], INVALID_SOCKET}
    BY <1>2, <1>4, <1>5
  <2>. QED BY <1>3, <2>2, <2>3 DEF Settled
<1>8. IsWalk(w, seen)'
  BY <1>6, SteadyWalks
<1>. QED BY <1>3, <1>5, <1>7, <1>8 DEF Scanning

(* The second walk is at the slot that the first one entered.              *)
LEMMA ScanKeepsWalk ==
    ASSUME TypeOK, PlacesInv, NEW w \in Workers, Steady, Scanning(w),
           MovesOn(w)
    PROVE  Scanning(w)'
<1>1. index[w] \in Nat \ {0} /\ fdCount[w] \in Int
  BY TypeParts DEF WorkersTyped, PlacesInv, PlaceInv
<1>2. PICK walk \in [1 .. fdCount[w] -> Slots] :
         /\ IsWalk(w, walk)
         /\ \A i \in 1 .. fdCount[w] :
               revents[w][i] \in HungUp => Settled(socket[walk[i]])
         /\ (wpc[w] # "polled" /\ index[w] <= fdCount[w]) =>
               conn[w] = walk[index[w]]
  BY DEF Scanning
<1>3. \A i \in 1 .. fdCount[w] : walk[i] = Visited(w, walk, i)
  BY <1>2 DEF IsWalk
<1>4. ASSUME index'[w] <= fdCount[w] PROVE conn'[w] = walk[index'[w]]
  <2>1. CASE conn'[w] = FirstConn(w) /\ index'[w] = 1
    BY <1>1, <1>3, <1>4, <2>1 DEF Visited
  <2>2. CASE /\ wpc[w] # "polled" /\ conn'[w] = FollowingConn(conn[w])
             /\ index'[w] = index[w] + 1
    <3>1. /\ index[w] <= fdCount[w] /\ index[w] + 1 \in 1 .. fdCount[w]
          /\ index[w] + 1 # 1 /\ index[w] + 1 - 1 = index[w]
      BY <1>1, <1>4, <2>2
    <3>2. walk[index[w] + 1] = FollowingConn(walk[index[w]])
      <4>1. Visited(w, walk, index[w] + 1)
                = FollowingConn(walk[index[w] + 1 - 1])
        BY <1>1, <3>1 DEF Visited
      <4>. QED BY <1>3, <3>1, <4>1
    <3>. QED BY <1>2, <2>2, <3>1, <3>2
  <2>. QED BY <2>1, <2>2 DEF MovesOn
<1>5. \A i \in 1 .. fdCount[w] :
          revents'[w][i] \in HungUp => Settled(socket[walk[i]])'
  <2>. SUFFICES ASSUME NEW i \in 1 .. fdCount[w], revents'[w][i] \in HungUp
                PROVE  Settled(socket[walk[i]])'
    OBVIOUS
  <2>1. socket[walk[i]] \in Peers \cup {INVALID_SOCKET}
    BY DEF TypeOK
  <2>2. Settled(socket[walk[i]]) /\ socket'[walk[i]] = socket[walk[i]]
    BY <1>2 DEF MovesOn, HungUpKept
  <2>. QED BY <2>1, <2>2 DEF Steady, Settled
<1>6. IsWalk(w, walk)'
  BY <1>2, SteadyWalks
<1>7. fdCount'[w] = fdCount[w]
  BY DEF MovesOn
<1>. QED BY <1>2, <1>4, <1>5, <1>6, <1>7 DEF Scanning

LEMMA OwnWalk ==
    ASSUME TypeOK, PlacesInv, ListsInv, NEW w \in Workers, WorkerStep(w),
           Steady, WorkerBuild(w) \/ WalkInv(w)
    PROVE  WalkInv(w)'
<1>1. WorkersTyped
  BY TypeParts
<1>2. WorkerBuild(w) \/ WalkInv(w)
  OBVIOUS
<1>3. CASE WorkerBuild(w)
  <2>1. /\ wpc'[w] = "build" /\ index'[w] = 1 /\ conn'[w] = FirstConn(w)
        /\ fds'[w] = << >>
    BY <1>1, <1>3 DEF WorkerBuild, StartWalk, GoTo, WorkersTyped
  <2>2. PICK walk \in [1 .. 0 -> Slots] : TRUE
    <3>1. [i \in 1 .. 0 |-> 0] \in [1 .. 0 -> Slots]
      OBVIOUS
    <3>. QED BY <3>1
  <2>3. \A i : Visited(w, walk, i)' = Visited(w, walk, i)
    BY SteadyWalks
  <2>4. conn'[w] = Visited(w, walk, index[w])'
    BY <2>1, <2>3 DEF Visited
  <2>5. IsWalk(w, walk)'
    BY DEF IsWalk
  <2>6. /\ Len(fds'[w]) = index'[w] - 1
        /\ walk \in [1 .. index'[w] - 1 -> Slots]
        /\ \A i \in 1 .. index'[w] - 1 : FALSE
    BY <2>1, <2>2
  <2>7. Building(w)'
    BY <2>4, <2>5, <2>6 DEF Building
  <2>. QED BY <2>1, <2>7 DEF WalkInv, AfterPoll, Scans
<1>4. CASE WorkerEntry(w)
  <2>1. wpc[w] = "build" /\ wpc'[w] = "build"
    BY <1>4 DEF WorkerEntry
  <2>2. ~WorkerBuild(w)
    BY <2>1 DEF WorkerBuild
  <2>3. Building(w)'
    BY <1>2, <1>4, <2>1, <2>2, EntryKeepsWalk DEF WalkInv
  <2>. QED BY <2>1, <2>3 DEF WalkInv, AfterPoll, Scans
<1>5. CASE WorkerPoll(w)
  <2>1. wpc[w] = "build" /\ wpc'[w] = "polled"
    BY <1>1, <1>5 DEF WorkerPoll, GoTo, WorkersTyped
  <2>2. ~WorkerBuild(w)
    BY <2>1 DEF WorkerBuild
  <2>3. Scanning(w)'
    BY <1>2, <1>5, <2>1, <2>2, PollKeepsWalk DEF WalkInv
  <2>. QED BY <2>1, <2>3 DEF WalkInv, AfterPoll, Scans
<1>6. CASE MovesOn(w)
  <2>1. wpc[w] \in AfterPoll /\ wpc'[w] = "scan"
    BY <1>6 DEF MovesOn
  <2>2. ~WorkerBuild(w)
    BY <2>1 DEF WorkerBuild, AfterPoll
  <2>3. Scanning(w)
    BY <1>2, <2>1, <2>2 DEF WalkInv
  <2>4. Scanning(w)'
    BY <1>6, <2>3, ScanKeepsWalk
  <2>5. conn'[w] # NULL => live[conn'[w]]
    BY <1>1, <1>6, WalkFacts DEF MovesOn, WorkersTyped
  <2>. QED BY <2>1, <2>4, <2>5 DEF WalkInv, AfterPoll, Steady
<1>7. CASE StaysAt(w) /\ ~WorkerBuild(w)
  BY <1>2, <1>7, WalkStays
<1>8. CASE wpc'[w] \notin AfterPoll \cup {"build"}
  BY <1>8 DEF WalkInv, AfterPoll, Scans
<1>. QED BY <1>3, <1>4, <1>5, <1>6, <1>7, <1>8, OwnPlace

(* The other threads leave the table steady too, unless they take or free  *)
(* a slot.                                                                 *)
LEMMA OthersSteady ==
    ASSUME TypeOK, PlacesInv,
           \/ AcceptStep \/ UNCHANGED vars
           \/ MainStep /\ ~FreeRelease
           \/ \E s \in Slots : AppRelease(s)
           \/ \E p \in Peers : PeerConnects(p) \/ PeerGoes(p)
    PROVE  shifted' = Workers \/ (Steady /\ shifted' = shifted)
<1>1. TableTyped /\ MainTyped
  BY TypeParts
<1>2. CASE \/ AcceptExit \/ AcceptFails \/ AcceptPollFails
           \/ AcceptLoad \/ AcceptStore
  <2>1. /\ UNCHANGED tableVars /\ closed' = closed /\ peer' = peer
        /\ shifted' = shifted
    BY <1>2
       DEF AcceptExit, AcceptFails, AcceptPollFails, AcceptLoad, AcceptStore,
           mainVars, historyVars
  <2>. QED BY <2>1 DEF Steady, Settled, tableVars
<1>3. CASE AcceptFind
  <2>1. /\ UNCHANGED tableVars /\ closed \subseteq closed' /\ peer' = peer
        /\ shifted' = shifted
    BY <1>3 DEF AcceptFind, CloseNewSocket, mainVars
  <2>. QED BY <2>1 DEF Steady, Settled, tableVars
<1>4. CASE AcceptInitialise
  <2>1. /\ newSlot \in Slots /\ ~live[newSlot] /\ live' = live
        /\ \E x : socket' = [socket EXCEPT ![newSlot] = x]
        /\ closed \subseteq closed' /\ peer' = peer
        /\ shifted' = shifted
    BY <1>4 DEF AcceptInitialise, CloseNewSocket, mainVars, PlacesInv
  <2>2. \A s \in Slots : live[s] => socket'[s] = socket[s]
    BY <1>1, <2>1 DEF TableTyped
  <2>. QED BY <2>1, <2>2 DEF Steady, Settled
<1>5. CASE AcceptState
  BY <1>5 DEF AcceptState
<1>6. ASSUME NEW p \in Peers,
             AcceptConnection(p) \/ PeerConnects(p) \/ PeerGoes(p)
      PROVE  Steady /\ shifted' = shifted
  <2>1. /\ UNCHANGED tableVars /\ closed' = closed
        /\ shifted' = shifted
    BY <1>6 DEF AcceptConnection, PeerConnects, PeerGoes, mainVars,
                historyVars
  <2>2. \A q \in Peers : peer[q] = "gone" => peer'[q] = "gone"
    BY <1>1, <1>6 DEF AcceptConnection, PeerConnects, PeerGoes, MainTyped
  <2>. QED BY <2>1, <2>2 DEF Steady, Settled, tableVars
<1>7. ASSUME \/ UNCHANGED vars
             \/ AllocCreate \/ AllocCreateFails \/ AllocUndoJoin
             \/ AllocReturnsError \/ FreeTerminate \/ FreeJoin
      PROVE  Steady /\ shifted' = shifted
  <2>1. /\ UNCHANGED tableVars /\ closed' = closed /\ peer' = peer
        /\ shifted' = shifted
    BY <1>7
       DEF vars, AllocCreate, AllocCreateFails, AllocUndoJoin, WorkersJoined,
           AllocReturnsError, FreeTerminate, FreeJoin, 
                mainVars, historyVars
  <2>. QED BY <2>1 DEF Steady, Settled, tableVars
<1>8. ASSUME NEW s \in Slots, AppRelease(s)
      PROVE  shifted' = Workers \/ (Steady /\ shifted' = shifted)
  <2>1. peer' = peer /\ ReleaseConnection(s)
    BY <1>8 DEF AppRelease
  <2>. QED BY <2>1, ReleaseSteady
<1>. QED BY <1>2, <1>3, <1>4, <1>5, <1>6, <1>7, <1>8
            DEF AcceptStep, AcceptRest, MainStep

(* They do not move in a walk.                                             *)
LEMMA OthersStayAt ==
    ASSUME TypeOK, PlacesInv, NEW v \in Workers,
           \/ AcceptStep \/ UNCHANGED vars
           \/ MainStep
           \/ \E s \in Slots : AppRelease(s)
           \/ \E p \in Peers : PeerConnects(p) \/ PeerGoes(p)
    PROVE  StaysAt(v)
<1>1. WorkersTyped /\ MainTyped
  BY TypeParts
<1>2. CASE AllocCreate
  <2>1. /\ conn' = conn /\ index' = index /\ fdCount' = fdCount
        /\ fds' = fds /\ revents' = revents
        /\ wpc' = [wpc EXCEPT ![started] = "loop"]
    BY <1>2 DEF AllocCreate, GoTo
  <2>2. started \in Workers /\ wpc[started] = "none"
    <3>1. started \in 0 .. ThreadCount /\ started < ThreadCount
      BY <1>1, <1>2 DEF AllocCreate, MainTyped
    <3>2. started \in Workers
      BY <3>1, ServerAssumption DEF Workers
    <3>. QED BY <1>1, <3>1, <3>2 DEF PlacesInv, PlaceInv, WorkersTyped
  <2>3. v = started \/ wpc'[v] = wpc[v]
    BY <1>1, <2>1 DEF WorkersTyped
  <2>4. v = started => wpc'[v] = "loop" /\ wpc[v] = "none"
    BY <1>1, <2>1, <2>2 DEF WorkersTyped
  <2>. QED BY <2>1, <2>3, <2>4 DEF StaysAt, HungUpKept, AfterPoll, Scans
<1>3. ASSUME ~AllocCreate PROVE StaysAt(v)
  <2>1. /\ conn' = conn /\ index' = index /\ fdCount' = fdCount
        /\ fds' = fds /\ revents' = revents /\ wpc' = wpc
    <3>1. CASE AllocCreateFails \/ FreeTerminate
      BY <3>1 DEF AllocCreateFails, FreeTerminate
    <3>2. CASE UNCHANGED vars
      BY <3>2 DEF vars, workerVars, walkVars
    <3>. QED BY <1>3, <3>1, <3>2, OthersQuiet
                DEF MainStep, AcceptStep, AcceptRest, workerVars, walkVars
  <2>. QED BY <2>1 DEF StaysAt, HungUpKept
<1>. QED BY <1>2, <1>3

(* What is known of the walks stays known.                                 *)
LEMMA WalksHold ==
    ASSUME TypeOK, PlacesInv, ListsInv, WalksInv, [Next]_vars
    PROVE  WalksInv'
<1>. SUFFICES ASSUME NEW v \in Workers, v \notin shifted'
              PROVE  WalkInv(v)'
  BY DEF WalksInv, WalkInv, Scans
<1>1. v \notin shifted => WalkInv(v)
  BY WalksParts
<1>2. ASSUME NEW w \in Workers, WorkerStep(w) PROVE WalkInv(v)'
  <2>1. Steady
    BY <1>2, WorkerSteady
  <2>2. CASE v = w
    BY <1>1, <1>2, <2>1, <2>2, WorkerSteady, OwnWalk
  <2>3. CASE v # w
    <3>1. v \notin shifted
      BY <1>2, <2>3, WorkerSteady
    <3>2. StaysAt(v)
      BY <1>2, <2>3, OtherWorkers DEF Elsewhere, StaysAt, HungUpKept
    <3>. QED BY <1>1, <2>1, <3>1, <3>2, WalkStays
  <2>. QED BY <2>2, <2>3
<1>3. CASE FreeRelease
  <2>1. wpc'[v] \in {"none", "exited"}
    BY <1>3 DEF FreeRelease, PlacesInv, workerVars
  <2>. QED BY <2>1 DEF WalkInv, AfterPoll, Scans
<1>4. CASE \/ AcceptStep \/ UNCHANGED vars
           \/ MainStep /\ ~FreeRelease
           \/ \E s \in Slots : AppRelease(s)
           \/ \E p \in Peers : PeerConnects(p) \/ PeerGoes(p)
  <2>1. StaysAt(v) /\ Steady /\ v \notin shifted
    BY <1>4, OthersStayAt, OthersSteady
  <2>. QED BY <1>1, <2>1, WalkStays
<1>. QED BY <1>2, <1>3, <1>4 DEF Next

(* Who closes sockets.                                                     *)
LEMMA WhoCloses ==
    ASSUME TypeOK, PlacesInv, ListsInv, NEW w \in Workers, Next,
           wpc'[w] # wpc[w], closed' # closed
    PROVE  WorkerHangUp(w) \/ WorkerRelease(w) \/ WorkerReadyReturns(w)
<1>1. ASSUME UNCHANGED workerVars PROVE FALSE
  BY <1>1 DEF workerVars
<1>2. ASSUME NEW v \in Workers, WorkerStep(v) PROVE v = w
  BY <1>2, OtherWorkers DEF Elsewhere
<1>3. ASSUME NEW v \in Workers, WorkerStep(v)
      PROVE  WorkerHangUp(v) \/ WorkerRelease(v) \/ WorkerReadyReturns(v)
  <2>1. CASE WalkStep(v)
    BY <2>1, WalkQuiet
  <2>2. CASE TakeStep(v)
    BY <2>2, TakeEffects
  <2>3. CASE WorkerMark(v)
    BY <2>3 DEF WorkerMark
  <2>. QED BY <1>3, <2>1, <2>2, <2>3 DEF WorkerStep, WalkStep, TakeStep
<1>4. ~(AllocCreate \/ AllocCreateFails \/ FreeTerminate)
  BY DEF AllocCreate, AllocCreateFails, FreeTerminate, historyVars
<1>. QED BY <1>1, <1>2, <1>3, <1>4, OthersQuiet
            DEF Next, AcceptStep, AcceptRest, MainStep

(* A worker closes the connection of a peer that is still there only for a *)
(* reason.                                                                 *)
LEMMA ClosedForAReason ==
    ASSUME TypeOK, IInv, Next, NEW w \in Workers, NEW p \in closed' \ closed,
           wpc'[w] # wpc[w]
    PROVE  \/ peer[p] = "gone"
           \/ w \in shifted /\ wpc[w] \in {"scan", "release"}
           \/ wpc[w] = "ready"
                /\ (astray \/ staleReleases'[Dispatched(w)] > 0)
<1>1. WorkersTyped /\ PlacesInv /\ ListsInv /\ WalksInv /\ ReferencesInv
  BY TypeParts DEF IInv
<1>2. WorkerHangUp(w) \/ WorkerRelease(w) \/ WorkerReadyReturns(w)
  BY <1>1, WhoCloses
<1>3. ASSUME NEW s \in Slots, CloseSocket(s)
      PROVE  p = socket[s] /\ p # INVALID_SOCKET
  BY <1>3 DEF CloseSocket, Sockets
<1>4. CASE WorkerHangUp(w)
  <2>1. /\ wpc[w] = "scan" /\ index[w] <= fdCount[w] /\ conn[w] \in Slots
        /\ revents[w][index[w]] = "hangup" /\ CloseSocket(conn[w])
    BY <1>1, <1>4 DEF WorkerHangUp, Reported, WorkersTyped
  <2>2. ASSUME w \notin shifted PROVE peer[p] = "gone"
    <3>1. PICK walk \in [1 .. fdCount[w] -> Slots] :
             /\ \A i \in 1 .. fdCount[w] :
                   revents[w][i] \in HungUp => Settled(socket[walk[i]])
             /\ index[w] <= fdCount[w] => conn[w] = walk[index[w]]
      BY <1>1, <2>1, <2>2, WalksParts DEF WalkInv, AfterPoll, Scanning
    <3>2. index[w] \in 1 .. fdCount[w]
      BY <1>1, <2>1 DEF WorkersTyped, PlacesInv, PlaceInv
    <3>3. Settled(socket[conn[w]])
      BY <2>1, <3>1, <3>2 DEF HungUp
    <3>. QED BY <1>3, <2>1, <3>3 DEF Settled
  <2>. QED BY <2>1, <2>2
<1>5. CASE WorkerRelease(w)
  <2>1. /\ wpc[w] = "release" /\ conn[w] \in Slots
        /\ ReleaseConnection(conn[w])
    BY <1>1, <1>5 DEF WorkerRelease, PlacesInv, PlaceInv, WorkersTyped
  <2>2. CloseSocket(conn[w])
    BY <2>1 DEF ReleaseConnection
  <2>3. w \in shifted
    BY <1>1, <1>3, <2>1, <2>2, WalksParts DEF WalkInv
  <2>. QED BY <2>1, <2>3
<1>6. CASE WorkerReadyReturns(w)
  <2>. SUFFICES ASSUME ~astray, ~(staleReleases'[Dispatched(w)] > 0)
                PROVE  FALSE
    BY <1>6 DEF WorkerReadyReturns
  <2>1. PICK c \in Slots : c = Dispatched(w)
    BY <1>1, <1>6
       DEF WorkerReadyReturns, Dispatched, ListsInv, ListInv, WorkersTyped
  <2>2. /\ ReleaseConnection(c)
        /\ staleReleases'[c] = staleReleases[c] + One(cursor[w] <= freed[w])
    BY <1>6, <2>1, TypeParts DEF WorkerReadyReturns, MainTyped
  <2>3. CloseSocket(c) /\ refCount[c] = 1
    BY <2>2 DEF ReleaseConnection
  <2>4. socket[c] # INVALID_SOCKET
    BY <1>3, <2>3
  <2>5. Referred(c) /\ staleReleases[c] \in Nat
    BY <1>1, TypeParts DEF ReferencesInv, MainTyped
  <2>6. staleReleases[c] = 0 /\ ~(cursor[w] <= freed[w])
    BY <2>1, <2>2, <2>5 DEF One
  <2>7. Messages(c) # {}
    <3>1. cursor[w] > freed[w]
      BY <1>1, <2>6 DEF WorkersTyped
    <3>. QED BY <1>1, <1>6, <2>1, <3>1, MessagesOneLess
  <2>8. Owners(c) = 1
    <3>1. refCount[c] = Owners(c) - staleReleases[c]
      BY <2>5 DEF Referred
    <3>. QED BY <2>3, <2>6, <3>1, OwnersFacts
  <2>9. One(c \in base) = 0 /\ One(Arriving(c)) = 0
    BY <2>7, <2>8, OwnersFacts
  <2>10. c \notin base /\ ~Arriving(c)
    BY <2>9 DEF One
  <2>. QED BY <2>4, <2>5, <2>10 DEF Referred
<1>. QED BY <1>2, <1>4, <1>5, <1>6

-----------------------------------------------------------------------------
(* The inductive invariant.                                                *)
LEMMA InitHolds == Init => TypeOK /\ IInv
<1>. SUFFICES ASSUME Init PROVE TypeOK /\ IInv
  OBVIOUS
<1>1. TypeOK
  <2>1. ThreadCount \in Nat \ {0} /\ << >> \in Seq(Peers \cup {INVALID_SOCKET})
    BY ServerAssumption
  <2>2. TableTyped
    BY DEF Init, TableTyped
  <2>3. WorkersTyped
    BY <2>1 DEF Init, WorkersTyped, Points, NULL
  <2>4. AcceptTyped
    <3>1. {acceptTerminated, acceptFailed} \subseteq BOOLEAN
      BY DEF Init
    <3>. QED BY <3>1 DEF Init, AcceptTyped
  <2>5. MainTyped
    <3>1. {listening, lostUpdate, astray, overwritten} \subseteq BOOLEAN
      BY DEF Init
    <3>. QED BY <2>1, <3>1 DEF Init, MainTyped
  <2>. QED BY <2>2, <2>3, <2>4, <2>5, TypeParts
<1>2. PlacesInv
  BY DEF Init, PlacesInv, PlaceInv, AfterPoll
<1>8. ListsInv
  <2>1. Len(<< >>) = 0 /\ MaxMessages \in Nat
    BY ServerAssumption
  <2>. QED BY <2>1 DEF Init, ListsInv, ListInv, AfterPoll
<1>9. \A s \in Slots : Messages(s) = {} /\ Cardinality(Messages(s)) = 0
  <2>1. ASSUME NEW s \in Slots PROVE Messages(s) = {}
    BY <2>1 DEF Init, Messages
  <2>. QED BY <2>1, FS_EmptySet
<1>3. SocketsInv
  BY <1>9 DEF Init, SocketsInv, SlotInv, Kept, Claims, One
<1>4. ReferencesInv
  BY <1>9 DEF Init, ReferencesInv, Referred, Owners, Arriving, One
<1>5. CountExact
  <2>1. {w \in Workers : wpc[w] \in {"load", "store"}} = {}
    BY DEF Init
  <2>2. Cardinality({}) = 0
    BY FS_EmptySet
  <2>3. /\ connectionCount = 0 /\ base = {} /\ apc = "poll"
        /\ fault = "none"
    BY DEF Init
  <2>. QED BY <2>1, <2>2, <2>3 DEF CountExact, One
<1>6. AheadInv
  BY DEF Init, AheadInv
<1>7. WalksInv
  BY DEF Init, WalksInv, AfterPoll
<1>. QED BY <1>1, <1>2, <1>3, <1>4, <1>5, <1>6, <1>7, <1>8 DEF IInv

LEMMA Invariance == Spec => [](TypeOK /\ IInv)
<1>1. TypeOK /\ IInv /\ [Next]_vars => (TypeOK /\ IInv)'
  <2>. SUFFICES ASSUME TypeOK, IInv, [Next]_vars PROVE TypeOK' /\ IInv'
    OBVIOUS
  <2>1. /\ PlacesInv /\ ListsInv /\ SocketsInv /\ ReferencesInv
        /\ CountExact /\ AheadInv /\ WalksInv
    BY DEF IInv
  <2>2. TypeOK'
    BY <2>1, TypeHolds
  <2>3. /\ PlacesInv' /\ ListsInv' /\ SocketsInv' /\ ReferencesInv'
        /\ CountExact' /\ AheadInv' /\ WalksInv'
    BY <2>1, PlacesHold, ListsHold, SocketsHold, ReferencesHold, CountHolds,
       AheadHolds, WalksHold
  <2>. QED BY <2>2, <2>3 DEF IInv
<1>. QED BY <1>1, InitHolds, PTL DEF Spec

(* Every variable keeps its type.                                          *)
THEOREM TypeCorrect == Spec => []TypeOK
BY Invariance, PTL

(* ReferenceCount is the number of references to a connection, those of    *)
(* the messages received from it among them, less what was given up        *)
(* through freed messages, for any number of slots, workers, peers and     *)
(* messages, until the slot is freed while it has owners or a worker hangs *)
(* up or refers to a slot that is not the one it had found (mfbroker.c:107,*)
(* 202-245, 295-302).                                                      *)
THEOREM References == Spec => []ReferencesCounted
<1>1. IInv => ReferencesCounted
  BY DEF IInv, ReferencesInv, Referred, ReferencesCounted
<1>. QED BY <1>1, Invariance, PTL

(* ConnectionCount counts the connections of the table as long as no two   *)
(* updates of it overlap (mfbroker.c:208, 246, 357) and no slot was freed  *)
(* that is still counted (line 300), and then a single worker never runs   *)
(* out of connections in a walk (lines 187-197).                           *)
THEOREM Count == Spec => []CountExact
<1>1. IInv => CountExact
  BY DEF IInv
<1>. QED BY <1>1, Invariance, PTL

(* A worker closes the connection of a peer that is still there only if a  *)
(* slot was taken or freed since it filled its array (mfbroker.c:187,      *)
(* 202-207), or by the dispatch loop's release of a connection that was    *)
(* released too often before (line 300).                                   *)
THEOREM HangUps == Spec => HangUpJustified
<1>1. TypeOK /\ IInv /\ [Next]_vars =>
        [\A w \in Workers, p \in closed' \ closed :
            wpc'[w] # wpc[w] =>
                \/ peer[p] = "gone"
                \/ w \in shifted /\ wpc[w] \in {"scan", "release"}
                \/ wpc[w] = "ready"
                     /\ (astray \/ staleReleases'[Dispatched(w)] > 0)]_vars
  BY ClosedForAReason
<1>. QED BY <1>1, Invariance, PTL DEF Spec, HangUpJustified

(* MFBroker_Free closes every socket that was accepted, whatever went      *)
(* wrong before, unless one was overwritten in its slot (mfbroker.c:       *)
(* 526-531, 574).                                                          *)
THEOREM NoSocketLeft == Spec => []SocketsClosed
<1>1. TypeOK /\ IInv => SocketsClosed
  <2>. SUFFICES ASSUME TypeOK, IInv, main = "freed", ~overwritten,
                       NEW p \in Peers, peer[p] \in {"connected", "gone"}
                PROVE  p \in closed
    BY DEF SocketsClosed
  <2>1. p # INVALID_SOCKET
    BY DEF Peers, INVALID_SOCKET
  <2>2. newSocket = INVALID_SOCKET
    BY DEF IInv, PlacesInv
  <2>3. \A s \in Slots : socket[s] = INVALID_SOCKET
    BY DEF IInv, SocketsInv, SlotInv
  <2>. QED BY <2>1, <2>2, <2>3 DEF IInv, SocketsInv, Kept
<1>. QED BY <1>1, Invariance, PTL
=============================================================================

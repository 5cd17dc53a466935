------------------------------ MODULE MFStream ------------------------------
(***************************************************************************)
(* CMFRWStream (mfstream-impl.cpp, mfstreamop-impl.cpp): a byte stream     *)
(* whose reads and writes are queued for one thread.  The constructor      *)
(* starts the thread and waits for it on the semaphore that counts the     *)
(* queued operations; Close and the destructor post the same semaphore.    *)
(*                                                                         *)
(* A critical section of opListLock_ is one step.  Each operation is       *)
(* submitted once, by a thread of its own.                                 *)
(***************************************************************************)
EXTENDS Naturals, Sequences, FiniteSets, Functions

CONSTANTS
    SyncOps,      \* operations submitted through Read or Write
    AsyncOps,     \* operations submitted through BeginRead or BeginWrite
    Flushers,     \* threads that call Flush
    Closers       \* threads that call Close

Ops == SyncOps \cup AsyncOps

ASSUME StreamAssumption ==
    IsFiniteSet(SyncOps) /\ IsFiniteSet(AsyncOps) /\ SyncOps \cap AsyncOps = {}

VARIABLES
    startup,          \* what the constructor could create
    comFailed,        \* errorCode_ is an error: CoInitialize failed
    creator,          \* MFStream_NewInstance, later the last Release
    opThread,         \* where _StreamThreadROutine is
    opListSemaphore,  \* its count
    opList,           \* the queue
    current,          \* the operation the thread took, if any
    pendingOpCount,
    flushedEvent,     \* signalled or not
    closed,
    call,             \* progress of each Read, Write, BeginRead, BeginWrite
    refCount,         \* of each operation
    flush,            \* progress of each Flush
    closing,          \* progress of each Close
    covered,          \* operations pending when the Flush began
    answered,         \* operations finished, in order
    late              \* those finished after closed was set

queueVars   == <<opListSemaphore, opList, pendingOpCount, flushedEvent>>
callerVars  == <<call, flush, closing, covered>>
historyVars == <<answered, late>>
startVars   == <<startup, comFailed, creator>>

vars == <<startVars, opThread, queueVars, current, closed, callerVars,
          refCount, historyVars>>

Init ==
    /\ startup = "none" /\ comFailed = FALSE /\ creator = "init"
    /\ opThread = "none" /\ opListSemaphore = 0 /\ opList = << >>
    /\ current = << >> /\ pendingOpCount = 0 /\ flushedEvent = TRUE
    /\ closed = FALSE
    /\ call = [o \in Ops |-> "new"] /\ refCount = [o \in Ops |-> 0]
    /\ flush = [f \in Flushers |-> "new"]
    /\ closing = [c \in Closers |-> "new"]
    /\ covered = [f \in Flushers |-> {}]
    /\ answered = << >> /\ late = 0

(* There is no event to reset, or to wait for.                             *)
NoEvent == startup \in {"noSemaphore", "noEvent"}

(* ReleaseSemaphore fails when the semaphore was never created.            *)
PostEvent ==
    opListSemaphore' = IF startup = "noSemaphore" THEN opListSemaphore ELSE 1

Post ==
    opListSemaphore' = opListSemaphore + (IF startup = "noSemaphore" THEN 0 ELSE 1)

(***************************************************************************)
(* Construction.  GetLastError() is a positive number, which SUCCEEDED     *)
(* accepts: a stream without its thread, its event or its semaphore is     *)
(* handed to the caller.  Without the semaphore the event handle is        *)
(* whatever was in memory, so Flush may return at any time.                *)
(***************************************************************************)
Construct ==
    /\ creator = "init"
    /\ \/ /\ startup' = "ok" /\ creator' = "waiting" /\ opThread' = "starting"
          /\ UNCHANGED flushedEvent
       \/ /\ startup' \in {"noSemaphore", "noEvent", "noThread"}
          /\ creator' = "created"
          /\ UNCHANGED opThread
    /\ UNCHANGED <<comFailed, queueVars, current, closed, callerVars, refCount,
                   historyVars>>

ThreadStart ==
    /\ opThread = "starting"
    /\ comFailed' \in BOOLEAN
    /\ Post
    /\ opThread' = IF comFailed' THEN "exited" ELSE "loop"
    /\ UNCHANGED <<startup, creator, opList, pendingOpCount, flushedEvent,
                   current, closed, callerVars, refCount, historyVars>>

(* The constructor wakes up; MFStream_NewInstance looks at errorCode_ and  *)
(* releases the only reference if it is an error.                          *)
ConstructReturns ==
    /\ creator = "waiting" /\ opListSemaphore > 0
    /\ opListSemaphore' = opListSemaphore - 1
    /\ creator' = IF comFailed THEN "failed" ELSE "created"
    /\ UNCHANGED <<startup, comFailed, opThread, opList, pendingOpCount,
                   flushedEvent, current, closed, callerVars, refCount,
                   historyVars>>

(***************************************************************************)
(* The thread.                                                             *)
(***************************************************************************)
ThreadLoop ==
    /\ opThread = "loop"
    /\ opThread' = IF closed THEN "exited" ELSE "wait"
    /\ UNCHANGED <<startVars, queueVars, current, closed, callerVars, refCount,
                   historyVars>>

ThreadWait ==
    /\ opThread = "wait" /\ opListSemaphore > 0
    /\ opListSemaphore' = opListSemaphore - 1
    /\ opThread' = "take"
    /\ UNCHANGED <<startVars, opList, pendingOpCount, flushedEvent, current,
                   closed, callerVars, refCount, historyVars>>

(* RemoveFromList under the lock; nothing is done for an empty list.       *)
ThreadTakeLast ==
    /\ opThread = "take"
    /\ IF opList = << >>
       THEN opThread' = "loop" /\ UNCHANGED <<current, opList>>
       ELSE /\ opThread' = "process"
            /\ current' = <<opList[Len(opList)]>>
            /\ opList' = SubSeq(opList, 1, Len(opList) - 1)
    /\ UNCHANGED <<startVars, opListSemaphore, pendingOpCount, flushedEvent,
                   closed, callerVars, refCount, historyVars>>

ThreadTake ==
    /\ opThread = "take"
    /\ IF opList = << >>
       THEN opThread' = "loop" /\ UNCHANGED <<current, opList>>
       ELSE /\ opThread' = "process"
            /\ current' = <<Head(opList)>>
            /\ opList' = Tail(opList)
    /\ UNCHANGED <<startVars, opListSemaphore, pendingOpCount, flushedEvent,
                   closed, callerVars, refCount, historyVars>>

(* The callback returned: Finish stores the result and sets the event.     *)
ThreadFinish ==
    /\ opThread = "process"
    /\ answered' = answered \o current
    /\ late' = IF closed THEN late + 1 ELSE late
    /\ opThread' = "retire"
    /\ UNCHANGED <<startVars, queueVars, current, closed, callerVars,
                   refCount>>

ThreadRetireAlwaysSets ==
    /\ opThread = "retire"
    /\ pendingOpCount' = pendingOpCount - 1
    /\ flushedEvent' = TRUE
    /\ opThread' = "drop"
    /\ UNCHANGED <<startVars, opListSemaphore, opList, current, closed,
                   callerVars, refCount, historyVars>>

ThreadRetire ==
    /\ opThread = "retire"
    /\ pendingOpCount' = pendingOpCount - 1
    /\ flushedEvent' = (flushedEvent \/ pendingOpCount = 1)
    /\ opThread' = "drop"
    /\ UNCHANGED <<startVars, opListSemaphore, opList, current, closed,
                   callerVars, refCount, historyVars>>

(* The reference the list held.                                            *)
ThreadDrop ==
    /\ opThread = "drop"
    /\ refCount' = [refCount EXCEPT ![current[1]] = @ - 1]
    /\ current' = << >>
    /\ opThread' = "loop"
    /\ UNCHANGED <<startVars, queueVars, closed, callerVars, historyVars>>

(***************************************************************************)
(* Callers of Read, Write, BeginRead, BeginWrite, Flush and Close.         *)
(***************************************************************************)
(* CMFRWStreamOp::NewInstance leaves one reference, its caller's; Insert   *)
(* adds that of the list.                                                  *)
CreatorReference == 1

InsertUncounted(o) ==
    /\ opList' = Append(opList, o)
    /\ refCount' = [refCount EXCEPT ![o] = CreatorReference]

Insert(o) ==
    /\ opList' = Append(opList, o)
    /\ refCount' = [refCount EXCEPT ![o] = CreatorReference + 1]

Count ==
    /\ pendingOpCount' = pendingOpCount + 1
    /\ flushedEvent' = IF NoEvent THEN flushedEvent
                       ELSE flushedEvent /\ pendingOpCount # 0

OpInsert(o) ==
    /\ creator = "created" /\ call[o] = "new"
    /\ Insert(o)
    /\ Count
    /\ call' = [call EXCEPT ![o] = "inserted"]
    /\ UNCHANGED <<startVars, opThread, opListSemaphore, current, closed,
                   flush, closing, covered, historyVars>>

(* The semaphore is released outside the lock.  Read and Write go on to    *)
(* wait for the operation; BeginRead and BeginWrite drop it and return.    *)
OpPost(o) ==
    /\ call[o] = "inserted"
    /\ Post
    /\ IF o \in SyncOps
       THEN call' = [call EXCEPT ![o] = "waiting"] /\ UNCHANGED refCount
       ELSE /\ call' = [call EXCEPT ![o] = "returned"]
            /\ refCount' = [refCount EXCEPT ![o] = @ - 1]
    /\ UNCHANGED <<startVars, opThread, opList, pendingOpCount, flushedEvent,
                   current, closed, flush, closing, covered, historyVars>>

OpReturn(o) ==
    /\ call[o] = "waiting" /\ o \in Range(answered)
    /\ call' = [call EXCEPT ![o] = "returned"]
    /\ refCount' = [refCount EXCEPT ![o] = @ - 1]
    /\ UNCHANGED <<startVars, opThread, queueVars, current, closed, flush,
                   closing, covered, historyVars>>

FlushBegin(f) ==
    /\ creator = "created" /\ flush[f] = "new"
    /\ flush' = [flush EXCEPT ![f] = "waiting"]
    /\ covered' = [covered EXCEPT ![f] = {o \in Ops : call[o] # "new"}]
    /\ UNCHANGED <<startVars, opThread, queueVars, current, closed, call,
                   closing, refCount, historyVars>>

FlushReturn(f) ==
    /\ flush[f] = "waiting"
    /\ flushedEvent \/ NoEvent
    /\ flush' = [flush EXCEPT ![f] = "returned"]
    /\ UNCHANGED <<startVars, opThread, queueVars, current, closed, call,
                   closing, covered, refCount, historyVars>>

CloseSet(c) ==
    /\ creator = "created" /\ closing[c] = "new"
    /\ closed' = TRUE
    /\ closing' = [closing EXCEPT ![c] = "set"]
    /\ UNCHANGED <<startVars, opThread, queueVars, current, call, flush,
                   covered, refCount, historyVars>>

ClosePost(c) ==
    /\ closing[c] = "set"
    /\ Post
    /\ closing' = [closing EXCEPT ![c] = "returned"]
    /\ UNCHANGED <<startVars, opThread, opList, pendingOpCount, flushedEvent,
                   current, closed, call, flush, covered, refCount,
                   historyVars>>

(***************************************************************************)
(* The last Release: nobody is inside a call, for a call needs a reference *)
(* to the stream.                                                          *)
(***************************************************************************)
Quiet ==
    /\ \A o \in Ops : call[o] \in {"new", "returned"}
    /\ \A f \in Flushers : flush[f] # "waiting"
    /\ \A c \in Closers : closing[c] # "set"

DestroyBegin ==
    /\ creator = "failed" \/ (creator = "created" /\ Quiet)
    /\ IF startup = "ok" THEN closed' = TRUE /\ creator' = "closing"
                         ELSE creator' = "destroyed" /\ UNCHANGED closed
    /\ UNCHANGED <<startup, comFailed, opThread, queueVars, current,
                   callerVars, refCount, historyVars>>

DestroyWithoutPost ==
    /\ creator = "closing"
    /\ creator' = "joining"
    /\ UNCHANGED <<startup, comFailed, opThread, queueVars, current, closed,
                   callerVars, refCount, historyVars>>

DestroyPost ==
    /\ creator = "closing"
    /\ Post
    /\ creator' = "joining"
    /\ UNCHANGED <<startup, comFailed, opThread, opList, pendingOpCount,
                   flushedEvent, current, closed, callerVars, refCount,
                   historyVars>>

DestroyReturns ==
    /\ creator = "joining" /\ opThread = "exited"
    /\ creator' = "destroyed"
    /\ UNCHANGED <<startup, comFailed, opThread, queueVars, current, closed,
                   callerVars, refCount, historyVars>>

ThreadStep ==
    \/ ThreadStart \/ ThreadLoop \/ ThreadWait \/ ThreadTake
    \/ ThreadFinish \/ ThreadRetire \/ ThreadDrop

CreatorStep ==
    \/ Construct \/ ConstructReturns
    \/ DestroyBegin \/ DestroyPost \/ DestroyReturns

OpStep(o) == OpInsert(o) \/ OpPost(o) \/ OpReturn(o)

FlushStep(f) == FlushBegin(f) \/ FlushReturn(f)

CloseStep(c) == CloseSet(c) \/ ClosePost(c)

Next ==
    \/ ThreadStep \/ CreatorStep
    \/ \E o \in Ops : OpStep(o)
    \/ \E f \in Flushers : FlushStep(f)
    \/ \E c \in Closers : CloseStep(c)

Spec == Init /\ [][Next]_vars

(* The threads run, the data callbacks return, and a caller finishes what  *)
(* it began.  Nobody is obliged to begin a call.                           *)
Fairness ==
    /\ WF_vars(ThreadStep)
    /\ WF_vars(ConstructReturns)
    /\ WF_vars(DestroyPost \/ DestroyReturns)
    /\ \A o \in Ops : WF_vars(OpPost(o) \/ OpReturn(o))
    /\ \A f \in Flushers : WF_vars(FlushReturn(f))
    /\ \A c \in Closers : WF_vars(ClosePost(c))

FairSpec == Spec /\ Fairness

-----------------------------------------------------------------------------
(* Every variable has its type.                                            *)
TypeOK ==
    /\ startup \in {"none", "ok", "noSemaphore", "noEvent", "noThread"}
    /\ comFailed \in BOOLEAN /\ closed \in BOOLEAN /\ flushedEvent \in BOOLEAN
    /\ creator \in {"init", "waiting", "failed", "created", "closing",
                    "joining", "destroyed"}
    /\ opThread \in {"none", "starting", "loop", "wait", "take", "process",
                     "retire", "drop", "exited"}
    /\ opListSemaphore \in Nat /\ pendingOpCount \in Nat /\ late \in Nat
    /\ opList \in Seq(Ops) /\ current \in Seq(Ops) /\ answered \in Seq(Ops)
    /\ call \in [Ops -> {"new", "inserted", "waiting", "returned"}]
    /\ refCount \in [Ops -> Nat]
    /\ flush \in [Flushers -> {"new", "waiting", "returned"}]
    /\ closing \in [Closers -> {"new", "set", "returned"}]
    /\ covered \in [Flushers -> SUBSET Ops]

(* No lost wake-up: each queued operation has a token in the semaphore, or *)
(* its caller is about to post one, or the thread has just taken one.      *)
Inserted == {o \in Ops : call[o] = "inserted"}

NoLostWakeup ==
    startup # "noSemaphore" =>
        Len(opList) <= opListSemaphore + Cardinality(Inserted)
                          + (IF opThread = "take" THEN 1 ELSE 0)

(* pendingOpCount and flushedEvent, kept by two threads, agree with what   *)
(* is queued or not yet retired.                                           *)
Unretired == IF opThread \in {"process", "retire"} THEN Len(current) ELSE 0

PendingExact ==
    /\ pendingOpCount = Len(opList) + Unretired
    /\ ~NoEvent => (flushedEvent <=> pendingOpCount = 0)

(* Flush returns only after every operation submitted before it was        *)
(* finished; a stream whose start-up failed does not promise that.         *)
FlushCovers ==
    \A f \in Flushers :
        flush[f] = "returned" /\ ~NoEvent =>
            covered[f] \subseteq Range(answered)

(* An operation lives exactly as long as its caller, the list or the       *)
(* thread has it: the thread and a late caller never use freed memory, and *)
(* what outlives the stream is what was still queued.                      *)
Owners(o) ==
    (IF call[o] \in {"inserted", "waiting"} THEN 1 ELSE 0)
        + (IF o \in Range(opList) \cup Range(current) THEN 1 ELSE 0)

OpsCounted == \A o \in Ops : refCount[o] = Owners(o)

-----------------------------------------------------------------------------
(* Operations are answered once, in the order they were queued, and at     *)
(* most one of them after Close.                                           *)
Service == INSTANCE MFStreamService WITH
    submitted <- {o \in Ops : call[o] # "new"},
    waiting <- (IF opThread = "process" THEN current ELSE << >>) \o opList

ImplementsService == Service!Spec

(* The thread took the token meant for the constructor: both wait now.     *)
TokenStolen == creator = "waiting" /\ opThread = "wait" /\ opListSemaphore = 0

(* Every submitted operation is answered unless the stream is closed first *)
(* or never had a thread.                                                  *)
OpsAnswered ==
    \A o \in Ops :
        (call[o] # "new")
            ~> (o \in Range(answered) \/ closed \/ startup # "ok")

(* The constructor returns, unless its token is stolen, and the last       *)
(* Release always does: the token it posts reaches the thread after closed *)
(* is set, whatever else is queued (mfstream-impl.cpp:277, 284-303).       *)
CreatorServed ==
    /\ (creator = "waiting") ~> (creator # "waiting" \/ TokenStolen)
    /\ (creator \in {"closing", "joining"}) ~> (creator = "destroyed")
=============================================================================

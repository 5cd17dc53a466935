------------------------------ MODULE MFCapture ------------------------------
(***************************************************************************)
(* Sampling of a capture device (mfcap.cpp): MFCap_Start creates a thread  *)
(* that reads samples and passes them to a callback, MFCap_Stop asks it to *)
(* terminate and waits for it, MFCap_FreeInstance frees the device.        *)
(*                                                                         *)
(* Nothing in the device is protected by a lock, so each store to it that  *)
(* another thread can see is a step.  The number of a Start stands for its *)
(* callback, its context, its source reader and its thread; 0 is NULL.     *)
(***************************************************************************)
EXTENDS Naturals, FiniteSets

CONSTANTS
    Apps,         \* application threads
    MaxStarts,    \* bound: calls of MFCap_Start
    MaxStops      \* bound: calls of MFCap_Stop

ASSUME CaptureAssumption ==
    IsFiniteSet(Apps) /\ MaxStarts \in Nat /\ MaxStops \in Nat

Samplers == 1 .. MaxStarts

(* Threads that may call Start and Stop; a sampler does so in its callback.*)
Threads == Apps \cup Samplers

VARIABLES
    device,       \* "live" or "freed"
    handle,       \* SamplingThread
    terminated,   \* SamplingTerminated
    callback,     \* SamplingCallback
    context,      \* SamplingContext
    starts,       \* calls of Start so far
    stops,        \* calls of Stop so far
    at,           \* where each thread is in Start or Stop
    arg,          \* the number of its Start, or the thread it waits for
    sampler,      \* where each sampling thread is
    failing,      \* FAILED(ret) in it
    called,       \* the callback and context it is calling
    buffer,       \* its variable buffer: "null", "held", or "stale"
    bufferRefs,   \* references to what buffer points to
    readerRefs,   \* references to the source reader of each Start
    contextRefs,  \* references to the SAMPLING_THREAD_CONTEXT of each Start
    (* what happened *)
    silent,       \* no Start since the last Stop returned, or ever
    comFailed,    \* sampling threads whose CoInitialize failed
    ticks,        \* reads in a row that gave no sample
    misuse,       \* calls in an order the code is not written for
    fault         \* memory used after it was freed

deviceVars  == <<device, handle, terminated, callback, context>>
callVars    == <<starts, stops, at, arg>>
samplerVars == <<sampler, failing, called, buffer, bufferRefs, ticks>>
refVars     == <<readerRefs, contextRefs>>
historyVars == <<silent, comFailed, misuse>>

vars == <<deviceVars, callVars, samplerVars, refVars, historyVars, fault>>

Init ==
    /\ device = "live" /\ handle = 0 /\ terminated = FALSE
    /\ callback = 0 /\ context = 0
    /\ starts = 0 /\ stops = 0
    /\ at = [t \in Threads |-> "idle"] /\ arg = [t \in Threads |-> 0]
    /\ sampler = [n \in Samplers |-> "none"]
    /\ failing = [n \in Samplers |-> FALSE]
    /\ called = [n \in Samplers |-> <<0, 0>>]
    /\ buffer = [n \in Samplers |-> "null"]
    /\ bufferRefs = [n \in Samplers |-> 0]
    /\ ticks = [n \in Samplers |-> 0]
    /\ readerRefs = [n \in Samplers |-> 0]
    /\ contextRefs = [n \in Samplers |-> 0]
    /\ silent = TRUE /\ comFailed = {} /\ misuse = {} /\ fault = "none"

Running == {n \in Samplers : sampler[n] \notin {"none", "exited"}}

(* Another call of Start or Stop is in progress.                           *)
Overlaps(t) ==
    IF \E u \in Threads \ {t} : at[u] # "idle" THEN {"overlap"} ELSE {}

(* A thread can begin a call: an application thread, or a sampler that is  *)
(* inside its callback.                                                    *)
MayCall(t) ==
    /\ device = "live" /\ at[t] = "idle"
    /\ t \in Samplers => sampler[t] = "callback"

GoTo(t, place) == at' = [at EXCEPT ![t] = place]

(* The number is not used any more.                                        *)
Forget(t) == arg' = [arg EXCEPT ![t] = 0]

(***************************************************************************)
(* MFCap_Start.  The reader may not be created.                            *)
(***************************************************************************)
StartReader(t) ==
    /\ MayCall(t) /\ starts < MaxStarts
    /\ starts' = starts + 1
    /\ \/ UNCHANGED <<at, arg, readerRefs>>
       \/ /\ readerRefs' = [readerRefs EXCEPT ![starts + 1] = 1]
          /\ arg' = [arg EXCEPT ![t] = starts + 1]
          /\ GoTo(t, "callback")
    /\ silent' = FALSE
    /\ misuse' = misuse \cup Overlaps(t)
                    \cup (IF Running # {} THEN {"restart"} ELSE {})
    /\ UNCHANGED <<deviceVars, stops, samplerVars, contextRefs, comFailed,
                   fault>>

StartCallback(t) ==
    /\ at[t] = "callback"
    /\ callback' = arg[t]
    /\ GoTo(t, "context")
    /\ UNCHANGED <<device, handle, terminated, context, starts, stops, arg,
                   samplerVars, refVars, historyVars, fault>>

StartContextForgotten(t) ==
    /\ at[t] = "context"
    /\ GoTo(t, "create")
    /\ UNCHANGED <<deviceVars, starts, stops, arg, samplerVars, refVars,
                   historyVars, fault>>

StartContext(t) ==
    /\ at[t] = "context"
    /\ context' = arg[t]
    /\ GoTo(t, "create")
    /\ UNCHANGED <<device, handle, terminated, callback, starts, stops, arg,
                   samplerVars, refVars, historyVars, fault>>

(* The memory for the thread's context, or the thread, cannot be had; in   *)
(* the second case NULL is stored in the device.                           *)
StartFails(t) ==
    /\ at[t] = "create"
    /\ handle' \in {handle, 0}
    /\ readerRefs' = [readerRefs EXCEPT ![arg[t]] = @ - 1]
    /\ GoTo(t, "idle")
    /\ Forget(t)
    /\ UNCHANGED <<device, terminated, callback, context, starts, stops,
                   samplerVars, contextRefs, historyVars, fault>>

(* The new thread may run, and exit, before its handle is stored.          *)
StartUncounted(t) ==
    /\ at[t] = "create"
    /\ sampler' = [sampler EXCEPT ![arg[t]] = "starting"]
    /\ contextRefs' = [contextRefs EXCEPT ![arg[t]] = 2]
    /\ GoTo(t, "store")
    /\ UNCHANGED <<deviceVars, starts, stops, arg, failing, called, buffer,
                   bufferRefs, ticks, readerRefs, historyVars, fault>>

StartThread(t) ==
    /\ at[t] = "create"
    /\ sampler' = [sampler EXCEPT ![arg[t]] = "starting"]
    /\ readerRefs' = [readerRefs EXCEPT ![arg[t]] = @ + 1]
    /\ contextRefs' = [contextRefs EXCEPT ![arg[t]] = 2]
    /\ GoTo(t, "store")
    /\ UNCHANGED <<deviceVars, starts, stops, arg, failing, called, buffer,
                   bufferRefs, ticks, historyVars, fault>>

StartStore(t) ==
    /\ at[t] = "store"
    /\ handle' = arg[t]
    /\ readerRefs' = [readerRefs EXCEPT ![arg[t]] = @ - 1]
    /\ contextRefs' = [contextRefs EXCEPT ![arg[t]] = @ - 1]
    /\ GoTo(t, "idle")
    /\ Forget(t)
    /\ UNCHANGED <<device, terminated, callback, context, starts, stops,
                   samplerVars, historyVars, fault>>

(***************************************************************************)
(* MFCap_Stop.                                                             *)
(***************************************************************************)
LeaveFlag == UNCHANGED terminated

SetFlag == terminated' = TRUE

StopTerminate(t) ==
    /\ MayCall(t) /\ stops < MaxStops
    /\ stops' = stops + 1
    /\ SetFlag
    /\ GoTo(t, "wait")
    /\ misuse' = misuse \cup Overlaps(t)
    /\ UNCHANGED <<device, handle, callback, context, starts, arg,
                   samplerVars, refVars, silent, comFailed, fault>>

StopWait(t) ==
    /\ at[t] = "wait"
    /\ arg' = [arg EXCEPT ![t] = handle]
    /\ GoTo(t, "waiting")
    /\ UNCHANGED <<deviceVars, starts, stops, samplerVars, refVars,
                   historyVars, fault>>

(* A wait for NULL fails at once.                                          *)
StopJoinedUnwaited(t) == at[t] = "waiting" /\ GoTo(t, "close")

StopJoined(t) ==
    /\ at[t] = "waiting"
    /\ arg[t] # 0 => sampler[arg[t]] = "exited"
    /\ GoTo(t, "close")

StopJoin(t) ==
    /\ StopJoined(t)
    /\ Forget(t)
    /\ UNCHANGED <<deviceVars, starts, stops, samplerVars, refVars,
                   historyVars, fault>>

StopClose(t) ==
    /\ at[t] = "close"
    /\ handle' = 0
    /\ GoTo(t, "reset")
    /\ UNCHANGED <<device, terminated, callback, context, starts, stops, arg,
                   samplerVars, refVars, historyVars, fault>>

StopReset(t) ==
    /\ at[t] = "reset"
    /\ terminated' = FALSE
    /\ GoTo(t, "idle")
    /\ silent' = TRUE
    /\ UNCHANGED <<device, handle, callback, context, starts, stops, arg,
                   samplerVars, refVars, comFailed, misuse, fault>>

(* MFCap_FreeInstance, by a caller that stopped the device before.         *)
FreeInstance ==
    /\ device = "live" /\ silent
    /\ \A t \in Threads : at[t] = "idle"
    /\ device' = "freed"
    /\ UNCHANGED <<handle, terminated, callback, context, callVars,
                   samplerVars, refVars, historyVars, fault>>

(***************************************************************************)
(* The sampling thread.  What its routine keeps in local variables is gone *)
(* when it exits.                                                          *)
(***************************************************************************)
Place(n, place) == sampler' = [sampler EXCEPT ![n] = place]

(* CoInitialize fails: the thread gives up its context, not the reader.    *)
SampleInitialise(n) ==
    /\ sampler[n] = "starting"
    /\ \/ /\ Place(n, "loop")
          /\ UNCHANGED <<contextRefs, comFailed>>
       \/ /\ Place(n, "exited")
          /\ contextRefs' = [contextRefs EXCEPT ![n] = @ - 1]
          /\ comFailed' = comFailed \cup {n}
    /\ UNCHANGED <<deviceVars, callVars, failing, called, buffer, bufferRefs,
                   ticks, readerRefs, silent, misuse, fault>>

SampleLoop(n) ==
    /\ sampler[n] = "loop" /\ device = "live"
    /\ Place(n, IF terminated THEN "leave" ELSE "read")
    /\ UNCHANGED <<deviceVars, callVars, failing, called, buffer, bufferRefs,
                   ticks, refVars, historyVars, fault>>

(* A sample and its buffer: the sample, which is never released, holds a   *)
(* reference to the buffer, and so does the variable.  Lock may fail.      *)
SampleAndVariable == 2

SampleRead(n) ==
    /\ sampler[n] = "read"
    /\ ticks' = [ticks EXCEPT ![n] = 0]
    /\ buffer' = [buffer EXCEPT ![n] = "held"]
    /\ bufferRefs' = [bufferRefs EXCEPT ![n] = SampleAndVariable]
    /\ failing' \in {failing, [failing EXCEPT ![n] = TRUE]}
    /\ Place(n, IF failing'[n] THEN "release" ELSE "call")
    /\ UNCHANGED <<deviceVars, callVars, called, refVars, historyVars, fault>>

(* ConvertToContiguousBuffer fails: no buffer, no callback.                *)
SampleNotConverted(n) ==
    /\ sampler[n] = "read"
    /\ ticks' = [ticks EXCEPT ![n] = 0]
    /\ buffer' = [buffer EXCEPT ![n] = "null"]
    /\ failing' = [failing EXCEPT ![n] = TRUE]
    /\ Place(n, "release")
    /\ UNCHANGED <<deviceVars, callVars, called, bufferRefs, refVars,
                   historyVars, fault>>

(* The read succeeds without a sample, at a gap or the end of the stream:  *)
(* buffer keeps the pointer of the sample before.                          *)
SampleTick(n) ==
    /\ sampler[n] = "read"
    /\ ticks' = [ticks EXCEPT ![n] = IF @ < 2 THEN @ + 1 ELSE @]
    /\ Place(n, "call")
    /\ UNCHANGED <<deviceVars, callVars, failing, called, buffer, bufferRefs,
                   refVars, historyVars, fault>>

(* ReadSample fails: one last callback, and the loop ends.                 *)
SampleReadFails(n) ==
    /\ sampler[n] = "read"
    /\ failing' = [failing EXCEPT ![n] = TRUE]
    /\ Place(n, "call")
    /\ UNCHANGED <<deviceVars, callVars, called, buffer, bufferRefs, ticks,
                   refVars, historyVars, fault>>

SampleCallback(n) ==
    /\ sampler[n] = "call" /\ device = "live"
    /\ called' = [called EXCEPT ![n] = <<callback, context>>]
    /\ Place(n, "callback")
    /\ UNCHANGED <<deviceVars, callVars, failing, buffer, bufferRefs, ticks,
                   refVars, historyVars, fault>>

SampleCallbackReturns(n) ==
    /\ sampler[n] = "callback" /\ at[n] = "idle"
    /\ Place(n, IF failing[n] THEN "leave" ELSE "release")
    /\ called' = [called EXCEPT ![n] = <<0, 0>>]
    /\ UNCHANGED <<deviceVars, callVars, failing, buffer, bufferRefs, ticks,
                   refVars, historyVars, fault>>

AfterRelease(n) == IF failing[n] THEN "leave" ELSE "loop"

SampleRelease(n) ==
    /\ sampler[n] = "release"
    /\ IF buffer[n] = "null" THEN UNCHANGED <<buffer, bufferRefs>>
       ELSE /\ bufferRefs[n] > 0
            /\ bufferRefs' = [bufferRefs EXCEPT ![n] = @ - 1]
            /\ buffer' = [buffer EXCEPT ![n] = "stale"]
    /\ Place(n, AfterRelease(n))
    /\ UNCHANGED <<deviceVars, callVars, failing, called, ticks, refVars,
                   historyVars, fault>>

(* The buffer's last reference is gone already.                            *)
SampleReleaseFreed(n) ==
    /\ sampler[n] = "release" /\ buffer[n] # "null" /\ bufferRefs[n] = 0
    /\ fault' = "buffer"
    /\ UNCHANGED <<deviceVars, callVars, samplerVars, refVars, historyVars>>

(* The device is looked at after MFCap_FreeInstance.                       *)
SampleDeviceFreed(n) ==
    /\ sampler[n] \in {"loop", "call"} /\ device = "freed"
    /\ fault' = "device"
    /\ UNCHANGED <<deviceVars, callVars, samplerVars, refVars, historyVars>>

SampleLeave(n) ==
    /\ sampler[n] = "leave"
    /\ readerRefs' = [readerRefs EXCEPT ![n] = @ - 1]
    /\ contextRefs' = [contextRefs EXCEPT ![n] = @ - 1]
    /\ Place(n, "exited")
    /\ failing' = [failing EXCEPT ![n] = FALSE]
    /\ buffer' = [buffer EXCEPT ![n] = "null"]
    /\ bufferRefs' = [bufferRefs EXCEPT ![n] = 0]
    /\ ticks' = [ticks EXCEPT ![n] = 0]
    /\ UNCHANGED <<deviceVars, callVars, called, historyVars, fault>>

StartStep(t) ==
    StartCallback(t) \/ StartContext(t) \/ StartFails(t) \/ StartThread(t)
        \/ StartStore(t)

StopStep(t) == StopWait(t) \/ StopJoin(t) \/ StopClose(t) \/ StopReset(t)

SamplerStep(n) ==
    \/ SampleInitialise(n) \/ SampleLoop(n)
    \/ SampleRead(n) \/ SampleNotConverted(n) \/ SampleTick(n)
    \/ SampleReadFails(n)
    \/ SampleCallback(n) \/ SampleCallbackReturns(n)
    \/ SampleRelease(n) \/ SampleReleaseFreed(n) \/ SampleDeviceFreed(n)
    \/ SampleLeave(n)

ThreadStep(t) ==
    \/ StartStep(t) \/ StopStep(t)
    \/ t \in Samplers /\ SamplerStep(t)

Next ==
    /\ fault = "none"
    /\ \/ \E t \in Threads :
             StartReader(t) \/ StopTerminate(t) \/ ThreadStep(t)
       \/ FreeInstance

Spec == Init /\ [][Next]_vars

(* The sampling threads run, ReadSample and the callbacks return, and a    *)
(* call that was begun goes on.                                            *)
Fairness == \A t \in Threads : WF_vars(fault = "none" /\ ThreadStep(t))

FairSpec == Spec /\ Fairness

-----------------------------------------------------------------------------
CallPoints == {"idle", "callback", "context", "create", "store", "wait",
               "waiting", "close", "reset"}

SamplerPoints == {"none", "starting", "loop", "read", "call", "callback",
                  "release", "leave", "exited"}

(* Every variable has its type.                                            *)
TypeOK ==
    /\ device \in {"live", "freed"} /\ terminated \in BOOLEAN
    /\ {handle, callback, context, starts} \subseteq 0 .. MaxStarts
    /\ stops \in 0 .. MaxStops
    /\ at \in [Threads -> CallPoints]
    /\ arg \in [Threads -> 0 .. MaxStarts]
    /\ sampler \in [Samplers -> SamplerPoints]
    /\ failing \in [Samplers -> BOOLEAN]
    /\ called \in [Samplers -> (0 .. MaxStarts) \X (0 .. MaxStarts)]
    /\ buffer \in [Samplers -> {"null", "held", "stale"}]
    /\ bufferRefs \in [Samplers -> 0 .. 2] /\ ticks \in [Samplers -> 0 .. 2]
    /\ readerRefs \in [Samplers -> 0 .. 2]
    /\ contextRefs \in [Samplers -> 0 .. 2]
    /\ silent \in BOOLEAN /\ comFailed \in SUBSET Samplers
    /\ misuse \in SUBSET {"overlap", "restart"}
    /\ fault \in {"none", "buffer", "device"}

(* The calls came in an order the code is written for: no Start of a       *)
(* device whose thread runs, no Start or Stop while another is going on.   *)
Orderly == misuse \cap {"restart", "overlap"} = {}

(* After Stop has returned no sampling thread is left, so nothing calls    *)
(* back and nothing looks at a device freed then.  That takes callers that *)
(* do not start a device twice and do not start it while they stop it      *)
(* (mfcap.cpp:252, 272-276).                                               *)
StoppedIsQuiet ==
    Orderly /\ silent /\ (\A t \in Threads : at[t] = "idle") => Running = {}

(* A sampling thread calls the callback its own Start was given, with the  *)
(* context that belongs to it.                                             *)
OwnCallback ==
    \A n \in Samplers :
        sampler[n] = "callback" /\ called[n] # <<n, n>> => ~Orderly

(* References to the reader and to the thread's context: those of a Start  *)
(* in progress and that of the thread, which keeps the reader for ever if  *)
(* CoInitialize failed.                                                    *)
Starting == {t \in Threads : at[t] \in {"callback", "context", "create",
                                        "store"}}

Starter(n) == {t \in Starting : arg[t] = n}

ReadersCounted ==
    \A n \in Samplers :
        /\ readerRefs[n] = Cardinality(Starter(n))
              + (IF n \in Running \cup comFailed THEN 1 ELSE 0)
        /\ contextRefs[n] = (IF n \in Running THEN 1 ELSE 0)
              + (IF \E t \in Starter(n) : at[t] = "store" THEN 1 ELSE 0)

(* A buffer is released after it was freed only at the second of two reads *)
(* in a row without a sample: each of them drops a reference that belongs  *)
(* to the sample before (mfcap.cpp:68, 77-82).  A Stop waits for a thread  *)
(* not told to terminate only if calls of Start and Stop overlap: one that *)
(* ends resets the flag another one has set (mfcap.cpp:272-276).  A thread *)
(* finds the device freed only if the calls were out of order.             *)
FaultCauses ==
    /\ fault = "buffer" => \E n \in Samplers : ticks[n] = 2
    /\ fault = "device" => ~Orderly
    /\ \A t \in Threads :
        (at[t] = "waiting" /\ arg[t] \in Running /\ ~terminated) =>
            "overlap" \in misuse

(* Stop returns, unless a callback stops its own thread, which then waits  *)
(* for itself, or calls overlapped (mfcap.cpp:273).  Calls are bounded, so *)
(* a time when nobody waits comes if and only if each wait ends.           *)
Waiting == {t \in Threads : at[t] = "waiting" /\ arg[t] # t}

StopReturns ==
    (Waiting # {}) ~>
        (Waiting = {} \/ fault # "none" \/ "overlap" \in misuse)
=============================================================================

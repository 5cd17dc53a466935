--------------------------- MODULE MFCaptureProofs ---------------------------
(***************************************************************************)
(* Proofs about sampling (MFCapture): types, who holds the references to   *)
(* the source readers and the thread contexts, what is left running when   *)
(* calls come in order, and what undefined behaviour there can be.         *)
(***************************************************************************)
EXTENDS MFCapture, FiniteSetTheorems, TLAPS

(***************************************************************************)
(* The inductive invariant.                                                *)
(***************************************************************************)
(* A Start in progress has a number of its own, whose thread exists once   *)
(* there is a handle to store.                                             *)
StartInv ==
    /\ \A t \in Starting :
        /\ arg[t] \in 1 .. starts
        /\ sampler[arg[t]] = "none" <=> at[t] # "store"
        /\ \A u \in Starting : arg[u] = arg[t] => u = t
    /\ \A n \in Samplers :
        /\ n > starts => sampler[n] = "none"
        /\ n \in comFailed => sampler[n] = "exited"

(* Two calls in progress are an overlap, and without one the flag set by a *)
(* Stop stands until its end.  Nobody is in a call on a freed device.      *)
CallInv ==
    /\ \A t, u \in Threads :
        t # u /\ at[t] # "idle" /\ at[u] # "idle" => "overlap" \in misuse
    /\ \A t \in Threads :
        at[t] \in {"wait", "waiting", "close", "reset"} =>
            terminated \/ "overlap" \in misuse
    /\ device = "freed" => silent /\ \A t \in Threads : at[t] = "idle"

(* What a thread may still release of its buffer, or the reads in a row    *)
(* without a sample that spent it.                                         *)
MayRelease(n) ==
    sampler[n] = "release" \/ (sampler[n] \in {"call", "callback"} /\ ~failing[n])

BufferInv ==
    \A n \in Samplers : buffer[n] # "null" =>
        bufferRefs[n] + ticks[n] >= IF MayRelease(n) THEN 2 ELSE 1

(* The threads that run while calls come in order: at most one, known to   *)
(* the device or to the call in progress, with its callback in the device. *)
InOrder ==
    /\ silent => Running = {}
    /\ \A t \in Threads :
        /\ at[t] \in {"callback", "context", "create", "close", "reset"} =>
                Running = {}
        /\ at[t] \in {"store", "waiting"} => Running \subseteq {arg[t]}
        /\ at[t] \in {"context", "create"} => callback = arg[t]
        /\ at[t] = "create" => context = arg[t]
        /\ t \in Starting => ~silent
    /\ (\A t \in Threads : at[t] # "store") => Running \subseteq {handle}
    /\ \A n \in Running :
        /\ callback = n /\ context = n
        /\ sampler[n] = "callback" => called[n] = <<n, n>>

OrderInv == Orderly => InOrder

IInv ==
    /\ ReadersCounted /\ StartInv /\ CallInv /\ BufferInv /\ OrderInv
    /\ FaultCauses
-----------------------------------------------------------------------------
(* A set in which there are no two elements has none or one.               *)
LEMMA AtMostOne ==
    ASSUME NEW S, \A x, y \in S : x = y
    PROVE  Cardinality(S) = IF S = {} THEN 0 ELSE 1
<1>1. CASE S = {}
  BY <1>1, FS_EmptySet
<1>2. CASE S # {}
  <2>1. PICK x \in S : TRUE
    BY <1>2
  <2>2. S = {x}
    BY <2>1
  <2>. QED BY <1>2, <2>2, FS_Singleton
<1>. QED BY <1>1, <1>2

(* The references the calls of Start in progress have to a reader.         *)
Held(n) == IF Starter(n) = {} THEN 0 ELSE 1

(* At most one call of Start works for a number.                           *)
LEMMA HeldOnce ==
    ASSUME StartInv, NEW n \in Samplers
    PROVE  Cardinality(Starter(n)) = Held(n)
<1>1. \A t, u \in Starter(n) : t = u
  BY DEF Starter, StartInv
<1>. QED BY <1>1, AtMostOne DEF Held

(* The numbers in use are numbers of samplers.                             *)
LEMMA NumberOfSampler ==
    ASSUME CaptureAssumption, TypeOK, StartInv, NEW t \in Starting
    PROVE  /\ t \in Threads /\ arg[t] \in Samplers /\ arg[t] <= starts
           /\ starts \in Nat /\ MaxStarts \in Nat
BY DEF CaptureAssumption, TypeOK, StartInv, Starting, Samplers

(* What all steps of a sampling thread have in common.                     *)
LEMMA SamplerMoves ==
    ASSUME TypeOK, NEW n \in Samplers, SamplerStep(n)
    PROVE  /\ UNCHANGED <<deviceVars, callVars, silent, misuse>>
           /\ sampler[n] \notin {"none", "exited"}
           /\ sampler' = [sampler EXCEPT ![n] = sampler'[n]]
           /\ sampler'[n] \in {"loop", "read", "call", "callback", "release",
                               "leave", "exited", sampler[n]}
           /\ sampler'[n] # "exited" => comFailed' = comFailed
           /\ comFailed' \subseteq comFailed \cup {n}
<1>. USE DEF CallPoints, SamplerPoints
<1>. USE DEF TypeOK, Place, samplerVars, historyVars
<1>1. CASE SampleInitialise(n)
  BY <1>1 DEF SampleInitialise
<1>2. CASE SampleLoop(n)
  BY <1>2 DEF SampleLoop
<1>3. CASE SampleRead(n)
  BY <1>3 DEF SampleRead
<1>4. CASE SampleNotConverted(n)
  BY <1>4 DEF SampleNotConverted
<1>5. CASE SampleTick(n)
  BY <1>5 DEF SampleTick
<1>6. CASE SampleReadFails(n)
  BY <1>6 DEF SampleReadFails
<1>7. CASE SampleCallback(n)
  BY <1>7 DEF SampleCallback
<1>8. CASE SampleCallbackReturns(n)
  BY <1>8 DEF SampleCallbackReturns
<1>9. CASE SampleRelease(n)
  BY <1>9 DEF SampleRelease, AfterRelease
<1>10. CASE SampleReleaseFreed(n)
  BY <1>10 DEF SampleReleaseFreed
<1>11. CASE SampleDeviceFreed(n)
  BY <1>11 DEF SampleDeviceFreed
<1>12. CASE SampleLeave(n)
  BY <1>12 DEF SampleLeave
<1>. QED BY <1>1, <1>2, <1>3, <1>4, <1>5, <1>6, <1>7, <1>8, <1>9, <1>10, <1>11,
            <1>12
            DEF SamplerStep

(* A Start in progress keeps its number to itself.                         *)
LEMMA StartStepInv ==
    ASSUME CaptureAssumption, TypeOK, StartInv, [Next]_vars
    PROVE  StartInv'
<1>. USE DEF CallPoints, SamplerPoints
<1>. USE DEF Starting
<1>1. CASE UNCHANGED vars
  BY <1>1 DEF StartInv, vars, callVars, samplerVars, historyVars
<1>2. CASE FreeInstance
  BY <1>2 DEF FreeInstance, StartInv, callVars, samplerVars, historyVars
<1>3. ASSUME NEW t \in Threads,
             StartReader(t) \/ StopTerminate(t) \/ StartStep(t) \/ StopStep(t)
      PROVE  StartInv'
  <2>1. CASE StartReader(t)
    <3>1. /\ starts' = starts + 1 /\ starts \in Nat /\ sampler' = sampler
          /\ comFailed' = comFailed
      BY <2>1 DEF StartReader, TypeOK, samplerVars
    <3>2. \A n \in Samplers :
        /\ n > starts' => sampler[n] = "none"
        /\ n \in comFailed => sampler[n] = "exited"
      BY <3>1 DEF StartInv, Samplers
    <3>3. CASE UNCHANGED <<at, arg>>
      BY <3>1, <3>2, <3>3 DEF StartInv
    <3>4. CASE GoTo(t, "callback") /\ arg' = [arg EXCEPT ![t] = starts + 1]
      <4>1. starts + 1 \in Samplers
        BY <2>1, <3>1 DEF StartReader, Samplers, CaptureAssumption
      <4>2. sampler[starts + 1] = "none"
        BY <4>1, <3>1 DEF StartInv
      <4>3. \A u \in Threads :
                /\ at'[u] = IF u = t THEN "callback" ELSE at[u]
                /\ arg'[u] = IF u = t THEN starts + 1 ELSE arg[u]
        BY <3>4 DEF TypeOK, GoTo
      <4>. QED BY <3>1, <3>2, <4>1, <4>2, <4>3 DEF StartInv
    <3>. QED BY <2>1, <3>3, <3>4 DEF StartReader
  <2>2. CASE StartCallback(t)
    BY <2>2 DEF StartCallback, GoTo, TypeOK, StartInv, samplerVars, historyVars
  <2>3. CASE StartContext(t)
    BY <2>3 DEF StartContext, GoTo, TypeOK, StartInv, samplerVars, historyVars
  <2>4. CASE StartFails(t)
    BY <2>4
       DEF StartFails, GoTo, Forget, TypeOK, StartInv, samplerVars, historyVars
  <2>5. CASE StartThread(t)
    <3>1. /\ t \in Starting /\ at[t] = "create"
          /\ arg[t] \in Samplers /\ arg[t] <= starts
      BY <2>5, NumberOfSampler DEF StartThread
    <3>2. /\ arg' = arg /\ comFailed' = comFailed /\ starts' = starts
          /\ \A u \in Threads : at'[u] = IF u = t THEN "store" ELSE at[u]
          /\ \A n \in Samplers :
                sampler'[n] = IF n = arg[t] THEN "starting" ELSE sampler[n]
      BY <2>5 DEF StartThread, GoTo, TypeOK, historyVars
    <3>3. \A u \in Starting' : u \in Starting
      BY <3>1, <3>2
    <3>4. \A u \in Starting : arg[u] \in Samplers
      BY NumberOfSampler
    <3>5. \A u \in Starting' :
            /\ arg'[u] \in 1 .. starts'
            /\ sampler'[arg'[u]] = "none" <=> at'[u] # "store"
            /\ \A v \in Starting' : arg'[v] = arg'[u] => v = u
      <4>. SUFFICES ASSUME NEW u \in Starting, u # t
                    PROVE  sampler'[arg[u]] = sampler[arg[u]]
        BY <3>1, <3>2, <3>3 DEF StartInv
      <4>. QED BY <3>1, <3>2, <3>4 DEF StartInv
    <3>6. \A m \in Samplers :
            /\ m > starts' => sampler'[m] = "none"
            /\ m \in comFailed' => sampler'[m] = "exited"
      <4>1. sampler[arg[t]] = "none"
        BY <3>1 DEF StartInv
      <4>2. starts \in Nat /\ \A m \in Samplers : m \in Nat
        BY DEF TypeOK, Samplers
      <4>. QED BY <3>1, <3>2, <4>1, <4>2 DEF StartInv
    <3>. QED BY <3>5, <3>6 DEF StartInv
  <2>6. CASE StartStore(t)
    BY <2>6
       DEF StartStore, GoTo, Forget, TypeOK, StartInv, samplerVars, historyVars
  <2>7. CASE StopTerminate(t)
    BY <2>7 DEF StopTerminate, MayCall, GoTo, TypeOK, StartInv, samplerVars
  <2>8. CASE StopWait(t)
    BY <2>8 DEF StopWait, GoTo, TypeOK, StartInv, samplerVars, historyVars
  <2>9. CASE StopJoin(t)
    BY <2>9
       DEF StopJoin, StopJoined, GoTo, Forget, TypeOK, StartInv, samplerVars, 
           historyVars
  <2>10. CASE StopClose(t)
    BY <2>10 DEF StopClose, GoTo, TypeOK, StartInv, samplerVars, historyVars
  <2>11. CASE StopReset(t)
    BY <2>11 DEF StopReset, GoTo, TypeOK, StartInv, samplerVars
  <2>. QED BY <1>3, <2>1, <2>2, <2>3, <2>4, <2>5, <2>6, <2>7, <2>8, <2>9,
              <2>10, <2>11
              DEF StartStep, StopStep
<1>4. ASSUME NEW n \in Samplers, SamplerStep(n)
      PROVE  StartInv'
  <2>1. \A m \in Samplers :
            sampler'[m] = IF m = n THEN sampler'[n] ELSE sampler[m]
    BY <1>4, SamplerMoves DEF TypeOK
  <2>2. /\ UNCHANGED <<at, arg, starts>>
        /\ sampler[n] \notin {"none", "exited"}
        /\ sampler'[n] # "none"
        /\ sampler'[n] # "exited" => comFailed' = comFailed
        /\ comFailed' \subseteq comFailed \cup {n}
    BY <1>4, SamplerMoves DEF callVars
  <2>3. Starting' = Starting /\ \A t \in Starting : arg[t] \in Samplers
    BY <2>2, NumberOfSampler
  <2>4. \A t \in Starting' :
          /\ arg'[t] \in 1 .. starts'
          /\ sampler'[arg'[t]] = "none" <=> at'[t] # "store"
          /\ \A u \in Starting' : arg'[u] = arg'[t] => u = t
    <3>. SUFFICES ASSUME NEW t \in Starting
                  PROVE  sampler'[arg[t]] = "none" <=> sampler[arg[t]] = "none"
      BY <2>2, <2>3 DEF StartInv
    <3>. QED BY <2>1, <2>2, <2>3
  <2>5. \A m \in Samplers :
          /\ m > starts' => sampler'[m] = "none"
          /\ m \in comFailed' => sampler'[m] = "exited"
    BY <1>4, <2>1, <2>2 DEF StartInv
  <2>. QED BY <2>4, <2>5 DEF StartInv
<1>. QED BY <1>1, <1>2, <1>3, <1>4 DEF Next, ThreadStep

(* The references in terms of who holds one.                               *)
Stored(n) == \E t \in Starter(n) : at[t] = "store"

RefsHeld(n) ==
    /\ readerRefs[n] = Held(n)
          + (IF n \in Running \cup comFailed THEN 1 ELSE 0)
    /\ contextRefs[n] = (IF n \in Running THEN 1 ELSE 0)
          + (IF Stored(n) THEN 1 ELSE 0)

(* Every step keeps the references counted.  The steps that create a       *)
(* reader, a thread or a handle, and those that end one, are taken apart   *)
(* by whether the number in question is theirs.                            *)
LEMMA RefStep ==
    ASSUME CaptureAssumption, TypeOK, StartInv, StartInv', ReadersCounted,
           [Next]_vars
    PROVE  ReadersCounted'
<1>. USE DEF CallPoints, SamplerPoints
<1>. SUFFICES ASSUME NEW n \in Samplers
              PROVE  RefsHeld(n)'
  <2>1. ASSUME NEW n \in Samplers PROVE Cardinality(Starter(n)') = Held(n)'
    <3>1. \A t, u \in Starter(n)' : t = u
      BY DEF Starter, StartInv
    <3>. QED BY <3>1, AtMostOne DEF Held
  <2>. QED BY <2>1 DEF RefsHeld, ReadersCounted, Stored
<1>0. RefsHeld(n)
  BY HeldOnce DEF RefsHeld, ReadersCounted, Stored
<1>a. /\ at \in [Threads -> CallPoints]
      /\ arg \in [Threads -> 0 .. MaxStarts]
      /\ readerRefs \in [Samplers -> 0 .. 2]
      /\ contextRefs \in [Samplers -> 0 .. 2]
      /\ DOMAIN sampler = Samplers
  BY DEF TypeOK
<1>1. ASSUME UNCHANGED <<readerRefs, contextRefs, sampler, comFailed>>,
             Starter(n)' = Starter(n), Stored(n)' <=> Stored(n)
      PROVE  RefsHeld(n)'
  BY <1>0, <1>1 DEF RefsHeld, Held, Running
<1>2. CASE UNCHANGED vars \/ FreeInstance
  BY <1>1, <1>2
     DEF vars, FreeInstance, refVars, callVars, samplerVars, historyVars,
         Starter, Starting, Stored
<1>3. ASSUME NEW t \in Threads,
             StartReader(t) \/ StopTerminate(t) \/ StartStep(t) \/ StopStep(t)
      PROVE  RefsHeld(n)'
  <2>1. CASE StartReader(t)
    <3>1. CASE UNCHANGED <<at, arg, readerRefs>>
      BY <1>1, <2>1, <3>1
         DEF StartReader, samplerVars, Starter, Starting, Stored
    <3>2. CASE /\ readerRefs' = [readerRefs EXCEPT ![starts + 1] = 1]
               /\ arg' = [arg EXCEPT ![t] = starts + 1]
               /\ GoTo(t, "callback")
      <4>1. /\ sampler' = sampler /\ comFailed' = comFailed
            /\ contextRefs' = contextRefs /\ at[t] = "idle"
        BY <2>1 DEF StartReader, MayCall, samplerVars
      <4>2. \A u \in Threads :
                /\ at'[u] = IF u = t THEN "callback" ELSE at[u]
                /\ arg'[u] = IF u = t THEN starts + 1 ELSE arg[u]
        BY <1>a, <3>2 DEF GoTo
      <4>3. CASE n # starts + 1
        <5>1. Starter(n)' = Starter(n) /\ (Stored(n)' <=> Stored(n))
          BY <4>1, <4>2, <4>3 DEF Starter, Starting, Stored
        <5>2. readerRefs'[n] = readerRefs[n]
          BY <1>a, <3>2, <4>3
        <5>. QED BY <1>0, <4>1, <5>1, <5>2 DEF RefsHeld, Held, Running
      <4>4. CASE n = starts + 1
        <5>1. Starter(n)' # {} /\ ~Stored(n)' /\ Starter(n) = {} /\ ~Stored(n)
          BY <4>1, <4>2, <4>4 DEF Starter, Starting, Stored, StartInv, TypeOK
        <5>2. sampler[n] = "none" /\ n \notin comFailed
          BY <4>4 DEF StartInv, TypeOK
        <5>. QED BY <1>0, <1>a, <3>2, <4>1, <4>4, <5>1, <5>2
                    DEF RefsHeld, Held, Running
      <4>. QED BY <4>3, <4>4
    <3>. QED BY <2>1, <3>1, <3>2 DEF StartReader
  <2>2. CASE StartCallback(t) \/ StartContext(t)
    <3>1. /\ at[t] \in {"callback", "context"}
          /\ at'[t] \in {"context", "create"}
          /\ \A u \in Threads \ {t} : at'[u] = at[u]
          /\ arg' = arg
          /\ UNCHANGED <<sampler, comFailed, readerRefs, contextRefs>>
      BY <1>a, <2>2
         DEF StartCallback, StartContext, GoTo, samplerVars, historyVars, 
             refVars
    <3>2. Starter(n)' = Starter(n) /\ (Stored(n)' <=> Stored(n))
      BY <3>1 DEF Starter, Starting, Stored
    <3>. QED BY <1>1, <3>1, <3>2
  <2>3. CASE StartFails(t) \/ StartStore(t)
    <3>1. /\ at[t] \in {"create", "store"} /\ arg[t] \in Samplers
          /\ \A u \in Threads : at'[u] = (IF u = t THEN "idle" ELSE at[u])
                              /\ arg'[u] = (IF u = t THEN 0 ELSE arg[u])
          /\ UNCHANGED <<sampler, comFailed>>
          /\ readerRefs' = [readerRefs EXCEPT ![arg[t]] = @ - 1]
          /\ IF at[t] = "store"
             THEN contextRefs' = [contextRefs EXCEPT ![arg[t]] = @ - 1]
             ELSE UNCHANGED contextRefs
      BY <1>a, <2>3, NumberOfSampler
         DEF StartFails, StartStore, GoTo, Forget, samplerVars, historyVars,
             Starting
    <3>2. CASE n # arg[t]
      <4>1. Starter(n)' = Starter(n) /\ (Stored(n)' <=> Stored(n))
        BY <3>1, <3>2 DEF Starter, Starting, Stored, Samplers
      <4>. QED BY <1>0, <1>a, <3>1, <3>2, <4>1 DEF RefsHeld, Held, Running
    <3>3. CASE n = arg[t]
      <4>1. Starter(n) # {} /\ (Stored(n) <=> at[t] = "store")
        BY <3>1, <3>3 DEF Starter, Starting, Stored, StartInv
      <4>2. Starter(n)' = {} /\ ~Stored(n)'
        BY <3>1, <3>3 DEF Starter, Starting, Stored, StartInv, Samplers
      <4>. QED BY <1>0, <1>a, <3>1, <3>3, <4>1, <4>2
                  DEF RefsHeld, Held, Running
    <3>. QED BY <3>2, <3>3
  <2>4. CASE StartThread(t)
    <3>1. /\ at[t] = "create" /\ arg[t] \in Samplers /\ arg' = arg
          /\ \A u \in Threads : at'[u] = IF u = t THEN "store" ELSE at[u]
          /\ \A m \in Samplers :
                sampler'[m] = IF m = arg[t] THEN "starting" ELSE sampler[m]
          /\ readerRefs' = [readerRefs EXCEPT ![arg[t]] = @ + 1]
          /\ contextRefs' = [contextRefs EXCEPT ![arg[t]] = 2]
          /\ comFailed' = comFailed
      BY <1>a, <2>4, NumberOfSampler
         DEF StartThread, GoTo, historyVars, Starting
    <3>2. Starter(n)' = Starter(n)
      BY <3>1 DEF Starter, Starting
    <3>3. CASE n # arg[t]
      <4>1. Stored(n)' <=> Stored(n)
        BY <3>1, <3>2, <3>3 DEF Starter, Starting, Stored
      <4>. QED BY <1>0, <1>a, <3>1, <3>2, <3>3, <4>1
                  DEF RefsHeld, Held, Running
    <3>4. CASE n = arg[t]
      <4>1. t \in Starter(n) /\ Stored(n)'
        BY <3>1, <3>2, <3>4 DEF Starter, Starting, Stored
      <4>2. sampler[n] = "none" /\ n \notin comFailed
        BY <3>1, <3>4, <4>1 DEF Starter, StartInv
      <4>. QED BY <1>0, <1>a, <3>1, <3>2, <3>4, <4>1, <4>2
                  DEF RefsHeld, Held, Running
    <3>. QED BY <3>3, <3>4
  <2>5. CASE StopTerminate(t) \/ StopStep(t)
    <3>1. /\ at[t] \in {"idle", "wait", "waiting", "close", "reset"}
          /\ at'[t] \in {"idle", "wait", "waiting", "close", "reset"}
          /\ \A u \in Threads \ {t} : at'[u] = at[u] /\ arg'[u] = arg[u]
          /\ UNCHANGED <<sampler, comFailed, readerRefs, contextRefs>>
      BY <1>a, <2>5
         DEF StopTerminate, StopStep, StopWait, StopJoin, StopJoined,
             StopClose, StopReset, MayCall, GoTo, Forget, samplerVars, 
             historyVars, refVars
    <3>2. Starter(n)' = Starter(n) /\ (Stored(n)' <=> Stored(n))
      BY <3>1 DEF Starter, Starting, Stored
    <3>. QED BY <1>1, <3>1, <3>2
  <2>. QED BY <1>3, <2>1, <2>2, <2>3, <2>4, <2>5 DEF StartStep
<1>4. ASSUME NEW m \in Samplers, SamplerStep(m)
      PROVE  RefsHeld(n)'
  <2>1. /\ UNCHANGED <<at, arg>> /\ sampler[m] \notin {"none", "exited"}
        /\ \A k \in Samplers :
              sampler'[k] = IF k = m THEN sampler'[m] ELSE sampler[k]
        /\ sampler'[m] # "none"
    BY <1>4, <1>a, SamplerMoves DEF callVars
  <2>2. Starter(n)' = Starter(n) /\ (Stored(n)' <=> Stored(n))
    BY <2>1 DEF Starter, Starting, Stored
  <2>3. m \notin comFailed
    BY <2>1 DEF StartInv
  <2>4. CASE SampleInitialise(m)
    BY <1>0, <1>a, <2>1, <2>2, <2>3, <2>4
       DEF SampleInitialise, Place, RefsHeld, Held, Running
  <2>5. CASE SampleLeave(m)
    BY <1>0, <1>a, <2>1, <2>2, <2>3, <2>5
       DEF SampleLeave, Place, RefsHeld, Held, Running, historyVars
  <2>6. CASE ~SampleInitialise(m) /\ ~SampleLeave(m)
    <3>1. /\ sampler'[m] \notin {"none", "exited"}
          /\ UNCHANGED <<readerRefs, contextRefs, comFailed>>
      BY <1>4, <1>a, <2>1, <2>6
         DEF SamplerStep, SampleLoop, SampleRead, SampleNotConverted,
             SampleTick, SampleReadFails, SampleCallback,
             SampleCallbackReturns, SampleRelease, SampleReleaseFreed,
             SampleDeviceFreed, Place, AfterRelease, samplerVars, refVars, 
             historyVars
    <3>. QED BY <1>0, <2>1, <2>2, <2>3, <3>1 DEF RefsHeld, Held, Running
  <2>. QED BY <2>4, <2>5, <2>6
<1>. QED BY <1>2, <1>3, <1>4 DEF Next, ThreadStep

(* The counts bound what the references can be.                            *)
LEMMA RefRange ==
    ASSUME StartInv, ReadersCounted, NEW n \in Samplers
    PROVE  readerRefs[n] \in 0 .. 2 /\ contextRefs[n] \in 0 .. 2
<1>1. Cardinality(Starter(n)) \in 0 .. 1
  BY HeldOnce DEF Held
<1>. QED BY <1>1 DEF ReadersCounted

(* An array stays one of its type when an element is replaced.             *)
LEMMA Updated ==
    ASSUME NEW S, NEW T, NEW f \in [S -> T], NEW x, NEW y \in T
    PROVE  [f EXCEPT ![x] = y] \in [S -> T]
OBVIOUS

(* Every step keeps the types; for the references by what they count.      *)
LEMMA TypeStep ==
    ASSUME CaptureAssumption, TypeOK, StartInv, ReadersCounted, StartInv',
           ReadersCounted', [Next]_vars
    PROVE  TypeOK'
<1>. USE DEF CallPoints, SamplerPoints
<1>1. CASE UNCHANGED vars
  BY <1>1
     DEF TypeOK, vars, deviceVars, callVars, samplerVars, refVars, historyVars
<1>2. CASE FreeInstance
  BY <1>2 DEF TypeOK, FreeInstance, callVars, samplerVars, refVars, historyVars
<1>3. ASSUME NEW t \in Threads,
             StartReader(t) \/ StopTerminate(t) \/ StartStep(t) \/ StopStep(t)
      PROVE  TypeOK'
  <2>1. CASE StartReader(t)
    <3>1. misuse' \in SUBSET {"overlap", "restart"}
      BY <2>1 DEF StartReader, Overlaps, TypeOK
    <3>2. starts' \in 0 .. MaxStarts /\ starts' = starts + 1
      BY <2>1 DEF StartReader, CaptureAssumption, TypeOK
    <3>3. /\ UNCHANGED <<deviceVars, stops, samplerVars, contextRefs,
                         comFailed, fault>>
          /\ silent' = FALSE
      BY <2>1 DEF StartReader
    <3>4. /\ at' \in [Threads -> CallPoints]
          /\ arg' \in [Threads -> 0 .. MaxStarts]
          /\ readerRefs' \in [Samplers -> 0 .. 2]
      <4>1. /\ at \in [Threads -> CallPoints]
            /\ arg \in [Threads -> 0 .. MaxStarts]
            /\ readerRefs \in [Samplers -> 0 .. 2]
        BY DEF TypeOK
      <4>2. CASE UNCHANGED <<at, arg, readerRefs>>
        BY <4>1, <4>2
      <4>3. CASE /\ readerRefs' = [readerRefs EXCEPT ![starts + 1] = 1]
                 /\ arg' = [arg EXCEPT ![t] = starts + 1]
                 /\ GoTo(t, "callback")
        BY <3>2, <4>1, <4>3, Updated DEF GoTo
      <4>. QED BY <2>1, <4>2, <4>3 DEF StartReader
    <3>5. {handle', callback', context', starts'} \subseteq 0 .. MaxStarts
      BY <3>2, <3>3 DEF TypeOK, deviceVars
    <3>6. stops' \in 0 .. MaxStops /\ contextRefs' \in [Samplers -> 0 .. 2]
          /\ comFailed' \in SUBSET Samplers
      BY <3>3 DEF TypeOK
    <3>7. called' \in [Samplers -> (0 .. MaxStarts) \X (0 .. MaxStarts)]
      BY <3>3 DEF TypeOK, samplerVars
    <3>. QED BY <3>1, <3>3, <3>4, <3>5, <3>6, <3>7
                DEF TypeOK, deviceVars, samplerVars
  <2>. USE DEF TypeOK, GoTo, Forget, deviceVars, callVars, samplerVars,
               refVars, historyVars
  <2>2. CASE StartCallback(t)
    BY <2>2 DEF StartCallback
  <2>3. CASE StartContext(t)
    BY <2>3 DEF StartContext
  <2>4. CASE StartFails(t)
    <3>1. arg[t] \in Samplers /\ readerRefs[arg[t]] \in 1 .. 2
      <4>1. t \in Starter(arg[t]) /\ arg[t] \in Samplers
        BY <2>4, NumberOfSampler DEF StartFails, Starting, Starter
      <4>2. Cardinality(Starter(arg[t])) = 1
        BY <4>1, HeldOnce DEF Held
      <4>. QED BY <4>1, <4>2, RefRange DEF ReadersCounted
    <3>. QED BY <2>4, <3>1 DEF StartFails, CaptureAssumption
  <2>5. CASE StartThread(t)
    <3>1. arg[t] \in Samplers /\ readerRefs[arg[t]] \in 0 .. 1
      <4>1. /\ t \in Starter(arg[t]) /\ arg[t] \in Samplers
            /\ sampler[arg[t]] = "none"
        BY <2>5, NumberOfSampler DEF StartThread, Starting, Starter, StartInv
      <4>2. Cardinality(Starter(arg[t])) = 1
        BY <4>1, HeldOnce DEF Held
      <4>. QED BY <4>1, <4>2 DEF ReadersCounted, Running, StartInv
    <3>. QED BY <2>5, <3>1 DEF StartThread
  <2>6. CASE StartStore(t)
    <3>1. /\ arg[t] \in Samplers /\ readerRefs[arg[t]] \in 1 .. 2
          /\ contextRefs[arg[t]] \in 1 .. 2
      <4>1. t \in Starter(arg[t]) /\ arg[t] \in Samplers /\ at[t] = "store"
        BY <2>6, NumberOfSampler DEF StartStore, Starting, Starter
      <4>2. Cardinality(Starter(arg[t])) = 1
        BY <4>1, HeldOnce DEF Held
      <4>. QED BY <4>1, <4>2, RefRange DEF ReadersCounted
    <3>. QED BY <2>6, <3>1 DEF StartStore
  <2>7. CASE StopTerminate(t)
    BY <2>7 DEF StopTerminate, SetFlag, Overlaps, CaptureAssumption
  <2>8. CASE StopWait(t)
    BY <2>8 DEF StopWait
  <2>9. CASE StopJoin(t)
    BY <2>9 DEF StopJoin, StopJoined, CaptureAssumption
  <2>10. CASE StopClose(t)
    BY <2>10 DEF StopClose, CaptureAssumption
  <2>11. CASE StopReset(t)
    BY <2>11 DEF StopReset
  <2>. QED BY <1>3, <2>1, <2>2, <2>3, <2>4, <2>5, <2>6, <2>7, <2>8, <2>9,
              <2>10, <2>11
              DEF StartStep, StopStep
<1>4. ASSUME NEW n \in Samplers, SamplerStep(n)
      PROVE  TypeOK'
  <2>. USE DEF TypeOK, Place, deviceVars, callVars, samplerVars, refVars,
               historyVars
  <2>0. /\ contextRefs[n] \in 1 .. 2 /\ readerRefs[n] \in 1 .. 2
        /\ n \notin comFailed
    <3>1. n \in Running
      BY <1>4, SamplerMoves DEF Running
    <3>. QED BY <3>1, RefRange, HeldOnce
                DEF ReadersCounted, Held, StartInv, Running
  <2>1. CASE SampleInitialise(n)
    <3>1. CASE Place(n, "loop") /\ UNCHANGED <<contextRefs, comFailed>>
      BY <2>1, <3>1 DEF SampleInitialise
    <3>2. CASE /\ Place(n, "exited")
               /\ contextRefs' = [contextRefs EXCEPT ![n] = @ - 1]
               /\ comFailed' = comFailed \cup {n}
      BY <2>0, <2>1, <3>2 DEF SampleInitialise
    <3>. QED BY <2>1, <3>1, <3>2 DEF SampleInitialise
  <2>2. CASE SampleLoop(n)
    BY <2>2 DEF SampleLoop
  <2>3. CASE SampleRead(n)
    <3>1. failing' \in [Samplers -> BOOLEAN]
      BY <2>3 DEF SampleRead
    <3>2. /\ bufferRefs' \in [Samplers -> 0 .. 2]
          /\ ticks' \in [Samplers -> 0 .. 2]
          /\ buffer' \in [Samplers -> {"null", "held", "stale"}]
      BY <2>3 DEF SampleRead, SampleAndVariable
    <3>3. sampler' \in [Samplers -> SamplerPoints]
      BY <2>3 DEF SampleRead
    <3>. QED BY <2>3, <3>1, <3>2, <3>3 DEF SampleRead
  <2>4. CASE SampleNotConverted(n)
    BY <2>4 DEF SampleNotConverted
  <2>5. CASE SampleTick(n)
    BY <2>5 DEF SampleTick
  <2>6. CASE SampleReadFails(n)
    BY <2>6 DEF SampleReadFails
  <2>7. CASE SampleCallback(n)
    BY <2>7 DEF SampleCallback
  <2>8. CASE SampleCallbackReturns(n)
    <3>1. <<0, 0>> \in (0 .. MaxStarts) \X (0 .. MaxStarts)
      BY DEF CaptureAssumption
    <3>. QED BY <2>8, <3>1 DEF SampleCallbackReturns
  <2>9. CASE SampleRelease(n)
    BY <2>9 DEF SampleRelease, AfterRelease
  <2>10. CASE SampleReleaseFreed(n)
    BY <2>10 DEF SampleReleaseFreed
  <2>11. CASE SampleDeviceFreed(n)
    BY <2>11 DEF SampleDeviceFreed
  <2>12. CASE SampleLeave(n)
    BY <2>0, <2>12 DEF SampleLeave
  <2>. QED BY <1>4, <2>1, <2>2, <2>3, <2>4, <2>5, <2>6, <2>7, <2>8, <2>9,
              <2>10, <2>11, <2>12
              DEF SamplerStep
<1>. QED BY <1>1, <1>2, <1>3, <1>4 DEF Next, ThreadStep

(* Every step keeps what is known of calls in progress.                    *)
LEMMA CallStep ==
    ASSUME TypeOK, CallInv, [Next]_vars
    PROVE  CallInv'
<1>. USE DEF CallPoints, SamplerPoints
<1>1. CASE UNCHANGED vars
  BY <1>1 DEF CallInv, vars, deviceVars, callVars, historyVars
<1>2. CASE FreeInstance
  BY <1>2 DEF FreeInstance, CallInv, callVars, historyVars
<1>3. ASSUME NEW t \in Threads,
             StartReader(t) \/ StopTerminate(t) \/ StartStep(t) \/ StopStep(t)
      PROVE  CallInv'
  <2>0. at \in [Threads -> CallPoints]
    BY DEF TypeOK
  <2>1. CASE StartReader(t)
    BY <2>0, <2>1 DEF StartReader, MayCall, GoTo, Overlaps, CallInv, deviceVars
  <2>2. CASE StopTerminate(t)
    BY <2>0, <2>2 DEF StopTerminate, SetFlag, MayCall, GoTo, Overlaps, CallInv
  <2>3. CASE StopReset(t)
    BY <2>0, <2>3 DEF StopReset, GoTo, CallInv
  <2>4. CASE StartStep(t) \/ StopWait(t) \/ StopJoin(t) \/ StopClose(t)
    <3>1. /\ UNCHANGED <<device, terminated, silent, misuse>> /\ at[t] # "idle"
          /\ \A u \in Threads \ {t} : at'[u] = at[u]
          /\ at'[t] \in {"wait", "waiting", "close", "reset"} =>
                at[t] \in {"wait", "waiting", "close", "reset"}
      BY <2>0, <2>4
         DEF StartStep, StartCallback, StartContext, StartFails, StartThread,
             StartStore, StopWait, StopJoin, StopJoined, StopClose, GoTo, 
             deviceVars, historyVars
    <3>. QED BY <2>0, <3>1 DEF CallInv
  <2>. QED BY <1>3, <2>1, <2>2, <2>3, <2>4 DEF StopStep
<1>4. ASSUME NEW n \in Samplers, SamplerStep(n)
      PROVE  CallInv'
  BY <1>4, SamplerMoves DEF CallInv, deviceVars, callVars
<1>. QED BY <1>1, <1>2, <1>3, <1>4 DEF Next, ThreadStep

(* A thread whose calls are in order is alone in its call, and the calls   *)
(* were in order before a step after which they are.                       *)
LEMMA Alone ==
    ASSUME CallInv, Orderly, NEW t \in Threads, at[t] # "idle"
    PROVE  \A u \in Threads \ {t} : at[u] = "idle"
BY DEF CallInv, Orderly

LEMMA OrderlyBefore ==
    ASSUME TypeOK, [Next]_vars, Orderly'
    PROVE  Orderly
<1>1. ASSUME NEW n \in Samplers, SamplerStep(n) PROVE misuse' = misuse
  BY <1>1, SamplerMoves
<1>2. misuse \subseteq misuse'
  BY <1>1
     DEF Next, vars, historyVars, FreeInstance, ThreadStep, StartReader,
         StopTerminate, StartStep, StartCallback, StartContext, StartFails,
         StartThread, StartStore, StopStep, StopWait, StopJoin, StopClose,
         StopReset
<1>. QED BY <1>2 DEF Orderly

(* Every step keeps what calls in order have for them: only the end of a   *)
(* wait, a thread's exit and the creation of a thread change who runs.     *)
LEMMA OrderStep ==
    ASSUME CaptureAssumption, TypeOK, StartInv, CallInv, OrderInv, [Next]_vars
    PROVE  OrderInv'
<1>. USE DEF CallPoints, SamplerPoints
<1>. USE DEF Starting
<1>. SUFFICES ASSUME Orderly' PROVE InOrder'
  BY DEF OrderInv
<1>0. Orderly /\ InOrder
  BY OrderlyBefore DEF OrderInv
<1>a. /\ at \in [Threads -> CallPoints]
      /\ arg \in [Threads -> 0 .. MaxStarts]
      /\ sampler \in [Samplers -> SamplerPoints]
      /\ called \in [Samplers -> (0 .. MaxStarts) \X (0 .. MaxStarts)]
  BY DEF TypeOK
<1>1. CASE UNCHANGED vars
  BY <1>0, <1>1
     DEF InOrder, Running, vars, deviceVars, callVars, samplerVars, historyVars
<1>2. CASE FreeInstance
  BY <1>0, <1>2
     DEF FreeInstance, InOrder, Running, callVars, samplerVars, historyVars
<1>3. ASSUME NEW t \in Threads,
             StartReader(t) \/ StopTerminate(t) \/ StartStep(t) \/ StopStep(t)
      PROVE  InOrder'
  <2>1. CASE StartReader(t)
    <3>1. Running = {} /\ \A u \in Threads \ {t} : at[u] = "idle"
      BY <2>1 DEF StartReader, Overlaps, Orderly
    <3>2. Running' = {} /\ silent' = FALSE
      BY <2>1, <3>1 DEF StartReader, Running, samplerVars
    <3>3. \A u \in Threads : at'[u] \in {"idle", "callback"}
      BY <1>a, <2>1, <3>1 DEF StartReader, GoTo, MayCall
    <3>. QED BY <3>2, <3>3 DEF InOrder
  <2>2. ASSUME StartStep(t) \/ StopStep(t)
        PROVE  /\ \A u \in Threads \ {t} : at[u] = "idle"
               /\ \A u \in Threads \ {t} : at'[u] = "idle"
    <3>1. at[t] # "idle" /\ \A u \in Threads \ {t} : at'[u] = at[u]
      BY <1>a, <2>2
         DEF StartStep, StartCallback, StartContext, StartFails, StartThread,
             StartStore, StopStep, StopWait, StopJoin, StopJoined, StopClose,
             StopReset, GoTo
    <3>. QED BY <1>0, <3>1, Alone
  <2>3. CASE StartCallback(t)
    BY <1>0, <1>a, <2>2, <2>3
       DEF StartStep, StartCallback, GoTo, InOrder, Running, samplerVars, 
           historyVars
  <2>4. CASE StartContext(t)
    BY <1>0, <1>a, <2>2, <2>4
       DEF StartStep, StartContext, GoTo, InOrder, Running, samplerVars, 
           historyVars
  <2>5. CASE StartFails(t)
    BY <1>0, <1>a, <2>2, <2>5
       DEF StartStep, StartFails, GoTo, InOrder, Running, samplerVars, 
           historyVars
  <2>6. CASE StartThread(t)
    <3>1. /\ Running = {} /\ callback = arg[t] /\ context = arg[t]
          /\ arg[t] \in Samplers
      BY <1>0, <2>6, NumberOfSampler DEF StartThread, InOrder, Starting
    <3>2. Running' = {arg[t]} /\ sampler'[arg[t]] = "starting"
      BY <1>a, <2>6, <3>1 DEF StartThread, Running
    <3>3. ~silent
      BY <1>0, <2>6 DEF StartThread, InOrder, Starting
    <3>. QED BY <1>a, <2>2, <2>6, <3>1, <3>2, <3>3
                DEF StartStep, StartThread, GoTo, InOrder, deviceVars, 
                    historyVars
  <2>7. CASE StartStore(t)
    BY <1>0, <1>a, <2>2, <2>7
       DEF StartStep, StartStore, GoTo, InOrder, Running, samplerVars, 
           historyVars
  <2>8. CASE StopTerminate(t)
    <3>1. /\ at[t] = "idle" /\ \A u \in Threads \ {t} : at[u] = "idle"
      BY <2>8 DEF StopTerminate, MayCall, Overlaps, Orderly
    <3>. QED BY <1>0, <1>a, <2>8, <3>1
                DEF StopTerminate, GoTo, InOrder, Running, samplerVars
  <2>9. CASE StopWait(t)
    BY <1>0, <1>a, <2>2, <2>9
       DEF StopStep, StopWait, GoTo, InOrder, Running, deviceVars, samplerVars,
           
           historyVars
  <2>10. CASE StopJoin(t)
    <3>1. Running \subseteq {arg[t]} /\ arg[t] \notin Running
      BY <1>0, <2>10 DEF StopJoin, StopJoined, InOrder, Running, Samplers
    <3>. QED BY <1>0, <1>a, <2>2, <2>10, <3>1
                DEF StopStep, StopJoin, StopJoined, GoTo, InOrder, Running, 
                    deviceVars, samplerVars, historyVars
  <2>11. CASE StopClose(t)
    BY <1>0, <1>a, <2>2, <2>11
       DEF StopStep, StopClose, GoTo, InOrder, Running, samplerVars, 
           historyVars
  <2>12. CASE StopReset(t)
    BY <1>0, <1>a, <2>2, <2>12
       DEF StopStep, StopReset, GoTo, InOrder, Running, samplerVars
  <2>. QED BY <1>3, <2>1, <2>3, <2>4, <2>5, <2>6, <2>7, <2>8, <2>9, <2>10,
              <2>11, <2>12
              DEF StartStep, StopStep
<1>4. ASSUME NEW n \in Samplers, SamplerStep(n)
      PROVE  InOrder'
  <2>1. /\ UNCHANGED <<deviceVars, callVars, silent>>
        /\ Running' \subseteq Running /\ n \in Running
    BY <1>4, <1>a, SamplerMoves DEF Running
  <2>2. callback = n /\ context = n
    BY <1>0, <2>1 DEF InOrder
  <2>3. \A m \in Samplers \ {n} :
            sampler'[m] = sampler[m] /\ called'[m] = called[m]
    BY <1>4, <1>a
       DEF SamplerStep, SampleInitialise, SampleLoop, SampleRead,
           SampleNotConverted, SampleTick, SampleReadFails, SampleCallback,
           SampleCallbackReturns, SampleRelease, SampleReleaseFreed,
           SampleDeviceFreed, SampleLeave, Place, samplerVars
  <2>4. sampler'[n] = "callback" =>
            \/ called'[n] = <<callback, context>>
            \/ sampler[n] = "callback" /\ called'[n] = called[n]
    BY <1>4, <1>a
       DEF SamplerStep, SampleInitialise, SampleLoop, SampleRead,
           SampleNotConverted, SampleTick, SampleReadFails, SampleCallback,
           SampleCallbackReturns, SampleRelease, SampleReleaseFreed,
           SampleDeviceFreed, SampleLeave, Place, samplerVars, AfterRelease
  <2>5. \A m \in Running' : sampler'[m] = "callback" => called'[m] = <<m, m>>
    BY <1>0, <2>1, <2>2, <2>3, <2>4 DEF InOrder, Running
  <2>. QED BY <1>0, <2>1, <2>5 DEF InOrder, deviceVars, callVars
<1>. QED BY <1>1, <1>2, <1>3, <1>4 DEF Next, ThreadStep

(* Every step keeps account of the buffer, which only a read renews.       *)
LEMMA BufferStep ==
    ASSUME TypeOK, StartInv, BufferInv, [Next]_vars
    PROVE  BufferInv'
<1>. USE DEF CallPoints, SamplerPoints
<1>a. /\ sampler \in [Samplers -> SamplerPoints]
      /\ failing \in [Samplers -> BOOLEAN]
      /\ buffer \in [Samplers -> {"null", "held", "stale"}]
      /\ bufferRefs \in [Samplers -> 0 .. 2] /\ ticks \in [Samplers -> 0 .. 2]
  BY DEF TypeOK
<1>1. CASE UNCHANGED <<failing, buffer, bufferRefs, ticks, sampler>>
  BY <1>1 DEF BufferInv, MayRelease
<1>2. ASSUME NEW t \in Threads, StartThread(t)
      PROVE  BufferInv'
  <2>1. /\ UNCHANGED <<failing, buffer, bufferRefs, ticks>>
        /\ \A n \in Samplers : MayRelease(n)' => MayRelease(n)
    BY <1>a, <1>2 DEF StartThread, MayRelease
  <2>. QED BY <1>a, <2>1 DEF BufferInv
<1>3. ASSUME NEW n \in Samplers, SamplerStep(n)
      PROVE  BufferInv'
  <2>. SUFFICES buffer'[n] # "null" =>
                    bufferRefs'[n] + ticks'[n] >=
                        IF MayRelease(n)' THEN 2 ELSE 1
    <3>1. \A m \in Samplers \ {n} :
             /\ sampler'[m] = sampler[m] /\ failing'[m] = failing[m]
             /\ buffer'[m] = buffer[m]
             /\ bufferRefs'[m] = bufferRefs[m] /\ ticks'[m] = ticks[m]
      BY <1>3, <1>a
         DEF SamplerStep, SampleInitialise, SampleLoop, SampleRead,
             SampleNotConverted, SampleTick, SampleReadFails, SampleCallback,
             SampleCallbackReturns, SampleRelease, SampleReleaseFreed,
             SampleDeviceFreed, SampleLeave, Place, samplerVars
    <3>. QED BY <3>1 DEF BufferInv, MayRelease
  <2>0. buffer[n] # "null" =>
            bufferRefs[n] + ticks[n] >= IF MayRelease(n) THEN 2 ELSE 1
    BY DEF BufferInv
  <2>. USE <1>a, <2>0 DEF Place, MayRelease
  <2>1. CASE SampleInitialise(n)
    BY <2>1 DEF SampleInitialise
  <2>2. CASE SampleLoop(n)
    BY <2>2 DEF SampleLoop
  <2>3. CASE SampleRead(n)
    BY <2>3 DEF SampleRead, SampleAndVariable
  <2>4. CASE SampleNotConverted(n)
    BY <2>4 DEF SampleNotConverted
  <2>5. CASE SampleTick(n)
    BY <2>5 DEF SampleTick
  <2>6. CASE SampleReadFails(n)
    BY <2>6 DEF SampleReadFails
  <2>7. CASE SampleCallback(n)
    BY <2>7 DEF SampleCallback
  <2>8. CASE SampleCallbackReturns(n)
    BY <2>8 DEF SampleCallbackReturns
  <2>9. CASE SampleRelease(n)
    BY <2>9 DEF SampleRelease, AfterRelease
  <2>10. CASE SampleReleaseFreed(n) \/ SampleDeviceFreed(n)
    BY <2>10 DEF SampleReleaseFreed, SampleDeviceFreed, samplerVars
  <2>11. CASE SampleLeave(n)
    BY <2>11 DEF SampleLeave
  <2>. QED BY <1>3, <2>1, <2>2, <2>3, <2>4, <2>5, <2>6, <2>7, <2>8, <2>9,
              <2>10, <2>11
              DEF SamplerStep
<1>4. CASE FreeInstance \/ UNCHANGED vars
  BY <1>1, <1>4 DEF FreeInstance, vars, samplerVars
<1>5. ASSUME NEW t \in Threads,
             StartReader(t) \/ StopTerminate(t) \/ StartStep(t) \/ StopStep(t)
      PROVE  BufferInv'
  BY <1>1, <1>2, <1>5
     DEF StartReader, StopTerminate, StartStep, StartCallback, StartContext,
         StartFails, StartStore, StopStep, StopWait, StopJoin, StopClose,
         StopReset, samplerVars
<1>. QED BY <1>3, <1>4, <1>5 DEF Next, ThreadStep

(* Undefined behaviour has the causes that are listed.                     *)
LEMMA FaultStep ==
    ASSUME CaptureAssumption, TypeOK, StartInv, CallInv, CallInv',
           BufferInv, OrderInv, FaultCauses, [Next]_vars
    PROVE  FaultCauses'
<1>. USE DEF CallPoints, SamplerPoints
<1>1. \A t \in Threads :
          at'[t] = "waiting" /\ arg'[t] \in Running' /\ ~terminated' =>
              "overlap" \in misuse'
  BY DEF CallInv
<1>2. CASE fault' = fault /\ (fault = "none" \/ UNCHANGED vars)
  BY <1>1, <1>2 DEF FaultCauses, vars, samplerVars, historyVars, Orderly
<1>3. ASSUME NEW n \in Samplers, SampleReleaseFreed(n)
      PROVE  FaultCauses'
  <2>1. ticks[n] = 2
    BY <1>3 DEF SampleReleaseFreed, BufferInv, MayRelease, TypeOK
  <2>. QED BY <1>1, <1>3, <2>1 DEF SampleReleaseFreed, FaultCauses, samplerVars
<1>4. ASSUME NEW n \in Samplers, SampleDeviceFreed(n)
      PROVE  FaultCauses'
  <2>1. n \in Running /\ silent
    BY <1>4 DEF SampleDeviceFreed, Running, CallInv
  <2>2. ~Orderly
    BY <2>1 DEF OrderInv, InOrder
  <2>. QED BY <1>1, <1>4, <2>2
              DEF SampleDeviceFreed, FaultCauses, historyVars, Orderly
<1>5. CASE Next
  <2>1. fault = "none"
    BY <1>5 DEF Next
  <2>2. ASSUME NEW n \in Samplers, SamplerStep(n) PROVE FaultCauses'
    BY <1>2, <1>3, <1>4, <2>1, <2>2
       DEF SamplerStep, SampleInitialise, SampleLoop, SampleRead,
           SampleNotConverted, SampleTick, SampleReadFails, SampleCallback,
           SampleCallbackReturns, SampleRelease, SampleLeave
  <2>3. CASE FreeInstance
    BY <1>2, <2>1, <2>3 DEF FreeInstance
  <2>4. ASSUME NEW t \in Threads,
             StartReader(t) \/ StopTerminate(t) \/ StartStep(t) \/ StopStep(t)
        PROVE  FaultCauses'
    BY <1>2, <2>1, <2>4
       DEF StartReader, StopTerminate, StartStep, StartCallback, StartContext,
           StartFails, StartThread, StartStore, StopStep, StopWait, StopJoin,
           StopClose, StopReset
  <2>. QED BY <1>5, <2>2, <2>3, <2>4 DEF Next, ThreadStep
<1>. QED BY <1>2, <1>5 DEF vars

(* The device as MFCap_NewInstance leaves it.                              *)
LEMMA InitHolds ==
    ASSUME CaptureAssumption, Init
    PROVE  TypeOK /\ IInv
<1>. USE DEF CallPoints, SamplerPoints
<1>1. TypeOK
  <2>1. <<0, 0>> \in (0 .. MaxStarts) \X (0 .. MaxStarts)
    BY DEF CaptureAssumption
  <2>2. 0 \in 0 .. MaxStarts /\ 0 \in 0 .. MaxStops
    BY DEF CaptureAssumption
  <2>3. called \in [Samplers -> (0 .. MaxStarts) \X (0 .. MaxStarts)]
    BY <2>1 DEF Init
  <2>4. /\ device \in {"live", "freed"} /\ terminated \in BOOLEAN
        /\ {handle, callback, context, starts} \subseteq 0 .. MaxStarts
        /\ stops \in 0 .. MaxStops /\ arg \in [Threads -> 0 .. MaxStarts]
    BY <2>2 DEF Init
  <2>. QED BY <2>3, <2>4 DEF Init, TypeOK
<1>2. Running = {} /\ Starting = {} /\ \A n \in Samplers : Starter(n) = {}
  BY DEF Init, Running, Starting, Starter
<1>3. ReadersCounted
  BY <1>2, FS_EmptySet DEF Init, ReadersCounted
<1>4. StartInv /\ CallInv /\ BufferInv /\ FaultCauses
  BY <1>2 DEF Init, StartInv, CallInv, BufferInv, FaultCauses
<1>5. OrderInv
  BY <1>2 DEF Init, OrderInv, InOrder
<1>. QED BY <1>1, <1>3, <1>4, <1>5 DEF IInv

(* The types and the invariant are inductive together.                     *)
LEMMA StepHolds ==
    ASSUME CaptureAssumption, TypeOK, IInv, [Next]_vars
    PROVE  TypeOK' /\ IInv'
<1>1. StartInv' /\ CallInv' /\ BufferInv' /\ OrderInv'
  BY StartStepInv, CallStep, BufferStep, OrderStep DEF IInv
<1>2. ReadersCounted'
  BY <1>1, RefStep DEF IInv
<1>3. TypeOK'
  BY <1>1, <1>2, TypeStep DEF IInv
<1>4. FaultCauses'
  BY <1>1, FaultStep DEF IInv
<1>. QED BY <1>1, <1>2, <1>3, <1>4 DEF IInv

(* They hold in every reachable state.                                     *)
LEMMA Invariance == Spec => [](TypeOK /\ IInv)
BY InitHolds, StepHolds, CaptureAssumption, PTL DEF Spec

(* Every variable has its type, whatever the number of application threads *)
(* and of calls; no reference count leaves 0..2 (mfcap.cpp:33-105).        *)
THEOREM TypeCorrect == Spec => []TypeOK
BY Invariance, PTL

(* Each reference to a source reader or a thread context belongs to a      *)
(* Start in progress or to the thread, or is the one CoInitialize's        *)
(* failure leaks (mfcap.cpp:47-103, 216-259).                              *)
THEOREM ReaderReferences == Spec => []ReadersCounted
<1>1. IInv => ReadersCounted
  BY DEF IInv
<1>. QED BY <1>1, Invariance, PTL

(* After Stop no sampling thread is left, for any number of threads that   *)
(* call Start and Stop in order (mfcap.cpp:216-277).                       *)
THEOREM NothingAfterStop == Spec => []StoppedIsQuiet
<1>1. IInv => StoppedIsQuiet
  BY DEF IInv, OrderInv, InOrder, StoppedIsQuiet
<1>. QED BY <1>1, Invariance, PTL

(* A sampling thread calls the callback of its own Start if calls come in  *)
(* order (mfcap.cpp:75, 85, 231-233).                                      *)
THEOREM CallbackOfStart == Spec => []OwnCallback
<1>1. IInv => OwnCallback
  BY DEF IInv, OrderInv, InOrder, OwnCallback, Running
<1>. QED BY <1>1, Invariance, PTL

(* A buffer is used after its release only at the second read in a row     *)
(* that gave no sample, a freed device and a thread that was not told to   *)
(* end are met only out of order (mfcap.cpp:50, 68-86, 268-277).           *)
THEOREM FaultsExplained == Spec => []FaultCauses
<1>1. IInv => FaultCauses
  BY DEF IInv
<1>. QED BY <1>1, Invariance, PTL
=============================================================================

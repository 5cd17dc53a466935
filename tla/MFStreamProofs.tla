--------------------------- MODULE MFStreamProofs ---------------------------
(***************************************************************************)
(* Proofs about MFStream for every set of callers.  One joint induction on *)
(* TypeOK /\ StreamInv, with one lemma per conjunct and one case per       *)
(* action; then every step of the stream is a step of MFStreamService, or  *)
(* leaves what the service shows unchanged.                                *)
(***************************************************************************)
EXTENDS MFStream, SequenceTheorems, FiniteSetTheorems, TLAPS

(***************************************************************************)
(* The inductive invariant.                                                *)
(***************************************************************************)
CurrentInv ==
    /\ Len(current) = IF opThread \in {"process", "retire", "drop"} THEN 1 ELSE 0
    /\ opThread \in {"retire", "drop"} => Range(current) \subseteq Range(answered)

(* An operation is queued, being worked on or answered, and never queued   *)
(* twice.                                                                  *)
PlaceInv ==
    /\ IsInjective(opList)
    /\ Range(opList) \cap Range(current) = {}
    /\ {o \in Ops : call[o] # "new"}
           = Range(opList) \cup Range(current) \cup Range(answered)

FlushInv ==
    \A f \in Flushers : covered[f] \subseteq {o \in Ops : call[o] # "new"}

LateInv ==
    /\ late <= 1 /\ (~closed => late = 0)
    /\ late = 1 => opThread \in {"retire", "drop", "loop", "exited"}

StartInv ==
    /\ startup = "none" <=> creator = "init"
    /\ startup # "ok" => opThread = "none"
    /\ creator \in {"init", "waiting", "failed"} => \A o \in Ops : call[o] = "new"

(* Together with the properties above they are inductive.                  *)
StreamInv ==
    /\ CurrentInv /\ PlaceInv /\ FlushInv /\ LateInv /\ StartInv
    /\ NoLostWakeup /\ PendingExact /\ FlushCovers /\ OpsCounted

(***************************************************************************)
(* Sequences.                                                              *)
(***************************************************************************)
(* The only element of a sequence of length one is in its set.             *)
LEMMA SeqFirst ==
    ASSUME NEW S, NEW s \in Seq(S), Len(s) = 1
    PROVE  s[1] \in S
OBVIOUS

(* One element makes a sequence.                                           *)
LEMMA SeqSingleton ==
    ASSUME NEW S, NEW e \in S
    PROVE  <<e>> \in Seq(S)
OBVIOUS

(* Head and tail together are the sequence.                                *)
LEMMA HeadTailBack ==
    ASSUME NEW S, NEW s \in Seq(S), s # << >>
    PROVE  <<Head(s)>> \o Tail(s) = s
OBVIOUS

(* Head and tail of a sequence with an element put in front.               *)
LEMMA ConsBack ==
    ASSUME NEW S, NEW e \in S, NEW s \in Seq(S)
    PROVE  /\ <<e>> \o s # << >>
           /\ Head(<<e>> \o s) = e
           /\ Tail(<<e>> \o s) = s
OBVIOUS

(* Appending commutes with concatenation on the left.                      *)
LEMMA AppendConcat ==
    ASSUME NEW S, NEW e \in S, NEW s \in Seq(S), NEW u \in Seq(S)
    PROVE  s \o Append(u, e) = Append(s \o u, e)
OBVIOUS

(* The empty sequence has no elements.                                     *)
LEMMA RangeEmpty == Range(<< >>) = {}
BY DEF Range

(* A sequence of one element has that element.                             *)
LEMMA RangeSingleton ==
    ASSUME NEW e
    PROVE  Range(<<e>>) = {e}
BY DEF Range

(* A sequence without elements is empty.                                   *)
LEMMA NothingInRange ==
    ASSUME NEW S, NEW s \in Seq(S), Range(s) = {}
    PROVE  Len(s) = 0
<1>1. 1 \notin DOMAIN s
  BY DEF Range
<1>. QED BY <1>1

(* A new element at the end of a sequence without repetitions.             *)
LEMMA AppendFresh ==
    ASSUME NEW S, NEW s \in Seq(S), NEW e \in S
    PROVE  /\ Range(Append(s, e)) = Range(s) \cup {e}
           /\ IsInjective(s) /\ e \notin Range(s) => IsInjective(Append(s, e))
<1>. DEFINE u == Append(s, e)
<1>1. /\ DOMAIN u = 1 .. Len(s) + 1 /\ DOMAIN s = 1 .. Len(s)
      /\ Len(s) \in Nat
      /\ u[Len(s) + 1] = e
      /\ \A i \in 1 .. Len(s) : u[i] = s[i]
  OBVIOUS
<1>2. Range(u) = Range(s) \cup {e}
  <2>1. ASSUME NEW x \in Range(u) PROVE x \in Range(s) \cup {e}
    <3>1. PICK i \in 1 .. Len(s) + 1 : x = u[i]
      BY <1>1, <2>1 DEF Range
    <3>. QED BY <1>1, <3>1 DEF Range
  <2>2. ASSUME NEW x \in Range(s) PROVE x \in Range(u)
    <3>1. PICK i \in 1 .. Len(s) : x = s[i]
      BY <1>1, <2>2 DEF Range
    <3>2. i \in DOMAIN u /\ u[i] = x
      BY <1>1, <3>1
    <3>. QED BY <3>2 DEF Range
  <2>3. e \in Range(u)
    <3>1. Len(s) + 1 \in DOMAIN u
      BY <1>1
    <3>. QED BY <1>1, <3>1 DEF Range
  <2>. QED BY <2>1, <2>2, <2>3
<1>3. ASSUME IsInjective(s), e \notin Range(s) PROVE IsInjective(u)
  <2>1. \A i \in 1 .. Len(s) : s[i] # e
    BY <1>1, <1>3 DEF Range
  <2>2. \A i, j \in 1 .. Len(s) : s[i] = s[j] => i = j
    BY <1>1, <1>3 DEF IsInjective
  <2>3. ASSUME NEW i \in 1 .. Len(s) + 1, NEW j \in 1 .. Len(s) + 1,
               u[i] = u[j]
        PROVE  i = j
    BY <1>1, <2>1, <2>2, <2>3
  <2>. QED BY <1>1, <2>3 DEF IsInjective
<1>. QED BY <1>2, <1>3

(* The first element taken off a sequence without repetitions.             *)
LEMMA TakeFirst ==
    ASSUME NEW S, NEW s \in Seq(S), s # << >>, IsInjective(s)
    PROVE  /\ Range(Tail(s)) = Range(s) \ {Head(s)}
           /\ Head(s) \in Range(s)
           /\ IsInjective(Tail(s))
<1>1. /\ DOMAIN s = 1 .. Len(s) /\ Len(s) \in Nat \ {0}
      /\ DOMAIN Tail(s) = 1 .. Len(s) - 1
      /\ \A i \in 1 .. Len(s) - 1 : Tail(s)[i] = s[i + 1]
      /\ Head(s) = s[1]
  OBVIOUS
<1>2. \A i, j \in 1 .. Len(s) : s[i] = s[j] => i = j
  BY <1>1 DEF IsInjective
<1>3. ASSUME NEW x \in Range(Tail(s)) PROVE x \in Range(s) \ {Head(s)}
  <2>1. PICK i \in 1 .. Len(s) - 1 : x = s[i + 1]
    BY <1>1, <1>3 DEF Range
  <2>2. i + 1 \in 1 .. Len(s) /\ i + 1 # 1 /\ 1 \in 1 .. Len(s)
    BY <1>1
  <2>3. x # s[1]
    BY <1>2, <2>1, <2>2
  <2>4. x \in Range(s)
    BY <1>1, <2>1, <2>2 DEF Range
  <2>. QED BY <1>1, <2>3, <2>4
<1>4. ASSUME NEW x \in Range(s), x # Head(s) PROVE x \in Range(Tail(s))
  <2>1. PICK i \in 1 .. Len(s) : x = s[i]
    BY <1>1, <1>4 DEF Range
  <2>2. i # 1
    BY <1>1, <1>4, <2>1
  <2>3. i - 1 \in 1 .. Len(s) - 1 /\ (i - 1) + 1 = i
    BY <1>1, <2>2
  <2>4. Tail(s)[i - 1] = x
    BY <1>1, <2>1, <2>3
  <2>. QED BY <1>1, <2>3, <2>4 DEF Range
<1>5. Head(s) \in Range(s)
  <2>1. 1 \in DOMAIN s
    BY <1>1
  <2>. QED BY <1>1, <2>1 DEF Range
<1>6. IsInjective(Tail(s))
  <2>1. ASSUME NEW i \in 1 .. Len(s) - 1, NEW j \in 1 .. Len(s) - 1,
               Tail(s)[i] = Tail(s)[j]
        PROVE  i = j
    <3>1. i + 1 \in 1 .. Len(s) /\ j + 1 \in 1 .. Len(s)
      BY <1>1
    <3>2. s[i + 1] = s[j + 1]
      BY <1>1, <2>1
    <3>3. i + 1 = j + 1
      BY <1>2, <3>1, <3>2
    <3>. QED BY <3>3
  <2>. QED BY <1>1, <2>1 DEF IsInjective
<1>. QED BY <1>3, <1>4, <1>5, <1>6

(* The thread has an operation in hand exactly between taking it off the   *)
(* list and dropping its reference.                                        *)
LEMMA CurrentStep ==
    ASSUME StreamAssumption, TypeOK, StreamInv, [Next]_vars
    PROVE  CurrentInv'
<1>. USE DEF TypeOK, StreamInv, CurrentInv, StartInv
<1>1. CASE UNCHANGED vars
  BY <1>1 DEF vars, callerVars, historyVars, queueVars, startVars
<1>2. CASE ThreadStep
  <2>1. CASE ThreadStart
    BY <2>1 DEF ThreadStart, Post, callerVars, historyVars
  <2>2. CASE ThreadLoop
    BY <2>2 DEF ThreadLoop, callerVars, historyVars, queueVars, startVars
  <2>3. CASE ThreadWait
    BY <2>3 DEF ThreadWait, callerVars, historyVars, startVars
  <2>4. CASE ThreadTake
    BY <2>4 DEF ThreadTake, callerVars, historyVars, startVars
  <2>5. CASE ThreadFinish
    <3>1. Range(answered \o current) = Range(answered) \cup Range(current)
      BY RangeConcatenation
    <3>. QED BY <2>5, <3>1 DEF ThreadFinish
  <2>6. CASE ThreadRetire
    BY <2>6 DEF ThreadRetire, callerVars, historyVars, startVars
  <2>7. CASE ThreadDrop
    BY <2>7 DEF ThreadDrop, callerVars, historyVars, queueVars, startVars
  <2>. QED BY <1>2, <2>1, <2>2, <2>3, <2>4, <2>5, <2>6, <2>7 DEF ThreadStep
<1>3. CASE CreatorStep
  <2>1. CASE Construct
    BY <2>1 DEF Construct, callerVars, historyVars, queueVars
  <2>2. CASE ConstructReturns
    BY <2>2 DEF ConstructReturns, callerVars, historyVars
  <2>3. CASE DestroyBegin
    BY <2>3 DEF DestroyBegin, callerVars, historyVars, queueVars
  <2>4. CASE DestroyPost
    BY <2>4 DEF DestroyPost, Post, callerVars, historyVars
  <2>5. CASE DestroyReturns
    BY <2>5 DEF DestroyReturns, callerVars, historyVars, queueVars
  <2>. QED BY <1>3, <2>1, <2>2, <2>3, <2>4, <2>5 DEF CreatorStep
<1>4. ASSUME NEW o \in Ops, OpStep(o) PROVE CurrentInv'
  <2>1. CASE OpInsert(o)
    BY <2>1
     DEF OpInsert, Insert, CreatorReference, Count, NoEvent, historyVars, startVars
  <2>2. CASE OpPost(o)
    BY <2>2 DEF OpPost, Post, historyVars, startVars
  <2>3. CASE OpReturn(o)
    BY <2>3 DEF OpReturn, historyVars, queueVars, startVars
  <2>. QED BY <1>4, <2>1, <2>2, <2>3 DEF OpStep
<1>5. ASSUME NEW f \in Flushers, FlushStep(f) PROVE CurrentInv'
  <2>1. CASE FlushBegin(f)
    BY <2>1 DEF FlushBegin, historyVars, queueVars, startVars
  <2>2. CASE FlushReturn(f)
    BY <2>2 DEF FlushReturn, NoEvent, historyVars, queueVars, startVars
  <2>. QED BY <1>5, <2>1, <2>2 DEF FlushStep
<1>6. ASSUME NEW c \in Closers, CloseStep(c) PROVE CurrentInv'
  <2>1. CASE CloseSet(c)
    BY <2>1 DEF CloseSet, historyVars, queueVars, startVars
  <2>2. CASE ClosePost(c)
    BY <2>2 DEF ClosePost, Post, historyVars, startVars
  <2>. QED BY <1>6, <2>1, <2>2 DEF CloseStep
<1>. QED BY <1>1, <1>2, <1>3, <1>4, <1>5, <1>6 DEF Next

(* After Close at most the operation already in hand is answered.          *)
LEMMA LateStep ==
    ASSUME StreamAssumption, TypeOK, StreamInv, [Next]_vars
    PROVE  LateInv'
<1>. USE DEF TypeOK, StreamInv, LateInv, StartInv
<1>1. CASE UNCHANGED vars
  BY <1>1 DEF vars, callerVars, historyVars, queueVars, startVars
<1>2. CASE ThreadStep
  <2>1. CASE ThreadStart
    BY <2>1 DEF ThreadStart, Post, callerVars, historyVars
  <2>2. CASE ThreadLoop
    BY <2>2 DEF ThreadLoop, callerVars, historyVars, queueVars, startVars
  <2>3. CASE ThreadWait
    BY <2>3 DEF ThreadWait, callerVars, historyVars, startVars
  <2>4. CASE ThreadTake
    BY <2>4 DEF ThreadTake, callerVars, historyVars, startVars
  <2>5. CASE ThreadFinish
    BY <2>5 DEF ThreadFinish, callerVars, queueVars, startVars
  <2>6. CASE ThreadRetire
    BY <2>6 DEF ThreadRetire, callerVars, historyVars, startVars
  <2>7. CASE ThreadDrop
    BY <2>7 DEF ThreadDrop, callerVars, historyVars, queueVars, startVars
  <2>. QED BY <1>2, <2>1, <2>2, <2>3, <2>4, <2>5, <2>6, <2>7 DEF ThreadStep
<1>3. CASE CreatorStep
  <2>1. CASE Construct
    BY <2>1 DEF Construct, callerVars, historyVars, queueVars
  <2>2. CASE ConstructReturns
    BY <2>2 DEF ConstructReturns, callerVars, historyVars
  <2>3. CASE DestroyBegin
    BY <2>3 DEF DestroyBegin, callerVars, historyVars, queueVars
  <2>4. CASE DestroyPost
    BY <2>4 DEF DestroyPost, Post, callerVars, historyVars
  <2>5. CASE DestroyReturns
    BY <2>5 DEF DestroyReturns, callerVars, historyVars, queueVars
  <2>. QED BY <1>3, <2>1, <2>2, <2>3, <2>4, <2>5 DEF CreatorStep
<1>4. ASSUME NEW o \in Ops, OpStep(o) PROVE LateInv'
  <2>1. CASE OpInsert(o)
    BY <2>1
     DEF OpInsert, Insert, CreatorReference, Count, NoEvent, historyVars, startVars
  <2>2. CASE OpPost(o)
    BY <2>2 DEF OpPost, Post, historyVars, startVars
  <2>3. CASE OpReturn(o)
    BY <2>3 DEF OpReturn, historyVars, queueVars, startVars
  <2>. QED BY <1>4, <2>1, <2>2, <2>3 DEF OpStep
<1>5. ASSUME NEW f \in Flushers, FlushStep(f) PROVE LateInv'
  <2>1. CASE FlushBegin(f)
    BY <2>1 DEF FlushBegin, historyVars, queueVars, startVars
  <2>2. CASE FlushReturn(f)
    BY <2>2 DEF FlushReturn, NoEvent, historyVars, queueVars, startVars
  <2>. QED BY <1>5, <2>1, <2>2 DEF FlushStep
<1>6. ASSUME NEW c \in Closers, CloseStep(c) PROVE LateInv'
  <2>1. CASE CloseSet(c)
    BY <2>1 DEF CloseSet, historyVars, queueVars, startVars
  <2>2. CASE ClosePost(c)
    BY <2>2 DEF ClosePost, Post, historyVars, startVars
  <2>. QED BY <1>6, <2>1, <2>2 DEF CloseStep
<1>. QED BY <1>1, <1>2, <1>3, <1>4, <1>5, <1>6 DEF Next

(* No thread runs, and no operation is submitted, before the constructor   *)
(* has returned a stream.                                                  *)
LEMMA StartStep ==
    ASSUME StreamAssumption, TypeOK, StreamInv, [Next]_vars
    PROVE  StartInv'
<1>. USE DEF TypeOK, StreamInv, StartInv
<1>1. CASE UNCHANGED vars
  BY <1>1 DEF vars, callerVars, historyVars, queueVars, startVars
<1>2. CASE ThreadStep
  <2>1. CASE ThreadStart
    BY <2>1 DEF ThreadStart, Post, callerVars, historyVars
  <2>2. CASE ThreadLoop
    BY <2>2 DEF ThreadLoop, callerVars, historyVars, queueVars, startVars
  <2>3. CASE ThreadWait
    BY <2>3 DEF ThreadWait, callerVars, historyVars, startVars
  <2>4. CASE ThreadTake
    BY <2>4 DEF ThreadTake, callerVars, historyVars, startVars
  <2>5. CASE ThreadFinish
    BY <2>5 DEF ThreadFinish, callerVars, queueVars, startVars
  <2>6. CASE ThreadRetire
    BY <2>6 DEF ThreadRetire, callerVars, historyVars, startVars
  <2>7. CASE ThreadDrop
    BY <2>7 DEF ThreadDrop, callerVars, historyVars, queueVars, startVars
  <2>. QED BY <1>2, <2>1, <2>2, <2>3, <2>4, <2>5, <2>6, <2>7 DEF ThreadStep
<1>3. CASE CreatorStep
  <2>1. CASE Construct
    BY <2>1 DEF Construct, callerVars, historyVars, queueVars
  <2>2. CASE ConstructReturns
    BY <2>2 DEF ConstructReturns, callerVars, historyVars
  <2>3. CASE DestroyBegin
    BY <2>3 DEF DestroyBegin, callerVars, historyVars, queueVars
  <2>4. CASE DestroyPost
    BY <2>4 DEF DestroyPost, Post, callerVars, historyVars
  <2>5. CASE DestroyReturns
    BY <2>5 DEF DestroyReturns, callerVars, historyVars, queueVars
  <2>. QED BY <1>3, <2>1, <2>2, <2>3, <2>4, <2>5 DEF CreatorStep
<1>4. ASSUME NEW o \in Ops, OpStep(o) PROVE StartInv'
  <2>1. CASE OpInsert(o)
    BY <2>1
     DEF OpInsert, Insert, CreatorReference, Count, NoEvent, historyVars, startVars
  <2>2. CASE OpPost(o)
    BY <2>2 DEF OpPost, Post, historyVars, startVars
  <2>3. CASE OpReturn(o)
    BY <2>3 DEF OpReturn, historyVars, queueVars, startVars
  <2>. QED BY <1>4, <2>1, <2>2, <2>3 DEF OpStep
<1>5. ASSUME NEW f \in Flushers, FlushStep(f) PROVE StartInv'
  <2>1. CASE FlushBegin(f)
    BY <2>1 DEF FlushBegin, historyVars, queueVars, startVars
  <2>2. CASE FlushReturn(f)
    BY <2>2 DEF FlushReturn, NoEvent, historyVars, queueVars, startVars
  <2>. QED BY <1>5, <2>1, <2>2 DEF FlushStep
<1>6. ASSUME NEW c \in Closers, CloseStep(c) PROVE StartInv'
  <2>1. CASE CloseSet(c)
    BY <2>1 DEF CloseSet, historyVars, queueVars, startVars
  <2>2. CASE ClosePost(c)
    BY <2>2 DEF ClosePost, Post, historyVars, startVars
  <2>. QED BY <1>6, <2>1, <2>2 DEF CloseStep
<1>. QED BY <1>1, <1>2, <1>3, <1>4, <1>5, <1>6 DEF Next

(* Operations between the insertion and the post are a finite set.         *)
LEMMA InsertedCount ==
    ASSUME StreamAssumption
    PROVE  Inserted \subseteq Ops /\ IsFiniteSet(Inserted) /\ Cardinality(Inserted) \in Nat
<1>1. IsFiniteSet(Ops) /\ Inserted \subseteq Ops
  BY FS_Union DEF StreamAssumption, Ops, Inserted
<1>. QED BY <1>1, FS_Subset, FS_CardinalityType

(* An insertion is followed by its post, and a token is taken together     *)
(* with an operation: none of the two gets lost in any interleaving.       *)
LEMMA WakeupStep ==
    ASSUME StreamAssumption, TypeOK, StreamInv, [Next]_vars
    PROVE  NoLostWakeup'
<1>. USE DEF TypeOK, StreamInv, NoLostWakeup
<1>1. CASE UNCHANGED vars
  <2>1. Inserted' = Inserted
    BY <1>1 DEF vars, callerVars, Inserted
  <2>. QED BY <1>1, <2>1, InsertedCount DEF vars, queueVars, startVars
<1>2. CASE ThreadStep
  <2>1. CASE ThreadStart
    <3>1. Inserted' = Inserted
      BY <2>1 DEF ThreadStart, Post, callerVars, Inserted
    <3>. QED BY <2>1, <3>1, InsertedCount DEF ThreadStart, Post, callerVars
  <2>2. CASE ThreadLoop
    <3>1. Inserted' = Inserted
      BY <2>2 DEF ThreadLoop, callerVars, queueVars, startVars, Inserted
    <3>. QED BY <2>2, <3>1, InsertedCount
              DEF ThreadLoop, callerVars, queueVars, startVars
  <2>3. CASE ThreadWait
    <3>1. Inserted' = Inserted
      BY <2>3 DEF ThreadWait, startVars, callerVars, Inserted
    <3>. QED BY <2>3, <3>1, InsertedCount DEF ThreadWait, startVars, callerVars
  <2>4. CASE ThreadTake
    <3>1. Inserted' = Inserted
      BY <2>4 DEF ThreadTake, startVars, callerVars, Inserted
    <3>. QED BY <2>4, <3>1, InsertedCount DEF ThreadTake, startVars, callerVars
  <2>5. CASE ThreadFinish
    <3>1. Inserted' = Inserted
      BY <2>5 DEF ThreadFinish, callerVars, queueVars, startVars, Inserted
    <3>. QED BY <2>5, <3>1, InsertedCount
              DEF ThreadFinish, callerVars, queueVars, startVars
  <2>6. CASE ThreadRetire
    <3>1. Inserted' = Inserted
      BY <2>6 DEF ThreadRetire, callerVars, startVars, Inserted
    <3>. QED BY <2>6, <3>1, InsertedCount
              DEF ThreadRetire, callerVars, startVars
  <2>7. CASE ThreadDrop
    <3>1. Inserted' = Inserted
      BY <2>7 DEF ThreadDrop, callerVars, queueVars, startVars, Inserted
    <3>. QED BY <2>7, <3>1, InsertedCount
              DEF ThreadDrop, callerVars, queueVars, startVars
  <2>. QED BY <1>2, <2>1, <2>2, <2>3, <2>4, <2>5, <2>6, <2>7 DEF ThreadStep
<1>3. CASE CreatorStep
  <2>1. CASE Construct
    <3>1. Inserted' = Inserted
      BY <2>1 DEF Construct, StartInv, queueVars, callerVars, Inserted
    <3>. QED BY <2>1, <3>1, InsertedCount
              DEF Construct, StartInv, queueVars, callerVars
  <2>2. CASE ConstructReturns
    <3>1. Range(opList) = {}
      BY <2>2 DEF ConstructReturns, StartInv, PlaceInv
    <3>2. Len(opList) = 0
      BY <3>1, NothingInRange
    <3>3. Inserted' = Inserted
      BY <2>2 DEF ConstructReturns, Inserted, callerVars
    <3>. QED BY <2>2, <3>2, <3>3, InsertedCount DEF ConstructReturns
  <2>3. CASE DestroyBegin
    <3>1. Inserted' = Inserted
      BY <2>3 DEF DestroyBegin, callerVars, queueVars, Inserted
    <3>. QED BY <2>3, <3>1, InsertedCount
              DEF DestroyBegin, callerVars, queueVars
  <2>4. CASE DestroyPost
    <3>1. Inserted' = Inserted
      BY <2>4 DEF DestroyPost, Post, callerVars, Inserted
    <3>. QED BY <2>4, <3>1, InsertedCount DEF DestroyPost, Post, callerVars
  <2>5. CASE DestroyReturns
    <3>1. Inserted' = Inserted
      BY <2>5 DEF DestroyReturns, callerVars, queueVars, Inserted
    <3>. QED BY <2>5, <3>1, InsertedCount
              DEF DestroyReturns, callerVars, queueVars
  <2>. QED BY <1>3, <2>1, <2>2, <2>3, <2>4, <2>5 DEF CreatorStep
<1>4. ASSUME NEW o \in Ops, OpStep(o) PROVE NoLostWakeup'
  <2>1. CASE OpInsert(o)
    <3>1. Inserted' = Inserted \cup {o} /\ o \notin Inserted
      BY <2>1 DEF OpInsert, Inserted
    <3>2. Cardinality(Inserted') = Cardinality(Inserted) + 1
      BY <3>1, InsertedCount, FS_AddElement
    <3>3. Len(opList') = Len(opList) + 1
      BY <2>1 DEF OpInsert, Insert, CreatorReference
    <3>. QED BY <2>1, <3>2, <3>3, InsertedCount DEF OpInsert, startVars
  <2>2. CASE OpPost(o)
    <3>1. Inserted' = Inserted \ {o} /\ o \in Inserted
      BY <2>2 DEF OpPost, Inserted
    <3>2. Cardinality(Inserted') = Cardinality(Inserted) - 1
      BY <3>1, InsertedCount, FS_RemoveElement
    <3>. QED BY <2>2, <3>2, InsertedCount DEF OpPost, Post, startVars
  <2>3. CASE OpReturn(o)
    <3>1. Inserted' = Inserted
      BY <2>3 DEF OpReturn, queueVars, startVars, Inserted
    <3>. QED BY <2>3, <3>1, InsertedCount DEF OpReturn, queueVars, startVars
  <2>. QED BY <1>4, <2>1, <2>2, <2>3 DEF OpStep
<1>5. ASSUME NEW f \in Flushers, FlushStep(f) PROVE NoLostWakeup'
  <2>1. CASE FlushBegin(f)
    <3>1. Inserted' = Inserted
      BY <2>1 DEF FlushBegin, queueVars, startVars, Inserted
    <3>. QED BY <2>1, <3>1, InsertedCount DEF FlushBegin, queueVars, startVars
  <2>2. CASE FlushReturn(f)
    <3>1. Inserted' = Inserted
      BY <2>2 DEF FlushReturn, queueVars, startVars, Inserted
    <3>. QED BY <2>2, <3>1, InsertedCount DEF FlushReturn, queueVars, startVars
  <2>. QED BY <1>5, <2>1, <2>2 DEF FlushStep
<1>6. ASSUME NEW c \in Closers, CloseStep(c) PROVE NoLostWakeup'
  <2>1. CASE CloseSet(c)
    <3>1. Inserted' = Inserted
      BY <2>1 DEF CloseSet, queueVars, startVars, Inserted
    <3>. QED BY <2>1, <3>1, InsertedCount DEF CloseSet, queueVars, startVars
  <2>2. CASE ClosePost(c)
    <3>1. Inserted' = Inserted
      BY <2>2 DEF ClosePost, Post, startVars, Inserted
    <3>. QED BY <2>2, <3>1, InsertedCount DEF ClosePost, Post, startVars
  <2>. QED BY <1>6, <2>1, <2>2 DEF CloseStep
<1>. QED BY <1>1, <1>2, <1>3, <1>4, <1>5, <1>6 DEF Next

(* pendingOpCount and flushedEvent change together with the list and with  *)
(* operation in hand.                                                      *)
LEMMA PendingStep ==
    ASSUME StreamAssumption, TypeOK, StreamInv, [Next]_vars
    PROVE  PendingExact'
<1>. USE DEF TypeOK, StreamInv, PendingExact, NoEvent, CurrentInv
<1>1. CASE UNCHANGED vars
  BY <1>1 DEF vars, Unretired, callerVars, historyVars, queueVars, startVars
<1>2. CASE ThreadStep
  <2>1. CASE ThreadStart
    BY <2>1 DEF ThreadStart, Unretired, Post, callerVars, historyVars
  <2>2. CASE ThreadLoop
    BY <2>2
     DEF ThreadLoop, Unretired, callerVars, historyVars, queueVars, startVars
  <2>3. CASE ThreadWait
    BY <2>3 DEF ThreadWait, Unretired, callerVars, historyVars, startVars
  <2>4. CASE ThreadTake
    <3>1. CASE opList = << >>
      BY <2>4, <3>1 DEF ThreadTake, Unretired, startVars
    <3>2. CASE opList # << >>
      <4>1. Len(opList') = Len(opList) - 1 /\ Len(current') = 1
        BY <2>4, <3>2 DEF ThreadTake
      <4>2. Len(opList) \in Nat
        OBVIOUS
      <4>. QED BY <2>4, <3>2, <4>1, <4>2 DEF ThreadTake, Unretired, startVars
    <3>. QED BY <3>1, <3>2
  <2>5. CASE ThreadFinish
    BY <2>5 DEF ThreadFinish, Unretired, callerVars, queueVars, startVars
  <2>6. CASE ThreadRetire
    <3>1. Unretired = 1 /\ Unretired' = 0 /\ startup = "ok"
      BY <2>6 DEF ThreadRetire, Unretired, StartInv
    <3>2. Len(opList) \in Nat /\ pendingOpCount = Len(opList) + 1
      BY <3>1
    <3>3. pendingOpCount' = Len(opList') + 0 /\ ~flushedEvent
      BY <2>6, <3>1, <3>2 DEF ThreadRetire
    <3>4. flushedEvent' <=> pendingOpCount = 1
      BY <2>6, <3>3 DEF ThreadRetire
    <3>. QED BY <2>6, <3>1, <3>2, <3>3, <3>4 DEF ThreadRetire
  <2>7. CASE ThreadDrop
    BY <2>7
     DEF ThreadDrop, Unretired, callerVars, historyVars, queueVars, startVars
  <2>. QED BY <1>2, <2>1, <2>2, <2>3, <2>4, <2>5, <2>6, <2>7 DEF ThreadStep
<1>3. CASE CreatorStep
  <2>1. CASE Construct
    <3>1. opThread = "none" /\ opThread' \in {"none", "starting"}
      BY <2>1 DEF Construct, StartInv
    <3>. QED BY <2>1, <3>1 DEF Construct, StartInv, Unretired, queueVars
  <2>2. CASE ConstructReturns
    BY <2>2 DEF ConstructReturns, Unretired, callerVars, historyVars
  <2>3. CASE DestroyBegin
    BY <2>3 DEF DestroyBegin, Unretired, callerVars, historyVars, queueVars
  <2>4. CASE DestroyPost
    BY <2>4 DEF DestroyPost, Unretired, Post, callerVars, historyVars
  <2>5. CASE DestroyReturns
    BY <2>5 DEF DestroyReturns, Unretired, callerVars, historyVars, queueVars
  <2>. QED BY <1>3, <2>1, <2>2, <2>3, <2>4, <2>5 DEF CreatorStep
<1>4. ASSUME NEW o \in Ops, OpStep(o) PROVE PendingExact'
  <2>1. CASE OpInsert(o)
    <3>1. Len(opList') = Len(opList) + 1 /\ Len(opList) \in Nat
      BY <2>1 DEF OpInsert, Insert, CreatorReference
    <3>2. Unretired' = Unretired /\ Unretired \in {0, 1}
      BY <2>1 DEF OpInsert, Unretired
    <3>3. pendingOpCount' = pendingOpCount + 1 /\ startup' = startup
      BY <2>1 DEF OpInsert, Count, startVars
    <3>4. pendingOpCount = Len(opList) + Unretired
      BY DEF PendingExact
    <3>5. pendingOpCount' = Len(opList') + Unretired' /\ pendingOpCount' # 0
      BY <3>1, <3>2, <3>3, <3>4
    <3>6. ~NoEvent => ~flushedEvent'
      BY <2>1 DEF OpInsert, Count
    <3>. QED BY <3>3, <3>5, <3>6
  <2>2. CASE OpPost(o)
    BY <2>2 DEF OpPost, Unretired, Post, historyVars, startVars
  <2>3. CASE OpReturn(o)
    BY <2>3 DEF OpReturn, Unretired, historyVars, queueVars, startVars
  <2>. QED BY <1>4, <2>1, <2>2, <2>3 DEF OpStep
<1>5. ASSUME NEW f \in Flushers, FlushStep(f) PROVE PendingExact'
  <2>1. CASE FlushBegin(f)
    BY <2>1 DEF FlushBegin, Unretired, historyVars, queueVars, startVars
  <2>2. CASE FlushReturn(f)
    BY <2>2 DEF FlushReturn, Unretired, historyVars, queueVars, startVars
  <2>. QED BY <1>5, <2>1, <2>2 DEF FlushStep
<1>6. ASSUME NEW c \in Closers, CloseStep(c) PROVE PendingExact'
  <2>1. CASE CloseSet(c)
    BY <2>1 DEF CloseSet, Unretired, historyVars, queueVars, startVars
  <2>2. CASE ClosePost(c)
    BY <2>2 DEF ClosePost, Unretired, Post, historyVars, startVars
  <2>. QED BY <1>6, <2>1, <2>2 DEF CloseStep
<1>. QED BY <1>1, <1>2, <1>3, <1>4, <1>5, <1>6 DEF Next

(* A submitted operation is in exactly one place: queued, in hand, or      *)
(* answered.                                                               *)
LEMMA PlaceStep ==
    ASSUME StreamAssumption, TypeOK, StreamInv, [Next]_vars
    PROVE  PlaceInv'
<1>. USE DEF TypeOK, StreamInv, PlaceInv, CurrentInv
<1>1. CASE UNCHANGED vars
  BY <1>1 DEF vars, callerVars, historyVars, queueVars, startVars
<1>2. CASE ThreadStep
  <2>1. CASE ThreadStart
    BY <2>1 DEF ThreadStart, Post, callerVars, historyVars
  <2>2. CASE ThreadLoop
    BY <2>2 DEF ThreadLoop, callerVars, historyVars, queueVars, startVars
  <2>3. CASE ThreadWait
    BY <2>3 DEF ThreadWait, callerVars, historyVars, startVars
  <2>4. CASE ThreadTake
    <3>1. CASE opList = << >>
      BY <2>4, <3>1 DEF ThreadTake, callerVars, historyVars
    <3>2. CASE opList # << >>
      <4>1. /\ Range(Tail(opList)) = Range(opList) \ {Head(opList)}
            /\ Head(opList) \in Range(opList) /\ IsInjective(Tail(opList))
        BY <3>2, TakeFirst
      <4>2. Range(<<Head(opList)>>) = {Head(opList)} /\ Range(current) = {}
        BY <2>4, RangeSingleton, RangeEmpty DEF ThreadTake
      <4>. QED BY <2>4, <3>2, <4>1, <4>2
                DEF ThreadTake, callerVars, historyVars
    <3>. QED BY <3>1, <3>2
  <2>5. CASE ThreadFinish
    <3>1. Range(answered \o current) = Range(answered) \cup Range(current)
      BY RangeConcatenation
    <3>. QED BY <2>5, <3>1 DEF ThreadFinish, queueVars, callerVars
  <2>6. CASE ThreadRetire
    BY <2>6 DEF ThreadRetire, callerVars, historyVars, startVars
  <2>7. CASE ThreadDrop
    <3>1. Range(current) \subseteq Range(answered)
      BY <2>7 DEF ThreadDrop
    <3>. QED BY <2>7, <3>1, RangeEmpty
              DEF ThreadDrop, queueVars, callerVars, historyVars
  <2>. QED BY <1>2, <2>1, <2>2, <2>3, <2>4, <2>5, <2>6, <2>7 DEF ThreadStep
<1>3. CASE CreatorStep
  <2>1. CASE Construct
    BY <2>1 DEF Construct, callerVars, historyVars, queueVars
  <2>2. CASE ConstructReturns
    BY <2>2 DEF ConstructReturns, callerVars, historyVars
  <2>3. CASE DestroyBegin
    BY <2>3 DEF DestroyBegin, callerVars, historyVars, queueVars
  <2>4. CASE DestroyPost
    BY <2>4 DEF DestroyPost, Post, callerVars, historyVars
  <2>5. CASE DestroyReturns
    BY <2>5 DEF DestroyReturns, callerVars, historyVars, queueVars
  <2>. QED BY <1>3, <2>1, <2>2, <2>3, <2>4, <2>5 DEF CreatorStep
<1>4. ASSUME NEW o \in Ops, OpStep(o) PROVE PlaceInv'
  <2>1. CASE OpInsert(o)
    <3>1. o \notin Range(opList) \cup Range(current)
      BY <2>1 DEF OpInsert
    <3>2. /\ Range(opList') = Range(opList) \cup {o}
          /\ IsInjective(opList')
      BY <2>1, <3>1, AppendFresh DEF OpInsert, Insert, CreatorReference
    <3>3. {p \in Ops : call'[p] # "new"} = {p \in Ops : call[p] # "new"} \cup {o}
      BY <2>1 DEF OpInsert
    <3>4. current' = current /\ answered' = answered
      BY <2>1 DEF OpInsert, historyVars
    <3>. QED BY <3>1, <3>2, <3>3, <3>4
  <2>2. CASE OpPost(o)
    BY <2>2 DEF OpPost, Post, historyVars, startVars
  <2>3. CASE OpReturn(o)
    BY <2>3 DEF OpReturn, historyVars, queueVars, startVars
  <2>. QED BY <1>4, <2>1, <2>2, <2>3 DEF OpStep
<1>5. ASSUME NEW f \in Flushers, FlushStep(f) PROVE PlaceInv'
  <2>1. CASE FlushBegin(f)
    BY <2>1 DEF FlushBegin, historyVars, queueVars, startVars
  <2>2. CASE FlushReturn(f)
    BY <2>2 DEF FlushReturn, NoEvent, historyVars, queueVars, startVars
  <2>. QED BY <1>5, <2>1, <2>2 DEF FlushStep
<1>6. ASSUME NEW c \in Closers, CloseStep(c) PROVE PlaceInv'
  <2>1. CASE CloseSet(c)
    BY <2>1 DEF CloseSet, historyVars, queueVars, startVars
  <2>2. CASE ClosePost(c)
    BY <2>2 DEF ClosePost, Post, historyVars, startVars
  <2>. QED BY <1>6, <2>1, <2>2 DEF CloseStep
<1>. QED BY <1>1, <1>2, <1>3, <1>4, <1>5, <1>6 DEF Next

(* A Flush covers only operations that were submitted.                     *)
LEMMA FlushInvStep ==
    ASSUME StreamAssumption, TypeOK, StreamInv, [Next]_vars
    PROVE  FlushInv'
<1>. USE DEF TypeOK, StreamInv, FlushInv
<1>1. CASE UNCHANGED vars
  BY <1>1 DEF vars, callerVars, historyVars, queueVars, startVars
<1>2. CASE ThreadStep
  <2>1. CASE ThreadStart
    BY <2>1 DEF ThreadStart, Post, callerVars, historyVars
  <2>2. CASE ThreadLoop
    BY <2>2 DEF ThreadLoop, callerVars, historyVars, queueVars, startVars
  <2>3. CASE ThreadWait
    BY <2>3 DEF ThreadWait, callerVars, historyVars, startVars
  <2>4. CASE ThreadTake
    BY <2>4 DEF ThreadTake, callerVars, historyVars, startVars
  <2>5. CASE ThreadFinish
    BY <2>5 DEF ThreadFinish, callerVars, queueVars, startVars
  <2>6. CASE ThreadRetire
    BY <2>6 DEF ThreadRetire, callerVars, historyVars, startVars
  <2>7. CASE ThreadDrop
    BY <2>7 DEF ThreadDrop, callerVars, historyVars, queueVars, startVars
  <2>. QED BY <1>2, <2>1, <2>2, <2>3, <2>4, <2>5, <2>6, <2>7 DEF ThreadStep
<1>3. CASE CreatorStep
  <2>1. CASE Construct
    BY <2>1 DEF Construct, callerVars, historyVars, queueVars
  <2>2. CASE ConstructReturns
    BY <2>2 DEF ConstructReturns, callerVars, historyVars
  <2>3. CASE DestroyBegin
    BY <2>3 DEF DestroyBegin, callerVars, historyVars, queueVars
  <2>4. CASE DestroyPost
    BY <2>4 DEF DestroyPost, Post, callerVars, historyVars
  <2>5. CASE DestroyReturns
    BY <2>5 DEF DestroyReturns, callerVars, historyVars, queueVars
  <2>. QED BY <1>3, <2>1, <2>2, <2>3, <2>4, <2>5 DEF CreatorStep
<1>4. ASSUME NEW o \in Ops, OpStep(o) PROVE FlushInv'
  <2>1. CASE OpInsert(o)
    BY <2>1
     DEF OpInsert, Insert, CreatorReference, Count, NoEvent, historyVars, startVars
  <2>2. CASE OpPost(o)
    BY <2>2 DEF OpPost, Post, historyVars, startVars
  <2>3. CASE OpReturn(o)
    BY <2>3 DEF OpReturn, historyVars, queueVars, startVars
  <2>. QED BY <1>4, <2>1, <2>2, <2>3 DEF OpStep
<1>5. ASSUME NEW f \in Flushers, FlushStep(f) PROVE FlushInv'
  <2>1. CASE FlushBegin(f)
    BY <2>1 DEF FlushBegin, historyVars, queueVars, startVars
  <2>2. CASE FlushReturn(f)
    BY <2>2 DEF FlushReturn, NoEvent, historyVars, queueVars, startVars
  <2>. QED BY <1>5, <2>1, <2>2 DEF FlushStep
<1>6. ASSUME NEW c \in Closers, CloseStep(c) PROVE FlushInv'
  <2>1. CASE CloseSet(c)
    BY <2>1 DEF CloseSet, historyVars, queueVars, startVars
  <2>2. CASE ClosePost(c)
    BY <2>2 DEF ClosePost, Post, historyVars, startVars
  <2>. QED BY <1>6, <2>1, <2>2 DEF CloseStep
<1>. QED BY <1>1, <1>2, <1>3, <1>4, <1>5, <1>6 DEF Next

(* When the event lets a Flush return, nothing it covers is queued or in   *)
(* hand.                                                                   *)
LEMMA CoverStep ==
    ASSUME StreamAssumption, TypeOK, StreamInv, [Next]_vars
    PROVE  FlushCovers'
<1>. USE DEF TypeOK, StreamInv, FlushCovers, NoEvent
<1>1. CASE UNCHANGED vars
  BY <1>1 DEF vars, callerVars, historyVars, queueVars, startVars
<1>2. CASE ThreadStep
  <2>1. CASE ThreadStart
    BY <2>1 DEF ThreadStart, Post, callerVars, historyVars
  <2>2. CASE ThreadLoop
    BY <2>2 DEF ThreadLoop, callerVars, historyVars, queueVars, startVars
  <2>3. CASE ThreadWait
    BY <2>3 DEF ThreadWait, callerVars, historyVars, startVars
  <2>4. CASE ThreadTake
    BY <2>4 DEF ThreadTake, callerVars, historyVars, startVars
  <2>5. CASE ThreadFinish
    <3>1. Range(answered \o current) = Range(answered) \cup Range(current)
      BY RangeConcatenation
    <3>. QED BY <2>5, <3>1 DEF ThreadFinish, startVars, callerVars
  <2>6. CASE ThreadRetire
    BY <2>6 DEF ThreadRetire, callerVars, historyVars, startVars
  <2>7. CASE ThreadDrop
    BY <2>7 DEF ThreadDrop, callerVars, historyVars, queueVars, startVars
  <2>. QED BY <1>2, <2>1, <2>2, <2>3, <2>4, <2>5, <2>6, <2>7 DEF ThreadStep
<1>3. CASE CreatorStep
  <2>1. CASE Construct
    <3>1. ~NoEvent
      BY <2>1 DEF Construct, StartInv
    <3>. QED BY <2>1, <3>1 DEF Construct, callerVars, historyVars
  <2>2. CASE ConstructReturns
    BY <2>2 DEF ConstructReturns, callerVars, historyVars
  <2>3. CASE DestroyBegin
    BY <2>3 DEF DestroyBegin, callerVars, historyVars, queueVars
  <2>4. CASE DestroyPost
    BY <2>4 DEF DestroyPost, Post, callerVars, historyVars
  <2>5. CASE DestroyReturns
    BY <2>5 DEF DestroyReturns, callerVars, historyVars, queueVars
  <2>. QED BY <1>3, <2>1, <2>2, <2>3, <2>4, <2>5 DEF CreatorStep
<1>4. ASSUME NEW o \in Ops, OpStep(o) PROVE FlushCovers'
  <2>1. CASE OpInsert(o)
    BY <2>1
     DEF OpInsert, Insert, CreatorReference, Count, historyVars, startVars
  <2>2. CASE OpPost(o)
    BY <2>2 DEF OpPost, Post, historyVars, startVars
  <2>3. CASE OpReturn(o)
    BY <2>3 DEF OpReturn, historyVars, queueVars, startVars
  <2>. QED BY <1>4, <2>1, <2>2, <2>3 DEF OpStep
<1>5. ASSUME NEW f \in Flushers, FlushStep(f) PROVE FlushCovers'
  <2>1. CASE FlushBegin(f)
    BY <2>1 DEF FlushBegin, historyVars, queueVars, startVars
  <2>2. CASE FlushReturn(f)
    <3>1. ASSUME ~NoEvent PROVE covered[f] \subseteq Range(answered)
      <4>1. pendingOpCount = 0
        BY <2>2, <3>1 DEF FlushReturn, PendingExact
      <4>2. Len(opList) = 0 /\ Unretired = 0
        BY <4>1 DEF PendingExact, Unretired
      <4>3. opThread \notin {"process", "retire"}
        BY <4>2 DEF Unretired, CurrentInv
      <4>4. Range(current) \subseteq Range(answered)
        <5>1. CASE opThread = "drop"
          BY <5>1 DEF CurrentInv
        <5>2. CASE opThread # "drop"
          BY <4>3, <5>2, RangeEmpty DEF CurrentInv
        <5>. QED BY <5>1, <5>2
      <4>5. Range(opList) = {}
        BY <4>2, RangeEmpty
      <4>. QED BY <4>4, <4>5 DEF FlushInv, PlaceInv
    <3>. QED BY <2>2, <3>1 DEF FlushReturn, startVars, historyVars
  <2>. QED BY <1>5, <2>1, <2>2 DEF FlushStep
<1>6. ASSUME NEW c \in Closers, CloseStep(c) PROVE FlushCovers'
  <2>1. CASE CloseSet(c)
    BY <2>1 DEF CloseSet, historyVars, queueVars, startVars
  <2>2. CASE ClosePost(c)
    BY <2>2 DEF ClosePost, Post, historyVars, startVars
  <2>. QED BY <1>6, <2>1, <2>2 DEF CloseStep
<1>. QED BY <1>1, <1>2, <1>3, <1>4, <1>5, <1>6 DEF Next

(* Every step that gives away or drops a pointer to an operation calls     *)
(* AddRef or Release for it.                                               *)
LEMMA OpsStep ==
    ASSUME StreamAssumption, TypeOK, StreamInv, [Next]_vars
    PROVE  OpsCounted'
<1>. USE DEF TypeOK, StreamInv, OpsCounted, Owners
<1>1. CASE UNCHANGED vars
  BY <1>1 DEF vars, callerVars, historyVars, queueVars, startVars
<1>2. CASE ThreadStep
  <2>1. CASE ThreadStart
    BY <2>1 DEF ThreadStart, Post, callerVars, historyVars
  <2>2. CASE ThreadLoop
    BY <2>2 DEF ThreadLoop, callerVars, historyVars, queueVars, startVars
  <2>3. CASE ThreadWait
    BY <2>3 DEF ThreadWait, callerVars, historyVars, startVars
  <2>4. CASE ThreadTake
    <3>1. CASE opList = << >>
      BY <2>4, <3>1 DEF ThreadTake, callerVars
    <3>2. CASE opList # << >>
      <4>1. /\ Range(Tail(opList)) = Range(opList) \ {Head(opList)}
            /\ Head(opList) \in Range(opList)
        BY <3>2, TakeFirst DEF PlaceInv
      <4>2. Range(<<Head(opList)>>) = {Head(opList)} /\ Range(current) = {}
        BY <2>4, RangeSingleton, RangeEmpty DEF ThreadTake, CurrentInv
      <4>3. opList' = Tail(opList) /\ current' = <<Head(opList)>>
        BY <2>4, <3>2 DEF ThreadTake
      <4>4. Range(opList') \cup Range(current') = Range(opList) \cup Range(current)
        BY <4>1, <4>2, <4>3
      <4>. QED BY <2>4, <4>4 DEF ThreadTake, callerVars
    <3>. QED BY <3>1, <3>2
  <2>5. CASE ThreadFinish
    BY <2>5 DEF ThreadFinish, callerVars, queueVars, startVars
  <2>6. CASE ThreadRetire
    BY <2>6 DEF ThreadRetire, callerVars, historyVars, startVars
  <2>7. CASE ThreadDrop
    <3>1. Len(current) = 1 /\ current[1] \in Ops /\ current = <<current[1]>>
      BY <2>7, SeqFirst DEF ThreadDrop, CurrentInv
    <3>2. Range(current) = {current[1]} /\ Range(current') = {}
      BY <2>7, <3>1, RangeSingleton, RangeEmpty DEF ThreadDrop
    <3>3. current[1] \notin Range(opList)
      BY <3>2 DEF PlaceInv
    <3>. QED BY <2>7, <3>1, <3>2, <3>3 DEF ThreadDrop, queueVars, callerVars
  <2>. QED BY <1>2, <2>1, <2>2, <2>3, <2>4, <2>5, <2>6, <2>7 DEF ThreadStep
<1>3. CASE CreatorStep
  <2>1. CASE Construct
    BY <2>1 DEF Construct, callerVars, historyVars, queueVars
  <2>2. CASE ConstructReturns
    BY <2>2 DEF ConstructReturns, callerVars, historyVars
  <2>3. CASE DestroyBegin
    BY <2>3 DEF DestroyBegin, callerVars, historyVars, queueVars
  <2>4. CASE DestroyPost
    BY <2>4 DEF DestroyPost, Post, callerVars, historyVars
  <2>5. CASE DestroyReturns
    BY <2>5 DEF DestroyReturns, callerVars, historyVars, queueVars
  <2>. QED BY <1>3, <2>1, <2>2, <2>3, <2>4, <2>5 DEF CreatorStep
<1>4. ASSUME NEW o \in Ops, OpStep(o) PROVE OpsCounted'
  <2>1. CASE OpInsert(o)
    <3>1. o \notin Range(opList) \cup Range(current)
      BY <2>1 DEF OpInsert, PlaceInv
    <3>2. Range(opList') = Range(opList) \cup {o} /\ current' = current
      BY <2>1, AppendFresh DEF OpInsert, Insert, CreatorReference
    <3>3. refCount' = [refCount EXCEPT ![o] = 2] /\ call' = [call EXCEPT ![o] = "inserted"]
      BY <2>1 DEF OpInsert, Insert, CreatorReference
    <3>. QED BY <3>1, <3>2, <3>3
  <2>2. CASE OpPost(o)
    <3>1. opList' = opList /\ current' = current /\ call[o] = "inserted"
      BY <2>2 DEF OpPost
    <3>2. CASE o \in SyncOps
      <4>1. call' = [call EXCEPT ![o] = "waiting"] /\ refCount' = refCount
        BY <2>2, <3>2 DEF OpPost
      <4>. QED BY <3>1, <4>1
    <3>3. CASE o \notin SyncOps
      <4>1. /\ call' = [call EXCEPT ![o] = "returned"]
            /\ refCount' = [refCount EXCEPT ![o] = @ - 1]
        BY <2>2, <3>3 DEF OpPost
      <4>. QED BY <3>1, <4>1
    <3>. QED BY <3>2, <3>3
  <2>3. CASE OpReturn(o)
    BY <2>3 DEF OpReturn, historyVars, queueVars, startVars
  <2>. QED BY <1>4, <2>1, <2>2, <2>3 DEF OpStep
<1>5. ASSUME NEW f \in Flushers, FlushStep(f) PROVE OpsCounted'
  <2>1. CASE FlushBegin(f)
    BY <2>1 DEF FlushBegin, historyVars, queueVars, startVars
  <2>2. CASE FlushReturn(f)
    BY <2>2 DEF FlushReturn, NoEvent, historyVars, queueVars, startVars
  <2>. QED BY <1>5, <2>1, <2>2 DEF FlushStep
<1>6. ASSUME NEW c \in Closers, CloseStep(c) PROVE OpsCounted'
  <2>1. CASE CloseSet(c)
    BY <2>1 DEF CloseSet, historyVars, queueVars, startVars
  <2>2. CASE ClosePost(c)
    BY <2>2 DEF ClosePost, Post, historyVars, startVars
  <2>. QED BY <1>6, <2>1, <2>2 DEF CloseStep
<1>. QED BY <1>1, <1>2, <1>3, <1>4, <1>5, <1>6 DEF Next

(* Every step keeps the types; that the counters stay natural numbers      *)
(* needs PendingExact, OpsCounted and NoLostWakeup.                        *)
LEMMA TypeStep ==
    ASSUME StreamAssumption, TypeOK, StreamInv, [Next]_vars
    PROVE  TypeOK'
<1>. USE DEF TypeOK
<1>1. CASE UNCHANGED vars
  BY <1>1 DEF vars, callerVars, historyVars, queueVars, startVars
<1>2. CASE ThreadStep
  <2>1. CASE ThreadStart
    BY <2>1 DEF ThreadStart, Post, callerVars, historyVars
  <2>2. CASE ThreadLoop
    BY <2>2 DEF ThreadLoop, callerVars, historyVars, queueVars, startVars
  <2>3. CASE ThreadWait
    BY <2>3 DEF ThreadWait, callerVars, historyVars, startVars
  <2>4. CASE ThreadTake
    <3>1. opList' \in Seq(Ops) /\ current' \in Seq(Ops)
      <4>1. CASE opList = << >>
        BY <2>4, <4>1 DEF ThreadTake
      <4>2. CASE opList # << >>
        <5>1. Head(opList) \in Ops /\ Tail(opList) \in Seq(Ops)
          BY <4>2, HeadTailProperties
        <5>2. <<Head(opList)>> \in Seq(Ops)
          BY <5>1, SeqSingleton
        <5>. QED BY <2>4, <4>2, <5>1, <5>2 DEF ThreadTake
      <4>. QED BY <4>1, <4>2
    <3>. QED BY <2>4, <3>1 DEF ThreadTake, startVars, callerVars, historyVars
  <2>5. CASE ThreadFinish
    BY <2>5 DEF ThreadFinish, callerVars, queueVars, startVars
  <2>6. CASE ThreadRetire
    <3>1. Len(opList) \in Nat /\ pendingOpCount = Len(opList) + 1
      BY <2>6 DEF ThreadRetire, StreamInv, PendingExact, Unretired, CurrentInv
    <3>2. pendingOpCount' \in Nat
      BY <2>6, <3>1 DEF ThreadRetire
    <3>3. flushedEvent' \in BOOLEAN
      BY <2>6 DEF ThreadRetire
    <3>. QED BY <2>6, <3>2, <3>3
              DEF ThreadRetire, startVars, callerVars, historyVars
  <2>7. CASE ThreadDrop
    <3>1. current[1] \in Ops /\ Range(current) = {current[1]}
      <4>1. current = <<current[1]>> /\ current[1] \in Ops
        BY <2>7, SeqFirst DEF ThreadDrop, StreamInv, CurrentInv
      <4>. QED BY <4>1, RangeSingleton
    <3>2. refCount[current[1]] \in Nat \ {0}
      <4>1. current[1] \in Range(opList) \cup Range(current)
        BY <3>1
      <4>2. Owners(current[1]) >= 1
        BY <4>1 DEF Owners
      <4>. QED BY <3>1, <4>2 DEF StreamInv, OpsCounted
    <3>3. refCount' \in [Ops -> Nat] /\ current' \in Seq(Ops)
      BY <2>7, <3>1, <3>2, EmptySeq DEF ThreadDrop
    <3>. QED BY <2>7, <3>3
              DEF ThreadDrop, startVars, queueVars, callerVars, historyVars
  <2>. QED BY <1>2, <2>1, <2>2, <2>3, <2>4, <2>5, <2>6, <2>7 DEF ThreadStep
<1>3. CASE CreatorStep
  <2>1. CASE Construct
    BY <2>1 DEF Construct, callerVars, historyVars, queueVars
  <2>2. CASE ConstructReturns
    BY <2>2 DEF ConstructReturns, callerVars, historyVars
  <2>3. CASE DestroyBegin
    BY <2>3 DEF DestroyBegin, callerVars, historyVars, queueVars
  <2>4. CASE DestroyPost
    BY <2>4 DEF DestroyPost, Post, callerVars, historyVars
  <2>5. CASE DestroyReturns
    BY <2>5 DEF DestroyReturns, callerVars, historyVars, queueVars
  <2>. QED BY <1>3, <2>1, <2>2, <2>3, <2>4, <2>5 DEF CreatorStep
<1>4. ASSUME NEW o \in Ops, OpStep(o) PROVE TypeOK'
  <2>1. CASE OpInsert(o)
    <3>1. opList' \in Seq(Ops) /\ refCount' \in [Ops -> Nat]
      BY <2>1, AppendProperties DEF OpInsert, Insert, CreatorReference
    <3>2. pendingOpCount' \in Nat
      BY <2>1 DEF OpInsert, Count
    <3>3. flushedEvent' \in BOOLEAN
      <4>1. flushedEvent \in BOOLEAN
        OBVIOUS
      <4>2. \/ flushedEvent' = flushedEvent
            \/ flushedEvent' = (flushedEvent /\ pendingOpCount # 0)
        BY <2>1 DEF OpInsert, Count
      <4>. QED BY <4>1, <4>2
    <3>. QED BY <2>1, <3>1, <3>2, <3>3 DEF OpInsert, startVars, historyVars
  <2>2. CASE OpPost(o)
    <3>0. call[o] = "inserted"
      BY <2>2 DEF OpPost
    <3>1. refCount[o] \in Nat \ {0}
      <4>1. Owners(o) >= 1
        BY <3>0 DEF Owners
      <4>. QED BY <4>1 DEF StreamInv, OpsCounted
    <3>2. refCount' \in [Ops -> Nat]
      <4>1. CASE o \in SyncOps
        BY <2>2, <4>1 DEF OpPost
      <4>2. CASE o \notin SyncOps
        BY <2>2, <3>1, <4>2 DEF OpPost
      <4>. QED BY <4>1, <4>2
    <3>3. opListSemaphore' \in Nat
      BY <2>2 DEF OpPost, Post
    <3>4. call' \in [Ops -> {"new", "inserted", "waiting", "returned"}]
      BY <2>2 DEF OpPost
    <3>. QED BY <2>2, <3>2, <3>3, <3>4 DEF OpPost, startVars, historyVars
  <2>3. CASE OpReturn(o)
    <3>0. Owners(o) >= 1
      BY <2>3 DEF OpReturn, Owners
    <3>1. refCount[o] \in Nat \ {0}
      BY <3>0 DEF StreamInv, OpsCounted
    <3>2. refCount' \in [Ops -> Nat]
      BY <2>3, <3>1 DEF OpReturn
    <3>. QED BY <2>3, <3>2 DEF OpReturn, startVars, queueVars, historyVars
  <2>. QED BY <1>4, <2>1, <2>2, <2>3 DEF OpStep
<1>5. ASSUME NEW f \in Flushers, FlushStep(f) PROVE TypeOK'
  <2>1. CASE FlushBegin(f)
    BY <2>1 DEF FlushBegin, historyVars, queueVars, startVars
  <2>2. CASE FlushReturn(f)
    BY <2>2 DEF FlushReturn, NoEvent, historyVars, queueVars, startVars
  <2>. QED BY <1>5, <2>1, <2>2 DEF FlushStep
<1>6. ASSUME NEW c \in Closers, CloseStep(c) PROVE TypeOK'
  <2>1. CASE CloseSet(c)
    BY <2>1 DEF CloseSet, historyVars, queueVars, startVars
  <2>2. CASE ClosePost(c)
    BY <2>2 DEF ClosePost, Post, historyVars, startVars
  <2>. QED BY <1>6, <2>1, <2>2 DEF CloseStep
<1>. QED BY <1>1, <1>2, <1>3, <1>4, <1>5, <1>6 DEF Next

(***************************************************************************)
(* The theorems.                                                           *)
(***************************************************************************)
LEMMA InitHolds ==
    ASSUME StreamAssumption, Init
    PROVE  TypeOK /\ StreamInv
<1>1. TypeOK
  <2>1. << >> \in Seq(Ops)
    BY EmptySeq
  <2>. QED BY <2>1 DEF Init, TypeOK
<1>2. CurrentInv /\ FlushInv /\ LateInv /\ StartInv
  BY DEF Init, CurrentInv, FlushInv, LateInv, StartInv
<1>3. PlaceInv
  <2>1. Range(<< >>) = {}
    BY RangeEmpty
  <2>2. IsInjective(<< >>)
    BY DEF IsInjective
  <2>. QED BY <2>1, <2>2 DEF Init, PlaceInv
<1>4. NoLostWakeup
  BY InsertedCount DEF Init, NoLostWakeup
<1>5. PendingExact /\ FlushCovers
  BY DEF Init, PendingExact, Unretired, FlushCovers, NoEvent
<1>6. OpsCounted
  BY RangeEmpty DEF Init, OpsCounted, Owners
<1>. QED BY <1>1, <1>2, <1>3, <1>4, <1>5, <1>6 DEF StreamInv

(* The types and the invariant hold in every state of the stream.          *)
LEMMA Invariance == Spec => [](TypeOK /\ StreamInv)
<1>1. Init => TypeOK /\ StreamInv
  BY InitHolds, StreamAssumption
<1>2. TypeOK /\ StreamInv /\ [Next]_vars => (TypeOK /\ StreamInv)'
  BY StreamAssumption, TypeStep, CurrentStep, LateStep, StartStep, WakeupStep,
     PendingStep, PlaceStep, FlushInvStep, CoverStep, OpsStep DEF StreamInv
<1>. QED BY <1>1, <1>2, PTL DEF Spec

(* Every variable keeps its type; in particular no reference count and no  *)
(* counter of pending operations drops below zero.                         *)
THEOREM TypeCorrect == Spec => []TypeOK
BY Invariance, PTL

(* OpRecordInsert posts the semaphore after it left the lock, and Close,   *)
(* the constructor and the destructor use the same semaphore; still no     *)
(* queued operation is ever left without a token that will wake the thread. *)
THEOREM WakeupsKept == Spec => []NoLostWakeup
<1>1. StreamInv => NoLostWakeup
  BY DEF StreamInv
<1>. QED BY <1>1, Invariance, PTL

(* pendingOpCount and flushedEvent agree with the queue in every state.    *)
THEOREM PendingCounted == Spec => []PendingExact
<1>1. StreamInv => PendingExact
  BY DEF StreamInv
<1>. QED BY <1>1, Invariance, PTL

(* A Flush that returned has covered every operation submitted before it.  *)
THEOREM FlushIsComplete == Spec => []FlushCovers
<1>1. StreamInv => FlushCovers
  BY DEF StreamInv
<1>. QED BY <1>1, Invariance, PTL

(* An operation is freed exactly when caller, list and thread are done.    *)
THEOREM OpsFreedExactly == Spec => []OpsCounted
<1>1. StreamInv => OpsCounted
  BY DEF StreamInv
<1>. QED BY <1>1, Invariance, PTL

(***************************************************************************)
(* The stream implements MFStreamService.                                  *)
(***************************************************************************)
LEMMA ServiceInit == Init => Service!Init
<1>. SUFFICES ASSUME Init PROVE Service!Init
  OBVIOUS
<1>1. << >> \o << >> = << >>
  OBVIOUS
<1>2. {o \in Ops : call[o] # "new"} = {}
  BY DEF Init
<1>. QED BY <1>1, <1>2 DEF Init, Service!Init

(* Submitting, answering and closing are the service's own actions; every  *)
(* other step of the stream leaves what the service shows unchanged.       *)
LEMMA ServiceStep ==
    ASSUME StreamAssumption, TypeOK, StreamInv, [Next]_vars
    PROVE  [Service!Next]_(Service!vars)
<1>. DEFINE S == {o \in Ops : call[o] # "new"}
            busy == IF opThread = "process" THEN current ELSE << >>
            W == busy \o opList
            kept == UNCHANGED <<S, W, answered, closed, late>>
<1>. USE DEF TypeOK
<1>0. kept => UNCHANGED Service!vars
  BY DEF Service!vars
<1>1. CASE UNCHANGED vars
  BY <1>0, <1>1 DEF vars, queueVars, callerVars, historyVars
<1>2. CASE ThreadStep
  <2>0. callerVars' = callerVars => S' = S
    BY DEF callerVars
  <2>1. CASE ThreadStart
    BY <1>0, <2>0, <2>1 DEF ThreadStart, historyVars
  <2>2. CASE ThreadLoop
    BY <1>0, <2>0, <2>2 DEF ThreadLoop, queueVars, historyVars
  <2>3. CASE ThreadWait
    BY <1>0, <2>0, <2>3 DEF ThreadWait, historyVars
  <2>4. CASE ThreadTake
    <3>1. busy = << >> /\ W = opList
      BY <2>4 DEF ThreadTake
    <3>2. W' = opList
      <4>1. CASE opList = << >>
        BY <2>4, <4>1 DEF ThreadTake
      <4>2. CASE opList # << >>
        <5>1. <<Head(opList)>> \o Tail(opList) = opList
          BY <4>2, HeadTailBack
        <5>. QED BY <2>4, <4>2, <5>1 DEF ThreadTake
      <4>. QED BY <4>1, <4>2
    <3>. QED BY <1>0, <2>0, <2>4, <3>1, <3>2 DEF ThreadTake, historyVars
  <2>5. CASE ThreadFinish
    <3>1. Len(current) = 1 /\ current = <<current[1]>> /\ current[1] \in Ops
      BY <2>5, SeqFirst DEF ThreadFinish, StreamInv, CurrentInv
    <3>2. W = <<current[1]>> \o opList /\ W' = opList
      <4>1. busy = current /\ busy' = << >> /\ opList' = opList
        BY <2>5 DEF ThreadFinish, queueVars
      <4>2. << >> \o opList = opList
        BY ConcatEmptySeq
      <4>. QED BY <3>1, <4>1, <4>2
    <3>3. W # << >> /\ Head(W) = current[1] /\ Tail(W) = opList
      <4>1. /\ <<current[1]>> \o opList # << >>
            /\ Head(<<current[1]>> \o opList) = current[1]
            /\ Tail(<<current[1]>> \o opList) = opList
        BY <3>1, ConsBack
      <4>. QED BY <3>2, <4>1
    <3>4. answered' = Append(answered, current[1])
      <4>1. answered \o <<current[1]>> = Append(answered, current[1])
        BY <3>1, AppendIsConcat
      <4>. QED BY <2>5, <3>1, <4>1 DEF ThreadFinish
    <3>5. late = 0 /\ late' = IF closed THEN 1 ELSE 0
      BY <2>5 DEF ThreadFinish, StreamInv, LateInv
    <3>6. S' = S /\ closed' = closed
      BY <2>0, <2>5 DEF ThreadFinish
    <3>7. Service!Answer
      BY <3>2, <3>3, <3>4, <3>5, <3>6 DEF Service!Answer
    <3>. QED BY <3>7 DEF Service!Next
  <2>6. CASE ThreadRetire
    BY <1>0, <2>0, <2>6 DEF ThreadRetire, historyVars
  <2>7. CASE ThreadDrop
    BY <1>0, <2>0, <2>7 DEF ThreadDrop, queueVars, historyVars
  <2>. QED BY <1>2, <2>1, <2>2, <2>3, <2>4, <2>5, <2>6, <2>7 DEF ThreadStep
<1>3. CASE CreatorStep
  <2>0. callerVars' = callerVars => S' = S
    BY DEF callerVars
  <2>1. CASE Construct
    <3>1. opThread = "none" /\ opThread' \in {"none", "starting"}
      BY <2>1 DEF Construct, StreamInv, StartInv
    <3>. QED BY <1>0, <2>0, <2>1, <3>1 DEF Construct, queueVars, historyVars
  <2>2. CASE ConstructReturns
    BY <1>0, <2>0, <2>2 DEF ConstructReturns, historyVars
  <2>3. CASE DestroyBegin
    <3>1. S' = S /\ W' = W /\ UNCHANGED <<answered, late>>
      BY <2>0, <2>3 DEF DestroyBegin, queueVars, historyVars
    <3>2. CASE startup = "ok"
      <4>1. closed' = TRUE
        BY <2>3, <3>2 DEF DestroyBegin
      <4>. QED BY <3>1, <4>1 DEF Service!Next, Service!Close
    <3>3. CASE startup # "ok"
      BY <1>0, <2>3, <3>1, <3>3 DEF DestroyBegin
    <3>. QED BY <3>2, <3>3
  <2>4. CASE DestroyPost
    BY <1>0, <2>0, <2>4 DEF DestroyPost, historyVars
  <2>5. CASE DestroyReturns
    BY <1>0, <2>0, <2>5 DEF DestroyReturns, queueVars, historyVars
  <2>. QED BY <1>3, <2>1, <2>2, <2>3, <2>4, <2>5 DEF CreatorStep
<1>4. ASSUME NEW o \in Ops, OpStep(o) PROVE [Service!Next]_(Service!vars)
  <2>1. CASE OpInsert(o)
    <3>1. S' = S \cup {o} /\ o \notin S
      BY <2>1 DEF OpInsert
    <3>2. opList' = Append(opList, o) /\ busy' = busy
      BY <2>1 DEF OpInsert, Insert, CreatorReference
    <3>3. W' = Append(W, o)
      <4>1. busy \in Seq(Ops)
        <5>1. << >> \in Seq(Ops) /\ current \in Seq(Ops)
          BY EmptySeq
        <5>. QED BY <5>1
      <4>2. W' = busy \o Append(opList, o)
        BY <3>2
      <4>. HIDE DEF busy
      <4>3. busy \o Append(opList, o) = Append(busy \o opList, o)
        BY <4>1, AppendConcat
      <4>. QED BY <4>2, <4>3
    <3>4. Service!Submit(o)
      BY <2>1, <3>1, <3>3 DEF OpInsert, historyVars, Service!Submit
    <3>. QED BY <3>4 DEF Service!Next
  <2>2. CASE OpPost(o)
    <3>1. S' = S
      BY <2>2 DEF OpPost
    <3>. QED BY <1>0, <2>2, <3>1 DEF OpPost, historyVars
  <2>3. CASE OpReturn(o)
    <3>1. S' = S
      BY <2>3 DEF OpReturn
    <3>. QED BY <1>0, <2>3, <3>1 DEF OpReturn, queueVars, historyVars
  <2>. QED BY <1>4, <2>1, <2>2, <2>3 DEF OpStep
<1>5. ASSUME NEW f \in Flushers, FlushStep(f) PROVE [Service!Next]_(Service!vars)
  BY <1>0, <1>5 DEF FlushStep, FlushBegin, FlushReturn, queueVars, historyVars
<1>6. ASSUME NEW c \in Closers, CloseStep(c) PROVE [Service!Next]_(Service!vars)
  <2>1. CASE CloseSet(c)
    BY <2>1 DEF CloseSet, queueVars, historyVars, Service!Next, Service!Close
  <2>2. CASE ClosePost(c)
    BY <1>0, <2>2 DEF ClosePost, historyVars
  <2>. QED BY <1>6, <2>1, <2>2 DEF CloseStep
<1>. QED BY <1>1, <1>2, <1>3, <1>4, <1>5, <1>6 DEF Next

(* Seen through its queue, the stream is a FIFO service: what it answers,  *)
(* it answers once and in order, and at most one operation after Close.    *)
THEOREM Refinement == Spec => ImplementsService
<1>1. Init => Service!Init
  BY ServiceInit
<1>2. TypeOK /\ StreamInv /\ [Next]_vars => [Service!Next]_(Service!vars)
  BY ServiceStep, StreamAssumption
<1>. QED BY <1>1, <1>2, Invariance, PTL
          DEF Spec, ImplementsService, Service!Spec

=============================================================================

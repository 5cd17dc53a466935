------------------------ MODULE MFBrokerClientProofs ------------------------
(***************************************************************************)
(* Proofs about MFBrokerClient for every set of application threads and    *)
(* every bound.  The argument is one joint induction on TypeOK /\ IInv:    *)
(*   - ConnStep, WorkerStepType, CallerStep, HistoryStep: TypeOK;          *)
(*   - HandStep, CountStep, RecvStep, CallStep: what each program counter  *)
(*     says of the message in hand, the count of connections, the list of  *)
(*     received messages and the calls in progress;                        *)
(*   - RefStep: ReferenceCount moves with its owners;                      *)
(*   - FinalStep, SocketStep, FaultStep: what that means for the slot, the *)
(*     socket handle and undefined behaviour.                              *)
(* Each of them has one case per action.                                   *)
(* The order and the checking of messages follow from a second induction,  *)
(* on MessagesInv, beside it.                                              *)
(***************************************************************************)
EXTENDS MFBrokerClient, SequenceTheorems, FiniteSetTheorems, TLAPS

(***************************************************************************)
(* The inductive invariant.                                                *)
(***************************************************************************)
(* A message is off the queue exactly while it is being sent.              *)
HandInv == Len(hand) = IF wpc \in {"popped", "check", "send", "putDown"}
                       THEN 1 ELSE 0

(* The worker counts the connection as long as the table's reference is    *)
(* there, and looks at its events only then.                               *)
InPass == {"scan", "recv", "verify", "cannotVerify", "hup", "hupMark",
           "hupRelease", "drain", "popped", "check", "send", "putDown"}

CountInv ==
    /\ wpc \in {"build", "poll"} => fdCount = connectionCount
    /\ wpc \in InPass => base /\ connectionCount = 1
    /\ wpc = "hupCount" => ~base /\ connectionCount = 1
    /\ wpc \notin {"hupCount", "done"} => (base <=> connectionCount = 1)

(* Released entries are a prefix of recvList; the loop starts with all of  *)
(* it released.                                                            *)
RecvInv ==
    /\ freed <= Len(recvList) /\ cursor <= freed + 1
    /\ wpc = "ready" => cursor <= Len(recvList)
    /\ wpc \notin {"dispatch", "ready"} => cursor = 1
    /\ wpc \in {"loop", "build", "poll", "done"} => freed = Len(recvList)
    /\ wpc = "verify" => Len(incoming) = 1
    /\ wpc = "cannotVerify" => Len(incoming) = 1

(* A thread inside a call owns a reference; MFBroker_Free starts without.  *)
CallInv ==
    /\ \A t \in Apps : apc[t] # "idle" => t \in holders
    /\ freePc # "idle" => holders = {}
    /\ freePc \in {"clear", "release", "freed"} => wpc = "done"
    /\ freePc \in {"clear", "release"} => state # "free"
    /\ freePc = "release" => base /\ queue = << >>

(* A slot in use has a positive count, a free one a count of zero.         *)
FinalInv ==
    /\ state # "free" => refCount >= 1
    /\ state = "free" /\ staleReleases = 0 => refCount = 0

(* A handle closed but still stored has its closer behind it.              *)
SocketInv == socket = "closed" => Disconnecting # {}

(* Received messages are in the order in which the peer sent them, and     *)
(* what it sent last is in the stream.                                     *)
Rising(s) == \A i, j \in DOMAIN s : i < j => s[i].n < s[j].n

Received(last) ==
    /\ \A i \in DOMAIN recvList :
          recvList[i].n < last \/ (incoming = << >> /\ recvList[i].n = last)
    /\ incoming # << >> => incoming[1].n = last
    /\ \A i \in DOMAIN inbox : inbox[i].n \in last + 1 .. arrived

ReceivedInv ==
    /\ Rising(recvList) /\ Rising(inbox)
    /\ incoming # << >> => wpc \in {"verify", "cannotVerify"}
    /\ \E last \in 0 .. arrived : Received(last)

(* What was delivered was received and checked; what was received and not  *)
(* dispatched is new to the application.                                   *)
DeliveredInv ==
    /\ \A m \in Range(recvList) : m.kind = "forged" => m.n \in waived
    /\ Range(delivered) \subseteq Range(recvList)
    /\ IsFiniteSet(Range(delivered))
    /\ \A i \in DOMAIN recvList :
          (i > freed /\ ~(wpc = "ready" /\ i = cursor)) =>
              recvList[i] \notin Range(delivered)

(* State says that there is a key as soon as the first was copied.         *)
Keying == {t \in Apps : apc[t] = "keying"}

KeyInv ==
    /\ (state = "established" \/ Keying # {}) => keysSet >= 1
    /\ \A t, u \in Keying : t # u => keysSet >= 2
    /\ key = "torn" /\ state = "established" => keysSet >= 2

IInv ==
    /\ HandInv /\ CountInv /\ RecvInv /\ CallInv /\ RefAccounting
    /\ FinalInv /\ SocketInv /\ FaultCauses

(* What CallerOrder and CheckedAndOnce need in addition.                   *)
SentInv == \A t \in Inserting : sends[t] >= 1

MessagesInv ==
    /\ CallerOrder /\ SentInv
    /\ ReceivedInv /\ DeliveredInv /\ KeyInv /\ CheckedAndOnce

(***************************************************************************)
(* Sequences.                                                              *)
(***************************************************************************)
(* The only element of a sequence of length one is in its set.             *)
LEMMA SeqFirst ==
    ASSUME NEW S, NEW s \in Seq(S), Len(s) = 1
    PROVE  s[1] \in S
OBVIOUS

(* One element makes a sequence.                                           *)
LEMMA SeqSingleton ==
    ASSUME NEW S, NEW e \in S
    PROVE  <<e>> \in Seq(S)
OBVIOUS

(* Appending commutes with concatenation on the left.                      *)
LEMMA AppendConcat ==
    ASSUME NEW S, NEW e \in S, NEW s \in Seq(S), NEW u \in Seq(S)
    PROVE  s \o Append(u, e) = Append(s \o u, e)
OBVIOUS

(* The empty sequence has no elements.                                     *)
LEMMA RangeEmpty == Range(<< >>) = {}
BY DEF Range

(* A new element at the end of a sequence without repetitions.             *)
LEMMA AppendFresh ==
    ASSUME NEW S, NEW s \in Seq(S), NEW e \in S
    PROVE  /\ Range(Append(s, e)) = Range(s) \cup {e}
           /\ IsInjective(s) /\ e \notin Range(s) => IsInjective(Append(s, e))
<1>. DEFINE u == Append(s, e)
<1>1. /\ DOMAIN u = 1 .. Len(s) + 1 /\ DOMAIN s = 1 .. Len(s)
      /\ Len(s) \in Nat
      /\ u[Len(s) + 1] = e
      /\ \A i \in 1 .. Len(s) : u[i] = s[i]
  OBVIOUS
<1>2. Range(u) = Range(s) \cup {e}
  <2>1. ASSUME NEW x \in Range(u) PROVE x \in Range(s) \cup {e}
    <3>1. PICK i \in 1 .. Len(s) + 1 : x = u[i]
      BY <1>1, <2>1 DEF Range
    <3>. QED BY <1>1, <3>1 DEF Range
  <2>2. ASSUME NEW x \in Range(s) PROVE x \in Range(u)
    <3>1. PICK i \in 1 .. Len(s) : x = s[i]
      BY <1>1, <2>2 DEF Range
    <3>2. i \in DOMAIN u /\ u[i] = x
      BY <1>1, <3>1
    <3>. QED BY <3>2 DEF Range
  <2>3. e \in Range(u)
    <3>1. Len(s) + 1 \in DOMAIN u
      BY <1>1
    <3>. QED BY <1>1, <3>1 DEF Range
  <2>. QED BY <2>1, <2>2, <2>3
<1>3. ASSUME IsInjective(s), e \notin Range(s) PROVE IsInjective(u)
  <2>1. \A i \in 1 .. Len(s) : s[i] # e
    BY <1>1, <1>3 DEF Range
  <2>2. \A i, j \in 1 .. Len(s) : s[i] = s[j] => i = j
    BY <1>1, <1>3 DEF IsInjective
  <2>3. ASSUME NEW i \in 1 .. Len(s) + 1, NEW j \in 1 .. Len(s) + 1,
               u[i] = u[j]
        PROVE  i = j
    BY <1>1, <2>1, <2>2, <2>3
  <2>. QED BY <1>1, <2>3 DEF IsInjective
<1>. QED BY <1>2, <1>3

(***************************************************************************)
(* Types.                                                                  *)
(***************************************************************************)
LEMMA ConnStep ==
    ASSUME ClientAssumption, TypeOK, CountInv, [Next]_vars
    PROVE  ConnectionType'
<1>. USE DEF TypeOK, ConnectionType, CallerType, WorkerType, CountInv,
         InPass, WorkerPoints
<1>1. CASE UNCHANGED vars
  BY <1>1 DEF vars, connVars, keyVars, brokerVars
<1>2. CASE WorkerLoopStep
  BY <1>2
     DEF WorkerLoopStep, WorkerResize, WorkerResizeFails, WorkerKeepArray,
         WorkerExit, WorkerBuild, WorkerNullConnection, WorkerPollReady,
         WorkerPollTimeout, WorkerPollFails, WorkerScan, PollEntry,
         Reportable, AfterReceive, connVars, keyVars, brokerVars
<1>3. CASE WorkerReceiveStep
  <2>1. CASE WorkerReceive
    BY <2>1 DEF WorkerReceive, connVars, keyVars, brokerVars
  <2>2. CASE WorkerReceiveFails
    BY <2>2 DEF WorkerReceiveFails, connVars, keyVars, brokerVars
  <2>3. CASE WorkerReceiveNoMemory
    BY <2>3 DEF WorkerReceiveNoMemory, connVars, keyVars, brokerVars
  <2>4. CASE WorkerVerify
    BY <2>4 DEF WorkerVerify, FinishReceive, Accept, connVars, keyVars,
                brokerVars
  <2>5. CASE WorkerCannotVerify
    BY <2>5 DEF WorkerCannotVerify, FinishReceive, Accept, connVars, keyVars,
                brokerVars
  <2>. QED BY <1>3, <2>1, <2>2, <2>3, <2>4, <2>5 DEF WorkerReceiveStep
<1>4. CASE WorkerHangUpStep
  <2>1. CASE WorkerHangUp
    BY <2>1 DEF WorkerHangUp, CloseSocket, keyVars, brokerVars
  <2>2. CASE WorkerHangUpMark
    BY <2>2 DEF WorkerHangUpMark, keyVars, brokerVars
  <2>3. CASE WorkerHangUpRelease
    <3>1. base' \in BOOLEAN
      BY <2>3 DEF WorkerHangUpRelease
    <3>. QED BY <2>3, <3>1 DEF WorkerHangUpRelease, ReleaseConnection, keyVars
  <2>4. CASE WorkerHangUpCount
    BY <2>4 DEF WorkerHangUpCount, AfterHangUp, connVars, keyVars
  <2>. QED BY <1>4, <2>1, <2>2, <2>3, <2>4 DEF WorkerHangUpStep
<1>5. CASE WorkerDrainStep
  <2>1. CASE WorkerPop
    BY <2>1 DEF WorkerPop, keyVars, brokerVars
  <2>2. CASE WorkerDrainEnds
    BY <2>2 DEF WorkerDrainEnds, connVars, keyVars, brokerVars
  <2>3. CASE WorkerPrepare
    BY <2>3 DEF WorkerPrepare, connVars, keyVars, brokerVars
  <2>4. CASE WorkerCheck
    BY <2>4 DEF WorkerCheck, connVars, keyVars, brokerVars
  <2>5. CASE WorkerSend
    BY <2>5 DEF WorkerSend, connVars, keyVars, brokerVars
  <2>6. CASE WorkerPutDown
    BY <2>6 DEF WorkerPutDown, ReleaseConnection, keyVars, brokerVars
  <2>. QED BY <1>5, <2>1, <2>2, <2>3, <2>4, <2>5, <2>6 DEF WorkerDrainStep
<1>6. CASE WorkerDispatchStep
  <2>1. CASE WorkerReady
    BY <2>1 DEF WorkerReady, connVars, keyVars, brokerVars
  <2>2. CASE WorkerUseAfterFree
    BY <2>2 DEF WorkerUseAfterFree, connVars, keyVars, brokerVars
  <2>3. CASE WorkerReadyReturns
    BY <2>3 DEF WorkerReadyReturns, ReleaseConnection, keyVars, brokerVars
  <2>4. CASE WorkerDispatched
    BY <2>4 DEF WorkerDispatched, connVars, keyVars, brokerVars
  <2>. QED BY <1>6, <2>1, <2>2, <2>3, <2>4 DEF WorkerDispatchStep
<1>7. CASE FreeStep
  <2>1. CASE FreeTerminate
    BY <2>1 DEF FreeTerminate, connVars, keyVars
  <2>2. CASE FreeWait
    BY <2>2 DEF FreeWait, connVars, keyVars
  <2>3. CASE FreeClear
    BY <2>3 DEF FreeClear, keyVars
  <2>4. CASE FreeClearTwice
    BY <2>4 DEF FreeClearTwice, connVars, keyVars, brokerVars
  <2>5. CASE FreeRelease
    <3>1. base' \in BOOLEAN
      BY <2>5 DEF FreeRelease
    <3>. QED BY <2>5, <3>1 DEF FreeRelease, ReleaseConnection, keyVars
  <2>. QED BY <1>7, <2>1, <2>2, <2>3, <2>4, <2>5 DEF FreeStep
<1>8. CASE PeerStep
  BY <1>8 DEF PeerStep, PeerSends, PeerCloses, connVars, keyVars, brokerVars
<1>9. ASSUME NEW t \in Apps, AppStep(t) PROVE ConnectionType'
  <2>1. CASE AppAddRef(t)
    BY <2>1 DEF AppAddRef, keyVars, brokerVars
  <2>2. CASE AppRelease(t)
    BY <2>2 DEF AppRelease, MayUse, ReleaseConnection, keyVars, brokerVars
  <2>3. CASE AppSend(t)
    BY <2>3 DEF AppSend, MayUse, keyVars, brokerVars
  <2>4. CASE AppInsert(t)
    <3>1. <<t, sends[t]>> \in OutgoingMessage
      BY <2>4 DEF OutgoingMessage, ClientAssumption
    <3>2. queue' \in Seq(OutgoingMessage)
      BY <2>4, <3>1, AppendProperties DEF AppInsert, InsertTail
    <3>. QED BY <2>4, <3>2 DEF AppInsert, keyVars, brokerVars
  <2>5. CASE AppDisconnect(t)
    BY <2>5 DEF AppDisconnect, MayUse, CloseSocket, keyVars, brokerVars
  <2>6. CASE AppDisconnectMark(t)
    BY <2>6 DEF AppDisconnectMark, keyVars, brokerVars
  <2>7. CASE AppSetKey(t)
    BY <2>7 DEF AppSetKey, MayUse, connVars, brokerVars
  <2>8. CASE AppKeySet(t)
    BY <2>8 DEF AppKeySet, brokerVars
  <2>9. CASE AppUseAfterFinalise(t)
    BY <2>9 DEF AppUseAfterFinalise, connVars, keyVars, brokerVars
  <2>. QED BY <1>9, <2>1, <2>2, <2>3, <2>4, <2>5, <2>6, <2>7, <2>8, <2>9
       DEF AppStep, AppFinish
<1>. QED BY <1>1, <1>2, <1>3, <1>4, <1>5, <1>6, <1>7, <1>8, <1>9
     DEF Next, WorkerStep

(* What FinishReceive leaves behind is typed, whether or not the message   *)
(* it ends with joins recvList.                                            *)
LEMMA FinishType ==
    ASSUME TypeOK, RecvInv, wpc \in {"verify", "cannotVerify"},
           NEW ok \in BOOLEAN, FinishReceive(ok)
    PROVE  /\ recvList' \in Seq(IncomingMessage)
           /\ freed' = freed /\ cursor' = cursor
           /\ wpc' \in WorkerPoints /\ failed' \in BOOLEAN
           /\ incoming' \in Seq(IncomingMessage)
<1>1. incoming[1] \in IncomingMessage
  BY SeqFirst DEF TypeOK, WorkerType, RecvInv
<1>2. Append(recvList, incoming[1]) \in Seq(IncomingMessage)
  BY <1>1, AppendProperties DEF TypeOK, WorkerType
<1>3. recvList' \in Seq(IncomingMessage) /\ freed' = freed /\ cursor' = cursor
  BY <1>2 DEF FinishReceive, Accept, InsertTail, recvVars, TypeOK, WorkerType
<1>4. wpc' \in WorkerPoints /\ failed' \in BOOLEAN
  BY DEF FinishReceive, AfterReceive, WorkerPoints
<1>5. incoming' \in Seq(IncomingMessage)
  BY DEF FinishReceive
<1>. QED BY <1>3, <1>4, <1>5

(* Every step keeps the types of the worker's own variables.               *)
LEMMA WorkerStepType ==
    ASSUME ClientAssumption, TypeOK, RecvInv, [Next]_vars
    PROVE  WorkerType'
<1>. USE DEF TypeOK, ConnectionType, CallerType, WorkerType, RecvInv,
         WorkerPoints
<1>1. CASE UNCHANGED vars
  BY <1>1 DEF vars, pollVars, recvVars, workVars
<1>2. CASE WorkerLoopStep
  <2>1. CASE WorkerResize
    BY <2>1 DEF WorkerResize, recvVars, workVars
  <2>2. CASE WorkerResizeFails
    BY <2>2 DEF WorkerResizeFails, pollVars, recvVars, workVars
  <2>3. CASE WorkerKeepArray
    BY <2>3 DEF WorkerKeepArray, pollVars, recvVars, workVars
  <2>4. CASE WorkerExit
    BY <2>4 DEF WorkerExit, pollVars, recvVars, workVars
  <2>5. CASE WorkerBuild
    BY <2>5 DEF WorkerBuild, PollEntry, recvVars, workVars
  <2>6. CASE WorkerNullConnection
    BY <2>6 DEF WorkerNullConnection, pollVars, recvVars, workVars
  <2>7. CASE WorkerPollReady
    BY <2>7 DEF WorkerPollReady, Reportable, recvVars, workVars
  <2>8. CASE WorkerPollTimeout
    BY <2>8 DEF WorkerPollTimeout, pollVars, recvVars, workVars
  <2>9. CASE WorkerPollFails
    BY <2>9 DEF WorkerPollFails, pollVars, recvVars, workVars
  <2>10. CASE WorkerScan
    BY <2>10 DEF WorkerScan, AfterReceive, pollVars, recvVars, workVars
  <2>. QED BY <1>2, <2>1, <2>2, <2>3, <2>4, <2>5, <2>6, <2>7, <2>8, <2>9,
           <2>10 DEF WorkerLoopStep
<1>3. CASE WorkerReceiveStep
  <2>1. CASE WorkerReceive
    <3>1. Head(inbox) \in IncomingMessage /\ Tail(inbox) \in
        Seq(IncomingMessage)
      BY <2>1, HeadTailProperties DEF WorkerReceive, CallerType
    <3>2. incoming' \in Seq(IncomingMessage)
      BY <2>1, <3>1, SeqSingleton DEF WorkerReceive
    <3>. QED BY <2>1, <3>2 DEF WorkerReceive, pollVars, recvVars
  <2>2. CASE WorkerReceiveFails
    BY <2>2 DEF WorkerReceiveFails, AfterReceive, pollVars, recvVars, workVars
  <2>3. CASE WorkerReceiveNoMemory
    BY <2>3
       DEF WorkerReceiveNoMemory, AfterReceive, pollVars, recvVars, workVars
  <2>4. CASE WorkerVerify
    <3>1. ASSUME NEW ok \in BOOLEAN, FinishReceive(ok) PROVE WorkerType'
      BY <2>4, <3>1, FinishType DEF WorkerVerify, pollVars
    <3>2. CASE wpc' = "cannotVerify" /\ UNCHANGED <<failed, incoming,
        recvVars>>
      BY <2>4, <3>2 DEF WorkerVerify, pollVars, recvVars
    <3>. QED BY <2>4, <3>1, <3>2 DEF WorkerVerify
  <2>5. CASE WorkerCannotVerify
    <3>1. ASSUME NEW ok \in BOOLEAN, FinishReceive(ok) PROVE WorkerType'
      BY <2>5, <3>1, FinishType DEF WorkerCannotVerify, pollVars
    <3>2. CASE wpc' = "cannotVerify" /\ UNCHANGED <<failed, incoming,
        recvVars>>
      BY <2>5, <3>2 DEF WorkerCannotVerify, pollVars, recvVars
    <3>. QED BY <2>5, <3>1, <3>2 DEF WorkerCannotVerify
  <2>. QED BY <1>3, <2>1, <2>2, <2>3, <2>4, <2>5 DEF WorkerReceiveStep
<1>4. CASE WorkerHangUpStep
  BY <1>4
     DEF WorkerHangUpStep, WorkerHangUp, WorkerHangUpMark,
         WorkerHangUpRelease, WorkerHangUpCount, CloseSocket,
         ReleaseConnection, AfterHangUp, pollVars, recvVars, workVars
<1>5. CASE WorkerDrainStep
  <2>1. CASE WorkerPop
    BY <2>1 DEF WorkerPop, pollVars, recvVars
  <2>2. CASE WorkerDrainEnds
    BY <2>2 DEF WorkerDrainEnds, pollVars, recvVars, workVars
  <2>3. CASE WorkerPrepare
    BY <2>3 DEF WorkerPrepare, pollVars, recvVars
  <2>4. CASE WorkerCheck
    BY <2>4 DEF WorkerCheck, pollVars, recvVars
  <2>5. CASE WorkerSend
    BY <2>5 DEF WorkerSend, pollVars, recvVars
  <2>6. CASE WorkerPutDown
    BY <2>6 DEF WorkerPutDown, ReleaseConnection, pollVars, recvVars
  <2>. QED BY <1>5, <2>1, <2>2, <2>3, <2>4, <2>5, <2>6 DEF WorkerDrainStep
<1>6. CASE WorkerDispatchStep
  <2>1. CASE WorkerReady
    BY <2>1 DEF WorkerReady, pollVars, workVars
  <2>2. CASE WorkerUseAfterFree
    BY <2>2 DEF WorkerUseAfterFree, pollVars, recvVars, workVars
  <2>3. CASE WorkerReadyReturns
    BY <2>3 DEF WorkerReadyReturns, ReleaseConnection, pollVars, workVars
  <2>4. CASE WorkerDispatched
    BY <2>4 DEF WorkerDispatched, NoEntry, workVars
  <2>. QED BY <1>6, <2>1, <2>2, <2>3, <2>4 DEF WorkerDispatchStep
<1>7. CASE FreeStep
  BY <1>7
     DEF FreeStep, FreeTerminate, FreeWait, FreeClear, FreeClearTwice,
         FreeRelease, ReleaseConnection, pollVars, recvVars, workVars
<1>8. CASE PeerStep
  BY <1>8 DEF PeerStep, PeerSends, PeerCloses, pollVars, recvVars, workVars
<1>9. ASSUME NEW t \in Apps, AppStep(t) PROVE WorkerType'
  <2>1. CASE AppAddRef(t)
    BY <2>1 DEF AppAddRef, pollVars, recvVars, workVars
  <2>2. CASE AppRelease(t)
    BY <2>2
       DEF AppRelease, MayUse, ReleaseConnection, pollVars, recvVars, workVars
  <2>3. CASE AppSend(t)
    BY <2>3 DEF AppSend, MayUse, pollVars, recvVars, workVars
  <2>4. CASE AppInsert(t)
    BY <2>4 DEF AppInsert, InsertTail, pollVars, recvVars, workVars
  <2>5. CASE AppDisconnect(t)
    BY <2>5
       DEF AppDisconnect, MayUse, CloseSocket, pollVars, recvVars, workVars
  <2>6. CASE AppDisconnectMark(t)
    BY <2>6 DEF AppDisconnectMark, pollVars, recvVars, workVars
  <2>7. CASE AppSetKey(t)
    BY <2>7 DEF AppSetKey, MayUse, pollVars, recvVars, workVars
  <2>8. CASE AppKeySet(t)
    BY <2>8 DEF AppKeySet, pollVars, recvVars, workVars
  <2>9. CASE AppUseAfterFinalise(t)
    BY <2>9 DEF AppUseAfterFinalise, pollVars, recvVars, workVars
  <2>. QED BY <1>9, <2>1, <2>2, <2>3, <2>4, <2>5, <2>6, <2>7, <2>8, <2>9
       DEF AppStep, AppFinish
<1>. QED BY <1>1, <1>2, <1>3, <1>4, <1>5, <1>6, <1>7, <1>8, <1>9
     DEF Next, WorkerStep

(* Every step keeps the types of what the application threads, the peer    *)
(* and MFBroker_Free own.                                                  *)
LEMMA CallerStep ==
    ASSUME ClientAssumption, TypeOK, [Next]_vars
    PROVE  CallerType'
<1>. USE DEF TypeOK, CallerType, ClientAssumption
<1>1. CASE UNCHANGED vars
  BY <1>1 DEF vars, recvVars, appVars, peerVars, brokerVars
<1>2. CASE WorkerLoopStep
  BY <1>2
     DEF WorkerLoopStep, WorkerResize, WorkerResizeFails, WorkerKeepArray,
         WorkerExit, WorkerBuild, WorkerNullConnection, WorkerPollReady,
         WorkerPollTimeout, WorkerPollFails, WorkerScan, PollEntry,
         Reportable, AfterReceive, recvVars, appVars, peerVars, brokerVars
<1>3. CASE WorkerReceiveStep
  <2>1. CASE WorkerReceive
    BY <2>1 DEF WorkerReceive, recvVars, appVars, brokerVars
  <2>2. CASE WorkerReceiveFails
    <3>1. inbox' \in Seq(IncomingMessage)
      <4>1. CASE UNCHANGED inbox
        BY <4>1
      <4>2. CASE inbox # << >> /\ inbox' = Tail(inbox)
        BY <4>2
      <4>. QED BY <2>2, <4>1, <4>2 DEF WorkerReceiveFails
    <3>. QED BY <2>2, <3>1 DEF WorkerReceiveFails, appVars, brokerVars
  <2>3. CASE WorkerReceiveNoMemory
    <3>1. Head(inbox) \in IncomingMessage /\ Tail(inbox) \in
        Seq(IncomingMessage)
      BY <2>3, HeadTailProperties DEF WorkerReceiveNoMemory, CallerType
    <3>2. PICK k \in {"short", "truncated"} \cap Kinds :
                inbox' = <<[n |-> Head(inbox).n, kind |-> k]>> \o Tail(inbox)
      BY <2>3 DEF WorkerReceiveNoMemory
    <3>3. [n |-> Head(inbox).n, kind |-> k] \in IncomingMessage
      BY <3>1, <3>2 DEF IncomingMessage, AllKinds
    <3>4. inbox' \in Seq(IncomingMessage)
      BY <3>1, <3>2, <3>3, SeqSingleton, ConcatProperties
    <3>. QED BY <2>3, <3>4 DEF WorkerReceiveNoMemory, appVars, brokerVars
  <2>4. CASE WorkerVerify
    BY <2>4
       DEF WorkerVerify, FinishReceive, Accept, AfterReceive, InsertTail,
           recvVars, appVars, peerVars, brokerVars
  <2>5. CASE WorkerCannotVerify
    BY <2>5
       DEF WorkerCannotVerify, FinishReceive, Accept, AfterReceive,
           InsertTail, recvVars, appVars, peerVars, brokerVars
  <2>. QED BY <1>3, <2>1, <2>2, <2>3, <2>4, <2>5 DEF WorkerReceiveStep
<1>4. CASE WorkerHangUpStep
  BY <1>4
     DEF WorkerHangUpStep, WorkerHangUp, WorkerHangUpMark,
         WorkerHangUpRelease, WorkerHangUpCount, CloseSocket,
         ReleaseConnection, AfterHangUp, recvVars, appVars, peerVars,
         brokerVars
<1>5. CASE WorkerDrainStep
  BY <1>5
     DEF WorkerDrainStep, WorkerPop, WorkerDrainEnds, WorkerPrepare,
         WorkerCheck, WorkerSend, WorkerPutDown, ReleaseConnection, recvVars,
         appVars, peerVars, brokerVars
<1>6. CASE WorkerDispatchStep
  BY <1>6
     DEF WorkerDispatchStep, WorkerReady, WorkerUseAfterFree,
         WorkerReadyReturns, WorkerDispatched, ReleaseConnection, recvVars,
         appVars, peerVars, brokerVars
<1>7. CASE FreeStep
  BY <1>7
     DEF FreeStep, FreeTerminate, FreeWait, FreeClear, FreeClearTwice,
         FreeRelease, ReleaseConnection, recvVars, appVars, peerVars,
         brokerVars
<1>8. CASE PeerStep
  <2>1. CASE PeerSends
    <3>1. PICK k \in Kinds :
                inbox' = Append(inbox, [n |-> arrived + 1, kind |-> k])
      BY <2>1 DEF PeerSends
    <3>2. [n |-> arrived + 1, kind |-> k] \in IncomingMessage
      BY <2>1 DEF PeerSends, IncomingMessage
    <3>3. inbox' \in Seq(IncomingMessage)
      BY <3>1, <3>2, AppendProperties
    <3>. QED BY <2>1, <3>3 DEF PeerSends, appVars, brokerVars
  <2>2. CASE PeerCloses
    BY <2>2 DEF PeerCloses, recvVars, appVars, brokerVars
  <2>. QED BY <1>8, <2>1, <2>2 DEF PeerStep
<1>9. ASSUME NEW t \in Apps, AppStep(t) PROVE CallerType'
  <2>1. CASE AppAddRef(t)
    BY <2>1 DEF AppAddRef, recvVars, peerVars, brokerVars
  <2>2. CASE AppRelease(t)
    BY <2>2
       DEF AppRelease, MayUse, ReleaseConnection, recvVars, peerVars,
           brokerVars
  <2>3. CASE AppSend(t)
    BY <2>3 DEF AppSend, MayUse, recvVars, peerVars, brokerVars
  <2>4. CASE AppInsert(t)
    BY <2>4 DEF AppInsert, InsertTail, recvVars, peerVars, brokerVars
  <2>5. CASE AppDisconnect(t)
    BY <2>5
       DEF AppDisconnect, MayUse, CloseSocket, recvVars, peerVars, brokerVars
  <2>6. CASE AppDisconnectMark(t)
    BY <2>6 DEF AppDisconnectMark, recvVars, peerVars, brokerVars
  <2>7. CASE AppSetKey(t)
    BY <2>7 DEF AppSetKey, MayUse, recvVars, peerVars, brokerVars
  <2>8. CASE AppKeySet(t)
    BY <2>8 DEF AppKeySet, recvVars, peerVars, brokerVars
  <2>9. CASE AppUseAfterFinalise(t)
    BY <2>9 DEF AppUseAfterFinalise, recvVars, appVars, peerVars, brokerVars
  <2>. QED BY <1>9, <2>1, <2>2, <2>3, <2>4, <2>5, <2>6, <2>7, <2>8, <2>9
       DEF AppStep, AppFinish
<1>. QED BY <1>1, <1>2, <1>3, <1>4, <1>5, <1>6, <1>7, <1>8, <1>9
     DEF Next, WorkerStep

(* Every step keeps the types of the history variables.                    *)
LEMMA HistoryStep ==
    ASSUME ClientAssumption, TypeOK, RecvInv, HandInv, [Next]_vars
    PROVE  HistoryType'
<1>. USE DEF TypeOK, HistoryType, WorkerType, ConnectionType, RecvInv, HandInv
<1>1. CASE UNCHANGED vars
  BY <1>1 DEF vars, connVars, keyVars, recvVars, workVars
<1>2. CASE WorkerLoopStep
  BY <1>2
     DEF WorkerLoopStep, WorkerResize, WorkerResizeFails, WorkerKeepArray,
         WorkerExit, WorkerBuild, WorkerNullConnection, WorkerPollReady,
         WorkerPollTimeout, WorkerPollFails, WorkerScan, PollEntry,
         Reportable, AfterReceive, connVars, keyVars, recvVars, workVars
<1>3. CASE WorkerReceiveStep
  <2>1. CASE WorkerReceive
    BY <2>1 DEF WorkerReceive, connVars, keyVars, recvVars
  <2>2. CASE WorkerReceiveFails
    BY <2>2
       DEF WorkerReceiveFails, AfterReceive, connVars, keyVars, recvVars,
           workVars
  <2>3. CASE WorkerReceiveNoMemory
    BY <2>3
       DEF WorkerReceiveNoMemory, AfterReceive, connVars, keyVars, recvVars,
           workVars
  <2>4. CASE WorkerVerify
    BY <2>4
       DEF WorkerVerify, FinishReceive, Accept, AfterReceive, InsertTail,
           connVars, keyVars, recvVars
  <2>5. CASE WorkerCannotVerify
    <3>1. incoming[1] \in IncomingMessage
      BY <2>5, SeqFirst DEF WorkerCannotVerify
    <3>2. incoming[1].n \in 1 .. MaxReceives
      BY <3>1 DEF IncomingMessage
    <3>3. waived' \in SUBSET (1 .. MaxReceives)
      BY <2>5, <3>2 DEF WorkerCannotVerify
    <3>. QED BY <2>5, <3>3
         DEF WorkerCannotVerify, FinishReceive, Accept, connVars, keyVars,
             recvVars
  <2>. QED BY <1>3, <2>1, <2>2, <2>3, <2>4, <2>5 DEF WorkerReceiveStep
<1>4. CASE WorkerHangUpStep
  <2>1. CASE WorkerHangUp
    BY <2>1 DEF WorkerHangUp, CloseSocket, keyVars, recvVars, workVars
  <2>2. CASE WorkerHangUpMark
    BY <2>2 DEF WorkerHangUpMark, keyVars, recvVars, workVars
  <2>3. CASE WorkerHangUpRelease
    BY <2>3
       DEF WorkerHangUpRelease, ReleaseConnection, keyVars, recvVars, workVars
  <2>4. CASE WorkerHangUpCount
    BY <2>4
       DEF WorkerHangUpCount, AfterHangUp, connVars, keyVars, recvVars,
           workVars
  <2>. QED BY <1>4, <2>1, <2>2, <2>3, <2>4 DEF WorkerHangUpStep
<1>5. CASE WorkerDrainStep
  <2>1. CASE WorkerPop
    BY <2>1 DEF WorkerPop, keyVars, recvVars
  <2>2. CASE WorkerDrainEnds
    BY <2>2 DEF WorkerDrainEnds, connVars, keyVars, recvVars, workVars
  <2>3. CASE WorkerPrepare
    <3>1. hand[1] \in OutgoingMessage
      BY <2>3, SeqFirst DEF WorkerPrepare
    <3>2. Append(reports, hand[1]) \in Seq(OutgoingMessage)
      BY <3>1, AppendProperties
    <3>3. reports' \in Seq(OutgoingMessage)
      BY <2>3, <3>2 DEF WorkerPrepare
    <3>4. tornUse' \in BOOLEAN
      BY <2>3 DEF WorkerPrepare
    <3>. QED BY <2>3, <3>3, <3>4
         DEF WorkerPrepare, connVars, keyVars, recvVars
  <2>4. CASE WorkerCheck
    <3>1. hand[1] \in OutgoingMessage
      BY <2>4, SeqFirst DEF WorkerCheck
    <3>2. Append(reports, hand[1]) \in Seq(OutgoingMessage)
      BY <3>1, AppendProperties
    <3>3. reports' \in Seq(OutgoingMessage)
      BY <2>4, <3>2 DEF WorkerCheck
    <3>4. tornUse' \in BOOLEAN
      BY <2>4 DEF WorkerCheck
    <3>. QED BY <2>4, <3>3, <3>4 DEF WorkerCheck, connVars, keyVars, recvVars
  <2>5. CASE WorkerSend
    <3>1. hand[1] \in OutgoingMessage
      BY <2>5, SeqFirst DEF WorkerSend
    <3>2. Append(reports, hand[1]) \in Seq(OutgoingMessage)
      BY <3>1, AppendProperties
    <3>3. reports' \in Seq(OutgoingMessage)
      BY <2>5, <3>2 DEF WorkerSend
    <3>4. tornUse' \in BOOLEAN
      BY <2>5 DEF WorkerSend
    <3>. QED BY <2>5, <3>3, <3>4 DEF WorkerSend, connVars, keyVars, recvVars
  <2>6. CASE WorkerPutDown
    BY <2>6 DEF WorkerPutDown, ReleaseConnection, keyVars, recvVars
  <2>. QED BY <1>5, <2>1, <2>2, <2>3, <2>4, <2>5, <2>6 DEF WorkerDrainStep
<1>6. CASE WorkerDispatchStep
  <2>1. CASE WorkerReady
    <3>1. recvList[cursor] \in IncomingMessage
      BY <2>1, ElementOfSeq DEF WorkerReady
    <3>2. delivered' \in Seq(IncomingMessage)
      BY <2>1, <3>1, AppendProperties DEF WorkerReady
    <3>. QED BY <2>1, <3>2 DEF WorkerReady, connVars, keyVars, workVars
  <2>2. CASE WorkerUseAfterFree
    BY <2>2 DEF WorkerUseAfterFree, connVars, keyVars, recvVars, workVars
  <2>3. CASE WorkerReadyReturns
    BY <2>3 DEF WorkerReadyReturns, ReleaseConnection, keyVars, workVars
  <2>4. CASE WorkerDispatched
    BY <2>4 DEF WorkerDispatched, connVars, keyVars, workVars
  <2>. QED BY <1>6, <2>1, <2>2, <2>3, <2>4 DEF WorkerDispatchStep
<1>7. CASE FreeStep
  <2>1. CASE FreeTerminate
    BY <2>1 DEF FreeTerminate, connVars, keyVars, recvVars, workVars
  <2>2. CASE FreeWait
    BY <2>2 DEF FreeWait, connVars, keyVars, recvVars, workVars
  <2>3. CASE FreeClear
    BY <2>3 DEF FreeClear, keyVars, recvVars, workVars
  <2>4. CASE FreeClearTwice
    BY <2>4 DEF FreeClearTwice, connVars, keyVars, recvVars, workVars
  <2>5. CASE FreeRelease
    BY <2>5 DEF FreeRelease, ReleaseConnection, keyVars, recvVars, workVars
  <2>. QED BY <1>7, <2>1, <2>2, <2>3, <2>4, <2>5 DEF FreeStep
<1>8. CASE PeerStep
  BY <1>8
     DEF PeerStep, PeerSends, PeerCloses, connVars, keyVars, recvVars,
         workVars
<1>9. ASSUME NEW t \in Apps, AppStep(t) PROVE HistoryType'
  <2>1. CASE AppAddRef(t)
    BY <2>1 DEF AppAddRef, keyVars, recvVars, workVars
  <2>2. CASE AppRelease(t)
    BY <2>2
       DEF AppRelease, MayUse, ReleaseConnection, keyVars, recvVars, workVars
  <2>3. CASE AppSend(t)
    BY <2>3 DEF AppSend, MayUse, keyVars, recvVars, workVars
  <2>4. CASE AppInsert(t)
    BY <2>4 DEF AppInsert, InsertTail, keyVars, recvVars, workVars
  <2>5. CASE AppDisconnect(t)
    BY <2>5
       DEF AppDisconnect, MayUse, CloseSocket, keyVars, recvVars, workVars
  <2>6. CASE AppDisconnectMark(t)
    BY <2>6 DEF AppDisconnectMark, keyVars, recvVars, workVars
  <2>7. CASE AppSetKey(t)
    BY <2>7 DEF AppSetKey, MayUse, connVars, recvVars, workVars
  <2>8. CASE AppKeySet(t)
    BY <2>8 DEF AppKeySet, recvVars, workVars
  <2>9. CASE AppUseAfterFinalise(t)
    BY <2>9 DEF AppUseAfterFinalise, connVars, keyVars, recvVars, workVars
  <2>. QED BY <1>9, <2>1, <2>2, <2>3, <2>4, <2>5, <2>6, <2>7, <2>8, <2>9
       DEF AppStep, AppFinish
<1>. QED BY <1>1, <1>2, <1>3, <1>4, <1>5, <1>6, <1>7, <1>8, <1>9
     DEF Next, WorkerStep

(***************************************************************************)
(* The worker's program counter.                                           *)
(***************************************************************************)
LEMMA HandStep ==
    ASSUME TypeOK, HandInv, [Next]_vars
    PROVE  HandInv'
<1>. USE DEF HandInv, TypeOK, WorkerType, ConnectionType
<1>1. CASE UNCHANGED vars
  BY <1>1 DEF vars, workVars
<1>2. CASE WorkerLoopStep
  BY <1>2
     DEF WorkerLoopStep, WorkerResize, WorkerResizeFails, WorkerKeepArray,
         WorkerExit, WorkerBuild, WorkerNullConnection, WorkerPollReady,
         WorkerPollTimeout, WorkerPollFails, WorkerScan, PollEntry,
         Reportable, AfterReceive, workVars
<1>3. CASE WorkerReceiveStep
  BY <1>3
     DEF WorkerReceiveStep, WorkerReceive, WorkerReceiveFails,
         WorkerReceiveNoMemory, WorkerVerify, WorkerCannotVerify,
         FinishReceive, Accept, AfterReceive, InsertTail, workVars
<1>4. CASE WorkerHangUpStep
  BY <1>4
     DEF WorkerHangUpStep, WorkerHangUp, WorkerHangUpMark,
         WorkerHangUpRelease, WorkerHangUpCount, CloseSocket,
         ReleaseConnection, AfterHangUp, workVars
<1>5. CASE WorkerDrainStep
  BY <1>5
     DEF WorkerDrainStep, WorkerPop, WorkerDrainEnds, WorkerPrepare,
         WorkerCheck, WorkerSend, WorkerPutDown, ReleaseConnection, workVars
<1>6. CASE WorkerDispatchStep
  BY <1>6
     DEF WorkerDispatchStep, WorkerReady, WorkerUseAfterFree,
         WorkerReadyReturns, WorkerDispatched, ReleaseConnection, workVars
<1>7. CASE FreeStep
  BY <1>7
     DEF FreeStep, FreeTerminate, FreeWait, FreeClear, FreeClearTwice,
         FreeRelease, ReleaseConnection, workVars
<1>8. CASE PeerStep
  BY <1>8 DEF PeerStep, PeerSends, PeerCloses, workVars
<1>9. ASSUME NEW t \in Apps, AppStep(t) PROVE HandInv'
  <2>1. CASE AppAddRef(t)
    BY <2>1 DEF AppAddRef, workVars
  <2>2. CASE AppRelease(t)
    BY <2>2 DEF AppRelease, MayUse, ReleaseConnection, workVars
  <2>3. CASE AppSend(t)
    BY <2>3 DEF AppSend, MayUse, workVars
  <2>4. CASE AppInsert(t)
    BY <2>4 DEF AppInsert, InsertTail, workVars
  <2>5. CASE AppDisconnect(t)
    BY <2>5 DEF AppDisconnect, MayUse, CloseSocket, workVars
  <2>6. CASE AppDisconnectMark(t)
    BY <2>6 DEF AppDisconnectMark, workVars
  <2>7. CASE AppSetKey(t)
    BY <2>7 DEF AppSetKey, MayUse, workVars
  <2>8. CASE AppKeySet(t)
    BY <2>8 DEF AppKeySet, workVars
  <2>9. CASE AppUseAfterFinalise(t)
    BY <2>9 DEF AppUseAfterFinalise, workVars
  <2>. QED BY <1>9, <2>1, <2>2, <2>3, <2>4, <2>5, <2>6, <2>7, <2>8, <2>9
       DEF AppStep, AppFinish
<1>. QED BY <1>1, <1>2, <1>3, <1>4, <1>5, <1>6, <1>7, <1>8, <1>9
     DEF Next, WorkerStep

(* The worker knows ConnectionCount: it changes only between the release   *)
(* in its hang-up branch and the decrement after it, or after the worker   *)
(* has ended.                                                              *)
LEMMA CountStep ==
    ASSUME TypeOK, IInv, [Next]_vars
    PROVE  CountInv'
<1>. USE DEF CountInv, InPass, TypeOK, ConnectionType, WorkerType, IInv,
         CallInv
<1>1. CASE UNCHANGED vars
  BY <1>1 DEF vars, pollVars, brokerVars
<1>2. CASE WorkerLoopStep
  BY <1>2
     DEF WorkerLoopStep, WorkerResize, WorkerResizeFails, WorkerKeepArray,
         WorkerExit, WorkerBuild, WorkerNullConnection, WorkerPollReady,
         WorkerPollTimeout, WorkerPollFails, WorkerScan, PollEntry,
         Reportable, AfterReceive, pollVars, brokerVars
<1>3. CASE WorkerReceiveStep
  BY <1>3
     DEF WorkerReceiveStep, WorkerReceive, WorkerReceiveFails,
         WorkerReceiveNoMemory, WorkerVerify, WorkerCannotVerify,
         FinishReceive, Accept, AfterReceive, InsertTail, pollVars, brokerVars
<1>4. CASE WorkerHangUpStep
  BY <1>4
     DEF WorkerHangUpStep, WorkerHangUp, WorkerHangUpMark,
         WorkerHangUpRelease, WorkerHangUpCount, CloseSocket,
         ReleaseConnection, AfterHangUp, pollVars, brokerVars
<1>5. CASE WorkerDrainStep
  BY <1>5
     DEF WorkerDrainStep, WorkerPop, WorkerDrainEnds, WorkerPrepare,
         WorkerCheck, WorkerSend, WorkerPutDown, ReleaseConnection, pollVars,
         brokerVars
<1>6. CASE WorkerDispatchStep
  BY <1>6
     DEF WorkerDispatchStep, WorkerReady, WorkerUseAfterFree,
         WorkerReadyReturns, WorkerDispatched, ReleaseConnection, pollVars,
         brokerVars
<1>7. CASE FreeStep
  BY <1>7
     DEF FreeStep, FreeTerminate, FreeWait, FreeClear, FreeClearTwice,
         FreeRelease, ReleaseConnection, pollVars, brokerVars
<1>8. CASE PeerStep
  BY <1>8 DEF PeerStep, PeerSends, PeerCloses, pollVars, brokerVars
<1>9. ASSUME NEW t \in Apps, AppStep(t) PROVE CountInv'
  <2>1. CASE AppAddRef(t)
    BY <2>1 DEF AppAddRef, pollVars, brokerVars
  <2>2. CASE AppRelease(t)
    BY <2>2 DEF AppRelease, MayUse, ReleaseConnection, pollVars, brokerVars
  <2>3. CASE AppSend(t)
    BY <2>3 DEF AppSend, MayUse, pollVars, brokerVars
  <2>4. CASE AppInsert(t)
    BY <2>4 DEF AppInsert, InsertTail, pollVars, brokerVars
  <2>5. CASE AppDisconnect(t)
    BY <2>5 DEF AppDisconnect, MayUse, CloseSocket, pollVars, brokerVars
  <2>6. CASE AppDisconnectMark(t)
    BY <2>6 DEF AppDisconnectMark, pollVars, brokerVars
  <2>7. CASE AppSetKey(t)
    BY <2>7 DEF AppSetKey, MayUse, pollVars, brokerVars
  <2>8. CASE AppKeySet(t)
    BY <2>8 DEF AppKeySet, pollVars, brokerVars
  <2>9. CASE AppUseAfterFinalise(t)
    BY <2>9 DEF AppUseAfterFinalise, pollVars, brokerVars
  <2>. QED BY <1>9, <2>1, <2>2, <2>3, <2>4, <2>5, <2>6, <2>7, <2>8, <2>9
       DEF AppStep, AppFinish
<1>. QED BY <1>1, <1>2, <1>3, <1>4, <1>5, <1>6, <1>7, <1>8, <1>9
     DEF Next, WorkerStep

(* The released entries stay a prefix of recvList, and the dispatch loop   *)
(* stays inside it or one entry past the prefix.                           *)
LEMMA RecvStep ==
    ASSUME TypeOK, RecvInv, CallInv, [Next]_vars
    PROVE  RecvInv'
<1>. USE DEF RecvInv, TypeOK, WorkerType, CallInv
<1>1. CASE UNCHANGED vars
  BY <1>1 DEF vars, recvVars, workVars
<1>2. CASE WorkerLoopStep
  BY <1>2
     DEF WorkerLoopStep, WorkerResize, WorkerResizeFails, WorkerKeepArray,
         WorkerExit, WorkerBuild, WorkerNullConnection, WorkerPollReady,
         WorkerPollTimeout, WorkerPollFails, WorkerScan, PollEntry,
         Reportable, AfterReceive, recvVars, workVars
<1>3. CASE WorkerReceiveStep
  BY <1>3
     DEF WorkerReceiveStep, WorkerReceive, WorkerReceiveFails,
         WorkerReceiveNoMemory, WorkerVerify, WorkerCannotVerify,
         FinishReceive, Accept, AfterReceive, InsertTail, recvVars, workVars
<1>4. CASE WorkerHangUpStep
  BY <1>4
     DEF WorkerHangUpStep, WorkerHangUp, WorkerHangUpMark,
         WorkerHangUpRelease, WorkerHangUpCount, CloseSocket,
         ReleaseConnection, AfterHangUp, recvVars, workVars
<1>5. CASE WorkerDrainStep
  BY <1>5
     DEF WorkerDrainStep, WorkerPop, WorkerDrainEnds, WorkerPrepare,
         WorkerCheck, WorkerSend, WorkerPutDown, ReleaseConnection, recvVars,
         workVars
<1>6. CASE WorkerDispatchStep
  BY <1>6
     DEF WorkerDispatchStep, WorkerReady, WorkerUseAfterFree,
         WorkerReadyReturns, WorkerDispatched, ReleaseConnection, recvVars,
         workVars
<1>7. CASE FreeStep
  BY <1>7
     DEF FreeStep, FreeTerminate, FreeWait, FreeClear, FreeClearTwice,
         FreeRelease, ReleaseConnection, recvVars, workVars
<1>8. CASE PeerStep
  BY <1>8 DEF PeerStep, PeerSends, PeerCloses, recvVars, workVars
<1>9. ASSUME NEW t \in Apps, AppStep(t) PROVE RecvInv'
  <2>1. CASE AppAddRef(t)
    BY <2>1 DEF AppAddRef, recvVars, workVars
  <2>2. CASE AppRelease(t)
    BY <2>2 DEF AppRelease, MayUse, ReleaseConnection, recvVars, workVars
  <2>3. CASE AppSend(t)
    BY <2>3 DEF AppSend, MayUse, recvVars, workVars
  <2>4. CASE AppInsert(t)
    BY <2>4 DEF AppInsert, InsertTail, recvVars, workVars
  <2>5. CASE AppDisconnect(t)
    BY <2>5 DEF AppDisconnect, MayUse, CloseSocket, recvVars, workVars
  <2>6. CASE AppDisconnectMark(t)
    BY <2>6 DEF AppDisconnectMark, recvVars, workVars
  <2>7. CASE AppSetKey(t)
    BY <2>7 DEF AppSetKey, MayUse, recvVars, workVars
  <2>8. CASE AppKeySet(t)
    BY <2>8 DEF AppKeySet, recvVars, workVars
  <2>9. CASE AppUseAfterFinalise(t)
    BY <2>9 DEF AppUseAfterFinalise, recvVars, workVars
  <2>. QED BY <1>9, <2>1, <2>2, <2>3, <2>4, <2>5, <2>6, <2>7, <2>8, <2>9
       DEF AppStep, AppFinish
<1>. QED BY <1>1, <1>2, <1>3, <1>4, <1>5, <1>6, <1>7, <1>8, <1>9
     DEF Next, WorkerStep

(***************************************************************************)
(* References and their owners.                                            *)
(***************************************************************************)
LEMMA CallersCounted ==
    ASSUME ClientAssumption, TypeOK
    PROVE  /\ IsFiniteSet(holders) /\ Cardinality(holders) \in Nat
           /\ IsFiniteSet(Inserting) /\ Cardinality(Inserting) \in Nat
           /\ holders = {} <=> Cardinality(holders) = 0
           /\ Inserting = {} <=> Cardinality(Inserting) = 0
BY FS_Subset, FS_CardinalityType, FS_EmptySet
   DEF ClientAssumption, TypeOK, CallerType, Inserting

(* Everything the accounting adds up is a number.                          *)
LEMMA Counted ==
    ASSUME ClientAssumption, TypeOK
    PROVE  /\ refCount \in Int /\ staleReleases \in Nat
           /\ Len(queue) \in Nat /\ Len(hand) \in Nat
           /\ Len(recvList) \in Nat /\ freed \in Nat /\ cursor \in Nat \ {0}
           /\ Cardinality(holders) \in Nat /\ Cardinality(Inserting) \in Nat
           /\ TableReference \in Nat
           /\ WorkerOwners \in Int /\ CallerOwners \in Nat /\ Owners \in Int
<1>1. /\ refCount \in Int /\ queue \in Seq(OutgoingMessage)
      /\ hand \in Seq(OutgoingMessage) /\ recvList \in Seq(IncomingMessage)
      /\ freed \in Nat /\ cursor \in Nat \ {0} /\ staleReleases \in Nat
  BY DEF TypeOK, ConnectionType, WorkerType, HistoryType
<1>2. Len(queue) \in Nat /\ Len(hand) \in Nat /\ Len(recvList) \in Nat
  BY <1>1
<1>3. Cardinality(holders) \in Nat /\ Cardinality(Inserting) \in Nat
  BY CallersCounted
<1>4. TableReference \in Nat
  BY DEF TableReference
<1>5. WorkerOwners \in Int /\ CallerOwners \in Nat
  BY <1>1, <1>2, <1>3, <1>4 DEF WorkerOwners, CallerOwners
<1>6. Owners \in Int
  BY <1>5 DEF Owners
<1>. QED BY <1>1, <1>2, <1>3, <1>4, <1>5, <1>6

(* What RefAccounting says of a typed state, in the terms the arithmetic   *)
(* of the lemmas below is done in.                                         *)
LEMMA Balance ==
    ASSUME ClientAssumption, TypeOK, RefAccounting
    PROVE  /\ refCount = Len(queue) + Owners - staleReleases
           /\ refCount \in Int /\ Owners \in Int
           /\ Len(queue) \in Nat /\ staleReleases \in Nat
<1>1. refCount = References - staleReleases
  BY DEF RefAccounting
<1>2. References = Len(queue) + Owners
  BY DEF References
<1>3. /\ refCount \in Int /\ Owners \in Int
      /\ Len(queue) \in Nat /\ staleReleases \in Nat
  BY Counted
<1>. QED BY <1>1, <1>2, <1>3

(* A release pays for the owner that disappears, or for nothing when it    *)
(* goes through a freed list entry.                                        *)
LEMMA ReleaseBalances ==
    ASSUME ClientAssumption, TypeOK, RefAccounting, ReleaseConnection,
           \/ Owners' = Owners - 1 /\ staleReleases' = staleReleases
           \/ Owners' = Owners /\ staleReleases' = staleReleases + 1
    PROVE  RefAccounting'
<1>1. /\ refCount = Len(queue) + Owners - staleReleases
      /\ refCount \in Int /\ Owners \in Int
      /\ Len(queue) \in Nat /\ staleReleases \in Nat
  BY Balance
<1>2. CASE refCount = 1 /\ refCount' = 0 - Len(queue) /\ queue' = << >>
  <2>1. Len(queue') = 0
    BY <1>2
  <2>. QED BY <1>1, <1>2, <2>1 DEF RefAccounting, References
<1>3. CASE refCount' = refCount - 1 /\ queue' = queue
  BY <1>1, <1>3 DEF RefAccounting, References
<1>. QED BY <1>2, <1>3 DEF ReleaseConnection

(* MFConnection_AddRef pays for one new owner.                             *)
LEMMA AddRefBalances ==
    ASSUME ClientAssumption, TypeOK, RefAccounting,
           refCount' = refCount + 1, queue' = queue,
           Owners' = Owners + 1, staleReleases' = staleReleases
    PROVE  RefAccounting'
<1>1. /\ refCount = Len(queue) + Owners - staleReleases
      /\ refCount \in Int /\ Owners \in Int
      /\ Len(queue) \in Nat /\ staleReleases \in Nat
  BY Balance
<1>. QED BY <1>1 DEF RefAccounting, References

(* A reference changes hands between the queue and another owner.          *)
LEMMA HandOverBalances ==
    ASSUME ClientAssumption, TypeOK, RefAccounting,
           refCount' = refCount, staleReleases' = staleReleases,
           \/ Owners' = Owners + 1 /\ Len(queue') = Len(queue) - 1
           \/ Owners' = Owners - 1 /\ Len(queue') = Len(queue) + 1
    PROVE  RefAccounting'
<1>1. /\ refCount = Len(queue) + Owners - staleReleases
      /\ refCount \in Int /\ Owners \in Int
      /\ Len(queue) \in Nat /\ staleReleases \in Nat
  BY Balance
<1>2. CASE Owners' = Owners + 1 /\ Len(queue') = Len(queue) - 1
  BY <1>1, <1>2 DEF RefAccounting, References
<1>3. CASE Owners' = Owners - 1 /\ Len(queue') = Len(queue) + 1
  BY <1>1, <1>3 DEF RefAccounting, References
<1>. QED BY <1>2, <1>3

(* A step that touches no owner and no counter keeps the accounting.       *)
LEMMA NothingMoves ==
    ASSUME RefAccounting, UNCHANGED appVars, UNCHANGED base,
           refCount' = refCount, queue' = queue, hand' = hand,
           recvList' = recvList, freed' = freed,
             staleReleases' = staleReleases
    PROVE  RefAccounting'
BY DEF RefAccounting, References, Owners, WorkerOwners, CallerOwners,
       TableReference, Inserting, appVars

(* Whoever is about to use the connection is counted.                      *)
LEMMA OwnerCounted ==
    ASSUME ClientAssumption, TypeOK, RecvInv,
           \/ base
           \/ Len(hand) = 1
           \/ holders # {}
           \/ freed < Len(recvList)
    PROVE  Owners >= 1
<1>1. /\ Len(hand) \in Nat /\ Len(recvList) \in Nat /\ freed \in Nat
      /\ Cardinality(holders) \in Nat /\ Cardinality(Inserting) \in Nat
      /\ TableReference \in Nat /\ freed <= Len(recvList)
  BY Counted DEF RecvInv
<1>2. base => TableReference = 1
  BY DEF TableReference
<1>3. holders # {} => Cardinality(holders) >= 1
  BY CallersCounted, <1>1
<1>4. Owners = TableReference + Len(hand) + (Len(recvList) - freed)
                   + (Cardinality(holders) + Cardinality(Inserting))
  BY DEF Owners, WorkerOwners, CallerOwners
<1>5. \/ TableReference >= 1 \/ Len(hand) >= 1
      \/ Cardinality(holders) >= 1 \/ Len(recvList) - freed >= 1
  <2>1. CASE freed < Len(recvList)
    BY <1>1, <2>1
  <2>2. CASE Len(hand) = 1
    BY <2>2
  <2>. QED BY <1>2, <1>3, <2>1, <2>2
<1>. QED BY <1>1, <1>4, <1>5

(* and therefore the slot is in use, stale releases apart.                 *)
LEMMA OwnedInUse ==
    ASSUME ClientAssumption, TypeOK, RefAccounting, FinalInv, Owners >= 1,
           staleReleases = 0
    PROVE  state # "free" /\ (refCount = 1 => Len(queue) = 0)
<1>1. /\ refCount = Len(queue) + Owners - staleReleases
      /\ refCount \in Int /\ Owners \in Int
      /\ Len(queue) \in Nat /\ staleReleases \in Nat
  BY Balance
<1>. QED BY <1>1 DEF FinalInv

(* MFConnection_Release by an owner, or through a freed list entry, frees  *)
(* the slot exactly when it took the last reference.                       *)
LEMMA ReleaseFinalises ==
    ASSUME ClientAssumption, TypeOK, RefAccounting, FinalInv,
      ReleaseConnection,
           Owners >= 1 \/ staleReleases' = staleReleases + 1,
           staleReleases' \in {staleReleases, staleReleases + 1}
    PROVE  FinalInv'
<1>1. /\ refCount = Len(queue) + Owners - staleReleases
      /\ refCount \in Int /\ Owners \in Int
      /\ Len(queue) \in Nat /\ staleReleases \in Nat
  BY Balance
<1>2. CASE refCount = 1 /\ refCount' = 0 - Len(queue) /\ state' = "free"
  <2>1. staleReleases' = 0 => staleReleases = 0 /\ Owners >= 1
    BY <1>1
  <2>2. staleReleases' = 0 => Len(queue) = 0
    BY <2>1, <1>2, OwnedInUse
  <2>. QED BY <1>1, <1>2, <2>2 DEF FinalInv
<1>3. CASE refCount # 1 /\ refCount' = refCount - 1 /\ state' = state
  <2>1. staleReleases' = 0 => state # "free"
    BY <1>1, OwnedInUse
  <2>. QED BY <1>1, <1>3, <2>1 DEF FinalInv
<1>. QED BY <1>2, <1>3 DEF ReleaseConnection

(* A thread inside a call of the API still owns its reference, and         *)
(* MFBroker_Free clears a slot that is still in use.                       *)
LEMMA CallStep ==
    ASSUME ClientAssumption, TypeOK, IInv, [Next]_vars
    PROVE  CallInv'
<1>. USE DEF TypeOK, CallerType, IInv, CallInv, CountInv
<1>1. CASE UNCHANGED vars
  BY <1>1 DEF vars, connVars, recvVars, appVars, brokerVars
<1>2. CASE WorkerLoopStep
  BY <1>2
     DEF WorkerLoopStep, WorkerResize, WorkerResizeFails, WorkerKeepArray,
         WorkerExit, WorkerBuild, WorkerNullConnection, WorkerPollReady,
         WorkerPollTimeout, WorkerPollFails, WorkerScan, PollEntry,
         Reportable, AfterReceive, connVars, recvVars, appVars, brokerVars
<1>3. CASE WorkerReceiveStep
  BY <1>3
     DEF WorkerReceiveStep, WorkerReceive, WorkerReceiveFails,
         WorkerReceiveNoMemory, WorkerVerify, WorkerCannotVerify,
         FinishReceive, Accept, AfterReceive, InsertTail, connVars, recvVars,
         appVars, brokerVars
<1>4. CASE WorkerHangUpStep
  BY <1>4
     DEF WorkerHangUpStep, WorkerHangUp, WorkerHangUpMark,
         WorkerHangUpRelease, WorkerHangUpCount, CloseSocket,
         ReleaseConnection, AfterHangUp, connVars, recvVars, appVars,
         brokerVars
<1>5. CASE WorkerDrainStep
  BY <1>5
     DEF WorkerDrainStep, WorkerPop, WorkerDrainEnds, WorkerPrepare,
         WorkerCheck, WorkerSend, WorkerPutDown, ReleaseConnection, connVars,
         recvVars, appVars, brokerVars
<1>6. CASE WorkerDispatchStep
  BY <1>6
     DEF WorkerDispatchStep, WorkerReady, WorkerUseAfterFree,
         WorkerReadyReturns, WorkerDispatched, ReleaseConnection, connVars,
         recvVars, appVars, brokerVars
<1>7. CASE FreeStep
  <2>1. CASE FreeTerminate
    BY <2>1 DEF FreeTerminate, connVars, recvVars, appVars
  <2>2. CASE FreeWait
    BY <2>2 DEF FreeWait, connVars, recvVars, appVars
  <2>3. CASE FreeClear
    <3>0. /\ Len(hand) \in Nat /\ Len(recvList) \in Nat /\ freed \in Nat
          /\ Cardinality(holders) \in Nat /\ Cardinality(Inserting) \in Nat
          /\ TableReference \in Nat
          /\ WorkerOwners \in Int /\ CallerOwners \in Nat
      BY Counted
    <3>1. freed = Len(recvList) /\ Len(hand) = 0
      BY <2>3 DEF FreeClear, RecvInv, HandInv
    <3>2. Cardinality(holders) = 0 /\ Cardinality(Inserting) = 0
      BY <2>3, CallersCounted DEF FreeClear, Inserting
    <3>3. Owners = TableReference
      BY <3>0, <3>1, <3>2 DEF Owners, WorkerOwners, CallerOwners
    <3>4. refCount = Len(queue) + Owners - staleReleases /\ Len(queue) \in Nat
          /\ staleReleases \in Nat
      BY Balance
    <3>5. TableReference >= 1
      BY <2>3, <3>0, <3>3, <3>4 DEF FreeClear
    <3>6. base
      BY <3>5 DEF TableReference
    <3>. QED BY <2>3, <3>6 DEF FreeClear, appVars
  <2>4. CASE FreeClearTwice
    BY <2>4 DEF FreeClearTwice, connVars, recvVars, appVars, brokerVars
  <2>5. CASE FreeRelease
    BY <2>5 DEF FreeRelease, ReleaseConnection, recvVars, appVars
  <2>. QED BY <1>7, <2>1, <2>2, <2>3, <2>4, <2>5 DEF FreeStep
<1>8. CASE PeerStep
  BY <1>8
     DEF PeerStep, PeerSends, PeerCloses, connVars, recvVars, appVars,
         brokerVars
<1>9. ASSUME NEW t \in Apps, AppStep(t) PROVE CallInv'
  <2>1. CASE AppAddRef(t)
    BY <2>1 DEF AppAddRef, recvVars, brokerVars
  <2>2. CASE AppRelease(t)
    BY <2>2 DEF AppRelease, MayUse, ReleaseConnection, recvVars, brokerVars
  <2>3. CASE AppSend(t)
    BY <2>3 DEF AppSend, MayUse, recvVars, brokerVars
  <2>4. CASE AppInsert(t)
    BY <2>4 DEF AppInsert, InsertTail, recvVars, brokerVars
  <2>5. CASE AppDisconnect(t)
    BY <2>5 DEF AppDisconnect, MayUse, CloseSocket, recvVars, brokerVars
  <2>6. CASE AppDisconnectMark(t)
    BY <2>6 DEF AppDisconnectMark, recvVars, brokerVars
  <2>7. CASE AppSetKey(t)
    BY <2>7 DEF AppSetKey, MayUse, connVars, recvVars, brokerVars
  <2>8. CASE AppKeySet(t)
    BY <2>8 DEF AppKeySet, recvVars, brokerVars
  <2>9. CASE AppUseAfterFinalise(t)
    BY <2>9 DEF AppUseAfterFinalise, connVars, recvVars, appVars, brokerVars
  <2>. QED BY <1>9, <2>1, <2>2, <2>3, <2>4, <2>5, <2>6, <2>7, <2>8, <2>9
       DEF AppStep, AppFinish
<1>. QED BY <1>1, <1>2, <1>3, <1>4, <1>5, <1>6, <1>7, <1>8, <1>9
     DEF Next, WorkerStep

(* Every step of the worker, of a call and of MFBroker_Free keeps          *)
(* ReferenceCount equal to the number of owners.                           *)
LEMMA RefStep ==
    ASSUME ClientAssumption, TypeOK, IInv, [Next]_vars
    PROVE  RefAccounting'
<1>. USE DEF TypeOK, IInv
<1>1. CASE UNCHANGED vars
  BY <1>1, NothingMoves
     DEF vars, connVars, recvVars, workVars, appVars, brokerVars
<1>2. CASE WorkerLoopStep
  BY <1>2, NothingMoves
     DEF WorkerLoopStep, WorkerResize, WorkerResizeFails, WorkerKeepArray,
         WorkerExit, WorkerBuild, WorkerNullConnection, WorkerPollReady,
         WorkerPollTimeout, WorkerPollFails, WorkerScan, PollEntry,
         Reportable, AfterReceive, connVars, recvVars, workVars, appVars,
         brokerVars
<1>3. CASE WorkerReceiveStep
  <2>1. CASE WorkerReceive
    BY <2>1, NothingMoves
       DEF WorkerReceive, connVars, recvVars, appVars, brokerVars
  <2>2. CASE WorkerReceiveFails
    BY <2>2, NothingMoves
       DEF WorkerReceiveFails, AfterReceive, connVars, recvVars, workVars,
           appVars, brokerVars
  <2>3. CASE WorkerReceiveNoMemory
    BY <2>3, NothingMoves
       DEF WorkerReceiveNoMemory, AfterReceive, connVars, recvVars, workVars,
           appVars, brokerVars
  <2>4. CASE WorkerVerify
    <3>0. /\ Len(hand) \in Nat /\ Len(recvList) \in Nat /\ freed \in Nat
          /\ Cardinality(holders) \in Nat /\ Cardinality(Inserting) \in Nat
          /\ TableReference \in Nat
          /\ WorkerOwners \in Int /\ CallerOwners \in Nat
      BY Counted
    <3>1. /\ hand' = hand
          /\ TableReference' = TableReference
          /\ Cardinality(holders)' = Cardinality(holders)
          /\ Cardinality(Inserting)' = Cardinality(Inserting)
      BY <2>4 DEF WorkerVerify, TableReference, Inserting, appVars, brokerVars
    <3>2. CASE UNCHANGED <<connVars, recvVars>>
      BY <2>4, <3>2, NothingMoves
         DEF WorkerVerify, connVars, recvVars, brokerVars
    <3>3. CASE Accept
      <4>1. Len(recvList') = Len(recvList) + 1 /\ freed' = freed
        BY <3>3 DEF Accept, InsertTail, WorkerType
      <4>2. WorkerOwners' = WorkerOwners + 1
        BY <3>0, <3>1, <4>1 DEF WorkerOwners
      <4>3. CallerOwners' = CallerOwners
        BY <3>1 DEF CallerOwners
      <4>4. Owners' = Owners + 1
        BY <3>0, <4>2, <4>3 DEF Owners
      <4>. QED BY <3>3, <4>4, AddRefBalances DEF Accept
    <3>. QED BY <2>4, <3>2, <3>3
         DEF WorkerVerify, FinishReceive, connVars, recvVars
  <2>5. CASE WorkerCannotVerify
    <3>0. /\ Len(hand) \in Nat /\ Len(recvList) \in Nat /\ freed \in Nat
          /\ Cardinality(holders) \in Nat /\ Cardinality(Inserting) \in Nat
          /\ TableReference \in Nat
          /\ WorkerOwners \in Int /\ CallerOwners \in Nat
      BY Counted
    <3>1. /\ hand' = hand
          /\ TableReference' = TableReference
          /\ Cardinality(holders)' = Cardinality(holders)
          /\ Cardinality(Inserting)' = Cardinality(Inserting)
      BY <2>5
         DEF WorkerCannotVerify, TableReference, Inserting, appVars,
             brokerVars
    <3>2. CASE UNCHANGED <<connVars, recvVars>>
      BY <2>5, <3>2, NothingMoves
         DEF WorkerCannotVerify, connVars, recvVars, brokerVars
    <3>3. CASE Accept
      <4>1. Len(recvList') = Len(recvList) + 1 /\ freed' = freed
        BY <3>3 DEF Accept, InsertTail, WorkerType
      <4>2. WorkerOwners' = WorkerOwners + 1
        BY <3>0, <3>1, <4>1 DEF WorkerOwners
      <4>3. CallerOwners' = CallerOwners
        BY <3>1 DEF CallerOwners
      <4>4. Owners' = Owners + 1
        BY <3>0, <4>2, <4>3 DEF Owners
      <4>. QED BY <3>3, <4>4, AddRefBalances DEF Accept
    <3>. QED BY <2>5, <3>2, <3>3
         DEF WorkerCannotVerify, FinishReceive, connVars, recvVars
  <2>. QED BY <1>3, <2>1, <2>2, <2>3, <2>4, <2>5 DEF WorkerReceiveStep
<1>4. CASE WorkerHangUpStep
  <2>1. CASE WorkerHangUp
    BY <2>1, NothingMoves
       DEF WorkerHangUp, CloseSocket, recvVars, workVars, appVars, brokerVars
  <2>2. CASE WorkerHangUpMark
    BY <2>2, NothingMoves
       DEF WorkerHangUpMark, recvVars, workVars, appVars, brokerVars
  <2>3. CASE WorkerHangUpRelease
    <3>0. /\ Len(hand) \in Nat /\ Len(recvList) \in Nat /\ freed \in Nat
          /\ Cardinality(holders) \in Nat /\ Cardinality(Inserting) \in Nat
          /\ TableReference \in Nat
          /\ WorkerOwners \in Int /\ CallerOwners \in Nat
      BY Counted
    <3>1. /\ TableReference = 1 /\ TableReference' = 0
          /\ hand' = hand /\ recvList' = recvList /\ freed' = freed
          /\ Cardinality(holders)' = Cardinality(holders)
          /\ Cardinality(Inserting)' = Cardinality(Inserting)
      BY <2>3
         DEF WorkerHangUpRelease, CountInv, InPass, TableReference,
             Inserting, appVars, workVars, recvVars
    <3>2. Owners' = Owners - 1
      <4>1. WorkerOwners' = WorkerOwners - 1
        BY <3>0, <3>1 DEF WorkerOwners
      <4>2. CallerOwners' = CallerOwners
        BY <3>1 DEF CallerOwners
      <4>. QED BY <3>0, <4>1, <4>2 DEF Owners
    <3>3. ReleaseConnection /\ staleReleases' = staleReleases
      BY <2>3 DEF WorkerHangUpRelease, recvVars
    <3>. QED BY <3>2, <3>3, ReleaseBalances
  <2>4. CASE WorkerHangUpCount
    BY <2>4, NothingMoves
       DEF WorkerHangUpCount, AfterHangUp, connVars, recvVars, workVars,
           appVars
  <2>. QED BY <1>4, <2>1, <2>2, <2>3, <2>4 DEF WorkerHangUpStep
<1>5. CASE WorkerDrainStep
  <2>1. CASE WorkerPop
    <3>0. /\ Len(hand) \in Nat /\ Len(recvList) \in Nat /\ freed \in Nat
          /\ Cardinality(holders) \in Nat /\ Cardinality(Inserting) \in Nat
          /\ TableReference \in Nat
          /\ WorkerOwners \in Int /\ CallerOwners \in Nat
      BY Counted
    <3>1. /\ Len(hand) = 0 /\ Len(hand') = 1
          /\ TableReference' = TableReference
          /\ recvList' = recvList /\ freed' = freed
          /\ Cardinality(holders)' = Cardinality(holders)
          /\ Cardinality(Inserting)' = Cardinality(Inserting)
      BY <2>1
         DEF WorkerPop, HandInv, TableReference, Inserting, appVars,
             brokerVars, recvVars
    <3>2. Owners' = Owners + 1
      <4>1. WorkerOwners' = WorkerOwners + 1
        BY <3>0, <3>1 DEF WorkerOwners
      <4>2. CallerOwners' = CallerOwners
        BY <3>1 DEF CallerOwners
      <4>. QED BY <3>0, <4>1, <4>2 DEF Owners
    <3>3. refCount' = refCount /\ staleReleases' = staleReleases
          /\ Len(queue') = Len(queue) - 1
      BY <2>1, HeadTailProperties DEF WorkerPop, recvVars, ConnectionType
    <3>. QED BY <3>2, <3>3, HandOverBalances
  <2>2. CASE WorkerDrainEnds
    BY <2>2, NothingMoves
       DEF WorkerDrainEnds, connVars, recvVars, workVars, appVars, brokerVars
  <2>3. CASE WorkerPrepare
    BY <2>3, NothingMoves
       DEF WorkerPrepare, connVars, recvVars, appVars, brokerVars
  <2>4. CASE WorkerCheck
    BY <2>4, NothingMoves
       DEF WorkerCheck, connVars, recvVars, appVars, brokerVars
  <2>5. CASE WorkerSend
    BY <2>5, NothingMoves
       DEF WorkerSend, connVars, recvVars, appVars, brokerVars
  <2>6. CASE WorkerPutDown
    <3>0. /\ Len(hand) \in Nat /\ Len(recvList) \in Nat /\ freed \in Nat
          /\ Cardinality(holders) \in Nat /\ Cardinality(Inserting) \in Nat
          /\ TableReference \in Nat
          /\ WorkerOwners \in Int /\ CallerOwners \in Nat
      BY Counted
    <3>1. /\ Len(hand) = 1 /\ Len(hand') = 0
          /\ TableReference' = TableReference
          /\ recvList' = recvList /\ freed' = freed
          /\ Cardinality(holders)' = Cardinality(holders)
          /\ Cardinality(Inserting)' = Cardinality(Inserting)
      BY <2>6
         DEF WorkerPutDown, HandInv, TableReference, Inserting, appVars,
             brokerVars, recvVars
    <3>2. Owners' = Owners - 1
      <4>1. WorkerOwners' = WorkerOwners - 1
        BY <3>0, <3>1 DEF WorkerOwners
      <4>2. CallerOwners' = CallerOwners
        BY <3>1 DEF CallerOwners
      <4>. QED BY <3>0, <4>1, <4>2 DEF Owners
    <3>3. ReleaseConnection /\ staleReleases' = staleReleases
      BY <2>6 DEF WorkerPutDown, recvVars
    <3>. QED BY <3>2, <3>3, ReleaseBalances
  <2>. QED BY <1>5, <2>1, <2>2, <2>3, <2>4, <2>5, <2>6 DEF WorkerDrainStep
<1>6. CASE WorkerDispatchStep
  <2>1. CASE WorkerReady
    BY <2>1, NothingMoves
       DEF WorkerReady, connVars, workVars, appVars, brokerVars
  <2>2. CASE WorkerUseAfterFree
    BY <2>2, NothingMoves
       DEF WorkerUseAfterFree, connVars, recvVars, workVars, appVars,
           brokerVars
  <2>3. CASE WorkerReadyReturns
    <3>0. /\ Len(hand) \in Nat /\ Len(recvList) \in Nat /\ freed \in Nat
          /\ Cardinality(holders) \in Nat /\ Cardinality(Inserting) \in Nat
          /\ TableReference \in Nat
          /\ WorkerOwners \in Int /\ CallerOwners \in Nat
      BY Counted
    <3>1. /\ hand' = hand /\ recvList' = recvList
          /\ TableReference' = TableReference
          /\ Cardinality(holders)' = Cardinality(holders)
          /\ Cardinality(Inserting)' = Cardinality(Inserting)
      BY <2>3
         DEF WorkerReadyReturns, TableReference, Inserting, appVars,
             workVars, brokerVars
    <3>2. CASE cursor <= freed
      <4>1. Owners' = Owners /\ staleReleases' = staleReleases + 1
        BY <2>3, <3>1, <3>2
           DEF WorkerReadyReturns, Owners, WorkerOwners, CallerOwners
      <4>. QED BY <2>3, <4>1, ReleaseBalances DEF WorkerReadyReturns
    <3>3. CASE ~(cursor <= freed)
      <4>1. freed' = freed + 1 /\ staleReleases' = staleReleases
        BY <2>3, <3>0, <3>3, Counted DEF WorkerReadyReturns, RecvInv
      <4>2. WorkerOwners' = WorkerOwners - 1
        BY <3>0, <3>1, <4>1 DEF WorkerOwners
      <4>3. CallerOwners' = CallerOwners
        BY <3>1 DEF CallerOwners
      <4>4. Owners' = Owners - 1
        BY <3>0, <4>2, <4>3 DEF Owners
      <4>. QED BY <2>3, <4>1, <4>4, ReleaseBalances DEF WorkerReadyReturns
    <3>. QED BY <3>2, <3>3
  <2>4. CASE WorkerDispatched
    BY <2>4, NothingMoves
       DEF WorkerDispatched, connVars, workVars, appVars, brokerVars
  <2>. QED BY <1>6, <2>1, <2>2, <2>3, <2>4 DEF WorkerDispatchStep
<1>7. CASE FreeStep
  <2>1. CASE FreeTerminate
    BY <2>1, NothingMoves
       DEF FreeTerminate, connVars, recvVars, workVars, appVars
  <2>2. CASE FreeWait
    BY <2>2, NothingMoves DEF FreeWait, connVars, recvVars, workVars, appVars
  <2>3. CASE FreeClear
    <3>0. /\ Len(hand) \in Nat /\ Len(recvList) \in Nat /\ freed \in Nat
          /\ Cardinality(holders) \in Nat /\ Cardinality(Inserting) \in Nat
          /\ TableReference \in Nat
          /\ WorkerOwners \in Int /\ CallerOwners \in Nat
      BY Counted
    <3>1. /\ hand' = hand /\ recvList' = recvList /\ freed' = freed
          /\ TableReference' = TableReference
          /\ Cardinality(holders)' = Cardinality(holders)
          /\ Cardinality(Inserting)' = Cardinality(Inserting)
      BY <2>3
         DEF FreeClear, TableReference, Inserting, appVars, workVars, recvVars
    <3>2. Owners' = Owners
      BY <3>1 DEF Owners, WorkerOwners, CallerOwners
    <3>3. /\ refCount = Len(queue) + Owners - staleReleases
          /\ Owners \in Int /\ Len(queue) \in Nat /\ staleReleases \in Nat
      BY Balance
    <3>4. /\ refCount' = refCount - Len(queue) /\ Len(queue') = 0
          /\ staleReleases' = staleReleases
      BY <2>3 DEF FreeClear, recvVars
    <3>. QED BY <3>2, <3>3, <3>4 DEF RefAccounting, References
  <2>4. CASE FreeClearTwice
    BY <2>4, NothingMoves
       DEF FreeClearTwice, connVars, recvVars, workVars, appVars, brokerVars
  <2>5. CASE FreeRelease
    <3>0. /\ Len(hand) \in Nat /\ Len(recvList) \in Nat /\ freed \in Nat
          /\ Cardinality(holders) \in Nat /\ Cardinality(Inserting) \in Nat
          /\ TableReference \in Nat
          /\ WorkerOwners \in Int /\ CallerOwners \in Nat
      BY Counted
    <3>1. /\ TableReference = 1 /\ TableReference' = 0
          /\ hand' = hand /\ recvList' = recvList /\ freed' = freed
          /\ Cardinality(holders)' = Cardinality(holders)
          /\ Cardinality(Inserting)' = Cardinality(Inserting)
      BY <2>5
         DEF FreeRelease, CallInv, TableReference, Inserting, appVars,
             workVars, recvVars
    <3>2. Owners' = Owners - 1
      <4>1. WorkerOwners' = WorkerOwners - 1
        BY <3>0, <3>1 DEF WorkerOwners
      <4>2. CallerOwners' = CallerOwners
        BY <3>1 DEF CallerOwners
      <4>. QED BY <3>0, <4>1, <4>2 DEF Owners
    <3>3. ReleaseConnection /\ staleReleases' = staleReleases
      BY <2>5 DEF FreeRelease, recvVars
    <3>. QED BY <3>2, <3>3, ReleaseBalances
  <2>. QED BY <1>7, <2>1, <2>2, <2>3, <2>4, <2>5 DEF FreeStep
<1>8. CASE PeerStep
  BY <1>8, NothingMoves
     DEF PeerStep, PeerSends, PeerCloses, connVars, recvVars, workVars,
         appVars, brokerVars
<1>9. ASSUME NEW t \in Apps, AppStep(t) PROVE RefAccounting'
  <2>1. CASE AppAddRef(t)
    <3>0. /\ Len(hand) \in Nat /\ Len(recvList) \in Nat /\ freed \in Nat
          /\ Cardinality(holders) \in Nat /\ Cardinality(Inserting) \in Nat
          /\ TableReference \in Nat
          /\ WorkerOwners \in Int /\ CallerOwners \in Nat
      BY Counted
    <3>1. Cardinality(holders)' = Cardinality(holders) + 1
      BY <2>1, CallersCounted, FS_AddElement DEF AppAddRef
    <3>2. Cardinality(Inserting)' = Cardinality(Inserting)
      <4>1. Inserting' = Inserting
        BY <2>1 DEF AppAddRef, Inserting, CallerType
      <4>. QED BY <4>1
    <3>3. /\ hand' = hand /\ recvList' = recvList /\ freed' = freed
          /\ TableReference' = TableReference
      BY <2>1 DEF AppAddRef, TableReference, recvVars, workVars, brokerVars
    <3>4. Owners' = Owners + 1
      <4>1. CallerOwners' = CallerOwners + 1
        BY <3>0, <3>1, <3>2 DEF CallerOwners
      <4>2. WorkerOwners' = WorkerOwners
        BY <3>3 DEF WorkerOwners
      <4>. QED BY <3>0, <4>1, <4>2 DEF Owners
    <3>5. refCount' = refCount + 1 /\ queue' = queue
          /\ staleReleases' = staleReleases
      BY <2>1 DEF AppAddRef, recvVars
    <3>. QED BY <3>4, <3>5, AddRefBalances
  <2>2. CASE AppRelease(t)
    <3>0. /\ Len(hand) \in Nat /\ Len(recvList) \in Nat /\ freed \in Nat
          /\ Cardinality(holders) \in Nat /\ Cardinality(Inserting) \in Nat
          /\ TableReference \in Nat
          /\ WorkerOwners \in Int /\ CallerOwners \in Nat
      BY Counted
    <3>1. Cardinality(holders)' = Cardinality(holders) - 1
      BY <2>2, CallersCounted, FS_RemoveElement DEF AppRelease, MayUse
    <3>2. Cardinality(Inserting)' = Cardinality(Inserting)
      <4>1. Inserting' = Inserting
        BY <2>2 DEF AppRelease, MayUse, Inserting, CallerType
      <4>. QED BY <4>1
    <3>3. /\ hand' = hand /\ recvList' = recvList /\ freed' = freed
          /\ TableReference' = TableReference
      BY <2>2 DEF AppRelease, TableReference, recvVars, workVars, brokerVars
    <3>4. Owners' = Owners - 1
      <4>1. CallerOwners' = CallerOwners - 1
        BY <3>0, <3>1, <3>2 DEF CallerOwners
      <4>2. WorkerOwners' = WorkerOwners
        BY <3>3 DEF WorkerOwners
      <4>. QED BY <3>0, <4>1, <4>2 DEF Owners
    <3>5. ReleaseConnection /\ staleReleases' = staleReleases
      BY <2>2 DEF AppRelease, recvVars
    <3>. QED BY <3>4, <3>5, ReleaseBalances
  <2>3. CASE AppSend(t)
    <3>0. /\ Len(hand) \in Nat /\ Len(recvList) \in Nat /\ freed \in Nat
          /\ Cardinality(holders) \in Nat /\ Cardinality(Inserting) \in Nat
          /\ TableReference \in Nat
          /\ WorkerOwners \in Int /\ CallerOwners \in Nat
      BY Counted
    <3>1. Cardinality(holders)' = Cardinality(holders)
      BY <2>3 DEF AppSend
    <3>2. Cardinality(Inserting)' = Cardinality(Inserting) + 1
      <4>1. Inserting' = Inserting \cup {t} /\ t \notin Inserting
        BY <2>3 DEF AppSend, MayUse, Inserting, CallerType
      <4>. QED BY <4>1, CallersCounted, FS_AddElement
    <3>3. /\ hand' = hand /\ recvList' = recvList /\ freed' = freed
          /\ TableReference' = TableReference
      BY <2>3 DEF AppSend, TableReference, recvVars, workVars, brokerVars
    <3>4. Owners' = Owners + 1
      <4>1. CallerOwners' = CallerOwners + 1
        BY <3>0, <3>1, <3>2 DEF CallerOwners
      <4>2. WorkerOwners' = WorkerOwners
        BY <3>3 DEF WorkerOwners
      <4>. QED BY <3>0, <4>1, <4>2 DEF Owners
    <3>5. refCount' = refCount + 1 /\ queue' = queue
          /\ staleReleases' = staleReleases
      BY <2>3 DEF AppSend, recvVars
    <3>. QED BY <3>4, <3>5, AddRefBalances
  <2>4. CASE AppInsert(t)
    <3>0. /\ Len(hand) \in Nat /\ Len(recvList) \in Nat /\ freed \in Nat
          /\ Cardinality(holders) \in Nat /\ Cardinality(Inserting) \in Nat
          /\ TableReference \in Nat
          /\ WorkerOwners \in Int /\ CallerOwners \in Nat
      BY Counted
    <3>1. Cardinality(holders)' = Cardinality(holders)
      BY <2>4 DEF AppInsert
    <3>2. Cardinality(Inserting)' = Cardinality(Inserting) - 1
      <4>1. Inserting' = Inserting \ {t} /\ t \in Inserting
        BY <2>4 DEF AppInsert, Inserting, CallerType
      <4>. QED BY <4>1, CallersCounted, FS_RemoveElement
    <3>3. /\ hand' = hand /\ recvList' = recvList /\ freed' = freed
          /\ TableReference' = TableReference
      BY <2>4 DEF AppInsert, TableReference, recvVars, workVars, brokerVars
    <3>4. Owners' = Owners - 1
      <4>1. CallerOwners' = CallerOwners - 1
        BY <3>0, <3>1, <3>2 DEF CallerOwners
      <4>2. WorkerOwners' = WorkerOwners
        BY <3>3 DEF WorkerOwners
      <4>. QED BY <3>0, <4>1, <4>2 DEF Owners
    <3>5. refCount' = refCount /\ staleReleases' = staleReleases
          /\ Len(queue') = Len(queue) + 1
      BY <2>4 DEF AppInsert, recvVars, InsertTail, ConnectionType
    <3>. QED BY <3>4, <3>5, HandOverBalances
  <2>5. CASE AppDisconnect(t)
    <3>1. Inserting' = Inserting
      BY <2>5 DEF AppDisconnect, MayUse, Inserting, CallerType
    <3>2. Owners' = Owners
      BY <2>5, <3>1
         DEF AppDisconnect, Owners, WorkerOwners, CallerOwners,
             TableReference, recvVars, workVars, brokerVars
    <3>. QED BY <2>5, <3>2
         DEF AppDisconnect, CloseSocket, recvVars, RefAccounting, References
  <2>6. CASE AppDisconnectMark(t)
    <3>1. Inserting' = Inserting
      BY <2>6 DEF AppDisconnectMark, Inserting, CallerType
    <3>2. Owners' = Owners
      BY <2>6, <3>1
         DEF AppDisconnectMark, Owners, WorkerOwners, CallerOwners,
             TableReference, recvVars, workVars, brokerVars
    <3>. QED BY <2>6, <3>2
         DEF AppDisconnectMark, recvVars, RefAccounting, References
  <2>7. CASE AppSetKey(t)
    <3>1. Inserting' = Inserting
      BY <2>7 DEF AppSetKey, MayUse, Inserting, CallerType
    <3>2. Owners' = Owners
      BY <2>7, <3>1
         DEF AppSetKey, Owners, WorkerOwners, CallerOwners, TableReference,
             recvVars, workVars, brokerVars
    <3>. QED BY <2>7, <3>2
         DEF AppSetKey, connVars, recvVars, RefAccounting, References
  <2>8. CASE AppKeySet(t)
    <3>1. Inserting' = Inserting
      BY <2>8 DEF AppKeySet, Inserting, CallerType
    <3>2. Owners' = Owners
      BY <2>8, <3>1
         DEF AppKeySet, Owners, WorkerOwners, CallerOwners, TableReference,
             recvVars, workVars, brokerVars
    <3>. QED BY <2>8, <3>2 DEF AppKeySet, recvVars, RefAccounting, References
  <2>9. CASE AppUseAfterFinalise(t)
    BY <2>9, NothingMoves
       DEF AppUseAfterFinalise, connVars, recvVars, workVars, appVars,
           brokerVars
  <2>. QED BY <1>9, <2>1, <2>2, <2>3, <2>4, <2>5, <2>6, <2>7, <2>8, <2>9
       DEF AppStep, AppFinish
<1>. QED BY <1>1, <1>2, <1>3, <1>4, <1>5, <1>6, <1>7, <1>8, <1>9
     DEF Next, WorkerStep

(***************************************************************************)
(* Finalisation, the handle, undefined behaviour.                          *)
(***************************************************************************)
LEMMA FinalStep ==
    ASSUME ClientAssumption, TypeOK, IInv, [Next]_vars
    PROVE  FinalInv'
<1>. USE DEF TypeOK, IInv
<1>1. CASE UNCHANGED vars
  BY <1>1 DEF FinalInv, vars, connVars, recvVars
<1>2. CASE WorkerLoopStep
  BY <1>2
     DEF FinalInv, WorkerLoopStep, WorkerResize, WorkerResizeFails,
         WorkerKeepArray, WorkerExit, WorkerBuild, WorkerNullConnection,
         WorkerPollReady, WorkerPollTimeout, WorkerPollFails, WorkerScan,
         PollEntry, Reportable, AfterReceive, connVars, recvVars
<1>3. CASE WorkerReceiveStep
  <2>1. CASE WorkerReceive
    BY <2>1 DEF FinalInv, WorkerReceive, connVars, recvVars
  <2>2. CASE WorkerReceiveFails
    BY <2>2 DEF FinalInv, WorkerReceiveFails, AfterReceive, connVars, recvVars
  <2>3. CASE WorkerReceiveNoMemory
    BY <2>3
       DEF FinalInv, WorkerReceiveNoMemory, AfterReceive, connVars, recvVars
  <2>4. CASE WorkerVerify
    <3>1. CASE UNCHANGED <<connVars, recvVars>>
      BY <2>4, <3>1 DEF WorkerVerify, connVars, recvVars, FinalInv
    <3>2. CASE Accept
      <4>1. staleReleases = 0 => state # "free"
        BY <2>4, OwnerCounted, OwnedInUse DEF WorkerVerify, CountInv, InPass
      <4>. QED BY <3>2, <4>1 DEF Accept, FinalInv, ConnectionType
    <3>. QED BY <2>4, <3>1, <3>2
         DEF WorkerVerify, FinishReceive, connVars, recvVars
  <2>5. CASE WorkerCannotVerify
    <3>1. CASE UNCHANGED <<connVars, recvVars>>
      BY <2>5, <3>1 DEF WorkerCannotVerify, connVars, recvVars, FinalInv
    <3>2. CASE Accept
      <4>1. staleReleases = 0 => state # "free"
        BY <2>5, OwnerCounted, OwnedInUse
           DEF WorkerCannotVerify, CountInv, InPass
      <4>. QED BY <3>2, <4>1 DEF Accept, FinalInv, ConnectionType
    <3>. QED BY <2>5, <3>1, <3>2
         DEF WorkerCannotVerify, FinishReceive, connVars, recvVars
  <2>. QED BY <1>3, <2>1, <2>2, <2>3, <2>4, <2>5 DEF WorkerReceiveStep
<1>4. CASE WorkerHangUpStep
  <2>1. CASE WorkerHangUp
    BY <2>1 DEF FinalInv, WorkerHangUp, CloseSocket, recvVars
  <2>2. CASE WorkerHangUpMark
    BY <2>2 DEF FinalInv, WorkerHangUpMark, recvVars
  <2>3. CASE WorkerHangUpRelease
    <3>1. base
      BY <2>3 DEF FinalInv, WorkerHangUpRelease, CountInv, InPass
    <3>2. Owners >= 1
      BY <3>1, OwnerCounted
    <3>. QED BY <2>3, <3>2, ReleaseFinalises DEF WorkerHangUpRelease, recvVars
  <2>4. CASE WorkerHangUpCount
    BY <2>4 DEF FinalInv, WorkerHangUpCount, AfterHangUp, connVars, recvVars
  <2>. QED BY <1>4, <2>1, <2>2, <2>3, <2>4 DEF WorkerHangUpStep
<1>5. CASE WorkerDrainStep
  <2>1. CASE WorkerPop
    BY <2>1 DEF FinalInv, WorkerPop, recvVars
  <2>2. CASE WorkerDrainEnds
    BY <2>2 DEF FinalInv, WorkerDrainEnds, connVars, recvVars
  <2>3. CASE WorkerPrepare
    BY <2>3 DEF FinalInv, WorkerPrepare, connVars, recvVars
  <2>4. CASE WorkerCheck
    BY <2>4 DEF FinalInv, WorkerCheck, connVars, recvVars
  <2>5. CASE WorkerSend
    BY <2>5 DEF FinalInv, WorkerSend, connVars, recvVars
  <2>6. CASE WorkerPutDown
    <3>1. Len(hand) = 1
      BY <2>6 DEF FinalInv, WorkerPutDown, HandInv
    <3>2. Owners >= 1
      BY <3>1, OwnerCounted
    <3>. QED BY <2>6, <3>2, ReleaseFinalises DEF WorkerPutDown, recvVars
  <2>. QED BY <1>5, <2>1, <2>2, <2>3, <2>4, <2>5, <2>6 DEF WorkerDrainStep
<1>6. CASE WorkerDispatchStep
  <2>1. CASE WorkerReady
    BY <2>1 DEF FinalInv, WorkerReady, connVars
  <2>2. CASE WorkerUseAfterFree
    BY <2>2 DEF FinalInv, WorkerUseAfterFree, connVars, recvVars
  <2>3. CASE WorkerReadyReturns
    <3>1. CASE cursor <= freed
      BY <2>3, <3>1, ReleaseFinalises DEF WorkerReadyReturns
    <3>2. CASE ~(cursor <= freed)
      <4>1. freed < Len(recvList)
        BY <2>3, <3>2, Counted DEF WorkerReadyReturns, RecvInv
      <4>2. Owners >= 1
        BY <4>1, OwnerCounted
      <4>. QED BY <2>3, <3>2, <4>2, ReleaseFinalises DEF WorkerReadyReturns
    <3>. QED BY <3>1, <3>2
  <2>4. CASE WorkerDispatched
    BY <2>4 DEF FinalInv, WorkerDispatched, connVars
  <2>. QED BY <1>6, <2>1, <2>2, <2>3, <2>4 DEF WorkerDispatchStep
<1>7. CASE FreeStep
  <2>1. CASE FreeTerminate
    BY <2>1 DEF FinalInv, FreeTerminate, connVars, recvVars
  <2>2. CASE FreeWait
    BY <2>2 DEF FinalInv, FreeWait, connVars, recvVars
  <2>3. CASE FreeClear
    <3>1. refCount \in Int /\ Len(queue) \in Nat
      BY Counted
    <3>. QED BY <2>3, <3>1 DEF FreeClear, CallInv, FinalInv
  <2>4. CASE FreeClearTwice
    BY <2>4 DEF FinalInv, FreeClearTwice, connVars, recvVars
  <2>5. CASE FreeRelease
    <3>1. base
      BY <2>5 DEF FinalInv, FreeRelease, CallInv
    <3>2. Owners >= 1
      BY <3>1, OwnerCounted
    <3>. QED BY <2>5, <3>2, ReleaseFinalises DEF FreeRelease, recvVars
  <2>. QED BY <1>7, <2>1, <2>2, <2>3, <2>4, <2>5 DEF FreeStep
<1>8. CASE PeerStep
  BY <1>8 DEF FinalInv, PeerStep, PeerSends, PeerCloses, connVars, recvVars
<1>9. ASSUME NEW t \in Apps, AppStep(t) PROVE FinalInv'
  <2>1. CASE AppAddRef(t)
    BY <2>1 DEF AppAddRef, FinalInv, ConnectionType, recvVars
  <2>2. CASE AppRelease(t)
    <3>1. holders # {}
      BY <2>2 DEF FinalInv, AppRelease, MayUse
    <3>2. Owners >= 1
      BY <3>1, OwnerCounted
    <3>. QED BY <2>2, <3>2, ReleaseFinalises DEF AppRelease, recvVars
  <2>3. CASE AppSend(t)
    BY <2>3 DEF AppSend, MayUse, FinalInv, ConnectionType, recvVars
  <2>4. CASE AppInsert(t)
    BY <2>4 DEF FinalInv, AppInsert, InsertTail, recvVars
  <2>5. CASE AppDisconnect(t)
    BY <2>5 DEF FinalInv, AppDisconnect, MayUse, CloseSocket, recvVars
  <2>6. CASE AppDisconnectMark(t)
    BY <2>6 DEF FinalInv, AppDisconnectMark, recvVars
  <2>7. CASE AppSetKey(t)
    BY <2>7 DEF FinalInv, AppSetKey, MayUse, connVars, recvVars
  <2>8. CASE AppKeySet(t)
    BY <2>8 DEF FinalInv, AppKeySet, recvVars
  <2>9. CASE AppUseAfterFinalise(t)
    BY <2>9 DEF FinalInv, AppUseAfterFinalise, connVars, recvVars
  <2>. QED BY <1>9, <2>1, <2>2, <2>3, <2>4, <2>5, <2>6, <2>7, <2>8, <2>9
       DEF AppStep, AppFinish
<1>. QED BY <1>1, <1>2, <1>3, <1>4, <1>5, <1>6, <1>7, <1>8, <1>9
     DEF Next, WorkerStep

(* A socket handle that is closed and still stored has a thread behind it  *)
(* that is about to store INVALID_SOCKET.                                  *)
LEMMA SocketStep ==
    ASSUME TypeOK, SocketInv, [Next]_vars
    PROVE  SocketInv'
<1>. USE DEF TypeOK, CallerType, SocketInv, Disconnecting
<1>1. CASE UNCHANGED vars
  BY <1>1 DEF vars, connVars, appVars
<1>2. CASE WorkerLoopStep
  BY <1>2
     DEF WorkerLoopStep, WorkerResize, WorkerResizeFails, WorkerKeepArray,
         WorkerExit, WorkerBuild, WorkerNullConnection, WorkerPollReady,
         WorkerPollTimeout, WorkerPollFails, WorkerScan, PollEntry,
         Reportable, AfterReceive, connVars, appVars
<1>3. CASE WorkerReceiveStep
  BY <1>3
     DEF WorkerReceiveStep, WorkerReceive, WorkerReceiveFails,
         WorkerReceiveNoMemory, WorkerVerify, WorkerCannotVerify,
         FinishReceive, Accept, AfterReceive, InsertTail, connVars, appVars
<1>4. CASE WorkerHangUpStep
  BY <1>4
     DEF WorkerHangUpStep, WorkerHangUp, WorkerHangUpMark,
         WorkerHangUpRelease, WorkerHangUpCount, CloseSocket,
         ReleaseConnection, AfterHangUp, connVars, appVars
<1>5. CASE WorkerDrainStep
  BY <1>5
     DEF WorkerDrainStep, WorkerPop, WorkerDrainEnds, WorkerPrepare,
         WorkerCheck, WorkerSend, WorkerPutDown, ReleaseConnection, connVars,
         appVars
<1>6. CASE WorkerDispatchStep
  BY <1>6
     DEF WorkerDispatchStep, WorkerReady, WorkerUseAfterFree,
         WorkerReadyReturns, WorkerDispatched, ReleaseConnection, connVars,
         appVars
<1>7. CASE FreeStep
  BY <1>7
     DEF FreeStep, FreeTerminate, FreeWait, FreeClear, FreeClearTwice,
         FreeRelease, ReleaseConnection, connVars, appVars
<1>8. CASE PeerStep
  BY <1>8 DEF PeerStep, PeerSends, PeerCloses, connVars, appVars
<1>9. ASSUME NEW t \in Apps, AppStep(t) PROVE SocketInv'
  <2>1. CASE AppAddRef(t)
    BY <2>1 DEF AppAddRef
  <2>2. CASE AppRelease(t)
    BY <2>2 DEF AppRelease, MayUse, ReleaseConnection
  <2>3. CASE AppSend(t)
    BY <2>3 DEF AppSend, MayUse
  <2>4. CASE AppInsert(t)
    BY <2>4 DEF AppInsert, InsertTail
  <2>5. CASE AppDisconnect(t)
    BY <2>5 DEF AppDisconnect, MayUse, CloseSocket
  <2>6. CASE AppDisconnectMark(t)
    BY <2>6 DEF AppDisconnectMark
  <2>7. CASE AppSetKey(t)
    BY <2>7 DEF AppSetKey, MayUse, connVars
  <2>8. CASE AppKeySet(t)
    BY <2>8 DEF AppKeySet
  <2>9. CASE AppUseAfterFinalise(t)
    BY <2>9 DEF AppUseAfterFinalise, connVars, appVars
  <2>. QED BY <1>9, <2>1, <2>2, <2>3, <2>4, <2>5, <2>6, <2>7, <2>8, <2>9
       DEF AppStep, AppFinish
<1>. QED BY <1>1, <1>2, <1>3, <1>4, <1>5, <1>6, <1>7, <1>8, <1>9
     DEF Next, WorkerStep

(* Each step that can meet undefined behaviour meets it for the cause that *)
(* FaultCauses gives.                                                      *)
LEMMA FaultStep ==
    ASSUME ClientAssumption, TypeOK, IInv, fault = "none", [Next]_vars
    PROVE  FaultCauses'
<1>. USE DEF TypeOK, IInv
<1>1. CASE UNCHANGED vars
  BY <1>1 DEF FaultCauses, vars, connVars, recvVars, brokerVars
<1>2. CASE WorkerLoopStep
  <2>1. CASE WorkerResize
    BY <2>1 DEF FaultCauses, WorkerResize, connVars, recvVars, brokerVars
  <2>2. CASE WorkerResizeFails
    BY <2>2 DEF FaultCauses, WorkerResizeFails, connVars, recvVars, brokerVars
  <2>3. CASE WorkerKeepArray
    BY <2>3 DEF FaultCauses, WorkerKeepArray, connVars, recvVars, brokerVars
  <2>4. CASE WorkerExit
    BY <2>4 DEF FaultCauses, WorkerExit, connVars, recvVars, brokerVars
  <2>5. CASE WorkerBuild
    BY <2>5
       DEF FaultCauses, WorkerBuild, PollEntry, connVars, recvVars, brokerVars
  <2>6. CASE WorkerNullConnection
    <3>1. base
      BY <2>6 DEF FaultCauses, WorkerNullConnection, CountInv, InPass
    <3>2. staleReleases # 0
      BY <2>6, <3>1, OwnerCounted, OwnedInUse DEF WorkerNullConnection
    <3>. QED BY <2>6, <3>2, Counted
         DEF WorkerNullConnection, FaultCauses, recvVars
  <2>7. CASE WorkerPollReady
    BY <2>7
       DEF FaultCauses, WorkerPollReady, Reportable, connVars, recvVars,
           brokerVars
  <2>8. CASE WorkerPollTimeout
    BY <2>8 DEF FaultCauses, WorkerPollTimeout, connVars, recvVars, brokerVars
  <2>9. CASE WorkerPollFails
    BY <2>9 DEF FaultCauses, WorkerPollFails, connVars, recvVars
  <2>10. CASE WorkerScan
    BY <2>10
       DEF FaultCauses, WorkerScan, AfterReceive, connVars, recvVars,
           brokerVars
  <2>. QED BY <1>2, <2>1, <2>2, <2>3, <2>4, <2>5, <2>6, <2>7, <2>8, <2>9,
           <2>10 DEF WorkerLoopStep
<1>3. CASE WorkerReceiveStep
  BY <1>3
     DEF FaultCauses, WorkerReceiveStep, WorkerReceive, WorkerReceiveFails,
         WorkerReceiveNoMemory, WorkerVerify, WorkerCannotVerify,
         FinishReceive, Accept, AfterReceive, InsertTail, connVars, recvVars,
         brokerVars
<1>4. CASE WorkerHangUpStep
  BY <1>4
     DEF FaultCauses, WorkerHangUpStep, WorkerHangUp, WorkerHangUpMark,
         WorkerHangUpRelease, WorkerHangUpCount, CloseSocket,
         ReleaseConnection, AfterHangUp, connVars, recvVars, brokerVars
<1>5. CASE WorkerDrainStep
  BY <1>5
     DEF FaultCauses, WorkerDrainStep, WorkerPop, WorkerDrainEnds,
         WorkerPrepare, WorkerCheck, WorkerSend, WorkerPutDown,
         ReleaseConnection, connVars, recvVars, brokerVars
<1>6. CASE WorkerDispatchStep
  <2>1. CASE WorkerReady
    BY <2>1 DEF FaultCauses, WorkerReady, connVars, brokerVars
  <2>2. CASE WorkerUseAfterFree
    <3>1. freed > 0
      BY <2>2, Counted DEF WorkerUseAfterFree, InsertsBehindFreed
    <3>. QED BY <2>2, <3>1 DEF WorkerUseAfterFree, FaultCauses, recvVars
  <2>3. CASE WorkerReadyReturns
    BY <2>3 DEF FaultCauses, WorkerReadyReturns, ReleaseConnection, brokerVars
  <2>4. CASE WorkerDispatched
    BY <2>4 DEF FaultCauses, WorkerDispatched, connVars, brokerVars
  <2>. QED BY <1>6, <2>1, <2>2, <2>3, <2>4 DEF WorkerDispatchStep
<1>7. CASE FreeStep
  <2>1. CASE FreeTerminate
    BY <2>1 DEF FaultCauses, FreeTerminate, connVars, recvVars
  <2>2. CASE FreeWait
    BY <2>2 DEF FaultCauses, FreeWait, connVars, recvVars
  <2>3. CASE FreeClear
    BY <2>3 DEF FaultCauses, FreeClear, recvVars
  <2>4. CASE FreeClearTwice
    <3>0. /\ Len(hand) \in Nat /\ Len(recvList) \in Nat /\ freed \in Nat
          /\ Cardinality(holders) \in Nat /\ Cardinality(Inserting) \in Nat
          /\ TableReference \in Nat
          /\ WorkerOwners \in Int /\ CallerOwners \in Nat
      BY Counted
    <3>1. freed = Len(recvList) /\ Len(hand) = 0
      BY <2>4 DEF FaultCauses, FreeClearTwice, RecvInv, HandInv, CallInv
    <3>2. Cardinality(holders) = 0 /\ Cardinality(Inserting) = 0
      BY <2>4, CallersCounted DEF FreeClearTwice, Inserting, CallInv
    <3>3. Owners = TableReference
      BY <3>0, <3>1, <3>2 DEF Owners, WorkerOwners, CallerOwners
    <3>4. refCount = Len(queue) + Owners - staleReleases /\ Len(queue) \in Nat
          /\ staleReleases \in Nat /\ refCount \in Int
      BY Balance
    <3>5. ASSUME staleReleases = 0 PROVE ~base /\ queue # << >>
      <4>1. refCount = Len(queue) + TableReference
        BY <3>3, <3>4, <3>5, <3>0
      <4>2. TableReference <= 0
        BY <2>4, <3>0, <3>4, <4>1 DEF FreeClearTwice
      <4>3. ~base
        BY <4>2 DEF TableReference
      <4>4. Len(queue) > 0
        BY <2>4, <3>0, <3>4, <4>1, <4>2 DEF FreeClearTwice, CallInv, FinalInv
      <4>. QED BY <4>3, <4>4
    <3>. QED BY <2>4, <3>4, <3>5
         DEF FreeClearTwice, FaultCauses, connVars, recvVars, brokerVars
  <2>5. CASE FreeRelease
    BY <2>5 DEF FaultCauses, FreeRelease, ReleaseConnection, recvVars
  <2>. QED BY <1>7, <2>1, <2>2, <2>3, <2>4, <2>5 DEF FreeStep
<1>8. CASE PeerStep
  BY <1>8
     DEF FaultCauses, PeerStep, PeerSends, PeerCloses, connVars, recvVars,
         brokerVars
<1>9. ASSUME NEW t \in Apps, AppStep(t) PROVE FaultCauses'
  <2>1. CASE AppAddRef(t)
    BY <2>1 DEF FaultCauses, AppAddRef, recvVars, brokerVars
  <2>2. CASE AppRelease(t)
    BY <2>2
       DEF FaultCauses, AppRelease, MayUse, ReleaseConnection, recvVars,
           brokerVars
  <2>3. CASE AppSend(t)
    BY <2>3 DEF FaultCauses, AppSend, MayUse, recvVars, brokerVars
  <2>4. CASE AppInsert(t)
    BY <2>4 DEF FaultCauses, AppInsert, InsertTail, recvVars, brokerVars
  <2>5. CASE AppDisconnect(t)
    BY <2>5
       DEF FaultCauses, AppDisconnect, MayUse, CloseSocket, recvVars,
           brokerVars
  <2>6. CASE AppDisconnectMark(t)
    BY <2>6 DEF FaultCauses, AppDisconnectMark, recvVars, brokerVars
  <2>7. CASE AppSetKey(t)
    BY <2>7 DEF FaultCauses, AppSetKey, MayUse, connVars, recvVars, brokerVars
  <2>8. CASE AppKeySet(t)
    BY <2>8 DEF FaultCauses, AppKeySet, recvVars, brokerVars
  <2>9. CASE AppUseAfterFinalise(t)
    <3>1. holders # {}
      BY <2>9 DEF FaultCauses, AppUseAfterFinalise
    <3>2. staleReleases # 0
      BY <2>9, <3>1, OwnerCounted, OwnedInUse DEF AppUseAfterFinalise
    <3>. QED BY <2>9, <3>2, Counted
         DEF AppUseAfterFinalise, FaultCauses, recvVars
  <2>. QED BY <1>9, <2>1, <2>2, <2>3, <2>4, <2>5, <2>6, <2>7, <2>8, <2>9
       DEF AppStep, AppFinish
<1>. QED BY <1>1, <1>2, <1>3, <1>4, <1>5, <1>6, <1>7, <1>8, <1>9
     DEF Next, WorkerStep

(* No step closes a socket after INVALID_SOCKET was stored.                *)
LEMMA CloseOnlyOpen ==
    ASSUME TypeOK, [Next]_vars
    PROVE  closes' # closes => socket # "invalid"
<1>1. CASE UNCHANGED vars
  BY <1>1 DEF vars, connVars
<1>2. CASE WorkerLoopStep
  BY <1>2
     DEF WorkerLoopStep, WorkerResize, WorkerResizeFails, WorkerKeepArray,
         WorkerExit, WorkerBuild, WorkerNullConnection, WorkerPollReady,
         WorkerPollTimeout, WorkerPollFails, WorkerScan, PollEntry,
         Reportable, AfterReceive, connVars
<1>3. CASE WorkerReceiveStep
  BY <1>3
     DEF WorkerReceiveStep, WorkerReceive, WorkerReceiveFails,
         WorkerReceiveNoMemory, WorkerVerify, WorkerCannotVerify,
         FinishReceive, Accept, AfterReceive, InsertTail, connVars
<1>4. CASE WorkerHangUpStep
  BY <1>4
     DEF WorkerHangUpStep, WorkerHangUp, WorkerHangUpMark,
         WorkerHangUpRelease, WorkerHangUpCount, CloseSocket,
         ReleaseConnection, AfterHangUp, connVars
<1>5. CASE WorkerDrainStep
  BY <1>5
     DEF WorkerDrainStep, WorkerPop, WorkerDrainEnds, WorkerPrepare,
         WorkerCheck, WorkerSend, WorkerPutDown, ReleaseConnection, connVars
<1>6. CASE WorkerDispatchStep
  BY <1>6
     DEF WorkerDispatchStep, WorkerReady, WorkerUseAfterFree,
         WorkerReadyReturns, WorkerDispatched, ReleaseConnection, connVars
<1>7. CASE FreeStep
  BY <1>7
     DEF FreeStep, FreeTerminate, FreeWait, FreeClear, FreeClearTwice,
         FreeRelease, ReleaseConnection, connVars
<1>8. CASE PeerStep
  BY <1>8 DEF PeerStep, PeerSends, PeerCloses, connVars
<1>9. ASSUME NEW t \in Apps,
    AppStep(t) PROVE closes' # closes => socket # "invalid"
  <2>1. CASE AppAddRef(t)
    BY <2>1 DEF AppAddRef
  <2>2. CASE AppRelease(t)
    BY <2>2 DEF AppRelease, MayUse, ReleaseConnection
  <2>3. CASE AppSend(t)
    BY <2>3 DEF AppSend, MayUse
  <2>4. CASE AppInsert(t)
    BY <2>4 DEF AppInsert, InsertTail
  <2>5. CASE AppDisconnect(t)
    BY <2>5 DEF AppDisconnect, MayUse, CloseSocket
  <2>6. CASE AppDisconnectMark(t)
    BY <2>6 DEF AppDisconnectMark
  <2>7. CASE AppSetKey(t)
    BY <2>7 DEF AppSetKey, MayUse, connVars
  <2>8. CASE AppKeySet(t)
    BY <2>8 DEF AppKeySet
  <2>9. CASE AppUseAfterFinalise(t)
    BY <2>9 DEF AppUseAfterFinalise, connVars
  <2>. QED BY <1>9, <2>1, <2>2, <2>3, <2>4, <2>5, <2>6, <2>7, <2>8, <2>9
       DEF AppStep, AppFinish
<1>. QED BY <1>1, <1>2, <1>3, <1>4, <1>5, <1>6, <1>7, <1>8, <1>9
     DEF Next, WorkerStep

(***************************************************************************)
(* Messages on their way: CallerOrder and CheckedAndOnce.                  *)
(***************************************************************************)
(* Cutting off the end of a sequence of messages leaves no gap.            *)
LEMMA CutOrder ==
    ASSUME NEW s \in Seq(OutgoingMessage), NEW u \in Seq(OutgoingMessage),
           InOrder(s \o u)
    PROVE  /\ InOrder(s)
           /\ \A t \in Apps :
                 /\ From(s, t) \subseteq From(s \o u, t)
                 /\ Complete(s \o u, t) => Complete(s, t)
<1> DEFINE w == s \o u
<1>1. /\ DOMAIN w = 1 .. Len(s) + Len(u) /\ w \in Seq(OutgoingMessage)
      /\ DOMAIN s = 1 .. Len(s) /\ Len(s) \in Nat /\ Len(u) \in Nat
      /\ \A i \in 1 .. Len(s) : w[i] = s[i]
  OBVIOUS
<1>2. \A i \in DOMAIN w : w[i] \in OutgoingMessage /\ w[i][2] \in Nat
  BY <1>1 DEF OutgoingMessage
<1>3. Range(s) \subseteq Range(w)
  BY <1>1 DEF Range
<1>8. \A i, j \in DOMAIN w : (i < j /\ w[i][1] = w[j][1]) => w[i][2] < w[j][2]
  BY DEF InOrder
<1>4. InOrder(s)
  BY <1>1 DEF InOrder
<1>5. ASSUME NEW t \in Apps, Complete(w, t), NEW m \in From(s, t),
             NEW k \in 1 .. m[2]
      PROVE  <<t, k>> \in Range(s)
  <2>1. PICK i \in 1 .. Len(s) : s[i] = m /\ m[1] = t
    BY <1>1, <1>5 DEF From, Range
  <2>2. m \in From(w, t)
    BY <1>3, <1>5 DEF From
  <2>3. <<t, k>> \in Range(w)
    BY <1>5, <2>2 DEF Complete
  <2>4. PICK j \in DOMAIN w : w[j] = <<t, k>>
    BY <2>3 DEF Range
  <2>5. i \in DOMAIN w /\ w[i] = m /\ m[2] \in Nat
    BY <1>1, <1>2, <2>1
  <2>6. i < j => m[2] < k
    <3>1. w[j][1] = t /\ w[j][2] = k /\ w[i][1] = t /\ w[i][2] = m[2]
      BY <2>1, <2>4, <2>5
    <3>. QED BY <1>8, <2>4, <2>5, <3>1
  <2>7. j \in 1 .. Len(s)
    BY <1>1, <1>5, <2>4, <2>5, <2>6
  <2>. QED BY <1>1, <2>4, <2>7 DEF Range
<1>6. \A t \in Apps : From(s, t) \subseteq From(w, t)
  BY <1>3 DEF From
<1>7. ASSUME NEW t \in Apps, Complete(w, t) PROVE Complete(s, t)
  BY <1>5, <1>7 DEF Complete
<1>. QED BY <1>4, <1>6, <1>7

(* A thread's next message at the end.                                     *)
LEMMA AppendOrder ==
    ASSUME NEW s \in Seq(OutgoingMessage), InOrder(s),
           NEW t \in Apps, NEW n \in Nat, From(s, t) = {t} \X (1 .. n),
           NEW new \in OutgoingMessage, new = <<t, n + 1>>
    PROVE  /\ InOrder(Append(s, new))
           /\ From(Append(s, new), t) = {t} \X (1 .. n + 1)
           /\ Range(s) \subseteq Range(Append(s, new))
           /\ \A u \in Apps \ {t} : From(Append(s, new), u) = From(s, u)
<1> DEFINE w == Append(s, new)
<1>1. /\ DOMAIN w = 1 .. Len(s) + 1 /\ DOMAIN s = 1 .. Len(s)
      /\ Len(s) \in Nat /\ w[Len(s) + 1] = new
      /\ \A i \in 1 .. Len(s) : w[i] = s[i]
  OBVIOUS
<1>2. Range(w) = Range(s) \cup {new}
  BY AppendFresh
<1>3. new[1] = t /\ new[2] = n + 1
  OBVIOUS
<1>4. InOrder(w)
  <2> SUFFICES ASSUME NEW i \in DOMAIN w, NEW j \in DOMAIN w,
                      i < j, w[i][1] = w[j][1]
               PROVE  w[i][2] < w[j][2]
    BY DEF InOrder
  <2>1. CASE j # Len(s) + 1
    BY <1>1, <2>1 DEF InOrder
  <2>2. CASE j = Len(s) + 1
    <3>1. i \in 1 .. Len(s) /\ w[i] = s[i] /\ w[j] = new
      BY <1>1, <2>2
    <3>2. s[i] \in From(s, t)
      BY <1>1, <1>3, <3>1 DEF From, Range
    <3>3. s[i][2] \in 1 .. n
      BY <3>2
    <3>. QED BY <1>3, <3>1, <3>3
  <2>. QED BY <2>1, <2>2
<1>5. From(w, t) = {t} \X (1 .. n + 1)
  <2>1. From(w, t) = From(s, t) \cup {new}
    BY <1>2, <1>3 DEF From
  <2>2. 1 .. n + 1 = (1 .. n) \cup {n + 1}
    OBVIOUS
  <2>3. {t} \X (1 .. n + 1) = ({t} \X (1 .. n)) \cup {new}
    BY <2>2
  <2>. QED BY <2>1, <2>3
<1>6. \A u \in Apps \ {t} : From(w, u) = From(s, u)
  BY <1>2, <1>3 DEF From
<1>. QED BY <1>2, <1>4, <1>5, <1>6

(* A release of the connection leaves the queue or clears it, at the end.  *)
LEMMA ReleaseCuts ==
    ASSUME ReleaseConnection
    PROVE  \/ queue' = queue /\ state' = state
           \/ queue' = << >> /\ state' = "free"
BY DEF ReleaseConnection

(* What the steps do with the messages between SendAsync and the report:   *)
(* one joins at the end, the ones still queued are given up, or nothing.   *)
AcceptedStay == \A t \in Apps : Accepted(t)' = Accepted(t)

Stays == Pipeline' = Pipeline /\ (Cleared => Cleared') /\ AcceptedStay

GivenUp == Pipeline' = Taken /\ Cleared' /\ AcceptedStay

Joins(t) ==
    /\ Pipeline' = Append(Pipeline, <<t, sends[t]>>)
    /\ ~Cleared /\ t \in Inserting /\ Inserting' = Inserting \ {t}
    /\ sends' = sends

LEMMA Types ==
    ASSUME TypeOK
    PROVE  /\ Taken \in Seq(OutgoingMessage) /\ queue \in Seq(OutgoingMessage)
           /\ Pipeline \in Seq(OutgoingMessage)
           /\ \A t \in Apps : sends[t] \in Nat /\ Accepted(t) \in Int
<1>1. /\ queue \in Seq(OutgoingMessage) /\ hand \in Seq(OutgoingMessage)
      /\ reports \in Seq(OutgoingMessage)
      /\ \A t \in Apps : sends[t] \in Nat
  BY DEF TypeOK, ConnectionType, WorkerType, CallerType, HistoryType,
         ClientAssumption
<1>2. reports \o hand \in Seq(OutgoingMessage)
  BY <1>1, ConcatProperties
<1>3. Taken \in Seq(OutgoingMessage)
  BY <1>1, <1>2 DEF Taken
<1>4. Pipeline \in Seq(OutgoingMessage)
  BY <1>1, <1>3, ConcatProperties DEF Pipeline
<1>. QED BY <1>1, <1>3, <1>4 DEF Accepted

(* Nothing of it moves in a step that leaves the queue, the worker's hand  *)
(* and the callers as they are.                                            *)
LEMMA CallersStay ==
    ASSUME apc' = apc, sends' = sends
    PROVE  AcceptedStay
BY DEF AcceptedStay, Accepted, Inserting

LEMMA NoMove ==
    ASSUME Taken' = Taken, queue' = queue, apc' = apc, sends' = sends,
           state # "free" \/ state' = "free",
           freePc \in {"release", "freed"} => freePc' \in {"release", "freed"}
    PROVE  Stays
BY CallersStay DEF Stays, Pipeline, Cleared

(* A release: nothing moves, or the queue is cleared.                      *)
LEMMA ReleaseMoves ==
    ASSUME TypeOK, ReleaseConnection, Taken' = Taken,
           apc' = apc, sends' = sends,
           freePc \in {"release", "freed"} => freePc' \in {"release", "freed"}
    PROVE  Stays \/ GivenUp
<1>1. CASE queue' = queue /\ state' = state
  BY <1>1, NoMove
<1>2. CASE queue' = << >> /\ state' = "free"
  <2>1. Pipeline' = Taken \o << >>
    BY <1>2 DEF Pipeline
  <2>2. Taken \o << >> = Taken
    BY Types
  <2>. QED BY <1>2, <2>1, <2>2, CallersStay DEF GivenUp, Pipeline, Cleared
<1>. QED BY <1>1, <1>2, ReleaseCuts

(* Every step is one of the three.                                         *)
LEMMA PipelineStep ==
    ASSUME TypeOK, HandInv, CallInv, [Next]_vars
    PROVE  Stays \/ GivenUp \/ \E t \in Apps : Joins(t)
<1>1. CASE UNCHANGED vars
  <2>1. Taken' = Taken
    BY <1>1 DEF vars, workVars, Taken
  <2>. QED BY <1>1, <2>1, NoMove DEF vars, connVars, appVars, brokerVars
<1>2. CASE WorkerLoopStep
  <2>1. /\ wpc # "putDown" /\ wpc' # "putDown"
        /\ UNCHANGED <<connVars, workVars, appVars, freePc>>
    BY <1>2
       DEF WorkerLoopStep, WorkerResize, WorkerResizeFails, WorkerKeepArray,
           WorkerExit, WorkerBuild, WorkerNullConnection, WorkerPollReady,
           WorkerPollTimeout, WorkerPollFails, WorkerScan, AfterReceive,
           brokerVars
  <2>2. Taken' = Taken
    BY <2>1 DEF workVars, Taken
  <2>. QED BY <2>1, <2>2, NoMove DEF connVars, appVars
<1>3. CASE WorkerReceiveStep
  <2>1. /\ wpc # "putDown" /\ wpc' # "putDown"
        /\ queue' = queue /\ state' = state /\ hand' = hand
        /\ reports' = reports /\ UNCHANGED <<appVars, freePc>>
    BY <1>3
       DEF WorkerReceiveStep, WorkerReceive, WorkerReceiveFails,
           WorkerReceiveNoMemory, WorkerVerify, WorkerCannotVerify,
           FinishReceive, Accept, AfterReceive, connVars, workVars, brokerVars
  <2>2. Taken' = Taken
    BY <2>1 DEF Taken
  <2>. QED BY <2>1, <2>2, NoMove DEF appVars
<1>4. CASE WorkerHangUpStep
  <2>1. /\ wpc # "putDown" /\ wpc' # "putDown"
        /\ UNCHANGED <<workVars, appVars, freePc>>
        /\ ReleaseConnection \/ (queue' = queue /\ state' = state)
    BY <1>4
       DEF WorkerHangUpStep, WorkerHangUp, WorkerHangUpMark,
           WorkerHangUpRelease, WorkerHangUpCount, AfterHangUp, connVars,
           brokerVars
  <2>2. Taken' = Taken
    BY <2>1 DEF workVars, Taken
  <2>. QED BY <2>1, <2>2, NoMove, ReleaseMoves DEF appVars
<1>5. CASE WorkerDrainStep
  <2>. /\ queue \in Seq(OutgoingMessage) /\ hand \in Seq(OutgoingMessage)
       /\ reports \in Seq(OutgoingMessage)
    BY DEF TypeOK, ConnectionType, WorkerType, HistoryType
  <2>1. CASE WorkerPop
    <3>1. Len(hand) = 0 /\ wpc # "putDown" /\ wpc' # "putDown"
          /\ queue # << >> /\ hand' = <<Head(queue)>> /\ queue' = Tail(queue)
          /\ UNCHANGED <<state, reports, appVars, freePc>>
      BY <2>1 DEF WorkerPop, HandInv, brokerVars
    <3>2. Taken = reports /\ Taken' = reports \o <<Head(queue)>>
      BY <3>1 DEF Taken
    <3>3. (reports \o <<Head(queue)>>) \o Tail(queue) = reports \o queue
      BY <3>1
    <3>4. Pipeline' = Pipeline
      BY <3>1, <3>2, <3>3 DEF Pipeline
    <3>. QED BY <3>1, <3>4, CallersStay DEF Stays, Cleared, appVars
  <2>2. CASE WorkerDrainEnds
    <3>1. wpc # "putDown" /\ wpc' # "putDown"
          /\ UNCHANGED <<connVars, workVars, appVars, freePc>>
      BY <2>2 DEF WorkerDrainEnds, brokerVars
    <3>2. Taken' = Taken
      BY <3>1 DEF Taken, workVars
    <3>. QED BY <3>1, <3>2, NoMove DEF connVars, appVars
  <2>3. CASE WorkerPrepare \/ WorkerCheck \/ WorkerSend
    <3>1. /\ wpc \in {"popped", "check", "send"} /\ hand' = hand
          /\ UNCHANGED <<connVars, appVars, freePc>>
          /\ \/ wpc' # "putDown" /\ reports' = reports
             \/ wpc' = "putDown" /\ reports' = Append(reports, hand[1])
      BY <2>3 DEF WorkerPrepare, WorkerCheck, WorkerSend, brokerVars
    <3>2. Len(hand) = 1
      BY <3>1 DEF HandInv
    <3>3. reports \o hand = Append(reports, hand[1])
      <4>1. hand = <<hand[1]>> /\ hand[1] \in OutgoingMessage
        BY <3>2
      <4>. QED BY <4>1, AppendIsConcat
    <3>4. Taken' = Taken
      BY <3>1, <3>3 DEF Taken
    <3>. QED BY <3>1, <3>4, NoMove DEF connVars, appVars
  <2>4. CASE WorkerPutDown
    <3>1. /\ wpc = "putDown" /\ wpc' = "drain" /\ hand' = << >>
          /\ reports' = reports /\ ReleaseConnection
          /\ UNCHANGED <<appVars, freePc>>
      BY <2>4 DEF WorkerPutDown, brokerVars
    <3>2. reports \o << >> = reports
      OBVIOUS
    <3>3. Taken' = Taken
      BY <3>1, <3>2 DEF Taken
    <3>. QED BY <3>1, <3>3, ReleaseMoves DEF appVars
  <2>. QED BY <1>5, <2>1, <2>2, <2>3, <2>4 DEF WorkerDrainStep
<1>6. CASE WorkerDispatchStep
  <2>1. /\ wpc # "putDown" /\ wpc' # "putDown"
        /\ UNCHANGED <<workVars, appVars, freePc>>
        /\ ReleaseConnection \/ (queue' = queue /\ state' = state)
    BY <1>6
       DEF WorkerDispatchStep, WorkerReady, WorkerUseAfterFree,
           InsertsBehindFreed, WorkerReadyReturns, WorkerDispatched, connVars, brokerVars
  <2>2. Taken' = Taken
    BY <2>1 DEF workVars, Taken
  <2>. QED BY <2>1, <2>2, NoMove, ReleaseMoves DEF appVars
<1>7. CASE FreeStep
  <2>1. UNCHANGED <<wpc, workVars, appVars>>
    BY <1>7
       DEF FreeStep, FreeTerminate, FreeWait, FreeClear, FreeClearTwice,
           FreeRelease
  <2>2. Taken' = Taken
    BY <2>1 DEF Taken, workVars
  <2>3. CASE FreeTerminate \/ FreeWait \/ FreeClearTwice
    BY <2>1, <2>2, <2>3, NoMove
       DEF FreeTerminate, FreeWait, FreeClearTwice, connVars, appVars,
           brokerVars
  <2>4. CASE FreeClear
    <3>1. queue' = << >> /\ freePc' = "release"
      BY <2>4 DEF FreeClear
    <3>2. Taken \o << >> = Taken
      BY Types
    <3>. QED BY <2>1, <2>2, <3>1, <3>2, CallersStay
         DEF GivenUp, Pipeline, Cleared, appVars
  <2>5. CASE FreeRelease
    BY <2>1, <2>2, <2>5, ReleaseMoves DEF FreeRelease, appVars
  <2>. QED BY <1>7, <2>3, <2>4, <2>5 DEF FreeStep
<1>8. CASE PeerStep
  <2>1. UNCHANGED <<wpc, connVars, workVars, appVars, freePc>>
    BY <1>8 DEF PeerStep, PeerSends, PeerCloses, brokerVars
  <2>2. Taken' = Taken
    BY <2>1 DEF Taken, workVars
  <2>. QED BY <2>1, <2>2, NoMove DEF connVars, appVars
<1>9. ASSUME NEW t \in Apps, AppStep(t)
      PROVE  Stays \/ GivenUp \/ \E u \in Apps : Joins(u)
  <2>1. UNCHANGED <<wpc, workVars, freePc>>
    BY <1>9
       DEF AppStep, AppFinish, AppAddRef, AppRelease, AppSend, AppInsert,
           AppDisconnect, AppDisconnectMark, AppSetKey, AppKeySet,
           AppUseAfterFinalise, brokerVars
  <2>2. Taken' = Taken
    BY <2>1 DEF Taken, workVars
  <2>3. CASE AppAddRef(t) \/ AppUseAfterFinalise(t)
    BY <2>1, <2>2, <2>3, NoMove
       DEF AppAddRef, AppUseAfterFinalise, connVars, appVars
  <2>4. CASE AppRelease(t)
    BY <2>1, <2>2, <2>4, ReleaseMoves DEF AppRelease
  <2>5. CASE AppSend(t)
    <3>1. apc[t] = "idle" /\ sends' = [sends EXCEPT ![t] = @ + 1]
          /\ apc' = [apc EXCEPT ![t] = "inserting"]
          /\ queue' = queue /\ state' = state
      BY <2>5 DEF AppSend, MayUse
    <3>2. \A u \in Apps : Accepted(u)' = Accepted(u)
      BY <3>1, Types DEF Accepted, Inserting, TypeOK, CallerType
    <3>. QED BY <2>1, <2>2, <3>1, <3>2
              DEF Stays, AcceptedStay, Pipeline, Cleared
  <2>6. CASE AppInsert(t)
    <3>1. /\ apc[t] = "inserting" /\ state # "free" /\ sends' = sends
          /\ queue' = Append(queue, <<t, sends[t]>>)
          /\ apc' = [apc EXCEPT ![t] = "idle"]
      BY <2>6 DEF AppInsert, InsertTail
    <3>2. ~Cleared
      BY <3>1 DEF CallInv, Cleared
    <3>3. <<t, sends[t]>> \in OutgoingMessage
      BY Types DEF OutgoingMessage
    <3>4. Pipeline' = Append(Pipeline, <<t, sends[t]>>)
      BY <2>2, <3>1, <3>3, Types, AppendConcat DEF Pipeline
    <3>5. t \in Inserting /\ Inserting' = Inserting \ {t}
      BY <3>1 DEF Inserting, TypeOK, CallerType
    <3>. QED BY <3>1, <3>2, <3>4, <3>5 DEF Joins
  <2>7. CASE AppDisconnect(t) \/ AppDisconnectMark(t) \/ AppSetKey(t)
             \/ AppKeySet(t)
    <3>1. /\ Inserting' = Inserting /\ sends' = sends
          /\ queue' = queue /\ (state = "free" => state' = "free")
      BY <2>7
         DEF AppDisconnect, AppDisconnectMark, AppSetKey, AppKeySet, MayUse,
             Inserting, TypeOK, CallerType, connVars
    <3>. QED BY <2>1, <2>2, <3>1
         DEF Stays, AcceptedStay, Accepted, Pipeline, Cleared
  <2>. QED BY <1>9, <2>3, <2>4, <2>5, <2>6, <2>7 DEF AppStep, AppFinish
<1>. QED BY <1>1, <1>2, <1>3, <1>4, <1>5, <1>6, <1>7, <1>8, <1>9
     DEF Next, WorkerStep

(* Callers keep their order.                                               *)
LEMMA OrderStep ==
    ASSUME TypeOK, HandInv, CallInv, CallerOrder, [Next]_vars,
           SentInv
    PROVE  CallerOrder'
<1>. DEFINE All(t) == {t} \X (1 .. Accepted(t))
<1>1. /\ InOrder(Pipeline)
      /\ \A t \in Apps : /\ From(Pipeline, t) \subseteq All(t)
                         /\ Complete(Pipeline, t)
                         /\ Cleared \/ From(Pipeline, t) = All(t)
  BY DEF CallerOrder
<1>2. CASE Stays
  BY <1>1, <1>2 DEF Stays, AcceptedStay, CallerOrder
<1>3. CASE GivenUp
  <2>1. /\ Pipeline' = Taken /\ Pipeline = Taken \o queue
        /\ Taken \in Seq(OutgoingMessage) /\ queue \in Seq(OutgoingMessage)
    BY <1>3, Types DEF GivenUp, Pipeline
  <2>2. /\ InOrder(Pipeline')
        /\ \A t \in Apps : /\ From(Pipeline', t) \subseteq From(Pipeline, t)
                           /\ Complete(Pipeline', t)
    BY <1>1, <1>3, <2>1, CutOrder DEF GivenUp
  <2>3. \A t \in Apps : From(Pipeline', t) \subseteq All(t)
    BY <1>1, <2>2
  <2>. QED BY <1>3, <2>2, <2>3 DEF GivenUp, AcceptedStay, CallerOrder
<1>4. ASSUME NEW t \in Apps, Joins(t) PROVE CallerOrder'
  <2>1. /\ t \in Inserting /\ sends[t] \in Nat /\ sends[t] >= 1
        /\ Accepted(t) = sends[t] - 1 /\ Accepted(t)' = sends[t]
    BY <1>4, Types DEF Joins, Accepted, SentInv
  <2>2. \A u \in Apps \ {t} : Accepted(u)' = Accepted(u)
    BY <1>4 DEF Joins, Accepted
  <2> DEFINE n == sends[t] - 1
             new == <<t, sends[t]>>
  <2>3. n \in Nat /\ new = <<t, n + 1>> /\ new \in OutgoingMessage
    BY <2>1 DEF OutgoingMessage
  <2>4. From(Pipeline, t) = {t} \X (1 .. n)
    BY <1>1, <1>4, <2>1 DEF Joins
  <2>5. Pipeline' = Append(Pipeline, new) /\ Pipeline \in Seq(OutgoingMessage)
    BY <1>4, Types DEF Joins
  <2> HIDE DEF n, new
  <2>6. /\ InOrder(Pipeline')
        /\ From(Pipeline', t) = {t} \X (1 .. n + 1)
        /\ Range(Pipeline) \subseteq Range(Pipeline')
        /\ \A u \in Apps \ {t} : From(Pipeline', u) = From(Pipeline, u)
    BY <1>1, <2>3, <2>4, <2>5, AppendOrder
  <2>7. n + 1 = Accepted(t)'
    BY <2>1 DEF n
  <2>8. From(Pipeline', t) = All(t)' /\ Complete(Pipeline', t)
    <3>1. From(Pipeline', t) = All(t)'
      BY <2>6, <2>7
    <3>2. ASSUME NEW m \in From(Pipeline', t)
          PROVE  {t} \X (1 .. m[2]) \subseteq Range(Pipeline')
      <4>1. m[2] \in 1 .. n + 1
        BY <2>6
      <4>2. {t} \X (1 .. m[2]) \subseteq {t} \X (1 .. n + 1)
        BY <2>3, <4>1
      <4>. QED BY <2>6, <4>2 DEF From
    <3>. QED BY <3>1, <3>2 DEF Complete
  <2>9. ASSUME NEW u \in Apps \ {t}
        PROVE  /\ From(Pipeline', u) = All(u)' /\ Complete(Pipeline', u)
    <3>1. From(Pipeline', u) = All(u)'
      BY <1>1, <1>4, <2>2, <2>6 DEF Joins
    <3>2. Complete(Pipeline', u)
      BY <1>1, <2>6 DEF Complete
    <3>. QED BY <3>1, <3>2
  <2>. QED BY <2>6, <2>8, <2>9 DEF CallerOrder
<1>. QED BY <1>2, <1>3, <1>4, PipelineStep

(* SendAsync counts its call before it inserts the message.                *)
LEMMA SentStep ==
    ASSUME TypeOK, SentInv, [Next]_vars
    PROVE  SentInv'
<1>. USE DEF TypeOK, CallerType, SentInv, Inserting
<1>1. CASE UNCHANGED appVars
  BY <1>1 DEF appVars
<1>2. ASSUME NEW t \in Apps, AppStep(t), ~UNCHANGED appVars
      PROVE  SentInv'
  <2>1. CASE AppAddRef(t) \/ AppRelease(t)
    BY <2>1 DEF AppAddRef, AppRelease
  <2>2. CASE AppSend(t)
    BY <2>2 DEF AppSend, MayUse
  <2>3. CASE AppInsert(t) \/ AppDisconnect(t) \/ AppDisconnectMark(t)
             \/ AppSetKey(t) \/ AppKeySet(t)
    BY <2>3
       DEF AppInsert, AppDisconnect, AppDisconnectMark, AppSetKey, AppKeySet
  <2>. QED BY <1>2, <2>1, <2>2, <2>3
            DEF AppStep, AppFinish, AppUseAfterFinalise
<1>3. CASE WorkerStep
  <2>1. UNCHANGED appVars
    BY <1>3
       DEF WorkerStep, WorkerLoopStep, WorkerResize, WorkerResizeFails,
           WorkerKeepArray, WorkerExit, WorkerBuild, WorkerNullConnection,
           WorkerPollReady, WorkerPollTimeout, WorkerPollFails, WorkerScan,
           WorkerReceiveStep, WorkerReceive, WorkerReceiveFails,
           WorkerReceiveNoMemory, WorkerVerify, WorkerCannotVerify,
           WorkerHangUpStep, WorkerHangUp, WorkerHangUpMark,
           WorkerHangUpRelease, WorkerHangUpCount, WorkerDrainStep, WorkerPop,
           WorkerDrainEnds, WorkerPrepare, WorkerCheck, WorkerSend,
           WorkerPutDown, WorkerDispatchStep, WorkerReady,
           WorkerUseAfterFree, WorkerReadyReturns, WorkerDispatched
  <2>. QED BY <1>1, <2>1
<1>4. CASE FreeStep \/ PeerStep
  <2>1. UNCHANGED appVars
    BY <1>4
       DEF FreeStep, FreeTerminate, FreeWait, FreeClear, FreeClearTwice,
           FreeRelease, PeerStep, PeerSends, PeerCloses
  <2>. QED BY <1>1, <2>1
<1>. QED BY <1>1, <1>2, <1>3, <1>4 DEF Next, vars

(* What a step of the worker does to key and state, and to messages.       *)
LEMMA WorkerKeepsKey ==
    ASSUME WorkerStep
    PROVE  /\ UNCHANGED <<keyVars, appVars>>
           /\ state' = state \/ state' = "free"
           /\ tornUse' => tornUse \/ (key = "torn" /\ state = "established")
<1>1. CASE WorkerLoopStep
  BY <1>1
     DEF WorkerLoopStep, WorkerResize, WorkerResizeFails, WorkerKeepArray,
         WorkerExit, WorkerBuild, WorkerNullConnection, WorkerPollReady,
         WorkerPollTimeout, WorkerPollFails, WorkerScan, connVars, workVars
<1>2. CASE WorkerReceiveStep
  <2>1. CASE WorkerReceive \/ WorkerReceiveFails \/ WorkerReceiveNoMemory
    BY <2>1
       DEF WorkerReceive, WorkerReceiveFails, WorkerReceiveNoMemory,
           connVars, workVars
  <2>2. CASE WorkerVerify
    <3>1. UNCHANGED <<keyVars, appVars>> /\ state' = state
      BY <2>2 DEF WorkerVerify, FinishReceive, Accept, connVars
    <3>2. tornUse' => tornUse \/ (key = "torn" /\ state = "established")
      BY <2>2 DEF WorkerVerify
    <3>. QED BY <3>1, <3>2
  <2>3. CASE WorkerCannotVerify
    BY <2>3 DEF WorkerCannotVerify, FinishReceive, Accept, connVars
  <2>. QED BY <1>2, <2>1, <2>2, <2>3 DEF WorkerReceiveStep
<1>3. CASE WorkerHangUpStep
  BY <1>3
     DEF WorkerHangUpStep, WorkerHangUp, WorkerHangUpMark,
         WorkerHangUpRelease, WorkerHangUpCount, ReleaseConnection, connVars,
         workVars
<1>4. CASE WorkerDrainStep
  <2>1. CASE WorkerPrepare
    <3>1. UNCHANGED <<keyVars, appVars>> /\ state' = state
      BY <2>1 DEF WorkerPrepare, connVars
    <3>2. ASSUME tornUse', ~tornUse
          PROVE  key = "torn" /\ state = "established"
      BY <2>1, <3>2 DEF WorkerPrepare
    <3>. QED BY <3>1, <3>2
  <2>2. CASE ~WorkerPrepare
    BY <1>4, <2>2
       DEF WorkerDrainStep, WorkerPop, WorkerDrainEnds, WorkerCheck,
           WorkerSend, WorkerPutDown, ReleaseConnection, connVars, workVars
  <2>. QED BY <2>1, <2>2
<1>5. CASE WorkerDispatchStep
  BY <1>5
     DEF WorkerDispatchStep, WorkerReady, WorkerUseAfterFree,
         WorkerReadyReturns, WorkerDispatched, ReleaseConnection, connVars,
         workVars
<1>. QED BY <1>1, <1>2, <1>3, <1>4, <1>5 DEF WorkerStep

(* A key half written in an established connection takes two SetKey calls. *)
KeyUse == tornUse => keysSet > 1

LEMMA KeyStep ==
    ASSUME TypeOK, KeyInv, KeyUse, [Next]_vars
    PROVE  KeyInv' /\ KeyUse'
<1>. USE DEF KeyInv, KeyUse, Keying
<1>1. /\ keysSet \in Nat
      /\ apc \in [Apps -> {"idle", "inserting", "closing", "keying"}]
      /\ state \in {"free", "handshake", "established"}
  BY DEF TypeOK, CallerType, HistoryType, ConnectionType
<1>2. ASSUME /\ key' = key \/ key' # "torn"
             /\ keysSet' = keysSet /\ Keying' \subseteq Keying
             /\ state' = state \/ state' = "free"
             /\ tornUse' => tornUse \/ (key = "torn" /\ state = "established")
      PROVE  KeyInv' /\ KeyUse'
  BY <1>1, <1>2
<1>3. CASE UNCHANGED vars
  BY <1>2, <1>3 DEF vars, connVars, keyVars, workVars, appVars
<1>4. CASE WorkerStep
  BY <1>2, <1>4, WorkerKeepsKey DEF keyVars, appVars
<1>5. CASE FreeStep \/ PeerStep
  BY <1>2, <1>5
     DEF FreeStep, FreeTerminate, FreeWait, FreeClear, FreeClearTwice,
         FreeRelease, PeerStep, PeerSends, PeerCloses, ReleaseConnection,
         connVars, keyVars, workVars, appVars
<1>6. ASSUME NEW t \in Apps, AppStep(t) PROVE KeyInv' /\ KeyUse'
  <2>1. CASE AppAddRef(t) \/ AppRelease(t) \/ AppUseAfterFinalise(t)
    BY <1>2, <2>1
       DEF AppAddRef, AppRelease, AppUseAfterFinalise, ReleaseConnection,
           connVars, keyVars, workVars, appVars
  <2>2. CASE AppSend(t) \/ AppInsert(t) \/ AppDisconnect(t)
             \/ AppDisconnectMark(t)
    <3>1. Keying' \subseteq Keying
      BY <1>1, <2>2 DEF AppSend, AppInsert, AppDisconnect, AppDisconnectMark
    <3>. QED BY <1>2, <2>2, <3>1
         DEF AppSend, AppInsert, AppDisconnect, AppDisconnectMark, keyVars,
             workVars
  <2>3. CASE AppSetKey(t)
    <3>1. /\ apc' = [apc EXCEPT ![t] = "keying"] /\ keysSet' = keysSet + 1
          /\ state' = state /\ tornUse' = tornUse
      BY <2>3 DEF AppSetKey, connVars, workVars
    <3>2. Keying' = Keying \cup {t}
      BY <1>1, <3>1
    <3>. QED BY <1>1, <3>1, <3>2
  <2>4. CASE AppKeySet(t)
    <3>1. /\ t \in Keying /\ apc' = [apc EXCEPT ![t] = "idle"]
          /\ key' = (IF \E u \in Apps \ {t} : apc[u] = "keying" THEN key
                     ELSE "whole")
          /\ keysSet' = keysSet /\ tornUse' = tornUse
      BY <2>4 DEF AppKeySet, keyVars, workVars
    <3>2. Keying' = Keying \ {t}
      BY <1>1, <3>1
    <3>3. key' = "torn" => keysSet >= 2
      BY <1>1, <3>1
    <3>. QED BY <1>1, <3>1, <3>2, <3>3
  <2>. QED BY <1>6, <2>1, <2>2, <2>3, <2>4 DEF AppStep, AppFinish
<1>. QED BY <1>3, <1>4, <1>5, <1>6 DEF Next

(* Facts about sequences of messages in the order of their numbers.        *)
LEMMA RisingAppend ==
    ASSUME NEW s \in Seq(IncomingMessage), NEW e \in IncomingMessage,
           Rising(s), \A i \in DOMAIN s : s[i].n < e.n
    PROVE  Rising(Append(s, e))
<1>1. /\ DOMAIN Append(s, e) = 1 .. Len(s) + 1 /\ DOMAIN s = 1 .. Len(s)
      /\ Len(s) \in Nat /\ Append(s, e)[Len(s) + 1] = e
      /\ \A i \in 1 .. Len(s) : Append(s, e)[i] = s[i]
  OBVIOUS
<1>. QED BY <1>1 DEF Rising

LEMMA RisingTail ==
    ASSUME NEW s \in Seq(IncomingMessage), s # << >>, Rising(s)
    PROVE  /\ Rising(Tail(s))
           /\ \A i \in DOMAIN Tail(s) : Head(s).n < Tail(s)[i].n
<1>1. /\ DOMAIN s = 1 .. Len(s) /\ Len(s) \in Nat \ {0} /\ Head(s) = s[1]
      /\ DOMAIN Tail(s) = 1 .. Len(s) - 1
      /\ \A i \in 1 .. Len(s) - 1 : Tail(s)[i] = s[i + 1]
  OBVIOUS
<1>. QED BY <1>1 DEF Rising

LEMMA RisingCons ==
    ASSUME NEW s \in Seq(IncomingMessage), NEW e \in IncomingMessage,
           Rising(s), \A i \in DOMAIN s : e.n < s[i].n
    PROVE  Rising(<<e>> \o s)
<1>1. /\ DOMAIN (<<e>> \o s) = 1 .. Len(s) + 1 /\ DOMAIN s = 1 .. Len(s)
      /\ Len(s) \in Nat /\ (<<e>> \o s)[1] = e
      /\ \A i \in 1 .. Len(s) : (<<e>> \o s)[i + 1] = s[i]
  OBVIOUS
<1>2. ASSUME NEW i \in 1 .. Len(s) + 1, NEW j \in 1 .. Len(s) + 1, i < j
      PROVE  (<<e>> \o s)[i].n < (<<e>> \o s)[j].n
  <2>1. j - 1 \in 1 .. Len(s) /\ (<<e>> \o s)[j] = s[j - 1]
    BY <1>1, <1>2
  <2>2. CASE i = 1
    BY <1>1, <2>1, <2>2
  <2>3. CASE i # 1
    <3>1. i - 1 \in 1 .. Len(s) /\ (<<e>> \o s)[i] = s[i - 1] /\ i - 1 < j - 1
      BY <1>1, <1>2, <2>3
    <3>. QED BY <1>1, <2>1, <3>1 DEF Rising
  <2>. QED BY <2>2, <2>3
<1>. QED BY <1>1, <1>2 DEF Rising

(* The steps of the worker that receive something.                         *)
LEMMA ReceivedTypes ==
    ASSUME TypeOK
    PROVE  /\ recvList \in Seq(IncomingMessage)
           /\ inbox \in Seq(IncomingMessage)
           /\ incoming \in Seq(IncomingMessage) /\ arrived \in Nat
           /\ \A m \in IncomingMessage : m.n \in Int
           /\ delivered \in Seq(IncomingMessage) /\ waived \subseteq Int
           /\ freed \in Nat /\ cursor \in Nat /\ staleReleases \in Nat
BY ClientAssumption
   DEF TypeOK, WorkerType, CallerType, HistoryType, IncomingMessage

LEMMA ReceiveStep ==
    ASSUME TypeOK, ReceivedInv, RecvInv, WorkerReceiveStep
    PROVE  ReceivedInv'
<1>1. /\ recvList \in Seq(IncomingMessage) /\ inbox \in Seq(IncomingMessage)
      /\ incoming \in Seq(IncomingMessage) /\ arrived \in Nat
      /\ \A m \in IncomingMessage : m.n \in Int
  BY ReceivedTypes
<1>2. PICK last \in 0 .. arrived : Received(last)
  BY DEF ReceivedInv
<1>3. Rising(recvList) /\ Rising(inbox)
      /\ (incoming # << >> => wpc \in {"verify", "cannotVerify"})
  BY DEF ReceivedInv
<1>4. CASE WorkerReceive
  <2>1. /\ incoming = << >> /\ inbox # << >> /\ wpc' = "verify"
        /\ incoming' = <<Head(inbox)>> /\ inbox' = Tail(inbox)
        /\ recvList' = recvList /\ arrived' = arrived
    BY <1>3, <1>4 DEF WorkerReceive, recvVars
  <2>2. Head(inbox) \in IncomingMessage /\ Head(inbox) = inbox[1]
        /\ 1 \in DOMAIN inbox
        /\ \A i \in DOMAIN Tail(inbox) : /\ Tail(inbox)[i] = inbox[i + 1]
                                         /\ i + 1 \in DOMAIN inbox
    BY <1>1, <2>1
  <2>3. PICK next \in 0 .. arrived :
            next = Head(inbox).n /\ next \in last + 1 .. arrived
    BY <1>2, <2>2 DEF Received
  <2>4. Rising(inbox') /\ \A i \in DOMAIN inbox' : next < inbox'[i].n
    BY <1>1, <1>3, <2>1, <2>3, RisingTail
  <2>5. \A i \in DOMAIN recvList : recvList[i].n < next
    <3>1. \A i \in DOMAIN recvList :
              recvList[i].n \in Int /\ recvList[i].n <= last
      BY <1>1, <1>2 DEF Received
    <3>. QED BY <2>3, <3>1
  <2>6. \A i \in DOMAIN inbox' : inbox'[i].n \in next + 1 .. arrived
    <3>1. \A i \in DOMAIN inbox' : inbox'[i].n \in last + 1 .. arrived
      BY <1>2, <2>1, <2>2 DEF Received
    <3>. QED BY <2>3, <2>4, <3>1
  <2>7. Received(next)'
    BY <2>1, <2>3, <2>5, <2>6 DEF Received
  <2>. QED BY <1>3, <2>1, <2>3, <2>4, <2>7 DEF ReceivedInv
<1>5. CASE WorkerReceiveFails
  <2>1. /\ incoming = << >> /\ incoming' = incoming /\ recvList' = recvList
        /\ arrived' = arrived /\ wpc = "recv"
        /\ inbox' = inbox \/ (inbox # << >> /\ inbox' = Tail(inbox))
    BY <1>3, <1>5 DEF WorkerReceiveFails, recvVars, workVars
  <2>2. CASE inbox' = inbox
    BY <1>2, <1>3, <2>1, <2>2 DEF ReceivedInv, Received
  <2>3. CASE inbox # << >> /\ inbox' = Tail(inbox)
    <3>1. Rising(inbox')
      BY <1>1, <1>3, <2>3, RisingTail
    <3>2. \A i \in DOMAIN Tail(inbox) : /\ Tail(inbox)[i] = inbox[i + 1]
                                         /\ i + 1 \in DOMAIN inbox
      BY <1>1, <2>3
    <3>3. Received(last)'
      BY <1>2, <2>1, <2>3, <3>2 DEF Received
    <3>. QED BY <1>2, <1>3, <2>1, <3>1, <3>3 DEF ReceivedInv
  <2>. QED BY <2>1, <2>2, <2>3
<1>6. CASE WorkerReceiveNoMemory
  <2>1. /\ incoming = << >> /\ incoming' = incoming /\ recvList' = recvList
        /\ arrived' = arrived /\ inbox # << >>
    BY <1>3, <1>6 DEF WorkerReceiveNoMemory, recvVars, workVars
  <2>2. PICK k \in {"short", "truncated"} :
            inbox' = <<[n |-> Head(inbox).n, kind |-> k]>> \o Tail(inbox)
    BY <1>6 DEF WorkerReceiveNoMemory
  <2> DEFINE torn == [n |-> Head(inbox).n, kind |-> k]
  <2>9. Head(inbox) \in IncomingMessage
    BY <1>1, <2>1
  <2>10. torn \in IncomingMessage
    BY <2>9 DEF IncomingMessage, AllKinds
  <2>3. /\ Head(inbox) = inbox[1]
        /\ Tail(inbox) \in Seq(IncomingMessage)
        /\ 1 \in DOMAIN inbox
        /\ \A i \in DOMAIN Tail(inbox) : /\ Tail(inbox)[i] = inbox[i + 1]
                                         /\ i + 1 \in DOMAIN inbox
    BY <1>1, <2>1
  <2>4. torn.n = Head(inbox).n
    OBVIOUS
  <2> HIDE DEF torn
  <2>5. Rising(inbox')
    BY <1>1, <1>3, <2>1, <2>2, <2>3, <2>4, <2>10, RisingTail,
       RisingCons DEF torn
  <2>6. \A i \in DOMAIN inbox' : i \in DOMAIN inbox /\ inbox'[i].n = inbox[i].n
    BY <1>1, <2>1, <2>2, <2>3, <2>4 DEF torn
  <2>7. Received(last)'
    BY <1>2, <2>1, <2>6 DEF Received
  <2>8. incoming' = << >>
    BY <2>1
  <2>. QED BY <1>3, <2>1, <2>5, <2>7, <2>8 DEF ReceivedInv
<1>7. CASE WorkerVerify \/ WorkerCannotVerify
  <2>1. /\ inbox' = inbox /\ arrived' = arrived
        /\ Len(incoming) = 1
        /\ \/ /\ incoming' = incoming /\ recvList' = recvList
              /\ wpc' = "cannotVerify"
           \/ /\ incoming' = << >>
              /\ \/ recvList' = recvList
                 \/ recvList' = Append(recvList, incoming[1])
    BY <1>7
       DEF WorkerVerify, WorkerCannotVerify, FinishReceive, Accept,
           InsertTail, RecvInv, peerVars, recvVars
  <2>2. incoming # << >> /\ incoming[1] \in IncomingMessage
        /\ incoming[1].n = last
    <3>1. incoming # << >> /\ incoming[1] \in IncomingMessage
      BY <1>1, <2>1, SeqFirst
    <3>. QED BY <1>2, <3>1 DEF Received
  <2>3. CASE incoming' = incoming /\ recvList' = recvList
             /\ wpc' = "cannotVerify"
    <3>1. Received(last)'
      BY <1>2, <2>1, <2>3 DEF Received
    <3>. QED BY <1>3, <2>1, <2>3, <3>1 DEF ReceivedInv
  <2>4. CASE incoming' = << >> /\ recvList' = recvList
    <3>1. Received(last)'
      BY <1>2, <2>1, <2>4 DEF Received
    <3>. QED BY <1>3, <2>1, <2>4, <3>1 DEF ReceivedInv
  <2>5. CASE incoming' = << >> /\ recvList' = Append(recvList, incoming[1])
    <3>1. \A i \in DOMAIN recvList : recvList[i].n < last
      BY <1>2, <2>2 DEF Received
    <3>2. Rising(recvList')
      BY <1>1, <1>3, <2>2, <2>5, <3>1, RisingAppend
    <3>3. \A i \in DOMAIN recvList' :
              recvList'[i].n < last \/ recvList'[i].n = last
      BY <1>1, <2>2, <2>5, <3>1
    <3>4. Received(last)'
      BY <1>2, <2>1, <2>5, <3>3 DEF Received
    <3>. QED BY <1>3, <2>1, <2>5, <3>2, <3>4 DEF ReceivedInv
  <2>. QED BY <2>1, <2>3, <2>4, <2>5
<1>. QED BY <1>4, <1>5, <1>6, <1>7 DEF WorkerReceiveStep

LEMMA ReceivedStep ==
    ASSUME TypeOK, ReceivedInv, RecvInv, [Next]_vars
    PROVE  ReceivedInv'
<1>1. ASSUME UNCHANGED <<recvList, inbox, incoming, arrived>>,
             wpc' = wpc \/ wpc \notin {"verify", "cannotVerify"}
      PROVE  ReceivedInv'
  BY <1>1 DEF ReceivedInv, Received
<1>2. CASE UNCHANGED vars
  BY <1>1, <1>2 DEF vars, recvVars, workVars, peerVars
<1>3. CASE WorkerLoopStep
  BY <1>1, <1>3
     DEF WorkerLoopStep, WorkerResize, WorkerResizeFails, WorkerKeepArray,
         WorkerExit, WorkerBuild, WorkerNullConnection, WorkerPollReady,
         WorkerPollTimeout, WorkerPollFails, WorkerScan, recvVars, workVars,
         peerVars
<1>4. CASE WorkerReceiveStep
  BY <1>4, ReceiveStep
<1>5. CASE WorkerHangUpStep
  BY <1>1, <1>5
     DEF WorkerHangUpStep, WorkerHangUp, WorkerHangUpMark,
         WorkerHangUpRelease, WorkerHangUpCount, recvVars, workVars, peerVars
<1>6. CASE WorkerDrainStep
  BY <1>1, <1>6
     DEF WorkerDrainStep, WorkerPop, WorkerDrainEnds, WorkerPrepare,
         WorkerCheck, WorkerSend, WorkerPutDown, recvVars, workVars, peerVars
<1>7. CASE WorkerDispatchStep
  BY <1>1, <1>7
     DEF WorkerDispatchStep, WorkerReady, WorkerUseAfterFree,
         WorkerReadyReturns, WorkerDispatched, recvVars, workVars, peerVars
<1>8. ASSUME NEW t \in Apps, AppStep(t) PROVE ReceivedInv'
  BY <1>1, <1>8
     DEF AppStep, AppFinish, AppAddRef, AppRelease, AppSend, AppInsert,
         AppDisconnect, AppDisconnectMark, AppSetKey, AppKeySet,
         AppUseAfterFinalise, recvVars, workVars, peerVars
<1>9. CASE FreeStep \/ PeerCloses
  BY <1>1, <1>9
     DEF FreeStep, FreeTerminate, FreeWait, FreeClear, FreeClearTwice,
         FreeRelease, PeerCloses, recvVars, workVars, peerVars
<1>10. CASE PeerSends
  <2>1. /\ recvList \in Seq(IncomingMessage) /\ inbox \in Seq(IncomingMessage)
        /\ arrived \in Nat /\ \A m \in IncomingMessage : m.n \in Int
    BY ReceivedTypes
  <2>2. PICK last \in 0 .. arrived : Received(last)
    BY DEF ReceivedInv
  <2>3. PICK k \in Kinds :
            inbox' = Append(inbox, [n |-> arrived + 1, kind |-> k])
    BY <1>10 DEF PeerSends
  <2> DEFINE new == [n |-> arrived + 1, kind |-> k]
  <2>4. new \in IncomingMessage
    BY <1>10, ClientAssumption
       DEF PeerSends, IncomingMessage, TypeOK, CallerType
  <2>5. new.n = arrived + 1
    OBVIOUS
  <2> HIDE DEF new
  <2>6. /\ arrived' = arrived + 1 /\ recvList' = recvList
        /\ incoming' = incoming /\ wpc' = wpc /\ inbox' = Append(inbox, new)
    BY <1>10, <2>3 DEF PeerSends, recvVars, workVars, new
  <2>7. \A i \in DOMAIN inbox : inbox[i].n \in last + 1 .. arrived
    BY <2>2 DEF Received
  <2>8. Rising(inbox')
    <3>1. \A i \in DOMAIN inbox : inbox[i].n < new.n
      BY <2>1, <2>5, <2>7
    <3>. QED BY <2>1, <2>4, <2>6, <3>1, RisingAppend DEF ReceivedInv
  <2>9. \A i \in DOMAIN inbox' : inbox'[i].n \in last + 1 .. arrived'
    BY <2>1, <2>4, <2>5, <2>6, <2>7
  <2>10. Received(last)' /\ last \in 0 .. arrived'
    BY <2>1, <2>2, <2>6, <2>9 DEF Received
  <2>. QED BY <2>6, <2>8, <2>10 DEF ReceivedInv
<1>. QED BY <1>2, <1>3, <1>4, <1>5, <1>6, <1>7, <1>8, <1>9, <1>10
     DEF Next, WorkerStep, PeerStep

(* What was received has different numbers.                                *)
LEMMA ReceivedApart ==
    ASSUME TypeOK, ReceivedInv
    PROVE  /\ \A i, j \in DOMAIN recvList : recvList[i] = recvList[j] => i = j
           /\ incoming # << >> => incoming[1] \notin Range(recvList)
<1>1. /\ recvList \in Seq(IncomingMessage)
      /\ \A m \in IncomingMessage : m.n \in Int
      /\ DOMAIN recvList = 1 .. Len(recvList)
  BY ReceivedTypes
<1>2. ASSUME NEW i \in DOMAIN recvList, NEW j \in DOMAIN recvList, i < j
      PROVE  recvList[i] # recvList[j]
  <2>1. recvList[i].n < recvList[j].n /\ recvList[i].n \in Int
    BY <1>1, <1>2 DEF ReceivedInv, Rising
  <2>. QED BY <2>1
<1>3. ASSUME incoming # << >>, NEW i \in DOMAIN recvList
      PROVE  recvList[i] # incoming[1]
  <2>1. PICK last \in 0 .. arrived : Received(last)
    BY DEF ReceivedInv
  <2>2. recvList[i].n < last /\ incoming[1].n = last /\ last \in Int
    BY <1>3, <2>1, ReceivedTypes DEF Received
  <2>. QED BY <2>2
<1>. QED BY <1>1, <1>2, <1>3 DEF Range

(* What the application was handed so far, and how often.                  *)
OnceOnly ==
    Len(delivered) <= Cardinality(Range(delivered)) + staleReleases
        + (IF wpc = "ready" /\ cursor <= freed THEN 1 ELSE 0)

Checked == \A m \in Range(recvList) : m.kind = "forged" => m.n \in waived

LEMMA DeliveredStep ==
    ASSUME TypeOK, ReceivedInv, RecvInv, DeliveredInv, OnceOnly, [Next]_vars
    PROVE  DeliveredInv' /\ OnceOnly'
<1>1. ASSUME UNCHANGED <<recvList, delivered, freed, staleReleases>>,
             waived' = waived,
             \/ wpc' = wpc /\ cursor' = cursor
             \/ wpc # "ready" /\ wpc' # "ready"
      PROVE  DeliveredInv' /\ OnceOnly'
  <2>1. DeliveredInv'
    BY <1>1 DEF DeliveredInv
  <2>2. OnceOnly'
    BY <1>1 DEF OnceOnly
  <2>. QED BY <2>1, <2>2
<1>2. CASE UNCHANGED vars
  BY <1>1, <1>2 DEF vars, recvVars, workVars
<1>3. CASE WorkerLoopStep
  BY <1>1, <1>3
     DEF WorkerLoopStep, WorkerResize, WorkerResizeFails, WorkerKeepArray,
         WorkerExit, WorkerBuild, WorkerNullConnection, WorkerPollReady,
         WorkerPollTimeout, WorkerPollFails, WorkerScan, recvVars, workVars,
         AfterReceive
<1>4. CASE WorkerReceive \/ WorkerReceiveFails \/ WorkerReceiveNoMemory
  BY <1>1, <1>4
     DEF WorkerReceive, WorkerReceiveFails, WorkerReceiveNoMemory, recvVars,
         workVars, AfterReceive
<1>5. CASE WorkerVerify \/ WorkerCannotVerify
  <2>1. /\ wpc \in {"verify", "cannotVerify"} /\ wpc' # "ready"
        /\ Len(incoming) = 1 /\ waived \subseteq waived'
        /\ UNCHANGED <<delivered, freed, staleReleases>>
        /\ \/ recvList' = recvList
           \/ /\ recvList' = Append(recvList, incoming[1])
              /\ incoming[1].kind = "forged" => incoming[1].n \in waived'
    BY <1>5
       DEF WorkerVerify, WorkerCannotVerify, FinishReceive, Accept,
           AfterReceive, InsertTail, RecvInv, recvVars
  <2>2. OnceOnly'
    BY <2>1 DEF OnceOnly
  <2>3. CASE recvList' = recvList
    BY <2>1, <2>2, <2>3 DEF DeliveredInv
  <2>4. CASE recvList' = Append(recvList, incoming[1])
             /\ (incoming[1].kind = "forged" => incoming[1].n \in waived')
    <3>1. incoming[1] \in IncomingMessage /\ incoming # << >>
          /\ recvList \in Seq(IncomingMessage)
      BY <2>1, ReceivedTypes, SeqFirst
    <3>2. Range(recvList') = Range(recvList) \cup {incoming[1]}
      BY <2>4, <3>1, AppendFresh
    <3>3. incoming[1] \notin Range(recvList)
      BY <3>1, ReceivedApart
    <3>4. \A i \in DOMAIN recvList' :
              \/ i \in DOMAIN recvList /\ recvList'[i] = recvList[i]
              \/ recvList'[i] = incoming[1]
      BY <2>4, <3>1
    <3>5. DeliveredInv'
      BY <2>1, <2>4, <3>2, <3>3, <3>4 DEF DeliveredInv
    <3>. QED BY <2>2, <3>5
  <2>. QED BY <2>1, <2>3, <2>4
<1>6. CASE WorkerHangUpStep
  BY <1>1, <1>6
     DEF WorkerHangUpStep, WorkerHangUp, WorkerHangUpMark,
         WorkerHangUpRelease, WorkerHangUpCount, recvVars, workVars,
         AfterHangUp
<1>7. CASE WorkerDrainStep
  BY <1>1, <1>7
     DEF WorkerDrainStep, WorkerPop, WorkerDrainEnds, WorkerPrepare,
         WorkerCheck, WorkerSend, WorkerPutDown, recvVars, workVars
<1>8. CASE WorkerReady
  <2> DEFINE m == recvList[cursor]
  <2>1. /\ wpc = "dispatch" /\ wpc' = "ready" /\ cursor \in DOMAIN recvList
        /\ delivered' = Append(delivered, m) /\ cursor <= freed + 1
        /\ UNCHANGED <<recvList, freed, cursor, staleReleases, waived>>
    BY <1>8, ReceivedTypes
     DEF WorkerReady, RecvInv, workVars, TypeOK, WorkerType
  <2>2. m \in IncomingMessage /\ delivered \in Seq(IncomingMessage)
        /\ m \in Range(recvList) /\ freed \in Nat /\ cursor \in Nat
        /\ staleReleases \in Nat
    BY <2>1, ReceivedTypes DEF Range
  <2> HIDE DEF m
  <2>3. Range(delivered') = Range(delivered) \cup {m}
    BY <2>1, <2>2, AppendFresh
  <2>4. Len(delivered') = Len(delivered) + 1
    BY <2>1, <2>2
  <2>5. \A i \in DOMAIN recvList : i # cursor => recvList[i] # m
    BY <2>1, ReceivedApart DEF m
  <2>6. IsFiniteSet(Range(delivered')) /\ Cardinality(Range(delivered)) \in Nat
        /\ Cardinality(Range(delivered')) =
              IF m \in Range(delivered) THEN Cardinality(Range(delivered))
              ELSE Cardinality(Range(delivered)) + 1
    BY <2>3, FS_AddElement, FS_CardinalityType DEF DeliveredInv
  <2>7. DeliveredInv'
    BY <2>1, <2>2, <2>3, <2>5, <2>6 DEF DeliveredInv
  <2>8. cursor > freed => m \notin Range(delivered)
    BY <2>1, <2>2 DEF DeliveredInv, m
  <2>9. OnceOnly'
    <3>1. Len(delivered) <= Cardinality(Range(delivered)) + staleReleases
          /\ Len(delivered) \in Nat
      BY <2>1, <2>2, <2>6 DEF OnceOnly
    <3>2. Len(delivered') <= Cardinality(Range(delivered')) + staleReleases
             + (IF cursor <= freed THEN 1 ELSE 0)
      BY <2>2, <2>4, <2>6, <2>8, <3>1
    <3>. QED BY <2>1, <3>2 DEF OnceOnly
  <2>. QED BY <2>7, <2>9
<1>9. CASE WorkerReadyReturns
  <2>1. /\ wpc = "ready" /\ wpc' = "dispatch" /\ cursor <= freed + 1
        /\ staleReleases' = (IF cursor <= freed THEN staleReleases + 1
                             ELSE staleReleases)
        /\ freed' = (IF cursor <= freed THEN freed ELSE cursor)
        /\ UNCHANGED <<recvList, delivered, waived>>
    BY <1>9 DEF WorkerReadyReturns, RecvInv, workVars
  <2>2. freed \in Nat /\ cursor \in Nat /\ staleReleases \in Nat
        /\ DOMAIN recvList \subseteq Int /\ Len(delivered) \in Nat
        /\ Cardinality(Range(delivered)) \in Nat
    BY ReceivedTypes, FS_CardinalityType DEF DeliveredInv
  <2>3. \A i \in DOMAIN recvList : i > freed' => i > freed /\ i # cursor
    BY <2>1, <2>2
  <2>4. DeliveredInv'
    BY <2>1, <2>3 DEF DeliveredInv
  <2>5. OnceOnly'
    BY <2>1, <2>2 DEF OnceOnly
  <2>. QED BY <2>4, <2>5
<1>10. CASE WorkerUseAfterFree \/ WorkerDispatched
  BY <1>1, <1>10
     DEF WorkerUseAfterFree, WorkerDispatched, recvVars, workVars
<1>11. ASSUME NEW t \in Apps, AppStep(t) PROVE DeliveredInv' /\ OnceOnly'
  BY <1>1, <1>11
     DEF AppStep, AppFinish, AppAddRef, AppRelease, AppSend, AppInsert,
         AppDisconnect, AppDisconnectMark, AppSetKey, AppKeySet,
         AppUseAfterFinalise, recvVars, workVars
<1>12. CASE FreeStep \/ PeerStep
  BY <1>1, <1>12
     DEF FreeStep, FreeTerminate, FreeWait, FreeClear, FreeClearTwice,
         FreeRelease, PeerStep, PeerSends, PeerCloses, recvVars, workVars
<1>. QED BY <1>2, <1>3, <1>4, <1>5, <1>6, <1>7, <1>8, <1>9, <1>10, <1>11, <1>12
     DEF Next, WorkerStep, WorkerReceiveStep, WorkerDispatchStep

(* Together they are inductive, given the accounting.                      *)
LEMMA MessagesStart ==
    ASSUME ClientAssumption, Init
    PROVE  MessagesInv
<1>1. CallerOrder
  <2>1. Pipeline = << >>
    BY DEF Init, Pipeline, Taken
  <2>2. Inserting = {} /\ \A t \in Apps : Accepted(t) = 0
    BY DEF Init, Accepted, Inserting
  <2>3. \A t \in Apps : From(Pipeline, t) = {}
    BY <2>1, RangeEmpty DEF From
  <2>4. InOrder(Pipeline)
    BY <2>1 DEF InOrder
  <2>5. \A t \in Apps : Complete(Pipeline, t)
    BY <2>3 DEF Complete
  <2>. QED BY <2>2, <2>3, <2>4, <2>5 DEF CallerOrder
<1>2. SentInv /\ KeyInv
  BY DEF Init, SentInv, KeyInv, Inserting, Keying
<1>3. ReceivedInv
  BY DEF Init, ReceivedInv, Received, Rising
<1>4. DeliveredInv /\ CheckedAndOnce
  <2>1. /\ Range(delivered) = {} /\ Range(recvList) = {}
        /\ DOMAIN recvList = {} /\ Len(delivered) = 0
        /\ staleReleases = 0 /\ wpc = "loop" /\ ~tornUse
    BY RangeEmpty DEF Init
  <2>2. IsFiniteSet({}) /\ Cardinality({}) = 0
    BY FS_EmptySet
  <2>. QED BY <2>1, <2>2 DEF DeliveredInv, CheckedAndOnce
<1>. QED BY <1>1, <1>2, <1>3, <1>4 DEF MessagesInv

LEMMA MessagesStep ==
    ASSUME ClientAssumption, TypeOK, IInv, MessagesInv, [Next]_vars
    PROVE  MessagesInv'
<1>1. /\ HandInv /\ CallInv /\ RecvInv /\ CallerOrder /\ SentInv
      /\ ReceivedInv /\ DeliveredInv /\ KeyInv /\ KeyUse /\ OnceOnly
  BY DEF IInv, MessagesInv, CheckedAndOnce, KeyUse, OnceOnly
<1>2. CallerOrder' /\ SentInv' /\ KeyInv' /\ KeyUse'
  BY <1>1, OrderStep, SentStep, KeyStep
<1>3. ReceivedInv' /\ DeliveredInv' /\ OnceOnly'
  BY <1>1, ReceivedStep, DeliveredStep
<1>4. CheckedAndOnce'
  BY <1>2, <1>3 DEF CheckedAndOnce, DeliveredInv, KeyUse, OnceOnly
<1>. QED BY <1>2, <1>3, <1>4 DEF MessagesInv

(***************************************************************************)
(* The theorems.                                                           *)
(***************************************************************************)
LEMMA InitHolds ==
    ASSUME ClientAssumption, Init
    PROVE  TypeOK /\ IInv
<1>1. TypeOK
  <2>1. ConnectionType
    <3>1. Cardinality(holders) \in Nat
      BY FS_Subset, FS_CardinalityType DEF Init, ClientAssumption
    <3>2. << >> \in Seq(OutgoingMessage)
      BY EmptySeq
    <3>3. refCount \in Int
      BY <3>1 DEF Init
    <3>4. queue \in Seq(OutgoingMessage)
      BY <3>2 DEF Init
    <3>5. base \in BOOLEAN /\ terminated \in BOOLEAN
      BY DEF Init
    <3>. QED BY <3>3, <3>4, <3>5 DEF Init, ConnectionType
  <2>2. WorkerType
    <3>1. /\ << >> \in Seq(OutgoingMessage)
          /\ << >> \in Seq(IncomingMessage)
      BY EmptySeq
    <3>2. /\ hand \in Seq(OutgoingMessage)
          /\ incoming \in Seq(IncomingMessage)
          /\ recvList \in Seq(IncomingMessage)
      BY <3>1 DEF Init
    <3>3. failed \in BOOLEAN /\ fds \in [open : BOOLEAN, out : BOOLEAN]
      BY DEF Init, NoEntry
    <3>. QED BY <3>2, <3>3 DEF Init, WorkerType, WorkerPoints
  <2>3. CallerType
    BY DEF Init, CallerType, ClientAssumption
  <2>4. HistoryType
    BY EmptySeq DEF Init, HistoryType
  <2>. QED BY <2>1, <2>2, <2>3, <2>4 DEF TypeOK
<1>2. Inserting = {}
  BY DEF Init, Inserting
<1>3. RefAccounting
  <2>1. Cardinality(Inserting) = 0 /\ Cardinality(holders) \in Nat
    BY <1>1, <1>2, CallersCounted
  <2>2. TableReference = 1 /\ Len(hand) = 0 /\ Len(recvList) = 0
        /\ freed = 0 /\ Len(queue) = 0 /\ staleReleases = 0
        /\ refCount = 1 + Cardinality(holders)
    BY DEF Init, TableReference
  <2>3. Owners = 1 + Cardinality(holders)
    BY <2>1, <2>2 DEF Owners, WorkerOwners, CallerOwners
  <2>. QED BY <2>1, <2>2, <2>3 DEF RefAccounting, References
<1>4. HandInv /\ CountInv /\ RecvInv /\ CallInv
  BY DEF Init, HandInv, CountInv, RecvInv, CallInv, InPass
<1>5. FinalInv
  <2>1. Cardinality(holders) \in Nat
    BY <1>1, CallersCounted
  <2>. QED BY <2>1 DEF Init, FinalInv
<1>6. SocketInv /\ FaultCauses
  BY DEF Init, SocketInv, FaultCauses
<1>. QED BY <1>1, <1>3, <1>4, <1>5, <1>6 DEF IInv

(* The types and the invariant are inductive together.                     *)
LEMMA StepHolds ==
    ASSUME ClientAssumption, TypeOK, IInv, [Next]_vars
    PROVE  TypeOK' /\ IInv'
<1>1. HandInv /\ CountInv /\ RecvInv /\ CallInv /\ SocketInv
  BY DEF IInv
<1>2. TypeOK'
  BY <1>1, ConnStep, WorkerStepType, CallerStep, HistoryStep DEF TypeOK
<1>3. HandInv' /\ CountInv' /\ RecvInv'
  BY <1>1, HandStep, CountStep, RecvStep
<1>4. CallInv' /\ RefAccounting' /\ FinalInv' /\ SocketInv'
  BY <1>1, CallStep, RefStep, FinalStep, SocketStep
<1>5. FaultCauses'
  <2>1. CASE Next
    BY <2>1, FaultStep DEF Next
  <2>2. CASE UNCHANGED vars
    BY <2>2 DEF vars, connVars, recvVars, brokerVars, IInv, FaultCauses
  <2>. QED BY <2>1, <2>2
<1>. QED BY <1>2, <1>3, <1>4, <1>5 DEF IInv

(* They hold in every state of the client broker.                          *)
LEMMA Invariance == Spec => [](TypeOK /\ IInv)
<1>1. Init => TypeOK /\ IInv
  BY InitHolds, ClientAssumption
<1>2. TypeOK /\ IInv /\ [Next]_vars => (TypeOK /\ IInv)'
  BY StepHolds, ClientAssumption
<1>. QED BY <1>1, <1>2, PTL DEF Spec

(* So is what is known of the messages.                                    *)
LEMMA MessagesInvariance == Spec => []MessagesInv
<1>1. Init => MessagesInv
  BY MessagesStart, ClientAssumption
<1>2. TypeOK /\ IInv /\ MessagesInv /\ [Next]_vars => MessagesInv'
  BY MessagesStep, ClientAssumption
<1>. QED BY <1>1, <1>2, Invariance, PTL DEF Spec

(* Every variable keeps its type, so no access of the worker or of a call  *)
(* is outside the lists and the counters it works on.                      *)
THEOREM TypeCorrect == Spec => []TypeOK
BY Invariance, PTL

(* ReferenceCount always is the number of owners of the connection, less   *)
(* the releases the dispatch loop of _MFBrokerThreadRoutine made through   *)
(* list entries it had freed in an earlier pass: AddRef, SendAsync, a      *)
(* receive, the drain, Clear and Release keep the balance, whatever the    *)
(* order in which threads make those calls.                                *)
THEOREM ReferencesCounted == Spec => []RefAccounting
<1>1. IInv => RefAccounting
  BY DEF IInv
<1>. QED BY <1>1, Invariance, PTL

(* MFConnection_Release finalises the connection exactly when the last     *)
(* owner lets go, as long as no freed list entry was walked.               *)
THEOREM FreedExactly == Spec => []FreeIffUnreferenced
<1>1. TypeOK /\ IInv => FreeIffUnreferenced
  <2>. SUFFICES ASSUME TypeOK, IInv, staleReleases = 0
                PROVE  state = "free" <=> References = 0
    BY DEF FreeIffUnreferenced
  <2>1. refCount = Len(queue) + Owners - staleReleases
        /\ Len(queue) \in Nat /\ Owners \in Int /\ refCount \in Int
    BY Balance, ClientAssumption DEF IInv
  <2>2. References = refCount
    BY <2>1 DEF References
  <2>. QED BY <2>1, <2>2 DEF IInv, FinalInv
<1>. QED BY <1>1, Invariance, PTL

(* Undefined behaviour always comes from the second walk over recvList, or *)
(* from a hang-up that dropped the table's reference while messages were   *)
(* queued.                                                                 *)
THEOREM FaultsExplained == Spec => []FaultCauses
<1>1. IInv => FaultCauses
  BY DEF IInv
<1>. QED BY <1>1, Invariance, PTL

(* closesocket is called on a handle already closed only while another     *)
(* thread is between the close and the store in MFConnection_Disconnect.   *)
THEOREM SingleClose == Spec => NoDoubleClose
<1>1. ASSUME TypeOK, IInv, [Next]_vars
      PROVE  [closes' > closes => socket = "open" \/ Disconnecting # {}]_vars
  <2>1. closes' > closes => closes' # closes
    BY <1>1 DEF TypeOK, HistoryType
  <2>2. closes' # closes => socket # "invalid"
    BY <1>1, CloseOnlyOpen
  <2>3. socket \in {"open", "closed", "invalid"}
    BY <1>1 DEF TypeOK, ConnectionType
  <2>. QED BY <1>1, <2>1, <2>2, <2>3 DEF IInv, SocketInv
<1>. QED BY <1>1, Invariance, PTL DEF Spec, NoDoubleClose

(* Messages given to MFConnection_SendAsync leave in the order of the      *)
(* caller's calls, and none of them is lost or reported twice, whatever    *)
(* other threads and the worker's drain of MessagesToSend do meanwhile;    *)
(* only clearing the queue, when the connection is finalised, ends that.   *)
THEOREM OrderKept == Spec => []CallerOrder
<1>1. MessagesInv => CallerOrder
  BY DEF MessagesInv
<1>. QED BY <1>1, MessagesInvariance, PTL

(* A message the peer's signature does not cover reaches the application   *)
(* only with its consent, a message reaches it once for each time the      *)
(* dispatch loop walks its entry, and a half-written key is used only when *)
(* SetKey was called again.                                                *)
THEOREM DeliveredChecked == Spec => []CheckedAndOnce
<1>1. MessagesInv => CheckedAndOnce
  BY DEF MessagesInv
<1>. QED BY <1>1, MessagesInvariance, PTL
=============================================================================

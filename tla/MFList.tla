------------------------------- MODULE MFList -------------------------------
(***************************************************************************)
(* The doubly linked list of mflist.c as mfbroker.c shares one between     *)
(* threads: every change is made under the list's lock, one pointer write  *)
(* at a time, while _MFBrokerThreadRoutine asks MFList_Empty without the   *)
(* lock (mfbroker.c:192).  An entry belongs to one operation at a time, so *)
(* an operation is named by its entry; a free entry's memory may come back *)
(* as the entry of another message.                                        *)
(***************************************************************************)
EXTENDS Integers, Sequences

CONSTANTS
    Entries,
    ListHead,   \* the MF_LIST_ENTRY the list hangs on
    Nil,        \* what a pointer is in memory nobody initialised, or freed
    NoOne,      \* the lock is free
    CLEARER     \* the thread in MFConnection_Clear

ASSUME ListAssumption ==
    /\ ListHead \notin Entries
    /\ Nil \notin Entries \cup {ListHead}
    /\ NoOne \notin Entries \cup {CLEARER} /\ CLEARER \notin Entries

Nodes == Entries \cup {ListHead}

VARIABLES
    next, prev, \* the fields of the head and of the entries
    lock,       \* the entry whose operation holds the lock, or CLEARER
    pc,         \* of each entry: in no list, in the list, or the statement
                \* of the operation on it that comes next
    cur,        \* msg, in MFConnection_Clear
    poll,       \* the call of MFList_Empty without the lock
    contents,   \* history: the entries in the list
    sawEmpty    \* history: the list was empty when that call began to read

vars == <<next, prev, lock, pc, cur, poll, contents, sawEmpty>>

(* MFList_Init of the head; the entries are fresh memory.                  *)
Init ==
    /\ next = [n \in Nodes |-> IF n = ListHead THEN ListHead ELSE Nil]
    /\ prev = [n \in Nodes |-> IF n = ListHead THEN ListHead ELSE Nil]
    /\ lock = NoOne
    /\ pc = [e \in Entries |-> "out"]
    /\ cur = ListHead
    /\ poll = "idle"
    /\ contents = <<>>
    /\ sawEmpty = FALSE

(* Mutant: the tail is taken from the wrong end.                           *)
TailFillFromNext(e) ==
    /\ lock = NoOne /\ lock' = e
    /\ pc[e] = "out" /\ pc' = [pc EXCEPT ![e] = "tailLink"]
    /\ next' = [next EXCEPT ![e] = ListHead]
    /\ prev' = [prev EXCEPT ![e] = next[ListHead]]
    /\ UNCHANGED <<cur, poll, contents, sawEmpty>>

(***************************************************************************)
(* MFList_InsertTail, called by MFConnection_SendAsync.  The entry's own   *)
(* fields are filled in one step: nobody else sees it yet.                 *)
(***************************************************************************)
TailFill(e) ==
    /\ lock = NoOne /\ lock' = e
    /\ pc[e] = "out" /\ pc' = [pc EXCEPT ![e] = "tailLink"]
    /\ next' = [next EXCEPT ![e] = ListHead]
    /\ prev' = [prev EXCEPT ![e] = prev[ListHead]]
    /\ UNCHANGED <<cur, poll, contents, sawEmpty>>

TailLink(e) ==
    /\ pc[e] = "tailLink" /\ pc' = [pc EXCEPT ![e] = "tailClose"]
    /\ next' = [next EXCEPT ![prev[ListHead]] = e]
    /\ contents' = Append(contents, e)
    /\ UNCHANGED <<prev, lock, cur, poll, sawEmpty>>

TailClose(e) ==
    /\ pc[e] = "tailClose" /\ pc' = [pc EXCEPT ![e] = "in"]
    /\ prev' = [prev EXCEPT ![ListHead] = e]
    /\ lock' = NoOne
    /\ UNCHANGED <<next, cur, poll, contents, sawEmpty>>

(* MFList_InsertHead.                                                      *)
HeadFill(e) ==
    /\ lock = NoOne /\ lock' = e
    /\ pc[e] = "out" /\ pc' = [pc EXCEPT ![e] = "headLink"]
    /\ prev' = [prev EXCEPT ![e] = ListHead]
    /\ next' = [next EXCEPT ![e] = next[ListHead]]
    /\ UNCHANGED <<cur, poll, contents, sawEmpty>>

HeadLink(e) ==
    /\ pc[e] = "headLink" /\ pc' = [pc EXCEPT ![e] = "headClose"]
    /\ prev' = [prev EXCEPT ![next[ListHead]] = e]
    /\ UNCHANGED <<next, lock, cur, poll, contents, sawEmpty>>

HeadClose(e) ==
    /\ pc[e] = "headClose" /\ pc' = [pc EXCEPT ![e] = "in"]
    /\ next' = [next EXCEPT ![ListHead] = e]
    /\ contents' = <<e>> \o contents
    /\ lock' = NoOne
    /\ UNCHANGED <<prev, cur, poll, sawEmpty>>

(***************************************************************************)
(* MFList_Remove, called by the worker for the first entry.                *)
(***************************************************************************)
RemovePrev(e) ==
    /\ lock = NoOne /\ lock' = e
    /\ next[ListHead] = e
    /\ pc[e] = "in" /\ pc' = [pc EXCEPT ![e] = "removeNext"]
    /\ prev' = [prev EXCEPT ![next[e]] = prev[e]]
    /\ UNCHANGED <<next, cur, poll, contents, sawEmpty>>

RemoveNext(e) ==
    /\ pc[e] = "removeNext" /\ pc' = [pc EXCEPT ![e] = "removeInit"]
    /\ next' = [next EXCEPT ![prev[e]] = next[e]]
    /\ contents' = Tail(contents)
    /\ UNCHANGED <<prev, lock, cur, poll, sawEmpty>>

RemoveInit(e) ==
    /\ pc[e] = "removeInit" /\ pc' = [pc EXCEPT ![e] = "out"]
    /\ next' = [next EXCEPT ![e] = e]
    /\ prev' = [prev EXCEPT ![e] = e]
    /\ lock' = NoOne
    /\ UNCHANGED <<cur, poll, contents, sawEmpty>>

(***************************************************************************)
(* MFConnection_Clear: the successor is read before the entry is freed.    *)
(* None of its releases is the connection's last: a walk nested in this    *)
(* one, which frees the same entries, is MFBrokerClient!FreeClearTwice.    *)
(***************************************************************************)
ClearEnter ==
    /\ lock = NoOne /\ lock' = CLEARER
    /\ cur' = next[ListHead]
    /\ UNCHANGED <<next, prev, pc, poll, contents, sawEmpty>>

ClearEntry ==
    /\ lock = CLEARER /\ cur \in Entries
    /\ cur' = next[cur]
    /\ next' = [next EXCEPT ![cur] = Nil]
    /\ prev' = [prev EXCEPT ![cur] = Nil]
    /\ pc' = [pc EXCEPT ![cur] = "out"]
    /\ contents' = Tail(contents)
    /\ UNCHANGED <<lock, poll, sawEmpty>>

ClearInitNext ==
    /\ lock = CLEARER /\ cur = ListHead
    /\ next[ListHead] # ListHead
    /\ next' = [next EXCEPT ![ListHead] = ListHead]
    /\ UNCHANGED <<prev, lock, pc, cur, poll, contents, sawEmpty>>

ClearInitPrev ==
    /\ lock = CLEARER /\ cur = ListHead
    /\ next[ListHead] = ListHead
    /\ prev' = [prev EXCEPT ![ListHead] = ListHead]
    /\ lock' = NoOne
    /\ UNCHANGED <<next, pc, cur, poll, contents, sawEmpty>>

(***************************************************************************)
(* MFList_Empty without the lock.  Next is read first; for the second      *)
(* comparison a build may read it again or use the value it has.  Bound:   *)
(* where it reads both again, nothing happens between the two reads.       *)
(***************************************************************************)
(* Mutant: the first comparison is left out.                               *)
EmptyFirstLeftOut ==
    /\ poll = "idle"
    /\ poll' = "second"
    /\ sawEmpty' = (contents = <<>>)
    /\ UNCHANGED <<next, prev, lock, pc, cur, contents>>

EmptyFirst ==
    /\ poll = "idle"
    /\ poll' = IF next[ListHead] = ListHead THEN "second" ELSE "false"
    /\ sawEmpty' = (contents = <<>>)
    /\ UNCHANGED <<next, prev, lock, pc, cur, contents>>

EmptySecond ==
    /\ poll = "second"
    /\ \E n \in {ListHead, next[ListHead]} :
        poll' = IF prev[ListHead] = n THEN "true" ELSE "false"
    /\ UNCHANGED <<next, prev, lock, pc, cur, contents, sawEmpty>>

EmptyReturned ==
    /\ poll \in {"true", "false"} /\ poll' = "idle"
    /\ UNCHANGED <<next, prev, lock, pc, cur, contents, sawEmpty>>

Next ==
    \/ \E e \in Entries :
        \/ TailFill(e) \/ TailLink(e) \/ TailClose(e)
        \/ HeadFill(e) \/ HeadLink(e) \/ HeadClose(e)
        \/ RemovePrev(e) \/ RemoveNext(e) \/ RemoveInit(e)
    \/ ClearEnter \/ ClearEntry \/ ClearInitNext \/ ClearInitPrev
    \/ EmptyFirst \/ EmptySecond \/ EmptyReturned

Spec == Init /\ [][Next]_vars

-----------------------------------------------------------------------------
(* Pointers point to the head or an entry, or into no memory in entries    *)
(* that are in no list; a clearing walk that is not nested in another one  *)
(* never follows a freed entry (mfbroker.c:588-592).                       *)
TypeOK ==
    /\ next \in [Nodes -> Nodes \cup {Nil}]
    /\ prev \in [Nodes -> Nodes \cup {Nil}]
    /\ lock \in Entries \cup {NoOne, CLEARER}
    /\ pc \in [Entries -> {"out", "in", "tailLink", "tailClose",
                           "headLink", "headClose", "removeNext",
                           "removeInit"}]
    /\ cur \in Nodes
    /\ poll \in {"idle", "second", "true", "false"}
    /\ contents \in Seq(Entries)
    /\ sawEmpty \in BOOLEAN

(* The node at a position of the ring: the head is before the first and    *)
(* behind the last entry.                                                  *)
At(i) == IF i \in 1..Len(contents) THEN contents[i] ELSE ListHead

(* Next spells the list at every moment, in the middle of operations too,  *)
(* but not from the head of a list being cleared.                          *)
Forward ==
    \A i \in 0..Len(contents) :
        (lock = CLEARER => i > 0) => next[At(i)] = At(i + 1)

(* Prev spells it backwards whenever the lock is free.                     *)
Backward ==
    lock = NoOne =>
        \A i \in 0..Len(contents) : prev[At(i + 1)] = At(i)

(* Whatever the operations and their order, the pointers are a ring        *)
(* through the entries put in and not taken out, each once (mflist.c).     *)
RingIsList ==
    /\ Forward /\ Backward
    /\ \A i, j \in 1..Len(contents) : contents[i] = contents[j] => i = j

(* MFList_Empty without the lock: if it answers that the list is empty,    *)
(* it was when the call began; if it answers that it is not, there is an   *)
(* entry, or another thread is changing the list (mfbroker.c:192).         *)
EmptyAnswer ==
    /\ (EmptySecond /\ poll' = "true") => sawEmpty
    /\ poll' = "false" => contents # <<>> \/ lock # NoOne

EmptyJustified == [][EmptyAnswer]_poll
=============================================================================

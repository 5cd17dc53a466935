---------------------------- MODULE MFListProofs ----------------------------
(***************************************************************************)
(* Proofs about the list.  The inductive invariant says, besides the types *)
(* and the ring, which entries are listed (Members), that the lock holder  *)
(* is the one entry under way (Holder), which backward pointer is stale at *)
(* which statement (BackwardBut), and what the statement under way has     *)
(* read and written so far (Midway).                                       *)
(***************************************************************************)
EXTENDS MFList, TLAPS

Listed == {"in", "tailClose", "removeNext"}

Distinct ==
    \A i, j \in 1..Len(contents) : contents[i] = contents[j] => i = j

Members ==
    \A e \in Entries :
        pc[e] \in Listed <=> \E i \in 1..Len(contents) : contents[i] = e

Holder == \A e \in Entries : pc[e] \notin {"in", "out"} <=> lock = e

(* The position whose successor does not point back yet, or not any more.  *)
Stale(i) ==
    \/ lock = CLEARER /\ i = 0
    \/ /\ lock \in Entries
       /\ \/ pc[lock] = "tailClose" /\ i = Len(contents)
          \/ pc[lock] = "headClose" /\ i = 0
          \/ pc[lock] = "removeNext" /\ i = 1

BackwardBut ==
    \A i \in 0..Len(contents) : ~Stale(i) => prev[At(i + 1)] = At(i)

Midway ==
    /\ lock = CLEARER =>
        /\ cur = At(1)
        /\ contents # << >> => next[ListHead] # ListHead
    /\ lock \in Entries =>
        /\ pc[lock] = "tailLink" =>
            next[lock] = ListHead /\ prev[lock] = At(Len(contents))
        /\ pc[lock] = "tailClose" =>
            Len(contents) > 0 /\ contents[Len(contents)] = lock
        /\ pc[lock] \in {"headLink", "headClose"} =>
            prev[lock] = ListHead /\ next[lock] = At(1)
        /\ pc[lock] = "headClose" => prev[At(1)] = lock
        /\ pc[lock] = "removeNext" =>
            Len(contents) > 0 /\ contents[1] = lock /\ prev[At(2)] = ListHead

Ring == Members /\ Holder /\ Distinct /\ Forward /\ BackwardBut /\ Midway

(* What the first comparison of MFList_Empty has found.                   *)
Found == poll = "second" => sawEmpty

IInv == TypeOK /\ Ring /\ Found

(* The positions of the ring are the head and the entries.                 *)
LEMMA AtType ==
    ASSUME TypeOK
    PROVE  /\ Len(contents) \in Nat
           /\ \A i \in Int : At(i) \in Nodes
           /\ \A i \in 1..Len(contents) : At(i) = contents[i] /\ At(i) \in Entries
           /\ \A i \in Int : i \notin 1..Len(contents) => At(i) = ListHead
<1>1. Len(contents) \in Nat
  BY DEF TypeOK
<1>2. \A i \in 1..Len(contents) : At(i) = contents[i] /\ At(i) \in Entries
  BY DEF TypeOK, At
<1>3. \A i \in Int : i \notin 1..Len(contents) => At(i) = ListHead
  BY DEF At
<1>. QED BY <1>1, <1>2, <1>3 DEF Nodes

(* Appending puts the entry at a new last position.                        *)
LEMMA AppendAt ==
    ASSUME TypeOK, NEW e \in Entries, contents' = Append(contents, e)
    PROVE  /\ Len(contents') = Len(contents) + 1
           /\ \A i \in Int : At(i)' = IF i = Len(contents) + 1 THEN e ELSE At(i)
<1>1. /\ Len(contents') = Len(contents) + 1
      /\ Len(contents) \in Nat
      /\ \A i \in 1..Len(contents) : contents'[i] = contents[i]
      /\ contents'[Len(contents) + 1] = e
  BY DEF TypeOK
<1>. QED BY <1>1 DEF At

(* Putting an entry in front moves every other one up.                     *)
LEMMA ConsAt ==
    ASSUME TypeOK, NEW e \in Entries, contents' = <<e>> \o contents
    PROVE  /\ Len(contents') = Len(contents) + 1
           /\ \A i \in Int : At(i)' = IF i = 1 THEN e
                                      ELSE IF i < 1 THEN ListHead ELSE At(i - 1)
<1>1. /\ Len(contents') = Len(contents) + 1
      /\ Len(contents) \in Nat
      /\ \A i \in 2..Len(contents) + 1 : contents'[i] = contents[i - 1]
      /\ contents'[1] = e
  BY DEF TypeOK
<1>. QED BY <1>1 DEF At

(* Taking the first entry away moves every other one down.                 *)
LEMMA TailAt ==
    ASSUME TypeOK, contents # << >>, contents' = Tail(contents)
    PROVE  /\ Len(contents) > 0
           /\ Len(contents') = Len(contents) - 1
           /\ \A i \in Int : At(i)' = IF i < 1 THEN ListHead ELSE At(i + 1)
<1>1. /\ Len(contents') = Len(contents) - 1
      /\ Len(contents) \in Nat \ {0}
      /\ \A i \in 1..Len(contents) - 1 : contents'[i] = contents[i + 1]
  BY DEF TypeOK
<1>. QED BY <1>1 DEF At
(* A listed entry is at one position; the others and the head are at none. *)
LEMMA AtUnique ==
    ASSUME TypeOK, Ring
    PROVE  /\ \A i, j \in 1..Len(contents) : At(i) = At(j) => i = j
           /\ \A i \in 1..Len(contents) : At(i) # ListHead
           /\ \A e \in Entries : pc[e] \notin Listed =>
                \A i \in Int : At(i) # e
BY AtType, ListAssumption DEF Ring, Distinct, Members

(* The entry is filled in; the ring does not contain it yet.                *)
LEMMA TailFillKeeps ==
    ASSUME IInv, NEW e \in Entries, TailFill(e)
    PROVE  IInv'
<1>. USE ListAssumption DEF IInv
<1>1. contents' = contents /\ \A i : At(i)' = At(i)
  BY DEF At, TailFill
<1>2. /\ \A i, j \in 1..Len(contents) : At(i) = At(j) => i = j
      /\ \A i \in 1..Len(contents) : At(i) # ListHead
      /\ \A f \in Entries : pc[f] \notin Listed => \A i \in Int : At(i) # f
  BY AtUnique
<1>4. TypeOK'
  BY DEF TypeOK, Nodes, TailFill
<1>5. Members'
  BY DEF Ring, Members, Listed, TailFill
<1>6. Holder'
  BY DEF TypeOK, Ring, Holder, TailFill
<1>7. Distinct'
  BY <1>1, <1>2, AtType DEF Distinct
<1>8. Forward'
  BY <1>1, <1>2 DEF Ring, Forward, Listed, TailFill
<1>9. BackwardBut'
  BY <1>1, <1>2 DEF Ring, BackwardBut, Stale, Listed, TailFill
<1>10. Midway'
  BY <1>1, AtType DEF TypeOK, Ring, BackwardBut, Stale, Midway, Nodes,
     TailFill
<1>11. Found'
  BY DEF Found, TailFill
<1>. QED BY <1>4, <1>5, <1>6, <1>7, <1>8, <1>9, <1>10, <1>11 DEF Ring

(* The last entry points to the new one: it is listed now.                  *)
LEMMA TailLinkKeeps ==
    ASSUME IInv, NEW e \in Entries, TailLink(e)
    PROVE  IInv'
<1>. USE ListAssumption DEF IInv
<1>1. /\ Len(contents') = Len(contents) + 1
      /\ \A i \in Int : At(i)' = IF i = Len(contents) + 1 THEN e ELSE At(i)
  BY AppendAt DEF TailLink
<1>2. /\ \A i, j \in 1..Len(contents) : At(i) = At(j) => i = j
      /\ \A i \in 1..Len(contents) : At(i) # ListHead
      /\ \A f \in Entries : pc[f] \notin Listed => \A i \in Int : At(i) # f
  BY AtUnique
<1>3. prev[ListHead] = At(Len(contents))
  BY AtType, <1>2 DEF TypeOK, Ring, BackwardBut, Stale, Holder, TailLink
<1>4. TypeOK'
  BY AtType, <1>3 DEF TypeOK, Nodes, TailLink
<1>5. Members'
  BY DEF TypeOK, Ring, Members, Listed, TailLink
<1>6. Holder'
  BY DEF Ring, Holder, TailLink
<1>7. Distinct'
  BY <1>2, AtType DEF Distinct, Listed, TailLink
<1>8. Forward'
  BY <1>1, <1>2, AtType, <1>3 DEF TypeOK, Ring, Forward, Holder, Midway,
     Listed, TailLink
<1>9. BackwardBut'
  BY <1>1 DEF TypeOK, Ring, BackwardBut, Stale, Holder, Midway, TailLink
<1>10. Midway'
  BY DEF TypeOK, Ring, Holder, Midway, TailLink
<1>11. Found'
  BY DEF Found, TailLink
<1>. QED BY <1>4, <1>5, <1>6, <1>7, <1>8, <1>9, <1>10, <1>11 DEF Ring

(* The head points back to the new last entry.                              *)
LEMMA TailCloseKeeps ==
    ASSUME IInv, NEW e \in Entries, TailClose(e)
    PROVE  IInv'
<1>. USE ListAssumption DEF IInv
<1>1. contents' = contents /\ \A i : At(i)' = At(i)
  BY DEF At, TailClose
<1>2. /\ \A i, j \in 1..Len(contents) : At(i) = At(j) => i = j
      /\ \A i \in 1..Len(contents) : At(i) # ListHead
      /\ \A f \in Entries : pc[f] \notin Listed => \A i \in Int : At(i) # f
  BY AtUnique
<1>4. TypeOK'
  BY DEF TypeOK, Nodes, TailClose
<1>5. Members'
  BY DEF Ring, Members, Listed, TailClose
<1>6. Holder'
  BY DEF TypeOK, Ring, Holder, TailClose
<1>7. Distinct'
  BY <1>1, <1>2, AtType DEF Distinct
<1>8. Forward'
  BY <1>1 DEF Ring, Forward, Holder, TailClose
<1>9. BackwardBut'
  BY <1>1, AtType DEF TypeOK, Ring, BackwardBut, Stale, Holder, Midway,
     TailClose
<1>10. Midway'
  BY DEF Midway, TailClose
<1>11. Found'
  BY DEF Found, TailClose
<1>. QED BY <1>4, <1>5, <1>6, <1>7, <1>8, <1>9, <1>10, <1>11 DEF Ring

(* The entry is filled in; the ring does not contain it yet.                *)
LEMMA HeadFillKeeps ==
    ASSUME IInv, NEW e \in Entries, HeadFill(e)
    PROVE  IInv'
<1>. USE ListAssumption DEF IInv
<1>1. contents' = contents /\ \A i : At(i)' = At(i)
  BY DEF At, HeadFill
<1>2. /\ \A i, j \in 1..Len(contents) : At(i) = At(j) => i = j
      /\ \A i \in 1..Len(contents) : At(i) # ListHead
      /\ \A f \in Entries : pc[f] \notin Listed => \A i \in Int : At(i) # f
  BY AtUnique
<1>4. TypeOK'
  BY DEF TypeOK, Nodes, HeadFill
<1>5. Members'
  BY DEF Ring, Members, Listed, HeadFill
<1>6. Holder'
  BY DEF TypeOK, Ring, Holder, HeadFill
<1>7. Distinct'
  BY <1>1, <1>2, AtType DEF Distinct
<1>8. Forward'
  BY <1>1, <1>2 DEF Ring, Forward, Listed, HeadFill
<1>9. BackwardBut'
  BY <1>1, <1>2 DEF Ring, BackwardBut, Stale, Listed, HeadFill
<1>10. Midway'
  BY <1>1, AtType DEF TypeOK, Ring, Forward, Midway, Nodes, HeadFill
<1>11. Found'
  BY DEF Found, HeadFill
<1>. QED BY <1>4, <1>5, <1>6, <1>7, <1>8, <1>9, <1>10, <1>11 DEF Ring

(* The first entry points back to the new one.                              *)
LEMMA HeadLinkKeeps ==
    ASSUME IInv, NEW e \in Entries, HeadLink(e)
    PROVE  IInv'
<1>. USE ListAssumption DEF IInv
<1>1. contents' = contents /\ \A i : At(i)' = At(i)
  BY DEF At, HeadLink
<1>2. /\ \A i, j \in 1..Len(contents) : At(i) = At(j) => i = j
      /\ \A i \in 1..Len(contents) : At(i) # ListHead
      /\ \A f \in Entries : pc[f] \notin Listed => \A i \in Int : At(i) # f
  BY AtUnique
<1>4. TypeOK'
  BY DEF TypeOK, Nodes, HeadLink
<1>5. Members'
  BY DEF Ring, Members, Listed, HeadLink
<1>6. Holder'
  BY DEF Ring, Holder, HeadLink
<1>7. Distinct'
  BY <1>1, <1>2, AtType DEF Distinct
<1>8. Forward'
  BY <1>1 DEF Ring, Forward, HeadLink
<1>9. BackwardBut'
  BY <1>1, AtType DEF TypeOK, Ring, Forward, BackwardBut, Stale, Holder,
     HeadLink
<1>10. Midway'
  BY <1>1, <1>2, AtType DEF TypeOK, Ring, Forward, Holder, Midway, HeadLink
<1>11. Found'
  BY DEF Found, HeadLink
<1>. QED BY <1>4, <1>5, <1>6, <1>7, <1>8, <1>9, <1>10, <1>11 DEF Ring

(* The head points to the new first entry: it is listed now.                *)
LEMMA HeadCloseKeeps ==
    ASSUME IInv, NEW e \in Entries, HeadClose(e)
    PROVE  IInv'
<1>. USE ListAssumption DEF IInv
<1>1. /\ Len(contents') = Len(contents) + 1
      /\ \A i \in Int : At(i)' = IF i = 1 THEN e
                                 ELSE IF i < 1 THEN ListHead ELSE At(i - 1)
  BY ConsAt DEF HeadClose
<1>2. /\ \A i, j \in 1..Len(contents) : At(i) = At(j) => i = j
      /\ \A i \in 1..Len(contents) : At(i) # ListHead
      /\ \A f \in Entries : pc[f] \notin Listed => \A i \in Int : At(i) # f
  BY AtUnique
<1>3. /\ next[e] = At(1) /\ prev[e] = ListHead
      /\ prev[At(1)] = e /\ pc[e] \notin Listed /\ lock = e
  BY DEF TypeOK, Ring, Holder, Midway, Listed, HeadClose
<1>4. TypeOK'
  BY AtType, <1>3 DEF TypeOK, HeadClose
<1>5. Members'
  BY DEF TypeOK, Ring, Members, Listed, HeadClose
<1>6. Holder'
  BY DEF TypeOK, Ring, Holder, HeadClose
<1>7. Distinct'
  <2>1. /\ \A i \in 2..Len(contents) + 1 : contents'[i] = At(i - 1)
        /\ contents'[1] = e
    BY <1>1, AtType DEF At
  <2>. QED BY <2>1, <1>1, <1>2, <1>3, AtType DEF Distinct
<1>8. Forward'
  BY <1>1, AtType, <1>3 DEF TypeOK, Ring, Forward, Holder, HeadClose
<1>9. BackwardBut'
  BY <1>1, <1>3 DEF Ring, BackwardBut, Stale, HeadClose
<1>10. Midway'
  BY DEF Midway, HeadClose
<1>11. Found'
  BY DEF Found, HeadClose
<1>. QED BY <1>4, <1>5, <1>6, <1>7, <1>8, <1>9, <1>10, <1>11 DEF Ring

(* The second entry points back to the head.                                *)
LEMMA RemovePrevKeeps ==
    ASSUME IInv, NEW e \in Entries, RemovePrev(e)
    PROVE  IInv'
<1>. USE ListAssumption DEF IInv
<1>1. contents' = contents /\ \A i : At(i)' = At(i)
  BY DEF At, RemovePrev
<1>2. /\ \A i, j \in 1..Len(contents) : At(i) = At(j) => i = j
      /\ \A i \in 1..Len(contents) : At(i) # ListHead
      /\ \A f \in Entries : pc[f] \notin Listed => \A i \in Int : At(i) # f
  BY AtUnique
<1>4. TypeOK'
  BY DEF TypeOK, Nodes, RemovePrev
<1>5. Members'
  BY DEF Ring, Members, Listed, RemovePrev
<1>6. Holder'
  BY DEF TypeOK, Ring, Holder, RemovePrev
<1>7. Distinct'
  BY <1>1, <1>2, AtType DEF Distinct
<1>8. Forward'
  BY <1>1 DEF Ring, Forward, RemovePrev
<1>9. BackwardBut'
  BY <1>1, <1>2, AtType DEF TypeOK, Ring, Forward, BackwardBut, Stale,
     RemovePrev
<1>10. Midway'
  BY <1>1, AtType DEF TypeOK, Ring, Forward, BackwardBut, Stale, Midway,
     RemovePrev
<1>11. Found'
  BY DEF Found, RemovePrev
<1>. QED BY <1>4, <1>5, <1>6, <1>7, <1>8, <1>9, <1>10, <1>11 DEF Ring

(* The head points to the second entry: the first is out.                   *)
LEMMA RemoveNextKeeps ==
    ASSUME IInv, NEW e \in Entries, RemoveNext(e)
    PROVE  IInv'
<1>. USE ListAssumption DEF IInv
<1>2. /\ \A i, j \in 1..Len(contents) : At(i) = At(j) => i = j
      /\ \A i \in 1..Len(contents) : At(i) # ListHead
      /\ \A f \in Entries : pc[f] \notin Listed => \A i \in Int : At(i) # f
  BY AtUnique
<1>3. /\ prev[e] = ListHead /\ next[e] = At(2) /\ prev[At(2)] = ListHead
      /\ At(1) = e /\ Len(contents) > 0 /\ lock = e
  BY AtType, <1>2 DEF TypeOK, Ring, Forward, BackwardBut, Stale, Holder,
     Midway, RemoveNext
<1>1. /\ Len(contents') = Len(contents) - 1
      /\ \A i \in Int : At(i)' = IF i < 1 THEN ListHead ELSE At(i + 1)
  BY <1>3, TailAt DEF TypeOK, RemoveNext
<1>4. TypeOK'
  BY AtType, <1>3 DEF TypeOK, RemoveNext
<1>5. Members'
  <2>1. /\ \A i \in 1..Len(contents) - 1 : contents'[i] = At(i + 1)
        /\ \A i \in 1..Len(contents) : contents[i] = At(i)
    BY <1>3, TailAt, AtType DEF At, RemoveNext
  <2>2. \A f \in Entries :
            (\E i \in 1..Len(contents') : contents'[i] = f)
            <=> f # At(1) /\ \E i \in 1..Len(contents) : contents[i] = f
    <3>. TAKE f \in Entries
    <3>1. ASSUME NEW i \in 1..Len(contents'), contents'[i] = f
          PROVE  f # At(1) /\ \E j \in 1..Len(contents) : contents[j] = f
      <4>1. i \in 1..Len(contents) - 1 /\ i + 1 \in 1..Len(contents)
        BY <1>1, <1>3, AtType
      <4>2. contents[i + 1] = f /\ At(i + 1) = f
        BY <2>1, <3>1, <4>1
      <4>3. f # At(1)
        BY <1>2, <1>3, <4>1, <4>2, AtType
      <4>. QED BY <4>1, <4>2, <4>3
    <3>2. ASSUME f # At(1), NEW i \in 1..Len(contents), contents[i] = f
          PROVE  \E j \in 1..Len(contents') : contents'[j] = f
      <4>1. i # 1
        BY <2>1, <3>2
      <4>2. /\ i - 1 \in 1..Len(contents') /\ i - 1 \in 1..Len(contents) - 1
            /\ (i - 1) + 1 = i
        BY <4>1, <1>1, <1>3, AtType
      <4>3. contents'[i - 1] = f
        BY <2>1, <3>2, <4>2
      <4>. QED BY <4>2, <4>3
    <3>. QED BY <3>1, <3>2
  <2>3. \A f \in Entries : pc'[f] \in Listed <=> f # e /\ pc[f] \in Listed
    BY DEF TypeOK, Listed, RemoveNext
  <2>. QED BY <2>2, <2>3, <1>3 DEF Ring, Members
<1>6. Holder'
  BY DEF Ring, Holder, RemoveNext
<1>7. Distinct'
  BY <1>2, AtType DEF TypeOK, Distinct, Listed, RemoveNext
<1>8. Forward'
  <2>. SUFFICES ASSUME NEW i \in 0..Len(contents'),
                       (lock = CLEARER => i > 0)'
                PROVE  next'[At(i)'] = At(i + 1)'
    BY DEF Forward
  <2>1. CASE i = 0
    BY <2>1, <1>1, <1>2, <1>3, AtType DEF TypeOK, Nodes, RemoveNext
  <2>2. CASE i > 0
    <3>1. /\ At(i)' = At(i + 1) /\ At(i + 1)' = At(i + 2)
          /\ i + 1 \in 1..Len(contents)
      <4>1. i \in 1..Len(contents) - 1 /\ Len(contents) \in Nat
        BY <2>2, <1>1, AtType
      <4>. QED BY <4>1, <1>1
    <3>2. At(i + 1) \notin {ListHead, e}
      BY <3>1, <1>2, <1>3, <2>2
    <3>3. next[At(i + 1)] = At(i + 2)
      BY <3>1, <2>2 DEF Ring, Forward
    <3>. QED BY <3>1, <3>2, <3>3, <1>3, AtType DEF TypeOK, RemoveNext
  <2>. QED BY <2>1, <2>2
<1>9. BackwardBut'
  <2>. SUFFICES ASSUME NEW i \in 0..Len(contents'), ~Stale(i)'
                PROVE  prev'[At(i + 1)'] = At(i)'
    BY DEF BackwardBut
  <2>1. CASE i = 0
    BY <2>1, <1>1, <1>2, <1>3, AtType DEF Stale, TypeOK, RemoveNext
  <2>2. CASE i > 0
    <3>1. /\ At(i)' = At(i + 1) /\ At(i + 1)' = At(i + 2)
          /\ i + 1 \in 1..Len(contents)
      <4>1. i \in 1..Len(contents) - 1 /\ Len(contents) \in Nat
        BY <2>2, <1>1, AtType
      <4>. QED BY <4>1, <1>1
    <3>2. At(i + 2) # e
      BY <3>1, <1>2, <1>3, <2>2, AtType
    <3>3. ~Stale(i + 1)
      BY <2>2, <3>1, <1>3 DEF Stale, TypeOK, RemoveNext
    <3>4. prev[At(i + 2)] = At(i + 1)
      BY <3>1, <3>3, <2>2 DEF Ring, BackwardBut
    <3>. QED BY <3>1, <3>2, <3>4, AtType DEF TypeOK, RemoveNext
  <2>. QED BY <2>1, <2>2
<1>10. Midway'
  BY <1>3 DEF TypeOK, Midway, RemoveNext
<1>11. Found'
  BY DEF Found, RemoveNext
<1>. QED BY <1>4, <1>5, <1>6, <1>7, <1>8, <1>9, <1>10, <1>11 DEF Ring

(* The removed entry is linked to itself.                                   *)
LEMMA RemoveInitKeeps ==
    ASSUME IInv, NEW e \in Entries, RemoveInit(e)
    PROVE  IInv'
<1>. USE ListAssumption DEF IInv
<1>1. contents' = contents /\ \A i : At(i)' = At(i)
  BY DEF At, RemoveInit
<1>2. /\ \A i, j \in 1..Len(contents) : At(i) = At(j) => i = j
      /\ \A i \in 1..Len(contents) : At(i) # ListHead
      /\ \A f \in Entries : pc[f] \notin Listed => \A i \in Int : At(i) # f
  BY AtUnique
<1>4. TypeOK'
  BY DEF TypeOK, RemoveInit
<1>5. Members'
  BY DEF Ring, Members, Listed, RemoveInit
<1>6. Holder'
  BY DEF TypeOK, Ring, Holder, RemoveInit
<1>7. Distinct'
  BY <1>1, <1>2, AtType DEF Distinct
<1>8. Forward'
  BY <1>1, <1>2 DEF Ring, Forward, Holder, Listed, RemoveInit
<1>9. BackwardBut'
  BY <1>1, <1>2 DEF Ring, BackwardBut, Stale, Holder, Listed, RemoveInit
<1>10. Midway'
  BY DEF Midway, RemoveInit
<1>11. Found'
  BY DEF Found, RemoveInit
<1>. QED BY <1>4, <1>5, <1>6, <1>7, <1>8, <1>9, <1>10, <1>11 DEF Ring

(* The walk of MFConnection_Clear begins at the first entry.                *)
LEMMA ClearEnterKeeps ==
    ASSUME IInv, ClearEnter
    PROVE  IInv'
<1>. USE ListAssumption DEF IInv
<1>1. contents' = contents /\ \A i : At(i)' = At(i)
  BY DEF At, ClearEnter
<1>2. /\ \A i, j \in 1..Len(contents) : At(i) = At(j) => i = j
      /\ \A i \in 1..Len(contents) : At(i) # ListHead
      /\ \A f \in Entries : pc[f] \notin Listed => \A i \in Int : At(i) # f
  BY AtUnique
<1>4. TypeOK'
  BY AtType DEF TypeOK, Ring, Forward, ClearEnter
<1>5. Members'
  BY DEF Ring, Members, ClearEnter
<1>6. Holder'
  BY DEF Ring, Holder, ClearEnter
<1>7. Distinct'
  BY <1>1, <1>2, AtType DEF Distinct
<1>8. Forward'
  BY <1>1 DEF Ring, Forward, ClearEnter
<1>9. BackwardBut'
  BY <1>1 DEF Ring, BackwardBut, Stale, ClearEnter
<1>10. Midway'
  BY <1>1, AtType DEF Ring, Forward, Midway, ClearEnter
<1>11. Found'
  BY DEF Found, ClearEnter
<1>. QED BY <1>4, <1>5, <1>6, <1>7, <1>8, <1>9, <1>10, <1>11 DEF Ring

(* The walk frees the first entry with its successor in hand.               *)
LEMMA ClearEntryKeeps ==
    ASSUME IInv, ClearEntry
    PROVE  IInv'
<1>. USE ListAssumption DEF IInv
<1>2. /\ \A i, j \in 1..Len(contents) : At(i) = At(j) => i = j
      /\ \A i \in 1..Len(contents) : At(i) # ListHead
      /\ \A f \in Entries : pc[f] \notin Listed => \A i \in Int : At(i) # f
  BY AtUnique
<1>3. /\ cur = At(1) /\ next[cur] = At(2) /\ Len(contents) > 0
  BY AtType, <1>2 DEF TypeOK, Ring, Forward, Midway, ClearEntry
<1>1. /\ Len(contents') = Len(contents) - 1
      /\ \A i \in Int : At(i)' = IF i < 1 THEN ListHead ELSE At(i + 1)
  BY <1>3, TailAt DEF TypeOK, ClearEntry
<1>4. TypeOK'
  BY AtType, <1>3 DEF TypeOK, ClearEntry
<1>5. Members'
  <2>1. /\ \A i \in 1..Len(contents) - 1 : contents'[i] = At(i + 1)
        /\ \A i \in 1..Len(contents) : contents[i] = At(i)
    BY <1>3, TailAt, AtType DEF At, ClearEntry
  <2>2. \A f \in Entries :
            (\E i \in 1..Len(contents') : contents'[i] = f)
            <=> f # At(1) /\ \E i \in 1..Len(contents) : contents[i] = f
    <3>. TAKE f \in Entries
    <3>1. ASSUME NEW i \in 1..Len(contents'), contents'[i] = f
          PROVE  f # At(1) /\ \E j \in 1..Len(contents) : contents[j] = f
      <4>1. i \in 1..Len(contents) - 1 /\ i + 1 \in 1..Len(contents)
        BY <1>1, <1>3, AtType
      <4>2. contents[i + 1] = f /\ At(i + 1) = f
        BY <2>1, <3>1, <4>1
      <4>3. f # At(1)
        BY <1>2, <1>3, <4>1, <4>2, AtType
      <4>. QED BY <4>1, <4>2, <4>3
    <3>2. ASSUME f # At(1), NEW i \in 1..Len(contents), contents[i] = f
          PROVE  \E j \in 1..Len(contents') : contents'[j] = f
      <4>1. i # 1
        BY <2>1, <3>2
      <4>2. /\ i - 1 \in 1..Len(contents') /\ i - 1 \in 1..Len(contents) - 1
            /\ (i - 1) + 1 = i
        BY <4>1, <1>1, <1>3, AtType
      <4>3. contents'[i - 1] = f
        BY <2>1, <3>2, <4>2
      <4>. QED BY <4>2, <4>3
    <3>. QED BY <3>1, <3>2
  <2>3. \A f \in Entries : pc'[f] \in Listed <=> f # cur /\ pc[f] \in Listed
    BY <1>3 DEF TypeOK, Ring, Holder, Listed, ClearEntry
  <2>. QED BY <2>2, <2>3, <1>3 DEF Ring, Members
<1>6. Holder'
  BY DEF Ring, Holder, ClearEntry
<1>7. Distinct'
  BY DEF Ring, Distinct, ClearEntry
<1>8. Forward'
  <2>. SUFFICES ASSUME NEW i \in 0..Len(contents'),
                       (lock = CLEARER => i > 0)'
                PROVE  next'[At(i)'] = At(i + 1)'
    BY DEF Forward
  <2>1. CASE i = 0
    BY <2>1 DEF ClearEntry
  <2>2. CASE i > 0
    <3>1. /\ At(i)' = At(i + 1) /\ At(i + 1)' = At(i + 2)
          /\ i + 1 \in 1..Len(contents)
      <4>1. i \in 1..Len(contents) - 1 /\ Len(contents) \in Nat
        BY <2>2, <1>1, AtType
      <4>. QED BY <4>1, <1>1
    <3>2. At(i + 1) \notin {ListHead, cur}
      BY <3>1, <1>2, <1>3, <2>2
    <3>3. next[At(i + 1)] = At(i + 2)
      BY <3>1, <2>2 DEF Ring, Forward
    <3>. QED BY <3>1, <3>2, <3>3, <1>3, AtType DEF TypeOK, ClearEntry
  <2>. QED BY <2>1, <2>2
<1>9. BackwardBut'
  <2>. SUFFICES ASSUME NEW i \in 0..Len(contents'), ~Stale(i)'
                PROVE  prev'[At(i + 1)'] = At(i)'
    BY DEF BackwardBut
  <2>1. CASE i = 0
    BY <2>1, <1>1, <1>2, <1>3, AtType DEF Stale, TypeOK, ClearEntry
  <2>2. CASE i > 0
    <3>1. /\ At(i)' = At(i + 1) /\ At(i + 1)' = At(i + 2)
          /\ i + 1 \in 1..Len(contents)
      <4>1. i \in 1..Len(contents) - 1 /\ Len(contents) \in Nat
        BY <2>2, <1>1, AtType
      <4>. QED BY <4>1, <1>1
    <3>2. At(i + 2) # cur
      BY <3>1, <1>2, <1>3, <2>2, AtType
    <3>3. ~Stale(i + 1)
      BY <2>2, <3>1, <1>3 DEF Stale, TypeOK, ClearEntry
    <3>4. prev[At(i + 2)] = At(i + 1)
      BY <3>1, <3>3, <2>2 DEF Ring, BackwardBut
    <3>. QED BY <3>1, <3>2, <3>4, AtType DEF TypeOK, ClearEntry
  <2>. QED BY <2>1, <2>2
<1>10. Midway'
  BY <1>1, AtType, <1>3 DEF TypeOK, Ring, Midway, ClearEntry
<1>11. Found'
  BY DEF Found, ClearEntry
<1>. QED BY <1>4, <1>5, <1>6, <1>7, <1>8, <1>9, <1>10, <1>11 DEF Ring

(* The head of the cleared list is its own successor.                       *)
LEMMA ClearInitNextKeeps ==
    ASSUME IInv, ClearInitNext
    PROVE  IInv'
<1>. USE ListAssumption DEF IInv
<1>1. contents' = contents /\ \A i : At(i)' = At(i)
  BY DEF At, ClearInitNext
<1>2. /\ \A i, j \in 1..Len(contents) : At(i) = At(j) => i = j
      /\ \A i \in 1..Len(contents) : At(i) # ListHead
      /\ \A f \in Entries : pc[f] \notin Listed => \A i \in Int : At(i) # f
  BY AtUnique
<1>4. TypeOK'
  BY DEF TypeOK, ClearInitNext
<1>5. Members'
  BY DEF Ring, Members, ClearInitNext
<1>6. Holder'
  BY DEF Ring, Holder, ClearInitNext
<1>7. Distinct'
  BY <1>1, <1>2, AtType DEF Distinct
<1>8. Forward'
  BY <1>1, AtType DEF Ring, Forward, ClearInitNext
<1>9. BackwardBut'
  BY <1>1 DEF Ring, BackwardBut, Stale, ClearInitNext
<1>10. Midway'
  BY <1>1, AtType DEF Ring, Midway, ClearInitNext
<1>11. Found'
  BY DEF Found, ClearInitNext
<1>. QED BY <1>4, <1>5, <1>6, <1>7, <1>8, <1>9, <1>10, <1>11 DEF Ring

(* The head of the cleared list is its own predecessor.                     *)
LEMMA ClearInitPrevKeeps ==
    ASSUME IInv, ClearInitPrev
    PROVE  IInv'
<1>. USE ListAssumption DEF IInv
<1>1. contents' = contents /\ \A i : At(i)' = At(i)
  BY DEF At, ClearInitPrev
<1>2. /\ \A i, j \in 1..Len(contents) : At(i) = At(j) => i = j
      /\ \A i \in 1..Len(contents) : At(i) # ListHead
      /\ \A f \in Entries : pc[f] \notin Listed => \A i \in Int : At(i) # f
  BY AtUnique
<1>4. TypeOK'
  BY DEF TypeOK, ClearInitPrev
<1>5. Members'
  BY DEF Ring, Members, ClearInitPrev
<1>6. Holder'
  BY DEF Ring, Holder, ClearInitPrev
<1>7. Distinct'
  BY <1>1, <1>2, AtType DEF Distinct
<1>8. Forward'
  BY <1>1, AtType DEF Ring, Forward, Midway, ClearInitPrev
<1>9. BackwardBut'
  BY <1>1, AtType DEF TypeOK, Ring, BackwardBut, Midway, ClearInitPrev
<1>10. Midway'
  BY DEF Midway, ClearInitPrev
<1>11. Found'
  BY DEF Found, ClearInitPrev
<1>. QED BY <1>4, <1>5, <1>6, <1>7, <1>8, <1>9, <1>10, <1>11 DEF Ring

(* The first comparison of MFList_Empty.                                    *)
LEMMA EmptyFirstKeeps ==
    ASSUME IInv, EmptyFirst
    PROVE  IInv'
<1>. USE ListAssumption DEF IInv
<1>1. contents' = contents /\ \A i : At(i)' = At(i)
  BY DEF At, EmptyFirst
<1>2. /\ \A i, j \in 1..Len(contents) : At(i) = At(j) => i = j
      /\ \A i \in 1..Len(contents) : At(i) # ListHead
      /\ \A f \in Entries : pc[f] \notin Listed => \A i \in Int : At(i) # f
  BY AtUnique
<1>3. next[ListHead] = ListHead => contents = << >>
  BY AtType, <1>2 DEF TypeOK, Ring, Forward, Midway
<1>4. TypeOK'
  BY DEF TypeOK, EmptyFirst
<1>5. Members'
  BY DEF Ring, Members, EmptyFirst
<1>6. Holder'
  BY DEF Ring, Holder, EmptyFirst
<1>7. Distinct'
  BY <1>1, <1>2, AtType DEF Distinct
<1>8. Forward'
  BY <1>1 DEF Ring, Forward, EmptyFirst
<1>9. BackwardBut'
  BY <1>1 DEF Ring, BackwardBut, Stale, EmptyFirst
<1>10. Midway'
  BY <1>1 DEF Ring, Midway, EmptyFirst
<1>11. Found'
  BY <1>3 DEF Found, EmptyFirst
<1>. QED BY <1>4, <1>5, <1>6, <1>7, <1>8, <1>9, <1>10, <1>11 DEF Ring

(* The second comparison of MFList_Empty.                                   *)
LEMMA EmptySecondKeeps ==
    ASSUME IInv, EmptySecond
    PROVE  IInv'
<1>. USE ListAssumption DEF IInv
<1>1. contents' = contents /\ \A i : At(i)' = At(i)
  BY DEF At, EmptySecond
<1>2. /\ \A i, j \in 1..Len(contents) : At(i) = At(j) => i = j
      /\ \A i \in 1..Len(contents) : At(i) # ListHead
      /\ \A f \in Entries : pc[f] \notin Listed => \A i \in Int : At(i) # f
  BY AtUnique
<1>4. TypeOK'
  BY DEF TypeOK, EmptySecond
<1>5. Members'
  BY DEF Ring, Members, EmptySecond
<1>6. Holder'
  BY DEF Ring, Holder, EmptySecond
<1>7. Distinct'
  BY <1>1, <1>2, AtType DEF Distinct
<1>8. Forward'
  BY <1>1 DEF Ring, Forward, EmptySecond
<1>9. BackwardBut'
  BY <1>1 DEF Ring, BackwardBut, Stale, EmptySecond
<1>10. Midway'
  BY <1>1 DEF Ring, Midway, EmptySecond
<1>11. Found'
  BY DEF Found, EmptySecond
<1>. QED BY <1>4, <1>5, <1>6, <1>7, <1>8, <1>9, <1>10, <1>11 DEF Ring

(* The caller takes the answer.                                             *)
LEMMA EmptyReturnedKeeps ==
    ASSUME IInv, EmptyReturned
    PROVE  IInv'
<1>. USE ListAssumption DEF IInv
<1>1. contents' = contents /\ \A i : At(i)' = At(i)
  BY DEF At, EmptyReturned
<1>2. /\ \A i, j \in 1..Len(contents) : At(i) = At(j) => i = j
      /\ \A i \in 1..Len(contents) : At(i) # ListHead
      /\ \A f \in Entries : pc[f] \notin Listed => \A i \in Int : At(i) # f
  BY AtUnique
<1>4. TypeOK'
  BY DEF TypeOK, EmptyReturned
<1>5. Members'
  BY DEF Ring, Members, EmptyReturned
<1>6. Holder'
  BY DEF Ring, Holder, EmptyReturned
<1>7. Distinct'
  BY <1>1, <1>2, AtType DEF Distinct
<1>8. Forward'
  BY <1>1 DEF Ring, Forward, EmptyReturned
<1>9. BackwardBut'
  BY <1>1 DEF Ring, BackwardBut, Stale, EmptyReturned
<1>10. Midway'
  BY <1>1 DEF Ring, Midway, EmptyReturned
<1>11. Found'
  BY DEF Found, EmptyReturned
<1>. QED BY <1>4, <1>5, <1>6, <1>7, <1>8, <1>9, <1>10, <1>11 DEF Ring

-----------------------------------------------------------------------------
(* The initial state has an empty ring.                                    *)
LEMMA InitRing == Init => IInv
<1>. SUFFICES ASSUME Init PROVE IInv
  OBVIOUS
<1>. USE ListAssumption DEF Init
<1>1. TypeOK
  <2>1. ListHead \in Nodes /\ next[ListHead] = ListHead /\ prev[ListHead] = ListHead
    BY DEF Nodes
  <2>2. /\ next \in [Nodes -> Nodes \cup {Nil}]
        /\ prev \in [Nodes -> Nodes \cup {Nil}]
    BY <2>1
  <2>3. contents \in Seq(Entries)
    OBVIOUS
  <2>. QED BY <2>1, <2>2, <2>3 DEF TypeOK
<1>2. Len(contents) = 0 /\ \A i \in Int : At(i) = ListHead
  BY DEF At
<1>3. Members /\ Holder /\ Distinct /\ Found
  BY <1>2 DEF Members, Holder, Distinct, Found, Listed
<1>4. Forward /\ BackwardBut /\ Midway
  <2>1. next[ListHead] = ListHead /\ prev[ListHead] = ListHead
    BY DEF Nodes
  <2>. QED BY <1>2, <2>1 DEF Forward, BackwardBut, Midway
<1>. QED BY <1>1, <1>3, <1>4 DEF IInv, Ring

(* Every step keeps the ring.                                              *)
LEMMA NextRing == IInv /\ [Next]_vars => IInv'
<1>. SUFFICES ASSUME IInv, [Next]_vars PROVE IInv'
  OBVIOUS
<1>1. ASSUME NEW e \in Entries,
             \/ TailFill(e) \/ TailLink(e) \/ TailClose(e)
             \/ HeadFill(e) \/ HeadLink(e) \/ HeadClose(e)
             \/ RemovePrev(e) \/ RemoveNext(e) \/ RemoveInit(e)
      PROVE  IInv'
  BY <1>1, TailFillKeeps, TailLinkKeeps, TailCloseKeeps, HeadFillKeeps,
     HeadLinkKeeps, HeadCloseKeeps, RemovePrevKeeps, RemoveNextKeeps,
     RemoveInitKeeps
<1>2. CASE ClearEnter \/ ClearEntry \/ ClearInitNext \/ ClearInitPrev
  BY <1>2, ClearEnterKeeps, ClearEntryKeeps, ClearInitNextKeeps,
     ClearInitPrevKeeps
<1>3. CASE EmptyFirst \/ EmptySecond \/ EmptyReturned
  BY <1>3, EmptyFirstKeeps, EmptySecondKeeps, EmptyReturnedKeeps
<1>4. CASE UNCHANGED vars
  BY <1>4 DEF vars, IInv, TypeOK, Ring, Members, Holder, Distinct, Forward,
     BackwardBut, Midway, Found, At, Stale
<1>. QED BY <1>1, <1>2, <1>3, <1>4 DEF Next

(* The inductive invariant holds throughout.                               *)
LEMMA RingInvariant == Spec => []IInv
BY InitRing, NextRing, PTL DEF Spec

(* Every pointer that is followed points to the head or a live entry, for  *)
(* any set of entries and any interleaving.                                *)
THEOREM TypeCorrect == Spec => []TypeOK
BY RingInvariant, PTL DEF IInv

(* For any set of entries: Next spells the list at every moment and Prev   *)
(* whenever the lock is free (mflist.c).                                   *)
THEOREM RingCorrect == Spec => []RingIsList
<1>1. IInv => RingIsList
  <2>. SUFFICES ASSUME IInv PROVE RingIsList
    OBVIOUS
  <2>1. Backward
    BY ListAssumption DEF IInv, Ring, BackwardBut, Stale, Backward
  <2>. QED BY <2>1 DEF IInv, Ring, Distinct, RingIsList
<1>. QED BY <1>1, RingInvariant, PTL

(* For any set of entries: the test without the lock answers "empty" only  *)
(* if the list was when it began, and "not empty" only if there is an      *)
(* entry or a change under way (mfbroker.c:192).                           *)
THEOREM EmptyTestJustified == Spec => EmptyJustified
<1>1. ASSUME IInv, [Next]_vars PROVE [EmptyAnswer]_poll
  <2>. SUFFICES ASSUME poll' # poll PROVE EmptyAnswer
    OBVIOUS
  <2>. USE DEF IInv
  <2>1. EmptySecond => sawEmpty
    BY <1>1 DEF Found, EmptySecond
  <2>2. contents = << >> /\ lock = NoOne =>
            next[ListHead] = ListHead /\ prev[ListHead] = ListHead
    <3>. SUFFICES ASSUME contents = << >>, lock = NoOne
                  PROVE  next[ListHead] = ListHead /\ prev[ListHead] = ListHead
      OBVIOUS
    <3>1. /\ Len(contents) = 0 /\ At(0) = ListHead /\ At(1) = ListHead
      BY DEF At
    <3>. QED BY <3>1, <1>1, ListAssumption
              DEF Ring, Forward, BackwardBut, Stale
  <2>3. EmptySecond /\ poll' = "false" => contents # << >> \/ lock # NoOne
    BY <2>2 DEF EmptySecond
  <2>4. EmptyFirst /\ poll' = "false" => contents # << >> \/ lock # NoOne
    BY <2>2 DEF EmptyFirst
  <2>5. EmptyFirst \/ EmptySecond \/ EmptyReturned
    BY <1>1 DEF Next, vars, TailFill, TailLink, TailClose, HeadFill, HeadLink,
       HeadClose, RemovePrev, RemoveNext, RemoveInit, ClearEnter, ClearEntry,
       ClearInitNext, ClearInitPrev
  <2>. QED BY <2>1, <2>3, <2>4, <2>5 DEF EmptyAnswer, EmptyReturned
<1>. QED BY <1>1, RingInvariant, PTL DEF Spec, EmptyJustified
=============================================================================

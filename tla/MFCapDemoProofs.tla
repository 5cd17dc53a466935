--------------------------- MODULE MFCapDemoProofs ---------------------------
(***************************************************************************)
(* Proofs about the demo's window (MFCapDemo): what its rows show, which   *)
(* device objects survive, and what recording leaves behind, for any       *)
(* devices, however deeply messages nest.                                  *)
(***************************************************************************)
EXTENDS MFCapDemo, FiniteSetTheorems, TLAPS

(***************************************************************************)
(* The inductive invariant.                                                *)
(***************************************************************************)
(* Of the messages s, one about a click of the list is open; one of the    *)
(* first n is about a refresh of it.                                       *)
Reloading(s, l) ==
    \E i \in DOMAIN s : s[i].list = l /\ s[i].then = "reload"

Muted(s, n, l) == \E i \in 1 .. n : s[i].list = l /\ s[i].then # "reload"

(* A row has its device object, and lies exactly if it was toggled while   *)
(* nobody was told.                                                        *)
RowRight(s, l, d) ==
    /\ d \in DOMAIN devs[l] /\ devs[l][d].gen = rows[l][d].gen
    /\ \/ l = "output" \/ Reloading(s, l)
       \/ d \in unheard[l] <=> rows[l][d].checked # devs[l][d].selected

RowsInv == \A l \in Lists : \A d \in DOMAIN rows[l] : RowRight(boxes, l, d)

(* A list that does not hear has a refresh's message open, and the first   *)
(* of these will make it hear again.                                       *)
Hearing(s, h) ==
    \A l \in Lists :
        /\ h[l] \/ Muted(s, Len(s), l)
        /\ \A i \in DOMAIN s :
              s[i].list = l /\ s[i].then # "reload" =>
                  s[i].tmp \/ Muted(s, i - 1, l)

HearingInv == closed \/ Hearing(boxes, hears)

ClosedInv == closed => \A l \in Lists : DOMAIN rows[l] = {}

IInv ==
    /\ TypeOK /\ RowsInv /\ HearingInv /\ ClosedInv
    /\ ViewMatches /\ RecordRollback
-----------------------------------------------------------------------------
(* A list of device objects, and the function without arguments.           *)
DeviceList(l, dl) ==
    dl \in [DOMAIN dl -> DeviceObject] /\ DOMAIN dl \subseteq Kind(l)

(* A refreshed list has the objects of S that were there before.           *)
Refreshed(l, dl, S, x) ==
    /\ DeviceList(l, x)
    /\ \A d \in DOMAIN dl \cap S : d \in DOMAIN x /\ x[d] = dl[d]

LEMMA NothingFacts ==
    /\ DOMAIN Nothing = {}
    /\ \A S : Nothing \in [DOMAIN Nothing -> S]
BY DEF Nothing

LEMMA OnlyOfFacts ==
    ASSUME NEW f, f \in [DOMAIN f -> DeviceObject], NEW S
    PROVE  /\ OnlyOf(f, S) \in [DOMAIN f \cap S -> DeviceObject]
           /\ DOMAIN OnlyOf(f, S) = DOMAIN f \cap S
           /\ \A d \in DOMAIN f \cap S : OnlyOf(f, S)[d] = f[d]
BY DEF OnlyOf

(* The messages as a stack.                                                *)
LEMMA PopFacts ==
    ASSUME NEW S, NEW s \in Seq(S), s # << >>
    PROVE  /\ Last(s) = s[Len(s)] /\ Last(s) \in S
           /\ Front(s) \in Seq(S) /\ Len(Front(s)) = Len(s) - 1
           /\ DOMAIN Front(s) = 1 .. Len(s) - 1
           /\ \A i \in 1 .. Len(s) - 1 : Front(s)[i] = s[i]
           /\ DOMAIN s = 1 .. Len(s) /\ Len(s) \in Nat \ {0}
<1>1. DOMAIN s = 1 .. Len(s) /\ Len(s) \in Nat \ {0}
  OBVIOUS
<1>2. Last(s) = s[Len(s)] /\ Last(s) \in S
  BY <1>1 DEF Last
<1>3. Front(s) = SubSeq(s, 1, Len(s) - 1)
  BY DEF Front
<1>4. /\ Front(s) \in Seq(S) /\ Len(Front(s)) = Len(s) - 1
      /\ DOMAIN Front(s) = 1 .. Len(s) - 1
  BY <1>1, <1>3
<1>5. \A i \in 1 .. Len(s) - 1 : Front(s)[i] = s[i]
  BY <1>1, <1>3
<1>. QED BY <1>1, <1>2, <1>4, <1>5

LEMMA PushFacts ==
    ASSUME NEW S, NEW s \in Seq(S), NEW b \in S
    PROVE  /\ Append(s, b) \in Seq(S) /\ Len(Append(s, b)) = Len(s) + 1
           /\ DOMAIN Append(s, b) = 1 .. Len(s) + 1
           /\ \A i \in 1 .. Len(s) : Append(s, b)[i] = s[i]
           /\ Append(s, b)[Len(s) + 1] = b
           /\ DOMAIN s = 1 .. Len(s) /\ Len(s) \in Nat
OBVIOUS

LEMMA ReloadingPush ==
    ASSUME NEW s \in Seq(Box), NEW b \in Box, NEW l
    PROVE  Reloading(Append(s, b), l)
              <=> Reloading(s, l) \/ (b.list = l /\ b.then = "reload")
BY PushFacts DEF Reloading

LEMMA ReloadingPop ==
    ASSUME NEW s \in Seq(Box), s # << >>, NEW l
    PROVE  Reloading(s, l)
              <=> \/ Reloading(Front(s), l)
                  \/ Last(s).list = l /\ Last(s).then = "reload"
<1>. DEFINE n == Len(s) - 1
<1>1. /\ n \in Nat /\ DOMAIN s = 1 .. n + 1 /\ DOMAIN Front(s) = 1 .. n
      /\ Last(s) = s[n + 1] /\ \A i \in 1 .. n : Front(s)[i] = s[i]
  BY PopFacts
<1>. HIDE DEF n
<1>2. 1 .. n + 1 = (1 .. n) \cup {n + 1}
  BY <1>1
<1>. QED BY <1>1, <1>2 DEF Reloading

(* A refresh's message mutes its list until it is closed.                  *)
LEMMA HearingPush ==
    ASSUME NEW s \in Seq(Box), NEW b \in Box, NEW h \in [Lists -> BOOLEAN],
           Hearing(s, h), b.then # "reload", b.tmp = h[b.list]
    PROVE  Hearing(Append(s, b), [h EXCEPT ![b.list] = FALSE])
<1>. DEFINE n == Len(s)
            t == Append(s, b)
            g == [h EXCEPT ![b.list] = FALSE]
<1>1. /\ n \in Nat /\ Len(t) = n + 1 /\ DOMAIN t = 1 .. n + 1
      /\ DOMAIN s = 1 .. n /\ t[n + 1] = b
      /\ \A i \in 1 .. n : t[i] = s[i]
  BY PushFacts
<1>. HIDE DEF n, t
<1>2. ASSUME NEW l \in Lists PROVE g[l] \/ Muted(t, n + 1, l)
  <2>1. CASE l = b.list
    BY <1>1, <2>1 DEF Muted
  <2>2. CASE l # b.list
    BY <1>1, <2>2 DEF Muted, Hearing, n
  <2>. QED BY <2>1, <2>2
<1>3. ASSUME NEW l \in Lists, NEW i \in 1 .. n + 1,
             t[i].list = l, t[i].then # "reload"
      PROVE  t[i].tmp \/ Muted(t, i - 1, l)
  <2>1. CASE i = n + 1
    <3>1. h[l] \/ Muted(s, n, l)
      BY DEF Hearing, n
    <3>2. b.tmp \/ Muted(s, n, l)
      BY <1>1, <1>3, <2>1, <3>1
    <3>. QED BY <1>1, <2>1, <3>2 DEF Muted
  <2>2. CASE i \in 1 .. n
    <3>1. s[i].tmp \/ Muted(s, i - 1, l)
      BY <1>1, <1>3, <2>2 DEF Hearing
    <3>. QED BY <1>1, <2>2, <3>1 DEF Muted
  <2>. QED BY <1>1, <2>1, <2>2
<1>. QED BY <1>1, <1>2, <1>3 DEF Hearing, t

LEMMA HearingPop ==
    ASSUME NEW s \in Seq(Box), s # << >>, NEW h \in [Lists -> BOOLEAN],
           Hearing(s, h), Last(s).then # "reload"
    PROVE  Hearing(Front(s), [h EXCEPT ![Last(s).list] = Last(s).tmp])
<1>. DEFINE n == Len(s) - 1
            t == Front(s)
            b == Last(s)
            g == [h EXCEPT ![b.list] = b.tmp]
<1>1. /\ n \in Nat /\ Len(t) = n /\ DOMAIN t = 1 .. n /\ Len(s) = n + 1
      /\ DOMAIN s = 1 .. n + 1 /\ s[n + 1] = b
      /\ \A i \in 1 .. n : t[i] = s[i]
      /\ b \in Box
  BY PopFacts
<1>. HIDE DEF n, t, b
<1>2. ASSUME NEW l \in Lists PROVE g[l] \/ Muted(t, n, l)
  <2>1. CASE l = b.list
    <3>1. b.tmp \/ Muted(s, n, l)
      BY <1>1, <2>1 DEF Hearing, b
    <3>. QED BY <1>1, <2>1, <3>1 DEF Muted
  <2>2. CASE l # b.list
    <3>1. h[l] \/ Muted(s, n + 1, l)
      BY <1>1 DEF Hearing
    <3>. QED BY <1>1, <2>2, <3>1 DEF Muted
  <2>. QED BY <2>1, <2>2
<1>3. ASSUME NEW l \in Lists, NEW i \in 1 .. n,
             t[i].list = l, t[i].then # "reload"
      PROVE  t[i].tmp \/ Muted(t, i - 1, l)
  <2>1. s[i].tmp \/ Muted(s, i - 1, l)
    BY <1>1, <1>3 DEF Hearing
  <2>. QED BY <1>1, <2>1 DEF Muted
<1>. QED BY <1>1, <1>2, <1>3 DEF Hearing, t, b

(* A click's message does not mute.                                        *)
LEMMA HearingPushClick ==
    ASSUME NEW s \in Seq(Box), NEW b \in Box, NEW h,
           Hearing(s, h), b.then = "reload"
    PROVE  Hearing(Append(s, b), h)
BY PushFacts DEF Hearing, Muted

LEMMA HearingPopClick ==
    ASSUME NEW s \in Seq(Box), s # << >>, NEW h,
           Hearing(s, h), Last(s).then = "reload"
    PROVE  Hearing(Front(s), h)
<1>. DEFINE n == Len(s) - 1
            t == Front(s)
<1>0. /\ Last(s) = s[Len(s)]
      /\ Len(t) = Len(s) - 1 /\ DOMAIN t = 1 .. Len(s) - 1
      /\ \A i \in 1 .. Len(s) - 1 : t[i] = s[i]
      /\ DOMAIN s = 1 .. Len(s) /\ Len(s) \in Nat \ {0}
  BY PopFacts
<1>1. /\ n \in Nat /\ Len(t) = n /\ DOMAIN t = 1 .. n /\ Len(s) = n + 1
      /\ DOMAIN s = 1 .. n + 1 /\ s[n + 1].then = "reload"
      /\ \A i \in 1 .. n : t[i] = s[i]
  BY <1>0
<1>. HIDE DEF n, t
<1>2. ASSUME NEW l \in Lists, Muted(s, n + 1, l) PROVE Muted(t, n, l)
  BY <1>1, <1>2 DEF Muted
<1>3. ASSUME NEW l \in Lists, NEW i \in 1 .. n, Muted(s, i - 1, l)
      PROVE  Muted(t, i - 1, l)
  BY <1>1, <1>3 DEF Muted
<1>4. ASSUME NEW l \in Lists, NEW i \in 1 .. n,
             t[i].list = l, t[i].then # "reload"
      PROVE  t[i].tmp \/ Muted(t, i - 1, l)
  BY <1>1, <1>3, <1>4 DEF Hearing
<1>. QED BY <1>1, <1>2, <1>4 DEF Hearing, t
-----------------------------------------------------------------------------
(* What a refresh makes of a list.                                         *)
LEMMA ObjectFacts ==
    ASSUME NEW first, first \in [DOMAIN first -> DeviceObject], NEW d,
           NEW sel \in BOOLEAN
    PROVE  NewObject(d, sel, first) \in DeviceObject
<1>1. ASSUME d \in DOMAIN first PROVE 1 - first[d].gen \in {0, 1}
  BY <1>1 DEF DeviceObject
<1>. QED BY <1>1 DEF DeviceObject, NewObject

LEMMA EnumeratedFacts ==
    ASSUME NEW l, NEW dl, DeviceList(l, dl), NEW first, DeviceList(l, first),
           NEW present \in SUBSET Kind(l), NEW compare \in BOOLEAN,
           NEW e \in Enumerated(present, dl, compare, first)
    PROVE  Refreshed(l, dl, IF compare THEN present ELSE DOMAIN dl \ present,
                     e.devs)
<1>. DEFINE kept == Kept(present, dl, compare)
            fresh == Fresh(present, dl, compare)
            S == IF compare THEN present ELSE DOMAIN dl \ present
<1>1. CASE e = [devs |-> dl, err |-> TRUE]
  BY <1>1 DEF Refreshed
<1>2. ASSUME NEW opened \in SUBSET fresh, NEW sel,
             e.devs = WithOpened(kept, opened, sel, first)
      PROVE  Refreshed(l, dl, S, e.devs)
  <2>1. /\ DOMAIN kept \subseteq DOMAIN dl
        /\ \A d \in DOMAIN kept : kept[d] = dl[d] /\ kept[d] \in DeviceObject
        /\ \A d \in DOMAIN dl \cap S : d \in DOMAIN kept /\ d \notin opened
    <3>1. CASE compare
      <4>1. kept = OnlyOf(dl, present) /\ opened \cap DOMAIN dl = {}
        BY <3>1 DEF Kept, Fresh
      <4>2. dl \in [DOMAIN dl -> DeviceObject]
        BY DEF DeviceList
      <4>. HIDE DEF kept, fresh
      <4>3. /\ DOMAIN kept = DOMAIN dl \cap present
            /\ \A d \in DOMAIN dl \cap present : kept[d] = dl[d]
        BY <4>1, <4>2, OnlyOfFacts
      <4>. QED BY <3>1, <4>1, <4>2, <4>3
    <3>2. CASE ~compare
      BY <3>2 DEF DeviceList, Kept, Fresh
    <3>. QED BY <3>1, <3>2
  <2>2. ASSUME NEW d PROVE NewObject(d, d \in sel, first) \in DeviceObject
    <3>. DEFINE s == d \in sel
    <3>1. s \in BOOLEAN
      OBVIOUS
    <3>. HIDE DEF s
    <3>2. NewObject(d, s, first) \in DeviceObject
      BY <3>1, ObjectFacts DEF DeviceList
    <3>. QED BY <3>2 DEF s
  <2>3. opened \subseteq Kind(l) /\ DOMAIN dl \subseteq Kind(l)
    BY DEF Fresh, DeviceList
  <2>. HIDE DEF kept, fresh, S
  <2>4. /\ DOMAIN e.devs = DOMAIN kept \cup opened
        /\ e.devs \in [DOMAIN e.devs -> DeviceObject]
        /\ \A d \in DOMAIN kept \ opened : e.devs[d] = kept[d]
    BY <1>2, <2>1, <2>2 DEF WithOpened
  <2>. QED BY <2>1, <2>3, <2>4 DEF Refreshed, DeviceList
<1>3. \/ e = [devs |-> dl, err |-> TRUE]
      \/ \E opened \in SUBSET fresh : \E sel \in Selections(opened) :
          \E err \in Results(opened, fresh) :
            e = [devs |-> WithOpened(kept, opened, sel, first), err |-> err]
  BY DEF Enumerated
<1>. QED BY <1>1, <1>2, <1>3
(* The two ways to enumerate.                                              *)
LEMMA EnumeratedCompared ==
    ASSUME NEW l, NEW dl, DeviceList(l, dl), NEW first, DeviceList(l, first),
           NEW present \in SUBSET Kind(l),
           NEW e \in Enumerated(present, dl, TRUE, first)
    PROVE  Refreshed(l, dl, present, e.devs)
<1>1. Refreshed(l, dl, IF TRUE THEN present ELSE DOMAIN dl \ present, e.devs)
  BY EnumeratedFacts
<1>. QED BY <1>1

LEMMA EnumeratedAgain ==
    ASSUME NEW l, NEW dl, DeviceList(l, dl), NEW first, DeviceList(l, first),
           NEW present \in SUBSET Kind(l),
           NEW e \in Enumerated(present, dl, FALSE, first)
    PROVE  Refreshed(l, dl, DOMAIN dl \ present, e.devs)
<1>1. Refreshed(l, dl, IF FALSE THEN present ELSE DOMAIN dl \ present, e.devs)
  BY EnumeratedFacts
<1>. QED BY <1>1

LEMMA RowsFacts ==
    ASSUME NEW l, NEW dl, DeviceList(l, dl)
    PROVE  /\ RowsOf(dl) \in [DOMAIN dl -> Row] /\ DOMAIN RowsOf(dl) = DOMAIN dl
           /\ \A d \in DOMAIN dl : /\ RowsOf(dl)[d].gen = dl[d].gen
                                  /\ RowsOf(dl)[d].checked = dl[d].selected
BY DEF RowsOf, DeviceList, Row, DeviceObject

(* What becomes of a list, its view and its handler.                       *)
GoodOutcome(l, dl, o) ==
    /\ Refreshed(l, dl, plugged \ IF l = "input" THEN Microphones \cup Hidden
                                  ELSE {}, o.devs)
    /\ o.rows = Nothing \/ o.rows = RowsOf(o.devs)
    /\ o.then \in {"none", "restore", "drop"}

LEMMA ListOutcomesFacts ==
    ASSUME NEW l \in Lists, l # "input", NEW dl, DeviceList(l, dl),
           NEW o \in ListOutcomes(l, dl)
    PROVE  GoodOutcome(l, dl, o)
<1>1. PICK e \in Enumerated(Kind(l) \cap plugged, dl, TRUE, dl) :
         /\ o.devs = e.devs
         /\ o.rows = Nothing \/ o.rows = RowsOf(e.devs)
         /\ o.then \in {"none", "restore", "drop"}
  <2>1. PICK e \in Enumerated(Kind(l) \cap plugged, dl, TRUE, dl) :
          o \in IF e.err THEN {Outcome(e.devs, Nothing, "restore")}
                ELSE {Outcome(e.devs, RowsOf(e.devs), "none")} \cup
                     (IF e.devs = Nothing THEN {}
                      ELSE {Outcome(e.devs, Nothing, "drop")})
    BY DEF ListOutcomes
  <2>2. \/ o = Outcome(e.devs, Nothing, "restore")
        \/ o = Outcome(e.devs, RowsOf(e.devs), "none")
        \/ o = Outcome(e.devs, Nothing, "drop")
    BY <2>1
  <2>3. /\ o.devs = e.devs
        /\ o.rows = Nothing \/ o.rows = RowsOf(e.devs)
        /\ o.then \in {"none", "restore", "drop"}
    BY <2>2 DEF Outcome
  <2>. QED BY <2>1, <2>3
<1>2. Refreshed(l, dl, Kind(l) \cap plugged, e.devs)
  BY EnumeratedCompared
<1>. QED BY <1>1, <1>2 DEF GoodOutcome, Refreshed, DeviceList

LEMMA InputOutcomesFacts ==
    ASSUME NEW dl, DeviceList("input", dl), NEW o \in InputOutcomes(dl)
    PROVE  GoodOutcome("input", dl, o)
<1>. DEFINE S == plugged \ (Microphones \cup Hidden)
            Shown(d) == OnlyOf(d, Devices \ Hidden)
            Good(x) == Refreshed("input", dl, S, x)
<1>1. /\ Kind("input") = Cameras \cup Microphones
      /\ Cameras \cap plugged \in SUBSET Kind("input")
      /\ Microphones \cap plugged \in SUBSET Kind("input")
      /\ Kind("input") \subseteq Devices
  BY DEF Kind, Devices
<1>2. PICK e \in Enumerated(Cameras \cap plugged, dl, TRUE, dl) :
         \/ o = Outcome(e.devs, Nothing, "none")
         \/ \E f \in Enumerated(Microphones \cap plugged, e.devs, FALSE, dl) :
              \/ o = Outcome(f.devs, Nothing, "none")
              \/ o = Outcome(Shown(f.devs), RowsOf(Shown(f.devs)), "none")
  <2>. DEFINE Failed(d) == {Outcome(d, Nothing, "none")}
              Streams(d) ==
                {Outcome(Shown(d), RowsOf(Shown(d)), "none")} \cup
                (IF d = Nothing THEN {} ELSE Failed(d))
  <2>1. PICK e \in Enumerated(Cameras \cap plugged, dl, TRUE, dl) :
          o \in IF e.err THEN Failed(e.devs)
                ELSE UNION {IF f.err THEN Failed(f.devs) ELSE Streams(f.devs) :
                              f \in Enumerated(Microphones \cap plugged,
                                               e.devs, FALSE, dl)}
    BY DEF InputOutcomes
  <2>. HIDE DEF Shown
  <2>2. CASE o \in Failed(e.devs)
    BY <2>2
  <2>3. CASE \E f \in Enumerated(Microphones \cap plugged, e.devs, FALSE, dl) :
               o \in Failed(f.devs) \/ o \in Streams(f.devs)
    BY <2>3
  <2>. QED BY <2>1, <2>2, <2>3
<1>3. Good(e.devs)
  <2>1. Refreshed("input", dl, Cameras \cap plugged, e.devs)
    BY <1>1, EnumeratedCompared
  <2>. QED BY <1>1, <2>1 DEF Refreshed, DeviceList
<1>4. ASSUME NEW f \in Enumerated(Microphones \cap plugged, e.devs, FALSE, dl)
      PROVE  Good(f.devs)
  <2>1. DeviceList("input", e.devs)
    BY <1>3 DEF Refreshed
  <2>2. Refreshed("input", e.devs,
                  DOMAIN e.devs \ (Microphones \cap plugged), f.devs)
    BY <1>1, <2>1, EnumeratedAgain
  <2>. QED BY <1>3, <2>2 DEF Refreshed
<1>5. ASSUME NEW x, Good(x) PROVE Good(Shown(x))
  <2>1. /\ Shown(x) \in [DOMAIN x \cap (Devices \ Hidden) -> DeviceObject]
        /\ DOMAIN Shown(x) = DOMAIN x \cap (Devices \ Hidden)
        /\ \A d \in DOMAIN x \cap (Devices \ Hidden) : Shown(x)[d] = x[d]
    BY <1>5, OnlyOfFacts DEF Refreshed, DeviceList
  <2>. HIDE DEF Shown
  <2>2. DOMAIN dl \subseteq Devices
    BY <1>1 DEF DeviceList
  <2>. QED BY <1>5, <2>1, <2>2 DEF Refreshed, DeviceList
<1>. HIDE DEF Shown
<1>6. ASSUME NEW x, Good(x), NEW r, r = Nothing \/ r = RowsOf(x),
             o = Outcome(x, r, "none")
      PROVE  GoodOutcome("input", dl, o)
  BY <1>6 DEF GoodOutcome, Outcome
<1>. HIDE DEF Good
<1>. QED BY <1>2, <1>3, <1>4, <1>5, <1>6
LEMMA OutcomesFacts ==
    ASSUME NEW l \in Lists, NEW dl, DeviceList(l, dl), NEW o \in Outcomes(l, dl)
    PROVE  GoodOutcome(l, dl, o)
BY ListOutcomesFacts, InputOutcomesFacts DEF Outcomes

(* A refresh: the list gets new objects x, its view the rows r, and there  *)
(* may be a message of it.                                                 *)
RefreshOf(l, x, r, under) ==
    /\ DeviceList(l, x) /\ r \in {Nothing, RowsOf(x)}
    /\ devs' = [devs EXCEPT ![l] = x]
    /\ rows' = [rows EXCEPT ![l] = r]
    /\ unheard' = [unheard EXCEPT ![l] = {}]
    /\ \/ boxes' = under /\ hears' = hears
       \/ \E b \in Box :
            /\ b.then # "reload" /\ b.list = l /\ b.tmp = hears[l]
            /\ boxes' = Append(under, b)
            /\ hears' = [hears EXCEPT ![l] = FALSE]

LEMMA ShowFacts ==
    ASSUME NEW l \in Lists, NEW dl, DeviceList(l, dl), NEW under,
           hears \in [Lists -> BOOLEAN], Show(l, dl, under)
    PROVE  \E x, r : /\ RefreshOf(l, x, r, under)
                     /\ \A d \in DOMAIN dl \cap plugged :
                           \/ d \in DOMAIN x /\ x[d] = dl[d]
                           \/ l = "input" /\ d \in Microphones \cup Hidden
<1>1. PICK o \in Outcomes(l, dl) :
        /\ devs' = [devs EXCEPT ![l] = o.devs]
        /\ rows' = [rows EXCEPT ![l] = o.rows]
        /\ unheard' = [unheard EXCEPT ![l] = {}]
        /\ IF o.then = "none"
           THEN boxes' = under /\ UNCHANGED hears
           ELSE /\ boxes' = Append(under, [then |-> o.then, list |-> l,
                                           tmp |-> hears[l]])
                /\ hears' = [hears EXCEPT ![l] = FALSE]
  BY DEF Show
<1>2. GoodOutcome(l, dl, o)
  BY OutcomesFacts
<1>. DEFINE b == [then |-> o.then, list |-> l, tmp |-> hears[l]]
<1>3. o.then # "none" =>
        b \in Box /\ b.then # "reload" /\ b.list = l /\ b.tmp = hears[l]
  BY <1>2 DEF GoodOutcome, Box
<1>. HIDE DEF b
<1>4. RefreshOf(l, o.devs, o.rows, under)
  BY <1>1, <1>2, <1>3 DEF RefreshOf, GoodOutcome, Refreshed, b
<1>. QED BY <1>2, <1>4 DEF GoodOutcome, Refreshed
-----------------------------------------------------------------------------
(***************************************************************************)
(* The view.                                                               *)
(***************************************************************************)
ListTyped(l) ==
    /\ devs[l] \in [DOMAIN devs[l] -> DeviceObject]
    /\ rows[l] \in [DOMAIN rows[l] -> Row]
    /\ DOMAIN devs[l] \subseteq Kind(l) /\ DOMAIN rows[l] \subseteq Kind(l)
    /\ unheard[l] \subseteq DOMAIN rows[l]

ViewTyped ==
    /\ DOMAIN devs = Lists /\ DOMAIN rows = Lists /\ DOMAIN unheard = Lists
    /\ \A l \in Lists : ListTyped(l)
    /\ hears \in [Lists -> BOOLEAN]
    /\ boxes \in Seq(Box)

ViewInv == ViewTyped /\ RowsInv /\ HearingInv /\ ClosedInv

(* A refreshed list is right, and the others stay as right as they were    *)
(* with the messages under its own.                                        *)
LEMMA RefreshStep ==
    ASSUME ViewTyped, NEW l \in Lists, NEW x, NEW r, NEW under \in Seq(Box),
           RefreshOf(l, x, r, under), Hearing(under, hears),
           \A k \in Lists \ {l} : \A d \in DOMAIN rows[k] : RowRight(under, k, d)
    PROVE  ViewTyped' /\ RowsInv' /\ Hearing(boxes', hears')
<1>1. /\ devs' = [devs EXCEPT ![l] = x] /\ rows' = [rows EXCEPT ![l] = r]
      /\ unheard' = [unheard EXCEPT ![l] = {}]
      /\ DeviceList(l, x) /\ (r = Nothing \/ r = RowsOf(x))
  BY DEF RefreshOf
<1>2. /\ DOMAIN devs' = Lists /\ DOMAIN rows' = Lists /\ DOMAIN unheard' = Lists
      /\ devs'[l] = x /\ rows'[l] = r /\ unheard'[l] = {}
      /\ \A k \in Lists \ {l} : /\ devs'[k] = devs[k] /\ rows'[k] = rows[k]
                               /\ unheard'[k] = unheard[k]
  BY <1>1 DEF ViewTyped
<1>3. /\ r \in [DOMAIN r -> Row] /\ DOMAIN r \subseteq DOMAIN x
      /\ \A d \in DOMAIN r : r[d].gen = x[d].gen /\ r[d].checked = x[d].selected
  <2>1. CASE r = Nothing
    BY <2>1, NothingFacts
  <2>2. CASE r = RowsOf(x)
    <3>1. /\ r \in [DOMAIN x -> Row] /\ DOMAIN r = DOMAIN x
          /\ \A d \in DOMAIN x : r[d].gen = x[d].gen
                                /\ r[d].checked = x[d].selected
      BY <1>1, <2>2, RowsFacts
    <3>. QED BY <3>1
  <2>. QED BY <1>1, <2>1, <2>2
<1>4. \A k \in Lists : ListTyped(k)'
  <2>1. ListTyped(l)'
    BY <1>1, <1>2, <1>3 DEF ListTyped, DeviceList
  <2>2. ASSUME NEW k \in Lists \ {l} PROVE ListTyped(k)'
    BY <1>2, <2>2 DEF ListTyped, ViewTyped
  <2>. QED BY <2>1, <2>2
<1>5. /\ boxes' \in Seq(Box) /\ hears' \in [Lists -> BOOLEAN]
      /\ Hearing(boxes', hears')
      /\ \A k : Reloading(under, k) => Reloading(boxes', k)
  <2>1. CASE boxes' = under /\ hears' = hears
    BY <2>1 DEF ViewTyped
  <2>2. ASSUME NEW b \in Box, b.then # "reload", b.list = l, b.tmp = hears[l],
               boxes' = Append(under, b),
               hears' = [hears EXCEPT ![l] = FALSE]
        PROVE  <1>5!:
    <3>1. boxes' \in Seq(Box) /\ hears' \in [Lists -> BOOLEAN]
      BY <2>2, PushFacts DEF ViewTyped
    <3>2. Hearing(boxes', hears')
      BY <2>2, HearingPush DEF ViewTyped
    <3>3. \A k : Reloading(under, k) => Reloading(boxes', k)
      BY <2>2, ReloadingPush
    <3>. QED BY <3>1, <3>2, <3>3
  <2>. QED BY <2>1, <2>2 DEF RefreshOf
<1>6. ASSUME NEW k \in Lists, NEW d \in DOMAIN rows'[k]
      PROVE  RowRight(boxes, k, d)'
  <2>1. CASE k = l
    BY <1>2, <1>3, <1>6, <2>1 DEF RowRight
  <2>2. CASE k # l
    <3>1. RowRight(under, k, d)
      BY <1>2, <1>6, <2>2
    <3>. QED BY <1>2, <1>5, <2>2, <3>1 DEF RowRight
  <2>. QED BY <2>1, <2>2
<1>. QED BY <1>2, <1>4, <1>5, <1>6 DEF ViewTyped, RowsInv
(* The view after a refresh under the messages that are open.              *)
LEMMA ShowStep ==
    ASSUME ViewInv, ~closed, closed' = closed, NEW l \in Lists, NEW dl,
           DeviceList(l, dl), Show(l, dl, boxes)
    PROVE  ViewInv'
<1>1. PICK x, r : RefreshOf(l, x, r, boxes)
  BY ShowFacts DEF ViewInv, ViewTyped
<1>2. ViewTyped' /\ RowsInv' /\ Hearing(boxes', hears')
  BY <1>1, RefreshStep DEF ViewInv, ViewTyped, RowsInv, HearingInv
<1>. QED BY <1>2 DEF ViewInv, HearingInv, ClosedInv

LEMMA ObjectsTyped ==
    ASSUME ViewTyped, NEW l \in Lists
    PROVE  DeviceList(l, devs[l])
BY DEF ViewTyped, ListTyped, DeviceList

(* A click turns a row over.                                               *)
LEMMA ToggleFacts ==
    ASSUME ViewTyped, NEW l \in Lists, NEW d \in DOMAIN rows[l], Toggle(l, d)
    PROVE  /\ DOMAIN rows' = Lists /\ DOMAIN rows'[l] = DOMAIN rows[l]
           /\ rows'[l] \in [DOMAIN rows[l] -> Row]
           /\ rows'[l][d].gen = rows[l][d].gen
           /\ rows'[l][d].checked = ~rows[l][d].checked
           /\ \A c \in DOMAIN rows[l] : c # d => rows'[l][c] = rows[l][c]
           /\ \A k \in Lists \ {l} : rows'[k] = rows[k]
<1>. DEFINE R == rows[l]
            Q == [R EXCEPT ![d] = [R[d] EXCEPT !.checked = ~R[d].checked]]
<1>1. DOMAIN rows = Lists /\ R \in [DOMAIN R -> Row] /\ d \in DOMAIN R
  BY DEF ViewTyped, ListTyped
<1>2. rows' = [rows EXCEPT ![l] = Q]
  BY DEF Toggle
<1>3. /\ R[d] \in Row
      /\ [R[d] EXCEPT !.checked = ~R[d].checked] =
           [gen |-> R[d].gen, checked |-> ~R[d].checked]
  BY <1>1 DEF Row
<1>4. [gen |-> R[d].gen, checked |-> ~R[d].checked] \in Row
  BY <1>3 DEF Row
<1>5. /\ Q \in [DOMAIN R -> Row] /\ DOMAIN Q = DOMAIN R
      /\ Q[d] = [gen |-> R[d].gen, checked |-> ~R[d].checked]
      /\ \A c \in DOMAIN R : c # d => Q[c] = R[c]
  BY <1>1, <1>3, <1>4
<1>. HIDE DEF Q
<1>6. rows'[l] = Q /\ DOMAIN rows' = Lists
      /\ \A k \in Lists \ {l} : rows'[k] = rows[k]
  BY <1>1, <1>2
<1>. QED BY <1>5, <1>6

(* A row turned over, the rest of the view but unheard and messages kept.  *)
LEMMA ToggleTyped ==
    ASSUME ViewTyped, NEW l \in Lists, NEW d \in DOMAIN rows[l], Toggle(l, d),
           devs' = devs, hears' = hears, boxes' \in Seq(Box),
           DOMAIN unheard' = Lists, unheard'[l] \subseteq DOMAIN rows[l],
           \A k \in Lists \ {l} : unheard'[k] = unheard[k]
    PROVE  ViewTyped'
<1>1. \A k \in Lists : ListTyped(k)'
  <2>1. ListTyped(l)'
    BY ToggleFacts DEF ListTyped, ViewTyped
  <2>2. ASSUME NEW k \in Lists \ {l} PROVE ListTyped(k)'
    BY <2>2, ToggleFacts DEF ListTyped, ViewTyped
  <2>. QED BY <2>1, <2>2
<1>. QED BY <1>1, ToggleFacts DEF ViewTyped

LEMMA CheckUnheardStep ==
    ASSUME ViewInv, ~closed, NEW l \in Lists, NEW d, CheckUnheard(l, d)
    PROVE  ViewInv'
<1>1. /\ d \in DOMAIN rows[l] /\ Toggle(l, d) /\ devs' = devs /\ hears' = hears
      /\ boxes' = boxes /\ closed' = closed /\ ViewTyped
      /\ unheard' = [unheard EXCEPT ![l] = IF d \in unheard[l]
                                          THEN unheard[l] \ {d}
                                          ELSE unheard[l] \cup {d}]
  BY DEF CheckUnheard, ViewInv
<1>2. /\ DOMAIN unheard' = Lists /\ unheard'[l] \subseteq DOMAIN rows[l]
      /\ d \in unheard'[l] <=> d \notin unheard[l]
      /\ \A c : c # d => (c \in unheard'[l] <=> c \in unheard[l])
      /\ \A k \in Lists \ {l} : unheard'[k] = unheard[k]
  BY <1>1 DEF ViewTyped, ListTyped
<1>3. ViewTyped'
  BY <1>1, <1>2, ToggleTyped DEF ViewTyped
<1>4. ASSUME NEW k \in Lists, NEW c \in DOMAIN rows'[k]
      PROVE  RowRight(boxes, k, c)'
  <2>1. c \in DOMAIN rows[k] /\ RowRight(boxes, k, c)
    BY <1>1, <1>4, ToggleFacts DEF ViewInv, RowsInv
  <2>2. CASE k = l /\ c = d
    <3>1. /\ rows'[l][d].gen = rows[l][d].gen
          /\ rows'[l][d].checked = ~rows[l][d].checked
      BY <1>1, ToggleFacts
    <3>2. ASSUME d \in unheard[l] <=> rows[l][d].checked # devs[l][d].selected
          PROVE  d \in unheard'[l] <=>
                    rows'[l][d].checked # devs[l][d].selected
      <4>1. rows[l][d].checked \in BOOLEAN /\ devs[l][d].selected \in BOOLEAN
        BY <1>1, <2>1, <2>2
           DEF RowRight, ViewTyped, ListTyped, Row, DeviceObject
      <4>. QED BY <1>2, <3>1, <3>2, <4>1
    <3>. QED BY <1>1, <2>1, <2>2, <3>1, <3>2 DEF RowRight
  <2>3. CASE k # l \/ c # d
    <3>1. rows'[k][c] = rows[k][c] /\ (c \in unheard'[k] <=> c \in unheard[k])
      BY <1>1, <1>2, <2>1, <2>3, ToggleFacts
    <3>. QED BY <1>1, <2>1, <3>1 DEF RowRight
  <2>. QED BY <2>2, <2>3
<1>. QED
  BY <1>1, <1>3, <1>4 DEF ViewInv, RowsInv, HearingInv, ClosedInv

(* In the output list, and while the message about the click is open, a    *)
(* row may lie.                                                            *)
LEMMA ToggleOpenStep ==
    ASSUME ViewInv, ~closed, closed' = closed, NEW l \in Lists,
           NEW d \in DOMAIN rows[l], Toggle(l, d),
           devs' = devs, hears' = hears, unheard' = unheard,
           boxes' \in Seq(Box), Hearing(boxes', hears),
           l = "output" \/ Reloading(boxes', l),
           \A k : Reloading(boxes, k) => Reloading(boxes', k)
    PROVE  ViewInv'
<1>1. ViewTyped'
  BY ToggleTyped DEF ViewInv, ViewTyped, ListTyped
<1>2. ASSUME NEW k \in Lists, NEW c \in DOMAIN rows'[k]
      PROVE  RowRight(boxes, k, c)'
  <2>0. ViewTyped
    BY DEF ViewInv
  <2>1. c \in DOMAIN rows[k] /\ RowRight(boxes, k, c)
    BY <1>2, <2>0, ToggleFacts DEF ViewInv, RowsInv
  <2>2. CASE k = l
    <3>1. rows'[l][c].gen = rows[l][c].gen
      BY <2>0, <2>1, <2>2, ToggleFacts
    <3>. QED BY <2>1, <2>2, <3>1 DEF RowRight
  <2>3. CASE k # l
    <3>1. rows'[k] = rows[k]
      BY <2>0, <2>3, ToggleFacts
    <3>. QED BY <2>1, <3>1 DEF RowRight
  <2>. QED BY <2>2, <2>3
<1>. QED BY <1>1, <1>2 DEF ViewInv, RowsInv, HearingInv, ClosedInv
LEMMA CheckAbstractStep ==
    ASSUME ViewInv, ~closed, NEW l \in Lists, NEW d, CheckAbstract(l, d)
    PROVE  ViewInv'
BY ToggleOpenStep DEF CheckAbstract, ViewInv, ViewTyped, HearingInv

LEMMA CheckItemStep ==
    ASSUME ViewInv, ~closed, NEW l \in Lists, NEW d, CheckItem(l, d)
    PROVE  ViewInv'
<1>1. d \in DOMAIN rows[l] /\ closed' = closed /\ ViewTyped /\ RowRight(boxes, l, d)
  BY DEF CheckItem, ViewInv, RowsInv
<1>2. CASE Show(l, [devs[l] EXCEPT ![d].selected = ~rows[l][d].checked], boxes)
  <2>. DEFINE sel == ~rows[l][d].checked
              dl == [devs[l] EXCEPT ![d].selected = sel]
  <2>1. DeviceList(l, dl)
    <3>1. d \in DOMAIN devs[l] /\ DeviceList(l, devs[l])
      BY <1>1, ObjectsTyped DEF RowRight
    <3>2. sel \in BOOLEAN
      OBVIOUS
    <3>. HIDE DEF sel
    <3>3. /\ devs[l][d] \in DeviceObject
          /\ [devs[l][d] EXCEPT !.selected = sel] \in DeviceObject
      BY <3>1, <3>2 DEF DeviceList, DeviceObject
    <3>. QED BY <3>1, <3>3 DEF DeviceList
  <2>. HIDE DEF dl
  <2>2. Show(l, dl, boxes)
    BY <1>2 DEF dl
  <2>. QED BY <1>1, <2>1, <2>2, ShowStep
<1>3. CASE /\ Toggle(l, d)
           /\ boxes' = Append(boxes, [then |-> "reload", list |-> l,
                                      tmp |-> hears[l]])
           /\ UNCHANGED <<devs, hears, unheard>>
  <2>. DEFINE b == [then |-> "reload", list |-> l, tmp |-> hears[l]]
  <2>1. b \in Box /\ b.then = "reload" /\ b.list = l /\ boxes \in Seq(Box)
    BY <1>1 DEF Box, ViewTyped
  <2>. HIDE DEF b
  <2>2. boxes' = Append(boxes, b)
    BY <1>3 DEF b
  <2>3. boxes' \in Seq(Box) /\ Reloading(boxes', l)
        /\ \A k : Reloading(boxes, k) => Reloading(boxes', k)
    BY <2>1, <2>2, ReloadingPush, PushFacts
  <2>4. Hearing(boxes', hears)
    BY <2>1, <2>2, HearingPushClick DEF ViewInv, HearingInv
  <2>. QED BY <1>1, <1>3, <2>3, <2>4, ToggleOpenStep
<1>. QED BY <1>2, <1>3 DEF CheckItem

LEMMA BoxClosedStep ==
    ASSUME ViewInv, BoxClosed, closed \in BOOLEAN
    PROVE  ViewInv'
<1>. DEFINE f == Last(boxes)
<1>1. /\ boxes # << >> /\ boxes \in Seq(Box) /\ closed' = closed /\ ViewTyped
      /\ f \in Box /\ f.list \in Lists /\ Front(boxes) \in Seq(Box)
  <2>1. boxes # << >> /\ boxes \in Seq(Box) /\ closed' = closed /\ ViewTyped
    BY DEF BoxClosed, ViewInv, ViewTyped
  <2>2. f \in Box /\ Front(boxes) \in Seq(Box)
    BY <2>1, PopFacts
  <2>. QED BY <2>1, <2>2 DEF Box
<1>2. CASE boxes' = Front(boxes) /\ (Restore(f) \/ Drop(f) \/ DropFreed(f))
  <2>1. hears' = [hears EXCEPT ![f.list] = f.tmp] \/ hears' = hears
    BY <1>2 DEF Restore, Drop, DropFreed
  <2>2. hears' \in [Lists -> BOOLEAN] /\ boxes' \in Seq(Box)
    BY <1>1, <1>2, <2>1 DEF ViewTyped, Box
  <2>3. HearingInv'
    <3>1. CASE closed
      BY <1>1, <3>1 DEF HearingInv
    <3>2. CASE ~closed
      <4>1. f.then # "reload" /\ hears' = [hears EXCEPT ![f.list] = f.tmp]
        BY <1>2, <3>2 DEF Restore, Drop, DropFreed
      <4>. QED
        BY <1>1, <1>2, <3>2, <4>1, HearingPop
           DEF HearingInv, ViewInv, ViewTyped
    <3>. QED BY <3>1, <3>2
  <2>4. CASE Drop(f)
    <3>1. /\ devs' = [devs EXCEPT ![f.list] = Nothing]
          /\ rows' = [rows EXCEPT ![f.list] = Nothing]
          /\ unheard' = [unheard EXCEPT ![f.list] = {}] /\ ~closed'
      BY <1>1, <2>4 DEF Drop
    <3>2. /\ DOMAIN devs' = Lists /\ DOMAIN rows' = Lists
          /\ DOMAIN unheard' = Lists
          /\ devs'[f.list] = Nothing /\ rows'[f.list] = Nothing
          /\ unheard'[f.list] = {}
          /\ \A k \in Lists \ {f.list} : /\ devs'[k] = devs[k]
                                        /\ rows'[k] = rows[k]
                                        /\ unheard'[k] = unheard[k]
      BY <1>1, <3>1 DEF ViewTyped
    <3>3. ASSUME NEW k \in Lists PROVE ListTyped(k)'
      <4>1. CASE k = f.list
        BY <3>2, <4>1, NothingFacts DEF ListTyped
      <4>2. CASE k # f.list
        BY <1>1, <3>2, <4>2 DEF ViewTyped, ListTyped
      <4>. QED BY <4>1, <4>2
    <3>4. ASSUME NEW k \in Lists, NEW d \in DOMAIN rows'[k]
          PROVE  RowRight(boxes, k, d)'
      <4>1. k # f.list /\ d \in DOMAIN rows[k]
        BY <3>2, <3>4, NothingFacts
      <4>2. RowRight(boxes, k, d)
        BY <4>1 DEF ViewInv, RowsInv
      <4>3. Reloading(boxes, k) => Reloading(boxes', k)
        BY <1>1, <1>2, <4>1, ReloadingPop
      <4>. QED BY <3>2, <4>1, <4>2, <4>3 DEF RowRight
    <3>. QED
      BY <2>2, <2>3, <3>1, <3>2, <3>3, <3>4
         DEF ViewInv, ViewTyped, RowsInv, ClosedInv
  <2>5. CASE Restore(f) \/ DropFreed(f)
    <3>1. devs' = devs /\ rows' = rows /\ unheard' = unheard
      BY <2>5 DEF Restore, DropFreed
    <3>2. ViewTyped'
      BY <1>1, <2>2, <3>1 DEF ViewTyped, ListTyped
    <3>3. ASSUME NEW k \in Lists, NEW d \in DOMAIN rows[k]
          PROVE  RowRight(boxes, k, d)'
      <4>1. RowRight(boxes, k, d) /\ ~closed
        BY <3>3 DEF ViewInv, RowsInv, ClosedInv
      <4>2. f.then = "restore"
        BY <2>5, <4>1 DEF Restore, DropFreed
      <4>3. Reloading(boxes, k) => Reloading(boxes', k)
        BY <1>1, <1>2, <4>2, ReloadingPop
      <4>. QED BY <3>1, <4>1, <4>3 DEF RowRight
    <3>. QED
      BY <1>1, <2>3, <3>1, <3>2, <3>3 DEF ViewInv, RowsInv, ClosedInv
  <2>. QED BY <1>2, <2>4, <2>5
<1>3. CASE /\ f.then = "reload" /\ ~closed
           /\ Show(f.list, devs[f.list], Front(boxes))
  <2>1. PICK x, r : RefreshOf(f.list, x, r, Front(boxes))
    BY <1>1, <1>3, ShowFacts, ObjectsTyped DEF ViewTyped
  <2>2. Hearing(Front(boxes), hears)
    BY <1>1, <1>3, HearingPopClick DEF ViewInv, HearingInv
  <2>3. ASSUME NEW k \in Lists \ {f.list}, NEW d \in DOMAIN rows[k]
        PROVE  RowRight(Front(boxes), k, d)
    <3>1. RowRight(boxes, k, d)
      BY DEF ViewInv, RowsInv
    <3>2. Reloading(boxes, k) => Reloading(Front(boxes), k)
      BY <1>1, <2>3, ReloadingPop
    <3>. QED BY <3>1, <3>2 DEF RowRight
  <2>4. ViewTyped' /\ RowsInv' /\ Hearing(boxes', hears')
    BY <1>1, <2>1, <2>2, <2>3, RefreshStep
  <2>. QED BY <1>1, <1>3, <2>4 DEF ViewInv, HearingInv, ClosedInv
<1>. QED BY <1>2, <1>3 DEF BoxClosed

LEMMA FormCloseStep ==
    ASSUME ViewInv, FormClose
    PROVE  ViewInv'
<1>1. /\ closed' /\ ViewTyped /\ hears' = hears /\ boxes' = boxes
      /\ devs' = [l \in Lists |-> Nothing] /\ rows' = [l \in Lists |-> Nothing]
      /\ unheard' = [l \in Lists |-> {}]
  BY DEF FormClose, ViewInv
<1>2. ViewTyped'
  BY <1>1, NothingFacts DEF ViewTyped, ListTyped
<1>. QED
  BY <1>1, <1>2, NothingFacts DEF ViewInv, RowsInv, HearingInv, ClosedInv

(* Nothing else changes the view.                                          *)
LEMMA ViewKept ==
    ASSUME ViewInv, view' = view, closed' = closed
    PROVE  ViewInv'
<1>1. /\ devs' = devs /\ rows' = rows /\ hears' = hears /\ boxes' = boxes
      /\ unheard' = unheard
  BY DEF view
<1>. QED
  BY <1>1 DEF ViewInv, ViewTyped, ListTyped, RowsInv, RowRight, Reloading,
              HearingInv, Hearing, Muted, ClosedInv

LEMMA ViewStep ==
    ASSUME ViewInv, closed \in BOOLEAN, Next
    PROVE  ViewInv'
<1>1. CASE \E l \in Lists, d \in Devices : CheckUnheard(l, d) /\ ~closed
  BY <1>1, CheckUnheardStep
<1>2. CASE \E l \in Lists, d \in Devices : CheckAbstract(l, d) /\ ~closed
  BY <1>2, CheckAbstractStep
<1>3. CASE \E l \in Lists, d \in Devices : CheckItem(l, d) /\ ~closed
  BY <1>3, CheckItemStep
<1>4. CASE \E l \in Lists : RefreshClick(l) /\ ~closed
  <2>1. PICK l \in Lists : Show(l, devs[l], boxes) /\ closed' = closed /\ ~closed
    BY <1>4 DEF RefreshClick
  <2>. QED BY <2>1, ShowStep, ObjectsTyped DEF ViewInv
<1>5. CASE view' = view /\ closed' = closed
  BY <1>5, ViewKept
<1>. QED
  BY <1>1, <1>2, <1>3, <1>4, <1>5, BoxClosedStep, FormCloseStep
     DEF Next, Plug, RecordStop, Record, Test, GroupBoxClick

(* What the rows promise follows.                                          *)
LEMMA ViewPromise == ASSUME ViewInv PROVE ViewMatches
<1>1. ASSUME NEW l \in Lists, NEW d \in DOMAIN rows[l]
      PROVE  /\ d \in DOMAIN devs[l] /\ devs[l][d].gen = rows[l][d].gen
             /\ \/ rows[l][d].checked = devs[l][d].selected
                \/ d \in unheard[l] \/ l = "output"
                \/ Reloading(boxes, l)
  BY DEF ViewInv, RowsInv, RowRight
<1>2. ASSUME boxes = << >>, ~closed, NEW l \in Lists PROVE hears[l]
  BY <1>2 DEF ViewInv, HearingInv, Hearing, Muted
<1>. QED BY <1>1, <1>2 DEF ViewMatches, Reloading
-----------------------------------------------------------------------------
(***************************************************************************)
(* Sessions.                                                               *)
(***************************************************************************)
SessionsTyped ==
    /\ recording \subseteq Lists /\ testing \in BOOLEAN
    /\ live \in [Objects -> Nat] /\ begun \in Nat /\ raised \in Nat

(* Every failing call frees what was created before it.                    *)
LEMMA RolledBack == \A call : Created(call) = Freed(call)
BY DEF Created, Freed, Objects

LEMMA ListsFinite == IsFiniteSet(Lists)
<1>1. IsFiniteSet({"video", "audio", "output", "input"})
  <2>1. IsFiniteSet({"video"}) /\ IsFiniteSet({"audio"})
        /\ IsFiniteSet({"output"}) /\ IsFiniteSet({"input"})
    BY FS_Singleton
  <2>2. IsFiniteSet({"video"} \cup {"audio"} \cup {"output"} \cup {"input"})
    BY <2>1, FS_Union
  <2>3. {"video"} \cup {"audio"} \cup {"output"} \cup {"input"} =
           {"video", "audio", "output", "input"}
    OBVIOUS
  <2>. QED BY <2>2, <2>3
<1>. QED BY <1>1, FS_Subset, DemoAssumption

LEMMA RecordingNumber ==
    ASSUME recording \subseteq Lists
    PROVE  Cardinality(recording) \in Nat
BY ListsFinite, FS_Subset, FS_CardinalityType

LEMMA RecordingCounted ==
    ASSUME recording \subseteq Lists, NEW l
    PROVE  /\ l \notin recording =>
                Cardinality(recording \cup {l}) = Cardinality(recording) + 1
           /\ l \in recording =>
                /\ Cardinality(recording \ {l}) = Cardinality(recording) - 1
                /\ Cardinality(recording) > 0
<1>1. IsFiniteSet(recording)
  BY ListsFinite, FS_Subset
<1>2. Cardinality(recording) \in Nat
  BY RecordingNumber
<1>3. ASSUME l \in recording PROVE Cardinality(recording) > 0
  BY <1>1, <1>2, <1>3, FS_EmptySet
<1>. QED BY <1>1, <1>2, <1>3, FS_AddElement, FS_RemoveElement

(* What is added to the objects that exist.                                *)
LEMMA AddFacts ==
    ASSUME live \in [Objects -> Nat], NEW made, NEW gone, Add(made, gone),
           \A o \in Objects :
              o \in gone => o \in made \/ live[o] > 0
    PROVE  /\ live' \in [Objects -> Nat]
           /\ \A o \in Objects :
                live'[o] = live[o] + (IF o \in made THEN 1 ELSE 0)
                                   - (IF o \in gone THEN 1 ELSE 0)
BY DEF Add

LEMMA RecordFailsFacts ==
    ASSUME live \in [Objects -> Nat], NEW l, NEW call, RecordFails(l, call)
    PROVE  live' = live /\ UNCHANGED <<recording, begun, raised, fault>>
<1>1. Add(Created(call), Created(call))
  BY RolledBack DEF RecordFails
<1>2. \A o \in Objects : live'[o] = live[o]
  BY <1>1, AddFacts
<1>3. live' \in [Objects -> Nat]
  BY <1>1, AddFacts
<1>. QED BY <1>2, <1>3 DEF RecordFails

SessionsInv == SessionsTyped /\ RecordRollback

LEMMA SessionsKept ==
    ASSUME SessionsInv, recording' = recording, testing' = testing,
           live' = live, begun' = begun, raised' = raised
    PROVE  SessionsInv'
BY DEF SessionsInv, SessionsTyped, RecordRollback, Tests

LEMMA ObjectNames == Objects = {"asf", "in", "out", "session"}
BY DEF Objects

(* The numbers that RecordRollback relates.                                *)
SessionNumbers ==
    /\ live \in [Objects -> Nat] /\ begun \in Nat /\ raised \in Nat
    /\ Cardinality(recording) \in Nat /\ Tests \in {0, 1}
    /\ \A o \in Objects \ {"session"} : live[o] = begun
    /\ live["session"] = Cardinality(recording) + raised + Tests

LEMMA NumbersOf == ASSUME SessionsInv PROVE SessionNumbers
BY RecordingNumber
   DEF SessionsInv, SessionsTyped, RecordRollback, SessionNumbers, Tests

LEMMA RecordStep ==
    ASSUME SessionsInv, NEW l \in Lists, NEW d, Record(l, d)
    PROVE  SessionsInv'
<1>1. /\ testing' = testing /\ l \notin recording
      /\ recording \subseteq Lists /\ testing \in BOOLEAN
      /\ Tests' = Tests /\ SessionNumbers
      /\ "session" \in Objects
  BY NumbersOf, ObjectNames DEF Record, SessionsInv, SessionsTyped, Tests
<1>2. ASSUME NEW call, RecordFails(l, call) PROVE SessionsInv'
  BY <1>1, <1>2, RecordFailsFacts, SessionsKept DEF SessionNumbers
<1>3. ASSUME Add(Objects, {})
      PROVE  /\ live' \in [Objects -> Nat]
             /\ \A o \in Objects : live'[o] = live[o] + 1
  BY <1>1, <1>3, AddFacts DEF SessionNumbers
<1>4. CASE /\ Add(Objects, {}) /\ begun' = begun + 1 /\ raised' = raised + 1
           /\ recording' = recording
  <2>1. SessionsTyped'
    BY <1>1, <1>3, <1>4 DEF SessionsTyped, SessionNumbers
  <2>2. RecordRollback'
    BY <1>1, <1>3, <1>4 DEF RecordRollback, SessionNumbers
  <2>. QED BY <2>1, <2>2 DEF SessionsInv
<1>5. CASE /\ Add(Objects, {}) /\ begun' = begun + 1 /\ raised' = raised
           /\ recording' = recording \cup {l}
  <2>1. SessionsTyped'
    BY <1>1, <1>3, <1>5 DEF SessionsTyped, SessionNumbers
  <2>2. Cardinality(recording') = Cardinality(recording) + 1
    BY <1>1, <1>5, RecordingCounted
  <2>3. RecordRollback'
    BY <1>1, <1>3, <1>5, <2>2 DEF RecordRollback, SessionNumbers
  <2>. QED BY <2>1, <2>3 DEF SessionsInv
<1>6. CASE UNCHANGED <<recording, live, begun, raised>>
  BY <1>1, <1>6, SessionsKept
<1>. QED BY <1>2, <1>4, <1>5, <1>6 DEF Record

LEMMA RecordStopStep ==
    ASSUME SessionsInv, NEW l \in Lists, RecordStop(l)
    PROVE  SessionsInv'
<1>1. /\ l \in recording /\ recording' = recording \ {l}
      /\ Add({}, {"session"})
      /\ testing' = testing /\ begun' = begun /\ raised' = raised
      /\ recording \subseteq Lists /\ testing \in BOOLEAN
      /\ Tests' = Tests /\ SessionNumbers
      /\ "session" \in Objects
  BY NumbersOf, ObjectNames DEF RecordStop, SessionsInv, SessionsTyped, Tests
<1>2. /\ Cardinality(recording') = Cardinality(recording) - 1
      /\ Cardinality(recording) > 0
  BY <1>1, RecordingCounted
<1>3. live["session"] > 0
  BY <1>1, <1>2 DEF SessionNumbers
<1>4. /\ live' \in [Objects -> Nat] /\ live'["session"] = live["session"] - 1
      /\ \A o \in Objects \ {"session"} : live'[o] = live[o]
  BY <1>1, <1>3, AddFacts DEF SessionNumbers
<1>5. SessionsTyped'
  BY <1>1, <1>4 DEF SessionsTyped, SessionNumbers
<1>6. RecordRollback'
  BY <1>1, <1>2, <1>4 DEF RecordRollback, SessionNumbers
<1>. QED BY <1>5, <1>6 DEF SessionsInv

LEMMA TestStep ==
    ASSUME SessionsInv, Test
    PROVE  SessionsInv'
<1>1. /\ testing' = ~testing /\ begun' = begun /\ raised' = raised
      /\ recording' = recording /\ recording \subseteq Lists
      /\ testing \in BOOLEAN /\ SessionNumbers /\ "session" \in Objects
      /\ IF testing THEN Add({}, {"session"}) ELSE Add({"session"}, {})
  BY NumbersOf, ObjectNames DEF Test, SessionsInv, SessionsTyped
<1>2. SessionsTyped /\ Tests = (IF testing THEN 1 ELSE 0)
      /\ Tests' = (IF testing THEN 0 ELSE 1)
  BY <1>1 DEF SessionsInv, Tests
<1>3. /\ live' \in [Objects -> Nat]
      /\ live'["session"] = live["session"] + Tests' - Tests
      /\ \A o \in Objects \ {"session"} : live'[o] = live[o]
  <2>1. CASE testing
    <3>1. live["session"] > 0
      BY <1>1, <1>2, <2>1 DEF SessionNumbers
    <3>2. /\ live' \in [Objects -> Nat]
          /\ live'["session"] = live["session"] - 1
          /\ \A o \in Objects \ {"session"} : live'[o] = live[o]
      BY <1>1, <2>1, <3>1, AddFacts DEF SessionNumbers
    <3>. QED BY <1>1, <1>2, <2>1, <3>2 DEF SessionNumbers
  <2>2. CASE ~testing
    <3>1. /\ live' \in [Objects -> Nat]
          /\ live'["session"] = live["session"] + 1
          /\ \A o \in Objects \ {"session"} : live'[o] = live[o]
      BY <1>1, <2>2, AddFacts DEF SessionNumbers
    <3>. QED BY <1>1, <1>2, <2>2, <3>1 DEF SessionNumbers
  <2>. QED BY <2>1, <2>2
<1>4. SessionsTyped'
  BY <1>1, <1>3 DEF SessionsTyped, SessionNumbers
<1>5. Tests' \in {0, 1}
  BY <1>2
<1>6. RecordRollback'
  BY <1>1, <1>3, <1>5 DEF RecordRollback, SessionNumbers
<1>. QED BY <1>4, <1>6 DEF SessionsInv

LEMMA SessionsStep ==
    ASSUME SessionsInv, Next
    PROVE  SessionsInv'
<1>1. CASE \E l \in Lists, d \in Devices : Record(l, d)
  BY <1>1, RecordStep
<1>2. CASE \E l \in Lists : RecordStop(l)
  BY <1>2, RecordStopStep
<1>3. CASE Test
  BY <1>3, TestStep
<1>4. CASE sessions' = sessions
  BY <1>4, SessionsKept DEF sessions
<1>. QED
  BY <1>1, <1>2, <1>3, <1>4
     DEF Next, BoxClosed, Plug, RefreshClick, CheckUnheard, CheckAbstract,
         CheckItem, GroupBoxClick, FormClose
-----------------------------------------------------------------------------
(* What may be wrong.                                                      *)
Faults == {"none", "no topology", "freed list", "unknown sender"}

LEMMA FaultStep ==
    ASSUME fault \in Faults, Next
    PROVE  fault' \in Faults
<1>1. CASE fault' = fault
  BY <1>1
<1>2. CASE BoxClosed
  <2>1. fault' \in {fault, "freed list"}
    BY <1>2 DEF BoxClosed, Restore, Drop, DropFreed
  <2>. QED BY <1>1, <2>1 DEF Faults
<1>3. CASE \E l \in Lists, d \in Devices : Record(l, d)
  <2>1. PICK l \in Lists, d \in Devices : Record(l, d)
    BY <1>3
  <2>2. fault' = fault \/ fault' = "no topology"
    BY <2>1 DEF Record, RecordFails
  <2>. QED BY <1>1, <2>2 DEF Faults
<1>4. CASE GroupBoxClick
  BY <1>4 DEF GroupBoxClick, Faults
<1>. QED
  BY <1>1, <1>2, <1>3, <1>4
     DEF Next, Plug, RefreshClick, RecordStop, CheckUnheard, CheckAbstract,
         CheckItem, Test, FormClose

LEMMA RestStep ==
    ASSUME plugged \subseteq Devices, closed \in BOOLEAN, Next
    PROVE  plugged' \subseteq Devices /\ closed' \in BOOLEAN
BY DEF Next, BoxClosed, Plug, RefreshClick, RecordStop, CheckUnheard,
       CheckAbstract, CheckItem, Record, Test, GroupBoxClick, FormClose

LEMMA InvParts ==
    /\ TypeOK <=> /\ ViewTyped /\ SessionsTyped /\ plugged \subseteq Devices
                  /\ closed \in BOOLEAN /\ fault \in Faults
    /\ IInv => ViewInv /\ SessionsInv
<1>1. {testing, closed} \subseteq BOOLEAN <=>
        testing \in BOOLEAN /\ closed \in BOOLEAN
  OBVIOUS
<1>2. \A l \in Lists :
        DOMAIN devs[l] \cup DOMAIN rows[l] \subseteq Kind(l) <=>
        DOMAIN devs[l] \subseteq Kind(l) /\ DOMAIN rows[l] \subseteq Kind(l)
  OBVIOUS
<1>3. TypeOK <=> /\ ViewTyped /\ SessionsTyped /\ plugged \subseteq Devices
                 /\ closed \in BOOLEAN /\ fault \in Faults
  BY <1>1, <1>2 DEF TypeOK, ViewTyped, ListTyped, SessionsTyped, Faults
<1>. QED BY <1>3 DEF IInv, ViewInv, SessionsInv

LEMMA InitInv == ASSUME Init PROVE IInv
<1>1. /\ plugged \subseteq Devices /\ closed = FALSE /\ fault = "none"
      /\ devs = [l \in Lists |-> Nothing] /\ rows = [l \in Lists |-> Nothing]
      /\ unheard = [l \in Lists |-> {}] /\ hears = [l \in Lists |-> TRUE]
      /\ boxes = << >> /\ recording = {} /\ testing = FALSE
      /\ live = [o \in Objects |-> 0] /\ begun = 0 /\ raised = 0
  BY DEF Init
<1>2. ViewTyped
  BY <1>1, NothingFacts DEF ViewTyped, ListTyped
<1>3. SessionsTyped
  BY <1>1 DEF SessionsTyped
<1>4. TypeOK
  BY <1>1, <1>2, <1>3, InvParts DEF Faults
<1>5. RowsInv
  BY <1>1, NothingFacts DEF RowsInv
<1>6. HearingInv /\ ClosedInv
  BY <1>1 DEF HearingInv, Hearing, ClosedInv
<1>7. ViewMatches
  BY <1>2, <1>5, <1>6, ViewPromise DEF ViewInv
<1>8. RecordRollback
  BY <1>1, FS_EmptySet, ObjectNames DEF RecordRollback, Tests
<1>. QED BY <1>1, <1>4, <1>5, <1>6, <1>7, <1>8 DEF IInv

LEMMA Invariance == Spec => []IInv
<1>1. ASSUME IInv, [Next]_vars PROVE IInv'
  <2>1. /\ ViewInv /\ SessionsInv /\ plugged \subseteq Devices
        /\ closed \in BOOLEAN /\ fault \in Faults
    BY <1>1, InvParts DEF IInv
  <2>2. CASE Next
    <3>1. ViewInv' /\ SessionsInv'
      BY <2>1, <2>2, ViewStep, SessionsStep
    <3>2. ViewMatches'
      BY <3>1, ViewPromise, PTL
    <3>3. TypeOK'
      <4>1. /\ ViewTyped' /\ SessionsTyped'
        BY <3>1 DEF ViewInv, SessionsInv
      <4>2. fault' \in Faults /\ plugged' \subseteq Devices
            /\ closed' \in BOOLEAN
        BY <2>1, <2>2, FaultStep, RestStep
      <4>3. (TypeOK <=> /\ ViewTyped /\ SessionsTyped
                        /\ plugged \subseteq Devices
                        /\ closed \in BOOLEAN /\ fault \in Faults)'
        BY InvParts, PTL
      <4>. QED BY <4>1, <4>2, <4>3 DEF Faults
    <3>. QED BY <3>1, <3>2, <3>3 DEF IInv, ViewInv, SessionsInv
  <2>3. CASE UNCHANGED vars
    <3>1. TypeOK'
      BY <1>1, <2>3 DEF IInv, TypeOK, vars, view, sessions
    <3>2. RowsInv' /\ ClosedInv'
      BY <1>1, <2>3
         DEF IInv, RowsInv, RowRight, Reloading, ClosedInv, vars, view
    <3>3. HearingInv'
      BY <1>1, <2>3 DEF IInv, HearingInv, Hearing, Muted, vars, view
    <3>4. ViewMatches'
      BY <1>1, <2>3 DEF IInv, ViewMatches, vars, view
    <3>5. RecordRollback'
      BY <1>1, <2>3 DEF IInv, RecordRollback, Tests, vars, sessions
    <3>. QED BY <3>1, <3>2, <3>3, <3>4, <3>5 DEF IInv
  <2>. QED BY <1>1, <2>2, <2>3
<1>. QED BY InitInv, <1>1, PTL DEF Spec

-----------------------------------------------------------------------------
(* The objects that survive a step.                                        *)
Survives(l, d) ==
    \/ d \in DOMAIN devs'[l] /\ devs'[l][d].gen = devs[l][d].gen
    \/ l = "input" /\ d \in Microphones \cup Hidden
    \/ Len(boxes') < Len(boxes) /\ Last(boxes).then = "drop"
    \/ closed'

LEMMA ShowSurvives ==
    ASSUME ViewTyped, NEW k \in Lists, NEW dl, DeviceList(k, dl), NEW under,
           DOMAIN dl = DOMAIN devs[k],
           \A d \in DOMAIN dl : dl[d].gen = devs[k][d].gen,
           Show(k, dl, under)
    PROVE  \A l \in Lists : \A d \in DOMAIN devs[l] \cap plugged : Survives(l, d)
<1>1. PICK x, r : /\ RefreshOf(k, x, r, under)
                  /\ \A d \in DOMAIN dl \cap plugged :
                        \/ d \in DOMAIN x /\ x[d] = dl[d]
                        \/ k = "input" /\ d \in Microphones \cup Hidden
  BY ShowFacts DEF ViewTyped
<1>2. devs'[k] = x /\ \A l \in Lists \ {k} : devs'[l] = devs[l]
  BY <1>1 DEF RefreshOf, ViewTyped
<1>. QED BY <1>1, <1>2 DEF Survives

LEMMA SurvivesStep ==
    ASSUME TypeOK, Next, NEW l \in Lists, NEW d \in DOMAIN devs[l] \cap plugged
    PROVE  Survives(l, d)
<1>1. ViewTyped
  BY InvParts
<1>2. CASE devs' = devs
  BY <1>2 DEF Survives
<1>3. CASE \E k \in Lists : RefreshClick(k)
  BY <1>1, <1>3, ShowSurvives, ObjectsTyped DEF RefreshClick
<1>4. ASSUME NEW k \in Lists, NEW c, CheckItem(k, c)
      PROVE  Survives(l, d)
  <2>1. CASE Show(k, [devs[k] EXCEPT ![c].selected = ~rows[k][c].checked], boxes)
    <3>. DEFINE sel == ~rows[k][c].checked
                dl == [devs[k] EXCEPT ![c].selected = sel]
    <3>1. DeviceList(k, devs[k])
      BY <1>1, ObjectsTyped
    <3>2. sel \in BOOLEAN
      OBVIOUS
    <3>. HIDE DEF sel
    <3>3. ASSUME c \in DOMAIN devs[k]
          PROVE  /\ [devs[k][c] EXCEPT !.selected = sel] \in DeviceObject
                 /\ [devs[k][c] EXCEPT !.selected = sel].gen = devs[k][c].gen
      BY <3>1, <3>2, <3>3 DEF DeviceList, DeviceObject
    <3>4. /\ DeviceList(k, dl) /\ DOMAIN dl = DOMAIN devs[k]
          /\ \A e \in DOMAIN dl : dl[e].gen = devs[k][e].gen
      BY <3>1, <3>3 DEF DeviceList
    <3>. HIDE DEF dl
    <3>5. Show(k, dl, boxes)
      BY <2>1 DEF dl, sel
    <3>. QED BY <1>1, <3>4, <3>5, ShowSurvives
  <2>. QED BY <1>2, <1>4, <2>1 DEF CheckItem
<1>5. CASE BoxClosed
  <2>. DEFINE f == Last(boxes)
  <2>1. /\ boxes # << >> /\ boxes \in Seq(Box) /\ f \in Box /\ f.list \in Lists
        /\ Len(Front(boxes)) = Len(boxes) - 1 /\ Len(boxes) \in Nat
    <3>1. boxes # << >> /\ boxes \in Seq(Box)
      BY <1>1, <1>5 DEF BoxClosed, ViewTyped
    <3>2. f \in Box /\ Len(Front(boxes)) = Len(boxes) - 1
      BY <3>1, PopFacts
    <3>3. f.list \in Lists
      BY <3>2 DEF Box
    <3>4. Len(boxes) \in Nat
      BY <3>1
    <3>. QED BY <3>1, <3>2, <3>3, <3>4
  <2>2. CASE Drop(f) /\ boxes' = Front(boxes)
    BY <2>1, <2>2 DEF Drop, Survives
  <2>3. CASE Restore(f) \/ DropFreed(f)
    BY <1>2, <2>3 DEF Restore, DropFreed
  <2>4. CASE Show(f.list, devs[f.list], Front(boxes))
    BY <1>1, <2>1, <2>4, ShowSurvives, ObjectsTyped
  <2>. QED BY <1>5, <2>2, <2>3, <2>4 DEF BoxClosed
<1>6. CASE FormClose
  BY <1>6 DEF FormClose, Survives
<1>. QED
  BY <1>2, <1>3, <1>4, <1>5, <1>6
     DEF Next, Plug, RecordStop, CheckUnheard, CheckAbstract, Record, Test,
         GroupBoxClick, view

-----------------------------------------------------------------------------
(* For any devices and lists every variable keeps its type.                *)
THEOREM TypeCorrect == Spec => []TypeOK
BY Invariance, PTL DEF IInv

(* However deeply messages nest, a row shows what is selected of its       *)
(* device unless its click reached nobody (MainForm.pas:118-128, 310-341). *)
THEOREM RowsHonest == Spec => []ViewMatches
BY Invariance, PTL DEF IInv

(* Whatever call of a Record click fails, everything created before it is  *)
(* freed (MainForm.pas:191-257).                                           *)
THEOREM NothingLeft == Spec => []RecordRollback
BY Invariance, PTL DEF IInv

(* Selections survive refreshes, but not those of microphones in the input *)
(* list (MFDevice.pas:76-118).                                             *)
THEOREM SelectionKept == Spec => SelectionSurvives
<1>1. ASSUME TypeOK, [Next]_vars
      PROVE  [\A l \in Lists : \A d \in DOMAIN devs[l] \cap plugged :
                 Survives(l, d)]_devs
  BY <1>1, SurvivesStep DEF vars, view
<1>2. SelectionSurvives <=>
        [][\A l \in Lists : \A d \in DOMAIN devs[l] \cap plugged :
              Survives(l, d)]_devs
  BY DEF SelectionSurvives, Survives
<1>. QED BY <1>1, <1>2, TypeCorrect, PTL DEF Spec
=============================================================================

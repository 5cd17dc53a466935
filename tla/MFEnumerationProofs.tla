------------------------- MODULE MFEnumerationProofs -------------------------
(***************************************************************************)
(* Proofs about the functions that hand out lists (MFEnumeration): who     *)
(* owns what after a call and which failures it reports, for any number of *)
(* kinds, streams, devices and formats.                                    *)
(***************************************************************************)
EXTENDS MFEnumeration, SequenceTheorems, TLAPS

(***************************************************************************)
(* The inductive invariant.                                                *)
(***************************************************************************)
(* What is listed comes from items the loops have passed.                  *)
Passed(r) == r[2] < round \/ (r[2] = round /\ r[3] < item)

PassedInv ==
    /\ pc = "call" => list = << >>
    /\ pc = "round" => \A r \in Listed : r[2] < round
    /\ pc \in {"item", "close"} => \A r \in Listed : Passed(r)

(* What MFCap_EnumDevices holds while it walks the devices of one kind.    *)
OpenHere ==
    IF fn = "capDevices" /\ pc \in {"item", "close"}
    THEN {OfRound("attributes"), OfRound("activates")}
    ELSE {}

(* On the way, what is owned is what was collected and what the round      *)
(* opened.                                                                 *)
HeldInv ==
    /\ fn = "capDevices" => \A r \in Listed : r[1] \in {"name", "link"}
    /\ pc \notin {"returned", "freed", "crashed"} =>
        \A r \in Resources :
            refs[r] = IF r \in (Listed \ Dangling) \cup OpenHere THEN 1 ELSE 0

(* The outcome and the place: entries are given up only after a failure,   *)
(* and a caller told of success was handed all of them.                    *)
OutcomeInv ==
    /\ pc \in {"call", "round", "copy", "freed"} => ok
    /\ pc \in {"close", "unwind"} => ~ok
    /\ pc \in {"round", "close", "copy", "unwind"} => fn # "playDevices"
    /\ pc \notin {"returned", "freed"} => result = {}
    /\ pc \in {"returned", "freed"} /\ ok => result = Listed

(* A failure that no later entry can hide is still what ret says.          *)
HiddenInv ==
    /\ ok => failed \subseteq HiddenFailures
    /\ pc = "item" /\ (handler \/ fn # "capFormats") =>
        failed \subseteq HiddenFailures

(* The number of formats left from an earlier stream is that of entries    *)
(* collected for it.                                                       *)
EarlierListed == \E r \in Listed : r[2] < round

CountInv ==
    /\ pc = "call" => count = 0
    /\ fn = "capFormats" =>
        /\ pc = "round" /\ count > 0 => EarlierListed
        /\ pc = "item" /\ handler /\ item > 1 => Listed # {}
        /\ pc = "item" /\ ~handler =>
            "descriptor" \in failed /\ (count > 0 => EarlierListed)
    /\ fault => pc = "crashed"

IInv ==
    /\ TypeOK /\ PassedInv /\ HeldInv /\ OutcomeInv /\ HiddenInv /\ CountInv
    /\ OwnedByCaller /\ FailuresReported

(***************************************************************************)
(* Sequences.                                                              *)
(***************************************************************************)
(* The empty sequence has no elements.                                     *)
LEMMA RangeEmpty == Range(<< >>) = {}
BY DEF Range

(* A new element at the end of a sequence without repetitions.             *)
LEMMA AppendFresh ==
    ASSUME NEW S, NEW s \in Seq(S), NEW e \in S
    PROVE  /\ Range(Append(s, e)) = Range(s) \cup {e}
           /\ IsInjective(s) /\ e \notin Range(s) => IsInjective(Append(s, e))
<1>. DEFINE u == Append(s, e)
<1>1. /\ DOMAIN u = 1 .. Len(s) + 1 /\ DOMAIN s = 1 .. Len(s)
      /\ Len(s) \in Nat
      /\ u[Len(s) + 1] = e
      /\ \A i \in 1 .. Len(s) : u[i] = s[i]
  OBVIOUS
<1>2. Range(u) = Range(s) \cup {e}
  <2>1. ASSUME NEW x \in Range(u) PROVE x \in Range(s) \cup {e}
    <3>1. PICK i \in 1 .. Len(s) + 1 : x = u[i]
      BY <1>1, <2>1 DEF Range
    <3>. QED BY <1>1, <3>1 DEF Range
  <2>2. ASSUME NEW x \in Range(s) PROVE x \in Range(u)
    <3>1. PICK i \in 1 .. Len(s) : x = s[i]
      BY <1>1, <2>2 DEF Range
    <3>2. i \in DOMAIN u /\ u[i] = x
      BY <1>1, <3>1
    <3>. QED BY <3>2 DEF Range
  <2>3. e \in Range(u)
    <3>1. Len(s) + 1 \in DOMAIN u
      BY <1>1
    <3>. QED BY <1>1, <3>1 DEF Range
  <2>. QED BY <2>1, <2>2, <2>3
<1>3. ASSUME IsInjective(s), e \notin Range(s) PROVE IsInjective(u)
  <2>1. \A i \in 1 .. Len(s) : s[i] # e
    BY <1>1, <1>3 DEF Range
  <2>2. \A i, j \in 1 .. Len(s) : s[i] = s[j] => i = j
    BY <1>1, <1>3 DEF IsInjective
  <2>3. ASSUME NEW i \in 1 .. Len(s) + 1, NEW j \in 1 .. Len(s) + 1,
               u[i] = u[j]
        PROVE  i = j
    BY <1>1, <2>1, <2>2, <2>3
  <2>. QED BY <1>1, <2>3 DEF IsInjective
<1>. QED BY <1>2, <1>3

ArrayFunctions == {"capNodes", "playNodes", "properties"}

(* The steps, one by one.                                                  *)
LEMMA StepCases ==
    ASSUME Next
    PROVE  \/ CapDevicesCall \/ CapDevicesOpen \/ CapDevice
           \/ CapDeviceUnnamed \/ CapDeviceUnlinked \/ CapDevicesClose
           \/ FormatsCall \/ CapFormatsStream \/ PlayFormatsStream
           \/ CapFormat \/ PlayFormat \/ CapFormatNoHandler \/ FormatsClose
           \/ fn \in ArrayFunctions \cup {"playDevices"} /\ ArrayCall
           \/ fn \in ArrayFunctions /\ \E kind \in Kinds : ArrayItem(kind)
           \/ fn \in ArrayFunctions /\ ArrayReturn
           \/ PlayDevice \/ PlayDevicesReturn
           \/ CopyOut \/ Unwind \/ FreeResult
<1>1. {"node", "value"} \subseteq Kinds
  BY DEF Kinds
<1>. QED
  BY <1>1 DEF Next, CapDevicesStep, FormatsStep, PlayDevicesStep, CapNodes,
     PlayNodes, Properties, PlayDevicesCall, ArrayFunctions

(* The function called does not change.                                    *)
LEMMA SameFunction ==
    ASSUME Next
    PROVE  fn' = fn /\ HiddenFailures' = HiddenFailures
<1>1. fn' = fn
  BY StepCases
     DEF CapDevicesCall, CapDevicesOpen, CapDevice, CapDeviceUnnamed,
         CapDeviceUnlinked, CapDevicesClose, FormatsCall, CapFormatsStream,
         PlayFormatsStream, CapFormat, PlayFormat, CapFormatNoHandler,
         FormatsClose, ArrayCall, ArrayItem, ArrayReturn, PlayDevice,
         PlayDevicesReturn, CopyOut, Unwind, FreeResult
<1>. QED BY <1>1 DEF HiddenFailures

(* What is listed after an entry was collected, and when none was.         *)
LEMMA CollectFacts ==
    ASSUME list \in Seq(SUBSET Resources), NEW S \in SUBSET Resources,
           Collect(S)
    PROVE  list' \in Seq(SUBSET Resources) /\ Listed' = Listed \cup S
<1>1. list' = Append(list, S)
  BY DEF Collect
<1>2. Range(Append(list, S)) = Range(list) \cup {S}
  BY AppendFresh
<1>. QED BY <1>1, <1>2, AppendProperties DEF Listed

LEMMA ListedTyped ==
    ASSUME list \in Seq(SUBSET Resources)
    PROVE  Listed \subseteq Resources
BY RangeOfSeq DEF Listed

LEMMA ListKept ==
    ASSUME list' = list
    PROVE  Listed' = Listed
BY DEF Listed

(* The resources of the current entry and of the current round.            *)
LEMMA HereTyped ==
    ASSUME TypeOK, NEW kind \in Kinds
    PROVE  /\ item <= count => Here(kind) \in Resources
           /\ OfRound(kind) \in Resources
<1>1. /\ round \in 1 .. Rounds /\ 1 \in 1 .. Items
      /\ item <= count => item \in 1 .. Items
  BY EnumerationAssumption DEF TypeOK
<1>. QED BY <1>1 DEF Here, OfRound, Resources

LEMMA RefsFacts ==
    ASSUME refs \in [Resources -> Int], NEW S
    PROVE  /\ Added(S) \in [Resources -> Int]
           /\ \A r \in Resources :
                Added(S)[r] = IF r \in S THEN refs[r] + 1 ELSE refs[r]
           /\ Dropped(S) \in [Resources -> Int]
           /\ \A r \in Resources :
                Dropped(S)[r] = IF r \in S THEN refs[r] - 1 ELSE refs[r]
BY DEF Added, Dropped

LEMMA KindNames ==
    /\ Kinds = {"attributes", "activates", "name", "link", "endpoint",
                "description", "format", "node", "value"}
    /\ \A r \in Resources : /\ r = <<r[1], r[2], r[3]>> /\ r[1] \in Kinds
                            /\ r[2] \in 1 .. Rounds /\ r[3] \in 1 .. Items
BY DEF Kinds, Resources

-----------------------------------------------------------------------------
LEMMA InitInv == ASSUME Init PROVE IInv
<1>1. Listed = {}
  BY RangeEmpty DEF Init, Listed
<1>2. TypeOK
  <2>1. refs \in [Resources -> Int] /\ list \in Seq(SUBSET Resources)
    BY EmptySeq DEF Init
  <2>2. 1 \in 1 .. Rounds /\ 0 \in 0 .. Rounds /\ 1 \in 1 .. Items + 1
        /\ 0 \in 0 .. Items
    BY EnumerationAssumption
  <2>. QED BY <2>1, <2>2 DEF Init, TypeOK
<1>3. HeldInv
  BY <1>1 DEF Init, HeldInv, OpenHere
<1>. QED
  BY <1>1, <1>2, <1>3
     DEF Init, IInv, PassedInv, OutcomeInv, HiddenInv, CountInv,
         OwnedByCaller, FailuresReported

(* Types.                                                                  *)
LEMMA TypeStep == ASSUME TypeOK, Next PROVE TypeOK'
<1>1. fn' \in CalledFunctions
  BY SameFunction DEF TypeOK
<1>2. /\ pc' \in {"call", "round", "item", "close", "copy", "unwind",
                  "returned", "freed", "crashed"}
      /\ handler' \in BOOLEAN /\ ok' \in BOOLEAN /\ fault' \in BOOLEAN
  BY StepCases
     DEF TypeOK, CapDevicesCall, CapDevicesOpen, CapDevice, CapDeviceUnnamed,
         CapDeviceUnlinked, CapDevicesClose, FormatsCall, CapFormatsStream,
         PlayFormatsStream, CapFormat, PlayFormat, CapFormatNoHandler,
         FormatsClose, ArrayCall, ArrayItem, ArrayReturn, PlayDevice,
         PlayDevicesReturn, CopyOut, Unwind, FreeResult, UnwindEntries,
         NextRound, FormatsStream, FormatItem, Succeed, Fail, loopVars
<1>3. round' \in 1 .. Rounds
  <2>1. round' = round \/ (round < rounds /\ round' = round + 1)
    BY StepCases
       DEF CapDevicesCall, CapDevicesOpen, CapDevice, CapDeviceUnnamed,
           CapDeviceUnlinked, CapDevicesClose, FormatsCall, CapFormatsStream,
           PlayFormatsStream, CapFormat, PlayFormat, CapFormatNoHandler,
           FormatsClose, ArrayCall, ArrayItem, ArrayReturn, PlayDevice,
           PlayDevicesReturn, CopyOut, Unwind, FreeResult,
           NextRound, FormatsStream, FormatItem, loopVars
  <2>. QED BY <2>1, EnumerationAssumption DEF TypeOK
<1>4. rounds' \in 0 .. Rounds
  <2>1. rounds' \in {rounds, 0, 1, 2} \cup 0 .. Rounds
    BY StepCases
       DEF CapDevicesCall, CapDevicesOpen, CapDevice, CapDeviceUnnamed,
           CapDeviceUnlinked, CapDevicesClose, FormatsCall, CapFormatsStream,
           PlayFormatsStream, CapFormat, PlayFormat, CapFormatNoHandler,
           FormatsClose, ArrayCall, ArrayItem, ArrayReturn, PlayDevice,
           PlayDevicesReturn, CopyOut, Unwind, FreeResult,
           NextRound, FormatsStream, FormatItem, loopVars
  <2>. QED BY <2>1, EnumerationAssumption DEF TypeOK
<1>5. item' \in 1 .. Items + 1
  <2>1. item' \in {item, 1} \/ (item <= count /\ item' = item + 1)
    BY StepCases
       DEF CapDevicesCall, CapDevicesOpen, CapDevice, CapDeviceUnnamed,
           CapDeviceUnlinked, CapDevicesClose, FormatsCall, CapFormatsStream,
           PlayFormatsStream, CapFormat, PlayFormat, CapFormatNoHandler,
           FormatsClose, ArrayCall, ArrayItem, ArrayReturn, PlayDevice,
           PlayDevicesReturn, CopyOut, Unwind, FreeResult,
           NextRound, FormatsStream, FormatItem, loopVars
  <2>. QED BY <2>1, EnumerationAssumption DEF TypeOK
<1>6. count' \in 0 .. Items
  <2>1. count' \in {count, 0} \cup 0 .. Items \cup 1 .. Items
    BY StepCases
       DEF CapDevicesCall, CapDevicesOpen, CapDevice, CapDeviceUnnamed,
           CapDeviceUnlinked, CapDevicesClose, FormatsCall, CapFormatsStream,
           PlayFormatsStream, CapFormat, PlayFormat, CapFormatNoHandler,
           FormatsClose, ArrayCall, ArrayItem, ArrayReturn, PlayDevice,
           PlayDevicesReturn, CopyOut, Unwind, FreeResult,
           NextRound, FormatsStream, FormatItem, loopVars
  <2>. QED BY <2>1, EnumerationAssumption DEF TypeOK
<1>7. list' \in Seq(SUBSET Resources)
  <2>1. CASE list' = list
    BY <2>1 DEF TypeOK
  <2>2. ASSUME NEW S, Collect(S), S \in SUBSET Resources
        PROVE  list' \in Seq(SUBSET Resources)
    BY <2>2, CollectFacts DEF TypeOK
  <2>3. CASE CapDevice \/ CapDeviceUnlinked
    BY <2>2, <2>3, HereTyped, KindNames DEF CapDevice, CapDeviceUnlinked
  <2>4. CASE CapFormat \/ PlayFormat
    BY <2>1, <2>2, <2>4, HereTyped, KindNames
       DEF CapFormat, PlayFormat, FormatItem
  <2>5. CASE \E kind \in Kinds : ArrayItem(kind)
    BY <2>1, <2>2, <2>5, HereTyped DEF ArrayItem
  <2>6. CASE PlayDevice
    BY <2>2, <2>6, HereTyped, KindNames DEF PlayDevice
  <2>. QED
    BY StepCases, <2>1, <2>3, <2>4, <2>5, <2>6
       DEF CapDevicesCall, CapDevicesOpen, CapDeviceUnnamed, CapDevicesClose,
           FormatsCall, CapFormatsStream, PlayFormatsStream,
           CapFormatNoHandler, FormatsClose, ArrayCall, ArrayReturn,
           PlayDevicesReturn, CopyOut, Unwind, FreeResult
<1>8. refs' \in [Resources -> Int]
  <2>1. CASE refs' = refs
    BY <2>1 DEF TypeOK
  <2>2. ASSUME NEW S, refs' = Added(S) \/ refs' = Dropped(S)
        PROVE  refs' \in [Resources -> Int]
    BY <2>2, RefsFacts DEF TypeOK
  <2>. QED
    BY StepCases, <2>1, <2>2
       DEF CapDevicesCall, CapDevicesOpen, CapDevice, CapDeviceUnnamed,
           CapDeviceUnlinked, CapDevicesClose, FormatsCall, CapFormatsStream,
           PlayFormatsStream, CapFormat, PlayFormat, CapFormatNoHandler,
           FormatsClose, ArrayCall, ArrayItem, ArrayReturn, PlayDevice,
           PlayDevicesReturn, CopyOut, Unwind, FreeResult, UnwindEntries,
           FormatItem
<1>9. result' \in SUBSET Resources
  BY StepCases, ListedTyped
     DEF TypeOK, CapDevicesCall, CapDevicesOpen, CapDevice, CapDeviceUnnamed,
         CapDeviceUnlinked, CapDevicesClose, FormatsCall, CapFormatsStream,
         PlayFormatsStream, CapFormat, PlayFormat, CapFormatNoHandler,
         FormatsClose, ArrayCall, ArrayItem, ArrayReturn, PlayDevice,
         PlayDevicesReturn, CopyOut, Unwind, FreeResult
<1>10. failed' \in SUBSET Steps
  BY StepCases
     DEF TypeOK, CapDevicesCall, CapDevicesOpen, CapDevice, CapDeviceUnnamed,
         CapDeviceUnlinked, CapDevicesClose, FormatsCall, CapFormatsStream,
         PlayFormatsStream, CapFormat, PlayFormat, CapFormatNoHandler,
         FormatsClose, ArrayCall, ArrayItem, ArrayReturn, PlayDevice,
         PlayDevicesReturn, CopyOut, Unwind, FreeResult,
         FormatsStream, FormatItem, Succeed, Fail, Steps
<1>. QED BY <1>1, <1>2, <1>3, <1>4, <1>5, <1>6, <1>7, <1>8, <1>9, <1>10
     DEF TypeOK
LEMMA Numbers ==
    ASSUME TypeOK
    PROVE  /\ round \in Int /\ rounds \in Int /\ item \in Int /\ count \in Int
           /\ Listed \subseteq Resources
           /\ \A r \in Listed : r[2] \in Int /\ r[3] \in Int
<1>1. Listed \subseteq Resources
  BY ListedTyped DEF TypeOK
<1>2. \A r \in Listed : r[2] \in Int /\ r[3] \in Int
  BY <1>1, KindNames
<1>. QED BY <1>1, <1>2 DEF TypeOK

(* An entry of the current item: the loops pass it when they collect it.   *)
LEMMA EntryPasses ==
    ASSUME TypeOK, PassedInv, pc = "item", item <= count,
           NEW S \in SUBSET Resources, Collect(S),
           \A r \in S : r[2] = round /\ r[3] = item,
           pc' = pc, round' = round, item' = item + 1
    PROVE  PassedInv'
<1>1. Listed' = Listed \cup S
  BY CollectFacts DEF TypeOK
<1>. QED BY <1>1, Numbers DEF PassedInv, Passed

LEMMA PassedStep == ASSUME TypeOK, PassedInv, Next PROVE PassedInv'
<1>1. Numbers!2
  BY Numbers
<1>2. ASSUME NEW kind \in Kinds
      PROVE  Here(kind)[2] = round /\ Here(kind)[3] = item
  BY DEF Here
<1>3. CASE pc' \notin {"call", "round", "item", "close"}
  BY <1>3 DEF PassedInv
<1>4. CASE CapDevicesCall \/ FormatsCall
  <2>1. Listed' = {}
    BY <1>4, RangeEmpty, ListKept
       DEF CapDevicesCall, FormatsCall, PassedInv, Listed
  <2>. QED BY <1>4, <2>1 DEF PassedInv, CapDevicesCall, FormatsCall
<1>5. CASE fn \in ArrayFunctions \cup {"playDevices"} /\ ArrayCall
  <2>1. Listed' = {}
    BY <1>5, RangeEmpty, ListKept DEF ArrayCall, PassedInv, Listed
  <2>. QED BY <1>5, <2>1 DEF PassedInv, ArrayCall
<1>6. CASE CapDevicesOpen \/ CapFormatsStream \/ PlayFormatsStream
  BY <1>1, <1>6, ListKept
     DEF PassedInv, Passed, CapDevicesOpen, CapFormatsStream,
         PlayFormatsStream, FormatsStream
<1>7. CASE CapDeviceUnnamed
  BY <1>7, ListKept DEF PassedInv, Passed, CapDeviceUnnamed, loopVars
<1>8. CASE CapDevicesClose \/ FormatsClose
  BY <1>1, <1>8, ListKept
     DEF PassedInv, Passed, CapDevicesClose, FormatsClose, NextRound
<1>9. CASE CapDevice
  BY <1>2, <1>9, HereTyped, KindNames, EntryPasses DEF CapDevice
<1>10. CASE CapDeviceUnlinked
  BY <1>2, <1>10, HereTyped, KindNames, EntryPasses DEF CapDeviceUnlinked
<1>11. CASE CapFormat \/ PlayFormat
  <2>1. CASE Collect({Here("format")}) /\ item' = item + 1 /\ pc' = pc
    BY <1>2, <1>11, <2>1, HereTyped, KindNames, EntryPasses
       DEF CapFormat, PlayFormat, FormatItem
  <2>. QED
    BY <1>11, <2>1, ListKept
       DEF CapFormat, PlayFormat, FormatItem, PassedInv, Passed
<1>12. CASE \E kind \in Kinds : ArrayItem(kind)
  <2>1. PICK kind \in Kinds : ArrayItem(kind)
    BY <1>12
  <2>2. CASE Collect({Here(kind)}) /\ item' = item + 1 /\ pc' = pc
    BY <1>2, <2>1, <2>2, HereTyped, EntryPasses DEF ArrayItem
  <2>. QED BY <1>3, <2>1, <2>2 DEF ArrayItem
<1>13. CASE PlayDevice
  <2>1. PICK S \in SUBSET {Here("endpoint"), Here("name"),
                           Here("description")} : Collect(S)
    BY <1>13 DEF PlayDevice
  <2>. QED
    BY <1>2, <1>13, <2>1, HereTyped, KindNames, EntryPasses DEF PlayDevice
<1>. QED
  BY StepCases, <1>3, <1>4, <1>5, <1>6, <1>7, <1>8, <1>9, <1>10, <1>11,
     <1>12, <1>13
     DEF CapFormatNoHandler, ArrayReturn, PlayDevicesReturn, CopyOut, Unwind,
         UnwindEntries, FreeResult

(* Outcome and place.                                                      *)
LEMMA OutcomeStep ==
    ASSUME TypeOK, PassedInv, OutcomeInv, Next
    PROVE  OutcomeInv'
<1>1. ASSUME pc' \in {"call", "round", "copy", "freed"} PROVE ok'
  BY <1>1, StepCases
     DEF OutcomeInv, TypeOK, CapDevicesCall, CapDevicesOpen, CapDevice,
         CapDeviceUnnamed, CapDeviceUnlinked, CapDevicesClose, FormatsCall,
         CapFormatsStream, PlayFormatsStream, CapFormat, PlayFormat,
         CapFormatNoHandler, FormatsClose, ArrayCall, ArrayItem, ArrayReturn,
         PlayDevice, PlayDevicesReturn, CopyOut, Unwind, FreeResult,
         UnwindEntries, NextRound, FormatsStream, FormatItem, Succeed, Fail
<1>2. pc' \in {"close", "unwind"} => ~ok'
  BY StepCases
     DEF OutcomeInv, TypeOK, CapDevicesCall, CapDevicesOpen, CapDevice,
         CapDeviceUnnamed, CapDeviceUnlinked, CapDevicesClose, FormatsCall,
         CapFormatsStream, PlayFormatsStream, CapFormat, PlayFormat,
         CapFormatNoHandler, FormatsClose, ArrayCall, ArrayItem, ArrayReturn,
         PlayDevice, PlayDevicesReturn, CopyOut, Unwind, FreeResult,
         UnwindEntries, NextRound, FormatsStream, FormatItem, Succeed, Fail
<1>3. pc' \in {"round", "close", "copy", "unwind"} => fn' # "playDevices"
  BY StepCases, SameFunction
     DEF OutcomeInv, TypeOK, CapDevicesCall, CapDevicesOpen, CapDevice,
         CapDeviceUnnamed, CapDeviceUnlinked, CapDevicesClose, FormatsCall,
         CapFormatsStream, PlayFormatsStream, CapFormat, PlayFormat,
         CapFormatNoHandler, FormatsClose, ArrayCall, ArrayItem, ArrayReturn,
         PlayDevice, PlayDevicesReturn, CopyOut, Unwind, FreeResult,
         UnwindEntries, NextRound, FormatsStream, FormatItem, ArrayFunctions
<1>4. pc' \notin {"returned", "freed"} => result' = {}
  BY StepCases
     DEF OutcomeInv, TypeOK, CapDevicesCall, CapDevicesOpen, CapDevice,
         CapDeviceUnnamed, CapDeviceUnlinked, CapDevicesClose, FormatsCall,
         CapFormatsStream, PlayFormatsStream, CapFormat, PlayFormat,
         CapFormatNoHandler, FormatsClose, ArrayCall, ArrayItem, ArrayReturn,
         PlayDevice, PlayDevicesReturn, CopyOut, Unwind, FreeResult,
         UnwindEntries, NextRound, FormatsStream, FormatItem
<1>5. pc' \in {"returned", "freed"} /\ ok' => result' = Listed'
  <2>1. pc = "call" => Listed = {}
    BY RangeEmpty DEF PassedInv, Listed
  <2>. QED
    BY <2>1, StepCases, ListKept
     DEF OutcomeInv, TypeOK, CapDevicesCall, CapDevicesOpen, CapDevice,
         CapDeviceUnnamed, CapDeviceUnlinked, CapDevicesClose, FormatsCall,
         CapFormatsStream, PlayFormatsStream, CapFormat, PlayFormat,
         CapFormatNoHandler, FormatsClose, ArrayCall, ArrayItem, ArrayReturn,
         PlayDevice, PlayDevicesReturn, CopyOut, Unwind, FreeResult,
         UnwindEntries, NextRound, FormatsStream, FormatItem, Fail
<1>. QED BY <1>1, <1>2, <1>3, <1>4, <1>5 DEF OutcomeInv
(* What is reported.                                                       *)
LEMMA HiddenNames ==
    /\ fn = "capDevices" => "link" \in HiddenFailures
    /\ fn = "playDevices" =>
          {"endpoint", "description"} \subseteq HiddenFailures
    /\ fn = "capFormats" => HiddenFailures = {"count"}
BY DEF HiddenFailures

LEMMA HiddenStep ==
    ASSUME TypeOK, OutcomeInv, HiddenInv, Next
    PROVE  HiddenInv'
<1>1. fn' = fn /\ HiddenFailures' = HiddenFailures
  BY SameFunction
<1>2. ASSUME ok' PROVE failed' \subseteq HiddenFailures
  BY <1>2, StepCases
     DEF OutcomeInv, HiddenInv, TypeOK, CapDevicesCall, CapDevicesOpen,
         CapDevice, CapDeviceUnnamed, CapDeviceUnlinked, CapDevicesClose,
         FormatsCall, CapFormatsStream, PlayFormatsStream, CapFormat,
         PlayFormat, CapFormatNoHandler, FormatsClose, ArrayCall, ArrayItem,
         ArrayReturn, PlayDevice, PlayDevicesReturn, CopyOut, Unwind,
         FreeResult, FormatsStream, FormatItem, Succeed, Fail, ArrayFunctions
<1>3. ASSUME pc' = "item", handler' \/ fn # "capFormats"
      PROVE  failed' \subseteq HiddenFailures
  BY <1>2, <1>3, StepCases, HiddenNames
     DEF OutcomeInv, HiddenInv, TypeOK, CapDevicesCall, CapDevicesOpen,
         CapDevice, CapDeviceUnnamed, CapDeviceUnlinked, CapDevicesClose,
         FormatsCall, CapFormatsStream, PlayFormatsStream, CapFormat,
         PlayFormat, CapFormatNoHandler, FormatsClose, ArrayCall, ArrayItem,
         ArrayReturn, PlayDevice, PlayDevicesReturn, CopyOut, Unwind,
         UnwindEntries, FreeResult, FormatsStream, FormatItem, Succeed, Fail,
         NextRound, ArrayFunctions, loopVars
<1>. QED BY <1>1, <1>2, <1>3 DEF HiddenInv

LEMMA CountStep ==
    ASSUME TypeOK, PassedInv, OutcomeInv, HiddenInv, CountInv, Next
    PROVE  CountInv'
<1>1. fn' = fn
  BY SameFunction
<1>2. fault' => pc' = "crashed"
  BY StepCases
     DEF CountInv, CapDevicesCall, CapDevicesOpen, CapDevice,
         CapDeviceUnnamed, CapDeviceUnlinked, CapDevicesClose, FormatsCall,
         CapFormatsStream, PlayFormatsStream, CapFormat, PlayFormat,
         CapFormatNoHandler, FormatsClose, ArrayCall, ArrayItem, ArrayReturn,
         PlayDevice, PlayDevicesReturn, CopyOut, Unwind, UnwindEntries,
         FreeResult, FormatsStream, FormatItem
<1>3. pc' # "call"
  BY StepCases
     DEF CapDevicesCall, CapDevicesOpen, CapDevice, CapDeviceUnnamed,
         CapDeviceUnlinked, CapDevicesClose, FormatsCall, CapFormatsStream,
         PlayFormatsStream, CapFormat, PlayFormat, CapFormatNoHandler,
         FormatsClose, ArrayCall, ArrayItem, ArrayReturn, PlayDevice,
         PlayDevicesReturn, CopyOut, Unwind, UnwindEntries, FreeResult,
         FormatsStream, FormatItem, NextRound
<1>. SUFFICES ASSUME fn = "capFormats", pc' \in {"round", "item"}
              PROVE  /\ pc' = "round" /\ count' > 0 => EarlierListed'
                     /\ pc' = "item" /\ handler' /\ item' > 1 => Listed' # {}
                     /\ pc' = "item" /\ ~handler' =>
                           /\ "descriptor" \in failed'
                           /\ count' > 0 => EarlierListed'
  BY <1>1, <1>2, <1>3 DEF CountInv
<1>4. CASE FormatsCall
  BY <1>4 DEF FormatsCall, CountInv, Fail
<1>5. CASE CapFormatsStream
  <2>1. Listed' = Listed /\ round' = round
    BY <1>5, ListKept DEF CapFormatsStream, FormatsStream
  <2>. QED
    BY <1>5, <2>1
       DEF CapFormatsStream, FormatsStream, CountInv, EarlierListed, Fail
<1>6. CASE CapFormat
  <2>1. CASE Collect({Here("format")})
    <3>1. Listed' = Listed \cup {Here("format")}
      BY <1>6, <2>1, CollectFacts, HereTyped, KindNames
         DEF TypeOK, CapFormat, FormatItem
    <3>. QED BY <1>6, <3>1 DEF CapFormat, FormatItem
  <2>. QED BY <1>6, <2>1 DEF CapFormat, FormatItem
<1>7. CASE FormatsClose
  <2>1. ok /\ pc = "item" /\ item > count /\ round < rounds
        /\ pc' = "round" /\ round' = round + 1
    BY <1>7 DEF FormatsClose, NextRound, OutcomeInv
  <2>2. handler
    BY <2>1, HiddenNames DEF HiddenInv, CountInv
  <2>3. ASSUME count > 0 PROVE \E r \in Listed : r[2] < round + 1
    <3>1. Listed # {}
      BY <2>1, <2>2, <2>3, Numbers DEF CountInv
    <3>. QED BY <2>1, <3>1, Numbers DEF PassedInv, Passed
  <2>. QED BY <1>7, <2>1, <2>3, ListKept DEF FormatsClose, EarlierListed
<1>. QED
  BY StepCases, <1>4, <1>5, <1>6, <1>7
     DEF CapDevicesCall, CapDevicesOpen, CapDevice, CapDeviceUnnamed,
         CapDeviceUnlinked, CapDevicesClose, PlayFormatsStream, PlayFormat,
         CapFormatNoHandler, PlayDevice, PlayDevicesReturn, CopyOut, Unwind,
         UnwindEntries, FreeResult, ArrayFunctions
(* Who owns what.  Nothing is freed while listed, and nothing opened per   *)
(* round, but by MFCap_EnumDevices.                                        *)
LEMMA OtherFunctions ==
    ASSUME fn # "capDevices"
    PROVE  Dangling = {} /\ OpenHere = {}
BY DEF Dangling, OpenHere

(* The current item has not been listed.                                   *)
LEMMA HereFresh ==
    ASSUME TypeOK, PassedInv, pc = "item"
    PROVE  \A kind \in Kinds : Here(kind) \notin Listed
<1>1. ASSUME NEW kind \in Kinds, Here(kind) \in Listed PROVE FALSE
  <2>1. Passed(Here(kind))
    BY <1>1 DEF PassedInv
  <2>. QED BY <2>1, Numbers DEF Passed, Here
<1>. QED BY <1>1

(* An entry collected with a reference to all it points to.                *)
LEMMA EntryHeld ==
    ASSUME TypeOK, PassedInv, HeldInv, fn # "capDevices", fn' = fn,
           pc = "item", pc' = "item", item <= count,
           NEW K \in SUBSET Kinds,
           Collect({Here(kind) : kind \in K}),
           refs' = Added({Here(kind) : kind \in K})
    PROVE  HeldInv'
<1>. DEFINE S == {Here(kind) : kind \in K}
<1>1. S \in SUBSET Resources
  BY HereTyped
<1>2. Listed' = Listed \cup S
  BY <1>1, CollectFacts DEF TypeOK
<1>3. S \cap Listed = {}
  BY HereFresh
<1>4. Dangling = {} /\ OpenHere = {} /\ Dangling' = {} /\ OpenHere' = {}
  BY OtherFunctions DEF Dangling, OpenHere
<1>. HIDE DEF S
<1>5. \A r \in Resources : refs[r] = IF r \in Listed THEN 1 ELSE 0
  BY <1>4 DEF HeldInv
<1>6. \A r \in Resources : refs'[r] = IF r \in S THEN refs[r] + 1 ELSE refs[r]
  BY RefsFacts DEF S, TypeOK
<1>7. \A r \in Resources : refs'[r] = IF r \in Listed' THEN 1 ELSE 0
  BY <1>2, <1>3, <1>5, <1>6
<1>. QED BY <1>4, <1>7 DEF HeldInv

(* A step that neither collects nor releases.                              *)
LEMMA NothingHeld ==
    ASSUME HeldInv, pc \notin {"returned", "freed", "crashed"},
           fn' = fn, list' = list, refs' = refs, OpenHere' = OpenHere
    PROVE  HeldInv'
<1>1. Listed' = Listed /\ Dangling' = Dangling
  BY ListKept DEF Dangling
<1>. QED BY <1>1 DEF HeldInv

(* The steps of MFCap_EnumDevices.                                         *)
LEMMA CapDevicesHeld ==
    ASSUME TypeOK, PassedInv, HeldInv, CapDevicesStep
    PROVE  HeldInv'
<1>. DEFINE open == {OfRound("attributes"), OfRound("activates")}
<1>1. fn = "capDevices" /\ fn' = fn
  BY DEF CapDevicesStep, CapDevicesCall, CapDevicesOpen, CapDevice,
         CapDeviceUnnamed, CapDeviceUnlinked, CapDevicesClose
<1>2. /\ \A r \in Listed : r[1] \in {"name", "link"}
      /\ pc \notin {"returned", "freed", "crashed"} =>
           \A r \in Resources :
              refs[r] = IF r \in (Listed \ Dangling) \cup OpenHere
                        THEN 1 ELSE 0
  BY <1>1 DEF HeldInv
<1>3. open \cap Listed = {} /\ open \in SUBSET Resources
  BY <1>2, HereTyped, KindNames DEF OfRound
<1>4. CASE CapDevicesCall
  BY <1>1, <1>4, NothingHeld DEF CapDevicesCall, OpenHere
<1>5. CASE CapDevicesOpen
  <2>1. CASE pc' = "unwind" /\ refs' = refs
    BY <1>1, <1>5, <2>1, NothingHeld DEF CapDevicesOpen, OpenHere
  <2>2. CASE pc' = "item" /\ refs' = Added(open)
    <3>1. Listed' = Listed /\ Dangling' = Dangling /\ OpenHere = {}
          /\ OpenHere' = open
      BY <1>1, <1>5, <2>2, ListKept
         DEF CapDevicesOpen, Dangling, OpenHere, OfRound
    <3>2. \A r \in Resources :
             refs'[r] = IF r \in open THEN refs[r] + 1 ELSE refs[r]
      BY <2>2, RefsFacts DEF TypeOK
    <3>. HIDE DEF open
    <3>3. \A r \in Resources :
             refs'[r] = IF r \in (Listed \ Dangling) \cup open THEN 1 ELSE 0
      BY <1>2, <1>3, <1>5, <3>1, <3>2 DEF CapDevicesOpen
    <3>. QED BY <1>2, <3>1, <3>3 DEF HeldInv
  <2>. QED BY <1>5, <2>1, <2>2 DEF CapDevicesOpen
<1>6. CASE CapDeviceUnnamed
  BY <1>1, <1>6, NothingHeld
     DEF CapDeviceUnnamed, OpenHere, OfRound, loopVars
<1>7. CASE CapDevice
  <2>. DEFINE S == {Here("name"), Here("link")}
  <2>1. pc = "item" /\ pc' = pc /\ round' = round /\ item <= count
        /\ S \in SUBSET Resources /\ refs' = Added(S)
    BY <1>7, HereTyped, KindNames DEF CapDevice
  <2>2. Listed' = Listed \cup S
    BY <1>7, <2>1, CollectFacts DEF CapDevice, TypeOK
  <2>3. S \cap Listed = {}
    BY <2>1, HereFresh, KindNames
  <2>4. Dangling' = Dangling
    <3>1. ASSUME NEW r \in Listed
          PROVE  r \in Dangling' <=> r \in Dangling
      <4>1. r[1] = "name" => <<"link", r[2], r[3]>> \notin S
        <5>1. CASE r[1] = "name" /\ <<"link", r[2], r[3]>> \in S
          <6>1. r[2] = round /\ r[3] = item
            BY <5>1 DEF Here
          <6>2. r = Here("name")
            BY <3>1, <5>1, <6>1, Numbers, KindNames DEF Here
          <6>. QED BY <2>3, <3>1, <6>2
        <5>. QED BY <5>1
      <4>. QED BY <1>1, <2>2, <3>1, <4>1 DEF Dangling
    <3>2. Here("name") \notin Dangling' /\ Here("link") \notin Dangling'
      BY <1>1, <2>2 DEF Dangling, Here
    <3>3. Dangling \subseteq Listed /\ Dangling' \subseteq Listed \cup S
      BY <1>1, <2>2 DEF Dangling
    <3>. QED BY <3>1, <3>2, <3>3
  <2>5. OpenHere' = OpenHere /\ OpenHere = open
    BY <1>1, <2>1 DEF OpenHere, OfRound
  <2>6. open \cap S = {}
    BY DEF OfRound, Here
  <2>7. \A r \in Resources :
           refs'[r] = IF r \in S THEN refs[r] + 1 ELSE refs[r]
    <3>1. refs \in [Resources -> Int] /\ refs' = Added(S)
      BY <2>1 DEF TypeOK
    <3>. HIDE DEF S
    <3>. QED BY <3>1, RefsFacts
  <2>8. \A r \in S : r[1] \in {"name", "link"}
    BY DEF Here
  <2>9. Dangling \subseteq Listed
    BY <1>1 DEF Dangling
  <2>. HIDE DEF S, open
  <2>10. \A r \in Resources :
           refs'[r] = IF r \in (Listed' \ Dangling') \cup OpenHere'
                      THEN 1 ELSE 0
    BY <1>2, <2>1, <2>2, <2>3, <2>4, <2>5, <2>6, <2>7, <2>9
  <2>. QED BY <1>2, <2>2, <2>8, <2>10 DEF HeldInv
<1>8. CASE CapDeviceUnlinked
  <2>. DEFINE S == {Here("name")}
  <2>1. pc = "item" /\ pc' = pc /\ round' = round /\ item <= count
        /\ S \in SUBSET Resources /\ refs' = refs
    BY <1>8, HereTyped, KindNames DEF CapDeviceUnlinked
  <2>2. Listed' = Listed \cup S
    BY <1>8, <2>1, CollectFacts DEF CapDeviceUnlinked, TypeOK
  <2>3. Here("name") \notin Listed /\ Here("link") \notin Listed
    BY <2>1, HereFresh, KindNames
  <2>4. Dangling' = Dangling \cup S
    <3>1. ASSUME NEW r \in Listed
          PROVE  r \in Dangling' <=> r \in Dangling
      <4>1. <<"link", r[2], r[3]>> # Here("name")
        BY DEF Here
      <4>. QED BY <1>1, <2>2, <3>1, <4>1 DEF Dangling
    <3>2. Here("name") \in Dangling'
      BY <1>1, <2>2, <2>3 DEF Dangling, Here
    <3>3. Dangling \subseteq Listed /\ Dangling' \subseteq Listed \cup S
      BY <1>1, <2>2 DEF Dangling
    <3>. QED BY <3>1, <3>2, <3>3
  <2>5. OpenHere' = OpenHere
    BY <1>1, <2>1 DEF OpenHere, OfRound
  <2>6. (Listed' \ Dangling') = Listed \ Dangling
    BY <2>2, <2>3, <2>4
  <2>7. \A r \in S : r[1] \in {"name", "link"}
    BY DEF Here
  <2>. QED BY <1>2, <2>1, <2>2, <2>5, <2>6, <2>7 DEF HeldInv
<1>9. CASE CapDevicesClose
  <2>1. Listed' = Listed /\ Dangling' = Dangling /\ OpenHere = open
        /\ OpenHere' = {} /\ refs' = Dropped(open)
        /\ pc \notin {"returned", "freed", "crashed"}
    BY <1>1, <1>9, ListKept
       DEF CapDevicesClose, NextRound, Dangling, OpenHere
  <2>2. \A r \in Resources :
           refs'[r] = IF r \in open THEN refs[r] - 1 ELSE refs[r]
    BY <2>1, RefsFacts DEF TypeOK
  <2>. HIDE DEF open
  <2>3. \A r \in Resources :
           refs'[r] = IF r \in (Listed \ Dangling) THEN 1 ELSE 0
    BY <1>2, <1>3, <2>1, <2>2
  <2>. QED BY <1>2, <2>1, <2>3 DEF HeldInv
<1>. QED BY <1>4, <1>5, <1>6, <1>7, <1>8, <1>9 DEF CapDevicesStep
LEMMA HeldStep ==
    ASSUME TypeOK, PassedInv, HeldInv, OutcomeInv, Next
    PROVE  HeldInv'
<1>1. fn' = fn
  BY SameFunction
<1>2. CASE pc' \in {"returned", "freed", "crashed"} /\ list' = list
  BY <1>1, <1>2, ListKept DEF HeldInv
<1>3. CASE CapDevicesStep
  BY <1>3, CapDevicesHeld
<1>4. CASE CopyOut
  BY <1>1, <1>2, <1>4, NothingHeld DEF CopyOut, OpenHere
<1>5. ASSUME fn # "capDevices", list' = list, refs' = refs,
             pc \notin {"returned", "freed", "crashed"}
      PROVE  HeldInv'
  <2>1. OpenHere' = OpenHere
    BY <1>1, <1>5 DEF OpenHere
  <2>. QED BY <1>1, <1>5, <2>1, NothingHeld
<1>6. CASE FormatsCall \/ CapFormatsStream \/ PlayFormatsStream \/ FormatsClose
  BY <1>5, <1>6
     DEF FormatsCall, CapFormatsStream, PlayFormatsStream, FormatsStream,
         FormatsClose
<1>7. CASE fn \in ArrayFunctions \cup {"playDevices"} /\ ArrayCall
  BY <1>5, <1>7 DEF ArrayFunctions, ArrayCall
<1>8. CASE CapFormat \/ PlayFormat
  <2>1. CASE list' = list /\ refs' = refs
    BY <1>5, <1>8, <2>1 DEF CapFormat, PlayFormat, FormatItem
  <2>2. CASE Collect({Here("format")}) /\ refs' = Added({Here("format")})
             /\ pc' = pc
    <3>. DEFINE K == {"format"}
    <3>1. {Here(kind) : kind \in K} = {Here("format")} /\ K \in SUBSET Kinds
      BY KindNames
    <3>2. fn # "capDevices" /\ pc = "item" /\ item <= count
      BY <1>8 DEF CapFormat, PlayFormat, FormatItem
    <3>. HIDE DEF K
    <3>. QED BY <1>1, <2>2, <3>1, <3>2, EntryHeld
  <2>. QED
    BY <1>8, <2>1, <2>2 DEF CapFormat, PlayFormat, FormatItem
<1>9. CASE fn \in ArrayFunctions /\ \E kind \in Kinds : ArrayItem(kind)
  <2>1. PICK kind \in Kinds : ArrayItem(kind)
    BY <1>9
  <2>2. fn # "capDevices" /\ pc = "item" /\ item <= count
    BY <1>9, <2>1 DEF ArrayItem, ArrayFunctions
  <2>3. CASE list' = list /\ refs' = refs
    BY <1>5, <2>1, <2>2, <2>3 DEF ArrayItem
  <2>4. CASE Collect({Here(kind)}) /\ refs' = Added({Here(kind)}) /\ pc' = pc
    <3>. DEFINE K == {kind}
    <3>1. {Here(k) : k \in K} = {Here(kind)} /\ K \in SUBSET Kinds
      OBVIOUS
    <3>. HIDE DEF K
    <3>. QED BY <1>1, <2>2, <2>4, <3>1, EntryHeld
  <2>. QED BY <2>1, <2>3, <2>4 DEF ArrayItem
<1>10. CASE PlayDevice
  <2>1. PICK S \in SUBSET {Here("endpoint"), Here("name"),
                           Here("description")} :
           Collect(S) /\ refs' = Added(S)
    BY <1>10 DEF PlayDevice
  <2>2. fn # "capDevices" /\ pc = "item" /\ pc' = pc /\ item <= count
    BY <1>10 DEF PlayDevice
  <2>. DEFINE K == {k \in Kinds : Here(k) \in S}
  <2>3. {Here(k) : k \in K} = S
    BY KindNames
  <2>. HIDE DEF K
  <2>4. K \in SUBSET Kinds
    BY DEF K
  <2>. QED BY <1>1, <2>1, <2>2, <2>3, <2>4, EntryHeld
<1>. QED
  BY StepCases, <1>2, <1>3, <1>4, <1>6, <1>7, <1>8, <1>9, <1>10
     DEF CapDevicesStep, CapFormatNoHandler, ArrayReturn, PlayDevicesReturn,
         Unwind, UnwindEntries, FreeResult

(* What the call leaves, and what the caller frees.                        *)
LEMMA OwnedStep ==
    ASSUME TypeOK, PassedInv, HeldInv, OutcomeInv, OwnedByCaller, Next
    PROVE  OwnedByCaller'
<1>1. fn' = fn
  BY SameFunction
<1>2. ASSUME list' = list
      PROVE  Listed' = Listed /\ Dangling' = Dangling
  BY <1>1, <1>2, ListKept DEF Dangling
<1>3. Dangling \subseteq Listed /\ Leaked \subseteq Listed
  BY DEF Dangling, Leaked
<1>4. ASSUME pc \in {"call", "copy", "unwind"}
             \/ (pc = "item" /\ fn # "capDevices")
      PROVE  \A r \in Resources :
                refs[r] = IF r \in Listed \ Dangling THEN 1 ELSE 0
  BY <1>4 DEF HeldInv, OpenHere
<1>5. CASE fn \in ArrayFunctions \cup {"playDevices"} /\ ArrayCall
  <2>1. /\ Listed = {} /\ Listed' = {} /\ result' = {} /\ refs' = refs
        /\ pc = "call"
    BY <1>2, <1>5, RangeEmpty DEF ArrayCall, PassedInv, OutcomeInv, Listed
  <2>2. Leaked' = {} /\ Dangling' = {}
    BY <2>1 DEF Leaked, Dangling
  <2>. QED BY <1>4, <2>1, <2>2 DEF OwnedByCaller
<1>6. CASE fn \in ArrayFunctions /\ ArrayReturn
  <2>1. Dangling = {} /\ Dangling' = {} /\ Leaked' = {} /\ pc = "item"
        /\ pc' = "returned" /\ refs' = refs /\ result' = Listed
        /\ fn # "capDevices"
    BY <1>1, <1>6 DEF Dangling, Leaked, ArrayFunctions, ArrayReturn
  <2>. QED BY <1>4, <2>1 DEF OwnedByCaller
<1>7. CASE PlayDevicesReturn
  <2>1. Dangling = {} /\ Dangling' = {} /\ pc = "item"
        /\ pc' = "returned" /\ refs' = refs /\ fn # "capDevices"
        /\ result' = (IF ok THEN Listed ELSE {})
        /\ Leaked' = IF ok THEN {} ELSE Listed
    BY <1>1, <1>2, <1>7 DEF Dangling, Leaked, PlayDevicesReturn
  <2>. QED BY <1>4, <2>1 DEF OwnedByCaller
<1>8. CASE CopyOut
  <2>1. CASE pc' = "returned"
    <3>1. Listed' = Listed /\ Dangling' = Dangling /\ Leaked' = {}
          /\ result' = Listed /\ refs' = refs /\ ok' /\ pc = "copy"
      BY <1>1, <1>2, <1>8, <2>1 DEF CopyOut, Succeed, Leaked
    <3>. QED BY <1>3, <1>4, <2>1, <3>1 DEF OwnedByCaller
  <2>. QED BY <1>8, <2>1 DEF CopyOut, OwnedByCaller
<1>9. CASE Unwind
  <2>1. /\ Listed' = Listed /\ Dangling' = Dangling /\ Leaked' = {}
        /\ result' = {} /\ refs' = Dropped(Listed) /\ ~ok' /\ pc = "unwind"
        /\ pc' = "returned"
    BY <1>1, <1>2, <1>9 DEF Unwind, UnwindEntries, OutcomeInv, Leaked
  <2>2. \A r \in Resources :
           refs'[r] = IF r \in Listed THEN refs[r] - 1 ELSE refs[r]
    BY <2>1, RefsFacts DEF TypeOK
  <2>. QED BY <1>3, <1>4, <2>1, <2>2 DEF OwnedByCaller
<1>10. CASE FreeResult
  <2>1. /\ Listed' = Listed /\ Dangling' = Dangling
        /\ Leaked' = {} /\ Leaked = {}
        /\ result = Listed /\ refs' = Dropped(Listed) /\ ok
        /\ pc = "returned" /\ pc' = "freed"
    BY <1>1, <1>2, <1>10 DEF FreeResult, OutcomeInv, Leaked
  <2>2. \A r \in Resources :
           refs'[r] = IF r \in Listed THEN refs[r] - 1 ELSE refs[r]
    BY <2>1, RefsFacts DEF TypeOK
  <2>3. \A r \in Resources :
           refs[r] = IF r \in Dangling THEN 0
                     ELSE IF r \in Listed THEN 1 ELSE 0
    BY <2>1 DEF OwnedByCaller
  <2>. QED BY <1>3, <2>1, <2>2, <2>3 DEF OwnedByCaller
<1>11. CASE pc' \notin {"returned", "freed"}
  BY <1>11 DEF OwnedByCaller
<1>. QED
  BY StepCases, <1>5, <1>6, <1>7, <1>8, <1>9, <1>10, <1>11
     DEF CapDevicesCall, CapDevicesOpen, CapDevice, CapDeviceUnnamed,
         CapDeviceUnlinked, CapDevicesClose, FormatsCall, CapFormatsStream,
         PlayFormatsStream, CapFormat, PlayFormat, CapFormatNoHandler,
         FormatsClose, ArrayItem, PlayDevice, FormatsStream, FormatItem,
         NextRound

(* Failures are reported, and a null handler explained.                    *)
LEMMA ReportedStep ==
    ASSUME TypeOK, HiddenInv, CountInv, HiddenInv', CountInv', Next
    PROVE  FailuresReported'
<1>1. ASSUME fault'
      PROVE  /\ fn' = "capFormats" /\ "descriptor" \in failed'
             /\ \E r \in Listed' : r[2] < round'
  <2>1. pc' = "crashed"
    BY <1>1 DEF CountInv
  <2>2. CapFormatNoHandler
    BY <2>1, StepCases
       DEF CapDevicesCall, CapDevicesOpen, CapDevice, CapDeviceUnnamed,
           CapDeviceUnlinked, CapDevicesClose, FormatsCall, CapFormatsStream,
           PlayFormatsStream, CapFormat, PlayFormat, FormatsClose, ArrayCall,
           ArrayItem, ArrayReturn, PlayDevice, PlayDevicesReturn, CopyOut,
           Unwind, UnwindEntries, FreeResult, FormatsStream, FormatItem,
           NextRound
  <2>3. count > 0
    <3>1. item >= 1 /\ item <= count
      BY <2>2, EnumerationAssumption DEF TypeOK, CapFormatNoHandler
    <3>. QED BY <3>1, Numbers
  <2>4. "descriptor" \in failed /\ EarlierListed
    BY <2>2, <2>3 DEF CountInv, CapFormatNoHandler
  <2>. QED
    BY <2>2, <2>4, ListKept DEF CapFormatNoHandler, EarlierListed, loopVars
<1>. QED BY <1>1 DEF HiddenInv, FailuresReported

-----------------------------------------------------------------------------
LEMMA Invariance == Spec => []IInv
<1>1. ASSUME IInv, [Next]_vars PROVE IInv'
  <2>1. CASE Next
    <3>1. TypeOK' /\ PassedInv' /\ OutcomeInv'
      BY <1>1, <2>1, TypeStep, PassedStep, OutcomeStep DEF IInv
    <3>2. HiddenInv' /\ CountInv' /\ HeldInv'
      BY <1>1, <2>1, HiddenStep, CountStep, HeldStep DEF IInv
    <3>3. OwnedByCaller' /\ FailuresReported'
      BY <1>1, <2>1, <3>2, OwnedStep, ReportedStep DEF IInv
    <3>. QED BY <3>1, <3>2, <3>3 DEF IInv
  <2>2. CASE UNCHANGED vars
    BY <1>1, <2>2
       DEF IInv, TypeOK, PassedInv, Passed, HeldInv, OpenHere, OutcomeInv,
           HiddenInv, HiddenFailures, CountInv, EarlierListed, OwnedByCaller,
           FailuresReported, Listed, Dangling, Leaked, OfRound, vars, loopVars
  <2>. QED BY <1>1, <2>1, <2>2
<1>. QED BY InitInv, <1>1, PTL DEF Spec

(* For any number of rounds and items every variable keeps its type        *)
(* (mfcap.cpp, mfplay.cpp and mfgen.cpp: every index stays within its      *)
(* loop).                                                                  *)
THEOREM TypeCorrect == Spec => []TypeOK
BY Invariance, PTL DEF IInv

(* Whatever fails, what is owned after a call is what the caller was       *)
(* handed, but for names without a link (mfcap.cpp:444, 479) and strings   *)
(* after a failure of MFPlay_EnumDevices (mfplay.cpp:102-107).             *)
THEOREM Ownership == Spec => []OwnedByCaller
BY Invariance, PTL DEF IInv

(* A call that reports success hides no failure but those later entries    *)
(* hide, and a null handler is used only behind an earlier stream's count  *)
(* of formats (mfcap.cpp:144-157).                                         *)
THEOREM Reported == Spec => []FailuresReported
BY Invariance, PTL DEF IInv
=============================================================================

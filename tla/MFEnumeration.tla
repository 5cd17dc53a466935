---------------------------- MODULE MFEnumeration ----------------------------
(***************************************************************************)
(* The functions that hand their caller a list of things it must free:     *)
(*                                                                         *)
(*   capDevices   MFCap_EnumDevices       playDevices  MFPlay_EnumDevices  *)
(*   capFormats   MFCap_EnumMediaTypes    playFormats  MFPlay_EnumFormats  *)
(*   capNodes     MFCap_CreateStreamNodes                                  *)
(*   playNodes    MFPlay_CreateStreamNodes                                 *)
(*   properties   MFGen_GetProperties                                      *)
(*                                                                         *)
(* together with the functions that free the lists.  Each is a loop over   *)
(* calls of Media Foundation, any of which may fail; the question is who   *)
(* owns what afterwards.  One behaviour is one call.  An interface that is *)
(* acquired and released within one iteration whatever happens is left     *)
(* out; a call of Media Foundation that fails sets its result to NULL.     *)
(***************************************************************************)
EXTENDS Integers, Sequences, FiniteSets, Functions

CONSTANTS
    Rounds,       \* bound: kinds of device asked for, or streams of a device
    Items         \* bound: devices of a kind, formats of a stream, and so on

(* There are two kinds of device, so at least two rounds.                  *)
ASSUME EnumerationAssumption ==
    /\ Rounds \in Nat /\ Rounds >= 2
    /\ Items \in Nat /\ Items >= 1

CalledFunctions ==
    {"capDevices", "playDevices", "capFormats", "playFormats", "capNodes",
     "playNodes", "properties"}

Kinds == {"attributes", "activates", "name", "link", "endpoint",
          "description", "format", "node", "value"}

Resources == Kinds \X (1 .. Rounds) \X (1 .. Items)

Steps == {"open", "descriptor", "count", "item", "link", "endpoint",
          "description", "memory"}

VARIABLES
    fn,           \* the function called
    pc,           \* where it is
    round,        \* index of its outer loop
    rounds,       \* and the bound of that loop
    item,         \* index of its inner loop
    count,        \* and its bound, the variable deviceCount or typeCount
    handler,      \* the media type handler pointer is not NULL
    ok,           \* SUCCEEDED(ret)
    list,         \* entries collected: what each of them points to
    refs,         \* references, or allocations, outstanding
    result,       \* what the caller was handed
    failed,       \* the steps that failed
    fault         \* a null pointer was dereferenced

loopVars == <<round, rounds, item, count, handler>>

vars == <<fn, pc, loopVars, ok, list, refs, result, failed, fault>>

Init ==
    /\ fn \in CalledFunctions
    /\ pc = "call" /\ round = 1 /\ rounds = 0 /\ item = 1 /\ count = 0
    /\ handler = FALSE /\ ok = TRUE /\ list = << >>
    /\ refs = [r \in Resources |-> 0]
    /\ result = {} /\ failed = {} /\ fault = FALSE

(* The resource of the current entry.                                      *)
Here(kind) == <<kind, round, item>>

OfRound(kind) == <<kind, round, 1>>

Listed == UNION Range(list)

Added(S) == [r \in Resources |-> IF r \in S THEN refs[r] + 1 ELSE refs[r]]

Dropped(S) == [r \in Resources |-> IF r \in S THEN refs[r] - 1 ELSE refs[r]]

Succeed == ok' = TRUE /\ UNCHANGED failed

Fail(step) == ok' = FALSE /\ failed' = failed \cup {step}

Collect(S) == list' = Append(list, S)

(***************************************************************************)
(* What all of them do with the entries collected when something failed:   *)
(* give them up, one by one.                                               *)
(***************************************************************************)
UnwindNothing == pc = "unwind" /\ pc' = "returned" /\ UNCHANGED refs

UnwindEntries ==
    /\ pc = "unwind"
    /\ refs' = Dropped(Listed)
    /\ pc' = "returned"

Unwind ==
    /\ UnwindEntries
    /\ UNCHANGED <<fn, loopVars, ok, list, result, failed, fault>>

(* MFCap_EnumDevices, MFCap_EnumMediaTypes and MFPlay_EnumFormats copy     *)
(* what they collected into a block of memory allocated at the end.  The   *)
(* last two add a reference for the copy and drop that of the original.    *)
CopyOut ==
    /\ pc = "copy"
    /\ \/ /\ Succeed
          /\ result' = Listed
          /\ pc' = "returned"
       \/ /\ list # << >>
          /\ Fail("memory")
          /\ pc' = "unwind"
          /\ UNCHANGED result
    /\ UNCHANGED <<fn, loopVars, list, refs, fault>>

(* The end of an iteration of the outer loop.                              *)
NextRound ==
    IF ~ok THEN pc' = "unwind" /\ UNCHANGED round
    ELSE IF round < rounds THEN pc' = "round" /\ round' = round + 1
    ELSE pc' = "copy" /\ UNCHANGED round

(***************************************************************************)
(* MFCap_EnumDevices: video devices, audio devices, or both.               *)
(***************************************************************************)
CapDevicesCall ==
    /\ pc = "call" /\ fn = "capDevices"
    /\ rounds' \in {1, 2}
    /\ pc' = "round"
    /\ UNCHANGED <<fn, round, item, count, handler, ok, list, refs, result,
                   failed, fault>>

CapDevicesOpen ==
    /\ pc = "round" /\ fn = "capDevices"
    /\ \/ /\ Fail("open")
          /\ pc' = "unwind"
          /\ UNCHANGED <<item, count, refs>>
       \/ /\ Succeed
          /\ count' \in 0 .. Items
          /\ item' = 1
          /\ refs' = Added({OfRound("attributes"), OfRound("activates")})
          /\ pc' = "item"
    /\ UNCHANGED <<fn, round, rounds, handler, list, result, fault>>

CapDeviceUnnamed ==
    /\ pc = "item" /\ fn = "capDevices" /\ item <= count
    /\ Fail("item")
    /\ pc' = "close"
    /\ UNCHANGED <<fn, loopVars, list, refs, result, fault>>

CapDevice ==
    /\ pc = "item" /\ fn = "capDevices" /\ item <= count
    /\ Succeed
    /\ refs' = Added({Here("name"), Here("link")})
    /\ Collect({Here("name"), Here("link")})
    /\ item' = item + 1
    /\ UNCHANGED <<fn, pc, round, rounds, count, handler, result, fault>>

(* No symbolic link: the name is freed, the entry that points to it is     *)
(* collected all the same, and the loop goes on.                           *)
CapDeviceUnlinked ==
    /\ pc = "item" /\ fn = "capDevices" /\ item <= count
    /\ Fail("link")
    /\ Collect({Here("name")})
    /\ item' = item + 1
    /\ UNCHANGED <<fn, pc, round, rounds, count, handler, refs, result, fault>>

CapDevicesClose ==
    /\ fn = "capDevices" /\ (pc = "close" \/ (pc = "item" /\ item > count))
    /\ refs' = Dropped({OfRound("attributes"), OfRound("activates")})
    /\ NextRound
    /\ UNCHANGED <<fn, rounds, item, count, handler, ok, list, result, failed,
                   fault>>

(***************************************************************************)
(* MFCap_EnumMediaTypes and MFPlay_EnumFormats: the formats of each stream.*)
(***************************************************************************)
FormatsCall ==
    /\ pc = "call" /\ fn \in {"capFormats", "playFormats"}
    /\ \/ Fail("open") /\ rounds' = 0 /\ pc' = "unwind"
       \/ /\ Succeed /\ rounds' \in 0 .. Rounds
          /\ pc' = IF rounds' = 0 THEN "copy" ELSE "round"
    /\ UNCHANGED <<fn, round, item, count, handler, list, refs, result, fault>>

(* typeCount is declared outside the loop: a failure leaves the value of   *)
(* the stream before.                                                      *)
FormatsStream ==
    /\ pc = "round" /\ fn \in {"capFormats", "playFormats"}
    /\ item' = 1
    /\ \/ Fail("descriptor") /\ handler' = FALSE /\ UNCHANGED count
       \/ Fail("count") /\ handler' = TRUE /\ UNCHANGED count
       \/ Succeed /\ handler' = TRUE /\ count' \in 0 .. Items

(* MFCap_EnumMediaTypes enters the loop over the formats without looking   *)
(* at the result.                                                          *)
CapFormatsStream ==
    /\ fn = "capFormats" /\ FormatsStream
    /\ pc' = "item"
    /\ UNCHANGED <<fn, round, rounds, list, refs, result, fault>>

PlayFormatsStream ==
    /\ fn = "playFormats" /\ FormatsStream
    /\ pc' = IF ok' THEN "item" ELSE "close"
    /\ UNCHANGED <<fn, round, rounds, list, refs, result, fault>>

FormatIgnoringFailure ==
    /\ pc = "item" /\ item <= count /\ handler
    /\ \/ /\ Succeed
          /\ refs' = Added({Here("format")})
          /\ Collect({Here("format")})
       \/ Fail("item") /\ UNCHANGED <<refs, list>>
    /\ item' = item + 1 /\ UNCHANGED pc

FormatItem ==
    /\ pc = "item" /\ item <= count /\ handler
    /\ \/ /\ Succeed
          /\ refs' = Added({Here("format")})
          /\ Collect({Here("format")})
          /\ item' = item + 1 /\ UNCHANGED pc
       \/ Fail("item") /\ pc' = "close" /\ UNCHANGED <<refs, list, item>>

CapFormat ==
    /\ fn = "capFormats" /\ FormatItem
    /\ UNCHANGED <<fn, round, rounds, count, handler, result, fault>>

PlayFormat ==
    /\ fn = "playFormats" /\ FormatItem
    /\ UNCHANGED <<fn, round, rounds, count, handler, result, fault>>

(* The handler of this stream could not be had, the loop bound is that of  *)
(* the stream before.                                                      *)
CapFormatNoHandler ==
    /\ fn = "capFormats" /\ pc = "item" /\ item <= count /\ ~handler
    /\ fault' = TRUE /\ pc' = "crashed"
    /\ UNCHANGED <<fn, loopVars, ok, list, refs, result, failed>>

FormatsClose ==
    /\ fn \in {"capFormats", "playFormats"}
    /\ pc = "close" \/ (pc = "item" /\ item > count)
    /\ NextRound
    /\ UNCHANGED <<fn, rounds, item, count, handler, ok, list, refs, result,
                   failed, fault>>

(***************************************************************************)
(* The other functions allocate the array first and fill it in one loop.   *)
(***************************************************************************)
ArrayCall ==
    /\ pc = "call"
    /\ \/ Fail("open") /\ pc' = "returned" /\ UNCHANGED count
       \/ Fail("memory") /\ pc' = "returned" /\ count' \in 1 .. Items
       \/ Succeed /\ count' = 0 /\ pc' = "returned"
       \/ Succeed /\ count' \in 1 .. Items /\ pc' = "item"
    /\ UNCHANGED <<fn, round, rounds, item, handler, list, refs, result,
                   fault>>

(* An entry that owns one resource; a failure ends the loop.               *)
ArrayItem(kind) ==
    /\ pc = "item" /\ item <= count
    /\ \/ /\ Succeed
          /\ refs' = Added({Here(kind)})
          /\ Collect({Here(kind)})
          /\ item' = item + 1 /\ UNCHANGED pc
       \/ Fail("item") /\ pc' = "unwind" /\ UNCHANGED <<refs, list, item>>
    /\ UNCHANGED <<fn, round, rounds, count, handler, result, fault>>

ArrayReturn ==
    /\ pc = "item" /\ item > count
    /\ result' = Listed
    /\ pc' = "returned"
    /\ UNCHANGED <<fn, loopVars, ok, list, refs, failed, fault>>

CapNodes ==
    /\ fn = "capNodes"
    /\ ArrayCall \/ ArrayItem("node") \/ ArrayReturn

PlayNodes ==
    /\ fn = "playNodes"
    /\ ArrayCall \/ ArrayItem("node") \/ ArrayReturn

Properties ==
    /\ fn = "properties"
    /\ ArrayCall \/ ArrayItem("value") \/ ArrayReturn

(***************************************************************************)
(* MFPlay_EnumDevices fills the entries as far as it gets and goes on.  A  *)
(* name that cannot be read is not a failure.                              *)
(***************************************************************************)
PlayDevicesCall == fn = "playDevices" /\ ArrayCall

PlayDevice ==
    /\ pc = "item" /\ fn = "playDevices" /\ item <= count
    /\ \E strings \in SUBSET {Here("endpoint"), Here("name"),
                              Here("description")} :
          /\ strings # {} => Here("endpoint") \in strings
          /\ \/ Here("description") \in strings /\ Succeed
             \/ Here("description") \notin strings
                  /\ Fail(IF strings = {} THEN "endpoint" ELSE "description")
          /\ refs' = Added(strings)
          /\ Collect(strings)
    /\ item' = item + 1
    /\ UNCHANGED <<fn, pc, round, rounds, count, handler, result, fault>>

(* What ret says is the outcome of the last entry; if it is a failure only *)
(* the array is freed.                                                     *)
PlayDevicesReturn ==
    /\ pc = "item" /\ fn = "playDevices" /\ item > count
    /\ result' = IF ok THEN Listed ELSE {}
    /\ pc' = "returned"
    /\ UNCHANGED <<fn, loopVars, ok, list, refs, failed, fault>>

(***************************************************************************)
(* The caller gives the list back: MFCap_FreeDeviceEnumeration,            *)
(* MFPlay_FreeDeviceEnum, MFGen_FreeFormats, MFGen_FreeStreamNodes,        *)
(* MFGen_FreeProperties.                                                   *)
(***************************************************************************)
FreeResult ==
    /\ pc = "returned" /\ ok
    /\ refs' = Dropped(result)
    /\ pc' = "freed"
    /\ UNCHANGED <<fn, loopVars, ok, list, result, failed, fault>>

CapDevicesStep ==
    \/ CapDevicesCall \/ CapDevicesOpen \/ CapDevice \/ CapDeviceUnnamed
    \/ CapDeviceUnlinked \/ CapDevicesClose

FormatsStep ==
    \/ FormatsCall \/ CapFormatsStream \/ PlayFormatsStream
    \/ CapFormat \/ PlayFormat \/ CapFormatNoHandler \/ FormatsClose

PlayDevicesStep == PlayDevicesCall \/ PlayDevice \/ PlayDevicesReturn

Next ==
    \/ CapDevicesStep \/ FormatsStep \/ PlayDevicesStep
    \/ CapNodes \/ PlayNodes \/ Properties
    \/ CopyOut \/ Unwind \/ FreeResult

Spec == Init /\ [][Next]_vars

-----------------------------------------------------------------------------
(* Every variable has its type.                                            *)
TypeOK ==
    /\ fn \in CalledFunctions
    /\ pc \in {"call", "round", "item", "close", "copy", "unwind", "returned",
               "freed", "crashed"}
    /\ round \in 1 .. Rounds /\ rounds \in 0 .. Rounds
    /\ item \in 1 .. Items + 1 /\ count \in 0 .. Items
    /\ handler \in BOOLEAN /\ ok \in BOOLEAN /\ fault \in BOOLEAN
    /\ list \in Seq(SUBSET Resources)
    /\ refs \in [Resources -> Int]
    /\ result \in SUBSET Resources
    /\ failed \in SUBSET Steps

(* Names of devices without a symbolic link: freed while still listed.     *)
Dangling ==
    IF fn = "capDevices"
    THEN {r \in Listed : r[1] = "name" /\ <<"link", r[2], r[3]>> \notin Listed}
    ELSE {}

(* MFPlay_EnumDevices returns a failure: all its strings stay allocated.   *)
Leaked == IF fn = "playDevices" /\ ~ok THEN Listed ELSE {}

(* When a call has returned, what is still owned is what the caller was    *)
(* handed, once, and nothing is owned after the caller has freed the list. *)
(* The exceptions are those above: the name is freed twice in the end      *)
(* (mfcap.cpp:444, 479), the strings never (mfplay.cpp:102-107).           *)
OwnedByCaller ==
    pc \in {"returned", "freed"} =>
        \A r \in Resources :
            refs[r] = IF r \in Dangling
                      THEN IF pc = "returned" /\ ok THEN 0 ELSE -1
                      ELSE IF r \in Leaked \/ (pc = "returned" /\ r \in result)
                      THEN 1 ELSE 0

(* What a later entry hides: a symbolic link, an entry of                  *)
(* MFPlay_EnumDevices, or the number of formats of a stream.               *)
HiddenFailures ==
    CASE fn = "capDevices"  -> {"link"}
      [] fn = "playDevices" -> {"endpoint", "description"}
      [] fn = "capFormats"  -> {"count"}
      [] OTHER              -> {}

(* A call that reports success had no failure on the way except a hidden   *)
(* one.  A failure makes MFCap_EnumMediaTypes use a null handler only if   *)
(* it is that of a stream's descriptor and an earlier stream had formats:  *)
(* the bound of the loop is then that of the earlier stream                *)
(* (mfcap.cpp:144-157).                                                    *)
FailuresReported ==
    /\ pc \in {"returned", "freed"} /\ ok => failed \subseteq HiddenFailures
    /\ fault => /\ fn = "capFormats" /\ "descriptor" \in failed
                /\ \E r \in Listed : r[2] < round
=============================================================================

----------------------------- MODULE MFCapDemo -----------------------------
(***************************************************************************)
(* The demo's window (MainForm.pas): lists of devices and their streams,   *)
(* buttons that refresh them, record and test, over the device classes     *)
(* (MFDevice.pas, MFCapDevice.pas, MFPlayDevices.pas) and mfsession.       *)
(*                                                                         *)
(* All of it runs in one thread, but not one event at a time: an error is  *)
(* shown by MessageBoxW without an owner, which leaves the window enabled  *)
(* and handles its events until the box is closed.  A handler that touches *)
(* the window or its lists after its message is a frame in "boxes"; the    *)
(* others are one step, for what they still free is theirs alone.          *)
(***************************************************************************)
EXTENDS Integers, FiniteSets, SequencesExt

CONSTANTS
    Cameras, Microphones, Speakers, \* devices, each with one stream
    Hidden,     \* those whose stream has no Id in 1..127
    Fixed,      \* those that are never plugged out
    Lists,      \* list views: "video", "audio", "output", "input"
    MaxBoxes,   \* bound: messages with something to do after, open at a time
    MaxSessions \* bound: recordings begun and tests open, together

Devices == Cameras \cup Microphones \cup Speakers

ASSUME DemoAssumption ==
    /\ IsFiniteSet(Devices) /\ Hidden \cup Fixed \subseteq Devices
    /\ "video" \in Lists /\ Lists \subseteq {"video", "audio", "output", "input"}
    /\ MaxBoxes \in Nat /\ MaxSessions \in Nat

Kind(l) == CASE l = "video"  -> Cameras
             [] l = "audio"  -> Microphones
             [] l = "output" -> Speakers
             [] l = "input"  -> Cameras \cup Microphones

(* What a Record click creates.                                            *)
Objects == {"asf", "in", "out", "session"}

VARIABLES
    plugged,    \* the devices the system has
    devs,       \* the device objects of each list, open
    rows,       \* the rows of each view, and the stream list behind it
    hears,      \* OnItemChecked is set
    boxes,      \* messages open, the newest last
    recording,  \* Record buttons with a session in their Tag
    testing,    \* the Test button has one
    live,       \* how many objects of Record and Test clicks exist
    closed,     \* FormClose
    fault,      \* "none" or what went wrong
    (* what happened *)
    unheard,    \* rows toggled an odd number of times while nobody was told
    begun,      \* Record clicks that came to a session's nodes and did not
                \* fail
    raised      \* those of them that ended in an exception

view == <<devs, rows, hears, boxes, unheard>>
sessions == <<recording, testing, live, begun, raised>>
vars == <<plugged, view, sessions, closed, fault>>

Nothing == << >>    \* the function without arguments

Init ==
    /\ plugged \in {P \in SUBSET Devices : Fixed \subseteq P}
    /\ devs = [l \in Lists |-> Nothing]
    /\ rows = [l \in Lists |-> Nothing]
    /\ hears = [l \in Lists |-> TRUE]
    /\ boxes = << >>
    /\ recording = {} /\ testing = FALSE
    /\ live = [o \in Objects |-> 0]
    /\ closed = FALSE /\ fault = "none"
    /\ unheard = [l \in Lists |-> {}]
    /\ begun = 0 /\ raised = 0

OnlyOf(f, S) == [d \in DOMAIN f \cap S |-> f[d]]

(***************************************************************************)
(* TMFDevice._Enumerate, after a call that may fail, on a device list dl.  *)
(* Present is what the call found.  The result is the last Open's, and     *)
(* undefined if there was none.  An object is told from an earlier one for *)
(* the same device by gen; first is the list the handler began with.       *)
(***************************************************************************)
(* What is selected of devices just opened; an output stream always is.    *)
Selections(opened) == {sel \in SUBSET opened : opened \cap Speakers \subseteq sel}

Results(opened, fresh) ==
    IF fresh = {} THEN BOOLEAN
    ELSE {err \in BOOLEAN : IF err THEN opened # fresh ELSE opened # {}}

(* Mutant: the device list is filled with new objects every time.          *)
EnumeratedAnew(present, dl, compare, first) ==
    {[devs |-> [d \in opened |->
                    [gen |-> IF d \in DOMAIN first THEN 1 - first[d].gen ELSE 0,
                     selected |-> TRUE]],
      err |-> FALSE] : opened \in SUBSET present}

Kept(present, dl, compare) == IF compare THEN OnlyOf(dl, present) ELSE dl

Fresh(present, dl, compare) ==
    present \ (IF compare THEN DOMAIN dl ELSE {})

NewObject(d, sel, first) ==
    [gen |-> IF d \in DOMAIN first THEN 1 - first[d].gen ELSE 0,
     selected |-> sel]

WithOpened(kept, opened, sel, first) ==
    [d \in DOMAIN kept \cup opened |->
        IF d \in opened THEN NewObject(d, d \in sel, first) ELSE kept[d]]

Enumerated(present, dl, compare, first) ==
    LET kept  == Kept(present, dl, compare)
        fresh == Fresh(present, dl, compare)
    IN  {[devs |-> dl, err |-> TRUE]} \cup
        UNION {{[devs |-> WithOpened(kept, o, sel, first), err |-> err] :
                    sel \in Selections(o), err \in Results(o, fresh)} :
               o \in SUBSET fresh}

(* EnumStreams of every device and ListViewProcessItem.                    *)
RowsOf(dl) ==
    [d \in DOMAIN dl |-> [gen |-> dl[d].gen, checked |-> dl[d].selected]]

(***************************************************************************)
(* What a refresh can make of a device list: the objects, the rows, and    *)
(* what is left to do after its message, if anything.                      *)
(***************************************************************************)
Outcome(dl, r, then) == [devs |-> dl, rows |-> r, then |-> then]

(* RefreshAudioInputButtonClick.                                           *)
ListOutcomes(l, dl) ==
    UNION {IF e.err THEN {Outcome(e.devs, Nothing, "restore")}
           ELSE {Outcome(e.devs, RowsOf(e.devs), "none")} \cup
                (IF e.devs = Nothing THEN {}
                 ELSE {Outcome(e.devs, Nothing, "drop")}) :
           e \in Enumerated(Kind(l) \cap plugged, dl, TRUE, dl)}

(* RefreshInputSelectionButtonClick.  The microphones are compared with    *)
(* the list while cameras are enumerated, and so thrown out; then all of   *)
(* them are opened again.  Devices without a row are thrown out.           *)
InputOutcomes(dl) ==
    LET Failed(d) == {Outcome(d, Nothing, "none")}
        Shown(d) == OnlyOf(d, Devices \ Hidden)
        Streams(d) == {Outcome(Shown(d), RowsOf(Shown(d)), "none")} \cup
                      (IF d = Nothing THEN {} ELSE Failed(d))
    IN  UNION {IF e.err THEN Failed(e.devs)
               ELSE UNION {IF f.err THEN Failed(f.devs) ELSE Streams(f.devs) :
                      f \in Enumerated(Microphones \cap plugged, e.devs,
                                       FALSE, dl)} :
               e \in Enumerated(Cameras \cap plugged, dl, TRUE, dl)}

Outcomes(l, dl) ==
    IF l = "input" THEN InputOutcomes(dl) ELSE ListOutcomes(l, dl)

(* The refresh of a list whose device list is dl, with "under" the         *)
(* messages that are open.  OnItemChecked is Nil while its own is open.    *)
Show(l, dl, under) ==
    \E o \in Outcomes(l, dl) :
        /\ devs' = [devs EXCEPT ![l] = o.devs]
        /\ rows' = [rows EXCEPT ![l] = o.rows]
        /\ unheard' = [unheard EXCEPT ![l] = {}]
        /\ IF o.then = "none"
           THEN boxes' = under /\ UNCHANGED hears
           ELSE /\ Len(under) < MaxBoxes
                /\ boxes' = Append(under, [then |-> o.then, list |-> l,
                                           tmp |-> hears[l]])
                /\ hears' = [hears EXCEPT ![l] = FALSE]

(***************************************************************************)
(* Events.                                                                 *)
(***************************************************************************)
Plug(d) ==
    /\ d \notin Fixed
    /\ plugged' = IF d \in plugged THEN plugged \ {d} ELSE plugged \cup {d}
    /\ UNCHANGED <<view, sessions, closed, fault>>

RefreshClick(l) ==
    /\ Show(l, devs[l], boxes)
    /\ UNCHANGED <<plugged, sessions, closed, fault>>

Toggle(l, d) == rows' = [rows EXCEPT ![l][d].checked = ~@]

(* A check box is clicked while OnItemChecked is Nil.                      *)
CheckUnheard(l, d) ==
    /\ d \in DOMAIN rows[l] /\ ~hears[l]
    /\ Toggle(l, d)
    /\ unheard' = [unheard EXCEPT ![l] =
                    IF d \in @ THEN @ \ {d} ELSE @ \cup {d}]
    /\ UNCHANGED <<plugged, devs, hears, boxes, sessions, closed, fault>>

(* TMFPlayDevice does not implement SelectStream: the exception leaves the *)
(* row as it was clicked.                                                  *)
CheckAbstract(l, d) ==
    /\ l = "output" /\ d \in DOMAIN rows[l] /\ hears[l]
    /\ Toggle(l, d)
    /\ UNCHANGED <<plugged, devs, hears, boxes, unheard, sessions, closed,
                   fault>>

(* Mutant: the view is not refreshed after its check box was clicked.      *)
CheckItemUnrefreshed(l, d) ==
    /\ l # "output" /\ d \in DOMAIN rows[l] /\ hears[l]
    /\ Toggle(l, d)
    /\ UNCHANGED <<plugged, devs, hears, boxes, unheard, sessions, closed,
                   fault>>

(* AudioInputListViewItemChecked: SelectStream, and a refresh.             *)
CheckItem(l, d) ==
    /\ l # "output" /\ d \in DOMAIN rows[l] /\ hears[l]
    /\ \/ Show(l, [devs[l] EXCEPT ![d].selected = ~rows[l][d].checked], boxes)
       \/ /\ Len(boxes) < MaxBoxes
          /\ Toggle(l, d)
          /\ boxes' = Append(boxes, [then |-> "reload", list |-> l,
                                     tmp |-> hears[l]])
          /\ UNCHANGED <<devs, hears, unheard>>
    /\ UNCHANGED <<plugged, sessions, closed, fault>>

(* The newest message is closed, and its handler goes on.                  *)
Restore(f) ==
    /\ f.then = "restore"
    /\ hears' = [hears EXCEPT ![f.list] = f.tmp]
    /\ UNCHANGED <<devs, rows, unheard, fault>>

Drop(f) ==
    /\ f.then = "drop" /\ ~closed
    /\ rows' = [rows EXCEPT ![f.list] = Nothing]
    /\ devs' = [devs EXCEPT ![f.list] = Nothing]
    /\ unheard' = [unheard EXCEPT ![f.list] = {}]
    /\ hears' = [hears EXCEPT ![f.list] = f.tmp]
    /\ UNCHANGED fault

(* The lists were freed by FormClose.  A refresh of the inputs does not    *)
(* get to its freed list if the first enumeration fails.                   *)
DropFreed(f) ==
    /\ closed /\ f.then \in {"drop", "reload"}
    /\ \/ fault' = "freed list"
       \/ f.list = "input" /\ UNCHANGED fault
    /\ UNCHANGED <<devs, rows, hears, unheard>>

BoxClosed ==
    /\ boxes # << >>
    /\ LET f == Last(boxes)
       IN  \/ /\ Restore(f) \/ Drop(f) \/ DropFreed(f)
              /\ boxes' = Front(boxes)
           \/ /\ f.then = "reload" /\ ~closed
              /\ Show(f.list, devs[f.list], Front(boxes))
              /\ UNCHANGED fault
    /\ UNCHANGED <<plugged, sessions, closed>>

(***************************************************************************)
(* Sessions.  MFSession_Start releases the topology even if there is none. *)
(***************************************************************************)
SessionStart(topology) ==
    {"failed"} \cup IF topology THEN {"started"} ELSE {"no topology"}

(* What a Record click has created when the named call fails, and what it  *)
(* frees then.                                                             *)
Created(call) ==
    CASE call = "asf"     -> {}
      [] call = "in"      -> {"asf"}
      [] call = "out"     -> {"asf", "in"}
      [] call = "session" -> {"asf", "in", "out"}
      [] OTHER            -> Objects

(* Mutants: the first object is forgotten, or freed even if there is none. *)
FreedButFirst(call) == Created(call) \ {"asf"}
FreedAnyway(call) == Created(call) \cup {"asf"}

Freed(call) ==
    CASE call = "asf"     -> {}
      [] call = "in"      -> {"asf"}
      [] call = "out"     -> {"in", "asf"}
      [] call = "session" -> {"out", "in", "asf"}
      [] OTHER            -> {"session", "out", "in", "asf"}

Add(made, gone) ==
    live' = [o \in Objects |-> live[o] + (IF o \in made THEN 1 ELSE 0)
                                       - (IF o \in gone THEN 1 ELSE 0)]

RecordFails(l, call) ==
    /\ Add(Created(call), Freed(call))
    /\ UNCHANGED <<recording, begun, raised, fault>>

(* The selected streams of the device, the row's by the handle.            *)
Edges(l, d) == IF devs[l][d].selected THEN 1 ELSE 0

Tests == IF testing THEN 1 ELSE 0

(* RecordVideoButtonClick, with the ASF sink's streams counted by sinks.   *)
(* Nothing it creates but the session is kept anywhere.                    *)
Record(l, d) ==
    /\ l \in {"video", "audio"} \ recording
    /\ d \in DOMAIN rows[l] /\ begun + Tests < MaxSessions
    /\ \/ \E call \in {"asf", "in", "out", "session"} : RecordFails(l, call)
       \/ \E sinks \in {0, 1} :
          \/ /\ Edges(l, d) > sinks
             /\ Add(Objects, {})
             /\ begun' = begun + 1 /\ raised' = raised + 1
             /\ UNCHANGED <<recording, fault>>
          \/ /\ Edges(l, d) \in 1..sinks
             /\ RecordFails(l, "edge")
          \/ /\ Edges(l, d) <= sinks
             /\ \E s \in SessionStart(Edges(l, d) > 0) :
                \/ s = "failed" /\ RecordFails(l, "start")
                \/ /\ s = "started"
                   /\ Add(Objects, {})
                   /\ recording' = recording \cup {l}
                   /\ begun' = begun + 1
                   /\ UNCHANGED <<raised, fault>>
                \/ /\ s = "no topology"
                   /\ fault' = s
                   /\ UNCHANGED <<recording, live, begun, raised>>
    /\ UNCHANGED <<plugged, view, testing, closed>>

RecordStop(l) ==
    /\ l \in recording
    /\ recording' = recording \ {l}
    /\ Add({}, {"session"})
    /\ UNCHANGED <<plugged, view, testing, begun, raised, closed, fault>>

(* TestVideoOutputButtonClick.  Every failure frees the session and        *)
(* forgets the output device, which is not counted here.                   *)
Test ==
    /\ IF testing THEN Add({}, {"session"})
       ELSE /\ DOMAIN rows["video"] # {} /\ begun < MaxSessions
            /\ Add({"session"}, {})
    /\ testing' = ~testing
    /\ UNCHANGED <<plugged, view, recording, begun, raised, closed, fault>>

(* The video group box has the handler of the refresh buttons, which does  *)
(* not know it: no variable of the handler has a value (MainForm.dfm:177). *)
GroupBoxClick ==
    /\ fault' = "unknown sender"
    /\ UNCHANGED <<plugged, view, sessions, closed>>

FormClose ==
    /\ closed' = TRUE
    /\ devs' = [l \in Lists |-> Nothing]
    /\ rows' = [l \in Lists |-> Nothing]
    /\ unheard' = [l \in Lists |-> {}]
    /\ UNCHANGED <<plugged, hears, boxes, sessions, fault>>

Next ==
    /\ fault = "none"
    /\ \/ BoxClosed
       \/ /\ ~closed
          /\ \/ \E d \in Devices : Plug(d)
             \/ \E l \in Lists : RefreshClick(l) \/ RecordStop(l)
             \/ \E l \in Lists, d \in Devices :
                    \/ CheckUnheard(l, d) \/ CheckAbstract(l, d)
                    \/ CheckItem(l, d) \/ Record(l, d)
             \/ Test \/ GroupBoxClick \/ FormClose

Spec == Init /\ [][Next]_vars

-----------------------------------------------------------------------------
DeviceObject == [gen : {0, 1}, selected : BOOLEAN]
Row == [gen : {0, 1}, checked : BOOLEAN]
Box == [then : {"restore", "drop", "reload"}, list : Lists, tmp : BOOLEAN]

(* Lists have objects and rows for devices of their kind.                  *)
TypeOK ==
    /\ plugged \subseteq Devices
    /\ DOMAIN devs = Lists /\ DOMAIN rows = Lists /\ DOMAIN unheard = Lists
    /\ \A l \in Lists :
        /\ devs[l] \in [DOMAIN devs[l] -> DeviceObject]
        /\ rows[l] \in [DOMAIN rows[l] -> Row]
        /\ DOMAIN devs[l] \cup DOMAIN rows[l] \subseteq Kind(l)
        /\ unheard[l] \subseteq DOMAIN rows[l]
    /\ hears \in [Lists -> BOOLEAN]
    /\ boxes \in Seq(Box)
    /\ recording \subseteq Lists /\ {testing, closed} \subseteq BOOLEAN
    /\ live \in [Objects -> Nat] /\ begun \in Nat /\ raised \in Nat
    /\ fault \in {"none", "no topology", "freed list", "unknown sender"}

(* A row's device object exists, and the row shows what is selected there, *)
(* unless its click reached nobody: while a failed refresh of the list had *)
(* its message open, in the output list, or while the message about the    *)
(* click is open.  Without messages open every list hears clicks           *)
(* (MainForm.pas:118-128, 310-341).                                        *)
ViewMatches ==
    /\ \A l \in Lists : \A d \in DOMAIN rows[l] :
        /\ d \in DOMAIN devs[l] /\ devs[l][d].gen = rows[l][d].gen
        /\ \/ rows[l][d].checked = devs[l][d].selected
           \/ d \in unheard[l] \/ l = "output"
           \/ \E i \in DOMAIN boxes :
                boxes[i].list = l /\ boxes[i].then = "reload"
    /\ boxes = << >> /\ ~closed => \A l \in Lists : hears[l]

(* The object of a device that stays plugged in, and with it what was      *)
(* selected, survives every refresh and every click, unless the streams of *)
(* its list could not be read or the window is closed; but no refresh of   *)
(* the inputs keeps a microphone (MFDevice.pas:76-118, MainForm.pas:332-   *)
(* 337, 363-366).                                                          *)
SelectionSurvives ==
    [][\A l \in Lists : \A d \in DOMAIN devs[l] \cap plugged :
        \/ d \in DOMAIN devs'[l] /\ devs'[l][d].gen = devs[l][d].gen
        \/ l = "input" /\ d \in Microphones \cup Hidden
        \/ Len(boxes') < Len(boxes) /\ Last(boxes).then = "drop"
        \/ closed']_devs

(* Whatever fails in a Record click, all it created is freed: what is left *)
(* belongs to recordings that began, or to clicks that raised an exception *)
(* (MainForm.pas:191-257).                                                 *)
RecordRollback ==
    /\ \A o \in Objects \ {"session"} : live[o] = begun
    /\ live["session"] = Cardinality(recording) + raised + Tests
=============================================================================

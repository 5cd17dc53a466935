# avtalk in TLA+

Specifications of the libraries of *avtalk*, a Windows messenger with audio and
video in C and C++, and of its capture demo in Pascal: what the connection
broker, its messages and lists, the byte stream, the capture and enumeration
code and the demo's window do, checked with TLC on small instances, and proved
with TLAPS for every value of the constants: every property of the runs that is
not a liveness property is also a theorem.

Line numbers refer to the source files named. Where the code can run into
undefined behaviour the models do not look away: such a step leads to a state
with `fault # "none"`, next to the step the build makes when memory happens to
be intact, and the properties say from which circumstances faults come.

## 1. The system

| Component | State it keeps | Operations | Talks to |
|---|---|---|---|
| `mfbroker`, client mode | one `MF_CONNECTION` (reference count, state, socket, `MessagesToSend`, key), the worker's poll array and `recvList` | `MFBroker_Alloc/Free`, `MFConnection_SendAsync`, `AddRef`, `Release`, `Disconnect`, `SetKey`; the worker loop | the peer (socket); the application (callbacks from the worker, calls from any thread) |
| `mfbroker`, server mode | table of connections, `ConnectionCount`, listening socket, one poll array and one `recvList` per worker | the accepting thread, worker threads that each walk the table, start-up with roll-back, `MFBroker_Free` | peers; workers and the accepting thread share the table without a lock |
| `mfstream` | operation list, semaphore, `pendingOpCount`, `flushedEvent`, `closed`, reference count of each operation | `Read`, `Write`, `BeginRead`, `BeginWrite`, `Flush`, `Close`, the thread of the stream, construction and destruction | the application (data callbacks from the thread) |
| `mfcap`, sampling | thread handle, `SamplingTerminated`, callback and context, references to the source reader | `MFCap_Start`, `MFCap_Stop`, `MFCap_FreeInstance`, the sampling thread | Media Foundation; the application (callback that may call `Start` and `Stop`) |
| `mfcap`, `mfplay`, `mfgen`: enumeration | lists being collected, strings and interfaces they own | `MFCap_EnumDevices`, `MFCap_EnumMediaTypes`, `MFCap_CreateStreamNodes`, `MFPlay_EnumDevices`, `MFPlay_EnumFormats`, `MFPlay_CreateStreamNodes`, `MFGen_GetProperties`, and the functions that free the lists | Media Foundation, any call of which may fail |
| `mfmessages`, `mfcrypto` | the message: flags, signature, encrypted parts | allocate, sign, verify, encrypt and decrypt header or data, set counter and context | the application; the broker; libsodium |
| `mfprotocol` | none | constructors of the bodies of protocol messages | `mfmessages` |
| `mflist`, `mfmemory`, `mflock`, `mfthread` | list pointers; a count in front of each block; a critical section; a thread object with two references | insertion and removal; `AddRef`/`Release`; enter and leave; create, terminate, wait, close | everything above |
| `mfsession`, `mfplay` devices | a topology pointer; a media sink | start, stop, connect nodes | Media Foundation |
| `MFCapDemo` | lists of device objects with the rows of a view for each, `OnItemChecked`, the sessions in its buttons' `Tag` | refresh, check a row, record, test, close; error messages during which further events are handled | the libraries; the user |
| `mfcapc` | none | console program | `mfcap` |
| `libsodium` | | vendored | |

Where it is hard, and what makes each component correct:

* **Broker, client.** Any thread may send, disconnect, install a key or drop a
  reference while the worker receives, sends and dispatches; a reference is
  owned by the table, by each queued, held or received message and by threads.
  Correct means: the count is the number of owners; the slot is freed exactly
  when there is none; a message is checked before it is delivered; each caller's
  messages leave in order; queues drain; `MFBroker_Free` returns.
* **Broker, server.** Workers, the accepting thread and application threads
  change table, counter and sockets without a lock, and each worker's received
  messages hold references to connections it shares with others. Correct means:
  references are the owners, the counter is exact, walks are long enough for it,
  the right connection is hung up, no accepted socket stays open, peers are
  served.
* **Stream.** Queue, semaphore, counter and event are changed at different
  times by different threads. Correct means: no wake-up is lost, `Flush` covers
  what came before it, operations live as long as they are used, are answered
  once and in order.
* **Sampling.** Nothing is locked; a callback may stop its own thread. Correct
  means: after `Stop` nothing runs, every thread has its own callback and
  context, references to the reader balance, `Stop` returns.
* **Enumeration.** Every call may fail at every round. Correct means: what is
  outstanding afterwards is what the caller was handed, and a failure is
  reported.

* **Messages.** Sealing, signing and numbering a message change each other's
  results, in whatever order an application and two brokers do them. Correct
  means: a signature is of the message as it stands or not flagged; a broker
  accepts what its peer's application signed and nothing else; what was sealed
  for somebody opens for them.
* **List.** One lock, but the worker asks `MFList_Empty` without it, and a walk
  frees entries without unlinking them. Correct means: whenever the lock is
  free the ring is the list in both directions; the unlocked answer was true at
  some moment of the call.
* **Demo.** One thread, but a message box handles events while a handler is
  half done. Correct means: rows stand for objects that exist; selections
  survive a refresh; a failed click leaves nothing behind.

`PROJECT.json` lists these hazards at their lines, with the properties about
them.

## 2. Modules

| Module | Models | Runs | Proofs |
|---|---|---|---|
| `MFBrokerClient` (`MCMFBrokerClient`) | `mfbroker.c`, `Mode = bmClient` | `client_calls`, `client_receive`, `client_live` | `MFBrokerClientProofs` |
| `MFBrokerServer` | `mfbroker.c`, `Mode = bmServer` | `server_two`, `server_one` | `MFBrokerServerProofs` |
| `MFMessage` | `mfmessages.c`, and what `mfbroker.c` does to a message | `message`, `message_keys` | `MFMessageProofs` |
| `MFProtocol` | sizes in `mfprotocol.c` and `MFMessage_Alloc` | | `MFMessageProofs` |
| `MFList` | `mflist.c` with the locking of `mfbroker.c` | `list` | `MFListProofs` |
| `MFStreamService` | what a stream promises | as a property of `stream` | |
| `MFStream` | `mfstream-impl.cpp`, `mfstreamop-impl.cpp` | `stream` | `MFStreamProofs` |
| `MFCapture` | `mfcap.cpp` 36-98, 220-279, 657-665 | `capture` | `MFCaptureProofs` |
| `MFEnumeration` | the enumerations of `mfcap.cpp`, `mfplay.cpp`, `mfgen.cpp` | `enumeration` | `MFEnumerationProofs` |
| `MFCapDemo` | `MFCapDemo/*.pas`, `mfsession.cpp` | `demo` | `MFCapDemoProofs` |

`MCMFBrokerClient` only adds the symmetry of interchangeable threads, which no
property names individually, and which is used in a safety run only. An
operator marked *Mutant* in its comment is a plausible mistake in the
definition after it; no action uses it. `PROJECT.json` pairs each with a
property that rejects it. A proof module begins with the inductive invariant:
the conjuncts of `IInv` (`StreamInv` for the stream) and what they are made of.

A local variable of the code that is never read again before it is written is
forgotten in the models (the arrays of a worker after its dispatch or its walk,
`EndWalk`, and what a sampling thread leaves): this loses no behaviour and saves
the states that differ in nothing else.

The modules are not composed into one specification: they meet at interfaces
that each takes at its word. `MFBrokerClient` treats its queues as sequences
and the content of a message as one of six kinds; that an insertion under the
lock is an `Append` is what `MFList` shows, and what the kinds come from is
`MFMessage`. `MFMessage` in turn takes from the broker that a message is sent
once and in one piece.

### 2.1 `MFBrokerClient`

The behaviour starts when `MFBroker_Alloc` has returned. `wpc` is the place of
the worker in `_MFBrokerThreadRoutine`; every point where another thread can
see or change something is a step of its own, and a critical section of
`SendLock` is one step when nothing outside it sees its intermediate states.

| Variables | In the code |
|---|---|
| `refCount`, `state`, `socket`, `queue`, `key` | `ReferenceCount`, `State`, `Socket` with `Disconnected`, `MessagesToSend`, `Key`; `socket = "closed"` between `closesocket` and the store, `key = "torn"` during the copy |
| `failed` | `ret # 0`: one variable for the whole loop, reset by nothing in particular |
| `fdCount`, `fds`, `revents` | the poll array and what `WSAPoll` put into it |
| `incoming`, `hand` | the message in `msg` while it is verified, or taken off the queue and sent |
| `recvList`, `freed`, `cursor` | the received messages, how many leading entries are already released, and where the dispatch loop is |
| `apc`, `holders`, `freePc` | what each application thread is inside of; who owns a reference; `MFBroker_Free` |
| `fault`, `staleReleases`, `reports`, `delivered`, ... | history, for the properties |

Messages the peer sends are of six kinds, which are what receiving tells apart:
plain, signed, forged (the signature does not verify), sealed (encrypted
header), short (a size below that of a header) and truncated (the rest never
arrives). Callbacks are modelled by what they may answer, and may use the
connection as any thread may. An application thread uses the connection only
while it owns a reference, and calls `MFBroker_Free` only when no thread does.

The loop that walks `recvList` again over entries it has released (lines
295-302) is in the model: at a freed entry the program either faults or does to
the message what it did before, which includes another release. So is the next
message, which `MFList_InsertTail` puts behind an entry that is freed
(`InsertsBehindFreed`).

### 2.2 `MFBrokerServer`

Slots, workers and peers are numbers, and a socket is the number of its peer.
Peers are numbered in the order in which they ask to connect and accepted in
that order, which loses no behaviour but the names.

A worker's pass is two walks over the table and a dispatch.
`WorkerBuild`/`WorkerEntry` fill the array (`WorkerResize` and `WorkerAllocate`
before it read `ConnectionCount` once each, `WorkerBuild` a third time); after
the poll `WorkerScan` and the steps after it pair its entries with the
connections anew. `_MFConn_Next` is the function `NextConn`, with the code's
start, bound and step, so that the walk of one worker enters other workers'
slots as it does in the code. `POLLIN` leads to `recv`, after which the message
is dropped (`WorkerDrop`) or kept (`WorkerKeep`): a kept one is in `recvList`
and has a reference to its connection. A `recv` that does not find a whole
message is the place "receiving", from which the worker need not return.
`WorkerReady` and `WorkerReadyReturns` are the dispatch loop, which gives each
message to its callback and releases its connection. The list is initialised
before the worker's loop and never emptied, so each pass begins with the
messages of the passes before it: `freed` says how many of the list's leading
messages are freed memory, and at one of those the worker either faults
(`WorkerUseAfterFree`) or releases its connection once more, which
`staleReleases` counts for each slot.

`base` and `held` are the slots the table and the application refer to. Four
variables note the accidents after which the properties promise less:

| Variable | Accident |
|---|---|
| `astray` | the last reference that is counted is given up while the connection has owners left, because it was released through a freed message before (`FreedInUse`); a worker hangs up a connection other than the one it had found; or a reference is taken to a slot that has none, as another worker freed it |
| `shifted` | the workers under whose walk a slot was taken or freed since they filled their arrays |
| `lostUpdate` | two updates of `ConnectionCount` overlapped |
| `overwritten` | a worker stored `INVALID_SOCKET` over the socket of a slot taken anew |

The read and the write of `ConnectionCount` in `++` and `--` are separate steps
(`WorkerLoad`, `WorkerStore`, `AcceptLoad`, `AcceptStore`). `main` is the thread
in `MFBroker_Alloc`, including a thread creation that fails and the roll-back,
and later in `MFBroker_Free`.

### 2.3 `MFMessage` and `MFProtocol`

`MFMessage` is the life of one message between two users and their server:
`CallDataEncrypt`, `CallSign` and so on are the functions of `mfmessages.c` with
their assertions as guards, `SendAsync`, `Transmit` and `Receive` what
`mfbroker.c` does to the message on its way out and in, with every answer of the
callbacks. Cryptography is ideal: a sealed part knows the key that opens it, a
signature who made it and of what. A sealed header covers its counter, its
context and `DataEncryption` (mfmessages.c:111), so whatever is written into it
while it is sealed loses the header and, with it, sealed data. The keys given to
`MFBroker_Alloc` are not stored there, so that a broker's own key is `ZeroKey`
(`BrokerKey`).

`MFProtocol` has no state. It says how much memory the constructors whose size
depends on their arguments take and which intervals of it they write, with the
32-bit arithmetic of `mfmessages.c`.

### 2.4 `MFList`

One pointer write is one step; the lock makes the operations exclusive, and the
worker's `MFList_Empty` in two reads is not part of it. `contents` is the list
the ring should be, changed where the operation takes effect. Two bounds: the
second of these reads takes `Next` again and `Prev` at one moment, and a
clearing walk never takes a connection's last reference: the clear nested in it
by such a release is `FreeClearTwice` of `MFBrokerClient`.

### 2.5 `MFStreamService` and `MFStream`

The service has three actions: an operation is submitted, the oldest waiting
one is answered, the stream is closed; after closing at most one more answer is
given. `MFStream` is the code: `Construct` with each resource that may be
missing, the thread in the steps of its loop (wait, take, process, retire,
drop), callers that insert under the lock and post the semaphore outside it,
`Flush`, `Close`, and the destructor. It implements the service when
`submitted` is read as the operations whose call has begun and `waiting` as the
operation in process followed by the list.

### 2.6 `MFCapture`

`MFCap_Start` and `MFCap_Stop` as the stores other threads can see, for
application threads and for callbacks alike; the sampling thread as its loop
with the variable `buffer`, which keeps its value between iterations. The number
of a `Start` stands for its callback, context, reader and thread. `misuse`
records orders of calls the code is not written for (`restart`: `Start` while a
thread runs; `overlap`: calls that overlap), and the properties say which
guarantee depends on their absence.

### 2.7 `MFEnumeration`

One behaviour is one call of one of seven functions: an outer loop over kinds or
streams, an inner loop over items, any call failing. `refs` counts what is
allocated or referenced, `list` what has been collected, `result` what the
caller got. `MFGen_FreeFormats` and its siblings are the last step.

### 2.8 `MFCapDemo`

An event handler is one step, except for the messages it shows: `MessageBoxW`
handles events until it is closed, so a handler that still touches the window
afterwards is a frame in `boxes`, and `BoxClosed` is its rest. A refresh is what
`TMFDevice._Enumerate` and `EnumStreams` can make of a device list when any call
may fail (`Outcomes`). Device objects are told apart by `gen`, so that a property
can say that an object survives. `Record` and `Test` create and free counted
objects (`live`), with the list each failing call frees; the two share
the bound `MaxSessions`, and an open test counts as one object (`Tests`).
`unheard` remembers the rows whose clicks nobody was told of, which is why
`ViewMatches` can say that no other row lies. `Enumerated` is the loop of
`_Enumerate` in the parts it has: `Kept` what the comparison leaves in the
list, `Fresh` what is new, `WithOpened` what is added of that.

## 3. Runs

| Run | Instance | What it shows |
|---|---|---|
| `client_calls` | 2 threads, 2 sends together, 1 message, 1 key | `RefAccounting`, `FreeIffUnreferenced`, `CallerOrder`, `NoDoubleClose` |
| `client_receive` | 1 thread, 1 send, 2 messages of all kinds, 1 key, 2 stale releases | `TypeOK`, `CheckedAndOnce`, `FaultCauses` |
| `client_live` | 1 thread, 2 sends, 1 message that fails or blocks | `QueueDrains`, `FreeReturns` |
| `server_two` | 2 slots, 2 workers (shares exchanged), 2 peers, messages dropped | `TypeOK`, `ReferencesCounted`, `SocketsClosed` |
| `server_one` | 2 slots, 1 worker, 2 peers, 2 messages kept, 1 stale release, fair | `ReferencesCounted`, `CountExact`, `HangUpJustified`, `PeersServed`, `HangUpsNoticed` |
| `stream` | 2 synchronous operations and 1 asynchronous, 1 `Flush`, 2 `Close`, fair | `NoLostWakeup`, `FlushCovers`, `OpsCounted`, `ImplementsService`, `OpsAnswered`, `CreatorServed` |
| `capture` | 1 thread and the callbacks, 2 `Start`, 2 `Stop`, fair | `TypeOK`, `StoppedIsQuiet`, `OwnCallback`, `ReadersCounted`, `FaultCauses`, `StopReturns` |
| `enumeration` | 3 rounds of up to 2 items | `OwnedByCaller`, `FailuresReported` |
| `message` | 2 users, their server, with and without padding | `TypeOK`, `PeerSignature`, `DataOpens` |
| `message_keys` | the same, without padding | `HeaderOpens` is violated |
| `list` | 3 entries | `RingIsList`, `EmptyJustified` |
| `demo` | a camera that comes and goes, a microphone, a speaker, 3 lists, 2 messages open, 1 recording | `TypeOK`, `ViewMatches`, `SelectionSurvives`, `RecordRollback` |

Deadlock is checked in `list`, which can always go on. Every other program
here may come to rest (all calls made, the broker freed, the stream destroyed,
the message dropped, the window closed), and a fault ends a behaviour. That
waiting ends is what the liveness properties say.

**What the properties found.** Most guarantees hold only with an exception, and
the exception is part of the property:

* client: the dispatch loop releases connections again through freed entries
  (`CheckedAndOnce`, `RefAccounting`, `FaultCauses`); a hang-up with messages
  queued makes `MFBroker_Free` free entries twice (`FaultCauses`); a handle is
  closed twice by overlapping disconnects (`NoDoubleClose`); a failure that
  stays in `ret`, or a `recv` that returns 0 for ever, stops the worker
  (`QueueDrains`, `FreeReturns`);
* server: a message that was dispatched is released again in every later pass
  of its worker, with no fault if the memory is intact: the connection's count
  falls below the number of its owners, and the slot is freed and the socket
  closed of a peer that is still there, without being taken from
  `ConnectionCount` (`ReferencesCounted`, `CountExact`, `HangUpJustified`; one
  peer and one message are enough); lost updates of `ConnectionCount`
  (`CountExact`); entries taken for another connection's after the table changed
  (`HangUpJustified`); a worker hanging up a connection it had not found, or
  handing its callbacks a slot that another worker has freed, whose reference is
  lost when the slot is used again (`ReferencesCounted`); one failure ends
  accepting for good (`PeersServed`); connections no walk reaches, and all of a
  worker's while it waits in `recv` for the rest of one message
  (`HangUpsNoticed`);
* stream: the start token taken by the thread (`CreatorServed`), operations
  that `Close` leaves unanswered (`OpsAnswered`), a stream handed out without
  its resources (`FlushCovers`, `OpsAnswered`);
* capture: `Stop` called in a callback waits for itself (`StopReturns`), a
  buffer released twice after two reads without a sample, a flag reset under
  another `Stop` (`FaultCauses`), a running device started again
  (`StoppedIsQuiet`, `OwnCallback`);
* enumeration: names freed while listed and strings never freed
  (`OwnedByCaller`), failures hidden by later entries and a null handler
  (`FailuresReported`);
* messages: counter and context may be set under a signature (`TypeOK`, its
  part `SignatureCurrent`); the padding of a sealed message overwrites the
  sealed data, and a counter or a context given to a sealed header loses the
  data with it (`DataOpens`);
* demo: rows that lie about what is selected (`ViewMatches`), microphones of the
  input list that lose their selection with every refresh
  (`SelectionSurvives`), objects an exception leaves behind (`RecordRollback`).
  Its faults end a behaviour and have no property: a session started without a
  topology, because nothing asks whether a stream is selected, and a handler
  that goes on after the window was closed under its message, could only be
  excused by the condition under which the code runs into them.

**Disagreement of code and documents.** `message_keys` is a counterexample to
Messages.md:20, by which headers are sealed with the recipient's key: a broker
is never told its owner's keys (mfbroker.c:388) and refuses such a message.
Read on the way, without a run: Messages.md gives the flags the values 1, 2, 4,
8, 16 and `mfmessages.h` stops at 8; the message types it numbers are not those
of the enumeration; `PacketCounter`, meant against repetition, is checked
nowhere; `MFProtocol_ErrorMessage` given no text treats it as of length 0.

### Bounds, and why they are enough

Every bound is a constant: `MaxSends`, `MaxReceives`, `MaxKeys`, `MaxStale`,
`MaxPeers`, `MaxMessages`, `MaxStarts`, `MaxStops`, `Rounds`, `Items`,
`MaxBoxes`, `MaxSessions`; `ticks` in `MFCapture` counts to two, a counter or
context of a message is 0 or 1, and `TypeOK` of each module names the rest.

* Two application threads are the least that overlap in `Disconnect`, race for
  the last reference and interleave their messages; a second send gives an
  order to keep. Two received messages put a freed and a fresh entry in
  `recvList`; two stale releases let the count reach zero early and go on.
* A server with two slots has a first and a second share and a walk that leaves
  its share. Two peers give a walk something to pass, and the second may take
  the slot the first has left; `server_two` exchanges the shares
  (`FirstIndex` 1), so that the worker created first walks the second slot. Two
  kept messages put a freed and a fresh one in `recvList`, or one of each
  connection; one stale release is enough to free a slot in use. Two workers
  that keep messages have too many states for a run, and so have three peers,
  with which the table is full for one of them: these combinations are left to
  the theorems, and so is a peer refused for want of a slot. TLC has seen them
  outside the runs, with the inductive invariant: two slots, one worker, three
  peers, one message kept and one stale release; and two slots, two workers, two
  peers and one message kept by each.
* In the stream three operations are enough for one to be in process while
  another of either sort waits, and two `Close` calls for the overlap of two.
* Two `Start` calls overwrite a handle; two `Stop` calls stop both threads, or
  overlap, one of them in a callback. All calls of one application thread and of
  two sampling threads' callbacks overlap, `Start` among them.
* In the enumerations a failure at the first, at a later and at the last round
  or item differ, and three rounds of two items have each.
* Between two users and a server a message is sent to its reader, relayed, or
  sent to someone it was not sealed for. The room behind sealed data is never
  larger than the data (then bytes before it would be overwritten as well).
* A list of three has a first, a middle and a last entry.
* The demo's three lists show its three ways to refresh: compared with one
  kind (video), with nothing to select (output), and with two kinds one after
  the other (input); two messages nest once. The camera is the one device that
  comes and goes, as it is in two lists, and no device is hidden: either freedom
  multiplies the states without meeting another line of the code.

### Fairness

Weak fairness for each thread that was created (the scheduler runs it; in
`MFCapture` for all steps of a thread together, `ThreadStep`), for the
completion of a call that was begun (its critical sections are short and its
callbacks return), and for the wait in `MFBroker_Free`, which ends when the
worker has. Nobody is obliged to begin a call, no peer is obliged to send, go or
connect, and nothing is assumed of a `recv` whose bytes do not come: `Blocked`
is an outcome the properties name, and a server's worker that is "receiving"
need not go on. Allocating the poll array has strong fairness in both modes, as
the loop retries until memory is there; in the client so has a poll that reports
a writable socket, because the loop polls for ever and a socket whose peer reads
becomes writable again and again. The server's accepting thread is assumed to
take a peer that waits when it polls. The message, the list, the enumerations
and the demo have no liveness property: the first is moved only by choice, and
the others run to their end without waiting for anybody but the user.

## 4. Proofs

The theorems about behaviours are about `Spec` for every value of the constants
that satisfies the named assumptions. They use no fairness.

| Assumption | What it asks |
|---|---|
| `ClientAssumption` | the threads are a finite set, the bounds natural numbers |
| `ServerAssumption` | at least one slot and one worker; the index of the first worker is one of theirs; natural numbers of peers, messages and stale releases |
| `StreamAssumption` | the two sorts of operations are finite and disjoint |
| `CaptureAssumption` | finitely many threads, natural bounds |
| `EnumerationAssumption` | at least two rounds and one item |
| `MessageAssumption` | finitely many users, the server is none of them, and the three markers (no key, the zero key, a broker) are not parties |
| `ListAssumption` | the head, the null pointer and the threads are not entries |
| `DemoAssumption` | finitely many devices; the video list is among the lists (a test reads its rows) |

`MFCap_EnumDevices` may be asked for the two kinds of device together, which are
the two rounds; the others say that names are names.

**`MFBrokerClientProofs`.** `RefAccounting` is not inductive: that a release
takes away an owner needs to know that there was one. `IInv` says where owners
are. `HandInv`: a message is in the worker's hand exactly between taking it off
the queue and putting it down. `CountInv`: the worker looks at the
connection's events only while the table's reference is there, and
`ConnectionCount` follows it. `RecvInv`: released entries are a prefix of
`recvList`. `CallInv`: a thread inside a call owns a reference, and
`MFBroker_Free` runs alone. `FinalInv`: a slot in use has a positive count.
`SocketInv`: a stored handle that is closed has its closer behind it. The
induction is one lemma per conjunct and one step per action; every action is
one of four moves of the accounting (`AddRefBalances`, `ReleaseBalances`,
`HandOverBalances`, `NothingMoves`). From it:

* `TypeCorrect`, `ReferencesCounted` (`RefAccounting`), `FreedExactly`
  (`FreeIffUnreferenced`), `FaultsExplained` (`FaultCauses`);
* `SingleClose` (`NoDoubleClose`): an action property, from `SocketInv`.

The properties of the messages need a second induction beside this one
(`MessagesInv`). The messages reported, in the hand and in the queue are one
sequence (`Pipeline`), and every step leaves it as it is, appends the message
of the thread that inserts (`Joins`), or cuts the queue off and is remembered
for it (`GivenUp`). On the way in, message numbers rise from `recvList` through
`incoming` to what has not been received (`ReceivedInv`), so that a walked entry
was delivered once; `DeliveredInv` ties what was delivered to what was checked,
`KeyInv` a half-written key to a second `SetKey`. From it:

* `OrderKept` (`CallerOrder`), `DeliveredChecked` (`CheckedAndOnce`).

**`MFBrokerServerProofs`.** `PlacesInv` says where the threads are in relation
to each other and that the slot chosen for a new connection stays free until it
is taken; `ListsInv` that the freed messages are the leading ones of a list, all
of them before a worker begins a walk. The rest is in four parts that depend on
each other less than in the client, because the server's properties end with
different accidents:

* `SocketsInv` holds whatever went wrong: a socket is in a slot in use, that
  slot has a reference and not more than its owners claim (`SlotInv`), and an
  accepted socket is closed, in a slot, or in the accepting thread's hand
  (`Kept`). It gives `NoSocketLeft` (`SocketsClosed`).
* `ReferencesInv`: until `astray`, the count is that of the owners less the
  stale releases, and a slot is in use exactly while it has a count
  (`Referred`). The messages of all workers are a finite set that a kept message
  adds one to and a dispatched one takes one from (`MessagesOneMore`,
  `MessagesOneLess`). It gives `References` (`ReferencesCounted`).
* `CountExact` and `AheadInv`: a single worker has at most as many entries of
  its array left as there are connections of the table behind its place; a slot
  that a stale release frees under its owners is `astray`. It gives `Count`
  (`CountExact`).
* `WalksInv`: as long as no slot was taken or freed, the slots the second walk
  visits are those of the first, in the same order, whatever function of the
  table gives the next one; so the entry a worker looks at is the connection's
  whose slot it is at. With `Referred` for the releases of the dispatch loop,
  it gives `HangUps` (`HangUpJustified`), an action property.
* `TypeCorrect` (`TypeOK`) follows from `PlacesInv` and `ListsInv`.

That the exceptions of `CountExact` and `HangUpJustified` are complete was not
seen on small instances: that a walk is too short after an application freed
a hung-up slot under it, for instance, needs four slots and six peers, and
appeared when the induction failed.

**`MFStreamProofs`.** `StreamInv` joins the five safety properties with
`CurrentInv` (when an operation is in process), `PlaceInv` (an operation is
queued, in process or answered, and queued once), `FlushInv`, `LateInv` and
`StartInv`. The properties need each other: that `pendingOpCount` does not drop
below zero is `PendingExact`, that `Flush` may trust the event needs `PlaceInv`,
and so on, so the induction is joint. From it:

* `TypeCorrect`, `WakeupsKept` (`NoLostWakeup`), `PendingCounted`
  (`PendingExact`), `FlushIsComplete` (`FlushCovers`), `OpsFreedExactly`
  (`OpsCounted`);
* `Refinement` (`ImplementsService`): the initial state maps to the service's,
  and each step is a step of the service or leaves what it shows unchanged.

**`MFListProofs`.** `RingIsList` speaks of moments when the lock is free and is
far from inductive. `IInv` adds which entries are listed and that none is listed
twice (`Members`, `Distinct`), that the lock's holder is the one entry under way
(`Holder`), that forward pointers are right at every step (`Forward`) and
backward pointers except for the one that the statement under way is about to
repair (`BackwardBut`, `Stale`), and what that statement has read and written
(`Midway`). One lemma per statement, one step per conjunct. From it, for any
set of entries:

* `TypeCorrect`, `RingCorrect` (`RingIsList`), `EmptyTestJustified`
  (`EmptyJustified`): the unlocked test says *empty* only if the list was empty
  when it began to read, and *not empty* only if something is listed or somebody
  holds the lock.

**`MFCaptureProofs`.** `StartInv`: a number of `MFCap_Start` is the argument of
one call at a time and its thread does not exist before it is created.
`CallInv`: two calls in progress are an overlap, and without one the flag set by
a `Stop` stands until its end. `BufferInv`: a thread has what it is going to
release, or spent it in reads in a row without a sample. `OrderInv`: as long as
calls come in order (`Orderly`: no `misuse`), at most one thread runs, it is
known to the device or to the call in progress, and the device holds its
callback (`InOrder`). The first three hold in every order of calls. From them:

* `TypeCorrect` (`TypeOK`), `ReaderReferences` (`ReadersCounted`),
  `NothingAfterStop` (`StoppedIsQuiet`), `CallbackOfStart` (`OwnCallback`),
  `FaultsExplained` (`FaultCauses`), for any number of threads, starts and
  stops.

**`MFEnumerationProofs`.** `PassedInv`: what is listed comes from items the walk
has passed, so that an entry it collects is new and its references are counted
once. `HeldInv`: on the way, what is owned is what was collected and what the
round opened. `OutcomeInv`: entries are given up only after a failure, and a
caller told of success was handed all of them. `HiddenInv`: a failure no later
entry can hide is still what `ret` says. `CountInv`: the number of formats left
from an earlier stream is that of the entries collected for it, which is what
makes the null handler dangerous. From them, for any number of rounds and items:

* `TypeCorrect`, `Ownership` (`OwnedByCaller`), `Reported`
  (`FailuresReported`).

**`MFMessageProofs`.** A message keeps its shape (`WellFormed`): its flags say
which parts are sealed and whether it is signed, a header that is not sealed is
intact (`Sound`), and what was signed differs from what is there at most by a
header that got later (`Since`: a counter or a context was set, or bytes of a
sealed header were spoilt). Sealed data is as it was sealed unless it was padded
(`DataAsSealed`). `SignerOf` is what a receiver will find. From it:

* `ShapeCorrect` (`TypeOK`), `SealedDataOpens` (`DataOpens`: sealed data can be
  had back if and only if it was not padded and the header around it was not
  written to while sealed), and `OnlyPeerSigns` (`PeerSignature`), an action
  property: for any set of users, however often a message is relayed.

The sizes of `MFProtocol`, for every length and count: `ServerInfoFits` (name,
users and channels are written inside the body and apart, and the name keeps its
terminator), `NewUserFits` (the name fits exactly if it is no longer than its
field: the code leaves that to its caller), `ErrorMessageFits`, `MessageFits`
(the copy of the data fits exactly as long as the 32-bit total does not wrap).

**`MFCapDemoProofs`.** Types, rows and messages first: what `Enumerated` and
`Outcomes` can return for any list of devices is typed, has one row for each
object, and keeps the objects of devices that stay (lemmas about the operators,
each proved once). `RowsInv`: a row that is not waiting for its message lies
exactly if it was clicked an odd number of times while nobody was told.
`HearingInv`: the messages are a stack, and of those that keep a list from
hearing clicks the first remembers that it heard; so closing them in order, and
they can only be closed in order, restores hearing however deep they are.
`ClosedInv`: a closed window has no rows. For sessions the properties are
inductive as they stand, with what the objects of a click count to
(`SessionNumbers`). From them:

* `TypeCorrect` (`TypeOK`), `RowsHonest` (`ViewMatches`), `NothingLeft`
  (`RecordRollback`);
* `SelectionKept` (`SelectionSurvives`): an action property, from `TypeOK`
  and the lemmas about `Outcomes`.

The inductive invariants were checked with TLC on the runs' instances before
they were proved; they are not part of the runs, which check what follows from
them.

**Only model-checked.** The liveness properties, which the prover does not reach
(fairness and `ENABLED`): `QueueDrains`, `FreeReturns`, `PeersServed`,
`HangUpsNoticed`, `OpsAnswered`, `CreatorServed`, `StopReturns`. And that
`HeaderOpens` fails, which is a counterexample.

## 5. What is not modelled

* `libsodium` is third-party code kept in the repository: 259 of its 373 files
  and three quarters of its lines. It is left out for good, and with it
  any hope of mapping a large share of the lines of the whole repository; the
  program's own code has about 6000.
* Bytes: sizes of arrays, the contents of operations and messages. So the size
  of the poll array (mfbroker.c:174) is outside the models; of the padding in
  `MFMessage_DataEncrypt` only what it destroys is in.
* In server mode what is in a message, the callbacks' answers to it, and messages
  queued to be sent: they are left to the client module, as the code of a worker
  is the same in both modes. `MFBrokerServer` keeps the references of received
  messages.
* `MFBroker_Alloc` in client mode before the worker runs.
* Two workers with one share: thread indices count all threads of the process
  (mfthread.c:39), and the server module takes those of one broker as
  consecutive, from any first one. When another thread is created in between,
  two workers may walk the same slots, of which a run has too many states.
* The framing of the byte stream after a message the receiver could not store.
* Stream and format selection, seeking and length queries of the libraries:
  they forward to Media Foundation or to a callback and keep no state.
* `mfcrypto` beyond ideal sealing and signing: hashes, symmetric encryption and
  key generation are stateless calls of libsodium. The constructors of
  `mfprotocol` with a body of fixed size: they fill one structure.
* The media session behind `mfsession` and the video window of the demo; the
  layout and the texts of its window.
* `mfcapc`, which calls the capture functions once and prints.

## 6. Plan

Done, in this order: the client broker and its accounting proofs; the stream,
its service and its proofs; enumeration; capture; the server broker; messages
and the sizes of the protocol; the list and its proofs; the demo with its
sessions; then the proofs of the server, the capture, the messages, the
enumerations, the demo, and of the order and the checking of the client's
messages.

Next:

1. That `MFList` under its lock implements the sequence `MFBrokerClient` uses, as
   a refinement instead of an invariant.
2. The safety part of the arguments behind the liveness properties: that a
   worker that is not blocked, failed or finished has a step that brings it
   nearer to the queue's end, as invariants of the client and the stream.
3. Two workers with one share of the table (mfthread.c:39), on an instance small
   enough to be checked.

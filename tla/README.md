# TLA+ models of the FHMuenster programs

The repository collects course work of several subjects. This directory holds
TLA+ specifications of the parts with logic of their own that tests reach
badly, TLC configurations that check them on small instances, and TLAPS proofs
that hold for every size. Four parts are modelled:

- **OSMP**, a message-passing library for the processes of one machine
  (`src/OSMP/lib/OSMPlib.c`, started by `src/OSMP/OSMPRun/OSMPRun.c`);
- a **file transfer** between the TFTP client and server
  (`src/Netzwerkprogrammierung/tftp`);
- the **solar system**, a page that draws a scene graph with WebGL
  (`src/Computergrafik/src/szenegraph/index.ts`);
- the **search panel** of a program's documentation
  (`src/Projekt_Systementwicklung/html/search/search.js`).

## Inventory

| Component | State it keeps | Operations | What is hard | What makes it correct |
|---|---|---|---|---|
| OSMP messages (`OSMP/lib`) | one shared memory segment: 255 message slots in a linked free list, a ring of 16 slot numbers per process, five kinds of semaphores | `OSMP_Send`, `OSMP_Recv` | all processes step through the same lists; permits and lists are updated at different moments; one error return; slots are reused at once | no slot in two places, no permit without a slot or place behind it, messages delivered whole, once, in order; every call returns |
| OSMP collectives (`OSMP/lib`) | a count, a mutex and a condition variable; message slot 255 | `OSMP_Barrier`, `OSMP_Bcast` | barriers follow each other directly, so late leavers meet early arrivals; the slot is read without its mutex | nobody leaves a barrier early, everybody leaves it; every process gets the root's message |
| OSMP requests (`OSMP/lib`) | a `request_data` per request, shared by the caller and one thread | `OSMP_CreateRequest`, `OSMP_Isend`, `OSMP_Irecv`, `OSMP_Test`, `OSMP_Wait`, `OSMP_RemoveRequest` | `status` is read while another thread writes it, and kept when a request is used again; errors of the thread | `done` only when the operation is over; the buffer is complete after `OSMP_Wait` |
| OSMP launcher (`OSMP/OSMPRun`) | the segment, the children | `main`, `initMemory`, `initChild`, `OSMP_Init`, `OSMP_Finalize` | children initialise their own semaphores while others already run; stopped children are counted as ended | every semaphore is initialised before its first use; the segment outlives its users |
| OSMP examples, `OSMPFork`, `experimente` | none | straight-line programs | nothing | not modelled; they show how the library is used |
| cblib (`Netzwerkprogrammierung/tftp`) | callback table, descriptor set, sorted timer list | register, deregister, `start_timer`, `stop_timer`, `handle_event` | callbacks change the table and the list while `handle_event` walks them | every expired timer fires once; only registered callbacks run |
| TFTP server and client (`Netzwerkprogrammierung/tftp`) | a session each: file, block number, retransmission count, timer | requests, data and acknowledgement handlers, timeouts, teardown | loss, duplication, delay; the last acknowledgement; 16-bit block numbers | the file arrives as a prefix in order, completely when both sides say so; sessions end |
| TCP and UDP examples | the discard server's client table | accept, read, close | the largest descriptor is computed again when a client leaves | every connected client is served |
| HTTP server (`Projekt_Systementwicklung`) | the working directory of the process | one request at a time: route by host, authorise, answer | the directory is changed on some paths and changed back on others | after every request the next one starts where this one did; no page of the internal root without a password |
| Employee administration (`Software_Architektur`) | a repository shared by all windows; list, form and counter per window | add, delete, edit, filter, refresh | partial failure of commands; two windows | a list shows what the repository holds after a refresh; no employee is lost by an edit |
| Solar system (`Computergrafik`) | a tree of nodes, a matrix stack, the state of one WebGL context, downloads, keys, gamepads | `drawScene` per frame, `onload`, key and gamepad events | all nodes draw through the same context, matrices are multiplied in place, events arrive between frames and late | every body is drawn where it belongs, with its own buffers and look; the camera obeys what is held and plugged in; frames go on |
| Search panel (`Projekt_Systementwicklung/html/search`) | the field, the last word, two timers, filter and result windows, a frame with the results | focus, mouse and key handlers, timers, page loads | timers run while focus, mouse and field change; a key goes down in one element and comes up in another | at rest the screen shows what the field asks for; windows under the mouse stay; keys reach every result |
| MXR, plotters | numeric and graphical code | | no interleaving and no persistent state of their own | not modelled |

The components interact little. The OSMP parts share one memory segment: the
launcher creates it, messages and collectives use disjoint slots and
semaphores of it (only `shm_mutex` is common to `OSMP_Send`, `OSMP_Recv` and
the root of `OSMP_Bcast`), requests run the blocking calls in threads. The TFTP
programs run inside cblib's event loop and talk over UDP. In the solar system
one task of the page, a frame, alternates with the tasks of its events; they share the
context, the camera and the gamepad object. Search panel and result page live in two
documents and call each other's global object. The other components stand alone.

## Modules

| Module | Content |
|---|---|
| `OsmpMailbox` | abstract: a bounded mailbox per process |
| `OsmpMessaging` | `OSMP_Send` and `OSMP_Recv`; implements `OsmpMailbox` |
| `OsmpMessaging_proofs` | theorems about it |
| `MCOsmpMessaging` | its instance for TLC |
| `OsmpBarrier` | `OSMP_Barrier` and `OSMP_Bcast` |
| `OsmpBarrierWakeup` | the same with wakeups that no broadcast caused |
| `OsmpBarrier_proofs` | theorems about `OsmpBarrier` |
| `MCOsmpBarrier` | the instance of both for TLC |
| `OsmpRequest` | the non-blocking calls and the blocking calls in their threads, with the history of `OsmpMailbox` |
| `OsmpRequest_proofs` | theorems about it |
| `MCOsmpRequest` | its instance for TLC |
| `TftpTransfer` | one transfer: client, server connections, network |
| `TftpTransfer_proofs` | theorems about it |
| `MCTftpTransfer` | its instance for TLC |
| `Surfaces` | the triangles of sphere and cube |
| `Surfaces_proofs` | both are closed and face outwards |
| `SolarScene` | the tree that `index.ts` builds |
| `SceneGraph` | drawing a tree of nodes with WebGL, and the downloads of textures; uses `Surfaces` |
| `CameraInput` | keyboard and gamepads |
| `SolarSystem` | `drawScene`: composes `SceneGraph` and `CameraInput` |
| `SolarSystem_proofs` | theorems about its input |
| `SolarDrawing_proofs` | theorems about its frames, for any scene and for that of `SolarScene` |
| `MCSolarSystem` | the instance of `SolarSystem` with the tree of `SolarScene` |
| `SearchResults` | a page of results and the order in which the keys walk over it |
| `SearchPanel` | the search box, its timers and the frame, on top of `SearchResults` |
| `SearchPanel_proofs` | theorems about the filter window, the search and the walk over its results |
| `MCSearchPanel` | its instance for TLC |

### OsmpMessaging

The variables carry the names of the fields of `struct shared_memory` and
`struct process`. A semaphore is its value; `sem_wait` is a step whose guard is
that the value is positive. `messages[s]` keeps what a receiver can tell
apart of a slot: sender, length and contents. `elt_zahl` and `elt_datentyp` are
written but never read, and count and type of a call appear as their product, the
length in bytes. The free list is the links `next_free_msg_slot` from
`actual_free_slot`; slot 255 belongs to the broadcast and is not in it.

Steps are as small as the code lets other processes see: every `sem_wait` and
`sem_post` is one, and so is the copying of header and payload on either side.
A section under `shm_mutex` or `proc_mutex` is one step together with
the `sem_post` at its end, because what it touches is touched under this mutex
only. `OSMP_Recv` moves `read_index` without a mutex (the calls are commented
out, lines 122 and 151). The model therefore assumes one receiving
thread per process (`OneReceiverAssumption`), as in the programs under
`OSMPRun/`, and takes wrap, load and increment as one step. Any number of threads
of a process may send.

What the threads do is a constant, `Program`: a finite sequence of calls
for every thread, with any destination and any length. Calls the library
refuses (wrong destination, too long) take `SendRejected`, a message
that is longer than the receiver's buffer takes `RecvTooLong` with all that this
return leaves undone.

History variables record what the data structures stand for and are never read by an
action: `free` and `queue` are the free list and the rings as sequences, `taken`
the messages found in the rings, `got` the results of `OSMP_Recv`.

`OsmpMailbox` is the promise: at most 16 messages per mailbox, entered
whole, left in order. `SendEnqueue` maps to `Put`, `RecvTake` to `Take`, and all
other steps, including every write to a slot, must leave all mailboxes as
they are. The promise ends where the slot number has been taken out of the ring; what
happens to the message afterwards is `RecvIntact`, and that one fails.

### OsmpBarrier

`bcast_mutex` is released in one place only, inside `pthread_cond_wait`. The
body of `OSMP_Barrier` up to the wait is one step (`ArriveWait`, or `ArriveLast` for
the process that brings the count to 0) and the rest another (`Leave`).
`waiting` are the processes blocked on the condition variable, `woken` those that were
released by the broadcast and have to reacquire the mutex. All processes
run the same sequence of collective calls (`Program`), as the library's
documentation demands for the root of a broadcast. The slot has a header and a
payload so that a reader between the two writes is noticed. `entered` and `passed` count
the barriers a process has arrived at and left.

`OsmpBarrierWakeup` adds what POSIX allows `pthread_cond_wait` to do, to return
without being signalled. It is apart from the main module because the code does not
survive it, and everything else is worth knowing for an implementation that
never does it.

### OsmpRequest

A request is its memory (`allocated`), its `status`, the arguments the thread
needs (`fields`), the buffer it points to (`buf`) and its thread. `thread` goes from
`created` through `calling` and `returned` to `ended`: the first assignment to `status`
(`Mark`), the blocking call, the second assignment (`Finish`), whatever the call returned.
`OSMP_CreateRequest` leaves any value in `status`.

The blocking calls are taken apart as far as threads of different requests can see into each other, more
coarsely than in `OsmpMessaging`. Permits for places and slots, the free list and
the rings are here as counters and sequences (`proc_free`, `free_slots`, `free`, `ring`); a slot and a receive buffer
have a header and a payload (`Contents`), each naming the message it is of, so that half of one message
and half of another can be told from a whole one. `OSMP_Send` reserves a place (`SendReserve`), takes a slot
(`SendPop`), writes header and payload, and publishes (`SendPublish`). `OSMP_Recv` takes the first slot of the ring
and puts it back on the free list before anything is read (`RecvTake`), checks the length, and copies header and payload
out of a slot that may by then be another sender's. Its error return (`RecvTooLong`) posts neither permit, and the thread goes
on to `Finish` as after `SendRejected`, for a wrong destination or a length over `OSMP_MAX_PAYLOAD_LENGTH`.

Steps are joined where no other thread can tell: the pop with the permit taken just before it (permits
never exceed the free list, `PermitsCovered`, so nobody takes the slot in between), the entry in the ring with the
`sem_post` that announces it, the removal from the ring with the return of the slot (one receive of a
process at a time), and the two `sem_post` at the end with the last read. The steps
below these, and the wrapping indices, are those of `OsmpMessaging`.

A message is named by the process and the position of the call that sends it, and no two are equal. `box` and
`delivered`, the variables of `OsmpMailbox`, record what was published and taken,
`taken` which message a receive took, `disturbed` the receives whose slot went to a sender while they read;
no action depends on them (`Take` of `OsmpMailbox` has the guard of the ring once more, see `RingHolds`).

What the caller has to respect is in the guards: `OSMP_Wait` before a request is used
again or removed, and one receive of a process at a time, because `read_index` has
no mutex. A receive gets a buffer without a message in it, so that what it leaves there is its own. Requests in
`Polled` may be polled between any two calls, as long as their operation has not been waited for. `seen` records the
answers.

### TftpTransfer

One transfer of one file, `get` or `put`. A packet is its kind, its block number and
where it goes; the two directions are sets of packets, so that packets overtake each
other, and `Receive` may leave a copy behind. A packet that is never received is a lost
one. A block is its number. What the last block holds (`tail`) matters to three
comparisons that disagree: `last_read < DATA_MAX` and `file_size_in_blocks` in the server, and
`sendData(session) < 516` in the client, which sends 16 bytes more than it reads.
So a last block of 500 bytes or more (`near`) makes the client send one
more, empty, block, and the same number of bytes decides in the server when to close.

An action is a callback: a packet for the listening port (`OpenConnection`, once for each
copy of the request), for a connection (`HandleRead`, `HandleWrite`), for the client
(`GetCommand`, `PutCommand`), or a timer of either side. Timers may run out whenever they
run, which covers every length of a timeout and every schedule of `cblib`. The server asks for
8 bytes of a request (`sizeof(req)`, line 249) and decodes the rest of what `malloc`
returned: whether it accepts the request or exits is open. The client writes the
16 extra bytes past the end of its send buffer, which clears its timer pointer
(`timer`) as soon as a full block is sent.

### SolarSystem

`drawTraversal` is recursive. `calls` is its stack, and each step enters one node
(`DrawNode`: push the product, then `node.draw`) or returns from one (`Return`: pop). No
event is handled while `calls` is not empty: JavaScript runs a task to its end. The WebGL
context `gl` is what a draw call depends on: the bound buffers, the buffer each
attribute points to, the bound texture, the material, light and model matrix uniforms. A matrix is
the sequence of factors it was multiplied from, each with the days its node has turned; the
pixels on the screen are the draw calls (`drawn`) with a copy of all of this. The clock may stand
still or advance at each of the two readings in `daysPassed`.

`SolarScene` is the tree: the order of children is the order of the calls of
`addChild` and `setMaterial`. `Shown` restricts it to some of the ten planets.
`CameraInput` has the five velocities of the camera, set by `keydown` and all cleared by any
`keyup`, and the object `gp` of `gamecontroller.ts`. The environment presses and
releases keys with or without the focus of the window, and plugs in and pulls out gamepads
while the events of earlier changes are still waiting. A frame can throw in two places, before the scene
is drawn (`AbortFrame`) and in the camera's draw (`ThrowInDraw`); the next frame is then never requested. All the
model keeps of the camera's matrix (`cameraMatrix`) is whether it is NaN: then it is for good.

### SearchPanel

`panel` is the `SearchBox` with the style attributes it writes. Every handler is one action,
with all the calls it makes. The wiring is that of `menu.js`: focusing and leaving the field call
`Activate`, whatever moved the focus, so operators that move the focus call it too. The environment is
a user with a keyboard and a mouse. `key` is the key that is down; its release goes to the
element that has the focus by then, which need not be the one it was pressed in. `forgotten`
counts timers that `Search` has overwritten with 0 and that run on. Texts are members
of a small set with two functions: the text without spaces, and without leading ones.

`SearchResults` defines the rows of a page, what is visible after `Search`, and the targets of
the arrow keys, next to a reference definition: the visible places in reading order.

## Runs

| Run | Expected | What it shows |
|---|---|---|
| `osmp_messaging` | pass | permits, slots, rings and messages are exact, the rings implement mailboxes, all calls return |
| `osmp_recv_intact` | violation of `RecvIntact` | a receiver can return a message that was overwritten after its slot was given back |
| `osmp_barrier` | pass | nobody leaves a barrier early, every broadcast is delivered whole; the first barrier always returns, and all of them do in orderly runs |
| `osmp_barrier_lost` | violation of `BarrierReturns` | with two barriers in a row an arrival is wiped out and the program hangs |
| `osmp_barrier_wakeup` | violation of `BarrierHolds` | a wakeup without a broadcast opens the barrier |
| `osmp_request` | pass | no thread outlives its request, a send that was waited for and not refused has arrived once, receives get messages of their own, whole unless a sender got the slot, nobody blocks |
| `osmp_request_test` | violation of `TestTruthful` | a poll says done of an operation that has not started |
| `tftp_transfer` | pass | downloads are the file, uploads without a timeout of the server are acknowledged truthfully, connections end |
| `tftp_upload_lost` | violation of `AckedIsWritten` | a timeout of the server acknowledges a block that it has not got |
| `solar_system` | pass | each frame draws each body once, where, and with what, it should; textures that arrive are seen |
| `solar_input` | pass | held keys and present pads drive the camera; frames stop in two ways only |
| `doc_search` | pass | screen and field agree at rest, hovering keeps the window, keys walk in order, timers end |

**Bounds.** `osmp_messaging` has three processes with one thread each, rings of two
places instead of 16 and a pool of two slots instead of 255. Process 1 receives
three messages from two senders and sends one itself. Three messages through a
ring of two make both indices wrap, and two slots for four messages make senders wait
both for places and for slots and reuse slots as soon as they are given
back. Three senders and receivers are needed for the deadlock that could come from
waiting for a slot while holding a place. One message has the length 2 and one receive
the limit 1, so depending on the order of arrival the error return is taken or
not. The rejected calls go to the caller itself and exceed the length. Deadlock is
checked: the only state without a further step is that of `Terminating`.
`osmp_barrier` has three processes, since with two the process that is lost
cannot be told from the one that waits; two broadcasts with different roots and a
barrier between them give five barriers in a row. Deadlock is not checked there,
because `osmp_barrier_lost` shows that the program can stop; what must
return is stated as liveness.

`osmp_request` has two processes with mailboxes of one message and two slots. Each sends two
messages and then receives two, so that both are full at the same time. Process
0 has three requests, two of them pending together with a receive, and uses one for a
send and then for a receive, and removes it; process 1 uses one request for five operations. Its last send is
too long for any slot, to a process that exists, and one message of process 0 is too long for one
of the two receives, so that the error return is taken or not. A slot is handed to a sender while it is still
read, before the length was checked, between header and payload, and after. Two slots are as many as the places that
can be taken at once, so no sender waits for a slot here (`osmp_messaging` has those that do). The one request
that is used again while its process does other things is polled.

`tftp_transfer` has a file of two blocks, since a block in the middle, a last one and one past the last
are what the code tells apart, and two connections: a repeated request is the only way to a
second one, and a third would do the same again. Each kind of `tail` is tried for each
command. One timeout per connection and client before giving up instead of three, and one duplicate:
repeated packets also come from every timeout. Deadlock is not checked because sessions
end. `tftp_upload_lost` needs one connection, one block and no copies.

`solar_system` shows sun, earth, moon and mars. They have a body at the root of the orbits with the
light below it, two sibling orbits, an orbit inside an orbit, both kinds of bodies, and planets
whose material is set once (in the constructor and again) or replaced; the other planets repeat
mars. The clock reaches 1, so that frames with and without passing time alternate. The
sphere has 3 by 4 bands instead of 100 by 100: the least with two rows of inner
vertices and a strip that wraps. `solar_input` shows the sun alone, with one key of each kind of
movement, two pads and two events under way: a pad that comes and goes before its first
event is handled, and another one in between, which has only four axes.

`doc_search` has the words "ps", " ps" and "p s" next to the empty one and the label: with leading
spaces, with inner ones, and without. The pages are excerpts of the generated data: a row without children,
two with two, one of the rows filtered out. One filter is enough to step past the
last one. One forgotten timer at a time.

**Fairness.** The specifications assume weak fairness of every process's and thread's next
step: the kernel goes on scheduling a thread that is not blocked. A thread blocked
on a semaphore is guaranteed to get it only if it stays available. In the
instance this is enough for `AllReturn`: every receive has its message, and
there are finitely many calls, so nobody can be overtaken for ever. Barriers need no more, since the mutex is never
held across a step. `TftpTransfer` assumes only that a connection's timer
runs out while the connection is open (weak fairness; `start_timer` is called for each); no packet need
arrive and the client need do nothing. `SolarSystem` assumes that the browser runs a requested frame and goes on
with a task that has begun (weak), and handles the end of a download between some two of
infinitely many frames (strong, because no event is handled within a frame); nothing
about the user. `SearchPanel` assumes that timers end and pages load.

**What the properties say about the code.**

- `PermitsSuffice` relates each semaphore to the list or ring it stands for and
  to the threads between the two: no pop from an empty list, no ring entry
  overwritten.
- `PermitsConserved` is the converse: exactly one permit of each kind is lost by a
  failed receive (`OSMPlib.c` 145-148) and none otherwise.
- `SlotExclusive`, `NoSlotLost`: a slot is free, queued or owned by one thread, and
  always one of these.
- `DeliveryExact`: what a ring delivers from a sender is the sequence of what this
  sender sent. It compares the two ends of a transfer, not the steps between.
- `ImplementsMailbox`: the same per step, as a refinement.
- `BarrierHolds`, `BcastDelivered`: what the collectives are for. `IInv` and
  `BInv` in the two modules are the inductive invariants the proofs use.
- `FirstBarrierReturns` and `OrderlyBarrierReturns` mark how far `BarrierReturns`
  is true: it can only go wrong if a process enters a barrier while others have
  yet to leave the one before.

- `RequestOutlivesThread`: thread and caller share the request without a lock or a
  count of references; only the join in `OSMP_Wait` keeps a thread off freed
  memory.
- `TestTruthful` is what `OSMP_Test` is documented to do. `ProgressTruthful` is what is
  left of it: once a poll has said inprogress, done means done.
- `WaitedSendsArrive`, `BuffersIntact`: what a caller may rely on after
  `OSMP_Wait`, whatever the order in which threads got to the rings. A send that was not refused has arrived, once and
  whole. A receive has a message that no other one has; its buffer holds all of it, or nothing if it was
  too long, with one exception: a sender was handed the slot before the receive had read it. `RecvIntact` in `OsmpMessaging` shows
  that this happens, `BuffersIntact` that nothing else does.
- `DownloadFaithful`: connections that know nothing of each other, and acknowledgements that make
  them send any block, still leave a file in order and complete at the client.
- `UploadAcknowledged`: the server acknowledges every number that arrives, and yet nothing is taken for
  written that is not, until a timer of the server runs out; then `AckedIsWritten` fails.
- `ConnectionsEnd`: with acknowledgements that restart the count of timeouts, connections
  to clients that are gone must still end.
- `StackFollowsCalls`, `OneInstant`: the stack keeps copies, each node multiplies in place and turns
  itself right after its matrix was used; the result must be one consistent picture.
- `OwnBuffers`, `OwnLook`, `FreshUniforms`: nothing a sibling, an earlier frame or a download left in
  the context is drawn with. They depend on the order of statements, and of children.
- `ClosedBodies`: the strip's degenerate triangles and turns, and the cube's corners, give closed surfaces that face
  outwards, which `CULL_FACE` takes for granted.
- `ImagesShown`: an arriving texture, which unbinds itself, is seen in a later frame.
- `HeldKeysDrive`, `ControllingPadPresent`: velocity and controller always have a cause, unless a
  release was lost to another window or a disconnection is still to be handled.
- `EndsOnlyByUnfitPad`, `FramesGoOn`: a frame throws, and is the last one, for two reasons only: a pad
  that had vanished when its connection was handled (`updateStatus`), or one with fewer axes than
  `axesAction` reads (`Camera.draw`, some frames or events later than its cause).
- `SettledResults`: whatever happened before, at rest the results belong to the word in the field;
  the excepted cases (`missed`, `SectionMissing`) are where the code leaves older results.
- `HoverKeepsWindow`, `NavInOrder`, `ComesToRest`: the hide timer, the arrow keys against the reference
  order, and timers that do not go on for ever.
- `AllFinish`: non-blocking sends do not block. Started inline, the same program
  stops.

The operators named as mutations in the modules are defective variants of single
steps (a missing wait, an index that is not incremented, a signal in place of a
broadcast). Each makes one property fail under the configuration of its run, which
shows that the property depends on that step. They are not part of any
specification.

## Proofs

Every theorem holds for all constants that meet the assumptions of its modules. TLC evaluates
these for the instances; what justifies them in the code is this.

- `ConstantsAssumption` of the OSMP modules: there is at least one process, rings have at least one
  place, the pool at least one slot besides the broadcast's, programs are finite sequences of
  calls; for requests, there are finitely many and a process uses only its own. `OneReceiverAssumption`: one thread
  of a process receives, as in all programs under `OSMPRun/`.
- `TransferAssumption`: the listener's port is no connection's, the file has at least one block and
  its block numbers fit into 16 bits, the bounds are natural numbers.
- `InputAssumption`: `FirstPad` is a pad, the value for no pad is none, the bound on events is a natural number.
- `SceneAssumption`, `TreeAssumption`, `LineageAssumption`: the scene is a graph without
  cycles, one path leads to each node that turns, every body can be reached from the root, and only materials
  hang on several nodes. `index.ts` builds the graph once, with one `addChild` for each orbit and body, and shares
  materials only. The scene itself (which bodies, in which order) stays open. `ShownAssumption`, for the scene of
  `SolarScene`: the sun is built, and the moon only with the earth, on whose orbit it hangs.
- `BandsAssumption`: a sphere has at least two bands of latitudes and three of longitudes (the code has
  100 of each); with fewer it has no inside.
- `TextsAssumption`: removing spaces (`replace(/ /g, "")`) twice does no more than once, and leading
  spaces make no difference to it; the sections are numbered from 0 without gaps, as
  `indexSectionsWithContent` in `searchdata.js` numbers them.
- `PagesAssumption`, `GapsAssumption`: a page is a list of rows, each with a number of children; a
  matching row with hidden rows between it and the next matching one has no children. All pages
  under `html/search` are like this: they are sorted by name, so that matching rows follow each other,
  except that `all_c.js` starts with a title, which has no children.

`OsmpMessaging_proofs` shows `Spec => []IInv` and from it

- `TypeCorrect`, the type invariant;
- `PermitsSafe`: the mutexes exclude and every promise of a semaphore is covered;
- `SlotsSafe`: slots are never in two places, and the links and rings hold exactly
  the sequences `free` and `queue`;
- `MailboxImplemented`: `Spec => Mailbox!Spec`;
- `NoSlotLeaks` (`NoSlotLost`) and `PermitsKept` (`PermitsConserved`);
- `DeliverySafe` (`DeliveryExact`).

The type invariant is not inductive alone. That a popped slot number lies in
the pool depends on the free list not being empty, which depends on `free_slots`; that a
slot in a ring keeps its contents depends on its writer being the only one to own
it. The invariant therefore joins `TypeOK`, `Locks` and `PermitsSuffice` (counting:
every step moves one thread in or out of the sets whose sizes appear there, lemma
`SetsMove`), `SlotExclusive`, `FreeListIntact` and `RingIntact` (every step moves at
most one slot from one place to the next, lemma `SlotMoves`), and `SlotContents` (what a
sender has written to its slot so far is still there). `NoSlotLost` and `PermitsConserved` are part of it,
since they are inductive beside the others: the counting of `SetsMove` now runs over equations, and the
one step that unbalances them, the error return of `OSMP_Recv`, adds a failure on the other side. That it
adds exactly one needs `SenderNamed`: a result in the making never looks like that of a refused
call, because the header was copied before. The refinement then
looks at the two steps that change a mailbox, and at `SlotWrites`: whoever writes to
a slot owns it, so nothing that waits in a ring is altered.

`DeliveryExact` is stated as a correspondence: the calls of a sender that were accepted for a process and
the messages from it in that process's ring (or taken from it) can be numbered together, in order, each
message with the length and contents of its call. It is inductive once `IInv` holds and `todo` is known to be the
rest of the program (`RestOfProgram`): a publication adds one call and one message at both ends
(`CorrespondGrows`, with the contents from `SlotContents`), one by another process only a
message that is not looked at (`CorrespondOther`), and no other step changes either side
(`ArrivalsStep`, `SentStep`).

`OsmpBarrier_proofs` shows `Spec => []IInv` and `Spec => []BInv`, and from them
`TypeCorrect`, `BarrierSafe` and `BcastSafe`. For the barrier the point is that the count
may be reset too often but never too low: `cond + Cardinality(waiting) >= Size`
(`NoEarlyWake`). A count of 1 then means that all others wait. For the broadcast,
processes are at most one barrier apart (`SamePlace`), so the slot holds the current
message until everybody has passed the second barrier (`SlotHolds`).

`OsmpRequest_proofs` shows `Spec => []IInv` and from it `TypeCorrect`, `ThreadsSafe`
(`RequestOutlivesThread`), `ProgressSafe` (`ProgressTruthful`), `SendsSafe` (`WaitedSendsArrive`)
and `BuffersSafe` (`BuffersIntact`), for all programs and numbers of processes, requests, places and slots.
The invariant has four parts. `RequestInv` is about the memory: that a request
is allocated while its thread runs follows from its being pending
(not in `waited`), and pending requests are never removed; that status is not done
too early needs its value at every place of the thread (`Consistent`). All steps of a
thread go through one lemma, `WorkerKeeps`.

`MessageInv` follows the messages. A message has the number of the call that sends it, and a pending
request belongs to one call only (`Named`): none that waits for it lies between that call and the
process's next. So what a thread has still to send is nowhere yet (`UnsentNotArrived`), and
whatever was published or taken is there once (`MessagesOnce`) and was sent, and not refused, by a call the
process has passed. `SendsArrive` turns this around: each accepted send has arrived or its thread
still has it. At the return of `OSMP_Wait` the thread has ended, which leaves only the first. For receives,
each has taken a message of its process, and a message is taken once (`TakenApart`).

`SlotInv` follows the slots. A slot is free, in one ring or with one sender (`SlotsApart`), although a receive may still read it: so nobody
writes what lies in a ring, and the slots of a ring hold the messages of `box` in order (`RingHolds`). A slot that is being read is on the
free list until it is handed out, which is when its reader becomes `disturbed`; until then nobody writes it,
and what the reader has copied is its message (`ReceiverHolds`). `PermitsCovered` counts: a
permit for a slot means that there is one, since a reader keeps the permit of the slot it has given back. These are
inequalities, because a failed receive loses permits. Each step moves one request in or out of the two sets that are
counted (`PermitsMove`).

`TftpTransfer_proofs` shows `Spec => []IInv` and from it `TypeCorrect`, `DownloadSafe`
(`DownloadFaithful`) and `UploadSafe` (`UploadAcknowledged`), for every number of
connections, file length and bound on timeouts and copies. Neither property is inductive: what a
server's connection or the client concludes from a packet depends on the packets that
are still under way. Three facts about those make the invariant: no packet to the server
names a block beyond the client's (`NotAhead`; so an old acknowledgement can only
send a reading connection back, and it closes only after the client has everything); nothing
comes from a connection that was never opened (`Unopened`); and while one connection
answers that never timed out (`Undisturbed`), every acknowledgement under way names a block
that it has written, so the client's count is at most one ahead of its file. A
timeout breaks the last one, which is the finding on `AckedIsWritten`. The steps
of the server's connections go through one lemma, `ServerKeeps`, those of the client through
`ClientKeeps`. The network needs no invariant of its own: `Receive` only ever leaves packets
that were there before.

`SolarSystem_proofs` shows `KeysSafe` (`HeldKeysDrive`), `PadSafe` (`ControllingPadPresent`)
and `AnimationSafe` (`EndsOnlyByUnfitPad`), for all keyboards, numbers of pads and of their axes and
bounds on events, and whatever the scene is. The invariant adds `ControllerFit`, that the
object says connected without a controller only after a pad vanished, and has a controller without the
axes only after such a pad came, and `CameraFit`, that the camera's matrix is NaN only then:
these are the two moments at which a frame throws. Drawing does not touch the input (`InputStays`).

`SolarDrawing_proofs` shows `Spec => [](running => DrawInv)` (`DrawingInvariant`; the exception that ends the
animation leaves the calls but not the matrix stack, so `PageInv` says less of what comes after) and from it `SolarTyped` (`SolarTypeOK`),
`StackSafe` (`StackFollowsCalls`), `BuffersOwn` (`OwnBuffers`) and `InstantSafe`
(`OneInstant`). The traversal is recursive, and the proof goes without induction over the tree: the
invariant describes the work that is left. `Pending` are the children that the calls on the stack
have yet to visit, and `Ahead` what hangs below them. No node that turns is ahead of two of them (`PendingApart`;
entering a node replaces its subtree by those of its children, which `TreeAssumption` keeps apart), so
a node has turned by this frame's days exactly if nothing that leads to it is pending (`TurnedInStep`). Then the
product that `drawTraversal` pushes has the factors of the frame before throughout, and equals the
matrix of the node's own lineage (`CallsInPlace`; materials have several parents and no
matrix of interest). A draw call copies that matrix and the buffers bound on the way (`DrawnInPlace`). For the
buffers, the lemmas `SphereBound` and `CubeBound` go through the calls that bind them, for the cube over its twelve
triangles, and rely on nothing that was bound before.

From the same invariant, strengthened, follow the three properties that speak of the order of the children.

- `LookSafe` (`OwnLook`) assumes `LooksPrecede`: material and texture of a body stand before it among the children
  of its planet, and nothing drawn between replaces them. The property speaks only of finished draw calls, so the invariant
  `LookInv` has to say what the context holds for the bodies to come: a part of a look that has been drawn is still
  bound or set (`LooksHeld`). Entering a child may draw a whole subtree with looks of its own; that those lie
  in the subtree of the child just visited, and not between the look and its body, is `CallsNested`.
- `LightSafe` (`FreshUniforms`) assumes `LightFirst`: the root is the camera, and on every level the child with the light
  comes before all bodies that need it. `LightInv` says that until the light is set it is still ahead of every
  such body (`LightComes`), in whichever call of the recursion either of them waits.
- `PageSafe` removes both hypotheses. `OnPage` says that the constants of `SolarSystem` are the scene of `SolarScene`, and
  `PageLooks` and `PageLight` show that this scene meets them, for every choice of planets. Both go wrong if a planet
  gets its body before `setMaterial` or the sun is added after the orbits around it.
- `BodiesClosed` (`ClosedBodies`) needs no hypothesis. `BodyInv` says that each body has been drawn with all its parts
  or is still to come; at the end of a frame nothing is. What remains is geometry, and `Surfaces_proofs`
  shows it for every number of bands: `SphereProper` describes the triangles of the strip that are not
  degenerate, two for each cell and one at the poles; `UpperMet` and `LowerMet` find for each of their edges the neighbour that
  runs along it the other way, also across the seam of the longitudes; `ThreeEdges` counts them. The
  strip repeats two vertices between any two cells and changes rows on the seam; all triangles made there are
  degenerate. `SphereFacesOut`, `CubeCloses`, `CubeOutward` and `TextureWhole` are the rest of the property.

`SearchPanel_proofs` has two parts. The first shows `HoverSafe` (`HoverKeepsWindow`) for all texts, filters and
pages. Every method of `SearchBox` except `OnSearchSelectHide` either leaves the timer
alone or stops it (`Keeps`), in whatever order a handler calls them; the invariant only adds
that the record keeps its fields.

The second shows `Spec => []SearchInv` (`SearchInvariant`) and from it `PanelTyped` (`PanelTypeOK`),
`ResultsSettle` (`SettledResults`) and `WalkSafe` (`NavInOrder`). `SettledResults` speaks of rest, so the
invariant has to say what holds before it: `ShowsLast` (the frame has or is loading the page of the
last word), and `LookedFor`: once no timer is left, the field and the last word agree up to spaces,
unless a key is still down or its release was lost. Handlers call several methods of `SearchBox` one after
the other, and `LookedFor` does not hold between them; each method therefore has a lemma of
its own (`ActivateOrderly` to `FocusOrderly`), and the handlers are put together from them.

`WalkSafe` needs nothing of the state but that the focus is on something readable; the rest is
a theorem about the walk, for every page and every set of unfolded rows. `NavNextFinds` and `NavPrevFinds`
say what the two searches return, `DownLeads` that nothing readable lies between a place and
the next, `UpBack` that Up returns. There the code looks for the last child under the row just above
(`search.js` 597-611) and not under the one that `NavPrev` found, and `RowBack` shows where `GapsAssumption`
is needed.

Every safety invariant and every action property of the runs that pass is stated by a theorem. Only checked by TLC,
on the instances above, are the liveness properties `AllReturn`, `AllFinish`, `FirstBarrierReturns`,
`OrderlyBarrierReturns`, `ConnectionsEnd`, `ImagesShown`, `FramesGoOn` and `ComesToRest`: liveness under
fairness is outside what the prover handles.

## What the models show about the code

1. `OSMP_Recv` gives its slot back (lines 134-136) before it reads it (138-143).
   Run `osmp_recv_intact`.
2. `OSMP_Barrier` resets the count in every process that leaves (line 205), which
   wipes out arrivals at the next barrier. Run `osmp_barrier_lost`.
3. `OSMP_Barrier` waits under an `if` (lines 199-204). Run `osmp_barrier_wakeup`.
4. `OSMP_Test` returns a `status` that is not set before the thread runs (lines 243,
   272-291, 294). Run `osmp_request_test`.
5. The thread of `OSMP_Isend` marks a request done even if `OSMP_Send` refused the
   message (256-257), and that of `OSMP_Irecv` even if `OSMP_Recv` failed (266-268): `SendRejected` and
   `RecvTooLong` go on to `Finish`.
6. The error return of `OSMP_Recv` (145-148) loses two permits; this is how the model
   works and what `PermitsConserved` counts.
7. A TFTP server that times out in an upload acknowledges the block it waits for
   (`tftp_server.c` 154-156, 193-196, 285). Run `tftp_upload_lost`.
8. A download whose last block is empty is complete at the client, which does not acknowledge that
   block (`client.c` 313); the server sends it until it gives up, without closing its file
   (`tftp_server.c` 140-147).
9. A repeated request opens a second connection (`tftp_server.c` 224-306) and, for an upload, opens the
   file again with `w+`. The model gives each connection a file of its own.
10. A gamepad that is gone when its connection is handled ends the animation (`gamecontroller.ts` 32, 79-85):
   `AbortFrame`. So does one with fewer than five axes, such as a pad with two sticks: the missing axis makes the
   camera's matrix NaN (`gamecontroller.ts` 72-74), `mat4.invert` returns null and `mat4.mul` throws
   (`camera.ts` 51-52): `ThrowInDraw`.
11. A key released in another window leaves the camera moving (`camera.ts` 71-74): `missed` in `CameraInput`.
12. Leaving the search field within half a second after typing resets it to the label, and the timer then
   shows results for the label (`search.js` 372-397); a filter chosen past the last one makes `Search` throw (270, 323).
13. Up asks whether the children of the previous visible row are unfolded, but then looks for the last child
   of the row just above (`search.js` 597-619). Where hidden rows lie between the two it would skip the children or step
   to one of a hidden row. The generated pages have no such place: that is `GapsAssumption`.

## Not modelled

Of OSMP: the bytes of a payload, addresses (the discarded result of `realloc` in
`OSMP_Bcast`, line 235), the exit of a process when a system call fails, crashes of
single processes (the library has no recovery), two threads of one process that receive
at the same time, a start in which a process sends before another has
initialised its semaphores, and the fork and wait loop of the launcher. Messages and
collectives are modelled apart: they share `shm_mutex`, which both hold for single
steps only, and nothing else.

Of TFTP: contents of files (`memccpy` in `client.c` 283 stops at the first byte with value 1, and the
server writes up to 12 zero bytes after a short last block), file names and modes, last blocks of 505 to 511
bytes (they overwrite half of a pointer), more than 65533 blocks, several sessions of one client, failing
system calls. The event loop `cblib` is covered in its schedules only: its callback table and timer
list are pointer structures walked while callbacks change them.

Of the solar system: coordinates, projection, shading, the amount by which a gamepad with all its axes moves the camera, the days lost between the two clock
readings of `timer.ts` 15-16, and the buffers `square.ts` 37 creates in each frame and never deletes.
`framerate.ts`, `component.ts`, `sphere.ts`, `cube.ts`, `keyboarddemo.ts` and
`triang-index.ts` are not used by the page.

Of the search panel: pixel positions, the case of letters and the escaping in ids (`convertToId`; the constant
`Matching` says which row names a word begins), browsers that send `keypress` for arrow keys, and
`initMenu` apart from the elements it wires.

The HTTP server, the TCP and UDP examples, the employee administration, the numeric
and the plotting programs are not modelled. The HTTP server's behaviour lies in strings and the file system, one
request at a time; the employee administration is a user interface over a list; the others compute
without shared state. The hazards of the first two are listed in `PROJECT.json`.

## Plan

Worth modelling: `OsmpRing`, the ring of one process with two receives at
the same time against the promise of `OsmpMailbox`; the launcher; and cblib's timer list.

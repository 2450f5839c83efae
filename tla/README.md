# sans-io-runtime: specifications

TLA+ specifications of the runtime in this repository (crate `sans-io-runtime`),
model-checked with TLC and, for the properties named below, proved with TLAPS.
Paths are those of the crate (`worker.rs` is `src/worker.rs` of the repository).
`PROJECT.json` lists the runs, the source lines of each definition, the hazards,
the findings and the theorems.

## The system

A `Controller` starts worker threads. Each `Worker` runs an application object
(`WorkerInner`), usually a few `TaskGroup`s of sans-I/O tasks: they are given
inputs and then asked, with `pop_output` until it answers `None`, what they want
done. Threads share nothing but three buses (mutex-protected queues); the network
is reached through a `Backend`.

| Part | State it keeps | Operations | Talks to |
| --- | --- | --- | --- |
| `collections/dequeue.rs` DynamicDeque | fixed part, heap part | push_back, push_back_stack, pop_front, pop2, len, is_empty | used by bus legs, backends, controller |
| `collections/vec.rs` DynamicVec | fixed part, heap part | push_stack, push, pop, set, get, get_mut, last, is_empty, len | task groups, backends |
| `collections/bit_vec.rs`, `task/switcher.rs` | bytes, length | set_len, set_bit, set_all, first_set_index | task groups, inners |
| `task/group.rs` TaskGroup, `TaskSwitcherBranch` | slots, count, set of empty tasks, flags, emptiness announced | add/set/remove_task, on_tick, on_event, on_shutdown, pop_output | the tasks below, the worker's inner above |
| `bus/leg.rs` | queue, awaker (one mutex) | push_safe, push_generic, pop_front, set_awaker | senders on any thread, one receiving worker, its awaker |
| `bus.rs`, `bus/local_hub.rs` | legs and channels (two RwLocks), each worker's hub | new_worker, subscribe, unsubscribe, publish, broadcast, send | workers among themselves, controller and workers |
| `worker.rs` | last tick, hub, backend, inner | process: control messages, tick, poll, network events, Awake | controller by bus, inner by calls, backend by calls |
| `controller.rs` | per worker: statistics; shutdown flag; outputs | add_worker, spawn, send_to, send_to_best, shutdown, process, pop_event | workers by bus |
| `backend/poll.rs`, `backend/polling.rs` | sockets by slot, output queue, awake flag, tokens | poll_incoming, pop_incoming, on_action, awake | operating system, worker |
| `buffer.rs` Buffer, BufferView | bytes, range; a view's range | push, pop and move at both ends, ensure_front/back, front/back/remain_mut, truncate; view, pop_front, pop_back | application |
| `examples/sfu` SfuWorker | two task groups, outputs, shared port | spawn (an http request), on_tick, on_event, pop_output, on_shutdown | worker, both kinds of task |
| `examples/sfu` WhipTask, WhepTask | WebRTC session (str0m), timeout, outputs | on_event, on_tick, pop_output, on_shutdown | channels of their room on the bus, the port |
| `examples/sfu/shared_port.rs` | ufrags and addresses of tasks, both ways | add_ufrag, remove_task, map_remote, set_backend_info | SfuWorker |

What is hard here, and what each part must get right:

* Wake-ups (leg and backend): several threads push; only the push that makes
  the length 1 wakes the receiver; a flag is read and lowered outside the mutex.
  No message may stay in a leg for ever.
* Publish/subscribe: two tables changed in two steps, publications in between,
  subscriptions changing in the middle of a fan-out. The tables must agree,
  delivery must be in order and once, and reach who stays subscribed.
* Task groups: slots and indices reused, flags beyond the length, announcements
  of emptiness sent once. No output may be forgotten and `pop_inner` must end.
* Controller: it knows the workers only by statistics that are old when they
  come. `process` must not call it over while tasks run, must do so in the end,
  and must not flood workers with requests.
* DynamicDeque, DynamicVec: two parts must look like one. Buffer: a range that moves
  at both ends must keep to its bytes.
* Backends: slots reused while events wait.
* The WebRTC server (the program of this repository that uses all of the runtime):
  slots reused while the port's tables, the bus and str0m speak of them; sessions that
  are asked for outputs only by flags and timeouts; assertions about the order of
  requests, answers and packets. No peer may hear what was meant for another, and a
  session that is over must leave.

`PROJECT.json` "hazards" has the list in full, line by line.

## The modules

`FifoQueue` is the abstract queue every other module takes a queue to be, `PlainVector`
the abstract vector and `ByteBuffer` the abstract payload with views of it.
`DynamicDeque` and `DynamicVec` are the code of the two containers, one action per
call, over the two parts that both are made of (`TwoParts`); `Contents` and
`VecContents` map them to their abstract specification, answers included
(`ImplementsFifo`, `ImplementsVector`). `Buffer` has the vector and the range of
`buffer.rs`, the range of a view, which is gone with the next call on the buffer (it
borrows it), and that of the piece popped off a view last: `pop_front` and `pop_back` of a
view shorten the view and return the piece, which borrows the view in turn (`KeepPiece`: the
caller drops the view and goes on with the piece). `ImplementsBytes` maps them to the bytes
within the three ranges, so that making room changes nothing of the payload and what is
taken off a view is gone from it. Two things may lead a range off its bytes, and `astray`
records them: a caller hands in a range that runs backwards (`from_vec_raw` and `view`
compare only its end), or asks for front room where there is some but not enough (the fault
of `ensure_front`, findings). Later calls then panic (outcome "panicked") as a build with
overflow checks does; a release build goes on with wrapped numbers, of which nothing is
claimed. `MCCollections` uses one of the three containers in each behaviour.
`BusLeg` and `BusPubSub` use plain sequences as their queues, and `Controller` as its legs.

`BusLeg`: one leg, any number of sending threads and the owner. A send is the
critical section of `push_generic`: `Push` (with, on the polling backend, the three
steps of `PollingAwaker::awake` while the mutex is held: `AwakeLoad`, `AwakeStore`,
`AwakeNotify`) or `Refuse`. The worker's cycle is `StartPoll`, `WaitReturns` /
`WaitFails`, `CheckFlag` (`poll_incoming`), `TakeAwake`, `Recv` (`on_awake`),
`EndCycle`; where `polling` (chosen in `Init`) is FALSE, `Sleep` / `SkipSleep` of the poll
backend instead. `FlagLowered` lets the relaxed store that lowers `awake_flag` take effect
late, but before the worker next takes the mutex.

`BusPubSub`: the tables of `local_hub.rs` and `bus.rs`, one action per critical
section: `Subscribe`/`Unsubscribe` (the hub) and `JoinChannel`/`LeaveChannel` (the
channels), `StartSend` and one `SendToLeg` for each leg, `Receive` and one `HandOver`
for each owner. `SetAwaker` is the start of a worker's thread: one with the polling backend
whose leg had messages by then is "late" and never comes to its leg (finding 1, seen from
`BusLeg`). What an owner answers to a hand-over are the other actions of its
worker, which may come between two hand-overs. The read locks of a publication
keep `NewWorker`, `JoinChannel` and `LeaveChannel` out until it is done.

`BitVec` and `TaskGroup`: the bits of a switcher with the bytes that outlive its
length, and a group of tasks under one branch of an inner. `FeedAll`, `OnEvent`,
`AddTask`, `SetTask` and `RemoveTask` are the calls into the group, each through
`TaskSwitcherBranch::input`; `PopGroup`, `PopBranch` and `EndDrain` are one turn of
`pop_inner`, with the loop of `TaskGroup::pop_output` up to its next answer in
one step (it runs on one thread and calls nothing but the tasks). `draining` tells
whether the worker is in `pop_inner`: after a tick or an event it is, after Spawn and
Shutdown it is not.

`Controller`: the controller's calls, one action per message it sends or takes, and
each worker's control loop (`Handle`). Calls that go over all workers (`call`) are
interleaved with the workers. The inner is a count of living, closing and empty
tasks, which is what `tasks()` and `is_empty()` tell of it. The queue of Ext
outputs that `pop_event` reads is not part of it.

`Sockets`: the slots of both backends, which one chosen in `Init`. `UdpListen`,
`TunBind`, `ListenFails`, `RegisterFails`, `UdpUnlisten` and `TunUnbind` are `on_action`; `Wait`, `WaitFails` and
`Sleep` are `poll_incoming`; the `Pop...` actions are one turn of the loop of
`pop_cached_event` and `ScanRead`, `ScanOn` one of the poll backend's, with packets
coming in (`Arrive`) between them; while an event is handled its owner may open and
close sockets (`HandlerOpens` names the opening). The name of a socket is free again once it
is closed and nothing speaks of it, so that a program may open and close without end. The poller is external: it reports every readable socket once, in
some order, and replaces what `event_buffer` held. Its wake-ups are in `BusLeg`.

`SharedUdpPort`: the tables of `shared_port.rs` as operators on one record, each
table in both directions, and `PortSpec`, their use by anybody who announces fresh
ufrags. `Sfu` extends it: one worker of the server. `Request` and `AskShutdown` fill its
control leg, `Spawn` is `process_req` with `connect_whip` or `connect_whep`, `Shutdown`, `Tick`, `ListenResult`, `Packet` and `HandOver` are its
other inputs, `Receive` the fan-out of `on_awake`. Whoever makes the worker panic is
recorded in `fault`, at which it stops: a request before the port is bound, one no session can
be built from, a port that cannot be bound, a datagram from a known peer that str0m cannot
classify (`Unparsed`), a keyframe request for a video without a stream (`WithoutStream`).
`OtherPublishes` is `publish` of another worker's bus into this worker's leg: safe where
the code sends a viewer's first keyframe request so, generic otherwise (`Published`). The `Pop...` actions are turns of
`pop_inner`, in which `PopOutput` is what a task hands out and `Carry` what
`process_inner_output` does with it. Which flagged task comes next is left open: any
order of the switcher and of the groups is among them. Of str0m the model takes what
this code sees: after an input a session may have up to two outputs, each possible in
the state of its connection (`MayEmit`). It connects at most once, and not after it has
disconnected; when its peer is gone it only transmits; after `disconnect()` it has
nothing to say; media written into it yields at most a transmit; `poll_output` does
not fail. Ufrags are fresh (drawn at random), so a request's number stands for its ufrag.
A session's time is `timeout`: none, ahead, or due, which a tick, a packet or a message
may find.

Proofs are in the modules named `...Proofs`, one for each part (`CollectionsProofs` has
deque, vector and buffer, `SfuProofs` the port and the worker of the server);
`CountingLemmas` has what they share on numbers of places in a sequence and least
elements.

## The runs

| Run | Bounds | What it shows |
| --- | --- | --- |
| `collections` | deque and vector: 2 values, fixed part 2, at most 5 held; buffer: 2 byte values, vector of at most 3, a view and a piece of it, any callers | no gap between the parts; the three refine their abstract specifications and ranges keep within the bytes, the buffer's until one has gone astray |
| `buffer_front` | the same buffer, vector of at most 4 | **violated**: front room asked for where there is some moves the range off its bytes |
| `leg` | 2 peers and the worker, 2 sends each, capacity 1, both backends | no lost wake-up, notified while blocked; every accepted message is delivered, with the polling backend if it is not behind a message of the startup |
| `leg_polling_boot` | the same | **violated**: with the polling backend a message sent before the awaker is set stays for ever |
| `pubsub` | 2 workers, 2 tasks on the first, 1 channel, 2 messages, capacity 1 | tables agree, order, no duplicates, safe messages reach who stays subscribed, unless the worker's polling backend was late |
| `task_group` | 3 slots, bytes of 2 bits, 1 output per task | counts, sets and flags are exact, `pop_inner` ends |
| `task_group_shutdown` | 2 slots | **violated**: outputs are not popped after Shutdown |
| `controller` | 2 workers, 1 spawn, 1 shutdown, capacity 1 | statistics do not pile up; None is answered rightly, up to spawns not counted yet |
| `controller_live` | 1 worker, 1 spawn, 1 Ext, 1 shutdown | shutdown ends the program; spawns start |
| `sockets` | 2 sockets at a time (udp, tun, tun not read), closed and opened again without end, 2 places in the output queue, 1 packet waiting in each, both backends | owners are answered first, tokens never pile up; with the polling backend, unless a tun is open or handlers of events open sockets again and again, cycles end and every socket with packets is read |
| `sfu` | 2 slots for each kind, 2 rooms, 1 address, 2 requests (the shutdown counts as one), 2 outputs of sessions, 1 message of another worker, 1 kind of media, leg of 1 | tables agree and follow `PortSpec`, slots used again inherit nothing, viewers are drained, no assertion fails but by the five ways named, requests are answered, sessions settle |
| `sfu_table` | the same without the other worker | **violated**: a viewer that leaves takes the wrong entries along |

Why these bounds are enough to meet the cases: a capacity of 1 puts a second
unsafe message in the refused case and a second safe one on the heap side; two
sends of three threads give a push onto an empty, a one-element and a longer
queue at every point of the worker's cycle; three slots over bytes of two bits make
the bit vector grow, shrink and leave bits behind, and reuse indices in the
middle and at the end; two messages and one channel let two publishers meet on a
leg, the worker with both tasks and the one without any, and a subscription change in a
fan-out over two owners; what the instance leaves out (tasks on both sides, more
channels, more messages) is in `TablesAgree`, `BusTypes` and `OrderKept`, which are proved for
every instance, as is every other safety property of these runs (What is proved). In `collections` two in the fixed part and three on the heap give every
combination of empty, partly full and full parts, and three bytes every position of a
range with room on either side. In `controller` the second worker
matters for the choice of the best worker and for the loops; one spawn already
crosses statistics in both directions. In `sockets`, two names that are free again once
closed give a socket that is closed and opened in the same slot in every cycle, and a
neighbour whose token it may cost each time; two places for answers put one behind another. In `sfu` two
requests are enough for a publisher and a viewer that meet in a room, for two of a kind
in two slots, and for a slot that is used again (the first peer leaves before the second
comes); two outputs make a session that connects and is gone, one that connects and
announces its media (to which a message of the other worker is then handed), or one
that has an output waiting behind another. Media of a publisher on this very worker
would reach a viewer after three, and comes from the other worker instead
(`OtherPublishes`).

All runs but those of `sfu` check deadlock: worker threads, and callers of a container,
always have a step. A worker of `Sfu` stops when one of the code's assertions fails.

### Fairness

`BusLeg`: threads run and critical sections end (weak fairness); a wait of the
poller does not fail every time (strong fairness of `WaitReturns`), and with the
poll backend not every cycle opens a socket just before its sleep. That a
socket which is always readable keeps the poll backend in its cycle, and the worker
from sleeping and waking, is not in this module but in `Sockets`.
`Sockets`: the worker's thread runs, and a wait of the poller does not fail every
time (strong fairness of `Wait`). Nothing is assumed of the network: packets may come
without end. `CycleEnds` and `PacketServed` hold of the polling backend, with two exceptions that the code
really has. The token of an open tun stays until it has nothing to read. And where handlers
of events open sockets again and again (`HandlerOpens` infinitely often), each opening is
answered by another event of the same cycle, which need not end; and a slot closed and
opened again between a wait and its token's turn loses two tokens (polling.rs:105 and :118),
perhaps those of the same neighbour in every cycle, which then starves (TLC shows it when the
exception is taken out). A program that opens and closes between the cycles is no
exception. Of the poll backend neither is claimed: it starts at slot 0 at every call.
`BusPubSub`: calls end, and a worker comes back to its fan-out and its leg whatever
its owners ask (strong fairness; an event is answered by finitely many outputs). The leg is that of a worker
that gets woken: `Receive` is not an action of one whose polling backend is late,
and `SafeReachesSubscribers` excepts it.
`Sfu`: the worker's thread pops until there is nothing more and hands out what it
received (weak fairness); it comes back to its control leg, to ticks and to the
backend's answer in every cycle (strong fairness, as other inputs come in between), and
the clock goes on, so that ticks find timeouts passed. Nothing is assumed of peers, of
the other workers or of str0m.
`TaskGroup`: `pop_inner` is a loop of the worker's thread. `Controller`: threads
run, the program keeps calling `process` but leaves a worker time to find its
control leg empty (the examples sleep between calls), and a task told to shut
down closes in the end.

### Findings

1. *Wake-up lost at startup* (`leg_polling_boot`). A leg is public from
   `new_worker` on (controller.rs:77), its awaker is set on the worker's thread later
   (worker.rs:175). A message sent in between makes the length 1 with nobody to
   wake; no later push makes it 1 again. With the polling backend the worker drains only
   when woken, so it never does. `Delivered` and `NoLostWakeup` say how far it goes:
   only queues first filled before the awaker was set are affected. `SafeReachesSubscribers` of
`BusPubSub` has the same exception.
2. *Outputs not popped after Shutdown and Spawn* (`task_group_shutdown`), against
   the README's "We need to pop the output before we can receive the next input".
   The outputs are late (the next tick brings them out: `NothingForgotten`), not lost.
3. *Front room* (`buffer_front`). `ensure_front` allocates `more - start` bytes and moves
   the range by `more` (buffer.rs:204-208): right only for `start = 0`. `RangeInBytes` and
   `ImplementsBytes` hold until a buffer meets it.
4. *A viewer leaves as a publisher* (`sfu_table`). `process_whep_out` removes
   `TaskId::Whip(index)` (examples/sfu/mod.rs:301). A viewer's ufrag and addresses stay in the tables,
   so that the next viewer in the slot gets its packets, and a publisher with the same index
   gets none from then on. `PortTablesAgree` and `PublisherEntriesOwn` say what holds all the same.

Of the group's `set_task` and `remove_task`, which move `tasks_count` away from the tasks when
a slot is set twice or removed twice, the model has the calls that respect the slots, and
`CountIsTasks` holds for them; `set_task`'s comment does not say which calls it is for.

## What is proved

For every value of the constants, checked by TLAPS:

* `DequeInvariant`, `DequeImplementsFifo`: the invariant is
  `TypeOK /\ HeapOnlyBehindFullStack` itself; it is inductive because `pop_front`
  refills. The refinement maps each call to the call of `FifoQueue` on
  `stack \o heap`; lemmas say what `Pushed` and `Popped` do to that sequence.
* `LegTypes`, `LegLosesNoWakeup`, `LegWakesPromptly`: `NoLostWakeup` is not
  inductive. The inductive invariant (`LegInv`) adds where the token of an Awake
  event may be (`TokenPlace`), that the awaker is set once the worker has left its
  startup, that the mutex holds one sender, that nobody raises the flag between a
  sender's load of FALSE and its store (`StoreFindsLow`), that a worker whose store
  lowers the flag late is bound to drain the leg (`LoweringDrains`), and that a
  raised flag is notified or about to be (`RaisedIsNotified`).
* `TablesAgree`: `HubMatchesChannels`, with (`TableInv`) the direction of a
  change under way and no list naming anybody twice, which is what makes the
  swap_remove of one entry remove the owner.
* `BusTypes`, `OrderKept`: `InOrderOnce` speaks of what owners have got; the invariant
  (`OrderInv`) follows each publisher's messages through every place they may be. All
  that is queued, in hand or handed out is older than what is being published
  (`SendingNewest`), a leg's queue is in order and behind what its worker has in hand
  and its owners have got (`Behind`), and what is in hand is newer than all that those
  still on the list have got (`InHandNewest`). It rests on `TableInv` for one thing: the
  lists that rounds are copied from name nobody twice.
* `VecInvariant`, `VecImplementsVector`: as for the deque; the lemmas say where an index
  falls and what each call does to `stack \o heap`.
* `RangesStayInBytes`, `BufferImplementsBytes`: `RangeInBytes` is inductive, for any callers, up
  to the step at which a range goes astray: lemmas say that room is there after it was
  asked for, and `ImplementsBytes` that no call panics until then. The refinement rests on lemmas about cuts of a sequence: a cut splits in two,
  a cut of a cut is one, writing is seen in the cut that was written and in none beside it,
  and what is put in front of the vector or behind it moves a cut or leaves it.
* `GroupTypesHold`, for callers of either kind, and, for callers that respect the slots
  (`Careful`), `GroupCounts`, `GroupKnowsEmptyTasks`, `GroupForgetsNothing`, `BranchIsRight`.
  To the types the invariant adds that a task in the set of empty ones is there
  (`GroupTypes`): trimming the slots then leaves no index behind. The four properties are taken
  as one invariant (`GroupTables`) and need nothing else. Lemmas say what `set_len` and
  the trimming keep, which flags a pass of `pop_output` clears and which tasks it takes
  back from the set of empty ones; the flagged task it stops at is the least of a set of
  numbers.
* `ControllerTypes`, `StatisticsDoNotPileUp`, `NoneTellsTheTruth`: `StatsBounded` counts
  what is in two queues. The invariant (`ControllerInv`) says that a request is only in a
  place within the capacity (`RequestsInFront`) and bounds requests and answers together by
  the capacity, and by one more for a worker that the round under way has passed
  (`RoundsBounded`). `NoneIsTrue` rests on what statistics mean, those kept (`StatsTrue`) and
  those still queued (`AnswersTrue`): if the worker was handed no spawn since and they tell of
  nothing that runs, nothing does. That a worker never has more spawns than were asked for
  keeps the types (`SpawnsAsked`, `SpawnsWaiting`).
* `SocketTypes`, `AnswersComeFirst`, `TokensAlwaysFit`: the invariant (`SocketInv`) adds that a
  socket not yet known to its owner has its answer in the output queue (`Answering`), that
  packets never pass through that queue (`OutputAnswers`), and that the tokens of one wait are
  gone before the next (`TokensTaken`).
* `PortTypeInvariant`, `PortTablesAlwaysAgree`: the tables of the shared port, for any
  tasks, addresses and ufrags, under `PortSpec`. `WorkerUsesThePort` proves that `Sfu` implements
  `PortSpec`, step by step, and with it `TablesAgreeInTheWorker`.
* `SfuTypes`, `PublishersOwnTheirEntries`, `SubscribersAlwaysBelong`, `ViewersAreDrained`,
  `AssertionsAlwaysHold` (a worker stops in no other than the five ways): one inductive invariant (`SfuInv`), one lemma for each action.
  A request's number is new to tasks, tables and outputs while it is in the leg, no two tasks
  have the same, and no response is given twice (`Ids`), so that a publisher's entries can be told
  from all others (`Entries`; a viewer that leaves may take them along, finding 4, but nobody gets
  another's). What a task subscribes to is of its room and its kind, and a task that is over takes
  back, later in its outputs, each subscription it has still to make (`SessionsGood`). A viewer
  whose session has an output is flagged while the worker pops, with no timeout ahead
  (`Drained`), which rests on what a session may say after it has connected or died. Events of
  a fan-out suit their owners (`OwnersSuit`), and nobody is there before the port is bound
  (`BoundFirst`). That there is a slot for each request is a count of the occupied slots.

The theorems assume what the modules assume of their constants (`ASSUME`), and
`Careful` where it is named: a condition on callers that the code does not check, and that its
own callers keep. Of the constants, `VacantAssumption`, `SlotAssumption` and
`SessionAssumption` say that the marks of an empty place are none of what a place may
hold; `TaskAssumption` that both groups of the server number their slots alike and that there are
as many as requests (the groups of the code grow without bound).

Only model-checked: the liveness properties (`Delivered`, `SafeReachesSubscribers`,
`DrainEnds`, `StopsOnShutdown`, `SpawnStarts`, `CycleEnds`, `PacketServed`, `Answered`,
`SessionsSettle`), as fairness is beyond the prover. Every invariant and every refinement
that a passing run checks is proved.

## Not modelled

* Direct and external sends on the workers' own bus (a worker panics on them), and
  `group_task!`, which generates a task group with a dispatch over types and no state of
  its own; the traits of `task.rs`; `trace.rs` (logging).
* Backends: sending packets (no state), reads that fail on a socket with a packet
  waiting, the assertion when a backend is dropped, the creation of a tun device.
* Reads of a buffer or a view (`len`, `deref`): they change nothing, and what they need is
  `RangeInBytes`.
* The 512 places of the polling backend's token queue: `TokensFit` bounds it by the sockets.
* The memory order of the two relaxed accesses of `awake_flag`, beyond what the mutex
  around `awake` and `recv` orders.
* The WebRTC server: str0m's inside, media and SDP, the http server's files and headers,
  the assertions of the tasks' `Drop`, errors of `poll_output`, and which worker a
  request goes to (`Controller` has that). `SfuWorker.shutdown` is set and never read.
* The other examples: loads on the runtime with a counter or an echo per task.

## Plan

1. An abstract publish/subscribe specification (who is subscribed, one queue per
   worker) that `BusPubSub` implements.
2. Proofs: the steps on which the liveness properties rest, as far as they are safety (what
   a step may never undo: that a flag stays raised until it is looked at, that a message in a
   leg only moves forward), and the refinement of 1.
3. `Sfu` with two workers composed with `BusPubSub`, in place of `OtherPublishes`.

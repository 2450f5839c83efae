--------------------------------- MODULE Sfu ---------------------------------
(***************************************************************************)
(* examples/sfu: one worker of the WebRTC server.  Publishers (whip) and   *)
(* viewers (whep) join a room by an http request, share the worker's udp   *)
(* port (SharedUdpPort), meet on the channels of their room on the bus,    *)
(* and are removed from their slot when their peer is gone.                *)
(*                                                                         *)
(* The worker is one thread: between two inputs it pops outputs until      *)
(* there are none (worker.rs, pop_inner), except after a Spawn and a       *)
(* Shutdown.  Which flagged task comes next is left open (TaskGroup and    *)
(* BitVec say how it is chosen), and so is what the WebRTC library (str0m) *)
(* has to say after an input: up to two outputs, each possible in the      *)
(* state of the connection.  The other workers publish on the channels.    *)
(***************************************************************************)
EXTENDS Naturals, Sequences, FiniteSets, SharedUdpPort

CONSTANTS Room,         \* rooms, numbered in the order of their first use
          Streams,      \* the kinds of media that peers have streams of
          LegSize,      \* the length from which the leg refuses an unsafe message
          MaxRequests,  \* bound of the model: http requests, and the shutdown
          MaxEmit,      \* bound of the model: outputs of all WebRTC sessions
          MaxPublish    \* bound of the model: messages of other workers

\* Both groups number their slots in the same way, and have as many as are
\* asked for (they grow).
ASSUME TaskAssumption ==
  LET slots == {t[2] : t \in Task}
  IN  /\ Task = {"whip", "whep"} \X slots /\ slots \subseteq Nat
      /\ IsFiniteSet(slots) /\ Cardinality(slots) >= MaxRequests
ASSUME UfragAssumption == Ufrag = 1..MaxRequests
ASSUME RoomAssumption == Room \subseteq Nat
ASSUME StreamsAssumption == Streams \subseteq {"audio", "video"}
ASSUME SfuBoundsAssumption == {LegSize, MaxRequests, MaxEmit, MaxPublish} \subseteq Nat

VARIABLES tasks,     \* the tasks of both groups, None in a vacant slot
          flagged,   \* the tasks that pop_output will look at
          output,    \* SfuWorker.output: the listen action and http responses
          hub,       \* the worker's BusLocalHub: the tasks of a channel
          leg,       \* the messages in the worker's leg, by their channel
          fanout,    \* the message being handed out, and to whom still
          inbox,     \* the worker's control leg
          popping,   \* pop_inner is at work
          listen,    \* the backend's answer to the listen action
          fault,     \* the assertion of the code that failed, or "none"
          reqs,      \* SimpleHttpServer.reqs: the requests not yet answered
          env        \* what the environment has done so far

vars == <<port, tasks, flagged, output, hub, leg, fanout, inbox, popping, listen, fault, reqs, env>>

Media == {"audio", "video"}
Channel == (Media \cup {"pli"}) \X Room

\* What a task hands to its worker.
Subscribe(c) == <<"subscribe", c>>
Unsubscribe(c) == <<"unsubscribe", c>>
Publish(c, safe) == <<"publish", c, safe>>
Net == <<"net">>
Nothing == <<"nothing">>

\* The listen action among the worker's own outputs; a response is its request.
Listen == 0

Living == {t \in Task : tasks[t] # None}
Idle == [chan |-> None, todo |-> {}]

Init ==
  /\ port = EmptyPort
  /\ tasks = [t \in Task |-> None] /\ flagged = {}
  /\ output = <<Listen>>
  /\ hub = [c \in Channel |-> {}] /\ leg = <<>> /\ fanout = Idle
  /\ inbox = <<>> /\ reqs = {}
  /\ popping = TRUE /\ listen = "no" /\ fault = "none"
  /\ env = [asked |-> 0, emitted |-> 0, published |-> 0, shutdown |-> FALSE]

-----------------------------------------------------------------------------
\* The WebRTC session of a task.
NewTask(id, room) ==
  [id |-> id, room |-> room, rtc |-> <<>>, link |-> "new", mids |-> {},
   out |-> <<>>, input |-> FALSE, timeout |-> "none", closed |-> FALSE]

MayEmit(t, task) ==
  CASE task.link = "new" -> {<<"transmit">>, <<"connected">>, <<"disconnected">>}
    [] task.link = "up" ->
         {<<"transmit">>, <<"disconnected">>}
           \cup {<<"mid", m>> : m \in Streams \ task.mids}
           \cup IF t[1] = "whip" THEN {<<"rtp", m>> : m \in Streams} ELSE {<<"keyframe">>}
    [] task.link = "gone" -> {<<"transmit">>}
    [] task.link = "dead" -> {}

Emit(task, e) ==
  [task EXCEPT !.rtc = Append(@, e),
               !.link = CASE e[1] = "connected" -> "up" [] e[1] = "disconnected" -> "gone" [] OTHER -> @]

\* handle_input: what the session may look like then.
AfterInput(t, task) ==
  LET once == {Emit(task, e) : e \in MayEmit(t, task)}
      twice == UNION {{Emit(s, e) : e \in MayEmit(t, s)} : s \in once}
      left == MaxEmit - env.emitted
  IN  {task} \cup IF left >= 1 THEN once \cup IF left >= 2 THEN twice ELSE {} ELSE {}

\* What it may look like when it has been given media to write or a keyframe to
\* ask for.
AfterWrite(task) ==
  {task} \cup IF env.emitted < MaxEmit /\ task.link # "dead" THEN {Emit(task, <<"transmit">>)} ELSE {}

\* The tasks become ts, and that of t has come out of its session.
Becomes(ts, t, after) ==
  \E task \in after :
    /\ tasks' = [ts EXCEPT ![t] = task]
    /\ env' = [env EXCEPT !.emitted = @ + Len(task.rtc) - Len(ts[t].rtc)]

-----------------------------------------------------------------------------
\* What a task does.

\* What both on_event make of a udp packet first: a datagram of an address that
\* is bound, which is no longer looked at (TaskFor), may be none that Receive
\* knows, and they panic.
Unparsed(a) == port.remotes[a] # None

\* The rest of WhipTask::on_event for a udp packet: the timeout stays.
WhipPacket(task) == [task EXCEPT !.input = TRUE]

\* Mutant of WhepPacket: the timeout stays.
WhepPacketLate(task) == WhipPacket(task)

\* The same for a viewer.
WhepPacket(task) == [task EXCEPT !.input = TRUE, !.timeout = "none"]

\* A keyframe request for a publisher that has announced a video but may have
\* no stream for it yet: on_event panics then.
WithoutStream(task) == "video" \in task.mids

\* The rest of it; for a publisher whose video has not come it is dropped.
WhipBus(task) ==
  IF "video" \in task.mids THEN AfterWrite([task EXCEPT !.input = TRUE]) ELSE {task}

\* Media for a viewer: written if the viewer takes that kind and (stream) the
\* session has a stream for it.
WhepBus(task, c, stream) ==
  CASE c[1] \notin task.mids -> {task}
    [] c[1] \in task.mids /\ ~stream -> {[task EXCEPT !.input = TRUE]}
    [] OTHER -> AfterWrite([task EXCEPT !.input = TRUE, !.timeout = "none"])

\* on_tick of both kinds.
OnTick(task) ==
  IF task.timeout = "due" THEN [task EXCEPT !.input = TRUE, !.timeout = "none"] ELSE task

\* Mutant of WhipListens: the channel it publishes on.
WhipListensToMedia(room) == <<"video", room>>

\* The channel that a publisher listens to.
WhipListens(room) == <<"pli", room>>

\* What a task takes back when it is over.
WhipFarewell(room) == <<Unsubscribe(WhipListens(room))>>

\* Mutant of WhepFarewell: one of the two subscriptions is not taken back.
WhepFarewellShort(room) == <<Unsubscribe(<<"audio", room>>)>>

WhepFarewell(room) == <<Unsubscribe(<<"audio", room>>), Unsubscribe(<<"video", room>>)>>
Farewell(t) == IF t[1] = "whip" THEN WhipFarewell(tasks[t].room) ELSE WhepFarewell(tasks[t].room)

\* on_shutdown: the session is over, nothing more comes out of it.
OnShutdown(t) ==
  [tasks[t] EXCEPT !.input = TRUE, !.rtc = <<>>, !.link = "dead",
                   !.out = @ \o Farewell(t), !.closed = TRUE]

\* The rest of pop_event_inner for one output of a publisher's session.
WhipEvent(task, e) ==
  CASE e[1] = "connected" -> <<Subscribe(WhipListens(task.room)), task>>
    [] e[1] = "disconnected" -> <<WhipFarewell(task.room)[1], [task EXCEPT !.closed = TRUE]>>
    [] e[1] = "rtp" -> <<Publish(<<e[2], task.room>>, FALSE), task>>
    [] e[1] = "transmit" -> <<Net, task>>

\* The same for a viewer.
WhepEvent(task, e) ==
  CASE e[1] = "connected" ->
         <<Subscribe(<<"audio", task.room>>),
           [task EXCEPT !.out = <<Subscribe(<<"video", task.room>>), Publish(<<"pli", task.room>>, TRUE)>>]>>
    [] e[1] = "disconnected" ->
         <<WhepFarewell(task.room)[1],
           [task EXCEPT !.out = Tail(WhepFarewell(task.room)), !.closed = TRUE]>>
    [] e[1] = "keyframe" -> <<Publish(<<"pli", task.room>>, FALSE), task>>
    [] e[1] = "transmit" -> <<Net, task>>

\* How many outputs of a session are passed over: a stream that it announces
\* is only remembered.
Announced(q) ==
  CHOOSE n \in 0..Len(q) :
    (\A i \in 1..n : q[i][1] = "mid") /\ (n < Len(q) => q[n + 1][1] # "mid")

\* The loop of pop_event_inner over rtc.poll_output.
PollRtc(t, task) ==
  LET n == Announced(task.rtc)
      seen == [task EXCEPT !.rtc = SubSeq(@, n + 2, Len(@)),
                           !.mids = @ \cup {task.rtc[i][2] : i \in 1..n}]
  IN  IF n = Len(task.rtc)
        THEN <<Nothing, [seen EXCEPT !.timeout = "later"]>>
        ELSE IF t[1] = "whip" THEN WhipEvent(seen, task.rtc[n + 1]) ELSE WhepEvent(seen, task.rtc[n + 1])

\* pop_output of a task: its own output first, then what its session has to
\* say, unless there was no input and the session need not be asked yet.
PopOutput(t) ==
  LET task == [tasks[t] EXCEPT !.input = FALSE]
  IN  CASE task.out # <<>> -> <<Head(task.out), [task EXCEPT !.out = Tail(@)]>>
        [] task.out = <<>> /\ ~tasks[t].input /\ task.timeout = "later" -> <<Nothing, task>>
        [] OTHER -> PollRtc(t, task)

IsEmpty(task) == task.closed /\ task.out = <<>>

-----------------------------------------------------------------------------
\* The environment.  The worker looks at its control leg only at rest, so that
\* what is put into it while outputs are popped may as well come later.
Runs == fault = "none"
AtRest == Runs /\ ~popping /\ fanout = Idle

\* A request comes in and is handed to the worker.  "bad" is one to join a room
\* for which no session can be built: its offer does not parse or is refused
\* (or the port's address, 127.0.0.1 in the example, is no candidate); "other"
\* is one for another path.
Request(kind, room) ==
  /\ AtRest /\ env.asked < MaxRequests
  /\ kind \in {"whip", "whep"} => room <= env.asked + 1
  /\ env' = [env EXCEPT !.asked = @ + 1]
  /\ reqs' = reqs \cup {env'.asked}
  /\ inbox' = Append(inbox, [id |-> env'.asked, kind |-> kind, room |-> room])
  /\ UNCHANGED <<port, tasks, flagged, output, hub, leg, fanout, popping, listen, fault>>

AskShutdown ==
  /\ AtRest /\ ~env.shutdown /\ env.asked < MaxRequests
  /\ env' = [env EXCEPT !.shutdown = TRUE, !.asked = @ + 1]
  /\ inbox' = Append(inbox, [id |-> 0, kind |-> "shutdown"])
  /\ UNCHANGED <<port, tasks, flagged, output, hub, leg, fanout, popping, listen, fault, reqs>>

\* BusWorker::publish: a full leg refuses what is not safe.
Published(c, safe) == IF hub[c] # {} /\ (safe \/ Len(leg) < LegSize) THEN Append(leg, c) ELSE leg

\* A task of another worker publishes; the leg is listed while the hub has an
\* owner.  The first keyframe request of a viewer is safe.
OtherPublishes(c, safe) ==
  /\ env.published < MaxPublish /\ hub[c] # {}
  /\ safe => c[1] = "pli"
  /\ env' = [env EXCEPT !.published = @ + 1]
  /\ leg' = Published(c, safe)
  /\ UNCHANGED <<port, tasks, flagged, output, hub, fanout, inbox, popping, listen, fault, reqs>>

-----------------------------------------------------------------------------
\* The worker's inputs.

\* Mutants of AllFlagged: vacant slots too, or no task.
AllFlaggedSlots == Task
AllFlaggedNone == flagged

\* on_tick and on_shutdown of a group flag each of its tasks.
AllFlagged == flagged \cup Living

\* Mutant of Answer: the response is lost.
AnswerLost(id) == UNCHANGED output

\* A response, for the http server, waits among the worker's outputs.
Answer(id) == output' = Append(output, id)

FreeSlot(kind) ==
  CHOOSE t \in Task :
    /\ t[1] = kind /\ t \notin Living
    /\ \A s \in Task : s[1] = kind /\ s \notin Living => t[2] <= s[2]

Fails(what) ==
  /\ fault' = what
  /\ UNCHANGED <<port, tasks, flagged, output, reqs>>

\* connect_whip and connect_whep.  A new slot comes flagged, a reused one not.
Connect(r) ==
  LET t == FreeSlot(r.kind)
  IN  /\ tasks' = [tasks EXCEPT ![t] = NewTask(r.id, r.room)]
      /\ flagged' \in {flagged, flagged \cup {t}}
      /\ port' = WithUfrag(port, r.id, t)
      /\ Answer(r.id)
      /\ UNCHANGED <<fault, reqs>>

\* process_req.
ProcessReq(r) ==
  \/ /\ r.kind = "other"
     /\ Answer(r.id)
     /\ UNCHANGED <<port, tasks, flagged, fault, reqs>>
  \/ r.kind # "other" /\ ~port.bound /\ Fails("no address")
  \/ r.kind = "bad" /\ port.bound /\ Fails("offer")
  \/ r.kind \in {"whip", "whep"} /\ port.bound /\ Connect(r)

\* A Spawn out of the control leg; the outputs are not popped.
Spawn ==
  /\ AtRest /\ inbox # <<>> /\ Head(inbox).kind # "shutdown"
  /\ inbox' = Tail(inbox)
  /\ ProcessReq(Head(inbox))
  /\ UNCHANGED <<hub, leg, fanout, popping, listen, env>>

\* A Shutdown; the outputs are not popped.
Shutdown ==
  /\ AtRest /\ inbox # <<>> /\ Head(inbox).kind = "shutdown"
  /\ inbox' = Tail(inbox)
  /\ tasks' = [t \in Task |-> IF t \in Living THEN OnShutdown(t) ELSE None]
  /\ flagged' = AllFlagged
  /\ UNCHANGED <<port, output, hub, leg, fanout, popping, listen, fault, reqs, env>>

\* The tasks that wait for their timeout; that of a dead session never comes.
Waiting == {t \in Living : tasks[t].timeout = "later" /\ tasks[t].link # "dead"}

\* A tick, when the timeouts of those tasks have passed; one of their sessions
\* may have something to say.
Tick(due) ==
  /\ AtRest /\ due \subseteq Waiting
  /\ LET ts == [t \in Task |-> IF t \in due THEN OnTick([tasks[t] EXCEPT !.timeout = "due"]) ELSE tasks[t]]
     IN  IF due = {} THEN UNCHANGED <<tasks, env>> ELSE \E t \in due : Becomes(ts, t, AfterInput(t, ts[t]))
  /\ flagged' = AllFlagged
  /\ popping' = TRUE
  /\ UNCHANGED <<port, output, hub, leg, fanout, inbox, listen, fault, reqs>>

\* UdpListenResult: the worker counts on the port.
ListenResult(ok) ==
  /\ AtRest /\ listen = "asked"
  /\ listen' = "answered"
  /\ IF ok THEN port' = Bound(port) /\ UNCHANGED fault ELSE fault' = "listen" /\ UNCHANGED port
  /\ popping' = TRUE
  /\ UNCHANGED <<tasks, flagged, output, hub, leg, fanout, inbox, reqs, env>>

\* A task at some later time: its timeout may have passed.
Now(t) == {tasks[t]} \cup {[tasks[s] EXCEPT !.timeout = "due"] : s \in Waiting \cap {t}}

\* UdpPacket, from an address, with the ufrag it names.
Packet(a, u) ==
  LET t == TaskFor(port, a, u)
  IN  /\ AtRest /\ port.bound
      /\ port' = WithRemote(port, a, u)
      /\ \/ t \in Living /\ Unparsed(a) /\ fault' = "datagram" /\ UNCHANGED <<tasks, flagged, env>>
         \/ /\ t \in Living
            /\ \E now \in Now(t) :
                 LET task == IF t[1] = "whip" THEN WhipPacket(now) ELSE WhepPacket(now)
                 IN  Becomes(tasks, t, AfterInput(t, task))
            /\ flagged' = flagged \cup {t}
            /\ UNCHANGED fault
         \/ t \notin Living /\ UNCHANGED <<tasks, flagged, env, fault>>
      /\ popping' = TRUE
      /\ UNCHANGED <<output, hub, leg, fanout, inbox, listen, reqs>>

\* on_awake: the next message of the leg, and a copy of the list of its owners.
Receive ==
  /\ AtRest /\ leg # <<>>
  /\ fanout' = IF hub[Head(leg)] = {} THEN Idle ELSE [chan |-> Head(leg), todo |-> hub[Head(leg)]]
  /\ leg' = Tail(leg)
  /\ UNCHANGED <<port, tasks, flagged, output, hub, inbox, popping, listen, fault, reqs, env>>

\* Media goes to viewers, keyframe requests to publishers, anything else is
\* taken for impossible.
Suits(t, c) == IF c[1] = "pli" THEN t[1] = "whip" ELSE t[1] = "whep"

HandOver(t) ==
  /\ Runs /\ ~popping /\ t \in fanout.todo
  /\ LET c == fanout.chan
     IN  \/ ~Suits(t, c) /\ fault' = "owner" /\ UNCHANGED <<tasks, flagged, env>>
         \/ /\ Suits(t, c) /\ t \in Living /\ t[1] = "whip" /\ WithoutStream(tasks[t])
            /\ fault' = "keyframe" /\ UNCHANGED <<tasks, flagged, env>>
         \/ /\ Suits(t, c) /\ t \in Living
            /\ \E now \in Now(t), stream \in BOOLEAN :
                 Becomes(tasks, t, IF t[1] = "whip" THEN WhipBus(now) ELSE WhepBus(now, c, stream))
            /\ flagged' = flagged \cup {t}
            /\ UNCHANGED fault
         \/ Suits(t, c) /\ t \notin Living /\ UNCHANGED <<tasks, flagged, env, fault>>
  /\ fanout' = IF fanout.todo = {t} THEN Idle ELSE [fanout EXCEPT !.todo = @ \ {t}]
  /\ popping' = TRUE
  /\ UNCHANGED <<port, output, hub, leg, inbox, listen, reqs>>

-----------------------------------------------------------------------------
\* pop_inner: the worker's own outputs first.
PopOwn ==
  /\ Runs /\ popping /\ output # <<>>
  /\ output' = Tail(output)
  /\ IF Head(output) = Listen
       THEN listen' = "asked" /\ UNCHANGED <<reqs, fault>>
       ELSE /\ reqs' = reqs \ {Head(output)}
            /\ fault' = IF Head(output) \in reqs THEN fault ELSE "request"
            /\ UNCHANGED listen
  /\ UNCHANGED <<port, tasks, flagged, hub, leg, fanout, inbox, popping, env>>

\* process_inner_output for the output of a task.
Carry(t, o) ==
  CASE o[1] = "subscribe" -> hub' = [hub EXCEPT ![o[2]] = @ \cup {t}] /\ UNCHANGED <<leg, fault>>
    [] o[1] = "unsubscribe" -> hub' = [hub EXCEPT ![o[2]] = @ \ {t}] /\ UNCHANGED <<leg, fault>>
    [] o[1] = "publish" ->
         /\ leg' = Published(o[2], o[3])
         /\ UNCHANGED <<hub, fault>>
    [] o[1] = "net" -> fault' = (IF port.bound THEN fault ELSE "slot") /\ UNCHANGED <<hub, leg>>

\* Mutant of WhipGone: only the task's own entry goes.
WhipGoneHalf(t) == port' = [port EXCEPT !.ufragOf[t] = None]

\* process_whip_out on OnResourceEmpty.
WhipGone(t) == port' = WithoutTask(port, t)

\* process_whep_out on OnResourceEmpty: the viewer leaves its slot, but it is
\* the publisher of that index that leaves the port's tables.
WhepGone(t) == port' = WithoutTask(port, <<"whip", t[2]>>)

\* The next output of a flagged task.
PopTask(t) ==
  /\ Runs /\ popping /\ output = <<>> /\ t \in flagged
  /\ PopOutput(t)[1] # Nothing
  /\ tasks' = [tasks EXCEPT ![t] = PopOutput(t)[2]]
  /\ Carry(t, PopOutput(t)[1])
  /\ UNCHANGED <<port, flagged, output, fanout, inbox, popping, listen, reqs, env>>

\* A flagged task without outputs is left, and removed if it is over.
PopNothing(t) ==
  LET task == PopOutput(t)[2]
  IN  /\ Runs /\ popping /\ output = <<>> /\ t \in flagged
      /\ PopOutput(t)[1] = Nothing
      /\ flagged' = flagged \ {t}
      /\ IF IsEmpty(task)
           THEN /\ tasks' = [tasks EXCEPT ![t] = None]
                /\ IF t[1] = "whip" THEN WhipGone(t) ELSE WhepGone(t)
           ELSE tasks' = [tasks EXCEPT ![t] = task] /\ UNCHANGED port
      /\ UNCHANGED <<output, hub, leg, fanout, inbox, popping, listen, fault, reqs, env>>

PopEnd ==
  /\ Runs /\ popping /\ output = <<>> /\ flagged = {}
  /\ popping' = FALSE
  /\ UNCHANGED <<port, tasks, flagged, output, hub, leg, fanout, inbox, listen, fault, reqs, env>>

-----------------------------------------------------------------------------
Pops == PopOwn \/ PopEnd \/ \E t \in flagged : PopTask(t) \/ PopNothing(t)

Control == Spawn \/ Shutdown

HandsOut == \E t \in fanout.todo : HandOver(t)

Next ==
  \/ \E kind \in {"whip", "whep"}, room \in Room : Request(kind, room)
  \/ \E kind \in {"bad", "other"} : Request(kind, None)
  \/ AskShutdown
  \/ \E c \in Channel, safe \in BOOLEAN : OtherPublishes(c, safe)
  \/ Control \/ Receive \/ HandsOut
  \/ \E due \in SUBSET Waiting : Tick(due)
  \/ \E ok \in BOOLEAN : ListenResult(ok)
  \/ \E a \in Addr, u \in Ufrag \cup {None} : Packet(a, u)
  \/ Pops

Spec == Init /\ [][Next]_vars

\* The worker's thread runs: it pops, takes its control messages, ticks and
\* reads its leg in every cycle, and the clock goes on.
Fairness ==
  /\ WF_vars(Pops) /\ WF_vars(HandsOut)
  /\ SF_vars(Control) /\ SF_vars(Tick(Waiting)) /\ SF_vars(ListenResult(TRUE))

FairSpec == Spec /\ Fairness
-----------------------------------------------------------------------------
FromRtc ==
  {<<e>> : e \in {"connected", "disconnected", "transmit", "keyframe"}} \cup ({"mid", "rtp"} \X Media)

ForWorker ==
  {Net} \cup ({"subscribe", "unsubscribe"} \X Channel) \cup ({"publish"} \X Channel \X BOOLEAN)

Sessions ==
  [id : Ufrag, room : Room, rtc : Seq(FromRtc), link : {"new", "up", "gone", "dead"},
   mids : SUBSET Media, out : Seq(ForWorker), input : BOOLEAN,
   timeout : {"none", "later", "due"}, closed : BOOLEAN]

ASSUME SessionAssumption == None \notin Sessions

\* Type invariant: what each variable holds; only tasks that exist are flagged.
TypeOK ==
  /\ port \in Ports
  /\ tasks \in [Task -> Sessions \cup {None}]
  /\ flagged \subseteq Living
  /\ output \in Seq(Ufrag \cup {Listen}) /\ reqs \subseteq Ufrag
  /\ hub \in [Channel -> SUBSET Task] /\ leg \in Seq(Channel)
  /\ fanout = Idle \/ fanout \in [chan : Channel, todo : (SUBSET Task) \ {{}}]
  /\ \A i \in DOMAIN inbox : inbox[i].id \in Ufrag \/ inbox[i].kind = "shutdown"
  /\ popping \in BOOLEAN /\ listen \in {"no", "asked", "answered"}
  /\ fault \in {"none", "no address", "offer", "listen", "datagram", "keyframe", "owner", "slot", "request"}

\* A publisher's entries in the port's tables are its own: whatever ufrag and
\* address lead to a publisher's slot were given to the publisher that is in
\* it, though slots are used again.  So no publisher is fed the packets of one
\* before it.
PublisherEntriesOwn ==
  \A u \in Ufrag, t \in Task :
    port.ufrags[u] = t /\ t[1] = "whip" => t \in Living /\ tasks[t].id = u

\* Whoever is listed under a channel is a task of that room and of the kind the
\* channel is for, and a task that is over has the unsubscription still among
\* its outputs.  A slot that was left with a subscription behind would hear of
\* its old room for ever.
SubscribersBelong ==
  \A c \in Channel : \A t \in hub[c] :
    /\ t \in Living /\ tasks[t].room = c[2] /\ Suits(t, c)
    /\ tasks[t].closed => Unsubscribe(c) \in {tasks[t].out[i] : i \in DOMAIN tasks[t].out}

\* When the worker turns to its next input, no viewer's session has an output
\* waiting: a viewer forgets its timeout with each input, so that popping goes
\* on until the session has nothing more.  (A publisher keeps its timeout and
\* may well have outputs left; SessionsSettle is what holds for it.)
ViewersDrained == ~popping => \A t \in Living : t[1] = "whep" => tasks[t].rtc = <<>>

\* The worker's own assertions hold: events suit their owners, a task sends
\* only when the port is bound, and each response has a request waiting, so
\* that none is answered twice.  What makes a worker panic comes from outside:
\* a request before the port is bound, one for which no session can be built, a
\* port that cannot be bound, a datagram of a known peer that is none of STUN,
\* DTLS or RTP, and a keyframe request for a video that has no stream yet.
AssertionsHold == fault \in {"none", "no address", "offer", "listen", "datagram", "keyframe"}

\* The port's tables know exactly the tasks there are.
PortKnowsTasks ==
  \A t \in Task : port.ufragOf[t] = IF t \in Living THEN tasks[t].id ELSE None

\* Each request is answered, by whatever task it makes, unless the worker has
\* panicked; responses wait among the outputs of a worker that does not pop
\* after a Spawn.
Answered == \A id \in Ufrag : id \in reqs ~> (id \notin reqs \/ ~Runs)

Settled(t) == t \in Living => tasks[t].rtc = <<>> /\ ~tasks[t].closed

\* What a session has to say is popped in the end, though a publisher's is not
\* asked while its timeout is ahead; and a task whose peer is gone, or that was
\* told to shut down, leaves its slot.
SessionsSettle == \A t \in Task : ~Settled(t) ~> (Settled(t) \/ ~Runs)
=============================================================================

------------------------------ MODULE BusPubSub ------------------------------
(***************************************************************************)
(* Publish and subscribe between the tasks of all workers.                 *)
(*                                                                         *)
(* Two tables say who gets a message: each worker's own hub                *)
(* (bus/local_hub.rs: channel to owners) and the channels shared by all    *)
(* workers (bus.rs: channel to legs).  A subscription first changes the    *)
(* hub and then, with no lock held in between, the channels; only the      *)
(* first owner's and the last one's change reaches them.  A publication    *)
(* holds both tables of bus.rs for reading while it pushes to one leg      *)
(* after the other.  Each worker takes messages off its leg and hands them *)
(* to the owners its hub lists at that moment (worker.rs, on_awake); what  *)
(* these answer is carried out between two hand-overs.                     *)
(*                                                                         *)
(* That a worker with its awaker in place comes to its leg is shown in     *)
(* BusLeg; so is that one with a polling backend whose leg held a message  *)
(* before set_awaker never does.  Here that worker is called late.         *)
(***************************************************************************)
EXTENDS Naturals, Sequences

CONSTANTS WorkerId,    \* the workers; one leg each
          Owner,       \* the tasks, as a worker's hub knows them
          Tasks,       \* Tasks[w]: those that worker w runs
          Inner,       \* the worker's inner itself, which gets the broadcasts
          Channel,     \* the channels of the bus
          Everyone,    \* the address of a broadcast
          StackSize,   \* the length from which an unsafe send is refused
          MaxPublish   \* bound of the model: publications and broadcasts

ASSUME OwnerAssumption == Tasks \in [WorkerId -> SUBSET Owner] /\ Inner \notin Owner
ASSUME EveryoneAssumption == Everyone \notin Channel
ASSUME StackSizeAssumption == StackSize \in Nat
ASSUME MaxPublishAssumption == MaxPublish \in Nat

VARIABLES legs,       \* BusSystemBuilder.legs, in the order of new_worker
          awaker,     \* whether a worker's thread has registered its awaker
          hub,        \* each worker's BusLocalHub: the owners of a channel
          channels,   \* BusSystemBuilder.channels: the legs of a channel
          queue,      \* each leg's queue
          published,  \* how many messages have been sent
          change,     \* a worker's call between its hub and the channels
          sending,    \* a worker's publication or broadcast under way
          fanout,     \* the message a worker hands out, and to whom still
          got         \* what each owner was handed: publisher and number

vars == <<legs, awaker, hub, channels, queue, published, change, sending, fanout, got>>

Message == [id : 1..MaxPublish, from : WorkerId, to : Channel \cup {Everyone}, safe : BOOLEAN]

\* No change to the channels is under way.
Settled == <<"none">>

\* A message and those who are still to get it; Idle when nobody is left.
Idle == [msg |-> <<>>, todo |-> <<>>]
Round(msg, todo) == IF todo = <<>> THEN Idle ELSE [msg |-> msg, todo |-> todo]
Rest(round) == Round(round.msg, Tail(round.todo))

Init ==
  /\ legs = <<>>
  /\ awaker = [w \in WorkerId |-> "unset"]
  /\ hub = [w \in WorkerId |-> [c \in Channel |-> <<>>]]
  /\ channels = [c \in Channel |-> <<>>]
  /\ queue = [w \in WorkerId |-> <<>>]
  /\ published = 0
  /\ change = [w \in WorkerId |-> Settled]
  /\ sending = [w \in WorkerId |-> Idle]
  /\ fanout = [w \in WorkerId |-> Idle]
  /\ got = [w \in WorkerId |-> [o \in Owner \cup {Inner} |-> <<>>]]

Members(s) == {s[i] : i \in DOMAIN s}

NoRepeats(s) == \A i, j \in DOMAIN s : s[i] = s[j] => i = j

\* Vec::swap_remove at the position of e: the last element takes its place.
SwapRemove(s, e) ==
  [i \in 1..(Len(s) - 1) |-> IF s[i] = e THEN s[Len(s)] ELSE s[i]]

\* A worker's thread runs and is not inside a call of the bus.
AtWork(w) ==
  /\ awaker[w] # "unset"
  /\ change[w] = Settled
  /\ sending[w].todo = <<>>

\* The read locks of a send are held until its last leg is done.
LegsLocked == \E w \in WorkerId : sending[w].todo # <<>>

ChannelsLocked ==
  \E w \in WorkerId : sending[w].todo # <<>> /\ sending[w].msg.to # Everyone

-----------------------------------------------------------------------------
\* new_worker, called by Controller::add_worker at any time.
NewWorker(w) ==
  /\ w \notin Members(legs) /\ ~LegsLocked
  /\ legs' = Append(legs, w)
  /\ UNCHANGED <<awaker, hub, channels, queue, published, change, sending, fanout, got>>

\* Worker::new, on the worker's own thread, some time after its leg is listed.
\* If a message came first, no push will find the queue empty: a polling backend
\* is late.  A poll backend does not wait to be woken.
SetAwaker(w) ==
  /\ w \in Members(legs) /\ awaker[w] = "unset"
  /\ \E state \in {"set"} \cup (IF queue[w] = <<>> THEN {} ELSE {"late"}) :
       awaker' = [awaker EXCEPT ![w] = state]
  /\ UNCHANGED <<legs, hub, channels, queue, published, change, sending, fanout, got>>

\* Mutant of Subscribe: the list is not searched for the owner first.
SubscribeAgain(w, o, c) ==
  /\ AtWork(w)
  /\ hub' = [hub EXCEPT ![w][c] = Append(@, o)]
  /\ change' = [change EXCEPT ![w] = IF hub[w][c] = <<>> THEN <<"subscribe", c>> ELSE Settled]
  /\ UNCHANGED <<legs, awaker, channels, queue, published, sending, fanout, got>>

\* An owner's Subscribe: BusLocalHub::subscribe, which sends the worker on to
\* BusWorker::subscribe for the first owner of the channel.
Subscribe(w, o, c) ==
  /\ AtWork(w)
  /\ o \notin Members(hub[w][c])
  /\ hub' = [hub EXCEPT ![w][c] = Append(@, o)]
  /\ change' = [change EXCEPT ![w] = IF hub[w][c] = <<>> THEN <<"subscribe", c>> ELSE Settled]
  /\ UNCHANGED <<legs, awaker, channels, queue, published, sending, fanout, got>>

\* Mutant of Unsubscribe: any owner's unsubscription goes on to the channels.
UnsubscribeAny(w, o, c) ==
  /\ AtWork(w)
  /\ o \in Members(hub[w][c])
  /\ hub' = [hub EXCEPT ![w][c] = SwapRemove(@, o)]
  /\ change' = [change EXCEPT ![w] = <<"unsubscribe", c>>]
  /\ UNCHANGED <<legs, awaker, channels, queue, published, sending, fanout, got>>

\* An owner's Unsubscribe, BusLocalHub::unsubscribe: the last owner's goes on.
Unsubscribe(w, o, c) ==
  /\ AtWork(w)
  /\ o \in Members(hub[w][c])
  /\ hub' = [hub EXCEPT ![w][c] = SwapRemove(@, o)]
  /\ change' = [change EXCEPT ![w] = IF Len(hub[w][c]) = 1 THEN <<"unsubscribe", c>> ELSE Settled]
  /\ UNCHANGED <<legs, awaker, channels, queue, published, sending, fanout, got>>

\* BusWorker::subscribe, under the write lock of the channels.
JoinChannel(w, c) ==
  /\ change[w] = <<"subscribe", c>> /\ ~ChannelsLocked
  /\ channels' = [channels EXCEPT ![c] = IF w \in Members(@) THEN @ ELSE Append(@, w)]
  /\ change' = [change EXCEPT ![w] = Settled]
  /\ UNCHANGED <<legs, awaker, hub, queue, published, sending, fanout, got>>

\* BusWorker::unsubscribe.
LeaveChannel(w, c) ==
  /\ change[w] = <<"unsubscribe", c>> /\ ~ChannelsLocked
  /\ channels' = [channels EXCEPT ![c] = IF w \in Members(@) THEN SwapRemove(@, w) ELSE @]
  /\ change' = [change EXCEPT ![w] = Settled]
  /\ UNCHANGED <<legs, awaker, hub, queue, published, sending, fanout, got>>

\* publish and broadcast take their read locks and start on the legs listed.
StartSend(w, to, safe) ==
  /\ AtWork(w) /\ published < MaxPublish
  /\ published' = published + 1
  /\ sending' = [sending EXCEPT ![w] =
       Round([id |-> published', from |-> w, to |-> to, safe |-> safe],
             IF to = Everyone THEN legs ELSE channels[to])]
  /\ UNCHANGED <<legs, awaker, hub, channels, queue, change, fanout, got>>

\* Mutant of SendToLeg: the message is pushed to the front.
SendToLegFront(w) ==
  /\ sending[w].todo # <<>>
  /\ LET dest == Head(sending[w].todo)
         msg == sending[w].msg
     IN  queue' = IF msg.safe \/ Len(queue[dest]) < StackSize
                    THEN [queue EXCEPT ![dest] = <<msg>> \o @]
                    ELSE queue
  /\ sending' = [sending EXCEPT ![w] = Rest(@)]
  /\ UNCHANGED <<legs, awaker, hub, channels, published, change, fanout, got>>

\* The push to one leg; an unsafe message is dropped if that leg is full.
SendToLeg(w) ==
  /\ sending[w].todo # <<>>
  /\ LET dest == Head(sending[w].todo)
         msg == sending[w].msg
     IN  queue' = IF msg.safe \/ Len(queue[dest]) < StackSize
                    THEN [queue EXCEPT ![dest] = Append(@, msg)]
                    ELSE queue
  /\ sending' = [sending EXCEPT ![w] = Rest(@)]
  /\ UNCHANGED <<legs, awaker, hub, channels, published, change, fanout, got>>

\* on_awake, of a worker that gets woken, takes the next message and a copy of
\* the list of its owners.
Receive(w) ==
  /\ AtWork(w) /\ awaker[w] = "set" /\ fanout[w].todo = <<>> /\ queue[w] # <<>>
  /\ LET msg == Head(queue[w])
     IN  fanout' = [fanout EXCEPT ![w] =
           Round(msg, IF msg.to = Everyone THEN <<Inner>> ELSE hub[w][msg.to])]
  /\ queue' = [queue EXCEPT ![w] = Tail(@)]
  /\ UNCHANGED <<legs, awaker, hub, channels, published, change, sending, got>>

\* Mutant of HandOver: the fan-out ends with the first owner.
HandOverFirst(w) ==
  /\ AtWork(w) /\ fanout[w].todo # <<>>
  /\ LET o == Head(fanout[w].todo)
         msg == fanout[w].msg
     IN  got' = [got EXCEPT ![w][o] = Append(@, [from |-> msg.from, id |-> msg.id])]
  /\ fanout' = [fanout EXCEPT ![w] = Idle]
  /\ UNCHANGED <<legs, awaker, hub, channels, queue, published, change, sending>>

\* The inner's on_event for the next owner of that copy.
HandOver(w) ==
  /\ AtWork(w) /\ fanout[w].todo # <<>>
  /\ LET o == Head(fanout[w].todo)
         msg == fanout[w].msg
     IN  got' = [got EXCEPT ![w][o] = Append(@, [from |-> msg.from, id |-> msg.id])]
  /\ fanout' = [fanout EXCEPT ![w] = Rest(@)]
  /\ UNCHANGED <<legs, awaker, hub, channels, queue, published, change, sending>>

-----------------------------------------------------------------------------
ChangeChannel(w) == \E c \in Channel : JoinChannel(w, c) \/ LeaveChannel(w, c)

Next ==
  \E w \in WorkerId :
    \/ NewWorker(w)
    \/ SetAwaker(w)
    \/ \E o \in Tasks[w], c \in Channel : Subscribe(w, o, c) \/ Unsubscribe(w, o, c)
    \/ ChangeChannel(w)
    \/ \E to \in Channel \cup {Everyone}, safe \in BOOLEAN : StartSend(w, to, safe)
    \/ SendToLeg(w)
    \/ Receive(w)
    \/ HandOver(w)

Spec == Init /\ [][Next]_vars

\* Every thread starts up and finishes its calls; an event has finitely many
\* answers, so the worker comes back to its fan-out and, if it gets woken, to its
\* leg whatever the owners ask for.
Fairness ==
  \A w \in WorkerId :
    /\ WF_vars(SetAwaker(w)) /\ WF_vars(ChangeChannel(w)) /\ WF_vars(SendToLeg(w))
    /\ SF_vars(Receive(w)) /\ SF_vars(HandOver(w))

FairSpec == Spec /\ Fairness

-----------------------------------------------------------------------------
Changes == {Settled} \cup ({"subscribe", "unsubscribe"} \X Channel)

Rounds(S) == {Idle} \cup [msg : Message, todo : Seq(S) \ {<<>>}]

\* Type invariant: what each variable holds, and that the vectors the code
\* uses as sets list nobody twice.
TypeOK ==
  /\ legs \in Seq(WorkerId)
  /\ awaker \in [WorkerId -> {"unset", "set", "late"}]
  /\ hub \in [WorkerId -> [Channel -> Seq(Owner)]]
  /\ \A w \in WorkerId, c \in Channel : NoRepeats(hub[w][c])
  /\ channels \in [Channel -> Seq(WorkerId)]
  /\ \A c \in Channel : NoRepeats(channels[c])
  /\ queue \in [WorkerId -> Seq(Message)]
  /\ published \in 0..MaxPublish
  /\ change \in [WorkerId -> Changes]
  /\ sending \in [WorkerId -> Rounds(WorkerId)]
  /\ fanout \in [WorkerId -> Rounds(Owner \cup {Inner})]
  /\ got \in [WorkerId -> [Owner \cup {Inner} -> Seq([from : WorkerId, id : 1..MaxPublish])]]

\* The two tables agree: outside of a call that is changing them, a worker's
\* leg is listed under a channel exactly when its hub has an owner for it.
\* If they came apart, a worker would never hear of a channel again, or would
\* be sent messages for nobody for ever.
HubMatchesChannels ==
  \A w \in WorkerId, c \in Channel :
    change[w] \notin {<<"subscribe", c>>, <<"unsubscribe", c>>} =>
      (w \in Members(channels[c]) <=> hub[w][c] # <<>>)

\* An owner gets the messages of one publisher in the order that publisher
\* sent them, and none twice, however owners come and go between the tables
\* and in the middle of a fan-out.
InOrderOnce ==
  \A w \in WorkerId, o \in Owner \cup {Inner} :
    \A i, j \in DOMAIN got[w][o] :
      i < j /\ got[w][o][i].from = got[w][o][j].from => got[w][o][i].id < got[w][o][j].id

\* Whether o would be handed what w is sent on that channel.
Listens(w, o, c) == o \in Members(hub[w][c])

\* The safe message n with that address is about to be pushed to the leg of w.
OnItsWay(n, to, w) ==
  \E p \in WorkerId :
    /\ w \in Members(sending[p].todo)
    /\ sending[p].msg.id = n /\ sending[p].msg.to = to /\ sending[p].msg.safe

Has(w, o, n) == \E i \in DOMAIN got[w][o] : got[w][o][i].id = n

\* A safe message reaches every owner that listens on a listed leg while it is
\* sent and does not unsubscribe before it comes, whatever the other owners of
\* that worker and the other workers do meanwhile; a safe broadcast reaches the
\* inner of every worker whose leg is listed, one that is just starting included.
\* Only a worker whose polling backend was late gets nothing.
SafeReachesSubscribers ==
  \A n \in 1..MaxPublish, w \in WorkerId :
    /\ \A o \in Tasks[w], c \in Channel :
         (OnItsWay(n, c, w) /\ Listens(w, o, c))
           ~> (Has(w, o, n) \/ ~Listens(w, o, c) \/ awaker[w] = "late")
    /\ OnItsWay(n, Everyone, w) ~> (Has(w, Inner, n) \/ awaker[w] = "late")
=============================================================================

------------------------------- MODULE BusLeg -------------------------------
(***************************************************************************)
(* One leg of the inner bus and the worker thread that owns it: how a      *)
(* message pushed by any thread gets that worker to drain the leg.         *)
(*                                                                         *)
(* bus/leg.rs keeps a queue and an awaker under one mutex and calls the    *)
(* awaker only when a push makes the queue's length 1.  The worker drains  *)
(* the queue (worker.rs, on_awake) only when its backend reports Awake.    *)
(* The polling backend reports it when it finds awake_flag raised, which   *)
(* PollingAwaker raises; the poll backend reports it on (nearly) every     *)
(* cycle and its awaker does nothing.                                      *)
(*                                                                         *)
(* The queue is one sequence: DynamicDeque implements that.  A message is  *)
(* its sender and number, marked with whether the leg had its awaker yet.  *)
(*                                                                         *)
(* The worker clears awake_flag with a relaxed store outside the mutex, so *)
(* the store may take effect late, but no later than the worker's next     *)
(* release of the mutex: clearing says that it is still on its way.        *)
(***************************************************************************)
EXTENDS Naturals, Sequences

CONSTANTS Peer,       \* the threads of the other workers
          Worker,     \* the thread that owns the leg
          StackSize,  \* the length from which an unsafe send is refused
          MaxSend     \* bound of the model: the sends of one thread

ASSUME ThreadAssumption == Worker \notin Peer
ASSUME StackSizeAssumption == StackSize \in Nat
ASSUME MaxSendAssumption == MaxSend \in Nat

VARIABLES polling,   \* the worker has a PollingBackend, not a PollBackend
          queue,     \* the messages in the leg, the oldest first
          awaker,    \* whether set_awaker has run
          flag,      \* PollingBackend.awake_flag
          clearing,  \* the worker's store of FALSE to flag is on its way
          notified,  \* the poller holds a notification for the next wait
          token,     \* an Awake event waits in the backend
          busy,      \* the poll backend's output queue holds some other event
          sent,      \* how many sends each thread has made
          sender,    \* where each thread is in its critical section
          worker     \* where the worker is in its cycle

vars == <<polling, queue, awaker, flag, clearing, notified, token, busy, sent, sender, worker>>
backend == <<polling, flag, clearing, notified, token, busy>>

Thread == Peer \cup {Worker}

Message == [from : Thread, n : Nat, boot : BOOLEAN]

Init ==
  /\ polling \in BOOLEAN
  /\ queue = <<>>
  /\ awaker = FALSE
  /\ flag = FALSE /\ clearing = FALSE /\ notified = FALSE
  /\ token = FALSE /\ busy = FALSE
  /\ sent = [t \in Thread |-> 0]
  /\ sender = [t \in Thread |-> "idle"]
  /\ worker = "boot"

-----------------------------------------------------------------------------
\* Sending: push_generic, run under the leg's mutex by BusLegSender::send.

\* Only a push that wakes the worker leaves the mutex held between two steps.
MutexFree == \A t \in Thread : sender[t] = "idle"

\* A thread sends to this leg whenever it likes, and the worker itself
\* (pop_inner inside any handler) when it is not waiting for the backend.
MaySend(t) ==
  /\ MutexFree
  /\ sent[t] < MaxSend
  /\ t = Worker => worker \in {"cycle", "events", "drain"} /\ ~clearing

\* Only the push that makes the length 1 calls the awaker, if there is one.
\* PollAwaker::awake does nothing at all.
Wakes(q) == Len(q) = 1 /\ awaker /\ polling

\* push_back of a safe send, push_back_stack of an unsafe one that fits.
Push(t, safe) ==
  /\ MaySend(t)
  /\ safe \/ Len(queue) < StackSize
  /\ queue' = Append(queue, [from |-> t, n |-> sent[t], boot |-> ~awaker])
  /\ sent' = [sent EXCEPT ![t] = @ + 1]
  /\ sender' = [sender EXCEPT ![t] = IF Wakes(queue') THEN "load" ELSE "idle"]
  /\ UNCHANGED <<awaker, backend, worker>>

\* push_back_stack of an unsafe send that does not fit: ChannelFull.
Refuse(t) ==
  /\ MaySend(t)
  /\ Len(queue) >= StackSize
  /\ sent' = [sent EXCEPT ![t] = @ + 1]
  /\ UNCHANGED <<queue, awaker, backend, sender, worker>>

\* PollingAwaker::awake: read the flag, raise it, notify the poller.
AwakeLoad(t) ==
  /\ sender[t] = "load"
  /\ sender' = [sender EXCEPT ![t] = IF flag THEN "idle" ELSE "store"]
  /\ UNCHANGED <<queue, awaker, backend, sent, worker>>

\* Mutant of AwakeStore: the poller is not notified.
AwakeStoreSilent(t) ==
  /\ sender[t] = "store"
  /\ flag' = TRUE
  /\ sender' = [sender EXCEPT ![t] = "idle"]
  /\ UNCHANGED <<polling, queue, awaker, clearing, notified, token, busy, sent, worker>>

AwakeStore(t) ==
  /\ sender[t] = "store"
  /\ flag' = TRUE
  /\ sender' = [sender EXCEPT ![t] = "notify"]
  /\ UNCHANGED <<polling, queue, awaker, clearing, notified, token, busy, sent, worker>>

AwakeNotify(t) ==
  /\ sender[t] = "notify"
  /\ notified' = TRUE
  /\ sender' = [sender EXCEPT ![t] = "idle"]
  /\ UNCHANGED <<polling, queue, awaker, flag, clearing, token, busy, sent, worker>>

-----------------------------------------------------------------------------
\* The worker's cycle.  Its thread is elsewhere while it is in awake().
WorkerAt(pc) == worker = pc /\ sender[Worker] = "idle"

\* Worker::new registers the awaker; the leg has been public since add_worker.
SetAwaker ==
  /\ WorkerAt("boot") /\ MutexFree
  /\ awaker' = TRUE
  /\ worker' = "cycle"
  /\ UNCHANGED <<queue, backend, sent, sender>>

\* The end of the handlers of control events and ticks: poll_incoming.
StartPoll ==
  /\ WorkerAt("cycle")
  /\ worker' = "wait"
  /\ UNCHANGED <<queue, awaker, backend, sent, sender>>

\* PollingBackend: wait returns, by a notification or when its time is up;
\* it takes the notification with it.
WaitReturns ==
  /\ polling /\ WorkerAt("wait")
  /\ notified' = FALSE
  /\ worker' = "check"
  /\ UNCHANGED <<polling, queue, awaker, flag, clearing, token, busy, sent, sender>>

\* wait fails: poll_incoming returns before it looks at the flag.
WaitFails ==
  /\ polling /\ WorkerAt("wait")
  /\ worker' = "events"
  /\ UNCHANGED <<queue, awaker, backend, sent, sender>>

\* The flag is read, lowered and turned into an event.
CheckFlag ==
  /\ WorkerAt("check")
  /\ token' = flag /\ clearing' = flag
  /\ worker' = "events"
  /\ UNCHANGED <<polling, queue, awaker, flag, notified, busy, sent, sender>>

\* The store that lowers the flag becomes visible to the other threads.
FlagLowered ==
  /\ clearing
  /\ flag' = FALSE /\ clearing' = FALSE
  /\ UNCHANGED <<polling, queue, awaker, notified, token, busy, sent, sender, worker>>

\* Mutant of Sleep: the Awake event is not queued by hand.
SleepOnly ==
  /\ ~polling /\ WorkerAt("wait") /\ ~busy
  /\ worker' = "events"
  /\ UNCHANGED <<polling, queue, awaker, flag, clearing, notified, token, busy, sent, sender>>

\* PollBackend: an Awake event is queued before the sleep, but only if
\* nothing else waits in the output queue.
Sleep ==
  /\ ~polling /\ WorkerAt("wait") /\ ~busy
  /\ token' = TRUE
  /\ worker' = "events"
  /\ UNCHANGED <<polling, queue, awaker, flag, clearing, notified, busy, sent, sender>>

SkipSleep ==
  /\ ~polling /\ WorkerAt("wait") /\ busy
  /\ busy' = FALSE
  /\ worker' = "events"
  /\ UNCHANGED <<polling, queue, awaker, flag, clearing, notified, token, sent, sender>>

\* A handler opens a socket: on_action queues the answer in the output.
Listen ==
  /\ ~polling /\ WorkerAt("cycle")
  /\ busy' = TRUE
  /\ UNCHANGED <<polling, queue, awaker, flag, clearing, notified, token, sent, sender, worker>>

\* Mutant of TakeAwake: the event is read and left at the front.
TakeAwakeLeft ==
  /\ WorkerAt("events") /\ token
  /\ worker' = "drain"
  /\ UNCHANGED <<polling, queue, awaker, flag, clearing, notified, token, busy, sent, sender>>

\* pop_incoming hands out the Awake event, or has nothing left.
TakeAwake ==
  /\ WorkerAt("events") /\ token
  /\ token' = FALSE
  /\ worker' = "drain"
  /\ UNCHANGED <<polling, queue, awaker, flag, clearing, notified, busy, sent, sender>>

EndCycle ==
  /\ WorkerAt("events") /\ ~token
  /\ worker' = "cycle"
  /\ UNCHANGED <<queue, awaker, backend, sent, sender>>

\* Mutant of Recv: on_awake takes one message and leaves the rest.
RecvOne ==
  /\ WorkerAt("drain") /\ MutexFree /\ ~clearing
  /\ worker' = "events"
  /\ queue' = IF queue = <<>> THEN queue ELSE Tail(queue)
  /\ UNCHANGED <<awaker, backend, sent, sender>>

\* Mutant of Recv: the flag goes down only after the drain.
RecvBeforeLowered ==
  /\ WorkerAt("drain") /\ MutexFree
  /\ IF queue = <<>>
       THEN worker' = "events" /\ UNCHANGED queue
       ELSE queue' = Tail(queue) /\ UNCHANGED worker
  /\ UNCHANGED <<awaker, backend, sent, sender>>

\* One turn of on_awake's loop: recv, and the end of the loop on None.
Recv ==
  /\ WorkerAt("drain") /\ MutexFree /\ ~clearing
  /\ IF queue = <<>>
       THEN worker' = "events" /\ UNCHANGED queue
       ELSE queue' = Tail(queue) /\ UNCHANGED worker
  /\ UNCHANGED <<awaker, backend, sent, sender>>

-----------------------------------------------------------------------------
AwakeStep(t) == AwakeLoad(t) \/ AwakeStore(t) \/ AwakeNotify(t)

WorkerStep ==
  \/ SetAwaker \/ StartPoll \/ WaitReturns \/ WaitFails \/ CheckFlag \/ FlagLowered
  \/ Sleep \/ SkipSleep \/ Listen \/ TakeAwake \/ EndCycle \/ Recv

Send(t) == Push(t, TRUE) \/ Push(t, FALSE) \/ Refuse(t)

Next ==
  \/ \E t \in Thread : Send(t) \/ AwakeStep(t)
  \/ WorkerStep

Spec == Init /\ [][Next]_vars

\* The threads run (a critical section ends, the worker goes round), a wait
\* does not fail for ever, and not every cycle of the poll backend opens a
\* socket before it sleeps.
Fairness ==
  /\ \A t \in Thread : WF_vars(AwakeStep(t))
  /\ WF_vars(SetAwaker \/ StartPoll \/ CheckFlag \/ FlagLowered \/ TakeAwake \/ EndCycle \/ Recv)
  /\ WF_vars(Sleep \/ SkipSleep) /\ SF_vars(WaitReturns) /\ SF_vars(StartPoll /\ ~busy)

FairSpec == Spec /\ Fairness

-----------------------------------------------------------------------------
Types ==
  /\ polling \in BOOLEAN
  /\ queue \in Seq(Message)
  /\ awaker \in BOOLEAN
  /\ flag \in BOOLEAN /\ clearing \in BOOLEAN /\ notified \in BOOLEAN
  /\ token \in BOOLEAN /\ busy \in BOOLEAN
  /\ sent \in [Thread -> 0..MaxSend]
  /\ sender \in [Thread -> {"idle", "load", "store", "notify"}]
  /\ worker \in {"boot", "cycle", "wait", "check", "events", "drain"}

\* An Awake event of one cycle is handed out before the next cycle starts.
TokenPlace == token => worker = "events"

\* Type invariant: what each variable holds, and when an Awake event waits.
TypeOK == Types /\ TokenPlace

\* The queue was first filled while the leg had no awaker.
BootBacklog == queue # <<>> /\ Head(queue).boot

\* No wake-up is lost: while a message waits in the leg of a registered
\* worker, the flag is up, or the Awake event is queued, or the worker is
\* draining, or the sender that will raise the flag is on its way.  Each push
\* but the first relies on an earlier one having woken the worker, and the
\* flag is read and lowered outside the mutex.
NoLostWakeup ==
  polling /\ queue # <<>> /\ ~BootBacklog =>
    flag \/ token \/ worker = "drain" \/ \E t \in Thread : sender[t] \in {"load", "store"}

\* The worker never sleeps out its wait on a message: when it is blocked in
\* the poller with a message in its leg, the poller has been notified or the
\* sender has not left awake().  This is what notify is for, the flag alone
\* is looked at only when the wait is over.
PromptWake ==
  polling /\ worker = "wait" /\ queue # <<>> /\ ~BootBacklog =>
    notified \/ ~MutexFree

InQueue(t, n) == \E i \in DOMAIN queue : queue[i].from = t /\ queue[i].n = n

\* Every message that a send accepted is taken out by the worker; with the
\* polling backend, if it is in a leg whose queue was not first filled before
\* the awaker was set.
Delivered ==
  \A t \in Thread, n \in 0..MaxSend :
    (InQueue(t, n) /\ ~(polling /\ BootBacklog)) ~> ~InQueue(t, n)

\* Every accepted message is taken out by the worker, whatever was sent while
\* the worker was starting.
AllDelivered ==
  \A t \in Thread, n \in 0..MaxSend : InQueue(t, n) ~> ~InQueue(t, n)
=============================================================================

---------------------------- MODULE BusLegProofs ----------------------------
(***************************************************************************)
(* No wake-up of a registered worker is lost, for any number of sending    *)
(* threads and of messages.                                                *)
(***************************************************************************)
EXTENDS BusLeg, SequenceTheorems, TLAPS

\* The awaker is set by the step that leaves "boot".
AwakerSet == awaker <=> worker # "boot"

\* The mutex: one thread at most is inside awake().
OneInside ==
  \A s, t \in Thread : sender[s] # "idle" /\ sender[t] # "idle" => s = t

\* Nobody raises the flag between a sender's load of FALSE and its store.
StoreFindsLow == \A t \in Thread : sender[t] = "store" => ~flag

\* While the flag is about to go down the worker is committed to a drain.
LoweringDrains == clearing => flag /\ (token \/ worker = "drain")

\* A raised flag that the worker has not come to look at is announced to it.
RaisedIsNotified ==
  polling /\ flag /\ ~clearing /\ worker # "check" =>
    notified \/ \E t \in Thread : sender[t] = "notify"

\* Before the awaker is set every message is a message of the boot.
BootMarked == ~awaker /\ queue # <<>> => Head(queue).boot

LegInv ==
  /\ Types
  /\ AwakerSet
  /\ OneInside
  /\ StoreFindsLow
  /\ TokenPlace
  /\ LoweringDrains
  /\ RaisedIsNotified
  /\ BootMarked
  /\ NoLostWakeup

-----------------------------------------------------------------------------
\* A message pushed behind others leaves the head alone, one pushed into an
\* empty queue is its head and its length 1.
LEMMA AppendHead ==
  ASSUME NEW S, NEW q \in Seq(S), NEW m \in S
  PROVE  /\ Append(q, m) \in Seq(S)
         /\ Append(q, m) # <<>>
         /\ q # <<>> => Head(Append(q, m)) = Head(q)
         /\ q = <<>> => Head(Append(q, m)) = m /\ Len(Append(q, m)) = 1
         /\ q # <<>> => Len(Append(q, m)) # 1
OBVIOUS

LEMMA InvInit == Init => LegInv
<1> SUFFICES ASSUME Init PROVE LegInv
  OBVIOUS
<1>1. Types
  <2>1. queue \in Seq(Message) /\ 0 \in 0..MaxSend
    BY MaxSendAssumption DEF Init
  <2>2. sent \in [Thread -> 0..MaxSend]
    BY <2>1 DEF Init
  <2>3. sender \in [Thread -> {"idle", "load", "store", "notify"}]
    BY DEF Init
  <2> QED BY <2>1, <2>2, <2>3 DEF Init, Types
<1>2. AwakerSet /\ TokenPlace /\ LoweringDrains /\ RaisedIsNotified
  BY DEF Init, AwakerSet, TokenPlace, LoweringDrains, RaisedIsNotified
<1>3. OneInside /\ StoreFindsLow /\ BootMarked /\ NoLostWakeup
  BY DEF Init, OneInside, StoreFindsLow, BootMarked, NoLostWakeup
<1> QED BY <1>1, <1>2, <1>3 DEF LegInv

\* The steps of the senders.
LEMMA PushKeepsInv ==
  ASSUME LegInv, NEW t \in Thread, NEW safe \in BOOLEAN, Push(t, safe)
  PROVE  LegInv'
<1> DEFINE m == [from |-> t, n |-> sent[t], boot |-> ~awaker]
<1> USE DEF LegInv, Push, MaySend, MutexFree
<1>1. m \in Message /\ sent[t] \in Nat
  BY MaxSendAssumption DEF Types, Message
<1>2. queue' = Append(queue, m) /\ queue \in Seq(Message)
  BY DEF Types
<1>3. /\ queue' \in Seq(Message) /\ queue' # <<>>
      /\ queue # <<>> => Head(queue') = Head(queue) /\ ~Wakes(queue')
      /\ queue = <<>> => Head(queue').boot = ~awaker /\ Len(queue') = 1
  BY <1>1, <1>2, AppendHead DEF Wakes
<1>4. Types'
  BY <1>1, <1>3, MaxSendAssumption DEF Types, backend
<1>5. AwakerSet' /\ TokenPlace' /\ LoweringDrains'
  BY DEF AwakerSet, TokenPlace, LoweringDrains, backend
<1>6. /\ \A s \in Thread : s # t => sender'[s] = "idle"
      /\ sender'[t] \in {"idle", "load"}
      /\ sender'[t] = "load" <=> Wakes(queue')
  BY DEF Types
<1>7. OneInside' /\ StoreFindsLow'
  BY <1>6 DEF OneInside, StoreFindsLow
<1>8. RaisedIsNotified'
  BY <1>6 DEF RaisedIsNotified, backend
<1>9. BootMarked'
  BY <1>3 DEF BootMarked, backend
<1>10. NoLostWakeup'
  <2>1. CASE queue = <<>>
    <3>1. polling' = polling /\ awaker' = awaker
      BY DEF backend
    <3>2. CASE awaker /\ polling
      BY <2>1, <1>3, <1>6, <3>2 DEF NoLostWakeup, Wakes
    <3>3. CASE ~awaker
      BY <2>1, <1>3, <3>3 DEF NoLostWakeup, BootBacklog
    <3>4. CASE ~polling
      BY <3>1, <3>4 DEF NoLostWakeup
    <3> QED BY <3>2, <3>3, <3>4
  <2>2. CASE queue # <<>>
    BY <2>2, <1>3, <1>6 DEF NoLostWakeup, BootBacklog, backend
  <2> QED BY <2>1, <2>2
<1> QED BY <1>4, <1>5, <1>7, <1>8, <1>9, <1>10

LEMMA AwakeKeepsInv ==
  ASSUME LegInv, NEW t \in Thread, AwakeStep(t)
  PROVE  LegInv'
<1> USE DEF LegInv
<1>1. CASE AwakeLoad(t)
  <2> USE <1>1 DEF AwakeLoad, backend
  <2>1. /\ \A s \in Thread : s # t => sender'[s] = "idle"
        /\ sender'[t] = IF flag THEN "idle" ELSE "store"
    BY DEF Types, OneInside
  <2>2. Types' /\ AwakerSet' /\ TokenPlace' /\ LoweringDrains' /\ BootMarked'
    BY DEF Types, AwakerSet, TokenPlace, LoweringDrains, BootMarked
  <2>3. OneInside' /\ StoreFindsLow' /\ RaisedIsNotified'
    BY <2>1 DEF OneInside, StoreFindsLow, RaisedIsNotified
  <2>4. NoLostWakeup'
    BY <2>1 DEF NoLostWakeup, BootBacklog
  <2> QED BY <2>2, <2>3, <2>4
<1>2. CASE AwakeStore(t)
  <2> USE <1>2 DEF AwakeStore
  <2>1. /\ \A s \in Thread : s # t => sender'[s] = "idle"
        /\ sender'[t] = "notify" /\ flag'
    BY DEF Types, OneInside
  <2>2. Types' /\ AwakerSet' /\ TokenPlace' /\ LoweringDrains' /\ BootMarked'
    BY DEF Types, AwakerSet, TokenPlace, LoweringDrains, BootMarked
  <2>3. OneInside' /\ StoreFindsLow' /\ RaisedIsNotified' /\ NoLostWakeup'
    BY <2>1 DEF OneInside, StoreFindsLow, RaisedIsNotified, NoLostWakeup
  <2> QED BY <2>2, <2>3
<1>3. CASE AwakeNotify(t)
  <2> USE <1>3 DEF AwakeNotify
  <2>1. \A s \in Thread : sender'[s] = "idle"
    BY DEF Types, OneInside
  <2>2. ~ \E s \in Thread : sender[s] \in {"load", "store"}
    BY DEF OneInside
  <2>3. Types' /\ AwakerSet' /\ TokenPlace' /\ LoweringDrains' /\ BootMarked'
    BY DEF Types, AwakerSet, TokenPlace, LoweringDrains, BootMarked
  <2>4. OneInside' /\ StoreFindsLow' /\ RaisedIsNotified'
    BY <2>1 DEF OneInside, StoreFindsLow, RaisedIsNotified
  <2>5. NoLostWakeup'
    BY <2>2 DEF NoLostWakeup, BootBacklog
  <2> QED BY <2>3, <2>4, <2>5
<1> QED BY <1>1, <1>2, <1>3 DEF AwakeStep

-----------------------------------------------------------------------------
\* The steps of the worker that leave the queue and the senders alone.
LEMMA CycleKeepsInv ==
  ASSUME LegInv,
         \/ SetAwaker \/ StartPoll \/ WaitReturns \/ WaitFails \/ CheckFlag
         \/ FlagLowered \/ Sleep \/ SkipSleep \/ Listen \/ TakeAwake \/ EndCycle
  PROVE  LegInv'
<1> USE DEF LegInv, WorkerAt, backend
<1>1. UNCHANGED <<queue, sender, sent>>
  BY DEF SetAwaker, StartPoll, WaitReturns, WaitFails, CheckFlag, FlagLowered,
         Sleep, SkipSleep, Listen, TakeAwake, EndCycle
<1>2. Types'
  BY <1>1 DEF Types, SetAwaker, StartPoll, WaitReturns, WaitFails, CheckFlag,
              FlagLowered, Sleep, SkipSleep, Listen, TakeAwake, EndCycle
<1>3. AwakerSet' /\ TokenPlace' /\ OneInside' /\ BootMarked'
  BY <1>1 DEF AwakerSet, TokenPlace, OneInside, BootMarked, Types,
              SetAwaker, StartPoll, WaitReturns, WaitFails, CheckFlag,
              FlagLowered, Sleep, SkipSleep, Listen, TakeAwake, EndCycle
<1>4. StoreFindsLow' /\ LoweringDrains'
  BY <1>1 DEF StoreFindsLow, LoweringDrains, TokenPlace, Types,
              SetAwaker, StartPoll, WaitReturns, WaitFails, CheckFlag,
              FlagLowered, Sleep, SkipSleep, Listen, TakeAwake, EndCycle
<1>5. RaisedIsNotified'
  BY <1>1 DEF RaisedIsNotified, LoweringDrains, Types,
              SetAwaker, StartPoll, WaitReturns, WaitFails, CheckFlag,
              FlagLowered, Sleep, SkipSleep, Listen, TakeAwake, EndCycle
<1>6. NoLostWakeup'
  <2> USE <1>1 DEF NoLostWakeup, BootBacklog
  <2>1. CASE SetAwaker
    <3>1. worker = "boot" /\ ~awaker
      BY <2>1 DEF SetAwaker, AwakerSet
    <3>2. queue # <<>> => Head(queue).boot
      BY <3>1 DEF BootMarked
    <3>3. queue' # <<>> => BootBacklog'
      BY <1>1, <3>2 DEF BootBacklog
    <3> QED BY <3>3 DEF NoLostWakeup
  <2>2. CASE FlagLowered
    BY <2>2 DEF FlagLowered, LoweringDrains
  <2>3. CASE CheckFlag
    <3>1. (flag <=> token') /\ (flag <=> flag')
      BY <2>3 DEF CheckFlag, Types
    <3>2. worker = "check" /\ ~token
      BY <2>3 DEF CheckFlag, TokenPlace
    <3>3. polling' = polling /\ awaker' = awaker
      BY <2>3 DEF CheckFlag
    <3>4. polling /\ queue # <<>> /\ ~BootBacklog => token' \/ \E t \in Thread : sender[t] \in {"load", "store"}
      BY <3>1, <3>2
    <3> QED BY <3>3, <3>4
  <2>4. CASE TakeAwake \/ EndCycle
    BY <2>4 DEF TakeAwake, EndCycle
  <2>5. CASE StartPoll \/ WaitReturns \/ WaitFails \/ Listen
    BY <2>5 DEF StartPoll, WaitReturns, WaitFails, Listen
  <2>6. CASE Sleep \/ SkipSleep
    BY <2>6 DEF Sleep, SkipSleep
  <2> QED BY <2>1, <2>2, <2>3, <2>4, <2>5, <2>6
<1> QED BY <1>2, <1>3, <1>4, <1>5, <1>6

LEMMA RecvKeepsInv ==
  ASSUME LegInv, Recv
  PROVE  LegInv'
<1> USE DEF LegInv, Recv, WorkerAt, backend
<1>1. queue \in Seq(Message) /\ queue' \in Seq(Message)
  BY HeadTailProperties DEF Types
<1>2. Types'
  BY <1>1 DEF Types
<1>3. AwakerSet' /\ OneInside' /\ StoreFindsLow' /\ TokenPlace' /\ LoweringDrains'
  BY DEF AwakerSet, OneInside, StoreFindsLow, TokenPlace, LoweringDrains
<1>4. RaisedIsNotified' /\ BootMarked' /\ NoLostWakeup'
  BY DEF RaisedIsNotified, BootMarked, NoLostWakeup, AwakerSet
<1> QED BY <1>2, <1>3, <1>4

LEMMA InvStep == LegInv /\ [Next]_vars => LegInv'
<1> SUFFICES ASSUME LegInv, [Next]_vars PROVE LegInv'
  OBVIOUS
<1>1. ASSUME NEW t \in Thread, Send(t) PROVE LegInv'
  <2>1. CASE Refuse(t)
    BY <2>1, MaxSendAssumption
       DEF Refuse, MaySend, backend, LegInv, Types, AwakerSet, OneInside,
           StoreFindsLow, TokenPlace, LoweringDrains, RaisedIsNotified,
           BootMarked, NoLostWakeup, BootBacklog
  <2> QED BY <1>1, <2>1, PushKeepsInv DEF Send
<1>2. ASSUME NEW t \in Thread, AwakeStep(t) PROVE LegInv'
  BY <1>2, AwakeKeepsInv
<1>3. CASE WorkerStep
  BY <1>3, CycleKeepsInv, RecvKeepsInv DEF WorkerStep
<1>4. CASE UNCHANGED vars
  BY <1>4 DEF vars, LegInv, Types, AwakerSet, OneInside, StoreFindsLow,
              TokenPlace, LoweringDrains, RaisedIsNotified, BootMarked,
              NoLostWakeup, BootBacklog
<1> QED BY <1>1, <1>2, <1>3, <1>4 DEF Next

-----------------------------------------------------------------------------
\* The worker is never blocked in the poller on a message nobody announced.
LEMMA InvIsPrompt == LegInv => PromptWake
BY DEF LegInv, Types, PromptWake, NoLostWakeup, RaisedIsNotified,
       LoweringDrains, TokenPlace, MutexFree

\* In every behaviour, with any senders: the variables keep their types
\* and an Awake event waits only while the backend hands out events.
THEOREM LegTypes == Spec => []TypeOK
<1>1. LegInv => TypeOK
  BY DEF LegInv, TypeOK
<1> QED BY <1>1, InvInit, InvStep, PTL DEF Spec

\* In every behaviour, with any senders: a message in the leg of a registered
\* worker has a wake-up on its way.
THEOREM LegLosesNoWakeup == Spec => []NoLostWakeup
BY InvInit, InvStep, PTL DEF Spec, LegInv

\* In every behaviour, with any senders: a worker blocked in the poller over a
\* message has been notified, or is about to be.
THEOREM LegWakesPromptly == Spec => []PromptWake
BY InvInit, InvStep, InvIsPrompt, PTL DEF Spec
=============================================================================

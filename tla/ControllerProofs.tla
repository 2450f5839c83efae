-------------------------- MODULE ControllerProofs --------------------------
(***************************************************************************)
(* What the controller knows of its workers, for any number of workers,    *)
(* spawns, messages and shutdowns and any size of a leg: statistics do not *)
(* pile up, and the answer None is true as far as statistics reach.        *)
(***************************************************************************)
EXTENDS Controller, CountingLemmas

Msg == {"spawn", "ext", "shutdown", "stats"}

\* Only workers that were added have sent something.
EventsTyped ==
  \A i \in 1..Len(events) :
    /\ events[i].from \in Workers
    /\ events[i].kind = "stats" => events[i].started \in 0..MaxSpawn

\* Every spawn that was asked for is at most once under way or handed out, and
\* every one handed to a worker is started or waits in its leg.
SpawnEvents == {e \in Event : e.kind = "spawn"}

SpawnsAsked == \A w \in AllWorkers : sent[w] + HowMany(events, SpawnEvents) <= asked

SpawnsWaiting == \A w \in AllWorkers : started[w] + HowMany(inbox[w], {"spawn"}) = sent[w]

LoopInv == TypeOK /\ EventsTyped /\ SpawnsAsked /\ SpawnsWaiting

\* A request is only sent into a leg with room.
RequestsInFront ==
  \A w \in AllWorkers : \A i \in 1..Len(inbox[w]) : inbox[w][i] = "stats" => i <= StackSize

\* The worker is still to be asked in the next round, or in this one.
NotAsked(w) == call[1] \in {"idle", "shutdown"} \/ (call[1] = "ask" /\ w >= call[2])

AnswersOf(w) == {e \in Event : e.kind = "stats" /\ e.from = w}

\* Requests and answers of a worker that are under way.
UnderWay(w) == HowMany(inbox[w], {"stats"}) + HowMany(events, AnswersOf(w))

RoundsBounded ==
  \A w \in AllWorkers : UnderWay(w) <= IF NotAsked(w) THEN StackSize ELSE StackSize + 1

\* Statistics s that a worker gave after n spawns: if it was handed none since,
\* and it seems to run nothing, it runs nothing.
Truthful(w, n, s) ==
  n <= started[w] /\ (n = sent[w] /\ (s.tasks = 0 \/ s.empty) => Running(w) = 0)

StatsTrue == \A w \in AllWorkers : counted[w] = NotCounted \/ Truthful(w, counted[w], stats[w])

AnswersTrue ==
  \A i \in 1..Len(events) :
    events[i].kind = "stats" => Truthful(events[i].from, events[i].started, events[i].stats)

ControllerInv == LoopInv /\ RequestsInFront /\ RoundsBounded /\ StatsTrue /\ AnswersTrue

-----------------------------------------------------------------------------
\* min_by_key finds a worker when there is one.
LEMMA BestFound ==
  ASSUME TypeOK, added > 0
  PROVE  Best \in Workers
<1>1. added \in Nat /\ Workers \subseteq AllWorkers /\ 1 \in Workers /\ Workers \in SUBSET Nat
  <2>1. added \in 0..MaxWorkers
    BY DEF TypeOK
  <2> QED BY <2>1, MaxWorkersAssumption DEF Workers, AllWorkers
<1>2. \A w \in Workers : stats[w].tasks \in Nat
  BY <1>1 DEF TypeOK
<1> DEFINE Loads == {stats[w].tasks : w \in Workers}
<1>3. PICK low \in Loads : \A l \in Loads : low <= l
  <2>1. Loads \in SUBSET Nat /\ Loads # {}
    BY <1>1, <1>2
  <2> HIDE DEF Loads
  <2> QED BY <2>1, LeastOf
<1> DEFINE Lowest == {w \in Workers : stats[w].tasks = low}
<1>4. PICK w \in Lowest : \A v \in Lowest : w <= v
  <2>1. Lowest \in SUBSET Nat /\ Lowest # {}
    BY <1>1, <1>3
  <2> HIDE DEF Lowest
  <2> QED BY <2>1, LeastOf
<1>5. /\ w \in Workers
      /\ \A v \in Workers : stats[w].tasks <= stats[v].tasks /\ (stats[v].tasks = stats[w].tasks => w <= v)
  BY <1>3, <1>4
<1> QED BY <1>5 DEF Best

\* A message told to a worker: its leg is longer by it, the others are as they were.
LEMMA ToldLeg ==
  ASSUME TypeOK, NEW w \in AllWorkers, NEW m \in Msg, Tell(w, m)
  PROVE  /\ inbox' \in [AllWorkers -> Seq(Msg)]
         /\ inbox'[w] = Append(inbox[w], m)
         /\ \A v \in AllWorkers : v # w => inbox'[v] = inbox[v]
         /\ \A V : HowMany(inbox'[w], V) = IF m \in V THEN HowMany(inbox[w], V) + 1
                                           ELSE HowMany(inbox[w], V)
<1>1. inbox \in [AllWorkers -> Seq(Msg)] /\ inbox[w] \in Seq(Msg)
  BY DEF TypeOK, Msg
<1>2. /\ inbox' = [inbox EXCEPT ![w] = Append(inbox[w], m)]
      /\ Append(inbox[w], m) \in Seq(Msg)
  BY <1>1 DEF Tell
<1>3. inbox' \in [AllWorkers -> Seq(Msg)] /\ inbox'[w] = Append(inbox[w], m)
      /\ \A v \in AllWorkers : v # w => inbox'[v] = inbox[v]
  BY <1>1, <1>2
<1>4. \A V : HowMany(Append(inbox[w], m), V) = IF m \in V THEN HowMany(inbox[w], V) + 1
                                               ELSE HowMany(inbox[w], V)
  BY <1>1, HowManyAppend
<1> QED BY <1>3, <1>4

\* A message taken by a worker.
LEMMA TakenLeg ==
  ASSUME TypeOK, NEW w \in AllWorkers, inbox[w] # <<>>, inbox' = [inbox EXCEPT ![w] = Tail(@)]
  PROVE  /\ inbox' \in [AllWorkers -> Seq(Msg)] /\ Head(inbox[w]) \in Msg
         /\ inbox'[w] = Tail(inbox[w])
         /\ \A v \in AllWorkers : v # w => inbox'[v] = inbox[v]
         /\ \A V : HowMany(inbox'[w], V) = IF Head(inbox[w]) \in V THEN HowMany(inbox[w], V) - 1
                                           ELSE HowMany(inbox[w], V)
<1>1. inbox \in [AllWorkers -> Seq(Msg)] /\ inbox[w] \in Seq(Msg)
  BY DEF TypeOK, Msg
<1>2. /\ inbox' = [inbox EXCEPT ![w] = Tail(inbox[w])]
      /\ Tail(inbox[w]) \in Seq(Msg) /\ Head(inbox[w]) \in Msg
  BY <1>1
<1>3. inbox' \in [AllWorkers -> Seq(Msg)] /\ inbox'[w] = Tail(inbox[w])
      /\ \A v \in AllWorkers : v # w => inbox'[v] = inbox[v]
  BY <1>1, <1>2
<1>4. \A V : HowMany(Tail(inbox[w]), V) = IF Head(inbox[w]) \in V THEN HowMany(inbox[w], V) - 1
                                          ELSE HowMany(inbox[w], V)
  BY <1>1, HowManyTail
<1> QED BY <1>2, <1>3, <1>4

\* The numbers of the invariant are numbers.
LEMMA CountsAreNat ==
  ASSUME TypeOK
  PROVE  /\ \A V : HowMany(events, V) \in Nat
         /\ \A w \in AllWorkers : \A V :
              HowMany(inbox[w], V) \in Nat /\ HowMany(inbox[w], V) <= Len(inbox[w])
<1>1. events \in Seq(Event) /\ \A w \in AllWorkers : inbox[w] \in Seq(Msg)
  BY DEF TypeOK, Msg
<1> QED BY <1>1, HowManyType

\* The controller's loops over the workers end with what comes after them.
LEMMA LoopGoesOn ==
  ASSUME TypeOK, NEW name, NEW i \in 1..(added + 1), NEW after
  PROVE  /\ i > added => Loop(name, i, after) = after
         /\ ~(i > added) => /\ Loop(name, i, after) = <<name, i>>
                            /\ i \in Workers
BY DEF Loop, Workers, TypeOK

-----------------------------------------------------------------------------
\* Types, and every spawn in one place.
LEMMA LoopInit == Init => LoopInv
<1> SUFFICES ASSUME Init  PROVE LoopInv
  OBVIOUS
<1>1. events = <<>> /\ events \in Seq(Event) /\ \A V : HowMany(events, V) = 0
  BY HowManyEmpty DEF Init
<1>2. ASSUME NEW w \in AllWorkers  PROVE inbox[w] = <<>> /\ \A V : HowMany(inbox[w], V) = 0
  BY HowManyEmpty DEF Init
<1>3. tasks \in [AllWorkers -> [living : Nat, closing : Nat, empty : Nat]]
  <2>1. \A w \in AllWorkers : OwnTasks[w] \subseteq Nat
    BY OwnTasksAssumption DEF AllWorkers
  <2>2. UNION {OwnTasks[w] : w \in AllWorkers} \subseteq Nat
    BY <2>1
  <2>3. [living : UNION {OwnTasks[w] : w \in AllWorkers}, closing : {0}, empty : {0}]
          \subseteq [living : Nat, closing : Nat, empty : Nat]
    BY <2>2
  <2>4. tasks \in [AllWorkers -> [living : UNION {OwnTasks[w] : w \in AllWorkers},
                                  closing : {0}, empty : {0}]]
    BY DEF Init
  <2> QED BY <2>3, <2>4
<1>4. inbox \in [AllWorkers -> Seq(Msg)]
  BY DEF Init
<1>5. TypeOK
  <2>1. MaxWorkers \in Nat /\ MaxSpawn \in Nat /\ MaxExt \in Nat /\ MaxShutdown \in Nat
    BY MaxWorkersAssumption, BoundsAssumption
  <2>2. /\ added \in 0..MaxWorkers /\ shutdowns \in 0..MaxShutdown /\ over \in BOOLEAN
        /\ asked \in 0..MaxSpawn /\ exts \in 0..MaxExt /\ call \in {Idle, Draining}
    <3>1. 0 \in 0..MaxWorkers /\ 0 \in 0..MaxShutdown /\ 0 \in 0..MaxSpawn /\ 0 \in 0..MaxExt
      BY <2>1
    <3> QED BY <3>1 DEF Init
  <2>3. /\ stats \in [AllWorkers -> [tasks : Nat, empty : BOOLEAN]]
        /\ at \in [AllWorkers -> {"control", "outputs"}]
        /\ sent \in [AllWorkers -> 0..MaxSpawn] /\ started \in [AllWorkers -> 0..MaxSpawn]
        /\ counted \in [AllWorkers -> 0..NotCounted]
    BY <2>1 DEF Init, NotCounted
  <2> QED BY <1>1, <1>3, <1>4, <2>2, <2>3 DEF TypeOK, Msg
<1>6. EventsTyped /\ SpawnsAsked /\ SpawnsWaiting
  BY <1>1, <1>2 DEF Init, EventsTyped, SpawnsAsked, SpawnsWaiting
<1> QED BY <1>5, <1>6 DEF LoopInv

\* A spawn sent to the best worker; asks is how many more were asked for, and
\* takes how many events of a worker that asked for one are gone.
LEMMA SpawnOnBestSends ==
  ASSUME LoopInv, added > 0, SpawnOnBest
  PROVE  /\ Best \in Workers /\ Best \in AllWorkers /\ Tell(Best, "spawn")
         /\ stats' \in [AllWorkers -> [tasks : Nat, empty : BOOLEAN]]
         /\ \A w \in AllWorkers : w # Best => stats'[w] = stats[w]
         /\ inbox' \in [AllWorkers -> Seq(Msg)]
         /\ \A w \in AllWorkers : sent'[w] = IF w = Best THEN sent[w] + 1 ELSE sent[w]
         /\ DOMAIN sent' = AllWorkers /\ sent' = [w \in AllWorkers |-> sent'[w]]
         /\ \A w \in AllWorkers :
              started[w] + HowMany(inbox'[w], {"spawn"}) = sent'[w]
<1> DEFINE b == Best
<1>1. b \in Workers /\ b \in AllWorkers
  <2>1. b \in Workers
    BY BestFound DEF LoopInv
  <2>2. added \in 0..MaxWorkers
    BY DEF LoopInv, TypeOK
  <2> QED BY <2>1, <2>2, MaxWorkersAssumption DEF Workers, AllWorkers
<1>2. /\ stats' = [stats EXCEPT ![b].tasks = @ + 1]
      /\ Tell(b, "spawn")
      /\ sent' = [sent EXCEPT ![b] = @ + 1]
  BY DEF SpawnOnBest
<1>3. /\ stats \in [AllWorkers -> [tasks : Nat, empty : BOOLEAN]]
      /\ sent \in [AllWorkers -> 0..MaxSpawn] /\ started \in [AllWorkers -> 0..MaxSpawn]
      /\ TypeOK
  BY DEF LoopInv, TypeOK
<1> HIDE DEF b
<1>4. /\ stats' \in [AllWorkers -> [tasks : Nat, empty : BOOLEAN]]
      /\ \A w \in AllWorkers : w # b => stats'[w] = stats[w]
  BY <1>1, <1>2, <1>3
<1>5. /\ \A w \in AllWorkers : sent'[w] = IF w = b THEN sent[w] + 1 ELSE sent[w]
      /\ DOMAIN sent' = AllWorkers /\ sent' = [w \in AllWorkers |-> sent'[w]]
  BY <1>1, <1>2, <1>3
<1>6. /\ inbox' \in [AllWorkers -> Seq(Msg)]
      /\ \A w \in AllWorkers : w # b => inbox'[w] = inbox[w]
      /\ HowMany(inbox'[b], {"spawn"}) = HowMany(inbox[b], {"spawn"}) + 1
  BY <1>1, <1>2, <1>3, ToldLeg DEF Msg
<1>7. ASSUME NEW w \in AllWorkers  PROVE started[w] + HowMany(inbox'[w], {"spawn"}) = sent'[w]
  <2>1. /\ started[w] + HowMany(inbox[w], {"spawn"}) = sent[w]
        /\ started[w] \in Nat /\ sent[w] \in Nat /\ HowMany(inbox[w], {"spawn"}) \in Nat
    <3>1. started[w] + HowMany(inbox[w], {"spawn"}) = sent[w]
      BY DEF LoopInv, SpawnsWaiting
    <3>2. started[w] \in Nat /\ sent[w] \in Nat
      BY <1>3
    <3>3. HowMany(inbox[w], {"spawn"}) \in Nat
      BY <1>3, CountsAreNat
    <3> QED BY <3>1, <3>2, <3>3
  <2>2. CASE w = b
    <3>1. sent'[w] = sent[w] + 1
      BY <1>5, <2>2
    <3>2. HowMany(inbox'[w], {"spawn"}) = HowMany(inbox[w], {"spawn"}) + 1
      BY <1>6, <2>2
    <3> QED BY <2>1, <3>1, <3>2
  <2>3. CASE w # b
    BY <1>5, <1>6, <2>1, <2>3
  <2> QED BY <2>2, <2>3
<1> QED BY <1>1, <1>2, <1>4, <1>5, <1>6, <1>7 DEF b

\* What a step that tells no spawn and takes none has to keep.
LEMMA LoopFrame ==
  ASSUME LoopInv, added' \in 0..MaxWorkers, added <= added',
         stats' \in [AllWorkers -> [tasks : Nat, empty : BOOLEAN]],
         shutdowns' \in 0..MaxShutdown, over' \in BOOLEAN,
         call' \in {Idle, Draining} \cup ({"ask", "shutdown"} \X Workers'),
         inbox' \in [AllWorkers -> Seq(Msg)], events' \in Seq(Event),
         at' \in [AllWorkers -> {"control", "outputs"}],
         tasks' \in [AllWorkers -> [living : Nat, closing : Nat, empty : Nat]],
         asked' \in 0..MaxSpawn, exts' \in 0..MaxExt,
         UNCHANGED <<sent, started>>, counted' \in [AllWorkers -> 0..NotCounted],
         EventsTyped', asked <= asked',
         HowMany(events', SpawnEvents) - HowMany(events, SpawnEvents) <= asked' - asked,
         \A w \in AllWorkers : HowMany(inbox'[w], {"spawn"}) = HowMany(inbox[w], {"spawn"})
  PROVE  LoopInv'
<1>1. TypeOK'
  BY DEF LoopInv, TypeOK, Msg
<1>2. SpawnsAsked'
  <2> SUFFICES ASSUME NEW w \in AllWorkers
               PROVE  sent[w] + HowMany(events', SpawnEvents) <= asked'
    BY DEF SpawnsAsked, SpawnEvents, Event, AllWorkers
  <2>1. sent[w] + HowMany(events, SpawnEvents) <= asked
    BY DEF LoopInv, SpawnsAsked
  <2>2. HowMany(events, SpawnEvents) \in Nat /\ HowMany(events', SpawnEvents) \in Nat
    BY HowManyType DEF LoopInv, TypeOK
  <2>3. sent[w] \in Nat /\ asked \in Nat /\ asked' \in Nat
    BY BoundsAssumption DEF LoopInv, TypeOK
  <2> DEFINE before == HowMany(events, SpawnEvents)
             after == HowMany(events', SpawnEvents)
  <2>4. after - before <= asked' - asked
    OBVIOUS
  <2> HIDE DEF before, after
  <2>5. before \in Nat /\ after \in Nat /\ sent[w] + before <= asked
    BY <2>1, <2>2 DEF before, after
  <2>6. sent[w] + after <= asked'
    BY <2>3, <2>4, <2>5, SMTT(30)
  <2> QED BY <2>6 DEF after
<1>3. SpawnsWaiting'
  BY DEF LoopInv, SpawnsWaiting
<1> QED BY <1>1, <1>2, <1>3 DEF LoopInv

\* The calls of the controller that send nothing or what is no spawn.
LEMMA CallsKeepLoop ==
  ASSUME LoopInv,
         \/ AddWorker \/ SendToBest \/ \E w \in Workers : SendTo(w)
         \/ Shutdown \/ Process \/ ProcessEnds \/ TellShutdown \/ AskStats \/ ProcessDone
  PROVE  LoopInv'
<1>1. /\ TypeOK /\ added \in 0..MaxWorkers /\ added \in Nat /\ MaxWorkers \in Nat
      /\ Workers \subseteq AllWorkers /\ call \in {Idle, Draining} \cup ({"ask", "shutdown"} \X Workers)
      /\ inbox \in [AllWorkers -> Seq(Msg)]
  <2>1. TypeOK
    BY DEF LoopInv
  <2>2. added \in 0..MaxWorkers /\ added \in Nat /\ MaxWorkers \in Nat
    BY <2>1, MaxWorkersAssumption DEF TypeOK
  <2>3. Workers \subseteq AllWorkers
    BY <2>2 DEF Workers, AllWorkers
  <2>4. /\ call \in {Idle, Draining} \cup ({"ask", "shutdown"} \X Workers)
        /\ inbox \in [AllWorkers -> Seq(Msg)]
    BY <2>1 DEF TypeOK, Msg
  <2> QED BY <2>1, <2>2, <2>3, <2>4
<1>2. /\ stats \in [AllWorkers -> [tasks : Nat, empty : BOOLEAN]]
      /\ shutdowns \in 0..MaxShutdown /\ over \in BOOLEAN /\ events \in Seq(Event)
      /\ at \in [AllWorkers -> {"control", "outputs"}]
      /\ tasks \in [AllWorkers -> [living : Nat, closing : Nat, empty : Nat]]
      /\ asked \in 0..MaxSpawn /\ exts \in 0..MaxExt
      /\ counted \in [AllWorkers -> 0..NotCounted]
  BY DEF LoopInv, TypeOK
<1>3. /\ HowMany(events, SpawnEvents) \in Nat
      /\ HowMany(events, SpawnEvents) - HowMany(events, SpawnEvents) <= asked - asked
      /\ asked \in Nat
  <2>1. HowMany(events, SpawnEvents) \in Nat
    BY <1>1, CountsAreNat
  <2> QED BY <1>2, <2>1
<1>4. CASE AddWorker
  <2>1. /\ added' \in 0..MaxWorkers /\ added <= added' /\ call' = Idle
        /\ UNCHANGED <<stats, shutdowns, call, over, inbox, events, at, tasks, asked, exts,
                       sent, started, counted>>
    BY <1>1, <1>4 DEF AddWorker, program
  <2>2. EventsTyped'
    BY <1>1, <2>1 DEF LoopInv, EventsTyped, Workers
  <2> QED BY <1>1, <1>2, <1>3, <2>1, <2>2, LoopFrame
<1>5. ASSUME NEW w \in AllWorkers, NEW m \in Msg \ {"spawn"}, Tell(w, m) \/ UNCHANGED inbox,
             exts' \in 0..MaxExt, shutdowns' \in 0..MaxShutdown, over' \in BOOLEAN,
             call' \in {Idle, Draining} \cup ({"ask", "shutdown"} \X Workers),
             UNCHANGED <<added, stats, events, at, tasks, asked, sent, started, counted>>
      PROVE  LoopInv'
  <2>1. /\ inbox' \in [AllWorkers -> Seq(Msg)]
        /\ \A v \in AllWorkers : HowMany(inbox'[v], {"spawn"}) = HowMany(inbox[v], {"spawn"})
    <3>1. CASE Tell(w, m)
      <4>1. m \notin {"spawn"}
        OBVIOUS
      <4>2. /\ inbox' \in [AllWorkers -> Seq(Msg)]
            /\ HowMany(inbox'[w], {"spawn"}) = HowMany(inbox[w], {"spawn"})
            /\ \A v \in AllWorkers : v # w => inbox'[v] = inbox[v]
        BY <1>1, <3>1, <4>1, ToldLeg
      <4> QED BY <4>2
    <3>2. CASE UNCHANGED inbox
      BY <1>1, <3>2
    <3> QED BY <1>5, <3>1, <3>2
  <2>2. EventsTyped' /\ Workers' = Workers
    BY <1>5 DEF LoopInv, EventsTyped, Workers
  <2>3. added' \in 0..MaxWorkers /\ added <= added'
    BY <1>1, <1>5
  <2>4. /\ call' \in {Idle, Draining} \cup ({"ask", "shutdown"} \X Workers')
        /\ shutdowns' \in 0..MaxShutdown /\ over' \in BOOLEAN /\ exts' \in 0..MaxExt
    BY <1>5, <2>2
  <2>5. /\ stats' \in [AllWorkers -> [tasks : Nat, empty : BOOLEAN]]
        /\ events' = events /\ events' \in Seq(Event)
        /\ at' \in [AllWorkers -> {"control", "outputs"}]
        /\ tasks' \in [AllWorkers -> [living : Nat, closing : Nat, empty : Nat]]
        /\ asked' = asked /\ asked' \in 0..MaxSpawn
        /\ UNCHANGED <<sent, started>> /\ counted' \in [AllWorkers -> 0..NotCounted]
    BY <1>2, <1>5
  <2>6. /\ asked <= asked'
        /\ HowMany(events', SpawnEvents) - HowMany(events, SpawnEvents) <= asked' - asked
    BY <1>3, <2>5
  <2> QED BY <2>1, <2>2, <2>3, <2>4, <2>5, <2>6, LoopFrame
<1>6. ASSUME NEW w \in Workers, SendTo(w)  PROVE LoopInv'
  <2>1. /\ Tell(w, "ext") /\ exts' \in 0..MaxExt /\ call' = Idle
        /\ UNCHANGED <<added, shutdowns, over, stats, events, at, tasks, asked, sent, started, counted>>
    BY <1>2, <1>6, BoundsAssumption DEF SendTo, control
  <2> QED BY <1>1, <1>2, <1>5, <2>1 DEF Msg
<1>7. CASE SendToBest
  BY <1>1, <1>6, <1>7, BestFound DEF SendToBest
<1>8. CASE Shutdown \/ Process \/ ProcessEnds \/ ProcessDone
  <2>1. /\ shutdowns' \in 0..MaxShutdown /\ over' \in BOOLEAN
        /\ UNCHANGED <<inbox, exts, added, stats, events, at, tasks, asked, sent, started, counted>>
    <3>1. CASE Shutdown
      BY <1>2, <3>1, BoundsAssumption DEF Shutdown, program
    <3>2. CASE Process
      BY <1>2, <3>2 DEF Process, program
    <3>3. CASE ProcessEnds
      BY <1>2, <3>3 DEF ProcessEnds, program
    <3>4. CASE ProcessDone
      BY <1>2, <3>4 DEF ProcessDone, program
    <3> QED BY <1>8, <3>1, <3>2, <3>3, <3>4
  <2>2. call' \in {Idle, Draining} \cup ({"ask", "shutdown"} \X Workers)
    <3>1. 1 \in 1..(added + 1)
      BY <1>1
    <3>2. Loop("shutdown", 1, Idle) \in {Idle} \cup ({"ask", "shutdown"} \X Workers)
      BY <1>1, <3>1, LoopGoesOn
    <3>3. Loop("ask", 1, Draining) \in {Draining} \cup ({"ask", "shutdown"} \X Workers)
      BY <1>1, <3>1, LoopGoesOn
    <3> QED BY <1>1, <1>8, <3>2, <3>3 DEF Shutdown, Process, ProcessEnds, ProcessDone
  <2>3. Workers' = Workers /\ EventsTyped'
    BY <2>1 DEF Workers, LoopInv, EventsTyped
  <2>4. added' \in 0..MaxWorkers /\ added <= added'
    BY <1>1, <2>1
  <2> QED BY <1>1, <1>2, <1>3, <2>1, <2>2, <2>3, <2>4, LoopFrame
<1>9. CASE TellShutdown \/ AskStats
  <2> DEFINE w == call[2]
  <2>1. call \in {"ask", "shutdown"} \X Workers /\ w \in Workers /\ w + 1 \in 1..(added + 1)
    <3>1. call \notin {Idle, Draining}
      BY <1>9 DEF TellShutdown, AskStats, Idle, Draining
    <3> QED BY <1>1, <3>1 DEF Workers
  <2>2. call' \in {Idle, Draining} \cup ({"ask", "shutdown"} \X Workers)
    <3>1. call' = Loop("shutdown", w + 1, Idle) \/ call' = Loop("ask", w + 1, Draining)
      BY <1>9 DEF TellShutdown, AskStats
    <3> HIDE DEF w
    <3>2. Loop("shutdown", w + 1, Idle) \in {Idle} \cup ({"ask", "shutdown"} \X Workers)
      BY <1>1, <2>1, LoopGoesOn
    <3>3. Loop("ask", w + 1, Draining) \in {Draining} \cup ({"ask", "shutdown"} \X Workers)
      BY <1>1, <2>1, LoopGoesOn
    <3> QED BY <3>1, <3>2, <3>3
  <2>3. \E m \in {"shutdown", "stats"} : Tell(w, m) \/ UNCHANGED inbox
    BY <1>9 DEF TellShutdown, AskStats
  <2>4. UNCHANGED <<exts, shutdowns, over, added, stats, events, at, tasks, asked, sent, started, counted>>
    BY <1>9 DEF TellShutdown, AskStats, program
  <2> HIDE DEF w
  <2>5. PICK m \in Msg \ {"spawn"} : Tell(w, m) \/ UNCHANGED inbox
    BY <2>3 DEF Msg
  <2> QED BY <1>1, <1>2, <1>5, <2>1, <2>2, <2>4, <2>5
<1> QED BY <1>4, <1>6, <1>7, <1>8, <1>9

\* An event taken by the controller comes from a worker.
LEMMA TakenEvent ==
  ASSUME LoopInv, events # <<>>, events' = Tail(events)
  PROVE  /\ events' \in Seq(Event) /\ Head(events) \in Event /\ Head(events) = events[1]
         /\ 1 \in 1..Len(events)
         /\ Head(events).from \in Workers /\ Head(events).from \in AllWorkers
         /\ Head(events).kind = "stats" => /\ Head(events).started \in 0..MaxSpawn
                                           /\ Head(events).stats \in [tasks : Nat, empty : BOOLEAN]
         /\ \A i \in 1..Len(events') : i + 1 \in 1..Len(events) /\ events'[i] = events[i + 1]
         /\ \A V : HowMany(events', V) = IF Head(events) \in V THEN HowMany(events, V) - 1
                                         ELSE HowMany(events, V)
<1>1. events \in Seq(Event)
  BY DEF LoopInv, TypeOK
<1>2. /\ events' \in Seq(Event) /\ Head(events) \in Event /\ Head(events) = events[1]
      /\ 1 \in 1..Len(events)
      /\ \A i \in 1..Len(events') : i + 1 \in 1..Len(events) /\ events'[i] = events[i + 1]
  BY <1>1
<1>3. Head(events).from \in Workers /\ (Head(events).kind = "stats" => Head(events).started \in 0..MaxSpawn)
  BY <1>2 DEF LoopInv, EventsTyped
<1>4. /\ Head(events).from \in AllWorkers
      /\ Head(events).kind = "stats" => Head(events).stats \in [tasks : Nat, empty : BOOLEAN]
  BY <1>2 DEF Event
<1>5. \A V : HowMany(events', V) = IF Head(events) \in V THEN HowMany(events, V) - 1
                                   ELSE HowMany(events, V)
  BY <1>1, HowManyTail
<1> QED BY <1>2, <1>3, <1>4, <1>5

\* An event sent by a worker.
LEMMA SentEvent ==
  ASSUME LoopInv, NEW e \in Event, e.from \in Workers, UNCHANGED added,
         e.kind = "stats" => e.started \in 0..MaxSpawn,
         events' = Append(events, e)
  PROVE  /\ events' \in Seq(Event) /\ EventsTyped'
         /\ \A i \in 1..Len(events') : \/ i \in 1..Len(events) /\ events'[i] = events[i]
                                       \/ events'[i] = e
         /\ \A V : HowMany(events', V) = IF e \in V THEN HowMany(events, V) + 1
                                         ELSE HowMany(events, V)
<1>1. events \in Seq(Event)
  BY DEF LoopInv, TypeOK
<1>2. /\ events' \in Seq(Event)
      /\ \A i \in 1..Len(events') : \/ i \in 1..Len(events) /\ events'[i] = events[i]
                                    \/ events'[i] = e
  BY <1>1
<1>3. EventsTyped'
  BY <1>2 DEF LoopInv, EventsTyped, Workers
<1>4. \A V : HowMany(events', V) = IF e \in V THEN HowMany(events, V) + 1 ELSE HowMany(events, V)
  BY <1>1, HowManyAppend
<1> QED BY <1>2, <1>3, <1>4

\* The program asks for a spawn, or a task has and the controller hears of it:
\* the same lemma for both, since the number asked for grows or an event goes.
LEMMA SpawnKeepsLoop ==
  ASSUME LoopInv, added > 0, SpawnOnBest, events' \in Seq(Event), EventsTyped',
         asked' \in 0..MaxSpawn,
         asked' - HowMany(events', SpawnEvents) > asked - HowMany(events, SpawnEvents),
         UNCHANGED <<added, shutdowns, call, over, at, tasks, exts, started, counted>>
  PROVE  LoopInv'
<1>1. /\ stats' \in [AllWorkers -> [tasks : Nat, empty : BOOLEAN]]
      /\ inbox' \in [AllWorkers -> Seq(Msg)]
      /\ \A w \in AllWorkers : sent'[w] = sent[w] \/ sent'[w] = sent[w] + 1
      /\ sent' = [w \in AllWorkers |-> sent'[w]]
      /\ \A w \in AllWorkers : started[w] + HowMany(inbox'[w], {"spawn"}) = sent'[w]
  BY SpawnOnBestSends
<1>2. ASSUME NEW w \in AllWorkers
      PROVE  sent'[w] \in 0..MaxSpawn /\ sent'[w] + HowMany(events', SpawnEvents) <= asked'
  <2> DEFINE before == HowMany(events, SpawnEvents)
             after == HowMany(events', SpawnEvents)
  <2>1. sent[w] + before <= asked /\ asked' - after > asked - before
    BY DEF LoopInv, SpawnsAsked
  <2>2. before \in Nat /\ after \in Nat
    BY HowManyType DEF LoopInv, TypeOK
  <2>3. sent[w] \in Nat /\ asked \in Nat /\ asked' \in Nat /\ MaxSpawn \in Nat /\ asked' <= MaxSpawn
    BY BoundsAssumption DEF LoopInv, TypeOK
  <2>4. sent'[w] = sent[w] \/ sent'[w] = sent[w] + 1
    BY <1>1
  <2> HIDE DEF before, after
  <2>5. sent'[w] + after <= asked' /\ sent'[w] \in 0..MaxSpawn
    BY <2>1, <2>2, <2>3, <2>4
  <2> QED BY <2>5 DEF after
<1>3. sent' \in [AllWorkers -> 0..MaxSpawn]
  BY <1>1, <1>2
<1>4. TypeOK'
  <2>1. Workers' = Workers
    BY DEF Workers
  <2> QED BY <1>1, <1>3, <2>1 DEF LoopInv, TypeOK, Msg
<1>5. SpawnsAsked' /\ SpawnsWaiting'
  BY <1>1, <1>2 DEF SpawnsAsked, SpawnsWaiting, SpawnEvents, Event, AllWorkers
<1> QED BY <1>4, <1>5 DEF LoopInv

\* The steps of the program and the controller that send a spawn, and the events.
LEMMA EventsKeepLoop ==
  ASSUME LoopInv, Spawn \/ TakeEvent
  PROVE  LoopInv'
<1>1. /\ added \in 0..MaxWorkers /\ asked \in 0..MaxSpawn /\ asked \in Nat /\ MaxSpawn \in Nat
      /\ events \in Seq(Event) /\ HowMany(events, SpawnEvents) \in Nat
  <2>1. TypeOK
    BY DEF LoopInv
  <2>2. /\ added \in 0..MaxWorkers /\ asked \in 0..MaxSpawn /\ asked \in Nat /\ MaxSpawn \in Nat
        /\ events \in Seq(Event)
    BY <2>1, BoundsAssumption DEF TypeOK
  <2>3. HowMany(events, SpawnEvents) \in Nat
    BY <2>1, CountsAreNat
  <2> QED BY <2>2, <2>3
<1>2. CASE Spawn
  <2>1. /\ added > 0 /\ SpawnOnBest /\ asked' = asked + 1 /\ asked' \in 0..MaxSpawn
        /\ UNCHANGED <<added, shutdowns, call, over, events, at, tasks, exts, started, counted>>
    BY <1>1, <1>2 DEF Spawn
  <2>2. asked' - HowMany(events', SpawnEvents) > asked - HowMany(events, SpawnEvents)
    BY <1>1, <2>1
  <2>3. events' \in Seq(Event) /\ EventsTyped'
    BY <1>1, <2>1 DEF LoopInv, EventsTyped, Workers
  <2> QED BY <2>1, <2>2, <2>3, SpawnKeepsLoop
<1>3. CASE TakeEvent
  <2> DEFINE e == Head(events)
  <2>1. /\ events # <<>> /\ events' = Tail(events) /\ call = Draining
        /\ UNCHANGED <<added, shutdowns, call, over, at, tasks, asked, exts, started>>
    BY <1>3 DEF TakeEvent, program
  <2>2. /\ events' \in Seq(Event) /\ e \in Event /\ e.from \in Workers /\ e.from \in AllWorkers
        /\ e.kind = "stats" => /\ e.started \in 0..MaxSpawn
                               /\ e.stats \in [tasks : Nat, empty : BOOLEAN]
        /\ \A i \in 1..Len(events') : i + 1 \in 1..Len(events) /\ events'[i] = events[i + 1]
        /\ HowMany(events', SpawnEvents) = IF e \in SpawnEvents THEN HowMany(events, SpawnEvents) - 1
                                           ELSE HowMany(events, SpawnEvents)
    BY <2>1, TakenEvent
  <2>3. EventsTyped'
    BY <2>1, <2>2 DEF LoopInv, EventsTyped, Workers
  <2>4. CASE e.kind = "spawn"
    <3>1. SpawnOnBest /\ UNCHANGED counted
      BY <1>3, <2>4 DEF TakeEvent
    <3>2. HowMany(events', SpawnEvents) = HowMany(events, SpawnEvents) - 1
      BY <2>2, <2>4 DEF SpawnEvents
    <3>3. asked' - HowMany(events', SpawnEvents) > asked - HowMany(events, SpawnEvents)
      BY <1>1, <2>1, <3>2
    <3>4. added > 0
      BY <1>1, <2>2 DEF Workers
    <3> QED BY <1>1, <2>1, <2>2, <2>3, <3>1, <3>3, <3>4, SpawnKeepsLoop
  <2>5. CASE e.kind # "spawn"
    <3>1. /\ stats' \in [AllWorkers -> [tasks : Nat, empty : BOOLEAN]]
          /\ counted' \in [AllWorkers -> 0..NotCounted]
          /\ UNCHANGED <<inbox, sent>>
      <4>1. /\ stats \in [AllWorkers -> [tasks : Nat, empty : BOOLEAN]]
            /\ counted \in [AllWorkers -> 0..NotCounted]
        BY DEF LoopInv, TypeOK
      <4>2. CASE e.kind = "stats"
        <5>1. /\ stats' = [stats EXCEPT ![e.from] = e.stats]
              /\ counted' = [counted EXCEPT ![e.from] = e.started]
              /\ UNCHANGED <<inbox, sent>>
          BY <1>3, <4>2 DEF TakeEvent, TakeStats
        <5>2. e.started \in 0..NotCounted
          BY <1>1, <2>2, <4>2 DEF NotCounted
        <5> QED BY <2>2, <4>1, <4>2, <5>1, <5>2
      <4>3. CASE e.kind # "stats"
        BY <1>3, <2>5, <4>1, <4>3 DEF TakeEvent
      <4> QED BY <4>2, <4>3
    <3>2. HowMany(events', SpawnEvents) - HowMany(events, SpawnEvents) <= asked' - asked
      BY <1>1, <2>1, <2>2
    <3>3. /\ added' \in 0..MaxWorkers /\ added <= added' /\ shutdowns' \in 0..MaxShutdown
          /\ over' \in BOOLEAN /\ at' \in [AllWorkers -> {"control", "outputs"}]
          /\ tasks' \in [AllWorkers -> [living : Nat, closing : Nat, empty : Nat]]
          /\ asked' \in 0..MaxSpawn /\ exts' \in 0..MaxExt /\ asked <= asked'
          /\ inbox' \in [AllWorkers -> Seq(Msg)] /\ UNCHANGED <<sent, started>>
      BY <2>1, <3>1, MaxWorkersAssumption, BoundsAssumption DEF LoopInv, TypeOK, Msg
    <3>4. call' \in {Idle, Draining} \cup ({"ask", "shutdown"} \X Workers')
      BY <2>1
    <3>5. \A w \in AllWorkers : HowMany(inbox'[w], {"spawn"}) = HowMany(inbox[w], {"spawn"})
      BY <3>1
    <3> QED BY <2>2, <2>3, <3>1, <3>2, <3>3, <3>4, <3>5, LoopFrame
  <2> QED BY <2>4, <2>5
<1> QED BY <1>2, <1>3

\* A worker takes a control message: a spawn leaves its leg as it is started.
LEMMA HandleKeepsLoop ==
  ASSUME LoopInv, NEW w \in AllWorkers, Handle(w)
  PROVE  LoopInv'
<1> DEFINE m == Head(inbox[w])
           e == [kind |-> "stats", from |-> w, stats |-> StatsOf(w), started |-> started[w]]
<1>1. /\ w \in Workers /\ inbox[w] # <<>> /\ inbox' = [inbox EXCEPT ![w] = Tail(@)]
      /\ tasks' = CASE m = "spawn" -> [tasks EXCEPT ![w].living = @ + 1]
                    [] m = "shutdown" -> [tasks EXCEPT ![w].living = 0, ![w].closing = Running(w)]
                    [] OTHER -> tasks
      /\ started' = IF m = "spawn" THEN [started EXCEPT ![w] = @ + 1] ELSE started
      /\ events' = IF m = "stats" THEN Append(events, e) ELSE events
      /\ at' = IF m = "ext" THEN [at EXCEPT ![w] = "outputs"] ELSE at
      /\ UNCHANGED <<added, stats, shutdowns, call, over, sent, counted, asked, exts>>
  BY DEF Handle, control, program
<1>2. /\ inbox' \in [AllWorkers -> Seq(Msg)] /\ m \in Msg
      /\ \A v \in AllWorkers : v # w => inbox'[v] = inbox[v]
      /\ HowMany(inbox'[w], {"spawn"}) = IF m = "spawn" THEN HowMany(inbox[w], {"spawn"}) - 1
                                         ELSE HowMany(inbox[w], {"spawn"})
      /\ HowMany(inbox'[w], {"spawn"}) \in Nat
  <2>1. /\ inbox' \in [AllWorkers -> Seq(Msg)] /\ m \in Msg
        /\ \A v \in AllWorkers : v # w => inbox'[v] = inbox[v]
        /\ HowMany(inbox'[w], {"spawn"}) = IF m \in {"spawn"} THEN HowMany(inbox[w], {"spawn"}) - 1
                                           ELSE HowMany(inbox[w], {"spawn"})
    BY <1>1, TakenLeg DEF LoopInv
  <2>2. inbox'[w] \in Seq(Msg)
    BY <2>1
  <2>3. HowMany(inbox'[w], {"spawn"}) \in Nat
    BY <2>2, HowManyType
  <2> QED BY <2>1, <2>3
<1>3. /\ tasks \in [AllWorkers -> [living : Nat, closing : Nat, empty : Nat]]
      /\ Running(w) \in Nat /\ StatsOf(w) \in [tasks : Nat, empty : BOOLEAN]
      /\ started \in [AllWorkers -> 0..MaxSpawn] /\ sent \in [AllWorkers -> 0..MaxSpawn]
      /\ at \in [AllWorkers -> {"control", "outputs"}] /\ events \in Seq(Event)
      /\ asked \in Nat /\ MaxSpawn \in Nat /\ added \in 0..MaxWorkers
  <2>1. /\ tasks \in [AllWorkers -> [living : Nat, closing : Nat, empty : Nat]]
        /\ started \in [AllWorkers -> 0..MaxSpawn] /\ sent \in [AllWorkers -> 0..MaxSpawn]
        /\ at \in [AllWorkers -> {"control", "outputs"}] /\ events \in Seq(Event)
        /\ asked \in Nat /\ MaxSpawn \in Nat /\ added \in 0..MaxWorkers
    BY BoundsAssumption, SMTT(30) DEF LoopInv, TypeOK
  <2>2. tasks[w].living \in Nat /\ tasks[w].closing \in Nat /\ tasks[w].empty \in Nat
    BY <2>1
  <2>3. Running(w) \in Nat
    BY <2>2 DEF Running
  <2>4. StatsOf(w) \in [tasks : Nat, empty : BOOLEAN]
    BY <2>2, <2>3 DEF StatsOf
  <2> QED BY <2>1, <2>3, <2>4
<1> HIDE DEF m
<1>4. /\ started' \in [AllWorkers -> 0..MaxSpawn]
      /\ \A v \in AllWorkers : started'[v] + HowMany(inbox'[v], {"spawn"}) = sent[v]
  <2>1. ASSUME NEW v \in AllWorkers
        PROVE  /\ started[v] + HowMany(inbox[v], {"spawn"}) = sent[v]
               /\ started[v] \in Nat /\ HowMany(inbox[v], {"spawn"}) \in Nat /\ sent[v] \in 0..MaxSpawn
    <3>1. started[v] + HowMany(inbox[v], {"spawn"}) = sent[v]
      BY DEF LoopInv, SpawnsWaiting
    <3>2. HowMany(inbox[v], {"spawn"}) \in Nat
      BY CountsAreNat DEF LoopInv
    <3>3. started[v] \in Nat /\ sent[v] \in 0..MaxSpawn
      BY <1>3
    <3> QED BY <3>1, <3>2, <3>3
  <2>2. CASE m = "spawn"
    <3>1. started' = [started EXCEPT ![w] = started[w] + 1]
      BY <1>1, <2>2
    <3>2. HowMany(inbox'[w], {"spawn"}) = HowMany(inbox[w], {"spawn"}) - 1
      BY <1>2, <2>2
    <3>3. started[w] + 1 \in 0..MaxSpawn /\ (started[w] + 1) + HowMany(inbox'[w], {"spawn"}) = sent[w]
      BY <1>2, <1>3, <2>1, <3>2
    <3>4. started' \in [AllWorkers -> 0..MaxSpawn] /\ started'[w] = started[w] + 1
          /\ \A v \in AllWorkers : v # w => started'[v] = started[v]
      BY <1>3, <3>1, <3>3
    <3> QED BY <1>2, <2>1, <3>3, <3>4
  <2>3. CASE m # "spawn"
    <3>1. \A v \in AllWorkers : HowMany(inbox'[v], {"spawn"}) = HowMany(inbox[v], {"spawn"})
      BY <1>2, <2>3
    <3> QED BY <1>1, <1>3, <2>1, <2>3, <3>1
  <2> QED BY <2>2, <2>3
<1>5. tasks' \in [AllWorkers -> [living : Nat, closing : Nat, empty : Nat]]
  <2>1. CASE m = "spawn"
    <3>1. tasks' = [tasks EXCEPT ![w].living = @ + 1]
      BY <1>1, <2>1
    <3>2. tasks[w].living + 1 \in Nat
      BY <1>3
    <3> QED BY <1>3, <3>1, <3>2
  <2>2. CASE m = "shutdown"
    <3>1. tasks' = [tasks EXCEPT ![w].living = 0, ![w].closing = Running(w)]
      BY <1>1, <2>2
    <3> QED BY <1>3, <3>1
  <2>3. CASE m # "spawn" /\ m # "shutdown"
    BY <1>1, <1>3, <2>3
  <2> QED BY <2>1, <2>2, <2>3
<1>6. /\ events' \in Seq(Event) /\ EventsTyped'
      /\ HowMany(events', SpawnEvents) = HowMany(events, SpawnEvents)
  <2>1. CASE m = "stats"
    <3>1. e \in Event /\ e.from = w /\ e.kind = "stats" /\ e.started \in 0..MaxSpawn
          /\ e \notin SpawnEvents
      BY <1>3 DEF Event, SpawnEvents
    <3>2. events' = Append(events, e) /\ UNCHANGED added
      BY <1>1, <2>1
    <3> HIDE DEF e
    <3> QED BY <1>1, <3>1, <3>2, SentEvent
  <2>2. CASE m # "stats"
    BY <1>1, <1>3, <2>2 DEF LoopInv, EventsTyped, Workers
  <2> QED BY <2>1, <2>2
<1>7. at' \in [AllWorkers -> {"control", "outputs"}]
  BY <1>1, <1>3
<1>8. TypeOK'
  <2>1. Workers' = Workers
    BY <1>1 DEF Workers
  <2> QED BY <1>1, <1>2, <1>4, <1>5, <1>6, <1>7, <2>1 DEF LoopInv, TypeOK, Msg
<1>9. SpawnsAsked' /\ SpawnsWaiting'
  BY <1>1, <1>4, <1>6 DEF LoopInv, SpawnsAsked, SpawnsWaiting, SpawnEvents, Event, AllWorkers
<1> QED BY <1>6, <1>8, <1>9 DEF LoopInv

\* The other steps of a worker touch its tasks, or send an event.
LEMMA WorkersKeepLoop ==
  ASSUME LoopInv, NEW w \in Workers,
         \/ GoToWork(w) \/ BackToControl(w) \/ EmitSpawn(w) \/ \E safe \in BOOLEAN : EmitExt(w, safe)
         \/ TaskEnds(w) \/ TaskCloses(w) \/ TaskRemoved(w)
  PROVE  LoopInv'
<1>1. w \in AllWorkers
  BY MaxWorkersAssumption DEF LoopInv, TypeOK, Workers, AllWorkers
<1>2. /\ tasks \in [AllWorkers -> [living : Nat, closing : Nat, empty : Nat]]
      /\ at \in [AllWorkers -> {"control", "outputs"}] /\ events \in Seq(Event)
      /\ asked \in 0..MaxSpawn /\ exts \in 0..MaxExt /\ MaxSpawn \in Nat /\ MaxExt \in Nat
      /\ asked \in Nat
  BY BoundsAssumption DEF LoopInv, TypeOK
<1>3. HowMany(events, SpawnEvents) \in Nat
  BY CountsAreNat DEF LoopInv
<1>4. UNCHANGED <<inbox, started, added, stats, shutdowns, call, over, sent, counted>>
  BY DEF GoToWork, BackToControl, EmitSpawn, EmitExt, TaskEnds, TaskCloses, TaskRemoved,
         control, program
<1>5. ASSUME events' \in Seq(Event), EventsTyped', at' \in [AllWorkers -> {"control", "outputs"}],
             tasks' \in [AllWorkers -> [living : Nat, closing : Nat, empty : Nat]],
             exts' \in 0..MaxExt, asked' \in 0..MaxSpawn, asked <= asked',
             HowMany(events', SpawnEvents) - HowMany(events, SpawnEvents) <= asked' - asked
      PROVE  LoopInv'
  <2>1. /\ added' \in 0..MaxWorkers /\ added <= added' /\ shutdowns' \in 0..MaxShutdown
        /\ stats' \in [AllWorkers -> [tasks : Nat, empty : BOOLEAN]] /\ over' \in BOOLEAN
        /\ inbox' \in [AllWorkers -> Seq(Msg)] /\ UNCHANGED <<sent, started>>
        /\ counted' \in [AllWorkers -> 0..NotCounted]
    BY <1>4, MaxWorkersAssumption DEF LoopInv, TypeOK, Msg
  <2>2. call' \in {Idle, Draining} \cup ({"ask", "shutdown"} \X Workers')
    BY <1>4 DEF LoopInv, TypeOK, Workers
  <2>3. \A v \in AllWorkers : HowMany(inbox'[v], {"spawn"}) = HowMany(inbox[v], {"spawn"})
    BY <1>4
  <2> QED BY <1>5, <2>1, <2>2, <2>3, LoopFrame
<1>6. CASE GoToWork(w) \/ BackToControl(w) \/ TaskEnds(w) \/ TaskCloses(w) \/ TaskRemoved(w)
  <2>1. UNCHANGED <<events, asked, exts>>
    BY <1>6 DEF GoToWork, BackToControl, TaskEnds, TaskCloses, TaskRemoved, program
  <2>2. at' \in [AllWorkers -> {"control", "outputs"}]
    BY <1>1, <1>2, <1>6 DEF GoToWork, BackToControl, TaskEnds, TaskCloses, TaskRemoved
  <2>3. tasks' \in [AllWorkers -> [living : Nat, closing : Nat, empty : Nat]]
    <3>1. CASE TaskEnds(w)
      <4>1. tasks' = [tasks EXCEPT ![w].living = @ - 1, ![w].empty = @ + 1] /\ tasks[w].living > 0
        BY <3>1 DEF TaskEnds
      <4>2. tasks[w].living - 1 \in Nat /\ tasks[w].empty + 1 \in Nat
        BY <1>1, <1>2, <4>1
      <4> QED BY <1>1, <1>2, <4>1, <4>2
    <3>2. CASE TaskCloses(w)
      <4>1. tasks' = [tasks EXCEPT ![w].closing = @ - 1, ![w].empty = @ + 1] /\ tasks[w].closing > 0
        BY <3>2 DEF TaskCloses
      <4>2. tasks[w].closing - 1 \in Nat /\ tasks[w].empty + 1 \in Nat
        BY <1>1, <1>2, <4>1
      <4> QED BY <1>1, <1>2, <4>1, <4>2
    <3>3. CASE TaskRemoved(w)
      <4>1. tasks' = [tasks EXCEPT ![w].empty = @ - 1] /\ tasks[w].empty > 0
        BY <3>3 DEF TaskRemoved
      <4>2. tasks[w].empty - 1 \in Nat /\ tasks[w].empty + 1 \in Nat
        BY <1>1, <1>2, <4>1
      <4> QED BY <1>1, <1>2, <4>1, <4>2
    <3>4. CASE GoToWork(w) \/ BackToControl(w)
      BY <1>2, <3>4 DEF GoToWork, BackToControl
    <3> QED BY <1>6, <3>1, <3>2, <3>3, <3>4
  <2>4. EventsTyped'
    BY <1>4, <2>1 DEF LoopInv, EventsTyped, Workers
  <2> QED BY <1>2, <1>3, <1>5, <2>1, <2>2, <2>3, <2>4
<1>7. CASE EmitSpawn(w)
  <2> DEFINE e == [kind |-> "spawn", from |-> w]
  <2>1. /\ events' = Append(events, e) /\ asked' = asked + 1 /\ asked' \in 0..MaxSpawn
        /\ UNCHANGED <<at, tasks, exts, added>>
    BY <1>2, <1>7 DEF EmitSpawn, control
  <2>2. e \in Event /\ e.from \in Workers /\ e.kind # "stats"
    BY <1>1 DEF Event
  <2> HIDE DEF e
  <2>3. /\ events' \in Seq(Event) /\ EventsTyped'
        /\ \/ HowMany(events', SpawnEvents) = HowMany(events, SpawnEvents) + 1
           \/ HowMany(events', SpawnEvents) = HowMany(events, SpawnEvents)
    BY <2>1, <2>2, SentEvent
  <2>4. /\ asked <= asked'
        /\ HowMany(events', SpawnEvents) - HowMany(events, SpawnEvents) <= asked' - asked
    BY <1>2, <1>3, <2>1, <2>3
  <2> QED BY <1>2, <1>5, <2>1, <2>3, <2>4
<1>8. ASSUME NEW safe \in BOOLEAN, EmitExt(w, safe)  PROVE LoopInv'
  <2> DEFINE e == [kind |-> "ext", from |-> w]
  <2>1. /\ events' = Append(events, e) \/ UNCHANGED events
        /\ exts' \in 0..MaxExt
        /\ UNCHANGED <<at, tasks, asked, added>>
    BY <1>2, <1>8 DEF EmitExt, control
  <2>2. e \in Event /\ e.from \in Workers /\ e.kind # "stats" /\ e \notin SpawnEvents
    BY <1>1 DEF Event, SpawnEvents
  <2> HIDE DEF e
  <2>3. /\ events' \in Seq(Event) /\ EventsTyped'
        /\ HowMany(events', SpawnEvents) = HowMany(events, SpawnEvents)
    <3>1. CASE events' = Append(events, e)
      BY <2>1, <2>2, <3>1, SentEvent
    <3>2. CASE UNCHANGED events
      BY <1>2, <2>1, <3>2 DEF LoopInv, EventsTyped, Workers
    <3> QED BY <2>1, <3>1, <3>2
  <2>4. /\ asked <= asked'
        /\ HowMany(events', SpawnEvents) - HowMany(events, SpawnEvents) <= asked' - asked
    BY <1>2, <1>3, <2>1, <2>3
  <2> QED BY <1>2, <1>5, <2>1, <2>3, <2>4
<1> QED BY <1>6, <1>7, <1>8

LEMMA LoopStep == LoopInv /\ [Next]_vars => LoopInv'
<1> SUFFICES ASSUME LoopInv, [Next]_vars  PROVE LoopInv'
  OBVIOUS
<1>1. Workers \subseteq AllWorkers
  BY MaxWorkersAssumption DEF LoopInv, TypeOK, Workers, AllWorkers
<1>2. CASE UNCHANGED vars
  BY <1>2 DEF vars, LoopInv, TypeOK, Workers, EventsTyped, SpawnsAsked, SpawnsWaiting
<1>3. CASE \/ AddWorker \/ SendToBest \/ \E w \in Workers : SendTo(w)
           \/ Shutdown \/ Process \/ ProcessEnds \/ TellShutdown \/ AskStats \/ ProcessDone
  BY <1>3, CallsKeepLoop
<1>4. CASE Spawn \/ TakeEvent
  BY <1>4, EventsKeepLoop
<1>5. ASSUME NEW w \in Workers, Handle(w)  PROVE LoopInv'
  BY <1>1, <1>5, HandleKeepsLoop
<1>6. ASSUME NEW w \in Workers,
             \/ GoToWork(w) \/ BackToControl(w) \/ EmitSpawn(w) \/ EmitExt(w, TRUE) \/ EmitExt(w, FALSE)
             \/ TaskEnds(w) \/ TaskCloses(w) \/ TaskRemoved(w)
      PROVE  LoopInv'
  BY <1>6, WorkersKeepLoop
<1> QED BY <1>2, <1>3, <1>4, <1>5, <1>6 DEF Next, Proceeds, Works

\* What every variable holds, for any number of workers.
THEOREM ControllerTypes == Spec => []TypeOK
<1>1. Init => LoopInv
  BY LoopInit
<1>2. LoopInv /\ [Next]_vars => LoopInv'
  BY LoopStep
<1>3. LoopInv => TypeOK
  BY DEF LoopInv
<1> QED BY <1>1, <1>2, <1>3, PTL DEF Spec

-----------------------------------------------------------------------------
\* Requests and answers move as a request is sent, answered, or its answer
\* taken; no other step touches them.
Silent ==
  /\ \/ UNCHANGED inbox
     \/ \E w \in AllWorkers, m \in Msg \ {"stats"} : Tell(w, m)
  /\ \/ UNCHANGED events
     \/ \E e \in Event : e.kind # "stats" /\ events' = Append(events, e)

LEMMA MessagesMove ==
  ASSUME LoopInv, [Next]_vars
  PROVE  AskStats \/ TakeEvent \/ (\E w \in Workers : Handle(w)) \/ Silent
<1>1. /\ Workers \subseteq AllWorkers
      /\ Best \in AllWorkers \/ ~(added > 0)
      /\ {"spawn", "ext", "shutdown"} \subseteq Msg \ {"stats"}
  <2>1. Workers \subseteq AllWorkers
    BY MaxWorkersAssumption DEF LoopInv, TypeOK, Workers, AllWorkers
  <2>2. added > 0 => Best \in Workers
    BY BestFound DEF LoopInv
  <2> QED BY <2>1, <2>2 DEF Msg
<1>2. CASE \/ UNCHANGED vars \/ AddWorker \/ Shutdown \/ Process \/ ProcessEnds \/ ProcessDone
           \/ \E w \in Workers : \/ GoToWork(w) \/ BackToControl(w)
                                 \/ TaskEnds(w) \/ TaskCloses(w) \/ TaskRemoved(w)
  BY <1>2 DEF vars, Silent, AddWorker, Shutdown, Process, ProcessEnds, ProcessDone, GoToWork,
              BackToControl, TaskEnds, TaskCloses, TaskRemoved
<1>3. ASSUME NEW w \in AllWorkers, SendTo(w)  PROVE Silent
  BY <1>1, <1>3 DEF Silent, SendTo
<1>4. CASE Spawn
  BY <1>1, <1>4 DEF Silent, Spawn, SpawnOnBest
<1>5. CASE SendToBest
  BY <1>1, <1>3, <1>5 DEF SendToBest
<1>6. CASE TellShutdown
  <2>1. call[2] \in AllWorkers
    <3>1. call \notin {Idle, Draining}
      BY <1>6 DEF TellShutdown, Idle, Draining
    <3> QED BY <1>1, <3>1 DEF LoopInv, TypeOK
  <2> QED BY <1>1, <1>6, <2>1 DEF Silent, TellShutdown
<1>7. ASSUME NEW w \in Workers, EmitSpawn(w) \/ EmitExt(w, TRUE) \/ EmitExt(w, FALSE)  PROVE Silent
  <2>1. /\ [kind |-> "spawn", from |-> w] \in Event /\ [kind |-> "ext", from |-> w] \in Event
    BY <1>1 DEF Event
  <2> QED BY <1>7, <2>1 DEF Silent, EmitSpawn, EmitExt
<1> QED BY <1>1, <1>2, <1>3, <1>4, <1>5, <1>6, <1>7 DEF Next, Proceeds, Works

\* The taken events.
LEMMA TakenTells ==
  ASSUME LoopInv, TakeEvent
  PROVE  \/ UNCHANGED inbox
         \/ \E w \in AllWorkers, m \in Msg \ {"stats"} : Tell(w, m)
<1>1. events # <<>> /\ events' = Tail(events)
  BY DEF TakeEvent
<1>2. Head(events).from \in Workers /\ added \in Nat
  BY <1>1, TakenEvent DEF LoopInv, TypeOK
<1>3. Best \in AllWorkers
  <2>1. added > 0
    BY <1>2 DEF Workers
  <2>2. Best \in Workers
    BY <2>1, BestFound DEF LoopInv
  <2> QED BY <2>2, MaxWorkersAssumption DEF LoopInv, TypeOK, Workers, AllWorkers
<1>4. UNCHANGED inbox \/ Tell(Best, "spawn")
  BY DEF TakeEvent, SpawnOnBest, TakeStats
<1> QED BY <1>3, <1>4 DEF Msg

\* The worker that is asked.
LEMMA AskedLeg ==
  ASSUME LoopInv, AskStats
  PROVE  /\ call[1] = "ask" /\ call[2] \in Workers /\ call[2] \in AllWorkers
         /\ \/ Len(inbox[call[2]]) < StackSize /\ Tell(call[2], "stats")
            \/ UNCHANGED inbox
<1>1. call \notin {Idle, Draining} /\ call[1] = "ask"
  BY DEF AskStats, Idle, Draining
<1>2. call[2] \in Workers
  BY <1>1 DEF LoopInv, TypeOK
<1>3. call[2] \in AllWorkers
  BY <1>2, MaxWorkersAssumption DEF LoopInv, TypeOK, Workers, AllWorkers
<1> QED BY <1>1, <1>2, <1>3 DEF AskStats

LEMMA RequestsInFrontStep ==
  ASSUME LoopInv, RequestsInFront, [Next]_vars
  PROVE  RequestsInFront'
<1>1. \A w \in AllWorkers : inbox[w] \in Seq(Msg) /\ Len(inbox[w]) \in Nat /\ StackSize \in Nat
  BY StackSizeAssumption DEF LoopInv, TypeOK, Msg
<1>2. ASSUME NEW w \in AllWorkers, NEW m \in Msg, Tell(w, m),
             m = "stats" => Len(inbox[w]) < StackSize
      PROVE  RequestsInFront'
  <2>1. /\ inbox'[w] = Append(inbox[w], m)
        /\ \A v \in AllWorkers : v # w => inbox'[v] = inbox[v]
    BY <1>2, ToldLeg DEF LoopInv
  <2>2. \A i \in 1..Len(inbox'[w]) : \/ i \in 1..Len(inbox[w]) /\ inbox'[w][i] = inbox[w][i]
                                     \/ i = Len(inbox[w]) + 1 /\ inbox'[w][i] = m
    BY <1>1, <2>1
  <2>3. \A i \in 1..Len(inbox'[w]) : inbox'[w][i] = "stats" => i <= StackSize
    BY <1>1, <1>2, <2>2 DEF RequestsInFront
  <2> QED BY <2>1, <2>3 DEF RequestsInFront, AllWorkers
<1>3. CASE UNCHANGED inbox
  BY <1>3 DEF RequestsInFront, AllWorkers
<1>4. CASE AskStats
  BY <1>2, <1>3, <1>4, AskedLeg DEF Msg
<1>5. CASE TakeEvent
  BY <1>2, <1>3, <1>5, TakenTells
<1>6. CASE Silent
  BY <1>2, <1>3, <1>6 DEF Silent
<1>7. ASSUME NEW w \in Workers, Handle(w)  PROVE RequestsInFront'
  <2>1. w \in AllWorkers
    BY MaxWorkersAssumption DEF LoopInv, TypeOK, Workers, AllWorkers
  <2>2. /\ inbox[w] # <<>> /\ inbox'[w] = Tail(inbox[w])
        /\ \A v \in AllWorkers : v # w => inbox'[v] = inbox[v]
    BY <1>7, <2>1, TakenLeg DEF LoopInv, Handle
  <2>3. \A i \in 1..Len(inbox'[w]) : i + 1 \in 1..Len(inbox[w]) /\ inbox'[w][i] = inbox[w][i + 1]
    BY <1>1, <2>1, <2>2
  <2>4. \A i \in 1..Len(inbox'[w]) : inbox'[w][i] = "stats" => i <= StackSize
    <3> TAKE i \in 1..Len(inbox'[w])
    <3>1. i \in Nat
      OBVIOUS
    <3>2. inbox'[w][i] = "stats" => i + 1 <= StackSize
      BY <2>1, <2>3 DEF RequestsInFront
    <3> QED BY <1>1, <2>1, <3>1, <3>2
  <2> QED BY <2>2, <2>4 DEF RequestsInFront, AllWorkers
<1> QED BY <1>4, <1>5, <1>6, <1>7, MessagesMove

\* Only a request that is sent adds to what is under way.
LEMMA UnderWayFalls ==
  ASSUME LoopInv, NEW w \in AllWorkers,
         TakeEvent \/ (\E v \in Workers : Handle(v)) \/ Silent
  PROVE  UnderWay(w)' <= UnderWay(w)
<1> DEFINE requests == HowMany(inbox[w], {"stats"})
           answers == HowMany(events, AnswersOf(w))
           requestsN == HowMany(inbox'[w], {"stats"})
           answersN == HowMany(events', AnswersOf(w))
<1>1. /\ UnderWay(w) = requests + answers /\ UnderWay(w)' = requestsN + answersN
      /\ requests \in Nat /\ answers \in Nat /\ events \in Seq(Event)
  <2>1. requests \in Nat /\ answers \in Nat
    BY CountsAreNat DEF LoopInv
  <2>2. UnderWay(w) = requests + answers /\ UnderWay(w)' = requestsN + answersN
    BY DEF UnderWay, AnswersOf, Event, AllWorkers
  <2> QED BY <2>1, <2>2 DEF LoopInv, TypeOK
<1>2. ASSUME UNCHANGED inbox \/ \E v \in AllWorkers, m \in Msg \ {"stats"} : Tell(v, m)
      PROVE  requestsN = requests
  <2>1. CASE UNCHANGED inbox
    BY <2>1
  <2>2. ASSUME NEW v \in AllWorkers, NEW m \in Msg \ {"stats"}, Tell(v, m)  PROVE requestsN = requests
    <3>1. /\ \A u \in AllWorkers : u # v => inbox'[u] = inbox[u]
          /\ HowMany(inbox'[v], {"stats"}) = HowMany(inbox[v], {"stats"})
      BY <2>2, ToldLeg DEF LoopInv
    <3> QED BY <3>1
  <2> QED BY <1>2, <2>1, <2>2
<1>3. CASE Silent
  <2>1. requestsN = requests
    BY <1>2, <1>3 DEF Silent
  <2>2. answersN = answers
    <3>1. CASE UNCHANGED events
      BY <3>1
    <3>2. ASSUME NEW e \in Event, e.kind # "stats", events' = Append(events, e)  PROVE answersN = answers
      <4>1. e \notin AnswersOf(w)
        BY <3>2 DEF AnswersOf
      <4> QED BY <1>1, <3>2, <4>1, HowManyAppend
    <3> QED BY <1>3, <3>1, <3>2 DEF Silent
  <2> HIDE DEF requests, answers, requestsN, answersN
  <2> QED BY <1>1, <2>1, <2>2
<1>4. CASE TakeEvent
  <2>1. requestsN = requests
    BY <1>2, <1>4, TakenTells
  <2>2. answersN = answers \/ answersN = answers - 1
    BY <1>4, TakenEvent DEF TakeEvent
  <2> HIDE DEF requests, answers, requestsN, answersN
  <2> QED BY <1>1, <2>1, <2>2
<1>5. ASSUME NEW v \in Workers, Handle(v)  PROVE UnderWay(w)' <= UnderWay(w)
  <2> DEFINE e == [kind |-> "stats", from |-> v, stats |-> StatsOf(v), started |-> started[v]]
  <2>1. v \in AllWorkers
    BY MaxWorkersAssumption DEF LoopInv, TypeOK, Workers, AllWorkers
  <2>2. /\ \A u \in AllWorkers : u # v => inbox'[u] = inbox[u]
        /\ HowMany(inbox'[v], {"stats"}) =
             IF Head(inbox[v]) = "stats" THEN HowMany(inbox[v], {"stats"}) - 1
             ELSE HowMany(inbox[v], {"stats"})
    BY <1>5, <2>1, TakenLeg DEF LoopInv, Handle
  <2>3. events' = IF Head(inbox[v]) = "stats" THEN Append(events, e) ELSE events
    BY <1>5 DEF Handle
  <2>4. v # w => e \notin AnswersOf(w)
    BY DEF AnswersOf
  <2> HIDE DEF e
  <2>5. CASE Head(inbox[v]) = "stats"
    <3>1. answersN = IF e \in AnswersOf(w) THEN answers + 1 ELSE answers
      BY <1>1, <2>3, <2>5, HowManyAppend
    <3>2. CASE v = w
      <4>1. requestsN = requests - 1
        BY <2>2, <2>5, <3>2
      <4> HIDE DEF requests, answers, requestsN, answersN
      <4> QED BY <1>1, <3>1, <4>1
    <3>3. CASE v # w
      <4>1. requestsN = requests /\ answersN = answers
        BY <2>2, <2>4, <3>1, <3>3
      <4> HIDE DEF requests, answers, requestsN, answersN
      <4> QED BY <1>1, <4>1
    <3> QED BY <3>2, <3>3
  <2>6. CASE Head(inbox[v]) # "stats"
    <3>1. requestsN = requests /\ answersN = answers
      BY <2>2, <2>3, <2>6
    <3> HIDE DEF requests, answers, requestsN, answersN
    <3> QED BY <1>1, <3>1
  <2> QED BY <2>5, <2>6
<1> QED BY <1>3, <1>4, <1>5

LEMMA AskedUnderWay ==
  ASSUME LoopInv, AskStats, NEW w \in AllWorkers
  PROVE  UnderWay(w)' <= IF w = call[2] THEN UnderWay(w) + 1 ELSE UnderWay(w)
<1> DEFINE v == call[2]
           requests == HowMany(inbox[w], {"stats"})
           answers == HowMany(events, AnswersOf(w))
           requestsN == HowMany(inbox'[w], {"stats"})
<1>1. requests \in Nat /\ answers \in Nat
  BY CountsAreNat DEF LoopInv
<1>2. UnderWay(w) = requests + answers /\ UnderWay(w)' = requestsN + answers
  BY DEF UnderWay, AnswersOf, Event, AllWorkers, AskStats
<1>3. v \in AllWorkers /\ (Tell(v, "stats") \/ UNCHANGED inbox)
  BY AskedLeg
<1>4. CASE Tell(v, "stats")
  <2>1. /\ \A u \in AllWorkers : u # v => inbox'[u] = inbox[u]
        /\ HowMany(inbox'[v], {"stats"}) = HowMany(inbox[v], {"stats"}) + 1
    BY <1>3, <1>4, ToldLeg DEF LoopInv, Msg
  <2>2. requestsN = IF w = v THEN requests + 1 ELSE requests
    BY <2>1
  <2> HIDE DEF v, requests, answers, requestsN
  <2>3. UnderWay(w)' <= IF w = v THEN UnderWay(w) + 1 ELSE UnderWay(w)
    BY <1>1, <1>2, <2>2
  <2> QED BY <2>3 DEF v
<1>5. CASE UNCHANGED inbox
  <2>1. requestsN = requests
    BY <1>5
  <2> HIDE DEF v, requests, answers, requestsN
  <2>2. UnderWay(w)' <= IF w = v THEN UnderWay(w) + 1 ELSE UnderWay(w)
    BY <1>1, <1>2, <2>1
  <2> QED BY <2>2 DEF v
<1> QED BY <1>3, <1>4, <1>5

\* A worker is asked again only after a round whose answers were all taken.
LEMMA RoundsBoundedStep ==
  ASSUME LoopInv, RequestsInFront, RoundsBounded, [Next]_vars
  PROVE  RoundsBounded'
<1> SUFFICES ASSUME NEW w \in AllWorkers
             PROVE  UnderWay(w)' <= IF NotAsked(w)' THEN StackSize ELSE StackSize + 1
  BY DEF RoundsBounded, AllWorkers
<1>1. UnderWay(w) <= IF NotAsked(w) THEN StackSize ELSE StackSize + 1
  BY DEF RoundsBounded
<1>2. UnderWay(w) \in Nat /\ UnderWay(w)' \in Int /\ StackSize \in Nat
  <2>1. UnderWay(w) \in Nat
    BY CountsAreNat DEF LoopInv, UnderWay
  <2>2. TypeOK'
    BY LoopStep DEF LoopInv
  <2>3. /\ inbox' \in [AllWorkers -> Seq(Msg)] /\ events' \in Seq(Event)
    BY <2>2 DEF TypeOK, Msg, AllWorkers, Event
  <2>4. HowMany(inbox'[w], {"stats"}) \in Nat /\ HowMany(events', AnswersOf(w)) \in Nat
    BY <2>3, HowManyType
  <2>5. UnderWay(w)' = HowMany(inbox'[w], {"stats"}) + HowMany(events', AnswersOf(w))
    BY DEF UnderWay, AnswersOf, Event, AllWorkers
  <2> QED BY <2>1, <2>4, <2>5, StackSizeAssumption
<1>3. CASE ~AskStats /\ ~ProcessDone
  <2>1. UnderWay(w)' <= UnderWay(w)
    BY <1>3, MessagesMove, UnderWayFalls
  <2>2. NotAsked(w)' => NotAsked(w)
    <3>1. CASE UNCHANGED call
      BY <3>1 DEF NotAsked
    <3>2. CASE Shutdown \/ Process
      BY <3>2 DEF Shutdown, Process, NotAsked, Idle
    <3>3. CASE TellShutdown
      BY <3>3 DEF TellShutdown, NotAsked
    <3>4. UNCHANGED call \/ Shutdown \/ Process \/ TellShutdown
      BY <1>3 DEF Next, vars, control, AddWorker, Spawn, SendToBest, SendTo, ProcessEnds, Proceeds,
                  TakeEvent, Works, Handle, GoToWork, BackToControl, EmitSpawn, EmitExt,
                  TaskEnds, TaskCloses, TaskRemoved
    <3> QED BY <3>1, <3>2, <3>3, <3>4
  <2> QED BY <1>1, <1>2, <2>1, <2>2
<1>4. CASE AskStats
  <2>1. call[1] = "ask" /\ call[2] \in Workers /\ call[2] \in Nat /\ added \in Nat /\ w \in Nat
    BY <1>4, AskedLeg DEF Workers, AllWorkers, LoopInv, TypeOK
  <2>2. NotAsked(w) <=> w >= call[2]
    BY <2>1 DEF NotAsked
  <2>3. call' = Draining \/ call' = <<"ask", call[2] + 1>>
    BY <1>4 DEF AskStats, Loop
  <2>4. NotAsked(w)' => w >= call[2] + 1
    BY <2>3 DEF NotAsked, Draining
  <2>5. UnderWay(w)' <= IF w = call[2] THEN UnderWay(w) + 1 ELSE UnderWay(w)
    BY <1>4, AskedUnderWay
  <2>6. CASE w = call[2]
    BY <1>1, <1>2, <2>1, <2>2, <2>4, <2>5, <2>6
  <2>7. CASE w # call[2]
    BY <1>1, <1>2, <2>1, <2>2, <2>4, <2>5, <2>7
  <2> QED BY <2>6, <2>7
<1>5. CASE ProcessDone
  <2>1. events = <<>> /\ UNCHANGED <<inbox, events>>
    BY <1>5 DEF ProcessDone
  <2>2. UnderWay(w)' = UnderWay(w)
    BY <2>1 DEF UnderWay, AnswersOf, Event, AllWorkers
  <2>3. HowMany(events, AnswersOf(w)) = 0
    BY <2>1, HowManyEmpty
  <2>4. HowMany(inbox[w], {"stats"}) \in Nat /\ HowMany(inbox[w], {"stats"}) <= StackSize
    <3>1. inbox[w] \in Seq(Msg) /\ DOMAIN inbox[w] = 1..Len(inbox[w]) /\ Len(inbox[w]) \in Nat
      BY DEF LoopInv, TypeOK, Msg
    <3>2. Places(inbox[w], {"stats"}) \subseteq 1..StackSize
      BY <1>2, <3>1 DEF RequestsInFront, Places
    <3>3. IsFiniteSet(1..StackSize) /\ Cardinality(1..StackSize) = StackSize
      <4>1. 1 \in Int /\ StackSize \in Int
        BY <1>2
      <4>2. Cardinality(1..StackSize) = IF 1 > StackSize THEN 0 ELSE StackSize - 1 + 1
        BY <4>1, FS_Interval
      <4> QED BY <1>2, <4>1, <4>2, FS_Interval
    <3>4. Cardinality(Places(inbox[w], {"stats"})) <= StackSize
      BY <3>2, <3>3, FS_Subset
    <3>5. HowMany(inbox[w], {"stats"}) \in Nat
      BY CountsAreNat DEF LoopInv
    <3> QED BY <3>4, <3>5 DEF HowMany
  <2>5. UnderWay(w) <= StackSize
    BY <2>3, <2>4, <1>2 DEF UnderWay
  <2> QED BY <1>2, <2>2, <2>5
<1> QED BY <1>3, <1>4, <1>5

-----------------------------------------------------------------------------
\* A step starts what a worker runs only for a spawn that was handed to it
\* after the statistics, or has not been started when they were taken.
Dwindles(w) ==
  /\ started[w] <= started'[w]
  /\ (Running(w)' <= Running(w) /\ sent'[w] = sent[w]) \/ started[w] < sent'[w]

LEMMA RunningNat ==
  ASSUME LoopInv
  PROVE  \A w \in AllWorkers :
           /\ tasks[w] \in [living : Nat, closing : Nat, empty : Nat] /\ Running(w) \in Nat
           /\ started[w] \in Nat /\ sent[w] \in Nat /\ started[w] <= sent[w] /\ sent[w] <= MaxSpawn
<1> SUFFICES ASSUME NEW w \in AllWorkers
             PROVE  /\ tasks[w] \in [living : Nat, closing : Nat, empty : Nat] /\ Running(w) \in Nat
                    /\ started[w] \in Nat /\ sent[w] \in Nat /\ started[w] <= sent[w]
                    /\ sent[w] <= MaxSpawn
  OBVIOUS
<1>1. /\ tasks[w] \in [living : Nat, closing : Nat, empty : Nat]
      /\ started[w] \in Nat /\ sent[w] \in Nat /\ sent[w] <= MaxSpawn
  BY BoundsAssumption DEF LoopInv, TypeOK
<1>2. Running(w) \in Nat
  BY <1>1 DEF Running
<1>3. started[w] + HowMany(inbox[w], {"spawn"}) = sent[w] /\ HowMany(inbox[w], {"spawn"}) \in Nat
  BY CountsAreNat DEF LoopInv, SpawnsWaiting
<1>4. started[w] <= sent[w]
  BY <1>1, <1>3
<1> QED BY <1>1, <1>2, <1>4

\* A spawn handed out now was not started before.
LEMMA SpawnDwindles ==
  ASSUME LoopInv, added > 0, SpawnOnBest, UNCHANGED <<tasks, started>>, NEW w \in AllWorkers
  PROVE  Dwindles(w) /\ (w = Best => started[w] < sent'[w])
<1>1. /\ Running(w) \in Nat /\ started[w] \in Nat /\ sent[w] \in Nat /\ started[w] <= sent[w]
      /\ Running(w)' = Running(w) /\ started'[w] = started[w]
  BY RunningNat DEF Running
<1>2. sent'[w] = IF w = Best THEN sent[w] + 1 ELSE sent[w]
  BY SpawnOnBestSends
<1>3. CASE w = Best
  BY <1>1, <1>2, <1>3 DEF Dwindles
<1>4. CASE w # Best
  BY <1>1, <1>2, <1>4 DEF Dwindles
<1> QED BY <1>3, <1>4

LEMMA HandleDwindles ==
  ASSUME LoopInv, NEW v \in Workers, Handle(v), NEW w \in AllWorkers
  PROVE  Dwindles(w) /\ (Head(inbox[v]) = "stats" => UNCHANGED <<tasks, started, sent>>)
<1> DEFINE m == Head(inbox[v])
<1>1. /\ inbox[v] # <<>> /\ inbox' = [inbox EXCEPT ![v] = Tail(@)]
      /\ tasks' = CASE m = "spawn" -> [tasks EXCEPT ![v].living = @ + 1]
                    [] m = "shutdown" -> [tasks EXCEPT ![v].living = 0, ![v].closing = Running(v)]
                    [] OTHER -> tasks
      /\ started' = IF m = "spawn" THEN [started EXCEPT ![v] = @ + 1] ELSE started
      /\ UNCHANGED sent
  BY DEF Handle, control
<1>2. v \in AllWorkers
  BY MaxWorkersAssumption DEF LoopInv, TypeOK, Workers, AllWorkers
<1>3. /\ tasks \in [AllWorkers -> [living : Nat, closing : Nat, empty : Nat]]
      /\ started \in [AllWorkers -> 0..MaxSpawn]
      /\ tasks[v] \in [living : Nat, closing : Nat, empty : Nat]
      /\ Running(v) \in Nat /\ Running(w) \in Nat /\ started[v] \in Nat /\ started[w] \in Nat
      /\ sent[v] \in Nat
  BY <1>2, RunningNat DEF LoopInv, TypeOK
<1>4. CASE m = "spawn"
  <2>1. /\ tasks' = [tasks EXCEPT ![v].living = @ + 1]
        /\ started' = [started EXCEPT ![v] = @ + 1]
    BY <1>1, <1>4
  <2>2. CASE w # v
    <3>1. tasks'[w] = tasks[w] /\ started'[w] = started[w]
      BY <1>3, <2>1, <2>2
    <3>2. Running(w)' = Running(w)
      BY <3>1 DEF Running
    <3> QED BY <1>1, <1>3, <1>4, <3>1, <3>2 DEF Dwindles
  <2>3. CASE w = v
    <3>1. started'[v] = started[v] + 1
      BY <1>2, <1>3, <2>1
    <3>2. /\ started[v] + HowMany(inbox[v], {"spawn"}) = sent[v]
          /\ HowMany(inbox[v], {"spawn"}) \in Nat
      BY <1>2, CountsAreNat DEF LoopInv, SpawnsWaiting
    <3>3. HowMany(inbox[v], {"spawn"}) - 1 \in Nat
      <4>1. /\ inbox'[v] \in Seq(Msg)
            /\ HowMany(inbox'[v], {"spawn"}) = HowMany(inbox[v], {"spawn"}) - 1
        BY <1>1, <1>2, <1>4, TakenLeg DEF LoopInv
      <4> QED BY <4>1, HowManyType
    <3>4. started[v] < sent[v]
      BY <1>3, <3>2, <3>3
    <3> QED BY <1>1, <1>3, <1>4, <2>3, <3>1, <3>4 DEF Dwindles
  <2> QED BY <2>2, <2>3
<1>5. CASE m = "shutdown"
  <2>1. /\ tasks' = [tasks EXCEPT ![v].living = 0, ![v].closing = Running(v)]
        /\ UNCHANGED started
    BY <1>1, <1>5
  <2>2. w # v => tasks'[w] = tasks[w]
    BY <1>3, <2>1
  <2>3. tasks'[v].living = 0 /\ tasks'[v].closing = Running(v)
    BY <1>2, <1>3, <2>1
  <2>4. Running(w)' = Running(w)
    <3>1. CASE w = v
      BY <1>3, <2>3, <3>1 DEF Running
    <3>2. CASE w # v
      BY <2>2, <3>2 DEF Running
    <3> QED BY <3>1, <3>2
  <2> QED BY <1>1, <1>3, <1>5, <2>1, <2>4 DEF Dwindles
<1>6. CASE m # "spawn" /\ m # "shutdown"
  <2>1. UNCHANGED <<tasks, started, sent>>
    BY <1>1, <1>6
  <2>2. Running(w)' = Running(w)
    BY <2>1 DEF Running
  <2> QED BY <1>3, <2>1, <2>2 DEF Dwindles
<1> QED BY <1>4, <1>5, <1>6

LEMMA AllDwindle ==
  ASSUME LoopInv, [Next]_vars, NEW w \in AllWorkers
  PROVE  Dwindles(w)
<1>1. Running(w) \in Nat /\ started[w] \in Nat /\ tasks[w] \in [living : Nat, closing : Nat, empty : Nat]
  BY RunningNat
<1>2. ASSUME UNCHANGED <<tasks, started, sent>>  PROVE Dwindles(w)
  <2>1. Running(w)' = Running(w)
    BY <1>2 DEF Running
  <2> QED BY <1>1, <1>2, <2>1 DEF Dwindles
<1>3. CASE Spawn
  BY <1>3, SpawnDwindles DEF Spawn
<1>4. CASE TakeEvent
  <2>1. CASE SpawnOnBest
    <3>1. events # <<>> /\ events' = Tail(events) /\ UNCHANGED <<tasks, started>>
      BY <1>4 DEF TakeEvent
    <3>2. Head(events).from \in Workers
      BY <3>1, TakenEvent
    <3>3. added > 0
      BY <3>2 DEF Workers, LoopInv, TypeOK
    <3> QED BY <2>1, <3>1, <3>3, SpawnDwindles
  <2>2. CASE ~SpawnOnBest
    BY <1>2, <1>4, <2>2 DEF TakeEvent, TakeStats
  <2> QED BY <2>1, <2>2
<1>5. ASSUME NEW v \in Workers, Handle(v)  PROVE Dwindles(w)
  BY <1>5, HandleDwindles
<1>6. ASSUME NEW v \in Workers, TaskEnds(v) \/ TaskCloses(v) \/ TaskRemoved(v)  PROVE Dwindles(w)
  <2>1. v \in AllWorkers /\ tasks \in [AllWorkers -> [living : Nat, closing : Nat, empty : Nat]]
    BY MaxWorkersAssumption DEF LoopInv, TypeOK, Workers, AllWorkers
  <2>2. UNCHANGED <<started, sent>>
    BY <1>6 DEF TaskEnds, TaskCloses, TaskRemoved, control
  <2>3. \/ tasks' = [tasks EXCEPT ![v].living = @ - 1, ![v].empty = @ + 1]
        \/ tasks' = [tasks EXCEPT ![v].closing = @ - 1, ![v].empty = @ + 1]
        \/ tasks' = [tasks EXCEPT ![v].empty = @ - 1]
    BY <1>6 DEF TaskEnds, TaskCloses, TaskRemoved
  <2>4. \/ tasks'[w].living = tasks[w].living /\ tasks'[w].closing = tasks[w].closing
        \/ tasks'[w].living = tasks[w].living - 1 /\ tasks'[w].closing = tasks[w].closing
        \/ tasks'[w].living = tasks[w].living /\ tasks'[w].closing = tasks[w].closing - 1
    BY <1>1, <2>1, <2>3
  <2>5. Running(w)' <= Running(w)
    BY <1>1, <2>4 DEF Running
  <2> QED BY <1>1, <2>2, <2>5 DEF Dwindles
<1>7. CASE \/ UNCHANGED vars \/ AddWorker \/ SendToBest \/ \E v \in Workers : SendTo(v)
           \/ Shutdown \/ Process \/ ProcessEnds \/ TellShutdown \/ AskStats \/ ProcessDone
           \/ \E v \in Workers : \/ GoToWork(v) \/ BackToControl(v) \/ EmitSpawn(v)
                                 \/ EmitExt(v, TRUE) \/ EmitExt(v, FALSE)
  BY <1>2, <1>7 DEF vars, control, AddWorker, SendToBest, SendTo, Shutdown, Process, ProcessEnds,
                    TellShutdown, AskStats, ProcessDone, GoToWork, BackToControl, EmitSpawn, EmitExt
<1> QED BY <1>3, <1>4, <1>5, <1>6, <1>7 DEF Next, Proceeds, Works

-----------------------------------------------------------------------------
\* Statistics that told the truth do so after the step.
LEMMA TruthKept ==
  ASSUME LoopInv, LoopInv', NEW w \in AllWorkers, Dwindles(w), NEW n \in Nat, NEW s,
         Truthful(w, n, s)
  PROVE  /\ n <= started'[w]
         /\ n = sent'[w] /\ (s.tasks = 0 \/ s.empty) => tasks'[w].living + tasks'[w].closing = 0
<1>1. /\ Running(w) \in Nat /\ started[w] \in Nat /\ sent[w] \in Nat
  BY RunningNat
<1>2. /\ started'[w] \in Nat /\ sent'[w] \in Nat
      /\ tasks'[w] \in [living : Nat, closing : Nat, empty : Nat]
  <2>1. /\ started' \in [AllWorkers -> 0..MaxSpawn] /\ sent' \in [AllWorkers -> 0..MaxSpawn]
        /\ tasks' \in [AllWorkers -> [living : Nat, closing : Nat, empty : Nat]]
    BY DEF LoopInv, TypeOK, AllWorkers
  <2> QED BY <2>1, BoundsAssumption
<1>3. tasks'[w].living + tasks'[w].closing \in Nat
  BY <1>2
<1> DEFINE runsN == tasks'[w].living + tasks'[w].closing
           none == s.tasks = 0 \/ s.empty
<1>4. /\ started[w] <= started'[w]
      /\ (runsN <= Running(w) /\ sent'[w] = sent[w]) \/ started[w] < sent'[w]
  BY DEF Dwindles, Running
<1>5. n <= started[w] /\ (n = sent[w] /\ none => Running(w) = 0)
  BY DEF Truthful
<1>6. runsN \in Nat
  BY <1>3
<1> HIDE DEF runsN, none
<1>7. n <= started'[w] /\ (n = sent'[w] /\ none => runsN = 0)
  BY <1>1, <1>2, <1>4, <1>5, <1>6
<1> QED BY <1>7 DEF runsN, none

\* Where an answer that waits after a step comes from.
LEMMA AnswersFrom ==
  ASSUME LoopInv, [Next]_vars, NEW i \in 1..Len(events'), events'[i].kind = "stats"
  PROVE  \/ \E j \in 1..Len(events) : events'[i] = events[j]
         \/ \E v \in Workers :
              /\ Handle(v) /\ Head(inbox[v]) = "stats"
              /\ events'[i] = [kind |-> "stats", from |-> v, stats |-> StatsOf(v),
                               started |-> started[v]]
<1>1. events \in Seq(Event)
  BY DEF LoopInv, TypeOK
<1>2. ASSUME NEW e, events' = Append(events, e)
      PROVE  (\E j \in 1..Len(events) : events'[i] = events[j]) \/ events'[i] = e
  <2>1. i \in 1..Len(events) \/ i = Len(events) + 1
    BY <1>1, <1>2
  <2> QED BY <1>1, <1>2, <2>1
<1>3. CASE AskStats
  BY <1>3 DEF AskStats
<1>4. CASE TakeEvent
  BY <1>4, TakenEvent DEF TakeEvent
<1>5. CASE Silent
  BY <1>2, <1>5 DEF Silent
<1>6. ASSUME NEW v \in Workers, Handle(v)
      PROVE  \/ \E j \in 1..Len(events) : events'[i] = events[j]
             \/ /\ Head(inbox[v]) = "stats"
                /\ events'[i] = [kind |-> "stats", from |-> v, stats |-> StatsOf(v),
                                 started |-> started[v]]
  <2>1. CASE Head(inbox[v]) = "stats"
    BY <1>2, <1>6, <2>1 DEF Handle
  <2>2. CASE Head(inbox[v]) # "stats"
    BY <1>6, <2>2 DEF Handle
  <2> QED BY <2>1, <2>2
<1> QED BY <1>3, <1>4, <1>5, <1>6, MessagesMove

LEMMA AnswersTrueStep ==
  ASSUME LoopInv, AnswersTrue, [Next]_vars
  PROVE  AnswersTrue'
<1>1. LoopInv'
  BY LoopStep
<1> SUFFICES ASSUME NEW i \in 1..Len(events'), events'[i].kind = "stats"
             PROVE  Truthful(events[i].from, events[i].started, events[i].stats)'
  BY DEF AnswersTrue
<1>2. PICK e : e = events'[i]
  OBVIOUS
<1> DEFINE TrueThen ==
             /\ e.started <= started'[e.from]
             /\ e.started = sent'[e.from] /\ (e.stats.tasks = 0 \/ e.stats.empty)
                  => tasks'[e.from].living + tasks'[e.from].closing = 0
<1>3. TrueThen
  <2>1. ASSUME NEW j \in 1..Len(events), e = events[j]  PROVE TrueThen
    <3>1. /\ e.from \in AllWorkers /\ e.started \in Nat
      <4>1. e.kind = "stats" /\ e.from \in Workers /\ e.started \in 0..MaxSpawn
        BY <1>2, <2>1 DEF LoopInv, EventsTyped
      <4>2. Workers \subseteq AllWorkers
        BY MaxWorkersAssumption DEF LoopInv, TypeOK, Workers, AllWorkers
      <4> QED BY <4>1, <4>2, BoundsAssumption
    <3>2. Truthful(e.from, e.started, e.stats)
      BY <1>2, <2>1 DEF AnswersTrue
    <3>3. Dwindles(e.from)
      BY <3>1, AllDwindle
    <3> QED BY <1>1, <3>1, <3>2, <3>3, TruthKept
  <2>2. ASSUME NEW v \in Workers, Handle(v), Head(inbox[v]) = "stats",
               e = [kind |-> "stats", from |-> v, stats |-> StatsOf(v), started |-> started[v]]
        PROVE  TrueThen
    <3>1. v \in AllWorkers
      BY MaxWorkersAssumption DEF LoopInv, TypeOK, Workers, AllWorkers
    <3>2. UNCHANGED <<tasks, started, sent>>
      BY <2>2, <3>1, HandleDwindles
    <3>3. /\ tasks[v] \in [living : Nat, closing : Nat, empty : Nat] /\ started[v] \in Nat
      BY <3>1, RunningNat
    <3>4. e.stats.tasks = 0 \/ e.stats.empty => tasks[v].living + tasks[v].closing = 0
      <4>1. e.stats.tasks = Running(v) + tasks[v].empty /\ e.stats.empty = (Running(v) = 0)
        BY <2>2 DEF StatsOf
      <4>2. Running(v) = tasks[v].living + tasks[v].closing
        BY DEF Running
      <4>3. CASE e.stats.tasks = 0
        BY <3>3, <4>1, <4>2, <4>3
      <4>4. CASE e.stats.empty
        BY <4>1, <4>2, <4>4
      <4> QED BY <4>3, <4>4
    <3>5. e.started = started[v] /\ e.from = v
      BY <2>2
    <3> QED BY <3>2, <3>3, <3>4, <3>5
  <2> QED BY <1>2, <2>1, <2>2, AnswersFrom
<1> QED BY <1>2, <1>3 DEF Truthful, Running

\* Where what the controller holds of a worker after a step comes from.
LEMMA StatsFrom ==
  ASSUME LoopInv, [Next]_vars, NEW w \in AllWorkers
  PROVE  \/ counted'[w] = counted[w] /\ stats'[w] = stats[w]
         \/ counted'[w] = counted[w] /\ started[w] < sent'[w]
         \/ /\ 1 \in 1..Len(events) /\ events[1].kind = "stats" /\ events[1].from = w
            /\ counted'[w] = events[1].started /\ stats'[w] = events[1].stats
<1>1. /\ stats \in [AllWorkers -> [tasks : Nat, empty : BOOLEAN]]
      /\ counted \in [AllWorkers -> 0..NotCounted]
  BY DEF LoopInv, TypeOK
<1>2. ASSUME added > 0, SpawnOnBest, UNCHANGED <<tasks, started, counted>>
      PROVE  \/ counted'[w] = counted[w] /\ stats'[w] = stats[w]
             \/ counted'[w] = counted[w] /\ started[w] < sent'[w]
  BY <1>2, SpawnDwindles, SpawnOnBestSends
<1>3. CASE Spawn
  BY <1>2, <1>3 DEF Spawn
<1>4. CASE TakeEvent
  <2>1. /\ events # <<>> /\ events' = Tail(events) /\ UNCHANGED <<tasks, started>>
    BY <1>4 DEF TakeEvent
  <2>2. /\ Head(events) = events[1] /\ 1 \in 1..Len(events)
        /\ Head(events).from \in Workers /\ Head(events).from \in AllWorkers
    BY <2>1, TakenEvent
  <2>3. CASE Head(events).kind = "stats" /\ TakeStats
    BY <1>1, <2>2, <2>3 DEF TakeStats
  <2>4. CASE SpawnOnBest /\ UNCHANGED counted
    <3>1. added > 0
      BY <2>2 DEF Workers, LoopInv, TypeOK
    <3> QED BY <1>2, <2>1, <2>4, <3>1
  <2>5. CASE UNCHANGED <<stats, counted>>
    BY <2>5
  <2> QED BY <1>4, <2>3, <2>4, <2>5 DEF TakeEvent
<1>5. CASE \/ UNCHANGED vars \/ AddWorker \/ SendToBest \/ \E v \in Workers : SendTo(v)
           \/ Shutdown \/ Process \/ ProcessEnds \/ TellShutdown \/ AskStats \/ ProcessDone
           \/ \E v \in Workers : \/ Works(v) \/ EmitSpawn(v)
                                 \/ EmitExt(v, TRUE) \/ EmitExt(v, FALSE)
                                 \/ TaskEnds(v) \/ TaskCloses(v) \/ TaskRemoved(v)
  <2>1. UNCHANGED <<stats, counted>>
    BY <1>5 DEF vars, control, AddWorker, SendToBest, SendTo, Shutdown, Process, ProcessEnds,
                TellShutdown, AskStats, ProcessDone, Works, Handle, GoToWork, BackToControl,
                EmitSpawn, EmitExt, TaskEnds, TaskCloses, TaskRemoved
  <2> QED BY <2>1
<1> QED BY <1>3, <1>4, <1>5 DEF Next, Proceeds

LEMMA StatsTrueStep ==
  ASSUME LoopInv, StatsTrue, AnswersTrue, [Next]_vars
  PROVE  StatsTrue'
<1>1. LoopInv'
  BY LoopStep
<1> SUFFICES ASSUME NEW w \in AllWorkers
             PROVE  (counted[w] = NotCounted \/ Truthful(w, counted[w], stats[w]))'
  BY DEF StatsTrue, AllWorkers
<1>2. PICK n : n = counted'[w]
  OBVIOUS
<1>3. PICK s : s = stats'[w]
  OBVIOUS
<1>4. /\ Running(w) \in Nat /\ started[w] \in Nat /\ sent[w] \in Nat
      /\ counted[w] \in Nat /\ MaxSpawn \in Nat /\ Dwindles(w)
  <2>1. counted[w] \in Nat /\ MaxSpawn \in Nat
    BY BoundsAssumption DEF LoopInv, TypeOK, NotCounted
  <2> QED BY <2>1, RunningNat, AllDwindle
<1>5. n = NotCounted \/
        /\ n <= started'[w]
        /\ n = sent'[w] /\ (s.tasks = 0 \/ s.empty) => tasks'[w].living + tasks'[w].closing = 0
  <2>1. CASE counted'[w] = counted[w] /\ stats'[w] = stats[w]
    <3>1. counted[w] = NotCounted \/ Truthful(w, n, s)
      BY <1>2, <1>3, <2>1 DEF StatsTrue
    <3>2. n \in Nat
      BY <1>2, <1>4, <2>1
    <3> QED BY <1>1, <1>2, <1>4, <2>1, <3>1, <3>2, TruthKept
  <2>2. CASE counted'[w] = counted[w] /\ started[w] < sent'[w]
    <3>1. n = NotCounted \/ n <= started[w]
      BY <1>2, <2>2 DEF StatsTrue, Truthful
    <3>2. started[w] <= started'[w] /\ started'[w] \in Nat /\ sent'[w] \in Nat /\ n \in Nat
      <4>1. started' \in [AllWorkers -> 0..MaxSpawn] /\ sent' \in [AllWorkers -> 0..MaxSpawn]
        BY <1>1 DEF LoopInv, TypeOK, AllWorkers
      <4>2. started[w] <= started'[w]
        BY <1>4 DEF Dwindles
      <4> QED BY <1>2, <1>4, <2>2, <4>1, <4>2
    <3> QED BY <1>4, <2>2, <3>1, <3>2
  <2>3. CASE /\ 1 \in 1..Len(events) /\ events[1].kind = "stats" /\ events[1].from = w
             /\ counted'[w] = events[1].started /\ stats'[w] = events[1].stats
    <3>1. Truthful(w, n, s)
      BY <1>2, <1>3, <2>3 DEF AnswersTrue
    <3>2. n \in Nat
      BY <1>2, <2>3, BoundsAssumption DEF LoopInv, EventsTyped
    <3> QED BY <1>1, <1>4, <3>1, <3>2, TruthKept
  <2> QED BY <2>1, <2>2, <2>3, StatsFrom
<1> QED BY <1>2, <1>3, <1>5 DEF Truthful, Running, NotCounted

-----------------------------------------------------------------------------
LEMMA ControllerInvInit == Init => ControllerInv
<1> SUFFICES ASSUME Init  PROVE ControllerInv
  OBVIOUS
<1>1. LoopInv
  BY LoopInit
<1>2. events = <<>> /\ \A w \in AllWorkers : inbox[w] = <<>>
  BY DEF Init
<1>3. RequestsInFront /\ AnswersTrue
  BY <1>2 DEF RequestsInFront, AnswersTrue
<1>4. \A w \in AllWorkers : UnderWay(w) = 0
  BY <1>2, HowManyEmpty DEF UnderWay
<1>5. RoundsBounded
  BY <1>4, StackSizeAssumption DEF RoundsBounded
<1>6. StatsTrue
  BY DEF Init, StatsTrue
<1> QED BY <1>1, <1>3, <1>5, <1>6 DEF ControllerInv

LEMMA ControllerInvStep == ControllerInv /\ [Next]_vars => ControllerInv'
BY LoopStep, RequestsInFrontStep, RoundsBoundedStep, StatsTrueStep, AnswersTrueStep DEF ControllerInv

LEMMA ControllerInvAlways == Spec => []ControllerInv
BY ControllerInvInit, ControllerInvStep, PTL DEF Spec

\* Statistics do not pile up, however often process is called and however slow
\* the workers are, for every size of a leg.
THEOREM StatisticsDoNotPileUp == Spec => []StatsBounded
<1>1. ControllerInv => StatsBounded
  <2> SUFFICES ASSUME ControllerInv, NEW w \in AllWorkers
               PROVE  Cardinality(Requests(w)) + Cardinality(Answers(w)) <= StackSize + 1
    BY DEF StatsBounded
  <2>1. Requests(w) = Places(inbox[w], {"stats"})
    BY DEF Requests, Places
  <2>2. Answers(w) = Places(events, AnswersOf(w))
    <3>1. \A i \in DOMAIN events : events[i] \in Event
      BY DEF ControllerInv, LoopInv, TypeOK
    <3> QED BY <3>1 DEF Answers, Places, AnswersOf
  <2>3. UnderWay(w) \in Nat
    BY CountsAreNat DEF ControllerInv, LoopInv, UnderWay
  <2>4. UnderWay(w) <= StackSize + 1
    BY <2>3, StackSizeAssumption DEF ControllerInv, RoundsBounded
  <2> QED BY <2>1, <2>2, <2>4 DEF UnderWay, HowMany
<1> QED BY <1>1, ControllerInvAlways, PTL

\* When process would answer None, a worker still runs a task only if it was
\* handed a spawn after the statistics the controller goes by, or none have
\* come yet: however spawns, statistics and shutdowns cross.
THEOREM NoneTellsTheTruth == Spec => []NoneIsTrue
<1>1. ControllerInv => NoneIsTrue
  <2> SUFFICES ASSUME ControllerInv, AllOver, NEW w \in Workers, counted[w] = sent[w]
               PROVE  Running(w) = 0
    BY DEF NoneIsTrue
  <2>1. w \in AllWorkers
    BY MaxWorkersAssumption DEF ControllerInv, LoopInv, TypeOK, Workers, AllWorkers
  <2>2. stats[w].tasks \in Nat /\ sent[w] \in Nat /\ sent[w] <= MaxSpawn /\ MaxSpawn \in Nat
    BY <2>1, BoundsAssumption DEF ControllerInv, LoopInv, TypeOK
  <2>3. stats[w].tasks = 0 \/ stats[w].empty
    BY <2>2 DEF AllOver, SeemsRunning
  <2>4. counted[w] # NotCounted
    BY <2>2 DEF NotCounted
  <2>5. Truthful(w, counted[w], stats[w])
    BY <2>1, <2>4 DEF ControllerInv, StatsTrue
  <2> QED BY <2>3, <2>5 DEF Truthful
<1> QED BY <1>1, ControllerInvAlways, PTL
=============================================================================

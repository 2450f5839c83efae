----------------------------- MODULE Controller -----------------------------
(***************************************************************************)
(* The controller and the control loops of its workers: spawning on the    *)
(* worker with the lowest load, statistics, shutdown, and when process()   *)
(* tells the program that all is over.                                     *)
(*                                                                         *)
(* Controller and workers share nothing but two buses: each worker has a   *)
(* leg for control messages, the controller one leg for their answers.     *)
(* The controller knows of a worker's tasks only what it last heard.       *)
(*                                                                         *)
(* What a worker runs is the application's (the WorkerInner trait): here   *)
(* its tasks live, close once they are told to shut down, and are counted  *)
(* until they are removed, as in the examples of the repository.           *)
(***************************************************************************)
EXTENDS Naturals, Sequences, FiniteSets

CONSTANTS MaxWorkers,   \* bound of the model: workers
          StackSize,    \* INNER_BUS_STACK, refuses unsafe sends from there on
          OwnTasks,     \* OwnTasks[w]: how many tasks the inner of w may be built with
          MaxSpawn,     \* bound of the model: spawns asked for
          MaxExt,       \* bound of the model: messages sent to workers
          MaxShutdown   \* bound of the model: calls of shutdown

ASSUME MaxWorkersAssumption == MaxWorkers \in Nat
ASSUME StackSizeAssumption == StackSize \in Nat
ASSUME OwnTasksAssumption == OwnTasks \in [1..MaxWorkers -> SUBSET Nat]
ASSUME BoundsAssumption == {MaxSpawn, MaxExt, MaxShutdown} \subseteq Nat

VARIABLES added,      \* worker_threads.len(): workers 1..added run
          stats,      \* what the controller holds of each worker's statistics
          shutdowns,  \* calls of shutdown so far; the flag is set by the first
          call,       \* the controller's position in the call under way
          over,       \* process has answered None
          inbox,      \* the control leg of each worker
          events,     \* the controller's leg
          at,         \* each worker's position in its cycle
          tasks,      \* each worker's tasks: living, closing, empty
          asked,      \* spawns asked for, by the program and by tasks
          exts,       \* messages sent by the program
          sent,       \* the spawns handed to each worker
          started,    \* the spawns each worker has carried out
          counted     \* those of them in the statistics the controller holds

vars == <<added, stats, shutdowns, call, over, inbox, events, at, tasks,
          asked, exts, sent, started, counted>>
program == <<asked, exts>>
control == <<added, stats, shutdowns, call, over, sent, counted>>

AllWorkers == 1..MaxWorkers
Workers == 1..added

\* No statistics of that worker have come yet.
NotCounted == MaxSpawn + 1

Running(w) == tasks[w].living + tasks[w].closing

Idle == <<"idle", 0>>
Draining == <<"drain", 0>>

\* Mutant of Loop: one turn too many.
LoopLong(name, i, after) == IF i > added + 1 THEN after ELSE <<name, i>>

\* A loop over the workers, from i on.
Loop(name, i, after) == IF i > added THEN after ELSE <<name, i>>

Init ==
  /\ added = 0
  /\ stats = [w \in AllWorkers |-> [tasks |-> 0, empty |-> FALSE]]
  /\ shutdowns = 0 /\ call = Idle /\ over = FALSE
  /\ inbox = [w \in AllWorkers |-> <<>>] /\ events = <<>>
  /\ at = [w \in AllWorkers |-> "outputs"]
  /\ tasks \in [AllWorkers -> [living : UNION {OwnTasks[w] : w \in AllWorkers}, closing : {0}, empty : {0}]]
  /\ \A w \in AllWorkers : tasks[w].living \in OwnTasks[w]
  /\ asked = 0 /\ exts = 0
  /\ sent = [w \in AllWorkers |-> 0] /\ started = [w \in AllWorkers |-> 0]
  /\ counted = [w \in AllWorkers |-> NotCounted]

-----------------------------------------------------------------------------
\* The controller's legs to the workers: push_back, and push_back_stack for
\* what may be refused.
Tell(w, m) == inbox' = [inbox EXCEPT ![w] = Append(@, m)]

\* add_worker waits until the new worker is about to run init, which pops the
\* outputs of its inner.
AddWorker ==
  /\ call = Idle /\ added < MaxWorkers
  /\ added' = added + 1
  /\ UNCHANGED <<stats, shutdowns, call, over, inbox, events, at, tasks, program,
                 sent, started, counted>>

\* min_by_key: the first of the workers with the lowest load known.
Best ==
  CHOOSE w \in Workers : \A v \in Workers :
    stats[w].tasks <= stats[v].tasks /\ (stats[v].tasks = stats[w].tasks => w <= v)

\* Mutant of SpawnOnBest: the spawn is sent as an unsafe message.
SpawnOnBestUnsafe ==
  /\ stats' = [stats EXCEPT ![Best].tasks = @ + 1]
  /\ IF Len(inbox[Best]) < StackSize THEN Tell(Best, "spawn") ELSE UNCHANGED inbox
  /\ sent' = [sent EXCEPT ![Best] = @ + 1]

\* Controller::spawn.
SpawnOnBest ==
  /\ stats' = [stats EXCEPT ![Best].tasks = @ + 1]
  /\ Tell(Best, "spawn")
  /\ sent' = [sent EXCEPT ![Best] = @ + 1]

Spawn ==
  /\ call = Idle /\ added > 0 /\ asked < MaxSpawn
  /\ SpawnOnBest
  /\ asked' = asked + 1
  /\ UNCHANGED <<added, shutdowns, call, over, events, at, tasks, exts, started, counted>>

\* send_to and send_to_best.
SendTo(w) ==
  /\ call = Idle /\ exts < MaxExt
  /\ Tell(w, "ext")
  /\ exts' = exts + 1
  /\ UNCHANGED <<control, events, at, tasks, asked, started>>

SendToBest == added > 0 /\ SendTo(Best)

\* shutdown sets the flag and tells one worker after the other.
Shutdown ==
  /\ call = Idle /\ shutdowns < MaxShutdown
  /\ shutdowns' = shutdowns + 1
  /\ call' = Loop("shutdown", 1, Idle)
  /\ UNCHANGED <<added, stats, over, inbox, events, at, tasks, program, sent, started, counted>>

TellShutdown ==
  /\ call[1] = "shutdown"
  /\ Tell(call[2], "shutdown")
  /\ call' = Loop("shutdown", call[2] + 1, Idle)
  /\ UNCHANGED <<added, stats, shutdowns, over, events, at, tasks, program, sent, started, counted>>

\* count_running_workers.
SeemsRunning == {w \in Workers : stats[w].tasks > 0 /\ ~stats[w].empty}

\* What makes process answer None.
AllOver == shutdowns > 0 /\ SeemsRunning = {}

ProcessEnds ==
  /\ call = Idle /\ AllOver
  /\ over' = TRUE
  /\ UNCHANGED <<added, stats, shutdowns, call, inbox, events, at, tasks, program,
                 sent, started, counted>>

\* Otherwise it asks each worker for statistics.
Process ==
  /\ call = Idle /\ ~AllOver
  /\ call' = Loop("ask", 1, Draining)
  /\ UNCHANGED <<added, stats, shutdowns, over, inbox, events, at, tasks, program,
                 sent, started, counted>>

\* Mutant of AskStats: the request is sent as a safe message.
AskStatsSafe ==
  /\ call[1] = "ask"
  /\ Tell(call[2], "stats")
  /\ call' = Loop("ask", call[2] + 1, Draining)
  /\ UNCHANGED <<added, stats, shutdowns, over, events, at, tasks, program, sent, started, counted>>

\* The request is an unsafe message: a full leg refuses it.
AskStats ==
  /\ call[1] = "ask"
  /\ IF Len(inbox[call[2]]) < StackSize THEN Tell(call[2], "stats") ELSE UNCHANGED inbox
  /\ call' = Loop("ask", call[2] + 1, Draining)
  /\ UNCHANGED <<added, stats, shutdowns, over, events, at, tasks, program, sent, started, counted>>

\* Mutant of TakeStats: legs and workers are numbered apart by one.
TakeStatsShifted ==
  LET w == (Head(events).from % added) + 1
  IN  /\ stats' = [stats EXCEPT ![w] = Head(events).stats]
      /\ counted' = [counted EXCEPT ![w] = Head(events).started]
      /\ UNCHANGED <<inbox, sent>>

\* Then it takes the answers, until there is none left.
TakeStats ==
  /\ stats' = [stats EXCEPT ![Head(events).from] = Head(events).stats]
  /\ counted' = [counted EXCEPT ![Head(events).from] = Head(events).started]
  /\ UNCHANGED <<inbox, sent>>

TakeEvent ==
  /\ call = Draining /\ events # <<>>
  /\ \/ Head(events).kind = "stats" /\ TakeStats
     \/ Head(events).kind = "spawn" /\ SpawnOnBest /\ UNCHANGED counted
     \/ Head(events).kind = "ext" /\ UNCHANGED <<stats, counted, inbox, sent>>
  /\ events' = Tail(events)
  /\ UNCHANGED <<added, shutdowns, call, over, at, tasks, program, started>>

ProcessDone ==
  /\ call = Draining /\ events = <<>>
  /\ call' = Idle
  /\ UNCHANGED <<added, stats, shutdowns, over, inbox, events, at, tasks, program,
                 sent, started, counted>>

-----------------------------------------------------------------------------
\* The worker's control loop takes one message after the other.
StatsOf(w) == [tasks |-> Running(w) + tasks[w].empty, empty |-> Running(w) = 0]

\* Mutant of Handle: Shutdown is taken and ignored.
HandleForgetful(w) ==
  /\ w \in Workers /\ at[w] = "control" /\ inbox[w] # <<>>
  /\ inbox' = [inbox EXCEPT ![w] = Tail(@)]
  /\ LET m == Head(inbox[w])
     IN  /\ tasks' = IF m = "spawn" THEN [tasks EXCEPT ![w].living = @ + 1] ELSE tasks
         /\ started' = IF m = "spawn" THEN [started EXCEPT ![w] = @ + 1] ELSE started
         /\ events' = IF m = "stats"
                        THEN Append(events, [kind |-> "stats", from |-> w, stats |-> StatsOf(w),
                                             started |-> started[w]])
                        ELSE events
         /\ at' = IF m = "ext" THEN [at EXCEPT ![w] = "outputs"] ELSE at
  /\ UNCHANGED <<control, program>>

\* Ext goes to the inner, whose outputs are then popped; Spawn and Shutdown
\* only go to the inner; StatsRequest is answered with a safe message.
Handle(w) ==
  /\ w \in Workers /\ at[w] = "control" /\ inbox[w] # <<>>
  /\ inbox' = [inbox EXCEPT ![w] = Tail(@)]
  /\ LET m == Head(inbox[w])
     IN  /\ tasks' = CASE m = "spawn" -> [tasks EXCEPT ![w].living = @ + 1]
                       [] m = "shutdown" -> [tasks EXCEPT ![w].living = 0, ![w].closing = Running(w)]
                       [] OTHER -> tasks
         /\ started' = IF m = "spawn" THEN [started EXCEPT ![w] = @ + 1] ELSE started
         /\ events' = IF m = "stats"
                        THEN Append(events, [kind |-> "stats", from |-> w, stats |-> StatsOf(w),
                                             started |-> started[w]])
                        ELSE events
         /\ at' = IF m = "ext" THEN [at EXCEPT ![w] = "outputs"] ELSE at
  /\ UNCHANGED <<control, program>>

\* The control leg is empty: on to ticks and network, and their outputs.
GoToWork(w) ==
  /\ w \in Workers /\ at[w] = "control" /\ inbox[w] = <<>>
  /\ at' = [at EXCEPT ![w] = "outputs"]
  /\ UNCHANGED <<control, inbox, events, tasks, program, started>>

\* The outputs are popped: back to the control leg.
BackToControl(w) ==
  /\ w \in Workers /\ at[w] = "outputs"
  /\ at' = [at EXCEPT ![w] = "control"]
  /\ UNCHANGED <<control, inbox, events, tasks, program, started>>

\* While the inner's outputs are popped: Spawn is sent to the controller as a
\* safe message, Ext as the task wishes.
EmitSpawn(w) ==
  /\ w \in Workers /\ at[w] = "outputs" /\ asked < MaxSpawn
  /\ events' = Append(events, [kind |-> "spawn", from |-> w])
  /\ asked' = asked + 1
  /\ UNCHANGED <<control, inbox, at, tasks, exts, started>>

EmitExt(w, safe) ==
  /\ w \in Workers /\ at[w] = "outputs" /\ exts < MaxExt
  /\ events' = IF safe \/ Len(events) < StackSize
                 THEN Append(events, [kind |-> "ext", from |-> w])
                 ELSE events
  /\ exts' = exts + 1
  /\ UNCHANGED <<control, inbox, at, tasks, asked, started>>

\* Tasks end, are announced empty, and are removed by their owner.
TaskEnds(w) ==
  /\ w \in Workers /\ at[w] = "outputs" /\ tasks[w].living > 0
  /\ tasks' = [tasks EXCEPT ![w].living = @ - 1, ![w].empty = @ + 1]
  /\ UNCHANGED <<control, inbox, events, at, program, started>>

TaskCloses(w) ==
  /\ w \in Workers /\ at[w] = "outputs" /\ tasks[w].closing > 0
  /\ tasks' = [tasks EXCEPT ![w].closing = @ - 1, ![w].empty = @ + 1]
  /\ UNCHANGED <<control, inbox, events, at, program, started>>

TaskRemoved(w) ==
  /\ w \in Workers /\ at[w] = "outputs" /\ tasks[w].empty > 0
  /\ tasks' = [tasks EXCEPT ![w].empty = @ - 1]
  /\ UNCHANGED <<control, inbox, events, at, program, started>>

-----------------------------------------------------------------------------
Works(w) == Handle(w) \/ GoToWork(w) \/ BackToControl(w)

\* A call of the controller under way, or the next turn of the program's loop.
Proceeds == TellShutdown \/ AskStats \/ TakeEvent \/ ProcessDone

Next ==
  \/ AddWorker \/ Spawn \/ SendToBest \/ \E w \in Workers : SendTo(w)
  \/ Shutdown \/ Process \/ ProcessEnds \/ Proceeds
  \/ \E w \in Workers :
       \/ Works(w)
       \/ EmitSpawn(w) \/ EmitExt(w, TRUE) \/ EmitExt(w, FALSE)
       \/ TaskEnds(w) \/ TaskCloses(w) \/ TaskRemoved(w)

Spec == Init /\ [][Next]_vars

\* The threads run, the program goes on calling process, but not so often that
\* a worker never finds its control leg empty (the programs of the repository
\* sleep between two calls), and a task told to shut down closes.
Fairness ==
  /\ WF_vars(Proceeds) /\ WF_vars(Process \/ ProcessEnds)
  /\ \A w \in AllWorkers :
       WF_vars(Works(w)) /\ SF_vars(GoToWork(w)) /\ SF_vars(TaskCloses(w))

FairSpec == Spec /\ Fairness

-----------------------------------------------------------------------------
Event ==
  [kind : {"stats"}, from : AllWorkers, stats : [tasks : Nat, empty : BOOLEAN], started : Nat]
    \cup [kind : {"spawn", "ext"}, from : AllWorkers]

\* Type invariant: what each variable holds, the controller's position in its
\* loops over the workers included.
TypeOK ==
  /\ added \in 0..MaxWorkers
  /\ stats \in [AllWorkers -> [tasks : Nat, empty : BOOLEAN]]
  /\ shutdowns \in 0..MaxShutdown /\ over \in BOOLEAN
  /\ call \in {Idle, Draining} \cup ({"ask", "shutdown"} \X Workers)
  /\ inbox \in [AllWorkers -> Seq({"spawn", "ext", "shutdown", "stats"})]
  /\ events \in Seq(Event)
  /\ at \in [AllWorkers -> {"control", "outputs"}]
  /\ tasks \in [AllWorkers -> [living : Nat, closing : Nat, empty : Nat]]
  /\ asked \in 0..MaxSpawn /\ exts \in 0..MaxExt
  /\ sent \in [AllWorkers -> 0..MaxSpawn] /\ started \in [AllWorkers -> 0..MaxSpawn]
  /\ counted \in [AllWorkers -> 0..NotCounted]

\* The requests for statistics that wait in a worker's leg, and its answers
\* that wait in the controller's.
Requests(w) == {i \in DOMAIN inbox[w] : inbox[w][i] = "stats"}
Answers(w) == {i \in DOMAIN events : events[i].kind = "stats" /\ events[i].from = w}

\* Statistics do not pile up, however often the program calls process and
\* however slow the workers are: of each worker, no more requests and answers
\* are under way than one leg holds, and one more.  Requests are sent unsafe
\* for this; answers are safe messages and the leg they go to has no bound.
StatsBounded ==
  \A w \in AllWorkers : Cardinality(Requests(w)) + Cardinality(Answers(w)) <= StackSize + 1

\* When process would tell the program that all is over, no worker runs a task
\* unless it was handed a spawn after the statistics the controller goes by,
\* or none have come yet.  Statistics cross spawns, and overwrite what the
\* controller counted by itself.  (For inners whose tasks come with them or
\* from a spawn.)
NoneIsTrue ==
  AllOver => \A w \in Workers : counted[w] = sent[w] => Running(w) = 0

\* After a shutdown process answers None in the end, if nobody asks for a spawn
\* from then on and none that a task asked for is still on its way: every worker
\* hears of the shutdown, and statistics taken after its tasks have closed reach
\* the controller, though any request for them may be refused.
StopsOnShutdown ==
  \A n \in 0..MaxSpawn :
    (call = <<"shutdown", 1>> /\ asked = n /\ \A i \in DOMAIN events : events[i].kind # "spawn")
      ~> (over \/ asked # n)

\* Every spawn handed to a worker is carried out by it.
SpawnStarts == \A w \in AllWorkers, n \in 1..MaxSpawn : sent[w] >= n ~> started[w] >= n
=============================================================================

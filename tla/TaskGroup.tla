------------------------------ MODULE TaskGroup ------------------------------
(***************************************************************************)
(* A group of tasks under one branch of a worker's inner: task/group.rs    *)
(* below task/switcher.rs, driven as worker.rs drives an inner.            *)
(*                                                                         *)
(* Every call that may give a task something to say flags the task in the  *)
(* group's switcher and the group in the inner's (TaskSwitcherBranch::     *)
(* input).  Outputs come out through pop_output, which drops a flag only   *)
(* when what it stands for has nothing more to say.  Group and branch also *)
(* announce, once, that a task or the whole group has become empty.        *)
(*                                                                         *)
(* A task is the code of the application (src/task.rs says what is asked   *)
(* of it): here it holds some outputs, and counts as empty when it is      *)
(* closing and holds none, as the tasks of the examples do.                *)
(***************************************************************************)
EXTENDS BitVec, Sequences, FiniteSets

CONSTANTS Vacant,     \* a slot with no task
          MaxSlots,   \* bound of the model: slots of the group
          MaxOut,     \* bound of the model: outputs one task holds
          Careful     \* callers set a task only on a vacant slot, and remove
                      \* one only from an occupied slot

ASSUME MaxSlotsAssumption == MaxSlots \in Nat
ASSUME MaxOutAssumption == MaxOut \in Nat
ASSUME CarefulAssumption == Careful \in BOOLEAN

VARIABLES slots,       \* TaskGroup.tasks
          count,       \* tasks_count
          emptyTasks,  \* empty_tasks
          flags,       \* the group's switcher
          branchFlag,  \* the bit of this branch in the inner's switcher
          branchEmpty, \* TaskSwitcherBranch.is_empty
          touched,     \* the branch has been called since it was built
          draining     \* the worker is in pop_inner

vars == <<slots, count, emptyTasks, flags, branchFlag, branchEmpty, touched, draining>>

\* A container: what its task holds, whether that is closing, whether the
\* container has announced it empty, whether it has had any input yet.
Container == [outs : 0..MaxOut, closing : BOOLEAN, told : BOOLEAN, fed : BOOLEAN]

ASSUME VacantAssumption == Vacant \notin Container

\* Indices count from 0.
Index == 0..(Len(slots) - 1)
At(i) == slots[i + 1]
Occupied == {i \in Index : At(i) # Vacant}

TaskEmpty(t) == t.closing /\ t.outs = 0

\* TaskGroup::is_empty, with its fields as they are or as they will be.
GroupEmpty(empties, n) == Cardinality(empties) = n

Init ==
  /\ slots = <<>> /\ count = 0 /\ emptyTasks = {}
  /\ flags = News(0)
  /\ branchFlag = FALSE /\ branchEmpty = FALSE /\ touched = FALSE
  /\ draining = FALSE

-----------------------------------------------------------------------------
\* Calls into the group go through TaskSwitcherBranch::input.
Input == branchFlag' = TRUE /\ touched' = TRUE /\ UNCHANGED branchEmpty

\* A new task may start with outputs to give.
NewTasks == [outs : 0..MaxOut, closing : BOOLEAN, told : {FALSE}, fed : {FALSE}]

\* add_task, from the worker's Spawn: the first vacant slot or a new one.  The
\* switcher is not told of a task in a slot that was there before.
AddTask(t) ==
  /\ ~draining /\ Input
  /\ IF \E i \in Index : At(i) = Vacant
       THEN LET i == CHOOSE j \in Index : At(j) = Vacant /\ \A k \in 0..(j - 1) : At(k) # Vacant
            IN  slots' = [slots EXCEPT ![i + 1] = t] /\ UNCHANGED flags
       ELSE /\ Len(slots) < MaxSlots
            /\ slots' = Append(slots, t)
            /\ flags' = SetLen(flags, Len(slots'))
  /\ count' = count + 1
  /\ UNCHANGED <<emptyTasks, draining>>

\* set_task: pads the slots up to the index, and replaces what is there.
SetTask(i, t) ==
  /\ ~draining /\ Input
  /\ Careful => i \notin Occupied
  /\ ~Careful => count <= MaxSlots
  /\ slots' = [k \in 1..(IF i < Len(slots) THEN Len(slots) ELSE i + 1) |->
                 IF k = i + 1 THEN t ELSE IF k <= Len(slots) THEN slots[k] ELSE Vacant]
  /\ flags' = SetLen(flags, Len(slots'))
  /\ count' = count + 1
  /\ UNCHANGED <<emptyTasks, draining>>

\* Mutant of Trimmed: the vacant slots at the end are kept.
TrimmedNot(s) == s

\* The slots without the vacant ones at the end.
Trimmed(s) ==
  LET last == CHOOSE n \in 0..Len(s) :
                /\ \A k \in (n + 1)..Len(s) : s[k] = Vacant
                /\ n > 0 => s[n] # Vacant
  IN  SubSeq(s, 1, last)

\* Mutant of RemoveTask: the count is forgotten.
RemoveTaskUncounted(i) ==
  /\ draining /\ Input
  /\ i \in Occupied
  /\ slots' = Trimmed([slots EXCEPT ![i + 1] = Vacant])
  /\ emptyTasks' = emptyTasks \ {i}
  /\ flags' = SetLen(flags, Len(slots'))
  /\ UNCHANGED <<count, draining>>

\* Mutant of RemoveTask: the set of empty tasks is forgotten.
RemoveTaskStillEmpty(i) ==
  /\ draining /\ Input
  /\ i \in Occupied
  /\ slots' = Trimmed([slots EXCEPT ![i + 1] = Vacant])
  /\ count' = count - 1
  /\ flags' = SetLen(flags, Len(slots'))
  /\ UNCHANGED <<emptyTasks, draining>>

\* remove_task, the owner's answer to an output.
RemoveTask(i) ==
  /\ draining /\ Input
  /\ Careful => i \in Occupied
  /\ count > 0
  /\ slots' = Trimmed([slots EXCEPT ![i + 1] = Vacant])
  /\ emptyTasks' = emptyTasks \ {i}
  /\ count' = count - 1
  /\ flags' = SetLen(flags, Len(slots'))
  /\ UNCHANGED draining

\* What an input does to a task: it may add an output, close it, open it again.
Fed(t, adds, closes) ==
  [t EXCEPT !.outs = IF adds /\ @ < MaxOut THEN @ + 1 ELSE @, !.closing = closes, !.fed = TRUE]

\* on_tick and on_shutdown reach every task.
FeedAll ==
  /\ ~draining /\ Input
  /\ flags' = SetAll(flags)
  /\ \E adding \in SUBSET Occupied : \E closing \in SUBSET Occupied :
       slots' = [k \in DOMAIN slots |->
                   IF slots[k] = Vacant THEN Vacant
                   ELSE Fed(slots[k], k - 1 \in adding, k - 1 \in closing)]
  /\ UNCHANGED <<count, emptyTasks>>

\* Worker::process pops the outputs after a tick, but not after Shutdown.
OnTick == FeedAll /\ draining' = TRUE
OnShutdown == FeedAll /\ UNCHANGED draining

\* on_event, for an index the owner remembers; it ignores one that is gone.
OnEvent(i) ==
  /\ ~draining /\ Input
  /\ IF i \in Occupied
       THEN /\ flags' = SetBit(flags, i)
            /\ \E adds, closes \in BOOLEAN :
                 slots' = [slots EXCEPT ![i + 1] = Fed(@, adds, closes)]
       ELSE UNCHANGED <<flags, slots>>
  /\ draining' = TRUE
  /\ UNCHANGED <<count, emptyTasks>>

-----------------------------------------------------------------------------
\* pop_output.  A flagged task has something to say when it holds an output or
\* has become empty and that was not announced.
HasNews(i) ==
  At(i) # Vacant /\ (At(i).outs > 0 \/ (~At(i).told /\ TaskEmpty(At(i))))

\* The loop of TaskGroup::pop_output finishes the flagged indices before the
\* first with news, and takes back an announcement that no longer holds.
Passed ==
  {i \in Visible(flags) : \A j \in Visible(flags) : j <= i => ~HasNews(j)}

TakenBack == {i \in Passed \cap Occupied : At(i).told /\ ~TaskEmpty(At(i))}

\* Mutant of FlagsAfterPass: the flags behind the task with news are dropped too.
FlagsAfterPassAll == ClearBits(flags, Visible(flags))

FlagsAfterPass == ClearBits(flags, Passed)
EmptyAfterPass == emptyTasks \ TakenBack
SlotsAfterPass ==
  [k \in DOMAIN slots |->
     IF k - 1 \in TakenBack THEN [slots[k] EXCEPT !.told = FALSE] ELSE slots[k]]

\* A task gives out an output (and may close, or open again, in doing so).
PopTaskOutput(i) ==
  /\ At(i).outs > 0
  /\ \E closing \in BOOLEAN :
       slots' = [SlotsAfterPass EXCEPT ![i + 1].outs = @ - 1, ![i + 1].closing = closing]
  /\ emptyTasks' = EmptyAfterPass

\* A task is announced empty.
PopTaskEmpty(i) ==
  /\ At(i).outs = 0
  /\ slots' = [SlotsAfterPass EXCEPT ![i + 1].told = TRUE]
  /\ emptyTasks' = EmptyAfterPass \cup {i}

\* The group gives something out.
PopGroup ==
  /\ draining /\ branchFlag
  /\ LET i == FirstSet(FlagsAfterPass)
     IN  i # NoBit /\ (PopTaskOutput(i) \/ PopTaskEmpty(i))
  /\ flags' = FlagsAfterPass
  /\ UNCHANGED <<count, branchFlag, branchEmpty, touched, draining>>

\* Mutant of PopBranch: an announcement is never taken back.
PopBranchOnce ==
  /\ draining /\ branchFlag
  /\ FirstSet(FlagsAfterPass) = NoBit
  /\ flags' = FlagsAfterPass /\ slots' = SlotsAfterPass /\ emptyTasks' = EmptyAfterPass
  /\ branchEmpty' = (branchEmpty \/ GroupEmpty(emptyTasks', count))
  /\ branchFlag' = (~branchEmpty /\ branchEmpty')
  /\ UNCHANGED <<count, touched, draining>>

\* Mutant of PopBranch: the announcement is not remembered.
PopBranchAgain ==
  /\ draining /\ branchFlag
  /\ FirstSet(FlagsAfterPass) = NoBit
  /\ flags' = FlagsAfterPass /\ slots' = SlotsAfterPass /\ emptyTasks' = EmptyAfterPass
  /\ branchFlag' = GroupEmpty(emptyTasks', count)
  /\ UNCHANGED <<count, branchEmpty, touched, draining>>

\* It has nothing: TaskSwitcherBranch::pop_output announces an empty group, or
\* finishes the branch.
PopBranch ==
  /\ draining /\ branchFlag
  /\ FirstSet(FlagsAfterPass) = NoBit
  /\ flags' = FlagsAfterPass /\ slots' = SlotsAfterPass /\ emptyTasks' = EmptyAfterPass
  /\ branchEmpty' = GroupEmpty(emptyTasks', count)
  /\ branchFlag' = (~branchEmpty /\ branchEmpty')
  /\ UNCHANGED <<count, touched, draining>>

\* The inner's switcher has no flag left: its pop_output answers None and
\* pop_inner is done.
EndDrain ==
  /\ draining /\ ~branchFlag
  /\ draining' = FALSE
  /\ UNCHANGED <<slots, count, emptyTasks, flags, branchFlag, branchEmpty, touched>>

Pop == PopGroup \/ PopBranch \/ EndDrain

Next ==
  \/ \E t \in NewTasks : AddTask(t) \/ \E i \in 0..(MaxSlots - 1) : SetTask(i, t)
  \/ \E i \in Index : RemoveTask(i)
  \/ \E i \in 0..(MaxSlots - 1) : OnEvent(i)
  \/ OnTick \/ OnShutdown
  \/ Pop

\* pop_inner is a loop of the worker's own thread.
Spec == Init /\ [][Next]_vars /\ WF_vars(Pop)

-----------------------------------------------------------------------------
\* Type invariant: what each variable holds, no vacant slot at the end, and
\* a switcher as long as the slots (or flagging a task would panic).
TypeOK ==
  /\ slots \in Seq(Container \cup {Vacant}) /\ Len(slots) <= MaxSlots
  /\ slots # <<>> => slots[Len(slots)] # Vacant
  /\ count \in Nat
  /\ emptyTasks \subseteq Index
  /\ flags \in BitVecs /\ flags.set \subseteq Room(flags) /\ flags.len = Len(slots)
  /\ flags.len <= flags.bytes * ByteBits
  /\ {branchFlag, branchEmpty, touched, draining} \subseteq BOOLEAN

\* tasks() tells how many tasks the group has.  The count is kept apart from
\* the slots; the worker's load and the end of the program depend on it.
CountIsTasks == count = Cardinality(Occupied)

\* The set of empty tasks, also kept apart, holds those announced empty:
\* is_empty compares its size with the count.
EmptySetExact == emptyTasks = {i \in Occupied : At(i).told}

\* Nothing is forgotten: a task that has had input and is not flagged holds no
\* output, and has been announced empty if and only if it is; a flagged one is
\* in a flagged branch.  Slots and indices are reused, flags are left behind
\* by tasks that have gone.
NothingForgotten ==
  \A i \in Occupied : At(i).fed =>
    IF i \in Visible(flags) THEN branchFlag
    ELSE At(i).outs = 0 /\ (At(i).told <=> TaskEmpty(At(i)))

\* A branch with nothing to say has announced that its group is empty if and
\* only if it is.
BranchKnowsEmpty ==
  touched /\ ~branchFlag => (branchEmpty <=> GroupEmpty(emptyTasks, count))

\* The worker gets out of pop_inner: neither the outputs nor the announcements
\* of empty tasks and groups go on for ever.
DrainEnds == draining ~> ~draining

\* Outputs are popped before the next input: whenever the worker is not
\* popping, no task that has had input holds an output.
PoppedBeforeInput ==
  ~draining => \A i \in Occupied : At(i).fed => At(i).outs = 0
=============================================================================

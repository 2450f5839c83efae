------------------------------- MODULE Sockets -------------------------------
(***************************************************************************)
(* The socket tables of the two backends (backend/polling.rs and           *)
(* backend/poll.rs) between the worker that owns them and the network.     *)
(*                                                                         *)
(* Sockets live in slots that are used again.  The polling backend waits   *)
(* for the poller (external: level-triggered, one report per readable      *)
(* socket) and keeps the slots it reports as tokens; the poll backend      *)
(* tries every slot in turn.  Both first hand out what waits in their      *)
(* output queue.  The worker calls poll_incoming once a cycle and then     *)
(* pop_incoming until it answers None; whatever handles an event, or runs  *)
(* before the cycle's poll, may open and close sockets.                    *)
(*                                                                         *)
(* Sending a packet changes nothing here, and who owns a socket is stored  *)
(* with it and read with it, so neither is in the model.                   *)
(***************************************************************************)
EXTENDS Naturals, Sequences, FiniteSets

CONSTANTS Kinds,      \* of sockets: "udp", "tun", and "mute", a tun that
                      \* is not to be read (fd.read)
          Vacant,     \* a slot without a socket
          Waker,      \* the polling backend's slot 0
          Backends,   \* TRUE for the polling backend, FALSE for the poll one
          MaxOpen,    \* bound of the model: names of sockets, used again
          MaxOutput,  \* bound of the model: output that failures fill
          MaxWaiting  \* bound of the model: packets the system keeps per socket

ASSUME KindsAssumption == Kinds \subseteq {"udp", "tun", "mute"}
ASSUME BackendsAssumption == Backends \subseteq BOOLEAN
ASSUME BoundsAssumption == MaxOpen \in Nat /\ MaxOutput \in Nat /\ MaxWaiting \in Nat

VARIABLES polling,  \* which backend this is
          sockets,  \* the slots
          waiting,  \* how many packets wait in each socket
          output,   \* the output queue
          tokens,   \* event_buffer2
          phase,    \* "work" before the poll, "pop" in pop_incoming, "handle"
                    \* an event it answered with
          scan,     \* last_poll_socket in the loop of the poll backend
          given,    \* the event handed out last
          known     \* the sockets whose slot has been handed out

vars == <<polling, sockets, waiting, output, tokens, phase, scan, given, known>>

Socket == [id : 1..MaxOpen, kind : Kinds]

ASSUME SlotAssumption == Vacant # Waker /\ Vacant \notin Socket /\ Waker \notin Socket

Nothing == [kind |-> "nothing", id |-> 0]
Awake == [kind |-> "awake", id |-> 0]
Result(id) == [kind |-> "result", id |-> id]   \* UdpListenResult, TunBindResult
Failure == [kind |-> "failure", id |-> 0]      \* UdpListenResult with an error
Packet(id) == [kind |-> "packet", id |-> id]

\* Slots count from 0.
Slots == 0..(Len(sockets) - 1)
At(slot) == sockets[slot + 1]
IsSocket(s) == s \notin {Vacant, Waker}
Taken == {slot \in Slots : IsSocket(At(slot))}
IsUdp(slot) == slot \in Taken /\ At(slot).kind = "udp"
Open(id) == \E slot \in Taken : At(slot).id = id

\* What the poller watches or the poll backend reads.
Reads(slot) == slot \in Taken /\ At(slot).kind # "mute"
Readable(slot) == Reads(slot) /\ waiting[At(slot).id] > 0

Init ==
  /\ polling \in Backends
  /\ sockets = IF polling THEN <<Waker>> ELSE <<>>
  /\ waiting = [id \in 1..MaxOpen |-> 0]
  /\ output = <<>> /\ tokens = <<>>
  /\ phase = "work" /\ scan = 0
  /\ given = Nothing /\ known = {}

-----------------------------------------------------------------------------
\* on_action, called by the worker for its inner's outputs.
Acts == phase \in {"work", "handle"}

\* Mutant of SelectSlot: the first slot that holds no socket.
SelectSlotWaker ==
  IF \E i \in Slots : ~IsSocket(At(i))
    THEN CHOOSE i \in Slots : ~IsSocket(At(i)) /\ \A k \in 0..(i - 1) : IsSocket(At(k))
    ELSE Len(sockets)

\* select_slot: the first vacant slot, or a new one.
SelectSlot ==
  IF \E i \in Slots : At(i) = Vacant
    THEN CHOOSE i \in Slots : At(i) = Vacant /\ \A k \in 0..(i - 1) : At(k) # Vacant
    ELSE Len(sockets)

WithSlot(s) ==
  IF SelectSlot = Len(sockets) THEN Append(sockets, s) ELSE [sockets EXCEPT ![SelectSlot + 1] = s]

\* The new socket gets a slot, and its owner an answer.  The model names it by
\* a name that is free: programs open and close sockets without end.
Bind(kind) ==
  /\ Acts
  /\ \E id \in 1..MaxOpen :
       /\ ~Open(id) /\ id # given.id
       /\ sockets' = WithSlot([id |-> id, kind |-> kind])
       /\ output' = Append(output, Result(id))
       /\ known' = known \ {id}
  /\ UNCHANGED <<polling, waiting, tokens, phase, scan, given>>

UdpListen == "udp" \in Kinds /\ Bind("udp")

TunBind == \E kind \in Kinds \ {"udp"} : Bind(kind)

\* UdpListen, when the socket cannot be created or bound.
ListenFails ==
  /\ Acts /\ Len(output) < MaxOutput /\ "udp" \in Kinds
  /\ output' = Append(output, Failure)
  /\ UNCHANGED <<polling, sockets, waiting, tokens, phase, scan, given, known>>

\* The poller refuses the socket: the slot stays vacant, and nothing is answered.
RegisterFails ==
  /\ Acts /\ polling /\ Kinds # {"mute"}
  /\ sockets' = WithSlot(Vacant)
  /\ UNCHANGED <<polling, waiting, output, tokens, phase, scan, given, known>>

\* A socket is closed, by who has been told the slot, with what waits in it.
Close(slot) ==
  /\ Acts /\ slot \in Taken /\ At(slot).id \in known
  /\ sockets' = [sockets EXCEPT ![slot + 1] = Vacant]
  /\ waiting' = [waiting EXCEPT ![At(slot).id] = 0]
  /\ UNCHANGED <<polling, output, tokens, phase, scan, given, known>>

UdpUnlisten(slot) == IsUdp(slot) /\ Close(slot)

TunUnbind(slot) == ~IsUdp(slot) /\ Close(slot)

\* A packet comes in from the network.
Arrive(slot) ==
  /\ slot \in Taken /\ waiting[At(slot).id] < MaxWaiting
  /\ waiting' = [waiting EXCEPT ![At(slot).id] = @ + 1]
  /\ UNCHANGED <<polling, sockets, output, tokens, phase, scan, given, known>>

-----------------------------------------------------------------------------
\* poll_incoming.  The poller reports the readable sockets in some order; the
\* token of the Awake event comes first, when the flag was up (module BusLeg).
Orders(S) ==
  {s \in [1..Cardinality(S) -> S] : \A i, j \in DOMAIN s : s[i] = s[j] => i = j}

Wait ==
  /\ phase = "work" /\ polling
  /\ \E awake \in {<<>>, <<0>>}, order \in Orders({slot \in Slots : Readable(slot)}) :
       tokens' = tokens \o awake \o order
  /\ phase' = "pop"
  /\ UNCHANGED <<polling, sockets, waiting, output, scan, given, known>>

WaitFails ==
  /\ phase = "work" /\ polling
  /\ phase' = "pop"
  /\ UNCHANGED <<polling, sockets, waiting, output, tokens, scan, given, known>>

Sleep ==
  /\ phase = "work" /\ ~polling
  /\ output' = IF output = <<>> THEN <<Awake>> ELSE output
  /\ phase' = "pop"
  /\ UNCHANGED <<polling, sockets, waiting, tokens, scan, given, known>>

-----------------------------------------------------------------------------
\* pop_incoming.
HandOut(event) == given' = event /\ phase' = "handle"

\* Both backends first look into their output.
PopOutput ==
  /\ phase = "pop" /\ output # <<>>
  /\ HandOut(Head(output))
  /\ output' = Tail(output)
  /\ known' = IF Head(output).kind = "result" THEN known \cup {Head(output).id} ELSE known
  /\ UNCHANGED <<polling, sockets, waiting, tokens, scan>>

\* Mutant of OutputDone: the output is not looked at first.
OutputIgnored == phase = "pop"

OutputDone == phase = "pop" /\ output = <<>>

\* One packet is read from the socket of a slot.
Read(slot) ==
  /\ Readable(slot)
  /\ waiting' = [waiting EXCEPT ![At(slot).id] = @ - 1]
  /\ HandOut(Packet(At(slot).id))

\* The polling backend takes one token after the other.
NextToken == OutputDone /\ polling /\ tokens # <<>>

PopWaker ==
  /\ NextToken /\ Head(tokens) \in Slots /\ At(Head(tokens)) = Waker
  /\ HandOut(Awake)
  /\ tokens' = Tail(tokens)
  /\ UNCHANGED <<polling, sockets, waiting, output, scan, known>>

\* Mutant of PopUdp: the token of the next socket goes, too.
PopUdpTwo ==
  /\ NextToken /\ IsUdp(Head(tokens)) /\ Read(Head(tokens))
  /\ tokens' = SubSeq(tokens, 3, Len(tokens))
  /\ UNCHANGED <<polling, sockets, output, scan, known>>

\* Mutant of PopUdp: the token stays.
PopUdpLeft ==
  /\ NextToken /\ IsUdp(Head(tokens)) /\ Read(Head(tokens))
  /\ UNCHANGED <<polling, sockets, output, tokens, scan, known>>

PopUdp ==
  /\ NextToken /\ IsUdp(Head(tokens)) /\ Read(Head(tokens))
  /\ tokens' = Tail(tokens)
  /\ UNCHANGED <<polling, sockets, output, scan, known>>

\* A udp socket that has nothing (the slot has been used again since): its
\* token is dropped twice, and with it the next one.
PopUdpEmpty ==
  /\ NextToken /\ IsUdp(Head(tokens)) /\ ~Readable(Head(tokens))
  /\ tokens' = SubSeq(tokens, 3, Len(tokens))
  /\ UNCHANGED <<polling, sockets, waiting, output, phase, scan, given, known>>

\* The token of a tun stays until there is nothing to read.
PopTun ==
  /\ NextToken /\ ~IsUdp(Head(tokens)) /\ Read(Head(tokens))
  /\ UNCHANGED <<polling, sockets, output, tokens, scan, known>>

\* The token of a tun with nothing to read, or of no socket.
PopUseless ==
  /\ NextToken
  /\ LET slot == Head(tokens)
     IN  ~IsUdp(slot) /\ ~Readable(slot) /\ (slot \in Slots => At(slot) # Waker)
  /\ tokens' = Tail(tokens)
  /\ UNCHANGED <<polling, sockets, waiting, output, phase, scan, given, known>>

\* Mutant of PopNone: None before the last token is taken.
PopNoneEarly ==
  /\ OutputDone /\ polling
  /\ phase' = "work"
  /\ UNCHANGED <<polling, sockets, waiting, output, tokens, scan, given, known>>

PopNone ==
  /\ OutputDone /\ polling /\ tokens = <<>>
  /\ phase' = "work"
  /\ UNCHANGED <<polling, sockets, waiting, output, tokens, scan, given, known>>

\* The poll backend tries the slots from the first one on, at each call.
ScanRead ==
  /\ OutputDone /\ ~polling /\ Read(scan)
  /\ scan' = 0
  /\ UNCHANGED <<polling, sockets, output, tokens, known>>

ScanOn ==
  /\ OutputDone /\ ~polling /\ ~Readable(scan)
  /\ IF scan + 1 < Len(sockets)
       THEN scan' = scan + 1 /\ UNCHANGED phase
       ELSE scan' = 0 /\ phase' = "work"
  /\ UNCHANGED <<polling, sockets, waiting, output, tokens, given, known>>

\* The event is handled: the next call of pop_incoming.
Handled ==
  /\ phase = "handle"
  /\ phase' = "pop"
  /\ UNCHANGED <<polling, sockets, waiting, output, tokens, scan, given, known>>

-----------------------------------------------------------------------------
Pop ==
  \/ PopOutput \/ PopWaker \/ PopUdp \/ PopUdpEmpty \/ PopTun \/ PopUseless \/ PopNone
  \/ ScanRead \/ ScanOn

Next ==
  \/ UdpListen \/ TunBind \/ ListenFails \/ RegisterFails
  \/ \E slot \in Slots : UdpUnlisten(slot) \/ TunUnbind(slot) \/ Arrive(slot)
  \/ Wait \/ WaitFails \/ Sleep
  \/ Pop \/ Handled

Spec == Init /\ [][Next]_vars

\* The worker's thread runs, and the poller does not fail for ever.
FairSpec == Spec /\ WF_vars(Pop \/ Handled \/ Sleep) /\ SF_vars(Wait)

-----------------------------------------------------------------------------
Event == {Nothing, Awake, Failure} \cup {Result(i) : i \in 1..MaxOpen} \cup {Packet(i) : i \in 1..MaxOpen}

\* Type invariant: what each variable holds, the waker in its slot, and no
\* socket in two slots.
TypeOK ==
  /\ polling \in BOOLEAN
  /\ sockets \in Seq(Socket \cup {Vacant, Waker})
  /\ \A i \in Slots : At(i) = Waker <=> polling /\ i = 0
  /\ polling => sockets # <<>>
  /\ \A i, j \in Taken : At(i).id = At(j).id => i = j
  /\ waiting \in [1..MaxOpen -> 0..MaxWaiting]
  /\ output \in Seq(Event) /\ tokens \in Seq(Nat)
  /\ phase \in {"work", "pop", "handle"} /\ scan \in Nat
  /\ given \in Event /\ known \subseteq 1..MaxOpen

\* An owner is told the slot of a socket before it gets a packet from it.
AnsweredFirst == given.kind = "packet" => given.id \in known

\* There is never more than one token for a slot, so the token queue, which
\* panics when its 512 places are taken, has room for as many sockets but one.
\* It must be empty whenever the poller is asked again.
TokensFit == Len(tokens) <= Len(sockets)

TunOpen == \E slot \in Taken : At(slot).kind = "tun"

\* A handler of an event asks for another socket.
HandlerOpens == phase = "handle" /\ (UdpListen \/ TunBind \/ ListenFails)

\* With the polling backend pop_incoming answers None in the end, so that the
\* worker gets to its control messages and ticks, however many packets come
\* in and however sockets are opened before the poll, unless a tun is open or
\* handlers of events open sockets again and again: each is answered with
\* another event of the same cycle.
CycleEnds ==
  \/ []<><<HandlerOpens>>_vars
  \/ polling /\ phase # "work" ~> phase = "work" \/ TunOpen

\* With the polling backend no socket starves another one: one with a packet
\* waiting has one handed out in the end, though sockets are closed while
\* their tokens wait and opened again before every poll.  Two programs are
\* left out, as the code does not serve them: a tun that is open keeps its
\* token while there is anything to read; and where handlers of events open
\* sockets again and again, the token that a slot's last socket left, taken
\* twice by PopUdpEmpty, may cost the same neighbour its own in every cycle.
PacketServed ==
  \/ []<><<HandlerOpens>>_vars
  \/ \A id \in 1..MaxOpen :
       polling /\ (\E slot \in Slots : Readable(slot) /\ At(slot).id = id)
         ~> (given = Packet(id) /\ phase = "handle") \/ ~Open(id) \/ TunOpen
=============================================================================

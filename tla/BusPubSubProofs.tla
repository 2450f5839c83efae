-------------------------- MODULE BusPubSubProofs --------------------------
(***************************************************************************)
(* For any number of workers, owners, channels and messages: the hubs of   *)
(* the workers and the channels of the bus agree, and every owner gets     *)
(* each publisher's messages in order and once.                            *)
(***************************************************************************)
EXTENDS BusPubSub, SequenceTheorems, TLAPS

\* The two tables and the calls that change them are what they should be.
TableTypes ==
  /\ hub \in [WorkerId -> [Channel -> Seq(Owner)]]
  /\ channels \in [Channel -> Seq(WorkerId)]
  /\ change \in [WorkerId -> Changes]

\* The vectors are sets: nobody is listed twice.
TableSets ==
  /\ \A w \in WorkerId, c \in Channel : NoRepeats(hub[w][c])
  /\ \A c \in Channel : NoRepeats(channels[c])

\* How one worker's hub and the legs of one channel stand to each other, by
\* what the worker is about to do: ch is its change, os its owners, ws the legs.
Stand(ch, w, c, os, ws) ==
  IF ch = <<"subscribe", c>> THEN os # <<>> /\ w \notin Members(ws)
  ELSE IF ch = <<"unsubscribe", c>> THEN os = <<>> /\ w \in Members(ws)
  ELSE w \in Members(ws) <=> os # <<>>

Agree ==
  \A w \in WorkerId, c \in Channel : Stand(change[w], w, c, hub[w][c], channels[c])

TableInv == TableTypes /\ TableSets /\ Agree

-----------------------------------------------------------------------------
\* A push of somebody new keeps a list free of repeats and adds that one.
LEMMA AppendNew ==
  ASSUME NEW S, NEW s \in Seq(S), NEW e \in S, e \notin Members(s), NoRepeats(s)
  PROVE  /\ Append(s, e) \in Seq(S)
         /\ Append(s, e) # <<>>
         /\ NoRepeats(Append(s, e))
         /\ Members(Append(s, e)) = Members(s) \cup {e}
<1>1. /\ Append(s, e) \in Seq(S)
      /\ Len(Append(s, e)) = Len(s) + 1
      /\ \A i \in 1..Len(s) : Append(s, e)[i] = s[i]
      /\ Append(s, e)[Len(s) + 1] = e
      /\ DOMAIN s = 1..Len(s) /\ Len(s) \in Nat
      /\ DOMAIN Append(s, e) = 1..(Len(s) + 1)
  OBVIOUS
<1>2. NoRepeats(Append(s, e))
  BY <1>1 DEF NoRepeats, Members
<1>3. Members(Append(s, e)) = Members(s) \cup {e}
  BY <1>1 DEF Members
<1> QED BY <1>1, <1>2, <1>3

\* swap_remove takes out exactly the one it is given.
LEMMA SwapRemoveTakesOut ==
  ASSUME NEW S, NEW s \in Seq(S), NEW e, e \in Members(s), NoRepeats(s)
  PROVE  /\ SwapRemove(s, e) \in Seq(S)
         /\ NoRepeats(SwapRemove(s, e))
         /\ Members(SwapRemove(s, e)) = Members(s) \ {e}
         /\ SwapRemove(s, e) = <<>> <=> Len(s) = 1
<1> DEFINE n == Len(s)
           r == SwapRemove(s, e)
<1>1. PICK k \in 1..n : s[k] = e
  BY DEF Members
<1>2. n \in Nat \ {0} /\ DOMAIN s = 1..n /\ \A i \in 1..n : s[i] \in S
  BY <1>1
<1>3. \A i \in 1..n : s[i] = e <=> i = k
  BY <1>1, <1>2 DEF NoRepeats
<1>4. r = [i \in 1..(n - 1) |-> IF i = k THEN s[n] ELSE s[i]]
  BY <1>2, <1>3 DEF SwapRemove
<1>5. r \in Seq(S) /\ Len(r) = n - 1 /\ DOMAIN r = 1..(n - 1)
  BY <1>2, <1>4
<1>10. Members(r) = {r[i] : i \in 1..(n - 1)}
  BY <1>5 DEF Members
<1>11. Members(s) = {s[i] : i \in 1..n}
  BY <1>2 DEF Members
<1> HIDE DEF r, n
<1>6. NoRepeats(r)
  BY <1>2, <1>4, <1>5 DEF NoRepeats
<1>7. ASSUME NEW x \in Members(r) PROVE x \in Members(s) \ {e}
  <2>1. PICK i \in 1..(n - 1) : r[i] = x
    BY <1>10
  <2>2. x = IF i = k THEN s[n] ELSE s[i]
    BY <1>4, <2>1
  <2>3. CASE i = k
    <3>1. n \in 1..n /\ n # k
      BY <1>2, <2>1, <2>3
    <3> QED BY <1>2, <1>3, <1>11, <2>2, <2>3, <3>1
  <2>4. CASE i # k
    BY <1>2, <1>3, <1>11, <2>2, <2>4
  <2> QED BY <2>3, <2>4
<1>8. ASSUME NEW x \in Members(s) \ {e} PROVE x \in Members(r)
  <2>1. PICK i \in 1..n : s[i] = x /\ i # k
    BY <1>1, <1>2, <1>11
  <2>2. CASE i = n
    <3>1. k \in 1..(n - 1) /\ r[k] = x
      BY <1>2, <1>4, <2>1, <2>2
    <3> QED BY <3>1, <1>10
  <2>3. CASE i # n
    <3>1. i \in 1..(n - 1) /\ r[i] = x
      BY <1>2, <1>4, <2>1, <2>3
    <3> QED BY <3>1, <1>10
  <2> QED BY <2>2, <2>3
<1>9. r = <<>> <=> n = 1
  BY <1>2, <1>5
<1> QED BY <1>5, <1>6, <1>7, <1>8, <1>9 DEF r, n

\* A list is empty exactly when it has no members.
LEMMA EmptyHasNoMembers ==
  ASSUME NEW S, NEW s \in Seq(S)
  PROVE  s = <<>> <=> Members(s) = {}
BY DEF Members

-----------------------------------------------------------------------------
LEMMA InvInit == Init => TableInv
<1> SUFFICES ASSUME Init PROVE TableInv
  OBVIOUS
<1>1. TableTypes
  BY DEF Init, TableTypes, Changes
<1>2. TableSets
  BY DEF Init, TableSets, NoRepeats
<1>3. Agree
  BY DEF Init, Agree, Stand, Members, Settled
<1> QED BY <1>1, <1>2, <1>3 DEF TableInv

\* Both changes of a hub leave the other workers and channels alone.
LEMMA HubStep ==
  ASSUME TableInv, NEW w \in WorkerId, NEW c \in Channel,
         NEW os \in Seq(Owner), NEW ch \in Changes,
         NoRepeats(os), change[w] = Settled,
         ch \in {Settled, <<"subscribe", c>>, <<"unsubscribe", c>>},
         Stand(ch, w, c, os, channels[c]),
         hub' = [hub EXCEPT ![w][c] = os], change' = [change EXCEPT ![w] = ch],
         UNCHANGED channels
  PROVE  TableInv'
<1> USE DEF TableInv
<1>1. TableTypes'
  BY DEF TableTypes
<1>2. /\ hub'[w][c] = os /\ change'[w] = ch
      /\ \A v \in WorkerId, d \in Channel : v # w \/ d # c => hub'[v][d] = hub[v][d]
      /\ \A v \in WorkerId : v # w => change'[v] = change[v]
  BY DEF TableTypes
<1>3. TableSets'
  BY <1>2 DEF TableSets
<1>4. ASSUME NEW v \in WorkerId, NEW d \in Channel
      PROVE  Stand(change'[v], v, d, hub'[v][d], channels'[d])
  <2>1. Stand(change[v], v, d, hub[v][d], channels[d])
    BY DEF Agree
  <2>2. CASE v = w /\ d = c
    BY <1>2, <2>2
  <2>3. CASE v # w
    BY <1>2, <2>1, <2>3
  <2>4. CASE v = w /\ d # c
    BY <1>2, <2>1, <2>4 DEF Stand, Settled
  <2> QED BY <2>2, <2>3, <2>4
<1> QED BY <1>1, <1>3, <1>4 DEF Agree

\* Both changes of the channels concern one worker's entry under one channel.
LEMMA ChannelStep ==
  ASSUME TableInv, NEW w \in WorkerId, NEW c \in Channel, NEW ws \in Seq(WorkerId),
         NoRepeats(ws),
         change[w] \in {<<"subscribe", c>>, <<"unsubscribe", c>>},
         \A v \in WorkerId \ {w} : v \in Members(ws) <=> v \in Members(channels[c]),
         w \in Members(ws) <=> hub[w][c] # <<>>,
         channels' = [channels EXCEPT ![c] = ws],
         change' = [change EXCEPT ![w] = Settled],
         UNCHANGED hub
  PROVE  TableInv'
<1> USE DEF TableInv
<1>1. TableTypes'
  BY DEF TableTypes, Changes
<1>2. /\ channels'[c] = ws /\ change'[w] = Settled
      /\ \A d \in Channel : d # c => channels'[d] = channels[d]
      /\ \A v \in WorkerId : v # w => change'[v] = change[v]
  BY DEF TableTypes
<1>3. TableSets'
  BY <1>2 DEF TableSets
<1>4. ASSUME NEW v \in WorkerId, NEW d \in Channel
      PROVE  Stand(change'[v], v, d, hub'[v][d], channels'[d])
  <2>1. Stand(change[v], v, d, hub[v][d], channels[d])
    BY DEF Agree
  <2>2. CASE v = w /\ d = c
    BY <1>2, <2>2 DEF Stand, Settled
  <2>3. CASE v # w
    BY <1>2, <2>1, <2>3 DEF Stand
  <2>4. CASE v = w /\ d # c
    BY <1>2, <2>1, <2>4 DEF Stand, Settled
  <2> QED BY <2>2, <2>3, <2>4
<1> QED BY <1>1, <1>3, <1>4 DEF Agree

-----------------------------------------------------------------------------
LEMMA InvStep == TableInv /\ [Next]_vars => TableInv'
<1> SUFFICES ASSUME TableInv, [Next]_vars PROVE TableInv'
  OBVIOUS
<1>1. /\ \A w \in WorkerId, c \in Channel : hub[w][c] \in Seq(Owner) /\ NoRepeats(hub[w][c])
      /\ \A c \in Channel : channels[c] \in Seq(WorkerId) /\ NoRepeats(channels[c])
      /\ \A w \in WorkerId, c \in Channel : Stand(change[w], w, c, hub[w][c], channels[c])
  BY DEF TableInv, TableTypes, TableSets, Agree
<1>2. ASSUME NEW w \in WorkerId, NEW o \in Tasks[w], NEW c \in Channel, Subscribe(w, o, c)
      PROVE  TableInv'
  <2> DEFINE os == Append(hub[w][c], o)
             ch == IF hub[w][c] = <<>> THEN <<"subscribe", c>> ELSE Settled
  <2>1. o \in Owner /\ change[w] = Settled
    BY <1>2, OwnerAssumption DEF Subscribe, AtWork
  <2>2. os \in Seq(Owner) /\ NoRepeats(os) /\ os # <<>>
    BY <1>1, <1>2, <2>1, AppendNew DEF Subscribe
  <2>3. w \in Members(channels[c]) <=> hub[w][c] # <<>>
    BY <1>1, <2>1 DEF Stand, Settled
  <2>4. Stand(ch, w, c, os, channels[c])
    BY <2>2, <2>3 DEF Stand, Settled
  <2>5. ch \in Changes
    BY DEF Changes
  <2> QED BY <1>2, <2>1, <2>2, <2>4, <2>5, HubStep DEF Subscribe
<1>3. ASSUME NEW w \in WorkerId, NEW o \in Tasks[w], NEW c \in Channel, Unsubscribe(w, o, c)
      PROVE  TableInv'
  <2> DEFINE os == SwapRemove(hub[w][c], o)
             ch == IF Len(hub[w][c]) = 1 THEN <<"unsubscribe", c>> ELSE Settled
  <2>1. change[w] = Settled /\ o \in Members(hub[w][c])
    BY <1>3 DEF Unsubscribe, AtWork
  <2>2. os \in Seq(Owner) /\ NoRepeats(os) /\ (os = <<>> <=> Len(hub[w][c]) = 1)
    BY <1>1, <2>1, SwapRemoveTakesOut
  <2>3. hub[w][c] # <<>> /\ w \in Members(channels[c])
    BY <1>1, <2>1, EmptyHasNoMembers DEF Stand, Settled
  <2>4. Stand(ch, w, c, os, channels[c])
    BY <2>2, <2>3 DEF Stand, Settled
  <2>5. ch \in Changes
    BY DEF Changes
  <2> QED BY <1>3, <2>1, <2>2, <2>4, <2>5, HubStep DEF Unsubscribe
<1>4. ASSUME NEW w \in WorkerId, NEW c \in Channel, JoinChannel(w, c)
      PROVE  TableInv'
  <2>1. change[w] = <<"subscribe", c>> /\ hub[w][c] # <<>> /\ w \notin Members(channels[c])
    BY <1>1, <1>4 DEF JoinChannel, Stand
  <2> DEFINE ws == Append(channels[c], w)
  <2>2. ws \in Seq(WorkerId) /\ NoRepeats(ws) /\ Members(ws) = Members(channels[c]) \cup {w}
    BY <1>1, <2>1, AppendNew
  <2>3. channels' = [channels EXCEPT ![c] = ws]
    BY <1>4, <2>1 DEF JoinChannel
  <2> QED BY <1>4, <2>1, <2>2, <2>3, ChannelStep DEF JoinChannel
<1>5. ASSUME NEW w \in WorkerId, NEW c \in Channel, LeaveChannel(w, c)
      PROVE  TableInv'
  <2>1. change[w] = <<"unsubscribe", c>> /\ hub[w][c] = <<>> /\ w \in Members(channels[c])
    BY <1>1, <1>5 DEF LeaveChannel, Stand
  <2> DEFINE ws == SwapRemove(channels[c], w)
  <2>2. ws \in Seq(WorkerId) /\ NoRepeats(ws) /\ Members(ws) = Members(channels[c]) \ {w}
    BY <1>1, <2>1, SwapRemoveTakesOut
  <2>3. channels' = [channels EXCEPT ![c] = ws]
    BY <1>5, <2>1 DEF LeaveChannel
  <2> QED BY <1>5, <2>1, <2>2, <2>3, ChannelStep DEF LeaveChannel
<1>6. ASSUME UNCHANGED <<hub, channels, change>> PROVE TableInv'
  BY <1>6 DEF TableInv, TableTypes, TableSets, Agree
<1>7. ASSUME NEW w \in WorkerId,
             \/ NewWorker(w) \/ SetAwaker(w) \/ SendToLeg(w) \/ Receive(w) \/ HandOver(w)
             \/ \E to \in Channel \cup {Everyone}, safe \in BOOLEAN : StartSend(w, to, safe)
      PROVE  UNCHANGED <<hub, channels, change>>
  BY <1>7 DEF NewWorker, SetAwaker, SendToLeg, Receive, HandOver, StartSend
<1> QED BY <1>2, <1>3, <1>4, <1>5, <1>6, <1>7 DEF Next, ChangeChannel, vars

\* In every behaviour, for any workers, owners and channels, a worker's leg is
\* listed under a channel exactly when its hub has an owner for it, except
\* inside the call that is about to make it so.
THEOREM TablesAgree == Spec => []HubMatchesChannels
<1>1. TableInv => HubMatchesChannels
  BY DEF TableInv, Agree, Stand, HubMatchesChannels
<1> QED BY <1>1, InvInit, InvStep, PTL DEF Spec

-----------------------------------------------------------------------------
\* The order of the messages.
Receiver == Owner \cup {Inner}

\* What the owners of one worker have got.
Item == [from : WorkerId, id : 1..MaxPublish]
Got == [Receiver -> Seq(Item)]

\* What the variables of the messages hold.
MessageTypes ==
  /\ legs \in Seq(WorkerId) /\ NoRepeats(legs)
  /\ queue \in [WorkerId -> Seq(Message)]
  /\ published \in 0..MaxPublish
  /\ sending \in [WorkerId -> Rounds(WorkerId)]
  /\ fanout \in [WorkerId -> Rounds(Receiver)]
  /\ got \in [WorkerId -> Got]

\* In a queue q, in a round f, among all that was handed out (g) and among what
\* one owner has got (h): the messages of publisher p are numbered below n.
QueuedBelow(q, p, n) == \A i \in DOMAIN q : q[i].from = p => q[i].id < n
InHandBelow(f, p, n) == f.todo # <<>> /\ f.msg.from = p => f.msg.id < n
OneGotBelow(h, p, n) == \A i \in DOMAIN h : h[i].from = p => h[i].id < n
GotBelow(g, p, n) == \A o \in Receiver : OneGotBelow(g[o], p, n)

\* All that p has sent to one leg, wherever it is by now.
Below(q, f, g, p, n) == QueuedBelow(q, p, n) /\ InHandBelow(f, p, n) /\ GotBelow(g, p, n)

\* A publisher sends its own messages, to each leg once, and what it is sending
\* is newer than all it has sent to the legs that are still to get it.
RoundNewest(p, r, last) ==
  r.todo # <<>> =>
    /\ r.msg.from = p /\ r.msg.id <= last
    /\ NoRepeats(r.todo)
    /\ \A d \in Members(r.todo) : Below(queue[d], fanout[d], got[d], p, r.msg.id)
SendingNewest ==
  /\ \A d, p \in WorkerId : Below(queue[d], fanout[d], got[d], p, published + 1)
  /\ \A p \in WorkerId : RoundNewest(p, sending[p], published)

\* The queue of a leg is in order, behind what the worker has in hand and what
\* the owners have got.
InOrder(q) ==
  \A i, j \in DOMAIN q : i < j /\ q[i].from = q[j].from => q[i].id < q[j].id
Behind(q, f, g) ==
  \A i \in DOMAIN q : InHandBelow(f, q[i].from, q[i].id) /\ GotBelow(g, q[i].from, q[i].id)

\* The message in hand is newer than all that those who are still to get it have
\* got, and nobody gets it twice.
InHandNewest(f, g) ==
  f.todo # <<>> =>
    /\ NoRepeats(f.todo)
    /\ \A o \in Members(f.todo) : OneGotBelow(g[o], f.msg.from, f.msg.id)

\* One worker's leg, hand and owners.
LegInOrder(q, f, g) ==
  /\ InOrder(q) /\ Behind(q, f, g) /\ InHandNewest(f, g)
  /\ \A o \in Receiver : InOrder(g[o])

LegsInOrder == \A d \in WorkerId : LegInOrder(queue[d], fanout[d], got[d])

OrderInv == MessageTypes /\ SendingNewest /\ LegsInOrder

-----------------------------------------------------------------------------
\* The rest of a list without repeats: its head does not come again.
LEMMA TailOfSet ==
  ASSUME NEW S, NEW s \in Seq(S), s # <<>>, NoRepeats(s)
  PROVE  /\ Head(s) \in S /\ Head(s) \in Members(s)
         /\ Tail(s) \in Seq(S) /\ NoRepeats(Tail(s))
         /\ Members(Tail(s)) \subseteq Members(s) \ {Head(s)}
<1>1. /\ Len(s) \in Nat \ {0} /\ DOMAIN s = 1..Len(s) /\ Head(s) = s[1] /\ s[1] \in S
      /\ Tail(s) \in Seq(S) /\ DOMAIN Tail(s) = 1..(Len(s) - 1)
      /\ \A i \in 1..(Len(s) - 1) : Tail(s)[i] = s[i + 1]
  OBVIOUS
<1>2. \A i \in 1..(Len(s) - 1) : i \in Int /\ i + 1 \in 1..Len(s) /\ 1 \in 1..Len(s) /\ i + 1 # 1
  BY <1>1
<1>3. NoRepeats(Tail(s))
  BY <1>1, <1>2 DEF NoRepeats
<1>4. ASSUME NEW x \in Members(Tail(s)) PROVE x \in Members(s) \ {Head(s)}
  <2>1. PICK i \in 1..(Len(s) - 1) : x = s[i + 1]
    BY <1>1 DEF Members
  <2> QED BY <1>1, <1>2, <2>1 DEF Members, NoRepeats
<1>5. Head(s) \in Members(s)
  BY <1>1 DEF Members
<1> QED BY <1>1, <1>3, <1>4, <1>5

\* A round that goes on with the rest of its list.
LEMMA RestOfRound ==
  ASSUME NEW S, NEW r \in Rounds(S), r.todo # <<>>, NoRepeats(r.todo)
  PROVE  /\ r.msg \in Message /\ r.todo \in Seq(S)
         /\ Rest(r) \in Rounds(S)
         /\ Rest(r).todo = Tail(r.todo)
         /\ Tail(r.todo) # <<>> => Rest(r).msg = r.msg
<1>1. r.msg \in Message /\ r.todo \in Seq(S)
  BY DEF Rounds, Idle
<1>2. Tail(r.todo) \in Seq(S)
  BY <1>1, TailOfSet
<1>3. CASE Tail(r.todo) = <<>>
  BY <1>1, <1>3 DEF Rest, Round, Rounds, Idle
<1>4. CASE Tail(r.todo) # <<>>
  BY <1>1, <1>2, <1>4 DEF Rest, Round, Rounds
<1> QED BY <1>1, <1>3, <1>4

\* A new round over a list.
LEMMA NewRound ==
  ASSUME NEW S, NEW s \in Seq(S), NEW m \in Message
  PROVE  /\ Round(m, s) \in Rounds(S)
         /\ Round(m, s).todo = s
         /\ s # <<>> => Round(m, s).msg = m
BY DEF Round, Rounds, Idle

-----------------------------------------------------------------------------
\* Raising the bound.
LEMMA BelowHigher ==
  ASSUME NEW q \in Seq(Message), NEW f \in Rounds(Receiver), NEW g \in Got,
         NEW p, NEW n \in Nat, NEW k \in Nat, n <= k, Below(q, f, g, p, n)
  PROVE  Below(q, f, g, p, k)
<1>1. QueuedBelow(q, p, k)
  <2>1. \A i \in DOMAIN q : q[i] \in Message
    OBVIOUS
  <2>2. \A i \in DOMAIN q : q[i].id \in 1..MaxPublish
    BY <2>1 DEF Message
  <2> QED BY <2>2, MaxPublishAssumption DEF Below, QueuedBelow
<1>2. InHandBelow(f, p, k)
  BY DEF Below, InHandBelow, Rounds, Idle, Message
<1>3. ASSUME NEW o \in Receiver PROVE OneGotBelow(g[o], p, k)
  <2>1. \A i \in DOMAIN g[o] : g[o][i] \in Item
    BY DEF Got
  <2>2. \A i \in DOMAIN g[o] : g[o][i].id \in 1..MaxPublish
    BY <2>1 DEF Item
  <2>3. OneGotBelow(g[o], p, n)
    BY DEF Below, GotBelow
  <2> QED BY <2>2, <2>3, MaxPublishAssumption DEF OneGotBelow
<1> QED BY <1>1, <1>2, <1>3 DEF Below, GotBelow

LEMMA OrderInit == Init => OrderInv
<1> SUFFICES ASSUME Init PROVE OrderInv
  OBVIOUS
<1>1. MessageTypes
  BY MaxPublishAssumption DEF Init, MessageTypes, NoRepeats, Rounds, Receiver, Got
<1>2. SendingNewest
  BY DEF Init, SendingNewest, RoundNewest, Below, QueuedBelow, InHandBelow, GotBelow,
         OneGotBelow, Idle, Receiver
<1>3. LegsInOrder
  BY DEF Init, LegsInOrder, LegInOrder, InOrder, Behind, InHandNewest, Idle, Receiver
<1> QED BY <1>1, <1>2, <1>3 DEF OrderInv

LEMMA StartSendKeepsOrder ==
  ASSUME TableInv, OrderInv, NEW w \in WorkerId, NEW to \in Channel \cup {Everyone},
         NEW safe \in BOOLEAN, StartSend(w, to, safe)
  PROVE  OrderInv'
<1> DEFINE m == [id |-> published', from |-> w, to |-> to, safe |-> safe]
           ds == IF to = Everyone THEN legs ELSE channels[to]
<1> USE DEF OrderInv
<1>1. published \in Nat /\ published' = published + 1 /\ published' \in 1..MaxPublish
  BY MaxPublishAssumption DEF StartSend, MessageTypes
<1>2. m \in Message
  BY <1>1 DEF Message
<1>3. ds \in Seq(WorkerId) /\ NoRepeats(ds)
  BY DEF MessageTypes, TableInv, TableTypes, TableSets
<1>4. UNCHANGED <<legs, queue, fanout, got>>
  BY DEF StartSend
<1>5. /\ sending'[w] = Round(m, ds)
      /\ \A p \in WorkerId : p # w => sending'[p] = sending[p]
  BY DEF StartSend, MessageTypes
<1>6. /\ sending'[w] \in Rounds(WorkerId) /\ sending'[w].todo = ds
      /\ ds # <<>> => sending'[w].msg = m
  BY <1>2, <1>3, <1>5, NewRound
<1>7. MessageTypes'
  BY <1>1, <1>4, <1>6 DEF MessageTypes, StartSend
<1>8. \A d, p \in WorkerId : Below(queue'[d], fanout'[d], got'[d], p, published' + 1)
  BY <1>1, <1>4, BelowHigher DEF SendingNewest, MessageTypes
<1>9. \A d \in Members(ds) : d \in WorkerId
  BY <1>3 DEF Members
<1>10. (RoundNewest(w, sending[w], published))'
  BY <1>1, <1>3, <1>4, <1>6, <1>9 DEF RoundNewest, SendingNewest
<1>11. ASSUME NEW p \in WorkerId, p # w PROVE (RoundNewest(p, sending[p], published))'
  <2>1. sending'[p] = sending[p] /\ RoundNewest(p, sending[p], published)
    BY <1>5, <1>11 DEF SendingNewest
  <2>2. sending[p].todo # <<>> => sending[p].msg.id \in Nat
    BY DEF MessageTypes, Rounds, Idle, Message
  <2> QED BY <1>1, <1>4, <2>1, <2>2 DEF RoundNewest
<1>12. SendingNewest'
  BY <1>8, <1>10, <1>11 DEF SendingNewest
<1>13. LegsInOrder'
  BY <1>4 DEF LegsInOrder
<1> QED BY <1>7, <1>12, <1>13

-----------------------------------------------------------------------------
\* What a push does to a list: the old places keep their elements.
LEMMA AppendPlaces ==
  ASSUME NEW S, NEW s \in Seq(S), NEW e \in S
  PROVE  /\ Append(s, e) \in Seq(S)
         /\ DOMAIN s = 1..Len(s) /\ Len(s) \in Nat
         /\ DOMAIN Append(s, e) = 1..(Len(s) + 1)
         /\ \A i \in DOMAIN s : Append(s, e)[i] = s[i]
         /\ Append(s, e)[Len(s) + 1] = e
OBVIOUS

\* A list stays in order when something newer is added at its end.
LEMMA AppendInOrder ==
  ASSUME NEW S, NEW s \in Seq(S), NEW e \in S, InOrder(s), OneGotBelow(s, e.from, e.id)
  PROVE  InOrder(Append(s, e))
<1> DEFINE a == Append(s, e)
<1>1. /\ DOMAIN s = 1..Len(s) /\ Len(s) \in Nat /\ DOMAIN a = 1..(Len(s) + 1)
      /\ \A i \in DOMAIN s : a[i] = s[i]
      /\ a[Len(s) + 1] = e
  BY AppendPlaces
<1> HIDE DEF a
<1>2. ASSUME NEW i \in DOMAIN a, NEW j \in DOMAIN a, i < j, a[i].from = a[j].from
      PROVE  a[i].id < a[j].id
  <2>1. i \in DOMAIN s
    BY <1>1, <1>2
  <2>2. CASE j \in DOMAIN s
    BY <1>1, <1>2, <2>1, <2>2 DEF InOrder
  <2>3. CASE j = Len(s) + 1
    BY <1>1, <1>2, <2>1, <2>3 DEF OneGotBelow
  <2> QED BY <1>1, <2>2, <2>3
<1> QED BY <1>2 DEF InOrder, a

\* SendToLeg: a message newer than all of its publisher's is pushed.
LEMMA PushedLeg ==
  ASSUME NEW q \in Seq(Message), NEW f, NEW g, NEW m \in Message,
         LegInOrder(q, f, g), Below(q, f, g, m.from, m.id)
  PROVE  /\ LegInOrder(Append(q, m), f, g)
         /\ \A p, n : Below(q, f, g, p, n) /\ (m.from = p => m.id < n)
                        => Below(Append(q, m), f, g, p, n)
<1> DEFINE a == Append(q, m)
<1>1. /\ DOMAIN q = 1..Len(q) /\ Len(q) \in Nat /\ DOMAIN a = 1..(Len(q) + 1)
      /\ \A i \in DOMAIN q : a[i] = q[i]
      /\ a[Len(q) + 1] = m
  BY AppendPlaces
<1>2. InOrder(a)
  BY AppendInOrder DEF LegInOrder, Below, QueuedBelow, OneGotBelow
<1> HIDE DEF a
<1>3. \A i \in DOMAIN a : i \in DOMAIN q \/ i = Len(q) + 1
  BY <1>1
<1>4. Behind(a, f, g)
  BY <1>1, <1>3 DEF LegInOrder, Behind, Below
<1>5. ASSUME NEW p, NEW n, Below(q, f, g, p, n), m.from = p => m.id < n
      PROVE  Below(a, f, g, p, n)
  BY <1>1, <1>3, <1>5 DEF Below, QueuedBelow
<1> QED BY <1>2, <1>4, <1>5 DEF LegInOrder, a

\* Receive: the oldest message of the leg comes into the worker's hand.
LEMMA TakenLeg ==
  ASSUME NEW q \in Seq(Message), q # <<>>, NEW f, NEW g, NEW os \in Seq(Receiver),
         NoRepeats(os), f.todo = <<>>, LegInOrder(q, f, g)
  PROVE  /\ LegInOrder(Tail(q), Round(Head(q), os), g)
         /\ \A p, n : Below(q, f, g, p, n) => Below(Tail(q), Round(Head(q), os), g, p, n)
<1> DEFINE t == Tail(q)
           r == Round(Head(q), os)
<1>1. /\ Len(q) \in Nat \ {0} /\ DOMAIN q = 1..Len(q) /\ Head(q) = q[1]
      /\ DOMAIN t = 1..(Len(q) - 1)
      /\ \A i \in 1..(Len(q) - 1) : t[i] = q[i + 1]
  OBVIOUS
<1>2. \A i \in DOMAIN t : i \in Int /\ i + 1 \in DOMAIN q /\ 1 \in DOMAIN q /\ 1 < i + 1
  BY <1>1
<1>3. r.todo = os /\ (os # <<>> => r.msg = q[1])
  BY <1>1 DEF Round, Idle
<1>8. \A i \in DOMAIN t : t[i] = q[i + 1]
  BY <1>1
<1> HIDE DEF t, r
<1>4. InOrder(t)
  <2>1. ASSUME NEW i \in DOMAIN t, NEW j \in DOMAIN t, i < j PROVE i + 1 < j + 1
    BY <1>2, <2>1
  <2> QED BY <1>2, <1>8, <2>1 DEF InOrder, LegInOrder
<1>5. Behind(t, r, g)
  <2>1. ASSUME NEW i \in DOMAIN t PROVE InHandBelow(r, t[i].from, t[i].id)
    BY <1>2, <1>3, <1>8 DEF InHandBelow, InOrder, LegInOrder
  <2>2. ASSUME NEW i \in DOMAIN t PROVE GotBelow(g, t[i].from, t[i].id)
    BY <1>2, <1>8 DEF Behind, LegInOrder
  <2> QED BY <2>1, <2>2 DEF Behind
<1>6. InHandNewest(r, g)
  <2>1. \A o \in Members(os) : o \in Receiver
    BY DEF Members
  <2>2. 1 \in DOMAIN q
    BY <1>1
  <2> QED BY <1>3, <2>1, <2>2 DEF InHandNewest, LegInOrder, Behind, GotBelow
<1>7. ASSUME NEW p, NEW n, Below(q, f, g, p, n) PROVE Below(t, r, g, p, n)
  <2>1. QueuedBelow(t, p, n)
    BY <1>2, <1>7, <1>8 DEF Below, QueuedBelow
  <2>2. InHandBelow(r, p, n)
    BY <1>1, <1>3, <1>7 DEF Below, QueuedBelow, InHandBelow
  <2> QED BY <1>7, <2>1, <2>2 DEF Below
<1> QED BY <1>4, <1>5, <1>6, <1>7 DEF LegInOrder, t, r

\* HandOver: the next owner gets the message in hand.
LEMMA HandedLeg ==
  ASSUME NEW q, NEW f \in Rounds(Receiver), f.todo # <<>>, NEW g \in Got,
         LegInOrder(q, f, g)
  PROVE  LET o  == Head(f.todo)
             m  == [from |-> f.msg.from, id |-> f.msg.id]
             g2 == [g EXCEPT ![o] = Append(@, m)]
         IN  /\ Rest(f) \in Rounds(Receiver) /\ g2 \in Got
             /\ LegInOrder(q, Rest(f), g2)
             /\ \A p, n : Below(q, f, g, p, n) => Below(q, Rest(f), g2, p, n)
<1> DEFINE o  == Head(f.todo)
           m  == [from |-> f.msg.from, id |-> f.msg.id]
           g2 == [g EXCEPT ![o] = Append(@, m)]
<1>1. f.msg \in Message /\ f.todo \in Seq(Receiver) /\ NoRepeats(f.todo)
  BY DEF Rounds, Idle, LegInOrder, InHandNewest
<1>2. /\ Rest(f) \in Rounds(Receiver) /\ Rest(f).todo = Tail(f.todo)
      /\ Tail(f.todo) # <<>> => Rest(f).msg = f.msg
  BY <1>1, RestOfRound
<1>3. /\ o \in Receiver /\ o \in Members(f.todo)
      /\ NoRepeats(Tail(f.todo)) /\ Members(Tail(f.todo)) \subseteq Members(f.todo) \ {o}
      /\ Tail(f.todo) \in Seq(Receiver)
  BY <1>1, TailOfSet
<1>4. m \in Item /\ m.from = f.msg.from /\ m.id = f.msg.id
  BY <1>1 DEF Message, Item
<1>5. g \in [Receiver -> Seq(Item)]
  BY DEF Got
<1>6. g2 \in Got /\ g2[o] = Append(g[o], m) /\ \A x \in Receiver : x # o => g2[x] = g[x]
  BY <1>3, <1>4, <1>5 DEF Got
<1>7. OneGotBelow(g[o], m.from, m.id)
  BY <1>3, <1>4 DEF LegInOrder, InHandNewest
<1>8. g[o] \in Seq(Item)
  BY <1>3, <1>5
<1>9. /\ DOMAIN g[o] = 1..Len(g[o]) /\ Len(g[o]) \in Nat
      /\ DOMAIN g2[o] = 1..(Len(g[o]) + 1)
      /\ \A i \in DOMAIN g[o] : g2[o][i] = g[o][i]
      /\ g2[o][Len(g[o]) + 1] = m
  BY <1>4, <1>6, <1>8, AppendPlaces
<1>10. InOrder(g2[o])
  <2>1. InOrder(g[o])
    BY <1>3 DEF LegInOrder
  <2> QED BY <1>4, <1>6, <1>7, <1>8, <2>1, AppendInOrder
<1> HIDE DEF g2, m, o
<1>11. ASSUME NEW p, NEW n, GotBelow(g, p, n), InHandBelow(f, p, n) PROVE GotBelow(g2, p, n)
  <2>1. \A x \in Receiver : OneGotBelow(g[x], p, n)
    BY <1>11 DEF GotBelow
  <2>2. m.from = p => m.id < n
    BY <1>4, <1>11 DEF InHandBelow
  <2>3. OneGotBelow(g2[o], p, n)
    <3>1. \A i \in DOMAIN g2[o] : i \in DOMAIN g[o] \/ i = Len(g[o]) + 1
      BY <1>9
    <3> QED BY <1>3, <1>9, <2>1, <2>2, <3>1 DEF OneGotBelow
  <2> QED BY <1>6, <2>1, <2>3 DEF GotBelow
<1>12. \A p, n : InHandBelow(f, p, n) => InHandBelow(Rest(f), p, n)
  BY <1>2 DEF InHandBelow
<1>13. Behind(q, Rest(f), g2)
  BY <1>11, <1>12 DEF Behind, LegInOrder
<1>14. InHandNewest(Rest(f), g2)
  <2>1. \A x \in Members(Tail(f.todo)) : x \in Members(f.todo) /\ x # o /\ x \in Receiver
    BY <1>3 DEF Members
  <2> QED BY <1>2, <1>3, <1>6, <2>1 DEF InHandNewest, LegInOrder
<1>15. LegInOrder(q, Rest(f), g2)
  BY <1>6, <1>10, <1>13, <1>14 DEF LegInOrder
<1>16. \A p, n : Below(q, f, g, p, n) => Below(q, Rest(f), g2, p, n)
  BY <1>11, <1>12 DEF Below
<1> QED BY <1>2, <1>6, <1>15, <1>16 DEF g2, m, o

-----------------------------------------------------------------------------
\* What a step does to the messages of one leg, and to no other, keeps the
\* order if it raises no number there.
LEMMA OneLegStep ==
  ASSUME OrderInv, NEW w \in WorkerId,
         UNCHANGED <<legs, published, sending>>,
         queue' \in [WorkerId -> Seq(Message)], fanout' \in [WorkerId -> Rounds(Receiver)],
         got' \in [WorkerId -> Got],
         \A d \in WorkerId \ {w} :
           queue'[d] = queue[d] /\ fanout'[d] = fanout[d] /\ got'[d] = got[d],
         LegInOrder(queue'[w], fanout'[w], got'[w]),
         \A p, n : Below(queue[w], fanout[w], got[w], p, n)
                     => Below(queue'[w], fanout'[w], got'[w], p, n)
  PROVE  OrderInv'
<1> USE DEF OrderInv
<1>1. MessageTypes'
  BY DEF MessageTypes
<1>2. LegsInOrder'
  BY DEF LegsInOrder
<1>3. \A d \in WorkerId : \A p, n :
        Below(queue[d], fanout[d], got[d], p, n) => Below(queue'[d], fanout'[d], got'[d], p, n)
  OBVIOUS
<1>4. ASSUME NEW p \in WorkerId PROVE (RoundNewest(p, sending[p], published))'
  <2>1. RoundNewest(p, sending[p], published)
    BY DEF SendingNewest
  <2>2. \A d \in Members(sending[p].todo) : sending[p].todo # <<>> => d \in WorkerId
    BY DEF Members, MessageTypes, Rounds, Idle
  <2> QED BY <1>3, <2>1, <2>2 DEF RoundNewest
<1>5. SendingNewest'
  BY <1>3, <1>4 DEF SendingNewest
<1> QED BY <1>1, <1>2, <1>5

LEMMA ReceiveKeepsOrder ==
  ASSUME TableInv, OrderInv, NEW w \in WorkerId, Receive(w)
  PROVE  OrderInv'
<1> DEFINE m  == Head(queue[w])
           os == IF m.to = Everyone THEN <<Inner>> ELSE hub[w][m.to]
<1>1. queue[w] \in Seq(Message) /\ queue[w] # <<>> /\ fanout[w].todo = <<>>
  BY DEF Receive, OrderInv, MessageTypes
<1>2. m \in Message /\ Tail(queue[w]) \in Seq(Message)
  BY <1>1
<1>3. os \in Seq(Receiver) /\ NoRepeats(os)
  <2>1. CASE m.to = Everyone
    BY <2>1 DEF Receiver, NoRepeats
  <2>2. CASE m.to # Everyone
    <3>1. m.to \in Channel
      BY <1>2, <2>2 DEF Message
    <3>2. hub[w][m.to] \in Seq(Owner) /\ NoRepeats(hub[w][m.to])
      BY <3>1 DEF TableInv, TableTypes, TableSets
    <3> QED BY <2>2, <3>2 DEF Receiver
  <2> QED BY <2>1, <2>2
<1>4. /\ queue' = [queue EXCEPT ![w] = Tail(@)]
      /\ fanout' = [fanout EXCEPT ![w] = Round(m, os)]
      /\ UNCHANGED <<legs, published, sending, got>>
  BY DEF Receive
<1>5. Round(m, os) \in Rounds(Receiver)
  BY <1>2, <1>3, NewRound
<1> HIDE DEF os, m
<1>6. /\ queue'[w] = Tail(queue[w]) /\ fanout'[w] = Round(m, os)
      /\ \A d \in WorkerId \ {w} : queue'[d] = queue[d] /\ fanout'[d] = fanout[d]
      /\ queue' \in [WorkerId -> Seq(Message)] /\ fanout' \in [WorkerId -> Rounds(Receiver)]
  BY <1>2, <1>4, <1>5 DEF OrderInv, MessageTypes
<1>7. LegInOrder(queue[w], fanout[w], got[w])
  BY DEF OrderInv, LegsInOrder
<1>8. /\ LegInOrder(Tail(queue[w]), Round(m, os), got[w])
      /\ \A p, n : Below(queue[w], fanout[w], got[w], p, n)
                     => Below(Tail(queue[w]), Round(m, os), got[w], p, n)
  BY <1>1, <1>3, <1>7, TakenLeg DEF m
<1>9. got' \in [WorkerId -> Got]
  BY <1>4 DEF OrderInv, MessageTypes
<1> QED BY <1>4, <1>6, <1>8, <1>9, OneLegStep

LEMMA HandOverKeepsOrder ==
  ASSUME OrderInv, NEW w \in WorkerId, HandOver(w)
  PROVE  OrderInv'
<1> DEFINE o  == Head(fanout[w].todo)
           m  == [from |-> fanout[w].msg.from, id |-> fanout[w].msg.id]
           g2 == [got[w] EXCEPT ![o] = Append(@, m)]
<1>1. fanout[w] \in Rounds(Receiver) /\ fanout[w].todo # <<>> /\ got[w] \in Got
  BY DEF HandOver, OrderInv, MessageTypes
<1>2. LegInOrder(queue[w], fanout[w], got[w])
  BY DEF OrderInv, LegsInOrder
<1>3. /\ Rest(fanout[w]) \in Rounds(Receiver) /\ g2 \in Got
      /\ LegInOrder(queue[w], Rest(fanout[w]), g2)
      /\ \A p, n : Below(queue[w], fanout[w], got[w], p, n)
                     => Below(queue[w], Rest(fanout[w]), g2, p, n)
  BY <1>1, <1>2, HandedLeg
<1>4. /\ got' = [got EXCEPT ![w] = g2]
      /\ fanout' = [fanout EXCEPT ![w] = Rest(@)]
      /\ UNCHANGED <<legs, queue, published, sending>>
  BY DEF HandOver
<1> HIDE DEF g2
<1>5. /\ got'[w] = g2 /\ fanout'[w] = Rest(fanout[w])
      /\ \A d \in WorkerId \ {w} : got'[d] = got[d] /\ fanout'[d] = fanout[d]
      /\ got' \in [WorkerId -> Got] /\ fanout' \in [WorkerId -> Rounds(Receiver)]
  BY <1>3, <1>4 DEF OrderInv, MessageTypes
<1>6. queue' \in [WorkerId -> Seq(Message)]
  BY <1>4 DEF OrderInv, MessageTypes
<1> QED BY <1>3, <1>4, <1>5, <1>6, OneLegStep

LEMMA SendToLegKeepsOrder ==
  ASSUME OrderInv, NEW w \in WorkerId, SendToLeg(w)
  PROVE  OrderInv'
<1> DEFINE r == sending[w]
           d0 == Head(r.todo)
           m == r.msg
           q2 == Append(queue[d0], m)
<1>1. /\ r \in Rounds(WorkerId) /\ r.todo # <<>> /\ RoundNewest(w, r, published)
      /\ NoRepeats(r.todo)
  BY DEF SendToLeg, OrderInv, MessageTypes, SendingNewest, RoundNewest
<1>2. /\ m \in Message /\ r.todo \in Seq(WorkerId) /\ Rest(r) \in Rounds(WorkerId)
      /\ Rest(r).todo = Tail(r.todo) /\ (Tail(r.todo) # <<>> => Rest(r).msg = m)
  BY <1>1, RestOfRound
<1>3. /\ d0 \in WorkerId /\ d0 \in Members(r.todo) /\ NoRepeats(Tail(r.todo))
      /\ Members(Tail(r.todo)) \subseteq Members(r.todo) \ {d0}
      /\ Tail(r.todo) \in Seq(WorkerId)
  BY <1>1, <1>2, TailOfSet
<1>4. /\ sending' = [sending EXCEPT ![w] = Rest(r)]
      /\ UNCHANGED <<legs, published, fanout, got>>
      /\ queue' = queue \/ queue' = [queue EXCEPT ![d0] = q2]
  BY DEF SendToLeg
<1>5. m.from = w /\ m.id \in Nat /\ published \in Nat /\ m.id <= published
  BY <1>1, <1>2, MaxPublishAssumption DEF RoundNewest, OrderInv, MessageTypes, Message
<1>6. /\ LegInOrder(queue[d0], fanout[d0], got[d0]) /\ queue[d0] \in Seq(Message)
      /\ Below(queue[d0], fanout[d0], got[d0], m.from, m.id)
  BY <1>1, <1>3, <1>5 DEF RoundNewest, OrderInv, LegsInOrder, MessageTypes
<1>7. /\ LegInOrder(q2, fanout[d0], got[d0]) /\ q2 \in Seq(Message)
      /\ \A p, n : Below(queue[d0], fanout[d0], got[d0], p, n) /\ (m.from = p => m.id < n)
                     => Below(q2, fanout[d0], got[d0], p, n)
  <2>1. q2 \in Seq(Message)
    BY <1>2, <1>6
  <2> QED BY <1>2, <1>6, <2>1, PushedLeg
<1> HIDE DEF q2, d0, m, r
<1>8. /\ queue' \in [WorkerId -> Seq(Message)]
      /\ \A d \in WorkerId : queue'[d] = queue[d] \/ (d = d0 /\ queue'[d] = q2)
  BY <1>3, <1>4, <1>7 DEF OrderInv, MessageTypes
<1>9. sending' \in [WorkerId -> Rounds(WorkerId)] /\ sending'[w] = Rest(r)
      /\ \A p \in WorkerId \ {w} : sending'[p] = sending[p]
  BY <1>2, <1>4 DEF OrderInv, MessageTypes
<1>10. MessageTypes'
  BY <1>4, <1>8, <1>9 DEF OrderInv, MessageTypes
<1>11. LegsInOrder'
  BY <1>4, <1>7, <1>8 DEF OrderInv, LegsInOrder
<1>12. ASSUME NEW d \in WorkerId, NEW p, NEW n,
              Below(queue[d], fanout[d], got[d], p, n), m.from = p /\ d = d0 => m.id < n
       PROVE  Below(queue'[d], fanout'[d], got'[d], p, n)
  BY <1>4, <1>7, <1>8, <1>12
<1>13. \A d, p \in WorkerId : Below(queue'[d], fanout'[d], got'[d], p, published' + 1)
  BY <1>4, <1>5, <1>12 DEF OrderInv, SendingNewest
<1>14. ASSUME NEW p \in WorkerId PROVE (RoundNewest(p, sending[p], published))'
  <2>1. RoundNewest(p, sending[p], published)
    BY DEF OrderInv, SendingNewest
  <2>2. \A d \in Members(sending[p].todo) : sending[p].todo # <<>> => d \in WorkerId
    BY DEF OrderInv, Members, MessageTypes, Rounds, Idle
  <2>3. CASE p = w
    <3>1. ASSUME NEW d \in Members(Tail(r.todo)), Tail(r.todo) # <<>>
          PROVE  Below(queue'[d], fanout'[d], got'[d], w, m.id)
      <4>1. d \in Members(r.todo) /\ d # d0 /\ d \in WorkerId
        BY <1>1, <1>3, <2>2, <2>3, <3>1 DEF r
      <4>2. Below(queue[d], fanout[d], got[d], w, m.id)
        BY <1>1, <4>1 DEF RoundNewest, m
      <4> QED BY <1>12, <4>1, <4>2
    <3> QED BY <1>2, <1>3, <1>4, <1>5, <1>9, <2>3, <3>1 DEF RoundNewest
  <2>4. CASE p # w
    <3>1. sending'[p] = sending[p]
      BY <1>9, <2>4
    <3>2. ASSUME NEW d \in Members(sending[p].todo), sending[p].todo # <<>>
          PROVE  Below(queue'[d], fanout'[d], got'[d], p, sending[p].msg.id)
      BY <1>5, <1>12, <2>1, <2>2, <2>4, <3>2 DEF RoundNewest
    <3> QED BY <1>4, <2>1, <3>1, <3>2 DEF RoundNewest
  <2> QED BY <2>3, <2>4
<1>15. SendingNewest'
  BY <1>13, <1>14 DEF SendingNewest
<1> QED BY <1>10, <1>11, <1>15 DEF OrderInv

LEMMA OrderStep == TableInv /\ OrderInv /\ [Next]_vars => OrderInv'
<1> SUFFICES ASSUME TableInv, OrderInv, [Next]_vars PROVE OrderInv'
  OBVIOUS
<1>1. ASSUME NEW w \in WorkerId, NewWorker(w) PROVE OrderInv'
  <2>1. legs' \in Seq(WorkerId) /\ NoRepeats(legs')
    BY <1>1, AppendNew DEF NewWorker, OrderInv, MessageTypes
  <2>2. MessageTypes'
    BY <1>1, <2>1 DEF NewWorker, OrderInv, MessageTypes
  <2> QED BY <1>1, <2>2 DEF NewWorker, OrderInv, SendingNewest, RoundNewest, LegsInOrder
<1>2. ASSUME UNCHANGED <<legs, queue, published, sending, fanout, got>> PROVE OrderInv'
  BY <1>2 DEF OrderInv, MessageTypes, SendingNewest, RoundNewest, LegsInOrder
<1>3. ASSUME NEW w \in WorkerId,
             \/ \E o \in Tasks[w], c \in Channel : Subscribe(w, o, c) \/ Unsubscribe(w, o, c)
             \/ ChangeChannel(w) \/ SetAwaker(w)
      PROVE  UNCHANGED <<legs, queue, published, sending, fanout, got>>
  BY <1>3 DEF Subscribe, Unsubscribe, SetAwaker, ChangeChannel, JoinChannel, LeaveChannel
<1> QED BY <1>1, <1>2, <1>3, StartSendKeepsOrder, SendToLegKeepsOrder,
           ReceiveKeepsOrder, HandOverKeepsOrder DEF Next, vars

-----------------------------------------------------------------------------
\* The two invariants are kept together.
LEMMA BusInvariant == Spec => [](TableInv /\ OrderInv)
BY InvInit, InvStep, OrderInit, OrderStep, PTL DEF Spec

\* What is known of a worker's awaker.
AwakerTypes == awaker \in [WorkerId -> {"unset", "set", "late"}]

LEMMA AwakerStep == AwakerTypes /\ [Next]_vars => AwakerTypes'
<1> SUFFICES ASSUME AwakerTypes, [Next]_vars PROVE AwakerTypes'
  OBVIOUS
<1>1. ASSUME NEW w \in WorkerId, SetAwaker(w) PROVE AwakerTypes'
  BY <1>1 DEF SetAwaker, AwakerTypes
<1>2. ASSUME NEW w \in WorkerId,
             \/ NewWorker(w) \/ SendToLeg(w) \/ Receive(w) \/ HandOver(w)
             \/ \E to \in Channel \cup {Everyone}, safe \in BOOLEAN : StartSend(w, to, safe)
             \/ \E o \in Tasks[w], c \in Channel : Subscribe(w, o, c) \/ Unsubscribe(w, o, c)
             \/ ChangeChannel(w)
      PROVE  awaker' = awaker
  BY <1>2 DEF NewWorker, SendToLeg, Receive, HandOver, StartSend, Subscribe, Unsubscribe,
              ChangeChannel, JoinChannel, LeaveChannel
<1> QED BY <1>1, <1>2 DEF Next, vars, AwakerTypes

\* In every behaviour, for any workers, owners, channels and messages: the
\* tables, queues and rounds keep their types, and no list that stands for a
\* set lists anybody twice.
THEOREM BusTypes == Spec => []TypeOK
<1>1. TableInv /\ OrderInv /\ AwakerTypes => TypeOK
  BY DEF TableInv, TableTypes, TableSets, OrderInv, MessageTypes, AwakerTypes, TypeOK, Got, Item, Receiver
<1>2. Init => AwakerTypes
  BY DEF Init, AwakerTypes
<1> QED BY <1>1, <1>2, AwakerStep, BusInvariant, PTL DEF Spec

\* In every behaviour, for any workers, owners, channels and messages: an owner
\* gets the messages of one publisher in the order they were sent, none twice.
THEOREM OrderKept == Spec => []InOrderOnce
<1>1. OrderInv => InOrderOnce
  BY DEF OrderInv, LegsInOrder, LegInOrder, InOrder, InOrderOnce, Receiver
<1> QED BY <1>1, BusInvariant, PTL
=============================================================================

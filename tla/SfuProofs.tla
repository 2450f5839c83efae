----------------------------- MODULE SfuProofs -----------------------------
(***************************************************************************)
(* The worker of the WebRTC server, for any number of slots, rooms,        *)
(* requests, addresses and outputs of sessions.  First the tables of the   *)
(* shared port, which agree whatever their users do, as long as they       *)
(* announce fresh ufrags; then the worker, which uses them so.             *)
(***************************************************************************)
EXTENDS Sfu, CountingLemmas

PortTypeOK == port \in Ports

\* What remove_task does where the tables agree: either the task has no ufrag,
\* and nothing changes, or both directions of its ufrag and of its addresses go.
LEMMA RemoveTaskTables ==
  ASSUME PortTypeOK, PortTablesAgree, NEW t \in Task
  PROVE  \/ port.ufragOf[t] = None /\ WithoutTask(port, t) = port
         \/ /\ port.ufragOf[t] # None
            /\ WithoutTask(port, t) =
                 [port EXCEPT !.ufragOf[t] = None, !.ufrags[port.ufragOf[t]] = None,
                              !.remotesOf[t] = {},
                              !.remotes = [a \in Addr |-> IF a \in port.remotesOf[t] THEN None ELSE @[a]]]
<1>1. CASE port.ufragOf[t] = None
  BY <1>1 DEF WithoutTask
<1>2. CASE port.ufragOf[t] # None
  <2> DEFINE u == port.ufragOf[t]
  <2>1. u \in Ufrag /\ port.ufrags[u] = t /\ t # None
    BY <1>2, PortNoneAssumption DEF PortTypeOK, Ports, PortTablesAgree
  <2>2. [port EXCEPT !.ufragOf[t] = None].ufrags[u] # None
    BY <2>1 DEF PortTypeOK, Ports
  <2> QED
    BY <1>2, <2>1, <2>2 DEF WithoutTask, PortTypeOK, Ports
<1> QED
  BY <1>1, <1>2

\* The task that a packet is for is in some entry of the ufrag table, or the
\* address is bound to it.
LEMMA TaskForBound ==
  ASSUME PortTypeOK, NEW a \in Addr, NEW u \in Ufrag \cup {None}
  PROVE  /\ TaskFor(port, a, u) \in Task \cup {None}
         /\ port.remotes[a] = None /\ TaskFor(port, a, u) # None =>
              u \in Ufrag /\ port.ufrags[u] = TaskFor(port, a, u)
BY DEF PortTypeOK, Ports, TaskFor

\* Each table keeps its domain and its range.
THEOREM PortTypeInvariant == PortSpec => []PortTypeOK
<1>1. PortInit => PortTypeOK
  BY DEF PortInit, PortTypeOK, Ports, EmptyPort
<1>2. ASSUME PortTypeOK, [PortNext]_port
      PROVE  PortTypeOK'
  <2>1. CASE port' = Bound(port)
    BY <1>2, <2>1 DEF PortTypeOK, Ports, Bound
  <2>2. ASSUME NEW u \in Ufrag, NEW t \in Task, port' = WithUfrag(port, u, t)
        PROVE  PortTypeOK'
    BY <1>2, <2>2 DEF PortTypeOK, Ports, WithUfrag
  <2>3. ASSUME NEW t \in Task, port' = WithoutTask(port, t)
        PROVE  PortTypeOK'
    <3>1. CASE port.ufragOf[t] = None
      BY <1>2, <2>3, <3>1 DEF PortTypeOK, WithoutTask
    <3>2. CASE port.ufragOf[t] # None
      <4> DEFINE u == port.ufragOf[t]
                 p1 == [port EXCEPT !.ufragOf[t] = None]
      <4>1. u \in Ufrag
        BY <1>2, <3>2 DEF PortTypeOK, Ports
      <4>2. p1 \in Ports
        BY <1>2 DEF PortTypeOK, Ports
      <4>3. CASE p1.ufrags[u] = None
        BY <2>3, <3>2, <4>2, <4>3 DEF PortTypeOK, WithoutTask
      <4>4. CASE p1.ufrags[u] # None
        BY <1>2, <2>3, <3>2, <4>1, <4>4 DEF PortTypeOK, Ports, WithoutTask
      <4> QED
        BY <4>3, <4>4
    <3> QED
      BY <3>1, <3>2
  <2>4. ASSUME NEW a \in Addr, NEW u \in Ufrag \cup {None}, port' = WithRemote(port, a, u)
        PROVE  PortTypeOK'
    <3>1. TaskFor(port, a, u) \in Task \cup {None}
      BY <1>2, TaskForBound
    <3> QED
      BY <1>2, <2>4, <3>1 DEF PortTypeOK, Ports, WithRemote
  <2>5. CASE UNCHANGED port
    BY <1>2, <2>5 DEF PortTypeOK
  <2> QED
    BY <1>2, <2>1, <2>2, <2>3, <2>4, <2>5 DEF PortNext
<1> QED
  BY <1>1, <1>2, PTL DEF PortSpec

\* The tables agree in every state: the step that needs the third conjunct is
\* remove_task, which finds the addresses of a task only by way of its ufrag.
THEOREM PortTablesAlwaysAgree == PortSpec => []PortTablesAgree
<1>1. PortInit => PortTablesAgree
  BY PortNoneAssumption DEF PortInit, PortTablesAgree, EmptyPort
<1>2. ASSUME PortTypeOK, PortTablesAgree, [PortNext]_port
      PROVE  PortTablesAgree'
  <2>1. CASE port' = Bound(port)
    BY <1>2, <2>1 DEF PortTypeOK, Ports, PortTablesAgree, Bound
  <2>2. ASSUME NEW u \in Ufrag, NEW t \in Task,
               port.ufrags[u] = None, port' = WithUfrag(port, u, t)
        PROVE  PortTablesAgree'
    <3>1. /\ port'.ufrags = [port.ufrags EXCEPT ![u] = t]
          /\ port'.ufragOf = [port.ufragOf EXCEPT ![t] = u]
          /\ port'.remotes = port.remotes /\ port'.remotesOf = port.remotesOf
      BY <1>2, <2>2 DEF PortTypeOK, Ports, WithUfrag
    <3> QED
      BY <1>2, <2>2, <3>1, PortNoneAssumption DEF PortTypeOK, Ports, PortTablesAgree
  <2>3. ASSUME NEW t \in Task, port' = WithoutTask(port, t)
        PROVE  PortTablesAgree'
    <3>1. CASE port.ufragOf[t] = None
      BY <1>2, <2>3, <3>1 DEF PortTablesAgree, WithoutTask
    <3>2. CASE port.ufragOf[t] # None
      <4> DEFINE u == port.ufragOf[t]
      <4>1. u \in Ufrag /\ port.ufrags[u] = t
        BY <1>2, <3>2 DEF PortTypeOK, Ports, PortTablesAgree
      <4>2. /\ port'.ufrags = [port.ufrags EXCEPT ![u] = None]
            /\ port'.ufragOf = [port.ufragOf EXCEPT ![t] = None]
            /\ port'.remotesOf = [port.remotesOf EXCEPT ![t] = {}]
            /\ port'.remotes = [a \in Addr |-> IF a \in port.remotesOf[t] THEN None ELSE port.remotes[a]]
        BY <1>2, <2>3, <3>2, RemoveTaskTables DEF PortTypeOK, Ports
      <4>3. \A s \in Task : port'.ufragOf[s] # None => port'.ufrags[port'.ufragOf[s]] = s
        BY <1>2, <4>1, <4>2, PortNoneAssumption DEF PortTypeOK, Ports, PortTablesAgree
      <4>4. \A a \in Addr, s \in Task : port'.remotes[a] = s <=> a \in port'.remotesOf[s]
        BY <1>2, <4>2, PortNoneAssumption DEF PortTypeOK, Ports, PortTablesAgree
      <4>5. ASSUME NEW a \in Addr, port'.remotes[a] # None
            PROVE  \E v \in Ufrag : port'.ufrags[v] = port'.remotes[a]
        <5>1. port'.remotes[a] = port.remotes[a] /\ a \notin port.remotesOf[t]
          BY <4>2, <4>5
        <5>2. PICK v \in Ufrag : port.ufrags[v] = port.remotes[a]
          BY <1>2, <4>5, <5>1 DEF PortTablesAgree
        <5>3. port.remotes[a] # t
          BY <1>2, <5>1 DEF PortTablesAgree
        <5> QED
          BY <1>2, <4>1, <4>2, <5>1, <5>2, <5>3 DEF PortTypeOK, Ports
      <4> QED
        BY <4>3, <4>4, <4>5 DEF PortTablesAgree
    <3> QED
      BY <3>1, <3>2
  <2>4. ASSUME NEW a \in Addr, NEW u \in Ufrag \cup {None}, port' = WithRemote(port, a, u)
        PROVE  PortTablesAgree'
    <3>1. CASE ~(port.remotes[a] = None /\ TaskFor(port, a, u) # None)
      BY <1>2, <2>4, <3>1 DEF WithRemote, PortTablesAgree
    <3>2. CASE port.remotes[a] = None /\ TaskFor(port, a, u) # None
      <4> DEFINE t == TaskFor(port, a, u)
      <4>1. t \in Task /\ u \in Ufrag /\ port.ufrags[u] = t
        BY <1>2, <3>2, TaskForBound
      <4>2. /\ port'.ufrags = port.ufrags /\ port'.ufragOf = port.ufragOf
            /\ port'.remotes = [port.remotes EXCEPT ![a] = t]
            /\ port'.remotesOf = [port.remotesOf EXCEPT ![t] = @ \cup {a}]
        BY <1>2, <2>4, <3>2, <4>1 DEF PortTypeOK, Ports, WithRemote
      <4> HIDE DEF t
      <4> QED
        BY <1>2, <3>2, <4>1, <4>2, PortNoneAssumption DEF PortTypeOK, Ports, PortTablesAgree
    <3> QED
      BY <3>1, <3>2
  <2>5. CASE UNCHANGED port
    BY <1>2, <2>5 DEF PortTablesAgree
  <2> QED
    BY <1>2, <2>1, <2>2, <2>3, <2>4, <2>5 DEF PortNext
<1> QED
  BY <1>1, <1>2, PortTypeInvariant, PTL DEF PortSpec

-----------------------------------------------------------------------------
\* What waits in the worker's control leg.
Asks ==
  [id : Ufrag, kind : {"whip", "whep"}, room : Room]
    \cup [id : Ufrag, kind : {"bad", "other"}, room : {None}]
    \cup {[id |-> 0, kind |-> "shutdown"]}

\* A task subscribes and unsubscribes in its own room, to what suits it.
OutGood(t, s) ==
  \A i \in 1..Len(s.out) :
    s.out[i][1] \in {"subscribe", "unsubscribe"} => s.out[i][2][2] = s.room /\ Suits(t, s.out[i][2])

\* A task that is over takes back what it has still to subscribe to.
Paid(s) ==
  s.closed => \A i \in 1..Len(s.out) : s.out[i][1] = "subscribe" =>
    \E j \in 1..Len(s.out) : j > i /\ s.out[j] = Unsubscribe(s.out[i][2])

\* Nothing but packets to send.
Silent(q) == \A i \in 1..Len(q) : q[i] = <<"transmit">>

\* A session connects once and not after it has disconnected; one that is over
\* only transmits, and a dead one has nothing to say.
RtcGood(t, s) ==
  /\ \A i \in 1..Len(s.rtc) : s.rtc[i][1] # IF t[1] = "whip" THEN "keyframe" ELSE "rtp"
  /\ s.link = "new" => Silent(s.rtc)
  /\ s.link = "dead" => s.rtc = <<>> /\ s.closed
  /\ s.closed => s.link \in {"gone", "dead"} /\ Silent(s.rtc)
  /\ \A i \in 1..Len(s.rtc) : s.rtc[i] = <<"disconnected">> =>
       s.link = "gone" /\ \A j \in (i + 1)..Len(s.rtc) : s.rtc[j] = <<"transmit">>

GoodSession(t, s) == s \in Sessions /\ OutGood(t, s) /\ Paid(s) /\ RtcGood(t, s)

\* What an input leaves of a task as it was.
Kept(s, z) == z.id = s.id /\ z.room = s.room /\ z.out = s.out /\ z.closed = s.closed

SessionsGood == \A t \in Living : GoodSession(t, tasks[t])

LEMMA TaskKinds ==
  ASSUME NEW t \in Task
  PROVE  /\ t[1] \in {"whip", "whep"} /\ t[2] \in Nat /\ <<"whip", t[2]>> \in Task
         /\ t = <<t[1], t[2]>>
BY TaskAssumption

\* One output of the session more.
LEMMA EmitGood ==
  ASSUME NEW t \in Task, NEW s, GoodSession(t, s), NEW e \in MayEmit(t, s)
  PROVE  /\ GoodSession(t, Emit(s, e)) /\ Kept(s, Emit(s, e))
         /\ Emit(s, e).timeout = s.timeout /\ s.link # "dead"
<1> DEFINE z == Emit(s, e)
           n == Len(s.rtc)
           link == CASE e[1] = "connected" -> "up" [] e[1] = "disconnected" -> "gone" [] OTHER -> s.link
<1>1. s \in Sessions /\ s.rtc \in Seq(FromRtc) /\ n \in Nat /\ s.link \in {"new", "up", "gone", "dead"}
  BY DEF GoodSession, Sessions
<1>2. /\ e \in FromRtc /\ s.link # "dead"
      /\ e[1] # IF t[1] = "whip" THEN "keyframe" ELSE "rtp"
      /\ s.link = "new" => e \in {<<"transmit">>, <<"connected">>, <<"disconnected">>}
      /\ s.link = "gone" => e = <<"transmit">>
      /\ e[1] = "disconnected" => e = <<"disconnected">>
      /\ e[1] = "connected" => e = <<"connected">>
  <2>1. t[1] \in {"whip", "whep"} /\ Streams \subseteq Media
    BY TaskKinds, StreamsAssumption DEF Media
  <2>2. CASE s.link = "new"
    BY <2>1, <2>2 DEF MayEmit, FromRtc
  <2>3. CASE s.link = "up"
    <3>1. \/ e = <<"transmit">> \/ e = <<"disconnected">>
          \/ \E m \in Media : e = <<"mid", m>>
          \/ t[1] = "whip" /\ \E m \in Media : e = <<"rtp", m>>
          \/ t[1] = "whep" /\ e = <<"keyframe">>
      BY <2>1, <2>3 DEF MayEmit
    <3> QED BY <2>1, <2>3, <3>1 DEF FromRtc
  <2>4. CASE s.link = "gone"
    BY <2>1, <2>4 DEF MayEmit, FromRtc
  <2>5. CASE s.link = "dead"
    BY <2>5 DEF MayEmit
  <2> QED BY <1>1, <2>2, <2>3, <2>4, <2>5
<1>3. link \in {"new", "up", "gone", "dead"}
  BY <1>1
<1>4. z = [s EXCEPT !.rtc = Append(s.rtc, e), !.link = link]
  BY <1>1 DEF Emit, Sessions
<1>5. /\ z \in Sessions /\ z.rtc = Append(s.rtc, e) /\ z.link = link /\ Kept(s, z)
      /\ z.timeout = s.timeout
  <2>1. Append(s.rtc, e) \in Seq(FromRtc)
    BY <1>1, <1>2
  <2> HIDE DEF link
  <2> QED BY <1>1, <1>3, <1>4, <2>1 DEF Sessions, Kept
<1>6. /\ Len(z.rtc) = n + 1 /\ z.rtc[n + 1] = e
      /\ \A i \in 1..n : z.rtc[i] = s.rtc[i]
      /\ \A i \in 1..(n + 1) : i \in 1..n \/ i = n + 1
  BY <1>1, <1>5
<1>7. OutGood(t, z) /\ Paid(z)
  BY <1>5 DEF GoodSession, OutGood, Paid, Kept
<1> HIDE DEF z
<1>8. RtcGood(t, z)
  <2>0. RtcGood(t, s)
    BY DEF GoodSession
  <2>1. \A i \in 1..Len(z.rtc) : z.rtc[i][1] # IF t[1] = "whip" THEN "keyframe" ELSE "rtp"
    BY <1>2, <1>6, <2>0 DEF RtcGood
  <2>2. z.link = "new" => Silent(z.rtc)
    <3> SUFFICES ASSUME link = "new"  PROVE Silent(z.rtc)
      BY <1>5
    <3>1. s.link = "new" /\ e = <<"transmit">>
      BY <1>2
    <3> QED BY <1>6, <2>0, <3>1 DEF RtcGood, Silent
  <2>3. z.link # "dead"
    BY <1>2, <1>5
  <2>4. z.closed => z.link \in {"gone", "dead"} /\ Silent(z.rtc)
    <3> SUFFICES ASSUME s.closed  PROVE z.link \in {"gone", "dead"} /\ Silent(z.rtc)
      BY <1>5 DEF Kept
    <3>1. s.link = "gone" /\ Silent(s.rtc) /\ e = <<"transmit">>
      BY <1>2, <2>0 DEF RtcGood
    <3> QED BY <1>5, <1>6, <3>1 DEF Silent
  <2>5. ASSUME NEW i \in 1..Len(z.rtc), z.rtc[i] = <<"disconnected">>
        PROVE  z.link = "gone" /\ \A j \in (i + 1)..Len(z.rtc) : z.rtc[j] = <<"transmit">>
    <3>1. CASE i = n + 1
      <4>1. e = <<"disconnected">> /\ z.link = "gone"
        <5>1. e = <<"disconnected">> /\ e[1] = "disconnected"
          <6>1. z.rtc[i] = e
            BY <1>6, <3>1
          <6>2. z.rtc[i] = <<"disconnected">>
            BY <2>5
          <6>3. e = <<"disconnected">>
            BY <6>1, <6>2
          <6> QED BY <6>3
        <5>2. link = "gone"
          BY <5>1
        <5> QED BY <1>5, <5>1, <5>2
      <4> QED BY <1>1, <1>6, <3>1, <4>1
    <3>2. CASE i \in 1..n
      <4>1. s.link = "gone" /\ \A j \in (i + 1)..n : s.rtc[j] = <<"transmit">>
        BY <1>6, <2>0, <2>5, <3>2 DEF RtcGood
      <4>2. e = <<"transmit">> /\ z.link = "gone"
        BY <1>2, <1>5, <4>1
      <4>3. \A j \in (i + 1)..(n + 1) : z.rtc[j] = <<"transmit">>
        BY <1>1, <1>6, <3>2, <4>1, <4>2
      <4> QED BY <1>6, <4>2, <4>3
    <3> QED BY <1>6, <3>1, <3>2
  <2> QED BY <2>1, <2>2, <2>3, <2>4, <2>5 DEF RtcGood
<1> QED BY <1>2, <1>5, <1>7, <1>8 DEF GoodSession, z

\* An input to the session, or none.
LEMMA AfterInputGood ==
  ASSUME NEW t \in Task, NEW s, GoodSession(t, s), NEW z \in AfterInput(t, s)
  PROVE  GoodSession(t, z) /\ Kept(s, z) /\ z.timeout = s.timeout
<1>1. \/ z = s
      \/ \E e \in MayEmit(t, s) : z = Emit(s, e)
      \/ \E e \in MayEmit(t, s) : \E d \in MayEmit(t, Emit(s, e)) : z = Emit(Emit(s, e), d)
  BY DEF AfterInput
<1>2. ASSUME NEW e \in MayEmit(t, s), NEW d \in MayEmit(t, Emit(s, e)), z = Emit(Emit(s, e), d)
      PROVE  GoodSession(t, z) /\ Kept(s, z) /\ z.timeout = s.timeout
  <2>1. PICK y : y = Emit(s, e)
    OBVIOUS
  <2>2. GoodSession(t, y) /\ Kept(s, y) /\ y.timeout = s.timeout
    BY <2>1, EmitGood
  <2>3. GoodSession(t, z) /\ Kept(y, z) /\ z.timeout = y.timeout
    BY <1>2, <2>1, <2>2, EmitGood
  <2> QED BY <2>2, <2>3 DEF Kept
<1>3. ASSUME NEW e \in MayEmit(t, s), z = Emit(s, e)
      PROVE  GoodSession(t, z) /\ Kept(s, z) /\ z.timeout = s.timeout
  BY <1>3, EmitGood
<1> QED BY <1>1, <1>2, <1>3 DEF Kept

LEMMA AfterWriteGood ==
  ASSUME NEW t \in Task, NEW s, GoodSession(t, s), NEW z \in AfterWrite(s)
  PROVE  GoodSession(t, z) /\ Kept(s, z) /\ z.timeout = s.timeout
<1>1. z = s \/ (s.link # "dead" /\ z = Emit(s, <<"transmit">>))
  BY DEF AfterWrite
<1>2. s.link # "dead" => <<"transmit">> \in MayEmit(t, s)
  <2>1. s.link \in {"new", "up", "gone", "dead"}
    BY DEF GoodSession, Sessions
  <2> QED BY <2>1 DEF MayEmit
<1> QED BY <1>1, <1>2, EmitGood DEF Kept

\* What an event may change of a task outside of its session.
LEMMA TouchedGood ==
  ASSUME NEW t \in Task, NEW s, GoodSession(t, s), NEW z \in Sessions,
         Kept(s, z), z.rtc = s.rtc, z.link = s.link
  PROVE  GoodSession(t, z)
BY DEF GoodSession, OutGood, Paid, RtcGood, Kept

\* A tick, a packet and a message of the bus.
LEMMA NowGood ==
  ASSUME NEW t \in Living, SessionsGood, NEW now \in Now(t)
  PROVE  /\ GoodSession(t, now) /\ Kept(tasks[t], now) /\ now.rtc = tasks[t].rtc
         /\ now.mids = tasks[t].mids
<1>1. GoodSession(t, tasks[t]) /\ t \in Task
  BY DEF SessionsGood, Living
<1>2. now = tasks[t] \/ now = [tasks[t] EXCEPT !.timeout = "due"]
  BY DEF Now
<1>3. tasks[t] \in Sessions
  BY <1>1 DEF GoodSession
<1>4. CASE now = tasks[t]
  BY <1>1, <1>4 DEF Kept
<1>5. CASE now = [tasks[t] EXCEPT !.timeout = "due"]
  <2>1. /\ now \in Sessions /\ Kept(tasks[t], now) /\ now.rtc = tasks[t].rtc
        /\ now.link = tasks[t].link /\ now.mids = tasks[t].mids
    BY <1>3, <1>5 DEF Sessions, Kept
  <2> QED BY <1>1, <2>1, TouchedGood
<1> QED BY <1>2, <1>4, <1>5

LEMMA PacketGood ==
  ASSUME NEW t \in Task, NEW now, GoodSession(t, now), NEW task,
         task = IF t[1] = "whip" THEN WhipPacket(now) ELSE WhepPacket(now),
         NEW z \in AfterInput(t, task)
  PROVE  GoodSession(t, z) /\ Kept(now, z) /\ (t[1] = "whep" => z.timeout = "none")
<1>1. now \in Sessions /\ now.timeout \in {"none", "later", "due"}
  BY DEF GoodSession, Sessions
<1>2. CASE t[1] = "whip"
  <2>1. task \in Sessions /\ Kept(now, task) /\ task.rtc = now.rtc /\ task.link = now.link
    BY <1>1, <1>2 DEF WhipPacket, Sessions, Kept
  <2>2. GoodSession(t, task) /\ Kept(now, task)
    BY <2>1, TouchedGood
  <2> QED BY <1>2, <2>2, AfterInputGood DEF Kept
<1>3. CASE t[1] # "whip"
  <2>1. /\ task \in Sessions /\ Kept(now, task) /\ task.rtc = now.rtc /\ task.link = now.link
        /\ task.timeout = "none"
    BY <1>1, <1>3 DEF WhepPacket, Sessions, Kept
  <2>2. GoodSession(t, task) /\ Kept(now, task) /\ task.timeout = "none"
    BY <2>1, TouchedGood
  <2> QED BY <2>2, AfterInputGood DEF Kept
<1> QED BY <1>2, <1>3

LEMMA BusGood ==
  ASSUME NEW t \in Task, NEW now, GoodSession(t, now), NEW c \in Channel, NEW stream \in BOOLEAN,
         NEW z \in IF t[1] = "whip" THEN WhipBus(now) ELSE WhepBus(now, c, stream)
  PROVE  /\ GoodSession(t, z) /\ Kept(now, z)
         /\ t[1] = "whep" => z.rtc = now.rtc \/ z.timeout = "none"
<1>1. now \in Sessions /\ now.timeout \in {"none", "later", "due"}
  BY DEF GoodSession, Sessions
<1> DEFINE writing == [now EXCEPT !.input = TRUE]
           waking == [now EXCEPT !.input = TRUE, !.timeout = "none"]
<1>2. GoodSession(t, writing) /\ Kept(now, writing) /\ writing.rtc = now.rtc
  <2>1. writing \in Sessions /\ Kept(now, writing) /\ writing.rtc = now.rtc /\ writing.link = now.link
    BY <1>1 DEF Sessions, Kept
  <2> QED BY <2>1, TouchedGood
<1>3. GoodSession(t, waking) /\ Kept(now, waking) /\ waking.timeout = "none"
  <2>1. /\ waking \in Sessions /\ Kept(now, waking) /\ waking.rtc = now.rtc /\ waking.link = now.link
        /\ waking.timeout = "none"
    BY <1>1 DEF Sessions, Kept
  <2> QED BY <2>1, TouchedGood
<1> HIDE DEF writing, waking
<1>4. CASE t[1] = "whip"
  <2>1. z = now \/ z \in AfterWrite(writing)
    BY <1>4 DEF WhipBus, writing
  <2> QED BY <1>2, <1>4, <2>1, AfterWriteGood DEF Kept
<1>5. CASE t[1] # "whip"
  <2>1. z = now \/ z = writing \/ z \in AfterWrite(waking)
    BY <1>5 DEF WhepBus, writing, waking
  <2>2. CASE z \in AfterWrite(waking)
    BY <1>3, <2>2, AfterWriteGood DEF Kept
  <2> QED BY <1>2, <2>1, <2>2 DEF Kept
<1> QED BY <1>4, <1>5

LEMMA NewTaskGood ==
  ASSUME NEW t \in Task, NEW id \in Ufrag, NEW room \in Room
  PROVE  GoodSession(t, NewTask(id, room))
<1> DEFINE s == NewTask(id, room)
<1>1. s \in Sessions /\ s.out = <<>> /\ s.rtc = <<>> /\ s.link = "new" /\ s.closed = FALSE
  BY DEF NewTask, Sessions
<1> HIDE DEF s
<1>2. GoodSession(t, s)
  BY <1>1 DEF GoodSession, OutGood, Paid, RtcGood, Silent
<1> QED BY <1>2 DEF s

\* A task that is told to shut down takes back its subscriptions behind all
\* that it has still to hand out.
LEMMA ShutdownGood ==
  ASSUME NEW t \in Living, SessionsGood
  PROVE  /\ GoodSession(t, OnShutdown(t)) /\ OnShutdown(t).rtc = <<>>
         /\ OnShutdown(t).id = tasks[t].id /\ OnShutdown(t).room = tasks[t].room
         /\ \A c \in Channel : c[2] = tasks[t].room /\ Suits(t, c) =>
              \E i \in 1..Len(OnShutdown(t).out) : OnShutdown(t).out[i] = Unsubscribe(c)
<1> DEFINE s == tasks[t]
           f == Farewell(t)
           z == OnShutdown(t)
<1>1. GoodSession(t, s) /\ t \in Task /\ t[1] \in {"whip", "whep"}
  BY TaskKinds DEF SessionsGood, Living
<1>2. s \in Sessions /\ s.out \in Seq(ForWorker) /\ s.room \in Room
  BY <1>1 DEF GoodSession, Sessions
<1>3. /\ f \in Seq(ForWorker)
      /\ \A i \in 1..Len(f) : \E c \in Channel : f[i] = Unsubscribe(c) /\ c[2] = s.room /\ Suits(t, c)
      /\ \A c \in Channel : c[2] = s.room /\ Suits(t, c) => \E i \in 1..Len(f) : f[i] = Unsubscribe(c)
  <2> DEFINE pli == <<"pli", s.room>>
             audio == <<"audio", s.room>>
             video == <<"video", s.room>>
  <2>1. pli \in Channel /\ audio \in Channel /\ video \in Channel
    BY <1>2 DEF Channel, Media
  <2>2. /\ Unsubscribe(pli) \in ForWorker /\ Unsubscribe(audio) \in ForWorker
        /\ Unsubscribe(video) \in ForWorker
    BY <2>1 DEF Unsubscribe, ForWorker
  <2>3. \A c \in Channel : c[2] = s.room => c = pli \/ c = audio \/ c = video
    BY DEF Channel, Media
  <2>4. CASE t[1] = "whip"
    <3>1. f = <<Unsubscribe(pli)>>
      BY <2>4 DEF Farewell, WhipFarewell, WhipListens
    <3>2. Len(f) = 1 /\ f[1] = Unsubscribe(pli) /\ f \in Seq(ForWorker)
      BY <2>2, <3>1
    <3>3. Suits(t, pli) /\ ~Suits(t, audio) /\ ~Suits(t, video) /\ pli[2] = s.room
      BY <2>4 DEF Suits
    <3> HIDE DEF f, pli, audio, video
    <3> QED BY <2>1, <2>3, <3>2, <3>3
  <2>5. CASE t[1] = "whep"
    <3>1. f = <<Unsubscribe(audio), Unsubscribe(video)>>
      BY <2>5 DEF Farewell, WhepFarewell
    <3>2. /\ Len(f) = 2 /\ f[1] = Unsubscribe(audio) /\ f[2] = Unsubscribe(video)
          /\ f \in Seq(ForWorker)
      BY <2>2, <3>1
    <3>3. /\ ~Suits(t, pli) /\ Suits(t, audio) /\ Suits(t, video)
          /\ audio[2] = s.room /\ video[2] = s.room
      BY <2>5 DEF Suits
    <3>4. 1 \in 1..2 /\ 2 \in 1..2 /\ \A i \in 1..2 : i = 1 \/ i = 2
      OBVIOUS
    <3> HIDE DEF f, pli, audio, video
    <3>5. \A i \in 1..Len(f) : \E c \in Channel : f[i] = Unsubscribe(c) /\ c[2] = s.room /\ Suits(t, c)
      BY <2>1, <3>2, <3>3, <3>4
    <3>6. \A c \in Channel : c[2] = s.room /\ Suits(t, c) => \E i \in 1..Len(f) : f[i] = Unsubscribe(c)
      BY <2>3, <3>2, <3>3, <3>4
    <3> QED BY <3>2, <3>5, <3>6
  <2> QED BY <1>1, <2>4, <2>5
<1> HIDE DEF f
<1>4. s.out \o f \in Seq(ForWorker)
  BY <1>2, <1>3
<1>5. z = [s EXCEPT !.input = TRUE, !.rtc = <<>>, !.link = "dead", !.out = s.out \o f, !.closed = TRUE]
  BY <1>2 DEF OnShutdown, f, Sessions
<1>6. /\ z \in Sessions /\ z.rtc = <<>> /\ z.link = "dead" /\ z.out = s.out \o f /\ z.closed = TRUE
      /\ z.id = s.id /\ z.room = s.room
  <2> DEFINE q == s.out \o f
  <2>1. /\ q \in Seq(ForWorker) /\ <<>> \in Seq(FromRtc)
        /\ z = [s EXCEPT !.input = TRUE, !.rtc = <<>>, !.link = "dead", !.out = q, !.closed = TRUE]
    BY <1>4, <1>5
  <2> HIDE DEF q, z, s
  <2>2. /\ z \in Sessions /\ z.rtc = <<>> /\ z.link = "dead" /\ z.out = q /\ z.closed = TRUE
        /\ z.id = s.id /\ z.room = s.room
    BY <1>2, <2>1 DEF Sessions
  <2> QED BY <2>2 DEF q
<1> DEFINE n == Len(s.out)
           m == Len(f)
<1>7. /\ n \in Nat /\ m \in Nat /\ Len(z.out) = n + m
      /\ \A i \in 1..n : z.out[i] = s.out[i]
      /\ \A i \in 1..m : z.out[n + i] = f[i]
      /\ \A i \in 1..(n + m) : i \in 1..n \/ (i - n \in 1..m /\ z.out[i] = f[i - n])
  BY <1>2, <1>3, <1>6
<1> HIDE DEF z, n, m, s
<1>8. \A c \in Channel : c[2] = s.room /\ Suits(t, c) =>
        \E j \in 1..Len(z.out) : j > n /\ z.out[j] = Unsubscribe(c)
  <2> TAKE c \in Channel
  <2> HAVE c[2] = s.room /\ Suits(t, c)
  <2>1. PICK i \in 1..m : f[i] = Unsubscribe(c)
    BY <1>3 DEF m
  <2>2. n + i \in 1..Len(z.out) /\ n + i > n /\ z.out[n + i] = Unsubscribe(c)
    BY <1>7, <2>1
  <2> QED BY <2>2
<1>9. OutGood(t, z)
  <2> SUFFICES ASSUME NEW i \in 1..Len(z.out), z.out[i][1] \in {"subscribe", "unsubscribe"}
               PROVE  z.out[i][2][2] = s.room /\ Suits(t, z.out[i][2])
    BY <1>6 DEF OutGood
  <2>1. CASE i \in 1..n
    BY <1>1, <1>7, <2>1 DEF GoodSession, OutGood, n
  <2>2. CASE i - n \in 1..m /\ z.out[i] = f[i - n]
    BY <1>3, <2>2 DEF m, Unsubscribe
  <2> QED BY <1>7, <2>1, <2>2
<1>10. Paid(z)
  <2> SUFFICES ASSUME NEW i \in 1..Len(z.out), z.out[i][1] = "subscribe"
               PROVE  \E j \in 1..Len(z.out) : j > i /\ z.out[j] = Unsubscribe(z.out[i][2])
    BY DEF Paid
  <2>1. i \in 1..n
    <3>1. CASE i - n \in 1..m /\ z.out[i] = f[i - n]
      <4>1. PICK c \in Channel : f[i - n] = Unsubscribe(c)
        BY <1>3, <3>1 DEF m
      <4> QED BY <3>1, <4>1 DEF Unsubscribe
    <3> QED BY <1>7, <3>1
  <2>2. s.out[i] = z.out[i] /\ s.out[i] \in ForWorker
    BY <1>2, <1>7, <2>1 DEF n
  <2>3. PICK c \in Channel : s.out[i] = <<"subscribe", c>>
    BY <2>2 DEF ForWorker, Net
  <2>4. c[2] = s.room /\ Suits(t, c)
    BY <1>1, <2>1, <2>3 DEF GoodSession, OutGood, n
  <2>5. PICK j \in 1..Len(z.out) : j > n /\ z.out[j] = Unsubscribe(c)
    BY <1>8, <2>4
  <2>6. j > i
    BY <1>7, <2>1, <2>5
  <2> QED BY <2>2, <2>3, <2>5, <2>6
<1>11. RtcGood(t, z)
  BY <1>6 DEF RtcGood, Silent
<1>12. GoodSession(t, z)
  BY <1>6, <1>9, <1>10, <1>11 DEF GoodSession
<1>13. \A c \in Channel : c[2] = s.room /\ Suits(t, c) =>
        \E i \in 1..Len(z.out) : z.out[i] = Unsubscribe(c)
  BY <1>8
<1> QED BY <1>6, <1>12, <1>13 DEF z, s

-----------------------------------------------------------------------------
\* pop_output of a task.

LEMMA RestOfSequence ==
  ASSUME NEW S, NEW q \in Seq(S), NEW n \in 0..Len(q), NEW r, r = SubSeq(q, n + 2, Len(q))
  PROVE  /\ r \in Seq(S)
         /\ \A i \in 1..Len(r) : n + 1 + i \in 1..Len(q) /\ r[i] = q[n + 1 + i]
         /\ n = Len(q) => r = <<>>
<1>1. Len(q) \in Nat /\ n \in Nat /\ n + 2 \in Nat /\ n + 2 >= 1
  OBVIOUS
<1>2. /\ Len(r) = IF n + 2 <= Len(q) THEN Len(q) - (n + 2) + 1 ELSE 0
      /\ r \in Seq(S)
      /\ \A i \in 1..Len(r) : r[i] = q[(n + 2) + i - 1]
  BY <1>1, SubSeqProperties
<1>3. \A i \in 1..Len(r) : n + 1 + i \in 1..Len(q) /\ (n + 2) + i - 1 = n + 1 + i
  BY <1>1, <1>2
<1>4. n = Len(q) => Len(r) = 0
  BY <1>1, <1>2
<1> QED BY <1>2, <1>3, <1>4, EmptySeq

\* The streams a session announces first are passed over.
LEMMA AnnouncedFirst ==
  ASSUME NEW q \in Seq(FromRtc)
  PROVE  /\ Announced(q) \in 0..Len(q)
         /\ \A i \in 1..Announced(q) : q[i][1] = "mid"
         /\ Announced(q) < Len(q) => q[Announced(q) + 1][1] # "mid"
<1> DEFINE T == {n \in 0..Len(q) : n < Len(q) => q[n + 1][1] # "mid"}
<1>1. Len(q) \in Nat /\ T \in SUBSET Nat /\ Len(q) \in T
  OBVIOUS
<1>2. PICK n \in T : \A m \in T : n <= m
  <2> HIDE DEF T
  <2> QED BY <1>1, LeastOf
<1>3. n \in 0..Len(q) /\ (n < Len(q) => q[n + 1][1] # "mid")
  OBVIOUS
<1>4. \A i \in 1..n : q[i][1] = "mid"
  <2> SUFFICES ASSUME NEW i \in 1..n, q[i][1] # "mid"  PROVE FALSE
    OBVIOUS
  <2>1. i - 1 \in 0..Len(q) /\ (i - 1) + 1 = i /\ ~(n <= i - 1)
    BY <1>1, <1>3
  <2>2. i - 1 \in T
    BY <2>1
  <2> QED BY <1>2, <2>1, <2>2
<1> QED BY <1>3, <1>4 DEF Announced

\* What may come of asking the session s of a task that has no output of its
\* own for an output, and what of the session is left, z.
PolledWell(t, s, o, z) ==
  /\ GoodSession(t, z) /\ z.id = s.id /\ z.room = s.room
  /\ o \in ForWorker \cup {Nothing}
  /\ o = Nothing => z.rtc = <<>> /\ z.out = <<>> /\ z.closed = s.closed
  /\ s.closed => z.closed /\ z.out = <<>> /\ o[1] \notin {"subscribe", "unsubscribe"}
  /\ o[1] \in {"subscribe", "unsubscribe"} => o[2] \in Channel /\ o[2][2] = s.room /\ Suits(t, o[2])
  /\ o[1] = "subscribe" => ~z.closed
  /\ z.closed /\ ~s.closed => \A c \in Channel : c[2] = s.room /\ Suits(t, c) =>
       o = Unsubscribe(c) \/ \E i \in 1..Len(z.out) : z.out[i] = Unsubscribe(c)
  /\ z.rtc # <<>> => s.rtc # <<>> /\ z.timeout = s.timeout

LEMMA RoomChannels ==
  ASSUME NEW room \in Room
  PROVE  /\ <<"pli", room>> \in Channel /\ <<"audio", room>> \in Channel /\ <<"video", room>> \in Channel
         /\ \A c \in Channel : c[2] = room =>
              c = <<"pli", room>> \/ c = <<"audio", room>> \/ c = <<"video", room>>
BY DEF Channel, Media

\* After the output at n + 1 a good session is one that is as good, if it is not
\* over before the last of its outputs is a packet.
LEMMA SeenGood ==
  ASSUME NEW t \in Task, NEW s, GoodSession(t, s), NEW n \in 0..Len(s.rtc),
         NEW seen \in Sessions, seen.rtc = SubSeq(s.rtc, n + 2, Len(s.rtc)),
         seen.link = s.link, Kept(s, seen)
  PROVE  /\ GoodSession(t, seen)
         /\ n = Len(s.rtc) => seen.rtc = <<>>
         /\ n < Len(s.rtc) /\ s.rtc[n + 1] = <<"disconnected">> => s.link = "gone" /\ Silent(seen.rtc)
         /\ s.rtc = <<>> => seen.rtc = <<>>
<1>1. PICK q, r : q = s.rtc /\ r = SubSeq(s.rtc, n + 2, Len(s.rtc))
  OBVIOUS
<1>2. s \in Sessions /\ q \in Seq(FromRtc) /\ Len(q) \in Nat /\ n \in 0..Len(q)
  BY <1>1 DEF GoodSession, Sessions
<1>3. r = SubSeq(q, n + 2, Len(q))
  BY <1>1
<1>4. /\ r \in Seq(FromRtc)
      /\ \A i \in 1..Len(r) : n + 1 + i \in 1..Len(q) /\ r[i] = q[n + 1 + i]
      /\ n = Len(q) => r = <<>>
  BY <1>2, <1>3, RestOfSequence
<1>5. /\ seen \in Sessions /\ seen.rtc = r /\ seen.link = s.link /\ Kept(s, seen)
  BY <1>1
<1>6. OutGood(t, seen) /\ Paid(seen)
  BY <1>5 DEF GoodSession, OutGood, Paid, Kept
<1>7. RtcGood(t, s)
  BY DEF GoodSession
<1>8. Silent(q) => Silent(r)
  BY <1>4 DEF Silent
<1>9. RtcGood(t, seen)
  <2>1. \A i \in 1..Len(r) : r[i][1] # IF t[1] = "whip" THEN "keyframe" ELSE "rtp"
    BY <1>1, <1>4, <1>7 DEF RtcGood
  <2>2. s.link = "dead" => r = <<>> /\ seen.closed
    <3> SUFFICES ASSUME s.link = "dead"  PROVE r = <<>> /\ seen.closed
      OBVIOUS
    <3>1. q = <<>> /\ s.closed
      BY <1>1, <1>7 DEF RtcGood
    <3>2. n = Len(q)
      BY <1>2, <3>1
    <3> QED BY <1>4, <1>5, <3>1, <3>2 DEF Kept
  <2>3. ASSUME NEW i \in 1..Len(r), r[i] = <<"disconnected">>
        PROVE  s.link = "gone" /\ \A j \in (i + 1)..Len(r) : r[j] = <<"transmit">>
    <3> DEFINE k == n + 1 + i
    <3>1. k \in 1..Len(q) /\ q[k] = <<"disconnected">> /\ i \in Nat /\ Len(r) \in Nat
      BY <1>4, <2>3
    <3>2. s.link = "gone" /\ \A j \in (k + 1)..Len(q) : q[j] = <<"transmit">>
      BY <1>1, <1>7, <3>1 DEF RtcGood
    <3>3. ASSUME NEW j \in (i + 1)..Len(r)  PROVE r[j] = <<"transmit">>
      <4>1. j \in 1..Len(r) /\ j \in Nat
        BY <3>1
      <4>2. n + 1 + j \in 1..Len(q) /\ r[j] = q[n + 1 + j]
        BY <1>4, <4>1
      <4>3. n + 1 + j \in (k + 1)..Len(q)
        BY <1>2, <3>1, <4>1, <4>2
      <4> QED BY <3>2, <4>2, <4>3
    <3> QED BY <3>2, <3>3
  <2> QED BY <1>1, <1>5, <1>7, <1>8, <2>1, <2>2, <2>3 DEF RtcGood, Kept
<1>10. n < Len(q) /\ q[n + 1] = <<"disconnected">> => s.link = "gone" /\ Silent(r)
  <2> SUFFICES ASSUME n < Len(q), q[n + 1] = <<"disconnected">>
               PROVE  s.link = "gone" /\ Silent(r)
    OBVIOUS
  <2>1. n + 1 \in 1..Len(q)
    BY <1>2
  <2>2. s.link = "gone" /\ \A j \in ((n + 1) + 1)..Len(q) : q[j] = <<"transmit">>
    BY <1>1, <1>7, <2>1 DEF RtcGood
  <2>3. \A i \in 1..Len(r) : n + 1 + i \in ((n + 1) + 1)..Len(q)
    BY <1>2, <1>4
  <2> QED BY <1>4, <2>2, <2>3 DEF Silent
<1>11. q = <<>> => r = <<>>
  BY <1>2, <1>4
<1> QED BY <1>1, <1>4, <1>5, <1>6, <1>9, <1>10, <1>11 DEF GoodSession

\* A session whose task is given outputs of its own, and may be over with them.
LEMMA GivenOut ==
  ASSUME NEW t \in Task, NEW s, GoodSession(t, s), NEW z \in Sessions,
         z.rtc = s.rtc, z.link = s.link, z.room = s.room,
         \A i \in 1..Len(z.out) : z.out[i][1] \in {"subscribe", "unsubscribe"} =>
           z.out[i][2][2] = s.room /\ Suits(t, z.out[i][2]),
         z.closed => /\ s.link = "gone" /\ Silent(s.rtc)
                     /\ \A i \in 1..Len(z.out) : z.out[i][1] # "subscribe",
         ~z.closed => ~s.closed
  PROVE  GoodSession(t, z)
<1>1. s \in Sessions
  BY DEF GoodSession
<1>2. OutGood(t, z) /\ Paid(z)
  BY DEF OutGood, Paid
<1>3. RtcGood(t, z)
  BY DEF GoodSession, RtcGood
<1> QED BY <1>2, <1>3 DEF GoodSession

LEMMA PollRtcGood ==
  ASSUME NEW t \in Task, NEW s, GoodSession(t, s), s.out = <<>>
  PROVE  PolledWell(t, s, PollRtc(t, s)[1], PollRtc(t, s)[2])
<1> DEFINE n == Announced(s.rtc)
           r == SubSeq(s.rtc, n + 2, Len(s.rtc))
           streams == {s.rtc[i][2] : i \in 1..n}
           rest == [s EXCEPT !.rtc = r, !.mids = s.mids \cup streams]
           e == s.rtc[n + 1]
           pli == <<"pli", s.room>>
           audio == <<"audio", s.room>>
           video == <<"video", s.room>>
<1>1. /\ s \in Sessions /\ s.rtc \in Seq(FromRtc) /\ s.room \in Room /\ Len(s.rtc) \in Nat
      /\ s.closed \in BOOLEAN /\ s.timeout \in {"none", "later", "due"} /\ s.mids \in SUBSET Media
      /\ t[1] \in {"whip", "whep"}
  <2>1. s \in Sessions /\ t[1] \in {"whip", "whep"}
    BY TaskKinds DEF GoodSession
  <2> QED BY <2>1 DEF Sessions
<1>2. /\ n \in 0..Len(s.rtc)
      /\ \A i \in 1..n : s.rtc[i][1] = "mid"
      /\ n < Len(s.rtc) => e[1] # "mid"
  BY <1>1, AnnouncedFirst
<1> HIDE DEF n
<1>3. PICK seen : seen = rest
  OBVIOUS
<1>20. PollRtc(t, s) = IF n = Len(s.rtc)
                         THEN <<Nothing, [seen EXCEPT !.timeout = "later"]>>
                         ELSE IF t[1] = "whip" THEN WhipEvent(seen, e) ELSE WhepEvent(seen, e)
  <2>1. rest = [s EXCEPT !.rtc = SubSeq(@, n + 2, Len(@)),
                         !.mids = @ \cup {s.rtc[i][2] : i \in 1..n}]
    BY <1>1 DEF Sessions
  <2> HIDE DEF rest, e
  <2> QED BY <1>3, <2>1 DEF PollRtc, n, e
<1>21. r \in Seq(FromRtc)
  <2>1. PICK q : q = s.rtc
    OBVIOUS
  <2>2. q \in Seq(FromRtc) /\ n \in 0..Len(q) /\ r = SubSeq(q, n + 2, Len(q))
    BY <1>1, <1>2, <2>1
  <2> QED BY <2>2, RestOfSequence
<1>22. streams \in SUBSET Media
  <2> SUFFICES ASSUME NEW i \in 1..n  PROVE s.rtc[i][2] \in Media
    OBVIOUS
  <2>1. s.rtc[i] \in FromRtc /\ s.rtc[i][1] = "mid"
    BY <1>1, <1>2
  <2> QED BY <2>1 DEF FromRtc
<1>23. /\ seen \in Sessions /\ Kept(s, seen) /\ seen.timeout = s.timeout /\ seen.link = s.link
       /\ seen.rtc = r
  <2> HIDE DEF r, streams
  <2> QED BY <1>1, <1>3, <1>21, <1>22 DEF Sessions, Kept
<1>4. /\ GoodSession(t, seen)
      /\ n = Len(s.rtc) => seen.rtc = <<>>
      /\ n < Len(s.rtc) /\ e = <<"disconnected">> => s.link = "gone" /\ Silent(seen.rtc)
      /\ s.rtc = <<>> => seen.rtc = <<>>
  BY <1>2, <1>23, SeenGood
<1>5. /\ seen.id = s.id /\ seen.room = s.room /\ seen.out = <<>> /\ seen.closed = s.closed
      /\ seen.timeout = s.timeout /\ seen.link = s.link
  BY <1>23 DEF Kept
<1>6. /\ pli \in Channel /\ audio \in Channel /\ video \in Channel
      /\ \A c \in Channel : c[2] = s.room => c = pli \/ c = audio \/ c = video
      /\ pli[2] = s.room /\ audio[2] = s.room /\ video[2] = s.room
      /\ t[1] = "whip" => Suits(t, pli) /\ ~Suits(t, audio) /\ ~Suits(t, video)
      /\ t[1] = "whep" => ~Suits(t, pli) /\ Suits(t, audio) /\ Suits(t, video)
  BY <1>1, RoomChannels DEF Suits
<1> HIDE DEF r, streams, rest, e, pli, audio, video
<1>7. CASE n = Len(s.rtc)
  <2> DEFINE z == [seen EXCEPT !.timeout = "later"]
  <2>1. PollRtc(t, s)[1] = Nothing /\ PollRtc(t, s)[2] = z
    BY <1>20, <1>7
  <2>2. /\ z \in Sessions /\ Kept(seen, z) /\ z.rtc = seen.rtc /\ z.link = seen.link
    BY <1>4 DEF GoodSession, Sessions, Kept
  <2> HIDE DEF z
  <2>3. GoodSession(t, z) /\ z.rtc = <<>> /\ z.out = <<>> /\ z.closed = s.closed
        /\ z.id = s.id /\ z.room = s.room
    BY <1>4, <1>5, <1>7, <2>2, TouchedGood DEF Kept
  <2>4. Nothing[1] = "nothing"
    BY DEF Nothing
  <2> QED BY <1>5, <2>1, <2>3, <2>4 DEF PolledWell
<1>8. CASE n < Len(s.rtc)
  <2>1. n + 1 \in 1..Len(s.rtc) /\ e \in FromRtc /\ e[1] # "mid"
        /\ e[1] # IF t[1] = "whip" THEN "keyframe" ELSE "rtp"
    BY <1>1, <1>2, <1>8 DEF e, GoodSession, RtcGood
  <2>2. s.rtc # <<>> /\ (s.closed => e = <<"transmit">>)
    BY <1>1, <2>1 DEF e, GoodSession, RtcGood, Silent
  <2>3. PollRtc(t, s) = IF t[1] = "whip" THEN WhipEvent(seen, e) ELSE WhepEvent(seen, e)
    BY <1>1, <1>20, <1>8
  <2>4. CASE e[1] = "transmit"
    <3>1. PollRtc(t, s)[1] = Net /\ PollRtc(t, s)[2] = seen
      BY <2>3, <2>4 DEF WhipEvent, WhepEvent
    <3>2. Net[1] = "net" /\ Net \in ForWorker /\ Net # Nothing
      BY DEF Net, ForWorker, Nothing
    <3> QED BY <1>4, <1>5, <2>2, <3>1, <3>2 DEF PolledWell
  <2>5. CASE e[1] = "connected"
    <3>1. ~s.closed
      BY <2>2, <2>5
    <3>2. CASE t[1] = "whip"
      <4>1. PollRtc(t, s)[1] = Subscribe(pli) /\ PollRtc(t, s)[2] = seen
        BY <1>5, <2>3, <2>5, <3>2 DEF WhipEvent, WhipListens, pli
      <4>2. /\ Subscribe(pli) \in ForWorker /\ Subscribe(pli) # Nothing
            /\ Subscribe(pli)[1] = "subscribe" /\ Subscribe(pli)[2] = pli
        BY <1>6 DEF Subscribe, ForWorker, Nothing
      <4> QED BY <1>4, <1>5, <1>6, <2>2, <3>1, <3>2, <4>1, <4>2 DEF PolledWell
    <3>3. CASE t[1] = "whep"
      <4>1. PICK a, b : a = Subscribe(video) /\ b = Publish(pli, TRUE)
        OBVIOUS
      <4> DEFINE out == <<a, b>>
                 z == [seen EXCEPT !.out = out]
      <4>2. PollRtc(t, s)[1] = Subscribe(audio) /\ PollRtc(t, s)[2] = z
        BY <1>5, <2>3, <2>5, <3>3, <4>1 DEF WhepEvent, audio, video, pli
      <4>3. /\ Subscribe(audio) \in ForWorker /\ Subscribe(audio) # Nothing
            /\ Subscribe(audio)[1] = "subscribe" /\ Subscribe(audio)[2] = audio
        BY <1>6 DEF Subscribe, ForWorker, Nothing
      <4>4. /\ a \in ForWorker /\ b \in ForWorker /\ a[2] = video
            /\ a[1] = "subscribe" /\ b[1] = "publish"
        BY <1>6, <4>1 DEF Subscribe, Publish, ForWorker
      <4>5. out \in Seq(ForWorker) /\ Len(out) = 2 /\ out[1] = a /\ out[2] = b
        BY <4>4
      <4> HIDE DEF out
      <4>6. /\ z \in Sessions /\ z.out = out /\ z.closed = seen.closed /\ z.id = seen.id
            /\ z.room = seen.room /\ z.rtc = seen.rtc /\ z.timeout = seen.timeout /\ z.link = seen.link
        BY <1>23, <4>5 DEF Sessions
      <4> HIDE DEF z
      <4>7. \A i \in 1..Len(z.out) : z.out[i][1] \in {"subscribe", "unsubscribe"} =>
              z.out[i][2][2] = seen.room /\ Suits(t, z.out[i][2])
        <5>1. \A i \in 1..2 : i = 1 \/ i = 2
          OBVIOUS
        <5> QED BY <1>5, <1>6, <3>3, <4>4, <4>5, <4>6, <5>1
      <4>8. GoodSession(t, z) /\ ~z.closed
        BY <1>4, <1>5, <3>1, <4>6, <4>7, GivenOut
      <4> QED BY <1>4, <1>5, <1>6, <2>2, <3>1, <3>3, <4>2, <4>3, <4>6, <4>8 DEF PolledWell
    <3> QED BY <1>1, <3>2, <3>3
  <2>6. CASE e[1] = "disconnected"
    <3>1. e = <<"disconnected">>
      BY <2>1, <2>6 DEF FromRtc
    <3>2. ~s.closed /\ seen.link = "gone" /\ Silent(seen.rtc)
      <4>1. <<"disconnected">> # <<"transmit">>
        <5>1. <<"disconnected">>[1] # <<"transmit">>[1]
          OBVIOUS
        <5> QED BY <5>1
      <4> QED BY <1>4, <1>5, <1>8, <2>2, <3>1, <4>1
    <3>3. CASE t[1] = "whip"
      <4> DEFINE z == [seen EXCEPT !.closed = TRUE]
      <4>1. PollRtc(t, s)[1] = Unsubscribe(pli) /\ PollRtc(t, s)[2] = z
        BY <1>5, <2>3, <2>6, <3>3 DEF WhipEvent, WhipFarewell, WhipListens, pli
      <4>2. /\ Unsubscribe(pli) \in ForWorker /\ Unsubscribe(pli) # Nothing
            /\ Unsubscribe(pli)[1] = "unsubscribe" /\ Unsubscribe(pli)[2] = pli
        BY <1>6 DEF Unsubscribe, ForWorker, Nothing
      <4>3. /\ z \in Sessions /\ z.out = seen.out /\ z.closed = TRUE /\ z.id = seen.id
            /\ z.room = seen.room /\ z.rtc = seen.rtc /\ z.timeout = seen.timeout /\ z.link = seen.link
        BY <1>23 DEF Sessions
      <4> HIDE DEF z
      <4>4. Len(z.out) = 0 /\ 1..0 = {}
        BY <1>5, <4>3
      <4>5. GoodSession(t, z)
        BY <1>4, <1>5, <3>2, <4>3, <4>4, GivenOut
      <4>6. \A c \in Channel : c[2] = s.room /\ Suits(t, c) => c = pli
        BY <1>6, <3>3
      <4> QED BY <1>4, <1>5, <1>6, <2>2, <3>2, <3>3, <4>1, <4>2, <4>3, <4>5, <4>6 DEF PolledWell
    <3>4. CASE t[1] = "whep"
      <4>1. PICK a : a = Unsubscribe(video)
        OBVIOUS
      <4> DEFINE out == <<a>>
                 z == [seen EXCEPT !.out = out, !.closed = TRUE]
      <4>2. PollRtc(t, s)[1] = Unsubscribe(audio) /\ PollRtc(t, s)[2] = z
        <5>1. PICK b : b = Unsubscribe(audio)
          OBVIOUS
        <5>2. WhepFarewell(seen.room) = <<b, a>>
          BY <1>5, <4>1, <5>1 DEF WhepFarewell, audio, video
        <5>3. WhepFarewell(seen.room)[1] = Unsubscribe(audio) /\ Tail(WhepFarewell(seen.room)) = out
          BY <5>1, <5>2
        <5>4. WhepEvent(seen, e) =
                <<WhepFarewell(seen.room)[1],
                  [seen EXCEPT !.out = Tail(WhepFarewell(seen.room)), !.closed = TRUE]>>
          BY <2>6 DEF WhepEvent
        <5>5. PollRtc(t, s) = WhepEvent(seen, e)
          BY <2>3, <3>4
        <5>6. PollRtc(t, s) = <<Unsubscribe(audio), [seen EXCEPT !.out = out, !.closed = TRUE]>>
          <6> HIDE DEF out
          <6> QED BY <5>3, <5>4, <5>5
        <5> HIDE DEF out
        <5> QED BY <5>6
      <4>3. /\ Unsubscribe(audio) \in ForWorker /\ Unsubscribe(audio) # Nothing
            /\ Unsubscribe(audio)[1] = "unsubscribe" /\ Unsubscribe(audio)[2] = audio
            /\ a \in ForWorker /\ a[1] = "unsubscribe" /\ a[2] = video
        BY <1>6, <4>1 DEF Unsubscribe, ForWorker, Nothing
      <4>4. out \in Seq(ForWorker) /\ Len(out) = 1 /\ out[1] = a
        BY <4>3
      <4> HIDE DEF out
      <4>5. /\ z \in Sessions /\ z.out = out /\ z.closed = TRUE /\ z.id = seen.id
            /\ z.room = seen.room /\ z.rtc = seen.rtc /\ z.timeout = seen.timeout /\ z.link = seen.link
        BY <1>23, <4>4 DEF Sessions
      <4> HIDE DEF z
      <4>6. \A i \in 1..1 : i = 1
        OBVIOUS
      <4>7. \A i \in 1..Len(z.out) : /\ z.out[i][1] # "subscribe"
                                     /\ z.out[i][2][2] = seen.room /\ Suits(t, z.out[i][2])
        BY <1>5, <1>6, <3>4, <4>3, <4>4, <4>5, <4>6
      <4>8. GoodSession(t, z)
        BY <1>4, <1>5, <3>2, <4>5, <4>7, GivenOut
      <4>9. \A c \in Channel : c[2] = s.room /\ Suits(t, c) =>
              Unsubscribe(audio) = Unsubscribe(c)
                \/ \E i \in 1..Len(z.out) : z.out[i] = Unsubscribe(c)
        <5> SUFFICES ASSUME NEW c \in Channel, c[2] = s.room, Suits(t, c)
                     PROVE  \/ Unsubscribe(audio) = Unsubscribe(c)
                            \/ \E i \in 1..Len(z.out) : z.out[i] = Unsubscribe(c)
          OBVIOUS
        <5>1. c = audio \/ c = video
          BY <1>6, <3>4
        <5>2. 1 \in 1..Len(z.out) /\ z.out[1] = Unsubscribe(video)
          <6>1. z.out = out
            BY <4>5
          <6>2. Len(z.out) = 1 /\ z.out[1] = a
            BY <4>4, <6>1
          <6> QED BY <4>1, <6>2
        <5> QED BY <5>1, <5>2
      <4> QED BY <1>4, <1>5, <1>6, <2>2, <3>2, <3>4, <4>2, <4>3, <4>5, <4>8, <4>9 DEF PolledWell
    <3> QED BY <1>1, <3>3, <3>4
  <2>7. CASE e[1] \in {"rtp", "keyframe"}
    <3>1. ~s.closed
      BY <2>2, <2>7
    <3>2. PICK c \in Channel : PollRtc(t, s) = <<Publish(c, FALSE), seen>>
      <4>1. CASE t[1] = "whip"
        <5>1. e[1] = "rtp" /\ e[2] \in Media
          BY <2>1, <2>7, <4>1 DEF FromRtc
        <5>2. <<e[2], s.room>> \in Channel
          BY <1>1, <5>1 DEF Channel
        <5>3. WhipEvent(seen, e) = <<Publish(<<e[2], s.room>>, FALSE), seen>>
          BY <1>5, <5>1 DEF WhipEvent
        <5> QED BY <2>3, <4>1, <5>2, <5>3
      <4>2. CASE t[1] = "whep"
        <5>1. e[1] = "keyframe"
          BY <2>1, <2>7, <4>2
        <5>2. WhepEvent(seen, e) = <<Publish(pli, FALSE), seen>>
          BY <1>5, <5>1 DEF WhepEvent, pli
        <5> QED BY <1>6, <2>3, <4>2, <5>2
      <4> QED BY <1>1, <4>1, <4>2
    <3>3. /\ Publish(c, FALSE) \in ForWorker /\ Publish(c, FALSE) # Nothing
          /\ Publish(c, FALSE)[1] = "publish"
      BY DEF Publish, ForWorker, Nothing
    <3>4. PollRtc(t, s)[1] = Publish(c, FALSE) /\ PollRtc(t, s)[2] = seen
      BY <3>2
    <3> QED BY <1>4, <1>5, <2>2, <3>1, <3>3, <3>4 DEF PolledWell
  <2>8. e[1] \in {"connected", "disconnected", "transmit", "keyframe", "rtp"}
    BY <2>1 DEF FromRtc
  <2> QED BY <2>4, <2>5, <2>6, <2>7, <2>8
<1> QED BY <1>1, <1>2, <1>7, <1>8

\* What may come of asking the task s for an output, and what is left of it, z.
\* Unless its own unsubscription is what it hands out, a task that is over has
\* it still to hand out.
PoppedWell(t, s, o, z) ==
  /\ GoodSession(t, z) /\ z.id = s.id /\ z.room = s.room
  /\ o \in ForWorker \cup {Nothing}
  /\ o = Nothing => /\ s.out = <<>> /\ z.out = <<>> /\ z.closed = s.closed
                    /\ z.rtc # <<>> => s.timeout = "later" /\ s.rtc # <<>>
  /\ o[1] \in {"subscribe", "unsubscribe"} => o[2] \in Channel /\ o[2][2] = s.room /\ Suits(t, o[2])
  /\ z.closed => \A c \in Channel :
       /\ o # Unsubscribe(c)
       /\ \/ o = Subscribe(c)
          \/ /\ c[2] = s.room /\ Suits(t, c)
             /\ s.closed => \E i \in 1..Len(s.out) : s.out[i] = Unsubscribe(c)
       => \E i \in 1..Len(z.out) : z.out[i] = Unsubscribe(c)
  /\ z.rtc # <<>> => s.rtc # <<>> /\ z.timeout = s.timeout

LEMMA ForWorkerChannel ==
  ASSUME NEW o \in ForWorker, o[1] \in {"subscribe", "unsubscribe"}
  PROVE  o[2] \in Channel /\ o = <<o[1], o[2]>>
BY DEF ForWorker, Net

\* A task hands out what it has of its own first.
LEMMA PopOwnGood ==
  ASSUME NEW t \in Task, NEW s, GoodSession(t, s), s.out # <<>>, NEW z \in Sessions,
         z.out = Tail(s.out), z.rtc = s.rtc, z.link = s.link, z.timeout = s.timeout,
         z.closed = s.closed, z.id = s.id, z.room = s.room
  PROVE  PoppedWell(t, s, Head(s.out), z)
<1>1. PICK q, n : q = s.out /\ n = Len(s.out)
  OBVIOUS
<1>2. q \in Seq(ForWorker) /\ q # <<>> /\ s \in Sessions
  BY <1>1 DEF GoodSession, Sessions
<1>3. n \in Nat /\ n >= 1 /\ Len(z.out) = n - 1 /\ Head(q) = q[1] /\ q[1] \in ForWorker
  BY <1>1, <1>2
<1>4. \A i \in 1..(n - 1) : i + 1 \in 1..n /\ z.out[i] = q[i + 1]
  BY <1>1, <1>2, <1>3
<1>5. \A j \in 1..n : j = 1 \/ (j - 1 \in 1..(n - 1) /\ z.out[j - 1] = q[j])
  BY <1>1, <1>2, <1>3
<1>6. \A i \in 1..n : q[i][1] \in {"subscribe", "unsubscribe"} =>
        q[i][2][2] = s.room /\ Suits(t, q[i][2])
  BY <1>1 DEF GoodSession, OutGood
<1>7. s.closed => \A i \in 1..n : q[i][1] = "subscribe" =>
        \E j \in 1..n : j > i /\ q[j] = Unsubscribe(q[i][2])
  BY <1>1 DEF GoodSession, Paid
<1>8. OutGood(t, z)
  BY <1>3, <1>4, <1>6 DEF OutGood
<1>9. Paid(z)
  <2> SUFFICES ASSUME s.closed, NEW i \in 1..(n - 1), z.out[i][1] = "subscribe"
               PROVE  \E j \in 1..(n - 1) : j > i /\ z.out[j] = Unsubscribe(z.out[i][2])
    BY <1>3 DEF Paid
  <2>1. i + 1 \in 1..n /\ z.out[i] = q[i + 1]
    BY <1>4
  <2>2. PICK k \in 1..n : k > i + 1 /\ q[k] = Unsubscribe(q[i + 1][2])
    BY <1>7, <2>1
  <2>3. k - 1 \in 1..(n - 1) /\ k - 1 > i /\ z.out[k - 1] = q[k]
    BY <1>3, <1>5, <2>2
  <2> QED BY <2>1, <2>2, <2>3
<1>10. RtcGood(t, z)
  BY DEF GoodSession, RtcGood
<1>11. GoodSession(t, z)
  BY <1>8, <1>9, <1>10 DEF GoodSession
<1>12. q[1] # Nothing
  BY <1>3 DEF ForWorker, Net, Nothing
<1>13. ASSUME NEW c \in Channel, z.closed, q[1] # Unsubscribe(c),
              \/ q[1] = Subscribe(c)
              \/ s.closed => \E i \in 1..n : q[i] = Unsubscribe(c)
       PROVE  \E i \in 1..Len(z.out) : z.out[i] = Unsubscribe(c)
  <2>1. 1 \in 1..n /\ Subscribe(c)[1] = "subscribe" /\ Subscribe(c)[2] = c
    BY <1>3 DEF Subscribe
  <2>2. PICK j \in 1..n : q[j] = Unsubscribe(c)
    <3>1. CASE q[1] = Subscribe(c)
      BY <1>7, <1>13, <2>1, <3>1
    <3> QED BY <1>13, <3>1
  <2>3. j - 1 \in 1..(n - 1) /\ z.out[j - 1] = q[j]
    BY <1>5, <1>13, <2>2
  <2> QED BY <1>3, <2>2, <2>3
<1>14. q[1][1] \in {"subscribe", "unsubscribe"} =>
         q[1][2] \in Channel /\ q[1][2][2] = s.room /\ Suits(t, q[1][2])
  BY <1>3, <1>6, ForWorkerChannel
<1> QED BY <1>1, <1>3, <1>11, <1>12, <1>13, <1>14 DEF PoppedWell

LEMMA PopOutputGood ==
  ASSUME NEW t \in Living, SessionsGood
  PROVE  PoppedWell(t, tasks[t], PopOutput(t)[1], PopOutput(t)[2])
<1>1. PICK s : s = tasks[t]
  OBVIOUS
<1>2. GoodSession(t, s) /\ t \in Task /\ s \in Sessions
  BY <1>1 DEF SessionsGood, Living, GoodSession
<1>3. PICK asked : asked = [s EXCEPT !.input = FALSE]
  OBVIOUS
<1>4. /\ asked \in Sessions /\ asked.id = s.id /\ asked.room = s.room /\ asked.out = s.out
      /\ asked.closed = s.closed /\ asked.rtc = s.rtc /\ asked.link = s.link /\ asked.timeout = s.timeout
  BY <1>2, <1>3 DEF Sessions
<1>5. GoodSession(t, asked)
  BY <1>2, <1>4, TouchedGood DEF Kept
<1>6. PopOutput(t) =
        CASE asked.out # <<>> -> <<Head(asked.out), [asked EXCEPT !.out = Tail(@)]>>
          [] asked.out = <<>> /\ ~tasks[t].input /\ asked.timeout = "later" -> <<Nothing, asked>>
          [] OTHER -> PollRtc(t, asked)
  BY <1>1, <1>3 DEF PopOutput
<1>7. CASE s.out # <<>>
  <2> DEFINE z == [asked EXCEPT !.out = Tail(asked.out)]
  <2>1. PopOutput(t) = <<Head(s.out), z>>
    <3>1. z = [asked EXCEPT !.out = Tail(@)]
      BY <1>4 DEF Sessions
    <3> HIDE DEF z
    <3> QED BY <1>4, <1>6, <1>7, <3>1
  <2>2. Tail(asked.out) \in Seq(ForWorker)
    <3>1. asked.out \in Seq(ForWorker)
      BY <1>4 DEF Sessions
    <3> QED BY <1>4, <1>7, <3>1
  <2>3. /\ z \in Sessions /\ z.out = Tail(asked.out) /\ z.id = asked.id /\ z.room = asked.room
        /\ z.closed = asked.closed /\ z.rtc = asked.rtc /\ z.link = asked.link
        /\ z.timeout = asked.timeout
    <3>1. PICK q : q = Tail(asked.out)
      OBVIOUS
    <3> QED BY <1>4, <2>2, <3>1 DEF Sessions
  <2> HIDE DEF z
  <2>4. PopOutput(t)[1] = Head(s.out) /\ PopOutput(t)[2] = z
    BY <2>1
  <2>5. PoppedWell(t, s, Head(s.out), z)
    BY <1>2, <1>4, <1>7, <2>3, PopOwnGood
  <2> QED BY <1>1, <2>4, <2>5
<1>8. CASE s.out = <<>> /\ ~tasks[t].input /\ asked.timeout = "later"
  <2>1. PopOutput(t)[1] = Nothing /\ PopOutput(t)[2] = asked
    BY <1>4, <1>6, <1>8
  <2>2. Nothing[1] = "nothing" /\ \A c \in Channel : Nothing # Subscribe(c)
    BY DEF Nothing, Subscribe
  <2> QED BY <1>1, <1>4, <1>5, <1>8, <2>1, <2>2 DEF PoppedWell
<1>9. CASE s.out = <<>> /\ ~(~tasks[t].input /\ asked.timeout = "later")
  <2>1. PICK o, z : o = PollRtc(t, asked)[1] /\ z = PollRtc(t, asked)[2]
    OBVIOUS
  <2>2. PopOutput(t)[1] = o /\ PopOutput(t)[2] = z
    BY <1>4, <1>6, <1>9, <2>1
  <2>3. PolledWell(t, asked, o, z)
    <3>1. PolledWell(t, asked, PollRtc(t, asked)[1], PollRtc(t, asked)[2])
      BY <1>2, <1>4, <1>5, <1>9, PollRtcGood
    <3> QED BY <2>1, <3>1
  <2>4. \A c \in Channel : Subscribe(c)[1] = "subscribe" /\ Unsubscribe(c)[1] = "unsubscribe"
    BY DEF Subscribe, Unsubscribe
  <2>5. 1..Len(s.out) = {}
    BY <1>9
  <2> QED BY <1>1, <1>4, <1>9, <2>2, <2>3, <2>4, <2>5 DEF PolledWell, PoppedWell
<1> QED BY <1>7, <1>8, <1>9

-----------------------------------------------------------------------------
\* The inductive invariant of the worker.

TypesGood ==
  /\ TypeOK /\ inbox \in Seq(Asks)
  /\ "asked" \in DOMAIN env /\ env.asked \in 0..MaxRequests

\* No task before the port is bound.
BoundFirst == Living # {} => port.bound

\* A request in the control leg is new to all but the http server.
FreshIds ==
  {id \in Ufrag : /\ id \in reqs /\ id <= env.asked /\ port.ufrags[id] = None
                  /\ \A j \in 1..Len(output) : output[j] # id
                  /\ \A t \in Living : tasks[t].id # id}

RequestsFresh ==
  \A i \in 1..Len(inbox) : inbox[i].kind # "shutdown" =>
    inbox[i].id \in FreshIds /\ \A j \in 1..Len(inbox) : j # i => inbox[j].id # inbox[i].id

\* A response has a request that waits for it, and no other response has.
ResponsesOwed ==
  \A j \in 1..Len(output) : output[j] # Listen =>
    /\ output[j] \in reqs /\ output[j] <= env.asked
    /\ \A k \in 1..Len(output) : k # j => output[k] # output[j]

TasksApart ==
  \A t \in Living : tasks[t].id <= env.asked /\ \A s \in Living : s # t => tasks[s].id # tasks[t].id

UfragsAsked == \A u \in Ufrag : port.ufrags[u] # None => u <= env.asked

Ids == RequestsFresh /\ ResponsesOwed /\ TasksApart /\ UfragsAsked

\* PublisherEntriesOwn, and the way back of the entry.
Entries ==
  \A u \in Ufrag, t \in Task :
    port.ufrags[u] = t /\ t[1] = "whip" => t \in Living /\ tasks[t].id = u /\ port.ufragOf[t] = u

\* What a viewer's session has to say will be asked for before the worker rests.
Drained ==
  \A t \in Living : t[1] = "whep" /\ tasks[t].rtc # <<>> =>
    popping /\ t \in flagged /\ tasks[t].timeout # "later"

OwnersSuit == \A t \in fanout.todo : Suits(t, fanout.chan)

SfuInv ==
  /\ TypesGood /\ SessionsGood /\ SubscribersBelong /\ BoundFirst /\ Ids /\ Entries
  /\ Drained /\ OwnersSuit /\ AssertionsHold

\* Tasks that take inputs only.
GoesOn ==
  /\ tasks' \in [Task -> Sessions \cup {None}] /\ Living' = Living
  /\ \A t \in Living : GoodSession(t, tasks'[t]) /\ Kept(tasks[t], tasks'[t])

LEMMA LivingTasks ==
  ASSUME TypesGood
  PROVE  /\ Living \subseteq Task /\ flagged \subseteq Living
         /\ \A t \in Living : tasks[t] \in Sessions /\ tasks[t] # None
BY DEF TypesGood, TypeOK, Living

LEMMA TasksStay ==
  ASSUME TypesGood, SessionsGood, tasks' = tasks
  PROVE  GoesOn
BY DEF TypesGood, TypeOK, SessionsGood, GoesOn, Living, Kept

LEMMA OneGoesOn ==
  ASSUME TypesGood, SessionsGood, NEW t \in Living, NEW z, GoodSession(t, z), Kept(tasks[t], z),
         tasks' = [tasks EXCEPT ![t] = z]
  PROVE  GoesOn
<1>1. z \in Sessions /\ z # None /\ t \in Task
  BY SessionAssumption DEF GoodSession, Living
<1>2. tasks \in [Task -> Sessions \cup {None}]
  BY DEF TypesGood, TypeOK
<1>3. \A s \in Task : tasks'[s] = IF s = t THEN z ELSE tasks[s]
  BY <1>2
<1>4. tasks' \in [Task -> Sessions \cup {None}]
  BY <1>1, <1>2
<1>5. Living' = Living
  BY <1>1, <1>3 DEF Living
<1>6. \A s \in Living : GoodSession(s, tasks'[s]) /\ Kept(tasks[s], tasks'[s])
  BY <1>3 DEF SessionsGood, Kept, Living
<1> QED BY <1>4, <1>5, <1>6 DEF GoesOn

LEMMA GoingOn ==
  ASSUME SfuInv, GoesOn, hub' = hub, port.bound => port'.bound,
         port'.ufrags = port.ufrags, port'.ufragOf = port.ufragOf
  PROVE  /\ SessionsGood' /\ SubscribersBelong' /\ BoundFirst' /\ Entries'
         /\ env'.asked = env.asked => TasksApart' /\ UfragsAsked'
         /\ reqs' = reqs /\ env'.asked = env.asked /\ output' = output => FreshIds \subseteq FreshIds'
<1>1. /\ Living' = Living
      /\ \A t \in Living : GoodSession(t, tasks'[t]) /\ Kept(tasks[t], tasks'[t])
  BY DEF GoesOn
<1>2. SessionsGood'
  BY <1>1 DEF SessionsGood
<1>3. SubscribersBelong'
  BY <1>1 DEF SfuInv, SubscribersBelong, Kept
<1>4. BoundFirst'
  BY <1>1 DEF SfuInv, BoundFirst
<1>5. Entries'
  BY <1>1 DEF SfuInv, Entries, Kept
<1>6. env'.asked = env.asked => TasksApart' /\ UfragsAsked'
  BY <1>1 DEF SfuInv, Ids, TasksApart, UfragsAsked, Kept
<1>7. ASSUME reqs' = reqs, env'.asked = env.asked, output' = output
      PROVE  FreshIds \subseteq FreshIds'
  BY <1>1, <1>7 DEF FreshIds, Kept
<1> QED BY <1>2, <1>3, <1>4, <1>5, <1>6, <1>7

\* The same with the http server and its requests left alone.
LEMMA GoingOnQuietly ==
  ASSUME SfuInv, GoesOn, hub' = hub, port.bound => port'.bound,
         port'.ufrags = port.ufrags, port'.ufragOf = port.ufragOf,
         output' = output, reqs' = reqs, inbox' = inbox, env'.asked = env.asked
  PROVE  SessionsGood' /\ SubscribersBelong' /\ BoundFirst' /\ Entries' /\ Ids'
<1>1. /\ SessionsGood' /\ SubscribersBelong' /\ BoundFirst' /\ Entries' /\ TasksApart' /\ UfragsAsked'
      /\ FreshIds \subseteq FreshIds'
  BY GoingOn
<1>2. RequestsFresh'
  BY <1>1 DEF SfuInv, Ids, RequestsFresh
<1>3. ResponsesOwed'
  BY DEF SfuInv, Ids, ResponsesOwed
<1> QED BY <1>1, <1>2, <1>3 DEF Ids

LEMMA Environment ==
  ASSUME TypesGood, NEW x
  PROVE  /\ "asked" \in DOMAIN [env EXCEPT !.emitted = x] /\ [env EXCEPT !.emitted = x].asked = env.asked
         /\ "asked" \in DOMAIN [env EXCEPT !.published = x] /\ [env EXCEPT !.published = x].asked = env.asked
BY DEF TypesGood

-----------------------------------------------------------------------------
\* Each action keeps the invariant, and does to the port what a user of it may.

LEMMA OtherPublishesKeeps ==
  ASSUME SfuInv, NEW c \in Channel, NEW safe \in BOOLEAN, OtherPublishes(c, safe)
  PROVE  SfuInv' /\ [PortNext]_port
<1>1. /\ env' = [env EXCEPT !.published = env.published + 1] /\ leg' \in {leg, Append(leg, c)}
      /\ UNCHANGED <<port, tasks, flagged, output, hub, fanout, inbox, popping, listen, fault, reqs>>
  BY DEF OtherPublishes, Published
<1>2. TypesGood /\ SessionsGood
  BY DEF SfuInv
<1>3. "asked" \in DOMAIN env' /\ env'.asked = env.asked
  BY <1>1, <1>2, Environment
<1>4. GoesOn
  BY <1>1, <1>2, TasksStay
<1>5. SessionsGood' /\ SubscribersBelong' /\ BoundFirst' /\ Entries' /\ Ids'
  BY <1>1, <1>3, <1>4, GoingOnQuietly
<1>6. TypesGood'
  <2>1. leg \in Seq(Channel)
    BY <1>2 DEF TypesGood, TypeOK
  <2>2. leg' \in Seq(Channel)
    BY <1>1, <2>1
  <2> QED BY <1>1, <1>2, <1>3, <2>2 DEF TypesGood, TypeOK, Living
<1>7. Drained' /\ OwnersSuit' /\ AssertionsHold'
  BY <1>1 DEF SfuInv, Drained, OwnersSuit, AssertionsHold, Living
<1> QED BY <1>1, <1>5, <1>6, <1>7 DEF SfuInv

LEMMA ListenResultKeeps ==
  ASSUME SfuInv, NEW ok \in BOOLEAN, ListenResult(ok)
  PROVE  SfuInv' /\ [PortNext]_port
<1>1. /\ Runs /\ ~popping /\ listen' = "answered" /\ popping' = TRUE
      /\ \/ port' = Bound(port) /\ fault' = fault
         \/ fault' = "listen" /\ port' = port
      /\ UNCHANGED <<tasks, flagged, output, hub, leg, fanout, inbox, reqs, env>>
  BY DEF ListenResult, AtRest
<1>2. TypesGood /\ SessionsGood /\ port \in Ports
  BY DEF SfuInv, TypesGood, TypeOK
<1>3. /\ port' \in Ports /\ (port.bound => port'.bound)
      /\ port'.ufrags = port.ufrags /\ port'.ufragOf = port.ufragOf
  BY <1>1, <1>2 DEF Bound, Ports
<1>4. GoesOn
  BY <1>1, <1>2, TasksStay
<1>5. SessionsGood' /\ SubscribersBelong' /\ BoundFirst' /\ Entries' /\ Ids'
  BY <1>1, <1>3, <1>4, GoingOnQuietly
<1>6. TypesGood'
  BY <1>1, <1>2, <1>3 DEF TypesGood, TypeOK, Living
<1>7. Drained' /\ OwnersSuit' /\ AssertionsHold'
  BY <1>1 DEF SfuInv, Drained, OwnersSuit, AssertionsHold, Living
<1>8. [PortNext]_port
  BY <1>1 DEF PortNext
<1> QED BY <1>5, <1>6, <1>7, <1>8 DEF SfuInv

LEMMA ReceiveKeeps ==
  ASSUME SfuInv, Receive
  PROVE  SfuInv' /\ [PortNext]_port
<1>1. /\ leg # <<>> /\ leg' = Tail(leg)
      /\ fanout' = IF hub[Head(leg)] = {} THEN Idle ELSE [chan |-> Head(leg), todo |-> hub[Head(leg)]]
      /\ UNCHANGED <<port, tasks, flagged, output, hub, inbox, popping, listen, fault, reqs, env>>
  BY DEF Receive
<1>2. TypesGood /\ SessionsGood /\ leg \in Seq(Channel) /\ hub \in [Channel -> SUBSET Task]
  BY DEF SfuInv, TypesGood, TypeOK
<1>3. Head(leg) \in Channel /\ Tail(leg) \in Seq(Channel) /\ hub[Head(leg)] \in SUBSET Task
  BY <1>1, <1>2
<1>4. GoesOn
  BY <1>1, <1>2, TasksStay
<1>5. SessionsGood' /\ SubscribersBelong' /\ BoundFirst' /\ Entries' /\ Ids'
  BY <1>1, <1>4, GoingOnQuietly
<1>6. fanout' = Idle \/ fanout' \in [chan : Channel, todo : (SUBSET Task) \ {{}}]
  BY <1>1, <1>3
<1>7. TypesGood'
  BY <1>1, <1>2, <1>3, <1>6 DEF TypesGood, TypeOK, Living
<1>8. OwnersSuit'
  <2>1. CASE hub[Head(leg)] = {}
    BY <1>1, <2>1 DEF OwnersSuit, Idle
  <2>2. CASE hub[Head(leg)] # {}
    <3>1. fanout'.chan = Head(leg) /\ fanout'.todo = hub[Head(leg)]
      BY <1>1, <2>2
    <3>2. \A t \in hub[Head(leg)] : Suits(t, Head(leg))
      BY <1>3 DEF SfuInv, SubscribersBelong
    <3> QED BY <3>1, <3>2 DEF OwnersSuit, Suits
  <2> QED BY <2>1, <2>2
<1>9. Drained' /\ AssertionsHold'
  BY <1>1 DEF SfuInv, Drained, AssertionsHold, Living
<1> QED BY <1>1, <1>5, <1>7, <1>8, <1>9 DEF SfuInv

LEMMA PopEndKeeps ==
  ASSUME SfuInv, PopEnd
  PROVE  SfuInv' /\ [PortNext]_port
<1>1. /\ flagged = {} /\ popping' = FALSE
      /\ UNCHANGED <<port, tasks, flagged, output, hub, leg, fanout, inbox, listen, fault, reqs, env>>
  BY DEF PopEnd
<1>2. TypesGood /\ SessionsGood
  BY DEF SfuInv
<1>3. GoesOn
  BY <1>1, <1>2, TasksStay
<1>4. SessionsGood' /\ SubscribersBelong' /\ BoundFirst' /\ Entries' /\ Ids'
  BY <1>1, <1>3, GoingOnQuietly
<1>5. TypesGood'
  BY <1>1, <1>2 DEF TypesGood, TypeOK, Living
<1>6. Drained' /\ OwnersSuit' /\ AssertionsHold'
  BY <1>1 DEF SfuInv, Drained, OwnersSuit, AssertionsHold, Living
<1> QED BY <1>1, <1>4, <1>5, <1>6 DEF SfuInv

\* A tick of a task whose timeout has passed.
LEMMA OnTickGood ==
  ASSUME NEW t \in Living, SessionsGood, NEW z, z = OnTick([tasks[t] EXCEPT !.timeout = "due"])
  PROVE  GoodSession(t, z) /\ Kept(tasks[t], z) /\ z.timeout = "none"
<1>1. GoodSession(t, tasks[t]) /\ t \in Task /\ tasks[t] \in Sessions
  BY DEF SessionsGood, Living, GoodSession
<1>2. PICK s : s = [tasks[t] EXCEPT !.timeout = "due"]
  OBVIOUS
<1>3. /\ s \in Sessions /\ Kept(tasks[t], s) /\ s.rtc = tasks[t].rtc /\ s.link = tasks[t].link
      /\ s.timeout = "due"
  BY <1>1, <1>2 DEF Sessions, Kept
<1>4. z = [s EXCEPT !.input = TRUE, !.timeout = "none"]
  BY <1>2, <1>3 DEF OnTick
<1>5. /\ z \in Sessions /\ Kept(s, z) /\ z.rtc = s.rtc /\ z.link = s.link /\ z.timeout = "none"
  BY <1>3, <1>4 DEF Sessions, Kept
<1>6. Kept(tasks[t], z)
  BY <1>3, <1>5 DEF Kept
<1> QED BY <1>1, <1>3, <1>5, <1>6, TouchedGood

LEMMA AllFlaggedLiving ==
  ASSUME TypesGood
  PROVE  AllFlagged = Living
BY LivingTasks DEF AllFlagged

LEMMA TickKeeps ==
  ASSUME SfuInv, NEW due \in SUBSET Waiting, Tick(due)
  PROVE  SfuInv' /\ [PortNext]_port
<1> DEFINE ts == [s \in Task |-> IF s \in due THEN OnTick([tasks[s] EXCEPT !.timeout = "due"]) ELSE tasks[s]]
<1>1. /\ ~popping /\ flagged' = AllFlagged /\ popping' = TRUE
      /\ \/ UNCHANGED <<tasks, env>>
         \/ \E t \in due : Becomes(ts, t, AfterInput(t, ts[t]))
      /\ UNCHANGED <<port, output, hub, leg, fanout, inbox, listen, fault, reqs>>
  BY DEF Tick, AtRest
<1>2. TypesGood /\ SessionsGood /\ Living \subseteq Task /\ due \subseteq Living
  BY LivingTasks DEF SfuInv, Waiting
<1>3. ASSUME NEW s \in due
      PROVE  GoodSession(s, ts[s]) /\ Kept(tasks[s], ts[s]) /\ ts[s].timeout = "none"
  BY <1>2, OnTickGood
<1>4. ASSUME NEW s \in Task \ due  PROVE ts[s] = tasks[s]
  OBVIOUS
<1>5. DOMAIN ts = Task
  OBVIOUS
<1> HIDE DEF ts
<1>6. /\ GoesOn /\ "asked" \in DOMAIN env' /\ env'.asked = env.asked
      /\ \A s \in Living : tasks'[s] = tasks[s] \/ tasks'[s].timeout = "none"
  <2>1. CASE UNCHANGED <<tasks, env>>
    BY <1>2, <2>1, TasksStay DEF TypesGood
  <2>2. ASSUME NEW t \in due, Becomes(ts, t, AfterInput(t, ts[t]))
        PROVE  /\ GoesOn /\ "asked" \in DOMAIN env' /\ env'.asked = env.asked
               /\ \A s \in Living : tasks'[s] = tasks[s] \/ tasks'[s].timeout = "none"
    <3>1. PICK z, x : /\ z \in AfterInput(t, ts[t]) /\ tasks' = [ts EXCEPT ![t] = z]
                         /\ env' = [env EXCEPT !.emitted = x]
      BY <2>2 DEF Becomes
    <3>2. GoodSession(t, z) /\ Kept(tasks[t], z) /\ z.timeout = "none"
      BY <1>2, <1>3, <3>1, AfterInputGood DEF Kept
    <3>3. DOMAIN tasks' = Task /\ tasks' = [s \in Task |-> IF s = t THEN z ELSE ts[s]]
      BY <1>2, <1>5, <3>1
    <3>4. \A s \in Living : /\ GoodSession(s, tasks'[s]) /\ Kept(tasks[s], tasks'[s])
                            /\ tasks'[s] = tasks[s] \/ tasks'[s].timeout = "none"
      BY <1>2, <1>3, <1>4, <3>2, <3>3 DEF SessionsGood, Kept
    <3>5. \A s \in Task \ Living : tasks'[s] = None
      BY <1>2, <1>4, <3>3 DEF Living
    <3>6. \A s \in Living : tasks'[s] \in Sessions /\ tasks'[s] # None
      BY <3>4, SessionAssumption DEF GoodSession
    <3>7. tasks' \in [Task -> Sessions \cup {None}]
      BY <3>3, <3>5, <3>6
    <3>8. Living' = Living
      BY <1>2, <3>5, <3>6 DEF Living
    <3> QED BY <1>2, <3>1, <3>4, <3>7, <3>8, Environment DEF GoesOn
  <2> QED BY <1>1, <2>1, <2>2
<1>7. SessionsGood' /\ SubscribersBelong' /\ BoundFirst' /\ Entries' /\ Ids'
  BY <1>1, <1>6, GoingOnQuietly
<1>8. flagged' = Living'
  BY <1>1, <1>2, <1>6, AllFlaggedLiving DEF GoesOn
<1>9. TypesGood'
  BY <1>1, <1>2, <1>6, <1>8 DEF TypesGood, TypeOK, GoesOn
<1>10. Drained'
  <2>1. \A t \in Living : t[1] = "whep" => tasks[t].rtc = <<>>
    BY <1>1 DEF SfuInv, Drained
  <2> QED BY <1>1, <1>6, <1>8, <2>1 DEF Drained, GoesOn
<1>11. OwnersSuit' /\ AssertionsHold'
  BY <1>1 DEF SfuInv, OwnersSuit, AssertionsHold
<1> QED BY <1>1, <1>7, <1>9, <1>10, <1>11 DEF SfuInv

LEMMA RemoteTables ==
  ASSUME port \in Ports, NEW a \in Addr, NEW u \in Ufrag \cup {None}, port' = WithRemote(port, a, u)
  PROVE  /\ port' \in Ports /\ port'.bound = port.bound
         /\ port'.ufrags = port.ufrags /\ port'.ufragOf = port.ufragOf
<1>1. TaskFor(port, a, u) \in Task \cup {None}
  BY TaskForBound DEF PortTypeOK
<1> QED BY <1>1 DEF WithRemote, Ports

LEMMA PacketKeeps ==
  ASSUME SfuInv, NEW a \in Addr, NEW u \in Ufrag \cup {None}, Packet(a, u)
  PROVE  SfuInv' /\ [PortNext]_port
<1>1. PICK t : t = TaskFor(port, a, u)
  OBVIOUS
<1>2. /\ ~popping /\ popping' = TRUE /\ port' = WithRemote(port, a, u)
      /\ fault' \in {fault, "datagram"}
      /\ UNCHANGED <<output, hub, leg, fanout, inbox, listen, reqs>>
  BY DEF Packet, AtRest
<1>3. TypesGood /\ SessionsGood /\ port \in Ports /\ Living \subseteq Task
  BY LivingTasks DEF SfuInv, TypesGood, TypeOK
<1>4. /\ GoesOn /\ "asked" \in DOMAIN env' /\ env'.asked = env.asked
      /\ flagged \subseteq flagged' /\ flagged' \subseteq Living'
      /\ \A s \in Living : \/ tasks'[s] = tasks[s]
                           \/ s \in flagged' /\ (s[1] = "whep" => tasks'[s].timeout = "none")
  <2> DEFINE Fed == /\ flagged' = flagged \cup {t}
                    /\ \E now \in Now(t) :
                         LET task == IF t[1] = "whip" THEN WhipPacket(now) ELSE WhepPacket(now)
                         IN  Becomes(tasks, t, AfterInput(t, task))
  <2>0. UNCHANGED <<tasks, flagged, env>> \/ (t \in Living /\ Fed)
    BY <1>1 DEF Packet
  <2>1. CASE UNCHANGED <<tasks, flagged, env>>
    <3>1. GoesOn
      BY <1>3, <2>1, TasksStay
    <3> QED BY <1>3, <2>1, <3>1, LivingTasks DEF GoesOn, TypesGood
  <2>2. CASE t \in Living /\ Fed
    <3>1. Fed
      BY <2>2
    <3>2. PICK now \in Now(t) : LET task == IF t[1] = "whip" THEN WhipPacket(now) ELSE WhepPacket(now)
                                IN  Becomes(tasks, t, AfterInput(t, task))
      BY <3>1
    <3>3. PICK task : task = IF t[1] = "whip" THEN WhipPacket(now) ELSE WhepPacket(now)
      OBVIOUS
    <3>4. PICK z, x : /\ z \in AfterInput(t, task) /\ tasks' = [tasks EXCEPT ![t] = z]
                     /\ env' = [env EXCEPT !.emitted = x]
      BY <3>2, <3>3 DEF Becomes
    <3>5. t \in Task /\ GoodSession(t, now) /\ Kept(tasks[t], now)
      BY <1>3, <2>2, NowGood
    <3>6. GoodSession(t, z) /\ Kept(tasks[t], z) /\ (t[1] = "whep" => z.timeout = "none")
      BY <3>3, <3>4, <3>5, PacketGood DEF Kept
    <3>7. GoesOn
      BY <1>3, <2>2, <3>4, <3>6, OneGoesOn
    <3>8. \A s \in Living : tasks'[s] = IF s = t THEN z ELSE tasks[s]
      BY <1>3, <3>4 DEF TypesGood, TypeOK
    <3> QED BY <1>3, <2>2, <3>1, <3>4, <3>6, <3>7, <3>8, LivingTasks, Environment DEF GoesOn
  <2> QED BY <2>0, <2>1, <2>2
<1>5. /\ port' \in Ports /\ port'.bound = port.bound
      /\ port'.ufrags = port.ufrags /\ port'.ufragOf = port.ufragOf
  BY <1>2, <1>3, RemoteTables
<1>6. SessionsGood' /\ SubscribersBelong' /\ BoundFirst' /\ Entries' /\ Ids'
  BY <1>2, <1>4, <1>5, GoingOnQuietly
<1>7. TypesGood'
  BY <1>2, <1>3, <1>4, <1>5 DEF TypesGood, TypeOK, GoesOn
<1>8. Drained'
  <2>1. \A s \in Living : s[1] = "whep" => tasks[s].rtc = <<>>
    BY <1>2 DEF SfuInv, Drained
  <2> QED BY <1>2, <1>4, <2>1 DEF Drained, GoesOn
<1>9. OwnersSuit' /\ AssertionsHold'
  BY <1>2 DEF SfuInv, OwnersSuit, AssertionsHold
<1>10. [PortNext]_port
  BY <1>2 DEF PortNext
<1> QED BY <1>6, <1>7, <1>8, <1>9, <1>10 DEF SfuInv

LEMMA HandOverKeeps ==
  ASSUME SfuInv, NEW t \in fanout.todo, HandOver(t)
  PROVE  SfuInv' /\ [PortNext]_port
<1>1. PICK c : c = fanout.chan
  OBVIOUS
<1>2. /\ ~popping /\ popping' = TRUE
      /\ fanout' = IF fanout.todo = {t} THEN Idle ELSE [fanout EXCEPT !.todo = @ \ {t}]
      /\ UNCHANGED <<port, output, hub, leg, inbox, listen, reqs>>
  BY DEF HandOver
<1>3. TypesGood /\ SessionsGood /\ Living \subseteq Task
  BY LivingTasks DEF SfuInv
<1>4. c \in Channel /\ fanout \in [chan : Channel, todo : (SUBSET Task) \ {{}}]
  <2>1. fanout # Idle
    BY DEF Idle
  <2> QED BY <1>1, <1>3, <2>1 DEF TypesGood, TypeOK
<1>5. Suits(t, c)
  BY <1>1 DEF SfuInv, OwnersSuit
<1>6. /\ GoesOn /\ "asked" \in DOMAIN env' /\ env'.asked = env.asked /\ fault' \in {fault, "keyframe"}
      /\ flagged \subseteq flagged' /\ flagged' \subseteq Living'
      /\ \A s \in Living : \/ tasks'[s] = tasks[s]
                           \/ /\ s \in flagged'
                              /\ s[1] = "whep" => tasks'[s].rtc = tasks[s].rtc \/ tasks'[s].timeout = "none"
  <2> DEFINE Fed == /\ flagged' = flagged \cup {t}
                    /\ \E now \in Now(t), stream \in BOOLEAN :
                         Becomes(tasks, t, IF t[1] = "whip" THEN WhipBus(now) ELSE WhepBus(now, c, stream))
  <2>0. /\ fault' \in {fault, "keyframe"}
        /\ UNCHANGED <<tasks, flagged, env>> \/ (t \in Living /\ Fed)
    BY <1>1, <1>5 DEF HandOver
  <2>1. CASE UNCHANGED <<tasks, flagged, env>>
    <3>1. GoesOn
      BY <1>3, <2>1, TasksStay
    <3> QED BY <1>3, <2>0, <2>1, <3>1, LivingTasks DEF GoesOn, TypesGood
  <2>2. CASE t \in Living /\ Fed
    <3>1. Fed
      BY <2>2
    <3>2. PICK now \in Now(t), stream \in BOOLEAN :
            Becomes(tasks, t, IF t[1] = "whip" THEN WhipBus(now) ELSE WhepBus(now, c, stream))
      BY <3>1
    <3>3. PICK z, x : /\ z \in IF t[1] = "whip" THEN WhipBus(now) ELSE WhepBus(now, c, stream)
                     /\ tasks' = [tasks EXCEPT ![t] = z] /\ env' = [env EXCEPT !.emitted = x]
      BY <3>2 DEF Becomes
    <3>4. t \in Task /\ GoodSession(t, now) /\ Kept(tasks[t], now) /\ now.rtc = tasks[t].rtc
      BY <1>3, <2>2, NowGood
    <3>5. /\ GoodSession(t, z) /\ Kept(tasks[t], z)
          /\ t[1] = "whep" => z.rtc = tasks[t].rtc \/ z.timeout = "none"
      BY <1>4, <3>3, <3>4, BusGood DEF Kept
    <3>6. GoesOn
      BY <1>3, <2>2, <3>3, <3>5, OneGoesOn
    <3>7. \A s \in Living : tasks'[s] = IF s = t THEN z ELSE tasks[s]
      BY <1>3, <3>3 DEF TypesGood, TypeOK
    <3> QED BY <1>3, <2>0, <2>2, <3>1, <3>3, <3>5, <3>6, <3>7, LivingTasks, Environment DEF GoesOn
  <2> QED BY <2>0, <2>1, <2>2
<1>7. SessionsGood' /\ SubscribersBelong' /\ BoundFirst' /\ Entries' /\ Ids'
  BY <1>2, <1>6, GoingOnQuietly
<1>8. /\ fanout' = Idle \/ fanout' \in [chan : Channel, todo : (SUBSET Task) \ {{}}]
      /\ OwnersSuit'
  <2>1. CASE fanout.todo = {t}
    BY <1>2, <2>1 DEF OwnersSuit, Idle
  <2>2. CASE fanout.todo # {t}
    <3>1. fanout' = [fanout EXCEPT !.todo = fanout.todo \ {t}]
      BY <1>2, <1>4, <2>2
    <3>2. fanout.todo \ {t} \in (SUBSET Task) \ {{}}
      BY <1>4, <2>2
    <3>3. /\ fanout' \in [chan : Channel, todo : (SUBSET Task) \ {{}}]
          /\ fanout'.chan = c /\ fanout'.todo = fanout.todo \ {t}
      BY <1>1, <1>4, <3>1, <3>2
    <3> QED BY <1>1, <3>3 DEF SfuInv, OwnersSuit, Suits
  <2> QED BY <2>1, <2>2
<1>9. TypesGood'
  BY <1>2, <1>3, <1>6, <1>8 DEF TypesGood, TypeOK, GoesOn, Idle
<1>10. Drained'
  <2>1. \A s \in Living : s[1] = "whep" => tasks[s].rtc = <<>>
    BY <1>2 DEF SfuInv, Drained
  <2> QED BY <1>2, <1>6, <2>1 DEF Drained, GoesOn
<1>11. AssertionsHold'
  BY <1>6 DEF SfuInv, AssertionsHold
<1> QED BY <1>2, <1>7, <1>8, <1>9, <1>10, <1>11 DEF SfuInv

-----------------------------------------------------------------------------
\* The control leg and the http server.

LEMMA AskTypes ==
  ASSUME NEW q \in Asks
  PROVE  /\ q.kind \in {"whip", "whep", "bad", "other", "shutdown"}
         /\ q.kind # "shutdown" => q.id \in Ufrag
         /\ q.kind \in {"whip", "whep"} => q.room \in Room
         /\ q.kind = "shutdown" => q.id = 0
BY DEF Asks

\* The control leg may be one message shorter.
LEMMA AskedBefore ==
  ASSUME inbox \in Seq(Asks), inbox # <<>>, inbox' = Tail(inbox)
  PROVE  /\ inbox' \in Seq(Asks) /\ Head(inbox) = inbox[1] /\ 1 \in 1..Len(inbox) /\ inbox[1] \in Asks
         /\ \A i \in 1..Len(inbox') : i + 1 \in 1..Len(inbox) /\ i + 1 # 1 /\ inbox'[i] = inbox[i + 1]
         /\ \A i, j \in 1..Len(inbox') : i + 1 = j + 1 => i = j
OBVIOUS

\* A message behind the others.
LEMMA AskedLast ==
  ASSUME inbox \in Seq(Asks), NEW q \in Asks, inbox' = Append(inbox, q)
  PROVE  /\ inbox' \in Seq(Asks) /\ Len(inbox') = Len(inbox) + 1 /\ Len(inbox) \in Nat
         /\ inbox'[Len(inbox) + 1] = q
         /\ \A i \in 1..Len(inbox') : i = Len(inbox) + 1 \/ (i \in 1..Len(inbox) /\ inbox'[i] = inbox[i])
OBVIOUS

LEMMA RequestKeeps ==
  ASSUME SfuInv, NEW kind, NEW room, Request(kind, room),
         \/ kind \in {"whip", "whep"} /\ room \in Room
         \/ kind \in {"bad", "other"} /\ room = None
  PROVE  SfuInv' /\ [PortNext]_port
<1>1. PICK n : n = env.asked + 1
  OBVIOUS
<1>2. TypesGood /\ SessionsGood /\ inbox \in Seq(Asks) /\ env.asked \in Nat /\ MaxRequests \in Nat
  BY SfuBoundsAssumption DEF SfuInv, TypesGood
<1>3. /\ ~popping /\ env.asked < MaxRequests /\ env' = [env EXCEPT !.asked = n]
      /\ UNCHANGED <<port, tasks, flagged, output, hub, leg, fanout, popping, listen, fault>>
  BY <1>1 DEF Request, AtRest
<1>4. "asked" \in DOMAIN env' /\ env'.asked = n
  BY <1>2, <1>3 DEF TypesGood
<1>5. PICK q : q = [id |-> n, kind |-> kind, room |-> room]
  OBVIOUS
<1>6. reqs' = reqs \cup {n} /\ inbox' = Append(inbox, q)
  BY <1>4, <1>5 DEF Request
<1>7. n \in Ufrag /\ n \in 0..MaxRequests /\ n # Listen /\ ~(n <= env.asked) /\ \A m \in Nat : m <= env.asked => m <= n
  BY <1>1, <1>2, <1>3, UfragAssumption DEF Listen
<1>8. q \in Asks /\ q.id = n /\ q.kind # "shutdown"
  BY <1>5, <1>7 DEF Asks
<1>9. GoesOn
  BY <1>2, <1>3, TasksStay
<1>10. SessionsGood' /\ SubscribersBelong' /\ BoundFirst' /\ Entries'
  BY <1>3, <1>9, GoingOn
<1>11. Living' = Living /\ Ids /\ Ufrag \subseteq Nat
  BY <1>9, UfragAssumption DEF GoesOn, SfuInv
<1>12. TypesGood'
  <2>1. inbox' \in Seq(Asks)
    BY <1>2, <1>6, <1>8, AskedLast
  <2>2. \A i \in DOMAIN inbox' : inbox'[i].id \in Ufrag \/ inbox'[i].kind = "shutdown"
    BY <2>1, AskTypes
  <2> QED BY <1>2, <1>3, <1>4, <1>6, <1>7, <1>11, <2>1, <2>2 DEF TypesGood, TypeOK
<1>13. TasksApart' /\ UfragsAsked'
  <2>1. \A t \in Living : tasks[t].id \in Nat
    BY <1>2, <1>11, LivingTasks DEF Sessions
  <2> QED BY <1>3, <1>4, <1>7, <1>11, <2>1 DEF Ids, TasksApart, UfragsAsked
<1>14. \A j \in 1..Len(output) : output[j] \in Nat
  <2>1. output \in Seq(Ufrag \cup {Listen})
    BY <1>2 DEF TypesGood, TypeOK
  <2>2. Ufrag \cup {Listen} \subseteq Nat
    BY <1>11 DEF Listen
  <2> QED BY <2>1, <2>2
<1>15. ResponsesOwed'
  BY <1>3, <1>4, <1>6, <1>7, <1>11, <1>14 DEF Ids, ResponsesOwed
<1>16. n \in FreshIds'
  <2>1. port.ufrags[n] = None
    BY <1>7, <1>11 DEF Ids, UfragsAsked
  <2>2. \A j \in 1..Len(output) : output[j] # n
    BY <1>7, <1>11 DEF Ids, ResponsesOwed
  <2>3. \A t \in Living : tasks[t].id # n
    BY <1>7, <1>11 DEF Ids, TasksApart
  <2> QED BY <1>3, <1>4, <1>6, <1>7, <1>11, <2>1, <2>2, <2>3 DEF FreshIds
<1>17. FreshIds \subseteq FreshIds' /\ n \notin FreshIds
  BY <1>3, <1>4, <1>6, <1>7, <1>11 DEF FreshIds
<1>18. RequestsFresh'
  <2> DEFINE l == Len(inbox)
  <2>1. \A i \in 1..l : inbox[i].kind # "shutdown" =>
          /\ inbox[i].id \in FreshIds
          /\ \A j \in 1..l : j # i => inbox[j].id # inbox[i].id
    BY <1>11 DEF Ids, RequestsFresh
  <2>2. \A i \in 1..l : inbox[i].id # n
    <3> SUFFICES ASSUME NEW i \in 1..l  PROVE inbox[i].id # n
      OBVIOUS
    <3>1. CASE inbox[i].kind = "shutdown"
      BY <1>2, <1>7, <3>1, AskTypes DEF Listen
    <3>2. CASE inbox[i].kind # "shutdown"
      BY <1>17, <2>1, <3>2
    <3> QED BY <3>1, <3>2
  <2>3. /\ Len(inbox') = l + 1 /\ l \in Nat /\ inbox'[l + 1] = q
        /\ \A i \in 1..Len(inbox') : i = l + 1 \/ (i \in 1..l /\ inbox'[i] = inbox[i])
    BY <1>2, <1>6, <1>8, AskedLast
  <2> HIDE DEF l
  <2> SUFFICES ASSUME NEW i \in 1..Len(inbox'), inbox'[i].kind # "shutdown"
               PROVE  /\ inbox'[i].id \in FreshIds'
                      /\ \A j \in 1..Len(inbox') : j # i => inbox'[j].id # inbox'[i].id
    BY DEF RequestsFresh
  <2>4. CASE i = l + 1
    BY <1>8, <1>16, <2>2, <2>3, <2>4
  <2>5. CASE i \in 1..l /\ inbox'[i] = inbox[i]
    <3>1. /\ inbox[i].id \in FreshIds
          /\ \A j \in 1..l : j # i => inbox[j].id # inbox[i].id
      BY <2>1, <2>5
    <3>2. inbox[i].id \in FreshIds' /\ inbox[i].id # n
      BY <1>17, <3>1
    <3> QED BY <1>8, <2>3, <2>5, <3>1, <3>2
  <2> QED BY <2>3, <2>4, <2>5
<1>19. Drained' /\ OwnersSuit' /\ AssertionsHold'
  BY <1>3, <1>11 DEF SfuInv, Drained, OwnersSuit, AssertionsHold
<1> QED BY <1>3, <1>10, <1>12, <1>13, <1>15, <1>18, <1>19 DEF SfuInv, Ids

LEMMA AskShutdownKeeps ==
  ASSUME SfuInv, AskShutdown
  PROVE  SfuInv' /\ [PortNext]_port
<1>1. TypesGood /\ SessionsGood /\ inbox \in Seq(Asks) /\ env.asked \in Nat /\ MaxRequests \in Nat
  BY SfuBoundsAssumption DEF SfuInv, TypesGood
<1>2. /\ env.asked < MaxRequests /\ env' = [env EXCEPT !.shutdown = TRUE, !.asked = @ + 1]
      /\ inbox' = Append(inbox, [id |-> 0, kind |-> "shutdown"])
      /\ UNCHANGED <<port, tasks, flagged, output, hub, leg, fanout, popping, listen, fault, reqs>>
  BY DEF AskShutdown
<1>3. "asked" \in DOMAIN env' /\ env'.asked = env.asked + 1
  BY <1>1, <1>2 DEF TypesGood
<1>4. PICK q : q = [id |-> 0, kind |-> "shutdown"]
  OBVIOUS
<1>5. q \in Asks /\ q.kind = "shutdown" /\ q.id = 0 /\ inbox' = Append(inbox, q)
  BY <1>2, <1>4 DEF Asks
<1>6. GoesOn
  BY <1>1, <1>2, TasksStay
<1>7. SessionsGood' /\ SubscribersBelong' /\ BoundFirst' /\ Entries'
  BY <1>2, <1>6, GoingOn
<1>8. Living' = Living /\ Ids /\ Ufrag = 1..MaxRequests
  BY <1>6, UfragAssumption DEF GoesOn, SfuInv
<1>9. TypesGood'
  <2>1. inbox' \in Seq(Asks)
    BY <1>1, <1>5, AskedLast
  <2>2. \A i \in DOMAIN inbox' : inbox'[i].id \in Ufrag \/ inbox'[i].kind = "shutdown"
    BY <2>1, AskTypes
  <2>3. env'.asked \in 0..MaxRequests
    BY <1>1, <1>2, <1>3
  <2> QED BY <1>1, <1>2, <1>3, <1>8, <2>1, <2>2, <2>3 DEF TypesGood, TypeOK
<1>10. \A m \in Nat : m <= env.asked => m <= env'.asked
  BY <1>1, <1>3
<1>11. TasksApart' /\ UfragsAsked'
  <2>1. \A t \in Living : tasks[t].id \in Nat
    BY <1>1, <1>8, LivingTasks DEF Sessions
  <2> QED BY <1>2, <1>8, <1>10, <2>1 DEF Ids, TasksApart, UfragsAsked
<1>12. ResponsesOwed'
  <2>1. output \in Seq(Ufrag \cup {Listen})
    BY <1>1 DEF TypesGood, TypeOK
  <2>2. Ufrag \cup {Listen} \subseteq Nat
    BY <1>8 DEF Listen
  <2>3. \A j \in 1..Len(output) : output[j] \in Nat
    BY <2>1, <2>2
  <2> QED BY <1>2, <1>8, <1>10, <2>3 DEF Ids, ResponsesOwed
<1>13. FreshIds \subseteq FreshIds' /\ 0 \notin FreshIds
  BY <1>2, <1>8, <1>10 DEF FreshIds
<1>14. RequestsFresh'
  <2> DEFINE l == Len(inbox)
  <2>1. \A i \in 1..l : inbox[i].kind # "shutdown" =>
          /\ inbox[i].id \in FreshIds
          /\ \A j \in 1..l : j # i => inbox[j].id # inbox[i].id
    BY <1>8 DEF Ids, RequestsFresh
  <2>2. /\ Len(inbox') = l + 1 /\ l \in Nat /\ inbox'[l + 1] = q
        /\ \A i \in 1..Len(inbox') : i = l + 1 \/ (i \in 1..l /\ inbox'[i] = inbox[i])
    BY <1>1, <1>5, AskedLast
  <2> HIDE DEF l
  <2> SUFFICES ASSUME NEW i \in 1..Len(inbox'), inbox'[i].kind # "shutdown"
               PROVE  /\ inbox'[i].id \in FreshIds'
                      /\ \A j \in 1..Len(inbox') : j # i => inbox'[j].id # inbox'[i].id
    BY DEF RequestsFresh
  <2>3. i \in 1..l /\ inbox'[i] = inbox[i]
    BY <1>5, <2>2
  <2>4. /\ inbox[i].id \in FreshIds
        /\ \A j \in 1..l : j # i => inbox[j].id # inbox[i].id
    BY <2>1, <2>3
  <2> QED BY <1>5, <1>13, <2>2, <2>3, <2>4
<1>15. Drained' /\ OwnersSuit' /\ AssertionsHold'
  BY <1>2, <1>8 DEF SfuInv, Drained, OwnersSuit, AssertionsHold
<1> QED BY <1>2, <1>7, <1>9, <1>11, <1>12, <1>14, <1>15 DEF SfuInv, Ids

LEMMA PopOwnKeeps ==
  ASSUME SfuInv, PopOwn
  PROVE  SfuInv' /\ [PortNext]_port
<1>1. PICK first : first = Head(output)
  OBVIOUS
<1>2. /\ output # <<>> /\ output' = Tail(output)
      /\ \/ first = Listen /\ listen' = "asked" /\ UNCHANGED <<reqs, fault>>
         \/ /\ first # Listen /\ reqs' = reqs \ {first}
            /\ fault' = IF first \in reqs THEN fault ELSE "request"
            /\ UNCHANGED listen
      /\ UNCHANGED <<port, tasks, flagged, hub, leg, fanout, inbox, popping, env>>
  BY <1>1 DEF PopOwn
<1>3. TypesGood /\ SessionsGood /\ output \in Seq(Ufrag \cup {Listen}) /\ Ids
  BY DEF SfuInv, TypesGood, TypeOK
<1>4. /\ output' \in Seq(Ufrag \cup {Listen}) /\ first = output[1] /\ 1 \in 1..Len(output)
      /\ \A i \in 1..Len(output') : i + 1 \in 1..Len(output) /\ i + 1 # 1 /\ output'[i] = output[i + 1]
      /\ \A i, j \in 1..Len(output') : i + 1 = j + 1 => i = j
  BY <1>1, <1>2, <1>3
<1>5. GoesOn
  BY <1>2, <1>3, TasksStay
<1>6. SessionsGood' /\ SubscribersBelong' /\ BoundFirst' /\ Entries' /\ TasksApart' /\ UfragsAsked'
  BY <1>2, <1>5, GoingOn
<1>7. Living' = Living
  BY <1>5 DEF GoesOn
<1>8. first # Listen => first \in reqs /\ \A k \in 1..Len(output) : k # 1 => output[k] # first
  BY <1>3, <1>4 DEF Ids, ResponsesOwed
<1>9. fault' = fault /\ reqs' \subseteq reqs
  BY <1>2, <1>8
<1>10. TypesGood'
  <2>1. listen' \in {"no", "asked", "answered"}
    BY <1>2, <1>3 DEF TypesGood, TypeOK
  <2> QED BY <1>2, <1>3, <1>4, <1>7, <1>9, <2>1 DEF TypesGood, TypeOK
<1>11. FreshIds \subseteq FreshIds'
  <2> SUFFICES ASSUME NEW id \in FreshIds  PROVE id \in FreshIds'
    OBVIOUS
  <2>1. id # first
    BY <1>4 DEF FreshIds
  <2>2. id \in reqs' /\ \A j \in 1..Len(output') : output'[j] # id
    BY <1>2, <1>4, <2>1 DEF FreshIds
  <2> QED BY <1>2, <1>7, <2>2 DEF FreshIds
<1>12. RequestsFresh'
  BY <1>2, <1>3, <1>11 DEF Ids, RequestsFresh
<1>13. ResponsesOwed'
  <2> SUFFICES ASSUME NEW j \in 1..Len(output'), output'[j] # Listen
               PROVE  /\ output'[j] \in reqs' /\ output'[j] <= env'.asked
                      /\ \A k \in 1..Len(output') : k # j => output'[k] # output'[j]
    BY DEF ResponsesOwed
  <2>1. j + 1 \in 1..Len(output) /\ j + 1 # 1 /\ output'[j] = output[j + 1]
    BY <1>4
  <2>2. /\ output[j + 1] \in reqs /\ output[j + 1] <= env.asked
        /\ \A k \in 1..Len(output) : k # j + 1 => output[k] # output[j + 1]
    BY <1>3, <2>1 DEF Ids, ResponsesOwed
  <2>3. output[j + 1] # first
    BY <1>4, <2>1, <2>2
  <2> QED BY <1>2, <1>4, <2>1, <2>2, <2>3
<1>14. Drained' /\ OwnersSuit' /\ AssertionsHold'
  BY <1>2, <1>7, <1>9 DEF SfuInv, Drained, OwnersSuit, AssertionsHold
<1> QED BY <1>2, <1>6, <1>10, <1>12, <1>13, <1>14 DEF SfuInv, Ids

\* The first message of the control leg is taken.
LEMMA RestFresh ==
  ASSUME SfuInv, inbox # <<>>, inbox' = Tail(inbox), FreshIds \ {inbox[1].id} \subseteq FreshIds'
  PROVE  RequestsFresh'
<1>1. inbox \in Seq(Asks) /\ RequestsFresh
  BY DEF SfuInv, TypesGood, Ids
<1>2. /\ 1 \in 1..Len(inbox)
      /\ \A i \in 1..Len(inbox') : i + 1 \in 1..Len(inbox) /\ i + 1 # 1 /\ inbox'[i] = inbox[i + 1]
      /\ \A i, j \in 1..Len(inbox') : i + 1 = j + 1 => i = j
  BY <1>1, AskedBefore
<1> SUFFICES ASSUME NEW i \in 1..Len(inbox'), inbox'[i].kind # "shutdown"
             PROVE  /\ inbox'[i].id \in FreshIds'
                    /\ \A j \in 1..Len(inbox') : j # i => inbox'[j].id # inbox'[i].id
  BY DEF RequestsFresh
<1>3. i + 1 \in 1..Len(inbox) /\ i + 1 # 1 /\ inbox'[i] = inbox[i + 1]
  BY <1>2
<1>4. /\ inbox[i + 1].id \in FreshIds
      /\ \A j \in 1..Len(inbox) : j # i + 1 => inbox[j].id # inbox[i + 1].id
  BY <1>1, <1>3 DEF RequestsFresh
<1> QED BY <1>2, <1>3, <1>4

\* A new response.
LEMMA AnswerOwed ==
  ASSUME SfuInv, NEW id \in FreshIds, Answer(id), reqs' = reqs, env' = env
  PROVE  /\ ResponsesOwed' /\ output' \in Seq(Ufrag \cup {Listen})
         /\ \A other \in Ufrag : other # id /\ (\A j \in 1..Len(output) : output[j] # other)
              => \A j \in 1..Len(output') : output'[j] # other
<1> DEFINE l == Len(output)
<1>1. output \in Seq(Ufrag \cup {Listen}) /\ ResponsesOwed /\ id \in Ufrag
  BY DEF SfuInv, TypesGood, TypeOK, Ids, FreshIds
<1>2. /\ output' \in Seq(Ufrag \cup {Listen}) /\ Len(output') = l + 1 /\ l \in Nat /\ output'[l + 1] = id
      /\ \A i \in 1..Len(output') : i = l + 1 \/ (i \in 1..l /\ output'[i] = output[i])
  BY <1>1 DEF Answer
<1> HIDE DEF l
<1>3. id \in reqs /\ id <= env.asked /\ \A j \in 1..l : output[j] # id
  BY DEF FreshIds, l
<1>4. \A j \in 1..l : output[j] # Listen =>
        /\ output[j] \in reqs /\ output[j] <= env.asked
        /\ \A k \in 1..l : k # j => output[k] # output[j]
  BY <1>1 DEF ResponsesOwed, l
<1>5. ResponsesOwed'
  <2> SUFFICES ASSUME NEW j \in 1..Len(output'), output'[j] # Listen
               PROVE  /\ output'[j] \in reqs' /\ output'[j] <= env'.asked
                      /\ \A k \in 1..Len(output') : k # j => output'[k] # output'[j]
    BY DEF ResponsesOwed
  <2>1. CASE j = l + 1
    BY <1>2, <1>3, <2>1
  <2>2. CASE j \in 1..l /\ output'[j] = output[j]
    BY <1>2, <1>3, <1>4, <2>2
  <2> QED BY <1>2, <2>1, <2>2
<1> QED BY <1>2, <1>5 DEF l

\* There is a slot for a request: the tasks of a kind are fewer than the
\* requests, as each task has the ufrag of a request of its own.
LEMMA FreeSlotFound ==
  ASSUME SfuInv, NEW id \in FreshIds, NEW kind \in {"whip", "whep"}
  PROVE  FreeSlot(kind) \in Task \ Living /\ FreeSlot(kind)[1] = kind
<1> DEFINE slots == {t[2] : t \in Task}
           free == {i \in slots : <<kind, i>> \notin Living}
<1>1. /\ Task = {"whip", "whep"} \X slots /\ slots \subseteq Nat
      /\ IsFiniteSet(slots) /\ Cardinality(slots) >= MaxRequests
  BY TaskAssumption
<1> HIDE DEF slots
<1>2. \A i \in slots : <<kind, i>> \in Task
  BY <1>1
<1>3. \A t \in Task : t[1] = kind => t[2] \in slots /\ t = <<kind, t[2]>>
  BY <1>1
<1>4. free # {}
  <2> SUFFICES ASSUME \A i \in slots : <<kind, i>> \in Living  PROVE FALSE
    OBVIOUS
  <2> DEFINE f == [i \in slots |-> tasks[<<kind, i>>].id]
             others == Ufrag \ {id}
  <2>1. MaxRequests \in Nat /\ MaxRequests >= 1 /\ id \in Ufrag /\ Ufrag = 1..MaxRequests
    BY UfragAssumption, SfuBoundsAssumption DEF FreshIds
  <2>2. IsFiniteSet(Ufrag) /\ Cardinality(Ufrag) = MaxRequests
    BY <2>1, FS_Interval
  <2>3. IsFiniteSet(others) /\ Cardinality(others) = MaxRequests - 1
    BY <2>1, <2>2, FS_RemoveElement
  <2>4. Cardinality(slots) \in Nat /\ Cardinality(others) < Cardinality(slots)
    BY <1>1, <2>1, <2>3, FS_CardinalityType
  <2>5. \A t \in Living : tasks[t].id \in others
    <3>1. \A t \in Living : tasks[t] \in Sessions
      BY LivingTasks DEF SfuInv
    <3> QED BY <3>1 DEF FreshIds, Sessions
  <2>6. f \in [slots -> others]
    BY <2>5
  <2>7. PICK i \in slots, j \in slots : i # j /\ f[i] = f[j]
    <3> HIDE DEF f, others
    <3> QED BY <1>1, <2>3, <2>4, <2>6, FS_PigeonHole
  <2>8. <<kind, i>> # <<kind, j>> /\ tasks[<<kind, i>>].id = tasks[<<kind, j>>].id
    BY <2>7
  <2> QED BY <2>8 DEF SfuInv, Ids, TasksApart
<1>5. PICK m \in free : \A i \in free : m <= i
  <2>1. free \in SUBSET Nat
    BY <1>1
  <2> HIDE DEF free
  <2> QED BY <1>4, <2>1, LeastOf
<1>6. /\ <<kind, m>> \in Task /\ <<kind, m>>[1] = kind /\ <<kind, m>> \notin Living /\ <<kind, m>>[2] = m
  BY <1>2
<1>7. \A s \in Task : s[1] = kind /\ s \notin Living => <<kind, m>>[2] <= s[2]
  BY <1>3, <1>5
<1> HIDE DEF free
<1>8. \E t \in Task : /\ t[1] = kind /\ t \notin Living
                      /\ \A s \in Task : s[1] = kind /\ s \notin Living => t[2] <= s[2]
  BY <1>6, <1>7
<1> QED BY <1>8 DEF FreeSlot

LEMMA ConnectKeeps ==
  ASSUME SfuInv, inbox # <<>>, ~popping, NEW r, r = inbox[1], r.id \in FreshIds,
         r.kind \in {"whip", "whep"}, r.room \in Room, inbox' = Tail(inbox), port.bound, Connect(r),
         UNCHANGED <<hub, leg, fanout, popping, listen, env>>
  PROVE  SfuInv' /\ [PortNext]_port
<1>1. PICK t : t = FreeSlot(r.kind)
  OBVIOUS
<1>2. PICK id, z : id = r.id /\ z = NewTask(r.id, r.room)
  OBVIOUS
<1>3. /\ tasks' = [tasks EXCEPT ![t] = z] /\ flagged' \in {flagged, flagged \cup {t}}
      /\ port' = WithUfrag(port, id, t) /\ Answer(id) /\ UNCHANGED <<fault, reqs>>
  BY <1>1, <1>2 DEF Connect
<1>4. t \in Task \ Living /\ id \in Ufrag /\ id \in FreshIds
  BY <1>1, <1>2, FreeSlotFound DEF FreshIds
<1>5. TypesGood /\ SessionsGood /\ Ids /\ port \in Ports /\ inbox \in Seq(Asks) /\ Living \subseteq Task
      /\ tasks \in [Task -> Sessions \cup {None}]
  BY LivingTasks DEF SfuInv, TypesGood, TypeOK
<1>6. GoodSession(t, z) /\ z.id = id /\ z.rtc = <<>> /\ z \in Sessions /\ z # None
  <2>1. GoodSession(t, z)
    BY <1>2, <1>4, NewTaskGood
  <2> QED BY <1>2, <2>1, SessionAssumption DEF NewTask, GoodSession
<1>7. /\ \A s \in Task : tasks'[s] = IF s = t THEN z ELSE tasks[s]
      /\ tasks' \in [Task -> Sessions \cup {None}]
  BY <1>3, <1>4, <1>5, <1>6
<1>8. Living' = Living \cup {t}
  BY <1>4, <1>6, <1>7 DEF Living
<1>9. /\ port' \in Ports /\ port'.bound = port.bound
      /\ port'.ufrags = [port.ufrags EXCEPT ![id] = t]
      /\ port'.ufragOf = [port.ufragOf EXCEPT ![t] = id]
      /\ port.ufrags \in [Ufrag -> Task \cup {None}] /\ port.ufragOf \in [Task -> Ufrag \cup {None}]
  BY <1>3, <1>4, <1>5 DEF Ports, WithUfrag
<1>10. SessionsGood' /\ SubscribersBelong' /\ BoundFirst'
  <2>1. SessionsGood'
    BY <1>4, <1>5, <1>6, <1>7, <1>8 DEF SessionsGood
  <2>2. SubscribersBelong'
    BY <1>4, <1>5, <1>7, <1>8 DEF SfuInv, SubscribersBelong
  <2> QED BY <1>9, <2>1, <2>2 DEF BoundFirst
<1>11. Entries'
  <2> SUFFICES ASSUME NEW u \in Ufrag, NEW s \in Task, port'.ufrags[u] = s, s[1] = "whip"
               PROVE  s \in Living' /\ tasks'[s].id = u /\ port'.ufragOf[s] = u
    BY DEF Entries
  <2>1. CASE u = id
    BY <1>4, <1>6, <1>7, <1>8, <1>9, <2>1
  <2>2. CASE u # id
    <3>1. port.ufrags[u] = s
      BY <1>4, <1>9, <2>2
    <3>2. s \in Living /\ tasks[s].id = u /\ port.ufragOf[s] = u
      BY <3>1 DEF SfuInv, Entries
    <3> QED BY <1>4, <1>7, <1>8, <1>9, <3>2
  <2> QED BY <2>1, <2>2
<1>12. id \in reqs /\ id <= env.asked /\ port.ufrags[id] = None /\ \A s \in Living : tasks[s].id # id
  BY <1>4 DEF FreshIds
<1>13. TasksApart' /\ UfragsAsked'
  BY <1>4, <1>5, <1>6, <1>7, <1>8, <1>9, <1>12 DEF Ids, TasksApart, UfragsAsked
<1>14. /\ ResponsesOwed' /\ output' \in Seq(Ufrag \cup {Listen})
       /\ \A other \in Ufrag : other # id /\ (\A j \in 1..Len(output) : output[j] # other)
              => \A j \in 1..Len(output') : output'[j] # other
  BY <1>3, <1>4, AnswerOwed
<1>15. FreshIds \ {id} \subseteq FreshIds'
  <2> SUFFICES ASSUME NEW other \in FreshIds, other # id  PROVE other \in FreshIds'
    OBVIOUS
  <2>1. other \in Ufrag /\ \A j \in 1..Len(output') : output'[j] # other
    BY <1>14 DEF FreshIds
  <2>2. port'.ufrags[other] = None
    BY <1>9, <2>1 DEF FreshIds
  <2>3. \A s \in Living' : tasks'[s].id # other
    BY <1>4, <1>5, <1>6, <1>7, <1>8 DEF FreshIds
  <2> QED BY <1>3, <2>1, <2>2, <2>3 DEF FreshIds
<1>16. RequestsFresh'
  BY <1>2, <1>15, RestFresh
<1>17. TypesGood'
  <2>1. inbox' \in Seq(Asks)
    BY <1>5, AskedBefore
  <2>2. \A i \in DOMAIN inbox' : inbox'[i].id \in Ufrag \/ inbox'[i].kind = "shutdown"
    BY <2>1, AskTypes
  <2>3. flagged' \subseteq Living'
    BY <1>3, <1>5, <1>8, LivingTasks
  <2> QED BY <1>3, <1>5, <1>7, <1>9, <1>14, <2>1, <2>2, <2>3 DEF TypesGood, TypeOK
<1>18. Drained'
  BY <1>4, <1>5, <1>6, <1>7, <1>8 DEF SfuInv, Drained
<1>19. OwnersSuit' /\ AssertionsHold'
  BY <1>3 DEF SfuInv, OwnersSuit, AssertionsHold
<1>20. [PortNext]_port
  BY <1>3, <1>4, <1>12 DEF PortNext
<1> QED BY <1>10, <1>11, <1>13, <1>14, <1>16, <1>17, <1>18, <1>19, <1>20 DEF SfuInv, Ids

LEMMA SpawnKeeps ==
  ASSUME SfuInv, Spawn
  PROVE  SfuInv' /\ [PortNext]_port
<1>1. PICK r : r = inbox[1]
  OBVIOUS
<1>2. TypesGood /\ SessionsGood /\ Ids /\ inbox \in Seq(Asks)
  BY DEF SfuInv, TypesGood
<1>3. /\ inbox # <<>> /\ Head(inbox).kind # "shutdown" /\ inbox' = Tail(inbox) /\ ~popping
      /\ ProcessReq(Head(inbox))
      /\ UNCHANGED <<hub, leg, fanout, popping, listen, env>>
  BY DEF Spawn, AtRest
<1>4. /\ inbox' \in Seq(Asks) /\ Head(inbox) = inbox[1] /\ 1 \in 1..Len(inbox) /\ r \in Asks
  BY <1>1, <1>2, <1>3, AskedBefore
<1>5. r.kind # "shutdown" /\ ProcessReq(r) /\ r.id \in FreshIds
  BY <1>1, <1>2, <1>3, <1>4 DEF Ids, RequestsFresh
<1>6. \A i \in DOMAIN inbox' : inbox'[i].id \in Ufrag \/ inbox'[i].kind = "shutdown"
  BY <1>4, AskTypes
<1>7. CASE r.kind \in {"whip", "whep"} /\ port.bound /\ Connect(r)
  <2>1. r.room \in Room
    BY <1>4, <1>7, AskTypes
  <2> QED BY <1>1, <1>3, <1>5, <1>7, <2>1, ConnectKeeps
<1>8. CASE \/ Answer(r.id) /\ UNCHANGED <<port, tasks, flagged, fault, reqs>>
           \/ \E what \in {"no address", "offer"} : Fails(what)
  <2>1. UNCHANGED <<port, tasks, flagged, reqs>>
    BY <1>8 DEF Fails
  <2>2. GoesOn
    BY <1>2, <2>1, TasksStay
  <2>3. /\ SessionsGood' /\ SubscribersBelong' /\ BoundFirst' /\ Entries' /\ TasksApart' /\ UfragsAsked'
        /\ Living' = Living
    BY <1>3, <2>1, <2>2, GoingOn DEF GoesOn
  <2>4. /\ ResponsesOwed' /\ output' \in Seq(Ufrag \cup {Listen})
        /\ \A other \in Ufrag : other # r.id /\ (\A j \in 1..Len(output) : output[j] # other)
              => \A j \in 1..Len(output') : output'[j] # other
    <3>1. CASE UNCHANGED output
      BY <1>2, <1>3, <2>1, <3>1 DEF Ids, ResponsesOwed, TypesGood, TypeOK
    <3>2. CASE Answer(r.id)
      BY <1>3, <1>5, <2>1, <3>2, AnswerOwed
    <3> QED BY <1>8, <3>1, <3>2 DEF Fails
  <2>5. FreshIds \ {r.id} \subseteq FreshIds'
    BY <1>3, <2>1, <2>3, <2>4 DEF FreshIds
  <2>6. RequestsFresh'
    BY <1>1, <1>3, <2>5, RestFresh
  <2>7. AssertionsHold' /\ fault' \in {"none", "no address", "offer", "listen", "datagram", "keyframe", "owner", "slot", "request"}
    BY <1>2, <1>8 DEF SfuInv, AssertionsHold, Fails, TypesGood, TypeOK
  <2>8. TypesGood'
    BY <1>2, <1>3, <1>4, <1>6, <2>1, <2>3, <2>4, <2>7 DEF TypesGood, TypeOK
  <2>9. Drained' /\ OwnersSuit'
    BY <1>3, <2>1, <2>3 DEF SfuInv, Drained, OwnersSuit
  <2> QED BY <2>1, <2>3, <2>4, <2>6, <2>7, <2>8, <2>9 DEF SfuInv, Ids
<1> QED BY <1>5, <1>7, <1>8 DEF ProcessReq

LEMMA ShutdownKeeps ==
  ASSUME SfuInv, Shutdown
  PROVE  SfuInv' /\ [PortNext]_port
<1>1. /\ inbox # <<>> /\ inbox' = Tail(inbox) /\ ~popping /\ Head(inbox).kind = "shutdown"
      /\ tasks' = [t \in Task |-> IF t \in Living THEN OnShutdown(t) ELSE None]
      /\ flagged' = AllFlagged
      /\ UNCHANGED <<port, output, hub, leg, fanout, popping, listen, fault, reqs, env>>
  BY DEF Shutdown, AtRest
<1>2. TypesGood /\ SessionsGood /\ Ids /\ inbox \in Seq(Asks) /\ Living \subseteq Task
  BY LivingTasks DEF SfuInv, TypesGood
<1>3. /\ inbox' \in Seq(Asks) /\ Head(inbox) = inbox[1] /\ inbox[1] \in Asks /\ inbox[1].id = 0
  BY <1>1, <1>2, AskedBefore, AskTypes
<1>4. ASSUME NEW t \in Living
      PROVE  /\ GoodSession(t, tasks'[t]) /\ tasks'[t].rtc = <<>>
             /\ tasks'[t].id = tasks[t].id /\ tasks'[t].room = tasks[t].room
             /\ \A c \in Channel : c[2] = tasks[t].room /\ Suits(t, c) =>
                  \E i \in 1..Len(tasks'[t].out) : tasks'[t].out[i] = Unsubscribe(c)
  <2>1. tasks'[t] = OnShutdown(t)
    BY <1>1, <1>2
  <2> QED BY <1>2, <2>1, ShutdownGood
<1>5. \A t \in Living : tasks'[t] \in Sessions /\ tasks'[t] # None
  BY <1>4, SessionAssumption DEF GoodSession
<1>6. \A t \in Task \ Living : tasks'[t] = None
  BY <1>1
<1>7. tasks' \in [Task -> Sessions \cup {None}] /\ Living' = Living
  <2>1. Living' = Living
    BY <1>2, <1>5, <1>6 DEF Living
  <2> QED BY <1>1, <1>5, <1>6, <2>1
<1>8. SessionsGood' /\ BoundFirst' /\ Entries' /\ TasksApart' /\ UfragsAsked'
  <2>1. SessionsGood'
    BY <1>4, <1>7 DEF SessionsGood
  <2>2. Living' = Living /\ port' = port /\ env' = env /\ \A t \in Living : tasks'[t].id = tasks[t].id
    BY <1>1, <1>4, <1>7
  <2>3. BoundFirst' /\ Entries'
    BY <2>2 DEF SfuInv, BoundFirst, Entries
  <2>4. TasksApart' /\ UfragsAsked'
    BY <1>2, <2>2 DEF Ids, TasksApart, UfragsAsked
  <2> QED BY <2>1, <2>3, <2>4
<1>9. SubscribersBelong'
  <2> SUFFICES ASSUME NEW c \in Channel, NEW t \in hub[c]
               PROVE  /\ t \in Living /\ tasks'[t].room = c[2] /\ Suits(t, c)
                      /\ Unsubscribe(c) \in {tasks'[t].out[i] : i \in DOMAIN tasks'[t].out}
    BY <1>1, <1>7 DEF SubscribersBelong, Suits
  <2>1. t \in Living /\ tasks[t].room = c[2] /\ Suits(t, c)
    BY DEF SfuInv, SubscribersBelong
  <2>2. PICK i \in 1..Len(tasks'[t].out) : tasks'[t].out[i] = Unsubscribe(c)
    BY <1>4, <2>1
  <2>3. i \in DOMAIN tasks'[t].out
    <3>1. tasks'[t].out \in Seq(ForWorker)
      BY <1>5, <2>1 DEF Sessions
    <3> QED BY <3>1
  <2> QED BY <1>4, <2>1, <2>2, <2>3
<1>10. RequestsFresh'
  <2>1. FreshIds \subseteq FreshIds'
    BY <1>1, <1>4, <1>7 DEF FreshIds
  <2> QED BY <1>1, <2>1, RestFresh
<1>11. ResponsesOwed'
  BY <1>1, <1>2 DEF Ids, ResponsesOwed
<1>12. TypesGood'
  <2>1. \A i \in DOMAIN inbox' : inbox'[i].id \in Ufrag \/ inbox'[i].kind = "shutdown"
    BY <1>3, AskTypes
  <2>2. flagged' = Living'
    BY <1>1, <1>2, <1>7, AllFlaggedLiving
  <2> QED BY <1>1, <1>2, <1>3, <1>7, <2>1, <2>2 DEF TypesGood, TypeOK
<1>13. Drained' /\ OwnersSuit' /\ AssertionsHold'
  BY <1>1, <1>4, <1>7 DEF SfuInv, Drained, OwnersSuit, AssertionsHold
<1> QED BY <1>1, <1>8, <1>9, <1>10, <1>11, <1>12, <1>13 DEF SfuInv, Ids

-----------------------------------------------------------------------------
\* The outputs of the tasks.

\* What the worker does with an output of a living task.
LEMMA CarryGood ==
  ASSUME SfuInv, NEW t \in Living, NEW o \in ForWorker, Carry(t, o),
         o[1] \in {"subscribe", "unsubscribe"} => o[2] \in Channel
  PROVE  /\ fault' = fault /\ leg' \in Seq(Channel) /\ hub' \in [Channel -> SUBSET Task]
         /\ \A c \in Channel : \A s \in hub'[c] :
              \/ s \in hub[c] /\ (s = t => o # Unsubscribe(c))
              \/ s = t /\ o = Subscribe(c)
<1>1. /\ hub \in [Channel -> SUBSET Task] /\ leg \in Seq(Channel) /\ t \in Task /\ port.bound
  BY LivingTasks DEF SfuInv, TypesGood, TypeOK, BoundFirst
<1>2. CASE o = Net
  <2>1. o[1] = "net" /\ \A c \in Channel : o # Unsubscribe(c)
    BY <1>2 DEF Net, Unsubscribe
  <2>2. fault' = fault /\ UNCHANGED <<hub, leg>>
    BY <1>1, <2>1 DEF Carry
  <2> QED BY <1>1, <2>1, <2>2
<1>3. ASSUME NEW d \in Channel, o = <<"subscribe", d>>
      PROVE  /\ fault' = fault /\ leg' \in Seq(Channel) /\ hub' \in [Channel -> SUBSET Task]
             /\ \A c \in Channel : \A s \in hub'[c] :
                  \/ s \in hub[c] /\ (s = t => o # Unsubscribe(c))
                  \/ s = t /\ o = Subscribe(c)
  <2>1. hub' = [hub EXCEPT ![d] = @ \cup {t}] /\ UNCHANGED <<leg, fault>>
    BY <1>3 DEF Carry
  <2>2. o = Subscribe(d) /\ \A c \in Channel : o # Unsubscribe(c)
    BY <1>3 DEF Subscribe, Unsubscribe
  <2>3. hub' \in [Channel -> SUBSET Task]
    BY <1>1, <2>1
  <2> QED BY <1>1, <2>1, <2>2, <2>3
<1>4. ASSUME NEW d \in Channel, o = <<"unsubscribe", d>>
      PROVE  /\ fault' = fault /\ leg' \in Seq(Channel) /\ hub' \in [Channel -> SUBSET Task]
             /\ \A c \in Channel : \A s \in hub'[c] :
                  \/ s \in hub[c] /\ (s = t => o # Unsubscribe(c))
                  \/ s = t /\ o = Subscribe(c)
  <2>1. hub' = [hub EXCEPT ![d] = @ \ {t}] /\ UNCHANGED <<leg, fault>>
    BY <1>4 DEF Carry
  <2>2. \A c \in Channel : o = Unsubscribe(c) => c = d
    BY <1>4 DEF Unsubscribe
  <2>3. hub' \in [Channel -> SUBSET Task]
    BY <1>1, <2>1
  <2>4. \A c \in Channel : \A s \in hub'[c] : s \in hub[c] /\ (s = t => c # d)
    BY <1>1, <2>1
  <2> QED BY <1>1, <2>1, <2>2, <2>3, <2>4
<1>5. ASSUME NEW d \in Channel, NEW safe \in BOOLEAN, o = <<"publish", d, safe>>
      PROVE  /\ fault' = fault /\ leg' \in Seq(Channel) /\ hub' \in [Channel -> SUBSET Task]
             /\ \A c \in Channel : \A s \in hub'[c] :
                  \/ s \in hub[c] /\ (s = t => o # Unsubscribe(c))
                  \/ s = t /\ o = Subscribe(c)
  <2>1. (leg' = leg \/ leg' = Append(leg, d)) /\ UNCHANGED <<hub, fault>>
    BY <1>5 DEF Carry, Published
  <2>2. leg' \in Seq(Channel)
    BY <1>1, <2>1
  <2>3. o[1] = "publish" /\ \A c \in Channel : Unsubscribe(c)[1] = "unsubscribe"
    BY <1>5 DEF Unsubscribe
  <2> QED BY <1>1, <2>1, <2>2, <2>3
<1>6. \/ o = Net
      \/ \E d \in Channel : o = <<"subscribe", d>> \/ o = <<"unsubscribe", d>>
      \/ \E d \in Channel, safe \in BOOLEAN : o = <<"publish", d, safe>>
  BY DEF ForWorker
<1> QED BY <1>2, <1>3, <1>4, <1>5, <1>6

LEMMA PopTaskKeeps ==
  ASSUME SfuInv, NEW t \in flagged, PopTask(t)
  PROVE  SfuInv' /\ [PortNext]_port
<1>1. PICK o, z, s : o = PopOutput(t)[1] /\ z = PopOutput(t)[2] /\ s = tasks[t]
  OBVIOUS
<1>2. TypesGood /\ SessionsGood /\ Ids /\ Living \subseteq Task /\ t \in Living /\ t \in Task
      /\ tasks \in [Task -> Sessions \cup {None}]
  BY LivingTasks DEF SfuInv, TypesGood, TypeOK
<1>3. /\ o # Nothing /\ tasks' = [tasks EXCEPT ![t] = z] /\ Carry(t, o)
      /\ UNCHANGED <<port, flagged, output, fanout, inbox, popping, listen, reqs, env>>
  BY <1>1 DEF PopTask
<1>4. PoppedWell(t, s, o, z)
  <2>1. PoppedWell(t, tasks[t], PopOutput(t)[1], PopOutput(t)[2])
    BY <1>2, PopOutputGood
  <2> QED BY <1>1, <2>1
<1>5. /\ GoodSession(t, z) /\ z.id = s.id /\ z.room = s.room /\ o \in ForWorker
      /\ o[1] \in {"subscribe", "unsubscribe"} => o[2] \in Channel /\ o[2][2] = s.room /\ Suits(t, o[2])
      /\ z.rtc # <<>> => s.rtc # <<>> /\ z.timeout = s.timeout
  BY <1>3, <1>4 DEF PoppedWell
<1>6. z \in Sessions /\ z # None
  BY <1>5, SessionAssumption DEF GoodSession
<1>7. /\ \A x \in Task : tasks'[x] = IF x = t THEN z ELSE tasks[x]
      /\ tasks' \in [Task -> Sessions \cup {None}]
  BY <1>2, <1>3, <1>6
<1>8. Living' = Living
  BY <1>2, <1>6, <1>7 DEF Living
<1>9. /\ fault' = fault /\ leg' \in Seq(Channel) /\ hub' \in [Channel -> SUBSET Task]
      /\ \A c \in Channel : \A x \in hub'[c] :
           \/ x \in hub[c] /\ (x = t => o # Unsubscribe(c))
           \/ x = t /\ o = Subscribe(c)
  BY <1>2, <1>3, <1>5, CarryGood
<1>10. SessionsGood'
  BY <1>2, <1>5, <1>7, <1>8 DEF SessionsGood
<1>11. SubscribersBelong'
  <2> SUFFICES ASSUME NEW c \in Channel, NEW x \in hub'[c]
               PROVE  /\ x \in Living /\ tasks'[x].room = c[2] /\ Suits(x, c)
                      /\ tasks'[x].closed => Unsubscribe(c) \in {tasks'[x].out[i] : i \in DOMAIN tasks'[x].out}
    BY <1>8 DEF SubscribersBelong, Suits
  <2>1. x \in hub[c] =>
          /\ x \in Living /\ tasks[x].room = c[2] /\ Suits(x, c)
          /\ tasks[x].closed => Unsubscribe(c) \in {tasks[x].out[i] : i \in DOMAIN tasks[x].out}
    BY DEF SfuInv, SubscribersBelong
  <2>2. CASE x # t
    BY <1>2, <1>7, <1>9, <2>1, <2>2
  <2>3. CASE x = t
    <3>1. tasks'[x] = z
      BY <1>2, <1>7, <2>3
    <3>2. Subscribe(c)[1] = "subscribe" /\ Subscribe(c)[2] = c
      BY DEF Subscribe
    <3>3. Subscribe(c) # Unsubscribe(c)
      BY DEF Subscribe, Unsubscribe
    <3>4. s.room = c[2] /\ Suits(t, c) /\ o # Unsubscribe(c)
      BY <1>1, <1>5, <1>9, <2>1, <2>3, <3>2, <3>3
    <3>5. ASSUME z.closed  PROVE Unsubscribe(c) \in {z.out[i] : i \in DOMAIN z.out}
      <4>1. o = Subscribe(c) \/ (s.closed => \E i \in 1..Len(s.out) : s.out[i] = Unsubscribe(c))
        <5>1. CASE x \in hub[c] /\ s.closed
          <6>1. PICK i \in DOMAIN s.out : s.out[i] = Unsubscribe(c)
            BY <1>1, <2>1, <2>3, <5>1
          <6>2. s.out \in Seq(ForWorker)
            BY <1>1, <1>2, LivingTasks DEF Sessions
          <6> QED BY <6>1, <6>2
        <5> QED BY <1>9, <5>1
      <4>2. PICK i \in 1..Len(z.out) : z.out[i] = Unsubscribe(c)
        BY <1>4, <3>4, <3>5, <4>1 DEF PoppedWell
      <4>3. z.out \in Seq(ForWorker)
        BY <1>6 DEF Sessions
      <4> QED BY <4>2, <4>3
    <3> QED BY <1>2, <1>5, <2>3, <3>1, <3>4, <3>5
  <2> QED BY <2>2, <2>3
<1>12. /\ BoundFirst' /\ Entries' /\ TasksApart' /\ UfragsAsked' /\ FreshIds \subseteq FreshIds'
  <2>1. \A x \in Living : tasks'[x].id = tasks[x].id
    BY <1>1, <1>2, <1>5, <1>7
  <2>2. BoundFirst' /\ Entries'
    BY <1>3, <1>8, <2>1 DEF SfuInv, BoundFirst, Entries
  <2>3. TasksApart' /\ UfragsAsked'
    BY <1>2, <1>3, <1>8, <2>1 DEF Ids, TasksApart, UfragsAsked
  <2>4. FreshIds \subseteq FreshIds'
    BY <1>3, <1>8, <2>1 DEF FreshIds
  <2> QED BY <2>2, <2>3, <2>4
<1>13. RequestsFresh' /\ ResponsesOwed'
  BY <1>2, <1>3, <1>12 DEF Ids, RequestsFresh, ResponsesOwed
<1>14. TypesGood'
  BY <1>2, <1>3, <1>7, <1>8, <1>9 DEF TypesGood, TypeOK
<1>15. Drained'
  BY <1>1, <1>2, <1>3, <1>5, <1>7, <1>8 DEF SfuInv, Drained
<1>16. OwnersSuit' /\ AssertionsHold'
  BY <1>3, <1>9 DEF SfuInv, OwnersSuit, AssertionsHold
<1> QED BY <1>3, <1>10, <1>11, <1>12, <1>13, <1>14, <1>15, <1>16 DEF SfuInv, Ids

\* What remove_task leaves, whether the tables agree or not.
LEMMA GoneTables ==
  ASSUME port \in Ports, NEW w \in Task, NEW q, q = WithoutTask(port, w)
  PROVE  /\ q \in Ports /\ q.bound = port.bound
         /\ \A u \in Ufrag : q.ufrags[u] = None \/ q.ufrags[u] = port.ufrags[u]
         /\ \A u \in Ufrag : port.ufragOf[w] = u => q.ufrags[u] = None
         /\ \A s \in Task : s # w => q.ufragOf[s] = port.ufragOf[s]
<1> DEFINE v == port.ufragOf[w]
           p1 == [port EXCEPT !.ufragOf[w] = None]
<1>1. v \in Ufrag \cup {None} /\ \A u \in Ufrag : u # None
  BY PortNoneAssumption DEF Ports
<1>2. /\ p1 \in Ports /\ p1.bound = port.bound /\ p1.ufrags = port.ufrags
      /\ \A s \in Task : s # w => p1.ufragOf[s] = port.ufragOf[s]
  BY DEF Ports
<1>3. CASE v = None
  BY <1>1, <1>3 DEF WithoutTask
<1>4. CASE v # None /\ p1.ufrags[v] = None
  <2>1. q = p1
    BY <1>4 DEF WithoutTask
  <2> HIDE DEF p1
  <2> QED BY <1>2, <1>4, <2>1
<1>5. CASE v # None /\ p1.ufrags[v] # None
  <2>1. v \in Ufrag
    BY <1>1, <1>5
  <2>2. q = [p1 EXCEPT !.ufrags[v] = None, !.remotesOf[w] = {},
                       !.remotes = [a \in Addr |-> IF a \in port.remotesOf[w] THEN None ELSE @[a]]]
    BY <1>5 DEF WithoutTask
  <2> HIDE DEF p1, v
  <2>3. /\ q \in Ports /\ q.bound = p1.bound /\ q.ufragOf = p1.ufragOf
        /\ q.ufrags = [p1.ufrags EXCEPT ![v] = None]
    <3>1. PICK f : f = [a \in Addr |-> IF a \in port.remotesOf[w] THEN None ELSE p1.remotes[a]]
      OBVIOUS
    <3>2. f \in [Addr -> Task \cup {None}]
      BY <1>2, <3>1 DEF Ports
    <3>3. PICK g, h : /\ g = [p1.ufrags EXCEPT ![v] = None]
                      /\ h = [p1.remotesOf EXCEPT ![w] = {}]
      OBVIOUS
    <3>4. g \in [Ufrag -> Task \cup {None}] /\ h \in [Task -> SUBSET Addr]
      BY <1>2, <3>3 DEF Ports
    <3>5. q = [p1 EXCEPT !.ufrags = g, !.remotesOf = h, !.remotes = f]
      BY <1>2, <2>2, <3>1, <3>3 DEF Ports
    <3>6. q \in Ports /\ q.bound = p1.bound /\ q.ufragOf = p1.ufragOf /\ q.ufrags = g
      BY <1>2, <3>2, <3>4, <3>5 DEF Ports
    <3> QED BY <3>3, <3>6
  <2>4. p1.ufrags \in [Ufrag -> Task \cup {None}]
    BY <1>2 DEF Ports
  <2> QED BY <1>2, <2>1, <2>3, <2>4 DEF v
<1> QED BY <1>3, <1>4, <1>5

LEMMA PopNothingKeeps ==
  ASSUME SfuInv, NEW t \in flagged, PopNothing(t)
  PROVE  SfuInv' /\ [PortNext]_port
<1>1. PICK z, s : z = PopOutput(t)[2] /\ s = tasks[t]
  OBVIOUS
<1>2. TypesGood /\ SessionsGood /\ Ids /\ Living \subseteq Task /\ t \in Living /\ t \in Task
      /\ tasks \in [Task -> Sessions \cup {None}] /\ port \in Ports
  BY LivingTasks DEF SfuInv, TypesGood, TypeOK
<1>3. PICK w \in Task : w = IF t[1] = "whip" THEN t ELSE <<"whip", t[2]>>
  BY <1>2, TaskKinds
<1>4. /\ flagged' = flagged \ {t} /\ popping
      /\ \/ IsEmpty(z) /\ tasks' = [tasks EXCEPT ![t] = None] /\ port' = WithoutTask(port, w)
         \/ ~IsEmpty(z) /\ tasks' = [tasks EXCEPT ![t] = z] /\ port' = port
      /\ UNCHANGED <<output, hub, leg, fanout, inbox, popping, listen, fault, reqs, env>>
  BY <1>1, <1>3 DEF PopNothing, WhipGone, WhepGone
<1>5. /\ GoodSession(t, z) /\ z.id = s.id /\ z.room = s.room /\ z.closed = s.closed
      /\ s.out = <<>> /\ z.out = <<>>
      /\ z.rtc # <<>> => s.timeout = "later" /\ s.rtc # <<>>
  <2>1. PoppedWell(t, tasks[t], PopOutput(t)[1], PopOutput(t)[2])
    BY <1>2, PopOutputGood
  <2>2. PopOutput(t)[1] = Nothing
    BY DEF PopNothing
  <2> QED BY <1>1, <2>1, <2>2 DEF PoppedWell
<1>6. z \in Sessions /\ z # None
  BY <1>5, SessionAssumption DEF GoodSession
<1>7. \A c \in Channel : t \in hub[c] => ~s.closed
  <2> SUFFICES ASSUME NEW c \in Channel, t \in hub[c], s.closed  PROVE FALSE
    OBVIOUS
  <2>1. Unsubscribe(c) \in {s.out[i] : i \in DOMAIN s.out}
    BY <1>1 DEF SfuInv, SubscribersBelong
  <2>2. DOMAIN s.out = {}
    BY <1>5
  <2> QED BY <2>1, <2>2
<1>8. /\ \A x \in Task : tasks'[x] = IF x = t THEN (IF IsEmpty(z) THEN None ELSE z) ELSE tasks[x]
      /\ tasks' \in [Task -> Sessions \cup {None}]
  BY <1>2, <1>4, <1>6
<1>9. Living' = IF IsEmpty(z) THEN Living \ {t} ELSE Living
  BY <1>2, <1>6, <1>8 DEF Living
<1>10. /\ Living' \subseteq Living
       /\ \A x \in Living' : /\ tasks'[x].id = tasks[x].id /\ tasks'[x].room = tasks[x].room
                             /\ tasks'[x].out = tasks[x].out /\ tasks'[x].closed = tasks[x].closed
                             /\ x = t => tasks'[x] = z
                             /\ x # t => tasks'[x] = tasks[x]
  BY <1>1, <1>2, <1>5, <1>8, <1>9
<1>11. SessionsGood'
  BY <1>2, <1>5, <1>10 DEF SessionsGood
<1>12. SubscribersBelong'
  <2>1. \A c \in Channel : t \in hub[c] => t \in Living'
    BY <1>2, <1>5, <1>7, <1>9 DEF IsEmpty
  <2>2. \A x \in Living : x # t => x \in Living'
    BY <1>9
  <2> SUFFICES ASSUME NEW c \in Channel, NEW x \in hub[c]
               PROVE  /\ x \in Living' /\ tasks'[x].room = c[2] /\ Suits(x, c)
                      /\ tasks'[x].closed => Unsubscribe(c) \in {tasks'[x].out[i] : i \in DOMAIN tasks'[x].out}
    BY <1>4 DEF SubscribersBelong, Suits
  <2>3. /\ x \in Living /\ tasks[x].room = c[2] /\ Suits(x, c)
        /\ tasks[x].closed => Unsubscribe(c) \in {tasks[x].out[i] : i \in DOMAIN tasks[x].out}
    BY DEF SfuInv, SubscribersBelong
  <2>4. x \in Living'
    BY <2>1, <2>2, <2>3
  <2> QED BY <1>10, <2>3, <2>4
<1>13. /\ port' \in Ports /\ port'.bound = port.bound
       /\ \A u \in Ufrag : port'.ufrags[u] = None \/ port'.ufrags[u] = port.ufrags[u]
       /\ IsEmpty(z) => \A u \in Ufrag : port.ufragOf[w] = u => port'.ufrags[u] = None
       /\ \A x \in Task : port'.ufragOf[x] = port.ufragOf[x] \/ (IsEmpty(z) /\ x = w)
  BY <1>2, <1>4, GoneTables
<1>14. Entries'
  <2> SUFFICES ASSUME NEW u \in Ufrag, NEW x \in Task, port'.ufrags[u] = x, x[1] = "whip"
               PROVE  x \in Living' /\ tasks'[x].id = u /\ port'.ufragOf[x] = u
    BY DEF Entries
  <2>1. x # None
    BY PortNoneAssumption
  <2>2. port.ufrags[u] = x
    BY <1>13, <2>1
  <2>3. x \in Living /\ tasks[x].id = u /\ port.ufragOf[x] = u
    BY <2>2 DEF SfuInv, Entries
  <2>4. ~(IsEmpty(z) /\ x = w)
    BY <1>13, <2>1, <2>3
  <2>5. x \in Living'
    BY <1>3, <1>9, <2>3, <2>4
  <2> QED BY <1>10, <1>13, <2>3, <2>4, <2>5
<1>15. BoundFirst' /\ TasksApart' /\ UfragsAsked' /\ FreshIds \subseteq FreshIds'
  <2>1. BoundFirst'
    BY <1>10, <1>13 DEF SfuInv, BoundFirst
  <2>2. TasksApart'
    BY <1>2, <1>4, <1>10 DEF Ids, TasksApart
  <2>3. UfragsAsked'
    BY <1>2, <1>4, <1>13 DEF Ids, UfragsAsked
  <2>4. FreshIds \subseteq FreshIds'
    BY <1>4, <1>10, <1>13 DEF FreshIds
  <2> QED BY <2>1, <2>2, <2>3, <2>4
<1>16. RequestsFresh' /\ ResponsesOwed'
  BY <1>2, <1>4, <1>15 DEF Ids, RequestsFresh, ResponsesOwed
<1>17. TypesGood'
  <2>1. flagged' \subseteq Living'
    BY <1>2, <1>4, <1>9, LivingTasks
  <2> QED BY <1>2, <1>4, <1>8, <1>13, <2>1 DEF TypesGood, TypeOK
<1>18. Drained'
  <2>1. t[1] = "whep" => z.rtc = <<>>
    BY <1>1, <1>2, <1>5 DEF SfuInv, Drained
  <2> QED BY <1>4, <1>10, <2>1 DEF SfuInv, Drained
<1>19. OwnersSuit' /\ AssertionsHold'
  BY <1>4 DEF SfuInv, OwnersSuit, AssertionsHold
<1>20. [PortNext]_port
  BY <1>4 DEF PortNext
<1> QED BY <1>11, <1>12, <1>14, <1>15, <1>16, <1>17, <1>18, <1>19, <1>20 DEF SfuInv, Ids

-----------------------------------------------------------------------------
LEMMA SfuInit == Init => SfuInv /\ PortInit
<1> SUFFICES ASSUME Init  PROVE SfuInv /\ PortInit
  OBVIOUS
<1>1. /\ port = EmptyPort /\ tasks = [t \in Task |-> None] /\ flagged = {} /\ output = <<Listen>>
      /\ hub = [c \in Channel |-> {}] /\ leg = <<>> /\ fanout = Idle /\ inbox = <<>> /\ reqs = {}
      /\ popping = TRUE /\ listen = "no" /\ fault = "none"
      /\ "asked" \in DOMAIN env /\ env.asked = 0
  BY DEF Init
<1>2. Living = {} /\ Len(inbox) = 0 /\ 1..0 = {} /\ MaxRequests \in Nat
  BY <1>1, SfuBoundsAssumption DEF Living
<1>3. TypesGood
  <2>1. port \in Ports
    BY <1>1 DEF EmptyPort, Ports
  <2>2. output \in Seq(Ufrag \cup {Listen}) /\ inbox \in Seq(Asks) /\ leg \in Seq(Channel)
    BY <1>1
  <2> QED BY <1>1, <1>2, <2>1, <2>2 DEF TypesGood, TypeOK
<1>4. Ids
  <2>1. RequestsFresh
    BY <1>2 DEF RequestsFresh
  <2>2. ResponsesOwed
    <3>1. \A j \in 1..Len(output) : output[j] = Listen
      BY <1>1
    <3> QED BY <3>1 DEF ResponsesOwed
  <2>3. TasksApart /\ UfragsAsked
    BY <1>1, <1>2 DEF TasksApart, UfragsAsked, EmptyPort
  <2> QED BY <2>1, <2>2, <2>3 DEF Ids
<1>5. SessionsGood /\ BoundFirst /\ Drained
  BY <1>2 DEF SessionsGood, BoundFirst, Drained
<1>6. SubscribersBelong
  BY <1>1 DEF SubscribersBelong
<1>7. Entries
  BY <1>1, PortNoneAssumption DEF Entries, EmptyPort
<1>8. OwnersSuit /\ AssertionsHold /\ PortInit
  BY <1>1 DEF OwnersSuit, Idle, AssertionsHold, PortInit
<1> QED BY <1>3, <1>4, <1>5, <1>6, <1>7, <1>8 DEF SfuInv

LEMMA SfuStep == SfuInv /\ [Next]_vars => SfuInv' /\ [PortNext]_port
<1> SUFFICES ASSUME SfuInv, [Next]_vars  PROVE SfuInv' /\ [PortNext]_port
  OBVIOUS
<1>1. ASSUME NEW kind \in {"whip", "whep"}, NEW room \in Room, Request(kind, room)
      PROVE  SfuInv' /\ [PortNext]_port
  BY <1>1, RequestKeeps
<1>2. ASSUME NEW kind \in {"bad", "other"}, Request(kind, None)
      PROVE  SfuInv' /\ [PortNext]_port
  BY <1>2, RequestKeeps
<1>3. CASE AskShutdown
  BY <1>3, AskShutdownKeeps
<1>4. ASSUME NEW c \in Channel, NEW safe \in BOOLEAN, OtherPublishes(c, safe)
      PROVE  SfuInv' /\ [PortNext]_port
  BY <1>4, OtherPublishesKeeps
<1>5. CASE Control
  BY <1>5, SpawnKeeps, ShutdownKeeps DEF Control
<1>6. CASE Receive
  BY <1>6, ReceiveKeeps
<1>7. CASE HandsOut
  BY <1>7, HandOverKeeps DEF HandsOut
<1>8. ASSUME NEW due \in SUBSET Waiting, Tick(due)  PROVE SfuInv' /\ [PortNext]_port
  BY <1>8, TickKeeps
<1>9. ASSUME NEW ok \in BOOLEAN, ListenResult(ok)  PROVE SfuInv' /\ [PortNext]_port
  BY <1>9, ListenResultKeeps
<1>10. ASSUME NEW a \in Addr, NEW u \in Ufrag \cup {None}, Packet(a, u)
       PROVE  SfuInv' /\ [PortNext]_port
  BY <1>10, PacketKeeps
<1>11. CASE Pops
  BY <1>11, PopOwnKeeps, PopEndKeeps, PopTaskKeeps, PopNothingKeeps DEF Pops
<1>12. CASE UNCHANGED vars
  <2>1. UNCHANGED <<port, tasks, flagged, output, hub, leg, fanout, inbox, popping, listen, fault, reqs, env>>
    BY <1>12 DEF vars
  <2>2. TypesGood /\ SessionsGood
    BY DEF SfuInv
  <2>3. GoesOn
    BY <2>1, <2>2, TasksStay
  <2>4. SessionsGood' /\ SubscribersBelong' /\ BoundFirst' /\ Entries' /\ Ids'
    BY <2>1, <2>3, GoingOnQuietly
  <2>5. TypesGood'
    BY <2>1, <2>2 DEF TypesGood, TypeOK, Living
  <2>6. Drained' /\ OwnersSuit' /\ AssertionsHold'
    BY <2>1 DEF SfuInv, Drained, OwnersSuit, AssertionsHold, Living
  <2> QED BY <2>1, <2>4, <2>5, <2>6 DEF SfuInv
<1> QED BY <1>1, <1>2, <1>3, <1>4, <1>5, <1>6, <1>7, <1>8, <1>9, <1>10, <1>11, <1>12 DEF Next

LEMMA SfuInvariant == Spec => []SfuInv
<1>1. Init => SfuInv
  BY SfuInit
<1>2. SfuInv /\ [Next]_vars => SfuInv'
  BY SfuStep
<1> QED BY <1>1, <1>2, PTL DEF Spec

\* Every variable keeps its type: in particular there is a slot for each
\* request, so that what connect_whip and connect_whep insert is a task.
THEOREM SfuTypes == Spec => []TypeOK
<1>1. SfuInv => TypeOK
  BY DEF SfuInv, TypesGood
<1> QED BY <1>1, SfuInvariant, PTL

\* The ufrags that lead to a publisher's slot are those of the publisher in it,
\* though slots are used again (connect_whip, process_whip_out, remove_task).
THEOREM PublishersOwnTheirEntries == Spec => []PublisherEntriesOwn
<1>1. SfuInv => PublisherEntriesOwn
  BY DEF SfuInv, Entries, PublisherEntriesOwn
<1> QED BY <1>1, SfuInvariant, PTL

\* Whoever is listed under a channel is a task of that room and of the right
\* kind, and takes the subscription back before it leaves its slot.
THEOREM SubscribersAlwaysBelong == Spec => []SubscribersBelong
<1>1. SfuInv => SubscribersBelong
  BY DEF SfuInv
<1> QED BY <1>1, SfuInvariant, PTL

\* The worker never rests while a viewer's session has an output.
THEOREM ViewersAreDrained == Spec => []ViewersDrained
<1>1. SfuInv => ViewersDrained
  BY DEF SfuInv, Drained, ViewersDrained
<1> QED BY <1>1, SfuInvariant, PTL

\* The worker's assertions about the owners of an event, its port and the
\* requests that wait hold: it panics only on what comes
\* from outside, and the five ways are those that AssertionsHold names.
THEOREM AssertionsAlwaysHold == Spec => []AssertionsHold
<1>1. SfuInv => AssertionsHold
  BY DEF SfuInv
<1> QED BY <1>1, SfuInvariant, PTL

\* The worker is a user of the port as PortSpec has them: it announces a ufrag
\* only once.
THEOREM WorkerUsesThePort == Spec => PortSpec
<1>1. Init => PortInit
  BY SfuInit
<1>2. SfuInv /\ [Next]_vars => [PortNext]_port
  BY SfuStep
<1> QED BY <1>1, <1>2, SfuInvariant, PTL DEF Spec, PortSpec

\* So the port's tables agree in both directions, in the worker too.
THEOREM TablesAgreeInTheWorker == Spec => []PortTablesAgree
BY WorkerUsesThePort, PortTablesAlwaysAgree, PTL
=============================================================================

---------------------------- MODULE SharedUdpPort ----------------------------
(***************************************************************************)
(* examples/sfu/shared_port.rs: the tables by which the tasks of a worker  *)
(* share one udp port.  A task announces the ufrag its peer will use as    *)
(* STUN username; the first STUN packet of an address that names it binds  *)
(* the address to the task, and from then on the address alone decides.    *)
(*                                                                         *)
(* Each table is kept in both directions.  A missing entry is None; a list *)
(* of addresses is the set of them.                                        *)
(***************************************************************************)

CONSTANTS Task,    \* the keys of the tables: kind and index of a task
          Addr,    \* remote addresses
          Ufrag,   \* ICE user fragments
          None     \* no entry, no username

ASSUME PortNoneAssumption == None \notin Task \cup Ufrag

VARIABLE port

Ports == [bound : BOOLEAN,
          remotes : [Addr -> Task \cup {None}],
          remotesOf : [Task -> SUBSET Addr],
          ufrags : [Ufrag -> Task \cup {None}],
          ufragOf : [Task -> Ufrag \cup {None}]]

EmptyPort ==
  [bound |-> FALSE,
   remotes |-> [a \in Addr |-> None],
   remotesOf |-> [t \in Task |-> {}],
   ufrags |-> [u \in Ufrag |-> None],
   ufragOf |-> [t \in Task |-> None]]

\* set_backend_info.
Bound(p) == [p EXCEPT !.bound = TRUE]

\* Mutant of WithUfrag: the way back is forgotten.
WithUfragOneWay(p, u, t) == [p EXCEPT !.ufrags[u] = t]

\* add_ufrag.
WithUfrag(p, u, t) == [p EXCEPT !.ufrags[u] = t, !.ufragOf[t] = u]

\* Mutant of WithoutTask: the addresses stay bound.
WithoutTaskKeepsRemotes(p, t) ==
  IF p.ufragOf[t] = None
    THEN p
    ELSE [p EXCEPT !.ufragOf[t] = None, !.ufrags[p.ufragOf[t]] = None, !.remotesOf[t] = {}]

\* remove_task: it stops where an entry is missing.
WithoutTask(p, t) ==
  LET u == p.ufragOf[t]
      p1 == [p EXCEPT !.ufragOf[t] = None]
      p2 == [p1 EXCEPT !.ufrags[u] = None]
  IN  CASE u = None -> p
        [] u # None /\ p1.ufrags[u] = None -> p1
        [] OTHER ->
             [p2 EXCEPT !.remotesOf[t] = {},
                        !.remotes = [a \in Addr |-> IF a \in p.remotesOf[t] THEN None ELSE @[a]]]

\* The task that map_remote finds for a packet: by its address, otherwise by
\* the ufrag it names, if it is a STUN packet that names one.
TaskFor(p, a, u) ==
  CASE p.remotes[a] # None -> p.remotes[a]
    [] p.remotes[a] = None /\ u # None -> p.ufrags[u]
    [] OTHER -> None

\* What map_remote leaves behind.
WithRemote(p, a, u) ==
  IF p.remotes[a] = None /\ TaskFor(p, a, u) # None
    THEN [p EXCEPT !.remotes[a] = TaskFor(p, a, u),
                   !.remotesOf[TaskFor(p, a, u)] = @ \cup {a}]
    ELSE p

-----------------------------------------------------------------------------
\* The port under any use that never announces a ufrag that is in the table
\* (they are drawn at random).
PortInit == port = EmptyPort

PortNext ==
  \/ port' = Bound(port)
  \/ \E u \in Ufrag, t \in Task : port.ufrags[u] = None /\ port' = WithUfrag(port, u, t)
  \/ \E t \in Task : port' = WithoutTask(port, t)
  \/ \E a \in Addr, u \in Ufrag \cup {None} : port' = WithRemote(port, a, u)

PortSpec == PortInit /\ [][PortNext]_port

-----------------------------------------------------------------------------
\* The two directions of each table agree: the ufrag kept for a task leads back
\* to it, an address is bound to a task exactly when the task's list has it, and
\* an address is bound only while some ufrag leads to that task, so that what
\* remove_task does not find by its first lookup is not there.
PortTablesAgree ==
  /\ \A t \in Task : port.ufragOf[t] # None => port.ufrags[port.ufragOf[t]] = t
  /\ \A a \in Addr, t \in Task : port.remotes[a] = t <=> a \in port.remotesOf[t]
  /\ \A a \in Addr : port.remotes[a] # None =>
       \E u \in Ufrag : port.ufrags[u] = port.remotes[a]
=============================================================================

----------------------------- MODULE L4Manager -----------------------------
(***************************************************************************)
(* src/l4/manager.rs: the task that owns the public listening sockets.     *)
(*                                                                         *)
(* A configuration is an Arc, named by its position in `heap`; heap[a] is  *)
(* its content [listeners, routes].  `heap` and the sending end of `queue` *)
(* belong to the caller, and `config` is the ArcSwap the manager shares    *)
(* with the route manager and the L4 router.  run_manager is the `mpc`     *)
(* loop; every listener task binds, accepts until it is told to stop, and  *)
(* ends.  A UDP listener hands its socket to a task per datagram           *)
(* (router.handle_udp), so a socket can outlive its listener task.         *)
(* `foreign` are addresses another process holds.                          *)
(***************************************************************************)
EXTENDS Integers, Sequences, FiniteSets

CONSTANTS
    Slots,          \* bound: names of listener tasks alive at the same time
    MaxHandlers,    \* bound: live datagram handlers per listener
    SlowTasks       \* protocols whose stopped tasks may take longer than 5 s

ASSUME L4BoundAssumption == IsFiniteSet(Slots) /\ MaxHandlers \in Nat
ASSUME SlowTasksAssumption == SlowTasks \subseteq {"Http", "Https", "Tcp", "Udp", "Tls"}

VARIABLES
    heap,           \* content of every configuration ever compiled
    config,         \* shared ArcSwap<CompiledL4Config>
    queue,          \* unbounded channel to the manager
    mpc,            \* next step of run_manager
    mcur,           \* run_manager's `current`
    active,         \* live handles: a set of [listener, task]
    awaiting,       \* removed tasks the manager still waits for
    tasks,          \* listener tasks by slot: [state, listener, stop, handlers]
    foreign         \* socket keys held outside this process

managerVars == <<mpc, mcur, active, awaiting>>
l4Vars == <<heap, config, queue, managerVars, tasks, foreign>>

\* TCP and UDP ports are separate name spaces.
SocketKey(l) == <<l.bind_addr, IF l.protocol = "Udp" THEN "udp" ELSE "tcp">>

\* A socket is open while its task or a datagram handler has it.
Holds(k) == tasks[k].state = "bound" \/ tasks[k].handlers > 0
KeysInUse == foreign \union {SocketKey(tasks[k].listener) : k \in {j \in Slots : Holds(j)}}

NoListener == [id |-> <<0, "none">>, bind_addr |-> 0, protocol |-> "none"]
NoTask == [state |-> "ended", listener |-> NoListener, stop |-> FALSE, handlers |-> 0]

L4Init ==
    /\ queue = <<>>
    /\ mpc = "recv"
    /\ mcur = 1
    /\ active = {}
    /\ awaiting = {}
    /\ tasks = [k \in Slots |-> NoTask]

-----------------------------------------------------------------------------
\* L4SocketManagerHandle::apply.
ApplyConfig(c) ==
    /\ queue' = Append(queue, c)
    /\ UNCHANGED <<config, managerVars, tasks, foreign>>

(***************************************************************************)
(* run_manager.                                                            *)
(***************************************************************************)
\* Receive and drain to the latest; a configuration equal in content to the
\* running one is skipped.
Receive ==
    /\ mpc = "recv"
    /\ queue # <<>>
    /\ queue' = <<>>
    /\ LET latest == queue[Len(queue)]
       IN  IF heap[latest] = heap[mcur]
           THEN UNCHANGED <<mpc, mcur>>
           ELSE mcur' = latest /\ mpc' = "store"
    /\ UNCHANGED <<config, active, awaiting, tasks, foreign>>

\* shared.config.store(current)
StoreConfig ==
    /\ mpc = "store"
    /\ config' = mcur
    /\ mpc' = "stop"
    /\ UNCHANGED <<queue, mcur, active, awaiting, tasks, foreign>>

Desired == heap[mcur].listeners

\* Mutant of Kept: the address alone decides.
KeptByAddress(h) == \E l \in Desired : l.bind_addr = h.listener.bind_addr

\* A handle is kept when its id is still there with the same address and protocol.
Kept(h) == \E l \in Desired : /\ l.id = h.listener.id
                              /\ l.bind_addr = h.listener.bind_addr
                              /\ l.protocol = h.listener.protocol

\* Mutant of StopRemoved: handles are dropped and nobody is told to stop.
ForgetRemoved ==
    /\ mpc = "stop"
    /\ active' = {h \in active : Kept(h)}
    /\ awaiting' = {}
    /\ mpc' = "await"
    /\ UNCHANGED <<config, queue, mcur, tasks, foreign>>

\* Tell the tasks of the removed listeners to stop.
StopRemoved ==
    /\ mpc = "stop"
    /\ LET removed == {h \in active : ~Kept(h)}
       IN  /\ active' = active \ removed
           /\ awaiting' = {h.task : h \in removed}
           /\ tasks' = [k \in Slots |->
                          [tasks[k] EXCEPT !.stop = @ \/ k \in {h.task : h \in removed}]]
    /\ mpc' = "await"
    /\ UNCHANGED <<config, queue, mcur, foreign>>

\* Mutant of AwaitTask: the manager does not wait for the task.
SkipTask(k) ==
    /\ mpc = "await"
    /\ k \in awaiting
    /\ awaiting' = awaiting \ {k}
    /\ UNCHANGED <<config, queue, mpc, mcur, active, tasks, foreign>>

\* timeout(5 s, task): the task ended, or (only a warning) the timeout passed.
AwaitTask(k) ==
    /\ mpc = "await"
    /\ k \in awaiting
    /\ tasks[k].state = "ended" \/ tasks[k].listener.protocol \in SlowTasks
    /\ awaiting' = awaiting \ {k}
    /\ UNCHANGED <<config, queue, mpc, mcur, active, tasks, foreign>>

\* Spawn a task for every listener that has no handle; the handle is recorded
\* whatever becomes of the task.  A slot is free once nothing of its task and no
\* handle to it is left.
Missing == {l \in Desired : \A h \in active : h.listener.id # l.id}
FreeSlots == {k \in Slots : /\ ~Holds(k) /\ tasks[k].state = "ended"
                            /\ \A h \in active : h.task # k}

StartMissing ==
    /\ mpc = "await" /\ awaiting = {}
    /\ Cardinality(Missing) <= Cardinality(FreeSlots)
    /\ LET slot == CHOOSE f \in [Missing -> FreeSlots] :
                      \A l, m \in Missing : f[l] = f[m] => l = m
       IN  /\ tasks' = [k \in Slots |->
                 IF \E l \in Missing : slot[l] = k
                 THEN [NoTask EXCEPT !.state = "spawned",
                                     !.listener = CHOOSE l \in Missing : slot[l] = k]
                 ELSE tasks[k]]
           /\ active' = active \union {[listener |-> l, task |-> slot[l]] : l \in Missing}
    /\ mpc' = "recv"
    /\ UNCHANGED <<config, queue, mcur, awaiting, foreign>>

-----------------------------------------------------------------------------
(***************************************************************************)
(* Listener tasks (spawn_listener_task).                                   *)
(***************************************************************************)
\* Bind once; on failure the task logs the error and ends.
TaskBind(k) ==
    /\ tasks[k].state = "spawned"
    /\ tasks' = [tasks EXCEPT ![k].state =
                    IF SocketKey(tasks[k].listener) \in KeysInUse THEN "ended" ELSE "bound"]
    /\ UNCHANGED <<config, queue, managerVars, foreign>>

\* The select on the shutdown channel breaks the accept loop.
TaskStop(k) ==
    /\ tasks[k].state = "bound"
    /\ tasks[k].stop
    /\ tasks' = [tasks EXCEPT ![k].state = "ended"]
    /\ UNCHANGED <<config, queue, managerVars, foreign>>

\* A datagram arrives: its handler task gets a clone of the socket.
Datagram(k) ==
    /\ tasks[k].state = "bound"
    /\ tasks[k].listener.protocol = "Udp"
    /\ tasks[k].handlers < MaxHandlers
    /\ tasks' = [tasks EXCEPT ![k].handlers = @ + 1]
    /\ UNCHANGED <<config, queue, managerVars, foreign>>

\* relay_udp answered, failed or timed out after 30 s.
HandlerDone(k) ==
    /\ tasks[k].handlers > 0
    /\ tasks' = [tasks EXCEPT ![k].handlers = @ - 1]
    /\ UNCHANGED <<config, queue, managerVars, foreign>>

\* The other process closes a socket.
ForeignRelease(key) ==
    /\ key \in foreign
    /\ foreign' = foreign \ {key}
    /\ UNCHANGED <<config, queue, managerVars, tasks>>

-----------------------------------------------------------------------------
ManagerStep == Receive \/ StoreConfig \/ StopRemoved \/ (\E k \in awaiting : AwaitTask(k)) \/ StartMissing
TaskStep(k) == TaskBind(k) \/ TaskStop(k)

L4Next ==
    \/ ManagerStep
    \/ \E k \in Slots : TaskStep(k) \/ Datagram(k) \/ HandlerDone(k)
    \/ \E key \in foreign : ForeignRelease(key)

-----------------------------------------------------------------------------
(***************************************************************************)
(* Properties.                                                             *)
(***************************************************************************)
\* Every variable of the manager has its type.
L4TypeOK ==
    /\ queue \in Seq(DOMAIN heap)
    /\ config \in DOMAIN heap
    /\ mpc \in {"recv", "store", "stop", "await"}
    /\ mcur \in DOMAIN heap
    /\ \A h \in active : h.task \in Slots
    /\ awaiting \subseteq Slots
    /\ \A k \in Slots : /\ tasks[k].state \in {"spawned", "bound", "ended"}
                        /\ tasks[k].stop \in BOOLEAN
                        /\ tasks[k].handlers \in 0..MaxHandlers

\* No listener the manager has forgotten goes on accepting: a task that still
\* binds or accepts is the one task of a live handle, or has been told to stop
\* and is waited for (run_manager drops handles when it diffs).
NoOrphanListener ==
    /\ \A k \in Slots : tasks[k].state # "ended" =>
          tasks[k].stop \/ \E h \in active : h.task = k /\ h.listener = tasks[k].listener
    /\ \A g, h \in active : g.listener.id = h.listener.id \/ g.task = h.task => g = h

\* Between two updates the handles are exactly the listeners of the running
\* configuration.
HandlesMatchConfig ==
    mpc = "recv" =>
        {<<h.listener.id, h.listener.bind_addr, h.listener.protocol>> : h \in active}
            = {<<l.id, l.bind_addr, l.protocol>> : l \in Desired}

Stream(l) == l.protocol # "Udp"
IsBound(l) == \E k \in Slots : tasks[k].state = "bound" /\ SocketKey(tasks[k].listener) = SocketKey(l)

\* Every listener has its socket.  Not eventually always so: a UDP listener that is removed and
\* added again while a datagram handler has the old socket stays unbound.
ListenersBound == <>[](\A l \in Desired : IsBound(l))

\* No configuration has two stream listeners on one address; the compiler keeps those of different
\* protocols apart, and then only one of them can bind.
AddressesDistinct ==
    \A c \in DOMAIN heap : \A l, m \in heap[c].listeners :
        Stream(l) /\ Stream(m) /\ l.bind_addr = m.bind_addr => l = m

\* The one bind of a listener has failed.
Refused(l) == \E h \in active : h.listener.id = l.id /\ tasks[h.task].state = "ended"

\* Once configurations stop arriving, every stream listener of the last one has its socket
\* (apply's "starting new binds") or met another process on its address when it tried, and every
\* socket that is still open belongs to a live handle (its "stopping removed ones").  It never
\* meets a socket of this process, although addresses move between listeners and protocols,
\* datagram handlers outlive their listener and a slow task its handle.  After a graceful
\* upgrade the predecessor is the other process: a refused listener is not tried again.
SocketsFollow ==
    /\ [][\A k \in Slots :
            LET l == tasks[k].listener
            IN  AddressesDistinct /\ Stream(l) /\ TaskBind(k) /\ tasks'[k].state = "ended"
                    => SocketKey(l) \in foreign]_l4Vars
    /\ <>[](/\ \A l \in Desired : AddressesDistinct /\ Stream(l) => IsBound(l) \/ Refused(l)
            /\ \A k \in Slots : Holds(k) => \E h \in active : h.task = k)

=============================================================================

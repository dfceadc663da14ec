--------------------------- MODULE ConfigPipeline ---------------------------
(***************************************************************************)
(* From a reconciled route table to bound sockets: the route manager, the  *)
(* L4 manager and the thread of run_serve (src/main.rs) that connects them.*)
(*                                                                         *)
(* The l4_config ArcSwap is shared by all three: RouteManager::apply stores*)
(* the compiled L4 configuration in it, the updater thread compares it by  *)
(* pointer with the last one it forwarded, and the L4 manager stores every *)
(* configuration it takes from its queue back into it.                     *)
(***************************************************************************)
EXTENDS RouteManager

CONSTANTS Slots, MaxHandlers, SlowTasks     \* bounds of L4Manager

VARIABLES
    queue, mpc, mcur, active, awaiting, tasks, foreign,     \* L4 manager
    upc,            \* updater thread: "unborn", "start", "wait", "load"
    ulast,          \* the updater's `last`, a position in arcs; until its first load,
                    \* the one main has forwarded
    missed          \* `last` was stored between main's forward and the updater's first
                    \* load, and nothing has been forwarded since

L4 == INSTANCE L4Manager WITH
        heap <- [i \in DOMAIN arcs |-> L4Of(arcs[i])],
        config <- l4_config

l4Private == <<queue, mpc, mcur, active, awaiting, tasks, foreign>>
updaterVars == <<upc, ulast, missed>>
rmPrivate == <<arcs, current, rewrites, l4_changed, sources, history, phase, pc, job,
               threadVars, rb>>
vars == <<rmVars, l4Private, updaterVars>>

PInit ==
    /\ Init
    /\ L4!L4Init
    /\ foreign = {}
    /\ upc = "unborn"
    /\ ulast = 1
    /\ missed = FALSE

-----------------------------------------------------------------------------
\* run_serve spawns the L4 manager, applies the configuration it finds and
\* starts the updater thread; the reconciler may already be running.
WireL4 ==
    /\ phase = "serving"
    /\ upc = "unborn"
    /\ L4!ApplyConfig(l4_config)
    /\ ulast' = l4_config
    /\ upc' = "start"
    /\ UNCHANGED <<rmPrivate, missed>>

\* The updater's first load, of the cell that the reconciler's tables may have
\* changed in the meantime.
UpdaterStart ==
    /\ upc = "start"
    /\ ulast' = l4_config
    /\ missed' = (l4_config # ulast)
    /\ upc' = "wait"
    /\ UNCHANGED <<rmVars, l4Private>>

\* The flag is set, the condition variable is signalled or the one second wait
\* runs out: all of them clear the flag and go on.
UpdaterWake ==
    /\ upc = "wait"
    /\ l4_changed' = FALSE
    /\ upc' = "load"
    /\ UNCHANGED <<arcs, cells, sources, history, phase, pc, job, threadVars, rb,
                   l4Private, ulast, missed>>

\* Mutant of UpdaterLoad: the configuration is remembered and not forwarded.
UpdaterForgets ==
    /\ upc = "load"
    /\ upc' = "wait"
    /\ ulast' = l4_config
    /\ UNCHANGED <<l4_config, l4Private, missed, rmPrivate>>

\* Load the shared cell and forward it unless it is the same Arc as last time.
UpdaterLoad ==
    /\ upc = "load"
    /\ upc' = "wait"
    /\ IF l4_config # ulast
       THEN L4!ApplyConfig(l4_config) /\ ulast' = l4_config /\ missed' = FALSE
       ELSE UNCHANGED <<l4_config, l4Private, ulast, missed>>
    /\ UNCHANGED rmPrivate

L4Step == L4!L4Next /\ UNCHANGED <<rmPrivate, updaterVars>>

\* Steps of the route manager and of the reconcile loop that feeds it.
Receives == ReceiveLatest /\ UNCHANGED <<l4Private, updaterVars>>
Publishes == (Startup \/ ApplyStep) /\ UNCHANGED <<l4Private, updaterVars>>
Sends == (\E t \in Tables : SendTable(t)) /\ UNCHANGED <<l4Private, updaterVars>>

Forwards == WireL4 \/ UpdaterStart \/ UpdaterWake \/ UpdaterLoad

\* Every thread and task that can run does: main, the manager thread, the updater
\* thread and the tasks of the tokio runtime.
ThreadFairness ==
    /\ WF_vars(Publishes)
    /\ WF_vars(WireL4)
    /\ WF_vars(UpdaterStart \/ UpdaterWake \/ UpdaterLoad)
    /\ WF_vars(L4!ManagerStep /\ UNCHANGED <<rmPrivate, updaterVars>>)
    /\ \A k \in Slots : WF_vars(L4!TaskStep(k) /\ UNCHANGED <<rmPrivate, updaterVars>>)

PNext == Sends \/ Receives \/ Publishes \/ Forwards \/ L4Step
PSpec == PInit /\ [][PNext]_vars

\* Nothing is on its way from the route manager to the sockets.
Drained == /\ upc = "wait" /\ ulast = l4_config
           /\ queue = <<>> /\ mpc = "recv"

\* The same system when updates are far enough apart: a table is received only
\* when the previous one has reached the sockets.
PacedReceives == Drained /\ Receives
PacedNext == Sends \/ PacedReceives \/ Publishes \/ Forwards \/ L4Step
PacedSpec == PInit /\ [][PacedNext]_vars /\ ThreadFairness /\ WF_vars(PacedReceives)

-----------------------------------------------------------------------------
\* Whatever is lost on the way, the router and the sockets agree: with nothing in
\* flight, the cell the router reads has the content the L4 manager runs.  The one
\* exception is the startup window of run_serve: a table stored between main's
\* forward (main.rs:638) and the updater's first load (main.rs:644) is in `last`
\* without having been forwarded, and router and sockets disagree until the updater
\* forwards the next configuration; from then on they agree.
RouterAgreesWithSockets ==
    Drained /\ ~missed => L4Of(arcs[l4_config]) = L4Of(arcs[mcur])

\* RouterAgreesWithSockets without its exception, refuted by the startup window.
RouterAgreesFromTheStart == Drained => L4Of(arcs[l4_config]) = L4Of(arcs[mcur])

\* Nothing is lost on the way, outside the startup window: with nothing in flight and
\* no apply in progress, the sockets are those of the table the proxy serves ("is
\* signaled whenever the compiled L4 configuration changes").
UpdatesReachSockets ==
    Drained /\ ~missed /\ pc = "idle" => L4Of(arcs[mcur]) = L4Of(arcs[current])

\* The sockets end up those of the table the proxy serves: apply's signal, the
\* updater thread and the L4 manager carry every change to the listeners.
L4Converges == <>[](phase = "exited" \/ L4Of(arcs[mcur]) = L4Of(arcs[current]))

=============================================================================

---------------------------- MODULE RouteManager ----------------------------
(***************************************************************************)
(* src/route_manager.rs: the owner of the compiled routing state.          *)
(*                                                                         *)
(* `apply` compiles a tentative source map and then publishes the result   *)
(* through three separate ArcSwap cells (current, l4_config, rewrites), a  *)
(* condition variable, the source map and the version history, each a step *)
(* of its own that other threads can observe.  A compiled result is named  *)
(* by its position in `arcs`, the sequence of all allocations; arcs[a] is  *)
(* the source map that allocation was compiled from (compilation is a      *)
(* function of it) and arcs[1] is the empty table of `new`.                *)
(*                                                                         *)
(* The program calls apply from main during startup (Caddyfile, then TOML) *)
(* and afterwards only from the manager thread of `spawn`, so at most one  *)
(* apply is in progress; `pc` is its next step.  `rollback` is part of the *)
(* interface and not called by the program: RollbackSpec adds it.          *)
(***************************************************************************)
EXTENDS RouteTable

CONSTANTS
    GatewayApi, Caddyfile, Toml,    \* the three sources of the program
    MaxHistory,                     \* RouteManager::max_history
    MaxSends,                       \* bound: tables the reconciler sends
    MaxRollbacks                    \* bound: calls of rollback

ASSUME SourceIdsAssumption == {GatewayApi, Caddyfile, Toml} \subseteq SourceIds
ASSUME MaxHistoryAssumption == MaxHistory \in Nat
ASSUME BoundAssumption == MaxSends \in Nat /\ MaxRollbacks \in Nat

VARIABLES
    arcs,           \* every compiled version ever allocated
    current,        \* ArcSwap<CompiledRouteTable>: a position in arcs
    l4_config,      \* ArcSwap<CompiledL4Config>
    rewrites,       \* ArcSwap<CompiledRewrites>
    l4_changed,     \* the flag of the condition variable
    sources,        \* per-source raw tables
    history,        \* applied versions, oldest first: [source, arc]
    phase,          \* progress of main: "caddyfile", "toml", "serving", "exited"
    pc,             \* next step of the apply in progress, or "idle"
    job,            \* [source, table] of the apply in progress
    chan,           \* tables sent to the manager thread and not yet received
    last,           \* last table the manager thread applied
    lastSent,       \* last table the reconciler sent (history variable)
    nsent,          \* number of tables sent
    rb              \* rollback in progress: [pc, steps, n]; n counts calls

cells == <<current, l4_config, rewrites>>
threadVars == <<chan, last, lastSent, nsent>>
rmVars == <<arcs, cells, l4_changed, sources, history, phase, pc, job, threadVars, rb>>

SourceMaps == [SourceIds -> Tables \union {NoTable}]
NoJob == [source |-> Toml, table |-> NoTable]
EmptySources == [s \in SourceIds |-> NoTable]
HistoryCap == IF MaxHistory = 0 THEN 1 ELSE MaxHistory

Init ==
    /\ arcs = <<EmptySources>>
    /\ current = 1 /\ l4_config = 1 /\ rewrites = 1
    /\ l4_changed = FALSE
    /\ sources = EmptySources
    /\ history = <<>>
    /\ phase = "caddyfile"
    /\ pc = "idle"
    /\ job = NoJob
    /\ chan = <<>>
    /\ last = NoTable
    /\ lastSent = NoTable
    /\ nsent = 0
    /\ rb = [pc |-> "idle", steps |-> 0, n |-> 0]

-----------------------------------------------------------------------------
(***************************************************************************)
(* apply.                                                                  *)
(***************************************************************************)
\* Mutant of BeginApply: the compiler's error is ignored.
BeginApplyUnchecked(s, t) ==
    /\ arcs' = Append(arcs, [sources EXCEPT ![s] = t])
    /\ pc' = "current"
    /\ job' = [source |-> s, table |-> t]
    /\ UNCHANGED <<phase, cells, l4_changed, sources, history>>

\* Clone the sources, insert the new table, merge and compile.  An error
\* returns before anything is published: main gives up, the thread goes on.
BeginApply(s, t) ==
    LET tentative == [sources EXCEPT ![s] = t]
    IN  /\ IF CompileError(tentative)
           THEN /\ phase' = IF phase = "serving" THEN phase ELSE "exited"
                /\ UNCHANGED <<arcs, pc, job>>
           ELSE /\ arcs' = Append(arcs, tentative)
                /\ pc' = "current"
                /\ job' = [source |-> s, table |-> t]
                /\ UNCHANGED phase
        /\ UNCHANGED <<cells, l4_changed, sources, history>>

\* The compilation an apply in progress publishes.
NewArc == Len(arcs)

\* Mutant of StoreCurrent: the rewrites are stored first.
StoreRewritesFirst ==
    /\ pc = "current"
    /\ rewrites' = NewArc
    /\ pc' = "l4_config"
    /\ UNCHANGED <<arcs, l4_config, current, l4_changed, sources, history, phase,
                   job, threadVars, rb>>

StoreCurrent ==
    /\ pc = "current"
    /\ current' = NewArc
    /\ pc' = "l4_config"
    /\ UNCHANGED <<arcs, l4_config, rewrites, l4_changed, sources, history, phase,
                   job, threadVars, rb>>

StoreL4Config ==
    /\ pc = "l4_config"
    /\ l4_config' = NewArc
    /\ pc' = "rewrites"
    /\ UNCHANGED <<arcs, current, rewrites, l4_changed, sources, history, phase,
                   job, threadVars, rb>>

StoreRewrites ==
    /\ pc = "rewrites"
    /\ rewrites' = NewArc
    /\ pc' = "signal"
    /\ UNCHANGED <<arcs, current, l4_config, l4_changed, sources, history, phase,
                   job, threadVars, rb>>

SignalL4 ==
    /\ pc = "signal"
    /\ l4_changed' = TRUE
    /\ pc' = "sources"
    /\ UNCHANGED <<arcs, cells, sources, history, phase, job, threadVars, rb>>

\* Mutant of CommitSources: the tentative sources are not recorded.
CommitNothing ==
    /\ pc = "sources"
    /\ pc' = "history"
    /\ UNCHANGED <<arcs, cells, l4_changed, sources, history, phase, job, threadVars, rb>>

CommitSources ==
    /\ pc = "sources"
    /\ sources' = arcs[NewArc]
    /\ pc' = "history"
    /\ UNCHANGED <<arcs, cells, l4_changed, history, phase, job, threadVars, rb>>

\* Mutant of PushHistory: the limit is off by one.
PushHistoryLate ==
    /\ pc = "history"
    /\ rb.pc = "idle"
    /\ history' = Append(IF Len(history) > MaxHistory /\ history # <<>>
                         THEN Tail(history) ELSE history,
                         [source |-> job.source, arc |-> NewArc])
    /\ phase' = CASE phase = "caddyfile" -> "toml"
                  [] phase = "toml" -> "serving"
                  [] OTHER -> phase
    /\ last' = IF phase = "serving" THEN job.table ELSE last
    /\ pc' = "idle"
    /\ job' = NoJob
    /\ UNCHANGED <<arcs, cells, l4_changed, sources, chan, lastSent, nsent, rb>>

\* Mutant of PushHistory: a full history drops its newest version.
PushHistoryDropsNewest ==
    /\ pc = "history"
    /\ rb.pc = "idle"
    /\ history' = Append(IF Len(history) >= MaxHistory /\ history # <<>>
                         THEN SubSeq(history, 1, Len(history) - 1) ELSE history,
                         [source |-> job.source, arc |-> NewArc])
    /\ phase' = CASE phase = "caddyfile" -> "toml"
                  [] phase = "toml" -> "serving"
                  [] OTHER -> phase
    /\ last' = IF phase = "serving" THEN job.table ELSE last
    /\ pc' = "idle"
    /\ job' = NoJob
    /\ UNCHANGED <<arcs, cells, l4_changed, sources, chan, lastSent, nsent, rb>>

\* Mutant of PushHistory: rollback does not hold the history lock.
PushHistoryUnlocked ==
    /\ pc = "history"
    /\ history' = Append(IF Len(history) >= MaxHistory /\ history # <<>>
                         THEN Tail(history) ELSE history,
                         [source |-> job.source, arc |-> NewArc])
    /\ phase' = CASE phase = "caddyfile" -> "toml"
                  [] phase = "toml" -> "serving"
                  [] OTHER -> phase
    /\ last' = IF phase = "serving" THEN job.table ELSE last
    /\ pc' = "idle"
    /\ job' = NoJob
    /\ UNCHANGED <<arcs, cells, l4_changed, sources, chan, lastSent, nsent, rb>>

\* Drop the oldest version when the history is full, append, and return to the
\* caller: main goes to its next startup step, the thread remembers the table.
PushHistory ==
    /\ pc = "history"
    /\ rb.pc = "idle"
    /\ history' = Append(IF Len(history) >= MaxHistory /\ history # <<>>
                         THEN Tail(history) ELSE history,
                         [source |-> job.source, arc |-> NewArc])
    /\ phase' = CASE phase = "caddyfile" -> "toml"
                  [] phase = "toml" -> "serving"
                  [] OTHER -> phase
    /\ last' = IF phase = "serving" THEN job.table ELSE last
    /\ pc' = "idle"
    /\ job' = NoJob
    /\ UNCHANGED <<arcs, cells, l4_changed, sources, chan, lastSent, nsent, rb>>

-----------------------------------------------------------------------------
(***************************************************************************)
(* Callers.                                                                *)
(***************************************************************************)
\* run_serve applies the Caddyfile source when one is configured.
NoCaddyfile ==
    /\ phase = "caddyfile" /\ pc = "idle"
    /\ phase' = "toml"
    /\ UNCHANGED <<arcs, cells, l4_changed, sources, history, pc, job, threadVars, rb>>

LoadCaddyfile(t) ==
    /\ phase = "caddyfile" /\ pc = "idle"
    /\ BeginApply(Caddyfile, t)
    /\ UNCHANGED <<threadVars, rb>>

LoadToml(t) ==
    /\ phase = "toml" /\ pc = "idle"
    /\ BeginApply(Toml, t)
    /\ UNCHANGED <<threadVars, rb>>

\* The reconcile loop sends a translated table.
SendTable(t) ==
    /\ phase = "serving"
    /\ nsent < MaxSends
    /\ chan' = Append(chan, t)
    /\ lastSent' = t
    /\ nsent' = nsent + 1
    /\ UNCHANGED <<arcs, cells, l4_changed, sources, history, phase, pc, job, last, rb>>

\* Mutant of ReceiveLatest: the channel is drained to its first table.
ReceiveFirst ==
    /\ phase = "serving" /\ pc = "idle"
    /\ chan # <<>>
    /\ chan' = <<>>
    /\ IF chan[1] = last
       THEN UNCHANGED <<arcs, cells, l4_changed, sources, history, phase, pc, job>>
       ELSE BeginApply(GatewayApi, chan[1])
    /\ UNCHANGED <<last, lastSent, nsent, rb>>

\* The manager thread receives, drains the channel to the latest table, skips it
\* when it equals the last one applied, and applies it otherwise.
ReceiveLatest ==
    /\ phase = "serving" /\ pc = "idle"
    /\ chan # <<>>
    /\ chan' = <<>>
    /\ LET latest == chan[Len(chan)]
       IN  IF latest = last
           THEN UNCHANGED <<arcs, cells, l4_changed, sources, history, phase, pc, job>>
           ELSE BeginApply(GatewayApi, latest)
    /\ UNCHANGED <<last, lastSent, nsent, rb>>

-----------------------------------------------------------------------------
(***************************************************************************)
(* rollback: under the history lock, restore the cells of the version      *)
(* `steps` before the newest retained one and truncate the history.        *)
(***************************************************************************)
RollbackTarget == history[Len(history) - rb.steps].arc

\* steps = 0 or steps >= len returns false and changes nothing.
Rollback(steps) ==
    /\ phase = "serving"
    /\ rb.pc = "idle" /\ rb.n < MaxRollbacks
    /\ steps > 0 /\ steps < Len(history)
    /\ rb' = [pc |-> "current", steps |-> steps, n |-> rb.n + 1]
    /\ UNCHANGED <<arcs, cells, l4_changed, sources, history, phase, pc, job, threadVars>>

RollbackCurrent ==
    /\ rb.pc = "current"
    /\ current' = RollbackTarget
    /\ rb' = [rb EXCEPT !.pc = "l4_config"]
    /\ UNCHANGED <<arcs, l4_config, rewrites, l4_changed, sources, history, phase, pc,
                   job, threadVars>>

RollbackL4Config ==
    /\ rb.pc = "l4_config"
    /\ l4_config' = RollbackTarget
    /\ rb' = [rb EXCEPT !.pc = "rewrites"]
    /\ UNCHANGED <<arcs, current, rewrites, l4_changed, sources, history, phase, pc,
                   job, threadVars>>

\* The last store, the truncation and the release of the lock.
RollbackFinish ==
    /\ rb.pc = "rewrites"
    /\ rewrites' = RollbackTarget
    /\ history' = SubSeq(history, 1, Len(history) - rb.steps)
    /\ rb' = [rb EXCEPT !.pc = "idle"]
    /\ UNCHANGED <<arcs, current, l4_config, l4_changed, sources, phase, pc, job,
                   threadVars>>

-----------------------------------------------------------------------------
Startup == NoCaddyfile \/ \E t \in Tables : LoadCaddyfile(t) \/ LoadToml(t)

ApplyStep == \/ StoreCurrent \/ StoreL4Config \/ StoreRewrites
             \/ SignalL4 \/ CommitSources \/ PushHistory

Next ==
    \/ Startup
    \/ \E t \in Tables : SendTable(t)
    \/ ReceiveLatest
    \/ ApplyStep

RollbackStep == RollbackCurrent \/ RollbackL4Config \/ RollbackFinish

RollbackNext ==
    \/ Next
    \/ \E steps \in 1..HistoryCap : Rollback(steps)
    \/ RollbackStep

Spec == Init /\ [][Next]_rmVars

\* The threads of main and of the manager run whenever they can.
Fairness == WF_rmVars(Startup) /\ WF_rmVars(ApplyStep) /\ WF_rmVars(ReceiveLatest)

FairSpec == Spec /\ Fairness

RollbackSpec == Init /\ [][RollbackNext]_rmVars

-----------------------------------------------------------------------------
(***************************************************************************)
(* Properties.                                                             *)
(***************************************************************************)
CellsTypeOK ==
    /\ arcs \in Seq(SourceMaps) /\ Len(arcs) >= 1
    /\ current \in 1..Len(arcs)
    /\ l4_config \in 1..Len(arcs)
    /\ rewrites \in 1..Len(arcs)

ApplyTypeOK ==
    /\ sources \in SourceMaps
    /\ history \in Seq([source : SourceIds, arc : Nat])
    /\ Len(history) <= HistoryCap
    /\ phase \in {"caddyfile", "toml", "serving", "exited"}
    /\ pc \in {"idle", "current", "l4_config", "rewrites", "signal", "sources", "history"}
    /\ job \in [source : SourceIds, table : Tables \union {NoTable}]
    /\ rb \in [pc : {"idle", "current", "l4_config", "rewrites"}, steps : Nat, n : Nat]

ThreadTypeOK ==
    /\ chan \in Seq(Tables)
    /\ last \in Tables \union {NoTable}
    /\ lastSent \in Tables \union {NoTable}
    /\ nsent \in 0..MaxSends

\* Every variable has its type, and the history never exceeds its limit
\* (RouteManager::max_history, at least one version).
TypeOK == CellsTypeOK /\ ApplyTypeOK /\ ThreadTypeOK /\ l4_changed \in BOOLEAN

\* Between two applies the route table and the rewrites are the same version,
\* that version is the compilation of exactly the recorded sources, and it is
\* the newest one of the history: a failed or half-finished apply leaves no
\* trace (apply's "the current table and source state are left unchanged").
Coherent ==
    pc = "idle" =>
        /\ current = rewrites
        /\ arcs[current] = sources
        /\ history # <<>> => history[Len(history)].arc = current

\* At no instant are the rewrites newer than the route table or more than one apply
\* behind it (the store order of apply), and neither cell goes back.  A request takes
\* its plan from the route table and, awaits later, the rewrites: these are at most one
\* apply older than its plan, whatever is published in between.  The L4 configuration
\* has a second writer, the L4 manager (ConfigPipeline), and keeps no such order.
PublishedInOrder ==
    /\ [](rewrites <= current /\ current <= rewrites + 1)
    /\ [][current <= current' /\ rewrites <= rewrites']_rmVars

\* The history holds the most recent applies without a gap, so that rollback(k)
\* really restores the version applied k applies ago.
HistoryContiguous ==
    LET committed == IF pc = "idle" THEN Len(arcs) ELSE Len(arcs) - 1
    IN  \A i \in DOMAIN history : history[i].arc = committed - (Len(history) - i)

\* With rollbacks, the retained versions still are in the order in which they
\* were applied, none twice.
HistoryOrdered ==
    \A i, j \in DOMAIN history : i < j => history[i].arc < history[j].arc

\* A rollback that finishes with no apply in progress leaves the three cells on
\* the newest retained version, and the versions stay in order: the history lock
\* keeps an apply that overlaps the rollback from completing under it.
RollbackRestores ==
    /\ []HistoryOrdered
    /\ [][(RollbackFinish /\ pc = "idle") =>
             /\ current' = rewrites' /\ l4_config' = rewrites'
             /\ history'[Len(history')].arc = rewrites']_rmVars

\* However sends and applies interleave, the proxy ends up serving the last
\* table the reconciler sent, unless that table does not compile.
LatestServed ==
    <>[](\/ phase = "exited"
         \/ lastSent = NoTable
         \/ CompileError([sources EXCEPT ![GatewayApi] = lastSent])
         \/ arcs[current][GatewayApi] = lastSent)

\* The serving table changes only by replacing the table of one source by one
\* that compiles: the manager implements the one-step swap of HotSwap.
Abstract == INSTANCE HotSwap WITH Rejects <- CompileError, served <- arcs[current]
ImplementsHotSwap == Abstract!Spec

=============================================================================

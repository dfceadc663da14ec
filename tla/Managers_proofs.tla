-------------------------- MODULE Managers_proofs --------------------------
(***************************************************************************)
(* Proofs about the two managers.                                          *)
(*                                                                         *)
(* About RouteManager, for every set of sources and tables, every history  *)
(* limit and every number of updates: what it has published between two    *)
(* applies and in the middle of one, what it remembers, and that it        *)
(* implements HotSwap.                                                     *)
(*                                                                         *)
(* About L4Manager, for any number of listeners, tasks and configurations, *)
(* in any order and however fast they are applied, and whatever its caller *)
(* does: the manager never forgets a listener that still accepts           *)
(* (NoOrphanListener), never tells a listener it keeps to stop, and        *)
(* between two updates its handles are exactly the listeners of its        *)
(* configuration (HandlesMatchConfig), also when tasks fail to bind, end   *)
(* late or outlive the time the manager waits for them.                    *)
(***************************************************************************)
EXTENDS RouteManager, L4Manager, FiniteSetTheorems, TLAPS


-----------------------------------------------------------------------------
(***************************************************************************)
(* The inductive invariant.  It pins, for every step of apply, which cells *)
(* already hold the new version and which still hold the previous one.     *)
(***************************************************************************)
CellsInv ==
    /\ current = IF pc = "current" THEN NewArc - 1 ELSE NewArc
    /\ rewrites = IF pc \in {"current", "l4_config", "rewrites"} THEN NewArc - 1 ELSE NewArc

JobInv ==
    pc # "idle" =>
        /\ NewArc >= 2
        /\ arcs[NewArc] = [arcs[NewArc - 1] EXCEPT ![job.source] = job.table]
        /\ ~CompileError(arcs[NewArc])
        /\ job.table \in Tables

SourcesInv ==
    sources = IF pc \in {"idle", "history"} THEN arcs[NewArc] ELSE arcs[NewArc - 1]

IInv ==
    /\ TypeOK
    /\ rb.pc = "idle"
    /\ CellsInv
    /\ JobInv
    /\ SourcesInv
    /\ HistoryContiguous

\* The invariant holds of the manager `new` builds.
LEMMA InitIInv == Init => IInv
<1> SUFFICES ASSUME Init PROVE IInv
    OBVIOUS
<1>1. EmptySources \in SourceMaps
    BY DEF SourceMaps, EmptySources
<1>2. arcs \in Seq(SourceMaps) /\ Len(arcs) = 1 /\ arcs[1] = EmptySources
    BY <1>1 DEF Init
<1>3. CellsTypeOK
    BY <1>2 DEF Init, CellsTypeOK
<1>4. ApplyTypeOK
  <2>1. job \in [source : SourceIds, table : Tables \union {NoTable}]
    BY SourceIdsAssumption DEF Init, NoJob
  <2>2. history \in Seq([source : SourceIds, arc : Nat]) /\ Len(history) <= HistoryCap
    BY MaxHistoryAssumption DEF Init, HistoryCap
  <2> QED
    BY <1>1, <2>1, <2>2 DEF Init, ApplyTypeOK
<1>5. ThreadTypeOK
    BY BoundAssumption DEF Init, ThreadTypeOK
<1>6. CellsInv /\ JobInv /\ SourcesInv /\ HistoryContiguous
    BY <1>2 DEF Init, CellsInv, JobInv, SourcesInv, HistoryContiguous, NewArc
<1>7. l4_changed \in BOOLEAN
    BY Zenon DEF Init
<1>8. rb.pc = "idle"
    BY DEF Init
<1> QED
    BY <1>3, <1>4, <1>5, <1>6, <1>7, <1>8 DEF IInv, TypeOK

\* Compiling a table allocates a version and leaves everything published alone;
\* a table that does not compile leaves the manager as it was.
LEMMA BeginApplyIInv ==
    ASSUME IInv, pc = "idle", NEW s \in SourceIds, NEW t \in Tables,
           BeginApply(s, t), ThreadTypeOK', rb' = rb
    PROVE  IInv'
<1> DEFINE tentative == [sources EXCEPT ![s] = t]
<1>0. /\ CellsTypeOK /\ ApplyTypeOK /\ l4_changed \in BOOLEAN /\ rb.pc = "idle"
      /\ CellsInv /\ JobInv /\ SourcesInv /\ HistoryContiguous
    BY DEF IInv, TypeOK
<1>1. l4_changed' \in BOOLEAN
    BY <1>0, Zenon DEF BeginApply
<1>2. CASE CompileError(tentative)
  <2>1. /\ UNCHANGED <<arcs, pc, job, cells, l4_changed, sources, history>>
        /\ phase' \in {"caddyfile", "toml", "serving", "exited"}
    BY <1>0, <1>2 DEF BeginApply, ApplyTypeOK
  <2>2. CellsTypeOK' /\ ApplyTypeOK'
    BY <1>0, <2>1 DEF CellsTypeOK, ApplyTypeOK, cells
  <2>3. CellsInv' /\ JobInv' /\ SourcesInv' /\ HistoryContiguous'
    BY <1>0, <2>1 DEF CellsInv, JobInv, SourcesInv, HistoryContiguous, NewArc, cells
  <2> QED
    BY <1>0, <1>1, <2>2, <2>3 DEF IInv, TypeOK
<1>3. CASE ~CompileError(tentative)
  <2>1. /\ arcs' = Append(arcs, tentative)
        /\ pc' = "current"
        /\ job' = [source |-> s, table |-> t]
        /\ UNCHANGED <<current, l4_config, rewrites, sources, history, phase>>
    BY <1>3 DEF BeginApply, cells
  <2>2. tentative \in SourceMaps
    BY <1>0 DEF ApplyTypeOK, SourceMaps
  <2>3. /\ arcs' \in Seq(SourceMaps)
        /\ Len(arcs') = Len(arcs) + 1
        /\ arcs'[Len(arcs)] = arcs[Len(arcs)]
        /\ arcs'[Len(arcs) + 1] = tentative
        /\ Len(arcs) \in Nat /\ Len(arcs) >= 1
    BY <1>0, <2>1, <2>2 DEF CellsTypeOK
  <2>4. CellsTypeOK' /\ CellsInv'
    BY <1>0, <2>1, <2>3 DEF CellsTypeOK, CellsInv, NewArc
  <2>5. ApplyTypeOK'
    BY <1>0, <2>1 DEF ApplyTypeOK
  <2>6. sources = arcs[Len(arcs)]
    BY <1>0 DEF SourcesInv, NewArc
  <2>7. JobInv' /\ SourcesInv'
    BY <1>3, <2>1, <2>3, <2>6 DEF JobInv, SourcesInv, NewArc
  <2>8. HistoryContiguous'
    BY <1>0, <2>1, <2>3 DEF HistoryContiguous
  <2> QED
    BY <1>0, <1>1, <2>4, <2>5, <2>7, <2>8 DEF IInv, TypeOK
<1> QED
    BY <1>2, <1>3

\* One step of main, of the reconciler, of the manager thread or of apply keeps
\* the invariant.
LEMMA NextIInv == IInv /\ [Next]_rmVars => IInv'
<1> SUFFICES ASSUME IInv, [Next]_rmVars PROVE IInv'
    OBVIOUS
<1>0. /\ CellsTypeOK /\ ApplyTypeOK /\ ThreadTypeOK /\ l4_changed \in BOOLEAN
      /\ rb.pc = "idle" /\ CellsInv /\ JobInv /\ SourcesInv /\ HistoryContiguous
    BY DEF IInv, TypeOK
<1>1. CASE UNCHANGED rmVars
    BY <1>0, <1>1 DEF rmVars, cells, threadVars, IInv, TypeOK, CellsTypeOK, ApplyTypeOK,
       ThreadTypeOK, CellsInv, JobInv, SourcesInv, HistoryContiguous, NewArc
<1>2. CASE NoCaddyfile
  <2>1. UNCHANGED <<arcs, cells, l4_changed, sources, history, pc, job, threadVars, rb>>
        /\ phase' = "toml"
    BY <1>2 DEF NoCaddyfile
  <2>2. CellsTypeOK' /\ ApplyTypeOK' /\ ThreadTypeOK'
    BY <1>0, <2>1 DEF CellsTypeOK, ApplyTypeOK, ThreadTypeOK, cells, threadVars
  <2>3. CellsInv' /\ JobInv' /\ SourcesInv' /\ HistoryContiguous'
    BY <1>0, <2>1 DEF CellsInv, JobInv, SourcesInv, HistoryContiguous, NewArc, cells
  <2> QED
    BY <1>0, <2>1, <2>2, <2>3 DEF IInv, TypeOK
<1>3. ASSUME NEW t \in Tables, LoadCaddyfile(t) PROVE IInv'
  <2>1. pc = "idle" /\ BeginApply(Caddyfile, t) /\ rb' = rb /\ Caddyfile \in SourceIds
    BY <1>3, SourceIdsAssumption DEF LoadCaddyfile
  <2>2. ThreadTypeOK'
    BY <1>0, <1>3 DEF LoadCaddyfile, ThreadTypeOK, threadVars
  <2> QED
    BY <2>1, <2>2, BeginApplyIInv
<1>4. ASSUME NEW t \in Tables, LoadToml(t) PROVE IInv'
  <2>1. pc = "idle" /\ BeginApply(Toml, t) /\ rb' = rb /\ Toml \in SourceIds
    BY <1>4, SourceIdsAssumption DEF LoadToml
  <2>2. ThreadTypeOK'
    BY <1>0, <1>4 DEF LoadToml, ThreadTypeOK, threadVars
  <2> QED
    BY <2>1, <2>2, BeginApplyIInv
<1>5. ASSUME NEW t \in Tables, SendTable(t) PROVE IInv'
  <2>1. UNCHANGED <<arcs, cells, l4_changed, sources, history, phase, pc, job, rb>>
    BY <1>5 DEF SendTable
  <2>2. ThreadTypeOK'
    BY <1>0, <1>5, BoundAssumption DEF SendTable, ThreadTypeOK
  <2>3. CellsTypeOK' /\ ApplyTypeOK'
    BY <1>0, <2>1 DEF CellsTypeOK, ApplyTypeOK, cells
  <2>4. CellsInv' /\ JobInv' /\ SourcesInv' /\ HistoryContiguous'
    BY <1>0, <2>1 DEF CellsInv, JobInv, SourcesInv, HistoryContiguous, NewArc, cells
  <2> QED
    BY <1>0, <2>1, <2>2, <2>3, <2>4 DEF IInv, TypeOK
<1>6. CASE ReceiveLatest
  <2> DEFINE latest == chan[Len(chan)]
  <2>1. /\ pc = "idle" /\ rb' = rb /\ chan # <<>> /\ chan' = <<>>
        /\ UNCHANGED <<last, lastSent, nsent>>
    BY <1>6 DEF ReceiveLatest
  <2>2. latest \in Tables
    BY <1>0, <2>1 DEF ThreadTypeOK
  <2>3. ThreadTypeOK'
    BY <1>0, <2>1 DEF ThreadTypeOK
  <2>4. CASE latest = last
    <3>1. UNCHANGED <<arcs, cells, l4_changed, sources, history, phase, pc, job>>
      BY <1>6, <2>4 DEF ReceiveLatest
    <3>2. CellsTypeOK' /\ ApplyTypeOK'
      BY <1>0, <2>1, <3>1 DEF CellsTypeOK, ApplyTypeOK, cells
    <3>3. CellsInv' /\ JobInv' /\ SourcesInv' /\ HistoryContiguous'
      BY <1>0, <3>1 DEF CellsInv, JobInv, SourcesInv, HistoryContiguous, NewArc, cells
    <3> QED
      BY <1>0, <2>1, <2>3, <3>1, <3>2, <3>3 DEF IInv, TypeOK
  <2>5. CASE latest # last
    <3>1. BeginApply(GatewayApi, latest)
      BY <1>6, <2>5 DEF ReceiveLatest
    <3> QED
      BY <2>1, <2>2, <2>3, <3>1, BeginApplyIInv, SourceIdsAssumption
  <2> QED
    BY <2>4, <2>5
<1>7. CASE StoreCurrent
  <2> USE <1>7 DEF StoreCurrent, cells, threadVars
  <2>1. CellsTypeOK' /\ CellsInv'
    BY <1>0 DEF CellsTypeOK, CellsInv, NewArc
  <2>2. ApplyTypeOK' /\ ThreadTypeOK'
    BY <1>0 DEF ApplyTypeOK, ThreadTypeOK
  <2>3. JobInv' /\ SourcesInv' /\ HistoryContiguous'
    BY <1>0 DEF JobInv, SourcesInv, HistoryContiguous, NewArc
  <2> QED
    BY <1>0, <2>1, <2>2, <2>3 DEF IInv, TypeOK
<1>8. CASE StoreL4Config
  <2> USE <1>8 DEF StoreL4Config, cells, threadVars
  <2>1. CellsTypeOK' /\ CellsInv'
    BY <1>0 DEF CellsTypeOK, CellsInv, NewArc
  <2>2. ApplyTypeOK' /\ ThreadTypeOK'
    BY <1>0 DEF ApplyTypeOK, ThreadTypeOK
  <2>3. JobInv' /\ SourcesInv' /\ HistoryContiguous'
    BY <1>0 DEF JobInv, SourcesInv, HistoryContiguous, NewArc
  <2> QED
    BY <1>0, <2>1, <2>2, <2>3 DEF IInv, TypeOK
<1>9. CASE StoreRewrites
  <2> USE <1>9 DEF StoreRewrites, cells, threadVars
  <2>1. CellsTypeOK' /\ CellsInv'
    BY <1>0 DEF CellsTypeOK, CellsInv, NewArc
  <2>2. ApplyTypeOK' /\ ThreadTypeOK'
    BY <1>0 DEF ApplyTypeOK, ThreadTypeOK
  <2>3. JobInv' /\ SourcesInv' /\ HistoryContiguous'
    BY <1>0 DEF JobInv, SourcesInv, HistoryContiguous, NewArc
  <2> QED
    BY <1>0, <2>1, <2>2, <2>3 DEF IInv, TypeOK
<1>10. CASE SignalL4
  <2>1. /\ UNCHANGED <<arcs, cells, sources, history, phase, job, threadVars, rb>>
        /\ pc = "signal" /\ pc' = "sources"
    BY <1>10 DEF SignalL4
  <2>2. l4_changed' \in BOOLEAN
    BY <1>10, Zenon DEF SignalL4
  <2>3. CellsTypeOK' /\ CellsInv'
    BY <1>0, <2>1 DEF CellsTypeOK, CellsInv, NewArc, cells
  <2>4. ApplyTypeOK' /\ ThreadTypeOK'
    BY <1>0, <2>1 DEF ApplyTypeOK, ThreadTypeOK, threadVars
  <2>5. JobInv' /\ SourcesInv' /\ HistoryContiguous'
    BY <1>0, <2>1 DEF JobInv, SourcesInv, HistoryContiguous, NewArc
  <2> QED
    BY <1>0, <2>1, <2>2, <2>3, <2>4, <2>5 DEF IInv, TypeOK
<1>11. CASE CommitSources
  <2> USE <1>11 DEF CommitSources, cells, threadVars
  <2>1. CellsTypeOK' /\ CellsInv'
    BY <1>0 DEF CellsTypeOK, CellsInv, NewArc
  <2>2. ApplyTypeOK' /\ ThreadTypeOK'
    BY <1>0 DEF ApplyTypeOK, ThreadTypeOK, CellsTypeOK, NewArc
  <2>3. JobInv' /\ SourcesInv' /\ HistoryContiguous'
    BY <1>0 DEF JobInv, SourcesInv, HistoryContiguous, NewArc
  <2> QED
    BY <1>0, <2>1, <2>2, <2>3 DEF IInv, TypeOK
<1>12. CASE PushHistory
  <2> DEFINE kept == IF Len(history) >= MaxHistory /\ history # <<>>
                     THEN Tail(history) ELSE history
             entry == [source |-> job.source, arc |-> NewArc]
  <2>1. /\ UNCHANGED <<arcs, current, l4_config, rewrites, l4_changed, sources, chan, lastSent, nsent, rb>>
        /\ pc = "history" /\ pc' = "idle"
        /\ job' = NoJob
        /\ history' = Append(kept, entry)
    BY <1>12 DEF PushHistory, cells
  <2>2. phase' \in {"caddyfile", "toml", "serving", "exited"}
    BY <1>0, <1>12 DEF PushHistory, ApplyTypeOK
  <2>3. ThreadTypeOK'
    BY <1>0, <1>12 DEF PushHistory, ThreadTypeOK, JobInv
  <2>4. /\ Len(arcs) \in Nat /\ entry \in [source : SourceIds, arc : Nat]
        /\ history \in Seq([source : SourceIds, arc : Nat])
    BY <1>0 DEF CellsTypeOK, ApplyTypeOK, NewArc
  <2>5. kept \in Seq([source : SourceIds, arc : Nat])
    BY <2>4
  <2>6. Len(kept) + 1 <= HistoryCap
    BY <1>0, <2>4, MaxHistoryAssumption DEF ApplyTypeOK, HistoryCap
  <2>7. job' \in [source : SourceIds, table : Tables \union {NoTable}]
    BY <2>1, SourceIdsAssumption DEF NoJob
  <2>8. CellsTypeOK' /\ CellsInv'
    BY <1>0, <2>1 DEF CellsTypeOK, CellsInv, NewArc
  <2>9. ApplyTypeOK'
    BY <1>0, <2>1, <2>2, <2>4, <2>5, <2>6, <2>7 DEF ApplyTypeOK
  <2>10. JobInv' /\ SourcesInv'
    BY <1>0, <2>1 DEF JobInv, SourcesInv, NewArc
  <2>11. \A i \in DOMAIN kept : kept[i].arc = Len(arcs) - 1 - (Len(kept) - i)
    <3>1. \A i \in DOMAIN history : history[i].arc = Len(arcs) - 1 - (Len(history) - i)
      BY <1>0, <2>1 DEF HistoryContiguous
    <3>2. CASE kept = history
      BY <3>1, <3>2
    <3>3. CASE history # <<>> /\ kept = Tail(history)
      <4>1. Len(kept) = Len(history) - 1 /\ DOMAIN kept = 1..(Len(history) - 1)
        BY <2>4, <3>3
      <4>2. \A i \in DOMAIN kept : kept[i] = history[i + 1] /\ i + 1 \in DOMAIN history
        BY <2>4, <3>3, <4>1
      <4> QED
        BY <2>4, <3>1, <4>1, <4>2
    <3> QED
      BY <3>2, <3>3
  <2>12. HistoryContiguous'
    <3>1. Len(history') = Len(kept) + 1 /\ DOMAIN history' = 1..(Len(kept) + 1)
      BY <2>1, <2>4, <2>5
    <3>2. \A i \in 1..Len(kept) : history'[i] = kept[i]
      BY <2>1, <2>4, <2>5
    <3>3. history'[Len(kept) + 1].arc = Len(arcs)
      BY <2>1, <2>4, <2>5 DEF NewArc
    <3>4. Len(kept) \in Nat /\ DOMAIN kept = 1..Len(kept)
      BY <2>5
    <3> HIDE DEF kept, entry
    <3>5. ASSUME NEW i \in DOMAIN history'
          PROVE  history'[i].arc = Len(arcs) - (Len(history') - i)
      <4>1. CASE i \in 1..Len(kept)
        BY <2>4, <2>11, <3>1, <3>2, <3>4, <4>1
      <4>2. CASE i = Len(kept) + 1
        BY <2>4, <3>1, <3>3, <3>4, <4>2
      <4> QED
        BY <3>1, <3>4, <4>1, <4>2
    <3> QED
      BY <2>1, <3>5 DEF HistoryContiguous
  <2> QED
    BY <1>0, <2>1, <2>3, <2>8, <2>9, <2>10, <2>12 DEF IInv, TypeOK
<1> QED
    BY <1>1, <1>2, <1>3, <1>4, <1>5, <1>6, <1>7, <1>8, <1>9, <1>10, <1>11, <1>12
    DEF Next, Startup, ApplyStep

-----------------------------------------------------------------------------
(***************************************************************************)
(* The safety properties follow from the invariant.                        *)
(***************************************************************************)
\* IInv is an invariant of the program's use of the manager.
LEMMA Invariant == Spec => []IInv
    BY InitIInv, NextIInv, PTL DEF Spec

\* Every variable keeps its type and the history its limit.
THEOREM TypeCorrect == Spec => []TypeOK
<1>1. IInv => TypeOK
    BY DEF IInv
<1> QED
    BY <1>1, Invariant, PTL

\* Between two applies the published table, the rewrites, the recorded sources
\* and the newest version of the history agree (RouteManager::apply).
THEOREM CoherentTheorem == Spec => []Coherent
<1>1. IInv => Coherent
  <2> SUFFICES ASSUME IInv, pc = "idle"
               PROVE  /\ current = rewrites
                      /\ arcs[current] = sources
                      /\ history # <<>> => history[Len(history)].arc = current
    BY DEF Coherent
  <2>1. current = Len(arcs) /\ rewrites = Len(arcs) /\ Len(arcs) \in Nat
    BY DEF IInv, TypeOK, CellsTypeOK, CellsInv, NewArc
  <2>2. arcs[Len(arcs)] = sources
    BY DEF IInv, SourcesInv, NewArc
  <2>3. ASSUME history # <<>> PROVE history[Len(history)].arc = Len(arcs)
    <3>1. Len(history) \in DOMAIN history /\ Len(history) \in Nat
      BY <2>3 DEF IInv, TypeOK, ApplyTypeOK
    <3> QED
      BY <2>1, <3>1 DEF IInv, HistoryContiguous
  <2> QED
    BY <2>1, <2>2, <2>3
<1> QED
    BY <1>1, Invariant, PTL

\* The rewrites are never newer than the route table nor more than one apply behind it, and
\* neither goes back: what a request finds in the rewrites is at most one apply older than
\* the plan it took from the route table before.
THEOREM PublishedInOrderTheorem == Spec => PublishedInOrder
<1>1. IInv => rewrites <= current /\ current <= rewrites + 1
    BY DEF IInv, TypeOK, CellsTypeOK, CellsInv, NewArc
<1>2. IInv /\ [Next]_rmVars => [current <= current' /\ rewrites <= rewrites']_rmVars
  <2> SUFFICES ASSUME IInv, Next PROVE current <= current' /\ rewrites <= rewrites'
    OBVIOUS
  <2>1. current \in 1..NewArc /\ rewrites \in 1..NewArc /\ NewArc \in Nat
    BY DEF IInv, TypeOK, CellsTypeOK, NewArc
  <2>2. current' \in {current, NewArc} /\ rewrites' \in {rewrites, NewArc}
    BY DEF Next, Startup, NoCaddyfile, LoadCaddyfile, LoadToml, BeginApply, SendTable, ReceiveLatest,
           ApplyStep, StoreCurrent, StoreL4Config, StoreRewrites, SignalL4, CommitSources,
           PushHistory, cells
  <2> QED
    BY <2>1, <2>2
<1> QED
    BY <1>1, <1>2, Invariant, PTL DEF Spec, PublishedInOrder

\* The retained versions are the most recent applies, without a gap.
THEOREM HistoryTheorem == Spec => []HistoryContiguous
<1>1. IInv => HistoryContiguous
    BY DEF IInv
<1> QED
    BY <1>1, Invariant, PTL

-----------------------------------------------------------------------------
(***************************************************************************)
(* The manager implements the one-step swap: its StoreCurrent steps are    *)
(* the swaps of HotSwap and every other step leaves arcs[current] alone.   *)
(***************************************************************************)
\* Appending an allocation does not change the versions already allocated.
LEMMA ServedStable ==
    ASSUME IInv, Next, ~StoreCurrent
    PROVE  arcs'[current'] = arcs[current]
<1>0. arcs \in Seq(SourceMaps) /\ current \in 1..Len(arcs)
    BY DEF IInv, TypeOK, CellsTypeOK
<1>1. ASSUME NEW s, NEW t, BeginApply(s, t) PROVE arcs'[current'] = arcs[current]
  <2>1. CASE UNCHANGED <<arcs, current>>
    BY <2>1
  <2>2. CASE arcs' = Append(arcs, [sources EXCEPT ![s] = t]) /\ UNCHANGED current
    BY <1>0, <2>2
  <2> QED
    BY <1>1, <2>1, <2>2 DEF BeginApply, cells
<1>2. CASE Startup
    BY <1>1, <1>2 DEF Startup, NoCaddyfile, LoadCaddyfile, LoadToml, cells
<1>3. CASE \E t \in Tables : SendTable(t)
    BY <1>3 DEF SendTable, cells
<1>4. CASE ReceiveLatest
    BY <1>1, <1>4 DEF ReceiveLatest, cells
<1>5. CASE ApplyStep
    BY <1>5 DEF ApplyStep, StoreL4Config, StoreRewrites, SignalL4, CommitSources,
       PushHistory, cells
<1> QED
    BY <1>2, <1>3, <1>4, <1>5 DEF Next

\* Publishing the route table replaces exactly the table of the job's source, by
\* one that compiled.
LEMMA StoreIsSwap ==
    ASSUME IInv, StoreCurrent
    PROVE  Abstract!Swap(job.source, job.table)
<1>1. /\ pc = "current" /\ current' = Len(arcs) /\ arcs' = arcs
      /\ current = Len(arcs) - 1
    BY DEF IInv, CellsInv, StoreCurrent, NewArc
<1>2. /\ arcs[Len(arcs)] = [arcs[Len(arcs) - 1] EXCEPT ![job.source] = job.table]
      /\ ~CompileError(arcs[Len(arcs)])
    BY <1>1 DEF IInv, JobInv, NewArc
<1>3. ~CompileError([arcs[current] EXCEPT ![job.source] = job.table])
    BY <1>1, <1>2
<1>4. arcs'[current'] = [arcs[current] EXCEPT ![job.source] = job.table]
    BY <1>1, <1>2
<1> QED
    BY <1>3, <1>4 DEF Abstract!Swap

\* The route manager implements the hot swap: for every set of tables and every
\* interleaving of startup, updates and applies, the serving table changes only
\* by accepted replacements of one source's table.
THEOREM Refinement == Spec => ImplementsHotSwap
<1>1. Init => Abstract!Init
    BY DEF Init, Abstract!Init, Abstract!Empty, EmptySources
<1>2. IInv /\ [Next]_rmVars => [Abstract!Next]_(arcs[current])
  <2> SUFFICES ASSUME IInv, [Next]_rmVars
               PROVE  Abstract!Next \/ arcs'[current'] = arcs[current]
    OBVIOUS
  <2>1. CASE UNCHANGED rmVars
    BY <2>1 DEF rmVars, cells
  <2>2. CASE Next /\ ~StoreCurrent
    BY <2>2, ServedStable
  <2>3. CASE StoreCurrent
    <3>1. job.source \in SourceIds /\ job.table \in Tables
      BY <2>3 DEF IInv, TypeOK, ApplyTypeOK, JobInv, StoreCurrent
    <3> QED
      BY <2>3, <3>1, StoreIsSwap DEF Abstract!Next
  <2> QED
    BY <2>1, <2>2, <2>3
<1> QED
    BY <1>1, <1>2, Invariant, PTL DEF Spec, ImplementsHotSwap, Abstract!Spec

-----------------------------------------------------------------------------
(***************************************************************************)
(* Rollbacks that overlap applies.  The history lock is what the argument  *)
(* rests on: an apply cannot end while a rollback is under way, so if no   *)
(* apply is in progress when it finishes, none was all along, and the      *)
(* cells it has stored are still as it left them.                          *)
(***************************************************************************)
Versions == [source : SourceIds, arc : Nat]

RollbackTypes ==
    /\ arcs \in Seq(SourceMaps) /\ Len(arcs) >= 1
    /\ sources \in SourceMaps /\ chan \in Seq(Tables)
    /\ job \in [source : SourceIds, table : Tables \union {NoTable}]
    /\ history \in Seq(Versions)
    /\ rb \in [pc : {"idle", "current", "l4_config", "rewrites"}, steps : Nat, n : Nat]

\* The versions of the history have been published: that of an apply in progress is not there yet.
HistoryPublished ==
    \A i \in DOMAIN history : history[i].arc <= IF pc = "idle" THEN Len(arcs) ELSE Len(arcs) - 1

\* A rollback has a version to go back to, and finds the cells it has stored as it left them.
RollbackUnderWay ==
    /\ rb.pc # "idle" => rb.steps \in 1..(Len(history) - 1)
    /\ rb.pc \in {"l4_config", "rewrites"} /\ pc = "idle" => current = RollbackTarget
    /\ rb.pc = "rewrites" /\ pc = "idle" => l4_config = RollbackTarget

RollbackInv == RollbackTypes /\ HistoryOrdered /\ HistoryPublished /\ RollbackUnderWay

\* Steps of apply, of its callers and of the reconciler that leave the history alone.  The cells
\* change only while an apply is in progress.
LEMMA ApplyKeepsRollback ==
    ASSUME RollbackInv, UNCHANGED <<history, rb>>,
           arcs' \in Seq(SourceMaps), sources' \in SourceMaps, chan' \in Seq(Tables),
           job' \in [source : SourceIds, table : Tables \union {NoTable}],
           \/ arcs' = arcs /\ (pc' = "idle") = (pc = "idle")
           \/ Len(arcs') = Len(arcs) + 1 /\ pc = "idle" /\ pc' # "idle",
           pc' = "idle" => UNCHANGED <<current, l4_config>>
    PROVE  RollbackInv'
<1>1. RollbackTypes /\ HistoryOrdered /\ HistoryPublished /\ RollbackUnderWay /\ Len(arcs) \in Nat
    BY DEF RollbackInv, RollbackTypes
<1>2. RollbackTypes'
    BY <1>1 DEF RollbackTypes
<1>3. HistoryOrdered'
    BY <1>1 DEF HistoryOrdered
<1>4. HistoryPublished'
    BY <1>1 DEF HistoryPublished
<1>5. RollbackUnderWay'
    BY <1>1 DEF RollbackUnderWay, RollbackTarget
<1> QED
    BY <1>2, <1>3, <1>4, <1>5 DEF RollbackInv

\* Compiling a table allocates a version or does nothing.
LEMMA BeginApplyKeepsRollback ==
    ASSUME RollbackInv, pc = "idle", NEW s \in SourceIds, NEW t \in Tables,
           BeginApply(s, t), chan' \in Seq(Tables), rb' = rb
    PROVE  RollbackInv'
<1> DEFINE tentative == [sources EXCEPT ![s] = t]
<1>1. /\ arcs \in Seq(SourceMaps) /\ sources \in SourceMaps
      /\ job \in [source : SourceIds, table : Tables \union {NoTable}]
    BY DEF RollbackInv, RollbackTypes
<1>2. tentative \in SourceMaps
    BY <1>1 DEF SourceMaps
<1>3. UNCHANGED <<current, l4_config, sources, history>>
    BY DEF BeginApply, cells
<1>4. \/ UNCHANGED <<arcs, pc, job>>
      \/ arcs' = Append(arcs, tentative) /\ pc' = "current" /\ job' = [source |-> s, table |-> t]
    BY DEF BeginApply
<1> HIDE DEF tentative
<1>5. CASE UNCHANGED <<arcs, pc, job>>
    BY <1>1, <1>3, <1>5, ApplyKeepsRollback
<1>6. CASE arcs' = Append(arcs, tentative) /\ pc' = "current" /\ job' = [source |-> s, table |-> t]
  <2>1. Len(arcs') = Len(arcs) + 1 /\ arcs' \in Seq(SourceMaps)
    BY <1>1, <1>2, <1>6
  <2> QED
    BY <1>1, <1>3, <1>6, <2>1, ApplyKeepsRollback
<1> QED
    BY <1>4, <1>5, <1>6

\* The end of an apply, which waits for the history lock: its version is newer than all others.
LEMMA PushHistoryKeepsRollback ==
    ASSUME RollbackInv, PushHistory
    PROVE  RollbackInv'
<1> DEFINE kept == IF Len(history) >= MaxHistory /\ history # <<>>
                   THEN Tail(history) ELSE history
           entry == [source |-> job.source, arc |-> NewArc]
<1>0. /\ RollbackTypes /\ HistoryOrdered /\ HistoryPublished /\ RollbackUnderWay /\ Len(arcs) \in Nat
      /\ history \in Seq(Versions)
    BY DEF RollbackInv, RollbackTypes
<1>1. /\ UNCHANGED <<arcs, sources, chan, rb>> /\ pc = "history" /\ rb.pc = "idle" /\ pc' = "idle"
      /\ job' = NoJob /\ history' = Append(kept, entry)
    BY DEF PushHistory
<1>2. entry \in Versions /\ entry.arc = Len(arcs)
    BY <1>0 DEF RollbackTypes, Versions, NewArc
<1>3. kept \in Seq(Versions)
    BY <1>0
<1>4. /\ \A i \in DOMAIN kept : kept[i].arc <= Len(arcs) - 1
      /\ \A i, j \in DOMAIN kept : i < j => kept[i].arc < kept[j].arc
  <2>1. /\ \A i \in DOMAIN history : history[i].arc <= Len(arcs) - 1
        /\ \A i, j \in DOMAIN history : i < j => history[i].arc < history[j].arc
    BY <1>0, <1>1 DEF HistoryPublished, HistoryOrdered
  <2>2. CASE kept = history
    BY <2>1, <2>2
  <2>3. CASE history # <<>> /\ kept = Tail(history)
    <3>1. Len(kept) = Len(history) - 1 /\ DOMAIN kept = 1..(Len(history) - 1)
      BY <1>0, <2>3
    <3>2. \A i \in DOMAIN kept : kept[i] = history[i + 1] /\ i + 1 \in DOMAIN history
      BY <1>0, <2>3, <3>1
    <3> QED
      BY <1>0, <2>1, <3>1, <3>2
  <2> QED
    BY <2>2, <2>3
<1> HIDE DEF kept, entry
<1>5. /\ history' \in Seq(Versions) /\ DOMAIN history' = 1..(Len(kept) + 1) /\ Len(kept) \in Nat
      /\ \A i \in 1..Len(kept) : history'[i] = kept[i]
      /\ history'[Len(kept) + 1] = entry /\ DOMAIN kept = 1..Len(kept)
    BY <1>1, <1>2, <1>3
<1>6. \A i \in 1..Len(kept) : kept[i].arc \in Nat
  <2>1. \A i \in 1..Len(kept) : kept[i] \in Versions
    BY <1>3
  <2> QED
    BY <2>1 DEF Versions
<1>7. RollbackTypes'
  <2>1. job' \in [source : SourceIds, table : Tables \union {NoTable}]
    BY <1>1, SourceIdsAssumption DEF NoJob
  <2> QED
    BY <1>0, <1>1, <1>5, <2>1 DEF RollbackTypes
<1>8. HistoryOrdered'
  <2> SUFFICES ASSUME NEW i \in DOMAIN history', NEW j \in DOMAIN history', i < j
               PROVE  history'[i].arc < history'[j].arc
    BY DEF HistoryOrdered
  <2>1. i \in 1..Len(kept) /\ (j \in 1..Len(kept) \/ j = Len(kept) + 1)
    BY <1>5
  <2> QED
    BY <1>0, <1>2, <1>4, <1>5, <1>6, <2>1
<1>9. HistoryPublished'
  <2> SUFFICES ASSUME NEW i \in DOMAIN history' PROVE history'[i].arc <= Len(arcs)
    BY <1>1 DEF HistoryPublished
  <2>1. i \in 1..Len(kept) \/ i = Len(kept) + 1
    BY <1>5
  <2> QED
    BY <1>0, <1>2, <1>4, <1>5, <1>6, <2>1
<1>10. RollbackUnderWay'
    BY <1>1 DEF RollbackUnderWay
<1> QED
    BY <1>7, <1>8, <1>9, <1>10 DEF RollbackInv

\* Every step of main, of the reconciler, of the manager thread and of apply.
LEMMA NextKeepsRollback ==
    ASSUME RollbackInv, Next
    PROVE  RollbackInv'
<1>0. /\ arcs \in Seq(SourceMaps) /\ Len(arcs) >= 1 /\ sources \in SourceMaps /\ chan \in Seq(Tables)
      /\ job \in [source : SourceIds, table : Tables \union {NoTable}]
    BY DEF RollbackInv, RollbackTypes
<1>1. CASE NoCaddyfile
    BY <1>0, <1>1, ApplyKeepsRollback DEF NoCaddyfile, cells, threadVars
<1>2. ASSUME NEW t \in Tables, LoadCaddyfile(t) \/ LoadToml(t) PROVE RollbackInv'
  <2>1. pc = "idle" /\ (BeginApply(Caddyfile, t) \/ BeginApply(Toml, t)) /\ rb' = rb /\ chan' = chan
    BY <1>2 DEF LoadCaddyfile, LoadToml, threadVars
  <2> QED
    BY <1>0, <2>1, BeginApplyKeepsRollback, SourceIdsAssumption
<1>3. ASSUME NEW t \in Tables, SendTable(t) PROVE RollbackInv'
  <2>1. UNCHANGED <<arcs, current, l4_config, sources, history, pc, job, rb>> /\ chan' = Append(chan, t)
    BY <1>3 DEF SendTable, cells
  <2>2. chan' \in Seq(Tables)
    BY <1>0, <1>3, <2>1
  <2> QED
    BY <1>0, <2>1, <2>2, ApplyKeepsRollback
<1>4. CASE ReceiveLatest
  <2>1. /\ pc = "idle" /\ rb' = rb /\ chan # <<>> /\ chan' = <<>>
        /\ \/ UNCHANGED <<arcs, current, l4_config, sources, history, pc, job>>
           \/ BeginApply(GatewayApi, chan[Len(chan)])
    BY <1>4 DEF ReceiveLatest, cells
  <2>2. chan[Len(chan)] \in Tables /\ chan' \in Seq(Tables)
    BY <1>0, <2>1
  <2> QED
    BY <1>0, <2>1, <2>2, ApplyKeepsRollback, BeginApplyKeepsRollback, SourceIdsAssumption
<1>5. CASE StoreCurrent \/ StoreL4Config \/ StoreRewrites \/ SignalL4
  <2>1. UNCHANGED <<arcs, sources, history, job, chan, rb>> /\ pc # "idle" /\ pc' # "idle"
    BY <1>5 DEF StoreCurrent, StoreL4Config, StoreRewrites, SignalL4, threadVars
  <2> QED
    BY <1>0, <2>1, ApplyKeepsRollback
<1>6. CASE CommitSources
  <2>1. /\ UNCHANGED <<arcs, history, job, chan, rb>> /\ sources' = arcs[Len(arcs)]
        /\ pc # "idle" /\ pc' # "idle"
    BY <1>6 DEF CommitSources, NewArc, threadVars
  <2>2. sources' \in SourceMaps
    BY <1>0, <2>1
  <2> QED
    BY <1>0, <2>1, <2>2, ApplyKeepsRollback
<1>7. CASE PushHistory
    BY <1>7, PushHistoryKeepsRollback
<1> QED
    BY <1>1, <1>2, <1>3, <1>4, <1>5, <1>6, <1>7 DEF Next, Startup, ApplyStep

\* Every step of rollback, which holds the history lock from its first store to the truncation.
LEMMA RollbackKeepsRollback ==
    ASSUME RollbackInv, (\E steps \in 1..HistoryCap : Rollback(steps)) \/ RollbackStep
    PROVE  RollbackInv'
<1>0. /\ RollbackTypes /\ HistoryOrdered /\ HistoryPublished /\ RollbackUnderWay
      /\ history \in Seq(Versions) /\ Len(history) \in Nat
      /\ rb \in [pc : {"idle", "current", "l4_config", "rewrites"}, steps : Nat, n : Nat]
    BY DEF RollbackInv, RollbackTypes
<1>1. UNCHANGED <<arcs, sources, chan, job, pc>>
    BY DEF Rollback, RollbackStep, RollbackCurrent, RollbackL4Config, RollbackFinish, threadVars
<1>2. ASSUME history' = history, RollbackUnderWay',
             rb' \in [pc : {"idle", "current", "l4_config", "rewrites"}, steps : Nat, n : Nat]
      PROVE  RollbackInv'
    BY <1>0, <1>1, <1>2 DEF RollbackInv, RollbackTypes, HistoryOrdered, HistoryPublished
<1>3. ASSUME NEW steps \in 1..HistoryCap, Rollback(steps) PROVE RollbackInv'
  <2>1. /\ history' = history /\ steps > 0 /\ steps < Len(history)
        /\ rb' = [pc |-> "current", steps |-> steps, n |-> rb.n + 1]
    BY <1>3 DEF Rollback
  <2>2. rb'.pc = "current" /\ rb'.steps = steps
        /\ rb' \in [pc : {"idle", "current", "l4_config", "rewrites"}, steps : Nat, n : Nat]
    BY <1>0, <2>1
  <2>3. RollbackUnderWay'
    BY <1>0, <2>1, <2>2 DEF RollbackUnderWay
  <2> QED
    BY <1>2, <2>1, <2>2, <2>3
<1>4. CASE RollbackCurrent
  <2>1. /\ rb.pc = "current" /\ history' = history /\ l4_config' = l4_config
        /\ current' = RollbackTarget /\ rb' = [rb EXCEPT !.pc = "l4_config"]
    BY <1>4 DEF RollbackCurrent
  <2>2. rb'.pc = "l4_config" /\ rb'.steps = rb.steps
        /\ rb' \in [pc : {"idle", "current", "l4_config", "rewrites"}, steps : Nat, n : Nat]
    BY <1>0, <2>1
  <2>3. RollbackUnderWay'
    BY <1>0, <2>1, <2>2 DEF RollbackUnderWay, RollbackTarget
  <2> QED
    BY <1>2, <2>1, <2>2, <2>3
<1>5. CASE RollbackL4Config
  <2>1. /\ rb.pc = "l4_config" /\ history' = history /\ current' = current
        /\ l4_config' = RollbackTarget /\ rb' = [rb EXCEPT !.pc = "rewrites"]
    BY <1>5 DEF RollbackL4Config
  <2>2. rb'.pc = "rewrites" /\ rb'.steps = rb.steps
        /\ rb' \in [pc : {"idle", "current", "l4_config", "rewrites"}, steps : Nat, n : Nat]
    BY <1>0, <2>1
  <2>3. RollbackUnderWay'
    BY <1>0, <1>1, <2>1, <2>2 DEF RollbackUnderWay, RollbackTarget
  <2> QED
    BY <1>2, <2>1, <2>2, <2>3
<1>6. CASE RollbackFinish
  <2>1. /\ rb.pc = "rewrites" /\ rb' = [rb EXCEPT !.pc = "idle"]
        /\ history' = SubSeq(history, 1, Len(history) - rb.steps)
    BY <1>6 DEF RollbackFinish
  <2>2. rb'.pc = "idle"
        /\ rb' \in [pc : {"idle", "current", "l4_config", "rewrites"}, steps : Nat, n : Nat]
    BY <1>0, <2>1
  <2>3. rb.steps \in 1..(Len(history) - 1)
    BY <1>0, <2>1 DEF RollbackUnderWay
  <2>4. /\ history' \in Seq(Versions) /\ DOMAIN history' \subseteq DOMAIN history
        /\ \A i \in DOMAIN history' : history'[i] = history[i]
    BY <1>0, <2>1, <2>3
  <2>5. RollbackTypes'
    BY <1>0, <1>1, <2>2, <2>4 DEF RollbackTypes
  <2>6. HistoryOrdered' /\ HistoryPublished'
    BY <1>0, <1>1, <2>4 DEF HistoryOrdered, HistoryPublished
  <2>7. RollbackUnderWay'
    BY <2>2 DEF RollbackUnderWay
  <2> QED
    BY <2>5, <2>6, <2>7 DEF RollbackInv
<1> QED
    BY <1>3, <1>4, <1>5, <1>6 DEF RollbackStep

\* The invariant holds of a new manager and of every step.
LEMMA RollbackInvariant == RollbackSpec => []RollbackInv
<1>1. Init => RollbackInv
  <2> SUFFICES ASSUME Init PROVE RollbackInv
    OBVIOUS
  <2>1. /\ arcs = <<EmptySources>> /\ sources = EmptySources /\ chan = <<>> /\ job = NoJob
        /\ history = <<>> /\ rb = [pc |-> "idle", steps |-> 0, n |-> 0]
    BY DEF Init
  <2>2. EmptySources \in SourceMaps
    BY DEF SourceMaps, EmptySources
  <2>3. job \in [source : SourceIds, table : Tables \union {NoTable}]
    BY <2>1, SourceIdsAssumption DEF NoJob
  <2>4. RollbackTypes
    BY <2>1, <2>2, <2>3 DEF RollbackTypes
  <2>5. HistoryOrdered /\ HistoryPublished /\ RollbackUnderWay
    BY <2>1 DEF HistoryOrdered, HistoryPublished, RollbackUnderWay
  <2> QED
    BY <2>4, <2>5 DEF RollbackInv
<1>2. RollbackInv /\ [RollbackNext]_rmVars => RollbackInv'
  <2> SUFFICES ASSUME RollbackInv, [RollbackNext]_rmVars PROVE RollbackInv'
    OBVIOUS
  <2>1. CASE UNCHANGED rmVars
    BY <2>1 DEF rmVars, cells, threadVars, RollbackInv, RollbackTypes, HistoryOrdered,
       HistoryPublished, RollbackUnderWay, RollbackTarget
  <2> QED
    BY <2>1, NextKeepsRollback, RollbackKeepsRollback DEF RollbackNext
<1> QED
    BY <1>1, <1>2, PTL DEF RollbackSpec

\* A rollback restores the version it was asked for and keeps the retained versions in order,
\* for any number of rollbacks and any applies that overlap them.
THEOREM RollbackTheorem == RollbackSpec => RollbackRestores
<1>1. RollbackInv => HistoryOrdered
    BY DEF RollbackInv
<1>2. RollbackInv /\ [RollbackNext]_rmVars =>
        [(RollbackFinish /\ pc = "idle") =>
             /\ current' = rewrites' /\ l4_config' = rewrites'
             /\ history'[Len(history')].arc = rewrites']_rmVars
  <2> SUFFICES ASSUME RollbackInv, RollbackFinish, pc = "idle"
               PROVE  /\ current' = rewrites' /\ l4_config' = rewrites'
                      /\ history'[Len(history')].arc = rewrites'
    OBVIOUS
  <2>1. /\ rb.pc = "rewrites" /\ UNCHANGED <<current, l4_config>> /\ rewrites' = RollbackTarget
        /\ history' = SubSeq(history, 1, Len(history) - rb.steps)
    BY DEF RollbackFinish
  <2>2. /\ current = RollbackTarget /\ l4_config = RollbackTarget
        /\ rb.steps \in 1..(Len(history) - 1) /\ history \in Seq(Versions)
    BY <2>1 DEF RollbackInv, RollbackUnderWay, RollbackTypes
  <2>3. history'[Len(history')] = history[Len(history) - rb.steps]
    BY <2>1, <2>2
  <2> QED
    BY <2>1, <2>2, <2>3 DEF RollbackTarget
<1> QED
    BY <1>1, <1>2, RollbackInvariant, PTL DEF RollbackSpec, RollbackRestores

-----------------------------------------------------------------------------
(* The manager and its caller. *)

\* A configuration is compiled with one listener per id.
Compiled(c) ==
    /\ IsFiniteSet(c.listeners)
    /\ \A l, m \in c.listeners : l.id = m.id => l = m

HeapOK == \A a \in DOMAIN heap : Compiled(heap[a])

\* The caller compiles configurations, which do not change afterwards, and stores one in the
\* shared ArcSwap; other processes open and close sockets.
CallerStep ==
    /\ DOMAIN heap \subseteq DOMAIN heap' /\ \A a \in DOMAIN heap : heap'[a] = heap[a]
    /\ HeapOK' /\ config' \in DOMAIN heap'
    /\ UNCHANGED <<queue, managerVars, tasks>>

\* The manager starts with the empty configuration.
SystemInit ==
    /\ HeapOK /\ 1 \in DOMAIN heap /\ heap[1].listeners = {}
    /\ config \in DOMAIN heap
    /\ L4Init

SystemNext ==
    \/ L4Next /\ UNCHANGED heap
    \/ \E c \in DOMAIN heap : ApplyConfig(c) /\ UNCHANGED heap
    \/ CallerStep

L4System == SystemInit /\ [][SystemNext]_l4Vars

-----------------------------------------------------------------------------
(* The inductive invariant. *)

Known == {NoListener} \cup UNION {heap[a].listeners : a \in DOMAIN heap}
TaskRecords ==
    [state : {"spawned", "bound", "ended"}, listener : Known, stop : BOOLEAN, handlers : 0..MaxHandlers]

ManagerTypes ==
    /\ tasks \in [Slots -> TaskRecords]
    /\ active \in SUBSET [listener : Known, task : Slots]
    /\ awaiting \in SUBSET Slots
    /\ queue \in Seq(DOMAIN heap) /\ config \in DOMAIN heap /\ mcur \in DOMAIN heap
    /\ mpc \in {"recv", "store", "stop", "await"}

\* A handle leads to the task of its listener, which has not been told to stop.
HandlesLive == \A h \in active : tasks[h.task].listener = h.listener /\ ~tasks[h.task].stop

\* While the manager waits for removed listeners it has only handles that it keeps.
OnlyKept == mpc = "await" => \A h \in active : Kept(h)

LInv ==
    /\ HeapOK /\ ManagerTypes
    /\ NoOrphanListener /\ HandlesLive
    /\ OnlyKept /\ HandlesMatchConfig

-----------------------------------------------------------------------------
(* Lemmas. *)

\* There is room for a finite set in one that is not smaller.
LEMMA InjectionExists ==
  ASSUME NEW S, NEW T, IsFiniteSet(S), IsFiniteSet(T), Cardinality(S) <= Cardinality(T)
  PROVE  \E f \in [S -> T] : \A l, m \in S : f[l] = f[m] => l = m
<1> DEFINE n == Cardinality(S)
           k == Cardinality(T)
<1>1. n \in Nat /\ k \in Nat /\ n <= k /\ ExistsBijection(1..n, S) /\ ExistsBijection(1..k, T)
  BY FS_CardinalityType
<1> HIDE DEF n, k
<1>2. PICK s \in Bijection(1..n, S) : TRUE
  BY <1>1 DEF ExistsBijection
<1>3. PICK t \in Bijection(1..k, T) : TRUE
  BY <1>1 DEF ExistsBijection
<1>4. s \in [1..n -> S] /\ (\A x \in S : \E i \in 1..n : s[i] = x)
  BY <1>2 DEF Bijection, Injection, Surjection, IsInjective
<1>5. t \in [1..k -> T] /\ (\A i, j \in 1..k : t[i] = t[j] => i = j)
  BY <1>3 DEF Bijection, Injection, Surjection, IsInjective
<1> DEFINE at(x) == CHOOSE i \in 1..n : s[i] = x
           f == [x \in S |-> t[at(x)]]
<1>6. ASSUME NEW x \in S PROVE at(x) \in 1..n /\ at(x) \in 1..k /\ s[at(x)] = x
  <2>1. at(x) \in 1..n /\ s[at(x)] = x
    BY <1>4
  <2> HIDE DEF at
  <2> QED BY <1>1, <2>1
<1> HIDE DEF at
<1>7. f \in [S -> T]
  BY <1>5, <1>6
<1>8. ASSUME NEW l \in S, NEW m \in S, f[l] = f[m] PROVE l = m
  <2>1. at(l) = at(m)
    BY <1>5, <1>6, <1>8
  <2> QED BY <1>6, <2>1
<1> QED BY <1>7, <1>8

\* Steps that leave the tasks, the handles and the configuration of the manager alone.
LEMMA QueueStep ==
  ASSUME LInv, UNCHANGED <<mpc, mcur, active, tasks>>, HeapOK',
         DOMAIN heap \subseteq DOMAIN heap', \A a \in DOMAIN heap : heap'[a] = heap[a],
         queue' \in Seq(DOMAIN heap'), config' \in DOMAIN heap', awaiting' \in SUBSET Slots
  PROVE  LInv'
<1>1. ManagerTypes
  BY DEF LInv
<1>2. \A l \in Known : l \in Known'
  BY DEF Known
<1>3. ManagerTypes'
  <2>1. tasks' \in [Slots -> TaskRecords']
    BY <1>1, <1>2 DEF ManagerTypes, TaskRecords
  <2>2. active' \in SUBSET [listener : Known', task : Slots]
    BY <1>1, <1>2 DEF ManagerTypes
  <2>3. mcur' \in DOMAIN heap'
    BY <1>1 DEF ManagerTypes
  <2> QED BY <1>1, <2>1, <2>2, <2>3 DEF ManagerTypes
<1>4. heap'[mcur'] = heap[mcur]
  BY <1>1 DEF ManagerTypes
<1>5. Desired' = Desired
  BY <1>4 DEF Desired
<1>6. NoOrphanListener' /\ HandlesLive'
  BY DEF LInv, NoOrphanListener, HandlesLive
<1>7. OnlyKept' /\ HandlesMatchConfig'
  BY <1>5 DEF LInv, OnlyKept, Kept, HandlesMatchConfig
<1> QED BY <1>3, <1>6, <1>7 DEF LInv

\* Receive, StoreConfig: the manager turns to another configuration.
LEMMA TurnStep ==
  ASSUME LInv, UNCHANGED <<heap, active, awaiting, tasks>>, mcur' \in DOMAIN heap, config' \in DOMAIN heap,
         queue' \in Seq(DOMAIN heap), mpc' \in {"store", "stop"}
  PROVE  LInv'
<1>1. ManagerTypes' /\ HeapOK'
  BY DEF LInv, ManagerTypes, HeapOK, TaskRecords, Known
<1>2. NoOrphanListener' /\ HandlesLive'
  BY DEF LInv, NoOrphanListener, HandlesLive
<1>3. OnlyKept' /\ HandlesMatchConfig'
  BY DEF OnlyKept, HandlesMatchConfig
<1> QED BY <1>1, <1>2, <1>3 DEF LInv

\* Steps of one task, which keeps its listener and does not come back once it has ended.
LEMMA TaskOnly ==
  ASSUME LInv, NEW k \in Slots, NEW x \in TaskRecords, tasks' = [tasks EXCEPT ![k] = x],
         x.listener = tasks[k].listener, x.stop = tasks[k].stop,
         x.state # "ended" => tasks[k].state # "ended",
         UNCHANGED <<heap, config, queue, managerVars>>
  PROVE  LInv'
<1>1. tasks \in [Slots -> TaskRecords]
  BY DEF LInv, ManagerTypes
<1>2. tasks' \in [Slots -> TaskRecords] /\ tasks'[k] = x /\ \A j \in Slots : j # k => tasks'[j] = tasks[j]
  BY <1>1
<1>3. \A j \in Slots : /\ tasks'[j].listener = tasks[j].listener /\ tasks'[j].stop = tasks[j].stop
                       /\ tasks'[j].state # "ended" => tasks[j].state # "ended"
  BY <1>2
<1>4. \A h \in active : h.task \in Slots
  BY DEF LInv, ManagerTypes
<1>5. ManagerTypes' /\ HeapOK'
  BY <1>2 DEF LInv, ManagerTypes, managerVars, HeapOK, TaskRecords, Known
<1>6. NoOrphanListener' /\ HandlesLive'
  BY <1>3, <1>4 DEF LInv, NoOrphanListener, HandlesLive, managerVars
<1>7. OnlyKept' /\ HandlesMatchConfig'
  BY DEF LInv, OnlyKept, HandlesMatchConfig, Kept, Desired, managerVars
<1> QED BY <1>5, <1>6, <1>7 DEF LInv

\* Bind, stop, datagram and handler steps are of that kind.
LEMMA TaskSteps ==
  ASSUME LInv, NEW k \in Slots, TaskStep(k) \/ Datagram(k) \/ HandlerDone(k), UNCHANGED heap
  PROVE  LInv'
<1>1. tasks \in [Slots -> TaskRecords] /\ tasks[k] \in TaskRecords
  BY DEF LInv, ManagerTypes
<1>2. UNCHANGED <<heap, config, queue, managerVars>>
  BY DEF TaskStep, TaskBind, TaskStop, Datagram, HandlerDone
<1>3. CASE TaskStep(k)
  <2>1. PICK s \in {"ended", "bound"} : /\ tasks[k].state # "ended"
                                        /\ tasks' = [tasks EXCEPT ![k].state = s]
    BY <1>3 DEF TaskStep, TaskBind, TaskStop
  <2> DEFINE x == [tasks[k] EXCEPT !.state = s]
  <2>2. tasks' = [tasks EXCEPT ![k] = x]
    BY <2>1
  <2>3. x \in TaskRecords /\ x.listener = tasks[k].listener /\ x.stop = tasks[k].stop
    BY <1>1 DEF TaskRecords
  <2> HIDE DEF x
  <2> QED BY <1>2, <2>1, <2>2, <2>3, TaskOnly
<1>4. CASE Datagram(k) \/ HandlerDone(k)
  <2>1. PICK n \in 0..MaxHandlers : tasks' = [tasks EXCEPT ![k].handlers = n]
    <3>1. tasks[k].handlers \in 0..MaxHandlers
      BY <1>1 DEF TaskRecords
    <3>2. CASE Datagram(k)
      <4>1. tasks[k].handlers + 1 \in 0..MaxHandlers
        BY <3>1, <3>2, L4BoundAssumption DEF Datagram
      <4>2. tasks' = [tasks EXCEPT ![k].handlers = tasks[k].handlers + 1]
        BY <1>1, <3>2 DEF Datagram
      <4> QED BY <4>1, <4>2
    <3>3. CASE HandlerDone(k)
      <4>1. tasks[k].handlers - 1 \in 0..MaxHandlers
        BY <3>1, <3>3, L4BoundAssumption DEF HandlerDone
      <4>2. tasks' = [tasks EXCEPT ![k].handlers = tasks[k].handlers - 1]
        BY <1>1, <3>3 DEF HandlerDone
      <4> QED BY <4>1, <4>2
    <3> QED BY <1>4, <3>2, <3>3
  <2> DEFINE x == [tasks[k] EXCEPT !.handlers = n]
  <2>2. tasks' = [tasks EXCEPT ![k] = x]
    BY <2>1
  <2>3. x \in TaskRecords /\ x.listener = tasks[k].listener /\ x.stop = tasks[k].stop /\ x.state = tasks[k].state
    BY <1>1, <2>1 DEF TaskRecords
  <2> HIDE DEF x
  <2> QED BY <1>2, <2>2, <2>3, TaskOnly
<1> QED BY <1>3, <1>4

\* Removed listeners are told to stop; the tasks of the others go on.
LEMMA StopRemovedStep ==
  ASSUME LInv, StopRemoved, UNCHANGED heap
  PROVE  LInv'
<1> DEFINE removed == {h \in active : ~Kept(h)}
           gone == {h.task : h \in removed}
<1>1. /\ active' = active \ removed /\ awaiting' = gone /\ mpc' = "await"
      /\ tasks' = [k \in Slots |-> [tasks[k] EXCEPT !.stop = @ \/ k \in gone]]
      /\ UNCHANGED <<config, queue, mcur, heap>>
  BY DEF StopRemoved
<1>2. ManagerTypes
  BY DEF LInv
<1>3. gone \subseteq Slots /\ \A h \in active : h.task \in Slots
  BY <1>2 DEF ManagerTypes
<1>4. \A h \in active' : h.task \notin gone
  BY <1>1 DEF LInv, NoOrphanListener
<1>5. \A h \in active : h \in active' \/ h.task \in gone
  BY <1>1
<1>6. \A h \in active' : h \in active /\ Kept(h)
  BY <1>1
<1> HIDE DEF removed, gone
<1>7. ASSUME NEW k \in Slots
      PROVE  /\ tasks'[k] \in TaskRecords /\ tasks'[k].listener = tasks[k].listener
             /\ tasks'[k].state = tasks[k].state
             /\ tasks'[k].stop <=> tasks[k].stop \/ k \in gone
  <2> DEFINE b == tasks[k].stop \/ k \in gone
  <2>1. tasks[k] \in TaskRecords
    BY <1>2 DEF ManagerTypes
  <2>2. b \in BOOLEAN
    OBVIOUS
  <2>3. tasks'[k] = [tasks[k] EXCEPT !.stop = b]
    BY <1>1, <2>1 DEF TaskRecords
  <2> HIDE DEF b
  <2>4. tasks'[k] \in TaskRecords /\ tasks'[k].listener = tasks[k].listener
        /\ tasks'[k].state = tasks[k].state /\ tasks'[k].stop = b
    BY <2>1, <2>2, <2>3 DEF TaskRecords
  <2> QED BY <2>4 DEF b
<1>8. ManagerTypes' /\ HeapOK'
  <2>1. tasks' \in [Slots -> TaskRecords]
    BY <1>1, <1>7
  <2> QED BY <1>1, <1>2, <1>3, <1>6, <2>1 DEF ManagerTypes, LInv, HeapOK, TaskRecords, Known
<1>9. NoOrphanListener'
  <2>1. ASSUME NEW k \in Slots, tasks'[k].state # "ended"
        PROVE  tasks'[k].stop \/ \E h \in active' : h.task = k /\ h.listener = tasks'[k].listener
    <3>1. tasks[k].stop \/ \E h \in active : h.task = k /\ h.listener = tasks[k].listener
      BY <1>7, <2>1 DEF LInv, NoOrphanListener
    <3> QED BY <1>5, <1>7, <3>1
  <2>2. \A g, h \in active' : g.listener.id = h.listener.id \/ g.task = h.task => g = h
    BY <1>6 DEF LInv, NoOrphanListener
  <2> QED BY <2>1, <2>2 DEF NoOrphanListener
<1>10. HandlesLive'
  BY <1>3, <1>4, <1>6, <1>7 DEF LInv, HandlesLive
<1>11. OnlyKept' /\ HandlesMatchConfig'
  BY <1>1, <1>6 DEF OnlyKept, HandlesMatchConfig, Kept, Desired
<1> QED BY <1>8, <1>9, <1>10, <1>11 DEF LInv

\* Listeners without a handle get a task of their own.
LEMMA StartMissingStep ==
  ASSUME LInv, StartMissing, UNCHANGED heap
  PROVE  LInv'
<1> DEFINE Injective(f) == \A l, m \in Missing : f[l] = f[m] => l = m
           slot == CHOOSE f \in [Missing -> FreeSlots] : Injective(f)
<1>1. /\ mpc = "await" /\ Cardinality(Missing) <= Cardinality(FreeSlots) /\ mpc' = "recv"
      /\ tasks' = [k \in Slots |->
            IF \E l \in Missing : slot[l] = k
            THEN [NoTask EXCEPT !.state = "spawned", !.listener = CHOOSE l \in Missing : slot[l] = k]
            ELSE tasks[k]]
      /\ active' = active \cup {[listener |-> l, task |-> slot[l]] : l \in Missing}
      /\ UNCHANGED <<config, queue, mcur, awaiting, heap>>
  BY DEF StartMissing
<1>2. ManagerTypes
  BY DEF LInv
<1>3. Compiled(heap[mcur]) /\ Missing \subseteq Desired /\ FreeSlots \subseteq Slots
  BY <1>2 DEF LInv, HeapOK, ManagerTypes, Missing, FreeSlots
<1>4. slot \in [Missing -> FreeSlots] /\ Injective(slot)
  <2>1. IsFiniteSet(Missing) /\ IsFiniteSet(FreeSlots)
    BY <1>3, L4BoundAssumption, FS_Subset DEF Compiled, Desired
  <2>2. \E f \in [Missing -> FreeSlots] : Injective(f)
    BY <1>1, <2>1, InjectionExists
  <2> HIDE DEF Injective
  <2> QED BY <2>2, Zenon
<1>5. \A l \in Missing : slot[l] \in FreeSlots /\ slot[l] \in Slots
  BY <1>3, <1>4
<1>6. \A l, m \in Missing : slot[l] = slot[m] => l = m
  BY <1>4
<1> HIDE DEF slot
<1>7. \A l, m \in Desired : l.id = m.id => l = m
  BY <1>3 DEF Compiled, Desired
<1>8. \A l \in Desired : l \in Known
  BY <1>2 DEF ManagerTypes, Known, Desired
<1>9. ASSUME NEW l \in Missing
      PROVE  /\ tasks'[slot[l]].state = "spawned" /\ tasks'[slot[l]].listener = l
             /\ tasks'[slot[l]].stop = FALSE /\ tasks'[slot[l]] \in TaskRecords
  <2> DEFINE m == CHOOSE m \in Missing : slot[m] = slot[l]
             x == [NoTask EXCEPT !.state = "spawned", !.listener = m]
  <2>1. m \in Missing /\ slot[m] = slot[l]
    OBVIOUS
  <2>2. m = l
    BY <1>6, <2>1
  <2>3. tasks'[slot[l]] = x
    BY <1>1, <1>5
  <2> HIDE DEF m
  <2>4. x.state = "spawned" /\ x.listener = m /\ x.stop = FALSE /\ x \in TaskRecords
    <3>1. m \in Known
      BY <1>3, <1>8, <2>1
    <3>2. NoTask \in TaskRecords /\ NoTask.stop = FALSE
      BY L4BoundAssumption DEF NoTask, TaskRecords, Known
    <3> QED BY <3>1, <3>2 DEF TaskRecords
  <2> QED BY <2>2, <2>3, <2>4
<1>10. ASSUME NEW k \in Slots, \A l \in Missing : slot[l] # k PROVE tasks'[k] = tasks[k]
  BY <1>1, <1>10
<1>11. \A k \in Slots : tasks'[k] \in TaskRecords
  BY <1>2, <1>9, <1>10 DEF ManagerTypes
<1>12. \A h \in active : h.task \in Slots /\ \A l \in Missing : slot[l] # h.task /\ l.id # h.listener.id
  BY <1>2, <1>5 DEF ManagerTypes, FreeSlots, Missing
<1> DEFINE Handle(l) == [listener |-> l, task |-> slot[l]]
<1>13. /\ \A h \in active' : h \in active \/ \E l \in Missing : h = Handle(l)
       /\ \A l \in Missing : Handle(l) \in active'
       /\ \A l \in Missing : Handle(l).listener = l /\ Handle(l).task = slot[l]
                             /\ Handle(l) \in [listener : Known, task : Slots]
  <2>1. active' = active \cup {Handle(l) : l \in Missing}
    BY <1>1
  <2>2. \A l \in Missing : Handle(l).listener = l /\ Handle(l).task = slot[l]
    OBVIOUS
  <2>3. \A l \in Missing : Handle(l) \in [listener : Known, task : Slots]
    BY <1>3, <1>5, <1>8
  <2> HIDE DEF Handle
  <2> QED BY <2>1, <2>2, <2>3
<1> HIDE DEF Handle
<1>14. \A l \in Missing : \E h \in active' : h.listener = l /\ h.task = slot[l]
  BY <1>13
<1>15. \A h \in active : h \in active'
  BY <1>1
<1>16. ManagerTypes' /\ HeapOK'
  <2>1. tasks' \in [Slots -> TaskRecords]
    BY <1>1, <1>11
  <2>2. active' \in SUBSET [listener : Known, task : Slots]
    BY <1>2, <1>3, <1>5, <1>8, <1>13 DEF ManagerTypes
  <2>3. Known' = Known /\ TaskRecords' = TaskRecords /\ HeapOK'
    BY <1>1 DEF LInv, HeapOK, TaskRecords, Known
  <2> QED BY <1>1, <1>2, <2>1, <2>2, <2>3 DEF ManagerTypes
<1>17. NoOrphanListener'
  <2>1. ASSUME NEW k \in Slots, tasks'[k].state # "ended"
        PROVE  tasks'[k].stop \/ \E h \in active' : h.task = k /\ h.listener = tasks'[k].listener
    <3>1. CASE \E l \in Missing : slot[l] = k
      <4>1. PICK l \in Missing : slot[l] = k
        BY <3>1
      <4>2. tasks'[k].listener = l
        BY <1>9, <4>1
      <4> QED BY <1>14, <4>1, <4>2
    <3>2. CASE \A l \in Missing : slot[l] # k
      BY <1>10, <1>15, <2>1, <3>2 DEF LInv, NoOrphanListener
    <3> QED BY <3>1, <3>2
  <2>2. ASSUME NEW g \in active', NEW h \in active', g.listener.id = h.listener.id \/ g.task = h.task
        PROVE  g = h
    <3>1. CASE g \in active /\ h \in active
      BY <2>2, <3>1 DEF LInv, NoOrphanListener
    <3>2. CASE g \notin active /\ h \notin active
      <4>1. PICK l \in Missing : g = Handle(l)
        BY <1>13, <3>2
      <4>2. PICK m \in Missing : h = Handle(m)
        BY <1>13, <3>2
      <4>3. l = m
        BY <1>3, <1>6, <1>7, <1>13, <2>2, <4>1, <4>2
      <4> QED BY <4>1, <4>2, <4>3
    <3>3. CASE g \in active /\ h \notin active
      <4>1. PICK m \in Missing : h = Handle(m)
        BY <1>13, <3>3
      <4> QED BY <1>12, <1>13, <2>2, <3>3, <4>1
    <3>4. CASE g \notin active /\ h \in active
      <4>1. PICK m \in Missing : g = Handle(m)
        BY <1>13, <3>4
      <4> QED BY <1>12, <1>13, <2>2, <3>4, <4>1
    <3> QED BY <3>1, <3>2, <3>3, <3>4
  <2> QED BY <2>1, <2>2 DEF NoOrphanListener
<1>18. HandlesLive'
  <2> SUFFICES ASSUME NEW h \in active' PROVE tasks'[h.task].listener = h.listener /\ ~tasks'[h.task].stop
    BY DEF HandlesLive
  <2>1. CASE h \in active
    BY <1>10, <1>12, <2>1 DEF LInv, HandlesLive
  <2>2. CASE h \notin active
    <3>1. PICK l \in Missing : h = Handle(l)
      BY <1>13, <2>2
    <3>2. h.listener = l /\ h.task = slot[l]
      BY <1>13, <3>1
    <3>3. tasks'[slot[l]].listener = l /\ tasks'[slot[l]].stop = FALSE
      BY <1>9
    <3> QED BY <3>2, <3>3
  <2> QED BY <2>1, <2>2
<1>19. HandlesMatchConfig'
  <2> DEFINE K(l) == <<l.id, l.bind_addr, l.protocol>>
  <2>1. Desired' = Desired
    BY <1>1 DEF Desired
  <2>2. ASSUME NEW h \in active' PROVE \E l \in Desired : K(h.listener) = K(l)
    <3>1. CASE h \in active
      <4>1. Kept(h)
        BY <1>1, <3>1 DEF LInv, OnlyKept
      <4> QED BY <4>1 DEF Kept
    <3>2. CASE h \notin active
      BY <1>3, <1>13, <3>2
    <3> QED BY <3>1, <3>2
  <2>3. ASSUME NEW l \in Desired PROVE \E h \in active' : K(h.listener) = K(l)
    <3>1. CASE l \in Missing
      BY <1>14, <3>1
    <3>2. CASE l \notin Missing
      <4>1. PICK h \in active : h.listener.id = l.id
        BY <3>2 DEF Missing
      <4>2. Kept(h)
        BY <1>1 DEF LInv, OnlyKept
      <4>3. PICK m \in Desired : m.id = h.listener.id /\ m.bind_addr = h.listener.bind_addr
                                 /\ m.protocol = h.listener.protocol
        BY <4>2 DEF Kept
      <4>4. m = l
        BY <1>7, <4>1, <4>3
      <4> QED BY <1>15, <4>3, <4>4
    <3> QED BY <3>1, <3>2
  <2> HIDE DEF K
  <2>4. {K(h.listener) : h \in active'} = {K(l) : l \in Desired}
    BY <2>2, <2>3
  <2> QED BY <2>1, <2>4 DEF HandlesMatchConfig, K
<1>20. OnlyKept'
  BY <1>1 DEF OnlyKept
<1> QED BY <1>16, <1>17, <1>18, <1>19, <1>20 DEF LInv

\* The manager starts with no handles and the empty configuration.
LEMMA LInvInit == SystemInit => LInv
<1> SUFFICES ASSUME SystemInit PROVE LInv
  OBVIOUS
<1>1. /\ \A k \in Slots : tasks[k] = NoTask
      /\ active = {} /\ mpc = "recv" /\ mcur = 1 /\ heap[1].listeners = {}
  BY DEF SystemInit, L4Init
<1>2. NoTask \in TaskRecords /\ NoTask.state = "ended"
  BY L4BoundAssumption DEF NoTask, TaskRecords, Known
<1>3. ManagerTypes
  BY <1>1, <1>2 DEF SystemInit, L4Init, ManagerTypes
<1>4. NoOrphanListener /\ HandlesLive /\ OnlyKept
  BY <1>1, <1>2 DEF NoOrphanListener, HandlesLive, OnlyKept
<1>5. HandlesMatchConfig
  BY <1>1 DEF HandlesMatchConfig, Desired
<1> QED BY <1>3, <1>4, <1>5 DEF LInv, SystemInit

\* Every step of the manager, of a task or of the caller preserves the invariant.
LEMMA LInvInductive == LInv /\ [SystemNext]_l4Vars => LInv'
<1> SUFFICES ASSUME LInv, [SystemNext]_l4Vars PROVE LInv'
  OBVIOUS
<1>1. HeapOK /\ ManagerTypes
  BY DEF LInv
<1>2. ASSUME UNCHANGED heap PROVE HeapOK' /\ DOMAIN heap' = DOMAIN heap
  BY <1>1, <1>2 DEF HeapOK
<1>3. CASE Receive /\ UNCHANGED heap
  <2>1. queue' = <<>> /\ queue' \in Seq(DOMAIN heap) /\ UNCHANGED <<config, active, awaiting, tasks, heap>>
    BY <1>3 DEF Receive
  <2>2. config' \in DOMAIN heap /\ awaiting' \in SUBSET Slots
    BY <1>1, <2>1 DEF ManagerTypes
  <2>3. CASE UNCHANGED <<mpc, mcur>>
    BY <1>2, <2>1, <2>2, <2>3, QueueStep
  <2>4. CASE mcur' = queue[Len(queue)] /\ mpc' = "store"
    <3>1. queue # <<>> /\ queue \in Seq(DOMAIN heap)
      BY <1>1, <1>3 DEF Receive, ManagerTypes
    <3>2. mcur' \in DOMAIN heap
      BY <2>4, <3>1
    <3> QED BY <2>1, <2>2, <2>4, <3>2, TurnStep
  <2> QED BY <1>3, <2>3, <2>4 DEF Receive
<1>4. CASE StoreConfig /\ UNCHANGED heap
  BY <1>1, <1>4, TurnStep DEF StoreConfig, ManagerTypes
<1>5. CASE StopRemoved /\ UNCHANGED heap
  BY <1>5, StopRemovedStep
<1>6. ASSUME NEW k \in awaiting, AwaitTask(k), UNCHANGED heap PROVE LInv'
  <2>1. awaiting' \in SUBSET Slots /\ queue' \in Seq(DOMAIN heap) /\ config' \in DOMAIN heap
    BY <1>1, <1>6 DEF AwaitTask, ManagerTypes
  <2> QED BY <1>2, <1>6, <2>1, QueueStep DEF AwaitTask
<1>7. CASE StartMissing /\ UNCHANGED heap
  BY <1>7, StartMissingStep
<1>8. ASSUME NEW k \in Slots, TaskStep(k) \/ Datagram(k) \/ HandlerDone(k), UNCHANGED heap PROVE LInv'
  BY <1>8, TaskSteps
<1>9. ASSUME NEW key \in foreign, ForeignRelease(key), UNCHANGED heap PROVE LInv'
  <2>1. awaiting' \in SUBSET Slots /\ queue' \in Seq(DOMAIN heap) /\ config' \in DOMAIN heap
    BY <1>1, <1>9 DEF ForeignRelease, ManagerTypes, managerVars
  <2> QED BY <1>2, <1>9, <2>1, QueueStep DEF ForeignRelease, managerVars
<1>10. ASSUME NEW c \in DOMAIN heap, ApplyConfig(c), UNCHANGED heap PROVE LInv'
  <2>1. awaiting' \in SUBSET Slots /\ config' \in DOMAIN heap
    BY <1>1, <1>10 DEF ApplyConfig, ManagerTypes, managerVars
  <2>2. queue' \in Seq(DOMAIN heap)
    BY <1>1, <1>10 DEF ApplyConfig, ManagerTypes
  <2> QED BY <1>2, <1>10, <2>1, <2>2, QueueStep DEF ApplyConfig, managerVars
<1>11. CASE CallerStep
  <2>1. queue \in Seq(DOMAIN heap')
    <3>1. queue \in Seq(DOMAIN heap) /\ DOMAIN heap \subseteq DOMAIN heap'
      BY <1>1, <1>11 DEF CallerStep, ManagerTypes
    <3> QED BY <3>1
  <2>2. awaiting' \in SUBSET Slots
    BY <1>1, <1>11 DEF CallerStep, ManagerTypes, managerVars
  <2> QED BY <1>11, <2>1, <2>2, QueueStep DEF CallerStep, managerVars
<1>12. CASE UNCHANGED l4Vars
  <2>1. awaiting' \in SUBSET Slots /\ queue' \in Seq(DOMAIN heap) /\ config' \in DOMAIN heap
    BY <1>1, <1>12 DEF l4Vars, ManagerTypes, managerVars
  <2> QED BY <1>2, <1>12, <2>1, QueueStep DEF l4Vars, managerVars
<1> QED
  BY <1>3, <1>4, <1>5, <1>6, <1>7, <1>8, <1>9, <1>10, <1>11, <1>12 DEF SystemNext, L4Next, ManagerStep

\* The invariant holds in every reachable state.
LEMMA LInvAlways == L4System => []LInv
<1> QED BY LInvInit, LInvInductive, PTL DEF L4System

-----------------------------------------------------------------------------
(* The theorems. *)

\* Every variable of the manager has its type, whatever configurations it is sent.
THEOREM L4TypesAlwaysOK == L4System => []L4TypeOK
<1>1. LInv => L4TypeOK
  BY DEF LInv, ManagerTypes, L4TypeOK, TaskRecords
<1> QED BY <1>1, LInvAlways, PTL

\* A task that binds or accepts is the one task of a live handle or has been told to stop, after
\* any sequence of configurations, also when run_manager did not wait for a slow task.
THEOREM NoListenerOrphaned == L4System => []NoOrphanListener
<1>1. LInv => NoOrphanListener
  BY DEF LInv
<1> QED BY <1>1, LInvAlways, PTL

\* When run_manager waits for the next configuration, it has a handle for every listener of the
\* running one and for no other.
THEOREM HandlesAlwaysMatchConfig == L4System => []HandlesMatchConfig
<1>1. LInv => HandlesMatchConfig
  BY DEF LInv
<1> QED BY <1>1, LInvAlways, PTL

\* run_manager keeps a listener by leaving its task alone: the task of a handle has the handle's
\* listener and is never told to stop.
THEOREM KeptListenersGoOn == L4System => []HandlesLive
<1>1. LInv => HandlesLive
  BY DEF LInv
<1> QED BY <1>1, LInvAlways, PTL

=============================================================================

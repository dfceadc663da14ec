----------------------------- MODULE Node_proofs -----------------------------
(***************************************************************************)
(* Proofs about two parts of a node that keep state of their own.          *)
(*                                                                         *)
(* ClusterBandwidth: no byte is lost between record() and                  *)
(* snapshot_and_reset (NothingUncounted), for any number of nodes,         *)
(* threads, requests and faults.  A byte that a thread has added to the    *)
(* interval counter and not yet to the cumulative one is the difference    *)
(* between what was reported and what was counted.                         *)
(*                                                                         *)
(* CertHandover: a process that starts loads the certificate and the key   *)
(* of the current Secret (LoadsPair), for any number of processes, changes *)
(* and crashes, while each change finds one watch_secret only.             *)
(***************************************************************************)
EXTENDS ClusterBandwidth, CertHandover, FiniteSetTheorems, TLAPS

Trackers == [bytes : Nat, cumulative : Nat]

\* The threads of a node between the two fetch_adds of record().
Between(n) == {t \in Threads : t.node = n /\ rec[t] = 2}

CountersOK ==
    /\ tracker \in [Nodes -> Trackers]
    /\ rec \in [Threads -> 0..2]
    /\ reported \in [Nodes -> Nat]

\* What was reported and what is waiting is what was counted, but for the bytes that are
\* between the two counters.
Balance(n) ==
    reported[n] + tracker[n].bytes = tracker[n].cumulative + Size * Cardinality(Between(n))

CountInv == CountersOK /\ \A n \in Nodes : Balance(n)

-----------------------------------------------------------------------------
\* There are finitely many threads.
LEMMA BetweenFinite == \A n : IsFiniteSet(Between(n)) /\ Cardinality(Between(n)) \in Nat
<1> SUFFICES ASSUME NEW n PROVE IsFiniteSet(Between(n)) /\ Cardinality(Between(n)) \in Nat
  OBVIOUS
<1>1. Between(n) \in SUBSET Threads /\ IsFiniteSet(Threads)
  BY BandwidthAssumption DEF Between
<1>2. IsFiniteSet(Between(n))
  BY <1>1, FS_Subset
<1> QED BY <1>2, FS_CardinalityType

\* A node whose counters and threads do not change stays balanced.
LEMMA BalanceKept ==
  ASSUME CountInv, NEW n \in Nodes,
         reported'[n] = reported[n], tracker'[n] = tracker[n],
         \A t \in Threads : t.node = n => rec'[t] = rec[t]
  PROVE  Balance(n)'
<1>1. Between(n)' = Between(n)
  BY DEF Between
<1> QED BY <1>1 DEF Balance, CountInv

\* One fetch_add of record(): the first adds to the interval counter and puts the thread between
\* the two, the second adds to the cumulative one and takes it out.
LEMMA RecordCounts ==
  ASSUME CountInv, NEW t \in Threads, Record(t)
  PROVE  CountInv'
<1> DEFINE n == t.node
<1>1. rec[t] \in {1, 2} /\ rec \in [Threads -> 0..2] /\ tracker \in [Nodes -> Trackers] /\ Size \in Nat
  BY BandwidthAssumption DEF CountInv, CountersOK, Record
<1>2. reported' = reported /\ rec' = [rec EXCEPT ![t] = IF @ = 2 THEN 0 ELSE @ + 1]
  BY DEF Record
<1>3. rec' \in [Threads -> 0..2] /\ \A u \in Threads : u # t => rec'[u] = rec[u]
  BY <1>1, <1>2
<1>4. \A m \in Nodes \ {n} : tracker'[m] = tracker[m]
  BY <1>1 DEF Record
<1>5. DOMAIN tracker' = Nodes /\ tracker' = [m \in Nodes |-> tracker'[m]]
  BY <1>1 DEF Record
<1>6. ASSUME n \in Nodes
      PROVE  /\ tracker'[n] \in Trackers
             /\ rec[t] = 1 => tracker'[n].bytes = tracker[n].bytes + Size
                              /\ tracker'[n].cumulative = tracker[n].cumulative
             /\ rec[t] = 2 => tracker'[n].bytes = tracker[n].bytes
                              /\ tracker'[n].cumulative = tracker[n].cumulative + Size
  <2>0. tracker[n] \in Trackers
    BY <1>1, <1>6
  <2>1. CASE rec[t] = 1
    <3>1. tracker'[n] = [tracker[n] EXCEPT !["bytes"] = @ + Size]
      BY <1>1, <1>6, <2>1 DEF Record, Counter
    <3> QED BY <1>1, <2>0, <2>1, <3>1 DEF Trackers
  <2>2. CASE rec[t] = 2
    <3>1. tracker'[n] = [tracker[n] EXCEPT !["cumulative"] = @ + Size]
      BY <1>1, <1>6, <2>2 DEF Record, Counter
    <3> QED BY <1>1, <2>0, <2>2, <3>1 DEF Trackers
  <2> QED BY <1>1, <2>1, <2>2
<1>7. CountersOK'
  <2>1. \A m \in Nodes : tracker'[m] \in Trackers
    BY <1>1, <1>4, <1>6
  <2>2. tracker' \in [Nodes -> Trackers]
    BY <1>5, <2>1
  <2> QED BY <1>2, <1>3, <2>2 DEF CountersOK, CountInv
<1>8. ASSUME n \in Nodes PROVE Balance(n)'
  <2> DEFINE c == Cardinality(Between(n))
  <2>1. IsFiniteSet(Between(n)) /\ c \in Nat
    BY BetweenFinite
  <2>2. /\ tracker[n].bytes \in Nat /\ tracker[n].cumulative \in Nat /\ reported[n] \in Nat
        /\ reported[n] + tracker[n].bytes = tracker[n].cumulative + Size * c
    BY <1>8 DEF CountInv, CountersOK, Trackers, Balance
  <2>3. CASE rec[t] = 1
    <3>1. Between(n)' = Between(n) \cup {t} /\ t \notin Between(n)
      BY <1>1, <1>2, <1>3, <2>3 DEF Between
    <3>2. Cardinality(Between(n))' = c + 1
      BY <2>1, <3>1, FS_AddElement
    <3>3. Size * (c + 1) = Size * c + Size /\ Size * c \in Int
      BY <1>1, <2>1
    <3>4. reported[n] + tracker'[n].bytes = tracker'[n].cumulative + Size * (c + 1)
      <4> DEFINE x == Size * c
      <4>1. x \in Int /\ Size * (c + 1) = x + Size /\ reported[n] + tracker[n].bytes = tracker[n].cumulative + x
        BY <2>2, <3>3
      <4> HIDE DEF x
      <4> QED BY <1>1, <1>6, <1>8, <2>2, <2>3, <4>1
    <3> QED BY <1>2, <3>2, <3>4 DEF Balance
  <2>4. CASE rec[t] = 2
    <3>1. Between(n)' = Between(n) \ {t} /\ t \in Between(n)
      BY <1>1, <1>2, <1>3, <2>4 DEF Between
    <3>2. Cardinality(Between(n))' = c - 1
      BY <2>1, <3>1, FS_RemoveElement
    <3>3. Size * (c - 1) = Size * c - Size /\ Size * c \in Int
      BY <1>1, <2>1
    <3>4. reported[n] + tracker'[n].bytes = tracker'[n].cumulative + Size * (c - 1)
      <4> DEFINE x == Size * c
      <4>1. x \in Int /\ Size * (c - 1) = x - Size /\ reported[n] + tracker[n].bytes = tracker[n].cumulative + x
        BY <2>2, <3>3
      <4> HIDE DEF x
      <4> QED BY <1>1, <1>6, <1>8, <2>2, <2>4, <4>1
    <3> QED BY <1>2, <3>2, <3>4 DEF Balance
  <2> QED BY <1>1, <2>3, <2>4
<1>9. ASSUME NEW m \in Nodes, m # n PROVE Balance(m)'
  BY <1>2, <1>3, <1>4, <1>9, BalanceKept
<1> QED BY <1>7, <1>8, <1>9 DEF CountInv

\* record() is entered: nothing is counted yet.
LEMMA BeginRecordCounts ==
  ASSUME CountInv, NEW t \in Threads, BeginRecord(t)
  PROVE  CountInv'
<1>1. /\ rec[t] = 0 /\ rec' = [rec EXCEPT ![t] = 1] /\ reported' = reported /\ tracker' = tracker
      /\ rec \in [Threads -> 0..2]
  BY DEF BeginRecord, CountInv, CountersOK
<1>2. CountersOK'
  BY <1>1 DEF CountInv, CountersOK
<1>3. ASSUME NEW n \in Nodes PROVE Balance(n)'
  <2>1. Between(n)' = Between(n)
    BY <1>1 DEF Between
  <2> QED BY <1>1, <2>1 DEF CountInv, Balance
<1> QED BY <1>2, <1>3 DEF CountInv

\* The swap of snapshot_and_reset moves bytes from the counter to what is reported, whatever
\* threads are in the middle of record().
LEMMA SnapshotCounts ==
  ASSUME CountInv, NEW n \in Nodes, Snapshot(n)
  PROVE  CountInv'
<1>1. tracker \in [Nodes -> Trackers] /\ reported \in [Nodes -> Nat] /\ rec' = rec
  BY DEF Snapshot, CountInv, CountersOK
<1>2. CASE UNCHANGED <<tracker, reported>>
  <2>1. CountersOK' /\ \A m \in Nodes : Balance(m)'
    BY <1>1, <1>2, BalanceKept DEF CountInv, CountersOK
  <2> QED BY <2>1 DEF CountInv
<1>3. CASE /\ tracker' = [tracker EXCEPT ![n].bytes = 0]
           /\ reported' = [reported EXCEPT ![n] = @ + tracker[n].bytes]
  <2>1. tracker[n].bytes \in Nat /\ tracker[n].cumulative \in Nat /\ reported[n] \in Nat
    BY <1>1 DEF Trackers
  <2>2. tracker' \in [Nodes -> Trackers] /\ reported' \in [Nodes -> Nat]
    BY <1>1, <1>3, <2>1 DEF Trackers
  <2>3. /\ tracker'[n].bytes = 0 /\ tracker'[n].cumulative = tracker[n].cumulative
        /\ reported'[n] = reported[n] + tracker[n].bytes
        /\ \A m \in Nodes \ {n} : tracker'[m] = tracker[m] /\ reported'[m] = reported[m]
    BY <1>1, <1>3 DEF Trackers
  <2>4. Balance(n)'
    <3>1. Between(n)' = Between(n)
      BY <1>1 DEF Between
    <3>2. Balance(n)
      BY DEF CountInv
    <3> QED BY <2>1, <2>3, <3>1, <3>2 DEF Balance
  <2>5. ASSUME NEW m \in Nodes, m # n PROVE Balance(m)'
    BY <1>1, <2>3, <2>5, BalanceKept
  <2> QED BY <1>1, <2>2, <2>4, <2>5 DEF CountInv, CountersOK
<1> QED BY <1>2, <1>3 DEF Snapshot

\* A process that crashes takes its counters and its threads with it.
LEMMA CrashCounts ==
  ASSUME CountInv, NEW n \in Nodes, Crash(n)
  PROVE  CountInv'
<1>1. /\ tracker \in [Nodes -> Trackers] /\ reported \in [Nodes -> Nat] /\ rec \in [Threads -> 0..2]
      /\ tracker' = [tracker EXCEPT ![n] = NewTracker]
      /\ reported' = [reported EXCEPT ![n] = 0]
      /\ rec' = [t \in Threads |-> IF t.node = n THEN 0 ELSE rec[t]]
  BY DEF Crash, CountInv, CountersOK
<1>2. NewTracker \in Trackers /\ NewTracker.bytes = 0 /\ NewTracker.cumulative = 0
  BY DEF NewTracker, Trackers
<1>3. CountersOK'
  BY <1>1, <1>2 DEF CountersOK
<1>4. Balance(n)'
  <2>1. Between(n)' = {}
    BY <1>1 DEF Between
  <2>2. Cardinality(Between(n))' = 0
    BY <2>1, FS_EmptySet
  <2> QED BY <1>1, <1>2, <2>2, BandwidthAssumption DEF Balance
<1>5. ASSUME NEW m \in Nodes, m # n PROVE Balance(m)'
  BY <1>1, <1>5, BalanceKept
<1> QED BY <1>3, <1>4, <1>5 DEF CountInv

\* Every other step leaves the counters and the threads alone.
LEMMA CountInvInductive == CountInv /\ [CBNext]_cbvars => CountInv'
<1> SUFFICES ASSUME CountInv, [CBNext]_cbvars PROVE CountInv'
  OBVIOUS
<1>1. ASSUME UNCHANGED <<tracker, rec, reported>> PROVE CountInv'
  <2>1. CountersOK' /\ \A n \in Nodes : Balance(n)'
    BY <1>1, BalanceKept DEF CountInv, CountersOK
  <2> QED BY <2>1 DEF CountInv
<1>2. ASSUME NEW t \in Threads, BeginRecord(t) \/ Record(t) PROVE CountInv'
  BY <1>2, BeginRecordCounts, RecordCounts
<1>3. ASSUME NEW n \in Nodes, Snapshot(n) \/ Crash(n) PROVE CountInv'
  BY <1>3, SnapshotCounts, CrashCounts
<1>4. ASSUME NEW n \in Nodes, Broadcast(n) \/ Start(n) \/ StopCluster(n) PROVE CountInv'
  BY <1>1, <1>4 DEF Broadcast, Start, StopCluster
<1>5. ASSUME NEW m \in net, Receive(m) \/ Lose(m) \/ Delay(m) PROVE CountInv'
  BY <1>1, <1>5 DEF Receive, Lose, Delay
<1>6. ASSUME NEW m \in late, ReceiveLate(m) PROVE CountInv'
  BY <1>1, <1>6 DEF ReceiveLate
<1>7. CASE Evict \/ Interval \/ UNCHANGED cbvars
  BY <1>1, <1>7 DEF Evict, Interval, cbvars
<1> QED BY <1>2, <1>3, <1>4, <1>5, <1>6, <1>7 DEF CBNext

\* No byte is lost between record(), which updates the counters one by one, and
\* snapshot_and_reset, which takes them one by one, on any node and with any number of threads.
THEOREM NothingEverUncounted == CBSpec => []NothingUncounted
<1>1. CBInit => CountInv
  <2> SUFFICES ASSUME CBInit PROVE CountInv
    OBVIOUS
  <2>1. /\ tracker = [n \in Nodes |-> NewTracker] /\ rec = [t \in Threads |-> 0]
        /\ reported = [n \in Nodes |-> 0]
    BY DEF CBInit
  <2>2. NewTracker \in Trackers /\ NewTracker.bytes = 0 /\ NewTracker.cumulative = 0
    BY DEF NewTracker, Trackers
  <2>3. ASSUME NEW n \in Nodes PROVE Balance(n)
    <3>1. Between(n) = {}
      BY <2>1 DEF Between
    <3>2. Cardinality(Between(n)) = 0
      BY <3>1, FS_EmptySet
    <3> QED BY <2>1, <2>2, <3>2, BandwidthAssumption DEF Balance
  <2> QED BY <2>1, <2>2, <2>3 DEF CountInv, CountersOK
<1>2. CountInv => NothingUncounted
  <2> SUFFICES ASSUME CountInv, NEW n \in Nodes, \A t \in Threads : t.node = n => rec[t] = 0
               PROVE  reported[n] + tracker[n].bytes = tracker[n].cumulative
    BY DEF NothingUncounted
  <2>1. Between(n) = {}
    BY DEF Between
  <2>2. Cardinality(Between(n)) = 0
    BY <2>1, FS_EmptySet
  <2>3. Balance(n) /\ tracker[n].cumulative \in Nat
    BY DEF CountInv, CountersOK, Trackers
  <2> QED BY <2>2, <2>3, BandwidthAssumption DEF Balance
<1> QED BY <1>1, <1>2, CountInvInductive, PTL DEF CBSpec

-----------------------------------------------------------------------------
(* The certificate files and the chain of processes. *)

Processes ==
    [boot : {"fetch", "write", "load_cert", "load_key", "running", "reload_key", "exited"},
     read : Int, loaded : Int, pen : {0, 1, 2, 3, 4, 5}, ver : Nat,
     sw : {"off", "init", "ready", "writing", "done"}, cw : {"off", "init", "ready", "done"},
     seen : Nat, seen_config : Nat, tx : Nat, upgraded : BOOLEAN]

HandoverTypes ==
    /\ secrets \in Seq(BOOLEAN) /\ Len(secrets) >= 1
    /\ config \in Nat /\ cert \in Int /\ key \in Int
    /\ pace \in {"alone", "draining", "overlap"}
    /\ proc \in Seq(Processes) /\ Len(proc) >= 1

Booting == {"fetch", "write", "load_cert", "load_key"}

\* The watcher of r has an event to come.
SecretPending(r) == r.sw = "ready" /\ r.seen # Current

\* A process that has handed over or exited has no event of the Secret to come, writes nothing
\* and does not hand over again.
OlderOK(r) ==
    /\ r.boot \in Up \cup {"exited"} /\ r.pen = 0
    /\ r.sw # "writing" /\ ~SecretPending(r)
    /\ r.boot = "exited" => r.tx = 0 /\ r.cw = "off"
    /\ r.boot # "exited" => r.upgraded

\* How far the newest process is with the files.  They are those of the current Secret once it
\* has fetched it, but for the time from a change to the end of its own write_from_secret.
FilesOK(r) ==
    /\ r.pen # 0 <=> r.boot = "write" \/ r.sw = "writing"
    /\ r.pen # 0 => r.ver = Current
    /\ r.pen = 2 => cert = Empty
    /\ r.pen \in {3, 4, 5} => cert = Current
    /\ r.pen = 4 => key = Empty
    /\ r.pen = 5 => key = Current
    /\ r.pen = 0 /\ r.boot # "fetch" /\ ~SecretPending(r) => cert = Current /\ key = Current
    /\ r.boot = "load_key" => r.read = Current

\* The newest process has not handed over.  While a change of the Secret is on its way there is no
\* other that could start a process.
NewestOK(r) ==
    /\ ~r.upgraded /\ r.boot # "exited"
    /\ r.boot \in Booting => r.sw = "off" /\ r.cw = "off" /\ r.tx = 0
    /\ SecretPending(r) => r.seen + 1 = Current
    /\ SecretPending(r) \/ r.sw = "writing" => r.cw = "ready" /\ r.seen_config = config /\ r.tx = 0
    /\ FilesOK(r)

Older == \A q \in 1..(Newest - 1) : OlderOK(proc[q])

AloneHandover == pace = "alone" => secrets[Current] /\ Older /\ NewestOK(proc[Newest])

HandoverInv == HandoverTypes /\ AloneHandover

-----------------------------------------------------------------------------
\* One process changes.
Changes(p) ==
    /\ proc' = [proc EXCEPT ![p] = proc'[p]] /\ proc'[p] \in Processes
    /\ UNCHANGED <<secrets, config>> /\ cert' \in Int /\ key' \in Int
    /\ pace' \in {pace, "overlap"}

\* What the types say of a process that takes a step.
LEMMA ProcessTypes ==
  ASSUME HandoverTypes, NEW p \in DOMAIN proc
  PROVE  /\ proc \in Seq(Processes) /\ Len(proc) \in Nat /\ DOMAIN proc = 1..Len(proc) /\ Newest = Len(proc)
         /\ Newest \in DOMAIN proc /\ p \in Nat /\ p <= Newest /\ proc[p] \in Processes
         /\ Current \in Nat \ {0} /\ config \in Nat /\ cert \in Int /\ key \in Int
  BY DEF HandoverTypes, Newest, Current

\* What is known of a process as long as every change has found one watch_secret.
LEMMA AloneProcess ==
  ASSUME HandoverInv, NEW p \in DOMAIN proc, pace = "alone"
  PROVE  /\ p = Newest => NewestOK(proc[p])
         /\ p # Newest => OlderOK(proc[p])
         /\ secrets[Current]
<1>1. AloneHandover /\ HandoverTypes
  BY DEF HandoverInv
<1>2. p # Newest => p \in 1..(Newest - 1)
  BY <1>1, ProcessTypes
<1> QED BY <1>1, <1>2 DEF AloneHandover, Older

\* What the step of one process has to show.
LEMMA OneProcess ==
  ASSUME HandoverInv, NEW p \in DOMAIN proc, Changes(p),
         pace' = "alone" /\ p # Newest => OlderOK(proc'[p]) /\ UNCHANGED <<cert, key>>,
         pace' = "alone" /\ p = Newest => NewestOK(proc[p])'
  PROVE  HandoverInv'
<1>1. /\ HandoverTypes /\ proc \in Seq(Processes) /\ DOMAIN proc = 1..Len(proc) /\ Len(proc) \in Nat
      /\ Newest = Len(proc) /\ Newest \in DOMAIN proc /\ p <= Newest
  BY ProcessTypes DEF HandoverInv
<1>2. /\ proc' \in Seq(Processes) /\ Len(proc') = Len(proc) /\ DOMAIN proc' = DOMAIN proc
      /\ \A q \in DOMAIN proc : q # p => proc'[q] = proc[q]
  <2>1. PICK r \in Processes : proc' = [proc EXCEPT ![p] = r]
    BY DEF Changes
  <2> QED BY <1>1, <2>1
<1>3. HandoverTypes'
  BY <1>1, <1>2 DEF Changes, HandoverTypes
<1>4. Newest' = Newest /\ Current' = Current /\ secrets' = secrets /\ config' = config
  BY <1>1, <1>2 DEF Newest, Current, Changes
<1>5. ASSUME pace' = "alone" PROVE secrets'[Current'] /\ Older' /\ NewestOK(proc[Newest])'
  <2>1. pace = "alone"
    BY <1>5 DEF Changes
  <2>2. secrets[Current] /\ Older /\ NewestOK(proc[Newest])
    BY <2>1 DEF HandoverInv, AloneHandover
  <2>3. \A q \in 1..(Newest - 1) : OlderOK(proc[q]) => OlderOK(proc[q])'
    <3> SUFFICES ASSUME NEW q \in 1..(Newest - 1), OlderOK(proc[q]) PROVE OlderOK(proc[q])'
      OBVIOUS
    <3>1. CASE q = p
      <4>1. OlderOK(proc'[p])
        BY <1>1, <1>5, <3>1
      <4> QED BY <1>4, <3>1, <4>1 DEF OlderOK, SecretPending
    <3>2. CASE q # p
      <4>1. proc'[q] = proc[q]
        BY <1>1, <1>2, <3>2
      <4> QED BY <1>4, <4>1 DEF OlderOK, SecretPending
    <3> QED BY <3>1, <3>2
  <2>4. Older'
    BY <1>4, <2>2, <2>3 DEF Older
  <2>5. NewestOK(proc[Newest])'
    <3>1. CASE p = Newest
      BY <1>4, <1>5, <3>1
    <3>2. CASE p # Newest
      <4>1. proc'[Newest'] = proc[Newest] /\ cert' = cert /\ key' = key
        BY <1>1, <1>2, <1>4, <1>5, <3>2
      <4> QED BY <1>4, <2>2, <4>1 DEF NewestOK, FilesOK, SecretPending
    <3> QED BY <3>1, <3>2
  <2> QED BY <1>4, <2>2, <2>4, <2>5
<1> QED BY <1>3, <1>5 DEF HandoverInv, AloneHandover

\* The steps of main.  A process that has handed over takes none of them.
LEMMA BootHandover ==
  ASSUME HandoverInv, NEW p \in DOMAIN proc, Fetch(p) \/ LoadCert(p) \/ LoadKey(p)
  PROVE  HandoverInv'
<1>1. /\ HandoverTypes /\ proc \in Seq(Processes) /\ DOMAIN proc = 1..Len(proc) /\ Len(proc) \in Nat
      /\ Newest = Len(proc) /\ proc[p] \in Processes /\ Current \in Nat \ {0} /\ cert \in Int /\ key \in Int
  BY ProcessTypes DEF HandoverInv
<1>2. pace' \in {pace, "overlap"} /\ UNCHANGED <<secrets, config, cert, key>> /\ Current' = Current
  BY DEF Fetch, LoadCert, LoadKey, Current
<1>3. proc[p].boot \in {"fetch", "load_cert", "load_key"}
  BY DEF Fetch, LoadCert, LoadKey
<1>4. ASSUME pace' = "alone" PROVE p = Newest /\ NewestOK(proc[p])
  BY <1>2, <1>3, <1>4, AloneProcess DEF OlderOK, Up
<1>5. CASE Fetch(p)
  <2>1. CASE /\ proc' = [proc EXCEPT ![p].boot = "write", ![p].pen = 1, ![p].ver = Current]
    <3>1. proc'[p] = [proc[p] EXCEPT !.boot = "write", !.pen = 1, !.ver = Current]
          /\ proc' = [proc EXCEPT ![p] = proc'[p]]
      BY <1>1, <2>1
    <3>0. proc'[p] \in Processes
      BY <1>1, <3>1, ZenonT(30) DEF Processes
    <3>2. /\ proc'[p].boot = "write" /\ proc'[p].pen = 1 /\ proc'[p].ver = Current
          /\ proc'[p].sw = proc[p].sw /\ proc'[p].cw = proc[p].cw /\ proc'[p].tx = proc[p].tx
          /\ proc'[p].upgraded = proc[p].upgraded
      BY <1>1, <3>1 DEF Processes
    <3>3. Changes(p)
      BY <1>1, <1>2, <3>1, <3>0 DEF Changes
    <3>4. ASSUME pace' = "alone" PROVE NewestOK(proc[p])'
      <4>1. NewestOK(proc[p]) /\ proc[p].boot = "fetch"
        BY <1>4, <1>5, <3>4 DEF Fetch
      <4> QED BY <1>2, <3>2, <4>1 DEF NewestOK, FilesOK, SecretPending, Booting
    <3> QED BY <1>4, <3>3, <3>4, OneProcess
  <2>2. CASE proc' = [proc EXCEPT ![p].boot = "load_cert"] /\ pace' = "overlap"
    <3>1. proc'[p] = [proc[p] EXCEPT !.boot = "load_cert"] /\ proc' = [proc EXCEPT ![p] = proc'[p]]
      BY <1>1, <2>2
    <3>2. proc'[p] \in Processes
      BY <1>1, <3>1 DEF Processes
    <3>3. Changes(p)
      BY <1>1, <1>2, <3>1, <3>2 DEF Changes
    <3> QED BY <2>2, <3>3, OneProcess
  <2> QED BY <1>5, <2>1, <2>2 DEF Fetch
<1>6. CASE LoadCert(p)
  <2>1. /\ proc[p].boot = "load_cert"
        /\ proc'[p] = [proc[p] EXCEPT !.boot = "load_key", !.read = cert] /\ proc' = [proc EXCEPT ![p] = proc'[p]]
    BY <1>1, <1>6 DEF LoadCert
  <2>2. /\ proc'[p] \in Processes /\ proc'[p].boot = "load_key" /\ proc'[p].read = cert
        /\ proc'[p].sw = proc[p].sw /\ proc'[p].cw = proc[p].cw /\ proc'[p].tx = proc[p].tx
        /\ proc'[p].pen = proc[p].pen /\ proc'[p].upgraded = proc[p].upgraded
    BY <1>1, <2>1 DEF Processes
  <2>3. Changes(p)
    BY <1>1, <1>2, <2>1, <2>2 DEF Changes
  <2>4. ASSUME pace' = "alone" PROVE NewestOK(proc[p])'
    <3>1. NewestOK(proc[p]) /\ proc[p].sw = "off" /\ proc[p].pen = 0 /\ cert = Current /\ key = Current
      BY <1>4, <2>1, <2>4 DEF NewestOK, FilesOK, SecretPending, Booting
    <3>2. proc'[p].read = Current'
      BY <1>2, <2>2, <3>1
    <3> QED BY <1>2, <2>1, <2>2, <3>1, <3>2 DEF NewestOK, FilesOK, SecretPending, Booting
  <2> QED BY <1>4, <2>3, <2>4, OneProcess
<1>7. CASE LoadKey(p)
  <2>0. PairRead(p) \in Int /\ Empty \in Int
    BY <1>1 DEF PairRead, NoPair, Empty
  <2>1. CASE proc' = [proc EXCEPT ![p].boot = "running", ![p].read = Empty, ![p].loaded = PairRead(p),
                                  ![p].sw = "init", ![p].cw = "init"]
    <3>1. /\ proc'[p] = [proc[p] EXCEPT !.boot = "running", !.read = Empty, !.loaded = PairRead(p),
                                       !.sw = "init", !.cw = "init"]
          /\ proc' = [proc EXCEPT ![p] = proc'[p]]
      BY <1>1, <2>1
    <3>2. proc'[p] \in Processes
      BY <1>1, <2>0, <3>1, ZenonT(30) DEF Processes
    <3>3. /\ proc'[p].boot = "running" /\ proc'[p].tx = proc[p].tx /\ proc'[p].sw = "init"
          /\ proc'[p].pen = proc[p].pen /\ proc'[p].upgraded = proc[p].upgraded
      BY <1>1, <3>1 DEF Processes
    <3>4. Changes(p)
      BY <1>1, <1>2, <3>1, <3>2 DEF Changes
    <3>5. ASSUME pace' = "alone" PROVE NewestOK(proc[p])'
      <4>1. NewestOK(proc[p]) /\ proc[p].boot = "load_key"
        BY <1>4, <1>7, <3>5 DEF LoadKey
      <4>2. proc[p].sw = "off" /\ proc[p].pen = 0 /\ cert = Current /\ key = Current
        BY <4>1 DEF NewestOK, FilesOK, SecretPending, Booting
      <4> QED BY <1>2, <3>3, <4>1, <4>2 DEF NewestOK, FilesOK, SecretPending, Booting
    <3> QED BY <1>4, <3>4, <3>5, OneProcess
  <2>2. CASE /\ proc' = [proc EXCEPT ![p].boot = "running", ![p].read = Empty, ![p].loaded = PairRead(p)]
             /\ pace' = "overlap"
    <3>1. /\ proc'[p] = [proc[p] EXCEPT !.boot = "running", !.read = Empty, !.loaded = PairRead(p)]
          /\ proc' = [proc EXCEPT ![p] = proc'[p]]
      BY <1>1, <2>2
    <3>2. proc'[p] \in Processes
      BY <1>1, <2>0, <3>1, ZenonT(30) DEF Processes
    <3>3. Changes(p)
      BY <1>1, <1>2, <3>1, <3>2 DEF Changes
    <3> QED BY <2>2, <3>3, OneProcess
  <2> QED BY <1>7, <2>1, <2>2 DEF LoadKey
<1> QED BY <1>5, <1>6, <1>7

\* The reload of the files by the reconcile loop reads and writes nothing that matters here.
LEMMA RefreshHandover ==
  ASSUME HandoverInv, NEW p \in DOMAIN proc, RefreshCert(p) \/ RefreshKey(p)
  PROVE  HandoverInv'
<1>1. /\ HandoverTypes /\ proc \in Seq(Processes) /\ DOMAIN proc = 1..Len(proc)
      /\ proc[p] \in Processes /\ cert \in Int /\ key \in Int
  BY ProcessTypes DEF HandoverInv
<1>2. UNCHANGED <<secrets, config, cert, key, pace>> /\ Current' = Current /\ PairRead(p) \in Int
  BY <1>1 DEF RefreshCert, RefreshKey, Current, PairRead, NoPair
<1>3. PICK b \in Up, c \in Int, l \in Int :
         /\ proc'[p] = [proc[p] EXCEPT !.boot = b, !.read = c, !.loaded = l]
         /\ proc' = [proc EXCEPT ![p] = proc'[p]]
  <2>1. CASE RefreshCert(p)
    <3>1. proc' = [proc EXCEPT ![p].boot = "reload_key", ![p].read = cert]
      BY <2>1 DEF RefreshCert
    <3>2. proc'[p] = [proc[p] EXCEPT !.boot = "reload_key", !.read = cert, !.loaded = proc[p].loaded]
          /\ proc' = [proc EXCEPT ![p] = proc'[p]] /\ proc[p].loaded \in Int
      BY <1>1, <3>1 DEF Processes
    <3> QED BY <1>1, <3>2 DEF Up
  <2>2. CASE RefreshKey(p)
    <3>1. proc' = [proc EXCEPT ![p].boot = "running", ![p].read = Empty, ![p].loaded = PairRead(p)]
      BY <2>2 DEF RefreshKey
    <3>2. proc'[p] = [proc[p] EXCEPT !.boot = "running", !.read = Empty, !.loaded = PairRead(p)]
          /\ proc' = [proc EXCEPT ![p] = proc'[p]]
      BY <1>1, <3>1
    <3>3. Empty \in Int /\ PairRead(p) \in Int
      BY <1>2 DEF Empty
    <3> QED BY <3>2, <3>3 DEF Up
  <2> QED BY <2>1, <2>2
<1>4. /\ proc'[p] \in Processes /\ proc'[p].boot \in Up /\ proc'[p].pen = proc[p].pen /\ proc'[p].ver = proc[p].ver
      /\ proc'[p].sw = proc[p].sw /\ proc'[p].cw = proc[p].cw /\ proc'[p].seen = proc[p].seen
      /\ proc'[p].seen_config = proc[p].seen_config /\ proc'[p].tx = proc[p].tx
      /\ proc'[p].upgraded = proc[p].upgraded
  BY <1>1, <1>3 DEF Processes, Up
<1>5. Changes(p)
  BY <1>1, <1>2, <1>3, <1>4 DEF Changes
<1>6. proc[p].boot \in Up
  BY DEF RefreshCert, RefreshKey, Up
<1>7. ASSUME pace' = "alone", p # Newest PROVE OlderOK(proc'[p])
  <2>1. OlderOK(proc[p])
    BY <1>2, <1>7, AloneProcess
  <2> QED BY <1>4, <1>6, <2>1 DEF OlderOK, SecretPending, Up
<1>8. ASSUME pace' = "alone", p = Newest PROVE NewestOK(proc[p])'
  <2>1. NewestOK(proc[p])
    BY <1>2, <1>8, AloneProcess
  <2> QED BY <1>2, <1>4, <1>6, <2>1 DEF NewestOK, FilesOK, SecretPending, Booting, Up
<1> QED BY <1>2, <1>5, <1>7, <1>8, OneProcess

\* The end of an initial list, and the relist of a broken watch.
LEMMA ListHandover ==
  ASSUME HandoverInv, NEW p \in DOMAIN proc,
         SecretInitDone(p) \/ ConfigInitDone(p) \/ SecretRelist(p) \/ ConfigRelist(p)
  PROVE  HandoverInv'
<1>1. /\ HandoverTypes /\ proc \in Seq(Processes) /\ DOMAIN proc = 1..Len(proc)
      /\ proc[p] \in Processes /\ Current \in Nat /\ config \in Nat /\ cert \in Int /\ key \in Int
  BY ProcessTypes DEF HandoverInv
<1>2. UNCHANGED <<secrets, config, cert, key>> /\ Current' = Current /\ pace' \in {pace, "overlap"}
  BY DEF SecretInitDone, ConfigInitDone, SecretRelist, ConfigRelist, Current
<1>3. CASE SecretInitDone(p)
  <2>1. /\ proc[p].sw = "init" /\ pace' = pace
        /\ proc'[p] = [proc[p] EXCEPT !.sw = "ready", !.seen = Current]
        /\ proc' = [proc EXCEPT ![p] = proc'[p]]
    BY <1>1, <1>3 DEF SecretInitDone
  <2>2. proc'[p] \in Processes
    BY <1>1, <2>1, ZenonT(30) DEF Processes
  <2>3. /\ proc'[p].sw = "ready" /\ proc'[p].seen = Current /\ proc'[p].boot = proc[p].boot
        /\ proc'[p].pen = proc[p].pen /\ proc'[p].ver = proc[p].ver /\ proc'[p].read = proc[p].read
        /\ proc'[p].cw = proc[p].cw /\ proc'[p].tx = proc[p].tx /\ proc'[p].upgraded = proc[p].upgraded
    BY <1>1, <2>1 DEF Processes
  <2>4. Changes(p)
    BY <1>1, <1>2, <2>1, <2>2 DEF Changes
  <2>5. ASSUME pace' = "alone", p # Newest PROVE OlderOK(proc'[p])
    <3>1. OlderOK(proc[p])
      BY <2>1, <2>5, AloneProcess
    <3> QED BY <2>3, <3>1 DEF OlderOK, SecretPending
  <2>6. ASSUME pace' = "alone", p = Newest PROVE NewestOK(proc[p])'
    <3>1. NewestOK(proc[p])
      BY <2>1, <2>6, AloneProcess
    <3> QED BY <1>2, <2>1, <2>3, <3>1 DEF NewestOK, FilesOK, SecretPending
  <2> QED BY <1>2, <2>4, <2>5, <2>6, OneProcess
<1>4. CASE ConfigInitDone(p)
  <2>1. /\ proc[p].cw = "init" /\ pace' = pace
        /\ proc'[p] = [proc[p] EXCEPT !.cw = "ready", !.seen_config = config]
        /\ proc' = [proc EXCEPT ![p] = proc'[p]]
    BY <1>1, <1>4 DEF ConfigInitDone
  <2>2. proc'[p] \in Processes
    BY <1>1, <2>1, ZenonT(30) DEF Processes
  <2>3. /\ proc'[p].cw = "ready" /\ proc'[p].boot = proc[p].boot /\ proc'[p].sw = proc[p].sw
        /\ proc'[p].seen = proc[p].seen /\ proc'[p].pen = proc[p].pen /\ proc'[p].ver = proc[p].ver
        /\ proc'[p].read = proc[p].read /\ proc'[p].tx = proc[p].tx /\ proc'[p].upgraded = proc[p].upgraded
    BY <1>1, <2>1 DEF Processes
  <2>4. Changes(p)
    BY <1>1, <1>2, <2>1, <2>2 DEF Changes
  <2>5. ASSUME pace' = "alone", p # Newest PROVE OlderOK(proc'[p])
    <3>1. OlderOK(proc[p])
      BY <2>1, <2>5, AloneProcess
    <3> QED BY <2>1, <2>3, <3>1 DEF OlderOK, SecretPending
  <2>6. ASSUME pace' = "alone", p = Newest PROVE NewestOK(proc[p])'
    <3>1. NewestOK(proc[p])
      BY <2>1, <2>6, AloneProcess
    <3> QED BY <1>2, <2>1, <2>3, <3>1 DEF NewestOK, FilesOK, SecretPending
  <2> QED BY <1>2, <2>4, <2>5, <2>6, OneProcess
<1>5. CASE SecretRelist(p) \/ ConfigRelist(p)
  <2>1. /\ pace' = "overlap" /\ proc' = [proc EXCEPT ![p] = proc'[p]]
        /\ \/ proc'[p] = [proc[p] EXCEPT !.seen = Current]
           \/ proc'[p] = [proc[p] EXCEPT !.seen_config = config]
    BY <1>1, <1>5 DEF SecretRelist, ConfigRelist
  <2>2. proc'[p] \in Processes
    BY <1>1, <2>1, ZenonT(30) DEF Processes
  <2>3. Changes(p)
    BY <1>1, <1>2, <2>1, <2>2 DEF Changes
  <2> QED BY <2>1, <2>3, OneProcess
<1> QED BY <1>3, <1>4, <1>5

\* The first event of the Secret begins to write, or ends the task; only the newest process takes it.
LEMMA ApplyHandover ==
  ASSUME HandoverInv, NEW p \in DOMAIN proc, SecretApply(p)
  PROVE  HandoverInv'
<1> DEFINE v == proc[p].seen + 1
<1>1. /\ HandoverTypes /\ proc \in Seq(Processes) /\ DOMAIN proc = 1..Len(proc)
      /\ proc[p] \in Processes /\ Current \in Nat /\ cert \in Int /\ key \in Int
  BY ProcessTypes DEF HandoverInv
<1>2. /\ UNCHANGED <<secrets, config, cert, key, pace>> /\ Current' = Current
      /\ proc[p].sw = "ready" /\ v <= Current
  BY DEF SecretApply, Current
<1>3. proc[p].seen \in Nat /\ v \in Nat
  <2>1. proc[p].seen \in Nat
    BY <1>1 DEF Processes
  <2> QED BY <2>1
<1>4. SecretPending(proc[p])
  BY <1>1, <1>2, <1>3 DEF SecretPending
<1>5. ASSUME pace = "alone" PROVE p = Newest /\ NewestOK(proc[p]) /\ secrets[Current] /\ v = Current
  BY <1>4, <1>5, AloneProcess DEF OlderOK, NewestOK
<1> HIDE DEF v
<1>6. CASE secrets[v]
  <2>1. /\ proc'[p] = [proc[p] EXCEPT !.seen = v, !.sw = "writing", !.pen = 1, !.ver = v]
        /\ proc' = [proc EXCEPT ![p] = proc'[p]]
    BY <1>1, <1>6 DEF SecretApply, v
  <2>2. proc'[p] \in Processes
    BY <1>1, <1>3, <2>1, ZenonT(30) DEF Processes
  <2>3. /\ proc'[p].sw = "writing" /\ proc'[p].seen = v /\ proc'[p].pen = 1 /\ proc'[p].ver = v
        /\ proc'[p].boot = proc[p].boot /\ proc'[p].cw = proc[p].cw /\ proc'[p].read = proc[p].read
        /\ proc'[p].seen_config = proc[p].seen_config
        /\ proc'[p].tx = proc[p].tx /\ proc'[p].upgraded = proc[p].upgraded
    BY <1>1, <2>1 DEF Processes
  <2>4. Changes(p)
    BY <1>1, <1>2, <2>1, <2>2 DEF Changes
  <2>5. ASSUME pace' = "alone" PROVE NewestOK(proc[p])'
    <3>1. NewestOK(proc[p]) /\ v = Current
      BY <1>2, <1>5, <2>5
    <3> QED BY <1>2, <1>4, <2>3, <3>1 DEF NewestOK, FilesOK, SecretPending, Booting
  <2> QED BY <1>2, <1>5, <2>4, <2>5, OneProcess
<1>7. CASE ~secrets[v]
  <2>1. /\ proc'[p] = [proc[p] EXCEPT !.seen = v, !.sw = "done"]
        /\ proc' = [proc EXCEPT ![p] = proc'[p]]
    BY <1>1, <1>7 DEF SecretApply, v
  <2>2. proc'[p] \in Processes
    BY <1>1, <1>3, <2>1, ZenonT(30) DEF Processes
  <2>3. Changes(p)
    BY <1>1, <1>2, <2>1, <2>2 DEF Changes
  <2>4. pace' # "alone"
    BY <1>2, <1>5, <1>7
  <2> QED BY <2>3, <2>4, OneProcess
<1> QED BY <1>6, <1>7

\* An event of the ConfigMap tells run_watcher; no change of the Secret is then on its way.
LEMMA ConfigHandover ==
  ASSUME HandoverInv, NEW p \in DOMAIN proc, ConfigApply(p)
  PROVE  HandoverInv'
<1>1. /\ HandoverTypes /\ proc \in Seq(Processes) /\ DOMAIN proc = 1..Len(proc)
      /\ proc[p] \in Processes /\ Current \in Nat /\ config \in Nat /\ cert \in Int /\ key \in Int
  BY ProcessTypes DEF HandoverInv
<1>2. /\ UNCHANGED <<secrets, config, cert, key, pace>> /\ Current' = Current
      /\ proc[p].cw = "ready" /\ proc[p].seen_config # config
  BY DEF ConfigApply, Current
<1>3. PICK n \in Nat : n = proc[p].tx + 1
  BY <1>1 DEF Processes
<1>4. /\ proc'[p] = [proc[p] EXCEPT !.seen_config = config, !.cw = "done", !.tx = n]
      /\ proc' = [proc EXCEPT ![p] = proc'[p]]
  BY <1>1, <1>3 DEF ConfigApply
<1>5. proc'[p] \in Processes
  BY <1>1, <1>4, ZenonT(30) DEF Processes
<1>6. /\ proc'[p].boot = proc[p].boot /\ proc'[p].sw = proc[p].sw /\ proc'[p].seen = proc[p].seen
      /\ proc'[p].pen = proc[p].pen /\ proc'[p].ver = proc[p].ver /\ proc'[p].read = proc[p].read
      /\ proc'[p].upgraded = proc[p].upgraded
  BY <1>1, <1>4 DEF Processes
<1>7. Changes(p)
  BY <1>1, <1>2, <1>4, <1>5 DEF Changes
<1>8. ASSUME pace' = "alone", p # Newest PROVE OlderOK(proc'[p])
  <2>1. OlderOK(proc[p])
    BY <1>2, <1>8, AloneProcess
  <2> QED BY <1>2, <1>6, <2>1 DEF OlderOK, SecretPending
<1>9. ASSUME pace' = "alone", p = Newest PROVE NewestOK(proc[p])'
  <2>1. NewestOK(proc[p])
    BY <1>2, <1>9, AloneProcess
  <2>2. ~SecretPending(proc[p]) /\ proc[p].sw # "writing" /\ proc[p].boot \notin Booting
    BY <1>2, <2>1 DEF NewestOK
  <2> QED BY <1>2, <1>6, <2>1, <2>2 DEF NewestOK, FilesOK, SecretPending
<1> QED BY <1>2, <1>7, <1>8, <1>9, OneProcess

\* write_from_secret returns, with or without an error.
LEMMA ReturnedTypes ==
  ASSUME NEW r \in Processes, NEW ok \in BOOLEAN
  PROVE  /\ Returned(r, ok) \in Processes
         /\ Returned(r, ok).pen = 0 /\ Returned(r, ok).upgraded = r.upgraded
         /\ Returned(r, ok).cw = r.cw /\ Returned(r, ok).read = r.read
         /\ r.boot = "write" => /\ Returned(r, ok).boot = "load_cert" /\ Returned(r, ok).sw = r.sw
                                /\ Returned(r, ok).tx = r.tx
         /\ r.boot # "write" => Returned(r, ok).boot = r.boot /\ Returned(r, ok).sw = "done"
<1>1. PICK n \in Nat : n = IF ok THEN r.tx + 1 ELSE r.tx
  BY DEF Processes
<1>2. CASE r.boot = "write"
  <2>1. Returned(r, ok) = [r EXCEPT !.pen = 0, !.ver = 0, !.boot = "load_cert"]
    BY <1>2 DEF Returned
  <2>2. Returned(r, ok) \in Processes
    <3>1. 0 \in Nat
      OBVIOUS
    <3> QED BY <2>1, <3>1, ZenonT(30) DEF Processes
  <2> QED BY <1>2, <2>1, <2>2 DEF Processes
<1>3. CASE r.boot # "write"
  <2>1. Returned(r, ok) = [r EXCEPT !.pen = 0, !.ver = 0, !.sw = "done", !.tx = n]
    BY <1>1, <1>3 DEF Returned
  <2>2. Returned(r, ok) \in Processes
    <3>1. 0 \in Nat
      OBVIOUS
    <3> QED BY <1>1, <2>1, <3>1, ZenonT(30) DEF Processes
  <2> QED BY <1>3, <2>1, <2>2 DEF Processes
<1> QED BY <1>2, <1>3

\* A step of write_from_secret: when the newest process is alone nothing comes between its own
\* steps, so that each file is filled after it was truncated, and both are when it returns.
LEMMA WriteHandover ==
  ASSUME HandoverInv, NEW p \in DOMAIN proc, WriteFromSecret(p)
  PROVE  HandoverInv'
<1> DEFINE w == proc[p]
<1>1. /\ HandoverTypes /\ proc \in Seq(Processes) /\ DOMAIN proc = 1..Len(proc)
      /\ w \in Processes /\ Current \in Nat \ {0} /\ config \in Nat /\ cert \in Int /\ key \in Int
  BY ProcessTypes DEF HandoverInv
<1>2. UNCHANGED <<secrets, config, pace>> /\ Current' = Current /\ w.pen # 0
  BY DEF WriteFromSecret, Current
<1>3. w.pen \in {1, 2, 3, 4, 5} /\ w.ver \in Int
  BY <1>1, <1>2 DEF Processes
<1>4. ASSUME pace' = "alone" PROVE p = Newest /\ NewestOK(w) /\ w.ver = Current
  BY <1>2, <1>4, AloneProcess DEF OlderOK, NewestOK, FilesOK
<1>5. CASE w.pen < 5
  <2>1. PICK n \in {2, 3, 4, 5} : n = w.pen + 1
    BY <1>3, <1>5
  <2>2. proc'[p] = [w EXCEPT !.pen = n] /\ proc' = [proc EXCEPT ![p] = proc'[p]]
    BY <1>1, <1>5, <2>1 DEF WriteFromSecret
  <2>3. proc'[p] \in Processes
    <3>1. n \in {0, 1, 2, 3, 4, 5}
      OBVIOUS
    <3> QED BY <1>1, <2>2, <3>1, ZenonT(30) DEF Processes
  <2>4. /\ proc'[p].pen = n /\ proc'[p].boot = w.boot /\ proc'[p].sw = w.sw /\ proc'[p].cw = w.cw
        /\ proc'[p].seen = w.seen /\ proc'[p].ver = w.ver /\ proc'[p].read = w.read
        /\ proc'[p].seen_config = w.seen_config /\ proc'[p].tx = w.tx /\ proc'[p].upgraded = w.upgraded
    BY <1>1, <2>2 DEF Processes
  <2>5. /\ w.pen = 1 => cert' = Empty /\ key' = key
        /\ w.pen = 2 => cert' \in Filled(cert, w.ver) /\ key' = key
        /\ w.pen = 3 => cert' = cert /\ key' = Empty
        /\ w.pen = 4 => cert' = cert /\ key' \in Filled(key, w.ver)
    BY <1>3 DEF WriteFromSecret
  <2>6. cert' \in Int /\ key' \in Int
    BY <1>1, <1>3, <1>5, <2>5 DEF Filled, Empty, Torn
  <2>7. Changes(p)
    BY <1>2, <2>2, <2>3, <2>6 DEF Changes
  <2>8. ASSUME pace' = "alone" PROVE NewestOK(proc[p])'
    <3>1. NewestOK(w) /\ w.ver = Current
      BY <1>4, <2>8
    <3>2. /\ n = 2 => cert' = Empty
          /\ n \in {3, 4, 5} => cert' = Current
          /\ n = 4 => key' = Empty
          /\ n = 5 => key' = Current
      BY <1>3, <2>1, <2>5, <3>1 DEF NewestOK, FilesOK, Filled
    <3>3. ~SecretPending(w) /\ ~SecretPending(proc'[p])
      BY <1>2, <2>4, <3>1 DEF NewestOK, FilesOK, SecretPending, Booting
    <3> QED BY <1>2, <2>1, <2>4, <3>1, <3>2, <3>3 DEF NewestOK, FilesOK, SecretPending
  <2> QED BY <1>4, <2>7, <2>8, OneProcess
<1>6. CASE w.pen = 5
  <2>1. proc'[p] = Returned(w, TRUE) /\ proc' = [proc EXCEPT ![p] = proc'[p]] /\ cert' = cert /\ key' = key
    BY <1>1, <1>6 DEF WriteFromSecret
  <2>2. /\ proc'[p] \in Processes /\ proc'[p].pen = 0 /\ proc'[p].upgraded = w.upgraded
        /\ proc'[p].cw = w.cw /\ proc'[p].read = w.read
        /\ w.boot = "write" => proc'[p].boot = "load_cert" /\ proc'[p].sw = w.sw /\ proc'[p].tx = w.tx
        /\ w.boot # "write" => proc'[p].boot = w.boot /\ proc'[p].sw = "done"
    <3> DEFINE d == Returned(w, TRUE)
    <3>1. /\ d \in Processes /\ d.pen = 0 /\ d.upgraded = w.upgraded /\ d.cw = w.cw /\ d.read = w.read
          /\ w.boot = "write" => d.boot = "load_cert" /\ d.sw = w.sw /\ d.tx = w.tx
          /\ w.boot # "write" => d.boot = w.boot /\ d.sw = "done"
      BY <1>1, ReturnedTypes, ZenonT(30)
    <3>2. proc'[p] = d
      BY <2>1
    <3> HIDE DEF d
    <3> QED BY <3>1, <3>2
  <2>3. Changes(p)
    BY <1>1, <1>2, <2>1, <2>2 DEF Changes
  <2>4. ASSUME pace' = "alone" PROVE NewestOK(proc[p])'
    <3>0. cert' = cert /\ key' = key
      BY <2>1
    <3>1. NewestOK(w) /\ w.ver = Current /\ cert = Current /\ key = Current
      BY <1>4, <1>6, <2>4 DEF NewestOK, FilesOK
    <3>2. CASE w.boot = "write"
      BY <1>2, <2>2, <3>0, <3>1, <3>2 DEF NewestOK, FilesOK, SecretPending, Booting
    <3>3. CASE w.boot # "write"
      <4>1. w.sw = "writing" /\ w.boot \notin Booting
        BY <1>2, <3>1, <3>3 DEF NewestOK, FilesOK, Booting
      <4> QED BY <1>2, <2>2, <3>0, <3>1, <3>3, <4>1 DEF NewestOK, FilesOK, SecretPending, Booting
    <3> QED BY <3>2, <3>3
  <2> QED BY <1>4, <2>3, <2>4, OneProcess
<1> QED BY <1>3, <1>5, <1>6

\* A file that cannot be written, and the exit of a process that has handed over.
LEMMA EndHandover ==
  ASSUME HandoverInv, NEW p \in DOMAIN proc, WriteFails(p) \/ Exit(p)
  PROVE  HandoverInv'
<1>1. /\ HandoverTypes /\ proc \in Seq(Processes) /\ DOMAIN proc = 1..Len(proc)
      /\ proc[p] \in Processes /\ cert \in Int /\ key \in Int
  BY ProcessTypes DEF HandoverInv
<1>2. CASE WriteFails(p)
  <2>1. /\ proc'[p] = Returned(proc[p], FALSE) /\ proc' = [proc EXCEPT ![p] = proc'[p]]
        /\ pace' = "overlap" /\ UNCHANGED <<secrets, config, cert, key>>
    BY <1>1, <1>2 DEF WriteFails
  <2>2. proc'[p] \in Processes
    BY <1>1, <2>1, ReturnedTypes
  <2>3. Changes(p)
    BY <1>1, <2>1, <2>2 DEF Changes
  <2> QED BY <2>1, <2>3, OneProcess
<1>3. CASE Exit(p)
  <2> DEFINE e == NewProcess("exited")
  <2>1. /\ e \in Processes /\ e.boot = "exited" /\ e.pen = 0 /\ e.sw = "off" /\ e.cw = "off" /\ e.tx = 0
    BY DEF NewProcess, Processes, NoPair, Empty
  <2>2. /\ proc'[p] = e /\ proc' = [proc EXCEPT ![p] = proc'[p]] /\ p < Newest
        /\ UNCHANGED <<secrets, config, cert, key, pace>>
    BY <1>1, <1>3 DEF Exit
  <2> HIDE DEF e
  <2>3. Changes(p)
    BY <1>1, <2>1, <2>2 DEF Changes
  <2>4. OlderOK(proc'[p])
    BY <2>1, <2>2 DEF OlderOK, SecretPending
  <2>5. p # Newest
    BY <1>1, <2>2 DEF Newest
  <2> QED BY <2>2, <2>3, <2>4, <2>5, OneProcess
<1> QED BY <1>2, <1>3

\* Processes that are added to the sequence: what a start has to show.
LEMMA OneMore ==
  ASSUME HandoverInv, NEW rest \in Seq(Processes), NEW new \in Processes,
         proc' = Append(rest, new), Len(rest) = Len(proc),
         UNCHANGED <<secrets, config, cert, key, pace>>,
         pace = "alone" => /\ \A q \in 1..Len(rest) : OlderOK(rest[q])
                           /\ NewestOK(new)
  PROVE  HandoverInv'
<1>1. HandoverTypes /\ Len(proc) \in Nat
  BY DEF HandoverInv, HandoverTypes
<1>2. /\ proc' \in Seq(Processes) /\ Len(proc') = Len(rest) + 1 /\ proc'[Len(rest) + 1] = new
      /\ \A q \in 1..Len(rest) : proc'[q] = rest[q]
  OBVIOUS
<1>3. HandoverTypes'
  BY <1>1, <1>2 DEF HandoverTypes
<1>4. Current' = Current /\ Newest' = Len(rest) + 1 /\ proc'[Newest'] = new /\ Newest' - 1 = Len(rest)
  BY <1>1, <1>2 DEF Current, Newest
<1>5. ASSUME pace' = "alone" PROVE secrets'[Current'] /\ Older' /\ NewestOK(proc[Newest])'
  <2>1. secrets[Current] /\ NewestOK(new) /\ \A q \in 1..Len(rest) : OlderOK(rest[q])
    BY <1>5 DEF HandoverInv, AloneHandover
  <2>2. ASSUME NEW q \in 1..Len(rest) PROVE OlderOK(proc[q])'
    <3>1. OlderOK(rest[q]) /\ proc'[q] = rest[q]
      BY <1>2, <2>1
    <3> QED BY <1>4, <3>1 DEF OlderOK, SecretPending
  <2>3. Older'
    BY <1>4, <2>2 DEF Older
  <2>4. NewestOK(proc[Newest])'
    BY <1>4, <2>1 DEF NewestOK, FilesOK, SecretPending
  <2> QED BY <1>4, <2>1, <2>3, <2>4
<1> QED BY <1>3, <1>5 DEF HandoverInv, AloneHandover

\* A crash leaves the files as they are; the process that the container starts fetches the Secret.
LEMMA RestartHandover ==
  ASSUME HandoverInv, Restart
  PROVE  HandoverInv'
<1> DEFINE rest == [q \in DOMAIN proc |-> NewProcess("exited")]
           new == NewProcess("fetch")
<1>1. HandoverTypes /\ proc \in Seq(Processes) /\ DOMAIN proc = 1..Len(proc) /\ Len(proc) \in Nat
  BY DEF HandoverInv, HandoverTypes
<1>2. NewProcess("exited") \in Processes /\ OlderOK(NewProcess("exited"))
  BY DEF NewProcess, Processes, NoPair, Empty, OlderOK, SecretPending
<1>3. new \in Processes /\ NewestOK(new)
  BY DEF NewProcess, Processes, NoPair, Empty, NewestOK, FilesOK, SecretPending
<1>4. rest \in Seq(Processes) /\ Len(rest) = Len(proc) /\ \A q \in 1..Len(rest) : OlderOK(rest[q])
  BY <1>1, <1>2
<1>5. proc' = Append(rest, new) /\ UNCHANGED <<secrets, config, cert, key, pace>>
  BY DEF Restart
<1> HIDE DEF rest, new
<1> QED BY <1>3, <1>4, <1>5, OneMore

\* An upgrade: only the newest process has not handed over, and when it does the files are those
\* of the current Secret.
LEMMA UpgradeHandover ==
  ASSUME HandoverInv, NEW p \in DOMAIN proc, TriggerUpgrade(p)
  PROVE  HandoverInv'
<1>1. /\ HandoverTypes /\ proc \in Seq(Processes) /\ DOMAIN proc = 1..Len(proc) /\ Len(proc) \in Nat
      /\ Newest = Len(proc) /\ proc[p] \in Processes /\ cert \in Int /\ key \in Int
  BY ProcessTypes DEF HandoverInv
<1>2. UNCHANGED <<secrets, config, cert, key>> /\ proc[p].tx > 0 /\ ~proc[p].upgraded
  BY DEF TriggerUpgrade
<1>3. PICK n \in Nat : n = proc[p].tx - 1
  <2>1. proc[p].tx \in Nat
    BY <1>1 DEF Processes
  <2> QED BY <1>2, <2>1
<1> DEFINE old == [proc[p] EXCEPT !.upgraded = TRUE, !.tx = n]
           rest == [proc EXCEPT ![p] = old]
<1>4. rest = [proc EXCEPT ![p].upgraded = TRUE, ![p].tx = @ - 1]
  BY <1>1, <1>3
<1>5. old \in Processes
  BY <1>1, ZenonT(30) DEF Processes
<1>6. old.boot = proc[p].boot /\ old.sw = proc[p].sw /\ old.seen = proc[p].seen /\ old.pen = proc[p].pen
      /\ old.upgraded
  BY <1>1 DEF Processes
<1> HIDE DEF old
<1>7. /\ rest \in Seq(Processes) /\ Len(rest) = Len(proc) /\ rest[p] = old
      /\ \A q \in 1..Len(proc) : q # p => rest[q] = proc[q]
  BY <1>1, <1>5
<1>8. CASE proc' = rest /\ pace' = "overlap"
  <2>1. proc' = [proc EXCEPT ![p] = proc'[p]] /\ proc'[p] \in Processes
    BY <1>1, <1>5, <1>8
  <2>2. Changes(p)
    BY <1>1, <1>2, <1>8, <2>1 DEF Changes
  <2> QED BY <1>8, <2>2, OneProcess
<1>9. CASE proc' = Append(rest, NewProcess("load_cert")) /\ pace' = pace
  <2> HIDE DEF rest
  <2> DEFINE new == NewProcess("load_cert")
  <2>1. /\ new \in Processes /\ new.boot = "load_cert" /\ new.sw = "off" /\ new.cw = "off" /\ new.tx = 0
        /\ new.upgraded = FALSE /\ new.pen = 0
    BY DEF NewProcess, Processes, NoPair, Empty
  <2> HIDE DEF new
  <2>2. ASSUME pace = "alone"
        PROVE  NewestOK(new) /\ \A q \in 1..Len(rest) : OlderOK(rest[q])
    <3>1. p = Newest
      BY <1>2, <2>2, AloneProcess DEF OlderOK
    <3>2. NewestOK(proc[p])
      BY <2>2, <3>1, AloneProcess
    <3>3. ~SecretPending(proc[p]) /\ proc[p].sw # "writing" /\ proc[p].boot \notin Booting \cup {"exited"}
      BY <1>2, <3>2 DEF NewestOK
    <3>4. proc[p].pen = 0 /\ cert = Current /\ key = Current
      BY <3>2, <3>3 DEF NewestOK, FilesOK, Booting
    <3>5. proc[p].boot \in Up
      BY <1>1, <3>3 DEF Processes, Booting, Up
    <3>6. OlderOK(old)
      BY <1>6, <3>3, <3>4, <3>5 DEF OlderOK, SecretPending, Booting, Up
    <3>7. ASSUME NEW q \in 1..Len(rest) PROVE OlderOK(rest[q])
      <4>1. CASE q = p
        BY <1>7, <3>6, <4>1
      <4>2. CASE q # p
        <5>1. q \in DOMAIN proc /\ q # Newest /\ rest[q] = proc[q]
          BY <1>1, <1>7, <3>1, <4>2
        <5> QED BY <2>2, <5>1, AloneProcess
      <4> QED BY <4>1, <4>2
    <3>8. NewestOK(new)
      BY <2>1, <3>4 DEF NewestOK, FilesOK, SecretPending, Booting
    <3> QED BY <3>7, <3>8
  <2>3. proc' = Append(rest, new) /\ UNCHANGED pace
    BY <1>9 DEF new
  <2> QED BY <1>2, <1>7, <2>1, <2>2, <2>3, OneMore
<1> QED BY <1>4, <1>8, <1>9 DEF TriggerUpgrade

\* A change of the Secret or of the ConfigMap that comes when the newest process is at rest becomes
\* the one change on its way, and no other process will see it.
LEMMA EditHandover ==
  ASSUME HandoverInv, (\E c \in BOOLEAN : ChangeSecret(c)) \/ ChangeConfig
  PROVE  HandoverInv'
<1>1. /\ HandoverTypes /\ proc \in Seq(Processes) /\ DOMAIN proc = 1..Len(proc) /\ Len(proc) \in Nat
      /\ Len(proc) >= 1 /\ Current \in Nat \ {0} /\ config \in Nat /\ Newest = Len(proc)
      /\ secrets \in Seq(BOOLEAN)
  BY DEF HandoverInv, HandoverTypes, Current, Newest
<1>2. UNCHANGED <<cert, key, proc>> /\ Newest' = Newest /\ Newest \in DOMAIN proc
  BY <1>1 DEF ChangeSecret, ChangeConfig, Newest
<1>3. ASSUME pace = "alone", Settled
      PROVE  /\ proc[Newest].boot \in Up /\ proc[Newest].sw = "ready" /\ proc[Newest].cw = "ready"
             /\ proc[Newest].seen = Current /\ proc[Newest].seen_config = config /\ proc[Newest].tx = 0
             /\ NewestOK(proc[Newest]) /\ Older /\ secrets[Current]
             /\ proc[Newest].pen = 0 /\ cert = Current /\ key = Current
  <2>1. NewestOK(proc[Newest]) /\ Older /\ secrets[Current]
    BY <1>3 DEF HandoverInv, AloneHandover
  <2>2. /\ proc[Newest].boot \in Up /\ proc[Newest].sw = "ready" /\ proc[Newest].cw = "ready"
        /\ proc[Newest].seen = Current /\ proc[Newest].seen_config = config /\ proc[Newest].tx = 0
    BY <1>3 DEF Settled
  <2> QED BY <2>1, <2>2 DEF NewestOK, FilesOK, SecretPending, Up
<1>4. ASSUME NEW c \in BOOLEAN, ChangeSecret(c) PROVE HandoverInv'
  <2>1. /\ secrets' = Append(secrets, c) /\ config' = config
        /\ pace' \in {pace, "draining", "overlap"}
        /\ pace' = "alone" => c /\ Settled /\ pace = "alone" /\ Alone
    BY <1>4 DEF ChangeSecret
  <2>2. secrets' \in Seq(BOOLEAN) /\ Len(secrets') = Len(secrets) + 1 /\ secrets'[Len(secrets) + 1] = c
    BY <1>1, <2>1
  <2>3. Current' = Current + 1 /\ secrets'[Current'] = c
    BY <2>2 DEF Current
  <2>4. HandoverTypes'
    BY <1>1, <1>2, <2>1, <2>2 DEF HandoverTypes
  <2>5. ASSUME pace' = "alone" PROVE secrets'[Current'] /\ Older' /\ NewestOK(proc[Newest])'
    <3>1. c /\ Settled /\ pace = "alone" /\ Alone
      BY <2>1, <2>5
    <3>2. Older'
      <4>1. ASSUME NEW q \in 1..(Newest - 1) PROVE OlderOK(proc[q])'
        <5>1. OlderOK(proc[q]) /\ proc[q].sw \in {"off", "done"}
          BY <1>3, <3>1 DEF Older, Alone
        <5> QED BY <1>2, <5>1 DEF OlderOK, SecretPending
      <4> QED BY <1>2, <4>1 DEF Older
    <3>3. NewestOK(proc[Newest])'
      <4> DEFINE r == proc[Newest]
      <4>1. /\ r.boot \in Up /\ r.sw = "ready" /\ r.cw = "ready" /\ r.seen = Current
            /\ r.seen_config = config /\ r.tx = 0 /\ r.pen = 0 /\ NewestOK(r)
        BY <1>3, <3>1
      <4>2. r.boot \notin Booting /\ ~r.upgraded /\ r.boot \notin {"exited", "load_key", "write"}
        BY <4>1 DEF NewestOK, Booting, Up
      <4>3. r' = r
        BY <1>2
      <4> HIDE DEF r
      <4>4. r.seen # Current' /\ r.seen + 1 = Current'
        BY <1>1, <2>3, <4>1
      <4>5. NewestOK(r)'
        BY <2>1, <4>1, <4>2, <4>3, <4>4 DEF NewestOK, FilesOK, SecretPending
      <4> QED BY <4>5 DEF r
    <3> QED BY <2>3, <3>1, <3>2, <3>3
  <2> QED BY <2>4, <2>5 DEF HandoverInv, AloneHandover
<1>5. CASE ChangeConfig
  <2>1. /\ config' = config + 1 /\ secrets' = secrets /\ Current' = Current
        /\ pace' \in {pace, "overlap"} /\ (pace' = "alone" => pace = "alone" /\ Settled)
    BY <1>5 DEF ChangeConfig, Current
  <2>2. HandoverTypes'
    BY <1>1, <1>2, <2>1 DEF HandoverTypes
  <2>3. ASSUME pace' = "alone" PROVE secrets'[Current'] /\ Older' /\ NewestOK(proc[Newest])'
    <3>1. pace = "alone" /\ Settled
      BY <2>1, <2>3
    <3>2. secrets'[Current'] /\ Older'
      BY <1>2, <1>3, <2>1, <3>1 DEF Older, OlderOK, SecretPending
    <3>3. NewestOK(proc[Newest])'
      BY <1>2, <1>3, <2>1, <3>1 DEF NewestOK, FilesOK, SecretPending, Booting, Up
    <3> QED BY <3>2, <3>3
  <2> QED BY <2>2, <2>3 DEF HandoverInv, AloneHandover
<1> QED BY <1>4, <1>5

\* At the start there is one process, which fetches the Secret.
LEMMA HandoverInit == CHInit => HandoverInv
<1> SUFFICES ASSUME CHInit PROVE HandoverInv
  OBVIOUS
<1> DEFINE first == NewProcess("fetch")
<1>1. first \in Processes /\ NewestOK(first)
  BY DEF NewProcess, Processes, NoPair, Empty, NewestOK, FilesOK, SecretPending
<1>2. proc = <<first>> /\ pace = "alone" /\ secrets = <<TRUE>> /\ config = 0 /\ cert = 0 /\ key = 0
  BY DEF CHInit, Empty
<1> HIDE DEF first
<1>3. proc \in Seq(Processes) /\ Len(proc) = 1 /\ proc[1] = first /\ Newest = 1
  BY <1>1, <1>2 DEF Newest
<1>4. secrets \in Seq(BOOLEAN) /\ Len(secrets) = 1 /\ secrets[Current]
  BY <1>2 DEF Current
<1>5. HandoverTypes
  BY <1>2, <1>3, <1>4 DEF HandoverTypes
<1>6. Older /\ NewestOK(proc[Newest])
  BY <1>1, <1>3 DEF Older
<1> QED BY <1>4, <1>5, <1>6 DEF HandoverInv, AloneHandover

\* Every step of the environment and of the processes preserves the invariant.
LEMMA HandoverInductive == HandoverInv /\ [CHNext]_chvars => HandoverInv'
<1> SUFFICES ASSUME HandoverInv, [CHNext]_chvars PROVE HandoverInv'
  OBVIOUS
<1>1. CASE (\E c \in BOOLEAN : ChangeSecret(c)) \/ ChangeConfig \/ Restart
  BY <1>1, EditHandover, RestartHandover
<1>2. ASSUME NEW p \in DOMAIN proc, Step(p) PROVE HandoverInv'
  BY <1>2, BootHandover, WriteHandover, ListHandover, ApplyHandover, ConfigHandover, UpgradeHandover DEF Step
<1>3. ASSUME NEW p \in DOMAIN proc, Disturbance(p) PROVE HandoverInv'
  BY <1>3, EndHandover, ListHandover, RefreshHandover DEF Disturbance
<1>4. CASE UNCHANGED chvars
  BY <1>4 DEF chvars, HandoverInv, HandoverTypes, AloneHandover, Older, OlderOK, NewestOK, FilesOK,
              SecretPending, Newest, Current
<1> QED BY <1>1, <1>2, <1>3, <1>4 DEF CHNext

\* As long as every change of the Secret finds one watch_secret, that of a process at rest, and no
\* step fails, a process that starts reads the certificate and the key of the current Secret, however
\* many processes upgrade each other and wherever the container crashes.
THEOREM AlwaysLoadsPair == CHSpec => []LoadsPair
<1>1. HandoverInv => LoadsPair
  <2> SUFFICES ASSUME HandoverInv, pace = "alone", NEW p \in DOMAIN proc, proc[p].boot = "load_key"
               PROVE  PairRead(p) = Current
    BY DEF LoadsPair
  <2>1. NewestOK(proc[p])
    BY AloneProcess DEF OlderOK, Up
  <2>2. proc[p].read = Current /\ proc[p].sw = "off" /\ proc[p].pen = 0
    BY <2>1 DEF NewestOK, FilesOK, Booting
  <2>3. key = Current
    BY <2>1, <2>2 DEF NewestOK, FilesOK, SecretPending
  <2>4. Current \in Nat \ {0}
    BY ProcessTypes DEF HandoverInv
  <2> QED BY <2>2, <2>3, <2>4 DEF PairRead, Empty
<1> QED BY <1>1, HandoverInit, HandoverInductive, PTL DEF CHSpec

=============================================================================

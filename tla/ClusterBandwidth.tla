--------------------------- MODULE ClusterBandwidth ---------------------------
(***************************************************************************)
(* Cluster bandwidth accounting (src/cluster/bandwidth.rs and the tasks of *)
(* src/cluster/node.rs), as seen from the node Me: the counters that the   *)
(* request threads of every node update one atomic operation at a time,    *)
(* the broadcast loop that takes and resets them, the gossip that carries  *)
(* the reports, and on Me the table of peers with its totals, the sliding  *)
(* window of the meter and the limiter.                                    *)
(*                                                                         *)
(* Inbound and outbound bytes are counted alike; one direction is          *)
(* modelled.  The request count, which no node uses, is left out.  Time is *)
(* counted in broadcast intervals.                                         *)
(***************************************************************************)
EXTENDS Integers, FiniteSets, Folds

CONSTANTS
    Nodes, Me,      \* the nodes of the cluster, and the observer
    Threads,        \* request threads, [node, id]
    Size,           \* bytes of a request
    StaleTimeout,   \* stale_peer_timeout_secs, in broadcast intervals
    Window,         \* meter_window_secs, in broadcast intervals
    Limit,          \* limit_bytes_per_sec * window; 0 is unlimited
    MaxRecords,     \* bound: requests completed
    MaxFaults       \* bound: reports lost, delayed or duplicated, restarts, ends of gossip

ASSUME BandwidthAssumption ==
    /\ Me \in Nodes /\ IsFiniteSet(Threads) /\ Size \in Nat
    /\ StaleTimeout \in Nat \ {0, 1} /\ Window \in Nat

VARIABLES
    tracker,        \* per node: BandwidthTracker
    rec,            \* per thread: next operation of record(), 0 when idle
    snap,           \* per node: snapshot in progress [pc, bytes, cumulative]
    net,            \* reports on their way to Me
    late,           \* reports the gossip delivers with a delay or twice
    sent,           \* nodes that have broadcast in this interval
    member,         \* per node: "joined"; "left": its gossip has ended, its process
                    \* and the other loops go on; "down": its process has ended
    peers,          \* ClusterBandwidthState::peers, or NoPeer
    totals,         \* ClusterBandwidthState: [bytes, peer_count]
    evict_in,       \* intervals to the next tick of the eviction task
    samples,        \* BandwidthMeter: bytes by age, the last entry all older
    left,           \* bounds left: [records, faults]
    reported        \* ghost: per node, the sum of the deltas it has taken

cbvars == <<tracker, rec, snap, net, late, sent, member, peers, totals, evict_in,
            samples, left, reported>>

Live == {n \in Nodes : member[n] # "down"}
NoPeer == [cumulative |-> 0, age |-> -1]
Ages == 0..(Window + 1)
NewTracker == [bytes |-> 0, cumulative |-> 0]
NoSnapshot == [pc |-> 0, bytes |-> 0, cumulative |-> 0]
SumOver(f(_), S) == MapThenFoldSet(LAMBDA a, b : a + b, 0, f, LAMBDA T : CHOOSE x \in T : TRUE, S)

-----------------------------------------------------------------------------
(* BandwidthTracker *)

BeginRecord(t) ==
    /\ rec[t] = 0
    /\ left.records > 0
    /\ rec' = [rec EXCEPT ![t] = 1]
    /\ left' = [left EXCEPT !.records = @ - 1]
    /\ UNCHANGED <<tracker, snap, net, late, sent, member, peers, totals, evict_in, samples, reported>>

\* The counters in the order of the fetch_adds of record().
Counter(pc) == IF pc = 1 THEN "bytes" ELSE "cumulative"

\* One fetch_add.
Record(t) ==
    LET c == Counter(rec[t])
    IN  /\ rec[t] > 0
        /\ tracker' = [tracker EXCEPT ![t.node][c] = @ + Size]
        /\ rec' = [rec EXCEPT ![t] = IF @ = 2 THEN 0 ELSE @ + 1]
        /\ UNCHANGED <<snap, net, late, sent, member, peers, totals, evict_in, samples, left, reported>>

\* Mutant of Snapshot: the counter is read and cleared, in two steps.
SnapshotTorn(n) ==
    LET pc == snap[n].pc
    IN  /\ n \in Live
        /\ pc \in 0..2
        /\ pc = 0 => n \notin sent
        /\ snap' = [snap EXCEPT ![n] =
              CASE pc = 0 -> [@ EXCEPT !.pc = 1, !.bytes = tracker[n].bytes]
                [] pc = 1 -> [@ EXCEPT !.pc = 2]
                [] pc = 2 -> [@ EXCEPT !.pc = 3, !.cumulative = tracker[n].cumulative]]
        /\ tracker' = IF pc = 1 THEN [tracker EXCEPT ![n].bytes = 0] ELSE tracker
        /\ reported' = [reported EXCEPT ![n] = IF pc = 0 THEN @ + tracker[n].bytes ELSE @]
        /\ UNCHANGED <<rec, net, late, sent, member, peers, totals, evict_in, samples, left>>

\* The operations of snapshot_and_reset: the interval counter is swapped with zero,
\* then the cumulative one is loaded.
Snapshot(n) ==
    LET pc == snap[n].pc
    IN  /\ n \in Live
        /\ \/ /\ pc = 0 /\ n \notin sent
              /\ snap' = [snap EXCEPT ![n].pc = 2, ![n].bytes = tracker[n].bytes]
              /\ tracker' = [tracker EXCEPT ![n].bytes = 0]
              /\ reported' = [reported EXCEPT ![n] = @ + tracker[n].bytes]
           \/ /\ pc = 2
              /\ snap' = [snap EXCEPT ![n].pc = 3, ![n].cumulative = tracker[n].cumulative]
              /\ UNCHANGED <<tracker, reported>>
        /\ UNCHANGED <<rec, net, late, sent, member, peers, totals, evict_in, samples, left>>

-----------------------------------------------------------------------------
(* BandwidthMeter and BandwidthLimiter of Me *)

\* record_sample: push, then drop the samples that are older than the window.
RecordSample(s, bytes) == [s EXCEPT ![0] = @ + bytes, ![Window + 1] = 0]

\* aggregate_rate, times the window: only samples inside the window count.
AggregateRate(s) == SumOver(LAMBDA a : s[a], Ages \ {Window + 1})

\* BandwidthLimiter::check.
LimiterRejects == Limit # 0 /\ AggregateRate(samples) > Limit

\* The broadcast loop after a snapshot: Me feeds its own meter, and the report of
\* another node goes to Me, unless one of the two has left the gossip: then the
\* broadcast fails, and the loop goes on.
Broadcast(n) ==
    /\ snap[n].pc = 3
    /\ n \in Live
    /\ snap' = [snap EXCEPT ![n] = NoSnapshot]
    /\ sent' = sent \cup {n}
    /\ samples' = IF n = Me THEN RecordSample(samples, snap[n].bytes) ELSE samples
    /\ net' = IF n = Me \/ member[n] # "joined" \/ member[Me] # "joined" THEN net
              ELSE net \cup {[sender |-> n, bytes |-> snap[n].bytes, cumulative |-> snap[n].cumulative]}
    /\ UNCHANGED <<tracker, rec, late, member, peers, totals, evict_in, left, reported>>

-----------------------------------------------------------------------------
(* ClusterBandwidthState of Me *)

\* recalculate: the totals over all peers in the table.
Recalculate(ps) ==
    LET known == {n \in Nodes : ps[n] # NoPeer}
    IN  [bytes |-> SumOver(LAMBDA n : ps[n].cumulative, known), peer_count |-> Cardinality(known)]

\* update_peer: the report replaces what was known, whatever their order.
UpdatePeer(ps, m) == [ps EXCEPT ![m.sender] = [cumulative |-> m.cumulative, age |-> 0]]

\* apply_bandwidth_message.
Apply(m) ==
    /\ peers' = UpdatePeer(peers, m)
    /\ totals' = Recalculate(peers')
    /\ samples' = RecordSample(samples, m.bytes)

Receive(m) ==
    /\ m \in net
    /\ Apply(m)
    /\ net' = net \ {m}
    /\ UNCHANGED <<tracker, rec, snap, late, sent, member, evict_in, left, reported>>

ReceiveLate(m) ==
    /\ m \in late
    /\ Apply(m)
    /\ late' = late \ {m}
    /\ UNCHANGED <<tracker, rec, snap, net, sent, member, evict_in, left, reported>>

\* evict_stale keeps an entry with last_seen > now - timeout.
EvictStale(ps) == [n \in Nodes |-> IF ps[n].age < StaleTimeout THEN ps[n] ELSE NoPeer]

\* Mutant of Evict: the totals are not recalculated.
EvictOnly ==
    /\ evict_in = 0
    /\ peers' = EvictStale(peers)
    /\ evict_in' = StaleTimeout
    /\ UNCHANGED <<tracker, rec, snap, net, late, sent, member, totals, samples, left, reported>>

\* A tick of the eviction task.
Evict ==
    /\ evict_in = 0
    /\ peers' = EvictStale(peers)
    /\ totals' = Recalculate(peers')
    /\ evict_in' = StaleTimeout
    /\ UNCHANGED <<tracker, rec, snap, net, late, sent, member, samples, left, reported>>

\* A broadcast interval passes.  Intervals are long: every running process has
\* broadcast, what the gossip has not delayed is delivered, and a due eviction has
\* run.
Interval ==
    /\ Live \subseteq sent
    /\ net = {} /\ evict_in > 0
    /\ sent' = {}
    /\ peers' = [n \in Nodes |-> IF peers[n] # NoPeer /\ peers[n].age < StaleTimeout
                                 THEN [peers[n] EXCEPT !.age = @ + 1] ELSE peers[n]]
    /\ evict_in' = evict_in - 1
    /\ samples' = [a \in Ages |-> IF a = 0 THEN 0
                                  ELSE IF a = Window + 1 THEN samples[Window] + samples[Window + 1]
                                  ELSE samples[a - 1]]
    /\ UNCHANGED <<tracker, rec, snap, net, late, member, totals, left, reported>>

-----------------------------------------------------------------------------
(* Faults *)

Fault == left.faults > 0 /\ left' = [left EXCEPT !.faults = @ - 1]

Lose(m) ==
    /\ Fault /\ m \in net
    /\ net' = net \ {m}
    /\ UNCHANGED <<tracker, rec, snap, late, sent, member, peers, totals, evict_in, samples, reported>>

\* A report is delivered later, or a second time.
Delay(m) ==
    /\ Fault /\ m \in net /\ member[Me] = "joined"
    /\ late' = late \cup {m}
    /\ \E dup \in BOOLEAN : net' = IF dup THEN net ELSE net \ {m}
    /\ UNCHANGED <<tracker, rec, snap, sent, member, peers, totals, evict_in, samples, reported>>

\* The process of a peer crashes; it may come back with new counters.
Crash(n) ==
    /\ Fault /\ n # Me /\ n \in Live
    /\ member' = [member EXCEPT ![n] = "down"]
    /\ tracker' = [tracker EXCEPT ![n] = NewTracker]
    /\ rec' = [t \in Threads |-> IF t.node = n THEN 0 ELSE rec[t]]
    /\ snap' = [snap EXCEPT ![n] = NoSnapshot]
    /\ reported' = [reported EXCEPT ![n] = 0]
    /\ UNCHANGED <<net, late, sent, peers, totals, evict_in, samples>>

Start(n) ==
    /\ n # Me /\ n \notin Live
    /\ member' = [member EXCEPT ![n] = "joined"]
    /\ UNCHANGED <<tracker, rec, snap, net, late, sent, peers, totals, evict_in, samples, left, reported>>

\* A gossip stream ends or fails, which ends its task: run_cluster shuts the router
\* down and returns.  It drops the handles of the other tasks, which detaches them:
\* the loops that broadcast, evict and set the metrics go on, and reports that have
\* come already may still be handled.
StopCluster(n) ==
    /\ Fault /\ member[n] = "joined"
    /\ member' = [member EXCEPT ![n] = "left"]
    /\ IF n = Me THEN net' \in SUBSET net /\ late' = {} ELSE UNCHANGED <<net, late>>
    /\ UNCHANGED <<tracker, rec, snap, sent, peers, totals, evict_in, samples, reported>>

-----------------------------------------------------------------------------
CBInit ==
    /\ tracker = [n \in Nodes |-> NewTracker]
    /\ rec = [t \in Threads |-> 0]
    /\ snap = [n \in Nodes |-> NoSnapshot]
    /\ net = {} /\ late = {} /\ sent = {}
    /\ member = [n \in Nodes |-> "joined"]
    /\ peers = [n \in Nodes |-> NoPeer]
    /\ totals = [bytes |-> 0, peer_count |-> 0]
    /\ evict_in = 0
    /\ samples = [a \in Ages |-> 0]
    /\ left = [records |-> MaxRecords, faults |-> MaxFaults]
    /\ reported = [n \in Nodes |-> 0]

CBNext ==
    \/ \E t \in Threads : BeginRecord(t) \/ Record(t)
    \/ \E n \in Nodes : Snapshot(n) \/ Broadcast(n) \/ Crash(n) \/ Start(n) \/ StopCluster(n)
    \/ \E m \in net : Receive(m) \/ Lose(m) \/ Delay(m)
    \/ \E m \in late : ReceiveLate(m)
    \/ Evict \/ Interval

\* Threads finish what they began, the loops of a running process keep running,
\* delayed reports arrive and time passes.
CBFairness ==
    /\ \A t \in Threads : WF_cbvars(Record(t))
    /\ \A n \in Nodes : WF_cbvars(Snapshot(n) \/ Broadcast(n))
    /\ WF_cbvars(\E m \in net : Receive(m))
    /\ WF_cbvars(\E m \in late : ReceiveLate(m))
    /\ WF_cbvars(Evict)
    /\ WF_cbvars(Interval)

CBSpec == CBInit /\ [][CBNext]_cbvars /\ CBFairness

-----------------------------------------------------------------------------
\* No byte is lost between record(), which updates the counters one by one, and
\* snapshot_and_reset, which takes them one by one: when neither is under way on a
\* node, the deltas it has reported and the counter make up its cumulative total.
NothingUncounted ==
    \A n \in Nodes :
        (snap[n].pc = 0 /\ \A t \in Threads : t.node = n => rec[t] = 0) =>
            reported[n] + tracker[n].bytes = tracker[n].cumulative

\* The peers that Me can hear of.
Heard == IF member[Me] = "joined" THEN {n \in Nodes \ {Me} : member[n] = "joined"} ELSE {}

\* Whatever reports are lost, repeated or overtake each other, whichever peers restart,
\* die or leave the gossip, once traffic stops the totals come to be the cumulative
\* bytes of the peers that Me hears of: none if its own gossip has ended, as the
\* detached eviction task empties the table.
TotalsConverge ==
    <>[](/\ totals.bytes = SumOver(LAMBDA n : tracker[n].cumulative, Heard)
         /\ totals.peer_count = Cardinality(Heard))

\* The limiter lets traffic through again once there is none, also when the gossip
\* that feeds its meter has ended.
LimiterReleases == []<>(~LimiterRejects)

=============================================================================

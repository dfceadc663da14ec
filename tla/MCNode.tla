------------------------------- MODULE MCNode -------------------------------
(***************************************************************************)
(* Parts of a node that share no state with each other: the cluster        *)
(* bandwidth accounting, the publication of digests and the certificate    *)
(* handover.  `focus` is the part that a behaviour is about; the others    *)
(* stay in their initial states: their state spaces are added up.          *)
(***************************************************************************)
EXTENDS ClusterBandwidth, CertHandover, DigestGossip

VARIABLE focus

MCThreads == {[node |-> n, id |-> 1] : n \in Nodes}

nodevars == <<cbvars, chvars, dgvars, focus>>

NodeInit ==
    /\ focus \in {"bandwidth", "certificates", "gossip"}
    /\ CBInit /\ CHInit /\ DGInit
    /\ focus # "gossip" => world = [r \in Resources |-> Absent] /\ healthy

NodeNext ==
    \/ focus = "bandwidth" /\ CBNext /\ UNCHANGED <<chvars, dgvars, focus>>
    \/ focus = "certificates" /\ CHNext /\ UNCHANGED <<cbvars, dgvars, focus>>
    \/ focus = "gossip" /\ DGNext /\ UNCHANGED <<cbvars, chvars, focus>>

\* CBFairness, CHFairness and DGFairness, of the part in focus.
BW(A) == focus = "bandwidth" /\ A
DG(A) == focus = "gossip" /\ A
NodeFairness ==
    /\ \A t \in Threads : WF_cbvars(BW(Record(t)))
    /\ \A n \in Nodes : WF_cbvars(BW(Snapshot(n) \/ Broadcast(n)))
    /\ WF_cbvars(BW(\E m \in net : Receive(m)))
    /\ WF_cbvars(BW(\E m \in late : ReceiveLate(m)))
    /\ WF_cbvars(BW(Evict))
    /\ WF_cbvars(BW(Interval))
    /\ \A p \in 1..MaxProcesses :
          WF_chvars(focus = "certificates" /\ p \in DOMAIN proc /\ Step(p))
    /\ WF_dgvars(DG(LoopStep))
    /\ WF_dgvars(DG(TakeView)) /\ WF_dgvars(DG(MaybePublish))
    /\ WF_dgvars(DG(SendDigest)) /\ WF_dgvars(DG(IntervalOver))
    /\ WF_dgvars(DG(TakeLocal)) /\ WF_dgvars(DG(SendNotify))
    /\ WF_dgvars(DG(ForwardDigest)) /\ WF_dgvars(DG(ForwardNotify))
    /\ WF_dgvars(DG(BroadcastState)) /\ WF_dgvars(DG(BroadcastNotify))

NodeSpec == NodeInit /\ [][NodeNext]_nodevars /\ NodeFairness

-----------------------------------------------------------------------------
\* TotalsConverge and LimiterReleases, of behaviours of the bandwidth accounting: the totals of a
\* node come to be those of the peers it hears of despite lost, late and repeated reports, crashes and
\* the end of its own gossip, and when traffic has stopped the limiter comes to let requests through.
BandwidthConverges == focus = "bandwidth" => (TotalsConverge /\ LimiterReleases)

\* CertificateFollows, of behaviours of the certificate handover: while each change finds one
\* watch_secret, of a process at rest, the newest process comes to have loaded the current Secret
\* and to watch it.
HandoverFollows == focus = "certificates" => CertificateFollows

\* LoopNeverStalls and DigestFollows, of behaviours of the publication of digests: a gossip layer
\* that takes no messages never stops the reconcile loop, and the last digest broadcast comes to
\* be the one of the resources as they are, although messages are dropped.
GossipFollows == focus = "gossip" => (LoopNeverStalls /\ DigestFollows)

=============================================================================

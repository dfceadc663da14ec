---------------------------- MODULE MCL4Manager ----------------------------
(***************************************************************************)
(* The L4 manager alone, fed with a bounded number of configurations.      *)
(***************************************************************************)
EXTENDS L4Manager

CONSTANTS
    MaxApplies,     \* bound: configurations applied
    Heap,           \* the configurations
    Foreign         \* addresses held by another process at the start

VARIABLE napplied

mcVars == <<l4Vars, napplied>>

MCListener(addr, key, protocol) == [id |-> <<addr, key>>, bind_addr |-> addr, protocol |-> protocol]

\* The empty configuration, HTTPS on 443, HTTPS and TLS sharing 443 next to a DNS
\* listener, and plain HTTP next to HTTPS.
MixedHeap ==
    <<[listeners |-> {}, routes |-> <<>>],
      [listeners |-> {MCListener(443, "Https", "Https")}, routes |-> <<>>],
      [listeners |-> {MCListener(443, "tls", "Tls"), MCListener(53, "Udp", "Udp")}, routes |-> <<>>],
      [listeners |-> {MCListener(443, "Https", "Https"), MCListener(80, "Http", "Http")}, routes |-> <<>>]>>

\* A DNS listener that comes and goes.
UdpHeap ==
    <<[listeners |-> {}, routes |-> <<>>],
      [listeners |-> {MCListener(53, "Udp", "Udp")}, routes |-> <<>>]>>

NoForeign == {}
OldProcess == {<<53, "udp">>, <<443, "tcp">>}
NoneSlow == {}
UdpSlow == {"Udp"}

MCInit ==
    /\ heap = Heap
    /\ config = 1
    /\ foreign = Foreign
    /\ napplied = 0
    /\ L4Init

MCNext ==
    \/ L4Next /\ UNCHANGED <<heap, napplied>>
    \/ /\ napplied < MaxApplies
       /\ napplied' = napplied + 1
       /\ \E c \in DOMAIN heap : ApplyConfig(c)
       /\ UNCHANGED heap

\* The runtime polls every task that can make progress; datagram handlers end
\* after at most 30 s; the other process closes its sockets when it exits.
MCFairness ==
    /\ WF_mcVars(ManagerStep /\ UNCHANGED <<heap, napplied>>)
    /\ \A k \in Slots : /\ WF_mcVars(TaskStep(k) /\ UNCHANGED <<heap, napplied>>)
                        /\ WF_mcVars(HandlerDone(k) /\ UNCHANGED <<heap, napplied>>)
    /\ WF_mcVars((\E key \in foreign : ForeignRelease(key)) /\ UNCHANGED <<heap, napplied>>)

MCSpec == MCInit /\ [][MCNext]_mcVars /\ MCFairness

=============================================================================

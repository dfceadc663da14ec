--------------------------- MODULE Protection_proofs ---------------------------
(***************************************************************************)
(* Proofs about the three parts that decide whom to let through and whom   *)
(* to trust, each for any instance.                                        *)
(*                                                                         *)
(* BotAllowlist: a client is let past the scanner by DNS only when DNS     *)
(* itself tied its address to the rule of its agent (AllowedIsVerified),   *)
(* for any number of requests in the queue and any changes of DNS between  *)
(* the two lookups of a verification.  The worker looks up twice and       *)
(* stores later, so the argument follows the evidence: reverse DNS has     *)
(* answered what the verification in progress goes by, and behind every    *)
(* positive entry of the cache are both answers, the forward one as old as *)
(* the entry.                                                              *)
(*                                                                         *)
(* BackendTls: a request is sent only on a connection that was made and    *)
(* verified for the trust its own plan asks for (ExchangesVerified), while *)
(* ticks, edits and outages go on.  A pooled connection is matched by its  *)
(* reuse key alone, and the key does not hold the CA bundle, the SANs or   *)
(* whether TLS is spoken: they reach it through the scheme and the group   *)
(* key that make_peer chose.  So the invariant says of every peer that     *)
(* came out of make_peer that these two determine the rest, and of every   *)
(* connection that it still carries the key of the peer it was made for.   *)
(*                                                                         *)
(* RateLimiter: no key is granted more than its burst and its rate allow,  *)
(* and the retry_after of a rejection suffices, for any threads, clients,  *)
(* rates, bursts and stale_after_secs and for behaviours of any length.    *)
(* An eviction gives away at most what a burst is short of after the idle  *)
(* time, which the bound counts.                                           *)
(***************************************************************************)
EXTENDS RateLimiter, BotAllowlist, BackendTls, TLAPS

(* The bot allowlist. *)

AskedRules == {RuleFor(agent) : agent \in Agents}
Requests == [ip : Addresses, rule : AskedRules]
Entries == [rule : AskedRules, verified : BOOLEAN, created : Nat]
Lookups ==
    {NoLookup} \cup [step : {"reverse"}, ip : Addresses, rule : AskedRules]
               \cup [step : {"forward"}, ip : Addresses, rule : AskedRules, host : Hosts]

BATypeOK ==
    /\ verified_cache \in [Addresses -> Entries \cup {NoEntry}]
    /\ pending_tx \in Seq(Requests)
    /\ lookup \in Lookups
    /\ time \in Nat
    /\ names \in [Addresses -> Hosts \cup {NoName}]
    /\ addrs \in [Hosts -> SUBSET Addresses]

\* What DNS answers now is remembered as an answer of now.
AnswersRemembered ==
    /\ \A ip \in Addresses : <<ip, names[ip], time>> \in reversed
    /\ \A h \in Hosts : \A ip \in addrs[h] : <<h, ip, time>> \in resolved

\* Reverse DNS has named the host of the address, no later than t.
NamedBy(ip, host, t) == \E u \in 0..t : <<ip, host, u>> \in reversed

\* A verification that waits for forward DNS has a host that reverse DNS gave for its
\* address and that fits its rule.
LookupGrounded ==
    lookup.step = "forward" =>
        NamedBy(lookup.ip, lookup.host, time) /\ SuffixMatches(lookup.host, lookup.rule)

\* The evidence behind a positive entry: the forward answer is of the time of the entry.
Evidence(ip, entry) ==
    \E host \in Hosts :
        /\ SuffixMatches(host, entry.rule)
        /\ NamedBy(ip, host, entry.created)
        /\ <<host, ip, entry.created>> \in resolved

CacheGrounded ==
    \A ip \in Addresses : verified_cache[ip] # NoEntry =>
        /\ verified_cache[ip].created <= time
        /\ verified_cache[ip].verified => Evidence(ip, verified_cache[ip])

BAInv == BATypeOK /\ AnswersRemembered /\ LookupGrounded /\ CacheGrounded

-----------------------------------------------------------------------------
\* NoEntry is not an entry: it lacks two of the fields.
LEMMA NoEntryIsNone == NoEntry \notin Entries
  BY DEF NoEntry, Entries

\* Every variable keeps its type.
LEMMA BATypes ==
  /\ BAInit => BATypeOK
  /\ BATypeOK /\ [BANext]_bavars => BATypeOK'
<1>1. BAInit => BATypeOK
  BY DEF BAInit, BATypeOK, NoEntry, Lookups, NoLookup
<1>2. ASSUME BATypeOK, [BANext]_bavars PROVE BATypeOK'
  <2> USE <1>2 DEF BATypeOK
  <2>1. ASSUME NEW agent \in Agents, NEW ip \in Addresses, CheckBot(agent, ip) PROVE BATypeOK'
    <3>1. [ip |-> ip, rule |-> RuleFor(agent)] \in Requests
      BY DEF Requests, AskedRules
    <3> QED BY <2>1, <3>1 DEF CheckBot
  <2>2. CASE TakeRequest
    <3>1. Head(pending_tx) \in Requests /\ Tail(pending_tx) \in Seq(Requests)
      BY <2>2 DEF TakeRequest
    <3>2. lookup' \in Lookups
      BY <2>2, <3>1 DEF TakeRequest, Lookups, Requests
    <3> QED BY <2>2, <3>1, <3>2 DEF TakeRequest
  <2>3. CASE ReverseLookup
    <3>1. lookup.ip \in Addresses /\ lookup.rule \in AskedRules
      BY <2>3 DEF ReverseLookup, Lookups, NoLookup
    <3>2. PICK host \in {names[lookup.ip], NoName} :
             IF host # NoName /\ SuffixMatches(host, lookup.rule)
             THEN /\ lookup' = [step |-> "forward", ip |-> lookup.ip, rule |-> lookup.rule, host |-> host]
                  /\ UNCHANGED verified_cache
             ELSE /\ Store(lookup.ip, lookup.rule, FALSE)
                  /\ lookup' = NoLookup
      BY <2>3 DEF ReverseLookup
    <3>3. verified_cache' \in [Addresses -> Entries \cup {NoEntry}]
      <4>1. [rule |-> lookup.rule, verified |-> FALSE, created |-> time] \in Entries
        BY <3>1 DEF Entries
      <4>2. CASE UNCHANGED verified_cache
        BY <4>2
      <4>3. CASE Store(lookup.ip, lookup.rule, FALSE)
        BY <4>1, <4>3 DEF Store
      <4> QED BY <3>2, <4>2, <4>3
    <3>4. lookup' \in Lookups
      <4>1. CASE lookup' = NoLookup
        BY <4>1 DEF Lookups
      <4>2. CASE host # NoName /\ lookup' = [step |-> "forward", ip |-> lookup.ip, rule |-> lookup.rule,
                                              host |-> host]
        <5>1. host \in Hosts
          BY <3>1, <4>2
        <5> QED BY <3>1, <4>2, <5>1 DEF Lookups
      <4> QED BY <3>2, <4>1, <4>2
    <3> QED BY <2>3, <3>3, <3>4 DEF ReverseLookup
  <2>4. CASE ForwardLookup
    <3>1. lookup.ip \in Addresses /\ lookup.rule \in AskedRules
      BY <2>4 DEF ForwardLookup, Lookups, NoLookup
    <3>2. verified_cache' \in [Addresses -> Entries \cup {NoEntry}]
      BY <2>4, <3>1 DEF ForwardLookup, Store, Entries
    <3> QED BY <2>4, <3>2 DEF ForwardLookup, Lookups
  <2>5. CASE EditDns
    BY <2>5 DEF EditDns
  <2>6. CASE TimePasses
    BY <2>6 DEF TimePasses
  <2>7. CASE UNCHANGED bavars
    BY <2>7 DEF bavars
  <2> QED BY <2>1, <2>2, <2>3, <2>4, <2>5, <2>6, <2>7 DEF BANext
<1> QED BY <1>1, <1>2

\* Answers are never forgotten, only added.
LEMMA AnswersGrow ==
  [BANext]_bavars => reversed \subseteq reversed' /\ resolved \subseteq resolved'
  BY DEF BANext, bavars, CheckBot, TakeRequest, ReverseLookup, ForwardLookup, EditDns, TimePasses,
         Remember

\* A step changes the cache only by storing, for the address of the verification in progress,
\* an entry of now: a negative one, or a positive one when forward DNS leads back.
LEMMA CacheStep ==
  ASSUME BATypeOK, [BANext]_bavars, NEW ip \in Addresses, verified_cache'[ip] # verified_cache[ip]
  PROVE  /\ time' = time /\ reversed' = reversed /\ resolved' = resolved
         /\ lookup.step \in {"reverse", "forward"} /\ ip = lookup.ip
         /\ verified_cache'[ip].created = time
         /\ verified_cache'[ip].rule = lookup.rule
         /\ verified_cache'[ip].verified =>
               lookup.step = "forward" /\ lookup.host \in Hosts /\ ip \in addrs[lookup.host]
<1> USE DEF BATypeOK
<1>1. CASE ReverseLookup
  <2>1. Store(lookup.ip, lookup.rule, FALSE)
    BY <1>1 DEF ReverseLookup
  <2>2. ip = lookup.ip
        /\ verified_cache'[ip] = [rule |-> lookup.rule, verified |-> FALSE, created |-> time]
    BY <2>1 DEF Store
  <2>3. ~verified_cache'[ip].verified
    BY <2>2
  <2> QED BY <1>1, <2>2, <2>3 DEF ReverseLookup
<1>2. CASE ForwardLookup
  <2>1. PICK found \in {addrs[lookup.host], {}} : Store(lookup.ip, lookup.rule, lookup.ip \in found)
    BY <1>2 DEF ForwardLookup
  <2>2. ip = lookup.ip
        /\ verified_cache'[ip] = [rule |-> lookup.rule, verified |-> lookup.ip \in found, created |-> time]
    BY <2>1 DEF Store
  <2>3. lookup.host \in Hosts
    BY <1>2 DEF ForwardLookup, Lookups, NoLookup
  <2>4. verified_cache'[ip].verified = (ip \in found)
    BY <2>2
  <2>5. ip \in found => ip \in addrs[lookup.host]
    BY <2>1
  <2>6. verified_cache'[ip].verified => ip \in addrs[lookup.host]
    BY <2>4, <2>5, Zenon
  <2>7. verified_cache'[ip].created = time /\ verified_cache'[ip].rule = lookup.rule
    BY <2>2
  <2>8. /\ time' = time /\ reversed' = reversed /\ resolved' = resolved
        /\ lookup.step = "forward"
    BY <1>2 DEF ForwardLookup
  <2> QED BY <2>2, <2>3, <2>6, <2>7, <2>8
<1> QED BY <1>1, <1>2 DEF BANext, bavars, CheckBot, TakeRequest, EditDns, TimePasses

\* The invariant holds initially and every step keeps it: a verification in progress loses
\* none of its evidence while DNS changes and time passes, and what it stores is of now.
LEMMA BAInductive ==
  /\ BAInit => BAInv
  /\ BAInv /\ [BANext]_bavars => BAInv'
<1>1. ASSUME BAInit PROVE BAInv
  <2>1. BATypeOK
    BY <1>1, BATypes
  <2>2. AnswersRemembered
    BY <1>1 DEF BAInit, AnswersRemembered, NameAnswers, AddressAnswers
  <2>3. LookupGrounded
    BY <1>1 DEF BAInit, LookupGrounded, NoLookup
  <2>4. CacheGrounded
    BY <1>1 DEF BAInit, CacheGrounded
  <2> QED BY <2>1, <2>2, <2>3, <2>4 DEF BAInv
<1>2. ASSUME BAInv, [BANext]_bavars PROVE BAInv'
  <2>1. BATypeOK /\ BATypeOK'
    BY <1>2, BATypes DEF BAInv
  <2>2. reversed \subseteq reversed' /\ resolved \subseteq resolved'
    BY <1>2, AnswersGrow
  <2>3. time \in Nat /\ time' \in Nat /\ time <= time'
    <3>1. time' = time \/ time' = time + 1
      BY <1>2 DEF BANext, bavars, CheckBot, TakeRequest, ReverseLookup, ForwardLookup, EditDns, TimePasses
    <3> QED BY <2>1, <3>1 DEF BATypeOK
  <2>4. AnswersRemembered'
    <3>1. CASE UNCHANGED <<names, addrs, time, reversed, resolved>>
      BY <1>2, <3>1 DEF BAInv, AnswersRemembered
    <3>2. CASE EditDns
      <4>1. reversed' = reversed \cup NameAnswers(names', time')
            /\ resolved' = resolved \cup AddressAnswers(addrs', time')
        BY <3>2 DEF EditDns, Remember
      <4> QED BY <4>1 DEF AnswersRemembered, NameAnswers, AddressAnswers
    <3>3. CASE TimePasses
      <4>1. reversed' = reversed \cup NameAnswers(names', time')
            /\ resolved' = resolved \cup AddressAnswers(addrs', time')
        BY <3>3 DEF TimePasses, Remember
      <4> QED BY <4>1 DEF AnswersRemembered, NameAnswers, AddressAnswers
    <3> QED BY <1>2, <3>1, <3>2, <3>3 DEF BANext, bavars, CheckBot, TakeRequest, ReverseLookup,
                                          ForwardLookup
  <2>5. LookupGrounded'
    <3>1. CASE lookup' = lookup
      BY <1>2, <2>2, <2>3, <3>1 DEF BAInv, LookupGrounded, NamedBy
    <3>2. CASE lookup' # lookup /\ lookup'.step = "forward"
      <4>1. ReverseLookup
        <5>1. ~TakeRequest
          <6>1. [step |-> "reverse", ip |-> Head(pending_tx).ip, rule |-> Head(pending_tx).rule].step
                # "forward" /\ NoLookup.step # "forward"
            BY DEF NoLookup
          <6> QED BY <3>2, <6>1 DEF TakeRequest
        <5>2. ~ForwardLookup
          BY <3>2 DEF ForwardLookup, NoLookup
        <5> QED BY <1>2, <3>2, <5>1, <5>2 DEF BANext, bavars, CheckBot, EditDns, TimePasses
      <4>2. PICK host \in {names[lookup.ip], NoName} :
                /\ host # NoName /\ SuffixMatches(host, lookup.rule)
                /\ lookup' = [step |-> "forward", ip |-> lookup.ip, rule |-> lookup.rule, host |-> host]
        <5>1. lookup' # NoLookup
          BY <3>2 DEF NoLookup
        <5> QED BY <4>1, <5>1 DEF ReverseLookup
      <4>3. lookup.ip \in Addresses
        BY <2>1, <4>1 DEF BATypeOK, ReverseLookup, Lookups, NoLookup
      <4>4. <<lookup.ip, host, time>> \in reversed
        BY <1>2, <4>2, <4>3 DEF BAInv, AnswersRemembered
      <4>5. lookup'.ip = lookup.ip /\ lookup'.host = host /\ lookup'.rule = lookup.rule
        BY <4>2
      <4>6. time \in 0..time' /\ <<lookup'.ip, lookup'.host, time>> \in reversed'
        BY <2>2, <2>3, <4>4, <4>5
      <4>7. SuffixMatches(lookup'.host, lookup'.rule)
        BY <4>2, <4>5
      <4> QED BY <4>6, <4>7 DEF LookupGrounded, NamedBy, SuffixMatches
    <3> QED BY <3>1, <3>2 DEF LookupGrounded
  <2>6. CacheGrounded'
    <3> SUFFICES ASSUME NEW ip \in Addresses, verified_cache'[ip] # NoEntry
                 PROVE  /\ verified_cache'[ip].created <= time'
                        /\ verified_cache'[ip].verified => Evidence(ip, verified_cache[ip])'
      BY DEF CacheGrounded
    <3>1. CASE verified_cache'[ip] = verified_cache[ip]
      <4>1. verified_cache[ip] \in Entries
        BY <2>1, <3>1 DEF BATypeOK
      <4>2. verified_cache[ip].created \in Nat /\ verified_cache[ip].created <= time
        BY <1>2, <3>1, <4>1 DEF BAInv, CacheGrounded, Entries
      <4>3. verified_cache[ip].verified => Evidence(ip, verified_cache[ip])
        BY <1>2, <3>1 DEF BAInv, CacheGrounded
      <4>4. verified_cache[ip].verified => Evidence(ip, verified_cache[ip])'
        <5>1. Evidence(ip, verified_cache[ip]) => Evidence(ip, verified_cache[ip])'
          BY <2>2, <3>1 DEF Evidence, NamedBy, SuffixMatches
        <5> QED BY <4>3, <5>1
      <4> QED BY <2>3, <3>1, <4>2, <4>4
    <3>2. CASE verified_cache'[ip] # verified_cache[ip]
      <4>1. /\ time' = time /\ reversed' = reversed /\ resolved' = resolved
            /\ ip = lookup.ip
            /\ verified_cache'[ip].created = time
            /\ verified_cache'[ip].rule = lookup.rule
            /\ verified_cache'[ip].verified =>
                  lookup.step = "forward" /\ lookup.host \in Hosts /\ ip \in addrs[lookup.host]
        BY <1>2, <2>1, <3>2, CacheStep
      <4>2. ASSUME verified_cache'[ip].verified PROVE Evidence(ip, verified_cache[ip])'
        <5>1. /\ NamedBy(ip, lookup.host, time) /\ SuffixMatches(lookup.host, lookup.rule)
              /\ <<lookup.host, ip, time>> \in resolved
          BY <1>2, <4>1, <4>2 DEF BAInv, LookupGrounded, AnswersRemembered
        <5> QED BY <4>1, <4>2, <5>1 DEF Evidence, NamedBy, SuffixMatches
      <4> QED BY <2>3, <4>1, <4>2
    <3> QED BY <3>1, <3>2
  <2> QED BY <2>1, <2>4, <2>5, <2>6 DEF BAInv
<1> QED BY <1>1, <1>2

\* A decision "dns" rests on a fresh, positive entry of the address for the very rule.
LEMMA DnsDecision ==
  ASSUME NEW rule, NEW ip, Decision(rule, ip) = "dns"
  PROVE  /\ Fresh(verified_cache[ip])
         /\ verified_cache[ip].verified /\ verified_cache[ip].rule = rule
<1> DEFINE r == Rules[rule]
           entry == verified_cache[ip]
           verdict == IF Fresh(entry) THEN IF VerifiedFor(entry, rule) THEN "dns" ELSE "none" ELSE "ask"
<1>1. CASE rule = NoRule
  <2>1. Decision(rule, ip) = "none"
    BY <1>1 DEF Decision
  <2> QED BY <2>1
<1>2. CASE rule # NoRule /\ r.cidrs = {} /\ r.suffixes = {}
  <2>1. Decision(rule, ip) = "agent"
    BY <1>2 DEF Decision
  <2> QED BY <2>1
<1>3. CASE rule # NoRule /\ ip \in r.cidrs
  <2>1. Decision(rule, ip) = "network"
    BY <1>3 DEF Decision
  <2> QED BY <2>1
<1>4. CASE rule # NoRule /\ ip \notin r.cidrs /\ r.cidrs # {} /\ r.suffixes = {}
  <2>1. Decision(rule, ip) = "none"
    BY <1>4 DEF Decision
  <2> QED BY <2>1
<1>5. CASE rule # NoRule /\ ip \notin r.cidrs /\ r.suffixes # {}
  <2>1. Decision(rule, ip) = verdict
    BY <1>5 DEF Decision
  <2> QED BY <2>1 DEF VerifiedFor
<1> QED BY <1>1, <1>2, <1>3, <1>4, <1>5

\* AllowedIsVerified: for all rules, agents, addresses, host names and lifetimes, a request that
\* skips the scanner by DNS comes from an address that reverse and then forward DNS tied to
\* the rule of its agent less than the cache's lifetime ago (check, verify_dns and the worker of
\* the bot allowlist).
THEOREM AllowedAlwaysVerified == BASpec => []AllowedIsVerified
<1>1. BAInv => AllowedIsVerified
  <2> SUFFICES ASSUME BAInv, NEW agent \in Agents, NEW ip \in Addresses,
                      Decision(RuleFor(agent), ip) = "dns"
               PROVE  \E host \in Hosts, t \in 0..time, u \in 0..time :
                          /\ SuffixMatches(host, RuleFor(agent))
                          /\ u <= t
                          /\ <<ip, host, u>> \in reversed
                          /\ <<host, ip, t>> \in resolved
                          /\ time - t < CacheTtl
    BY DEF AllowedIsVerified
  <2> DEFINE entry == verified_cache[ip]
  <2>1. entry # NoEntry /\ time - entry.created < CacheTtl /\ entry.verified
        /\ entry.rule = RuleFor(agent)
    BY DnsDecision DEF Fresh
  <2>2. entry.created \in Nat /\ time \in Nat /\ entry.created <= time
    BY <2>1 DEF BAInv, BATypeOK, CacheGrounded, Entries
  <2>3. PICK host \in Hosts : /\ SuffixMatches(host, entry.rule)
                              /\ NamedBy(ip, host, entry.created)
                              /\ <<host, ip, entry.created>> \in resolved
    BY <2>1 DEF BAInv, CacheGrounded, Evidence
  <2>4. PICK u \in 0..entry.created : <<ip, host, u>> \in reversed
    BY <2>3 DEF NamedBy
  <2>5. u \in 0..time /\ entry.created \in 0..time /\ u <= entry.created
    BY <2>2
  <2> QED BY <2>1, <2>3, <2>4, <2>5
<1> QED BY <1>1, BAInductive, PTL DEF BASpec

-----------------------------------------------------------------------------
(* The trust in backends. *)

\* The three kinds of peer that make_peer makes: plain HTTP; TLS by Pingora's own
\* connector; TLS by the proxy's connector, which Pingora takes for plain.
PlainPeer(p) == ~p.is_tls /\ p.scheme = "HTTP" /\ p.tls.ca = <<>> /\ p.group_key = <<>>
PingoraTlsPeer(p) == p.is_tls /\ p.scheme = "HTTPS" /\ p.tls.ca = <<>> /\ p.group_key = <<>>
OwnTlsPeer(p) ==
    /\ p.is_tls /\ p.scheme = "HTTP" /\ p.tls.ca # <<>>
    /\ p.group_key = <<p.tls.ca, p.tls.sans>>
PeerMade(p) == p.is_tls \in BOOLEAN /\ (PlainPeer(p) \/ PingoraTlsPeer(p) \/ OwnTlsPeer(p))

\* A connection carries the key of the peer it was established for.
ConnectionKeyed(c) == PeerMade(c.peer) /\ c.key = ReuseKey(c.peer)

\* The inductive invariant: the peer of a request that has one was made by make_peer, every
\* connection in the pool or in use is keyed by its own peer, and the one in use has the key
\* of the request's peer.
PoolKeyed ==
    /\ \A c \in pool : ConnectionKeyed(c)
    /\ exchange.phase \in {"connect", "sent"} => PeerMade(exchange.peer)
    /\ exchange.phase = "sent" =>
          ConnectionKeyed(exchange.conn) /\ exchange.conn.key = ReuseKey(exchange.peer)

-----------------------------------------------------------------------------
\* make_peer makes one of the three kinds, whatever the entry and the client certificate:
\* trust_hash is part of the group key exactly when the proxy's own connector is used.
LEMMA MakePeerKinds == \A e : PeerMade(MakePeer(e))
<1> SUFFICES ASSUME NEW e PROVE PeerMade(MakePeer(e))
  OBVIOUS
<1> DEFINE p == MakePeer(e)
<1>1. CASE ~IsTls(e)
  <2>1. PlainPeer(p) /\ p.is_tls = FALSE
    BY <1>1 DEF MakePeer, PlainPeer, OwnConnector, NoTls
  <2> QED BY <2>1 DEF PeerMade
<1>2. CASE IsTls(e) /\ e.tls.ca = <<>>
  <2>1. PingoraTlsPeer(p) /\ p.is_tls = TRUE
    BY <1>2 DEF MakePeer, PingoraTlsPeer, OwnConnector, IsTls
  <2> QED BY <2>1 DEF PeerMade
<1>3. CASE IsTls(e) /\ e.tls.ca # <<>>
  <2>1. OwnTlsPeer(p) /\ p.is_tls = TRUE
    BY <1>3 DEF MakePeer, OwnTlsPeer, OwnConnector, TrustHash, IsTls
  <2> QED BY <2>1 DEF PeerMade
<1> QED BY <1>1, <1>2, <1>3

\* Peers with the same reuse key ask for the same: the key forgets nothing that a connection
\* is verified for.
LEMMA SameKeySameTrust ==
  \A p, q : PeerMade(p) /\ PeerMade(q) /\ ReuseKey(p) = ReuseKey(q)
            => EstablishedFor(p) = EstablishedFor(q)
<1> SUFFICES ASSUME NEW p, NEW q, PeerMade(p), PeerMade(q), ReuseKey(p) = ReuseKey(q)
             PROVE  EstablishedFor(p) = EstablishedFor(q)
  OBVIOUS
<1>1. /\ p.addr = q.addr /\ p.scheme = q.scheme /\ p.tls.sni = q.tls.sni
      /\ p.cert = q.cert /\ p.group_key = q.group_key
  BY DEF ReuseKey
<1>2. CASE PlainPeer(p) \/ PingoraTlsPeer(p)
  <2>1. q.group_key = <<>>
    BY <1>1, <1>2 DEF PlainPeer, PingoraTlsPeer
  <2>2. ~OwnTlsPeer(q)
    BY <2>1 DEF OwnTlsPeer
  <2>3. p.tls.ca = <<>> /\ q.tls.ca = <<>> /\ p.is_tls = q.is_tls
    BY <1>1, <1>2, <2>2 DEF PeerMade, PlainPeer, PingoraTlsPeer
  <2> QED BY <1>1, <2>3 DEF EstablishedFor
<1>3. CASE OwnTlsPeer(p)
  <2>1. q.group_key = <<p.tls.ca, p.tls.sans>>
    BY <1>1, <1>3 DEF OwnTlsPeer
  <2>2. OwnTlsPeer(q)
    BY <2>1 DEF PeerMade, PlainPeer, PingoraTlsPeer
  <2>3. p.tls.ca = q.tls.ca /\ p.tls.sans = q.tls.sans /\ p.is_tls = q.is_tls
    BY <1>3, <2>1, <2>2 DEF OwnTlsPeer, PeerMade
  <2> QED BY <1>1, <2>3 DEF EstablishedFor
<1> QED BY <1>2, <1>3 DEF PeerMade

-----------------------------------------------------------------------------
\* Only the upstream side of requests touches the pool and the request in flight: edits,
\* outages and the whole reconcile tick leave them alone.
LEMMA OthersKeepConnections ==
  EditTrust \/ EditCredentials \/ ScalePods \/ Outage \/ TickStep => UNCHANGED <<exchange, pool>>
  BY DEF EditTrust, EditCredentials, ScalePods, Outage, TickStep, EditPolicy, EditConfigMap,
         EditEndpoints, EditSecret, RedeployPods, Change, ListPolicies, ValidatePolicy,
         SettlePolicies, ListServices, ListEndpointSlices, PublishView, RefreshClientCert, sentvars

\* The invariant holds initially and every step keeps it.
LEMMA PoolKeyedInductive ==
  /\ BTInit => PoolKeyed
  /\ PoolKeyed /\ [BTNext]_btvars => PoolKeyed'
<1>1. BTInit => PoolKeyed
  BY DEF BTInit, PoolKeyed, NoExchange
<1>2. ASSUME PoolKeyed, [BTNext]_btvars PROVE PoolKeyed'
  <2>1. CASE UNCHANGED <<exchange, pool>>
    BY <1>2, <2>1 DEF PoolKeyed, ConnectionKeyed, PeerMade, PlainPeer, PingoraTlsPeer, OwnTlsPeer,
                      ReuseKey
  <2>2. ASSUME NEW e, PickBackend(e) PROVE PoolKeyed'
    <3>1. exchange' = [phase |-> "peer", entry |-> e] /\ pool' = pool
      BY <2>2 DEF PickBackend
    <3>2. exchange'.phase = "peer"
      BY <3>1
    <3> QED BY <1>2, <3>1, <3>2 DEF PoolKeyed
  <2>3. CASE UpstreamPeerOf
    <3>1. pool' = pool
      BY <2>3 DEF UpstreamPeerOf
    <3>2. CASE exchange' = NoExchange
      <4>1. exchange'.phase = "none"
        BY <3>2 DEF NoExchange
      <4> QED BY <1>2, <3>1, <4>1 DEF PoolKeyed
    <3>3. CASE exchange' = [phase |-> "connect", peer |-> MakePeer(exchange.entry)]
      <4>1. exchange'.phase = "connect" /\ exchange'.peer = MakePeer(exchange.entry)
        BY <3>3
      <4>2. PeerMade(exchange'.peer)
        BY <4>1, MakePeerKinds
      <4> QED BY <1>2, <3>1, <4>1, <4>2 DEF PoolKeyed
    <3> QED BY <2>3, <3>2, <3>3 DEF UpstreamPeerOf
  <2>4. ASSUME NEW c \in pool, Reuse(c) PROVE PoolKeyed'
    <3>1. /\ exchange'.phase = "sent" /\ exchange'.peer = exchange.peer /\ exchange'.conn = c
          /\ pool' \subseteq pool /\ exchange.phase = "connect" /\ c.key = ReuseKey(exchange.peer)
      BY <2>4 DEF Reuse
    <3> QED BY <1>2, <3>1 DEF PoolKeyed
  <2>5. CASE Connect
    <3>1. pool' = pool /\ exchange.phase = "connect"
      BY <2>5 DEF Connect
    <3>2. CASE exchange' = NoExchange
      <4>1. exchange'.phase = "none"
        BY <3>2 DEF NoExchange
      <4> QED BY <1>2, <3>1, <4>1 DEF PoolKeyed
    <3>3. CASE exchange' = [phase |-> "sent", peer |-> exchange.peer,
                            conn |-> [key |-> ReuseKey(exchange.peer), peer |-> exchange.peer]]
      <4>1. /\ exchange'.phase = "sent" /\ exchange'.peer = exchange.peer
            /\ exchange'.conn.key = ReuseKey(exchange.peer) /\ exchange'.conn.peer = exchange.peer
        BY <3>3
      <4> QED BY <1>2, <3>1, <4>1 DEF PoolKeyed, ConnectionKeyed
    <3> QED BY <2>5, <3>2, <3>3 DEF Connect
  <2>6. CASE Finish
    <3>1. exchange'.phase = "none" /\ exchange.phase = "sent"
          /\ pool' \in {pool, pool \cup {exchange.conn}}
      BY <2>6 DEF Finish, NoExchange
    <3> QED BY <1>2, <3>1 DEF PoolKeyed
  <2>7. CASE UNCHANGED btvars
    BY <2>1, <2>7 DEF btvars, sentvars
  <2> QED BY <1>2, <2>1, <2>2, <2>3, <2>4, <2>5, <2>6, <2>7, OthersKeepConnections
          DEF BTNext, Upstream, RequestTo
<1> QED BY <1>1, <1>2

\* ExchangesVerified: for all policies, backends and certificates, and whatever is edited, listed
\* or lost meanwhile, a request is sent on a connection that was established for exactly the
\* address, CA bundle, host name, SANs and client certificate of its own plan (make_peer,
\* trust_hash and Pingora's reuse of pooled connections).
THEOREM ExchangesAlwaysVerified == BTSpec => []ExchangesVerified
<1>1. PoolKeyed => ExchangesVerified
  BY SameKeySameTrust DEF PoolKeyed, ConnectionKeyed, ExchangesVerified
<1> QED BY <1>1, PoolKeyedInductive, PTL DEF BTSpec

-----------------------------------------------------------------------------
(* The rate limiter. *)

Calls == {Idle} \cup [pc : {"lock"}, key : Keys, now : Nat]

RLTypeOK ==
    /\ clock \in Nat
    /\ buckets \in [Keys -> [tokens : Int, last_refill : Nat]]
    /\ thread \in [Callers -> Calls]
    /\ sweep \in [now : Nat, left : SUBSET Keys]
    /\ granted \in [Keys -> Nat]
    /\ credited \in [Keys -> Nat]
    /\ rewound \in [Keys -> Nat]
    /\ evicted \in [Keys -> Nat]
    /\ promise \in [Keys -> Int]

\* No call and no sweep works with a time that is still to come.
PastOnly ==
    /\ \A t \in Callers : thread[t].pc = "lock" => thread[t].now <= clock
    /\ sweep.now <= clock
    /\ \A k \in Keys : credited[k] <= clock

\* A bucket never holds less than nothing, which also tells it from NoBucket.
NonNegative == \A k \in Keys : buckets[k] # NoBucket => buckets[k].tokens >= 0

\* A promise is kept by the bucket alone: from what it holds since its last refill
\* there is a token by the time promised.
PromiseCovered ==
    \A k \in Keys : (promise[k] # NoPromise /\ buckets[k] # NoBucket) =>
        /\ promise[k] >= buckets[k].last_refill
        /\ buckets[k].tokens + (promise[k] - buckets[k].last_refill) * Rate[TierOf(k)] >= Scale

RLInv == RLTypeOK /\ PastOnly /\ NonNegative /\ BucketAccounts /\ PromiseCovered

-----------------------------------------------------------------------------
\* Multiplication by a rate respects the order.
LEMMA Monotone ==
    ASSUME NEW r \in Nat, NEW x \in Int, NEW y \in Int, x <= y
    PROVE  r * x <= r * y
  OBVIOUS

\* RetryAfter rounds up: waiting that many seconds at the rate r makes up for the
\* missing amount m.
LEMMA RoundsUp ==
    ASSUME NEW r \in Nat \ {0}, NEW m \in Int
    PROVE  /\ (m + r - 1) \div r \in Int
           /\ ((m + r - 1) \div r) * r >= m
<1> DEFINE a == m + r - 1
           q == a \div r
<1>1. q \in Int /\ a = r * q + (a % r) /\ a % r \in 0..(r - 1)
    BY SMT
<1> QED
    BY <1>1, SMT

\* What the constants give for a tier.
LEMMA TierConstants ==
    ASSUME NEW k \in Keys
    PROVE  /\ Burst[TierOf(k)] \in Nat \ {0}
           /\ Rate[TierOf(k)] \in Nat \ {0}
           /\ Scale \in Nat \ {0}
           /\ StaleAfter \in Nat
           /\ Forgiven(TierOf(k)) \in Nat
           /\ Forgiven(TierOf(k)) >= Burst[TierOf(k)] * Scale - StaleAfter * Rate[TierOf(k)]
           /\ Burst[TierOf(k)] * Scale \in Nat
           /\ Burst[TierOf(k)] * Scale >= Scale
<1> DEFINE B == Burst[TierOf(k)]
           R == Rate[TierOf(k)]
<1>1. TierOf(k) \in Tiers
    BY DEF TierOf, Tiers
<1>2. /\ B \in Nat \ {0} /\ R \in Nat \ {0} /\ Scale \in Nat \ {0} /\ StaleAfter \in Nat
    BY <1>1, BucketAssumption
<1>0. Forgiven(TierOf(k)) = MaxI(0, B * Scale - StaleAfter * R)
    BY DEF Forgiven
<1> HIDE DEF B, R
<1>3. B * Scale \in Nat /\ B * Scale >= Scale /\ StaleAfter * R \in Nat
    BY <1>2, SMT
<1>4. /\ MaxI(0, B * Scale - StaleAfter * R) \in Nat
      /\ MaxI(0, B * Scale - StaleAfter * R) >= B * Scale - StaleAfter * R
    BY <1>3 DEF MaxI
<1> QED
    BY <1>0, <1>2, <1>3, <1>4 DEF B, R

\* What evictions have given a key is a number.
LEMMA GivenAway ==
    ASSUME RLTypeOK, NEW k \in Keys
    PROVE  evicted[k] * Forgiven(TierOf(k)) \in Nat
<1>1. evicted[k] \in Nat /\ Forgiven(TierOf(k)) \in Nat
    BY TierConstants DEF RLTypeOK
<1> QED
    BY <1>1

\* The values of MinI and MaxI are among their arguments, and bound them.
LEMMA MinMax ==
    ASSUME NEW a \in Int, NEW b \in Int
    PROVE  /\ MinI(a, b) \in {a, b} /\ MinI(a, b) <= a /\ MinI(a, b) <= b
           /\ MaxI(a, b) \in {a, b} /\ MaxI(a, b) >= a /\ MaxI(a, b) >= b
  BY DEF MinI, MaxI

\* The bucket that check() works on, of a key whose accounts are in order: refilled
\* it is within its burst, and the key's accounts hold for the time `now`, although
\* that may lie before the last refill.
LEMMA Refilled ==
    ASSUME RLInv, NEW k \in Keys, NEW now \in Nat
    PROVE  LET b == Refill(BucketOf(k, now), TierOf(k), now)
               w == rewound[k] + MaxI(0, credited[k] - now)
           IN  /\ b \in [tokens : Int, last_refill : Nat]
               /\ b.last_refill = now
               /\ b.tokens >= 0
               /\ b.tokens <= Burst[TierOf(k)] * Scale
               /\ w \in Nat
               /\ granted[k] * Scale + b.tokens <=
                     Burst[TierOf(k)] * Scale + Rate[TierOf(k)] * (now + w)
                         + evicted[k] * Forgiven(TierOf(k))
<1> DEFINE b == Refill(BucketOf(k, now), TierOf(k), now)
           w == rewound[k] + MaxI(0, credited[k] - now)
           B == Burst[TierOf(k)] * Scale
           R == Rate[TierOf(k)]
           g == granted[k] * Scale
           c == credited[k]
           f == evicted[k] * Forgiven(TierOf(k))
           old == BucketOf(k, now)
           gain == MaxI(0, now - old.last_refill)
<1>1. /\ B \in Nat /\ R \in Nat \ {0} /\ g \in Int /\ c \in Nat /\ rewound[k] \in Nat /\ f \in Nat
    BY TierConstants, GivenAway DEF RLInv, RLTypeOK
<1>2. /\ w \in Nat /\ w >= rewound[k] /\ now + w >= c + rewound[k]
      /\ now >= c => now + w = now + rewound[k]
      /\ now < c => now + w = c + rewound[k]
    BY <1>1 DEF MaxI
<1>3. /\ old.tokens \in Int /\ old.last_refill \in Nat
      /\ old.tokens >= 0 /\ old.tokens <= B
  <2>1. CASE buckets[k] = NoBucket
    BY <2>1, <1>1 DEF BucketOf
  <2>2. CASE buckets[k] # NoBucket
    BY <2>2, <1>1 DEF BucketOf, RLInv, RLTypeOK, NonNegative, BucketAccounts
  <2> QED BY <2>1, <2>2
<1>4. g + old.tokens + gain * R <= B + R * (now + w) + f
  <2>1. CASE buckets[k] = NoBucket
    <3>1. old.tokens = B /\ gain = 0
        BY <2>1 DEF BucketOf, MaxI
    <3>2. g <= R * (c + rewound[k]) + f
        BY <2>1 DEF RLInv, BucketAccounts
    <3>3. R * (c + rewound[k]) <= R * (now + w)
        BY <1>1, <1>2, Monotone
    <3> HIDE DEF B, R, g, c, f, gain, old, w
    <3>4. R * (c + rewound[k]) \in Int /\ R * (now + w) \in Int /\ gain * R = 0
        BY <1>1, <1>2, <3>1
    <3> QED
        BY <1>1, <3>1, <3>2, <3>3, <3>4
  <2>2. CASE buckets[k] # NoBucket
    <3>1. /\ old.last_refill = c
          /\ g + old.tokens <= B + R * (c + rewound[k]) + f
        BY <2>2 DEF RLInv, BucketAccounts, BucketOf
    <3>2. gain = IF now >= c THEN now - c ELSE 0
        BY <3>1, <1>1 DEF MaxI
    <3> HIDE DEF B, R, g, c, f, gain, old, w
    <3>3. now + w = c + rewound[k] + gain
        BY <1>1, <1>2, <3>2
    <3>4. gain \in Nat
        BY <1>1, <3>2
    <3>5. R * (now + w) = R * (c + rewound[k]) + gain * R
        BY <1>1, <3>3, <3>4
    <3>6. R * (c + rewound[k]) \in Int /\ gain * R \in Int
        BY <1>1, <3>4
    <3> QED
        BY <1>1, <1>3, <3>1, <3>5, <3>6
  <2> QED BY <2>1, <2>2
<1>5. /\ b.tokens = MinI(old.tokens + gain * R, B) /\ b.last_refill = now
      /\ b = [tokens |-> b.tokens, last_refill |-> now]
    BY DEF Refill
<1>6. gain \in Nat /\ gain * R \in Nat
  <2>1. gain \in Nat
    BY <1>3, MinMax DEF MaxI
  <2> HIDE DEF gain, R
  <2> QED BY <2>1, <1>1
<1> HIDE DEF B, R, g, c, f, gain, old, b, w
<1>7. /\ b.tokens \in Int /\ b.tokens >= 0 /\ b.tokens <= B
      /\ b.tokens <= old.tokens + gain * R
    BY <1>1, <1>3, <1>5, <1>6 DEF MinI
<1>8. g + b.tokens <= B + R * (now + w) + f
  <2>1. R * (now + w) \in Int
    BY <1>1, <1>2
  <2> QED BY <2>1, <1>1, <1>3, <1>4, <1>6, <1>7
<1> QED
  <2>1. b \in [tokens : Int, last_refill : Nat]
    BY <1>5, <1>7
  <2> QED
    BY <2>1, <1>2, <1>5, <1>7, <1>8, Zenon DEF B, R, g, b, w, f

-----------------------------------------------------------------------------
\* At the start there are no buckets and nothing is owed.
LEMMA InitRLInv == RLInit => RLInv
<1> SUFFICES ASSUME RLInit PROVE RLInv
    OBVIOUS
<1>1. RLTypeOK
    BY DEF RLInit, RLTypeOK, Calls, NoBucket, NoPromise
<1>2. PastOnly
    BY DEF RLInit, PastOnly, Idle
<1>3. NonNegative /\ PromiseCovered
    BY DEF RLInit, NonNegative, PromiseCovered
<1>4. BucketAccounts
  <2> SUFFICES ASSUME NEW k \in Keys
               PROVE  0 * Scale <= Rate[TierOf(k)] * (0 + 0) + 0 * Forgiven(TierOf(k))
    BY DEF RLInit, BucketAccounts
  <2> QED BY TierConstants
<1> QED
    BY <1>1, <1>2, <1>3, <1>4 DEF RLInv

\* check() keeps the accounts of its key, and a rejection promises enough.
LEMMA CheckRLInv ==
    ASSUME RLInv, NEW t \in Callers, Check(t)
    PROVE  RLInv'
<1> DEFINE key == thread[t].key
           now == thread[t].now
           R == Rate[TierOf(key)]
           B == Burst[TierOf(key)] * Scale
           b == Refill(BucketOf(key, now), TierOf(key), now)
           ok == b.tokens >= Scale
           w == rewound[key] + MaxI(0, credited[key] - now)
           f == evicted[key] * Forgiven(TierOf(key))
           wait == RetryAfter(b.tokens, TierOf(key))
<1>1. key \in Keys /\ now \in Nat /\ now <= clock /\ thread[t].pc = "lock"
    BY DEF RLInv, RLTypeOK, PastOnly, Calls, Check, Idle
<1>2. /\ b \in [tokens : Int, last_refill : Nat] /\ b.last_refill = now
      /\ b.tokens >= 0 /\ b.tokens <= B
      /\ w \in Nat
      /\ granted[key] * Scale + b.tokens <= B + R * (now + w) + f
    BY <1>1, Refilled, Zenon
<1>3. /\ thread' = [thread EXCEPT ![t] = Idle]
      /\ buckets' = [buckets EXCEPT ![key] = IF ok THEN [b EXCEPT !.tokens = @ - Scale] ELSE b]
      /\ granted' = [granted EXCEPT ![key] = IF ok THEN @ + 1 ELSE @]
      /\ rewound' = [rewound EXCEPT ![key] = w]
      /\ credited' = [credited EXCEPT ![key] = now]
      /\ promise' = [promise EXCEPT ![key] = IF ok THEN NoPromise ELSE now + wait]
      /\ UNCHANGED <<clock, sweep, evicted>>
    BY DEF Check
<1>4. /\ B \in Nat /\ R \in Nat \ {0} /\ Scale \in Nat \ {0} /\ B >= Scale /\ f \in Nat
    BY <1>1, TierConstants, GivenAway DEF RLInv
<1>5. /\ wait \in Nat \ {0}
      /\ b.tokens + wait * R >= Scale
  <2> DEFINE m == Scale - b.tokens
             q == (m + R - 1) \div R
  <2>2. wait = MaxI(q, 1)
    BY DEF RetryAfter
  <2> HIDE DEF wait, R, b
  <2>0. m \in Int
    BY <1>2, <1>4
  <2> HIDE DEF m
  <2>1. q \in Int /\ q * R >= m
    BY <2>0, <1>4, RoundsUp
  <2> HIDE DEF q
  <2>3. wait \in Nat \ {0} /\ q <= wait
    BY <2>1, <2>2 DEF MaxI
  <2>4. R * q <= R * wait
    BY <1>4, <2>1, <2>3, Monotone
  <2>5. b.tokens \in Int
    BY <1>2
  <2>6. R * q = q * R /\ R * wait = wait * R /\ q * R \in Int /\ wait * R \in Int
    BY <1>4, <2>1, <2>3
  <2>7. wait * R >= m
    BY <2>0, <2>1, <2>4, <2>6
  <2> QED
    BY <1>4, <2>3, <2>5, <2>6, <2>7 DEF m
<1> DEFINE left == IF ok THEN b.tokens - Scale ELSE b.tokens
<1> HIDE DEF key, now, R, B, b, w, wait, f
<1>6. /\ buckets'[key] = [tokens |-> left, last_refill |-> now]
      /\ left \in Int /\ left >= 0 /\ left <= B
      /\ buckets' \in [Keys -> [tokens : Int, last_refill : Nat]]
      /\ \A k \in Keys \ {key} : buckets'[k] = buckets[k]
    BY <1>1, <1>2, <1>3, <1>4 DEF RLInv, RLTypeOK
<1>7. /\ granted' \in [Keys -> Nat] /\ credited' \in [Keys -> Nat] /\ rewound' \in [Keys -> Nat]
      /\ promise' \in [Keys -> Int]
      /\ granted'[key] = IF ok THEN granted[key] + 1 ELSE granted[key]
      /\ credited'[key] = now /\ rewound'[key] = w
      /\ promise'[key] = IF ok THEN NoPromise ELSE now + wait
      /\ \A k \in Keys \ {key} : /\ granted'[k] = granted[k] /\ credited'[k] = credited[k]
                                 /\ rewound'[k] = rewound[k] /\ promise'[k] = promise[k]
    BY <1>1, <1>2, <1>3, <1>5 DEF RLInv, RLTypeOK, NoPromise
<1>8. RLTypeOK'
    BY <1>3, <1>6, <1>7 DEF RLInv, RLTypeOK, Calls
<1>9. PastOnly'
  <2>1. \A s \in Callers : thread'[s].pc = "lock" => thread'[s].now <= clock
    BY <1>3 DEF RLInv, RLTypeOK, PastOnly, Idle
  <2> QED
    BY <2>1, <1>1, <1>3, <1>7 DEF RLInv, PastOnly
<1>10. NonNegative'
    BY <1>6 DEF RLInv, NonNegative
<1>11. granted'[key] * Scale + left <= B + R * (now + w) + f
  <2>1. granted[key] \in Nat
    BY <1>1 DEF RLInv, RLTypeOK
  <2>2. (granted[key] + 1) * Scale = granted[key] * Scale + Scale
    BY <2>1, <1>4
  <2>3. granted[key] * Scale \in Int /\ R * (now + w) \in Int
    BY <2>1, <1>1, <1>2, <1>4
  <2> QED
    BY <2>1, <2>2, <2>3, <1>2, <1>4, <1>6, <1>7
<1>12. BucketAccounts'
  <2> SUFFICES ASSUME NEW k \in Keys
               PROVE  /\ buckets'[k] # NoBucket =>
                            /\ buckets'[k].last_refill = credited'[k]
                            /\ buckets'[k].tokens <= Burst[TierOf(k)] * Scale
                            /\ granted'[k] * Scale + buckets'[k].tokens <=
                                  Burst[TierOf(k)] * Scale + Rate[TierOf(k)] * (credited'[k] + rewound'[k])
                                      + evicted'[k] * Forgiven(TierOf(k))
                      /\ buckets'[k] = NoBucket =>
                            granted'[k] * Scale <= Rate[TierOf(k)] * (credited'[k] + rewound'[k])
                                + evicted'[k] * Forgiven(TierOf(k))
    BY DEF BucketAccounts
  <2>1. CASE k = key
    <3>1. buckets'[key] # NoBucket
        BY <1>6 DEF NoBucket
    <3> QED
        BY <2>1, <3>1, <1>3, <1>6, <1>7, <1>11 DEF B, R, f
  <2>2. CASE k # key
    BY <2>2, <1>3, <1>6, <1>7 DEF RLInv, BucketAccounts
  <2> QED BY <2>1, <2>2
<1>13. PromiseCovered'
  <2> SUFFICES ASSUME NEW k \in Keys, promise'[k] # NoPromise, buckets'[k] # NoBucket
               PROVE  /\ promise'[k] >= buckets'[k].last_refill
                      /\ buckets'[k].tokens
                            + (promise'[k] - buckets'[k].last_refill) * Rate[TierOf(k)] >= Scale
    BY DEF PromiseCovered
  <2>1. CASE k = key
    <3>1. ~ok /\ promise'[k] = now + wait
        BY <2>1, <1>7
    <3>2. promise'[k] - buckets'[k].last_refill = wait /\ buckets'[k].tokens = b.tokens
        BY <2>1, <3>1, <1>1, <1>5, <1>6
    <3> QED
        BY <2>1, <3>1, <3>2, <1>1, <1>5, <1>6 DEF R
  <2>2. CASE k # key
    BY <2>2, <1>6, <1>7 DEF RLInv, PromiseCovered
  <2> QED BY <2>1, <2>2
<1> QED
    BY <1>8, <1>9, <1>10, <1>12, <1>13 DEF RLInv

\* Evicting a bucket keeps the accounts of its key: it had been idle for StaleAfter, and
\* what it was still short of is what an eviction is said to give away.
LEMMA SweepShardRLInv ==
    ASSUME RLInv, NEW key \in Keys, SweepShard(key)
    PROVE  RLInv'
<1> DEFINE gone == buckets[key] # NoBucket /\ IsStale(buckets[key], sweep.now)
           R == Rate[TierOf(key)]
           B == Burst[TierOf(key)] * Scale
           g == granted[key] * Scale
           c == credited[key]
           v == rewound[key]
           e == evicted[key]
           S == Forgiven(TierOf(key))
           till == MaxI(credited[key], sweep.now)
<1>1. /\ sweep' = [sweep EXCEPT !.left = @ \ {key}]
      /\ buckets' = IF gone THEN [buckets EXCEPT ![key] = NoBucket] ELSE buckets
      /\ credited' = IF gone THEN [credited EXCEPT ![key] = till] ELSE credited
      /\ evicted' = IF gone THEN [evicted EXCEPT ![key] = @ + 1] ELSE evicted
      /\ UNCHANGED <<clock, thread, granted, rewound, promise>>
    BY DEF SweepShard
<1>2. sweep.now \in Nat /\ c \in Nat /\ till \in Nat /\ till >= c /\ till >= sweep.now /\ till <= clock
    BY DEF RLInv, RLTypeOK, PastOnly, MaxI
<1>3. RLTypeOK'
  <2>1. buckets' \in [Keys -> [tokens : Int, last_refill : Nat]]
    BY <1>1 DEF RLInv, RLTypeOK, NoBucket
  <2>2. credited' \in [Keys -> Nat] /\ evicted' \in [Keys -> Nat]
    BY <1>1, <1>2 DEF RLInv, RLTypeOK
  <2> QED
    BY <2>1, <2>2, <1>1 DEF RLInv, RLTypeOK
<1>4. PastOnly'
    BY <1>1, <1>2 DEF RLInv, RLTypeOK, PastOnly
<1>5. NonNegative' /\ PromiseCovered'
    BY <1>1 DEF RLInv, RLTypeOK, NonNegative, PromiseCovered
<1>6. ASSUME gone PROVE g <= R * (till + v) + (e + 1) * S
  <2>1. /\ R \in Nat \ {0} /\ B \in Nat /\ StaleAfter \in Nat /\ S \in Nat /\ S >= B - StaleAfter * R
    BY TierConstants
  <2>2. /\ g \in Int /\ c \in Nat /\ v \in Nat /\ e \in Nat
    BY TierConstants DEF RLInv, RLTypeOK
  <2>3. /\ buckets[key].last_refill = c /\ buckets[key].tokens \in Int /\ buckets[key].tokens >= 0
        /\ g + buckets[key].tokens <= B + R * (c + v) + e * S
    BY <1>6 DEF RLInv, RLTypeOK, NonNegative, BucketAccounts
  <2>4. till - c >= StaleAfter
    BY <1>6, <1>2, <2>1, <2>2, <2>3 DEF IsStale, MaxI
  <2> HIDE DEF R, B, g, c, v, e, S, till
  <2>5. c + v + StaleAfter <= till + v
    BY <1>2, <2>1, <2>2, <2>4
  <2>6. R * (c + v + StaleAfter) <= R * (till + v)
    BY <1>2, <2>1, <2>2, <2>5, Monotone
  <2>7. /\ R * (c + v + StaleAfter) = R * (c + v) + StaleAfter * R
        /\ R * (c + v) \in Int /\ StaleAfter * R \in Int /\ R * (till + v) \in Int
    BY <1>2, <2>1, <2>2
  <2>8. (e + 1) * S = e * S + S /\ e * S \in Int
    BY <2>1, <2>2
  <2> QED
    BY <2>1, <2>2, <2>3, <2>6, <2>7, <2>8
<1>7. BucketAccounts'
  <2> SUFFICES ASSUME NEW k \in Keys
               PROVE  /\ buckets'[k] # NoBucket =>
                            /\ buckets'[k].last_refill = credited'[k]
                            /\ buckets'[k].tokens <= Burst[TierOf(k)] * Scale
                            /\ granted'[k] * Scale + buckets'[k].tokens <=
                                  Burst[TierOf(k)] * Scale + Rate[TierOf(k)] * (credited'[k] + rewound'[k])
                                      + evicted'[k] * Forgiven(TierOf(k))
                      /\ buckets'[k] = NoBucket =>
                            granted'[k] * Scale <= Rate[TierOf(k)] * (credited'[k] + rewound'[k])
                                + evicted'[k] * Forgiven(TierOf(k))
    BY DEF BucketAccounts
  <2>1. CASE gone /\ k = key
    <3>1. /\ buckets'[k] = NoBucket /\ credited'[k] = till /\ evicted'[k] = e + 1
          /\ granted'[k] = granted[k] /\ rewound'[k] = rewound[k]
        BY <2>1, <1>1 DEF RLInv, RLTypeOK
    <3> QED
        BY <2>1, <3>1, <1>6
  <2>2. CASE ~(gone /\ k = key)
    <3>1. /\ buckets'[k] = buckets[k] /\ credited'[k] = credited[k]
          /\ granted'[k] = granted[k] /\ rewound'[k] = rewound[k] /\ evicted'[k] = evicted[k]
        BY <2>2, <1>1 DEF RLInv, RLTypeOK
    <3> QED
        BY <3>1 DEF RLInv, BucketAccounts
  <2> QED BY <2>1, <2>2
<1> QED
    BY <1>3, <1>4, <1>5, <1>7 DEF RLInv

\* Every step of a thread, of the sweep and of the clock keeps the invariant.
LEMMA NextRLInv == RLInv /\ [RLNext]_rlvars => RLInv'
<1> SUFFICES ASSUME RLInv, [RLNext]_rlvars PROVE RLInv'
    OBVIOUS
<1>1. ASSUME UNCHANGED <<buckets, granted, credited, rewound, evicted, promise>>
      PROVE  NonNegative' /\ BucketAccounts' /\ PromiseCovered'
    BY <1>1 DEF RLInv, NonNegative, BucketAccounts, PromiseCovered
<1>2. ASSUME NEW t \in Callers, NEW c \in Clients, Begin(t, c) PROVE RLInv'
  <2>1. UNCHANGED <<clock, buckets, sweep, granted, credited, rewound, evicted, promise>>
    BY <1>2 DEF Begin
  <2>2. CASE IsBypassed(c.ip)
    BY <1>1, <1>2, <2>1, <2>2 DEF Begin, RLInv, RLTypeOK, PastOnly
  <2>3. CASE ~IsBypassed(c.ip)
    <3>1. thread' = [thread EXCEPT ![t] = [pc |-> "lock", key |-> ExtractKey(c), now |-> clock]]
        BY <1>2, <2>3 DEF Begin
    <3>2. ExtractKey(c) \in Keys
        BY <2>3 DEF Keys
    <3>3. RLTypeOK'
        BY <2>1, <3>1, <3>2 DEF RLInv, RLTypeOK, Calls
    <3>4. PastOnly'
        BY <2>1, <3>1 DEF RLInv, RLTypeOK, PastOnly
    <3> QED
        BY <1>1, <2>1, <3>3, <3>4 DEF RLInv
  <2> QED BY <2>2, <2>3
<1>3. ASSUME NEW t \in Callers, Check(t) PROVE RLInv'
    BY <1>3, CheckRLInv
<1>4. CASE StartSweep
  <2>1. RLTypeOK'
    BY <1>4 DEF StartSweep, RLInv, RLTypeOK
  <2>2. PastOnly'
    BY <1>4 DEF StartSweep, RLInv, RLTypeOK, PastOnly
  <2> QED
    BY <1>1, <1>4, <2>1, <2>2 DEF StartSweep, RLInv
<1>5. ASSUME NEW k \in Keys, SweepShard(k) PROVE RLInv'
    BY <1>5, SweepShardRLInv
<1>6. CASE Second
  <2>1. RLTypeOK' /\ PastOnly'
    BY <1>6 DEF Second, RLInv, RLTypeOK, PastOnly, Calls, Idle
  <2> QED
    BY <1>1, <1>6, <2>1 DEF Second, RLInv
<1>7. CASE UNCHANGED rlvars
    BY <1>1, <1>7 DEF rlvars, RLInv, RLTypeOK, PastOnly
<1> QED
    BY <1>2, <1>3, <1>4, <1>5, <1>6, <1>7 DEF RLNext

\* The limiter's accounts are in order in every reachable state: what a key was
\* granted and what its bucket holds is covered by its burst, the time credited and
\* what its evictions gave away.
THEOREM LimiterInvariant == RLSpec => []RLInv
  BY InitRLInv, NextRLInv, PTL DEF RLSpec

-----------------------------------------------------------------------------
\* However the threads that wait for a shard get its lock and whenever the sweep
\* evicts, check() grants a key no more than its burst, its rate over the time
\* passed, what was credited twice for time moved back, and for each eviction what a
\* burst takes longer to refill than stale_after_secs.
THEOREM GrantsBoundedTheorem == RLSpec => []GrantsBounded
<1>1. RLInv => GrantsBounded
  <2> SUFFICES ASSUME RLInv, NEW k \in Keys
               PROVE  granted[k] * Scale <=
                          Burst[TierOf(k)] * Scale + Rate[TierOf(k)] * (clock + rewound[k])
                              + evicted[k] * Forgiven(TierOf(k))
    BY DEF GrantsBounded
  <2> DEFINE R == Rate[TierOf(k)]
             B == Burst[TierOf(k)] * Scale
             g == granted[k] * Scale
             c == credited[k]
             v == rewound[k]
             f == evicted[k] * Forgiven(TierOf(k))
  <2>1. /\ R \in Nat /\ B \in Nat /\ g \in Int /\ c \in Nat /\ v \in Nat /\ clock \in Nat /\ c <= clock
        /\ f \in Nat
    BY TierConstants, GivenAway DEF RLInv, RLTypeOK, PastOnly
  <2>2. g <= B + R * (c + v) + f
    <3>1. R * (c + v) \in Int
        BY <2>1
    <3>2. CASE buckets[k] = NoBucket
        BY <3>1, <3>2, <2>1 DEF RLInv, BucketAccounts
    <3>3. CASE buckets[k] # NoBucket
      <4>1. buckets[k].tokens \in Int /\ buckets[k].tokens >= 0 /\ g + buckets[k].tokens <= B + R * (c + v) + f
        BY <3>3 DEF RLInv, RLTypeOK, NonNegative, BucketAccounts
      <4> HIDE DEF R, B, g, c, v, f
      <4> QED BY <4>1, <3>1, <2>1
    <3> QED BY <3>2, <3>3
  <2> HIDE DEF R, B, g, c, v, f
  <2>3. R * (c + v) <= R * (clock + v)
    BY <2>1, Monotone
  <2>4. R * (c + v) \in Int /\ R * (clock + v) \in Int
    BY <2>1
  <2>5. g <= B + R * (clock + v) + f
    BY <2>1, <2>2, <2>3, <2>4
  <2> QED
    BY <2>5 DEF R, B, g, v, f
<1> QED
    BY <1>1, LimiterInvariant, PTL

\* A client that check() rejected and that waits for the retry_after it was given
\* finds a token, whatever the sweep has evicted meanwhile.
THEOREM RetryAfterTheorem == RLSpec => []RetryAfterSuffices
<1>1. RLInv => RetryAfterSuffices
  <2> SUFFICES ASSUME RLInv, NEW k \in Keys, promise[k] # NoPromise, clock >= promise[k]
               PROVE  Refill(BucketOf(k, clock), TierOf(k), clock).tokens >= Scale
    BY DEF RetryAfterSuffices
  <2> DEFINE R == Rate[TierOf(k)]
             B == Burst[TierOf(k)] * Scale
             old == BucketOf(k, clock)
             gain == MaxI(0, clock - old.last_refill)
  <2>1. R \in Nat \ {0} /\ B \in Nat /\ Scale \in Nat \ {0} /\ B >= Scale /\ clock \in Nat /\ promise[k] \in Int
    BY TierConstants DEF RLInv, RLTypeOK
  <2>2. Refill(old, TierOf(k), clock).tokens = MinI(old.tokens + gain * R, B)
    BY DEF Refill
  <2>3. /\ old.tokens \in Int /\ gain \in Nat
        /\ old.tokens + gain * R >= Scale
    <3>1. CASE buckets[k] = NoBucket
      <4>1. old.tokens = B /\ old.last_refill = clock
        BY <3>1 DEF BucketOf
      <4>2. gain = 0
        BY <4>1, <2>1 DEF MaxI
      <4> HIDE DEF old, gain, R, B
      <4>3. gain * R = 0
        BY <4>2, <2>1
      <4> QED
        BY <4>1, <4>2, <4>3, <2>1
    <3>2. CASE buckets[k] # NoBucket
      <4> DEFINE d == promise[k] - old.last_refill
      <4>1. /\ old.tokens \in Int /\ old.last_refill \in Nat
            /\ d >= 0 /\ old.tokens + d * R >= Scale
        BY <3>2, <2>1 DEF BucketOf, RLInv, RLTypeOK, PromiseCovered
      <4>2. d \in Int /\ gain \in Nat /\ d <= gain
        BY <4>1, <2>1 DEF MaxI
      <4> HIDE DEF old, gain, R, B, d
      <4>3. R * d <= R * gain
        BY <4>2, <2>1, Monotone
      <4>4. R * d = d * R /\ R * gain = gain * R /\ d * R \in Int /\ gain * R \in Int
        BY <4>2, <2>1
      <4> QED
        BY <4>1, <4>2, <4>3, <4>4, <2>1
    <3> QED BY <3>1, <3>2
  <2>4. gain * R \in Int
    <3> HIDE DEF gain, R
    <3> QED BY <2>1, <2>3
  <2> HIDE DEF gain, R, B, old
  <2>5. MinI(old.tokens + gain * R, B) >= Scale
    BY <2>1, <2>3, <2>4 DEF MinI
  <2> QED
    BY <2>2, <2>5 DEF old
<1> QED
    BY <1>1, LimiterInvariant, PTL

=============================================================================

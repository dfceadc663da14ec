---------------------------- MODULE BotAllowlist ----------------------------
(***************************************************************************)
(* The bot allowlist of scanner/allowlist.rs: a request whose User-Agent   *)
(* names a known bot skips the scanner model once its address is verified, *)
(* by network or by reverse and forward DNS.  DNS is asked by a background *)
(* thread, which request threads reach through a queue and a cache with a  *)
(* time to live.                                                           *)
(*                                                                         *)
(* A rule is the set of agents its prefix accepts, its networks (the       *)
(* addresses they hold) and its DNS suffixes.  Host names and suffixes are *)
(* sequences of characters or longer pieces.  `evict_stale` has no caller  *)
(* and is not an action.                                                   *)
(***************************************************************************)
EXTENDS Integers, Sequences, SequencesExt

CONSTANTS
    Rules,      \* the configured rules, in order
    Agents,     \* User-Agent values
    Addresses,  \* client addresses
    Hosts,      \* host names that DNS may answer
    CacheTtl,   \* bot_cache_ttl_secs
    MaxTime,    \* bound of the clock
    MaxPending, \* bound of the queue, unbounded in the code
    MaxEdits    \* bound of the changes to DNS

ASSUME RulesAssumption ==
    \A i \in DOMAIN Rules : Rules[i].agents \subseteq Agents

VARIABLES
    verified_cache, \* the cached entry of each address, or NoEntry
    pending_tx,     \* the queue of verifications
    lookup,         \* the verification in progress: its step, address, rule and host name
    time,
    names,          \* reverse DNS: the host name of each address, or NoName
    addrs,          \* forward DNS: the addresses of each host name
    reversed,       \* {<<address, host, time>>}: what reverse DNS has answered
    resolved,       \* {<<host, address, time>>}: what forward DNS has answered
    edits           \* changes made to DNS

bavars == <<verified_cache, pending_tx, lookup, time, names, addrs, reversed, resolved, edits>>

NoEntry == [rule |-> 0]
NoName == <<>>
NoRule == 0
NoLookup == [step |-> "idle"]

-----------------------------------------------------------------------------
\* The first rule that accepts the agent: `check` returns from it in every case.
RuleFor(agent) ==
    LET accepting == {i \in DOMAIN Rules : agent \in Rules[i].agents}
    IN  IF accepting = {} THEN NoRule ELSE CHOOSE i \in accepting : \A j \in accepting : i <= j

Fresh(entry) == entry # NoEntry /\ time - entry.created < CacheTtl

\* Mutant of VerifiedFor: any verified bot may pose as any other.
VerifiedForAny(entry, rule) == entry.verified

VerifiedFor(entry, rule) == entry.verified /\ entry.rule = rule

\* What `check` decides: to skip the scanner, not to, or not yet and to ask DNS.
Decision(rule, ip) ==
    LET r == Rules[rule]
        entry == verified_cache[ip]
    IN  CASE rule = NoRule -> "none"
          [] rule # NoRule /\ r.cidrs = {} /\ r.suffixes = {} -> "agent"
          [] rule # NoRule /\ ip \in r.cidrs -> "network"
          [] rule # NoRule /\ ip \notin r.cidrs /\ r.cidrs # {} /\ r.suffixes = {} -> "none"
          [] rule # NoRule /\ ip \notin r.cidrs /\ r.suffixes # {} ->
                IF Fresh(entry)
                THEN IF VerifiedFor(entry, rule) THEN "dns" ELSE "none"
                ELSE "ask"

\* What reverse and forward DNS answer at time t.
NameAnswers(reverse, t) == {<<ip, reverse[ip], t>> : ip \in Addresses}
AddressAnswers(forward, t) == UNION {{<<h, ip, t>> : ip \in forward[h]} : h \in Hosts}

BAInit ==
    /\ verified_cache = [ip \in Addresses |-> NoEntry]
    /\ pending_tx = <<>>
    /\ lookup = NoLookup
    /\ time = 0
    /\ names \in [Addresses -> Hosts \cup {NoName}]
    /\ addrs \in [Hosts -> SUBSET Addresses]
    /\ reversed = NameAnswers(names, 0)
    /\ resolved = AddressAnswers(addrs, 0)
    /\ edits = 0

\* BotAllowlist::check by a request thread.  Only a decision to ask DNS changes state; the
\* others are answers, which the property reads off Decision.
CheckBot(agent, ip) ==
    /\ Decision(RuleFor(agent), ip) = "ask"
    /\ Len(pending_tx) < MaxPending
    /\ pending_tx' = Append(pending_tx, [ip |-> ip, rule |-> RuleFor(agent)])
    /\ UNCHANGED <<verified_cache, lookup, time, names, addrs, reversed, resolved, edits>>

\* The worker takes a request, and drops it if another one has been answered meanwhile.
TakeRequest ==
    /\ lookup = NoLookup
    /\ pending_tx # <<>>
    /\ pending_tx' = Tail(pending_tx)
    /\ LET req == Head(pending_tx)
       IN  lookup' = IF Fresh(verified_cache[req.ip])
                     THEN NoLookup
                     ELSE [step |-> "reverse", ip |-> req.ip, rule |-> req.rule]
    /\ UNCHANGED <<verified_cache, time, names, addrs, reversed, resolved, edits>>

\* hostname.ends_with(s) || hostname.ends_with(".s"), for one of the suffixes.
SuffixMatches(host, rule) ==
    \E s \in Rules[rule].suffixes : IsSuffix(s, host) \/ IsSuffix(<<".">> \o s, host)

Store(ip, rule, verified) ==
    verified_cache' = [verified_cache EXCEPT ![ip] =
        [rule |-> rule, verified |-> verified, created |-> time]]

\* verify_dns, step 1 and 2: the reverse lookup, which may fail, and the suffix test.
ReverseLookup ==
    /\ lookup.step = "reverse"
    /\ \E host \in {names[lookup.ip], NoName} :
          IF host # NoName /\ SuffixMatches(host, lookup.rule)
          THEN /\ lookup' = [step |-> "forward", ip |-> lookup.ip, rule |-> lookup.rule, host |-> host]
               /\ UNCHANGED verified_cache
          ELSE /\ Store(lookup.ip, lookup.rule, FALSE)
               /\ lookup' = NoLookup
    /\ UNCHANGED <<pending_tx, time, names, addrs, reversed, resolved, edits>>

\* verify_dns, step 3, and the worker's insert: the forward lookup, which may fail.
ForwardLookup ==
    /\ lookup.step = "forward"
    /\ \E found \in {addrs[lookup.host], {}} :
          Store(lookup.ip, lookup.rule, lookup.ip \in found)
    /\ lookup' = NoLookup
    /\ UNCHANGED <<pending_tx, time, names, addrs, reversed, resolved, edits>>

\* What DNS answers is remembered for the property only.
Remember(t, reverse, forward) ==
    /\ reversed' = reversed \cup NameAnswers(reverse, t)
    /\ resolved' = resolved \cup AddressAnswers(forward, t)

\* The owners of the zones change an answer.
EditDns ==
    /\ edits < MaxEdits
    /\ edits' = edits + 1
    /\ \/ \E ip \in Addresses, h \in Hosts \cup {NoName} :
             names' = [names EXCEPT ![ip] = h] /\ addrs' = addrs
       \/ \E h \in Hosts, ips \in SUBSET Addresses :
             addrs' = [addrs EXCEPT ![h] = ips] /\ names' = names
    /\ Remember(time, names', addrs')
    /\ UNCHANGED <<verified_cache, pending_tx, lookup, time>>

\* Time passes.
TimePasses ==
    /\ time < MaxTime
    /\ time' = time + 1
    /\ Remember(time', names, addrs)
    /\ UNCHANGED <<verified_cache, pending_tx, lookup, names, addrs, edits>>

BANext ==
    \/ \E agent \in Agents, ip \in Addresses : CheckBot(agent, ip)
    \/ TakeRequest
    \/ ReverseLookup
    \/ ForwardLookup
    \/ EditDns
    \/ TimePasses

BASpec == BAInit /\ [][BANext]_bavars

-----------------------------------------------------------------------------
\* A request that skips the scanner by DNS comes from an address that DNS itself has
\* tied to the rule of its agent, both ways and in this order, less than cache_ttl ago:
\* a verification for another rule, another address or an expired one never counts,
\* however requests, the queue, the worker and changes of DNS interleave.
AllowedIsVerified ==
    \A agent \in Agents, ip \in Addresses :
        Decision(RuleFor(agent), ip) = "dns" =>
            \E host \in Hosts, t \in 0..time, u \in 0..time :
                /\ SuffixMatches(host, RuleFor(agent))
                /\ u <= t
                /\ <<ip, host, u>> \in reversed
                /\ <<host, ip, t>> \in resolved
                /\ time - t < CacheTtl

=============================================================================

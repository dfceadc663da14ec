------------------------- MODULE RequestPath_proofs -------------------------
(***************************************************************************)
(* Proofs about RequestPath.                                               *)
(*                                                                         *)
(* The pipeline, for any number of connections, source addresses,          *)
(* requests, route tables and body chunks, and for behaviours of any       *)
(* length: a request keeps its plan (PlanHolds), is told the listener and  *)
(* client of its own connection (ScopedToListener), no response made with  *)
(* captured headers is kept and none made for a user is given to a client  *)
(* without credentials (CacheImpersonal), a rewritten body loses nothing   *)
(* within the limit and no more than it past it (BodyWhole) and the gauge  *)
(* counts the requests being served (GaugeBalanced).                       *)
(*                                                                         *)
(* Most of the inductive invariant is about one request at a time and is a *)
(* predicate of its record (Sound); the steps of all phases are reduced by *)
(* PhaseStep to: one request is replaced by a sound one of the same        *)
(* origin.  What remains is about the two maps that the relays share.      *)
(*                                                                         *)
(* The lookup, for any routes of a host and any requests: the trie, its    *)
(* discriminators and the exact paths answer as a search of all rules      *)
(* would (LookupIsBest).  The invariant is that the node is one the        *)
(* attached routes compile to; the work is in the compiler and the         *)
(* lookup.  What a discriminator hides from a request does not accept it   *)
(* (NodeResolves), so that the candidates have every plan that does        *)
(* (CandidatesCover), and the first match of a sorted list is one that     *)
(* none outranks (FirstMatchIsBest).                                       *)
(***************************************************************************)
EXTENDS RequestPath, Lists_proofs

PhaseNames ==
    {"none", "filter", "unmatched", "stages", "cache", "peer", "connect", "sent", "body", "logging"}
Peers == {None, "cache", "solver", "backend", "placeholder"}
Vias == {k.via : k \in Arrivals} \cup {None}
Ports == {k.port : k \in Arrivals} \cup {0, Guess.port}
Snis == {k.sni : k \in Arrivals} \cup {None}
Schemes == {None, "http", "https", Guess.scheme}
Plans == {NoPlan} \cup {Published[i].plans[q.host] : i \in Nat, q \in Asks}

Relays ==
    [state : {"free", "connected", "copying", "ended", "removed"}, addr : Addrs \cup {Remote},
     client : Nat, via : Vias, port : Ports, sni : Snis]
Contexts == [port : Ports, secure : BOOLEAN, client : Nat]
Records ==
    [phase : PhaseNames, ask : Asks \cup {None}, addr : Addrs \cup {Remote}, from : Relays,
     seen : Nat, scheme : Schemes, port : Ports, client : Nat, plan : Plans, acme : BOOLEAN,
     authed : BOOLEAN, auth_headers : BOOLEAN, personal : BOOLEAN, caching : BOOLEAN,
     got : {None} \cup {q.credentials : q \in Asks}, answer : Nat, peer : Peers, tries : Nat,
     buffer : Seq(Nat), chunks : Nat, out : Seq(Nat), cut : BOOLEAN, failed : BOOLEAN]

\* Every variable has its type, and a request in flight was asked for.
RTypeOK ==
    /\ published \in Nat
    /\ relay \in [Slots -> Relays]
    /\ http_context \in [Addrs -> Seq(Contexts)]
    /\ sni_context \in [Addrs -> Snis]
    /\ req \in [Slots -> Records]
    /\ \A c \in Slots : req[c].phase # "none" => req[c].ask \in Asks
    /\ clients \in Nat

-----------------------------------------------------------------------------
(* What is true of each request by itself. *)

Early == {"none", "filter", "unmatched"}
Past == {"cache", "peer", "connect", "sent", "body"}

\* A plan comes from the table that was published at the filter; past the stages its auth stage
\* has let a TLS session through; only a plan with backends leads to one, and only a plan with
\* a cache to a kept response.
PlanSound(r) ==
    /\ r.plan = NoPlan \/ r.plan = Published[r.seen].plans[r.ask.host]
    /\ r.phase \in Early => r.plan = NoPlan
    /\ r.phase \in Early \cup {"stages", "cache"} => r.peer = None
    /\ r.phase \in Past \/ r.peer \in {"backend", "cache"} =>
          (r.from.via = "tls" /\ r.plan.stage = "auth" => r.authed)
    /\ r.peer = "backend" => r.plan.upstream = "backends"
    /\ r.peer = "cache" => r.plan # NoPlan

\* Until the cache is asked, the captured headers are still there for a personal request;
\* nothing is cached for one, and a hit was stored for a request with credentials exactly if
\* this one has some.
CacheSound(r) ==
    /\ r.phase \in Early \cup {"stages"} => ~r.caching /\ ~r.personal /\ ~r.auth_headers
    /\ r.phase = "cache" => ~r.caching /\ (r.personal => r.auth_headers)
    /\ r.caching => ~r.personal
    /\ r.peer = "cache" => ((r.got = None) <=> (r.ask.credentials = None))

\* The chunks of s are numbered upwards from the one after lost.
Contiguous(s, lost) == s = [i \in 1..Len(s) |-> lost + i]

\* The client has all chunks so far but the first few, which an overflow cut off; or all are
\* still held in the buffer.
BodySent(r) ==
    LET lost == r.chunks - Len(r.out)
    IN  Contiguous(r.out, lost) /\ (~r.cut => lost = 0) /\ lost \in 0..RewriteLimit
BodyHeld(r) ==
    /\ r.out = <<>> /\ ~r.cut
    /\ Contiguous(r.buffer, 0) /\ Len(r.buffer) = r.chunks /\ r.chunks <= RewriteLimit

BodySound(r) ==
    /\ r.phase \notin {"body", "logging"} =>
          r.out = <<>> /\ r.buffer = Off /\ r.chunks = 0 /\ ~r.cut
    /\ r.phase = "body" => (r.buffer = Off /\ BodySent(r)) \/ BodyHeld(r)
    /\ r.phase = "logging" /\ ~r.failed => BodySent(r)

\* The answer of a request that no filter has seen is still open.
AnswerSound(r) == r.phase = "filter" => r.answer = 0

Sound(r) == PlanSound(r) /\ CacheSound(r) /\ BodySound(r) /\ AnswerSound(r)

\* s is a later state of request r, of the same origin; it gets no 421 that r had not.
SameOrigin(r, s) ==
    /\ s.from = r.from /\ s.ask = r.ask /\ s.addr = r.addr
    /\ s.scheme = r.scheme /\ s.port = r.port /\ s.client = r.client
    /\ s.answer = 421 => r.answer = 421

\* Parts of a request that most steps leave alone.
KeepsOrigin(r, s) ==
    /\ s.from = r.from /\ s.ask = r.ask /\ s.addr = r.addr /\ s.seen = r.seen
    /\ s.scheme = r.scheme /\ s.port = r.port /\ s.client = r.client
KeepsBody(r, s) ==
    /\ s.buffer = r.buffer /\ s.chunks = r.chunks /\ s.out = r.out
    /\ s.cut = r.cut /\ s.failed = r.failed
KeepsAuth(r, s) ==
    s.authed = r.authed /\ s.auth_headers = r.auth_headers /\ s.personal = r.personal
KeepsCaching(r, s) == s.caching = r.caching /\ s.got = r.got

\* A step of a phase: the request goes on, sound and of the same origin, past the filter.
Follows(r, s) == s \in Records /\ Sound(s) /\ SameOrigin(r, s) /\ s.phase \notin {"none", "filter"}

\* A kept response is made without captured headers, and its key says whether it was made for
\* a request with credentials.
KeptClean(e) ==
    /\ ~e.personal /\ e.credentials \in {q.credentials : q \in Asks}
    /\ e.key[2] = (e.credentials # None)
CacheClean == \A e \in cache : KeptClean(e)

-----------------------------------------------------------------------------
(* What is true of the relays and their maps. *)

Registered(c) == relay[c].state \in {"copying", "ended"} /\ relay[c].addr # Remote

\* Sockets that are open at the same time have different source addresses, and only relayed
\* connections have a relay.
AddressesDistinct ==
    /\ \A c, d \in Slots : relay[c].state # "free" /\ relay[d].state # "free"
          /\ relay[c].addr = relay[d].addr /\ relay[c].addr # Remote => c = d
    /\ \A c \in Slots : relay[c].state # "free" =>
          ((relay[c].addr = Remote) <=> (relay[c].via \in {"direct", "tls"}))
    /\ \A c \in Slots : relay[c].state \in {"connected", "removed"} => relay[c].addr # Remote

\* What a relay tells the proxy about its connection.
Entry(r) == <<[port |-> r.port, secure |-> r.via = "terminate", client |-> r.client]>>

\* The entry of a registered relay is its own, and an SNI entry belongs to the relay that is
\* registered under its address.
MapsOwned ==
    /\ \A c \in Slots : Registered(c) => http_context[relay[c].addr] = Entry(relay[c])
    /\ \A a \in Addrs : sni_context[a] # None =>
          \E c \in Slots : /\ Registered(c) /\ relay[c].addr = a /\ relay[c].via = "terminate"
                           /\ relay[c].sni = sni_context[a]

\* A request was sent on the connection of its slot, and none before the relay copies.
OnItsConnection ==
    /\ \A c \in Slots : req[c].phase # "none" /\ relay[c].state = "copying" =>
          req[c].from = relay[c] /\ req[c].addr = relay[c].addr
    /\ \A c \in Slots : relay[c].state = "connected" => req[c].phase = "none"

RInv ==
    /\ RTypeOK
    /\ \A c \in Slots : Sound(req[c])
    /\ CacheClean
    /\ AddressesDistinct /\ MapsOwned /\ OnItsConnection
    /\ ScopedToListener

-----------------------------------------------------------------------------
(* Lemmas about single requests. *)

\* No chunks are contiguous.
LEMMA ContiguousEmpty == Len(<<>>) = 0 /\ Contiguous(<<>>, 0)
<1>1. Len(<<>>) = 0
  OBVIOUS
<1>2. <<>> = [i \in 1..0 |-> 0 + i]
  OBVIOUS
<1> QED BY <1>1, <1>2 DEF Contiguous

\* A request without any chunk has its whole body.
LEMMA EmptyBodySent ==
  ASSUME NEW r, r.out = <<>>, r.chunks = 0
  PROVE  BodySent(r)
<1> DEFINE out == r.out
<1>1. out = <<>>
  OBVIOUS
<1> HIDE DEF out
<1>2. Len(out) = 0
  BY <1>1
<1>3. Contiguous(out, 0)
  BY <1>1, ContiguousEmpty
<1>4. 0 - Len(out) = 0 /\ 0 \in 0..RewriteLimit
  BY <1>2, PipelineAssumption
<1> QED BY <1>3, <1>4 DEF BodySent, out

\* The chunks in a buffer are numbered from 1, so it is not Off.
LEMMA HeldNotOff ==
  ASSUME NEW b \in Seq(Nat), Contiguous(b, 0)
  PROVE  b # Off
<1> SUFFICES ASSUME b = Off PROVE FALSE
  OBVIOUS
<1>1. Len(b) = 1 /\ b[1] = 0
  BY DEF Off
<1>2. b[1] = 0 + 1
  <2>1. 1 \in 1..Len(b)
    BY <1>1
  <2> QED BY <2>1 DEF Contiguous
<1> QED BY <1>1, <1>2

\* The next chunk keeps a sequence of chunks contiguous.
LEMMA ContiguousNext ==
  ASSUME NEW s \in Seq(Nat), NEW lost \in Nat, Contiguous(s, lost)
  PROVE  /\ s \o <<lost + Len(s) + 1>> \in Seq(Nat)
         /\ Len(s \o <<lost + Len(s) + 1>>) = Len(s) + 1
         /\ Contiguous(s \o <<lost + Len(s) + 1>>, lost)
<1> DEFINE n == lost + Len(s) + 1
           t == s \o <<n>>
<1>1. Len(s) \in Nat /\ n \in Nat /\ <<n>> \in Seq(Nat)
  OBVIOUS
<1>2. t \in Seq(Nat) /\ Len(t) = Len(s) + 1
  BY <1>1
<1>3. \A i \in 1..Len(t) : t[i] = lost + i
  <2> SUFFICES ASSUME NEW i \in 1..Len(t) PROVE t[i] = lost + i
    OBVIOUS
  <2>1. CASE i <= Len(s)
    <3>1. i \in 1..Len(s) /\ t[i] = s[i]
      BY <1>1, <1>2, <2>1
    <3>2. s[i] = lost + i
      BY <3>1 DEF Contiguous
    <3> QED BY <3>1, <3>2
  <2>2. CASE i = Len(s) + 1
    <3>1. t[i] = n
      BY <1>1, <2>2
    <3> QED BY <2>2, <3>1
  <2> QED BY <1>1, <1>2, <2>1, <2>2
<1>4. DOMAIN t = 1..Len(t)
  BY <1>2
<1>5. t = [i \in 1..Len(t) |-> lost + i]
  BY <1>2, <1>3, <1>4
<1> QED BY <1>2, <1>5 DEF Contiguous

\* A response header is written to a sound request: nothing but the answer changes.
LEMMA WriteSteps ==
  ASSUME NEW r \in Records, NEW status \in Nat, Sound(r), r.phase # "filter"
  PROVE  /\ Write(r, status) \in Records /\ Sound(Write(r, status))
         /\ Write(r, status).phase = r.phase
         /\ status # 421 => SameOrigin(r, Write(r, status))
<1> DEFINE s == Write(r, status)
<1>1. /\ s \in Records /\ s.phase = r.phase /\ s.plan = r.plan /\ s.peer = r.peer
      /\ s.answer = IF r.answer = 0 THEN status ELSE r.answer
      /\ KeepsOrigin(r, s) /\ KeepsBody(r, s) /\ KeepsAuth(r, s) /\ KeepsCaching(r, s)
  BY DEF Write, Records, KeepsOrigin, KeepsBody, KeepsAuth, KeepsCaching
<1>2. Sound(s)
  BY <1>1 DEF Sound, PlanSound, CacheSound, BodySound, BodySent, BodyHeld, AnswerSound,
              KeepsOrigin, KeepsBody, KeepsAuth, KeepsCaching
<1>3. status # 421 => SameOrigin(r, s)
  BY <1>1 DEF SameOrigin, KeepsOrigin
<1> QED BY <1>1, <1>2, <1>3

\* A request that has not begun its body ends with all of it, which is nothing.
LEMMA EndFollows ==
  ASSUME NEW r \in Records, Sound(r), r.phase \notin {"filter", "body", "logging"}
  PROVE  Follows(r, [r EXCEPT !.phase = "logging"])
<1> DEFINE s == [r EXCEPT !.phase = "logging"]
<1>1. /\ s \in Records /\ s.phase = "logging" /\ s.plan = r.plan /\ s.peer = r.peer /\ s.answer = r.answer
      /\ KeepsOrigin(r, s) /\ KeepsBody(r, s) /\ KeepsAuth(r, s) /\ KeepsCaching(r, s)
  BY DEF Records, PhaseNames, KeepsOrigin, KeepsBody, KeepsAuth, KeepsCaching
<1> HIDE DEF s
<1>2. PlanSound(s) /\ CacheSound(s) /\ AnswerSound(s) /\ SameOrigin(r, s)
  BY <1>1 DEF Sound, PlanSound, CacheSound, AnswerSound, SameOrigin, Early, Past,
              KeepsOrigin, KeepsAuth, KeepsCaching
<1>3. s.out = <<>> /\ s.chunks = 0 /\ ~s.cut
  BY <1>1 DEF Sound, BodySound, KeepsBody
<1>4. BodySent(s)
  BY <1>3, EmptyBodySent
<1>5. Follows(r, s)
  BY <1>1, <1>2, <1>4 DEF Follows, Sound, BodySound
<1> QED BY <1>5 DEF s

\* An answer ends a request that has not begun its body.
LEMMA AnswerFollows ==
  ASSUME NEW r \in Records, NEW status \in Nat, Sound(r), status # 421,
         r.phase \notin {"filter", "body", "logging"}
  PROVE  Follows(r, Answer(r, status))
<1>1. /\ Write(r, status) \in Records /\ Sound(Write(r, status)) /\ SameOrigin(r, Write(r, status))
      /\ Write(r, status).phase = r.phase
  BY WriteSteps
<1>2. Follows(Write(r, status), Answer(r, status))
  BY <1>1, EndFollows DEF Answer
<1> QED BY <1>1, <1>2 DEF Follows, SameOrigin

\* A request that needs no auth stage, or has none to pass, reaches the cache.
LEMMA CachePhaseFollows ==
  ASSUME NEW r \in Records, Sound(r), r.phase \in {"unmatched", "stages"}, r.plan.stage # "auth"
  PROVE  Follows(r, [r EXCEPT !.phase = "cache"])
<1> DEFINE s == [r EXCEPT !.phase = "cache"]
<1>1. s \in Records /\ s.phase = "cache" /\ s.plan = r.plan /\ s.peer = r.peer
      /\ s.answer = r.answer /\ KeepsOrigin(r, s) /\ KeepsBody(r, s) /\ KeepsAuth(r, s) /\ KeepsCaching(r, s)
  BY DEF Records, PhaseNames, Peers, KeepsOrigin, KeepsBody, KeepsAuth, KeepsCaching
<1> HIDE DEF s
<1>2. Follows(r, s)
  BY <1>1 DEF Follows, SameOrigin, Sound, PlanSound, CacheSound, BodySound, AnswerSound, Early, Past,
              KeepsOrigin, KeepsBody, KeepsAuth, KeepsCaching
<1> QED BY <1>2 DEF s

\* The auth service lets a request through, with or without headers of its own.
LEMMA AuthFollows ==
  ASSUME NEW r \in Records, NEW captured \in BOOLEAN, Sound(r), r.phase = "stages"
  PROVE  Follows(r, [r EXCEPT !.authed = TRUE, !.auth_headers = captured, !.personal = captured,
                              !.phase = "cache"])
<1> DEFINE s == [r EXCEPT !.authed = TRUE, !.auth_headers = captured, !.personal = captured, !.phase = "cache"]
<1>1. s \in Records /\ s.phase = "cache" /\ s.plan = r.plan /\ s.peer = r.peer
      /\ s.answer = r.answer /\ KeepsOrigin(r, s) /\ KeepsBody(r, s) /\ KeepsCaching(r, s)
      /\ s.authed = TRUE /\ s.auth_headers = captured /\ s.personal = captured
  <2>1. s \in Records
    BY ZenonT(60) DEF Records, PhaseNames
  <2>2. /\ s.phase = "cache" /\ s.plan = r.plan /\ s.peer = r.peer /\ s.answer = r.answer
        /\ s.authed = TRUE /\ s.auth_headers = captured /\ s.personal = captured
    BY DEF Records
  <2>3. KeepsOrigin(r, s) /\ KeepsBody(r, s) /\ KeepsCaching(r, s)
    BY DEF Records, KeepsOrigin, KeepsBody, KeepsCaching
  <2> QED BY <2>1, <2>2, <2>3
<1> HIDE DEF s
<1>2. Follows(r, s)
  BY <1>1 DEF Follows, SameOrigin, Sound, PlanSound, CacheSound, BodySound, AnswerSound, Early, Past,
              KeepsOrigin, KeepsBody, KeepsAuth, KeepsCaching
<1> QED BY <1>2 DEF s

\* It lets one through whose client is gone when the 100 Continue is written.
LEMMA AuthEndFollows ==
  ASSUME NEW r \in Records, NEW captured \in BOOLEAN, Sound(r), r.phase = "stages"
  PROVE  Follows(r, [r EXCEPT !.authed = TRUE, !.auth_headers = captured, !.personal = captured,
                              !.phase = "logging"])
<1> DEFINE k == [r EXCEPT !.authed = TRUE, !.auth_headers = captured, !.personal = captured, !.phase = "cache"]
           l == [r EXCEPT !.authed = TRUE, !.auth_headers = captured, !.personal = captured, !.phase = "logging"]
<1>1. Follows(r, k)
  BY AuthFollows
<1>2. k.phase = "cache" /\ l = [k EXCEPT !.phase = "logging"]
  BY DEF Records
<1> HIDE DEF k, l
<1>3. Follows(k, l)
  BY <1>1, <1>2, EndFollows DEF Follows
<1>4. Follows(r, l)
  BY <1>1, <1>3 DEF Follows, SameOrigin
<1> QED BY <1>4 DEF l

\* request_cache_filter passes a request on that is not to be cached.
LEMMA PassCacheFollows ==
  ASSUME NEW r \in Records, Sound(r), r.phase = "cache"
  PROVE  Follows(r, [r EXCEPT !.phase = "peer"])
<1> DEFINE s == [r EXCEPT !.phase = "peer"]
<1>1. s \in Records /\ s.phase = "peer" /\ s.plan = r.plan /\ s.peer = r.peer
      /\ s.answer = r.answer /\ KeepsOrigin(r, s) /\ KeepsBody(r, s) /\ KeepsAuth(r, s) /\ KeepsCaching(r, s)
  BY DEF Records, PhaseNames, Peers, KeepsOrigin, KeepsBody, KeepsAuth, KeepsCaching
<1> HIDE DEF s
<1>2. Follows(r, s)
  BY <1>1 DEF Follows, SameOrigin, Sound, PlanSound, CacheSound, BodySound, AnswerSound, Early, Past,
              KeepsOrigin, KeepsBody, KeepsAuth, KeepsCaching
<1> QED BY <1>2 DEF s

\* It lets a request be cached only without captured headers.
LEMMA MissFollows ==
  ASSUME NEW r \in Records, Sound(r), r.phase = "cache", ~r.auth_headers
  PROVE  Follows(r, [r EXCEPT !.caching = TRUE, !.phase = "peer"])
<1> DEFINE s == [r EXCEPT !.caching = TRUE, !.phase = "peer"]
<1>1. s \in Records /\ s.phase = "peer" /\ s.plan = r.plan /\ s.peer = r.peer
      /\ s.answer = r.answer /\ KeepsOrigin(r, s) /\ KeepsBody(r, s) /\ KeepsAuth(r, s)
      /\ s.caching = TRUE /\ s.got = r.got
  BY DEF Records, PhaseNames, Peers, KeepsOrigin, KeepsBody, KeepsAuth, KeepsCaching
<1> HIDE DEF s
<1>2. Follows(r, s)
  BY <1>1 DEF Follows, SameOrigin, Sound, PlanSound, CacheSound, BodySound, AnswerSound, Early, Past,
              KeepsOrigin, KeepsBody, KeepsAuth, KeepsCaching
<1> QED BY <1>2 DEF s

\* A hit answers from the cache with a response kept for a request with credentials, if this
\* one has some.
LEMMA HitFollows ==
  ASSUME NEW r \in Records, Sound(r), r.phase = "cache", r.plan # NoPlan,
         NEW got \in {q.credentials : q \in Asks}, (got = None) <=> (r.ask.credentials = None)
  PROVE  Follows(r, [Answer(r, 200) EXCEPT !.peer = "cache", !.got = got])
<1> DEFINE a == Answer(r, 200)
           s == [a EXCEPT !.peer = "cache", !.got = got]
<1>1. Follows(r, a) /\ a.phase = "logging" /\ a.plan = r.plan /\ a.authed = r.authed
  <2>1. Write(r, 200) \in Records
    BY WriteSteps
  <2>2. a.phase = "logging"
    BY <2>1 DEF Answer, Records
  <2>3. a.plan = r.plan /\ a.authed = r.authed
    BY DEF Answer, Write, Records
  <2> QED BY <2>2, <2>3, AnswerFollows
<1>2. a \in Records /\ Sound(a) /\ SameOrigin(r, a)
  BY <1>1 DEF Follows
<1> HIDE DEF a
<1>3. /\ s \in Records /\ s.phase = a.phase /\ s.plan = a.plan /\ s.answer = a.answer
      /\ KeepsOrigin(a, s) /\ KeepsBody(a, s) /\ KeepsAuth(a, s)
      /\ s.caching = a.caching /\ s.peer = "cache" /\ s.got = got
  <2>1. s \in Records
    BY <1>2, ZenonT(60) DEF Records, Peers
  <2>2. s.phase = a.phase /\ s.plan = a.plan /\ s.answer = a.answer /\ KeepsOrigin(a, s)
    BY <1>2 DEF Records, KeepsOrigin
  <2>3. KeepsBody(a, s) /\ KeepsAuth(a, s)
    BY <1>2 DEF Records, KeepsBody, KeepsAuth
  <2>4. s.caching = a.caching /\ s.peer = "cache" /\ s.got = got
    BY <1>2 DEF Records
  <2> QED BY <2>1, <2>2, <2>3, <2>4
<1> HIDE DEF s
<1>4. PlanSound(s) /\ AnswerSound(s) /\ CacheSound(s) /\ SameOrigin(r, s)
  BY <1>1, <1>2, <1>3 DEF Sound, PlanSound, CacheSound, AnswerSound, SameOrigin, Early, Past,
                          KeepsOrigin, KeepsAuth
<1>5. BodySound(s)
  BY <1>1, <1>2, <1>3 DEF Sound, BodySound, BodySent, KeepsBody
<1>6. Follows(r, s)
  BY <1>1, <1>3, <1>4, <1>5 DEF Follows, Sound
<1> QED BY <1>6 DEF s, a

\* upstream_peer chooses a peer; a backend only for a plan with backends.
LEMMA PeerFollows ==
  ASSUME NEW r \in Records, Sound(r), r.phase = "peer", NEW peer \in {"solver", "backend", "placeholder"},
         peer = "backend" => r.plan.upstream = "backends"
  PROVE  Follows(r, [r EXCEPT !.peer = peer, !.phase = "connect"])
<1> DEFINE s == [r EXCEPT !.peer = peer, !.phase = "connect"]
<1>1. s \in Records /\ s.phase = "connect" /\ s.plan = r.plan /\ s.peer = peer
      /\ s.answer = r.answer /\ KeepsOrigin(r, s) /\ KeepsBody(r, s) /\ KeepsAuth(r, s) /\ KeepsCaching(r, s)
  BY ZenonT(60) DEF Records, PhaseNames, Peers, KeepsOrigin, KeepsBody, KeepsAuth, KeepsCaching
<1> HIDE DEF s
<1>2. Follows(r, s)
  BY <1>1 DEF Follows, SameOrigin, Sound, PlanSound, CacheSound, BodySound, AnswerSound, Early, Past,
              KeepsOrigin, KeepsBody, KeepsAuth, KeepsCaching
<1> QED BY <1>2 DEF s

\* upstream_peer refuses: a response is written and the peer is one that nobody answers at.
LEMMA RefusedFollows ==
  ASSUME NEW r \in Records, Sound(r), r.phase = "peer", NEW status \in Nat, status # 421
  PROVE  Follows(r, [Write(r, status) EXCEPT !.peer = "placeholder", !.phase = "connect"])
<1>1. Write(r, status) \in Records /\ Sound(Write(r, status)) /\ SameOrigin(r, Write(r, status))
      /\ Write(r, status).phase = "peer"
  BY WriteSteps
<1>2. Follows(Write(r, status), [Write(r, status) EXCEPT !.peer = "placeholder", !.phase = "connect"])
  BY <1>1, PeerFollows
<1> QED BY <1>1, <1>2 DEF Follows, SameOrigin

\* The connection is made and the request sent, with the captured headers.
LEMMA SentFollows ==
  ASSUME NEW r \in Records, Sound(r), r.phase = "connect"
  PROVE  Follows(r, [r EXCEPT !.auth_headers = FALSE, !.phase = "sent", !.tries = @ + 1])
<1> DEFINE s == [r EXCEPT !.auth_headers = FALSE, !.phase = "sent", !.tries = @ + 1]
<1>1. s \in Records /\ s.phase = "sent" /\ s.plan = r.plan /\ s.peer = r.peer
      /\ s.answer = r.answer /\ KeepsOrigin(r, s) /\ KeepsBody(r, s) /\ KeepsCaching(r, s)
      /\ s.authed = r.authed /\ s.personal = r.personal
  <2>1. PICK tries \in Nat : tries = r.tries + 1
    BY DEF Records
  <2>2. s = [r EXCEPT !.auth_headers = FALSE, !.phase = "sent", !.tries = tries]
    BY <2>1
  <2>3. s \in Records
    BY <2>2, ZenonT(60) DEF Records, PhaseNames
  <2>4. /\ s.phase = "sent" /\ s.plan = r.plan /\ s.peer = r.peer /\ s.answer = r.answer
        /\ s.authed = r.authed /\ s.personal = r.personal
    BY <2>2 DEF Records
  <2>5. KeepsOrigin(r, s) /\ KeepsBody(r, s) /\ KeepsCaching(r, s)
    BY <2>2 DEF Records, KeepsOrigin, KeepsBody, KeepsCaching
  <2> QED BY <2>3, <2>4, <2>5
<1> HIDE DEF s
<1>2. Follows(r, s)
  BY <1>1 DEF Follows, SameOrigin, Sound, PlanSound, CacheSound, BodySound, AnswerSound, Early, Past,
              KeepsOrigin, KeepsBody, KeepsAuth, KeepsCaching
<1> QED BY <1>2 DEF s

\* A failed exchange is tried again from upstream_peer on.
LEMMA RetryFollows ==
  ASSUME NEW r \in Records, Sound(r), r.phase = "sent"
  PROVE  Follows(r, [r EXCEPT !.phase = "peer"])
<1> DEFINE s == [r EXCEPT !.phase = "peer"]
<1>1. s \in Records /\ s.phase = "peer" /\ s.plan = r.plan /\ s.peer = r.peer
      /\ s.answer = r.answer /\ KeepsOrigin(r, s) /\ KeepsBody(r, s) /\ KeepsAuth(r, s) /\ KeepsCaching(r, s)
  BY DEF Records, PhaseNames, Peers, KeepsOrigin, KeepsBody, KeepsAuth, KeepsCaching
<1> HIDE DEF s
<1>2. Follows(r, s)
  BY <1>1 DEF Follows, SameOrigin, Sound, PlanSound, CacheSound, BodySound, AnswerSound, Early, Past,
              KeepsOrigin, KeepsBody, KeepsAuth, KeepsCaching
<1> QED BY <1>2 DEF s

\* fail_to_proxy gives a request up, with or without a response of its own.
LEMMA FailFollows ==
  ASSUME NEW r \in Records, Sound(r), r.phase \in {"connect", "sent"}, NEW status \in {0, 502, 504}
  PROVE  Follows(r, FailToProxy(r, status))
<1>1. CASE status # 0
  BY <1>1, AnswerFollows DEF FailToProxy
<1>2. CASE status = 0
  BY <1>2, EndFollows DEF FailToProxy
<1> QED BY <1>1, <1>2

\* The response header: the body begins, held in a buffer or not.
LEMMA ResponseFollows ==
  ASSUME NEW r \in Records, Sound(r), r.phase = "sent", NEW buffer \in {<<>>, r.buffer}
  PROVE  Follows(r, [Write(r, 200) EXCEPT !.phase = "body", !.buffer = buffer])
<1> DEFINE w == Write(r, 200)
           s == [w EXCEPT !.phase = "body", !.buffer = buffer]
<1>1. w \in Records /\ Sound(w) /\ SameOrigin(r, w) /\ w.phase = "sent"
  BY WriteSteps
<1>2. buffer \in Seq(Nat)
  <2>1. r.buffer \in Seq(Nat)
    BY DEF Records
  <2>2. <<>> \in Seq(Nat)
    OBVIOUS
  <2> QED BY <2>1, <2>2
<1> HIDE DEF w
<1>3. /\ s \in Records /\ s.phase = "body" /\ s.plan = w.plan /\ s.peer = w.peer /\ s.answer = w.answer
      /\ KeepsOrigin(w, s) /\ KeepsAuth(w, s) /\ KeepsCaching(w, s)
      /\ s.buffer = buffer /\ s.out = w.out /\ s.chunks = w.chunks /\ s.cut = w.cut
  <2>1. s \in Records
    BY <1>1, <1>2, ZenonT(60) DEF Records, PhaseNames
  <2>2. /\ s.phase = "body" /\ s.plan = w.plan /\ s.peer = w.peer /\ s.answer = w.answer
        /\ s.buffer = buffer /\ s.out = w.out /\ s.chunks = w.chunks /\ s.cut = w.cut
    BY <1>1 DEF Records
  <2>3. KeepsOrigin(w, s) /\ KeepsAuth(w, s) /\ KeepsCaching(w, s)
    BY <1>1 DEF Records, KeepsOrigin, KeepsAuth, KeepsCaching
  <2> QED BY <2>1, <2>2, <2>3
<1> HIDE DEF s
<1>4. PlanSound(s) /\ CacheSound(s) /\ AnswerSound(s) /\ SameOrigin(r, s)
  BY <1>1, <1>3 DEF Sound, PlanSound, CacheSound, AnswerSound, SameOrigin, Early, Past,
                    KeepsOrigin, KeepsAuth, KeepsCaching
<1>5. s.out = <<>> /\ s.chunks = 0 /\ ~s.cut /\ r.buffer = Off
  BY <1>1, <1>3 DEF Sound, BodySound
<1>6. CASE buffer = <<>>
  <2>1. Contiguous(buffer, 0) /\ Len(buffer) = 0
    BY <1>6, ContiguousEmpty
  <2>2. 0 <= RewriteLimit
    BY PipelineAssumption
  <2>3. BodyHeld(s)
    BY <1>3, <1>5, <2>1, <2>2 DEF BodyHeld
  <2> QED BY <1>3, <1>4, <2>3 DEF Follows, Sound, BodySound, s, w
<1>7. CASE buffer = r.buffer
  <2>1. BodySent(s)
    BY <1>5, EmptyBodySent
  <2> QED BY <1>3, <1>4, <1>5, <1>7, <2>1 DEF Follows, Sound, BodySound, s, w
<1> QED BY <1>6, <1>7

\* response_body_filter touches the buffer, what was sent and whether it was cut.
WithBody(n, b, o, k) == [n EXCEPT !.buffer = b, !.out = o, !.cut = k]

\* So the rest of the request is as before.
LEMMA BodyFields ==
  ASSUME NEW n \in Records, NEW b \in Seq(Nat), NEW o \in Seq(Nat), NEW k \in BOOLEAN, NEW d,
         d = WithBody(n, b, o, k)
  PROVE  /\ d \in Records /\ d.buffer = b /\ d.out = o /\ d.cut = k /\ d.chunks = n.chunks
         /\ d.phase = n.phase /\ d.plan = n.plan /\ d.peer = n.peer /\ d.answer = n.answer
         /\ KeepsOrigin(n, d) /\ KeepsAuth(n, d) /\ KeepsCaching(n, d)
  BY DEF WithBody, Records, KeepsOrigin, KeepsAuth, KeepsCaching

\* A chunk or the end of the stream passes response_body_filter: what the client has got stays
\* contiguous and ends with the last chunk, once the buffer is flushed or has overflowed.
LEMMA BodyFollows ==
  ASSUME NEW r \in Records, Sound(r), r.phase = "body", NEW more \in BOOLEAN, NEW end \in BOOLEAN
  PROVE  LET data == IF more THEN <<r.chunks + 1>> ELSE <<>>
             done == BodyFilter([r EXCEPT !.chunks = @ + Len(data)], data, end)
         IN  Follows(r, IF end THEN [done EXCEPT !.phase = "logging"] ELSE done)
<1> DEFINE data == IF more THEN <<r.chunks + 1>> ELSE <<>>
           n == [r EXCEPT !.chunks = @ + Len(data)]
           done == BodyFilter(n, data, end)
           s == IF end THEN [done EXCEPT !.phase = "logging"] ELSE done
<1>1. /\ r.chunks \in Nat /\ r.out \in Seq(Nat) /\ r.buffer \in Seq(Nat)
      /\ Len(r.out) \in Nat /\ Len(r.buffer) \in Nat /\ RewriteLimit \in Nat
  BY PipelineAssumption DEF Records
<1>2. data \in Seq(Nat) /\ Len(data) = IF more THEN 1 ELSE 0
  BY <1>1
<1>3. /\ n \in Records /\ n.chunks = r.chunks + Len(data)
      /\ n.phase = r.phase /\ n.plan = r.plan /\ n.peer = r.peer /\ n.answer = r.answer
      /\ KeepsOrigin(r, n) /\ KeepsAuth(r, n) /\ KeepsCaching(r, n)
      /\ n.buffer = r.buffer /\ n.out = r.out /\ n.cut = r.cut /\ n.failed = r.failed
  <2>1. PICK chunks \in Nat : chunks = r.chunks + Len(data)
    BY <1>1, <1>2
  <2>2. n = [r EXCEPT !.chunks = chunks]
    BY <2>1
  <2> HIDE DEF data
  <2>3. n \in Records
    BY <2>2, ZenonT(60) DEF Records
  <2>4. /\ n.chunks = chunks /\ n.phase = r.phase /\ n.plan = r.plan /\ n.peer = r.peer
        /\ n.answer = r.answer /\ n.buffer = r.buffer /\ n.out = r.out /\ n.cut = r.cut
        /\ n.failed = r.failed
    BY <2>2 DEF Records
  <2>5. KeepsOrigin(r, n) /\ KeepsAuth(r, n) /\ KeepsCaching(r, n)
    BY <2>2 DEF Records, KeepsOrigin, KeepsAuth, KeepsCaching
  <2> QED BY <2>1, <2>3, <2>4, <2>5
<1> HIDE DEF n
<1>4. Len(data) \in Nat /\ n.out \o data \in Seq(Nat) /\ n.out \o n.buffer \o data \in Seq(Nat)
      /\ n.buffer \o data \in Seq(Nat) /\ Off \in Seq(Nat)
  BY <1>1, <1>2, <1>3 DEF Off
<1> HIDE DEF data
<1>5. PICK b \in Seq(Nat), o \in Seq(Nat), k \in BOOLEAN :
          /\ done = WithBody(n, b, o, k)
          /\ \/ n.buffer = Off /\ b = Off /\ o = n.out \o data /\ k = n.cut
             \/ /\ n.buffer # Off /\ Len(n.buffer) + Len(data) > RewriteLimit
                /\ b = Off /\ o = n.out \o data /\ k = TRUE
             \/ /\ n.buffer # Off /\ Len(n.buffer) + Len(data) <= RewriteLimit /\ end
                /\ b = Off /\ o = n.out \o n.buffer \o data /\ k = n.cut
             \/ /\ n.buffer # Off /\ Len(n.buffer) + Len(data) <= RewriteLimit /\ ~end
                /\ b = n.buffer \o data /\ o = n.out /\ k = n.cut
  <2>1. n.cut \in BOOLEAN /\ n.buffer \in Seq(Nat) /\ n.out \in Seq(Nat) /\ Len(n.buffer) \in Nat
    BY <1>3 DEF Records
  <2>2. CASE n.buffer = Off
    <3>1. done = WithBody(n, Off, n.out \o data, n.cut)
      BY <1>3, <2>2 DEF BodyFilter, WithBody, Records
    <3> QED BY <1>4, <2>1, <2>2, <3>1
  <2>3. CASE n.buffer # Off /\ Len(n.buffer) + Len(data) > RewriteLimit
    <3>1. done = WithBody(n, Off, n.out \o data, TRUE)
      BY <1>3, <2>3 DEF BodyFilter, WithBody
    <3> QED BY <1>4, <2>1, <2>3, <3>1
  <2>4. CASE n.buffer # Off /\ Len(n.buffer) + Len(data) <= RewriteLimit /\ end
    <3>1. ~(Len(n.buffer) + Len(data) > RewriteLimit)
      BY <1>1, <1>4, <2>1, <2>4
    <3>2. done = WithBody(n, Off, n.out \o n.buffer \o data, n.cut)
      BY <1>3, <2>4, <3>1 DEF BodyFilter, WithBody, Records
    <3> QED BY <1>4, <2>1, <2>4, <3>2
  <2>5. CASE n.buffer # Off /\ Len(n.buffer) + Len(data) <= RewriteLimit /\ ~end
    <3>1. ~(Len(n.buffer) + Len(data) > RewriteLimit)
      BY <1>1, <1>4, <2>1, <2>5
    <3>2. done = WithBody(n, n.buffer \o data, n.out, n.cut)
      BY <1>3, <2>5, <3>1 DEF BodyFilter, WithBody, Records
    <3> HIDE DEF done
    <3> USE <1>4, <2>1
    <3> WITNESS n.buffer \o data \in Seq(Nat), n.out \in Seq(Nat), n.cut \in BOOLEAN
    <3> QED BY <2>5, <3>2
  <2>6. Len(n.buffer) + Len(data) > RewriteLimit \/ Len(n.buffer) + Len(data) <= RewriteLimit
    BY <1>1, <1>4, <2>1
  <2> QED BY <2>2, <2>3, <2>4, <2>5, <2>6, Zenon
<1> HIDE DEF done
<1>6. /\ done \in Records /\ done.buffer = b /\ done.out = o /\ done.cut = k /\ done.chunks = n.chunks
      /\ done.phase = "body" /\ done.plan = r.plan /\ done.peer = r.peer /\ done.answer = r.answer
      /\ KeepsOrigin(r, done) /\ KeepsAuth(r, done) /\ KeepsCaching(r, done)
  <2>1. /\ done \in Records /\ done.buffer = b /\ done.out = o /\ done.cut = k /\ done.chunks = n.chunks
        /\ done.phase = n.phase /\ done.plan = n.plan /\ done.peer = n.peer /\ done.answer = n.answer
        /\ KeepsOrigin(n, done) /\ KeepsAuth(n, done) /\ KeepsCaching(n, done)
    <3>1. n \in Records /\ done = WithBody(n, b, o, k)
      BY <1>3, <1>5
    <3> QED BY <3>1, BodyFields, SMTT(30)
  <2> QED BY <1>3, <2>1 DEF KeepsOrigin, KeepsAuth, KeepsCaching
<1>7. (done.buffer = Off /\ BodySent(done)) \/ (~end /\ BodyHeld(done))
  <2>1. CASE r.buffer = Off /\ BodySent(r)
    <3> DEFINE lost == r.chunks - Len(r.out)
    <3>1. b = Off /\ o = r.out \o data /\ k = r.cut
      BY <1>3, <1>5, <2>1
    <3>2. Contiguous(r.out, lost) /\ (~r.cut => lost = 0) /\ lost \in 0..RewriteLimit
      BY <2>1 DEF BodySent
    <3>3. lost \in Nat
      BY <1>1, <3>2
    <3>4. CASE ~more
      <4>1. data = <<>> /\ Len(data) = 0
        BY <1>2, <3>4 DEF data
      <4>2. o = r.out /\ n.chunks = r.chunks
        BY <1>1, <1>3, <3>1, <4>1
      <4> QED BY <1>6, <3>1, <3>2, <4>2 DEF BodySent
    <3>5. CASE more
      <4>1. data = <<lost + Len(r.out) + 1>> /\ Len(data) = 1
        BY <1>1, <1>2, <3>5 DEF data
      <4>2. Contiguous(o, lost) /\ Len(o) = Len(r.out) + 1
        BY <1>1, <3>1, <3>2, <3>3, <4>1, ContiguousNext
      <4>3. n.chunks - Len(o) = lost
        <5>1. n.chunks = r.chunks + 1
          BY <1>3, <4>1
        <5>2. \A c, d \in Nat : (c + 1) - (d + 1) = c - d
          OBVIOUS
        <5>3. (r.chunks + 1) - (Len(r.out) + 1) = r.chunks - Len(r.out)
          BY <1>1, <5>2
        <5> QED BY <4>2, <5>1, <5>3
      <4> QED BY <1>6, <3>1, <3>2, <4>2, <4>3 DEF BodySent
    <3> QED BY <3>4, <3>5
  <2>2. CASE BodyHeld(r)
    <3>1. /\ r.out = <<>> /\ ~r.cut /\ Contiguous(r.buffer, 0) /\ Len(r.buffer) = r.chunks
          /\ r.chunks <= RewriteLimit
      BY <2>2 DEF BodyHeld
    <3>2. n.buffer # Off
      BY <1>1, <1>3, <3>1, HeldNotOff
    <3>3. /\ r.buffer \o data \in Seq(Nat) /\ Contiguous(r.buffer \o data, 0)
          /\ Len(r.buffer \o data) = n.chunks
      <4>1. CASE ~more
        <5>1. data = <<>> /\ Len(data) = 0
          BY <1>2, <4>1 DEF data
        <5>2. r.buffer \o data = r.buffer /\ n.chunks = r.chunks
          BY <1>1, <1>3, <5>1
        <5> QED BY <1>1, <3>1, <5>2
      <4>2. CASE more
        <5>1. data = <<0 + Len(r.buffer) + 1>> /\ Len(data) = 1
          BY <1>1, <1>2, <3>1, <4>2 DEF data
        <5>2. /\ r.buffer \o data \in Seq(Nat) /\ Contiguous(r.buffer \o data, 0)
              /\ Len(r.buffer \o data) = Len(r.buffer) + 1
          BY <1>1, <3>1, <5>1, ContiguousNext
        <5> QED BY <1>1, <1>3, <3>1, <5>1, <5>2
      <4> QED BY <4>1, <4>2
    <3>4. CASE Len(n.buffer) + Len(data) > RewriteLimit
      <4>1. more /\ Len(data) = 1
        BY <1>1, <1>2, <1>3, <3>1, <3>4
      <4>2. data = <<r.chunks + 1>> /\ b = Off /\ o = r.out \o data /\ k = TRUE
        <5>1. data = <<r.chunks + 1>>
          BY <4>1 DEF data
        <5>2. ~(Len(n.buffer) + Len(data) <= RewriteLimit)
          BY <1>1, <1>3, <3>4, <4>1
        <5> QED BY <1>3, <1>5, <3>2, <5>1, <5>2
      <4>3. o = <<r.chunks + 1>> /\ Len(o) = 1
        BY <1>1, <3>1, <4>2
      <4>4. n.chunks - Len(o) = r.chunks
        BY <1>1, <1>3, <4>1, <4>3
      <4>5. Contiguous(o, r.chunks)
        <5>1. o = [i \in 1..1 |-> r.chunks + i]
          BY <1>1, <4>3
        <5> QED BY <4>3, <5>1 DEF Contiguous
      <4> QED BY <1>1, <1>6, <3>1, <4>2, <4>4, <4>5 DEF BodySent
    <3>5. CASE ~(Len(n.buffer) + Len(data) > RewriteLimit)
      <4>1. n.chunks <= RewriteLimit
        BY <1>1, <1>2, <1>3, <3>1, <3>5
      <4>2. CASE end
        <5>1. b = Off /\ o = r.out \o r.buffer \o data /\ k = r.cut
          BY <1>3, <1>5, <3>2, <3>5, <4>2
        <5>2. o = r.buffer \o data
          BY <1>1, <1>4, <1>3, <3>1, <5>1
        <5>3. n.chunks - Len(o) = 0
          BY <1>1, <1>3, <1>4, <3>3, <5>2
        <5>4. Contiguous(o, 0) /\ 0 \in 0..RewriteLimit
          BY <1>1, <3>3, <5>2
        <5> QED BY <1>6, <5>1, <5>3, <5>4 DEF BodySent
      <4>3. CASE ~end
        <5>1. b = r.buffer \o data /\ o = r.out /\ k = r.cut
          BY <1>3, <1>5, <3>2, <3>5, <4>3
        <5> QED BY <1>6, <3>1, <3>3, <4>1, <4>3, <5>1 DEF BodyHeld
      <4> QED BY <4>2, <4>3
    <3> QED BY <3>4, <3>5
  <2> QED BY <2>1, <2>2 DEF Sound, BodySound
<1>8. PlanSound(done) /\ CacheSound(done) /\ AnswerSound(done) /\ SameOrigin(r, done)
  BY <1>6 DEF Sound, PlanSound, CacheSound, AnswerSound, SameOrigin, Early, Past,
              KeepsOrigin, KeepsAuth, KeepsCaching
<1>9. CASE ~end
  <2>1. Follows(r, done)
    BY <1>6, <1>7, <1>8 DEF Follows, Sound, BodySound
  <2> QED BY <1>9, <2>1 DEF done, n, data
<1>10. CASE end
  <2> DEFINE l == [done EXCEPT !.phase = "logging"]
  <2>1. /\ l \in Records /\ l.phase = "logging" /\ l.plan = done.plan /\ l.peer = done.peer
        /\ l.answer = done.answer
        /\ KeepsOrigin(done, l) /\ KeepsBody(done, l) /\ KeepsAuth(done, l) /\ KeepsCaching(done, l)
    BY <1>6 DEF Records, PhaseNames, KeepsOrigin, KeepsBody, KeepsAuth, KeepsCaching
  <2> HIDE DEF l
  <2>2. BodySent(l)
    BY <1>7, <1>10, <2>1 DEF BodySent, KeepsBody
  <2>3. PlanSound(l) /\ CacheSound(l) /\ AnswerSound(l) /\ SameOrigin(r, l)
    BY <1>6, <1>8, <2>1 DEF PlanSound, CacheSound, AnswerSound, SameOrigin, Early, Past,
                            KeepsOrigin, KeepsAuth, KeepsCaching
  <2>4. Follows(r, l)
    BY <2>1, <2>2, <2>3 DEF Follows, Sound, BodySound
  <2> QED BY <1>10, <2>4 DEF l, done, n, data
<1> QED BY <1>9, <1>10

\* The exchange fails within the body: the request ends as failed.
LEMMA BodyFailFollows ==
  ASSUME NEW r \in Records, Sound(r), r.phase = "body"
  PROVE  Follows(r, [r EXCEPT !.phase = "logging", !.failed = TRUE])
<1> DEFINE s == [r EXCEPT !.phase = "logging", !.failed = TRUE]
<1>1. /\ s \in Records /\ s.phase = "logging" /\ s.failed = TRUE /\ s.plan = r.plan /\ s.peer = r.peer
      /\ s.answer = r.answer /\ KeepsOrigin(r, s) /\ KeepsAuth(r, s) /\ KeepsCaching(r, s)
  BY DEF Records, PhaseNames, KeepsOrigin, KeepsAuth, KeepsCaching
<1> HIDE DEF s
<1>2. Follows(r, s)
  BY <1>1 DEF Follows, SameOrigin, Sound, PlanSound, CacheSound, BodySound, AnswerSound, Early, Past,
              KeepsOrigin, KeepsAuth, KeepsCaching
<1> QED BY <1>2 DEF s

-----------------------------------------------------------------------------
(* The steps of the phases after the filter. *)

\* Request c goes on.
Goes(c) == \E s : Follows(req[c], s) /\ req' = [req EXCEPT ![c] = s]

\* The phases after request_filter and before logging.
LaterPhase(c) ==
    \/ Unmatched(c) \/ ExecuteAuthStage(c) \/ ExecuteStaticFilesStage(c) \/ ExecuteTerminalStage(c)
    \/ NoStage(c) \/ RequestCacheFilter(c) \/ UpstreamPeer(c) \/ ConnectUpstream(c)
    \/ ExchangeFails(c) \/ UpstreamResponse(c) \/ ResponseBody(c) \/ BodyFails(c)

\* The answer without a plan and the stages of a plan.
LEMMA StagesGo ==
  ASSUME RInv, NEW c \in Slots,
         Unmatched(c) \/ ExecuteAuthStage(c) \/ ExecuteStaticFilesStage(c) \/ ExecuteTerminalStage(c)
         \/ NoStage(c)
  PROVE  Goes(c)
<1> DEFINE r == req[c]
<1>1. r \in Records /\ Sound(r)
  BY DEF RInv, RTypeOK
<1>2. \A status \in {200, 301, 403, 404, 502} :
         r.phase \in {"unmatched", "stages"} => Follows(r, Answer(r, status))
  BY <1>1, AnswerFollows
<1> HIDE DEF r
<1>3. CASE Unmatched(c)
  <2>1. r.phase = "unmatched" /\ r.plan.stage # "auth"
    <3>1. r.phase = "unmatched"
      BY <1>3 DEF Unmatched, r
    <3>2. r.plan = NoPlan
      BY <1>1, <3>1 DEF Sound, PlanSound, Early
    <3>3. NoPlan.stage # "auth"
      BY DEF NoPlan, None
    <3> QED BY <3>1, <3>2, <3>3
  <2>2. Follows(r, [r EXCEPT !.phase = "cache"]) /\ Follows(r, Answer(r, 301)) /\ Follows(r, Answer(r, 404))
    BY <1>1, <1>2, <2>1, CachePhaseFollows
  <2> QED BY <1>3, <2>2 DEF Unmatched, Only, Goes, r
<1>4. CASE ExecuteAuthStage(c)
  <2>1. \A captured \in BOOLEAN :
           Follows(r, [r EXCEPT !.authed = TRUE, !.auth_headers = captured, !.personal = captured,
                                !.phase = "cache"])
    <3>1. r \in Records /\ Sound(r) /\ r.phase = "stages"
      BY <1>1, <1>4 DEF ExecuteAuthStage, r
    <3> HIDE DEF r
    <3> QED BY <3>1, AuthFollows, ZenonT(60)
  <2>e. \A captured \in BOOLEAN :
           Follows(r, [r EXCEPT !.authed = TRUE, !.auth_headers = captured, !.personal = captured,
                                !.phase = "logging"])
    <3>1. r \in Records /\ Sound(r) /\ r.phase = "stages"
      BY <1>1, <1>4 DEF ExecuteAuthStage, r
    <3> HIDE DEF r
    <3> QED BY <3>1, AuthEndFollows, ZenonT(60)
  <2>2. CASE \E captured \in BOOLEAN :
                Proceed(c, [r EXCEPT !.authed = TRUE, !.auth_headers = captured, !.personal = captured])
    <3>1. PICK captured \in BOOLEAN :
             Proceed(c, [r EXCEPT !.authed = TRUE, !.auth_headers = captured, !.personal = captured])
      BY <2>2, Zenon
    <3> DEFINE k == [r EXCEPT !.authed = TRUE, !.auth_headers = captured, !.personal = captured,
                              !.phase = "cache"]
               l == [r EXCEPT !.authed = TRUE, !.auth_headers = captured, !.personal = captured,
                              !.phase = "logging"]
    <3>2. Follows(r, k) /\ Follows(r, l)
      BY <2>1, <2>e, Zenon
    <3>3. req' = [req EXCEPT ![c] = k] \/ req' = [req EXCEPT ![c] = l]
      BY <3>1 DEF Proceed, FailToProxy, Only
    <3> HIDE DEF k, l
    <3> QED BY <3>2, <3>3, Zenon DEF Goes, r
  <2>3. CASE \E status \in {403, 502} : Only(c, Answer(r, status))
    <3>1. r.phase = "stages"
      BY <1>4 DEF ExecuteAuthStage, r
    <3>2. Follows(r, Answer(r, 403)) /\ Follows(r, Answer(r, 502))
      BY <1>2, <3>1
    <3>3. \A status \in {403, 502} : Follows(r, Answer(r, status))
      BY <3>2
    <3> HIDE DEF r
    <3>4. PICK status \in {403, 502} : Only(c, Answer(r, status))
      BY <2>3
    <3>5. Follows(r, Answer(r, status))
      BY <3>3
    <3>6. req' = [req EXCEPT ![c] = Answer(r, status)]
      BY <3>4 DEF Only
    <3> QED BY <3>5, <3>6, Zenon DEF Goes, r
  <2> QED BY <1>4, <2>2, <2>3 DEF ExecuteAuthStage, r
<1>5. CASE ExecuteStaticFilesStage(c) \/ ExecuteTerminalStage(c) \/ NoStage(c)
  <2>1. r.phase = "stages" /\ (r.plan.stage \in {"static", None} \/ ExecuteTerminalStage(c))
    BY <1>5 DEF ExecuteStaticFilesStage, ExecuteTerminalStage, NoStage, r
  <2>2. Follows(r, Answer(r, 200)) /\ (r.plan.stage \in {"static", None} => Follows(r, [r EXCEPT !.phase = "cache"]))
    BY <1>1, <1>2, <2>1, CachePhaseFollows DEF None
  <2>3. Follows(r, [r EXCEPT !.phase = "logging"])
    BY <1>1, <2>1, EndFollows
  <2>4. Only(c, Answer(r, 200)) \/ (r.plan.stage \in {"static", None} /\ Proceed(c, r))
    BY <1>5 DEF ExecuteStaticFilesStage, ExecuteTerminalStage, NoStage, r
  <2> QED BY <2>2, <2>3, <2>4 DEF Proceed, FailToProxy, Only, Goes, r
<1> QED BY <1>3, <1>4, <1>5

\* The cache lookup, the choice of a peer, the connection and its failures.
LEMMA UpstreamGoes ==
  ASSUME RInv, NEW c \in Slots,
         RequestCacheFilter(c) \/ UpstreamPeer(c) \/ ConnectUpstream(c) \/ ExchangeFails(c)
  PROVE  Goes(c)
<1> DEFINE r == req[c]
<1>1. r \in Records /\ Sound(r) /\ (r.phase # "none" => r.ask \in Asks)
  BY DEF RInv, RTypeOK
<1>2. CASE RequestCacheFilter(c)
  <2> DEFINE hit == {e \in cache : e.key = CacheKey(r)}
             e == CHOOSE x \in hit : TRUE
  <2>1. r.phase = "cache"
    BY <1>2 DEF RequestCacheFilter
  <2>2. CASE ~CachingAllowed(r)
    BY <1>1, <1>2, <2>1, <2>2, PassCacheFollows DEF RequestCacheFilter, Only, Goes
  <2>3. CASE CachingAllowed(r) /\ hit = {}
    <3>1. ~r.auth_headers
      BY <2>3 DEF CachingAllowed
    <3>2. Follows(r, [r EXCEPT !.caching = TRUE, !.phase = "peer"])
      BY <1>1, <2>1, <3>1, MissFollows
    <3> QED BY <1>2, <2>3, <3>2 DEF RequestCacheFilter, Only, Goes
  <2>4. CASE CachingAllowed(r) /\ hit # {}
    <3>1. e \in cache /\ e.key = CacheKey(r)
      BY <2>4
    <3>2. e.credentials \in {q.credentials : q \in Asks}
          /\ ((e.credentials = None) <=> (r.ask.credentials = None))
      <4> DEFINE other == r.ask.credentials
      <4>1. KeptClean(e)
        BY <3>1, Zenon DEF RInv, CacheClean
      <4>2. e.key[2] = (other # None)
        <5> HIDE DEF other, e
        <5>1. <<r.ask.host, other # None>>[2] = (other # None)
          OBVIOUS
        <5> QED BY <3>1, <5>1, Zenon DEF CacheKey, other
      <4>3. e.credentials \in {q.credentials : q \in Asks} /\ e.key[2] = (e.credentials # None)
        BY <4>1, Zenon DEF KeptClean
      <4> HIDE DEF other, e
      <4>4. (e.credentials = None) <=> (other = None)
        BY <4>2, <4>3, Zenon
      <4> QED BY <4>3, <4>4 DEF other
    <3>a. r.plan # NoPlan
      <4>1. r.plan.cached /\ ~NoPlan.cached
        BY <2>4 DEF CachingAllowed, NoPlan
      <4> QED BY <4>1, Zenon
    <3>3. Follows(r, [Answer(r, 200) EXCEPT !.peer = "cache", !.got = e.credentials])
      <4> HIDE DEF r, e, hit
      <4> QED BY <1>1, <2>1, <3>2, <3>a, HitFollows
    <3>4. req' = [req EXCEPT ![c] = [Answer(r, 200) EXCEPT !.peer = "cache", !.got = e.credentials]]
      BY <1>2, <2>4 DEF RequestCacheFilter, Only
    <3> QED BY <3>3, <3>4 DEF Goes
  <2> QED BY <2>2, <2>3, <2>4
<1>3. CASE UpstreamPeer(c)
  <2>1. r.phase = "peer"
    BY <1>3 DEF UpstreamPeer
  <2>2. /\ Follows(r, [Write(r, 404) EXCEPT !.peer = "placeholder", !.phase = "connect"])
        /\ Follows(r, [Write(r, 500) EXCEPT !.peer = "placeholder", !.phase = "connect"])
        /\ Follows(r, [Write(r, 502) EXCEPT !.peer = "placeholder", !.phase = "connect"])
    <3>1. 404 \in Nat \ {421} /\ 500 \in Nat \ {421} /\ 502 \in Nat \ {421}
      OBVIOUS
    <3> DEFINE refused(status) == [Write(r, status) EXCEPT !.peer = "placeholder", !.phase = "connect"]
    <3>2. \A status \in Nat \ {421} : Follows(r, refused(status))
      BY <1>1, <2>1, RefusedFollows, Zenon
    <3> HIDE DEF refused
    <3>3. Follows(r, refused(404)) /\ Follows(r, refused(500)) /\ Follows(r, refused(502))
      BY <3>1, <3>2
    <3> QED BY <3>3 DEF refused
  <2>3. Follows(r, [r EXCEPT !.peer = "solver", !.phase = "connect"])
    BY <1>1, <2>1, PeerFollows
  <2>4. r.plan.upstream = "backends" => Follows(r, [r EXCEPT !.peer = "backend", !.phase = "connect"])
    BY <1>1, <2>1, PeerFollows
  <2>5. \/ req' = [req EXCEPT ![c] = [r EXCEPT !.peer = "solver", !.phase = "connect"]]
        \/ /\ r.plan.upstream = "backends"
           /\ req' = [req EXCEPT ![c] = [r EXCEPT !.peer = "backend", !.phase = "connect"]]
        \/ req' = [req EXCEPT ![c] = [Write(r, 502) EXCEPT !.peer = "placeholder", !.phase = "connect"]]
        \/ req' = [req EXCEPT ![c] = [Write(r, 404) EXCEPT !.peer = "placeholder", !.phase = "connect"]]
        \/ req' = [req EXCEPT ![c] = [Write(r, 500) EXCEPT !.peer = "placeholder", !.phase = "connect"]]
    BY <1>3 DEF UpstreamPeer, Only
  <2> DEFINE Becomes(s) == req' = [req EXCEPT ![c] = s]
             refused(status) == [Write(r, status) EXCEPT !.peer = "placeholder", !.phase = "connect"]
             peer(p) == [r EXCEPT !.peer = p, !.phase = "connect"]
  <2>6. \/ Becomes(peer("solver")) \/ (r.plan.upstream = "backends" /\ Becomes(peer("backend")))
        \/ Becomes(refused(502)) \/ Becomes(refused(404)) \/ Becomes(refused(500))
    BY <2>5
  <2>7. \A s : Becomes(s) /\ Follows(r, s) => Goes(c)
    BY Zenon DEF Goes
  <2>8. /\ Follows(r, peer("solver")) /\ (r.plan.upstream = "backends" => Follows(r, peer("backend")))
        /\ Follows(r, refused(502)) /\ Follows(r, refused(404)) /\ Follows(r, refused(500))
    BY <2>2, <2>3, <2>4
  <2> HIDE DEF Becomes, refused, peer, r
  <2> QED BY <2>6, <2>7, <2>8
<1>4. CASE ConnectUpstream(c)
  <2>1. r.phase = "connect"
    BY <1>4 DEF ConnectUpstream
  <2>2. Follows(r, FailToProxy(r, 502))
    BY <1>1, <2>1, FailFollows
  <2>3. Follows(r, [r EXCEPT !.auth_headers = FALSE, !.phase = "sent", !.tries = @ + 1])
    BY <1>1, <2>1, SentFollows
  <2> QED BY <1>4, <2>2, <2>3 DEF ConnectUpstream, Only, Goes
<1>5. CASE ExchangeFails(c)
  <2>1. r.phase = "sent"
    BY <1>5 DEF ExchangeFails
  <2>2. \A status \in {0, 502, 504} : Follows(r, FailToProxy(r, status))
    BY <1>1, <2>1, FailFollows
  <2>3. Follows(r, [r EXCEPT !.phase = "peer"])
    BY <1>1, <2>1, RetryFollows
  <2> QED BY <1>5, <2>2, <2>3 DEF ExchangeFails, Only, Goes
<1> QED BY <1>2, <1>3, <1>4, <1>5

\* The response header and the body.
LEMMA ResponseGoes ==
  ASSUME RInv, NEW c \in Slots, UpstreamResponse(c) \/ ResponseBody(c) \/ BodyFails(c)
  PROVE  Goes(c)
<1> DEFINE r == req[c]
<1>1. r \in Records /\ Sound(r)
  BY DEF RInv, RTypeOK
<1>2. CASE UpstreamResponse(c)
  <2>1. r.phase = "sent"
    BY <1>2 DEF UpstreamResponse
  <2>2. Write(r, 200).buffer = r.buffer
    BY <1>1 DEF Write, Records
  <2>3. \A b \in {<<>>, r.buffer} : Follows(r, [Write(r, 200) EXCEPT !.phase = "body", !.buffer = b])
    BY <1>1, <2>1, ResponseFollows
  <2>4. PICK rewritable \in BOOLEAN :
           req' = [req EXCEPT ![c] = [Write(r, 200) EXCEPT !.phase = "body",
                      !.buffer = IF r.plan.rewrites /\ rewritable THEN <<>> ELSE @]]
    BY <1>2 DEF UpstreamResponse
  <2>5. CASE r.plan.rewrites /\ rewritable
    <3>1. req' = [req EXCEPT ![c] = [Write(r, 200) EXCEPT !.phase = "body", !.buffer = <<>>]]
      BY <2>4, <2>5
    <3> QED BY <2>3, <3>1 DEF Goes
  <2>6. CASE ~(r.plan.rewrites /\ rewritable)
    <3>1. req' = [req EXCEPT ![c] = [Write(r, 200) EXCEPT !.phase = "body", !.buffer = r.buffer]]
      BY <2>2, <2>4, <2>6
    <3> QED BY <2>3, <3>1 DEF Goes
  <2> QED BY <2>5, <2>6
<1>3. CASE ResponseBody(c)
  <2>1. r.phase = "body"
    BY <1>3 DEF ResponseBody
  <2>2. PICK more \in BOOLEAN, end \in BOOLEAN :
           LET data == IF more THEN <<r.chunks + 1>> ELSE <<>>
               done == BodyFilter([r EXCEPT !.chunks = @ + Len(data)], data, end)
           IN  req' = [req EXCEPT ![c] = IF end THEN [done EXCEPT !.phase = "logging"] ELSE done]
    BY <1>3 DEF ResponseBody, Only
  <2>3. LET data == IF more THEN <<r.chunks + 1>> ELSE <<>>
            done == BodyFilter([r EXCEPT !.chunks = @ + Len(data)], data, end)
        IN  Follows(r, IF end THEN [done EXCEPT !.phase = "logging"] ELSE done)
    BY <1>1, <2>1, BodyFollows
  <2> QED BY <2>2, <2>3, Zenon DEF Goes
<1>4. CASE BodyFails(c)
  BY <1>1, <1>4, BodyFailFollows DEF BodyFails, Only, Goes
<1> QED BY <1>2, <1>3, <1>4

\* The phases after the filter touch no relay, no map and no table, and what response_cache_filter
\* keeps was not made for one user.
LEMMA PhaseStep ==
  ASSUME RInv, NEW c \in Slots, LaterPhase(c)
  PROVE  /\ Goes(c) /\ req[c].phase \notin {"none", "filter", "logging"}
         /\ UNCHANGED <<published, relay, http_context, sni_context, active, clients>>
         /\ CacheClean'
<1>1. Goes(c)
  BY StagesGo, UpstreamGoes, ResponseGoes DEF LaterPhase
<1>2. /\ req[c].phase \notin {"none", "filter", "logging"}
      /\ UNCHANGED <<published, relay, http_context, sni_context, active, clients>>
      /\ UpstreamResponse(c) \/ UNCHANGED cache
  <2>1. CASE Unmatched(c) \/ ExecuteAuthStage(c) \/ ExecuteStaticFilesStage(c) \/ ExecuteTerminalStage(c)
             \/ NoStage(c)
    BY <2>1 DEF Unmatched, ExecuteAuthStage, ExecuteStaticFilesStage, ExecuteTerminalStage, NoStage,
                Proceed, Only
  <2>2. CASE RequestCacheFilter(c) \/ UpstreamPeer(c)
    BY <2>2 DEF RequestCacheFilter, UpstreamPeer, Only
  <2>3. CASE ConnectUpstream(c) \/ ExchangeFails(c) \/ BodyFails(c)
    BY <2>3 DEF ConnectUpstream, ExchangeFails, BodyFails, Only
  <2>4. CASE UpstreamResponse(c) \/ ResponseBody(c)
    BY <2>4 DEF UpstreamResponse, ResponseBody, Only
  <2> QED BY <2>1, <2>2, <2>3, <2>4 DEF LaterPhase
<1>3. ASSUME UNCHANGED cache PROVE CacheClean'
  BY <1>3 DEF RInv, CacheClean
<1>4. ASSUME UpstreamResponse(c) PROVE CacheClean'
  <2>1. req[c].caching => ~req[c].personal
    BY DEF RInv, Sound, CacheSound
  <2>2. cache' = cache \/ (req[c].caching /\
          cache' = cache \cup {[key |-> CacheKey(req[c]), personal |-> req[c].personal,
                                credentials |-> req[c].ask.credentials]})
    BY <1>4 DEF UpstreamResponse
  <2>3. CASE req[c].caching /\
          cache' = cache \cup {[key |-> CacheKey(req[c]), personal |-> req[c].personal,
                                credentials |-> req[c].ask.credentials]}
    <3> SUFFICES ASSUME NEW e \in cache' PROVE KeptClean(e)
      BY Zenon DEF CacheClean
    <3>1. CASE e \in cache
      BY <3>1 DEF RInv, CacheClean
    <3>2. CASE e = [key |-> CacheKey(req[c]), personal |-> req[c].personal,
                    credentials |-> req[c].ask.credentials]
      <4>1. e.key = <<req[c].ask.host, req[c].ask.credentials # None>>
            /\ e.credentials = req[c].ask.credentials /\ e.personal = req[c].personal
        BY <3>2 DEF CacheKey
      <4>2. req[c].ask \in Asks
        BY <1>2 DEF RInv, RTypeOK
      <4>3. e.key[2] = (e.credentials # None)
        BY <4>1
      <4> QED BY <2>1, <2>3, <4>1, <4>2, <4>3 DEF KeptClean
    <3> QED BY <2>3, <3>1, <3>2
  <2> QED BY <1>3, <2>2, <2>3
<1> QED BY <1>1, <1>2, <1>3, <1>4

-----------------------------------------------------------------------------
(* request_filter. *)

\* A request in the filter, which may have been given its plan.
InFilter(r) ==
    /\ r \in Records /\ r.phase = "filter"
    /\ r.plan = NoPlan \/ r.plan = Published[r.seen].plans[r.ask.host]
    /\ r.peer = None /\ CacheSound(r) /\ BodySound(r) /\ AnswerSound(r)

\* The request leaves the filter, sound, as the one that was located.
Leaves(r, s) ==
    /\ s \in Records /\ Sound(s) /\ s.phase \notin {"none", "filter"}
    /\ KeepsOrigin(r, s)

\* A response of the filter itself ends the request.
LEMMA FilterAnswers ==
  ASSUME NEW r, NEW status \in Nat, InFilter(r)
  PROVE  Leaves(r, Answer(r, status)) /\ Answer(r, status).answer = status
<1> DEFINE s == Answer(r, status)
<1>1. r \in Records /\ r.answer = 0
  BY DEF InFilter, AnswerSound
<1>2. /\ s \in Records /\ s.phase = "logging" /\ s.answer = status /\ s.plan = r.plan /\ s.peer = r.peer
      /\ KeepsOrigin(r, s) /\ KeepsBody(r, s) /\ KeepsAuth(r, s) /\ KeepsCaching(r, s)
  BY <1>1, ZenonT(60) DEF Answer, Write, Records, PhaseNames, KeepsOrigin, KeepsBody, KeepsAuth, KeepsCaching
<1>3. PlanSound(s) /\ CacheSound(s) /\ AnswerSound(s)
  BY <1>2 DEF InFilter, PlanSound, CacheSound, AnswerSound, Early, Past, None,
              KeepsOrigin, KeepsAuth, KeepsCaching
<1>4. s.out = <<>> /\ s.chunks = 0
  BY <1>2 DEF InFilter, BodySound, KeepsBody
<1>5. BodySent(s)
  BY <1>4, EmptyBodySent
<1> QED BY <1>2, <1>3, <1>5 DEF Leaves, Sound, BodySound

\* The request goes on to the stages, to the cache or, without a plan, to the answer for that.
LEMMA FilterPasses ==
  ASSUME NEW r, NEW phase \in {"unmatched", "stages", "cache"}, InFilter(r),
         phase = "unmatched" => r.plan = NoPlan,
         phase = "cache" => r.plan = NoPlan \/ r.from.via # "tls",
         NEW s, s = [r EXCEPT !.phase = phase] \/ s = [r EXCEPT !.acme = TRUE, !.phase = phase]
  PROVE  Leaves(r, s) /\ s.answer = 0
<1>1. r \in Records /\ r.answer = 0
  BY DEF InFilter, AnswerSound
<1>2. /\ s \in Records /\ s.phase = phase /\ s.answer = 0 /\ s.plan = r.plan /\ s.peer = r.peer
      /\ KeepsOrigin(r, s) /\ KeepsBody(r, s) /\ KeepsAuth(r, s) /\ KeepsCaching(r, s)
  <2>1. CASE s = [r EXCEPT !.phase = phase]
    BY <1>1, <2>1 DEF Records, PhaseNames, KeepsOrigin, KeepsBody, KeepsAuth, KeepsCaching
  <2>2. CASE s = [r EXCEPT !.acme = TRUE, !.phase = phase]
    BY <1>1, <2>2 DEF Records, PhaseNames, KeepsOrigin, KeepsBody, KeepsAuth, KeepsCaching
  <2> QED BY <2>1, <2>2
<1>3. NoPlan.stage # "auth"
  BY DEF NoPlan, None
<1>4. PlanSound(s)
  BY <1>2, <1>3 DEF InFilter, PlanSound, Early, Past, None, KeepsOrigin
<1>5. CacheSound(s) /\ AnswerSound(s) /\ BodySound(s)
  BY <1>2 DEF InFilter, CacheSound, BodySound, AnswerSound, Early, None,
              KeepsOrigin, KeepsBody, KeepsAuth, KeepsCaching
<1> QED BY <1>2, <1>4, <1>5 DEF Leaves, Sound

\* A located request that is given the plan of the published table.
LEMMA FilterHolds ==
  ASSUME NEW r, NEW plan \in Plans, InFilter(r), plan = Published[r.seen].plans[r.ask.host]
  PROVE  /\ InFilter([r EXCEPT !.plan = plan]) /\ KeepsOrigin(r, [r EXCEPT !.plan = plan])
         /\ [r EXCEPT !.plan = plan].plan = plan
         /\ [r EXCEPT !.plan = plan].from = r.from
<1> DEFINE s == [r EXCEPT !.plan = plan]
<1>1. r \in Records
  BY DEF InFilter
<1>2. /\ s \in Records /\ s.phase = r.phase /\ s.answer = r.answer /\ s.plan = plan /\ s.peer = r.peer
      /\ KeepsOrigin(r, s) /\ KeepsBody(r, s) /\ KeepsAuth(r, s) /\ KeepsCaching(r, s)
  BY <1>1 DEF Records, KeepsOrigin, KeepsBody, KeepsAuth, KeepsCaching
<1> HIDE DEF s
<1>3. InFilter(s)
  BY <1>2 DEF InFilter, CacheSound, BodySound, AnswerSound, Early, None,
              KeepsOrigin, KeepsBody, KeepsAuth, KeepsCaching
<1> QED BY <1>2, <1>3 DEF s, KeepsOrigin

\* What the filter makes of a located request: it answers, also with 421 only for an SNI that
\* does not lead to the listener of the host, or passes it on with its plan.
LEMMA FilteredLeaves ==
  ASSUME RInv, NEW r, NEW verdict \in Verdicts, InFilter(Located(r)), r.ask \in Asks,
         Located(r).ask = r.ask, Located(r).from = r.from, Located(r).plan = NoPlan,
         Located(r).seen = published
  PROVE  /\ Leaves(Located(r), Filtered(r, verdict))
         /\ Filtered(r, verdict).answer = 421 => Misdirected(SniFor(Located(r)), r.ask.host)
<1> DEFINE here == Located(r)
           plan == Plan(r.ask.host)
           held == [here EXCEPT !.plan = plan]
           f == Filtered(r, verdict)
<1> HIDE DEF here
<1>1. plan \in Plans /\ plan = Published[here.seen].plans[here.ask.host]
  BY DEF RInv, RTypeOK, Plans, Plan, here
<1>2. InFilter(here) /\ InFilter(held) /\ KeepsOrigin(here, held) /\ held.plan = plan /\ held.from = r.from
  BY <1>1, FilterHolds DEF here
<1>3. ASSUME NEW status \in Nat
      PROVE  /\ Leaves(here, Answer(here, status)) /\ Answer(here, status).answer = status
             /\ Leaves(here, Answer(held, status)) /\ Answer(held, status).answer = status
  <2> HIDE DEF held
  <2>1. Leaves(here, Answer(here, status)) /\ Answer(here, status).answer = status
    BY <1>2, FilterAnswers
  <2>2. Leaves(held, Answer(held, status)) /\ Answer(held, status).answer = status
    BY <1>2, FilterAnswers
  <2>3. KeepsOrigin(here, Answer(held, status))
    BY <1>2, <2>2 DEF Leaves, KeepsOrigin
  <2> QED BY <2>1, <2>2, <2>3 DEF Leaves
<1>4. verdict \in {0, 403, 429}
  BY DEF Verdicts, Layers, DdosLayer, ScannerLayer, RateLimitLayer, BandwidthLayer
<1>5. here.plan = NoPlan /\ here.ask = r.ask /\ here.from = r.from
  BY DEF here
<1> HIDE DEF held, plan
<1>a. ASSUME NEW g, g = [here EXCEPT !.phase = "unmatched"] PROVE Leaves(here, g) /\ g.answer = 0
  <2>1. "unmatched" \in {"unmatched", "stages", "cache"} /\ "unmatched" # "cache"
    OBVIOUS
  <2> QED BY <1>2, <1>5, <1>a, <2>1, FilterPasses
<1>b. ASSUME NEW g, g = [here EXCEPT !.acme = TRUE, !.phase = "cache"] PROVE Leaves(here, g) /\ g.answer = 0
  <2>1. "cache" \in {"unmatched", "stages", "cache"} /\ "unmatched" # "cache"
    OBVIOUS
  <2> QED BY <1>2, <1>5, <1>b, <2>1, FilterPasses
<1>6. CASE Misdirected(SniFor(here), r.ask.host)
  <2>1. f = Answer(here, 421)
    BY <1>6 DEF Filtered, here
  <2> QED BY <1>3, <1>6, <2>1 DEF here
<1>7. ASSUME ~Misdirected(SniFor(here), r.ask.host), r.from.via # "tls"
      PROVE  Leaves(here, f) /\ f.answer # 421
  <2>1. f = PlainHttp(here)
    BY <1>7 DEF Filtered, here
  <2>2. CASE r.ask.challenge
    <3>1. f = [here EXCEPT !.acme = TRUE, !.phase = "cache"] \/ f = Answer(here, 404)
      BY <1>5, <2>1, <2>2 DEF PlainHttp
    <3> HIDE DEF f
    <3>2. CASE f = Answer(here, 404)
      BY <1>3, <3>2
    <3>3. CASE f = [here EXCEPT !.acme = TRUE, !.phase = "cache"]
      <4>1. Leaves(here, f) /\ f.answer = 0
        BY <1>b, <3>3, Zenon
      <4> QED BY <4>1
    <3> QED BY <3>1, <3>2, <3>3
  <2>3. CASE ~r.ask.challenge
    <3>1. \/ f \in {Answer(held, 204), Answer(held, 200), Answer(here, 301)}
          \/ f = [held EXCEPT !.phase = "cache"]
          \/ f = [here EXCEPT !.phase = "unmatched"]
      BY <1>5, <2>1, <2>3 DEF PlainHttp, held, plan
    <3>2. CASE f \in {Answer(held, 204), Answer(held, 200), Answer(here, 301)}
      BY <1>3, <3>2
    <3>3. CASE f = [held EXCEPT !.phase = "cache"]
      <4>1. Leaves(held, f) /\ f.answer = 0
        <5>1. "cache" \in {"unmatched", "stages", "cache"} /\ "unmatched" # "cache"
          OBVIOUS
        <5>2. held.from.via # "tls" /\ InFilter(held)
          BY <1>2, <1>7
        <5> HIDE DEF f
        <5> QED BY <3>3, <5>1, <5>2, FilterPasses
      <4> QED BY <1>2, <4>1 DEF Leaves, KeepsOrigin
    <3>4. CASE f = [here EXCEPT !.phase = "unmatched"]
      <4> HIDE DEF f
      <4>1. Leaves(here, f) /\ f.answer = 0
        BY <1>a, <3>4, Zenon
      <4> QED BY <4>1
    <3> QED BY <3>1, <3>2, <3>3, <3>4
  <2> QED BY <2>2, <2>3
<1>8. ASSUME ~Misdirected(SniFor(here), r.ask.host), r.from.via = "tls"
      PROVE  Leaves(here, f) /\ f.answer # 421
  <2>1. f = Secured(here, verdict)
    BY <1>8 DEF Filtered, here
  <2>2. CASE verdict # 0
    <3>1. f = Answer(here, verdict)
      BY <2>1, <2>2 DEF Secured
    <3> QED BY <1>3, <1>4, <3>1
  <2>3. CASE verdict = 0
    <3>1. f = [here EXCEPT !.phase = "unmatched"] \/ f = [held EXCEPT !.phase = "stages"]
      <4>1. f = [here EXCEPT !.phase = "unmatched"] \/ f = [here EXCEPT !.plan = plan, !.phase = "stages"]
        BY <1>5, <2>1, <2>3 DEF Secured, plan
      <4>2. [here EXCEPT !.plan = plan, !.phase = "stages"] = [held EXCEPT !.phase = "stages"]
        BY DEF held
      <4> QED BY <4>1, <4>2
    <3>2. CASE f = [here EXCEPT !.phase = "unmatched"]
      <4> HIDE DEF f
      <4>1. Leaves(here, f) /\ f.answer = 0
        BY <1>a, <3>2, Zenon
      <4> QED BY <4>1
    <3>3. CASE f = [held EXCEPT !.phase = "stages"]
      <4>1. Leaves(held, f) /\ f.answer = 0
        BY <1>2, <3>3, FilterPasses
      <4> QED BY <1>2, <4>1 DEF Leaves, KeepsOrigin
    <3> QED BY <3>1, <3>2, <3>3
  <2> QED BY <2>2, <2>3
<1> QED BY <1>6, <1>7, <1>8 DEF here

\* The request has the scheme, port and client of its connection, and a 421 is about its SNI.
Scoped(s) ==
    /\ (s.scheme = "https") = (s.from.via \in {"terminate", "tls"})
    /\ s.port = s.from.port
    /\ s.client = Believed(s.from.client, s.ask)
    /\ s.answer = 421 => Misdirected(s.from.sni, s.ask.host)

\* Where a request came in, found under the source address of its connection: while the
\* connection is open, the entry is its own and so is the SNI, if there is one.
LEMMA LocatedOwn ==
  ASSUME RInv, NEW c \in Slots, req[c].phase = "filter", relay[c].state = "copying"
  PROVE  LET r == req[c]
             h == Located(r)
         IN  /\ (h.scheme = "https") = (r.from.via \in {"terminate", "tls"})
             /\ h.port = r.from.port /\ h.client = Believed(r.from.client, r.ask)
             /\ SniFor(h) = None \/ SniFor(h) = r.from.sni
<1> DEFINE r == req[c]
           h == Located(r)
<1>1. r \in Records /\ relay[c] \in Relays /\ r.from = relay[c] /\ r.addr = relay[c].addr
      /\ r.addr \in Addrs \cup {Remote}
  BY DEF RInv, RTypeOK, OnItsConnection, Relays
<1>2. (r.addr = Remote) <=> (r.from.via \in {"direct", "tls"})
  BY <1>1 DEF RInv, AddressesDistinct
<1>3. h.addr = r.addr
  BY <1>1 DEF Located, Records
<1>4. CASE r.addr = Remote
  <2>1. RelayContext(r.addr) = <<>>
    BY <1>4 DEF RelayContext
  <2>2. ClientOf(r) = Believed(r.from.client, r.ask)
    BY <1>4, <2>1 DEF ClientOf, SocketClient
  <2>3. h = [r EXCEPT !.seen = published, !.scheme = IF r.from.via = "tls" THEN "https" ELSE "http",
                      !.port = r.from.port, !.client = Believed(r.from.client, r.ask)]
    BY <1>4, <2>1, <2>2 DEF Located
  <2>4. /\ h.scheme = IF r.from.via = "tls" THEN "https" ELSE "http"
        /\ h.port = r.from.port /\ h.client = Believed(r.from.client, r.ask)
    BY <1>1, <2>3 DEF Records
  <2>5. SniFor(h) = None
    BY <1>3, <1>4 DEF SniFor
  <2> QED BY <1>2, <1>4, <2>4, <2>5
<1>5. CASE r.addr # Remote
  <2> DEFINE own == [port |-> r.from.port, secure |-> r.from.via = "terminate", client |-> r.from.client]
  <2>1. Registered(c) /\ r.addr \in Addrs
    BY <1>1, <1>5 DEF Registered
  <2>2. RelayContext(r.addr) = <<own>>
    BY <1>1, <1>5, <2>1 DEF RInv, MapsOwned, RelayContext, Entry
  <2>3. own.port = r.from.port /\ own.secure = (r.from.via = "terminate") /\ own.client = r.from.client
    OBVIOUS
  <2> HIDE DEF own
  <2>4. RelayContext(r.addr) # <<>> /\ RelayContext(r.addr)[1] = own
    BY <2>2
  <2>5. ClientOf(r) = Believed(own.client, r.ask)
    BY <2>4 DEF ClientOf, SocketClient
  <2>6. h = [r EXCEPT !.seen = published, !.scheme = IF own.secure THEN "https" ELSE "http",
                      !.port = own.port, !.client = Believed(own.client, r.ask)]
    BY <2>4, <2>5 DEF Located
  <2>7. h.scheme = (IF own.secure THEN "https" ELSE "http") /\ h.port = own.port
        /\ h.client = Believed(own.client, r.ask)
    BY <1>1, <2>6 DEF Records
  <2>8. SniFor(h) = None \/ SniFor(h) = r.from.sni
    <3>1. SniFor(h) = None \/ SniFor(h) = sni_context[r.addr]
      BY <1>3 DEF SniFor
    <3>2. ASSUME sni_context[r.addr] # None PROVE sni_context[r.addr] = r.from.sni
      <4>1. PICK d \in Slots : Registered(d) /\ relay[d].addr = r.addr /\ relay[d].sni = sni_context[r.addr]
        BY <2>1, <3>2 DEF RInv, MapsOwned
      <4>2. d = c
        BY <1>1, <1>5, <2>1, <4>1 DEF RInv, AddressesDistinct, Registered
      <4> QED BY <1>1, <4>1, <4>2
    <3> QED BY <3>1, <3>2
  <2>9. (h.scheme = "https") = (r.from.via \in {"terminate", "tls"})
    <3>1. r.from.via # "tls"
      BY <1>2, <1>5
    <3>2. CASE r.from.via = "terminate"
      <4>1. own.secure = TRUE
        BY <2>3, <3>2
      <4> QED BY <2>7, <3>2, <4>1
    <3>3. CASE r.from.via # "terminate"
      <4>1. own.secure = FALSE
        BY <2>3, <3>3
      <4> QED BY <2>7, <3>1, <3>3, <4>1
    <3> QED BY <3>2, <3>3
  <2> QED BY <2>3, <2>7, <2>8, <2>9
<1> QED BY <1>4, <1>5

\* Locating a request that is in the filter changes only where it came in.
LEMMA LocatedStep ==
  ASSUME RInv, NEW c \in Slots, req[c].phase = "filter"
  PROVE  LET r == req[c]
             h == Located(r)
         IN  /\ InFilter(h) /\ r.ask \in Asks
             /\ h.ask = r.ask /\ h.from = r.from /\ h.addr = r.addr
             /\ h.plan = NoPlan /\ h.seen = published
<1> DEFINE r == req[c]
           h == Located(r)
<1>1. r \in Records /\ Sound(r) /\ r.ask \in Asks /\ published \in Nat
  BY DEF RInv, RTypeOK
<1>2. PICK x \in Schemes, y \in Ports, z \in Nat :
         h = [r EXCEPT !.seen = published, !.scheme = x, !.port = y, !.client = z]
  <2>1. r.from \in Relays /\ r.from.port \in Ports /\ r.from.client \in Nat /\ Guess.scheme \in Schemes
        /\ Guess.port \in Ports /\ "http" \in Schemes /\ "https" \in Schemes /\ 0 \in Nat
    BY <1>1 DEF Records, Relays, Ports, Schemes
  <2>2. ASSUME RelayContext(r.addr) # <<>> PROVE RelayContext(r.addr)[1] \in Contexts
    <3>1. r.addr \in Addrs
      BY <1>1, <2>2 DEF RelayContext, Records
    <3>2. RelayContext(r.addr) \in Seq(Contexts)
      BY <2>2, <3>1 DEF RelayContext, RInv, RTypeOK
    <3> QED BY <2>2, <3>2
  <2>3. ClientOf(r) \in Nat
    <3>1. SocketClient(r) \in Nat
      BY <2>1, <2>2 DEF SocketClient, Contexts
    <3>2. r.ask.forwarded \in Nat
      BY <1>1, PipelineAssumption
    <3> QED BY <3>1, <3>2 DEF ClientOf, Believed
  <2>4. CASE RelayContext(r.addr) # <<>>
    <3> DEFINE info == RelayContext(r.addr)[1]
    <3>1. info \in Contexts /\ info.port \in Ports
      BY <2>2, <2>4 DEF Contexts
    <3>2. h = [r EXCEPT !.seen = published, !.scheme = IF info.secure THEN "https" ELSE "http",
                        !.port = info.port, !.client = ClientOf(r)]
      BY <2>4 DEF Located
    <3>3. (IF info.secure THEN "https" ELSE "http") \in Schemes
      BY <2>1
    <3> HIDE DEF h, info
    <3> QED BY <2>3, <3>1, <3>2, <3>3, Zenon
  <2>5. CASE RelayContext(r.addr) = <<>> /\ r.addr # Remote
    <3>1. h = [r EXCEPT !.seen = published, !.scheme = Guess.scheme, !.port = Guess.port, !.client = ClientOf(r)]
      BY <2>5 DEF Located
    <3> HIDE DEF h
    <3> QED BY <2>1, <2>3, <3>1, Zenon
  <2>6. CASE RelayContext(r.addr) = <<>> /\ r.addr = Remote
    <3>1. h = [r EXCEPT !.seen = published, !.scheme = IF r.from.via = "tls" THEN "https" ELSE "http",
                        !.port = r.from.port, !.client = ClientOf(r)]
      BY <2>6 DEF Located
    <3>3. (IF r.from.via = "tls" THEN "https" ELSE "http") \in Schemes
      BY <2>1
    <3> HIDE DEF h
    <3> QED BY <2>1, <2>3, <3>1, <3>3, Zenon
  <2> QED BY <2>4, <2>5, <2>6
<1> HIDE DEF h
<1>3. /\ h \in Records /\ h.phase = r.phase /\ h.answer = r.answer /\ h.plan = r.plan /\ h.peer = r.peer
      /\ h.ask = r.ask /\ h.from = r.from /\ h.addr = r.addr /\ h.seen = published
      /\ KeepsBody(r, h) /\ KeepsAuth(r, h) /\ KeepsCaching(r, h)
  BY <1>1, <1>2 DEF Records, KeepsBody, KeepsAuth, KeepsCaching
<1>4. r.plan = NoPlan /\ r.peer = None
  BY <1>1 DEF Sound, PlanSound, Early
<1>5. InFilter(h)
  BY <1>1, <1>3, <1>4 DEF InFilter, Sound, CacheSound, BodySound, AnswerSound, Early,
                          KeepsBody, KeepsAuth, KeepsCaching
<1> QED BY <1>1, <1>3, <1>4, <1>5 DEF h

\* request_filter: the request leaves the filter as one of its own connection; the SNI map only
\* loses entries.
LEMMA FilterStep ==
  ASSUME RInv, NEW c \in Slots, RequestFilter(c)
  PROVE  \E s : /\ req' = [req EXCEPT ![c] = s]
                /\ s \in Records /\ Sound(s) /\ s.phase \notin {"none", "filter"}
                /\ s.from = req[c].from /\ s.ask = req[c].ask /\ s.addr = req[c].addr
                /\ relay[c].state = "copying" => Scoped(s)
<1> DEFINE r == req[c]
           h == Located(r)
<1>1. PICK verdict \in Verdicts : r.phase = "filter" /\ req' = [req EXCEPT ![c] = Filtered(r, verdict)]
  BY DEF RequestFilter
<1>2. /\ InFilter(h) /\ r.ask \in Asks /\ h.ask = r.ask /\ h.from = r.from /\ h.addr = r.addr
      /\ h.plan = NoPlan /\ h.seen = published
  BY <1>1, LocatedStep
<1>3. /\ Leaves(h, Filtered(r, verdict))
      /\ Filtered(r, verdict).answer = 421 => Misdirected(SniFor(h), r.ask.host)
  BY <1>2, FilteredLeaves
<1> DEFINE s == Filtered(r, verdict)
<1> HIDE DEF s, h
<1>4. s \in Records /\ Sound(s) /\ s.phase \notin {"none", "filter"} /\ KeepsOrigin(h, s)
  BY <1>3 DEF Leaves, s
<1>5. s.from = r.from /\ s.ask = r.ask /\ s.addr = r.addr
  BY <1>2, <1>4 DEF KeepsOrigin
<1>6. ASSUME relay[c].state = "copying" PROVE Scoped(s)
  <2>1. /\ (h.scheme = "https") = (r.from.via \in {"terminate", "tls"})
        /\ h.port = r.from.port /\ h.client = Believed(r.from.client, r.ask)
        /\ SniFor(h) = None \/ SniFor(h) = r.from.sni
    BY <1>1, <1>6, LocatedOwn DEF h
  <2>2. s.answer = 421 => Misdirected(r.from.sni, r.ask.host)
    BY <1>3, <2>1 DEF Misdirected, s
  <2> QED BY <1>4, <1>5, <2>1, <2>2 DEF Scoped, KeepsOrigin
<1>7. req' = [req EXCEPT ![c] = s]
  BY <1>1 DEF s
<1> QED BY <1>4, <1>5, <1>6, <1>7

-----------------------------------------------------------------------------
(* The invariant is preserved. *)

\* A slot without a connection or a request is sound.
LEMMA IdleSound == FreeRelay \in Relays /\ Idle \in Records /\ Sound(Idle) /\ Idle.phase = "none"
<1>1. FreeRelay \in Relays
  BY DEF FreeRelay, Relays, Vias, Ports, Snis
<1>2. NoPlan \in Plans /\ Off \in Seq(Nat) /\ <<>> \in Seq(Nat)
  BY DEF Plans, Off
<1>3. Idle \in Records
  BY <1>1, <1>2 DEF Idle, Records, PhaseNames, Ports, Schemes, Peers
<1>4. /\ Idle.phase = "none" /\ Idle.plan = NoPlan /\ Idle.peer = None /\ ~Idle.caching /\ ~Idle.personal
      /\ ~Idle.auth_headers /\ Idle.out = <<>> /\ Idle.buffer = Off /\ Idle.chunks = 0 /\ ~Idle.cut
  BY DEF Idle
<1> QED BY <1>1, <1>3, <1>4 DEF Sound, PlanSound, CacheSound, BodySound, AnswerSound, Early, Past, None

\* One request changes: the invariant needs it sound, and of the connection of its slot.
LEMMA RequestStep ==
  ASSUME RInv, NEW c \in Slots, NEW s \in Records, Sound(s), req' = [req EXCEPT ![c] = s],
         UNCHANGED <<published, relay, http_context, clients>>, CacheClean',
         sni_context' \in [Addrs -> Snis],
         \A a \in Addrs : sni_context'[a] = None \/ sni_context'[a] = sni_context[a],
         s.phase # "none" => s.ask \in Asks,
         relay[c].state = "connected" => s.phase = "none",
         relay[c].state = "copying" /\ s.phase # "none" => s.from = relay[c] /\ s.addr = relay[c].addr,
         relay[c].state = "copying" /\ s.phase \notin {"none", "filter"} => Scoped(s)
  PROVE  RInv'
<1>1. req \in [Slots -> Records]
  BY DEF RInv, RTypeOK
<1>2. req' \in [Slots -> Records] /\ req'[c] = s /\ \A d \in Slots : d # c => req'[d] = req[d]
  BY <1>1
<1>3. RTypeOK'
  BY <1>2 DEF RInv, RTypeOK
<1>4. \A d \in Slots : Sound(req'[d])
  BY <1>2 DEF RInv
<1>5. AddressesDistinct'
  BY DEF RInv, AddressesDistinct
<1>6. MapsOwned'
  BY DEF RInv, MapsOwned, Registered
<1>7. OnItsConnection'
  BY <1>2 DEF RInv, OnItsConnection
<1>8. ScopedToListener'
  <2> SUFFICES ASSUME NEW d \in Slots, Started(d)', relay[d].state = "copying" PROVE Scoped(req'[d])
    BY DEF ScopedToListener, Scoped
  <2>1. CASE d = c
    BY <1>2, <2>1 DEF Started
  <2>2. CASE d # c
    BY <1>2, <2>2 DEF Started, RInv, ScopedToListener, Scoped
  <2> QED BY <2>1, <2>2
<1> QED BY <1>3, <1>4, <1>5, <1>6, <1>7, <1>8 DEF RInv

\* One relay changes: the invariant needs the maps owned, and a connection that opens has sent
\* no request yet.
LEMMA RelayStep ==
  ASSUME RInv, NEW c \in Slots, NEW x \in Relays, relay' = [relay EXCEPT ![c] = x],
         UNCHANGED <<published, req, cache>>, clients' \in Nat,
         http_context' \in [Addrs -> Seq(Contexts)], sni_context' \in [Addrs -> Snis],
         AddressesDistinct', MapsOwned',
         x.state \in {"connected", "copying"} => req[c].phase = "none"
  PROVE  RInv'
<1>1. relay \in [Slots -> Relays]
  BY DEF RInv, RTypeOK
<1>2. relay' \in [Slots -> Relays] /\ relay'[c] = x /\ \A d \in Slots : d # c => relay'[d] = relay[d]
  BY <1>1
<1>3. RTypeOK'
  BY <1>2 DEF RInv, RTypeOK
<1>4. (\A d \in Slots : Sound(req'[d])) /\ CacheClean'
  BY DEF RInv, CacheClean
<1>5. OnItsConnection'
  BY <1>2 DEF RInv, OnItsConnection
<1>6. ScopedToListener'
  BY <1>2 DEF RInv, ScopedToListener, Started
<1> QED BY <1>3, <1>4, <1>5, <1>6 DEF RInv

\* A relay whose state moves on keeps its socket until it drops it.
LEMMA StateMoves ==
  ASSUME RInv, NEW c \in Slots, NEW x \in Relays, relay' = [relay EXCEPT ![c] = x],
         relay[c].state # "free", x.state # "connected", x.state = "removed" => x.addr # Remote,
         x.state # "free" => x.addr = relay[c].addr /\ x.via = relay[c].via
  PROVE  AddressesDistinct'
<1>1. relay \in [Slots -> Relays]
  BY DEF RInv, RTypeOK
<1>2. relay'[c] = x /\ \A d \in Slots : d # c => relay'[d] = relay[d]
  BY <1>1
<1>3. \A d \in Slots : relay'[d].state # "free" =>
          relay[d].state # "free" /\ relay'[d].addr = relay[d].addr /\ relay'[d].via = relay[d].via
  BY <1>2
<1>4. AddressesDistinct
  BY DEF RInv
<1>5. \A d, e \in Slots : relay'[d].state # "free" /\ relay'[e].state # "free"
          /\ relay'[d].addr = relay'[e].addr /\ relay'[d].addr # Remote => d = e
  BY <1>3, <1>4 DEF AddressesDistinct
<1>6. \A d \in Slots : relay'[d].state # "free" =>
          ((relay'[d].addr = Remote) <=> (relay'[d].via \in {"direct", "tls"}))
  BY <1>3, <1>4 DEF AddressesDistinct
<1>7. \A d \in Slots : relay'[d].state \in {"connected", "removed"} => relay'[d].addr # Remote
  BY <1>2, <1>4 DEF AddressesDistinct
<1> QED BY <1>5, <1>6, <1>7 DEF AddressesDistinct

\* A connection is accepted: its source address is nobody else's.
LEMMA AcceptStep ==
  ASSUME RInv, NEW c \in Slots, NEW a \in Addrs \cup {Remote}, NEW k \in Arrivals, Accept(c, a, k)
  PROVE  RInv'
<1> DEFINE x == [state |-> IF a = Remote THEN "copying" ELSE "connected", addr |-> a,
                 client |-> clients + 1, via |-> k.via, port |-> k.port, sni |-> k.sni]
<1>1. /\ relay[c].state = "free" /\ req[c].phase = "none" /\ relay' = [relay EXCEPT ![c] = x]
      /\ a # Remote => \A d \in Slots : relay[d].state # "free" => relay[d].addr # a
      /\ (a = Remote) = (k.via \in {"direct", "tls"}) /\ clients' = clients + 1
      /\ UNCHANGED <<published, req, cache, http_context, sni_context>>
  BY DEF Accept
<1>2. relay \in [Slots -> Relays] /\ clients \in Nat /\ clients' \in Nat
      /\ http_context' \in [Addrs -> Seq(Contexts)] /\ sni_context' \in [Addrs -> Snis]
  BY <1>1 DEF RInv, RTypeOK
<1>3. x \in Relays
  BY <1>2 DEF Relays, Vias, Ports, Snis
<1>4. /\ x.addr = a /\ x.via = k.via /\ x.state # "free" /\ x.state # "removed"
      /\ a = Remote => x.state = "copying"
      /\ a # Remote => x.state = "connected"
  OBVIOUS
<1> HIDE DEF x
<1>5. relay'[c] = x /\ \A d \in Slots : d # c => relay'[d] = relay[d]
  BY <1>1, <1>2, <1>3
<1>6. AddressesDistinct'
  <2>1. AddressesDistinct
    BY DEF RInv
  <2>2. \A d, e \in Slots : relay'[d].state # "free" /\ relay'[e].state # "free"
          /\ relay'[d].addr = relay'[e].addr /\ relay'[d].addr # Remote => d = e
    BY <1>1, <1>4, <1>5, <2>1 DEF AddressesDistinct
  <2>3. \A d \in Slots : relay'[d].state # "free" =>
          ((relay'[d].addr = Remote) <=> (relay'[d].via \in {"direct", "tls"}))
    BY <1>1, <1>4, <1>5, <2>1 DEF AddressesDistinct
  <2>4. \A d \in Slots : relay'[d].state \in {"connected", "removed"} => relay'[d].addr # Remote
    BY <1>4, <1>5, <2>1 DEF AddressesDistinct
  <2> QED BY <2>2, <2>3, <2>4 DEF AddressesDistinct
<1>7. MapsOwned'
  <2>1. \A d \in Slots : Registered(d)' <=> Registered(d) /\ d # c
    BY <1>1, <1>4, <1>5 DEF Registered
  <2>2. \A d \in Slots : Registered(d) => d # c
    BY <1>1 DEF Registered
  <2>3. MapsOwned /\ http_context' = http_context /\ sni_context' = sni_context
    BY <1>1 DEF RInv
  <2>4. \A d \in Slots : Registered(d)' => http_context'[relay'[d].addr] = Entry(relay'[d])
    BY <1>5, <2>1, <2>3 DEF MapsOwned
  <2>5. \A b \in Addrs : sni_context'[b] # None =>
          \E d \in Slots : /\ Registered(d)' /\ relay'[d].addr = b /\ relay'[d].via = "terminate"
                           /\ relay'[d].sni = sni_context'[b]
    BY <1>5, <2>1, <2>2, <2>3 DEF MapsOwned
  <2> QED BY <2>4, <2>5 DEF MapsOwned
<1> QED BY <1>1, <1>2, <1>3, <1>6, <1>7, RelayStep

\* The relay registers: nobody else has an entry under its address.
LEMMA RegisterStep ==
  ASSUME RInv, NEW c \in Slots, Register(c)
  PROVE  RInv'
<1> DEFINE r == relay[c]
           x == [r EXCEPT !.state = "copying"]
           own == Entry(r)
<1>1. /\ relay \in [Slots -> Relays] /\ r \in Relays /\ r.state = "connected" /\ r.addr \in Addrs
      /\ req[c].phase = "none" /\ UNCHANGED <<published, req, cache, clients>>
  BY DEF RInv, RTypeOK, Register, AddressesDistinct, OnItsConnection, Relays
<1>2. /\ http_context \in [Addrs -> Seq(Contexts)] /\ sni_context \in [Addrs -> Snis] /\ clients \in Nat
  BY DEF RInv, RTypeOK
<1>3. /\ x \in Relays /\ x.state = "copying" /\ x.addr = r.addr /\ x.via = r.via /\ x.sni = r.sni
      /\ x.port = r.port /\ x.client = r.client
  BY <1>1 DEF Relays
<1>4. own \in Seq(Contexts)
  <2>1. [port |-> r.port, secure |-> r.via = "terminate", client |-> r.client] \in Contexts
    BY <1>1 DEF Contexts, Relays
  <2> QED BY <2>1 DEF Entry
<1>5. relay' = [relay EXCEPT ![c] = x] /\ http_context' = [http_context EXCEPT ![r.addr] = own]
      /\ sni_context' = IF r.via = "terminate" /\ r.sni # None
                        THEN [sni_context EXCEPT ![r.addr] = r.sni] ELSE sni_context
  BY DEF Register, Entry
<1> HIDE DEF x
<1>6. relay'[c] = x /\ \A d \in Slots : d # c => relay'[d] = relay[d]
  BY <1>1, <1>3, <1>5
<1>7. http_context' \in [Addrs -> Seq(Contexts)] /\ http_context'[r.addr] = own
      /\ \A a \in Addrs : a # r.addr => http_context'[a] = http_context[a]
  BY <1>1, <1>2, <1>4, <1>5
<1>8. sni_context' \in [Addrs -> Snis]
      /\ \A a \in Addrs : sni_context'[a] = sni_context[a]
                          \/ (a = r.addr /\ sni_context'[a] = r.sni /\ r.via = "terminate")
  <2>1. r.sni \in Snis
    BY <1>1 DEF Relays
  <2> QED BY <1>1, <1>2, <1>5, <2>1
<1>9. AddressesDistinct'
  BY <1>1, <1>3, <1>5, StateMoves
<1>10. Remote \notin Addrs
  BY PipelineAssumption
<1>11. \A d \in Slots : Registered(d)' <=> Registered(d) \/ d = c
  BY <1>1, <1>3, <1>6, <1>10 DEF Registered
<1>12. \A d \in Slots : d # c /\ Registered(d) => relay[d].addr # r.addr /\ relay[d].addr \in Addrs
  BY <1>1, <1>10 DEF RInv, AddressesDistinct, Registered, Relays
<1>13. \A d \in Slots : Registered(d)' =>
          http_context'[relay'[d].addr] = Entry(relay'[d])
  <2> SUFFICES ASSUME NEW d \in Slots, Registered(d)'
               PROVE  http_context'[relay'[d].addr] = Entry(relay'[d])
    OBVIOUS
  <2>1. CASE d = c
    <3>1. Entry(x) = own
      BY <1>3 DEF Entry
    <3> QED BY <1>3, <1>6, <1>7, <2>1, <3>1
  <2>2. CASE d # c
    BY <1>6, <1>7, <1>11, <1>12, <2>2 DEF RInv, MapsOwned
  <2> QED BY <2>1, <2>2
<1>14. \A a \in Addrs : sni_context'[a] # None =>
          \E d \in Slots : /\ Registered(d)' /\ relay'[d].addr = a /\ relay'[d].via = "terminate"
                           /\ relay'[d].sni = sni_context'[a]
  <2> SUFFICES ASSUME NEW a \in Addrs, sni_context'[a] # None
               PROVE  \E d \in Slots : /\ Registered(d)' /\ relay'[d].addr = a /\ relay'[d].via = "terminate"
                                       /\ relay'[d].sni = sni_context'[a]
    OBVIOUS
  <2>1. CASE sni_context'[a] = sni_context[a]
    <3>1. PICK d \in Slots : Registered(d) /\ relay[d].addr = a /\ relay[d].via = "terminate"
                             /\ relay[d].sni = sni_context[a]
      BY <2>1 DEF RInv, MapsOwned
    <3>2. d # c
      BY <1>1, <3>1 DEF Registered
    <3> QED BY <1>6, <1>11, <2>1, <3>1, <3>2
  <2>2. CASE a = r.addr /\ sni_context'[a] = r.sni /\ r.via = "terminate"
    BY <1>3, <1>6, <1>11, <2>2
  <2> QED BY <1>8, <2>1, <2>2
<1>15. MapsOwned'
  BY <1>13, <1>14 DEF MapsOwned
<1> QED BY <1>1, <1>2, <1>3, <1>5, <1>7, <1>8, <1>9, <1>15, RelayStep

\* The copying ends: the relay stays registered.
LEMMA CopyEndsStep ==
  ASSUME RInv, NEW c \in Slots, CopyEnds(c)
  PROVE  RInv'
<1> DEFINE x == [relay[c] EXCEPT !.state = "ended"]
<1>1. /\ relay[c].state = "copying" /\ relay' = [relay EXCEPT ![c] = x]
      /\ UNCHANGED <<published, req, cache, clients, http_context, sni_context>>
  BY DEF CopyEnds
<1>2. /\ relay \in [Slots -> Relays] /\ relay[c] \in Relays /\ clients' \in Nat
      /\ http_context' \in [Addrs -> Seq(Contexts)] /\ sni_context' \in [Addrs -> Snis]
  BY <1>1 DEF RInv, RTypeOK
<1>3. /\ x \in Relays /\ x.state = "ended" /\ x.addr = relay[c].addr /\ x.via = relay[c].via
      /\ x.sni = relay[c].sni /\ x.port = relay[c].port /\ x.client = relay[c].client
  BY <1>2 DEF Relays
<1> HIDE DEF x
<1>4. relay'[c] = x /\ \A d \in Slots : d # c => relay'[d] = relay[d]
  BY <1>1, <1>2, <1>3
<1>5. AddressesDistinct'
  BY <1>1, <1>3, StateMoves
<1>6. \A d \in Slots : /\ Registered(d)' <=> Registered(d)
                       /\ relay'[d].addr = relay[d].addr /\ relay'[d].via = relay[d].via
                       /\ relay'[d].sni = relay[d].sni /\ Entry(relay'[d]) = Entry(relay[d])
  <2>1. Entry(x) = Entry(relay[c])
    BY <1>3 DEF Entry
  <2> QED BY <1>1, <1>3, <1>4, <2>1 DEF Registered
<1>7. MapsOwned'
  <2>1. MapsOwned /\ http_context' = http_context /\ sni_context' = sni_context
    BY <1>1 DEF RInv
  <2>2. \A d \in Slots : Registered(d)' => http_context'[relay'[d].addr] = Entry(relay'[d])
    BY <1>6, <2>1 DEF MapsOwned
  <2>3. \A b \in Addrs : sni_context'[b] # None =>
          \E d \in Slots : /\ Registered(d)' /\ relay'[d].addr = b /\ relay'[d].via = "terminate"
                           /\ relay'[d].sni = sni_context'[b]
    BY <1>6, <2>1 DEF MapsOwned
  <2> QED BY <2>2, <2>3 DEF MapsOwned
<1> QED BY <1>1, <1>2, <1>3, <1>5, <1>7, RelayStep

\* A relay that is not registered any more: its entries are gone and the others still own theirs.
LEMMA EntriesStay ==
  ASSUME RInv, NEW c \in Slots, NEW x \in Relays, relay' = [relay EXCEPT ![c] = x],
         x.state \in {"free", "removed"}, relay[c].state # "free",
         http_context' = http_context \/
            (relay[c].addr # Remote /\ http_context' = [http_context EXCEPT ![relay[c].addr] = <<>>]),
         sni_context' = sni_context \/ sni_context' = [sni_context EXCEPT ![relay[c].addr] = None],
         Registered(c) /\ relay[c].via = "terminate" =>
            sni_context' = [sni_context EXCEPT ![relay[c].addr] = None]
  PROVE  MapsOwned' /\ http_context' \in [Addrs -> Seq(Contexts)] /\ sni_context' \in [Addrs -> Snis]
<1>1. /\ relay \in [Slots -> Relays] /\ http_context \in [Addrs -> Seq(Contexts)]
      /\ sni_context \in [Addrs -> Snis] /\ relay[c] \in Relays
  BY DEF RInv, RTypeOK
<1>2. relay'[c] = x /\ \A d \in Slots : d # c => relay'[d] = relay[d]
  BY <1>1
<1>3. \A d \in Slots : Registered(d)' <=> Registered(d) /\ d # c
  BY <1>2 DEF Registered
<1>4. \A d \in Slots : Registered(d) /\ d # c => relay[d].addr # relay[c].addr /\ relay[d].addr \in Addrs
  BY <1>1 DEF RInv, AddressesDistinct, Registered, Relays
<1>5. MapsOwned
  BY DEF RInv
<1>6. \A d \in Slots : Registered(d)' => http_context'[relay'[d].addr] = Entry(relay'[d])
  <2> SUFFICES ASSUME NEW d \in Slots, Registered(d)' PROVE http_context'[relay'[d].addr] = Entry(relay'[d])
    OBVIOUS
  <2>1. d # c /\ Registered(d) /\ relay'[d] = relay[d]
    BY <1>2, <1>3
  <2>2. http_context'[relay[d].addr] = http_context[relay[d].addr]
    BY <1>1, <1>4, <2>1
  <2> QED BY <1>5, <2>1, <2>2 DEF MapsOwned
<1>7. \A b \in Addrs : sni_context'[b] # None =>
        \E d \in Slots : /\ Registered(d)' /\ relay'[d].addr = b /\ relay'[d].via = "terminate"
                         /\ relay'[d].sni = sni_context'[b]
  <2> SUFFICES ASSUME NEW b \in Addrs, sni_context'[b] # None
               PROVE  \E d \in Slots : /\ Registered(d)' /\ relay'[d].addr = b /\ relay'[d].via = "terminate"
                                       /\ relay'[d].sni = sni_context'[b]
    OBVIOUS
  <2>1. sni_context'[b] = sni_context[b]
    BY <1>1
  <2>2. PICK d \in Slots : /\ Registered(d) /\ relay[d].addr = b /\ relay[d].via = "terminate"
                           /\ relay[d].sni = sni_context[b]
    BY <1>5, <2>1 DEF MapsOwned
  <2>3. d # c
    BY <1>1, <2>2
  <2> QED BY <1>2, <1>3, <2>1, <2>2, <2>3
<1>8. <<>> \in Seq(Contexts) /\ None \in Snis
  BY DEF Snis
<1>9. http_context' \in [Addrs -> Seq(Contexts)] /\ sni_context' \in [Addrs -> Snis]
  BY <1>1, <1>8
<1> QED BY <1>6, <1>7, <1>9 DEF MapsOwned

\* The relay unregisters before it gives its address up.
LEMMA UnregisterStep ==
  ASSUME RInv, NEW c \in Slots, Unregister(c)
  PROVE  RInv'
<1> DEFINE r == relay[c]
           x == IF r.addr = Remote THEN FreeRelay ELSE [r EXCEPT !.state = "removed"]
<1>1. /\ r.state = "ended" /\ relay' = [relay EXCEPT ![c] = x] /\ UNCHANGED <<published, req, cache, clients>>
      /\ http_context' = IF r.addr = Remote THEN http_context ELSE [http_context EXCEPT ![r.addr] = <<>>]
      /\ sni_context' = IF r.via = "terminate" THEN [sni_context EXCEPT ![r.addr] = None] ELSE sni_context
  BY DEF Unregister
<1>2. relay \in [Slots -> Relays] /\ r \in Relays /\ clients' \in Nat
  BY <1>1 DEF RInv, RTypeOK
<1>3. /\ x \in Relays /\ x.state \in {"free", "removed"}
      /\ x.state = "removed" => x.addr # Remote
      /\ x.state # "free" => x.addr = r.addr /\ x.via = r.via
  <2>1. CASE r.addr = Remote
    <3>1. x = FreeRelay /\ FreeRelay.state = "free"
      BY <2>1 DEF FreeRelay
    <3> QED BY <3>1, IdleSound
  <2>2. CASE r.addr # Remote
    <3>1. x = [r EXCEPT !.state = "removed"]
      BY <2>2
    <3> HIDE DEF x
    <3>2. x \in Relays /\ x.state = "removed" /\ x.addr = r.addr /\ x.via = r.via
      BY <1>2, <3>1 DEF Relays
    <3> QED BY <2>2, <3>2
  <2> QED BY <2>1, <2>2
<1> HIDE DEF x
<1>4. AddressesDistinct'
  BY <1>1, <1>3, StateMoves
<1>5. MapsOwned' /\ http_context' \in [Addrs -> Seq(Contexts)] /\ sni_context' \in [Addrs -> Snis]
  BY <1>1, <1>3, EntriesStay
<1> QED BY <1>1, <1>2, <1>3, <1>4, <1>5, RelayStep

\* The socket of a relay that has unregistered is closed.
LEMMA DropSocketStep ==
  ASSUME RInv, NEW c \in Slots, DropSocket(c)
  PROVE  RInv'
<1>1. /\ relay[c].state = "removed" /\ relay' = [relay EXCEPT ![c] = FreeRelay]
      /\ UNCHANGED <<published, req, cache, clients, http_context, sni_context>>
  BY DEF DropSocket
<1>2. clients' \in Nat /\ FreeRelay \in Relays /\ FreeRelay.state = "free"
  BY <1>1, IdleSound DEF RInv, RTypeOK, FreeRelay
<1>3. ~Registered(c)
  BY <1>1 DEF Registered
<1>4. AddressesDistinct'
  BY <1>1, <1>2, StateMoves
<1>5. MapsOwned' /\ http_context' \in [Addrs -> Seq(Contexts)] /\ sni_context' \in [Addrs -> Snis]
  BY <1>1, <1>2, <1>3, EntriesStay
<1> QED BY <1>1, <1>2, <1>4, <1>5, RelayStep

\* A request arrives on its connection.
LEMMA ArriveStep ==
  ASSUME RInv, NEW c \in Slots, NEW q \in Asks, Arrive(c, q)
  PROVE  RInv'
<1> DEFINE r == relay[c]
           s == [Idle EXCEPT !.phase = "filter", !.ask = q, !.addr = r.addr, !.from = r]
<1>1. /\ r.state = "copying" /\ req' = [req EXCEPT ![c] = s]
      /\ UNCHANGED <<published, relay, http_context, sni_context, cache, clients>>
  BY DEF Arrive
<1>2. r \in Relays /\ sni_context' \in [Addrs -> Snis]
  BY <1>1 DEF RInv, RTypeOK
<1>3. /\ s \in Records /\ s.phase = "filter" /\ s.ask = q /\ s.addr = r.addr /\ s.from = r
      /\ s.plan = Idle.plan /\ s.peer = Idle.peer /\ s.answer = Idle.answer
      /\ KeepsBody(Idle, s) /\ KeepsAuth(Idle, s) /\ KeepsCaching(Idle, s)
  BY <1>2, IdleSound DEF Records, Relays, PhaseNames, KeepsBody, KeepsAuth, KeepsCaching
<1> HIDE DEF s
<1>4. Idle.answer = 0 /\ Idle.plan = NoPlan /\ Idle.phase = "none" /\ Sound(Idle)
  BY IdleSound DEF Idle
<1>5. Sound(s)
  BY <1>3, <1>4 DEF Sound, PlanSound, CacheSound, BodySound, AnswerSound, Early, Past, None,
                    KeepsBody, KeepsAuth, KeepsCaching
<1>6. CacheClean' /\ \A a \in Addrs : sni_context'[a] = sni_context[a]
  BY <1>1 DEF RInv, CacheClean
<1>7. s.phase # "none" /\ s.phase \in {"none", "filter"}
  BY <1>3
<1>8. r.state # "connected"
  BY <1>1
<1>9. s.ask \in Asks /\ s.from = r /\ s.addr = r.addr
  BY <1>3
<1>10. UNCHANGED <<published, relay, http_context, clients>>
  BY <1>1
<1> QED BY <1>1, <1>2, <1>3, <1>5, <1>6, <1>7, <1>8, <1>9, <1>10, RequestStep

\* logging ends the request.
LEMMA LoggingStep ==
  ASSUME RInv, NEW c \in Slots, Logging(c)
  PROVE  RInv'
<1>1. /\ req' = [req EXCEPT ![c] = Idle]
      /\ UNCHANGED <<published, relay, http_context, sni_context, cache, clients>>
  BY DEF Logging
<1>2. sni_context' \in [Addrs -> Snis] /\ CacheClean' /\ \A a \in Addrs : sni_context'[a] = sni_context[a]
  BY <1>1 DEF RInv, RTypeOK, CacheClean
<1>3. Idle \in Records /\ Sound(Idle) /\ Idle.phase = "none"
  BY IdleSound
<1> QED BY <1>1, <1>2, <1>3, RequestStep

\* A request in flight, past the filter, goes on as one of its own connection.
LEMMA LaterStep ==
  ASSUME RInv, NEW c \in Slots, LaterPhase(c)
  PROVE  RInv'
<1>1. /\ Goes(c) /\ req[c].phase \notin {"none", "filter", "logging"}
      /\ UNCHANGED <<published, relay, http_context, sni_context, active, clients>>
      /\ CacheClean'
  BY PhaseStep
<1>2. PICK s : req' = [req EXCEPT ![c] = s] /\ Follows(req[c], s)
  BY <1>1 DEF Goes
<1>3. s \in Records /\ Sound(s) /\ SameOrigin(req[c], s) /\ s.phase \notin {"none", "filter"}
  BY <1>2 DEF Follows
<1>4. sni_context' \in [Addrs -> Snis] /\ \A a \in Addrs : sni_context'[a] = sni_context[a]
  BY <1>1 DEF RInv, RTypeOK
<1>5. s.ask \in Asks /\ relay[c].state # "connected"
  BY <1>1, <1>3 DEF RInv, RTypeOK, OnItsConnection, SameOrigin
<1>6. ASSUME relay[c].state = "copying" PROVE s.from = relay[c] /\ s.addr = relay[c].addr /\ Scoped(s)
  <2>1. req[c].from = relay[c] /\ req[c].addr = relay[c].addr
    BY <1>1, <1>6 DEF RInv, OnItsConnection
  <2>2. Scoped(req[c])
    BY <1>1, <1>6 DEF RInv, ScopedToListener, Started, Scoped
  <2> QED BY <1>3, <2>1, <2>2 DEF SameOrigin, Scoped
<1>7. UNCHANGED <<published, relay, http_context, clients>>
  BY <1>1
<1> QED BY <1>1, <1>2, <1>3, <1>4, <1>5, <1>6, <1>7, RequestStep

\* So does a request that the filter lets through or answers.
LEMMA FilterKeeps ==
  ASSUME RInv, NEW c \in Slots, RequestFilter(c)
  PROVE  RInv'
<1>1. /\ req[c].phase = "filter" /\ UNCHANGED <<published, relay, http_context, cache, clients>>
      /\ sni_context' = [a \in Addrs |->
           IF a = req[c].addr /\ Located(req[c]).scheme = "https" THEN None ELSE sni_context[a]]
  BY DEF RequestFilter
<1>2. PICK s : /\ req' = [req EXCEPT ![c] = s]
               /\ s \in Records /\ Sound(s) /\ s.phase \notin {"none", "filter"}
               /\ s.from = req[c].from /\ s.ask = req[c].ask /\ s.addr = req[c].addr
               /\ relay[c].state = "copying" => Scoped(s)
  BY FilterStep
<1>3. /\ sni_context' \in [Addrs -> Snis]
      /\ \A a \in Addrs : sni_context'[a] = None \/ sni_context'[a] = sni_context[a]
  BY <1>1 DEF RInv, RTypeOK, Snis
<1>4. s.ask \in Asks /\ relay[c].state # "connected"
  BY <1>1, <1>2 DEF RInv, RTypeOK, OnItsConnection
<1>5. relay[c].state = "copying" => s.from = relay[c] /\ s.addr = relay[c].addr
  BY <1>1, <1>2 DEF RInv, OnItsConnection
<1>6. CacheClean' /\ UNCHANGED <<published, relay, http_context, clients>>
  BY <1>1 DEF RInv, CacheClean
<1> QED BY <1>2, <1>3, <1>4, <1>5, <1>6, RequestStep

\* Tables are published and challenges come and go without touching requests or relays.
LEMMA QuietStep ==
  ASSUME RInv, published' \in Nat, UNCHANGED <<relay, http_context, sni_context, req, cache, clients>>
  PROVE  RInv'
<1>1. RTypeOK' /\ (\A c \in Slots : Sound(req'[c])) /\ CacheClean'
  BY DEF RInv, RTypeOK, CacheClean
<1>2. AddressesDistinct' /\ OnItsConnection' /\ ScopedToListener'
  BY DEF RInv, AddressesDistinct, OnItsConnection, ScopedToListener, Started
<1>3. MapsOwned'
  <2>1. MapsOwned
    BY DEF RInv
  <2> QED BY <2>1 DEF MapsOwned, Registered
<1> QED BY <1>1, <1>2, <1>3 DEF RInv

\* No request and no relay: the invariant holds when the proxy starts.
LEMMA RInvInit == RInit => RInv
<1> SUFFICES ASSUME RInit PROVE RInv
  OBVIOUS
<1>1. /\ \A c \in Slots : relay[c] = FreeRelay /\ req[c] = Idle
      /\ \A a \in Addrs : sni_context[a] = None
  BY DEF RInit
<1>2. FreeRelay.state = "free" /\ Idle.phase = "none"
  BY IdleSound DEF FreeRelay
<1>3. RTypeOK
  <2>1. <<>> \in Seq(Contexts) /\ None \in Snis
    BY DEF Snis
  <2> QED BY <1>1, <1>2, <2>1, IdleSound DEF RInit, RTypeOK
<1>4. (\A c \in Slots : Sound(req[c])) /\ CacheClean
  BY <1>1, IdleSound DEF RInit, CacheClean
<1>5. AddressesDistinct /\ MapsOwned
  BY <1>1, <1>2 DEF AddressesDistinct, MapsOwned, Registered
<1>6. OnItsConnection /\ ScopedToListener
  BY <1>1, <1>2 DEF OnItsConnection, ScopedToListener, Started
<1> QED BY <1>3, <1>4, <1>5, <1>6 DEF RInv

\* Every step of a relay, a request or the configuration preserves it.
LEMMA RInvInductive == RInv /\ [RNext]_rvars => RInv'
<1> SUFFICES ASSUME RInv, [RNext]_rvars PROVE RInv'
  OBVIOUS
<1>1. CASE SwapRoutes
  <2>1. published' \in Nat
    BY <1>1 DEF RInv, RTypeOK, SwapRoutes
  <2> QED BY <1>1, <2>1, QuietStep DEF SwapRoutes
<1>2. CASE WatchIngresses \/ UNCHANGED rvars
  <2>1. published' \in Nat
    BY <1>2 DEF RInv, RTypeOK, WatchIngresses, rvars
  <2> QED BY <1>2, <2>1, QuietStep DEF WatchIngresses, rvars
<1>3. ASSUME NEW c \in Slots, NEW a \in Addrs \cup {Remote}, NEW k \in Arrivals, Accept(c, a, k)
      PROVE  RInv'
  BY <1>3, AcceptStep
<1>4. ASSUME NEW c \in Slots, Register(c) \/ CopyEnds(c) \/ Unregister(c) \/ DropSocket(c)
      PROVE  RInv'
  BY <1>4, RegisterStep, CopyEndsStep, UnregisterStep, DropSocketStep
<1>5. ASSUME NEW c \in Slots, NEW q \in Asks, Arrive(c, q)
      PROVE  RInv'
  BY <1>5, ArriveStep
<1>6. ASSUME NEW c \in Slots, Phases(c) \/ ExecuteAuthStage(c)
      PROVE  RInv'
  <2>1. RequestFilter(c) \/ LaterPhase(c) \/ Logging(c)
    BY <1>6 DEF Phases, LaterPhase
  <2> QED BY <2>1, FilterKeeps, LaterStep, LoggingStep
<1> QED BY <1>1, <1>2, <1>3, <1>4, <1>5, <1>6 DEF RNext

-----------------------------------------------------------------------------
(* The theorems. *)

\* The invariant holds in every reachable state.
LEMMA RInvAlways == RSpec => []RInv
<1> QED BY RInvInit, RInvInductive, PTL DEF RSpec

\* What is sound of a request keeps its backend and its kept response to its plan.
LEMMA PlanSoundEnough == RInv => PlanHolds
<1> SUFFICES ASSUME RInv, NEW c \in Slots, req[c].peer \in {"backend", "cache"}
             PROVE  /\ req[c].plan = Published[req[c].seen].plans[req[c].ask.host]
                    /\ req[c].from.via = "tls" /\ req[c].plan.stage = "auth" => req[c].authed
  BY DEF PlanHolds
<1>1. NoPlan.upstream # "backends"
  BY DEF NoPlan
<1> QED BY <1>1 DEF RInv, Sound, PlanSound

\* The backend of a request, or the kept response it gets, belongs to the plan that the table held
\* when request_filter read it, whatever is published and retried meanwhile.  If its session has a
\* TLS digest, which the binary's listeners never give, the auth stage of that plan has passed.
THEOREM PlanAlwaysHolds == RSpec => []PlanHolds
<1> QED BY PlanSoundEnough, RInvAlways, PTL

\* While its connection is open, a request has the scheme, port and client that the relay of that
\* very connection registered, another client only by the headers of a trusted proxy, and a 421 is about the SNI of that connection, although relays
\* come and go and source addresses are used again.
THEOREM AlwaysScopedToListener == RSpec => []ScopedToListener
<1>1. RInv => ScopedToListener
  BY DEF RInv
<1> QED BY <1>1, RInvAlways, PTL

\* No response made with one user's captured headers is kept, and a response kept for a request
\* with credentials is given only to requests that carry some, not always the same.
THEOREM CacheAlwaysImpersonal == RSpec => []CacheImpersonal
<1>1. RInv => CacheImpersonal
  BY DEF RInv, CacheImpersonal, CacheClean, KeptClean, Sound, CacheSound
<1> QED BY <1>1, RInvAlways, PTL

\* What is sound of a request makes its body whole at the end.
LEMMA BodySoundEnough == RInv => BodyWhole
<1> SUFFICES ASSUME RInv, NEW c \in Slots, req[c].phase = "logging", ~req[c].failed
             PROVE  LET r == req[c]
                        lost == r.chunks - Len(r.out)
                    IN  /\ r.out = [i \in 1..Len(r.out) |-> lost + i]
                        /\ ~r.cut => lost = 0
                        /\ lost <= RewriteLimit
  BY DEF BodyWhole
<1>1. BodySent(req[c])
  BY DEF RInv, Sound, BodySound
<1> DEFINE lost == req[c].chunks - Len(req[c].out)
<1>2. Contiguous(req[c].out, lost) /\ (~req[c].cut => lost = 0) /\ lost \in 0..RewriteLimit
  BY <1>1 DEF BodySent
<1> HIDE DEF lost
<1>3. lost <= RewriteLimit
  BY <1>2, PipelineAssumption
<1>4. req[c].out = [i \in 1..Len(req[c].out) |-> lost + i]
  BY <1>2 DEF Contiguous
<1> QED BY <1>2, <1>3, <1>4 DEF lost

\* response_body_filter loses no chunk of a body within the limit; of a longer one the client has
\* everything from the chunk that overflowed the buffer on, and has lost no more than the limit.
THEOREM BodyAlwaysWhole == RSpec => []BodyWhole
<1> QED BY BodySoundEnough, RInvAlways, PTL

\* A step of a request that is being served before and after, or neither, leaves the gauge right.
LEMMA GaugeStays ==
  ASSUME GaugeBalanced, active' = active, \A c \in Slots : Started(c)' <=> Started(c)
  PROVE  GaugeBalanced'
<1>1. {c \in Slots : Started(c)'} = {c \in Slots : Started(c)}
  OBVIOUS
<1> QED BY <1>1 DEF GaugeBalanced

\* ACTIVE_CONNECTIONS is the number of requests that have entered request_filter and not yet
\* logging, on every path between the two.
THEOREM GaugeAlwaysBalanced == RSpec => []GaugeBalanced
<1>1. RInit => GaugeBalanced
  <2> SUFFICES ASSUME RInit PROVE GaugeBalanced
    OBVIOUS
  <2>1. {c \in Slots : Started(c)} = {}
    BY IdleSound DEF RInit, Started
  <2> QED BY <2>1, FS_EmptySet DEF GaugeBalanced, RInit
<1>2. RInv /\ GaugeBalanced /\ [RNext]_rvars => GaugeBalanced'
  <2> SUFFICES ASSUME RInv, GaugeBalanced, [RNext]_rvars PROVE GaugeBalanced'
    OBVIOUS
  <2> DEFINE S == {c \in Slots : Started(c)}
  <2>1. IsFiniteSet(S) /\ Cardinality(S) \in Nat /\ active = Cardinality(S)
    BY PipelineAssumption, FS_Subset, FS_CardinalityType DEF GaugeBalanced
  <2>2. ASSUME UNCHANGED <<req, active>> PROVE GaugeBalanced'
    BY <2>2, GaugeStays DEF Started
  <2>3. CASE SwapRoutes \/ WatchIngresses \/ UNCHANGED rvars
    BY <2>2, <2>3 DEF SwapRoutes, WatchIngresses, rvars
  <2>4. ASSUME NEW c \in Slots, NEW a \in Addrs \cup {Remote}, NEW k \in Arrivals, Accept(c, a, k)
        PROVE  GaugeBalanced'
    BY <2>2, <2>4 DEF Accept
  <2>5. ASSUME NEW c \in Slots, Register(c) \/ CopyEnds(c) \/ Unregister(c) \/ DropSocket(c)
        PROVE  GaugeBalanced'
    BY <2>2, <2>5 DEF Register, CopyEnds, Unregister, DropSocket
  <2>6. req \in [Slots -> Records]
    BY DEF RInv, RTypeOK
  <2>7. ASSUME NEW c \in Slots, NEW q \in Asks, Arrive(c, q)
        PROVE  GaugeBalanced'
    <3> DEFINE s == [Idle EXCEPT !.phase = "filter", !.ask = q, !.addr = relay[c].addr, !.from = relay[c]]
    <3>1. req' = [req EXCEPT ![c] = s] /\ req[c].phase = "none" /\ active' = active
      BY <2>7 DEF Arrive
    <3>2. s.phase = "filter"
      BY DEF Idle
    <3> HIDE DEF s
    <3>3. \A d \in Slots : Started(d)' <=> Started(d)
      BY <2>6, <3>1, <3>2 DEF Started
    <3> QED BY <3>1, <3>3, GaugeStays
  <2>8. ASSUME NEW c \in Slots, RequestFilter(c)
        PROVE  GaugeBalanced'
    <3>1. PICK s : req' = [req EXCEPT ![c] = s] /\ s.phase \notin {"none", "filter"}
      BY <2>8, FilterStep
    <3>2. req[c].phase = "filter" /\ active' = active + 1
      BY <2>8 DEF RequestFilter
    <3>3. c \notin S /\ {d \in Slots : Started(d)'} = S \cup {c}
      BY <2>6, <3>1, <3>2 DEF Started
    <3>4. Cardinality(S \cup {c}) = Cardinality(S) + 1
      <4> HIDE DEF S
      <4> QED BY <2>1, <3>3, FS_AddElement
    <3> QED BY <2>1, <3>2, <3>3, <3>4 DEF GaugeBalanced
  <2>9. ASSUME NEW c \in Slots, LaterPhase(c)
        PROVE  GaugeBalanced'
    <3>1. Goes(c) /\ req[c].phase \notin {"none", "filter"} /\ active' = active
      BY <2>9, PhaseStep
    <3>2. PICK s : req' = [req EXCEPT ![c] = s] /\ s.phase \notin {"none", "filter"}
      BY <3>1 DEF Goes, Follows
    <3>3. \A d \in Slots : Started(d)' <=> Started(d)
      BY <2>6, <3>1, <3>2 DEF Started
    <3> QED BY <3>1, <3>3, GaugeStays
  <2>10. ASSUME NEW c \in Slots, Logging(c)
         PROVE  GaugeBalanced'
    <3>1. req' = [req EXCEPT ![c] = Idle] /\ req[c].phase = "logging" /\ active' = active - 1
      BY <2>10 DEF Logging
    <3>2. c \in S /\ {d \in Slots : Started(d)'} = S \ {c}
      BY <2>6, <3>1, IdleSound DEF Started
    <3>3. Cardinality(S \ {c}) = Cardinality(S) - 1
      <4> HIDE DEF S
      <4> QED BY <2>1, <3>2, FS_RemoveElement
    <3> QED BY <2>1, <3>1, <3>2, <3>3 DEF GaugeBalanced
  <2>11. ASSUME NEW c \in Slots, Phases(c) \/ ExecuteAuthStage(c)
         PROVE  GaugeBalanced'
    <3>1. RequestFilter(c) \/ LaterPhase(c) \/ Logging(c)
      BY <2>11 DEF Phases, LaterPhase
    <3> QED BY <2>8, <2>9, <2>10, <2>11, <3>1
  <2> QED BY <2>3, <2>4, <2>5, <2>7, <2>11 DEF RNext
<1> QED BY <1>1, <1>2, RInvAlways, PTL DEF RSpec

-----------------------------------------------------------------------------
(* The plans of a host, and their order. *)

IsPrecedence(t) == t \in [1..4 -> Nat]
IsPlan(p) == IsPrecedence(p.precedence) /\ p.rule_order \in Nat /\ IsMatch(p.matches)
IsPlans(s) == IsList(s) /\ \A p \in ToSet(s) : IsPlan(p)

\* The highest of some counts is a number.
LEMMA MaxOfType ==
    ASSUME NEW counts, IsList(counts), \A i \in DOMAIN counts : counts[i] \in Nat
    PROVE  MaxOf(counts) \in Nat
<1> DEFINE S == {0} \cup ToSet(counts)
<1>1. S \subseteq Nat
  BY DEF ToSet
<1>2. \E x \in S : \A y \in S : x >= y
  <2>1. CASE DOMAIN counts = {}
    BY <2>1 DEF ToSet
  <2>2. CASE DOMAIN counts # {}
    <3>1. IsFiniteSet(DOMAIN counts)
      <4>1. DOMAIN counts = 1..Len(counts) /\ Len(counts) \in Nat
        BY DEF IsList
      <4> QED BY <4>1, FS_Interval
    <3>2. Greatest(DOMAIN counts, counts) # {}
      BY <2>2, <3>1, GreatestExists
    <3>3. PICK i \in DOMAIN counts : \A j \in DOMAIN counts : counts[j] <= counts[i]
      BY <3>2 DEF Greatest
    <3>4. counts[i] \in S /\ \A y \in S : counts[i] >= y
      BY <3>3 DEF ToSet
    <3> QED BY <3>4
  <2> QED BY <2>1, <2>2
<1> HIDE DEF S
<1>3. Max(S) \in S
  BY <1>2 DEF Max
<1> QED BY <1>1, <1>3 DEF MaxOf, S

\* Four numbers are a precedence.
LEMMA FourNumbers ==
    ASSUME NEW a \in Nat, NEW b \in Nat, NEW c \in Nat, NEW d \in Nat
    PROVE  IsPrecedence(<<a, b, c, d>>)
BY DEF IsPrecedence

\* The length of a path is a number.
LEMMA PathLenType ==
    ASSUME NEW p, IsPath(p)
    PROVE  PathLen(p) \in Nat
<1>1. CASE p.kind = "none"
  BY <1>1 DEF PathLen
<1>2. CASE p.kind = "regex" /\ p.len \in Nat
  BY <1>2 DEF PathLen
<1>3. CASE p.kind \in {"prefix", "exact"} /\ p.segs \in Seq(ToSet(p.segs)) /\ p.slash \in {0, 1}
  <2>1. PathLen(p) = 2 * Len(p.segs) + p.slash
    BY <1>3 DEF PathLen
  <2>2. Len(p.segs) \in Nat /\ p.slash \in Nat
    BY <1>3
  <2> QED BY <2>1, <2>2
<1> QED BY <1>1, <1>2, <1>3 DEF IsPath

IsRule(rule) == IsList(rule.matches) /\ \A m \in ToSet(rule.matches) : IsMatch(m)

\* Every rule has a precedence.
LEMMA PrecedenceType ==
    ASSUME NEW rule, IsRule(rule)
    PROVE  IsPrecedence(ComputePrecedence(rule))
<1> DEFINE ms == rule.matches
           paths == [i \in DOMAIN ms |-> PathLen(ms[i].path)]
           methods == [i \in DOMAIN ms |-> IF ms[i].method = Absent THEN 0 ELSE 1]
           headers == [i \in DOMAIN ms |-> Len(ms[i].headers)]
           queries == [i \in DOMAIN ms |-> Len(ms[i].query)]
<1>1. DOMAIN ms = 1..Len(ms) /\ Len(ms) \in Nat
  BY DEF IsRule, IsList
<1>2. \A i \in DOMAIN ms : IsMatch(ms[i])
  BY DEF IsRule, ToSet
<1>3. ASSUME NEW f, f \in [DOMAIN ms -> Nat] PROVE MaxOf(f) \in Nat
  <2>1. f \in Seq(Nat)
    BY <1>1, <1>3, SeqDef
  <2>2. IsList(f)
    BY <2>1, SeqOfItself
  <2>3. \A i \in DOMAIN f : f[i] \in Nat
    BY <1>3
  <2> QED BY <2>2, <2>3, MaxOfType
<1>4. paths \in [DOMAIN ms -> Nat]
  BY <1>2, PathLenType DEF IsMatch
<1>5. methods \in [DOMAIN ms -> Nat]
  OBVIOUS
<1>6. \A i \in DOMAIN ms : Len(ms[i].headers) \in Nat /\ Len(ms[i].query) \in Nat
  BY <1>2 DEF IsMatch, Fields
<1>7. headers \in [DOMAIN ms -> Nat] /\ queries \in [DOMAIN ms -> Nat]
  BY <1>6
<1>8. ComputePrecedence(rule) = <<MaxOf(paths), MaxOf(methods), MaxOf(headers), MaxOf(queries)>>
  BY DEF ComputePrecedence
<1> HIDE DEF paths, methods, headers, queries, ms
<1> QED BY <1>3, <1>4, <1>5, <1>7, <1>8, FourNumbers

\* The plans of a rule.
LEMMA RulePlansType ==
    ASSUME NEW rule, IsRule(rule), NEW order \in Nat
    PROVE  IsPlans(RulePlans(rule, order))
<1> DEFINE ms == rule.matches
           s == RulePlans(rule, order)
           plan(i) == [precedence |-> ComputePrecedence(rule), rule_order |-> order,
                       matches |-> ms[i], action |-> rule.action]
<1>1. DOMAIN ms = 1..Len(ms) /\ Len(ms) \in Nat
  BY DEF IsRule, IsList
<1>2. s = [i \in DOMAIN ms |-> plan(i)]
  BY DEF RulePlans
<1>3. ASSUME NEW i \in DOMAIN ms PROVE IsPlan(plan(i))
  <2>1. IsMatch(ms[i])
    BY DEF IsRule, ToSet
  <2> QED BY <2>1, PrecedenceType DEF IsPlan
<1> HIDE DEF plan, s, ms
<1>4. DOMAIN s = 1..Len(ms) /\ s \in [1..Len(ms) -> ToSet(s)]
  BY <1>1, <1>2 DEF ToSet
<1>5. IsList(s)
  BY <1>1, <1>4, SeqDef DEF IsList
<1>6. \A p \in ToSet(s) : IsPlan(p)
  BY <1>2, <1>3 DEF ToSet
<1> QED BY <1>5, <1>6 DEF IsPlans, s

\* Lists of plans make a list of plans.
LEMMA JoinedPlans ==
    ASSUME NEW lists, IsList(lists), \A i \in DOMAIN lists : IsPlans(lists[i])
    PROVE  IsPlans(Joined(lists))
<1>1. /\ IsList(Joined(lists))
      /\ ToSet(Joined(lists)) = UNION {ToSet(lists[i]) : i \in DOMAIN lists}
  BY JoinedMembers DEF IsPlans
<1>2. ASSUME NEW p \in ToSet(Joined(lists)) PROVE IsPlan(p)
  <2>1. PICK i \in DOMAIN lists : p \in ToSet(lists[i])
    BY <1>1
  <2> QED BY <2>1 DEF IsPlans
<1> QED BY <1>1, <1>2 DEF IsPlans

\* All plans of the attached routes.
LEMMA AllPlansType ==
    ASSUME NEW rs \in Seq(Routes)
    PROVE  IsPlans(AllPlans(rs))
<1> DEFINE lists == [i \in DOMAIN rs |-> RoutePlans(rs[i])]
<1>1. ASSUME NEW route \in Routes PROVE IsPlans(RoutePlans(route))
  <2> DEFINE rules == [i \in DOMAIN route |-> RulePlans(route[i], i - 1)]
  <2>1. DOMAIN route = 1..Len(route) /\ Len(route) \in Nat
    BY RoutesAssumption
  <2>2. ASSUME NEW i \in DOMAIN route PROVE IsPlans(RulePlans(route[i], i - 1))
    <3>1. IsRule(route[i])
      BY RoutesAssumption DEF IsRule, IsList, ToSet
    <3>2. i - 1 \in Nat
      BY <2>1
    <3> QED BY <3>1, <3>2, RulePlansType
  <2>3. \A i \in DOMAIN rules : IsPlans(rules[i])
    BY <2>2
  <2>4. DOMAIN rules = 1..Len(route) /\ rules \in [1..Len(route) -> ToSet(rules)]
    BY <2>1 DEF ToSet
  <2>5. RoutePlans(route) = Joined(rules)
    BY DEF RoutePlans
  <2> HIDE DEF rules
  <2>6. IsList(rules)
    BY <2>1, <2>4, SeqDef DEF IsList
  <2> QED BY <2>3, <2>5, <2>6, JoinedPlans
<1>2. DOMAIN rs = 1..Len(rs) /\ Len(rs) \in Nat /\ \A i \in DOMAIN rs : rs[i] \in Routes
  OBVIOUS
<1>3. \A i \in DOMAIN lists : IsPlans(lists[i])
  BY <1>1, <1>2
<1>4. DOMAIN lists = 1..Len(rs) /\ lists \in [1..Len(rs) -> ToSet(lists)]
  BY <1>2 DEF ToSet
<1>5. AllPlans(rs) = Joined(lists)
  BY DEF AllPlans
<1> HIDE DEF lists
<1>6. IsList(lists)
  BY <1>2, <1>4, SeqDef DEF IsList
<1> QED BY <1>3, <1>5, <1>6, JoinedPlans

\* What sort_plans compares, number by number.
Ahead(p, q) ==
    LET s == p.precedence
        t == q.precedence
    IN  \/ t[1] < s[1]
        \/ t[1] = s[1] /\ t[2] < s[2]
        \/ t[1] = s[1] /\ t[2] = s[2] /\ t[3] < s[3]
        \/ t[1] = s[1] /\ t[2] = s[2] /\ t[3] = s[3] /\ t[4] < s[4]
        \/ /\ t[1] = s[1] /\ t[2] = s[2] /\ t[3] = s[3] /\ t[4] = s[4]
           /\ p.rule_order < q.rule_order

\* Outranks compares the precedences from the first number on, then the rule order.
LEMMA OutranksIsAhead ==
    ASSUME NEW p, NEW q, IsPlan(p), IsPlan(q)
    PROVE  Outranks(p, q) <=> Ahead(p, q)
<1> DEFINE s == p.precedence
           t == q.precedence
<1>1. s \in [1..4 -> Nat] /\ t \in [1..4 -> Nat] /\ DOMAIN s = 1..4 /\ DOMAIN t = 1..4
  BY DEF IsPlan, IsPrecedence
<1>2. /\ s[1] \in Nat /\ s[2] \in Nat /\ s[3] \in Nat /\ s[4] \in Nat
      /\ t[1] \in Nat /\ t[2] \in Nat /\ t[3] \in Nat /\ t[4] \in Nat
  BY <1>1
<1>3. 1..4 = {1, 2, 3, 4} /\ 1..(1 - 1) = {} /\ 1..(2 - 1) = {1} /\ 1..(3 - 1) = {1, 2} /\ 1..(4 - 1) = {1, 2, 3}
  OBVIOUS
<1>4. s = t <=> s[1] = t[1] /\ s[2] = t[2] /\ s[3] = t[3] /\ s[4] = t[4]
  <2>1. ASSUME s[1] = t[1], s[2] = t[2], s[3] = t[3], s[4] = t[4] PROVE s = t
    <3>1. \A i \in 1..4 : s[i] = t[i]
      BY <1>3, <2>1
    <3> QED BY <1>1, <3>1
  <2> QED BY <2>1
<1> HIDE DEF s, t
<1>5. LexLess(t, s) <=> \/ t[1] < s[1]
                        \/ t[1] = s[1] /\ t[2] < s[2]
                        \/ t[1] = s[1] /\ t[2] = s[2] /\ t[3] < s[3]
                        \/ t[1] = s[1] /\ t[2] = s[2] /\ t[3] = s[3] /\ t[4] < s[4]
  <2> DEFINE At(i) == t[i] < s[i] /\ \A j \in 1..(i - 1) : t[j] = s[j]
  <2>1. LexLess(t, s) <=> \E i \in 1..4 : At(i)
    BY <1>1 DEF LexLess
  <2>2. At(1) <=> t[1] < s[1]
    BY <1>3
  <2>3. At(2) <=> t[1] = s[1] /\ t[2] < s[2]
    BY <1>3
  <2>4. At(3) <=> t[1] = s[1] /\ t[2] = s[2] /\ t[3] < s[3]
    BY <1>3
  <2>5. At(4) <=> t[1] = s[1] /\ t[2] = s[2] /\ t[3] = s[3] /\ t[4] < s[4]
    BY <1>3
  <2> HIDE DEF At
  <2>6. (\E i \in 1..4 : At(i)) <=> At(1) \/ At(2) \/ At(3) \/ At(4)
    BY <1>3
  <2> QED BY <2>1, <2>2, <2>3, <2>4, <2>5, <2>6
<1> QED BY <1>2, <1>4, <1>5 DEF Outranks, Ahead, s, t

\* Plans are ordered, up to ties.
LEMMA OutranksOrders ==
    ASSUME NEW p, NEW q, NEW r, IsPlan(p), IsPlan(q), IsPlan(r)
    PROVE  /\ ~Outranks(p, p)
           /\ Outranks(p, q) => ~Outranks(q, p)
           /\ Outranks(p, q) /\ Outranks(q, r) => Outranks(p, r)
           /\ ~Outranks(p, q) /\ ~Outranks(q, r) => ~Outranks(p, r)
<1>1. \A x, y \in {p, q, r} : Outranks(x, y) <=> Ahead(x, y)
  BY OutranksIsAhead
<1>2. \A x \in {p, q, r} : /\ x.precedence[1] \in Nat /\ x.precedence[2] \in Nat
                           /\ x.precedence[3] \in Nat /\ x.precedence[4] \in Nat
                           /\ x.rule_order \in Nat
  BY DEF IsPlan, IsPrecedence
<1>3. ~Ahead(p, p)
  BY <1>2 DEF Ahead
<1>4. Ahead(p, q) => ~Ahead(q, p)
  BY <1>2 DEF Ahead
<1>5. Ahead(p, q) /\ Ahead(q, r) => Ahead(p, r)
  BY <1>2, SMTT(30) DEF Ahead
<1>6. ~Ahead(p, q) /\ ~Ahead(q, r) => ~Ahead(p, r)
  BY <1>2, SMTT(30) DEF Ahead
<1> QED BY <1>1, <1>3, <1>4, <1>5, <1>6

Sorted(s) == \A j, k \in DOMAIN s : j < k => ~Outranks(s[k], s[j])

\* sort_plans keeps the plans and puts none before one that outranks it.
LEMMA SortPlansSorts ==
    ASSUME NEW plans, IsPlans(plans), NEW s, s = SortPlans(plans)
    PROVE  IsPlans(s) /\ ToSet(s) = ToSet(plans) /\ Sorted(s)
<1> DEFINE at == DOMAIN plans
           R == {p \in at \X at : Precedes(plans, p[1], p[2])}
           ord == InOrder(at, R)
<1>1. IsList(plans) /\ at \in SUBSET DOMAIN plans
  BY DEF IsPlans
<1>2. at = 1..Len(plans) /\ Len(plans) \in Nat /\ at \subseteq Nat
  BY DEF IsPlans, IsList
<1>3. IsFiniteSet(at)
  BY <1>2, FS_Interval
<1>4. \A i \in at : IsPlan(plans[i])
  BY DEF IsPlans, ToSet
<1>5. s = ListAt(plans, at, R)
  BY DEF SortPlans
<1>6. \A i, j \in at : <<i, j>> \in R <=> Precedes(plans, i, j)
  OBVIOUS
<1> HIDE DEF at, R
<1>7. StrictOrder(at, R)
  <2>1. ASSUME NEW i \in at PROVE ~Precedes(plans, i, i)
    <3>1. ~Outranks(plans[i], plans[i]) /\ ~(i < i)
      BY <1>2, <1>4, OutranksOrders
    <3> QED BY <3>1 DEF Precedes
  <2>2. ASSUME NEW i \in at, NEW j \in at, NEW k \in at, Precedes(plans, i, j), Precedes(plans, j, k)
        PROVE  Precedes(plans, i, k)
    <3> DEFINE O(a, b) == Outranks(plans[a], plans[b])
    <3>1. \A a, b, c \in {i, j, k} : /\ O(a, b) => ~O(b, a)
                                     /\ O(a, b) /\ O(b, c) => O(a, c)
                                     /\ ~O(a, b) /\ ~O(b, c) => ~O(a, c)
      BY <1>4, OutranksOrders
    <3>2. (O(i, j) \/ (i < j /\ ~O(j, i))) /\ (O(j, k) \/ (j < k /\ ~O(k, j)))
      BY <2>2 DEF Precedes
    <3>3. i < j /\ j < k => i < k
      BY <1>2
    <3> HIDE DEF O
    <3>4. O(i, k) \/ (i < k /\ ~O(k, i))
      BY <3>1, <3>2, <3>3
    <3> QED BY <3>4 DEF Precedes, O
  <2>3. ASSUME NEW i \in at, NEW j \in at PROVE i = j \/ Precedes(plans, i, j) \/ Precedes(plans, j, i)
    <3>1. i = j \/ i < j \/ j < i
      BY <1>2
    <3> QED BY <3>1 DEF Precedes
  <2> QED BY <1>6, <2>1, <2>2, <2>3 DEF StrictOrder
<1>8. IsList(s) /\ ToSet(s) = {plans[i] : i \in at}
  BY <1>1, <1>5, <1>7, MembersAt DEF at
<1>9. ToSet(s) = ToSet(plans)
  BY <1>8 DEF ToSet, at
<1>10. /\ DOMAIN ord = DOMAIN s
       /\ \A k \in DOMAIN s : ord[k] \in at /\ s[k] = plans[ord[k]]
       /\ \A j, k \in DOMAIN s : <<ord[j], ord[k]>> \in R => j < k
  <2> HIDE DEF ord
  <2> QED BY <1>1, <1>3, <1>5, <1>7, ListedAt DEF ord
<1> HIDE DEF ord
<1>11. ASSUME NEW j \in DOMAIN s, NEW k \in DOMAIN s, j < k, Outranks(s[k], s[j]) PROVE FALSE
  <2>1. Precedes(plans, ord[k], ord[j])
    BY <1>10, <1>11 DEF Precedes
  <2>2. k < j
    BY <1>6, <1>10, <2>1
  <2>3. j \in Nat /\ k \in Nat
    BY <1>8 DEF IsList
  <2> QED BY <1>11, <2>2, <2>3
<1>12. Sorted(s)
  BY <1>11 DEF Sorted
<1>13. IsPlans(s)
  BY <1>8, <1>9 DEF IsPlans
<1> QED BY <1>9, <1>12, <1>13

\* BestOf(S, found, rq): the best plan of S that matches a request, or nothing if none does.
BestOf(S, found, rq) ==
    /\ found = <<>> => \A p \in S : ~PlanMatches(p, rq)
    /\ found # <<>> => /\ found[1] \in S /\ PlanMatches(found[1], rq)
                       /\ \A p \in S : PlanMatches(p, rq) => ~Outranks(p, found[1])

\* The first plan of a sorted list that matches is the best that does.
LEMMA FirstMatchIsBest ==
    ASSUME NEW s, IsPlans(s), Sorted(s), NEW rq
    PROVE  BestOf(ToSet(s), FirstMatch(s, rq), rq)
<1> DEFINE at == {i \in DOMAIN s : PlanMatches(s[i], rq)}
           found == FirstMatch(s, rq)
           f == Min(at)
<1>1. found = FirstOf(s, at)
  BY DEF FirstMatch
<1>2. at \subseteq Nat /\ at \subseteq DOMAIN s
  BY DEF IsPlans, IsList
<1>3. \A i \in DOMAIN s : i \in at <=> PlanMatches(s[i], rq)
  OBVIOUS
<1> HIDE DEF at
<1>4. /\ at = {} => found = <<>>
      /\ at # {} => found # <<>> /\ f \in at /\ found[1] = s[f] /\ \A i \in at : f <= i
  BY <1>1, <1>2, FirstIsOne
<1> HIDE DEF f, found
<1>5. CASE at = {}
  BY <1>3, <1>4, <1>5 DEF BestOf, ToSet, found
<1>6. CASE at # {}
  <2>1. f \in DOMAIN s /\ PlanMatches(s[f], rq) /\ found[1] = s[f] /\ found # <<>>
    BY <1>2, <1>3, <1>4, <1>6
  <2>2. ASSUME NEW p \in ToSet(s), PlanMatches(p, rq) PROVE ~Outranks(p, s[f])
    <3>1. PICK k \in DOMAIN s : p = s[k]
      BY DEF ToSet
    <3>2. f <= k /\ f \in Nat /\ k \in Nat
      BY <1>2, <1>3, <1>4, <1>6, <2>2, <3>1
    <3>3. CASE f < k
      BY <2>1, <3>1, <3>3 DEF Sorted
    <3>4. CASE f = k
      <4>1. IsPlan(p)
        BY DEF IsPlans
      <4> QED BY <3>1, <3>4, <4>1, OutranksOrders
    <3> QED BY <3>2, <3>3, <3>4
  <2>3. s[f] \in ToSet(s)
    BY <2>1 DEF ToSet
  <2> QED BY <2>1, <2>2, <2>3 DEF BestOf, found
<1> QED BY <1>5, <1>6

-----------------------------------------------------------------------------
(* The nodes of the trie. *)

\* A part of a list of plans, sorted.
LEMMA SortedPart ==
    ASSUME NEW plans, IsPlans(plans), NEW at \in SUBSET DOMAIN plans,
           NEW s, s = SortPlans(Chosen(plans, at))
    PROVE  IsPlans(s) /\ ToSet(s) = {plans[i] : i \in at} /\ Sorted(s)
<1> DEFINE c == Chosen(plans, at)
<1> HIDE DEF c
<1>1. IsList(c) /\ ToSet(c) = {plans[i] : i \in at}
  BY ChosenMembers DEF IsPlans, c
<1>2. IsPlans(c)
  <2>1. \A i \in at : plans[i] \in ToSet(plans)
    BY DEF ToSet
  <2> QED BY <1>1, <2>1 DEF IsPlans
<1>3. s = SortPlans(c)
  BY DEF c
<1> QED BY <1>1, <1>2, <1>3, SortPlansSorts

\* Covers(d, plans, rq): what a node has for a request are plans of a list, among them all
\* that match it.
Covers(d, plans, rq) ==
    /\ IsList(d.any) /\ ToSet(d.any) \subseteq ToSet(plans)
    /\ IsList(d.fallback) /\ ToSet(d.fallback) \subseteq ToSet(plans)
    /\ \A v \in DOMAIN d.exact : IsList(d.exact[v]) /\ ToSet(d.exact[v]) \subseteq ToSet(plans)
    /\ \A p \in ToSet(plans) : PlanMatches(p, rq) /\ SpelledAs(p, rq) =>
          \/ p \in ToSet(d.any)
          \/ p \in ToSet(d.fallback)
          \/ /\ AttributeOf(d, rq) \in DOMAIN d.exact
             /\ p \in ToSet(d.exact[AttributeOf(d, rq)])

\* The empty list has no members.
LEMMA EmptyList == IsList(<<>>) /\ ToSet(<<>>) = {}
BY DEF IsList, ToSet

\* Buckets by method.
LEMMA MethodCovers ==
    ASSUME NEW plans, IsPlans(plans), NEW rq
    PROVE  Covers(MethodDiscriminator(plans), plans, rq)
<1> DEFINE d == MethodDiscriminator(plans)
           values == {p.matches.method : p \in ToSet(plans)} \ {Absent}
           with(v) == {i \in DOMAIN plans : plans[i].matches.method = v}
           of(v) == SortPlans(Chosen(plans, with(v)))
<1>1. /\ d.by = "method" /\ d.fallback = <<>> /\ d.any = of(Absent)
      /\ DOMAIN d.exact = values /\ \A v \in values : d.exact[v] = of(v)
  BY DEF MethodDiscriminator
<1>2. AttributeOf(d, rq) = rq.method
  BY <1>1 DEF AttributeOf, Fields
<1>3. ASSUME NEW v PROVE IsList(of(v)) /\ ToSet(of(v)) = {plans[i] : i \in with(v)}
  <2> DEFINE s == of(v)
  <2>1. with(v) \in SUBSET DOMAIN plans
    OBVIOUS
  <2> HIDE DEF with
  <2>2. s = SortPlans(Chosen(plans, with(v)))
    OBVIOUS
  <2> HIDE DEF s
  <2>3. IsPlans(s) /\ ToSet(s) = {plans[i] : i \in with(v)}
    BY <2>1, <2>2, SortedPart
  <2> QED BY <2>3 DEF IsPlans, s
<1>4. ASSUME NEW v PROVE ToSet(of(v)) \subseteq ToSet(plans)
  <2> HIDE DEF of
  <2> QED BY <1>3 DEF ToSet
<1>5. ASSUME NEW p \in ToSet(plans) PROVE p \in ToSet(of(p.matches.method))
  <2>1. PICK i \in DOMAIN plans : p = plans[i]
    BY DEF ToSet
  <2>2. i \in with(p.matches.method)
    BY <2>1
  <2> HIDE DEF of, with
  <2> QED BY <1>3, <2>1, <2>2
<1> HIDE DEF d, of, with
<1>6. ASSUME NEW p \in ToSet(plans), PlanMatches(p, rq), SpelledAs(p, rq), p.matches.method # Absent
      PROVE  rq.method \in values /\ p \in ToSet(of(rq.method))
  <2>1. EqIgnoreCase(p.matches.method, rq.method)
    BY <1>6 DEF PlanMatches
  <2>2. p.matches.method = rq.method
    BY <1>6, <2>1 DEF SpelledAs
  <2> QED BY <1>5, <1>6, <2>2
<1>7. ASSUME NEW p \in ToSet(plans), p.matches.method = Absent PROVE p \in ToSet(d.any)
  BY <1>1, <1>5, <1>7
<1> HIDE DEF values
<1>8. ASSUME NEW p \in ToSet(plans), PlanMatches(p, rq), SpelledAs(p, rq)
      PROVE  \/ p \in ToSet(d.any)
             \/ /\ AttributeOf(d, rq) \in DOMAIN d.exact
                /\ p \in ToSet(d.exact[AttributeOf(d, rq)])
  <2>1. CASE p.matches.method = Absent
    BY <1>7, <2>1
  <2>2. CASE p.matches.method # Absent
    BY <1>1, <1>2, <1>6, <1>8, <2>2
  <2> QED BY <2>1, <2>2
<1>9. /\ IsList(d.any) /\ ToSet(d.any) \subseteq ToSet(plans)
      /\ IsList(d.fallback) /\ ToSet(d.fallback) \subseteq ToSet(plans)
      /\ \A v \in DOMAIN d.exact : IsList(d.exact[v]) /\ ToSet(d.exact[v]) \subseteq ToSet(plans)
  BY <1>1, <1>3, <1>4, EmptyList
<1> QED BY <1>8, <1>9 DEF Covers, d

\* The matcher of a plan for a name is one of its matchers, and has the name.
LEMMA MatcherForName ==
    ASSUME NEW p, IsPlan(p), NEW field \in Fields, NEW name, MatcherFor(p, field, name) # <<>>
    PROVE  \E j \in DOMAIN p.matches[field] : /\ MatcherFor(p, field, name)[1] = p.matches[field][j]
                                              /\ p.matches[field][j].name = name
<1> DEFINE at == {j \in DOMAIN p.matches[field] : p.matches[field][j].name = name}
<1>1. at \subseteq Nat
  <2>1. p.matches[field] \in Seq(ToSet(p.matches[field]))
    BY DEF IsPlan, IsMatch
  <2> QED BY <2>1
<1>2. MatcherFor(p, field, name) = FirstOf(p.matches[field], at)
  BY DEF MatcherFor
<1>3. \A j \in at : j \in DOMAIN p.matches[field] /\ p.matches[field][j].name = name
  OBVIOUS
<1> HIDE DEF at
<1>4. at # {} /\ Min(at) \in at /\ MatcherFor(p, field, name)[1] = p.matches[field][Min(at)]
  BY <1>1, <1>2, FirstIsOne
<1> QED BY <1>3, <1>4

\* An exact matcher accepts a request that has its value.
LEMMA ExactValue ==
    ASSUME NEW p, IsPlan(p), NEW rq, PlanMatches(p, rq), SpelledAs(p, rq), NEW field \in Fields,
           NEW j \in DOMAIN p.matches[field], p.matches[field][j].kind = "exact"
    PROVE  ValueOf(rq, field, p.matches[field][j].name) = p.matches[field][j].value
<1> DEFINE h == p.matches[field][j]
           val == ValueOf(rq, field, h.name)
<1>1. MatcherAccepts(h, field, val)
  BY DEF PlanMatches
<1> HIDE DEF val
<1>2. val # Absent /\ IF field = "headers" THEN EqIgnoreCase(val, h.value) ELSE val = h.value
  BY <1>1 DEF MatcherAccepts
<1>3. CASE field = "headers"
  <2>1. h \in ToSet(p.matches.headers)
    BY <1>3 DEF ToSet
  <2>2. val = ValueOf(rq, "headers", h.name)
    BY <1>3 DEF val
  <2>3. val = h.value
    BY <1>2, <1>3, <2>1, <2>2 DEF SpelledAs
  <2> QED BY <2>3 DEF val
<1>4. CASE field # "headers"
  BY <1>2, <1>4 DEF val
<1> QED BY <1>3, <1>4

\* Buckets by the value of a header or of a query parameter.
LEMMA NameCovers ==
    ASSUME NEW plans, IsPlans(plans), NEW rq, NEW field \in Fields, NEW name
    PROVE  Covers(NameDiscriminator(plans, field, name), plans, rq)
<1> DEFINE d == NameDiscriminator(plans, field, name)
           m(i) == MatcherFor(plans[i], field, name)
           has == {i \in DOMAIN plans : m(i) # <<>>}
           exactly == {i \in has : m(i)[1].kind = "exact"}
           values == {m(i)[1].value : i \in exactly}
           with(v) == {i \in exactly : m(i)[1].value = v}
           part(at) == SortPlans(Chosen(plans, at))
<1>1. /\ d.by = field /\ d.name = name /\ d.any = part(DOMAIN plans \ has) /\ d.fallback = part(has \ exactly)
      /\ DOMAIN d.exact = values /\ \A v \in values : d.exact[v] = part(with(v))
  BY DEF NameDiscriminator
<1>2. AttributeOf(d, rq) = ValueOf(rq, field, name)
  BY <1>1 DEF AttributeOf, Fields
<1>3. ASSUME NEW at \in SUBSET DOMAIN plans
      PROVE  IsList(part(at)) /\ ToSet(part(at)) = {plans[i] : i \in at}
  <2> DEFINE s == part(at)
  <2>1. s = SortPlans(Chosen(plans, at))
    OBVIOUS
  <2> HIDE DEF s
  <2>2. IsPlans(s) /\ ToSet(s) = {plans[i] : i \in at}
    BY <2>1, SortedPart
  <2> QED BY <2>2 DEF IsPlans, s
<1>4. has \in SUBSET DOMAIN plans /\ exactly \in SUBSET DOMAIN plans /\ \A v : with(v) \in SUBSET DOMAIN plans
  OBVIOUS
<1>5. ASSUME NEW i \in exactly, PlanMatches(plans[i], rq), SpelledAs(plans[i], rq)
      PROVE  ValueOf(rq, field, name) \in values /\ i \in with(ValueOf(rq, field, name))
  <2>1. IsPlan(plans[i]) /\ m(i) # <<>> /\ m(i)[1].kind = "exact"
    BY DEF IsPlans, ToSet
  <2>2. PICK j \in DOMAIN plans[i].matches[field] : /\ m(i)[1] = plans[i].matches[field][j]
                                                    /\ plans[i].matches[field][j].name = name
    BY <2>1, MatcherForName
  <2>3. ValueOf(rq, field, name) = m(i)[1].value
    BY <1>5, <2>1, <2>2, ExactValue
  <2> HIDE DEF m
  <2> QED BY <2>3
<1> HIDE DEF d, part, with, values, exactly, has
<1>6. ASSUME NEW at \in SUBSET DOMAIN plans PROVE ToSet(part(at)) \subseteq ToSet(plans)
  BY <1>3, <1>6 DEF ToSet
<1>7. ASSUME NEW at \in SUBSET DOMAIN plans, NEW i \in at PROVE plans[i] \in ToSet(part(at))
  BY <1>3
<1>8. DOMAIN plans \ has \in SUBSET DOMAIN plans /\ has \ exactly \in SUBSET DOMAIN plans
  BY <1>4
<1>9. ASSUME NEW p \in ToSet(plans), PlanMatches(p, rq), SpelledAs(p, rq)
      PROVE  \/ p \in ToSet(d.any)
             \/ p \in ToSet(d.fallback)
             \/ /\ AttributeOf(d, rq) \in DOMAIN d.exact
                /\ p \in ToSet(d.exact[AttributeOf(d, rq)])
  <2>1. PICK i \in DOMAIN plans : p = plans[i]
    BY DEF ToSet
  <2>2. CASE i \notin has
    <3>1. i \in DOMAIN plans \ has
      BY <2>2
    <3> QED BY <1>1, <1>7, <1>8, <2>1, <3>1
  <2>3. CASE i \in has \ exactly
    BY <1>1, <1>7, <1>8, <2>1, <2>3
  <2>4. CASE i \in exactly
    <3>1. ValueOf(rq, field, name) \in values /\ i \in with(ValueOf(rq, field, name))
      BY <1>5, <1>9, <2>1, <2>4
    <3>2. p \in ToSet(part(with(ValueOf(rq, field, name))))
      BY <1>4, <1>7, <2>1, <3>1
    <3> QED BY <1>1, <1>2, <3>1, <3>2
  <2> QED BY <2>2, <2>3, <2>4
<1>10. IsList(d.any) /\ ToSet(d.any) \subseteq ToSet(plans)
  BY <1>1, <1>3, <1>6, <1>8
<1>11. IsList(d.fallback) /\ ToSet(d.fallback) \subseteq ToSet(plans)
  BY <1>1, <1>3, <1>6, <1>8
<1>12. \A v \in DOMAIN d.exact : IsList(d.exact[v]) /\ ToSet(d.exact[v]) \subseteq ToSet(plans)
  BY <1>1, <1>3, <1>4, <1>6
<1> QED BY <1>9, <1>10, <1>11, <1>12 DEF Covers, d

\* Nodes without buckets.
LEMMA PlainCovers ==
    ASSUME NEW plans, IsPlans(plans), NEW rq
    PROVE  Covers(NoBuckets(plans), plans, rq) /\ Covers(NoDiscriminator(plans), plans, rq)
<1>1. IsList(plans) /\ DOMAIN << >> = {}
  BY DEF IsPlans
<1>2. Covers(NoBuckets(plans), plans, rq)
  BY <1>1, EmptyList DEF Covers, NoBuckets
<1>3. Covers(NoDiscriminator(plans), plans, rq)
  BY <1>1, EmptyList DEF Covers, NoDiscriminator
<1> QED BY <1>2, <1>3

\* What resolve_node_plans takes from a node.
LEMMA CoveredIsResolved ==
    ASSUME NEW plans, NEW d, NEW rq, Covers(d, plans, rq), NEW r, r = ResolveNodePlans(d, rq)
    PROVE  /\ IsList(r) /\ ToSet(r) \subseteq ToSet(plans)
           /\ \A p \in ToSet(plans) : PlanMatches(p, rq) /\ SpelledAs(p, rq) => p \in ToSet(r)
<1> DEFINE val == AttributeOf(d, rq)
           bucket == IF val \in DOMAIN d.exact THEN d.exact[val] ELSE <<>>
<1>1. r = bucket \o d.any \o d.fallback
  BY DEF ResolveNodePlans
<1>2. IsList(bucket) /\ ToSet(bucket) \subseteq ToSet(plans)
  <2> HIDE DEF val
  <2>1. CASE val \in DOMAIN d.exact
    BY <2>1 DEF Covers
  <2>2. CASE val \notin DOMAIN d.exact
    BY <2>2, EmptyList
  <2> QED BY <2>1, <2>2
<1>3. val \in DOMAIN d.exact => bucket = d.exact[val]
  OBVIOUS
<1> HIDE DEF bucket
<1>4. IsList(bucket \o d.any) /\ ToSet(bucket \o d.any) = ToSet(bucket) \cup ToSet(d.any)
  BY <1>2, ConcatMembers DEF Covers
<1>5. IsList(r) /\ ToSet(r) = ToSet(bucket) \cup ToSet(d.any) \cup ToSet(d.fallback)
  BY <1>1, <1>4, ConcatMembers DEF Covers
<1> QED BY <1>2, <1>3, <1>5 DEF Covers, val

\* The plans at a node of the trie.
AtNode(plans, key) == {p \in ToSet(plans) : TrieKey(p) = key}

\* A node of the trie gives a request plans of its own, among them all that match it,
\* whatever discriminator it has.
LEMMA NodeResolves ==
    ASSUME NEW plans, IsPlans(plans), NEW key, NEW d \in NodesAt(plans, key), NEW rq,
           NEW r, r = ResolveNodePlans(d, rq)
    PROVE  /\ IsList(r) /\ ToSet(r) \subseteq AtNode(plans, key)
           /\ \A p \in AtNode(plans, key) : PlanMatches(p, rq) /\ SpelledAs(p, rq) => p \in ToSet(r)
<1> DEFINE idx == {i \in DOMAIN plans : TrieKey(plans[i]) = key}
           at == Chosen(plans, idx)
<1>1. d \in IF Len(at) > Threshold THEN BuildDiscriminator(at) ELSE {NoDiscriminator(at)}
  BY DEF NodesAt
<1>2. idx \in SUBSET DOMAIN plans /\ {plans[i] : i \in idx} = AtNode(plans, key)
  BY DEF AtNode, ToSet
<1> HIDE DEF idx
<1>3. IsList(at) /\ ToSet(at) = AtNode(plans, key)
  <2> HIDE DEF at
  <2> QED BY <1>2, ChosenMembers DEF IsPlans, at
<1> HIDE DEF at
<1>4. IsPlans(at)
  BY <1>3 DEF IsPlans, AtNode
<1>5. \/ d = MethodDiscriminator(at) \/ d = NoBuckets(at) \/ d = NoDiscriminator(at)
      \/ \E field \in Fields : \E name : d = NameDiscriminator(at, field, name)
  <2>1. CASE d = NoDiscriminator(at)
    BY <2>1
  <2>2. CASE d \in BuildDiscriminator(at)
    BY <2>2 DEF BuildDiscriminator, Fields
  <2> QED BY <1>1, <2>1, <2>2
<1>6. Covers(d, at, rq)
  BY <1>4, <1>5, MethodCovers, NameCovers, PlainCovers
<1> QED BY <1>3, <1>6, CoveredIsResolved

-----------------------------------------------------------------------------
(* HostNode::lookup. *)

\* Compiled(n, all): a host node that the plans may compile to.
Compiled(n, all) ==
    LET in_trie == OfPathKind(all, {"prefix", "none"})
        exact == OfPathKind(all, {"exact"})
        with(path) == {i \in DOMAIN exact : exact[i].matches.path = path}
    IN  /\ DOMAIN n.trie = TrieNodes(in_trie) /\ \A k \in DOMAIN n.trie : n.trie[k] \in NodesAt(in_trie, k)
        /\ DOMAIN n.exact_paths = {p.matches.path : p \in ToSet(exact)}
        /\ \A path \in DOMAIN n.exact_paths : n.exact_paths[path] = SortPlans(Chosen(exact, with(path)))
        /\ n.regex_plans = SortPlans(OfPathKind(all, {"regex"}))

\* What compile_host makes.
LEMMA CompiledHost ==
    ASSUME NEW rs, NEW n \in CompileHost(rs)
    PROVE  Compiled(n, AllPlans(rs))
<1> DEFINE all == AllPlans(rs)
           in_trie == OfPathKind(all, {"prefix", "none"})
           exact == OfPathKind(all, {"exact"})
           with(path) == Chosen(exact, {i \in DOMAIN exact : exact[i].matches.path = path})
           choices == [k \in TrieNodes(in_trie) |-> NodesAt(in_trie, k)]
<1>1. PICK trie \in FunctionsInto(choices) :
          n = [trie        |-> trie,
               exact_paths |-> [path \in {p.matches.path : p \in ToSet(exact)} |-> SortPlans(with(path))],
               regex_plans |-> SortPlans(OfPathKind(all, {"regex"}))]
  BY DEF CompileHost
<1>2. DOMAIN trie = TrieNodes(in_trie) /\ \A k \in DOMAIN trie : trie[k] \in NodesAt(in_trie, k)
  BY DEF FunctionsInto
<1> HIDE DEF all, in_trie, exact, choices
<1>3. /\ n.trie = trie /\ n.regex_plans = SortPlans(OfPathKind(all, {"regex"}))
      /\ n.exact_paths = [path \in {p.matches.path : p \in ToSet(exact)} |-> SortPlans(with(path))]
  BY <1>1
<1> QED BY <1>2, <1>3 DEF Compiled, all, in_trie, exact

\* The plans with some kinds of path.
LEMMA OfKind ==
    ASSUME NEW all, IsPlans(all), NEW kinds, NEW s, s = OfPathKind(all, kinds)
    PROVE  IsPlans(s) /\ ToSet(s) = {p \in ToSet(all) : p.matches.path.kind \in kinds}
<1> DEFINE idx == {i \in DOMAIN all : all[i].matches.path.kind \in kinds}
<1>1. s = Chosen(all, idx)
  BY DEF OfPathKind
<1>2. idx \in SUBSET DOMAIN all /\ {all[i] : i \in idx} = {p \in ToSet(all) : p.matches.path.kind \in kinds}
  BY DEF ToSet
<1> HIDE DEF idx
<1>3. IsList(s) /\ ToSet(s) = {all[i] : i \in idx}
  BY <1>1, <1>2, ChosenMembers DEF IsPlans
<1> QED BY <1>2, <1>3 DEF IsPlans

\* The exact paths of a host: the best plan with the path of the request.
LEMMA ExactPaths ==
    ASSUME NEW all, IsPlans(all), NEW n, Compiled(n, all), NEW rq,
           NEW path, path = [kind |-> "exact", segs |-> rq.segs, slash |-> rq.slash],
           NEW bucket, bucket = IF path \in DOMAIN n.exact_paths THEN n.exact_paths[path] ELSE <<>>
    PROVE  BestOf({p \in ToSet(all) : p.matches.path.kind = "exact" /\ p.matches.path = path},
                  FirstMatch(bucket, rq), rq)
<1> DEFINE exact == OfPathKind(all, {"exact"})
           with == {i \in DOMAIN exact : exact[i].matches.path = path}
           S == {p \in ToSet(all) : p.matches.path.kind = "exact" /\ p.matches.path = path}
<1>1. IsPlans(exact) /\ ToSet(exact) = {p \in ToSet(all) : p.matches.path.kind \in {"exact"}}
  <2> HIDE DEF exact
  <2> QED BY OfKind DEF exact
<1>2. /\ DOMAIN n.exact_paths = {p.matches.path : p \in ToSet(exact)}
      /\ path \in DOMAIN n.exact_paths => n.exact_paths[path] = SortPlans(Chosen(exact, with))
  BY DEF Compiled
<1> HIDE DEF exact
<1>3. with \in SUBSET DOMAIN exact /\ {exact[i] : i \in with} = S
  BY <1>1 DEF ToSet
<1> HIDE DEF with
<1>4. IsPlans(bucket) /\ Sorted(bucket) /\ ToSet(bucket) = S
  <2>1. CASE path \in DOMAIN n.exact_paths
    <3>1. bucket = SortPlans(Chosen(exact, with))
      BY <1>2, <2>1
    <3> QED BY <1>1, <1>3, <3>1, SortedPart
  <2>2. CASE path \notin DOMAIN n.exact_paths
    <3>1. bucket = <<>>
      BY <2>2
    <3>2. S = {}
      BY <1>1, <1>2, <2>2
    <3>3. DOMAIN bucket = {} /\ IsList(bucket) /\ ToSet(bucket) = {}
      BY <3>1, EmptyList
    <3>4. Sorted(bucket)
      BY <3>3 DEF Sorted
    <3> QED BY <3>2, <3>3, <3>4 DEF IsPlans
  <2> QED BY <2>1, <2>2
<1> HIDE DEF S
<1>5. BestOf(S, FirstMatch(bucket, rq), rq)
  BY <1>4, FirstMatchIsBest
<1> QED BY <1>5 DEF S

\* A plan is at a node on the way of a request if and only if its path accepts it.
LEMMA OnTheWay ==
    ASSUME NEW p, IsPlan(p), p.matches.path.kind \in {"prefix", "none"}, NEW segs, IsList(segs), NEW rq,
           rq.segs = segs
    PROVE  /\ \A k \in 1..(Len(segs) + 1) :
                TrieKey(p) = SubSeq(segs, 1, k - 1) => PathAccepts(p.matches.path, rq)
           /\ PathAccepts(p.matches.path, rq) =>
                \E k \in 1..(Len(segs) + 1) : TrieKey(p) = SubSeq(segs, 1, k - 1)
<1>1. Len(segs) \in Nat /\ segs \in Seq(ToSet(segs))
  BY DEF IsList
<1>2. CASE p.matches.path.kind = "none"
  <2>1. TrieKey(p) = <<>> /\ PathAccepts(p.matches.path, rq)
    BY <1>2 DEF TrieKey, PathAccepts
  <2>2. SubSeq(segs, 1, 1 - 1) = <<>>
    BY <1>1
  <2> QED BY <1>1, <2>1, <2>2
<1>3. CASE p.matches.path.kind = "prefix"
  <2> DEFINE key == p.matches.path.segs
  <2>1. /\ TrieKey(p) = key /\ key \in Seq(ToSet(key)) /\ Len(key) \in Nat
        /\ PathAccepts(p.matches.path, rq) <=> IsPrefix(key, segs)
    BY <1>3 DEF TrieKey, PathAccepts, IsPlan, IsMatch, IsPath
  <2>2. SubSeq(key, 1, Len(key)) = key
    BY <2>1, SubSeqFull
  <2>3. IsPrefix(key, segs) <=> Len(key) <= Len(segs) /\ key = SubSeq(segs, 1, Len(key))
    BY <2>2 DEF IsPrefix
  <2> HIDE DEF key
  <2>4. ASSUME NEW k \in 1..(Len(segs) + 1), key = SubSeq(segs, 1, k - 1) PROVE IsPrefix(key, segs)
    <3>1. k - 1 \in 0..Len(segs) /\ Len(SubSeq(segs, 1, k - 1)) = k - 1
      BY <1>1
    <3>2. Len(key) = k - 1
      BY <2>4, <3>1
    <3> QED BY <1>1, <2>3, <2>4, <3>1, <3>2
  <2>5. ASSUME IsPrefix(key, segs) PROVE \E k \in 1..(Len(segs) + 1) : key = SubSeq(segs, 1, k - 1)
    <3>1. Len(key) + 1 \in 1..(Len(segs) + 1) /\ (Len(key) + 1) - 1 = Len(key)
      BY <1>1, <2>1, <2>3, <2>5
    <3> QED BY <2>3, <2>5, <3>1
  <2> QED BY <2>1, <2>4, <2>5
<1> QED BY <1>2, <1>3

\* The candidates of a request are plans whose path accepts it, among them all that accept it
\* but those with an exact path.
LEMMA CandidatesCover ==
    ASSUME NEW all, IsPlans(all), NEW n, Compiled(n, all), NEW rq \in Requests,
           \A p \in ToSet(all) : SpelledAs(p, rq), NEW c, c = Candidates(n, rq)
    PROVE  /\ IsPlans(c)
           /\ \A p \in ToSet(c) : /\ p \in ToSet(all) /\ p.matches.path.kind # "exact"
                                  /\ PathAccepts(p.matches.path, rq)
           /\ \A p \in ToSet(all) : p.matches.path.kind # "exact" /\ Accepts(p, rq) => p \in ToSet(c)
<1> DEFINE segs == rq.segs
           at(k) == SubSeq(segs, 1, k - 1)
           in_trie == OfPathKind(all, {"prefix", "none"})
           here(k) == IF at(k) \in DOMAIN n.trie THEN ResolveNodePlans(n.trie[at(k)], rq) ELSE <<>>
           lists == [k \in 1..(Len(segs) + 1) |-> here(k)]
           walk == Joined(lists)
           rp == n.regex_plans
           idx == {i \in DOMAIN rp : PlanMatches(rp[i], rq) /\ RegexPathMatches(rp[i], rq)}
           regex == Chosen(rp, idx)
<1>1. c = walk \o regex
  BY DEF Candidates
<1>2. IsList(segs) /\ Len(segs) \in Nat /\ Len(segs) + 1 \in Nat
  BY RequestsAssumption DEF IsList
<1>3. IsPlans(in_trie) /\ ToSet(in_trie) = {p \in ToSet(all) : p.matches.path.kind \in {"prefix", "none"}}
  <2> HIDE DEF in_trie
  <2> QED BY OfKind DEF in_trie
<1>4. DOMAIN n.trie = TrieNodes(in_trie) /\ \A k \in DOMAIN n.trie : n.trie[k] \in NodesAt(in_trie, k)
  BY DEF Compiled
<1>5. /\ IsPlans(rp) /\ ToSet(rp) = {p \in ToSet(all) : p.matches.path.kind = "regex"}
  <2> DEFINE o == OfPathKind(all, {"regex"})
  <2>1. rp = SortPlans(o)
    BY DEF Compiled
  <2> HIDE DEF o, rp
  <2>2. IsPlans(o) /\ ToSet(o) = {p \in ToSet(all) : p.matches.path.kind \in {"regex"}}
    BY OfKind DEF o
  <2>3. IsPlans(rp) /\ ToSet(rp) = ToSet(o)
    BY <2>1, <2>2, SortPlansSorts
  <2> QED BY <2>2, <2>3
<1> HIDE DEF segs, in_trie, rp
<1>6. ASSUME NEW k \in 1..(Len(segs) + 1)
      PROVE  /\ IsList(here(k)) /\ ToSet(here(k)) \subseteq AtNode(in_trie, at(k))
             /\ \A p \in AtNode(in_trie, at(k)) : PlanMatches(p, rq) => p \in ToSet(here(k))
  <2> DEFINE key == at(k)
             r == here(k)
  <2>1. CASE key \in DOMAIN n.trie
    <3>1. r = ResolveNodePlans(n.trie[key], rq) /\ n.trie[key] \in NodesAt(in_trie, key)
      BY <1>4, <2>1
    <3>2. \A p \in AtNode(in_trie, key) : SpelledAs(p, rq)
      BY <1>3 DEF AtNode
    <3> HIDE DEF r, key
    <3>3. /\ IsList(r) /\ ToSet(r) \subseteq AtNode(in_trie, key)
          /\ \A p \in AtNode(in_trie, key) : PlanMatches(p, rq) /\ SpelledAs(p, rq) => p \in ToSet(r)
      BY <1>3, <3>1, NodeResolves
    <3> QED BY <3>2, <3>3 DEF r, key
  <2>2. CASE key \notin DOMAIN n.trie
    <3>1. r = <<>>
      BY <2>2
    <3>2. ASSUME NEW p \in AtNode(in_trie, key) PROVE FALSE
      <4>1. p \in ToSet(in_trie) /\ TrieKey(p) = key /\ IsPlan(p)
        BY <1>3, <3>2 DEF AtNode, IsPlans
      <4>2. Len(key) \in Nat /\ SubSeq(key, 1, Len(key)) = key /\ Len(key) \in 0..Len(key)
        <5>1. segs \in Seq(ToSet(segs)) /\ k - 1 \in 0..Len(segs)
          BY <1>2 DEF IsList
        <5>2. key \in Seq(ToSet(segs))
          BY <5>1
        <5> HIDE DEF key
        <5> QED BY <5>2, SubSeqFull
      <4> HIDE DEF key
      <4>3. key \in TrieNodes(in_trie)
        <5>1. SubSeq(TrieKey(p), 1, Len(key)) = key /\ Len(key) \in 0..Len(TrieKey(p))
          BY <4>1, <4>2
        <5>2. key \in {SubSeq(TrieKey(p), 1, m) : m \in 0..Len(TrieKey(p))}
          BY <5>1, ZenonT(30)
        <5> QED BY <4>1, <5>2, ZenonT(30) DEF TrieNodes
      <4> QED BY <1>4, <2>2, <4>3
    <3> QED BY <3>1, <3>2, EmptyList
  <2> QED BY <2>1, <2>2
<1> HIDE DEF here
<1>7. IsList(lists) /\ DOMAIN lists = 1..(Len(segs) + 1) /\ \A k \in DOMAIN lists : lists[k] = here(k)
  <2>1. DOMAIN lists = 1..(Len(segs) + 1) /\ lists \in [1..(Len(segs) + 1) -> ToSet(lists)]
    BY DEF ToSet
  <2>2. IsList(lists)
    <3> HIDE DEF lists
    <3> QED BY <1>2, <2>1, SeqDef DEF IsList
  <2> QED BY <2>1, <2>2
<1> HIDE DEF lists
<1>8. IsList(walk) /\ ToSet(walk) = UNION {ToSet(lists[k]) : k \in DOMAIN lists}
  BY <1>6, <1>7, JoinedMembers
<1>9. idx \in SUBSET DOMAIN rp
  OBVIOUS
<1>10. IsList(regex) /\ ToSet(regex) = {rp[i] : i \in idx}
  <2> HIDE DEF regex, idx
  <2> QED BY <1>5, <1>9, ChosenMembers DEF IsPlans, regex
<1> HIDE DEF walk, regex
<1>11. IsList(c) /\ ToSet(c) = ToSet(walk) \cup ToSet(regex)
  BY <1>1, <1>8, <1>10, ConcatMembers
<1>12. ASSUME NEW p \in ToSet(all), p.matches.path.kind \in {"prefix", "none"}
       PROVE  /\ IsPlan(p) /\ p \in ToSet(in_trie)
              /\ \A k \in 1..(Len(segs) + 1) : TrieKey(p) = at(k) => PathAccepts(p.matches.path, rq)
              /\ PathAccepts(p.matches.path, rq) => \E k \in 1..(Len(segs) + 1) : TrieKey(p) = at(k)
  <2>1. IsPlan(p) /\ p \in ToSet(in_trie)
    BY <1>3, <1>12 DEF IsPlans
  <2>2. rq.segs = segs
    BY DEF segs
  <2> QED BY <1>2, <1>12, <2>1, <2>2, OnTheWay
<1>13. ASSUME NEW p \in ToSet(walk)
       PROVE  p \in ToSet(all) /\ p.matches.path.kind # "exact" /\ PathAccepts(p.matches.path, rq)
  <2>1. PICK k \in 1..(Len(segs) + 1) : p \in ToSet(here(k))
    BY <1>7, <1>8
  <2>2. p \in ToSet(in_trie) /\ TrieKey(p) = at(k)
    BY <1>6, <2>1 DEF AtNode
  <2>3. p \in ToSet(all) /\ p.matches.path.kind \in {"prefix", "none"}
    BY <1>3, <2>2
  <2> QED BY <1>12, <2>2, <2>3
<1>14. \A p : p.matches.path.kind = "regex" => (RegexPathMatches(p, rq) <=> PathAccepts(p.matches.path, rq))
  BY DEF RegexPathMatches, PathAccepts
<1>15. ASSUME NEW p \in ToSet(regex)
       PROVE  p \in ToSet(all) /\ p.matches.path.kind # "exact" /\ PathAccepts(p.matches.path, rq)
  <2>1. PICK i \in idx : p = rp[i]
    BY <1>10
  <2>2. p \in ToSet(rp) /\ RegexPathMatches(p, rq)
    BY <1>9, <2>1 DEF ToSet
  <2>3. p \in ToSet(all) /\ p.matches.path.kind = "regex"
    BY <1>5, <2>2
  <2> QED BY <1>14, <2>2, <2>3
<1>16. ASSUME NEW p \in ToSet(all), p.matches.path.kind # "exact", Accepts(p, rq)
       PROVE  p \in ToSet(c)
  <2>1. IsPlan(p) /\ PathAccepts(p.matches.path, rq) /\ PlanMatches(p, rq)
    BY <1>16 DEF IsPlans, Accepts
  <2>2. CASE p.matches.path.kind \in {"prefix", "none"}
    <3>1. PICK k \in 1..(Len(segs) + 1) : TrieKey(p) = at(k)
      BY <1>12, <2>1, <2>2
    <3>2. p \in AtNode(in_trie, at(k))
      BY <1>12, <2>2, <3>1 DEF AtNode
    <3>3. p \in ToSet(here(k))
      BY <1>6, <2>1, <3>2
    <3>4. p \in ToSet(walk)
      BY <1>7, <1>8, <3>3
    <3> QED BY <1>11, <3>4
  <2>3. CASE p.matches.path.kind = "regex"
    <3>1. p \in ToSet(rp) /\ RegexPathMatches(p, rq)
      BY <1>5, <1>14, <2>1, <2>3
    <3>2. PICK i \in DOMAIN rp : p = rp[i]
      BY <3>1 DEF ToSet
    <3>3. i \in idx
      BY <2>1, <3>1, <3>2
    <3> HIDE DEF idx
    <3> QED BY <1>10, <1>11, <3>2, <3>3
  <2>4. p.matches.path.kind \in {"none", "prefix", "exact", "regex"}
    BY <2>1 DEF IsPlan, IsMatch, IsPath
  <2> QED BY <1>16, <2>2, <2>3, <2>4
<1>17. IsPlans(c)
  BY <1>11, <1>13, <1>15 DEF IsPlans
<1> QED BY <1>11, <1>13, <1>15, <1>16, <1>17

\* HostNode::lookup finds the best of all plans that accept a request.
LEMMA LookupFindsBest ==
    ASSUME NEW all, IsPlans(all), NEW n, Compiled(n, all), NEW rq \in Requests,
           \A p \in ToSet(all) : SpelledAs(p, rq)
    PROVE  LET ok == {p \in ToSet(all) : Accepts(p, rq)}
               found == Lookup(n, rq)
           IN  /\ found = <<>> => ok = {}
               /\ found # <<>> => found[1] \in ok /\ \A p \in ok : ~Better(p, found[1])
<1> DEFINE ok == {p \in ToSet(all) : Accepts(p, rq)}
           found == Lookup(n, rq)
           path == [kind |-> "exact", segs |-> rq.segs, slash |-> rq.slash]
           bucket == IF path \in DOMAIN n.exact_paths THEN n.exact_paths[path] ELSE <<>>
           S == {p \in ToSet(all) : p.matches.path.kind = "exact" /\ p.matches.path = path}
           exact == FirstMatch(bucket, rq)
           c == Candidates(n, rq)
           s == SortPlans(c)
           first == FirstMatch(s, rq)
<1>1. found = IF exact # <<>> THEN exact ELSE first
  BY DEF Lookup
<1>2. BestOf(S, exact, rq)
  <2> HIDE DEF path, bucket
  <2> QED BY ExactPaths DEF path, bucket
<1>3. /\ IsPlans(c)
      /\ \A p \in ToSet(c) : /\ p \in ToSet(all) /\ p.matches.path.kind # "exact"
                             /\ PathAccepts(p.matches.path, rq)
      /\ \A p \in ToSet(all) : p.matches.path.kind # "exact" /\ Accepts(p, rq) => p \in ToSet(c)
  <2> HIDE DEF c
  <2> QED BY CandidatesCover DEF c
<1> HIDE DEF c
<1>4. IsPlans(s) /\ ToSet(s) = ToSet(c) /\ Sorted(s)
  <2> HIDE DEF s
  <2> QED BY <1>3, SortPlansSorts DEF s
<1> HIDE DEF s
<1>5. BestOf(ToSet(c), first, rq)
  BY <1>4, FirstMatchIsBest
<1>6. ASSUME NEW p \in ToSet(all), p.matches.path.kind = "exact"
      PROVE  PathAccepts(p.matches.path, rq) <=> p \in S
  <2>1. IsPath(p.matches.path)
    BY DEF IsPlans, IsPlan, IsMatch
  <2>2. p.matches.path = [kind |-> "exact", segs |-> p.matches.path.segs, slash |-> p.matches.path.slash]
    BY <1>6, <2>1 DEF IsPath
  <2>3. PathAccepts(p.matches.path, rq) <=> p.matches.path.segs = rq.segs /\ p.matches.path.slash = rq.slash
    BY <1>6 DEF PathAccepts
  <2>4. p.matches.path = path <=> p.matches.path.segs = rq.segs /\ p.matches.path.slash = rq.slash
    BY <2>2
  <2> HIDE DEF path
  <2> QED BY <1>6, <2>3, <2>4
<1>7. \A p \in S : p \in ToSet(all) /\ p.matches.path.kind = "exact"
  OBVIOUS
<1> HIDE DEF S, exact, first, found
<1>8. CASE exact # <<>>
  <2>1. found = exact /\ found[1] \in S /\ PlanMatches(found[1], rq)
        /\ \A p \in S : PlanMatches(p, rq) => ~Outranks(p, found[1])
    BY <1>1, <1>2, <1>8 DEF BestOf
  <2>2. found[1] \in ok /\ found[1].matches.path.kind = "exact"
    BY <1>6, <1>7, <2>1 DEF Accepts
  <2>3. ASSUME NEW p \in ok, Better(p, found[1]) PROVE FALSE
    <3>1. p.matches.path.kind = "exact" /\ Outranks(p, found[1])
      BY <2>2, <2>3 DEF Better
    <3>2. p \in S /\ PlanMatches(p, rq)
      BY <1>6, <3>1 DEF Accepts
    <3> QED BY <2>1, <3>1, <3>2
  <2> QED BY <1>8, <2>1, <2>2, <2>3 DEF found
<1>9. CASE exact = <<>>
  <2>1. found = first
    BY <1>1, <1>9
  <2>2. ASSUME NEW p \in ok PROVE p.matches.path.kind # "exact" /\ p \in ToSet(c) /\ PlanMatches(p, rq)
    <3>1. p.matches.path.kind # "exact"
      BY <1>2, <1>6, <1>9 DEF BestOf, Accepts
    <3> QED BY <1>3, <3>1 DEF Accepts
  <2>3. CASE first = <<>>
    <3>1. ok = {}
      BY <1>5, <2>2, <2>3 DEF BestOf
    <3> QED BY <2>1, <2>3, <3>1 DEF found
  <2>4. CASE first # <<>>
    <3>1. /\ found[1] \in ToSet(c) /\ PlanMatches(found[1], rq)
          /\ \A p \in ToSet(c) : PlanMatches(p, rq) => ~Outranks(p, found[1])
      BY <1>5, <2>1, <2>4 DEF BestOf
    <3>2. found[1] \in ok /\ found[1].matches.path.kind # "exact"
      BY <1>3, <3>1 DEF Accepts
    <3>3. ASSUME NEW p \in ok, Better(p, found[1]) PROVE FALSE
      <4>1. Outranks(p, found[1])
        BY <2>2, <3>3 DEF Better
      <4> QED BY <2>2, <3>1, <4>1
    <3> QED BY <2>1, <2>4, <3>2, <3>3 DEF found
  <2> QED BY <2>3, <2>4
<1> QED BY <1>8, <1>9

HostInv == routes \in Seq(Routes) /\ node \in CompileHost(routes)

\* A route is attached or removed: the host is compiled from routes.
LEMMA HostStep ==
    ASSUME HostInv, [Next]_vars
    PROVE  HostInv'
<1>1. ASSUME NEW r \in Routes, AddRoute(r) PROVE HostInv'
  <2>1. PICK i \in 1..(Len(routes) + 1) : routes' = InsertAt(routes, i, r)
    BY <1>1 DEF AddRoute
  <2>2. Len(routes) \in Nat /\ i - 1 \in 0..Len(routes) /\ i \in Nat
    BY DEF HostInv
  <2>3. SubSeq(routes, 1, i - 1) \in Seq(Routes) /\ SubSeq(routes, i, Len(routes)) \in Seq(Routes)
    BY <2>2 DEF HostInv
  <2>4. <<r>> \in Seq(Routes)
    OBVIOUS
  <2>5. routes' \in Seq(Routes)
    BY <2>1, <2>3, <2>4, ConcatProperties DEF InsertAt
  <2> QED BY <1>1, <2>5 DEF AddRoute, HostInv
<1>2. ASSUME NEW i \in DOMAIN routes, RemoveRoute(i) PROVE HostInv'
  <2>1. Len(routes) \in Nat /\ i - 1 \in 0..Len(routes) /\ i + 1 \in Nat
    BY DEF HostInv
  <2>2. SubSeq(routes, 1, i - 1) \in Seq(Routes) /\ SubSeq(routes, i + 1, Len(routes)) \in Seq(Routes)
    BY <2>1 DEF HostInv
  <2>3. routes' \in Seq(Routes)
    BY <1>2, <2>2, ConcatProperties DEF RemoveRoute, RemoveAt
  <2> QED BY <1>2, <2>3 DEF RemoveRoute, HostInv
<1>3. CASE UNCHANGED vars
  BY <1>3 DEF HostInv, vars
<1> QED BY <1>1, <1>2, <1>3 DEF Next

\* A node that was compiled from the attached routes answers every request as a search of all
\* their rules would.
LEMMA HostIsBest ==
    ASSUME HostInv
    PROVE  LookupIsBest
<1> DEFINE all == AllPlans(routes)
<1>1. IsPlans(all)
  BY AllPlansType DEF HostInv
<1>2. Compiled(node, all)
  BY CompiledHost DEF HostInv
<1> HIDE DEF all
<1>3. ASSUME NEW rq \in Requests, Canonical(rq)
      PROVE  LET ok == {p \in ToSet(all) : Accepts(p, rq)}
                 found == Lookup(node, rq)
             IN  /\ found = <<>> => ok = {}
                 /\ found # <<>> => found[1] \in ok /\ \A p \in ok : ~Better(p, found[1])
  <2>1. \A p \in ToSet(all) : SpelledAs(p, rq)
    BY <1>3 DEF Canonical, all
  <2> QED BY <1>1, <1>2, <2>1, LookupFindsBest
<1> QED BY <1>3 DEF LookupIsBest, LookupAgrees, all

\* However many routes are attached in whatever order, with whatever rules and threshold, the
\* trie, the exact paths and the discriminators of HostNode::lookup give a request the plan
\* that a search of all rules would.
THEOREM LookupAlwaysBest == Spec => []LookupIsBest
<1>1. Init => HostInv
  <2>1. <<>> \in Seq(Routes)
    OBVIOUS
  <2> QED BY <2>1 DEF Init, HostInv
<1>2. HostInv /\ [Next]_vars => HostInv'
  BY HostStep
<1>3. HostInv => LookupIsBest
  BY HostIsBest
<1> QED BY <1>1, <1>2, <1>3, PTL DEF Spec

\* The same of every behaviour of the path of a request.
THEOREM RequestLookupBest == RequestSpec => []LookupBest
<1>1. RequestInit => HostInv
  <2>1. <<>> \in Seq(Routes)
    OBVIOUS
  <2> QED BY <2>1 DEF RequestInit, Init, HostInv
<1>2. HostInv /\ [RequestNext]_requestvars => HostInv'
  <2> SUFFICES ASSUME HostInv, [RequestNext]_requestvars PROVE HostInv'
    OBVIOUS
  <2>1. [Next]_vars
    BY DEF RequestNext, requestvars
  <2> QED BY <2>1, HostStep
<1>3. HostInv => LookupBest
  BY HostIsBest DEF LookupBest
<1> QED BY <1>1, <1>2, <1>3, PTL DEF RequestSpec

\* In every behaviour of the path of a request, of its lookups and of its phases, a request is
\* served by the plan it was given and judged by the connection it came by; no response made with
\* captured headers is kept, and a body within the limit is rewritten without loss.
THEOREM RequestAlwaysSound ==
    RequestSpec => [](PlanHolds /\ ScopedToListener /\ CacheImpersonal /\ BodyWhole)
<1>1. RequestInit => RInv
  BY RInvInit DEF RequestInit
<1>2. RInv /\ [RequestNext]_requestvars => RInv'
  <2> SUFFICES ASSUME RInv, [RequestNext]_requestvars PROVE RInv'
    OBVIOUS
  <2>1. [RNext]_rvars
    BY DEF RequestNext, requestvars
  <2> QED BY <2>1, RInvInductive
<1>3. RInv => PlanHolds /\ ScopedToListener /\ CacheImpersonal /\ BodyWhole
  <2>1. RInv => ScopedToListener /\ CacheImpersonal
    BY DEF RInv, CacheImpersonal, CacheClean, KeptClean, Sound, CacheSound
  <2> QED BY <2>1, PlanSoundEnough, BodySoundEnough
<1> QED BY <1>1, <1>2, <1>3, PTL DEF RequestSpec

=============================================================================

----------------------------- MODULE PlanLookup -----------------------------
(***************************************************************************)
(* One host of the compiled route table (src/ir/compile.rs): the plans its *)
(* rules compile to, the path trie with its discriminators, and            *)
(* HostNode::lookup.  The rules of every HTTPRoute attached to the host    *)
(* are concatenated in the order of the view, each route numbering its     *)
(* own rules from zero; the host is compiled anew at every change.         *)
(*                                                                         *)
(* A path is its segments and whether it ends in a slash; with segments of *)
(* one character its string has 2 * Len(segs) + slash characters.  A value *)
(* is a pair <<word, case>>: two values that differ only in the case are   *)
(* equal to eq_ignore_ascii_case.  A regular expression is the set of the  *)
(* words, or of the paths, in which it is found; one that does not compile *)
(* is the empty set.                                                       *)
(***************************************************************************)
EXTENDS Lists

CONSTANTS
    Routes,         \* the HTTPRoutes that may be attached: sequences of rules,
                    \* a rule [matches, action]
    Requests,       \* sample of requests [segs, slash, method, headers, query]
    Threshold,      \* DISCRIMINATOR_THRESHOLD
    MaxRoutes       \* bound: HTTPRoutes attached at the same time

ASSUME ThresholdAssumption == Threshold \in Nat

\* PathMatch and RequestMatch.
IsPath(p) ==
    \/ p.kind = "none"
    \/ p.kind = "prefix" /\ p.segs \in Seq(ToSet(p.segs)) /\ p.slash \in {0, 1}
    \/ /\ p.kind = "exact" /\ p.segs \in Seq(ToSet(p.segs)) /\ p.slash \in {0, 1}
       /\ p = [kind |-> "exact", segs |-> p.segs, slash |-> p.slash]
    \/ p.kind = "regex" /\ p.len \in Nat
Fields == {"headers", "query"}
IsMatch(m) == IsPath(m.path) /\ \A field \in Fields : m[field] \in Seq(ToSet(m[field]))

ASSUME RoutesAssumption ==
    \A route \in Routes :
        /\ route \in Seq(ToSet(route))
        /\ \A rule \in ToSet(route) : /\ rule.matches \in Seq(ToSet(rule.matches))
                                      /\ \A m \in ToSet(rule.matches) : IsMatch(m)
ASSUME RequestsAssumption == \A req \in Requests : req.segs \in Seq(ToSet(req.segs))

VARIABLES
    routes,         \* the attached HTTPRoutes, in the order of the view
    node            \* the compiled HostNode

vars == <<routes, node>>

Absent == <<>>

EqIgnoreCase(v, w) == v[1] = w[1]

PathLen(p) ==
    CASE p.kind = "none" -> 0
      [] p.kind = "regex" -> p.len
      [] OTHER -> 2 * Len(p.segs) + p.slash

-----------------------------------------------------------------------------
(* Compilation. *)

\* `max().unwrap_or(0)` of a list of counts.
MaxOf(counts) == Max({0} \cup ToSet(counts))

\* The four fields of the packed u64, most significant first.  They belong to
\* the rule: every field is the maximum over all the matches of the rule.
ComputePrecedence(rule) ==
    LET ms == rule.matches
    IN  <<MaxOf([i \in DOMAIN ms |-> PathLen(ms[i].path)]),
          MaxOf([i \in DOMAIN ms |-> IF ms[i].method = Absent THEN 0 ELSE 1]),
          MaxOf([i \in DOMAIN ms |-> Len(ms[i].headers)]),
          MaxOf([i \in DOMAIN ms |-> Len(ms[i].query)])>>

\* One plan per match of a rule.
RulePlans(rule, order) ==
    [i \in DOMAIN rule.matches |->
        [precedence |-> ComputePrecedence(rule),
         rule_order |-> order,
         matches    |-> rule.matches[i],
         action     |-> rule.action]]

RoutePlans(route) == Joined([i \in DOMAIN route |-> RulePlans(route[i], i - 1)])
AllPlans(rs) == Joined([i \in DOMAIN rs |-> RoutePlans(rs[i])])

LexLess(s, t) ==
    \E i \in DOMAIN s : s[i] < t[i] /\ \A j \in 1..(i - 1) : s[j] = t[j]

\* Precedence decides first, then the rule order.
Outranks(p, q) ==
    \/ LexLess(q.precedence, p.precedence)
    \/ p.precedence = q.precedence /\ p.rule_order < q.rule_order

\* sort_plans, a stable sort.
Precedes(plans, i, j) ==
    Outranks(plans[i], plans[j]) \/ (i < j /\ ~Outranks(plans[j], plans[i]))
SortPlans(plans) ==
    ListAt(plans, DOMAIN plans,
           {p \in (DOMAIN plans) \X (DOMAIN plans) : Precedes(plans, p[1], p[2])})

OfPathKind(plans, kinds) ==
    Chosen(plans, {i \in DOMAIN plans : plans[i].matches.path.kind \in kinds})

\* insert_plan_into_trie: a prefix is stored at the node of its segments, whether
\* or not it ends in a slash; a match without a path at the root.
TrieKey(plan) == IF plan.matches.path.kind = "none" THEN <<>> ELSE plan.matches.path.segs

TrieNodes(plans) ==
    {<<>>} \cup UNION {{SubSeq(TrieKey(p), 1, n) : n \in 0..Len(TrieKey(p))} : p \in ToSet(plans)}

\* How many matches of the plans name a header (or a query parameter).
Occurrences(plans, field, name) ==
    Cardinality(UNION {
        {<<i, j>> : j \in {k \in DOMAIN plans[i].matches[field] :
                             plans[i].matches[field][k].name = name}} : i \in DOMAIN plans})

Named(plans, field) ==
    UNION {{p.matches[field][j].name : j \in DOMAIN p.matches[field]} : p \in ToSet(plans)}

\* The names with the most occurrences.  The counts come from a HashMap, so which
\* of several equal names max_by_key returns differs from one compilation to the
\* next.
BestNames(plans, field) ==
    {n \in Named(plans, field) : \A o \in Named(plans, field) :
        Occurrences(plans, field, o) <= Occurrences(plans, field, n)}
BestCount(plans, field) ==
    Max({0} \cup {Occurrences(plans, field, n) : n \in Named(plans, field)})

\* The matcher of a plan for a name: the first one with it, if there is one.
MatcherFor(plan, field, name) ==
    FirstOf(plan.matches[field],
            {j \in DOMAIN plan.matches[field] : plan.matches[field][j].name = name})

\* build_method_discriminator.
MethodDiscriminator(plans) ==
    LET values == {p.matches.method : p \in ToSet(plans)} \ {Absent}
        of(v) == SortPlans(Chosen(plans, {i \in DOMAIN plans : plans[i].matches.method = v}))
    IN  [by |-> "method", name |-> "none",
         exact |-> [v \in values |-> of(v)], any |-> of(Absent), fallback |-> <<>>]

\* build_header_discriminator and build_query_discriminator: buckets by the exact
\* value, all other kinds of matcher in the fallback.
NameDiscriminator(plans, field, name) ==
    LET m(i) == MatcherFor(plans[i], field, name)
        has == {i \in DOMAIN plans : m(i) # <<>>}
        exactly == {i \in has : m(i)[1].kind = "exact"}
        values == {m(i)[1].value : i \in exactly}
    IN  [by |-> field, name |-> name,
         exact |-> [v \in values |-> SortPlans(Chosen(plans, {i \in exactly : m(i)[1].value = v}))],
         any |-> SortPlans(Chosen(plans, DOMAIN plans \ has)),
         fallback |-> SortPlans(Chosen(plans, has \ exactly))]

NoBuckets(plans) ==
    [by |-> "method", name |-> "none", exact |-> << >>, any |-> <<>>, fallback |-> plans]

\* build_discriminator: the discriminators it may build for the plans of a node.
BuildDiscriminator(plans) ==
    LET methods == Cardinality({i \in DOMAIN plans : plans[i].matches.method # Absent})
        headers == BestCount(plans, "headers")
        queries == BestCount(plans, "query")
    IN  IF methods >= headers /\ methods >= queries /\ methods > 0
        THEN {MethodDiscriminator(plans)}
        ELSE IF headers >= queries /\ headers > 0
        THEN {NameDiscriminator(plans, "headers", n) : n \in BestNames(plans, "headers")}
        ELSE IF queries > 0
        THEN {NameDiscriminator(plans, "query", n) : n \in BestNames(plans, "query")}
        ELSE {NoBuckets(plans)}

\* A node of the trie without a discriminator keeps its plans as they were
\* inserted.
NoDiscriminator(plans) ==
    [by |-> "none", name |-> "none", exact |-> << >>, any |-> plans, fallback |-> <<>>]

\* build_discriminators, for the node at `key`.
NodesAt(plans, key) ==
    LET at == Chosen(plans, {i \in DOMAIN plans : TrieKey(plans[i]) = key})
    IN  IF Len(at) > Threshold THEN BuildDiscriminator(at) ELSE {NoDiscriminator(at)}

\* The functions that choose, for every k, an element of the set C[k].
FunctionsInto(C) ==
    {f \in [DOMAIN C -> UNION {C[k] : k \in DOMAIN C}] : \A k \in DOMAIN C : f[k] \in C[k]}

\* compile_host: the host nodes that the rules may compile to.
CompileHost(rs) ==
    LET all     == AllPlans(rs)
        in_trie == OfPathKind(all, {"prefix", "none"})
        exact   == OfPathKind(all, {"exact"})
        with(path) == Chosen(exact, {i \in DOMAIN exact : exact[i].matches.path = path})
    IN  {[trie        |-> trie,
          exact_paths |-> [path \in {p.matches.path : p \in ToSet(exact)} |-> SortPlans(with(path))],
          regex_plans |-> SortPlans(OfPathKind(all, {"regex"}))] :
             trie \in FunctionsInto([k \in TrieNodes(in_trie) |-> NodesAt(in_trie, k)])}

-----------------------------------------------------------------------------
(* Lookup. *)

\* The value a request carries under a name: the first one of that header, or of
\* extract_query_param.
ValueOf(req, field, name) ==
    IF name \in DOMAIN req[field] THEN req[field][name] ELSE Absent

MatcherAccepts(h, field, val) ==
    CASE h.kind = "exact" -> /\ val # Absent
                             /\ IF field = "headers" THEN EqIgnoreCase(val, h.value)
                                                     ELSE val = h.value
      [] h.kind = "regex" -> val # Absent /\ val[1] \in h.words
      [] h.kind = "present" -> val # Absent
      [] h.kind = "absent" -> val = Absent

\* plan_matches: everything but the path.
PlanMatches(plan, req) ==
    LET m == plan.matches
    IN  /\ m.method # Absent => EqIgnoreCase(m.method, req.method)
        /\ \A field \in Fields : \A j \in DOMAIN m[field] :
              MatcherAccepts(m[field][j], field, ValueOf(req, field, m[field][j].name))

\* The value of the attribute that a node discriminates by.
AttributeOf(d, req) ==
    CASE d.by = "method" -> req.method
      [] d.by \in Fields -> ValueOf(req, d.by, d.name)
      [] d.by = "none" -> Absent

\* Mutant of ResolveNodePlans: a bucket hides the plans that do not constrain the
\* attribute.
ResolveBucketOnly(d, req) ==
    LET val == AttributeOf(d, req)
    IN  IF val \in DOMAIN d.exact THEN d.exact[val] ELSE d.any \o d.fallback

\* resolve_node_plans.
ResolveNodePlans(d, req) ==
    LET val == AttributeOf(d, req)
        bucket == IF val \in DOMAIN d.exact THEN d.exact[val] ELSE <<>>
    IN  bucket \o d.any \o d.fallback

RegexPathMatches(plan, req) == [segs |-> req.segs, slash |-> req.slash] \in plan.matches.path.paths

\* The first plan of a list that matches a request.
FirstMatch(plans, req) == FirstOf(plans, {i \in DOMAIN plans : PlanMatches(plans[i], req)})

\* What the walk down the trie and the regular expressions give: the plans of every node
\* on the way from the root, as far as there are nodes.
Candidates(n, req) ==
    LET at(k) == SubSeq(req.segs, 1, k - 1)
        walk == Joined([k \in 1..(Len(req.segs) + 1) |->
                    IF at(k) \in DOMAIN n.trie THEN ResolveNodePlans(n.trie[at(k)], req) ELSE <<>>])
        regex == {i \in DOMAIN n.regex_plans : /\ PlanMatches(n.regex_plans[i], req)
                                               /\ RegexPathMatches(n.regex_plans[i], req)}
    IN  walk \o Chosen(n.regex_plans, regex)

\* HostNode::lookup: the plan, or nothing.
Lookup(n, req) ==
    LET path == [kind |-> "exact", segs |-> req.segs, slash |-> req.slash]
        bucket == IF path \in DOMAIN n.exact_paths THEN n.exact_paths[path] ELSE <<>>
        exact == FirstMatch(bucket, req)
    IN  IF exact # <<>> THEN exact ELSE FirstMatch(SortPlans(Candidates(n, req)), req)

-----------------------------------------------------------------------------
Init ==
    /\ routes = <<>>
    /\ node \in CompileHost(<<>>)

\* An HTTPRoute is attached: its name puts it anywhere in the view.
AddRoute(r) ==
    /\ Len(routes) < MaxRoutes
    /\ r \notin ToSet(routes)
    /\ \E i \in 1..(Len(routes) + 1) : routes' = InsertAt(routes, i, r)
    /\ node' \in CompileHost(routes')

RemoveRoute(i) ==
    /\ routes' = RemoveAt(routes, i)
    /\ node' \in CompileHost(routes')

Next ==
    \/ \E r \in Routes : AddRoute(r)
    \/ \E i \in DOMAIN routes : RemoveRoute(i)

Spec == Init /\ [][Next]_vars

-----------------------------------------------------------------------------
\* Whether the path of a plan accepts a request, by the words of the Gateway API:
\* a prefix element by element, an exact path as it is.
PathAccepts(p, req) ==
    CASE p.kind = "none" -> TRUE
      [] p.kind = "prefix" -> IsPrefix(p.segs, req.segs)
      [] p.kind = "exact" -> p.segs = req.segs /\ p.slash = req.slash
      [] p.kind = "regex" -> [segs |-> req.segs, slash |-> req.slash] \in p.paths

Accepts(plan, req) == PathAccepts(plan.matches.path, req) /\ PlanMatches(plan, req)

Better(p, q) ==
    LET ex(x) == x.matches.path.kind = "exact"
    IN  \/ ex(p) /\ ~ex(q)
        \/ ex(p) = ex(q) /\ Outranks(p, q)

LookupAgrees(reqs) ==
    LET plans == ToSet(AllPlans(routes))
    IN  \A req \in reqs :
          LET ok == {p \in plans : Accepts(p, req)}
              found == Lookup(node, req)
          IN  /\ found = <<>> => ok = {}
              /\ found # <<>> => found[1] \in ok /\ \A p \in ok : ~Better(p, found[1])

\* The request spells every value that a plan compares ignoring case as the plan does.
SpelledAs(plan, req) ==
    LET m == plan.matches
    IN  /\ m.method # Absent /\ EqIgnoreCase(m.method, req.method) => m.method = req.method
        /\ \A h \in ToSet(m.headers) :
              LET val == ValueOf(req, "headers", h.name)
              IN  h.kind = "exact" /\ val # Absent /\ EqIgnoreCase(val, h.value) => val = h.value
Canonical(req) == \A p \in ToSet(AllPlans(routes)) : SpelledAs(p, req)

\* HostNode::lookup through the trie, the exact-path index and the discriminators
\* finds what a scan of all rules would: "Exact path matches take precedence over
\* prefix matches", then precedence, then rule order; and nothing only when no rule
\* accepts the request.  However many routes share a trie node and whichever
\* attribute the discriminator picks, no rule is lost.  It is about requests that spell
\* methods and header values as the routes do.
LookupIsBest == LookupAgrees({req \in Requests : Canonical(req)})

\* The same of requests in any case: plan_matches compares methods and header
\* values ignoring case ("select_path_route_header_match_is_case_insensitive").
LookupIgnoresCase == LookupAgrees(Requests)

\* compute_precedence, "Gateway API precedence for HTTPRoute matches
\* (most-significant first): path length": of two prefix matches of different rules
\* that accept a request, the longer path answers.
LongestPathAnswers ==
    LET plans == ToSet(AllPlans(routes))
    IN  \A req \in {q \in Requests : Canonical(q)} :
          LET found == Lookup(node, req)
          IN  \A p \in plans :
              (/\ Accepts(p, req) /\ p.matches.path.kind = "prefix"
               /\ found # <<>> /\ found[1].matches.path.kind = "prefix"
               /\ found[1].action # p.action) =>
                  PathLen(p.matches.path) <= PathLen(found[1].matches.path)

=============================================================================

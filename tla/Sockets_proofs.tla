---------------------------- MODULE Sockets_proofs ----------------------------
(***************************************************************************)
(* Proofs about the way from the tables of the sources to the sockets and  *)
(* to the routes that answer on them.                                      *)
(*                                                                         *)
(* About RouteServing, for any sources, priorities and tables and any      *)
(* sequence of swaps: every listener of the merged table is served by      *)
(* exactly one socket, which is as strict about client certificates as the *)
(* listener (OneSocketPerListener); a swap that leaves the listeners of an *)
(* address alone leaves its sockets alone (SocketsStable); a TLS           *)
(* connection reaches a route of its most specific listener                *)
(* (TlsRoutesReachable); and a request is answered by the most specific    *)
(* host, of the source with the highest priority where hosts are equal     *)
(* (LookupIsMostSpecific).                                                 *)
(*                                                                         *)
(* The sockets rest on what the compiler does with any set of listeners.   *)
(* A listener is grouped by its canonical id, which depends on the other   *)
(* listeners of its address (HTTPS and TLS are merged only where they      *)
(* meet) and on nothing else; and the protocol of a group tells the groups *)
(* of one address apart.  The lookups rest on the order of the merge,      *)
(* which is total (EarlierOrders) and kept among the exact hosts of the    *)
(* index (ExactListed): so the first of the best candidates is of the      *)
(* first source.                                                           *)
(*                                                                         *)
(* About ConfigPipeline, for every set of sources and tables and any       *)
(* number of updates: the router and the sockets never disagree for good   *)
(* (RouterAgreesWithSockets), and no update is lost when updates are far   *)
(* enough apart (UpdatesReachSockets, which TLC refutes for updates that   *)
(* overlap).                                                               *)
(*                                                                         *)
(* What the L4 manager will run once its queue is drained is the last      *)
(* configuration that the updater thread forwarded: that relates the       *)
(* updater's `last` to the manager's `current`, although the cell between  *)
(* them is written by both managers.                                       *)
(***************************************************************************)
EXTENDS ConfigPipeline, RouteServing, Lists_proofs

-----------------------------------------------------------------------------
(* What the merge makes of the tables. *)

Fields == {"listeners", "hosts", "l4_routes"}

\* The entries of a field: a source that reported, with a position in its table.
LEMMA EntryParts ==
    ASSUME NEW reported \in SourceMaps, NEW field \in Fields, NEW e \in Entries(reported, field)
    PROVE  /\ e[1] \in Reported(reported) /\ e[1] \in SourceIds /\ reported[e[1]] \in Tables
           /\ e[2] \in DOMAIN reported[e[1]][field] /\ e[2] \in Nat
           /\ e = <<e[1], e[2]>>
           /\ EntryOf(reported, field, e) \in ToSet(reported[e[1]][field])
<1>1. PICK s \in Reported(reported) : e \in {s} \X DOMAIN reported[s][field]
  BY DEF Entries
<1>2. e = <<s, e[2]>> /\ e[1] = s /\ e[2] \in DOMAIN reported[s][field]
  BY <1>1
<1>3. s \in SourceIds /\ reported[s] \in Tables
  BY DEF Reported, SourceMaps
<1>4. reported[s][field] \in Seq(ToSet(reported[s][field]))
  BY <1>3, TablesAssumption DEF Fields
<1>5. e[2] \in Nat
  BY <1>2, <1>4
<1>6. EntryOf(reported, field, e) \in ToSet(reported[s][field])
  BY <1>2 DEF EntryOf, ToSet
<1> QED BY <1>2, <1>3, <1>5, <1>6

\* There are finitely many.
LEMMA EntriesFinite ==
    ASSUME NEW reported \in SourceMaps, NEW field \in Fields
    PROVE  IsFiniteSet(Entries(reported, field))
<1> DEFINE part(s) == {s} \X DOMAIN reported[s][field]
           parts == {part(s) : s \in Reported(reported)}
<1>1. IsFiniteSet(Reported(reported))
  <2>1. Reported(reported) \in SUBSET SourceIds
    BY DEF Reported
  <2> QED BY <2>1, SourcesFinite, FS_Subset
<1>2. ASSUME NEW s \in Reported(reported) PROVE IsFiniteSet(part(s))
  <2>1. reported[s] \in Tables
    BY DEF Reported, SourceMaps
  <2>2. reported[s][field] \in Seq(ToSet(reported[s][field]))
    BY <2>1, TablesAssumption DEF Fields
  <2>3. DOMAIN reported[s][field] = 1..Len(reported[s][field]) /\ Len(reported[s][field]) \in Int /\ 1 \in Int
    BY <2>2
  <2>4. IsFiniteSet(DOMAIN reported[s][field])
    BY <2>3, FS_Interval
  <2>5. IsFiniteSet({s})
    BY FS_Singleton
  <2> QED BY <2>4, <2>5, FS_Product
<1> HIDE DEF part
<1>3. IsFiniteSet(parts)
  <2> DEFINE f == [s \in Reported(reported) |-> part(s)]
  <2>1. f \in Surjection(Reported(reported), parts)
    BY DEF Surjection
  <2> HIDE DEF f, parts
  <2> QED BY <1>1, <2>1, FS_Surjection
<1>4. \A T \in parts : IsFiniteSet(T)
  BY <1>2
<1> HIDE DEF parts
<1>5. IsFiniteSet(UNION parts)
  BY <1>3, <1>4, FS_UNION
<1> QED BY <1>5 DEF Entries, part, parts

\* The order of the merge is one: of two entries, one comes first.
LEMMA EarlierOrders ==
    ASSUME NEW reported \in SourceMaps, NEW field \in Fields
    PROVE  LET entries == Entries(reported, field)
           IN  StrictOrder(entries, {p \in entries \X entries : Earlier(p[1], p[2])})
<1> DEFINE E == Entries(reported, field)
           R == {p \in E \X E : Earlier(p[1], p[2])}
<1>1. \A e \in E : e[1] \in SourceIds /\ e[2] \in Nat /\ e = <<e[1], e[2]>>
  BY EntryParts
<1>2. \A s \in SourceIds : Priority[s] \in Int /\ IdRank[s] \in Int
  BY PriorityAssumption, IdRankAssumption
<1>3. \A s, t \in SourceIds : IdRank[s] = IdRank[t] => s = t
  BY IdRankAssumption
<1> HIDE DEF E
<1>4. \A a, b \in E : <<a, b>> \in R <=> Earlier(a, b)
  OBVIOUS
<1> HIDE DEF R
<1>5. ASSUME NEW a \in E PROVE <<a, a>> \notin R
  <2>1. ~Before(a[1], a[1]) /\ ~(a[2] < a[2])
    BY <1>1, <1>2 DEF Before
  <2> QED BY <1>4, <2>1 DEF Earlier
<1>6. ASSUME NEW a \in E, NEW b \in E, NEW c \in E, <<a, b>> \in R, <<b, c>> \in R PROVE <<a, c>> \in R
  <2>1. Earlier(a, b) /\ Earlier(b, c)
    BY <1>4, <1>6
  <2>2. \A r, s, t \in SourceIds : Before(r, s) /\ Before(s, t) => Before(r, t)
    BY <1>2 DEF Before
  <2>3. a[2] < b[2] /\ b[2] < c[2] => a[2] < c[2]
    BY <1>1
  <2>4. Earlier(a, c)
    BY <1>1, <2>1, <2>2, <2>3 DEF Earlier
  <2> QED BY <1>4, <2>4
<1>7. ASSUME NEW a \in E, NEW b \in E PROVE a = b \/ <<a, b>> \in R \/ <<b, a>> \in R
  <2>1. a[1] = b[1] \/ Before(a[1], b[1]) \/ Before(b[1], a[1])
    BY <1>1, <1>2, <1>3 DEF Before
  <2>2. a[2] = b[2] \/ a[2] < b[2] \/ b[2] < a[2]
    BY <1>1
  <2>3. (a[1] = b[1] /\ a[2] = b[2]) => a = b
    BY <1>1
  <2> QED BY <1>4, <2>1, <2>2, <2>3 DEF Earlier
<1>8. StrictOrder(E, R)
  BY <1>5, <1>6, <1>7 DEF StrictOrder
<1> QED BY <1>8 DEF E, R

\* What the merge makes of a field: the entries of the sources that reported, and of two
\* places, the first has an entry of a source with at least the priority of the second.
Merges(reported, field, all, ord) ==
    /\ all \in Seq(ToSet(all)) /\ DOMAIN ord = DOMAIN all
    /\ \A k \in DOMAIN all :
          ord[k][1] \in Reported(reported) /\ all[k] \in ToSet(reported[ord[k][1]][field])
    /\ \A s \in Reported(reported) : \A x \in ToSet(reported[s][field]) :
          \E k \in DOMAIN all : all[k] = x /\ ord[k][1] = s
    /\ \A j, k \in DOMAIN all : j <= k => Priority[ord[j][1]] >= Priority[ord[k][1]]

\* merge_sources goes through the sources in the order of their priorities.
LEMMA Concatenated ==
    ASSUME NEW reported \in SourceMaps, NEW field \in Fields
    PROVE  Merges(reported, field, Concat(reported, field), MergeOrder(reported, field))
<1> DEFINE E == Entries(reported, field)
           R == {p \in E \X E : Earlier(p[1], p[2])}
           n == Cardinality(E)
           ord == MergeOrder(reported, field)
           all == Concat(reported, field)
<1>1. IsFiniteSet(E) /\ StrictOrder(E, R)
  BY EntriesFinite, EarlierOrders
<1>2. ord = InOrder(E, R)
  BY DEF MergeOrder
<1>3. \A a, b \in E : <<a, b>> \in R <=> Earlier(a, b)
  OBVIOUS
<1> HIDE DEF R, ord
<1>4. /\ n \in Nat /\ DOMAIN ord = 1..n
      /\ \A k \in 1..n : ord[k] \in E
      /\ \A e \in E : \E k \in 1..n : ord[k] = e
      /\ \A j, k \in 1..n : <<ord[j], ord[k]>> \in R => j < k
  BY <1>1, <1>2, Listed
<1> HIDE DEF n
<1>5. /\ DOMAIN all = 1..n /\ \A k \in 1..n : all[k] = EntryOf(reported, field, ord[k])
      /\ all = [k \in 1..n |-> EntryOf(reported, field, ord[k])]
  BY <1>4 DEF Concat, ord
<1> HIDE DEF all
<1>6. all \in Seq(ToSet(all))
  <2>1. \A k \in 1..n : all[k] \in ToSet(all)
    BY <1>5 DEF ToSet
  <2>2. all \in [1..n -> ToSet(all)]
    BY <1>5, <2>1
  <2> QED BY <1>4, <2>2, SeqDef
<1>7. \A k \in 1..n : ord[k][1] \in Reported(reported) /\ all[k] \in ToSet(reported[ord[k][1]][field])
  BY <1>4, <1>5, EntryParts
<1>8. ASSUME NEW s \in Reported(reported), NEW x \in ToSet(reported[s][field])
      PROVE  \E k \in 1..n : all[k] = x /\ ord[k][1] = s
  <2>1. PICK i \in DOMAIN reported[s][field] : x = reported[s][field][i]
    BY DEF ToSet
  <2>2. <<s, i>> \in E
    BY DEF Entries
  <2>3. PICK k \in 1..n : ord[k] = <<s, i>>
    BY <1>4, <2>2
  <2>4. all[k] = x /\ ord[k][1] = s
    BY <1>5, <2>1, <2>3 DEF EntryOf
  <2> QED BY <2>4
<1>9. ASSUME NEW j \in 1..n, NEW k \in 1..n, j <= k
      PROVE  Priority[ord[j][1]] >= Priority[ord[k][1]]
  <2>1. ord[j] \in E /\ ord[k] \in E
    BY <1>4
  <2>2. ord[j][1] \in SourceIds /\ ord[k][1] \in SourceIds
    BY <2>1, EntryParts
  <2>3. Priority[ord[j][1]] \in Int /\ Priority[ord[k][1]] \in Int
    BY <2>2, PriorityAssumption
  <2>4. ~(k < j)
    BY <1>4, <1>9
  <2>5. <<ord[k], ord[j]>> \notin R
    BY <1>4, <2>4
  <2>6. ord[j] = ord[k] \/ <<ord[j], ord[k]>> \in R
    BY <1>1, <2>1, <2>5 DEF StrictOrder
  <2>7. ord[j] = ord[k] \/ Earlier(ord[j], ord[k])
    BY <1>3, <2>1, <2>6
  <2>8. ord[j][1] = ord[k][1] \/ Before(ord[j][1], ord[k][1])
    BY <2>7 DEF Earlier
  <2> QED BY <2>3, <2>8 DEF Before
<1> QED BY <1>4, <1>5, <1>6, <1>7, <1>8, <1>9 DEF ord, all, Merges

\* So the merge keeps one listener of every id.
LEMMA OneListenerPerId ==
    ASSUME NEW reported \in SourceMaps, NEW l \in MergedListeners(reported), NEW m \in MergedListeners(reported),
           l.id = m.id
    PROVE  l = m
<1> DEFINE E == Entries(reported, "listeners")
           R == {p \in E \X E : Earlier(p[1], p[2])}
           listener(e) == EntryOf(reported, "listeners", e)
           first == {e \in E : \A d \in E : Earlier(d, e) => listener(d).id # listener(e).id}
<1>1. PICK a \in first, b \in first : l = listener(a) /\ m = listener(b)
  BY DEF MergedListeners
<1>2. StrictOrder(E, R)
  BY EarlierOrders DEF Fields
<1>3. a = b \/ Earlier(a, b) \/ Earlier(b, a)
  BY <1>2 DEF StrictOrder
<1> QED BY <1>1, <1>3

-----------------------------------------------------------------------------
(* What a set of listeners compiles to. *)

\* The protocols a connection of the listener may find on its socket.
Speaks(l) == IF l.protocol \in TlsProtocols THEN TlsProtocols ELSE {l.protocol}

\* Whether the compiler merges the listener with others of its address.
IsShared(ls, l) == l.protocol \in TlsProtocols /\ l.bind_addr \in SharedTlsAddrs(ls)

SocketOf(ls, l) == CompiledListener(ls, CanonicalId(ls, l))

-----------------------------------------------------------------------------
\* HTTPS and TLS listeners meet on an address exactly when it has one of each.
LEMMA SharedMeans ==
    ASSUME NEW ls, NEW a
    PROVE  a \in SharedTlsAddrs(ls) <=>
             /\ \E x \in ls : x.bind_addr = a /\ x.protocol = "Https"
             /\ \E y \in ls : y.bind_addr = a /\ y.protocol = "Tls"
  BY Zenon DEF SharedTlsAddrs, TlsProtocols

\* The parts of the canonical id.
LEMMA IdParts ==
    ASSUME NEW ls, NEW l
    PROVE  /\ CanonicalId(ls, l)[1] = l.bind_addr
           /\ IsShared(ls, l) => CanonicalId(ls, l) = <<l.bind_addr, "tls">>
           /\ ~IsShared(ls, l) => CanonicalId(ls, l) = <<l.bind_addr, l.protocol>>
  BY DEF CanonicalId, IsShared

\* A socket has the address of its listeners; it speaks Tls when they were merged and
\* their protocol when they were not.
LEMMA SocketSpeaks ==
    ASSUME NEW ls, NEW l \in ls, \A x \in ls : x.protocol \in Protocols
    PROVE  /\ SocketOf(ls, l).id = CanonicalId(ls, l)
           /\ SocketOf(ls, l).bind_addr = l.bind_addr
           /\ IsShared(ls, l) => SocketOf(ls, l).protocol = "Tls"
           /\ ~IsShared(ls, l) => SocketOf(ls, l).protocol = l.protocol
<1> DEFINE id == CanonicalId(ls, l)
           group == GroupOf(ls, id)
<1>1. /\ SocketOf(ls, l).id = id
      /\ SocketOf(ls, l).bind_addr = id[1]
      /\ SocketOf(ls, l).protocol = IF \E x \in group : x.protocol = "Tls" THEN "Tls"
                                    ELSE (CHOOSE x \in group : TRUE).protocol
  BY DEF SocketOf, CompiledListener
<1>2. l \in group
  BY DEF GroupOf
<1>3. ASSUME IsShared(ls, l)
      PROVE  SocketOf(ls, l).protocol = "Tls"
  <2>1. PICK y \in ls : y.bind_addr = l.bind_addr /\ y.protocol = "Tls"
    BY <1>3, SharedMeans DEF IsShared
  <2>2. IsShared(ls, y)
    BY <1>3, <2>1 DEF IsShared, TlsProtocols
  <2>3. y \in group
    BY <1>3, <2>1, <2>2, IdParts DEF GroupOf
  <2> QED BY <1>1, <2>1, <2>3
<1>4. ASSUME ~IsShared(ls, l)
      PROVE  SocketOf(ls, l).protocol = l.protocol
  <2>1. ASSUME NEW x \in group
        PROVE  x.protocol = l.protocol
    <3>1. x \in ls /\ CanonicalId(ls, x) = <<l.bind_addr, l.protocol>>
      BY <1>4, <2>1, IdParts DEF GroupOf
    <3>2. l.protocol # "tls"
      BY DEF Protocols
    <3> QED BY <3>1, <3>2, IdParts
  <2>2. (CHOOSE x \in group : TRUE) \in group
    BY <1>2
  <2> QED BY <1>1, <1>2, <2>1, <2>2
<1> QED BY <1>1, <1>3, <1>4, IdParts

\* Two listeners of an address that could answer the same connection have one id.
LEMMA SameSocket ==
    ASSUME NEW ls, NEW l \in ls, NEW x \in ls, \A y \in ls : y.protocol \in Protocols,
           x.bind_addr = l.bind_addr, SocketOf(ls, x).protocol \in Speaks(l)
    PROVE  CanonicalId(ls, x) = CanonicalId(ls, l)
<1>1. CASE l.protocol \notin TlsProtocols
  <2>1. SocketOf(ls, x).protocol = l.protocol
    BY <1>1 DEF Speaks
  <2>2. ~IsShared(ls, x) /\ ~IsShared(ls, l)
    BY <1>1, <2>1, SocketSpeaks DEF IsShared, TlsProtocols
  <2> QED BY <2>1, <2>2, SocketSpeaks, IdParts
<1>2. CASE l.protocol \in TlsProtocols
  <2>1. x.protocol \in TlsProtocols
    BY <1>2, SocketSpeaks DEF Speaks, IsShared
  <2>2. CASE l.bind_addr \in SharedTlsAddrs(ls)
    BY <1>2, <2>1, <2>2, IdParts DEF IsShared
  <2>3. CASE l.bind_addr \notin SharedTlsAddrs(ls)
    <3>1. ~IsShared(ls, x) /\ ~IsShared(ls, l)
      BY <2>3 DEF IsShared
    <3>2. x.protocol = l.protocol
      BY <1>2, <2>1, <2>3, SharedMeans DEF TlsProtocols
    <3> QED BY <3>1, <3>2, IdParts
  <2> QED BY <2>2, <2>3
<1> QED BY <1>1, <1>2

\* A listener that demands client certificates makes its whole socket demand them.
LEMMA StrictSocket ==
    ASSUME NEW ls, NEW l \in ls, l.validation = "strict"
    PROVE  SocketOf(ls, l).validation = "strict"
<1>1. l \in GroupOf(ls, CanonicalId(ls, l))
  BY DEF GroupOf
<1> QED BY <1>1 DEF SocketOf, CompiledListener

\* What OneSocketPerListener says, of the compilation of any listeners.
LEMMA CompiledOnce ==
    ASSUME NEW ls, NEW l \in ls, \A x \in ls : x.protocol \in Protocols
    PROVE  {c \in CompiledListeners(ls) : c.bind_addr = l.bind_addr /\ c.protocol \in Speaks(l)}
               = {SocketOf(ls, l)}
<1> DEFINE on == {c \in CompiledListeners(ls) : c.bind_addr = l.bind_addr /\ c.protocol \in Speaks(l)}
<1>1. SocketOf(ls, l) \in on
  <2>1. SocketOf(ls, l) \in CompiledListeners(ls)
    BY DEF SocketOf, CompiledListeners
  <2>2. SocketOf(ls, l).protocol \in Speaks(l)
    BY SocketSpeaks DEF Speaks, IsShared, TlsProtocols
  <2> QED BY <2>1, <2>2, SocketSpeaks
<1>2. ASSUME NEW c \in on
      PROVE  c = SocketOf(ls, l)
  <2>1. PICK x \in ls : c = SocketOf(ls, x)
    BY DEF SocketOf, CompiledListeners
  <2>2. x.bind_addr = l.bind_addr /\ SocketOf(ls, x).protocol \in Speaks(l)
    BY <2>1, SocketSpeaks
  <2>3. CanonicalId(ls, x) = CanonicalId(ls, l)
    BY <2>2, SameSocket
  <2> QED BY <2>1, <2>3 DEF SocketOf
<1> QED BY <1>1, <1>2

-----------------------------------------------------------------------------
ServedType == served \in SourceMaps

\* The sources keep their tables: what is served is made of tables they reported.
LEMMA ServedTypeInductive ==
    /\ Swaps!Init => ServedType
    /\ ServedType /\ [Swaps!Next]_served => ServedType'
  BY DEF Swaps!Init, Swaps!Empty, Swaps!Next, Swaps!Swap, ServedType, SourceMaps

\* The merge invents no listener.
LEMMA MergedProtocols ==
    ASSUME ServedType
    PROVE  \A l \in Merged.listeners : l.protocol \in Protocols
<1> SUFFICES ASSUME NEW l \in MergedListeners(served)
             PROVE  l.protocol \in Protocols
  BY DEF Merged, MergeSources
<1>1. PICK e \in Entries(served, "listeners") : l = EntryOf(served, "listeners", e)
  BY DEF MergedListeners
<1>2. served[e[1]] \in Tables /\ e[2] \in DOMAIN served[e[1]].listeners
  BY EntryParts DEF ServedType, Fields
<1> QED BY <1>1, <1>2, ProtocolAssumption DEF EntryOf

\* Every listener of every source that the merge keeps is served by exactly one socket
\* of its address, and by one that demands client certificates when it does: the groups
\* CompiledL4Config::compile makes neither drop a listener nor serve it twice, whatever
\* the sources report.
THEOREM AlwaysOneSocket == ServingSpec => []OneSocketPerListener
<1>1. ServedType => OneSocketPerListener
  <2> SUFFICES ASSUME ServedType, NEW l \in Merged.listeners
               PROVE  LET on == {c \in L4Of(served).listeners :
                                   c.bind_addr = l.bind_addr /\ c.protocol \in Speaks(l)}
                      IN  /\ Cardinality(on) = 1
                          /\ l.validation = "strict" => \A c \in on : c.validation = "strict"
    BY DEF OneSocketPerListener, Speaks
  <2> DEFINE ls == Merged.listeners
  <2>1. L4Of(served).listeners = CompiledListeners(ls)
    BY DEF L4Of, Merged
  <2>2. \A x \in ls : x.protocol \in Protocols
    BY MergedProtocols
  <2>3. {c \in L4Of(served).listeners : c.bind_addr = l.bind_addr /\ c.protocol \in Speaks(l)}
            = {SocketOf(ls, l)}
    BY <2>1, <2>2, CompiledOnce
  <2>4. Cardinality({SocketOf(ls, l)}) = 1
    BY FS_Singleton
  <2>5. l.validation = "strict" => SocketOf(ls, l).validation = "strict"
    BY StrictSocket
  <2> QED BY <2>3, <2>4, <2>5
<1> QED BY <1>1, ServedTypeInductive, PTL DEF ServingSpec, Swaps!Spec

-----------------------------------------------------------------------------
\* The canonical id of a listener depends only on the listeners of its address.
LEMMA IdIsLocal ==
    ASSUME NEW ls, NEW ms, NEW l, At(ls, l.bind_addr) = At(ms, l.bind_addr)
    PROVE  CanonicalId(ls, l) = CanonicalId(ms, l)
<1>1. l.bind_addr \in SharedTlsAddrs(ls) <=> l.bind_addr \in SharedTlsAddrs(ms)
  <2>1. \A x : (x \in ls /\ x.bind_addr = l.bind_addr) <=> (x \in ms /\ x.bind_addr = l.bind_addr)
    BY DEF At
  <2>2. (\E x \in ls : x.bind_addr = l.bind_addr /\ x.protocol = "Https")
            <=> (\E x \in ms : x.bind_addr = l.bind_addr /\ x.protocol = "Https")
    BY <2>1
  <2>3. (\E x \in ls : x.bind_addr = l.bind_addr /\ x.protocol = "Tls")
            <=> (\E x \in ms : x.bind_addr = l.bind_addr /\ x.protocol = "Tls")
    BY <2>1
  <2> QED BY <2>2, <2>3, SharedMeans
<1> QED BY <1>1 DEF CanonicalId

\* So does the group of an id, and with it the socket.
LEMMA SocketIsLocal ==
    ASSUME NEW ls, NEW ms, NEW id, At(ls, id[1]) = At(ms, id[1])
    PROVE  CompiledListener(ls, id) = CompiledListener(ms, id)
<1>1. \A x : (x \in ls /\ x.bind_addr = id[1]) <=> (x \in ms /\ x.bind_addr = id[1])
  BY DEF At
<1>2. ASSUME NEW x
      PROVE  x \in GroupOf(ls, id) <=> x \in GroupOf(ms, id)
  <2>1. CASE x.bind_addr # id[1]
    BY <2>1, IdParts DEF GroupOf
  <2>2. CASE x.bind_addr = id[1]
    <3>1. CanonicalId(ls, x) = CanonicalId(ms, x)
      BY <2>2, IdIsLocal
    <3> QED BY <1>1, <2>2, <3>1 DEF GroupOf
  <2> QED BY <2>1, <2>2
<1>3. GroupOf(ls, id) = GroupOf(ms, id)
  BY <1>2
<1> QED BY <1>3 DEF CompiledListener

\* The sockets of an address are a function of its listeners.
LEMMA SocketsAreLocal ==
    ASSUME NEW ls, NEW ms, NEW a, At(ls, a) = At(ms, a)
    PROVE  At(CompiledListeners(ls), a) \subseteq At(CompiledListeners(ms), a)
<1> SUFFICES ASSUME NEW c \in At(CompiledListeners(ls), a)
             PROVE  c \in At(CompiledListeners(ms), a)
  OBVIOUS
<1>1. PICK x \in ls : c = CompiledListener(ls, CanonicalId(ls, x))
  BY DEF At, CompiledListeners
<1>2. c.bind_addr = a /\ c.bind_addr = CanonicalId(ls, x)[1]
  BY <1>1 DEF At, CompiledListener
<1>3. x.bind_addr = a
  BY <1>2, IdParts
<1>4. x \in ms
  BY <1>3 DEF At
<1>5. CanonicalId(ls, x) = CanonicalId(ms, x)
  BY <1>3, IdIsLocal
<1>6. c = CompiledListener(ms, CanonicalId(ms, x))
  BY <1>1, <1>2, <1>5, SocketIsLocal
<1>7. c \in CompiledListeners(ms)
  BY <1>4, <1>6 DEF CompiledListeners
<1> QED BY <1>2, <1>7 DEF At

\* A swap never changes the sockets of an address whose listeners it leaves as they
\* were, so that the L4 manager has nothing to rebind there.
THEOREM SocketsAlwaysStable == ServingSpec => SocketsStable
<1>1. \A l \in Merged.listeners :
          At(Merged'.listeners, l.bind_addr) = At(Merged.listeners, l.bind_addr) =>
              At(L4Of(served').listeners, l.bind_addr) = At(L4Of(served).listeners, l.bind_addr)
  <2> SUFFICES ASSUME NEW l \in Merged.listeners,
                      At(Merged'.listeners, l.bind_addr) = At(Merged.listeners, l.bind_addr)
               PROVE  At(L4Of(served').listeners, l.bind_addr)
                          = At(L4Of(served).listeners, l.bind_addr)
    OBVIOUS
  <2>1. /\ L4Of(served).listeners = CompiledListeners(Merged.listeners)
        /\ L4Of(served').listeners = CompiledListeners(Merged'.listeners)
    BY DEF L4Of, Merged
  <2> DEFINE ls == Merged.listeners
             ms == Merged'.listeners
             a == l.bind_addr
  <2>2. At(ls, a) = At(ms, a)
    OBVIOUS
  <2> HIDE DEF ls, ms, a
  <2>3. /\ At(CompiledListeners(ls), a) \subseteq At(CompiledListeners(ms), a)
        /\ At(CompiledListeners(ms), a) \subseteq At(CompiledListeners(ls), a)
    BY <2>2, SocketsAreLocal
  <2>4. At(CompiledListeners(ls), a) = At(CompiledListeners(ms), a)
    BY <2>3
  <2> QED BY <2>1, <2>4 DEF ls, ms, a
<1> QED BY <1>1, PTL DEF SocketsStable

-----------------------------------------------------------------------------
(* Connections that the SNI routes. *)

\* Compiling a route changes the id of its listener and nothing else that a lookup reads: it
\* becomes the id of the socket, or one that no socket has.
LEMMA CompiledRoute ==
    ASSUME NEW ls, NEW routes, NEW i \in DOMAIN routes,
           {"listener_id", "listener_hostname", "match", "action"} \subseteq DOMAIN routes[i]
    PROVE  LET c == CompiledL4Routes(ls, routes)[i]
           IN  /\ c.match = routes[i].match /\ c.action = routes[i].action
               /\ c.listener_hostname = routes[i].listener_hostname
               /\ \/ \E l \in ls : l.id = routes[i].listener_id /\ c.listener_id = CanonicalId(ls, l)
                  \/ (~\E l \in ls : l.id = routes[i].listener_id) /\ c.listener_id = <<routes[i].listener_id>>
<1> DEFINE r == routes[i]
           known == \E l \in ls : l.id = r.listener_id
           l0 == CHOOSE l \in ls : l.id = r.listener_id
           new == IF known THEN CanonicalId(ls, l0) ELSE <<r.listener_id>>
           c == CompiledL4Routes(ls, routes)[i]
<1>1. c = [r EXCEPT !.listener_id = new]
  BY DEF CompiledL4Routes
<1>2. known => l0 \in ls /\ l0.id = r.listener_id
  OBVIOUS
<1> HIDE DEF l0, r
<1>3. c.match = r.match /\ c.action = r.action /\ c.listener_hostname = r.listener_hostname /\ c.listener_id = new
  <2> HIDE DEF new, c
  <2> QED BY <1>1 DEF r
<1> HIDE DEF c
<1>4. CASE known
  BY <1>2, <1>3, <1>4 DEF r, c
<1>5. CASE ~known
  BY <1>3, <1>5 DEF r, c
<1> QED BY <1>4, <1>5

\* The scores of matchers are numbers.
LEMMA ScoreType ==
    ASSUME NEW hm, IsMatcher(hm)
    PROVE  SpecificityScore(hm) \in Int /\ ListenerSpecificityScore(hm) \in Int
<1>1. Len(hm.labels) \in Nat
  BY DEF IsMatcher
<1>2. SpecificityScore(hm) \in Int
  BY <1>1 DEF IsMatcher, SpecificityScore
<1> QED BY <1>2 DEF ListenerSpecificityScore

\* The merged routes are routes of tables.
LEMMA MergedRoutes ==
    ASSUME ServedType
    PROVE  LET routes == Merged.l4_routes
           IN  /\ DOMAIN routes \subseteq Nat
               /\ \A i \in DOMAIN routes :
                     /\ {"listener_id", "listener_hostname", "match", "action"} \subseteq DOMAIN routes[i]
                     /\ ListenerRank(routes[i]) \in Int
<1> DEFINE routes == Merged.l4_routes
           ord == MergeOrder(served, "l4_routes")
<1>1. routes = Concat(served, "l4_routes")
  BY DEF Merged, MergeSources
<1>2. routes \in Seq(ToSet(routes)) /\ \A k \in DOMAIN routes :
          ord[k][1] \in Reported(served) /\ routes[k] \in ToSet(served[ord[k][1]].l4_routes)
  BY <1>1, Concatenated DEF Fields, ServedType, Merges
<1> HIDE DEF routes, ord
<1>3. DOMAIN routes \subseteq Nat
  BY <1>2
<1>4. ASSUME NEW i \in DOMAIN routes
      PROVE  /\ {"listener_id", "listener_hostname", "match", "action"} \subseteq DOMAIN routes[i]
             /\ IsMatcher(routes[i].listener_hostname)
  <2>1. served[ord[i][1]] \in Tables
    BY <1>2 DEF Reported, ServedType, SourceMaps
  <2> QED BY <1>2, <2>1, TablesAssumption
<1>5. \A i \in DOMAIN routes : ListenerRank(routes[i]) \in Int
  BY <1>4, ScoreType DEF ListenerRank
<1> QED BY <1>3, <1>4, <1>5 DEF routes

\* Two TLS listeners of an address have one socket, which speaks Tls, and every listener with
\* that socket is an HTTPS or TLS listener of the address.
LEMMA TlsSocket ==
    ASSUME NEW ls, NEW l \in ls, l.protocol = "Tls", \A x \in ls : x.protocol \in Protocols
    PROVE  /\ CompiledListener(ls, CanonicalId(ls, l)).protocol = "Tls"
           /\ CompiledListener(ls, CanonicalId(ls, l)).id = CanonicalId(ls, l)
           /\ \A x \in ls : (x.bind_addr = l.bind_addr /\ x.protocol = "Tls")
                                => CanonicalId(ls, x) = CanonicalId(ls, l)
           /\ \A x \in ls : CanonicalId(ls, x) = CanonicalId(ls, l)
                                => x.bind_addr = l.bind_addr /\ x.protocol \in TlsProtocols
           /\ \A y : CanonicalId(ls, l) # <<y>>
<1>1. SocketOf(ls, l).protocol = "Tls" /\ SocketOf(ls, l).id = CanonicalId(ls, l)
  BY SocketSpeaks
<1>2. ASSUME NEW x \in ls, x.bind_addr = l.bind_addr, x.protocol = "Tls"
      PROVE  CanonicalId(ls, x) = CanonicalId(ls, l)
  BY <1>2 DEF CanonicalId
<1>3. ASSUME NEW x \in ls, CanonicalId(ls, x) = CanonicalId(ls, l)
      PROVE  x.bind_addr = l.bind_addr /\ x.protocol \in TlsProtocols
  <2>1. x.bind_addr = l.bind_addr
    BY <1>3, IdParts
  <2>2. CASE IsShared(ls, x)
    BY <2>1, <2>2 DEF IsShared
  <2>3. CASE ~IsShared(ls, x)
    <3>1. CanonicalId(ls, x)[2] = x.protocol
      BY <2>3, IdParts
    <3>2. CanonicalId(ls, l)[2] \in {"tls", "Tls"}
      BY IdParts
    <3>3. x.protocol # "tls"
      BY DEF Protocols
    <3> QED BY <1>3, <2>1, <3>1, <3>2, <3>3 DEF TlsProtocols
  <2> QED BY <2>2, <2>3
<1>4. \A y : CanonicalId(ls, l) # <<y>>
  <2>1. PICK a, b : CanonicalId(ls, l) = <<a, b>>
    BY DEF CanonicalId
  <2>2. Len(<<a, b>>) = 2 /\ \A y : Len(<<y>>) = 1
    OBVIOUS
  <2> QED BY <2>1, <2>2
<1> QED BY <1>1, <1>2, <1>3, <1>4 DEF SocketOf

\* A connection to a TLS listener whose SNI leads to its most specific listener is given to
\* a route, one of an equally specific listener that matches the SNI, whatever the sources
\* report: the shared sockets of CompiledL4Config::compile and find_tls_route agree.
THEOREM TlsAlwaysReachable == ServingSpec => []TlsRoutesReachable
<1>1. ServedType => TlsRoutesReachable
  <2> DEFINE ls == Merged.listeners
             routes == Merged.l4_routes
             compiled == L4Of(served).routes
  <2> SUFFICES ASSUME ServedType, NEW sni \in Hosts, NEW l \in ls, l.protocol = "Tls",
                      NEW r \in Offered(l.bind_addr, {"Tls"}, sni),
                      MatchRoute(r.match, sni), RouteKind(r.action) = "Tls",
                      \A q \in Offered(l.bind_addr, TlsProtocols, sni) : ListenerRank(q) <= ListenerRank(r)
               PROVE  LET id == CanonicalId(ls, l)
                          to == HandleConnection(L4Of(served), CompiledListener(ls, id), sni)
                      IN  /\ to # <<>>
                          /\ ListenerRank(to[1]) = ListenerRank(r)
                          /\ MatchRoute(to[1].match, sni)
    BY DEF TlsRoutesReachable, SniReaches
  <2> DEFINE id == CanonicalId(ls, l)
             at == {i \in DOMAIN compiled : RouteKind(compiled[i].action) = "Tls"}
             cand == {i \in at : /\ sni # NoSni /\ compiled[i].listener_id = id
                                 /\ IrHostnameMatches(sni, compiled[i].listener_hostname)}
             score == [i \in cand |-> ListenerSpecificityScore(compiled[i].listener_hostname)]
             found == {i \in Greatest(cand, score) : MatchRoute(compiled[i].match, sni)}
             to == HandleConnection(L4Of(served), CompiledListener(ls, id), sni)
  <2>1. \A x \in ls : x.protocol \in Protocols
    BY MergedProtocols
  <2>2. compiled = CompiledL4Routes(ls, routes) /\ DOMAIN compiled = DOMAIN routes
    BY DEF L4Of, Merged, CompiledL4Routes
  <2>3. CompiledListener(ls, id).protocol = "Tls" /\ CompiledListener(ls, id).id = id
    BY <2>1, TlsSocket
  <2>4. to = FirstOf(compiled, found)
    <3> HIDE DEF id
    <3> QED BY <2>3 DEF HandleConnection, RoutesForProtocol, FindTlsRoute, TlsProtocols
  <2>5. sni # NoSni
    BY HostsAssumption
  <2>6. /\ DOMAIN routes \subseteq Nat
        /\ \A i \in DOMAIN routes : /\ {"listener_id", "listener_hostname", "match", "action"} \subseteq DOMAIN routes[i]
                                    /\ ListenerRank(routes[i]) \in Int
    BY MergedRoutes
  <2>7. \A i \in DOMAIN routes :
            /\ compiled[i].match = routes[i].match /\ compiled[i].action = routes[i].action
            /\ compiled[i].listener_hostname = routes[i].listener_hostname
            /\ \/ \E x \in ls : x.id = routes[i].listener_id /\ compiled[i].listener_id = CanonicalId(ls, x)
               \/ /\ ~\E x \in ls : x.id = routes[i].listener_id
                  /\ compiled[i].listener_id = <<routes[i].listener_id>>
    BY <2>2, <2>6, CompiledRoute
  <2>8. PICK p \in DOMAIN routes : routes[p] = r
    BY DEF Offered, ToSet
  <2>9. \A x \in ls, y \in ls : x.id = y.id => x = y
    BY OneListenerPerId DEF Merged, MergeSources, ServedType
  <2>10. PICK x \in ls : x.bind_addr = l.bind_addr /\ x.id = r.listener_id /\ x.protocol = "Tls"
    BY DEF Offered, At
  <2> HIDE DEF compiled, routes, ls
  <2>11. compiled[p].listener_id = id
    <3>1. compiled[p].listener_id = CanonicalId(ls, x)
      BY <2>7, <2>8, <2>9, <2>10
    <3> QED BY <2>1, <2>10, <3>1, TlsSocket
  <2>12. p \in cand
    <3>1. IrHostnameMatches(sni, r.listener_hostname)
      BY DEF Offered
    <3> QED BY <2>2, <2>5, <2>7, <2>8, <2>11, <3>1
  <2>13. ASSUME NEW q \in cand
         PROVE  ListenerRank(routes[q]) <= ListenerRank(r)
    <3>1. q \in DOMAIN routes /\ compiled[q].listener_id = id /\ IrHostnameMatches(sni, routes[q].listener_hostname)
      BY <2>2, <2>7
    <3>2. PICK y \in ls : y.id = routes[q].listener_id /\ id = CanonicalId(ls, y)
      <4>1. \A y : id # <<y>>
        BY <2>1, TlsSocket
      <4>2. id # <<routes[q].listener_id>>
        BY <4>1
      <4> QED BY <2>7, <3>1, <4>2
    <3>3. y.bind_addr = l.bind_addr /\ y.protocol \in TlsProtocols
      BY <2>1, <3>2, TlsSocket
    <3>4. routes[q] \in Offered(l.bind_addr, TlsProtocols, sni)
      BY <3>1, <3>2, <3>3 DEF Offered, At, ToSet, ls, routes
    <3> QED BY <3>4
  <2>14. \A q \in cand : q \in DOMAIN routes /\ score[q] = ListenerRank(routes[q]) /\ score[q] \in Int
    BY <2>2, <2>6, <2>7 DEF ListenerRank
  <2>15. p \in found
    <3>1. \A q \in cand : score[q] <= score[p]
      BY <2>8, <2>12, <2>13, <2>14
    <3> QED BY <2>7, <2>8, <2>12, <3>1 DEF Greatest
  <2>16. found \subseteq Nat
    BY <2>6, <2>14 DEF Greatest
  <2>17. to # <<>> /\ Min(found) \in found /\ to[1] = compiled[Min(found)]
    <3> HIDE DEF found
    <3> QED BY <2>4, <2>15, <2>16, FirstIsOne
  <2>18. PICK m \in found : to[1] = compiled[m]
    BY <2>17
  <2> HIDE DEF to
  <2>19. m \in cand /\ score[p] <= score[m] /\ MatchRoute(compiled[m].match, sni)
    BY <2>12 DEF Greatest
  <2>20. score[m] = score[p]
    <3>1. score[m] <= score[p] /\ score[m] \in Int /\ score[p] \in Int
      BY <2>8, <2>12, <2>13, <2>14, <2>19
    <3> HIDE DEF score
    <3> QED BY <2>19, <3>1
  <2>21. ListenerRank(to[1]) = ListenerRank(r)
    BY <2>7, <2>8, <2>12, <2>14, <2>18, <2>19, <2>20 DEF ListenerRank
  <2> QED BY <2>17, <2>18, <2>19, <2>21 DEF to, id, ls
<1> QED BY <1>1, ServedTypeInductive, PTL DEF ServingSpec, Swaps!Spec

-----------------------------------------------------------------------------
(* Requests that the host routes. *)

ExactAt(hosts) == {i \in DOMAIN hosts : hosts[i].hostname.kind = "exact"}
ExactOrder(hosts) == InOrder(ExactAt(hosts), {p \in ExactAt(hosts) \X ExactAt(hosts) : p[1] < p[2]})

IsHostList(hosts) ==
    /\ hosts \in Seq(ToSet(hosts))
    /\ \A i \in DOMAIN hosts : IsMatcher(hosts[i].hostname) /\ IsMatcher(hosts[i].listener_hostname)
                               /\ hosts[i].rules \in Nat

\* The exact hosts of the index are those of the table, in the order of the merge.
LEMMA ExactListed ==
    ASSUME NEW hosts, IsHostList(hosts)
    PROVE  LET s == ExactHosts(hosts)
               ord == ExactOrder(hosts)
           IN  /\ s \in Seq(ToSet(hosts)) /\ DOMAIN ord = DOMAIN s
               /\ \A k \in DOMAIN s : ord[k] \in ExactAt(hosts) /\ s[k] = hosts[ord[k]]
               /\ \A i \in ExactAt(hosts) : \E k \in DOMAIN s : ord[k] = i
               /\ \A j, k \in DOMAIN s : j <= k => ord[j] <= ord[k]
<1> DEFINE idx == ExactAt(hosts)
           R == {p \in idx \X idx : p[1] < p[2]}
           s == ExactHosts(hosts)
           ord == ExactOrder(hosts)
<1>1. DOMAIN hosts = 1..Len(hosts) /\ Len(hosts) \in Nat
  BY DEF IsHostList
<1>2. idx \in SUBSET (1..Len(hosts)) /\ idx \subseteq Nat /\ idx \subseteq DOMAIN hosts
  BY <1>1 DEF ExactAt
<1>3. IsFiniteSet(1..Len(hosts))
  BY <1>1, FS_Interval
<1>4. IsFiniteSet(idx)
  BY <1>2, <1>3, FS_Subset
<1>5. s = ListAt(hosts, idx, R) /\ ord = InOrder(idx, R)
  BY DEF ExactHosts, Chosen, ExactOrder, ExactAt
<1> HIDE DEF idx, s, ord
<1>6. \A i, j \in idx : <<i, j>> \in R <=> i < j
  OBVIOUS
<1> HIDE DEF R
<1>7. StrictOrder(idx, R)
  BY <1>2, <1>6 DEF StrictOrder
<1>8. /\ s \in Seq(ToSet(hosts)) /\ DOMAIN ord = DOMAIN s
      /\ \A k \in DOMAIN s : ord[k] \in idx /\ s[k] = hosts[ord[k]]
      /\ \A i \in idx : \E k \in DOMAIN s : ord[k] = i
      /\ \A j, k \in DOMAIN s : <<ord[j], ord[k]>> \in R => j < k
  <2>1. idx \in SUBSET DOMAIN hosts
    BY <1>2
  <2> QED BY <2>1, <1>4, <1>5, <1>7, ListedAt
<1>9. ASSUME NEW j \in DOMAIN s, NEW k \in DOMAIN s, j <= k PROVE ord[j] <= ord[k]
  <2>1. j \in Int /\ k \in Int
    BY <1>8
  <2>2. <<ord[k], ord[j]>> \notin R
    <3>1. <<ord[k], ord[j]>> \in R => k < j
      BY <1>8
    <3>2. ~(k < j)
      BY <1>9, <2>1
    <3> QED BY <3>1, <3>2
  <2>3. ord[j] \in Nat /\ ord[k] \in Nat /\ ~(ord[k] < ord[j])
    BY <1>2, <1>6, <1>8, <2>2
  <2> QED BY <2>3
<1> QED BY <1>8, <1>9 DEF s, ord, idx

\* The prefix and wildcard hosts of the index are those of the table.
LEMMA WildcardListed ==
    ASSUME NEW hosts, IsHostList(hosts)
    PROVE  LET s == WildcardHosts(hosts)
           IN  /\ s \in Seq(ToSet(hosts))
               /\ \A k \in DOMAIN s : s[k].hostname.kind \in {"prefix", "wildcard"}
               /\ \A i \in DOMAIN hosts : hosts[i].hostname.kind \in {"prefix", "wildcard"}
                                              => \E k \in DOMAIN s : s[k] = hosts[i]
<1> DEFINE idx == {i \in DOMAIN hosts : hosts[i].hostname.kind \in {"prefix", "wildcard"}}
           score(i) == SpecificityScore(hosts[i].hostname)
           rules(i) == hosts[i].rules
           Less(i, j) == \/ score(i) > score(j)
                         \/ score(i) = score(j) /\ rules(i) < rules(j)
                         \/ score(i) = score(j) /\ rules(i) = rules(j) /\ i < j
           R == {p \in idx \X idx : Less(p[1], p[2])}
           s == WildcardHosts(hosts)
<1>1. DOMAIN hosts = 1..Len(hosts) /\ Len(hosts) \in Nat
  BY DEF IsHostList
<1>2. idx \in SUBSET (1..Len(hosts)) /\ idx \subseteq Nat /\ idx \subseteq DOMAIN hosts
  BY <1>1
<1>3. IsFiniteSet(1..Len(hosts))
  BY <1>1, FS_Interval
<1>4. IsFiniteSet(idx)
  BY <1>2, <1>3, FS_Subset
<1>5. s = ListAt(hosts, idx, R)
  BY DEF WildcardHosts
<1>6. \A i \in idx : score(i) \in Int /\ rules(i) \in Nat
  BY <1>2, ScoreType DEF IsHostList
<1>7. \A i \in DOMAIN hosts : i \in idx <=> hosts[i].hostname.kind \in {"prefix", "wildcard"}
  OBVIOUS
<1> HIDE DEF idx, s, score, rules
<1>8. \A i, j \in idx : <<i, j>> \in R <=> Less(i, j)
  OBVIOUS
<1> HIDE DEF R
<1>9. StrictOrder(idx, R)
  <2>1. \A i \in idx : ~Less(i, i)
    BY <1>2, <1>6
  <2>2. \A i, j, k \in idx : Less(i, j) /\ Less(j, k) => Less(i, k)
    BY <1>2, <1>6
  <2>3. \A i, j \in idx : i = j \/ Less(i, j) \/ Less(j, i)
    BY <1>2, <1>6
  <2> HIDE DEF Less
  <2> QED BY <1>8, <2>1, <2>2, <2>3 DEF StrictOrder
<1> DEFINE ord == InOrder(idx, R)
<1> HIDE DEF ord
<1>10. /\ s \in Seq(ToSet(hosts))
       /\ \A k \in DOMAIN s : ord[k] \in idx /\ s[k] = hosts[ord[k]]
       /\ \A i \in idx : \E k \in DOMAIN s : ord[k] = i
  <2>1. idx \in SUBSET DOMAIN hosts /\ ord = InOrder(idx, R)
    BY <1>2 DEF ord
  <2> QED BY <2>1, <1>4, <1>5, <1>9, ListedAt
<1>11. ASSUME NEW k \in DOMAIN s PROVE s[k].hostname.kind \in {"prefix", "wildcard"}
  <2>1. ord[k] \in idx /\ s[k] = hosts[ord[k]]
    BY <1>10
  <2>2. hosts[ord[k]].hostname.kind \in {"prefix", "wildcard"}
    BY <1>2, <1>7, <2>1, ZenonT(60)
  <2> QED BY <2>1, <2>2, ZenonT(60)
<1>12. \A i \in idx : \E k \in DOMAIN s : s[k] = hosts[i]
  BY <1>10
<1> QED BY <1>7, <1>10, <1>11, <1>12 DEF s

\* At most one catch-all is in the index, one of the table.
LEMMA AnyListed ==
    ASSUME NEW hosts, IsHostList(hosts)
    PROVE  LET s == AnyHostNode(hosts)
           IN  s \in Seq(ToSet(hosts)) /\ \A k \in DOMAIN s : s[k].hostname.kind = "any"
<1> DEFINE anys == {i \in DOMAIN hosts : hosts[i].hostname.kind = "any"}
           s == AnyHostNode(hosts)
<1>1. s = IF anys = {} THEN <<>> ELSE <<hosts[Max(anys)]>>
  BY DEF AnyHostNode
<1>2. DOMAIN hosts = 1..Len(hosts) /\ Len(hosts) \in Nat
  BY DEF IsHostList
<1>3. CASE anys = {}
  <2>1. s = <<>>
    BY <1>1, <1>3
  <2> QED BY <2>1
<1>4. CASE anys # {}
  <2> DEFINE f == [i \in anys |-> i]
  <2>1. anys \in SUBSET (1..Len(hosts)) /\ anys \subseteq Int
    BY <1>2
  <2>2. IsFiniteSet(1..Len(hosts))
    BY <1>2, FS_Interval
  <2>3. IsFiniteSet(anys)
    BY <2>1, <2>2, FS_Subset
  <2>4. \A i \in anys : i \in DOMAIN hosts /\ hosts[i].hostname.kind = "any"
    OBVIOUS
  <2> HIDE DEF anys
  <2>5. \A i \in anys : f[i] \in Int
    BY <2>1
  <2>6. Greatest(anys, f) # {}
    <3> HIDE DEF f
    <3> QED BY <1>4, <2>3, <2>5, GreatestExists
  <2>7. PICK x \in anys : \A y \in anys : y <= x
    BY <2>6 DEF Greatest
  <2>8. \A y \in anys : x >= y
    BY <2>1, <2>7
  <2>9. Max(anys) \in anys
    BY <2>8 DEF Max
  <2> HIDE DEF Max
  <2>10. PICK h \in ToSet(hosts) : h = hosts[Max(anys)] /\ h.hostname.kind = "any"
    BY <2>4, <2>9 DEF ToSet
  <2>11. s = <<h>>
    BY <1>1, <1>4, <2>10
  <2> HIDE DEF s
  <2> QED BY <2>10, <2>11 DEF s
<1> QED BY <1>3, <1>4

\* Joins(all, a, b, c): a list has what three lists have, the first at its start.
Joins(all, a, b, c) ==
    /\ DOMAIN a \subseteq DOMAIN all /\ \A k \in DOMAIN a : all[k] = a[k]
    /\ \A k \in DOMAIN b : \E m \in DOMAIN all : all[m] = b[k]
    /\ \A m \in DOMAIN all : \/ m \in DOMAIN a
                             \/ \E k \in DOMAIN b : all[m] = b[k]
                             \/ \E k \in DOMAIN c : all[m] = c[k]

\* Three lists one after the other.
LEMMA ThreeLists ==
    ASSUME NEW S, NEW a \in Seq(S), NEW b \in Seq(S), NEW c \in Seq(S), NEW all, all = a \o b \o c
    PROVE  all \in Seq(S) /\ Joins(all, a, b, c)
<1> DEFINE x == Len(a)
           y == Len(b)
           z == Len(c)
<1>1. x \in Nat /\ y \in Nat /\ z \in Nat /\ DOMAIN a = 1..x /\ DOMAIN b = 1..y /\ DOMAIN c = 1..z
  OBVIOUS
<1>2. a \o b \in Seq(S) /\ Len(a \o b) = x + y
      /\ \A i \in 1..(x + y) : (a \o b)[i] = IF i <= x THEN a[i] ELSE b[i - x]
  OBVIOUS
<1>3. all \in Seq(S) /\ Len(all) = x + y + z /\ DOMAIN all = 1..(x + y + z)
      /\ \A i \in 1..(x + y + z) : all[i] = IF i <= x + y THEN (a \o b)[i] ELSE c[i - (x + y)]
  BY <1>2
<1> HIDE DEF x, y, z
<1>4. ASSUME NEW k \in 1..x PROVE k \in 1..(x + y + z) /\ all[k] = a[k]
  <2>1. k \in 1..(x + y + z) /\ k \in 1..(x + y) /\ k <= x + y /\ k <= x
    BY <1>1
  <2> QED BY <1>2, <1>3, <2>1
<1>5. ASSUME NEW k \in 1..y PROVE \E m \in 1..(x + y + z) : all[m] = b[k]
  <2>1. /\ x + k \in 1..(x + y + z) /\ x + k \in 1..(x + y) /\ x + k <= x + y /\ ~(x + k <= x)
        /\ (x + k) - x = k
    BY <1>1
  <2>2. all[x + k] = (a \o b)[x + k]
    BY <1>3, <2>1
  <2>3. (a \o b)[x + k] = b[k]
    BY <1>2, <2>1
  <2> QED BY <2>1, <2>2, <2>3
<1>6. ASSUME NEW m \in 1..(x + y + z), m \notin 1..x
      PROVE  \/ \E k \in 1..y : all[m] = b[k]
             \/ \E k \in 1..z : all[m] = c[k]
  <2>1. CASE m <= x + y
    <3>1. m \in 1..(x + y) /\ ~(m <= x) /\ m - x \in 1..y
      BY <1>1, <1>6, <2>1
    <3>2. all[m] = b[m - x]
      BY <1>2, <1>3, <2>1, <3>1
    <3> QED BY <3>1, <3>2
  <2>2. CASE ~(m <= x + y)
    <3>1. m - (x + y) \in 1..z
      BY <1>1, <1>6, <2>2
    <3>2. all[m] = c[m - (x + y)]
      BY <1>3, <2>2
    <3> QED BY <3>1, <3>2
  <2> QED BY <2>1, <2>2
<1>7. DOMAIN a = 1..x /\ DOMAIN b = 1..y /\ DOMAIN c = 1..z /\ DOMAIN all = 1..(x + y + z)
  BY <1>1, <1>3
<1> QED BY <1>3, <1>4, <1>5, <1>6, <1>7 DEF Joins

\* The host index has every host but some catch-alls, and its exact hosts come first.
LEMMA Indexed ==
    ASSUME NEW hosts, IsHostList(hosts)
    PROVE  LET all == AllNodes(CompileHosts(hosts))
               exact == ExactHosts(hosts)
           IN  /\ all \in Seq(ToSet(hosts))
               /\ \A i \in DOMAIN hosts : hosts[i].hostname.kind # "any" => \E k \in DOMAIN all : all[k] = hosts[i]
               /\ \A k \in DOMAIN exact : k \in DOMAIN all /\ all[k] = exact[k]
               /\ \A k \in DOMAIN all : all[k].hostname.kind = "exact" => k \in DOMAIN exact
<1> DEFINE all == AllNodes(CompileHosts(hosts))
           exact == ExactHosts(hosts)
           ord == ExactOrder(hosts)
           wild == WildcardHosts(hosts)
           any == AnyHostNode(hosts)
           S == ToSet(hosts)
<1>1. all = exact \o wild \o any
  BY DEF AllNodes, CompileHosts
<1>2. /\ exact \in Seq(S)
      /\ \A k \in DOMAIN exact : ord[k] \in ExactAt(hosts) /\ exact[k] = hosts[ord[k]]
      /\ \A i \in ExactAt(hosts) : \E k \in DOMAIN exact : ord[k] = i
  BY ExactListed
<1>3. /\ wild \in Seq(S)
      /\ \A k \in DOMAIN wild : wild[k].hostname.kind \in {"prefix", "wildcard"}
      /\ \A i \in DOMAIN hosts : hosts[i].hostname.kind \in {"prefix", "wildcard"}
                                     => \E k \in DOMAIN wild : wild[k] = hosts[i]
  BY WildcardListed
<1>4. any \in Seq(S) /\ \A k \in DOMAIN any : any[k].hostname.kind = "any"
  BY AnyListed
<1> HIDE DEF all, exact, ord, wild, any, S
<1>5. all \in Seq(S) /\ Joins(all, exact, wild, any)
  BY <1>1, <1>2, <1>3, <1>4, ThreeLists
<1>6. ASSUME NEW i \in DOMAIN hosts, hosts[i].hostname.kind # "any"
      PROVE  \E k \in DOMAIN all : all[k] = hosts[i]
  <2>1. hosts[i].hostname.kind = "exact" \/ hosts[i].hostname.kind \in {"prefix", "wildcard"}
    BY <1>6 DEF IsHostList, IsMatcher
  <2>2. CASE hosts[i].hostname.kind = "exact"
    <3>1. i \in ExactAt(hosts)
      BY <2>2 DEF ExactAt
    <3>2. PICK k \in DOMAIN exact : ord[k] = i
      BY <1>2, <3>1
    <3> QED BY <1>2, <1>5, <3>2 DEF Joins
  <2>3. CASE hosts[i].hostname.kind \in {"prefix", "wildcard"}
    <3>1. PICK k \in DOMAIN wild : wild[k] = hosts[i]
      BY <1>3, <2>3
    <3> QED BY <1>5, <3>1 DEF Joins
  <2> QED BY <2>1, <2>2, <2>3
<1>7. ASSUME NEW k \in DOMAIN all, all[k].hostname.kind = "exact" PROVE k \in DOMAIN exact
  BY <1>3, <1>4, <1>5, <1>7 DEF Joins
<1>8. \A k \in DOMAIN exact : k \in DOMAIN all /\ all[k] = exact[k]
  BY <1>5 DEF Joins
<1> QED BY <1>5, <1>6, <1>7, <1>8 DEF all, exact, S

\* Among candidates of a list: none has a more specific listener than f, nor as specific a
\* listener and a more specific hostname, and f is the first that is as good.
BestAt(all, cand, f) ==
    \A k \in cand :
        \/ ListenerRank(all[k]) < ListenerRank(all[f])
        \/ ListenerRank(all[k]) = ListenerRank(all[f]) /\ HostRank(all[k]) < HostRank(all[f])
        \/ ListenerRank(all[k]) = ListenerRank(all[f]) /\ HostRank(all[k]) = HostRank(all[f]) /\ f <= k

\* The best candidate is found, if there is one.
Picks(all, cand, found) ==
    /\ cand = {} => found = <<>>
    /\ cand # {} => found # <<>> /\ \E f \in cand : found[1] = all[f] /\ BestAt(all, cand, f)

\* What find_host_node takes of the index: the first of the best candidates.
LEMMA LookupPicks ==
    ASSUME NEW hosts, IsHostList(hosts), NEW host, NEW port,
           NEW all, all = AllNodes(CompileHosts(hosts)),
           NEW found, found = FindHostNode(CompileHosts(hosts), host, port),
           NEW cand, cand = {k \in DOMAIN all : Claims(all[k], host, port)}
    PROVE  Picks(all, cand, found)
<1> DEFINE ls == [k \in cand |-> ListenerRank(all[k])]
           rs == [k \in cand |-> HostRank(all[k])]
           top == Greatest(cand, ls)
           best == Greatest(top, rs)
<1>1. HostCandidates(CompileHosts(hosts), host, port) = cand
  BY DEF HostCandidates, Claims
<1>2. found = FirstOf(all, best)
  BY <1>1 DEF FindHostNode, ListenerRank, HostRank
<1>3. all \in Seq(ToSet(hosts))
  BY Indexed
<1>4. DOMAIN all = 1..Len(all) /\ Len(all) \in Nat
  BY <1>3
<1>5. cand \in SUBSET (1..Len(all)) /\ cand \subseteq Nat
  BY <1>4
<1>6. IsFiniteSet(cand)
  <2>1. IsFiniteSet(1..Len(all))
    BY <1>4, FS_Interval
  <2> QED BY <1>5, <2>1, FS_Subset
<1>7. \A k \in cand : ls[k] \in Int /\ rs[k] \in Int
  <2> SUFFICES ASSUME NEW k \in cand PROVE ls[k] \in Int /\ rs[k] \in Int
    OBVIOUS
  <2>1. k \in DOMAIN all
    OBVIOUS
  <2>2. all[k] \in ToSet(hosts)
    BY <1>3, <2>1
  <2>3. PICK i \in DOMAIN hosts : all[k] = hosts[i]
    BY <2>2 DEF ToSet
  <2>4. IsMatcher(all[k].hostname) /\ IsMatcher(all[k].listener_hostname)
    BY <2>3 DEF IsHostList
  <2>5. ListenerRank(all[k]) \in Int /\ HostRank(all[k]) \in Int
    BY <2>4, ScoreType DEF ListenerRank, HostRank
  <2> QED BY <2>5
<1>8. \A k \in cand : ls[k] = ListenerRank(all[k]) /\ rs[k] = HostRank(all[k])
  OBVIOUS
<1> HIDE DEF ls, rs
<1>9. top \in SUBSET cand /\ best \in SUBSET top /\ best \subseteq Nat
  BY <1>5 DEF Greatest
<1>10. CASE cand = {}
  <2>1. best = {}
    BY <1>9, <1>10
  <2> QED BY <1>2, <1>10, <2>1 DEF FirstOf, Picks
<1>11. CASE cand # {}
  <2>1. top # {}
    BY <1>6, <1>7, <1>11, GreatestExists
  <2>2. IsFiniteSet(top)
    BY <1>6, <1>9, FS_Subset
  <2>3. \A k \in top : rs[k] \in Int
    BY <1>7, <1>9
  <2> HIDE DEF top
  <2>4. best # {}
    BY <2>1, <2>2, <2>3, GreatestExists
  <2> HIDE DEF best
  <2>5. /\ found # <<>> /\ Min(best) \in best /\ found[1] = all[Min(best)]
        /\ \A k \in best : Min(best) <= k
    <3>1. best \subseteq Nat
      BY <1>9
    <3> QED BY <1>2, <2>4, <3>1, FirstIsOne
  <2>6. PICK f \in best : found[1] = all[f] /\ \A k \in best : f <= k
    BY <2>5
  <2>7. f \in top /\ f \in cand /\ (\A k \in cand : ls[k] <= ls[f]) /\ \A k \in top : rs[k] <= rs[f]
    BY <1>9, <2>6 DEF top, best, Greatest
  <2>8. ASSUME NEW k \in cand
        PROVE  ls[k] < ls[f] \/ (ls[k] = ls[f] /\ rs[k] < rs[f]) \/ (ls[k] = ls[f] /\ rs[k] = rs[f] /\ f <= k)
    <3>1. ls[k] \in Int /\ ls[f] \in Int /\ rs[k] \in Int /\ rs[f] \in Int /\ ls[k] <= ls[f]
      BY <1>7, <2>7
    <3>2. ASSUME ls[k] = ls[f] PROVE k \in top
      <4>1. \A j \in cand : ls[j] <= ls[k]
        BY <2>7, <3>2
      <4> QED BY <4>1 DEF top, Greatest
    <3>3. ls[k] = ls[f] => rs[k] <= rs[f]
      BY <2>7, <3>2
    <3>4. ASSUME ls[k] = ls[f], rs[k] = rs[f] PROVE f <= k
      <4>1. k \in top /\ \A j \in top : rs[j] <= rs[k]
        BY <2>7, <3>2, <3>4
      <4>2. k \in best
        BY <4>1 DEF best, Greatest
      <4> QED BY <2>6, <4>2
    <3> QED BY <3>1, <3>3, <3>4
  <2>9. BestAt(all, cand, f)
    BY <1>8, <2>7, <2>8 DEF BestAt
  <2> QED BY <1>11, <2>5, <2>6, <2>7, <2>9 DEF Picks
<1> QED BY <1>10, <1>11

\* The merged hosts are hosts of tables.
LEMMA MergedHosts ==
    ASSUME ServedType
    PROVE  IsHostList(Merged.hosts)
<1> DEFINE hosts == Merged.hosts
           ord == MergeOrder(served, "hosts")
<1>1. hosts = Concat(served, "hosts")
  BY DEF Merged, MergeSources
<1>2. hosts \in Seq(ToSet(hosts)) /\ \A k \in DOMAIN hosts :
          ord[k][1] \in Reported(served) /\ hosts[k] \in ToSet(served[ord[k][1]].hosts)
  BY <1>1, Concatenated DEF Fields, ServedType, Merges
<1> HIDE DEF hosts, ord
<1>3. ASSUME NEW i \in DOMAIN hosts
      PROVE  IsMatcher(hosts[i].hostname) /\ IsMatcher(hosts[i].listener_hostname) /\ hosts[i].rules \in Nat
  <2>1. served[ord[i][1]] \in Tables
    BY <1>2 DEF Reported, ServedType, SourceMaps
  <2> QED BY <1>2, <2>1, TablesAssumption
<1> QED BY <1>2, <1>3 DEF hosts, IsHostList

\* A request that an exact, prefix or wildcard host claims is answered by one that claims it,
\* on the most specific listener and with the most specific hostname, and of sources that
\* claim it with the same exact hostname the one with the highest priority answers: the merge,
\* the host index and find_host_node together, whatever the sources report.
THEOREM LookupAlwaysMostSpecific == ServingSpec => []LookupIsMostSpecific
<1>1. ServedType => LookupIsMostSpecific
  <2> SUFFICES ASSUME ServedType PROVE LookupIsMostSpecific
    OBVIOUS
  <2> DEFINE hosts == Merged.hosts
             place == MergeOrder(served, "hosts")
             all == AllNodes(CompileHosts(hosts))
             exact == ExactHosts(hosts)
             ord == ExactOrder(hosts)
             cand(host, port) == {k \in DOMAIN all : Claims(all[k], host, port)}
  <2>1. IsHostList(hosts)
    BY MergedHosts
  <2>2. hosts = Concat(served, "hosts")
    BY DEF Merged, MergeSources
  <2>3. Merges(served, "hosts", hosts, place)
    BY <2>2, Concatenated DEF Fields, ServedType
  <2> HIDE DEF hosts, place
  <2>4. /\ all \in Seq(ToSet(hosts))
        /\ \A i \in DOMAIN hosts : hosts[i].hostname.kind # "any" => \E k \in DOMAIN all : all[k] = hosts[i]
        /\ \A k \in DOMAIN exact : k \in DOMAIN all /\ all[k] = exact[k]
        /\ \A k \in DOMAIN all : all[k].hostname.kind = "exact" => k \in DOMAIN exact
    BY <2>1, Indexed
  <2>5. /\ \A k \in DOMAIN exact : ord[k] \in ExactAt(hosts) /\ exact[k] = hosts[ord[k]]
        /\ \A i \in ExactAt(hosts) : \E k \in DOMAIN exact : ord[k] = i
        /\ \A j, k \in DOMAIN exact : j <= k => ord[j] <= ord[k]
    BY <2>1, ExactListed
  <2>6. \A host, port : Lookup(host, port) = FindHostNode(CompileHosts(hosts), host, port)
    BY DEF Lookup, hosts
  <2>7. ASSUME NEW host \in Hosts, NEW port \in Ports
        PROVE  Picks(all, cand(host, port), Lookup(host, port))
    <3> DEFINE c == cand(host, port)
               found == Lookup(host, port)
    <3>1. c = {k \in DOMAIN all : Claims(all[k], host, port)}
      OBVIOUS
    <3>2. found = FindHostNode(CompileHosts(hosts), host, port)
      BY <2>6
    <3>3. all = AllNodes(CompileHosts(hosts))
      OBVIOUS
    <3> HIDE DEF c, found, all
    <3>4. Picks(all, c, found)
      BY <2>1, <3>1, <3>2, <3>3, LookupPicks, SMTT(30)
    <3> QED BY <3>4 DEF c, found
  <2> HIDE DEF all, exact, ord
  <2>8. ExactPriority
    <3> SUFFICES ASSUME NEW host \in Hosts, NEW port \in Ports, NEW s \in Reported(served),
                        NEW n \in ToSet(served[s].hosts), Lookup(host, port) # <<>>,
                        n.hostname = Lookup(host, port)[1].hostname, n.hostname.kind = "exact",
                        Claims(n, host, port), ListenerRank(n) = ListenerRank(Lookup(host, port)[1])
                 PROVE  \E o \in Reported(served) : /\ Lookup(host, port)[1] \in ToSet(served[o].hosts)
                                                    /\ Priority[o] >= Priority[s]
      BY DEF ExactPriority
    <3> DEFINE c == cand(host, port)
               node == Lookup(host, port)[1]
    <3>1. PICK f \in c : node = all[f] /\ BestAt(all, c, f)
      BY <2>7 DEF Picks
    <3>2. PICK i \in DOMAIN hosts : hosts[i] = n /\ place[i][1] = s
      BY <2>3 DEF Merges
    <3>3. i \in ExactAt(hosts)
      BY <3>2 DEF ExactAt
    <3>4. PICK k \in DOMAIN exact : ord[k] = i
      BY <2>5, <3>3
    <3>5. k \in DOMAIN all /\ all[k] = n
      BY <2>4, <2>5, <3>2, <3>4
    <3>6. k \in c
      BY <3>5
    <3>7. ListenerRank(all[k]) = ListenerRank(all[f]) /\ HostRank(all[k]) = HostRank(all[f])
      BY <3>1, <3>5 DEF HostRank
    <3>8. ListenerRank(all[f]) \in Int /\ HostRank(all[f]) \in Int
      <4>1. all[f] \in ToSet(hosts)
        BY <2>4
      <4>2. IsMatcher(all[f].hostname) /\ IsMatcher(all[f].listener_hostname)
        BY <2>1, <4>1 DEF IsHostList, ToSet
      <4> QED BY <4>2, ScoreType DEF ListenerRank, HostRank
    <3>9. f <= k
      BY <3>1, <3>6, <3>7, <3>8 DEF BestAt
    <3>10. f \in DOMAIN exact
      BY <2>4, <3>1
    <3>11. ord[f] <= i /\ ord[f] \in DOMAIN hosts /\ node = hosts[ord[f]]
      BY <2>4, <2>5, <3>1, <3>4, <3>9, <3>10 DEF ExactAt
    <3>12. /\ Priority[place[ord[f]][1]] >= Priority[s] /\ place[ord[f]][1] \in Reported(served)
           /\ node \in ToSet(served[place[ord[f]][1]].hosts)
      BY <2>3, <3>2, <3>11 DEF Merges
    <3> QED BY <3>12
  <2>9. ASSUME NEW host \in Hosts, NEW port \in Ports,
               NEW n \in ToSet(hosts), n.hostname.kind # "any", Claims(n, host, port)
        PROVE  \E k \in cand(host, port) : all[k] = n
    <3>1. PICK i \in DOMAIN hosts : hosts[i] = n
      BY DEF ToSet
    <3>2. PICK k \in DOMAIN all : all[k] = n
      BY <2>4, <2>9, <3>1
    <3> QED BY <2>9, <3>2
  <2>10. ASSUME NEW host \in Hosts, NEW port \in Ports
         PROVE  LET found == Lookup(host, port)
                    named == {n \in ToSet(hosts) : n.hostname.kind # "any" /\ Claims(n, host, port)}
                IN  /\ named # {} => found # <<>>
                    /\ found # <<>> =>
                          /\ found[1] \in ToSet(hosts)
                          /\ Claims(found[1], host, port)
                          /\ \A n \in named :
                                \/ ListenerRank(n) < ListenerRank(found[1])
                                \/ /\ ListenerRank(n) = ListenerRank(found[1])
                                   /\ HostRank(n) <= HostRank(found[1])
    <3> DEFINE c == cand(host, port)
               found == Lookup(host, port)
               named == {n \in ToSet(hosts) : n.hostname.kind # "any" /\ Claims(n, host, port)}
    <3>1. \A n \in named : \E k \in c : all[k] = n
      BY <2>9
    <3>2. named # {} => found # <<>>
      BY <2>7, <3>1 DEF Picks
    <3>3. ASSUME found # <<>>
          PROVE  /\ found[1] \in ToSet(hosts) /\ Claims(found[1], host, port)
                 /\ \A n \in named :
                       \/ ListenerRank(n) < ListenerRank(found[1])
                       \/ ListenerRank(n) = ListenerRank(found[1]) /\ HostRank(n) <= HostRank(found[1])
      <4>1. PICK f \in c : found[1] = all[f] /\ BestAt(all, c, f)
        BY <2>7, <3>3 DEF Picks
      <4>2. all[f] \in ToSet(hosts) /\ Claims(all[f], host, port)
        BY <2>4
      <4>3. HostRank(all[f]) \in Int
        <5>1. IsMatcher(all[f].hostname)
          BY <2>1, <4>2 DEF IsHostList, ToSet
        <5> QED BY <5>1, ScoreType DEF HostRank
      <4>4. \A n \in ToSet(hosts) : HostRank(n) \in Int
        BY <2>1, ScoreType DEF IsHostList, ToSet, HostRank
      <4>5. ASSUME NEW n \in named
            PROVE  \/ ListenerRank(n) < ListenerRank(found[1])
                   \/ ListenerRank(n) = ListenerRank(found[1]) /\ HostRank(n) <= HostRank(found[1])
        <5>1. PICK k \in c : all[k] = n
          BY <3>1
        <5>2. HostRank(n) \in Int
          BY <4>4
        <5> QED BY <4>1, <4>3, <5>1, <5>2 DEF BestAt
      <4> QED BY <4>1, <4>2, <4>5
    <3> QED BY <3>2, <3>3
  <2> QED BY <2>8, <2>10 DEF LookupIsMostSpecific, hosts
<1> QED BY <1>1, ServedTypeInductive, PTL DEF ServingSpec, Swaps!Spec

-----------------------------------------------------------------------------
(* How a compiled configuration reaches the sockets. *)

Content(a) == L4Of(arcs[a])

\* The configuration the L4 manager runs when it has received all that was sent.
Target == IF queue = <<>> THEN mcur ELSE queue[Len(queue)]

PipelineTypes ==
    /\ arcs \in Seq(SourceMaps) /\ Len(arcs) >= 1
    /\ sources \in SourceMaps /\ chan \in Seq(Tables)
    /\ current \in 1..Len(arcs) /\ l4_config \in 1..Len(arcs)
    /\ mcur \in 1..Len(arcs) /\ ulast \in 1..Len(arcs)
    /\ queue \in Seq(1..Len(arcs))

\* Nothing is sent to the L4 manager before run_serve wires it.
Boot ==
    /\ upc \in {"unborn", "start", "wait", "load"}
    /\ upc = "unborn" => queue = <<>> /\ mpc = "recv"
    /\ upc \in {"unborn", "start"} => missed = FALSE

\* The updater remembers what the manager will run, except when its first load found a version
\* that main has not forwarded.
Forwarded == upc # "unborn" /\ ~missed => Content(ulast) = Content(Target)

QInv == PipelineTypes /\ Boot /\ Forwarded

-----------------------------------------------------------------------------
(* The steps of the route manager. *)

\* Versions are only added, and the sockets' part is left alone.
Grows ==
    /\ arcs' \in Seq(SourceMaps) /\ Len(arcs) <= Len(arcs')
    /\ \A i \in 1..Len(arcs) : arcs'[i] = arcs[i]
    /\ sources' \in SourceMaps /\ chan' \in Seq(Tables)
    /\ current' \in 1..Len(arcs') /\ l4_config' \in 1..Len(arcs')

\* Compiling a table adds a version or does nothing.
LEMMA BeginApplyGrows ==
  ASSUME PipelineTypes, NEW s \in SourceIds, NEW t \in Tables, BeginApply(s, t)
  PROVE  /\ arcs' \in Seq(SourceMaps) /\ Len(arcs) <= Len(arcs')
         /\ \A i \in 1..Len(arcs) : arcs'[i] = arcs[i]
         /\ sources' \in SourceMaps
         /\ current' \in 1..Len(arcs') /\ l4_config' \in 1..Len(arcs')
<1> DEFINE x == [sources EXCEPT ![s] = t]
<1>1. x \in SourceMaps
  BY DEF PipelineTypes, SourceMaps
<1>2. UNCHANGED <<sources, current, l4_config>> /\ (arcs' = arcs \/ arcs' = Append(arcs, x))
  BY DEF BeginApply, cells
<1> HIDE DEF x
<1>3. CASE arcs' = arcs
  BY <1>2, <1>3 DEF PipelineTypes
<1>4. CASE arcs' = Append(arcs, x)
  <2>1. arcs \in Seq(SourceMaps) /\ Len(arcs) \in Nat
    BY DEF PipelineTypes
  <2>2. arcs' \in Seq(SourceMaps) /\ Len(arcs') = Len(arcs) + 1 /\ \A i \in 1..Len(arcs) : arcs'[i] = arcs[i]
    BY <1>1, <1>4, <2>1
  <2> QED BY <1>2, <2>1, <2>2 DEF PipelineTypes
<1> QED BY <1>2, <1>3, <1>4

\* Every step of the route manager and of its callers.
LEMMA RoutesGrow ==
  ASSUME PipelineTypes, Startup \/ ApplyStep \/ ReceiveLatest \/ \E t \in Tables : SendTable(t)
  PROVE  Grows
<1>1. ASSUME UNCHANGED <<arcs, sources, chan, current, l4_config>> PROVE Grows
  BY <1>1 DEF PipelineTypes, Grows
<1>2. CASE NoCaddyfile
  BY <1>1, <1>2 DEF NoCaddyfile, cells, threadVars
<1>3. ASSUME NEW t \in Tables, LoadCaddyfile(t) \/ LoadToml(t) PROVE Grows
  <2>1. (BeginApply(Caddyfile, t) \/ BeginApply(Toml, t)) /\ chan' = chan
    BY <1>3 DEF LoadCaddyfile, LoadToml, threadVars
  <2> QED BY <2>1, BeginApplyGrows, SourceIdsAssumption DEF Grows, PipelineTypes
<1>4. CASE StoreCurrent \/ StoreL4Config
  <2>1. UNCHANGED <<arcs, sources, chan>> /\ current' \in {current, Len(arcs)} /\ l4_config' \in {l4_config, Len(arcs)}
    BY <1>4 DEF StoreCurrent, StoreL4Config, NewArc, threadVars
  <2>2. Len(arcs) \in 1..Len(arcs)
    BY DEF PipelineTypes
  <2> QED BY <2>1, <2>2 DEF Grows, PipelineTypes
<1>5. CASE StoreRewrites \/ SignalL4 \/ PushHistory
  BY <1>1, <1>5 DEF StoreRewrites, SignalL4, PushHistory, cells, threadVars
<1>6. CASE CommitSources
  <2>1. UNCHANGED <<arcs, chan, current, l4_config>> /\ sources' = arcs[Len(arcs)]
    BY <1>6 DEF CommitSources, cells, threadVars, NewArc
  <2>2. sources' \in SourceMaps
    BY <2>1 DEF PipelineTypes
  <2> QED BY <2>1, <2>2 DEF Grows, PipelineTypes
<1>7. ASSUME NEW t \in Tables, SendTable(t) PROVE Grows
  <2>1. UNCHANGED <<arcs, sources, current, l4_config>> /\ chan' = Append(chan, t)
    BY <1>7 DEF SendTable, cells
  <2>2. chan' \in Seq(Tables)
    BY <1>7, <2>1 DEF PipelineTypes
  <2> QED BY <2>1, <2>2 DEF Grows, PipelineTypes
<1>8. CASE ReceiveLatest
  <2>1. chan # <<>> /\ chan \in Seq(Tables) /\ chan' = <<>>
    BY <1>8 DEF ReceiveLatest, PipelineTypes
  <2>2. chan[Len(chan)] \in Tables /\ chan' \in Seq(Tables)
    BY <2>1
  <2>3. UNCHANGED <<arcs, sources, current, l4_config>> \/ BeginApply(GatewayApi, chan[Len(chan)])
    BY <1>8 DEF ReceiveLatest, cells
  <2>4. CASE UNCHANGED <<arcs, sources, current, l4_config>>
    BY <2>2, <2>4 DEF Grows, PipelineTypes
  <2>5. CASE BeginApply(GatewayApi, chan[Len(chan)])
    BY <2>2, <2>5, BeginApplyGrows, SourceIdsAssumption DEF Grows
  <2> QED BY <2>3, <2>4, <2>5
<1> QED BY <1>2, <1>3, <1>4, <1>5, <1>6, <1>7, <1>8 DEF Startup, ApplyStep

\* While versions are added, those that exist keep their content.
LEMMA ContentKept ==
  ASSUME PipelineTypes, Grows, UNCHANGED <<l4Private, updaterVars>>
  PROVE  /\ PipelineTypes'
         /\ \A a \in 1..Len(arcs) : L4Of(arcs'[a]) = Content(a)
         /\ Target' = Target /\ Target \in 1..Len(arcs)
<1>1. queue' = queue /\ mcur' = mcur /\ ulast' = ulast
  BY DEF l4Private, updaterVars
<1>2. Len(arcs) \in Nat /\ Len(arcs') \in Nat /\ Len(arcs) <= Len(arcs') /\ Len(arcs) >= 1
  BY DEF Grows, PipelineTypes
<1>3. 1..Len(arcs) \subseteq 1..Len(arcs')
  BY <1>2
<1>4. queue \in Seq(1..Len(arcs)) /\ mcur \in 1..Len(arcs) /\ ulast \in 1..Len(arcs)
  BY DEF PipelineTypes
<1>5. queue \in Seq(1..Len(arcs'))
  <2> DEFINE old == 1..Len(arcs)
             new == 1..Len(arcs')
  <2>1. old \subseteq new /\ queue \in Seq(old)
    BY <1>3, <1>4
  <2> HIDE DEF old, new
  <2>2. PICK size \in Nat : queue \in [1..size -> old]
    BY <2>1, SeqDef
  <2>3. queue \in [1..size -> new]
    BY <2>1, <2>2
  <2>4. queue \in Seq(new)
    BY <2>3, SeqDef
  <2> QED BY <2>4 DEF new
<1>6. PipelineTypes'
  BY <1>1, <1>2, <1>3, <1>4, <1>5 DEF PipelineTypes, Grows
<1>7. \A a \in 1..Len(arcs) : L4Of(arcs'[a]) = Content(a)
  BY DEF Grows, Content
<1>8. Target' = Target
  BY <1>1 DEF Target
<1>9. Target \in 1..Len(arcs)
  BY <1>4 DEF Target
<1> QED BY <1>6, <1>7, <1>8, <1>9

\* Steps of the route manager: what was forwarded and what the manager will run keep their
\* content, whichever cell is stored into.
LEMMA RouteStepQInv ==
  ASSUME QInv, UNCHANGED <<l4Private, updaterVars>>,
         Startup \/ ApplyStep \/ ReceiveLatest \/ (\E t \in Tables : SendTable(t))
  PROVE  QInv'
<1>1. PipelineTypes /\ Boot /\ Forwarded
  BY DEF QInv
<1>2. Grows
  BY <1>1, RoutesGrow
<1>3. /\ PipelineTypes' /\ Target' = Target /\ Target \in 1..Len(arcs)
      /\ \A a \in 1..Len(arcs) : L4Of(arcs'[a]) = Content(a)
  BY <1>1, <1>2, ContentKept
<1>4. upc' = upc /\ ulast' = ulast /\ missed' = missed /\ queue' = queue /\ mpc' = mpc
  BY DEF l4Private, updaterVars
<1>5. Boot'
  BY <1>1, <1>4 DEF Boot
<1>6. Forwarded'
  <2>1. ulast \in 1..Len(arcs)
    BY <1>1 DEF PipelineTypes
  <2>2. ASSUME upc # "unborn", ~missed PROVE L4Of(arcs'[ulast']) = L4Of(arcs'[Target'])
    BY <1>1, <1>3, <1>4, <2>1, <2>2 DEF Forwarded
  <2> QED BY <1>4, <2>2 DEF Forwarded, Content
<1> QED BY <1>3, <1>5, <1>6 DEF QInv

-----------------------------------------------------------------------------
(* The updater and the L4 manager. *)

\* A configuration that is sent becomes what the manager will run.
LEMMA SentIsTarget ==
  ASSUME PipelineTypes, NEW a \in 1..Len(arcs), queue' = Append(queue, a), UNCHANGED mcur
  PROVE  queue' # <<>> /\ Target' = a /\ queue' \in Seq(1..Len(arcs))
<1>1. queue \in Seq(1..Len(arcs))
  BY DEF PipelineTypes
<1>2. queue' # <<>> /\ Len(queue') = Len(queue) + 1 /\ queue'[Len(queue) + 1] = a
      /\ queue' \in Seq(1..Len(arcs))
  BY <1>1
<1> QED BY <1>2 DEF Target

\* Wiring, the updater's first load, its wake-ups and what it forwards.
LEMMA ForwardsQInv ==
  ASSUME QInv, Forwards
  PROVE  QInv'
<1>1. PipelineTypes /\ Boot /\ Forwarded
  BY DEF QInv
<1>2. CASE WireL4
  <2>1. /\ upc = "unborn" /\ upc' = "start" /\ queue' = Append(queue, l4_config) /\ ulast' = l4_config
        /\ UNCHANGED <<arcs, sources, chan, current, l4_config, mcur, mpc, missed>>
    BY <1>2 DEF WireL4, L4!ApplyConfig, L4!managerVars, rmPrivate, threadVars
  <2>2. Target' = l4_config /\ queue' \in Seq(1..Len(arcs))
    BY <1>1, <2>1, SentIsTarget DEF PipelineTypes
  <2>3. PipelineTypes'
    BY <1>1, <2>1, <2>2 DEF PipelineTypes
  <2>4. Boot'
    BY <1>1, <2>1 DEF Boot
  <2>5. Forwarded'
    BY <2>1, <2>2 DEF Forwarded, Content
  <2> QED BY <2>3, <2>4, <2>5 DEF QInv
<1>3. CASE UpdaterStart
  <2>1. /\ upc = "start" /\ ulast' = l4_config /\ upc' = "wait" /\ missed' = (l4_config # ulast)
        /\ UNCHANGED <<arcs, sources, chan, current, l4_config, mcur, mpc, queue>>
    BY <1>3 DEF UpdaterStart, rmVars, cells, threadVars, l4Private
  <2>2. PipelineTypes' /\ Boot'
    BY <1>1, <2>1 DEF PipelineTypes, Boot
  <2>3. ~missed /\ (~missed' => ulast' = ulast)
    BY <1>1, <2>1, Zenon DEF Boot
  <2>4. Forwarded'
    BY <1>1, <2>1, <2>3 DEF Forwarded, Content, Target
  <2> QED BY <2>2, <2>4 DEF QInv
<1>4. CASE UpdaterWake
  <2>1. /\ upc = "wait" /\ upc' = "load"
        /\ UNCHANGED <<arcs, sources, chan, current, l4_config, mcur, mpc, queue, ulast, missed>>
    BY <1>4 DEF UpdaterWake, cells, threadVars, l4Private
  <2>2. PipelineTypes' /\ Boot'
    BY <1>1, <2>1 DEF PipelineTypes, Boot
  <2>3. Forwarded'
    BY <1>1, <2>1 DEF Forwarded, Content, Target
  <2> QED BY <2>2, <2>3 DEF QInv
<1>5. CASE UpdaterLoad
  <2>1. /\ upc = "load" /\ upc' = "wait"
        /\ UNCHANGED <<arcs, sources, chan, current, l4_config, mcur, mpc>>
        /\ \/ queue' = Append(queue, l4_config) /\ ulast' = l4_config
           \/ UNCHANGED <<queue, ulast, missed>>
    BY <1>5 DEF UpdaterLoad, L4!ApplyConfig, L4!managerVars, rmPrivate, threadVars, l4Private
  <2>2. CASE queue' = Append(queue, l4_config) /\ ulast' = l4_config
    <3>1. Target' = l4_config /\ queue' \in Seq(1..Len(arcs))
      BY <1>1, <2>1, <2>2, SentIsTarget DEF PipelineTypes
    <3>2. PipelineTypes' /\ Boot'
      BY <1>1, <2>1, <2>2, <3>1 DEF PipelineTypes, Boot
    <3>3. Forwarded'
      BY <2>1, <2>2, <3>1 DEF Forwarded, Content
    <3> QED BY <3>2, <3>3 DEF QInv
  <2>3. CASE UNCHANGED <<queue, ulast, missed>>
    <3>1. PipelineTypes' /\ Boot'
      BY <1>1, <2>1, <2>3 DEF PipelineTypes, Boot
    <3>2. Forwarded'
      BY <1>1, <2>1, <2>3 DEF Forwarded, Content, Target
    <3> QED BY <3>1, <3>2 DEF QInv
  <2> QED BY <2>1, <2>2, <2>3
<1> QED BY <1>2, <1>3, <1>4, <1>5 DEF Forwards

\* What a step of the L4 manager, of its tasks or of another process does to the configurations.
LEMMA L4StepKinds ==
  ASSUME L4Step
  PROVE  /\ UNCHANGED <<arcs, sources, chan, current, phase, pc, upc, ulast, missed>>
         /\ \/ L4!Receive
            \/ L4!StoreConfig
            \/ /\ UNCHANGED <<l4_config, queue, mcur>>
               /\ mpc' = mpc \/ (mpc \in {"stop", "await"} /\ mpc' \in {"await", "recv"})
<1>1. UNCHANGED <<arcs, sources, chan, current, phase, pc, upc, ulast, missed>> /\ L4!L4Next
  BY DEF L4Step, rmPrivate, updaterVars, threadVars
<1>2. CASE L4!StopRemoved \/ L4!StartMissing \/ \E k \in awaiting : L4!AwaitTask(k)
  BY <1>1, <1>2 DEF L4!StopRemoved, L4!StartMissing, L4!AwaitTask
<1>3. CASE \E k \in Slots : L4!TaskStep(k) \/ L4!Datagram(k) \/ L4!HandlerDone(k)
  BY <1>1, <1>3 DEF L4!TaskStep, L4!TaskBind, L4!TaskStop, L4!Datagram, L4!HandlerDone, L4!managerVars
<1>4. CASE \E key \in foreign : L4!ForeignRelease(key)
  BY <1>1, <1>4 DEF L4!ForeignRelease, L4!managerVars
<1> QED BY <1>1, <1>2, <1>3, <1>4 DEF L4!L4Next, L4!ManagerStep

\* Receive: the latest configuration is taken, or skipped when its content is the running one.
LEMMA ReceiveKind ==
  ASSUME PipelineTypes, L4!Receive
  PROVE  /\ mpc = "recv" /\ queue # <<>> /\ queue' = <<>> /\ l4_config' = l4_config
         /\ Target \in 1..Len(arcs) /\ Target = queue[Len(queue)]
         /\ \/ UNCHANGED <<mpc, mcur>> /\ Content(Target) = Content(mcur)
            \/ mcur' = Target /\ mpc' = "store"
<1> DEFINE heap == [i \in DOMAIN arcs |-> L4Of(arcs[i])]
<1>1. queue \in Seq(1..Len(arcs)) /\ mcur \in 1..Len(arcs) /\ arcs \in Seq(SourceMaps)
  BY DEF PipelineTypes
<1>2. /\ mpc = "recv" /\ queue # <<>> /\ queue' = <<>> /\ l4_config' = l4_config
      /\ IF heap[queue[Len(queue)]] = heap[mcur]
         THEN UNCHANGED <<mpc, mcur>> ELSE mcur' = queue[Len(queue)] /\ mpc' = "store"
  BY DEF L4!Receive
<1>3. queue[Len(queue)] \in 1..Len(arcs) /\ Target = queue[Len(queue)]
  BY <1>1, <1>2 DEF Target
<1>4. \A a \in 1..Len(arcs) : heap[a] = Content(a)
  BY <1>1 DEF Content
<1> HIDE DEF heap
<1> QED BY <1>1, <1>2, <1>3, <1>4

\* Steps of the L4 manager leave what it will run alone.
LEMMA L4StepQInv ==
  ASSUME QInv, L4Step
  PROVE  QInv'
<1>1. PipelineTypes /\ Boot /\ Forwarded
  BY DEF QInv
<1>2. UNCHANGED <<arcs, sources, chan, current, upc, ulast, missed>>
  BY L4StepKinds
<1>3. CASE L4!Receive
  <2>1. /\ mpc = "recv" /\ queue # <<>> /\ queue' = <<>> /\ l4_config' = l4_config
        /\ Target \in 1..Len(arcs)
        /\ \/ UNCHANGED <<mpc, mcur>> /\ Content(Target) = Content(mcur)
           \/ mcur' = Target /\ mpc' = "store"
    BY <1>1, <1>3, ReceiveKind
  <2>2. Target' = mcur' /\ mcur' \in 1..Len(arcs) /\ Content(mcur') = Content(Target)
    BY <1>1, <2>1 DEF Target, PipelineTypes
  <2>3. PipelineTypes' /\ Boot'
    BY <1>1, <1>2, <2>1, <2>2 DEF PipelineTypes, Boot
  <2>4. Forwarded'
    BY <1>1, <1>2, <2>1, <2>2 DEF Forwarded, Content
  <2> QED BY <2>3, <2>4 DEF QInv
<1>4. CASE L4!StoreConfig
  <2>1. mpc = "store" /\ l4_config' = mcur /\ mpc' = "stop" /\ UNCHANGED <<queue, mcur>>
    BY <1>4 DEF L4!StoreConfig
  <2>2. PipelineTypes' /\ Boot'
    BY <1>1, <1>2, <2>1 DEF PipelineTypes, Boot
  <2>3. Target' = Target
    BY <2>1 DEF Target
  <2>4. Forwarded'
    BY <1>1, <1>2, <2>1, <2>3 DEF Forwarded, Content
  <2> QED BY <2>2, <2>4 DEF QInv
<1>5. CASE /\ UNCHANGED <<l4_config, queue, mcur>>
           /\ mpc' = mpc \/ (mpc \in {"stop", "await"} /\ mpc' \in {"await", "recv"})
  <2>1. PipelineTypes' /\ Boot'
    BY <1>1, <1>2, <1>5 DEF PipelineTypes, Boot
  <2>2. Forwarded'
    BY <1>1, <1>2, <1>5 DEF Forwarded, Content, Target
  <2> QED BY <2>1, <2>2 DEF QInv
<1> QED BY <1>3, <1>4, <1>5, L4StepKinds

-----------------------------------------------------------------------------
(* The router and the sockets. *)

\* At the start nothing is wired.
LEMMA QInvInit == PInit => QInv
<1> SUFFICES ASSUME PInit PROVE QInv
  OBVIOUS
<1>1. /\ arcs = <<EmptySources>> /\ sources = EmptySources /\ chan = <<>> /\ current = 1 /\ l4_config = 1
      /\ mcur = 1 /\ ulast = 1 /\ queue = <<>> /\ mpc = "recv" /\ upc = "unborn" /\ missed = FALSE
  BY DEF PInit, Init, L4!L4Init
<1>2. EmptySources \in SourceMaps
  BY DEF EmptySources, SourceMaps
<1>3. arcs \in Seq(SourceMaps) /\ Len(arcs) = 1 /\ queue \in Seq(1..Len(arcs)) /\ chan \in Seq(Tables)
  BY <1>1, <1>2
<1>4. PipelineTypes
  BY <1>1, <1>2, <1>3 DEF PipelineTypes
<1> QED BY <1>1, <1>4 DEF QInv, Boot, Forwarded

\* Every step of the two managers and of the updater preserves the invariant.
LEMMA QInvInductive == QInv /\ [PNext]_vars => QInv'
<1> SUFFICES ASSUME QInv, [PNext]_vars PROVE QInv'
  OBVIOUS
<1>1. CASE Sends \/ Receives \/ Publishes
  BY <1>1, RouteStepQInv DEF Sends, Receives, Publishes
<1>2. CASE Forwards
  BY <1>2, ForwardsQInv
<1>3. CASE L4Step
  BY <1>3, L4StepQInv
<1>4. CASE UNCHANGED vars
  <2>1. UNCHANGED <<arcs, sources, chan, current, l4_config, mcur, mpc, queue, ulast, upc, missed>>
    BY <1>4 DEF vars, rmVars, cells, threadVars, l4Private, updaterVars
  <2>2. PipelineTypes' /\ Boot' /\ Forwarded'
    BY <2>1 DEF QInv, PipelineTypes, Boot, Forwarded, Content, Target
  <2> QED BY <2>2 DEF QInv
<1> QED BY <1>1, <1>2, <1>3, <1>4 DEF PNext

\* When nothing is on its way, the configuration in the cell that the router reads has the content
\* that the L4 manager runs, although apply and the L4 manager both store into that cell and
\* either may overwrite the other.  Excepted is a version stored between main's forward and the
\* updater's first load, for as long as nothing is forwarded after it.
THEOREM RouterAlwaysAgreesWithSockets == PSpec => []RouterAgreesWithSockets
<1>1. QInv => RouterAgreesWithSockets
  BY DEF QInv, Forwarded, RouterAgreesWithSockets, Drained, Target, Content
<1> QED BY <1>1, QInvInit, QInvInductive, PTL DEF PSpec

-----------------------------------------------------------------------------
(* Updates that are far enough apart. *)

\* While apply has not stored its version in the cell, nothing is on its way to the sockets.
Paced ==
    pc \in {"current", "l4_config"} =>
        queue = <<>> /\ mpc = "recv" /\ (upc # "unborn" => ulast = l4_config)

\* The two cells that apply stores have the same content once it has stored both.
CellsAgree ==
    /\ pc = "l4_config" => current = Len(arcs)
    /\ pc \notin {"current", "l4_config"} => Content(l4_config) = Content(current)

\* What the L4 manager will store into the cell has the content the cell has already.
StoresNothingOld ==
    /\ queue # <<>> => Content(Target) = Content(l4_config)
    /\ mpc = "store" => Content(mcur) = Content(l4_config)

\* run_serve wires the L4 manager after it has applied the files; no table is received before the
\* updater's first load, which therefore finds the version that main has forwarded.
StartsQuietly ==
    /\ upc # "unborn" => phase = "serving"
    /\ upc \in {"unborn", "start"} /\ phase = "serving" => pc = "idle"
    /\ upc = "start" => l4_config = ulast
    /\ upc = "start" /\ queue # <<>> => Target = ulast
    /\ upc = "start" /\ mpc = "store" => mcur = ulast
    /\ missed = FALSE

PacedInv == QInv /\ Paced /\ CellsAgree /\ StoresNothingOld /\ StartsQuietly

\* A step of the paced system is one of the whole system.
LEMMA PacedIsStep == PacedNext => PNext
  BY DEF PacedNext, PNext, PacedReceives

\* What a step of the route manager does to the two cells.
LEMMA RouteStepKinds ==
  ASSUME Startup \/ ApplyStep \/ (\E t \in Tables : SendTable(t)) \/ (Drained /\ ReceiveLatest)
  PROVE  \/ UNCHANGED <<arcs, current, l4_config>>
            /\ (pc' = pc \/ (pc \notin {"idle", "current", "l4_config"} /\ pc' \notin {"current", "l4_config"}))
         \/ /\ pc = "idle" /\ pc' = "current" /\ UNCHANGED <<current, l4_config>>
            /\ phase = "serving" => Drained
         \/ /\ pc = "current" /\ pc' = "l4_config" /\ current' = Len(arcs) /\ UNCHANGED <<arcs, l4_config>>
         \/ /\ pc = "l4_config" /\ pc' = "rewrites" /\ l4_config' = Len(arcs) /\ UNCHANGED <<arcs, current>>
<1>1. CASE Startup
  <2>1. CASE NoCaddyfile
    BY <2>1 DEF NoCaddyfile, cells
  <2>2. ASSUME NEW t \in Tables, LoadCaddyfile(t) \/ LoadToml(t)
        PROVE  /\ pc = "idle" /\ phase # "serving" /\ UNCHANGED <<current, l4_config>>
               /\ (pc' = "current" \/ (UNCHANGED arcs /\ pc' = pc))
    BY <2>2 DEF LoadCaddyfile, LoadToml, BeginApply, cells
  <2> QED BY <1>1, <2>1, <2>2 DEF Startup
<1>2. CASE StoreCurrent \/ StoreL4Config
  BY <1>2 DEF StoreCurrent, StoreL4Config, NewArc
<1>3. CASE StoreRewrites \/ SignalL4 \/ CommitSources
  BY <1>3 DEF StoreRewrites, SignalL4, CommitSources, cells
<1>4. CASE PushHistory
  <2>1. pc = "history" /\ pc' = "idle" /\ UNCHANGED <<arcs, cells>>
    BY <1>4 DEF PushHistory
  <2> QED BY <2>1 DEF cells
<1>5. ASSUME NEW t \in Tables, SendTable(t)
      PROVE  UNCHANGED <<arcs, current, l4_config, pc>>
  BY <1>5 DEF SendTable, cells
<1>6. CASE Drained /\ ReceiveLatest
  BY <1>6 DEF ReceiveLatest, BeginApply, cells
<1> QED BY <1>1, <1>2, <1>3, <1>4, <1>5, <1>6 DEF ApplyStep

\* A step of the route manager: it starts on an update when nothing is on its way, and the cell
\* changes to the version that `current` has.
LEMMA RouteStepPaced ==
  ASSUME PacedInv, UNCHANGED <<l4Private, updaterVars>>,
         Startup \/ ApplyStep \/ (\E t \in Tables : SendTable(t)) \/ (Drained /\ ReceiveLatest)
  PROVE  Paced' /\ CellsAgree' /\ StoresNothingOld'
<1>1. PipelineTypes /\ Boot /\ Paced /\ CellsAgree /\ StoresNothingOld /\ StartsQuietly
  BY DEF PacedInv, QInv
<1>2. Grows
  BY <1>1, RoutesGrow
<1>3. /\ Target' = Target /\ Target \in 1..Len(arcs)
      /\ \A a \in 1..Len(arcs) : L4Of(arcs'[a]) = Content(a)
  BY <1>1, <1>2, ContentKept
<1>4. upc' = upc /\ ulast' = ulast /\ queue' = queue /\ mpc' = mpc /\ mcur' = mcur
  BY DEF l4Private, updaterVars
<1>5. current \in 1..Len(arcs) /\ l4_config \in 1..Len(arcs) /\ mcur \in 1..Len(arcs)
  BY <1>1 DEF PipelineTypes
<1>6. CASE /\ UNCHANGED <<arcs, current, l4_config>>
           /\ pc' = pc \/ (pc \notin {"idle", "current", "l4_config"} /\ pc' \notin {"current", "l4_config"})
  <2>1. StoresNothingOld'
    BY <1>1, <1>3, <1>4, <1>6 DEF StoresNothingOld, Content
  <2>2. Paced' /\ CellsAgree'
    BY <1>1, <1>4, <1>6 DEF Paced, CellsAgree, Content
  <2> QED BY <2>1, <2>2
<1>7. CASE /\ pc = "idle" /\ pc' = "current" /\ UNCHANGED <<current, l4_config>>
           /\ phase = "serving" => Drained
  <2>1. queue = <<>> /\ mpc = "recv" /\ (upc # "unborn" => ulast = l4_config)
    BY <1>1, <1>7 DEF Boot, StartsQuietly, Drained
  <2>2. Paced' /\ CellsAgree' /\ StoresNothingOld'
    BY <1>4, <1>7, <2>1 DEF Paced, CellsAgree, StoresNothingOld
  <2> QED BY <2>2
<1>8. CASE pc = "current" /\ pc' = "l4_config" /\ current' = Len(arcs) /\ UNCHANGED <<arcs, l4_config>>
  BY <1>1, <1>4, <1>8 DEF Paced, CellsAgree, StoresNothingOld
<1>9. CASE pc = "l4_config" /\ pc' = "rewrites" /\ l4_config' = Len(arcs) /\ UNCHANGED <<arcs, current>>
  BY <1>1, <1>4, <1>9 DEF Paced, CellsAgree, StoresNothingOld, Content
<1> QED BY <1>6, <1>7, <1>8, <1>9, RouteStepKinds

\* The route manager stores nothing between the wiring and the updater's first load.
LEMMA RouteStepQuiet ==
  ASSUME PacedInv, UNCHANGED <<l4Private, updaterVars>>,
         Startup \/ ApplyStep \/ (\E t \in Tables : SendTable(t)) \/ (Drained /\ ReceiveLatest)
  PROVE  StartsQuietly'
<1>1. PipelineTypes /\ Boot /\ StartsQuietly
  BY DEF PacedInv, QInv
<1>2. Target' = Target
  BY DEF Target, l4Private
<1>3. UNCHANGED <<upc, ulast, missed, queue, mpc, mcur>>
  BY DEF l4Private, updaterVars
<1>4. /\ upc # "unborn" => phase' = "serving"
      /\ upc \in {"unborn", "start"} /\ phase' = "serving" => pc' = "idle"
      /\ upc = "start" => l4_config' = l4_config
  <2>1. CASE NoCaddyfile
    BY <1>1, <2>1 DEF NoCaddyfile, StartsQuietly
  <2>2. ASSUME NEW t \in Tables, LoadCaddyfile(t) \/ LoadToml(t)
        PROVE  phase # "serving" /\ phase' # "serving"
    BY <2>2 DEF LoadCaddyfile, LoadToml, BeginApply
  <2>3. CASE StoreCurrent \/ StoreL4Config \/ StoreRewrites \/ SignalL4 \/ CommitSources
    <3>1. pc # "idle" /\ phase' = phase
      BY <2>3 DEF StoreCurrent, StoreL4Config, StoreRewrites, SignalL4, CommitSources
    <3> QED BY <1>1, <3>1 DEF StartsQuietly
  <2>4. CASE PushHistory
    <3>1. pc = "history" /\ pc' = "idle" /\ l4_config' = l4_config /\ (phase = "serving" => phase' = "serving")
      BY <2>4 DEF PushHistory, cells
    <3> QED BY <1>1, <3>1 DEF StartsQuietly
  <2>5. ASSUME NEW t \in Tables, SendTable(t)
        PROVE  UNCHANGED <<phase, pc, l4_config>>
    BY <2>5 DEF SendTable, cells
  <2>6. CASE Drained /\ ReceiveLatest
    <3>1. phase' = "serving" /\ upc = "wait"
      BY <2>6 DEF ReceiveLatest, BeginApply, Drained
    <3> QED BY <3>1
  <2> QED BY <1>1, <2>1, <2>2, <2>3, <2>4, <2>5, <2>6 DEF StartsQuietly, Startup, ApplyStep
<1> QED BY <1>1, <1>2, <1>3, <1>4 DEF StartsQuietly

\* The updater forwards what the cell has, and nothing while an update is half stored.
LEMMA ForwardsPaced ==
  ASSUME PacedInv, Forwards
  PROVE  Paced' /\ CellsAgree' /\ StoresNothingOld'
<1>1. PipelineTypes /\ Boot /\ Paced /\ CellsAgree /\ StoresNothingOld /\ StartsQuietly
  BY DEF PacedInv, QInv
<1>2. UNCHANGED <<arcs, current, l4_config, mcur, mpc, phase, pc>>
  <2>1. CASE WireL4
    BY <2>1 DEF WireL4, L4!ApplyConfig, L4!managerVars, rmPrivate
  <2>2. CASE UpdaterStart
    BY <2>2 DEF UpdaterStart, rmVars, cells, l4Private
  <2>3. CASE UpdaterWake
    BY <2>3 DEF UpdaterWake, cells, l4Private
  <2>4. CASE UpdaterLoad
    BY <2>4 DEF UpdaterLoad, L4!ApplyConfig, L4!managerVars, rmPrivate, l4Private
  <2> QED BY <2>1, <2>2, <2>3, <2>4 DEF Forwards
<1>3. CellsAgree'
  BY <1>1, <1>2 DEF CellsAgree, Content
<1>4. \/ /\ queue' = Append(queue, l4_config)
         /\ (upc = "unborn" /\ phase = "serving") \/ (upc = "load" /\ ulast # l4_config)
      \/ queue' = queue /\ upc # "unborn" /\ ulast' \in {ulast, l4_config}
  <2>1. CASE WireL4
    BY <2>1 DEF WireL4, L4!ApplyConfig
  <2>2. CASE UpdaterStart
    BY <2>2 DEF UpdaterStart, l4Private
  <2>3. CASE UpdaterWake
    BY <2>3 DEF UpdaterWake, l4Private
  <2>4. CASE UpdaterLoad
    BY <2>4 DEF UpdaterLoad, L4!ApplyConfig, l4Private
  <2> QED BY <2>1, <2>2, <2>3, <2>4 DEF Forwards
<1>5. CASE /\ queue' = Append(queue, l4_config)
           /\ (upc = "unborn" /\ phase = "serving") \/ (upc = "load" /\ ulast # l4_config)
  <2>1. pc \notin {"current", "l4_config"}
    BY <1>1, <1>5 DEF StartsQuietly, Paced
  <2>2. Target' = l4_config
    BY <1>1, <1>2, <1>5, SentIsTarget DEF PipelineTypes
  <2>3. Paced'
    BY <1>2, <2>1 DEF Paced
  <2>4. StoresNothingOld'
    BY <1>1, <1>2, <2>2 DEF StoresNothingOld, Content
  <2> QED BY <1>3, <2>3, <2>4
<1>6. CASE queue' = queue /\ upc # "unborn" /\ ulast' \in {ulast, l4_config}
  <2>1. Paced'
    BY <1>1, <1>2, <1>6 DEF Paced
  <2>2. StoresNothingOld'
    BY <1>1, <1>2, <1>6 DEF StoresNothingOld, Content, Target
  <2> QED BY <1>3, <2>1, <2>2
<1> QED BY <1>4, <1>5, <1>6

\* The L4 manager stores a version whose content the cell already has.
LEMMA L4StepPaced ==
  ASSUME PacedInv, L4Step
  PROVE  Paced' /\ CellsAgree' /\ StoresNothingOld'
<1>1. PipelineTypes /\ Paced /\ CellsAgree /\ StoresNothingOld /\ StartsQuietly
  BY DEF PacedInv, QInv
<1>2. UNCHANGED <<arcs, current, pc, upc, ulast>>
  BY L4StepKinds
<1>3. CASE L4!Receive
  <2>1. /\ mpc = "recv" /\ queue # <<>> /\ queue' = <<>> /\ l4_config' = l4_config
        /\ \/ UNCHANGED <<mpc, mcur>>
           \/ mcur' = Target /\ mpc' = "store"
    BY <1>1, <1>3, ReceiveKind
  <2>2. Paced' /\ CellsAgree'
    BY <1>1, <1>2, <2>1 DEF Paced, CellsAgree, Content
  <2>3. StoresNothingOld'
    BY <1>1, <1>2, <2>1 DEF StoresNothingOld, Content
  <2> QED BY <2>2, <2>3
<1>4. CASE L4!StoreConfig
  <2>1. mpc = "store" /\ l4_config' = mcur /\ mpc' = "stop" /\ UNCHANGED <<queue, mcur>>
    BY <1>4 DEF L4!StoreConfig
  <2>2. Content(mcur) = Content(l4_config) /\ pc \notin {"current", "l4_config"}
    BY <1>1, <2>1 DEF StoresNothingOld, Paced
  <2>3. Paced' /\ CellsAgree'
    BY <1>1, <1>2, <2>1, <2>2 DEF Paced, CellsAgree, Content
  <2>4. StoresNothingOld'
    BY <1>1, <1>2, <2>1, <2>2 DEF StoresNothingOld, Content, Target
  <2> QED BY <2>3, <2>4
<1>5. CASE /\ UNCHANGED <<l4_config, queue, mcur>>
           /\ mpc' = mpc \/ (mpc \in {"stop", "await"} /\ mpc' \in {"await", "recv"})
  <2>1. Paced' /\ CellsAgree'
    BY <1>1, <1>2, <1>5 DEF Paced, CellsAgree, Content
  <2>2. StoresNothingOld'
    BY <1>1, <1>2, <1>5 DEF StoresNothingOld, Content, Target
  <2> QED BY <2>1, <2>2
<1> QED BY <1>3, <1>4, <1>5, L4StepKinds

\* Main forwards what the cell has, and the updater's first load finds it there.
LEMMA ForwardsQuiet ==
  ASSUME PacedInv, Forwards
  PROVE  StartsQuietly'
<1>1. PipelineTypes /\ Boot /\ StartsQuietly
  BY DEF PacedInv, QInv
<1>2. CASE WireL4
  <2>1. /\ phase = "serving" /\ upc = "unborn" /\ upc' = "start" /\ queue' = Append(queue, l4_config)
        /\ ulast' = l4_config /\ UNCHANGED <<arcs, l4_config, mcur, mpc, phase, pc, missed>>
    BY <1>2 DEF WireL4, L4!ApplyConfig, L4!managerVars, rmPrivate
  <2>2. Target' = l4_config
    BY <1>1, <2>1, SentIsTarget DEF PipelineTypes
  <2> QED BY <1>1, <2>1, <2>2 DEF StartsQuietly, Boot
<1>3. CASE UpdaterStart
  <2>1. /\ upc = "start" /\ upc' = "wait" /\ missed' = (l4_config # ulast)
        /\ UNCHANGED <<phase, pc>>
    BY <1>3 DEF UpdaterStart, rmVars
  <2>2. missed' = FALSE
    <3>1. l4_config = ulast
      BY <1>1, <2>1 DEF StartsQuietly
    <3> QED BY <2>1, <3>1, Zenon
  <2>3. upc' = "wait" /\ phase' = "serving"
    BY <1>1, <2>1 DEF StartsQuietly
  <2> QED BY <2>2, <2>3 DEF StartsQuietly
<1>4. CASE UpdaterWake
  <2>1. upc = "wait" /\ upc' = "load" /\ UNCHANGED <<phase, pc, missed>>
    BY <1>4 DEF UpdaterWake
  <2> QED BY <1>1, <2>1 DEF StartsQuietly
<1>5. CASE UpdaterLoad
  <2>1. upc = "load" /\ upc' = "wait" /\ UNCHANGED <<phase, pc>> /\ missed' \in {missed, FALSE}
    BY <1>5 DEF UpdaterLoad, rmPrivate
  <2> QED BY <1>1, <2>1 DEF StartsQuietly
<1> QED BY <1>2, <1>3, <1>4, <1>5 DEF Forwards

\* What the L4 manager stores before the updater's first load is what main has forwarded.
LEMMA L4StepQuiet ==
  ASSUME PacedInv, L4Step
  PROVE  StartsQuietly'
<1>1. PipelineTypes /\ StartsQuietly
  BY DEF PacedInv, QInv
<1>2. UNCHANGED <<phase, pc, upc, ulast, missed>>
  BY L4StepKinds
<1>3. CASE L4!Receive
  <2>1. /\ queue # <<>> /\ queue' = <<>> /\ l4_config' = l4_config
        /\ (mpc' = mpc /\ mpc = "recv") \/ (mcur' = Target /\ mpc' = "store")
    BY <1>1, <1>3, ReceiveKind
  <2> QED BY <1>1, <1>2, <2>1 DEF StartsQuietly
<1>4. CASE L4!StoreConfig
  <2>1. mpc = "store" /\ l4_config' = mcur /\ mpc' = "stop" /\ UNCHANGED <<queue, mcur>>
    BY <1>4 DEF L4!StoreConfig
  <2> QED BY <1>1, <1>2, <2>1 DEF StartsQuietly, Target
<1>5. CASE /\ UNCHANGED <<l4_config, queue, mcur>>
           /\ mpc' = mpc \/ (mpc \in {"stop", "await"} /\ mpc' \in {"await", "recv"})
  BY <1>1, <1>2, <1>5 DEF StartsQuietly, Target
<1> QED BY <1>3, <1>4, <1>5, L4StepKinds

\* At the start both cells hold the empty version.
LEMMA PacedInvInit == PInit => PacedInv
<1> SUFFICES ASSUME PInit PROVE PacedInv
  OBVIOUS
<1>1. /\ current = 1 /\ l4_config = 1 /\ queue = <<>> /\ mpc = "recv" /\ pc = "idle"
      /\ upc = "unborn" /\ missed = FALSE
  BY DEF PInit, Init, L4!L4Init
<1> QED BY <1>1, QInvInit DEF PacedInv, Paced, CellsAgree, StoresNothingOld, StartsQuietly

\* Every step of the paced system preserves the invariant.
LEMMA PacedInvInductive == PacedInv /\ [PacedNext]_vars => PacedInv'
<1> SUFFICES ASSUME PacedInv, [PacedNext]_vars PROVE PacedInv'
  OBVIOUS
<1>1. QInv'
  BY PacedIsStep, QInvInductive DEF PacedInv
<1>2. CASE Sends \/ PacedReceives \/ Publishes
  <2>1. Paced' /\ CellsAgree' /\ StoresNothingOld' /\ StartsQuietly'
    BY <1>2, RouteStepPaced, RouteStepQuiet DEF Sends, PacedReceives, Receives, Publishes
  <2> QED BY <1>1, <2>1 DEF PacedInv
<1>3. CASE Forwards
  <2>1. Paced' /\ CellsAgree' /\ StoresNothingOld' /\ StartsQuietly'
    BY <1>3, ForwardsPaced, ForwardsQuiet
  <2> QED BY <1>1, <2>1 DEF PacedInv
<1>4. CASE L4Step
  <2>1. Paced' /\ CellsAgree' /\ StoresNothingOld' /\ StartsQuietly'
    BY <1>4, L4StepPaced, L4StepQuiet
  <2> QED BY <1>1, <2>1 DEF PacedInv
<1>5. CASE UNCHANGED vars
  <2>1. UNCHANGED <<arcs, current, l4_config, mcur, mpc, phase, pc, queue, ulast, upc, missed>>
    BY <1>5 DEF vars, rmVars, cells, l4Private, updaterVars, threadVars
  <2>2. Paced' /\ CellsAgree' /\ StoresNothingOld' /\ StartsQuietly'
    BY <2>1 DEF PacedInv, Paced, CellsAgree, StoresNothingOld, StartsQuietly, Content, Target
  <2> QED BY <1>1, <2>2 DEF PacedInv
<1> QED BY <1>2, <1>3, <1>4, <1>5 DEF PacedNext

\* No update is lost when updates are far enough apart: with nothing in flight and no apply in
\* progress, the sockets are those of the table the proxy serves, and the updater's first load
\* misses nothing.  It takes no fairness.
THEOREM PacedUpdatesReachSockets == PacedSpec => [](UpdatesReachSockets /\ ~missed)
<1>1. PacedInv => UpdatesReachSockets /\ ~missed
  BY DEF PacedInv, QInv, Forwarded, CellsAgree, StartsQuietly, UpdatesReachSockets, Drained, Target, Content
<1> QED BY <1>1, PacedInvInit, PacedInvInductive, PTL DEF PacedSpec

=============================================================================

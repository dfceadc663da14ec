---------------------------- MODULE ReconcileLoop ----------------------------
(***************************************************************************)
(* One replica's control plane: the lease task of src/gateway/election.rs  *)
(* and run_reconcile_loop of src/gateway/reconcile/leader.rs, running      *)
(* concurrently and sharing the token_valid flag and the watch channel.    *)
(*                                                                         *)
(* The Kubernetes API server is external.  The items of a list are the     *)
(* number of changes made to them, so a view maps every kind of resource   *)
(* to the version listed; 0 is the empty list.  The digest publisher and   *)
(* the resource notifier, which only read the view, are left out.          *)
(***************************************************************************)
EXTENDS Naturals, Sequences

CONSTANTS
    KindOrder,      \* what a reconcile tick fetches, in its order: lists of resources, and
                    \* the Services that routes name, one by one
    Lenient,        \* what is taken as empty or missing when fetching it fails
    NoView,         \* prev_view before the first tick
    MaxEdits,       \* bound: changes made to the resources
    MaxRotations,   \* bound: changes made to a certificate Secret or file
    MaxFlips        \* bound: changes of the API server's health

Kinds == {KindOrder[i] : i \in DOMAIN KindOrder}

ASSUME ConstantsOK ==
    /\ KindOrder \in Seq(Kinds)
    /\ \A i, j \in DOMAIN KindOrder : KindOrder[i] = KindOrder[j] => i = j
    /\ KindOrder # <<>>
    /\ Lenient \subseteq Kinds
    /\ NoView \notin [Kinds -> Nat]
    /\ MaxEdits \in Nat /\ MaxRotations \in Nat /\ MaxFlips \in Nat

VARIABLES
    \* The API server and the certificate files
    objects,        \* version of every kind's list
    material,       \* version of the listener Secrets and of the files on disk
    healthy,        \* do lease patches, and do other requests, succeed?
    edits, rotations, flips,
    \* The lease task
    lpc,            \* "patch", "send"
    mine,           \* its is_leader
    valid,          \* token_valid, shared with the token
    state,          \* LeaderState in the watch channel
    \* The reconcile loop
    pc,
    flag,           \* is_leader, read by the controllers before patching status
    token,          \* does the loop hold a LeaderToken?
    leader,         \* the flag as the tick in progress read it
    lists,          \* lists fetched so far in this tick
    prev_view,
    sent,           \* the view whose table was last put on routes_tx
    status,         \* the view the status written to the API server describes
    gateway_certs,  \* GatewayCertSource's store
    registry        \* TlsRegistry: what handshakes use

apiVars == <<objects, material, healthy, edits, rotations, flips>>
leaseVars == <<lpc, mine, state>>
tokenVars == <<flag, token>>
viewVars == <<prev_view, sent, status>>
certVars == <<gateway_certs, registry>>
vars == <<apiVars, leaseVars, valid, pc, tokenVars, leader, lists, viewVars, certVars>>

Views == [Kinds -> Nat]
CertSources == {"gateway", "disk"}
Missing == 0                \* no certificate in the store

Init ==
    /\ objects = [k \in Kinds |-> 1]
    /\ material = [c \in CertSources |-> 1]
    /\ healthy = [q \in {"lease", "lists"} |-> TRUE]
    /\ edits = 0 /\ rotations = 0 /\ flips = 0
    /\ lpc = "patch" /\ mine = FALSE /\ valid = FALSE /\ state = "NotLeader"
    /\ pc = "start" /\ flag = FALSE /\ token = FALSE /\ leader = FALSE
    /\ lists = <<>>
    /\ prev_view = NoView /\ sent = NoView /\ status = NoView
    /\ gateway_certs = Missing
    /\ registry = [gateway |-> Missing, disk |-> 1]

-----------------------------------------------------------------------------
(* The API server and the users of the cluster. *)

EditResource(k) ==
    /\ edits < MaxEdits
    /\ objects' = [objects EXCEPT ![k] = @ + 1]
    /\ edits' = edits + 1
    /\ UNCHANGED <<material, healthy, rotations, flips, leaseVars, valid, pc, tokenVars,
                   leader, lists, viewVars, certVars>>

RotateCertificate(c) ==
    /\ rotations < MaxRotations
    /\ material' = [material EXCEPT ![c] = @ + 1]
    /\ rotations' = rotations + 1
    /\ UNCHANGED <<objects, healthy, edits, flips, leaseVars, valid, pc, tokenVars,
                   leader, lists, viewVars, certVars>>

FlipHealth(q) ==
    /\ flips < MaxFlips
    /\ healthy' = [healthy EXCEPT ![q] = ~@]
    /\ flips' = flips + 1
    /\ UNCHANGED <<objects, material, edits, rotations, leaseVars, valid, pc, tokenVars,
                   leader, lists, viewVars, certVars>>

ApiServer ==
    \/ \E k \in Kinds : EditResource(k)
    \/ \E c \in CertSources : RotateCertificate(c)
    \/ \E q \in {"lease", "lists"} : FlipHealth(q)

-----------------------------------------------------------------------------
(* The lease task: a server-side apply every five seconds.  Every replica   *)
(* applies with the same field manager, so the patch never conflicts with   *)
(* another holder; it fails only when the request does.                     *)

\* A patch result that changes leadership sets token_valid first ...
PatchLease ==
    /\ lpc = "patch"
    /\ mine # healthy["lease"]
    /\ mine' = healthy["lease"]
    /\ valid' = healthy["lease"]
    /\ lpc' = "send"
    /\ UNCHANGED <<apiVars, state, pc, tokenVars, leader, lists, viewVars, certVars>>

\* ... and the watch channel second.
SendState ==
    /\ lpc = "send"
    /\ state' = IF mine THEN "Leader" ELSE "NotLeader"
    /\ lpc' = "patch"
    /\ UNCHANGED <<apiVars, mine, valid, pc, tokenVars, leader, lists, viewVars, certVars>>

LeaseTask == PatchLease \/ SendState

-----------------------------------------------------------------------------
(* The reconcile loop. *)

\* The flag is initialised from the channel before the controllers start.
LoopStart ==
    /\ pc = "start"
    /\ flag' = (state = "Leader")
    /\ pc' = "wait"
    /\ UNCHANGED <<apiVars, leaseVars, valid, token, leader, lists, viewVars, certVars>>

\* The 100 ms tick or a notification; then match (state, token.is_some()).
Wake ==
    /\ pc = "wait"
    /\ pc' = CASE state = "Leader" /\ ~token -> "token"
               [] state = "NotLeader" /\ token -> "release"
               [] OTHER -> "check"
    /\ UNCHANGED <<apiVars, leaseVars, valid, tokenVars, leader, lists, viewVars, certVars>>

\* Election::token() looks at the channel again ...
TokenBorrow ==
    /\ pc = "token"
    /\ pc' = IF state = "Leader" THEN "acquire" ELSE "check"
    /\ UNCHANGED <<apiVars, leaseVars, valid, tokenVars, leader, lists, viewVars, certVars>>

\* ... and, no longer holding the channel's guard, makes the token valid.
TokenAcquire ==
    /\ pc = "acquire"
    /\ valid' = TRUE
    /\ token' = TRUE
    /\ flag' = TRUE
    /\ pc' = "check"
    /\ UNCHANGED <<apiVars, leaseVars, leader, lists, viewVars, certVars>>

\* Dropping the token clears the shared flag, whatever it stands for by now.
DropToken ==
    /\ token' = FALSE
    /\ valid' = FALSE
    /\ flag' = FALSE

\* Mutant of TokenRelease: is_leader is left set.
TokenReleaseKeepsFlag ==
    /\ pc = "release"
    /\ token' = FALSE
    /\ valid' = FALSE
    /\ pc' = "check"
    /\ UNCHANGED <<apiVars, leaseVars, flag, leader, lists, viewVars, certVars>>

TokenRelease ==
    /\ pc = "release"
    /\ DropToken
    /\ pc' = "check"
    /\ UNCHANGED <<apiVars, leaseVars, leader, lists, viewVars, certVars>>

\* Mutant of CheckToken: the tick keeps the leadership it first read.
CheckTokenOnce ==
    /\ pc = "check"
    /\ IF token /\ ~valid THEN DropToken ELSE UNCHANGED <<valid, tokenVars>>
    /\ leader' = IF prev_view = NoView THEN flag' ELSE leader
    /\ lists' = <<>>
    /\ pc' = "list"
    /\ UNCHANGED <<apiVars, leaseVars, viewVars, certVars>>

\* A token the lease task has invalidated is dropped; the tick starts with the
\* flag it finds.
CheckToken ==
    /\ pc = "check"
    /\ IF token /\ ~valid THEN DropToken ELSE UNCHANGED <<valid, tokenVars>>
    /\ leader' = flag'
    /\ lists' = <<>>
    /\ pc' = "list"
    /\ UNCHANGED <<apiVars, leaseVars, viewVars, certVars>>

\* Mutant of ListKind: every list is taken as empty when fetching it fails.
ListKindLenient ==
    LET k == KindOrder[Len(lists) + 1] IN
    /\ pc = "list"
    /\ lists' = Append(lists, IF healthy["lists"] THEN objects[k] ELSE 0)
    /\ pc' = IF Len(lists') = Len(KindOrder) THEN "status" ELSE "list"
    /\ UNCHANGED <<apiVars, leaseVars, valid, tokenVars, leader, viewVars, certVars>>

\* What a request leaves when its failure is not the tick's: a Service that cannot be
\* fetched is BackendNotFound, whatever the error, and its rule or route has no backend.
Fetched(k) == IF healthy["lists"] THEN objects[k] ELSE 0

\* The next request of reconcile_tick_with_leader.  A list that cannot be fetched ends
\* the tick; the second list of the policies counts as empty, and a Service of a
\* backendRef as not found, whatever the error.
ListKind ==
    LET k == KindOrder[Len(lists) + 1] IN
    /\ pc = "list"
    /\ \/ /\ healthy["lists"] \/ k \in Lenient
          /\ lists' = Append(lists, Fetched(k))
          /\ pc' = IF Len(lists) + 1 = Len(KindOrder) THEN "status" ELSE "list"
       \/ /\ ~healthy["lists"] /\ k \notin Lenient
          /\ lists' = <<>>
          /\ pc' = "wait"
    /\ UNCHANGED <<apiVars, leaseVars, valid, tokenVars, leader, viewVars, certVars>>

\* The view of a completed tick.
View == [k \in Kinds |-> lists[CHOOSE i \in DOMAIN KindOrder : KindOrder[i] = k]]

\* The tick's own status patches, taken together, when it began as the leader; one
\* that fails is logged.
WriteStatus ==
    /\ pc = "status"
    /\ status' = IF leader /\ healthy["lists"] THEN View ELSE status
    /\ pc' = "send"
    /\ UNCHANGED <<apiVars, leaseVars, valid, tokenVars, leader, lists, prev_view, sent,
                   certVars>>

\* Mutant of SendView: the view is remembered before it is compared.
SendViewRemembersFirst ==
    /\ pc = "send"
    /\ prev_view' = View
    /\ sent' = IF prev_view = NoView THEN View ELSE sent
    /\ pc' = IF prev_view = NoView THEN "certs" ELSE "wait"
    /\ lists' = <<>>
    /\ UNCHANGED <<apiVars, leaseVars, valid, tokenVars, leader, status, certVars>>

\* Translate and send a view that differs from the previous one, and remember it.
SendView ==
    /\ pc = "send"
    /\ sent' = IF prev_view # View THEN View ELSE sent
    /\ prev_view' = View
    /\ pc' = IF prev_view # View THEN "certs" ELSE "wait"
    /\ lists' = <<>>
    /\ UNCHANGED <<apiVars, leaseVars, valid, tokenVars, leader, status, certVars>>

\* GatewayCertSource::refresh replaces its store by the Secrets it can fetch.
RefreshCerts ==
    /\ pc = "certs"
    /\ gateway_certs' = IF healthy["lists"] THEN material["gateway"] ELSE Missing
    /\ pc' = "registry"
    /\ UNCHANGED <<apiVars, leaseVars, valid, tokenVars, leader, lists, viewVars, registry>>

\* Reload the files, merge the two stores and swap the registry.
ApplyRegistry ==
    /\ pc = "registry"
    /\ registry' = [gateway |-> gateway_certs, disk |-> material["disk"]]
    /\ pc' = "wait"
    /\ UNCHANGED <<apiVars, leaseVars, valid, tokenVars, leader, lists, viewVars, gateway_certs>>

Loop ==
    \/ LoopStart \/ Wake \/ TokenBorrow \/ TokenAcquire \/ TokenRelease \/ CheckToken
    \/ ListKind \/ WriteStatus \/ SendView \/ RefreshCerts \/ ApplyRegistry

Next == ApiServer \/ LeaseTask \/ Loop

\* Two tasks of the tokio runtime that only wait for timers and for requests, which
\* succeed or fail but return.
Spec == Init /\ [][Next]_vars /\ WF_vars(LeaseTask) /\ WF_vars(Loop)

-----------------------------------------------------------------------------
ApiTypeOK ==
    /\ objects \in Views
    /\ material \in [CertSources -> Nat]
    /\ healthy \in [{"lease", "lists"} -> BOOLEAN]
    /\ edits \in 0..MaxEdits /\ rotations \in 0..MaxRotations /\ flips \in 0..MaxFlips

LeaderTypeOK ==
    /\ lpc \in {"patch", "send"}
    /\ mine \in BOOLEAN /\ valid \in BOOLEAN /\ flag \in BOOLEAN
    /\ token \in BOOLEAN /\ leader \in BOOLEAN
    /\ state \in {"Leader", "NotLeader"}

TickTypeOK ==
    /\ pc \in {"start", "wait", "token", "acquire", "release", "check", "list", "status",
               "send", "certs", "registry"}
    /\ lists \in Seq(Nat)
    /\ pc = "list" => Len(lists) < Len(KindOrder)
    /\ pc \in {"status", "send"} => Len(lists) = Len(KindOrder)
    /\ prev_view \in Views \cup {NoView}
    /\ sent \in Views \cup {NoView}
    /\ status \in Views \cup {NoView}
    /\ gateway_certs \in Nat
    /\ registry \in [CertSources -> Nat]

\* Types of the control plane's state; a view is made of a complete set of lists.
TypeOK == ApiTypeOK /\ LeaderTypeOK /\ TickTypeOK

\* What the proxy is sent never goes back in time, whatever requests of the ticks fail
\* and whatever changes between them: of every list it has what it had or something
\* newer.  What is fetched leniently may be missing from a table altogether (policies,
\* and the backends whose Service could not be fetched), but is never an older version.
TablesNeverRegress ==
    [][\A k \in Kinds :
          sent # NoView => sent'[k] >= sent[k] \/ (k \in Lenient /\ sent'[k] = 0)]_vars

\* "the reconcile tick can retry on the next interval instead of programming an empty
\* route table": a failed request takes nothing away from the proxy.  This does not hold
\* for what is fetched leniently: a table without these backends is sent.
NothingTakenAway ==
    [][\A k \in Kinds : sent # NoView => sent'[k] >= sent[k]]_vars

\* What makes TablesNeverRegress inductive: the list served, the one the tick in
\* progress has fetched and the API server's own are in this order.
VersionsOrdered ==
    /\ \A i \in 1..Len(lists) :
          /\ i <= Len(KindOrder)
          /\ lists[i] <= objects[KindOrder[i]]
          /\ sent # NoView => \/ sent[KindOrder[i]] <= lists[i]
                              \/ KindOrder[i] \in Lenient /\ lists[i] = 0
    /\ \A k \in Kinds : sent # NoView => sent[k] <= objects[k]

\* Once requests succeed for good, the proxy is sent the configuration the users
\* made last, although the lists of a tick are fetched one by one while it changes.
TablesConverge == <>[]healthy["lists"] => <>[](sent = objects)

\* A lease that stays renewed enables writeback for good: the token the loop drops
\* late does not invalidate the leadership the lease task has won since.
LeaderIsSeen == <>[]healthy["lease"] => <>[](flag /\ token)

\* A replica that held a token and whose lease fails stops patching.
LossIsSeen == (token /\ state = "NotLeader") ~> (~flag \/ state = "Leader")

\* The status flag follows the lease, although the lease task, token() and the drop of a token
\* write the shared flag in steps that interleave: a lease that stays renewed enables
\* writeback for good, and a replica that held a token and whose lease fails stops patching.
FlagFollowsLease == LeaderIsSeen /\ LossIsSeen

\* The status a stable leader writes describes the resources as they are.
StatusConverges ==
    <>[](healthy["lease"] /\ healthy["lists"]) => <>[](status = objects)

\* "Sunbeam watches the Secret and reloads the listener certificates automatically":
\* handshakes end up using the certificates the Secrets and files hold.  This does not hold:
\* the certificates are refreshed only when the view changes, and it does not contain them.
CertificatesReload == <>[]healthy["lists"] => <>[](registry = material)

=============================================================================

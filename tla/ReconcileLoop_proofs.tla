------------------------ MODULE ReconcileLoop_proofs ------------------------
(***************************************************************************)
(* Proofs about ReconcileLoop for every order and set of kinds, every      *)
(* number of changes and every sequence of API failures.                   *)
(***************************************************************************)
EXTENDS ReconcileLoop, TLAPS

\* The kinds are the elements of the order they are listed in.
LEMMA KindsListed ==
    /\ Len(KindOrder) \in Nat \ {0}
    /\ DOMAIN KindOrder = 1..Len(KindOrder)
    /\ \A i \in 1..Len(KindOrder) : KindOrder[i] \in Kinds
    /\ \A k \in Kinds : \E i \in 1..Len(KindOrder) : KindOrder[i] = k
<1>1. Len(KindOrder) \in Nat /\ DOMAIN KindOrder = 1..Len(KindOrder) /\ Len(KindOrder) # 0
    BY ConstantsOK
<1> QED
    BY <1>1 DEF Kinds

\* A completed tick has one list per kind, and its view holds exactly those.
LEMMA ViewOfLists ==
    ASSUME lists \in Seq(Nat), Len(lists) = Len(KindOrder)
    PROVE  /\ View \in Views
           /\ \A i \in 1..Len(KindOrder) : View[KindOrder[i]] = lists[i]
<1> DEFINE At(k) == CHOOSE i \in DOMAIN KindOrder : KindOrder[i] = k
<1>1. \A k \in Kinds : At(k) \in 1..Len(KindOrder) /\ KindOrder[At(k)] = k
    BY KindsListed
<1>2. \A i \in 1..Len(KindOrder) : At(KindOrder[i]) = i
    BY <1>1, KindsListed, ConstantsOK
<1>3. \A i \in 1..Len(KindOrder) : lists[i] \in Nat
    BY KindsListed
<1>4. View = [k \in Kinds |-> lists[At(k)]]
    BY DEF View
<1> HIDE DEF At
<1> QED
    BY <1>1, <1>2, <1>3, <1>4, KindsListed DEF Views

\* What fetching a list does: the tick ends, or its list is appended.
LEMMA ListKindStep ==
    ASSUME TickTypeOK, objects \in Views, ListKind
    PROVE  LET n == Len(lists) + 1 IN
           \/ lists' = <<>> /\ pc' = "wait"
           \/ /\ n \in 1..Len(KindOrder)
              /\ lists' \in Seq(Nat) /\ Len(lists') = n
              /\ \A i \in 1..Len(lists) : lists'[i] = lists[i]
              /\ lists'[n] = objects[KindOrder[n]] \/ (KindOrder[n] \in Lenient /\ lists'[n] = 0)
              /\ \/ pc' = "status" /\ Len(lists') = Len(KindOrder)
                 \/ pc' = "list" /\ Len(lists') < Len(KindOrder)
<1> DEFINE n == Len(lists) + 1
           x == IF healthy["lists"] THEN objects[KindOrder[n]] ELSE 0
<1>1. pc = "list"
    BY Zenon DEF ListKind
<1>2. lists \in Seq(Nat) /\ Len(lists) \in Nat /\ n \in 1..Len(KindOrder)
    BY <1>1, KindsListed DEF TickTypeOK
<1>3. x \in Nat
    BY <1>2, KindsListed DEF Views
<1>4. CASE /\ healthy["lists"] \/ KindOrder[n] \in Lenient
           /\ lists' = Append(lists, x)
           /\ pc' = IF n = Len(KindOrder) THEN "status" ELSE "list"
  <2>1. x = objects[KindOrder[n]] \/ (KindOrder[n] \in Lenient /\ x = 0)
    BY <1>4
  <2> HIDE DEF x
  <2>2. lists' \in Seq(Nat) /\ Len(lists') = n /\ lists'[n] = x
    BY <1>2, <1>3, <1>4
  <2>3. \A i \in 1..Len(lists) : lists'[i] = lists[i]
    BY <1>2, <1>3, <1>4
  <2>4. \/ pc' = "status" /\ Len(lists') = Len(KindOrder)
        \/ pc' = "list" /\ Len(lists') < Len(KindOrder)
    <3>1. n \in Nat /\ n <= Len(KindOrder) /\ Len(KindOrder) \in Nat
      BY <1>2, KindsListed
    <3>2. CASE n = Len(KindOrder)
      BY <1>4, <2>2, <3>2
    <3>3. CASE n < Len(KindOrder)
      <4>1. pc' = "list"
        BY <1>4, <3>1, <3>3
      <4> QED
        BY <2>2, <3>3, <4>1
    <3> QED
      BY <3>1, <3>2, <3>3
  <2> QED
    BY <1>2, <2>1, <2>2, <2>3, <2>4
<1>5. CASE lists' = <<>> /\ pc' = "wait"
    BY <1>5
<1> QED
    BY <1>4, <1>5, Zenon DEF ListKind, Fetched

-----------------------------------------------------------------------------
\* The state run_reconcile_loop and Election::new start from is well typed.
LEMMA InitType == Init => TypeOK
<1> SUFFICES ASSUME Init PROVE TypeOK
    OBVIOUS
<1>1. ApiTypeOK
  <2>1. healthy \in [{"lease", "lists"} -> BOOLEAN]
    BY Zenon DEF Init
  <2> QED
    BY <2>1, ConstantsOK DEF Init, ApiTypeOK, Views, CertSources
<1>2. LeaderTypeOK
    BY Zenon DEF Init, LeaderTypeOK
<1>3. TickTypeOK
    BY DEF Init, TickTypeOK, Missing, CertSources
<1> QED
    BY <1>1, <1>2, <1>3 DEF TypeOK

\* One step per component: only the API server touches its own state.
LEMMA ApiTypeStep == TypeOK /\ [Next]_vars => ApiTypeOK'
<1> SUFFICES ASSUME TypeOK, [Next]_vars PROVE ApiTypeOK'
    OBVIOUS
<1> USE DEF TypeOK, ApiTypeOK
<1>1. ASSUME NEW k \in Kinds, EditResource(k) PROVE ApiTypeOK'
    BY <1>1, ConstantsOK DEF EditResource, Views
<1>2. ASSUME NEW c \in CertSources, RotateCertificate(c) PROVE ApiTypeOK'
    BY <1>2, ConstantsOK DEF RotateCertificate
<1>3. ASSUME NEW q \in {"lease", "lists"}, FlipHealth(q) PROVE ApiTypeOK'
  <2>1. healthy' \in [{"lease", "lists"} -> BOOLEAN]
    BY <1>3, Zenon DEF FlipHealth
  <2> QED
    BY <1>3, <2>1, ConstantsOK DEF FlipHealth
<1>4. CASE LeaseTask
    BY <1>4 DEF LeaseTask, PatchLease, SendState, apiVars
<1>5. CASE Loop
    BY <1>5 DEF Loop, LoopStart, Wake, TokenBorrow, TokenAcquire, TokenRelease, CheckToken,
                ListKind, WriteStatus, SendView, RefreshCerts, ApplyRegistry, apiVars
<1>6. CASE UNCHANGED vars
    BY <1>6 DEF vars, apiVars
<1> QED
    BY <1>1, <1>2, <1>3, <1>4, <1>5, <1>6 DEF Next, ApiServer

\* The lease task and the token handling keep the leadership state well typed.
LEMMA LeaderTypeStep == TypeOK /\ [Next]_vars => LeaderTypeOK'
<1> SUFFICES ASSUME TypeOK, [Next]_vars PROVE LeaderTypeOK'
    OBVIOUS
<1>0. LeaderTypeOK /\ healthy["lease"] \in BOOLEAN
    BY Zenon DEF TypeOK, ApiTypeOK
<1>1. CASE ApiServer
    BY <1>0, <1>1, Zenon DEF ApiServer, EditResource, RotateCertificate, FlipHealth, LeaderTypeOK,
                leaseVars, tokenVars
<1>2. CASE LeaseTask
  <2>1. CASE PatchLease
    BY <1>0, <2>1, Zenon DEF PatchLease, LeaderTypeOK, tokenVars
  <2>2. CASE SendState
    BY <1>0, <2>2, Zenon DEF SendState, LeaderTypeOK, tokenVars
  <2> QED
    BY <1>2, <2>1, <2>2 DEF LeaseTask
<1>3. CASE LoopStart
    BY <1>0, <1>3, Zenon DEF LoopStart, LeaderTypeOK, leaseVars
<1>4. CASE CheckToken
    BY <1>0, <1>4, Zenon DEF CheckToken, DropToken, LeaderTypeOK, leaseVars, tokenVars
<1>5. CASE TokenAcquire \/ TokenRelease
    BY <1>0, <1>5, Zenon DEF TokenAcquire, TokenRelease, DropToken, LeaderTypeOK, leaseVars
<1>6. CASE Wake \/ TokenBorrow \/ ListKind \/ WriteStatus \/ SendView \/ RefreshCerts
           \/ ApplyRegistry
    BY <1>0, <1>6, Zenon DEF Wake, TokenBorrow, ListKind, WriteStatus, SendView, RefreshCerts,
                ApplyRegistry, LeaderTypeOK, leaseVars, tokenVars
<1>7. CASE UNCHANGED vars
    BY <1>0, <1>7, Zenon DEF vars, LeaderTypeOK, leaseVars, tokenVars
<1> QED
    BY <1>1, <1>2, <1>3, <1>4, <1>5, <1>6, <1>7 DEF Next, Loop

\* The tick keeps its lists, views and stores well typed.
LEMMA TickTypeStep == TypeOK /\ [Next]_vars => TickTypeOK'
<1> SUFFICES ASSUME TypeOK, [Next]_vars PROVE TickTypeOK'
    OBVIOUS
<1>0. TickTypeOK /\ objects \in Views /\ material \in [CertSources -> Nat]
    BY DEF TypeOK, ApiTypeOK
<1>1. CASE ApiServer \/ LeaseTask \/ UNCHANGED vars
    BY <1>0, <1>1 DEF ApiServer, EditResource, RotateCertificate, FlipHealth, LeaseTask, PatchLease,
                SendState, TickTypeOK, vars, viewVars, certVars
<1>2. CASE LoopStart \/ Wake \/ TokenBorrow \/ TokenAcquire \/ TokenRelease
    BY <1>0, <1>2 DEF LoopStart, Wake, TokenBorrow, TokenAcquire, TokenRelease, TickTypeOK,
                viewVars, certVars
<1>3. CASE CheckToken
    BY <1>0, <1>3, KindsListed DEF CheckToken, TickTypeOK, viewVars, certVars
<1>4. CASE ListKind
  <2>1. UNCHANGED <<viewVars, certVars>>
    BY <1>4 DEF ListKind
  <2>2. /\ lists' \in Seq(Nat)
        /\ pc' \in {"wait", "list", "status"}
        /\ pc' = "list" => Len(lists') < Len(KindOrder)
        /\ pc' = "status" => Len(lists') = Len(KindOrder)
    <3>1. CASE lists' = <<>> /\ pc' = "wait"
      BY <3>1
    <3>2. CASE /\ lists' \in Seq(Nat)
               /\ \/ pc' = "status" /\ Len(lists') = Len(KindOrder)
                  \/ pc' = "list" /\ Len(lists') < Len(KindOrder)
      BY <3>2
    <3> QED
      BY <1>0, <1>4, <3>1, <3>2, ListKindStep
  <2> QED
    BY <1>0, <2>1, <2>2 DEF TickTypeOK, viewVars, certVars
<1>5. CASE WriteStatus \/ SendView
  <2>1. pc \in {"status", "send"}
    BY <1>5 DEF WriteStatus, SendView
  <2>2. View \in Views
    BY <1>0, <2>1, ViewOfLists DEF TickTypeOK
  <2>3. CASE WriteStatus
    BY <1>0, <2>2, <2>3 DEF WriteStatus, TickTypeOK, certVars
  <2>4. CASE SendView
    <3>1. /\ lists' = <<>> /\ pc' \in {"certs", "wait"}
          /\ sent' \in {View, sent} /\ prev_view' = View
          /\ UNCHANGED <<status, gateway_certs, registry>>
      BY <2>4 DEF SendView, certVars
    <3> QED
      BY <1>0, <2>2, <3>1 DEF TickTypeOK
  <2> QED
    BY <1>5, <2>3, <2>4
<1>6. CASE RefreshCerts
    BY <1>0, <1>6 DEF RefreshCerts, TickTypeOK, viewVars, Missing, CertSources
<1>7. CASE ApplyRegistry
    BY <1>0, <1>7 DEF ApplyRegistry, TickTypeOK, viewVars, CertSources
<1> QED
    BY <1>1, <1>2, <1>3, <1>4, <1>5, <1>6, <1>7 DEF Next, Loop

\* The control plane's state is well typed, and a view is only ever made of a
\* complete set of lists, for every order of the lists and every API failure.
THEOREM TypeCorrect == Spec => []TypeOK
<1>1. TypeOK /\ [Next]_vars => TypeOK'
    BY ApiTypeStep, LeaderTypeStep, TickTypeStep DEF TypeOK
<1> QED
    BY <1>1, InitType, PTL DEF Spec

-----------------------------------------------------------------------------
(***************************************************************************)
(* Versions.  A tick compares nothing but the previous view with the new   *)
(* one, so that it never goes back needs the order of three versions: the  *)
(* one served, the one fetched and the API server's.                       *)
(***************************************************************************)
\* Nothing has been fetched or sent at the start.
LEMMA InitVersions == Init => VersionsOrdered
    BY DEF Init, VersionsOrdered

\* A change to a resource only makes its version larger.
LEMMA EditGrows ==
    ASSUME objects \in Views, NEW k \in Kinds, EditResource(k)
    PROVE  \A j \in Kinds : objects'[j] \in Nat /\ objects[j] <= objects'[j]
BY DEF EditResource, Views

\* Every step of the API server, the lease task and the loop keeps the order.
LEMMA VersionsStep == TypeOK /\ VersionsOrdered /\ [Next]_vars => VersionsOrdered'
<1> SUFFICES ASSUME TypeOK, VersionsOrdered, [Next]_vars PROVE VersionsOrdered'
    OBVIOUS
<1>0. TickTypeOK /\ objects \in Views
    BY DEF TypeOK, ApiTypeOK
<1>1. /\ \A i \in 1..Len(lists) : lists[i] \in Nat
      /\ sent # NoView => \A k \in Kinds : sent[k] \in Nat
      /\ \A k \in Kinds : objects[k] \in Nat
      /\ Len(lists) \in Nat
    BY <1>0 DEF TickTypeOK, Views
<1>2. ASSUME NEW k \in Kinds, EditResource(k) PROVE VersionsOrdered'
  <2>1. UNCHANGED <<lists, sent>>
    BY <1>2 DEF EditResource, viewVars
  <2>2. \A j \in Kinds : objects'[j] \in Nat /\ objects[j] <= objects'[j]
    BY <1>0, <1>2, EditGrows
  <2>3. ASSUME NEW i \in 1..Len(lists)
        PROVE  lists[i] <= objects'[KindOrder[i]]
    <3>1. i \in 1..Len(KindOrder) /\ lists[i] <= objects[KindOrder[i]]
      BY <1>1, <2>3, KindsListed DEF VersionsOrdered
    <3>2. KindOrder[i] \in Kinds
      BY <3>1, KindsListed
    <3> QED
      BY <1>1, <2>2, <3>1, <3>2
  <2>4. ASSUME NEW j \in Kinds, sent # NoView
        PROVE  sent[j] <= objects'[j]
    <3>1. sent[j] <= objects[j]
      BY <2>4 DEF VersionsOrdered
    <3> QED
      BY <1>1, <2>2, <2>4, <3>1
  <2> QED
    BY <2>1, <2>3, <2>4 DEF VersionsOrdered
<1>3. CASE UNCHANGED <<lists, sent, objects>>
    BY <1>3 DEF VersionsOrdered
<1>4. CASE lists' = <<>> /\ UNCHANGED <<sent, objects>>
    BY <1>4 DEF VersionsOrdered
<1>5. CASE ListKind
  <2>1. UNCHANGED <<sent, objects>>
    BY <1>5 DEF ListKind, viewVars, apiVars
  <2> DEFINE n == Len(lists) + 1
  <2>2. CASE lists' = <<>>
    BY <1>4, <2>1, <2>2
  <2>3. CASE /\ n \in 1..Len(KindOrder) /\ Len(lists') = n
             /\ \A i \in 1..Len(lists) : lists'[i] = lists[i]
             /\ lists'[n] = objects[KindOrder[n]] \/ (KindOrder[n] \in Lenient /\ lists'[n] = 0)
    <3>1. \A i \in 1..n : i \in 1..Len(lists) \/ i = n
      BY <1>1
    <3>2. KindOrder[n] \in Kinds
      BY <2>3, KindsListed
    <3> QED
      BY <1>1, <2>1, <2>3, <3>1, <3>2 DEF VersionsOrdered
  <2> QED
    BY <1>0, <1>5, <2>2, <2>3, ListKindStep
<1>6. CASE SendView
  <2>1. pc = "send" /\ lists' = <<>> /\ objects' = objects
    BY <1>6 DEF SendView, apiVars
  <2>2. Len(lists) = Len(KindOrder) /\ \A i \in 1..Len(KindOrder) : View[KindOrder[i]] = lists[i]
    BY <1>0, <2>1, ViewOfLists DEF TickTypeOK
  <2>3. \A k \in Kinds : View[k] <= objects[k]
    BY <2>2, KindsListed DEF VersionsOrdered
  <2>4. sent' = View \/ sent' = sent
    BY <1>6 DEF SendView
  <2> QED
    BY <2>1, <2>3, <2>4 DEF VersionsOrdered
<1>7. CASE \E c \in CertSources : RotateCertificate(c)
    BY <1>3, <1>7 DEF RotateCertificate, viewVars
<1>8. CASE \E q \in {"lease", "lists"} : FlipHealth(q)
    BY <1>3, <1>8 DEF FlipHealth, viewVars
<1>9. CASE LeaseTask
    BY <1>3, <1>9 DEF LeaseTask, PatchLease, SendState, apiVars, viewVars
<1>10. CASE \/ LoopStart \/ Wake \/ TokenBorrow \/ TokenAcquire \/ TokenRelease
            \/ WriteStatus \/ RefreshCerts \/ ApplyRegistry
    BY <1>3, <1>10 DEF LoopStart, Wake, TokenBorrow, TokenAcquire, TokenRelease, WriteStatus,
                RefreshCerts, ApplyRegistry, apiVars, viewVars
<1>11. CASE CheckToken
    BY <1>4, <1>11 DEF CheckToken, apiVars, viewVars
<1>12. CASE UNCHANGED vars
    BY <1>3, <1>12 DEF vars, apiVars, viewVars
<1> QED
    BY <1>2, <1>5, <1>6, <1>7, <1>8, <1>9, <1>10, <1>11, <1>12 DEF Next, ApiServer, Loop

\* The three versions stay in order, whatever fails and whoever changes resources
\* while a tick is fetching.
THEOREM VersionsTheorem == Spec => []VersionsOrdered
<1> QED
    BY InitType, InitVersions, VersionsStep, ApiTypeStep, LeaderTypeStep, TickTypeStep, PTL
       DEF Spec, TypeOK

\* What the proxy is sent never goes back in time, for every order of the requests of a tick and
\* every choice of those whose failure is not the tick's; of the latter, what cannot be fetched is
\* missing from the table, and nothing else ever is.
THEOREM NeverRegressTheorem == Spec => TablesNeverRegress
<1> DEFINE Newer == \A k \in Kinds :
                       sent # NoView => sent'[k] >= sent[k] \/ (k \in Lenient /\ sent'[k] = 0)
<1>1. TypeOK /\ VersionsOrdered /\ [Next]_vars => [Newer]_vars
  <2> SUFFICES ASSUME TypeOK, VersionsOrdered, Next PROVE Newer
      OBVIOUS
  <2>0. TickTypeOK /\ (sent # NoView => \A k \in Kinds : sent[k] \in Nat)
      BY DEF TypeOK, TickTypeOK, Views
  <2>1. CASE UNCHANGED sent
      BY <2>0, <2>1
  <2>2. CASE SendView
    <3>1. pc = "send" /\ (sent' = View \/ sent' = sent)
      BY <2>2 DEF SendView
    <3>2. CASE sent' = View
      <4>1. /\ Len(lists) = Len(KindOrder)
            /\ \A i \in 1..Len(KindOrder) : View[KindOrder[i]] = lists[i]
            /\ \A i \in 1..Len(KindOrder) : lists[i] \in Nat
        BY <2>0, <3>1, ViewOfLists DEF TickTypeOK
      <4> QED
        BY <2>0, <3>2, <4>1, KindsListed DEF VersionsOrdered
    <3> QED
      BY <2>1, <3>1, <3>2
  <2>3. CASE ApiServer \/ LeaseTask
      BY <2>1, <2>3 DEF ApiServer, EditResource, RotateCertificate, FlipHealth, LeaseTask, PatchLease,
                 SendState, viewVars
  <2>4. CASE \/ LoopStart \/ Wake \/ TokenBorrow \/ TokenAcquire \/ TokenRelease \/ CheckToken
             \/ ListKind \/ WriteStatus \/ RefreshCerts \/ ApplyRegistry
      BY <2>1, <2>4 DEF LoopStart, Wake, TokenBorrow, TokenAcquire, TokenRelease, CheckToken,
                 ListKind, WriteStatus, RefreshCerts, ApplyRegistry, viewVars
  <2> QED
      BY <2>2, <2>3, <2>4 DEF Next, Loop
<1> QED
    BY <1>1, TypeCorrect, VersionsTheorem, PTL DEF Spec, TablesNeverRegress

=============================================================================

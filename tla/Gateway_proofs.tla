---------------------------- MODULE Gateway_proofs ----------------------------
(***************************************************************************)
(* Proofs about GatewayControl for any ListenerSets, listeners, routes and *)
(* any number of edits: while ListenerSets are only added, a listener that *)
(* was served keeps its port and hostnames but for a set of its own second *)
(* (FirstComeFirstServed).                                                 *)
(*                                                                         *)
(* Who loses is defined by recursion on the order of the claims, so three  *)
(* things are needed.  The order has no infinite descent (EarliestClaim),  *)
(* hence the recursion has a solution (LosersExist) and ResolveConflicts   *)
(* satisfies its equation (ConflictsSolve).  Claims that come later do not *)
(* change who loses among the earlier ones (OldClaimsKept).  And a         *)
(* ListenerSet that the last table did not have was created no earlier     *)
(* than any that it had (CreatedLater), because times of creation come     *)
(* from the clock; only a set of the same second can come before one that  *)
(* was there, by its name (Overtaken).                                     *)
(***************************************************************************)
EXTENDS GatewayControl, WellFoundedInduction, TLAPS

-----------------------------------------------------------------------------
(* Induction. *)

\* Every set of natural numbers has a least element.
LEMMA Least ==
    ASSUME NEW T, T \subseteq Nat, T # {}
    PROVE  \E x \in T : \A y \in T : x <= y
<1>1. PICK x \in T : \A y \in T : ~(<<y, x>> \in OpToRel(<, Nat))
  BY NatLessThanWellFounded, WFMin
<1>2. \A y \in T : ~(y < x)
  BY <1>1 DEF OpToRel
<1> QED BY <1>2

\* Losers(C, R, X, L): L is a solution of "a claim of C loses if it is in X or some claim
\* that is R-before it does not lose".
Losers(C, R, X, L) ==
    \A c \in C : c \in L <=> (c \in X \/ \E d \in C : <<d, c>> \in R /\ d \notin L)

\* No set of claims is without a claim that nothing in it is before.
Founded(C, R) == \A T \in SUBSET C : T # {} => \E m \in T : \A d \in T : <<d, m>> \notin R

\* With the claims before a claim in D, it is in D.
Closed(C, R, D) == \A c \in D : \A d \in C : <<d, c>> \in R => d \in D

Partial(C, R, X, D, L) == D \subseteq C /\ Closed(C, R, D) /\ Losers(D, R, X, L)

\* Two partial solutions agree where both say something.
LEMMA PartialsAgree ==
    ASSUME NEW C, NEW R, NEW X, Founded(C, R),
           NEW D, NEW L, Partial(C, R, X, D, L),
           NEW E, NEW M, Partial(C, R, X, E, M)
    PROVE  \A c \in D \cap E : c \in L <=> c \in M
<1> DEFINE T == {c \in D \cap E : ~(c \in L <=> c \in M)}
<1> SUFFICES ASSUME T # {} PROVE FALSE
  OBVIOUS
<1>1. T \in SUBSET C
  BY DEF Partial
<1>2. PICK m \in T : \A d \in T : <<d, m>> \notin R
  BY <1>1 DEF Founded
<1>3. m \in D /\ m \in E /\ ~(m \in L <=> m \in M)
  OBVIOUS
<1>4. ASSUME NEW d \in C, <<d, m>> \in R
      PROVE  d \in D /\ d \in E /\ (d \in L <=> d \in M)
  <2>1. d \in D /\ d \in E
    BY <1>3, <1>4 DEF Partial, Closed
  <2> QED BY <1>2, <1>4, <2>1
<1>5. /\ m \in L <=> (m \in X \/ \E d \in D : <<d, m>> \in R /\ d \notin L)
      /\ m \in M <=> (m \in X \/ \E d \in E : <<d, m>> \in R /\ d \notin M)
      /\ D \subseteq C /\ E \subseteq C
  BY <1>3 DEF Partial, Losers
<1>6. (\E d \in D : <<d, m>> \in R /\ d \notin L) <=> (\E d \in E : <<d, m>> \in R /\ d \notin M)
  BY <1>4, <1>5
<1> QED BY <1>3, <1>5, <1>6

\* Recursion along R has a solution.
LEMMA LosersExist ==
    ASSUME NEW C, NEW R, NEW X, Founded(C, R)
    PROVE  \E L \in SUBSET C : Losers(C, R, X, L)
<1> DEFINE Solved(c) == \E D \in SUBSET C, L \in SUBSET C : c \in D /\ Partial(C, R, X, D, L)
           Lost(c) == \E D \in SUBSET C, L \in SUBSET C : c \in D /\ c \in L /\ Partial(C, R, X, D, L)
           U == {c \in C : Solved(c)}
           K == {c \in C : Lost(c)}
<1>1. Closed(C, R, U)
  <2> SUFFICES ASSUME NEW c \in U, NEW d \in C, <<d, c>> \in R PROVE d \in U
    BY DEF Closed
  <2>1. PICK D \in SUBSET C, L \in SUBSET C : c \in D /\ Partial(C, R, X, D, L)
    OBVIOUS
  <2>2. d \in D
    BY <2>1 DEF Partial, Closed
  <2> QED BY <2>1, <2>2
<1>2. ASSUME NEW D \in SUBSET C, NEW L \in SUBSET C, Partial(C, R, X, D, L), NEW c \in D
      PROVE  c \in U /\ (c \in K <=> c \in L)
  <2>1. c \in U /\ (c \in L => c \in K)
    BY <1>2
  <2>2. ASSUME c \in K PROVE c \in L
    <3>1. PICK E \in SUBSET C, M \in SUBSET C : c \in E /\ c \in M /\ Partial(C, R, X, E, M)
      BY <2>2
    <3> HIDE DEF K, U
    <3> QED BY <1>2, <3>1, PartialsAgree
  <2> QED BY <2>1, <2>2
<1> HIDE DEF K
<1>3. ASSUME NEW c \in U
      PROVE  c \in K <=> (c \in X \/ \E d \in C : <<d, c>> \in R /\ d \notin K)
  <2>1. PICK D \in SUBSET C, L \in SUBSET C : c \in D /\ Partial(C, R, X, D, L)
    OBVIOUS
  <2> HIDE DEF U
  <2>2. c \in L <=> (c \in X \/ \E d \in D : <<d, c>> \in R /\ d \notin L)
    BY <2>1 DEF Partial, Losers
  <2>3. \A d \in C : <<d, c>> \in R => d \in D
    BY <2>1 DEF Partial, Closed
  <2>4. \A d \in D : d \in K <=> d \in L
    BY <1>2, <2>1
  <2> QED BY <2>1, <2>2, <2>3, <2>4
<1>4. U = C
  <2> SUFFICES ASSUME C \ U # {} PROVE FALSE
    OBVIOUS
  <2>1. PICK c \in C \ U : \A d \in C \ U : <<d, c>> \notin R
    <3>1. C \ U \in SUBSET C
      OBVIOUS
    <3> HIDE DEF U
    <3> QED BY <3>1 DEF Founded
  <2> DEFINE D == U \cup {c}
             Now == c \in X \/ \E d \in C : <<d, c>> \in R /\ d \notin K
             L == {d \in U : d \in K} \cup {d \in {c} : Now}
  <2>2. \A d \in C : <<d, c>> \in R => d \in U
    BY <2>1
  <2>3. D \in SUBSET C /\ L \in SUBSET C
    OBVIOUS
  <2>4. Closed(C, R, D)
    BY <1>1, <2>2 DEF Closed
  <2>5. \A d \in U : d \in L <=> d \in K
    OBVIOUS
  <2>6. c \in L <=> Now
    OBVIOUS
  <2>7. c \notin U /\ U \subseteq C
    OBVIOUS
  <2> HIDE DEF U, L
  <2>8. Losers(D, R, X, L)
    <3> SUFFICES ASSUME NEW x \in D
                 PROVE  x \in L <=> (x \in X \/ \E d \in D : <<d, x>> \in R /\ d \notin L)
      BY DEF Losers
    <3>1. \A d \in C : <<d, x>> \in R => d \in U
      BY <1>1, <2>2 DEF Closed
    <3>2. (\E d \in D : <<d, x>> \in R /\ d \notin L) <=> (\E d \in C : <<d, x>> \in R /\ d \notin K)
      BY <2>3, <2>5, <3>1
    <3>3. CASE x \in U
      BY <1>3, <2>5, <3>2, <3>3
    <3>4. CASE x = c
      BY <2>6, <3>2, <3>4
    <3> QED BY <3>3, <3>4
  <2>9. Partial(C, R, X, D, L)
    BY <2>3, <2>4, <2>8 DEF Partial
  <2>10. c \in D
    OBVIOUS
  <2>11. c \in U
    <3> HIDE DEF D
    <3> QED BY <2>3, <2>9, <2>10 DEF U
  <2> QED BY <2>7, <2>11
<1>5. Losers(C, R, X, K)
  <2> HIDE DEF U
  <2> QED BY <1>3, <1>4 DEF Losers
<1>6. K \in SUBSET C
  BY DEF K
<1> QED BY <1>5, <1>6

-----------------------------------------------------------------------------
(* The conflicts of ListenerSets.  `v` is anything with times of creation: the resources of *)
(* a tick or the table it published.                                                        *)

Created(v) == v.created \in [Sets -> Nat]

\* The claims that lose to a claim that is before them, and those that lose anyway.
Threatens(v) ==
    {e \in Claims(v) \X Claims(v) : Earlier(v, e[1], e[2]) /\ Overlaps(Claimed(e[1]), Claimed(e[2]))}
Hopeless(v) ==
    {c \in Claims(v) : \/ Claimed(c).port \in Reserved
                       \/ \E l \in ToSet(GwListeners) : Overlaps(l, Claimed(c))}

\* The positions of a claim in the order.
LEMMA ClaimTypes ==
    ASSUME NEW v, NEW c \in Claims(v)
    PROVE  /\ c[1] \in Sets /\ c[1] \in Present(v) /\ c[2] \in DOMAIN SetListeners(c[1])
           /\ c = <<c[1], c[2]>>
           /\ SetSpec[c[1]].rank \in Nat /\ c[2] \in Nat
<1>1. PICK s \in Present(v) : c \in {s} \X DOMAIN SetListeners(s)
  BY DEF Claims
<1>2. s \in Sets
  BY DEF Present
<1>3. c[1] = s /\ c[2] \in DOMAIN SetListeners(s) /\ c = <<c[1], c[2]>>
  BY <1>1
<1>4. DOMAIN SetListeners(s) \subseteq Nat
  BY <1>2, SetSpecAssumption DEF SetListeners
<1> QED BY <1>2, <1>3, <1>4, SetSpecAssumption

\* Of any claims there is one that none of the others is before: resolve_listener_set_conflicts
\* can go through them from the oldest on.
LEMMA EarliestClaim ==
    ASSUME NEW v, Created(v)
    PROVE  Founded(Claims(v), Threatens(v))
<1> SUFFICES ASSUME NEW T \in SUBSET Claims(v), T # {}
             PROVE  \E m \in T : \A d \in T : ~Earlier(v, d, m)
  BY DEF Founded, Threatens
<1> DEFINE age(c) == v.created[c[1]]
           rank(c) == SetSpec[c[1]].rank
<1>1. \A c \in T : age(c) \in Nat /\ rank(c) \in Nat /\ c[2] \in Nat
  BY ClaimTypes DEF Created
<1>2. PICK a \in T : \A d \in T : age(a) <= age(d)
  <2> DEFINE N == {age(c) : c \in T}
  <2>1. N \subseteq Nat /\ N # {}
    BY <1>1
  <2> HIDE DEF N
  <2>2. PICK n \in N : \A k \in N : n <= k
    BY <2>1, Least
  <2> QED BY <2>2 DEF N
<1> DEFINE A == {c \in T : age(c) = age(a)}
<1>3. PICK b \in A : \A d \in A : rank(b) <= rank(d)
  <2> DEFINE N == {rank(c) : c \in A}
  <2>1. N \subseteq Nat /\ N # {}
    BY <1>1
  <2> HIDE DEF N
  <2>2. PICK n \in N : \A k \in N : n <= k
    BY <2>1, Least
  <2> QED BY <2>2 DEF N
<1> DEFINE B == {c \in T : c[1] = b[1]}
<1>4. PICK m \in B : \A d \in B : m[2] <= d[2]
  <2> DEFINE N == {c[2] : c \in B}
  <2>1. N \subseteq Nat /\ N # {}
    BY <1>1
  <2> HIDE DEF N
  <2>2. PICK n \in N : \A k \in N : n <= k
    BY <2>1, Least
  <2> QED BY <2>2 DEF N
<1>5. m \in T /\ m[1] = b[1] /\ age(b) = age(a) /\ b \in T
  OBVIOUS
<1>6. ASSUME NEW d \in T, Earlier(v, d, m) PROVE FALSE
  <2>1. CASE d[1] = m[1] /\ d[2] < m[2]
    BY <1>1, <1>4, <1>5, <2>1
  <2>2. CASE age(d) < age(m)
    BY <1>1, <1>2, <1>5, <2>2
  <2>3. CASE age(d) = age(m) /\ rank(d) < rank(m)
    <3>1. d \in A
      BY <1>5, <2>3
    <3>2. rank(b) <= rank(d) /\ rank(m) = rank(b)
      BY <1>3, <1>5, <3>1
    <3> QED BY <1>1, <1>5, <2>3, <3>2
  <2> QED BY <1>6, <2>1, <2>2, <2>3 DEF Earlier, Older
<1> QED BY <1>5, <1>6

\* ResolveConflicts reports the claims of a solution of its recursion.
LEMMA ConflictsSolve ==
    ASSUME NEW v, Created(v)
    PROVE  \E L \in SUBSET Claims(v) :
              /\ Losers(Claims(v), Threatens(v), Hopeless(v), L)
              /\ ResolveConflicts(v) = {<<c[1], Claimed(c).name>> : c \in L}
<1> DEFINE C == Claims(v)
           R == Threatens(v)
           X == Hopeless(v)
           Loses(f, c) == \/ Claimed(c).port \in Reserved
                          \/ \E l \in ToSet(GwListeners) : Overlaps(l, Claimed(c))
                          \/ \E d \in C : /\ Earlier(v, d, c)
                                           /\ Overlaps(Claimed(d), Claimed(c))
                                           /\ ~f[d]
           F == CHOOSE f : f = [c \in C |-> Loses(f, c)]
<1>1. ResolveConflicts(v) = {<<c[1], Claimed(c).name>> : c \in {d \in C : F[d]}}
  BY DEF ResolveConflicts
<1>2. PICK L \in SUBSET C : Losers(C, R, X, L)
  BY EarliestClaim, LosersExist
<1>3. \E f : f = [c \in C |-> Loses(f, c)]
  <2> DEFINE f == [c \in C |-> c \in L]
  <2>1. ASSUME NEW c \in C PROVE f[c] = Loses(f, c)
    <3>1. c \in L <=> (c \in X \/ \E d \in C : <<d, c>> \in R /\ d \notin L)
      BY <1>2 DEF Losers
    <3>2. \A d \in C : <<d, c>> \in R <=> Earlier(v, d, c) /\ Overlaps(Claimed(d), Claimed(c))
      BY DEF Threatens
    <3>3. c \in X <=> \/ Claimed(c).port \in Reserved
                      \/ \E l \in ToSet(GwListeners) : Overlaps(l, Claimed(c))
      BY DEF Hopeless
    <3> HIDE DEF X, R, C
    <3>4. \A d \in C : f[d] = (d \in L)
      OBVIOUS
    <3>5. Loses(f, c) <=> c \in L
      BY <3>1, <3>2, <3>3, <3>4, Zenon
    <3> HIDE DEF f
    <3>6. Loses(f, c) \in BOOLEAN
      OBVIOUS
    <3> HIDE DEF Loses
    <3> QED BY <3>4, <3>5, <3>6
  <2> HIDE DEF Loses, C
  <2>2. f = [c \in C |-> Loses(f, c)]
    BY <2>1
  <2> QED BY <2>2
<1>4. F = [c \in C |-> Loses(F, c)]
  <2> HIDE DEF C, Loses
  <2> QED BY <1>3
<1> DEFINE M == {d \in C : F[d]}
<1>5. Losers(C, R, X, M)
  <2> SUFFICES ASSUME NEW c \in C
               PROVE  c \in M <=> (c \in X \/ \E d \in C : <<d, c>> \in R /\ d \notin M)
    BY DEF Losers
  <2>1. F[c] = Loses(F, c)
    <3> HIDE DEF F, Loses, C
    <3> QED BY <1>4
  <2>2. \A d \in C : <<d, c>> \in R <=> Earlier(v, d, c) /\ Overlaps(Claimed(d), Claimed(c))
    BY DEF Threatens
  <2>3. c \in X <=> \/ Claimed(c).port \in Reserved
                    \/ \E l \in ToSet(GwListeners) : Overlaps(l, Claimed(c))
    BY DEF Hopeless
  <2> HIDE DEF F, X, R, C
  <2>4. \A d \in C : d \in M <=> F[d]
    OBVIOUS
  <2> HIDE DEF M
  <2>5. c \in M <=> Loses(F, c)
    BY <2>1, <2>4
  <2> QED BY <2>2, <2>3, <2>4, <2>5, Zenon
<1>6. M \in SUBSET C
  OBVIOUS
<1> QED
  <2> HIDE DEF F
  <2> QED BY <1>1, <1>5, <1>6

\* w has the ListenerSets of v as they were, and others that were not created before them.
Grown(v, w) ==
    /\ Present(v) \subseteq Present(w)
    /\ \A s \in Present(v) : w.created[s] = v.created[s]
    /\ \A s \in Present(w) \ Present(v), x \in Present(v) : v.created[x] <= w.created[s]

\* No set that w adds has the time of s and a name before it.
NotOvertaken(v, w, s) ==
    \A n \in Present(w) \ Present(v) :
        ~(w.created[n] = v.created[s] /\ SetSpec[n].rank < SetSpec[s].rank)

\* The claims of the set s and of those before it.
UpTo(v, s) == {c \in Claims(v) : c[1] = s \/ Older(v, c[1], s)}

\* Later claims change nothing among the earlier ones: a claim of v loses in w only if it
\* lost in v, unless its set is overtaken.
LEMMA OldClaimsKept ==
    ASSUME NEW v, NEW w, Created(v), Created(w), Grown(v, w),
           NEW s \in Present(v), NotOvertaken(v, w, s)
    PROVE  \A c \in ResolveConflicts(w) : c[1] = s => c \in ResolveConflicts(v)
<1> DEFINE D == UpTo(v, s)
<1>0. s \in Sets /\ v.created[s] \in Nat /\ SetSpec[s].rank \in Nat
  BY SetSpecAssumption DEF Present, Created
<1>1. PICK L \in SUBSET Claims(v) :
          /\ Losers(Claims(v), Threatens(v), Hopeless(v), L)
          /\ ResolveConflicts(v) = {<<c[1], Claimed(c).name>> : c \in L}
  BY ConflictsSolve
<1>2. PICK M \in SUBSET Claims(w) :
          /\ Losers(Claims(w), Threatens(w), Hopeless(w), M)
          /\ ResolveConflicts(w) = {<<c[1], Claimed(c).name>> : c \in M}
  BY ConflictsSolve
<1>3. Claims(v) \subseteq Claims(w)
  BY DEF Claims, Grown
<1>4. ASSUME NEW d \in Claims(w), d[1] \in Present(v)
      PROVE  d \in Claims(v)
  BY <1>4, ClaimTypes DEF Claims
<1>D. D \subseteq Claims(v)
  BY DEF UpTo
<1>C. ASSUME NEW c \in D, NEW d \in Claims(v), <<d, c>> \in Threatens(v)
      PROVE  d \in D
  <2>1. /\ v.created[c[1]] \in Nat /\ SetSpec[c[1]].rank \in Nat
        /\ v.created[d[1]] \in Nat /\ SetSpec[d[1]].rank \in Nat
    BY <1>D, ClaimTypes DEF Created
  <2>2. c[1] = s \/ Older(v, c[1], s)
    BY DEF UpTo
  <2>3. Earlier(v, d, c)
    BY <1>C DEF Threatens
  <2>4. d[1] = s \/ Older(v, d[1], s)
    BY <1>0, <2>1, <2>2, <2>3 DEF Earlier, Older
  <2> QED BY <2>4 DEF UpTo
<1>5. ASSUME NEW c \in D, NEW d \in Claims(w)
      PROVE  <<d, c>> \in Threatens(w) <=> (d \in Claims(v) /\ <<d, c>> \in Threatens(v))
  <2>1. /\ c \in Claims(v) /\ c[1] \in Present(v) /\ c[1] \in Sets
        /\ w.created[c[1]] = v.created[c[1]] /\ v.created[c[1]] \in Nat /\ SetSpec[c[1]].rank \in Nat
    BY <1>D, ClaimTypes DEF Grown, Created
  <2>2. CASE d[1] \in Present(v)
    <3>1. d \in Claims(v) /\ w.created[d[1]] = v.created[d[1]]
      BY <1>4, <2>2 DEF Grown
    <3>2. Earlier(w, d, c) <=> Earlier(v, d, c)
      BY <2>1, <3>1 DEF Earlier, Older
    <3>3. c \in Claims(w)
      BY <1>3, <2>1
    <3> QED BY <2>1, <3>1, <3>2, <3>3 DEF Threatens
  <2>3. CASE d[1] \notin Present(v)
    <3>1. d[1] \in Present(w) /\ d[1] \in Sets /\ SetSpec[d[1]].rank \in Nat
      BY ClaimTypes
    <3>2. /\ v.created[c[1]] <= w.created[d[1]] /\ v.created[s] <= w.created[d[1]]
          /\ w.created[d[1]] \in Nat
      BY <2>1, <2>3, <3>1 DEF Grown, Created
    <3>3. ASSUME Earlier(w, d, c) PROVE FALSE
      <4>1. w.created[d[1]] = v.created[c[1]] /\ SetSpec[d[1]].rank < SetSpec[c[1]].rank
        BY <2>1, <2>3, <3>1, <3>2, <3>3 DEF Earlier, Older
      <4>2. c[1] = s \/ Older(v, c[1], s)
        BY DEF UpTo
      <4>3. w.created[d[1]] = v.created[s] /\ SetSpec[d[1]].rank < SetSpec[s].rank
        BY <1>0, <2>1, <3>1, <3>2, <4>1, <4>2 DEF Older
      <4> QED BY <2>3, <3>1, <4>3 DEF NotOvertaken
    <3>4. d \notin Claims(v)
      BY <2>3, ClaimTypes
    <3> QED BY <3>3, <3>4 DEF Threatens
  <2> QED BY <2>2, <2>3
<1>6. ASSUME NEW c \in Claims(v)
      PROVE  c \in Hopeless(w) <=> c \in Hopeless(v)
  BY <1>3 DEF Hopeless
<1>7. Partial(Claims(v), Threatens(v), Hopeless(v), D, L)
  <2>1. ASSUME NEW c \in D
        PROVE  c \in L <=> (c \in Hopeless(v) \/ \E d \in D : <<d, c>> \in Threatens(v) /\ d \notin L)
    <3>1. c \in L <=> (c \in Hopeless(v) \/ \E d \in Claims(v) : <<d, c>> \in Threatens(v) /\ d \notin L)
      BY <1>1, <1>D DEF Losers
    <3> HIDE DEF D
    <3> QED BY <1>C, <1>D, <3>1
  <2> HIDE DEF D
  <2> QED BY <1>C, <1>D, <2>1 DEF Partial, Closed, Losers
<1>8. Partial(Claims(v), Threatens(v), Hopeless(v), D, M)
  <2>1. ASSUME NEW c \in D
        PROVE  c \in M <=> (c \in Hopeless(v) \/ \E d \in D : <<d, c>> \in Threatens(v) /\ d \notin M)
    <3> HIDE DEF D
    <3>1. c \in M <=> (c \in Hopeless(w) \/ \E d \in Claims(w) : <<d, c>> \in Threatens(w) /\ d \notin M)
      BY <1>2, <1>3, <1>D DEF Losers
    <3>2. (\E d \in Claims(w) : <<d, c>> \in Threatens(w) /\ d \notin M)
              <=> (\E d \in D : <<d, c>> \in Threatens(v) /\ d \notin M)
      BY <1>3, <1>5, <1>C, <1>D
    <3> QED BY <1>6, <1>D, <3>1, <3>2
  <2> HIDE DEF D
  <2> QED BY <1>C, <1>D, <2>1 DEF Partial, Closed, Losers
<1>9. \A c \in D : c \in L <=> c \in M
  <2> HIDE DEF D
  <2> QED BY <1>7, <1>8, EarliestClaim, PartialsAgree
<1> SUFFICES ASSUME NEW c \in M, c[1] = s
             PROVE  <<c[1], Claimed(c).name>> \in ResolveConflicts(v)
  BY <1>2
<1>10. c \in D
  BY <1>4 DEF UpTo
<1>11. c \in L
  BY <1>9, <1>10
<1> QED BY <1>1, <1>11

\* A conflict is one of a ListenerSet that exists.
LEMMA ConflictsPresent ==
    ASSUME NEW v, Created(v), NEW c \in ResolveConflicts(v)
    PROVE  c[1] \in Present(v)
<1>1. PICK L \in SUBSET Claims(v) : ResolveConflicts(v) = {<<d[1], Claimed(d).name>> : d \in L}
  BY ConflictsSolve
<1>2. PICK d \in L : c = <<d[1], Claimed(d).name>>
  BY <1>1
<1> QED BY <1>2, ClaimTypes

\* Conflicts depend on the times of creation only.
LEMMA ConflictsByAge ==
    ASSUME NEW v, NEW w, Created(v), v.created = w.created
    PROVE  ResolveConflicts(v) = ResolveConflicts(w) /\ Present(v) = Present(w)
<1>1. Present(v) = Present(w) /\ Created(w)
  BY DEF Present, Created
<1>2. Grown(v, w) /\ Grown(w, v) /\ \A s : NotOvertaken(v, w, s) /\ NotOvertaken(w, v, s)
  BY <1>1 DEF Grown, NotOvertaken
<1>3. \A c \in ResolveConflicts(w) : c \in ResolveConflicts(v)
  BY <1>1, <1>2, OldClaimsKept, ConflictsPresent
<1>4. \A c \in ResolveConflicts(v) : c \in ResolveConflicts(w)
  BY <1>1, <1>2, OldClaimsKept, ConflictsPresent
<1> QED BY <1>1, <1>3, <1>4

-----------------------------------------------------------------------------
\* No creation lies ahead of the clock.
ClockAhead ==
    /\ "created" \in DOMAIN o /\ Created(o) /\ Created(table) /\ seconds \in Nat
    /\ \A s \in Sets : o.created[s] <= seconds /\ table.created[s] <= seconds

\* What was created since the last tick is not older than anything that the tick saw.
CreatedLater ==
    \A s, x \in Sets : o.created[s] \notin {0, table.created[s]} => table.created[x] <= o.created[s]

\* The table has the conflicts of the ListenerSets it was made from.
TableResolved == table.conflicts = ResolveConflicts(table) /\ table.present = Present(table)

GInv == ClockAhead /\ CreatedLater /\ TableResolved

\* GInv holds initially and in every step.
LEMMA GInvInit == GInit => GInv
<1> SUFFICES ASSUME GInit PROVE GInv
  OBVIOUS
<1>1. "created" \in DOMAIN o /\ o.created \in [Sets -> {0}] /\ seconds = 0
  BY InitiallyAssumption DEF GInit
<1>2. table.created = [s \in Sets |-> 0] /\ table.conflicts = {} /\ table.present = {}
  BY DEF GInit, EmptyTable
<1>3. ClockAhead /\ CreatedLater
  BY <1>1, <1>2 DEF ClockAhead, CreatedLater, Created
<1>4. Present(table) = {} /\ Claims(table) = {}
  BY <1>2 DEF Present, Claims
<1>5. ResolveConflicts(table) = {}
  BY <1>4 DEF ResolveConflicts
<1> QED BY <1>2, <1>3, <1>4, <1>5 DEF GInv, TableResolved

\* What a tick publishes.
LEMMA TickPublishes ==
    ASSUME Created(o), Tick
    PROVE  /\ table'.created = o.created
           /\ table'.conflicts = ResolveConflicts(table') /\ table'.present = Present(table')
           /\ o' = o /\ seconds' = seconds
<1>1. table' = Publish(ViewOf(o)) /\ o' = o /\ seconds' = seconds
  BY DEF Tick, users
<1>2. ViewOf(o).o = o /\ ViewOf(o).conflicts = ResolveConflicts(o)
  BY DEF ViewOf
<1>3. table'.created = o.created /\ table'.conflicts = ResolveConflicts(o) /\ table'.present = Present(o)
  BY <1>1, <1>2 DEF Publish
<1>4. ResolveConflicts(o) = ResolveConflicts(table') /\ Present(o) = Present(table')
  BY <1>3, ConflictsByAge
<1> QED BY <1>1, <1>3, <1>4

\* Only a tick replaces the table.
LEMMA OthersKeepTable ==
    ASSUME [GNext]_gvars
    PROVE  Tick \/ table' = table
<1>1. CASE UNCHANGED gvars
  BY <1>1 DEF gvars
<1>2. CASE Users
  BY <1>2 DEF Users, CreateSet, DeleteSet, EditRoute, EditGrant, EditSecret, EditValidation, Edit
<1>3. CASE GatewayController
  BY <1>3 DEF GatewayController, ReconcileGateway, PatchGateway
<1>4. CASE RouteControllers
  BY <1>4 DEF RouteControllers, ReconcileListenerSet, ReconcileRoute
<1> QED BY <1>1, <1>2, <1>3, <1>4 DEF GNext

\* Only the creation and the deletion of a ListenerSet change times of creation.
LEMMA CreatedStep ==
    ASSUME GInv, [GNext]_gvars
    PROVE  /\ "created" \in DOMAIN o'
           /\ \/ o'.created = o.created /\ seconds' = seconds
              \/ \E s \in Sets : /\ o'.created = [o.created EXCEPT ![s] = seconds']
                                 /\ seconds' \in {seconds, seconds + 1}
              \/ \E s \in Sets : o'.created = [o.created EXCEPT ![s] = 0] /\ seconds' = seconds
<1>1. "created" \in DOMAIN o
  BY DEF GInv, ClockAhead
<1>2. CASE UNCHANGED <<o, seconds>>
  BY <1>1, <1>2
<1>3. ASSUME NEW s \in Sets, CreateSet(s)
      PROVE  /\ "created" \in DOMAIN o'
             /\ o'.created = [o.created EXCEPT ![s] = seconds'] /\ seconds' \in {seconds, seconds + 1}
  BY <1>1, <1>3 DEF CreateSet, Edit
<1>4. ASSUME NEW s \in Sets, DeleteSet(s)
      PROVE  /\ "created" \in DOMAIN o'
             /\ o'.created = [o.created EXCEPT ![s] = 0] /\ seconds' = seconds
  BY <1>1, <1>4 DEF DeleteSet, Edit
<1>5. CASE \/ \E r \in Routes : EditRoute(r)
           \/ \E g \in Grants : EditGrant(g)
           \/ \E x \in Secrets : EditSecret(x)
           \/ EditValidation
  <2>1. "created" \in DOMAIN o' /\ o'.created = o.created /\ seconds' = seconds
    BY <1>1, <1>5 DEF EditRoute, EditGrant, EditSecret, EditValidation, Edit
  <2> QED BY <2>1
<1>6. CASE Users
  BY <1>3, <1>4, <1>5, <1>6 DEF Users
<1>7. CASE Tick \/ GatewayController \/ RouteControllers \/ UNCHANGED gvars
  <2>1. UNCHANGED <<o, seconds>>
    BY <1>7 DEF Tick, GatewayController, ReconcileGateway, PatchGateway, RouteControllers,
                ReconcileListenerSet, ReconcileRoute, users, gvars
  <2> QED BY <1>2, <2>1
<1> QED BY <1>6, <1>7 DEF GNext

\* GInv is inductive.
LEMMA GInvInductive == GInv /\ [GNext]_gvars => GInv'
<1> SUFFICES ASSUME GInv, [GNext]_gvars PROVE GInv'
  OBVIOUS
<1>0. Created(o)
  BY DEF GInv, ClockAhead
<1>1. CASE Tick
  <2>1. ClockAhead'
    BY <1>0, <1>1, TickPublishes DEF GInv, ClockAhead, Created
  <2>2. CreatedLater'
    BY <1>0, <1>1, TickPublishes DEF CreatedLater
  <2>3. TableResolved'
    BY <1>0, <1>1, TickPublishes DEF TableResolved
  <2> QED BY <2>1, <2>2, <2>3 DEF GInv
<1>2. CASE table' = table
  <2>1. TableResolved'
    BY <1>2 DEF GInv, TableResolved
  <2>2. CASE o'.created = o.created /\ seconds' = seconds
    BY <1>2, <2>1, <2>2, CreatedStep DEF GInv, ClockAhead, CreatedLater, Created
  <2>3. ASSUME NEW s \in Sets, o'.created = [o.created EXCEPT ![s] = seconds'], seconds' \in {seconds, seconds + 1}
        PROVE  GInv'
    <3>1. ClockAhead'
      BY <1>2, <2>3, CreatedStep DEF GInv, ClockAhead, Created
    <3>2. CreatedLater'
      BY <1>2, <2>3 DEF GInv, ClockAhead, CreatedLater, Created
    <3> QED BY <2>1, <3>1, <3>2 DEF GInv
  <2>4. ASSUME NEW s \in Sets, o'.created = [o.created EXCEPT ![s] = 0], seconds' = seconds
        PROVE  GInv'
    <3>1. ClockAhead'
      BY <1>2, <2>4, CreatedStep DEF GInv, ClockAhead, Created
    <3>2. CreatedLater'
      BY <1>2, <2>4 DEF GInv, ClockAhead, CreatedLater, Created
    <3> QED BY <2>1, <3>1, <3>2 DEF GInv
  <2> QED BY <2>2, <2>3, <2>4, CreatedStep
<1> QED BY <1>1, <1>2, OthersKeepTable

\* While ListenerSets are only added, a listener that was served loses its port and hostnames
\* only if a set is added that was created in the second of its own and comes first by name:
\* resolve_listener_set_conflicts goes by age, then by name, and the API server's clock gives a
\* later set no earlier time, however many sets and listeners there are and whichever of them
\* lost before.
THEOREM FirstComeTheorem == GSpec => FirstComeFirstServed
<1>1. ASSUME GInv, [GNext]_gvars, OnlyAdded,
             NEW c \in table'.conflicts \ table.conflicts, c[1] \in table.present
      PROVE  Overtaken(c[1])
  <2>1. CASE table' = table
    BY <1>1, <2>1
  <2>2. CASE Tick
    <3>0. Created(o)
      BY <1>1 DEF GInv, ClockAhead
    <3>1. Created(table) /\ Created(table')
      BY <1>1, <2>2, <3>0, TickPublishes DEF GInv, ClockAhead, Created
    <3>2. Grown(table, table')
      <4>1. Present(table) \subseteq Present(table')
        BY <1>1, <2>2, <3>0, TickPublishes DEF GInv, TableResolved, OnlyAdded
      <4>2. \A s \in Present(table) : table'.created[s] = table.created[s]
        BY <1>1 DEF GInv, TableResolved, OnlyAdded
      <4>3. ASSUME NEW s \in Present(table') \ Present(table), NEW x \in Present(table)
            PROVE  table.created[x] <= table'.created[s]
        BY <1>1, <2>2, <3>0, TickPublishes DEF GInv, CreatedLater, Present
      <4> QED BY <4>1, <4>2, <4>3 DEF Grown
    <3>3. table'.conflicts = ResolveConflicts(table')
      BY <2>2, <3>0, TickPublishes
    <3>4. table.conflicts = ResolveConflicts(table) /\ table.present = Present(table)
      BY <1>1 DEF GInv, TableResolved
    <3>5. table'.present = Present(table')
      BY <2>2, <3>0, TickPublishes
    <3>6. ASSUME ~Overtaken(c[1]) PROVE FALSE
      <4>1. NotOvertaken(table, table', c[1])
        BY <3>4, <3>5, <3>6 DEF Overtaken, NotOvertaken
      <4> QED BY <1>1, <3>1, <3>2, <3>3, <3>4, <4>1, OldClaimsKept
    <3> QED BY <3>6
  <2> QED BY <1>1, <2>1, <2>2, OthersKeepTable
<1>2. GInv /\ [GNext]_gvars =>
        [ OnlyAdded =>
            \A c \in table'.conflicts \ table.conflicts :
                c[1] \in table.present => Overtaken(c[1]) ]_table
  BY <1>1
<1> QED BY <1>2, GInvInit, GInvInductive, PTL DEF GSpec, FirstComeFirstServed

=============================================================================

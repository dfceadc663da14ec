---------------------------- MODULE Lists_proofs ----------------------------
(***************************************************************************)
(* What the operators of Lists return, for lists of any length: InOrder    *)
(* lists every member of a finite set once and in order, and with it what  *)
(* sorting, filtering and joining keep and where the first is.             *)
(*                                                                         *)
(* A member of a finite set comes after as many others as are below it, so *)
(* its rank tells it from the others; the ranks are the numbers from 0 on  *)
(* because a set has no injection into a smaller one.                      *)
(***************************************************************************)
EXTENDS Lists, SequenceTheorems, FiniteSetTheorems, FunctionTheorems, WellFoundedInduction, TLAPS

(* Finite sets, and the lists InOrder makes of them. *)

\* Every set of natural numbers has a least element.
LEMMA LeastPosition ==
    ASSUME NEW T, T \subseteq Nat, T # {}
    PROVE  \E x \in T : \A y \in T : x <= y
<1>1. PICK x \in T : \A y \in T : ~(<<y, x>> \in OpToRel(<, Nat))
  BY NatLessThanWellFounded, WFMin
<1>2. \A y \in T : ~(y < x)
  BY <1>1 DEF OpToRel
<1> QED BY <1>2

\* A smaller set has fewer members.
LEMMA Fewer ==
    ASSUME NEW S, NEW T, IsFiniteSet(S), T \subseteq S, NEW x \in S, x \notin T
    PROVE  /\ Cardinality(T) \in Nat /\ Cardinality(S) \in Nat
           /\ Cardinality(T) < Cardinality(S)
<1>1. IsFiniteSet(T) /\ Cardinality(T) <= Cardinality(S) /\ (Cardinality(S) = Cardinality(T) => S = T)
  BY FS_Subset
<1>2. Cardinality(T) \in Nat /\ Cardinality(S) \in Nat
  BY <1>1, FS_CardinalityType
<1> QED BY <1>1, <1>2

\* Of the values of a function on a finite set one is the greatest.
LEMMA GreatestExists ==
    ASSUME NEW S, NEW f, IsFiniteSet(S), S # {}, \A x \in S : f[x] \in Int
    PROVE  Greatest(S, f) # {}
<1> DEFINE Above(x) == {y \in S : f[y] > f[x]}
           counts == {Cardinality(Above(x)) : x \in S}
<1>1. \A x \in S : IsFiniteSet(Above(x)) /\ Cardinality(Above(x)) \in Nat
  <2> SUFFICES ASSUME NEW x \in S PROVE IsFiniteSet(Above(x)) /\ Cardinality(Above(x)) \in Nat
    OBVIOUS
  <2>1. Above(x) \in SUBSET S
    OBVIOUS
  <2> HIDE DEF Above
  <2>2. IsFiniteSet(Above(x))
    BY <2>1, FS_Subset
  <2> QED BY <2>2, FS_CardinalityType
<1>2. counts \subseteq Nat /\ counts # {}
  BY <1>1
<1>3. PICK least \in counts : \A c \in counts : least <= c
  <2> HIDE DEF counts
  <2> QED BY <1>2, LeastPosition
<1>4. PICK x \in S : least = Cardinality(Above(x))
  OBVIOUS
<1>5. ASSUME NEW y \in S, f[y] > f[x] PROVE FALSE
  <2>1. Above(y) \subseteq Above(x) /\ y \in Above(x) /\ y \notin Above(y)
    BY <1>5
  <2>2. Cardinality(Above(y)) \in counts
    OBVIOUS
  <2> HIDE DEF Above
  <2>3. Cardinality(Above(y)) < Cardinality(Above(x))
    BY <1>1, <2>1, Fewer
  <2> HIDE DEF counts
  <2>4. Cardinality(Above(x)) <= Cardinality(Above(y))
    BY <1>3, <1>4, <2>2
  <2> QED BY <1>1, <2>3, <2>4
<1>6. \A y \in S : f[y] <= f[x]
  BY <1>5
<1> QED BY <1>6 DEF Greatest

StrictOrder(S, R) ==
    /\ \A a \in S : <<a, a>> \notin R
    /\ \A a, b, c \in S : <<a, b>> \in R /\ <<b, c>> \in R => <<a, c>> \in R
    /\ \A a, b \in S : a = b \/ <<a, b>> \in R \/ <<b, a>> \in R

\* InOrder lists a finite set: every member once, and none before one that it comes after.
LEMMA Listed ==
    ASSUME NEW S, NEW R, IsFiniteSet(S), StrictOrder(S, R)
    PROVE  /\ Cardinality(S) \in Nat /\ DOMAIN InOrder(S, R) = 1..Cardinality(S)
           /\ \A k \in 1..Cardinality(S) : InOrder(S, R)[k] \in S
           /\ \A e \in S : \E k \in 1..Cardinality(S) : InOrder(S, R)[k] = e
           /\ \A j, k \in 1..Cardinality(S) : <<InOrder(S, R)[j], InOrder(S, R)[k]>> \in R => j < k
<1> DEFINE n == Cardinality(S)
           Below(e) == {d \in S : <<d, e>> \in R}
           Rank(e) == Cardinality(Below(e))
           f == [e \in S |-> Rank(e) + 1]
           s == InOrder(S, R)
<1>1. n \in Nat
  BY FS_CardinalityType
<1>2. \A e \in S : Rank(e) \in Nat /\ Rank(e) < n
  <2> SUFFICES ASSUME NEW e \in S PROVE Rank(e) \in Nat /\ Rank(e) < n
    OBVIOUS
  <2>1. Below(e) \subseteq S /\ e \notin Below(e)
    BY DEF StrictOrder
  <2> HIDE DEF Below
  <2> QED BY <2>1, Fewer
<1>3. ASSUME NEW a \in S, NEW b \in S, <<a, b>> \in R PROVE Rank(a) < Rank(b)
  <2>1. Below(a) \subseteq Below(b) /\ a \in Below(b) /\ a \notin Below(a)
    BY <1>3 DEF StrictOrder
  <2>2. IsFiniteSet(Below(b))
    BY FS_Subset
  <2> HIDE DEF Below
  <2> QED BY <2>1, <2>2, Fewer
<1> HIDE DEF Rank, n
<1>4. \A a, b \in S : Rank(a) = Rank(b) => a = b
  <2> SUFFICES ASSUME NEW a \in S, NEW b \in S, Rank(a) = Rank(b), a # b PROVE FALSE
    OBVIOUS
  <2>1. <<a, b>> \in R \/ <<b, a>> \in R
    BY DEF StrictOrder
  <2>2. Rank(a) < Rank(b) \/ Rank(b) < Rank(a)
    BY <1>3, <2>1
  <2> QED BY <1>2, <2>2
<1>5. f \in Surjection(S, 1..n)
  <2>1. f \in [S -> 1..n]
    BY <1>1, <1>2
  <2>2. \A a, b \in S : f[a] = f[b] => a = b
    BY <1>2, <1>4
  <2>3. f \in Injection(S, 1..n)
    BY <2>1, <2>2 DEF Injection, IsInjective
  <2>4. IsFiniteSet(1..n) /\ Cardinality(1..n) = n
    BY <1>1, FS_Interval
  <2> HIDE DEF f
  <2> QED BY <2>3, <2>4, FS_Injection DEF n
<1>6. \A k \in 1..n : \E e \in S : Rank(e) = k - 1
  <2> SUFFICES ASSUME NEW k \in 1..n PROVE \E e \in S : Rank(e) = k - 1
    OBVIOUS
  <2>1. PICK e \in S : f[e] = k
    BY <1>5 DEF Surjection
  <2>2. Rank(e) + 1 = k
    BY <2>1
  <2>3. Rank(e) = k - 1
    BY <1>1, <1>2, <2>2
  <2> QED BY <2>3
<1>7. DOMAIN s = 1..n /\ \A k \in 1..n : s[k] = CHOOSE e \in S : Rank(e) = k - 1
  BY DEF InOrder, Rank, n
<1> HIDE DEF s
<1>8. \A k \in 1..n : s[k] \in S /\ Rank(s[k]) = k - 1
  BY <1>6, <1>7
<1>9. ASSUME NEW e \in S PROVE \E k \in 1..n : s[k] = e
  <2>1. Rank(e) + 1 \in 1..n /\ (Rank(e) + 1) - 1 = Rank(e)
    BY <1>1, <1>2
  <2>2. s[Rank(e) + 1] \in S /\ Rank(s[Rank(e) + 1]) = Rank(e)
    BY <1>8, <2>1
  <2> QED BY <1>4, <2>1, <2>2
<1>10. ASSUME NEW j \in 1..n, NEW k \in 1..n, <<s[j], s[k]>> \in R PROVE j < k
  <2>1. Rank(s[j]) < Rank(s[k])
    BY <1>3, <1>8, <1>10
  <2>2. Rank(s[j]) = j - 1 /\ Rank(s[k]) = k - 1
    BY <1>8
  <2> QED BY <1>1, <2>1, <2>2
<1> QED BY <1>1, <1>7, <1>8, <1>9, <1>10 DEF n, s

\* ListAt lists what a sequence has at some positions, in the given order.
LEMMA ListedAt ==
    ASSUME NEW seq, NEW idx \in SUBSET DOMAIN seq, NEW R, IsFiniteSet(idx), StrictOrder(idx, R),
           NEW s, s = ListAt(seq, idx, R), NEW ord, ord = InOrder(idx, R)
    PROVE  /\ s \in Seq(ToSet(seq)) /\ DOMAIN ord = DOMAIN s
           /\ \A k \in DOMAIN s : ord[k] \in idx /\ s[k] = seq[ord[k]]
           /\ \A i \in idx : \E k \in DOMAIN s : ord[k] = i
           /\ \A j, k \in DOMAIN s : <<ord[j], ord[k]>> \in R => j < k
<1> DEFINE n == Cardinality(idx)
<1>1. /\ n \in Nat /\ DOMAIN ord = 1..n
      /\ \A k \in 1..n : ord[k] \in idx
      /\ \A i \in idx : \E k \in 1..n : ord[k] = i
      /\ \A j, k \in 1..n : <<ord[j], ord[k]>> \in R => j < k
  BY Listed
<1> HIDE DEF n
<1>2. s = [k \in 1..n |-> seq[ord[k]]]
  BY <1>1 DEF ListAt
<1>3. s \in Seq(ToSet(seq))
  <2>1. s \in [1..n -> ToSet(seq)]
    BY <1>1, <1>2 DEF ToSet
  <2> QED BY <1>1, <2>1, SeqDef
<1>4. DOMAIN s = 1..n
  BY <1>2
<1> QED BY <1>1, <1>2, <1>3, <1>4

IsList(s) == s \in Seq(ToSet(s))

\* A sequence is one of its own members.
LEMMA SeqOfItself ==
    ASSUME NEW S, NEW s \in Seq(S)
    PROVE  IsList(s) /\ ToSet(s) \subseteq S
<1>1. Len(s) \in Nat /\ DOMAIN s = 1..Len(s) /\ s = [i \in 1..Len(s) |-> s[i]]
  OBVIOUS
<1>2. s \in [1..Len(s) -> ToSet(s)]
  BY <1>1 DEF ToSet
<1>3. IsList(s)
  BY <1>1, <1>2, SeqDef DEF IsList
<1>4. ToSet(s) \subseteq S
  BY <1>1 DEF ToSet
<1> QED BY <1>3, <1>4

\* The first of some positions is one of them.
LEMMA FirstIsOne ==
    ASSUME NEW seq, NEW at, at \subseteq Nat
    PROVE  /\ at = {} => FirstOf(seq, at) = <<>>
           /\ at # {} => /\ FirstOf(seq, at) # <<>>
                         /\ Min(at) \in at /\ FirstOf(seq, at)[1] = seq[Min(at)]
                         /\ \A i \in at : Min(at) <= i
<1>1. at = {} => FirstOf(seq, at) = <<>>
  BY DEF FirstOf
<1>2. ASSUME at # {}
      PROVE  Min(at) \in at /\ \A i \in at : Min(at) <= i
  <2>1. PICK x \in at : \A y \in at : x <= y
    BY <1>2, LeastPosition
  <2> QED BY <2>1 DEF Min
<1>3. ASSUME at # {}
      PROVE  FirstOf(seq, at) # <<>> /\ FirstOf(seq, at)[1] = seq[Min(at)]
  <2>1. FirstOf(seq, at) = <<seq[Min(at)]>>
    BY <1>3 DEF FirstOf
  <2> HIDE DEF Min
  <2> QED BY <2>1
<1> QED BY <1>1, <1>2, <1>3

\* A list that is at the positions `at` of another one, in any order, has its members.
LEMMA MembersAt ==
    ASSUME NEW seq, IsList(seq), NEW at \in SUBSET DOMAIN seq, NEW R, StrictOrder(at, R),
           NEW s, s = ListAt(seq, at, R)
    PROVE  IsList(s) /\ ToSet(s) = {seq[i] : i \in at}
<1> DEFINE ord == InOrder(at, R)
<1>1. IsFiniteSet(at)
  <2>1. DOMAIN seq = 1..Len(seq) /\ Len(seq) \in Nat
    BY DEF IsList
  <2>2. IsFiniteSet(DOMAIN seq)
    BY <2>1, FS_Interval
  <2> QED BY <2>2, FS_Subset
<1> HIDE DEF ord
<1>2. /\ s \in Seq(ToSet(seq)) /\ DOMAIN ord = DOMAIN s
      /\ \A k \in DOMAIN s : ord[k] \in at /\ s[k] = seq[ord[k]]
      /\ \A i \in at : \E k \in DOMAIN s : ord[k] = i
  BY <1>1, ListedAt DEF ord
<1>3. IsList(s)
  BY <1>2, SeqOfItself
<1>4. ASSUME NEW x \in ToSet(s) PROVE \E i \in at : x = seq[i]
  <2>1. PICK k \in DOMAIN s : x = s[k]
    BY DEF ToSet
  <2> QED BY <1>2, <2>1
<1>5. ASSUME NEW i \in at PROVE seq[i] \in ToSet(s)
  <2>1. PICK k \in DOMAIN s : s[k] = seq[i]
    BY <1>2
  <2> QED BY <2>1 DEF ToSet
<1> QED BY <1>3, <1>4, <1>5

\* A filter keeps what it chooses.
LEMMA ChosenMembers ==
    ASSUME NEW seq, IsList(seq), NEW at \in SUBSET DOMAIN seq, NEW s, s = Chosen(seq, at)
    PROVE  IsList(s) /\ ToSet(s) = {seq[i] : i \in at}
<1> DEFINE R == {p \in at \X at : p[1] < p[2]}
<1>1. \A i \in at : i \in Nat
  BY DEF IsList
<1>2. \A i, j \in at : <<i, j>> \in R <=> i < j
  OBVIOUS
<1>3. s = ListAt(seq, at, R)
  BY DEF Chosen
<1> HIDE DEF R
<1>4. StrictOrder(at, R)
  BY <1>1, <1>2 DEF StrictOrder
<1> QED BY <1>3, <1>4, MembersAt

\* Two lists one after the other have the members of both.
LEMMA ConcatMembers ==
    ASSUME NEW a, IsList(a), NEW b, IsList(b)
    PROVE  IsList(a \o b) /\ ToSet(a \o b) = ToSet(a) \cup ToSet(b)
<1> DEFINE S == ToSet(a) \cup ToSet(b)
           s == a \o b
           x == Len(a)
           y == Len(b)
<1>1. a \in Seq(S) /\ b \in Seq(S)
  BY DEF IsList
<1> HIDE DEF S
<1>2. /\ s \in Seq(S) /\ x \in Nat /\ y \in Nat /\ Len(s) = x + y
      /\ DOMAIN a = 1..x /\ DOMAIN b = 1..y /\ DOMAIN s = 1..(x + y)
      /\ \A i \in 1..(x + y) : s[i] = IF i <= x THEN a[i] ELSE b[i - x]
  BY <1>1
<1> HIDE DEF s, x, y
<1>3. IsList(s) /\ ToSet(s) \subseteq S
  BY <1>2, SeqOfItself
<1>4. ASSUME NEW i \in 1..x PROVE a[i] \in ToSet(s)
  <2>1. i \in 1..(x + y) /\ s[i] = a[i]
    BY <1>2
  <2> QED BY <1>2, <2>1 DEF ToSet
<1>5. ASSUME NEW i \in 1..y PROVE b[i] \in ToSet(s)
  <2>1. x + i \in 1..(x + y) /\ ~(x + i <= x) /\ (x + i) - x = i
    BY <1>2
  <2>2. s[x + i] = b[i]
    BY <1>2, <2>1
  <2> QED BY <1>2, <2>1, <2>2 DEF ToSet
<1>6. S \subseteq ToSet(s)
  BY <1>2, <1>4, <1>5 DEF S, ToSet
<1> QED BY <1>3, <1>6 DEF S, s

\* The positions that Joined goes through.
Places(lists) == UNION {{i} \X DOMAIN lists[i] : i \in DOMAIN lists}

\* They are pairs, finitely many.
LEMMA PlacesFinite ==
    ASSUME NEW lists, IsList(lists), \A i \in DOMAIN lists : IsList(lists[i])
    PROVE  /\ IsFiniteSet(Places(lists))
           /\ \A e \in Places(lists) : /\ e[1] \in DOMAIN lists /\ e[2] \in DOMAIN lists[e[1]]
                                       /\ e[1] \in Nat /\ e[2] \in Nat /\ e = <<e[1], e[2]>>
           /\ \A i \in DOMAIN lists : \A j \in DOMAIN lists[i] : <<i, j>> \in Places(lists)
<1> DEFINE part(i) == {i} \X DOMAIN lists[i]
           parts == {part(i) : i \in DOMAIN lists}
<1>1. DOMAIN lists = 1..Len(lists) /\ Len(lists) \in Nat
  BY DEF IsList
<1>2. IsFiniteSet(DOMAIN lists)
  BY <1>1, FS_Interval
<1>3. ASSUME NEW i \in DOMAIN lists PROVE IsFiniteSet(part(i))
  <2>1. DOMAIN lists[i] = 1..Len(lists[i]) /\ Len(lists[i]) \in Nat
    BY DEF IsList
  <2>2. IsFiniteSet(DOMAIN lists[i])
    BY <2>1, FS_Interval
  <2>3. IsFiniteSet({i})
    BY FS_Singleton
  <2> QED BY <2>2, <2>3, FS_Product
<1>4. ASSUME NEW e \in Places(lists)
      PROVE  /\ e[1] \in DOMAIN lists /\ e[2] \in DOMAIN lists[e[1]]
             /\ e[1] \in Nat /\ e[2] \in Nat /\ e = <<e[1], e[2]>>
  <2>1. PICK i \in DOMAIN lists : e \in {i} \X DOMAIN lists[i]
    BY DEF Places
  <2>2. e = <<e[1], e[2]>> /\ e[1] = i /\ e[2] \in DOMAIN lists[i]
    BY <2>1
  <2>3. DOMAIN lists[i] \subseteq Nat
    BY DEF IsList
  <2> QED BY <1>1, <2>2, <2>3
<1>5. ASSUME NEW i \in DOMAIN lists, NEW j \in DOMAIN lists[i] PROVE <<i, j>> \in Places(lists)
  BY DEF Places
<1> HIDE DEF part
<1>6. IsFiniteSet(parts)
  <2> DEFINE f == [i \in DOMAIN lists |-> part(i)]
  <2>1. f \in Surjection(DOMAIN lists, parts)
    BY DEF Surjection
  <2> HIDE DEF f, parts
  <2> QED BY <1>2, <2>1, FS_Surjection
<1>7. \A T \in parts : IsFiniteSet(T)
  BY <1>3
<1> HIDE DEF parts
<1>8. IsFiniteSet(UNION parts)
  BY <1>6, <1>7, FS_UNION
<1>9. IsFiniteSet(Places(lists))
  BY <1>8 DEF Places, part, parts
<1> QED BY <1>4, <1>5, <1>9

\* The lists one after the other have the members of all of them.
LEMMA JoinedMembers ==
    ASSUME NEW lists, IsList(lists), \A i \in DOMAIN lists : IsList(lists[i])
    PROVE  /\ IsList(Joined(lists))
           /\ ToSet(Joined(lists)) = UNION {ToSet(lists[i]) : i \in DOMAIN lists}
<1> DEFINE at == Places(lists)
           Less(d, e) == d[1] < e[1] \/ (d[1] = e[1] /\ d[2] < e[2])
           R == {p \in at \X at : Less(p[1], p[2])}
           ord == InOrder(at, R)
           n == Cardinality(at)
           s == Joined(lists)
           all == UNION {ToSet(lists[i]) : i \in DOMAIN lists}
<1>1. /\ IsFiniteSet(at)
      /\ \A e \in at : /\ e[1] \in DOMAIN lists /\ e[2] \in DOMAIN lists[e[1]]
                       /\ e[1] \in Nat /\ e[2] \in Nat /\ e = <<e[1], e[2]>>
      /\ \A i \in DOMAIN lists : \A j \in DOMAIN lists[i] : <<i, j>> \in at
  BY PlacesFinite
<1>2. s = [k \in DOMAIN ord |-> lists[ord[k][1]][ord[k][2]]]
  BY DEF Joined, Places
<1> HIDE DEF at, s
<1>3. \A d, e \in at : <<d, e>> \in R <=> Less(d, e)
  OBVIOUS
<1> HIDE DEF R
<1>4. StrictOrder(at, R)
  <2>1. \A d \in at : ~Less(d, d)
    BY <1>1
  <2>2. \A c, d, e \in at : Less(c, d) /\ Less(d, e) => Less(c, e)
    BY <1>1
  <2>3. ASSUME NEW d \in at, NEW e \in at PROVE d = e \/ Less(d, e) \/ Less(e, d)
    <3>1. (d[1] = e[1] /\ d[2] = e[2]) \/ Less(d, e) \/ Less(e, d)
      BY <1>1
    <3>2. d[1] = e[1] /\ d[2] = e[2] => d = e
      BY <1>1
    <3> QED BY <3>1, <3>2
  <2> HIDE DEF Less
  <2> QED BY <1>3, <2>1, <2>2, <2>3 DEF StrictOrder
<1>5. /\ n \in Nat /\ DOMAIN ord = 1..n
      /\ \A k \in 1..n : ord[k] \in at
      /\ \A e \in at : \E k \in 1..n : ord[k] = e
  BY <1>1, <1>4, Listed
<1> HIDE DEF ord, n
<1>6. ASSUME NEW k \in 1..n PROVE lists[ord[k][1]][ord[k][2]] \in all
  <2>1. ord[k][1] \in DOMAIN lists /\ ord[k][2] \in DOMAIN lists[ord[k][1]]
    BY <1>1, <1>5
  <2> QED BY <2>1 DEF ToSet
<1>7. s \in Seq(all)
  <2> HIDE DEF all
  <2>1. s \in [1..n -> all]
    BY <1>2, <1>5, <1>6
  <2> QED BY <1>5, <2>1, SeqDef
<1>8. IsList(s) /\ ToSet(s) \subseteq all
  <2> HIDE DEF all
  <2> QED BY <1>7, SeqOfItself
<1>9. ASSUME NEW i \in DOMAIN lists, NEW x \in ToSet(lists[i]) PROVE x \in ToSet(s)
  <2>1. PICK j \in DOMAIN lists[i] : x = lists[i][j]
    BY DEF ToSet
  <2>2. PICK k \in 1..n : ord[k] = <<i, j>>
    BY <1>1, <1>5
  <2>3. s[k] = x /\ k \in DOMAIN s
    BY <1>2, <1>5, <2>1, <2>2
  <2> QED BY <2>3 DEF ToSet
<1> QED BY <1>8, <1>9 DEF s

=============================================================================

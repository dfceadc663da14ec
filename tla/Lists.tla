------------------------------- MODULE Lists -------------------------------
(***************************************************************************)
(* Lists the way the compiler of route tables makes and reads them:        *)
(* sorted, filtered and joined, and searched for the first or the best.    *)
(* They are described by the positions they take their members from.       *)
(***************************************************************************)
EXTENDS Integers, Sequences, FiniteSets, SequencesExt

\* The members of S in the strict total order R, a set of pairs: place k has the
\* member that k - 1 others come before.
InOrder(S, R) ==
    [k \in 1..Cardinality(S) |->
        CHOOSE e \in S : Cardinality({d \in S : <<d, e>> \in R}) = k - 1]

\* What a sequence has at the positions in `at`, in the order R of positions.
ListAt(seq, at, R) ==
    LET ord == InOrder(at, R) IN [k \in DOMAIN ord |-> seq[ord[k]]]

\* The same, in the order of the sequence.
Chosen(seq, at) == ListAt(seq, at, {p \in at \X at : p[1] < p[2]})

\* The lists one after the other.
Joined(lists) ==
    LET at == UNION {{i} \X DOMAIN lists[i] : i \in DOMAIN lists}
        ord == InOrder(at, {p \in at \X at : \/ p[1][1] < p[2][1]
                                             \/ p[1][1] = p[2][1] /\ p[1][2] < p[2][2]})
    IN  [k \in DOMAIN ord |-> lists[ord[k][1]][ord[k][2]]]

\* The members of a set of positions with the greatest score.
Greatest(at, score) == {i \in at : \A j \in at : score[j] <= score[i]}

\* What a sequence has at the least of some positions, nothing if there is none.
FirstOf(seq, at) == IF at = {} THEN <<>> ELSE <<seq[Min(at)]>>

=============================================================================

------------------------------ MODULE HotSwap ------------------------------
(***************************************************************************)
(* What the route manager promises the proxy: one table is served at a     *)
(* time, it is the compilation of the tables the sources last had accepted,*)
(* and a table the compiler rejects never changes it.  The promise is      *)
(* stated on `served`, the per-source tables the serving route table was   *)
(* compiled from; a swap replaces the table of one source in one step.     *)
(***************************************************************************)
CONSTANTS
    SourceIds,      \* ids of the configuration sources
    Tables,         \* the route tables a source may report
    NoTable,        \* a source that has not reported
    Rejects(_)      \* the source maps the compiler returns an error for

VARIABLE served

Empty == [s \in SourceIds |-> NoTable]

Init == served = Empty

Swap(s, t) ==
    /\ ~Rejects([served EXCEPT ![s] = t])
    /\ served' = [served EXCEPT ![s] = t]

Next == \E s \in SourceIds, t \in Tables : Swap(s, t)

Spec == Init /\ [][Next]_served

=============================================================================

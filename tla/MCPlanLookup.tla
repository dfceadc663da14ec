---------------------------- MODULE MCPlanLookup ----------------------------
(***************************************************************************)
(* Six HTTPRoutes whose matches meet on few paths, so that three of them   *)
(* exceed the threshold at one node, with every kind of discriminator.     *)
(***************************************************************************)
EXTENDS PlanLookup

Low(w) == <<w, "lower">>
Up(w) == <<w, "upper">>

NoPath == [kind |-> "none"]
P(segs) == [kind |-> "prefix", segs |-> segs, slash |-> 0]
PSlash(segs) == [kind |-> "prefix", segs |-> segs, slash |-> 1]
E(segs) == [kind |-> "exact", segs |-> segs, slash |-> 0]
R(paths) == [kind |-> "regex", paths |-> paths, len |-> 3]
At(segs, slash) == [segs |-> segs, slash |-> slash]

H(name, word) == [name |-> name, kind |-> "exact", value |-> Low(word), words |-> {}]
HKind(name, kind) == [name |-> name, kind |-> kind, value |-> Absent, words |-> {}]
HRegex(name, words) == [name |-> name, kind |-> "regex", value |-> Absent, words |-> words]

M(path, method, headers, query) ==
    [path |-> path, method |-> method, headers |-> headers, query |-> query]
Rule(ms, action) == [matches |-> ms, action |-> action]

A == <<"a">>
AB == <<"a", "b">>

MCRoutes ==
    {<<Rule(<<M(P(A), Low("get"), <<>>, <<>>)>>, 11),
       Rule(<<M(P(A), Low("post"), <<>>, <<>>), M(P(AB), Absent, <<>>, <<>>)>>, 12)>>,
     <<Rule(<<M(P(A), Absent, <<H("x", "u")>>, <<>>)>>, 21),
       Rule(<<M(PSlash(A), Absent, <<HKind("y", "present")>>, <<>>)>>, 22)>>,
     <<Rule(<<M(P(A), Absent, <<H("y", "v"), HKind("x", "absent")>>, <<>>)>>, 31),
       Rule(<<M(E(A), Absent, <<>>, <<>>)>>, 32)>>,
     <<Rule(<<M(P(A), Absent, <<>>, <<H("q", "u")>>)>>, 41),
       Rule(<<M(P(A), Absent, <<>>, <<HRegex("q", {"u", "v"})>>)>>, 42),
       Rule(<<M(P(A), Absent, <<>>, <<H("q", "v"), H("r", "u")>>)>>, 43)>>,
     <<Rule(<<M(NoPath, Absent, <<>>, <<>>)>>, 51),
       Rule(<<M(R({At(A, 0), At(AB, 1)}), Absent, <<HRegex("x", {"u"})>>, <<>>)>>, 52)>>,
     <<Rule(<<M(P(AB), Low("get"), <<>>, <<>>), M(P(<<>>), Absent, <<>>, <<>>)>>, 61),
       Rule(<<M(E(A), Low("get"), <<>>, <<>>)>>, 62)>>}

Empty == << >>
With(n, v) == [x \in {n} |-> v]

MCRequests ==
    [segs : {<<>>, A, AB}, slash : {0, 1}, method : {Low("get"), Low("post"), Up("get")},
     headers : {Empty, With("x", Low("u")), With("x", Up("u")), With("y", Low("v"))},
     query : {Empty, With("q", Low("u")), With("q", Low("v"))}]

=============================================================================

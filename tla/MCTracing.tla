----------------------------- MODULE MCTracing ------------------------------
(* The options that matter to each other, in several orders; region names  *)
(* that fit, are cut, are refused, or contain a '.'.                       *)
EXTENDS Tracing, TLC

Opt(flag, arg) == [flag |-> flag, arg |-> arg]
A == Opt("A", "")
File == Opt("a", "trace")
K(n) == Opt("k", n)
S(n) == Opt("s", n)
Regional == <<K(0), File>>
Filing == {<<File>>, <<A, File>>, <<File, A>>, <<A>>, <<File, A, File>>}
Others ==
    {<<>>, <<K(0), K(2), S(1), File>>, <<K(9), S(0)>>, <<K(-1), Opt("d", ""), A>>,
     <<K(3), S(2), Opt("t", 100), Opt("t", 10), Opt("t", -1)>>,
     <<Opt("g", ""), Opt("f", "dir"), Opt("o", ""), Opt("n", ""), Opt("e", "")>>,
     <<Opt("c", ""), Opt("v", ""), Opt("m", 8), Opt("x", "exe"), Opt("l", "")>>,
     <<Opt("l", ""), Opt("r", ""), Opt("z", ""), Opt("y", ""), Opt("p", ""), Opt("q", "")>>,
     <<File, File, File, File, File, File, File>>}
MCOptionLists == {Regional} \cup Filing \cup Others

Bound(c, r, f) == [calls |-> c, regions |-> r, flushes |-> f]
MCBounds == [l \in MCOptionLists |->
    IF l = Regional THEN Bound(1, 4, 0)
    ELSE IF l \in Filing THEN Bound(3, 0, 1) ELSE Bound(1, 1, 0)]

MCNames == ("a" :> 1) @@ ("b" :> 2) @@ ("long" :> 6) @@ ("a.b" :> 0)
=============================================================================

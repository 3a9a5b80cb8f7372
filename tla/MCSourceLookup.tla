--------------------------- MODULE MCSourceLookup ---------------------------
(* Two units of up to two line entries in any order, or more in the orders *)
(* that make the tree turn; an executable, and shared objects of all kinds.*)
EXTENDS SourceLookup

Lines(file, s) == [i \in DOMAIN s |-> [addr |-> s[i], file |-> file, no |-> i]]
Unit(file, s, fs) == [lines |-> Lines(file, s), functions |-> fs]
Fun(n, l, h) == [name |-> n, low |-> l, high |-> h, complete |-> TRUE]
Declared == [name |-> "decl", low |-> 0, high |-> 0, complete |-> FALSE]

Short == UNION {[1..n -> {0, 2, 5}] : n \in 0..2}
Long == {<<1, 2, 3, 4>>, <<5, 6, 7, 8>>, <<8, 7, 6, 5>>, <<4, 3, 2, 1>>,
         <<2, 8, 4, 6>>, <<7, 1, 5, 3>>, <<3, 3, 5, 3>>,
         <<5, 0, 2>>, <<2, 5, 2>>}
MCUnits ==
    {Unit("a.c", s, <<>>) : s \in Short \cup Long}
    \cup {Unit("b.c", s, <<Fun("f", 3, 5), Declared>>) : s \in {<<>>} \cup Long}
    \cup {Unit("b.c", <<1, 3>>, fs) :
            fs \in {<<Fun("g", 1, 3), Fun("h", 5, 6), Fun("i", 7, 8)>>,
                    <<Fun("j", 6, 7), Fun("g", 1, 3)>>, <<Fun("k", 0, 2)>>,
                    <<Fun("n", 5, 4)>>}}

Object(opens, debug, sections) == [opens |-> opens, debug |-> debug, sections |-> sections]
Text(low, size) == [low |-> low, size |-> size, alloc |-> TRUE]
Comment == [low |-> 0, size |-> 1, alloc |-> FALSE]
MCObjects ==
    [fixed    |-> Object(TRUE, TRUE, {Text(3, 1), Comment}),
     stripped |-> Object(TRUE, FALSE, {Text(0, 2)}),
     debug    |-> Object(TRUE, TRUE, {Text(0, 2), Comment}),
     split    |-> Object(TRUE, TRUE, {Text(0, 3)}),
     missing  |-> Object(FALSE, FALSE, {})]

Map(low, high, exec, path, offset, base) ==
    [low |-> low, high |-> high, exec |-> exec, path |-> path,
     offset |-> offset, base |-> base]
Fixed == Map(3, 4, TRUE, "fixed", 0, 3)
Heap == Map(5, 6, FALSE, "none", 0, 0)
Data == Map(5, 6, FALSE, "debug", 2, 0)
Debug == Map(6, 8, TRUE, "debug", 0, 0)
Stripped == Map(9, 11, TRUE, "stripped", 0, 0)
Split == Map(11, 13, TRUE, "split", 1, 0)
Vdso == Map(15, 16, TRUE, "none", 0, 0)
Missing == Map(14, 15, TRUE, "missing", 0, 0)
MCProcesses ==
    {[maps |-> <<Fixed, Heap, Debug, Stripped, Vdso>>, dlopened |-> <<>>],
     [maps |-> <<Fixed, Data, Debug, Stripped>>, dlopened |-> <<Split, Missing>>],
     [maps |-> <<Fixed, Data, Debug, Split>>, dlopened |-> <<Missing>>]}
=============================================================================

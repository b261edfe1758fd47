--------------------------- MODULE MCDesignSearch ---------------------------
(* Small instances of DesignSearch. *)
EXTENDS DesignSearch

MCWire == {"agg", "con", "semi"}

Free == [t \in TargetSet |-> invalid_value]

Org(dies, parts) == [dies |-> dies, parts |-> parts, exact |-> TRUE]
Inexact == [Org(1, 1) EXCEPT !.exact = FALSE]
Wires(basic, refine) == [basic |-> basic, refine |-> refine]
SpaceDef(designs, local, global) == [designs |-> designs, local |-> local, global |-> global]

One == Wires("agg", <<"agg">>)
Chosen == Wires("con", <<"con">>)
Two == Wires("agg", <<"agg", "con">>)
Around == Wires("agg", <<"semi", "agg">>)

Config(cells, cache, different, constraint, reduced, user) ==
    [cells |-> cells, rejected |-> {}, cache |-> cache, allowDifferentTagTech |-> different,
     isConstraintApplied |-> constraint # Free, constraint |-> constraint,
     blockSize |-> [tag |-> 2, data |-> 4],
     space |-> [reduced |-> reduced, user |-> user]]

\* One cell: a memory with a trade-off to explore, with and without limits.
Explore ==
    {Config(1, FALSE, FALSE, c, SpaceDef(<<>>, One, One),
            SpaceDef(<<Org(1, 1), Org(1, 8), Org(1, 2)>>, Two, Around)) :
        c \in {Free, [Free EXCEPT !["lat"] = 0], [Free EXCEPT !["lat"] = 1, !["en"] = 0]}}

\* Two cells of a cache, also with limits and with a cell for the tags.
Sweep ==
    {Config(2, TRUE, different, c,
            SpaceDef(<<Org(1, 1), Org(1, 4)>>, One, One),
            SpaceDef(<<Org(1, 1)>>, Chosen, Two)) :
        different \in BOOLEAN, c \in {Free, [Free EXCEPT !["lat"] = 0]}}

\* A stacked cache: the tag search leaves the TSV tables of its last
\* organisation behind.
Stacked ==
    {Config(1, TRUE, FALSE, Free,
            SpaceDef(<<Org(1, 1), Org(2, 1)>>, One, One),
            SpaceDef(<<Org(2, 1), Org(4, 1)>>, One, One))}

\* A stacked memory, which has no tag search.
StackedMemory ==
    {Config(1, FALSE, FALSE, Free, SpaceDef(<<>>, One, One),
            SpaceDef(<<Org(2, 1), Org(4, 1)>>, One, One))}

\* The ways to exit(-1): a second cell that is rejected, a tag or a data
\* organisation without the capacity.
Fatal ==
    LET Cells(rejected, tag, data) ==
            [Config(2, TRUE, FALSE, Free, SpaceDef(<<tag>>, One, One),
                    SpaceDef(<<data>>, One, One)) EXCEPT !.rejected = rejected] IN
    {Cells({2}, Org(1, 1), Org(1, 1)), Cells({}, Inexact, Org(1, 1)),
     Cells({}, Org(1, 1), Inexact)}

AllConfigs == Explore \cup Sweep \cup Stacked \cup Fatal

Bank(lat, en, invalid) == [lat |-> lat, en |-> en, invalid |-> invalid]
Outcome5 == {Bank(1, 3, FALSE), Bank(3, 1, FALSE), Bank(2, 2, FALSE),
             Bank(1, 1, TRUE), Bank(invalid_value, invalid_value, TRUE)}
=============================================================================

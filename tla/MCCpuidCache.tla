----------------------------- MODULE MCCpuidCache -----------------------------
(***************************************************************************)
(* TLC instances of CpuidCache.  Function numbers stand for: 0, 1 and 7    *)
(* themselves; 6 a host leaf; 11 leaf 0xB; 12 leaf 0x40000000; 13 leaf     *)
(* 0x80000007; 14 an ambiguous leaf, 2 a stateful one.                     *)
(***************************************************************************)
EXTENDS CpuidCache

Plain(f) == [function |-> f, index |-> 0, indexed |-> FALSE, stateful |-> FALSE]
Sub(f, i) == [function |-> f, index |-> i, indexed |-> TRUE, stateful |-> FALSE]
Stateful(f) == [function |-> f, index |-> 0, indexed |-> FALSE, stateful |-> TRUE]

NoCpuid == [entries |-> <<>>, basic |-> {}, beyond |-> {}, maxBasic |-> 0]

\* A guest with its hypervisor leaves hidden, topology its highest leaf.
Hidden == [entries |-> <<Plain(0), Plain(1), Sub(7, 0), Sub(11, 0), Sub(11, 1)>>,
           basic |-> {0, 1, 2, 6, 7, 11}, beyond |-> {12, 13, 14}, maxBasic |-> 11]

\* One with a duplicate, an ambiguous and a stateful leaf.
Odd == [entries |-> <<Plain(0), Sub(7, 0), Sub(7, 0), Plain(14), Sub(14, 1),
                      Stateful(2), Plain(13), Plain(6)>>,
        basic |-> {0, 1, 2, 6, 7}, beyond |-> {12}, maxBasic |-> 7]

MCModels == {NoCpuid, Hidden, Odd}

\* Two functions and two subleaves share a home.
MCHome == [k \in Functions \X Indexes |-> (k[1] + 3 * k[2]) % Size]

MCQueries == << [function |-> 11, index |-> 1, indexed |-> TRUE],
                [function |-> 12, index |-> 0, indexed |-> FALSE] >>
=============================================================================

---------------------------- MODULE MCConfigTree ----------------------------
(* Two configurables, one at a section the other's section lies under, and  *)
(* all calls of up to four in a row.                                        *)
EXTENDS ConfigTree

CONSTANTS table, plugin

MCHolderPath == [o \in {table, plugin} |-> IF o = plugin THEN <<"a">> ELSE <<"a", "b">>]

MCSetPaths == {<<"a">>, <<"b", "a">>, <<"a", "b", "a">>}

\* Of one length, so that no merge makes the tree deeper than the three names
\* that a holder's value or a set path has
MCSections == {<<"a">>, <<"b">>}
=============================================================================

------------------------------- MODULE MCPaging -------------------------------
(***************************************************************************)
(* Small instances of Paging: answers of up to four rows, the exact and    *)
(* the text rows of a search overlapping, a row as large as the budget,    *)
(* and one that is larger; a definition that changes with its place kept,  *)
(* moves, or gets a namesake.                                              *)
(***************************************************************************)
EXTENDS Paging

MCScope == {"search", "callees", "semantic", "map"}

Long  == [exact |-> <<"a", "b">>, text |-> <<"c", "b", "d">>, callees |-> <<"a", "c", "d">>]
Short == [exact |-> <<>>, text |-> <<"b", "a">>, callees |-> <<"a", "x">>]

Of(rows, ids) == [exact |-> rows.exact, text |-> rows.text, callees |-> rows.callees,
                  definitions |-> ids]

MCFacts == {Of(Long, {"n1"}), Of(Short, {"n1"}), Of(Short, {"n2"}), Of(Long, {"n1", "n2"})}

MCSemantic == {<<>>, <<"a", "b", "d">>}

MCSize == [a |-> 1, b |-> 1, c |-> 2, d |-> 3, x |-> 4]

=============================================================================

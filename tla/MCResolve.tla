------------------------------ MODULE MCResolve ------------------------------
(* Two nested patterns and one of v2; a row of each kind and each obstacle. *)
EXTENDS Resolve

CONSTANTS a, b, hole

MCPatterns == {<<a>>, <<a, b>>, <<a, hole>>}
MCPaths == {<<a>>, <<a, b>>, <<a, b, b>>, <<a, Empty, b>>, <<b, a>>}
MCRequired == [p \in {<<a>>} |-> {"y"}]

MCStem == [h \in Holes |-> b]

Plain == [kind |-> "static", target |-> <<>>, visibility |-> "public", owner |-> "email",
          expired |-> FALSE, unsafe |-> {}]
Two == [Plain EXCEPT !.kind = "dynamic", !.target = <<<<"{", "x">>, <<"[", "y">>, <<"{", "y">>>>]
MCRows == {Plain, [Plain EXCEPT !.visibility = "team"], Two,
           [Two EXCEPT !.kind = "user-dynamic", !.visibility = "private", !.owner = "address",
                       !.unsafe = {<<b, b>>}],
           [Two EXCEPT !.target = <<<<"{", "x">>>>, !.expired = TRUE],
           [kind |-> "upstream", unsafe |-> {<<>>}]}

===============================================================================

------------------------------ MODULE MCStub ------------------------------
(* Values for Stub: no two words that matter are equal, so that whatever   *)
(* ends up in the wrong place is seen.                                     *)
EXTENDS Stub

Names == {"zero", "one", "ones", "a1", "a2", "a3", "a4", "a5", "a6", "b1", "b2", "b3",
          "b4", "b5", "b6", "done", "error", "node", "inode", "left", "stack"}

MCWord == Names \X {0, 1}
MCZero == <<"zero", 0>>
MCOne  == <<"one", 0>>

MCErrors    == {<<<<"error", 0>>, <<"ones", 0>>>>}
MCResults   == MCErrors \cup {<<<<"done", 0>>, MCZero>>}
MCNodes     == {AddressOf("node"), AddressOf("inode")}
MCArguments == {[i \in 1 .. 6 |-> AddressOf(names[i])] :
                  names \in {<<"a1", "a2", "a3", "a4", "a5", "a6">>,
                             <<"b1", "b2", "b3", "b4", "b5", "b6">>}}
MCLeftovers == {[i \in 1 .. 6 |-> AddressOf("left")]}
MCStacks    == {[k \in 1 .. 21 |-> <<"stack", 0>>]}

=============================================================================

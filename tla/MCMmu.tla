-------------------------------- MODULE MCMmu --------------------------------
(* Instance of Mmu for TLC: page numbers of two bits, so that the tables are a *)
(* root in page 0 and a second level in page 1, page 2 (aligned, so it can be  *)
(* a superpage) and page 3, which no memory answers.                           *)
EXTENDS Mmu

Leaf(flags, p) == [flags |-> flags \cup {"V"}, ppn |-> p]
MCPtes == {
    [flags |-> {}, ppn |-> 0],          \* not valid
    Leaf({}, 1),                        \* pointer to the second level
    Leaf({"R", "W", "U"}, 2),           \* user data
    Leaf({"R", "X"}, 0)}                \* kernel text
MCSlots == {<<0, 0>>, <<0, 1>>, <<1, 0>>}
MCContexts == {
    [prv |-> PRV_U, mprv |-> FALSE, mpp |-> 0, sum |-> FALSE, mxr |-> FALSE],
    [prv |-> PRV_S, mprv |-> FALSE, mpp |-> 0, sum |-> TRUE, mxr |-> FALSE],
    [prv |-> PRV_M, mprv |-> TRUE, mpp |-> PRV_S, sum |-> FALSE, mxr |-> TRUE]}
==============================================================================

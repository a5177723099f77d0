--------------------------- MODULE MCPipeChannel ----------------------------
(* Instances of PipeChannel for TLC. *)
EXTENDS PipeChannel, TLC

CONSTANTS parent, a, b

Family == {parent, a, b}
Everyone == {parent, a}
GreetOnly == [main |-> 1, worker |-> 0]
FlushAndHarvest == [main |-> 2, worker |-> 1]
FlushOnly == [main |-> 2, worker |-> 0]
BothFlush == (a :> FlushOnly) @@ (b :> FlushOnly)
OneAndAnother == (a :> FlushAndHarvest) @@ (b :> GreetOnly)
OnlyParent == {parent}
=============================================================================

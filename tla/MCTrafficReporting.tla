------------------------- MODULE MCTrafficReporting -------------------------
(* One server with two nodes that both serve user 1 (so that a charge      *)
(* merges two keys), or with one node and two users.                       *)
EXTENDS TrafficReporting

CONSTANTS n1, n2

TwoNodes == <<<<n1, 1>>, <<n2, 1>>>>
TwoUsers == <<<<n1, 1>>, <<n1, 2>>>>
OneAndAHalf == {<<3, 2>>}
EveryNode == {Nodes}
EveryKey == {Keys}
WithOrWithoutN2 == {Nodes, {n1}}
User1OnN1OrAll == {{<<n1, 1>>}, Keys}
TwoRates == {<<1, 2>>, <<3, 2>>}
=============================================================================

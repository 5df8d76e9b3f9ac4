------------------------------ MODULE MCGateway ------------------------------
(* Two devices; one needs one token, the other two.                          *)
EXTENDS Gateway

CONSTANTS pc1, pc2

TwoLegs == [d \in Devices |-> IF d = pc2 THEN 2 ELSE 1]
=============================================================================

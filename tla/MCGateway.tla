----------------------------- MODULE MCGateway ------------------------------
(* A budget that one request uses up. *)
EXTENDS Gateway

MCLimit == [t \in Budgeted |-> 1]
=============================================================================

-------------------------- MODULE MCMessageDelivery --------------------------
EXTENDS MessageDelivery, TLC

CONSTANTS a, b

SendsTwo == (a :> 2) @@ (b :> 0)
=============================================================================

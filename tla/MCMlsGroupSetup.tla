--------------------------- MODULE MCMlsGroupSetup ---------------------------
EXTENDS MlsGroupSetup, TLC

CONSTANTS a, b

OneEach == [u \in Users |-> 1]
TwoAndOne == (a :> 2) @@ (b :> 1)
=============================================================================

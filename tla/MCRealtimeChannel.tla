------------------------- MODULE MCRealtimeChannel -------------------------
(* RealtimeChannel for TLC: whose devices they are and where their sockets go. *)
EXTENDS RealtimeChannel, TLC
CONSTANTS alice, bob, d1, d2, s1, s2, s3, i1, i2, f1

TwoUsers == d1 :> alice @@ d2 :> bob
Twice == d1 :> 2
OnceEach == [d \in Devices |-> 1]
OneUser == [d \in Devices |-> alice]
AllOne == [s \in Sockets |-> d1]
Apart == [s \in Sockets |-> IF s = s3 THEN i2 ELSE i1]
OnOne == [s \in Sockets |-> i1]
FirstOwnsTwo == [s \in Sockets |-> IF s = s3 THEN d2 ELSE d1]
=============================================================================

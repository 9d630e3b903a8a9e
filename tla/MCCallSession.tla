---------------------------- MODULE MCCallSession ----------------------------
EXTENDS CallSession, TLC

CONSTANTS a, b, c, a1, b1, b2, c1, ab, ac

OwnerOf == [d \in Devices |-> IF d = a1 THEN a ELSE IF d = c1 THEN c ELSE b]
MembersOf == [k \in Conversations |-> IF k = ab THEN {a, b} ELSE {a, c}]
OneCallEach == [d \in Devices |-> 1]
OneCaller == [d \in Devices |-> IF d = a1 THEN 2 ELSE 0]
=============================================================================

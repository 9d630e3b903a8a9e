----------------------------- MODULE MessageLog -----------------------------
(***************************************************************************)
(* What a conversation promises, free of retries, cursors and ratchets:    *)
(* the server keeps one log, every message enters it at most once and      *)
(* stays, and a device shows entries of that log and nothing else.         *)
(***************************************************************************)
EXTENDS Naturals, Sequences

CONSTANTS Users,    \* the members of the conversation
          Messages  \* every message any of them may send

VARIABLES log,      \* the accepted messages in the order of acceptance
          shown     \* shown[u]: the positions of the log that u's device holds

vars == <<log, shown>>

Accepted == {log[i] : i \in 1..Len(log)}

Init ==
    /\ log = <<>>
    /\ shown = [u \in Users |-> {}]

\* The server takes a message it has never taken before.
Accept(m) ==
    /\ m \notin Accepted
    /\ log' = Append(log, m)
    /\ UNCHANGED shown

\* u's device adds one accepted message to its history.
Show(u, i) ==
    /\ i \in 1..Len(log) \ shown[u]
    /\ shown' = [shown EXCEPT ![u] = @ \cup {i}]
    /\ UNCHANGED log

Next ==
    \/ \E m \in Messages : Accept(m)
    \/ \E u \in Users, i \in 1..Len(log) : Show(u, i)

Spec == Init /\ [][Next]_vars
=============================================================================

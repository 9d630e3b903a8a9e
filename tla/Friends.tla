----------------------------- MODULE Friends -----------------------------
(***************************************************************************)
(* Friendships and friend requests on the server, and the two screens that *)
(* show them to one user: the panel of the home page (FriendsView) and the *)
(* older page /friends.  Neither screen hears of what others do; it reads  *)
(* its three lists when it opens and after each action that succeeds.      *)
(***************************************************************************)
EXTENDS Naturals, FiniteSets

CONSTANTS People,
          Me,           \* the user of the screen
          Screens,      \* which of "panel" and "page" may be open
          MaxRequests,  \* bound: requests sent
          MaxActions,   \* bound: actions of the user
          MaxFaults     \* bound: failing calls

FriendsAssumption ==
    /\ Me \in People /\ Screens \subseteq {"panel", "page"}
    /\ MaxRequests \in Nat /\ MaxActions \in Nat /\ MaxFaults \in Nat

VARIABLES
    \* the server
    friends,     \* the table's rows, one per direction
    requests,    \* the table's rows
    asking,      \* rows of send_friend_request past the check for a friendship
    sending,     \* those past the check for an open request too
    \* the screen
    screen,
    shown,       \* the three lists
    loading,     \* the page's; the panel shows what it has
    loads,       \* runs of loadData, with what has come so far
    calls,       \* actions under way
    \* history
    sent,        \* requests sent
    crossed,     \* rows on their way when another of the pair was inserted or accepted
    done,        \* ids the user has dealt with
    parted,      \* people the user has removed, until they are friends again
    last,        \* the last load that started, and the last that was shown
    disturbed,   \* a call failed, or loads were shown out of order
    actions, faults

serverVars == <<friends, requests, asking, sending, sent, crossed>>
listVars == <<shown, loading, loads, last, disturbed>>
vars == <<serverVars, screen, listVars, calls, done, parted, actions, faults>>

Lists == {"friends", "incoming", "outgoing"}
Pair(r) == {r.from, r.to}
Pending(a, b) == \E r \in requests : r.status = "pending" /\ Pair(r) = {a, b}

\* get_friends and the two lists of requests
Read(l) ==
    CASE l = "friends" -> {b \in People : <<Me, b>> \in friends}
      [] l = "incoming" -> {r \in requests : r.status = "pending" /\ r.to = Me}
      [] l = "outgoing" -> {r \in requests : r.status = "pending" /\ r.from = Me}

Nothing == [l \in Lists |-> {}]
Load(n) == [n |-> n, need |-> Lists, got |-> Nothing]

Init ==
    /\ friends = {} /\ requests = {} /\ asking = {} /\ sending = {}
    /\ screen \in Screens /\ shown = Nothing
    /\ loading = TRUE /\ loads = {Load(1)} /\ calls = {}
    /\ sent = 0 /\ crossed = {}
    /\ done = {} /\ parted = {} /\ last = [started |-> 1, shown |-> 0]
    /\ disturbed = FALSE /\ actions = 0 /\ faults = 0

Fails == faults < MaxFaults /\ faults' = faults + 1

----------------------------------------------------------------------------
(***************************************************************************)
(* The server's handlers.  "ok" is their answer.                           *)
(***************************************************************************)
\* Mutation: only requests in the same direction count.
PendingOneWay(a, b) == \E r \in requests : r.status = "pending" /\ r.from = a /\ r.to = b
\* "A friend request already exists between you and this user"
AlreadyAsked(a, b) == Pending(a, b)

MayAsk(a, b) == a # b /\ <<a, b>> \notin friends

\* send_friend_request is three queries.  (An unknown name is answered like a
\* success and changes nothing.)  First the friendship,
CheckFriend(a, b) ==
    /\ MayAsk(a, b) /\ sent < MaxRequests
    /\ sent' = sent + 1
    /\ asking' = asking \cup {[id |-> sent', from |-> a, to |-> b, status |-> "pending"]}
    /\ UNCHANGED <<friends, requests, sending, crossed>>

\* then an open request, which refuses,
CheckRequest(r) ==
    /\ asking' = asking \ {r}
    /\ sending' = sending \cup {q \in {r} : ~AlreadyAsked(r.from, r.to)}
    /\ UNCHANGED <<friends, requests, sent, crossed>>

\* Those of the pair on their way to whom the table changes behind their checks.
OnTheirWay(r) == {q \in asking \cup sending : q # r /\ Pair(q) = Pair(r)}

\* then the INSERT.
InsertRequest(r) ==
    /\ sending' = sending \ {r}
    /\ requests' = requests \cup {r}
    /\ crossed' = crossed \cup OnTheirWay(r)
    /\ UNCHANGED <<friends, asking, sent>>

Row(id) == {r \in requests : r.id = id}
Marked(id, status) == (requests \ Row(id)) \cup {[r EXCEPT !.status = status] : r \in Row(id)}

\* a pending request of theirs
Open(id, by) == {r \in Row(id) : r.to = by /\ r.status = "pending"}

\* accept_friend_request, one transaction
Accept(id, by) ==
    \E r \in Open(id, by) :
        /\ requests' = Marked(id, "accepted")
        /\ friends' = friends \cup {<<r.from, r.to>>, <<r.to, r.from>>}
        /\ crossed' = crossed \cup OnTheirWay(r)
        /\ UNCHANGED <<asking, sending, sent>>

\* decline_friend_request: whatever the status is; no row is a success too.
Decline(id, by) ==
    /\ requests' = IF \E r \in Row(id) : r.to = by THEN Marked(id, "declined") ELSE requests
    /\ UNCHANGED <<friends, asking, sending, sent, crossed>>

\* cancel_friend_request: whatever the status is.
Cancel(id, by) ==
    /\ requests' = {r \in requests : ~(r.id = id /\ r.from = by)}
    /\ UNCHANGED <<friends, asking, sending, sent, crossed>>

Remove(a, b) ==
    /\ friends' = friends \ {<<a, b>>, <<b, a>>}
    /\ UNCHANGED <<requests, asking, sending, sent, crossed>>

----------------------------------------------------------------------------
(***************************************************************************)
(* Everybody else, on whatever they see                                    *)
(***************************************************************************)
StillParted == parted' = {b \in parted : <<Me, b>> \notin friends'}
ScreenUnchanged == UNCHANGED <<screen, listVars, calls, done, actions, faults>>

OthersAsk(a, b) == a # Me /\ CheckFriend(a, b) /\ UNCHANGED parted /\ ScreenUnchanged
OthersCheck(r) == r.from # Me /\ CheckRequest(r) /\ UNCHANGED parted /\ ScreenUnchanged
OthersInsert(r) == r.from # Me /\ InsertRequest(r) /\ UNCHANGED parted /\ ScreenUnchanged
OthersAnswer(a) ==
    /\ a # Me
    /\ \E r \in requests :
          \/ r.to = a /\ (Accept(r.id, a) \/ Decline(r.id, a))
          \/ r.from = a /\ Cancel(r.id, a)
    /\ StillParted /\ ScreenUnchanged
OthersRemove(a, b) == a # Me /\ <<a, b>> \in friends /\ Remove(a, b) /\ StillParted /\ ScreenUnchanged

----------------------------------------------------------------------------
(***************************************************************************)
(* loadData                                                                *)
(***************************************************************************)
\* The three requests are answered one by one, and shown together.
LoadAnswers(j, l) ==
    /\ l \in j.need
    /\ loads' = (loads \ {j}) \cup {[j EXCEPT !.need = @ \ {l}, !.got[l] = Read(l)]}
    /\ UNCHANGED <<serverVars, screen, shown, loading, last, disturbed, calls, done, parted>>
    /\ UNCHANGED <<actions, faults>>

LoadShows(j) ==
    /\ j.need = {}
    /\ loads' = loads \ {j}
    /\ shown' = j.got /\ loading' = FALSE
    /\ last' = [last EXCEPT !.shown = j.n]
    /\ disturbed' = (disturbed \/ j.n < last.shown)
    /\ UNCHANGED <<serverVars, screen, calls, done, parted, actions, faults>>

\* Promise.all fails with the first that fails.
LoadFails(j) ==
    /\ Fails
    /\ loads' = loads \ {j} /\ loading' = FALSE /\ disturbed' = TRUE
    /\ UNCHANGED <<serverVars, screen, shown, last, calls, done, parted, actions>>

\* Mutation: what an action has changed is left as it was on the screen.
KeepLists == UNCHANGED <<loads, loading, last>>
\* onSuccess
LoadData ==
    /\ last' = [last EXCEPT !.started = @ + 1]
    /\ loads' = loads \cup {Load(last'.started)}
    /\ loading' = TRUE

----------------------------------------------------------------------------
(***************************************************************************)
(* The user's actions                                                      *)
(***************************************************************************)
OnPanel == screen = "panel"
OnPage == screen = "page" /\ ~loading

Requests == {"accept", "decline", "cancel"}
Under(kinds) == \E k \in calls : k.kind \in kinds
ActionLoading == Under(Requests)

Calls(kind, about) ==
    /\ actions < MaxActions /\ actions' = actions + 1
    /\ calls' = calls \cup {[kind |-> kind, about |-> about, at |-> "call"]}
    /\ UNCHANGED <<serverVars, screen, listVars, done, parted, faults>>

\* The buttons of a row; actionLoading disables them all.
HandleAction ==
    /\ ~ActionLoading
    /\ \/ \E r \in shown["incoming"] : Calls("accept", r.id) \/ Calls("decline", r.id)
       \/ \E r \in shown["outgoing"] : Calls("cancel", r.id)

\* The panel asks first, and shows that it is removing.
PanelRemove == ~Under({"remove"}) /\ \E b \in shown["friends"] : Calls("remove", b)
PanelSend == ~Under({"send"}) /\ \E b \in People : Calls("send", b)
PageRemove == ~ActionLoading /\ \E b \in shown["friends"] : Calls("remove", b)
\* Enter sends also while the button is disabled.
PageSend == \E b \in People : Calls("send", b)

\* The server's part of a call, which ends it or takes it to its answer.
Goes(k, at) == calls' = (calls \ {k}) \cup {[k EXCEPT !.at = at]}
Effect(k) ==
    \/ k.kind = "accept" /\ Accept(k.about, Me)
    \/ k.kind = "decline" /\ Decline(k.about, Me)
    \/ k.kind = "cancel" /\ Cancel(k.about, Me)
    \/ k.kind = "remove" /\ Remove(Me, k.about)

CallActs(k) ==
    /\ k.at = "call" /\ k.kind # "send"
    /\ Effect(k) /\ Goes(k, "succeeded")
    /\ done' = IF k.kind \in Requests THEN done \cup {k.about} ELSE done
    /\ parted' = {b \in parted \cup (IF k.kind = "remove" THEN {k.about} ELSE {}) :
                    <<Me, b>> \notin friends'}
    /\ UNCHANGED <<screen, listVars, actions, faults>>

CallAsks(k) ==
    /\ k.at = "call" /\ k.kind = "send"
    /\ CheckFriend(Me, k.about)
    /\ Goes(k, "asking")
    /\ UNCHANGED <<screen, listVars, done, parted, actions, faults>>

CallChecks(k) ==
    /\ k.at = "asking" /\ ~AlreadyAsked(Me, k.about)
    /\ \E r \in asking : r.from = Me /\ r.to = k.about /\ CheckRequest(r)
    /\ Goes(k, "insert")
    /\ UNCHANGED <<screen, listVars, done, parted, actions, faults>>

CallInserts(k) ==
    /\ k.at = "insert"
    /\ \E r \in sending : r.from = Me /\ r.to = k.about /\ InsertRequest(r)
    /\ Goes(k, "succeeded")
    /\ UNCHANGED <<screen, listVars, done, parted, actions, faults>>

\* The server says no (the request is gone, they are friends, one is pending).
CallRefused(k) ==
    /\ \/ /\ k.at = "call"
          /\ \/ k.kind = "accept" /\ Open(k.about, Me) = {}
             \/ k.kind = "send" /\ ~MayAsk(Me, k.about)
          /\ UNCHANGED serverVars
       \/ /\ k.at = "asking" /\ AlreadyAsked(Me, k.about)
          /\ \E r \in asking : r.from = Me /\ r.to = k.about /\ CheckRequest(r)
    /\ calls' = calls \ {k}
    /\ UNCHANGED <<screen, listVars, done, parted, actions, faults>>

\* The request or its answer is lost; the lists stay.
CallFails(k) ==
    /\ k.at \in {"call", "succeeded"} /\ Fails
    /\ calls' = calls \ {k} /\ disturbed' = TRUE
    /\ UNCHANGED <<serverVars, screen, shown, loading, loads, last, done, parted, actions>>

CallSucceeds(k) ==
    /\ k.at = "succeeded"
    /\ calls' = calls \ {k}
    /\ LoadData
    /\ UNCHANGED <<serverVars, screen, shown, disturbed, done, parted, actions, faults>>

FriendAction(k) ==
    \/ CallActs(k) \/ CallAsks(k) \/ CallChecks(k) \/ CallInserts(k)
    \/ CallRefused(k) \/ CallFails(k) \/ CallSucceeds(k)

----------------------------------------------------------------------------
LoadStep(j) == (\E l \in Lists : LoadAnswers(j, l)) \/ LoadShows(j) \/ LoadFails(j)
Panel == OnPanel /\ (HandleAction \/ PanelRemove \/ PanelSend)
Page == OnPage /\ (HandleAction \/ PageRemove \/ PageSend)

Next ==
    \/ \E a, b \in People : OthersAsk(a, b) \/ OthersRemove(a, b)
    \/ \E a \in People : OthersAnswer(a)
    \/ \E r \in asking : OthersCheck(r)
    \/ \E r \in sending : OthersInsert(r)
    \/ \E j \in loads : LoadStep(j)
    \/ Panel \/ Page
    \/ \E k \in calls : FriendAction(k)

Spec == Init /\ [][Next]_vars

----------------------------------------------------------------------------
Request == [id : Nat, from : People, to : People, status : {"pending", "accepted", "declined"}]

TypeOK ==
    /\ friends \subseteq People \X People
    /\ requests \subseteq Request /\ asking \cup sending \subseteq Request
    /\ screen \in {"panel", "page"} /\ loading \in BOOLEAN
    /\ DOMAIN shown = Lists /\ shown["friends"] \subseteq People
    /\ shown["incoming"] \subseteq Request /\ shown["outgoing"] \subseteq Request
    /\ \A j \in loads : j.n \in Nat /\ j.need \subseteq Lists /\ DOMAIN j.got = Lists
    /\ \A k \in calls : /\ k.kind \in Requests \cup {"remove", "send"}
                        /\ k.at \in {"call", "asking", "insert", "succeeded"}
    /\ disturbed \in BOOLEAN
    /\ crossed \subseteq Request /\ parted \subseteq People
    /\ done \subseteq Nat /\ sent \in Nat /\ actions \in Nat /\ faults \in Nat

\* Of two open requests between two people one was on its way when the table
\* changed behind its checks: another of the pair was inserted, or accepted,
\* before its own INSERT.  Nor are friends left with an open request between them
\* unless such a one was sent.  A request that nothing crossed is never one too
\* many.  (friends.rs:135-171, two queries and an INSERT without a transaction.)
OneRequest ==
    \A r \in requests : r.status = "pending" =>
        /\ \A s \in requests :
              s.status = "pending" /\ Pair(s) = Pair(r) /\ s # r => {r, s} \cap crossed # {}
        /\ <<r.from, r.to>> \in friends => \E c \in crossed : Pair(c) = Pair(r)

\* Once everything has been answered, and nothing failed or came out of order,
\* the screen shows what its user did: no request he has dealt with, nobody he
\* has removed, and every request of his that is still open.
\* (useFriendActions.ts:14-15, "calls onSuccess (e.g. to refresh the request
\* list) when the command succeeds".)
OwnActionsShow ==
    loads = {} /\ calls = {} /\ ~disturbed =>
        /\ \A r \in shown["incoming"] \cup shown["outgoing"] : r.id \notin done
        /\ parted \cap shown["friends"] = {}
        /\ Read("outgoing") \subseteq shown["outgoing"]
=============================================================================

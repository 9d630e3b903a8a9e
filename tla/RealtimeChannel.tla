-------------------------- MODULE RealtimeChannel --------------------------
(***************************************************************************)
(* The WebSocket between the devices and the server: the provider that     *)
(* keeps one connection per signed-in device, and the registry, presence   *)
(* and fan-out of the server's instances, which pass frames to each other  *)
(* through Redis.  Opening a connection, serving it and taking it out of   *)
(* the registry are several steps, and the old connection of a device is   *)
(* often still being served when its new one opens.                        *)
(* One conversation stands for all; its participants never change.         *)
(***************************************************************************)
EXTENDS Naturals, Sequences, FiniteSets

CONSTANTS Users, Devices, Instances,
          Sockets,         \* names of connections; a closed one is used again
          Owner,           \* Owner[d]: whose device d is
          Dev, Inst,       \* Dev[s], Inst[s]: the device and the instance s connects
          Members,         \* the participants of the conversation
          Frames,          \* announcements, each sent once
          MaxAttempts,     \* MAX_RECONNECT_ATTEMPTS
          MaxConnections,  \* MAX_CONNECTIONS_PER_USER
          MaxSignIns,      \* bound: d signs in MaxSignIns[d] times
          MaxFaults        \* bound: lost connections, failing requests, restarts

ASSUME ChannelAssumption ==
    /\ Owner \in [Devices -> Users]
    /\ Dev \in [Sockets -> Devices]
    /\ Inst \in [Sockets -> Instances]
    /\ Members \subseteq Users
    /\ "authenticate" \notin Frames /\ "authenticated" \notin Frames
    /\ MaxAttempts \in Nat
    /\ MaxConnections \in Nat \ {0}
    /\ MaxSignIns \in [Devices -> Nat]
    /\ MaxFaults \in Nat

VARIABLES
    \* the provider of each device
    session,    \* session[d]: the back end has a session
    enabled,    \* enabled[d]: the provider's prop; intentionalCloseRef is its negation
    wsRef,      \* wsRef[d]: the provider's socket; {} is null
    attempts,   \* attempts[d]: reconnectAttemptsRef
    timer,      \* timer[d]: reconnectTimerRef is set
    trying,     \* trying[d]: runs of connect that wait for their ticket.  current:
                \* their generation is connectGenRef's
    signIns,    \* signIns[d]: how often d has signed in
    \* the connections
    fresh,      \* fresh[s]: the generation of s is connectGenRef's
    ticket,     \* ticket[s]: s was opened with a ticket
    cl,         \* cl[s]: the client's end
    sv,         \* sv[s]: how far handle_connection is
    toServer, toClient,
    \* the server
    registered, \* the connections in ConnectionRegistry.connections
    entries,    \* its keys, by instance and user
    cache,      \* cache[i]: conversation_members
    bus,        \* bus[i]: what Redis has for the subscriber of i
    deaf,       \* instances whose subscriber has ended
    presence,   \* presence[u]: the statuses of u some friend was last told.  Friends do
                \* not change; a published status is told at once
    silent,     \* connections whose friend list came out empty, the read having failed
    \* history
    caught,     \* connections that registered while their user's entry was being removed
    missed,     \* users one of whose connections was caught or cut off by a restart, or
                \* whose "offline" did not reach all friends
    sent,       \* frames sent
    seen,       \* seen[d][f]: how often d dispatched f, up to twice
    owed,       \* <<f, s>>: f was relayed when s was open and registered, nothing has failed
                \* between them since
    faults

uiVars == <<session, enabled, attempts, timer, trying, signIns>>
serverVars == <<registered, entries, cache, bus, deaf, presence, silent, caught, missed>>
frameVars == <<sent, seen, owed>>
vars == <<session, enabled, wsRef, attempts, timer, trying, signIns, fresh, ticket, cl, sv,
          toServer, toClient, registered, entries, cache, bus, deaf, presence, silent, caught,
          missed, sent, seen, owed, faults>>

Init ==
    /\ session = [d \in Devices |-> FALSE] /\ enabled = [d \in Devices |-> FALSE]
    /\ wsRef = [d \in Devices |-> {}] /\ attempts = [d \in Devices |-> 0]
    /\ timer = [d \in Devices |-> FALSE] /\ trying = [d \in Devices |-> {}]
    /\ signIns = [d \in Devices |-> 0]
    /\ fresh = [s \in Sockets |-> FALSE] /\ ticket = [s \in Sockets |-> FALSE]
    /\ cl = [s \in Sockets |-> "none"] /\ sv = [s \in Sockets |-> "none"]
    /\ toServer = [s \in Sockets |-> <<>>] /\ toClient = [s \in Sockets |-> <<>>]
    /\ registered = {} /\ entries = {}
    /\ cache = [i \in Instances |-> "unread"]
    /\ bus = [i \in Instances |-> <<>>] /\ deaf = {}
    /\ presence = [u \in Users |-> {}]
    /\ silent = {} /\ caught = {} /\ missed = {}
    /\ sent = {} /\ seen = [d \in Devices |-> [f \in Frames |-> 0]] /\ owed = {}
    /\ faults = 0

UserOf(s) == Owner[Dev[s]]

\* A step that needs something to go wrong is one of at most MaxFaults.
Costs(b) == IF b THEN faults < MaxFaults /\ faults' = faults + 1 ELSE UNCHANGED faults

(***************************************************************************)
(* The provider                                                            *)
(***************************************************************************)
Attempt == [at |-> "ticket", ticket |-> FALSE, current |-> TRUE]

\* Mutation: neither teardown nor remount touches the generation.
StillCurrent(d) == trying[d]
\* connectGenRef moves on: every run of connect there is has become stale ...
Stale(d) == {[t EXCEPT !.current = FALSE] : t \in trying[d]}
\* ... and the handlers of every socket return at once.
Superseded(d) == [s \in Sockets |-> fresh[s] /\ Dev[s] # d]

\* ws.close() on the sockets S: no event but onclose follows.
Close(S) ==
    /\ cl' = [s \in Sockets |-> IF s \in S THEN "closing" ELSE cl[s]]
    /\ toClient' = [s \in Sockets |-> IF s \in S THEN <<>> ELSE toClient[s]]

\* connect up to its first await, by a provider whose running attempts are old.
Connect(d, old) ==
    /\ trying' = [trying EXCEPT ![d] = old \cup {Attempt}]
    /\ fresh' = Superseded(d)
    /\ Close(wsRef[d])
    /\ wsRef' = [wsRef EXCEPT ![d] = {}]

\* The user signs in; the page is loaded anew and enables the provider.
SignIn(d) ==
    /\ ~session[d] /\ ~enabled[d] /\ signIns[d] < MaxSignIns[d]
    /\ signIns' = [signIns EXCEPT ![d] = @ + 1]
    /\ session' = [session EXCEPT ![d] = TRUE]
    /\ enabled' = [enabled EXCEPT ![d] = TRUE]
    /\ attempts' = [attempts EXCEPT ![d] = 0]
    /\ Connect(d, {})
    /\ UNCHANGED <<timer, ticket, sv, toServer, faults>> /\ UNCHANGED <<serverVars, frameVars>>

\* The back end clears the session before the provider hears of it.
SignOut(d) ==
    /\ session[d] /\ enabled[d]
    /\ session' = [session EXCEPT ![d] = FALSE]
    /\ UNCHANGED <<signIns, enabled, wsRef, attempts, timer, trying, fresh, ticket, cl, sv, toServer,
                   toClient, faults>>
    /\ UNCHANGED <<serverVars, frameVars>>

\* The effect's clean-up, then its run with enabled = false.
Disable(d) ==
    /\ ~session[d] /\ enabled[d]
    /\ enabled' = [enabled EXCEPT ![d] = FALSE]
    /\ trying' = [trying EXCEPT ![d] = Stale(d)]
    /\ fresh' = Superseded(d)
    /\ timer' = [timer EXCEPT ![d] = FALSE]
    /\ Close(wsRef[d])
    /\ wsRef' = [wsRef EXCEPT ![d] = {}]
    /\ UNCHANGED <<signIns, session, attempts, ticket, sv, toServer, faults>>
    /\ UNCHANGED <<serverVars, frameVars>>

\* StrictMode runs the effect twice: clean-up and connect again, which the
\* bound counts as a disturbance.
Remount(d) ==
    /\ enabled[d]
    /\ Costs(TRUE)
    /\ attempts' = [attempts EXCEPT ![d] = 0]
    /\ timer' = [timer EXCEPT ![d] = FALSE]
    /\ Connect(d, Stale(d))
    /\ UNCHANGED <<signIns, session, enabled, ticket, sv, toServer>> /\ UNCHANGED <<serverVars, frameVars>>

\* Mutation: a provider that has tried again once waits for nothing.
ScheduleOnce(d) ==
    IF enabled[d] /\ attempts[d] = 0
    THEN /\ attempts' = [attempts EXCEPT ![d] = @ + 1]
         /\ timer' = [timer EXCEPT ![d] = TRUE]
    ELSE UNCHANGED <<attempts, timer>>
\* scheduleReconnect
Schedule(d) ==
    IF enabled[d] /\ attempts[d] < MaxAttempts
    THEN /\ attempts' = [attempts EXCEPT ![d] = @ + 1]
         /\ timer' = [timer EXCEPT ![d] = TRUE]
    ELSE UNCHANGED <<attempts, timer>>

TimerFires(d) ==
    /\ timer[d]
    /\ timer' = [timer EXCEPT ![d] = FALSE]
    /\ Connect(d, Stale(d))
    /\ UNCHANGED <<signIns, session, enabled, attempts, ticket, sv, toServer, faults>>
    /\ UNCHANGED <<serverVars, frameVars>>

\* get_ws_ticket answers, with a ticket or (no session, a failing request) with none.
TicketAnswered(d, t) ==
    /\ t \in trying[d] /\ t.at = "ticket"
    /\ \E got \in BOOLEAN :
          /\ got => session[d]
          /\ Costs(session[d] /\ ~got)
          /\ trying' = [trying EXCEPT ![d] =
                            (@ \ {t}) \cup {[t EXCEPT !.at = "open", !.ticket = got]}]
    /\ UNCHANGED <<signIns, session, enabled, wsRef, attempts, timer, fresh, ticket, cl, sv, toServer,
                   toClient>>
    /\ UNCHANGED <<serverVars, frameVars>>

\* Mutation: the generation is not looked at after the await.
AnyAttempt(t) == TRUE
\* "Superseded or torn down while awaiting above": only the latest goes on.
GoesOn(t) == t.current

Drop(d, t) == trying' = [trying EXCEPT ![d] = @ \ {t}]

Unused(s) == cl[s] = "none" /\ sv[s] = "none"

OpenSocket(d, t) ==
    /\ t \in trying[d] /\ t.at = "open" /\ GoesOn(t)
    /\ \E s \in Sockets :
          /\ Dev[s] = d /\ Unused(s)
          /\ fresh' = [fresh EXCEPT ![s] = t.current]
          /\ ticket' = [ticket EXCEPT ![s] = t.ticket]
          /\ cl' = [cl EXCEPT ![s] = "connecting"]
          /\ wsRef' = [wsRef EXCEPT ![d] = {s}]
    /\ Drop(d, t)
    /\ UNCHANGED <<signIns, session, enabled, attempts, timer, sv, toServer, toClient, faults>>
    /\ UNCHANGED <<serverVars, frameVars>>

AbandonAttempt(d, t) ==
    /\ t \in trying[d] /\ t.at = "open" /\ ~GoesOn(t)
    /\ Drop(d, t)
    /\ UNCHANGED <<signIns, session, enabled, wsRef, attempts, timer, fresh, ticket, cl, sv, toServer,
                   toClient, faults>>
    /\ UNCHANGED <<serverVars, frameVars>>

\* The URL or the socket cannot be had.
AttemptFails(d, t) ==
    /\ t \in trying[d] /\ Costs(TRUE)
    /\ Drop(d, t)
    /\ IF t.current THEN Schedule(d) ELSE UNCHANGED <<attempts, timer>>
    /\ UNCHANGED <<signIns, session, enabled, wsRef, fresh, ticket, cl, sv, toServer, toClient>>
    /\ UNCHANGED <<serverVars, frameVars>>

(***************************************************************************)
(* A connection, seen from the client                                      *)
(***************************************************************************)
\* onopen without a ticket closes.
Opened(s) == IF fresh[s] /\ ~ticket[s] THEN "closing" ELSE "open"

\* The upgrade succeeds: the server runs handle_connection, onopen authenticates.
Open(s) ==
    /\ cl[s] = "connecting"
    /\ cl' = [cl EXCEPT ![s] = Opened(s)]
    /\ sv' = [sv EXCEPT ![s] = "waiting"]
    /\ toServer' = [toServer EXCEPT ![s] = IF fresh[s] /\ ticket[s] THEN <<"authenticate">>
                                                                   ELSE <<>>]
    /\ UNCHANGED <<wsRef, fresh, ticket, toClient, faults>>
    /\ UNCHANGED <<uiVars, serverVars, frameVars>>

\* onclose: after close(), after the server's end is gone, or because the
\* upgrade failed.
OnClose(s) ==
    LET d == Dev[s]  failed == cl[s] = "connecting"
    IN  /\ \/ cl[s] \in {"closing", "connecting"}
           \/ cl[s] = "open" /\ sv[s] = "none" /\ toClient[s] = <<>>
        /\ Costs(failed)
        /\ cl' = [cl EXCEPT ![s] = "none"]
        /\ IF fresh[s] THEN wsRef' = [wsRef EXCEPT ![d] = {}] /\ Schedule(d)
                       ELSE UNCHANGED <<wsRef, attempts, timer>>
        /\ fresh' = [fresh EXCEPT ![s] = FALSE]
        /\ ticket' = [ticket EXCEPT ![s] = FALSE]
        /\ owed' = {o \in owed : o[2] # s}
        /\ UNCHANGED <<signIns, session, enabled, trying, sv, toServer, toClient, sent, seen>>
        /\ UNCHANGED serverVars

\* The network drops the connection with what was in it.
Lose(s) ==
    /\ cl[s] = "open" /\ Costs(TRUE)
    /\ Close({s})
    /\ toServer' = [toServer EXCEPT ![s] = <<>>]
    /\ UNCHANGED <<wsRef, fresh, ticket, sv>> /\ UNCHANGED <<uiVars, serverVars, frameVars>>

\* sendMessage looks at the socket's readyState only.
Send(d, f) ==
    /\ f \notin sent
    /\ sent' = sent \cup {f}
    /\ \E s \in wsRef[d] : cl[s] = "open" /\ toServer' = [toServer EXCEPT ![s] = Append(@, f)]
    /\ UNCHANGED <<wsRef, fresh, ticket, cl, sv, toClient, seen, owed, faults>>
    /\ UNCHANGED <<uiVars, serverVars>>

\* onmessage; a stale socket's messages are dropped.
OnMessage(s) ==
    LET d == Dev[s]  m == Head(toClient[s])
    IN  /\ cl[s] = "open" /\ toClient[s] # <<>>
        /\ toClient' = [toClient EXCEPT ![s] = Tail(@)]
        /\ attempts' = IF fresh[s] /\ m = "authenticated" THEN [attempts EXCEPT ![d] = 0]
                                                          ELSE attempts
        /\ seen' = IF fresh[s] /\ m \in Frames /\ seen[d][m] < 2
                   THEN [seen EXCEPT ![d] = [seen[d] EXCEPT ![m] = @ + 1]]
                   ELSE seen
        /\ UNCHANGED <<signIns, session, enabled, wsRef, timer, trying, fresh, ticket, cl, sv, toServer,
                       sent, owed, faults>>
        /\ UNCHANGED serverVars

(***************************************************************************)
(* A connection, seen from the server                                      *)
(***************************************************************************)
\* The messages, with m written to those of the connections S that take it.
Written(S, m) ==
    [s \in Sockets |-> IF s \in S /\ cl[s] = "open" THEN Append(toClient[s], m) ELSE toClient[s]]

Peers(s) == {t \in registered : Inst[t] = Inst[s] /\ UserOf(t) = UserOf(s)}
Key(s) == <<Inst[s], UserOf(s)>>

\* authenticate: the ticket is redeemed and the answer queued.
Authenticate(s) ==
    /\ sv[s] = "waiting" /\ toServer[s] # <<>>
    /\ sv' = [sv EXCEPT ![s] = "redeemed"]
    /\ toClient' = Written({s}, "authenticated")
    /\ toServer' = [toServer EXCEPT ![s] = Tail(@)]
    /\ UNCHANGED <<wsRef, fresh, ticket, cl, faults>> /\ UNCHANGED <<uiVars, serverVars, frameVars>>

\* The stream ends before the ticket comes, or the ticket is too late or expired,
\* which may happen to every connection.
AuthFails(s) ==
    /\ sv[s] = "waiting"
    /\ sv' = [sv EXCEPT ![s] = "none"]
    /\ toServer' = [toServer EXCEPT ![s] = <<>>]
    /\ UNCHANGED <<wsRef, fresh, ticket, cl, toClient, faults>>
    /\ UNCHANGED <<uiVars, serverVars, frameVars>>

\* register, under the lock of the user's entry.
Register(s) ==
    /\ sv[s] = "redeemed" /\ Cardinality(Peers(s)) < MaxConnections
    /\ registered' = registered \cup {s}
    /\ entries' = entries \cup {Key(s)}
    /\ sv' = [sv EXCEPT ![s] = "announcing"]
    /\ IF \E t \in Sockets : sv[t] = "last" /\ Key(t) = Key(s)
       THEN caught' = caught \cup {s} /\ missed' = missed \cup {UserOf(s)}
       ELSE UNCHANGED <<caught, missed>>
    /\ UNCHANGED <<wsRef, fresh, ticket, cl, toServer, toClient, cache, bus, deaf, presence,
                   silent, faults>>
    /\ UNCHANGED <<uiVars, frameVars>>

\* Too many connections: the writer is aborted, maybe before it wrote anything.
Refuse(s) ==
    /\ sv[s] = "redeemed" /\ Cardinality(Peers(s)) >= MaxConnections
    /\ sv' = [sv EXCEPT ![s] = "none"]
    /\ toServer' = [toServer EXCEPT ![s] = <<>>]
    /\ \/ UNCHANGED toClient
       \/ toClient' = [toClient EXCEPT ![s] = <<>>]
    /\ UNCHANGED <<wsRef, fresh, ticket, cl, faults>> /\ UNCHANGED <<uiVars, serverVars, frameVars>>

\* broadcast_to_users and publish_to_users: the friends on this instance hear the
\* status, those elsewhere if it is published and their subscriber runs.
Everywhere(s, published) == published /\ deaf \subseteq {Inst[s]}
Announce(s, status, published) ==
    presence' = [presence EXCEPT ![UserOf(s)] =
                    IF Everywhere(s, published) THEN {status} ELSE @ \cup {status}]

\* get_friend_ids, once for both announcements of the connection, then the first
\* of them.  A failing read is an empty list, a failing publication is ignored.
AnnounceOnline(s) ==
    /\ sv[s] = "announcing"
    /\ sv' = [sv EXCEPT ![s] = "serving"]
    /\ \/ /\ silent' = silent \ {s}
          /\ \E published \in BOOLEAN :
                Announce(s, "online", published) /\ Costs(~published)
       \/ /\ Costs(TRUE)
          /\ silent' = silent \cup {s}
          /\ UNCHANGED presence
    /\ UNCHANGED <<wsRef, fresh, ticket, cl, toServer, toClient, registered, entries, cache, bus,
                   deaf, caught, missed>>
    /\ UNCHANGED <<uiVars, frameVars>>

(***************************************************************************)
(* Relaying                                                                *)
(***************************************************************************)
\* get_conversation_members: an instance reads the participants once; when the
\* read fails it keeps the empty set.
Lookup(i, c) ==
    /\ cache[i] \in {"unread", c}
    /\ cache' = [cache EXCEPT ![i] = c]
ReadFails(i, c) == cache[i] = "unread" /\ c = "nobody"
Listed(c) == IF c = "members" THEN Members ELSE {}

\* The connections of instance i that broadcast_to_conversation writes to.
Audience(i, c, sender) ==
    {t \in registered : Inst[t] = i /\ UserOf(t) \in Listed(c) \ {sender}}

\* A frame of a participant: broadcast here, published to all instances.
Relay(s) ==
    LET i == Inst[s]  u == UserOf(s)  f == Head(toServer[s])
    IN  /\ sv[s] = "serving" /\ toServer[s] # <<>>
        /\ toServer' = [toServer EXCEPT ![s] = Tail(@)]
        /\ \E c \in {"members", "nobody"}, published \in BOOLEAN :
              /\ Lookup(i, c)
              /\ Costs(~published \/ ReadFails(i, c))
              /\ IF u \in Listed(c)
                 THEN /\ toClient' = Written(Audience(i, c, u), f)
                      /\ bus' = [j \in Instances |->
                                    IF published /\ j \notin deaf
                                    THEN Append(bus[j], [origin |-> i, sender |-> u, frame |-> f])
                                    ELSE bus[j]]
                      /\ owed' = owed \cup {<<f, t>> : t \in {r \in registered :
                            /\ cl[r] = "open" /\ UserOf(r) \in Members \ {u}
                            /\ (Inst[r] # i => published /\ Inst[r] \notin deaf)}}
                 ELSE UNCHANGED <<toClient, bus, owed>>
        /\ UNCHANGED <<wsRef, fresh, ticket, cl, sv, registered, entries, deaf, presence, silent,
                       caught, missed, sent, seen>>
        /\ UNCHANGED uiVars

\* "Skip messages from this instance"
Skipped(i, m) == m.origin = i

\* Mutation: the subscriber uses the members only if they are cached.
CachedOnly(i, c) == IF cache[i] = "unread" THEN {} ELSE Listed(c)
\* Whom the subscriber of instance i sends to.
Receivers(i, c) == Listed(c)

\* spawn_subscriber
Subscriber(i) ==
    LET m == Head(bus[i])
    IN  /\ bus[i] # <<>>
        /\ bus' = [bus EXCEPT ![i] = Tail(@)]
        /\ IF Skipped(i, m)
           THEN UNCHANGED <<toClient, cache, owed, faults>>
           ELSE \E c \in {"members", "nobody"} :
                   /\ Lookup(i, c)
                   /\ Costs(ReadFails(i, c))
                   /\ toClient' = Written({t \in Audience(i, c, m.sender) :
                                               UserOf(t) \in Receivers(i, c)}, m.frame)
                   /\ owed' = IF c = "members" THEN owed
                              ELSE {o \in owed : o[1] # m.frame \/ Inst[o[2]] # i}
        /\ UNCHANGED <<wsRef, fresh, ticket, cl, sv, toServer, registered, entries, deaf, presence,
                       silent, caught, missed, sent, seen>>
        /\ UNCHANGED uiVars

\* Its connection to Redis ends, and with it the subscriber for good.
SubscriberExits(i) ==
    /\ i \notin deaf /\ Costs(TRUE)
    /\ deaf' = deaf \cup {i}
    /\ bus' = [bus EXCEPT ![i] = <<>>]
    /\ owed' = {o \in owed : Inst[o[2]] # i}
    /\ UNCHANGED <<wsRef, fresh, ticket, cl, sv, toServer, toClient, registered, entries, cache,
                   presence, silent, caught, missed, sent, seen>>
    /\ UNCHANGED uiVars

(***************************************************************************)
(* The end of a connection                                                 *)
(***************************************************************************)
\* Mutation: the own connection still counts.
WasOnly(s) == Peers(s) = {}
\* is_last, if the user has an entry at all
IsLast(s) == Key(s) \in entries /\ Peers(s) \ {s} = {}

\* The first half of unregister, under the entry's lock.
Unregister(s) ==
    /\ sv[s] = "serving" /\ cl[s] # "open" /\ toServer[s] = <<>>
    /\ registered' = registered \ {s}
    /\ sv' = [sv EXCEPT ![s] = IF IsLast(s) THEN "last" ELSE "none"]
    /\ caught' = caught \ {s}
    /\ UNCHANGED <<wsRef, fresh, ticket, cl, toServer, toClient, entries, cache, bus, deaf,
                   presence, silent, missed, faults>>
    /\ UNCHANGED <<uiVars, frameVars>>

\* Its second half: the entry goes, with whoever registered in between.
RemoveEntry(s) ==
    /\ sv[s] = "last"
    /\ registered' = registered \ Peers(s)
    /\ entries' = entries \ {Key(s)}
    /\ sv' = [sv EXCEPT ![s] = "removed"]
    /\ UNCHANGED <<wsRef, fresh, ticket, cl, toServer, toClient, cache, bus, deaf, presence,
                   silent, caught, missed, faults>>
    /\ UNCHANGED <<uiVars, frameVars>>

\* The list read when the connection opened is used again.
AnnounceOffline(s) ==
    /\ sv[s] = "removed"
    /\ sv' = [sv EXCEPT ![s] = "none"]
    /\ \/ /\ s \notin silent
          /\ \E published \in BOOLEAN :
                /\ Announce(s, "offline", published) /\ Costs(~published)
                /\ missed' = IF Everywhere(s, published) THEN missed
                             ELSE missed \cup {UserOf(s)}
       \/ /\ s \in silent
          /\ missed' = missed \cup {UserOf(s)}
          /\ UNCHANGED <<presence, faults>>
    /\ UNCHANGED <<wsRef, fresh, ticket, cl, toServer, toClient, registered, entries, cache, bus,
                   deaf, silent, caught>>
    /\ UNCHANGED <<uiVars, frameVars>>

\* An instance starts anew: its registry, cache and connections are gone.
Restart(i) ==
    LET here == {s \in Sockets : Inst[s] = i}
    IN  /\ Costs(TRUE)
        /\ sv' = [s \in Sockets |-> IF s \in here THEN "none" ELSE sv[s]]
        /\ toServer' = [s \in Sockets |-> IF s \in here THEN <<>> ELSE toServer[s]]
        /\ registered' = registered \ here
        /\ entries' = {k \in entries : k[1] # i}
        /\ cache' = [cache EXCEPT ![i] = "unread"]
        /\ bus' = [bus EXCEPT ![i] = <<>>]
        /\ owed' = {o \in owed : o[2] \notin here}
        /\ deaf' = deaf \ {i}
        /\ caught' = caught \ here
        /\ missed' = missed \cup {UserOf(s) : s \in {t \in here : sv[t] \notin {"none", "waiting"}}}
        /\ UNCHANGED <<wsRef, fresh, ticket, cl, toClient, presence, silent, sent, seen>>
        /\ UNCHANGED uiVars

(***************************************************************************)
(* The specification                                                       *)
(***************************************************************************)
UserStep ==
    \/ \E d \in Devices : SignIn(d) \/ SignOut(d) \/ Remount(d)
    \/ \E d \in Devices, f \in Frames : Send(d, f)

ProviderStep(d) ==
    \/ Disable(d) \/ TimerFires(d)
    \/ \E t \in trying[d] : TicketAnswered(d, t) \/ OpenSocket(d, t) \/ AbandonAttempt(d, t)
                              \/ AttemptFails(d, t)

ClientStep(s) == Open(s) \/ OnMessage(s) \/ OnClose(s)

ServerStep(s) ==
    \/ Authenticate(s) \/ AuthFails(s) \/ Register(s) \/ Refuse(s) \/ AnnounceOnline(s)
    \/ Relay(s) \/ Unregister(s) \/ RemoveEntry(s) \/ AnnounceOffline(s)

Next ==
    \/ UserStep
    \/ \E d \in Devices : ProviderStep(d)
    \/ \E s \in Sockets : ClientStep(s) \/ Lose(s) \/ ServerStep(s)
    \/ \E i \in Instances : Subscriber(i) \/ SubscriberExits(i) \/ Restart(i)

Spec == Init /\ [][Next]_vars

(***************************************************************************)
(* Fairness: timers fire, requests are answered, events are handled, the   *)
(* server notices that a connection has ended and its tasks go on.         *)
(***************************************************************************)
FairSpec ==
    /\ Spec
    /\ \A d \in Devices : WF_vars(ProviderStep(d))
    /\ \A s \in Sockets : WF_vars(ClientStep(s)) /\ WF_vars(ServerStep(s))
    /\ \A i \in Instances : WF_vars(Subscriber(i))

-----------------------------------------------------------------------------
Attempts == [at : {"ticket", "open"}, ticket : BOOLEAN, current : BOOLEAN]
Publications == [origin : Instances, sender : Users, frame : Frames]
Announced == {"announcing", "serving"}
Ending == {"last", "removed"}

ProviderTypes ==
    /\ session \in [Devices -> BOOLEAN] /\ enabled \in [Devices -> BOOLEAN]
    /\ wsRef \in [Devices -> SUBSET Sockets]
    /\ attempts \in [Devices -> 0..MaxAttempts] /\ timer \in [Devices -> BOOLEAN]
    /\ trying \in [Devices -> SUBSET Attempts] /\ signIns \in [Devices -> Nat]
ConnectionTypes ==
    /\ fresh \in [Sockets -> BOOLEAN] /\ ticket \in [Sockets -> BOOLEAN]
    /\ cl \in [Sockets -> {"none", "connecting", "open", "closing"}]
    /\ sv \in [Sockets -> {"none", "waiting", "redeemed"} \cup Announced \cup Ending]
    /\ toServer \in [Sockets -> Seq(Frames \cup {"authenticate"})]
    /\ toClient \in [Sockets -> Seq(Frames \cup {"authenticated"})]
ServerTypes ==
    /\ registered \subseteq Sockets /\ entries \subseteq Instances \X Users
    /\ cache \in [Instances -> {"unread", "members", "nobody"}]
    /\ bus \in [Instances -> Seq(Publications)] /\ deaf \subseteq Instances
    /\ presence \in [Users -> SUBSET {"online", "offline"}]
    /\ silent \subseteq Sockets /\ caught \subseteq Sockets /\ missed \subseteq Users
HistoryTypes ==
    /\ sent \subseteq Frames /\ seen \in [Devices -> [Frames -> 0..2]]
    /\ owed \subseteq Frames \X Sockets
    /\ faults \in 0..MaxFaults

\* The model stays in its types; attempts stay within their limit.
TypeOK == ProviderTypes /\ ConnectionTypes /\ ServerTypes /\ HistoryTypes

\* "prevents a duplicate, untracked WebSocket from leaking": whatever runs of
\* connect overlap, a socket the client has not closed is the provider's own.
NoUntrackedSocket ==
    \A s \in Sockets : cl[s] \in {"connecting", "open"} => wsRef[Dev[s]] = {s}

\* A provider that is off stays off: no timer, no socket, no run of connect
\* that would still open one, whatever was under way at the sign-out.
OffIsOff ==
    \A d \in Devices : ~enabled[d] =>
        ~timer[d] /\ wsRef[d] = {} /\ \A t \in trying[d] : ~t.current

\* A provider that is on has a socket, is getting one, waits for its timer, or
\* has used up its attempts; no failure leaves it with nothing to wait for.
KeepsTrying ==
    \A d \in Devices : enabled[d] =>
        \/ wsRef[d] # {} \/ timer[d] \/ (\E t \in trying[d] : t.current)
        \/ attempts[d] = MaxAttempts

\* The registry has just the connections that are being served; only one that
\* registered while its user's entry was being removed can be missing.
RegistryAgrees ==
    \A s \in Sockets :
        /\ s \in registered => sv[s] \in Announced
        /\ sv[s] \in Announced => s \in registered \cup caught

\* No friend goes on seeing a user online none of whose connections is left, in
\* whatever order they opened and closed, unless one was caught in a removal or cut
\* off by a restart, or "offline" did not reach all friends: the list of friends of
\* that connection had come out empty, the publication failed or a subscriber has
\* ended.
GoneIsOffline ==
    \A u \in Users \ missed : "online" \in presence[u] =>
        \E s \in Sockets : UserOf(s) = u /\ sv[s] \in Announced \cup Ending

\* "every inbound message gets dispatched twice (which scrambled
\* call-signaling ordering)": no device whose connections all go to one
\* instance dispatches a frame twice, though the server may write it to
\* several of them, stale ones too.
DispatchedOnce ==
    \A d \in Devices, f \in Frames :
        (\E i \in Instances : \A s \in Sockets : Dev[s] = d => Inst[s] = i) => seen[d][f] <= 1

\* A device signed in is served in the end, gives up after MaxAttempts, or is
\* signed out.
Served(d) == \E s \in wsRef[d] : cl[s] = "open" /\ sv[s] = "serving"
SignedInConnects ==
    \A d \in Devices :
        enabled[d] ~> (Served(d) \/ ~session[d] \/ attempts[d] = MaxAttempts)

\* A frame relayed while a connection was registered, on any instance, is
\* dispatched by its device or on its way to it, unless the connection ends or
\* is caught, or its instance fails to read, hear or stay up.
Listening(s) == cl[s] = "open" /\ fresh[s] /\ s \notin caught
OnItsWay(f, s) ==
    \/ \E k \in 1..Len(toClient[s]) : toClient[s][k] = f
    \/ \E k \in 1..Len(bus[Inst[s]]) :
          bus[Inst[s]][k].frame = f /\ bus[Inst[s]][k].origin # Inst[s]
OwedIsComing ==
    \A o \in owed : Listening(o[2]) =>
        seen[Dev[o[2]]][o[1]] > 0 \/ OnItsWay(o[1], o[2])

(***************************************************************************)
(* What comments and documents say and the code does not do                *)
(***************************************************************************)
\* "Remove a connection by matching the sender pointer" (unregister): a
\* connection leaves the registry with its own handler only.
LeavesByItself ==
    [][\A s \in Sockets : (s \in registered /\ sv[s] \in Announced /\ sv'[s] \in Announced)
            => s \in registered']_vars

\* "Broadcast offline status if this was the user's last connection".
OfflineMeansGone ==
    [][\A u \in Users : ("offline" \notin presence[u] /\ "offline" \in presence'[u])
            => \A s \in registered : UserOf(s) # u]_vars

\* The same comment: no friend is left with "online" of a user who is gone.
GoneIsTold ==
    \A u \in Users : "online" \in presence[u] =>
        \E s \in Sockets : UserOf(s) = u /\ sv[s] \in Announced \cup Ending

\* DispatchedOnce without its condition: a device that has dispatched a frame and
\* reconnects to an instance whose subscriber is behind gets it again.
DispatchedOnceAnywhere == \A d \in Devices, f \in Frames : seen[d][f] <= 1

\* A participant's frame is relayed: "fetching from DB and caching if needed".
ParticipantsListed == \A i \in Instances : cache[i] # "nobody"
=============================================================================

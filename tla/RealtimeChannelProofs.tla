------------------------ MODULE RealtimeChannelProofs ------------------------
(***************************************************************************)
(* The WebSocket of any number of users, devices, connections, instances   *)
(* and frames: the types, that a provider has one connection, attempt or   *)
(* timer at most and is never left with none of them while it has attempts *)
(* left, that the registry and the announced presence follow the           *)
(* connections being served, that no device whose connections all go to    *)
(* one instance dispatches a frame twice, and that no frame relayed to a   *)
(* connection is lost on its way without a failure.                        *)
(***************************************************************************)
EXTENDS RealtimeChannel, SequenceTheorems, TLAPS

(***************************************************************************)
(* What the server has of a connection: before the ticket is taken, the    *)
(* ticket and then frames; after it, frames only.                          *)
(***************************************************************************)
TicketFirst(q) ==
    q # <<>> => Head(q) = "authenticate" /\ Tail(q) \in Seq(Frames)
Queued(s) ==
    /\ sv[s] = "waiting" => TicketFirst(toServer[s])
    /\ sv[s] # "waiting" => toServer[s] \in Seq(Frames)
    /\ sv[s] = "waiting" /\ cl[s] = "open" => toServer[s] # <<>>
\* The server knows nothing of a connection that is being made.
Unknown(s) == cl[s] = "connecting" => sv[s] = "none"

(***************************************************************************)
(* The provider of one device and its sockets                              *)
(***************************************************************************)
OneSocket(d) ==
    /\ wsRef[d] = {} \/ \E s \in Sockets : wsRef[d] = {s} /\ Dev[s] = d
    /\ \A s \in Sockets : Dev[s] = d =>
          /\ fresh[s] <=> s \in wsRef[d]
          /\ cl[s] \in {"connecting", "open"} => fresh[s]
          /\ fresh[s] => cl[s] # "none"
OneAtATime(d) ==
    /\ \A t1, t2 \in trying[d] : t1.current /\ t2.current => t1 = t2
    /\ (timer[d] \/ \E t \in trying[d] : t.current) => wsRef[d] = {}
    /\ timer[d] => \A t \in trying[d] : ~t.current
Off(d) == ~enabled[d] => ~timer[d] /\ wsRef[d] = {} /\ \A t \in trying[d] : ~t.current
On(d) == enabled[d] => \/ wsRef[d] # {} \/ timer[d] \/ (\E t \in trying[d] : t.current)
                       \/ attempts[d] = MaxAttempts
Sound(d) == OneSocket(d) /\ OneAtATime(d) /\ Off(d) /\ On(d)

(***************************************************************************)
(* The registry                                                            *)
(***************************************************************************)
Held(s) ==
    /\ s \in registered => sv[s] \in Announced /\ Key(s) \in entries
    /\ sv[s] \in Announced => s \in registered \cup caught
    /\ s \in caught => UserOf(s) \in missed
    /\ \A t \in registered : sv[s] = "last" /\ Key(t) = Key(s) => t \in caught

ChannelInv ==
    /\ TypeOK
    /\ \A s \in Sockets : Queued(s) /\ Unknown(s)
    /\ \A d \in Devices : Sound(d)
    /\ \A s \in Sockets : Held(s)
    /\ GoneIsOffline

(***************************************************************************)
(* Types                                                                   *)
(***************************************************************************)
LEMMA CostsType ==
    ASSUME HistoryTypes, NEW b, Costs(b) PROVE faults' \in 0..MaxFaults
  BY ChannelAssumption DEF HistoryTypes, Costs

LEMMA StaleType ==
    ASSUME ProviderTypes, NEW d \in Devices
    PROVE  /\ Stale(d) \in SUBSET Attempts
           /\ \A t \in Stale(d) : ~t.current
  <1>1. trying[d] \subseteq Attempts
    BY DEF ProviderTypes
  <1>2. ASSUME NEW t \in Attempts
        PROVE  [t EXCEPT !.current = FALSE] \in Attempts /\ ~[t EXCEPT !.current = FALSE].current
    BY DEF Attempts
  <1> QED
    BY <1>1, <1>2 DEF Stale

LEMMA AttemptType == Attempt \in Attempts /\ Attempt.current
  BY DEF Attempt, Attempts

LEMMA AnsweredType ==
    ASSUME ProviderTypes, NEW d \in Devices, NEW t \in trying[d], NEW got \in BOOLEAN
    PROVE  /\ [t EXCEPT !.at = "open", !.ticket = got] \in Attempts
           /\ [t EXCEPT !.at = "open", !.ticket = got].current = t.current
  <1>1. t \in Attempts
    BY DEF ProviderTypes
  <1> DEFINE n == [t EXCEPT !.at = "open"]
  <1>2. n \in Attempts /\ n.current = t.current
    BY <1>1 DEF Attempts
  <1>3. [t EXCEPT !.at = "open", !.ticket = got] = [n EXCEPT !.ticket = got]
    OBVIOUS
  <1> HIDE DEF n
  <1>4. [n EXCEPT !.ticket = got] \in Attempts /\ [n EXCEPT !.ticket = got].current = n.current
    BY <1>2 DEF Attempts
  <1> QED
    BY <1>2, <1>3, <1>4

LEMMA CloseType ==
    ASSUME ConnectionTypes, NEW S, Close(S)
    PROVE  /\ cl' \in [Sockets -> {"none", "connecting", "open", "closing"}]
           /\ toClient' \in [Sockets -> Seq(Frames \cup {"authenticated"})]
  <1>1. <<>> \in Seq(Frames \cup {"authenticated"})
    BY EmptySeq
  <1> QED
    BY <1>1 DEF ConnectionTypes, Close

LEMMA ConnectType ==
    ASSUME ProviderTypes, ConnectionTypes, NEW d \in Devices,
           NEW old \in SUBSET Attempts, Connect(d, old)
    PROVE  /\ trying' \in [Devices -> SUBSET Attempts]
           /\ wsRef' \in [Devices -> SUBSET Sockets]
           /\ fresh' \in [Sockets -> BOOLEAN]
           /\ cl' \in [Sockets -> {"none", "connecting", "open", "closing"}]
           /\ toClient' \in [Sockets -> Seq(Frames \cup {"authenticated"})]
  <1>1. /\ cl' \in [Sockets -> {"none", "connecting", "open", "closing"}]
        /\ toClient' \in [Sockets -> Seq(Frames \cup {"authenticated"})]
    BY CloseType DEF Connect
  <1>2. fresh' \in [Sockets -> BOOLEAN]
    BY DEF Connect, Superseded, ConnectionTypes
  <1>3. {} \in SUBSET Sockets /\ old \cup {Attempt} \in SUBSET Attempts
    BY AttemptType
  <1> QED
    BY <1>1, <1>2, <1>3 DEF Connect, ProviderTypes

LEMMA ScheduleType ==
    ASSUME ProviderTypes, NEW d \in Devices, Schedule(d)
    PROVE  /\ attempts' \in [Devices -> 0..MaxAttempts]
           /\ timer' \in [Devices -> BOOLEAN]
  <1>1. attempts[d] \in 0..MaxAttempts /\ MaxAttempts \in Nat
    BY ChannelAssumption DEF ProviderTypes
  <1>2. attempts[d] < MaxAttempts => attempts[d] + 1 \in 0..MaxAttempts
    BY <1>1
  <1>3. attempts' \in [Devices -> 0..MaxAttempts]
    BY <1>2 DEF ProviderTypes, Schedule
  <1>4. timer' \in [Devices -> BOOLEAN]
    BY DEF ProviderTypes, Schedule
  <1> QED
    BY <1>3, <1>4

LEMMA WrittenType ==
    ASSUME ConnectionTypes, NEW S, NEW m \in Frames \cup {"authenticated"}
    PROVE  Written(S, m) \in [Sockets -> Seq(Frames \cup {"authenticated"})]
  <1>1. ASSUME NEW s \in Sockets
        PROVE  Append(toClient[s], m) \in Seq(Frames \cup {"authenticated"})
    BY AppendProperties DEF ConnectionTypes
  <1> QED
    BY <1>1 DEF Written, ConnectionTypes

LEMMA TailType ==
    ASSUME ConnectionTypes, NEW s \in Sockets, toServer[s] # <<>>
    PROVE  [toServer EXCEPT ![s] = Tail(@)] \in [Sockets -> Seq(Frames \cup {"authenticate"})]
  <1>1. Tail(toServer[s]) \in Seq(Frames \cup {"authenticate"})
    BY HeadTailProperties DEF ConnectionTypes
  <1> QED
    BY <1>1 DEF ConnectionTypes

LEMMA ClearedType ==
    ASSUME ConnectionTypes, NEW s \in Sockets
    PROVE  /\ [toServer EXCEPT ![s] = <<>>] \in [Sockets -> Seq(Frames \cup {"authenticate"})]
           /\ [toClient EXCEPT ![s] = <<>>] \in [Sockets -> Seq(Frames \cup {"authenticated"})]
  <1>1. <<>> \in Seq(Frames \cup {"authenticate"}) /\ <<>> \in Seq(Frames \cup {"authenticated"})
    BY EmptySeq
  <1> QED
    BY <1>1 DEF ConnectionTypes

LEMMA KeyType == ASSUME NEW s \in Sockets PROVE Key(s) \in Instances \X Users /\ UserOf(s) \in Users
  BY ChannelAssumption DEF Key, UserOf

LEMMA InitType == Init => TypeOK
  <1> SUFFICES ASSUME Init PROVE TypeOK
    OBVIOUS
  <1>1. ProviderTypes
    <2>1. {} \in SUBSET Attempts /\ {} \in SUBSET Sockets /\ 0 \in 0..MaxAttempts
      BY ChannelAssumption
    <2> QED
      BY <2>1 DEF Init, ProviderTypes
  <1>2. ConnectionTypes
    <2>1. <<>> \in Seq(Frames \cup {"authenticate"}) /\ <<>> \in Seq(Frames \cup {"authenticated"})
      BY EmptySeq
    <2> QED
      BY <2>1 DEF Init, ConnectionTypes
  <1>3. ServerTypes
    <2>1. <<>> \in Seq(Publications)
      BY EmptySeq
    <2> QED
      BY <2>1 DEF Init, ServerTypes
  <1>4. HistoryTypes
    BY ChannelAssumption DEF Init, HistoryTypes
  <1> QED
    BY <1>1, <1>2, <1>3, <1>4 DEF TypeOK

LEMMA ProviderTyped ==
    ASSUME TypeOK, [Next]_vars PROVE ProviderTypes'
  <1> USE DEF TypeOK
  <1>1. ASSUME NEW d \in Devices, SignIn(d) PROVE ProviderTypes'
    <2>1. {} \in SUBSET Attempts /\ 0 \in 0..MaxAttempts
      BY ChannelAssumption
    <2>2. trying' \in [Devices -> SUBSET Attempts] /\ wsRef' \in [Devices -> SUBSET Sockets]
      BY <1>1, <2>1, ConnectType DEF SignIn
    <2>3. signIns' \in [Devices -> Nat]
      BY <1>1 DEF SignIn, ProviderTypes
    <2>4. attempts' \in [Devices -> 0..MaxAttempts]
      BY <1>1, <2>1 DEF SignIn, ProviderTypes
    <2> QED
      BY <1>1, <2>2, <2>3, <2>4 DEF SignIn, ProviderTypes
  <1>2. ASSUME NEW d \in Devices, SignOut(d) PROVE ProviderTypes'
    BY <1>2 DEF SignOut, ProviderTypes
  <1>3. ASSUME NEW d \in Devices, Disable(d) PROVE ProviderTypes'
    BY <1>3, StaleType DEF Disable, ProviderTypes
  <1>4. ASSUME NEW d \in Devices, Remount(d) PROVE ProviderTypes'
    <2>1. 0 \in 0..MaxAttempts
      BY ChannelAssumption
    <2>2. trying' \in [Devices -> SUBSET Attempts] /\ wsRef' \in [Devices -> SUBSET Sockets]
      BY <1>4, StaleType, ConnectType DEF Remount
    <2> QED
      BY <1>4, <2>1, <2>2 DEF Remount, ProviderTypes
  <1>5. ASSUME NEW d \in Devices, TimerFires(d) PROVE ProviderTypes'
    <2>2. trying' \in [Devices -> SUBSET Attempts] /\ wsRef' \in [Devices -> SUBSET Sockets]
      BY <1>5, StaleType, ConnectType DEF TimerFires
    <2> QED
      BY <1>5, <2>2 DEF TimerFires, ProviderTypes
  <1>6. ASSUME NEW d \in Devices, NEW t \in trying[d], TicketAnswered(d, t) PROVE ProviderTypes'
    <2>1. PICK got \in BOOLEAN :
             trying' = [trying EXCEPT ![d] =
                            (@ \ {t}) \cup {[t EXCEPT !.at = "open", !.ticket = got]}]
      BY <1>6 DEF TicketAnswered
    <2>2. [t EXCEPT !.at = "open", !.ticket = got] \in Attempts
      BY AnsweredType
    <2>3. trying' \in [Devices -> SUBSET Attempts]
      BY <2>1, <2>2 DEF ProviderTypes
    <2> QED
      BY <1>6, <2>3 DEF TicketAnswered, ProviderTypes
  <1>7. ASSUME NEW d \in Devices, NEW t \in trying[d], OpenSocket(d, t) PROVE ProviderTypes'
    BY <1>7 DEF OpenSocket, Drop, ProviderTypes
  <1>8. ASSUME NEW d \in Devices, NEW t \in trying[d], AbandonAttempt(d, t) PROVE ProviderTypes'
    BY <1>8 DEF AbandonAttempt, Drop, ProviderTypes
  <1>9. ASSUME NEW d \in Devices, NEW t \in trying[d], AttemptFails(d, t) PROVE ProviderTypes'
    <2>1. attempts' \in [Devices -> 0..MaxAttempts] /\ timer' \in [Devices -> BOOLEAN]
      BY <1>9, ScheduleType DEF AttemptFails, ProviderTypes
    <2> QED
      BY <1>9, <2>1 DEF AttemptFails, Drop, ProviderTypes
  <1>10. ASSUME NEW s \in Sockets, OnClose(s) PROVE ProviderTypes'
    <2>1. Dev[s] \in Devices
      BY ChannelAssumption
    <2>2. attempts' \in [Devices -> 0..MaxAttempts] /\ timer' \in [Devices -> BOOLEAN]
      BY <1>10, <2>1, ScheduleType DEF OnClose, ProviderTypes
    <2>3. wsRef' \in [Devices -> SUBSET Sockets]
      BY <1>10 DEF OnClose, ProviderTypes
    <2> QED
      BY <1>10, <2>2, <2>3 DEF OnClose, ProviderTypes
  <1>11. ASSUME NEW s \in Sockets, OnMessage(s) PROVE ProviderTypes'
    <2>1. 0 \in 0..MaxAttempts
      BY ChannelAssumption
    <2> QED
      BY <1>11, <2>1 DEF OnMessage, ProviderTypes
  <1>12. CASE UNCHANGED <<uiVars, wsRef>>
    BY <1>12 DEF uiVars, ProviderTypes
  <1>13. ASSUME NEW s \in Sockets, Open(s) \/ Lose(s) \/ ServerStep(s) PROVE UNCHANGED <<uiVars, wsRef>>
    BY <1>13 DEF Open, Lose, ServerStep, Authenticate, AuthFails, Register, Refuse, AnnounceOnline,
                 Relay, Unregister, RemoveEntry, AnnounceOffline
  <1>14. ASSUME NEW i \in Instances, Subscriber(i) \/ SubscriberExits(i) \/ Restart(i)
         PROVE  UNCHANGED <<uiVars, wsRef>>
    BY <1>14 DEF Subscriber, SubscriberExits, Restart
  <1>15. ASSUME NEW d \in Devices, NEW f \in Frames, Send(d, f) PROVE UNCHANGED <<uiVars, wsRef>>
    BY <1>15 DEF Send
  <1>16. UNCHANGED vars => UNCHANGED <<uiVars, wsRef>>
    BY DEF vars, uiVars
  <1> QED
    BY <1>1, <1>2, <1>3, <1>4, <1>5, <1>6, <1>7, <1>8, <1>9, <1>10, <1>11, <1>12, <1>13, <1>14,
       <1>15, <1>16 DEF Next, UserStep, ProviderStep, ClientStep

\* A frame the server relays is a frame: the ticket is gone when it serves.
LEMMA RelayedType ==
    ASSUME ConnectionTypes, NEW s \in Sockets, Queued(s), sv[s] = "serving", toServer[s] # <<>>
    PROVE  Head(toServer[s]) \in Frames
  <1>1. toServer[s] \in Seq(Frames)
    BY DEF Queued
  <1> QED
    BY <1>1, HeadTailProperties

LEMMA ConnectionTyped ==
    ASSUME TypeOK, \A s \in Sockets : Queued(s), [Next]_vars PROVE ConnectionTypes'
  <1> USE DEF TypeOK
  <1>1. ASSUME NEW d \in Devices, SignIn(d) PROVE ConnectionTypes'
    <2>1. {} \in SUBSET Attempts
      OBVIOUS
    <2> QED
      BY <1>1, <2>1, ConnectType DEF SignIn, ConnectionTypes
  <1>2. ASSUME NEW d \in Devices, Disable(d) PROVE ConnectionTypes'
    <2>1. fresh' \in [Sockets -> BOOLEAN]
      BY <1>2 DEF Disable, Superseded, ConnectionTypes
    <2> QED
      BY <1>2, <2>1, CloseType DEF Disable, ConnectionTypes
  <1>3. ASSUME NEW d \in Devices, Remount(d) PROVE ConnectionTypes'
    BY <1>3, StaleType, ConnectType DEF Remount, ConnectionTypes
  <1>4. ASSUME NEW d \in Devices, TimerFires(d) PROVE ConnectionTypes'
    BY <1>4, StaleType, ConnectType DEF TimerFires, ConnectionTypes
  <1>5. ASSUME NEW d \in Devices, NEW t \in trying[d], OpenSocket(d, t) PROVE ConnectionTypes'
    <2>1. t.current \in BOOLEAN /\ t.ticket \in BOOLEAN
      BY DEF ProviderTypes, Attempts
    <2> QED
      BY <1>5, <2>1 DEF OpenSocket, ConnectionTypes
  <1>6. ASSUME NEW s \in Sockets, Open(s) PROVE ConnectionTypes'
    <2>1. Opened(s) \in {"none", "connecting", "open", "closing"}
      BY DEF Opened
    <2>2. <<"authenticate">> \in Seq(Frames \cup {"authenticate"})
          /\ <<>> \in Seq(Frames \cup {"authenticate"})
      BY EmptySeq
    <2>3. toServer' \in [Sockets -> Seq(Frames \cup {"authenticate"})]
      BY <1>6, <2>2 DEF Open, ConnectionTypes
    <2> QED
      BY <1>6, <2>1, <2>3 DEF Open, ConnectionTypes
  <1>7. ASSUME NEW s \in Sockets, OnClose(s) PROVE ConnectionTypes'
    BY <1>7 DEF OnClose, ConnectionTypes
  <1>8. ASSUME NEW s \in Sockets, Lose(s) PROVE ConnectionTypes'
    BY <1>8, CloseType, ClearedType DEF Lose, ConnectionTypes
  <1>9. ASSUME NEW d \in Devices, NEW f \in Frames, Send(d, f) PROVE ConnectionTypes'
    <2>1. PICK s \in wsRef[d] : toServer' = [toServer EXCEPT ![s] = Append(@, f)]
      BY <1>9 DEF Send
    <2>2. s \in Sockets
      BY DEF ProviderTypes
    <2>3. Append(toServer[s], f) \in Seq(Frames \cup {"authenticate"})
      BY <2>2, AppendProperties DEF ConnectionTypes
    <2> QED
      BY <1>9, <2>1, <2>2, <2>3 DEF Send, ConnectionTypes
  <1>10. ASSUME NEW s \in Sockets, OnMessage(s) PROVE ConnectionTypes'
    <2>1. Tail(toClient[s]) \in Seq(Frames \cup {"authenticated"})
      BY <1>10, HeadTailProperties DEF OnMessage, ConnectionTypes
    <2> QED
      BY <1>10, <2>1 DEF OnMessage, ConnectionTypes
  <1>11. ASSUME NEW s \in Sockets, Authenticate(s) PROVE ConnectionTypes'
    BY <1>11, TailType, WrittenType DEF Authenticate, ConnectionTypes
  <1>12. ASSUME NEW s \in Sockets, AuthFails(s) PROVE ConnectionTypes'
    BY <1>12, ClearedType DEF AuthFails, ConnectionTypes
  <1>13. ASSUME NEW s \in Sockets, Refuse(s) PROVE ConnectionTypes'
    BY <1>13, ClearedType DEF Refuse, ConnectionTypes
  <1>14. ASSUME NEW s \in Sockets, Register(s) \/ AnnounceOnline(s) PROVE ConnectionTypes'
    BY <1>14 DEF Register, AnnounceOnline, Announced, ConnectionTypes
  <1>15. ASSUME NEW s \in Sockets, Unregister(s) \/ RemoveEntry(s) \/ AnnounceOffline(s)
         PROVE  ConnectionTypes'
    BY <1>15 DEF Unregister, RemoveEntry, AnnounceOffline, Ending, ConnectionTypes
  <1>16. ASSUME NEW s \in Sockets, Relay(s) PROVE ConnectionTypes'
    <2>1. Head(toServer[s]) \in Frames
      BY <1>16, RelayedType DEF Relay
    <2>2. toClient' \in [Sockets -> Seq(Frames \cup {"authenticated"})]
      BY <1>16, <2>1, WrittenType DEF Relay, ConnectionTypes
    <2>3. toServer' \in [Sockets -> Seq(Frames \cup {"authenticate"})]
      BY <1>16, TailType DEF Relay
    <2> QED
      BY <1>16, <2>2, <2>3 DEF Relay, ConnectionTypes
  <1>17. ASSUME NEW i \in Instances, Subscriber(i) PROVE ConnectionTypes'
    <2>1. Head(bus[i]) \in Publications
      BY <1>17, HeadTailProperties DEF Subscriber, ServerTypes
    <2>2. Head(bus[i]).frame \in Frames \cup {"authenticated"}
      BY <2>1 DEF Publications
    <2>3. toClient' \in [Sockets -> Seq(Frames \cup {"authenticated"})]
      BY <1>17, <2>2, WrittenType DEF Subscriber, ConnectionTypes
    <2> QED
      BY <1>17, <2>3 DEF Subscriber, ConnectionTypes
  <1>18. ASSUME NEW i \in Instances, Restart(i) PROVE ConnectionTypes'
    <2>1. <<>> \in Seq(Frames \cup {"authenticate"})
      BY EmptySeq
    <2> QED
      BY <1>18, <2>1 DEF Restart, ConnectionTypes
  <1>19. CASE UNCHANGED <<fresh, ticket, cl, sv, toServer, toClient>>
    BY <1>19 DEF ConnectionTypes
  <1>20. ASSUME NEW d \in Devices, NEW t \in trying[d],
                TicketAnswered(d, t) \/ AbandonAttempt(d, t) \/ AttemptFails(d, t)
         PROVE  UNCHANGED <<fresh, ticket, cl, sv, toServer, toClient>>
    BY <1>20 DEF TicketAnswered, AbandonAttempt, AttemptFails
  <1>21. ASSUME NEW d \in Devices, SignOut(d)
         PROVE  UNCHANGED <<fresh, ticket, cl, sv, toServer, toClient>>
    BY <1>21 DEF SignOut
  <1>22. ASSUME NEW i \in Instances, SubscriberExits(i)
         PROVE  UNCHANGED <<fresh, ticket, cl, sv, toServer, toClient>>
    BY <1>22 DEF SubscriberExits
  <1>23. UNCHANGED vars => UNCHANGED <<fresh, ticket, cl, sv, toServer, toClient>>
    BY DEF vars
  <1> QED
    BY <1>1, <1>2, <1>3, <1>4, <1>5, <1>6, <1>7, <1>8, <1>9, <1>10, <1>11, <1>12, <1>13, <1>14,
       <1>15, <1>16, <1>17, <1>18, <1>19, <1>20, <1>21, <1>22, <1>23
       DEF Next, UserStep, ProviderStep, ClientStep, ServerStep

LEMMA ServerTyped ==
    ASSUME TypeOK, \A s \in Sockets : Queued(s), [Next]_vars PROVE ServerTypes'
  <1> USE DEF TypeOK
  <1>1. ASSUME NEW s \in Sockets, Register(s) PROVE ServerTypes'
    BY <1>1, KeyType DEF Register, ServerTypes
  <1>2. ASSUME NEW s \in Sockets, AnnounceOnline(s) \/ AnnounceOffline(s) PROVE ServerTypes'
    <2>1. UserOf(s) \in Users
      BY KeyType
    <2>2. presence' \in [Users -> SUBSET {"online", "offline"}]
      <3>1. ASSUME NEW x \in {"online", "offline"}, NEW p \in BOOLEAN, Announce(s, x, p)
            PROVE  presence' \in [Users -> SUBSET {"online", "offline"}]
        <4>1. presence[UserOf(s)] \cup {x} \in SUBSET {"online", "offline"}
          BY <2>1 DEF ServerTypes
        <4>2. {x} \in SUBSET {"online", "offline"}
          OBVIOUS
        <4> QED
          BY <3>1, <4>1, <4>2 DEF Announce, ServerTypes
      <3>2. \/ UNCHANGED presence
            \/ \E x \in {"online", "offline"}, p \in BOOLEAN : Announce(s, x, p)
        BY <1>2 DEF AnnounceOnline, AnnounceOffline
      <3> QED
        BY <3>1, <3>2 DEF ServerTypes
    <2>3. /\ silent' \subseteq Sockets /\ missed' \subseteq Users
          /\ UNCHANGED <<registered, entries, cache, bus, deaf, caught>>
      BY <1>2, <2>1 DEF AnnounceOnline, AnnounceOffline, ServerTypes
    <2> QED
      BY <2>2, <2>3 DEF ServerTypes
  <1>3. ASSUME NEW s \in Sockets, Unregister(s) \/ RemoveEntry(s) PROVE ServerTypes'
    BY <1>3 DEF Unregister, RemoveEntry, ServerTypes
  <1>4. ASSUME NEW s \in Sockets, Relay(s) PROVE ServerTypes'
    <2> DEFINE m == [origin |-> Inst[s], sender |-> UserOf(s), frame |-> Head(toServer[s])]
    <2>1. PICK c \in {"members", "nobody"}, published \in BOOLEAN :
             /\ Lookup(Inst[s], c)
             /\ \/ bus' = [j \in Instances |-> IF published /\ j \notin deaf
                                            THEN Append(bus[j], m) ELSE bus[j]]
                \/ UNCHANGED bus
      BY <1>4 DEF Relay
    <2>2. m \in Publications
      <3>1. Head(toServer[s]) \in Frames
        BY <1>4, RelayedType DEF Relay
      <3>2. Inst[s] \in Instances /\ UserOf(s) \in Users
        BY ChannelAssumption, KeyType
      <3> QED
        BY <3>1, <3>2 DEF Publications
    <2> HIDE DEF m
    <2>3. ASSUME NEW j \in Instances PROVE Append(bus[j], m) \in Seq(Publications)
      BY <2>2, AppendProperties DEF ServerTypes
    <2>4. bus' \in [Instances -> Seq(Publications)]
      BY <2>1, <2>3 DEF ServerTypes
    <2>5. cache' \in [Instances -> {"unread", "members", "nobody"}]
      BY <2>1 DEF Lookup, ServerTypes
    <2> QED
      BY <1>4, <2>4, <2>5 DEF Relay, ServerTypes
  <1>5. ASSUME NEW i \in Instances, Subscriber(i) PROVE ServerTypes'
    <2>1. Tail(bus[i]) \in Seq(Publications)
      BY <1>5, HeadTailProperties DEF Subscriber, ServerTypes
    <2>2. bus' \in [Instances -> Seq(Publications)]
      BY <1>5, <2>1 DEF Subscriber, ServerTypes
    <2>3. cache' \in [Instances -> {"unread", "members", "nobody"}]
      BY <1>5 DEF Subscriber, Lookup, ServerTypes
    <2> QED
      BY <1>5, <2>2, <2>3 DEF Subscriber, ServerTypes
  <1>6. ASSUME NEW i \in Instances, SubscriberExits(i) \/ Restart(i) PROVE ServerTypes'
    <2>1. <<>> \in Seq(Publications)
      BY EmptySeq
    <2>2. \A s \in Sockets : UserOf(s) \in Users
      BY KeyType
    <2>3. CASE SubscriberExits(i)
      BY <2>1, <2>3 DEF SubscriberExits, ServerTypes
    <2>4. CASE Restart(i)
      BY <2>1, <2>2, <2>4 DEF Restart, ServerTypes
    <2> QED
      BY <1>6, <2>3, <2>4
  <1>7. CASE UNCHANGED serverVars
    BY <1>7 DEF serverVars, ServerTypes
  <1>8. ASSUME NEW d \in Devices, SignIn(d) \/ SignOut(d) \/ Remount(d) \/ Disable(d) \/ TimerFires(d)
        PROVE  UNCHANGED serverVars
    BY <1>8 DEF SignIn, SignOut, Remount, Disable, TimerFires
  <1>9. ASSUME NEW d \in Devices, NEW t \in trying[d],
               \/ TicketAnswered(d, t) \/ OpenSocket(d, t) \/ AbandonAttempt(d, t)
               \/ AttemptFails(d, t)
        PROVE  UNCHANGED serverVars
    BY <1>9 DEF TicketAnswered, OpenSocket, AbandonAttempt, AttemptFails
  <1>10. ASSUME NEW d \in Devices, NEW f \in Frames, Send(d, f) PROVE UNCHANGED serverVars
    BY <1>10 DEF Send
  <1>11. ASSUME NEW s \in Sockets,
                \/ Open(s) \/ OnMessage(s) \/ OnClose(s) \/ Lose(s) \/ Authenticate(s)
                \/ AuthFails(s) \/ Refuse(s)
         PROVE  UNCHANGED serverVars
    BY <1>11 DEF Open, OnMessage, OnClose, Lose, Authenticate, AuthFails, Refuse
  <1>12. UNCHANGED vars => UNCHANGED serverVars
    BY DEF vars, serverVars
  <1> QED
    BY <1>1, <1>2, <1>3, <1>4, <1>5, <1>6, <1>7, <1>8, <1>9, <1>10, <1>11, <1>12
       DEF Next, UserStep, ProviderStep, ClientStep, ServerStep

LEMMA HistoryTyped ==
    ASSUME TypeOK, \A s \in Sockets : Queued(s), [Next]_vars PROVE HistoryTypes'
  <1> USE DEF TypeOK
  <1>1. ASSUME NEW d \in Devices,
               \/ SignIn(d) \/ SignOut(d) \/ Remount(d) \/ Disable(d) \/ TimerFires(d)
        PROVE  HistoryTypes'
    BY <1>1, CostsType DEF SignIn, SignOut, Remount, Disable, TimerFires, frameVars, HistoryTypes
  <1>2. ASSUME NEW d \in Devices, NEW t \in trying[d],
               \/ TicketAnswered(d, t) \/ OpenSocket(d, t) \/ AbandonAttempt(d, t)
               \/ AttemptFails(d, t)
        PROVE  HistoryTypes'
    BY <1>2, CostsType DEF TicketAnswered, OpenSocket, AbandonAttempt, AttemptFails, frameVars,
                           HistoryTypes
  <1>3. ASSUME NEW d \in Devices, NEW f \in Frames, Send(d, f) PROVE HistoryTypes'
    BY <1>3 DEF Send, HistoryTypes
  <1>4. ASSUME NEW s \in Sockets,
               \/ Open(s) \/ OnClose(s) \/ Lose(s) \/ Authenticate(s)
               \/ AuthFails(s) \/ Refuse(s)
        PROVE  HistoryTypes'
    BY <1>4, CostsType DEF Open, OnClose, Lose, Authenticate, AuthFails, Refuse, frameVars, HistoryTypes
  <1>5. ASSUME NEW s \in Sockets, OnMessage(s) PROVE HistoryTypes'
    <2>1. Dev[s] \in Devices
      BY ChannelAssumption
    <2>2. seen' \in [Devices -> [Frames -> 0..2]]
      <3>1. CASE UNCHANGED seen
        BY <3>1 DEF HistoryTypes
      <3>2. CASE ~UNCHANGED seen
        <4> DEFINE m == Head(toClient[s])
               g == [seen[Dev[s]] EXCEPT ![m] = @ + 1]
        <4>1. /\ m \in Frames /\ seen[Dev[s]][m] < 2
              /\ seen' = [seen EXCEPT ![Dev[s]] = g]
          BY <1>5, <3>2 DEF OnMessage
        <4> HIDE DEF m
        <4>2. seen[Dev[s]] \in [Frames -> 0..2]
          BY <2>1 DEF HistoryTypes
        <4>3. seen[Dev[s]][m] + 1 \in 0..2
          BY <4>1, <4>2
        <4>4. g \in [Frames -> 0..2]
          BY <4>2, <4>3
        <4> HIDE DEF g
        <4> QED
          BY <2>1, <4>1, <4>4 DEF HistoryTypes
      <3> QED
        BY <3>1, <3>2
    <2> QED
      BY <1>5, <2>2 DEF OnMessage, HistoryTypes
  <1>6. ASSUME NEW s \in Sockets,
               \/ Register(s) \/ AnnounceOnline(s) \/ Unregister(s) \/ RemoveEntry(s)
               \/ AnnounceOffline(s)
        PROVE  HistoryTypes'
    BY <1>6, CostsType DEF Register, AnnounceOnline, Unregister, RemoveEntry, AnnounceOffline, frameVars,
                HistoryTypes
  <1>7. ASSUME NEW s \in Sockets, Relay(s) PROVE HistoryTypes'
    <2>1. Head(toServer[s]) \in Frames
      BY <1>7, RelayedType DEF Relay
    <2>2. owed' \subseteq Frames \X Sockets
      <3>1. CASE UNCHANGED owed
        BY <3>1 DEF HistoryTypes
      <3>2. CASE ~UNCHANGED owed
        <4>1. owed' \subseteq owed \cup {<<Head(toServer[s]), t>> : t \in registered}
          BY <1>7, <3>2 DEF Relay
        <4>2. registered \subseteq Sockets
          BY DEF ServerTypes
        <4> QED
          BY <2>1, <4>1, <4>2 DEF HistoryTypes
      <3> QED
        BY <3>1, <3>2
    <2>3. faults' \in 0..MaxFaults
      BY <1>7, CostsType DEF Relay
    <2> QED
      BY <1>7, <2>2, <2>3 DEF Relay, HistoryTypes
  <1>8. ASSUME NEW i \in Instances, Subscriber(i) PROVE HistoryTypes'
    <2>1. faults' \in 0..MaxFaults
      BY <1>8, CostsType DEF Subscriber, HistoryTypes
    <2>2. owed' \subseteq owed
      BY <1>8 DEF Subscriber
    <2> QED
      BY <1>8, <2>1, <2>2 DEF Subscriber, HistoryTypes
  <1>9. ASSUME NEW i \in Instances, SubscriberExits(i) \/ Restart(i) PROVE HistoryTypes'
    BY <1>9, CostsType DEF SubscriberExits, Restart, HistoryTypes
  <1>10. CASE UNCHANGED vars
    BY <1>10 DEF vars, HistoryTypes
  <1> QED
    BY <1>1, <1>2, <1>3, <1>4, <1>5, <1>6, <1>7, <1>8, <1>9, <1>10
       DEF Next, UserStep, ProviderStep, ClientStep, ServerStep

(***************************************************************************)
(* Before the ticket, the ticket                                           *)
(***************************************************************************)
LEMMA QueuedSame ==
    ASSUME NEW s \in Sockets, Queued(s), sv'[s] = sv[s], toServer'[s] = toServer[s],
           cl'[s] = "open" => cl[s] = "open"
    PROVE  Queued(s)'
  BY DEF Queued, TicketFirst

LEMMA QueuedEmpty ==
    ASSUME NEW s, toServer'[s] = <<>>, ~(sv'[s] = "waiting" /\ cl'[s] = "open")
    PROVE  Queued(s)'
  BY EmptySeq DEF Queued, TicketFirst

\* Frames go behind what is there.
LEMMA QueuedMore ==
    ASSUME TypeOK, NEW s \in Sockets, Queued(s), NEW f \in Frames, cl[s] = "open", UNCHANGED sv,
           toServer'[s] = Append(toServer[s], f)
    PROVE  Queued(s)'
  <1>1. CASE sv[s] # "waiting"
    <2>1. Append(toServer[s], f) \in Seq(Frames)
      BY <1>1, AppendProperties DEF Queued
    <2> QED
      BY <1>1, <2>1 DEF Queued
  <1>2. CASE sv[s] = "waiting"
    <2> DEFINE q == toServer[s]
    <2>1. q \in Seq(Frames \cup {"authenticate"}) /\ q # <<>>
      BY <1>2 DEF Queued, TypeOK, ConnectionTypes
    <2>2. Head(q) = "authenticate" /\ Tail(q) \in Seq(Frames)
      BY <1>2, <2>1 DEF Queued, TicketFirst
    <2> HIDE DEF q
    <2>3. Append(q, f) # <<>> /\ Head(Append(q, f)) = Head(q)
      BY <2>1, AppendProperties
    <2>4. Tail(Append(q, f)) = Append(Tail(q), f)
      BY <2>1
    <2>5. Append(Tail(q), f) \in Seq(Frames)
      BY <2>2, AppendProperties
    <2>6. toServer'[s] = Append(q, f)
      BY DEF q
    <2> QED
      BY <1>2, <2>2, <2>3, <2>4, <2>5, <2>6 DEF Queued, TicketFirst
  <1> QED
    BY <1>1, <1>2

LEMMA QueuedKept ==
    ASSUME ChannelInv, [Next]_vars, NEW r \in Sockets PROVE Queued(r)'
  <1>0. /\ TypeOK /\ ConnectionTypes /\ ProviderTypes /\ Queued(r)
        /\ r \in wsRef[Dev[r]] \/ ~fresh[r]
        /\ cl[r] \in {"connecting", "open"} => fresh[r]
    BY ChannelAssumption DEF ChannelInv, TypeOK, Sound, OneSocket
  <1> USE <1>0
  <1>1. ASSUME NEW d \in Devices, SignIn(d) \/ Remount(d) \/ Disable(d) \/ TimerFires(d)
        PROVE  Queued(r)'
    <2>1. UNCHANGED <<sv, toServer>>
      BY <1>1 DEF SignIn, Remount, Disable, TimerFires
    <2>2. Close(wsRef[d])
      BY <1>1 DEF SignIn, Remount, Disable, TimerFires, Connect
    <2>3. cl'[r] = "open" => cl[r] = "open"
      BY <2>2 DEF Close
    <2> QED
      BY <2>1, <2>3, QueuedSame
  <1>2. ASSUME NEW d \in Devices, NEW t \in trying[d],
               \/ TicketAnswered(d, t) \/ OpenSocket(d, t) \/ AbandonAttempt(d, t)
               \/ AttemptFails(d, t)
        PROVE  Queued(r)'
    <2>1. UNCHANGED <<sv, toServer>> /\ (cl'[r] = "open" => cl[r] = "open")
      BY <1>2 DEF TicketAnswered, OpenSocket, AbandonAttempt, AttemptFails, ConnectionTypes
    <2> QED
      BY <2>1, QueuedSame
  <1>3. ASSUME NEW s \in Sockets, Open(s) PROVE Queued(r)'
    <2>1. CASE r # s
      <3>1. sv'[r] = sv[r] /\ toServer'[r] = toServer[r] /\ cl'[r] = cl[r]
        BY <1>3, <2>1 DEF Open, ConnectionTypes
      <3> QED
        BY <3>1, QueuedSame
    <2>2. CASE r = s
      <3>1. fresh[r] /\ sv'[r] = "waiting" /\ cl'[r] = Opened(r)
        BY <1>3, <2>2 DEF Open, ConnectionTypes
      <3>2. CASE ticket[r]
        <4>1. toServer'[r] = <<"authenticate">>
          BY <1>3, <2>2, <3>1, <3>2 DEF Open, ConnectionTypes
        <4>2. Tail(<<"authenticate">>) = <<>> /\ Head(<<"authenticate">>) = "authenticate"
              /\ <<"authenticate">> # <<>>
          OBVIOUS
        <4> QED
          BY <3>1, <4>1, <4>2, EmptySeq DEF Queued, TicketFirst
      <3>3. CASE ~ticket[r]
        <4>1. toServer'[r] = <<>> /\ cl'[r] = "closing"
          BY <1>3, <2>2, <3>1, <3>3 DEF Open, Opened, ConnectionTypes
        <4> QED
          BY <4>1, QueuedEmpty
      <3> QED
        BY <3>2, <3>3
    <2> QED
      BY <2>1, <2>2
  <1>4. ASSUME NEW s \in Sockets, OnClose(s) \/ OnMessage(s) PROVE Queued(r)'
    <2>1. UNCHANGED <<sv, toServer>> /\ (cl'[r] = "open" => cl[r] = "open")
      BY <1>4 DEF OnClose, OnMessage, ConnectionTypes
    <2> QED
      BY <2>1, QueuedSame
  <1>5. ASSUME NEW s \in Sockets, Lose(s) PROVE Queued(r)'
    <2>1. UNCHANGED sv /\ (cl'[r] = "open" => cl[r] = "open" /\ r # s)
      BY <1>5 DEF Lose, Close
    <2>2. toServer'[r] = IF r = s THEN <<>> ELSE toServer[r]
      BY <1>5 DEF Lose, ConnectionTypes
    <2> QED
      BY <2>1, <2>2, QueuedSame, QueuedEmpty
  <1>6. ASSUME NEW d \in Devices, NEW f \in Frames, Send(d, f) PROVE Queued(r)'
    <2>1. PICK s \in wsRef[d] : cl[s] = "open" /\ toServer' = [toServer EXCEPT ![s] = Append(@, f)]
      BY <1>6 DEF Send
    <2>2. UNCHANGED <<sv, cl>>
      BY <1>6 DEF Send
    <2>3. CASE r # s
      BY <2>1, <2>2, <2>3, QueuedSame DEF ConnectionTypes
    <2>4. CASE r = s
      <3>1. toServer'[r] = Append(toServer[r], f)
        BY <2>1, <2>4 DEF ConnectionTypes
      <3> QED
        BY <2>1, <2>2, <2>4, <3>1, QueuedMore
    <2> QED
      BY <2>3, <2>4
  <1>7. ASSUME NEW s \in Sockets, Authenticate(s) PROVE Queued(r)'
    <2>1. /\ sv'[r] = IF r = s THEN "redeemed" ELSE sv[r]
          /\ toServer'[r] = IF r = s THEN Tail(toServer[r]) ELSE toServer[r]
          /\ cl' = cl
      BY <1>7 DEF Authenticate, ConnectionTypes
    <2>2. CASE r # s
      BY <2>1, <2>2, QueuedSame
    <2>3. CASE r = s
      <3>1. Tail(toServer[r]) \in Seq(Frames)
        BY <1>7, <2>3 DEF Authenticate, Queued, TicketFirst
      <3> QED
        BY <2>1, <2>3, <3>1 DEF Queued
    <2> QED
      BY <2>2, <2>3
  <1>8. ASSUME NEW s \in Sockets, AuthFails(s) \/ Refuse(s) PROVE Queued(r)'
    <2>1. /\ sv'[r] = IF r = s THEN "none" ELSE sv[r]
          /\ toServer'[r] = IF r = s THEN <<>> ELSE toServer[r]
          /\ cl' = cl
      BY <1>8 DEF AuthFails, Refuse, ConnectionTypes
    <2> QED
      BY <2>1, QueuedSame, QueuedEmpty
  <1>9. ASSUME NEW s \in Sockets,
               \/ Register(s) \/ AnnounceOnline(s) \/ Unregister(s) \/ RemoveEntry(s)
               \/ AnnounceOffline(s)
        PROVE  Queued(r)'
    <2>1. UNCHANGED <<cl, toServer>> /\ sv[s] # "waiting" /\ sv'[s] # "waiting"
      BY <1>9 DEF Register, AnnounceOnline, Unregister, RemoveEntry, AnnounceOffline, ConnectionTypes
    <2>2. r # s => sv'[r] = sv[r]
      BY <1>9 DEF Register, AnnounceOnline, Unregister, RemoveEntry, AnnounceOffline, ConnectionTypes
    <2> QED
      BY <2>1, <2>2 DEF Queued
  <1>10. ASSUME NEW s \in Sockets, Relay(s) PROVE Queued(r)'
    <2>1. UNCHANGED <<cl, sv>>
      BY <1>10 DEF Relay
    <2>2. CASE r # s
      BY <1>10, <2>1, <2>2, QueuedSame DEF Relay, ConnectionTypes
    <2>3. CASE r = s
      <3>1. sv[r] # "waiting" /\ toServer[r] \in Seq(Frames) /\ toServer[r] # <<>>
        BY <1>10, <2>3 DEF Relay, Queued
      <3>2. toServer'[r] \in Seq(Frames)
        BY <1>10, <2>3, <3>1, HeadTailProperties DEF Relay, ConnectionTypes
      <3> QED
        BY <2>1, <3>1, <3>2 DEF Queued
    <2> QED
      BY <2>2, <2>3
  <1>11. ASSUME NEW i \in Instances, Subscriber(i) \/ SubscriberExits(i) PROVE Queued(r)'
    BY <1>11, QueuedSame DEF Subscriber, SubscriberExits
  <1>12. ASSUME NEW i \in Instances, Restart(i) PROVE Queued(r)'
    <2>1. /\ cl' = cl
          /\ \/ sv'[r] = sv[r] /\ toServer'[r] = toServer[r]
             \/ sv'[r] = "none" /\ toServer'[r] = <<>>
      BY <1>12 DEF Restart
    <2> QED
      BY <2>1, QueuedSame, QueuedEmpty
  <1>13. ASSUME NEW d \in Devices, SignOut(d) PROVE Queued(r)'
    BY <1>13, QueuedSame DEF SignOut
  <1>14. CASE UNCHANGED vars
    BY <1>14, QueuedSame DEF vars
  <1> QED
    BY <1>1, <1>2, <1>3, <1>4, <1>5, <1>6, <1>7, <1>8, <1>9, <1>10, <1>11, <1>12, <1>13, <1>14
       DEF Next, UserStep, ProviderStep, ClientStep, ServerStep

(***************************************************************************)
(* One connection, attempt or timer per device                             *)
(***************************************************************************)
LEMMA SoundSame ==
    ASSUME NEW e \in Devices, Sound(e),
           enabled'[e] = enabled[e], attempts'[e] = attempts[e], timer'[e] = timer[e],
           trying'[e] = trying[e], wsRef'[e] = wsRef[e],
           \A s \in Sockets : Dev[s] = e => fresh'[s] = fresh[s] /\ cl'[s] = cl[s]
    PROVE  Sound(e)'
  <1>1. OneSocket(e)'
    BY DEF Sound, OneSocket
  <1>2. OneAtATime(e)' /\ Off(e)' /\ On(e)'
    BY DEF Sound, OneAtATime, Off, On
  <1> QED
    BY <1>1, <1>2 DEF Sound

\* A provider closes its socket and turns to the next generation.
LEMMA ResetSound ==
    ASSUME TypeOK, NEW d \in Devices, Sound(d), Close(wsRef[d]), fresh' = Superseded(d),
           wsRef' = [wsRef EXCEPT ![d] = {}]
    PROVE  /\ OneSocket(d)'
           /\ wsRef'[d] = {}
           /\ \A e \in Devices \ {d} :
                 /\ wsRef'[e] = wsRef[e]
                 /\ \A s \in Sockets : Dev[s] = e => fresh'[s] = fresh[s] /\ cl'[s] = cl[s]
  <1>1. \A s \in wsRef[d] : Dev[s] = d
    BY DEF Sound, OneSocket
  <1>2. wsRef'[d] = {} /\ \A e \in Devices \ {d} : wsRef'[e] = wsRef[e]
    BY DEF TypeOK, ProviderTypes
  <1>3. ASSUME NEW s \in Sockets
        PROVE  /\ fresh'[s] <=> fresh[s] /\ Dev[s] # d
               /\ cl'[s] = IF s \in wsRef[d] THEN "closing" ELSE cl[s]
    BY DEF Superseded, Close
  <1>4. OneSocket(d)'
    <2>1. ASSUME NEW s \in Sockets, Dev[s] = d
          PROVE  ~fresh'[s] /\ cl'[s] \notin {"connecting", "open"}
      BY <1>3, <2>1 DEF Sound, OneSocket
    <2> QED
      BY <1>2, <2>1 DEF OneSocket
  <1>5. ASSUME NEW e \in Devices \ {d}, NEW s \in Sockets, Dev[s] = e
        PROVE  fresh'[s] = fresh[s] /\ cl'[s] = cl[s]
    <2>1. s \notin wsRef[d]
      BY <1>1, <1>5
    <2>2. fresh[s] \in BOOLEAN /\ fresh'[s] \in BOOLEAN
      BY DEF TypeOK, ConnectionTypes, Superseded
    <2> QED
      BY <1>3, <1>5, <2>1, <2>2
  <1> QED
    BY <1>2, <1>4, <1>5

LEMMA ConnectSound ==
    ASSUME TypeOK, NEW d \in Devices, Sound(d), NEW old, \A t \in old : ~t.current,
           Connect(d, old), enabled'[d], ~timer'[d]
    PROVE  /\ Sound(d)'
           /\ \A e \in Devices \ {d} :
                 /\ trying'[e] = trying[e] /\ wsRef'[e] = wsRef[e]
                 /\ \A s \in Sockets : Dev[s] = e => fresh'[s] = fresh[s] /\ cl'[s] = cl[s]
  <1>1. /\ Close(wsRef[d]) /\ fresh' = Superseded(d) /\ wsRef' = [wsRef EXCEPT ![d] = {}]
    BY DEF Connect
  <1>2. /\ trying'[d] = old \cup {Attempt}
        /\ \A e \in Devices \ {d} : trying'[e] = trying[e]
    BY DEF Connect, TypeOK, ProviderTypes
  <1>3. \A t \in trying'[d] : t.current <=> t = Attempt
    BY <1>2, AttemptType
  <1>4. OneSocket(d)' /\ wsRef'[d] = {}
    BY <1>1, ResetSound
  <1>5. OneAtATime(d)'
    BY <1>3, <1>4 DEF OneAtATime
  <1>6. Off(d)' /\ On(d)'
    BY <1>2, AttemptType DEF Off, On
  <1> QED
    BY <1>1, <1>2, <1>4, <1>5, <1>6, ResetSound DEF Sound

\* What is left of the attempts when t is done.
LEMMA DropEffect ==
    ASSUME TypeOK, NEW d \in Devices, NEW t \in trying[d], Drop(d, t)
    PROVE  /\ trying'[d] = trying[d] \ {t}
           /\ \A e \in Devices \ {d} : trying'[e] = trying[e]
  BY DEF Drop, TypeOK, ProviderTypes

\* After a failure of the current connection or attempt.
LEMMA ScheduleSound ==
    ASSUME TypeOK, NEW d \in Devices, enabled[d], Schedule(d), UNCHANGED enabled,
           ~timer[d], OneSocket(d)', wsRef'[d] = {}, \A t \in trying'[d] : ~t.current
    PROVE  /\ Sound(d)'
           /\ \A e \in Devices \ {d} : attempts'[e] = attempts[e] /\ timer'[e] = timer[e]
  <1>1. attempts[d] \in 0..MaxAttempts /\ MaxAttempts \in Nat
    BY ChannelAssumption DEF TypeOK, ProviderTypes
  <1>2. \/ timer'[d]
        \/ attempts'[d] = MaxAttempts
    BY <1>1 DEF Schedule, TypeOK, ProviderTypes
  <1>3. \A e \in Devices \ {d} : attempts'[e] = attempts[e] /\ timer'[e] = timer[e]
    BY DEF Schedule, TypeOK, ProviderTypes
  <1>4. OneAtATime(d)'
    BY DEF OneAtATime
  <1>5. Off(d)' /\ On(d)'
    BY <1>2 DEF Off, On
  <1> QED
    BY <1>3, <1>4, <1>5 DEF Sound

LEMMA SoundKept ==
    ASSUME ChannelInv, [Next]_vars, NEW e \in Devices PROVE Sound(e)'
  <1>0. TypeOK /\ \A d \in Devices : Sound(d)
    BY DEF ChannelInv
  <1> USE <1>0
  <1>1. ASSUME NEW d \in Devices, SignIn(d) PROVE Sound(e)'
    <2>1. Connect(d, {}) /\ enabled'[d] /\ ~timer'[d]
      BY <1>1 DEF SignIn, TypeOK, ProviderTypes, Sound, Off
    <2>2. e # d => enabled'[e] = enabled[e] /\ attempts'[e] = attempts[e] /\ timer'[e] = timer[e]
      BY <1>1 DEF SignIn, TypeOK, ProviderTypes
    <2>3. \A t \in {} : ~t.current
      OBVIOUS
    <2> QED
      BY <2>1, <2>2, <2>3, ConnectSound, SoundSame
  <1>2. ASSUME NEW d \in Devices, Remount(d) PROVE Sound(e)'
    <2>1. Connect(d, Stale(d)) /\ enabled'[d] /\ ~timer'[d]
      BY <1>2 DEF Remount, TypeOK, ProviderTypes
    <2>2. e # d => enabled'[e] = enabled[e] /\ attempts'[e] = attempts[e] /\ timer'[e] = timer[e]
      BY <1>2 DEF Remount, TypeOK, ProviderTypes
    <2>3. \A t \in Stale(d) : ~t.current
      BY StaleType DEF TypeOK
    <2> QED
      BY <2>1, <2>2, <2>3, ConnectSound, SoundSame
  <1>3. ASSUME NEW d \in Devices, TimerFires(d) PROVE Sound(e)'
    <2>1. Connect(d, Stale(d)) /\ enabled'[d] /\ ~timer'[d]
      BY <1>3 DEF TimerFires, TypeOK, ProviderTypes, Sound, Off
    <2>2. e # d => enabled'[e] = enabled[e] /\ attempts'[e] = attempts[e] /\ timer'[e] = timer[e]
      BY <1>3 DEF TimerFires, TypeOK, ProviderTypes
    <2>3. \A t \in Stale(d) : ~t.current
      BY StaleType DEF TypeOK
    <2> QED
      BY <2>1, <2>2, <2>3, ConnectSound, SoundSame
  <1>4. ASSUME NEW d \in Devices, Disable(d) PROVE Sound(e)'
    <2>1. /\ Close(wsRef[d]) /\ fresh' = Superseded(d) /\ wsRef' = [wsRef EXCEPT ![d] = {}]
          /\ ~enabled'[d] /\ ~timer'[d] /\ trying'[d] = Stale(d)
      BY <1>4 DEF Disable, TypeOK, ProviderTypes
    <2>2. e # d => /\ enabled'[e] = enabled[e] /\ attempts'[e] = attempts[e] /\ timer'[e] = timer[e]
                   /\ trying'[e] = trying[e]
      BY <1>4 DEF Disable, TypeOK, ProviderTypes
    <2>3. \A t \in trying'[d] : ~t.current
      BY <2>1, StaleType DEF TypeOK
    <2>4. OneSocket(d)' /\ wsRef'[d] = {}
      BY <2>1, ResetSound
    <2>5. Sound(d)'
      BY <2>1, <2>3, <2>4 DEF Sound, OneAtATime, Off, On
    <2> QED
      BY <2>1, <2>2, <2>5, ResetSound, SoundSame
  <1>5. ASSUME NEW d \in Devices, NEW t \in trying[d], TicketAnswered(d, t) PROVE Sound(e)'
    <2>1. UNCHANGED <<enabled, attempts, timer, wsRef, fresh, cl>>
      BY <1>5 DEF TicketAnswered
    <2>2. PICK got \in BOOLEAN :
             trying' = [trying EXCEPT ![d] =
                            (@ \ {t}) \cup {[t EXCEPT !.at = "open", !.ticket = got]}]
      BY <1>5 DEF TicketAnswered
    <2> DEFINE n == [t EXCEPT !.at = "open", !.ticket = got]
    <2>3. n.current = t.current
      BY AnsweredType DEF TypeOK
    <2>4. /\ trying'[d] = (trying[d] \ {t}) \cup {n}
          /\ e # d => trying'[e] = trying[e]
      BY <2>2 DEF TypeOK, ProviderTypes
    <2> HIDE DEF n
    <2>5. Sound(d)'
      <3>1. OneSocket(d)'
        BY <2>1 DEF Sound, OneSocket
      <3>2. OneAtATime(d)'
        BY <2>1, <2>3, <2>4 DEF Sound, OneAtATime
      <3>3. Off(d)' /\ On(d)'
        BY <2>1, <2>3, <2>4 DEF Sound, Off, On
      <3> QED
        BY <3>1, <3>2, <3>3 DEF Sound
    <2> QED
      BY <2>1, <2>4, <2>5, SoundSame
  <1>6. ASSUME NEW d \in Devices, NEW t \in trying[d], OpenSocket(d, t) PROVE Sound(e)'
    <2>1. PICK s \in Sockets :
             /\ Dev[s] = d /\ Unused(s)
             /\ fresh' = [fresh EXCEPT ![s] = t.current]
             /\ cl' = [cl EXCEPT ![s] = "connecting"]
             /\ wsRef' = [wsRef EXCEPT ![d] = {s}]
      BY <1>6 DEF OpenSocket
    <2>2. /\ t.current /\ Drop(d, t) /\ UNCHANGED <<enabled, attempts, timer>>
      BY <1>6 DEF OpenSocket, GoesOn
    <2>3. trying'[d] = trying[d] \ {t} /\ (e # d => trying'[e] = trying[e])
      BY <2>2, DropEffect
    <2>4. /\ wsRef'[d] = {s} /\ (e # d => wsRef'[e] = wsRef[e])
          /\ \A r \in Sockets : /\ fresh'[r] = IF r = s THEN t.current ELSE fresh[r]
                                /\ cl'[r] = IF r = s THEN "connecting" ELSE cl[r]
      BY <2>1 DEF TypeOK, ProviderTypes, ConnectionTypes
    <2>5. Sound(d)'
      <3>1. wsRef[d] = {} /\ ~timer[d] /\ enabled[d] /\ \A o \in trying'[d] : ~o.current
        BY <2>2, <2>3 DEF Sound, OneAtATime, Off
      <3>2. OneSocket(d)'
        <4>1. wsRef'[d] = {s} /\ Dev[s] = d
          BY <2>1, <2>4
        <4>2. ASSUME NEW r \in Sockets, Dev[r] = d
              PROVE  /\ fresh'[r] <=> r \in wsRef'[d]
                     /\ cl'[r] \in {"connecting", "open"} => fresh'[r]
                     /\ fresh'[r] => cl'[r] # "none"
          BY <2>2, <2>4, <3>1, <4>2 DEF Sound, OneSocket
        <4> QED
          BY <4>1, <4>2 DEF OneSocket
      <3>3. OneAtATime(d)' /\ Off(d)' /\ On(d)'
        BY <2>2, <2>4, <3>1 DEF OneAtATime, Off, On
      <3> QED
        BY <3>2, <3>3 DEF Sound
    <2>6. e # d => \A r \in Sockets : Dev[r] = e => fresh'[r] = fresh[r] /\ cl'[r] = cl[r]
      BY <2>1, <2>4
    <2> QED
      BY <2>2, <2>3, <2>4, <2>5, <2>6, SoundSame
  <1>7. ASSUME NEW d \in Devices, NEW t \in trying[d], AbandonAttempt(d, t) PROVE Sound(e)'
    <2>1. Drop(d, t) /\ ~t.current /\ UNCHANGED <<enabled, attempts, timer, wsRef, fresh, cl>>
      BY <1>7 DEF AbandonAttempt, GoesOn
    <2>2. trying'[d] = trying[d] \ {t} /\ (e # d => trying'[e] = trying[e])
      BY <2>1, DropEffect
    <2>3. Sound(d)'
      <3>1. OneSocket(d)'
        BY <2>1 DEF Sound, OneSocket
      <3>2. OneAtATime(d)' /\ Off(d)' /\ On(d)'
        BY <2>1, <2>2 DEF Sound, OneAtATime, Off, On
      <3> QED
        BY <3>1, <3>2 DEF Sound
    <2> QED
      BY <2>1, <2>2, <2>3, SoundSame
  <1>8. ASSUME NEW d \in Devices, NEW t \in trying[d], AttemptFails(d, t) PROVE Sound(e)'
    <2>1. Drop(d, t) /\ UNCHANGED <<enabled, wsRef, fresh, cl>>
      BY <1>8 DEF AttemptFails
    <2>2. trying'[d] = trying[d] \ {t} /\ (e # d => trying'[e] = trying[e])
      BY <2>1, DropEffect
    <2>3. OneSocket(d)'
      BY <2>1 DEF Sound, OneSocket
    <2>4. CASE t.current
      <3>1. Schedule(d)
        BY <1>8, <2>4 DEF AttemptFails
      <3>2. enabled[d] /\ ~timer[d] /\ wsRef'[d] = {} /\ \A o \in trying'[d] : ~o.current
        BY <2>1, <2>2, <2>4 DEF Sound, OneAtATime, Off
      <3> QED
        BY <2>1, <2>2, <2>3, <3>1, <3>2, ScheduleSound, SoundSame
    <2>5. CASE ~t.current
      <3>1. UNCHANGED <<attempts, timer>>
        BY <1>8, <2>5 DEF AttemptFails
      <3>2. OneAtATime(d)' /\ Off(d)' /\ On(d)'
        BY <2>1, <2>2, <2>5, <3>1 DEF Sound, OneAtATime, Off, On
      <3>3. Sound(d)'
        BY <2>3, <3>2 DEF Sound
      <3> QED
        BY <2>1, <2>2, <3>1, <3>3, SoundSame
    <2> QED
      BY <2>4, <2>5
  <1>9. ASSUME NEW s \in Sockets, OnClose(s) PROVE Sound(e)'
    <2> DEFINE d == Dev[s]
    <2>1. d \in Devices /\ Sound(d)
      BY ChannelAssumption
    <2>2. /\ UNCHANGED <<enabled, trying>>
          /\ \A r \in Sockets : /\ fresh'[r] = IF r = s THEN FALSE ELSE fresh[r]
                                /\ cl'[r] = IF r = s THEN "none" ELSE cl[r]
      BY <1>9 DEF OnClose, TypeOK, ConnectionTypes
    <2>3. CASE fresh[s]
      <3>1. wsRef' = [wsRef EXCEPT ![d] = {}] /\ Schedule(d)
        BY <1>9, <2>3 DEF OnClose
      <3>2. wsRef[d] = {s}
        BY <2>1, <2>3 DEF Sound, OneSocket
      <3>3. wsRef'[d] = {} /\ (e # d => wsRef'[e] = wsRef[e])
        BY <2>1, <3>1 DEF TypeOK, ProviderTypes
      <3> HIDE DEF d
      <3>4. OneSocket(d)'
        <4>1. ASSUME NEW r \in Sockets, Dev[r] = d
              PROVE  ~fresh'[r] /\ cl'[r] \notin {"connecting", "open"}
          BY <2>1, <2>2, <3>2, <4>1 DEF Sound, OneSocket
        <4> QED
          BY <3>3, <4>1 DEF OneSocket
      <3>5. enabled[d] /\ ~timer[d] /\ \A t \in trying'[d] : ~t.current
        BY <2>1, <2>2, <3>2 DEF Sound, OneAtATime, Off
      <3>6. /\ Sound(d)'
            /\ e # d => attempts'[e] = attempts[e] /\ timer'[e] = timer[e]
        BY <2>1, <2>2, <3>1, <3>3, <3>4, <3>5, ScheduleSound
      <3>7. e # d => \A r \in Sockets : Dev[r] = e => fresh'[r] = fresh[r] /\ cl'[r] = cl[r]
        BY <2>2 DEF d
      <3> QED
        BY <2>2, <3>3, <3>6, <3>7, SoundSame
    <2>4. CASE ~fresh[s]
      <3>1. UNCHANGED <<wsRef, attempts, timer>>
        BY <1>9, <2>4 DEF OnClose
      <3>2. \A r \in Sockets : fresh'[r] = fresh[r]
        <4>1. fresh[s] = FALSE
          BY <2>4 DEF TypeOK, ConnectionTypes
        <4> QED
          BY <2>2, <4>1
      <3> HIDE DEF d
      <3>3. OneSocket(d)'
        <4>1. wsRef'[d] = {} \/ \E r \in Sockets : wsRef'[d] = {r} /\ Dev[r] = d
          BY <2>1, <3>1 DEF Sound, OneSocket
        <4>2. ASSUME NEW r \in Sockets, Dev[r] = d
              PROVE  /\ fresh'[r] <=> r \in wsRef'[d]
                     /\ cl'[r] \in {"connecting", "open"} => fresh'[r]
                     /\ fresh'[r] => cl'[r] # "none"
          BY <2>1, <2>2, <2>4, <3>1, <3>2, <4>2 DEF Sound, OneSocket
        <4> QED
          BY <4>1, <4>2 DEF OneSocket
      <3>4. OneAtATime(d)' /\ Off(d)' /\ On(d)'
        BY <2>1, <2>2, <3>1 DEF Sound, OneAtATime, Off, On
      <3>5. Sound(d)'
        BY <3>3, <3>4 DEF Sound
      <3>6. e # d => \A r \in Sockets : Dev[r] = e => fresh'[r] = fresh[r] /\ cl'[r] = cl[r]
        BY <2>2, <3>2 DEF d
      <3> QED
        BY <2>2, <3>1, <3>5, <3>6, SoundSame
    <2> QED
      BY <2>3, <2>4
  <1>10. ASSUME NEW s \in Sockets, Open(s) \/ Lose(s) PROVE Sound(e)'
    <2>1. UNCHANGED <<enabled, trying, attempts, timer, wsRef, fresh>>
      BY <1>10 DEF Open, Lose, uiVars
    <2>2. /\ \A r \in Sockets : r # s => cl'[r] = cl[r]
          /\ cl[s] \in {"connecting", "open"} /\ cl'[s] \in {"open", "closing"}
      <3>1. CASE Open(s)
        BY <3>1 DEF Open, Opened, TypeOK, ConnectionTypes
      <3>2. CASE Lose(s)
        BY <3>2 DEF Lose, Close
      <3> QED
        BY <1>10, <3>1, <3>2
    <2>3. OneSocket(e)'
      <3>1. Sound(e)
        OBVIOUS
      <3> QED
        BY <2>1, <2>2, <3>1 DEF Sound, OneSocket
    <2>4. OneAtATime(e)' /\ Off(e)' /\ On(e)'
      BY <2>1 DEF Sound, OneAtATime, Off, On
    <2> QED
      BY <2>3, <2>4 DEF Sound
  <1>11. ASSUME NEW s \in Sockets, OnMessage(s) PROVE Sound(e)'
    <2>1. UNCHANGED <<enabled, trying, timer, wsRef, fresh, cl>>
      BY <1>11 DEF OnMessage
    <2>2. attempts'[e] = attempts[e] \/ (fresh[s] /\ e = Dev[s])
      BY <1>11, ChannelAssumption DEF OnMessage, TypeOK, ProviderTypes
    <2>3. CASE attempts'[e] = attempts[e]
      BY <2>1, <2>3, SoundSame
    <2>4. CASE fresh[s] /\ e = Dev[s]
      <3>1. OneSocket(e)' /\ wsRef'[e] # {}
        BY <2>1, <2>4 DEF Sound, OneSocket
      <3>2. OneAtATime(e)' /\ Off(e)'
        BY <2>1 DEF Sound, OneAtATime, Off
      <3>3. On(e)'
        BY <3>1 DEF On
      <3> QED
        BY <3>1, <3>2, <3>3 DEF Sound
    <2> QED
      BY <2>2, <2>3, <2>4
  <1>12. CASE UNCHANGED <<enabled, attempts, timer, trying, wsRef, fresh, cl>>
    BY <1>12, SoundSame
  <1>13. ASSUME NEW s \in Sockets, ServerStep(s)
         PROVE  UNCHANGED <<enabled, attempts, timer, trying, wsRef, fresh, cl>>
    BY <1>13 DEF ServerStep, Authenticate, AuthFails, Register, Refuse, AnnounceOnline,
                 Relay, Unregister, RemoveEntry, AnnounceOffline, uiVars
  <1>14. ASSUME NEW i \in Instances, Subscriber(i) \/ SubscriberExits(i) \/ Restart(i)
         PROVE  UNCHANGED <<enabled, attempts, timer, trying, wsRef, fresh, cl>>
    BY <1>14 DEF Subscriber, SubscriberExits, Restart, uiVars
  <1>15. ASSUME NEW d \in Devices, NEW f \in Frames, Send(d, f)
         PROVE  UNCHANGED <<enabled, attempts, timer, trying, wsRef, fresh, cl>>
    BY <1>15 DEF Send, uiVars
  <1>16. ASSUME NEW d \in Devices, SignOut(d)
         PROVE  UNCHANGED <<enabled, attempts, timer, trying, wsRef, fresh, cl>>
    BY <1>16 DEF SignOut
  <1>17. UNCHANGED vars => UNCHANGED <<enabled, attempts, timer, trying, wsRef, fresh, cl>>
    BY DEF vars
  <1> QED
    BY <1>1, <1>2, <1>3, <1>4, <1>5, <1>6, <1>7, <1>8, <1>9, <1>10, <1>11, <1>12, <1>13, <1>14,
       <1>15, <1>16, <1>17 DEF Next, UserStep, ProviderStep, ClientStep

LEMMA UnknownKept ==
    ASSUME ChannelInv, [Next]_vars, NEW r \in Sockets PROVE Unknown(r)'
  <1>0. TypeOK /\ Unknown(r)
    BY DEF ChannelInv
  <1> USE <1>0
  <1>1. CASE sv'[r] = sv[r] /\ (cl'[r] = "connecting" => cl[r] = "connecting")
    BY <1>1 DEF Unknown
  <1>2. ASSUME NEW d \in Devices, SignIn(d) \/ Remount(d) \/ Disable(d) \/ TimerFires(d)
        PROVE  Unknown(r)'
    <2>1. UNCHANGED sv
      BY <1>2 DEF SignIn, Remount, Disable, TimerFires
    <2>2. Close(wsRef[d])
      BY <1>2 DEF SignIn, Remount, Disable, TimerFires, Connect
    <2> QED
      BY <1>1, <2>1, <2>2 DEF Close
  <1>3. ASSUME NEW d \in Devices, NEW t \in trying[d],
               TicketAnswered(d, t) \/ AbandonAttempt(d, t) \/ AttemptFails(d, t)
        PROVE  Unknown(r)'
    BY <1>1, <1>3 DEF TicketAnswered, AbandonAttempt, AttemptFails
  <1>4. ASSUME NEW d \in Devices, NEW t \in trying[d], OpenSocket(d, t) PROVE Unknown(r)'
    <2>1. PICK s \in Sockets : sv[s] = "none" /\ cl' = [cl EXCEPT ![s] = "connecting"]
      BY <1>4 DEF OpenSocket, Unused
    <2>2. UNCHANGED sv
      BY <1>4 DEF OpenSocket
    <2> QED
      BY <2>1, <2>2 DEF Unknown, TypeOK, ConnectionTypes
  <1>5. ASSUME NEW s \in Sockets, Open(s) PROVE Unknown(r)'
    <2>1. cl' = [cl EXCEPT ![s] = Opened(s)] /\ sv' = [sv EXCEPT ![s] = "waiting"]
          /\ Opened(s) # "connecting"
      BY <1>5 DEF Open, Opened
    <2> QED
      BY <2>1 DEF Unknown, TypeOK, ConnectionTypes
  <1>6. ASSUME NEW s \in Sockets, OnClose(s) \/ OnMessage(s) \/ Lose(s) PROVE Unknown(r)'
    <2>1. UNCHANGED sv /\ (cl'[r] = "connecting" => cl[r] = "connecting")
      BY <1>6 DEF OnClose, OnMessage, Lose, Close, TypeOK, ConnectionTypes
    <2> QED
      BY <1>1, <2>1
  <1>7. ASSUME NEW s \in Sockets, ServerStep(s) PROVE Unknown(r)'
    <2>1. UNCHANGED cl /\ sv[s] # "none" /\ (r # s => sv'[r] = sv[r])
      BY <1>7 DEF ServerStep, Authenticate, AuthFails, Register, Refuse, AnnounceOnline, Relay,
                  Unregister, RemoveEntry, AnnounceOffline, TypeOK, ConnectionTypes
    <2> QED
      BY <2>1 DEF Unknown
  <1>8. ASSUME NEW i \in Instances, Subscriber(i) \/ SubscriberExits(i) \/ Restart(i)
        PROVE  Unknown(r)'
    <2>1. UNCHANGED cl /\ (sv'[r] = sv[r] \/ sv'[r] = "none")
      BY <1>8 DEF Subscriber, SubscriberExits, Restart
    <2> QED
      BY <2>1 DEF Unknown
  <1>9. ASSUME NEW d \in Devices, NEW f \in Frames, Send(d, f) PROVE Unknown(r)'
    BY <1>1, <1>9 DEF Send
  <1>10. ASSUME NEW d \in Devices, SignOut(d) PROVE Unknown(r)'
    BY <1>1, <1>10 DEF SignOut
  <1>11. CASE UNCHANGED vars
    BY <1>1, <1>11 DEF vars
  <1> QED
    BY <1>2, <1>3, <1>4, <1>5, <1>6, <1>7, <1>8, <1>9, <1>10, <1>11
       DEF Next, UserStep, ProviderStep, ClientStep

(***************************************************************************)
(* The registry                                                            *)
(***************************************************************************)
LEMMA HeldSame ==
    ASSUME UNCHANGED <<sv, registered, entries, caught, missed>>, NEW r \in Sockets, Held(r)
    PROVE  Held(r)'
  BY DEF Held, Key, UserOf

LEMMA HeldKept ==
    ASSUME ChannelInv, [Next]_vars, NEW r \in Sockets PROVE Held(r)'
  <1>0. TypeOK /\ \A s \in Sockets : Held(s) /\ Unknown(s)
    BY DEF ChannelInv
  <1> USE <1>0
  <1>1. ASSUME NEW s \in Sockets, Register(s) PROVE Held(r)'
    <2>1. /\ sv[s] = "redeemed" /\ \A t \in Sockets : sv'[t] = IF t = s THEN "announcing" ELSE sv[t]
          /\ registered' = registered \cup {s} /\ entries' = entries \cup {Key(s)}
      BY <1>1 DEF Register, TypeOK, ConnectionTypes
    <2>2. /\ caught \subseteq caught' /\ missed \subseteq missed'
          /\ \A t \in Sockets : sv[t] = "last" /\ Key(t) = Key(s) => s \in caught'
          /\ caught' \subseteq caught \cup {s} /\ (s \in caught' => s \in caught \/ UserOf(s) \in missed')
      BY <1>1 DEF Register
    <2>3. registered \subseteq Sockets
      BY DEF TypeOK, ServerTypes
    <2>4. r \in registered' => sv'[r] \in Announced /\ Key(r) \in entries'
      BY <2>1 DEF Held, Announced
    <2>5. sv'[r] \in Announced => r \in registered' \cup caught'
      BY <2>1, <2>2 DEF Held
    <2>6. r \in caught' => UserOf(r) \in missed'
      BY <2>2 DEF Held
    <2>7. ASSUME NEW t \in registered', sv'[r] = "last", Key(t) = Key(r) PROVE t \in caught'
      BY <2>1, <2>2, <2>3, <2>7 DEF Held
    <2> QED
      BY <2>4, <2>5, <2>6, <2>7 DEF Held, Key, UserOf
  <1>2. ASSUME NEW s \in Sockets, AnnounceOnline(s) PROVE Held(r)'
    <2>1. /\ UNCHANGED <<registered, entries, caught, missed>>
          /\ sv[s] = "announcing" /\ \A t \in Sockets : sv'[t] = IF t = s THEN "serving" ELSE sv[t]
      BY <1>2 DEF AnnounceOnline, TypeOK, ConnectionTypes
    <2> QED
      BY <2>1 DEF Held, Key, UserOf, Announced
  <1>3. ASSUME NEW s \in Sockets, Unregister(s) PROVE Held(r)'
    <2>1. /\ UNCHANGED <<entries, missed>>
          /\ registered' = registered \ {s} /\ caught' = caught \ {s}
          /\ \A t \in Sockets : t # s => sv'[t] = sv[t]
          /\ sv'[s] = IF IsLast(s) THEN "last" ELSE "none"
      BY <1>3 DEF Unregister, TypeOK, ConnectionTypes
    <2>2. sv'[s] \notin Announced
      BY <2>1 DEF Announced
    <2>3. registered \subseteq Sockets
      BY DEF TypeOK, ServerTypes
    <2>4. r \in registered' => sv'[r] \in Announced /\ Key(r) \in entries'
      BY <2>1 DEF Held
    <2>5. sv'[r] \in Announced => r \in registered' \cup caught'
      BY <2>1, <2>2 DEF Held
    <2>6. r \in caught' => UserOf(r) \in missed'
      BY <2>1 DEF Held
    <2>7. ASSUME NEW t \in registered', sv'[r] = "last", Key(t) = Key(r) PROVE t \in caught'
      <3>1. CASE r # s
        BY <2>1, <2>3, <2>7, <3>1 DEF Held
      <3>2. CASE r = s
        <4>1. Peers(s) \ {s} = {}
          BY <2>1, <2>7, <3>2 DEF IsLast
        <4>2. t \in Peers(s) \ {s}
          BY <2>1, <2>7, <3>2 DEF Peers, Key
        <4> QED
          BY <4>1, <4>2
      <3> QED
        BY <3>1, <3>2
    <2> QED
      BY <2>4, <2>5, <2>6, <2>7 DEF Held, Key, UserOf
  <1>4. ASSUME NEW s \in Sockets, RemoveEntry(s) PROVE Held(r)'
    <2>1. /\ UNCHANGED <<caught, missed>>
          /\ registered' = registered \ Peers(s) /\ entries' = entries \ {Key(s)}
          /\ sv[s] = "last" /\ \A t \in Sockets : sv'[t] = IF t = s THEN "removed" ELSE sv[t]
      BY <1>4 DEF RemoveEntry, TypeOK, ConnectionTypes
    <2>2. \A t \in Peers(s) : t \in caught
      BY <2>1 DEF Held, Peers, Key
    <2>3. \A t \in registered' : Key(t) # Key(s)
      BY <2>1 DEF Peers, Key
    <2>4. r \in registered' => sv'[r] \in Announced /\ Key(r) \in entries'
      BY <2>1, <2>3 DEF Held, Announced
    <2>5. sv'[r] \in Announced => r \in registered' \cup caught'
      BY <2>1, <2>2 DEF Held, Announced
    <2>6. r \in caught' => UserOf(r) \in missed'
      BY <2>1 DEF Held
    <2>7. ASSUME NEW t \in registered', sv'[r] = "last", Key(t) = Key(r) PROVE t \in caught'
      BY <2>1, <2>7 DEF Held
    <2> QED
      BY <2>4, <2>5, <2>6, <2>7 DEF Held, Key, UserOf
  <1>5. ASSUME NEW s \in Sockets,
               AnnounceOffline(s) \/ Authenticate(s) \/ AuthFails(s) \/ Refuse(s) \/ Open(s)
        PROVE  Held(r)'
    <2>1. /\ UNCHANGED <<registered, entries, caught>> /\ missed \subseteq missed'
          /\ sv[s] \in {"removed", "waiting", "redeemed"} \/ cl[s] = "connecting"
          /\ sv'[s] \in {"none", "waiting", "redeemed"}
          /\ \A t \in Sockets : t # s => sv'[t] = sv[t]
      BY <1>5 DEF AnnounceOffline, Authenticate, AuthFails, Refuse, Open, serverVars, TypeOK,
                  ConnectionTypes
    <2>2. sv[s] \notin Announced
      BY <2>1 DEF Announced, Unknown
    <2> QED
      BY <2>1, <2>2 DEF Held, Key, UserOf, Announced
  <1>6. ASSUME NEW i \in Instances, Restart(i) PROVE Held(r)'
    <2> DEFINE here == {s \in Sockets : Inst[s] = i}
    <2>1. /\ \A t \in Sockets : sv'[t] = IF t \in here THEN "none" ELSE sv[t]
          /\ registered' = registered \ here /\ caught' = caught \ here
          /\ entries' = {k \in entries : k[1] # i} /\ missed \subseteq missed'
      BY <1>6 DEF Restart
    <2>2. registered \subseteq Sockets /\ caught \subseteq Sockets
      BY DEF TypeOK, ServerTypes
    <2>3. r \in registered' => sv'[r] \in Announced /\ Key(r) \in entries'
      BY <2>1 DEF Held, Key
    <2>4. sv'[r] \in Announced => r \in registered' \cup caught'
      BY <2>1 DEF Held, Announced
    <2>5. r \in caught' => UserOf(r) \in missed'
      BY <2>1 DEF Held
    <2>6. ASSUME NEW t \in registered', sv'[r] = "last", Key(t) = Key(r) PROVE t \in caught'
      BY <2>1, <2>2, <2>6 DEF Held
    <2> QED
      BY <2>3, <2>4, <2>5, <2>6 DEF Held, Key, UserOf
  <1>7. ASSUME NEW s \in Sockets, OnClose(s) \/ OnMessage(s) \/ Lose(s) \/ Relay(s)
        PROVE  UNCHANGED <<sv, registered, entries, caught, missed>>
    BY <1>7 DEF OnClose, OnMessage, Lose, Relay, serverVars
  <1>8. ASSUME NEW i \in Instances, Subscriber(i) \/ SubscriberExits(i)
        PROVE  UNCHANGED <<sv, registered, entries, caught, missed>>
    BY <1>8 DEF Subscriber, SubscriberExits
  <1>9. ASSUME NEW d \in Devices, SignIn(d) \/ SignOut(d) \/ Remount(d) \/ Disable(d) \/ TimerFires(d)
        PROVE  UNCHANGED <<sv, registered, entries, caught, missed>>
    BY <1>9 DEF SignIn, SignOut, Remount, Disable, TimerFires, serverVars
  <1>10. ASSUME NEW d \in Devices, NEW t \in trying[d],
                \/ TicketAnswered(d, t) \/ OpenSocket(d, t) \/ AbandonAttempt(d, t)
                \/ AttemptFails(d, t)
         PROVE  UNCHANGED <<sv, registered, entries, caught, missed>>
    BY <1>10 DEF TicketAnswered, OpenSocket, AbandonAttempt, AttemptFails, serverVars
  <1>11. ASSUME NEW d \in Devices, NEW f \in Frames, Send(d, f)
         PROVE  UNCHANGED <<sv, registered, entries, caught, missed>>
    BY <1>11 DEF Send, serverVars
  <1>12. UNCHANGED vars => UNCHANGED <<sv, registered, entries, caught, missed>>
    BY DEF vars
  <1> QED
    BY <1>1, <1>2, <1>3, <1>4, <1>5, <1>6, <1>7, <1>8, <1>9, <1>10, <1>11, <1>12, HeldSame
       DEF Next, UserStep, ProviderStep, ClientStep, ServerStep

(***************************************************************************)
(* Presence                                                                *)
(***************************************************************************)
PresenceOf(u) == "online" \in presence[u] =>
    \E s \in Sockets : UserOf(s) = u /\ sv[s] \in Announced \cup Ending

LEMMA PresenceSame ==
    ASSUME NEW u, PresenceOf(u), presence'[u] = presence[u],
           \A s \in Sockets : UserOf(s) = u /\ sv[s] \in Announced \cup Ending
                                => sv'[s] \in Announced \cup Ending
    PROVE  PresenceOf(u)'
  BY DEF PresenceOf, UserOf

LEMMA GoneKept ==
    ASSUME ChannelInv, [Next]_vars PROVE GoneIsOffline'
  <1>1. SUFFICES ASSUME NEW u \in Users, u \notin missed' PROVE PresenceOf(u)'
    BY DEF GoneIsOffline, PresenceOf, UserOf
  <1>2. TypeOK /\ \A s \in Sockets : Held(s) /\ Unknown(s)
    BY DEF ChannelInv
  <1> USE <1>2 DEF TypeOK
  <1>3. missed \subseteq missed'
    <2>1. UNCHANGED missed => missed \subseteq missed'
      OBVIOUS
    <2>2. ASSUME NEW s \in Sockets, ServerStep(s) PROVE missed \subseteq missed'
      BY <2>2 DEF ServerStep, Authenticate, AuthFails, Register, Refuse, AnnounceOnline, Relay,
                  Unregister, RemoveEntry, AnnounceOffline, serverVars
    <2>3. ASSUME NEW s \in Sockets, ClientStep(s) \/ Lose(s) PROVE UNCHANGED missed
      BY <2>3 DEF ClientStep, Open, OnMessage, OnClose, Lose, serverVars
    <2>4. ASSUME NEW i \in Instances, Subscriber(i) \/ SubscriberExits(i) \/ Restart(i)
          PROVE  missed \subseteq missed'
      BY <2>4 DEF Subscriber, SubscriberExits, Restart
    <2>5. ASSUME NEW d \in Devices, ProviderStep(d) \/ SignIn(d) \/ SignOut(d) \/ Remount(d)
          PROVE  UNCHANGED missed
      BY <2>5 DEF ProviderStep, Disable, TimerFires, TicketAnswered, OpenSocket, AbandonAttempt,
                  AttemptFails, SignIn, SignOut, Remount, serverVars
    <2>6. ASSUME NEW d \in Devices, NEW f \in Frames, Send(d, f) PROVE UNCHANGED missed
      BY <2>6 DEF Send, serverVars
    <2>7. UNCHANGED vars => UNCHANGED missed
      BY DEF vars
    <2> QED
      BY <2>1, <2>2, <2>3, <2>4, <2>5, <2>6, <2>7 DEF Next, UserStep
  <1>4. PresenceOf(u)
    BY <1>1, <1>3 DEF ChannelInv, GoneIsOffline, PresenceOf
  <1>5. ASSUME NEW s \in Sockets, AnnounceOnline(s) PROVE PresenceOf(u)'
    <2>1. /\ sv[s] = "announcing" /\ \A t \in Sockets : sv'[t] = IF t = s THEN "serving" ELSE sv[t]
          /\ u # UserOf(s) => presence'[u] = presence[u]
      BY <1>5 DEF AnnounceOnline, Announce, ConnectionTypes, ServerTypes
    <2>2. CASE u = UserOf(s)
      BY <2>1, <2>2 DEF PresenceOf, UserOf, Announced
    <2>3. CASE u # UserOf(s)
      BY <1>4, <2>1, <2>3, PresenceSame DEF Announced
    <2> QED
      BY <2>2, <2>3
  <1>6. ASSUME NEW s \in Sockets, AnnounceOffline(s) PROVE PresenceOf(u)'
    <2>1. /\ \A t \in Sockets : t # s => sv'[t] = sv[t]
          /\ u # UserOf(s) => presence'[u] = presence[u]
      BY <1>6 DEF AnnounceOffline, Announce, ConnectionTypes, ServerTypes
    <2>2. CASE u = UserOf(s)
      <3>1. presence'[u] = {"offline"}
        BY <1>1, <1>6, <2>2 DEF AnnounceOffline, Announce, ServerTypes
      <3> QED
        BY <3>1 DEF PresenceOf
    <2>3. CASE u # UserOf(s)
      BY <1>4, <2>1, <2>3, PresenceSame
    <2> QED
      BY <2>2, <2>3
  <1>7. ASSUME NEW s \in Sockets, Unregister(s) PROVE PresenceOf(u)'
    <2>1. /\ sv[s] = "serving" /\ \A t \in Sockets : t # s => sv'[t] = sv[t]
          /\ sv'[s] = (IF IsLast(s) THEN "last" ELSE "none") /\ UNCHANGED presence
      BY <1>7 DEF Unregister, ConnectionTypes
    <2>2. CASE UserOf(s) # u \/ IsLast(s)
      BY <1>4, <2>1, <2>2, PresenceSame DEF Ending
    <2>3. CASE UserOf(s) = u /\ ~IsLast(s)
      <3>1. s \in registered /\ Key(s) \in entries
        BY <1>1, <1>3, <2>1, <2>3 DEF Held, Announced
      <3>2. PICK t \in Peers(s) : t # s
        BY <2>3, <3>1 DEF IsLast
      <3>3. t \in Sockets /\ UserOf(t) = u /\ sv[t] \in Announced
        BY <2>3, <3>2 DEF Peers, Held, ServerTypes
      <3> QED
        BY <2>1, <3>2, <3>3 DEF PresenceOf, UserOf
    <2> QED
      BY <2>2, <2>3
  <1>8. ASSUME NEW s \in Sockets,
               \/ Register(s) \/ RemoveEntry(s) \/ Authenticate(s) \/ AuthFails(s)
               \/ Refuse(s) \/ Open(s)
        PROVE  PresenceOf(u)'
    <2>1. /\ UNCHANGED presence /\ \A t \in Sockets : t # s => sv'[t] = sv[t]
          /\ \/ sv[s] \in {"redeemed", "waiting"} \/ cl[s] = "connecting"
             \/ sv'[s] = "removed"
      BY <1>8 DEF Register, RemoveEntry, Authenticate, AuthFails, Refuse, Open, serverVars,
                  ConnectionTypes
    <2>2. sv[s] \in Announced \cup Ending => sv'[s] \in Announced \cup Ending
      BY <2>1 DEF Announced, Ending, Unknown
    <2> QED
      BY <1>4, <2>1, <2>2, PresenceSame
  <1>9. ASSUME NEW i \in Instances, Restart(i) PROVE PresenceOf(u)'
    <2>1. UNCHANGED presence
      BY <1>9 DEF Restart
    <2>2. ASSUME NEW s \in Sockets, UserOf(s) = u, sv[s] \in Announced \cup Ending
          PROVE  sv'[s] \in Announced \cup Ending
      <3>1. Inst[s] # i
        BY <1>1, <1>9, <2>2 DEF Restart, Announced, Ending
      <3> QED
        BY <1>9, <2>2, <3>1 DEF Restart
    <2> QED
      BY <1>4, <2>1, <2>2, PresenceSame
  <1>10. CASE UNCHANGED <<sv, presence>>
    BY <1>4, <1>10, PresenceSame
  <1>11. ASSUME NEW s \in Sockets, OnClose(s) \/ OnMessage(s) \/ Lose(s) \/ Relay(s)
         PROVE  UNCHANGED <<sv, presence>>
    BY <1>11 DEF OnClose, OnMessage, Lose, Relay, serverVars
  <1>12. ASSUME NEW i \in Instances, Subscriber(i) \/ SubscriberExits(i)
         PROVE  UNCHANGED <<sv, presence>>
    BY <1>12 DEF Subscriber, SubscriberExits
  <1>13. ASSUME NEW d \in Devices, ProviderStep(d) \/ SignIn(d) \/ SignOut(d) \/ Remount(d)
         PROVE  UNCHANGED <<sv, presence>>
    BY <1>13 DEF ProviderStep, Disable, TimerFires, TicketAnswered, OpenSocket, AbandonAttempt,
                 AttemptFails, SignIn, SignOut, Remount, serverVars
  <1>14. ASSUME NEW d \in Devices, NEW f \in Frames, Send(d, f)
         PROVE  UNCHANGED <<sv, presence>>
    BY <1>14 DEF Send, serverVars
  <1>15. UNCHANGED vars => UNCHANGED <<sv, presence>>
    BY DEF vars
  <1> QED
    BY <1>5, <1>6, <1>7, <1>8, <1>9, <1>10, <1>11, <1>12, <1>13, <1>14, <1>15
       DEF Next, UserStep, ClientStep, ServerStep

(***************************************************************************)
(* The theorems                                                            *)
(***************************************************************************)
LEMMA InitInv == Init => ChannelInv
  <1> SUFFICES ASSUME Init PROVE ChannelInv
    OBVIOUS
  <1>1. TypeOK
    BY InitType
  <1>2. ASSUME NEW s \in Sockets PROVE Queued(s) /\ Unknown(s)
    BY EmptySeq DEF Init, Queued, TicketFirst, Unknown
  <1>3. ASSUME NEW d \in Devices PROVE Sound(d)
    BY DEF Init, Sound, OneSocket, OneAtATime, Off, On
  <1>4. ASSUME NEW s \in Sockets PROVE Held(s)
    BY DEF Init, Held, Announced
  <1>5. GoneIsOffline
    BY DEF Init, GoneIsOffline
  <1> QED
    BY <1>1, <1>2, <1>3, <1>4, <1>5 DEF ChannelInv

LEMMA NextInv == ChannelInv /\ [Next]_vars => ChannelInv'
  <1> SUFFICES ASSUME ChannelInv, [Next]_vars PROVE ChannelInv'
    OBVIOUS
  <1>1. TypeOK /\ \A s \in Sockets : Queued(s)
    BY DEF ChannelInv
  <1>2. TypeOK'
    BY <1>1, ProviderTyped, ConnectionTyped, ServerTyped, HistoryTyped DEF TypeOK
  <1> QED
    BY <1>2, QueuedKept, UnknownKept, SoundKept, HeldKept, GoneKept DEF ChannelInv

\* The invariant the theorems below follow from.
THEOREM ChannelInvariant == Spec => []ChannelInv
  BY InitInv, NextInv, PTL DEF Spec

\* Types, and attempts within their limit.
THEOREM TypeCorrect == Spec => []TypeOK
  <1>1. ChannelInv => TypeOK
    BY DEF ChannelInv
  <1> QED
    BY <1>1, ChannelInvariant, PTL

\* No overlap of connect's awaits leaks a socket (WebSocketContext, connect).
THEOREM SocketsTracked == Spec => []NoUntrackedSocket
  <1>1. ChannelInv => NoUntrackedSocket
    <2> SUFFICES ASSUME ChannelInv, NEW s \in Sockets, cl[s] \in {"connecting", "open"}
                 PROVE  wsRef[Dev[s]] = {s}
      BY DEF NoUntrackedSocket
    <2>1. Dev[s] \in Devices /\ OneSocket(Dev[s])
      BY ChannelAssumption DEF ChannelInv, Sound
    <2> QED
      BY <2>1 DEF OneSocket
  <1> QED
    BY <1>1, ChannelInvariant, PTL

\* Nothing of a provider survives its being switched off.
THEOREM OffCorrect == Spec => []OffIsOff
  <1>1. ChannelInv => OffIsOff
    BY DEF ChannelInv, Sound, Off, OffIsOff
  <1> QED
    BY <1>1, ChannelInvariant, PTL

\* A provider that is on is never left with nothing to wait for.
THEOREM TryingCorrect == Spec => []KeepsTrying
  <1>1. ChannelInv => KeepsTrying
    BY DEF ChannelInv, Sound, On, KeepsTrying
  <1> QED
    BY <1>1, ChannelInvariant, PTL

\* The registry follows the connections, but for those caught in a removal.
THEOREM RegistryCorrect == Spec => []RegistryAgrees
  <1>1. ChannelInv => RegistryAgrees
    BY DEF ChannelInv, Held, RegistryAgrees
  <1> QED
    BY <1>1, ChannelInvariant, PTL

\* The announced presence follows it, but for users a connection of whom was
\* caught or cut off.
THEOREM PresenceCorrect == Spec => []GoneIsOffline
  <1>1. ChannelInv => GoneIsOffline
    BY DEF ChannelInv
  <1> QED
    BY <1>1, ChannelInvariant, PTL

(***************************************************************************)
(* The frames on their way.  A frame is sent, relayed and heard of by every*)
(* instance once: as long as it waits for the server nobody has it, as long*)
(* as an instance is to hear of it from another nobody there has it, and as*)
(* long as a connection has it its device has not dispatched it.           *)
(***************************************************************************)
\* Where a sequence has f, and where the publications for an instance do.
At(q, f) == {k \in 1..Len(q) : q[k] = f}
Published(i, f) == {k \in 1..Len(bus[i]) : bus[i][k].frame = f}
\* Instance i is still to hear of f from another.
Abroad(i, f) == \E k \in Published(i, f) : bus[i][k].origin # i
LocalTo(d, i) == \A s \in Sockets : Dev[s] = d => Inst[s] = i

\* Nobody has been sent f.
Unspread(f) ==
    /\ \A s \in Sockets : At(toClient[s], f) = {}
    /\ \A i \in Instances : Published(i, f) = {}
    /\ \A d \in Devices : seen[d][f] = 0
    /\ \A o \in owed : o[1] # f
\* A frame the server has not relayed is in one place, one that was not sent in none.
InOnePlace(f) ==
    /\ f \notin sent => Unspread(f) /\ \A s \in Sockets : At(toServer[s], f) = {}
    /\ \A s \in Sockets : \A k \in At(toServer[s], f) :
          /\ Unspread(f)
          /\ \A t \in Sockets : \A l \in At(toServer[t], f) : s = t /\ k = l
\* The subscriber hears of it once, before anybody there has it ...
HeardOnce(f) ==
    \A i \in Instances :
        /\ \A k, l \in Published(i, f) : k = l
        /\ Abroad(i, f) =>
              /\ \A s \in Sockets : Inst[s] = i => At(toClient[s], f) = {}
              /\ \A d \in Devices : LocalTo(d, i) => seen[d][f] = 0
\* ... and a connection has it once, before its device dispatches it.
WrittenOnce(f) ==
    \A s \in Sockets :
        /\ \A k, l \in At(toClient[s], f) : k = l
        /\ fresh[s] /\ LocalTo(Dev[s], Inst[s]) /\ At(toClient[s], f) # {} => seen[Dev[s]][f] = 0
\* Nothing is left in a connection that is not open.
Emptied == \A s \in Sockets : cl[s] # "open" => toClient[s] = <<>>
SpreadInv ==
    /\ Emptied
    /\ \A f \in Frames : InOnePlace(f) /\ HeardOnce(f) /\ WrittenOnce(f)
    /\ DispatchedOnce
\* Whoever is owed a frame is being served, a member and not its sender; and
\* it has the frame, or will.
OwedOk(f, s) ==
    /\ cl[s] \in {"open", "closing"}
    /\ cl[s] = "open" => sv[s] \in Announced
    /\ UserOf(s) \in Members
    /\ \A k \in Published(Inst[s], f) : bus[Inst[s]][k].sender # UserOf(s)
    /\ Listening(s) =>
          seen[Dev[s]][f] > 0 \/ At(toClient[s], f) # {} \/ Abroad(Inst[s], f)
OwedInv == \A f \in Frames, s \in Sockets : <<f, s>> \in owed => OwedOk(f, s)

(***************************************************************************)
(* Places in queues                                                        *)
(***************************************************************************)
\* One sequence has no more of f than the other, in the same order.
Fewer(q, r, f) == \E m \in Nat : \A k \in At(q, f) : k + m \in At(r, f)

LEMMA FewerSame == ASSUME NEW q, NEW f PROVE Fewer(q, q, f)
  <1>1. \A k \in At(q, f) : k + 0 \in At(q, f)
    BY DEF At
  <1> QED
    BY <1>1 DEF Fewer

LEMMA AtEmpty == ASSUME NEW f PROVE At(<<>>, f) = {}
  BY DEF At

LEMMA FewerEmpty == ASSUME NEW q, NEW f PROVE Fewer(<<>>, q, f)
  BY AtEmpty DEF Fewer

LEMMA AtTail ==
    ASSUME NEW S, NEW q \in Seq(S), q # <<>>, NEW f
    PROVE  \A k \in At(Tail(q), f) : k + 1 \in At(q, f)
  <1>1. SUFFICES ASSUME NEW k \in 1..Len(Tail(q)), Tail(q)[k] = f
                 PROVE  k + 1 \in 1..Len(q) /\ q[k + 1] = f
    BY DEF At
  <1>2. Len(Tail(q)) = Len(q) - 1 /\ Tail(q)[k] = q[k + 1] /\ Len(q) \in Nat
    BY HeadTailProperties
  <1> QED
    BY <1>1, <1>2

LEMMA FewerTail ==
    ASSUME NEW S, NEW q \in Seq(S), q # <<>>, NEW f
    PROVE  Fewer(Tail(q), q, f)
  BY AtTail DEF Fewer

LEMMA AtAppend ==
    ASSUME NEW S, NEW q \in Seq(S), NEW g \in S, NEW f
    PROVE  At(Append(q, g), f) = At(q, f) \cup (IF g = f THEN {Len(q) + 1} ELSE {})
  <1>1. /\ Len(q) \in Nat /\ Len(Append(q, g)) = Len(q) + 1
        /\ \A k \in 1..Len(q) : Append(q, g)[k] = q[k]
        /\ Append(q, g)[Len(q) + 1] = g
    BY AppendProperties
  <1> DEFINE n == Len(q)
             r == Append(q, g)
  <1>2. n \in Nat /\ Len(r) = n + 1 /\ (\A k \in 1..n : r[k] = q[k]) /\ r[n + 1] = g
    BY <1>1
  <1>3. At(r, f) = {k \in 1..Len(r) : r[k] = f} /\ At(q, f) = {k \in 1..n : q[k] = f}
    BY DEF At
  <1> HIDE DEF n, r
  <1>4. At(r, f) = At(q, f) \cup (IF g = f THEN {n + 1} ELSE {})
    BY <1>2, <1>3
  <1> QED
    BY <1>4 DEF n, r

LEMMA FewerAppend ==
    ASSUME NEW S, NEW q \in Seq(S), NEW g \in S, NEW f, g # f
    PROVE  Fewer(Append(q, g), q, f)
  <1>1. /\ Len(q) \in Nat /\ Len(Append(q, g)) = Len(q) + 1
        /\ \A k \in 1..Len(q) : Append(q, g)[k] = q[k]
        /\ Append(q, g)[Len(q) + 1] = g
    BY AppendProperties
  <1> DEFINE n == Len(q)
             r == Append(q, g)
  <1>2. n \in Nat /\ Len(r) = n + 1 /\ (\A k \in 1..n : r[k] = q[k]) /\ r[n + 1] = g
    BY <1>1
  <1>3. At(r, f) = {k \in 1..Len(r) : r[k] = f} /\ At(q, f) = {k \in 1..n : q[k] = f}
    BY DEF At
  <1> HIDE DEF n, r
  <1>4. \A k \in At(r, f) : k + 0 \in At(q, f)
    BY <1>2, <1>3
  <1> QED
    BY <1>4 DEF Fewer, n, r

(***************************************************************************)
(* What the steps that carry no frame on do to one                         *)
(***************************************************************************)
\* A step that adds no f anywhere.
FewerPublished(i, f) ==
    \E m \in Nat : \A k \in Published(i, f)' :
        k + m \in Published(i, f) /\ bus'[i][k] = bus[i][k + m]
QuietFor(f) ==
    /\ f \in sent' <=> f \in sent
    /\ \A d \in Devices : seen'[d][f] = seen[d][f]
    /\ \A o \in owed' : o[1] = f => o \in owed
    /\ \A s \in Sockets :
          /\ Fewer(toServer'[s], toServer[s], f) /\ Fewer(toClient'[s], toClient[s], f)
          /\ fresh'[s] => fresh[s] \/ toClient'[s] = <<>>
    /\ \A i \in Instances : FewerPublished(i, f)

LEMMA PublishedSame ==
    ASSUME NEW i \in Instances, NEW f, bus'[i] = bus[i] PROVE FewerPublished(i, f)
  <1>1. \A k \in Published(i, f)' : k + 0 \in Published(i, f) /\ bus'[i][k] = bus[i][k + 0]
    BY DEF Published
  <1> QED
    BY <1>1 DEF FewerPublished

LEMMA PublishedNone ==
    ASSUME NEW i \in Instances, NEW f, bus'[i] = <<>>
    PROVE  FewerPublished(i, f) /\ Published(i, f)' = {}
  BY DEF FewerPublished, Published

LEMMA PublishedTail ==
    ASSUME ServerTypes, NEW i \in Instances, NEW f, bus[i] # <<>>, bus'[i] = Tail(bus[i])
    PROVE  /\ \A k \in Published(i, f)' :
                 k + 1 \in Published(i, f) /\ bus'[i][k] = bus[i][k + 1]
           /\ FewerPublished(i, f)
  <1>1. bus[i] \in Seq(Publications)
    BY DEF ServerTypes
  <1>2. SUFFICES ASSUME NEW k \in 1..Len(Tail(bus[i])), Tail(bus[i])[k].frame = f
                 PROVE  /\ k + 1 \in 1..Len(bus[i]) /\ bus[i][k + 1].frame = f
                        /\ Tail(bus[i])[k] = bus[i][k + 1]
    BY DEF Published, FewerPublished
  <1>3. Len(Tail(bus[i])) = Len(bus[i]) - 1 /\ Tail(bus[i])[k] = bus[i][k + 1]
        /\ Len(bus[i]) \in Nat
    BY <1>1, HeadTailProperties
  <1> QED
    BY <1>2, <1>3

LEMMA UnspreadKept ==
    ASSUME NEW f, QuietFor(f), Unspread(f) PROVE Unspread(f)'
  <1>1. \A s \in Sockets : At(toClient'[s], f) = {}
    BY DEF QuietFor, Unspread, Fewer
  <1>2. \A i \in Instances : Published(i, f)' = {}
    BY DEF QuietFor, Unspread, FewerPublished
  <1>3. \A d \in Devices : seen'[d][f] = 0
    BY DEF QuietFor, Unspread
  <1>4. \A o \in owed' : o[1] # f
    BY DEF QuietFor, Unspread
  <1> QED
    BY <1>1, <1>2, <1>3, <1>4 DEF Unspread

LEMMA FewerOnce ==
    ASSUME NEW q, NEW r, NEW f, Fewer(q, r, f), \A k, l \in At(r, f) : k = l
    PROVE  /\ \A k, l \in At(q, f) : k = l
           /\ At(q, f) # {} => At(r, f) # {}
  <1>1. PICK m \in Nat : \A k \in At(q, f) : k + m \in At(r, f)
    BY DEF Fewer
  <1>2. ASSUME NEW k \in At(q, f), NEW l \in At(q, f) PROVE k = l
    <2>1. k \in Nat /\ l \in Nat
      BY <1>2 DEF At
    <2>2. k + m = l + m
      BY <1>1, <1>2
    <2> QED
      BY <2>1, <2>2
  <1> QED
    BY <1>1, <1>2

LEMMA QuietKeeps ==
    ASSUME NEW f \in Frames, QuietFor(f), InOnePlace(f), HeardOnce(f), WrittenOnce(f)
    PROVE  InOnePlace(f)' /\ HeardOnce(f)' /\ WrittenOnce(f)'
  <1>1. InOnePlace(f)'
    <2>1. ASSUME f \notin sent'
          PROVE  Unspread(f)' /\ \A s \in Sockets : At(toServer'[s], f) = {}
      <3>1. f \notin sent
        BY <2>1 DEF QuietFor
      <3>2. Unspread(f) /\ \A s \in Sockets : At(toServer[s], f) = {}
        BY <3>1 DEF InOnePlace
      <3> QED
        BY <3>2, UnspreadKept DEF QuietFor, Fewer
    <2>2. ASSUME NEW s \in Sockets, NEW k \in At(toServer'[s], f)
          PROVE  /\ Unspread(f)'
                 /\ \A t \in Sockets : \A l \in At(toServer'[t], f) : s = t /\ k = l
      <3>1. Fewer(toServer'[s], toServer[s], f) /\ (\A j, l \in At(toServer[s], f) : j = l)
        BY DEF QuietFor, InOnePlace
      <3>2. At(toServer[s], f) # {} /\ \A j, l \in At(toServer'[s], f) : j = l
        BY <2>2, <3>1, FewerOnce
      <3>3. Unspread(f)
        BY <3>2 DEF InOnePlace
      <3>4. ASSUME NEW t \in Sockets, NEW l \in At(toServer'[t], f) PROVE s = t /\ k = l
        <4>1. At(toServer[t], f) # {}
          BY <3>4 DEF QuietFor, Fewer
        <4>2. s = t
          BY <3>2, <4>1 DEF InOnePlace
        <4> QED
          BY <2>2, <3>2, <3>4, <4>2
      <3> QED
        BY <3>3, <3>4, UnspreadKept
    <2> QED
      BY <2>1, <2>2 DEF InOnePlace
  <1>2. HeardOnce(f)'
    <2>1. SUFFICES ASSUME NEW i \in Instances
                   PROVE  /\ \A k, l \in Published(i, f)' : k = l
                          /\ Abroad(i, f)' =>
                                /\ \A s \in Sockets : Inst[s] = i => At(toClient'[s], f) = {}
                                /\ \A d \in Devices : LocalTo(d, i) => seen'[d][f] = 0
      BY DEF HeardOnce, LocalTo
    <2>2. PICK m \in Nat : \A k \in Published(i, f)' :
              k + m \in Published(i, f) /\ bus'[i][k] = bus[i][k + m]
      BY DEF QuietFor, FewerPublished
    <2>3. ASSUME NEW k \in Published(i, f)', NEW l \in Published(i, f)' PROVE k = l
      <3>1. k \in Nat /\ l \in Nat
        BY <2>3 DEF Published
      <3>2. k + m = l + m
        BY <2>2, <2>3 DEF HeardOnce
      <3> QED
        BY <3>1, <3>2
    <2>4. ASSUME Abroad(i, f)'
          PROVE  /\ \A s \in Sockets : Inst[s] = i => At(toClient'[s], f) = {}
                 /\ \A d \in Devices : LocalTo(d, i) => seen'[d][f] = 0
      <3>1. Abroad(i, f)
        BY <2>2, <2>4 DEF Abroad
      <3>2. /\ \A s \in Sockets : Inst[s] = i => At(toClient[s], f) = {}
            /\ \A d \in Devices : LocalTo(d, i) => seen[d][f] = 0
        BY <3>1 DEF HeardOnce
      <3> QED
        BY <3>2 DEF QuietFor, Fewer
    <2> QED
      BY <2>3, <2>4
  <1>3. WrittenOnce(f)'
    <2>1. SUFFICES ASSUME NEW s \in Sockets
                   PROVE  /\ \A k, l \in At(toClient'[s], f) : k = l
                          /\ fresh'[s] /\ LocalTo(Dev[s], Inst[s]) /\ At(toClient'[s], f) # {}
                                => seen'[Dev[s]][f] = 0
      BY DEF WrittenOnce, LocalTo
    <2>2. /\ \A k, l \in At(toClient'[s], f) : k = l
          /\ At(toClient'[s], f) # {} => At(toClient[s], f) # {}
      BY FewerOnce DEF QuietFor, WrittenOnce
    <2>3. ASSUME fresh'[s], LocalTo(Dev[s], Inst[s]), At(toClient'[s], f) # {}
          PROVE  seen'[Dev[s]][f] = 0
      <3>1. fresh[s] /\ Dev[s] \in Devices
        BY <2>3, AtEmpty, ChannelAssumption DEF QuietFor
      <3> QED
        BY <2>2, <2>3, <3>1 DEF QuietFor, WrittenOnce
    <2> QED
      BY <2>2, <2>3
  <1> QED
    BY <1>1, <1>2, <1>3

\* What may become of a queue in a step that adds no frame to it.
Shrunk(q, r) == q = r \/ q = <<>> \/ (r # <<>> /\ q = Tail(r))

LEMMA FewerShrunk ==
    ASSUME NEW S, NEW r \in Seq(S), NEW q, Shrunk(q, r), NEW f PROVE Fewer(q, r, f)
  BY FewerSame, FewerEmpty, FewerTail DEF Shrunk

LEMMA QuietStep ==
    ASSUME TypeOK, UNCHANGED <<sent, seen>>, owed' \subseteq owed,
           \A s \in Sockets :
              /\ Shrunk(toServer'[s], toServer[s]) \/ toServer'[s] = <<"authenticate">>
              /\ \/ Shrunk(toClient'[s], toClient[s])
                 \/ toClient'[s] = Append(toClient[s], "authenticated")
              /\ fresh'[s] => fresh[s] \/ toClient'[s] = <<>>,
           \A i \in Instances : Shrunk(bus'[i], bus[i])
    PROVE  \A f \in Frames : QuietFor(f)
  <1> SUFFICES ASSUME NEW f \in Frames PROVE QuietFor(f)
    OBVIOUS
  <1>1. ASSUME NEW s \in Sockets
        PROVE  Fewer(toServer'[s], toServer[s], f) /\ Fewer(toClient'[s], toClient[s], f)
    <2>1. /\ toServer[s] \in Seq(Frames \cup {"authenticate"})
          /\ toClient[s] \in Seq(Frames \cup {"authenticated"})
          /\ f # "authenticate" /\ f # "authenticated"
      BY ChannelAssumption DEF TypeOK, ConnectionTypes
    <2>2. At(<<"authenticate">>, f) = {}
      BY <2>1 DEF At
    <2>3. Fewer(<<"authenticate">>, toServer[s], f)
      BY <2>2 DEF Fewer
    <2>4. Fewer(toServer'[s], toServer[s], f)
      BY <2>1, <2>3, FewerShrunk
    <2>5. "authenticated" \in Frames \cup {"authenticated"}
      OBVIOUS
    <2>6. Fewer(Append(toClient[s], "authenticated"), toClient[s], f)
      BY <2>1, <2>5, FewerAppend
    <2>7. Fewer(toClient'[s], toClient[s], f)
      BY <2>1, <2>6, FewerShrunk
    <2> QED
      BY <2>4, <2>7
  <1>2. ASSUME NEW i \in Instances PROVE FewerPublished(i, f)
    BY PublishedSame, PublishedNone, PublishedTail DEF Shrunk, TypeOK
  <1> QED
    BY <1>1, <1>2 DEF QuietFor

AllQuiet == \A f \in Frames : QuietFor(f)

\* No step but the four that carry frames on does anything to them but lose them.
LEMMA OthersQuiet ==
    ASSUME TypeOK, Emptied, [Next]_vars,
           ~ \E d \in Devices, g \in Frames : Send(d, g),
           ~ \E s \in Sockets : OnMessage(s) \/ Relay(s),
           ~ \E i \in Instances : Subscriber(i)
    PROVE  AllQuiet /\ Emptied' /\ UNCHANGED seen
  <1>0. ConnectionTypes /\ ServerTypes
    BY DEF TypeOK
  <1>1. ASSUME NEW d \in Devices, SignIn(d) \/ Remount(d) \/ Disable(d) \/ TimerFires(d)
        PROVE  AllQuiet /\ Emptied' /\ UNCHANGED seen
    <2>1. UNCHANGED <<sent, seen, owed, bus, toServer>> /\ Close(wsRef[d]) /\ fresh' = Superseded(d)
      BY <1>1 DEF SignIn, Remount, Disable, TimerFires, Connect, serverVars, frameVars
    <2>2. \A s \in Sockets : /\ toClient'[s] = toClient[s] \/ toClient'[s] = <<>>
                             /\ fresh'[s] => fresh[s]
                             /\ cl'[s] # "open" => toClient'[s] = <<>> \/ cl[s] # "open"
      BY <2>1 DEF Close, Superseded
    <2>3. AllQuiet
      BY <2>1, <2>2, QuietStep DEF Shrunk, AllQuiet
    <2> QED
      BY <2>1, <2>2, <2>3 DEF Emptied
  <1>2. ASSUME NEW d \in Devices, NEW t \in trying[d],
               TicketAnswered(d, t) \/ AbandonAttempt(d, t) \/ AttemptFails(d, t)
        PROVE  AllQuiet /\ Emptied' /\ UNCHANGED seen
    <2>1. UNCHANGED <<sent, seen, owed, bus, toServer, toClient, fresh, cl>>
      BY <1>2 DEF TicketAnswered, AbandonAttempt, AttemptFails, serverVars, frameVars
    <2>2. AllQuiet
      BY <2>1, QuietStep DEF Shrunk, AllQuiet
    <2> QED
      BY <2>1, <2>2 DEF Emptied
  <1>3. ASSUME NEW d \in Devices, NEW t \in trying[d], OpenSocket(d, t)
        PROVE  AllQuiet /\ Emptied' /\ UNCHANGED seen
    <2>1. UNCHANGED <<sent, seen, owed, bus, toServer, toClient>>
      BY <1>3 DEF OpenSocket, serverVars, frameVars
    <2>2. PICK s \in Sockets : /\ cl[s] = "none" /\ fresh' = [fresh EXCEPT ![s] = t.current]
                               /\ cl' = [cl EXCEPT ![s] = "connecting"]
      BY <1>3 DEF OpenSocket, Unused
    <2>3. toClient[s] = <<>>
      BY <2>2 DEF Emptied
    <2>4. \A r \in Sockets : r # s => fresh'[r] = fresh[r] /\ cl'[r] = cl[r]
      BY <1>0, <2>2 DEF ConnectionTypes
    <2>5. AllQuiet
      BY <2>1, <2>3, <2>4, QuietStep DEF Shrunk, AllQuiet
    <2> QED
      BY <2>1, <2>3, <2>4, <2>5 DEF Emptied
  <1>4. ASSUME NEW d \in Devices, SignOut(d)
        PROVE  AllQuiet /\ Emptied' /\ UNCHANGED seen
    <2>1. UNCHANGED <<sent, seen, owed, bus, toServer, toClient, fresh, cl>>
      BY <1>4 DEF SignOut, serverVars, frameVars
    <2>2. AllQuiet
      BY <2>1, QuietStep DEF Shrunk, AllQuiet
    <2> QED
      BY <2>1, <2>2 DEF Emptied
  <1>5. ASSUME NEW s \in Sockets, Open(s)
        PROVE  AllQuiet /\ Emptied' /\ UNCHANGED seen
    <2>1. UNCHANGED <<sent, seen, owed, bus, toClient, fresh>>
      BY <1>5 DEF Open, serverVars, frameVars
    <2>2. \A r \in Sockets : /\ toServer'[r] \in {toServer[r], <<>>, <<"authenticate">>}
                             /\ r # s => cl'[r] = cl[r]
      BY <1>0, <1>5 DEF Open, ConnectionTypes
    <2>3. toClient[s] = <<>>
      BY <1>5 DEF Open, Emptied
    <2>4. AllQuiet
      BY <2>1, <2>2, QuietStep DEF Shrunk, AllQuiet
    <2> QED
      BY <2>1, <2>2, <2>3, <2>4 DEF Emptied
  <1>6. ASSUME NEW s \in Sockets, OnClose(s)
        PROVE  AllQuiet /\ Emptied' /\ UNCHANGED seen
    <2>1. UNCHANGED <<sent, seen, bus, toServer, toClient>> /\ owed' \subseteq owed
      BY <1>6 DEF OnClose, serverVars
    <2>2. \A r \in Sockets : (fresh'[r] => fresh[r]) /\ (r # s => cl'[r] = cl[r])
      BY <1>0, <1>6 DEF OnClose, ConnectionTypes
    <2>3. toClient[s] = <<>>
      BY <1>6 DEF OnClose, Emptied
    <2>4. AllQuiet
      BY <2>1, <2>2, QuietStep DEF Shrunk, AllQuiet
    <2> QED
      BY <2>1, <2>2, <2>3, <2>4 DEF Emptied
  <1>7. ASSUME NEW s \in Sockets, Lose(s)
        PROVE  AllQuiet /\ Emptied' /\ UNCHANGED seen
    <2>1. UNCHANGED <<sent, seen, owed, bus, fresh>> /\ Close({s})
      BY <1>7 DEF Lose, serverVars, frameVars
    <2>2. \A r \in Sockets : /\ toServer'[r] = toServer[r] \/ toServer'[r] = <<>>
                             /\ toClient'[r] = toClient[r] \/ toClient'[r] = <<>>
                             /\ cl'[r] # "open" => toClient'[r] = <<>> \/ cl[r] # "open"
      BY <1>0, <1>7, <2>1 DEF Lose, Close, ConnectionTypes
    <2>3. AllQuiet
      BY <2>1, <2>2, QuietStep DEF Shrunk, AllQuiet
    <2> QED
      BY <2>1, <2>2, <2>3 DEF Emptied
  <1>8. ASSUME NEW s \in Sockets, Authenticate(s)
        PROVE  AllQuiet /\ Emptied' /\ UNCHANGED seen
    <2>1. UNCHANGED <<sent, seen, owed, bus, fresh, cl>>
      BY <1>8 DEF Authenticate, serverVars, frameVars
    <2>2. /\ toServer[s] # <<>> /\ toServer' = [toServer EXCEPT ![s] = Tail(@)]
          /\ toClient' = Written({s}, "authenticated")
      BY <1>8 DEF Authenticate
    <2>3. \A r \in Sockets : Shrunk(toServer'[r], toServer[r])
      BY <1>0, <2>2 DEF Shrunk, ConnectionTypes
    <2>4. \A r \in Sockets : /\ \/ toClient'[r] = toClient[r]
                                \/ toClient'[r] = Append(toClient[r], "authenticated")
                             /\ cl[r] # "open" => toClient'[r] = toClient[r]
      BY <2>2 DEF Written
    <2>5. AllQuiet
      BY <2>1, <2>3, <2>4, QuietStep DEF Shrunk, AllQuiet
    <2> QED
      BY <2>1, <2>4, <2>5 DEF Emptied
  <1>9. ASSUME NEW s \in Sockets, AuthFails(s) \/ Refuse(s)
        PROVE  AllQuiet /\ Emptied' /\ UNCHANGED seen
    <2>1. UNCHANGED <<sent, seen, owed, bus, fresh, cl>>
      BY <1>9 DEF AuthFails, Refuse, serverVars, frameVars
    <2>2. \A r \in Sockets : /\ toServer'[r] = toServer[r] \/ toServer'[r] = <<>>
                             /\ toClient'[r] = toClient[r] \/ toClient'[r] = <<>>
      BY <1>0, <1>9 DEF AuthFails, Refuse, ConnectionTypes
    <2>3. AllQuiet
      BY <2>1, <2>2, QuietStep DEF Shrunk, AllQuiet
    <2> QED
      BY <2>1, <2>2, <2>3 DEF Emptied
  <1>10. ASSUME NEW s \in Sockets,
                \/ Register(s) \/ AnnounceOnline(s) \/ Unregister(s) \/ RemoveEntry(s)
                \/ AnnounceOffline(s)
         PROVE  AllQuiet /\ Emptied' /\ UNCHANGED seen
    <2>1. UNCHANGED <<sent, seen, owed, bus, toServer, toClient, fresh, cl>>
      BY <1>10 DEF Register, AnnounceOnline, Unregister, RemoveEntry, AnnounceOffline, frameVars
    <2>2. AllQuiet
      BY <2>1, QuietStep DEF Shrunk, AllQuiet
    <2> QED
      BY <2>1, <2>2 DEF Emptied
  <1>11. ASSUME NEW i \in Instances, SubscriberExits(i) \/ Restart(i)
         PROVE  AllQuiet /\ Emptied' /\ UNCHANGED seen
    <2>1. UNCHANGED <<sent, seen, toClient, fresh, cl>> /\ owed' \subseteq owed
      BY <1>11 DEF SubscriberExits, Restart
    <2>2. \A r \in Sockets : toServer'[r] = toServer[r] \/ toServer'[r] = <<>>
      BY <1>11 DEF SubscriberExits, Restart
    <2>3. \A j \in Instances : bus'[j] = bus[j] \/ bus'[j] = <<>>
      BY <1>0, <1>11 DEF SubscriberExits, Restart, ServerTypes
    <2>4. AllQuiet
      BY <2>1, <2>2, <2>3, QuietStep DEF Shrunk, AllQuiet
    <2> QED
      BY <2>1, <2>4 DEF Emptied
  <1>12. ASSUME UNCHANGED vars PROVE AllQuiet /\ Emptied' /\ UNCHANGED seen
    <2>1. UNCHANGED <<sent, seen, owed, bus, toServer, toClient, fresh, cl>>
      BY <1>12 DEF vars
    <2>2. AllQuiet
      BY <2>1, QuietStep DEF Shrunk, AllQuiet
    <2> QED
      BY <2>1, <2>2 DEF Emptied
  <1> QED
    BY <1>1, <1>2, <1>3, <1>4, <1>5, <1>6, <1>7, <1>8, <1>9, <1>10, <1>11, <1>12
       DEF Next, UserStep, ProviderStep, ClientStep, ServerStep

(***************************************************************************)
(* What the four steps that carry frames on do                             *)
(***************************************************************************)
\* What holds of a frame in every state.
OneCopy(f) == InOnePlace(f) /\ HeardOnce(f) /\ WrittenOnce(f)

LEMMA SendSpread ==
    ASSUME TypeOK, SpreadInv, NEW d \in Devices, NEW g \in Frames, Send(d, g),
           wsRef[d] \subseteq Sockets
    PROVE  SpreadInv'
  <1>0. ConnectionTypes /\ UNCHANGED <<seen, owed, bus, toClient, fresh, cl>>
    BY DEF Send, TypeOK, serverVars
  <1>1. PICK s \in Sockets : toServer' = [toServer EXCEPT ![s] = Append(@, g)]
    BY DEF Send
  <1>2. /\ toServer[s] \in Seq(Frames \cup {"authenticate"})
        /\ toServer'[s] = Append(toServer[s], g)
        /\ \A t \in Sockets : t # s => toServer'[t] = toServer[t]
    BY <1>0, <1>1 DEF ConnectionTypes
  <1>3. sent' = sent \cup {g} /\ g \notin sent
    BY DEF Send
  <1>4. ASSUME NEW f \in Frames, f # g PROVE OneCopy(f)'
    <2>1. Fewer(toServer'[s], toServer[s], f)
      BY <1>2, <1>4, FewerAppend
    <2>2. \A t \in Sockets : Fewer(toServer'[t], toServer[t], f)
      BY <1>2, <2>1, FewerSame
    <2>3. QuietFor(f)
      BY <1>0, <1>3, <1>4, <2>2, FewerSame, PublishedSame DEF QuietFor
    <2> QED
      BY <2>3, QuietKeeps DEF SpreadInv, OneCopy
  <1>5. OneCopy(g)'
    <2>1. Unspread(g) /\ \A t \in Sockets : At(toServer[t], g) = {}
      BY <1>3 DEF SpreadInv, InOnePlace
    <2>2. Unspread(g)'
      BY <1>0, <2>1 DEF Unspread, Published
    <2>3. At(toServer'[s], g)
              = At(toServer[s], g) \cup (IF g = g THEN {Len(toServer[s]) + 1} ELSE {})
      BY <1>2, AtAppend
    <2>4. \A t \in Sockets : \A k \in At(toServer'[t], g) : t = s /\ k = Len(toServer[s]) + 1
      BY <1>2, <2>1, <2>3
    <2>5. InOnePlace(g)'
      BY <1>3, <2>2, <2>4 DEF InOnePlace
    <2>6. HeardOnce(g)' /\ WrittenOnce(g)'
      BY <2>2 DEF Unspread, HeardOnce, WrittenOnce, Abroad
    <2> QED
      BY <2>5, <2>6 DEF OneCopy
  <1>6. Emptied' /\ DispatchedOnce'
    BY <1>0 DEF SpreadInv, Emptied, DispatchedOnce
  <1> QED
    BY <1>4, <1>5, <1>6 DEF SpreadInv, OneCopy

LEMMA OnMessageSpread ==
    ASSUME ChannelInv, SpreadInv, NEW s \in Sockets, OnMessage(s) PROVE SpreadInv'
  <1>1. PICK m : m = Head(toClient[s])
    OBVIOUS
  <1>2. /\ ConnectionTypes /\ HistoryTypes
        /\ UNCHANGED <<sent, owed, bus, toServer, fresh, cl>>
        /\ Dev[s] \in Devices /\ OneSocket(Dev[s])
    BY ChannelAssumption DEF OnMessage, ChannelInv, TypeOK, Sound, serverVars
  <1>3. /\ toClient[s] # <<>> /\ toClient[s] \in Seq(Frames \cup {"authenticated"})
        /\ toClient'[s] = Tail(toClient[s])
        /\ \A t \in Sockets : t # s => toClient'[t] = toClient[t]
    BY <1>2 DEF OnMessage, ConnectionTypes
  <1>4. \A t \in Sockets : \A f : Fewer(toClient'[t], toClient[t], f)
    BY <1>3, FewerSame, FewerTail
  <1>5. ASSUME NEW f \in Frames, \A d \in Devices : seen'[d][f] = seen[d][f]
        PROVE  OneCopy(f)'
    <2>1. QuietFor(f)
      BY <1>2, <1>4, <1>5, FewerSame, PublishedSame DEF QuietFor
    <2> QED
      BY <2>1, QuietKeeps DEF SpreadInv, OneCopy
  <1>6. CASE UNCHANGED seen
    <2>1. DispatchedOnce' /\ Emptied'
      BY <1>2, <1>3, <1>6, AtEmpty DEF OnMessage, SpreadInv, Emptied, DispatchedOnce
    <2> QED
      BY <1>5, <1>6, <2>1 DEF SpreadInv, OneCopy
  <1>7. CASE fresh[s] /\ m \in Frames /\ seen[Dev[s]][m] < 2
    <2> DEFINE d == Dev[s]
    <2>1. seen' = [seen EXCEPT ![d] = [seen[d] EXCEPT ![m] = @ + 1]]
      BY <1>1, <1>7 DEF OnMessage
    <2>2. /\ \A e \in Devices, f \in Frames : (e # d \/ f # m) => seen'[e][f] = seen[e][f]
          /\ seen'[d][m] = seen[d][m] + 1
      BY <1>2, <1>7, <2>1 DEF HistoryTypes
    <2>3. 1 \in At(toClient[s], m)
      <3>1. Len(toClient[s]) \in Nat /\ Len(toClient[s]) # 0 /\ toClient[s][1] = m
        BY <1>1, <1>3, LenProperties, HeadTailProperties
      <3> QED
        BY <3>1 DEF At
    <2>4. LocalTo(d, Inst[s]) => seen[d][m] = 0
      BY <1>7, <2>3 DEF SpreadInv, WrittenOnce
    <2>5. ASSUME NEW e \in Devices, NEW i \in Instances, LocalTo(e, i), NEW f \in Frames
          PROVE  seen'[e][f] <= 1
      <3>1. CASE e # d \/ f # m
        BY <2>2, <2>5, <3>1 DEF SpreadInv, DispatchedOnce, LocalTo
      <3>2. CASE e = d /\ f = m
        <4>1. Inst[s] = i
          BY <2>5, <3>2 DEF LocalTo
        <4> QED
          BY <2>2, <2>4, <2>5, <3>2, <4>1
      <3> QED
        BY <3>1, <3>2
    <2>6. DispatchedOnce'
      BY <2>5 DEF DispatchedOnce, LocalTo
    <2>7. Emptied'
      BY <1>2, <1>3 DEF OnMessage, SpreadInv, Emptied
    <2>8. ~ Unspread(m)
      BY <2>3 DEF Unspread
    <2>9. m \in sent /\ \A t \in Sockets : At(toServer[t], m) = {}
      BY <1>7, <2>8 DEF SpreadInv, InOnePlace
    <2>10. InOnePlace(m)'
      BY <1>2, <2>9 DEF InOnePlace
    <2>11. ASSUME NEW i \in Instances
           PROVE  /\ \A k, l \in Published(i, m)' : k = l
                  /\ Abroad(i, m)' =>
                        /\ \A t \in Sockets : Inst[t] = i => At(toClient'[t], m) = {}
                        /\ \A e \in Devices : LocalTo(e, i) => seen'[e][m] = 0
      <3>1. Published(i, m)' = Published(i, m) /\ (Abroad(i, m)' <=> Abroad(i, m))
        BY <1>2 DEF Published, Abroad
      <3>2. \A k, l \in Published(i, m) : k = l
        BY <1>7 DEF SpreadInv, HeardOnce
      <3>3. ASSUME Abroad(i, m)
            PROVE  /\ \A t \in Sockets : Inst[t] = i => At(toClient'[t], m) = {}
                   /\ \A e \in Devices : LocalTo(e, i) => seen'[e][m] = 0
        <4>1. /\ \A t \in Sockets : Inst[t] = i => At(toClient[t], m) = {}
              /\ \A e \in Devices : LocalTo(e, i) => seen[e][m] = 0
          BY <1>7, <3>3 DEF SpreadInv, HeardOnce
        <4>2. Inst[s] # i
          BY <2>3, <4>1
        <4>3. ~ LocalTo(d, i)
          BY <4>2 DEF LocalTo
        <4>4. \A t \in Sockets : Inst[t] = i => At(toClient'[t], m) = {}
          BY <1>4, <4>1 DEF Fewer
        <4>5. \A e \in Devices : LocalTo(e, i) => seen'[e][m] = 0
          BY <1>7, <2>2, <4>1, <4>3
        <4> QED
          BY <4>4, <4>5
      <3> QED
        BY <3>1, <3>2, <3>3
    <2>12. HeardOnce(m)'
      BY <2>11 DEF HeardOnce, LocalTo
    <2>13. ASSUME NEW t \in Sockets
           PROVE  /\ \A k, l \in At(toClient'[t], m) : k = l
                  /\ fresh'[t] /\ LocalTo(Dev[t], Inst[t]) /\ At(toClient'[t], m) # {}
                        => seen'[Dev[t]][m] = 0
      <3>1. \A k, l \in At(toClient[t], m) : k = l
        BY <1>7 DEF SpreadInv, WrittenOnce
      <3>2. Fewer(toClient'[t], toClient[t], m)
        BY <1>4
      <3>3. /\ \A k, l \in At(toClient'[t], m) : k = l
            /\ At(toClient'[t], m) # {} => At(toClient[t], m) # {}
        BY <3>1, <3>2, FewerOnce
      <3>4. ASSUME fresh'[t], LocalTo(Dev[t], Inst[t]), At(toClient'[t], m) # {}
            PROVE  seen'[Dev[t]][m] = 0
        <4>1. t # s
          <5>1. SUFFICES ASSUME t = s PROVE FALSE
            OBVIOUS
          <5>2. PICK k \in At(Tail(toClient[s]), m) : TRUE
            BY <1>3, <3>4, <5>1
          <5>3. k + 1 \in At(toClient[s], m) /\ k \in 1..Len(Tail(toClient[s]))
            BY <1>3, <5>2, AtTail DEF At
          <5>4. k + 1 = 1
            BY <2>3, <3>1, <5>1, <5>3
          <5> QED
            BY <5>3, <5>4
        <4>2. Dev[t] # d
          <5>1. SUFFICES ASSUME Dev[t] = d PROVE FALSE
            OBVIOUS
          <5>2. fresh[t]
            BY <1>2, <3>4
          <5>3. t \in wsRef[d] /\ s \in wsRef[d]
            BY <1>2, <1>7, <5>1, <5>2 DEF OneSocket
          <5>4. t = s
            BY <1>2, <5>3 DEF OneSocket
          <5> QED
            BY <4>1, <5>4
        <4>3. fresh[t] /\ Dev[t] \in Devices /\ At(toClient[t], m) # {}
          BY <1>2, <3>3, <3>4, ChannelAssumption
        <4>4. seen[Dev[t]][m] = 0
          BY <1>7, <3>4, <4>3 DEF SpreadInv, WrittenOnce
        <4> QED
          BY <1>7, <2>2, <4>2, <4>3, <4>4
      <3> QED
        BY <3>3, <3>4
    <2>14. WrittenOnce(m)'
      BY <2>13 DEF WrittenOnce, LocalTo
    <2>15. \A f \in Frames : OneCopy(f)'
      <3>1. ASSUME NEW f \in Frames, f # m PROVE OneCopy(f)'
        BY <1>5, <2>2, <3>1
      <3> QED
        BY <3>1, <2>10, <2>12, <2>14 DEF OneCopy
    <2> QED
      BY <2>6, <2>7, <2>15 DEF SpreadInv, OneCopy
  <1> QED
    BY <1>1, <1>6, <1>7 DEF OnMessage

LEMMA WrittenMore ==
    ASSUME ConnectionTypes, NEW S, NEW m \in Frames, NEW t \in Sockets
    PROVE  /\ \A f : f # m => Fewer(Written(S, m)[t], toClient[t], f)
           /\ At(toClient[t], m) = {} => \A k, l \in At(Written(S, m)[t], m) : k = l
           /\ cl[t] # "open" \/ t \notin S => Written(S, m)[t] = toClient[t]
  <1>1. toClient[t] \in Seq(Frames \cup {"authenticated"}) /\ m \in Frames \cup {"authenticated"}
    BY DEF ConnectionTypes
  <1>2. \/ Written(S, m)[t] = toClient[t] /\ (cl[t] # "open" \/ t \notin S)
        \/ Written(S, m)[t] = Append(toClient[t], m) /\ cl[t] = "open" /\ t \in S
    BY DEF Written
  <1>3. At(Append(toClient[t], m), m)
            = At(toClient[t], m) \cup (IF m = m THEN {Len(toClient[t]) + 1} ELSE {})
    BY <1>1, AtAppend
  <1>4. \A f : f # m => Fewer(Append(toClient[t], m), toClient[t], f)
    BY <1>1, FewerAppend
  <1>5. \A f : f # m => Fewer(Written(S, m)[t], toClient[t], f)
    BY <1>2, <1>4, FewerSame
  <1>6. ASSUME At(toClient[t], m) = {} PROVE \A k, l \in At(Written(S, m)[t], m) : k = l
    <2>1. \A k, l \in At(toClient[t], m) : k = l
      BY <1>6
    <2>2. \A k \in At(Append(toClient[t], m), m) : k = Len(toClient[t]) + 1
      BY <1>3, <1>6
    <2> QED
      BY <1>2, <2>1, <2>2
  <1> QED
    BY <1>2, <1>5, <1>6

LEMMA PublishedMore ==
    ASSUME ServerTypes, NEW i \in Instances, NEW r \in Publications, bus'[i] = Append(bus[i], r)
    PROVE  /\ \A f : f # r.frame => FewerPublished(i, f)
           /\ \A k \in Published(i, r.frame)' :
                 k \in Published(i, r.frame) \/ (k = Len(bus[i]) + 1 /\ bus'[i][k] = r)
           /\ \A k \in 1..Len(bus[i]) : bus'[i][k] = bus[i][k]
           /\ Len(bus[i]) + 1 \in 1..Len(bus'[i]) /\ bus'[i][Len(bus[i]) + 1] = r
  <1> DEFINE q == bus[i]
             p == Append(q, r)
             n == Len(q)
  <1>1. bus[i] \in Seq(Publications)
    BY DEF ServerTypes
  <1>2. n \in Nat /\ Len(p) = n + 1 /\ (\A k \in 1..n : p[k] = q[k]) /\ p[n + 1] = r
    BY <1>1, AppendProperties
  <1>3. \A f : \A k \in Published(i, f)' : k \in 1..Len(p) /\ p[k].frame = f
    BY DEF Published
  <1>4. \A f : \A k : k \in 1..n /\ q[k].frame = f => k \in Published(i, f)
    BY DEF Published
  <1>5. n = Len(bus[i]) /\ p = bus'[i] /\ q = bus[i]
    OBVIOUS
  <1> HIDE DEF n, p, q
  <1>6. ASSUME NEW f, NEW k \in Published(i, f)'
        PROVE  \/ k \in Published(i, f) /\ p[k] = q[k]
               \/ k = n + 1 /\ p[k] = r /\ r.frame = f
    <2>1. k \in 1..(n + 1) /\ p[k].frame = f
      BY <1>2, <1>3, <1>6
    <2>2. CASE k = n + 1
      BY <1>2, <2>1, <2>2
    <2>3. CASE k # n + 1
      <3>1. k \in 1..n
        BY <1>2, <2>1, <2>3
      <3> QED
        BY <1>2, <1>4, <2>1, <3>1
    <2> QED
      BY <2>2, <2>3
  <1>7. ASSUME NEW f, f # r.frame PROVE FewerPublished(i, f)
    <2>1. \A k \in Published(i, f)' : k \in 1..n + 1 /\ k \in Published(i, f) /\ p[k] = q[k]
      BY <1>2, <1>3, <1>6, <1>7
    <2>2. \A k \in Published(i, f)' : k + 0 \in Published(i, f) /\ bus'[i][k] = bus[i][k + 0]
      BY <1>2, <1>5, <2>1
    <2> QED
      BY <2>2 DEF FewerPublished
  <1>8. n + 1 \in 1..Len(p)
    BY <1>2
  <1> QED
    BY <1>2, <1>5, <1>6, <1>7, <1>8

LEMMA RelaySpread ==
    ASSUME ChannelInv, SpreadInv, NEW s \in Sockets, Relay(s) PROVE SpreadInv'
  <1>1. PICK f : f = Head(toServer[s])
    OBVIOUS
  <1>2. /\ TypeOK /\ ConnectionTypes /\ ServerTypes
        /\ UNCHANGED <<sent, seen, fresh, cl>>
        /\ Inst[s] \in Instances /\ UserOf(s) \in Users
    BY ChannelAssumption, KeyType DEF ChannelInv, TypeOK, Relay
  <1>3. /\ toServer[s] # <<>> /\ toServer[s] \in Seq(Frames)
        /\ toServer'[s] = Tail(toServer[s])
        /\ \A t \in Sockets : t # s => toServer'[t] = toServer[t]
    <2>1. Queued(s) /\ sv[s] = "serving"
      BY DEF ChannelInv, Relay
    <2> QED
      BY <1>2, <2>1 DEF Relay, Queued, ConnectionTypes
  <1>4. f \in Frames /\ 1 \in At(toServer[s], f)
    <2>1. /\ f \in Frames /\ Len(toServer[s]) \in Nat /\ Len(toServer[s]) # 0
          /\ toServer[s][1] = f
      BY <1>1, <1>3, LenProperties, HeadTailProperties
    <2> QED
      BY <2>1 DEF At
  <1>5. \A t \in Sockets : \A g : Fewer(toServer'[t], toServer[t], g)
    BY <1>3, FewerSame, FewerTail
  <1>6. PICK r \in Publications : r = [origin |-> Inst[s], sender |-> UserOf(s), frame |-> f]
    BY <1>2, <1>4 DEF Publications
  <1>7. /\ \/ toClient' = toClient
           \/ \E S : toClient' = Written(S, f) /\ \A t \in S : Inst[t] = Inst[s]
        /\ \A j \in Instances : bus'[j] = bus[j] \/ bus'[j] = Append(bus[j], r)
        /\ \A o \in owed' : o \in owed \/ o[1] = f
    BY <1>1, <1>6 DEF Relay, Audience
  <1>8. \A t \in Sockets :
           /\ \A g : g # f => Fewer(toClient'[t], toClient[t], g)
           /\ At(toClient[t], f) = {} => \A k, l \in At(toClient'[t], f) : k = l
           /\ cl[t] # "open" \/ Inst[t] # Inst[s] => toClient'[t] = toClient[t]
    <2>1. SUFFICES ASSUME NEW t \in Sockets
                   PROVE  /\ \A g : g # f => Fewer(toClient'[t], toClient[t], g)
                          /\ At(toClient[t], f) = {} => \A k, l \in At(toClient'[t], f) : k = l
                          /\ cl[t] # "open" \/ Inst[t] # Inst[s] => toClient'[t] = toClient[t]
      OBVIOUS
    <2>2. CASE toClient' = toClient
      BY <2>2, FewerSame
    <2>3. ASSUME NEW S, toClient' = Written(S, f), \A q \in S : Inst[q] = Inst[s]
          PROVE  /\ \A g : g # f => Fewer(toClient'[t], toClient[t], g)
                 /\ At(toClient[t], f) = {} => \A k, l \in At(toClient'[t], f) : k = l
                 /\ cl[t] # "open" \/ Inst[t] # Inst[s] => toClient'[t] = toClient[t]
      <3>1. /\ \A g : g # f => Fewer(Written(S, f)[t], toClient[t], g)
            /\ At(toClient[t], f) = {} => \A k, l \in At(Written(S, f)[t], f) : k = l
            /\ cl[t] # "open" \/ t \notin S => Written(S, f)[t] = toClient[t]
        BY <1>2, <1>4, WrittenMore
      <3> QED
        BY <2>3, <3>1
    <2> QED
      BY <1>7, <2>2, <2>3
  <1>9. Emptied'
    BY <1>2, <1>8 DEF SpreadInv, Emptied
  <1>10. DispatchedOnce'
    BY <1>2 DEF SpreadInv, DispatchedOnce
  <1>11. ASSUME NEW g \in Frames, g # f PROVE OneCopy(g)'
    <2>1. \A j \in Instances : FewerPublished(j, g)
      BY <1>2, <1>6, <1>7, <1>11, PublishedSame, PublishedMore
    <2>2. \A o \in owed' : o[1] = g => o \in owed
      BY <1>7, <1>11
    <2>3. \A t \in Sockets :
             /\ Fewer(toServer'[t], toServer[t], g) /\ Fewer(toClient'[t], toClient[t], g)
             /\ fresh'[t] => fresh[t] \/ toClient'[t] = <<>>
      BY <1>2, <1>5, <1>8, <1>11
    <2>4. QuietFor(g)
      BY <1>2, <2>1, <2>2, <2>3 DEF QuietFor
    <2> QED
      BY <2>4, QuietKeeps DEF SpreadInv, OneCopy
  <1>12. OneCopy(f)'
    <2>1. /\ Unspread(f) /\ f \in sent
          /\ \A t \in Sockets : \A l \in At(toServer[t], f) : t = s /\ l = 1
      BY <1>4 DEF SpreadInv, InOnePlace
    <2>2. At(toServer'[s], f) = {}
      <3>1. SUFFICES ASSUME NEW k \in At(Tail(toServer[s]), f) PROVE FALSE
        BY <1>3
      <3>2. k + 1 \in At(toServer[s], f) /\ k \in 1..Len(Tail(toServer[s]))
        BY <1>3, AtTail DEF At
      <3> QED
        BY <2>1, <3>2
    <2>3. \A t \in Sockets : At(toServer'[t], f) = {}
      BY <1>3, <2>1, <2>2
    <2>4. InOnePlace(f)'
      BY <1>2, <2>1, <2>3 DEF InOnePlace
    <2>5. ASSUME NEW j \in Instances
          PROVE  /\ \A k, l \in Published(j, f)' : k = l
                 /\ Abroad(j, f)' => j # Inst[s]
      <3>1. Published(j, f) = {}
        BY <2>1 DEF Unspread
      <3>2. CASE bus'[j] = bus[j]
        BY <3>1, <3>2 DEF Published, Abroad
      <3>3. CASE bus'[j] = Append(bus[j], r)
        <4>1. \A k \in Published(j, f)' : k = Len(bus[j]) + 1 /\ bus'[j][k] = r
          BY <1>2, <1>6, <3>1, <3>3, PublishedMore
        <4> QED
          BY <1>6, <4>1 DEF Abroad
      <3> QED
        BY <1>7, <3>2, <3>3
    <2>6. \A t \in Sockets : Inst[t] # Inst[s] => At(toClient'[t], f) = {}
      BY <1>8, <2>1 DEF Unspread
    <2>7. \A d \in Devices : seen'[d][f] = 0
      BY <1>2, <2>1 DEF Unspread
    <2>8. HeardOnce(f)'
      BY <2>5, <2>6, <2>7 DEF HeardOnce
    <2>9. WrittenOnce(f)'
      BY <1>8, <2>1, <2>7, ChannelAssumption DEF Unspread, WrittenOnce
    <2> QED
      BY <2>4, <2>8, <2>9 DEF OneCopy
  <1> QED
    BY <1>9, <1>10, <1>11, <1>12 DEF SpreadInv, OneCopy

LEMMA SubscriberSpread ==
    ASSUME ChannelInv, SpreadInv, NEW i \in Instances, Subscriber(i) PROVE SpreadInv'
  <1>1. PICK m : m = Head(bus[i])
    OBVIOUS
  <1>2. /\ TypeOK /\ ConnectionTypes /\ ServerTypes
        /\ UNCHANGED <<sent, seen, fresh, cl, toServer>> /\ owed' \subseteq owed
    BY DEF ChannelInv, TypeOK, Subscriber
  <1>3. /\ bus[i] # <<>> /\ bus[i] \in Seq(Publications) /\ bus'[i] = Tail(bus[i])
        /\ \A j \in Instances : j # i => bus'[j] = bus[j]
    BY <1>2 DEF Subscriber, ServerTypes
  <1>4. /\ m \in Publications /\ m.frame \in Frames
        /\ 1 \in Published(i, m.frame) /\ bus[i][1] = m
    <2>1. /\ m \in Publications /\ Len(bus[i]) \in Nat /\ Len(bus[i]) # 0
          /\ bus[i][1] = m
      BY <1>1, <1>3, LenProperties, HeadTailProperties
    <2> QED
      BY <2>1 DEF Published, Publications
  <1>5. \A j \in Instances, f \in Frames : FewerPublished(j, f)
    BY <1>2, <1>3, PublishedSame, PublishedTail
  <1>6. \/ toClient' = toClient
        \/ /\ m.origin # i
           /\ \E S : toClient' = Written(S, m.frame) /\ \A t \in S : Inst[t] = i
    BY <1>1 DEF Subscriber, Skipped, Audience
  <1>7. CASE toClient' = toClient
    <2>1. \A f \in Frames : QuietFor(f)
      BY <1>2, <1>5, <1>7, FewerSame DEF QuietFor
    <2>2. Emptied' /\ DispatchedOnce'
      BY <1>2, <1>7 DEF SpreadInv, Emptied, DispatchedOnce
    <2> QED
      BY <2>1, <2>2, QuietKeeps DEF SpreadInv
  <1>8. CASE /\ m.origin # i
             /\ \E S : toClient' = Written(S, m.frame) /\ \A t \in S : Inst[t] = i
    <2>1. PICK f \in Frames : f = m.frame
      BY <1>4
    <2>2. \A t \in Sockets :
             /\ \A g : g # f => Fewer(toClient'[t], toClient[t], g)
             /\ At(toClient[t], f) = {} => \A k, l \in At(toClient'[t], f) : k = l
             /\ cl[t] # "open" \/ Inst[t] # i => toClient'[t] = toClient[t]
      <3>1. PICK S : toClient' = Written(S, f) /\ \A q \in S : Inst[q] = i
        BY <1>8, <2>1
      <3>2. ASSUME NEW t \in Sockets
            PROVE  /\ \A g : g # f => Fewer(toClient'[t], toClient[t], g)
                   /\ At(toClient[t], f) = {} => \A k, l \in At(toClient'[t], f) : k = l
                   /\ cl[t] # "open" \/ Inst[t] # i => toClient'[t] = toClient[t]
        <4>1. /\ \A g : g # f => Fewer(Written(S, f)[t], toClient[t], g)
              /\ At(toClient[t], f) = {} => \A k, l \in At(Written(S, f)[t], f) : k = l
              /\ cl[t] # "open" \/ t \notin S => Written(S, f)[t] = toClient[t]
          BY <1>2, WrittenMore
        <4> QED
          BY <3>1, <4>1
      <3> QED
        BY <3>2
    <2>3. Emptied' /\ DispatchedOnce'
      BY <1>2, <2>2 DEF SpreadInv, Emptied, DispatchedOnce
    <2>4. ASSUME NEW g \in Frames, g # f PROVE OneCopy(g)'
      <3>1. QuietFor(g)
        BY <1>2, <1>5, <2>2, <2>4, FewerSame DEF QuietFor
      <3> QED
        BY <3>1, QuietKeeps DEF SpreadInv, OneCopy
    <2>5. OneCopy(f)'
      <3>1. Abroad(i, f) /\ ~Unspread(f)
        BY <1>4, <1>8, <2>1 DEF Abroad, Unspread
      <3>2. /\ \A k, l \in Published(i, f) : k = l
            /\ \A t \in Sockets : Inst[t] = i => At(toClient[t], f) = {}
            /\ \A d \in Devices : LocalTo(d, i) => seen[d][f] = 0
        BY <3>1 DEF SpreadInv, HeardOnce
      <3>3. f \in sent /\ \A t \in Sockets : At(toServer[t], f) = {}
        BY <3>1 DEF SpreadInv, InOnePlace
      <3>4. InOnePlace(f)'
        BY <1>2, <3>3 DEF InOnePlace
      <3>5. Published(i, f)' = {}
        <4>1. SUFFICES ASSUME NEW k \in Published(i, f)' PROVE FALSE
          OBVIOUS
        <4>2. k + 1 \in Published(i, f)
          BY <1>2, <1>3, PublishedTail
        <4>3. k \in 1..Len(bus'[i])
          BY DEF Published
        <4>4. k + 1 = 1
          BY <1>4, <2>1, <3>2, <4>2
        <4> QED
          BY <4>3, <4>4
      <3>6. ASSUME NEW j \in Instances
            PROVE  /\ \A k, l \in Published(j, f)' : k = l
                   /\ Abroad(j, f)' =>
                         /\ \A t \in Sockets : Inst[t] = j => At(toClient'[t], f) = {}
                         /\ \A d \in Devices : LocalTo(d, j) => seen'[d][f] = 0
        <4>1. CASE j = i
          BY <3>5, <4>1 DEF Abroad
        <4>2. CASE j # i
          <5>1. Published(j, f)' = Published(j, f) /\ (Abroad(j, f)' <=> Abroad(j, f))
            BY <1>3, <4>2 DEF Published, Abroad
          <5>2. \A t \in Sockets : Inst[t] = j => toClient'[t] = toClient[t]
            BY <2>2, <4>2
          <5> QED
            BY <1>2, <5>1, <5>2 DEF SpreadInv, HeardOnce
        <4> QED
          BY <4>1, <4>2
      <3>7. HeardOnce(f)'
        BY <3>6 DEF HeardOnce, LocalTo
      <3>8. ASSUME NEW t \in Sockets
            PROVE  /\ \A k, l \in At(toClient'[t], f) : k = l
                   /\ fresh'[t] /\ LocalTo(Dev[t], Inst[t]) /\ At(toClient'[t], f) # {}
                         => seen'[Dev[t]][f] = 0
        <4>1. CASE Inst[t] = i
          BY <1>2, <2>2, <3>2, <4>1, ChannelAssumption
        <4>2. CASE Inst[t] # i
          BY <1>2, <2>2, <4>2 DEF SpreadInv, WrittenOnce
        <4> QED
          BY <4>1, <4>2
      <3>9. WrittenOnce(f)'
        BY <3>8 DEF WrittenOnce, LocalTo
      <3> QED
        BY <3>4, <3>7, <3>9 DEF OneCopy
    <2> QED
      BY <2>3, <2>4, <2>5 DEF SpreadInv, OneCopy
  <1> QED
    BY <1>6, <1>7, <1>8

LEMMA InitSpread == Init => SpreadInv
  <1> SUFFICES ASSUME Init PROVE SpreadInv
    OBVIOUS
  <1>1. /\ \A s \in Sockets : toServer[s] = <<>> /\ toClient[s] = <<>>
        /\ \A i \in Instances : bus[i] = <<>>
        /\ \A d \in Devices, f \in Frames : seen[d][f] = 0
        /\ owed = {}
    BY DEF Init
  <1>2. \A f \in Frames : Unspread(f) /\ \A s \in Sockets : At(toServer[s], f) = {}
    BY <1>1, AtEmpty DEF Unspread, Published
  <1>3. Emptied /\ DispatchedOnce
    BY <1>1 DEF Emptied, DispatchedOnce
  <1>4. \A f \in Frames : InOnePlace(f) /\ HeardOnce(f) /\ WrittenOnce(f)
    BY <1>2 DEF Unspread, InOnePlace, HeardOnce, WrittenOnce, Abroad
  <1> QED
    BY <1>3, <1>4 DEF SpreadInv

LEMMA NextSpread == ChannelInv /\ SpreadInv /\ [Next]_vars => SpreadInv'
  <1> SUFFICES ASSUME ChannelInv, SpreadInv, [Next]_vars PROVE SpreadInv'
    OBVIOUS
  <1>1. TypeOK /\ Emptied /\ \A d \in Devices : wsRef[d] \subseteq Sockets
    BY DEF ChannelInv, SpreadInv, TypeOK, ProviderTypes
  <1>2. CASE \E d \in Devices, g \in Frames : Send(d, g)
    BY <1>1, <1>2, SendSpread
  <1>3. CASE \E s \in Sockets : OnMessage(s) \/ Relay(s)
    BY <1>3, OnMessageSpread, RelaySpread
  <1>4. CASE \E i \in Instances : Subscriber(i)
    BY <1>4, SubscriberSpread
  <1>5. CASE /\ ~ \E d \in Devices, g \in Frames : Send(d, g)
             /\ ~ \E s \in Sockets : OnMessage(s) \/ Relay(s)
             /\ ~ \E i \in Instances : Subscriber(i)
    <2>1. AllQuiet /\ Emptied' /\ UNCHANGED seen
      BY <1>1, <1>5, OthersQuiet
    <2>2. \A f \in Frames : InOnePlace(f)' /\ HeardOnce(f)' /\ WrittenOnce(f)'
      BY <2>1, QuietKeeps DEF SpreadInv, AllQuiet
    <2>3. Emptied' /\ DispatchedOnce'
      BY <2>1 DEF SpreadInv, DispatchedOnce
    <2> QED
      BY <2>2, <2>3 DEF SpreadInv
  <1> QED
    BY <1>2, <1>3, <1>4, <1>5

(***************************************************************************)
(* What is owed                                                            *)
(***************************************************************************)
LEMMA OwedKeeps ==
    ASSUME NEW f \in Frames, NEW s \in Sockets, OwedOk(f, s),
           cl'[s] \in {"open", "closing"}, cl'[s] = "open" => sv'[s] \in Announced,
           FewerPublished(Inst[s], f),
           Listening(s)' =>
              /\ Listening(s)
              /\ seen[Dev[s]][f] > 0 => seen'[Dev[s]][f] > 0
              /\ At(toClient[s], f) # {} => seen'[Dev[s]][f] > 0 \/ At(toClient'[s], f) # {}
              /\ Abroad(Inst[s], f) => At(toClient'[s], f) # {} \/ Abroad(Inst[s], f)'
    PROVE  OwedOk(f, s)'
  <1>1. UserOf(s)' = UserOf(s)
    BY DEF UserOf
  <1>2. PICK m \in Nat : \A k \in Published(Inst[s], f)' :
            k + m \in Published(Inst[s], f) /\ bus'[Inst[s]][k] = bus[Inst[s]][k + m]
    BY DEF FewerPublished
  <1>3. \A k \in Published(Inst[s], f)' : bus'[Inst[s]][k].sender # UserOf(s)
    BY <1>2 DEF OwedOk
  <1>4. Listening(s)' =>
           seen'[Dev[s]][f] > 0 \/ At(toClient'[s], f) # {} \/ Abroad(Inst[s], f)'
    BY DEF OwedOk
  <1> QED
    BY <1>1, <1>3, <1>4 DEF OwedOk

\* A step that leaves what is on its way to s, or ends the connection.
LEMMA OwedQuiet ==
    ASSUME ConnectionTypes, NEW f \in Frames, NEW s \in Sockets, OwedOk(f, s),
           UNCHANGED seen, bus'[Inst[s]] = bus[Inst[s]],
           cl'[s] \in {"open", "closing"},
           cl'[s] = "open" =>
              /\ sv'[s] \in Announced
              /\ cl[s] = "open" /\ (fresh'[s] => fresh[s]) /\ (s \in caught => s \in caught')
              /\ \/ toClient'[s] = toClient[s]
                 \/ toClient'[s] = Append(toClient[s], "authenticated")
    PROVE  OwedOk(f, s)'
  <1>1. Inst[s] \in Instances
    BY ChannelAssumption
  <1>2. FewerPublished(Inst[s], f)
    BY <1>1, PublishedSame
  <1>3. Abroad(Inst[s], f)' <=> Abroad(Inst[s], f)
    BY DEF Abroad, Published
  <1>4. ASSUME Listening(s)'
        PROVE  Listening(s) /\ (At(toClient[s], f) # {} => At(toClient'[s], f) # {})
    <2>1. Listening(s)
      BY <1>4 DEF Listening
    <2>2. cl'[s] = "open"
      BY <1>4 DEF Listening
    <2>3. "authenticated" \in Frames \cup {"authenticated"}
          /\ toClient[s] \in Seq(Frames \cup {"authenticated"})
      BY DEF ConnectionTypes
    <2>4. At(Append(toClient[s], "authenticated"), f)
              = At(toClient[s], f) \cup (IF "authenticated" = f THEN {Len(toClient[s]) + 1} ELSE {})
      BY <2>3, AtAppend
    <2> QED
      BY <2>1, <2>2, <2>4
  <1> QED
    BY <1>2, <1>3, <1>4, OwedKeeps

\* No step but the three that carry frames to the devices touches what is owed.
LEMMA OthersOwed ==
    ASSUME ChannelInv, [Next]_vars,
           NEW f \in Frames, NEW r \in Sockets, OwedOk(f, r), <<f, r>> \in owed',
           ~ \E s \in Sockets : OnMessage(s) \/ Relay(s),
           ~ \E i \in Instances : Subscriber(i)
    PROVE  OwedOk(f, r)'
  <1>0. /\ ConnectionTypes /\ ServerTypes /\ Inst[r] \in Instances
        /\ cl[r] \in {"open", "closing"} /\ (cl[r] = "open" => sv[r] \in Announced)
    BY ChannelAssumption DEF ChannelInv, TypeOK, OwedOk
  <1>1. ASSUME NEW d \in Devices, SignIn(d) \/ Remount(d) \/ Disable(d) \/ TimerFires(d)
        PROVE  OwedOk(f, r)'
    <2>1. UNCHANGED <<seen, bus, sv, caught>> /\ Close(wsRef[d]) /\ fresh' = Superseded(d)
      BY <1>1 DEF SignIn, Remount, Disable, TimerFires, Connect, serverVars, frameVars
    <2>2. /\ cl'[r] \in {cl[r], "closing"} /\ (fresh'[r] => fresh[r])
          /\ cl'[r] = "open" => toClient'[r] = toClient[r]
      BY <2>1 DEF Close, Superseded
    <2> QED
      BY <1>0, <2>1, <2>2, OwedQuiet
  <1>2. ASSUME NEW d \in Devices, NEW t \in trying[d],
               TicketAnswered(d, t) \/ AbandonAttempt(d, t) \/ AttemptFails(d, t)
        PROVE  OwedOk(f, r)'
    <2>1. UNCHANGED <<seen, bus, sv, caught, toClient, fresh, cl>>
      BY <1>2 DEF TicketAnswered, AbandonAttempt, AttemptFails, serverVars, frameVars
    <2> QED
      BY <1>0, <2>1, OwedQuiet
  <1>3. ASSUME NEW d \in Devices, NEW t \in trying[d], OpenSocket(d, t) PROVE OwedOk(f, r)'
    <2>1. UNCHANGED <<seen, bus, sv, caught, toClient>>
      BY <1>3 DEF OpenSocket, serverVars, frameVars
    <2>2. PICK s \in Sockets : /\ cl[s] = "none" /\ fresh' = [fresh EXCEPT ![s] = t.current]
                               /\ cl' = [cl EXCEPT ![s] = "connecting"]
      BY <1>3 DEF OpenSocket, Unused
    <2>3. fresh'[r] = fresh[r] /\ cl'[r] = cl[r]
      BY <1>0, <2>2 DEF ConnectionTypes
    <2> QED
      BY <1>0, <2>1, <2>3, OwedQuiet
  <1>4. ASSUME NEW d \in Devices, SignOut(d) PROVE OwedOk(f, r)'
    <2>1. UNCHANGED <<seen, bus, sv, caught, toClient, fresh, cl>>
      BY <1>4 DEF SignOut, serverVars, frameVars
    <2> QED
      BY <1>0, <2>1, OwedQuiet
  <1>5. ASSUME NEW d \in Devices, NEW g \in Frames, Send(d, g) PROVE OwedOk(f, r)'
    <2>1. UNCHANGED <<seen, bus, sv, caught, toClient, fresh, cl>>
      BY <1>5 DEF Send, serverVars
    <2> QED
      BY <1>0, <2>1, OwedQuiet
  <1>6. ASSUME NEW s \in Sockets, Open(s) PROVE OwedOk(f, r)'
    <2>1. UNCHANGED <<seen, bus, caught, toClient, fresh>> /\ cl[s] = "connecting"
      BY <1>6 DEF Open, serverVars, frameVars
    <2>2. r # s /\ sv'[r] = sv[r] /\ cl'[r] = cl[r]
      BY <1>0, <1>6, <2>1 DEF Open, ConnectionTypes
    <2> QED
      BY <1>0, <2>1, <2>2, OwedQuiet
  <1>7. ASSUME NEW s \in Sockets, OnClose(s) PROVE OwedOk(f, r)'
    <2>1. UNCHANGED <<seen, bus, sv, caught, toClient>> /\ owed' = {o \in owed : o[2] # s}
      BY <1>7 DEF OnClose, serverVars
    <2>2. r # s
      BY <2>1
    <2>3. fresh'[r] = fresh[r] /\ cl'[r] = cl[r]
      BY <1>0, <1>7, <2>2 DEF OnClose, ConnectionTypes
    <2> QED
      BY <1>0, <2>1, <2>3, OwedQuiet
  <1>8. ASSUME NEW s \in Sockets, Lose(s) PROVE OwedOk(f, r)'
    <2>1. UNCHANGED <<seen, bus, sv, caught, fresh>> /\ Close({s})
      BY <1>8 DEF Lose, serverVars, frameVars
    <2>2. cl'[r] \in {cl[r], "closing"} /\ (cl'[r] = "open" => toClient'[r] = toClient[r])
      BY <2>1 DEF Close
    <2> QED
      BY <1>0, <2>1, <2>2, OwedQuiet
  <1>9. ASSUME NEW s \in Sockets, Authenticate(s) PROVE OwedOk(f, r)'
    <2>1. UNCHANGED <<seen, bus, caught, fresh, cl>> /\ toClient' = Written({s}, "authenticated")
      BY <1>9 DEF Authenticate, serverVars, frameVars
    <2>2. /\ toClient'[r] = toClient[r] \/ toClient'[r] = Append(toClient[r], "authenticated")
          /\ cl[r] = "open" => sv'[r] \in Announced
      BY <1>0, <1>9, <2>1 DEF Authenticate, Written, Announced, ConnectionTypes
    <2> QED
      BY <1>0, <2>1, <2>2, OwedQuiet
  <1>10. ASSUME NEW s \in Sockets,
                AuthFails(s) \/ Refuse(s) \/ RemoveEntry(s) \/ AnnounceOffline(s)
         PROVE  OwedOk(f, r)'
    <2>1. /\ UNCHANGED <<seen, bus, caught, fresh, cl>>
          /\ sv[s] \in {"waiting", "redeemed"} \cup Ending
          /\ \A t \in Sockets : t # s => sv'[t] = sv[t] /\ toClient'[t] = toClient[t]
      BY <1>0, <1>10 DEF AuthFails, Refuse, RemoveEntry, AnnounceOffline, serverVars, frameVars,
                         Ending, ConnectionTypes
    <2>2. sv[s] \notin Announced
      BY <2>1 DEF Announced, Ending
    <2>3. cl[r] = "open" => r # s
      BY <1>0, <2>2
    <2> QED
      BY <1>0, <2>1, <2>3, OwedQuiet
  <1>11. ASSUME NEW s \in Sockets, Register(s) \/ AnnounceOnline(s) PROVE OwedOk(f, r)'
    <2>1. /\ UNCHANGED <<seen, bus, fresh, cl, toClient>> /\ caught \subseteq caught'
          /\ sv'[r] = sv[r] \/ sv'[r] \in Announced
      BY <1>0, <1>11 DEF Register, AnnounceOnline, frameVars, Announced, ConnectionTypes
    <2> QED
      BY <1>0, <2>1, OwedQuiet
  <1>12. ASSUME NEW s \in Sockets, Unregister(s) PROVE OwedOk(f, r)'
    <2>1. UNCHANGED <<seen, bus, fresh, cl, toClient>> /\ cl[s] # "open" /\ caught' = caught \ {s}
      BY <1>12 DEF Unregister, frameVars
    <2>2. cl[r] = "open" => r # s /\ sv'[r] = sv[r]
      BY <1>0, <1>12, <2>1 DEF Unregister, ConnectionTypes
    <2> QED
      BY <1>0, <2>1, <2>2, OwedQuiet
  <1>13. ASSUME NEW i \in Instances, SubscriberExits(i) \/ Restart(i) PROVE OwedOk(f, r)'
    <2>1. UNCHANGED <<seen, fresh, cl, toClient>> /\ Inst[r] # i
      <3>1. CASE SubscriberExits(i)
        BY <3>1 DEF SubscriberExits
      <3>2. CASE Restart(i)
        <4>1. owed' = {o \in owed : o[2] \notin {s \in Sockets : Inst[s] = i}}
          BY <3>2 DEF Restart
        <4>2. r \notin {s \in Sockets : Inst[s] = i}
          BY <4>1
        <4> QED
          BY <3>2, <4>2 DEF Restart
      <3> QED
        BY <1>13, <3>1, <3>2
    <2>2. bus'[Inst[r]] = bus[Inst[r]] /\ sv'[r] = sv[r] /\ (r \in caught => r \in caught')
      BY <1>0, <1>13, <2>1 DEF SubscriberExits, Restart, ServerTypes
    <2> QED
      BY <1>0, <2>1, <2>2, OwedQuiet
  <1>14. ASSUME UNCHANGED vars PROVE OwedOk(f, r)'
    <2>1. UNCHANGED <<seen, bus, sv, caught, toClient, fresh, cl>>
      BY <1>14 DEF vars
    <2> QED
      BY <1>0, <2>1, OwedQuiet
  <1> QED
    BY <1>1, <1>2, <1>3, <1>4, <1>5, <1>6, <1>7, <1>8, <1>9, <1>10, <1>11, <1>12, <1>13, <1>14
       DEF Next, UserStep, ProviderStep, ClientStep, ServerStep

LEMMA OwedShrinks ==
    ASSUME [Next]_vars, ~ \E s \in Sockets : Relay(s) PROVE owed' \subseteq owed
  <1>1. ASSUME NEW d \in Devices,
               SignIn(d) \/ SignOut(d) \/ Remount(d) \/ Disable(d) \/ TimerFires(d)
        PROVE  owed' \subseteq owed
    BY <1>1 DEF SignIn, SignOut, Remount, Disable, TimerFires, frameVars
  <1>2. ASSUME NEW d \in Devices, NEW t \in trying[d],
               \/ TicketAnswered(d, t) \/ OpenSocket(d, t) \/ AbandonAttempt(d, t)
               \/ AttemptFails(d, t)
        PROVE  owed' \subseteq owed
    BY <1>2 DEF TicketAnswered, OpenSocket, AbandonAttempt, AttemptFails, frameVars
  <1>3. ASSUME NEW d \in Devices, NEW g \in Frames, Send(d, g) PROVE owed' \subseteq owed
    BY <1>3 DEF Send
  <1>4. ASSUME NEW s \in Sockets, Open(s) \/ OnMessage(s) \/ OnClose(s) \/ Lose(s)
        PROVE  owed' \subseteq owed
    BY <1>4 DEF Open, OnMessage, OnClose, Lose, frameVars
  <1>5. ASSUME NEW s \in Sockets, ServerStep(s), ~Relay(s) PROVE owed' \subseteq owed
    BY <1>5 DEF ServerStep, Authenticate, AuthFails, Register, Refuse, AnnounceOnline, Unregister,
                RemoveEntry, AnnounceOffline, frameVars
  <1>6. ASSUME NEW i \in Instances, Subscriber(i) \/ SubscriberExits(i) \/ Restart(i)
        PROVE  owed' \subseteq owed
    BY <1>6 DEF Subscriber, SubscriberExits, Restart
  <1>7. UNCHANGED vars => owed' \subseteq owed
    BY DEF vars
  <1> QED
    BY <1>1, <1>2, <1>3, <1>4, <1>5, <1>6, <1>7 DEF Next, UserStep, ProviderStep, ClientStep

\* The step of the queue of an instance, or of a connection.
LEMMA AtShift ==
    ASSUME NEW S, NEW q \in Seq(S), q # <<>>, NEW f, Head(q) # f
    PROVE  At(q, f) # {} => At(Tail(q), f) # {}
  <1>1. SUFFICES ASSUME NEW k \in At(q, f) PROVE At(Tail(q), f) # {}
    OBVIOUS
  <1>2. k \in 1..Len(q) /\ q[k] = f
    BY <1>1 DEF At
  <1>3. Len(q) \in Nat /\ q[1] = Head(q) /\ Len(Tail(q)) = Len(q) - 1
    BY LenProperties, HeadTailProperties
  <1>4. k # 1 /\ k - 1 \in 1..(Len(q) - 1)
    BY <1>2, <1>3
  <1>5. Tail(q)[k - 1] = q[(k - 1) + 1]
    BY <1>3, <1>4, HeadTailProperties
  <1>6. (k - 1) + 1 = k
    BY <1>2
  <1>7. k - 1 \in At(Tail(q), f)
    BY <1>2, <1>3, <1>4, <1>5, <1>6 DEF At
  <1> QED
    BY <1>7

LEMMA AbroadShift ==
    ASSUME ServerTypes, NEW i \in Instances, bus[i] # <<>>, bus'[i] = Tail(bus[i]), NEW f,
           Head(bus[i]).frame # f \/ Head(bus[i]).origin = i, Abroad(i, f)
    PROVE  Abroad(i, f)'
  <1>0. PICK q : q = bus[i]
    OBVIOUS
  <1>1. q \in Seq(Publications) /\ q # <<>> /\ bus'[i] = Tail(q)
    BY <1>0 DEF ServerTypes
  <1>2. PICK k \in 1..Len(q) : q[k].frame = f /\ q[k].origin # i
    BY <1>0 DEF Abroad, Published
  <1>3. Len(q) \in Nat /\ q[1] = Head(q) /\ Len(Tail(q)) = Len(q) - 1
    BY <1>1, LenProperties, HeadTailProperties
  <1>4. k # 1
    BY <1>0, <1>2, <1>3
  <1>5. k - 1 \in 1..(Len(q) - 1)
    BY <1>2, <1>3, <1>4
  <1>6. Tail(q)[k - 1] = q[(k - 1) + 1]
    BY <1>1, <1>3, <1>5, HeadTailProperties
  <1>7. (k - 1) + 1 = k
    BY <1>2
  <1>8. PICK j \in 1..Len(Tail(q)) : Tail(q)[j].frame = f /\ Tail(q)[j].origin # i
    BY <1>2, <1>3, <1>5, <1>6, <1>7
  <1> QED
    BY <1>1, <1>8 DEF Abroad, Published

LEMMA OnMessageOwed ==
    ASSUME ChannelInv, NEW s \in Sockets, OnMessage(s),
           NEW f \in Frames, NEW r \in Sockets, OwedOk(f, r)
    PROVE  OwedOk(f, r)'
  <1>0. /\ ConnectionTypes /\ HistoryTypes /\ Inst[r] \in Instances
        /\ Dev[r] \in Devices /\ Dev[s] \in Devices
        /\ cl[r] \in {"open", "closing"} /\ (cl[r] = "open" => sv[r] \in Announced)
    BY ChannelAssumption DEF ChannelInv, TypeOK, OwedOk
  <1>1. UNCHANGED <<fresh, cl, sv, bus, caught>>
    BY DEF OnMessage, serverVars
  <1>2. PICK m : m = Head(toClient[s])
    OBVIOUS
  <1>3. toClient[s] # <<>> /\ toClient[s] \in Seq(Frames \cup {"authenticated"})
        /\ toClient'[s] = Tail(toClient[s])
        /\ \A t \in Sockets : t # s => toClient'[t] = toClient[t]
    BY <1>0 DEF OnMessage, ConnectionTypes
  <1>4. CASE fresh[s] /\ m \in Frames /\ seen[Dev[s]][m] < 2
    <2>1. seen' = [seen EXCEPT ![Dev[s]] = [seen[Dev[s]] EXCEPT ![m] = @ + 1]]
      BY <1>2, <1>4 DEF OnMessage
    <2>2. /\ \A e \in Devices, g \in Frames :
                e # Dev[s] \/ g # m => seen'[e][g] = seen[e][g]
          /\ seen'[Dev[s]][m] = seen[Dev[s]][m] + 1 /\ seen[Dev[s]][m] \in 0..2
      BY <1>0, <1>4, <2>1 DEF HistoryTypes
    <2>3. seen[Dev[r]][f] > 0 => seen'[Dev[r]][f] > 0
      BY <1>0, <2>2
    <2>4. At(toClient[r], f) # {} => seen'[Dev[r]][f] > 0 \/ At(toClient'[r], f) # {}
      <3>1. CASE r # s
        BY <1>3, <3>1
      <3>2. CASE r = s /\ f # m
        BY <1>2, <1>3, <3>2, AtShift
      <3>3. CASE r = s /\ f = m
        BY <2>2, <3>3
      <3> QED
        BY <3>1, <3>2, <3>3
    <2>5. FewerPublished(Inst[r], f) /\ (Abroad(Inst[r], f) => Abroad(Inst[r], f)')
      BY <1>0, <1>1, PublishedSame DEF Abroad, Published
    <2>6. Listening(r)' => Listening(r)
      BY <1>1 DEF Listening
    <2> QED
      BY <1>0, <1>1, <2>3, <2>4, <2>5, <2>6, OwedKeeps
  <1>5. CASE ~(fresh[s] /\ m \in Frames /\ seen[Dev[s]][m] < 2)
    <2>1. UNCHANGED seen
      BY <1>2, <1>5 DEF OnMessage
    <2>2. ASSUME Listening(r)', At(toClient[r], f) # {}
          PROVE  seen'[Dev[r]][f] > 0 \/ At(toClient'[r], f) # {}
      <3>1. CASE r # s
        BY <1>3, <2>2, <3>1
      <3>2. CASE r = s /\ f # m
        BY <1>2, <1>3, <2>2, <3>2, AtShift
      <3>3. CASE r = s /\ f = m
        <4>1. fresh[s]
          BY <1>1, <2>2, <3>3 DEF Listening
        <4>2. seen[Dev[s]][m] \in 0..2 /\ ~(seen[Dev[s]][m] < 2)
          BY <1>0, <1>5, <3>3, <4>1 DEF HistoryTypes
        <4> QED
          BY <2>1, <3>3, <4>2
      <3> QED
        BY <3>1, <3>2, <3>3
    <2>3. FewerPublished(Inst[r], f) /\ (Abroad(Inst[r], f) => Abroad(Inst[r], f)')
      BY <1>0, <1>1, PublishedSame DEF Abroad, Published
    <2>4. Listening(r)' => Listening(r)
      BY <1>1 DEF Listening
    <2> QED
      BY <1>0, <1>1, <2>1, <2>2, <2>3, <2>4, OwedKeeps
  <1> QED
    BY <1>4, <1>5

\* Writing to connections takes nothing from them.
LEMMA WrittenKeeps ==
    ASSUME ConnectionTypes, NEW S, NEW m \in Frames, NEW t \in Sockets, NEW f
    PROVE  /\ At(toClient[t], f) # {} => At(Written(S, m)[t], f) # {}
           /\ t \in S /\ cl[t] = "open" => At(Written(S, m)[t], m) # {}
  <1>1. toClient[t] \in Seq(Frames \cup {"authenticated"}) /\ m \in Frames \cup {"authenticated"}
    BY DEF ConnectionTypes
  <1>2. \/ Written(S, m)[t] = toClient[t] /\ (cl[t] # "open" \/ t \notin S)
        \/ Written(S, m)[t] = Append(toClient[t], m) /\ cl[t] = "open" /\ t \in S
    BY DEF Written
  <1>3. At(Append(toClient[t], m), m)
            = At(toClient[t], m) \cup (IF m = m THEN {Len(toClient[t]) + 1} ELSE {})
    BY <1>1, AtAppend
  <1>4. At(Append(toClient[t], m), f)
            = At(toClient[t], f) \cup (IF m = f THEN {Len(toClient[t]) + 1} ELSE {})
    BY <1>1, AtAppend
  <1> QED
    BY <1>2, <1>3, <1>4

LEMMA SubscriberOwed ==
    ASSUME ChannelInv, NEW i \in Instances, Subscriber(i),
           NEW f \in Frames, NEW r \in Sockets, OwedOk(f, r), <<f, r>> \in owed'
    PROVE  OwedOk(f, r)'
  <1>0. /\ ConnectionTypes /\ ServerTypes /\ Inst[r] \in Instances /\ Held(r)
        /\ cl[r] \in {"open", "closing"} /\ (cl[r] = "open" => sv[r] \in Announced)
        /\ UserOf(r) \in Members
    BY ChannelAssumption DEF ChannelInv, TypeOK, OwedOk
  <1>1. UNCHANGED <<fresh, cl, sv, caught, seen>>
    BY DEF Subscriber
  <1>2. PICK m : m = Head(bus[i])
    OBVIOUS
  <1>3. /\ bus[i] # <<>> /\ bus[i] \in Seq(Publications) /\ bus'[i] = Tail(bus[i])
        /\ \A j \in Instances : j # i => bus'[j] = bus[j]
    BY <1>0 DEF Subscriber, ServerTypes
  <1>4. /\ m \in Publications /\ m.frame \in Frames
        /\ 1 \in Published(i, m.frame) /\ bus[i][1] = m
    <2>1. /\ m \in Publications /\ Len(bus[i]) \in Nat /\ Len(bus[i]) # 0
          /\ bus[i][1] = m
      BY <1>2, <1>3, LenProperties, HeadTailProperties
    <2> QED
      BY <2>1 DEF Published, Publications
  <1>5. FewerPublished(Inst[r], f)
    BY <1>0, <1>3, PublishedSame, PublishedTail
  <1>6. Listening(r)' => Listening(r)
    BY <1>1 DEF Listening
  <1>7. CASE m.origin = i
    <2>1. toClient' = toClient
      BY <1>2, <1>7 DEF Subscriber, Skipped
    <2>2. Abroad(Inst[r], f) => Abroad(Inst[r], f)'
      <3>1. CASE Inst[r] = i
        BY <1>0, <1>2, <1>3, <1>7, <3>1, AbroadShift
      <3>2. CASE Inst[r] # i
        BY <1>0, <1>3, <3>2 DEF Abroad, Published
      <3> QED
        BY <3>1, <3>2
    <2> QED
      BY <1>0, <1>1, <1>5, <1>6, <2>1, <2>2, OwedKeeps
  <1>8. CASE m.origin # i
    <2>1. PICK c \in {"members", "nobody"} :
              /\ toClient' = Written({t \in Audience(i, c, m.sender) :
                                          UserOf(t) \in Receivers(i, c)}, m.frame)
              /\ owed' = IF c = "members" THEN owed
                         ELSE {o \in owed : o[1] # m.frame \/ Inst[o[2]] # i}
      BY <1>2, <1>8 DEF Subscriber, Skipped
    <2>2. PICK S : S = {t \in Audience(i, c, m.sender) : UserOf(t) \in Receivers(i, c)}
      OBVIOUS
    <2>3. At(toClient[r], f) # {} => At(toClient'[r], f) # {}
      BY <1>0, <1>4, <2>1, <2>2, WrittenKeeps
    <2>4. ASSUME Listening(r), Abroad(Inst[r], f)
          PROVE  At(toClient'[r], f) # {} \/ Abroad(Inst[r], f)'
      <3>1. CASE Inst[r] # i
        BY <1>0, <1>3, <2>4, <3>1 DEF Abroad, Published
      <3>2. CASE Inst[r] = i /\ m.frame # f
        BY <1>0, <1>2, <1>3, <2>4, <3>2, AbroadShift
      <3>3. CASE Inst[r] = i /\ m.frame = f
        <4>1. c = "members"
          BY <2>1, <3>3
        <4>2. r \in registered /\ cl[r] = "open"
          BY <1>0, <2>4 DEF Held, Listening
        <4>3. m.sender # UserOf(r)
          BY <1>4, <3>3 DEF OwedOk
        <4>4. r \in S
          BY <1>0, <2>2, <3>3, <4>1, <4>2, <4>3 DEF Audience, Receivers, Listed
        <4>5. At(Written(S, m.frame)[r], m.frame) # {}
          BY <1>0, <1>4, <4>2, <4>4, WrittenKeeps
        <4> QED
          BY <2>1, <2>2, <3>3, <4>5
      <3> QED
        BY <3>1, <3>2, <3>3
    <2> QED
      BY <1>0, <1>1, <1>5, <1>6, <2>3, <2>4, OwedKeeps
  <1> QED
    BY <1>7, <1>8

LEMMA RelayOwed ==
    ASSUME ChannelInv, SpreadInv, OwedInv, NEW s \in Sockets, Relay(s),
           NEW f \in Frames, NEW r \in Sockets, <<f, r>> \in owed'
    PROVE  OwedOk(f, r)'
  <1>0. /\ ConnectionTypes /\ ServerTypes /\ HistoryTypes /\ Inst[r] \in Instances /\ Held(r)
        /\ Inst[s] \in Instances /\ UserOf(s) \in Users
    BY ChannelAssumption, KeyType DEF ChannelInv, TypeOK
  <1>1. UNCHANGED <<fresh, cl, sv, caught, seen>> /\ (UserOf(r))' = UserOf(r)
    BY DEF Relay, UserOf
  <1>2. PICK g : g = Head(toServer[s])
    OBVIOUS
  <1>3. g \in Frames /\ 1 \in At(toServer[s], g)
    <2>1. toServer[s] # <<>> /\ toServer[s] \in Seq(Frames)
      BY DEF ChannelInv, Relay, Queued
    <2>2. /\ g \in Frames /\ Len(toServer[s]) \in Nat /\ Len(toServer[s]) # 0
          /\ toServer[s][1] = g
      BY <1>2, <2>1, LenProperties, HeadTailProperties
    <2> QED
      BY <2>2 DEF At
  <1>4. Unspread(g)
    BY <1>3 DEF SpreadInv, InOnePlace
  <1>5. CASE UNCHANGED <<toClient, bus, owed>>
    <2>1. f # g /\ OwedOk(f, r)
      BY <1>4, <1>5 DEF Unspread, OwedInv
    <2>2. FewerPublished(Inst[r], f) /\ (Abroad(Inst[r], f) => Abroad(Inst[r], f)')
      BY <1>0, <1>5, PublishedSame DEF Abroad, Published
    <2>3. Listening(r)' => Listening(r)
      BY <1>1 DEF Listening
    <2>4. cl'[r] \in {"open", "closing"} /\ (cl'[r] = "open" => sv'[r] \in Announced)
      BY <1>1, <2>1 DEF OwedOk
    <2> QED
      BY <1>1, <1>5, <2>1, <2>2, <2>3, <2>4, OwedKeeps
  <1>6. CASE ~ UNCHANGED <<toClient, bus, owed>>
    <2>1. PICK p \in Publications : p = [origin |-> Inst[s], sender |-> UserOf(s), frame |-> g]
      BY <1>0, <1>3 DEF Publications
    <2>2. PICK c \in {"members", "nobody"}, published \in BOOLEAN :
             /\ UserOf(s) \in Listed(c)
             /\ toClient' = Written(Audience(Inst[s], c, UserOf(s)), g)
             /\ bus' = [j \in Instances |-> IF published /\ j \notin deaf
                                            THEN Append(bus[j], p) ELSE bus[j]]
             /\ owed' = owed \cup {<<g, t>> : t \in {q \in registered :
                   /\ cl[q] = "open" /\ UserOf(q) \in Members \ {UserOf(s)}
                   /\ (Inst[q] # Inst[s] => published /\ Inst[q] \notin deaf)}}
      BY <1>2, <1>6, <2>1 DEF Relay
    <2>3. c = "members"
      BY <2>2 DEF Listed
    <2>4. PICK S : S = Audience(Inst[s], c, UserOf(s))
      OBVIOUS
    <2>5. bus'[Inst[r]] = bus[Inst[r]] \/ bus'[Inst[r]] = Append(bus[Inst[r]], p)
      BY <1>0, <2>2
    <2>6. CASE <<f, r>> \in owed
      <3>1. f # g /\ OwedOk(f, r)
        BY <1>4, <2>6 DEF Unspread, OwedInv
      <3>2. FewerPublished(Inst[r], f)
        BY <1>0, <2>1, <2>5, <3>1, PublishedSame, PublishedMore
      <3>3. Abroad(Inst[r], f) => Abroad(Inst[r], f)'
        <4>1. CASE bus'[Inst[r]] = bus[Inst[r]]
          BY <4>1 DEF Abroad, Published
        <4>2. CASE bus'[Inst[r]] = Append(bus[Inst[r]], p)
          <5>1. /\ \A k \in 1..Len(bus[Inst[r]]) : bus'[Inst[r]][k] = bus[Inst[r]][k]
                /\ Len(bus[Inst[r]]) + 1 \in 1..Len(bus'[Inst[r]])
            BY <1>0, <4>2, PublishedMore
          <5>2. \A k \in 1..Len(bus[Inst[r]]) : k \in 1..Len(bus'[Inst[r]])
            BY <5>1
          <5> QED
            BY <5>1, <5>2 DEF Abroad, Published
        <4> QED
          BY <2>5, <4>1, <4>2
      <3>4. Listening(r)' => Listening(r)
        BY <1>1 DEF Listening
      <3>5. cl'[r] \in {"open", "closing"} /\ (cl'[r] = "open" => sv'[r] \in Announced)
        BY <1>1, <3>1 DEF OwedOk
      <3>6. At(toClient[r], f) # {} => At(toClient'[r], f) # {}
        BY <1>0, <1>3, <2>2, <2>4, WrittenKeeps
      <3> QED
        BY <1>1, <3>1, <3>2, <3>3, <3>4, <3>5, <3>6, OwedKeeps
    <2>7. CASE <<f, r>> \notin owed
      <3>1. /\ f = g /\ r \in registered /\ cl[r] = "open"
            /\ UserOf(r) \in Members \ {UserOf(s)}
            /\ Inst[r] # Inst[s] => published /\ Inst[r] \notin deaf
        BY <2>2, <2>7
      <3>2. sv[r] \in Announced
        BY <1>0, <3>1 DEF Held
      <3>3. \A k \in Published(Inst[r], f)' : bus'[Inst[r]][k].sender # UserOf(r)
        <4>1. Published(Inst[r], f) = {}
          BY <1>0, <1>4, <3>1 DEF Unspread
        <4>2. CASE bus'[Inst[r]] = bus[Inst[r]]
          BY <4>1, <4>2 DEF Published
        <4>3. CASE bus'[Inst[r]] = Append(bus[Inst[r]], p)
          <5>3. p.frame = f
            BY <2>1, <3>1
          <5>1. \A k \in Published(Inst[r], p.frame)' :
                   \/ k \in Published(Inst[r], p.frame)
                   \/ k = Len(bus[Inst[r]]) + 1 /\ bus'[Inst[r]][k] = p
            BY <1>0, <4>3, PublishedMore
          <5>2. \A k \in Published(Inst[r], f)' : bus'[Inst[r]][k] = p
            BY <4>1, <5>3, <5>1
          <5> QED
            BY <2>1, <3>1, <5>2
        <4> QED
          BY <2>5, <4>2, <4>3
      <3>4. At(toClient'[r], f) # {} \/ Abroad(Inst[r], f)'
        <4>1. CASE Inst[r] = Inst[s]
          <5>1. r \in S
            BY <2>3, <2>4, <3>1, <4>1 DEF Audience, Listed
          <5>2. At(Written(S, g)[r], g) # {}
            BY <1>0, <1>3, <3>1, <5>1, WrittenKeeps
          <5> QED
            BY <2>2, <2>4, <3>1, <5>2
        <4>2. CASE Inst[r] # Inst[s]
          <5>1. bus'[Inst[r]] = Append(bus[Inst[r]], p)
            BY <1>0, <2>2, <3>1, <4>2
          <5>2. PICK k : k \in 1..Len(bus'[Inst[r]]) /\ bus'[Inst[r]][k] = p
            BY <1>0, <5>1, PublishedMore
          <5> QED
            BY <2>1, <3>1, <4>2, <5>2 DEF Abroad, Published
        <4> QED
          BY <4>1, <4>2
      <3> QED
        BY <1>1, <3>1, <3>2, <3>3, <3>4 DEF OwedOk
    <2> QED
      BY <2>6, <2>7
  <1> QED
    BY <1>5, <1>6

LEMMA NextOwed == ChannelInv /\ SpreadInv /\ OwedInv /\ [Next]_vars => OwedInv'
  <1> SUFFICES ASSUME ChannelInv, SpreadInv, OwedInv, [Next]_vars,
                      NEW f \in Frames, NEW r \in Sockets, <<f, r>> \in owed'
               PROVE  OwedOk(f, r)'
    BY DEF OwedInv
  <1>1. CASE \E s \in Sockets : Relay(s)
    BY <1>1, RelayOwed
  <1>2. CASE ~ \E s \in Sockets : Relay(s)
    <2>1. <<f, r>> \in owed
      BY <1>2, OwedShrinks
    <2>2. OwedOk(f, r)
      BY <2>1 DEF OwedInv
    <2>3. CASE \E s \in Sockets : OnMessage(s)
      BY <2>2, <2>3, OnMessageOwed
    <2>4. CASE \E i \in Instances : Subscriber(i)
      BY <2>2, <2>4, SubscriberOwed
    <2>5. CASE /\ ~ \E s \in Sockets : OnMessage(s) \/ Relay(s)
               /\ ~ \E i \in Instances : Subscriber(i)
      BY <2>2, <2>5, OthersOwed
    <2> QED
      BY <1>2, <2>3, <2>4, <2>5
  <1> QED
    BY <1>1, <1>2

LEMMA InitOwed == Init => OwedInv
  BY DEF Init, OwedInv

\* The frames on their way, and what is owed, in every state.
THEOREM FramesInvariant == Spec => [](ChannelInv /\ SpreadInv /\ OwedInv)
  <1>1. Init => ChannelInv /\ SpreadInv /\ OwedInv
    BY InitInv, InitSpread, InitOwed
  <1>2. (ChannelInv /\ SpreadInv /\ OwedInv) /\ [Next]_vars => (ChannelInv /\ SpreadInv /\ OwedInv)'
    BY NextInv, NextSpread, NextOwed
  <1> QED
    BY <1>1, <1>2, PTL DEF Spec

\* No device whose connections all go to one instance dispatches a frame twice.
THEOREM DispatchCorrect == Spec => []DispatchedOnce
  <1>1. SpreadInv => DispatchedOnce
    BY DEF SpreadInv
  <1> QED
    BY <1>1, FramesInvariant, PTL

\* What was relayed while a connection was registered is on its way to it.
THEOREM RelayedComes == Spec => []OwedIsComing
  <1>1. ChannelInv /\ OwedInv => OwedIsComing
    <2> SUFFICES ASSUME ChannelInv, OwedInv, NEW o \in owed, Listening(o[2])
                 PROVE  seen[Dev[o[2]]][o[1]] > 0 \/ OnItsWay(o[1], o[2])
      BY DEF OwedIsComing
    <2>1. PICK f \in Frames, s \in Sockets : o = <<f, s>>
      BY DEF ChannelInv, TypeOK, HistoryTypes
    <2>2. OwedOk(f, s) /\ Listening(s) /\ o[1] = f /\ o[2] = s
      BY <2>1 DEF OwedInv
    <2>3. seen[Dev[s]][f] > 0 \/ At(toClient[s], f) # {} \/ Abroad(Inst[s], f)
      BY <2>2 DEF OwedOk
    <2>4. seen[Dev[s]][f] > 0 \/ OnItsWay(f, s)
      BY <2>3 DEF OnItsWay, At, Abroad, Published
    <2> QED
      BY <2>2, <2>4
  <1> QED
    BY <1>1, FramesInvariant, PTL
=============================================================================

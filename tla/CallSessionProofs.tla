-------------------------- MODULE CallSessionProofs --------------------------
(***************************************************************************)
(* Calls for any number of users, devices, conversations, calls, hang-ups  *)
(* and lost connections: the types, that the microphone and the peer       *)
(* connections of a device follow its call unless a call was torn down     *)
(* while it was being set up, and that a phone which alone is called rings *)
(* for a caller that is there.                                             *)
(***************************************************************************)
EXTENDS CallSession, TLAPS

Chans == [Devices -> [Devices -> Seq(Frames)]]

(***************************************************************************)
(* Types                                                                   *)
(***************************************************************************)
LEMMA FrameType ==
    ASSUME NEW type \in Types, NEW c \in Conversations,
           NEW sdp \in SUBSET Sessions, NEW about \in SUBSET Sessions
    PROVE  Frame(type, c, sdp, about) \in Frames
  BY DEF Frame, Frames

LEMMA SentType ==
    ASSUME NEW ch \in Chans, NEW d \in Devices, NEW R, NEW f \in Frames
    PROVE  Sent(ch, d, R, f) \in Chans
  <1> DEFINE row == [r \in Devices |-> IF r \in R THEN Append(ch[d][r], f) ELSE ch[d][r]]
  <1>1. ASSUME NEW r \in Devices PROVE row[r] \in Seq(Frames)
    BY <1>1 DEF Chans
  <1>2. row \in [Devices -> Seq(Frames)]
    BY <1>1
  <1>3. Sent(ch, d, R, f) = [ch EXCEPT ![d] = row]
    BY DEF Sent, Chans
  <1> HIDE DEF row
  <1> QED
    BY <1>2, <1>3 DEF Chans

LEMMA AnsweredType ==
    ASSUME NEW ch \in Chans, NEW d \in Devices, NEW c \in Conversations,
           NEW sdp \in SUBSET Sessions, NEW about \in SUBSET Sessions
    PROVE  Answered(ch, d, c, sdp, about) \in Chans
  <1>1. /\ "answer" \in Types /\ "accepted_elsewhere" \in Types
        /\ {} \in SUBSET Sessions
    BY DEF Types
  <1>2. /\ Frame("answer", c, sdp, about) \in Frames
        /\ Frame("accepted_elsewhere", c, {}, about) \in Frames
    BY <1>1, FrameType
  <1> DEFINE first == Sent(ch, d, Reached(d, c), Frame("answer", c, sdp, about))
  <1>3. first \in Chans
    BY <1>2, SentType
  <1>4. Answered(ch, d, c, sdp, about)
          = Sent(first, d, {r \in Devices : Owner[r] \in Members[c] /\ online[r]},
                 Frame("accepted_elsewhere", c, {}, about))
    BY DEF Answered
  <1> HIDE DEF first
  <1> QED
    BY <1>2, <1>3, <1>4, SentType

LEMMA ReceivedType ==
    ASSUME chan \in Chans, NEW s \in Devices, NEW d \in Devices, chan[s][d] # <<>>
    PROVE  /\ Received(s, d) \in Chans
           /\ Head(chan[s][d]) \in Frames
  <1>1. chan[s][d] \in Seq(Frames) /\ chan[s] \in [Devices -> Seq(Frames)]
    BY DEF Chans
  <1>2. Tail(chan[s][d]) \in Seq(Frames) /\ Head(chan[s][d]) \in Frames
    BY <1>1
  <1>3. Received(s, d) = [chan EXCEPT ![s] = [chan[s] EXCEPT ![d] = Tail(chan[s][d])]]
    BY DEF Received, Chans
  <1> QED
    BY <1>1, <1>2, <1>3 DEF Chans

LEMMA CleanupType ==
    ASSUME TypeOK, NEW d \in Devices, NEW K, Cleanup(d, K)
    PROVE  /\ live' \in [Devices -> SUBSET Nat]
           /\ open' \in [Devices -> SUBSET [n : Nat, remote : SUBSET Sessions]]
           /\ cut' \in [Devices -> BOOLEAN]
  <1>1. live[d] \ Stopped(d) \in SUBSET Nat
    BY DEF TypeOK
  <1>2. {p \in open[d] : p.n \notin mgr[d].pc} \in SUBSET [n : Nat, remote : SUBSET Sessions]
    BY DEF TypeOK
  <1>3. (cut[d] \/ K # {}) \in BOOLEAN
    OBVIOUS
  <1> QED
    BY <1>1, <1>2, <1>3 DEF Cleanup, TypeOK

\* A manager with some of its fields changed.
LEMMA ManagerType ==
    ASSUME TypeOK, NEW d \in Devices, NEW st \in Statuses, NEW c \in SUBSET Conversations,
           NEW o \in SUBSET Sessions, NEW p \in SUBSET Nat, NEW m \in SUBSET Nat,
           NEW a \in SUBSET Sessions
    PROVE  /\ [status |-> st, conv |-> c, offer |-> o, pc |-> p, stream |-> m, about |-> a]
                  \in Managers
           /\ [mgr EXCEPT ![d] = [status |-> st, conv |-> c, offer |-> o, pc |-> p,
                                  stream |-> m, about |-> a]] \in [Devices -> Managers]
  BY DEF Managers, TypeOK

LEMMA ManagerFields ==
    ASSUME TypeOK, NEW d \in Devices
    PROVE  /\ mgr[d] = [status |-> mgr[d].status, conv |-> mgr[d].conv, offer |-> mgr[d].offer,
                        pc |-> mgr[d].pc, stream |-> mgr[d].stream, about |-> mgr[d].about]
           /\ mgr[d].status \in Statuses /\ mgr[d].conv \in SUBSET Conversations
           /\ mgr[d].offer \in SUBSET Sessions /\ mgr[d].pc \in SUBSET Nat
           /\ mgr[d].stream \in SUBSET Nat /\ mgr[d].about \in SUBSET Sessions
           /\ mgr[d] \in Managers
  <1>1. mgr[d] \in Managers
    BY DEF TypeOK
  <1> QED
    BY <1>1 DEF Managers

LEMMA IdleType == Idle \in Managers
  <1>1. "idle" \in Statuses
    BY DEF Statuses
  <1>2. {} \in SUBSET Conversations /\ {} \in SUBSET Sessions /\ {} \in SUBSET Nat
    OBVIOUS
  <1> QED
    BY <1>1, <1>2 DEF Idle, Managers

LEMMA TornDownType ==
    ASSUME TypeOK, NEW d \in Devices, NEW st \in Statuses
    PROVE  [mgr EXCEPT ![d] = TornDown(d, st)] \in [Devices -> Managers]
  <1>1. {} \in SUBSET Sessions /\ {} \in SUBSET Nat
    OBVIOUS
  <1> QED
    BY <1>1, ManagerFields, ManagerType DEF TornDown

LEMMA FailWithType ==
    ASSUME TypeOK, NEW d \in Devices, NEW K, FailWith(d, K)
    PROVE  /\ mgr' \in [Devices -> Managers]
           /\ live' \in [Devices -> SUBSET Nat]
           /\ open' \in [Devices -> SUBSET [n : Nat, remote : SUBSET Sessions]]
           /\ cut' \in [Devices -> BOOLEAN]
  <1>1. Failed(mgr[d].status) \in Statuses
    BY ManagerFields DEF Failed, Statuses
  <1>2. mgr' = [mgr EXCEPT ![d] = TornDown(d, Failed(mgr[d].status))]
    BY DEF FailWith
  <1>4. mgr' \in [Devices -> Managers]
    BY <1>1, <1>2, TornDownType
  <1>5. Cleanup(d, K)
    BY DEF FailWith
  <1> QED
    BY <1>4, <1>5, CleanupType

LEMMA FinishType ==
    ASSUME TypeOK, NEW d \in Devices, Finish(d)
    PROVE  /\ mgr' \in [Devices -> Managers]
           /\ live' \in [Devices -> SUBSET Nat]
           /\ open' \in [Devices -> SUBSET [n : Nat, remote : SUBSET Sessions]]
           /\ cut' \in [Devices -> BOOLEAN]
  <1>1. Cleanup(d, tasks[d]) /\ mgr' = [mgr EXCEPT ![d] = Idle]
    BY DEF Finish
  <1>2. mgr' \in [Devices -> Managers]
    BY <1>1, IdleType DEF TypeOK
  <1> QED
    BY <1>1, <1>2, CleanupType

LEMMA NewTaskType ==
    ASSUME TypeOK, NEW d \in Devices, NEW kind \in {"start", "accept"}, NEW c \in Conversations,
           NEW offer \in SUBSET Sessions, NewTask(d, kind, c, offer)
    PROVE  /\ serial' \in [Devices -> Nat]
           /\ tasks' \in [Devices -> SUBSET Tasks]
           /\ {[dev |-> d, n |-> NextNumber(d)]} \in SUBSET Sessions
  <1>1. serial[d] \in Nat
    BY DEF TypeOK
  <1>2. NextNumber(d) \in Nat \ {0}
    BY <1>1 DEF NextNumber
  <1>3. [n |-> NextNumber(d), kind |-> kind, at |-> "media", conv |-> c, offer |-> offer] \in Tasks
    BY <1>2 DEF Tasks
  <1>4. serial' \in [Devices -> Nat]
    BY <1>2 DEF NewTask, TypeOK
  <1>5. tasks' \in [Devices -> SUBSET Tasks]
    BY <1>3 DEF NewTask, TypeOK
  <1>6. [dev |-> d, n |-> NextNumber(d)] \in Sessions
    BY <1>2 DEF Sessions
  <1> QED
    BY <1>4, <1>5, <1>6

(***************************************************************************)
(* Every step keeps the types                                              *)
(***************************************************************************)
\* The bookkeeping an action leaves alone keeps its types.
LEMMA ManagerExcept ==
    ASSUME NEW m \in Managers
    PROVE  /\ \A st \in Statuses : [m EXCEPT !.status = st] \in Managers
           /\ \A st \in Statuses, c \in SUBSET Conversations, a \in SUBSET Sessions :
                 [m EXCEPT !.status = st, !.conv = c, !.about = a] \in Managers
           /\ \A st \in Statuses, c \in SUBSET Conversations, o, a \in SUBSET Sessions :
                 [m EXCEPT !.status = st, !.conv = c, !.offer = o, !.about = a] \in Managers
           /\ \A p, q \in SUBSET Nat : [m EXCEPT !.stream = p, !.pc = q] \in Managers
           /\ \A o \in SUBSET Sessions : [m EXCEPT !.offer = o] \in Managers
  BY DEF Managers

LEMMA StartCallType ==
    ASSUME TypeOK, NEW d \in Devices, NEW c \in Conversations, StartCall(d, c)
    PROVE  TypeOK'
  <1>1. NewTask(d, "start", c, {})
    BY DEF StartCall
  <1>2. {} \in SUBSET Sessions /\ {c} \in SUBSET Conversations /\ "outgoing-ringing" \in Statuses
    BY DEF Statuses
  <1>3. /\ serial' \in [Devices -> Nat]
        /\ tasks' \in [Devices -> SUBSET Tasks]
        /\ {[dev |-> d, n |-> NextNumber(d)]} \in SUBSET Sessions
    BY <1>1, <1>2, NewTaskType
  <1>4. [mgr[d] EXCEPT !.status = "outgoing-ringing", !.conv = {c},
                       !.about = {[dev |-> d, n |-> NextNumber(d)]}] \in Managers
    BY <1>2, <1>3, ManagerFields, ManagerExcept
  <1>5. mgr' \in [Devices -> Managers]
    BY <1>4 DEF StartCall, TypeOK
  <1> QED
    BY <1>3, <1>5 DEF StartCall, TypeOK

LEMMA AcceptCallType ==
    ASSUME TypeOK, NEW d \in Devices, AcceptCall(d)
    PROVE  TypeOK'
  <1>1. PICK c \in mgr[d].conv : NewTask(d, "accept", c, mgr[d].offer)
    BY DEF AcceptCall
  <1>2. c \in Conversations /\ mgr[d].offer \in SUBSET Sessions
    BY ManagerFields
  <1>3. /\ serial' \in [Devices -> Nat]
        /\ tasks' \in [Devices -> SUBSET Tasks]
    BY <1>1, <1>2, NewTaskType
  <1>4. "connecting" \in Statuses
    BY DEF Statuses
  <1>5. [mgr[d] EXCEPT !.status = "connecting"] \in Managers
    BY <1>4, ManagerFields, ManagerExcept
  <1>6. mgr' \in [Devices -> Managers]
    BY <1>5 DEF AcceptCall, TypeOK
  <1> QED
    BY <1>3, <1>6 DEF AcceptCall, TypeOK

LEMMA TaskFields ==
    ASSUME TypeOK, NEW d \in Devices, NEW t \in tasks[d]
    PROVE  /\ t \in Tasks /\ t.n \in Nat \ {0} /\ t.conv \in Conversations
           /\ t.offer \in SUBSET Sessions /\ t.kind \in {"start", "accept"}
           /\ [t EXCEPT !.at = "describe"] \in Tasks
           /\ [dev |-> d, n |-> t.n] \in Sessions
           /\ tasks[d] \ {t} \in SUBSET Tasks
  <1>1. t \in Tasks
    BY DEF TypeOK
  <1>2. tasks[d] \ {t} \in SUBSET Tasks
    BY DEF TypeOK
  <1> QED
    BY <1>1, <1>2 DEF Tasks, Sessions

LEMMA MediaReadyType ==
    ASSUME TypeOK, NEW d \in Devices, NEW t \in tasks[d], MediaReady(d, t)
    PROVE  TypeOK'
  <1>1. t.n \in Nat /\ t.offer \in SUBSET Sessions /\ [t EXCEPT !.at = "describe"] \in Tasks
    BY TaskFields
  <1>2. live' \in [Devices -> SUBSET Nat]
    BY <1>1 DEF MediaReady, TypeOK
  <1>3. [n |-> t.n, remote |-> t.offer] \in [n : Nat, remote : SUBSET Sessions]
    BY <1>1
  <1>4. open' \in [Devices -> SUBSET [n : Nat, remote : SUBSET Sessions]]
    BY <1>3 DEF MediaReady, TypeOK
  <1>5. {t.n} \in SUBSET Nat
    BY <1>1
  <1>6. [mgr[d] EXCEPT !.stream = {t.n}, !.pc = {t.n}] \in Managers
    BY <1>5, ManagerFields, ManagerExcept
  <1>7. mgr' \in [Devices -> Managers]
    BY <1>6 DEF MediaReady, TypeOK
  <1>8. tasks' \in [Devices -> SUBSET Tasks]
    BY <1>1 DEF MediaReady, TypeOK
  <1> QED
    BY <1>2, <1>4, <1>7, <1>8 DEF MediaReady, TypeOK

LEMMA DescribeType ==
    ASSUME TypeOK, NEW d \in Devices, NEW t \in tasks[d], Describe(d, t)
    PROVE  TypeOK'
  <1> DEFINE K == tasks[d] \ {t}
  <1>1. /\ tasks' = [tasks EXCEPT ![d] = K]
        /\ UNCHANGED <<serial, online, mixed, hangups, faults>>
    BY DEF Describe
  <1>2. tasks' \in [Devices -> SUBSET Tasks]
    BY <1>1, TaskFields DEF TypeOK
  <1>3. CASE FailWith(d, K) /\ UNCHANGED chan
    <2> HIDE DEF K
    <2> QED BY <1>1, <1>2, <1>3, FailWithType DEF TypeOK
  <1> DEFINE me == {[dev |-> d, n |-> t.n]}
  <1>4. /\ me \in SUBSET Sessions /\ t.offer \in SUBSET Sessions /\ t.conv \in Conversations
        /\ {} \in SUBSET Sessions /\ "invite" \in Types /\ chan \in Chans
    BY TaskFields DEF Types, TypeOK, Chans
  <1>5. ASSUME /\ chan' = IF t.kind = "start"
                          THEN Sent(chan, d, Reached(d, t.conv), Frame("invite", t.conv, me, me))
                          ELSE Answered(chan, d, t.conv, me, t.offer)
               /\ mgr' = IF t.kind = "start" THEN mgr ELSE [mgr EXCEPT ![d].offer = {}]
               /\ UNCHANGED <<open, live, cut>>
        PROVE  TypeOK'
    <2> HIDE DEF me, K
    <2>1. chan' \in Chans
      BY <1>4, <1>5, FrameType, SentType, AnsweredType
    <2>2. [mgr[d] EXCEPT !.offer = {}] \in Managers
      BY <1>4, ManagerFields, ManagerExcept
    <2>3. mgr' \in [Devices -> Managers]
      BY <1>5, <2>2 DEF TypeOK
    <2> QED
      BY <1>1, <1>2, <1>5, <2>1, <2>3 DEF TypeOK, Chans
  <1> QED
    BY <1>3, <1>5 DEF Describe

LEMMA DescribeClosedType ==
    ASSUME TypeOK, NEW d \in Devices, NEW t \in tasks[d], DescribeClosed(d, t)
    PROVE  TypeOK'
  <1> DEFINE K == tasks[d] \ {t}
  <1>1. /\ tasks' = [tasks EXCEPT ![d] = K]
        /\ UNCHANGED <<serial, chan, online, mixed, hangups, faults>>
        /\ FailWith(d, K) \/ UNCHANGED <<mgr, open, live, cut>>
    BY DEF DescribeClosed
  <1>2. tasks' \in [Devices -> SUBSET Tasks]
    BY <1>1, TaskFields DEF TypeOK
  <1> HIDE DEF K
  <1>3. CASE FailWith(d, K)
    BY <1>1, <1>2, <1>3, FailWithType DEF TypeOK
  <1>4. CASE UNCHANGED <<mgr, open, live, cut>>
    BY <1>1, <1>2, <1>4 DEF TypeOK
  <1> QED
    BY <1>1, <1>3, <1>4

LEMMA HangUpType ==
    ASSUME TypeOK, NEW d \in Devices, NEW type \in {"decline", "end"}, HangUp(d, type)
    PROVE  TypeOK'
  <1>1. /\ hangups' = hangups + 1
        /\ Cleanup(d, tasks[d])
        /\ UNCHANGED <<tasks, serial, online, mixed, faults>>
    BY DEF HangUp
  <1>2. /\ live' \in [Devices -> SUBSET Nat]
        /\ open' \in [Devices -> SUBSET [n : Nat, remote : SUBSET Sessions]]
        /\ cut' \in [Devices -> BOOLEAN]
    BY <1>1, CleanupType
  <1>3. chan' \in Chans
    <2>1. CASE online[d]
      <3>1. PICK c \in mgr[d].conv :
               chan' = Sent(chan, d, Reached(d, c), Frame(type, c, {}, mgr[d].about))
        BY <2>1 DEF HangUp
      <3>2. /\ c \in Conversations /\ {} \in SUBSET Sessions /\ mgr[d].about \in SUBSET Sessions
            /\ type \in Types /\ chan \in Chans
        BY ManagerFields DEF Types, TypeOK, Chans
      <3> QED
        BY <3>1, <3>2, FrameType, SentType
    <2>2. CASE ~online[d]
      BY <2>2 DEF HangUp, TypeOK, Chans
    <2> QED
      BY <2>1, <2>2
  <1>4. mgr' \in [Devices -> Managers]
    <2>1. CASE online[d]
      <3>1. mgr' = [mgr EXCEPT ![d] = Idle]
        BY <2>1 DEF HangUp
      <3> QED
        BY <3>1, IdleType DEF TypeOK
    <2>2. CASE ~online[d]
      <3>1. mgr' = [mgr EXCEPT ![d] = TornDown(d, "ended")]
        BY <2>2 DEF HangUp
      <3>2. "ended" \in Statuses
        BY DEF Statuses
      <3> QED
        BY <3>1, <3>2, TornDownType
    <2> QED
      BY <2>1, <2>2
  <1> QED
    BY <1>1, <1>2, <1>3, <1>4 DEF TypeOK, Chans

LEMMA DismissType ==
    ASSUME TypeOK, NEW d \in Devices, Dismiss(d)
    PROVE  TypeOK'
  <1>1. [Idle EXCEPT !.pc = mgr[d].pc, !.stream = mgr[d].stream, !.offer = mgr[d].offer]
          \in Managers
    BY IdleType, ManagerFields DEF Managers
  <1>2. mgr' \in [Devices -> Managers]
    BY <1>1 DEF Dismiss, TypeOK
  <1> QED
    BY <1>2 DEF Dismiss, TypeOK

LEMMA UserStepType ==
    ASSUME TypeOK, NEW d \in Devices, UserStep(d)
    PROVE  TypeOK'
  BY StartCallType, AcceptCallType, HangUpType, DismissType DEF UserStep, DeclineCall, EndCall

LEMMA TaskStepType ==
    ASSUME TypeOK, NEW d \in Devices, TaskStep(d)
    PROVE  TypeOK'
  BY MediaReadyType, DescribeType, DescribeClosedType DEF TaskStep

LEMMA InviteType ==
    ASSUME TypeOK, NEW s \in Devices, NEW d \in Devices, chan[s][d] # <<>>,
           HandleRemoteInvite(s, d, Head(chan[s][d])),
           UNCHANGED <<serial, online, hangups, faults>>
    PROVE  TypeOK'
  <1> DEFINE f == Head(chan[s][d])
  <1>1. f \in Frames /\ Received(s, d) \in Chans
    BY ReceivedType DEF TypeOK, Chans
  <1> HIDE DEF f
  <1>2. /\ f.conv \in Conversations /\ f.sdp \in SUBSET Sessions /\ f.about \in SUBSET Sessions
    BY <1>1 DEF Frames
  <1>3. UNCHANGED <<open, live, cut, mixed, tasks>>
    BY DEF HandleRemoteInvite
  <1>4. CASE mgr[d].status = "idle"
    <2>1. /\ mgr' = [mgr EXCEPT ![d] = [@ EXCEPT !.status = "incoming-ringing",
                                !.conv = {f.conv}, !.offer = f.sdp, !.about = f.about]]
          /\ chan' = Received(s, d)
      BY <1>4 DEF HandleRemoteInvite, f
    <2>2. "incoming-ringing" \in Statuses /\ {f.conv} \in SUBSET Conversations
      BY <1>2 DEF Statuses
    <2>3. [mgr[d] EXCEPT !.status = "incoming-ringing", !.conv = {f.conv}, !.offer = f.sdp,
                         !.about = f.about] \in Managers
      BY <1>2, <2>2, ManagerFields, ManagerExcept
    <2>4. mgr' \in [Devices -> Managers]
      BY <2>1, <2>3 DEF TypeOK
    <2> QED
      BY <1>1, <1>3, <2>1, <2>4 DEF TypeOK, Chans
  <1>5. CASE mgr[d].status # "idle"
    <2>1. /\ chan' = Sent(Received(s, d), d, Reached(d, f.conv),
                          Frame("decline", f.conv, {}, f.about))
          /\ UNCHANGED mgr
      BY <1>5 DEF HandleRemoteInvite, f
    <2>2. {} \in SUBSET Sessions /\ "decline" \in Types
      BY DEF Types
    <2>3. chan' \in Chans
      BY <1>1, <1>2, <2>1, <2>2, FrameType, SentType
    <2> QED
      BY <1>3, <2>1, <2>3 DEF TypeOK, Chans
  <1> QED
    BY <1>4, <1>5

\* A frame that ends the call, or is ignored.
LEMMA EndingType ==
    ASSUME TypeOK, NEW s \in Devices, NEW d \in Devices, NEW f, chan[s][d] # <<>>,
           chan' = Received(s, d),
           \/ Finish(d) /\ MixUp(d, f)
           \/ Ignored,
           UNCHANGED <<tasks, serial, online, hangups, faults>>
    PROVE  TypeOK'
  <1>1. chan' \in Chans
    BY ReceivedType DEF TypeOK, Chans
  <1>2. CASE Ignored
    BY <1>1, <1>2 DEF Ignored, TypeOK, Chans
  <1>3. CASE Finish(d) /\ MixUp(d, f)
    <2>1. mixed' \in BOOLEAN
      BY <1>3 DEF MixUp
    <2> QED
      BY <1>1, <1>3, <2>1, FinishType DEF TypeOK, Chans
  <1> QED
    BY <1>2, <1>3

LEMMA AnswerType ==
    ASSUME TypeOK, NEW s \in Devices, NEW d \in Devices, chan[s][d] # <<>>,
           HandleRemoteAnswer(s, d, Head(chan[s][d])),
           UNCHANGED <<serial, online, hangups, faults>>
    PROVE  TypeOK'
  <1> DEFINE f == Head(chan[s][d])
  <1>1. f \in Frames /\ chan' \in Chans
    BY ReceivedType DEF TypeOK, Chans, HandleRemoteAnswer
  <1>2. UNCHANGED tasks
    BY DEF HandleRemoteAnswer
  <1>3. CASE Ignored
    BY <1>1, <1>2, <1>3 DEF Ignored, TypeOK, Chans
  <1>4. CASE FailWith(d, tasks[d]) /\ MixUp(d, f)
    <2>1. mixed' \in BOOLEAN
      BY <1>4 DEF MixUp
    <2> QED
      BY <1>1, <1>2, <1>4, <2>1, FailWithType DEF TypeOK, Chans
  <1>5. ASSUME /\ mgr' = [mgr EXCEPT ![d].status = "connecting"]
               /\ open' = [open EXCEPT ![d] =
                     {IF p.n \in mgr[d].pc THEN [p EXCEPT !.remote = f.sdp] ELSE p : p \in @}]
               /\ UNCHANGED <<live, cut>>
               /\ MixUp(d, f)
        PROVE  TypeOK'
    <2>1. mixed' \in BOOLEAN
      BY <1>5 DEF MixUp
    <2>2. "connecting" \in Statuses
      BY DEF Statuses
    <2>3. [mgr[d] EXCEPT !.status = "connecting"] \in Managers
      BY <2>2, ManagerFields, ManagerExcept
    <2>4. mgr' \in [Devices -> Managers]
      BY <1>5, <2>3 DEF TypeOK
    <2>5. f.sdp \in SUBSET Sessions
      BY <1>1 DEF Frames
    <2> HIDE DEF f
    <2>6. ASSUME NEW p \in open[d]
          PROVE  (IF p.n \in mgr[d].pc THEN [p EXCEPT !.remote = f.sdp] ELSE p)
                    \in [n : Nat, remote : SUBSET Sessions]
      BY <2>5 DEF TypeOK
    <2>7. {IF p.n \in mgr[d].pc THEN [p EXCEPT !.remote = f.sdp] ELSE p : p \in open[d]}
             \in SUBSET [n : Nat, remote : SUBSET Sessions]
      BY <2>6
    <2>8. open' \in [Devices -> SUBSET [n : Nat, remote : SUBSET Sessions]]
      BY <1>5, <2>7 DEF TypeOK
    <2> QED
      BY <1>1, <1>2, <1>5, <2>1, <2>4, <2>8 DEF TypeOK, Chans
  <1> QED
    BY <1>3, <1>4, <1>5 DEF HandleRemoteAnswer

LEMMA ReceiveType ==
    ASSUME TypeOK, NEW s \in Devices, NEW d \in Devices, Receive(s, d)
    PROVE  TypeOK'
  <1> DEFINE f == Head(chan[s][d])
  <1>1. /\ chan[s][d] # <<>>
        /\ UNCHANGED <<serial, online, hangups, faults>>
    BY DEF Receive
  <1>2. CASE HandleRemoteInvite(s, d, f)
    BY <1>1, <1>2, InviteType
  <1>3. CASE HandleRemoteAnswer(s, d, f)
    BY <1>1, <1>3, AnswerType
  <1> HIDE DEF f
  <1>4. CASE HandleRemoteDecline(s, d, f)
    BY <1>1, <1>4, EndingType DEF HandleRemoteDecline
  <1>5. CASE HandleRemoteEnd(s, d, f)
    BY <1>1, <1>5, EndingType DEF HandleRemoteEnd
  <1>6. CASE HandleAcceptedElsewhere(s, d, f)
    BY <1>1, <1>6, EndingType DEF HandleAcceptedElsewhere
  <1> QED
    BY <1>2, <1>3, <1>4, <1>5, <1>6 DEF Receive, f

LEMMA LinkStepType ==
    ASSUME TypeOK, NEW d \in Devices, LinkStep(d)
    PROVE  TypeOK'
  <1>1. ASSUME NEW p \in open[d], Connected(d, p)
        PROVE  TypeOK'
    <2>1. "in-call" \in Statuses
      BY DEF Statuses
    <2>2. [mgr[d] EXCEPT !.status = "in-call"] \in Managers
      BY <2>1, ManagerFields, ManagerExcept
    <2>3. mgr' \in [Devices -> Managers]
      BY <1>1, <2>2 DEF Connected, TypeOK
    <2> QED
      BY <1>1, <2>3 DEF Connected, TypeOK
  <1>2. ASSUME NEW p \in open[d], FarEndGone(d, p)
        PROVE  TypeOK'
    <2>1. /\ FailWith(d, tasks[d])
          /\ UNCHANGED <<tasks, serial, chan, online, mixed, hangups, faults>>
      BY <1>2 DEF FarEndGone
    <2> QED
      BY <2>1, FailWithType DEF TypeOK
  <1> QED
    BY <1>1, <1>2 DEF LinkStep

LEMMA LinkFailsType ==
    ASSUME TypeOK, NEW d \in Devices, NEW p \in open[d], LinkFails(d, p)
    PROVE  TypeOK'
  <1>1. /\ FailWith(d, tasks[d])
        /\ faults' = faults + 1
        /\ UNCHANGED <<tasks, serial, chan, online, mixed, hangups>>
    BY DEF LinkFails, Fault
  <1> QED
    BY <1>1, FailWithType DEF TypeOK

LEMMA NetworkType ==
    ASSUME TypeOK, NEW d \in Devices,
           (\E outgoing \in BOOLEAN : Disconnect(d, outgoing)) \/ Reconnect(d)
    PROVE  TypeOK'
  <1>1. ASSUME NEW outgoing \in BOOLEAN, Disconnect(d, outgoing)
        PROVE  TypeOK'
    <2>1. <<>> \in Seq(Frames)
      OBVIOUS
    <2>2. chan' \in [Devices -> [Devices -> Seq(Frames)]]
      BY <1>1, <2>1 DEF Disconnect, TypeOK
    <2> QED
      BY <1>1, <2>2 DEF Disconnect, Fault, TypeOK
  <1>2. ASSUME Reconnect(d)
        PROVE  TypeOK'
    BY <1>2 DEF Reconnect, TypeOK
  <1> QED
    BY <1>1, <1>2

LEMMA TypeStep == TypeOK /\ [Next]_vars => TypeOK'
  <1> SUFFICES ASSUME TypeOK, [Next]_vars PROVE TypeOK'
    OBVIOUS
  <1>1. CASE \E d \in Devices : UserStep(d) \/ TaskStep(d) \/ LinkStep(d)
    BY <1>1, UserStepType, TaskStepType, LinkStepType
  <1>2. CASE \E s, d \in Devices : Receive(s, d)
    BY <1>2, ReceiveType
  <1>3. CASE \E d \in Devices : \E p \in open[d] : LinkFails(d, p)
    BY <1>3, LinkFailsType
  <1>4. CASE \E d \in Devices, outgoing \in BOOLEAN : Disconnect(d, outgoing)
    BY <1>4, NetworkType
  <1>5. CASE \E d \in Devices : Reconnect(d)
    BY <1>5, NetworkType
  <1>6. CASE UNCHANGED vars
    BY <1>6 DEF vars, TypeOK
  <1> QED
    BY <1>1, <1>2, <1>3, <1>4, <1>5, <1>6 DEF Next

LEMMA TypeInit == Init => TypeOK
  <1> SUFFICES ASSUME Init PROVE TypeOK
    OBVIOUS
  <1>1. <<>> \in Seq(Frames)
    OBVIOUS
  <1> QED
    BY <1>1, IdleType DEF Init, TypeOK

\* Every manager, task, connection and frame keeps its type, whatever the
\* devices, conversations and bounds.
THEOREM TypeCorrect == Spec => []TypeOK
  <1> QED
    BY TypeInit, TypeStep, PTL DEF Spec

(***************************************************************************)
(* The media follow the call                                               *)
(***************************************************************************)
Quiet == {"idle", "incoming-ringing", "ended", "error"}

Same(d) == /\ mgr'[d] = mgr[d] /\ tasks'[d] = tasks[d] /\ open'[d] = open[d]
           /\ live'[d] = live[d] /\ cut'[d] = cut[d]

\* A step that touches device d only.
OnlyAt(d) == \A e \in Devices \ {d} : Same(e)

LEMMA Elsewhere ==
    ASSUME SetUpInv, NEW d \in Devices, OnlyAt(d),
           ~cut'[d] => (OneSetUp(d) /\ OwnMedia(d))'
    PROVE  SetUpInv'
  <1>1. ASSUME NEW e \in Devices \ {d}, ~cut'[e]
        PROVE  (OneSetUp(e) /\ OwnMedia(e))'
    <2>1. Same(e)
      BY <1>1 DEF OnlyAt
    <2>2. OneSetUp(e) /\ OwnMedia(e)
      BY <1>1, <2>1 DEF SetUpInv, Same
    <2> QED
      BY <2>1, <2>2 DEF OneSetUp, OwnMedia, Same
  <1> QED
    BY <1>1 DEF SetUpInv

\* Tearing down at d: nothing is left on, and nothing goes on.
LEMMA CleanupClears ==
    ASSUME TypeOK, SetUpInv, NEW d \in Devices, NEW K, Cleanup(d, K), ~cut'[d]
    PROVE  K = {} /\ live'[d] = {} /\ open'[d] = {}
  <1>1. ~cut[d] /\ K = {}
    BY DEF Cleanup, TypeOK
  <1>2. OwnMedia(d)
    BY <1>1 DEF SetUpInv
  <1>3. live'[d] = live[d] \ mgr[d].stream
    BY DEF Cleanup, Stopped, TypeOK
  <1>4. open'[d] = {p \in open[d] : p.n \notin mgr[d].pc}
    BY DEF Cleanup, TypeOK
  <1>5. \A p \in open[d] : p.n \in mgr[d].pc
    BY <1>2 DEF OwnMedia
  <1> QED
    BY <1>1, <1>2, <1>3, <1>4, <1>5 DEF OwnMedia

LEMMA CleanupElsewhere ==
    ASSUME TypeOK, NEW d \in Devices, NEW K, Cleanup(d, K), NEW e \in Devices \ {d}
    PROVE  live'[e] = live[e] /\ open'[e] = open[e] /\ cut'[e] = cut[e]
  BY DEF Cleanup, TypeOK

\* A manager without media and a device without tasks.
LEMMA Cleared ==
    ASSUME NEW d \in Devices, mgr'[d].pc = {}, mgr'[d].stream = {}, live'[d] = {},
           open'[d] = {}, tasks'[d] = {}
    PROVE  (OneSetUp(d) /\ OwnMedia(d))'
  <1>1. {p.n : p \in open'[d]} = {}
    OBVIOUS
  <1> QED
    BY <1>1 DEF OneSetUp, OwnMedia

LEMMA FailWithMedia ==
    ASSUME TypeOK, SetUpInv, NEW d \in Devices, NEW K, FailWith(d, K),
           tasks'[d] = K, \A e \in Devices \ {d} : tasks'[e] = tasks[e]
    PROVE  SetUpInv'
  <1>1. /\ Cleanup(d, K)
        /\ mgr' = [mgr EXCEPT ![d] = TornDown(d, Failed(mgr[d].status))]
    BY DEF FailWith
  <1>2. mgr'[d].pc = {} /\ mgr'[d].stream = {}
    BY <1>1 DEF TornDown, TypeOK
  <1>3. OnlyAt(d)
    BY <1>1, CleanupElsewhere DEF OnlyAt, Same, TypeOK
  <1>4. ASSUME ~cut'[d] PROVE (OneSetUp(d) /\ OwnMedia(d))'
    BY <1>1, <1>2, <1>4, CleanupClears, Cleared
  <1> QED
    BY <1>3, <1>4, Elsewhere

LEMMA FinishMedia ==
    ASSUME TypeOK, SetUpInv, NEW d \in Devices, Finish(d), UNCHANGED tasks
    PROVE  SetUpInv'
  <1>1. Cleanup(d, tasks[d]) /\ mgr' = [mgr EXCEPT ![d] = Idle]
    BY DEF Finish
  <1>2. mgr'[d].pc = {} /\ mgr'[d].stream = {}
    BY <1>1 DEF Idle, TypeOK
  <1>3. OnlyAt(d)
    BY <1>1, CleanupElsewhere DEF OnlyAt, Same, TypeOK
  <1>4. ASSUME ~cut'[d] PROVE (OneSetUp(d) /\ OwnMedia(d))'
    BY <1>1, <1>2, <1>4, CleanupClears, Cleared
  <1> QED
    BY <1>3, <1>4, Elsewhere

LEMMA HangUpMedia ==
    ASSUME TypeOK, SetUpInv, NEW d \in Devices, NEW type, HangUp(d, type)
    PROVE  SetUpInv'
  <1>1. Cleanup(d, tasks[d]) /\ UNCHANGED tasks
    BY DEF HangUp
  <1>2. \/ mgr' = [mgr EXCEPT ![d] = Idle]
        \/ mgr' = [mgr EXCEPT ![d] = TornDown(d, "ended")]
    BY DEF HangUp
  <1>3. mgr'[d].pc = {} /\ mgr'[d].stream = {}
    BY <1>2 DEF Idle, TornDown, TypeOK
  <1>4. OnlyAt(d)
    BY <1>1, <1>2, CleanupElsewhere DEF OnlyAt, Same, TypeOK
  <1>5. ASSUME ~cut'[d] PROVE (OneSetUp(d) /\ OwnMedia(d))'
    BY <1>1, <1>3, <1>5, CleanupClears, Cleared
  <1> QED
    BY <1>4, <1>5, Elsewhere

\* Starting or accepting: the first task, and no media yet.
LEMMA NewTaskMedia ==
    ASSUME TypeOK, SetUpInv, NEW d \in Devices, NEW kind, NEW c, NEW offer,
           NewTask(d, kind, c, offer), mgr[d].status \in {"idle", "incoming-ringing"},
           mgr'[d].status \notin Quiet, mgr'[d].pc = mgr[d].pc, mgr'[d].stream = mgr[d].stream,
           \A e \in Devices \ {d} : mgr'[e] = mgr[e],
           UNCHANGED <<open, live, cut>>
    PROVE  SetUpInv'
  <1> DEFINE t == [n |-> NextNumber(d), kind |-> kind, at |-> "media", conv |-> c, offer |-> offer]
  <1>1. tasks' = [tasks EXCEPT ![d] = @ \cup {t}]
    BY DEF NewTask
  <1> HIDE DEF t
  <1>2. OnlyAt(d)
    BY <1>1 DEF OnlyAt, Same, TypeOK
  <1>3. ASSUME ~cut'[d] PROVE (OneSetUp(d) /\ OwnMedia(d))'
    <2>1. OneSetUp(d) /\ OwnMedia(d)
      BY <1>3 DEF SetUpInv
    <2>2. tasks[d] = {} /\ mgr[d].pc = {}
      BY <2>1 DEF OneSetUp, OwnMedia
    <2>3. tasks'[d] = {t}
      BY <1>1, <2>2 DEF TypeOK
    <2>4. OneSetUp(d)'
      BY <2>2, <2>3 DEF OneSetUp, Quiet
    <2>5. OwnMedia(d)'
      BY <2>1, <2>2 DEF OwnMedia
    <2> QED
      BY <2>4, <2>5
  <1> QED
    BY <1>2, <1>3, Elsewhere

LEMMA UserStepMedia ==
    ASSUME TypeOK, SetUpInv, NEW d \in Devices, UserStep(d)
    PROVE  SetUpInv'
  <1>1. ASSUME NEW c \in Conversations, StartCall(d, c)
        PROVE  SetUpInv'
    <2>1. /\ NewTask(d, "start", c, {})
          /\ mgr[d].status \in {"idle", "incoming-ringing"}
          /\ UNCHANGED <<open, live, cut>>
      BY <1>1 DEF StartCall
    <2>2. /\ mgr'[d].status = "outgoing-ringing"
          /\ mgr'[d].pc = mgr[d].pc /\ mgr'[d].stream = mgr[d].stream
          /\ \A e \in Devices \ {d} : mgr'[e] = mgr[e]
      BY <1>1, ManagerFields DEF StartCall, TypeOK, Managers
    <2> QED
      BY <2>1, <2>2, NewTaskMedia DEF Quiet
  <1>2. ASSUME AcceptCall(d)
        PROVE  SetUpInv'
    <2>1. /\ mgr[d].status \in {"idle", "incoming-ringing"}
          /\ UNCHANGED <<open, live, cut>>
      BY <1>2 DEF AcceptCall
    <2>2. PICK c \in mgr[d].conv : NewTask(d, "accept", c, mgr[d].offer)
      BY <1>2 DEF AcceptCall
    <2>3. /\ mgr'[d].status = "connecting"
          /\ mgr'[d].pc = mgr[d].pc /\ mgr'[d].stream = mgr[d].stream
          /\ \A e \in Devices \ {d} : mgr'[e] = mgr[e]
      BY <1>2, ManagerFields DEF AcceptCall, TypeOK, Managers
    <2> QED
      BY <2>1, <2>2, <2>3, NewTaskMedia DEF Quiet
  <1>3. ASSUME DeclineCall(d) \/ EndCall(d)
        PROVE  SetUpInv'
    BY <1>3, HangUpMedia DEF DeclineCall, EndCall
  <1>4. ASSUME Dismiss(d)
        PROVE  SetUpInv'
    <2>1. /\ mgr[d].status = "error"
          /\ UNCHANGED <<tasks, open, live, cut>>
      BY <1>4 DEF Dismiss
    <2>2. mgr'[d].pc = mgr[d].pc /\ mgr'[d].stream = mgr[d].stream
      BY <1>4 DEF Dismiss, TypeOK, Idle
    <2>3. OnlyAt(d)
      BY <1>4, <2>1 DEF Dismiss, OnlyAt, Same, TypeOK
    <2>4. ASSUME ~cut'[d] PROVE (OneSetUp(d) /\ OwnMedia(d))'
      <3>1. OneSetUp(d) /\ OwnMedia(d)
        BY <2>1, <2>4 DEF SetUpInv
      <3>2. tasks[d] = {} /\ mgr[d].pc = {}
        BY <2>1, <3>1 DEF OneSetUp, OwnMedia
      <3> QED
        BY <2>1, <2>2, <3>1, <3>2 DEF OneSetUp, OwnMedia
    <2> QED
      BY <2>3, <2>4, Elsewhere
  <1> QED
    BY <1>1, <1>2, <1>3, <1>4 DEF UserStep

\* The new stream and connection come first, and are all there is.
LEMMA MediaReadyMedia ==
    ASSUME TypeOK, SetUpInv, NEW d \in Devices, NEW t \in tasks[d], MediaReady(d, t)
    PROVE  SetUpInv'
  <1> DEFINE done == [t EXCEPT !.at = "describe"]
             conn == [n |-> t.n, remote |-> t.offer]
  <1>1. /\ t.at = "media"
        /\ live' = [live EXCEPT ![d] = @ \cup {t.n}]
        /\ open' = [open EXCEPT ![d] = @ \cup {conn}]
        /\ mgr' = [mgr EXCEPT ![d] = [@ EXCEPT !.stream = {t.n}, !.pc = {t.n}]]
        /\ tasks' = [tasks EXCEPT ![d] = (@ \ {t}) \cup {done}]
        /\ UNCHANGED cut
    BY DEF MediaReady
  <1>2. conn.n = t.n /\ done.at = "describe"
    BY TaskFields DEF Tasks
  <1> HIDE DEF done, conn
  <1>3. OnlyAt(d)
    BY <1>1 DEF OnlyAt, Same, TypeOK
  <1>4. ASSUME ~cut'[d] PROVE (OneSetUp(d) /\ OwnMedia(d))'
    <2>1. OneSetUp(d) /\ OwnMedia(d)
      BY <1>1, <1>4 DEF SetUpInv
    <2>2. tasks[d] = {t} /\ mgr[d].pc = {} /\ mgr[d].stream = {} /\ live[d] = {}
      BY <1>1, <2>1 DEF OneSetUp, OwnMedia
    <2>3. open[d] = {}
      BY <2>1, <2>2 DEF OwnMedia
    <2>4. tasks'[d] = {done} /\ live'[d] = {t.n} /\ open'[d] = {conn}
      BY <1>1, <2>2, <2>3 DEF TypeOK
    <2>5. /\ mgr'[d].pc = {t.n} /\ mgr'[d].stream = {t.n}
          /\ mgr'[d].status = mgr[d].status
      BY <1>1, ManagerFields DEF TypeOK, Managers
    <2>6. mgr[d].status \notin Quiet
      BY <2>1, <2>2 DEF OneSetUp, Quiet
    <2>7. OneSetUp(d)'
      BY <1>2, <2>4, <2>5, <2>6 DEF OneSetUp, Quiet
    <2>8. {p.n : p \in open'[d]} = {t.n}
      BY <1>2, <2>4
    <2> QED
      BY <2>4, <2>5, <2>6, <2>7, <2>8 DEF OwnMedia, Quiet
  <1> QED
    BY <1>3, <1>4, Elsewhere

\* A task that ends with its call's media in place.
LEMMA TaskDoneMedia ==
    ASSUME TypeOK, SetUpInv, NEW d \in Devices, NEW t \in tasks[d],
           tasks' = [tasks EXCEPT ![d] = @ \ {t}],
           mgr'[d].status = mgr[d].status, mgr'[d].pc = mgr[d].pc,
           mgr'[d].stream = mgr[d].stream, \A e \in Devices \ {d} : mgr'[e] = mgr[e],
           UNCHANGED <<open, live, cut>>
    PROVE  SetUpInv'
  <1>1. OnlyAt(d)
    BY DEF OnlyAt, Same, TypeOK
  <1>2. ASSUME ~cut'[d] PROVE (OneSetUp(d) /\ OwnMedia(d))'
    <2>1. OneSetUp(d) /\ OwnMedia(d)
      BY <1>2 DEF SetUpInv
    <2>2. tasks'[d] = {}
      BY <2>1 DEF OneSetUp, TypeOK
    <2> QED
      BY <2>1, <2>2 DEF OneSetUp, OwnMedia
  <1> QED
    BY <1>1, <1>2, Elsewhere

LEMMA TaskStepMedia ==
    ASSUME TypeOK, SetUpInv, NEW d \in Devices, TaskStep(d)
    PROVE  SetUpInv'
  <1>1. ASSUME NEW t \in tasks[d], MediaReady(d, t)
        PROVE  SetUpInv'
    BY <1>1, MediaReadyMedia
  <1>2. ASSUME NEW t \in tasks[d], NEW K, K = tasks[d] \ {t}, FailWith(d, K),
               tasks' = [tasks EXCEPT ![d] = K]
        PROVE  SetUpInv'
    <2>1. tasks'[d] = K /\ \A e \in Devices \ {d} : tasks'[e] = tasks[e]
      BY <1>2 DEF TypeOK
    <2> QED
      BY <1>2, <2>1, FailWithMedia
  <1>3. ASSUME NEW t \in tasks[d], Describe(d, t)
        PROVE  SetUpInv'
    <2>1. tasks' = [tasks EXCEPT ![d] = tasks[d] \ {t}]
      BY <1>3 DEF Describe
    <2>2. CASE FailWith(d, tasks[d] \ {t})
      BY <1>2, <1>3, <2>1, <2>2
    <2>3. CASE /\ mgr' = IF t.kind = "start" THEN mgr ELSE [mgr EXCEPT ![d].offer = {}]
               /\ UNCHANGED <<open, live, cut>>
      <3>1. /\ mgr'[d].status = mgr[d].status /\ mgr'[d].pc = mgr[d].pc
            /\ mgr'[d].stream = mgr[d].stream
            /\ \A e \in Devices \ {d} : mgr'[e] = mgr[e]
        BY <2>3, ManagerFields DEF TypeOK, Managers
      <3> QED
        BY <1>3, <2>1, <2>3, <3>1, TaskDoneMedia
    <2> QED
      BY <1>3, <2>2, <2>3 DEF Describe
  <1>4. ASSUME NEW t \in tasks[d], DescribeClosed(d, t)
        PROVE  SetUpInv'
    <2>1. tasks' = [tasks EXCEPT ![d] = tasks[d] \ {t}]
      BY <1>4 DEF DescribeClosed
    <2>2. CASE FailWith(d, tasks[d] \ {t})
      BY <1>2, <1>4, <2>1, <2>2
    <2>3. CASE UNCHANGED <<mgr, open, live, cut>>
      BY <1>4, <2>1, <2>3, TaskDoneMedia
    <2> QED
      BY <1>4, <2>2, <2>3 DEF DescribeClosed
  <1> QED
    BY <1>1, <1>3, <1>4 DEF TaskStep

\* A step that changes the status only, or nothing of calls.
LEMMA StatusMedia ==
    ASSUME TypeOK, SetUpInv, NEW d \in Devices,
           mgr'[d].status \in Quiet => mgr[d].status \in Quiet,
           mgr'[d].pc = mgr[d].pc, mgr'[d].stream = mgr[d].stream,
           \A e \in Devices \ {d} : mgr'[e] = mgr[e],
           {p.n : p \in open'[d]} = {p.n : p \in open[d]},
           \A e \in Devices \ {d} : open'[e] = open[e],
           UNCHANGED <<tasks, live, cut>>
    PROVE  SetUpInv'
  <1>1. OnlyAt(d)
    BY DEF OnlyAt, Same
  <1>2. ASSUME ~cut'[d] PROVE (OneSetUp(d) /\ OwnMedia(d))'
    BY <1>2 DEF SetUpInv, OneSetUp, OwnMedia, Quiet
  <1> QED
    BY <1>1, <1>2, Elsewhere

LEMMA SameMedia ==
    ASSUME SetUpInv, UNCHANGED <<mgr, tasks, open, live, cut>>
    PROVE  SetUpInv'
  BY DEF SetUpInv, OneSetUp, OwnMedia

LEMMA ReceiveMedia ==
    ASSUME TypeOK, SetUpInv, NEW s \in Devices, NEW d \in Devices, Receive(s, d)
    PROVE  SetUpInv'
  <1> DEFINE f == Head(chan[s][d])
  <1>1. ASSUME HandleRemoteInvite(s, d, f)
        PROVE  SetUpInv'
    <2>1. UNCHANGED <<open, live, cut, tasks>>
      BY <1>1 DEF HandleRemoteInvite
    <2>2. CASE mgr[d].status = "idle"
      <3>1. /\ mgr'[d].pc = mgr[d].pc /\ mgr'[d].stream = mgr[d].stream
            /\ \A e \in Devices \ {d} : mgr'[e] = mgr[e]
        <4> DEFINE m == [mgr[d] EXCEPT !.status = "incoming-ringing", !.conv = {f.conv},
                                       !.offer = f.sdp, !.about = f.about]
        <4>1. mgr' = [mgr EXCEPT ![d] = m]
          BY <1>1, <2>2 DEF HandleRemoteInvite
        <4>2. m.pc = mgr[d].pc /\ m.stream = mgr[d].stream
          BY ManagerFields DEF Managers
        <4> HIDE DEF m
        <4> QED
          BY <4>1, <4>2 DEF TypeOK
      <3> QED
        BY <2>1, <2>2, <3>1, StatusMedia DEF Quiet
    <2>3. CASE mgr[d].status # "idle"
      BY <1>1, <2>1, <2>3, SameMedia DEF HandleRemoteInvite
    <2> QED
      BY <2>2, <2>3
  <1>2. ASSUME HandleRemoteAnswer(s, d, f)
        PROVE  SetUpInv'
    <2>1. UNCHANGED tasks
      BY <1>2 DEF HandleRemoteAnswer
    <2>2. CASE Ignored
      BY <2>1, <2>2, SameMedia DEF Ignored
    <2>3. CASE FailWith(d, tasks[d])
      BY <2>1, <2>3, FailWithMedia
    <2>4. CASE /\ mgr[d].status = "outgoing-ringing"
               /\ mgr' = [mgr EXCEPT ![d].status = "connecting"]
               /\ open' = [open EXCEPT ![d] =
                     {IF p.n \in mgr[d].pc THEN [p EXCEPT !.remote = f.sdp] ELSE p : p \in @}]
               /\ UNCHANGED <<live, cut>>
      <3>1. /\ mgr'[d].status = "connecting"
            /\ mgr'[d].pc = mgr[d].pc /\ mgr'[d].stream = mgr[d].stream
            /\ \A e \in Devices \ {d} : mgr'[e] = mgr[e]
        BY <2>4, ManagerFields DEF TypeOK, Managers
      <3> DEFINE new(p) == IF p.n \in mgr[d].pc THEN [p EXCEPT !.remote = f.sdp] ELSE p
      <3>2. \A p \in open[d] : new(p).n = p.n
        BY DEF TypeOK
      <3>3. /\ open'[d] = {new(p) : p \in open[d]}
            /\ \A e \in Devices \ {d} : open'[e] = open[e]
        BY <2>4 DEF TypeOK
      <3> HIDE DEF new
      <3>4. {p.n : p \in open'[d]} = {p.n : p \in open[d]}
        BY <3>2, <3>3
      <3> QED
        BY <2>1, <2>4, <3>1, <3>3, <3>4, StatusMedia DEF Quiet
    <2> QED
      BY <1>2, <2>2, <2>3, <2>4 DEF HandleRemoteAnswer
  <1> HIDE DEF f
  <1>3. ASSUME (Finish(d) \/ Ignored) /\ UNCHANGED tasks
        PROVE  SetUpInv'
    BY <1>3, FinishMedia, SameMedia DEF Ignored
  <1>4. CASE HandleRemoteDecline(s, d, f)
    BY <1>3, <1>4 DEF HandleRemoteDecline
  <1>5. CASE HandleRemoteEnd(s, d, f)
    BY <1>3, <1>5 DEF HandleRemoteEnd
  <1>6. CASE HandleAcceptedElsewhere(s, d, f)
    BY <1>3, <1>6 DEF HandleAcceptedElsewhere
  <1> QED
    BY <1>1, <1>2, <1>4, <1>5, <1>6 DEF Receive, f

LEMMA LinkMedia ==
    ASSUME TypeOK, SetUpInv, NEW d \in Devices, NEW p \in open[d],
           Connected(d, p) \/ FarEndGone(d, p) \/ LinkFails(d, p)
    PROVE  SetUpInv'
  <1>1. CASE Connected(d, p)
    <2>1. /\ mgr'[d].status = "in-call"
          /\ mgr'[d].pc = mgr[d].pc /\ mgr'[d].stream = mgr[d].stream
          /\ \A e \in Devices \ {d} : mgr'[e] = mgr[e]
          /\ UNCHANGED <<tasks, open, live, cut>>
      BY <1>1, ManagerFields DEF Connected, TypeOK, Managers
    <2> QED
      BY <2>1, StatusMedia DEF Quiet
  <1>2. CASE FarEndGone(d, p) \/ LinkFails(d, p)
    <2>1. FailWith(d, tasks[d]) /\ UNCHANGED tasks
      BY <1>2 DEF FarEndGone, LinkFails
    <2> QED
      BY <2>1, FailWithMedia
  <1> QED
    BY <1>1, <1>2

LEMMA SetUpStep == TypeOK /\ SetUpInv /\ [Next]_vars => SetUpInv'
  <1> SUFFICES ASSUME TypeOK, SetUpInv, [Next]_vars PROVE SetUpInv'
    OBVIOUS
  <1>1. CASE \E d \in Devices : UserStep(d) \/ TaskStep(d) \/ LinkStep(d)
    BY <1>1, UserStepMedia, TaskStepMedia, LinkMedia DEF LinkStep
  <1>2. CASE \E s, d \in Devices : Receive(s, d)
    BY <1>2, ReceiveMedia
  <1>3. CASE \E d \in Devices : \E p \in open[d] : LinkFails(d, p)
    BY <1>3, LinkMedia
  <1>4. CASE \/ \E d \in Devices, outgoing \in BOOLEAN : Disconnect(d, outgoing)
             \/ \E d \in Devices : Reconnect(d)
    BY <1>4, SameMedia DEF Disconnect, Reconnect
  <1>5. CASE UNCHANGED vars
    BY <1>5, SameMedia DEF vars
  <1> QED
    BY <1>1, <1>2, <1>3, <1>4, <1>5 DEF Next

LEMMA SetUpInit == Init => SetUpInv
  <1> SUFFICES ASSUME Init, NEW d \in Devices PROVE OneSetUp(d) /\ OwnMedia(d)
    BY DEF SetUpInv
  <1>1. mgr[d].pc = {} /\ mgr[d].stream = {} /\ live[d] = {} /\ open[d] = {} /\ tasks[d] = {}
    BY DEF Init, Idle
  <1>2. {p.n : p \in open[d]} = {}
    BY <1>1
  <1> QED
    BY <1>1, <1>2 DEF OneSetUp, OwnMedia

\* On every device whose calls were never torn down during set-up, the running
\* streams and the open connections are those of its present call.
THEOREM MediaCorrect == Spec => []MediaFollowsCall
  <1>1. SetUpInv => MediaFollowsCall
    <2> SUFFICES ASSUME SetUpInv, NEW d \in Devices, ~cut[d]
                 PROVE  /\ live[d] = mgr[d].stream
                        /\ {p.n : p \in open[d]} = mgr[d].pc
                        /\ mgr[d].status \in Quiet => live[d] = {} /\ open[d] = {}
      BY DEF MediaFollowsCall, Quiet
    <2>1. OwnMedia(d)
      BY DEF SetUpInv
    <2> QED
      BY <2>1 DEF OwnMedia, Quiet
  <1> QED
    BY <1>1, TypeInit, TypeStep, SetUpInit, SetUpStep, PTL DEF Spec

(***************************************************************************)
(* A ringing phone has a caller.                                           *)
(* While nothing is lost, torn down during set-up or mistaken: an invite   *)
(* goes out once, a device that took it hears of it no more, and behind an *)
(* invite or at a ringing device the caller either calls or has sent "end".*)
(***************************************************************************)
Plain == ~mixed /\ faults = 0 /\ \A d \in Devices : ~cut[d]

\* The invite of session o is still to be sent.
Unsent(o) == o.n > serial[o.dev] \/ \E t \in tasks[o.dev] : t.n = o.n

\* The invite of o has been sent, and none is on its way to d: d is not called
\* or has taken it.
Taken(o, d) ==
    /\ ~Unsent(o)
    /\ \A i \in 1..Len(chan[o.dev][d]) :
          chan[o.dev][d][i].type = "invite" => o \notin chan[o.dev][d][i].about

RingsFor(d, o) == mgr[d].status = "incoming-ringing" /\ o \in mgr[d].about

Calling(o, c) ==
    /\ mgr[o.dev].status = "outgoing-ringing"
    /\ mgr[o.dev].about = {o}
    /\ mgr[o.dev].conv = {c}

\* Frames q end a call of conversation c, behind position i.
EndAfter(q, i, c) == \E j \in 1..Len(q) : j > i /\ q[j].type = "end" /\ q[j].conv = c

TaskInv(d) ==
    \A t \in tasks[d] :
        /\ t.n <= serial[d]
        /\ t.at = "describe" => mgr[d].pc = {t.n}
        /\ t.kind = "start" => Calling([dev |-> d, n |-> t.n], t.conv)
        /\ \A o \in t.offer : Taken(o, d)
        /\ Owner[d] \in Members[t.conv]

ManagerInv(d) ==
    /\ \A c \in mgr[d].conv : Owner[d] \in Members[c]
    /\ \A o \in mgr[d].offer : Taken(o, d)
    /\ \A o \in mgr[d].about : o.dev # d => Taken(o, d)

\* A frame from s to r.  Who speaks of another's call has taken its invite, and
\* rings for it no more.
FrameInv(s, r, f) ==
    /\ Owner[s] \in Members[f.conv] /\ Owner[r] \in Members[f.conv]
    /\ f.type # "accepted_elsewhere" => Owner[r] # Owner[s]
    /\ f.type = "invite" =>
          \E o \in f.about : o.dev = s /\ f.about = {o} /\ f.sdp = {o} /\ ~Unsent(o)
    /\ f.type # "invite" => \A o \in f.about : o.dev # s => Taken(o, s) /\ ~RingsFor(s, o)

Once(q) ==
    \A i, j \in 1..Len(q) :
        (q[i].type = "invite" /\ q[j].type = "invite" /\ q[i].about = q[j].about) => i = j

\* Between x and d in conversation c: behind the invites, and while d rings.
InviteFollowed(x, d, c) ==
    \A i \in 1..Len(chan[x][d]) : \A o \in chan[x][d][i].about :
        (chan[x][d][i].type = "invite" /\ chan[x][d][i].conv = c)
            => Calling(o, c) \/ EndAfter(chan[x][d], i, c)

RingFollowed(x, d, c) ==
    \A o \in mgr[d].about :
        (o.dev = x /\ RingsFor(d, o) /\ c \in mgr[d].conv)
            => Calling(o, c) \/ EndAfter(chan[x][d], 0, c)

RingParts ==
    /\ \A d \in Devices : online[d] /\ TaskInv(d) /\ ManagerInv(d)
    /\ \A s, r \in Devices : Once(chan[s][r])
    /\ \A s, r \in Devices : \A i \in 1..Len(chan[s][r]) : FrameInv(s, r, chan[s][r][i])
    /\ \A x, d \in Devices, c \in Conversations :
          OnlyCallee(d, x, c) => InviteFollowed(x, d, c) /\ RingFollowed(x, d, c)

RingInv == Plain => RingParts

(***************************************************************************)
(* What a step does to frames and numbers                                  *)
(***************************************************************************)
Grows(s, r) ==
    /\ Len(chan[s][r]) <= Len(chan'[s][r])
    /\ \A i \in 1..Len(chan[s][r]) : chan'[s][r][i] = chan[s][r][i]

Shrinks(s, r) == chan[s][r] # <<>> /\ chan'[s][r] = Tail(chan[s][r])

\* f is a frame the step put at place i of the frames from s to r.
Added(s, r, i, f) == i > Len(chan[s][r]) /\ i <= Len(chan'[s][r]) /\ chan'[s][r][i] = f

\* An invite is added alone, by the caller that was about to send it.
NewInvites(s, r) ==
    \A i \in Nat, f \in Frames : (Added(s, r, i, f) /\ f.type = "invite") =>
        /\ i = Len(chan[s][r]) + 1
        /\ \A o \in f.about : Unsent(o) /\ Calling(o, f.conv)'

NewFrames(s, r) == \A i \in Nat, f \in Frames : Added(s, r, i, f) => FrameInv(s, r, f)'

\* Only d's manager, tasks and numbers change, and only d takes frames.
OnlyOf(d) ==
    /\ \A e \in Devices \ {d} : /\ mgr'[e] = mgr[e]
                                /\ tasks'[e] = tasks[e]
                                /\ serial'[e] = serial[e]
    /\ online' = online
    /\ \A s, r \in Devices : Grows(s, r) \/ (r = d /\ Shrinks(s, r))
    /\ \A s, r \in Devices : NewInvites(s, r)
    /\ serial'[d] >= serial[d]
    /\ \A t \in tasks'[d] : t.n > serial[d] \/ \E u \in tasks[d] : u.n = t.n

LEMMA ChanFields ==
    ASSUME TypeOK, NEW s \in Devices, NEW r \in Devices
    PROVE  /\ chan[s][r] \in Seq(Frames)
           /\ Len(chan[s][r]) \in Nat
           /\ \A i \in 1..Len(chan[s][r]) : chan[s][r][i] \in Frames
           /\ serial[s] \in Nat
           /\ tasks[s] \in SUBSET Tasks
           /\ Len(chan[s][r]) > 0 \/ chan[s][r] = <<>>
  BY DEF TypeOK

LEMMA ChanFieldsNext ==
    ASSUME TypeOK', NEW s \in Devices, NEW r \in Devices
    PROVE  /\ chan'[s][r] \in Seq(Frames)
           /\ Len(chan'[s][r]) \in Nat
           /\ \A i \in 1..Len(chan'[s][r]) : chan'[s][r][i] \in Frames
           /\ serial'[s] \in Nat
           /\ tasks'[s] \in SUBSET Tasks
  BY DEF TypeOK

LEMMA FrameFields ==
    ASSUME NEW f \in Frames
    PROVE  /\ f.type \in Types /\ f.conv \in Conversations
           /\ f.sdp \in SUBSET Sessions /\ f.about \in SUBSET Sessions
  BY DEF Frames

\* The frames left after one was taken are those behind it.
LEMMA ShrinksFields ==
    ASSUME TypeOK, TypeOK', NEW s \in Devices, NEW r \in Devices, Shrinks(s, r)
    PROVE  /\ Len(chan[s][r]) > 0
           /\ Len(chan'[s][r]) = Len(chan[s][r]) - 1
           /\ \A i \in 1..Len(chan'[s][r]) :
                 i + 1 \in 1..Len(chan[s][r]) /\ chan'[s][r][i] = chan[s][r][i + 1]
           /\ \A i \in 2..Len(chan[s][r]) :
                 i - 1 \in 1..Len(chan'[s][r]) /\ chan'[s][r][i - 1] = chan[s][r][i]
           /\ chan[s][r][1] = Head(chan[s][r]) /\ Head(chan[s][r]) \in Frames
  <1>1. PICK q \in Seq(Frames) : q = chan[s][r]
    BY ChanFields
  <1>2. q # <<>> /\ chan'[s][r] = Tail(q)
    BY <1>1 DEF Shrinks
  <1> QED
    BY <1>1, <1>2

LEMMA UnsentStays ==
    ASSUME TypeOK, TypeOK', NEW d \in Devices, OnlyOf(d), NEW o \in Sessions, Unsent(o)'
    PROVE  Unsent(o)
  <1>1. o.dev \in Devices /\ o.n \in Nat
    BY DEF Sessions
  <1>2. CASE o.dev # d
    BY <1>1, <1>2 DEF OnlyOf, Unsent
  <1>3. CASE o.dev = d
    <2>1. serial[d] \in Nat /\ serial'[d] \in Nat /\ serial'[d] >= serial[d]
      BY DEF TypeOK, OnlyOf
    <2>2. CASE o.n > serial'[d]
      BY <1>1, <1>3, <2>1, <2>2 DEF Unsent
    <2>3. CASE \E t \in tasks'[d] : t.n = o.n
      BY <1>3, <2>3 DEF OnlyOf, Unsent
    <2> QED
      BY <1>3, <2>2, <2>3 DEF Unsent
  <1> QED
    BY <1>2, <1>3

LEMMA TakenStays ==
    ASSUME TypeOK, TypeOK', NEW d \in Devices, OnlyOf(d), NEW o \in Sessions, NEW e \in Devices,
           Taken(o, e)
    PROVE  Taken(o, e)'
  <1>1. o.dev \in Devices
    BY DEF Sessions
  <1>2. ~Unsent(o)'
    BY UnsentStays DEF Taken
  <1>3. ASSUME NEW i \in 1..Len(chan'[o.dev][e]), chan'[o.dev][e][i].type = "invite"
        PROVE  o \notin chan'[o.dev][e][i].about
    <2>1. PICK f \in Frames : f = chan'[o.dev][e][i]
      BY <1>1, ChanFieldsNext
    <2>2. CASE Shrinks(o.dev, e)
      <3>1. i + 1 \in 1..Len(chan[o.dev][e]) /\ chan'[o.dev][e][i] = chan[o.dev][e][i + 1]
        BY <1>1, <2>2, ShrinksFields
      <3> QED
        BY <1>3, <3>1 DEF Taken
    <2>3. CASE Grows(o.dev, e) /\ i <= Len(chan[o.dev][e])
      <3>1. i \in 1..Len(chan[o.dev][e])
        BY <1>1, <2>3, ChanFields
      <3> QED
        BY <1>3, <2>3, <3>1 DEF Grows, Taken
    <2>4. CASE i > Len(chan[o.dev][e])
      <3>1. Added(o.dev, e, i, f) /\ i \in Nat /\ f.type = "invite"
        BY <1>1, <1>3, <2>1, <2>4, ChanFields DEF Added
      <3>2. NewInvites(o.dev, e)
        BY <1>1 DEF OnlyOf
      <3>3. \A p \in f.about : Unsent(p)
        BY <2>1, <3>1, <3>2 DEF NewInvites
      <3> QED
        BY <2>1, <3>3 DEF Taken
    <2>5. i > Len(chan[o.dev][e]) \/ i <= Len(chan[o.dev][e])
      BY <1>1, ChanFields
    <2> QED
      BY <1>1, <2>2, <2>3, <2>4, <2>5 DEF OnlyOf
  <1> QED
    BY <1>2, <1>3 DEF Taken

\* A frame of the next state was added, or was there.
LEMMA OldOrAdded ==
    ASSUME TypeOK, TypeOK', NEW d \in Devices, OnlyOf(d), NEW s \in Devices, NEW r \in Devices,
           NEW i \in 1..Len(chan'[s][r])
    PROVE  /\ i \in Nat /\ chan'[s][r][i] \in Frames
           /\ \/ Added(s, r, i, chan'[s][r][i])
              \/ /\ Grows(s, r)
                 /\ i \in 1..Len(chan[s][r]) /\ chan'[s][r][i] = chan[s][r][i]
              \/ /\ r = d /\ Shrinks(s, r)
                 /\ i + 1 \in 1..Len(chan[s][r]) /\ chan'[s][r][i] = chan[s][r][i + 1]
  <1>1. i \in Nat /\ chan'[s][r][i] \in Frames /\ Len(chan[s][r]) \in Nat
    BY ChanFields, ChanFieldsNext
  <1>2. CASE Grows(s, r)
    <2>1. i \in 1..Len(chan[s][r]) \/ i > Len(chan[s][r])
      BY <1>1
    <2> QED
      BY <1>1, <1>2, <2>1 DEF Grows, Added
  <1>3. CASE r = d /\ Shrinks(s, r)
    BY <1>1, <1>3, ShrinksFields
  <1> QED
    BY <1>2, <1>3 DEF OnlyOf

\* What a frame says stays true.
LEMMA FrameStays ==
    ASSUME TypeOK, TypeOK', NEW d \in Devices, OnlyOf(d), NEW s \in Devices, NEW r \in Devices,
           NEW f \in Frames, FrameInv(s, r, f),
           \A e \in Devices, o \in Sessions : RingsFor(e, o)' => RingsFor(e, o) \/ ~Taken(o, e)
    PROVE  FrameInv(s, r, f)'
  <1>1. f.about \in SUBSET Sessions
    BY FrameFields
  <1>2. ASSUME f.type = "invite"
        PROVE  \E o \in f.about : o.dev = s /\ f.about = {o} /\ f.sdp = {o} /\ ~Unsent(o)'
    BY <1>1, <1>2, UnsentStays DEF FrameInv
  <1>3. ASSUME f.type # "invite", NEW o \in f.about, o.dev # s
        PROVE  Taken(o, s)' /\ ~RingsFor(s, o)'
    BY <1>1, <1>3, TakenStays DEF FrameInv
  <1> QED
    BY <1>2, <1>3 DEF FrameInv

LEMMA FramesStep ==
    ASSUME TypeOK, TypeOK', RingParts, NEW d \in Devices, OnlyOf(d),
           NEW s \in Devices, NEW r \in Devices, NewFrames(s, r),
           \A e \in Devices, o \in Sessions : RingsFor(e, o)' => RingsFor(e, o) \/ ~Taken(o, e)
    PROVE  \A i \in 1..Len(chan'[s][r]) : FrameInv(s, r, chan[s][r][i])'
  <1> SUFFICES ASSUME NEW i \in 1..Len(chan'[s][r])
               PROVE  FrameInv(s, r, chan[s][r][i])'
    OBVIOUS
  <1>1. PICK f \in Frames : f = chan'[s][r][i]
    BY OldOrAdded
  <1>2. FrameInv(s, r, f)'
    <2>1. CASE Added(s, r, i, f)
      BY <2>1, OldOrAdded DEF NewFrames
    <2>2. ASSUME NEW j \in 1..Len(chan[s][r]), f = chan[s][r][j]
          PROVE  FrameInv(s, r, f)'
      <3>1. FrameInv(s, r, f)
        BY <2>2 DEF RingParts
      <3> QED
        BY <3>1, FrameStays
    <2> QED
      BY <1>1, <2>1, <2>2, OldOrAdded
  <1> QED
    BY <1>1, <1>2 DEF FrameInv

LEMMA OnceStep ==
    ASSUME TypeOK, TypeOK', RingParts, NEW d \in Devices, OnlyOf(d),
           NEW s \in Devices, NEW r \in Devices, NewFrames(s, r)
    PROVE  Once(chan'[s][r])
  <1> SUFFICES ASSUME NEW i \in 1..Len(chan'[s][r]), NEW j \in 1..Len(chan'[s][r]),
                      chan'[s][r][i].type = "invite", chan'[s][r][j].type = "invite",
                      chan'[s][r][i].about = chan'[s][r][j].about
               PROVE  i = j
    BY DEF Once
  <1>1. PICK f \in Frames, g \in Frames : f = chan'[s][r][i] /\ g = chan'[s][r][j]
    BY OldOrAdded
  <1>2. NewInvites(s, r)
    BY DEF OnlyOf
  <1>3. ASSUME NEW h \in Frames, h.type = "invite", NEW k \in 1..Len(chan[s][r]),
               h = chan[s][r][k]
        PROVE  \E o \in h.about : ~Unsent(o)
    BY <1>3 DEF RingParts, FrameInv
  <1>4. ASSUME NEW h \in Frames, h.type = "invite", NEW k \in Nat, Added(s, r, k, h)
        PROVE  k = Len(chan[s][r]) + 1 /\ \A o \in h.about : Unsent(o)
    BY <1>2, <1>4 DEF NewInvites
  <1>5. CASE Added(s, r, i, f) /\ Added(s, r, j, g)
    BY <1>1, <1>4, <1>5, OldOrAdded
  <1>6. ASSUME NEW k \in 1..Len(chan[s][r]), NEW l \in 1..Len(chan[s][r]),
               f = chan[s][r][k], g = chan[s][r][l]
        PROVE  k = l
    BY <1>1, <1>6 DEF RingParts, Once
  <1>7. CASE ~Added(s, r, i, f) /\ ~Added(s, r, j, g)
    <2>1. CASE Grows(s, r) /\ ~Shrinks(s, r)
      BY <1>1, <1>6, <1>7, <2>1, OldOrAdded
    <2>2. CASE Shrinks(s, r)
      <3>1. /\ i + 1 \in 1..Len(chan[s][r]) /\ chan'[s][r][i] = chan[s][r][i + 1]
            /\ j + 1 \in 1..Len(chan[s][r]) /\ chan'[s][r][j] = chan[s][r][j + 1]
        BY <2>2, ShrinksFields
      <3>2. i + 1 = j + 1
        BY <1>1, <1>6, <3>1
      <3>3. i \in Nat /\ j \in Nat
        BY OldOrAdded
      <3> QED
        BY <3>2, <3>3
    <2> QED
      BY <2>1, <2>2 DEF OnlyOf
  <1>8. CASE Added(s, r, i, f) /\ ~Added(s, r, j, g)
    <2>1. \E k \in 1..Len(chan[s][r]) : g = chan[s][r][k]
      BY <1>1, <1>8, OldOrAdded
    <2>2. \E o \in g.about : ~Unsent(o)
      BY <1>1, <1>3, <2>1
    <2>3. \A o \in f.about : Unsent(o)
      BY <1>1, <1>4, <1>8, OldOrAdded
    <2> QED
      BY <1>1, <2>2, <2>3
  <1>9. CASE ~Added(s, r, i, f) /\ Added(s, r, j, g)
    <2>1. \E k \in 1..Len(chan[s][r]) : f = chan[s][r][k]
      BY <1>1, <1>9, OldOrAdded
    <2>2. \E o \in f.about : ~Unsent(o)
      BY <1>1, <1>3, <2>1
    <2>3. \A o \in g.about : Unsent(o)
      BY <1>1, <1>4, <1>9, OldOrAdded
    <2> QED
      BY <1>1, <2>2, <2>3
  <1> QED
    BY <1>5, <1>7, <1>8, <1>9

\* A call goes on, or its only callee will hear of its end, or has taken the
\* invite and does not ring.
CallsOn(o, e, c) ==
    (Calling(o, c) /\ OnlyCallee(e, o.dev, c)) =>
        \/ Calling(o, c)'
        \/ EndAfter(chan'[o.dev][e], Len(chan[o.dev][e]), c)
        \/ Taken(o, e) /\ ~RingsFor(e, o)

\* Who rings rang before and took no end, or took the invite.
RingsOn(o, e, c) ==
    (RingsFor(e, o)' /\ c \in mgr'[e].conv /\ OnlyCallee(e, o.dev, c)) =>
        \/ /\ RingsFor(e, o) /\ c \in mgr[e].conv
           /\ Shrinks(o.dev, e) => ~(/\ Head(chan[o.dev][e]).type = "end"
                                     /\ Head(chan[o.dev][e]).conv = c)
        \/ /\ Shrinks(o.dev, e)
           /\ Head(chan[o.dev][e]).type = "invite" /\ Head(chan[o.dev][e]).conv = c
           /\ o \in Head(chan[o.dev][e]).about

LEMMA EndStays ==
    ASSUME TypeOK, TypeOK', NEW x \in Devices, NEW e \in Devices, NEW c, NEW i \in Nat,
           EndAfter(chan[x][e], i, c)
    PROVE  /\ Grows(x, e) => EndAfter(chan'[x][e], i, c)
           /\ (Shrinks(x, e) /\ i > 0) => EndAfter(chan'[x][e], i - 1, c)
  <1>1. PICK j \in 1..Len(chan[x][e]) :
           j > i /\ chan[x][e][j].type = "end" /\ chan[x][e][j].conv = c
    BY DEF EndAfter
  <1>2. Len(chan[x][e]) \in Nat /\ Len(chan'[x][e]) \in Nat
    BY ChanFields, ChanFieldsNext
  <1>3. ASSUME Grows(x, e) PROVE EndAfter(chan'[x][e], i, c)
    <2>1. j \in 1..Len(chan'[x][e]) /\ chan'[x][e][j] = chan[x][e][j]
      BY <1>2, <1>3 DEF Grows
    <2> QED
      BY <1>1, <2>1 DEF EndAfter
  <1>4. ASSUME Shrinks(x, e), i > 0 PROVE EndAfter(chan'[x][e], i - 1, c)
    <2>1. j \in 2..Len(chan[x][e]) /\ j - 1 > i - 1
      BY <1>1, <1>2, <1>4
    <2>2. j - 1 \in 1..Len(chan'[x][e]) /\ chan'[x][e][j - 1] = chan[x][e][j]
      BY <1>4, <2>1, ShrinksFields
    <2>3. PICK k \in 1..Len(chan'[x][e]) : k = j - 1
      BY <2>2
    <2> QED
      BY <1>1, <2>1, <2>2, <2>3 DEF EndAfter
  <1> QED
    BY <1>3, <1>4

\* An invite in the channel has not been taken.
LEMMA InviteThere ==
    ASSUME RingParts, NEW x \in Devices, NEW e \in Devices, NEW k \in 1..Len(chan[x][e]),
           chan[x][e][k].type = "invite", NEW o \in chan[x][e][k].about
    PROVE  o.dev = x /\ chan[x][e][k].about = {o} /\ ~Taken(o, e)
  <1>1. o.dev = x /\ chan[x][e][k].about = {o}
    BY DEF RingParts, FrameInv
  <1> QED
    BY <1>1 DEF Taken

LEMMA InviteFollowedStep ==
    ASSUME TypeOK, TypeOK', RingParts, NEW d \in Devices, OnlyOf(d),
           \A o \in Sessions, e \in Devices, c \in Conversations : CallsOn(o, e, c),
           NEW x \in Devices, NEW e \in Devices, NEW c \in Conversations, OnlyCallee(e, x, c)
    PROVE  InviteFollowed(x, e, c)'
  <1> SUFFICES ASSUME NEW i \in 1..Len(chan'[x][e]), chan'[x][e][i].type = "invite",
                      chan'[x][e][i].conv = c, NEW o \in chan'[x][e][i].about
               PROVE  Calling(o, c)' \/ EndAfter(chan'[x][e], i, c)
    BY DEF InviteFollowed, EndAfter
  <1>1. PICK f \in Frames : f = chan'[x][e][i]
    BY OldOrAdded
  <1>2. i \in Nat /\ f.type = "invite" /\ f.conv = c /\ o \in f.about /\ o \in Sessions
    BY <1>1, FrameFields
  <1>3. CASE Added(x, e, i, f)
    BY <1>2, <1>3 DEF OnlyOf, NewInvites
  <1>4. ASSUME NEW k \in 1..Len(chan[x][e]), f = chan[x][e][k], k >= i,
               \A j \in Nat : (j >= k /\ EndAfter(chan'[x][e], j, c))
                                => EndAfter(chan'[x][e], i, c),
               EndAfter(chan[x][e], k, c) => EndAfter(chan'[x][e], i, c)
        PROVE  Calling(o, c)' \/ EndAfter(chan'[x][e], i, c)
    <2>1. o.dev = x /\ ~Taken(o, e)
      BY <1>2, <1>4, InviteThere
    <2>2. Calling(o, c) \/ EndAfter(chan[x][e], k, c)
      BY <1>2, <1>4 DEF RingParts, InviteFollowed
    <2>3. CASE Calling(o, c)
      <3>1. Calling(o, c)' \/ EndAfter(chan'[x][e], Len(chan[x][e]), c)
        BY <1>2, <2>1, <2>3 DEF CallsOn
      <3>2. Len(chan[x][e]) \in Nat /\ Len(chan[x][e]) >= k
        BY ChanFields
      <3> QED
        BY <1>4, <3>1, <3>2
    <2> QED
      BY <1>4, <2>2, <2>3
  <1>5. ASSUME NEW j \in Nat, j >= i, EndAfter(chan'[x][e], j, c)
        PROVE  EndAfter(chan'[x][e], i, c)
    BY <1>2, <1>5, ChanFieldsNext DEF EndAfter
  <1>6. CASE Grows(x, e) /\ i \in 1..Len(chan[x][e]) /\ f = chan[x][e][i]
    <2>1. EndAfter(chan[x][e], i, c) => EndAfter(chan'[x][e], i, c)
      BY <1>2, <1>6, EndStays
    <2> QED
      BY <1>2, <1>4, <1>5, <1>6, <2>1
  <1>7. CASE Shrinks(x, e) /\ i + 1 \in 1..Len(chan[x][e]) /\ f = chan[x][e][i + 1]
    <2>1. PICK k \in 1..Len(chan[x][e]) : k = i + 1
      BY <1>7
    <2>2. k \in Nat /\ k > 0 /\ k - 1 = i /\ k >= i
      BY <1>2, <2>1
    <2>3. EndAfter(chan[x][e], k, c) => EndAfter(chan'[x][e], i, c)
      BY <1>7, <2>2, EndStays
    <2>4. \A j \in Nat : (j >= k /\ EndAfter(chan'[x][e], j, c)) => EndAfter(chan'[x][e], i, c)
      BY <1>2, <1>5, <2>2
    <2> QED
      BY <1>4, <1>7, <2>1, <2>2, <2>3, <2>4
  <1> QED
    BY <1>1, <1>3, <1>6, <1>7, OldOrAdded

LEMMA RingFollowedStep ==
    ASSUME TypeOK, TypeOK', RingParts, NEW d \in Devices, OnlyOf(d),
           \A o \in Sessions, e \in Devices, c \in Conversations :
              CallsOn(o, e, c) /\ RingsOn(o, e, c),
           NEW x \in Devices, NEW e \in Devices, NEW c \in Conversations, OnlyCallee(e, x, c)
    PROVE  RingFollowed(x, e, c)'
  <1> SUFFICES ASSUME NEW o \in mgr'[e].about, o.dev = x, RingsFor(e, o)', c \in mgr'[e].conv
               PROVE  Calling(o, c)' \/ EndAfter(chan'[x][e], 0, c)
    BY DEF RingFollowed, EndAfter
  <1>1. o \in Sessions
    BY DEF TypeOK, Managers
  <1>2. Len(chan[x][e]) \in Nat /\ Len(chan'[x][e]) \in Nat
    BY ChanFields, ChanFieldsNext
  <1>3. ASSUME NEW j \in Nat, EndAfter(chan'[x][e], j, c)
        PROVE  EndAfter(chan'[x][e], 0, c)
    BY <1>2, <1>3 DEF EndAfter
  <1>4. CASE /\ RingsFor(e, o) /\ c \in mgr[e].conv
             /\ Shrinks(x, e) => ~(/\ Head(chan[x][e]).type = "end"
                                   /\ Head(chan[x][e]).conv = c)
    <2>1. Calling(o, c) \/ EndAfter(chan[x][e], 0, c)
      BY <1>4 DEF RingParts, RingFollowed, RingsFor
    <2>2. CASE Calling(o, c)
      <3>1. Calling(o, c)' \/ EndAfter(chan'[x][e], Len(chan[x][e]), c)
        BY <1>1, <1>4, <2>2 DEF CallsOn
      <3> QED
        BY <1>2, <1>3, <3>1
    <2>3. CASE EndAfter(chan[x][e], 0, c) /\ Grows(x, e)
      BY <2>3, EndStays
    <2>4. CASE EndAfter(chan[x][e], 0, c) /\ Shrinks(x, e)
      <3>1. PICK j \in 1..Len(chan[x][e]) :
               chan[x][e][j].type = "end" /\ chan[x][e][j].conv = c
        BY <2>4 DEF EndAfter
      <3>2. j # 1
        BY <1>4, <2>4, <3>1, ShrinksFields
      <3>3. j > 1
        BY <1>2, <3>2
      <3>4. EndAfter(chan[x][e], 1, c)
        BY <3>1, <3>3 DEF EndAfter
      <3>5. EndAfter(chan'[x][e], 1 - 1, c)
        BY <2>4, <3>4, EndStays
      <3> QED
        BY <3>5
    <2> QED
      BY <2>1, <2>2, <2>3, <2>4 DEF OnlyOf
  <1>5. CASE /\ Shrinks(x, e)
             /\ Head(chan[x][e]).type = "invite" /\ Head(chan[x][e]).conv = c
             /\ o \in Head(chan[x][e]).about
    <2>1. 1 \in 1..Len(chan[x][e]) /\ chan[x][e][1] = Head(chan[x][e])
      BY <1>2, <1>5, ShrinksFields
    <2>2. o.dev = x /\ ~Taken(o, e)
      BY <1>5, <2>1, InviteThere
    <2>3. Calling(o, c) \/ EndAfter(chan[x][e], 1, c)
      BY <1>5, <2>1 DEF RingParts, InviteFollowed
    <2>4. CASE Calling(o, c)
      <3>1. Calling(o, c)' \/ EndAfter(chan'[x][e], Len(chan[x][e]), c)
        BY <1>1, <2>2, <2>4 DEF CallsOn
      <3> QED
        BY <1>2, <1>3, <3>1
    <2>5. CASE EndAfter(chan[x][e], 1, c)
      <3>1. EndAfter(chan'[x][e], 1 - 1, c)
        BY <1>5, <2>5, EndStays
      <3> QED
        BY <3>1
    <2> QED
      BY <2>3, <2>4, <2>5
  <1> QED
    BY <1>1, <1>4, <1>5 DEF RingsOn

\* The invariant again, from what the step does to d.
LEMMA PartsStep ==
    ASSUME TypeOK, TypeOK', RingParts, NEW d \in Devices, OnlyOf(d),
           TaskInv(d)', ManagerInv(d)',
           \A s, r \in Devices : NewFrames(s, r),
           \A e \in Devices, o \in Sessions : RingsFor(e, o)' => RingsFor(e, o) \/ ~Taken(o, e),
           \A o \in Sessions, e \in Devices, c \in Conversations :
              CallsOn(o, e, c) /\ RingsOn(o, e, c)
    PROVE  RingParts'
  <1>1. ASSUME NEW e \in Devices PROVE online'[e] /\ TaskInv(e)' /\ ManagerInv(e)'
    <2>1. online'[e]
      BY DEF RingParts, OnlyOf
    <2>2. CASE e # d
      <3>1. mgr'[e] = mgr[e] /\ tasks'[e] = tasks[e] /\ serial'[e] = serial[e]
        BY <2>2 DEF OnlyOf
      <3>2. TaskInv(e) /\ ManagerInv(e)
        BY DEF RingParts
      <3>3. /\ \A t \in tasks[e] : t.offer \in SUBSET Sessions
            /\ mgr[e].offer \in SUBSET Sessions /\ mgr[e].about \in SUBSET Sessions
        BY TaskFields, ManagerFields
      <3>4. TaskInv(e)'
        BY <3>1, <3>2, <3>3, TakenStays DEF TaskInv, Calling
      <3>5. ManagerInv(e)'
        BY <3>1, <3>2, <3>3, TakenStays DEF ManagerInv
      <3> QED
        BY <2>1, <3>4, <3>5
    <2> QED
      BY <2>1, <2>2
  <1>2. ASSUME NEW s \in Devices, NEW r \in Devices
        PROVE  /\ Once(chan'[s][r])
               /\ \A i \in 1..Len(chan'[s][r]) : FrameInv(s, r, chan[s][r][i])'
    BY <1>2, OnceStep, FramesStep
  <1>3. ASSUME NEW x \in Devices, NEW e \in Devices, NEW c \in Conversations,
               OnlyCallee(e, x, c)
        PROVE  InviteFollowed(x, e, c)' /\ RingFollowed(x, e, c)'
    BY <1>3, InviteFollowedStep, RingFollowedStep
  <1> QED
    BY <1>1, <1>2, <1>3 DEF RingParts, Once, OnlyCallee

\* No ring starts: d does not ring, or it goes on as before and was told of no
\* end.
LEMMA NoRing ==
    ASSUME TypeOK, TypeOK', NEW d \in Devices, OnlyOf(d),
           \/ mgr'[d].status # "incoming-ringing"
           \/ /\ mgr'[d] = mgr[d]
              /\ \A s \in Devices : (Shrinks(s, d) /\ mgr[d].status = "incoming-ringing") =>
                    ~(/\ Head(chan[s][d]).type = "end"
                      /\ Head(chan[s][d]).conv \in mgr[d].conv)
    PROVE  /\ \A e \in Devices, o \in Sessions : RingsFor(e, o)' => RingsFor(e, o)
           /\ \A o \in Sessions, e \in Devices, c \in Conversations : RingsOn(o, e, c)
  <1>1. ASSUME NEW e \in Devices, NEW o \in Sessions, RingsFor(e, o)'
        PROVE  mgr'[e] = mgr[e]
    BY <1>1 DEF OnlyOf, RingsFor
  <1>2. ASSUME NEW e \in Devices, NEW o \in Sessions, RingsFor(e, o)'
        PROVE  RingsFor(e, o)
    BY <1>1, <1>2 DEF RingsFor
  <1>3. ASSUME NEW o \in Sessions, NEW e \in Devices, NEW c \in Conversations,
               RingsFor(e, o)', c \in mgr'[e].conv, Shrinks(o.dev, e)
        PROVE  ~(Head(chan[o.dev][e]).type = "end" /\ Head(chan[o.dev][e]).conv = c)
    <2>1. o.dev \in Devices
      BY DEF Sessions
    <2>2. e = d
      BY <1>3, <2>1, ShrinksFields DEF OnlyOf, Grows
    <2> QED
      BY <1>1, <1>3, <2>1, <2>2 DEF RingsFor
  <1> QED
    BY <1>1, <1>2, <1>3 DEF RingsOn

\* No call ends: d was not calling, or goes on.
LEMMA CallStays ==
    ASSUME TypeOK, TypeOK', NEW d \in Devices, OnlyOf(d),
           \/ mgr[d].status # "outgoing-ringing"
           \/ /\ mgr'[d].status = mgr[d].status
              /\ mgr'[d].about = mgr[d].about /\ mgr'[d].conv = mgr[d].conv
    PROVE  \A o \in Sessions, e \in Devices, c \in Conversations : CallsOn(o, e, c)
  <1> SUFFICES ASSUME NEW o \in Sessions, NEW c \in Conversations, Calling(o, c)
               PROVE  Calling(o, c)'
    BY DEF CallsOn
  <1>1. o.dev \in Devices
    BY DEF Sessions
  <1> QED
    BY <1>1 DEF Calling, OnlyOf

\* Frames that stay as they are.
LEMMA StillFrames ==
    ASSUME TypeOK, TypeOK', UNCHANGED chan, NEW s \in Devices, NEW r \in Devices
    PROVE  Grows(s, r) /\ ~Shrinks(s, r) /\ NewInvites(s, r) /\ NewFrames(s, r)
  <1>1. Len(chan[s][r]) \in Nat
    BY ChanFields
  <1>2. ASSUME NEW i \in Nat, NEW f PROVE ~Added(s, r, i, f)
    BY <1>1 DEF Added
  <1>3. Grows(s, r) /\ ~Shrinks(s, r)
    BY <1>1, ShrinksFields DEF Grows
  <1> QED
    BY <1>2, <1>3 DEF NewInvites, NewFrames

(***************************************************************************)
(* Every step keeps it                                                     *)
(***************************************************************************)
\* Tearing a call down ends no task: none is running.
LEMMA NoTaskCut ==
    ASSUME TypeOK, NEW d \in Devices, NEW K, Cleanup(d, K), ~cut'[d]
    PROVE  K = {}
  BY DEF Cleanup, TypeOK

LEMMA SetUpOf ==
    ASSUME SetUpInv, Plain, NEW d \in Devices
    PROVE  OneSetUp(d) /\ OwnMedia(d)
  BY DEF SetUpInv, Plain

\* A device without tasks whose manager names no session of another.
LEMMA NoTasks ==
    ASSUME NEW d \in Devices, tasks'[d] = {}
    PROVE  TaskInv(d)'
  BY DEF TaskInv

LEMMA StartCallRing ==
    ASSUME TypeOK, TypeOK', SetUpInv, Plain, RingParts, NEW d \in Devices,
           NEW c \in Conversations, StartCall(d, c)
    PROVE  RingParts'
  <1> DEFINE t == [n |-> NextNumber(d), kind |-> "start", at |-> "media", conv |-> c,
                   offer |-> {}]
  <1> DEFINE me == [dev |-> d, n |-> NextNumber(d)]
  <1>1. /\ mgr[d].status = "idle" /\ Owner[d] \in Members[c]
        /\ serial' = [serial EXCEPT ![d] = NextNumber(d)]
        /\ tasks' = [tasks EXCEPT ![d] = @ \cup {t}]
        /\ mgr' = [mgr EXCEPT ![d] = [@ EXCEPT !.status = "outgoing-ringing", !.conv = {c},
                                               !.about = {me}]]
        /\ UNCHANGED <<chan, online>>
    BY DEF StartCall, NewTask
  <1>2. serial[d] \in Nat /\ NextNumber(d) = serial[d] + 1
    BY ChanFields DEF NextNumber
  <1>3. tasks[d] = {}
    BY <1>1, SetUpOf DEF OneSetUp
  <1>4. tasks'[d] = {t}
    BY <1>1, <1>3 DEF TypeOK
  <1> HIDE DEF me
  <1>5. /\ mgr'[d].status = "outgoing-ringing" /\ mgr'[d].conv = {c} /\ mgr'[d].about = {me}
        /\ mgr'[d].offer = mgr[d].offer
    BY <1>1, ManagerFields DEF TypeOK, Managers
  <1>6. OnlyOf(d)
    BY <1>1, <1>2, <1>4, StillFrames DEF OnlyOf, TypeOK
  <1>7. TaskInv(d)'
    <2>1. NextNumber(d) <= serial'[d]
      BY <1>1, <1>2 DEF TypeOK
    <2>2. /\ mgr'[[dev |-> d, n |-> NextNumber(d)].dev].status = "outgoing-ringing"
          /\ mgr'[[dev |-> d, n |-> NextNumber(d)].dev].about = {me}
          /\ mgr'[[dev |-> d, n |-> NextNumber(d)].dev].conv = {c}
      BY <1>5
    <2>3. ASSUME NEW u \in tasks'[d]
          PROVE  /\ u.n <= serial'[d]
                 /\ u.at # "describe" /\ u.offer = {} /\ u.conv = c
                 /\ [dev |-> d, n |-> u.n] = me
      BY <1>4, <2>1, <2>3 DEF me
    <2>4. me.dev = d
      BY DEF me
    <2> HIDE DEF t
    <2>5. ASSUME NEW u \in tasks'[d]
          PROVE  Calling([dev |-> d, n |-> u.n], u.conv)'
      BY <1>5, <2>3, <2>4 DEF Calling
    <2> QED
      BY <1>1, <2>3, <2>5 DEF TaskInv
  <1>8. ManagerInv(d)'
    <2>1. \A o \in mgr[d].offer : o \in Sessions /\ Taken(o, d)
      BY ManagerFields DEF RingParts, ManagerInv
    <2> QED
      BY <1>1, <1>5, <1>6, <2>1, TakenStays DEF ManagerInv, me
  <1> QED
    BY <1>1, <1>5, <1>6, <1>7, <1>8, StillFrames, NoRing, CallStays, PartsStep

LEMMA AcceptCallRing ==
    ASSUME TypeOK, TypeOK', SetUpInv, Plain, RingParts, NEW d \in Devices, AcceptCall(d)
    PROVE  RingParts'
  <1>1. PICK c \in mgr[d].conv : NewTask(d, "accept", c, mgr[d].offer)
    BY DEF AcceptCall
  <1> DEFINE t == [n |-> NextNumber(d), kind |-> "accept", at |-> "media", conv |-> c,
                   offer |-> mgr[d].offer]
  <1>2. /\ mgr[d].status = "incoming-ringing"
        /\ serial' = [serial EXCEPT ![d] = NextNumber(d)]
        /\ tasks' = [tasks EXCEPT ![d] = @ \cup {t}]
        /\ mgr' = [mgr EXCEPT ![d].status = "connecting"]
        /\ UNCHANGED <<chan, online>>
    BY <1>1 DEF AcceptCall, NewTask
  <1>3. serial[d] \in Nat /\ NextNumber(d) = serial[d] + 1
    BY ChanFields DEF NextNumber
  <1>4. tasks[d] = {}
    BY <1>2, SetUpOf DEF OneSetUp
  <1>5. tasks'[d] = {t}
    BY <1>2, <1>4 DEF TypeOK
  <1>6. /\ mgr'[d].status = "connecting" /\ mgr'[d].conv = mgr[d].conv
        /\ mgr'[d].about = mgr[d].about /\ mgr'[d].offer = mgr[d].offer
    BY <1>2, ManagerFields DEF TypeOK, Managers
  <1>7. OnlyOf(d)
    <2>1. \A u \in tasks'[d] : u.n > serial[d]
      BY <1>3, <1>5
    <2>2. serial'[d] >= serial[d]
      BY <1>2, <1>3 DEF TypeOK
    <2>3. \A e \in Devices \ {d} : /\ mgr'[e] = mgr[e]
                                  /\ tasks'[e] = tasks[e]
                                  /\ serial'[e] = serial[e]
      BY <1>2 DEF TypeOK
    <2> QED
      BY <1>2, <2>1, <2>2, <2>3, StillFrames DEF OnlyOf
  <1>8. /\ ManagerInv(d) /\ mgr[d].offer \in SUBSET Sessions
        /\ mgr[d].about \in SUBSET Sessions /\ mgr[d].conv \in SUBSET Conversations
    BY ManagerFields DEF RingParts
  <1>9. TaskInv(d)'
    <2>1. NextNumber(d) <= serial'[d]
      BY <1>2, <1>3 DEF TypeOK
    <2>2. ASSUME NEW u \in tasks'[d]
          PROVE  /\ u.n <= serial'[d]
                 /\ u.at # "describe" /\ u.kind # "start" /\ u.offer = mgr[d].offer
                 /\ u.conv = c
      BY <1>5, <2>1, <2>2
    <2>3. \A o \in mgr[d].offer : Taken(o, d)'
      BY <1>7, <1>8, TakenStays DEF ManagerInv
    <2> HIDE DEF t
    <2> QED
      BY <1>8, <2>2, <2>3 DEF TaskInv, ManagerInv
  <1>10. ManagerInv(d)'
    BY <1>6, <1>7, <1>8, TakenStays DEF ManagerInv
  <1> QED
    BY <1>2, <1>6, <1>7, <1>9, <1>10, StillFrames, NoRing, CallStays, PartsStep

LEMMA DismissRing ==
    ASSUME TypeOK, TypeOK', SetUpInv, Plain, RingParts, NEW d \in Devices, Dismiss(d)
    PROVE  RingParts'
  <1>1. /\ mgr[d].status = "error"
        /\ mgr' = [mgr EXCEPT ![d] = [Idle EXCEPT !.pc = mgr[d].pc, !.stream = mgr[d].stream,
                                                  !.offer = mgr[d].offer]]
        /\ UNCHANGED <<tasks, serial, chan, online>>
    BY DEF Dismiss
  <1>2. /\ mgr'[d].status = "idle" /\ mgr'[d].conv = {} /\ mgr'[d].about = {}
        /\ mgr'[d].offer = mgr[d].offer
    BY <1>1 DEF TypeOK, Idle
  <1>3. OnlyOf(d)
    <2>1. \A e \in Devices \ {d} : mgr'[e] = mgr[e]
      BY <1>1 DEF TypeOK
    <2>2. serial[d] >= serial[d]
      BY ChanFields
    <2> QED
      BY <1>1, <2>1, <2>2, StillFrames DEF OnlyOf
  <1>4. tasks'[d] = {}
    BY <1>1, SetUpOf DEF OneSetUp
  <1>5. ManagerInv(d)'
    <2>1. \A o \in mgr[d].offer : o \in Sessions /\ Taken(o, d)
      BY ManagerFields DEF RingParts, ManagerInv
    <2> QED
      BY <1>2, <1>3, <2>1, TakenStays DEF ManagerInv
  <1> QED
    BY <1>1, <1>2, <1>3, <1>4, <1>5, NoTasks, StillFrames, NoRing, CallStays, PartsStep

LEMMA MediaReadyRing ==
    ASSUME TypeOK, TypeOK', SetUpInv, Plain, RingParts, NEW d \in Devices, NEW t \in tasks[d],
           MediaReady(d, t)
    PROVE  RingParts'
  <1>1. PICK u : u = [t EXCEPT !.at = "describe"]
    OBVIOUS
  <1>2. /\ u.n = t.n /\ u.kind = t.kind /\ u.conv = t.conv /\ u.offer = t.offer
        /\ t.offer \in SUBSET Sessions
    BY <1>1, TaskFields DEF Tasks
  <1>3. tasks[d] = {t} /\ mgr[d].status # "incoming-ringing"
    BY SetUpOf DEF OneSetUp
  <1>4. tasks'[d] = {u}
    BY <1>1, <1>3 DEF MediaReady, TypeOK
  <1>5. /\ mgr'[d].status = mgr[d].status /\ mgr'[d].conv = mgr[d].conv
        /\ mgr'[d].about = mgr[d].about /\ mgr'[d].offer = mgr[d].offer
        /\ mgr'[d].pc = {t.n}
    BY ManagerFields DEF MediaReady, TypeOK, Managers
  <1>6. /\ UNCHANGED <<serial, chan, online>>
        /\ \A e \in Devices \ {d} : mgr'[e] = mgr[e] /\ tasks'[e] = tasks[e]
    BY DEF MediaReady, TypeOK
  <1>7. OnlyOf(d)
    BY <1>2, <1>3, <1>4, <1>6, ChanFields, StillFrames DEF OnlyOf
  <1>8. TaskInv(d) /\ ManagerInv(d)
    BY DEF RingParts
  <1>9. TaskInv(d)'
    <2>1. \A o \in t.offer : Taken(o, d)'
      BY <1>2, <1>7, <1>8, TakenStays DEF TaskInv
    <2>2. PICK me : me = [dev |-> d, n |-> t.n]
      OBVIOUS
    <2>3. t.kind = "start" => Calling(me, t.conv)
      BY <1>8, <2>2 DEF TaskInv
    <2>4. t.kind = "start" => Calling(me, t.conv)'
      BY <1>5, <2>2, <2>3 DEF Calling
    <2> QED
      BY <1>2, <1>4, <1>5, <1>6, <1>8, <2>1, <2>2, <2>4 DEF TaskInv
  <1>10. ManagerInv(d)'
    BY <1>5, <1>7, <1>8, ManagerFields, TakenStays DEF ManagerInv
  <1> QED
    BY <1>3, <1>5, <1>6, <1>7, <1>9, <1>10, StillFrames, NoRing, CallStays, PartsStep

\* What sending does to each channel.
LEMMA SentAt ==
    ASSUME NEW ch \in Chans, NEW d \in Devices, NEW R, NEW f \in Frames,
           NEW s \in Devices, NEW r \in Devices
    PROVE  /\ (s = d /\ r \in R) => Sent(ch, d, R, f)[s][r] = Append(ch[s][r], f)
           /\ ~(s = d /\ r \in R) => Sent(ch, d, R, f)[s][r] = ch[s][r]
  BY DEF Sent, Chans

LEMMA AppendFacts ==
    ASSUME NEW q \in Seq(Frames), NEW f \in Frames
    PROVE  /\ Append(q, f) \in Seq(Frames)
           /\ Len(Append(q, f)) = Len(q) + 1 /\ Len(q) \in Nat
           /\ Append(q, f)[Len(q) + 1] = f
           /\ \A i \in 1..Len(q) : Append(q, f)[i] = q[i]
  OBVIOUS

\* One frame put behind the others.
LEMMA AppendGrows ==
    ASSUME TypeOK, NEW s \in Devices, NEW r \in Devices, NEW f \in Frames,
           chan'[s][r] = Append(chan[s][r], f)
    PROVE  /\ Grows(s, r)
           /\ \A i \in Nat : \A g : Added(s, r, i, g) => i = Len(chan[s][r]) + 1 /\ g = f
           /\ Added(s, r, Len(chan[s][r]) + 1, f)
  <1>1. PICK q \in Seq(Frames) : q = chan[s][r]
    BY ChanFields
  <1>2. /\ Len(q) \in Nat /\ Len(chan'[s][r]) = Len(q) + 1
        /\ chan'[s][r][Len(q) + 1] = f
        /\ \A i \in 1..Len(q) : chan'[s][r][i] = q[i]
    BY <1>1, AppendFacts
  <1> QED
    BY <1>1, <1>2 DEF Grows, Added

LEMMA SameGrows ==
    ASSUME TypeOK, NEW s \in Devices, NEW r \in Devices, chan'[s][r] = chan[s][r]
    PROVE  Grows(s, r) /\ \A i \in Nat : \A g : ~Added(s, r, i, g)
  BY ChanFields DEF Grows, Added

LEMMA SentFrames ==
    ASSUME TypeOK, NEW d \in Devices, NEW R, NEW f \in Frames, chan' = Sent(chan, d, R, f),
           NEW s \in Devices, NEW r \in Devices
    PROVE  /\ Grows(s, r)
           /\ \A i \in Nat : \A g : Added(s, r, i, g) =>
                 s = d /\ r \in R /\ g = f /\ i = Len(chan[s][r]) + 1
           /\ (s = d /\ r \in R) => Added(s, r, Len(chan[s][r]) + 1, f)
  <1>1. chan \in Chans
    BY DEF TypeOK, Chans
  <1>2. CASE s = d /\ r \in R
    BY <1>1, <1>2, SentAt, AppendGrows
  <1>3. CASE ~(s = d /\ r \in R)
    BY <1>1, <1>3, SentAt, SameGrows
  <1> QED
    BY <1>2, <1>3

LEMMA AnsweredFrames ==
    ASSUME TypeOK, NEW d \in Devices, NEW c \in Conversations, NEW sdp \in SUBSET Sessions,
           NEW about \in SUBSET Sessions, chan' = Answered(chan, d, c, sdp, about),
           NEW s \in Devices, NEW r \in Devices
    PROVE  /\ Grows(s, r)
           /\ \A i \in Nat : \A g : Added(s, r, i, g) =>
                 /\ s = d /\ Owner[r] \in Members[c]
                 /\ \/ Owner[r] # Owner[s] /\ g = Frame("answer", c, sdp, about)
                    \/ g = Frame("accepted_elsewhere", c, {}, about)
  <1> DEFINE f == Frame("answer", c, sdp, about)
             h == Frame("accepted_elsewhere", c, {}, about)
             R == Reached(d, c)
             All == {e \in Devices : Owner[e] \in Members[c] /\ online[e]}
             first == Sent(chan, d, R, f)
  <1>1. /\ "answer" \in Types /\ "accepted_elsewhere" \in Types /\ {} \in SUBSET Sessions
    BY DEF Types
  <1>2. f \in Frames /\ h \in Frames /\ chan \in Chans
    BY <1>1, FrameType DEF TypeOK, Chans
  <1>3. first \in Chans
    BY <1>2, SentType
  <1>4. chan' = Sent(first, d, All, h)
    BY DEF Answered
  <1>5. PICK q \in Seq(Frames) : q = chan[s][r]
    BY ChanFields
  <1>6. /\ (s = d /\ r \in R) => Owner[r] \in Members[c] /\ Owner[r] # Owner[s]
        /\ r \in All => Owner[r] \in Members[c]
    BY DEF Reached
  <1>7. /\ (s = d /\ r \in R) => first[s][r] = Append(q, f)
        /\ ~(s = d /\ r \in R) => first[s][r] = q
    BY <1>2, <1>5, SentAt
  <1> HIDE DEF first, All, R
  <1>8. /\ (s = d /\ r \in All) => chan'[s][r] = Append(first[s][r], h)
        /\ ~(s = d /\ r \in All) => chan'[s][r] = first[s][r]
    BY <1>2, <1>3, <1>4, SentAt
  <1> HIDE DEF f, h
  <1>9. CASE s = d /\ r \in R /\ r \in All
    <2>1. PICK p \in Seq(Frames) : p = Append(q, f)
      BY <1>2, AppendFacts
    <2>2. chan'[s][r] = Append(p, h)
      BY <1>7, <1>8, <1>9, <2>1
    <2>3. /\ Len(p) = Len(q) + 1 /\ Len(q) \in Nat /\ p[Len(q) + 1] = f
          /\ \A i \in 1..Len(q) : p[i] = q[i]
      BY <1>2, <2>1, AppendFacts
    <2>4. /\ Len(chan'[s][r]) = Len(p) + 1 /\ chan'[s][r][Len(p) + 1] = h
          /\ \A i \in 1..Len(p) : chan'[s][r][i] = p[i]
      BY <1>2, <2>2, AppendFacts
    <2>5. Grows(s, r)
      BY <1>5, <2>3, <2>4 DEF Grows
    <2>6. ASSUME NEW i \in Nat, NEW g, Added(s, r, i, g)
          PROVE  g = f \/ g = h
      <3>1. i > Len(q) /\ i <= Len(q) + 2 /\ chan'[s][r][i] = g
        BY <1>5, <2>3, <2>4, <2>6 DEF Added
      <3>2. i = Len(q) + 1 \/ i = Len(q) + 2
        BY <2>3, <3>1
      <3>3. CASE i = Len(q) + 1
        <4>1. i \in 1..Len(p)
          BY <2>3, <3>3
        <4> QED
          BY <2>3, <2>4, <3>1, <3>3, <4>1
      <3>4. CASE i = Len(q) + 2
        <4>1. i = Len(p) + 1
          BY <2>3, <3>4
        <4> QED
          BY <2>4, <3>1, <4>1
      <3> QED
        BY <3>2, <3>3, <3>4
    <2> QED
      BY <1>6, <1>9, <2>5, <2>6 DEF f, h
  <1>10. CASE s = d /\ r \in R /\ r \notin All
    <2>1. chan'[s][r] = Append(chan[s][r], f)
      BY <1>5, <1>7, <1>8, <1>10
    <2>2. Grows(s, r) /\ \A i \in Nat : \A g : Added(s, r, i, g) => g = f
      BY <1>2, <2>1, AppendGrows
    <2> QED
      BY <1>6, <1>10, <2>2 DEF f, h
  <1>11. CASE s = d /\ r \notin R /\ r \in All
    <2>1. chan'[s][r] = Append(chan[s][r], h)
      BY <1>5, <1>7, <1>8, <1>11
    <2>2. Grows(s, r) /\ \A i \in Nat : \A g : Added(s, r, i, g) => g = h
      BY <1>2, <2>1, AppendGrows
    <2> QED
      BY <1>6, <1>11, <2>2 DEF f, h
  <1>12. CASE ~(s = d /\ r \in R) /\ ~(s = d /\ r \in All)
    <2>1. chan'[s][r] = chan[s][r]
      BY <1>5, <1>7, <1>8, <1>12
    <2> QED
      BY <2>1, SameGrows
  <1> QED
    BY <1>9, <1>10, <1>11, <1>12

\* Frames that are no invites and tell of what the sender has taken.
LEMMA ReplyFrames ==
    ASSUME TypeOK, TypeOK', NEW d \in Devices, OnlyOf(d), NEW s \in Devices, NEW r \in Devices,
           NEW f \in Frames, f.type # "invite",
           Owner[s] \in Members[f.conv], Owner[r] \in Members[f.conv],
           f.type # "accepted_elsewhere" => Owner[r] # Owner[s],
           \A o \in f.about : o.dev # s => Taken(o, s) /\ ~RingsFor(s, o)'
    PROVE  FrameInv(s, r, f)'
  <1>1. f.about \in SUBSET Sessions
    BY FrameFields
  <1> QED
    BY <1>1, TakenStays DEF FrameInv

\* While a task describes its call, its connection is open and its stream is on.
LEMMA DescribingOpen ==
    ASSUME TypeOK, SetUpInv, Plain, RingParts, NEW d \in Devices, NEW t \in tasks[d],
           t.at = "describe"
    PROVE  IsOpen(d, t) /\ mgr[d].stream # {} /\ online[d]
  <1>1. mgr[d].pc = {t.n} /\ online[d]
    BY DEF RingParts, TaskInv
  <1>2. {p.n : p \in open[d]} = {t.n} /\ mgr[d].stream = {t.n}
    BY <1>1, SetUpOf DEF OwnMedia
  <1>3. \E p \in open[d] : p.n = t.n
    BY <1>2
  <1> QED
    BY <1>1, <1>2, <1>3 DEF IsOpen

LEMMA DescribeRing ==
    ASSUME TypeOK, TypeOK', SetUpInv, Plain, RingParts, NEW d \in Devices, NEW t \in tasks[d],
           Describe(d, t)
    PROVE  RingParts'
  <1>1. t.at = "describe" /\ tasks' = [tasks EXCEPT ![d] = tasks[d] \ {t}]
    BY DEF Describe
  <1>2. /\ tasks[d] = {t} /\ mgr[d].status # "incoming-ringing"
        /\ mgr[d].stream # {} /\ online[d]
    BY <1>1, SetUpOf, DescribingOpen DEF OneSetUp
  <1>3. /\ tasks'[d] = {} /\ \A e \in Devices \ {d} : tasks'[e] = tasks[e]
        /\ UNCHANGED <<serial, online>>
    BY <1>1, <1>2 DEF Describe, TypeOK
  <1>4. PICK me \in Sessions : me = [dev |-> d, n |-> t.n]
    BY TaskFields
  <1>5. /\ chan' = IF t.kind = "start"
                   THEN Sent(chan, d, Reached(d, t.conv), Frame("invite", t.conv, {me}, {me}))
                   ELSE Answered(chan, d, t.conv, {me}, t.offer)
        /\ mgr' = IF t.kind = "start" THEN mgr ELSE [mgr EXCEPT ![d].offer = {}]
    BY <1>2, <1>4 DEF Describe
  <1>6. /\ mgr'[d].status = mgr[d].status /\ mgr'[d].conv = mgr[d].conv
        /\ mgr'[d].about = mgr[d].about /\ mgr'[d].offer \in {mgr[d].offer, {}}
        /\ \A e \in Devices \ {d} : mgr'[e] = mgr[e]
    BY <1>5, ManagerFields DEF TypeOK, Managers
  <1>7. /\ t.conv \in Conversations /\ t.offer \in SUBSET Sessions
        /\ Owner[d] \in Members[t.conv] /\ t.n <= serial[d] /\ t.n \in Nat
        /\ \A o \in t.offer : Taken(o, d)
        /\ t.kind = "start" => Calling(me, t.conv)
        /\ serial[d] \in Nat /\ me.dev = d /\ me.n = t.n
    BY <1>4, TaskFields, ChanFields DEF RingParts, TaskInv
  <1>8. Unsent(me) /\ ~Unsent(me)'
    BY <1>3, <1>7 DEF Unsent
  <1>9. (OnlyOf(d) /\ \A s, r \in Devices : NewFrames(s, r)) => RingParts'
    <2>1. ASSUME OnlyOf(d), \A s, r \in Devices : NewFrames(s, r)
          PROVE  RingParts'
      <3>1. ManagerInv(d)'
        <4>1. /\ ManagerInv(d) /\ mgr[d].offer \in SUBSET Sessions
              /\ mgr[d].about \in SUBSET Sessions
          BY ManagerFields DEF RingParts
        <4> QED
          BY <1>6, <2>1, <4>1, TakenStays DEF ManagerInv
      <3> QED
        BY <1>2, <1>3, <1>6, <2>1, <3>1, NoTasks, NoRing, CallStays, PartsStep
    <2> QED
      BY <2>1
  <1>10. CASE t.kind = "start"
    <2>1. PICK f \in Frames : f = Frame("invite", t.conv, {me}, {me})
      BY <1>7, FrameType DEF Types
    <2>2. /\ f.type = "invite" /\ f.conv = t.conv /\ f.sdp = {me} /\ f.about = {me}
      BY <2>1 DEF Frame
    <2>3. chan' = Sent(chan, d, Reached(d, t.conv), f)
      BY <1>5, <1>10, <2>1
    <2>4. Calling(me, t.conv)'
      BY <1>6, <1>7, <1>10 DEF Calling
    <2>5. ASSUME NEW s \in Devices, NEW r \in Devices
          PROVE  Grows(s, r) /\ NewInvites(s, r) /\ NewFrames(s, r)
      <3>1. \A i \in Nat : \A g : Added(s, r, i, g) =>
               /\ s = d /\ r \in Reached(d, t.conv)
               /\ g = f /\ i = Len(chan[s][r]) + 1
        BY <2>3, SentFrames
      <3>2. Grows(s, r)
        BY <2>3, SentFrames
      <3>3. NewInvites(s, r)
        BY <1>8, <2>2, <2>4, <3>1 DEF NewInvites
      <3>4. (s = d /\ r \in Reached(d, t.conv)) => FrameInv(s, r, f)'
        BY <1>7, <1>8, <2>2 DEF Reached, FrameInv
      <3> QED
        BY <3>1, <3>2, <3>3, <3>4 DEF NewFrames
    <2>6. OnlyOf(d)
      BY <1>3, <1>6, <1>7, <2>5 DEF OnlyOf
    <2> QED
      BY <1>9, <2>5, <2>6
  <1>11. CASE t.kind # "start"
    <2>1. chan' = Answered(chan, d, t.conv, {me}, t.offer)
      BY <1>5, <1>11
    <2>2. PICK f \in Frames, h \in Frames :
             /\ f = Frame("answer", t.conv, {me}, t.offer)
             /\ h = Frame("accepted_elsewhere", t.conv, {}, t.offer)
      BY <1>7, FrameType DEF Types
    <2>3. /\ f.type = "answer" /\ f.conv = t.conv /\ f.about = t.offer
          /\ h.type = "accepted_elsewhere" /\ h.conv = t.conv /\ h.about = t.offer
      BY <2>2 DEF Frame
    <2>4. ASSUME NEW s \in Devices, NEW r \in Devices
          PROVE  /\ Grows(s, r)
                 /\ \A i \in Nat : \A g : Added(s, r, i, g) =>
                       /\ s = d /\ Owner[r] \in Members[t.conv]
                       /\ (Owner[r] # Owner[s] /\ g = f) \/ g = h
      <3>1. PICK sdp \in SUBSET Sessions : sdp = {me}
        OBVIOUS
      <3>2. chan' = Answered(chan, d, t.conv, sdp, t.offer)
        BY <2>1, <3>1
      <3>3. /\ Grows(s, r)
            /\ \A i \in Nat : \A g : Added(s, r, i, g) =>
                  /\ s = d /\ Owner[r] \in Members[t.conv]
                  /\ \/ Owner[r] # Owner[s] /\ g = Frame("answer", t.conv, sdp, t.offer)
                     \/ g = Frame("accepted_elsewhere", t.conv, {}, t.offer)
        BY <1>7, <3>2, AnsweredFrames
      <3> QED
        BY <2>2, <3>1, <3>3
    <2>5. \A s, r \in Devices : NewInvites(s, r)
      BY <2>3, <2>4 DEF NewInvites
    <2>6. OnlyOf(d)
      BY <1>3, <1>6, <1>7, <2>4, <2>5 DEF OnlyOf
    <2>7. \A o \in Sessions : ~RingsFor(d, o)'
      BY <1>2, <1>6 DEF RingsFor
    <2>8. ASSUME NEW s \in Devices, NEW r \in Devices
          PROVE  NewFrames(s, r)
      <3>1. ASSUME NEW g \in Frames, s = d, Owner[r] \in Members[t.conv],
                   (Owner[r] # Owner[s] /\ g = f) \/ g = h
            PROVE  FrameInv(s, r, g)'
        <4>1. /\ g.type # "invite" /\ g.conv = t.conv /\ g.about = t.offer
              /\ g.type # "accepted_elsewhere" => Owner[r] # Owner[s]
          BY <2>3, <3>1
        <4> QED
          BY <1>7, <2>6, <2>7, <3>1, <4>1, ReplyFrames
      <3> QED
        BY <2>4, <3>1 DEF NewFrames
    <2> QED
      BY <1>9, <2>6, <2>8
  <1> QED
    BY <1>10, <1>11

LEMMA TaskStepRing ==
    ASSUME TypeOK, TypeOK', SetUpInv, Plain, RingParts, NEW d \in Devices, TaskStep(d)
    PROVE  RingParts'
  <1>1. PICK t \in tasks[d] : MediaReady(d, t) \/ Describe(d, t) \/ DescribeClosed(d, t)
    BY DEF TaskStep
  <1>2. ~DescribeClosed(d, t)
    BY DescribingOpen DEF DescribeClosed
  <1> QED
    BY <1>1, <1>2, MediaReadyRing, DescribeRing

\* Hanging up tells everyone called, and leaves d idle.
LEMMA HangUpRing ==
    ASSUME TypeOK, TypeOK', SetUpInv, Plain, Plain', RingParts, NEW d \in Devices,
           NEW type \in {"decline", "end"}, HangUp(d, type),
           mgr[d].status = "outgoing-ringing" => type = "end"
    PROVE  RingParts'
  <1>1. tasks[d] = {}
    BY NoTaskCut DEF HangUp, Plain
  <1>2. online[d]
    BY DEF RingParts
  <1>3. /\ mgr' = [mgr EXCEPT ![d] = Idle]
        /\ UNCHANGED <<tasks, serial, online>>
    BY <1>2 DEF HangUp
  <1>4. PICK c \in mgr[d].conv :
           chan' = Sent(chan, d, Reached(d, c), Frame(type, c, {}, mgr[d].about))
    BY <1>2 DEF HangUp
  <1>5. c \in Conversations /\ mgr[d].about \in SUBSET Sessions /\ ManagerInv(d)
    BY ManagerFields DEF RingParts
  <1>6. PICK f \in Frames : f = Frame(type, c, {}, mgr[d].about)
    BY <1>5, FrameType DEF Types
  <1>7. f.type = type /\ f.conv = c /\ f.about = mgr[d].about
    BY <1>6 DEF Frame
  <1>8. /\ mgr'[d].status = "idle" /\ mgr'[d].conv = {} /\ mgr'[d].about = {}
        /\ mgr'[d].offer = {} /\ tasks'[d] = {}
        /\ \A e \in Devices \ {d} : mgr'[e] = mgr[e]
    BY <1>1, <1>3 DEF Idle, TypeOK
  <1>9. ASSUME NEW s \in Devices, NEW r \in Devices
        PROVE  /\ Grows(s, r)
               /\ \A i \in Nat : \A g : Added(s, r, i, g) => s = d /\ r \in Reached(d, c) /\ g = f
               /\ (s = d /\ r \in Reached(d, c)) => Added(s, r, Len(chan[s][r]) + 1, f)
    <2>1. PICK R : R = Reached(d, c)
      OBVIOUS
    <2>2. chan' = Sent(chan, d, R, f)
      BY <1>4, <1>6, <2>1
    <2>3. /\ Grows(s, r)
          /\ \A i \in Nat : \A g : Added(s, r, i, g) =>
                s = d /\ r \in R /\ g = f /\ i = Len(chan[s][r]) + 1
          /\ (s = d /\ r \in R) => Added(s, r, Len(chan[s][r]) + 1, f)
      BY <2>2, SentFrames
    <2> QED
      BY <2>1, <2>3
  <1>10. \A s, r \in Devices : NewInvites(s, r)
    BY <1>7, <1>9 DEF NewInvites
  <1>11. OnlyOf(d)
    BY <1>3, <1>8, <1>9, <1>10, ChanFields DEF OnlyOf
  <1>12. ASSUME NEW r \in Reached(d, c) PROVE FrameInv(d, r, f)'
    <2>1. \A o \in Sessions : ~RingsFor(d, o)'
      BY <1>8 DEF RingsFor
    <2>2. r \in Devices /\ Owner[r] \in Members[c] /\ Owner[r] # Owner[d]
      BY DEF Reached
    <2>3. f.type # "invite" /\ Owner[d] \in Members[f.conv]
      BY <1>5, <1>7 DEF ManagerInv
    <2>4. \A o \in f.about : o.dev # d => Taken(o, d) /\ ~RingsFor(d, o)'
      BY <1>5, <1>7, <2>1 DEF ManagerInv
    <2> QED
      BY <1>7, <1>11, <2>2, <2>3, <2>4, ReplyFrames
  <1>13. \A s, r \in Devices : NewFrames(s, r)
    BY <1>9, <1>12 DEF NewFrames
  <1>14. ASSUME NEW o \in Sessions, NEW e \in Devices, NEW k \in Conversations
         PROVE  CallsOn(o, e, k)
    <2> SUFFICES ASSUME Calling(o, k), OnlyCallee(e, o.dev, k), o.dev = d
                 PROVE  EndAfter(chan'[d][e], Len(chan[d][e]), k)
      <3>1. o.dev \in Devices
        BY DEF Sessions
      <3>2. (o.dev # d /\ Calling(o, k)) => Calling(o, k)'
        BY <1>8, <3>1 DEF Calling
      <3> QED
        BY <3>2 DEF CallsOn
    <2>1. k = c /\ type = "end"
      BY <1>4 DEF Calling
    <2>2. \A r \in Devices : online[r]
      BY DEF RingParts
    <2>3. e \in Reached(d, c)
      BY <2>1, <2>2 DEF OnlyCallee, Reached
    <2>4. Added(d, e, Len(chan[d][e]) + 1, f)
      BY <1>9, <2>3
    <2>5. Len(chan[d][e]) \in Nat /\ Len(chan'[d][e]) \in Nat
      BY ChanFields, ChanFieldsNext
    <2>6. PICK j \in 1..Len(chan'[d][e]) : j = Len(chan[d][e]) + 1
      BY <2>4, <2>5 DEF Added
    <2>7. j > Len(chan[d][e]) /\ chan'[d][e][j] = f
      BY <2>4, <2>5, <2>6 DEF Added
    <2> QED
      BY <1>7, <2>1, <2>6, <2>7 DEF EndAfter
  <1>15. ManagerInv(d)'
    BY <1>8 DEF ManagerInv
  <1> QED
    BY <1>8, <1>11, <1>13, <1>14, <1>15, NoTasks, NoRing, PartsStep

LEMMA UserStepRing ==
    ASSUME TypeOK, TypeOK', SetUpInv, Plain, Plain', RingParts, NEW d \in Devices, UserStep(d)
    PROVE  RingParts'
  <1>1. DeclineCall(d) => RingParts'
    BY HangUpRing DEF DeclineCall
  <1>2. EndCall(d) => RingParts'
    BY HangUpRing DEF EndCall
  <1> QED
    BY <1>1, <1>2, StartCallRing, AcceptCallRing, DismissRing DEF UserStep

\* A device that leaves a call, or goes on with it without ringing.
LEMMA LeavesRing ==
    ASSUME TypeOK, TypeOK', RingParts, NEW d \in Devices, OnlyOf(d), tasks'[d] = {},
           mgr'[d].status # "incoming-ringing", mgr'[d].conv \subseteq mgr[d].conv,
           mgr'[d].offer \subseteq mgr[d].offer, mgr'[d].about \subseteq mgr[d].about,
           \A s, r \in Devices : NewFrames(s, r),
           \A o \in Sessions, e \in Devices, c \in Conversations : CallsOn(o, e, c)
    PROVE  RingParts'
  <1>1. /\ ManagerInv(d) /\ mgr[d].offer \in SUBSET Sessions
        /\ mgr[d].about \in SUBSET Sessions
    BY ManagerFields DEF RingParts
  <1>2. ManagerInv(d)'
    BY <1>1, TakenStays DEF ManagerInv
  <1> QED
    BY <1>2, NoTasks, NoRing, PartsStep

\* Taking a frame.
LEMMA ReceivedFrames ==
    ASSUME TypeOK, TypeOK', NEW s \in Devices, NEW d \in Devices, chan[s][d] # <<>>,
           chan' = Received(s, d), NEW x \in Devices, NEW e \in Devices
    PROVE  /\ (x = s /\ e = d) => Shrinks(x, e)
           /\ ~(x = s /\ e = d) => Grows(x, e) /\ ~Shrinks(x, e)
           /\ NewInvites(x, e) /\ NewFrames(x, e)
  <1>1. /\ chan'[s][d] = Tail(chan[s][d])
        /\ ~(x = s /\ e = d) => chan'[x][e] = chan[x][e]
    BY DEF Received, TypeOK
  <1>2. CASE x = s /\ e = d
    <2>1. Shrinks(x, e)
      BY <1>1, <1>2 DEF Shrinks
    <2>2. \A i \in Nat : \A g : ~Added(x, e, i, g)
      BY <2>1, ShrinksFields, ChanFields DEF Added
    <2> QED
      BY <1>2, <2>1, <2>2 DEF NewInvites, NewFrames
  <1>3. CASE ~(x = s /\ e = d)
    <2>1. Grows(x, e) /\ \A i \in Nat : \A g : ~Added(x, e, i, g)
      BY <1>1, <1>3, SameGrows
    <2>2. ~Shrinks(x, e)
      BY <1>1, <1>3, ShrinksFields, ChanFields
    <2> QED
      BY <1>3, <2>1, <2>2 DEF NewInvites, NewFrames
  <1> QED
    BY <1>2, <1>3

LEMMA ReceivedOnlyOf ==
    ASSUME TypeOK, TypeOK', NEW s \in Devices, NEW d \in Devices, chan[s][d] # <<>>,
           chan' = Received(s, d), \A e \in Devices \ {d} : mgr'[e] = mgr[e],
           UNCHANGED <<tasks, serial, online>>
    PROVE  OnlyOf(d)
  BY ReceivedFrames, ChanFields DEF OnlyOf

LEMMA IgnoredRing ==
    ASSUME TypeOK, TypeOK', RingParts, NEW s \in Devices, NEW d \in Devices,
           chan[s][d] # <<>>, chan' = Received(s, d),
           UNCHANGED <<mgr, tasks, serial, online>>,
           mgr[d].status = "incoming-ringing" =>
              ~(/\ Head(chan[s][d]).type = "end"
                /\ Head(chan[s][d]).conv \in mgr[d].conv)
    PROVE  RingParts'
  <1>1. OnlyOf(d)
    BY ReceivedOnlyOf
  <1>2. \A x \in Devices : Shrinks(x, d) => x = s
    BY ReceivedFrames
  <1>3. /\ \A e \in Devices, o \in Sessions : RingsFor(e, o)' => RingsFor(e, o)
        /\ \A o \in Sessions, e \in Devices, c \in Conversations : RingsOn(o, e, c)
    BY <1>1, <1>2, NoRing
  <1>4. \A o \in Sessions, e \in Devices, c \in Conversations : CallsOn(o, e, c)
    BY <1>1, CallStays
  <1>5. /\ TaskInv(d) /\ ManagerInv(d)
        /\ \A t \in tasks[d] : t.offer \in SUBSET Sessions
        /\ mgr[d].offer \in SUBSET Sessions /\ mgr[d].about \in SUBSET Sessions
    BY TaskFields, ManagerFields DEF RingParts
  <1>6. TaskInv(d)'
    BY <1>1, <1>5, TakenStays DEF TaskInv, Calling
  <1>7. ManagerInv(d)'
    BY <1>1, <1>5, TakenStays DEF ManagerInv
  <1>8. \A x, e \in Devices : NewFrames(x, e)
    BY ReceivedFrames
  <1> QED
    BY <1>1, <1>3, <1>4, <1>6, <1>7, <1>8, PartsStep

\* The caller hears of its own call from the callee, who rings no more.
LEMMA CallHeard ==
    ASSUME TypeOK, TypeOK', RingParts, NEW s \in Devices, NEW d \in Devices, OnlyOf(d),
           chan[s][d] # <<>>, NEW f \in Frames, f = Head(chan[s][d]),
           f.type \in {"answer", "decline", "end"},
           f.about = mgr[d].about, f.conv \in mgr[d].conv
    PROVE  \A o \in Sessions, e \in Devices, c \in Conversations : CallsOn(o, e, c)
  <1> SUFFICES ASSUME NEW o \in Sessions, NEW e \in Devices, NEW c \in Conversations,
                      Calling(o, c), OnlyCallee(e, o.dev, c)
               PROVE  Calling(o, c)' \/ (Taken(o, e) /\ ~RingsFor(e, o))
    BY DEF CallsOn
  <1>1. o.dev \in Devices
    BY DEF Sessions
  <1>2. CASE o.dev # d
    BY <1>1, <1>2 DEF Calling, OnlyOf
  <1>3. CASE o.dev = d
    <2>1. f.about = {o} /\ f.conv = c
      BY <1>3 DEF Calling
    <2>2. 1 \in 1..Len(chan[s][d]) /\ chan[s][d][1] = f
      BY ChanFields
    <2>3. FrameInv(s, d, f)
      BY <2>2 DEF RingParts
    <2>4. s = e
      BY <1>3, <2>1, <2>3 DEF FrameInv, OnlyCallee
    <2>5. o.dev # s
      BY <1>3, <2>3 DEF FrameInv
    <2> QED
      BY <2>1, <2>3, <2>4, <2>5 DEF FrameInv
  <1> QED
    BY <1>2, <1>3

\* A frame that ends the call.
LEMMA FinishRing ==
    ASSUME TypeOK, TypeOK', Plain', RingParts, NEW s \in Devices, NEW d \in Devices,
           chan[s][d] # <<>>, NEW f \in Frames, f = Head(chan[s][d]),
           chan' = Received(s, d), Finish(d), MixUp(d, f),
           UNCHANGED <<tasks, serial, online>>,
           \/ f.type \in {"answer", "decline", "end"} /\ f.conv \in mgr[d].conv
           \/ mgr[d].status # "outgoing-ringing"
    PROVE  RingParts'
  <1>1. tasks[d] = {} /\ f.about = mgr[d].about
    BY NoTaskCut DEF Finish, Plain, MixUp
  <1>2. /\ mgr'[d].status = "idle" /\ mgr'[d].conv = {} /\ mgr'[d].offer = {}
        /\ mgr'[d].about = {}
        /\ \A e \in Devices \ {d} : mgr'[e] = mgr[e]
    BY DEF Finish, Idle, TypeOK
  <1>3. OnlyOf(d) /\ \A x, e \in Devices : NewFrames(x, e)
    BY <1>2, ReceivedOnlyOf, ReceivedFrames
  <1>4. \A o \in Sessions, e \in Devices, c \in Conversations : CallsOn(o, e, c)
    BY <1>1, <1>3, CallHeard, CallStays
  <1> QED
    BY <1>1, <1>2, <1>3, <1>4, LeavesRing

LEMMA AnswerRing ==
    ASSUME TypeOK, TypeOK', SetUpInv, Plain, Plain', RingParts,
           NEW s \in Devices, NEW d \in Devices,
           chan[s][d] # <<>>, NEW f \in Frames, f = Head(chan[s][d]),
           HandleRemoteAnswer(s, d, f), UNCHANGED <<serial, online>>
    PROVE  RingParts'
  <1>1. f.type = "answer" /\ chan' = Received(s, d) /\ UNCHANGED tasks
    BY DEF HandleRemoteAnswer
  <1>2. CASE Ignored
    BY <1>1, <1>2, IgnoredRing DEF Ignored
  <1>3. CASE ~Ignored
    <2>1. /\ mgr[d].status = "outgoing-ringing" /\ mgr[d].pc # {} /\ f.conv \in mgr[d].conv
          /\ MixUp(d, f)
      BY <1>3 DEF HandleRemoteAnswer
    <2>2. ~ \E t \in tasks[d] : t.n \in mgr[d].pc
      <3> SUFFICES ASSUME \E t \in tasks[d] : t.n \in mgr[d].pc PROVE FALSE
        OBVIOUS
      <3>1. FailWith(d, tasks[d])
        BY <1>3 DEF HandleRemoteAnswer
      <3>2. tasks[d] = {}
        BY <3>1, NoTaskCut DEF FailWith, Plain
      <3> QED
        BY <3>2
    <2>3. tasks[d] = {}
      <3> SUFFICES ASSUME NEW t \in tasks[d] PROVE FALSE
        OBVIOUS
      <3>1. t.at # "media"
        BY <2>1, SetUpOf DEF OneSetUp
      <3>2. t.at = "describe"
        BY <3>1, TaskFields DEF Tasks
      <3>3. mgr[d].pc = {t.n}
        BY <3>2 DEF RingParts, TaskInv
      <3> QED
        BY <2>2, <3>3
    <2>4. mgr' = [mgr EXCEPT ![d].status = "connecting"]
      BY <1>3, <2>2 DEF HandleRemoteAnswer
    <2>5. /\ mgr'[d].status = "connecting" /\ mgr'[d].conv = mgr[d].conv
          /\ mgr'[d].offer = mgr[d].offer /\ mgr'[d].about = mgr[d].about
          /\ \A e \in Devices \ {d} : mgr'[e] = mgr[e]
      BY <2>4, ManagerFields DEF TypeOK, Managers
    <2>6. OnlyOf(d) /\ \A x, e \in Devices : NewFrames(x, e)
      BY <1>1, <2>5, ReceivedOnlyOf, ReceivedFrames
    <2>7. f.about = mgr[d].about
      BY <2>1 DEF MixUp, Plain
    <2>8. \A o \in Sessions, e \in Devices, c \in Conversations : CallsOn(o, e, c)
      BY <1>1, <2>1, <2>6, <2>7, CallHeard
    <2> QED
      BY <1>1, <2>3, <2>5, <2>6, <2>8, LeavesRing
  <1> QED
    BY <1>2, <1>3

LEMMA EndingRing ==
    ASSUME TypeOK, TypeOK', Plain', RingParts, NEW s \in Devices, NEW d \in Devices,
           chan[s][d] # <<>>, NEW f \in Frames, f = Head(chan[s][d]),
           \/ HandleRemoteDecline(s, d, f)
           \/ HandleRemoteEnd(s, d, f)
           \/ HandleAcceptedElsewhere(s, d, f),
           UNCHANGED <<serial, online>>
    PROVE  RingParts'
  <1>1. CASE HandleRemoteDecline(s, d, f)
    <2>1. f.type = "decline" /\ chan' = Received(s, d) /\ UNCHANGED tasks
      BY <1>1 DEF HandleRemoteDecline
    <2>2. \/ Finish(d) /\ MixUp(d, f) /\ f.conv \in mgr[d].conv
          \/ Ignored
      BY <1>1 DEF HandleRemoteDecline
    <2> QED
      BY <2>1, <2>2, FinishRing, IgnoredRing DEF Ignored
  <1>2. CASE HandleRemoteEnd(s, d, f)
    <2>1. f.type = "end" /\ chan' = Received(s, d) /\ UNCHANGED tasks
      BY <1>2 DEF HandleRemoteEnd
    <2>2. \/ Finish(d) /\ MixUp(d, f) /\ f.conv \in mgr[d].conv
          \/ /\ Ignored
             /\ ~(f.conv \in mgr[d].conv /\ mgr[d].status \notin {"idle", "ended", "error"})
      BY <1>2 DEF HandleRemoteEnd
    <2> QED
      BY <2>1, <2>2, FinishRing, IgnoredRing DEF Ignored
  <1>3. CASE HandleAcceptedElsewhere(s, d, f)
    <2>1. f.type = "accepted_elsewhere" /\ chan' = Received(s, d) /\ UNCHANGED tasks
      BY <1>3 DEF HandleAcceptedElsewhere
    <2>2. \/ Finish(d) /\ MixUp(d, f) /\ mgr[d].status = "incoming-ringing"
          \/ Ignored
      BY <1>3 DEF HandleAcceptedElsewhere, Ringing
    <2> QED
      BY <2>1, <2>2, FinishRing, IgnoredRing DEF Ignored
  <1> QED
    BY <1>1, <1>2, <1>3

\* An invite is taken once.
LEMMA TakenNow ==
    ASSUME TypeOK, TypeOK', RingParts, NEW s \in Devices, NEW d \in Devices, OnlyOf(d),
           Shrinks(s, d), Head(chan[s][d]).type = "invite", NEW o \in Head(chan[s][d]).about
    PROVE  o \in Sessions /\ o.dev = s /\ s # d /\ ~Taken(o, d) /\ Taken(o, d)'
  <1>1. 1 \in 1..Len(chan[s][d]) /\ chan[s][d][1] = Head(chan[s][d])
    BY ShrinksFields, ChanFields
  <1>2. o.dev = s /\ chan[s][d][1].about = {o} /\ ~Taken(o, d)
    BY <1>1, InviteThere
  <1>3. o \in Sessions
    BY <1>1, ChanFields, FrameFields
  <1>4. FrameInv(s, d, chan[s][d][1])
    BY <1>1 DEF RingParts
  <1>5. s # d /\ ~Unsent(o)
    BY <1>1, <1>2, <1>4 DEF FrameInv
  <1>6. ASSUME NEW i \in 1..Len(chan'[s][d]), chan'[s][d][i].type = "invite",
               o \in chan'[s][d][i].about
        PROVE  FALSE
    <2>1. i + 1 \in 1..Len(chan[s][d]) /\ chan'[s][d][i] = chan[s][d][i + 1]
      BY ShrinksFields
    <2>2. chan[s][d][i + 1].about = {o}
      BY <1>6, <2>1, InviteThere
    <2>3. PICK k \in 1..Len(chan[s][d]) : k = i + 1
      BY <2>1
    <2>4. Once(chan[s][d])
      BY DEF RingParts
    <2>5. /\ chan[s][d][k].type = "invite" /\ chan[s][d][1].type = "invite"
          /\ chan[s][d][k].about = chan[s][d][1].about
      BY <1>1, <1>2, <1>6, <2>1, <2>2, <2>3
    <2>6. k = 1
      BY <1>1, <2>4, <2>5 DEF Once
    <2>7. i \in Nat /\ i > 0
      BY ChanFieldsNext
    <2> QED
      BY <2>3, <2>6, <2>7
  <1>7. ~Unsent(o)'
    BY <1>3, <1>5, UnsentStays
  <1> QED
    BY <1>2, <1>3, <1>5, <1>6, <1>7 DEF Taken

LEMMA InviteIdleRing ==
    ASSUME TypeOK, TypeOK', SetUpInv, Plain, RingParts, NEW s \in Devices, NEW d \in Devices,
           chan[s][d] # <<>>, NEW f \in Frames, f = Head(chan[s][d]),
           HandleRemoteInvite(s, d, f), UNCHANGED <<serial, online>>, mgr[d].status = "idle"
    PROVE  RingParts'
  <1>1. /\ f.type = "invite" /\ chan' = Received(s, d) /\ UNCHANGED tasks
        /\ mgr' = [mgr EXCEPT ![d] = [@ EXCEPT !.status = "incoming-ringing",
                                !.conv = {f.conv}, !.offer = f.sdp, !.about = f.about]]
    BY DEF HandleRemoteInvite
  <1>2. /\ mgr'[d].conv = {f.conv} /\ mgr'[d].offer = f.sdp /\ mgr'[d].about = f.about
        /\ \A e \in Devices \ {d} : mgr'[e] = mgr[e]
    BY <1>1, ManagerFields DEF TypeOK, Managers
  <1>3. OnlyOf(d) /\ \A x, e \in Devices : NewFrames(x, e)
    BY <1>1, <1>2, ReceivedOnlyOf, ReceivedFrames
  <1>4. Shrinks(s, d)
    BY <1>1, ReceivedFrames
  <1>5. 1 \in 1..Len(chan[s][d]) /\ chan[s][d][1] = f
    BY <1>4, ShrinksFields, ChanFields
  <1>6. FrameInv(s, d, f)
    BY <1>5 DEF RingParts
  <1>7. \A o \in f.about : /\ o \in Sessions /\ o.dev = s /\ s # d
                           /\ ~Taken(o, d) /\ Taken(o, d)'
    BY <1>1, <1>3, <1>4, TakenNow
  <1>8. ManagerInv(d)'
    BY <1>1, <1>2, <1>6, <1>7 DEF ManagerInv, FrameInv
  <1>9. tasks'[d] = {}
    BY <1>1, SetUpOf DEF OneSetUp
  <1>10. ASSUME NEW e \in Devices, NEW o \in Sessions, RingsFor(e, o)'
         PROVE  RingsFor(e, o) \/ ~Taken(o, e)
    <2>1. CASE e = d
      BY <1>2, <1>7, <1>10, <2>1 DEF RingsFor
    <2>2. CASE e # d
      BY <1>2, <1>10, <2>2 DEF RingsFor
    <2> QED
      BY <2>1, <2>2
  <1>11. ASSUME NEW o \in Sessions, NEW e \in Devices, NEW c \in Conversations
         PROVE  RingsOn(o, e, c)
    <2>1. CASE e = d
      <3> SUFFICES ASSUME RingsFor(d, o)', c \in mgr'[d].conv
                   PROVE  /\ Shrinks(o.dev, d)
                          /\ Head(chan[o.dev][d]).type = "invite"
                          /\ Head(chan[o.dev][d]).conv = c
                          /\ o \in Head(chan[o.dev][d]).about
        BY <2>1 DEF RingsOn
      <3>1. o \in f.about /\ c = f.conv
        BY <1>2 DEF RingsFor
      <3>2. o.dev = s
        BY <1>7, <3>1
      <3> QED
        BY <1>1, <1>4, <3>1, <3>2
    <2>2. CASE e # d
      <3>1. o.dev \in Devices
        BY DEF Sessions
      <3>2. ~Shrinks(o.dev, e)
        BY <1>1, <2>2, <3>1, ReceivedFrames
      <3> QED
        BY <1>2, <2>2, <3>2 DEF RingsOn, RingsFor
    <2> QED
      BY <2>1, <2>2
  <1>12. \A o \in Sessions, e \in Devices, c \in Conversations : CallsOn(o, e, c)
    BY <1>3, CallStays
  <1> QED
    BY <1>3, <1>8, <1>9, <1>10, <1>11, <1>12, NoTasks, PartsStep

\* Busy: the invite is taken and declined.
LEMMA InviteBusyRing ==
    ASSUME TypeOK, TypeOK', SetUpInv, Plain, RingParts, NEW s \in Devices, NEW d \in Devices,
           chan[s][d] # <<>>, NEW f \in Frames, f = Head(chan[s][d]),
           HandleRemoteInvite(s, d, f), UNCHANGED <<serial, online>>, mgr[d].status # "idle"
    PROVE  RingParts'
  <1>1. /\ f.type = "invite" /\ UNCHANGED <<mgr, tasks>>
        /\ chan' = Sent(Received(s, d), d, Reached(d, f.conv),
                        Frame("decline", f.conv, {}, f.about))
    BY DEF HandleRemoteInvite
  <1>2. f.conv \in Conversations /\ f.about \in SUBSET Sessions
    BY FrameFields
  <1>3. PICK g \in Frames : g = Frame("decline", f.conv, {}, f.about)
    BY <1>2, FrameType DEF Types
  <1>4. g.type = "decline" /\ g.conv = f.conv /\ g.about = f.about
    BY <1>3 DEF Frame
  <1>5. 1 \in 1..Len(chan[s][d]) /\ chan[s][d][1] = f
    BY ChanFields
  <1>6. FrameInv(s, d, f)
    BY <1>5 DEF RingParts
  <1>7. s # d /\ Owner[d] \in Members[f.conv]
    BY <1>1, <1>6 DEF FrameInv
  <1>8. PICK ch \in Chans : ch = Received(s, d)
    BY ReceivedType DEF TypeOK, Chans
  <1>9. /\ ch[s][d] = Tail(chan[s][d])
        /\ \A x, e \in Devices : ~(x = s /\ e = d) => ch[x][e] = chan[x][e]
    BY <1>8 DEF Received, TypeOK
  <1>10. chan' = Sent(ch, d, Reached(d, f.conv), g)
    BY <1>1, <1>3, <1>8
  <1>11. Shrinks(s, d)
    BY <1>7, <1>9, <1>10, SentAt DEF Shrinks
  <1>12. ASSUME NEW x \in Devices, NEW e \in Devices
         PROVE  /\ ~(x = s /\ e = d) => Grows(x, e)
                /\ \A i \in Nat : \A h : Added(x, e, i, h) =>
                      x = d /\ e \in Reached(d, f.conv) /\ h = g
    <2>1. CASE x = s /\ e = d
      BY <1>11, <2>1, ShrinksFields, ChanFields DEF Added
    <2>2. CASE x = d /\ e \in Reached(d, f.conv)
      <3>1. chan'[x][e] = Append(chan[x][e], g)
        BY <1>7, <1>9, <1>10, <2>2, SentAt
      <3> QED
        BY <2>2, <3>1, AppendGrows
    <2>3. CASE ~(x = s /\ e = d) /\ ~(x = d /\ e \in Reached(d, f.conv))
      <3>1. chan'[x][e] = chan[x][e]
        BY <1>9, <1>10, <2>3, SentAt
      <3> QED
        BY <3>1, SameGrows
    <2> QED
      BY <2>1, <2>2, <2>3
  <1>13. \A x, e \in Devices : NewInvites(x, e)
    BY <1>4, <1>12 DEF NewInvites
  <1>14. OnlyOf(d)
    <2>1. \A x, e \in Devices : Grows(x, e) \/ (e = d /\ Shrinks(x, e))
      BY <1>11, <1>12
    <2> QED
      BY <1>1, <1>13, <2>1, ChanFields DEF OnlyOf
  <1>15. \A o \in f.about : /\ o \in Sessions /\ o.dev = s
                            /\ ~Taken(o, d) /\ Taken(o, d)'
    BY <1>1, <1>11, <1>14, TakenNow
  <1>16. ManagerInv(d) /\ TaskInv(d)
    BY DEF RingParts
  <1>17. \A o \in f.about : ~RingsFor(d, o)'
    BY <1>1, <1>7, <1>15, <1>16 DEF RingsFor, ManagerInv
  <1>18. ASSUME NEW x \in Devices, NEW e \in Devices PROVE NewFrames(x, e)
    <2>1. e \in Reached(d, f.conv) => Owner[e] \in Members[f.conv] /\ Owner[e] # Owner[d]
      BY DEF Reached
    <2>2. e \in Reached(d, f.conv) => FrameInv(d, e, g)'
      BY <1>4, <1>7, <1>15, <1>17, <2>1 DEF FrameInv
    <2> QED
      BY <1>12, <2>2 DEF NewFrames
  <1>19. \A x \in Devices : Shrinks(x, d) => x = s
    <2> SUFFICES ASSUME NEW x \in Devices, Shrinks(x, d), x # s PROVE FALSE
      OBVIOUS
    <2>1. Len(chan[x][d]) <= Len(chan'[x][d])
      BY <1>12 DEF Grows
    <2>2. Len(chan'[x][d]) = Len(chan[x][d]) - 1 /\ Len(chan[x][d]) \in Nat
      BY ShrinksFields, ChanFields
    <2> QED
      BY <2>1, <2>2
  <1>20. /\ \A e \in Devices, o \in Sessions : RingsFor(e, o)' => RingsFor(e, o)
         /\ \A o \in Sessions, e \in Devices, c \in Conversations : RingsOn(o, e, c)
    BY <1>1, <1>14, <1>19, NoRing
  <1>21. \A o \in Sessions, e \in Devices, c \in Conversations : CallsOn(o, e, c)
    BY <1>1, <1>14, CallStays
  <1>22. /\ \A t \in tasks[d] : t.offer \in SUBSET Sessions
         /\ mgr[d].offer \in SUBSET Sessions /\ mgr[d].about \in SUBSET Sessions
    BY TaskFields, ManagerFields
  <1>23. TaskInv(d)'
    BY <1>1, <1>14, <1>16, <1>22, TakenStays DEF TaskInv, Calling
  <1>24. ManagerInv(d)'
    BY <1>1, <1>14, <1>16, <1>22, TakenStays DEF ManagerInv
  <1> QED
    BY <1>14, <1>18, <1>20, <1>21, <1>23, <1>24, PartsStep

LEMMA ReceiveRing ==
    ASSUME TypeOK, TypeOK', SetUpInv, Plain, Plain', RingParts,
           NEW s \in Devices, NEW d \in Devices, Receive(s, d)
    PROVE  RingParts'
  <1>1. chan[s][d] # <<>> /\ UNCHANGED <<serial, online>>
    BY DEF Receive
  <1>2. PICK f \in Frames : f = Head(chan[s][d])
    BY <1>1, ReceivedType DEF TypeOK, Chans
  <1>3. \/ HandleRemoteInvite(s, d, f) \/ HandleRemoteAnswer(s, d, f)
        \/ HandleRemoteDecline(s, d, f) \/ HandleRemoteEnd(s, d, f)
        \/ HandleAcceptedElsewhere(s, d, f)
    BY <1>2 DEF Receive
  <1> QED
    BY <1>1, <1>2, <1>3, InviteIdleRing, InviteBusyRing, AnswerRing, EndingRing

LEMMA LinkRing ==
    ASSUME TypeOK, TypeOK', SetUpInv, Plain, Plain', RingParts, NEW d \in Devices,
           LinkStep(d)
    PROVE  RingParts'
  <1>1. PICK p \in open[d] : Connected(d, p) \/ FarEndGone(d, p)
    BY DEF LinkStep
  <1>2. UNCHANGED <<tasks, serial, chan, online>>
    BY <1>1 DEF Connected, FarEndGone
  <1>3. mgr[d].status \in {"connecting", "in-call"}
    BY <1>1 DEF Connected, FarEndGone
  <1>4. \A x, e \in Devices : Grows(x, e) /\ NewInvites(x, e) /\ NewFrames(x, e)
    BY <1>2, StillFrames
  <1>5. CASE Connected(d, p)
    <2>1. /\ mgr'[d].status = "in-call" /\ mgr'[d].conv = mgr[d].conv
          /\ mgr'[d].offer = mgr[d].offer /\ mgr'[d].about = mgr[d].about
          /\ mgr'[d].pc = mgr[d].pc
          /\ \A e \in Devices \ {d} : mgr'[e] = mgr[e]
      BY <1>5, ManagerFields DEF Connected, TypeOK, Managers
    <2>2. OnlyOf(d)
      BY <1>2, <1>4, <2>1, ChanFields DEF OnlyOf
    <2>3. /\ TaskInv(d) /\ ManagerInv(d)
          /\ \A t \in tasks[d] : t.offer \in SUBSET Sessions
          /\ mgr[d].offer \in SUBSET Sessions /\ mgr[d].about \in SUBSET Sessions
      BY TaskFields, ManagerFields DEF RingParts
    <2>4. \A t \in tasks[d] : t.kind # "start"
      BY <1>3, <2>3 DEF TaskInv, Calling
    <2>5. TaskInv(d)'
      BY <1>2, <2>1, <2>2, <2>3, <2>4, TakenStays DEF TaskInv
    <2>6. ManagerInv(d)'
      BY <2>1, <2>2, <2>3, TakenStays DEF ManagerInv
    <2> QED
      BY <1>3, <1>4, <2>1, <2>2, <2>5, <2>6, NoRing, CallStays, PartsStep
  <1>6. CASE FarEndGone(d, p)
    <2>1. /\ Cleanup(d, tasks[d])
          /\ mgr' = [mgr EXCEPT ![d] = TornDown(d, Failed(mgr[d].status))]
      BY <1>6 DEF FarEndGone, FailWith
    <2>2. tasks'[d] = {}
      BY <1>2, <2>1, NoTaskCut DEF Plain
    <2>3. /\ mgr'[d].status = "error" /\ mgr'[d].conv = mgr[d].conv
          /\ mgr'[d].offer = {} /\ mgr'[d].about = mgr[d].about
          /\ \A e \in Devices \ {d} : mgr'[e] = mgr[e]
      BY <1>3, <2>1 DEF TornDown, Failed, TypeOK
    <2>4. OnlyOf(d)
      BY <1>2, <1>4, <2>3, ChanFields DEF OnlyOf
    <2> QED
      BY <1>3, <1>4, <2>2, <2>3, <2>4, CallStays, LeavesRing
  <1> QED
    BY <1>1, <1>5, <1>6

\* What was lost, torn down or mistaken stays so.
LEMMA CutStays ==
    ASSUME TypeOK, NEW d \in Devices, NEW K, Cleanup(d, K), NEW e \in Devices, cut[e]
    PROVE  cut'[e]
  BY DEF Cleanup, TypeOK

LEMMA PlainBefore ==
    ASSUME TypeOK, [Next]_vars, Plain'
    PROVE  Plain /\ faults' = faults
  <1>1. ASSUME faults' = faults, mixed => mixed', \A e \in Devices : cut[e] => cut'[e]
        PROVE  Plain /\ faults' = faults
    BY <1>1 DEF Plain
  <1>2. ASSUME NEW d \in Devices, UserStep(d) \/ TaskStep(d) \/ LinkStep(d)
        PROVE  /\ UNCHANGED <<mixed, faults>>
               /\ \/ UNCHANGED cut
                  \/ \E K : Cleanup(d, K)
    <2>1. UserStep(d) => /\ UNCHANGED <<mixed, faults>>
                         /\ UNCHANGED cut \/ \E K : Cleanup(d, K)
      BY DEF UserStep, StartCall, AcceptCall, DeclineCall, EndCall, HangUp, Dismiss
    <2>2. TaskStep(d) => /\ UNCHANGED <<mixed, faults>>
                         /\ UNCHANGED cut \/ \E K : Cleanup(d, K)
      BY DEF TaskStep, MediaReady, Describe, DescribeClosed, FailWith
    <2>3. LinkStep(d) => /\ UNCHANGED <<mixed, faults>>
                         /\ UNCHANGED cut \/ \E K : Cleanup(d, K)
      BY DEF LinkStep, Connected, FarEndGone, FailWith
    <2> QED
      BY <1>2, <2>1, <2>2, <2>3
  <1>3. CASE \E d \in Devices : UserStep(d) \/ TaskStep(d) \/ LinkStep(d)
    BY <1>1, <1>2, <1>3, CutStays
  <1>4. ASSUME NEW s \in Devices, NEW d \in Devices, Receive(s, d)
        PROVE  Plain /\ faults' = faults
    <2>1. PICK f : f = Head(chan[s][d])
      OBVIOUS
    <2>2. /\ UNCHANGED faults
          /\ UNCHANGED cut \/ \E K : Cleanup(d, K)
      BY <1>4 DEF Receive, HandleRemoteInvite, HandleRemoteAnswer, HandleRemoteDecline,
                  HandleRemoteEnd, HandleAcceptedElsewhere, Ignored, Finish, FailWith
    <2>3. \/ HandleRemoteInvite(s, d, f) \/ HandleRemoteAnswer(s, d, f)
          \/ HandleRemoteDecline(s, d, f) \/ HandleRemoteEnd(s, d, f)
          \/ HandleAcceptedElsewhere(s, d, f)
      BY <1>4, <2>1 DEF Receive
    <2>4. mixed => mixed'
      BY <2>3 DEF HandleRemoteInvite, HandleRemoteAnswer, HandleRemoteDecline,
                  HandleRemoteEnd, HandleAcceptedElsewhere, Ignored, MixUp
    <2> QED
      BY <1>1, <2>2, <2>4, CutStays
  <1>5. ASSUME faults' = faults + 1
        PROVE  FALSE
    <2>1. faults \in Nat /\ faults' = 0
      BY DEF TypeOK, Plain
    <2> QED
      BY <1>5, <2>1
  <1>6. CASE \E d \in Devices : \E p \in open[d] : LinkFails(d, p)
    BY <1>5, <1>6 DEF LinkFails, Fault
  <1>7. CASE \E d \in Devices, outgoing \in BOOLEAN : Disconnect(d, outgoing)
    BY <1>5, <1>7 DEF Disconnect, Fault
  <1>8. CASE \E d \in Devices : Reconnect(d)
    BY <1>1, <1>8 DEF Reconnect
  <1>9. CASE UNCHANGED vars
    BY <1>1, <1>9 DEF vars
  <1> QED
    BY <1>3, <1>4, <1>6, <1>7, <1>8, <1>9 DEF Next

LEMMA RingStep == TypeOK /\ TypeOK' /\ SetUpInv /\ RingInv /\ [Next]_vars => RingInv'
  <1> SUFFICES ASSUME TypeOK, TypeOK', SetUpInv, RingInv, [Next]_vars, Plain'
               PROVE  RingParts'
    BY DEF RingInv
  <1>1. Plain /\ faults' = faults /\ RingParts
    BY PlainBefore DEF RingInv
  <1>2. faults' # faults + 1
    BY <1>1 DEF TypeOK
  <1>3. CASE \E d \in Devices : UserStep(d) \/ TaskStep(d) \/ LinkStep(d)
    BY <1>1, <1>3, UserStepRing, TaskStepRing, LinkRing
  <1>4. CASE \E s, d \in Devices : Receive(s, d)
    BY <1>1, <1>4, ReceiveRing
  <1>5. ~ \E d \in Devices : \E p \in open[d] : LinkFails(d, p)
    BY <1>2 DEF LinkFails, Fault
  <1>6. ~ \E d \in Devices, outgoing \in BOOLEAN : Disconnect(d, outgoing)
    BY <1>2 DEF Disconnect, Fault
  <1>7. ~ \E d \in Devices : Reconnect(d)
    BY <1>1 DEF Reconnect, RingParts
  <1>8. CASE UNCHANGED vars
    <2>1. UNCHANGED <<mgr, tasks, serial, chan, online>>
      BY <1>8 DEF vars
    <2>2. \A o, e : /\ Taken(o, e)' <=> Taken(o, e)
                    /\ RingsFor(e, o)' <=> RingsFor(e, o)
      BY <2>1 DEF Taken, Unsent, RingsFor
    <2>3. \A o : Unsent(o)' <=> Unsent(o)
      BY <2>1 DEF Unsent
    <2>4. \A o, c : Calling(o, c)' <=> Calling(o, c)
      BY <2>1 DEF Calling
    <2>5. ASSUME NEW d \in Devices PROVE online'[d] /\ TaskInv(d)' /\ ManagerInv(d)'
      BY <1>1, <2>1, <2>2, <2>4 DEF RingParts, TaskInv, ManagerInv
    <2>6. ASSUME NEW s \in Devices, NEW r \in Devices
          PROVE  /\ Once(chan[s][r])'
                 /\ \A i \in 1..Len(chan'[s][r]) : FrameInv(s, r, chan[s][r][i])'
      BY <1>1, <2>1, <2>2, <2>3 DEF RingParts, Once, FrameInv
    <2>7. ASSUME NEW x \in Devices, NEW d \in Devices, NEW c \in Conversations,
                 OnlyCallee(d, x, c)
          PROVE  InviteFollowed(x, d, c)' /\ RingFollowed(x, d, c)'
      <3>1. InviteFollowed(x, d, c) /\ RingFollowed(x, d, c)
        BY <1>1, <2>7 DEF RingParts
      <3>2. InviteFollowed(x, d, c)'
        BY <2>1, <2>4, <3>1 DEF InviteFollowed, EndAfter
      <3>3. RingFollowed(x, d, c)'
        BY <2>1, <2>2, <2>4, <3>1 DEF RingFollowed, EndAfter
      <3> QED
        BY <3>2, <3>3
    <2> QED
      BY <2>5, <2>6, <2>7 DEF RingParts, OnlyCallee
  <1> QED
    BY <1>3, <1>4, <1>5, <1>6, <1>7, <1>8 DEF Next

LEMMA RingInit == Init => RingInv
  <1> SUFFICES ASSUME Init PROVE RingParts
    BY DEF RingInv
  <1>1. ASSUME NEW d \in Devices
        PROVE  /\ online[d] /\ tasks[d] = {}
               /\ mgr[d].conv = {} /\ mgr[d].offer = {} /\ mgr[d].about = {}
    BY DEF Init, Idle
  <1>2. ASSUME NEW s \in Devices, NEW r \in Devices PROVE 1..Len(chan[s][r]) = {}
    BY DEF Init
  <1> QED
    BY <1>1, <1>2 DEF RingParts, TaskInv, ManagerInv, Once, InviteFollowed, RingFollowed

\* While no connection was lost, no call torn down during set-up and no frame
\* taken for another call's, a phone that alone is called rings for a caller that
\* is calling, or the frame that stops it is on its way.
THEOREM RingCorrect == Spec => []RingHasCaller
  <1>1. TypeOK /\ RingInv => RingHasCaller
    <2> SUFFICES ASSUME TypeOK, RingParts, NEW d \in Devices,
                        mgr[d].status = "incoming-ringing",
                        NEW o \in mgr[d].about, NEW c \in mgr[d].conv,
                        OnlyCallee(d, o.dev, c)
                 PROVE  \/ mgr[o.dev].about = {o} /\ mgr[o.dev].status = "outgoing-ringing"
                        \/ \E i \in 1..Len(chan[o.dev][d]) :
                              chan[o.dev][d][i].type = "end" /\ chan[o.dev][d][i].conv = c
      BY DEF RingInv, Plain, RingHasCaller
    <2>1. o.dev \in Devices /\ c \in Conversations
      BY ManagerFields DEF Sessions
    <2>2. RingFollowed(o.dev, d, c)
      BY <2>1 DEF RingParts
    <2>3. Calling(o, c) \/ EndAfter(chan[o.dev][d], 0, c)
      BY <2>2 DEF RingFollowed, RingsFor
    <2> QED
      BY <2>3 DEF Calling, EndAfter
  <1> QED
    BY <1>1, TypeInit, TypeStep, SetUpInit, SetUpStep, RingInit, RingStep, PTL DEF Spec

=============================================================================

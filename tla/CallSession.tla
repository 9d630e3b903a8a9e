----------------------------- MODULE CallSession -----------------------------
(***************************************************************************)
(* Voice and video calls: the CallManager of every device, the signaling   *)
(* frames the server fans out between them, and the peer connections.      *)
(* Set-up is asynchronous: startCall and acceptCall go on after the user   *)
(* has hung up, and frames name the conversation, never the call.  ICE     *)
(* candidates are left out: a connection whose two ends have each other's  *)
(* description can come up.                                                *)
(***************************************************************************)
EXTENDS Naturals, Sequences, FiniteSets

CONSTANTS Users, Devices,
          Owner,         \* Owner[d]: whose device d is
          Conversations,
          Members,       \* Members[c]: the users of conversation c
          MaxCalls,      \* bound: device d starts no call once it has set up MaxCalls[d]
          MaxHangups,    \* bound: hang-ups and declines by users
          MaxFaults      \* bound: lost connections

ASSUME CallAssumption ==
    /\ Owner \in [Devices -> Users]
    /\ Members \in [Conversations -> SUBSET Users]
    /\ MaxCalls \in [Devices -> Nat]
    /\ MaxHangups \in Nat
    /\ MaxFaults \in Nat

\* One start or accept: its stream and its peer connection go by its number.
Sessions == [dev : Devices, n : Nat]
Statuses == {"idle", "outgoing-ringing", "incoming-ringing", "connecting", "in-call",
             "ended", "error"}

VARIABLES
    mgr,     \* mgr[d]: the fields of d's CallManager; {} is null.  about: history,
             \* the offer of the call the manager is in
    tasks,   \* tasks[d]: startCall and acceptCall still running
    open,    \* open[d]: peer connections not closed: [n, remote]
    live,    \* live[d]: microphone and camera streams not stopped
    serial,  \* serial[d]: calls d has started or accepted
    chan,    \* chan[s][d]: frames from device s to device d
    online,  \* online[d]: d's WebSocket is open
    cut,     \* history: d's call was torn down while it was being set up
    mixed,   \* history: a frame of one call took effect on another
    hangups, faults

vars == <<mgr, tasks, open, live, serial, chan, online, cut, mixed, hangups, faults>>

Idle == [status |-> "idle", conv |-> {}, offer |-> {}, pc |-> {}, stream |-> {}, about |-> {}]

Init ==
    /\ mgr = [d \in Devices |-> Idle]
    /\ tasks = [d \in Devices |-> {}]
    /\ open = [d \in Devices |-> {}] /\ live = [d \in Devices |-> {}]
    /\ serial = [d \in Devices |-> 0]
    /\ chan = [s \in Devices |-> [d \in Devices |-> <<>>]]
    /\ online = [d \in Devices |-> TRUE]
    /\ cut = [d \in Devices |-> FALSE] /\ mixed = FALSE
    /\ hangups = 0 /\ faults = 0

(***************************************************************************)
(* Signaling: the server passes a frame to the connected devices of the    *)
(* other members; the answer is announced to everybody's devices.          *)
(***************************************************************************)
Frame(type, c, sdp, about) == [type |-> type, conv |-> c, sdp |-> sdp, about |-> about]

Reached(d, c) == {r \in Devices : Owner[r] \in Members[c] \ {Owner[d]} /\ online[r]}
Sent(ch, d, R, f) ==
    [ch EXCEPT ![d] = [r \in Devices |-> IF r \in R THEN Append(@[r], f) ELSE @[r]]]

Answered(ch, d, c, sdp, about) ==
    Sent(Sent(ch, d, Reached(d, c), Frame("answer", c, sdp, about)),
         d, {r \in Devices : Owner[r] \in Members[c] /\ online[r]},
         Frame("accepted_elsewhere", c, {}, about))

(***************************************************************************)
(* The manager                                                             *)
(***************************************************************************)
\* Mutation: the stream is dropped but its tracks keep running.
TracksKept(d) == {}
\* What cleanup stops: the tracks of the current stream.
Stopped(d) == mgr[d].stream

\* cleanup stops the current stream and closes the current connection, while
\* tasks K go on.
Cleanup(d, K) ==
    /\ live' = [live EXCEPT ![d] = @ \ Stopped(d)]
    /\ open' = [open EXCEPT ![d] = {p \in @ : p.n \notin mgr[d].pc}]
    /\ cut' = [cut EXCEPT ![d] = @ \/ K # {}]

\* The manager after cleanup, the conversation still named.
TornDown(d, status) == [status |-> status, conv |-> mgr[d].conv, offer |-> {}, pc |-> {},
                        stream |-> {}, about |-> mgr[d].about]

\* transitionTo("ended"), cleanup and resetToIdle.
Finish(d) == mgr' = [mgr EXCEPT ![d] = Idle] /\ Cleanup(d, tasks[d])

\* failWith: error where the table allows it; the conversation stays.
Failed(status) == IF status \in {"idle", "ended", "error"} THEN status ELSE "error"

FailWith(d, K) ==
    /\ mgr' = [mgr EXCEPT ![d] = TornDown(d, Failed(mgr[d].status))]
    /\ Cleanup(d, K)

NextNumber(d) == serial[d] + 1

NewTask(d, kind, c, offer) ==
    /\ serial' = [serial EXCEPT ![d] = NextNumber(d)]
    /\ tasks' = [tasks EXCEPT ![d] = @ \cup {[n |-> NextNumber(d), kind |-> kind, at |-> "media",
                                             conv |-> c, offer |-> offer]}]

StartCall(d, c) ==
    /\ serial[d] < MaxCalls[d]
    /\ mgr[d].status = "idle"
    /\ Owner[d] \in Members[c]
    /\ NewTask(d, "start", c, {})
    /\ mgr' = [mgr EXCEPT ![d] = [@ EXCEPT !.status = "outgoing-ringing", !.conv = {c},
                                           !.about = {[dev |-> d, n |-> NextNumber(d)]}]]
    /\ UNCHANGED <<open, live, chan, online, cut, mixed, hangups, faults>>

AcceptCall(d) ==
    /\ mgr[d].status = "incoming-ringing"
    /\ mgr[d].offer # {}
    /\ \E c \in mgr[d].conv : NewTask(d, "accept", c, mgr[d].offer)
    /\ mgr' = [mgr EXCEPT ![d].status = "connecting"]
    /\ UNCHANGED <<open, live, chan, online, cut, mixed, hangups, faults>>

\* Permission and devices are there: the stream and a new connection replace
\* the manager's, whatever has become of the call.  The accepting side applies
\* the offer.
MediaReady(d, t) ==
    /\ t.at = "media"
    /\ live' = [live EXCEPT ![d] = @ \cup {t.n}]
    /\ open' = [open EXCEPT ![d] = @ \cup {[n |-> t.n, remote |-> t.offer]}]
    /\ mgr' = [mgr EXCEPT ![d] = [@ EXCEPT !.stream = {t.n}, !.pc = {t.n}]]
    /\ tasks' = [tasks EXCEPT ![d] = (@ \ {t}) \cup {[t EXCEPT !.at = "describe"]}]
    /\ UNCHANGED <<serial, chan, online, cut, mixed, hangups, faults>>

\* Whether the connection the task works on is still open.
IsOpen(d, t) == \E p \in open[d] : p.n = t.n

\* The description is set: the invite or the answer goes out.  Not connected,
\* or no stream left to attach, the task fails.
Describe(d, t) ==
    LET K == tasks[d] \ {t} IN
    /\ t.at = "describe"
    /\ IsOpen(d, t)
    /\ tasks' = [tasks EXCEPT ![d] = K]
    /\ IF ~online[d] \/ (t.kind = "accept" /\ mgr[d].stream = {})
       THEN FailWith(d, K) /\ UNCHANGED chan
       ELSE /\ chan' = IF t.kind = "start"
                       THEN Sent(chan, d, Reached(d, t.conv),
                                 Frame("invite", t.conv, {[dev |-> d, n |-> t.n]},
                                       {[dev |-> d, n |-> t.n]}))
                       ELSE Answered(chan, d, t.conv, {[dev |-> d, n |-> t.n]}, t.offer)
            /\ mgr' = IF t.kind = "start" THEN mgr ELSE [mgr EXCEPT ![d].offer = {}]
            /\ UNCHANGED <<open, live, cut>>
    /\ UNCHANGED <<serial, online, mixed, hangups, faults>>

\* The connection has been closed under the task: the pending operation never
\* settles, or the next one is refused and the task fails whatever call is on.
DescribeClosed(d, t) ==
    LET K == tasks[d] \ {t} IN
    /\ t.at = "describe"
    /\ ~IsOpen(d, t)
    /\ tasks' = [tasks EXCEPT ![d] = K]
    /\ FailWith(d, K) \/ UNCHANGED <<mgr, open, live, cut>>
    /\ UNCHANGED <<serial, chan, online, mixed, hangups, faults>>

\* Hanging up or declining: without a connection the send throws and the
\* manager stays "ended".
HangUp(d, type) ==
    /\ hangups < MaxHangups
    /\ hangups' = hangups + 1
    /\ Cleanup(d, tasks[d])
    /\ IF online[d]
       THEN /\ mgr' = [mgr EXCEPT ![d] = Idle]
            /\ \E c \in mgr[d].conv :
                  chan' = Sent(chan, d, Reached(d, c), Frame(type, c, {}, mgr[d].about))
       ELSE /\ mgr' = [mgr EXCEPT ![d] = TornDown(d, "ended")]
            /\ UNCHANGED chan
    /\ UNCHANGED <<tasks, serial, online, mixed, faults>>

DeclineCall(d) == mgr[d].status = "incoming-ringing" /\ HangUp(d, "decline")
\* Mutation: a caller that gives up before the answer tells nobody.
CancelsQuietly(d) ==
    \/ mgr[d].status \in {"connecting", "in-call"} /\ HangUp(d, "end")
    \/ /\ mgr[d].status = "outgoing-ringing"
       /\ Finish(d)
       /\ UNCHANGED <<tasks, serial, chan, online, mixed, hangups, faults>>
EndCall(d) ==
    mgr[d].status \in {"outgoing-ringing", "connecting", "in-call"} /\ HangUp(d, "end")
\* endCall on a failed call only resets.
Dismiss(d) ==
    /\ mgr[d].status = "error"
    /\ mgr' = [mgr EXCEPT ![d] = [Idle EXCEPT !.pc = mgr[d].pc, !.stream = mgr[d].stream,
                                              !.offer = mgr[d].offer]]
    /\ UNCHANGED <<tasks, open, live, serial, chan, online, cut, mixed, hangups, faults>>

(***************************************************************************)
(* Frames                                                                  *)
(***************************************************************************)
Received(s, d) == [chan EXCEPT ![s][d] = Tail(@)]
\* A frame about another call than the manager's takes effect.
MixUp(d, f) == mixed' = (mixed \/ f.about # mgr[d].about)
Ignored == UNCHANGED <<mgr, open, live, cut, mixed>>

HandleRemoteInvite(s, d, f) ==
    /\ f.type = "invite"
    /\ IF mgr[d].status = "idle"
       THEN /\ mgr' = [mgr EXCEPT ![d] = [@ EXCEPT !.status = "incoming-ringing",
                                !.conv = {f.conv}, !.offer = f.sdp, !.about = f.about]]
            /\ chan' = Received(s, d)
       ELSE /\ chan' = Sent(Received(s, d), d, Reached(d, f.conv),
                            Frame("decline", f.conv, {}, f.about))
            /\ UNCHANGED mgr
    /\ UNCHANGED <<open, live, cut, mixed, tasks>>

\* The answer becomes the remote description.  Before the own offer is set the
\* connection refuses it.
HandleRemoteAnswer(s, d, f) ==
    /\ f.type = "answer"
    /\ chan' = Received(s, d)
    /\ IF mgr[d].status = "outgoing-ringing" /\ mgr[d].pc # {} /\ f.conv \in mgr[d].conv
       THEN /\ IF \E t \in tasks[d] : t.n \in mgr[d].pc
               THEN FailWith(d, tasks[d])
               ELSE /\ mgr' = [mgr EXCEPT ![d].status = "connecting"]
                    /\ open' = [open EXCEPT ![d] =
                          {IF p.n \in mgr[d].pc THEN [p EXCEPT !.remote = f.sdp] ELSE p : p \in @}]
                    /\ UNCHANGED <<live, cut>>
            /\ MixUp(d, f)
       ELSE Ignored
    /\ UNCHANGED tasks

HandleRemoteDecline(s, d, f) ==
    /\ f.type = "decline"
    /\ chan' = Received(s, d)
    /\ IF f.conv \in mgr[d].conv /\ mgr[d].status = "outgoing-ringing"
       THEN Finish(d) /\ MixUp(d, f)
       ELSE Ignored
    /\ UNCHANGED tasks

HandleRemoteEnd(s, d, f) ==
    /\ f.type = "end"
    /\ chan' = Received(s, d)
    /\ IF f.conv \in mgr[d].conv /\ mgr[d].status \notin {"idle", "ended", "error"}
       THEN Finish(d) /\ MixUp(d, f)
       ELSE Ignored
    /\ UNCHANGED tasks

\* Mutation: the caller ends as well.
StopsRinging(d) == mgr[d].status \in {"incoming-ringing", "outgoing-ringing", "connecting"}
\* Only a device that rings stops when the call is accepted elsewhere.
Ringing(d) == mgr[d].status = "incoming-ringing"

HandleAcceptedElsewhere(s, d, f) ==
    /\ f.type = "accepted_elsewhere"
    /\ chan' = Received(s, d)
    /\ IF f.conv \in mgr[d].conv /\ Ringing(d)
       THEN Finish(d) /\ MixUp(d, f)
       ELSE Ignored
    /\ UNCHANGED tasks

Receive(s, d) ==
    /\ chan[s][d] # <<>>
    /\ LET f == Head(chan[s][d]) IN
          \/ HandleRemoteInvite(s, d, f) \/ HandleRemoteAnswer(s, d, f)
          \/ HandleRemoteDecline(s, d, f) \/ HandleRemoteEnd(s, d, f)
          \/ HandleAcceptedElsewhere(s, d, f)
    /\ UNCHANGED <<serial, online, hangups, faults>>

(***************************************************************************)
(* Peer connections and the network                                        *)
(***************************************************************************)
\* The other end of connection p of d: open, with p's description or none yet.
FarEnd(d, p, R) ==
    \E q \in p.remote : \E o \in open[q.dev] : o.n = q.n /\ o.remote \in R

Connected(d, p) ==
    /\ FarEnd(d, p, {{[dev |-> d, n |-> p.n]}})
    /\ mgr[d].status = "connecting"
    /\ mgr' = [mgr EXCEPT ![d].status = "in-call"]
    /\ UNCHANGED <<tasks, open, live, serial, chan, online, cut, mixed, hangups, faults>>

\* Connectivity checks give up on a far end that is closed or talks to another.
FarEndGone(d, p) ==
    /\ p.remote # {}
    /\ ~FarEnd(d, p, {{}, {[dev |-> d, n |-> p.n]}})
    /\ mgr[d].status \in {"connecting", "in-call"}
    /\ FailWith(d, tasks[d])
    /\ UNCHANGED <<tasks, serial, chan, online, mixed, hangups, faults>>

Fault == faults < MaxFaults /\ faults' = faults + 1

LinkFails(d, p) ==
    /\ Fault
    /\ p.remote # {}
    /\ mgr[d].status \in {"connecting", "in-call"}
    /\ FailWith(d, tasks[d])
    /\ UNCHANGED <<tasks, serial, chan, online, mixed, hangups>>

\* The WebSocket closes: frames to d are lost, with outgoing those from d too.
Disconnect(d, outgoing) ==
    /\ online[d]
    /\ Fault
    /\ online' = [online EXCEPT ![d] = FALSE]
    /\ chan' = [s \in Devices |-> [r \in Devices |->
                  IF r = d \/ (outgoing /\ s = d) THEN <<>> ELSE chan[s][r]]]
    /\ UNCHANGED <<mgr, tasks, open, live, serial, cut, mixed, hangups>>

Reconnect(d) ==
    /\ ~online[d]
    /\ online' = [online EXCEPT ![d] = TRUE]
    /\ UNCHANGED <<mgr, tasks, open, live, serial, chan, cut, mixed, hangups, faults>>

-----------------------------------------------------------------------------
UserStep(d) ==
    \/ \E c \in Conversations : StartCall(d, c)
    \/ AcceptCall(d) \/ DeclineCall(d) \/ EndCall(d) \/ Dismiss(d)

TaskStep(d) ==
    \E t \in tasks[d] : MediaReady(d, t) \/ Describe(d, t) \/ DescribeClosed(d, t)

LinkStep(d) == \E p \in open[d] : Connected(d, p) \/ FarEndGone(d, p)

Next ==
    \/ \E d \in Devices : UserStep(d) \/ TaskStep(d) \/ LinkStep(d)
    \/ \E s, d \in Devices : Receive(s, d)
    \/ \E d \in Devices : \E p \in open[d] : LinkFails(d, p)
    \/ \E d \in Devices, outgoing \in BOOLEAN : Disconnect(d, outgoing)
    \/ \E d \in Devices : Reconnect(d)

Spec == Init /\ [][Next]_vars

(***************************************************************************)
(* Fairness: running tasks, frames and connections go on, the WebSocket    *)
(* reconnects, a failed call's card is dismissed.  Nobody has to start,    *)
(* accept or end a call.                                                   *)
(***************************************************************************)
FairSpec ==
    /\ Spec
    /\ \A d \in Devices : WF_vars(TaskStep(d)) /\ WF_vars(LinkStep(d)) /\ WF_vars(Reconnect(d))
                             /\ WF_vars(Dismiss(d))
    /\ \A s, d \in Devices : WF_vars(Receive(s, d))

-----------------------------------------------------------------------------
Types == {"invite", "answer", "decline", "end", "accepted_elsewhere"}
Frames == [type : Types, conv : Conversations, sdp : SUBSET Sessions, about : SUBSET Sessions]
Managers == [status : Statuses, conv : SUBSET Conversations, offer : SUBSET Sessions,
             pc : SUBSET Nat, stream : SUBSET Nat, about : SUBSET Sessions]
Tasks == [n : Nat \ {0}, kind : {"start", "accept"}, at : {"media", "describe"},
          conv : Conversations, offer : SUBSET Sessions]

TypeOK ==
    /\ mgr \in [Devices -> Managers]
    /\ tasks \in [Devices -> SUBSET Tasks]
    /\ open \in [Devices -> SUBSET [n : Nat, remote : SUBSET Sessions]]
    /\ live \in [Devices -> SUBSET Nat]
    /\ serial \in [Devices -> Nat]
    /\ chan \in [Devices -> [Devices -> Seq(Frames)]]
    /\ online \in [Devices -> BOOLEAN]
    /\ cut \in [Devices -> BOOLEAN]
    /\ mixed \in BOOLEAN
    /\ hangups \in Nat /\ faults \in Nat

\* Unless a call was torn down while it was being set up, the running streams
\* and open connections are those of the manager's present call, and without a
\* call there are none.
MediaFollowsCall ==
    \A d \in Devices : ~cut[d] =>
        /\ live[d] = mgr[d].stream
        /\ {p.n : p \in open[d]} = mgr[d].pc
        /\ mgr[d].status \in {"idle", "incoming-ringing", "ended", "error"}
              => live[d] = {} /\ open[d] = {}

(***************************************************************************)
(* Why it holds: until a call is torn down during set-up a device sets up  *)
(* one at a time, and takes its stream and its connection together.        *)
(***************************************************************************)
OneSetUp(d) ==
    /\ \A t, u \in tasks[d] : t = u
    /\ \A t \in tasks[d] : t.at = "media" => mgr[d].pc = {}
    /\ mgr[d].status \in {"idle", "incoming-ringing", "ended", "error"} => tasks[d] = {}

OwnMedia(d) ==
    /\ mgr[d].pc = mgr[d].stream
    /\ live[d] = mgr[d].stream
    /\ {p.n : p \in open[d]} = mgr[d].pc
    /\ mgr[d].status \in {"idle", "incoming-ringing", "ended", "error"} => mgr[d].pc = {}

SetUpInv == \A d \in Devices : ~cut[d] => OneSetUp(d) /\ OwnMedia(d)

\* d is the only device that a call of x in conversation c rings.
OnlyCallee(d, x, c) == {r \in Devices : Owner[r] \in Members[c] \ {Owner[x]}} = {d}

\* A phone that alone is called rings for a caller that is calling, or the frame
\* that stops it is on its way: without lost connections, calls torn down during
\* set-up and frames taken for another call's.
RingHasCaller ==
    (~mixed /\ faults = 0 /\ \A d \in Devices : ~cut[d]) =>
        \A d \in Devices : mgr[d].status = "incoming-ringing" =>
            \A o \in mgr[d].about, c \in mgr[d].conv : OnlyCallee(d, o.dev, c) =>
                \/ mgr[o.dev].about = {o} /\ mgr[o.dev].status = "outgoing-ringing"
                \/ \E i \in 1..Len(chan[o.dev][d]) :
                      chan[o.dev][d][i].type = "end" /\ chan[o.dev][d][i].conv = c

\* An answered call comes up, whichever of the callee's devices answered and
\* whatever order answer and announcement arrive in, if nobody hangs up.
AnsweredCallConnects ==
    \A d \in Devices :
        (mgr[d].status = "connecting" /\ hangups = 0 /\ faults = 0)
            ~> (\/ hangups > 0
                \/ faults > 0
                \/ \E s, r \in Devices : /\ Owner[s] # Owner[r]
                                          /\ mgr[s].status = "in-call"
                                          /\ mgr[r].status = "in-call")

(***************************************************************************)
(* What comments, tests and types say and the code does not do             *)
(***************************************************************************)
\* "(no leaked camera/mic)" (MediaStreamManager), "endCall ... stops local
\* tracks" (its test): without a call nothing records.
NothingRecordsWhenIdle == \A d \in Devices : mgr[d].status = "idle" => live[d] = {}

\* "otherwise the call buttons stay disabled indefinitely" (FloatingCallWindow):
\* a call that is over makes room for the next.
EndedBecomesIdle ==
    \A d \in Devices : (mgr[d].status = "ended") ~> (mgr[d].status = "idle")

\* ringTimeoutMs (CallConfig): nobody's phone rings for ever.
RingingStops ==
    \A d \in Devices :
        (mgr[d].status = "incoming-ringing") ~> (mgr[d].status # "incoming-ringing")
=============================================================================

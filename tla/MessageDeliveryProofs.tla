------------------------ MODULE MessageDeliveryProofs ------------------------
(***************************************************************************)
(* What MessageDelivery guarantees for every number of users, texts, calls *)
(* and faults: type correctness, the agreement of outbox, answers, pages   *)
(* and local tables with the server's table, that the system implements    *)
(* MessageLog, that generations are fresh, that a sender keeps its own     *)
(* copies, and what a receiver may lose.                                   *)
(***************************************************************************)
EXTENDS MessageDelivery, SequenceTheorems, FiniteSetTheorems, TLAPS

(***************************************************************************)
(* Type correctness: facts about the data, then one lemma per action.      *)
(***************************************************************************)
LEMMA MessageFields ==
    \A m \in Messages : m.from \in Users /\ m.text \in Texts
BY DEF Messages

LEMMA OrphanType ==
    ASSUME NEW S, NEW u, NEW K,
           S \subseteq [msg : Messages, by : Callers \cup {"gone"}]
    PROVE  Orphan(S, u, K) \subseteq [msg : Messages, by : Callers \cup {"gone"}]
BY DEF Orphan

LEMMA OrphanHandlerType ==
    ASSUME NEW S, NEW u, NEW K,
           S \subseteq [msg : Messages, by : Callers \cup {"gone"}, ts : Nat]
    PROVE  Orphan(S, u, K) \subseteq [msg : Messages, by : Callers \cup {"gone"}, ts : Nat]
BY DEF Orphan

LEMMA MessagesType ==
    ASSUME TypeOK
    PROVE  /\ Len(messages) \in Nat
           /\ \A i \in 1..Len(messages) : messages[i].msg \in Messages /\ messages[i].ts \in Nat
<1> DEFINE Entry == [msg : Messages, ts : Nat]
<1>1. messages \in Seq(Entry)
  BY DEF TypeOK
<1>2. Len(messages) \in Nat /\ \A i \in 1..Len(messages) : messages[i] \in Entry
  <2> HIDE DEF Entry
  <2>. QED  BY <1>1, ElementOfSeq, LenProperties
<1>. QED  BY <1>2

LEMMA RowsType ==
    ASSUME TypeOK PROVE Rows \subseteq RowType
BY MessagesType DEF Rows, RowOf, RowType

LEMMA FetchFields ==
    ASSUME TypeOK, NEW u \in Users, NEW k \in Fetchers
    PROVE  /\ fetch[u][k] \in FetchType
           /\ fetch[u][k].page \subseteq RowType
           /\ fetch[u][k].hand \subseteq RowType
<1>1. fetch[u][k] \in FetchType
  BY DEF TypeOK
<1>. QED  BY <1>1 DEF FetchType

LEMMA FetchUpdateType ==
    ASSUME TypeOK, NEW u, NEW k, NEW x \in FetchType, fetch' = [fetch EXCEPT ![u][k] = x]
    PROVE  fetch' \in [Users -> [Fetchers -> FetchType]]
BY DEF TypeOK

LEMMA FetchRowsType ==
    ASSUME NEW x \in FetchType, NEW P, P \subseteq RowType, NEW H, H \subseteq RowType
    PROVE  /\ [x EXCEPT !.page = P] \in FetchType
           /\ [x EXCEPT !.hand = H] \in FetchType
           /\ [x EXCEPT !.page = P, !.hand = H] \in FetchType
           /\ \A E \in SUBSET Nat :
                 [x EXCEPT !.at = "working", !.page = P, !.existing = E] \in FetchType
BY DEF FetchType

LEMMA InitType == Init => TypeOK
BY DeliveryAssumption DEF Init, TypeOK, IdleFetch, FetchType

LEMMA EncryptType ==
    ASSUME TypeOK, NEW u \in Users, NEW t \in Texts, NEW k \in Senders, Encrypt(u, t, k)
    PROVE  TypeOK'
<1> DEFINE m == [from |-> u, gen |-> gen[u] + 1, text |-> t]
<1>1. m \in Messages
  <2>1. gen[u] + 1 \in 1..MaxSends[u]
    <3>1. gen[u] \in Nat /\ MaxSends[u] \in Nat
      BY DeliveryAssumption DEF TypeOK
    <3>2. gen[u] < MaxSends[u]
      BY DEF Encrypt
    <3>. QED  BY <3>1, <3>2
  <2>2. m \in [from : {u}, gen : 1..MaxSends[u], text : Texts]
    BY <2>1
  <2>. QED  BY <2>2 DEF Messages
<1>2. encrypted' \subseteq [msg : Messages, by : Callers]
  BY <1>1 DEF Encrypt, TypeOK, Callers
<1>3. gen' \in [Users -> Nat] /\ savedGen' \in [Users -> Nat] /\ draft' \in [Users -> SUBSET Texts]
  BY DEF Encrypt, SaveState, TypeOK
<1>4. savedRatchet' \in [Users -> SUBSET Messages]
  BY DEF Encrypt, SaveState, TypeOK
<1>. QED  BY <1>2, <1>3, <1>4 DEF Encrypt, TypeOK, wireVars, serverVars

LEMMA EncryptFailsType ==
    ASSUME TypeOK, NEW u \in Users, NEW t \in Texts, NEW k \in Senders, EncryptFails(u, t, k)
    PROVE  TypeOK'
BY MessageFields DEF EncryptFails, TypeOK, recvVars, wireVars, serverVars, Fault

LEMMA InsertPendingSendType ==
    ASSUME TypeOK, NEW c \in encrypted, InsertPendingSend(c)
    PROVE  TypeOK'
BY MessageFields DEF InsertPendingSend, TypeOK, recvVars, wireVars, serverVars

LEMMA PostAttachmentType ==
    ASSUME TypeOK, NEW c \in encrypted, PostAttachment(c)
    PROVE  TypeOK'
BY MessageFields DEF PostAttachment, TypeOK, recvVars, wireVars, serverVars

LEMMA InsertPendingSendFailsType ==
    ASSUME TypeOK, NEW c \in encrypted, InsertPendingSendFails(c)
    PROVE  TypeOK'
BY MessageFields DEF InsertPendingSendFails, TypeOK, recvVars, wireVars, serverVars, Fault

LEMMA PostFailsType ==
    ASSUME TypeOK, NEW c \in posting, NEW delivered \in BOOLEAN, PostFails(c, delivered)
    PROVE  TypeOK'
<1>1. requests' \subseteq [msg : Messages, by : Callers \cup {"gone"}]
  BY OrphanType DEF PostFails, TypeOK
<1>2. handlers' \subseteq [msg : Messages, by : Callers \cup {"gone"}, ts : Nat]
  BY OrphanHandlerType DEF PostFails, TypeOK
<1>3. draft' \in [Users -> SUBSET Texts]
  BY MessageFields DEF PostFails, TypeOK
<1>4. posting' \subseteq posting /\ replies' \subseteq replies /\ faults' \in Nat
  BY DEF PostFails, TypeOK, Fault
<1>. QED  BY <1>1, <1>2, <1>3, <1>4 DEF PostFails, TypeOK, serverVars, recvVars

LEMMA PostSucceedsType ==
    ASSUME TypeOK, NEW r \in replies, PostSucceeds(r)
    PROVE  TypeOK'
<1> DEFINE c == [msg |-> r.msg, by |-> r.by, id |-> r.id, ts |-> r.ts, dropped |-> r.msg.text \in Attachments]
<1>1. c \in [msg : Messages, by : Callers, id : Nat, ts : Nat, dropped : BOOLEAN]
  BY DEF TypeOK
<1>2. acked' = acked \cup {c}
  BY DEF PostSucceeds
<1>3. posting' \subseteq posting /\ replies' \subseteq replies
  BY DEF PostSucceeds
<1> HIDE DEF c
<1>4. acked' \subseteq [msg : Messages, by : Callers, id : Nat, ts : Nat, dropped : BOOLEAN]
  BY <1>1, <1>2 DEF TypeOK
<1>. QED  BY <1>3, <1>4 DEF PostSucceeds, TypeOK, serverVars, recvVars

LEMMA DeletePendingSendType ==
    ASSUME TypeOK, NEW c \in acked, DeletePendingSend(c)
    PROVE  TypeOK'
<1>1. [c EXCEPT !.dropped = TRUE]
        \in [msg : Messages, by : Callers, id : Nat, ts : Nat, dropped : BOOLEAN]
  BY DEF TypeOK
<1>2. acked' \subseteq [msg : Messages, by : Callers, id : Nat, ts : Nat, dropped : BOOLEAN]
  BY <1>1 DEF DeletePendingSend, TypeOK
<1>3. pendingSends' \subseteq pendingSends /\ faults' \in Nat
  BY DEF DeletePendingSend, TypeOK, Fault
<1>. QED  BY <1>2, <1>3 DEF DeletePendingSend, TypeOK, wireVars, serverVars, recvVars

LEMMA StoreOwnMessageType ==
    ASSUME TypeOK, NEW c \in acked, StoreOwnMessage(c)
    PROVE  TypeOK'
<1> DEFINE row == [id |-> c.id, ts |-> c.ts, msg |-> c.msg]
<1>1. row \in RowType
  BY DEF TypeOK, RowType
<1>2. local' = [local EXCEPT ![c.msg.from] = @ \cup NewRows(c.msg.from, row)]
  BY DEF StoreOwnMessage
<1>3. local' \in [Users -> SUBSET RowType]
  <2> HIDE DEF row
  <2>. QED  BY <1>1, <1>2 DEF TypeOK, NewRows
<1>4. acked' \subseteq acked
  BY DEF StoreOwnMessage
<1>. QED  BY <1>3, <1>4 DEF StoreOwnMessage, TypeOK, recvVars, wireVars, serverVars

LEMMA StoreOwnMessageFailsType ==
    ASSUME TypeOK, NEW c \in acked, StoreOwnMessageFails(c)
    PROVE  TypeOK'
BY MessageFields DEF StoreOwnMessageFails, TypeOK, recvVars, wireVars, serverVars, Fault

LEMMA FlushStartType ==
    ASSUME TypeOK, NEW u \in Users, NEW f \in Flushers, FlushStart(u, f)
    PROVE  TypeOK'
BY MessageFields DEF FlushStart, TypeOK, recvVars, wireVars, serverVars

LEMMA FlushNextType ==
    ASSUME TypeOK, NEW u \in Users, NEW f \in Flushers, FlushNext(u, f)
    PROVE  TypeOK'
BY MessageFields DEF FlushNext, TypeOK, recvVars, wireVars, serverVars, Callers

LEMMA TickType ==
    ASSUME TypeOK, Tick
    PROVE  TypeOK'
BY MessageFields DEF Tick, TypeOK, sendVars, wireVars, recvVars

LEMMA ServerStampType ==
    ASSUME TypeOK, NEW c \in requests, ServerStamp(c)
    PROVE  TypeOK'
BY MessageFields DEF ServerStamp, TypeOK, sendVars, recvVars, serverVars

\* The answer to a POST names its message, a row id and a timestamp.
LEMMA AnswerType ==
    ASSUME TypeOK, NEW h \in handlers
    PROVE  /\ Answer(h).msg = h.msg /\ Answer(h).by = h.by
           /\ Answer(h) = [msg |-> h.msg, by |-> h.by, id |-> Answer(h).id, ts |-> Answer(h).ts]
           /\ Answer(h).id \in Nat /\ Answer(h).ts \in Nat
           /\ Held(h.msg) # {} => /\ Answer(h).id \in Held(h.msg)
                                 /\ Answer(h).ts = messages[Answer(h).id].ts
           /\ Held(h.msg) = {} => /\ Answer(h).id = Len(messages) + 1
                                 /\ Answer(h).ts = h.ts
<1>1. h.ts \in Nat
  BY DEF TypeOK
<1>2. CASE Held(h.msg) = {}
  BY <1>1, <1>2, MessagesType DEF Answer
<1>3. CASE Held(h.msg) # {}
  <2> DEFINE i == CHOOSE j \in Held(h.msg) : TRUE
  <2>1. i \in Held(h.msg)
    BY <1>3
  <2>2. i \in Nat /\ messages[i].ts \in Nat
    BY <2>1, MessagesType DEF Held
  <2>3. Answer(h) = [msg |-> h.msg, by |-> h.by, ts |-> messages[i].ts, id |-> i]
    BY <1>3 DEF Answer
  <2> HIDE DEF i
  <2>. QED  BY <1>3, <2>1, <2>2, <2>3
<1>. QED  BY <1>2, <1>3

LEMMA ServerInsertType ==
    ASSUME TypeOK, NEW h \in handlers, ServerInsert(h)
    PROVE  TypeOK'
<1> DEFINE Entry == [msg : Messages, ts : Nat]
           e == [msg |-> h.msg, ts |-> h.ts]
<1>1. h.msg \in Messages /\ h.ts \in Nat /\ h.by \in Callers \cup {"gone"}
  BY DEF TypeOK
<1>2. messages' \in Seq(Entry)
  <2>1. e \in Entry /\ messages \in Seq(Entry)
    BY <1>1 DEF TypeOK
  <2>2. messages' = IF Held(h.msg) = {} THEN Append(messages, e) ELSE messages
    BY DEF ServerInsert
  <2> HIDE DEF Entry, e
  <2>. QED  BY <2>1, <2>2, AppendProperties
<1>3. replies' \subseteq [msg : Messages, by : Callers, id : Nat, ts : Nat]
  <2>1. replies' = replies \cup (IF h.by # "gone" THEN {Answer(h)} ELSE {})
    BY DEF ServerInsert, Heard
  <2>2. h.by # "gone" => Answer(h) \in [msg : Messages, by : Callers, id : Nat, ts : Nat]
    BY <1>1, AnswerType
  <2>. QED  BY <2>1, <2>2 DEF TypeOK
<1>4. handlers' \subseteq handlers
  BY DEF ServerInsert
<1>. QED  BY <1>2, <1>3, <1>4 DEF ServerInsert, TypeOK, sendVars, recvVars

LEMMA FetchStartType ==
    ASSUME TypeOK, NEW u \in Users, NEW k \in Fetchers, FetchStart(u, k)
    PROVE  TypeOK'
<1>1. LocalIds(u) \in SUBSET Nat
  BY DEF TypeOK, LocalIds, RowType
<1>2. PICK t \in 0..clock : fetch' = [fetch EXCEPT ![u][k] =
                [at |-> "asked", after |-> t, page |-> {}, hand |-> {},
                 existing |-> IF k = "get_messages" THEN LocalIds(u) ELSE {}]]
  BY DEF FetchStart
<1>3. [at |-> "asked", after |-> t, page |-> {}, hand |-> {},
                 existing |-> IF k = "get_messages" THEN LocalIds(u) ELSE {}] \in FetchType
  <2>1. t \in Nat
    BY DEF TypeOK
  <2>. QED  BY <1>1, <2>1 DEF FetchType
<1>4. fetch' \in [Users -> [Fetchers -> FetchType]]
  BY <1>2, <1>3 DEF TypeOK
<1>. QED  BY <1>4 DEF TypeOK, FetchStart, sendVars, wireVars, serverVars

LEMMA FetchAnsweredType ==
    ASSUME TypeOK, NEW u \in Users, NEW k \in Fetchers, FetchAnswered(u, k)
    PROVE  TypeOK'
<1> DEFINE known == IF k = "get_messages" THEN fetch[u][k].existing ELSE LocalIds(u)
           x(page) == IF page = {} THEN IdleFetch
                      ELSE [at |-> "working", after |-> fetch[u][k].after,
                            page |-> page, hand |-> {}, existing |-> known]
<1>1. PICK page \in SUBSET Rows : fetch' = [fetch EXCEPT ![u][k] = x(page)]
  BY DEF FetchAnswered
<1>2. known \in SUBSET Nat /\ fetch[u][k].after \in Nat
  BY FetchFields DEF TypeOK, LocalIds, RowType, FetchType
<1>3. x(page) \in FetchType
  <2> HIDE DEF known
  <2>. QED  BY <1>2, RowsType DEF IdleFetch, FetchType
<1>4. fetch' \in [Users -> [Fetchers -> FetchType]]
  BY <1>1, <1>3, FetchUpdateType
<1>. QED  BY <1>4 DEF FetchAnswered, TypeOK, sendVars, wireVars, serverVars

LEMMA FetchFailsType ==
    ASSUME TypeOK, NEW u \in Users, NEW k \in Fetchers, FetchFails(u, k)
    PROVE  TypeOK'
BY MessageFields DEF FetchFails, TypeOK, sendVars, wireVars, serverVars, Fault, IdleFetch, FetchType

LEMMA SkipRowType ==
    ASSUME TypeOK, NEW u \in Users, NEW k \in Fetchers, NEW r \in fetch[u][k].page, SkipRow(u, k, r)
    PROVE  TypeOK'
<1>1. [fetch[u][k] EXCEPT !.page = @ \ {r}] \in FetchType
  BY FetchFields, FetchRowsType
<1>2. fetch' = [fetch EXCEPT ![u][k] = [fetch[u][k] EXCEPT !.page = @ \ {r}]]
  BY DEF SkipRow, TypeOK
<1>3. fetch' \in [Users -> [Fetchers -> FetchType]]
  BY <1>1, <1>2, FetchUpdateType
<1>. QED  BY <1>3 DEF SkipRow, TypeOK, sendVars, wireVars, serverVars

LEMMA DecryptRowType ==
    ASSUME TypeOK, NEW u \in Users, NEW k \in Fetchers, NEW r \in fetch[u][k].page, DecryptRow(u, k, r)
    PROVE  TypeOK'
<1> DEFINE x == [fetch[u][k] EXCEPT !.page = @ \ {r}, !.hand = {r}]
<1>1. r \in RowType /\ r.msg \in Messages
  BY FetchFields DEF RowType
<1>2. x \in FetchType
  BY <1>1, FetchFields, FetchRowsType
<1>3. fetch' = [fetch EXCEPT ![u][k] = x]
  BY DEF DecryptRow, TypeOK
<1>4. fetch' \in [Users -> [Fetchers -> FetchType]]
  BY <1>2, <1>3, FetchUpdateType
<1>5. ratchet' \in [Users -> SUBSET Messages] /\ savedRatchet' \in [Users -> SUBSET Messages]
  BY <1>1 DEF DecryptRow, SaveState, TypeOK
<1>6. savedGen' \in [Users -> Nat]
  BY DEF DecryptRow, SaveState, TypeOK
<1>. QED  BY <1>4, <1>5, <1>6 DEF DecryptRow, TypeOK, wireVars, serverVars

LEMMA DecryptRowUnsavedType ==
    ASSUME TypeOK, NEW u \in Users, NEW k \in Fetchers, NEW r \in fetch[u][k].page,
           DecryptRowUnsaved(u, k, r)
    PROVE  TypeOK'
<1> DEFINE x == [fetch[u][k] EXCEPT !.page = @ \ {r}]
<1>1. r.msg \in Messages
  BY FetchFields DEF RowType
<1>2. x \in FetchType
  BY FetchFields, FetchRowsType
<1>3. fetch' = [fetch EXCEPT ![u][k] = x]
  BY DEF DecryptRowUnsaved, TypeOK
<1>4. fetch' \in [Users -> [Fetchers -> FetchType]]
  BY <1>2, <1>3, FetchUpdateType
<1>5. ratchet' \in [Users -> SUBSET Messages] /\ faults' \in Nat
  BY <1>1 DEF DecryptRowUnsaved, TypeOK, Fault
<1>. QED  BY <1>4, <1>5 DEF DecryptRowUnsaved, TypeOK, sendVars, wireVars, serverVars

LEMMA StoreRowType ==
    ASSUME TypeOK, NEW u \in Users, NEW k \in Fetchers, StoreRow(u, k)
    PROVE  TypeOK'
<1> DEFINE x == [fetch[u][k] EXCEPT !.hand = {}]
<1>1. x \in FetchType
  BY FetchFields, FetchRowsType
<1>2. fetch' = [fetch EXCEPT ![u][k] = x]
  BY DEF StoreRow, TypeOK
<1>3. fetch' \in [Users -> [Fetchers -> FetchType]]
  BY <1>1, <1>2, FetchUpdateType
<1>4. local' \in [Users -> SUBSET RowType]
  BY FetchFields DEF StoreRow, NewRows, TypeOK
<1>. QED  BY <1>3, <1>4 DEF StoreRow, TypeOK, sendVars, wireVars, serverVars

LEMMA StoreRowFailsType ==
    ASSUME TypeOK, NEW u \in Users, NEW k \in Fetchers, StoreRowFails(u, k)
    PROVE  TypeOK'
<1>1. IdleFetch \in FetchType
  BY DEF IdleFetch, FetchType
<1>2. fetch' = [fetch EXCEPT ![u][k] = IdleFetch]
  BY DEF StoreRowFails
<1>3. fetch' \in [Users -> [Fetchers -> FetchType]]
  BY <1>1, <1>2, FetchUpdateType
<1>4. faults' \in Nat
  BY DEF StoreRowFails, Fault, TypeOK
<1>. QED  BY <1>3, <1>4 DEF StoreRowFails, TypeOK, sendVars, wireVars, serverVars

LEMMA FetchReturnsType ==
    ASSUME TypeOK, NEW u \in Users, NEW k \in Fetchers, FetchReturns(u, k)
    PROVE  TypeOK'
BY MessageFields DEF FetchReturns, TypeOK, sendVars, wireVars, serverVars, Fault, IdleFetch, FetchType

LEMMA CrashType ==
    ASSUME TypeOK, NEW u \in Users, Crash(u)
    PROVE  TypeOK'
<1>1. requests' \subseteq [msg : Messages, by : Callers \cup {"gone"}]
  BY OrphanType DEF Crash, TypeOK
<1>2. handlers' \subseteq [msg : Messages, by : Callers \cup {"gone"}, ts : Nat]
  BY OrphanHandlerType DEF Crash, TypeOK
<1>3. gen' \in [Users -> Nat] /\ ratchet' \in [Users -> SUBSET Messages] /\ faults' \in Nat
  BY DEF Crash, TypeOK, Fault
<1>4. /\ encrypted' \subseteq encrypted /\ posting' \subseteq posting
      /\ acked' \subseteq acked /\ replies' \subseteq replies
  BY DEF Crash
<1>5. todo' \in [Users -> [Flushers -> SUBSET Messages]]
  BY DEF Crash, TypeOK
<1>6. fetch' \in [Users -> [Fetchers -> FetchType]]
  BY DEF Crash, TypeOK, IdleFetch, FetchType
<1>. QED  BY <1>1, <1>2, <1>3, <1>4, <1>5, <1>6 DEF Crash, TypeOK, serverVars

LEMMA StutterType == ASSUME TypeOK, UNCHANGED vars PROVE TypeOK'
BY DEF TypeOK, vars, sendVars, wireVars, serverVars, recvVars

\* Every step keeps the types.
LEMMA TypeStep == TypeOK /\ [Next]_vars => TypeOK'
<1> SUFFICES ASSUME TypeOK, [Next]_vars PROVE TypeOK'
  OBVIOUS
<1>1. ASSUME NEW u \in Users, SendStep(u) PROVE TypeOK'
  BY <1>1, EncryptType, EncryptFailsType, FlushStartType, FlushNextType DEF SendStep
<1>2. ASSUME NEW u \in Users, Crash(u) PROVE TypeOK'
  BY <1>2, CrashType
<1>3. CASE CallStep
  BY <1>3, InsertPendingSendType, PostAttachmentType, InsertPendingSendFailsType, PostFailsType,
     PostSucceedsType, DeletePendingSendType, StoreOwnMessageType,
     StoreOwnMessageFailsType DEF CallStep
<1>4. CASE ServerStep
  BY <1>4, ServerStampType, ServerInsertType DEF ServerStep
<1>5. ASSUME NEW u \in Users, NEW k \in Fetchers, FetchStep(u, k) PROVE TypeOK'
  BY <1>5, FetchStartType, FetchAnsweredType, FetchFailsType, SkipRowType, DecryptRowType,
     DecryptRowUnsavedType, StoreRowType, StoreRowFailsType, FetchReturnsType DEF FetchStep
<1>6. CASE Tick
  BY <1>6, TickType
<1>7. CASE UNCHANGED vars
  BY <1>7, StutterType
<1>. QED  BY <1>1, <1>2, <1>3, <1>4, <1>5, <1>6, <1>7 DEF Next

\* Every variable keeps its type, whatever the sizes and bounds.
THEOREM TypeCorrect == Spec => []TypeOK
<1>1. Init => TypeOK
  BY InitType
<1>2. TypeOK /\ [Next]_vars => TypeOK'
  BY TypeStep
<1>. QED  BY <1>1, <1>2, PTL DEF Spec

(***************************************************************************)
(* The inductive invariant.  LocalAgreesWithServer is not inductive: a row *)
(* reaches a local table from the answer to a POST or from the page of a   *)
(* GET, so both have to agree with the server's table, too.                *)
(***************************************************************************)
Recorded(x) ==
    /\ x.id \in 1..Len(messages)
    /\ messages[x.id].msg = x.msg
    /\ messages[x.id].ts = x.ts

AnswersAgree == \A x \in replies \cup acked : Recorded(x)

PagesAgree ==
    \A u \in Users, k \in Fetchers : \A r \in fetch[u][k].page \cup fetch[u][k].hand :
        Recorded(r)

LocalRecorded == \A u \in Users : \A e \in local[u] : Recorded(e)

\* Only ServerInsert writes the server's table.
LEMMA InsertOnly ==
    ASSUME [Next]_vars, messages' # messages
    PROVE  \E h \in handlers : ServerInsert(h)
<1>1. ASSUME NEW u \in Users, SendStep(u) \/ Crash(u) PROVE FALSE
  BY <1>1 DEF SendStep, Encrypt, EncryptFails, FlushStart, FlushNext, Crash, serverVars
<1>2. ASSUME CallStep PROVE FALSE
  BY <1>2 DEF CallStep, InsertPendingSend, PostAttachment, InsertPendingSendFails, PostFails, PostSucceeds,
     DeletePendingSend, StoreOwnMessage, StoreOwnMessageFails, serverVars
<1>3. ASSUME NEW u \in Users, NEW k \in Fetchers, FetchStep(u, k) PROVE FALSE
  BY <1>3 DEF FetchStep, FetchStart, FetchAnswered, FetchFails, SkipRow, DecryptRow,
     DecryptRowUnsaved, StoreRow, StoreRowFails, FetchReturns, serverVars
<1>4. ~Tick /\ ~UNCHANGED vars
  BY DEF Tick, vars, serverVars
<1>5. ASSUME NEW c \in requests, ServerStamp(c) PROVE FALSE
  BY <1>5 DEF ServerStamp, serverVars
<1>. QED  BY <1>1, <1>2, <1>3, <1>4, <1>5 DEF Next, ServerStep

\* A step appends one message the table does not hold, or leaves it alone.
LEMMA MessagesStep ==
    TypeOK /\ [Next]_vars =>
        \/ messages' = messages
        \/ \E h \in handlers : /\ h.msg \notin Accepted
                               /\ messages' = Append(messages, [msg |-> h.msg, ts |-> h.ts])
<1> SUFFICES ASSUME TypeOK, [Next]_vars, messages' # messages
    PROVE  \E h \in handlers : /\ h.msg \notin Accepted
                               /\ messages' = Append(messages, [msg |-> h.msg, ts |-> h.ts])
  OBVIOUS
<1>1. PICK h \in handlers : ServerInsert(h)
  BY InsertOnly
<1>2. Held(h.msg) = {}
  BY <1>1 DEF ServerInsert
<1>. QED  BY <1>1, <1>2 DEF ServerInsert, Held, Accepted

\* Rows are only appended: what is recorded stays recorded.
LEMMA MessagesGrow ==
    ASSUME TypeOK, [Next]_vars
    PROVE  /\ Len(messages) <= Len(messages')
           /\ \A i \in 1..Len(messages) : messages'[i] = messages[i]
           /\ Accepted \subseteq Accepted'
<1> DEFINE Entry == [msg : Messages, ts : Nat]
<1>1. messages \in Seq(Entry) /\ Len(messages) \in Nat
  BY MessagesType DEF TypeOK
<1>2. CASE messages' = messages
  BY <1>1, <1>2 DEF Accepted
<1>3. CASE messages' # messages
  <2>1. PICK h \in handlers : messages' = Append(messages, [msg |-> h.msg, ts |-> h.ts])
    BY <1>3, MessagesStep
  <2>2. [msg |-> h.msg, ts |-> h.ts] \in Entry
    BY DEF TypeOK
  <2>3. Len(messages') = Len(messages) + 1 /\ \A i \in 1..Len(messages) : messages'[i] = messages[i]
    <3> HIDE DEF Entry
    <3>. QED  BY <1>1, <2>1, <2>2, AppendProperties
  <2>. QED  BY <1>1, <2>3 DEF Accepted
<1>. QED  BY <1>2, <1>3

LEMMA RecordedStays ==
    ASSUME TypeOK, [Next]_vars, NEW x, Recorded(x)
    PROVE  x.id \in 1..Len(messages') /\ messages'[x.id].msg = x.msg /\ messages'[x.id].ts = x.ts
BY MessagesGrow, MessagesType DEF Recorded

\* The unique index and the dedupe branch: a message is in the table once.
LEMMA AcceptedOnceStep == TypeOK /\ AcceptedOnce /\ [Next]_vars => AcceptedOnce'
<1> SUFFICES ASSUME TypeOK, AcceptedOnce, [Next]_vars PROVE AcceptedOnce'
  OBVIOUS
<1> DEFINE Entry == [msg : Messages, ts : Nat]
<1>1. messages \in Seq(Entry) /\ Len(messages) \in Nat
  BY MessagesType DEF TypeOK
<1>2. CASE messages' = messages
  BY <1>2 DEF AcceptedOnce
<1>3. CASE messages' # messages
  <2>1. PICK h \in handlers : /\ h.msg \notin Accepted
                              /\ messages' = Append(messages, [msg |-> h.msg, ts |-> h.ts])
    BY <1>3, MessagesStep
  <2> DEFINE e == [msg |-> h.msg, ts |-> h.ts]
  <2>2. e \in Entry
    BY DEF TypeOK
  <2>3. /\ Len(messages') = Len(messages) + 1 /\ messages'[Len(messages) + 1] = e
        /\ \A i \in 1..Len(messages) : messages'[i] = messages[i]
    <3> HIDE DEF Entry, e
    <3>. QED  BY <1>1, <2>1, <2>2, AppendProperties DEF e
  <2>4. \A i \in 1..Len(messages) : messages[i].msg # e.msg
    BY <2>1 DEF Accepted
  <2>. QED  BY <1>1, <2>3, <2>4 DEF AcceptedOnce
<1>. QED  BY <1>2, <1>3

\* An answer names the row the server holds, and keeps naming it.
LEMMA AnswersStep == TypeOK /\ AnswersAgree /\ [Next]_vars => AnswersAgree'
<1> SUFFICES ASSUME TypeOK, AnswersAgree, [Next]_vars PROVE AnswersAgree'
  OBVIOUS
<1> DEFINE Stays(x) == /\ x.id \in 1..Len(messages') /\ messages'[x.id].msg = x.msg
                       /\ messages'[x.id].ts = x.ts
<1>1. \A x \in replies \cup acked : Stays(x)
  BY RecordedStays DEF AnswersAgree
<1> SUFFICES \A x \in replies' \cup acked' : Stays(x)
  BY DEF AnswersAgree, Recorded
<1> HIDE DEF Stays
<1>2. ASSUME NEW u \in Users, SendStep(u) PROVE replies' = replies /\ acked' = acked
  BY <1>2 DEF SendStep, Encrypt, EncryptFails, FlushStart, FlushNext, wireVars
<1>3. ASSUME NEW u \in Users, Crash(u) PROVE replies' \subseteq replies /\ acked' \subseteq acked
  BY <1>3 DEF Crash
<1>4. ASSUME CallStep PROVE \A x \in replies' \cup acked' : Stays(x)
  <2>1. ASSUME NEW c \in encrypted,
               InsertPendingSend(c) \/ PostAttachment(c) \/ InsertPendingSendFails(c)
        PROVE  replies' = replies /\ acked' = acked
    BY <2>1 DEF InsertPendingSend, PostAttachment, InsertPendingSendFails, wireVars
  <2>2. ASSUME NEW c \in posting, NEW d \in BOOLEAN, PostFails(c, d)
        PROVE  replies' \subseteq replies /\ acked' = acked
    BY <2>2 DEF PostFails
  <2>3. ASSUME NEW r \in replies, PostSucceeds(r) PROVE \A x \in replies' \cup acked' : Stays(x)
    <3> DEFINE c == [msg |-> r.msg, by |-> r.by, id |-> r.id, ts |-> r.ts, dropped |-> r.msg.text \in Attachments]
    <3>1. replies' \subseteq replies /\ acked' = acked \cup {c}
      BY <2>3 DEF PostSucceeds
    <3>2. Stays(c)
      BY <1>1 DEF Stays
    <3> HIDE DEF c
    <3>. QED  BY <1>1, <3>1, <3>2
  <2>4. ASSUME NEW c \in acked, DeletePendingSend(c) PROVE \A x \in replies' \cup acked' : Stays(x)
    <3> DEFINE d == [c EXCEPT !.dropped = TRUE]
    <3>1. replies' = replies /\ acked' \subseteq acked \cup {d}
      BY <2>4 DEF DeletePendingSend, wireVars
    <3>2. d.id = c.id /\ d.msg = c.msg /\ d.ts = c.ts
      BY DEF TypeOK
    <3>3. Stays(d)
      BY <1>1, <3>2 DEF Stays
    <3> HIDE DEF d
    <3>. QED  BY <1>1, <3>1, <3>3
  <2>5. ASSUME NEW c \in acked, StoreOwnMessage(c) \/ StoreOwnMessageFails(c)
        PROVE  replies' = replies /\ acked' \subseteq acked
    BY <2>5 DEF StoreOwnMessage, StoreOwnMessageFails, wireVars
  <2>. QED  BY <1>1, <1>4, <2>1, <2>2, <2>3, <2>4, <2>5 DEF CallStep
<1>5. ASSUME NEW c \in requests, ServerStamp(c) PROVE replies' = replies /\ acked' = acked
  BY <1>5 DEF ServerStamp, sendVars
<1>6. ASSUME NEW h \in handlers, ServerInsert(h) PROVE \A x \in replies' \cup acked' : Stays(x)
  <2> DEFINE e == [msg |-> h.msg, ts |-> h.ts]
             Entry == [msg : Messages, ts : Nat]
  <2>1. acked' = acked /\ replies' \subseteq replies \cup {Answer(h)}
    BY <1>6 DEF ServerInsert, sendVars
  <2>2. messages' = IF Held(h.msg) = {} THEN Append(messages, e) ELSE messages
    BY <1>6 DEF ServerInsert
  <2>3. messages \in Seq(Entry) /\ e \in Entry /\ Len(messages) \in Nat
    BY MessagesType DEF TypeOK
  <2>4. Stays(Answer(h))
    <3>1. CASE Held(h.msg) = {}
      <4>1. Len(messages') = Len(messages) + 1 /\ messages'[Len(messages) + 1] = e
        <5> HIDE DEF Entry, e
        <5>. QED  BY <2>2, <2>3, <3>1, AppendProperties
      <4>. QED  BY <2>3, <3>1, <4>1, AnswerType DEF Stays
    <3>2. CASE Held(h.msg) # {}
      BY <2>2, <3>2, AnswerType DEF Held, Stays
    <3>. QED  BY <3>1, <3>2
  <2>. QED  BY <1>1, <2>1, <2>4
<1>7. ASSUME NEW u \in Users, NEW k \in Fetchers, FetchStep(u, k)
      PROVE  replies' = replies /\ acked' = acked
  BY <1>7 DEF FetchStep, FetchStart, FetchAnswered, FetchFails, SkipRow, DecryptRow,
     DecryptRowUnsaved, StoreRow, StoreRowFails, FetchReturns, sendVars, wireVars
<1>8. ASSUME Tick \/ UNCHANGED vars PROVE replies' = replies /\ acked' = acked
  BY <1>8 DEF Tick, vars, sendVars, wireVars
<1>. QED  BY <1>1, <1>2, <1>3, <1>4, <1>5, <1>6, <1>7, <1>8 DEF Next, ServerStep

\* A page is a snapshot of rows that stay what they are.
LEMMA PagesStep == TypeOK /\ PagesAgree /\ [Next]_vars => PagesAgree'
<1> SUFFICES ASSUME TypeOK, PagesAgree, [Next]_vars PROVE PagesAgree'
  OBVIOUS
<1> DEFINE Stays(x) == /\ x.id \in 1..Len(messages') /\ messages'[x.id].msg = x.msg
                       /\ messages'[x.id].ts = x.ts
           InHand(x) == x.page \cup x.hand
<1>1. \A u \in Users, k \in Fetchers : \A x \in InHand(fetch[u][k]) : Stays(x)
  BY RecordedStays DEF PagesAgree
<1>2. \A x \in Rows : Stays(x)
  BY RecordedStays DEF Rows, RowOf, Recorded
<1>3. fetch \in [Users -> [Fetchers -> FetchType]]
  BY DEF TypeOK
<1> SUFFICES \A v \in Users, j \in Fetchers : \A x \in InHand(fetch'[v][j]) : Stays(x)
  BY DEF PagesAgree, Recorded
<1> HIDE DEF Stays
<1>4. CASE fetch' = fetch
  BY <1>1, <1>4
<1>5. ASSUME NEW u \in Users, NEW k \in Fetchers, FetchStep(u, k)
      PROVE  \A v \in Users, j \in Fetchers : \A x \in InHand(fetch'[v][j]) : Stays(x)
  <2>1. ASSUME NEW y, fetch' = [fetch EXCEPT ![u][k] = y], \A x \in InHand(y) : Stays(x)
        PROVE  \A v \in Users, j \in Fetchers : \A x \in InHand(fetch'[v][j]) : Stays(x)
    <3>1. \A v \in Users, j \in Fetchers : fetch'[v][j] = y \/ fetch'[v][j] = fetch[v][j]
      BY <1>3, <2>1
    <3>. QED  BY <1>1, <2>1, <3>1
  <2>2. ASSUME FetchStart(u, k)
        PROVE  \E y : fetch' = [fetch EXCEPT ![u][k] = y] /\ \A x \in InHand(y) : Stays(x)
    <3> DEFINE y(t) == [at |-> "asked", after |-> t, page |-> {}, hand |-> {},
                        existing |-> IF k = "get_messages" THEN LocalIds(u) ELSE {}]
    <3>1. PICK t \in 0..clock : fetch' = [fetch EXCEPT ![u][k] = y(t)]
      BY <2>2 DEF FetchStart
    <3>2. InHand(y(t)) = {}
      OBVIOUS
    <3> HIDE DEF y
    <3>. QED  BY <3>1, <3>2
  <2>3. ASSUME FetchAnswered(u, k)
        PROVE  \E y : fetch' = [fetch EXCEPT ![u][k] = y] /\ \A x \in InHand(y) : Stays(x)
    <3> DEFINE known == IF k = "get_messages" THEN fetch[u][k].existing ELSE LocalIds(u)
               y(page) == IF page = {} THEN IdleFetch
                          ELSE [at |-> "working", after |-> fetch[u][k].after,
                                page |-> page, hand |-> {}, existing |-> known]
    <3>1. PICK page \in SUBSET Rows : fetch' = [fetch EXCEPT ![u][k] = y(page)]
      BY <2>3 DEF FetchAnswered
    <3>2. InHand(y(page)) \subseteq Rows
      BY DEF IdleFetch
    <3> HIDE DEF y
    <3>. QED  BY <1>2, <3>1, <3>2
  <2>4. ASSUME FetchFails(u, k) \/ StoreRowFails(u, k) \/ FetchReturns(u, k)
        PROVE  \E y : fetch' = [fetch EXCEPT ![u][k] = y] /\ \A x \in InHand(y) : Stays(x)
    <3>1. fetch' = [fetch EXCEPT ![u][k] = IdleFetch]
      BY <2>4 DEF FetchFails, StoreRowFails, FetchReturns
    <3>2. InHand(IdleFetch) = {}
      BY DEF IdleFetch
    <3>. QED  BY <3>1, <3>2
  <2> DEFINE f == fetch[u][k]
  <2>5. f \in FetchType
    BY <1>3
  <2>6. ASSUME NEW r \in f.page, SkipRow(u, k, r) \/ DecryptRowUnsaved(u, k, r)
        PROVE  \E y : fetch' = [fetch EXCEPT ![u][k] = y] /\ \A x \in InHand(y) : Stays(x)
    <3>1. fetch' = [fetch EXCEPT ![u][k] = [f EXCEPT !.page = f.page \ {r}]]
      BY <1>3, <2>6 DEF SkipRow, DecryptRowUnsaved
    <3>2. InHand([f EXCEPT !.page = f.page \ {r}]) \subseteq InHand(f)
      BY <2>5 DEF FetchType
    <3>. QED  BY <1>1, <3>1, <3>2
  <2>7. ASSUME NEW r \in f.page, DecryptRow(u, k, r)
        PROVE  \E y : fetch' = [fetch EXCEPT ![u][k] = y] /\ \A x \in InHand(y) : Stays(x)
    <3>1. fetch' = [fetch EXCEPT ![u][k] = [f EXCEPT !.page = f.page \ {r}, !.hand = {r}]]
      BY <1>3, <2>7 DEF DecryptRow
    <3>2. InHand([f EXCEPT !.page = f.page \ {r}, !.hand = {r}]) \subseteq InHand(f)
      BY <2>5, <2>7 DEF FetchType
    <3>. QED  BY <1>1, <3>1, <3>2
  <2>8. ASSUME StoreRow(u, k)
        PROVE  \E y : fetch' = [fetch EXCEPT ![u][k] = y] /\ \A x \in InHand(y) : Stays(x)
    <3>1. fetch' = [fetch EXCEPT ![u][k] = [f EXCEPT !.hand = {}]]
      BY <1>3, <2>8 DEF StoreRow
    <3>2. InHand([f EXCEPT !.hand = {}]) \subseteq InHand(f)
      BY <2>5 DEF FetchType
    <3>. QED  BY <1>1, <3>1, <3>2
  <2>. QED  BY <1>5, <2>1, <2>2, <2>3, <2>4, <2>6, <2>7, <2>8 DEF FetchStep
<1>6. ASSUME NEW u \in Users, SendStep(u) PROVE fetch' = fetch
  BY <1>6 DEF SendStep, Encrypt, EncryptFails, FlushStart, FlushNext, recvVars
<1>7. ASSUME NEW u \in Users, Crash(u)
      PROVE  \A v \in Users, j \in Fetchers : \A x \in InHand(fetch'[v][j]) : Stays(x)
  <2>1. \A v \in Users, j \in Fetchers : fetch'[v][j] = IdleFetch \/ fetch'[v][j] = fetch[v][j]
    BY <1>3, <1>7 DEF Crash
  <2>. QED  BY <1>1, <2>1 DEF IdleFetch
<1>8. ASSUME CallStep PROVE fetch' = fetch
  BY <1>8 DEF CallStep, InsertPendingSend, PostAttachment, InsertPendingSendFails, PostFails, PostSucceeds,
     DeletePendingSend, StoreOwnMessage, StoreOwnMessageFails, recvVars
<1>9. ASSUME ServerStep \/ Tick \/ UNCHANGED vars PROVE fetch' = fetch
  BY <1>9 DEF ServerStep, ServerStamp, ServerInsert, Tick, vars, recvVars
<1>. QED  BY <1>4, <1>5, <1>6, <1>7, <1>8, <1>9 DEF Next

\* What a device stores is what the server recorded.
LEMMA LocalStep ==
    TypeOK /\ AnswersAgree /\ PagesAgree /\ LocalRecorded /\ [Next]_vars => LocalRecorded'
<1> SUFFICES ASSUME TypeOK, AnswersAgree, PagesAgree, LocalRecorded, [Next]_vars
    PROVE LocalRecorded'
  OBVIOUS
<1> DEFINE Stays(x) == /\ x.id \in 1..Len(messages') /\ messages'[x.id].msg = x.msg
                       /\ messages'[x.id].ts = x.ts
<1>1. \A u \in Users : \A e \in local[u] : Stays(e)
  BY RecordedStays DEF LocalRecorded
<1>2. \A c \in acked : Stays(c)
  BY RecordedStays DEF AnswersAgree
<1>3. \A u \in Users, k \in Fetchers : \A r \in fetch[u][k].hand : Stays(r)
  BY RecordedStays DEF PagesAgree
<1>4. local \in [Users -> SUBSET RowType]
  BY DEF TypeOK
<1> SUFFICES \A v \in Users : \A e \in local'[v] : Stays(e)
  BY DEF LocalRecorded, Recorded
<1>5. CASE local' = local
  BY <1>1, <1>5
<1>6. ASSUME NEW c \in acked, StoreOwnMessage(c)
      PROVE  \A v \in Users : \A e \in local'[v] : Stays(e)
  <2> DEFINE row == [id |-> c.id, ts |-> c.ts, msg |-> c.msg]
  <2>1. \A v \in Users : local'[v] \subseteq local[v] \cup {row}
    BY <1>4, <1>6 DEF StoreOwnMessage, NewRows
  <2>2. Stays(row)
    BY <1>2
  <2> HIDE DEF row, Stays
  <2>. QED  BY <1>1, <2>1, <2>2
<1>7. ASSUME NEW u \in Users, NEW k \in Fetchers, StoreRow(u, k)
      PROVE  \A v \in Users : \A e \in local'[v] : Stays(e)
  <2>1. \A v \in Users : local'[v] \subseteq local[v] \cup fetch[u][k].hand
    BY <1>4, <1>7 DEF StoreRow, NewRows
  <2> HIDE DEF Stays
  <2>. QED  BY <1>1, <1>3, <2>1
<1>8. ASSUME NEW u \in Users, SendStep(u) \/ Crash(u) PROVE local' = local
  BY <1>8 DEF SendStep, Encrypt, EncryptFails, FlushStart, FlushNext, Crash
<1>9. ASSUME CallStep, ~ \E c \in acked : StoreOwnMessage(c) PROVE local' = local
  BY <1>9 DEF CallStep, InsertPendingSend, PostAttachment, InsertPendingSendFails, PostFails, PostSucceeds,
     DeletePendingSend, StoreOwnMessageFails
<1>10. ASSUME ServerStep \/ Tick \/ UNCHANGED vars PROVE local' = local
  BY <1>10 DEF ServerStep, ServerStamp, ServerInsert, Tick, vars
<1>11. ASSUME NEW u \in Users, NEW k \in Fetchers, FetchStep(u, k), ~StoreRow(u, k)
       PROVE  local' = local
  BY <1>11 DEF FetchStep, FetchStart, FetchAnswered, FetchFails, SkipRow, DecryptRow,
     DecryptRowUnsaved, StoreRowFails, FetchReturns
<1> HIDE DEF Stays
<1>. QED  BY <1>5, <1>6, <1>7, <1>8, <1>9, <1>10, <1>11 DEF Next

\* The outbox loses only rows the server has recorded.
LEMMA OutboxShrinks ==
    ASSUME TypeOK, AnswersAgree, [Next]_vars
    PROVE  pendingSends \subseteq pendingSends' \cup Accepted
<1>1. ASSUME NEW c \in acked, DeletePendingSend(c) PROVE pendingSends \subseteq pendingSends' \cup Accepted
  <2>1. c.msg \in Accepted
    BY DEF AnswersAgree, Recorded, Accepted
  <2>. QED  BY <1>1, <2>1 DEF DeletePendingSend, OutboxRows
<1>2. ASSUME NEW u \in Users, SendStep(u) \/ Crash(u) PROVE pendingSends' = pendingSends
  BY <1>2 DEF SendStep, Encrypt, EncryptFails, FlushStart, FlushNext, Crash
<1>3. ASSUME CallStep, ~ \E c \in acked : DeletePendingSend(c)
      PROVE  pendingSends \subseteq pendingSends'
  BY <1>3 DEF CallStep, InsertPendingSend, PostAttachment, InsertPendingSendFails, PostFails, PostSucceeds,
     StoreOwnMessage, StoreOwnMessageFails
<1>4. ASSUME NEW u \in Users, NEW k \in Fetchers, FetchStep(u, k)
      PROVE  pendingSends' = pendingSends
  BY <1>4 DEF FetchStep, FetchStart, FetchAnswered, FetchFails, SkipRow, DecryptRow,
     DecryptRowUnsaved, StoreRow, StoreRowFails, FetchReturns, sendVars
<1>5. ASSUME ServerStep \/ Tick \/ UNCHANGED vars PROVE pendingSends' = pendingSends
  BY <1>5 DEF ServerStep, ServerStamp, ServerInsert, Tick, vars, sendVars
<1>. QED  BY <1>1, <1>2, <1>3, <1>4, <1>5 DEF Next

LEMMA OrphanMessages ==
    ASSUME NEW S, NEW u, NEW K, \A c \in S : [c EXCEPT !.by = "gone"].msg = c.msg
    PROVE  \A d \in Orphan(S, u, K) : \E c \in S : d.msg = c.msg
BY DEF Orphan

\* What a call or a retry list works on is in the outbox or on the server:
\* every action takes its message from one of the places the invariant covers.
LEMMA OutboxStep ==
    TypeOK /\ AnswersAgree /\ OutboxUntilAccepted /\ [Next]_vars => OutboxUntilAccepted'
<1> SUFFICES ASSUME TypeOK, AnswersAgree, OutboxUntilAccepted, [Next]_vars
    PROVE OutboxUntilAccepted'
  OBVIOUS
<1> DEFINE Covered == pendingSends \cup Accepted \cup pendingSends'
           Calls == \A c \in posting' \cup requests' \cup handlers' :
                       c.msg.text \in Attachments \/ c.msg \in Covered
           Lists == \A u \in Users, f \in Flushers : todo'[u][f] \subseteq Covered
<1>1. \A c \in posting \cup requests \cup handlers :
        c.msg.text \in Attachments \/ c.msg \in Covered
  BY DEF OutboxUntilAccepted
<1>2. \A u \in Users, f \in Flushers : todo[u][f] \subseteq Covered
  BY DEF OutboxUntilAccepted
<1>3. Covered \subseteq pendingSends' \cup Accepted'
  BY MessagesGrow, OutboxShrinks
<1>4. pendingSends \subseteq Covered /\ pendingSends' \subseteq Covered
  OBVIOUS
<1>5. todo \in [Users -> [Flushers -> SUBSET Messages]]
  BY DEF TypeOK
<1>6. \A c \in requests \cup handlers : [c EXCEPT !.by = "gone"].msg = c.msg
  BY DEF TypeOK
<1> SUFFICES Calls /\ Lists
  BY <1>3 DEF OutboxUntilAccepted
<1> HIDE DEF Covered
<1>7. ASSUME NEW u \in Users, SendStep(u) PROVE Calls /\ Lists
  <2>1. ASSUME NEW t \in Texts, NEW k \in Senders, Encrypt(u, t, k) \/ EncryptFails(u, t, k)
        PROVE  Calls /\ Lists
    BY <1>1, <1>2, <2>1 DEF Encrypt, EncryptFails, wireVars
  <2>2. ASSUME NEW f \in Flushers, FlushStart(u, f) PROVE Calls /\ Lists
    BY <1>1, <1>2, <1>4, <1>5, <2>2 DEF FlushStart, wireVars
  <2>3. ASSUME NEW f \in Flushers, FlushNext(u, f) PROVE Calls /\ Lists
    <3>1. PICK m \in todo[u][f] : /\ todo' = [todo EXCEPT ![u][f] = @ \ {m}]
                                  /\ posting' = posting \cup {[msg |-> m, by |-> f]}
                                  /\ requests' = requests \cup {[msg |-> m, by |-> f]}
      BY <2>3 DEF FlushNext
    <3>2. handlers' = handlers
      BY <2>3 DEF FlushNext
    <3>3. Lists
      BY <1>2, <1>5, <3>1
    <3>. QED  BY <1>1, <1>2, <3>1, <3>2, <3>3
  <2>. QED  BY <1>7, <2>1, <2>2, <2>3 DEF SendStep
<1>8. ASSUME NEW u \in Users, Crash(u) PROVE Calls /\ Lists
  <2>1. \A c \in requests' \cup handlers' : c.msg.text \in Attachments \/ c.msg \in Covered
    BY <1>1, <1>6, <1>8, OrphanMessages DEF Crash
  <2>2. posting' \subseteq posting
    BY <1>8 DEF Crash
  <2>3. Lists
    BY <1>2, <1>5, <1>8 DEF Crash
  <2>. QED  BY <1>1, <2>1, <2>2, <2>3
<1>9. ASSUME CallStep PROVE Calls /\ Lists
  <2>1. todo' = todo
    BY <1>9 DEF CallStep, InsertPendingSend, PostAttachment, InsertPendingSendFails, PostFails, PostSucceeds,
       DeletePendingSend, StoreOwnMessage, StoreOwnMessageFails
  <2>2. ASSUME NEW c \in encrypted, InsertPendingSend(c) \/ PostAttachment(c) PROVE Calls
    BY <1>1, <1>4, <2>2 DEF InsertPendingSend, PostAttachment
  <2>3. ASSUME NEW c \in posting, NEW d \in BOOLEAN, PostFails(c, d) PROVE Calls
    <3>1. \A x \in requests' \cup handlers' : x.msg.text \in Attachments \/ x.msg \in Covered
      BY <1>1, <1>6, <2>3, OrphanMessages DEF PostFails
    <3>2. posting' \subseteq posting
      BY <2>3 DEF PostFails
    <3>. QED  BY <1>1, <3>1, <3>2
  <2>4. ASSUME NEW r \in replies, PostSucceeds(r) PROVE Calls
    BY <1>1, <2>4 DEF PostSucceeds
  <2>5. ASSUME \/ \E c \in encrypted : InsertPendingSendFails(c)
               \/ \E c \in acked : DeletePendingSend(c) \/ StoreOwnMessage(c)
                                        \/ StoreOwnMessageFails(c)
        PROVE  Calls
    BY <1>1, <2>5 DEF InsertPendingSendFails, DeletePendingSend, StoreOwnMessage,
       StoreOwnMessageFails, wireVars
  <2>. QED  BY <1>2, <1>9, <2>1, <2>2, <2>3, <2>4, <2>5 DEF CallStep
<1>10. ASSUME ServerStep PROVE Calls /\ Lists
  <2>1. ASSUME NEW c \in requests, ServerStamp(c) PROVE Calls /\ Lists
    BY <1>1, <1>2, <2>1 DEF ServerStamp, sendVars
  <2>2. ASSUME NEW h \in handlers, ServerInsert(h) PROVE Calls /\ Lists
    <3>1. handlers' \subseteq handlers /\ requests' = requests
          /\ posting' = posting /\ todo' = todo
      BY <2>2 DEF ServerInsert, sendVars
    <3>. QED  BY <1>1, <1>2, <3>1
  <2>. QED  BY <1>10, <2>1, <2>2 DEF ServerStep
<1>11. ASSUME NEW u \in Users, NEW k \in Fetchers, FetchStep(u, k) PROVE Calls /\ Lists
  <2>1. posting' = posting /\ requests' = requests /\ handlers' = handlers /\ todo' = todo
    BY <1>11 DEF FetchStep, FetchStart, FetchAnswered, FetchFails, SkipRow, DecryptRow,
       DecryptRowUnsaved, StoreRow, StoreRowFails, FetchReturns, sendVars, wireVars
  <2>. QED  BY <1>1, <1>2, <2>1
<1>12. ASSUME Tick \/ UNCHANGED vars PROVE Calls /\ Lists
  BY <1>1, <1>2, <1>12 DEF Tick, vars, sendVars, wireVars
<1> HIDE DEF Calls, Lists
<1>. QED  BY <1>7, <1>8, <1>9, <1>10, <1>11, <1>12 DEF Next

DeliveryInv ==
    /\ TypeOK
    /\ AcceptedOnce
    /\ AnswersAgree
    /\ PagesAgree
    /\ LocalRecorded
    /\ OutboxUntilAccepted

LEMMA DeliveryInvInit == Init => DeliveryInv
<1> SUFFICES ASSUME Init PROVE DeliveryInv
  OBVIOUS
<1>1. TypeOK
  BY InitType
<1>2. Len(messages) = 0
  BY DEF Init
<1>3. AcceptedOnce /\ AnswersAgree /\ LocalRecorded /\ OutboxUntilAccepted
  BY <1>2 DEF Init, AcceptedOnce, AnswersAgree, LocalRecorded, OutboxUntilAccepted
<1>4. PagesAgree
  BY DEF Init, IdleFetch, PagesAgree
<1>. QED  BY <1>1, <1>3, <1>4 DEF DeliveryInv

\* The invariant holds in every reachable state.
THEOREM DeliveryInvariant == Spec => []DeliveryInv
<1>1. Init => DeliveryInv
  BY DeliveryInvInit
<1>2. DeliveryInv /\ [Next]_vars => DeliveryInv'
  BY TypeStep, AcceptedOnceStep, AnswersStep, PagesStep, LocalStep, OutboxStep DEF DeliveryInv
<1>. QED  BY <1>1, <1>2, PTL DEF Spec

\* However a message is posted and retried, the server holds it at most once.
THEOREM ServerHoldsOnce == Spec => []AcceptedOnce
<1>1. DeliveryInv => AcceptedOnce
  BY DEF DeliveryInv
<1>. QED  BY <1>1, DeliveryInvariant, PTL

\* No message a call or a retry works on is missing from both the outbox and
\* the server.
THEOREM OutboxCovers == Spec => []OutboxUntilAccepted
<1>1. DeliveryInv => OutboxUntilAccepted
  BY DEF DeliveryInv
<1>. QED  BY <1>1, DeliveryInvariant, PTL

\* Every row of every local table is the server's row, id, timestamp and all.
THEOREM LocalTablesAgree == Spec => []LocalAgreesWithServer
<1>1. DeliveryInv => LocalAgreesWithServer
  <2> SUFFICES ASSUME DeliveryInv, NEW u \in Users, NEW e \in local[u]
      PROVE  e.id \in 1..Len(messages) /\ e = RowOf(e.id)
    BY DEF LocalAgreesWithServer
  <2>1. e \in RowType
    BY DEF DeliveryInv, TypeOK
  <2>2. Recorded(e)
    BY DEF DeliveryInv, LocalRecorded
  <2>. QED  BY <2>1, <2>2 DEF Recorded, RowOf, RowType
<1>. QED  BY <1>1, DeliveryInvariant, PTL

\* No outbox row is deleted before the server has its message.
THEOREM DropsOnlyAccepted == Spec => DroppedOnlyIfAccepted
<1>1. DeliveryInv /\ [Next]_vars
        => [\A m \in pendingSends : m \notin pendingSends' => m \in Accepted]_vars
  BY OutboxShrinks DEF DeliveryInv
<1>. QED  BY <1>1, DeliveryInvariant, PTL DEF Spec, DroppedOnlyIfAccepted

(***************************************************************************)
(* The system implements MessageLog.                                       *)
(***************************************************************************)
\* A step adds at most one row to one local table, and then the server's
\* table stays as it is.
LEMMA LocalChange ==
    TypeOK /\ AnswersAgree /\ PagesAgree /\ [Next]_vars =>
        \/ local' = local
        \/ /\ messages' = messages
           /\ \E u \in Users : \E row \in RowType :
                 /\ Recorded(row)
                 /\ row.id \notin LocalIds(u)
                 /\ local' = [local EXCEPT ![u] = @ \cup {row}]
<1> SUFFICES ASSUME TypeOK, AnswersAgree, PagesAgree, [Next]_vars, local' # local
    PROVE /\ messages' = messages
          /\ \E u \in Users : \E row \in RowType :
                 /\ Recorded(row)
                 /\ row.id \notin LocalIds(u)
                 /\ local' = [local EXCEPT ![u] = @ \cup {row}]
  OBVIOUS
<1>1. CASE \E c \in acked : StoreOwnMessage(c)
  <2>1. PICK c \in acked : StoreOwnMessage(c)
    BY <1>1
  <2> DEFINE row == [id |-> c.id, ts |-> c.ts, msg |-> c.msg]
  <2>2. c.msg.from \in Users /\ row \in RowType
    BY MessageFields DEF TypeOK, RowType
  <2>3. Recorded(row)
    BY DEF AnswersAgree, Recorded
  <2>4. /\ row.id \notin LocalIds(c.msg.from)
        /\ local' = [local EXCEPT ![c.msg.from] = @ \cup {row}]
    <3>1. local' = [local EXCEPT ![c.msg.from] = @ \cup NewRows(c.msg.from, row)]
      BY <2>1 DEF StoreOwnMessage
    <3>2. local \in [Users -> SUBSET RowType]
      BY DEF TypeOK
    <3>3. NewRows(c.msg.from, row) # {}
      BY <3>1, <3>2
    <3> HIDE DEF row
    <3>. QED  BY <3>1, <3>3 DEF NewRows
  <2>5. messages' = messages
    BY <2>1 DEF StoreOwnMessage, serverVars
  <2>. QED  BY <2>2, <2>3, <2>4, <2>5
<1>2. CASE \E u \in Users, k \in Fetchers : StoreRow(u, k)
  <2>1. PICK u \in Users, k \in Fetchers : StoreRow(u, k)
    BY <1>2
  <2>2. PICK row \in fetch[u][k].hand :
          local' = [local EXCEPT ![u] = @ \cup NewRows(u, row)]
    BY <2>1 DEF StoreRow
  <2>3. row \in RowType /\ Recorded(row)
    BY FetchFields DEF PagesAgree
  <2>4. messages' = messages
    BY <2>1 DEF StoreRow, serverVars
  <2>5. local \in [Users -> SUBSET RowType]
    BY DEF TypeOK
  <2>6. NewRows(u, row) = {row} /\ row.id \notin LocalIds(u)
    BY <2>2, <2>5 DEF NewRows
  <2>. QED  BY <2>2, <2>3, <2>4, <2>6
<1>3. ASSUME NEW u \in Users, SendStep(u) \/ Crash(u) PROVE local' = local
  BY <1>3 DEF SendStep, Encrypt, EncryptFails, FlushStart, FlushNext, Crash
<1>4. ASSUME CallStep, ~ \E c \in acked : StoreOwnMessage(c) PROVE local' = local
  BY <1>4 DEF CallStep, InsertPendingSend, PostAttachment, InsertPendingSendFails, PostFails, PostSucceeds,
     DeletePendingSend, StoreOwnMessageFails
<1>5. ASSUME ServerStep \/ Tick \/ UNCHANGED vars PROVE local' = local
  BY <1>5 DEF ServerStep, ServerStamp, ServerInsert, Tick, vars
<1>6. ASSUME NEW u \in Users, NEW k \in Fetchers, FetchStep(u, k), ~StoreRow(u, k)
      PROVE  local' = local
  BY <1>6 DEF FetchStep, FetchStart, FetchAnswered, FetchFails, SkipRow, DecryptRow,
     DecryptRowUnsaved, StoreRowFails, FetchReturns
<1>. QED  BY <1>1, <1>2, <1>3, <1>4, <1>5, <1>6 DEF Next

\* The refinement mapping of ImplementsLog, as operators of this module.
LogNow == [i \in 1..Len(messages) |-> messages[i].msg]
ShownNow == [u \in Users |-> LocalIds(u)]

LEMMA LogType ==
    ASSUME NEW s \in Seq([msg : Messages, ts : Nat])
    PROVE  /\ [i \in 1..Len(s) |-> s[i].msg] \in Seq(Messages)
           /\ Len([i \in 1..Len(s) |-> s[i].msg]) = Len(s)
<1> DEFINE Entry == [msg : Messages, ts : Nat]
<1>1. Len(s) \in Nat /\ \A i \in 1..Len(s) : s[i] \in Entry
  <2> HIDE DEF Entry
  <2>. QED  BY ElementOfSeq, LenProperties DEF Entry
<1>. QED  BY <1>1

LEMMA AppendedSeq ==
    ASSUME NEW S, NEW s \in Seq(S), NEW t \in Seq(S), NEW e \in S, Len(t) = Len(s) + 1,
           t[Len(s) + 1] = e, \A i \in 1..Len(s) : t[i] = s[i]
    PROVE  t = Append(s, e)
<1>1. Append(s, e) \in Seq(S) /\ Len(Append(s, e)) = Len(s) + 1
  BY AppendProperties
<1>2. \A i \in 1..Len(s) + 1 : t[i] = Append(s, e)[i]
  BY AppendProperties
<1>. QED  BY <1>1, <1>2, SeqEqual

\* The devices and the server together implement the abstract log.
THEOREM Refinement == Spec => ImplementsLog
<1>1. Init => Log!Init
  <2> SUFFICES ASSUME Init PROVE Log!Init
    OBVIOUS
  <2>1. LogNow = <<>>
    BY DEF LogNow, Init
  <2>2. ShownNow = [u \in Users |-> {}]
    BY DEF ShownNow, LocalIds, Init
  <2>. QED  BY <2>1, <2>2 DEF Log!Init, LogNow, ShownNow
<1>2. DeliveryInv /\ DeliveryInv' /\ [Next]_vars => [Log!Next]_(Log!vars)
  <2> SUFFICES ASSUME DeliveryInv, DeliveryInv', [Next]_vars PROVE [Log!Next]_(Log!vars)
    OBVIOUS
  <2>1. TypeOK /\ TypeOK' /\ AnswersAgree /\ PagesAgree
    BY DEF DeliveryInv
  <2>2. CASE messages' = messages /\ local' = local
    BY <2>2 DEF Log!vars, LocalIds
  <2>3. CASE messages' = messages /\ local' # local
    <3>1. PICK u \in Users : \E row \in RowType :
                 /\ Recorded(row)
                 /\ row.id \notin LocalIds(u)
                 /\ local' = [local EXCEPT ![u] = @ \cup {row}]
      BY <2>1, <2>3, LocalChange
    <3>2. PICK row \in RowType : /\ Recorded(row)
                                 /\ row.id \notin LocalIds(u)
                                 /\ local' = [local EXCEPT ![u] = @ \cup {row}]
      BY <3>1
    <3>3. LogNow' = LogNow /\ Len(LogNow) = Len(messages)
      BY <2>1, <2>3, LogType DEF LogNow, TypeOK
    <3>4. ShownNow' = [ShownNow EXCEPT ![u] = @ \cup {row.id}]
      <4>1. local \in [Users -> SUBSET RowType]
        BY <2>1 DEF TypeOK
      <4>. QED  BY <3>2, <4>1 DEF ShownNow, LocalIds
    <3>5. row.id \in 1..Len(LogNow) \ ShownNow[u]
      BY <3>2, <3>3 DEF Recorded, ShownNow
    <3>6. Log!Show(u, row.id)
      BY <3>3, <3>4, <3>5 DEF Log!Show, LogNow, ShownNow
    <3>7. row.id \in 1..Len(LogNow)
      BY <3>5
    <3>. QED  BY <3>6, <3>7 DEF Log!Next, LogNow
  <2>4. CASE messages' # messages
    <3>1. local' = local
      BY <2>1, <2>4, LocalChange
    <3>2. PICK h \in handlers : /\ h.msg \notin Accepted
                                /\ messages' = Append(messages, [msg |-> h.msg, ts |-> h.ts])
      BY <2>1, <2>4, MessagesStep
    <3>3. h.msg \in Messages
      BY <2>1 DEF TypeOK
    <3>4. LogNow' = Append(LogNow, h.msg)
      <4> DEFINE Entry == [msg : Messages, ts : Nat]
                 e == [msg |-> h.msg, ts |-> h.ts]
      <4>1. messages \in Seq(Entry) /\ e \in Entry
        BY <2>1 DEF TypeOK
      <4>2. /\ Len(messages') = Len(messages) + 1 /\ messages'[Len(messages) + 1] = e
            /\ \A i \in 1..Len(messages) : messages'[i] = messages[i]
        <5> HIDE DEF Entry, e
        <5>. QED  BY <3>2, <4>1, AppendProperties DEF e
      <4>3. LogNow \in Seq(Messages) /\ LogNow' \in Seq(Messages)
            /\ Len(LogNow) = Len(messages) /\ Len(LogNow') = Len(messages')
        BY <2>1, LogType DEF LogNow, TypeOK
      <4>4. Len(messages) \in Nat
        BY <2>1, MessagesType
      <4>5. /\ LogNow'[Len(messages) + 1] = h.msg
            /\ \A i \in 1..Len(messages) : LogNow'[i] = LogNow[i]
        BY <4>2, <4>4 DEF LogNow
      <4>. QED  BY <3>3, <4>2, <4>3, <4>5, AppendedSeq
    <3>5. h.msg \notin {LogNow[i] : i \in 1..Len(LogNow)}
      BY <2>1, <3>2, LogType DEF Accepted, LogNow, TypeOK
    <3>6. ShownNow' = ShownNow
      BY <3>1 DEF ShownNow, LocalIds
    <3>7. Log!Accept(h.msg)
      BY <3>4, <3>5, <3>6 DEF Log!Accept, Log!Accepted, LogNow, ShownNow
    <3>. QED  BY <3>3, <3>7 DEF Log!Next
  <2>. QED  BY <2>2, <2>3, <2>4
<1>. QED  BY <1>1, <1>2, DeliveryInvariant, PTL DEF Spec, ImplementsLog, Log!Spec

\* A message the server did not hold before is that of the handler at work.
LEMMA InsertedMessage ==
    ASSUME TypeOK, [Next]_vars, NEW m \in Accepted', m \notin Accepted
    PROVE  \E h \in handlers : ServerInsert(h) /\ m = h.msg
<1> DEFINE Entry == [msg : Messages, ts : Nat]
<1>1. PICK h \in handlers : ServerInsert(h)
  <2>1. messages' # messages
    BY DEF Accepted
  <2>. QED  BY <2>1, InsertOnly
<1>2. CASE Held(h.msg) # {}
  BY <1>1, <1>2 DEF ServerInsert, Accepted
<1>3. CASE Held(h.msg) = {}
  <2> DEFINE e == [msg |-> h.msg, ts |-> h.ts]
  <2>1. messages \in Seq(Entry) /\ e \in Entry /\ Len(messages) \in Nat
    BY MessagesType DEF TypeOK
  <2>2. messages' = Append(messages, e)
    BY <1>1, <1>3 DEF ServerInsert
  <2>3. /\ Len(messages') = Len(messages) + 1 /\ messages'[Len(messages) + 1] = e
        /\ \A i \in 1..Len(messages) : messages'[i] = messages[i]
    <3> HIDE DEF Entry, e
    <3>. QED  BY <2>1, <2>2, AppendProperties
  <2>4. Accepted' \subseteq Accepted \cup {h.msg}
    BY <2>1, <2>3 DEF Accepted
  <2>. QED  BY <1>1, <2>4
<1>. QED  BY <1>2, <1>3

(***************************************************************************)
(* Generations.  A new message is encrypted under gen[u] + 1, and a crash  *)
(* sets gen back to savedGen: a message is let out of encrypt_message only *)
(* with its generation on disk.                                            *)
(***************************************************************************)
\* Every message that exists and can still become an outbox row, a POST or a
\* row of the server.
InUse ==
    pendingSends \cup Accepted \cup {c.msg : c \in encrypted \cup requests \cup handlers}
        \cup UNION {todo[u][f] : u \in Users, f \in Flushers}

GensSaved ==
    /\ \A u \in Users : savedGen[u] <= gen[u]
    /\ \A m \in InUse : m.gen <= savedGen[m.from]

LEMMA InUseType ==
    ASSUME TypeOK, NEW m \in InUse
    PROVE  m.from \in Users /\ m.gen \in Nat
<1>1. Accepted \subseteq Messages
  BY MessagesType DEF Accepted
<1>2. m \in Messages
  BY <1>1 DEF InUse, TypeOK
<1>3. \A x \in Users : 1..MaxSends[x] \subseteq Nat
  BY DeliveryAssumption
<1>. QED  BY <1>2, <1>3 DEF Messages

\* Only encryption adds a call after encrypt_message.
LEMMA EncryptedGrows ==
    ASSUME [Next]_vars, NEW c \in encrypted' \ encrypted
    PROVE  \E u \in Users, t \in Texts, k \in Senders : Encrypt(u, t, k)
<1>1. ASSUME NEW u \in Users, NEW t \in Texts, NEW k \in Senders, EncryptFails(u, t, k) PROVE FALSE
  BY <1>1 DEF EncryptFails
<1>2. ASSUME NEW u \in Users, NEW f \in Flushers, FlushStart(u, f) \/ FlushNext(u, f) PROVE FALSE
  BY <1>2 DEF FlushStart, FlushNext
<1>3. ASSUME NEW u \in Users, Crash(u) PROVE FALSE
  BY <1>3 DEF Crash
<1>4. ASSUME CallStep PROVE FALSE
  BY <1>4 DEF CallStep, InsertPendingSend, PostAttachment, InsertPendingSendFails, PostFails, PostSucceeds,
     DeletePendingSend, StoreOwnMessage, StoreOwnMessageFails
<1>5. ASSUME NEW u \in Users, NEW k \in Fetchers, FetchStep(u, k) PROVE FALSE
  BY <1>5 DEF FetchStep, FetchStart, FetchAnswered, FetchFails, SkipRow, DecryptRow,
     DecryptRowUnsaved, StoreRow, StoreRowFails, FetchReturns, sendVars
<1>6. ASSUME ServerStep \/ Tick \/ UNCHANGED vars PROVE FALSE
  BY <1>6 DEF ServerStep, ServerStamp, ServerInsert, Tick, vars, sendVars
<1>. QED  BY <1>1, <1>2, <1>3, <1>4, <1>5, <1>6 DEF Next, SendStep

\* The messages in a device's hands are the ones named below; only encryption
\* makes a new one.
LEMMA InUseStep ==
    ASSUME TypeOK, AnswersAgree, [Next]_vars
    PROVE  \A m \in InUse' :
              \/ m \in InUse
              \/ \E u \in Users, t \in Texts, k \in Senders :
                    Encrypt(u, t, k) /\ m = [from |-> u, gen |-> gen[u] + 1, text |-> t]
<1> DEFINE Calls == encrypted \cup requests \cup handlers
           Good(m) == m \in InUse
           Goods == /\ \A m \in pendingSends' : Good(m)
                    /\ \A c \in encrypted' : Good(c.msg)
                    /\ \A c \in requests' \cup handlers' : Good(c.msg)
                    /\ \A v \in Users, f \in Flushers : \A m \in todo'[v][f] : Good(m)
<1>1. \A m \in pendingSends \cup Accepted : Good(m)
  BY DEF InUse
<1>2. \A c \in Calls : Good(c.msg)
  BY DEF InUse
<1>3. \A v \in Users, f \in Flushers : \A m \in todo[v][f] : Good(m)
  BY DEF InUse
<1>4. todo \in [Users -> [Flushers -> SUBSET Messages]]
  BY DEF TypeOK
<1>5. \A c \in requests \cup handlers : [c EXCEPT !.by = "gone"].msg = c.msg
  BY DEF TypeOK
<1>6. \A m \in Accepted' : Good(m)
  <2> SUFFICES ASSUME NEW m \in Accepted' PROVE Good(m)
    OBVIOUS
  <2>1. CASE m \in Accepted
    BY <1>1, <2>1
  <2>2. CASE m \notin Accepted
    BY <1>2, <2>2, InsertedMessage
  <2>. QED  BY <2>1, <2>2
<1> HIDE DEF Good
<1>7. ASSUME Goods PROVE \A m \in InUse' : Good(m)
  BY <1>6, <1>7 DEF InUse
<1>8. ASSUME NEW u \in Users, SendStep(u)
      PROVE  \/ Goods
             \/ \E t \in Texts, k \in Senders :
                  /\ Encrypt(u, t, k)
                  /\ \A m \in InUse' : Good(m) \/ m = [from |-> u, gen |-> gen[u] + 1, text |-> t]
  <2>1. ASSUME NEW t \in Texts, NEW k \in Senders, Encrypt(u, t, k)
        PROVE  \A m \in InUse' : Good(m) \/ m = [from |-> u, gen |-> gen[u] + 1, text |-> t]
    <3> DEFINE new == [from |-> u, gen |-> gen[u] + 1, text |-> t]
    <3>1. /\ encrypted' = encrypted \cup {[msg |-> new, by |-> k]}
          /\ pendingSends' = pendingSends /\ todo' = todo
          /\ requests' = requests /\ handlers' = handlers
      BY <2>1 DEF Encrypt, wireVars
    <3>2. \A c \in encrypted' : Good(c.msg) \/ c.msg = new
      <4> HIDE DEF new
      <4>. QED  BY <1>2, <3>1
    <3> HIDE DEF new
    <3>3. \A m \in InUse' : Good(m) \/ m = new
      BY <1>1, <1>2, <1>3, <1>6, <3>1, <3>2 DEF InUse
    <3>. QED  BY <3>3 DEF new
  <2>2. ASSUME NEW t \in Texts, NEW k \in Senders, EncryptFails(u, t, k) PROVE Goods
    BY <1>1, <1>2, <1>3, <2>2 DEF EncryptFails, wireVars
  <2>3. ASSUME NEW f \in Flushers, FlushStart(u, f) PROVE Goods
    BY <1>1, <1>2, <1>3, <1>4, <2>3 DEF FlushStart, wireVars
  <2>4. ASSUME NEW f \in Flushers, FlushNext(u, f) PROVE Goods
    <3>1. PICK m \in todo[u][f] : /\ todo' = [todo EXCEPT ![u][f] = @ \ {m}]
                                  /\ requests' = requests \cup {[msg |-> m, by |-> f]}
      BY <2>4 DEF FlushNext
    <3>2. handlers' = handlers /\ pendingSends' = pendingSends /\ encrypted' = encrypted
      BY <2>4 DEF FlushNext
    <3>3. \A v \in Users, g \in Flushers : todo'[v][g] \subseteq todo[v][g]
      BY <1>4, <3>1
    <3>. QED  BY <1>1, <1>2, <1>3, <3>1, <3>2, <3>3
  <2> HIDE DEF Goods
  <2>. QED  BY <1>8, <2>1, <2>2, <2>3, <2>4 DEF SendStep
<1>9. ASSUME NEW u \in Users, Crash(u) PROVE Goods
  <2>1. \A c \in requests' \cup handlers' : Good(c.msg)
    BY <1>2, <1>5, <1>9, OrphanMessages DEF Crash
  <2>2. encrypted' \subseteq encrypted /\ pendingSends' = pendingSends
    BY <1>9 DEF Crash
  <2>3. \A v \in Users, f \in Flushers : todo'[v][f] \subseteq todo[v][f]
    BY <1>4, <1>9 DEF Crash
  <2>. QED  BY <1>1, <1>2, <1>3, <2>1, <2>2, <2>3
<1>10. ASSUME CallStep PROVE Goods
  <2>1. todo' = todo
    BY <1>10 DEF CallStep, InsertPendingSend, PostAttachment, InsertPendingSendFails, PostFails, PostSucceeds,
       DeletePendingSend, StoreOwnMessage, StoreOwnMessageFails
  <2>2. ASSUME NEW c \in encrypted,
               InsertPendingSend(c) \/ PostAttachment(c) \/ InsertPendingSendFails(c)
        PROVE  Goods
    BY <1>1, <1>2, <1>3, <2>1, <2>2
       DEF InsertPendingSend, PostAttachment, InsertPendingSendFails, wireVars
  <2>3. ASSUME NEW c \in posting, NEW d \in BOOLEAN, PostFails(c, d) PROVE Goods
    <3>1. \A x \in requests' \cup handlers' : Good(x.msg)
      BY <1>2, <1>5, <2>3, OrphanMessages DEF PostFails
    <3>2. encrypted' = encrypted /\ pendingSends' = pendingSends
      BY <2>3 DEF PostFails
    <3>. QED  BY <1>1, <1>2, <1>3, <2>1, <3>1, <3>2
  <2>4. ASSUME NEW r \in replies, PostSucceeds(r) PROVE Goods
    BY <1>1, <1>2, <1>3, <2>1, <2>4 DEF PostSucceeds
  <2>5. ASSUME NEW c \in acked,
               DeletePendingSend(c) \/ StoreOwnMessage(c) \/ StoreOwnMessageFails(c)
        PROVE  Goods
    BY <1>1, <1>2, <1>3, <2>1, <2>5 DEF DeletePendingSend, StoreOwnMessage, StoreOwnMessageFails, wireVars
  <2> HIDE DEF Goods
  <2>. QED  BY <1>10, <2>2, <2>3, <2>4, <2>5 DEF CallStep
<1>11. ASSUME NEW c \in requests, ServerStamp(c) PROVE Goods
  BY <1>1, <1>2, <1>3, <1>11 DEF ServerStamp, sendVars
<1>12. ASSUME NEW h \in handlers, ServerInsert(h) PROVE Goods
  <2>1. handlers' \subseteq handlers /\ requests' = requests /\ encrypted' = encrypted
        /\ pendingSends' = pendingSends /\ todo' = todo
    BY <1>12 DEF ServerInsert, sendVars
  <2>. QED  BY <1>1, <1>2, <1>3, <2>1
<1>13. ASSUME NEW u \in Users, NEW k \in Fetchers, FetchStep(u, k) PROVE Goods
  <2>1. /\ encrypted' = encrypted /\ requests' = requests /\ handlers' = handlers
        /\ pendingSends' = pendingSends /\ todo' = todo
    BY <1>13 DEF FetchStep, FetchStart, FetchAnswered, FetchFails, SkipRow, DecryptRow,
       DecryptRowUnsaved, StoreRow, StoreRowFails, FetchReturns, sendVars, wireVars
  <2>. QED  BY <1>1, <1>2, <1>3, <2>1
<1>14. ASSUME Tick \/ UNCHANGED vars PROVE Goods
  BY <1>1, <1>2, <1>3, <1>14 DEF Tick, vars, sendVars, wireVars
<1> HIDE DEF Goods
<1>15. \/ \A m \in InUse' : Good(m)
       \/ \E u \in Users, t \in Texts, k \in Senders :
             /\ Encrypt(u, t, k)
             /\ \A m \in InUse' : Good(m) \/ m = [from |-> u, gen |-> gen[u] + 1, text |-> t]
  BY <1>7, <1>8, <1>9, <1>10, <1>11, <1>12, <1>13, <1>14 DEF Next, ServerStep
<1>. QED  BY <1>15 DEF Good

\* What is on disk never falls, and a restart goes back to it.
LEMMA SavedGenStep ==
    ASSUME TypeOK, GensSaved, [Next]_vars
    PROVE  \A u \in Users : savedGen[u] <= savedGen'[u] /\ savedGen'[u] <= gen'[u]
<1>1. \A u \in Users : gen[u] \in Nat /\ savedGen[u] \in Nat /\ savedGen[u] <= gen[u]
  BY DEF TypeOK, GensSaved
<1>2. gen \in [Users -> Nat] /\ savedGen \in [Users -> Nat]
  BY DEF TypeOK
<1>3. ASSUME NEW u \in Users, NEW t \in Texts, NEW k \in Senders, Encrypt(u, t, k)
      PROVE  \A v \in Users : savedGen[v] <= savedGen'[v] /\ savedGen'[v] <= gen'[v]
  BY <1>1, <1>2, <1>3 DEF Encrypt, SaveState
<1>4. ASSUME NEW u \in Users, NEW t \in Texts, NEW k \in Senders, EncryptFails(u, t, k)
      PROVE  \A v \in Users : savedGen[v] <= savedGen'[v] /\ savedGen'[v] <= gen'[v]
  BY <1>1, <1>2, <1>4 DEF EncryptFails
<1>5. ASSUME NEW u \in Users, NEW k \in Fetchers, NEW r \in fetch[u][k].page, DecryptRow(u, k, r)
      PROVE  \A v \in Users : savedGen[v] <= savedGen'[v] /\ savedGen'[v] <= gen'[v]
  BY <1>1, <1>2, <1>5 DEF DecryptRow, SaveState
<1>6. ASSUME NEW u \in Users, Crash(u)
      PROVE  \A v \in Users : savedGen[v] <= savedGen'[v] /\ savedGen'[v] <= gen'[v]
  BY <1>1, <1>2, <1>6 DEF Crash
<1>7. CASE UNCHANGED <<gen, savedGen>>
  BY <1>1, <1>7
<1>8. ASSUME NEW u \in Users, NEW f \in Flushers, FlushStart(u, f) \/ FlushNext(u, f)
      PROVE  UNCHANGED <<gen, savedGen>>
  BY <1>8 DEF FlushStart, FlushNext
<1>9. ASSUME CallStep PROVE UNCHANGED <<gen, savedGen>>
  BY <1>9 DEF CallStep, InsertPendingSend, PostAttachment, InsertPendingSendFails, PostFails, PostSucceeds,
     DeletePendingSend, StoreOwnMessage, StoreOwnMessageFails
<1>10. ASSUME ServerStep \/ Tick \/ UNCHANGED vars PROVE UNCHANGED <<gen, savedGen>>
  BY <1>10 DEF ServerStep, ServerStamp, ServerInsert, Tick, vars, sendVars
<1>11. ASSUME NEW u \in Users, NEW k \in Fetchers, FetchStep(u, k),
              ~ \E r \in fetch[u][k].page : DecryptRow(u, k, r)
       PROVE  UNCHANGED <<gen, savedGen>>
  BY <1>11 DEF FetchStep, FetchStart, FetchAnswered, FetchFails, SkipRow,
     DecryptRowUnsaved, StoreRow, StoreRowFails, FetchReturns, sendVars
<1>. QED  BY <1>3, <1>4, <1>5, <1>6, <1>7, <1>8, <1>9, <1>10, <1>11 DEF Next, SendStep

LEMMA GensStep == TypeOK /\ AnswersAgree /\ GensSaved /\ [Next]_vars => GensSaved'
<1> SUFFICES ASSUME TypeOK, AnswersAgree, GensSaved, [Next]_vars PROVE GensSaved'
  OBVIOUS
<1>1. \A u \in Users : /\ savedGen[u] \in Nat /\ savedGen'[u] \in Nat
                       /\ savedGen[u] <= savedGen'[u] /\ savedGen'[u] <= gen'[u]
  BY SavedGenStep, TypeStep DEF TypeOK
<1>2. ASSUME NEW m \in InUse' PROVE m.gen <= savedGen'[m.from]
  <2>1. CASE m \in InUse
    <3>1. m.from \in Users /\ m.gen \in Nat /\ m.gen <= savedGen[m.from]
      BY <2>1, InUseType DEF GensSaved
    <3>. QED  BY <1>1, <3>1
  <2>2. ASSUME NEW u \in Users, NEW t \in Texts, NEW k \in Senders, Encrypt(u, t, k),
               m = [from |-> u, gen |-> gen[u] + 1, text |-> t]
        PROVE  m.gen <= savedGen'[m.from]
    <3>1. savedGen'[u] = gen[u] + 1
      BY <2>2 DEF Encrypt, SaveState, TypeOK
    <3>2. gen[u] \in Nat
      BY DEF TypeOK
    <3>. QED  BY <2>2, <3>1, <3>2
  <2>. QED  BY <2>1, <2>2, InUseStep
<1>. QED  BY <1>1, <1>2 DEF GensSaved

\* A generation is encrypted under once, across failed saves and restarts: a
\* new message gets the one after everything encrypt_message ever let out.
THEOREM GenerationsFresh == Spec => FreshGenerations
<1>1. DeliveryInv /\ GensSaved /\ [Next]_vars => GensSaved'
  BY GensStep DEF DeliveryInv
<1>2. Init => GensSaved
  <2> SUFFICES ASSUME Init PROVE GensSaved
    OBVIOUS
  <2>1. Accepted = {} /\ InUse = {}
    BY DEF Init, Accepted, InUse
  <2>. QED  BY <2>1 DEF Init, GensSaved
<1>3. DeliveryInv /\ GensSaved /\ [Next]_vars
        => [\A c \in encrypted' \ encrypted :
             \A m \in pendingSends \cup Accepted \cup {d.msg : d \in encrypted \cup requests} :
               m.from = c.msg.from => m.gen # c.msg.gen]_vars
  <2> SUFFICES ASSUME DeliveryInv, GensSaved, [Next]_vars, NEW c \in encrypted' \ encrypted,
                      NEW m \in pendingSends \cup Accepted \cup {d.msg : d \in encrypted \cup requests},
                      m.from = c.msg.from
      PROVE  m.gen # c.msg.gen
    OBVIOUS
  <2>1. TypeOK /\ m \in InUse
    BY DEF DeliveryInv, InUse
  <2>2. PICK u \in Users, t \in Texts, k \in Senders : Encrypt(u, t, k)
    BY EncryptedGrows
  <2>3. c = [msg |-> [from |-> u, gen |-> gen[u] + 1, text |-> t], by |-> k]
    BY <2>2 DEF Encrypt
  <2>4. m.gen \in Nat /\ gen[u] \in Nat /\ savedGen[u] \in Nat
    BY <2>1, InUseType DEF TypeOK
  <2>5. m.gen <= savedGen[u] /\ savedGen[u] <= gen[u]
    BY <2>1, <2>3 DEF GensSaved
  <2>. QED  BY <2>3, <2>4, <2>5
<1>. QED  BY <1>1, <1>2, <1>3, DeliveryInvariant, PTL DEF Spec, FreshGenerations

(***************************************************************************)
(* Calls.  As long as nothing fails, what is on the wire has a call that   *)
(* waits for it, and each call one request, handler or answer.             *)
(***************************************************************************)
SameThread(c, d) == c.msg.from = d.msg.from /\ c.by = d.by
CallOf(x) == [msg |-> x.msg, by |-> x.by]

OneCall ==
    /\ \A c \in encrypted : /\ \A d \in encrypted : SameThread(c, d) => c = d
                            /\ \A d \in posting : ~SameThread(c, d)
    /\ \A u \in Users, f \in Flushers : \A m \in todo[u][f] : m.from = u

Awaited == \A x \in requests \cup handlers \cup replies : CallOf(x) \in posting

OneOnTheWire ==
    /\ \A x \in requests, y \in handlers \cup replies : CallOf(x) # CallOf(y)
    /\ \A x \in handlers, y \in replies : CallOf(x) # CallOf(y)
    /\ \A x, y \in handlers : CallOf(x) = CallOf(y) => x = y
    /\ \A x, y \in replies : CallOf(x) = CallOf(y) => x = y

\* An accepted message is where its sender's own copy is or will come from.
Kept(m) == \/ m \in pendingSends
           \/ \E e \in local[m.from] : e.msg = m
           \/ \E c \in posting \cup acked : c.msg = m

CallsInv ==
    /\ OneCall
    /\ faults = 0 => Awaited /\ OneOnTheWire /\ \A m \in Accepted : Kept(m)

\* Faults are only counted up.
LEMMA FaultsGrow ==
    ASSUME TypeOK, [Next]_vars
    PROVE  faults' \in Nat /\ faults <= faults' /\ (faults' = 0 => faults = 0)
<1>1. faults' = faults \/ Fault
  <2>1. ASSUME NEW u \in Users, SendStep(u) \/ Crash(u) PROVE faults' = faults \/ Fault
    BY <2>1 DEF SendStep, Encrypt, EncryptFails, FlushStart, FlushNext, Crash
  <2>2. ASSUME CallStep PROVE faults' = faults \/ Fault
    BY <2>2 DEF CallStep, InsertPendingSend, PostAttachment, InsertPendingSendFails, PostFails, PostSucceeds,
       DeletePendingSend, StoreOwnMessage, StoreOwnMessageFails
  <2>3. ASSUME NEW u \in Users, NEW k \in Fetchers, FetchStep(u, k) PROVE faults' = faults \/ Fault
    BY <2>3 DEF FetchStep, FetchStart, FetchAnswered, FetchFails, SkipRow, DecryptRow,
       DecryptRowUnsaved, StoreRow, StoreRowFails, FetchReturns
  <2>4. ASSUME ServerStep \/ Tick \/ UNCHANGED vars PROVE faults' = faults
    BY <2>4 DEF ServerStep, ServerStamp, ServerInsert, Tick, vars
  <2>. QED  BY <2>1, <2>2, <2>3, <2>4 DEF Next
<1>2. faults \in Nat
  BY DEF TypeOK
<1>. QED  BY <1>1, <1>2 DEF Fault

LEMMA OneCallStep == TypeOK /\ OneCall /\ [Next]_vars => OneCall'
<1> SUFFICES ASSUME TypeOK, OneCall, [Next]_vars PROVE OneCall'
  OBVIOUS
<1> DEFINE Calls == \A c \in encrypted' : /\ \A d \in encrypted' : SameThread(c, d) => c = d
                                          /\ \A d \in posting' : ~SameThread(c, d)
           Lists == \A u \in Users, f \in Flushers : \A m \in todo'[u][f] : m.from = u
<1> SUFFICES Calls /\ Lists
  BY DEF OneCall, SameThread
<1>1. todo \in [Users -> [Flushers -> SUBSET Messages]]
  BY DEF TypeOK
<1>2. ASSUME encrypted' \subseteq encrypted, posting' \subseteq posting PROVE Calls
  BY <1>2 DEF OneCall
<1>3. ASSUME todo' = todo PROVE Lists
  BY <1>3 DEF OneCall
<1>4. ASSUME NEW u \in Users, NEW t \in Texts, NEW k \in Senders, Encrypt(u, t, k) PROVE Calls
  <2> DEFINE new == [msg |-> [from |-> u, gen |-> gen[u] + 1, text |-> t], by |-> k]
  <2>1. encrypted' = encrypted \cup {new} /\ posting' = posting
    BY <1>4 DEF Encrypt
  <2>2. \A c \in encrypted \cup posting : ~SameThread(c, new) /\ ~SameThread(new, c)
    BY <1>4 DEF Encrypt, Busy, SameThread
  <2> HIDE DEF new
  <2>. QED  BY <2>1, <2>2 DEF OneCall
<1>5. ASSUME NEW u \in Users, NEW t \in Texts, NEW k \in Senders, EncryptFails(u, t, k) PROVE Calls
  BY <1>2, <1>5 DEF EncryptFails
<1>6. ASSUME NEW u \in Users, NEW f \in Flushers, FlushStart(u, f) PROVE Calls /\ Lists
  <2>1. Calls
    BY <1>2, <1>6 DEF FlushStart
  <2>2. Lists
    BY <1>1, <1>6 DEF FlushStart, OneCall
  <2>. QED  BY <2>1, <2>2
<1>7. ASSUME NEW u \in Users, NEW f \in Flushers, FlushNext(u, f) PROVE Calls /\ Lists
  <2>1. PICK m \in todo[u][f] : /\ todo' = [todo EXCEPT ![u][f] = @ \ {m}]
                                /\ posting' = posting \cup {[msg |-> m, by |-> f]}
    BY <1>7 DEF FlushNext
  <2>2. encrypted' = encrypted
    BY <1>7 DEF FlushNext
  <2>3. m.from = u
    BY DEF OneCall
  <2>4. \A c \in encrypted : ~SameThread(c, [msg |-> m, by |-> f])
    BY <1>7, <2>3 DEF FlushNext, Busy, SameThread
  <2>5. Calls
    BY <2>1, <2>2, <2>4 DEF OneCall
  <2>6. Lists
    BY <1>1, <2>1 DEF OneCall
  <2>. QED  BY <2>5, <2>6
<1>8. ASSUME NEW u \in Users, Crash(u) PROVE Calls /\ Lists
  <2>1. Calls
    BY <1>2, <1>8 DEF Crash
  <2>2. Lists
    BY <1>1, <1>8 DEF Crash, OneCall
  <2>. QED  BY <2>1, <2>2
<1>9. ASSUME CallStep PROVE Calls /\ Lists
  <2>1. todo' = todo
    BY <1>9 DEF CallStep, InsertPendingSend, PostAttachment, InsertPendingSendFails, PostFails, PostSucceeds,
       DeletePendingSend, StoreOwnMessage, StoreOwnMessageFails
  <2>2. ASSUME NEW c \in encrypted, InsertPendingSend(c) \/ PostAttachment(c) PROVE Calls
    <3>1. encrypted' = encrypted \ {c} /\ posting' = posting \cup {c}
      BY <2>2 DEF InsertPendingSend, PostAttachment
    <3>2. \A d \in encrypted' : ~SameThread(d, c)
      BY <3>1 DEF OneCall
    <3>. QED  BY <3>1, <3>2 DEF OneCall
  <2>3. ASSUME ~ \E c \in encrypted : InsertPendingSend(c) \/ PostAttachment(c) PROVE Calls
    <3>1. encrypted' \subseteq encrypted /\ posting' \subseteq posting
      BY <1>9, <2>3 DEF CallStep, InsertPendingSendFails, PostFails, PostSucceeds,
         DeletePendingSend, StoreOwnMessage, StoreOwnMessageFails
    <3>. QED  BY <1>2, <3>1
  <2>. QED  BY <1>3, <2>1, <2>2, <2>3
<1>10. ASSUME ServerStep \/ Tick \/ UNCHANGED vars PROVE Calls /\ Lists
  <2>1. UNCHANGED <<encrypted, posting, todo>>
    BY <1>10 DEF ServerStep, ServerStamp, ServerInsert, Tick, vars, sendVars
  <2>. QED  BY <1>2, <1>3, <2>1
<1>11. ASSUME NEW u \in Users, NEW k \in Fetchers, FetchStep(u, k) PROVE Calls /\ Lists
  <2>1. UNCHANGED <<encrypted, posting, todo>>
    BY <1>11 DEF FetchStep, FetchStart, FetchAnswered, FetchFails, SkipRow, DecryptRow,
       DecryptRowUnsaved, StoreRow, StoreRowFails, FetchReturns, sendVars
  <2>. QED  BY <1>2, <1>3, <2>1
<1>12. ASSUME NEW u \in Users, NEW t \in Texts, NEW k \in Senders,
              Encrypt(u, t, k) \/ EncryptFails(u, t, k)
       PROVE  todo' = todo
  BY <1>12 DEF Encrypt, EncryptFails
<1> HIDE DEF Calls, Lists
<1>. QED  BY <1>3, <1>4, <1>5, <1>6, <1>7, <1>8, <1>9, <1>10, <1>11, <1>12 DEF Next, SendStep

\* Nothing fails in a step after which nothing has failed.
LEMMA NoFault == ASSUME TypeOK, faults' = 0 PROVE ~Fault
BY DEF TypeOK, Fault

\* A fetch leaves calls and the wire alone.
LEMMA FetchLeavesCalls ==
    ASSUME NEW u \in Users, NEW k \in Fetchers, FetchStep(u, k)
    PROVE  UNCHANGED <<posting, acked, pendingSends, requests, handlers, replies, messages>>
BY DEF FetchStep, FetchStart, FetchAnswered, FetchFails, SkipRow, DecryptRow,
   DecryptRowUnsaved, StoreRow, StoreRowFails, FetchReturns, sendVars, wireVars, serverVars

LEMMA WireStep ==
    TypeOK /\ OneCall /\ Awaited /\ OneOnTheWire /\ [Next]_vars /\ faults' = 0
        => Awaited' /\ OneOnTheWire'
<1> SUFFICES ASSUME TypeOK, OneCall, Awaited, OneOnTheWire, [Next]_vars, faults' = 0
    PROVE  Awaited' /\ OneOnTheWire'
  OBVIOUS
<1>1. \A x \in requests : CallOf(x) = x
  BY DEF TypeOK, CallOf
<1>2. ASSUME UNCHANGED <<posting, requests, handlers, replies>> PROVE Awaited' /\ OneOnTheWire'
  BY <1>2 DEF Awaited, OneOnTheWire, CallOf
<1>3. ASSUME NEW c, c \notin posting, CallOf(c) = c,
             posting' = posting \cup {c}, requests' = requests \cup {c},
             handlers' = handlers, replies' = replies
      PROVE  Awaited' /\ OneOnTheWire'
  <2>1. \A x \in requests \cup handlers \cup replies : CallOf(x) # c
    BY <1>3 DEF Awaited
  <2>2. Awaited'
    BY <1>3 DEF Awaited, CallOf
  <2>3. OneOnTheWire'
    BY <1>3, <2>1 DEF OneOnTheWire, CallOf
  <2>. QED  BY <2>2, <2>3
<1>4. ASSUME NEW u \in Users, SendStep(u) PROVE Awaited' /\ OneOnTheWire'
  <2>1. ASSUME NEW t \in Texts, NEW k \in Senders, Encrypt(u, t, k) \/ EncryptFails(u, t, k)
        PROVE  UNCHANGED <<posting, requests, handlers, replies>>
    BY <2>1 DEF Encrypt, EncryptFails, wireVars
  <2>2. ASSUME NEW f \in Flushers, FlushStart(u, f)
        PROVE  UNCHANGED <<posting, requests, handlers, replies>>
    BY <2>2 DEF FlushStart, wireVars
  <2>3. ASSUME NEW f \in Flushers, FlushNext(u, f) PROVE Awaited' /\ OneOnTheWire'
    <3>1. PICK m \in todo[u][f] : /\ posting' = posting \cup {[msg |-> m, by |-> f]}
                                  /\ requests' = requests \cup {[msg |-> m, by |-> f]}
      BY <2>3 DEF FlushNext
    <3>2. handlers' = handlers /\ replies' = replies
      BY <2>3 DEF FlushNext
    <3>3. m.from = u
      BY DEF OneCall
    <3>4. [msg |-> m, by |-> f] \notin posting
      BY <2>3, <3>3 DEF FlushNext, Busy
    <3>5. CallOf([msg |-> m, by |-> f]) = [msg |-> m, by |-> f]
      BY DEF CallOf
    <3>. QED  BY <1>3, <3>1, <3>2, <3>4, <3>5
  <2>. QED  BY <1>2, <1>4, <2>1, <2>2, <2>3 DEF SendStep
<1>5. ASSUME NEW c \in encrypted, InsertPendingSend(c) \/ PostAttachment(c)
      PROVE  Awaited' /\ OneOnTheWire'
  <2>1. /\ posting' = posting \cup {c} /\ requests' = requests \cup {c}
        /\ handlers' = handlers /\ replies' = replies
    BY <1>5 DEF InsertPendingSend, PostAttachment
  <2>2. c \notin posting
    BY DEF OneCall, SameThread
  <2>3. CallOf(c) = c
    BY DEF TypeOK, CallOf
  <2>. QED  BY <1>3, <2>1, <2>2, <2>3
<1>6. ASSUME NEW r \in replies, PostSucceeds(r) PROVE Awaited' /\ OneOnTheWire'
  <2>1. /\ posting' = posting \ {CallOf(r)} /\ replies' = replies \ {r}
        /\ requests' = requests /\ handlers' = handlers
    BY <1>6 DEF PostSucceeds, CallOf
  <2>2. \A x \in requests' \cup handlers' \cup replies' : CallOf(x) # CallOf(r)
    BY <2>1 DEF OneOnTheWire
  <2>3. Awaited'
    BY <2>1, <2>2 DEF Awaited, CallOf
  <2>4. OneOnTheWire'
    BY <2>1 DEF OneOnTheWire, CallOf
  <2>. QED  BY <2>3, <2>4
<1>7. ASSUME NEW c \in acked, DeletePendingSend(c) \/ StoreOwnMessage(c)
      PROVE  UNCHANGED <<posting, requests, handlers, replies>>
  BY <1>7 DEF DeletePendingSend, StoreOwnMessage, wireVars
<1>8. ASSUME NEW c \in requests, ServerStamp(c) PROVE Awaited' /\ OneOnTheWire'
  <2> DEFINE h == [msg |-> c.msg, by |-> c.by, ts |-> clock]
  <2>1. /\ requests' = requests \ {c} /\ handlers' = handlers \cup {h}
        /\ replies' = replies /\ posting' = posting
    BY <1>8 DEF ServerStamp, sendVars
  <2>2. CallOf(h) = CallOf(c)
    BY DEF CallOf
  <2> HIDE DEF h
  <2>3. Awaited'
    BY <2>1, <2>2 DEF Awaited, CallOf
  <2>4. \A x \in requests' : CallOf(x) # CallOf(h)
    BY <1>1, <2>1, <2>2
  <2>5. \A y \in handlers \cup replies : CallOf(h) # CallOf(y)
    BY <2>2 DEF OneOnTheWire
  <2>6. /\ \A x \in requests', y \in handlers' \cup replies' : CallOf(x) # CallOf(y)
        /\ \A x \in handlers', y \in replies' : CallOf(x) # CallOf(y)
        /\ \A x, y \in handlers' : CallOf(x) = CallOf(y) => x = y
        /\ \A x, y \in replies' : CallOf(x) = CallOf(y) => x = y
    BY <2>1, <2>4, <2>5 DEF OneOnTheWire
  <2>. QED  BY <2>3, <2>6 DEF OneOnTheWire, CallOf
<1>9. ASSUME NEW h \in handlers, ServerInsert(h) PROVE Awaited' /\ OneOnTheWire'
  <2>1. PICK a : a = Answer(h)
    OBVIOUS
  <2>2. /\ requests' = requests /\ posting' = posting /\ handlers' = handlers \ {h}
        /\ replies' \subseteq replies \cup {a}
    BY <1>9, <2>1 DEF ServerInsert, sendVars
  <2>3. CallOf(a) = CallOf(h)
    BY <2>1, AnswerType DEF CallOf
  <2>4. Awaited'
    BY <2>2, <2>3 DEF Awaited, CallOf
  <2>5. /\ \A x \in requests \cup handlers' : CallOf(x) # CallOf(a)
        /\ \A y \in replies : CallOf(a) # CallOf(y)
    BY <2>2, <2>3 DEF OneOnTheWire
  <2>6. /\ \A x \in requests', y \in handlers' \cup replies' : CallOf(x) # CallOf(y)
        /\ \A x \in handlers', y \in replies' : CallOf(x) # CallOf(y)
        /\ \A x, y \in handlers' : CallOf(x) = CallOf(y) => x = y
        /\ \A x, y \in replies' : CallOf(x) = CallOf(y) => x = y
    BY <2>2, <2>5 DEF OneOnTheWire
  <2>. QED  BY <2>4, <2>6 DEF OneOnTheWire, CallOf
<1>10. ASSUME Tick \/ UNCHANGED vars PROVE UNCHANGED <<posting, requests, handlers, replies>>
  BY <1>10 DEF Tick, vars, sendVars, wireVars
<1>11. /\ ~ \E c \in encrypted : InsertPendingSendFails(c)
       /\ ~ \E c \in posting, d \in BOOLEAN : PostFails(c, d)
       /\ ~ \E c \in acked : StoreOwnMessageFails(c)
       /\ ~ \E u \in Users : Crash(u)
  BY NoFault DEF InsertPendingSendFails, PostFails, StoreOwnMessageFails, Crash
<1>. QED  BY <1>2, <1>4, <1>5, <1>6, <1>7, <1>8, <1>9, <1>10, <1>11, FetchLeavesCalls
          DEF Next, CallStep, ServerStep

LEMMA LocalGrows ==
    ASSUME TypeOK, AnswersAgree, PagesAgree, [Next]_vars, NEW u \in Users
    PROVE  local[u] \subseteq local'[u]
BY LocalChange DEF TypeOK

\* As long as nothing fails, the sender's own copy stays within reach: a
\* deleted outbox row leaves the call that stores the copy.
LEMMA KeptStep ==
    ASSUME TypeOK, AnswersAgree, PagesAgree, LocalRecorded, [Next]_vars, faults' = 0,
           NEW m \in Messages, Kept(m)
    PROVE  Kept(m)'
<1>1. CASE \E e \in local[m.from] : e.msg = m
  BY <1>1, LocalGrows, MessageFields DEF Kept
<1>2. CASE \E c \in acked : StoreOwnMessage(c) /\ c.msg = m
  <2>1. PICK c \in acked : StoreOwnMessage(c) /\ c.msg = m
    BY <1>2
  <2>2. CASE c.id \in LocalIds(m.from)
    <3>1. PICK e \in local[m.from] : e.id = c.id
      BY <2>2 DEF LocalIds
    <3>2. e.msg = m
      BY <2>1, <3>1, MessageFields DEF LocalRecorded, AnswersAgree, Recorded
    <3>. QED  BY <1>1, <3>2
  <2>3. CASE c.id \notin LocalIds(m.from)
    <3> DEFINE row == [id |-> c.id, ts |-> c.ts, msg |-> c.msg]
    <3>1. row \in local'[m.from]
      BY <2>1, <2>3, MessageFields DEF StoreOwnMessage, NewRows, TypeOK
    <3>2. row.msg = m
      BY <2>1
    <3>. QED  BY <3>1, <3>2 DEF Kept
  <2>. QED  BY <2>2, <2>3
<1> DEFINE Rest == m \in pendingSends' \/ \E c \in posting' \cup acked' : c.msg = m
<1>3. ASSUME ~ \E c \in acked : StoreOwnMessage(c) /\ c.msg = m,
             m \in pendingSends \/ \E c \in posting \cup acked : c.msg = m
      PROVE  Rest
  <2>1. ASSUME pendingSends \subseteq pendingSends', posting \subseteq posting', acked \subseteq acked'
        PROVE  Rest
    BY <1>3, <2>1
  <2>2. ASSUME NEW u \in Users, SendStep(u) PROVE Rest
    BY <2>1, <2>2 DEF SendStep, Encrypt, EncryptFails, FlushStart, FlushNext
  <2>3. ASSUME NEW c \in encrypted, InsertPendingSend(c) \/ PostAttachment(c) PROVE Rest
    BY <2>1, <2>3 DEF InsertPendingSend, PostAttachment
  <2>4. ASSUME NEW r \in replies, PostSucceeds(r) PROVE Rest
    <3>1. PICK a : a = [msg |-> r.msg, by |-> r.by, id |-> r.id, ts |-> r.ts,
                        dropped |-> r.msg.text \in Attachments]
      OBVIOUS
    <3>2. /\ pendingSends' = pendingSends /\ acked' = acked \cup {a}
          /\ posting' = posting \ {CallOf(r)}
      BY <2>4, <3>1 DEF PostSucceeds, CallOf
    <3>3. a.msg = r.msg /\ CallOf(r).msg = r.msg
      BY <3>1 DEF CallOf
    <3>. QED  BY <1>3, <3>2, <3>3
  <2>5. ASSUME NEW c \in acked, DeletePendingSend(c) PROVE Rest
    <3>1. PICK d : d = [c EXCEPT !.dropped = TRUE]
      OBVIOUS
    <3>2. d.msg = c.msg
      BY <3>1 DEF TypeOK
    <3>3. /\ acked' = (acked \ {c}) \cup {d} /\ posting' = posting
          /\ pendingSends \subseteq pendingSends' \cup {c.msg}
      BY <2>5, <3>1 DEF DeletePendingSend, OutboxRows
    <3>. QED  BY <1>3, <3>2, <3>3
  <2>6. ASSUME NEW c \in acked, StoreOwnMessage(c) PROVE Rest
    <3>1. c.msg # m
      BY <1>3, <2>6
    <3>2. acked' = acked \ {c} /\ posting' = posting /\ pendingSends' = pendingSends
      BY <2>6 DEF StoreOwnMessage
    <3>. QED  BY <1>3, <3>1, <3>2
  <2>7. ASSUME ServerStep \/ Tick \/ UNCHANGED vars PROVE Rest
    BY <2>1, <2>7 DEF ServerStep, ServerStamp, ServerInsert, Tick, vars, sendVars
  <2>8. ASSUME NEW u \in Users, NEW k \in Fetchers, FetchStep(u, k) PROVE Rest
    BY <2>1, <2>8, FetchLeavesCalls
  <2>9. /\ ~ \E c \in encrypted : InsertPendingSendFails(c)
        /\ ~ \E c \in posting, d \in BOOLEAN : PostFails(c, d)
        /\ ~ \E c \in acked : StoreOwnMessageFails(c)
        /\ ~ \E u \in Users : Crash(u)
    BY NoFault DEF InsertPendingSendFails, PostFails, StoreOwnMessageFails, Crash
  <2> HIDE DEF Rest
  <2>. QED  BY <2>2, <2>3, <2>4, <2>5, <2>6, <2>7, <2>8, <2>9 DEF Next, CallStep
<1>. QED  BY <1>1, <1>2, <1>3 DEF Kept

LEMMA CallsStep == DeliveryInv /\ CallsInv /\ [Next]_vars => CallsInv'
<1> SUFFICES ASSUME DeliveryInv, CallsInv, [Next]_vars PROVE CallsInv'
  OBVIOUS
<1>1. TypeOK /\ AnswersAgree /\ PagesAgree /\ LocalRecorded
  BY DEF DeliveryInv
<1>2. OneCall'
  BY <1>1, OneCallStep DEF CallsInv
<1>3. ASSUME faults' = 0 PROVE Awaited' /\ OneOnTheWire' /\ \A m \in Accepted' : Kept(m)'
  <2>1. faults = 0
    BY <1>1, <1>3, FaultsGrow
  <2>2. Awaited' /\ OneOnTheWire'
    BY <1>1, <1>3, <2>1, WireStep DEF CallsInv
  <2>3. ASSUME NEW m \in Accepted PROVE Kept(m)'
    <3>1. m \in Messages
      BY <1>1, MessagesType DEF Accepted
    <3>. QED  BY <1>1, <1>3, <2>1, <3>1, KeptStep DEF CallsInv
  <2>4. ASSUME NEW m \in Accepted', m \notin Accepted PROVE Kept(m)'
    <3>1. messages' # messages
      BY <2>4 DEF Accepted
    <3>2. PICK h \in handlers : ServerInsert(h) /\ m = h.msg
      BY <1>1, <2>4, <3>1, InsertedMessage
    <3>3. CallOf(h) \in posting' /\ CallOf(h).msg = m
      BY <2>1, <3>2 DEF CallsInv, Awaited, ServerInsert, sendVars, CallOf
    <3>. QED  BY <3>3 DEF Kept
  <2>. QED  BY <2>2, <2>3, <2>4
<1>. QED  BY <1>2, <1>3 DEF CallsInv

\* As long as nothing fails, an accepted message that has left the outbox is in
\* its sender's history or in the call that will put it there.
THEOREM OwnCopies == Spec => []OwnCopyKept
<1>1. Init => CallsInv
  <2> SUFFICES ASSUME Init PROVE CallsInv
    OBVIOUS
  <2>1. Accepted = {}
    BY DEF Init, Accepted
  <2>. QED  BY <2>1 DEF Init, CallsInv, OneCall, Awaited, OneOnTheWire
<1>2. CallsInv => OwnCopyKept
  BY DEF CallsInv, OwnCopyKept, OwnCopiesLost, Kept
<1>. QED  BY <1>1, <1>2, CallsStep, DeliveryInvariant, PTL DEF Spec

(***************************************************************************)
(* Fetches.  The lock admits one at a time, and what it does not know as   *)
(* stored is not stored, or is the device's own.                           *)
(***************************************************************************)
OneFetch ==
    \A u \in Users : \A j, k \in Fetchers :
        fetch[u][j].at # "idle" /\ fetch[u][k].at # "idle" => j = k

HoldsWhileWorking ==
    \A u \in Users, k \in Fetchers :
        /\ fetch[u][k].at # "working" => fetch[u][k].page = {} /\ fetch[u][k].hand = {}
        /\ \A r, s \in fetch[u][k].hand : r = s
        /\ \A r \in fetch[u][k].page, s \in fetch[u][k].hand : r.id # s.id

KnowsStored ==
    \A u \in Users, k \in Fetchers :
        /\ k = "get_messages" /\ fetch[u][k].at = "asked" =>
              \A e \in local[u] : e.id \in fetch[u][k].existing \/ e.msg.from = u
        /\ \A r \in fetch[u][k].page, e \in local[u] :
              e.id = r.id => r.id \in fetch[u][k].existing \/ r.msg.from = u

RatchetSaved == \A u \in Users : savedRatchet[u] \subseteq ratchet[u]

LossCounted ==
    \A u \in Users : IsFiniteSet(Unread(u)) /\ Cardinality(Unread(u)) <= faults

FetchInv == OneFetch /\ HoldsWhileWorking /\ KnowsStored /\ RatchetSaved /\ LossCounted

\* A fetch replaces one record, which holds rows only at work, at most one of
\* them in hand; it starts only under a free lock.
Holds(x) ==
    /\ x.at # "working" => x.page = {} /\ x.hand = {}
    /\ \A r, s \in x.hand : r = s
    /\ \A r \in x.page, s \in x.hand : r.id # s.id

LEMMA FetchStepRecord ==
    ASSUME TypeOK, PagesAgree, HoldsWhileWorking, NEW u \in Users, NEW k \in Fetchers,
           FetchStep(u, k)
    PROVE  \E y : /\ fetch' = [fetch EXCEPT ![u][k] = y]
                  /\ Holds(y)
                  /\ y.at # "idle" => fetch[u][k].at # "idle" \/ LockFree(u)
<1> DEFINE f == fetch[u][k]
           Goal == \E y : /\ fetch' = [fetch EXCEPT ![u][k] = y]
                          /\ Holds(y)
                          /\ y.at # "idle" => f.at # "idle" \/ LockFree(u)
<1>1. f \in FetchType /\ Holds(f)
  BY FetchFields DEF HoldsWhileWorking, Holds
<1>2. fetch \in [Users -> [Fetchers -> FetchType]]
  BY DEF TypeOK
<1>3. Holds(IdleFetch) /\ IdleFetch.at = "idle"
  BY DEF Holds, IdleFetch
<1>4. ASSUME FetchStart(u, k) PROVE Goal
  <2>1. PICK t \in 0..clock : fetch' = [fetch EXCEPT ![u][k] =
                [at |-> "asked", after |-> t, page |-> {}, hand |-> {},
                 existing |-> IF k = "get_messages" THEN LocalIds(u) ELSE {}]]
    BY <1>4 DEF FetchStart
  <2>2. LockFree(u)
    BY <1>4 DEF FetchStart
  <2>3. PICK y : y = [at |-> "asked", after |-> t, page |-> {}, hand |-> {},
                      existing |-> IF k = "get_messages" THEN LocalIds(u) ELSE {}]
    OBVIOUS
  <2>4. Holds(y)
    BY <2>3 DEF Holds
  <2>. QED  BY <2>1, <2>2, <2>3, <2>4
<1>5. ASSUME FetchAnswered(u, k) PROVE Goal
  <2>1. PICK page \in SUBSET Rows : fetch' = [fetch EXCEPT ![u][k] =
                IF page = {} THEN IdleFetch
                ELSE [at |-> "working", after |-> fetch[u][k].after,
                      page |-> page, hand |-> {},
                      existing |-> IF k = "get_messages" THEN fetch[u][k].existing
                                   ELSE LocalIds(u)]]
    BY <1>5 DEF FetchAnswered
  <2>2. PICK y : y = [at |-> "working", after |-> fetch[u][k].after,
                      page |-> page, hand |-> {},
                      existing |-> IF k = "get_messages" THEN fetch[u][k].existing
                                   ELSE LocalIds(u)]
    OBVIOUS
  <2>3. Holds(y)
    BY <2>2 DEF Holds
  <2>4. f.at # "idle"
    BY <1>5 DEF FetchAnswered
  <2>. QED  BY <1>3, <2>1, <2>2, <2>3, <2>4
<1>6. ASSUME FetchFails(u, k) \/ StoreRowFails(u, k) \/ FetchReturns(u, k) PROVE Goal
  BY <1>3, <1>6 DEF FetchFails, StoreRowFails, FetchReturns
<1>7. ASSUME NEW r \in f.page, SkipRow(u, k, r) \/ DecryptRowUnsaved(u, k, r) PROVE Goal
  <2>1. PICK y : y = [f EXCEPT !.page = f.page \ {r}]
    OBVIOUS
  <2>2. fetch' = [fetch EXCEPT ![u][k] = y]
    BY <1>2, <1>7, <2>1 DEF SkipRow, DecryptRowUnsaved
  <2>3. f.at = "working"
    BY <1>7 DEF SkipRow, DecryptRowUnsaved, Attempts, AtRow
  <2>4. y.at = "working" /\ y.page \subseteq f.page /\ y.hand = f.hand
    BY <1>1, <2>1, <2>3 DEF FetchType
  <2>5. Holds(y)
    BY <1>1, <2>4 DEF Holds
  <2>. QED  BY <2>2, <2>3, <2>5
<1>8. ASSUME NEW r \in f.page, DecryptRow(u, k, r) PROVE Goal
  <2>1. PICK y : y = [f EXCEPT !.page = f.page \ {r}, !.hand = {r}]
    OBVIOUS
  <2>2. fetch' = [fetch EXCEPT ![u][k] = y]
    BY <1>2, <1>8, <2>1 DEF DecryptRow
  <2>3. f.at = "working"
    BY <1>8 DEF DecryptRow, Attempts, AtRow
  <2>4. y.at = "working" /\ y.page = f.page \ {r} /\ y.hand = {r}
    BY <1>1, <2>1, <2>3 DEF FetchType
  <2>5. ASSUME NEW s \in f.page, s.id = r.id PROVE s = r
    <3>1. Recorded(s) /\ Recorded(r)
      BY DEF PagesAgree
    <3>2. s \in RowType /\ r \in RowType
      BY <1>1 DEF FetchType
    <3>. QED  BY <2>5, <3>1, <3>2 DEF Recorded, RowType
  <2>6. Holds(y)
    BY <2>4, <2>5 DEF Holds
  <2>. QED  BY <2>2, <2>3, <2>6
<1>9. ASSUME StoreRow(u, k) PROVE Goal
  <2>1. PICK y : y = [f EXCEPT !.hand = {}]
    OBVIOUS
  <2>2. fetch' = [fetch EXCEPT ![u][k] = y]
    BY <1>2, <1>9, <2>1 DEF StoreRow
  <2>3. f.at = "working"
    BY <1>1, <1>9 DEF StoreRow, Holds
  <2>4. y.at = "working" /\ y.page = f.page /\ y.hand = {}
    BY <1>1, <2>1, <2>3 DEF FetchType
  <2>5. Holds(y)
    BY <2>4 DEF Holds
  <2>. QED  BY <2>2, <2>3, <2>5
<1> HIDE DEF Goal
<1>10. Goal
  BY <1>4, <1>5, <1>6, <1>7, <1>8, <1>9 DEF FetchStep
<1>. QED  BY <1>10 DEF Goal

\* Only a fetch and a crash change what fetches hold.
LEMMA FetchKept ==
    ASSUME [Next]_vars, ~ \E u \in Users : Crash(u),
           ~ \E u \in Users, k \in Fetchers : FetchStep(u, k)
    PROVE  fetch' = fetch /\ ratchet' = ratchet
<1>1. ASSUME NEW u \in Users, SendStep(u) PROVE fetch' = fetch /\ ratchet' = ratchet
  BY <1>1 DEF SendStep, Encrypt, EncryptFails, FlushStart, FlushNext, recvVars
<1>2. ASSUME CallStep PROVE fetch' = fetch /\ ratchet' = ratchet
  BY <1>2 DEF CallStep, InsertPendingSend, PostAttachment, InsertPendingSendFails, PostFails, PostSucceeds,
     DeletePendingSend, StoreOwnMessage, StoreOwnMessageFails, recvVars
<1>3. ASSUME ServerStep \/ Tick \/ UNCHANGED vars PROVE fetch' = fetch /\ ratchet' = ratchet
  BY <1>3 DEF ServerStep, ServerStamp, ServerInsert, Tick, vars, recvVars
<1>. QED  BY <1>1, <1>2, <1>3 DEF Next

LEMMA LockStep ==
    TypeOK /\ PagesAgree /\ OneFetch /\ HoldsWhileWorking /\ [Next]_vars
        => OneFetch' /\ HoldsWhileWorking'
<1> SUFFICES ASSUME TypeOK, PagesAgree, OneFetch, HoldsWhileWorking, [Next]_vars
    PROVE  OneFetch' /\ HoldsWhileWorking'
  OBVIOUS
<1>1. fetch \in [Users -> [Fetchers -> FetchType]]
  BY DEF TypeOK
<1>2. \A v \in Users, j \in Fetchers : Holds(fetch[v][j])
  BY DEF HoldsWhileWorking, Holds
<1> SUFFICES /\ OneFetch'
             /\ \A v \in Users, j \in Fetchers : Holds(fetch'[v][j])
  BY DEF HoldsWhileWorking, Holds
<1>3. CASE \E u \in Users, k \in Fetchers : FetchStep(u, k)
  <2>1. PICK u \in Users, k \in Fetchers : FetchStep(u, k)
    BY <1>3
  <2>2. PICK y : /\ fetch' = [fetch EXCEPT ![u][k] = y]
                 /\ Holds(y)
                 /\ y.at # "idle" => fetch[u][k].at # "idle" \/ LockFree(u)
    BY <2>1, FetchStepRecord
  <2>3. /\ fetch'[u][k] = y
        /\ \A v \in Users, j \in Fetchers : v # u \/ j # k => fetch'[v][j] = fetch[v][j]
    BY <1>1, <2>2
  <2>4. \A v \in Users, j \in Fetchers : Holds(fetch'[v][j])
    BY <1>2, <2>2, <2>3
  <2>5. OneFetch'
    <3> SUFFICES ASSUME NEW v \in Users, NEW i \in Fetchers, NEW j \in Fetchers, i # j,
                        fetch'[v][i].at # "idle", fetch'[v][j].at # "idle"
        PROVE  FALSE
      BY DEF OneFetch
    <3>1. CASE v # u
      BY <2>3, <3>1 DEF OneFetch
    <3>2. CASE v = u /\ i # k /\ j # k
      BY <2>3, <3>2 DEF OneFetch
    <3>3. ASSUME NEW h \in Fetchers, h # k, fetch'[u][h].at # "idle", fetch'[u][k].at # "idle"
          PROVE  FALSE
      BY <2>2, <2>3, <3>3 DEF OneFetch, LockFree
    <3>. QED  BY <3>1, <3>2, <3>3
  <2>. QED  BY <2>4, <2>5
<1>4. CASE \E u \in Users : Crash(u)
  <2>1. PICK u \in Users : Crash(u)
    BY <1>4
  <2>2. /\ \A j \in Fetchers : fetch'[u][j] = IdleFetch
        /\ \A v \in Users, j \in Fetchers : v # u => fetch'[v][j] = fetch[v][j]
    BY <1>1, <2>1 DEF Crash
  <2>3. Holds(IdleFetch) /\ IdleFetch.at = "idle"
    BY DEF Holds, IdleFetch
  <2>4. \A v \in Users, j \in Fetchers : Holds(fetch'[v][j])
    BY <1>2, <2>2, <2>3
  <2>5. OneFetch'
    BY <2>2, <2>3 DEF OneFetch
  <2>. QED  BY <2>4, <2>5
<1>5. CASE fetch' = fetch
  BY <1>2, <1>5 DEF OneFetch
<1>. QED  BY <1>3, <1>4, <1>5, FetchKept

\* What the fetch record x of u's fetcher k knows of the table L.
Knows(x, u, k, L) ==
    /\ k = "get_messages" /\ x.at = "asked" =>
          \A e \in L : e.id \in x.existing \/ e.msg.from = u
    /\ \A r \in x.page, e \in L : e.id = r.id => r.id \in x.existing \/ r.msg.from = u

\* A fetch that stores nothing knows what it knew, and learns the stored ids
\* before it looks at a page.
LEMMA FetchStepKnows ==
    ASSUME TypeOK, PagesAgree, LocalRecorded, KnowsStored, NEW u \in Users,
           NEW k \in Fetchers, FetchStep(u, k), ~StoreRow(u, k)
    PROVE  Knows(fetch'[u][k], u, k, local[u])
<1> DEFINE f == fetch[u][k]
<1>1. f \in FetchType /\ Knows(f, u, k, local[u])
  BY FetchFields DEF KnowsStored, Knows
<1>2. fetch \in [Users -> [Fetchers -> FetchType]]
  BY DEF TypeOK
<1>3. Knows(IdleFetch, u, k, local[u])
  BY DEF Knows, IdleFetch
<1>4. ASSUME FetchStart(u, k) PROVE Knows(fetch'[u][k], u, k, local[u])
  <2>1. PICK t \in 0..clock : fetch' = [fetch EXCEPT ![u][k] =
                [at |-> "asked", after |-> t, page |-> {}, hand |-> {},
                 existing |-> IF k = "get_messages" THEN LocalIds(u) ELSE {}]]
    BY <1>4 DEF FetchStart
  <2>2. PICK y : y = [at |-> "asked", after |-> t, page |-> {}, hand |-> {},
                      existing |-> IF k = "get_messages" THEN LocalIds(u) ELSE {}]
    OBVIOUS
  <2>3. fetch'[u][k] = y
    BY <1>2, <2>1, <2>2
  <2>4. Knows(y, u, k, local[u])
    BY <2>2 DEF Knows, LocalIds
  <2>. QED  BY <2>3, <2>4
<1>5. ASSUME FetchAnswered(u, k) PROVE Knows(fetch'[u][k], u, k, local[u])
  <2>1. PICK page \in SUBSET Rows : fetch' = [fetch EXCEPT ![u][k] =
                IF page = {} THEN IdleFetch
                ELSE [at |-> "working", after |-> fetch[u][k].after,
                      page |-> page, hand |-> {},
                      existing |-> IF k = "get_messages" THEN fetch[u][k].existing
                                   ELSE LocalIds(u)]]
    BY <1>5 DEF FetchAnswered
  <2>2. PICK y : y = [at |-> "working", after |-> fetch[u][k].after,
                      page |-> page, hand |-> {},
                      existing |-> IF k = "get_messages" THEN fetch[u][k].existing
                                   ELSE LocalIds(u)]
    OBVIOUS
  <2>3. fetch'[u][k] = IdleFetch \/ fetch'[u][k] = y
    BY <1>2, <2>1, <2>2
  <2>4. ASSUME NEW r \in page, NEW e \in local[u], e.id = r.id
        PROVE  r.id \in y.existing \/ r.msg.from = u
    <3>1. e.msg = r.msg
      <4>1. r.msg = messages[r.id].msg
        BY DEF Rows, RowOf
      <4>2. e.msg = messages[e.id].msg
        BY DEF LocalRecorded, Recorded
      <4>. QED  BY <2>4, <4>1, <4>2
    <3>2. CASE k = "get_messages"
      <4>1. e.id \in f.existing \/ e.msg.from = u
        BY <1>1, <1>5, <3>2 DEF FetchAnswered, Knows
      <4>2. y.existing = f.existing
        BY <2>2, <3>2
      <4>. QED  BY <2>4, <3>1, <4>1, <4>2
    <3>3. CASE k # "get_messages"
      <4>1. y.existing = LocalIds(u)
        BY <2>2, <3>3
      <4>. QED  BY <2>4, <4>1 DEF LocalIds
    <3>. QED  BY <3>2, <3>3
  <2>5. y.page = page /\ y.at = "working"
    BY <2>2
  <2>6. Knows(y, u, k, local[u])
    BY <2>4, <2>5 DEF Knows
  <2>. QED  BY <1>3, <2>3, <2>6
<1>6. ASSUME FetchFails(u, k) \/ StoreRowFails(u, k) \/ FetchReturns(u, k)
      PROVE  Knows(fetch'[u][k], u, k, local[u])
  <2>1. fetch'[u][k] = IdleFetch
    BY <1>2, <1>6 DEF FetchFails, StoreRowFails, FetchReturns
  <2>. QED  BY <1>3, <2>1
<1>7. ASSUME NEW r \in f.page,
             SkipRow(u, k, r) \/ DecryptRow(u, k, r) \/ DecryptRowUnsaved(u, k, r)
      PROVE  Knows(fetch'[u][k], u, k, local[u])
  <2>1. \/ fetch'[u][k] = [f EXCEPT !.page = f.page \ {r}]
        \/ fetch'[u][k] = [f EXCEPT !.page = f.page \ {r}, !.hand = {r}]
    <3>1. CASE SkipRow(u, k, r)
      BY <1>2, <3>1 DEF SkipRow
    <3>2. CASE DecryptRow(u, k, r)
      BY <1>2, <3>2 DEF DecryptRow
    <3>3. CASE DecryptRowUnsaved(u, k, r)
      BY <1>2, <3>3 DEF DecryptRowUnsaved
    <3>. QED  BY <1>7, <3>1, <3>2, <3>3
  <2>2. /\ fetch'[u][k].at = f.at /\ fetch'[u][k].existing = f.existing
        /\ fetch'[u][k].page \subseteq f.page
    BY <1>1, <2>1 DEF FetchType
  <2>. QED  BY <1>1, <2>2 DEF Knows
<1>. QED  BY <1>4, <1>5, <1>6, <1>7 DEF FetchStep

LEMMA KnowsStep ==
    ASSUME TypeOK, AnswersAgree, PagesAgree, LocalRecorded,
           OneFetch, HoldsWhileWorking, KnowsStored, [Next]_vars
    PROVE  KnowsStored'
<1>1. \A v \in Users, j \in Fetchers : Knows(fetch[v][j], v, j, local[v])
  BY DEF KnowsStored, Knows
<1>2. fetch \in [Users -> [Fetchers -> FetchType]] /\ local \in [Users -> SUBSET RowType]
  BY DEF TypeOK
<1> SUFFICES \A v \in Users, j \in Fetchers : Knows(fetch'[v][j], v, j, local'[v])
  BY DEF KnowsStored, Knows
<1>3. ASSUME NEW u \in Users, NEW k \in Fetchers, FetchStep(u, k), ~StoreRow(u, k)
      PROVE  \A v \in Users, j \in Fetchers : Knows(fetch'[v][j], v, j, local'[v])
  <2>1. local' = local
    BY <1>3 DEF FetchStep, FetchStart, FetchAnswered, FetchFails, SkipRow, DecryptRow,
       DecryptRowUnsaved, StoreRowFails, FetchReturns
  <2>2. \A v \in Users, j \in Fetchers : v # u \/ j # k => fetch'[v][j] = fetch[v][j]
    BY <1>2, <1>3, FetchStepRecord
  <2>3. Knows(fetch'[u][k], u, k, local[u])
    BY <1>3, FetchStepKnows
  <2>. QED  BY <1>1, <2>1, <2>2, <2>3
<1>4. ASSUME NEW u \in Users, NEW k \in Fetchers, StoreRow(u, k)
      PROVE  \A v \in Users, j \in Fetchers : Knows(fetch'[v][j], v, j, local'[v])
  <2>1. PICK row \in fetch[u][k].hand : local' = [local EXCEPT ![u] = @ \cup NewRows(u, row)]
    BY <1>4 DEF StoreRow
  <2>2. fetch' = [fetch EXCEPT ![u][k] = [fetch[u][k] EXCEPT !.hand = {}]]
    BY <1>2, <1>4 DEF StoreRow
  <2>3. fetch[u][k] \in FetchType
    BY <1>2
  <2>4. /\ fetch'[u][k].at = fetch[u][k].at /\ fetch'[u][k].existing = fetch[u][k].existing
        /\ fetch'[u][k].page = fetch[u][k].page
    BY <1>2, <2>2, <2>3 DEF FetchType
  <2>5. \A v \in Users, j \in Fetchers : v # u \/ j # k => fetch'[v][j] = fetch[v][j]
    BY <1>2, <2>2
  <2>6. local'[u] \subseteq local[u] \cup {row} /\ \A v \in Users : v # u => local'[v] = local[v]
    BY <1>2, <2>1 DEF NewRows
  <2>7. fetch[u][k].at = "working" /\ \A r \in fetch[u][k].page : r.id # row.id
    BY DEF HoldsWhileWorking
  <2>8. Knows(fetch'[u][k], u, k, local'[u])
    BY <1>1, <2>4, <2>6, <2>7 DEF Knows
  <2>9. ASSUME NEW j \in Fetchers, j # k PROVE Knows(fetch'[u][j], u, j, local'[u])
    <3>1. fetch[u][j].at = "idle" /\ fetch'[u][j] = fetch[u][j]
      BY <2>5, <2>7, <2>9 DEF OneFetch
    <3>2. fetch[u][j].page = {}
      BY <3>1 DEF HoldsWhileWorking
    <3>. QED  BY <3>1, <3>2 DEF Knows
  <2>. QED  BY <1>1, <2>5, <2>6, <2>8, <2>9
<1>5. ASSUME NEW c \in acked, StoreOwnMessage(c)
      PROVE  \A v \in Users, j \in Fetchers : Knows(fetch'[v][j], v, j, local'[v])
  <2>1. PICK row : row = [id |-> c.id, ts |-> c.ts, msg |-> c.msg]
    OBVIOUS
  <2>2. fetch' = fetch
    BY <1>5 DEF StoreOwnMessage, recvVars
  <2>3. local' = [local EXCEPT ![c.msg.from] = @ \cup NewRows(c.msg.from, row)]
    BY <1>5, <2>1 DEF StoreOwnMessage
  <2>4. \A v \in Users : local'[v] = local[v] \/ (v = row.msg.from /\ local'[v] \subseteq local[v] \cup {row})
    BY <1>2, <2>1, <2>3 DEF NewRows
  <2>5. messages[row.id].msg = row.msg
    BY <2>1 DEF AnswersAgree, Recorded
  <2>6. \A v \in Users, j \in Fetchers : \A r \in fetch[v][j].page : messages[r.id].msg = r.msg
    BY DEF PagesAgree, Recorded
  <2>. QED  BY <1>1, <2>2, <2>4, <2>5, <2>6 DEF Knows
<1>6. ASSUME NEW u \in Users, Crash(u)
      PROVE  \A v \in Users, j \in Fetchers : Knows(fetch'[v][j], v, j, local'[v])
  <2>1. \A v \in Users, j \in Fetchers : fetch'[v][j] = IdleFetch \/ fetch'[v][j] = fetch[v][j]
    BY <1>2, <1>6 DEF Crash
  <2>2. local' = local
    BY <1>6 DEF Crash
  <2>3. \A v \in Users, j \in Fetchers : Knows(IdleFetch, v, j, local[v])
    BY DEF Knows, IdleFetch
  <2>. QED  BY <1>1, <2>1, <2>2, <2>3
<1>7. ASSUME ~ \E u \in Users : Crash(u), ~ \E u \in Users, k \in Fetchers : FetchStep(u, k),
             ~ \E c \in acked : StoreOwnMessage(c)
      PROVE  fetch' = fetch /\ local' = local
  <2>1. fetch' = fetch
    BY <1>7, FetchKept
  <2>2. ASSUME NEW u \in Users, SendStep(u) PROVE local' = local
    BY <2>2 DEF SendStep, Encrypt, EncryptFails, FlushStart, FlushNext
  <2>3. ASSUME CallStep PROVE local' = local
    BY <1>7, <2>3 DEF CallStep, InsertPendingSend, PostAttachment, InsertPendingSendFails, PostFails,
       PostSucceeds, DeletePendingSend, StoreOwnMessageFails
  <2>4. ASSUME ServerStep \/ Tick \/ UNCHANGED vars PROVE local' = local
    BY <2>4 DEF ServerStep, ServerStamp, ServerInsert, Tick, vars
  <2>. QED  BY <1>7, <2>1, <2>2, <2>3, <2>4 DEF Next
<1>. QED  BY <1>1, <1>3, <1>4, <1>5, <1>6, <1>7

\* The ratchet in memory is never behind the one on disk.
LEMMA RatchetStep == TypeOK /\ RatchetSaved /\ [Next]_vars => RatchetSaved'
<1> SUFFICES ASSUME TypeOK, RatchetSaved, [Next]_vars PROVE RatchetSaved'
  OBVIOUS
<1>1. ratchet \in [Users -> SUBSET Messages] /\ savedRatchet \in [Users -> SUBSET Messages]
  BY DEF TypeOK
<1>2. CASE UNCHANGED <<ratchet, savedRatchet>>
  BY <1>2 DEF RatchetSaved
<1>3. ASSUME NEW u \in Users, NEW t \in Texts, NEW k \in Senders, Encrypt(u, t, k)
      PROVE  RatchetSaved'
  BY <1>1, <1>3 DEF Encrypt, SaveState, RatchetSaved
<1>4. ASSUME NEW u \in Users, NEW k \in Fetchers, NEW r \in fetch[u][k].page, DecryptRow(u, k, r)
      PROVE  RatchetSaved'
  BY <1>1, <1>4 DEF DecryptRow, SaveState, RatchetSaved
<1>5. ASSUME NEW u \in Users, NEW k \in Fetchers, NEW r \in fetch[u][k].page,
             DecryptRowUnsaved(u, k, r)
      PROVE  RatchetSaved'
  BY <1>1, <1>5 DEF DecryptRowUnsaved, RatchetSaved
<1>6. ASSUME NEW u \in Users, Crash(u) PROVE RatchetSaved'
  BY <1>1, <1>6 DEF Crash, RatchetSaved
<1>7. ASSUME NEW u \in Users, NEW t \in Texts, NEW k \in Senders, EncryptFails(u, t, k)
      PROVE  UNCHANGED <<ratchet, savedRatchet>>
  BY <1>7 DEF EncryptFails, recvVars
<1>8. ASSUME NEW u \in Users, NEW f \in Flushers, FlushStart(u, f) \/ FlushNext(u, f)
      PROVE  UNCHANGED <<ratchet, savedRatchet>>
  BY <1>8 DEF FlushStart, FlushNext, recvVars
<1>9. ASSUME CallStep PROVE UNCHANGED <<ratchet, savedRatchet>>
  BY <1>9 DEF CallStep, InsertPendingSend, PostAttachment, InsertPendingSendFails, PostFails, PostSucceeds,
     DeletePendingSend, StoreOwnMessage, StoreOwnMessageFails, recvVars
<1>10. ASSUME ServerStep \/ Tick \/ UNCHANGED vars PROVE UNCHANGED <<ratchet, savedRatchet>>
  BY <1>10 DEF ServerStep, ServerStamp, ServerInsert, Tick, vars, recvVars
<1>11. ASSUME NEW u \in Users, NEW k \in Fetchers, FetchStep(u, k),
              ~ \E r \in fetch[u][k].page : DecryptRow(u, k, r) \/ DecryptRowUnsaved(u, k, r)
       PROVE  UNCHANGED <<ratchet, savedRatchet>>
  BY <1>11 DEF FetchStep, FetchStart, FetchAnswered, FetchFails, SkipRow,
     StoreRow, StoreRowFails, FetchReturns
<1>. QED  BY <1>2, <1>3, <1>4, <1>5, <1>6, <1>7, <1>8, <1>9, <1>10, <1>11 DEF Next, SendStep

LEMMA IsUnread ==
    \A u, m : m \in Unread(u) <=>
        /\ m \in ratchet[u]
        /\ \A e \in local[u] : e.msg # m
        /\ \A k \in Fetchers : \A e \in fetch[u][k].hand : e.msg # m
BY DEF Unread

LEMMA IsUnreadNext ==
    \A u, m : m \in Unread(u)' <=>
        /\ m \in ratchet'[u]
        /\ \A e \in local'[u] : e.msg # m
        /\ \A k \in Fetchers : \A e \in fetch'[u][k].hand : e.msg # m
BY DEF Unread

\* A row stored from the hand is in the table afterwards, under its message.
LEMMA StoredFromHand ==
    ASSUME TypeOK, PagesAgree, LocalRecorded, NEW u \in Users, NEW k \in Fetchers,
           HoldsWhileWorking, StoreRow(u, k)
    PROVE  \A r \in fetch[u][k].hand : \E e \in local'[u] : e.msg = r.msg
<1> TAKE r \in fetch[u][k].hand
<1>1. local' = [local EXCEPT ![u] = @ \cup NewRows(u, r)]
  BY DEF StoreRow, HoldsWhileWorking
<1>2. local'[u] = local[u] \cup NewRows(u, r)
  BY <1>1 DEF TypeOK
<1>3. CASE r.id \in LocalIds(u)
  <2>1. PICK e \in local[u] : e.id = r.id
    BY <1>3 DEF LocalIds
  <2>2. e.msg = r.msg
    BY <2>1 DEF LocalRecorded, PagesAgree, Recorded
  <2>. QED  BY <1>2, <2>1, <2>2
<1>4. CASE r.id \notin LocalIds(u)
  BY <1>2, <1>4 DEF NewRows
<1>. QED  BY <1>3, <1>4

\* A step loses nothing to any device, or something failed and one message
\* is lost to one.
LEMMA LossStep ==
    ASSUME TypeOK, AnswersAgree, PagesAgree, LocalRecorded, OneFetch, HoldsWhileWorking,
           RatchetSaved, [Next]_vars, NEW v \in Users
    PROVE  \/ Unread(v)' \subseteq Unread(v)
           \/ Fault /\ \E m : Unread(v)' \subseteq Unread(v) \cup {m}
<1> DEFINE Goal == \/ Unread(v)' \subseteq Unread(v)
                   \/ Fault /\ \E m : Unread(v)' \subseteq Unread(v) \cup {m}
<1>1. fetch \in [Users -> [Fetchers -> FetchType]] /\ ratchet \in [Users -> SUBSET Messages]
  BY DEF TypeOK
<1>2. local[v] \subseteq local'[v]
  BY LocalGrows
<1>3. ASSUME ratchet'[v] \subseteq ratchet[v],
             \A k \in Fetchers : fetch[v][k].hand \subseteq fetch'[v][k].hand
      PROVE  Unread(v)' \subseteq Unread(v)
  BY <1>2, <1>3, IsUnread, IsUnreadNext
<1>4. ASSUME NEW k \in Fetchers,
             FetchStart(v, k) \/ FetchAnswered(v, k) \/ FetchFails(v, k) \/ FetchReturns(v, k)
      PROVE  Goal
  <2>1. fetch[v][k].hand = {}
    <3>1. fetch[v][k].hand = {} \/ fetch[v][k].at = "working"
      BY DEF HoldsWhileWorking
    <3>. QED  BY <1>4, <3>1 DEF FetchStart, FetchAnswered, FetchFails, FetchReturns, LockFree
  <2>2. ratchet' = ratchet
    BY <1>4 DEF FetchStart, FetchAnswered, FetchFails, FetchReturns
  <2>3. \A j \in Fetchers : j # k => fetch'[v][j] = fetch[v][j]
    BY <1>1, <1>4 DEF FetchStart, FetchAnswered, FetchFails, FetchReturns
  <2>. QED  BY <1>3, <2>1, <2>2, <2>3
<1>5. ASSUME NEW k \in Fetchers, NEW r \in fetch[v][k].page, SkipRow(v, k, r) PROVE Goal
  <2>1. fetch' = [fetch EXCEPT ![v][k] = [fetch[v][k] EXCEPT !.page = @ \ {r}]] /\ ratchet' = ratchet
    BY <1>1, <1>5 DEF SkipRow
  <2>2. fetch[v][k] \in FetchType
    BY <1>1
  <2>3. \A j \in Fetchers : fetch'[v][j].hand = fetch[v][j].hand
    BY <1>1, <2>1, <2>2 DEF FetchType
  <2>. QED  BY <1>3, <2>1, <2>3
<1>6. ASSUME NEW k \in Fetchers, NEW r \in fetch[v][k].page, DecryptRow(v, k, r) PROVE Goal
  <2>1. fetch' = [fetch EXCEPT ![v][k] = [fetch[v][k] EXCEPT !.page = @ \ {r}, !.hand = {r}]]
    BY <1>1, <1>6 DEF DecryptRow
  <2>2. fetch[v][k] \in FetchType
    BY <1>1
  <2>3. fetch'[v][k].hand = {r} /\ \A j \in Fetchers : j # k => fetch'[v][j] = fetch[v][j]
    BY <1>1, <2>1, <2>2 DEF FetchType
  <2>4. fetch[v][k].hand = {}
    BY <1>6 DEF DecryptRow, Attempts, AtRow
  <2>5. ratchet'[v] = ratchet[v] \cup {r.msg}
    BY <1>1, <1>6 DEF DecryptRow
  <2>6. Unread(v)' \subseteq Unread(v)
    BY <1>2, <2>3, <2>4, <2>5, IsUnread, IsUnreadNext
  <2>. QED  BY <2>6
<1>7. ASSUME NEW k \in Fetchers, NEW r \in fetch[v][k].page, DecryptRowUnsaved(v, k, r) PROVE Goal
  <2>1. fetch' = [fetch EXCEPT ![v][k] = [fetch[v][k] EXCEPT !.page = @ \ {r}]]
    BY <1>1, <1>7 DEF DecryptRowUnsaved
  <2>2. fetch[v][k] \in FetchType
    BY <1>1
  <2>3. \A j \in Fetchers : fetch'[v][j].hand = fetch[v][j].hand
    BY <1>1, <2>1, <2>2 DEF FetchType
  <2>4. ratchet'[v] = ratchet[v] \cup {r.msg}
    BY <1>1, <1>7 DEF DecryptRowUnsaved
  <2>5. Unread(v)' \subseteq Unread(v) \cup {r.msg}
    BY <1>2, <2>3, <2>4, IsUnread, IsUnreadNext
  <2>6. Fault
    BY <1>7 DEF DecryptRowUnsaved
  <2>. QED  BY <2>5, <2>6
<1>8. ASSUME NEW k \in Fetchers, StoreRow(v, k) PROVE Goal
  <2>1. ratchet' = ratchet /\ \A j \in Fetchers : j # k => fetch'[v][j] = fetch[v][j]
    BY <1>1, <1>8 DEF StoreRow
  <2>2. \A r \in fetch[v][k].hand : \E e \in local'[v] : e.msg = r.msg
    BY <1>8, StoredFromHand
  <2>3. Unread(v)' \subseteq Unread(v)
    BY <1>2, <2>1, <2>2, IsUnread, IsUnreadNext
  <2>. QED  BY <2>3
<1>9. ASSUME NEW k \in Fetchers, StoreRowFails(v, k) PROVE Goal
  <2>1. ratchet' = ratchet /\ \A j \in Fetchers : j # k => fetch'[v][j] = fetch[v][j]
    BY <1>1, <1>9 DEF StoreRowFails
  <2>2. PICK r \in fetch[v][k].hand : \A s \in fetch[v][k].hand : s = r
    BY <1>9 DEF StoreRowFails, HoldsWhileWorking
  <2>3. Unread(v)' \subseteq Unread(v) \cup {r.msg}
    BY <1>2, <2>1, <2>2, IsUnread, IsUnreadNext
  <2>4. Fault
    BY <1>9 DEF StoreRowFails
  <2>. QED  BY <2>3, <2>4
<1>10. ASSUME Crash(v) PROVE Goal
  <2>1. Fault
    BY <1>10 DEF Crash
  <2>2. ratchet'[v] \subseteq ratchet[v]
    BY <1>1, <1>10 DEF Crash, RatchetSaved
  <2>3. CASE \A k \in Fetchers : fetch[v][k].hand = {}
    BY <1>3, <2>2, <2>3
  <2>4. CASE \E k \in Fetchers : fetch[v][k].hand # {}
    <3>1. PICK k \in Fetchers : fetch[v][k].hand # {}
      BY <2>4
    <3>2. PICK r \in fetch[v][k].hand : \A s \in fetch[v][k].hand : s = r
      BY <3>1 DEF HoldsWhileWorking
    <3>3. \A j \in Fetchers : j # k => fetch[v][j].hand = {}
      BY <3>1 DEF HoldsWhileWorking, OneFetch
    <3>4. Unread(v)' \subseteq Unread(v) \cup {r.msg}
      BY <1>2, <2>2, <3>2, <3>3, IsUnread, IsUnreadNext, SMTT(30)
    <3>. QED  BY <2>1, <3>4
  <2>. QED  BY <2>3, <2>4
<1>11. ASSUME NEW u \in Users, u # v, Crash(u) \/ \E k \in Fetchers : FetchStep(u, k) PROVE Goal
  <2>1. ratchet'[v] = ratchet[v]
    BY <1>1, <1>11 DEF Crash, FetchStep, FetchStart, FetchAnswered, FetchFails, SkipRow, DecryptRow,
       DecryptRowUnsaved, StoreRow, StoreRowFails, FetchReturns
  <2>2. fetch'[v] = fetch[v]
    <3>1. CASE Crash(u)
      BY <1>1, <1>11, <3>1 DEF Crash
    <3>2. CASE \E k \in Fetchers : FetchStep(u, k)
      BY <1>1, <1>11, <3>2, FetchStepRecord
    <3>. QED  BY <1>11, <3>1, <3>2
  <2>. QED  BY <1>3, <2>1, <2>2
<1>12. ASSUME ~ \E u \in Users : Crash(u), ~ \E u \in Users, k \in Fetchers : FetchStep(u, k)
       PROVE  Goal
  BY <1>3, <1>12, FetchKept
<1> HIDE DEF Goal
<1>13. ASSUME NEW k \in Fetchers, FetchStep(v, k) PROVE Goal
  BY <1>4, <1>5, <1>6, <1>7, <1>8, <1>9, <1>13 DEF FetchStep
<1>14. Goal
  BY <1>10, <1>11, <1>12, <1>13
<1>. QED  BY <1>14 DEF Goal

LEMMA LossCountedStep ==
    ASSUME TypeOK, AnswersAgree, PagesAgree, LocalRecorded, OneFetch, HoldsWhileWorking,
           RatchetSaved, LossCounted, [Next]_vars
    PROVE  LossCounted'
<1> SUFFICES ASSUME NEW v \in Users
    PROVE  IsFiniteSet(Unread(v)') /\ Cardinality(Unread(v)') <= faults'
  BY DEF LossCounted
<1>1. PICK S : S = Unread(v)
  OBVIOUS
<1>2. PICK T : T = Unread(v)'
  OBVIOUS
<1>3. IsFiniteSet(S) /\ Cardinality(S) <= faults /\ Cardinality(S) \in Nat
  BY <1>1, FS_CardinalityType DEF LossCounted
<1>4. faults \in Nat /\ faults' \in Nat /\ faults <= faults'
  BY FaultsGrow DEF TypeOK
<1>5. ASSUME T \subseteq S PROVE IsFiniteSet(T) /\ Cardinality(T) <= faults'
  <2>1. IsFiniteSet(T) /\ Cardinality(T) <= Cardinality(S)
    BY <1>3, <1>5, FS_Subset
  <2>2. Cardinality(T) \in Nat
    BY <2>1, FS_CardinalityType
  <2>. QED  BY <1>3, <1>4, <2>1, <2>2
<1>6. ASSUME Fault, NEW m, T \subseteq S \cup {m}
      PROVE  IsFiniteSet(T) /\ Cardinality(T) <= faults'
  <2>1. PICK Q : Q = S \cup {m}
    OBVIOUS
  <2>2. IsFiniteSet(Q) /\ Cardinality(Q) <= Cardinality(S) + 1
    <3>1. IsFiniteSet(S \cup {m})
      BY <1>3, FS_AddElement
    <3>2. Cardinality(S \cup {m}) = IF m \in S THEN Cardinality(S) ELSE Cardinality(S) + 1
      BY <1>3, FS_AddElement
    <3>3. Cardinality(S \cup {m}) <= Cardinality(S) + 1
      BY <1>3, <3>2
    <3>. QED  BY <2>1, <3>1, <3>3
  <2>3. T \in SUBSET Q
    BY <1>6, <2>1
  <2>4. IsFiniteSet(T) /\ Cardinality(T) <= Cardinality(Q)
    BY <2>2, <2>3, FS_Subset
  <2>5. Cardinality(T) \in Nat /\ Cardinality(Q) \in Nat
    BY <2>2, <2>4, FS_CardinalityType
  <2>6. faults' = faults + 1
    BY <1>6 DEF Fault
  <2>. QED  BY <1>3, <1>4, <2>2, <2>4, <2>5, <2>6
<1>7. T \subseteq S \/ (Fault /\ \E m : T \subseteq S \cup {m})
  BY <1>1, <1>2, LossStep
<1>8. IsFiniteSet(T) /\ Cardinality(T) <= faults'
  BY <1>5, <1>6, <1>7
<1>. QED  BY <1>2, <1>8

LEMMA FetchInvInit == Init => FetchInv
<1> SUFFICES ASSUME Init PROVE FetchInv
  OBVIOUS
<1>1. \A u \in Users, k \in Fetchers : fetch[u][k] = IdleFetch
  BY DEF Init
<1>2. IdleFetch.at = "idle" /\ IdleFetch.page = {} /\ IdleFetch.hand = {}
  BY DEF IdleFetch
<1>3. OneFetch /\ HoldsWhileWorking
  BY <1>1, <1>2 DEF OneFetch, HoldsWhileWorking
<1>4. KnowsStored
  BY <1>1, <1>2 DEF KnowsStored
<1>5. RatchetSaved
  BY DEF Init, RatchetSaved
<1>6. LossCounted
  <2> SUFFICES ASSUME NEW u \in Users
      PROVE  IsFiniteSet(Unread(u)) /\ Cardinality(Unread(u)) <= faults
    BY DEF LossCounted
  <2>1. ratchet[u] = {} /\ faults = 0
    BY DEF Init
  <2>2. Unread(u) = {}
    BY <2>1, IsUnread
  <2>. QED  BY <2>1, <2>2, FS_EmptySet
<1>. QED  BY <1>3, <1>4, <1>5, <1>6 DEF FetchInv

\* The invariant of the receivers holds in every reachable state.
THEOREM FetchInvariant == Spec => []FetchInv
<1>1. DeliveryInv /\ FetchInv /\ [Next]_vars => FetchInv'
  <2> SUFFICES ASSUME DeliveryInv, FetchInv, [Next]_vars PROVE FetchInv'
    OBVIOUS
  <2>1. /\ TypeOK /\ AnswersAgree /\ PagesAgree /\ LocalRecorded
        /\ OneFetch /\ HoldsWhileWorking /\ KnowsStored /\ RatchetSaved /\ LossCounted
    BY DEF DeliveryInv, FetchInv
  <2>. QED  BY <2>1, LockStep, KnowsStep, RatchetStep, LossCountedStep DEF FetchInv
<1>. QED  BY <1>1, FetchInvInit, DeliveryInvariant, PTL DEF Spec

\* No fetch hands MLS a ciphertext whose plaintext is stored: the lock keeps
\* what a fetch knows as stored true until it has passed its last row.
THEOREM StoredNotDecrypted == Spec => []NeverDecryptsStored
<1>1. FetchInv => NeverDecryptsStored
  BY DEF FetchInv, KnowsStored, NeverDecryptsStored, Attempts, LocalIds
<1>. QED  BY <1>1, FetchInvariant, PTL

\* Every failure and every crash costs a device at most one message.
THEOREM LossBounded == Spec => []LossBoundedByFaults
<1>1. FetchInv => LossBoundedByFaults
  BY DEF FetchInv, LossCounted, LossBoundedByFaults
<1>. QED  BY <1>1, FetchInvariant, PTL
=============================================================================

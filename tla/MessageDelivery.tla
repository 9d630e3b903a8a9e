--------------------------- MODULE MessageDelivery ---------------------------
(***************************************************************************)
(* One encrypted conversation between devices that have already joined its *)
(* MLS group: composing, encrypting, the persistent outbox, the idempotent *)
(* POST, the acknowledgement, and the cursor-driven fetch that decrypts    *)
(* and stores what the others sent.  The network loses requests and        *)
(* replies, clients give up on calls the server still executes, local      *)
(* writes fail and devices crash and restart, MaxFaults times in all.      *)
(*                                                                         *)
(* A message is a record: who sent it, the ratchet generation that         *)
(* encrypted it (which stands for its ciphertext and its fresh             *)
(* client_message_id) and the text the user composed.                      *)
(***************************************************************************)
EXTENDS Naturals, Sequences, FiniteSets

CONSTANTS Users,               \* participants, one device each
          Texts,               \* what a user wants to say; each text once
          Attachments,         \* the texts that are media files
          Senders,             \* send_message calls a device may overlap
          Flushers,            \* retry_pending_sends calls a device may overlap
          PageLimit,           \* MAX_MESSAGES of one GET
          OutOfOrderTolerance, \* generations the MLS receiver ratchet looks back
          Readers,             \* bound: the devices that open the conversation
          MaxSends,            \* bound: generations per sender
          MaxClock,            \* bound: milliseconds that pass
          MaxFaults            \* bound: failures and crashes

ASSUME DeliveryAssumption ==
    /\ PageLimit \in Nat \ {0}
    /\ OutOfOrderTolerance \in Nat
    /\ Attachments \subseteq Texts
    /\ Readers \subseteq Users
    /\ MaxSends \in [Users -> Nat]
    /\ MaxClock \in Nat
    /\ MaxFaults \in Nat
    /\ Senders \cap Flushers = {}
    /\ "gone" \notin Senders \cup Flushers

Callers == Senders \cup Flushers
Fetchers == {"get_messages", "fetch_new_messages"}
Messages == UNION {[from : {u}, gen : 1..MaxSends[u], text : Texts] : u \in Users}

VARIABLES
    messages,     \* server table, a sequence: the position is the row id
    clock,        \* the server's clock
    requests,     \* POSTs on their way: [msg, by]
    handlers,     \* POSTs past the timestamp, before the INSERT: [msg, by, ts]
    replies,      \* answers on their way back: [msg, by, id, ts]
    draft,        \* draft[u]: texts in u's hands, not submitted or handed back
    gen, savedGen,         \* sender ratchet: in memory, in the state file
    ratchet, savedRatchet, \* others' messages already decrypted: same
    encrypted,    \* sends after encrypt_message: [msg, by]
    pendingSends, \* the outbox tables of all devices
    posting,      \* calls that wait for an answer: [msg, by]
    acked,        \* calls with a success answer: [msg, by, id, ts, dropped]
    todo,         \* todo[u][f]: rows a retry listed and has not tried yet
    local,        \* local[u]: the message table of u's device: [id, ts, msg]
    fetch,        \* fetch[u][k]: the state of a fetch that holds the lock
    faults        \* how many things have gone wrong so far

sendVars == <<draft, gen, savedGen, encrypted, pendingSends, posting, acked, todo>>
wireVars == <<requests, handlers, replies>>
serverVars == <<messages, clock>>
recvVars == <<ratchet, savedRatchet, fetch>>
vars == <<sendVars, wireVars, serverVars, recvVars, local, faults>>

IdleFetch == [at |-> "idle", after |-> 0, existing |-> {}, page |-> {}, hand |-> {}]

Init ==
    /\ messages = <<>>
    /\ clock = 1
    /\ requests = {} /\ handlers = {} /\ replies = {}
    /\ draft = [u \in Users |-> Texts]
    /\ gen = [u \in Users |-> 0] /\ savedGen = [u \in Users |-> 0]
    /\ ratchet = [u \in Users |-> {}] /\ savedRatchet = [u \in Users |-> {}]
    /\ encrypted = {} /\ pendingSends = {} /\ posting = {} /\ acked = {}
    /\ todo = [u \in Users |-> [f \in Flushers |-> {}]]
    /\ local = [u \in Users |-> {}]
    /\ fetch = [u \in Users |-> [k \in Fetchers |-> IdleFetch]]
    /\ faults = 0

(***************************************************************************)
(* Helpers                                                                 *)
(***************************************************************************)
\* One more thing goes wrong.
Fault == faults < MaxFaults /\ faults' = faults + 1

RowOf(i) == [id |-> i, ts |-> messages[i].ts, msg |-> messages[i].msg]
Rows == {RowOf(i) : i \in 1..Len(messages)}

\* A call of u by the thread k is somewhere between encryption and return.
Busy(u, k) == \E c \in encrypted \cup posting \cup acked : c.msg.from = u /\ c.by = k

\* What the thread k of u left on the wire when it stopped waiting for it:
\* the server carries on, the answer reaches nobody.
Orphan(calls, u, K) ==
    {IF c.msg.from = u /\ c.by \in K THEN [c EXCEPT !.by = "gone"] ELSE c : c \in calls}

\* Mutation: save_state never runs.
SaveStateMissing(u, g, R) == UNCHANGED <<savedGen, savedRatchet>>
\* save_state writes the whole MLS state of u: sender and receiver ratchets.
SaveState(u, g, R) ==
    /\ savedGen' = [savedGen EXCEPT ![u] = g]
    /\ savedRatchet' = [savedRatchet EXCEPT ![u] = R]

LocalIds(u) == {e.id : e \in local[u]}

\* Mutation: rows unique by timestamp.
NewRowsByTime(u, r) == IF \E e \in local[u] : e.ts = r.ts THEN {} ELSE {r}
\* What INSERT OR IGNORE adds to u's table: rows are unique by id.
NewRows(u, r) == IF r.id \in LocalIds(u) THEN {} ELSE {r}

\* Mutation: deletes by conversation.
OutboxRowsOfSender(c) == {m \in pendingSends : m.from = c.msg.from}
\* Mutation: deletes nothing.
NoOutboxRows(c) == {}
\* The outbox rows an acknowledged call deletes: its client_message_id.
OutboxRows(c) == {c.msg}

\* t is SELECT MAX(timestamp) over u's table, 0 when the table is empty.
IsLatest(u, t) ==
    /\ t = 0 \/ \E e \in local[u] : e.ts = t
    /\ \A e \in local[u] : e.ts <= t

\* The receiver ratchet still has the key of m: never used, and not further
\* behind the newest generation than the tolerance.
CanDecrypt(u, m) ==
    /\ m \notin ratchet[u]
    /\ \A n \in ratchet[u] :
          n.from = m.from => n.gen + 1 <= m.gen + OutOfOrderTolerance

(***************************************************************************)
(* Sending: send_message for texts, send_media for attachments             *)
(***************************************************************************)
\* The user submits a text; encrypt_message advances the sender ratchet and
\* saves it before anything else happens.
Encrypt(u, t, k) ==
    /\ t \in draft[u]
    /\ ~Busy(u, k)
    /\ gen[u] < MaxSends[u]
    /\ draft' = [draft EXCEPT ![u] = @ \ {t}]
    /\ gen' = [gen EXCEPT ![u] = @ + 1]
    /\ SaveState(u, gen[u] + 1, ratchet[u])
    /\ encrypted' = encrypted \cup
                    {[msg |-> [from |-> u, gen |-> gen[u] + 1, text |-> t], by |-> k]}
    /\ UNCHANGED <<pendingSends, posting, acked, todo, wireVars, serverVars,
                   ratchet, fetch, local, faults>>

\* save_state fails inside encrypt_message: the generation is burnt in memory,
\* the call returns an error and the page hands the text back.
EncryptFails(u, t, k) ==
    /\ t \in draft[u]
    /\ ~Busy(u, k)
    /\ gen[u] < MaxSends[u]
    /\ Fault
    /\ gen' = [gen EXCEPT ![u] = @ + 1]
    /\ UNCHANGED <<draft, savedGen, encrypted, pendingSends, posting, acked, todo,
                   wireVars, serverVars, recvVars, local>>

\* insert_pending_send, then the POST leaves.
InsertPendingSend(c) ==
    /\ c.msg.text \notin Attachments
    /\ encrypted' = encrypted \ {c}
    /\ pendingSends' = pendingSends \cup {c.msg}
    /\ posting' = posting \cup {c}
    /\ requests' = requests \cup {c}
    /\ UNCHANGED <<draft, gen, savedGen, acked, todo, handlers, replies,
                   serverVars, recvVars, local, faults>>

\* send_media posts what it encrypted without an outbox row.
PostAttachment(c) ==
    /\ c.msg.text \in Attachments
    /\ encrypted' = encrypted \ {c}
    /\ posting' = posting \cup {c}
    /\ requests' = requests \cup {c}
    /\ UNCHANGED <<draft, gen, savedGen, pendingSends, acked, todo, handlers, replies,
                   serverVars, recvVars, local, faults>>

\* The outbox insert fails: nothing is posted.
InsertPendingSendFails(c) ==
    /\ c.msg.text \notin Attachments
    /\ Fault
    /\ encrypted' = encrypted \ {c}
    /\ draft' = [draft EXCEPT ![c.msg.from] = @ \cup {c.msg.text}]
    /\ UNCHANGED <<gen, savedGen, pendingSends, posting, acked, todo, wireVars,
                   serverVars, recvVars, local>>

\* The POST ends in an error: refused, lost on the way out, lost on the way
\* back or timed out while the server works on it.  The outbox row, if there
\* is one, stays.  A send reports the error and the page hands the text back; a
\* retry goes on with its next row.
PostFails(c, delivered) ==
    LET u == c.msg.from IN
    /\ Fault
    /\ posting' = posting \ {c}
    /\ requests' = IF delivered THEN Orphan(requests, u, {c.by}) ELSE requests \ {c}
    /\ handlers' = Orphan(handlers, u, {c.by})
    /\ replies' = {r \in replies : ~(r.msg.from = u /\ r.by = c.by)}
    /\ draft' = IF c.by \in Senders
                THEN [draft EXCEPT ![u] = @ \cup {c.msg.text}] ELSE draft
    /\ UNCHANGED <<gen, savedGen, encrypted, pendingSends, acked, todo,
                   serverVars, recvVars, local>>

\* The success answer arrives; an attachment has no outbox row to drop.
PostSucceeds(r) ==
    /\ r.by # "gone"
    /\ replies' = replies \ {r}
    /\ posting' = posting \ {[msg |-> r.msg, by |-> r.by]}
    /\ acked' = acked \cup {[msg |-> r.msg, by |-> r.by, id |-> r.id, ts |-> r.ts,
                             dropped |-> r.msg.text \in Attachments]}
    /\ UNCHANGED <<draft, gen, savedGen, encrypted, pendingSends, todo, requests,
                   handlers, serverVars, recvVars, local, faults>>

\* delete_pending_send; its failure is logged and ignored.
DeletePendingSend(c) ==
    /\ ~c.dropped
    /\ \/ pendingSends' = pendingSends \ OutboxRows(c) /\ UNCHANGED faults
       \/ UNCHANGED pendingSends /\ Fault
    /\ acked' = (acked \ {c}) \cup {[c EXCEPT !.dropped = TRUE]}
    /\ UNCHANGED <<draft, gen, savedGen, encrypted, posting, todo, wireVars,
                   serverVars, recvVars, local>>

\* store_message (INSERT OR IGNORE on the row id) ends the call.
StoreOwnMessage(c) ==
    /\ c.dropped
    /\ acked' = acked \ {c}
    /\ local' = [local EXCEPT ![c.msg.from] =
                    @ \cup NewRows(c.msg.from, [id |-> c.id, ts |-> c.ts, msg |-> c.msg])]
    /\ UNCHANGED <<draft, gen, savedGen, encrypted, pendingSends, posting, todo,
                   wireVars, serverVars, recvVars, faults>>

\* store_message fails: send_message reports an error for a message the server
\* has, a retry only logs it.
StoreOwnMessageFails(c) ==
    /\ c.dropped
    /\ Fault
    /\ acked' = acked \ {c}
    /\ draft' = IF c.by \in Senders
                THEN [draft EXCEPT ![c.msg.from] = @ \cup {c.msg.text}] ELSE draft
    /\ UNCHANGED <<gen, savedGen, encrypted, pendingSends, posting, todo, wireVars,
                   serverVars, recvVars, local>>

(***************************************************************************)
(* Retrying: retry_pending_sends, called on every WebSocket authentication *)
(***************************************************************************)
FlushIdle(u, f) == todo[u][f] = {} /\ ~Busy(u, f)

\* list_pending_sends: the rows of this device at this moment.
FlushStart(u, f) ==
    LET mine == {m \in pendingSends : m.from = u} IN
    /\ FlushIdle(u, f)
    /\ mine # {}
    /\ todo' = [todo EXCEPT ![u][f] = mine]
    /\ UNCHANGED <<draft, gen, savedGen, encrypted, pendingSends, posting, acked,
                   wireVars, serverVars, recvVars, local, faults>>

\* The oldest listed row is posted again with its client_message_id, whatever
\* has happened to the row since it was listed.
FlushNext(u, f) ==
    /\ ~Busy(u, f)
    /\ \E m \in todo[u][f] :
          /\ \A n \in todo[u][f] : m.gen <= n.gen
          /\ todo' = [todo EXCEPT ![u][f] = @ \ {m}]
          /\ posting' = posting \cup {[msg |-> m, by |-> f]}
          /\ requests' = requests \cup {[msg |-> m, by |-> f]}
    /\ UNCHANGED <<draft, gen, savedGen, encrypted, pendingSends, acked,
                   handlers, replies, serverVars, recvVars, local, faults>>

(***************************************************************************)
(* The server: send_message and get_messages                               *)
(***************************************************************************)
Tick ==
    /\ clock < MaxClock
    /\ clock' = clock + 1
    /\ UNCHANGED <<sendVars, wireVars, messages, recvVars, local, faults>>

\* The handler checks membership and reads the clock ...
ServerStamp(c) ==
    /\ requests' = requests \ {c}
    /\ handlers' = handlers \cup {[msg |-> c.msg, by |-> c.by, ts |-> clock]}
    /\ UNCHANGED <<sendVars, replies, serverVars, recvVars, local, faults>>

\* Mutation: no dedupe.
HeldNever(m) == {}
\* The rows that already carry this (sender, client_message_id).
Held(m) == {i \in 1..Len(messages) : messages[i].msg = m}

\* Mutation: the row carries the handler's timestamp, the answer a fresh one.
AnswerNow(h) ==
    [msg |-> h.msg, by |-> h.by, ts |-> clock,
     id |-> IF Held(h.msg) = {} THEN Len(messages) + 1 ELSE CHOOSE i \in Held(h.msg) : TRUE]
\* What the handler answers: the new row, or the one that was there.
Answer(h) ==
    IF Held(h.msg) = {}
    THEN [msg |-> h.msg, by |-> h.by, ts |-> h.ts, id |-> Len(messages) + 1]
    ELSE LET i == CHOOSE i \in Held(h.msg) : TRUE
         IN  [msg |-> h.msg, by |-> h.by, ts |-> messages[i].ts, id |-> i]

\* Somebody still waits for the answer.
Heard(by) == by # "gone"

\* ... and later inserts the row, or finds the row that already carries this
\* client_message_id and answers with that row's id and timestamp.
ServerInsert(h) ==
    /\ handlers' = handlers \ {h}
    /\ messages' = IF Held(h.msg) = {} THEN Append(messages, [msg |-> h.msg, ts |-> h.ts])
                   ELSE messages
    /\ replies' = replies \cup (IF Heard(h.by) THEN {Answer(h)} ELSE {})
    /\ UNCHANGED <<sendVars, requests, clock, recvVars, local, faults>>

\* The rows one GET may return: without a cursor the newest PageLimit rows,
\* with one the oldest PageLimit rows strictly after it.
Page(after, page) ==
    LET newer == {r \in Rows : r.ts > after} IN
    /\ page \subseteq newer
    /\ Cardinality(page) =
          IF Cardinality(newer) < PageLimit THEN Cardinality(newer) ELSE PageLimit
    /\ \A r \in page, s \in newer \ page :
          IF after = 0 THEN s.ts <= r.ts ELSE r.ts <= s.ts

(***************************************************************************)
(* Receiving: get_messages and fetch_new_messages                          *)
(***************************************************************************)
\* Mutation: no conversation lock.
NoLock(u) == TRUE
\* The conversation lock is free: it is held from before the cursor is read
\* until the call returns.
LockFree(u) == \A k \in Fetchers : fetch[u][k].at = "idle"

\* Take the lock, read the cursor (and, in get_messages, the known ids), ask.
FetchStart(u, k) ==
    /\ u \in Readers
    /\ LockFree(u)
    /\ \E t \in 0..clock :
          /\ IsLatest(u, t)
          /\ fetch' = [fetch EXCEPT ![u][k] =
                [at |-> "asked", after |-> t, page |-> {}, hand |-> {},
                 existing |-> IF k = "get_messages" THEN LocalIds(u) ELSE {}]]
    /\ UNCHANGED <<sendVars, wireVars, serverVars, ratchet, savedRatchet, local, faults>>

\* The GET is served and its answer arrives; fetch_new_messages reads the
\* known ids only now.  An empty page ends the call.
FetchAnswered(u, k) ==
    /\ fetch[u][k].at = "asked"
    /\ \E page \in SUBSET Rows :
          /\ Page(fetch[u][k].after, page)
          /\ fetch' = [fetch EXCEPT ![u][k] =
                IF page = {} THEN IdleFetch
                ELSE [at |-> "working", after |-> fetch[u][k].after,
                      page |-> page, hand |-> {},
                      existing |-> IF k = "get_messages" THEN fetch[u][k].existing
                                   ELSE LocalIds(u)]]
    /\ UNCHANGED <<sendVars, wireVars, serverVars, ratchet, savedRatchet, local, faults>>

\* The GET fails; it changed nothing on the server.
FetchFails(u, k) ==
    /\ fetch[u][k].at = "asked"
    /\ Fault
    /\ fetch' = [fetch EXCEPT ![u][k] = IdleFetch]
    /\ UNCHANGED <<sendVars, wireVars, serverVars, ratchet, savedRatchet, local>>

\* Mutation: the loop moves on although a decrypted row is still in hand.
AtRowUnstored(u, k, r) ==
    /\ fetch[u][k].at = "working"
    /\ r \in fetch[u][k].page
    /\ \A s \in fetch[u][k].page : r.ts <= s.ts
\* The loop is at row r: rows are handled in the order of their timestamps,
\* one at a time.
AtRow(u, k, r) ==
    /\ fetch[u][k].at = "working"
    /\ fetch[u][k].hand = {}
    /\ r \in fetch[u][k].page
    /\ \A s \in fetch[u][k].page : r.ts <= s.ts

\* The loop tries to decrypt r: not known locally and not u's own.
Attempts(u, k, r) ==
    AtRow(u, k, r) /\ r.id \notin fetch[u][k].existing /\ r.msg.from # u

\* A known row, an own row, or one whose key is gone (logged and skipped).
SkipRow(u, k, r) ==
    /\ AtRow(u, k, r)
    /\ ~(Attempts(u, k, r) /\ CanDecrypt(u, r.msg))
    /\ fetch' = [fetch EXCEPT ![u][k].page = @ \ {r}]
    /\ UNCHANGED <<sendVars, wireVars, serverVars, ratchet, savedRatchet, local, faults>>

\* decrypt_message uses up the key of r and saves the whole MLS state.
DecryptRow(u, k, r) ==
    /\ Attempts(u, k, r)
    /\ CanDecrypt(u, r.msg)
    /\ ratchet' = [ratchet EXCEPT ![u] = @ \cup {r.msg}]
    /\ SaveState(u, gen[u], ratchet[u] \cup {r.msg})
    /\ fetch' = [fetch EXCEPT ![u][k].page = @ \ {r}, ![u][k].hand = {r}]
    /\ UNCHANGED <<draft, gen, encrypted, pendingSends, posting, acked, todo,
                   wireVars, serverVars, local, faults>>

\* The key is used up in memory but save_state fails: an error, row skipped.
DecryptRowUnsaved(u, k, r) ==
    /\ Attempts(u, k, r)
    /\ CanDecrypt(u, r.msg)
    /\ Fault
    /\ ratchet' = [ratchet EXCEPT ![u] = @ \cup {r.msg}]
    /\ fetch' = [fetch EXCEPT ![u][k].page = @ \ {r}]
    /\ UNCHANGED <<sendVars, wireVars, serverVars, savedRatchet, local>>

\* store_messages for the one row in hand, before the next row is touched.
StoreRow(u, k) ==
    /\ \E r \in fetch[u][k].hand :
          local' = [local EXCEPT ![u] = @ \cup NewRows(u, r)]
    /\ fetch' = [fetch EXCEPT ![u][k].hand = {}]
    /\ UNCHANGED <<sendVars, wireVars, serverVars, ratchet, savedRatchet, faults>>

\* store_messages fails: the whole call returns the error.
StoreRowFails(u, k) ==
    /\ fetch[u][k].hand # {}
    /\ Fault
    /\ fetch' = [fetch EXCEPT ![u][k] = IdleFetch]
    /\ UNCHANGED <<sendVars, wireVars, serverVars, ratchet, savedRatchet, local>>

FetchReturns(u, k) ==
    /\ fetch[u][k].at = "working"
    /\ fetch[u][k].page = {} /\ fetch[u][k].hand = {}
    /\ fetch' = [fetch EXCEPT ![u][k] = IdleFetch]
    /\ UNCHANGED <<sendVars, wireVars, serverVars, ratchet, savedRatchet, local, faults>>

(***************************************************************************)
(* The device dies and starts again: everything in memory is gone, what is *)
(* on disk (MLS state file, outbox, message table) comes back.             *)
(***************************************************************************)
Crash(u) ==
    /\ Fault
    /\ gen' = [gen EXCEPT ![u] = savedGen[u]]
    /\ ratchet' = [ratchet EXCEPT ![u] = savedRatchet[u]]
    /\ encrypted' = {c \in encrypted : c.msg.from # u}
    /\ posting' = {c \in posting : c.msg.from # u}
    /\ acked' = {c \in acked : c.msg.from # u}
    /\ todo' = [todo EXCEPT ![u] = [f \in Flushers |-> {}]]
    /\ fetch' = [fetch EXCEPT ![u] = [k \in Fetchers |-> IdleFetch]]
    /\ requests' = Orphan(requests, u, Callers)
    /\ handlers' = Orphan(handlers, u, Callers)
    /\ replies' = {r \in replies : r.msg.from # u}
    /\ UNCHANGED <<draft, savedGen, savedRatchet, pendingSends, serverVars, local>>

-----------------------------------------------------------------------------
SendStep(u) ==
    \/ \E t \in Texts, k \in Senders : Encrypt(u, t, k) \/ EncryptFails(u, t, k)
    \/ \E f \in Flushers : FlushStart(u, f) \/ FlushNext(u, f)

CallStep ==
    \/ \E c \in encrypted : InsertPendingSend(c) \/ InsertPendingSendFails(c)
                               \/ PostAttachment(c)
    \/ \E c \in posting, delivered \in BOOLEAN : PostFails(c, delivered)
    \/ \E r \in replies : PostSucceeds(r)
    \/ \E c \in acked : DeletePendingSend(c) \/ StoreOwnMessage(c)
                           \/ StoreOwnMessageFails(c)

ServerStep ==
    \/ \E c \in requests : ServerStamp(c)
    \/ \E h \in handlers : ServerInsert(h)

FetchStep(u, k) ==
    \/ FetchStart(u, k) \/ FetchAnswered(u, k) \/ FetchFails(u, k)
    \/ \E r \in fetch[u][k].page :
          SkipRow(u, k, r) \/ DecryptRow(u, k, r) \/ DecryptRowUnsaved(u, k, r)
    \/ StoreRow(u, k) \/ StoreRowFails(u, k) \/ FetchReturns(u, k)

Next ==
    \/ \E u \in Users : SendStep(u) \/ Crash(u)
    \/ CallStep
    \/ ServerStep
    \/ \E u \in Users, k \in Fetchers : FetchStep(u, k)
    \/ Tick

Spec == Init /\ [][Next]_vars

(***************************************************************************)
(* Fairness: the server answers, a call that has its answer finishes, and  *)
(* a retry that is running goes on with its next row.  Nothing starts a    *)
(* retry but an authentication of the WebSocket, which need not come on a  *)
(* socket that stays up; nothing obliges a user to send or to fetch.       *)
(***************************************************************************)
FairSpec ==
    /\ Spec
    /\ WF_vars(CallStep)
    /\ WF_vars(ServerStep)
    /\ \A u \in Users, f \in Flushers : WF_vars(FlushNext(u, f))

-----------------------------------------------------------------------------
Accepted == {messages[i].msg : i \in 1..Len(messages)}

RowType == [id : Nat, ts : Nat, msg : Messages]

FetchType == [at : {"idle", "asked", "working"}, after : Nat, existing : SUBSET Nat,
              page : SUBSET RowType, hand : SUBSET RowType]

TypeOK ==
    /\ messages \in Seq([msg : Messages, ts : Nat])
    /\ clock \in Nat
    /\ requests \subseteq [msg : Messages, by : Callers \cup {"gone"}]
    /\ handlers \subseteq [msg : Messages, by : Callers \cup {"gone"}, ts : Nat]
    /\ replies \subseteq [msg : Messages, by : Callers, id : Nat, ts : Nat]
    /\ draft \in [Users -> SUBSET Texts]
    /\ gen \in [Users -> Nat] /\ savedGen \in [Users -> Nat]
    /\ ratchet \in [Users -> SUBSET Messages]
    /\ savedRatchet \in [Users -> SUBSET Messages]
    /\ encrypted \subseteq [msg : Messages, by : Callers]
    /\ pendingSends \subseteq Messages
    /\ posting \subseteq [msg : Messages, by : Callers]
    /\ acked \subseteq [msg : Messages, by : Callers, id : Nat, ts : Nat, dropped : BOOLEAN]
    /\ todo \in [Users -> [Flushers -> SUBSET Messages]]
    /\ local \in [Users -> SUBSET RowType]
    /\ fetch \in [Users -> [Fetchers -> FetchType]]
    /\ faults \in Nat

\* However often a message is posted, by how many calls at once and whatever
\* answers are lost, the server holds it at most once (the unique index on
\* sender and client_message_id and the dedupe branch of send_message).
AcceptedOnce ==
    \A i, j \in 1..Len(messages) : messages[i].msg = messages[j].msg => i = j

\* A text some call or retry list still works on is in the outbox or on the
\* server: no order of replies, timeouts and restarts makes it vanish between.
OutboxUntilAccepted ==
    /\ \A c \in posting \cup requests \cup handlers :
          c.msg.text \notin Attachments => c.msg \in pendingSends \cup Accepted
    /\ \A u \in Users, f \in Flushers : todo[u][f] \subseteq pendingSends \cup Accepted

\* An outbox row is deleted only for a message the server has.
DroppedOnlyIfAccepted ==
    [][\A m \in pendingSends : m \notin pendingSends' => m \in Accepted]_vars

\* Every device holds a message under the id and the timestamp the server
\* stored, the sender's own copy after a deduplicated retry included: all
\* devices show one order.
LocalAgreesWithServer ==
    \A u \in Users : \A e \in local[u] :
        /\ e.id \in 1..Len(messages)
        /\ e = RowOf(e.id)

\* Decryption and storage move together: messages whose key is used up but
\* which are neither stored nor in hand number at most one per fault.
Unread(u) ==
    {m \in ratchet[u] :
        ~ \E e \in local[u] \cup UNION {fetch[u][k].hand : k \in Fetchers} : e.msg = m}
LossBoundedByFaults == \A u \in Users : Cardinality(Unread(u)) <= faults

\* No fetch ever hands MLS a ciphertext whose plaintext is already stored, so
\* two overlapping fetches cannot burn the ratchet (the conversation lock).
NeverDecryptsStored ==
    \A u \in Users, k \in Fetchers : \A r \in fetch[u][k].page :
        Attempts(u, k, r) => r.id \notin LocalIds(u)

\* A generation is encrypted under once, across failed saves and restarts:
\* nothing that exists anywhere carries the generation a new message gets.
FreshGenerations ==
    [][\A c \in encrypted' \ encrypted :
          \A m \in pendingSends \cup Accepted \cup {d.msg : d \in encrypted \cup requests} :
              m.from = c.msg.from => m.gen # c.msg.gen]_vars

\* The sender's own copies that are nowhere: accepted, out of the outbox, not
\* stored and in no call that will store them.
OwnCopiesLost(u) ==
    {m \in Accepted : /\ m.from = u
                      /\ m \notin pendingSends
                      /\ ~ \E e \in local[u] : e.msg = m
                      /\ ~ \E c \in posting \cup acked : c.msg = m}
\* As long as nothing fails, an accepted message leaves the outbox only for
\* the sender's own history.
OwnCopyKept == faults = 0 => \A u \in Users : OwnCopiesLost(u) = {}

\* The devices and the server together implement the abstract log.
Log == INSTANCE MessageLog WITH
          log <- [i \in 1..Len(messages) |-> messages[i].msg],
          shown <- [u \in Users |-> LocalIds(u)]
ImplementsLog == Log!Spec

\* One retry during which nothing goes wrong drains what it has listed: every
\* row is accepted by the server and deleted, whatever went wrong before and
\* whichever call still posts the same row.  (A row whose POST failed waits for
\* the next authentication; until then nothing retries it.)
OutboxDrains ==
    \A u \in Users, f \in Flushers, n \in 0..MaxFaults :
        \A g \in 1..MaxSends[u], t \in Texts :
        LET m == [from |-> u, gen |-> g, text |-> t]
        IN  (m \in todo[u][f] /\ faults = n)
                ~> ((m \in Accepted /\ m \notin pendingSends) \/ faults > n)

(***************************************************************************)
(* What comments and the changelog say and the code does not do            *)
(***************************************************************************)
\* "Only ask the server for messages newer than what we already have": a row
\* the cursor has passed is one the device has, or has at least decrypted.
CursorSkipsNothing ==
    \A u \in Readers, i \in 1..Len(messages) :
        (LockFree(u) /\ messages[i].msg.from # u /\ messages[i].msg \notin ratchet[u])
            => \A e \in local[u] : e.ts < messages[i].ts

\* "the server collapses repeated submissions to the same logical message":
\* a text submitted once by its author is one message.
OneRowPerText ==
    \A i, j \in 1..Len(messages) :
        (messages[i].msg.from = messages[j].msg.from
            /\ messages[i].msg.text = messages[j].msg.text) => i = j

\* "the desktop client persists an outbox so in-flight sends survive an app
\* restart": what a call posts is posted on, in the outbox, accepted, or handed
\* back to its author.
InFlightSurvives ==
    [][\A c \in posting : \/ c \in posting'
                          \/ c.msg \in pendingSends' \cup Accepted'
                          \/ c.msg.text \in draft'[c.msg.from]]_vars

\* "in-flight sends survive an app restart": the sender's own copy, too.
OwnCopySurvives == \A u \in Users : OwnCopiesLost(u) = {}

\* "Decrypt and persist each new message in lockstep with the MLS ratchet".
RatchetInLockstep == \A u \in Users : Unread(u) = {}
=============================================================================

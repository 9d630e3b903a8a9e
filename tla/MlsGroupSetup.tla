---------------------------- MODULE MlsGroupSetup ----------------------------
(***************************************************************************)
(* How the two members of a direct conversation come to share one MLS      *)
(* group.  There is no set-up phase: whoever sends first and has no group  *)
(* claims a key package of the other, builds a group, registers it with    *)
(* the server and embeds the welcome in the message.  A refused caller     *)
(* throws its group away and looks for a welcome in the history.  Both     *)
(* members, and two sends of one member, may do all this at once.          *)
(*                                                                         *)
(* Messages travel as MessageDelivery shows they do: what is in the outbox *)
(* is accepted once.  A row's position in the table stands for its         *)
(* timestamp as well.                                                      *)
(***************************************************************************)
EXTENDS Naturals, Sequences, FiniteSets

CONSTANTS Users,     \* the members, one device each
          Callers,   \* send_message / send_media calls a device may overlap
          MaxSends,  \* bound: sends each user starts
          MaxGroups, \* bound: groups each user builds
          MaxFaults  \* bound: failures and crashes

ASSUME SetupAssumption ==
    /\ MaxSends \in [Users -> Nat]
    /\ MaxGroups \in Nat
    /\ MaxFaults \in Nat
    /\ "gone" \notin Callers

\* A group is named by its builder and a serial number (a random id in the code).
Groups == [by : Users, n : 1..MaxGroups]
Stages == {"idle", "claim", "register", "commit", "history", "ready", "posting"}

VARIABLES
    groups,      \* server: registered groups
    confirmed,   \* server: members with confirmed_epoch >= 1: [gid, user]
    queue,       \* server: mls_welcome_messages; here only commits: [to, gid]
    table,       \* server: message rows [from, by, n, gid, welcome]
    registering, \* POSTs of register_group: [gid, by, checked]
    answers,     \* their answers: [gid, by, ok]
    mapping,     \* mapping[u]: the group of the conversation, {} or {g}
    held,        \* held[u]: groups whose state u's device has
    saved,       \* saved[u]: the metadata file's mapping, the key store's groups
    built,       \* built[u]: how many groups u has made
    call,        \* call[u][k]: a send: [at, n, gid, welcome], gid and welcome {} or {g}
    started,     \* started[u]: how many sends u has begun
    outbox,      \* encrypted messages on their way to the table
    local,       \* local[u]: positions of the rows u can show
    page,        \* page[u]: positions a fetch still has to handle
    joining,     \* joining[u]: the fetch has not looked for welcomes yet
    handed,      \* handed[u]: groups of queue rows fetch_welcomes is working on
    discarded,   \* history: groups a refused caller threw away, state files written
    overlap,     \* history: two registrations have been under way at once
    faults

serverVars == <<groups, confirmed, registering, answers>>
mlsVars == <<mapping, held, saved>>
readVars == <<local, page, joining, handed>>
vars == <<serverVars, queue, table, mlsVars, built, call, started, outbox, readVars,
          discarded, overlap, faults>>

NoCall == [at |-> "idle", n |-> 0, gid |-> {}, welcome |-> {}]

Init ==
    /\ groups = {} /\ confirmed = {} /\ queue = {} /\ table = <<>>
    /\ registering = {} /\ answers = {}
    /\ mapping = [u \in Users |-> {}] /\ held = [u \in Users |-> {}]
    /\ saved = [u \in Users |-> [mapping |-> {}, held |-> {}]]
    /\ built = [u \in Users |-> 0]
    /\ call = [u \in Users |-> [k \in Callers |-> NoCall]]
    /\ started = [u \in Users |-> 0]
    /\ outbox = {}
    /\ local = [u \in Users |-> {}] /\ page = [u \in Users |-> {}]
    /\ joining = [u \in Users |-> FALSE] /\ handed = [u \in Users |-> {}]
    /\ discarded = {} /\ overlap = FALSE /\ faults = 0

(***************************************************************************)
(* Helpers                                                                 *)
(***************************************************************************)
Fault == faults < MaxFaults /\ faults' = faults + 1

SetCall(u, k, stage, gid, welcome) ==
    call' = [call EXCEPT ![u][k] = [at |-> stage, n |-> @.n, gid |-> gid, welcome |-> welcome]]
EndCall(u, k) == call' = [call EXCEPT ![u][k] = NoCall]

\* The MLS state of u in memory becomes mapping M and groups H.
SetState(u, M, H) ==
    /\ mapping' = [mapping EXCEPT ![u] = M]
    /\ held' = [held EXCEPT ![u] = H]

\* Mutation: the state files are not written.
SaveForgotten(u, M, H) == UNCHANGED saved
\* save_state writes the key store, then the metadata: both have what memory has.
Save(u, M, H) == saved' = [saved EXCEPT ![u] = [mapping |-> M, held |-> H]]
\* It fails at the first file or at the second, which keeps the old mapping
\* beside a key store with the new groups.
SaveFails(u, H) == Fault /\ saved' \in {saved, [saved EXCEPT ![u].held = @ \cup H]}

\* u's requests that nobody waits for any more.
Orphan(calls, u, K) ==
    {IF r.gid.by = u /\ r.by \in K THEN [r EXCEPT !.by = "gone"] ELSE r : r \in calls}

\* The first row among positions I whose welcome lets u join: somebody else's,
\* and for a group u's device does not hold (a key package opens one welcome).
Opens(u, i) == table[i].from # u /\ table[i].welcome # {} /\ table[i].welcome \cap held[u] = {}
\* Mutation: only the oldest row is looked at.
OldestRowOnly(u, I) == {i \in I : Opens(u, i) /\ \A j \in I : i <= j}
\* process_pending_embedded_welcomes takes the first that opens.
FirstWelcome(u, I) == {i \in I : Opens(u, i) /\ \A j \in I : Opens(u, j) => i <= j}

\* process_welcome over the rows at positions I, oldest first: without a
\* mapping the first usable welcome gives one, with a mapping all are dropped.
ProcessWelcomes(u, I) ==
    IF mapping[u] # {} \/ FirstWelcome(u, I) = {}
    THEN UNCHANGED mlsVars /\ UNCHANGED faults
    ELSE \E i \in FirstWelcome(u, I) :
            LET g == table[i].welcome IN
            /\ SetState(u, g, held[u] \cup g)
            /\ \/ Save(u, g, held[u] \cup g) /\ UNCHANGED faults
               \/ SaveFails(u, held[u] \cup g)

(***************************************************************************)
(* The sender: send_message with create_group inlined                      *)
(***************************************************************************)
\* has_group decides between using the group and building one.
Begin(u, k) ==
    /\ call[u][k].at = "idle"
    /\ started[u] < MaxSends[u]
    /\ started' = [started EXCEPT ![u] = @ + 1]
    /\ call' = [call EXCEPT ![u][k] =
                  [at |-> IF mapping[u] = {} THEN "claim" ELSE "ready",
                   n |-> started[u] + 1, gid |-> {}, welcome |-> {}]]
    /\ UNCHANGED <<serverVars, queue, table, mlsVars, built, outbox, readVars,
                   discarded, overlap, faults>>

\* No key package, or the request fails.
ClaimFails(u, k) ==
    /\ call[u][k].at = "claim"
    /\ Fault
    /\ EndCall(u, k)
    /\ UNCHANGED <<serverVars, queue, table, mlsVars, built, started, outbox, readVars,
                   discarded, overlap>>

NewGroup(u) == [by |-> u, n |-> built[u] + 1]

\* The key package arrives: the new group is mapped to the conversation, over
\* whatever was mapped meanwhile, and saved; the registration leaves.
Build(u, k) ==
    /\ call[u][k].at = "claim"
    /\ built[u] < MaxGroups
    /\ built' = [built EXCEPT ![u] = @ + 1]
    /\ SetState(u, {NewGroup(u)}, held[u] \cup {NewGroup(u)})
    /\ Save(u, {NewGroup(u)}, held[u] \cup {NewGroup(u)})
    /\ SetCall(u, k, "register", {NewGroup(u)}, {})
    /\ registering' = registering \cup {[gid |-> NewGroup(u), by |-> k, checked |-> FALSE]}
    /\ overlap' = (overlap \/ registering # {})
    /\ UNCHANGED <<groups, confirmed, answers, queue, table, started, outbox, readVars,
                   discarded, faults>>

\* save_state fails: an error, but memory keeps the group.
BuildUnsaved(u, k) ==
    /\ call[u][k].at = "claim"
    /\ built[u] < MaxGroups
    /\ built' = [built EXCEPT ![u] = @ + 1]
    /\ SetState(u, {NewGroup(u)}, held[u] \cup {NewGroup(u)})
    /\ SaveFails(u, held[u] \cup {NewGroup(u)})
    /\ EndCall(u, k)
    /\ UNCHANGED <<serverVars, queue, table, started, outbox, readVars,
                   discarded, overlap>>

\* The registration is lost, or its answer is, or the caller times out.  The
\* group stays mapped although nobody will ever send its welcome.
RegisterFails(u, k, delivered) ==
    /\ call[u][k].at = "register"
    /\ Fault
    /\ registering' = IF delivered THEN Orphan(registering, u, {k})
                      ELSE {r \in registering : ~(r.gid.by = u /\ r.by = k)}
    /\ answers' = {r \in answers : ~(r.gid.by = u /\ r.by = k)}
    /\ EndCall(u, k)
    /\ UNCHANGED <<groups, confirmed, queue, table, mlsVars, built, started, outbox,
                   readVars, discarded, overlap>>

\* The server took the group: next its commit is fanned out.
Registered(u, k) ==
    /\ call[u][k].at = "register"
    /\ \E r \in answers :
          /\ r.gid \in call[u][k].gid /\ r.by = k /\ r.ok
          /\ answers' = answers \ {r}
    /\ SetCall(u, k, "commit", call[u][k].gid, {})
    /\ UNCHANGED <<groups, confirmed, registering, queue, table, mlsVars, built, started,
                   outbox, readVars, discarded, overlap, faults>>

\* Mutation: the refused group stays.
RefusalIgnored(u, g) == [mapping |-> mapping[u], held |-> held[u]]
\* What the refusal of g leaves u: conversation_groups.remove takes away the
\* mapping of the conversation, whichever group it is by now.
AfterRefusal(u, g) == [mapping |-> {}, held |-> held[u] \ g]

\* The server has a group: the local one is thrown away.  A failed save leaves
\* it in the metadata, and a restart brings it back.
Refused(u, k) ==
    LET rest == AfterRefusal(u, call[u][k].gid) IN
    /\ call[u][k].at = "register"
    /\ \E r \in answers :
          /\ r.gid \in call[u][k].gid /\ r.by = k /\ ~r.ok
          /\ answers' = answers \ {r}
    /\ SetState(u, rest.mapping, rest.held)
    /\ \/ /\ Save(u, rest.mapping, rest.held)
          /\ discarded' = discarded \cup call[u][k].gid
          /\ SetCall(u, k, "history", {}, {})
          /\ UNCHANGED faults
       \/ SaveFails(u, rest.held) /\ EndCall(u, k) /\ UNCHANGED discarded
    /\ UNCHANGED <<groups, confirmed, registering, queue, table, built, started,
                   outbox, readVars, overlap>>

\* fetch_and_process_pending_welcomes; without a group the send fails.
JoinFromHistory(u, k) ==
    /\ call[u][k].at = "history"
    /\ ProcessWelcomes(u, 1..Len(table))
    /\ IF mapping'[u] # {} THEN SetCall(u, k, "ready", {}, {}) ELSE EndCall(u, k)
    /\ UNCHANGED <<serverVars, queue, table, built, started, outbox, readVars,
                   discarded, overlap>>

HistoryFails(u, k) ==
    /\ call[u][k].at = "history"
    /\ Fault
    /\ EndCall(u, k)
    /\ UNCHANGED <<serverVars, queue, table, mlsVars, built, started, outbox, readVars,
                   discarded, overlap>>

\* Mutation: the welcome is not handed to the caller.
WelcomeForgotten(g) == {}
\* CreateGroupOutcome::NewGroup carries the welcome the first message embeds.
WelcomeOf(g) == g

\* fan_out_commit puts the commit into the welcome queue of everyone else.
Commit(u, k) ==
    /\ call[u][k].at = "commit"
    /\ queue' = queue \cup [to : Users \ {u}, gid : call[u][k].gid]
    /\ SetCall(u, k, "ready", {}, WelcomeOf(call[u][k].gid))
    /\ UNCHANGED <<serverVars, table, mlsVars, built, started, outbox, readVars,
                   discarded, overlap, faults>>

\* The commit request or its answer is lost: the send fails, its welcome with it.
CommitFails(u, k, delivered) ==
    /\ call[u][k].at = "commit"
    /\ Fault
    /\ queue' = IF delivered THEN queue \cup [to : Users \ {u}, gid : call[u][k].gid] ELSE queue
    /\ EndCall(u, k)
    /\ UNCHANGED <<serverVars, table, mlsVars, built, started, outbox, readVars,
                   discarded, overlap>>

\* encrypt_message under the group mapped now, whose ratchet it saves, then the
\* outbox and the POST; without a mapping the send fails.
Encrypt(u, k) ==
    /\ call[u][k].at = "ready"
    /\ outbox' = outbox \cup [from : {u}, by : {k}, n : {call[u][k].n},
                              gid : mapping[u] \cap held[u], welcome : {call[u][k].welcome}]
    /\ IF mapping[u] \cap held[u] = {}
       THEN EndCall(u, k) /\ UNCHANGED saved
       ELSE SetCall(u, k, "posting", {}, {}) /\ Save(u, mapping[u], held[u])
    /\ UNCHANGED <<serverVars, queue, table, mapping, held, built, started, readVars,
                   discarded, overlap, faults>>

\* The call gives up; the outbox row stays and is retried.
PostFails(u, k) ==
    /\ call[u][k].at = "posting"
    /\ Fault
    /\ EndCall(u, k)
    /\ UNCHANGED <<serverVars, queue, table, mlsVars, built, started, outbox, readVars,
                   discarded, overlap>>

\* The ciphertext never reaches the outbox: encrypt_message cannot save, or it
\* can and the write to the outbox or an attachment's request fails.  A welcome
\* it carried is gone.
SendLost(u, k) ==
    /\ call[u][k].at = "ready"
    /\ mapping[u] \cap held[u] # {}
    /\ \/ SaveFails(u, held[u])
       \/ Save(u, mapping[u], held[u]) /\ Fault
    /\ EndCall(u, k)
    /\ UNCHANGED <<serverVars, queue, table, mapping, held, built, started, outbox, readVars,
                   discarded, overlap>>

\* The outbox delivers: the server appends the row, the sender keeps its copy,
\* the call that posted it, if it still waits, is over.
Accept(m) ==
    /\ m \in outbox
    /\ outbox' = outbox \ {m}
    /\ table' = Append(table, m)
    /\ local' = [local EXCEPT ![m.from] = @ \cup {Len(table) + 1}]
    /\ IF call[m.from][m.by].n = m.n THEN EndCall(m.from, m.by) ELSE UNCHANGED call
    /\ UNCHANGED <<serverVars, queue, mlsVars, built, started, page, joining,
                   handed, discarded, overlap, faults>>

(***************************************************************************)
(* The server: register_group, a transaction without a lock                *)
(***************************************************************************)
\* The answer, if the caller still waits for it.
Answer(r, ok) ==
    IF r.by = "gone" THEN {} ELSE {[gid |-> r.gid, by |-> r.by, ok |-> ok]}

\* Mutation: looks for the group being registered only.
SameGroup(r) == groups \cap {r.gid}
\* The registered groups of the conversation with a confirmed member.
Existing(r) == {g \in groups : \E c \in confirmed : c.gid = g}

RegisterCheck(r) ==
    /\ ~r.checked
    /\ IF Existing(r) # {}
       THEN /\ registering' = registering \ {r}
            /\ answers' = answers \cup Answer(r, FALSE)
       ELSE /\ registering' = (registering \ {r}) \cup {[r EXCEPT !.checked = TRUE]}
            /\ UNCHANGED answers
    /\ UNCHANGED <<groups, confirmed, queue, table, mlsVars, built, call, started, outbox,
                   readVars, discarded, overlap, faults>>

RegisterInsert(r) ==
    /\ r.checked
    /\ groups' = groups \cup {r.gid}
    /\ confirmed' = confirmed \cup {[gid |-> r.gid, user |-> r.gid.by]}
    /\ registering' = registering \ {r}
    /\ answers' = answers \cup Answer(r, TRUE)
    /\ UNCHANGED <<queue, table, mlsVars, built, call, started, outbox, readVars,
                   discarded, overlap, faults>>

(***************************************************************************)
(* The receiver: get_messages / fetch_new_messages and fetch_welcomes      *)
(***************************************************************************)
\* The rows after the cursor, which is the newest row of u's table.
Newer(u) == {i \in 1..Len(table) : \A j \in local[u] : j < i}

Fetch(u) ==
    /\ page[u] = {}
    /\ page' = [page EXCEPT ![u] = Newer(u)]
    /\ Newer(u) # {}
    /\ joining' = [joining EXCEPT ![u] = TRUE]
    /\ UNCHANGED <<serverVars, queue, table, mlsVars, built, call, started, outbox, local,
                   handed, discarded, overlap, faults>>

\* First all embedded welcomes of the page ...
Join(u) ==
    /\ joining[u]
    /\ joining' = [joining EXCEPT ![u] = FALSE]
    /\ ProcessWelcomes(u, page[u] \ local[u])
    /\ UNCHANGED <<serverVars, queue, table, built, call, started, outbox, local, page,
                   handed, discarded, overlap>>

\* ... then row after row: stored if the mapped group can decrypt it, which
\* decrypt_message saves, else logged and skipped.
Read(u) ==
    /\ ~joining[u]
    /\ \E i \in page[u] :
          /\ \A j \in page[u] : i <= j
          /\ page' = [page EXCEPT ![u] = @ \ {i}]
          /\ IF table[i].from # u /\ table[i].gid \in mapping[u] \cap held[u]
             THEN /\ local' = [local EXCEPT ![u] = @ \cup {i}]
                  /\ Save(u, mapping[u], held[u])
             ELSE UNCHANGED <<local, saved>>
    /\ UNCHANGED <<serverVars, queue, table, mapping, held, built, call, started, outbox,
                   joining, handed, discarded, overlap, faults>>

\* GET /mls/welcome hands out and deletes the rows at once; the answer may be lost.
FetchWelcomes(u) ==
    LET mine == {q \in queue : q.to = u} IN
    /\ handed[u] = {}
    /\ mine # {}
    /\ queue' = queue \ mine
    /\ \/ handed' = [handed EXCEPT ![u] = {q.gid : q \in mine}] /\ UNCHANGED faults
       \/ UNCHANGED handed /\ Fault
    /\ UNCHANGED <<serverVars, table, mlsVars, built, call, started, outbox, local, page,
                   joining, discarded, overlap>>

\* With a mapping process_welcome reports success and the row is acknowledged
\* (the request may fail); without one a commit "is not a Welcome".
HandleQueued(u, g) ==
    /\ handed' = [handed EXCEPT ![u] = @ \ {g}]
    /\ \/ /\ mapping[u] # {}
          /\ confirmed' = confirmed \cup {[gid |-> g, user |-> u]}
          /\ UNCHANGED faults
       \/ mapping[u] # {} /\ UNCHANGED confirmed /\ Fault
       \/ mapping[u] = {} /\ UNCHANGED <<confirmed, faults>>
    /\ UNCHANGED <<groups, registering, answers, queue, table, mlsVars, built, call,
                   started, outbox, local, page, joining, discarded, overlap>>

\* The device stops and starts: memory is what the state files have, calls are
\* gone.  H is what the first file of an unfinished save had more.
Stop(u, H) ==
    /\ Fault
    /\ saved' = [saved EXCEPT ![u].held = @ \cup H]
    /\ SetState(u, saved[u].mapping, saved[u].held \cup H)
    /\ call' = [call EXCEPT ![u] = [k \in Callers |-> NoCall]]
    /\ page' = [page EXCEPT ![u] = {}]
    /\ joining' = [joining EXCEPT ![u] = FALSE]
    /\ handed' = [handed EXCEPT ![u] = {}]
    /\ registering' = Orphan(registering, u, Callers)
    /\ answers' = {r \in answers : r.gid.by # u}
    /\ UNCHANGED <<groups, confirmed, queue, table, built, started, outbox, local,
                   discarded, overlap>>

Crash(u) == Stop(u, {})

\* It stops between the two files of a save: process_welcome's over the rows at
\* positions I, ...
StopInJoin(u, I) == \E i \in FirstWelcome(u, I) : Stop(u, held[u] \cup table[i].welcome)
\* ... in a fetch or for a refused caller, or the save of a row that is read or of
\* a call (a group being built is unknown to everybody and left out).
StopInSave(u) ==
    \/ /\ page[u] # {} \/ \E k \in Callers : call[u][k].at \notin {"idle", "posting"}
       /\ Stop(u, held[u])
    \/ /\ mapping[u] = {}
       /\ \/ joining[u] /\ StopInJoin(u, page[u] \ local[u])
          \/ (\E k \in Callers : call[u][k].at = "history") /\ StopInJoin(u, 1..Len(table))

-----------------------------------------------------------------------------
SendStep(u, k) ==
    \/ Begin(u, k)
    \/ ClaimFails(u, k) \/ Build(u, k) \/ BuildUnsaved(u, k)
    \/ \E delivered \in BOOLEAN : RegisterFails(u, k, delivered)
    \/ Registered(u, k) \/ Refused(u, k)
    \/ JoinFromHistory(u, k) \/ HistoryFails(u, k)
    \/ Commit(u, k)
    \/ \E delivered \in BOOLEAN : CommitFails(u, k, delivered)
    \/ Encrypt(u, k) \/ SendLost(u, k) \/ PostFails(u, k)

ServerStep == \E r \in registering : RegisterCheck(r) \/ RegisterInsert(r)

ReadStep(u) ==
    \/ Fetch(u) \/ Join(u) \/ Read(u)
    \/ FetchWelcomes(u)
    \/ \E g \in handed[u] : HandleQueued(u, g)

Next ==
    \/ \E u \in Users, k \in Callers : SendStep(u, k)
    \/ \E m \in outbox : Accept(m)
    \/ ServerStep
    \/ \E u \in Users : ReadStep(u)
    \/ \E u \in Users : Crash(u) \/ StopInSave(u)

Spec == Init /\ [][Next]_vars

(***************************************************************************)
(* Fairness: the server answers, running calls go on and an open           *)
(* conversation fetches.  A message need never leave the outbox.           *)
(***************************************************************************)
FairSpec ==
    /\ Spec
    /\ WF_vars(ServerStep)
    /\ \A u \in Users : WF_vars(Fetch(u)) /\ WF_vars(Join(u)) /\ WF_vars(Read(u))
    /\ \A u \in Users, k \in Callers :
          WF_vars(Build(u, k) \/ Registered(u, k) \/ Refused(u, k)
                     \/ JoinFromHistory(u, k) \/ Commit(u, k) \/ Encrypt(u, k))

-----------------------------------------------------------------------------
Rows == [from : Users, by : Callers, n : Nat, gid : Groups, welcome : SUBSET Groups]
Calls == [at : Stages, n : Nat, gid : SUBSET Groups, welcome : SUBSET Groups]

TypeOK ==
    /\ groups \subseteq Groups
    /\ confirmed \subseteq [gid : Groups, user : Users]
    /\ queue \subseteq [to : Users, gid : Groups]
    /\ table \in Seq(Rows)
    /\ registering \subseteq [gid : Groups, by : Callers \cup {"gone"}, checked : BOOLEAN]
    /\ answers \subseteq [gid : Groups, by : Callers, ok : BOOLEAN]
    /\ mapping \in [Users -> SUBSET Groups]
    /\ held \in [Users -> SUBSET Groups]
    /\ saved \in [Users -> [mapping : SUBSET Groups, held : SUBSET Groups]]
    /\ built \in [Users -> 0..MaxGroups]
    /\ call \in [Users -> [Callers -> Calls]]
    /\ started \in [Users -> Nat]
    /\ outbox \subseteq Rows
    /\ local \in [Users -> SUBSET (1..Len(table))]
    /\ page \in [Users -> SUBSET (1..Len(table))]
    /\ joining \in [Users -> BOOLEAN]
    /\ handed \in [Users -> SUBSET Groups]
    /\ discarded \subseteq Groups
    /\ overlap \in BOOLEAN
    /\ faults \in Nat

\* A second group needs two registrations under way at once: the check for an
\* existing group catches every later one, lost answers and restarts included.
DuplicateNeedsOverlap == overlap \/ Cardinality(groups) <= 1

\* A group the server knows is in its builder's key store on disk, so no crash leaves
\* the conversation with a group nobody has (save_state before the POST).
RegisteredIsDurable == \A g \in groups : g \in saved[g.by].held

\* What a refused caller threw away encrypts nothing: not in the outbox, not on
\* the server.  One send at a time per device.
DiscardedNeverUsed ==
    /\ \A m \in outbox : m.gid \notin discarded
    /\ \A i \in 1..Len(table) : table[i].gid \notin discarded

\* As long as nothing fails, the group of every row has been announced by a
\* welcome in this row or before it, even where two groups were registered.
Announced ==
    faults = 0 => \A i \in 1..Len(table) : \E j \in 1..i : table[j].welcome = {table[i].gid}

\* A group u joined has lost its mapping.
Stranded(u) == \E g \in held[u] \ mapping[u] : g.by # u

\* Whoever has not written yet reads in the end every row whose group some
\* welcome in the table opens, in whatever order the rows came: a row that cannot
\* be decrypted yet does not move the cursor (fetch_new_messages).  One's own
\* message does, past rows that are still waiting.  One stop between the two files
\* of a save loses them too: the welcome opens once, and the group it gave has no
\* mapping any more.
RowsRead ==
    \A u \in Users, i \in 1..3 :
        (i <= Len(table) /\ table[i].from # u
            /\ \E j \in 1..Len(table) : table[j].welcome = {table[i].gid})
                ~> (i \in local[u] \/ started[u] > 0 \/ Stranded(u))

(***************************************************************************)
(* What comments say and the code does not do                              *)
(***************************************************************************)
\* "we must NOT register a second one" (register_group).
OneGroup == Cardinality(groups) <= 1

\* "so the caller can recover by joining it instead" (register_group): a
\* refused caller that could have the registered group ends up with it mapped.
Obtainable(u) ==
    {g \in groups : g \in held[u] \/ \E i \in 1..Len(table) : table[i].from # u /\ g \in table[i].welcome}
RefusedCallRecovers ==
    [][\A u \in Users, k \in Callers :
          (call[u][k].at = "history" /\ call'[u][k].at # "history" /\ faults' = 0
              /\ Obtainable(u) # {}) => mapping'[u] # {}]_vars

\* "Map conversation_id to this group so we can decrypt messages" (process_welcome):
\* a joined group the key store has is the mapped one.
JoinedIsMapped == \A u \in Users : ~Stranded(u)

\* "ACK each successful join" (fetch_welcomes): who is confirmed has the group.
ConfirmedHasJoined == \A c \in confirmed : c.gid \in held[c.user]
=============================================================================

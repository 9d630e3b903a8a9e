----------------------------- MODULE GroupChat -----------------------------
(***************************************************************************)
(* Group chats, and the key packages they are built from.  A device uploads *)
(* key packages while it is launched and keeps their private parts; who     *)
(* makes a group chat claims one package of everybody, builds the MLS group *)
(* over them, registers it and leaves a welcome for each in the server's    *)
(* queue.  There is no second way in: a welcome that is lost, or sealed to  *)
(* a package whose private part is lost, leaves that member out for good.   *)
(*                                                                         *)
(* One device each.  The conversation is new, so its number stands for its  *)
(* only group too, and the server never refuses the registration.  A        *)
(* request is executed before its caller gives up on it, or never.          *)
(***************************************************************************)
EXTENDS Naturals, FiniteSets

CONSTANTS People, None,
          Makers,     \* who of them makes group chats
          Batch,      \* key packages made at once (50)
          Low,        \* fewer on the server are topped up (10)
          MaxChats,   \* bound: group chats made
          MaxFaults   \* bound: failures, stops and replaced devices

Chats == 1..MaxChats
Packages == Nat \ {0}
\* MLS states, which None is not.
Memories == [private : SUBSET Packages, mapping : SUBSET Chats]

GroupChatAssumption ==
    /\ Makers \subseteq People /\ None \notin Memories
    /\ Batch \in Nat \ {0} /\ Low \in Nat /\ MaxChats \in Nat /\ MaxFaults \in Nat

SignUp == {"signup", "first", "firstpost"}
Apps == SignUp \cup {"new", "off", "launch", "delete", "check", "upload", "post", "welcomes",
                     "joining", "up"}
Stages == {"idle", "create", "claim", "build", "register", "welcome", "commit"}

VARIABLES
    packages,    \* server: packages[u], u's unclaimed key packages
    members,     \* server: members[c], participants of chat c, {} while it is not made
    registered,  \* server: chats whose MLS group is registered
    confirmed,   \* server: members with confirmed_epoch >= 1: [chat, user]
    queue,       \* server: mls_welcome_messages: [to, chat, package], package 0 for a commit
    app,         \* app[u]: how far u's sign-up or launch has come
    mls,         \* mls[u]: the MLS state in memory, None before mls_init
    disk,        \* disk[u]: the state files: what they hold, and whether the second of
                 \* them names a signer
    backup,      \* backup[u]: the state files in u's last backup
    batch,       \* batch[u]: the packages being uploaded
    made,        \* made[u]: packages made so far
    handed,      \* handed[u]: queue rows fetch_welcomes is working on
    make,        \* make[u]: create_group under way
    \* history
    succeeded,   \* chats whose making was reported a success
    marred,      \* members who lost a welcome or their device, or could not save
    replaced,    \* those of them whose packages nobody has deleted since
    faults

serverVars == <<packages, members, registered, confirmed, queue>>
deviceVars == <<app, mls, disk, backup, batch, made>>
historyVars == <<succeeded, marred, replaced>>
vars == <<serverVars, deviceVars, handed, make, historyVars, faults>>

NoFiles == [private |-> {}, mapping |-> {}, signed |-> FALSE]
Idle == [at |-> "idle", chat |-> 0, todo |-> {}, claimed |-> {}]

Init ==
    /\ packages = [u \in People |-> {}] /\ members = [c \in Chats |-> {}]
    /\ registered = {} /\ confirmed = {} /\ queue = {}
    /\ app = [u \in People |-> "new"] /\ mls = [u \in People |-> None]
    /\ disk = [u \in People |-> NoFiles] /\ backup = [u \in People |-> NoFiles]
    /\ batch = [u \in People |-> {}] /\ made = [u \in People |-> 0]
    /\ handed = [u \in People |-> {}] /\ make = [u \in People |-> Idle]
    /\ succeeded = {} /\ marred = {} /\ replaced = {} /\ faults = 0

Fault == faults < MaxFaults /\ faults' = faults + 1
\* A failing request: its effect on the server, or none.
Lost(effect, nothing) == Fault /\ (effect \/ nothing)

Goes(u, stage) == app' = [app EXCEPT ![u] = stage]
\* A launch goes on without what failed; after a failing sign-up the user is told
\* to start the app again, which makes a new state in memory.
FailsAt(u) ==
    /\ Fault
    /\ Goes(u, IF app[u] \in SignUp THEN "off" ELSE "up")
Holds(u, private, mapping) == mls' = [mls EXCEPT ![u] = [private |-> private, mapping |-> mapping]]

\* save_state: the key store, then the mapping and the signer.
Saved(u, private, mapping) ==
    [disk EXCEPT ![u] = [private |-> private, mapping |-> mapping, signed |-> TRUE]]
\* It fails before the first file or between the two.
HalfSaved(u, private) == disk' \in {disk, [disk EXCEPT ![u].private = private]}
SaveFails(u, private) == Fault /\ HalfSaved(u, private)

-----------------------------------------------------------------------------
(***************************************************************************)
(* Sign-up and launch                                                      *)
(***************************************************************************)
\* The first time through the sign-up form, later through App's initialize.
Open(u) ==
    /\ app[u] \in {"new", "off"}
    /\ Goes(u, IF app[u] = "new" THEN "signup" ELSE "launch")
    /\ UNCHANGED <<serverVars, mls, disk, backup, batch, made, handed, make, historyVars, faults>>

\* mls_init: without a signer in the files a new one is made, in memory only.
MlsInit(u) ==
    /\ app[u] \in {"signup", "launch"}
    /\ \/ /\ Holds(u, disk[u].private, disk[u].mapping)
          /\ Goes(u, CASE app[u] = "signup" -> "first"
                       [] disk[u].signed -> "check"
                       [] OTHER -> "delete")
          /\ UNCHANGED faults
       \/ FailsAt(u) /\ UNCHANGED mls
    /\ UNCHANGED <<serverVars, disk, backup, batch, made, handed, make, historyVars>>

\* Mutation: only the answer is awaited, the rows stay.
DeletesNothing(u) == packages
\* DELETE FROM key_packages: what was made under an older signer goes.
Deleted(u) == [packages EXCEPT ![u] = {}]

DeleteKeyPackages(u) ==
    /\ app[u] = "delete"
    /\ \/ /\ packages' = Deleted(u)
          /\ Goes(u, "upload")
          /\ replaced' = replaced \ {u}
          /\ UNCHANGED faults
       \/ Lost(packages' = Deleted(u), UNCHANGED packages) /\ Goes(u, "up") /\ UNCHANGED replaced
    /\ UNCHANGED <<members, registered, confirmed, queue, mls, disk, backup, batch, made>>
    /\ UNCHANGED <<handed, make, succeeded, marred>>

CheckKeyPackages(u) ==
    /\ app[u] = "check"
    /\ \/ Goes(u, IF Cardinality(packages[u]) < Low THEN "upload" ELSE "welcomes") /\ UNCHANGED faults
       \/ FailsAt(u)
    /\ UNCHANGED <<serverVars, mls, disk, backup, batch, made, handed, make, historyVars>>

\* The first half of upload_key_packages, under the lock: make them and save.
MakeKeyPackages(u) ==
    LET new == made[u] + 1 .. made[u] + Batch
        private == mls[u].private \cup new
    IN
    /\ app[u] \in {"first", "upload"}
    /\ made' = [made EXCEPT ![u] = @ + Batch]
    /\ Holds(u, private, mls[u].mapping)
    /\ \/ /\ disk' = Saved(u, private, mls[u].mapping)
          /\ batch' = [batch EXCEPT ![u] = new]
          /\ Goes(u, IF app[u] = "first" THEN "firstpost" ELSE "post")
          /\ UNCHANGED faults
       \/ HalfSaved(u, private) /\ FailsAt(u) /\ UNCHANGED batch
    /\ UNCHANGED <<serverVars, backup, handed, make, historyVars>>

\* The second half: they are inserted one by one; a failure may come between.
PostKeyPackages(u) ==
    /\ app[u] \in {"post", "firstpost"}
    /\ batch' = [batch EXCEPT ![u] = {}]
    /\ \/ /\ packages' = [packages EXCEPT ![u] = @ \cup batch[u]]
          /\ Goes(u, IF app[u] = "post" THEN "welcomes" ELSE "up")
          /\ UNCHANGED faults
       \/ /\ FailsAt(u)
          /\ \E some \in SUBSET batch[u] : packages' = [packages EXCEPT ![u] = @ \cup some]
    /\ UNCHANGED <<members, registered, confirmed, queue, mls, disk, backup, made>>
    /\ UNCHANGED <<handed, make, historyVars>>

Launched(u) ==
    /\ app[u] = "joining" /\ handed[u] = {}
    /\ Goes(u, "up")
    /\ UNCHANGED <<serverVars, mls, disk, backup, batch, made, handed, make, historyVars, faults>>

\* Memory is gone, and with it the rows it was working on.
Halt(u) ==
    /\ app[u] # "new"
    /\ Fault
    /\ Goes(u, "off")
    /\ mls' = [mls EXCEPT ![u] = None]
    /\ batch' = [batch EXCEPT ![u] = {}]
    /\ make' = [make EXCEPT ![u] = Idle]
    /\ handed' = [handed EXCEPT ![u] = {}]
    /\ UNCHANGED <<serverVars, backup, made, succeeded>>

Stop(u) ==
    /\ app[u] # "off"
    /\ Halt(u)
    /\ marred' = IF handed[u] = {} THEN marred ELSE marred \cup {u}
    /\ UNCHANGED <<disk, replaced>>

\* upload_mls_state_inner.
BackUp(u) ==
    /\ app[u] = "up"
    /\ backup' = [backup EXCEPT ![u] = disk[u]]
    /\ UNCHANGED <<serverVars, app, mls, disk, batch, made, handed, make, historyVars, faults>>

\* Another device, or this one without its files, recovers the last backup; the
\* MLS state may fail to come back, which is passed over.
Replace(u) ==
    /\ Halt(u)
    /\ disk' \in {[disk EXCEPT ![u] = files] : files \in {backup[u], NoFiles}}
    /\ marred' = marred \cup {u} /\ replaced' = replaced \cup {u}

-----------------------------------------------------------------------------
(***************************************************************************)
(* create_group: the conversation, then create_group_multi                 *)
(***************************************************************************)
Making(u, stage, chat, todo, claimed) ==
    make' = [make EXCEPT ![u] = [at |-> stage, chat |-> chat, todo |-> todo, claimed |-> claimed]]
GivesUp(u) == make' = [make EXCEPT ![u] = Idle]

\* The dialog: u picks at least one friend.
Begin(u, others) ==
    /\ u \in Makers /\ app[u] = "up" /\ make[u].at = "idle"
    /\ others # {} /\ others \subseteq People \ {u}
    /\ \E c \in Chats : members[c] = {}
    /\ Making(u, "create", 0, others, {})
    /\ UNCHANGED <<serverVars, deviceVars, handed, historyVars, faults>>

\* create_group_conversation: conversation and participants in one transaction.
CreateConversation(u) ==
    LET new == {c \in Chats : members[c] = {} /\ \A d \in Chats : d < c => members[d] # {}}
        Made(c) == members' = [members EXCEPT ![c] = make[u].todo \cup {u}]
    IN
    /\ make[u].at = "create"
    /\ \E c \in new :
          \/ Made(c) /\ Making(u, "claim", c, make[u].todo, {}) /\ UNCHANGED faults
          \/ Lost(Made(c), UNCHANGED members) /\ GivesUp(u)
    /\ UNCHANGED <<packages, registered, confirmed, queue, deviceVars, handed, historyVars>>

\* The oldest unclaimed package, marked in the same statement.
Claimed(v, p) == [packages EXCEPT ![v] = @ \ {p}]

Oldest(v) == {p \in packages[v] : \A q \in packages[v] : p <= q}

\* One request per member; what is claimed stays claimed when a later one fails.
ClaimKeyPackage(u, v) ==
    LET left == make[u].todo \ {v} IN
    /\ make[u].at = "claim" /\ v \in make[u].todo
    /\ \/ \E p \in Oldest(v) :
             \/ /\ packages' = Claimed(v, p)
                /\ Making(u, IF left = {} THEN "build" ELSE "claim", make[u].chat, left,
                          make[u].claimed \cup {[to |-> v, chat |-> make[u].chat, package |-> p]})
                /\ UNCHANGED faults
             \/ Lost(packages' = Claimed(v, p), UNCHANGED packages) /\ GivesUp(u)
       \/ Oldest(v) = {} /\ UNCHANGED <<packages, faults>> /\ GivesUp(u)
    /\ UNCHANGED <<members, registered, confirmed, queue, deviceVars, handed, historyVars>>

\* The group over all the packages: in memory, saved, then registered.
BuildGroup(u) ==
    LET chat == make[u].chat IN
    /\ make[u].at = "build"
    /\ \/ mls[u] = None /\ GivesUp(u) /\ UNCHANGED <<mls, disk, faults>>
       \/ /\ mls[u] # None
          /\ Holds(u, mls[u].private, mls[u].mapping \cup {chat})
          /\ \/ /\ disk' = Saved(u, mls[u].private, mls[u].mapping \cup {chat})
                /\ Making(u, "register", chat, {}, make[u].claimed)
                /\ UNCHANGED faults
             \/ SaveFails(u, mls[u].private) /\ GivesUp(u)
    /\ UNCHANGED <<serverVars, app, backup, batch, made, handed, historyVars>>

\* register_group confirms its creator.  After a failure the group stays mapped.
RegisterGroup(u) ==
    LET chat == make[u].chat
        Taken == /\ registered' = registered \cup {chat}
                 /\ confirmed' = confirmed \cup {[chat |-> chat, user |-> u]}
    IN
    /\ make[u].at = "register"
    /\ \/ Taken /\ Making(u, "welcome", chat, {}, make[u].claimed) /\ UNCHANGED faults
       \/ Lost(Taken, UNCHANGED <<registered, confirmed>>) /\ GivesUp(u)
    /\ UNCHANGED <<packages, members, queue, deviceVars, handed, historyVars>>

\* Mutation: a welcome that could not be stored is passed over.
Continues(u, w) == Making(u, "welcome", w.chat, {}, make[u].claimed \ {w})
\* A welcome that could not be stored ends the call.
GivesUpOn(u, w) == GivesUp(u)

\* store_welcome, one request per member.
StoreWelcome(u) ==
    /\ make[u].at = "welcome"
    /\ \E w \in make[u].claimed :
          \/ /\ queue' = queue \cup {w}
             /\ Making(u, "welcome", w.chat, {}, make[u].claimed \ {w})
             /\ UNCHANGED faults
          \/ Lost(queue' = queue \cup {w}, UNCHANGED queue) /\ GivesUpOn(u, w)
    /\ UNCHANGED <<packages, members, registered, confirmed, deviceVars, handed, historyVars>>

\* fan_out_commit puts the commit into the same queue; then the call succeeds.
FanOutCommit(u) ==
    LET chat == make[u].chat
        rows == [to : members[chat] \ {u}, chat : {chat}, package : {0}]
    IN
    /\ make[u].at = "welcome" /\ make[u].claimed = {}
    /\ GivesUp(u)
    /\ \/ queue' = queue \cup rows /\ succeeded' = succeeded \cup {chat} /\ UNCHANGED faults
       \/ /\ Fault /\ \E some \in SUBSET rows : queue' = queue \cup some
          /\ UNCHANGED succeeded
    /\ UNCHANGED <<packages, members, registered, confirmed, deviceVars, handed, marred, replaced>>

-----------------------------------------------------------------------------
(***************************************************************************)
(* mls_fetch_welcomes, by the launch and by the message pages              *)
(***************************************************************************)
\* The server deletes the rows as it hands them out; the answer may be lost.
FetchWelcomes(u) ==
    LET mine == {w \in queue : w.to = u} IN
    /\ app[u] \in {"welcomes", "up"}
    /\ app[u] = "up" => mine # {}
    /\ queue' = queue \ mine
    /\ \/ /\ handed' = [handed EXCEPT ![u] = @ \cup mine]
          /\ Goes(u, IF app[u] = "up" THEN "up" ELSE "joining")
          /\ UNCHANGED <<marred, faults>>
       \/ /\ Fault /\ Goes(u, "up")
          /\ marred' = IF mine = {} THEN marred ELSE marred \cup {u}
          /\ UNCHANGED handed
    /\ UNCHANGED <<packages, members, registered, confirmed, mls, disk, backup, batch, made>>
    /\ UNCHANGED <<make, succeeded, replaced>>

\* welcome_ack; its failure is ignored.
Acknowledge(u, w) ==
    \/ confirmed' = confirmed \cup {[chat |-> w.chat, user |-> u]} /\ UNCHANGED faults
    \/ Fault /\ UNCHANGED confirmed

\* Mutation: what cannot be joined is acknowledged as well.
AckAnyway(u, w) == Acknowledge(u, w)
\* An error of process_welcome is logged.
Logged(u, w) == UNCHANGED <<confirmed, faults>>

\* process_welcome: with a mapping nothing is to be done; a welcome opens with the
\* private part of its package, which it uses up; a commit is not a welcome.
HandleRow(u, w) ==
    LET opens == mls[u] # None /\ w.package \in mls[u].private
        private == mls[u].private \ {w.package}
        mapping == mls[u].mapping \cup {w.chat}
    IN
    /\ handed' = [handed EXCEPT ![u] = @ \ {w}]
    /\ \/ /\ mls[u] # None /\ w.chat \in mls[u].mapping
          /\ Acknowledge(u, w)
          /\ UNCHANGED <<mls, disk, marred>>
       \/ /\ opens /\ w.chat \notin mls[u].mapping
          /\ Holds(u, private, mapping)
          /\ \/ disk' = Saved(u, private, mapping) /\ Acknowledge(u, w) /\ UNCHANGED marred
             \/ SaveFails(u, private) /\ UNCHANGED confirmed /\ marred' = marred \cup {u}
       \/ /\ ~opens /\ (mls[u] # None => w.chat \notin mls[u].mapping)
          /\ Logged(u, w)
          /\ marred' = IF mls[u] = None THEN marred \cup {u} ELSE marred
          /\ UNCHANGED <<mls, disk>>
    /\ UNCHANGED <<packages, members, registered, queue, app, backup, batch, made>>
    /\ UNCHANGED <<make, succeeded, replaced>>

-----------------------------------------------------------------------------
LaunchStep(u) ==
    \/ Open(u) \/ MlsInit(u)
    \/ DeleteKeyPackages(u) \/ CheckKeyPackages(u)
    \/ MakeKeyPackages(u) \/ PostKeyPackages(u)
    \/ Launched(u)

CreateStep(u) ==
    \/ \E others \in SUBSET People : Begin(u, others)
    \/ CreateConversation(u)
    \/ \E v \in make[u].todo : ClaimKeyPackage(u, v)
    \/ BuildGroup(u) \/ RegisterGroup(u)
    \/ StoreWelcome(u) \/ FanOutCommit(u)

Next ==
    \E u \in People :
        \/ LaunchStep(u) \/ CreateStep(u)
        \/ FetchWelcomes(u)
        \/ \E w \in handed[u] : HandleRow(u, w)
        \/ Stop(u) \/ BackUp(u) \/ Replace(u)

Spec == Init /\ [][Next]_vars

-----------------------------------------------------------------------------
Files == [private : SUBSET Packages, mapping : SUBSET Chats, signed : BOOLEAN]
WelcomeRows == [to : People, chat : Chats, package : Nat]

TypeOK ==
    /\ packages \in [People -> SUBSET Packages]
    /\ members \in [Chats -> SUBSET People]
    /\ registered \subseteq Chats
    /\ confirmed \subseteq [chat : Chats, user : People]
    /\ queue \subseteq WelcomeRows
    /\ app \in [People -> Apps]
    /\ mls \in [People -> Memories \cup {None}]
    /\ disk \in [People -> Files] /\ backup \in [People -> Files]
    /\ batch \in [People -> SUBSET Packages] /\ made \in [People -> Nat]
    /\ handed \in [People -> SUBSET WelcomeRows]
    /\ make \in [People -> [at : Stages, chat : Chats \cup {0}, todo : SUBSET People,
                            claimed : SUBSET WelcomeRows]]
    /\ succeeded \subseteq Chats /\ marred \subseteq People /\ replaced \subseteq People
    /\ faults \in Nat

\* What u's device works with, or will after its next launch.
State(u) == IF mls[u] # None THEN mls[u] ELSE disk[u]

\* u has the group of chat c, or a welcome is waiting that u's device can open.
CanJoin(u, c) ==
    \/ c \in State(u).mapping
    \/ \E w \in queue \cup handed[u] :
          w.to = u /\ w.chat = c /\ w.package \in State(u).private

\* Whoever claims a key package gets one that its owner's files can open: it is
\* saved before it is uploaded, and a device that starts again under a new signer
\* has the old ones deleted first.  A device that was replaced, and has not got
\* so far or is under its old signer, may leave some nobody can open.
PackagesOpen == \A u \in People \ replaced : packages[u] \subseteq disk[u].private

\* A group chat reported as made can be joined by everybody in it: they have the
\* group, or a welcome of it is waiting that their device can open.  So the call
\* ends with the first package or welcome it cannot get through.
EveryoneCanJoin == \A c \in succeeded : \A u \in members[c] \ marred : CanJoin(u, c)

\* A member the server counts as joined has the group, although the commit that
\* travels in the same queue may be handled before the welcome.
ConfirmedHasJoined ==
    \A e \in confirmed : e.user \notin marred => e.chat \in State(e.user).mapping
(***************************************************************************)
(* What comments and messages say and the code does not do                 *)
(***************************************************************************)
\* "try restarting the app to re-process pending welcomes" (send_message), "the
\* normal MLS init/welcome flow can re-establish group state" (sync.rs): whoever is
\* in a chat has its group, or will after the next launch.
RestartRejoins == \A c \in succeeded : \A u \in members[c] : CanJoin(u, c)
=============================================================================

------------------------- MODULE ConversationList -------------------------
(***************************************************************************)
(* The sidebar of the home page: the conversations with their unread       *)
(* counts, read from the server again after every announcement, and the    *)
(* dialog that makes a group.  ConversationPage has the open conversation. *)
(***************************************************************************)
EXTENDS Integers, FiniteSets

CONSTANTS Direct,       \* conversations that exist from the start
          Friend,       \* the direct conversation a first visit creates
          Groups,       \* groups the dialog may make
          None,
          MaxRows,      \* bound: messages
          MaxOpens,     \* bound: conversations opened
          MaxFaults     \* bound: failing calls and lost announcements

Conversations == Direct \cup {Friend} \cup Groups

ListAssumption ==
    /\ None \notin Conversations /\ Friend \notin Direct \cup Groups
    /\ MaxRows \in Nat /\ MaxOpens \in Nat /\ MaxFaults \in Nat

VARIABLES
    \* the server
    exists,       \* conversations it has for the user
    unread,       \* per conversation, messages after last_read_at
    others,       \* those of them the user did not write
    \* the sidebar
    listed, badge,
    listLoading, profileLoading,
    refreshes,    \* runs of refresh
    fetching,     \* conversations whose handler awaits fetch_new_messages
    \* the page beside it
    open,
    reads,        \* conversations with a mark_read on its way
    \* the dialog
    dialog,       \* whether it is open
    picked,       \* it has a name and a friend
    creating,     \* the group being made, or None
    \* announcements on their way
    frames,
    \* history
    asked,        \* snapshots the server has given
    newest,       \* the one on the screen
    disturbed,    \* a call failed, or an older snapshot came after a newer one
    rows, opens, faults

serverVars == <<exists, unread, others>>
listVars == <<listed, badge, listLoading, profileLoading, refreshes, fetching>>
pageVars == <<open, reads, opens>>
dialogVars == <<dialog, picked, creating>>
snapVars == <<asked, newest>>
vars == <<serverVars, listVars, pageVars, dialogVars, frames, snapVars, disturbed, rows, faults>>

Zero == [c \in Conversations |-> 0]
Asking == [at |-> "ask", n |-> 0, listed |-> {}, badge |-> Zero]

Init ==
    /\ exists = Direct /\ unread = Zero /\ others = Zero
    /\ listed = {} /\ badge = Zero /\ listLoading = TRUE /\ profileLoading = TRUE
    /\ refreshes = {Asking} /\ fetching = {}
    /\ open = None /\ reads = {} /\ opens = 0
    /\ dialog = FALSE /\ picked = FALSE /\ creating = None
    /\ frames = {} /\ asked = 0 /\ newest = 0
    /\ disturbed = FALSE /\ rows = 0 /\ faults = 0

Fails == faults < MaxFaults /\ faults' = faults + 1
Ready == ~listLoading /\ ~profileLoading

----------------------------------------------------------------------------
(***************************************************************************)
(* Messages and announcements                                              *)
(***************************************************************************)
Posted(c) ==
    /\ c \in exists /\ rows < MaxRows
    /\ rows' = rows + 1
    /\ unread' = [unread EXCEPT ![c] = @ + 1]

PeerPosts(c) ==
    /\ Posted(c)
    /\ others' = [others EXCEPT ![c] = @ + 1]
    /\ frames' = frames \cup {c}
    /\ UNCHANGED <<exists, listVars, pageVars, dialogVars, snapVars, disturbed, faults>>

\* The user's own message: the server counts it too, and announces it to others only.
OwnPost ==
    /\ open # None /\ Posted(open)
    /\ UNCHANGED <<exists, others, listVars, pageVars, dialogVars, frames, snapVars>>
    /\ UNCHANGED <<disturbed, faults>>

LoseFrame(c) ==
    /\ c \in frames /\ Fails
    /\ frames' = frames \ {c}
    /\ disturbed' = TRUE
    /\ UNCHANGED <<serverVars, listVars, pageVars, dialogVars, snapVars, rows>>

\* The sidebar's subscription, and the open page's, which marks the conversation read.
Dispatch(c) ==
    /\ c \in frames
    /\ frames' = frames \ {c}
    /\ fetching' = fetching \cup {c}
    /\ reads' = IF c = open THEN reads \cup {c} ELSE reads
    /\ UNCHANGED <<serverVars, listed, badge, listLoading, profileLoading, refreshes>>
    /\ UNCHANGED <<open, opens, dialogVars, snapVars, disturbed, rows, faults>>

Refresh == refreshes' = refreshes \cup {Asking}

\* Mutation: a failed fetch leaves the sidebar alone.
GivesUp == UNCHANGED refreshes
\* A failed fetch is only logged.
GoesOn == Refresh

Fetch(c) ==
    /\ c \in fetching
    /\ fetching' = fetching \ {c}
    /\ \/ Refresh /\ UNCHANGED faults
       \/ Fails /\ GoesOn
    /\ UNCHANGED <<serverVars, listed, badge, listLoading, profileLoading>>
    /\ UNCHANGED <<pageVars, dialogVars, frames, snapVars, disturbed, rows>>

----------------------------------------------------------------------------
(***************************************************************************)
(* get_conversations                                                       *)
(***************************************************************************)
Snapshot == [at |-> "show", n |-> asked + 1, listed |-> exists, badge |-> unread]

\* refresh awaits the answer; the first run ends the loading screen either way.
Answer(j) ==
    /\ j.at = "ask"
    /\ \/ /\ refreshes' = (refreshes \ {j}) \cup {Snapshot}
          /\ asked' = asked + 1
          /\ UNCHANGED <<listLoading, disturbed, faults>>
       \/ /\ Fails
          /\ refreshes' = refreshes \ {j}
          /\ listLoading' = FALSE /\ disturbed' = TRUE
          /\ UNCHANGED asked
    /\ UNCHANGED <<serverVars, listed, badge, profileLoading, fetching>>
    /\ UNCHANGED <<pageVars, dialogVars, frames, newest, rows>>

\* setConversations(data): whatever answer comes last is shown.
Show(j) ==
    /\ j.at = "show"
    /\ refreshes' = refreshes \ {j}
    /\ listed' = j.listed /\ badge' = j.badge /\ listLoading' = FALSE
    /\ newest' = j.n
    /\ disturbed' = (disturbed \/ j.n < newest)
    /\ UNCHANGED <<serverVars, profileLoading, fetching, pageVars, dialogVars, frames>>
    /\ UNCHANGED <<asked, rows, faults>>

\* get_profile, for the row below the list; without it the row is not there.
LoadProfile ==
    /\ profileLoading
    /\ profileLoading' = FALSE
    /\ UNCHANGED <<serverVars, listed, badge, listLoading, refreshes, fetching, pageVars>>
    /\ UNCHANGED <<dialogVars, frames, snapVars, disturbed, rows, faults>>

----------------------------------------------------------------------------
(***************************************************************************)
(* Opening conversations                                                   *)
(***************************************************************************)
Opens(c) ==
    /\ Ready /\ c # open /\ opens < MaxOpens
    /\ opens' = opens + 1
    /\ open' = c
    /\ reads' = reads \cup {c}

\* clearUnreadFor
Cleared(c) == [badge EXCEPT ![c] = 0]

\* handleOpenChat
OpenChat(c) ==
    /\ c \in listed /\ Opens(c)
    /\ badge' = Cleared(c)
    /\ UNCHANGED <<serverVars, listed, listLoading, profileLoading, refreshes, fetching>>
    /\ UNCHANGED <<dialogVars, frames, snapVars, disturbed, rows, faults>>

\* handleSelectDM opens the first row and leaves its badge; so does a click on a
\* friend, which makes the conversation where there is none.
OpenFriend(c) ==
    /\ c \in listed \cup {Friend} /\ Opens(c)
    /\ exists' = exists \cup {c}
    /\ UNCHANGED <<unread, others, listVars, dialogVars, frames, snapVars, disturbed, rows, faults>>

Leave ==
    /\ open # None
    /\ open' = None
    /\ UNCHANGED <<serverVars, listVars, reads, opens, dialogVars, frames, snapVars>>
    /\ UNCHANGED <<disturbed, rows, faults>>

MarkRead(c) ==
    /\ c \in reads
    /\ reads' = reads \ {c}
    /\ \/ /\ unread' = [unread EXCEPT ![c] = 0]
          /\ others' = [others EXCEPT ![c] = 0]
          /\ UNCHANGED <<disturbed, faults>>
       \/ /\ Fails
          /\ disturbed' = TRUE
          /\ UNCHANGED <<unread, others>>
    /\ UNCHANGED <<exists, listVars, open, opens, dialogVars, frames, snapVars, rows>>

----------------------------------------------------------------------------
(***************************************************************************)
(* Making a group                                                          *)
(***************************************************************************)
\* Opening the dialog empties it; it can be closed and opened while a group is made.
ToggleDialog ==
    /\ Ready
    /\ dialog' = ~dialog
    /\ picked' = FALSE
    /\ UNCHANGED <<serverVars, listVars, pageVars, creating, frames, snapVars, disturbed, rows, faults>>

Pick ==
    /\ dialog /\ ~picked /\ creating = None
    /\ picked' = TRUE
    /\ UNCHANGED <<serverVars, listVars, pageVars, dialog, creating, frames, snapVars>>
    /\ UNCHANGED <<disturbed, rows, faults>>

Create(g) ==
    /\ dialog /\ picked /\ creating = None /\ g \in Groups \ exists
    /\ creating' = g
    /\ UNCHANGED <<serverVars, listVars, pageVars, dialog, picked, frames, snapVars>>
    /\ UNCHANGED <<disturbed, rows, faults>>

\* POST /conversations/group
CreateOnServer ==
    /\ creating \in Groups \ exists
    /\ \/ exists' = exists \cup {creating} /\ UNCHANGED <<creating, disturbed, faults>>
       \/ Fails /\ creating' = None /\ UNCHANGED <<exists, disturbed>>
    /\ UNCHANGED <<unread, others, listVars, pageVars, dialog, picked, frames, snapVars, rows>>

\* handleGroupCreated
GroupCreated == Refresh

\* The key exchange with the members is done, or failed: then the server has a
\* group nobody told the sidebar of, and the dialog offers to try again.
Created ==
    /\ creating \in exists
    /\ creating' = None
    /\ \/ /\ GroupCreated
          /\ open' = creating /\ reads' = reads \cup {creating}
          /\ dialog' = FALSE /\ picked' = FALSE
          /\ UNCHANGED <<disturbed, faults>>
       \/ /\ Fails /\ disturbed' = TRUE
          /\ UNCHANGED <<refreshes, open, reads, dialog, picked>>
    /\ UNCHANGED <<serverVars, listed, badge, listLoading, profileLoading, fetching>>
    /\ UNCHANGED <<opens, frames, snapVars, rows>>

----------------------------------------------------------------------------
GroupDialog == ToggleDialog \/ Pick \/ (\E g \in Groups : Create(g)) \/ CreateOnServer \/ Created

Next ==
    \/ \E c \in Conversations :
          \/ PeerPosts(c) \/ LoseFrame(c) \/ Dispatch(c) \/ Fetch(c)
          \/ OpenChat(c) \/ OpenFriend(c) \/ MarkRead(c)
    \/ \E j \in refreshes : Answer(j) \/ Show(j)
    \/ OwnPost \/ LoadProfile \/ Leave \/ GroupDialog

Spec == Init /\ [][Next]_vars

----------------------------------------------------------------------------
TypeOK ==
    /\ exists \subseteq Conversations /\ listed \subseteq Conversations
    /\ unread \in [Conversations -> Nat] /\ others \in [Conversations -> Nat]
    /\ badge \in [Conversations -> Nat]
    /\ {listLoading, profileLoading, dialog, picked, disturbed} \subseteq BOOLEAN
    /\ refreshes \subseteq [at : {"ask", "show"}, n : Nat, listed : SUBSET Conversations,
                            badge : [Conversations -> Nat]]
    /\ {open, creating} \subseteq Conversations \cup {None}
    /\ fetching \subseteq Conversations /\ reads \subseteq Conversations
    /\ frames \subseteq Conversations
    /\ {asked, newest, rows, opens, faults} \subseteq Nat

AtRest == ~listLoading /\ refreshes = {} /\ fetching = {} /\ frames = {} /\ reads = {} /\ creating = None

\* Once everything has been answered, in the order it was asked, a conversation
\* that is not open and has a message of somebody else which the user has not
\* read shows a badge, and a group made here is in the list, although the list's
\* fetches may fail.  (useLiveConversationList.ts:3-5, HomePage.tsx
\* handleGroupCreated.)
UnreadSurfaces ==
    AtRest /\ ~disturbed =>
        /\ \A c \in listed \ {open} : others[c] > 0 => badge[c] > 0
        /\ Direct \cup (Groups \cap exists) \subseteq listed

\* The same of the badges: where there is one, there is a message of somebody
\* else, and the open conversation has none.  (CHANGELOG.md:65, "unseen
\* messages ... The badge clears when the conversation is opened".)
BadgeMeansUnseen ==
    AtRest /\ faults = 0 /\ ~disturbed => \A c \in listed : badge[c] > 0 => others[c] > 0 /\ c # open
=============================================================================

------------------------- MODULE ConversationPage -------------------------
(***************************************************************************)
(* The pages of a direct conversation and of a group, and the device's     *)
(* message store behind them.  A page is one React component for all       *)
(* conversations of its kind: going from one to the next keeps its state   *)
(* and starts initializeChat again, and nothing it has under way is        *)
(* cancelled.  Its runs are sets of records, one step per await.           *)
(* Fetching, decrypting and storing are one step here; MessageDelivery     *)
(* takes them apart, and ConversationList has the unread counts.           *)
(***************************************************************************)
EXTENDS Integers, Sequences, FiniteSets

CONSTANTS Direct,       \* direct conversations; each stands for its friendId too
          Groups,       \* group conversations
          None,         \* null
          LoadLimit,    \* rows get_messages returns (200)
          OlderLimit,   \* rows loadMoreMessages asks for (50)
          Skews,        \* how far the device's clock may be ahead of the server's
          MaxTexts,     \* bound: texts and files the user enters
          MaxMessages,  \* bound: those, and the rows of other people
          MaxVisits,    \* bound: pages opened
          MaxFaults     \* bound: failing calls

Conversations == Direct \cup Groups
Row == [conv : Conversations, ts : Nat, text : Nat, temp : BOOLEAN]

ASSUME PageAssumption ==
    /\ Direct \cap Groups = {} /\ None \notin Conversations
    /\ LoadLimit \in Nat \ {0} /\ OlderLimit \in Nat \ {0}
    /\ Skews \subseteq Int
    /\ MaxTexts \in Nat /\ MaxMessages \in Nat /\ MaxVisits \in Nat /\ MaxFaults \in Nat

VARIABLES
    \* the mounted page
    route,      \* the conversation of the URL; None on every other screen
    conv,       \* conversationId and conversationIdRef
    header,     \* whose name and picture the header has
    loading,
    shown,      \* messages, in the order of the screen
    more,       \* hasMore
    draft,      \* newMessage; 0 is empty
    file,       \* selectedFile; 0 is null
    \* its runs; a live one belongs to the mounted page
    inits,      \* of initializeChat
    pushes,     \* of handleWsMessage
    older,      \* of loadMoreMessages; loadingMore says that there is one
    sends,      \* of sendMessage and sendMedia; sending and sendingMedia say the same
    \* the device's store and the server
    stored, server,
    clock,      \* the last timestamp
    skew,       \* of the device's clock when it stamped the row shown as unsent
    frames,     \* conversations with an announcement on its way (several count as one)
    \* history
    typed,      \* how many texts and files there were
    left,       \* texts gone with their page; files gone with it, replaced, cleared or
                \* sent, also in vain
    disturbed,  \* a call failed, a run for one conversation met another, or a
                \* list loaded before newer rows were shown has replaced them
    misled,     \* the last ask for new rows was after a stamp ahead of the server
    visits, faults

pageVars == <<route, conv, header, loading, shown, more, draft, file>>
stampVars == <<skew, misled>>
runVars == <<inits, pushes, older, sends>>
storeVars == <<stored, server, clock>>
inputVars == <<typed, left, visits>>
vars == <<pageVars, runVars, storeVars, inputVars, stampVars, frames, disturbed, faults>>

Init ==
    /\ route = None /\ conv = None /\ header = None /\ loading = TRUE /\ shown = <<>>
    /\ more = TRUE /\ draft = 0 /\ file = 0
    /\ inits = {} /\ pushes = {} /\ older = {} /\ sends = {}
    /\ stored = {} /\ server = {} /\ clock = 0 /\ frames = {}
    /\ typed = 0 /\ left = {} /\ disturbed = FALSE /\ skew = 0 /\ misled = FALSE
    /\ visits = 0 /\ faults = 0

Room == typed + Cardinality({m \in server : m.text = 0}) < MaxMessages

Kind(c) == IF c \in Direct THEN Direct ELSE Groups

\* A failing call is one of at most MaxFaults, and a disturbance of the page.
Fails == faults < MaxFaults /\ faults' = faults + 1 /\ disturbed' = TRUE

----------------------------------------------------------------------------
(***************************************************************************)
(* The store                                                               *)
(***************************************************************************)
RowsOf(S, c) == {m \in S : m.conv = c}
\* The one sequence of the rows S by timestamp.
InOrder(S) ==
    {q \in [1..Cardinality(S) -> S] :
        \A i, k \in DOMAIN q : i < k => q[i].ts < q[k].ts}
Newest(S, k) == {m \in S : Cardinality({n \in S : n.ts > m.ts}) < k}
RowsIn(q) == {q[i] : i \in DOMAIN q}

\* What a fetch of c adds: other people's rows after the newest local one.
Fetched(c) ==
    {m \in RowsOf(server, c) : m.text = 0 /\ \A n \in RowsOf(stored, c) : n.ts < m.ts}

\* Mutation: the rows this very fetch has returned.
Returned(p, last) == p.rows
\* get_local_messages_after
LocalAfter(p, last) == {m \in RowsOf(stored, p.conv) : m.ts > last}

LocalBefore(c, ts) == Newest({m \in RowsOf(stored, c) : m.ts < ts}, OlderLimit)

----------------------------------------------------------------------------
(***************************************************************************)
(* Opening a conversation                                                  *)
(***************************************************************************)
Live(S) == {j \in S : j.live}
\* Nothing of the page is under way, except for the runs J of initializeChat.
IdleBut(J) == inits = J /\ pushes = {} /\ older = {} /\ Live(sends) = {}

\* Of the runs of an unmounted page only a send still does something here: it
\* posts.  (The others fetch, which the list's handler does as well.)
Orphans(S) == {[j EXCEPT !.live = FALSE] : j \in S}
TextsOf(S) == {s.text : s \in S}

\* The state a page is mounted with; a group's id is in the URL.
Mounted(c) ==
    /\ conv' = IF c \in Groups THEN c ELSE None
    /\ header' = None /\ loading' = TRUE /\ shown' = <<>> /\ more' = TRUE
    /\ draft' = 0 /\ file' = 0
    /\ pushes' = {} /\ older' = {} /\ sends' = Orphans(sends)
    /\ left' = left \cup ({draft, file} \ {0})
    /\ misled' = FALSE
    /\ UNCHANGED disturbed

\* The same component with another parameter keeps its state.
Kept(c) ==
    /\ conv' = IF c \in Groups THEN c ELSE conv
    /\ disturbed' = (disturbed \/ ~IdleBut({}))
    /\ UNCHANGED <<header, loading, shown, more, draft, file, pushes, older, sends, left, misled>>

Run(c) == [conv |-> c, at |-> "profiles", rows |-> <<>>]

Open(c) ==
    /\ c # route /\ visits < MaxVisits
    /\ visits' = visits + 1
    /\ route' = c
    /\ \/ /\ route # None /\ Kind(c) = Kind(route)
          /\ Kept(c)
          /\ inits' = inits \cup {Run(c)}
       \/ /\ route = None \/ Kind(c) # Kind(route)
          /\ Mounted(c)
          /\ inits' = {Run(c)}
    /\ UNCHANGED <<storeVars, skew, typed, frames, faults>>

\* To the friends panel.
Leave ==
    /\ route # None
    /\ route' = None
    /\ Mounted(None)
    /\ inits' = {}
    /\ UNCHANGED <<storeVars, skew, typed, visits, frames, faults>>

\* The run of initializeChat goes on to "at", or ends.
NextInit(j, at, rows) == inits' = (inits \ {j}) \cup {[j EXCEPT !.at = at, !.rows = rows]}
Ends(j) == inits' = inits \ {j} /\ loading' = FALSE

\* get_user_id and loadProfiles.  Without an answer the friend is 'Unknown User';
\* an answer without the friend's profile leaves the header to whom it was about.
DirectProfiles(j) ==
    /\ j.at = "profiles"
    /\ \/ header' = j.conv /\ UNCHANGED <<disturbed, faults>>
       \/ Fails /\ UNCHANGED header
    /\ NextInit(j, "dm", <<>>)
    /\ UNCHANGED <<route, conv, loading, shown, more, draft, file, pushes, older, sends>>
    /\ UNCHANGED <<storeVars, inputVars, stampVars, frames>>

\* get_or_create_dm
OpenDm(j) ==
    /\ j.at = "dm"
    /\ \/ /\ conv' = j.conv
          /\ NextInit(j, "load", <<>>)
          /\ disturbed' = (disturbed \/ (j.conv # conv /\ ~IdleBut({j})))
          /\ UNCHANGED <<loading, faults>>
       \/ /\ Fails
          /\ Ends(j)
          /\ UNCHANGED conv
    /\ UNCHANGED <<route, header, shown, more, draft, file, pushes, older, sends>>
    /\ UNCHANGED <<storeVars, inputVars, stampVars, frames>>

\* get_user_id, get_group_members and get_conversations
GroupInfo(j) ==
    /\ j.at = "profiles"
    /\ \/ /\ header' = j.conv
          /\ NextInit(j, "load", <<>>)
          /\ UNCHANGED <<loading, disturbed, faults>>
       \/ /\ Fails
          /\ Ends(j)
          /\ UNCHANGED header
    /\ UNCHANGED <<route, conv, shown, more, draft, file, pushes, older, sends>>
    /\ UNCHANGED <<storeVars, inputVars, stampVars, frames>>

\* get_messages; a failure leaves the list as it is and goes on to mark_read.
LoadMessages(j) ==
    /\ j.at = "load"
    /\ \/ /\ stored' = stored \cup Fetched(j.conv)
          /\ \E q \in InOrder(Newest(RowsOf(stored', j.conv), LoadLimit)) :
                NextInit(j, "loaded", q)
          /\ UNCHANGED <<disturbed, faults>>
       \/ /\ Fails
          /\ NextInit(j, "read", <<>>)
          /\ UNCHANGED stored
    /\ UNCHANGED <<server, clock, pageVars, pushes, older, sends>>
    /\ UNCHANGED <<inputVars, stampVars, frames>>

\* Rows of the same conversation that the answer is too old to have: they leave the
\* screen with it, and stay away until the conversation is opened again.
Overtaken(q) ==
    \E m \in RowsIn(shown) : \A i \in DOMAIN q : q[i].conv = m.conv /\ q[i].ts < m.ts

\* setMessages(data), whatever has been shown since it was asked for
ShowLoaded(j) ==
    /\ j.at = "loaded"
    /\ NextInit(j, "read", <<>>)
    /\ shown' = j.rows
    /\ disturbed' = (disturbed \/ Overtaken(j.rows))
    /\ UNCHANGED <<route, conv, header, loading, more, draft, file, pushes, older, sends>>
    /\ UNCHANGED <<storeVars, inputVars, stampVars, frames, faults>>

\* mark_read, then the finally block
InitRead(j) ==
    /\ j.at = "read"
    /\ Ends(j)
    /\ UNCHANGED <<route, conv, header, shown, more, draft, file, pushes, older, sends>>
    /\ UNCHANGED <<storeVars, inputVars, stampVars, frames, disturbed, faults>>

Initialize(j) == LoadMessages(j) \/ ShowLoaded(j) \/ InitRead(j)

----------------------------------------------------------------------------
(***************************************************************************)
(* Announced messages.  The page and the list subscribe to the same        *)
(* announcements, and whichever fetches first stores the rows.             *)
(***************************************************************************)
\* The other side has posted and announced a message.
PeerPosts(c) ==
    /\ Room
    /\ clock' = clock + 1
    /\ server' = server \cup {[conv |-> c, ts |-> clock', text |-> 0, temp |-> FALSE]}
    /\ frames' = frames \cup {c}
    /\ UNCHANGED <<stored, pageVars, runVars, inputVars, stampVars, disturbed, faults>>

\* The handler of the list, whenever it comes to fetch.
ListFetch(c) ==
    /\ Fetched(c) # {}
    /\ stored' = stored \cup Fetched(c)
    /\ UNCHANGED <<server, clock, pageVars, runVars, inputVars, stampVars, frames>>
    /\ UNCHANGED <<disturbed, faults>>

\* Mutation: the page takes the announcements of every conversation.
AnyConversation(c) == route # None
\* handleWsMessage: only those of the open conversation.
Concerns(c) == route # None /\ c = conv

Dispatch(c) ==
    /\ c \in frames
    /\ frames' = frames \ {c}
    /\ pushes' = IF Concerns(c)
                 THEN pushes \cup {[conv |-> c, at |-> "fetch", rows |-> {}]}
                 ELSE pushes
    /\ UNCHANGED <<pageVars, inits, older, sends, storeVars, inputVars, stampVars>>
    /\ UNCHANGED <<disturbed, faults>>

\* fetch_new_messages.  Its return value is not used.
PushFetch(p) ==
    /\ p.at = "fetch"
    /\ \/ /\ stored' = stored \cup Fetched(p.conv)
          /\ pushes' = (pushes \ {p}) \cup
                           {[p EXCEPT !.at = "ask", !.rows = Fetched(p.conv)]}
          /\ UNCHANGED <<disturbed, faults>>
       \/ /\ Fails
          /\ pushes' = pushes \ {p}
          /\ UNCHANGED stored
    /\ UNCHANGED <<server, clock, pageVars, inits, older, sends, inputVars, stampVars, frames>>

\* A row not accepted yet has the device's Date.now(), the others the server's time.
\* (Its ts is the same moment by the server's clock.)
Stamp(m) == IF m.temp THEN m.ts + skew ELSE m.ts
LastShown == IF shown = <<>> THEN 0 ELSE Stamp(shown[Len(shown)])
AfterAhead == shown # <<>> /\ shown[Len(shown)].temp /\ skew > 0

PushAsk(p) ==
    /\ p.at = "ask"
    /\ misled' = AfterAhead
    /\ pushes' = (pushes \ {p}) \cup
                     {[p EXCEPT !.at = "show", !.rows = LocalAfter(p, LastShown)]}
    /\ UNCHANGED <<pageVars, inits, older, sends, storeVars, inputVars, skew, frames>>
    /\ UNCHANGED <<disturbed, faults>>

\* Append what is not there yet.
PushShow(p) ==
    /\ p.at = "show"
    /\ pushes' = pushes \ {p}
    /\ \E q \in InOrder(p.rows \ RowsIn(shown)) : shown' = shown \o q
    /\ UNCHANGED <<route, conv, header, loading, more, draft, file, inits, older, sends>>
    /\ UNCHANGED <<storeVars, inputVars, stampVars, frames, disturbed, faults>>

HandleWsMessage(p) == PushFetch(p) \/ PushAsk(p) \/ PushShow(p)

\* What the page lets the user do: nothing while it loads, and nothing but
\* choosing a file while something is being sent.
Screen == route # None /\ ~loading
Composer == Screen /\ conv # None /\ Live(sends) = {}

\* loadMoreMessages: the rows before the first one shown.
LoadOlder ==
    /\ Screen /\ conv # None /\ older = {} /\ more
    /\ \E q \in InOrder(IF shown = <<>> THEN Newest(RowsOf(stored, conv), OlderLimit)
                        ELSE LocalBefore(conv, Stamp(shown[1]))) :
          older' = {q}
    /\ UNCHANGED <<pageVars, inits, pushes, sends, storeVars, inputVars, stampVars, frames>>
    /\ UNCHANGED <<disturbed, faults>>

OlderLoaded(q) ==
    /\ older' = {}
    /\ shown' = q \o shown
    /\ more' = (q # <<>>)
    /\ UNCHANGED <<route, conv, header, loading, draft, file, inits, pushes, sends>>
    /\ UNCHANGED <<storeVars, inputVars, stampVars, frames, disturbed, faults>>

LoadMoreMessages == LoadOlder \/ \E q \in older : OlderLoaded(q)

----------------------------------------------------------------------------
(***************************************************************************)
(* The composer                                                            *)
(***************************************************************************)
Type ==
    /\ Screen /\ Live(sends) = {} /\ draft = 0 /\ typed < MaxTexts /\ Room
    /\ typed' = typed + 1
    /\ draft' = typed'
    /\ UNCHANGED <<route, conv, header, loading, shown, more, file, runVars, storeVars>>
    /\ UNCHANGED <<stampVars, frames, left, visits, disturbed, faults>>

\* handleFileSelect, by the button, or by a drop, which is possible at any time.
Attach ==
    /\ Screen /\ typed < MaxTexts /\ Room
    /\ typed' = typed + 1
    /\ file' = typed'
    /\ left' = left \cup ({file} \ {0})
    /\ UNCHANGED <<route, conv, header, loading, shown, more, draft, runVars, storeVars>>
    /\ UNCHANGED <<stampVars, frames, visits, disturbed, faults>>

\* clearSelectedFile, by its button, also while something is being sent.
ClearFile ==
    /\ Screen /\ file # 0
    /\ file' = 0
    /\ left' = left \cup {file}
    /\ UNCHANGED <<route, conv, header, loading, shown, more, draft, runVars, storeVars>>
    /\ UNCHANGED <<stampVars, frames, typed, visits, disturbed, faults>>

Send(kind, text, ts) ==
    [kind |-> kind, conv |-> conv, text |-> text, ts |-> ts, at |-> "post", rows |-> <<>>,
     live |-> TRUE]

\* sendMessage up to its await: the text is on the screen before it is sent, under
\* the device's time.
SendMessage ==
    /\ Composer /\ draft # 0 /\ file = 0
    /\ clock' = clock + 1
    /\ shown' = Append(shown, [conv |-> conv, ts |-> clock', text |-> draft, temp |-> TRUE])
    /\ sends' = sends \cup {Send("text", draft, clock')}
    /\ draft' = 0
    /\ skew' \in Skews
    /\ UNCHANGED <<route, conv, header, loading, more, file, inits, pushes, older, stored, server>>
    /\ UNCHANGED <<inputVars, misled, frames, disturbed, faults>>

SendMedia ==
    /\ Composer /\ file # 0
    /\ sends' = sends \cup {Send("media", file, 0)}
    /\ UNCHANGED <<pageVars, inits, pushes, older, storeVars, inputVars, stampVars, frames>>
    /\ UNCHANGED <<disturbed, faults>>

NextSend(s, at, rows) == sends' = (sends \ {s}) \cup {[s EXCEPT !.at = at, !.rows = rows]}

\* send_message or send_media: accepted and stored, or failed.  (A failed text
\* stays in the outbox; MessageDelivery has what becomes of it there.)
Post(s) ==
    /\ s.at = "post"
    /\ \/ /\ clock' = clock + 1
          /\ LET row == [conv |-> s.conv, ts |-> clock', text |-> s.text, temp |-> FALSE]
             IN /\ server' = server \cup {row}
                /\ stored' = stored \cup {row}
                /\ NextSend(s, "accepted", <<row>>)
          /\ UNCHANGED <<disturbed, faults>>
       \/ /\ Fails
          /\ NextSend(s, "failed", <<>>)
          /\ UNCHANGED <<clock, server, stored>>
    /\ UNCHANGED <<pageVars, inits, pushes, older, inputVars, stampVars, frames>>

IsTemp(s, m) == m.temp /\ m.ts = s.ts
\* The row of s gives way to the accepted one, wherever it is; it may be nowhere.
Replaced(s) == [i \in DOMAIN shown |-> IF IsTemp(s, shown[i]) THEN s.rows[1] ELSE shown[i]]
\* The rows shown at the places I, in their order.
Places(I) == {f \in [1..Cardinality(I) -> I] : \A h, k \in DOMAIN f : h < k => f[h] < f[k]}
At(I) == {[k \in DOMAIN f |-> shown[f[k]]] : f \in Places(I)}
\* Mutation: a failed text stays on the screen.
NotRemoved(s) == {shown}
Removed(s) == At({i \in DOMAIN shown : ~IsTemp(s, shown[i])})

\* What comes of a text: nothing on an unmounted page; otherwise the row is
\* replaced, or removed and the text handed back.
TextSent(s) ==
    /\ s.kind = "text" /\ s.at \in {"accepted", "failed"}
    /\ sends' = sends \ {s}
    /\ \/ /\ ~s.live
          /\ left' = IF s.at = "failed" THEN left \cup {s.text} ELSE left
          /\ UNCHANGED <<shown, draft>>
       \/ /\ s.live /\ s.at = "accepted"
          /\ shown' = Replaced(s)
          /\ UNCHANGED <<draft, left>>
       \/ /\ s.live /\ s.at = "failed"
          /\ shown' \in Removed(s)
          /\ draft' = s.text
          /\ UNCHANGED left
    /\ UNCHANGED <<route, conv, header, loading, more, file, inits, pushes, older>>
    /\ UNCHANGED <<storeVars, stampVars, frames, typed, visits, disturbed, faults>>

\* After an attachment the whole list is loaded again, of the conversation it went to.
MediaLoads(s) ==
    /\ s.kind = "media" /\ s.at = "accepted"
    /\ \/ /\ stored' = stored \cup Fetched(s.conv)
          /\ \E q \in InOrder(Newest(RowsOf(stored', s.conv), LoadLimit)) :
                NextSend(s, "loaded", q)
          /\ UNCHANGED <<disturbed, faults>>
       \/ /\ Fails
          /\ NextSend(s, "failed", <<>>)
          /\ UNCHANGED stored
    /\ UNCHANGED <<server, clock, pageVars, inits, pushes, older, inputVars, stampVars, frames>>

\* The finally block clears whatever file is chosen by now.
MediaSent(s) ==
    /\ s.kind = "media" /\ s.at \in {"loaded", "failed"}
    /\ sends' = sends \ {s}
    /\ \/ /\ s.live
          /\ shown' = IF s.at = "loaded" THEN s.rows ELSE shown
          /\ disturbed' = (disturbed \/ (s.at = "loaded" /\ Overtaken(s.rows)))
          /\ file' = 0
          /\ left' = left \cup ({s.text, file} \ {0})
       \/ /\ ~s.live
          /\ left' = left \cup {s.text}
          /\ UNCHANGED <<shown, disturbed, file>>
    /\ UNCHANGED <<route, conv, header, loading, more, draft, inits, pushes, older>>
    /\ UNCHANGED <<storeVars, stampVars, frames, typed, visits, faults>>

SendText(s) == Post(s) \/ TextSent(s)
SendAttachment(s) == Post(s) \/ MediaLoads(s) \/ MediaSent(s)

----------------------------------------------------------------------------
(***************************************************************************)
(* The two pages                                                           *)
(***************************************************************************)
InitializeDirect(j) == j.conv \in Direct /\ (DirectProfiles(j) \/ OpenDm(j) \/ Initialize(j))
InitializeGroup(j) == j.conv \in Groups /\ (GroupInfo(j) \/ Initialize(j))

\* The group page has the same handlers.
OnGroupPage == route \in Groups
GroupWsMessage(p) == OnGroupPage /\ HandleWsMessage(p)
GroupOlder == OnGroupPage /\ LoadMoreMessages
GroupSendMessage == OnGroupPage /\ (Type \/ SendMessage)
GroupSendMedia == OnGroupPage /\ (Attach \/ ClearFile \/ SendMedia)

OnDirectPage == route \in Direct
DirectPage ==
    OnDirectPage /\ (Type \/ Attach \/ ClearFile \/ SendMessage \/ SendMedia
                        \/ LoadMoreMessages \/ \E p \in pushes : HandleWsMessage(p))
GroupPage ==
    GroupSendMessage \/ GroupSendMedia \/ GroupOlder \/ \E p \in pushes : GroupWsMessage(p)

\* Whose name, picture, members and rows the screen shows.
Speaks == {header} \cup {m.conv : m \in RowsIn(shown)}
DirectScreen == IF OnDirectPage /\ ~loading THEN Speaks ELSE {}
GroupScreen == IF OnGroupPage /\ ~loading THEN Speaks ELSE {}

Next ==
    \/ \E c \in Conversations : Open(c) \/ PeerPosts(c) \/ Dispatch(c) \/ ListFetch(c)
    \/ Leave
    \/ \E j \in inits : InitializeDirect(j) \/ InitializeGroup(j)
    \/ DirectPage \/ GroupPage
    \/ \E s \in sends : SendText(s) \/ SendAttachment(s)

Spec == Init /\ [][Next]_vars

----------------------------------------------------------------------------
(***************************************************************************)
(* Properties                                                              *)
(***************************************************************************)
Number == 0..MaxTexts
TypeOK ==
    /\ {route, conv, header} \subseteq Conversations \cup {None} /\ loading \in BOOLEAN
    /\ shown \in Seq(Row) /\ more \in BOOLEAN
    /\ draft \in Number /\ file \in Number
    /\ inits \subseteq [conv : Conversations, at : {"profiles", "dm", "load", "loaded", "read"},
                        rows : Seq(Row)]
    /\ pushes \subseteq [conv : Conversations, at : {"fetch", "ask", "show"}, rows : SUBSET Row]
    /\ older \subseteq Seq(Row)
    /\ sends \subseteq [kind : {"text", "media"}, conv : Conversations, text : Number, ts : Nat,
                        at : {"post", "accepted", "loaded", "failed"}, rows : Seq(Row),
                        live : BOOLEAN]
    /\ stored \subseteq Row /\ server \subseteq Row /\ clock \in Nat
    /\ frames \subseteq Conversations
    /\ typed \in Number /\ left \subseteq Number
    /\ disturbed \in BOOLEAN /\ skew \in Int /\ misled \in BOOLEAN
    /\ visits \in Nat /\ faults \in Nat

Idle == IdleBut({})

\* A page that has come to rest is about one conversation: the URL, the header,
\* the rows and the conversation its composer sends to.  (DirectMessagePage.tsx
\* initializeChat, handleWsMessage, loadMoreMessages.)
PageAgrees ==
    route # None /\ Idle /\ ~disturbed =>
        /\ conv = route
        /\ DirectScreen \cup GroupScreen = {route}

\* A message of the open conversation that the device has is on the screen, or
\* is older than something there, although the list's handler may be the one
\* that fetched it (DirectMessagePage.tsx:129, "may win the per-conversation
\* mutex first").  Two things hide one: a list that comes later than newer rows
\* and replaces them, and an ask after a row that a clock ahead of the server's
\* has stamped; the next ask makes good the second, not the first.
NothingNewerIsHidden ==
    route # None /\ Idle /\ route \notin frames /\ ~disturbed /\ ~misled =>
        \A m \in RowsOf(stored, route) :
            m.text = 0 => m \in RowsIn(shown) \/ \E n \in RowsIn(shown) : n.ts > m.ts

\* A text the user has entered is in the composer, on its way, accepted, or
\* went with its page, so a failed one is handed back; and what is on the
\* screen before it is accepted is on its way.  A file is not handed back: the
\* finally block of sendMedia clears it whatever came of it, and `left` has it.
\* (DirectMessagePage.tsx sendMessage, its three outcomes; 422-426.)
TextKept ==
    /\ \A t \in 1..typed :
          \/ t \in {draft, file} \cup left \cup TextsOf(sends)
          \/ \E m \in server : m.text = t
    /\ \A m \in RowsIn(shown) : m.temp => \E s \in Live(sends) : IsTemp(s, m)

\* What the user submits goes to the conversation whose name is on the screen.
\* (DirectMessagePage.tsx:671: the composer says whom the message is for.)
SentWhereShown ==
    [][\A s \in sends' :
           s.text \in {draft, file} /\ s.text \notin TextsOf(sends) => s.conv = header]_vars
=============================================================================

---------------------------- MODULE ScreensProofs ----------------------------
(***************************************************************************)
(* Theorems about the components Screens runs beside SignIn: for each the  *)
(* inductive invariant of its own specification, then what follows from    *)
(* it, for all values of the constants.                                    *)
(***************************************************************************)
EXTENDS Screens, FiniteSetTheorems, TLAPS

\* What each component assumes of its constants.
LEMMA Assumed ==
    L!ListAssumption /\ F!FriendsAssumption /\ P!ProfileFormAssumption /\ D!PreviewAssumption
    /\ G!GroupChatAssumption
  BY ScreensAssumption

\* Whatever Screens does, each component beside SignIn follows its own specification, so
\* what the theorems below say of those holds of Screens too.
THEOREM ComponentsFollow ==
    ScreensSpec => Spec /\ L!Spec /\ F!Spec /\ P!Spec /\ D!Spec /\ G!Spec
  <1>1. ScreensInit => Init /\ L!Init /\ F!Init /\ P!Init /\ D!Init /\ G!Init
    BY DEF ScreensInit
  <1>2. [ScreensNext]_<<scene, vars, lVars, fVars, pVars, dVars, gVars>> =>
           /\ [Next]_vars /\ [L!Next]_L!vars /\ [F!Next]_F!vars
           /\ [P!Next]_P!vars /\ [D!Next]_D!vars /\ [G!Next]_G!vars
    <2> SUFFICES ASSUME [ScreensNext]_<<scene, vars, lVars, fVars, pVars, dVars, gVars>>
                 PROVE  /\ [Next]_vars /\ [L!Next]_L!vars /\ [F!Next]_F!vars
                        /\ [P!Next]_P!vars /\ [D!Next]_D!vars /\ [G!Next]_G!vars
      OBVIOUS
    <2>1. UNCHANGED vars \/ (scene = "session" /\ Next)
      BY DEF ScreensNext, vars
    <2>2. UNCHANGED lVars \/ (scene = "home" /\ L!Next)
      BY DEF ScreensNext, lVars
    <2>3. UNCHANGED fVars \/ (scene = "friends" /\ F!Next)
      BY DEF ScreensNext, fVars
    <2>4. UNCHANGED pVars \/ (scene = "profile" /\ P!Next)
      BY DEF ScreensNext, pVars
    <2>5. UNCHANGED dVars \/ (scene = "devices" /\ D!Next)
      BY DEF ScreensNext, dVars
    <2>6. UNCHANGED gVars \/ (scene = "groups" /\ G!Next)
      BY DEF ScreensNext, gVars
    <2>7. UNCHANGED lVars => UNCHANGED L!vars
      BY DEF lVars, L!vars, L!serverVars, L!listVars, L!pageVars, L!dialogVars, L!snapVars
    <2>8. UNCHANGED fVars => UNCHANGED F!vars
      BY DEF fVars, F!vars, F!serverVars, F!listVars
    <2>9. UNCHANGED pVars => UNCHANGED P!vars
      BY DEF pVars, P!vars, P!formVars, P!workVars, P!historyVars, P!bounds
    <2>10. UNCHANGED dVars => UNCHANGED D!vars
      BY DEF dVars, D!vars, D!section, D!streams
    <2>11. UNCHANGED gVars => UNCHANGED G!vars
      BY DEF gVars, G!vars, G!serverVars, G!deviceVars, G!historyVars
    <2> QED
      BY <2>1, <2>2, <2>3, <2>4, <2>5, <2>6, <2>7, <2>8, <2>9, <2>10, <2>11
  <1> QED
    BY <1>1, <1>2, PTL DEF ScreensSpec, Spec, L!Spec, F!Spec, P!Spec, D!Spec, G!Spec

-----------------------------------------------------------------------------
(***************************************************************************)
(* ConversationList: an unread message shows.                              *)
(***************************************************************************)
\* The user's own messages are counted with the others'.
AllCounted == \A c \in L!Conversations : lOthers[c] <= lUnread[c]

\* What is listed exists, in whatever snapshot.
ListsExisting ==
    /\ Direct \subseteq lExists /\ lListed \subseteq lExists
    /\ \A j \in lRefreshes : j.listed \subseteq lExists

\* The last snapshot the server gave is on the screen or on its way there.
LastComes ==
    ~lDisturbed =>
        /\ lNewest <= lAsked /\ \A j \in lRefreshes : j.at = "show" => j.n <= lAsked
        /\ lNewest = lAsked \/ \E j \in lRefreshes : j.at = "show" /\ j.n = lAsked

\* A list that shows what there is, but for what is still to be dealt with.
Surfaces(list, counts) ==
    /\ \A c \in L!Conversations : lOthers[c] > 0 => c \in lFrames \cup lFetching \cup lReads
           \/ counts[c] > 0
    /\ \A g \in Direct \cup (Groups \cap lExists) : g = lCreating \/ g \in list

\* So does the last snapshot, unless the server is still to be asked for another.
LastSurfaces ==
    ~lDisturbed =>
        \/ \E j \in lRefreshes : j.at = "ask"
        \/ /\ lNewest = lAsked => Surfaces(lListed, lBadge)
           /\ \A j \in lRefreshes : j.at = "show" /\ j.n = lAsked => Surfaces(j.listed, j.badge)

ListInv == L!TypeOK /\ AllCounted /\ ListsExisting /\ LastComes /\ LastSurfaces

\* Steps that leave what there is to show as it was, or announce it.
SidebarFollows ==
    /\ \A c \in L!Conversations : lOthers'[c] > 0 =>
          \/ c \in lFrames' \cup lFetching' \cup lReads'
          \/ lOthers[c] > 0 /\ c \notin lFrames \cup lFetching \cup lReads
    /\ \A g \in Direct \cup (Groups \cap lExists') :
          g = lCreating' \/ (g \in Direct \cup (Groups \cap lExists) /\ g # lCreating)

LEMMA ListTypeParts ==
    L!TypeOK <=>
        /\ lExists \subseteq L!Conversations /\ lListed \subseteq L!Conversations
        /\ lUnread \in [L!Conversations -> Nat] /\ lOthers \in [L!Conversations -> Nat]
        /\ lBadge \in [L!Conversations -> Nat]
        /\ lListLoading \in BOOLEAN /\ lProfileLoading \in BOOLEAN /\ lDialog \in BOOLEAN
        /\ lPicked \in BOOLEAN /\ lDisturbed \in BOOLEAN
        /\ lRefreshes \subseteq [at : {"ask", "show"}, n : Nat, listed : SUBSET L!Conversations,
                                 badge : [L!Conversations -> Nat]]
        /\ lOpen \in L!Conversations \cup {None} /\ lCreating \in L!Conversations \cup {None}
        /\ lFetching \subseteq L!Conversations /\ lReads \subseteq L!Conversations
        /\ lFrames \subseteq L!Conversations
        /\ lAsked \in Nat /\ lNewest \in Nat /\ lRows \in Nat /\ lOpens \in Nat /\ lFaults \in Nat
  BY DEF L!TypeOK

LEMMA AskingRuns ==
    /\ L!Zero \in [L!Conversations -> Nat]
    /\ L!Asking \in [at : {"ask", "show"}, n : Nat, listed : SUBSET L!Conversations,
                     badge : [L!Conversations -> Nat]]
    /\ L!Asking.at = "ask" /\ L!Asking.listed = {}
  BY DEF L!Asking, L!Zero

LEMMA ListImplied == L!ListAssumption /\ ListInv => L!UnreadSurfaces
  <1> SUFFICES ASSUME L!ListAssumption, ListInv, L!AtRest, ~lDisturbed
               PROVE  /\ \A c \in lListed \ {lOpen} : lOthers[c] > 0 => lBadge[c] > 0
                      /\ Direct \cup (Groups \cap lExists) \subseteq lListed
    BY DEF L!UnreadSurfaces
  <1>1. /\ lRefreshes = {} /\ lFetching = {} /\ lFrames = {} /\ lReads = {} /\ lCreating = None
        /\ lListed \subseteq L!Conversations
    BY DEF L!AtRest, ListInv, L!TypeOK
  <1>2. lNewest = lAsked
    BY <1>1 DEF ListInv, LastComes
  <1>3. Surfaces(lListed, lBadge)
    BY <1>1, <1>2 DEF ListInv, LastSurfaces
  <1>4. \A c \in lListed : lOthers[c] > 0 => lBadge[c] > 0
    BY <1>1, <1>3 DEF Surfaces
  <1>5. None \notin Direct \cup Groups
    BY DEF L!ListAssumption, L!Conversations
  <1>6. Direct \cup (Groups \cap lExists) \subseteq lListed
    BY <1>1, <1>3, <1>5 DEF Surfaces
  <1> QED
    BY <1>4, <1>6

LEMMA SurfacesKept ==
    ASSUME NEW list, NEW counts, Surfaces(list, counts), SidebarFollows
    PROVE  Surfaces(list, counts)'
  BY DEF Surfaces, SidebarFollows

\* A step beside the sidebar.
LEMMA SidebarKept ==
    ASSUME ListInv, SidebarFollows, UNCHANGED <<lListed, lBadge, lNewest, lAsked, lDisturbed,
           lRefreshes>>
    PROVE  LastComes' /\ LastSurfaces'
  <1>1. LastComes'
    BY DEF ListInv, LastComes
  <1>2. \A list, counts : Surfaces(list, counts) => Surfaces(list, counts)'
    BY SurfacesKept
  <1>3. LastSurfaces'
    BY <1>2 DEF ListInv, LastSurfaces
  <1> QED
    BY <1>1, <1>3

\* Nothing is promised of a list that a failed call has left behind.
LEMMA DisturbedExempt ==
    ASSUME lDisturbed' = TRUE PROVE LastComes' /\ LastSurfaces'
  BY DEF LastComes, LastSurfaces

\* The server will be asked once more.
LEMMA AsksAgain ==
    ASSUME ListInv, L!Refresh, UNCHANGED <<lNewest, lAsked, lDisturbed>>
    PROVE  LastComes' /\ LastSurfaces'
  <1>1. lRefreshes' = lRefreshes \cup {L!Asking} /\ L!Asking.at = "ask"
    BY AskingRuns DEF L!Refresh
  <1>2. LastComes'
    BY <1>1 DEF ListInv, LastComes
  <1>3. LastSurfaces'
    BY <1>1 DEF LastSurfaces
  <1> QED
    BY <1>2, <1>3

-----------------------------------------------------------------------------
LEMMA PostedTyped ==
    ASSUME L!TypeOK, AllCounted, NEW c \in L!Conversations, L!Posted(c)
    PROVE  /\ lUnread' \in [L!Conversations -> Nat] /\ lRows' \in Nat
           /\ lUnread'[c] = lUnread[c] + 1
           /\ \A d \in L!Conversations \ {c} : lUnread'[d] = lUnread[d]
  BY DEF L!TypeOK, L!Posted

LEMMA PeerPostsKeeps ==
    ASSUME ListInv, NEW c \in L!Conversations, L!PeerPosts(c)
    PROVE  ListInv'
  <1>1. /\ L!Posted(c) /\ lOthers' = [lOthers EXCEPT ![c] = @ + 1] /\ lFrames' = lFrames \cup {c}
        /\ UNCHANGED <<lExists, L!listVars, L!pageVars, L!dialogVars, L!snapVars, lDisturbed,
               lFaults>>
    BY DEF L!PeerPosts
  <1>2. /\ lUnread' \in [L!Conversations -> Nat] /\ lRows' \in Nat
        /\ lUnread'[c] = lUnread[c] + 1
        /\ \A d \in L!Conversations \ {c} : lUnread'[d] = lUnread[d]
    BY <1>1, PostedTyped DEF ListInv
  <1>3. lOthers \in [L!Conversations -> Nat] /\ lUnread \in [L!Conversations -> Nat]
    BY DEF ListInv, L!TypeOK
  <1>4. /\ lOthers' \in [L!Conversations -> Nat] /\ lOthers'[c] = lOthers[c] + 1
        /\ \A d \in L!Conversations \ {c} : lOthers'[d] = lOthers[d]
    BY <1>1, <1>3
  <1>5. L!TypeOK'
    BY <1>1, <1>2, <1>4 DEF ListInv, L!TypeOK, L!listVars, L!pageVars, L!dialogVars, L!snapVars
  <1>6. AllCounted'
    BY <1>2, <1>3, <1>4 DEF ListInv, AllCounted
  <1>7. ListsExisting'
    BY <1>1 DEF ListInv, ListsExisting, L!listVars
  <1>8. SidebarFollows
    BY <1>1, <1>4 DEF SidebarFollows, L!listVars, L!pageVars, L!dialogVars
  <1>9. LastComes' /\ LastSurfaces'
    BY <1>1, <1>8, SidebarKept DEF L!listVars, L!snapVars
  <1> QED
    BY <1>5, <1>6, <1>7, <1>9 DEF ListInv

LEMMA OwnPostKeeps == ASSUME ListInv, L!OwnPost, L!ListAssumption PROVE ListInv'
  <1>1. /\ L!Posted(lOpen) /\ lOpen \in L!Conversations
        /\ UNCHANGED <<lExists, lOthers, L!listVars, L!pageVars, L!dialogVars, lFrames, L!snapVars>>
        /\ UNCHANGED <<lDisturbed, lFaults>>
    BY DEF L!OwnPost, ListInv, L!TypeOK
  <1>2. /\ lUnread' \in [L!Conversations -> Nat] /\ lRows' \in Nat
        /\ lUnread'[lOpen] = lUnread[lOpen] + 1
        /\ \A d \in L!Conversations \ {lOpen} : lUnread'[d] = lUnread[d]
    BY <1>1, PostedTyped DEF ListInv
  <1>3. lOthers \in [L!Conversations -> Nat] /\ lUnread \in [L!Conversations -> Nat]
    BY DEF ListInv, L!TypeOK
  <1>4. L!TypeOK'
    BY <1>1, <1>2 DEF ListInv, L!TypeOK, L!listVars, L!pageVars, L!dialogVars, L!snapVars
  <1>5. AllCounted'
    BY <1>1, <1>2, <1>3 DEF ListInv, AllCounted
  <1>6. ListsExisting'
    BY <1>1 DEF ListInv, ListsExisting, L!listVars
  <1>7. SidebarFollows
    BY <1>1 DEF SidebarFollows, L!listVars, L!pageVars, L!dialogVars
  <1>8. LastComes' /\ LastSurfaces'
    BY <1>1, <1>7, SidebarKept DEF L!listVars, L!snapVars
  <1> QED
    BY <1>4, <1>5, <1>6, <1>8 DEF ListInv

LEMMA LoseFrameKeeps ==
    ASSUME ListInv, NEW c \in L!Conversations, L!LoseFrame(c)
    PROVE  ListInv'
  <1>1. /\ L!Fails /\ lFrames' = lFrames \ {c} /\ lDisturbed' = TRUE
        /\ UNCHANGED <<L!serverVars, L!listVars, L!pageVars, L!dialogVars, L!snapVars, lRows>>
    BY DEF L!LoseFrame
  <1>2. lFaults' \in Nat
    BY <1>1 DEF ListInv, L!TypeOK, L!Fails
  <1>3. L!TypeOK'
    BY <1>1, <1>2 DEF ListInv, L!TypeOK, L!serverVars, L!listVars, L!pageVars, L!dialogVars,
       L!snapVars
  <1>4. AllCounted' /\ ListsExisting'
    BY <1>1 DEF ListInv, AllCounted, ListsExisting, L!serverVars, L!listVars
  <1> QED
    BY <1>1, <1>3, <1>4, DisturbedExempt DEF ListInv

LEMMA DispatchKeeps ==
    ASSUME ListInv, NEW c \in L!Conversations, L!Dispatch(c)
    PROVE  ListInv'
  <1>1. /\ lFrames' = lFrames \ {c} /\ lFetching' = lFetching \cup {c}
        /\ lReads \subseteq lReads' /\ lReads' \subseteq lReads \cup {c}
        /\ UNCHANGED <<L!serverVars, lListed, lBadge, lListLoading, lProfileLoading, lRefreshes>>
        /\ UNCHANGED <<lOpen, lOpens, L!dialogVars, L!snapVars, lDisturbed, lRows, lFaults>>
    BY DEF L!Dispatch
  <1>2. L!TypeOK'
    BY <1>1 DEF ListInv, L!TypeOK, L!serverVars, L!dialogVars, L!snapVars
  <1>3. AllCounted' /\ ListsExisting'
    BY <1>1 DEF ListInv, AllCounted, ListsExisting, L!serverVars
  <1>4. SidebarFollows
    BY <1>1 DEF SidebarFollows, L!serverVars, L!dialogVars
  <1>5. LastComes' /\ LastSurfaces'
    BY <1>1, <1>4, SidebarKept DEF L!snapVars
  <1> QED
    BY <1>2, <1>3, <1>5 DEF ListInv

LEMMA FetchKeeps ==
    ASSUME ListInv, NEW c \in L!Conversations, L!Fetch(c)
    PROVE  ListInv'
  <1>1. /\ lFetching' = lFetching \ {c} /\ L!Refresh
        /\ UNCHANGED <<L!serverVars, lListed, lBadge, lListLoading, lProfileLoading>>
        /\ UNCHANGED <<L!pageVars, L!dialogVars, lFrames, L!snapVars, lDisturbed, lRows>>
    BY DEF L!Fetch, L!GoesOn
  <1>2. lFaults' \in Nat
    BY DEF L!Fetch, L!Fails, ListInv, L!TypeOK
  <1>3. lRefreshes' = lRefreshes \cup {L!Asking}
    BY <1>1 DEF L!Refresh
  <1>4. L!TypeOK'
    BY <1>1, <1>2, <1>3, AskingRuns DEF ListInv, L!TypeOK, L!serverVars, L!pageVars,
       L!dialogVars, L!snapVars
  <1>5. AllCounted' /\ ListsExisting'
    BY <1>1, <1>3, AskingRuns DEF ListInv, AllCounted, ListsExisting, L!serverVars
  <1>6. LastComes' /\ LastSurfaces'
    BY <1>1, AsksAgain DEF L!snapVars
  <1> QED
    BY <1>4, <1>5, <1>6 DEF ListInv

LEMMA SnapshotKeeps ==
    ASSUME ListInv, NEW j \in lRefreshes, L!Answer(j)
    PROVE  ListInv'
  <1>1. CASE L!Fails /\ lRefreshes' = lRefreshes \ {j} /\ lDisturbed' = TRUE
             /\ lListLoading' = FALSE
             /\ lAsked' = lAsked
    <2>1. /\ UNCHANGED <<L!serverVars, lListed, lBadge, lProfileLoading, lFetching>>
          /\ UNCHANGED <<L!pageVars, L!dialogVars, lFrames, lNewest, lRows>>
      BY DEF L!Answer
    <2>2. lFaults' \in Nat
      BY <1>1 DEF L!Fails, ListInv, L!TypeOK
    <2>3. L!TypeOK'
      BY <1>1, <2>1, <2>2 DEF ListInv, L!TypeOK, L!serverVars, L!pageVars, L!dialogVars
    <2>4. AllCounted' /\ ListsExisting'
      BY <1>1, <2>1 DEF ListInv, AllCounted, ListsExisting, L!serverVars
    <2> QED
      BY <1>1, <2>3, <2>4, DisturbedExempt DEF ListInv
  <1>2. CASE lRefreshes' = (lRefreshes \ {j}) \cup {L!Snapshot} /\ lAsked' = lAsked + 1
             /\ UNCHANGED <<lListLoading, lDisturbed, lFaults>>
    <2>1. /\ UNCHANGED <<L!serverVars, lListed, lBadge, lProfileLoading, lFetching>>
          /\ UNCHANGED <<L!pageVars, L!dialogVars, lFrames, lNewest, lRows>> /\ j.at = "ask"
      BY DEF L!Answer
    <2>2. PICK s : s = L!Snapshot
      OBVIOUS
    <2>3. /\ lAsked \in Nat /\ lExists \subseteq L!Conversations
                 /\ lUnread \in [L!Conversations -> Nat]
          /\ lNewest \in Nat
      BY DEF ListInv, L!TypeOK
    <2>4. /\ s.at = "show" /\ s.n = lAsked + 1 /\ s.listed = lExists /\ s.badge = lUnread
          /\ s \in [at : {"ask", "show"}, n : Nat, listed : SUBSET L!Conversations,
                    badge : [L!Conversations -> Nat]]
      BY <2>2, <2>3 DEF L!Snapshot
    <2>5. lRefreshes' = (lRefreshes \ {j}) \cup {s}
      BY <1>2, <2>2
    <2>6. L!TypeOK'
      BY <1>2, <2>1, <2>3, <2>4, <2>5 DEF ListInv, L!TypeOK, L!serverVars, L!pageVars, L!dialogVars
    <2>7. AllCounted' /\ ListsExisting'
      BY <2>1, <2>4, <2>5 DEF ListInv, AllCounted, ListsExisting, L!serverVars
    <2>8. ~lDisturbed => lNewest < lAsked' /\ \A i \in lRefreshes : i.at = "show" => i.n < lAsked'
      <3>1. \A i \in lRefreshes : i.n \in Nat
        BY DEF ListInv, L!TypeOK
      <3> QED
        BY <1>2, <2>3, <3>1 DEF ListInv, LastComes
    <2>9. LastComes'
      <3> SUFFICES ASSUME ~lDisturbed
                   PROVE  /\ lNewest <= lAsked' /\ \A i \in lRefreshes' : i.at = "show"
                                 => i.n <= lAsked'
                          /\ \E i \in lRefreshes' : i.at = "show" /\ i.n = lAsked'
        BY <1>2, <2>1 DEF LastComes
      <3>1. lAsked' \in Nat /\ \A i \in lRefreshes : i.n \in Nat
        BY <1>2, <2>3 DEF ListInv, L!TypeOK
      <3>2. lNewest <= lAsked' /\ \A i \in lRefreshes : i.at = "show" => i.n <= lAsked'
        BY <2>3, <2>8, <3>1
      <3>3. s \in lRefreshes' /\ s.at = "show" /\ s.n = lAsked'
        BY <1>2, <2>4, <2>5
      <3>4. \A i \in lRefreshes' : i.at = "show" => i.n <= lAsked'
        BY <2>5, <3>1, <3>2, <3>3
      <3> QED
        BY <3>2, <3>3, <3>4
    <2>10. Surfaces(lExists, lUnread)
      <3>1. \A c \in L!Conversations : lOthers[c] > 0 => lUnread[c] > 0
        <4>1. \A c \in L!Conversations : lOthers[c] \in Nat /\ lUnread[c] \in Nat
              /\ lOthers[c] <= lUnread[c]
          BY DEF ListInv, L!TypeOK, AllCounted
        <4> QED
          BY <4>1
      <3>2. Direct \subseteq lExists
        BY DEF ListInv, ListsExisting
      <3> QED
        BY <3>1, <3>2 DEF Surfaces
    <2>11. Surfaces(s.listed, s.badge)'
      BY <2>1, <2>4, <2>10 DEF Surfaces, L!serverVars, L!pageVars, L!dialogVars
    <2>12. LastSurfaces'
      <3> SUFFICES ASSUME ~lDisturbed
                   PROVE  /\ lNewest # lAsked'
                          /\ \A i \in lRefreshes' : i.at = "show" /\ i.n = lAsked' =>
                                Surfaces(i.listed, i.badge)'
        BY <1>2, <2>1 DEF LastSurfaces
      <3>1. lNewest # lAsked'
        BY <1>2, <2>3, <2>8
      <3>2. \A i \in lRefreshes : i.at = "show" => i.n # lAsked'
        BY <1>2, <2>3, <2>8
      <3> QED
        BY <2>5, <2>11, <3>1, <3>2
    <2> QED
      BY <2>6, <2>7, <2>9, <2>12 DEF ListInv
  <1> QED
    BY <1>1, <1>2 DEF L!Answer

LEMMA ShowKeeps ==
    ASSUME ListInv, NEW j \in lRefreshes, L!Show(j)
    PROVE  ListInv'
  <1>1. /\ j.at = "show" /\ lRefreshes' = lRefreshes \ {j}
        /\ lListed' = j.listed /\ lBadge' = j.badge /\ lListLoading' = FALSE /\ lNewest' = j.n
        /\ lDisturbed' = (lDisturbed \/ j.n < lNewest)
        /\ UNCHANGED <<L!serverVars, lProfileLoading, lFetching, L!pageVars, L!dialogVars, lFrames>>
        /\ UNCHANGED <<lAsked, lRows, lFaults>>
    BY DEF L!Show
  <1>2. /\ j.n \in Nat /\ j.listed \subseteq L!Conversations /\ j.badge \in [L!Conversations -> Nat]
        /\ lNewest \in Nat /\ lAsked \in Nat
    BY DEF ListInv, L!TypeOK
  <1>3. lDisturbed' \in BOOLEAN
    BY <1>1 DEF ListInv, L!TypeOK
  <1>4. L!TypeOK'
    BY <1>1, <1>2, <1>3 DEF ListInv, L!TypeOK, L!serverVars, L!pageVars, L!dialogVars
  <1>5. AllCounted' /\ ListsExisting'
    BY <1>1 DEF ListInv, AllCounted, ListsExisting, L!serverVars
  <1>6. \A list, counts : Surfaces(list, counts) => Surfaces(list, counts)'
    BY <1>1 DEF Surfaces, L!serverVars, L!pageVars, L!dialogVars
  <1>7. ASSUME ~lDisturbed'
        PROVE  j.n <= lAsked /\ (j.n = lAsked \/ \E i \in lRefreshes' : i.at = "show"
               /\ i.n = lAsked)
    <2>1. ~lDisturbed /\ ~(j.n < lNewest)
      BY <1>1, <1>7
    <2>2. j.n <= lAsked
      BY <1>1, <2>1 DEF ListInv, LastComes
    <2>3. CASE j.n # lAsked
      <3>1. lNewest # lAsked
        BY <1>2, <2>1, <2>2, <2>3
      <3> QED
        BY <1>1, <2>1, <2>2, <2>3, <3>1 DEF ListInv, LastComes
    <2> QED
      BY <2>2, <2>3
  <1>8. LastComes'
    BY <1>1, <1>7 DEF ListInv, LastComes
  <1>9. LastSurfaces'
    <2> SUFFICES ASSUME ~lDisturbed', \A i \in lRefreshes' : i.at # "ask"
                 PROVE  /\ j.n = lAsked => Surfaces(lListed, lBadge)'
                        /\ \A i \in lRefreshes' : i.at = "show" /\ i.n = lAsked =>
                              Surfaces(i.listed, i.badge)'
      BY <1>1 DEF LastSurfaces
    <2>1. \A i \in lRefreshes : i.at # "ask"
      BY <1>1
    <2>2. /\ j.n = lAsked => Surfaces(j.listed, j.badge)
          /\ \A i \in lRefreshes' : i.at = "show" /\ i.n = lAsked => Surfaces(i.listed, i.badge)
      BY <1>1, <2>1 DEF ListInv, LastSurfaces
    <2>3. Surfaces(j.listed, j.badge) => Surfaces(lListed, lBadge)'
      BY <1>1 DEF Surfaces, L!serverVars, L!pageVars, L!dialogVars
    <2> QED
      BY <1>6, <2>2, <2>3
  <1> QED
    BY <1>4, <1>5, <1>8, <1>9 DEF ListInv

LEMMA LoadProfileKeeps == ASSUME ListInv, L!LoadProfile PROVE ListInv'
  <1>1. /\ lProfileLoading' = FALSE
        /\ UNCHANGED <<L!serverVars, lListed, lBadge, lListLoading, lRefreshes, lFetching,
               L!pageVars>>
        /\ UNCHANGED <<L!dialogVars, lFrames, L!snapVars, lDisturbed, lRows, lFaults>>
    BY DEF L!LoadProfile
  <1>2. L!TypeOK'
    BY <1>1 DEF ListInv, L!TypeOK, L!serverVars, L!pageVars, L!dialogVars, L!snapVars
  <1>3. AllCounted' /\ ListsExisting'
    BY <1>1 DEF ListInv, AllCounted, ListsExisting, L!serverVars
  <1>4. SidebarFollows
    BY <1>1 DEF SidebarFollows, L!serverVars, L!pageVars, L!dialogVars
  <1> QED
    BY <1>1, <1>2, <1>3, <1>4, SidebarKept DEF ListInv, L!snapVars

\* The badge goes as its conversation is being marked read.
LEMMA OpenChatKeeps ==
    ASSUME ListInv, NEW c \in L!Conversations, L!OpenChat(c)
    PROVE  ListInv'
  <1>1. /\ lBadge' = [lBadge EXCEPT ![c] = 0] /\ lReads' = lReads \cup {c}
        /\ lOpen' = c /\ lOpens' = lOpens + 1
        /\ UNCHANGED <<L!serverVars, lListed, lListLoading, lProfileLoading, lRefreshes, lFetching>>
        /\ UNCHANGED <<L!dialogVars, lFrames, L!snapVars, lDisturbed, lRows, lFaults>>
    BY DEF L!OpenChat, L!Opens, L!Cleared
  <1>2. lBadge \in [L!Conversations -> Nat]
    BY DEF ListInv, L!TypeOK
  <1>3. lBadge' \in [L!Conversations -> Nat]
        /\ \A d \in L!Conversations \ {c} : lBadge'[d] = lBadge[d]
    BY <1>1, <1>2
  <1>4. L!TypeOK'
    BY <1>1, <1>3 DEF ListInv, L!TypeOK, L!serverVars, L!dialogVars, L!snapVars
  <1>5. AllCounted' /\ ListsExisting'
    BY <1>1 DEF ListInv, AllCounted, ListsExisting, L!serverVars
  <1>6. LastComes'
    BY <1>1 DEF ListInv, LastComes, L!snapVars
  <1>7. Surfaces(lListed, lBadge) => Surfaces(lListed, lBadge)'
    BY <1>1, <1>3 DEF Surfaces, L!serverVars, L!dialogVars
  <1>8. \A list, counts : Surfaces(list, counts) => Surfaces(list, counts)'
    BY <1>1 DEF Surfaces, L!serverVars, L!dialogVars
  <1>9. LastSurfaces'
    BY <1>1, <1>7, <1>8 DEF ListInv, LastSurfaces, L!snapVars
  <1> QED
    BY <1>4, <1>5, <1>6, <1>9 DEF ListInv

LEMMA OpenFriendKeeps ==
    ASSUME L!ListAssumption, ListInv, NEW c \in L!Conversations, L!OpenFriend(c)
    PROVE  ListInv'
  <1>1. /\ c \in lListed \cup {Friend} /\ lExists' = lExists \cup {c}
        /\ lReads' = lReads \cup {c} /\ lOpen' = c /\ lOpens' = lOpens + 1
        /\ UNCHANGED <<lUnread, lOthers, L!listVars, L!dialogVars, lFrames, L!snapVars, lDisturbed>>
        /\ UNCHANGED <<lRows, lFaults>>
    BY DEF L!OpenFriend, L!Opens
  <1>2. L!TypeOK'
    BY <1>1 DEF ListInv, L!TypeOK, L!listVars, L!dialogVars, L!snapVars
  <1>3. AllCounted' /\ ListsExisting'
    BY <1>1 DEF ListInv, AllCounted, ListsExisting, L!listVars
  <1>4. Groups \cap lExists' = Groups \cap lExists
    BY <1>1 DEF ListInv, ListsExisting, L!ListAssumption
  <1>5. SidebarFollows
    BY <1>1, <1>4 DEF SidebarFollows, L!listVars, L!dialogVars
  <1> QED
    BY <1>1, <1>2, <1>3, <1>5, SidebarKept DEF ListInv, L!listVars, L!snapVars

LEMMA LeaveKeeps == ASSUME ListInv, L!Leave PROVE ListInv'
  <1>1. /\ lOpen' = None
        /\ UNCHANGED <<L!serverVars, L!listVars, lReads, lOpens, L!dialogVars, lFrames, L!snapVars>>
        /\ UNCHANGED <<lDisturbed, lRows, lFaults>>
    BY DEF L!Leave
  <1>2. L!TypeOK'
    BY <1>1 DEF ListInv, L!TypeOK, L!serverVars, L!listVars, L!dialogVars, L!snapVars
  <1>3. AllCounted' /\ ListsExisting'
    BY <1>1 DEF ListInv, AllCounted, ListsExisting, L!serverVars, L!listVars
  <1>4. SidebarFollows
    BY <1>1 DEF SidebarFollows, L!serverVars, L!listVars, L!dialogVars
  <1> QED
    BY <1>1, <1>2, <1>3, <1>4, SidebarKept DEF ListInv, L!listVars, L!snapVars

LEMMA MarkReadKeeps ==
    ASSUME ListInv, NEW c \in L!Conversations, L!MarkRead(c)
    PROVE  ListInv'
  <1>1. /\ lReads' = lReads \ {c}
        /\ UNCHANGED <<lExists, L!listVars, lOpen, lOpens, L!dialogVars, lFrames, L!snapVars,
               lRows>>
    BY DEF L!MarkRead
  <1>2. CASE lUnread' = [lUnread EXCEPT ![c] = 0] /\ lOthers' = [lOthers EXCEPT ![c] = 0]
             /\ UNCHANGED <<lDisturbed, lFaults>>
    <2>1. lUnread \in [L!Conversations -> Nat] /\ lOthers \in [L!Conversations -> Nat]
      BY DEF ListInv, L!TypeOK
    <2>2. /\ lUnread' \in [L!Conversations -> Nat] /\ lOthers' \in [L!Conversations -> Nat]
          /\ lUnread'[c] = 0 /\ lOthers'[c] = 0
          /\ \A d \in L!Conversations \ {c} : lUnread'[d] = lUnread[d] /\ lOthers'[d] = lOthers[d]
      BY <1>2, <2>1
    <2>3. L!TypeOK'
      BY <1>1, <1>2, <2>2 DEF ListInv, L!TypeOK, L!listVars, L!dialogVars, L!snapVars
    <2>4. AllCounted'
      BY <2>2 DEF ListInv, AllCounted
    <2>5. ListsExisting'
      BY <1>1 DEF ListInv, ListsExisting, L!listVars
    <2>6. Surfaces(lListed, lBadge) => Surfaces(lListed, lBadge)'
      BY <1>1, <2>2 DEF Surfaces, L!listVars, L!dialogVars
    <2>7. \A list, counts : Surfaces(list, counts) => Surfaces(list, counts)'
      BY <1>1, <2>2 DEF Surfaces, L!listVars, L!dialogVars
    <2>8. LastComes'
      BY <1>1, <1>2 DEF ListInv, LastComes, L!listVars, L!snapVars
    <2>9. LastSurfaces'
      BY <1>1, <1>2, <2>7 DEF ListInv, LastSurfaces, L!listVars, L!snapVars
    <2> QED
      BY <2>3, <2>4, <2>5, <2>8, <2>9 DEF ListInv
  <1>3. CASE L!Fails /\ lDisturbed' = TRUE /\ UNCHANGED <<lUnread, lOthers>>
    <2>1. lFaults' \in Nat
      BY <1>3 DEF L!Fails, ListInv, L!TypeOK
    <2>2. L!TypeOK'
      BY <1>1, <1>3, <2>1 DEF ListInv, L!TypeOK, L!listVars, L!dialogVars, L!snapVars
    <2>3. AllCounted' /\ ListsExisting'
      BY <1>1, <1>3 DEF ListInv, AllCounted, ListsExisting, L!listVars
    <2> QED
      BY <1>3, <2>2, <2>3, DisturbedExempt DEF ListInv
  <1> QED
    BY <1>2, <1>3 DEF L!MarkRead

-----------------------------------------------------------------------------
\* The dialog before the server hears of the group.
LEMMA DialogKeeps ==
    ASSUME L!ListAssumption, ListInv, L!ToggleDialog \/ L!Pick \/ \E g \in Groups : L!Create(g)
    PROVE  ListInv'
  <1>1. UNCHANGED <<L!serverVars, L!listVars, L!pageVars, lFrames, L!snapVars, lDisturbed, lRows,
        lFaults>>
    BY DEF L!ToggleDialog, L!Pick, L!Create
  <1>2. lDialog' \in BOOLEAN /\ lPicked' \in BOOLEAN
    <2>1. CASE L!ToggleDialog
      BY <2>1 DEF L!ToggleDialog, ListInv, L!TypeOK
    <2>2. CASE L!Pick
      BY <2>2 DEF L!Pick, ListInv, L!TypeOK
    <2>3. CASE \E g \in Groups : L!Create(g)
      BY <2>3 DEF L!Create, ListInv, L!TypeOK
    <2> QED
      BY <2>1, <2>2, <2>3
  <1>3. lCreating' = lCreating \/ (lCreating = None /\ lCreating' \in Groups)
    BY DEF L!ToggleDialog, L!Pick, L!Create
  <1>4. lCreating' \in L!Conversations \cup {None}
    BY <1>3 DEF ListInv, L!TypeOK, L!Conversations
  <1>5. L!TypeOK'
    BY <1>1, <1>2, <1>4 DEF ListInv, L!TypeOK, L!serverVars, L!listVars, L!pageVars, L!snapVars
  <1>6. AllCounted' /\ ListsExisting'
    BY <1>1 DEF ListInv, AllCounted, ListsExisting, L!serverVars, L!listVars
  <1>7. None \notin Direct \cup Groups
    BY DEF L!ListAssumption, L!Conversations
  <1>8. \A g \in Direct \cup (Groups \cap lExists') :
           g = lCreating' \/ (g \in Direct \cup (Groups \cap lExists) /\ g # lCreating)
    BY <1>1, <1>3, <1>7 DEF L!serverVars
  <1>9. SidebarFollows
    BY <1>1, <1>8 DEF SidebarFollows, L!serverVars, L!listVars, L!pageVars
  <1> QED
    BY <1>1, <1>5, <1>6, <1>9, SidebarKept DEF ListInv, L!listVars, L!snapVars

LEMMA CreateOnServerKeeps == ASSUME L!ListAssumption, ListInv, L!CreateOnServer PROVE ListInv'
  <1>1. /\ lCreating \in Groups \ lExists
        /\ UNCHANGED <<lUnread, lOthers, L!listVars, L!pageVars, lDialog, lPicked, lFrames,
               L!snapVars, lRows>>
        /\ lDisturbed' = lDisturbed
    BY DEF L!CreateOnServer
  <1>2. /\ lCreating' \in {lCreating, None}
        /\ lExists' = lExists \/ (lExists' = lExists \cup {lCreating} /\ lCreating' = lCreating)
        /\ lFaults' \in Nat
    BY DEF L!CreateOnServer, L!Fails, ListInv, L!TypeOK
  <1>3. lCreating \in L!Conversations
    BY <1>1 DEF L!Conversations
  <1>4. L!TypeOK'
    BY <1>1, <1>2, <1>3 DEF ListInv, L!TypeOK, L!listVars, L!pageVars, L!snapVars
  <1>5. AllCounted' /\ ListsExisting'
    BY <1>1, <1>2 DEF ListInv, AllCounted, ListsExisting, L!listVars
  <1>6. \A g \in Direct \cup (Groups \cap lExists) : g # lCreating
    BY <1>1 DEF ListInv, ListsExisting
  <1>7. SidebarFollows
    BY <1>1, <1>2, <1>6 DEF SidebarFollows, L!listVars, L!pageVars
  <1> QED
    BY <1>1, <1>4, <1>5, <1>7, SidebarKept DEF ListInv, L!listVars, L!snapVars

LEMMA CreatedKeeps == ASSUME ListInv, L!Created PROVE ListInv'
  <1>1. /\ lCreating \in lExists /\ lCreating' = None
        /\ UNCHANGED <<L!serverVars, lListed, lBadge, lListLoading, lProfileLoading, lFetching>>
        /\ UNCHANGED <<lOpens, lFrames, L!snapVars, lRows>>
    BY DEF L!Created
  <1>2. lCreating \in L!Conversations
    BY <1>1 DEF ListInv, L!TypeOK
  <1>3. CASE L!Refresh /\ lOpen' = lCreating /\ lReads' = lReads \cup {lCreating}
             /\ lDialog' = FALSE /\ lPicked' = FALSE /\ UNCHANGED <<lDisturbed, lFaults>>
    <2>1. lRefreshes' = lRefreshes \cup {L!Asking}
      BY <1>3 DEF L!Refresh
    <2>2. L!TypeOK'
      BY <1>1, <1>2, <1>3, <2>1, AskingRuns DEF ListInv, L!TypeOK, L!serverVars, L!snapVars
    <2>3. AllCounted' /\ ListsExisting'
      BY <1>1, <2>1, AskingRuns DEF ListInv, AllCounted, ListsExisting, L!serverVars
    <2>4. LastComes' /\ LastSurfaces'
      BY <1>1, <1>3, AsksAgain DEF L!snapVars
    <2> QED
      BY <2>2, <2>3, <2>4 DEF ListInv
  <1>4. CASE L!Fails /\ lDisturbed' = TRUE
             /\ UNCHANGED <<lRefreshes, lOpen, lReads, lDialog, lPicked>>
    <2>1. lFaults' \in Nat
      BY <1>4 DEF L!Fails, ListInv, L!TypeOK
    <2>2. L!TypeOK'
      BY <1>1, <1>4, <2>1 DEF ListInv, L!TypeOK, L!serverVars, L!snapVars
    <2>3. AllCounted' /\ ListsExisting'
      BY <1>1, <1>4 DEF ListInv, AllCounted, ListsExisting, L!serverVars
    <2> QED
      BY <1>4, <2>2, <2>3, DisturbedExempt DEF ListInv
  <1> QED
    BY <1>3, <1>4 DEF L!Created, L!GroupCreated

LEMMA ListInit == L!ListAssumption /\ L!Init => ListInv
  <1> SUFFICES ASSUME L!ListAssumption, L!Init PROVE ListInv
    OBVIOUS
  <1>0. Direct \subseteq L!Conversations
    BY DEF L!Conversations
  <1>1. L!TypeOK
    BY <1>0, AskingRuns, ListTypeParts DEF L!Init
  <1>2. AllCounted /\ ListsExisting
    BY AskingRuns DEF L!Init, AllCounted, ListsExisting, L!Zero
  <1>3. L!Asking \in lRefreshes /\ \A j \in lRefreshes : j.at = "ask"
    BY AskingRuns DEF L!Init
  <1>4. LastComes
    BY <1>3 DEF L!Init, LastComes
  <1>5. LastSurfaces
    BY <1>3 DEF LastSurfaces
  <1> QED
    BY <1>1, <1>2, <1>4, <1>5 DEF ListInv

LEMMA ListStep == L!ListAssumption /\ ListInv /\ [L!Next]_L!vars => ListInv'
  <1> SUFFICES ASSUME L!ListAssumption, ListInv, [L!Next]_L!vars PROVE ListInv'
    OBVIOUS
  <1>1. CASE \E c \in L!Conversations :
                \/ L!PeerPosts(c) \/ L!LoseFrame(c) \/ L!Dispatch(c) \/ L!Fetch(c)
                \/ L!OpenChat(c) \/ L!OpenFriend(c) \/ L!MarkRead(c)
    BY <1>1, PeerPostsKeeps, LoseFrameKeeps, DispatchKeeps, FetchKeeps, OpenChatKeeps,
       OpenFriendKeeps, MarkReadKeeps
  <1>2. CASE \E j \in lRefreshes : L!Answer(j) \/ L!Show(j)
    BY <1>2, SnapshotKeeps, ShowKeeps
  <1>3. CASE L!OwnPost \/ L!LoadProfile \/ L!Leave
    BY <1>3, OwnPostKeeps, LoadProfileKeeps, LeaveKeeps
  <1>4. CASE L!GroupDialog
    BY <1>4, DialogKeeps, CreateOnServerKeeps, CreatedKeeps DEF L!GroupDialog
  <1>5. CASE UNCHANGED L!vars
    <2>1. /\ UNCHANGED <<L!serverVars, L!listVars, L!pageVars, L!dialogVars, lFrames, L!snapVars>>
          /\ UNCHANGED <<lDisturbed, lRows, lFaults>>
      BY <1>5 DEF L!vars
    <2>2. L!TypeOK'
      BY <2>1 DEF ListInv, L!TypeOK, L!serverVars, L!listVars, L!pageVars, L!dialogVars, L!snapVars
    <2>3. AllCounted' /\ ListsExisting'
      BY <2>1 DEF ListInv, AllCounted, ListsExisting, L!serverVars, L!listVars
    <2>4. LastComes'
      BY <2>1 DEF ListInv, LastComes, L!listVars, L!snapVars
    <2>5. \A list, counts : Surfaces(list, counts) => Surfaces(list, counts)'
      BY <2>1 DEF Surfaces, L!serverVars, L!listVars, L!pageVars, L!dialogVars
    <2>6. LastSurfaces'
      BY <2>1, <2>5 DEF ListInv, LastSurfaces, L!listVars, L!snapVars
    <2> QED
      BY <2>2, <2>3, <2>4, <2>6 DEF ListInv
  <1> QED
    BY <1>1, <1>2, <1>3, <1>4, <1>5 DEF L!Next

\* Every reachable state of the sidebar is well typed.
THEOREM ListTypeCorrect == L!Spec => []L!TypeOK
  <1>1. ListInv => L!TypeOK
    BY DEF ListInv
  <1> QED
    BY <1>1, ListInit, ListStep, Assumed, PTL DEF L!Spec

\* At rest an unread message of somebody else shows a badge, and a group made here
\* is listed, in whatever order messages, announcements, visits and answers came;
\* not so after a lost announcement, a failing refresh or a snapshot shown after a
\* newer one (useLiveConversationList.ts, HomePage.tsx handleGroupCreated).
THEOREM UnreadSurfacesCorrect == L!Spec => []UnreadSurfaces
  BY ListImplied, ListInit, ListStep, Assumed, PTL DEF L!Spec, UnreadSurfaces

-----------------------------------------------------------------------------
(***************************************************************************)
(* Friends: how many open requests two people have, and that the lists show *)
(* what their user did.                                                    *)
(***************************************************************************)
\* Requests on their way, those with a number, and the ones that may be answered.
Underway == fAsking \cup fSending
Known == Underway \cup fRequests
OpenRows == {r \in fRequests : r.status = "pending"}

IsRequest(r) ==
    /\ r = [id |-> r.id, from |-> r.from, to |-> r.to, status |-> r.status]
    /\ r.id \in Nat /\ r.id <= fSent

\* A number is given once, and only to a request on its way or in the table.
RequestsNumbered ==
    /\ fSent \in Nat
    /\ \A r \in Known : IsRequest(r)
    /\ \A r, s \in Known : r.id = s.id => r = s
    /\ \A r \in Underway : r.status = "pending" /\ r \notin fRequests
    /\ fAsking \cap fSending = {}

\* Friendships have a row in each direction.
Mutual == \A p \in fFriends : p = <<p[1], p[2]>> /\ <<p[2], p[1]>> \in fFriends

\* Of two open requests of one pair one was crossed.
OneOpen ==
    \A r, s \in OpenRows : F!Pair(r) = F!Pair(s) /\ r # s => r \in fCrossed \/ s \in fCrossed

\* Past both checks a request is crossed, or there is no open one of its pair.
NoneOpen == \A r \in fSending, s \in OpenRows : F!Pair(r) = F!Pair(s) => r \in fCrossed

\* Past the first check a request is crossed, or its pair are not friends.
Strangers == \A r \in Underway : <<r.from, r.to>> \in fFriends => r \in fCrossed

\* Friends have an open request between them only if one of the pair was crossed.
BetweenStrangers ==
    \A r \in OpenRows : <<r.from, r.to>> \in fFriends => \E c \in fCrossed : F!Pair(c) = F!Pair(r)

RequestInv ==
    /\ RequestsNumbered /\ Mutual
    /\ OneOpen /\ NoneOpen /\ Strangers /\ BetweenStrangers

LEMMA OneRequestImplied == RequestInv => F!OneRequest
  BY DEF RequestInv, OneOpen, BetweenStrangers, F!OneRequest, OpenRows

\* Fewer open requests and fewer friends cannot do harm.
LEMMA Fewer ==
    ASSUME RequestInv, OpenRows' \subseteq OpenRows, fFriends' \subseteq fFriends,
           Underway' \subseteq Underway, fSending' \subseteq fSending, fCrossed' = fCrossed
    PROVE  OneOpen' /\ NoneOpen' /\ Strangers' /\ BetweenStrangers'
  BY DEF RequestInv, OneOpen, NoneOpen, Strangers, BetweenStrangers, F!Pair

LEMMA SameServer == RequestInv /\ UNCHANGED F!serverVars => RequestInv'
  BY DEF F!serverVars, RequestInv, RequestsNumbered, Mutual, OneOpen, NoneOpen, Strangers,
     BetweenStrangers, Known, Underway, OpenRows, IsRequest, F!Pair

\* The first check sees the friendship.
LEMMA CheckFriendInv ==
    ASSUME RequestInv, NEW a, NEW b, F!CheckFriend(a, b)
    PROVE  RequestInv'
  <1>1. PICK new : new = [id |-> fSent', from |-> a, to |-> b, status |-> "pending"]
    OBVIOUS
  <1>2. /\ fSent' = fSent + 1 /\ fAsking' = fAsking \cup {new}
        /\ fRequests' = fRequests /\ fFriends' = fFriends /\ fSending' = fSending
        /\ fCrossed' = fCrossed /\ <<a, b>> \notin fFriends
    BY <1>1 DEF F!CheckFriend, F!MayAsk
  <1>3. fSent \in Nat /\ fSent' \in Nat /\ fSent < fSent'
    BY <1>2 DEF RequestInv, RequestsNumbered
  <1>4. /\ new.id = fSent' /\ new.from = a /\ new.to = b /\ new.status = "pending"
        /\ new = [id |-> new.id, from |-> new.from, to |-> new.to, status |-> new.status]
    BY <1>1
  <1>5. \A r \in Known : r.id \in Nat /\ r.id < new.id /\ IsRequest(r)'
    BY <1>3, <1>4 DEF RequestInv, RequestsNumbered, IsRequest
  <1>6. Known' = Known \cup {new} /\ Underway' = Underway \cup {new} /\ OpenRows' = OpenRows
    BY <1>2 DEF Known, Underway, OpenRows
  <1>7. IsRequest(new)'
    BY <1>3, <1>4 DEF IsRequest
  <1>8. new \notin Known
    BY <1>3, <1>4, <1>5
  <1>9. RequestsNumbered'
    <2>1. \A r \in Known' : IsRequest(r)'
      BY <1>5, <1>6, <1>7
    <2>2. \A r, s \in Known' : r.id = s.id => r = s
      <3> SUFFICES ASSUME NEW r \in Known', NEW s \in Known', r.id = s.id PROVE r = s
        OBVIOUS
      <3>1. CASE r \in Known /\ s \in Known
        BY <3>1 DEF RequestInv, RequestsNumbered
      <3>2. CASE r = new \/ s = new
        <4>1. \A q \in Known : q.id # new.id
          BY <1>3, <1>4, <1>5
        <4> QED
          BY <1>6, <3>2, <4>1
      <3> QED
        BY <1>6, <3>1, <3>2
    <2>3. \A r \in Underway' : r.status = "pending" /\ r \notin fRequests'
      BY <1>2, <1>4, <1>6, <1>8 DEF RequestInv, RequestsNumbered, Known
    <2>4. fAsking' \cap fSending' = {}
      BY <1>2, <1>8 DEF RequestInv, RequestsNumbered, Known, Underway
    <2> QED
      BY <1>3, <2>1, <2>2, <2>3, <2>4 DEF RequestsNumbered
  <1>10. Mutual' /\ OneOpen' /\ NoneOpen' /\ BetweenStrangers'
    BY <1>2, <1>6 DEF RequestInv, Mutual, OneOpen, NoneOpen, BetweenStrangers, F!Pair
  <1>11. Strangers'
    BY <1>2, <1>4, <1>6 DEF RequestInv, Strangers
  <1> QED
    BY <1>9, <1>10, <1>11 DEF RequestInv

\* The second sees every open request of the pair.
LEMMA CheckRequestInv ==
    ASSUME RequestInv, NEW r \in fAsking, F!CheckRequest(r)
    PROVE  RequestInv'
  <1>1. /\ fAsking' = fAsking \ {r} /\ fSending' \subseteq fSending \cup {r}
        /\ fRequests' = fRequests /\ fFriends' = fFriends /\ fSent' = fSent /\ fCrossed' = fCrossed
        /\ r \in fSending' /\ r \notin fSending => ~F!Pending(r.from, r.to)
    BY DEF F!CheckRequest, F!AlreadyAsked
  <1>2. Known' \subseteq Known /\ Underway' \subseteq Underway /\ OpenRows' = OpenRows
    BY <1>1 DEF Known, Underway, OpenRows
  <1>3. RequestsNumbered'
    BY <1>1, <1>2 DEF RequestInv, RequestsNumbered, IsRequest
  <1>4. Mutual' /\ OneOpen' /\ Strangers' /\ BetweenStrangers'
    BY <1>1, <1>2 DEF RequestInv, Mutual, OneOpen, Strangers, BetweenStrangers, F!Pair
  <1>5. NoneOpen'
    BY <1>1, <1>2 DEF RequestInv, NoneOpen, OpenRows, F!Pair, F!Pending
  <1> QED
    BY <1>3, <1>4, <1>5 DEF RequestInv

\* The request inserted was crossed if it is one too many, and crosses the rest.
LEMMA InsertInv ==
    ASSUME RequestInv, NEW r \in fSending, F!InsertRequest(r)
    PROVE  RequestInv'
  <1>1. /\ fSending' = fSending \ {r} /\ fRequests' = fRequests \cup {r}
        /\ fFriends' = fFriends /\ fSent' = fSent /\ fAsking' = fAsking
        /\ fCrossed' = fCrossed \cup {q \in Underway : q # r /\ F!Pair(q) = F!Pair(r)}
        /\ r.status = "pending" /\ r \in Underway
    BY DEF F!InsertRequest, F!OnTheirWay, RequestInv, RequestsNumbered, Underway
  <1>2. /\ Known' \subseteq Known /\ Underway' \subseteq Underway
        /\ OpenRows' = OpenRows \cup {r}
    BY <1>1 DEF Known, Underway, OpenRows
  <1>3. \A q \in Underway' : q # r \/ q \in fAsking
    BY <1>1 DEF Underway
  <1>4. \A q \in fAsking : q # r
    BY DEF RequestInv, RequestsNumbered
  <1>5. RequestsNumbered'
    BY <1>1, <1>2, <1>3, <1>4 DEF RequestInv, RequestsNumbered, IsRequest
  <1>6. Mutual'
    BY <1>1 DEF RequestInv, Mutual
  <1>7. OneOpen'
    BY <1>1, <1>2 DEF RequestInv, OneOpen, NoneOpen, F!Pair
  <1>8. NoneOpen'
    BY <1>1, <1>2 DEF RequestInv, NoneOpen, Underway, F!Pair
  <1>9. Strangers'
    BY <1>1, <1>2 DEF RequestInv, Strangers
  <1>10. BetweenStrangers'
    BY <1>1, <1>2 DEF RequestInv, BetweenStrangers, Strangers, F!Pair
  <1> QED
    BY <1>5, <1>6, <1>7, <1>8, <1>9, <1>10 DEF RequestInv

\* A row that is marked keeps its number and is open no more.
LEMMA MarkedRows ==
    ASSUME RequestsNumbered, NEW id, NEW status \in {"accepted", "declined"},
           fRequests' = F!Marked(id, status), fAsking' = fAsking, fSending' = fSending,
           fSent' = fSent
    PROVE  /\ RequestsNumbered'
           /\ OpenRows' \subseteq {r \in OpenRows : r.id # id}
  <1>1. \A r \in F!Row(id) : LET m == [r EXCEPT !.status = status]
                             IN  m.id = id /\ m.status = status /\ IsRequest(m)
    BY DEF RequestsNumbered, Known, F!Row, IsRequest
  <1>2. \A m \in fRequests' : \/ m \in fRequests /\ m.id # id
                              \/ m.id = id /\ m.status = status /\ IsRequest(m) /\ F!Row(id) # {}
    BY <1>1 DEF F!Marked, F!Row
  <1>3. \A r \in F!Row(id), s \in F!Row(id) : r = s
    BY DEF RequestsNumbered, Known, F!Row
  <1>4. \A m, n \in fRequests' : m.id = n.id => m = n
    <2> SUFFICES ASSUME NEW m \in fRequests', NEW n \in fRequests', m.id = n.id PROVE m = n
      OBVIOUS
    <2>1. CASE m.id # id
      BY <1>2, <2>1 DEF RequestsNumbered, Known
    <2>2. CASE m.id = id
      <3>1. \A q \in fRequests' : q.id = id => \E r \in F!Row(id) : q = [r EXCEPT !.status = status]
        BY DEF F!Marked, F!Row
      <3> QED
        BY <1>3, <2>2, <3>1
    <2> QED
      BY <2>1, <2>2
  <1>5. \A m \in fRequests', s \in Underway : m.id # s.id
    <2>1. \A r \in fRequests, s \in Underway : r.id # s.id
      BY DEF RequestsNumbered, Known
    <2> QED
      BY <1>2, <2>1 DEF F!Row
  <1>6. \A m \in Known' : IsRequest(m)'
    BY <1>2 DEF RequestsNumbered, Known, Underway, IsRequest
  <1>7. \A m, n \in Known' : m.id = n.id => m = n
    BY <1>4, <1>5 DEF RequestsNumbered, Known, Underway
  <1>8. RequestsNumbered'
    BY <1>5, <1>6, <1>7 DEF RequestsNumbered, Underway
  <1>9. OpenRows' \subseteq {r \in OpenRows : r.id # id}
    BY <1>2 DEF OpenRows
  <1> QED
    BY <1>8, <1>9

\* Whoever is left open beside the accepted request was crossed, or that one was;
\* whoever is on its way is crossed now.
LEMMA AcceptInv ==
    ASSUME RequestInv, NEW id, NEW by, F!Accept(id, by)
    PROVE  RequestInv'
  <1>1. PICK r \in F!Open(id, by) :
           /\ fRequests' = F!Marked(id, "accepted")
           /\ fFriends' = fFriends \cup {<<r.from, r.to>>, <<r.to, r.from>>}
           /\ fCrossed' = fCrossed \cup F!OnTheirWay(r)
           /\ UNCHANGED <<fAsking, fSending, fSent>>
    BY DEF F!Accept
  <1>2. r \in fRequests /\ r.id = id /\ r \in OpenRows /\ r \notin Underway
    BY DEF F!Open, F!Row, OpenRows, RequestInv, RequestsNumbered
  <1>3. fCrossed' = fCrossed \cup {q \in Underway : F!Pair(q) = F!Pair(r)}
    BY <1>1, <1>2 DEF F!OnTheirWay, Underway
  <1>4. RequestsNumbered' /\ OpenRows' \subseteq {q \in OpenRows : q.id # id}
    BY <1>1, MarkedRows DEF RequestInv
  <1>5. (\A q \in OpenRows' : q \in OpenRows /\ q # r) /\ Underway' = Underway
    BY <1>1, <1>2, <1>4 DEF Underway
  <1>6. Mutual'
    <2> SUFFICES ASSUME NEW p \in fFriends' PROVE p = <<p[1], p[2]>> /\ <<p[2], p[1]>> \in fFriends'
      BY DEF Mutual
    <2>1. CASE p \in fFriends
      BY <1>1, <2>1 DEF RequestInv, Mutual
    <2>2. CASE p = <<r.from, r.to>>
      BY <1>1, <2>2
    <2>3. CASE p = <<r.to, r.from>>
      BY <1>1, <2>3
    <2> QED
      BY <1>1, <2>1, <2>2, <2>3
  <1>7. OneOpen' /\ NoneOpen'
    BY <1>1, <1>3, <1>5 DEF RequestInv, OneOpen, NoneOpen, F!Pair
  <1>8. \A q : <<q.from, q.to>> \in fFriends' /\ <<q.from, q.to>> \notin fFriends =>
                  F!Pair(q) = F!Pair(r)
    BY <1>1 DEF F!Pair
  <1>9. Strangers'
    BY <1>1, <1>3, <1>5, <1>8 DEF RequestInv, Strangers
  <1>10. BetweenStrangers'
    <2> SUFFICES ASSUME NEW q \in OpenRows', <<q.from, q.to>> \in fFriends'
                 PROVE  \E c \in fCrossed' : F!Pair(c) = F!Pair(q)
      BY DEF BetweenStrangers, F!Pair
    <2>1. CASE <<q.from, q.to>> \in fFriends
      BY <1>3, <1>5, <2>1 DEF RequestInv, BetweenStrangers
    <2>2. CASE <<q.from, q.to>> \notin fFriends
      <3>1. F!Pair(q) = F!Pair(r)
        BY <1>8, <2>2
      <3>2. q \in fCrossed \/ r \in fCrossed
        BY <1>2, <1>5, <3>1 DEF RequestInv, OneOpen
      <3> QED
        BY <1>3, <3>1, <3>2
    <2> QED
      BY <2>1, <2>2
  <1> QED
    BY <1>4, <1>6, <1>7, <1>9, <1>10 DEF RequestInv

LEMMA DeclineInv ==
    ASSUME RequestInv, NEW id, NEW by, F!Decline(id, by)
    PROVE  RequestInv'
  <1>1. /\ fRequests' = F!Marked(id, "declined") \/ fRequests' = fRequests
        /\ fFriends' = fFriends /\ UNCHANGED <<fAsking, fSending, fSent, fCrossed>>
    BY DEF F!Decline
  <1>2. CASE fRequests' = F!Marked(id, "declined")
    <2>1. RequestsNumbered' /\ OpenRows' \subseteq OpenRows
      BY <1>1, <1>2, MarkedRows DEF RequestInv
    <2> QED
      BY <1>1, <2>1, Fewer DEF RequestInv, Mutual, Underway
  <1>3. CASE fRequests' = fRequests
    BY <1>1, <1>3, SameServer DEF F!serverVars
  <1> QED
    BY <1>1, <1>2, <1>3

LEMMA CancelInv ==
    ASSUME RequestInv, NEW id, NEW by, F!Cancel(id, by)
    PROVE  RequestInv'
  <1>1. /\ fRequests' \subseteq fRequests
        /\ fFriends' = fFriends /\ UNCHANGED <<fAsking, fSending, fSent, fCrossed>>
    BY DEF F!Cancel
  <1>2. Known' \subseteq Known /\ OpenRows' \subseteq OpenRows
    BY <1>1 DEF Known, Underway, OpenRows
  <1>3. RequestsNumbered'
    BY <1>1, <1>2 DEF RequestInv, RequestsNumbered, Underway, IsRequest
  <1> QED
    BY <1>1, <1>2, <1>3, Fewer DEF RequestInv, Mutual, Underway

LEMMA RemoveInv ==
    ASSUME RequestInv, NEW a, NEW b, F!Remove(a, b)
    PROVE  RequestInv'
  <1>1. /\ fFriends' = fFriends \ {<<a, b>>, <<b, a>>}
        /\ UNCHANGED <<fRequests, fAsking, fSending, fSent, fCrossed>>
    BY DEF F!Remove
  <1>2. Known' = Known /\ OpenRows' = OpenRows
    BY <1>1 DEF Known, Underway, OpenRows
  <1>3. RequestsNumbered'
    BY <1>1, <1>2 DEF RequestInv, RequestsNumbered, Underway, IsRequest
  <1>4. Mutual'
    BY <1>1 DEF RequestInv, Mutual
  <1> QED
    BY <1>1, <1>2, <1>3, <1>4, Fewer DEF RequestInv, Underway

LEMMA RequestInit == F!Init => RequestInv
  BY DEF F!Init, RequestInv, RequestsNumbered, Mutual, OneOpen, NoneOpen,
     Strangers, BetweenStrangers, Known, Underway, OpenRows

LEMMA RequestStep == RequestInv /\ [F!Next]_F!vars => RequestInv'
  <1> SUFFICES ASSUME RequestInv, [F!Next]_F!vars PROVE RequestInv'
    OBVIOUS
  <1>1. CASE \E a, b \in People : F!OthersAsk(a, b) \/ F!OthersRemove(a, b)
    BY <1>1, CheckFriendInv, RemoveInv DEF F!OthersAsk, F!OthersRemove
  <1>2. CASE \E a \in People : F!OthersAnswer(a)
    BY <1>2, AcceptInv, DeclineInv, CancelInv DEF F!OthersAnswer
  <1>3. CASE (\E r \in fAsking : F!OthersCheck(r)) \/ \E r \in fSending : F!OthersInsert(r)
    BY <1>3, CheckRequestInv, InsertInv DEF F!OthersCheck, F!OthersInsert
  <1>4. CASE \E j \in fLoads : F!LoadStep(j)
    BY <1>4, SameServer DEF F!LoadStep, F!LoadAnswers, F!LoadShows, F!LoadFails
  <1>5. CASE F!Panel \/ F!Page
    BY <1>5, SameServer DEF F!Panel, F!Page, F!HandleAction, F!PanelRemove, F!PanelSend,
       F!PageRemove, F!PageSend, F!Calls
  <1>6. CASE \E k \in fCalls : F!FriendAction(k)
    <2>1. PICK k \in fCalls : F!FriendAction(k)
      BY <1>6
    <2>2. CASE F!CallActs(k)
      BY <2>2, AcceptInv, DeclineInv, CancelInv, RemoveInv DEF F!CallActs, F!Effect
    <2>3. CASE F!CallAsks(k) \/ F!CallChecks(k)
      BY <2>3, CheckFriendInv, CheckRequestInv DEF F!CallAsks, F!CallChecks
    <2>4. CASE F!CallInserts(k)
      BY <2>4, InsertInv DEF F!CallInserts
    <2>5. CASE F!CallRefused(k) \/ F!CallFails(k) \/ F!CallSucceeds(k)
      BY <2>5, SameServer, CheckRequestInv DEF F!CallRefused, F!CallFails, F!CallSucceeds
    <2> QED
      BY <2>1, <2>2, <2>3, <2>4, <2>5 DEF F!FriendAction
  <1>7. CASE UNCHANGED F!vars
    BY <1>7, SameServer DEF F!vars
  <1> QED
    BY <1>1, <1>2, <1>3, <1>4, <1>5, <1>6, <1>7 DEF F!Next

\* A request that nothing crossed on its way is never one too many between two
\* people: of two open ones, and where friends have an open one, a request was
\* crossed between its checks and its INSERT (friends.rs:135-171).
THEOREM OneRequestCorrect == F!Spec => []OneRequest
  BY OneRequestImplied, RequestInit, RequestStep, PTL DEF F!Spec, OneRequest

\* What the screen knows, typed.
ListsOf ==
    {g \in [F!Lists -> SUBSET (People \cup F!Request)] :
        g["friends"] \subseteq People /\ g["incoming"] \cup g["outgoing"] \subseteq F!Request}
Runs == [n : Nat, need : SUBSET F!Lists, got : ListsOf]
CallState ==
    {k \in [kind : F!Requests \cup {"remove", "send"}, about : Nat \cup People,
            at : {"call", "asking", "insert", "succeeded"}] :
        k.kind \in {"remove", "send"} => k.about \in People}

ServerTyped ==
    /\ fFriends \subseteq People \X People /\ fRequests \subseteq F!Request
    /\ Underway \subseteq F!Request /\ fCrossed \subseteq F!Request /\ fSent \in Nat
HistoryTyped ==
    /\ fScreen \in {"panel", "page"} /\ fLoading \in BOOLEAN /\ fDisturbed \in BOOLEAN
    /\ fParted \subseteq People /\ fDone \subseteq Nat /\ fActions \in Nat /\ fFaults \in Nat
ScreenTyped ==
    /\ ServerTyped /\ HistoryTyped
    /\ fShown \in ListsOf /\ fLoads \subseteq Runs /\ fCalls \subseteq CallState
    /\ fLast \in [started : Nat, shown : Nat]

\* A number that only a row of the table can have, and one to or from the user.
InTable(id) == id \in Nat /\ id <= fSent /\ \A s \in Underway : s.id # id
ToMe(id) == InTable(id) /\ \A r \in fRequests : r.id = id => r.to = Me
FromMe(id) == InTable(id) /\ \A r \in fRequests : r.id = id => r.from = Me

\* What the lists show and the calls are about is the user's to deal with.
OwnRows(g) == (\A r \in g["incoming"] : ToMe(r.id)) /\ (\A r \in g["outgoing"] : FromMe(r.id))
OwnCall(k) ==
    /\ k.kind \in {"accept", "decline"} => ToMe(k.about)
    /\ k.kind = "cancel" => FromMe(k.about)
Offered == OwnRows(fShown) /\ (\A j \in fLoads : OwnRows(j.got)) /\ \A k \in fCalls : OwnCall(k)

\* The server has what the user did.
DealtWith ==
    /\ \A r \in fRequests : r.status = "pending" => r.id \notin fDone
    /\ \A id \in fDone : InTable(id)
    /\ \A b \in fParted : <<Me, b>> \notin fFriends

\* The last load that started has been shown or is under way.
InOrder ==
    ~fDisturbed =>
        /\ fLast.shown <= fLast.started /\ \A j \in fLoads : j.n <= fLast.started
        /\ fLast.shown = fLast.started \/ \E j \in fLoads : j.n = fLast.started

\* Lists that agree with what the user did, but for those not answered yet.
FreshLists(g, need) ==
    /\ \A l \in {"incoming", "outgoing"} \ need : \A r \in g[l] : r.id \notin fDone
    /\ "friends" \notin need => fParted \cap g["friends"] = {}
    /\ "outgoing" \notin need => F!Read("outgoing") \subseteq g["outgoing"]

\* So does the last load, unless an action's success is still to start another.
UpToDate ==
    ~fDisturbed =>
        \/ \E k \in fCalls : k.at = "succeeded"
        \/ /\ fLast.shown = fLast.started => FreshLists(fShown, {})
           /\ \A j \in fLoads : j.n = fLast.started => FreshLists(j.got, j.need)

\* Steps that take no number from the table.
TableKept == \A id : /\ InTable(id) => InTable(id)'
                     /\ ToMe(id) => ToMe(id)'
                     /\ FromMe(id) => FromMe(id)'

ScreenInv == RequestInv /\ ScreenTyped /\ Offered /\ DealtWith /\ InOrder /\ UpToDate

LEMMA FriendsTyped == ScreenTyped => F!TypeOK
  <1> SUFFICES ASSUME ScreenTyped PROVE F!TypeOK
    OBVIOUS
  <1>1. /\ DOMAIN fShown = F!Lists /\ fShown["friends"] \subseteq People
        /\ fShown["incoming"] \subseteq F!Request /\ fShown["outgoing"] \subseteq F!Request
    BY DEF ScreenTyped, ListsOf, F!Lists
  <1>2. \A j \in fLoads : j.n \in Nat /\ j.need \subseteq F!Lists /\ DOMAIN j.got = F!Lists
    BY DEF ScreenTyped, ListsOf, Runs
  <1>3. \A k \in fCalls : /\ k.kind \in F!Requests \cup {"remove", "send"}
                          /\ k.at \in {"call", "asking", "insert", "succeeded"}
    BY DEF ScreenTyped, CallState
  <1> QED
    BY <1>1, <1>2, <1>3 DEF F!TypeOK, ScreenTyped, ServerTyped, HistoryTyped, Underway

LEMMA ScreenImplied == ScreenInv => F!OwnActionsShow
  <1> SUFFICES ASSUME ScreenInv, fLoads = {}, fCalls = {}, ~fDisturbed
               PROVE  /\ \A r \in fShown["incoming"] \cup fShown["outgoing"] : r.id \notin fDone
                      /\ fParted \cap fShown["friends"] = {}
                      /\ F!Read("outgoing") \subseteq fShown["outgoing"]
    BY DEF F!OwnActionsShow
  <1>1. fLast.shown = fLast.started
    BY DEF ScreenInv, InOrder
  <1>2. FreshLists(fShown, {})
    BY <1>1 DEF ScreenInv, UpToDate
  <1> QED
    BY <1>2 DEF FreshLists

\* The answers to the three requests of loadData.
LEMMA Answers ==
    /\ F!Read("friends") = {b \in People : <<Me, b>> \in fFriends}
    /\ F!Read("incoming") = {r \in fRequests : r.status = "pending" /\ r.to = Me}
    /\ F!Read("outgoing") = {r \in fRequests : r.status = "pending" /\ r.from = Me}
    /\ F!Read("outgoing")' = {r \in fRequests' : r.status = "pending" /\ r.from = Me}
  BY DEF F!Read

\* The server's handlers leave what the screen knows of the table as it was.
LEMMA CheckFriendKeeps ==
    ASSUME RequestInv, ServerTyped, NEW a \in People, NEW b \in People, F!CheckFriend(a, b)
    PROVE  ServerTyped' /\ TableKept
  <1>1. PICK new : new = [id |-> fSent', from |-> a, to |-> b, status |-> "pending"]
    OBVIOUS
  <1>2. /\ fSent' = fSent + 1 /\ fAsking' = fAsking \cup {new} /\ fSending' = fSending
        /\ fRequests' = fRequests /\ fFriends' = fFriends /\ fCrossed' = fCrossed
    BY <1>1 DEF F!CheckFriend
  <1>3. fSent' \in Nat
    BY <1>2 DEF ServerTyped
  <1>4. new \in F!Request /\ new.id = fSent'
    BY <1>1, <1>3 DEF F!Request
  <1>5. Underway' = Underway \cup {new}
    BY <1>2 DEF Underway
  <1>6. ServerTyped'
    BY <1>2, <1>3, <1>4, <1>5 DEF ServerTyped
  <1>7. \A id : InTable(id) => InTable(id)'
    <2> SUFFICES ASSUME NEW id, InTable(id) PROVE InTable(id)'
      OBVIOUS
    <2>1. id \in Nat /\ id <= fSent /\ id <= fSent' /\ id # fSent'
      BY <1>2 DEF InTable, ServerTyped
    <2> QED
      BY <1>4, <1>5, <2>1 DEF InTable
  <1> QED
    BY <1>2, <1>6, <1>7 DEF TableKept, ToMe, FromMe

LEMMA CheckRequestKeeps ==
    ASSUME RequestInv, ServerTyped, NEW r \in fAsking, F!CheckRequest(r)
    PROVE  ServerTyped' /\ TableKept
  <1>1. /\ Underway' \subseteq Underway
        /\ UNCHANGED <<fFriends, fRequests, fSent, fCrossed>>
    BY DEF F!CheckRequest, Underway
  <1> QED
    BY <1>1 DEF ServerTyped, TableKept, InTable, ToMe, FromMe

LEMMA InsertKeeps ==
    ASSUME RequestInv, ServerTyped, NEW r \in fSending, F!InsertRequest(r)
    PROVE  ServerTyped' /\ TableKept
  <1>1. /\ fSending' = fSending \ {r} /\ fRequests' = fRequests \cup {r} /\ fAsking' = fAsking
        /\ fFriends' = fFriends /\ fSent' = fSent
        /\ fCrossed' \subseteq fCrossed \cup Underway
    BY DEF F!InsertRequest, F!OnTheirWay, Underway
  <1>2. Underway' \subseteq Underway /\ r \in Underway
    BY <1>1 DEF Underway
  <1>3. ServerTyped'
    BY <1>1, <1>2 DEF ServerTyped
  <1>4. \A id : InTable(id) => InTable(id)' /\ r.id # id
    BY <1>1, <1>2 DEF InTable
  <1> QED
    BY <1>1, <1>3, <1>4 DEF TableKept, ToMe, FromMe

LEMMA MarkedKeeps ==
    ASSUME RequestInv, ServerTyped, NEW id, NEW status \in {"accepted", "declined"},
           fRequests' = F!Marked(id, status), UNCHANGED <<fAsking, fSending, fSent>>
    PROVE  fRequests' \subseteq F!Request /\ TableKept
  <1>1. \A r \in F!Row(id) : LET m == [r EXCEPT !.status = status]
                             IN  m.id = r.id /\ m.to = r.to /\ m.from = r.from /\ m \in F!Request
    BY DEF ServerTyped, F!Row, F!Request
  <1>2. \A m \in fRequests' : /\ m \in F!Request
                              /\ \E r \in fRequests : m.id = r.id /\ m.to = r.to /\ m.from = r.from
    <2> SUFFICES ASSUME NEW m \in fRequests'
                 PROVE  /\ m \in F!Request
                        /\ \E r \in fRequests : m.id = r.id /\ m.to = r.to /\ m.from = r.from
      OBVIOUS
    <2>1. m \in fRequests \/ \E r \in F!Row(id) : m = [r EXCEPT !.status = status]
      BY DEF F!Marked
    <2>2. CASE m \in fRequests
      BY <2>2 DEF ServerTyped
    <2>3. CASE \E r \in F!Row(id) : m = [r EXCEPT !.status = status]
      BY <1>1, <2>3 DEF F!Row
    <2> QED
      BY <2>1, <2>2, <2>3
  <1>3. \A i : InTable(i) => InTable(i)'
    BY DEF InTable, Underway
  <1> QED
    BY <1>2, <1>3 DEF TableKept, ToMe, FromMe

LEMMA AcceptKeeps ==
    ASSUME RequestInv, ServerTyped, NEW id, NEW by, F!Accept(id, by)
    PROVE  ServerTyped' /\ TableKept
  <1>1. PICK r \in F!Open(id, by) :
           /\ fRequests' = F!Marked(id, "accepted")
           /\ fFriends' = fFriends \cup {<<r.from, r.to>>, <<r.to, r.from>>}
           /\ fCrossed' = fCrossed \cup F!OnTheirWay(r)
           /\ UNCHANGED <<fAsking, fSending, fSent>>
    BY DEF F!Accept
  <1>2. r.from \in People /\ r.to \in People
    BY DEF F!Open, F!Row, ServerTyped, F!Request
  <1>3. fRequests' \subseteq F!Request /\ TableKept
    BY <1>1, MarkedKeeps
  <1>4. F!OnTheirWay(r) \subseteq Underway /\ Underway' = Underway
    BY <1>1 DEF F!OnTheirWay, Underway
  <1> QED
    BY <1>1, <1>2, <1>3, <1>4 DEF ServerTyped

LEMMA DeclineKeeps ==
    ASSUME RequestInv, ServerTyped, NEW id, NEW by, F!Decline(id, by)
    PROVE  ServerTyped' /\ TableKept
  <1>1. /\ fRequests' = F!Marked(id, "declined") \/ fRequests' = fRequests
        /\ fFriends' = fFriends /\ UNCHANGED <<fAsking, fSending, fSent, fCrossed>>
    BY DEF F!Decline
  <1>2. CASE fRequests' = F!Marked(id, "declined")
    BY <1>1, <1>2, MarkedKeeps DEF ServerTyped, Underway
  <1>3. CASE fRequests' = fRequests
    BY <1>1, <1>3 DEF ServerTyped, TableKept, InTable, ToMe, FromMe, Underway
  <1> QED
    BY <1>1, <1>2, <1>3

LEMMA FewerKeeps ==
    ASSUME ServerTyped, fRequests' \subseteq fRequests, fFriends' \subseteq fFriends,
           UNCHANGED <<fAsking, fSending, fSent, fCrossed>>
    PROVE  ServerTyped' /\ TableKept
  BY DEF ServerTyped, TableKept, InTable, ToMe, FromMe, Underway

\* An open row after an answer is one before, and not the one answered.
LEMMA StillOpen ==
    ASSUME RequestInv, NEW id, NEW by,
           F!Accept(id, by) \/ F!Decline(id, by) \/ F!Cancel(id, by)
    PROVE  \A r \in fRequests' : r.status = "pending" => r \in fRequests
  <1>1. CASE fRequests' \subseteq fRequests
    BY <1>1
  <1>2. CASE \E status \in {"accepted", "declined"} :
                fRequests' = F!Marked(id, status) /\ UNCHANGED <<fAsking, fSending, fSent>>
    <2>1. OpenRows' \subseteq OpenRows
      BY <1>2, MarkedRows DEF RequestInv
    <2> QED
      BY <2>1 DEF OpenRows
  <1> QED
    BY <1>1, <1>2 DEF F!Accept, F!Decline, F!Cancel

\* What the user has dealt with stays so.
LEMMA DealtKept ==
    ASSUME ScreenInv, TableKept, fDone' = fDone,
           \A r \in fRequests' : r.status = "pending" => r.id \notin fDone,
           \A b \in fParted' : <<Me, b>> \notin fFriends'
    PROVE  DealtWith'
  BY DEF ScreenInv, DealtWith, TableKept

\* Lists stay fresh while the server only loses open requests of the user.
LEMMA FreshListsKept ==
    ASSUME NEW g, NEW need, FreshLists(g, need), fDone' = fDone, fParted' \subseteq fParted,
           F!Read("outgoing")' \subseteq F!Read("outgoing")
    PROVE  FreshLists(g, need)'
  BY DEF FreshLists

LEMMA OwnRowsKept == ASSUME TableKept, NEW g, OwnRows(g) PROVE OwnRows(g)'
  BY DEF TableKept, OwnRows

LEMMA OwnCallKept == ASSUME TableKept, NEW k, OwnCall(k) PROVE OwnCall(k)'
  BY DEF TableKept, OwnCall

\* The screen does not hear of what others do.
LEMMA OthersKeep ==
    ASSUME ScreenInv, RequestInv', ServerTyped', TableKept, F!ScreenUnchanged,
           fParted' \subseteq fParted,
           \A r \in fRequests' : r.status = "pending" => r.id \notin fDone,
           \A b \in fParted' : <<Me, b>> \notin fFriends',
           F!Read("outgoing")' \subseteq F!Read("outgoing")
    PROVE  ScreenInv'
  <1>1. /\ fShown' = fShown /\ fLoads' = fLoads /\ fCalls' = fCalls /\ fLast' = fLast
        /\ fDisturbed' = fDisturbed /\ fDone' = fDone /\ fScreen' = fScreen /\ fLoading' = fLoading
        /\ fActions' = fActions /\ fFaults' = fFaults
    BY DEF F!ScreenUnchanged, F!listVars
  <1>2. ScreenTyped'
    BY <1>1 DEF ScreenInv, ScreenTyped, HistoryTyped
  <1>3. Offered'
    BY <1>1, OwnRowsKept, OwnCallKept DEF ScreenInv, Offered
  <1>4. DealtWith'
    BY <1>1, DealtKept
  <1>5. InOrder'
    BY <1>1 DEF ScreenInv, InOrder
  <1>6. UpToDate'
    BY <1>1, FreshListsKept DEF ScreenInv, UpToDate
  <1> QED
    BY <1>2, <1>3, <1>4, <1>5, <1>6 DEF ScreenInv

LEMMA OthersAskKeeps ==
    ASSUME ScreenInv, NEW a \in People, NEW b \in People, F!OthersAsk(a, b)
    PROVE  ScreenInv'
  <1>1. RequestInv'
    BY CheckFriendInv DEF ScreenInv, F!OthersAsk
  <1>2. ServerTyped' /\ TableKept
    BY CheckFriendKeeps DEF ScreenInv, ScreenTyped, F!OthersAsk
  <1>3. fRequests' = fRequests /\ fFriends' = fFriends /\ fParted' = fParted
    BY DEF F!OthersAsk, F!CheckFriend
  <1>4. F!Read("outgoing")' \subseteq F!Read("outgoing")
    BY <1>3, Answers
  <1>5. /\ \A r \in fRequests' : r.status = "pending" => r.id \notin fDone
        /\ \A c \in fParted' : <<Me, c>> \notin fFriends'
    BY <1>3 DEF ScreenInv, DealtWith
  <1> QED
    BY <1>1, <1>2, <1>3, <1>4, <1>5, OthersKeep DEF F!OthersAsk

LEMMA OthersCheckKeeps ==
    ASSUME ScreenInv, NEW r \in fAsking, F!OthersCheck(r)
    PROVE  ScreenInv'
  <1>1. RequestInv' /\ ServerTyped' /\ TableKept
    BY CheckRequestInv, CheckRequestKeeps DEF ScreenInv, ScreenTyped, F!OthersCheck
  <1>2. fRequests' = fRequests /\ fFriends' = fFriends /\ fParted' = fParted
    BY DEF F!OthersCheck, F!CheckRequest
  <1>3. F!Read("outgoing")' \subseteq F!Read("outgoing")
    BY <1>2, Answers
  <1>4. /\ \A q \in fRequests' : q.status = "pending" => q.id \notin fDone
        /\ \A c \in fParted' : <<Me, c>> \notin fFriends'
    BY <1>2 DEF ScreenInv, DealtWith
  <1> QED
    BY <1>1, <1>2, <1>3, <1>4, OthersKeep DEF F!OthersCheck

LEMMA OthersInsertKeeps ==
    ASSUME ScreenInv, NEW r \in fSending, F!OthersInsert(r)
    PROVE  ScreenInv'
  <1>1. RequestInv'
    BY InsertInv DEF ScreenInv, F!OthersInsert
  <1>2. ServerTyped' /\ TableKept
    BY InsertKeeps DEF ScreenInv, ScreenTyped, F!OthersInsert
  <1>3. fRequests' = fRequests \cup {r} /\ fFriends' = fFriends /\ fParted' = fParted /\ r.from # Me
    BY DEF F!OthersInsert, F!InsertRequest
  <1>4. F!Read("outgoing")' \subseteq F!Read("outgoing")
    BY <1>3, Answers
  <1>5. r.id \notin fDone
    BY DEF ScreenInv, DealtWith, InTable, Underway
  <1>6. /\ \A q \in fRequests' : q.status = "pending" => q.id \notin fDone
        /\ \A c \in fParted' : <<Me, c>> \notin fFriends'
    BY <1>3, <1>5 DEF ScreenInv, DealtWith
  <1> QED
    BY <1>1, <1>2, <1>3, <1>4, <1>6, OthersKeep DEF F!OthersInsert

LEMMA AnswerKeeps ==
    ASSUME RequestInv, ServerTyped, NEW id, NEW by,
           F!Accept(id, by) \/ F!Decline(id, by) \/ F!Cancel(id, by)
    PROVE  RequestInv' /\ ServerTyped' /\ TableKept
  <1>1. CASE F!Accept(id, by)
    BY <1>1, AcceptInv, AcceptKeeps
  <1>2. CASE F!Decline(id, by)
    BY <1>2, DeclineInv, DeclineKeeps
  <1>3. CASE F!Cancel(id, by)
    <2>1. /\ fRequests' \subseteq fRequests /\ fFriends' \subseteq fFriends
          /\ UNCHANGED <<fAsking, fSending, fSent, fCrossed>>
      BY <1>3 DEF F!Cancel
    <2> QED
      BY <1>3, <2>1, CancelInv, FewerKeeps
  <1> QED
    BY <1>1, <1>2, <1>3

LEMMA OthersAnswerKeeps ==
    ASSUME ScreenInv, NEW a \in People, F!OthersAnswer(a)
    PROVE  ScreenInv'
  <1>1. PICK r \in fRequests : F!Accept(r.id, a) \/ F!Decline(r.id, a) \/ F!Cancel(r.id, a)
    BY DEF F!OthersAnswer
  <1>2. RequestInv' /\ ServerTyped' /\ TableKept
    BY <1>1, AnswerKeeps DEF ScreenInv, ScreenTyped
  <1>3. \A q \in fRequests' : q.status = "pending" => q \in fRequests
    BY <1>1, StillOpen DEF ScreenInv
  <1>4. F!Read("outgoing")' \subseteq F!Read("outgoing")
    BY <1>3, Answers
  <1>5. fParted' \subseteq fParted /\ \A c \in fParted' : <<Me, c>> \notin fFriends'
    BY DEF F!OthersAnswer, F!StillParted
  <1>6. \A q \in fRequests' : q.status = "pending" => q.id \notin fDone
    BY <1>3 DEF ScreenInv, DealtWith
  <1> QED
    BY <1>2, <1>4, <1>5, <1>6, OthersKeep DEF F!OthersAnswer

LEMMA RemoveKeeps ==
    ASSUME RequestInv, ServerTyped, NEW a, NEW b, F!Remove(a, b)
    PROVE  RequestInv' /\ ServerTyped' /\ TableKept
  <1>1. /\ fRequests' \subseteq fRequests /\ fFriends' \subseteq fFriends
        /\ UNCHANGED <<fAsking, fSending, fSent, fCrossed>>
    BY DEF F!Remove
  <1> QED
    BY <1>1, RemoveInv, FewerKeeps

LEMMA OthersRemoveKeeps ==
    ASSUME ScreenInv, NEW a \in People, NEW b \in People, F!OthersRemove(a, b)
    PROVE  ScreenInv'
  <1>1. RequestInv' /\ ServerTyped' /\ TableKept
    BY RemoveKeeps DEF ScreenInv, ScreenTyped, F!OthersRemove
  <1>2. /\ fRequests' = fRequests
        /\ fParted' \subseteq fParted /\ \A c \in fParted' : <<Me, c>> \notin fFriends'
    BY DEF F!OthersRemove, F!Remove, F!StillParted
  <1>3. F!Read("outgoing")' \subseteq F!Read("outgoing")
    BY <1>2, Answers
  <1>4. \A q \in fRequests' : q.status = "pending" => q.id \notin fDone
    BY <1>2 DEF ScreenInv, DealtWith
  <1> QED
    BY <1>1, <1>2, <1>3, <1>4, OthersKeep DEF F!OthersRemove

LEMMA ServerKept ==
    ASSUME ScreenInv, UNCHANGED F!serverVars
    PROVE  RequestInv' /\ ServerTyped' /\ TableKept /\ F!Read("outgoing")' = F!Read("outgoing")
  <1>1. /\ fFriends' = fFriends /\ fRequests' = fRequests /\ fSent' = fSent
        /\ fCrossed' = fCrossed /\ Underway' = Underway
    BY DEF F!serverVars, Underway
  <1>2. RequestInv'
    BY SameServer DEF ScreenInv
  <1>3. ServerTyped' /\ TableKept
    BY <1>1 DEF ScreenInv, ScreenTyped, ServerTyped, TableKept, InTable, ToMe, FromMe
  <1> QED
    BY <1>1, <1>2, <1>3, Answers

LEMMA DealtSame ==
    ASSUME ScreenInv, UNCHANGED <<F!serverVars, fDone, fParted>>
    PROVE  DealtWith'
  BY ServerKept, DealtKept DEF ScreenInv, DealtWith, F!serverVars

\* What a request to the server brings is the user's to deal with, and none of it
\* is dealt with.
LEMMA AnswerOwn ==
    ASSUME ScreenInv
    PROVE  /\ \A r \in F!Read("incoming") : ToMe(r.id) /\ r.id \notin fDone /\ r \in F!Request
           /\ \A r \in F!Read("outgoing") : FromMe(r.id) /\ r.id \notin fDone /\ r \in F!Request
           /\ F!Read("friends") \subseteq People /\ fParted \cap F!Read("friends") = {}
  <1>1. \A r \in fRequests : InTable(r.id) /\ \A q \in fRequests : q.id = r.id => q = r
    BY DEF ScreenInv, RequestInv, RequestsNumbered, Known, IsRequest, InTable
  <1>2. \A r \in F!Read("incoming") : ToMe(r.id) /\ r.id \notin fDone /\ r \in F!Request
    BY <1>1, Answers DEF ToMe, ScreenInv, DealtWith, ScreenTyped, ServerTyped
  <1>3. \A r \in F!Read("outgoing") : FromMe(r.id) /\ r.id \notin fDone /\ r \in F!Request
    BY <1>1, Answers DEF FromMe, ScreenInv, DealtWith, ScreenTyped, ServerTyped
  <1>4. F!Read("friends") \subseteq People /\ fParted \cap F!Read("friends") = {}
    BY Answers DEF ScreenInv, DealtWith
  <1> QED
    BY <1>2, <1>3, <1>4

LEMMA LoadAnswersKeeps ==
    ASSUME ScreenInv, NEW j \in fLoads, NEW l \in F!Lists, F!LoadAnswers(j, l)
    PROVE  ScreenInv'
  <1>1. PICK m : m = [j EXCEPT !.need = @ \ {l}, !.got[l] = F!Read(l)]
    OBVIOUS
  <1>2. /\ fLoads' = (fLoads \ {j}) \cup {m} /\ l \in j.need
        /\ UNCHANGED <<F!serverVars, fScreen, fShown, fLoading, fLast, fDisturbed, fCalls, fDone,
               fParted>>
        /\ UNCHANGED <<fActions, fFaults>>
    BY <1>1 DEF F!LoadAnswers
  <1>3. j \in Runs
    BY DEF ScreenInv, ScreenTyped
  <1>4. /\ m.n = j.n /\ m.need = j.need \ {l} /\ m.got = [j.got EXCEPT ![l] = F!Read(l)]
        /\ m \in [n : Nat, need : SUBSET F!Lists, got : {m.got}]
    BY <1>1, <1>3 DEF Runs
  <1>5. j.got \in [F!Lists -> SUBSET (People \cup F!Request)]
    BY <1>3 DEF Runs, ListsOf
  <1>6. /\ m.got[l] = F!Read(l)
        /\ \A k \in F!Lists \ {l} : m.got[k] = j.got[k]
        /\ DOMAIN m.got = F!Lists
    BY <1>4, <1>5
  <1>7. F!Read(l) \subseteq People \cup F!Request /\ (l = "friends" => F!Read(l) \subseteq People)
        /\ (l \in {"incoming", "outgoing"} => F!Read(l) \subseteq F!Request)
    BY AnswerOwn DEF F!Lists
  <1>8. m.got \in ListsOf
    <2>1. m.got \in [F!Lists -> SUBSET (People \cup F!Request)]
      BY <1>4, <1>5, <1>7
    <2>2. /\ j.got["friends"] \subseteq People /\ j.got["incoming"] \subseteq F!Request
          /\ j.got["outgoing"] \subseteq F!Request
      BY <1>3 DEF Runs, ListsOf
    <2>3. m.got["friends"] \subseteq People
      BY <1>6, <1>7, <2>2 DEF F!Lists
    <2>4. m.got["incoming"] \subseteq F!Request /\ m.got["outgoing"] \subseteq F!Request
      BY <1>6, <1>7, <2>2 DEF F!Lists
    <2> QED
      BY <2>1, <2>3, <2>4 DEF ListsOf
  <1>9. m \in Runs
    BY <1>4, <1>8 DEF Runs
  <1>10. RequestInv' /\ ServerTyped' /\ TableKept /\ F!Read("outgoing")' = F!Read("outgoing")
    BY <1>2, ServerKept
  <1>11. ScreenTyped'
    BY <1>2, <1>9, <1>10 DEF ScreenInv, ScreenTyped, HistoryTyped
  <1>12. OwnRows(m.got)
    <2>1. OwnRows(j.got)
      BY DEF ScreenInv, Offered
    <2>2. \A r \in m.got["incoming"] : ToMe(r.id)
      BY <1>6, <2>1, AnswerOwn DEF OwnRows, F!Lists
    <2>3. \A r \in m.got["outgoing"] : FromMe(r.id)
      BY <1>6, <2>1, AnswerOwn DEF OwnRows, F!Lists
    <2> QED
      BY <2>2, <2>3 DEF OwnRows
  <1>13. Offered'
    <2>1. \A i \in fLoads' : OwnRows(i.got)
      BY <1>2, <1>12 DEF ScreenInv, Offered
    <2> QED
      BY <1>2, <1>10, <2>1, OwnRowsKept, OwnCallKept DEF ScreenInv, Offered
  <1>14. DealtWith'
    BY <1>2, DealtSame
  <1>15. InOrder'
    BY <1>2, <1>4 DEF ScreenInv, InOrder
  <1>16. FreshLists(j.got, j.need) => FreshLists(m.got, m.need)
    <2> SUFFICES ASSUME FreshLists(j.got, j.need) PROVE FreshLists(m.got, m.need)
      OBVIOUS
    <2>1. "incoming" \notin m.need => \A r \in m.got["incoming"] : r.id \notin fDone
      BY <1>4, <1>6, AnswerOwn DEF FreshLists, F!Lists
    <2>2. "outgoing" \notin m.need => \A r \in m.got["outgoing"] : r.id \notin fDone
      BY <1>4, <1>6, AnswerOwn DEF FreshLists, F!Lists
    <2>3. "friends" \notin m.need => fParted \cap m.got["friends"] = {}
      BY <1>4, <1>6, AnswerOwn DEF FreshLists, F!Lists
    <2>4. "outgoing" \notin m.need => F!Read("outgoing") \subseteq m.got["outgoing"]
      BY <1>4, <1>6 DEF FreshLists, F!Lists
    <2> QED
      BY <2>1, <2>2, <2>3, <2>4 DEF FreshLists
  <1>17. UpToDate'
    <2> SUFFICES ASSUME ~fDisturbed, \A k \in fCalls : k.at # "succeeded"
                 PROVE  /\ fLast.shown = fLast.started => FreshLists(fShown, {})'
                        /\ \A i \in fLoads' : i.n = fLast.started => FreshLists(i.got, i.need)'
      BY <1>2 DEF UpToDate
    <2>1. /\ fLast.shown = fLast.started => FreshLists(fShown, {})
          /\ \A i \in fLoads' : i.n = fLast.started => FreshLists(i.got, i.need)
      BY <1>2, <1>4, <1>16 DEF ScreenInv, UpToDate
    <2>2. \A g, need : FreshLists(g, need) => FreshLists(g, need)'
      BY <1>2, <1>10, FreshListsKept
    <2>3. fShown' = fShown
      BY <1>2
    <2> QED
      BY <2>1, <2>2, <2>3
  <1> QED
    BY <1>10, <1>11, <1>13, <1>14, <1>15, <1>17 DEF ScreenInv

LEMMA LoadShowsKeeps ==
    ASSUME ScreenInv, NEW j \in fLoads, F!LoadShows(j)
    PROVE  ScreenInv'
  <1>1. /\ j.need = {} /\ fLoads' = fLoads \ {j} /\ fShown' = j.got /\ fLoading' = FALSE
        /\ fLast' = [fLast EXCEPT !.shown = j.n]
        /\ fDisturbed' = (fDisturbed \/ j.n < fLast.shown)
        /\ UNCHANGED <<F!serverVars, fScreen, fCalls, fDone, fParted, fActions, fFaults>>
    BY DEF F!LoadShows
  <1>2. /\ fLast'.started = fLast.started /\ fLast'.shown = j.n
        /\ fLast' \in [started : Nat, shown : Nat] /\ j.got \in ListsOf
        /\ j.n \in Nat /\ fLast.shown \in Nat /\ fLast.started \in Nat
    BY <1>1 DEF ScreenInv, ScreenTyped, Runs
  <1>3. RequestInv' /\ ServerTyped' /\ TableKept /\ F!Read("outgoing")' = F!Read("outgoing")
    BY <1>1, ServerKept
  <1>4. fDisturbed' \in BOOLEAN
    BY <1>1 DEF ScreenInv, ScreenTyped, HistoryTyped
  <1>5. ScreenTyped'
    BY <1>1, <1>2, <1>3, <1>4 DEF ScreenInv, ScreenTyped, HistoryTyped
  <1>6. Offered'
    <2>1. OwnRows(fShown') /\ \A i \in fLoads' : OwnRows(i.got)
      BY <1>1 DEF ScreenInv, Offered
    <2>2. OwnRows(fShown)'
      BY <1>1, <1>3, <2>1, OwnRowsKept
    <2> QED
      BY <1>1, <1>3, <2>1, <2>2, OwnRowsKept, OwnCallKept DEF ScreenInv, Offered
  <1>7. DealtWith'
    BY <1>1, DealtSame
  <1>8. ASSUME ~fDisturbed' PROVE j.n <= fLast.started /\ (j.n = fLast.started
                                   \/ \E i \in fLoads' : i.n = fLast.started)
    <2>1. ~fDisturbed /\ ~(j.n < fLast.shown)
      BY <1>1, <1>8
    <2>2. j.n <= fLast.started
      BY <2>1 DEF ScreenInv, InOrder
    <2>3. CASE j.n # fLast.started
      <3>1. fLast.shown # fLast.started
        BY <1>2, <2>1, <2>2, <2>3
      <3> QED
        BY <1>1, <2>1, <2>2, <2>3, <3>1 DEF ScreenInv, InOrder
    <2> QED
      BY <2>2, <2>3
  <1>9. InOrder'
    BY <1>1, <1>2, <1>8 DEF ScreenInv, InOrder
  <1>10. UpToDate'
    <2> SUFFICES ASSUME ~fDisturbed', \A k \in fCalls : k.at # "succeeded"
                 PROVE  /\ j.n = fLast.started => FreshLists(j.got, {})'
                        /\ \A i \in fLoads' : i.n = fLast.started => FreshLists(i.got, i.need)'
      BY <1>1, <1>2 DEF UpToDate
    <2>1. /\ j.n = fLast.started => FreshLists(j.got, {})
          /\ \A i \in fLoads' : i.n = fLast.started => FreshLists(i.got, i.need)
      BY <1>1 DEF ScreenInv, UpToDate
    <2>2. \A g, need : FreshLists(g, need) => FreshLists(g, need)'
      BY <1>1, <1>3, FreshListsKept
    <2> QED
      BY <2>1, <2>2
  <1> QED
    BY <1>3, <1>5, <1>6, <1>7, <1>9, <1>10 DEF ScreenInv

\* The screen after a call that failed is exempt.
LEMMA DisturbedKeeps ==
    ASSUME ScreenInv, fDisturbed' = TRUE, UNCHANGED <<F!serverVars, fScreen, fShown, fLast,
           fDone, fParted>>,
           fLoads' \subseteq fLoads, fCalls' \subseteq fCalls, fActions' = fActions,
           fLoading' \in BOOLEAN, fFaults' \in Nat
    PROVE  ScreenInv'
  <1>1. RequestInv' /\ ServerTyped' /\ TableKept
    BY ServerKept
  <1>2. ScreenTyped'
    BY <1>1 DEF ScreenInv, ScreenTyped, HistoryTyped
  <1>3. Offered'
    BY <1>1, OwnRowsKept, OwnCallKept DEF ScreenInv, Offered
  <1>4. DealtWith'
    BY DealtSame
  <1> QED
    BY <1>1, <1>2, <1>3, <1>4 DEF ScreenInv, InOrder, UpToDate

LEMMA LoadStepKeeps ==
    ASSUME ScreenInv, NEW j \in fLoads, F!LoadStep(j)
    PROVE  ScreenInv'
  <1>1. CASE F!LoadFails(j)
    <2>1. fFaults' \in Nat
      BY <1>1 DEF F!LoadFails, F!Fails, ScreenInv, ScreenTyped, HistoryTyped
    <2> QED
      BY <1>1, <2>1, DisturbedKeeps DEF F!LoadFails
  <1> QED
    BY <1>1, LoadAnswersKeeps, LoadShowsKeeps DEF F!LoadStep

\* Whatever the calls do, the lists stay as they are until a load.
LEMMA ListsKept ==
    ASSUME ScreenInv, RequestInv', ServerTyped', TableKept, UNCHANGED <<fScreen, F!listVars,
           fFaults>>,
           fActions' \in Nat, fCalls' \subseteq CallState, fDone' \subseteq Nat,
           fParted' \subseteq People,
           \A k \in fCalls' : OwnCall(k)', DealtWith', UpToDate'
    PROVE  ScreenInv'
  <1>1. /\ fShown' = fShown /\ fLoads' = fLoads /\ fLast' = fLast /\ fDisturbed' = fDisturbed
        /\ fScreen' = fScreen /\ fLoading' = fLoading /\ fFaults' = fFaults
    BY DEF F!listVars
  <1>2. ScreenTyped'
    BY <1>1 DEF ScreenInv, ScreenTyped, HistoryTyped
  <1>3. Offered'
    BY <1>1, OwnRowsKept DEF ScreenInv, Offered
  <1>4. InOrder'
    BY <1>1 DEF ScreenInv, InOrder
  <1> QED
    BY <1>2, <1>3, <1>4 DEF ScreenInv

\* And with the server at rest they stay up to date.
LEMMA CallsKept ==
    ASSUME ScreenInv, UNCHANGED <<F!serverVars, fScreen, F!listVars, fDone, fParted, fFaults>>,
           fActions' \in Nat, fCalls' \subseteq CallState, \A k \in fCalls' : OwnCall(k),
           \A k \in fCalls : k.at = "succeeded" => k \in fCalls'
    PROVE  ScreenInv'
  <1>1. RequestInv' /\ ServerTyped' /\ TableKept /\ F!Read("outgoing")' = F!Read("outgoing")
    BY ServerKept
  <1>2. DealtWith'
    BY DealtSame
  <1>3. \A k \in fCalls' : OwnCall(k)'
    BY <1>1, OwnCallKept
  <1>4. \A g, need : FreshLists(g, need) => FreshLists(g, need)'
    BY <1>1, FreshListsKept
  <1>5. UpToDate'
    BY <1>4 DEF ScreenInv, UpToDate, F!listVars
  <1>6. fDone' \subseteq Nat /\ fParted' \subseteq People
    BY DEF ScreenInv, ScreenTyped, HistoryTyped
  <1> QED
    BY <1>1, <1>2, <1>3, <1>5, <1>6, ListsKept

LEMMA CallsKeeps ==
    ASSUME ScreenInv, NEW kind \in F!Requests \cup {"remove", "send"}, NEW about, F!Calls(kind,
           about),
           kind \in {"remove", "send"} => about \in People,
           kind \in {"accept", "decline"} => ToMe(about),
           kind = "cancel" => FromMe(about)
    PROVE  ScreenInv'
  <1>1. PICK k : k = [kind |-> kind, about |-> about, at |-> "call"]
    OBVIOUS
  <1>2. /\ fCalls' = fCalls \cup {k} /\ fActions' = fActions + 1
        /\ UNCHANGED <<F!serverVars, fScreen, F!listVars, fDone, fParted, fFaults>>
    BY <1>1 DEF F!Calls
  <1>3. about \in Nat \cup People
    BY DEF F!Requests, ToMe, FromMe, InTable
  <1>4. k \in CallState /\ OwnCall(k)
    BY <1>1, <1>3 DEF CallState, OwnCall
  <1>5. fCalls' \subseteq CallState /\ fActions' \in Nat
    BY <1>2, <1>4 DEF ScreenInv, ScreenTyped, HistoryTyped
  <1>6. \A c \in fCalls' : OwnCall(c)
    BY <1>2, <1>4 DEF ScreenInv, Offered
  <1> QED
    BY <1>2, <1>5, <1>6, CallsKept

LEMMA ScreenKeeps ==
    ASSUME ScreenInv, F!Panel \/ F!Page
    PROVE  ScreenInv'
  <1>1. /\ \A r \in fShown["incoming"] : ToMe(r.id)
        /\ \A r \in fShown["outgoing"] : FromMe(r.id)
        /\ fShown["friends"] \subseteq People
    BY DEF ScreenInv, Offered, OwnRows, ScreenTyped, ListsOf
  <1>2. CASE F!HandleAction
    <2>1. CASE \E r \in fShown["incoming"] : F!Calls("accept", r.id) \/ F!Calls("decline", r.id)
      BY <1>1, <2>1, CallsKeeps DEF F!Requests
    <2>2. CASE \E r \in fShown["outgoing"] : F!Calls("cancel", r.id)
      BY <1>1, <2>2, CallsKeeps DEF F!Requests
    <2> QED
      BY <1>2, <2>1, <2>2 DEF F!HandleAction
  <1>3. CASE F!PanelRemove \/ F!PageRemove
    BY <1>1, <1>3, CallsKeeps DEF F!PanelRemove, F!PageRemove
  <1>4. CASE F!PanelSend \/ F!PageSend
    BY <1>4, CallsKeeps DEF F!PanelSend, F!PageSend
  <1> QED
    BY <1>2, <1>3, <1>4 DEF F!Panel, F!Page

\* A call of which only the stage changes.
LEMMA GoesOn ==
    ASSUME ScreenInv, NEW k \in fCalls, NEW at \in {"call", "asking", "insert", "succeeded"}, F!Goes(k, at)
    PROVE  /\ fCalls' \subseteq CallState
           /\ \A c \in fCalls' : OwnCall(c)
           /\ at = "succeeded" => \E c \in fCalls' : c.at = "succeeded"
           /\ k.at # "succeeded" => \A c \in fCalls : c.at = "succeeded" => c \in fCalls'
  <1>1. PICK m : m = [k EXCEPT !.at = at]
    OBVIOUS
  <1>2. fCalls' = (fCalls \ {k}) \cup {m}
    BY <1>1 DEF F!Goes
  <1>3. k \in CallState /\ OwnCall(k)
    BY DEF ScreenInv, ScreenTyped, Offered
  <1>4. m.kind = k.kind /\ m.about = k.about /\ m.at = at /\ m \in CallState
    BY <1>1, <1>3 DEF CallState
  <1>5. OwnCall(m)
    BY <1>3, <1>4 DEF OwnCall
  <1> QED
    BY <1>2, <1>4, <1>5 DEF ScreenInv, ScreenTyped, Offered

\* What the user answered is open no more.
LEMMA AnsweredClosed ==
    ASSUME ScreenInv, NEW id,
           \/ ToMe(id) /\ (F!Accept(id, Me) \/ F!Decline(id, Me))
           \/ FromMe(id) /\ F!Cancel(id, Me)
    PROVE  \A r \in fRequests' : r.status = "pending" => r.id # id
  <1>2. CASE \E status \in {"accepted", "declined"} :
                fRequests' = F!Marked(id, status) /\ UNCHANGED <<fAsking, fSending, fSent>>
    <2>1. OpenRows' \subseteq {r \in OpenRows : r.id # id}
      BY <1>2, MarkedRows DEF ScreenInv, RequestInv
    <2> QED
      BY <2>1 DEF OpenRows
  <1>3. CASE ToMe(id) /\ F!Decline(id, Me) /\ ~(\E r \in F!Row(id) : r.to = Me)
    BY <1>3 DEF F!Decline, F!Row, ToMe
  <1>4. CASE FromMe(id) /\ F!Cancel(id, Me)
    BY <1>4 DEF F!Cancel, FromMe
  <1> QED
    BY <1>2, <1>3, <1>4 DEF F!Accept, F!Decline

LEMMA CallActsKeeps ==
    ASSUME ScreenInv, NEW k \in fCalls, F!CallActs(k)
    PROVE  ScreenInv'
  <1>1. /\ k.kind # "send" /\ F!Effect(k) /\ F!Goes(k, "succeeded")
        /\ fDone' = IF k.kind \in F!Requests THEN fDone \cup {k.about} ELSE fDone
        /\ fParted' = {b \in fParted \cup (IF k.kind = "remove" THEN {k.about} ELSE {}) :
                         <<Me, b>> \notin fFriends'}
        /\ UNCHANGED <<fScreen, F!listVars, fActions, fFaults>>
    BY DEF F!CallActs
  <1>2. k \in CallState /\ OwnCall(k)
    BY DEF ScreenInv, ScreenTyped, Offered
  <1>3. RequestInv' /\ ServerTyped' /\ TableKept
    BY <1>1, AnswerKeeps, RemoveKeeps DEF F!Effect, ScreenInv, ScreenTyped
  <1>4. /\ fCalls' \subseteq CallState /\ (\A c \in fCalls' : OwnCall(c))
        /\ \E c \in fCalls' : c.at = "succeeded"
    BY <1>1, GoesOn
  <1>5. \A c \in fCalls' : OwnCall(c)'
    BY <1>3, <1>4, OwnCallKept
  <1>6. UpToDate'
    BY <1>4 DEF UpToDate
  <1>7. k.kind \in F!Requests => InTable(k.about)
    BY <1>2 DEF OwnCall, ToMe, FromMe, F!Requests
  <1>8. \A id \in fDone' : InTable(id) /\ id \in Nat
    BY <1>1, <1>7 DEF ScreenInv, DealtWith, InTable
  <1>9. fParted' \subseteq People /\ fActions' \in Nat
    BY <1>1, <1>2 DEF ScreenInv, ScreenTyped, HistoryTyped, CallState
  <1>10. \A r \in fRequests' : r.status = "pending" => r.id \notin fDone'
    <2> SUFFICES ASSUME NEW r \in fRequests', r.status = "pending" PROVE r.id \notin fDone'
      OBVIOUS
    <2>1. CASE k.kind = "remove"
      <3>1. fRequests' = fRequests /\ fDone' = fDone
        BY <1>1, <2>1 DEF F!Effect, F!Remove, F!Requests
      <3> QED
        BY <3>1 DEF ScreenInv, DealtWith
    <2>2. CASE k.kind \in F!Requests
      <3>1. F!Accept(k.about, Me) \/ F!Decline(k.about, Me) \/ F!Cancel(k.about, Me)
        BY <1>1, <2>2 DEF F!Effect, F!Requests
      <3>2. r \in fRequests
        BY <3>1, StillOpen DEF ScreenInv
      <3>3. \/ ToMe(k.about) /\ (F!Accept(k.about, Me) \/ F!Decline(k.about, Me))
            \/ FromMe(k.about) /\ F!Cancel(k.about, Me)
        BY <1>1, <1>2, <2>2 DEF F!Effect, F!Requests, OwnCall
      <3>4. r.id # k.about
        BY <3>3, AnsweredClosed
      <3> QED
        BY <1>1, <3>2, <3>4 DEF ScreenInv, DealtWith
    <2> QED
      BY <1>1, <1>2, <2>1, <2>2 DEF CallState
  <1>11. DealtWith'
    <2>1. \A id \in fDone' : InTable(id)'
      BY <1>3, <1>8 DEF TableKept
    <2>2. \A b \in fParted' : <<Me, b>> \notin fFriends'
      BY <1>1
    <2> QED
      BY <1>10, <2>1, <2>2 DEF DealtWith
  <1> QED
    BY <1>1, <1>3, <1>4, <1>5, <1>6, <1>8, <1>9, <1>11, ListsKept

\* The second check adds nothing to the table.
LEMMA CheckedKeeps ==
    ASSUME ScreenInv, NEW r \in fAsking, F!CheckRequest(r),
           UNCHANGED <<fScreen, F!listVars, fDone, fParted, fActions, fFaults>>,
           fCalls' \subseteq CallState, \A c \in fCalls' : OwnCall(c),
           \A c \in fCalls : c.at = "succeeded" => c \in fCalls'
    PROVE  ScreenInv'
  <1>1. RequestInv' /\ ServerTyped' /\ TableKept
    BY CheckRequestInv, CheckRequestKeeps DEF ScreenInv, ScreenTyped
  <1>2. fRequests' = fRequests /\ fFriends' = fFriends
    BY DEF F!CheckRequest
  <1>3. F!Read("outgoing")' = F!Read("outgoing")
    BY <1>2, Answers
  <1>4. \A c \in fCalls' : OwnCall(c)'
    BY <1>1, OwnCallKept
  <1>5. /\ \A q \in fRequests' : q.status = "pending" => q.id \notin fDone
        /\ \A b \in fParted' : <<Me, b>> \notin fFriends'
    BY <1>2 DEF ScreenInv, DealtWith
  <1>6. DealtWith'
    BY <1>1, <1>5, DealtKept
  <1>7. \A g, need : FreshLists(g, need) => FreshLists(g, need)'
    BY <1>3, FreshListsKept
  <1>8. UpToDate'
    BY <1>7 DEF ScreenInv, UpToDate, F!listVars
  <1>9. fActions' \in Nat /\ fDone' \subseteq Nat /\ fParted' \subseteq People
    BY DEF ScreenInv, ScreenTyped, HistoryTyped
  <1> QED
    BY <1>1, <1>4, <1>6, <1>8, <1>9, ListsKept

LEMMA CallChecksKeeps ==
    ASSUME ScreenInv, NEW k \in fCalls, F!CallChecks(k)
    PROVE  ScreenInv'
  <1>1. PICK r \in fAsking : F!CheckRequest(r)
    BY DEF F!CallChecks
  <1>2. /\ F!Goes(k, "insert") /\ k.at # "succeeded"
        /\ UNCHANGED <<fScreen, F!listVars, fDone, fParted, fActions, fFaults>>
    BY DEF F!CallChecks
  <1>3. /\ fCalls' \subseteq CallState /\ (\A c \in fCalls' : OwnCall(c))
        /\ \A c \in fCalls : c.at = "succeeded" => c \in fCalls'
    BY <1>2, GoesOn
  <1> QED
    BY <1>1, <1>2, <1>3, CheckedKeeps

LEMMA CallAsksKeeps ==
    ASSUME ScreenInv, NEW k \in fCalls, F!CallAsks(k), Me \in People
    PROVE  ScreenInv'
  <1>1. /\ k.at = "call" /\ k.kind = "send" /\ F!CheckFriend(Me, k.about) /\ F!Goes(k, "asking")
        /\ UNCHANGED <<fScreen, F!listVars, fDone, fParted, fActions, fFaults>>
    BY DEF F!CallAsks
  <1>2. k.about \in People
    BY <1>1 DEF ScreenInv, ScreenTyped, CallState
  <1>3. RequestInv' /\ ServerTyped' /\ TableKept
    BY <1>1, <1>2, CheckFriendInv, CheckFriendKeeps DEF ScreenInv, ScreenTyped
  <1>4. fRequests' = fRequests /\ fFriends' = fFriends
    BY <1>1 DEF F!CheckFriend
  <1>5. F!Read("outgoing")' = F!Read("outgoing")
    BY <1>4, Answers
  <1>6. /\ fCalls' \subseteq CallState /\ (\A c \in fCalls' : OwnCall(c))
        /\ \A c \in fCalls : c.at = "succeeded" => c \in fCalls'
    BY <1>1, GoesOn
  <1>7. \A c \in fCalls' : OwnCall(c)'
    BY <1>3, <1>6, OwnCallKept
  <1>8. /\ \A r \in fRequests' : r.status = "pending" => r.id \notin fDone
        /\ \A b \in fParted' : <<Me, b>> \notin fFriends'
    BY <1>1, <1>4 DEF ScreenInv, DealtWith
  <1>9. DealtWith'
    BY <1>1, <1>3, <1>8, DealtKept
  <1>10. \A g, need : FreshLists(g, need) => FreshLists(g, need)'
    BY <1>1, <1>5, FreshListsKept
  <1>11. UpToDate'
    BY <1>1, <1>6, <1>10 DEF ScreenInv, UpToDate, F!listVars
  <1>12. fActions' \in Nat /\ fDone' \subseteq Nat /\ fParted' \subseteq People
    BY <1>1 DEF ScreenInv, ScreenTyped, HistoryTyped
  <1> QED
    BY <1>1, <1>3, <1>6, <1>7, <1>9, <1>11, <1>12, ListsKept

LEMMA CallInsertsKeeps ==
    ASSUME ScreenInv, NEW k \in fCalls, F!CallInserts(k)
    PROVE  ScreenInv'
  <1>1. PICK r \in fSending : r.from = Me /\ r.to = k.about /\ F!InsertRequest(r)
    BY DEF F!CallInserts
  <1>2. F!Goes(k, "succeeded")
        /\ UNCHANGED <<fScreen, F!listVars, fDone, fParted, fActions, fFaults>>
    BY DEF F!CallInserts
  <1>3. RequestInv' /\ ServerTyped' /\ TableKept
    BY <1>1, InsertInv, InsertKeeps DEF ScreenInv, ScreenTyped
  <1>4. fRequests' = fRequests \cup {r} /\ fFriends' = fFriends
    BY <1>1 DEF F!InsertRequest
  <1>5. /\ fCalls' \subseteq CallState /\ (\A c \in fCalls' : OwnCall(c))
        /\ \E c \in fCalls' : c.at = "succeeded"
    BY <1>2, GoesOn
  <1>6. \A c \in fCalls' : OwnCall(c)'
    BY <1>3, <1>5, OwnCallKept
  <1>7. r.id \notin fDone
    BY DEF ScreenInv, DealtWith, InTable, Underway
  <1>8. /\ \A q \in fRequests' : q.status = "pending" => q.id \notin fDone
        /\ \A b \in fParted' : <<Me, b>> \notin fFriends'
    BY <1>2, <1>4, <1>7 DEF ScreenInv, DealtWith
  <1>9. DealtWith'
    BY <1>2, <1>3, <1>8, DealtKept
  <1>10. UpToDate'
    BY <1>5 DEF UpToDate
  <1>11. fActions' \in Nat /\ fDone' \subseteq Nat /\ fParted' \subseteq People
    BY <1>2 DEF ScreenInv, ScreenTyped, HistoryTyped
  <1> QED
    BY <1>2, <1>3, <1>5, <1>6, <1>9, <1>10, <1>11, ListsKept

LEMMA CallRefusedKeeps ==
    ASSUME ScreenInv, NEW k \in fCalls, F!CallRefused(k)
    PROVE  ScreenInv'
  <1>1. /\ fCalls' = fCalls \ {k} /\ k.at # "succeeded"
        /\ UNCHANGED <<fScreen, F!listVars, fDone, fParted, fActions, fFaults>>
        /\ UNCHANGED F!serverVars \/ \E r \in fAsking : F!CheckRequest(r)
    BY DEF F!CallRefused
  <1>2. fActions' \in Nat /\ fCalls' \subseteq CallState /\ \A c \in fCalls' : OwnCall(c)
    BY <1>1 DEF ScreenInv, ScreenTyped, HistoryTyped, Offered
  <1>3. \A c \in fCalls : c.at = "succeeded" => c \in fCalls'
    BY <1>1
  <1> QED
    BY <1>1, <1>2, <1>3, CallsKept, CheckedKeeps

\* After a success a load is under way that none before it can pass for.
LEMMA CallSucceedsKeeps ==
    ASSUME ScreenInv, NEW k \in fCalls, F!CallSucceeds(k)
    PROVE  ScreenInv'
  <1>1. PICK n, j : n = fLast.started + 1 /\ j = F!Load(n)
    OBVIOUS
  <1>2. fLast \in [started : Nat, shown : Nat]
    BY DEF ScreenInv, ScreenTyped
  <1>3. fLast' = [fLast EXCEPT !.started = @ + 1]
    BY DEF F!CallSucceeds, F!LoadData
  <1>4. /\ fLast'.started = n /\ fLast'.shown = fLast.shown /\ n \in Nat /\ n > fLast.started
        /\ fLast' \in [started : Nat, shown : Nat]
    BY <1>1, <1>2, <1>3
  <1>5. /\ fCalls' = fCalls \ {k} /\ fLoads' = fLoads \cup {j} /\ fLoading' = TRUE
        /\ UNCHANGED <<F!serverVars, fScreen, fShown, fDisturbed, fDone, fParted, fActions,
               fFaults>>
    BY <1>1, <1>4 DEF F!CallSucceeds, F!LoadData
  <1>6. F!Nothing \in ListsOf /\ \A l \in F!Lists : F!Nothing[l] = {}
    BY DEF F!Nothing, ListsOf, F!Lists
  <1>7. j \in Runs /\ j.n = n /\ j.need = F!Lists /\ j.got = F!Nothing
    BY <1>1, <1>4, <1>6 DEF F!Load, Runs
  <1>8. RequestInv' /\ ServerTyped' /\ TableKept
    BY <1>5, ServerKept
  <1>9. ScreenTyped'
    BY <1>4, <1>5, <1>7, <1>8 DEF ScreenInv, ScreenTyped, HistoryTyped
  <1>10. OwnRows(j.got)
    BY <1>6, <1>7 DEF OwnRows, F!Lists
  <1>11. Offered'
    <2>1. \A i \in fLoads' : OwnRows(i.got)
      BY <1>5, <1>10 DEF ScreenInv, Offered
    <2> QED
      BY <1>5, <1>8, <2>1, OwnRowsKept, OwnCallKept DEF ScreenInv, Offered
  <1>12. DealtWith'
    BY <1>5, DealtSame
  <1>13. \A i \in fLoads : i.n \in Nat
    BY DEF ScreenInv, ScreenTyped, Runs
  <1>14. ~fDisturbed => /\ fLast.shown < n
                        /\ \A i \in fLoads : i.n < n
    BY <1>2, <1>4, <1>13 DEF ScreenInv, InOrder
  <1>15. InOrder'
    BY <1>2, <1>4, <1>5, <1>7, <1>13, <1>14 DEF InOrder
  <1>16. UpToDate'
    <2> SUFFICES ASSUME ~fDisturbed
                 PROVE  /\ fLast'.shown # n
                        /\ \A i \in fLoads' : i.n = n => FreshLists(i.got, i.need)'
      BY <1>4, <1>5 DEF UpToDate
    <2>1. FreshLists(j.got, j.need)'
      BY <1>7 DEF FreshLists, F!Lists
    <2>2. \A i \in fLoads : i.n # n
      BY <1>4, <1>13, <1>14
    <2>3. fLast.shown # n
      BY <1>2, <1>4, <1>14
    <2> QED
      BY <1>4, <1>5, <2>1, <2>2, <2>3
  <1> QED
    BY <1>8, <1>9, <1>11, <1>12, <1>15, <1>16 DEF ScreenInv

LEMMA FriendActionKeeps ==
    ASSUME ScreenInv, NEW k \in fCalls, F!FriendAction(k), Me \in People
    PROVE  ScreenInv'
  <1>1. CASE F!CallFails(k)
    <2>1. fFaults' \in Nat
      BY <1>1 DEF F!CallFails, F!Fails, ScreenInv, ScreenTyped, HistoryTyped
    <2>2. fLoading' \in BOOLEAN
      BY <1>1 DEF F!CallFails, ScreenInv, ScreenTyped, HistoryTyped
    <2> QED
      BY <1>1, <2>1, <2>2, DisturbedKeeps DEF F!CallFails
  <1> QED
    BY <1>1, CallActsKeeps, CallAsksKeeps, CallChecksKeeps, CallInsertsKeeps, CallRefusedKeeps,
       CallSucceedsKeeps DEF F!FriendAction

LEMMA ScreenInit == F!FriendsAssumption /\ F!Init => ScreenInv
  <1> SUFFICES ASSUME F!FriendsAssumption, F!Init PROVE ScreenInv
    OBVIOUS
  <1>1. RequestInv
    BY RequestInit
  <1>2. F!Nothing \in ListsOf /\ \A l \in F!Lists : F!Nothing[l] = {}
    BY DEF F!Nothing, ListsOf, F!Lists
  <1>3. F!Load(1) \in Runs /\ F!Load(1).n = 1 /\ F!Load(1).need = F!Lists
        /\ F!Load(1).got = F!Nothing
    BY <1>2 DEF F!Load, Runs
  <1>4. ScreenTyped
    BY <1>2, <1>3 DEF F!FriendsAssumption, F!Init, ScreenTyped, ServerTyped, HistoryTyped,
       Underway
  <1>5. Offered /\ DealtWith
    BY <1>2, <1>3 DEF F!Init, Offered, OwnRows, F!Lists, DealtWith
  <1>6. InOrder /\ UpToDate
    BY <1>3 DEF F!Init, InOrder, UpToDate, FreshLists, F!Lists
  <1> QED
    BY <1>1, <1>4, <1>5, <1>6 DEF ScreenInv

LEMMA ScreenStep == F!FriendsAssumption /\ ScreenInv /\ [F!Next]_F!vars => ScreenInv'
  <1> SUFFICES ASSUME F!FriendsAssumption, ScreenInv, [F!Next]_F!vars PROVE ScreenInv'
    OBVIOUS
  <1>1. CASE \E a, b \in People : F!OthersAsk(a, b) \/ F!OthersRemove(a, b)
    BY <1>1, OthersAskKeeps, OthersRemoveKeeps
  <1>2. CASE \E a \in People : F!OthersAnswer(a)
    BY <1>2, OthersAnswerKeeps
  <1>3. CASE (\E r \in fAsking : F!OthersCheck(r)) \/ \E r \in fSending : F!OthersInsert(r)
    BY <1>3, OthersCheckKeeps, OthersInsertKeeps
  <1>4. CASE \E j \in fLoads : F!LoadStep(j)
    BY <1>4, LoadStepKeeps
  <1>5. CASE F!Panel \/ F!Page
    BY <1>5, ScreenKeeps
  <1>6. CASE \E k \in fCalls : F!FriendAction(k)
    BY <1>6, FriendActionKeeps DEF F!FriendsAssumption
  <1>7. CASE UNCHANGED F!vars
    <2>1. /\ UNCHANGED <<F!serverVars, fScreen, F!listVars, fDone, fParted, fFaults>>
          /\ fCalls' = fCalls /\ fActions' = fActions
      BY <1>7 DEF F!vars
    <2>2. fActions' \in Nat /\ fCalls' \subseteq CallState /\ \A c \in fCalls' : OwnCall(c)
      BY <2>1 DEF ScreenInv, ScreenTyped, HistoryTyped, Offered
    <2> QED
      BY <2>1, <2>2, CallsKept
  <1> QED
    BY <1>1, <1>2, <1>3, <1>4, <1>5, <1>6, <1>7 DEF F!Next

\* Every reachable state of the server's tables and of the screen is well typed.
THEOREM FriendsTypeCorrect == F!Spec => []F!TypeOK
  <1>1. ScreenInv => F!TypeOK
    BY FriendsTyped DEF ScreenInv
  <1> QED
    BY <1>1, ScreenInit, ScreenStep, Assumed, PTL DEF F!Spec

\* Once everything has been answered, and nothing failed or came out of order, the
\* lists show what their user did, whatever other people do at the same time
\* (useFriendActions.ts).
THEOREM OwnActionsShowCorrect == F!Spec => []OwnActionsShow
  BY ScreenImplied, ScreenInit, ScreenStep, Assumed, PTL DEF F!Spec, OwnActionsShow

-----------------------------------------------------------------------------
(***************************************************************************)
(* ProfileForm: what a save writes, and the status the dialog shows.       *)
(***************************************************************************)
\* Who is being edited exists, and who is saved has a name.
HasRow ==
    /\ pScreen = "dialog" => pRow # None
    /\ pSave.stage = "status" => pRow # None /\ P!IsNew
    /\ pSave.stage # "idle" => pSave.name # None

\* The page of a new user has nothing to lose while it loads.
PageLoads ==
    P!IsNew /\ pLoads # {} =>
        /\ pRow = None /\ pAvatarUrl = None /\ pPreview = None /\ pFile = None
        /\ pReads = {} /\ pSave.stage = "idle"
        /\ \A l \in pLoads : l.got = None

\* What the form would save is what it shows, or will once the one file is read.
Chosen == IF pFile = None THEN pAvatarUrl ELSE pFile
ShowsChosen ==
    pSettled => \/ pReads = {} /\ pPreview = Chosen
                \/ pFile # None /\ pReads = {pFile}

\* A save under way and the last one that was written carry what was asked.
SavesAsked ==
    /\ pSave.stage \in {"upload", "write"} /\ pAsked.settled => pSave.name = pAsked.name
    /\ pSave.stage = "upload" /\ pAsked.settled => pSave.file = pAsked.avatar
    /\ pSave.stage = "write" /\ pAsked.settled => pSave.avatar = pAsked.avatar

\* Without a crossing there is one load or one call under way, and what it brings
\* or goes back to is the status the server has.
StatusFollows ==
    pScreen = "dialog" /\ ~pCrossed =>
        \/ pLoads = {} /\ pPicks = {} /\ pStatus = pRow.status
        \/ /\ pPicks = {}
           /\ \E l \in pLoads : pLoads = {l} /\ (l.got # None => l.got.status = pRow.status)
        \/ /\ pLoads = {}
           /\ \E p \in pPicks :
                 /\ pPicks = {p} /\ pStatus = p.next
                 /\ pRow.status = IF p.at = "sent" THEN p.prev ELSE p.next

FormInv ==
    P!TypeOK /\ HasRow /\ PageLoads /\ ShowsChosen /\ SavesAsked /\ P!SavedAsShown /\ StatusFollows

LEMMA FormInit == P!ProfileFormAssumption /\ P!Init => FormInv
  <1> SUFFICES ASSUME P!ProfileFormAssumption, P!Init PROVE FormInv
    OBVIOUS
  <1>1. /\ pScreen \in {"page", "dialog"} /\ First.name \in Names /\ First.status \in Statuses
        /\ pScreen = "page" => pRow = None
        /\ pScreen = "dialog" => pRow \in P!Rows
    BY DEF P!ProfileFormAssumption, P!Init, P!Rows, P!Row
  <1>2. P!TypeOK
    <2>1. /\ pSave \in [stage : {"idle", "upload", "write", "status", "end", "left"},
                 name : P!MaybeName,
                       avatar : P!Avatars, file : P!Avatars, status : Statuses]
          /\ pAsked \in P!Asked /\ pWrote \in [was : P!Asked, name : P!MaybeName,
                 avatar : P!Avatars]
      BY <1>1 DEF P!Init, P!Idle, P!NoWrite, P!Asked, P!MaybeName, P!Avatars
    <2>2. \A l \in pLoads : l.n \in Nat /\ (l.got = None \/ l.got \in P!Rows)
      BY DEF P!Init
    <2>3. pOpen \in BOOLEAN
      BY DEF P!Init
    <2>4. /\ pScreen \in Forms /\ pEnterprise \in BOOLEAN /\ pLocked \in BOOLEAN
          /\ pSettled \in BOOLEAN /\ pCrossed \in BOOLEAN /\ pConflict \in BOOLEAN
          /\ pEdits = 0 /\ pOpens = 0 /\ pSaves = 0 /\ pFaults = 0
          /\ pReads = {} /\ pPicks = {} /\ pStatus = First.status
          /\ pName = None /\ pAvatarUrl = None /\ pPreview = None /\ pFile = None
      BY DEF P!Init
    <2>5. pRow = None \/ pRow \in P!Rows
      BY <1>1
    <2>6. None \in P!Avatars /\ None \in P!MaybeName
      BY DEF P!Avatars, P!MaybeName
    <2>7. {pAvatarUrl, pPreview, pFile} \subseteq P!Avatars /\ pName \in P!MaybeName
      BY <2>4, <2>6
    <2>8. {pSettled, pCrossed, pConflict} \subseteq BOOLEAN
          /\ {pEdits, pOpens, pSaves, pFaults} \subseteq Nat
      BY <2>4
    <2> QED
      BY <1>1, <2>1, <2>2, <2>3, <2>4, <2>5, <2>7, <2>8 DEF P!TypeOK
  <1>5. HasRow /\ PageLoads
    BY <1>1 DEF P!ProfileFormAssumption, P!Init, HasRow, PageLoads, P!IsNew, P!Idle
  <1>3. ShowsChosen /\ SavesAsked /\ P!SavedAsShown
    BY DEF P!Init, ShowsChosen, SavesAsked, P!SavedAsShown, P!Idle, P!NoWrite
  <1>4. StatusFollows
    BY DEF P!Init, StatusFollows, P!Row
  <1> QED
    BY <1>2, <1>3, <1>4, <1>5 DEF FormInv

\* Who has been created stays.
LEMMA RowWritten ==
    ASSUME P!ProfileFormAssumption, FormInv, P!Write \/ P!StatusOfNew
           \/ (\E p \in pPicks : P!StatusWritten(p))
    PROVE  pRow' \in P!Rows
  <1> USE DEF FormInv, P!TypeOK, P!Rows
  <1>1. CASE P!Write
    <2>1. pSave.name \in Names /\ pSave.avatar \in P!Avatars
      BY <1>1 DEF P!Write, HasRow, P!MaybeName
    <2>2. CASE P!IsNew
      BY <1>1, <2>1, <2>2 DEF P!Write, P!Row, P!ProfileFormAssumption
    <2>3. CASE ~P!IsNew
      BY <1>1, <2>1, <2>3 DEF P!Write, HasRow, P!IsNew, P!ProfileFormAssumption
    <2> QED
      BY <2>2, <2>3
  <1>2. CASE P!StatusOfNew
    BY <1>2 DEF P!StatusOfNew, HasRow
  <1>3. CASE \E p \in pPicks : P!StatusWritten(p)
    BY <1>3 DEF P!StatusWritten
  <1> QED
    BY <1>1, <1>2, <1>3

LEMMA FormTypeStep == P!ProfileFormAssumption /\ FormInv /\ [P!Next]_P!vars => P!TypeOK'
  <1> SUFFICES ASSUME P!ProfileFormAssumption, FormInv, [P!Next]_P!vars PROVE P!TypeOK'
    OBVIOUS
  <1> USE DEF P!ProfileFormAssumption, FormInv, P!TypeOK, P!SameForm, P!formVars, P!workVars,
     P!historyVars, P!bounds
  <1>1. CASE P!OpenDialog
    <2>1. PICK m : m = [n |-> pOpens', got |-> None]
      OBVIOUS
    <2>2. pOpens' \in Nat
      BY <1>1 DEF P!OpenDialog
    <2>3. pCrossed' \in BOOLEAN
      BY <1>1 DEF P!OpenDialog
    <2>4. {pSettled', pCrossed', pConflict'} \subseteq BOOLEAN
      BY <1>1, <2>3 DEF P!OpenDialog
    <2>5. \A l \in pLoads' : l.n \in Nat /\ (l.got = None \/ l.got \in P!Rows)
      BY <1>1, <2>1, <2>2 DEF P!OpenDialog
    <2> QED
      BY <1>1, <2>2, <2>4, <2>5 DEF P!OpenDialog
  <1>2. CASE P!CloseDialog \/ P!UndoFile
    BY <1>2 DEF P!CloseDialog, P!UndoFile, P!FileDropped, P!Avatars
  <1>3. CASE P!Click
    <2>1. pSave' \in [stage : {"idle", "upload", "write", "status", "end", "left"},
          name : P!MaybeName,
                      avatar : P!Avatars, file : P!Avatars, status : Statuses]
      BY <1>3 DEF P!Click
    <2>2. pAsked' \in P!Asked
      BY <1>3 DEF P!Click, P!Asked
    <2>3. pSaves' \in Nat
      BY <1>3 DEF P!Click
    <2> QED
      BY <1>3, <2>1, <2>2, <2>3 DEF P!Click
  <1>4. CASE P!Upload
    <2>1. pSave' \in [stage : {"idle", "upload", "write", "status", "end", "left"},
          name : P!MaybeName,
                      avatar : P!Avatars, file : P!Avatars, status : Statuses]
      BY <1>4 DEF P!Upload
    <2> QED
      BY <1>4, <2>1 DEF P!Upload
  <1>5. CASE P!Write
    <2>1. pRow' \in P!Rows
      BY <1>5, RowWritten
    <2>2. pSave' \in [stage : {"idle", "upload", "write", "status", "end", "left"},
          name : P!MaybeName,
                      avatar : P!Avatars, file : P!Avatars, status : Statuses]
      BY <1>5 DEF P!Write, P!Idle, P!MaybeName, P!Avatars
    <2>3. pWrote' \in [was : P!Asked, name : P!MaybeName, avatar : P!Avatars]
      BY <1>5 DEF P!Write, P!Written
    <2>4. pFaults' \in Nat
      BY <1>5 DEF P!Write, P!Fails
    <2> QED
      BY <1>5, <2>1, <2>2, <2>3, <2>4 DEF P!Write
  <1>6. CASE P!WriteRefused \/ P!SaveFails
    <2>1. pFaults' \in Nat
      BY <1>6 DEF P!WriteRefused, P!SaveFails, P!Fails
    <2>2. P!Idle \in [stage : {"idle", "upload", "write", "status", "end", "left"},
          name : P!MaybeName,
                      avatar : P!Avatars, file : P!Avatars, status : Statuses]
      BY DEF P!Idle, P!MaybeName, P!Avatars
    <2> QED
      BY <1>6, <2>1, <2>2 DEF P!WriteRefused, P!SaveFails
  <1>7. CASE P!StatusOfNew
    <2>1. pRow' \in P!Rows
      BY <1>7, RowWritten
    <2>2. pSave' \in [stage : {"idle", "upload", "write", "status", "end", "left"},
          name : P!MaybeName,
                      avatar : P!Avatars, file : P!Avatars, status : Statuses]
      BY <1>7 DEF P!StatusOfNew
    <2> QED
      BY <1>7, <2>1, <2>2 DEF P!StatusOfNew
  <1>8. CASE P!Ended
    BY <1>8 DEF P!Ended, P!Idle, P!MaybeName, P!Avatars
  <1>9. CASE \E l \in pLoads : P!LoadRead(l) \/ P!LoadShow(l) \/ P!LoadProposal(l) \/ P!LoadFails(l)
    <2>1. PICK l \in pLoads : P!LoadRead(l) \/ P!LoadShow(l) \/ P!LoadProposal(l) \/ P!LoadFails(l)
      BY <1>9
    <2>2. CASE P!LoadRead(l)
      <3>1. PICK m : m = [l EXCEPT !.got = pRow]
        OBVIOUS
      <3>2. m.n \in Nat /\ (m.got = None \/ m.got \in P!Rows)
        BY <2>2, <3>1 DEF P!LoadRead
      <3> QED
        BY <2>2, <3>1, <3>2 DEF P!LoadRead
    <2>3. CASE P!LoadShow(l)
      <3>1. l.got \in P!Rows
        BY <2>3 DEF P!LoadShow
      <3> QED
        BY <2>3, <3>1 DEF P!LoadShow, P!Rows, P!MaybeName, P!Settles
    <2>4. CASE P!LoadProposal(l)
      BY <2>4 DEF P!LoadProposal, P!MaybeName, P!Settles
    <2>5. CASE P!LoadFails(l)
      BY <2>5 DEF P!LoadFails, P!Fails
    <2> QED
      BY <2>1, <2>2, <2>3, <2>4, <2>5
  <1>10. CASE \/ \E n \in Names : P!TypeName(n)
              \/ \E i \in Images : P!FileSelect(i)
              \/ \E i \in pReads : P!ReadDone(i)
    <2>1. pEdits' \in Nat
      BY <1>10 DEF P!TypeName, P!FileSelect, P!ReadDone, P!Edits
    <2> QED
      BY <1>10, <2>1 DEF P!TypeName, P!FileSelect, P!ReadDone, P!MaybeName, P!Avatars
  <1>11. CASE \E s \in Statuses : P!PickStatus(s)
    <2>1. PICK s \in Statuses : P!PickStatus(s)
      BY <1>11
    <2>2. pEdits' \in Nat
      BY <2>1 DEF P!PickStatus, P!Edits
    <2>3. PICK p : p = [n |-> pEdits', prev |-> pStatus, next |-> s, at |-> "sent"]
      OBVIOUS
    <2>4. p \in [n : Nat, prev : Statuses, next : Statuses, at : {"sent", "written"}]
      BY <2>2, <2>3
    <2> QED
      BY <2>1, <2>2, <2>3, <2>4 DEF P!PickStatus
  <1>12. CASE \E p \in pPicks : P!StatusWritten(p) \/ P!StatusAnswered(p) \/ P!StatusFails(p)
    <2>1. PICK p \in pPicks : P!StatusWritten(p) \/ P!StatusAnswered(p) \/ P!StatusFails(p)
      BY <1>12
    <2>2. CASE P!StatusWritten(p)
      <3>1. pRow' \in P!Rows
        BY <2>2, RowWritten
      <3>2. [p EXCEPT !.at = "written"] \in [n : Nat, prev : Statuses, next : Statuses,
            at : {"sent", "written"}]
        OBVIOUS
      <3> QED
        BY <2>2, <3>1, <3>2 DEF P!StatusWritten
    <2>3. CASE P!StatusAnswered(p) \/ P!StatusFails(p)
      <3>1. pFaults' \in Nat
        BY <2>3 DEF P!StatusAnswered, P!StatusFails, P!Fails
      <3>2. p.prev \in Statuses
        OBVIOUS
      <3> QED
        BY <2>3, <3>1, <3>2 DEF P!StatusAnswered, P!StatusFails, P!GoesBackTo
    <2> QED
      BY <2>1, <2>2, <2>3
  <1>13. CASE UNCHANGED P!vars
    BY <1>13 DEF P!vars
  <1> QED
    BY <1>1, <1>2, <1>3, <1>4, <1>5, <1>6, <1>7, <1>8, <1>9, <1>10, <1>11, <1>12, <1>13 DEF P!Next

\* An action that changes neither form nor save nor row.
LEMMA HasRowStep == P!ProfileFormAssumption /\ FormInv /\ [P!Next]_P!vars => HasRow'
  <1> SUFFICES ASSUME P!ProfileFormAssumption, FormInv, [P!Next]_P!vars PROVE HasRow'
    OBVIOUS
  <1> USE DEF HasRow, P!IsNew, P!SameForm, P!formVars, P!workVars, P!historyVars, P!bounds
  <1>a. HasRow
    BY DEF FormInv
  <1>b. pRow \in P!Rows => pRow # None
    BY DEF P!ProfileFormAssumption
  <1>c. /\ pScreen \in {"page", "dialog"}
        /\ pSave = [stage |-> pSave.stage, name |-> pSave.name, avatar |-> pSave.avatar,
                    file |-> pSave.file, status |-> pSave.status]
    BY DEF FormInv, P!TypeOK, P!ProfileFormAssumption
  <1>1. CASE P!Click
    BY <1>1, <1>a DEF P!Click
  <1>2. CASE P!Upload
    BY <1>2, <1>a, <1>c DEF P!Upload
  <1>3. CASE P!Write
    <2>1. pRow' # None
      BY <1>3, RowWritten DEF P!ProfileFormAssumption
    <2> QED
      BY <1>3, <1>a, <1>c, <2>1 DEF P!Write, P!Idle
  <1>4. CASE P!WriteRefused \/ P!SaveFails \/ P!Ended
    BY <1>4, <1>a DEF P!WriteRefused, P!SaveFails, P!Ended, P!Idle
  <1>5. CASE P!StatusOfNew
    <2>1. pRow' # None
      BY <1>5, RowWritten DEF P!ProfileFormAssumption
    <2> QED
      BY <1>5, <1>a, <1>c, <2>1 DEF P!StatusOfNew
  <1>6. CASE \E p \in pPicks : P!StatusWritten(p)
    <2>1. pRow' # None
      BY <1>6, RowWritten DEF P!ProfileFormAssumption
    <2> QED
      BY <1>6, <1>a, <2>1 DEF P!StatusWritten
  <1>7. CASE P!OpenDialog \/ P!CloseDialog \/ P!UndoFile \/ UNCHANGED P!vars
    BY <1>7, <1>a DEF P!OpenDialog, P!CloseDialog, P!UndoFile, P!vars
  <1>8. CASE \E l \in pLoads : P!LoadRead(l) \/ P!LoadShow(l) \/ P!LoadProposal(l) \/ P!LoadFails(l)
    BY <1>8, <1>a DEF P!LoadRead, P!LoadShow, P!LoadProposal, P!LoadFails
  <1>9. CASE \/ \E n \in Names : P!TypeName(n)
             \/ \E i \in Images : P!FileSelect(i)
             \/ \E i \in pReads : P!ReadDone(i)
             \/ \E s \in Statuses : P!PickStatus(s)
    BY <1>9, <1>a DEF P!TypeName, P!FileSelect, P!ReadDone, P!PickStatus
  <1>10. CASE \E p \in pPicks : P!StatusAnswered(p) \/ P!StatusFails(p)
    BY <1>10, <1>a DEF P!StatusAnswered, P!StatusFails
  <1> QED
    BY <1>1, <1>2, <1>3, <1>4, <1>5, <1>6, <1>7, <1>8, <1>9, <1>10 DEF P!Next

\* The page loads once, before anything is saved.
LEMMA PageLoadsStep == P!ProfileFormAssumption /\ FormInv /\ [P!Next]_P!vars => PageLoads'
  <1> SUFFICES ASSUME P!ProfileFormAssumption, FormInv, [P!Next]_P!vars, P!IsNew', pLoads' # {}
               PROVE  /\ pRow' = None /\ pAvatarUrl' = None /\ pPreview' = None /\ pFile' = None
                      /\ pReads' = {} /\ pSave'.stage = "idle"
                      /\ \A l \in pLoads' : l.got = None
    BY DEF PageLoads
  <1> USE DEF P!IsNew, P!SameForm, P!formVars, P!workVars, P!historyVars, P!bounds
  <1>1. pScreen = "page" /\ pScreen # "dialog"
    BY DEF P!Next, P!OpenDialog, P!CloseDialog, P!UndoFile, P!Click, P!Upload, P!Write,
       P!WriteRefused, P!SaveFails, P!StatusOfNew, P!Ended, P!LoadRead, P!LoadShow,
       P!LoadProposal, P!LoadFails, P!TypeName, P!FileSelect, P!ReadDone, P!PickStatus,
       P!StatusWritten, P!StatusAnswered, P!StatusFails, P!vars
  <1>2. pLoads # {}
    BY <1>1 DEF P!Next, P!OpenDialog, P!CloseDialog, P!UndoFile, P!Click, P!Upload, P!Write,
       P!WriteRefused, P!SaveFails, P!StatusOfNew, P!Ended, P!LoadRead, P!LoadShow,
       P!LoadProposal, P!LoadFails, P!TypeName, P!FileSelect, P!ReadDone, P!PickStatus,
       P!StatusWritten, P!StatusAnswered, P!StatusFails, P!vars
  <1>3. /\ pRow = None /\ pAvatarUrl = None /\ pPreview = None /\ pFile = None
        /\ pReads = {} /\ pSave.stage = "idle"
        /\ \A l \in pLoads : l.got = None
    BY <1>1, <1>2 DEF FormInv, PageLoads
  <1>4. CASE \E l \in pLoads : P!LoadRead(l) \/ P!LoadShow(l) \/ P!LoadProposal(l) \/ P!LoadFails(l)
    BY <1>3, <1>4 DEF P!LoadRead, P!LoadShow, P!LoadProposal, P!LoadFails
  <1>5. CASE P!CloseDialog \/ P!UndoFile \/ UNCHANGED P!vars \/ P!OpenDialog
    BY <1>1, <1>3, <1>5 DEF P!CloseDialog, P!UndoFile, P!vars, P!OpenDialog
  <1>6. CASE P!Click \/ P!Upload \/ P!Write \/ P!WriteRefused \/ P!SaveFails \/ P!StatusOfNew
             \/ P!Ended
    BY <1>1, <1>2, <1>3, <1>6 DEF P!Click, P!Editable, P!Upload, P!Write, P!WriteRefused,
       P!SaveFails, P!StatusOfNew, P!Ended
  <1>7. CASE \/ \E n \in Names : P!TypeName(n)
             \/ \E i \in Images : P!FileSelect(i)
             \/ \E i \in pReads : P!ReadDone(i)
             \/ \E s \in Statuses : P!PickStatus(s)
    BY <1>1, <1>2, <1>3, <1>7 DEF P!TypeName, P!FileSelect, P!ReadDone, P!PickStatus, P!Edits,
       P!Editable
  <1>8. CASE \E p \in pPicks : P!StatusWritten(p) \/ P!StatusAnswered(p) \/ P!StatusFails(p)
    BY <1>3, <1>8 DEF P!StatusWritten, P!StatusAnswered, P!StatusFails
  <1> QED
    BY <1>4, <1>5, <1>6, <1>7, <1>8 DEF P!Next

\* The image that is shown and the one that would be saved.
LEMMA ShowsChosenStep == P!ProfileFormAssumption /\ FormInv /\ [P!Next]_P!vars => ShowsChosen'
  <1> SUFFICES ASSUME P!ProfileFormAssumption, FormInv, [P!Next]_P!vars, pSettled'
               PROVE  \/ pReads' = {} /\ pPreview' = Chosen'
                      \/ pFile' # None /\ pReads' = {pFile'}
    BY DEF ShowsChosen
  <1> USE DEF P!SameForm, P!formVars, P!workVars, P!historyVars, P!bounds
  <1>1. pSettled => \/ pReads = {} /\ pPreview = Chosen
                    \/ pFile # None /\ pReads = {pFile}
    BY DEF FormInv, ShowsChosen
  <1>2. CASE P!OpenDialog \/ P!Ended
    BY <1>2 DEF P!OpenDialog, P!Ended
  <1>3. CASE P!UndoFile
    BY <1>3 DEF P!UndoFile, P!FileDropped, Chosen
  <1>4. CASE \E i \in Images : P!FileSelect(i)
    <2>1. None \notin Images
      BY DEF P!ProfileFormAssumption
    <2> QED
      BY <1>4, <2>1 DEF P!FileSelect, Chosen
  <1>5. CASE \E i \in pReads : P!ReadDone(i)
    BY <1>1, <1>5 DEF P!ReadDone, Chosen
  <1>6. CASE \E l \in pLoads : P!LoadShow(l)
    BY <1>6 DEF P!LoadShow, P!Settles, Chosen
  <1>7. CASE \E l \in pLoads : P!LoadProposal(l)
    BY <1>7 DEF P!LoadProposal, P!Settles, Chosen, FormInv, PageLoads
  <1>8. CASE \E l \in pLoads : P!LoadRead(l) \/ P!LoadFails(l)
    BY <1>1, <1>8 DEF P!LoadRead, P!LoadFails, Chosen
  <1>9. CASE \/ P!CloseDialog \/ P!Click \/ P!Upload \/ P!Write \/ P!WriteRefused
                    \/ P!SaveFails \/ P!StatusOfNew
             \/ \E n \in Names : P!TypeName(n)
             \/ UNCHANGED P!vars
    BY <1>1, <1>9 DEF P!CloseDialog, P!Click, P!Upload, P!Write, P!WriteRefused, P!SaveFails,
       P!StatusOfNew, P!TypeName, P!vars, Chosen
  <1>10. CASE \/ \E s \in Statuses : P!PickStatus(s)
              \/ \E p \in pPicks : P!StatusWritten(p) \/ P!StatusAnswered(p) \/ P!StatusFails(p)
    BY <1>1, <1>10 DEF P!PickStatus, P!StatusWritten, P!StatusAnswered, P!StatusFails, Chosen
  <1> QED
    BY <1>2, <1>3, <1>4, <1>5, <1>6, <1>7, <1>8, <1>9, <1>10 DEF P!Next

\* What is asked at the click is what the save carries, and what it carries is written.
LEMMA SavesAskedStep ==
    P!ProfileFormAssumption /\ FormInv /\ [P!Next]_P!vars => SavesAsked' /\ P!SavedAsShown'
  <1> SUFFICES ASSUME P!ProfileFormAssumption, FormInv, [P!Next]_P!vars
               PROVE SavesAsked' /\ P!SavedAsShown'
    OBVIOUS
  <1> USE DEF SavesAsked, P!SavedAsShown, P!SameForm, P!formVars, P!workVars, P!historyVars,
     P!bounds
  <1>1. SavesAsked /\ P!SavedAsShown
    BY DEF FormInv
  <1>2. pSave = [stage |-> pSave.stage, name |-> pSave.name, avatar |-> pSave.avatar,
                 file |-> pSave.file, status |-> pSave.status]
    BY DEF FormInv, P!TypeOK
  <1>3. CASE P!Click
    BY <1>1, <1>3 DEF P!Click, FormInv, ShowsChosen, Chosen
  <1>4. CASE P!Upload
    BY <1>1, <1>2, <1>4 DEF P!Upload
  <1>5. CASE P!Write
    BY <1>1, <1>2, <1>5 DEF P!Write, P!Written, P!Idle
  <1>6. CASE P!WriteRefused \/ P!SaveFails \/ P!Ended
    BY <1>1, <1>6 DEF P!WriteRefused, P!SaveFails, P!Ended, P!Idle
  <1>7. CASE P!StatusOfNew
    BY <1>1, <1>2, <1>7 DEF P!StatusOfNew
  <1>8. CASE P!OpenDialog \/ P!CloseDialog \/ P!UndoFile \/ UNCHANGED P!vars
    BY <1>1, <1>8 DEF P!OpenDialog, P!CloseDialog, P!UndoFile, P!vars
  <1>9. CASE \E l \in pLoads : P!LoadRead(l) \/ P!LoadShow(l) \/ P!LoadProposal(l) \/ P!LoadFails(l)
    BY <1>1, <1>9 DEF P!LoadRead, P!LoadShow, P!LoadProposal, P!LoadFails
  <1>10. CASE \/ \E n \in Names : P!TypeName(n)
              \/ \E i \in Images : P!FileSelect(i)
              \/ \E i \in pReads : P!ReadDone(i)
              \/ \E s \in Statuses : P!PickStatus(s)
    BY <1>1, <1>10 DEF P!TypeName, P!FileSelect, P!ReadDone, P!PickStatus
  <1>11. CASE \E p \in pPicks : P!StatusWritten(p) \/ P!StatusAnswered(p) \/ P!StatusFails(p)
    BY <1>1, <1>11 DEF P!StatusWritten, P!StatusAnswered, P!StatusFails
  <1> QED
    BY <1>3, <1>4, <1>5, <1>6, <1>7, <1>8, <1>9, <1>10, <1>11 DEF P!Next

\* The status that is shown and the one the server has.
LEMMA StatusFollowsStep == P!ProfileFormAssumption /\ FormInv /\ [P!Next]_P!vars => StatusFollows'
  <1> SUFFICES ASSUME P!ProfileFormAssumption, FormInv, [P!Next]_P!vars, pScreen' = "dialog",
                      ~pCrossed'
               PROVE  StatusFollows'
    BY DEF StatusFollows
  <1> USE DEF P!IsNew, P!SameForm, P!formVars, P!workVars, P!historyVars, P!bounds
  <1>1. pScreen = "dialog"
    BY DEF P!Next, P!OpenDialog, P!CloseDialog, P!UndoFile, P!Click, P!Upload, P!Write,
       P!WriteRefused, P!SaveFails, P!StatusOfNew, P!Ended, P!LoadRead, P!LoadShow,
       P!LoadProposal, P!LoadFails, P!TypeName, P!FileSelect, P!ReadDone, P!PickStatus,
       P!StatusWritten, P!StatusAnswered, P!StatusFails, P!vars
  <1>2. CASE P!OpenDialog
    <2>1. PICK l : l = [n |-> pOpens', got |-> None]
      OBVIOUS
    <2>2. pPicks = {} /\ pLoads = {}
      BY <1>2 DEF P!OpenDialog
    <2>3. pPicks' = {} /\ pLoads' = {l} /\ l.got = None
      BY <1>2, <2>1, <2>2 DEF P!OpenDialog
    <2> QED
      BY <2>3 DEF StatusFollows
  <1>3. ASSUME ~P!OpenDialog PROVE ~pCrossed /\ StatusFollows
    <2>1. CASE \E s \in Statuses : P!PickStatus(s)
      BY <1>1, <2>1 DEF P!PickStatus, FormInv
    <2>2. CASE \E p \in pPicks : P!StatusFails(p)
      BY <2>2 DEF P!StatusFails, FormInv
    <2>3. CASE \E l \in pLoads : P!LoadFails(l)
      BY <2>3 DEF P!LoadFails
    <2>4. CASE \/ P!CloseDialog \/ P!UndoFile \/ P!Click \/ P!Upload \/ P!Write
                      \/ P!WriteRefused \/ P!SaveFails
               \/ P!StatusOfNew \/ P!Ended \/ UNCHANGED P!vars
      BY <2>4 DEF P!CloseDialog, P!UndoFile, P!Click, P!Upload, P!Write, P!WriteRefused,
         P!SaveFails, P!StatusOfNew, P!Ended, P!vars, FormInv
    <2>5. CASE \/ \E l \in pLoads : P!LoadRead(l) \/ P!LoadShow(l) \/ P!LoadProposal(l)
               \/ \E n \in Names : P!TypeName(n)
               \/ \E i \in Images : P!FileSelect(i)
               \/ \E i \in pReads : P!ReadDone(i)
               \/ \E p \in pPicks : P!StatusWritten(p) \/ P!StatusAnswered(p)
      BY <2>5 DEF P!LoadRead, P!LoadShow, P!LoadProposal, P!TypeName, P!FileSelect, P!ReadDone,
         P!StatusWritten, P!StatusAnswered, FormInv
    <2> QED
      BY <1>3, <2>1, <2>2, <2>3, <2>4, <2>5 DEF P!Next
  <1>4. pRow # None /\ pRow \in P!Rows
    BY <1>1 DEF FormInv, HasRow, P!TypeOK
  <1>5. ASSUME ~P!OpenDialog,
               pRow'.status = pRow.status, UNCHANGED <<pLoads, pPicks, pStatus>>
        PROVE  StatusFollows'
    BY <1>1, <1>3, <1>5 DEF StatusFollows
  <1>6. CASE P!Write /\ ~P!OpenDialog
    <2>1. pRow'.status = pRow.status
      BY <1>1, <1>4, <1>6 DEF P!Write, P!Rows
    <2> QED
      BY <1>5, <1>6, <2>1 DEF P!Write
  <1>7. CASE ~P!OpenDialog /\ (P!CloseDialog \/ P!UndoFile \/ P!Click \/ P!Upload
             \/ P!WriteRefused \/ P!SaveFails \/ P!Ended
                                \/ UNCHANGED P!vars)
    BY <1>5, <1>7 DEF P!CloseDialog, P!UndoFile, P!Click, P!Upload, P!WriteRefused, P!SaveFails,
       P!Ended, P!vars
  <1>8. CASE P!StatusOfNew
    BY <1>1, <1>8 DEF P!StatusOfNew, FormInv, HasRow
  <1>9. CASE ~P!OpenDialog /\ \/ \E n \in Names : P!TypeName(n)
                              \/ \E i \in Images : P!FileSelect(i)
                              \/ \E i \in pReads : P!ReadDone(i)
    BY <1>5, <1>9 DEF P!TypeName, P!FileSelect, P!ReadDone
  <1>10. CASE ~P!OpenDialog /\ \E l \in pLoads : P!LoadRead(l) \/ P!LoadShow(l)
              \/ P!LoadProposal(l) \/ P!LoadFails(l)
    <2>1. PICK l \in pLoads : P!LoadRead(l) \/ P!LoadShow(l)
      BY <1>1, <1>10 DEF P!LoadProposal, P!LoadFails
    <2>2. pPicks = {} /\ pLoads = {l} /\ (l.got # None => l.got.status = pRow.status)
      BY <1>1, <1>3, <1>10, <2>1 DEF StatusFollows
    <2>3. CASE P!LoadRead(l)
      <3>1. PICK m : m = [l EXCEPT !.got = pRow]
        OBVIOUS
      <3>2. pLoads' = {m} /\ pPicks' = {} /\ pRow' = pRow
        BY <2>2, <2>3, <3>1 DEF P!LoadRead
      <3>3. m.got # None => m.got.status = pRow.status
        BY <2>3, <3>1 DEF P!LoadRead
      <3> QED
        BY <3>2, <3>3 DEF StatusFollows
    <2>4. CASE P!LoadShow(l)
      BY <2>2, <2>4 DEF P!LoadShow, StatusFollows
    <2> QED
      BY <2>1, <2>3, <2>4
  <1>11. CASE ~P!OpenDialog /\ \E s \in Statuses : P!PickStatus(s)
    <2>1. PICK s \in Statuses : P!PickStatus(s)
      BY <1>11
    <2>2. PICK p : p = [n |-> pEdits', prev |-> pStatus, next |-> s, at |-> "sent"]
      OBVIOUS
    <2>3. pPicks = {} /\ pLoads = {} /\ pPicks' = {p} /\ pLoads' = {} /\ pStatus' = s
          /\ pRow' = pRow
      BY <1>1, <2>1, <2>2 DEF P!PickStatus
    <2>4. pStatus = pRow.status
      BY <1>1, <1>3, <1>11, <2>3 DEF StatusFollows
    <2> QED
      BY <2>2, <2>3, <2>4 DEF StatusFollows
  <1>12. CASE ~P!OpenDialog /\ \E p \in pPicks : P!StatusWritten(p) \/ P!StatusAnswered(p)
              \/ P!StatusFails(p)
    <2>1. PICK p \in pPicks : P!StatusWritten(p) \/ P!StatusAnswered(p) \/ P!StatusFails(p)
      BY <1>12
    <2>2. /\ pLoads = {} /\ pPicks = {p} /\ pStatus = p.next
          /\ pRow.status = IF p.at = "sent" THEN p.prev ELSE p.next
      BY <1>1, <1>3, <1>12, <2>1 DEF StatusFollows
    <2>3. p = [n |-> p.n, prev |-> p.prev, next |-> p.next, at |-> p.at]
          /\ p.at \in {"sent", "written"}
      BY <2>1 DEF FormInv, P!TypeOK
    <2>4. CASE P!StatusWritten(p)
      <3>1. PICK m : m = [p EXCEPT !.at = "written"]
        OBVIOUS
      <3>2. m.next = p.next /\ m.at = "written"
        BY <2>3, <3>1
      <3>3. pRow'.status = p.next /\ pPicks' = {m} /\ pLoads' = {} /\ pStatus' = pStatus
        BY <1>4, <2>2, <2>4, <3>1 DEF P!StatusWritten, P!Rows
      <3> QED
        BY <2>2, <3>2, <3>3 DEF StatusFollows
    <2>5. CASE P!StatusAnswered(p)
      BY <2>2, <2>5 DEF P!StatusAnswered, StatusFollows
    <2>6. CASE P!StatusFails(p)
      BY <2>2, <2>3, <2>6 DEF P!StatusFails, P!GoesBackTo, StatusFollows
    <2> QED
      BY <2>1, <2>4, <2>5, <2>6
  <1> QED
    BY <1>2, <1>6, <1>7, <1>8, <1>9, <1>10, <1>11, <1>12 DEF P!Next

LEMMA FormStep == P!ProfileFormAssumption /\ FormInv /\ [P!Next]_P!vars => FormInv'
  BY FormTypeStep, HasRowStep, PageLoadsStep, ShowsChosenStep, SavesAskedStep, StatusFollowsStep
     DEF FormInv

LEMMA StatusImplied == FormInv => P!StatusAgrees
  BY DEF FormInv, StatusFollows, P!StatusAgrees

\* The form, its saves and its loads keep their types, whatever the names, images, statuses
\* and bounds (ProfilePage.tsx, EditProfileDialog.tsx).
THEOREM FormTypeCorrect == P!Spec => []P!TypeOK
  <1>1. FormInv => P!TypeOK
    BY DEF FormInv
  <1> QED
    BY <1>1, FormInit, FormStep, Assumed, PTL DEF P!Spec

\* A save writes the name and the image the form showed at the click, if the click
\* found the form settled: the last of its loads met no file kept from an earlier
\* opening, no file being read and no save, and nothing is being read at the click
\* (EditProfileDialog.tsx and ProfilePage.tsx handleSave).
THEOREM SavedAsShownCorrect == P!Spec => []SavedAsShown
  <1>1. FormInv => P!SavedAsShown
    BY DEF FormInv
  <1> QED
    BY <1>1, FormInit, FormStep, Assumed, PTL DEF P!Spec, SavedAsShown

\* At rest the dialog shows the server's status, if no status call overlapped another
\* or a load and no answer was lost (EditProfileDialog.tsx handleStatusPick).
THEOREM StatusAgreesCorrect == P!Spec => []StatusAgrees
  BY StatusImplied, FormInit, FormStep, Assumed, PTL DEF P!Spec, StatusAgrees

-----------------------------------------------------------------------------
(***************************************************************************)
(* DevicePreview: no camera is lost but in the two known ways, the preview *)
(* follows the stored preferences, and the Start button comes back.        *)
(***************************************************************************)
\* At most one start of the open section waits for its camera, and the section says so.
OneAtATime ==
    /\ dPreview = "starting" <=> D!Waiting # {}
    /\ \A r, s \in D!Waiting : r = s

\* The restart is due only while the preview is live, and a preview that is not
\* live holds a stream only if the audio graph refused it.
HeldWhileLive ==
    /\ dFrame => dPreview = "live"
    /\ dPreview # "live" => dHeld = None \/ dHeld \in dMarred

\* Constraints not answered yet are the stored ones, unless a preference was changed since.
AskedAsStored == \A s \in D!Waiting : dWant[s] = dStored \/ s \in dOvertaken

\* Only a start that was made can be left behind.
LeftWereMade == \A s \in dLeft : dPhase[s] # "unused"

PreviewInv ==
    /\ OneAtATime /\ HeldWhileLive /\ LeftWereMade
    /\ D!NoCameraLost /\ AskedAsStored /\ D!PreviewFollows

LEMMA StoppedPhase ==
    ASSUME D!PreviewAssumption, D!TypeOK
    PROVE  /\ D!Stopped \in [D!Starts -> {"unused", "asked", "running", "over"}]
           /\ \A s \in D!Starts : D!Stopped[s] = IF s = dHeld THEN "over" ELSE dPhase[s]
  BY DEF D!Stopped, D!TypeOK, D!PreviewAssumption, D!Starts

(***************************************************************************)
(* Types                                                                   *)
(***************************************************************************)
LEMMA PreviewTypeInit == D!PreviewAssumption /\ D!Init => D!TypeOK
  <1> SUFFICES ASSUME D!PreviewAssumption, D!Init PROVE D!TypeOK
    OBVIOUS
  <1>1. /\ dLeft \in SUBSET D!Starts /\ dMarred \in SUBSET D!Starts
               /\ dOvertaken \in SUBSET D!Starts
        /\ dMishaps \in 0 .. MaxMishaps
    BY DEF D!PreviewAssumption, D!Init
  <1>2. /\ dPhase \in [D!Starts -> {"unused", "asked", "running", "over"}]
        /\ dWant \in [D!Starts -> Preferences]
    BY DEF D!PreviewAssumption, D!Init
  <1> QED
    BY <1>1, <1>2 DEF D!PreviewAssumption, D!Init, D!TypeOK

LEMMA PreviewTypeStep == D!PreviewAssumption /\ D!TypeOK /\ [D!Next]_D!vars => D!TypeOK'
  <1> SUFFICES ASSUME D!PreviewAssumption, D!TypeOK, [D!Next]_D!vars PROVE D!TypeOK'
    OBVIOUS
  <1>1. CASE D!ClickStart
    BY <1>1 DEF D!ClickStart, D!StartPreview, D!Constraints, D!TypeOK
  <1>2. CASE D!ClickStop
    BY <1>2, StoppedPhase DEF D!ClickStop, D!TypeOK
  <1>3. CASE D!Restart
    BY <1>3, StoppedPhase DEF D!Restart, D!StartPreview, D!Constraints, D!TypeOK
  <1>4. CASE \E s \in D!Starts : D!Shown(s)
    BY <1>4 DEF D!Shown, D!Waiting, D!Mishap, D!PreviewAssumption, D!TypeOK
  <1>5. CASE \E s \in D!Starts : D!AnsweredTooLate(s)
    BY <1>5 DEF D!AnsweredTooLate, D!section, D!TypeOK
  <1>6. CASE \E s \in D!Starts : D!Refused(s)
    BY <1>6 DEF D!Refused, D!TypeOK
  <1>7. CASE \E p \in Preferences : D!Choose(p)
    BY <1>7 DEF D!Choose, D!Waiting, D!RestartDue, D!Mishap, D!PreviewAssumption, D!TypeOK
  <1>8. CASE \E s \in D!Starts : D!Ended(s)
    BY <1>8 DEF D!Ended, D!section, D!TypeOK
  <1>9. CASE D!Open
    BY <1>9 DEF D!Open, D!streams, D!TypeOK
  <1>10. CASE D!Close
    BY <1>10, StoppedPhase DEF D!Close, D!CleanedUp, D!Waiting, D!TypeOK
  <1>11. CASE UNCHANGED D!vars
    BY <1>11 DEF D!vars, D!section, D!streams, D!TypeOK
  <1> QED
    BY <1>1, <1>2, <1>3, <1>4, <1>5, <1>6, <1>7, <1>8, <1>9, <1>10, <1>11 DEF D!Next

\* Every reachable state of the section is well typed, whatever the preferences
\* and however often the preview is started.
THEOREM PreviewTypeCorrect == D!Spec => []D!TypeOK
  BY PreviewTypeInit, PreviewTypeStep, Assumed, PTL DEF D!Spec

(***************************************************************************)
(* The camera                                                              *)
(***************************************************************************)
\* A start that begins when none waits, after tracks were stopped: it is the
\* only one waiting and was asked for as stored, and no further camera runs.
LEMMA StartMakesOne ==
    ASSUME D!TypeOK, LeftWereMade, D!Waiting = {}, UNCHANGED <<dLeft, dOvertaken, dStored>>,
           NEW ph \in [D!Starts -> {"unused", "asked", "running", "over"}],
           \A s \in D!Starts : ph[s] = dPhase[s] \/ ph[s] = "over",
           D!StartPreview(ph)
    PROVE  /\ OneAtATime' /\ AskedAsStored' /\ LeftWereMade' /\ dPreview' = "starting"
           /\ \A s \in D!Starts : dPhase'[s] = "running" => ph[s] = "running"
  <1>1. \A s \in D!Starts : s >= s
    BY DEF D!Starts
  <1>2. PICK s \in D!Starts : /\ dPhase[s] = "unused"
                              /\ dPhase' = [ph EXCEPT ![s] = "asked"]
                              /\ dWant' = [dWant EXCEPT ![s] = dStored]
                              /\ dPreview' = "starting"
    BY <1>1, Zenon DEF D!StartPreview, D!Constraints
  <1>3. s \notin dLeft
    BY <1>2 DEF LeftWereMade
  <1>4. dPhase'[s] = "asked" /\ \A r \in D!Starts \ {s} : dPhase'[r] = ph[r]
    BY <1>2
  <1>5. \A r \in D!Starts : dPhase[r] = "asked" => r \in dLeft
    BY DEF D!Waiting
  <1>6. D!Waiting' = {s}
    BY <1>3, <1>4, <1>5 DEF D!Waiting
  <1>7. dWant'[s] = dStored'
    BY <1>2 DEF D!TypeOK
  <1>8. LeftWereMade'
    BY <1>4 DEF LeftWereMade, D!TypeOK
  <1> QED
    BY <1>2, <1>4, <1>6, <1>7, <1>8 DEF OneAtATime, AskedAsStored

LEMMA ClickStartInv == D!PreviewAssumption /\ D!TypeOK /\ PreviewInv /\ D!ClickStart => PreviewInv'
  <1> SUFFICES ASSUME D!PreviewAssumption, D!TypeOK, PreviewInv, D!ClickStart PROVE PreviewInv'
    OBVIOUS
  <1>1. D!Waiting = {} /\ D!StartPreview(dPhase)
    BY DEF D!ClickStart, PreviewInv, OneAtATime
  <1>2. /\ OneAtATime' /\ AskedAsStored' /\ LeftWereMade' /\ dPreview' = "starting"
        /\ \A s \in D!Starts : dPhase'[s] = "running" => dPhase[s] = "running"
    BY <1>1, StartMakesOne DEF D!ClickStart, PreviewInv, D!TypeOK
  <1>3. HeldWhileLive' /\ D!PreviewFollows'
    BY <1>2 DEF D!ClickStart, PreviewInv, HeldWhileLive, D!PreviewFollows
  <1>4. D!NoCameraLost'
    BY <1>2 DEF D!ClickStart, PreviewInv, D!NoCameraLost, D!Running
  <1> QED
    BY <1>2, <1>3, <1>4 DEF PreviewInv

LEMMA ClickStopInv == D!PreviewAssumption /\ D!TypeOK /\ PreviewInv /\ D!ClickStop => PreviewInv'
  <1> SUFFICES ASSUME D!PreviewAssumption, D!TypeOK, PreviewInv, D!ClickStop PROVE PreviewInv'
    OBVIOUS
  <1>1. D!Waiting = {} /\ \A s \in D!Starts : dPhase'[s] = IF s = dHeld THEN "over" ELSE dPhase[s]
    BY StoppedPhase DEF D!ClickStop, PreviewInv, OneAtATime
  <1>2. D!Waiting' = {}
    BY <1>1 DEF D!ClickStop, D!Waiting
  <1>3. OneAtATime' /\ AskedAsStored'
    BY <1>2 DEF D!ClickStop, OneAtATime, AskedAsStored
  <1>4. HeldWhileLive' /\ D!PreviewFollows'
    BY DEF D!ClickStop, PreviewInv, HeldWhileLive, D!PreviewFollows
  <1>5. LeftWereMade' /\ D!NoCameraLost'
    BY <1>1 DEF D!ClickStop, PreviewInv, LeftWereMade, D!NoCameraLost, D!Running, D!TypeOK
  <1> QED
    BY <1>3, <1>4, <1>5 DEF PreviewInv

LEMMA RestartInv == D!PreviewAssumption /\ D!TypeOK /\ PreviewInv /\ D!Restart => PreviewInv'
  <1> SUFFICES ASSUME D!PreviewAssumption, D!TypeOK, PreviewInv, D!Restart PROVE PreviewInv'
    OBVIOUS
  <1>1. D!Waiting = {} /\ D!StartPreview(D!Stopped)
    BY DEF D!Restart, PreviewInv, OneAtATime, HeldWhileLive
  <1>2. \A s \in D!Starts : D!Stopped[s] = IF s = dHeld THEN "over" ELSE dPhase[s]
    BY StoppedPhase
  <1>3. /\ OneAtATime' /\ AskedAsStored' /\ LeftWereMade' /\ dPreview' = "starting"
        /\ \A s \in D!Starts : dPhase'[s] = "running" => D!Stopped[s] = "running"
    BY <1>1, <1>2, StartMakesOne, StoppedPhase DEF D!Restart, PreviewInv
  <1>4. HeldWhileLive' /\ D!PreviewFollows'
    BY <1>3 DEF D!Restart, HeldWhileLive, D!PreviewFollows
  <1>5. D!NoCameraLost'
    BY <1>2, <1>3 DEF D!Restart, PreviewInv, D!NoCameraLost, D!Running
  <1> QED
    BY <1>3, <1>4, <1>5 DEF PreviewInv

\* The stream that arrives takes the place of none that still runs.
LEMMA ShownInv ==
    ASSUME D!PreviewAssumption, D!TypeOK, PreviewInv, NEW s \in D!Starts, D!Shown(s)
    PROVE  PreviewInv'
  <1>1. s \in D!Waiting /\ dPreview = "starting" /\ \A r \in D!Waiting : r = s
    BY DEF D!Shown, PreviewInv, OneAtATime
  <1>2. dPhase'[s] = "running" /\ \A r \in D!Starts \ {s} : dPhase'[r] = dPhase[r]
    BY DEF D!Shown, D!TypeOK
  <1>3. D!Waiting' = {}
    BY <1>1, <1>2 DEF D!Shown, D!Waiting
  <1>4. dPreview' \in {"live", "error"} /\ dHeld' = s /\ (dPreview' = "error" => s \in dMarred')
    BY DEF D!Shown
  <1>5. OneAtATime' /\ AskedAsStored'
    BY <1>3, <1>4 DEF OneAtATime, AskedAsStored
  <1>6. LeftWereMade'
    BY <1>2 DEF D!Shown, PreviewInv, LeftWereMade, D!TypeOK
  <1>7. HeldWhileLive'
    BY <1>1, <1>4 DEF D!Shown, PreviewInv, HeldWhileLive
  <1>8. dHeld = None \/ dHeld \in dMarred
    BY <1>1 DEF PreviewInv, HeldWhileLive
  <1>9. dMarred \subseteq dMarred' /\ dLeft' = dLeft
    BY DEF D!Shown
  <1>10. None \notin D!Starts
    BY DEF D!PreviewAssumption, D!Starts
  <1>11. D!NoCameraLost'
    BY <1>2, <1>4, <1>8, <1>9, <1>10 DEF PreviewInv, D!NoCameraLost, D!Running
  <1>12. D!PreviewFollows'
    BY <1>1, <1>4 DEF D!Shown, PreviewInv, AskedAsStored, D!PreviewFollows
  <1> QED
    BY <1>5, <1>6, <1>7, <1>11, <1>12 DEF PreviewInv

LEMMA AnsweredTooLateInv ==
    ASSUME D!PreviewAssumption, D!TypeOK, PreviewInv, NEW s \in D!Starts, D!AnsweredTooLate(s)
    PROVE  PreviewInv'
  <1>1. dPhase'[s] = "running" /\ \A r \in D!Starts \ {s} : dPhase'[r] = dPhase[r]
    BY DEF D!AnsweredTooLate, D!TypeOK
  <1>2. D!Waiting' = D!Waiting
    BY <1>1 DEF D!AnsweredTooLate, D!Waiting
  <1>3. OneAtATime' /\ HeldWhileLive' /\ AskedAsStored' /\ D!PreviewFollows'
    BY <1>2 DEF D!AnsweredTooLate, D!section, PreviewInv, OneAtATime, HeldWhileLive,
                AskedAsStored, D!PreviewFollows
  <1>4. LeftWereMade' /\ D!NoCameraLost'
    BY <1>1 DEF D!AnsweredTooLate, D!section, PreviewInv, LeftWereMade, D!NoCameraLost,
       D!Running, D!TypeOK
  <1> QED
    BY <1>3, <1>4 DEF PreviewInv

LEMMA RefusedInv ==
    ASSUME D!PreviewAssumption, D!TypeOK, PreviewInv, NEW s \in D!Starts, D!Refused(s)
    PROVE  PreviewInv'
  <1>1. dPhase'[s] = "over" /\ \A r \in D!Starts \ {s} : dPhase'[r] = dPhase[r]
    BY DEF D!Refused, D!TypeOK
  <1>2. D!Waiting' = D!Waiting \ {s}
    BY <1>1 DEF D!Refused, D!Waiting
  <1>3. LeftWereMade' /\ D!NoCameraLost' /\ AskedAsStored'
    BY <1>1, <1>2 DEF D!Refused, PreviewInv, LeftWereMade, D!NoCameraLost, D!Running,
                      AskedAsStored, D!TypeOK
  <1>4. CASE s \in dLeft
    <2>1. D!Waiting' = D!Waiting /\ dPreview' = dPreview
      BY <1>2, <1>4 DEF D!Refused, D!Waiting
    <2>2. OneAtATime' /\ HeldWhileLive' /\ D!PreviewFollows'
      BY <2>1 DEF D!Refused, PreviewInv, OneAtATime, HeldWhileLive, D!PreviewFollows
    <2> QED
      BY <1>3, <2>2 DEF PreviewInv
  <1>5. CASE s \notin dLeft
    <2>1. s \in D!Waiting /\ dPreview = "starting" /\ dPreview' = "error"
      BY <1>5 DEF D!Refused, D!Waiting, PreviewInv, OneAtATime
    <2>2. D!Waiting' = {}
      BY <1>2, <2>1 DEF PreviewInv, OneAtATime
    <2>3. OneAtATime' /\ HeldWhileLive' /\ D!PreviewFollows'
      BY <2>1, <2>2 DEF D!Refused, PreviewInv, OneAtATime, HeldWhileLive, D!PreviewFollows
    <2> QED
      BY <1>3, <2>3 DEF PreviewInv
  <1> QED
    BY <1>4, <1>5

LEMMA EndedInv ==
    ASSUME D!PreviewAssumption, D!TypeOK, PreviewInv, NEW s \in D!Starts, D!Ended(s)
    PROVE  PreviewInv'
  <1>1. dPhase'[s] = "over" /\ \A r \in D!Starts \ {s} : dPhase'[r] = dPhase[r]
    BY DEF D!Ended, D!TypeOK
  <1>2. D!Waiting' = D!Waiting
    BY <1>1 DEF D!Ended, D!Waiting, D!Running
  <1>3. OneAtATime' /\ HeldWhileLive' /\ AskedAsStored' /\ D!PreviewFollows'
    BY <1>2 DEF D!Ended, D!section, PreviewInv, OneAtATime, HeldWhileLive,
                AskedAsStored, D!PreviewFollows
  <1>4. LeftWereMade' /\ D!NoCameraLost'
    BY <1>1 DEF D!Ended, D!section, PreviewInv, LeftWereMade, D!NoCameraLost, D!Running, D!TypeOK
  <1> QED
    BY <1>3, <1>4 DEF PreviewInv

\* A preference changes: starts that wait are overtaken, a live preview has its
\* restart due or cancelled.
LEMMA ChooseInv ==
    ASSUME D!PreviewAssumption, D!TypeOK, PreviewInv, NEW p \in Preferences, D!Choose(p)
    PROVE  PreviewInv'
  <1>1. D!Waiting' = D!Waiting
    BY DEF D!Choose, D!Waiting
  <1>2. OneAtATime' /\ LeftWereMade' /\ D!NoCameraLost'
    BY <1>1 DEF D!Choose, PreviewInv, OneAtATime, LeftWereMade, D!NoCameraLost, D!Running
  <1>3. HeldWhileLive'
    BY DEF D!Choose, D!RestartDue, PreviewInv, HeldWhileLive
  <1>4. AskedAsStored'
    BY <1>1 DEF D!Choose, AskedAsStored
  <1>5. D!PreviewFollows'
    BY DEF D!Choose, D!RestartDue, D!PreviewFollows
  <1> QED
    BY <1>2, <1>3, <1>4, <1>5 DEF PreviewInv

LEMMA OpenInv == PreviewInv /\ D!Open => PreviewInv'
  BY DEF D!Open, D!streams, PreviewInv, OneAtATime, HeldWhileLive, LeftWereMade, D!NoCameraLost,
         AskedAsStored, D!PreviewFollows, D!Waiting, D!Running

LEMMA CloseInv == D!PreviewAssumption /\ D!TypeOK /\ PreviewInv /\ D!Close => PreviewInv'
  <1> SUFFICES ASSUME D!PreviewAssumption, D!TypeOK, PreviewInv, D!Close PROVE PreviewInv'
    OBVIOUS
  <1>1. \A s \in D!Starts : dPhase'[s] = IF s = dHeld THEN "over" ELSE dPhase[s]
    BY StoppedPhase DEF D!Close, D!CleanedUp
  <1>2. D!Waiting' = {}
    BY <1>1 DEF D!Close, D!Waiting
  <1>3. OneAtATime' /\ AskedAsStored' /\ HeldWhileLive' /\ D!PreviewFollows'
    BY <1>2 DEF D!Close, OneAtATime, AskedAsStored, HeldWhileLive, D!PreviewFollows
  <1>4. LeftWereMade'
    BY <1>1 DEF D!Close, D!Waiting, PreviewInv, LeftWereMade, D!TypeOK
  <1>5. D!NoCameraLost'
    BY <1>1 DEF D!Close, PreviewInv, D!NoCameraLost, D!Running
  <1> QED
    BY <1>3, <1>4, <1>5 DEF PreviewInv

LEMMA PreviewInvInit == D!PreviewAssumption /\ D!Init => PreviewInv
  <1> SUFFICES ASSUME D!PreviewAssumption, D!Init PROVE PreviewInv
    OBVIOUS
  <1>1. D!Waiting = {} /\ D!Running = {} /\ dLeft = {} /\ dPreview = "idle" /\ ~dFrame
    BY DEF D!Init, D!Waiting, D!Running
  <1> QED
    BY <1>1 DEF D!Init, PreviewInv, OneAtATime, HeldWhileLive, LeftWereMade, D!NoCameraLost,
                AskedAsStored, D!PreviewFollows

LEMMA PreviewInvStep == D!PreviewAssumption /\ D!TypeOK /\ PreviewInv /\ [D!Next]_D!vars
=> PreviewInv'
  <1> SUFFICES ASSUME D!PreviewAssumption, D!TypeOK, PreviewInv, [D!Next]_D!vars PROVE PreviewInv'
    OBVIOUS
  <1>1. CASE UNCHANGED D!vars
    BY <1>1 DEF D!vars, D!section, D!streams, PreviewInv, OneAtATime, HeldWhileLive, LeftWereMade,
                D!NoCameraLost, AskedAsStored, D!PreviewFollows, D!Waiting, D!Running
  <1> QED
    BY <1>1, ClickStartInv, ClickStopInv, RestartInv, ShownInv, AnsweredTooLateInv, RefusedInv,
       EndedInv, ChooseInv, OpenInv, CloseInv DEF D!Next

\* A running camera is held by the open section, unless getUserMedia answered
\* after the section was closed or the audio graph refused the stream
\* (AudioVideoSection.tsx, startPreview and stopPreview).
THEOREM CameraKept == D!Spec => []NoCameraLost
  <1>1. PreviewInv => D!NoCameraLost
    BY DEF PreviewInv
  <1> QED
    BY <1>1, PreviewTypeInit, PreviewTypeStep, PreviewInvInit, PreviewInvStep, Assumed, PTL
       DEF D!Spec, NoCameraLost

\* A live preview shows the stored preferences or has its restart due, unless a
\* preference was changed while the camera was asked for or the restart was
\* cancelled by a second change.
THEOREM PreviewUpToDate == D!Spec => []D!PreviewFollows
  <1>1. PreviewInv => D!PreviewFollows
    BY DEF PreviewInv
  <1> QED
    BY <1>1, PreviewTypeInit, PreviewTypeStep, PreviewInvInit, PreviewInvStep, Assumed, PTL
       DEF D!Spec

\* The Start button is disabled exactly while one start of the section is under way.
THEOREM StartReturns == D!Spec => []D!StartComesBack
  <1>1. PreviewInv => D!StartComesBack
    <2>0. D!Cardinality(D!Waiting) = Cardinality(D!Waiting)
      BY DEF D!Cardinality, Cardinality
    <2> SUFFICES ASSUME PreviewInv PROVE Cardinality(D!Waiting) <= 1
      BY <2>0 DEF PreviewInv, OneAtATime, D!StartComesBack
    <2>1. CASE D!Waiting = {}
      BY <2>1, FS_EmptySet
    <2>2. CASE D!Waiting # {}
      <3>1. PICK s \in D!Waiting : D!Waiting = {s}
        BY <2>2 DEF PreviewInv, OneAtATime
      <3>2. Cardinality(D!Waiting) = 1
        BY <3>1, FS_Singleton
      <3> QED
        BY <3>2
    <2> QED
      BY <2>1, <2>2
  <1> QED
    BY <1>1, PreviewTypeInit, PreviewTypeStep, PreviewInvInit, PreviewInvStep, Assumed, PTL
       DEF D!Spec

-----------------------------------------------------------------------------
(***************************************************************************)
(* GroupChat: key packages can be opened, everybody can join, and who is   *)
(* confirmed has joined.                                                   *)
(***************************************************************************)
\* In the files, and in the state in memory if there is one.
Has(u, c) == c \in gDisk[u].mapping /\ (gMls[u] # None => c \in gMls[u].mapping)
Opens(u, p) == p \in gDisk[u].private /\ (gMls[u] # None => p \in gMls[u].private)

\* Rows of the queue, before, in and after it.
IsRow(w) == \/ w \in gQueue
            \/ \E u \in Members : w \in gHanded[u] \/ w \in gMake[u].claimed
ChatRow(w, v, c) == w.to = v /\ w.chat = c /\ w.package # 0

\* A launch works on a state in memory, and uploads what it has made.
Launching ==
    \A u \in Members :
        /\ gApp[u] \in {"first", "firstpost", "delete", "check", "upload", "post", "welcomes",
               "joining"}
             => gMls[u] # None
        /\ gBatch[u] # {} => gApp[u] \in {"post", "firstpost"}

\* A package is on its way to the server, on the server or in one row.
PackagesNumbered ==
    /\ \A u \in Members : gPackages[u] \cap gBatch[u] = {}
    /\ \A u \in Members : \A p \in gPackages[u] \cup gBatch[u] : p <= gMade[u]
    /\ \A w : IsRow(w) => w.package <= gMade[w.to]
           /\ w.package \notin gPackages[w.to] \cup gBatch[w.to]
    /\ \A w, x : IsRow(w) /\ IsRow(x) /\ w.to = x.to /\ w.package = x.package /\ w.package # 0
           => w = x

\* What is uploaded can be opened, in whatever state the device goes on.
PackagesKept ==
    /\ gReplaced \subseteq gMarred
    /\ \A u \in Members \ gReplaced : \A p \in gPackages[u] \cup gBatch[u] : Opens(u, p)

\* A welcome can be opened, if it is still needed.
WelcomesOpen ==
    \A w : IsRow(w) /\ w.package # 0 =>
        w.to \in gMarred \/ Has(w.to, w.chat) \/ Opens(w.to, w.package)

HandedToOwner == \A u \in Members : \A w \in gHanded[u] : w.to = u

\* Nobody knows of a chat's group before it is built.
Lacks(u, c) == c \notin gDisk[u].mapping /\ (gMls[u] # None => c \notin gMls[u].mapping)
Untouched(c) ==
    /\ \A u \in Members : /\ Lacks(u, c) /\ c \notin gBackup[u].mapping
                          /\ \A w \in gHanded[u] : w.chat # c
    /\ \A w \in gQueue : w.chat # c
    /\ \A e \in gConfirmed : e.chat # c
    /\ c \notin gSucceeded
Fresh ==
    /\ \A c \in G!Chats : gMembers[c] = {} => Untouched(c)
    /\ \A u \in Members : gMake[u].at \in {"claim", "build"} => Untouched(gMake[u].chat)

\* Each chat has one maker, who works on rows for its other members.
InChat == {"claim", "build", "register", "welcome"}
OneMaker ==
    /\ \A u \in Members : gMake[u].at \in InChat =>
          /\ gMake[u].chat \in G!Chats /\ u \in gMembers[gMake[u].chat]
          /\ \A w \in gMake[u].claimed : w.chat = gMake[u].chat /\ w.to # u
          /\ gMake[u].at # "claim" => gMake[u].todo = {}
    /\ \A u \in Members : gMake[u].at \notin InChat => gMake[u].claimed = {}
    /\ \A u \in Members : u \notin gMake[u].todo
    /\ \A u, v \in Members :
          gMake[u].at \in InChat /\ gMake[v].at \in InChat /\ gMake[u].chat = gMake[v].chat => u = v

\* Every member of a chat being made is provided for.
Provided ==
    \A u \in Members : gMake[u].at \in InChat =>
        LET c == gMake[u].chat IN
        /\ gMake[u].at \in {"register", "welcome"} => Has(u, c)
        /\ \A v \in gMembers[c] \ {u} :
              \/ v \in gMake[u].todo \/ v \in gMarred \/ Has(v, c)
              \/ \E w \in gMake[u].claimed \cup gQueue \cup gHanded[v] : ChatRow(w, v, c)
        /\ \A v \in gMembers[c] \ ({u} \cup gMarred) :
              gMls[v] # None /\ c \in gMls[v].mapping => c \in gDisk[v].mapping

\* Only its maker can have a group in memory that is not in the files.
RowsSaved ==
    \A w : IsRow(w) /\ w.to \notin gMarred /\ gMls[w.to] # None /\ w.chat \in gMls[w.to].mapping
        => w.chat \in gDisk[w.to].mapping

Joined ==
    \A c \in gSucceeded : \A v \in gMembers[c] \ gMarred :
        Has(v, c) \/ \E w \in gQueue \cup gHanded[v] : ChatRow(w, v, c)

Confirmed == \A e \in gConfirmed : e.user \in gMarred \/ Has(e.user, e.chat)

GroupInv ==
    /\ G!TypeOK /\ Launching /\ PackagesNumbered /\ PackagesKept /\ WelcomesOpen /\ HandedToOwner
    /\ Fresh /\ OneMaker /\ Provided /\ RowsSaved /\ Joined /\ Confirmed

(***************************************************************************)
(* Types                                                                   *)
(***************************************************************************)
MakeState == [at : G!Stages, chat : G!Chats \cup {0}, todo : SUBSET Members,
claimed : SUBSET G!WelcomeRows]

LEMMA GroupTypeInit == G!GroupChatAssumption /\ G!Init => G!TypeOK
  <1> SUFFICES ASSUME G!GroupChatAssumption, G!Init PROVE G!TypeOK
    OBVIOUS
  <1>1. G!Idle \in MakeState
    BY DEF G!Idle, MakeState, G!Stages
  <1>2. G!NoFiles \in G!Files
    BY DEF G!NoFiles, G!Files
  <1>3. gMake \in [Members -> MakeState] /\ gDisk \in [Members -> G!Files]
        /\ gBackup \in [Members -> G!Files]
    BY <1>1, <1>2 DEF G!Init
  <1>4. /\ gPackages \in [Members -> SUBSET G!Packages] /\ gMembers \in [G!Chats -> SUBSET Members]
        /\ gApp \in [Members -> G!Apps] /\ gMls \in [Members -> G!Memories \cup {None}]
        /\ gBatch \in [Members -> SUBSET G!Packages] /\ gMade \in [Members -> Nat]
        /\ gHanded \in [Members -> SUBSET G!WelcomeRows]
    BY DEF G!Init, G!Apps, G!SignUp
  <1> QED
    BY <1>3, <1>4 DEF G!Init, G!TypeOK, MakeState

\* What an action gives its user, typed.
LEMMA MakingTyped ==
    ASSUME G!TypeOK, NEW u \in Members,
           \/ G!GivesUp(u)
           \/ \E at \in G!Stages, chat \in G!Chats \cup {0}, todo \in SUBSET Members,
                 claimed \in SUBSET G!WelcomeRows : G!Making(u, at, chat, todo, claimed)
    PROVE  gMake' \in [Members -> MakeState]
  <1>1. gMake \in [Members -> MakeState]
    BY DEF G!TypeOK, MakeState
  <1>2. G!Idle \in MakeState
    BY DEF G!Idle, MakeState, G!Stages
  <1>3. CASE G!GivesUp(u)
    BY <1>1, <1>2, <1>3 DEF G!GivesUp
  <1>4. CASE \E at \in G!Stages, chat \in G!Chats \cup {0}, todo \in SUBSET Members,
                claimed \in SUBSET G!WelcomeRows : G!Making(u, at, chat, todo, claimed)
    <2>1. PICK m \in MakeState : gMake' = [gMake EXCEPT ![u] = m]
      BY <1>4 DEF G!Making, MakeState
    <2> QED
      BY <1>1, <2>1
  <1> QED
    BY <1>3, <1>4

LEMMA AppTyped ==
    ASSUME G!TypeOK, NEW u \in Members, NEW stage \in G!Apps, G!Goes(u, stage)
    PROVE  gApp' \in [Members -> G!Apps]
  BY DEF G!TypeOK, G!Goes

\* A failing step of a launch.
LEMMA FailsAtTyped ==
    ASSUME G!TypeOK, NEW u \in Members, G!FailsAt(u)
    PROVE  gApp' \in [Members -> G!Apps] /\ gFaults' \in Nat
  <1>1. "off" \in G!Apps /\ "up" \in G!Apps
    BY DEF G!Apps
  <1>2. gFaults' \in Nat
    BY DEF G!FailsAt, G!Fault, G!TypeOK
  <1>3. G!Goes(u, "off") \/ G!Goes(u, "up")
    BY DEF G!FailsAt, G!Goes
  <1>4. gApp' \in [Members -> G!Apps]
    BY <1>1, <1>3, AppTyped
  <1> QED
    BY <1>2, <1>4

LEMMA HoldsTyped ==
    ASSUME G!TypeOK, NEW u \in Members, NEW private \in SUBSET G!Packages,
           NEW mapping \in SUBSET G!Chats
    PROVE  /\ G!Holds(u, private, mapping) => gMls' \in [Members -> G!Memories \cup {None}]
           /\ G!Saved(u, private, mapping) \in [Members -> G!Files]
           /\ G!HalfSaved(u, private) => gDisk' \in [Members -> G!Files]
  <1>1. PICK m : m = [private |-> private, mapping |-> mapping]
    OBVIOUS
  <1>2. m \in G!Memories
    BY <1>1 DEF G!Memories
  <1>3. G!Holds(u, private, mapping) => gMls' \in [Members -> G!Memories \cup {None}]
    BY <1>1, <1>2 DEF G!Holds, G!TypeOK
  <1>4. [private |-> private, mapping |-> mapping, signed |-> TRUE] \in G!Files
    BY DEF G!Files
  <1>5. G!Saved(u, private, mapping) \in [Members -> G!Files]
    BY <1>4 DEF G!Saved, G!TypeOK
  <1>6. gDisk \in [Members -> G!Files] /\ gDisk[u] \in G!Files
    BY DEF G!TypeOK
  <1>7. [gDisk[u] EXCEPT !.private = private] \in G!Files
    BY <1>6 DEF G!Files
  <1>8. [gDisk EXCEPT ![u].private = private] \in [Members -> G!Files]
    BY <1>6, <1>7
  <1>9. G!HalfSaved(u, private) => gDisk' \in [Members -> G!Files]
    BY <1>6, <1>8 DEF G!HalfSaved
  <1> QED
    BY <1>3, <1>5, <1>9

LEMMA Faulty == ASSUME G!TypeOK PROVE G!Fault => gFaults' \in Nat
  BY DEF G!Fault, G!TypeOK

LEMMA GroupTypeStep ==
    ASSUME G!GroupChatAssumption, G!TypeOK, Launching, OneMaker, [G!Next]_G!vars
    PROVE  G!TypeOK'
  <1> USE DEF G!TypeOK, G!serverVars, G!deviceVars, G!historyVars
  <1>1. SUFFICES ASSUME NEW u \in Members,
                        \/ G!LaunchStep(u) \/ G!CreateStep(u)
                        \/ G!FetchWelcomes(u)
                        \/ \E w \in gHanded[u] : G!HandleRow(u, w)
                        \/ G!Stop(u) \/ G!BackUp(u) \/ G!Replace(u)
                 PROVE  G!TypeOK'
    BY DEF G!Next, G!vars
  <1>2. CASE G!Open(u)
    <2>1. gApp' \in [Members -> G!Apps]
      BY <1>2, AppTyped DEF G!Open, G!Apps, G!SignUp
    <2> QED
      BY <1>2, <2>1 DEF G!Open
  <1>3. CASE G!MlsInit(u)
    <2>1. gDisk[u].private \in SUBSET G!Packages /\ gDisk[u].mapping \in SUBSET G!Chats
      BY DEF G!Files
    <2>2. CASE G!FailsAt(u) /\ UNCHANGED gMls
      BY <1>3, <2>2, FailsAtTyped DEF G!MlsInit
    <2>3. CASE G!Holds(u, gDisk[u].private, gDisk[u].mapping) /\ UNCHANGED gFaults
      <3>1. gApp' \in [Members -> G!Apps]
        BY <1>3, <2>3, AppTyped DEF G!MlsInit, G!FailsAt, G!Fault, G!Apps, G!SignUp
      <3> QED
        BY <1>3, <2>1, <2>3, <3>1, HoldsTyped DEF G!MlsInit
    <2> QED
      BY <1>3, <2>2, <2>3 DEF G!MlsInit
  <1>4. CASE G!DeleteKeyPackages(u)
    <2>1. gApp' \in [Members -> G!Apps]
      BY <1>4, AppTyped DEF G!DeleteKeyPackages, G!Apps
    <2>2. gPackages' \in [Members -> SUBSET G!Packages]
      BY <1>4 DEF G!DeleteKeyPackages, G!Deleted, G!Lost
    <2>3. gFaults' \in Nat
      BY <1>4, Faulty DEF G!DeleteKeyPackages, G!Lost
    <2> QED
      BY <1>4, <2>1, <2>2, <2>3 DEF G!DeleteKeyPackages
  <1>5. CASE G!CheckKeyPackages(u)
    <2>1. CASE G!FailsAt(u)
      BY <1>5, <2>1, FailsAtTyped DEF G!CheckKeyPackages
    <2>2. CASE (G!Goes(u, "upload") \/ G!Goes(u, "welcomes")) /\ UNCHANGED gFaults
      <3>1. gApp' \in [Members -> G!Apps]
        BY <2>2, AppTyped DEF G!Apps
      <3> QED
        BY <1>5, <2>2, <3>1 DEF G!CheckKeyPackages
    <2> QED
      BY <1>5, <2>1, <2>2 DEF G!CheckKeyPackages
  <1>6. CASE G!MakeKeyPackages(u)
    <2> DEFINE new == gMade[u] + 1 .. gMade[u] + Batch
    <2>1. new \subseteq G!Packages
      BY DEF G!GroupChatAssumption, G!Packages
    <2>2. gMls[u] \in G!Memories
      BY <1>6 DEF G!MakeKeyPackages, Launching
    <2>3. gMls[u].private \cup new \in SUBSET G!Packages /\ gMls[u].mapping \in SUBSET G!Chats
      BY <2>1, <2>2 DEF G!Memories
    <2>4. gMade' \in [Members -> Nat]
      BY <1>6 DEF G!MakeKeyPackages, G!GroupChatAssumption
    <2>5. gMls' \in [Members -> G!Memories \cup {None}]
      BY <1>6, <2>3, HoldsTyped DEF G!MakeKeyPackages
    <2> HIDE DEF new
    <2>6. CASE /\ gDisk' = G!Saved(u, gMls[u].private \cup new, gMls[u].mapping)
               /\ gBatch' = [gBatch EXCEPT ![u] = new]
               /\ G!Goes(u, IF gApp[u] = "first" THEN "firstpost" ELSE "post")
               /\ UNCHANGED gFaults
      <3>1. gApp' \in [Members -> G!Apps]
        BY <2>6, AppTyped DEF G!Apps, G!SignUp
      <3>2. gDisk' \in [Members -> G!Files] /\ gBatch' \in [Members -> SUBSET G!Packages]
        BY <2>1, <2>3, <2>6, HoldsTyped
      <3> QED
        BY <1>6, <2>4, <2>5, <2>6, <3>1, <3>2 DEF G!MakeKeyPackages
    <2>7. CASE G!HalfSaved(u, gMls[u].private \cup new) /\ G!FailsAt(u) /\ UNCHANGED gBatch
      <3>1. gDisk' \in [Members -> G!Files]
        BY <2>3, <2>7, HoldsTyped
      <3> QED
        BY <1>6, <2>4, <2>5, <2>7, <3>1, FailsAtTyped DEF G!MakeKeyPackages
    <2> QED
      BY <1>6, <2>6, <2>7 DEF G!MakeKeyPackages, new
  <1>7. CASE G!PostKeyPackages(u)
    <2>1. gPackages' \in [Members -> SUBSET G!Packages]
          /\ gBatch' \in [Members -> SUBSET G!Packages]
      BY <1>7 DEF G!PostKeyPackages
    <2>2. CASE G!FailsAt(u)
      BY <1>7, <2>1, <2>2, FailsAtTyped DEF G!PostKeyPackages
    <2>3. CASE G!Goes(u, IF gApp[u] = "post" THEN "welcomes" ELSE "up") /\ UNCHANGED gFaults
      <3>1. gApp' \in [Members -> G!Apps]
        BY <2>3, AppTyped DEF G!Apps
      <3> QED
        BY <1>7, <2>1, <2>3, <3>1 DEF G!PostKeyPackages
    <2> QED
      BY <1>7, <2>2, <2>3 DEF G!PostKeyPackages
  <1>8. CASE G!Launched(u)
    <2>1. gApp' \in [Members -> G!Apps]
      BY <1>8, AppTyped DEF G!Launched, G!Apps
    <2> QED
      BY <1>8, <2>1 DEF G!Launched
  <1>9. CASE G!Stop(u) \/ G!Replace(u)
    <2>1. G!Halt(u)
      BY <1>9 DEF G!Stop, G!Replace
    <2>2. gApp' \in [Members -> G!Apps] /\ gFaults' \in Nat
      BY <2>1, AppTyped, Faulty DEF G!Halt, G!Apps
    <2>3. gMake' \in [Members -> MakeState]
      BY <2>1, MakingTyped DEF G!Halt, G!GivesUp
    <2>4. G!NoFiles \in G!Files
      BY DEF G!NoFiles, G!Files
    <2>5. gDisk' \in [Members -> G!Files] /\ gMarred' \subseteq Members
          /\ gReplaced' \subseteq Members
      BY <1>9, <2>4 DEF G!Stop, G!Replace
    <2>6. /\ gMls' \in [Members -> G!Memories \cup {None}]
                 /\ gBatch' \in [Members -> SUBSET G!Packages]
          /\ gHanded' \in [Members -> SUBSET G!WelcomeRows]
      BY <2>1 DEF G!Halt
    <2> QED
      BY <2>1, <2>2, <2>3, <2>5, <2>6 DEF G!Halt, MakeState
  <1>10. CASE G!BackUp(u)
    BY <1>10 DEF G!BackUp
  <1>11. CASE \E others \in SUBSET Members : G!Begin(u, others)
    <2>1. gMake' \in [Members -> MakeState]
      BY <1>11, MakingTyped DEF G!Begin, G!Stages
    <2> QED
      BY <1>11, <2>1 DEF G!Begin, MakeState
  <1>12. CASE G!CreateConversation(u)
    <2>1. gMake[u].todo \in SUBSET Members
      OBVIOUS
    <2>2. gMake' \in [Members -> MakeState]
      BY <1>12, <2>1, MakingTyped DEF G!CreateConversation, G!Stages
    <2>3. gMembers' \in [G!Chats -> SUBSET Members]
      BY <1>12, <2>1 DEF G!CreateConversation, G!Lost
    <2>4. gFaults' \in Nat
      BY <1>12, Faulty DEF G!CreateConversation, G!Lost
    <2> QED
      BY <1>12, <2>2, <2>3, <2>4 DEF G!CreateConversation, MakeState
  <1>13. CASE \E v \in gMake[u].todo : G!ClaimKeyPackage(u, v)
    <2>1. PICK v \in gMake[u].todo : G!ClaimKeyPackage(u, v)
      BY <1>13
    <2>2. gMake[u].todo \in SUBSET Members /\ gMake[u].claimed \in SUBSET G!WelcomeRows
      OBVIOUS
    <2>3. gMake[u].chat \in G!Chats
      BY <2>1 DEF OneMaker, InChat, G!ClaimKeyPackage
    <2>4. \A p \in gPackages[v] : [to |-> v, chat |-> gMake[u].chat,
          package |-> p] \in G!WelcomeRows
      BY <2>2, <2>3 DEF G!WelcomeRows, G!Packages
    <2>5. gMake' \in [Members -> MakeState]
      <3>1. CASE G!GivesUp(u)
        BY <3>1, MakingTyped
      <3>2. CASE ~G!GivesUp(u)
        <4>1. PICK p \in G!Oldest(v) :
                 G!Making(u, IF gMake[u].todo \ {v} = {} THEN "build" ELSE "claim", gMake[u].chat,
                          gMake[u].todo \ {v},
                          gMake[u].claimed \cup {[to |-> v, chat |-> gMake[u].chat, package |-> p]})
          BY <2>1, <3>2 DEF G!ClaimKeyPackage
        <4>2. gMake[u].claimed \cup {[to |-> v, chat |-> gMake[u].chat,
              package |-> p]} \in SUBSET G!WelcomeRows
          BY <2>2, <2>4 DEF G!Oldest
        <4>3. (IF gMake[u].todo \ {v} = {} THEN "build" ELSE "claim") \in G!Stages
          BY DEF G!Stages
        <4>4. gMake[u].todo \ {v} \in SUBSET Members
          OBVIOUS
        <4> QED
          BY <2>3, <4>1, <4>2, <4>3, <4>4, MakingTyped
      <3> QED
        BY <3>1, <3>2
    <2>6. gPackages' \in [Members -> SUBSET G!Packages]
      <3>1. gPackages' = gPackages \/ \E p \in G!Oldest(v) : gPackages' = G!Claimed(v, p)
        BY <2>1 DEF G!ClaimKeyPackage, G!Lost
      <3> QED
        BY <2>2, <3>1 DEF G!Claimed
    <2>7. gFaults' \in Nat
      BY <2>1, Faulty DEF G!ClaimKeyPackage, G!Lost
    <2> QED
      BY <2>1, <2>5, <2>6, <2>7 DEF G!ClaimKeyPackage, MakeState
  <1>14. CASE G!BuildGroup(u)
    <2>1. gMake[u].chat \in G!Chats /\ gMake[u].claimed \in SUBSET G!WelcomeRows
      BY <1>14 DEF G!BuildGroup, OneMaker, InChat
    <2>2. gMake' \in [Members -> MakeState]
      BY <1>14, <2>1, MakingTyped DEF G!BuildGroup, G!Stages
    <2>3. CASE gMls[u] = None
      BY <1>14, <2>2, <2>3 DEF G!BuildGroup, MakeState
    <2>4. CASE gMls[u] # None
      <3>1. gMls[u].private \in SUBSET G!Packages
            /\ gMls[u].mapping \cup {gMake[u].chat} \in SUBSET G!Chats
        BY <2>1, <2>4 DEF G!Memories
      <3>2. gMls' \in [Members -> G!Memories \cup {None}]
        BY <1>14, <2>4, <3>1, HoldsTyped DEF G!BuildGroup
      <3>3. gDisk' \in [Members -> G!Files] /\ gFaults' \in Nat
        <4>1. \/ /\ gDisk' = G!Saved(u, gMls[u].private, gMls[u].mapping \cup {gMake[u].chat})
                 /\ UNCHANGED gFaults
              \/ G!HalfSaved(u, gMls[u].private) /\ G!Fault
          BY <1>14, <2>4 DEF G!BuildGroup, G!SaveFails
        <4>2. /\ G!Saved(u, gMls[u].private,
                     gMls[u].mapping \cup {gMake[u].chat}) \in [Members -> G!Files]
              /\ G!HalfSaved(u, gMls[u].private) => gDisk' \in [Members -> G!Files]
          BY <3>1, HoldsTyped
        <4> QED
          BY <4>1, <4>2, Faulty
      <3> QED
        BY <1>14, <2>2, <2>4, <3>2, <3>3 DEF G!BuildGroup, MakeState
    <2> QED
      BY <2>3, <2>4
  <1>15. CASE G!RegisterGroup(u)
    <2>1. gMake[u].chat \in G!Chats /\ gMake[u].claimed \in SUBSET G!WelcomeRows
      BY <1>15 DEF G!RegisterGroup, OneMaker, InChat
    <2>2. gMake' \in [Members -> MakeState]
      BY <1>15, <2>1, MakingTyped DEF G!RegisterGroup, G!Stages
    <2>3. gFaults' \in Nat
      BY <1>15, Faulty DEF G!RegisterGroup, G!Lost
    <2>4. [chat |-> gMake[u].chat, user |-> u] \in [chat : G!Chats, user : Members]
      BY <2>1
    <2>5. gRegistered' \subseteq G!Chats /\ gConfirmed' \subseteq [chat : G!Chats, user : Members]
      BY <1>15, <2>1, <2>4 DEF G!RegisterGroup, G!Lost
    <2> QED
      BY <1>15, <2>2, <2>3, <2>5 DEF G!RegisterGroup, MakeState
  <1>16. CASE G!StoreWelcome(u)
    <2>1. PICK w \in gMake[u].claimed :
             \/ /\ gQueue' = gQueue \cup {w}
                /\ G!Making(u, "welcome", w.chat, {}, gMake[u].claimed \ {w})
                /\ UNCHANGED gFaults
             \/ G!Lost(gQueue' = gQueue \cup {w}, UNCHANGED gQueue) /\ G!GivesUpOn(u, w)
      BY <1>16 DEF G!StoreWelcome
    <2>2. w \in G!WelcomeRows /\ w.chat \in G!Chats
          /\ gMake[u].claimed \ {w} \in SUBSET G!WelcomeRows
      BY DEF G!WelcomeRows
    <2>3. gMake' \in [Members -> MakeState]
      BY <2>1, <2>2, MakingTyped DEF G!GivesUpOn, G!Stages
    <2>4. gFaults' \in Nat /\ gQueue' \subseteq G!WelcomeRows
      BY <2>1, <2>2, Faulty DEF G!Lost
    <2> QED
      BY <1>16, <2>3, <2>4 DEF G!StoreWelcome, MakeState
  <1>17. CASE G!FanOutCommit(u)
    <2> DEFINE rows == [to : gMembers[gMake[u].chat] \ {u}, chat : {gMake[u].chat}, package : {0}]
    <2>1. gMake[u].chat \in G!Chats
      BY <1>17 DEF G!FanOutCommit, OneMaker, InChat
    <2>2. rows \subseteq G!WelcomeRows
      BY <2>1 DEF G!WelcomeRows
    <2>3. gMake' \in [Members -> MakeState]
      BY <1>17, MakingTyped DEF G!FanOutCommit
    <2> HIDE DEF rows
    <2>4. gQueue' \subseteq G!WelcomeRows /\ gSucceeded' \subseteq G!Chats
      BY <1>17, <2>1, <2>2 DEF G!FanOutCommit, rows
    <2>5. gFaults' \in Nat
      BY <1>17, Faulty DEF G!FanOutCommit
    <2> QED
      BY <1>17, <2>3, <2>4, <2>5 DEF G!FanOutCommit, MakeState
  <1>18. CASE G!FetchWelcomes(u)
    <2>1. gApp' \in [Members -> G!Apps]
      BY <1>18, AppTyped DEF G!FetchWelcomes, G!Apps
    <2>2. gHanded' \in [Members -> SUBSET G!WelcomeRows] /\ gQueue' \subseteq G!WelcomeRows
      BY <1>18 DEF G!FetchWelcomes
    <2>3. gFaults' \in Nat /\ gMarred' \subseteq Members
      BY <1>18, Faulty DEF G!FetchWelcomes
    <2> QED
      BY <1>18, <2>1, <2>2, <2>3 DEF G!FetchWelcomes
  <1>19. CASE \E w \in gHanded[u] : G!HandleRow(u, w)
    <2>1. PICK w \in gHanded[u] : G!HandleRow(u, w)
      BY <1>19
    <2>2. w \in G!WelcomeRows /\ w.chat \in G!Chats
      BY DEF G!WelcomeRows
    <2>3. [chat |-> w.chat, user |-> u] \in [chat : G!Chats, user : Members]
      BY <2>2
    <2>4. G!Acknowledge(u, w) => gConfirmed' \subseteq [chat : G!Chats, user : Members]
          /\ gFaults' \in Nat
      BY <2>3, Faulty DEF G!Acknowledge
    <2>5. gConfirmed' \subseteq [chat : G!Chats, user : Members] /\ gFaults' \in Nat
      BY <2>1, <2>4, Faulty DEF G!HandleRow, G!Logged, G!SaveFails
    <2>6. gHanded' \in [Members -> SUBSET G!WelcomeRows] /\ gMarred' \subseteq Members
      BY <2>1 DEF G!HandleRow
    <2>7. gMls' \in [Members -> G!Memories \cup {None}] /\ gDisk' \in [Members -> G!Files]
      <3>1. CASE UNCHANGED <<gMls, gDisk>>
        BY <3>1
      <3>2. CASE ~UNCHANGED <<gMls, gDisk>>
        <4>1. gMls[u] # None
          BY <2>1, <3>2 DEF G!HandleRow
        <4>2. gMls[u].private \ {w.package} \in SUBSET G!Packages
              /\ gMls[u].mapping \cup {w.chat} \in SUBSET G!Chats
          BY <2>2, <4>1 DEF G!Memories
        <4>3. /\ G!Holds(u, gMls[u].private \ {w.package}, gMls[u].mapping \cup {w.chat})
              /\ \/ gDisk' = G!Saved(u, gMls[u].private \ {w.package},
                        gMls[u].mapping \cup {w.chat})
                 \/ G!HalfSaved(u, gMls[u].private \ {w.package})
          BY <2>1, <3>2 DEF G!HandleRow, G!SaveFails
        <4>4. /\ G!Saved(u, gMls[u].private \ {w.package}, gMls[u].mapping \cup {w.chat})
                   \in [Members -> G!Files]
              /\ G!HalfSaved(u, gMls[u].private \ {w.package}) => gDisk' \in [Members -> G!Files]
              /\ gMls' \in [Members -> G!Memories \cup {None}]
          BY <4>2, <4>3, HoldsTyped
        <4> QED
          BY <4>3, <4>4
      <3> QED
        BY <3>1, <3>2
    <2> QED
      BY <2>1, <2>5, <2>6, <2>7 DEF G!HandleRow
  <1> QED
    BY <1>1, <1>2, <1>3, <1>4, <1>5, <1>6, <1>7, <1>8, <1>9, <1>10, <1>11, <1>12, <1>13, <1>14,
       <1>15, <1>16, <1>17, <1>18, <1>19 DEF G!LaunchStep, G!CreateStep

(***************************************************************************)
(* What an action leaves as it was                                         *)
(***************************************************************************)
InFiles(v, c) == gMls[v] # None /\ c \in gMls[v].mapping => c \in gDisk[v].mapping

NoNewRows == \A w : IsRow(w)' => IsRow(w)
MarredKept == gMarred \subseteq gMarred'
HasKept == \A v \in Members \ gMarred', c \in G!Chats : Has(v, c) => Has(v, c)'
FilesKept == \A v \in Members \ gMarred', c \in G!Chats :
    InFiles(v, c) => InFiles(v, c)' \/ (gMake[v].at = "build" /\ gMake[v].chat = c)
OpensKept == \A w : IsRow(w)' /\ w.package # 0 /\ w.to \notin gMarred' /\ Opens(w.to, w.package) =>
    Opens(w.to, w.package)' \/ Has(w.to, w.chat)'
\* A row that has gone has been used.
RowsLeft == \A v \in Members \ gMarred' : \A w \in gQueue \cup gHanded[v] :
    w.to = v /\ w.package # 0 => w \in gQueue' \cup gHanded'[v] \/ Has(v, w.chat)'
\* Fewer packages.
PackagesLeft == \A v \in Members :
    /\ gPackages'[v] \cup gBatch'[v] \subseteq gPackages[v] \cup gBatch[v]
    /\ gPackages'[v] \cap gBatch'[v] = {}
    /\ gMade'[v] = gMade[v]
\* A maker gives up, or goes on with the same chat.
MakersKept == \A v \in Members :
    \/ gMake'[v].at \notin InChat /\ gMake'[v].claimed = {} /\ v \notin gMake'[v].todo
    \/ /\ gMake[v].at \in InChat /\ gMake'[v].at \in InChat /\ gMake'[v].chat = gMake[v].chat
       /\ gMake'[v].todo \subseteq gMake[v].todo
       /\ gMake'[v].at # "claim" => gMake'[v].todo = {}
       /\ gMake'[v].at \in {"claim", "build"} => gMake[v].at \in {"claim", "build"}
       /\ \A w \in gMake'[v].claimed : w.chat = gMake[v].chat /\ w.to # v

LEMMA RowTyped == ASSUME G!TypeOK, NEW w, IsRow(w)
                  PROVE w \in G!WelcomeRows /\ w.to \in Members /\ w.chat \in G!Chats
  BY DEF G!TypeOK, IsRow, G!WelcomeRows

LEMMA NumberedKept ==
    ASSUME G!TypeOK', PackagesNumbered, NoNewRows, PackagesLeft
    PROVE  PackagesNumbered'
  <1>1. \A w : IsRow(w)' => IsRow(w) /\ w.to \in Members
    <2>1. \A w : IsRow(w)' => w.to \in Members
      BY DEF G!TypeOK, IsRow, G!WelcomeRows
    <2> QED
      BY <2>1 DEF NoNewRows
  <1>2. \A u \in Members : \A p \in gPackages'[u] \cup gBatch'[u] : p <= gMade'[u]
    BY DEF PackagesLeft, PackagesNumbered
  <1>3. \A u \in Members : gPackages'[u] \cap gBatch'[u] = {}
    BY DEF PackagesLeft
  <1>4. \A w : IsRow(w)' => w.package <= gMade'[w.to]
        /\ w.package \notin gPackages'[w.to] \cup gBatch'[w.to]
    BY <1>1 DEF PackagesLeft, PackagesNumbered
  <1>5. \A w, x : IsRow(w)' /\ IsRow(x)' /\ w.to = x.to /\ w.package = x.package
        /\ w.package # 0 => w = x
    BY <1>1 DEF PackagesNumbered
  <1> QED
    BY <1>2, <1>3, <1>4, <1>5 DEF PackagesNumbered

LEMMA PackagesKeptStay ==
    ASSUME PackagesKept, PackagesLeft, MarredKept, gReplaced' = gReplaced,
           \A v \in Members : \A p \in gPackages'[v] \cup gBatch'[v] : Opens(v, p) => Opens(v, p)'
    PROVE  PackagesKept'
  BY DEF PackagesKept, PackagesLeft, MarredKept

LEMMA WelcomesOpenStay ==
    ASSUME G!TypeOK, WelcomesOpen, NoNewRows, MarredKept, HasKept, OpensKept
    PROVE  WelcomesOpen'
  <1> SUFFICES ASSUME NEW w, IsRow(w)', w.package # 0, w.to \notin gMarred'
               PROVE  Has(w.to, w.chat)' \/ Opens(w.to, w.package)'
    BY DEF WelcomesOpen
  <1>1. IsRow(w) /\ w.to \in Members /\ w.chat \in G!Chats /\ w.to \notin gMarred
    BY RowTyped DEF NoNewRows, MarredKept
  <1>2. Has(w.to, w.chat) \/ Opens(w.to, w.package)
    BY <1>1 DEF WelcomesOpen
  <1> QED
    BY <1>1, <1>2 DEF HasKept, OpensKept

LEMMA OneMakerKept ==
    ASSUME OneMaker, MakersKept, gMembers' = gMembers
    PROVE  OneMaker'
  BY DEF OneMaker, MakersKept

LEMMA ConfirmedKept ==
    ASSUME G!TypeOK, Confirmed, gConfirmed' = gConfirmed, MarredKept, HasKept
    PROVE  Confirmed'
  BY DEF Confirmed, MarredKept, HasKept, G!TypeOK

LEMMA JoinedStay ==
    ASSUME G!TypeOK, Joined, MarredKept, HasKept, RowsLeft
    PROVE  \A c \in gSucceeded : \A v \in gMembers[c] \ gMarred' :
               Has(v, c)' \/ \E w \in gQueue' \cup gHanded'[v] : ChatRow(w, v, c)
  <1> SUFFICES ASSUME NEW c \in gSucceeded, NEW v \in gMembers[c], v \notin gMarred'
               PROVE  Has(v, c)' \/ \E w \in gQueue' \cup gHanded'[v] : ChatRow(w, v, c)
    OBVIOUS
  <1>1. c \in G!Chats /\ v \in Members /\ v \notin gMarred
    BY DEF G!TypeOK, MarredKept
  <1>2. Has(v, c) \/ \E w \in gQueue \cup gHanded[v] : ChatRow(w, v, c)
    BY <1>1 DEF Joined
  <1>3. CASE Has(v, c)
    BY <1>1, <1>3 DEF HasKept
  <1>4. CASE \E w \in gQueue \cup gHanded[v] : ChatRow(w, v, c)
    BY <1>1, <1>4 DEF RowsLeft, ChatRow
  <1> QED
    BY <1>2, <1>3, <1>4

LEMMA JoinedKept ==
    ASSUME G!TypeOK, Joined, gSucceeded' = gSucceeded,
           \A c \in gSucceeded : gMembers'[c] = gMembers[c],
           MarredKept, HasKept, RowsLeft
    PROVE  Joined'
  <1>1. \A c \in gSucceeded : \A v \in gMembers[c] \ gMarred' :
           Has(v, c)' \/ \E w \in gQueue' \cup gHanded'[v] : ChatRow(w, v, c)
    BY JoinedStay
  <1> QED
    BY <1>1 DEF Joined, ChatRow

LEMMA RowsSavedKept ==
    ASSUME G!TypeOK, RowsSaved, OneMaker, Fresh, NoNewRows, MarredKept, FilesKept
    PROVE  RowsSaved'
  <1> SUFFICES ASSUME NEW w, IsRow(w)', w.to \notin gMarred' PROVE InFiles(w.to, w.chat)'
    BY DEF RowsSaved, InFiles
  <1>1. IsRow(w) /\ w.to \in Members /\ w.chat \in G!Chats /\ w.to \notin gMarred
    BY RowTyped DEF NoNewRows, MarredKept
  <1>2. InFiles(w.to, w.chat)
    BY <1>1 DEF RowsSaved, InFiles
  <1>3. ~(gMake[w.to].at = "build" /\ gMake[w.to].chat = w.chat)
    <2>1. SUFFICES ASSUME gMake[w.to].at = "build", gMake[w.to].chat = w.chat PROVE FALSE
      OBVIOUS
    <2>2. Untouched(w.chat)
      BY <1>1, <2>1 DEF Fresh
    <2>3. PICK z \in Members : w \in gMake[z].claimed
      BY <1>1, <2>2 DEF Untouched, IsRow
    <2>4. gMake[z].at \in InChat /\ w.chat = gMake[z].chat /\ w.to # z
      BY <2>3 DEF OneMaker
    <2> QED
      BY <1>1, <2>1, <2>4 DEF OneMaker, InChat
  <1> QED
    BY <1>1, <1>2, <1>3 DEF FilesKept

\* A group that nobody knows of and nobody has just built stays so.
UntouchedKept ==
    \A c \in G!Chats :
        /\ Untouched(c)
        /\ \A u \in Members : gMake[u].at = "build" /\ gMake[u].chat = c
               => gMake'[u].at \in {"claim", "build"}
        => Untouched(c)'

LEMMA FreshKept ==
    ASSUME G!TypeOK, Fresh, OneMaker, MakersKept,
           \A c \in G!Chats : gMembers'[c] = {} => gMembers[c] = {},
           UntouchedKept
    PROVE  Fresh'
  <1>1. ASSUME NEW c \in G!Chats, gMembers'[c] = {} PROVE Untouched(c)'
    BY <1>1 DEF Fresh, OneMaker, InChat, UntouchedKept
  <1>2. ASSUME NEW u \in Members, gMake'[u].at \in {"claim", "build"}, NEW c, c = gMake'[u].chat
        PROVE  Untouched(c)'
    <2>1. gMake[u].at \in {"claim", "build"} /\ gMake[u].chat = c
      BY <1>2 DEF MakersKept, InChat
    <2>2. Untouched(c) /\ c \in G!Chats
      BY <2>1 DEF Fresh, OneMaker, InChat
    <2>3. \A z \in Members : gMake[z].at = "build" /\ gMake[z].chat = c => z = u
      BY <2>1 DEF OneMaker, InChat
    <2> QED
      BY <1>2, <2>2, <2>3 DEF UntouchedKept
  <1> QED
    BY <1>1, <1>2 DEF Fresh

\* A row that has been claimed is stored or still claimed.
ClaimedKept == \A u \in Members : gMake'[u].at \in InChat =>
    \A w \in gMake[u].claimed : w.package # 0 => w \in gMake'[u].claimed \cup gQueue'
\* Whose package was still to be claimed has got a row, or has it still to be claimed.
TodoKept == \A u \in Members : gMake'[u].at \in InChat =>
    \A v \in gMake[u].todo : \/ v \in gMake'[u].todo
                             \/ \E w \in gMake'[u].claimed : ChatRow(w, v, gMake[u].chat)

LEMMA ProvidedKept ==
    ASSUME G!TypeOK, Provided, OneMaker, MakersKept, gMembers' = gMembers, MarredKept, HasKept,
           RowsLeft,
           FilesKept, ClaimedKept, TodoKept,
           \A u \in Members : gMake'[u].at \in {"register", "welcome"} => Has(u, gMake[u].chat)'
    PROVE  Provided'
  <1> SUFFICES ASSUME NEW u \in Members, gMake'[u].at \in InChat, NEW c, c = gMake'[u].chat
               PROVE  /\ gMake'[u].at \in {"register", "welcome"} => Has(u, c)'
                      /\ \A v \in gMembers'[c] \ {u} :
                            \/ v \in gMake'[u].todo \/ v \in gMarred' \/ Has(v, c)'
                            \/ \E w \in gMake'[u].claimed \cup gQueue' \cup gHanded'[v] : ChatRow(w, v, c)
                      /\ \A v \in gMembers'[c] \ ({u} \cup gMarred') : InFiles(v, c)'
    BY DEF Provided, InFiles, ChatRow, Has
  <1>1. c \in G!Chats /\ gMake[u].chat = c /\ gMake[u].at \in InChat
    BY DEF MakersKept, OneMaker
  <1>2. gMake'[u].at \in {"register", "welcome"} => Has(u, c)'
    BY <1>1
  <1>3. ASSUME NEW v \in gMembers[c] \ {u}, v \notin gMarred', v \notin gMake'[u].todo, ~Has(v, c)'
        PROVE  \E w \in gMake'[u].claimed \cup gQueue' \cup gHanded'[v] : ChatRow(w, v, c)
    <2>0. v \in Members
      BY <1>1, <1>3 DEF G!TypeOK
    <2>1. v \in Members /\ v \notin gMarred /\ ~Has(v, c)
      BY <1>1, <1>3, <2>0 DEF MarredKept, HasKept
    <2>2. CASE v \in gMake[u].todo
      BY <1>1, <1>3, <2>2 DEF TodoKept
    <2>3. CASE v \notin gMake[u].todo
      <3>1. PICK w \in gMake[u].claimed \cup gQueue \cup gHanded[v] : ChatRow(w, v, c)
        BY <1>1, <1>3, <2>1, <2>3 DEF Provided
      <3>2. CASE w \in gMake[u].claimed
        BY <3>1, <3>2 DEF ClaimedKept, ChatRow
      <3>3. CASE w \in gQueue \cup gHanded[v]
        BY <1>3, <2>1, <3>1, <3>3 DEF RowsLeft, ChatRow
      <3> QED
        BY <3>1, <3>2, <3>3
    <2> QED
      BY <2>2, <2>3
  <1>4. ASSUME NEW v \in gMembers[c] \ ({u} \cup gMarred') PROVE InFiles(v, c)'
    <2>0. v \in Members
      BY <1>1, <1>4 DEF G!TypeOK
    <2>1. v \in Members /\ v \notin gMarred /\ v # u
      BY <1>4, <2>0 DEF MarredKept
    <2>2. InFiles(v, c)
      BY <1>1, <1>4, <2>1 DEF Provided, InFiles
    <2>3. ~(gMake[v].at = "build" /\ gMake[v].chat = c)
      BY <1>1, <2>1 DEF OneMaker, InChat
    <2> QED
      BY <1>1, <1>4, <2>1, <2>2, <2>3 DEF FilesKept
  <1> QED
    BY <1>1, <1>2, <1>3, <1>4

(***************************************************************************)
(* What happens to a device                                                *)
(***************************************************************************)
LEMMA SameDevices ==
    ASSUME UNCHANGED <<gMls, gDisk>>
    PROVE  /\ HasKept /\ FilesKept /\ OpensKept
           /\ \A v \in Members : \A p : Opens(v, p) => Opens(v, p)'
           /\ \A v \in Members : \A c : (Has(v, c) => Has(v, c)') /\ (Lacks(v, c) => Lacks(v, c)')
  BY DEF HasKept, FilesKept, OpensKept, Opens, Has, InFiles, Lacks

\* The state in memory and, at least half of it, in the files.
Writes(u, private, mapping) ==
    /\ gMls[u] # None
    /\ G!Holds(u, private, mapping)
    /\ gDisk' = G!Saved(u, private, mapping) \/ G!HalfSaved(u, private)

LEMMA WritesEffect ==
    ASSUME G!GroupChatAssumption, G!TypeOK, NEW u \in Members, NEW private \in SUBSET G!Packages,
           NEW mapping \in SUBSET G!Chats, Writes(u, private, mapping)
    PROVE  /\ \A v \in Members \ {u} : gDisk'[v] = gDisk[v] /\ gMls'[v] = gMls[v]
           /\ gMls'[u] # None /\ gMls'[u].private = private /\ gMls'[u].mapping = mapping
           /\ gDisk'[u].private \in {gDisk[u].private, private}
           /\ gDisk'[u].mapping \in {gDisk[u].mapping, mapping}
           /\ gDisk' = G!Saved(u, private, mapping) =>
                 gDisk'[u].private = private /\ gDisk'[u].mapping = mapping
           /\ gDisk' # G!Saved(u, private, mapping) => gDisk'[u].mapping = gDisk[u].mapping
  <1> USE DEF G!TypeOK
  <1>1. PICK m : m = [private |-> private, mapping |-> mapping]
    OBVIOUS
  <1>2. m \in G!Memories /\ m # None /\ gMls' = [gMls EXCEPT ![u] = m]
    BY <1>1 DEF G!Memories, G!GroupChatAssumption, Writes, G!Holds
  <1>3. PICK f : f = [private |-> private, mapping |-> mapping, signed |-> TRUE]
    OBVIOUS
  <1>4. gDisk' = [gDisk EXCEPT ![u] = f] \/ gDisk' = gDisk
        \/ gDisk' = [gDisk EXCEPT ![u].private = private]
    BY <1>3 DEF Writes, G!Saved, G!HalfSaved
  <1>5. gDisk[u] \in G!Files
    OBVIOUS
  <1>6. \A v \in Members \ {u} : gDisk'[v] = gDisk[v] /\ gMls'[v] = gMls[v]
    BY <1>2, <1>4
  <1>7. gMls'[u] # None /\ gMls'[u].private = private /\ gMls'[u].mapping = mapping
    BY <1>1, <1>2
  <1>8. gDisk' = G!Saved(u, private, mapping) => gDisk'[u].private = private
        /\ gDisk'[u].mapping = mapping
    BY <1>3 DEF G!Saved
  <1>9. gDisk' # G!Saved(u, private, mapping) => \/ gDisk' = gDisk
                                               \/ gDisk' = [gDisk EXCEPT ![u].private = private]
    BY DEF Writes, G!HalfSaved
  <1>10. gDisk' # G!Saved(u, private, mapping) =>
            gDisk'[u].private \in {gDisk[u].private, private}
            /\ gDisk'[u].mapping = gDisk[u].mapping
    BY <1>5, <1>9 DEF G!Files
  <1> QED
    BY <1>6, <1>7, <1>8, <1>10

LEMMA WritesKeep ==
    ASSUME G!GroupChatAssumption, G!TypeOK, NEW u \in Members, NEW private \in SUBSET G!Packages,
           NEW mapping \in SUBSET G!Chats, Writes(u, private, mapping),
           gMls[u].mapping \subseteq mapping
    PROVE  /\ \A v \in Members : \A c : Has(v, c) => Has(v, c)'
           /\ \A v \in Members : \A p : Opens(v, p) => Opens(v, p)' \/ (v = u /\ p \notin private)
           /\ \A v \in Members : \A c : Lacks(v, c) => Lacks(v, c)' \/ (v = u /\ c \in mapping)
           /\ \A v \in Members : \A c : InFiles(v, c) =>
                 \/ InFiles(v, c)'
                 \/ v = u /\ gDisk' # G!Saved(u, private, mapping)
                        /\ c \in mapping \ gMls[u].mapping
  <1>1. ASSUME NEW v \in Members, v # u
        PROVE  /\ \A c : Has(v, c) => Has(v, c)'
               /\ \A p : Opens(v, p) => Opens(v, p)'
               /\ \A c : InFiles(v, c) => InFiles(v, c)'
               /\ \A c : Lacks(v, c) => Lacks(v, c)'
    BY <1>1, WritesEffect DEF Has, Opens, InFiles, Lacks
  <1>2. /\ gMls[u] # None /\ gMls'[u] # None /\ gMls'[u].private = private
               /\ gMls'[u].mapping = mapping
        /\ gDisk'[u].private \in {gDisk[u].private, private}
        /\ gDisk'[u].mapping \in {gDisk[u].mapping, mapping}
        /\ gDisk' = G!Saved(u, private, mapping) => gDisk'[u].mapping = mapping
        /\ gDisk' # G!Saved(u, private, mapping) => gDisk'[u].mapping = gDisk[u].mapping
    BY WritesEffect DEF Writes
  <1>3. \A c : Has(u, c) => Has(u, c)'
    BY <1>2 DEF Has
  <1>4. \A p : Opens(u, p) => Opens(u, p)' \/ p \notin private
    BY <1>2 DEF Opens
  <1>5. \A c : InFiles(u, c) => InFiles(u, c)' \/ (gDisk' # G!Saved(u, private, mapping)
                                                    /\ c \in mapping \ gMls[u].mapping)
    BY <1>2 DEF InFiles
  <1>6. \A c : Lacks(u, c) => Lacks(u, c)' \/ c \in mapping
    BY <1>2 DEF Lacks
  <1> QED
    BY <1>1, <1>3, <1>4, <1>5, <1>6

\* mls_init takes what the files hold, a stop leaves nothing.
LEMMA ReloadKeeps ==
    ASSUME G!GroupChatAssumption, G!TypeOK, G!TypeOK', NEW u \in Members, gDisk' = gDisk,
           \/ G!Holds(u, gDisk[u].private, gDisk[u].mapping)
           \/ gMls' = [gMls EXCEPT ![u] = None]
    PROVE  /\ HasKept /\ FilesKept /\ OpensKept
           /\ \A v \in Members : \A p : Opens(v, p) => Opens(v, p)'
           /\ \A v \in Members : \A c : (Has(v, c) => Has(v, c)') /\ (Lacks(v, c) => Lacks(v, c)')
  <1>0. gDisk[u] \in G!Files
    BY DEF G!TypeOK
  <1>1. PICK m : gMls' = [gMls EXCEPT ![u] = m] /\ (m = None \/ (m.private = gDisk[u].private
                                                               /\ m.mapping = gDisk[u].mapping))
    BY DEF G!Holds
  <1>2. \A v \in Members : \/ gMls'[v] = gMls[v] \/ gMls'[v] = None
                           \/ gMls'[v].private = gDisk[v].private
                                  /\ gMls'[v].mapping = gDisk[v].mapping
    <2>1. \A v \in Members \ {u} : gMls'[v] = gMls[v]
      BY <1>1 DEF G!TypeOK
    <2>2. gMls'[u] = m
      BY <1>1 DEF G!TypeOK
    <2>3. gMls'[u] = None \/ (gMls'[u].private = gDisk[u].private
          /\ gMls'[u].mapping = gDisk[u].mapping)
      BY <1>1, <2>2
    <2>4. ASSUME NEW v \in Members
          PROVE  \/ gMls'[v] = gMls[v] \/ gMls'[v] = None
                 \/ gMls'[v].private = gDisk[v].private /\ gMls'[v].mapping = gDisk[v].mapping
      <3>1. CASE v = u
        BY <2>3, <3>1
      <3>2. CASE v # u
        BY <2>1, <3>2
      <3> QED
        BY <3>1, <3>2
    <2> QED
      BY <2>4
  <1>3. \A v \in Members : \A p : Opens(v, p) => Opens(v, p)'
    BY <1>2 DEF Opens
  <1>4. \A v \in Members : \A c : (Has(v, c) => Has(v, c)') /\ (Lacks(v, c) => Lacks(v, c)')
    BY <1>2 DEF Has, Lacks
  <1>5. \A v \in Members : \A c : InFiles(v, c) => InFiles(v, c)'
    BY <1>2 DEF InFiles
  <1>6. HasKept /\ FilesKept
    BY <1>4, <1>5 DEF HasKept, FilesKept
  <1>7. \A w : IsRow(w)' => w.to \in Members
    BY DEF G!TypeOK, IsRow, G!WelcomeRows
  <1> QED
    BY <1>3, <1>4, <1>6, <1>7 DEF OpensKept

(***************************************************************************)
(* What the rows and the makers of an action do                            *)
(***************************************************************************)
\* What does not depend on the packages of others or on who has confirmed.
Quiet ==
    /\ NoNewRows /\ MarredKept /\ HasKept /\ FilesKept /\ OpensKept /\ RowsLeft
    /\ MakersKept /\ ClaimedKept /\ TodoKept /\ UntouchedKept
    /\ \A u \in Members : gMake'[u].at \in {"register", "welcome"} => Has(u, gMake[u].chat)'

LEMMA QuietKeeps ==
    ASSUME G!GroupChatAssumption, GroupInv, G!TypeOK', Quiet, UNCHANGED <<gMembers, gSucceeded>>
    PROVE  WelcomesOpen' /\ Fresh' /\ OneMaker' /\ Provided' /\ RowsSaved' /\ Joined'
  <1> USE DEF GroupInv, Quiet
  <1>1. WelcomesOpen'
    BY WelcomesOpenStay
  <1>2. Fresh'
    BY FreshKept
  <1>3. OneMaker'
    BY OneMakerKept
  <1>4. Provided'
    BY ProvidedKept
  <1>5. RowsSaved'
    BY RowsSavedKept
  <1>6. Joined'
    BY JoinedKept
  <1> QED
    BY <1>1, <1>2, <1>3, <1>4, <1>5, <1>6

\* Makers who give up leave no work, the others go on with theirs.
LEMMA MakersStay ==
    ASSUME G!TypeOK, OneMaker, \A v \in Members : gMake'[v] = gMake[v] \/ gMake'[v] = G!Idle
    PROVE  MakersKept /\ ClaimedKept /\ TodoKept
  <1> USE DEF OneMaker, InChat, G!Idle
  <1>1. \A v \in Members : gMake'[v] = G!Idle =>
           gMake'[v].at = "idle" /\ gMake'[v].claimed = {} /\ gMake'[v].todo = {}
    OBVIOUS
  <1>2. MakersKept
    BY <1>1 DEF MakersKept
  <1>3. ClaimedKept /\ TodoKept
    BY <1>1 DEF ClaimedKept, TodoKept
  <1> QED
    BY <1>2, <1>3

LEMMA GivesUpAlone ==
    ASSUME G!TypeOK, NEW u \in Members, G!GivesUp(u)
    PROVE  gMake'[u] = G!Idle /\ \A v \in Members : gMake'[v] = gMake[v] \/ gMake'[v] = G!Idle
  BY DEF G!TypeOK, G!GivesUp

\* Rows stay where they are, but those of a maker who gives up.
LEMMA RowsStay ==
    ASSUME G!TypeOK, UNCHANGED <<gQueue, gHanded>>, \A v \in Members : gMake'[v] = gMake[v]
           \/ gMake'[v] = G!Idle
    PROVE  NoNewRows /\ RowsLeft
  BY DEF NoNewRows, RowsLeft, IsRow, G!Idle

LEMMA MakersHave ==
    ASSUME Provided, \A v \in Members : gMake'[v] = gMake[v] \/ gMake'[v] = G!Idle,
           \A v \in Members : gMake'[v] # G!Idle => \A c : Has(v, c) => Has(v, c)'
    PROVE  \A v \in Members : gMake'[v].at \in {"register", "welcome"} => Has(v, gMake[v].chat)'
  BY DEF Provided, InChat, G!Idle

\* No group gets known that was not.
LEMMA NobodyHears ==
    ASSUME G!TypeOK, \A v \in Members : \A c : Lacks(v, c) => Lacks(v, c)',
           \A v \in Members : gHanded'[v] \subseteq gHanded[v] /\ gBackup'[v] = gBackup[v],
           gQueue' \subseteq gQueue, UNCHANGED <<gConfirmed, gSucceeded>>
    PROVE  UntouchedKept
  BY DEF UntouchedKept, Untouched

(***************************************************************************)
(* Sign-up and launch                                                      *)
(***************************************************************************)
LaunchAlone(u) ==
    \/ G!Open(u) \/ G!MlsInit(u) \/ G!DeleteKeyPackages(u) \/ G!CheckKeyPackages(u)
           \/ G!PostKeyPackages(u)
    \/ G!Launched(u) \/ G!BackUp(u)

LEMMA LaunchesStay ==
    ASSUME G!GroupChatAssumption, GroupInv, G!TypeOK', NEW u \in Members, LaunchAlone(u)
           \/ UNCHANGED G!vars
    PROVE  /\ UNCHANGED <<gMake, gHanded, gMembers, gQueue, gConfirmed, gSucceeded, gMarred, gDisk>>
           /\ \A v \in Members : \A p : Opens(v, p) => Opens(v, p)'
           /\ Quiet /\ HasKept /\ PackagesLeft /\ Launching'
  <1> USE DEF G!serverVars, G!deviceVars, G!historyVars
  <1>1. UNCHANGED <<gMake, gHanded, gMembers, gQueue, gConfirmed, gSucceeded, gMarred, gDisk>>
    BY DEF LaunchAlone, G!Open, G!MlsInit, G!DeleteKeyPackages, G!CheckKeyPackages,
       G!PostKeyPackages, G!Launched, G!BackUp, G!vars
  <1>2. gMls' = gMls \/ G!Holds(u, gDisk[u].private, gDisk[u].mapping)
    BY DEF LaunchAlone, G!Open, G!MlsInit, G!DeleteKeyPackages, G!CheckKeyPackages,
       G!PostKeyPackages, G!Launched, G!BackUp, G!vars
  <1>3. /\ HasKept /\ FilesKept /\ OpensKept
        /\ \A v \in Members : \A p : Opens(v, p) => Opens(v, p)'
        /\ \A v \in Members : \A c : (Has(v, c) => Has(v, c)') /\ (Lacks(v, c) => Lacks(v, c)')
    <2>1. CASE gMls' = gMls
      BY <1>1, <2>1, SameDevices
    <2>2. CASE G!Holds(u, gDisk[u].private, gDisk[u].mapping)
      <3>1. gDisk' = gDisk
        BY <1>1
      <3> QED
        BY <2>2, <3>1, ReloadKeeps DEF GroupInv
    <2> QED
      BY <1>2, <2>1, <2>2
  <1>4. \A v \in Members : gMake'[v] = gMake[v]
    BY <1>1
  <1>5. NoNewRows /\ RowsLeft /\ MarredKept
    BY <1>1, <1>4, RowsStay DEF GroupInv, MarredKept
  <1>6. MakersKept /\ ClaimedKept /\ TodoKept
    BY <1>4, MakersStay DEF GroupInv
  <1>7. \A v \in Members : gMake'[v].at \in {"register", "welcome"} => Has(v, gMake[v].chat)'
    BY <1>3, <1>4, MakersHave DEF GroupInv
  <1>8. gBackup' = gBackup \/ G!BackUp(u)
    BY DEF LaunchAlone, G!Open, G!MlsInit, G!DeleteKeyPackages, G!CheckKeyPackages,
       G!PostKeyPackages, G!Launched, G!vars
  <1>9. UntouchedKept
    <2>1. \A v \in Members : gBackup'[v] = gBackup[v] \/ gBackup'[v] = gDisk[v]
      BY <1>8 DEF G!BackUp, GroupInv, G!TypeOK
    <2> QED
      BY <1>1, <1>3, <2>1 DEF UntouchedKept, Untouched, Lacks
  <1>10. PackagesLeft
    <2>1. gMade' = gMade
      BY DEF LaunchAlone, G!Open, G!MlsInit, G!DeleteKeyPackages, G!CheckKeyPackages,
         G!PostKeyPackages, G!Launched, G!BackUp, G!vars
    <2>2. CASE G!DeleteKeyPackages(u)
      <3>1. gBatch' = gBatch /\ gPackages' \in {gPackages, G!Deleted(u)}
        BY <2>2 DEF G!DeleteKeyPackages, G!Lost
      <3>2. \A v \in Members : gPackages'[v] \subseteq gPackages[v]
        BY <3>1 DEF G!Deleted, GroupInv, G!TypeOK
      <3> QED
        BY <2>1, <3>1, <3>2 DEF PackagesLeft, GroupInv, PackagesNumbered
    <2>3. CASE G!PostKeyPackages(u)
      <3>1. PICK some \in SUBSET gBatch[u] : gPackages' = [gPackages EXCEPT ![u] = @ \cup some]
        BY <2>3 DEF G!PostKeyPackages
      <3>2. gBatch' = [gBatch EXCEPT ![u] = {}]
        BY <2>3 DEF G!PostKeyPackages
      <3>3. \A v \in Members \ {u} : gPackages'[v] = gPackages[v] /\ gBatch'[v] = gBatch[v]
        BY <3>1, <3>2 DEF GroupInv, G!TypeOK
      <3>4. gPackages'[u] = gPackages[u] \cup some /\ gBatch'[u] = {}
        BY <3>1, <3>2 DEF GroupInv, G!TypeOK
      <3>5. ASSUME NEW v \in Members
            PROVE  /\ gPackages'[v] \cup gBatch'[v] \subseteq gPackages[v] \cup gBatch[v]
                   /\ gPackages'[v] \cap gBatch'[v] = {}
        <4>1. CASE v = u
          BY <3>4, <4>1
        <4>2. CASE v # u
          BY <3>3, <4>2 DEF GroupInv, PackagesNumbered
        <4> QED
          BY <4>1, <4>2
      <3> QED
        BY <2>1, <3>5 DEF PackagesLeft
    <2>4. CASE UNCHANGED <<gPackages, gBatch>>
      BY <2>1, <2>4 DEF PackagesLeft, GroupInv, PackagesNumbered
    <2> QED
      BY <2>2, <2>3, <2>4 DEF LaunchAlone, G!Open, G!MlsInit, G!CheckKeyPackages, G!Launched,
         G!BackUp, G!vars
  <1>11. Launching'
    <2>1. \A v \in Members \ {u} : gApp'[v] = gApp[v] /\ gBatch'[v] = gBatch[v]
          /\ gMls'[v] = gMls[v]
      BY DEF LaunchAlone, G!Open, G!MlsInit, G!DeleteKeyPackages, G!CheckKeyPackages,
         G!PostKeyPackages, G!Launched, G!BackUp, G!vars, G!Goes, G!FailsAt, G!Holds, GroupInv,
         G!TypeOK
    <2>2. /\ gApp'[u] \in {"first", "firstpost", "delete", "check", "upload", "post", "welcomes",
                 "joining"}
               => gMls'[u] # None
          /\ gBatch'[u] # {} => gApp'[u] \in {"post", "firstpost"}
      <3> USE DEF GroupInv, Launching, G!SignUp
      <3>0. gApp \in [Members -> G!Apps] /\ gBatch \in [Members -> SUBSET G!Packages]
            /\ gMls \in [Members -> G!Memories \cup {None}]
        BY DEF G!TypeOK
      <3>1. CASE G!Open(u)
        <4>1. gApp'[u] \in {"signup", "launch"} /\ gBatch' = gBatch /\ gApp[u] \in {"new", "off"}
          BY <3>0, <3>1 DEF G!Open, G!Goes
        <4> QED
          BY <4>1
      <3>2. CASE G!MlsInit(u)
        <4>1. gBatch' = gBatch /\ gApp[u] \in {"signup", "launch"}
          BY <3>2 DEF G!MlsInit
        <4>2. gApp'[u] \in {"off", "up"} \/ G!Holds(u, gDisk[u].private, gDisk[u].mapping)
          BY <3>0, <3>2 DEF G!MlsInit, G!FailsAt, G!Goes
        <4>3. PICK m : m = [private |-> gDisk[u].private, mapping |-> gDisk[u].mapping]
          OBVIOUS
        <4>4. gDisk[u] \in G!Files
          BY DEF G!TypeOK
        <4>5. m \in G!Memories /\ m # None
          BY <4>3, <4>4 DEF G!Memories, G!Files, G!GroupChatAssumption
        <4>6. G!Holds(u, gDisk[u].private, gDisk[u].mapping) => gMls'[u] # None
          BY <3>0, <4>3, <4>5 DEF G!Holds
        <4> QED
          BY <4>1, <4>2, <4>6
      <3>3. CASE G!DeleteKeyPackages(u)
        <4>1. gApp[u] = "delete" /\ gApp'[u] \in {"upload", "up"} /\ UNCHANGED <<gMls, gBatch>>
          BY <3>0, <3>3 DEF G!DeleteKeyPackages, G!Goes
        <4> QED
          BY <4>1
      <3>4. CASE G!CheckKeyPackages(u)
        <4>1. gApp[u] = "check" /\ gApp'[u] \in {"upload", "welcomes", "up", "off"}
              /\ UNCHANGED <<gMls, gBatch>>
          BY <3>0, <3>4 DEF G!CheckKeyPackages, G!FailsAt, G!Goes
        <4> QED
          BY <4>1
      <3>5. CASE G!PostKeyPackages(u)
        <4>1. /\ gApp[u] \in {"post", "firstpost"} /\ gApp'[u] \in {"welcomes", "up", "off"}
              /\ gMls' = gMls /\ gBatch'[u] = {}
          BY <3>0, <3>5 DEF G!PostKeyPackages, G!FailsAt, G!Goes
        <4> QED
          BY <4>1
      <3>6. CASE G!Launched(u)
        <4>1. gApp[u] = "joining" /\ gApp'[u] = "up" /\ UNCHANGED <<gMls, gBatch>>
          BY <3>0, <3>6 DEF G!Launched, G!Goes
        <4> QED
          BY <4>1
      <3>7. CASE G!BackUp(u) \/ UNCHANGED G!vars
        BY <3>7 DEF G!BackUp, G!vars
      <3> QED
        BY <3>1, <3>2, <3>3, <3>4, <3>5, <3>6, <3>7 DEF LaunchAlone
    <2> QED
      BY <2>1, <2>2 DEF GroupInv, Launching
  <1> QED
    BY <1>1, <1>3, <1>5, <1>6, <1>7, <1>9, <1>10, <1>11 DEF Quiet

LEMMA LaunchesInv ==
    ASSUME G!GroupChatAssumption, GroupInv, G!TypeOK', NEW u \in Members, LaunchAlone(u)
           \/ UNCHANGED G!vars
    PROVE  GroupInv'
  <1>1. /\ UNCHANGED <<gMake, gHanded, gMembers, gQueue, gConfirmed, gSucceeded, gMarred, gDisk>>
        /\ \A v \in Members : \A p : Opens(v, p) => Opens(v, p)'
        /\ Quiet /\ HasKept /\ PackagesLeft /\ Launching'
    BY LaunchesStay
  <1>2. UNCHANGED <<gMembers, gSucceeded>> /\ NoNewRows /\ MarredKept /\ gConfirmed' = gConfirmed
    BY <1>1 DEF Quiet
  <1>3. WelcomesOpen' /\ Fresh' /\ OneMaker' /\ Provided' /\ RowsSaved' /\ Joined'
    BY <1>1, <1>2, QuietKeeps
  <1>4. PackagesNumbered' /\ Confirmed'
    BY <1>1, <1>2, NumberedKept, ConfirmedKept DEF GroupInv
  <1>5. HandedToOwner'
    BY <1>1 DEF GroupInv, HandedToOwner
  <1>6. PackagesKept'
    <2>1. CASE gReplaced' = gReplaced
      <3>1. \A v \in Members : \A p \in gPackages'[v] \cup gBatch'[v] : Opens(v, p) => Opens(v, p)'
        BY <1>1
      <3> QED
        BY <1>1, <1>2, <2>1, <3>1, PackagesKeptStay DEF GroupInv
    <2>2. CASE G!DeleteKeyPackages(u) /\ gReplaced' # gReplaced
      <3>1. gPackages'[u] = {} /\ gReplaced' = gReplaced \ {u} /\ gBatch' = gBatch
            /\ gApp[u] = "delete"
        BY <2>2 DEF G!DeleteKeyPackages, G!Deleted, GroupInv, G!TypeOK
      <3>2. gBatch'[u] = {}
        BY <3>1 DEF GroupInv, Launching
      <3> QED
        BY <1>1, <3>1, <3>2 DEF PackagesKept, PackagesLeft, GroupInv
    <2> QED
      BY <2>1, <2>2 DEF LaunchAlone, G!Open, G!MlsInit, G!CheckKeyPackages, G!PostKeyPackages,
         G!Launched, G!BackUp, G!vars, G!historyVars
  <1> QED
    BY <1>1, <1>3, <1>4, <1>5, <1>6 DEF GroupInv

\* New packages are saved before they are uploaded.
LEMMA MakeInv ==
    ASSUME G!GroupChatAssumption, GroupInv, G!TypeOK', NEW u \in Members, G!MakeKeyPackages(u)
    PROVE  GroupInv'
  <1> USE DEF G!serverVars, G!historyVars
  <1>0. PICK new : new = gMade[u] + 1 .. gMade[u] + Batch
    OBVIOUS
  <1>1. /\ UNCHANGED <<gPackages, gMake, gHanded, gMembers, gQueue, gConfirmed, gSucceeded,
               gMarred, gReplaced, gBackup>>
        /\ gApp[u] \in {"first", "upload"}
    BY DEF G!MakeKeyPackages
  <1>2. PICK private : private = gMls[u].private \cup new
    OBVIOUS
  <1>3. gMls[u] # None /\ gMls[u] \in G!Memories /\ gMade[u] \in Nat /\ Batch \in Nat \ {0}
    BY <1>1 DEF GroupInv, Launching, G!TypeOK, G!GroupChatAssumption
  <1>4. new \subseteq G!Packages /\ \A p \in new : p > gMade[u] /\ p <= gMade[u] + Batch
    BY <1>0, <1>3 DEF G!Packages
  <1>5. private \in SUBSET G!Packages /\ gMls[u].mapping \in SUBSET G!Chats
    BY <1>2, <1>3, <1>4 DEF G!Memories
  <1>6. gMade'[u] = gMade[u] + Batch /\ \A v \in Members \ {u} : gMade'[v] = gMade[v]
    BY DEF G!MakeKeyPackages, GroupInv, G!TypeOK
  <1>7. /\ G!Holds(u, private, gMls[u].mapping)
        /\ gDisk' = G!Saved(u, private, gMls[u].mapping) \/ G!HalfSaved(u, private)
    BY <1>0, <1>2 DEF G!MakeKeyPackages
  <1>8. Writes(u, private, gMls[u].mapping)
    BY <1>3, <1>7 DEF Writes
  <1>9. /\ \A v \in Members : \A c : (Has(v, c) => Has(v, c)') /\ (Lacks(v, c) => Lacks(v, c)')
        /\ \A v \in Members : \A p : Opens(v, p) => Opens(v, p)' \/ (v = u /\ p \notin private)
        /\ \A v \in Members : \A c : InFiles(v, c) => InFiles(v, c)'
    <2>0. PICK mapping \in SUBSET G!Chats : mapping = gMls[u].mapping
      BY <1>5
    <2>1. G!TypeOK /\ Writes(u, private, mapping) /\ gMls[u].mapping \subseteq mapping
      BY <1>8, <2>0 DEF GroupInv
    <2>2. /\ \A v \in Members : \A c : Has(v, c) => Has(v, c)'
          /\ \A v \in Members : \A p : Opens(v, p) => Opens(v, p)' \/ (v = u /\ p \notin private)
          /\ \A v \in Members : \A c : Lacks(v, c) => Lacks(v, c)' \/ (v = u /\ c \in mapping)
          /\ \A v \in Members : \A c : InFiles(v, c) =>
                \/ InFiles(v, c)'
                \/ v = u /\ gDisk' # G!Saved(u, private, mapping) /\ c \in mapping \ gMls[u].mapping
      BY <1>5, <2>1, WritesKeep
    <2>3. \A c : Lacks(u, c) => c \notin gMls[u].mapping
      BY <1>3 DEF Lacks
    <2> QED
      BY <2>0, <2>2, <2>3
  <1>10. \A v \in Members : \A p : Opens(v, p) => Opens(v, p)'
    <2>1. \A p : Opens(u, p) => p \in private
      BY <1>2, <1>3 DEF Opens
    <2> QED
      BY <1>9, <2>1
  <1>11. HasKept /\ FilesKept /\ OpensKept
    <2>1. \A w : IsRow(w)' => w.to \in Members
      BY DEF G!TypeOK, IsRow, G!WelcomeRows
    <2> QED
      BY <1>9, <1>10, <2>1 DEF HasKept, FilesKept, OpensKept
  <1>12. \A v \in Members : gMake'[v] = gMake[v]
    BY <1>1
  <1>13. NoNewRows /\ RowsLeft /\ MarredKept
    BY <1>1, <1>12, RowsStay DEF GroupInv, MarredKept
  <1>14. MakersKept /\ ClaimedKept /\ TodoKept
    BY <1>12, MakersStay DEF GroupInv
  <1>15. \A v \in Members : gMake'[v].at \in {"register", "welcome"} => Has(v, gMake[v].chat)'
    BY <1>9, <1>12, MakersHave DEF GroupInv
  <1>16. UntouchedKept
    BY <1>1, <1>9, NobodyHears DEF GroupInv
  <1>17. Quiet
    BY <1>11, <1>13, <1>14, <1>15, <1>16 DEF Quiet
  <1>18. WelcomesOpen' /\ Fresh' /\ OneMaker' /\ Provided' /\ RowsSaved' /\ Joined'
    BY <1>1, <1>17, QuietKeeps
  <1>19. Confirmed' /\ HandedToOwner'
    BY <1>1, <1>11, <1>13, ConfirmedKept DEF GroupInv, HandedToOwner
  <1>20. \A v \in Members \ {u} : gBatch'[v] = gBatch[v] /\ gApp'[v] = gApp[v] /\ gMls'[v] = gMls[v]
    BY DEF G!MakeKeyPackages, GroupInv, G!TypeOK, G!Goes, G!FailsAt, G!Holds
  <1>21. /\ gBatch[u] = {}
         /\ \/ gBatch'[u] = {}
            \/ /\ gBatch'[u] = new /\ gApp'[u] \in {"post", "firstpost"}
               /\ gDisk' = G!Saved(u, private, gMls[u].mapping)
    <2>1. gBatch[u] = {}
      BY <1>1 DEF GroupInv, Launching
    <2>2. \/ gBatch' = gBatch
          \/ /\ gBatch' = [gBatch EXCEPT ![u] = new]
                    /\ gDisk' = G!Saved(u, private, gMls[u].mapping)
             /\ G!Goes(u, "firstpost") \/ G!Goes(u, "post")
      BY <1>0, <1>2 DEF G!MakeKeyPackages
    <2>3. gBatch \in [Members -> SUBSET G!Packages] /\ gApp \in [Members -> G!Apps]
      BY DEF GroupInv, G!TypeOK
    <2> QED
      BY <2>1, <2>2, <2>3 DEF G!Goes
  <1>22. gMls'[u] # None /\ gMls'[u].private = private
    BY <1>5, <1>8, WritesEffect DEF GroupInv
  <1>23. Launching'
    BY <1>20, <1>21, <1>22 DEF GroupInv, Launching
  <1>24. PackagesKept'
    <2>1. \A p : gDisk' = G!Saved(u, private, gMls[u].mapping) /\ p \in private => Opens(u, p)'
      BY <1>5, <1>8, <1>22, WritesEffect DEF Opens, GroupInv
    <2>2. \A v \in Members : \A p \in gPackages'[v] \cup gBatch'[v] :
             p \in gPackages[v] \cup gBatch[v] \/ Opens(v, p)'
      BY <1>1, <1>2, <1>20, <1>21, <2>1
    <2> QED
      BY <1>1, <1>10, <2>2 DEF PackagesKept, GroupInv
  <1>25. PackagesNumbered'
    <2>0. \A v \in Members : gMade[v] \in Nat
      BY DEF GroupInv, G!TypeOK
    <2>1. \A v \in Members : gMade[v] <= gMade'[v] /\ gMade[v] \in Nat /\ gMade'[v] \in Nat
      BY <1>3, <1>6, <2>0
    <2>2. \A v \in Members : \A p \in gPackages[v] \cup gBatch[v] : p \in Nat /\ p <= gMade[v]
      BY DEF GroupInv, G!TypeOK, PackagesNumbered, G!Packages
    <2>3. \A p \in new : p \in Nat /\ p <= gMade'[u] /\ ~(p <= gMade[u])
      <3>1. gMade'[u] = gMade[u] + Batch /\ gMade[u] \in Nat
        BY <1>3, <1>6
      <3>2. ASSUME NEW p \in new PROVE p \in Nat /\ p <= gMade'[u] /\ ~(p <= gMade[u])
        <4>1. p \in Nat /\ p > gMade[u] /\ p <= gMade[u] + Batch
          BY <1>4 DEF G!Packages
        <4> QED
          BY <3>1, <4>1
      <3> QED
        BY <3>2
    <2>4. \A v \in Members : \A p \in gPackages'[v] \cup gBatch'[v] : p <= gMade'[v]
      <3>1. \A v \in Members : \A p \in gPackages[v] \cup gBatch[v] : p <= gMade'[v]
        BY <2>1, <2>2
      <3>2. \A v \in Members : \A p \in gPackages'[v] \cup gBatch'[v] :
               p \in gPackages[v] \cup gBatch[v] \/ (v = u /\ p \in new)
        BY <1>1, <1>20, <1>21
      <3> QED
        BY <2>3, <3>1, <3>2
    <2>5. \A v \in Members : gPackages'[v] \cap gBatch'[v] = {}
      <3>1. ASSUME NEW v \in Members PROVE gPackages'[v] \cap gBatch'[v] = {}
        <4>1. CASE v = u
          BY <1>1, <1>21, <2>2, <2>3, <4>1
        <4>2. CASE v # u
          BY <1>1, <1>20, <4>2 DEF GroupInv, PackagesNumbered
        <4> QED
          BY <4>1, <4>2
      <3> QED
        BY <3>1
    <2>6. \A w : IsRow(w)' <=> IsRow(w)
      BY <1>1, <1>12 DEF IsRow
    <2>7. ASSUME NEW w, IsRow(w)
          PROVE  w.package <= gMade'[w.to] /\ w.package \notin gPackages'[w.to] \cup gBatch'[w.to]
      <3>1. w.to \in Members /\ w.package \in Nat
        BY <2>7 DEF IsRow, GroupInv, G!TypeOK, G!WelcomeRows
      <3>2. w.package <= gMade[w.to] /\ w.package \notin gPackages[w.to] \cup gBatch[w.to]
        BY <2>7 DEF GroupInv, PackagesNumbered
      <3>3. w.package <= gMade'[w.to]
        BY <2>1, <3>1, <3>2
      <3>4. w.package \notin gPackages'[w.to] \cup gBatch'[w.to]
        BY <1>1, <1>20, <1>21, <2>3, <3>1, <3>2
      <3> QED
        BY <3>3, <3>4
    <2>8. \A w, x : IsRow(w) /\ IsRow(x) /\ w.to = x.to /\ w.package = x.package
          /\ w.package # 0 => w = x
      BY DEF GroupInv, PackagesNumbered
    <2> QED
      BY <2>4, <2>5, <2>6, <2>7, <2>8 DEF PackagesNumbered
  <1> QED
    BY <1>18, <1>19, <1>23, <1>24, <1>25 DEF GroupInv

\* A device that stops or is replaced.
LEMMA HaltsStay ==
    ASSUME GroupInv, G!TypeOK', NEW u \in Members, G!Halt(u), gMarred \subseteq gMarred',
           u \in gMarred' \/ gHanded[u] = {}
    PROVE  /\ UNCHANGED <<gMembers, gQueue, gConfirmed, gSucceeded, gPackages, gMade, gBackup>>
           /\ gMls' = [gMls EXCEPT ![u] = None] /\ gMake'[u] = G!Idle
           /\ \A v \in Members : gMake'[v] = gMake[v] \/ gMake'[v] = G!Idle
           /\ \A v \in Members : gHanded'[v] \subseteq gHanded[v]
           /\ NoNewRows /\ RowsLeft /\ MarredKept /\ MakersKept /\ ClaimedKept /\ TodoKept
           /\ PackagesLeft /\ HandedToOwner' /\ Launching'
  <1> USE DEF G!serverVars
  <1>0. /\ gApp \in [Members -> G!Apps] /\ gBatch \in [Members -> SUBSET G!Packages]
        /\ gMls \in [Members -> G!Memories \cup {None}]
               /\ gHanded \in [Members -> SUBSET G!WelcomeRows]
        /\ gMake \in [Members -> MakeState]
    BY DEF GroupInv, G!TypeOK, MakeState
  <1>1. /\ UNCHANGED <<gMembers, gQueue, gConfirmed, gSucceeded, gPackages, gMade, gBackup>>
        /\ gMls' = [gMls EXCEPT ![u] = None]
    BY DEF G!Halt
  <1>2. gMake'[u] = G!Idle /\ \A v \in Members \ {u} : gMake'[v] = gMake[v]
    BY <1>0 DEF G!Halt
  <1>3. /\ gHanded'[u] = {} /\ gBatch'[u] = {} /\ gApp'[u] = "off"
        /\ \A v \in Members \ {u} : /\ gHanded'[v] = gHanded[v] /\ gBatch'[v] = gBatch[v]
                                    /\ gApp'[v] = gApp[v] /\ gMls'[v] = gMls[v]
    BY <1>0 DEF G!Halt, G!Goes
  <1>4. \A v \in Members : gMake'[v] = gMake[v] \/ gMake'[v] = G!Idle
    BY <1>2
  <1>5. \A v \in Members : gHanded'[v] \subseteq gHanded[v] /\ gBatch'[v] \subseteq gBatch[v]
    BY <1>3
  <1>6. \A v \in Members : gMake'[v].claimed \subseteq gMake[v].claimed
    BY <1>4 DEF G!Idle
  <1>7. NoNewRows
    BY <1>1, <1>5, <1>6 DEF NoNewRows, IsRow
  <1>8. RowsLeft /\ MarredKept
    BY <1>1, <1>3 DEF RowsLeft, MarredKept
  <1>9. MakersKept /\ ClaimedKept /\ TodoKept
    BY <1>4, MakersStay DEF GroupInv
  <1>10. PackagesLeft
    BY <1>1, <1>5 DEF PackagesLeft, GroupInv, PackagesNumbered
  <1>11. HandedToOwner'
    BY <1>5 DEF GroupInv, HandedToOwner
  <1>12. Launching'
    BY <1>3 DEF GroupInv, Launching
  <1> QED
    BY <1>1, <1>2, <1>4, <1>5, <1>7, <1>8, <1>9, <1>10, <1>11, <1>12

LEMMA StopInv ==
    ASSUME G!GroupChatAssumption, GroupInv, G!TypeOK', NEW u \in Members, G!Stop(u)
    PROVE  GroupInv'
  <1>1. G!Halt(u) /\ UNCHANGED <<gDisk, gReplaced>> /\ gMarred \subseteq gMarred'
        /\ (u \in gMarred' \/ gHanded[u] = {})
    BY DEF G!Stop
  <1>2. /\ UNCHANGED <<gMembers, gQueue, gConfirmed, gSucceeded, gPackages, gMade, gBackup>>
        /\ gMls' = [gMls EXCEPT ![u] = None] /\ gMake'[u] = G!Idle
        /\ \A v \in Members : gMake'[v] = gMake[v] \/ gMake'[v] = G!Idle
        /\ \A v \in Members : gHanded'[v] \subseteq gHanded[v]
        /\ NoNewRows /\ RowsLeft /\ MarredKept /\ MakersKept /\ ClaimedKept /\ TodoKept
        /\ PackagesLeft /\ HandedToOwner' /\ Launching'
    BY <1>1, HaltsStay
  <1>3. /\ HasKept /\ FilesKept /\ OpensKept
        /\ \A v \in Members : \A p : Opens(v, p) => Opens(v, p)'
        /\ \A v \in Members : \A c : (Has(v, c) => Has(v, c)') /\ (Lacks(v, c) => Lacks(v, c)')
    BY <1>1, <1>2, ReloadKeeps DEF GroupInv
  <1>4. \A v \in Members : gMake'[v].at \in {"register", "welcome"} => Has(v, gMake[v].chat)'
    BY <1>2, <1>3, MakersHave DEF GroupInv
  <1>5. UntouchedKept
    BY <1>2, <1>3, NobodyHears DEF GroupInv
  <1>6. Quiet
    BY <1>2, <1>3, <1>4, <1>5 DEF Quiet
  <1>7. WelcomesOpen' /\ Fresh' /\ OneMaker' /\ Provided' /\ RowsSaved' /\ Joined'
    BY <1>2, <1>6, QuietKeeps
  <1>8. PackagesNumbered' /\ Confirmed'
    BY <1>2, <1>3, NumberedKept, ConfirmedKept DEF GroupInv
  <1>9. PackagesKept'
    <2>1. \A v \in Members : \A p \in gPackages'[v] \cup gBatch'[v] : Opens(v, p) => Opens(v, p)'
      BY <1>3
    <2> QED
      BY <1>1, <1>2, <2>1, PackagesKeptStay DEF GroupInv
  <1> QED
    BY <1>2, <1>7, <1>8, <1>9 DEF GroupInv

LEMMA ReplaceInv ==
    ASSUME G!GroupChatAssumption, GroupInv, G!TypeOK', NEW u \in Members, G!Replace(u)
    PROVE  GroupInv'
  <1>1. G!Halt(u) /\ gMarred' = gMarred \cup {u} /\ gReplaced' = gReplaced \cup {u}
    BY DEF G!Replace
  <1>2. /\ UNCHANGED <<gMembers, gQueue, gConfirmed, gSucceeded, gPackages, gMade, gBackup>>
        /\ gMls' = [gMls EXCEPT ![u] = None] /\ gMake'[u] = G!Idle
        /\ \A v \in Members : gMake'[v] = gMake[v] \/ gMake'[v] = G!Idle
        /\ \A v \in Members : gHanded'[v] \subseteq gHanded[v]
        /\ NoNewRows /\ RowsLeft /\ MarredKept /\ MakersKept /\ ClaimedKept /\ TodoKept
        /\ PackagesLeft /\ HandedToOwner' /\ Launching'
    BY <1>1, HaltsStay
  <1>3. \A v \in Members \ {u} : gMls'[v] = gMls[v] /\ gDisk'[v] = gDisk[v]
    BY <1>2 DEF G!Replace, GroupInv, G!TypeOK
  <1>4. gMls'[u] = None /\ (gDisk'[u] = gBackup[u] \/ gDisk'[u].mapping = {})
    BY <1>2 DEF G!Replace, G!NoFiles, GroupInv, G!TypeOK
  <1>5. \A v \in Members \ {u} :
           /\ \A p : Opens(v, p) => Opens(v, p)'
           /\ \A c : (Has(v, c) => Has(v, c)') /\ (Lacks(v, c) => Lacks(v, c)')
           /\ \A c : InFiles(v, c) => InFiles(v, c)'
    BY <1>3 DEF Opens, Has, Lacks, InFiles
  <1>6. HasKept /\ FilesKept /\ OpensKept
    <2>1. \A w : IsRow(w)' => w.to \in Members
      BY DEF G!TypeOK, IsRow, G!WelcomeRows
    <2> QED
      BY <1>1, <1>5, <2>1 DEF HasKept, FilesKept, OpensKept
  <1>7. \A v \in Members : gMake'[v].at \in {"register", "welcome"} => Has(v, gMake[v].chat)'
    BY <1>2, <1>5, MakersHave DEF GroupInv
  <1>8. UntouchedKept
    <2>1. \A c : Untouched(c) => Lacks(u, c)'
      BY <1>4 DEF Untouched, Lacks
    <2>2. \A c : Untouched(c) => \A v \in Members : Lacks(v, c)'
      BY <1>5, <2>1 DEF Untouched
    <2> QED
      BY <1>2, <2>2 DEF UntouchedKept, Untouched
  <1>9. Quiet
    BY <1>2, <1>6, <1>7, <1>8 DEF Quiet
  <1>10. WelcomesOpen' /\ Fresh' /\ OneMaker' /\ Provided' /\ RowsSaved' /\ Joined'
    BY <1>2, <1>9, QuietKeeps
  <1>11. PackagesNumbered' /\ Confirmed'
    BY <1>2, <1>6, NumberedKept, ConfirmedKept DEF GroupInv
  <1>12. PackagesKept'
    <2>1. \A v \in Members \ gReplaced' : \A p \in gPackages'[v] \cup gBatch'[v] : Opens(v, p)'
      BY <1>1, <1>2, <1>5 DEF PackagesLeft, PackagesKept, GroupInv
    <2> QED
      BY <1>1, <2>1 DEF PackagesKept, GroupInv
  <1> QED
    BY <1>2, <1>10, <1>11, <1>12 DEF GroupInv

(***************************************************************************)
(* Making a chat                                                           *)
(***************************************************************************)
\* What most steps of a maker leave alone.
MakerAlone == UNCHANGED <<gApp, gMls, gDisk, gBackup, gBatch, gMade, gReplaced, gMarred>>

LEMMA MakerDevices ==
    ASSUME GroupInv, MakerAlone
    PROVE  /\ HasKept /\ FilesKept /\ OpensKept /\ MarredKept /\ Launching'
           /\ \A v \in Members : \A p : Opens(v, p) => Opens(v, p)'
           /\ \A v \in Members : \A c : (Has(v, c) => Has(v, c)') /\ (Lacks(v, c) => Lacks(v, c)')
  <1>1. HasKept /\ FilesKept /\ OpensKept
    BY SameDevices DEF MakerAlone
  <1>2. /\ \A v \in Members : \A p : Opens(v, p) => Opens(v, p)'
        /\ \A v \in Members : \A c : (Has(v, c) => Has(v, c)') /\ (Lacks(v, c) => Lacks(v, c)')
    BY SameDevices DEF MakerAlone
  <1>3. Launching' /\ MarredKept
    BY DEF GroupInv, Launching, MakerAlone, MarredKept
  <1> QED
    BY <1>1, <1>2, <1>3

LEMMA BeginInv ==
    ASSUME G!GroupChatAssumption, GroupInv, G!TypeOK', NEW u \in Members,
           NEW others \in SUBSET Members,
           G!Begin(u, others)
    PROVE  GroupInv'
  <1> USE DEF G!serverVars, G!deviceVars, G!historyVars
  <1>1. /\ UNCHANGED <<gMembers, gQueue, gConfirmed, gSucceeded, gPackages, gMade, gBackup,
               gHanded>>
        /\ MakerAlone /\ u \notin others
    BY DEF G!Begin, MakerAlone
  <1>2. PICK m : m = [at |-> "create", chat |-> 0, todo |-> others, claimed |-> {}]
    OBVIOUS
  <1>3. gMake'[u] = m /\ \A v \in Members \ {u} : gMake'[v] = gMake[v]
    BY <1>2 DEF G!Begin, G!Making, GroupInv, G!TypeOK
  <1>4. /\ HasKept /\ FilesKept /\ OpensKept /\ MarredKept /\ Launching'
        /\ \A v \in Members : \A p : Opens(v, p) => Opens(v, p)'
        /\ \A v \in Members : \A c : (Has(v, c) => Has(v, c)') /\ (Lacks(v, c) => Lacks(v, c)')
    BY <1>1, MakerDevices
  <1>5. m.at = "create" /\ m.claimed = {} /\ u \notin m.todo
    BY <1>1, <1>2
  <1>6. NoNewRows /\ RowsLeft
    BY <1>1, <1>3, <1>5 DEF NoNewRows, RowsLeft, IsRow
  <1>7. MakersKept /\ ClaimedKept /\ TodoKept
    BY <1>3, <1>5 DEF MakersKept, ClaimedKept, TodoKept, InChat, GroupInv, OneMaker
  <1>8. \A v \in Members : gMake'[v].at \in {"register", "welcome"} => Has(v, gMake[v].chat)'
    BY <1>3, <1>4, <1>5 DEF GroupInv, Provided, InChat
  <1>9. UntouchedKept
    BY <1>1, <1>4, NobodyHears DEF GroupInv
  <1>10. Quiet
    BY <1>4, <1>6, <1>7, <1>8, <1>9 DEF Quiet
  <1>11. WelcomesOpen' /\ Fresh' /\ OneMaker' /\ Provided' /\ RowsSaved' /\ Joined'
    BY <1>1, <1>10, QuietKeeps
  <1>12. PackagesLeft
    BY <1>1 DEF PackagesLeft, MakerAlone, GroupInv, PackagesNumbered
  <1>13. PackagesNumbered' /\ Confirmed'
    BY <1>1, <1>4, <1>6, <1>12, NumberedKept, ConfirmedKept DEF GroupInv
  <1>14. PackagesKept' /\ HandedToOwner'
    BY <1>1, <1>4, <1>12, PackagesKeptStay DEF GroupInv, HandedToOwner, MakerAlone
  <1> QED
    BY <1>4, <1>11, <1>13, <1>14 DEF GroupInv

LEMMA CreateInv ==
    ASSUME G!GroupChatAssumption, GroupInv, G!TypeOK', NEW u \in Members, G!CreateConversation(u)
    PROVE  GroupInv'
  <1> USE DEF G!serverVars, G!deviceVars, G!historyVars
  <1>1. /\ UNCHANGED <<gPackages, gMade, gBatch, gReplaced, gQueue, gConfirmed, gSucceeded,
               gBackup, gHanded, gDisk, gMls, gMarred>>
        /\ MakerAlone /\ gMake[u].at = "create"
    BY DEF G!CreateConversation, MakerAlone
  <1>2. PICK c \in G!Chats :
           /\ gMembers[c] = {}
           /\ gMembers' = [gMembers EXCEPT ![c] = gMake[u].todo \cup {u}] \/ gMembers' = gMembers
           /\ \/ /\ gMembers' = [gMembers EXCEPT ![c] = gMake[u].todo \cup {u}]
                 /\ G!Making(u, "claim", c, gMake[u].todo, {})
              \/ G!GivesUp(u)
    BY DEF G!CreateConversation, G!Lost
  <1>3. PICK m : m = [at |-> "claim", chat |-> c, todo |-> gMake[u].todo, claimed |-> {}]
    OBVIOUS
  <1>4. m.at = "claim" /\ m.chat = c /\ m.todo = gMake[u].todo /\ m.claimed = {}
    BY <1>3
  <1>5. /\ \A v \in Members \ {u} : gMake'[v] = gMake[v]
        /\ \/ gMake'[u] = m /\ gMembers'[c] = gMake[u].todo \cup {u}
           \/ gMake'[u] = G!Idle
    BY <1>2, <1>3 DEF G!Making, G!GivesUp, GroupInv, G!TypeOK
  <1>6. \A d \in G!Chats : d # c => gMembers'[d] = gMembers[d]
    BY <1>2 DEF GroupInv, G!TypeOK
  <1>7. Untouched(c) /\ c \notin gSucceeded
    BY <1>2 DEF GroupInv, Fresh, Untouched
  <1>8. \A v \in Members : gMake[v].at \in InChat => gMake[v].chat \in G!Chats /\ gMake[v].chat # c
    BY <1>2 DEF GroupInv, OneMaker
  <1>9. G!Idle.at = "idle" /\ G!Idle.claimed = {} /\ G!Idle.todo = {}
    BY DEF G!Idle
  <1>10. /\ HasKept /\ FilesKept /\ OpensKept /\ MarredKept /\ Launching'
         /\ \A v \in Members : \A p : Opens(v, p) => Opens(v, p)'
         /\ \A v \in Members : \A d : (Has(v, d) => Has(v, d)') /\ (Lacks(v, d) => Lacks(v, d)')
    BY <1>1, MakerDevices
  <1>11. gMake[u].claimed = {} /\ u \notin gMake[u].todo
    BY <1>1 DEF GroupInv, OneMaker, InChat
  <1>12. \A v \in Members : gMake'[v].claimed = gMake[v].claimed
    BY <1>4, <1>5, <1>9, <1>11
  <1>13. NoNewRows /\ RowsLeft
    BY <1>1, <1>12 DEF NoNewRows, RowsLeft, IsRow
  <1>14. WelcomesOpen' /\ Confirmed' /\ HandedToOwner'
    BY <1>1, <1>10, <1>13, WelcomesOpenStay, ConfirmedKept DEF GroupInv, HandedToOwner
  <1>15. PackagesLeft
    BY <1>1 DEF PackagesLeft, GroupInv, PackagesNumbered
  <1>16. PackagesNumbered'
    BY <1>13, <1>15, NumberedKept DEF GroupInv
  <1>17. PackagesKept'
    BY <1>1, <1>10, <1>15, PackagesKeptStay DEF GroupInv
  <1>18. RowsSaved'
    BY <1>10, <1>13, RowsSavedKept DEF GroupInv
  <1>19. Joined'
    BY <1>1, <1>6, <1>7, <1>10, <1>13, JoinedKept DEF GroupInv, G!TypeOK
  <1>20. \A d : Untouched(d) => Untouched(d)'
    BY <1>1, <1>10 DEF Untouched
  <1>21. Fresh'
    <2>1. \A d \in G!Chats : gMembers'[d] = {} => Untouched(d)'
      BY <1>6, <1>7, <1>20 DEF GroupInv, Fresh
    <2>2. ASSUME NEW v \in Members, gMake'[v].at \in {"claim", "build"}, NEW d, d = gMake'[v].chat
          PROVE  Untouched(d)'
      <3>1. Untouched(d)
        BY <1>4, <1>5, <1>7, <1>9, <2>2 DEF GroupInv, Fresh
      <3> QED
        BY <1>20, <3>1
    <2> QED
      BY <2>1, <2>2 DEF Fresh
  <1>22. OneMaker'
    <2>1. ASSUME NEW v \in Members, gMake'[v].at \in InChat
          PROVE  /\ gMake'[v].chat \in G!Chats /\ v \in gMembers'[gMake'[v].chat]
                 /\ \A w \in gMake'[v].claimed : w.chat = gMake'[v].chat /\ w.to # v
                 /\ gMake'[v].at # "claim" => gMake'[v].todo = {}
      <3>1. CASE v = u
        BY <1>4, <1>5, <1>9, <2>1, <3>1 DEF InChat
      <3>2. CASE v # u
        BY <1>5, <1>6, <1>8, <2>1, <3>2 DEF GroupInv, OneMaker
      <3> QED
        BY <3>1, <3>2
    <2>2. \A v \in Members : gMake'[v].at \notin InChat => gMake'[v].claimed = {}
      BY <1>4, <1>5, <1>9 DEF GroupInv, OneMaker, InChat
    <2>3. \A v \in Members : v \notin gMake'[v].todo
      BY <1>4, <1>5, <1>9, <1>11 DEF GroupInv, OneMaker
    <2>4. \A v, z \in Members : gMake'[v].at \in InChat /\ gMake'[z].at \in InChat
                                  /\ gMake'[v].chat = gMake'[z].chat => v = z
      BY <1>4, <1>5, <1>8, <1>9 DEF GroupInv, OneMaker, InChat
    <2> QED
      BY <2>1, <2>2, <2>3, <2>4 DEF OneMaker
  <1>23. Provided'
    <2> SUFFICES ASSUME NEW v \in Members, gMake'[v].at \in InChat, NEW d, d = gMake'[v].chat
                 PROVE  /\ gMake'[v].at \in {"register", "welcome"} => Has(v, d)'
                        /\ \A z \in gMembers'[d] \ {v} :
                              \/ z \in gMake'[v].todo \/ z \in gMarred' \/ Has(z, d)'
                              \/ \E w \in gMake'[v].claimed \cup gQueue' \cup gHanded'[z] : ChatRow(w, z, d)
                        /\ \A z \in gMembers'[d] \ ({v} \cup gMarred') : InFiles(z, d)'
      BY DEF Provided, InFiles, ChatRow, Has
    <2>1. CASE v = u
      <3>1. gMake'[u] = m /\ d = c /\ gMembers'[c] = gMake[u].todo \cup {u}
        BY <1>4, <1>5, <1>9, <2>1 DEF InChat
      <3>2. gMembers'[c] \subseteq Members
        BY DEF G!TypeOK
      <3>3. \A z \in Members : InFiles(z, c)'
        BY <1>1, <1>7 DEF Untouched, Lacks, InFiles
      <3> QED
        BY <1>4, <2>1, <3>1, <3>2, <3>3
    <2>2. CASE v # u
      <3>1. gMake'[v] = gMake[v] /\ gMembers'[d] = gMembers[d] /\ d \in G!Chats
        BY <1>5, <1>6, <1>8, <2>2
      <3>2. gMembers[d] \subseteq Members
        BY <3>1 DEF GroupInv, G!TypeOK
      <3> QED
        BY <1>1, <3>1, <3>2 DEF GroupInv, Provided, Has, InFiles
    <2> QED
      BY <2>1, <2>2
  <1> QED
    BY <1>10, <1>14, <1>16, <1>17, <1>18, <1>19, <1>21, <1>22, <1>23 DEF GroupInv

LEMMA ClaimInv ==
    ASSUME G!GroupChatAssumption, GroupInv, G!TypeOK', NEW u \in Members, NEW v \in gMake[u].todo,
           G!ClaimKeyPackage(u, v)
    PROVE  GroupInv'
  <1> USE DEF G!serverVars, G!deviceVars, G!historyVars
  <1>1. /\ UNCHANGED <<gMembers, gMade, gBatch, gReplaced, gQueue, gConfirmed, gSucceeded,
               gBackup, gHanded, gDisk, gMls, gMarred>>
        /\ MakerAlone /\ gMake[u].at = "claim"
    BY DEF G!ClaimKeyPackage, MakerAlone
  <1>2. v \in Members /\ v # u
    BY DEF GroupInv, OneMaker, G!TypeOK
  <1>3. /\ HasKept /\ FilesKept /\ OpensKept /\ MarredKept /\ Launching'
        /\ \A z \in Members : \A p : Opens(z, p) => Opens(z, p)'
        /\ \A z \in Members : \A d : (Has(z, d) => Has(z, d)') /\ (Lacks(z, d) => Lacks(z, d)')
    BY <1>1, MakerDevices
  <1>4. gPackages' = gPackages \/ \E p \in gPackages[v] : gPackages' = G!Claimed(v, p)
    BY DEF G!ClaimKeyPackage, G!Lost, G!Oldest
  <1>5. \A z \in Members : gPackages'[z] \subseteq gPackages[z]
    <2>1. gPackages \in [Members -> SUBSET G!Packages]
      BY DEF GroupInv, G!TypeOK
    <2>2. CASE gPackages' = gPackages
      BY <2>2
    <2>3. CASE \E p \in gPackages[v] : gPackages' = G!Claimed(v, p)
      <3>1. PICK p \in gPackages[v] : gPackages' = [gPackages EXCEPT ![v] = gPackages[v] \ {p}]
        BY <2>3 DEF G!Claimed
      <3> QED
        BY <2>1, <3>1
    <2> QED
      BY <1>4, <2>2, <2>3
  <1>6. PackagesLeft
    BY <1>1, <1>5 DEF PackagesLeft, GroupInv, PackagesNumbered
  <1>7. PackagesKept' /\ Confirmed' /\ HandedToOwner'
    BY <1>1, <1>3, <1>6, PackagesKeptStay, ConfirmedKept DEF GroupInv, HandedToOwner
  <1>8. UntouchedKept
    BY <1>1, <1>3, NobodyHears DEF GroupInv
  <1>9. CASE G!GivesUp(u)
    <2>1. gMake'[u] = G!Idle /\ \A z \in Members : gMake'[z] = gMake[z] \/ gMake'[z] = G!Idle
      BY <1>9, GivesUpAlone DEF GroupInv
    <2>2. NoNewRows /\ RowsLeft
      BY <1>1, <2>1, RowsStay DEF GroupInv
    <2>3. MakersKept /\ ClaimedKept /\ TodoKept
      BY <2>1, MakersStay DEF GroupInv
    <2>4. \A z \in Members : gMake'[z].at \in {"register", "welcome"} => Has(z, gMake[z].chat)'
      BY <1>3, <2>1, MakersHave DEF GroupInv
    <2>5. Quiet
      BY <1>3, <1>8, <2>2, <2>3, <2>4 DEF Quiet
    <2>6. WelcomesOpen' /\ Fresh' /\ OneMaker' /\ Provided' /\ RowsSaved' /\ Joined'
      BY <1>1, <2>5, QuietKeeps
    <2>7. PackagesNumbered'
      BY <1>6, <2>2, NumberedKept DEF GroupInv
    <2> QED
      BY <1>3, <1>7, <2>6, <2>7 DEF GroupInv
  <1>10. CASE ~G!GivesUp(u)
    <2>1. PICK p \in G!Oldest(v) :
             /\ gPackages' = G!Claimed(v, p)
             /\ G!Making(u, IF gMake[u].todo \ {v} = {} THEN "build" ELSE "claim", gMake[u].chat,
                    gMake[u].todo \ {v},
                         gMake[u].claimed \cup {[to |-> v, chat |-> gMake[u].chat, package |-> p]})
      BY <1>10 DEF G!ClaimKeyPackage
    <2>2. PICK r : r = [to |-> v, chat |-> gMake[u].chat, package |-> p]
      OBVIOUS
    <2>3. r.to = v /\ r.chat = gMake[u].chat /\ r.package = p
      BY <2>2
    <2>4. p \in gPackages[v] /\ p \in G!Packages
      BY <1>2 DEF G!Oldest, GroupInv, G!TypeOK
    <2>5. PICK m : m = [at |-> IF gMake[u].todo \ {v} = {} THEN "build" ELSE "claim",
          chat |-> gMake[u].chat,
                        todo |-> gMake[u].todo \ {v}, claimed |-> gMake[u].claimed \cup {r}]
      OBVIOUS
    <2>6. /\ m.at \in {"claim", "build"}
          /\ m.at # "claim" => m.todo = {}
          /\ m.chat = gMake[u].chat /\ m.todo = gMake[u].todo \ {v}
                 /\ m.claimed = gMake[u].claimed \cup {r}
      BY <2>5
    <2>7. gMake'[u] = m /\ \A z \in Members \ {u} : gMake'[z] = gMake[z]
      BY <2>1, <2>2, <2>5 DEF G!Making, GroupInv, G!TypeOK
    <2>8. \A w : IsRow(w)' => IsRow(w) \/ w = r
      BY <1>1, <2>6, <2>7 DEF IsRow
    <2>9. gMake[u].at \in InChat /\ gMake[u].chat \in G!Chats /\ Untouched(gMake[u].chat)
      BY <1>1 DEF GroupInv, OneMaker, Fresh, InChat
    <2>10. MakersKept /\ ClaimedKept
      <3>1. /\ \A z \in Members : gMake[z].at \in InChat =>
                  /\ \A w \in gMake[z].claimed : w.chat = gMake[z].chat /\ w.to # z
                  /\ gMake[z].at # "claim" => gMake[z].todo = {}
            /\ \A z \in Members : gMake[z].at \notin InChat => gMake[z].claimed = {}
            /\ \A z \in Members : z \notin gMake[z].todo
        BY DEF GroupInv, OneMaker
      <3>2. m.at \in InChat
        BY <2>6 DEF InChat
      <3>3. \A w \in m.claimed : w.chat = gMake[u].chat /\ w.to # u
        BY <1>2, <2>3, <2>6, <2>9, <3>1
      <3>4. ClaimedKept
        BY <2>6, <2>7 DEF ClaimedKept
      <3>5. \A z \in Members \ {u} :
               \/ gMake'[z].at \notin InChat /\ gMake'[z].claimed = {} /\ z \notin gMake'[z].todo
               \/ /\ gMake[z].at \in InChat /\ gMake'[z].at \in InChat
                         /\ gMake'[z].chat = gMake[z].chat
                  /\ gMake'[z].todo \subseteq gMake[z].todo
                  /\ gMake'[z].at # "claim" => gMake'[z].todo = {}
                  /\ gMake'[z].at \in {"claim", "build"} => gMake[z].at \in {"claim", "build"}
                  /\ \A w \in gMake'[z].claimed : w.chat = gMake[z].chat /\ w.to # z
        BY <2>7, <3>1
      <3>6. /\ gMake[u].at \in InChat /\ gMake'[u].at \in InChat /\ gMake'[u].chat = gMake[u].chat
            /\ gMake'[u].todo \subseteq gMake[u].todo
            /\ gMake'[u].at # "claim" => gMake'[u].todo = {}
            /\ gMake[u].at \in {"claim", "build"}
            /\ \A w \in gMake'[u].claimed : w.chat = gMake[u].chat /\ w.to # u
        BY <1>1, <2>6, <2>7, <2>9, <3>2, <3>3
      <3> QED
        BY <3>4, <3>5, <3>6 DEF MakersKept
    <2>11. TodoKept
      <3>1. ChatRow(r, v, gMake[u].chat)
        BY <2>3, <2>4 DEF ChatRow, G!Packages
      <3> QED
        BY <2>6, <2>7, <3>1 DEF TodoKept
    <2>12. RowsLeft
      BY <1>1 DEF RowsLeft
    <2>13. \A z \in Members : gMake'[z].at \in {"register", "welcome"} => Has(z, gMake[z].chat)'
      <3>1. \A z \in Members : gMake[z].at \in {"register", "welcome"} => Has(z, gMake[z].chat)
        BY DEF GroupInv, Provided, InChat
      <3> QED
        BY <1>3, <2>6, <2>7, <3>1
    <2>14. Fresh' /\ OneMaker'
      BY <1>1, <1>8, <2>10, FreshKept, OneMakerKept DEF GroupInv
    <2>15. Provided' /\ Joined'
      BY <1>1, <1>3, <2>10, <2>11, <2>12, <2>13, ProvidedKept, JoinedKept DEF GroupInv
    <2>16. RowsSaved'
      <3>1. \A w : IsRow(w) /\ w.to \notin gMarred => InFiles(w.to, w.chat)
        BY DEF GroupInv, RowsSaved, InFiles
      <3>2. InFiles(r.to, r.chat)
        BY <1>2, <2>3, <2>9 DEF Untouched, Lacks, InFiles
      <3> QED
        BY <1>1, <2>8, <3>1, <3>2 DEF RowsSaved, InFiles
    <2>17. WelcomesOpen'
      <3>1. \A w : IsRow(w) /\ w.package # 0 => w.to \in gMarred \/ Has(w.to, w.chat)
            \/ Opens(w.to, w.package)
        BY DEF GroupInv, WelcomesOpen
      <3>2. r.to \in gMarred \/ Opens(r.to, r.package)
        BY <1>2, <2>3, <2>4 DEF GroupInv, PackagesKept
      <3> QED
        BY <1>1, <2>8, <3>1, <3>2 DEF WelcomesOpen, Has, Opens
    <2>18. PackagesNumbered'
      <3>1. \A z \in Members : gPackages'[z] \cap gBatch'[z] = {}
        BY <1>6 DEF PackagesLeft
      <3>2. \A z \in Members : \A q \in gPackages'[z] \cup gBatch'[z] : q <= gMade'[z]
        BY <1>6 DEF PackagesLeft, GroupInv, PackagesNumbered
      <3>3. \A w : IsRow(w) => w.to \in Members /\ w.package <= gMade[w.to]
                               /\ w.package \notin gPackages[w.to] \cup gBatch[w.to]
        BY RowTyped DEF GroupInv, PackagesNumbered
      <3>4. p <= gMade[v] /\ p \notin gBatch[v] /\ p \notin gPackages'[v]
        BY <1>2, <2>1, <2>4 DEF GroupInv, PackagesNumbered, G!Claimed, G!TypeOK
      <3>5. \A w : IsRow(w) => ~(w.to = r.to /\ w.package = r.package)
        BY <1>2, <2>3, <2>4, <3>3
      <3>6. \A w : IsRow(w)' => w.package <= gMade'[w.to]
            /\ w.package \notin gPackages'[w.to] \cup gBatch'[w.to]
        BY <1>1, <1>5, <2>3, <2>8, <3>3, <3>4
      <3>7. \A w, x : IsRow(w) /\ IsRow(x) /\ w.to = x.to /\ w.package = x.package
            /\ w.package # 0 => w = x
        BY DEF GroupInv, PackagesNumbered
      <3>8. \A w, x : IsRow(w)' /\ IsRow(x)' /\ w.to = x.to /\ w.package = x.package
            /\ w.package # 0 => w = x
        BY <2>8, <3>5, <3>7
      <3> QED
        BY <3>1, <3>2, <3>6, <3>8 DEF PackagesNumbered
    <2> QED
      BY <1>3, <1>7, <2>14, <2>15, <2>16, <2>17, <2>18 DEF GroupInv
  <1> QED
    BY <1>9, <1>10

LEMMA BuildInv ==
    ASSUME G!GroupChatAssumption, GroupInv, G!TypeOK', NEW u \in Members, G!BuildGroup(u)
    PROVE  GroupInv'
  <1> USE DEF G!serverVars, G!deviceVars, G!historyVars
  <1>1. /\ UNCHANGED <<gPackages, gMembers, gQueue, gConfirmed, gApp, gBackup, gBatch, gMade,
               gHanded, gSucceeded, gMarred, gReplaced>>
        /\ gMake[u].at = "build"
    BY DEF G!BuildGroup
  <1>2. PICK chat \in G!Chats : chat = gMake[u].chat
    BY <1>1 DEF GroupInv, OneMaker, InChat
  <1>3. PICK c1 : c1 = gMake[u].claimed
    OBVIOUS
  <1>4. PICK m : m = [at |-> "register", chat |-> chat, todo |-> {}, claimed |-> c1]
    OBVIOUS
  <1>5. m.at = "register" /\ m.chat = chat /\ m.todo = {} /\ m.claimed = gMake[u].claimed
    BY <1>3, <1>4
  <1>6. \/ gMake'[u] = G!Idle
        \/ /\ gMake'[u] = m /\ gMls[u] # None
           /\ gDisk' = G!Saved(u, gMls[u].private, gMls[u].mapping \cup {chat})
    <2>1. gMake \in [Members -> MakeState]
      BY DEF GroupInv, G!TypeOK, MakeState
    <2>2. \/ gMake' = [gMake EXCEPT ![u] = G!Idle]
          \/ /\ gMake' = [gMake EXCEPT ![u] = m] /\ gMls[u] # None
             /\ gDisk' = G!Saved(u, gMls[u].private, gMls[u].mapping \cup {chat})
      BY <1>2, <1>3, <1>4 DEF G!BuildGroup, G!GivesUp, G!Making
    <2> QED
      BY <2>1, <2>2
  <1>7. \A v \in Members \ {u} : gMake'[v] = gMake[v]
    BY DEF G!BuildGroup, G!GivesUp, G!Making, GroupInv, G!TypeOK
  <1>8. G!Idle.at = "idle" /\ G!Idle.claimed = {} /\ G!Idle.todo = {}
    BY DEF G!Idle
  <1>9. /\ \A v \in Members : \A c : Has(v, c) => Has(v, c)'
        /\ \A v \in Members : \A p : Opens(v, p) => Opens(v, p)'
        /\ \A v \in Members : \A c : Lacks(v, c) => Lacks(v, c)' \/ (v = u /\ c = chat)
        /\ \A v \in Members : \A c : InFiles(v, c) => InFiles(v, c)' \/ (v = u /\ c = chat)
        /\ gMake'[u] = m => Has(u, chat)'
        /\ \A v \in Members : gMls[v] # None => gMls'[v] # None
    <2>1. CASE UNCHANGED <<gMls, gDisk>> /\ G!GivesUp(u)
      <3>1. gMake'[u] = G!Idle /\ gMake'[u] # m
        BY <1>5, <1>8, <2>1, GivesUpAlone DEF GroupInv
      <3> QED
        BY <2>1, <3>1, SameDevices DEF InFiles
    <2>2. CASE gMls[u] # None /\ G!Holds(u, gMls[u].private, gMls[u].mapping \cup {chat})
               /\ (\/ gDisk' = G!Saved(u, gMls[u].private, gMls[u].mapping \cup {chat})
                   \/ G!HalfSaved(u, gMls[u].private))
      <3>0. gMls[u] \in G!Memories
        BY <2>2 DEF GroupInv, G!TypeOK
      <3>1. PICK private \in SUBSET G!Packages, mapping \in SUBSET G!Chats :
               private = gMls[u].private /\ mapping = gMls[u].mapping \cup {chat}
        BY <3>0 DEF G!Memories
      <3>2. G!TypeOK /\ Writes(u, private, mapping) /\ gMls[u].mapping \subseteq mapping
        BY <2>2, <3>1 DEF Writes, GroupInv
      <3>3. /\ \A v \in Members : \A c : Has(v, c) => Has(v, c)'
            /\ \A v \in Members : \A p : Opens(v, p) => Opens(v, p)' \/ (v = u /\ p \notin private)
            /\ \A v \in Members : \A c : Lacks(v, c) => Lacks(v, c)' \/ (v = u /\ c \in mapping)
            /\ \A v \in Members : \A c : InFiles(v, c) =>
                  \/ InFiles(v, c)'
                  \/ v = u /\ gDisk' # G!Saved(u, private, mapping)
                         /\ c \in mapping \ gMls[u].mapping
        BY <3>2, WritesKeep
      <3>4. /\ \A v \in Members \ {u} : gDisk'[v] = gDisk[v] /\ gMls'[v] = gMls[v]
            /\ gMls'[u] # None /\ gMls'[u].mapping = mapping
            /\ gDisk' = G!Saved(u, private, mapping) => gDisk'[u].mapping = mapping
        BY <3>2, WritesEffect
      <3>5. \A p : Opens(u, p) => p \in private
        BY <2>2, <3>1 DEF Opens
      <3>6. \A c : Lacks(u, c) => c \notin gMls[u].mapping
        BY <2>2 DEF Lacks
      <3>7. gMake'[u] = m => Has(u, chat)'
        <4>1. gMake'[u] = m => gDisk' = G!Saved(u, private, mapping)
          BY <1>5, <1>6, <1>8, <3>1
        <4> QED
          BY <3>1, <3>4, <4>1 DEF Has
      <3>8. /\ \A v \in Members : \A p : Opens(v, p) => Opens(v, p)'
            /\ \A v \in Members : \A c : Lacks(v, c) => Lacks(v, c)' \/ (v = u /\ c = chat)
            /\ \A v \in Members : \A c : InFiles(v, c) => InFiles(v, c)' \/ (v = u /\ c = chat)
        BY <3>1, <3>3, <3>5, <3>6
      <3>9. \A v \in Members : gMls[v] # None => gMls'[v] # None
        BY <3>4
      <3> QED
        BY <3>3, <3>7, <3>8, <3>9
    <2> QED
      BY <1>2, <2>1, <2>2 DEF G!BuildGroup, G!SaveFails
  <1>10. HasKept /\ FilesKept /\ OpensKept /\ MarredKept
    <2>1. \A w : IsRow(w)' => w.to \in Members
      BY DEF G!TypeOK, IsRow, G!WelcomeRows
    <2>2. FilesKept
      BY <1>1, <1>2, <1>9 DEF FilesKept
    <2> QED
      BY <1>1, <1>9, <2>1, <2>2 DEF HasKept, OpensKept, MarredKept
  <1>11. \A v \in Members : gMake'[v].claimed \subseteq gMake[v].claimed
    BY <1>5, <1>6, <1>7, <1>8
  <1>12. NoNewRows /\ RowsLeft
    BY <1>1, <1>11 DEF NoNewRows, RowsLeft, IsRow
  <1>13. MakersKept /\ ClaimedKept /\ TodoKept
    <2>1. /\ \A z \in Members : gMake[z].at \in InChat =>
                /\ \A w \in gMake[z].claimed : w.chat = gMake[z].chat /\ w.to # z
                /\ gMake[z].at # "claim" => gMake[z].todo = {}
          /\ \A z \in Members : gMake[z].at \notin InChat => gMake[z].claimed = {}
          /\ \A z \in Members : z \notin gMake[z].todo
      BY DEF GroupInv, OneMaker
    <2>2. gMake[u].at \in InChat /\ gMake[u].todo = {} /\ m.at \in InChat /\ G!Idle.at \notin InChat
      BY <1>1, <1>5, <1>8, <2>1 DEF InChat
    <2>3. MakersKept
      BY <1>2, <1>5, <1>6, <1>7, <1>8, <2>1, <2>2 DEF MakersKept
    <2>4. ClaimedKept
      BY <1>5, <1>6, <1>7, <1>8, <2>2 DEF ClaimedKept
    <2>5. TodoKept
      BY <1>6, <1>7, <2>2 DEF TodoKept
    <2> QED
      BY <2>3, <2>4, <2>5
  <1>14. \A v \in Members : gMake'[v].at \in {"register", "welcome"} => Has(v, gMake[v].chat)'
    <2>1. \A z \in Members : gMake[z].at \in {"register", "welcome"} => Has(z, gMake[z].chat)
      BY DEF GroupInv, Provided, InChat
    <2>2. gMake'[u].at \in {"register", "welcome"} => Has(u, gMake[u].chat)'
      BY <1>2, <1>5, <1>6, <1>8, <1>9
    <2> QED
      BY <1>7, <1>9, <2>1, <2>2
  <1>15. UntouchedKept
    <2> SUFFICES ASSUME NEW c \in G!Chats, Untouched(c),
                        \A z \in Members : gMake[z].at = "build" /\ gMake[z].chat = c
                        => gMake'[z].at \in {"claim", "build"}
                 PROVE  Untouched(c)'
      BY DEF UntouchedKept
    <2>1. c # chat
      BY <1>1, <1>2, <1>5, <1>6, <1>8
    <2>2. \A v \in Members : Lacks(v, c)'
      BY <1>9, <2>1 DEF Untouched
    <2> QED
      BY <1>1, <2>2 DEF Untouched
  <1>16. Quiet
    BY <1>10, <1>12, <1>13, <1>14, <1>15 DEF Quiet
  <1>17. WelcomesOpen' /\ Fresh' /\ OneMaker' /\ Provided' /\ RowsSaved' /\ Joined'
    BY <1>1, <1>16, QuietKeeps
  <1>18. PackagesLeft
    BY <1>1 DEF PackagesLeft, GroupInv, PackagesNumbered
  <1>19. PackagesNumbered' /\ Confirmed'
    BY <1>1, <1>10, <1>12, <1>18, NumberedKept, ConfirmedKept DEF GroupInv
  <1>20. PackagesKept'
    <2>1. \A v \in Members : \A p \in gPackages'[v] \cup gBatch'[v] : Opens(v, p) => Opens(v, p)'
      BY <1>9
    <2> QED
      BY <1>1, <1>10, <1>18, <2>1, PackagesKeptStay DEF GroupInv
  <1>21. Launching' /\ HandedToOwner'
    BY <1>1, <1>9 DEF GroupInv, Launching, HandedToOwner
  <1> QED
    BY <1>17, <1>19, <1>20, <1>21 DEF GroupInv

\* What a maker's other steps have in common: c is the chat, next what is left to do.
LEMMA MakerGoesOn ==
    ASSUME GroupInv, G!TypeOK', NEW u \in Members, gMake[u].at \in {"register", "welcome"},
           MakerAlone, NEW m,
           m = G!Idle \/ (m.at = "welcome" /\ m.chat = gMake[u].chat /\ m.todo = {}
           /\ m.claimed \subseteq gMake[u].claimed),
           gMake' = [gMake EXCEPT ![u] = m], gHanded' = gHanded, gPackages' = gPackages,
           gMembers' = gMembers,
           gQueue \subseteq gQueue', m # G!Idle => gMake[u].claimed \subseteq m.claimed \cup gQueue'
    PROVE  /\ MakersKept /\ ClaimedKept /\ TodoKept /\ RowsLeft /\ PackagesLeft
           /\ HasKept /\ FilesKept /\ OpensKept /\ MarredKept /\ Launching'
           /\ \A v \in Members : gMake'[v].at \in {"register", "welcome"} => Has(v, gMake[v].chat)'
           /\ PackagesKept' /\ HandedToOwner'
           /\ Has(u, gMake[u].chat)
           /\ gMake[u].chat \in G!Chats /\ ~Untouched(gMake[u].chat)
           /\ \A v \in Members : \A d : Lacks(v, d) => Lacks(v, d)'
           /\ \A v \in Members : gMake'[v].claimed \subseteq gMake[v].claimed
  <1> USE DEF InChat
  <1>1. /\ HasKept /\ FilesKept /\ OpensKept /\ MarredKept /\ Launching'
        /\ \A v \in Members : \A p : Opens(v, p) => Opens(v, p)'
        /\ \A v \in Members : \A d : (Has(v, d) => Has(v, d)') /\ (Lacks(v, d) => Lacks(v, d)')
    BY MakerDevices
  <1>2. gMake'[u] = m /\ \A v \in Members \ {u} : gMake'[v] = gMake[v]
    BY DEF GroupInv, G!TypeOK
  <1>3. G!Idle.at = "idle" /\ G!Idle.claimed = {} /\ G!Idle.todo = {}
    BY DEF G!Idle
  <1>4. /\ \A z \in Members : gMake[z].at \in InChat =>
              /\ \A w \in gMake[z].claimed : w.chat = gMake[z].chat /\ w.to # z
              /\ gMake[z].at # "claim" => gMake[z].todo = {}
        /\ \A z \in Members : gMake[z].at \notin InChat => gMake[z].claimed = {}
        /\ \A z \in Members : z \notin gMake[z].todo
    BY DEF GroupInv, OneMaker
  <1>5. gMake[u].at \in InChat /\ gMake[u].todo = {} /\ gMake[u].chat \in G!Chats
    BY <1>4 DEF GroupInv, OneMaker
  <1>6. MakersKept
    BY <1>2, <1>3, <1>4, <1>5 DEF MakersKept
  <1>7. ClaimedKept /\ TodoKept
    BY <1>2, <1>3, <1>5 DEF ClaimedKept, TodoKept
  <1>8. RowsLeft /\ PackagesLeft
    BY DEF RowsLeft, PackagesLeft, MakerAlone, GroupInv, PackagesNumbered
  <1>9. \A z \in Members : gMake[z].at \in {"register", "welcome"} => Has(z, gMake[z].chat)
    BY DEF GroupInv, Provided
  <1>10. \A v \in Members : gMake'[v].at \in {"register", "welcome"} => Has(v, gMake[v].chat)'
    BY <1>1, <1>2, <1>3, <1>9
  <1>11. PackagesKept' /\ HandedToOwner'
    BY <1>1, <1>8, PackagesKeptStay DEF GroupInv, HandedToOwner, MakerAlone
  <1>12. ~Untouched(gMake[u].chat)
    BY <1>9 DEF Untouched, Lacks, Has
  <1>13. \A v \in Members : gMake'[v].claimed \subseteq gMake[v].claimed
    BY <1>2, <1>3
  <1> QED
    BY <1>1, <1>5, <1>6, <1>7, <1>8, <1>9, <1>10, <1>11, <1>12, <1>13

LEMMA RegisterInv ==
    ASSUME G!GroupChatAssumption, GroupInv, G!TypeOK', NEW u \in Members, G!RegisterGroup(u)
    PROVE  GroupInv'
  <1> USE DEF G!serverVars, G!deviceVars, G!historyVars
  <1>1. /\ UNCHANGED <<gPackages, gMembers, gQueue, gHanded, gSucceeded, gBackup>>
        /\ MakerAlone /\ gMake[u].at = "register"
        /\ gConfirmed' = gConfirmed
               \/ gConfirmed' = gConfirmed \cup {[chat |-> gMake[u].chat, user |-> u]}
    BY DEF G!RegisterGroup, MakerAlone, G!Lost
  <1>2. PICK m : /\ gMake' = [gMake EXCEPT ![u] = m]
                 /\ \/ m = G!Idle
                    \/ m = [at |-> "welcome", chat |-> gMake[u].chat, todo |-> {},
                           claimed |-> gMake[u].claimed]
    BY DEF G!RegisterGroup, G!Making, G!GivesUp
  <1>3. /\ gMake[u].at \in {"register", "welcome"}
        /\ m = G!Idle \/ (m.at = "welcome" /\ m.chat = gMake[u].chat /\ m.todo = {}
               /\ m.claimed \subseteq gMake[u].claimed)
        /\ m # G!Idle => gMake[u].claimed \subseteq m.claimed \cup gQueue'
        /\ gQueue \subseteq gQueue'
    BY <1>1, <1>2
  <1>4. /\ MakersKept /\ ClaimedKept /\ TodoKept /\ RowsLeft /\ PackagesLeft
        /\ HasKept /\ FilesKept /\ OpensKept /\ MarredKept /\ Launching'
        /\ \A v \in Members : gMake'[v].at \in {"register", "welcome"} => Has(v, gMake[v].chat)'
        /\ PackagesKept' /\ HandedToOwner'
        /\ Has(u, gMake[u].chat)
        /\ gMake[u].chat \in G!Chats /\ ~Untouched(gMake[u].chat)
        /\ \A v \in Members : \A d : Lacks(v, d) => Lacks(v, d)'
        /\ \A v \in Members : gMake'[v].claimed \subseteq gMake[v].claimed
    BY <1>1, <1>2, <1>3, MakerGoesOn
  <1>5. NoNewRows
    BY <1>1, <1>4 DEF NoNewRows, IsRow
  <1>6. UntouchedKept
    <2>1. \A d : Untouched(d) => d # gMake[u].chat
      BY <1>4
    <2>2. \A e \in gConfirmed' : e \in gConfirmed \/ e.chat = gMake[u].chat
      BY <1>1
    <2> QED
      BY <1>1, <1>4, <2>1, <2>2 DEF UntouchedKept, Untouched
  <1>7. Quiet
    BY <1>4, <1>5, <1>6 DEF Quiet
  <1>8. WelcomesOpen' /\ Fresh' /\ OneMaker' /\ Provided' /\ RowsSaved' /\ Joined'
    BY <1>1, <1>7, QuietKeeps
  <1>9. PackagesNumbered'
    BY <1>4, <1>5, NumberedKept DEF GroupInv
  <1>10. Confirmed'
    <2>1. \A e \in gConfirmed : e.user \in Members /\ e.chat \in G!Chats
      BY DEF GroupInv, G!TypeOK
    <2>2. \A e \in gConfirmed : e.user \in gMarred \/ Has(e.user, e.chat)
      BY DEF GroupInv, Confirmed
    <2>3. \A e \in gConfirmed' : e.user \in gMarred \/ (e.user \in Members
          /\ e.chat \in G!Chats /\ Has(e.user, e.chat))
      BY <1>1, <1>4, <2>1, <2>2
    <2> QED
      BY <1>4, <2>3 DEF Confirmed, HasKept, MarredKept
  <1> QED
    BY <1>4, <1>8, <1>9, <1>10 DEF GroupInv

LEMMA StoreInv ==
    ASSUME G!GroupChatAssumption, GroupInv, G!TypeOK', NEW u \in Members, G!StoreWelcome(u)
    PROVE  GroupInv'
  <1> USE DEF G!serverVars, G!deviceVars, G!historyVars
  <1>1. /\ UNCHANGED <<gPackages, gMembers, gConfirmed, gHanded, gSucceeded, gBackup>>
        /\ MakerAlone /\ gMake[u].at = "welcome"
    BY DEF G!StoreWelcome, MakerAlone
  <1>2. PICK w \in gMake[u].claimed :
           \/ /\ gQueue' = gQueue \cup {w}
              /\ G!Making(u, "welcome", w.chat, {}, gMake[u].claimed \ {w})
           \/ gQueue' \in {gQueue, gQueue \cup {w}} /\ G!GivesUp(u)
    BY DEF G!StoreWelcome, G!Lost, G!GivesUpOn
  <1>3. PICK m : /\ gMake' = [gMake EXCEPT ![u] = m]
                 /\ \/ m = G!Idle
                    \/ /\ m = [at |-> "welcome", chat |-> w.chat, todo |-> {},
                              claimed |-> gMake[u].claimed \ {w}]
                       /\ gQueue' = gQueue \cup {w}
    BY <1>2 DEF G!Making, G!GivesUp
  <1>4. w.chat = gMake[u].chat
    BY <1>1 DEF GroupInv, OneMaker, InChat
  <1>5. /\ gMake[u].at \in {"register", "welcome"}
        /\ m = G!Idle \/ (m.at = "welcome" /\ m.chat = gMake[u].chat /\ m.todo = {}
               /\ m.claimed \subseteq gMake[u].claimed)
        /\ m # G!Idle => gMake[u].claimed \subseteq m.claimed \cup gQueue'
        /\ gQueue \subseteq gQueue'
    BY <1>1, <1>2, <1>3, <1>4
  <1>6. /\ MakersKept /\ ClaimedKept /\ TodoKept /\ RowsLeft /\ PackagesLeft
        /\ HasKept /\ FilesKept /\ OpensKept /\ MarredKept /\ Launching'
        /\ \A v \in Members : gMake'[v].at \in {"register", "welcome"} => Has(v, gMake[v].chat)'
        /\ PackagesKept' /\ HandedToOwner'
        /\ Has(u, gMake[u].chat)
        /\ gMake[u].chat \in G!Chats /\ ~Untouched(gMake[u].chat)
        /\ \A v \in Members : \A d : Lacks(v, d) => Lacks(v, d)'
        /\ \A v \in Members : gMake'[v].claimed \subseteq gMake[v].claimed
    BY <1>1, <1>3, <1>5, MakerGoesOn
  <1>7. \A x \in gQueue' : x \in gQueue \/ x = w
    BY <1>2
  <1>8. NoNewRows
    BY <1>1, <1>6, <1>7 DEF NoNewRows, IsRow
  <1>9. UntouchedKept
    <2>1. \A d : Untouched(d) => d # w.chat
      BY <1>4, <1>6
    <2> QED
      BY <1>1, <1>6, <1>7, <2>1 DEF UntouchedKept, Untouched
  <1>10. Quiet
    BY <1>6, <1>8, <1>9 DEF Quiet
  <1>11. WelcomesOpen' /\ Fresh' /\ OneMaker' /\ Provided' /\ RowsSaved' /\ Joined'
    BY <1>1, <1>10, QuietKeeps
  <1>12. PackagesNumbered' /\ Confirmed'
    BY <1>1, <1>6, <1>8, NumberedKept, ConfirmedKept DEF GroupInv
  <1> QED
    BY <1>6, <1>11, <1>12 DEF GroupInv

LEMMA FanOutInv ==
    ASSUME G!GroupChatAssumption, GroupInv, G!TypeOK', NEW u \in Members, G!FanOutCommit(u)
    PROVE  GroupInv'
  <1> USE DEF G!serverVars, G!deviceVars, G!historyVars
  <1>1. /\ UNCHANGED <<gPackages, gMembers, gRegistered, gConfirmed, gHanded, gBackup>>
        /\ MakerAlone /\ gMake[u].at = "welcome" /\ gMake[u].claimed = {} /\ G!GivesUp(u)
    BY DEF G!FanOutCommit, MakerAlone
  <1>2. PICK chat : chat = gMake[u].chat
    OBVIOUS
  <1>3. PICK some \in SUBSET [to : gMembers[chat] \ {u}, chat : {chat}, package : {0}] :
           /\ gQueue' = gQueue \cup some
           /\ gSucceeded' = gSucceeded \/ gSucceeded' = gSucceeded \cup {chat}
    BY <1>2 DEF G!FanOutCommit
  <1>4. \A r \in some : r.to \in gMembers[chat] /\ r.to # u /\ r.chat = chat /\ r.package = 0
    BY <1>3
  <1>5. gMake' = [gMake EXCEPT ![u] = G!Idle]
    BY <1>1 DEF G!GivesUp
  <1>6. gMake[u].at \in {"register", "welcome"} /\ gQueue \subseteq gQueue'
    BY <1>1, <1>3
  <1>7. /\ MakersKept /\ ClaimedKept /\ TodoKept /\ RowsLeft /\ PackagesLeft
        /\ HasKept /\ FilesKept /\ OpensKept /\ MarredKept /\ Launching'
        /\ \A v \in Members : gMake'[v].at \in {"register", "welcome"} => Has(v, gMake[v].chat)'
        /\ PackagesKept' /\ HandedToOwner'
        /\ Has(u, gMake[u].chat)
        /\ gMake[u].chat \in G!Chats /\ ~Untouched(gMake[u].chat)
        /\ \A v \in Members : \A d : Lacks(v, d) => Lacks(v, d)'
        /\ \A v \in Members : gMake'[v].claimed \subseteq gMake[v].claimed
    BY <1>1, <1>5, <1>6, MakerGoesOn
  <1>8. chat \in G!Chats /\ gMembers[chat] \subseteq Members
    BY <1>2, <1>7 DEF GroupInv, G!TypeOK
  <1>9. UntouchedKept
    <2>1. \A d : Untouched(d) => d # chat
      BY <1>2, <1>7
    <2>2. \A x \in gQueue' : x \in gQueue \/ x.chat = chat
      BY <1>3, <1>4
    <2>3. \A d : d \in gSucceeded' => d \in gSucceeded \/ d = chat
      BY <1>3
    <2> QED
      BY <1>1, <1>7, <2>1, <2>2, <2>3 DEF UntouchedKept, Untouched
  <1>10. \A w : IsRow(w)' => IsRow(w) \/ w \in some
    BY <1>1, <1>3, <1>7 DEF IsRow
  <1>11. Fresh' /\ OneMaker' /\ Provided' /\ Confirmed'
    BY <1>1, <1>7, <1>9, FreshKept, OneMakerKept, ProvidedKept, ConfirmedKept DEF GroupInv
  <1>12. \A w : IsRow(w) => w.to \in Members /\ w.chat \in G!Chats /\ w.package \in Nat
    BY RowTyped DEF GroupInv, G!WelcomeRows
  <1>13. WelcomesOpen'
    <2>1. \A w : IsRow(w) /\ w.package # 0 => w.to \in gMarred \/ Has(w.to, w.chat)
          \/ Opens(w.to, w.package)
      BY DEF GroupInv, WelcomesOpen
    <2>2. UNCHANGED <<gMls, gDisk, gMarred>>
      BY <1>1 DEF MakerAlone
    <2> QED
      BY <1>4, <1>10, <2>1, <2>2 DEF WelcomesOpen, Has, Opens
  <1>14. \A v \in gMembers[chat] \ ({u} \cup gMarred) : InFiles(v, chat)
    BY <1>1, <1>2 DEF GroupInv, Provided, InChat, InFiles
  <1>15. RowsSaved'
    <2>1. UNCHANGED <<gMls, gDisk, gMarred>>
      BY <1>1 DEF MakerAlone
    <2>2. \A w : IsRow(w) /\ w.to \notin gMarred => InFiles(w.to, w.chat)
      BY DEF GroupInv, RowsSaved, InFiles
    <2>3. \A w \in some : w.to \notin gMarred => InFiles(w.to, w.chat)
      BY <1>4, <1>14
    <2> QED
      BY <1>10, <2>1, <2>2, <2>3 DEF RowsSaved, InFiles
  <1>16. PackagesNumbered'
    <2>1. \A v \in Members : gPackages'[v] \cap gBatch'[v] = {}
      BY <1>7 DEF PackagesLeft
    <2>2. \A v \in Members : \A p \in gPackages'[v] \cup gBatch'[v] : p <= gMade'[v]
      BY <1>7 DEF PackagesLeft, GroupInv, PackagesNumbered
    <2>3. \A v \in Members : gMade'[v] = gMade[v] /\ gMade[v] \in Nat
                             /\ gPackages'[v] \cup gBatch'[v] \subseteq gPackages[v] \cup gBatch[v]
      BY <1>7 DEF PackagesLeft, GroupInv, G!TypeOK
    <2>4. \A v \in Members : 0 \notin gPackages'[v] \cup gBatch'[v]
      BY DEF G!TypeOK, G!Packages
    <2>5. \A w : IsRow(w) => w.package <= gMade'[w.to]
          /\ w.package \notin gPackages'[w.to] \cup gBatch'[w.to]
      BY <1>12, <2>3 DEF GroupInv, PackagesNumbered
    <2>6. \A w \in some : w.package <= gMade'[w.to]
          /\ w.package \notin gPackages'[w.to] \cup gBatch'[w.to]
      BY <1>4, <1>8, <2>3, <2>4
    <2>7. \A w, x : IsRow(w) /\ IsRow(x) /\ w.to = x.to /\ w.package = x.package
          /\ w.package # 0 => w = x
      BY DEF GroupInv, PackagesNumbered
    <2>8. \A w, x : IsRow(w)' /\ IsRow(x)' /\ w.to = x.to /\ w.package = x.package
          /\ w.package # 0 => w = x
      BY <1>4, <1>10, <2>7
    <2> QED
      BY <1>10, <2>1, <2>2, <2>5, <2>6, <2>8 DEF PackagesNumbered
  <1>17. Joined'
    <2>1. \A c \in gSucceeded : \A v \in gMembers[c] \ gMarred' :
             Has(v, c)' \/ \E w \in gQueue' \cup gHanded'[v] : ChatRow(w, v, c)
      BY <1>7, JoinedStay DEF GroupInv
    <2>2. \A v \in gMembers[chat] \ gMarred' :
             Has(v, chat)' \/ \E w \in gQueue' \cup gHanded'[v] : ChatRow(w, v, chat)
      <3> SUFFICES ASSUME NEW v \in gMembers[chat], v \notin gMarred', ~Has(v, chat)'
                   PROVE  \E w \in gQueue' \cup gHanded'[v] : ChatRow(w, v, chat)
        OBVIOUS
      <3>1. v \in Members /\ v \notin gMarred /\ ~Has(v, chat)
        BY <1>7, <1>8 DEF HasKept, MarredKept
      <3>2. v # u
        BY <1>2, <1>7, <3>1
      <3>3. gMake[u].todo = {} /\ gMake[u].claimed = {}
        BY <1>1 DEF GroupInv, OneMaker, InChat
      <3>4. \/ v \in gMake[u].todo \/ v \in gMarred \/ Has(v, chat)
            \/ \E w \in gMake[u].claimed \cup gQueue \cup gHanded[v] : ChatRow(w, v, chat)
        BY <1>1, <1>2, <3>2 DEF GroupInv, Provided, InChat
      <3> QED
        BY <1>1, <1>3, <3>1, <3>3, <3>4
    <2> QED
      BY <1>1, <1>3, <2>1, <2>2 DEF Joined, ChatRow
  <1> QED
    BY <1>7, <1>11, <1>13, <1>15, <1>16, <1>17 DEF GroupInv

(***************************************************************************)
(* Handling the queue                                                      *)
(***************************************************************************)
LEMMA FetchInv ==
    ASSUME G!GroupChatAssumption, GroupInv, G!TypeOK', NEW u \in Members, G!FetchWelcomes(u)
    PROVE  GroupInv'
  <1> USE DEF G!serverVars, G!deviceVars, G!historyVars
  <1>1. UNCHANGED <<gPackages, gMembers, gConfirmed, gMls, gDisk, gBackup, gBatch, gMade, gMake,
        gSucceeded, gReplaced>>
    BY DEF G!FetchWelcomes
  <1>2. PICK mine : mine = {w \in gQueue : w.to = u}
    OBVIOUS
  <1>3. /\ gQueue' = gQueue \ mine
        /\ \/ gHanded' = [gHanded EXCEPT ![u] = @ \cup mine] /\ gMarred' = gMarred
           \/ gHanded' = gHanded /\ (mine = {} \/ u \in gMarred') /\ gMarred \subseteq gMarred'
    BY <1>2 DEF G!FetchWelcomes
  <1>4. \A v \in Members : gHanded[v] \subseteq gHanded'[v]
        /\ gHanded'[v] \subseteq gHanded[v] \cup gQueue
                           /\ (v # u => gHanded'[v] = gHanded[v])
    BY <1>2, <1>3 DEF GroupInv, G!TypeOK
  <1>5. /\ HasKept /\ FilesKept /\ OpensKept
        /\ \A v \in Members : \A p : Opens(v, p) => Opens(v, p)'
        /\ \A v \in Members : \A c : (Has(v, c) => Has(v, c)') /\ (Lacks(v, c) => Lacks(v, c)')
    BY <1>1, SameDevices
  <1>6. MarredKept
    BY <1>3 DEF MarredKept
  <1>7. NoNewRows
    BY <1>1, <1>3, <1>4 DEF NoNewRows, IsRow
  <1>8. RowsLeft
    <2> SUFFICES ASSUME NEW v \in Members \ gMarred', NEW w \in gQueue \cup gHanded[v], w.to = v
                 PROVE  w \in gQueue' \cup gHanded'[v]
      BY DEF RowsLeft
    <2>1. CASE w \in gHanded[v]
      BY <1>4, <2>1
    <2>2. CASE w \in gQueue
      BY <1>2, <1>3, <2>2 DEF GroupInv, G!TypeOK
    <2> QED
      BY <2>1, <2>2
  <1>9. \A v \in Members : gMake'[v] = gMake[v]
    BY <1>1
  <1>10. MakersKept /\ ClaimedKept /\ TodoKept
    BY <1>9, MakersStay DEF GroupInv
  <1>11. \A v \in Members : gMake'[v].at \in {"register", "welcome"} => Has(v, gMake[v].chat)'
    BY <1>5, <1>9, MakersHave DEF GroupInv
  <1>12. UntouchedKept
    BY <1>1, <1>3, <1>4, <1>5 DEF UntouchedKept, Untouched
  <1>13. Quiet
    BY <1>5, <1>6, <1>7, <1>8, <1>10, <1>11, <1>12 DEF Quiet
  <1>14. WelcomesOpen' /\ Fresh' /\ OneMaker' /\ Provided' /\ RowsSaved' /\ Joined'
    BY <1>1, <1>13, QuietKeeps
  <1>15. PackagesLeft
    BY <1>1 DEF PackagesLeft, GroupInv, PackagesNumbered
  <1>16. PackagesNumbered' /\ Confirmed'
    BY <1>1, <1>5, <1>6, <1>7, <1>15, NumberedKept, ConfirmedKept DEF GroupInv
  <1>17. PackagesKept'
    BY <1>1, <1>5, <1>6, <1>15, PackagesKeptStay DEF GroupInv
  <1>18. HandedToOwner'
    <2>1. \A w \in gHanded'[u] : w \in gHanded[u] \/ w \in mine
      BY <1>3 DEF GroupInv, G!TypeOK
    <2> QED
      BY <1>2, <1>4, <2>1 DEF GroupInv, HandedToOwner
  <1>19. Launching'
    <2>1. \A v \in Members \ {u} : gApp'[v] = gApp[v]
      BY DEF G!FetchWelcomes, G!Goes, GroupInv, G!TypeOK
    <2>2. gApp[u] \in {"welcomes", "up"} /\ gApp'[u] \in {"up", "joining"} /\ (gApp[u] = "up"
          => gApp'[u] = "up")
      BY DEF G!FetchWelcomes, G!Goes, GroupInv, G!TypeOK
    <2> QED
      BY <1>1, <2>1, <2>2 DEF GroupInv, Launching
  <1> QED
    BY <1>14, <1>16, <1>17, <1>18, <1>19 DEF GroupInv

LEMMA HandleInv ==
    ASSUME G!GroupChatAssumption, GroupInv, G!TypeOK', NEW u \in Members, NEW w \in gHanded[u],
           G!HandleRow(u, w)
    PROVE  GroupInv'
  <1> USE DEF G!serverVars, G!deviceVars, G!historyVars
  <1>1. UNCHANGED <<gPackages, gMembers, gQueue, gApp, gBackup, gBatch, gMade, gMake, gSucceeded,
        gReplaced>>
    BY DEF G!HandleRow
  <1>2. gHanded'[u] = gHanded[u] \ {w} /\ \A v \in Members \ {u} : gHanded'[v] = gHanded[v]
    BY DEF G!HandleRow, GroupInv, G!TypeOK
  <1>3. IsRow(w) /\ w.to = u /\ w.chat \in G!Chats /\ w.package \in Nat
    <2>1. IsRow(w)
      BY DEF IsRow
    <2> QED
      BY <2>1, RowTyped DEF GroupInv, HandedToOwner, G!WelcomeRows
  <1>4. u \in gMarred \/ InFiles(u, w.chat)
    BY <1>3 DEF GroupInv, RowsSaved, InFiles
  <1>5. /\ MarredKept
        /\ \A v \in Members : \A c : Has(v, c) => Has(v, c)'
        /\ \A v \in Members : \A p : Opens(v, p) => Opens(v, p)' \/ (v = u /\ p = w.package)
        /\ \A v \in Members : \A c : Lacks(v, c) => Lacks(v, c)' \/ (v = u /\ c = w.chat)
        /\ \A v \in Members : \A c : InFiles(v, c) => InFiles(v, c)' \/ (v = u /\ u \in gMarred')
        /\ \A v \in Members : gMls[v] # None => gMls'[v] # None
        /\ w.package # 0 \/ gConfirmed' # gConfirmed => u \in gMarred' \/ Has(u, w.chat)'
        /\ (\E p \in {w.package} : Opens(u, p) /\ ~Opens(u, p)') => u \in gMarred'
               \/ Has(u, w.chat)'
        /\ gConfirmed' \subseteq gConfirmed \cup {[chat |-> w.chat, user |-> u]}
    <2>1. CASE /\ gMls[u] # None /\ w.chat \in gMls[u].mapping
               /\ G!Acknowledge(u, w)
               /\ UNCHANGED <<gMls, gDisk, gMarred>>
      <3>1. u \in gMarred' \/ Has(u, w.chat)'
        BY <1>4, <2>1 DEF InFiles, Has
      <3>2. gConfirmed' \subseteq gConfirmed \cup {[chat |-> w.chat, user |-> u]}
        BY <2>1 DEF G!Acknowledge
      <3> QED
        BY <2>1, <3>1, <3>2, SameDevices DEF MarredKept, InFiles
    <2>2. CASE /\ gMls[u] # None /\ w.package \in gMls[u].private /\ w.chat \notin gMls[u].mapping
               /\ G!Holds(u, gMls[u].private \ {w.package}, gMls[u].mapping \cup {w.chat})
               /\ \/ /\ gDisk' = G!Saved(u, gMls[u].private \ {w.package},
                            gMls[u].mapping \cup {w.chat})
                     /\ G!Acknowledge(u, w) /\ UNCHANGED gMarred
                  \/ /\ G!SaveFails(u, gMls[u].private \ {w.package})
                     /\ UNCHANGED gConfirmed /\ gMarred' = gMarred \cup {u}
      <3>0. gMls[u] \in G!Memories
        BY <2>2 DEF GroupInv, G!TypeOK
      <3>1. PICK private \in SUBSET G!Packages, mapping \in SUBSET G!Chats :
               private = gMls[u].private \ {w.package} /\ mapping = gMls[u].mapping \cup {w.chat}
        BY <1>3, <3>0 DEF G!Memories
      <3>2. G!TypeOK /\ Writes(u, private, mapping) /\ gMls[u].mapping \subseteq mapping
        BY <2>2, <3>1 DEF Writes, GroupInv, G!SaveFails
      <3>3. /\ \A v \in Members : \A c : Has(v, c) => Has(v, c)'
            /\ \A v \in Members : \A p : Opens(v, p) => Opens(v, p)' \/ (v = u /\ p \notin private)
            /\ \A v \in Members : \A c : Lacks(v, c) => Lacks(v, c)' \/ (v = u /\ c \in mapping)
            /\ \A v \in Members : \A c : InFiles(v, c) =>
                  \/ InFiles(v, c)'
                  \/ v = u /\ gDisk' # G!Saved(u, private, mapping)
                         /\ c \in mapping \ gMls[u].mapping
        BY <3>2, WritesKeep
      <3>4. /\ \A v \in Members \ {u} : gDisk'[v] = gDisk[v] /\ gMls'[v] = gMls[v]
            /\ gMls'[u] # None /\ gMls'[u].mapping = mapping
            /\ gDisk' = G!Saved(u, private, mapping) => gDisk'[u].mapping = mapping
        BY <3>2, WritesEffect
      <3>5. \A p : Opens(u, p) => p \in gMls[u].private
        BY <2>2 DEF Opens
      <3>6. \A c : Lacks(u, c) => c \notin gMls[u].mapping
        BY <2>2 DEF Lacks
      <3>7. u \in gMarred' \/ gDisk' = G!Saved(u, private, mapping)
        BY <2>2, <3>1
      <3>8. u \in gMarred' \/ Has(u, w.chat)'
        BY <3>1, <3>4, <3>7 DEF Has
      <3>9. /\ \A v \in Members : \A p : Opens(v, p) => Opens(v, p)' \/ (v = u /\ p = w.package)
            /\ \A v \in Members : \A c : Lacks(v, c) => Lacks(v, c)' \/ (v = u /\ c = w.chat)
            /\ \A v \in Members : \A c : InFiles(v, c) => InFiles(v, c)' \/ (v = u
                   /\ u \in gMarred')
        BY <3>1, <3>3, <3>5, <3>6, <3>7
      <3>10. \A v \in Members : gMls[v] # None => gMls'[v] # None
        BY <3>4
      <3>11. MarredKept /\ gConfirmed' \subseteq gConfirmed \cup {[chat |-> w.chat, user |-> u]}
        BY <2>2 DEF MarredKept, G!Acknowledge
      <3> QED
        BY <3>3, <3>8, <3>9, <3>10, <3>11
    <2>3. CASE /\ ~(gMls[u] # None /\ w.package \in gMls[u].private)
               /\ gMls[u] # None => w.chat \notin gMls[u].mapping
               /\ G!Logged(u, w)
               /\ gMarred' = IF gMls[u] = None THEN gMarred \cup {u} ELSE gMarred
               /\ UNCHANGED <<gMls, gDisk>>
      <3>1. w.package # 0 => u \in gMarred'
        <4>1. w.package # 0 => u \in gMarred \/ Has(u, w.chat) \/ Opens(u, w.package)
          BY <1>3 DEF GroupInv, WelcomesOpen
        <4>2. gMls[u] # None => ~Has(u, w.chat) /\ ~Opens(u, w.package)
          BY <2>3 DEF Has, Opens
        <4> QED
          BY <2>3, <4>1, <4>2
      <3>2. gConfirmed' = gConfirmed /\ MarredKept
        BY <2>3 DEF G!Logged, MarredKept
      <3> QED
        BY <2>3, <3>1, <3>2, SameDevices DEF InFiles
    <2> QED
      BY <2>1, <2>2, <2>3 DEF G!HandleRow
  <1>6. \A x : IsRow(x)' => IsRow(x)
    BY <1>1, <1>2 DEF IsRow
  <1>7. HasKept /\ FilesKept /\ NoNewRows
    BY <1>5, <1>6 DEF HasKept, FilesKept, NoNewRows
  <1>8. OpensKept
    <2> SUFFICES ASSUME NEW x, IsRow(x)', x.package # 0, x.to \notin gMarred', Opens(x.to,
                        x.package),
                        ~Opens(x.to, x.package)'
                 PROVE  Has(x.to, x.chat)'
      BY DEF OpensKept
    <2>1. IsRow(x) /\ x.to \in Members
      BY <1>6, RowTyped DEF GroupInv
    <2>2. x.to = u /\ x.package = w.package
      BY <1>5, <2>1
    <2>3. x = w
      BY <1>3, <2>1, <2>2 DEF GroupInv, PackagesNumbered
    <2> QED
      BY <1>5, <2>2, <2>3
  <1>9. RowsLeft
    BY <1>1, <1>2, <1>5 DEF RowsLeft
  <1>10. \A v \in Members : gMake'[v] = gMake[v]
    BY <1>1
  <1>11. MakersKept /\ ClaimedKept /\ TodoKept
    BY <1>10, MakersStay DEF GroupInv
  <1>12. \A v \in Members : gMake'[v].at \in {"register", "welcome"} => Has(v, gMake[v].chat)'
    BY <1>5, <1>10, MakersHave DEF GroupInv
  <1>13. UntouchedKept
    <2> SUFFICES ASSUME NEW c \in G!Chats, Untouched(c) PROVE Untouched(c)'
      BY DEF UntouchedKept
    <2>1. c # w.chat
      BY DEF Untouched
    <2>2. \A e \in gConfirmed' : e.chat # c
      BY <1>5, <2>1 DEF Untouched
    <2>3. \A v \in Members : Lacks(v, c)'
      BY <1>5, <2>1 DEF Untouched
    <2> QED
      BY <1>1, <1>2, <2>2, <2>3 DEF Untouched
  <1>14. Quiet
    BY <1>5, <1>7, <1>8, <1>9, <1>11, <1>12, <1>13 DEF Quiet
  <1>15. WelcomesOpen' /\ Fresh' /\ OneMaker' /\ Provided' /\ RowsSaved' /\ Joined'
    BY <1>1, <1>14, QuietKeeps
  <1>16. PackagesLeft
    BY <1>1 DEF PackagesLeft, GroupInv, PackagesNumbered
  <1>17. PackagesNumbered'
    BY <1>7, <1>16, NumberedKept DEF GroupInv
  <1>18. PackagesKept'
    <2>1. w.package \notin gPackages[u] \cup gBatch[u]
      BY <1>3 DEF GroupInv, PackagesNumbered
    <2>2. \A v \in Members : \A p \in gPackages'[v] \cup gBatch'[v] : Opens(v, p) => Opens(v, p)'
      BY <1>1, <1>5, <2>1
    <2> QED
      BY <1>1, <1>5, <1>16, <2>2, PackagesKeptStay DEF GroupInv
  <1>19. Confirmed'
    <2>1. \A e \in gConfirmed : e.user \in Members /\ e.chat \in G!Chats
          /\ (e.user \in gMarred \/ Has(e.user, e.chat))
      BY DEF GroupInv, G!TypeOK, Confirmed
    <2>2. \A e \in gConfirmed : e.user \in gMarred' \/ Has(e.user, e.chat)'
      BY <1>5, <2>1 DEF MarredKept
    <2>3. \A e \in gConfirmed' : e \in gConfirmed \/ (gConfirmed' # gConfirmed /\ e.user = u
          /\ e.chat = w.chat)
      BY <1>5
    <2> QED
      BY <1>5, <2>2, <2>3 DEF Confirmed
  <1>20. HandedToOwner' /\ Launching'
    BY <1>1, <1>2, <1>5 DEF GroupInv, HandedToOwner, Launching
  <1> QED
    BY <1>15, <1>17, <1>18, <1>19, <1>20 DEF GroupInv

(***************************************************************************)
(* The specification                                                       *)
(***************************************************************************)
LEMMA GroupInit == G!GroupChatAssumption /\ G!Init => GroupInv
  <1> SUFFICES ASSUME G!GroupChatAssumption, G!Init PROVE GroupInv
    OBVIOUS
  <1>1. G!TypeOK
    BY GroupTypeInit
  <1>2. /\ \A u \in Members : /\ gPackages[u] = {} /\ gBatch[u] = {} /\ gHanded[u] = {}
               /\ gApp[u] = "new"
                              /\ gMls[u] = None /\ gMake[u] = G!Idle /\ gDisk[u] = G!NoFiles
                                     /\ gBackup[u] = G!NoFiles
        /\ gQueue = {} /\ gConfirmed = {} /\ gSucceeded = {} /\ gMarred = {} /\ gReplaced = {}
    BY DEF G!Init
  <1>3. G!Idle.at = "idle" /\ G!Idle.claimed = {} /\ G!Idle.todo = {} /\ G!NoFiles.mapping = {}
    BY DEF G!Idle, G!NoFiles
  <1>4. \A w : ~IsRow(w)
    BY <1>2, <1>3 DEF IsRow
  <1>5. Launching /\ PackagesNumbered /\ PackagesKept /\ WelcomesOpen /\ HandedToOwner
    BY <1>2, <1>4 DEF Launching, PackagesNumbered, PackagesKept, WelcomesOpen, HandedToOwner
  <1>6. Fresh
    BY <1>2, <1>3 DEF Fresh, Untouched, Lacks
  <1>7. OneMaker /\ Provided
    BY <1>2, <1>3 DEF OneMaker, Provided, InChat
  <1>8. RowsSaved /\ Joined /\ Confirmed
    BY <1>2, <1>4 DEF RowsSaved, Joined, Confirmed
  <1> QED
    BY <1>1, <1>5, <1>6, <1>7, <1>8 DEF GroupInv

LEMMA GroupStep == G!GroupChatAssumption /\ GroupInv /\ [G!Next]_G!vars => GroupInv'
  <1> SUFFICES ASSUME G!GroupChatAssumption, GroupInv, [G!Next]_G!vars PROVE GroupInv'
    OBVIOUS
  <1>1. G!TypeOK'
    BY GroupTypeStep DEF GroupInv
  <1>2. CASE UNCHANGED G!vars
    <2>1. CASE Members = {}
      BY <1>1, <1>2, <2>1 DEF GroupInv, G!vars, G!serverVars, G!deviceVars, G!historyVars,
         Launching, PackagesNumbered, PackagesKept, WelcomesOpen, HandedToOwner, Fresh,
         Untouched, Lacks, OneMaker, Provided, RowsSaved, Joined, Confirmed, IsRow, Has, Opens,
         ChatRow
    <2>2. CASE Members # {}
      BY <1>1, <1>2, <2>2, LaunchesInv
    <2> QED
      BY <2>1, <2>2
  <1>3. ASSUME NEW u \in Members, G!LaunchStep(u) PROVE GroupInv'
    BY <1>1, <1>3, LaunchesInv, MakeInv DEF G!LaunchStep, LaunchAlone
  <1>4. ASSUME NEW u \in Members, G!CreateStep(u) PROVE GroupInv'
    BY <1>1, <1>4, BeginInv, CreateInv, ClaimInv, BuildInv, RegisterInv, StoreInv, FanOutInv
       DEF G!CreateStep
  <1>5. ASSUME NEW u \in Members, G!BackUp(u) PROVE GroupInv'
    BY <1>1, <1>5, LaunchesInv DEF LaunchAlone
  <1> QED
    BY <1>1, <1>2, <1>3, <1>4, <1>5, FetchInv, HandleInv, StopInv, ReplaceInv DEF G!Next

\* Every reachable state of making a group chat is well typed, for any people and chats.
THEOREM GroupTypeCorrect == G!Spec => []G!TypeOK
  <1>1. GroupInv => G!TypeOK
    BY DEF GroupInv
  <1> QED
    BY <1>1, GroupInit, GroupStep, Assumed, PTL DEF G!Spec

\* A key package on the server opens with its owner's files, but for a replaced
\* device that has not had the old ones deleted (mls.rs upload_key_packages, save_state).
THEOREM PackagesOpenCorrect == G!Spec => []PackagesOpen
  <1>1. GroupInv => G!PackagesOpen
    BY DEF GroupInv, PackagesKept, Opens, G!PackagesOpen
  <1> QED
    BY <1>1, GroupInit, GroupStep, Assumed, PTL DEF G!Spec, PackagesOpen

\* A group chat reported as made can be joined by everybody whose device lost nothing
\* (mls.rs create_group_multi, process_welcome).
THEOREM EveryoneCanJoinCorrect == G!Spec => []EveryoneCanJoin
  <1>1. GroupInv => G!EveryoneCanJoin
    <2> SUFFICES ASSUME GroupInv, NEW c \in gSucceeded, NEW u \in gMembers[c] \ gMarred
                 PROVE  G!CanJoin(u, c)
      BY DEF G!EveryoneCanJoin
    <2>1. u \in Members /\ c \in G!Chats
      BY DEF GroupInv, G!TypeOK
    <2>2. Has(u, c) \/ \E w \in gQueue \cup gHanded[u] : ChatRow(w, u, c)
      BY DEF GroupInv, Joined
    <2>3. CASE Has(u, c)
      BY <2>3 DEF Has, G!CanJoin, G!State
    <2>4. CASE ~Has(u, c)
      <3>1. PICK w \in gQueue \cup gHanded[u] : ChatRow(w, u, c)
        BY <2>2, <2>4
      <3>2. IsRow(w)
        BY <2>1 DEF IsRow
      <3>3. Opens(u, w.package)
        BY <2>4, <3>1, <3>2 DEF GroupInv, WelcomesOpen, ChatRow
      <3> QED
        BY <3>1, <3>3 DEF ChatRow, Opens, G!CanJoin, G!State
    <2> QED
      BY <2>3, <2>4
  <1> QED
    BY <1>1, GroupInit, GroupStep, Assumed, PTL DEF G!Spec, EveryoneCanJoin

\* Who is confirmed has the group, in whatever order welcome and commit were handled
\* (mls.rs fetch_welcomes, process_welcome).
THEOREM ConfirmedHasJoinedCorrect == G!Spec => []ConfirmedHasJoined
  <1>1. GroupInv => G!ConfirmedHasJoined
    BY DEF GroupInv, Confirmed, Has, G!ConfirmedHasJoined, G!State
  <1> QED
    BY <1>1, GroupInit, GroupStep, Assumed, PTL DEF G!Spec, ConfirmedHasJoined
=============================================================================

------------------------------ MODULE Screens ------------------------------
(***************************************************************************)
(* The screens beside the open conversation: SignIn, ConversationList,     *)
(* Friends, ProfileForm, DevicePreview and GroupChat.  They share no       *)
(* state, so a behaviour is one of them at work, scene says which, while   *)
(* the others stay in their first state.                                   *)
(***************************************************************************)
EXTENDS SignIn

CONSTANTS Direct, Friend, Groups, MaxRows, MaxVisits,             \* ConversationList
          People, Me, Views, MaxRequests, MaxActions,             \* Friends
          Names, Images, Statuses, TakenNames, First, Forms,      \* ProfileForm
          MaxEdits, MaxOpens, MaxSaves,
          Preferences, Defaults, MaxStarts, MaxMishaps,           \* DevicePreview
          Members, Makers, Batch, Low, MaxChats,                  \* GroupChat
          MaxFailures  \* bound: failing calls of one of them

VARIABLE scene

\* ConversationList
VARIABLES
    lExists, lUnread, lOthers, lListed, lBadge, lListLoading, lProfileLoading, lRefreshes,
    lFetching, lOpen, lReads, lDialog, lPicked, lCreating, lFrames, lAsked, lNewest,
    lDisturbed, lRows, lOpens, lFaults
lVars == <<lExists, lUnread, lOthers, lListed, lBadge, lListLoading, lProfileLoading, lRefreshes,
             lFetching, lOpen, lReads, lDialog, lPicked, lCreating, lFrames, lAsked,
             lNewest, lDisturbed, lRows, lOpens, lFaults>>

L == INSTANCE ConversationList WITH
    MaxOpens <- MaxVisits, MaxFaults <- MaxFailures, exists <- lExists, unread <- lUnread,
    others <- lOthers, listed <- lListed, badge <- lBadge, listLoading <- lListLoading,
    profileLoading <- lProfileLoading, refreshes <- lRefreshes, fetching <- lFetching,
    open <- lOpen, reads <- lReads, dialog <- lDialog, picked <- lPicked,
    creating <- lCreating, frames <- lFrames, asked <- lAsked, newest <- lNewest,
    disturbed <- lDisturbed, rows <- lRows, opens <- lOpens, faults <- lFaults

\* Friends
VARIABLES
    fFriends, fRequests, fAsking, fSending, fScreen, fShown, fLoading, fLoads, fCalls, fSent,
    fCrossed, fDone, fParted, fLast, fDisturbed, fActions, fFaults
fVars == <<fFriends, fRequests, fAsking, fSending, fScreen, fShown, fLoading, fLoads, fCalls,
             fSent, fCrossed, fDone, fParted, fLast, fDisturbed, fActions, fFaults>>

F == INSTANCE Friends WITH
    Screens <- Views, MaxFaults <- MaxFailures, friends <- fFriends, requests <- fRequests,
    asking <- fAsking, sending <- fSending, screen <- fScreen, shown <- fShown, loading <- fLoading,
    loads <- fLoads, calls <- fCalls, sent <- fSent, crossed <- fCrossed, done <- fDone,
    parted <- fParted, last <- fLast, disturbed <- fDisturbed, actions <- fActions,
    faults <- fFaults

\* ProfileForm
VARIABLES
    pRow, pScreen, pEnterprise, pOpen, pName, pAvatarUrl, pPreview, pFile, pStatus,
    pLocked, pLoads, pReads, pPicks, pSave, pSettled, pCrossed, pAsked, pWrote, pConflict,
    pEdits, pOpens, pSaves, pFaults
pVars == <<pRow, pScreen, pEnterprise, pOpen, pName, pAvatarUrl, pPreview, pFile, pStatus, pLocked,
             pLoads, pReads, pPicks, pSave, pSettled, pCrossed, pAsked, pWrote, pConflict,
             pEdits, pOpens, pSaves, pFaults>>

P == INSTANCE ProfileForm WITH
    Screens <- Forms, Taken <- TakenNames, MaxFaults <- MaxFailures, row <- pRow, screen <- pScreen,
    enterprise <- pEnterprise, open <- pOpen, name <- pName, avatarUrl <- pAvatarUrl,
    preview <- pPreview, file <- pFile, status <- pStatus, locked <- pLocked,
    loads <- pLoads, reads <- pReads, picks <- pPicks, save <- pSave, settled <- pSettled,
    crossed <- pCrossed, asked <- pAsked, wrote <- pWrote, conflict <- pConflict,
    edits <- pEdits, opens <- pOpens, saves <- pSaves, faults <- pFaults

\* DevicePreview
VARIABLES
    dMounted, dPrefs, dStored, dPreview, dHeld, dRequested, dFrame, dPhase, dWant, dLeft,
    dMarred, dOvertaken, dMishaps
dVars == <<dMounted, dPrefs, dStored, dPreview, dHeld, dRequested, dFrame, dPhase, dWant, dLeft,
             dMarred, dOvertaken, dMishaps>>

D == INSTANCE DevicePreview WITH
    Nothing <- None, mounted <- dMounted, prefs <- dPrefs, stored <- dStored,
    preview <- dPreview, held <- dHeld, requested <- dRequested, frame <- dFrame,
    phase <- dPhase, want <- dWant, left <- dLeft, marred <- dMarred,
    overtaken <- dOvertaken, mishaps <- dMishaps

\* GroupChat
VARIABLES
    gPackages, gMembers, gRegistered, gConfirmed, gQueue, gApp, gMls, gDisk, gBackup, gBatch,
    gMade, gHanded, gMake, gSucceeded, gMarred, gReplaced, gFaults
gVars == <<gPackages, gMembers, gRegistered, gConfirmed, gQueue, gApp, gMls, gDisk, gBackup,
             gBatch, gMade, gHanded, gMake, gSucceeded, gMarred, gReplaced, gFaults>>

G == INSTANCE GroupChat WITH
    People <- Members, MaxFaults <- MaxFailures, packages <- gPackages,
    members <- gMembers, registered <- gRegistered, confirmed <- gConfirmed,
    queue <- gQueue, app <- gApp, mls <- gMls, disk <- gDisk, backup <- gBackup,
    batch <- gBatch, made <- gMade, handed <- gHanded, make <- gMake,
    succeeded <- gSucceeded, marred <- gMarred, replaced <- gReplaced, faults <- gFaults

ASSUME ScreensAssumption ==
    /\ L!ListAssumption
    /\ F!FriendsAssumption
    /\ P!ProfileFormAssumption
    /\ D!PreviewAssumption
    /\ G!GroupChatAssumption

-----------------------------------------------------------------------------
\* Every component in a first state; one that stays in it needs only one.
ScreensInit ==
    /\ scene \in {"session", "home", "friends", "profile", "devices", "groups"}
    /\ Init /\ L!Init /\ F!Init /\ P!Init /\ D!Init /\ G!Init
    /\ scene # "session" => accounts = [u \in Users |-> "none"]
    /\ scene # "friends" => fScreen = "panel"
    /\ scene # "profile" => pScreen = "dialog" /\ pRow.avatar = None

ScreensNext ==
    /\ UNCHANGED scene
    /\ \/ scene = "session" /\ Next /\ UNCHANGED <<lVars, fVars, pVars, dVars, gVars>>
       \/ scene = "home" /\ L!Next /\ UNCHANGED <<vars, fVars, pVars, dVars, gVars>>
       \/ scene = "friends" /\ F!Next /\ UNCHANGED <<vars, lVars, pVars, dVars, gVars>>
       \/ scene = "profile" /\ P!Next /\ UNCHANGED <<vars, lVars, fVars, dVars, gVars>>
       \/ scene = "devices" /\ D!Next /\ UNCHANGED <<vars, lVars, fVars, pVars, gVars>>
       \/ scene = "groups" /\ G!Next /\ UNCHANGED <<vars, lVars, fVars, pVars, dVars>>

ScreensSpec == ScreensInit /\ [][ScreensNext]_<<scene, vars, lVars, fVars, pVars, dVars, gVars>>

-----------------------------------------------------------------------------
\* At rest an unread message of somebody else shows a badge, and a group made
\* here is listed (ConversationList, useLiveConversationList.ts).
UnreadSurfaces == L!UnreadSurfaces

\* A request that nothing crossed on its way is never one too many between two
\* people (Friends, friends.rs send_friend_request).
OneRequest == F!OneRequest

\* At rest the lists show what their user did (Friends, useFriendActions.ts).
OwnActionsShow == F!OwnActionsShow

\* A save writes the name and the image the form showed at the click
\* (ProfileForm, EditProfileDialog.tsx and ProfilePage.tsx handleSave).
SavedAsShown == P!SavedAsShown

\* At rest the dialog shows the server's status, also after a call that failed
\* (ProfileForm, EditProfileDialog.tsx handleStatusPick).
StatusAgrees == P!StatusAgrees

\* A camera that runs is held by the open section, but for one whose section was
\* closed before getUserMedia answered and one the audio graph refused
\* (DevicePreview, AudioVideoSection.tsx startPreview, stopPreview).
NoCameraLost == D!NoCameraLost

\* A key package on the server opens with its owner's state files, but for a
\* replaced device that has not had the old ones deleted (GroupChat, mls.rs
\* upload_key_packages and App.tsx:142-148).
PackagesOpen == G!PackagesOpen

\* A group chat reported as made can be joined by everybody whose device lost
\* nothing (GroupChat, mls.rs create_group_multi).
EveryoneCanJoin == G!EveryoneCanJoin

\* Who is confirmed has the group, in whatever order welcome and commit were
\* handled (GroupChat, mls.rs fetch_welcomes).
ConfirmedHasJoined == G!ConfirmedHasJoined
=============================================================================

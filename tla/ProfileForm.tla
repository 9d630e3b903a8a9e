----------------------------- MODULE ProfileForm -----------------------------
(***************************************************************************)
(* One user's profile: the row on the server, the page that makes it       *)
(* (ProfilePage) and the dialog that changes it (EditProfileDialog).  The  *)
(* dialog's state outlives its closing.  User name and display name are    *)
(* one field; an image stands for its file, its preview and its URL.       *)
(***************************************************************************)
EXTENDS Naturals, FiniteSets

CONSTANTS Names, None, Images, Statuses,
          Taken,      \* names of other users
          First,      \* the name a new form proposes, and the status it starts with
          Screens,    \* which of "page" and "dialog" is used
          MaxEdits,   \* bound: what the user types and picks
          MaxOpens,   \* bound: openings of the dialog
          MaxSaves,   \* bound: saves
          MaxFaults   \* bound: failing calls

Avatars == Images \cup {None}
\* Profiles, which None is not.
Rows == [name : Names, avatar : Avatars, status : Statuses]

ProfileFormAssumption ==
    /\ None \notin Names \cup Images \cup Rows /\ Taken \subseteq Names
    /\ First \in [name : Names, status : Statuses]
    /\ Screens \subseteq {"page", "dialog"}
    /\ {MaxEdits, MaxOpens, MaxSaves, MaxFaults} \subseteq Nat

VARIABLES
    row,                \* the profile, None before it is created
    screen, enterprise,
    open,               \* whether the user has the form before them
    name, avatarUrl, preview, file, status, locked,
    loads,              \* runs of the load effect, with what has come
    reads,              \* selected images being read for the preview
    picks,              \* update_status calls, with the status to go back to
    save,               \* handleSave under way, with what its closure holds
    \* history
    settled,            \* the avatar shown is the one the form would save
    crossed,            \* since the dialog opened a status call overlapped a load or
                        \* another, an answer was lost, or a load failed
    asked,              \* what the form showed when the save was clicked
    wrote,              \* the avatar and name the last save wrote, and what was asked
    conflict,           \* the last save was refused for its name
    edits, opens, saves, faults

formVars == <<name, avatarUrl, preview, file, status, locked>>
workVars == <<loads, reads, picks, save>>
historyVars == <<settled, crossed, asked, wrote, conflict>>
bounds == <<edits, opens, saves, faults>>
vars == <<row, screen, enterprise, open, formVars, workVars, historyVars, bounds>>

Row(n, a, s) == [name |-> n, avatar |-> a, status |-> s]
Idle == [stage |-> "idle", name |-> None, avatar |-> None, file |-> None, status |-> First.status]
NoWrite == [settled |-> FALSE, name |-> None, avatar |-> None]
IsNew == screen = "page"

\* The dialog has a profile to edit; the page has none and asks for a proposal.
Init ==
    /\ screen \in Screens
    /\ enterprise \in BOOLEAN /\ (enterprise => screen = "page")
    /\ row \in IF screen = "page" THEN {None}
               ELSE {Row(First.name, a, First.status) : a \in Avatars}
    /\ open = (screen = "page")
    /\ name = None /\ avatarUrl = None /\ preview = None /\ file = None
    /\ status = First.status /\ locked = FALSE
    /\ loads = IF screen = "page" THEN {[n |-> 0, got |-> None]} ELSE {}
    /\ reads = {} /\ picks = {} /\ save = Idle
    /\ settled = FALSE /\ crossed = FALSE /\ asked = NoWrite
    /\ wrote = [was |-> NoWrite, name |-> None, avatar |-> None] /\ conflict = FALSE
    /\ edits = 0 /\ opens = 0 /\ saves = 0 /\ faults = 0

Fails == faults < MaxFaults /\ faults' = faults + 1
SameForm == UNCHANGED <<row, screen, enterprise>>

----------------------------------------------------------------------------
(***************************************************************************)
(* Loading                                                                 *)
(***************************************************************************)
OpenDialog ==
    /\ screen = "dialog" /\ ~open /\ opens < MaxOpens
    /\ open' = TRUE /\ opens' = opens + 1
    /\ loads' = loads \cup {[n |-> opens', got |-> None]}
    /\ settled' = FALSE /\ crossed' = (picks # {} \/ loads # {})
    /\ SameForm
    /\ UNCHANGED <<formVars, reads, picks, save, asked, wrote, conflict, edits, saves, faults>>

\* "Cancel", "Close", Escape
CloseDialog ==
    /\ screen = "dialog" /\ open /\ open' = FALSE
    /\ SameForm /\ UNCHANGED <<formVars, workVars, historyVars, bounds>>

\* get_profile reaches the server
LoadRead(l) ==
    /\ l.got = None /\ row # None
    /\ loads' = (loads \ {l}) \cup {[l EXCEPT !.got = row]}
    /\ SameForm
    /\ UNCHANGED <<open, formVars, reads, picks, save, historyVars, bounds>>

\* Its answer replaces every field, whatever the user has done meanwhile, but
\* for the file selected.
Settles == file = None /\ reads = {} /\ save = Idle
LoadShow(l) ==
    /\ l.got # None
    /\ loads' = loads \ {l}
    /\ name' = l.got.name /\ avatarUrl' = l.got.avatar /\ preview' = l.got.avatar
    /\ status' = l.got.status
    /\ settled' = (Settles /\ loads' = {})
    /\ SameForm
    /\ UNCHANGED <<open, file, locked, reads, picks, save, crossed, asked, wrote, conflict, bounds>>

\* The page of a new user: a placeholder, or the organisation's name, locked.
LoadProposal(l) ==
    /\ IsNew
    /\ loads' = loads \ {l}
    /\ name' \in IF enterprise THEN Names ELSE {First.name}
    /\ locked' = enterprise
    /\ settled' = Settles
    /\ SameForm
    /\ UNCHANGED <<open, avatarUrl, preview, file, status, reads, picks, save, crossed, asked,
                   wrote, conflict, bounds>>

LoadFails(l) ==
    /\ Fails
    /\ loads' = loads \ {l} /\ crossed' = TRUE
    /\ SameForm
    /\ UNCHANGED <<open, formVars, reads, picks, save, settled, asked, wrote, conflict, edits, opens, saves>>

----------------------------------------------------------------------------
(***************************************************************************)
(* Editing                                                                 *)
(***************************************************************************)
\* The page shows its fields once its load has ended.
Editable == open /\ (screen = "page" => loads = {})
Edits == Editable /\ edits < MaxEdits /\ edits' = edits + 1

TypeName(n) ==
    /\ Edits /\ ~locked /\ name' = n /\ n # name
    /\ SameForm
    /\ UNCHANGED <<open, avatarUrl, preview, file, status, locked, workVars, historyVars,
                   opens, saves, faults>>

\* handleFileSelect: the file at once, the preview when it has been read
FileSelect(i) ==
    /\ Edits /\ save.stage # "upload"
    /\ file' = i /\ reads' = reads \cup {i}
    /\ settled' = (settled /\ reads = {})
    /\ SameForm
    /\ UNCHANGED <<open, name, avatarUrl, preview, status, locked, loads, picks, save, crossed, asked,
                   wrote, conflict, opens, saves, faults>>
ReadDone(i) ==
    /\ reads' = reads \ {i} /\ preview' = i
    /\ SameForm
    /\ UNCHANGED <<open, name, avatarUrl, file, status, locked, loads, picks, save, historyVars, bounds>>

\* Mutation: the preview goes and the file stays selected.
FileKept == file
FileDropped == None

\* "Undo" (handleRemoveImage)
UndoFile ==
    /\ Editable /\ file # None
    /\ screen = "page" => save.stage # "upload"
    /\ file' = FileDropped /\ preview' = avatarUrl
    /\ settled' = (settled /\ reads = {})
    /\ SameForm
    /\ UNCHANGED <<open, name, avatarUrl, status, locked, workVars, crossed, asked, wrote, conflict,
                   bounds>>

\* handleStatusPick; on the page of a new user (handleStatusChange) no call is made.
PickStatus(s) ==
    /\ Edits
    /\ status' = s
    /\ IF IsNew THEN UNCHANGED <<picks, crossed>>
       ELSE /\ picks' = picks \cup {[n |-> edits', prev |-> status, next |-> s, at |-> "sent"]}
            /\ crossed' = (crossed \/ picks # {} \/ loads # {})
    /\ SameForm
    /\ UNCHANGED <<open, name, avatarUrl, preview, file, locked, loads, reads, save, settled, asked,
                   wrote, conflict, opens, saves, faults>>

\* update_status on the server, in whatever order the calls come
StatusWritten(p) ==
    /\ p.at = "sent" /\ row # None
    /\ row' = [row EXCEPT !.status = p.next]
    /\ picks' = (picks \ {p}) \cup {[p EXCEPT !.at = "written"]}
    /\ UNCHANGED <<screen, enterprise, open, formVars, loads, reads, save, historyVars, bounds>>
StatusAnswered(p) ==
    /\ p.at = "written" /\ picks' = picks \ {p}
    /\ SameForm
    /\ UNCHANGED <<open, formVars, loads, reads, save, historyVars, bounds>>

\* Mutation: the picked status stays shown.
KeepsPicked(p) == p.next
GoesBackTo(p) == p.prev
\* The call fails, or its answer is lost: back to what was shown before it.
StatusFails(p) ==
    /\ Fails
    /\ picks' = picks \ {p} /\ status' = GoesBackTo(p)
    /\ crossed' = (crossed \/ p.at = "written")
    /\ SameForm
    /\ UNCHANGED <<open, name, avatarUrl, preview, file, locked, loads, reads, save, settled, asked,
                   wrote, conflict, edits, opens, saves>>

----------------------------------------------------------------------------
(***************************************************************************)
(* handleSave                                                              *)
(***************************************************************************)
Click ==
    /\ Editable /\ name # None /\ save = Idle /\ saves < MaxSaves
    /\ saves' = saves + 1
    /\ save' = [stage |-> IF file = None THEN "write" ELSE "upload", name |-> name,
                avatar |-> avatarUrl, file |-> file, status |-> status]
    /\ asked' = [settled |-> settled /\ reads = {}, name |-> name, avatar |-> preview]
    /\ conflict' = FALSE
    /\ SameForm
    /\ UNCHANGED <<open, formVars, loads, reads, picks, settled, crossed, wrote, edits, opens, faults>>

\* upload_avatar answers with the URL of the image
Upload ==
    /\ save.stage = "upload"
    /\ save' = [save EXCEPT !.stage = "write", !.avatar = save.file]
    /\ SameForm
    /\ UNCHANGED <<open, formVars, loads, reads, picks, historyVars, bounds>>

Written == [was |-> asked, name |-> save.name, avatar |-> save.avatar]
Refused == save.name \in Taken \/ (IsNew /\ row # None)

\* create_profile, or update_profile; the answer may be lost.
Write ==
    /\ save.stage = "write" /\ ~Refused
    /\ row' = IF IsNew THEN Row(save.name, save.avatar, First.status)
              ELSE [row EXCEPT !.name = save.name, !.avatar = save.avatar]
    /\ wrote' = Written
    /\ \/ /\ save' = [save EXCEPT !.stage = IF IsNew THEN "status" ELSE "end"]
          /\ UNCHANGED faults
       \/ save' = Idle /\ Fails
    /\ UNCHANGED <<screen, enterprise, open, formVars, loads, reads, picks, settled, crossed, asked, conflict,
                   edits, opens, saves>>

\* The server says 400, which the command turns into an error of its own: the
\* branch that unlocks a name that is taken reads a result and is not reached.
WriteRefused ==
    /\ save.stage = "write" /\ Refused
    /\ save' = Idle /\ conflict' = TRUE
    /\ SameForm
    /\ UNCHANGED <<open, formVars, loads, reads, picks, settled, crossed, asked, wrote, bounds>>

SaveFails ==
    /\ save.stage \in {"upload", "write", "status"} /\ Fails
    /\ save' = Idle
    /\ SameForm
    /\ UNCHANGED <<open, formVars, loads, reads, picks, historyVars, edits, opens, saves>>

\* A new user's status follows the profile; then the page goes to /home.
StatusOfNew ==
    /\ save.stage = "status"
    /\ row' = [row EXCEPT !.status = save.status]
    /\ save' = [save EXCEPT !.stage = "left"] /\ open' = FALSE
    /\ UNCHANGED <<screen, enterprise, formVars, loads, reads, picks, historyVars, bounds>>

\* The dialog forgets the file and closes, whatever has happened in it meanwhile.
Ended ==
    /\ save.stage = "end" /\ save' = Idle
    /\ file' = None /\ open' = FALSE /\ settled' = FALSE
    /\ SameForm
    /\ UNCHANGED <<name, avatarUrl, preview, status, locked, loads, reads, picks, crossed, asked,
                   wrote, conflict, bounds>>

Next ==
    \/ OpenDialog \/ CloseDialog \/ UndoFile \/ Click
    \/ Upload \/ Write \/ WriteRefused \/ SaveFails \/ StatusOfNew \/ Ended
    \/ \E l \in loads : LoadRead(l) \/ LoadShow(l) \/ LoadProposal(l) \/ LoadFails(l)
    \/ \E n \in Names : TypeName(n)
    \/ \E i \in Images : FileSelect(i)
    \/ \E i \in reads : ReadDone(i)
    \/ \E s \in Statuses : PickStatus(s)
    \/ \E p \in picks : StatusWritten(p) \/ StatusAnswered(p) \/ StatusFails(p)

Spec == Init /\ [][Next]_vars

----------------------------------------------------------------------------
MaybeName == Names \cup {None}
Asked == [settled : BOOLEAN, name : MaybeName, avatar : Avatars]

\* The types of the variables.
TypeOK ==
    /\ row = None \/ row \in Rows
    /\ screen \in Screens /\ enterprise \in BOOLEAN /\ open \in BOOLEAN
    /\ name \in MaybeName /\ {avatarUrl, preview, file} \subseteq Avatars
    /\ status \in Statuses /\ locked \in BOOLEAN
    /\ \A l \in loads : l.n \in Nat /\ (l.got = None \/ l.got \in Rows)
    /\ reads \subseteq Images
    /\ picks \subseteq [n : Nat, prev : Statuses, next : Statuses, at : {"sent", "written"}]
    /\ save \in [stage : {"idle", "upload", "write", "status", "end", "left"}, name : MaybeName,
                 avatar : Avatars, file : Avatars, status : Statuses]
    /\ {settled, crossed, conflict} \subseteq BOOLEAN
    /\ asked \in Asked /\ wrote \in [was : Asked, name : MaybeName, avatar : Avatars]
    /\ {edits, opens, saves, faults} \subseteq Nat

\* What a save writes is what the form showed when it was clicked, the image
\* included, as long as the load of this opening came before a file was picked
\* and no other file was being read (selectedFile, avatarPreview and avatarUrl
\* change in four handlers and outlive the dialog's closing).
SavedAsShown ==
    wrote.was.settled => wrote.name = wrote.was.name /\ wrote.avatar = wrote.was.avatar

\* At rest the dialog shows the status the server has, also after a call that
\* failed, unless since the dialog was opened status calls overlapped one another
\* or a load, or an answer was lost.
StatusAgrees ==
    screen = "dialog" /\ picks = {} /\ loads = {} /\ name # None /\ ~crossed
        => status = row.status

\* The name an organisation has set can be changed once the server has refused
\* it ("If the locked-in enterprise handle is already taken, unlock the field").
ConflictUnlocks == conflict => ~locked
=============================================================================

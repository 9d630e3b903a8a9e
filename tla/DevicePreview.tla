---------------------------- MODULE DevicePreview ----------------------------
(***************************************************************************)
(* The audio and video section of the settings dialog                      *)
(* (components/settings/AudioVideoSection.tsx) with the stream manager and *)
(* the stored preferences it uses: a camera preview that is started by a   *)
(* button and restarted one animation frame after a preference changed.    *)
(* What can go wrong is a camera that keeps running when nobody holds it:  *)
(* getUserMedia is awaited, and by the time it answers the section may     *)
(* have been closed, the preference may have changed, or the audio graph   *)
(* may refuse the stream.                                                  *)
(*                                                                         *)
(* A preference stands for the four keys the capture depends on (camera,   *)
(* microphone, echo cancellation, noise suppression), which the same lines *)
(* handle.  The pickers' device lists are left out: any camera may be      *)
(* chosen, and one that is not there is a refusal.  So is the output half  *)
(* of the section (speaker, volume, test tone), which touches none of this.*)
(***************************************************************************)
EXTENDS Naturals, FiniteSets

CONSTANTS Preferences, \* what the capture keys of localStorage can say
          Defaults,    \* MEDIA_PREFERENCE_DEFAULTS
          Nothing,     \* no stream in previewStreamRef
          MaxStarts,   \* bound on calls of startPreview
          MaxMishaps   \* bound on failures of the audio graph and of localStorage

PreviewAssumption ==
    /\ Defaults \in Preferences
    /\ Nothing \notin 1 .. MaxStarts
    /\ MaxStarts \in Nat \ {0}
    /\ MaxMishaps \in Nat

\* startPreview calls, in the order they are made
Starts == 1 .. MaxStarts

VARIABLES
    mounted,     \* the section is shown
    prefs,       \* prefs, what the pickers show
    stored,      \* the localStorage keys
    preview,     \* previewState
    held,        \* previewStreamRef
    requested,   \* restartRequestedRef
    frame,       \* the animation frame of the restart is pending
    phase,       \* per startPreview: "unused", "asked", "running" (its tracks run), "over"
    want,        \* per startPreview: the preferences its constraints were made of
    left,        \* starts whose section was closed before getUserMedia answered
    marred,      \* starts whose stream the audio graph refused
    overtaken,   \* starts during whose await a preference was changed
    mishaps

section == <<mounted, preview, held, requested, frame>>
streams == <<phase, want, left, marred, overtaken>>
vars == <<section, streams, prefs, stored, mishaps>>

Init ==
    /\ mounted = FALSE /\ prefs = Defaults /\ stored = Defaults
    /\ preview = "idle" /\ held = Nothing /\ requested = FALSE /\ frame = FALSE
    /\ phase = [s \in Starts |-> "unused"] /\ want = [s \in Starts |-> Defaults]
    /\ left = {} /\ marred = {} /\ overtaken = {}
    /\ mishaps = 0

Waiting == {s \in Starts : phase[s] = "asked" /\ s \notin left}
Running == {s \in Starts : phase[s] = "running"}

Mishap == mishaps < MaxMishaps /\ mishaps' = mishaps + 1

-----------------------------------------------------------------------------
(* Starting and stopping *)

\* stopPreview: the tracks of the held stream are stopped; previewState is left as it is
Stopped == IF held = Nothing THEN phase ELSE [phase EXCEPT ![held] = "over"]

\* getPreferredConstraints reads the stored preferences at the call
Constraints == stored

\* startPreview up to its await; ph is what the tracks are after what ran before it
StartPreview(ph) ==
    \E s \in Starts :
        /\ \A r \in Starts : phase[r] = "unused" <=> r >= s
        /\ phase' = [ph EXCEPT ![s] = "asked"]
        /\ want' = [want EXCEPT ![s] = Constraints]
        /\ preview' = "starting"

\* "Start preview", offered unless the preview is live and enabled unless it is starting
ClickStart ==
    /\ mounted /\ preview \in {"idle", "error"}
    /\ StartPreview(phase)
    /\ UNCHANGED <<mounted, held, requested, frame, left, marred, overtaken,
                   prefs, stored, mishaps>>

\* "Stop preview", offered while previewState is live, which it stays
ClickStop ==
    /\ mounted /\ preview = "live"
    /\ phase' = Stopped /\ held' = Nothing
    /\ UNCHANGED <<mounted, preview, requested, frame, want, left, marred,
                   overtaken, prefs, stored, mishaps>>

\* the animation frame of the restart: stopPreview, then startPreview
Restart ==
    /\ frame
    /\ frame' = FALSE /\ requested' = FALSE /\ held' = Nothing
    /\ StartPreview(Stopped)
    /\ UNCHANGED <<mounted, left, marred, overtaken, prefs, stored, mishaps>>

\* getUserMedia answered a section that is still shown: the stream is stored and shown
Shown(s) ==
    /\ s \in Waiting
    /\ phase' = [phase EXCEPT ![s] = "running"]
    /\ held' = s
    /\ \/ /\ preview' = "live"
          /\ UNCHANGED <<marred, mishaps>>
       \/ \* the audio context or its source throws: the catch keeps the stream
          /\ Mishap
          /\ preview' = "error" /\ marred' = marred \cup {s}
    /\ UNCHANGED <<mounted, requested, frame, want, left, overtaken, prefs, stored>>

\* it answered a section that is gone: the stream goes to a ref nobody reads
AnsweredTooLate(s) ==
    /\ s \in left /\ phase[s] = "asked"
    /\ phase' = [phase EXCEPT ![s] = "running"]
    /\ UNCHANGED <<section, want, left, marred, overtaken, prefs, stored, mishaps>>

\* permission denied, no such device, device busy
Refused(s) ==
    /\ phase[s] = "asked"
    /\ phase' = [phase EXCEPT ![s] = "over"]
    /\ preview' = IF s \in left THEN preview ELSE "error"
    /\ UNCHANGED <<mounted, held, requested, frame, want, left, marred, overtaken, prefs, stored,
                   mishaps>>

\* the device is unplugged: its tracks end and the section does not notice
Ended(s) ==
    /\ s \in Running
    /\ phase' = [phase EXCEPT ![s] = "over"]
    /\ UNCHANGED <<section, want, left, marred, overtaken, prefs, stored, mishaps>>

-----------------------------------------------------------------------------
(* Preferences *)

\* the effect on the capture preferences: a live preview restarts, once
RestartDue == preview = "live" /\ ~requested

\* update: the state and the localStorage key; quota errors are dropped.  The
\* effect follows: the clean-up of the one before cancels its frame, and
\* restartRequestedRef, which only that frame resets, stays set.
Choose(p) ==
    /\ mounted
    /\ p # prefs
    /\ prefs' = p
    /\ \/ stored' = p /\ UNCHANGED mishaps
       \/ Mishap /\ UNCHANGED stored
    /\ frame' = RestartDue
    /\ requested' = (requested \/ RestartDue)
    /\ overtaken' = overtaken \cup Waiting
    /\ UNCHANGED <<mounted, preview, held, phase, want, left, marred>>

-----------------------------------------------------------------------------
(* The section's own life *)

\* the section is opened: a new component
Open ==
    /\ ~mounted /\ mounted' = TRUE
    /\ prefs' = stored
    /\ UNCHANGED <<preview, held, requested, frame, streams, stored, mishaps>>

\* Mutation: the clean-up of the mount effect only removes the listener.
TracksKept == phase

\* the clean-up of the mount effect stops the preview
CleanedUp == Stopped

\* another settings section or the dialog's end: the clean-ups of the effects;
\* the refs and the state go with the component, and calls under way are on their own
Close ==
    /\ mounted /\ mounted' = FALSE
    /\ phase' = CleanedUp
    /\ left' = left \cup Waiting
    /\ preview' = "idle" /\ held' = Nothing /\ requested' = FALSE /\ frame' = FALSE
    /\ UNCHANGED <<want, marred, overtaken, prefs, stored, mishaps>>

Next ==
    \/ ClickStart
    \/ ClickStop
    \/ Restart
    \/ \E s \in Starts : Shown(s)
    \/ \E s \in Starts : AnsweredTooLate(s)
    \/ \E s \in Starts : Refused(s)
    \/ \E p \in Preferences : Choose(p)
    \/ \E s \in Starts : Ended(s)
    \/ Open
    \/ Close

Spec == Init /\ [][Next]_vars

-----------------------------------------------------------------------------
(* Properties *)

\* The section's state is of the declared kinds, and a stream it holds was
\* asked for by this section and answered.
TypeOK ==
    /\ mounted \in BOOLEAN /\ prefs \in Preferences /\ stored \in Preferences
    /\ preview \in {"idle", "starting", "live", "error"}
    /\ held \in Starts \cup {Nothing}
    /\ requested \in BOOLEAN /\ frame \in BOOLEAN
    /\ phase \in [Starts -> {"unused", "asked", "running", "over"}]
    /\ want \in [Starts -> Preferences]
    /\ left \in SUBSET Starts /\ marred \in SUBSET Starts /\ overtaken \in SUBSET Starts
    /\ mishaps \in 0 .. MaxMishaps

\* A camera that runs is the one the open section holds and will stop, but for
\* two ways to lose it: getUserMedia answered after the section was closed
\* (nothing disposes of the manager's streams), or the audio graph refused the
\* stream, whose place the next start takes without stopping it.  Whatever the
\* restarts, the Stop button and the unmount do, no third way exists.
NoCameraLost == \A s \in Running : s = held \/ s \in left \/ s \in marred

\* The preview that is held shows the stored preferences, or a restart is on
\* its way, unless a preference was changed during its getUserMedia (the effect
\* looks only at a live preview) or the restart was cancelled by a second
\* change within the frame, after which restartRequestedRef stays set.
PreviewFollows ==
    (held # Nothing /\ preview = "live") =>
        \/ want[held] = stored
        \/ requested
        \/ held \in overtaken

\* The Start button is disabled exactly while a start of this section is under
\* way, so it always comes back and two starts never overlap.
StartComesBack ==
    /\ preview = "starting" <=> Waiting # {}
    /\ Cardinality(Waiting) <= 1

=============================================================================

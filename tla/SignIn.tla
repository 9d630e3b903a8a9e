----------------------------- MODULE SignIn -----------------------------
(***************************************************************************)
(* Signing up, in and out on one device that several accounts use, and     *)
(* what is remembered between launches: AuthPage, the start-up and the     *)
(* route guards of App, and the Rust commands behind them.  A launch       *)
(* starts the process; a reload (window.location.href) starts the page     *)
(* again and leaves the process, its session and its open vault alone.     *)
(* What becomes of a vault's files is the business of VaultBackup.         *)
(***************************************************************************)
EXTENDS Naturals, FiniteSets

CONSTANTS Users, None,
          Provider,     \* who vouches for each user
          MaxLaunches,  \* bound: launches of the app
          MaxSignIns,   \* bound: uses of the form
          MaxFaults     \* bound: failing calls

ASSUME SignInAssumption ==
    /\ None \notin Users
    /\ Provider \in [Users -> {"password", "google", "entra"}]
    /\ MaxLaunches \in Nat /\ MaxSignIns \in Nat /\ MaxFaults \in Nat

VARIABLES
    \* the server
    accounts, profiles,
    \* the process
    session,     \* SessionStore: whose tokens it holds
    mounted,     \* LocalDb: whose vault is open
    \* keyring and disk
    vaults,      \* users with a vault file
    deks,        \* the key filed under each user, named by its vault
    pointer,     \* active_session: the user to restore
    file,        \* session.enc: whose refresh token, under which key
    \* the page
    phase,       \* App: how far initialize is
    shown, hasProfile, vaultError,
    mode, loading, step, who,   \* AuthPage and its running handler
    \* history
    known,       \* users this device may show
    stuck,       \* a sign-in after a verification has failed
    launches, signIns, faults

serverVars == <<accounts, profiles>>
diskVars == <<vaults, deks, pointer, file>>
appVars == <<phase, shown, hasProfile, vaultError>>
formVars == <<mode, loading, step, who>>
vars == <<serverVars, session, mounted, diskVars, appVars, formVars,
          known, stuck, launches, signIns, faults>>

NoFile == [user |-> None, key |-> None]

Init ==
    /\ accounts \in [Users -> {"none", "confirmed"}]
    /\ profiles \in SUBSET {u \in Users : accounts[u] = "confirmed"}
    /\ session = None /\ mounted = None
    /\ vaults = {} /\ deks = [u \in Users |-> None] /\ pointer = None /\ file = NoFile
    /\ phase = "closed" /\ shown = None /\ hasProfile = FALSE /\ vaultError = FALSE
    /\ mode = "signin" /\ loading = FALSE /\ step = "idle" /\ who = None
    /\ known = {} /\ stuck = FALSE
    /\ launches = 0 /\ signIns = 0 /\ faults = 0

Fails == faults < MaxFaults /\ faults' = faults + 1
Goes == UNCHANGED faults

----------------------------------------------------------------------------
(***************************************************************************)
(* The commands of the process                                             *)
(***************************************************************************)
\* Status "None", "Locked" or "Unlocked", and what the pages then do: set a
\* vault up, or unlock it with the key filed for the user.  (With a key and no
\* vault, recovery comes first; here files do not vanish.)
Openable(u) == u \notin vaults \/ mounted = u \/ deks[u] = u
OpenVault(u) ==
    /\ Openable(u)
    /\ mounted' = u
    /\ vaults' = vaults \cup {u}
    /\ deks' = IF u \in vaults THEN deks ELSE [deks EXCEPT ![u] = u]
    /\ UNCHANGED <<pointer, file>>
VaultFails == Openable(session) => Fails
ProcessUnchanged == UNCHANGED <<session, mounted, diskVars>>

\* session_save: the file first, then the user's key, the pointer last.
CanSave == mounted # None /\ session # None
Kept == [user |-> session, key |-> mounted]
SaveAll ==
    /\ CanSave
    /\ file' = Kept /\ deks' = [deks EXCEPT ![session] = mounted] /\ pointer' = session
    /\ known' = {session}
    /\ UNCHANGED <<session, mounted, vaults>>
SaveFails ==
    /\ CanSave => Fails
    /\ file' \in IF CanSave THEN {file, Kept} ELSE {file}
    /\ UNCHANGED <<session, mounted, vaults, deks, pointer, known>>

SessionSave ==
    \/ SaveAll /\ Goes
    \/ SaveFails /\ (CanSave \/ Goes)

\* A sign-in that the server accepts replaces the session; the vault that is
\* open stays open until the status check.
Accepted(u) ==
    /\ session' = u /\ known' = known \cup {u}
    /\ UNCHANGED <<mounted, diskVars>>

\* Mutation: the stored token stays.
NothingDeleted == file
\* clear_auth_state
Cleared == NoFile

\* restore, run at every start of the page
HasStored == pointer # None /\ deks[pointer] # None /\ file # NoFile
Decrypts == file.key = deks[pointer]
Mounts == pointer \in vaults /\ deks[pointer] = pointer
Restore ==
    \/ /\ ~HasStored
       /\ Goes /\ UNCHANGED <<session, mounted, file>>
    \/ /\ HasStored /\ ~Decrypts
       /\ file' = NoFile /\ Goes /\ UNCHANGED <<session, mounted>>
    \/ /\ HasStored /\ Decrypts      \* the keyring or the database is not to be had
       /\ Mounts => Fails
       /\ ~Mounts => Goes
       /\ UNCHANGED <<session, mounted, file>>
    \/ /\ HasStored /\ Decrypts /\ Mounts      \* no tokens for it
       /\ file.user = pointer => Fails
       /\ file.user # pointer => Goes
       /\ mounted' = None /\ UNCHANGED <<session, file>>
    \/ /\ HasStored /\ Decrypts /\ Mounts /\ file.user = pointer
       /\ session' = pointer /\ mounted' = pointer
       /\ Goes /\ UNCHANGED file

----------------------------------------------------------------------------
(***************************************************************************)
(* App                                                                     *)
(***************************************************************************)
ResetForm == mode' = "signin" /\ loading' = FALSE /\ step' = "idle" /\ who' = None
ResetApp == shown' = None /\ hasProfile' = FALSE /\ vaultError' = FALSE
Reload == phase' = "restore" /\ ResetApp /\ ResetForm

Launch ==
    /\ phase = "closed" /\ launches < MaxLaunches
    /\ launches' = launches + 1
    /\ Reload
    /\ UNCHANGED <<serverVars, session, mounted, diskVars, known, stuck, signIns, faults>>

\* At any moment, in the middle of whatever runs
Close ==
    /\ phase # "closed"
    /\ phase' = "closed" /\ ResetApp /\ ResetForm
    /\ session' = None /\ mounted' = None
    /\ UNCHANGED <<serverVars, diskVars, known, stuck, launches, signIns, faults>>

SessionRestore ==
    /\ phase = "restore" /\ phase' = "session"
    /\ Restore
    /\ UNCHANGED <<serverVars, vaults, deks, pointer, shown, hasProfile, vaultError, formVars,
                   known, stuck, launches, signIns>>

\* initialize from get_session to get_profile.  A profile that cannot be read
\* shows the form, with the session in place behind it.
GetSession ==
    /\ phase = "session"
    /\ IF session = None
       THEN phase' = "ready" /\ Goes /\ UNCHANGED <<shown, hasProfile>>
       ELSE \/ /\ shown' = session /\ hasProfile' = (session \in profiles)
               /\ phase' = "vault" /\ Goes
            \/ Fails /\ phase' = "ready" /\ UNCHANGED <<shown, hasProfile>>
    /\ ProcessUnchanged
    /\ UNCHANGED <<serverVars, vaultError, formVars, known, stuck, launches, signIns>>

\* Mutation: any open vault will do.
AnyVault == mounted # None
Unlocked == mounted = shown /\ shown \in vaults

OpenForApp ==
    /\ phase = "vault"
    /\ \/ /\ Unlocked
          /\ phase' = "ready" /\ Goes /\ ProcessUnchanged /\ UNCHANGED vaultError
       \/ /\ ~Unlocked /\ OpenVault(shown)
          /\ phase' = "save" /\ Goes /\ UNCHANGED <<session, vaultError>>
       \/ /\ ~Unlocked /\ VaultFails
          /\ Openable(shown) \/ Goes
          /\ vaultError' = TRUE /\ phase' = "ready" /\ ProcessUnchanged
    /\ UNCHANGED <<serverVars, shown, hasProfile, formVars, known, stuck, launches, signIns>>

SaveForApp ==
    /\ phase = "save" /\ phase' = "ready"
    /\ \/ SaveAll /\ Goes /\ UNCHANGED vaultError
       \/ SaveFails /\ (CanSave \/ Goes) /\ vaultError' = TRUE
    /\ UNCHANGED <<serverVars, shown, hasProfile, formVars, stuck, launches, signIns>>

SignedIn == phase = "ready" /\ shown # None

\* handleSignOut: session_clear, whose failure is logged, then sign_out, which
\* forgets the tokens and closes the vault, then the page starts again.
SessionClear ==
    /\ SignedIn /\ phase' = "leaving"
    /\ \/ file' = Cleared /\ known' = {} /\ Goes
       \/ Fails /\ UNCHANGED <<file, known>>
    /\ UNCHANGED <<serverVars, session, mounted, vaults, deks, pointer, shown, hasProfile,
                   vaultError, formVars, stuck, launches, signIns>>
SignOut ==
    /\ phase = "leaving"
    /\ session' = None /\ mounted' = None
    /\ Reload
    /\ UNCHANGED <<serverVars, diskVars, known, stuck, launches, signIns, faults>>

\* ProfilePage's save for a new user.  The server may know the profile and the
\* page not; a handle may be taken.
CreateProfile ==
    /\ SignedIn /\ ~hasProfile
    /\ \/ /\ session \notin profiles
          /\ profiles' = profiles \cup {session} /\ Reload /\ Goes
       \/ /\ profiles' \in {profiles, profiles \cup {session}} /\ Fails
          /\ UNCHANGED <<appVars, formVars>>
    /\ ProcessUnchanged
    /\ UNCHANGED <<accounts, known, stuck, launches, signIns>>

----------------------------------------------------------------------------
(***************************************************************************)
(* AuthPage.  The guards show it wherever the user goes while App has no   *)
(* session.  Its handlers await one command after the other; "loading"     *)
(* disables the buttons.  The link between the modes stays enabled.        *)
(***************************************************************************)
FormShown == phase = "ready" /\ shown = None
Submits(m, u, s) ==
    /\ FormShown /\ mode = m /\ ~loading /\ signIns < MaxSignIns
    /\ signIns' = signIns + 1
    /\ loading' = TRUE /\ step' = s /\ who' = u
    /\ UNCHANGED <<serverVars, session, mounted, diskVars, appVars, mode, known, stuck, launches, faults>>

SwitchMode ==
    /\ FormShown
    /\ mode' = IF mode = "signup" THEN "signin" ELSE "signup"
    /\ who' = IF step = "idle" THEN None ELSE who
    /\ UNCHANGED <<serverVars, session, mounted, diskVars, appVars, loading, step, known, stuck, launches, signIns, faults>>

At(s) == FormShown /\ step = s
Idle == step' = "idle" /\ who' = None
\* What every failure of a handler does, but one.
HandsBack == Idle /\ loading' = FALSE /\ UNCHANGED mode
StepTo(s) == step' = s /\ UNCHANGED <<mode, loading, who>>
StepUnchanged == UNCHANGED <<appVars, stuck, launches, signIns>>

SignInWithEmail(u) == Provider[u] = "password" /\ Submits("signin", u, "signin")
PasswordSignIn ==
    /\ At("signin")
    /\ \/ accounts[who] = "confirmed" /\ Accepted(who) /\ StepTo("vault") /\ Goes
       \/ /\ HandsBack /\ ProcessUnchanged /\ UNCHANGED known
          /\ IF accounts[who] = "confirmed" THEN Fails ELSE Goes
    /\ StepUnchanged /\ UNCHANGED serverVars

VaultRefused == HandsBack

\* ensureVaultReadyAfterPassword
EnsureVault ==
    /\ At("vault")
    /\ \/ OpenVault(who) /\ StepTo("save") /\ Goes /\ UNCHANGED session
       \/ VaultFails /\ (Openable(session) \/ Goes) /\ VaultRefused /\ ProcessUnchanged
    /\ StepUnchanged /\ UNCHANGED <<serverVars, known>>

\* session_save, whose failure is logged, and the reload
SaveAndReload ==
    /\ At("save")
    /\ SessionSave /\ Reload
    /\ UNCHANGED <<serverVars, stuck, launches, signIns>>

SubmitSignup(u) == Provider[u] = "password" /\ Submits("signup", u, "signup")
\* Either a code is sent, or the account is ready at once; then the page goes to
\* /profile, whose guard, App having no session, comes back to a new form.
SignUp ==
    /\ At("signup")
    /\ \/ /\ accounts[who] \in {"none", "pending"}
          /\ accounts' = [accounts EXCEPT ![who] = "pending"]
          /\ mode' = "verify" /\ step' = "idle" /\ loading' = FALSE /\ UNCHANGED who
          /\ Goes /\ ProcessUnchanged /\ UNCHANGED known
       \/ /\ accounts[who] = "none"
          /\ accounts' = [accounts EXCEPT ![who] = "confirmed"]
          /\ Accepted(who) /\ ResetForm /\ Goes
       \/ /\ HandsBack /\ ProcessUnchanged /\ UNCHANGED <<accounts, known>>
          /\ IF accounts[who] = "confirmed" THEN Goes ELSE Fails
    /\ StepUnchanged /\ UNCHANGED profiles

SubmitVerification(u) == u = who /\ Submits("verify", u, "confirm")
ConfirmSignUp ==
    /\ At("confirm")
    /\ \/ /\ accounts[who] = "pending"
          /\ accounts' = [accounts EXCEPT ![who] = "confirmed"]
          /\ StepTo("autosign") /\ Goes
       \/ /\ step' = "idle" /\ loading' = FALSE /\ UNCHANGED <<accounts, mode, who>>
          /\ IF accounts[who] = "pending" THEN Fails ELSE Goes
    /\ StepUnchanged /\ ProcessUnchanged /\ UNCHANGED <<profiles, known>>

\* An answer without success sends the page to "/", where it is: nothing resets
\* "loading".  A call that throws does reset it.
SignInVerified ==
    /\ At("autosign")
    /\ \/ Accepted(who) /\ StepTo("setup") /\ Goes /\ UNCHANGED stuck
       \/ /\ step' = "idle" /\ Fails
          /\ \/ stuck' = TRUE /\ UNCHANGED loading
             \/ loading' = FALSE /\ UNCHANGED stuck
          /\ ProcessUnchanged /\ UNCHANGED <<mode, who, known>>
    /\ UNCHANGED <<serverVars, appVars, launches, signIns>>

\* setup_vault refuses where there is one; the two MLS calls may fail after it.
SetupVerified ==
    /\ At("setup")
    /\ \/ who \notin vaults /\ OpenVault(who) /\ StepTo("keep") /\ Goes
       \/ who \notin vaults /\ OpenVault(who) /\ HandsBack /\ Fails
       \/ /\ HandsBack /\ UNCHANGED <<mounted, diskVars>>
          /\ IF who \in vaults THEN Goes ELSE Fails
    /\ StepUnchanged /\ UNCHANGED <<serverVars, session, known>>
SaveVerified ==
    /\ At("keep")
    /\ SessionSave /\ ResetForm
    /\ StepUnchanged /\ UNCHANGED serverVars

SignInWithGoogle(u) == mode # "verify" /\ Provider[u] = "google" /\ Submits(mode, u, "google")
SignInWithEntra(u) == mode # "verify" /\ Provider[u] = "entra" /\ Submits(mode, u, "entra")

\* The browser's answer; the account is made on the way.
Federated == [accounts EXCEPT ![who] = "confirmed"]
OAuthRefused ==
    /\ At("google") \/ At("entra")
    /\ HandsBack /\ Fails /\ ProcessUnchanged
    /\ StepUnchanged /\ UNCHANGED <<serverVars, known>>
GoogleAnswers ==
    /\ At("google")
    /\ accounts' = Federated /\ Accepted(who) /\ Reload
    /\ UNCHANGED <<profiles, stuck, launches, signIns, faults>>
EntraAnswers ==
    /\ At("entra")
    /\ accounts' = Federated /\ Accepted(who) /\ StepTo("onboard")
    /\ StepUnchanged /\ UNCHANGED <<profiles, faults>>

\* tryEnterpriseAutoOnboard: a taken handle or a failing call leaves it to
\* ProfilePage.
AutoOnboard ==
    /\ At("onboard")
    /\ profiles' \in {profiles, profiles \cup {session}}
    /\ Reload /\ ProcessUnchanged
    /\ UNCHANGED <<accounts, known, stuck, launches, signIns, faults>>

Handlers ==
    \/ PasswordSignIn \/ EnsureVault \/ SaveAndReload
    \/ SignUp \/ ConfirmSignUp \/ SignInVerified \/ SetupVerified \/ SaveVerified
    \/ OAuthRefused \/ GoogleAnswers \/ EntraAnswers \/ AutoOnboard

Next ==
    \/ Launch \/ Close
    \/ SessionRestore \/ GetSession \/ OpenForApp \/ SaveForApp
    \/ SessionClear \/ SignOut \/ CreateProfile
    \/ SwitchMode \/ Handlers
    \/ \E u \in Users :
          \/ SignInWithEmail(u) \/ SubmitSignup(u) \/ SubmitVerification(u)
          \/ SignInWithGoogle(u) \/ SignInWithEntra(u)

Spec == Init /\ [][Next]_vars

----------------------------------------------------------------------------
Somebody == Users \cup {None}
Steps == {"idle", "signin", "vault", "save", "signup", "confirm", "autosign", "setup", "keep",
          "google", "entra", "onboard"}

\* The types of the variables.
TypeOK ==
    /\ accounts \in [Users -> {"none", "pending", "confirmed"}] /\ profiles \subseteq Users
    /\ session \in Somebody /\ mounted \in Somebody
    /\ vaults \subseteq Users /\ deks \in [Users -> Somebody] /\ pointer \in Somebody
    /\ file \in [user : Somebody, key : Somebody]
    /\ phase \in {"closed", "restore", "session", "vault", "save", "ready", "leaving"}
    /\ shown \in Somebody /\ hasProfile \in BOOLEAN /\ vaultError \in BOOLEAN
    /\ mode \in {"signin", "signup", "verify"} /\ loading \in BOOLEAN
    /\ step \in Steps /\ who \in Somebody
    /\ known \subseteq Users /\ stuck \in BOOLEAN
    /\ launches \in Nat /\ signIns \in Nat /\ faults \in Nat

\* Whoever the app shows as signed in has signed in on this device since the
\* last save or sign-out, or is the one that save was for: a sign-out whose file
\* went, and a sign-in that was saved, hold through reloads and launches, stops
\* in between included (session_clear, session_save, session_restore).
ShownIsKnown == shown # None /\ phase # "leaving" => shown \in known

\* Beside an app without the vault's error bar lie the open vault and the tokens
\* of the user it shows, never another account's that was open before.
VaultOfShown ==
    phase = "ready" /\ shown # None /\ ~vaultError => mounted = shown /\ session = shown

\* The form is disabled only while a handler works (it could not be enabled
\* again), but for the sign-in after a verification that failed.
FormComesBack == loading /\ step = "idle" => stuck
=============================================================================

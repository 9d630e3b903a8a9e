---------------------------- MODULE SignInProofs ----------------------------
(***************************************************************************)
(* Signing in and out for any users, launches, uses of the form and        *)
(* faults: the types, whom the app shows, and whose vault is open.         *)
(***************************************************************************)
EXTENDS SignIn, TLAPS

\* What the page shows and what the process holds, by the progress of initialize.
Presented ==
    /\ phase \in {"closed", "restore", "session"} => shown = None
    /\ phase \in {"vault", "save"} => shown # None
    /\ phase \in {"vault", "save", "ready"} /\ shown # None => session = shown
    /\ phase = "save" => mounted = shown
    /\ VaultOfShown

\* A handler works for a user, and on a form that is shown.
Working ==
    /\ step # "idle" => phase = "ready" /\ shown = None /\ who \in Users
    /\ step = "onboard" => session = who
    /\ FormComesBack

\* Tokens in memory and on disk are those of a user the device may show.
Remembered ==
    /\ session # None /\ phase # "leaving" => session \in known
    /\ file.user # None => file.user \in known
    /\ ShownIsKnown

SignInInv == TypeOK /\ Presented /\ Working /\ Remembered

(***************************************************************************)
(* Steps that have much in common                                          *)
(***************************************************************************)
\* Page and process as they were.
LEMMA Same ==
    SignInInv /\ UNCHANGED <<session, mounted, file, phase, shown, vaultError, known>>
      => Presented' /\ Remembered'
  BY DEF SignInInv, Presented, VaultOfShown, Remembered, ShownIsKnown

\* A handler leaves the app without a session or starts the page again.
LEMMA FormPresented ==
    ASSUME phase' \in {"ready", "restore"}, shown' = None
    PROVE  Presented'
  BY DEF Presented, VaultOfShown

\* A form without a handler.
LEMMA Resting ==
    ASSUME step' = "idle", loading' => stuck'
    PROVE  Working'
  BY DEF Working, FormComesBack

\* The same users may be shown.
LEMMA SameKnown ==
    ASSUME SignInInv, phase # "leaving",
           session' = session \/ session' = None \/ session' \in known',
           file'.user \in {file.user, session, None},
           shown' \in {shown, session, None},
           known \subseteq known'
    PROVE  Remembered'
  BY DEF SignInInv, Remembered, ShownIsKnown

\* session_save for the user whose tokens are in memory.
LEMMA Saved ==
    ASSUME SignInInv, phase # "leaving", SaveAll, shown' \in {None, session}
    PROVE  /\ file' \in [user : Somebody, key : Somebody] /\ deks' \in [Users -> Somebody]
           /\ pointer' \in Somebody /\ known' \subseteq Users
           /\ session' = session /\ mounted' = mounted /\ vaults' = vaults
           /\ Remembered'
  <1>1. session \in Users /\ mounted \in Users
    BY DEF SignInInv, TypeOK, SaveAll, CanSave, Somebody
  <1>2. /\ file'.user = session /\ known' = {session} /\ session' = session
        /\ file' \in [user : Somebody, key : Somebody] /\ pointer' = session
    BY <1>1 DEF SaveAll, Kept, Somebody
  <1>3. deks' \in [Users -> Somebody]
    BY <1>1 DEF SaveAll, SignInInv, TypeOK, Somebody
  <1>4. Remembered'
    BY <1>2 DEF Remembered, ShownIsKnown
  <1> QED
    BY <1>1, <1>2, <1>3, <1>4 DEF SaveAll, Somebody

LEMMA SavedInPart ==
    ASSUME SignInInv, phase # "leaving", SaveFails, shown' \in {None, shown}
    PROVE  /\ file' \in [user : Somebody, key : Somebody]
           /\ UNCHANGED <<session, mounted, vaults, deks, pointer, known>>
           /\ CanSave => faults' \in Nat
           /\ Remembered'
  <1>1. /\ file'.user \in {file.user, session}
        /\ file' \in [user : Somebody, key : Somebody]
    BY DEF SignInInv, TypeOK, SaveFails, Kept
  <1>2. UNCHANGED <<session, mounted, vaults, deks, pointer, known>>
    BY DEF SaveFails
  <1>3. Remembered'
    BY <1>1, <1>2, SameKnown
  <1>4. CanSave => faults' \in Nat
    BY DEF SaveFails, Fails, SignInInv, TypeOK
  <1> QED
    BY <1>1, <1>2, <1>3, <1>4

LEMMA Opened ==
    ASSUME TypeOK, NEW u \in Users, OpenVault(u)
    PROVE  /\ mounted' = u /\ vaults' \subseteq Users /\ deks' \in [Users -> Somebody]
           /\ pointer' = pointer /\ file' = file
  BY DEF OpenVault, TypeOK, Somebody

\* Faults are counted.
LEMMA Counted ==
    ASSUME TypeOK, Fails \/ Goes
    PROVE  faults' \in Nat
  BY DEF TypeOK, Fails, Goes

(***************************************************************************)
(* The app                                                                 *)
(***************************************************************************)
LEMMA InitInv == Init => SignInInv
  <1> SUFFICES ASSUME Init PROVE SignInInv
    OBVIOUS
  <1>1. accounts \in [Users -> {"none", "pending", "confirmed"}] /\ profiles \subseteq Users
    BY DEF Init
  <1>2. TypeOK
    BY <1>1 DEF Init, TypeOK, NoFile, Somebody, Steps
  <1>3. Presented /\ Working /\ Remembered
    BY DEF Init, Presented, VaultOfShown, Working, FormComesBack, Remembered, ShownIsKnown, NoFile
  <1> QED
    BY <1>2, <1>3 DEF SignInInv

LEMMA LaunchInv == SignInInv /\ (Launch \/ Close) => SignInInv'
  <1> SUFFICES ASSUME SignInInv, Launch \/ Close PROVE SignInInv'
    OBVIOUS
  <1>1. /\ phase' \in {"restore", "closed"} /\ shown' = None /\ hasProfile' = FALSE
        /\ vaultError' = FALSE
        /\ mode' = "signin" /\ loading' = FALSE /\ step' = "idle" /\ who' = None
        /\ session' \in {session, None} /\ mounted' \in {mounted, None}
        /\ UNCHANGED <<accounts, profiles, vaults, deks, pointer, file, known, stuck>>
        /\ UNCHANGED <<signIns, faults>>
    BY DEF Launch, Close, Reload, ResetApp, ResetForm, serverVars, diskVars
  <1>2. launches' = launches \/ launches' = launches + 1
    BY DEF Launch, Close
  <1>3. launches' \in Nat
    BY <1>2 DEF SignInInv, TypeOK
  <1>4. TypeOK'
    BY <1>1, <1>3 DEF SignInInv, TypeOK, Somebody, Steps
  <1>5. Presented'
    BY DEF Launch, Close, Reload, ResetApp, Presented, VaultOfShown
  <1>6. Working'
    BY Resting DEF Launch, Close, Reload, ResetForm
  <1>7. Remembered'
    BY DEF Launch, Close, Reload, ResetApp, SignInInv, Presented, Remembered, ShownIsKnown, diskVars
  <1> QED
    BY <1>4, <1>5, <1>6, <1>7 DEF SignInInv

LEMMA SessionRestoreInv == SignInInv /\ SessionRestore => SignInInv'
  <1> SUFFICES ASSUME SignInInv, SessionRestore PROVE SignInInv'
    OBVIOUS
  <1>1. /\ session' \in {session, file.user} /\ session' \in Somebody /\ mounted' \in Somebody
        /\ file' \in {file, NoFile} /\ faults' \in Nat
    BY DEF SessionRestore, Restore, HasStored, Fails, Goes, SignInInv, TypeOK, Somebody
  <1>2. TypeOK'
    BY <1>1 DEF SessionRestore, SignInInv, TypeOK, NoFile, serverVars, formVars, Somebody
  <1>3. Presented' /\ Working'
    BY DEF SessionRestore, SignInInv, Presented, VaultOfShown, Working, FormComesBack, formVars
  <1>4. Remembered'
    BY <1>1 DEF SessionRestore, SignInInv, Presented, Remembered, ShownIsKnown, NoFile
  <1> QED
    BY <1>2, <1>3, <1>4 DEF SignInInv

LEMMA GetSessionInv == SignInInv /\ GetSession => SignInInv'
  <1> SUFFICES ASSUME SignInInv, GetSession PROVE SignInInv'
    OBVIOUS
  <1>1. Fails \/ Goes
    BY DEF GetSession
  <1>2. faults' \in Nat
    BY <1>1, Counted DEF SignInInv
  <1>3. hasProfile' = hasProfile \/ hasProfile' = (session \in profiles)
    BY DEF GetSession
  <1>4. hasProfile' \in BOOLEAN
    <2>1. hasProfile \in BOOLEAN
      BY DEF SignInInv, TypeOK
    <2>2. (session \in profiles) \in BOOLEAN
      OBVIOUS
    <2> QED
      BY <1>3, <2>1, <2>2, Zenon
  <1>5. /\ phase = "session" /\ shown = None
        /\ \/ phase' = "ready" /\ shown' = shown
           \/ phase' = "vault" /\ shown' = session /\ session # None
    BY DEF GetSession, SignInInv, Presented
  <1>6. /\ UNCHANGED <<session, mounted, vaults, deks, pointer, file, accounts, profiles>>
        /\ UNCHANGED <<vaultError, mode, loading, step, who, known, stuck, launches, signIns>>
    BY DEF GetSession, ProcessUnchanged, diskVars, serverVars, formVars
  <1>7. TypeOK'
    BY <1>2, <1>4, <1>5, <1>6 DEF SignInInv, TypeOK
  <1>8. Presented' /\ Working' /\ Remembered'
    BY <1>5, <1>6 DEF SignInInv, Presented, VaultOfShown, Working, FormComesBack, Remembered,
                      ShownIsKnown
  <1> QED
    BY <1>7, <1>8 DEF SignInInv

LEMMA OpenForAppInv == SignInInv /\ OpenForApp => SignInInv'
  <1> SUFFICES ASSUME SignInInv, OpenForApp PROVE SignInInv'
    OBVIOUS
  <1>1. shown \in Users /\ session = shown /\ phase = "vault"
    BY DEF OpenForApp, SignInInv, TypeOK, Presented, Somebody
  <1>2. Fails \/ Goes
    BY <1>1 DEF OpenForApp, VaultFails
  <1>3. faults' \in Nat
    BY <1>2, Counted DEF SignInInv
  <1>4. /\ UNCHANGED <<accounts, profiles, session, shown, hasProfile, mode, loading, step, who>>
        /\ UNCHANGED <<known, stuck, launches, signIns>> /\ faults' \in Nat
    BY <1>3 DEF OpenForApp, ProcessUnchanged, VaultFails, serverVars, formVars,
           SignInInv, TypeOK
  <1>5. Working'
    BY <1>1, <1>4 DEF SignInInv, Working, FormComesBack
  <1>6. CASE Unlocked /\ phase' = "ready" /\ ProcessUnchanged /\ UNCHANGED vaultError
    <2>1. TypeOK'
      BY <1>4, <1>6 DEF ProcessUnchanged, diskVars, SignInInv, TypeOK
    <2>2. Presented' /\ Remembered'
      BY <1>1, <1>4, <1>6 DEF Unlocked, ProcessUnchanged, diskVars, SignInInv, Presented,
                              VaultOfShown, Remembered, ShownIsKnown
    <2> QED
      BY <1>5, <2>1, <2>2 DEF SignInInv
  <1>7. CASE OpenVault(shown) /\ phase' = "save" /\ UNCHANGED <<session, vaultError>>
    <2>1. /\ mounted' = shown /\ vaults' \subseteq Users /\ deks' \in [Users -> Somebody]
          /\ pointer' = pointer /\ file' = file
      BY <1>1, <1>7, Opened DEF SignInInv
    <2>2. TypeOK'
      BY <1>1, <1>4, <1>7, <2>1 DEF SignInInv, TypeOK, Somebody
    <2>3. Presented' /\ Remembered'
      BY <1>1, <1>4, <1>7, <2>1 DEF SignInInv, Presented, VaultOfShown, Remembered, ShownIsKnown
    <2> QED
      BY <1>5, <2>2, <2>3 DEF SignInInv
  <1>8. CASE vaultError' = TRUE /\ phase' = "ready" /\ ProcessUnchanged
    <2>1. TypeOK'
      BY <1>4, <1>8 DEF ProcessUnchanged, diskVars, SignInInv, TypeOK
    <2>2. Presented' /\ Remembered'
      BY <1>1, <1>4, <1>8 DEF ProcessUnchanged, diskVars, SignInInv, Presented,
                              VaultOfShown, Remembered, ShownIsKnown
    <2> QED
      BY <1>5, <2>1, <2>2 DEF SignInInv
  <1> QED
    BY <1>6, <1>7, <1>8 DEF OpenForApp

LEMMA SaveForAppInv == SignInInv /\ SaveForApp => SignInInv'
  <1> SUFFICES ASSUME SignInInv, SaveForApp PROVE SignInInv'
    OBVIOUS
  <1>1. phase = "save" /\ phase' = "ready" /\ session = shown /\ mounted = shown
    BY DEF SaveForApp, SignInInv, Presented
  <1>2. /\ UNCHANGED <<accounts, profiles, shown, hasProfile, mode, loading, step, who>>
        /\ UNCHANGED <<stuck, launches, signIns>>
    BY DEF SaveForApp, serverVars, formVars
  <1>3. Working'
    BY <1>1, <1>2 DEF SignInInv, Working, FormComesBack
  <1>4. CASE SaveAll /\ Goes /\ UNCHANGED vaultError
    <2>1. /\ file' \in [user : Somebody, key : Somebody] /\ deks' \in [Users -> Somebody]
          /\ pointer' \in Somebody /\ known' \subseteq Users
          /\ session' = session /\ mounted' = mounted /\ vaults' = vaults
          /\ Remembered'
      BY <1>1, <1>2, <1>4, Saved
    <2>2. TypeOK'
      BY <1>1, <1>2, <1>4, <2>1 DEF Goes, SignInInv, TypeOK
    <2>3. Presented'
      BY <1>1, <1>2, <2>1 DEF Presented, VaultOfShown
    <2> QED
      BY <1>3, <2>1, <2>2, <2>3 DEF SignInInv
  <1>5. CASE SaveFails /\ (CanSave \/ Goes) /\ vaultError' = TRUE
    <2>1. /\ file' \in [user : Somebody, key : Somebody]
          /\ UNCHANGED <<session, mounted, vaults, deks, pointer, known>>
          /\ CanSave => faults' \in Nat
          /\ Remembered'
      BY <1>1, <1>2, <1>5, SavedInPart
    <2>2. faults' \in Nat
      BY <1>5, <2>1 DEF Goes, SignInInv, TypeOK
    <2>3. TypeOK'
      BY <1>1, <1>2, <1>5, <2>1, <2>2 DEF SignInInv, TypeOK
    <2>4. Presented'
      BY <1>1, <1>2, <1>5, <2>1 DEF Presented, VaultOfShown
    <2> QED
      BY <1>3, <2>1, <2>3, <2>4 DEF SignInInv
  <1> QED
    BY <1>4, <1>5 DEF SaveForApp

LEMMA SignOutInv == SignInInv /\ (SessionClear \/ SignOut) => SignInInv'
  <1> SUFFICES ASSUME SignInInv, SessionClear \/ SignOut PROVE SignInInv'
    OBVIOUS
  <1>1. CASE SessionClear
    <2>1. /\ phase = "ready" /\ shown # None /\ phase' = "leaving"
          /\ \/ file' = NoFile /\ known' = {}
             \/ UNCHANGED <<file, known>>
          /\ faults' \in Nat
      BY <1>1 DEF SessionClear, SignedIn, Cleared, Fails, Goes, SignInInv, TypeOK
    <2>2. /\ UNCHANGED <<session, mounted, vaults, deks, pointer, accounts, profiles, shown>>
          /\ UNCHANGED <<hasProfile, vaultError, mode, loading, step, who, stuck, launches, signIns>>
      BY <1>1 DEF SessionClear, serverVars, formVars
    <2>3. TypeOK'
      BY <2>1, <2>2 DEF SignInInv, TypeOK, NoFile, Somebody
    <2>4. Presented' /\ Remembered'
      BY <2>1, <2>2 DEF SignInInv, Presented, VaultOfShown, Remembered, ShownIsKnown, NoFile
    <2>5. Working'
      BY <2>1, <2>2 DEF SignInInv, Working, FormComesBack
    <2> QED
      BY <2>3, <2>4, <2>5 DEF SignInInv
  <1>2. CASE SignOut
    <2>1. /\ UNCHANGED <<accounts, profiles, vaults, deks, pointer, file, known, stuck, launches>>
          /\ UNCHANGED <<signIns, faults>>
          /\ session' = None /\ mounted' = None /\ phase' = "restore" /\ shown' = None
          /\ hasProfile' = FALSE /\ vaultError' = FALSE
          /\ mode' = "signin" /\ loading' = FALSE /\ step' = "idle" /\ who' = None
      BY <1>2 DEF SignOut, Reload, ResetApp, ResetForm, serverVars, diskVars
    <2>2. TypeOK'
      BY <2>1 DEF SignInInv, TypeOK, Somebody, Steps
    <2>3. Presented' /\ Working' /\ Remembered'
      BY <2>1, Resting DEF SignInInv, Presented, VaultOfShown, Remembered, ShownIsKnown
    <2> QED
      BY <2>2, <2>3 DEF SignInInv
  <1> QED
    BY <1>1, <1>2

LEMMA CreateProfileInv == SignInInv /\ CreateProfile => SignInInv'
  <1> SUFFICES ASSUME SignInInv, CreateProfile PROVE SignInInv'
    OBVIOUS
  <1>1. session \in Users /\ session = shown /\ phase = "ready"
    BY DEF CreateProfile, SignedIn, SignInInv, TypeOK, Presented, Somebody
  <1>2. profiles' \subseteq Users /\ faults' \in Nat
    BY <1>1 DEF CreateProfile, Fails, Goes, SignInInv, TypeOK
  <1>3. UNCHANGED <<session, mounted, vaults, deks, pointer, file, accounts, known, stuck,
                    launches, signIns>>
    BY DEF CreateProfile, ProcessUnchanged, diskVars
  <1>4. CASE Reload
    <2>1. TypeOK'
      BY <1>2, <1>3, <1>4 DEF Reload, ResetApp, ResetForm, SignInInv, TypeOK, Somebody, Steps
    <2>2. Presented' /\ Working'
      BY <1>4, FormPresented, Resting DEF Reload, ResetApp, ResetForm
    <2>3. Remembered'
      BY <1>1, <1>3, <1>4, SameKnown DEF Reload, ResetApp
    <2> QED
      BY <2>1, <2>2, <2>3 DEF SignInInv
  <1>5. CASE UNCHANGED <<appVars, formVars>>
    <2>1. TypeOK'
      BY <1>2, <1>3, <1>5 DEF appVars, formVars, SignInInv, TypeOK
    <2>2. Presented' /\ Remembered' /\ Working'
      BY <1>3, <1>5, Same DEF appVars, formVars, SignInInv, Working, FormComesBack
    <2> QED
      BY <2>1, <2>2 DEF SignInInv
  <1> QED
    BY <1>4, <1>5 DEF CreateProfile

(***************************************************************************)
(* The form                                                                *)
(***************************************************************************)
LEMMA SubmitsInv ==
    ASSUME SignInInv, NEW m, NEW u \in Users, NEW s \in Steps \ {"idle", "onboard"}, Submits(m, u, s)
    PROVE  SignInInv'
  <1>1. /\ phase = "ready" /\ shown = None /\ signIns' = signIns + 1
        /\ loading' = TRUE /\ step' = s /\ who' = u
        /\ UNCHANGED <<accounts, profiles, session, mounted, vaults, deks, pointer, file>>
        /\ UNCHANGED <<phase, shown, hasProfile, vaultError, mode, known, stuck, launches, faults>>
    BY DEF Submits, FormShown, serverVars, diskVars, appVars
  <1>2. TypeOK'
    BY <1>1 DEF SignInInv, TypeOK, Somebody
  <1>3. Presented' /\ Remembered'
    BY <1>1, Same
  <1>4. Working'
    BY <1>1 DEF Working, FormComesBack
  <1> QED
    BY <1>2, <1>3, <1>4 DEF SignInInv

LEMMA SubmitInv ==
    ASSUME SignInInv, NEW u \in Users,
           \/ SignInWithEmail(u) \/ SubmitSignup(u) \/ SubmitVerification(u)
           \/ SignInWithGoogle(u) \/ SignInWithEntra(u)
    PROVE  SignInInv'
  BY SubmitsInv DEF SignInWithEmail, SubmitSignup, SubmitVerification, SignInWithGoogle,
     SignInWithEntra, Steps

LEMMA SwitchModeInv == SignInInv /\ SwitchMode => SignInInv'
  <1> SUFFICES ASSUME SignInInv, SwitchMode PROVE SignInInv'
    OBVIOUS
  <1>1. /\ mode' \in {"signin", "signup"} /\ who' = (IF step = "idle" THEN None ELSE who)
        /\ UNCHANGED <<accounts, profiles, session, mounted, vaults, deks, pointer, file>>
        /\ UNCHANGED <<phase, shown, hasProfile, vaultError, loading, step, known, stuck>>
        /\ UNCHANGED <<launches, signIns, faults>>
    BY DEF SwitchMode, serverVars, diskVars, appVars
  <1>2. TypeOK'
    BY <1>1 DEF SignInInv, TypeOK, Somebody
  <1>3. Presented' /\ Remembered'
    BY <1>1, Same
  <1>4. Working'
    BY <1>1 DEF SignInInv, Working, FormComesBack
  <1> QED
    BY <1>2, <1>3, <1>4 DEF SignInInv

\* Where a handler works: the form is shown and somebody is being signed in.
LEMMA AtWork ==
    ASSUME SignInInv, NEW s, s # "idle", At(s)
    PROVE  phase = "ready" /\ shown = None /\ step = s /\ who \in Users
  BY DEF At, FormShown, SignInInv, Working

\* A handler that ends or goes on, leaving page and files alone.
LEMMA GoesOn ==
    ASSUME SignInInv, phase = "ready", shown = None, who \in Users,
           UNCHANGED <<appVars, file, launches, signIns>>,
           \/ UNCHANGED <<session, known>>
           \/ session' = who /\ known' = known \cup {who},
           step' # "idle" => who' = who,
           step' = "onboard" => session' = who,
           step' = "idle" /\ loading' => stuck'
    PROVE  /\ Presented' /\ Working' /\ Remembered'
           /\ session' \in Somebody /\ known' \subseteq Users
  <1>1. phase' = "ready" /\ shown' = None
    BY DEF appVars
  <1>2. Presented'
    BY <1>1, FormPresented
  <1>3. Working'
    BY <1>1 DEF Working, FormComesBack
  <1>4. Remembered'
    BY <1>1, SameKnown
  <1>5. session' \in Somebody /\ known' \subseteq Users
    BY DEF SignInInv, TypeOK, Somebody
  <1> QED
    BY <1>2, <1>3, <1>4, <1>5

LEMMA PasswordSignInInv == SignInInv /\ PasswordSignIn => SignInInv'
  <1> SUFFICES ASSUME SignInInv, PasswordSignIn PROVE SignInInv'
    OBVIOUS
  <1>1. phase = "ready" /\ shown = None /\ who \in Users
    BY AtWork DEF PasswordSignIn
  <1>2. Fails \/ Goes
    BY DEF PasswordSignIn
  <1>3. faults' \in Nat
    BY <1>2, Counted DEF SignInInv
  <1>4. /\ UNCHANGED <<appVars, accounts, profiles, stuck, launches, signIns>> /\ mode' = mode
        /\ UNCHANGED <<mounted, vaults, deks, pointer, file>> /\ faults' \in Nat
        /\ loading' \in BOOLEAN
        /\ \/ step' = "vault" /\ who' = who /\ session' = who /\ known' = known \cup {who}
           \/ step' = "idle" /\ who' = None /\ ~loading' /\ UNCHANGED <<session, known>>
    BY <1>3 DEF PasswordSignIn, StepUnchanged, serverVars, ProcessUnchanged, diskVars, Accepted, StepTo,
           HandsBack, Idle, SignInInv, TypeOK
  <1>5. /\ Presented' /\ Working' /\ Remembered'
        /\ session' \in Somebody /\ known' \subseteq Users
    BY <1>1, <1>4, GoesOn DEF Steps
  <1>6. TypeOK'
    BY <1>1, <1>4, <1>5 DEF SignInInv, TypeOK, appVars, Somebody, Steps
  <1> QED
    BY <1>5, <1>6 DEF SignInInv

LEMMA EnsureVaultInv == SignInInv /\ EnsureVault => SignInInv'
  <1> SUFFICES ASSUME SignInInv, EnsureVault PROVE SignInInv'
    OBVIOUS
  <1>1. phase = "ready" /\ shown = None /\ who \in Users
    BY AtWork DEF EnsureVault
  <1>2. Fails \/ Goes
    BY DEF EnsureVault, VaultFails
  <1>3. faults' \in Nat
    BY <1>2, Counted DEF SignInInv
  <1>4. /\ UNCHANGED <<appVars, accounts, profiles, stuck, launches, signIns, session, known>>
        /\ mode' = mode /\ faults' \in Nat /\ loading' \in BOOLEAN
        /\ \/ step' = "save" /\ who' = who
           \/ step' = "idle" /\ who' = None /\ ~loading'
    BY <1>3 DEF EnsureVault, StepUnchanged, serverVars, ProcessUnchanged, StepTo, VaultRefused,
           HandsBack, Idle, VaultFails, SignInInv, TypeOK
  <1>5. /\ mounted' \in Somebody /\ vaults' \subseteq Users /\ deks' \in [Users -> Somebody]
        /\ pointer' = pointer /\ file' = file
    BY <1>1, Opened DEF EnsureVault, ProcessUnchanged, diskVars, SignInInv, TypeOK, Somebody
  <1>6. Presented' /\ Working' /\ Remembered'
    BY <1>1, <1>4, <1>5, GoesOn DEF Steps
  <1>7. TypeOK'
    BY <1>1, <1>4, <1>5 DEF SignInInv, TypeOK, appVars, Somebody, Steps
  <1> QED
    BY <1>6, <1>7 DEF SignInInv

\* session_save within a handler, whether it works or not.
LEMMA SavedByForm ==
    ASSUME SignInInv, phase # "leaving", SessionSave, shown' = None
    PROVE  /\ file' \in [user : Somebody, key : Somebody] /\ deks' \in [Users -> Somebody]
           /\ pointer' \in Somebody /\ known' \subseteq Users
           /\ UNCHANGED <<session, mounted, vaults>> /\ faults' \in Nat
           /\ Remembered'
  <1>1. CASE SaveAll /\ Goes
    BY <1>1, Saved DEF Goes, SignInInv, TypeOK
  <1>2. CASE SaveFails /\ (CanSave \/ Goes)
    <2>1. /\ file' \in [user : Somebody, key : Somebody]
          /\ UNCHANGED <<session, mounted, vaults, deks, pointer, known>>
          /\ CanSave => faults' \in Nat
          /\ Remembered'
      BY <1>2, SavedInPart
    <2> QED
      BY <1>2, <2>1 DEF Goes, SignInInv, TypeOK
  <1> QED
    BY <1>1, <1>2 DEF SessionSave

LEMMA SaveAndReloadInv == SignInInv /\ SaveAndReload => SignInInv'
  <1> SUFFICES ASSUME SignInInv, SaveAndReload PROVE SignInInv'
    OBVIOUS
  <1>1. phase = "ready"
    BY AtWork DEF SaveAndReload
  <1>2. /\ phase' = "restore" /\ shown' = None /\ hasProfile' = FALSE /\ vaultError' = FALSE
        /\ mode' = "signin" /\ loading' = FALSE /\ step' = "idle" /\ who' = None
        /\ UNCHANGED <<accounts, profiles, stuck, launches, signIns>>
    BY DEF SaveAndReload, Reload, ResetApp, ResetForm, serverVars
  <1>3. /\ file' \in [user : Somebody, key : Somebody] /\ deks' \in [Users -> Somebody]
        /\ pointer' \in Somebody /\ known' \subseteq Users
        /\ UNCHANGED <<session, mounted, vaults>> /\ faults' \in Nat
        /\ Remembered'
    BY <1>1, <1>2, SavedByForm DEF SaveAndReload
  <1>4. Presented' /\ Working'
    BY <1>2, FormPresented, Resting
  <1>5. TypeOK'
    BY <1>2, <1>3 DEF SignInInv, TypeOK, Somebody, Steps
  <1> QED
    BY <1>3, <1>4, <1>5 DEF SignInInv

LEMMA SaveVerifiedInv == SignInInv /\ SaveVerified => SignInInv'
  <1> SUFFICES ASSUME SignInInv, SaveVerified PROVE SignInInv'
    OBVIOUS
  <1>1. phase = "ready" /\ shown = None
    BY AtWork DEF SaveVerified
  <1>2. /\ UNCHANGED <<phase, shown, hasProfile, vaultError>>
        /\ mode' = "signin" /\ loading' = FALSE /\ step' = "idle" /\ who' = None
        /\ UNCHANGED <<accounts, profiles, stuck, launches, signIns>>
    BY DEF SaveVerified, StepUnchanged, appVars, ResetForm, serverVars
  <1>3. /\ file' \in [user : Somebody, key : Somebody] /\ deks' \in [Users -> Somebody]
        /\ pointer' \in Somebody /\ known' \subseteq Users
        /\ UNCHANGED <<session, mounted, vaults>> /\ faults' \in Nat
        /\ Remembered'
    BY <1>1, <1>2, SavedByForm DEF SaveVerified
  <1>4. Presented' /\ Working'
    BY <1>1, <1>2, FormPresented, Resting
  <1>5. TypeOK'
    BY <1>2, <1>3 DEF SignInInv, TypeOK, Somebody, Steps
  <1> QED
    BY <1>3, <1>4, <1>5 DEF SignInInv

LEMMA SignUpInv == SignInInv /\ SignUp => SignInInv'
  <1> SUFFICES ASSUME SignInInv, SignUp PROVE SignInInv'
    OBVIOUS
  <1>1. phase = "ready" /\ shown = None /\ who \in Users
    BY AtWork DEF SignUp
  <1>2. Fails \/ Goes
    BY DEF SignUp
  <1>3. faults' \in Nat
    BY <1>2, Counted DEF SignInInv
  <1>4. /\ UNCHANGED <<appVars, profiles, stuck, launches, signIns>> /\ faults' \in Nat
        /\ UNCHANGED <<mounted, vaults, deks, pointer, file>>
        /\ step' = "idle" /\ ~loading' /\ loading' \in BOOLEAN
    BY <1>3 DEF SignUp, StepUnchanged, ProcessUnchanged, diskVars, Accepted, ResetForm, HandsBack, Idle,
           SignInInv, TypeOK
  <1>5. /\ mode' \in {"signin", "signup", "verify"} /\ who' \in {None, who}
        /\ \/ UNCHANGED <<session, known>>
           \/ session' = who /\ known' = known \cup {who}
    BY DEF SignUp, ProcessUnchanged, Accepted, ResetForm, HandsBack, Idle, SignInInv, TypeOK
  <1>6. accounts' \in [Users -> {"none", "pending", "confirmed"}]
    BY DEF SignUp, SignInInv, TypeOK
  <1>7. /\ Presented' /\ Working' /\ Remembered'
        /\ session' \in Somebody /\ known' \subseteq Users
    BY <1>1, <1>4, <1>5, GoesOn
  <1>8. TypeOK'
    BY <1>1, <1>4, <1>5, <1>6, <1>7 DEF SignInInv, TypeOK, appVars, Somebody, Steps
  <1> QED
    BY <1>7, <1>8 DEF SignInInv

LEMMA ConfirmSignUpInv == SignInInv /\ ConfirmSignUp => SignInInv'
  <1> SUFFICES ASSUME SignInInv, ConfirmSignUp PROVE SignInInv'
    OBVIOUS
  <1>1. phase = "ready" /\ shown = None /\ who \in Users
    BY AtWork DEF ConfirmSignUp
  <1>2. Fails \/ Goes
    BY DEF ConfirmSignUp
  <1>3. faults' \in Nat
    BY <1>2, Counted DEF SignInInv
  <1>4. /\ UNCHANGED <<appVars, profiles, stuck, launches, signIns, session, known>>
        /\ UNCHANGED <<mounted, vaults, deks, pointer, file, mode, who>> /\ faults' \in Nat
        /\ loading' \in BOOLEAN
        /\ \/ step' = "autosign"
           \/ step' = "idle" /\ ~loading'
    BY <1>3 DEF ConfirmSignUp, StepUnchanged, ProcessUnchanged, diskVars, StepTo,            SignInInv, TypeOK
  <1>5. accounts' \in [Users -> {"none", "pending", "confirmed"}]
    BY DEF ConfirmSignUp, SignInInv, TypeOK
  <1>6. Presented' /\ Working' /\ Remembered'
    BY <1>1, <1>4, GoesOn DEF Steps
  <1>7. TypeOK'
    BY <1>1, <1>4, <1>5 DEF SignInInv, TypeOK, appVars, Somebody, Steps
  <1> QED
    BY <1>6, <1>7 DEF SignInInv

LEMMA SignInVerifiedInv == SignInInv /\ SignInVerified => SignInInv'
  <1> SUFFICES ASSUME SignInInv, SignInVerified PROVE SignInInv'
    OBVIOUS
  <1>1. phase = "ready" /\ shown = None /\ who \in Users
    BY AtWork DEF SignInVerified
  <1>2. Fails \/ Goes
    BY DEF SignInVerified
  <1>3. faults' \in Nat
    BY <1>2, Counted DEF SignInInv
  <1>4. /\ UNCHANGED <<appVars, accounts, profiles, launches, signIns>>
        /\ UNCHANGED <<mounted, vaults, deks, pointer, file, mode, who>> /\ faults' \in Nat
        /\ stuck' \in BOOLEAN /\ loading' \in BOOLEAN
        /\ \/ /\ step' = "setup" /\ session' = who /\ known' = known \cup {who}
              /\ UNCHANGED loading
           \/ /\ step' = "idle" /\ UNCHANGED <<session, known>>
              /\ stuck' \/ ~loading'
    BY <1>3 DEF SignInVerified, ProcessUnchanged, serverVars, diskVars, StepTo, Accepted,
                SignInInv, TypeOK
  <1>5. /\ Presented' /\ Working' /\ Remembered'
        /\ session' \in Somebody /\ known' \subseteq Users
    BY <1>1, <1>4, GoesOn DEF Steps
  <1>6. TypeOK'
    BY <1>1, <1>4, <1>5 DEF SignInInv, TypeOK, appVars, Somebody, Steps
  <1> QED
    BY <1>5, <1>6 DEF SignInInv

LEMMA SetupVerifiedInv == SignInInv /\ SetupVerified => SignInInv'
  <1> SUFFICES ASSUME SignInInv, SetupVerified PROVE SignInInv'
    OBVIOUS
  <1>1. phase = "ready" /\ shown = None /\ who \in Users
    BY AtWork DEF SetupVerified
  <1>2. Fails \/ Goes
    BY DEF SetupVerified
  <1>3. faults' \in Nat
    BY <1>2, Counted DEF SignInInv
  <1>4. /\ UNCHANGED <<appVars, accounts, profiles, stuck, launches, signIns, session, known>>
        /\ mode' = mode /\ faults' \in Nat /\ loading' \in BOOLEAN
        /\ \/ step' = "keep" /\ who' = who
           \/ step' = "idle" /\ who' = None /\ ~loading'
    BY <1>3 DEF SetupVerified, StepUnchanged, serverVars, StepTo, HandsBack, Idle,            SignInInv, TypeOK
  <1>5. /\ mounted' \in Somebody /\ vaults' \subseteq Users /\ deks' \in [Users -> Somebody]
        /\ pointer' = pointer /\ file' = file
    BY <1>1, Opened DEF SetupVerified, diskVars, SignInInv, TypeOK, Somebody
  <1>6. Presented' /\ Working' /\ Remembered'
    BY <1>1, <1>4, <1>5, GoesOn DEF Steps
  <1>7. TypeOK'
    BY <1>1, <1>4, <1>5 DEF SignInInv, TypeOK, appVars, Somebody, Steps
  <1> QED
    BY <1>6, <1>7 DEF SignInInv

LEMMA OAuthRefusedInv == SignInInv /\ OAuthRefused => SignInInv'
  <1> SUFFICES ASSUME SignInInv, OAuthRefused PROVE SignInInv'
    OBVIOUS
  <1>1. phase = "ready" /\ shown = None /\ who \in Users
    BY AtWork DEF OAuthRefused
  <1>2. /\ UNCHANGED <<appVars, accounts, profiles, stuck, launches, signIns, session, known>>
        /\ UNCHANGED <<mounted, vaults, deks, pointer, file, mode>> /\ faults' \in Nat
        /\ loading' = FALSE /\ step' = "idle" /\ who' = None
    BY DEF OAuthRefused, StepUnchanged, ProcessUnchanged, serverVars, diskVars, HandsBack, Idle,
           Fails, SignInInv, TypeOK
  <1>3. Presented' /\ Working' /\ Remembered'
    BY <1>1, <1>2, GoesOn
  <1>4. TypeOK'
    BY <1>1, <1>2 DEF SignInInv, TypeOK, appVars, Somebody, Steps
  <1> QED
    BY <1>3, <1>4 DEF SignInInv

\* The browser's answer makes or confirms the account.
LEMMA FederatedType ==
    TypeOK => Federated \in [Users -> {"none", "pending", "confirmed"}]
  BY DEF TypeOK, Federated

LEMMA GoogleAnswersInv == SignInInv /\ GoogleAnswers => SignInInv'
  <1> SUFFICES ASSUME SignInInv, GoogleAnswers PROVE SignInInv'
    OBVIOUS
  <1>1. phase = "ready" /\ shown = None /\ who \in Users
    BY AtWork DEF GoogleAnswers
  <1>2. /\ phase' = "restore" /\ shown' = None /\ hasProfile' = FALSE /\ vaultError' = FALSE
        /\ mode' = "signin" /\ loading' = FALSE /\ step' = "idle" /\ who' = None
        /\ UNCHANGED <<profiles, stuck, launches, signIns, faults>>
        /\ UNCHANGED <<mounted, vaults, deks, pointer, file>>
        /\ session' = who /\ known' = known \cup {who} /\ accounts' = Federated
    BY DEF GoogleAnswers, Reload, ResetApp, ResetForm, Accepted, diskVars
  <1>3. Presented' /\ Working'
    BY <1>2, FormPresented, Resting
  <1>4. Remembered'
    BY <1>1, <1>2, SameKnown
  <1>5. TypeOK'
    BY <1>1, <1>2, FederatedType DEF SignInInv, TypeOK, Somebody, Steps
  <1> QED
    BY <1>3, <1>4, <1>5 DEF SignInInv

LEMMA EntraAnswersInv == SignInInv /\ EntraAnswers => SignInInv'
  <1> SUFFICES ASSUME SignInInv, EntraAnswers PROVE SignInInv'
    OBVIOUS
  <1>1. phase = "ready" /\ shown = None /\ who \in Users
    BY AtWork DEF EntraAnswers
  <1>2. /\ UNCHANGED <<appVars, profiles, stuck, launches, signIns, faults>>
        /\ UNCHANGED <<mounted, vaults, deks, pointer, file, mode, loading, who>>
        /\ step' = "onboard"
        /\ session' = who /\ known' = known \cup {who} /\ accounts' = Federated
    BY DEF EntraAnswers, StepUnchanged, StepTo, Accepted, diskVars
  <1>3. /\ Presented' /\ Working' /\ Remembered'
        /\ session' \in Somebody /\ known' \subseteq Users
    BY <1>1, <1>2, GoesOn DEF Steps
  <1>4. TypeOK'
    BY <1>1, <1>2, <1>3, FederatedType DEF SignInInv, TypeOK, appVars, Somebody, Steps
  <1> QED
    BY <1>3, <1>4 DEF SignInInv

LEMMA AutoOnboardInv == SignInInv /\ AutoOnboard => SignInInv'
  <1> SUFFICES ASSUME SignInInv, AutoOnboard PROVE SignInInv'
    OBVIOUS
  <1>1. phase = "ready" /\ shown = None /\ who \in Users /\ session = who
    BY AtWork DEF AutoOnboard, SignInInv, Working
  <1>2. /\ phase' = "restore" /\ shown' = None /\ hasProfile' = FALSE /\ vaultError' = FALSE
        /\ mode' = "signin" /\ loading' = FALSE /\ step' = "idle" /\ who' = None
        /\ UNCHANGED <<accounts, session, known, stuck, launches, signIns, faults>>
        /\ UNCHANGED <<mounted, vaults, deks, pointer, file>>
        /\ profiles' \in {profiles, profiles \cup {session}}
    BY DEF AutoOnboard, Reload, ResetApp, ResetForm, ProcessUnchanged, diskVars
  <1>3. Presented' /\ Working'
    BY <1>2, FormPresented, Resting
  <1>4. Remembered'
    BY <1>1, <1>2, SameKnown
  <1>5. TypeOK'
    BY <1>1, <1>2 DEF SignInInv, TypeOK, Somebody, Steps
  <1> QED
    BY <1>3, <1>4, <1>5 DEF SignInInv

(***************************************************************************)
(* The theorems                                                            *)
(***************************************************************************)
LEMMA StepInv == SignInInv /\ [Next]_vars => SignInInv'
  <1> SUFFICES ASSUME SignInInv, [Next]_vars PROVE SignInInv'
    OBVIOUS
  <1>1. CASE Handlers
    BY <1>1, PasswordSignInInv, EnsureVaultInv, SaveAndReloadInv, SignUpInv, ConfirmSignUpInv,
       SignInVerifiedInv, SetupVerifiedInv, SaveVerifiedInv, OAuthRefusedInv, GoogleAnswersInv,
       EntraAnswersInv, AutoOnboardInv DEF Handlers
  <1>2. CASE UNCHANGED vars
    BY <1>2, Same DEF vars, serverVars, diskVars, appVars, formVars, SignInInv, TypeOK, Working,
                      FormComesBack
  <1> QED
    BY <1>1, <1>2, LaunchInv, SessionRestoreInv, GetSessionInv, OpenForAppInv, SaveForAppInv,
       SignOutInv, CreateProfileInv, SwitchModeInv, SubmitInv DEF Next

\* Every reachable state of a device's sign-ins is well typed, for any users,
\* providers, launches and faults.
THEOREM TypeCorrect == Spec => []TypeOK
  <1>1. SignInInv => TypeOK
    BY DEF SignInInv
  <1> QED
    BY <1>1, InitInv, StepInv, PTL DEF Spec

\* The app shows nobody as signed in who has not signed in on this device since
\* the last save or sign-out whose writes went through, whatever stopped in
\* between (session_save, session_clear, session_restore).
THEOREM ShownCorrect == Spec => []ShownIsKnown
  <1>1. SignInInv => ShownIsKnown
    BY DEF SignInInv, Remembered
  <1> QED
    BY <1>1, InitInv, StepInv, PTL DEF Spec

\* The vault and the tokens beside an app that reports no error are those of
\* the user it shows, however many accounts the device has seen (App.tsx,
\* initialize).
THEOREM VaultCorrect == Spec => []VaultOfShown
  <1>1. SignInInv => VaultOfShown
    BY DEF SignInInv, Presented
  <1> QED
    BY <1>1, InitInv, StepInv, PTL DEF Spec

\* The form is disabled only while one of its handlers works, but for a failed
\* sign-in after a verification (AuthPage.tsx).
THEOREM FormCorrect == Spec => []FormComesBack
  <1>1. SignInInv => FormComesBack
    BY DEF SignInInv, Working
  <1> QED
    BY <1>1, InitInv, StepInv, PTL DEF Spec

=============================================================================

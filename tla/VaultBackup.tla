----------------------------- MODULE VaultBackup -----------------------------
(***************************************************************************)
(* How an installation keeps its message history: a random key (the DEK),  *)
(* a vault file with the key's fingerprint, a SQLCipher database under the *)
(* key, the key itself in the OS keyring, and one backup slot per user on  *)
(* the server, shared by all the user's installations.  Launching decides  *)
(* between opening what is there, recovering the backup and setting up     *)
(* anew; a stop, a failing call or a lost file may come between any two    *)
(* steps.                                                                  *)
(*                                                                         *)
(* Left out: session.enc and the keyring's last-user pointer, which decide *)
(* only whether Launch restores the session or the user signs in; the MLS  *)
(* state file, of which the slot shows the key only; other accounts.       *)
(***************************************************************************)
EXTENDS FiniteSets, Naturals

CONSTANTS Devices,   \* the user's installations
          Keys,      \* what a random key may be
          NoKey,     \* no key, no file
          Plain,     \* the "key" of a database an old build left unencrypted
          Rows,      \* messages
          OldRows,   \* those in a database of the old build
          Legacy,    \* installations upgraded from the old build
          Tasks,     \* calls of sync_flush_backup that may overlap
          RunsOn,    \* RunsOn[t]: the installation that makes call t
          MaxFaults  \* bound: stops, failures and losses

ASSUME BackupAssumption ==
    /\ NoKey \notin Keys /\ Plain \notin Keys /\ NoKey # Plain
    /\ OldRows \subseteq Rows
    /\ Legacy \subseteq Devices
    /\ RunsOn \in [Tasks -> Devices]
    /\ MaxFaults \in Nat

VARIABLES
    vault,    \* vault[d]: the key whose fingerprint the vault file has
    db,       \* db[d]: messages.db: [key, main, wal], wal not yet checkpointed
    aside,    \* aside[d]: messages.db.unencrypted
    keyring,  \* keyring[d]: the key in the user's keyring entry
    mem,      \* mem[d]: LocalDb.dek; the connection is open when it is set
    dirty,    \* dirty[d]: LocalDb.dirty
    stage,    \* stage[d]: where the launch sequence is
    slot,     \* server: sync/<user>/: [vault, db, rows, mls]
    flush,    \* flush[t]: a backup: [at, key, was, db, rows]
    partial,  \* installations whose vault file is a download cut short
    used,     \* keys drawn so far: a random key is never drawn twice
    fresh,    \* history: fresh[d]: rows stored since the start that no read of
              \* the database file has missed
    lost,     \* history: installations that lost a file or a migrated row
    torn,     \* history: installations whose set-up or recovery was cut short
              \* while the vault file was written or after it
    crossed,  \* history: installations two of whose backups overlapped
    raced,    \* history: a backup began next to one under another key, or over
              \* one the server had overlooked
    faults

localVars == <<vault, db, aside, keyring, used, partial>>
history == <<lost, torn, crossed, raced>>
vars == <<localVars, mem, dirty, stage, slot, flush, fresh, history, faults>>

MaybeKey == Keys \cup {NoKey}
Files == [key : MaybeKey \cup {Plain}, main : SUBSET Rows, wal : SUBSET Rows]
NoFile == [key |-> NoKey, main |-> {}, wal |-> {}]
Stages == {"off", "out", "deciding", "verify", "fetching", "setup", "create", "open",
           "persist", "migrate", "finish", "ready", "failed"}
FlushStages == {"idle", "asking", "vault", "read", "db", "mls"}
Slots == [vault : MaybeKey, db : MaybeKey \cup {Plain}, rows : SUBSET Rows, mls : MaybeKey]
Flushes == [at : FlushStages, key : MaybeKey, was : BOOLEAN, db : MaybeKey \cup {Plain},
            rows : SUBSET Rows]
NoFlush == [at |-> "idle", key |-> NoKey, was |-> FALSE, db |-> NoKey, rows |-> {}]

Uploading == {t \in Tasks : flush[t].at \in {"vault", "read", "db", "mls"}}
TasksOf(d) == {t \in Tasks : RunsOn[t] = d}
Fault == faults < MaxFaults /\ faults' = faults + 1

TypeOK ==
    /\ vault \in [Devices -> MaybeKey]
    /\ db \in [Devices -> Files]
    /\ aside \in [Devices -> Files]
    /\ keyring \in [Devices -> MaybeKey]
    /\ mem \in [Devices -> MaybeKey]
    /\ dirty \in [Devices -> BOOLEAN]
    /\ stage \in [Devices -> Stages]
    /\ slot \in Slots
    /\ flush \in [Tasks -> Flushes]
    /\ used \subseteq Keys /\ partial \subseteq Devices
    /\ fresh \in [Devices -> SUBSET Rows]
    /\ lost \subseteq Devices /\ torn \subseteq Devices /\ crossed \subseteq Devices
    /\ raced \in BOOLEAN
    /\ faults \in 0..MaxFaults

\* The old build may have been stopped with rows in its WAL.
OldFile(inWal) == [key |-> Plain, main |-> OldRows \ inWal, wal |-> inWal]

Init ==
    /\ vault = [d \in Devices |-> NoKey]
    /\ \E inWal \in SUBSET OldRows :
          db = [d \in Devices |-> IF d \in Legacy THEN OldFile(inWal) ELSE NoFile]
    /\ aside = [d \in Devices |-> NoFile]
    /\ keyring = [d \in Devices |-> NoKey]
    /\ mem = [d \in Devices |-> NoKey]
    /\ dirty = [d \in Devices |-> FALSE]
    /\ stage = [d \in Devices |-> "off"]
    /\ slot = [vault |-> NoKey, db |-> NoKey, rows |-> {}, mls |-> NoKey]
    /\ flush = [t \in Tasks |-> NoFlush]
    /\ used = {} /\ partial = {}
    /\ fresh = [d \in Devices |-> {}]
    /\ lost = {} /\ torn = {} /\ crossed = {}
    /\ raced = FALSE
    /\ faults = 0

Present(file) == file.key # NoKey
\* Mutation: a missing database counts as one that opens.
OpensOrCreates(d, k) == k # NoKey /\ db[d].key \in {k, NoKey}
Opens(d, k) == k # NoKey /\ db[d].key = k
VaultFile(d) == vault[d] # NoKey \/ d \in partial
\* verify_fingerprint; a partial file does not even parse.
Fits(d, k) == k # NoKey /\ vault[d] = k
Move(d, to) == stage' = [stage EXCEPT ![d] = to]

-----------------------------------------------------------------------------
(* Launching: App.tsx's initialize and AuthPage's sign-in. *)

RestoredKey(d) == keyring[d]

\* session_restore mounts the database under the keyring's key without a look
\* at the vault file; when it cannot, the user signs in.
Launch(d) ==
    /\ stage[d] \in {"off", "out"}
    /\ Move(d, "deciding")
    /\ \/ UNCHANGED mem
       \/ /\ stage[d] = "off" /\ Opens(d, RestoredKey(d))
          /\ mem' = [mem EXCEPT ![d] = RestoredKey(d)]
    /\ UNCHANGED <<localVars, dirty, slot, flush, fresh, history, faults>>

\* vault_status: Unlocked, or Locked and unlock_vault.
OpenVault(d) ==
    /\ stage[d] = "deciding" /\ VaultFile(d)
    /\ \/ /\ Fits(d, mem[d])
          /\ Move(d, "ready") /\ UNCHANGED mem
       \/ /\ ~Fits(d, mem[d])
          /\ Fits(d, keyring[d]) /\ Opens(d, keyring[d])
          /\ mem' = [mem EXCEPT ![d] = keyring[d]]
          /\ Move(d, "ready")
       \/ /\ ~Fits(d, mem[d])
          /\ ~(Fits(d, keyring[d]) /\ Opens(d, keyring[d]))
          /\ Move(d, "failed") /\ UNCHANGED mem
    /\ UNCHANGED <<localVars, dirty, slot, flush, fresh, history, faults>>

\* The vault file of the backup is about to be written.
Downloads(d) ==
    /\ stage[d] = "deciding" /\ ~VaultFile(d)
    /\ keyring[d] # NoKey /\ ~Present(db[d]) /\ slot.vault # NoKey

\* What is left of a vault file whose writing failed or was cut short.
LeavesPartial(d) == partial' = partial \cup {d} /\ torn' = torn \cup {d}

\* sync_recover_local_state up to the download of the vault file.  The caller
\* treats an error like "nothing to recover" and sets up anew.  A failing write of
\* the vault file is an error like the others: what it wrote stays.
StartRecovery(d) ==
    /\ stage[d] = "deciding" /\ ~VaultFile(d)
    /\ \/ /\ ~Downloads(d)
          /\ Move(d, "setup") /\ UNCHANGED <<vault, partial, torn, faults>>
       \/ /\ Downloads(d)
          /\ vault' = [vault EXCEPT ![d] = slot.vault]
          /\ Move(d, "verify") /\ UNCHANGED <<partial, torn, faults>>
       \/ /\ keyring[d] # NoKey /\ ~Present(db[d]) /\ Fault
          /\ Move(d, "setup") /\ UNCHANGED <<vault, partial, torn>>
       \/ /\ Downloads(d) /\ Fault
          /\ LeavesPartial(d)
          /\ Move(d, "setup") /\ UNCHANGED vault
    /\ UNCHANGED <<db, aside, keyring, used, mem, dirty, slot, flush, fresh, lost, crossed,
                   raced>>

\* A backup under another key is no use: the downloaded vault file goes again.
VerifyRecovered(d) ==
    /\ stage[d] = "verify"
    /\ IF Fits(d, keyring[d])
       THEN Move(d, "fetching") /\ UNCHANGED vault
       ELSE Move(d, "setup") /\ vault' = [vault EXCEPT ![d] = NoKey]
    /\ UNCHANGED <<db, aside, keyring, used, partial, mem, dirty, slot, flush, fresh, history,
                   faults>>

\* The database is downloaded, written and mounted.  When something fails the
\* vault file goes, and the database too unless it is its writing that failed.
FetchRecovered(d) ==
    /\ stage[d] = "fetching"
    /\ \/ /\ slot.db = keyring[d]
          /\ db' = [db EXCEPT ![d] = [key |-> slot.db, main |-> slot.rows, wal |-> {}]]
          /\ mem' = [mem EXCEPT ![d] = keyring[d]]
          /\ Move(d, "ready") /\ UNCHANGED <<vault, faults>>
       \/ /\ IF slot.db = keyring[d] THEN Fault ELSE UNCHANGED faults
          /\ vault' = [vault EXCEPT ![d] = NoKey]
          /\ Move(d, "setup") /\ UNCHANGED <<db, mem>>
       \/ /\ slot.db # NoKey /\ Fault
          /\ db' = [db EXCEPT ![d] = [NoFile EXCEPT !.key = slot.db]]
          /\ vault' = [vault EXCEPT ![d] = NoKey]
          /\ Move(d, "setup") /\ UNCHANGED mem
    /\ UNCHANGED <<aside, keyring, used, partial, dirty, slot, flush, fresh, history>>

-----------------------------------------------------------------------------
(* setup_vault. *)

\* Mutation: renames over a database that waits for its migration.
SetsAsideAgain(d) == Present(db[d])
MustSetAside(d) == Present(db[d]) /\ ~Present(aside[d])

\* A vault file, were it a partial one, is never replaced.  Without one a database
\* counts as unencrypted and is set aside, its WAL deleted.  Windows refuses to
\* rename a file session_restore holds open.
SetAside(d) ==
    /\ stage[d] = "setup"
    /\ \/ /\ VaultFile(d)
          /\ Move(d, "failed") /\ UNCHANGED <<aside, db>>
       \/ /\ ~VaultFile(d) /\ MustSetAside(d)
          /\ aside' = [aside EXCEPT ![d] = [db[d] EXCEPT !.wal = {}]]
          /\ db' = [db EXCEPT ![d] = NoFile]
          /\ Move(d, "create")
       \/ /\ ~VaultFile(d) /\ MustSetAside(d) /\ mem[d] # NoKey
          /\ Move(d, "failed") /\ UNCHANGED <<aside, db>>
       \/ /\ ~VaultFile(d) /\ ~MustSetAside(d)
          /\ Move(d, "create") /\ UNCHANGED <<aside, db>>
    /\ UNCHANGED <<vault, keyring, used, partial, mem, dirty, slot, flush, fresh, history, faults>>

CreateVault(d, k) ==
    /\ stage[d] = "create" /\ k \in Keys \ used
    /\ used' = used \cup {k}
    /\ vault' = [vault EXCEPT ![d] = k]
    /\ Move(d, "open")
    /\ UNCHANGED <<db, aside, keyring, partial, mem, dirty, slot, flush, fresh, history, faults>>

\* open_encrypted_db with create; a file under another key, or a failure, is an
\* error that leaves the vault file behind.
CreateDb(d) ==
    /\ stage[d] = "open"
    /\ \/ /\ ~Present(db[d])
          /\ db' = [db EXCEPT ![d].key = vault[d]]
          /\ Move(d, "persist") /\ UNCHANGED <<torn, faults>>
       \/ /\ IF Present(db[d]) THEN UNCHANGED faults ELSE Fault
          /\ torn' = torn \cup {d}
          /\ Move(d, "failed") /\ UNCHANGED db
    /\ UNCHANGED <<vault, aside, keyring, used, partial, mem, dirty, slot, flush, fresh, lost,
                   crossed, raced>>

\* Mutation: the vault file stays.
NotRolledBack(d) == vault[d]
RolledBack(d) == NoKey

\* persist_dek_for_user; when it fails the vault file is removed, the database not.
PersistKey(d) ==
    /\ stage[d] = "persist"
    /\ \/ /\ keyring' = [keyring EXCEPT ![d] = vault[d]]
          /\ Move(d, "migrate") /\ UNCHANGED <<vault, faults>>
       \/ /\ Fault
          /\ vault' = [vault EXCEPT ![d] = RolledBack(d)]
          /\ Move(d, "failed") /\ UNCHANGED keyring
    /\ UNCHANGED <<db, aside, used, partial, mem, dirty, slot, flush, fresh, history>>

\* Rows are copied from the old database; failing inserts are passed over.  What
\* was set aside need not be readable without a key.
Migrate(d) ==
    /\ stage[d] = "migrate"
    /\ \/ /\ ~Present(aside[d])
          /\ Move(d, "finish") /\ UNCHANGED <<db, lost, faults>>
       \/ /\ aside[d].key = Plain
          /\ \E got \in SUBSET aside[d].main :
                /\ db' = [db EXCEPT ![d].wal = @ \cup got]
                /\ IF got = aside[d].main
                   THEN UNCHANGED <<lost, faults>>
                   ELSE lost' = lost \cup {d} /\ Fault
          /\ Move(d, "finish")
       \/ /\ Present(aside[d])
          /\ IF aside[d].key = Plain THEN Fault ELSE UNCHANGED faults
          /\ Move(d, "failed") /\ UNCHANGED <<db, lost>>
    /\ UNCHANGED <<vault, aside, keyring, used, partial, mem, dirty, slot, flush, fresh, torn,
                   crossed, raced>>

\* The old database is deleted and the new one mounted.
FinishSetup(d) ==
    /\ stage[d] = "finish"
    /\ aside' = [aside EXCEPT ![d] = NoFile]
    /\ mem' = [mem EXCEPT ![d] = vault[d]]
    /\ Move(d, "ready")
    /\ UNCHANGED <<vault, db, keyring, used, partial, dirty, slot, flush, fresh, history, faults>>

-----------------------------------------------------------------------------
(* The running application, and what happens to it. *)

\* store_message: one row, and the flag.
StoreRow(d, r) ==
    /\ stage[d] = "ready" /\ r \notin db[d].main \cup db[d].wal
    /\ db' = [db EXCEPT ![d].wal = @ \cup {r}]
    /\ dirty' = [dirty EXCEPT ![d] = TRUE]
    /\ fresh' = [fresh EXCEPT ![d] = @ \cup {r}]
    /\ UNCHANGED <<vault, aside, keyring, used, partial, mem, stage, slot, flush, history, faults>>

Checkpointed(file) == [file EXCEPT !.main = @ \cup file.wal, !.wal = {}]

\* SQLite moves the WAL into the file when it sees fit.
Checkpoint(d) ==
    /\ stage[d] = "ready" /\ db[d].wal # {}
    /\ db' = [db EXCEPT ![d] = Checkpointed(@)]
    /\ UNCHANGED <<vault, aside, keyring, used, partial, mem, dirty, stage, slot, flush, fresh,
                   history, faults>>

\* sign_out closes the connection, and with it the WAL, and forgets the key.
SignOut(d) ==
    /\ stage[d] \in {"ready", "failed"}
    /\ mem' = [mem EXCEPT ![d] = NoKey]
    /\ db' = [db EXCEPT ![d] = IF mem[d] = @.key THEN Checkpointed(@) ELSE @]
    /\ Move(d, "out")
    /\ UNCHANGED <<vault, aside, keyring, used, partial, dirty, slot, flush, fresh, history,
                   faults>>

\* The application stops: its memory and its backups in flight are gone.  In the
\* middle of a launch that counts as a fault, later it is quitting.
Stop(d) ==
    /\ stage[d] # "off"
    /\ IF stage[d] \in {"ready", "failed", "out"} THEN UNCHANGED faults ELSE Fault
    /\ Move(d, "off")
    /\ mem' = [mem EXCEPT ![d] = NoKey]
    /\ dirty' = [dirty EXCEPT ![d] = FALSE]
    /\ fresh' = [fresh EXCEPT ![d] = {}]
    /\ flush' = [t \in Tasks |-> IF RunsOn[t] = d THEN NoFlush ELSE flush[t]]
    /\ \/ /\ torn' = IF stage[d] \in {"verify", "fetching", "open", "persist"}
                     THEN torn \cup {d} ELSE torn
          /\ UNCHANGED partial
       \/ Downloads(d) /\ LeavesPartial(d)
    /\ UNCHANGED <<vault, db, aside, keyring, used, slot, lost, crossed, raced>>

\* Files vanish while the application is not running.
LoseFiles(d) ==
    /\ stage[d] = "off" /\ Fault
    /\ \/ /\ vault' = [vault EXCEPT ![d] = NoKey] /\ partial' = partial \ {d}
          /\ db' \in {db, [db EXCEPT ![d] = NoFile]}
       \/ db' = [db EXCEPT ![d] = NoFile] /\ UNCHANGED <<vault, partial>>
    /\ lost' = lost \cup {d}
    /\ UNCHANGED <<aside, keyring, used, mem, dirty, stage, slot, flush, fresh, torn, crossed,
                   raced>>

-----------------------------------------------------------------------------
(* sync_flush_backup: on a timer, on hiding the window, and forced after a  *)
(* sign-in or a set-up.  When a forced one starts is left open.             *)

Set(t, f) == flush' = [flush EXCEPT ![t] = f]

\* The key is in memory and there is something to save, or force is set.
StartFlush(t, force) ==
    LET d == RunsOn[t] IN
    /\ flush[t].at = "idle" /\ stage[d] = "ready"
    /\ force \/ dirty[d]
    /\ Set(t, [NoFlush EXCEPT !.at = "asking", !.key = mem[d]])
    /\ crossed' = IF \E o \in TasksOf(d) : flush[o].at # "idle"
                  THEN crossed \cup {d} ELSE crossed
    /\ UNCHANGED <<localVars, mem, dirty, stage, slot, fresh, lost, torn, raced, faults>>

\* Mutation: whoever has something to save may.
AnyoneOwns(t) == TRUE
Owns(t) == slot.vault \in {NoKey, flush[t].key}

Claim(t) ==
    LET d == RunsOn[t] IN
    /\ Set(t, [flush[t] EXCEPT !.at = "vault", !.was = dirty[d]])
    /\ dirty' = [dirty EXCEPT ![d] = FALSE]

\* backup_ownership.  An empty slot or one's own: claim the work; another's: give
\* up for good; no answer: leave the flag for the next tick.  check_sync_exists
\* takes a failure of its store for an empty slot.
AskOwner(t) ==
    /\ flush[t].at = "asking"
    /\ \/ /\ Owns(t) /\ Claim(t)
          /\ raced' = (raced \/ \E o \in Uploading : flush[o].key # flush[t].key)
          /\ UNCHANGED faults
       \/ /\ ~Owns(t) /\ Claim(t)
          /\ Fault
          /\ raced' = TRUE
       \/ /\ ~Owns(t)
          /\ Set(t, NoFlush)
          /\ dirty' = [dirty EXCEPT ![RunsOn[t]] = FALSE]
          /\ UNCHANGED <<raced, faults>>
       \/ /\ Fault
          /\ Set(t, NoFlush)
          /\ UNCHANGED <<dirty, raced>>
    /\ UNCHANGED <<localVars, mem, stage, slot, fresh, lost, torn, crossed>>

UploadVault(t) ==
    /\ flush[t].at = "vault"
    /\ slot' = [slot EXCEPT !.vault = vault[RunsOn[t]]]
    /\ Set(t, [flush[t] EXCEPT !.at = "read"])
    /\ UNCHANGED <<localVars, mem, dirty, stage, fresh, history, faults>>

\* std::fs::read of messages.db: what is still in the WAL is not read.
ReadDb(t) ==
    LET d == RunsOn[t] IN
    /\ flush[t].at = "read"
    /\ Set(t, [flush[t] EXCEPT !.at = "db", !.db = db[d].key, !.rows = db[d].main])
    /\ fresh' = [fresh EXCEPT ![d] = @ \ db[d].wal]
    /\ UNCHANGED <<localVars, mem, dirty, stage, slot, history, faults>>

UploadDb(t) ==
    /\ flush[t].at = "db"
    /\ slot' = [slot EXCEPT !.db = flush[t].db, !.rows = flush[t].rows]
    /\ Set(t, [flush[t] EXCEPT !.at = "mls"])
    /\ UNCHANGED <<localVars, mem, dirty, stage, fresh, history, faults>>

\* Without an MLS state file there is nothing to upload, which is no error.
UploadMls(t) ==
    /\ flush[t].at = "mls"
    /\ slot' \in {slot, [slot EXCEPT !.mls = flush[t].key]}
    /\ Set(t, NoFlush)
    /\ UNCHANGED <<localVars, mem, dirty, stage, fresh, history, faults>>

\* Mutation: a failure leaves the flag as it is.
NotRearmed(t) == dirty[RunsOn[t]]
\* The flag is set again if this call had cleared it.
Rearmed(t) == dirty[RunsOn[t]] \/ flush[t].was

\* A file cannot be read, a PUT fails, or is carried out and its answer lost.
FailFlush(t) ==
    LET d == RunsOn[t] IN
    /\ t \in Uploading /\ Fault
    /\ \/ UNCHANGED slot
       \/ /\ flush[t].at = "vault"
          /\ slot' = [slot EXCEPT !.vault = vault[d]]
       \/ /\ flush[t].at = "db"
          /\ slot' = [slot EXCEPT !.db = flush[t].db, !.rows = flush[t].rows]
       \/ /\ flush[t].at = "mls"
          /\ slot' = [slot EXCEPT !.mls = flush[t].key]
    /\ dirty' = [dirty EXCEPT ![d] = Rearmed(t)]
    /\ Set(t, NoFlush)
    /\ UNCHANGED <<localVars, mem, stage, fresh, history>>

-----------------------------------------------------------------------------
LaunchStep(d) ==
    \/ Launch(d) \/ OpenVault(d)
    \/ StartRecovery(d) \/ VerifyRecovered(d) \/ FetchRecovered(d)
    \/ SetAside(d) \/ (\E k \in Keys : CreateVault(d, k)) \/ CreateDb(d) \/ PersistKey(d)
    \/ Migrate(d) \/ FinishSetup(d)

FlushStep(t) ==
    \/ \E force \in BOOLEAN : StartFlush(t, force)
    \/ AskOwner(t) \/ UploadVault(t) \/ ReadDb(t) \/ UploadDb(t) \/ UploadMls(t) \/ FailFlush(t)

Next ==
    \/ \E d \in Devices :
          \/ LaunchStep(d)
          \/ \E r \in Rows : StoreRow(d, r)
          \/ Checkpoint(d) \/ SignOut(d) \/ Stop(d) \/ LoseFiles(d)
    \/ \E t \in Tasks : FlushStep(t)

Spec == Init /\ [][Next]_vars

-----------------------------------------------------------------------------
(* Properties. *)

\* When a launch ends well, whatever stops, losses and recoveries came before, the
\* mounted key is the keyring's, it is the vault's, and the database on disk is
\* under it (unlock_vault, sync_recover_local_state, setup_vault, session_restore).
ReadyIsConsistent ==
    \A d \in Devices : stage[d] = "ready" =>
        mem[d] \in Keys /\ mem[d] = vault[d] /\ mem[d] = keyring[d] /\ mem[d] = db[d].key

\* A vault file whose key is not in the keyring cannot be opened or replaced, as
\* setup_vault refuses.  An installation at rest has one, or a vault without its
\* database, only if its set-up or recovery was cut short while the vault file was
\* written or after it: a failing keyring, an interrupted migration, a lost database
\* and a recovery under another key leave none.  (That a cut does leave one is what
\* NeverLockedOut below is about.)
LockedOutOnlyIfCut ==
    \A d \in Devices \ torn :
        VaultFile(d) /\ stage[d] \in {"off", "out", "deciding", "ready", "failed"} =>
            /\ keyring[d] = vault[d]
            /\ d \notin lost => db[d].key = vault[d]

\* What the installation can show: rows of the database under its key, and rows an
\* old build left unencrypted.  Those the old build left in its WAL count only once
\* they are in a file: setup_vault deletes that WAL (see OldWalKept).
Readable(d) ==
    (IF db[d].key \in {keyring[d], Plain} THEN db[d].main ELSE {})
      \cup (IF db[d].key = keyring[d] THEN db[d].wal ELSE {})
      \cup (IF aside[d].key = Plain THEN aside[d].main ELSE {})

\* No step of launching, setting up, migrating, stopping or signing out takes rows
\* from an installation that lost no file and no insert.
HistoryKept ==
    [][\A d \in Devices : d \notin lost' => Readable(d) \subseteq Readable(d)']_vars

\* The parts of the backup are under one key, unless backups under two keys
\* overlapped, as the check of backup_ownership and the uploads are not one step, or
\* the server overlooked a backup.
BackupUnderOneKey ==
    ~raced => slot.db \in {NoKey, slot.vault} /\ slot.mls \in {NoKey, slot.vault}

\* But for these two a backup, once there, is never taken over by another key.
SlotNotTaken ==
    [][slot.vault # NoKey /\ ~raced' => slot'.vault = slot.vault]_vars

\* The dirty flag answers for every row stored since the start that the backups have
\* not missed in the WAL: it is set, or a backup in flight carries the row or will
\* set the flag again, or the slot has it, or is another key's.
UnsavedIsFlagged ==
    \A d \in Devices \ crossed : \A r \in fresh[d] :
        \/ raced
        \/ dirty[d]
        \/ \E t \in TasksOf(d) \cap Uploading :
              flush[t].was /\ (flush[t].at \in {"vault", "read"} \/ r \in flush[t].rows)
        \/ slot.vault = vault[d] /\ slot.db = vault[d] /\ r \in slot.rows
        \/ slot.vault \notin {NoKey, vault[d]}

-----------------------------------------------------------------------------
(* What the repository says and the code does not do. *)

\* "This NEVER uploads over a server slot keyed to a different DEK [...] When ownership
\* can't be determined (network error), we leave the change pending": a whole backup
\* is not written over under another key.  (Stated for one backup at a time.)
ForeignSlotKept ==
    [][slot.vault # NoKey /\ slot.db = slot.vault => slot'.vault = slot.vault]_vars

\* "The encryption key is written to the OS keyring before the new database is used,
\* and the vault file is rolled back if that write fails, so an interruption can no
\* longer leave a database that cannot be unlocked": the vault file is written first,
\* and a stop before the key is in the keyring leaves it there without its key.
NeverLockedOut ==
    \A d \in Devices : stage[d] \in {"off", "out"} /\ vault[d] # NoKey => keyring[d] = vault[d]

\* "If a stray unencrypted DB was left behind by a much older build, set it aside [...]
\* Migrating those rows is best-effort": rows in the WAL of that database are not
\* even tried, the WAL is deleted before anything reads it.
OldWalKept ==
    [][\A d \in Devices : db[d].key = Plain /\ d \notin lost' =>
          db[d].main \cup db[d].wal
             \subseteq db'[d].main \cup db'[d].wal \cup aside'[d].main \cup aside'[d].wal]_vars

\* "When the local vault files are missing but the device's encryption key is still
\* present in the OS keyring, the client re-downloads and remounts the backup
\* instead of starting with an empty history": the key of a complete backup is
\* never replaced in the keyring.
KeyOfBackupKept ==
    [][\A d \in Devices :
          keyring[d] # NoKey /\ slot.vault = keyring[d] /\ slot.db = keyring[d]
            => keyring'[d] = keyring[d]]_vars

\* The dirty flag means "unsaved-to-server changes": when it is clear after a
\* backup, the backup has every row.
CleanIsBackedUp ==
    \A d \in Devices :
        stage[d] = "ready" /\ ~dirty[d] /\ slot.vault = mem[d] /\ slot.db = mem[d]
          /\ (\A t \in TasksOf(d) : flush[t].at = "idle")
            => db[d].main \cup db[d].wal \subseteq slot.rows
=============================================================================

-------------------------- MODULE VaultBackupProofs --------------------------
(***************************************************************************)
(* The vault and the backup for any number of installations, keys, rows,   *)
(* overlapping backups and faults: the types; that a launch that ends well *)
(* ends with one key everywhere; that only a cut-short set-up or recovery  *)
(* locks an installation out; that without overlapping backups under two   *)
(* keys the slot belongs to one key for good; that history is kept; and    *)
(* that the dirty flag answers for what is not backed up yet.              *)
(***************************************************************************)
EXTENDS VaultBackup, TLAPS

(***************************************************************************)
(* Types                                                                   *)
(***************************************************************************)
LEMMA InitType == Init => TypeOK
  <1> SUFFICES ASSUME Init PROVE TypeOK
    OBVIOUS
  <1>1. NoFile \in Files /\ \A inWal \in SUBSET OldRows : OldFile(inWal) \in Files
    BY BackupAssumption DEF NoFile, OldFile, Files, MaybeKey
  <1>2. db \in [Devices -> Files] /\ aside \in [Devices -> Files]
    BY <1>1 DEF Init
  <1>3. NoKey \in MaybeKey /\ "off" \in Stages
    BY DEF MaybeKey, Stages
  <1>4. vault \in [Devices -> MaybeKey] /\ keyring \in [Devices -> MaybeKey]
         /\ mem \in [Devices -> MaybeKey] /\ stage \in [Devices -> Stages]
    BY <1>3 DEF Init
  <1>5. slot \in Slots
    BY DEF Init, Slots, MaybeKey
  <1>6. NoFlush \in Flushes
    BY DEF NoFlush, Flushes, FlushStages, MaybeKey
  <1>7. flush \in [Tasks -> Flushes]
    BY <1>6 DEF Init
  <1>8. dirty \in [Devices -> BOOLEAN] /\ fresh \in [Devices -> SUBSET Rows]
    BY DEF Init
  <1>9. faults \in 0..MaxFaults
    BY BackupAssumption DEF Init
  <1>10. used \subseteq Keys /\ partial \subseteq Devices /\ lost \subseteq Devices /\ torn \subseteq Devices
         /\ crossed \subseteq Devices /\ raced \in BOOLEAN
    BY DEF Init
  <1> QED
    BY <1>2, <1>4, <1>5, <1>7, <1>8, <1>9, <1>10 DEF TypeOK

LEMMA FaultType ==
    ASSUME TypeOK, Fault \/ UNCHANGED faults PROVE faults' \in 0..MaxFaults
  BY BackupAssumption DEF TypeOK, Fault

LEMMA FileType ==
    ASSUME NEW f \in Files, NEW k \in MaybeKey, NEW R \in SUBSET Rows
    PROVE  /\ [f EXCEPT !.key = k] \in Files
           /\ [f EXCEPT !.wal = R] \in Files
           /\ Checkpointed(f) \in Files /\ Checkpointed(f).key = f.key
           /\ NoFile \in Files
  BY DEF Files, Checkpointed, NoFile, MaybeKey

LEMMA FlushType ==
    ASSUME NEW f \in Flushes, NEW at \in FlushStages, NEW k \in MaybeKey, NEW was \in BOOLEAN,
           NEW held \in MaybeKey \cup {Plain}, NEW R \in SUBSET Rows
    PROVE  /\ NoFlush \in Flushes
           /\ [NoFlush EXCEPT !.at = at, !.key = k] \in Flushes
           /\ [f EXCEPT !.at = at] \in Flushes
           /\ [f EXCEPT !.at = at, !.was = was] \in Flushes
           /\ [f EXCEPT !.at = at, !.db = held, !.rows = R] \in Flushes
  <1>1. NoFlush \in Flushes
    BY DEF NoFlush, Flushes, FlushStages, MaybeKey
  <1>2. [NoFlush EXCEPT !.at = at, !.key = k] \in Flushes
    <2> DEFINE g == [NoFlush EXCEPT !.at = at]
    <2>1. g \in Flushes
      BY <1>1 DEF Flushes
    <2>2. [NoFlush EXCEPT !.at = at, !.key = k] = [g EXCEPT !.key = k]
      OBVIOUS
    <2> HIDE DEF g
    <2> QED
      BY <2>1, <2>2 DEF Flushes
  <1>3. [f EXCEPT !.at = at] \in Flushes
    BY DEF Flushes
  <1>4. [f EXCEPT !.at = at, !.was = was] \in Flushes
    <2> DEFINE g == [f EXCEPT !.at = at]
    <2>1. g \in Flushes
      BY DEF Flushes
    <2>2. [f EXCEPT !.at = at, !.was = was] = [g EXCEPT !.was = was]
      OBVIOUS
    <2> HIDE DEF g
    <2> QED
      BY <2>1, <2>2 DEF Flushes
  <1>5. [f EXCEPT !.at = at, !.db = held, !.rows = R] \in Flushes
    BY DEF Flushes
  <1> QED
    BY <1>1, <1>2, <1>3, <1>4, <1>5

LEMMA SlotType ==
    ASSUME NEW s \in Slots, NEW k \in MaybeKey, NEW held \in MaybeKey \cup {Plain},
           NEW R \in SUBSET Rows
    PROVE  /\ [s EXCEPT !.vault = k] \in Slots
           /\ [s EXCEPT !.db = held, !.rows = R] \in Slots
           /\ [s EXCEPT !.mls = k] \in Slots
  <1>1. [s EXCEPT !.db = held, !.rows = R] \in Slots
    BY DEF Slots
  <1> QED
    BY <1>1 DEF Slots

LEMMA StepType == TypeOK /\ [Next]_vars => TypeOK'
  <1> SUFFICES ASSUME TypeOK, [Next]_vars PROVE TypeOK'
    OBVIOUS
  <1> USE DEF TypeOK, Move, Set, Fault, Stages, localVars, history
  <1>1. ASSUME NEW d \in Devices, LaunchStep(d) PROVE TypeOK'
    <2>1. CASE Launch(d)
      BY <2>1 DEF Launch, RestoredKey
    <2>2. CASE OpenVault(d)
      BY <2>2 DEF OpenVault
    <2>3. CASE StartRecovery(d)
      <3>1. faults' \in 0..MaxFaults
        BY <2>3, FaultType DEF StartRecovery
      <3>2. vault' \in [Devices -> MaybeKey] /\ stage' \in [Devices -> Stages]
        BY <2>3 DEF StartRecovery, Slots
      <3>3. partial' \subseteq Devices /\ torn' \subseteq Devices
        BY <2>3 DEF StartRecovery, LeavesPartial
      <3> QED
        BY <2>3, <3>1, <3>2, <3>3 DEF StartRecovery
    <2>4. CASE VerifyRecovered(d)
      BY <2>4 DEF VerifyRecovered, MaybeKey
    <2>5. CASE FetchRecovered(d)
      <3>1. faults' \in 0..MaxFaults
        BY <2>5, FaultType DEF FetchRecovered
      <3>2. vault' \in [Devices -> MaybeKey] /\ mem' \in [Devices -> MaybeKey]
        BY <2>5 DEF FetchRecovered, MaybeKey
      <3>3. [key |-> slot.db, main |-> slot.rows, wal |-> {}] \in Files
        BY DEF Slots, Files
      <3>a. [NoFile EXCEPT !.key = slot.db] \in Files
        BY DEF Slots, Files, NoFile
      <3>4. db' \in [Devices -> Files]
        BY <2>5, <3>3, <3>a DEF FetchRecovered
      <3>5. stage' \in [Devices -> Stages]
        BY <2>5 DEF FetchRecovered
      <3> QED
        BY <2>5, <3>1, <3>2, <3>4, <3>5 DEF FetchRecovered
    <2>6. CASE SetAside(d)
      <3>1. NoFile \in Files /\ [db[d] EXCEPT !.wal = {}] \in Files
        BY FileType DEF MaybeKey
      <3>2. db' = [db EXCEPT ![d] = NoFile] \/ db' = db
        BY <2>6 DEF SetAside, MustSetAside
      <3>4. db' \in [Devices -> Files]
        BY <3>1, <3>2
      <3>5. aside' = [aside EXCEPT ![d] = [db[d] EXCEPT !.wal = {}]] \/ aside' = aside
        BY <2>6 DEF SetAside, MustSetAside
      <3>6. aside' \in [Devices -> Files]
        BY <3>1, <3>5
      <3>3. stage' \in [Devices -> Stages]
        BY <2>6 DEF SetAside, MustSetAside
      <3> QED
        BY <2>6, <3>3, <3>4, <3>6 DEF SetAside, MustSetAside
    <2>7. ASSUME NEW k \in Keys, CreateVault(d, k) PROVE TypeOK'
      BY <2>7 DEF CreateVault, MaybeKey
    <2>8. CASE CreateDb(d)
      <3>1. faults' \in 0..MaxFaults
        BY <2>8, FaultType DEF CreateDb
      <3>2. [db[d] EXCEPT !.key = vault[d]] \in Files
        BY FileType
      <3>3. db' \in [Devices -> Files]
        BY <2>8, <3>2 DEF CreateDb
      <3>4. stage' \in [Devices -> Stages] /\ torn' \subseteq Devices
        BY <2>8 DEF CreateDb
      <3> QED
        BY <2>8, <3>1, <3>3, <3>4 DEF CreateDb
    <2>9. CASE PersistKey(d)
      BY <2>9, BackupAssumption DEF PersistKey, RolledBack, MaybeKey
    <2>10. CASE Migrate(d)
      <3>1. faults' \in 0..MaxFaults
        BY <2>10, FaultType DEF Migrate
      <3>2. \A got \in SUBSET aside[d].main : [db[d] EXCEPT !.wal = @ \cup got] \in Files
        BY DEF Files
      <3>a. \/ db' = db
            \/ \E got \in SUBSET aside[d].main :
                  db' = [db EXCEPT ![d] = [db[d] EXCEPT !.wal = @ \cup got]]
        <4>1. CASE UNCHANGED db
          BY <4>1
        <4>2. CASE ~UNCHANGED db
          <5>1. PICK got \in SUBSET aside[d].main : db' = [db EXCEPT ![d].wal = @ \cup got]
            BY <2>10, <4>2 DEF Migrate
          <5> QED
            BY <5>1
        <4> QED
          BY <4>1, <4>2
      <3>3. db' \in [Devices -> Files]
        BY <3>a, <3>2
      <3>4. stage' \in [Devices -> Stages] /\ lost' \subseteq Devices
        BY <2>10 DEF Migrate
      <3> QED
        BY <2>10, <3>1, <3>3, <3>4 DEF Migrate
    <2>11. CASE FinishSetup(d)
      BY <2>11, FileType DEF FinishSetup
    <2> QED
      BY <1>1, <2>1, <2>2, <2>3, <2>4, <2>5, <2>6, <2>7, <2>8, <2>9, <2>10, <2>11
      DEF LaunchStep
  <1>2. ASSUME NEW d \in Devices, NEW r \in Rows, StoreRow(d, r) PROVE TypeOK'
    BY <1>2 DEF StoreRow, Files
  <1>3. ASSUME NEW d \in Devices, Checkpoint(d) PROVE TypeOK'
    BY <1>3 DEF Checkpoint, Checkpointed, Files
  <1>4. ASSUME NEW d \in Devices, SignOut(d) PROVE TypeOK'
    <2>1. db[d] \in Files /\ Checkpointed(db[d]) \in Files
      BY FileType DEF MaybeKey
    <2>2. db' \in [Devices -> Files]
      BY <1>4, <2>1 DEF SignOut
    <2> QED
      BY <1>4, <2>2 DEF SignOut, MaybeKey
  <1>5. ASSUME NEW d \in Devices, Stop(d) PROVE TypeOK'
    <2>1. faults' \in 0..MaxFaults
      BY <1>5, FaultType DEF Stop
    <2>2. NoFlush \in Flushes
      BY DEF NoFlush, Flushes, FlushStages, MaybeKey
    <2>3. flush' \in [Tasks -> Flushes]
      BY <1>5, <2>2 DEF Stop
    <2>4. mem' \in [Devices -> MaybeKey] /\ dirty' \in [Devices -> BOOLEAN]
          /\ fresh' \in [Devices -> SUBSET Rows]
      BY <1>5 DEF Stop, MaybeKey
    <2>5. stage' \in [Devices -> Stages] /\ torn' \subseteq Devices /\ partial' \subseteq Devices
      BY <1>5 DEF Stop, LeavesPartial
    <2> QED
      BY <1>5, <2>1, <2>3, <2>4, <2>5 DEF Stop
  <1>6. ASSUME NEW d \in Devices, LoseFiles(d) PROVE TypeOK'
    <2>1. faults' \in 0..MaxFaults
      BY <1>6, FaultType DEF LoseFiles
    <2>2. NoFile \in Files
      BY DEF NoFile, Files, MaybeKey
    <2>3. vault' \in [Devices -> MaybeKey] /\ db' \in [Devices -> Files]
      BY <1>6, <2>2 DEF LoseFiles, MaybeKey
    <2>4. lost' \subseteq Devices /\ partial' \subseteq Devices
      BY <1>6 DEF LoseFiles
    <2> QED
      BY <1>6, <2>1, <2>3, <2>4 DEF LoseFiles
  <1>7. ASSUME NEW t \in Tasks, FlushStep(t) PROVE TypeOK'
    <2> DEFINE d == RunsOn[t]
    <2>d. d \in Devices /\ vault[d] \in MaybeKey /\ mem[d] \in MaybeKey /\ db[d] \in Files
          /\ db[d].key \in MaybeKey \cup {Plain} /\ db[d].main \in SUBSET Rows
          /\ flush[t] \in Flushes /\ flush[t].key \in MaybeKey
          /\ flush[t].db \in MaybeKey \cup {Plain} /\ flush[t].rows \in SUBSET Rows
          /\ dirty[d] \in BOOLEAN
      BY BackupAssumption DEF Files, Flushes
    <2> HIDE DEF d
    <2>s. {"idle", "asking", "vault", "read", "db", "mls"} \subseteq FlushStages
      BY DEF FlushStages
    <2>1. ASSUME NEW force \in BOOLEAN, StartFlush(t, force) PROVE TypeOK'
      <3>1. [NoFlush EXCEPT !.at = "asking", !.key = mem[d]] \in Flushes
        BY <2>d, <2>s, FlushType
      <3>2. flush' = [flush EXCEPT ![t] = [NoFlush EXCEPT !.at = "asking", !.key = mem[d]]]
        BY <2>1 DEF StartFlush, d
      <3>3. flush' \in [Tasks -> Flushes]
        BY <3>1, <3>2
      <3>4. crossed' \subseteq Devices
        BY <2>1, <2>d DEF StartFlush, d
      <3> QED
        BY <2>1, <3>3, <3>4 DEF StartFlush
    <2>2. CASE AskOwner(t)
      <3>1. \A was \in BOOLEAN : [flush[t] EXCEPT !.at = "vault", !.was = was] \in Flushes
        BY <2>d, <2>s, FlushType
      <3>2. NoFlush \in Flushes
        BY <2>d, <2>s, FlushType
      <3>3. flush' \in [Tasks -> Flushes]
        BY <2>2, <2>d, <3>1, <3>2 DEF AskOwner, Owns, Claim, d
      <3>4. faults' \in 0..MaxFaults
        BY <2>2, FaultType DEF AskOwner, Owns, Claim
      <3>5. dirty' \in [Devices -> BOOLEAN]
        BY <2>2, <2>d DEF AskOwner, Owns, Claim
      <3>6. raced' \in BOOLEAN
        BY <2>2 DEF AskOwner, Owns, Claim
      <3> QED
        BY <2>2, <3>3, <3>4, <3>5, <3>6 DEF AskOwner, Owns, Claim
    <2>3. CASE UploadVault(t)
      <3>1. [flush[t] EXCEPT !.at = "read"] \in Flushes /\ [slot EXCEPT !.vault = vault[d]] \in Slots
        BY <2>d, <2>s, FlushType, SlotType
      <3> QED
        BY <2>3, <3>1 DEF UploadVault, d
    <2>4. CASE ReadDb(t)
      <3>1. [flush[t] EXCEPT !.at = "db", !.db = db[d].key, !.rows = db[d].main] \in Flushes
        BY <2>d, <2>s, FlushType
      <3>2. flush' = [flush EXCEPT ![t] = [flush[t] EXCEPT !.at = "db", !.db = db[d].key,
                                                          !.rows = db[d].main]]
        BY <2>4 DEF ReadDb, d
      <3>3. flush' \in [Tasks -> Flushes]
        BY <3>1, <3>2
      <3> QED
        BY <2>4, <2>d, <3>3 DEF ReadDb, d
    <2>5. CASE UploadDb(t)
      <3>1. [flush[t] EXCEPT !.at = "mls"] \in Flushes
        BY <2>d, <2>s, FlushType
      <3>2. [slot EXCEPT !.db = flush[t].db, !.rows = flush[t].rows] \in Slots
        BY <2>d, SlotType
      <3> QED
        BY <2>5, <3>1, <3>2 DEF UploadDb
    <2>6. CASE UploadMls(t)
      <3>1. NoFlush \in Flushes /\ [slot EXCEPT !.mls = flush[t].key] \in Slots
        BY <2>d, <2>s, FlushType, SlotType
      <3> QED
        BY <2>6, <3>1 DEF UploadMls
    <2>7. CASE FailFlush(t)
      <3>1. /\ NoFlush \in Flushes
            /\ [slot EXCEPT !.vault = vault[d]] \in Slots
            /\ [slot EXCEPT !.db = flush[t].db, !.rows = flush[t].rows] \in Slots
            /\ [slot EXCEPT !.mls = flush[t].key] \in Slots
        BY <2>d, <2>s, FlushType, SlotType
      <3>2. slot' \in Slots /\ flush' \in [Tasks -> Flushes]
        BY <2>7, <3>1 DEF FailFlush, Rearmed, d
      <3>3. faults' \in 0..MaxFaults
        BY <2>7, FaultType DEF FailFlush, Rearmed
      <3>4. \A b \in BOOLEAN : [dirty EXCEPT ![d] = b] \in [Devices -> BOOLEAN]
        BY <2>d
      <3>5. dirty' \in [Devices -> BOOLEAN]
        BY <2>7, <3>4, Zenon DEF FailFlush, Rearmed, d
      <3> QED
        BY <2>7, <3>2, <3>3, <3>5 DEF FailFlush, Rearmed
    <2> QED
      BY <1>7, <2>1, <2>2, <2>3, <2>4, <2>5, <2>6, <2>7 DEF FlushStep
  <1>8. CASE UNCHANGED vars
    BY <1>8 DEF vars
  <1> QED
    BY <1>1, <1>2, <1>3, <1>4, <1>5, <1>6, <1>7, <1>8 DEF Next

\* Files, keys, launch stages, the slot and the backups under way stay in their types.
THEOREM TypeCorrect == Spec => []TypeOK
  <1>1. TypeOK /\ [Next]_vars => TypeOK'
    BY StepType
  <1> QED
    BY InitType, <1>1, PTL DEF Spec

(***************************************************************************)
(* One key per installation.  What each stage of a launch knows of vault,  *)
(* database, keyring and memory; and that a backup under way runs under    *)
(* the key of an installation whose files are whole.                       *)
(***************************************************************************)
Whole(d) == vault[d] \in Keys /\ keyring[d] = vault[d] /\ db[d].key = vault[d]

Stage(d) ==
    /\ stage[d] \in {"off", "out"} => mem[d] = NoKey
    /\ stage[d] = "deciding" => mem[d] = NoKey \/ (mem[d] = keyring[d] /\ Opens(d, keyring[d]))
    /\ stage[d] \in {"setup", "create"} => vault[d] = NoKey
    /\ stage[d] = "fetching" => vault[d] \in Keys /\ keyring[d] = vault[d]
    /\ stage[d] \in {"verify", "open"} => vault[d] \in Keys
    /\ stage[d] = "persist" => vault[d] \in Keys /\ db[d].key = vault[d]
    /\ stage[d] \in {"migrate", "finish", "ready"} => Whole(d)
    /\ stage[d] = "ready" => mem[d] = vault[d]

Backing(t) ==
    LET d == RunsOn[t] IN
    flush[t].at # "idle" =>
        /\ Whole(d) /\ flush[t].key = vault[d]
        /\ stage[d] \in {"ready", "out", "deciding"}
        /\ flush[t].at = "db" => flush[t].db = flush[t].key

Resting == {"off", "out", "deciding", "ready", "failed"}
Locked(d) ==
    d \notin torn /\ vault[d] # NoKey /\ stage[d] \in Resting =>
        keyring[d] = vault[d] /\ (d \notin lost => db[d].key = vault[d])

KeyInv ==
    /\ TypeOK
    /\ \A d \in Devices : Stage(d)
    /\ \A t \in Tasks : Backing(t)
    /\ \A d \in Devices : Locked(d)

\* What Stage, Locked and Backing read of an installation.
Same(d) ==
    /\ vault'[d] = vault[d] /\ db'[d].key = db[d].key /\ keyring'[d] = keyring[d]
    /\ mem'[d] = mem[d] /\ stage'[d] = stage[d]
    /\ d \in torn' <=> d \in torn
    /\ d \in lost' <=> d \in lost

LEMMA SameKeeps ==
    ASSUME NEW d \in Devices, Same(d)
    PROVE  /\ Stage(d) => Stage(d)'
           /\ Locked(d) => Locked(d)'
           /\ Whole(d) => Whole(d)'
  BY DEF Same, Stage, Locked, Whole, Opens

LEMMA BackingKept ==
    ASSUME NEW t \in Tasks, Backing(t), flush'[t] = flush[t],
           Whole(RunsOn[t]) /\ stage[RunsOn[t]] \in {"ready", "out", "deciding"} =>
               /\ Whole(RunsOn[t])' /\ vault'[RunsOn[t]] = vault[RunsOn[t]]
               /\ stage'[RunsOn[t]] \in {"ready", "out", "deciding"}
    PROVE  Backing(t)'
  BY DEF Backing

\* A step of one installation that leaves the calls of sync_flush_backup alone: it
\* is enough to look at that installation.
LEMMA OneInstallation ==
    ASSUME KeyInv, TypeOK', NEW d \in Devices, flush' = flush,
           \A e \in Devices : e # d => Same(e),
           Stage(d)', Locked(d)',
           Whole(d) /\ stage[d] \in {"ready", "out", "deciding"} =>
               /\ Whole(d)' /\ vault'[d] = vault[d] /\ stage'[d] \in {"ready", "out", "deciding"}
    PROVE  KeyInv'
  <1>1. ASSUME NEW e \in Devices PROVE Stage(e)' /\ Locked(e)'
    <2>1. CASE e = d
      BY <2>1
    <2>2. CASE e # d
      BY <2>2, SameKeeps DEF KeyInv
    <2> QED
      BY <2>1, <2>2
  <1>2. ASSUME NEW t \in Tasks PROVE Backing(t)'
    <2>1. RunsOn[t] \in Devices /\ Backing(t)
      BY BackupAssumption DEF KeyInv
    <2>2. CASE RunsOn[t] = d
      BY <2>1, <2>2, BackingKept
    <2>3. CASE RunsOn[t] # d
      <3>1. Same(RunsOn[t])
        BY <2>1, <2>3
      <3>2. Whole(RunsOn[t]) => Whole(RunsOn[t])'
        BY <2>1, <3>1, SameKeeps
      <3>3. vault'[RunsOn[t]] = vault[RunsOn[t]] /\ stage'[RunsOn[t]] = stage[RunsOn[t]]
        BY <3>1 DEF Same
      <3> QED
        BY <2>1, <3>2, <3>3, BackingKept
    <2> QED
      BY <2>2, <2>3
  <1> QED
    BY <1>1, <1>2 DEF KeyInv

LEMMA InitKey == Init => KeyInv
  <1> SUFFICES ASSUME Init PROVE KeyInv
    OBVIOUS
  <1>1. \A d \in Devices : Stage(d) /\ Locked(d)
    BY DEF Init, Stage, Locked, Resting
  <1>2. \A t \in Tasks : Backing(t)
    BY DEF Init, Backing, NoFlush
  <1> QED
    BY <1>1, <1>2, InitType DEF KeyInv

LEMMA LaunchKeeps ==
    ASSUME KeyInv, TypeOK', NEW d \in Devices, LaunchStep(d)
    PROVE  KeyInv'
  <1> DEFINE untouched == \A e \in Devices : e # d => Same(e)
             kept == Whole(d) /\ stage[d] \in {"ready", "out", "deciding"} =>
                        /\ Whole(d)' /\ vault'[d] = vault[d]
                        /\ stage'[d] \in {"ready", "out", "deciding"}
  <1>t. /\ vault[d] \in MaybeKey /\ keyring[d] \in MaybeKey /\ mem[d] \in MaybeKey
        /\ db[d] \in Files /\ slot \in Slots /\ Stage(d) /\ Locked(d)
        /\ vault \in [Devices -> MaybeKey] /\ keyring \in [Devices -> MaybeKey]
        /\ mem \in [Devices -> MaybeKey] /\ db \in [Devices -> Files]
        /\ stage \in [Devices -> Stages]
        /\ NoKey \notin Keys /\ Plain \notin Keys
    BY BackupAssumption DEF KeyInv, TypeOK
  <1> USE DEF Move, localVars, history, Resting
  <1> SUFFICES untouched /\ Stage(d)' /\ Locked(d)' /\ kept /\ flush' = flush
    BY OneInstallation
  <1>1. CASE Launch(d)
    <2>1. flush' = flush /\ untouched
      BY <1>1, <1>t DEF Launch, RestoredKey, Same
    <2>2. stage'[d] = "deciding" /\ vault' = vault /\ db' = db /\ keyring' = keyring
          /\ lost' = lost /\ torn' = torn
          /\ (mem'[d] = mem[d] \/ (mem'[d] = keyring[d] /\ Opens(d, keyring[d])))
      BY <1>1, <1>t DEF Launch, RestoredKey
    <2>3. Stage(d)'
      BY <1>1, <2>2, <1>t DEF Launch, RestoredKey, Stage, Opens
    <2>4. Locked(d)'
      BY <1>1, <2>2, <1>t DEF Launch, RestoredKey, Locked
    <2>5. kept
      BY <1>1, <2>2 DEF Launch, RestoredKey, Whole
    <2> QED
      BY <2>1, <2>3, <2>4, <2>5
  <1>2. CASE OpenVault(d)
    <2>1. flush' = flush /\ untouched
      BY <1>2, <1>t DEF OpenVault, Same
    <2>2. vault' = vault /\ db' = db /\ keyring' = keyring /\ lost' = lost /\ torn' = torn
      BY <1>2 DEF OpenVault
    <2>3. \/ stage'[d] = "ready" /\ mem'[d] = vault[d] /\ Whole(d)
          \/ stage'[d] = "failed" /\ ~Whole(d)
      BY <1>2, <1>t DEF OpenVault, Fits, Stage, Whole, Opens, MaybeKey
    <2>4. Stage(d)'
      BY <2>2, <2>3 DEF Stage, Whole
    <2>5. Locked(d)'
      BY <1>2, <2>2, <2>3, <1>t DEF OpenVault, Fits, Locked
    <2>6. kept
      BY <2>2, <2>3 DEF Whole
    <2> QED
      BY <2>1, <2>4, <2>5, <2>6
  <1>3. CASE StartRecovery(d)
    <2>1. flush' = flush /\ untouched
      BY <1>3, <1>t DEF StartRecovery, LeavesPartial, Same
    <2>2. stage'[d] \in {"setup", "verify"} /\ (stage'[d] = "setup" => vault'[d] = NoKey)
          /\ (stage'[d] = "verify" => vault'[d] \in Keys)
          /\ stage[d] = "deciding" /\ vault[d] = NoKey
      BY <1>3, <1>t DEF StartRecovery, Downloads, VaultFile, LeavesPartial, Slots, MaybeKey
    <2> QED
      BY <2>1, <2>2, <1>t DEF Stage, Locked, Whole
  <1>4. CASE VerifyRecovered(d)
    <2>1. flush' = flush /\ untouched
      BY <1>4, <1>t DEF VerifyRecovered, Same
    <2>2. stage[d] = "verify" /\ keyring' = keyring
          /\ \/ stage'[d] = "setup" /\ vault'[d] = NoKey
             \/ stage'[d] = "fetching" /\ vault'[d] = vault[d] /\ keyring[d] = vault[d]
                  /\ vault[d] \in Keys
      BY <1>4, <1>t DEF VerifyRecovered, Fits, Stage, MaybeKey
    <2> QED
      BY <2>1, <2>2, <1>t DEF Stage, Locked, Whole
  <1>5. CASE FetchRecovered(d)
    <2>1. flush' = flush /\ untouched
      BY <1>5, <1>t DEF FetchRecovered, Same
    <2>2. stage[d] = "fetching" /\ keyring' = keyring /\ vault[d] \in Keys
          /\ keyring[d] = vault[d]
          /\ \/ stage'[d] = "setup" /\ vault'[d] = NoKey
             \/ stage'[d] = "ready" /\ vault' = vault /\ mem'[d] = keyring[d]
                  /\ db'[d].key = keyring[d]
      BY <1>5, <1>t DEF FetchRecovered, Stage
    <2> QED
      BY <2>1, <2>2, <1>t DEF Stage, Locked, Whole
  <1>6. CASE SetAside(d)
    <2>1. flush' = flush /\ untouched
      BY <1>6, <1>t DEF SetAside, MustSetAside, Same
    <2>2. stage[d] = "setup" /\ stage'[d] \in {"create", "failed"} /\ vault'[d] = NoKey
      BY <1>6, <1>t DEF SetAside, MustSetAside, Stage
    <2> QED
      BY <2>1, <2>2, <1>t DEF Stage, Locked, Whole
  <1>7. ASSUME NEW k \in Keys, CreateVault(d, k)
        PROVE  untouched /\ Stage(d)' /\ Locked(d)' /\ kept /\ flush' = flush
    <2>1. flush' = flush /\ untouched
      BY <1>7, <1>t DEF CreateVault, Same
    <2>2. stage[d] = "create" /\ stage'[d] = "open" /\ vault'[d] = k
      BY <1>7, <1>t DEF CreateVault
    <2> QED
      BY <2>1, <2>2, <1>t DEF Stage, Locked, Whole
  <1>8. CASE CreateDb(d)
    <2>1. flush' = flush /\ untouched
      BY <1>8, <1>t DEF CreateDb, Same
    <2>2. stage[d] = "open" /\ vault' = vault /\ vault[d] \in Keys
      BY <1>8, <1>t DEF CreateDb, Stage
    <2>3. \/ stage'[d] = "persist" /\ db'[d].key = vault[d]
          \/ stage'[d] = "failed" /\ d \in torn'
      BY <1>8, <1>t DEF CreateDb, Files
    <2> QED
      BY <2>1, <2>2, <2>3, <1>t DEF Stage, Locked, Whole
  <1>9. CASE PersistKey(d)
    <2>1. flush' = flush /\ untouched
      BY <1>9, <1>t DEF PersistKey, RolledBack, Same
    <2>2. stage[d] = "persist" /\ vault[d] \in Keys /\ db' = db /\ db[d].key = vault[d]
          /\ \/ stage'[d] = "migrate" /\ keyring'[d] = vault[d] /\ vault' = vault
             \/ stage'[d] = "failed" /\ vault'[d] = NoKey
      BY <1>9, <1>t DEF PersistKey, RolledBack, Stage
    <2> QED
      BY <2>1, <2>2, <1>t DEF Stage, Locked, Whole
  <1>10. CASE Migrate(d)
    <2>0. db' = db \/ \E got \in SUBSET aside[d].main : db' = [db EXCEPT ![d].wal = @ \cup got]
      BY <1>10 DEF Migrate
    <2>a. \A e \in Devices : db'[e].key = db[e].key
      BY <2>0, <1>t DEF Files
    <2>b. flush' = flush /\ vault' = vault /\ keyring' = keyring /\ mem' = mem /\ torn' = torn
          /\ stage[d] = "migrate" /\ stage'[d] \in {"finish", "failed"}
          /\ \A e \in Devices : e # d => stage'[e] = stage[e] /\ (e \in lost' <=> e \in lost)
      BY <1>10, <1>t DEF Migrate
    <2>1. untouched
      BY <2>a, <2>b DEF Same
    <2>2. Whole(d) /\ Whole(d)'
      BY <2>a, <2>b, <1>t DEF Stage, Whole
    <2>3. Stage(d)' /\ Locked(d)'
      BY <2>b, <2>2 DEF Stage, Locked, Whole
    <2> QED
      BY <2>1, <2>2, <2>3, <2>b
  <1>11. CASE FinishSetup(d)
    <2>1. flush' = flush /\ untouched
      BY <1>11, <1>t DEF FinishSetup, Same
    <2>2. stage[d] = "finish" /\ vault' = vault /\ db' = db /\ keyring' = keyring
          /\ stage'[d] = "ready" /\ mem'[d] = vault[d] /\ Whole(d)
      BY <1>11, <1>t DEF FinishSetup, Stage
    <2> QED
      BY <2>1, <2>2, <1>t DEF Stage, Locked, Whole
  <1> QED
    BY <1>1, <1>2, <1>3, <1>4, <1>5, <1>6, <1>7, <1>8, <1>9, <1>10, <1>11 DEF LaunchStep

LEMMA RunningKeeps ==
    ASSUME KeyInv, TypeOK', NEW d \in Devices,
           \/ \E r \in Rows : StoreRow(d, r)
           \/ Checkpoint(d) \/ SignOut(d) \/ LoseFiles(d)
    PROVE  KeyInv'
  <1>t. /\ Stage(d) /\ Locked(d)
        /\ vault \in [Devices -> MaybeKey] /\ mem \in [Devices -> MaybeKey]
        /\ db \in [Devices -> Files] /\ stage \in [Devices -> Stages]
        /\ db[d] \in Files /\ NoKey \notin Keys
    BY BackupAssumption DEF KeyInv, TypeOK
  <1> USE DEF Move, localVars, history, Resting
  <1>1. ASSUME NEW r \in Rows, StoreRow(d, r) PROVE KeyInv'
    <2>1. \A e \in Devices : Same(e)
      BY <1>1, <1>t DEF StoreRow, Same, Files
    <2>2. flush' = flush /\ stage' = stage /\ vault' = vault
      BY <1>1 DEF StoreRow
    <2> QED
      BY <1>t, <2>1, <2>2, SameKeeps, OneInstallation
  <1>2. CASE Checkpoint(d)
    <2>1. \A e \in Devices : Same(e)
      BY <1>2, <1>t, FileType DEF Checkpoint, Same, MaybeKey
    <2>2. flush' = flush /\ stage' = stage /\ vault' = vault
      BY <1>2 DEF Checkpoint
    <2> QED
      BY <1>t, <2>1, <2>2, SameKeeps, OneInstallation
  <1>3. CASE SignOut(d)
    <2>1. \A e \in Devices : db'[e].key = db[e].key
      BY <1>3, <1>t, FileType DEF SignOut, MaybeKey
    <2>2. flush' = flush /\ vault' = vault /\ keyring' = keyring /\ torn' = torn /\ lost' = lost
          /\ stage[d] \in {"ready", "failed"} /\ stage'[d] = "out" /\ mem'[d] = NoKey
      BY <1>3, <1>t DEF SignOut
    <2>3. \A e \in Devices : e # d => Same(e)
      BY <1>3, <1>t, <2>1 DEF SignOut, Same
    <2>4. Stage(d)' /\ Locked(d)' /\ (Whole(d) => Whole(d)')
      BY <1>t, <2>1, <2>2 DEF Stage, Locked, Whole
    <2> QED
      BY <2>2, <2>3, <2>4, OneInstallation
  <1>4. CASE LoseFiles(d)
    <2>1. \A e \in Devices : e # d => Same(e)
      BY <1>4, <1>t DEF LoseFiles, Same
    <2>2. flush' = flush /\ stage' = stage /\ mem' = mem /\ keyring' = keyring /\ torn' = torn
          /\ stage[d] = "off" /\ d \in lost'
          /\ (vault'[d] = NoKey \/ vault'[d] = vault[d])
      BY <1>4, <1>t DEF LoseFiles
    <2>3. Stage(d)' /\ Locked(d)'
      BY <1>t, <2>2 DEF Stage, Locked
    <2> QED
      BY <2>1, <2>2, <2>3, OneInstallation
  <1> QED
    BY <1>1, <1>2, <1>3, <1>4

LEMMA StopKeeps ==
    ASSUME KeyInv, TypeOK', NEW d \in Devices, Stop(d)
    PROVE  KeyInv'
  <1>t. /\ Stage(d) /\ Locked(d) /\ NoKey \notin Keys
        /\ mem \in [Devices -> MaybeKey] /\ stage \in [Devices -> Stages]
        /\ stage[d] \in Stages
    BY BackupAssumption DEF KeyInv, TypeOK
  <1> USE DEF Move, localVars, history
  <1>1. vault' = vault /\ db' = db /\ keyring' = keyring /\ lost' = lost
        /\ stage'[d] = "off" /\ mem'[d] = NoKey
        /\ (stage[d] \in {"verify", "fetching", "open", "persist"} => d \in torn')
        /\ torn \subseteq torn'
    BY <1>t DEF Stop, Downloads, LeavesPartial
  <1>2. \A e \in Devices : e # d => Same(e)
    BY <1>t DEF Stop, LeavesPartial, Same
  <1>3. Stage(d)'
    BY <1>1 DEF Stage
  <1>4. Locked(d)'
    <2>1. CASE stage[d] \in Resting
      BY <1>t, <1>1, <2>1 DEF Locked
    <2>2. CASE stage[d] \in {"migrate", "finish"}
      BY <1>t, <1>1, <2>2 DEF Locked, Stage, Whole
    <2>3. CASE stage[d] \in {"setup", "create"}
      BY <1>t, <1>1, <2>3 DEF Locked, Stage
    <2>4. CASE stage[d] \in {"verify", "fetching", "open", "persist"}
      BY <1>1, <2>4 DEF Locked
    <2> QED
      BY <1>t, <2>1, <2>2, <2>3, <2>4 DEF Stages, Resting
  <1>5. ASSUME NEW e \in Devices PROVE Stage(e)' /\ Locked(e)'
    <2>1. CASE e = d
      BY <1>3, <1>4, <2>1
    <2>2. CASE e # d
      BY <1>2, <2>2, SameKeeps DEF KeyInv
    <2> QED
      BY <2>1, <2>2
  <1>6. ASSUME NEW t \in Tasks PROVE Backing(t)'
    <2>1. RunsOn[t] \in Devices /\ Backing(t)
      BY BackupAssumption DEF KeyInv
    <2>2. CASE RunsOn[t] = d
      <3>1. flush'[t] = NoFlush
        BY <2>2 DEF Stop
      <3> QED
        BY <3>1 DEF Backing, NoFlush
    <2>3. CASE RunsOn[t] # d
      <3>1. flush'[t] = flush[t]
        BY <2>3 DEF Stop
      <3>2. Same(RunsOn[t])
        BY <1>2, <2>1, <2>3
      <3>3. Whole(RunsOn[t]) => Whole(RunsOn[t])'
        BY <2>1, <3>2, SameKeeps
      <3>4. vault'[RunsOn[t]] = vault[RunsOn[t]] /\ stage'[RunsOn[t]] = stage[RunsOn[t]]
        BY <3>2 DEF Same
      <3> QED
        BY <2>1, <3>1, <3>3, <3>4, BackingKept
    <2> QED
      BY <2>2, <2>3
  <1> QED
    BY <1>5, <1>6 DEF KeyInv

LEMMA FlushKeeps ==
    ASSUME KeyInv, TypeOK', NEW t \in Tasks, FlushStep(t)
    PROVE  KeyInv'
  <1> DEFINE d == RunsOn[t]
  <1>t. /\ d \in Devices /\ Backing(t) /\ Stage(d) /\ flush \in [Tasks -> Flushes]
        /\ flush[t] \in Flushes /\ NoKey \notin Keys
    BY BackupAssumption DEF KeyInv, TypeOK
  <1> HIDE DEF d
  <1> USE DEF localVars, history
  <1>1. /\ vault' = vault /\ db' = db /\ keyring' = keyring /\ mem' = mem /\ stage' = stage
        /\ torn' = torn /\ lost' = lost
    BY DEF FlushStep, StartFlush, AskOwner, Owns, Claim, UploadVault, ReadDb, UploadDb, UploadMls,
           FailFlush, Rearmed
  <1>2. \A e \in Devices : Same(e)
    BY <1>1 DEF Same
  <1>3. \A e \in Devices : Stage(e)' /\ Locked(e)'
    BY <1>2, SameKeeps DEF KeyInv
  <1>4. \A o \in Tasks : o # t => flush'[o] = flush[o]
    BY <1>t DEF FlushStep, StartFlush, AskOwner, Owns, Claim, UploadVault, ReadDb, UploadDb, UploadMls,
       FailFlush, Rearmed, Set
  <1>5. \A o \in Tasks : o # t => Backing(o)'
    BY <1>1, <1>4 DEF KeyInv, Backing, Whole
  <1>6. Backing(t)'
    <2>0. flush[t].at # "idle" =>
            /\ Whole(d) /\ flush[t].key = vault[d] /\ stage[d] \in {"ready", "out", "deciding"}
            /\ flush[t].at = "db" => flush[t].db = flush[t].key
      BY <1>t DEF Backing, d
    <2>a. Whole(d)' <=> Whole(d)
      BY <1>1 DEF Whole
    <2>g. ASSUME \/ flush'[t].at = "idle"
                 \/ /\ Whole(d) /\ flush'[t].key = vault[d]
                    /\ stage[d] \in {"ready", "out", "deciding"}
                    /\ flush'[t].at = "db" => flush'[t].db = flush'[t].key
          PROVE  Backing(t)'
      BY <1>1, <2>a, <2>g DEF Backing, d
    <2>1. ASSUME NEW force \in BOOLEAN, StartFlush(t, force) PROVE Backing(t)'
      <3>1. flush'[t] = [NoFlush EXCEPT !.at = "asking", !.key = mem[d]] /\ stage[d] = "ready"
        BY <1>t, <2>1 DEF StartFlush, Set, d
      <3>2. flush'[t].at = "asking" /\ flush'[t].key = mem[d]
        BY <3>1 DEF NoFlush
      <3>3. Whole(d) /\ mem[d] = vault[d]
        BY <1>t, <3>1 DEF Stage
      <3> QED
        BY <2>g, <3>1, <3>2, <3>3
    <2>2. CASE AskOwner(t)
      <3>1. \/ flush'[t] = NoFlush
            \/ flush'[t] = [flush[t] EXCEPT !.at = "vault", !.was = dirty[d]]
        BY <1>t, <2>2 DEF AskOwner, Owns, Claim, Set, d
      <3>2. flush'[t].at = "idle" \/ (flush'[t].at = "vault" /\ flush'[t].key = flush[t].key)
        <4>1. CASE flush'[t] = NoFlush
          BY <4>1 DEF NoFlush
        <4>2. CASE flush'[t] = [flush[t] EXCEPT !.at = "vault", !.was = dirty[d]]
          BY <1>t, <4>2 DEF Flushes
        <4> QED
          BY <3>1, <4>1, <4>2
      <3>3. flush[t].at # "idle"
        BY <2>2 DEF AskOwner, Owns, Claim
      <3> QED
        BY <2>0, <2>g, <3>2, <3>3
    <2>3. CASE UploadVault(t)
      <3>1. flush'[t] = [flush[t] EXCEPT !.at = "read"] /\ flush[t].at # "idle"
        BY <1>t, <2>3 DEF UploadVault, Set
      <3>2. flush'[t].at = "read" /\ flush'[t].key = flush[t].key
        BY <1>t, <3>1 DEF Flushes
      <3> QED
        BY <2>0, <2>g, <3>1, <3>2
    <2>4. CASE ReadDb(t)
      <3>1. flush'[t] = [flush[t] EXCEPT !.at = "db", !.db = db[d].key, !.rows = db[d].main]
            /\ flush[t].at # "idle"
        BY <1>t, <2>4 DEF ReadDb, Set, d
      <3>2. flush'[t].db = db[d].key /\ flush'[t].key = flush[t].key
        BY <1>t, <3>1 DEF Flushes
      <3> QED
        BY <2>0, <2>g, <3>1, <3>2 DEF Whole
    <2>5. CASE UploadDb(t)
      <3>1. flush'[t] = [flush[t] EXCEPT !.at = "mls"] /\ flush[t].at # "idle"
        BY <1>t, <2>5 DEF UploadDb, Set
      <3>2. flush'[t].at = "mls" /\ flush'[t].key = flush[t].key
        BY <1>t, <3>1 DEF Flushes
      <3> QED
        BY <2>0, <2>g, <3>1, <3>2
    <2>6. CASE UploadMls(t) \/ FailFlush(t)
      <3>1. flush'[t] = NoFlush
        BY <1>t, <2>6 DEF UploadMls, FailFlush, Rearmed, Set
      <3> QED
        BY <2>g, <3>1 DEF NoFlush
    <2> QED
      BY <2>1, <2>2, <2>3, <2>4, <2>5, <2>6 DEF FlushStep
  <1> QED
    BY <1>3, <1>5, <1>6 DEF KeyInv

LEMMA KeyStep == KeyInv /\ [Next]_vars => KeyInv'
  <1> SUFFICES ASSUME KeyInv, [Next]_vars PROVE KeyInv'
    OBVIOUS
  <1>1. TypeOK'
    BY StepType DEF KeyInv
  <1>2. CASE UNCHANGED vars
    <2>1. \A d \in Devices : Same(d)
      BY <1>2 DEF vars, localVars, history, Same
    <2>2. \A d \in Devices : Stage(d)' /\ Locked(d)'
      BY <2>1, SameKeeps DEF KeyInv
    <2>3. \A t \in Tasks : Backing(t)'
      BY <1>2 DEF vars, localVars, KeyInv, Backing, Whole
    <2> QED
      BY <1>1, <2>2, <2>3 DEF KeyInv
  <1>3. CASE Next
    BY <1>1, <1>3, LaunchKeeps, RunningKeeps, StopKeeps, FlushKeeps DEF Next
  <1> QED
    BY <1>2, <1>3

\* The invariant about keys holds in every reachable state.
THEOREM KeyInvariant == Spec => []KeyInv
  BY InitKey, KeyStep, PTL DEF Spec

\* When a launch ends well, the mounted key, the keyring's, the vault's and the
\* database's are one.
THEOREM ReadyCorrect == Spec => []ReadyIsConsistent
  <1>1. KeyInv => ReadyIsConsistent
    BY DEF KeyInv, Stage, Whole, ReadyIsConsistent
  <1> QED
    BY KeyInvariant, <1>1, PTL

\* A partial vault file is there only after a recovery cut short, and alone.
PartialInv ==
    \A d \in Devices :
        /\ d \in partial => d \in torn /\ vault[d] = NoKey
        /\ stage[d] = "create" => d \notin partial

LEMMA PartialStep == KeyInv /\ PartialInv /\ [Next]_vars => PartialInv'
  <1> SUFFICES ASSUME KeyInv, PartialInv, [Next]_vars, NEW e \in Devices
               PROVE  /\ e \in partial' => e \in torn' /\ vault'[e] = NoKey
                      /\ stage'[e] = "create" => e \notin partial'
    BY DEF PartialInv
  <1>t. /\ vault \in [Devices -> MaybeKey] /\ stage \in [Devices -> Stages]
        /\ e \in partial => e \in torn /\ vault[e] = NoKey
        /\ stage[e] = "create" => e \notin partial
        /\ Stage(e) /\ NoKey \notin Keys
    BY BackupAssumption DEF KeyInv, TypeOK, PartialInv
  <1> USE DEF Move, localVars, history
  <1>1. ASSUME NEW d \in Devices, Launch(d) \/ OpenVault(d) \/ VerifyRecovered(d) \/ FetchRecovered(d)
        PROVE  /\ e \in partial' => e \in torn' /\ vault'[e] = NoKey
               /\ stage'[e] = "create" => e \notin partial'
    BY <1>1, <1>t DEF Launch, OpenVault, VerifyRecovered, FetchRecovered
  <1>2. ASSUME NEW d \in Devices, StartRecovery(d)
        PROVE  /\ e \in partial' => e \in torn' /\ vault'[e] = NoKey
               /\ stage'[e] = "create" => e \notin partial'
    BY <1>2, <1>t DEF StartRecovery, Downloads, VaultFile, LeavesPartial
  <1>3. ASSUME NEW d \in Devices,
               \/ SetAside(d) \/ (\E k \in Keys : CreateVault(d, k)) \/ CreateDb(d)
               \/ PersistKey(d) \/ Migrate(d) \/ FinishSetup(d)
        PROVE  /\ e \in partial' => e \in torn' /\ vault'[e] = NoKey
               /\ stage'[e] = "create" => e \notin partial'
    BY <1>3, <1>t DEF SetAside, VaultFile, CreateVault, CreateDb, PersistKey, RolledBack, Migrate,
                      FinishSetup
  <1>4. ASSUME NEW d \in Devices,
               \/ \E r \in Rows : StoreRow(d, r)
               \/ Checkpoint(d) \/ SignOut(d) \/ Stop(d) \/ LoseFiles(d)
        PROVE  /\ e \in partial' => e \in torn' /\ vault'[e] = NoKey
               /\ stage'[e] = "create" => e \notin partial'
    BY <1>4, <1>t DEF StoreRow, Checkpoint, SignOut, Stop, Downloads, VaultFile, LeavesPartial,
                      LoseFiles
  <1>5. ASSUME NEW t \in Tasks, FlushStep(t)
        PROVE  /\ e \in partial' => e \in torn' /\ vault'[e] = NoKey
               /\ stage'[e] = "create" => e \notin partial'
    BY <1>5, <1>t DEF FlushStep, StartFlush, AskOwner, Claim, UploadVault, ReadDb, UploadDb,
                      UploadMls, FailFlush
  <1>6. CASE UNCHANGED vars
    BY <1>6, <1>t DEF vars
  <1> QED
    BY <1>1, <1>2, <1>3, <1>4, <1>5, <1>6 DEF Next, LaunchStep

\* Only a set-up or recovery cut short while or after it wrote the vault file leaves
\* one that cannot be opened; failing calls, migrations and losses do not.
THEOREM LockedOutCorrect == Spec => []LockedOutOnlyIfCut
  <1>1. Init => PartialInv
    BY DEF Init, PartialInv
  <1>2. KeyInv /\ PartialInv => LockedOutOnlyIfCut
    BY DEF KeyInv, PartialInv, Locked, Resting, VaultFile, LockedOutOnlyIfCut
  <1> QED
    BY KeyInvariant, PartialStep, <1>1, <1>2, PTL DEF Spec

(***************************************************************************)
(* One key per slot.  Whoever uploads found the slot empty or its own, and *)
(* without an overlap nobody else has uploaded since.                      *)
(***************************************************************************)
Claims ==
    /\ slot.db \in {NoKey, slot.vault} /\ slot.mls \in {NoKey, slot.vault}
    /\ \A t \in Uploading :
          /\ slot.vault \in {NoKey, flush[t].key}
          /\ flush[t].at # "vault" => slot.vault = flush[t].key
    /\ \A t, o \in Uploading : flush[t].key = flush[o].key

SlotInv == ~raced => Claims

LEMMA InitSlot == Init => SlotInv
  BY DEF Init, SlotInv, Claims, Uploading, NoFlush

\* What a PUT of a call that has claimed the slot does to it.
Put(t) ==
    \/ slot' = slot
    \/ flush[t].at = "vault" /\ slot' = [slot EXCEPT !.vault = flush[t].key]
    \/ /\ flush[t].at = "db"
       /\ slot' = [slot EXCEPT !.db = flush[t].key, !.rows = flush[t].rows]
    \/ flush[t].at = "mls" /\ slot' = [slot EXCEPT !.mls = flush[t].key]

LEMMA PutKeepsSlot ==
    ASSUME slot \in Slots, Claims, NEW t \in Uploading, Put(t)
    PROVE  /\ slot'.db \in {NoKey, slot'.vault} /\ slot'.mls \in {NoKey, slot'.vault}
           /\ slot'.vault \in {slot.vault, flush[t].key}
           /\ slot.vault # NoKey => slot'.vault = slot.vault
  <1>1. /\ slot.vault \in {NoKey, flush[t].key}
        /\ flush[t].at # "vault" => slot.vault = flush[t].key
        /\ slot.db \in {NoKey, slot.vault} /\ slot.mls \in {NoKey, slot.vault}
    BY DEF Claims
  <1>2. CASE slot' = slot
    BY <1>1, <1>2
  <1>3. CASE flush[t].at = "vault" /\ slot' = [slot EXCEPT !.vault = flush[t].key]
    <2>1. slot'.vault = flush[t].key /\ slot'.db = slot.db /\ slot'.mls = slot.mls
      BY <1>3 DEF Slots
    <2> QED
      BY <1>1, <2>1
  <1>4. CASE flush[t].at = "db" /\ slot' = [slot EXCEPT !.db = flush[t].key, !.rows = flush[t].rows]
    <2>1. slot'.vault = slot.vault /\ slot'.db = flush[t].key /\ slot'.mls = slot.mls
      BY <1>4 DEF Slots
    <2> QED
      BY <1>1, <1>4, <2>1
  <1>5. CASE flush[t].at = "mls" /\ slot' = [slot EXCEPT !.mls = flush[t].key]
    <2>1. slot'.vault = slot.vault /\ slot'.db = slot.db /\ slot'.mls = flush[t].key
      BY <1>5 DEF Slots
    <2> QED
      BY <1>1, <1>5, <2>1
  <1> QED
    BY <1>2, <1>3, <1>4, <1>5 DEF Put

\* No step of t makes its claim a race.
Unraced(t) ==
    ~raced' => /\ ~raced /\ slot.vault \in {NoKey, flush[t].key}
               /\ \A o \in Uploading : flush[o].key = flush[t].key

\* Every step of a call is a claim, which needs a slot that is empty or its own, a
\* PUT of its own key, or leaves the slot alone and claims nothing.
LEMMA FlushForms ==
    ASSUME KeyInv, NEW t \in Tasks, FlushStep(t)
    PROVE  /\ \A o \in Tasks : o # t => flush'[o] = flush[o]
           /\ \/ /\ t \notin Uploading' /\ slot' = slot /\ raced' = raced
              \/ /\ slot' = slot /\ Unraced(t) /\ t \notin Uploading
                 /\ flush'[t].at = "vault" /\ flush'[t].key = flush[t].key
              \/ /\ t \in Uploading /\ Put(t) /\ raced' = raced
                 /\ \/ flush'[t].at = "idle"
                    \/ /\ flush'[t].key = flush[t].key /\ flush'[t].at \in {"read", "db", "mls"}
                       /\ flush[t].at = "vault" => slot'.vault = flush[t].key
  <1> DEFINE d == RunsOn[t]
  <1>t. /\ t \in Tasks /\ flush \in [Tasks -> Flushes] /\ flush[t] \in Flushes /\ slot \in Slots
        /\ Backing(t)
    BY DEF KeyInv, TypeOK
  <1>b. flush[t].at # "idle" =>
            vault[d] = flush[t].key /\ (flush[t].at = "db" => flush[t].db = flush[t].key)
    BY <1>t DEF Backing
  <1> HIDE DEF d
  <1>o. \A o \in Tasks : o # t => flush'[o] = flush[o]
    BY <1>t DEF FlushStep, StartFlush, AskOwner, Owns, Claim, UploadVault, ReadDb, UploadDb, UploadMls,
       FailFlush, Rearmed, Set
  <1> USE DEF history
  <1>1. ASSUME NEW force \in BOOLEAN, StartFlush(t, force)
        PROVE  t \notin Uploading' /\ slot' = slot /\ raced' = raced
    <2>1. flush'[t] = [NoFlush EXCEPT !.at = "asking", !.key = mem[d]]
      BY <1>t, <1>1 DEF StartFlush, Set, d
    <2>2. flush'[t].at = "asking"
      BY <2>1 DEF NoFlush
    <2> QED
      BY <1>1, <2>2 DEF StartFlush, Uploading
  <1>2. ASSUME AskOwner(t)
        PROVE  \/ t \notin Uploading' /\ slot' = slot /\ raced' = raced
               \/ /\ slot' = slot /\ Unraced(t) /\ t \notin Uploading
                  /\ flush'[t].at = "vault" /\ flush'[t].key = flush[t].key
    <2>1. slot' = slot /\ t \notin Uploading
      BY <1>2 DEF AskOwner, Owns, Claim, Uploading
    <2>2. CASE flush'[t] = NoFlush /\ raced' = raced
      <3>1. flush'[t].at = "idle"
        BY <2>2 DEF NoFlush
      <3> QED
        BY <2>1, <2>2, <3>1 DEF Uploading
    <2>3. CASE /\ Unraced(t)
               /\ flush'[t] = [flush[t] EXCEPT !.at = "vault", !.was = dirty[d]]
      <3>1. flush'[t].at = "vault" /\ flush'[t].key = flush[t].key
        BY <1>t, <2>3 DEF Flushes
      <3> QED
        BY <2>1, <2>3, <3>1
    <2>4. \/ flush'[t] = NoFlush /\ raced' = raced
          \/ /\ Unraced(t)
             /\ flush'[t] = [flush[t] EXCEPT !.at = "vault", !.was = dirty[d]]
      <3>1. CASE flush'[t] = NoFlush /\ raced' = raced
        BY <3>1
      <3>2. ASSUME Claim(t)
            PROVE  flush'[t] = [flush[t] EXCEPT !.at = "vault", !.was = dirty[d]]
        BY <1>t, <3>2 DEF Claim, Set, d
      <3>3. CASE /\ Claim(t) /\ Owns(t)
                 /\ raced' = (raced \/ \E o \in Uploading : flush[o].key # flush[t].key)
        BY <3>2, <3>3 DEF Owns, Unraced
      <3>4. CASE Claim(t) /\ raced' = TRUE
        BY <3>2, <3>4 DEF Unraced
      <3> QED
        BY <1>t, <1>2, <3>1, <3>3, <3>4 DEF AskOwner, Set
    <2> QED
      BY <2>2, <2>3, <2>4
  <1>3. CASE UploadVault(t)
    <2>1. slot' = [slot EXCEPT !.vault = flush[t].key] /\ flush[t].at = "vault" /\ raced' = raced
      BY <1>b, <1>3 DEF UploadVault, d
    <2>2. flush'[t] = [flush[t] EXCEPT !.at = "read"]
      BY <1>t, <1>3 DEF UploadVault, Set
    <2>3. flush'[t].at = "read" /\ flush'[t].key = flush[t].key
      BY <1>t, <2>2 DEF Flushes
    <2>4. slot'.vault = flush[t].key
      BY <1>t, <2>1 DEF Slots
    <2> QED
      BY <1>o, <2>1, <2>3, <2>4 DEF Put, Uploading
  <1>4. CASE ReadDb(t)
    <2>1. slot' = slot /\ flush[t].at = "read" /\ raced' = raced
      BY <1>4 DEF ReadDb
    <2>2. flush'[t] = [flush[t] EXCEPT !.at = "db", !.db = db[d].key, !.rows = db[d].main]
      BY <1>t, <1>4 DEF ReadDb, Set, d
    <2>3. flush'[t].at = "db" /\ flush'[t].key = flush[t].key
      BY <1>t, <2>2 DEF Flushes
    <2> QED
      BY <1>o, <2>1, <2>3 DEF Put, Uploading
  <1>5. CASE UploadDb(t)
    <2>1. slot' = [slot EXCEPT !.db = flush[t].key, !.rows = flush[t].rows] /\ flush[t].at = "db"
          /\ raced' = raced
      BY <1>b, <1>5 DEF UploadDb
    <2>2. flush'[t] = [flush[t] EXCEPT !.at = "mls"]
      BY <1>t, <1>5 DEF UploadDb, Set
    <2>3. flush'[t].at = "mls" /\ flush'[t].key = flush[t].key
      BY <1>t, <2>2 DEF Flushes
    <2> QED
      BY <1>o, <2>1, <2>3 DEF Put, Uploading
  <1>6. CASE UploadMls(t) \/ FailFlush(t)
    <2>1. flush'[t] = NoFlush /\ raced' = raced /\ t \in Uploading
      BY <1>t, <1>6 DEF UploadMls, FailFlush, Rearmed, Set, Uploading
    <2>2. Put(t)
      BY <1>b, <1>6 DEF UploadMls, FailFlush, Rearmed, Put, Uploading, d
    <2>3. flush'[t].at = "idle"
      BY <2>1 DEF NoFlush
    <2> QED
      BY <1>o, <2>1, <2>2, <2>3
  <1> QED
    BY <1>o, <1>1, <1>2, <1>3, <1>4, <1>5, <1>6 DEF FlushStep

LEMMA SlotStep ==
    ASSUME KeyInv, SlotInv, [Next]_vars
    PROVE  /\ SlotInv'
           /\ slot.vault # NoKey /\ ~raced' => slot'.vault = slot.vault
  <1> USE DEF history, localVars
  <1>1. ASSUME slot' = slot, raced' = raced,
               \A t \in Tasks : flush'[t] = flush[t] \/ flush'[t].at \in {"idle", "asking"}
        PROVE  SlotInv' /\ (slot.vault # NoKey /\ ~raced' => slot'.vault = slot.vault)
    <2>1. \A t \in Uploading' : t \in Uploading /\ flush'[t] = flush[t]
      BY <1>1 DEF Uploading
    <2> QED
      BY <1>1, <2>1 DEF SlotInv, Claims
  <1>2. ASSUME NEW t \in Tasks, FlushStep(t)
        PROVE  SlotInv' /\ (slot.vault # NoKey /\ ~raced' => slot'.vault = slot.vault)
    <2>o. \A o \in Tasks : o # t => flush'[o] = flush[o]
      BY <1>2, FlushForms
    <2>u. \A o \in Uploading' : o # t => o \in Uploading /\ flush'[o] = flush[o]
      BY <2>o DEF Uploading
    <2>1. CASE t \notin Uploading' /\ slot' = slot /\ raced' = raced
      <3>1. \A o \in Uploading' : o \in Uploading /\ flush'[o] = flush[o]
        BY <2>1, <2>u
      <3> QED
        BY <2>1, <3>1 DEF SlotInv, Claims
    <2>2. CASE /\ slot' = slot /\ Unraced(t) /\ t \notin Uploading
               /\ flush'[t].at = "vault" /\ flush'[t].key = flush[t].key
      <3>1. SUFFICES ASSUME ~raced' PROVE Claims'
        BY <2>2 DEF SlotInv
      <3>2. /\ ~raced /\ Claims /\ slot.vault \in {NoKey, flush[t].key}
            /\ \A o \in Uploading : flush[o].key = flush[t].key
        BY <2>2, <3>1 DEF SlotInv, Unraced
      <3>3. \A o \in Uploading' : /\ flush'[o].key = flush[t].key
                                  /\ slot'.vault \in {NoKey, flush'[o].key}
                                  /\ flush'[o].at # "vault" => slot'.vault = flush'[o].key
        BY <2>2, <2>u, <3>2 DEF Claims
      <3> QED
        BY <2>2, <3>2, <3>3 DEF Claims
    <2>3. CASE /\ t \in Uploading /\ Put(t) /\ raced' = raced
               /\ \/ flush'[t].at = "idle"
                  \/ /\ flush'[t].key = flush[t].key /\ flush'[t].at \in {"read", "db", "mls"}
                     /\ flush[t].at = "vault" => slot'.vault = flush[t].key
      <3>1. SUFFICES ASSUME ~raced'
                     PROVE  Claims' /\ (slot.vault # NoKey => slot'.vault = slot.vault)
        BY DEF SlotInv
      <3>2. Claims /\ slot \in Slots
        BY <2>3, <3>1 DEF SlotInv, KeyInv, TypeOK
      <3>3. /\ slot'.db \in {NoKey, slot'.vault} /\ slot'.mls \in {NoKey, slot'.vault}
            /\ slot'.vault \in {slot.vault, flush[t].key}
            /\ slot.vault # NoKey => slot'.vault = slot.vault
        BY <2>3, <3>2, PutKeepsSlot
      <3>4. \A o \in Uploading' : flush'[o].key = flush[t].key
        BY <2>3, <2>u, <3>2 DEF Claims, Uploading
      <3>5. slot'.vault \in {NoKey, flush[t].key}
        BY <2>3, <3>2, <3>3 DEF Claims
      <3>6. ASSUME NEW o \in Uploading', flush'[o].at # "vault" PROVE slot'.vault = flush[t].key
        <4>1. CASE o = t
          <5>1. flush'[t].at # "idle"
            BY <3>6, <4>1 DEF Uploading
          <5>2. CASE flush[t].at = "vault"
            BY <2>3, <5>1, <5>2
          <5>3. CASE flush[t].at # "vault"
            BY <2>3, <3>2, <3>3, <5>3 DEF Claims
          <5> QED
            BY <5>2, <5>3
        <4>2. CASE o # t
          <5>1. o \in Uploading /\ flush[o].at # "vault"
            BY <2>u, <3>6, <4>2
          <5>2. slot.vault = flush[t].key
            BY <2>3, <3>2, <5>1 DEF Claims
          <5> QED
            BY <3>3, <5>2
        <4> QED
          BY <4>1, <4>2
      <3> QED
        BY <3>3, <3>4, <3>5, <3>6 DEF Claims
    <2> QED
      BY <1>2, <2>1, <2>2, <2>3, FlushForms
  <1>3. ASSUME NEW d \in Devices, Stop(d)
        PROVE  SlotInv' /\ (slot.vault # NoKey /\ ~raced' => slot'.vault = slot.vault)
    <2>1. slot' = slot /\ raced' = raced
      BY <1>3 DEF Stop
    <2>2. \A t \in Tasks : flush'[t] = flush[t] \/ flush'[t].at \in {"idle", "asking"}
      BY <1>3 DEF Stop, NoFlush
    <2> QED
      BY <1>1, <2>1, <2>2
  <1>4. ASSUME slot' = slot, raced' = raced, flush' = flush
        PROVE  SlotInv' /\ (slot.vault # NoKey /\ ~raced' => slot'.vault = slot.vault)
    BY <1>1, <1>4
  <1>5. ASSUME NEW d \in Devices, LaunchStep(d)
        PROVE  slot' = slot /\ raced' = raced /\ flush' = flush
    BY <1>5 DEF LaunchStep, Launch, RestoredKey, OpenVault, StartRecovery, VerifyRecovered,
                FetchRecovered,
       SetAside, MustSetAside, CreateVault, CreateDb, PersistKey, RolledBack, Migrate, FinishSetup
  <1>6. ASSUME NEW d \in Devices,
               (\E r \in Rows : StoreRow(d, r)) \/ Checkpoint(d) \/ SignOut(d) \/ LoseFiles(d)
        PROVE  slot' = slot /\ raced' = raced /\ flush' = flush
    BY <1>6 DEF StoreRow, Checkpoint, SignOut, LoseFiles
  <1>7. CASE UNCHANGED vars
    BY <1>4, <1>7 DEF vars
  <1> QED
    BY <1>2, <1>3, <1>4, <1>5, <1>6, <1>7 DEF Next

\* The invariant about the slot holds in every reachable state.
THEOREM SlotInvariant == Spec => []SlotInv
  <1>1. KeyInv /\ SlotInv /\ [Next]_vars => SlotInv'
    BY SlotStep
  <1> QED
    BY InitSlot, <1>1, KeyInvariant, PTL DEF Spec

\* Unless backups under two keys overlapped or the server overlooked one, the parts
\* of a backup are under one key.
THEOREM OneKeyCorrect == Spec => []BackupUnderOneKey
  <1>1. SlotInv => BackupUnderOneKey
    BY DEF SlotInv, Claims, BackupUnderOneKey
  <1> QED
    BY SlotInvariant, <1>1, PTL

\* Nor is a backup ever taken over by another key.
THEOREM SlotKept == Spec => SlotNotTaken
  <1>1. KeyInv /\ SlotInv /\ [Next]_vars
           => [slot.vault # NoKey /\ ~raced' => slot'.vault = slot.vault]_vars
    BY SlotStep
  <1> QED
    BY KeyInvariant, SlotInvariant, <1>1, PTL DEF Spec, SlotNotTaken

(***************************************************************************)
(* History.  An installation that lost nothing has its key in the keyring  *)
(* only with vault and database whole, so nothing it can read is ever set  *)
(* aside under a key or replaced; and set-up deletes the old database only *)
(* when the new one has its rows.                                          *)
(***************************************************************************)
Content(d) == db[d].main \cup db[d].wal

Undisturbed(d) ==
    d \notin lost =>
        /\ keyring[d] # NoKey => Whole(d)
        /\ stage[d] \notin {"verify", "fetching"}
        /\ stage[d] = "persist" => keyring[d] = NoKey
        /\ db[d].key = NoKey => Content(d) = {}
        /\ stage[d] = "finish" /\ aside[d].key = Plain => aside[d].main \subseteq Content(d)

Kept(d) == d \notin lost' => Undisturbed(d)' /\ Readable(d) \subseteq Readable(d)'

HistoryInv == \A d \in Devices : Undisturbed(d)

\* Nothing that matters to the history of an installation changes.
Quiet(d) ==
    /\ vault'[d] = vault[d] /\ db'[d].key = db[d].key /\ Content(d)' = Content(d)
    /\ (db[d].key = Plain => db'[d].main = db[d].main)
    /\ keyring'[d] = keyring[d] /\ aside'[d] = aside[d]
    /\ stage'[d] = stage[d] \/ stage'[d] \notin {"verify", "fetching", "persist", "finish"}
    /\ d \in lost' <=> d \in lost

LEMMA QuietKeeps ==
    ASSUME NEW d \in Devices, Undisturbed(d), Quiet(d)
    PROVE  Kept(d)
  <1>1. Whole(d)' <=> Whole(d)
    BY DEF Quiet, Whole
  <1>2. ASSUME d \notin lost PROVE Undisturbed(d)'
    BY <1>1, <1>2 DEF Quiet, Undisturbed
  <1>3. Readable(d)' = Readable(d)
    BY DEF Quiet, Readable, Content
  <1> QED
    BY <1>2, <1>3 DEF Kept, Quiet

LEMMA InitHistory == Init => HistoryInv
  <1> SUFFICES ASSUME Init, NEW d \in Devices PROVE Undisturbed(d)
    BY DEF HistoryInv
  <1>1. keyring[d] = NoKey /\ stage[d] = "off"
    BY DEF Init
  <1>2. db[d] = NoFile \/ \E inWal \in SUBSET OldRows : db[d] = OldFile(inWal)
    BY DEF Init
  <1>3. db[d].key = NoKey => db[d].main = {} /\ db[d].wal = {}
    <2>1. CASE db[d] = NoFile
      BY <2>1 DEF NoFile
    <2>2. ASSUME NEW inWal \in SUBSET OldRows, db[d] = OldFile(inWal) PROVE db[d].key # NoKey
      BY <2>2, BackupAssumption DEF OldFile
    <2> QED
      BY <1>2, <2>1, <2>2
  <1> QED
    BY <1>1, <1>3 DEF Undisturbed, Content

LEMMA HistoryStep ==
    ASSUME KeyInv, HistoryInv, [Next]_vars, NEW d \in Devices
    PROVE  Kept(d)
  <1>t. /\ vault \in [Devices -> MaybeKey] /\ keyring \in [Devices -> MaybeKey]
        /\ db \in [Devices -> Files] /\ aside \in [Devices -> Files]
        /\ stage \in [Devices -> Stages] /\ db[d] \in Files /\ aside[d] \in Files
        /\ NoKey \notin Keys /\ Plain \notin Keys /\ NoKey # Plain
        /\ Undisturbed(d) /\ Stage(d)
    BY BackupAssumption DEF KeyInv, TypeOK, HistoryInv
  <1> USE DEF Move, localVars, history
  <1>1. ASSUME NEW e \in Devices, e # d,
               \/ LaunchStep(e) \/ (\E r \in Rows : StoreRow(e, r))
               \/ Checkpoint(e) \/ SignOut(e) \/ Stop(e) \/ LoseFiles(e)
        PROVE  Kept(d)
    <2>1. /\ vault'[d] = vault[d] /\ db'[d] = db[d] /\ keyring'[d] = keyring[d]
          /\ aside'[d] = aside[d] /\ stage'[d] = stage[d] /\ (d \in lost' <=> d \in lost)
      <3>1. CASE LaunchStep(e)
        BY <1>t, <1>1, <3>1 DEF LaunchStep, Launch, RestoredKey, OpenVault, StartRecovery, VerifyRecovered,
           FetchRecovered, SetAside, MustSetAside, CreateVault, CreateDb, PersistKey, RolledBack,
           Migrate, FinishSetup
      <3>2. CASE (\E r \in Rows : StoreRow(e, r)) \/ Checkpoint(e) \/ SignOut(e)
        BY <1>t, <1>1, <3>2 DEF StoreRow, Checkpoint, SignOut
      <3>3. CASE Stop(e) \/ LoseFiles(e)
        BY <1>t, <1>1, <3>3 DEF Stop, LoseFiles
      <3> QED
        BY <1>1, <3>1, <3>2, <3>3
    <2>2. Quiet(d)
      BY <2>1 DEF Quiet, Content
    <2> QED
      BY <1>t, <2>2, QuietKeeps
  <1>2. ASSUME NEW t \in Tasks, FlushStep(t) PROVE Kept(d)
    <2>1. Quiet(d)
      BY <1>2 DEF FlushStep, StartFlush, AskOwner, Owns, Claim, UploadVault, ReadDb, UploadDb, UploadMls,
         FailFlush, Rearmed, Quiet, Content
    <2> QED
      BY <1>t, <2>1, QuietKeeps
  <1>3. CASE UNCHANGED vars
    <2>1. Quiet(d)
      BY <1>3 DEF vars, Quiet, Content
    <2> QED
      BY <1>t, <2>1, QuietKeeps
  <1>4. CASE Launch(d) \/ OpenVault(d) \/ Stop(d)
    <2>1. stage'[d] \in {"deciding", "ready", "failed", "off"}
          /\ UNCHANGED <<vault, db, aside, keyring, lost>>
      BY <1>t, <1>4 DEF Launch, RestoredKey, OpenVault, Stop
    <2>2. Quiet(d)
      BY <2>1 DEF Quiet, Content
    <2> QED
      BY <1>t, <2>2, QuietKeeps
  <1>5. CASE StartRecovery(d)
    <2>1. CASE d \in lost
      BY <1>5, <2>1 DEF StartRecovery, Kept
    <2>2. CASE d \notin lost
      <3>1. keyring[d] = NoKey /\ stage'[d] = "setup" /\ vault' = vault
        BY <1>t, <1>5, <2>2 DEF StartRecovery, Downloads, VaultFile, Undisturbed, Whole
      <3>2. Quiet(d)
        BY <1>5, <3>1 DEF StartRecovery, Quiet, Content
      <3> QED
        BY <1>t, <3>2, QuietKeeps
    <2> QED
      BY <2>1, <2>2
  <1>6. CASE VerifyRecovered(d) \/ FetchRecovered(d)
    <2>1. d \in lost /\ lost' = lost
      BY <1>t, <1>6 DEF VerifyRecovered, FetchRecovered, Undisturbed
    <2> QED
      BY <2>1 DEF Kept
  <1>7. CASE SetAside(d)
    <2>0. stage[d] = "setup" /\ vault[d] = NoKey /\ vault' = vault /\ keyring' = keyring
          /\ lost' = lost /\ stage'[d] \in {"create", "failed"}
      BY <1>t, <1>7 DEF SetAside, MustSetAside, Stage
    <2>1. CASE db' = db /\ aside' = aside
      <3>1. Quiet(d)
        BY <2>0, <2>1 DEF Quiet, Content
      <3> QED
        BY <1>t, <3>1, QuietKeeps
    <2>2. CASE /\ aside' = [aside EXCEPT ![d] = [db[d] EXCEPT !.wal = {}]]
               /\ db' = [db EXCEPT ![d] = NoFile] /\ ~Present(aside[d])
      <3>1. SUFFICES ASSUME d \notin lost
                     PROVE  Undisturbed(d)' /\ Readable(d) \subseteq Readable(d)'
        BY <2>0 DEF Kept
      <3>2. keyring[d] = NoKey
        BY <1>t, <2>0, <3>1 DEF Undisturbed, Whole
      <3>3. db'[d] = NoFile /\ aside'[d].key = db[d].key /\ aside'[d].main = db[d].main
        BY <1>t, <2>2 DEF Files
      <3>4. Undisturbed(d)'
        BY <1>t, <2>0, <3>2, <3>3 DEF Undisturbed, Content, NoFile
      <3>5. Readable(d) \subseteq Readable(d)'
        <4>1. aside[d].key # Plain
          BY <1>t, <2>2 DEF Present
        <4>2. CASE db[d].key = Plain
          BY <1>t, <3>1, <3>2, <3>3, <4>1, <4>2 DEF Readable, Undisturbed
        <4>3. CASE db[d].key # Plain
          BY <1>t, <3>1, <3>2, <4>1, <4>3 DEF Readable, Undisturbed, Content
        <4> QED
          BY <4>2, <4>3
      <3> QED
        BY <3>4, <3>5
    <2> QED
      BY <1>7, <2>1, <2>2 DEF SetAside, MustSetAside
  <1>8. ASSUME NEW k \in Keys, CreateVault(d, k) PROVE Kept(d)
    <2>1. stage[d] = "create" /\ vault[d] = NoKey /\ db' = db /\ keyring' = keyring
          /\ aside' = aside /\ lost' = lost /\ stage'[d] = "open"
      BY <1>t, <1>8 DEF CreateVault, Stage
    <2>2. d \notin lost => keyring[d] = NoKey
      BY <1>t, <2>1 DEF Undisturbed, Whole
    <2>3. d \notin lost => Undisturbed(d)'
      BY <1>t, <2>1, <2>2 DEF Undisturbed, Content
    <2>4. Readable(d)' = Readable(d)
      BY <2>1 DEF Readable
    <2> QED
      BY <2>1, <2>3, <2>4 DEF Kept
  <1>9. CASE CreateDb(d)
    <2>0. stage[d] = "open" /\ vault' = vault /\ keyring' = keyring /\ aside' = aside
          /\ lost' = lost /\ vault[d] \in Keys /\ stage'[d] \in {"persist", "failed"}
      BY <1>t, <1>9 DEF CreateDb, Stage
    <2>1. CASE db' = db /\ stage'[d] = "failed"
      <3>1. Quiet(d)
        BY <2>0, <2>1 DEF Quiet, Content
      <3> QED
        BY <1>t, <3>1, QuietKeeps
    <2>2. CASE ~Present(db[d]) /\ db' = [db EXCEPT ![d].key = vault[d]]
      <3>1. db'[d].key = vault[d] /\ db'[d].main = db[d].main /\ db'[d].wal = db[d].wal
        BY <1>t, <2>2 DEF Files
      <3>2. SUFFICES ASSUME d \notin lost
                     PROVE  Undisturbed(d)' /\ Readable(d) \subseteq Readable(d)'
        BY <2>0 DEF Kept
      <3>3. Content(d) = {} /\ db[d].key = NoKey
        BY <1>t, <2>2, <3>2 DEF Undisturbed, Present
      <3>4. keyring[d] = NoKey
        BY <1>t, <2>0, <3>2, <3>3 DEF Undisturbed, Whole
      <3>5. Undisturbed(d)'
        BY <1>t, <2>0, <3>1, <3>4 DEF Undisturbed
      <3>6. Readable(d) \subseteq Readable(d)'
        BY <2>0, <3>3 DEF Readable, Content
      <3> QED
        BY <3>5, <3>6
    <2> QED
      BY <1>t, <1>9, <2>1, <2>2 DEF CreateDb, Move
  <1>10. CASE PersistKey(d)
    <2>0. stage[d] = "persist" /\ db' = db /\ aside' = aside /\ lost' = lost
          /\ vault[d] \in Keys /\ db[d].key = vault[d] /\ stage'[d] \in {"migrate", "failed"}
      BY <1>t, <1>10 DEF PersistKey, RolledBack, Stage
    <2>1. CASE keyring' = [keyring EXCEPT ![d] = vault[d]] /\ vault' = vault
      <3>1. keyring'[d] = vault[d] /\ Whole(d)'
        BY <1>t, <2>0, <2>1 DEF Whole
      <3>2. d \notin lost => Undisturbed(d)'
        BY <1>t, <2>0, <3>1 DEF Undisturbed, Content
      <3>3. Readable(d) \subseteq Readable(d)'
        BY <2>0, <3>1 DEF Readable
      <3> QED
        BY <2>0, <3>2, <3>3 DEF Kept
    <2>2. CASE vault'[d] = NoKey /\ keyring' = keyring /\ stage'[d] = "failed"
      <3>1. SUFFICES ASSUME d \notin lost
                     PROVE  Undisturbed(d)' /\ Readable(d) \subseteq Readable(d)'
        BY <2>0 DEF Kept
      <3>2. keyring[d] = NoKey
        BY <1>t, <2>0, <3>1 DEF Undisturbed
      <3> QED
        BY <1>t, <2>0, <2>2, <3>1, <3>2 DEF Undisturbed, Content, Readable
    <2> QED
      BY <1>t, <1>10, <2>1, <2>2 DEF PersistKey, RolledBack
  <1>11. CASE Migrate(d)
    <2>0. stage[d] = "migrate" /\ vault' = vault /\ keyring' = keyring /\ aside' = aside
          /\ Whole(d) /\ stage'[d] \in {"finish", "failed"} /\ (d \notin lost' => d \notin lost)
      BY <1>t, <1>11 DEF Migrate, Stage
    <2>1. \/ db' = db /\ (stage'[d] = "finish" => aside[d].key # Plain)
          \/ \E got \in SUBSET aside[d].main :
                /\ db' = [db EXCEPT ![d].wal = @ \cup got]
                /\ d \notin lost' => got = aside[d].main
      BY <1>t, <1>11 DEF Migrate, Present
    <2>2. /\ db'[d].key = db[d].key /\ Content(d) \subseteq Content(d)'
          /\ d \notin lost' /\ stage'[d] = "finish" /\ aside[d].key = Plain
                => aside[d].main \subseteq Content(d)'
      <3>1. CASE db' = db /\ (stage'[d] = "finish" => aside[d].key # Plain)
        BY <3>1 DEF Content
      <3>2. ASSUME NEW got \in SUBSET aside[d].main, db' = [db EXCEPT ![d].wal = @ \cup got],
                   d \notin lost' => got = aside[d].main
            PROVE  /\ db'[d].key = db[d].key /\ Content(d) \subseteq Content(d)'
                   /\ d \notin lost' /\ stage'[d] = "finish" /\ aside[d].key = Plain
                         => aside[d].main \subseteq Content(d)'
        <4>1. db'[d].key = db[d].key /\ db'[d].main = db[d].main /\ db'[d].wal = db[d].wal \cup got
          BY <1>t, <3>2 DEF Files
        <4> QED
          BY <3>2, <4>1 DEF Content
      <3> QED
        BY <2>1, <3>1, <3>2
    <2>3. Whole(d)' /\ db'[d].key \in Keys
      BY <2>0, <2>2 DEF Whole
    <2>4. d \notin lost' => Undisturbed(d)'
      BY <1>t, <2>0, <2>2, <2>3 DEF Undisturbed
    <2>5. Readable(d) \subseteq Readable(d)'
      BY <2>0, <2>2, <2>3 DEF Readable, Content, Whole
    <2> QED
      BY <2>4, <2>5 DEF Kept
  <1>12. CASE FinishSetup(d)
    <2>1. stage[d] = "finish" /\ vault' = vault /\ keyring' = keyring /\ db' = db
          /\ lost' = lost /\ stage'[d] = "ready" /\ aside'[d] = NoFile /\ Whole(d)
      BY <1>t, <1>12 DEF FinishSetup, Stage
    <2>2. d \notin lost => Undisturbed(d)'
      BY <1>t, <2>1 DEF Undisturbed, Whole, Content
    <2>3. d \notin lost => Readable(d) \subseteq Readable(d)'
      BY <1>t, <2>1 DEF Undisturbed, Readable, Content, Whole
    <2> QED
      BY <2>1, <2>2, <2>3 DEF Kept
  <1>13. ASSUME NEW r \in Rows, StoreRow(d, r) PROVE Kept(d)
    <2>1. stage[d] = "ready" /\ Whole(d) /\ vault' = vault /\ keyring' = keyring
          /\ aside' = aside /\ stage' = stage /\ lost' = lost
      BY <1>t, <1>13 DEF StoreRow, Stage
    <2>2. db'[d].key = db[d].key /\ Content(d) \subseteq Content(d)'
      <3>1. db'[d] = [db[d] EXCEPT !.wal = @ \cup {r}]
        BY <1>t, <1>13 DEF StoreRow
      <3>2. db'[d].key = db[d].key /\ db'[d].main = db[d].main /\ db'[d].wal = db[d].wal \cup {r}
        BY <1>t, <3>1 DEF Files
      <3> QED
        BY <3>2 DEF Content
    <2>3. Whole(d)' /\ db'[d].key \in Keys
      BY <2>1, <2>2 DEF Whole
    <2>4. d \notin lost => Undisturbed(d)'
      BY <1>t, <2>1, <2>3 DEF Undisturbed
    <2>5. Readable(d) \subseteq Readable(d)'
      BY <2>1, <2>2, <2>3 DEF Readable, Content, Whole
    <2> QED
      BY <2>1, <2>4, <2>5 DEF Kept
  <1>14. CASE Checkpoint(d) \/ SignOut(d)
    <2>1. /\ Checkpointed(db[d]).key = db[d].key
          /\ Checkpointed(db[d]).main = db[d].main \cup db[d].wal /\ Checkpointed(db[d]).wal = {}
      BY <1>t DEF Checkpointed, Files
    <2>2. db'[d] = db[d] \/ db'[d] = Checkpointed(db[d])
      BY <1>t, <1>14 DEF Checkpoint, SignOut
    <2>3. vault' = vault /\ keyring' = keyring /\ aside' = aside /\ lost' = lost
          /\ (stage'[d] = stage[d] \/ stage'[d] = "out")
      BY <1>t, <1>14 DEF Checkpoint, SignOut
    <2>4. SUFFICES ASSUME d \notin lost PROVE Kept(d)
      BY <2>3 DEF Kept
    <2>5. db[d].key = Plain => db'[d].main = db[d].main
      <3>1. mem[d] \in MaybeKey
        BY DEF KeyInv, TypeOK
      <3>2. CASE Checkpoint(d)
        BY <1>t, <3>2 DEF Checkpoint, Stage, Whole
      <3>3. CASE SignOut(d)
        BY <1>t, <3>1, <3>3 DEF SignOut, MaybeKey
      <3> QED
        BY <1>14, <3>2, <3>3
    <2>6. Quiet(d)
      BY <2>1, <2>2, <2>3, <2>5 DEF Quiet, Content
    <2> QED
      BY <1>t, <2>6, QuietKeeps
  <1>15. CASE LoseFiles(d)
    BY <1>15 DEF LoseFiles, Kept
  <1> QED
    BY <1>1, <1>2, <1>3, <1>4, <1>5, <1>6, <1>7, <1>8, <1>9, <1>10, <1>11, <1>12, <1>13, <1>14,
       <1>15 DEF Next, LaunchStep

\* The invariant about the history holds in every reachable state.
THEOREM HistoryInvariant == Spec => []HistoryInv
  <1>1. KeyInv /\ HistoryInv /\ [Next]_vars => HistoryInv'
    <2> SUFFICES ASSUME KeyInv, HistoryInv, [Next]_vars, NEW d \in Devices PROVE Undisturbed(d)'
      BY DEF HistoryInv
    <2>1. Kept(d)
      BY HistoryStep
    <2> QED
      BY <2>1 DEF Kept, Undisturbed
  <1> QED
    BY InitHistory, <1>1, KeyInvariant, PTL DEF Spec

\* Without a lost file or a lost insert an installation keeps what it can read.
THEOREM HistoryCorrect == Spec => HistoryKept
  <1>1. KeyInv /\ HistoryInv /\ [Next]_vars
           => [\A d \in Devices : d \notin lost' => Readable(d) \subseteq Readable(d)']_vars
    BY HistoryStep DEF Kept
  <1> QED
    BY KeyInvariant, HistoryInvariant, <1>1, PTL DEF Spec, HistoryKept

(***************************************************************************)
(* The dirty flag.  Rows to answer for are in files that are whole; an     *)
(* installation whose backups never overlapped has one under way, which     *)
(* carries every row unless the flag is set again; and nobody else has its *)
(* key, so nobody replaces what it uploaded.                               *)
(***************************************************************************)
\* Every installation has a key of its own.
OwnKeys ==
    /\ \A d \in Devices : keyring[d] \in used \cup {NoKey}
    /\ \A d, e \in Devices : keyring[d] = keyring[e] => d = e \/ keyring[d] = NoKey
    /\ \A d \in Devices : stage[d] \in {"open", "persist"} =>
          /\ vault[d] \in used
          /\ \A e \in Devices \ {d} :
                keyring[e] # vault[d] /\ (stage[e] \in {"open", "persist"} => vault[e] # vault[d])
\* While there are rows to answer for, the files are whole and have them.
FreshKept ==
    \A d \in Devices : fresh[d] # {} =>
        /\ Whole(d) /\ stage[d] \in {"ready", "out", "deciding"}
        /\ fresh[d] \subseteq db[d].main \cup db[d].wal
\* An installation whose backups never overlapped has one under way.
OneBackup ==
    \A t, o \in Tasks : flush[t].at # "idle" /\ flush[o].at # "idle"
        /\ RunsOn[t] = RunsOn[o] /\ RunsOn[t] \notin crossed => t = o
\* It carries every row, or the row set the flag after it was read ...
Carries ==
    \A t \in Tasks : flush[t].at \in {"db", "mls"} /\ RunsOn[t] \notin crossed =>
        dirty[RunsOn[t]] \/ fresh[RunsOn[t]] \subseteq flush[t].rows
\* ... and once it is uploaded nobody has replaced it.
Uploaded ==
    \A t \in Tasks : flush[t].at = "mls" /\ RunsOn[t] \notin crossed /\ ~raced =>
        slot.db = flush[t].key /\ slot.rows = flush[t].rows
SavedInv == FreshKept /\ OneBackup /\ Carries /\ Uploaded /\ UnsavedIsFlagged

\* A step that draws and stores no key.
LEMMA NoNewKey ==
    ASSUME OwnKeys, used' = used, keyring' = keyring,
           \A e \in Devices : stage'[e] \in {"open", "persist"} =>
               stage[e] \in {"open", "persist"} /\ vault'[e] = vault[e]
    PROVE  OwnKeys'
  <1>1. \A d \in Devices : stage'[d] \in {"open", "persist"} =>
            /\ vault'[d] \in used /\ vault'[d] = vault[d]
            /\ \A e \in Devices \ {d} :
                  keyring[e] # vault[d] /\ (stage[e] \in {"open", "persist"} => vault[e] # vault[d])
    BY DEF OwnKeys
  <1>2. \A d \in Devices : stage'[d] \in {"open", "persist"} =>
            \A e \in Devices \ {d} : stage'[e] \in {"open", "persist"} => vault'[e] # vault'[d]
    BY <1>1
  <1> QED
    BY <1>1, <1>2 DEF OwnKeys

LEMMA OwnKeysStep == KeyInv /\ OwnKeys /\ [Next]_vars => OwnKeys'
  <1> SUFFICES ASSUME KeyInv, OwnKeys, [Next]_vars PROVE OwnKeys'
    OBVIOUS
  <1>t. /\ vault \in [Devices -> MaybeKey] /\ keyring \in [Devices -> MaybeKey]
        /\ stage \in [Devices -> Stages] /\ used \subseteq Keys /\ NoKey \notin Keys
    BY BackupAssumption DEF KeyInv, TypeOK
  <1> USE DEF Move, localVars, history
  <1>1. ASSUME NEW d \in Devices, NEW k \in Keys, CreateVault(d, k) PROVE OwnKeys'
    <2>1. /\ k \notin used /\ used' = used \cup {k} /\ keyring' = keyring
          /\ vault'[d] = k /\ stage'[d] = "open"
          /\ \A e \in Devices \ {d} : vault'[e] = vault[e] /\ stage'[e] = stage[e]
      BY <1>1, <1>t DEF CreateVault
    <2>2. \A e \in Devices : keyring[e] # k /\ (stage[e] \in {"open", "persist"} => vault[e] # k)
      BY <2>1, <1>t DEF OwnKeys
    <2>3. \A e \in Devices : stage'[e] \in {"open", "persist"} =>
              /\ vault'[e] \in used'
              /\ \A c \in Devices \ {e} : keyring'[c] # vault'[e]
      BY <2>1, <2>2 DEF OwnKeys
    <2>4. ASSUME NEW e \in Devices, NEW c \in Devices \ {e},
                 stage'[e] \in {"open", "persist"}, stage'[c] \in {"open", "persist"}
          PROVE  vault'[c] # vault'[e]
      <3>1. CASE e = d
        BY <2>1, <2>2, <2>4, <3>1
      <3>2. CASE c = d
        BY <2>1, <2>2, <2>4, <3>2
      <3>3. CASE e # d /\ c # d
        BY <2>1, <2>4, <3>3 DEF OwnKeys
      <3> QED
        BY <3>1, <3>2, <3>3
    <2> QED
      BY <2>1, <2>3, <2>4 DEF OwnKeys
  <1>2. ASSUME NEW d \in Devices, PersistKey(d) PROVE OwnKeys'
    <2>1. CASE keyring' = keyring
      <3>1. used' = used /\ stage[d] = "persist" /\ stage'[d] \in {"migrate", "failed"}
            /\ \A e \in Devices \ {d} : vault'[e] = vault[e] /\ stage'[e] = stage[e]
        BY <1>2, <1>t DEF PersistKey
      <3> QED
        BY <2>1, <3>1, NoNewKey
    <2>2. CASE keyring' # keyring
      <3>1. /\ used' = used /\ vault' = vault /\ stage[d] = "persist" /\ stage'[d] = "migrate"
            /\ keyring'[d] = vault[d]
            /\ \A e \in Devices \ {d} : keyring'[e] = keyring[e] /\ stage'[e] = stage[e]
        BY <1>2, <1>t, <2>2 DEF PersistKey
      <3>2. vault[d] \in used /\ \A e \in Devices \ {d} : keyring[e] # vault[d]
        BY <3>1 DEF OwnKeys
      <3>3. /\ \A e \in Devices : keyring'[e] \in used' \cup {NoKey}
            /\ \A c, e \in Devices : keyring'[c] = keyring'[e] => c = e \/ keyring'[c] = NoKey
        BY <3>1, <3>2 DEF OwnKeys
      <3>4. \A e \in Devices \ {d} : stage[e] \in {"open", "persist"} => vault[d] # vault[e]
        BY <3>1 DEF OwnKeys
      <3>5. ASSUME NEW e \in Devices, stage'[e] \in {"open", "persist"}
            PROVE  /\ vault'[e] \in used'
                   /\ \A c \in Devices \ {e} :
                         /\ keyring'[c] # vault'[e]
                         /\ stage'[c] \in {"open", "persist"} => vault'[c] # vault'[e]
        <4>1. e # d /\ stage[e] \in {"open", "persist"}
          BY <3>1, <3>5
        <4>2. vault[e] \in used
          BY <4>1 DEF OwnKeys
        <4>3. \A c \in Devices \ {e} : c # d =>
                  keyring[c] # vault[e] /\ (stage[c] \in {"open", "persist"} => vault[c] # vault[e])
          BY <4>1 DEF OwnKeys
        <4> QED
          BY <3>1, <3>4, <4>1, <4>2, <4>3
      <3> QED
        BY <3>3, <3>5 DEF OwnKeys
    <2> QED
      BY <2>1, <2>2
  <1>3. ASSUME NEW d \in Devices,
               \/ Launch(d) \/ OpenVault(d) \/ StartRecovery(d) \/ VerifyRecovered(d)
               \/ FetchRecovered(d) \/ SetAside(d) \/ CreateDb(d) \/ Migrate(d) \/ FinishSetup(d)
        PROVE  OwnKeys'
    <2>1. used' = used /\ keyring' = keyring
      BY <1>3 DEF Launch, RestoredKey, OpenVault, StartRecovery, VerifyRecovered, FetchRecovered,
                  SetAside, CreateDb, Migrate, FinishSetup
    <2>2. \A e \in Devices : stage'[e] \in {"open", "persist"} =>
              stage[e] \in {"open", "persist"} /\ vault'[e] = vault[e]
      BY <1>3, <1>t DEF Launch, RestoredKey, OpenVault, StartRecovery, VerifyRecovered,
                        FetchRecovered, SetAside, CreateDb, Migrate, FinishSetup
    <2> QED
      BY <2>1, <2>2, NoNewKey
  <1>4. ASSUME NEW d \in Devices,
               \/ \E r \in Rows : StoreRow(d, r)
               \/ Checkpoint(d) \/ SignOut(d) \/ Stop(d) \/ LoseFiles(d)
        PROVE  OwnKeys'
    <2>1. used' = used /\ keyring' = keyring
      BY <1>4 DEF StoreRow, Checkpoint, SignOut, Stop, LoseFiles
    <2>2. \A e \in Devices : stage'[e] \in {"open", "persist"} =>
              stage[e] \in {"open", "persist"} /\ vault'[e] = vault[e]
      BY <1>4, <1>t DEF StoreRow, Checkpoint, SignOut, Stop, LoseFiles
    <2> QED
      BY <2>1, <2>2, NoNewKey
  <1>5. ASSUME NEW t \in Tasks, FlushStep(t) PROVE OwnKeys'
    <2>1. vault' = vault /\ used' = used /\ keyring' = keyring /\ stage' = stage
      BY <1>5 DEF FlushStep, StartFlush, AskOwner, Owns, Claim, UploadVault, ReadDb, UploadDb,
                  UploadMls, FailFlush, Rearmed
    <2> QED
      BY <2>1, NoNewKey
  <1>6. CASE UNCHANGED vars
    BY <1>6, NoNewKey DEF vars
  <1> QED
    BY <1>1, <1>2, <1>3, <1>4, <1>5, <1>6 DEF Next, LaunchStep

\* Two backups under one key are an installation's own.
LEMMA SameBackup ==
    ASSUME KeyInv, OwnKeys, OneBackup, NEW t \in Tasks, NEW o \in Tasks,
           flush[t].at # "idle", flush[o].at # "idle", flush[t].key = flush[o].key,
           RunsOn[o] \notin crossed
    PROVE  t = o
  <1>1. RunsOn[t] \in Devices /\ RunsOn[o] \in Devices /\ Backing(t) /\ Backing(o)
        /\ NoKey \notin Keys
    BY BackupAssumption DEF KeyInv
  <1>2. keyring[RunsOn[t]] = flush[t].key /\ keyring[RunsOn[o]] = flush[o].key
        /\ flush[t].key \in Keys
    BY <1>1 DEF Backing, Whole
  <1>3. RunsOn[t] = RunsOn[o]
    BY <1>1, <1>2 DEF OwnKeys
  <1> QED
    BY <1>3 DEF OneBackup

\* A step that uploads nothing and starts nothing: what rows there are to answer for
\* have the answer they had, or the flag.
LEMMA SavedQuietly ==
    ASSUME SavedInv, FreshKept', slot' = slot, raced' = raced, crossed' = crossed,
           \A t \in Tasks : \/ flush'[t] = flush[t]
                            \/ flush'[t].at = "idle" /\ fresh'[RunsOn[t]] = {},
           \A d \in Devices :
               \/ fresh'[d] = {} \/ dirty'[d]
               \/ fresh'[d] \subseteq fresh[d] /\ dirty'[d] = dirty[d] /\ vault'[d] = vault[d]
    PROVE  SavedInv'
  <1>r. \A t \in Tasks : RunsOn[t] \in Devices
    BY BackupAssumption
  <1>1. OneBackup'
    BY DEF SavedInv, OneBackup
  <1>2. Carries'
    <2>1. SUFFICES ASSUME NEW t \in Tasks, flush'[t].at \in {"db", "mls"}, RunsOn[t] \notin crossed',
                          ~dirty'[RunsOn[t]]
                   PROVE  fresh'[RunsOn[t]] \subseteq flush'[t].rows
      BY DEF Carries
    <2>2. flush'[t] = flush[t]
      BY <2>1
    <2>3. dirty[RunsOn[t]] \/ fresh[RunsOn[t]] \subseteq flush[t].rows
      BY <2>1, <2>2 DEF SavedInv, Carries
    <2> QED
      BY <1>r, <2>1, <2>2, <2>3
  <1>3. Uploaded'
    BY DEF SavedInv, Uploaded
  <1>4. UnsavedIsFlagged'
    <2>1. SUFFICES ASSUME NEW d \in Devices \ crossed', NEW r \in fresh'[d], ~raced', ~dirty'[d]
                   PROVE  \/ \E t \in TasksOf(d) \cap Uploading' :
                                /\ flush'[t].was
                                /\ flush'[t].at \in {"vault", "read"} \/ r \in flush'[t].rows
                          \/ slot'.vault = vault'[d] /\ slot'.db = vault'[d] /\ r \in slot'.rows
                          \/ slot'.vault \notin {NoKey, vault'[d]}
      BY DEF UnsavedIsFlagged, TasksOf
    <2>2. r \in fresh[d] /\ ~dirty[d] /\ vault'[d] = vault[d]
      BY <2>1
    <2>3. \A t \in TasksOf(d) : flush'[t] = flush[t]
      BY <2>1 DEF TasksOf
    <2>4. \A t \in TasksOf(d) \cap Uploading : t \in Uploading'
      BY <2>3 DEF Uploading
    <2>5. \/ \E t \in TasksOf(d) \cap Uploading :
                flush[t].was /\ (flush[t].at \in {"vault", "read"} \/ r \in flush[t].rows)
          \/ slot.vault = vault[d] /\ slot.db = vault[d] /\ r \in slot.rows
          \/ slot.vault \notin {NoKey, vault[d]}
      BY <2>1, <2>2 DEF SavedInv, UnsavedIsFlagged
    <2> QED
      BY <2>2, <2>3, <2>4, <2>5
  <1> QED
    BY <1>1, <1>2, <1>3, <1>4 DEF SavedInv

\* What a launch does to an installation with rows to answer for, and to the others.
LEMMA LaunchLeaves ==
    ASSUME KeyInv, NEW d \in Devices, LaunchStep(d)
    PROVE  /\ fresh' = fresh /\ dirty' = dirty /\ flush' = flush /\ slot' = slot
           /\ raced' = raced /\ crossed' = crossed
           /\ \A e \in Devices :
                 \/ /\ vault'[e] = vault[e] /\ db'[e] = db[e] /\ keyring'[e] = keyring[e]
                    /\ stage'[e] = stage[e] \/ stage'[e] \in {"ready", "deciding"}
                 \/ ~(Whole(e) /\ stage[e] \in {"ready", "out", "deciding"})
  <1>t. /\ vault \in [Devices -> MaybeKey] /\ keyring \in [Devices -> MaybeKey]
        /\ db \in [Devices -> Files] /\ stage \in [Devices -> Stages] /\ mem \in [Devices -> MaybeKey]
        /\ Stage(d) /\ NoKey \notin Keys
    BY BackupAssumption DEF KeyInv, TypeOK
  <1> USE DEF Move, localVars, history
  <1>1. /\ fresh' = fresh /\ dirty' = dirty /\ flush' = flush /\ slot' = slot
        /\ raced' = raced /\ crossed' = crossed
    BY DEF LaunchStep, Launch, OpenVault, StartRecovery, VerifyRecovered, FetchRecovered, SetAside,
           CreateVault, CreateDb, PersistKey, Migrate, FinishSetup
  <1>2. \A e \in Devices \ {d} : /\ vault'[e] = vault[e] /\ db'[e] = db[e]
                                 /\ keyring'[e] = keyring[e] /\ stage'[e] = stage[e]
    <2>1. CASE Launch(d) \/ OpenVault(d) \/ StartRecovery(d) \/ VerifyRecovered(d)
      BY <1>t, <2>1 DEF Launch, OpenVault, StartRecovery, VerifyRecovered
    <2>2. CASE FetchRecovered(d)
      BY <1>t, <2>2 DEF FetchRecovered
    <2>3. CASE SetAside(d) \/ (\E k \in Keys : CreateVault(d, k)) \/ CreateDb(d)
      BY <1>t, <2>3 DEF SetAside, CreateVault, CreateDb
    <2>4. CASE PersistKey(d) \/ Migrate(d) \/ FinishSetup(d)
      BY <1>t, <2>4 DEF PersistKey, Migrate, FinishSetup
    <2> QED
      BY <2>1, <2>2, <2>3, <2>4 DEF LaunchStep
  <1>3. ASSUME Whole(d), stage[d] \in {"ready", "out", "deciding"}
        PROVE  /\ vault' = vault /\ db' = db /\ keyring' = keyring
               /\ stage'[d] \in {"ready", "deciding"}
    <2>1. CASE Launch(d)
      BY <1>t, <2>1 DEF Launch
    <2>2. CASE OpenVault(d)
      <3>1. Opens(d, keyring[d]) /\ keyring[d] = vault[d]
        BY <1>t, <1>3 DEF Whole, Opens
      <3> QED
        BY <1>t, <1>3, <2>2, <3>1 DEF OpenVault, Fits, Whole
    <2>3. CASE StartRecovery(d)
      BY <1>t, <1>3, <2>3 DEF StartRecovery, VaultFile, Whole
    <2>4. stage[d] \notin {"verify", "fetching", "setup", "create", "open", "persist", "migrate",
                           "finish"}
      BY <1>3
    <2> QED
      BY <2>1, <2>2, <2>3, <2>4 DEF LaunchStep, VerifyRecovered, FetchRecovered, SetAside, CreateVault,
         CreateDb, PersistKey, Migrate, FinishSetup
  <1>4. \A e \in Devices :
            \/ /\ vault'[e] = vault[e] /\ db'[e] = db[e] /\ keyring'[e] = keyring[e]
               /\ stage'[e] = stage[e] \/ stage'[e] \in {"ready", "deciding"}
            \/ ~(Whole(e) /\ stage[e] \in {"ready", "out", "deciding"})
    BY <1>2, <1>3
  <1> QED
    BY <1>1, <1>4

LEMMA LaunchSaves ==
    ASSUME KeyInv, SavedInv, NEW d \in Devices, LaunchStep(d)
    PROVE  SavedInv'
  <1>1. /\ fresh' = fresh /\ dirty' = dirty /\ flush' = flush /\ slot' = slot
        /\ raced' = raced /\ crossed' = crossed
        /\ \A e \in Devices :
              \/ /\ vault'[e] = vault[e] /\ db'[e] = db[e] /\ keyring'[e] = keyring[e]
                 /\ stage'[e] = stage[e] \/ stage'[e] \in {"ready", "deciding"}
              \/ ~(Whole(e) /\ stage[e] \in {"ready", "out", "deciding"})
    BY LaunchLeaves
  <1>2. \A e \in Devices : fresh[e] # {} =>
            /\ vault'[e] = vault[e] /\ db'[e] = db[e] /\ keyring'[e] = keyring[e]
            /\ stage'[e] \in {"ready", "out", "deciding"}
    BY <1>1 DEF SavedInv, FreshKept
  <1>3. FreshKept'
    BY <1>1, <1>2 DEF SavedInv, FreshKept, Whole
  <1> QED
    BY <1>1, <1>2, <1>3, SavedQuietly

LEMMA RunningSaves ==
    ASSUME KeyInv, SavedInv, NEW d \in Devices,
           \/ \E r \in Rows : StoreRow(d, r)
           \/ Checkpoint(d) \/ SignOut(d) \/ Stop(d) \/ LoseFiles(d)
    PROVE  SavedInv'
  <1>t. /\ vault \in [Devices -> MaybeKey] /\ keyring \in [Devices -> MaybeKey]
        /\ db \in [Devices -> Files] /\ stage \in [Devices -> Stages] /\ mem \in [Devices -> MaybeKey]
        /\ dirty \in [Devices -> BOOLEAN] /\ fresh \in [Devices -> SUBSET Rows]
        /\ flush \in [Tasks -> Flushes]
        /\ Stage(d) /\ db[d] \in Files /\ FreshKept
    BY DEF KeyInv, TypeOK, SavedInv
  <1> USE DEF Move, localVars, history
  <1>1. ASSUME NEW r \in Rows, StoreRow(d, r) PROVE SavedInv'
    <2>1. /\ slot' = slot /\ raced' = raced /\ crossed' = crossed /\ flush' = flush
          /\ vault' = vault /\ keyring' = keyring /\ stage' = stage
          /\ dirty'[d] /\ \A e \in Devices \ {d} : dirty'[e] = dirty[e] /\ fresh'[e] = fresh[e]
      BY <1>1, <1>t DEF StoreRow
    <2>2. /\ db'[d].key = db[d].key /\ db'[d].main = db[d].main
          /\ db'[d].wal = db[d].wal \cup {r} /\ fresh'[d] = fresh[d] \cup {r}
          /\ \A e \in Devices \ {d} : db'[e] = db[e]
      BY <1>1, <1>t DEF StoreRow, Files
    <2>3. stage[d] = "ready" /\ Whole(d)
      BY <1>1, <1>t DEF StoreRow, Stage
    <2>3f. fresh[d] \subseteq db[d].main \cup db[d].wal
      BY <1>t DEF FreshKept
    <2>4. Whole(d)' /\ stage'[d] = "ready" /\ fresh'[d] \subseteq db'[d].main \cup db'[d].wal
      BY <2>1, <2>2, <2>3, <2>3f DEF Whole
    <2>5. \A e \in Devices \ {d} : fresh'[e] # {} =>
              /\ Whole(e)' /\ stage'[e] \in {"ready", "out", "deciding"}
              /\ fresh'[e] \subseteq db'[e].main \cup db'[e].wal
      BY <1>t, <2>1, <2>2 DEF FreshKept, Whole
    <2>6. FreshKept'
      BY <2>4, <2>5 DEF FreshKept
    <2> QED
      BY <2>1, <2>6, SavedQuietly
  <1>2. CASE Checkpoint(d) \/ SignOut(d)
    <2>1. /\ slot' = slot /\ raced' = raced /\ crossed' = crossed /\ flush' = flush
          /\ vault' = vault /\ keyring' = keyring /\ dirty' = dirty /\ fresh' = fresh
          /\ \A e \in Devices : stage'[e] = stage[e] \/ stage'[e] = "out"
      BY <1>2, <1>t DEF Checkpoint, SignOut
    <2>2. Checkpointed(db[d]).key = db[d].key
          /\ Checkpointed(db[d]).main \cup Checkpointed(db[d]).wal = db[d].main \cup db[d].wal
      BY <1>t DEF Checkpointed, Files
    <2>3. \A e \in Devices : db'[e] = db[e] \/ (e = d /\ db'[e] = Checkpointed(db[d]))
      BY <1>2, <1>t DEF Checkpoint, SignOut
    <2>4. \A e \in Devices : /\ db'[e].key = db[e].key
                             /\ db'[e].main \cup db'[e].wal = db[e].main \cup db[e].wal
      BY <2>2, <2>3
    <2>5. FreshKept'
      BY <1>t, <2>1, <2>4 DEF FreshKept, Whole
    <2> QED
      BY <2>1, <2>5, SavedQuietly
  <1>3. CASE Stop(d)
    <2>1. /\ slot' = slot /\ raced' = raced /\ crossed' = crossed
          /\ vault' = vault /\ db' = db /\ keyring' = keyring /\ fresh'[d] = {}
          /\ \A e \in Devices \ {d} :
                dirty'[e] = dirty[e] /\ fresh'[e] = fresh[e] /\ stage'[e] = stage[e]
      BY <1>3, <1>t DEF Stop
    <2>2. \A t \in Tasks : \/ flush'[t] = flush[t]
                           \/ flush'[t].at = "idle" /\ fresh'[RunsOn[t]] = {}
      BY <1>3, <2>1 DEF Stop, NoFlush
    <2>3. FreshKept'
      BY <1>t, <2>1 DEF FreshKept, Whole
    <2> QED
      BY <2>1, <2>2, <2>3, SavedQuietly
  <1>4. CASE LoseFiles(d)
    <2>1. /\ slot' = slot /\ raced' = raced /\ crossed' = crossed /\ flush' = flush
          /\ keyring' = keyring /\ dirty' = dirty /\ fresh' = fresh /\ stage' = stage
          /\ stage[d] = "off"
          /\ \A e \in Devices \ {d} : vault'[e] = vault[e] /\ db'[e] = db[e]
      BY <1>4, <1>t DEF LoseFiles
    <2>2. fresh[d] = {}
      BY <1>t, <2>1 DEF FreshKept
    <2>3. FreshKept'
      BY <1>t, <2>1, <2>2 DEF FreshKept, Whole
    <2> QED
      BY <2>1, <2>2, <2>3, SavedQuietly
  <1> QED
    BY <1>1, <1>2, <1>3, <1>4

\* What every step of a backup leaves alone.
LEMMA FlushLeaves ==
    ASSUME KeyInv, NEW t \in Tasks, FlushStep(t)
    PROVE  /\ vault' = vault /\ db' = db /\ keyring' = keyring /\ stage' = stage
           /\ \A e \in Devices : fresh'[e] \subseteq fresh[e]
           /\ \A e \in Devices \ {RunsOn[t]} : fresh'[e] = fresh[e] /\ dirty'[e] = dirty[e]
           /\ crossed \subseteq crossed'
           /\ \A o \in Tasks \ {t} : flush'[o] = flush[o]
           /\ t \notin Uploading => slot' = slot
           /\ ~raced' => ~raced
           /\ flush[t].at = "idle" => crossed' = crossed \/ RunsOn[t] \in crossed'
           /\ flush[t].at # "idle" => crossed' = crossed
  <1>t. /\ RunsOn[t] \in Devices /\ fresh \in [Devices -> SUBSET Rows]
        /\ dirty \in [Devices -> BOOLEAN]
    BY BackupAssumption DEF KeyInv, TypeOK
  <1>1. /\ \A o \in Tasks \ {t} : flush'[o] = flush[o]
        /\ t \notin Uploading => slot' = slot
        /\ ~raced' => ~raced
    BY FlushForms DEF Unraced
  <1> USE DEF localVars, history
  <1>2. vault' = vault /\ db' = db /\ keyring' = keyring /\ stage' = stage
    BY DEF FlushStep, StartFlush, AskOwner, Owns, Claim, UploadVault, ReadDb, UploadDb, UploadMls,
           FailFlush, Rearmed
  <1>3. /\ fresh' = fresh \/ fresh' = [fresh EXCEPT ![RunsOn[t]] = @ \ db[RunsOn[t]].wal]
        /\ dirty' = dirty \/ \E b \in BOOLEAN : dirty' = [dirty EXCEPT ![RunsOn[t]] = b]
    <2>1. fresh' = fresh \/ fresh' = [fresh EXCEPT ![RunsOn[t]] = @ \ db[RunsOn[t]].wal]
      BY DEF FlushStep, StartFlush, AskOwner, Owns, Claim, UploadVault, ReadDb, UploadDb, UploadMls,
             FailFlush, Rearmed
    <2>2. CASE FailFlush(t)
      <3>1. Rearmed(t) \in BOOLEAN
        BY DEF Rearmed
      <3>2. dirty' = [dirty EXCEPT ![RunsOn[t]] = Rearmed(t)]
        BY <2>2 DEF FailFlush
      <3>3. \E b \in BOOLEAN : dirty' = [dirty EXCEPT ![RunsOn[t]] = b]
        BY <3>1, <3>2, Zenon
      <3> QED
        BY <2>1, <3>3
    <2>3. CASE ~FailFlush(t)
      <3>1. dirty' = dirty \/ dirty' = [dirty EXCEPT ![RunsOn[t]] = FALSE]
        BY <2>3 DEF FlushStep, StartFlush, AskOwner, Owns, Claim, UploadVault, ReadDb, UploadDb,
                    UploadMls
      <3> QED
        BY <2>1, <3>1
    <2> QED
      BY <2>2, <2>3
  <1>4. \A e \in Devices : fresh'[e] \subseteq fresh[e]
    BY <1>t, <1>3
  <1>5. \A e \in Devices \ {RunsOn[t]} : fresh'[e] = fresh[e] /\ dirty'[e] = dirty[e]
    BY <1>t, <1>3
  <1>6. /\ crossed' = crossed \/ crossed' = crossed \cup {RunsOn[t]}
        /\ flush[t].at # "idle" => crossed' = crossed
    BY DEF FlushStep, StartFlush, AskOwner, Owns, Claim, UploadVault, ReadDb, UploadDb, UploadMls,
           FailFlush, Rearmed
  <1> QED
    BY <1>1, <1>2, <1>4, <1>5, <1>6

LEMMA FlushOne ==
    ASSUME KeyInv, OneBackup, NEW t \in Tasks, FlushStep(t)
    PROVE  OneBackup'
  <1>1. /\ crossed \subseteq crossed' /\ \A o \in Tasks \ {t} : flush'[o] = flush[o]
        /\ flush[t].at # "idle" => crossed' = crossed
    BY FlushLeaves
  <1>2. CASE flush[t].at # "idle"
    BY <1>1, <1>2 DEF OneBackup
  <1>3. CASE flush[t].at = "idle"
    <2>1. \A o \in TasksOf(RunsOn[t]) \ {t} :
              flush[o].at # "idle" => RunsOn[t] \in crossed'
      BY <1>3 DEF FlushStep, StartFlush, AskOwner, UploadVault, ReadDb, UploadDb, UploadMls,
                  FailFlush, Uploading, TasksOf
    <2>2. SUFFICES ASSUME NEW p \in Tasks, NEW o \in Tasks, p # o,
                          flush'[p].at # "idle", flush'[o].at # "idle",
                          RunsOn[p] = RunsOn[o], RunsOn[p] \notin crossed'
                   PROVE  FALSE
      BY DEF OneBackup
    <2>3. CASE p # t /\ o # t
      BY <1>1, <2>2, <2>3 DEF OneBackup
    <2>4. CASE p = t
      BY <1>1, <2>1, <2>2, <2>4 DEF TasksOf
    <2>5. CASE o = t
      BY <1>1, <2>1, <2>2, <2>5 DEF TasksOf
    <2> QED
      BY <2>3, <2>4, <2>5
  <1> QED
    BY <1>2, <1>3

\* Nobody else puts a backup over that of an installation with one under way.
LEMMA NobodyElsePuts ==
    ASSUME KeyInv, SlotInv, OwnKeys, OneBackup, NEW t \in Tasks, FlushStep(t), ~raced',
           NEW o \in Tasks \ {t}, o \in Uploading, RunsOn[o] \notin crossed
    PROVE  slot' = slot
  <1>1. (t \notin Uploading => slot' = slot) /\ ~raced
    BY FlushLeaves
  <1>2. CASE t \in Uploading
    <2>1. flush[t].key = flush[o].key
      BY <1>1, <1>2 DEF SlotInv, Claims
    <2>2. flush[t].at # "idle" /\ flush[o].at # "idle"
      BY <1>2 DEF Uploading
    <2> QED
      BY <2>1, <2>2, SameBackup
  <1> QED
    BY <1>1, <1>2

\* What each step of a backup makes of it.
LEMMA FlushFields ==
    ASSUME KeyInv, NEW t \in Tasks, FlushStep(t)
    PROVE  /\ UploadVault(t) => flush'[t].at = "read" /\ flush'[t].was = flush[t].was
           /\ ReadDb(t) => /\ flush'[t].at = "db" /\ flush'[t].was = flush[t].was
                           /\ flush'[t].rows = db[RunsOn[t]].main
           /\ UploadDb(t) => /\ flush'[t].at = "mls" /\ flush'[t].was = flush[t].was
                             /\ flush'[t].key = flush[t].key /\ flush'[t].rows = flush[t].rows
           /\ flush'[t].at = "db" => ReadDb(t)
           /\ flush'[t].at = "mls" => UploadDb(t)
  <1>t. flush \in [Tasks -> Flushes] /\ flush[t] \in Flushes
    BY DEF KeyInv, TypeOK
  <1>1. ASSUME NEW force \in BOOLEAN, StartFlush(t, force) PROVE flush'[t].at = "asking"
    <2>1. flush'[t] = [NoFlush EXCEPT !.at = "asking", !.key = mem[RunsOn[t]]]
      BY <1>t, <1>1 DEF StartFlush, Set
    <2> QED
      BY <2>1 DEF NoFlush
  <1>2. ASSUME AskOwner(t) PROVE flush'[t].at \in {"idle", "vault"}
    <2>1. \/ flush'[t] = NoFlush
          \/ flush'[t] = [flush[t] EXCEPT !.at = "vault", !.was = dirty[RunsOn[t]]]
      BY <1>t, <1>2 DEF AskOwner, Claim, Set
    <2>2. CASE flush'[t] = NoFlush
      BY <2>2 DEF NoFlush
    <2>3. CASE flush'[t] = [flush[t] EXCEPT !.at = "vault", !.was = dirty[RunsOn[t]]]
      BY <1>t, <2>3 DEF Flushes
    <2> QED
      BY <2>1, <2>2, <2>3
  <1>3. ASSUME UploadVault(t) PROVE flush'[t].at = "read" /\ flush'[t].was = flush[t].was
    <2>1. flush'[t] = [flush[t] EXCEPT !.at = "read"]
      BY <1>t, <1>3 DEF UploadVault, Set
    <2> QED
      BY <1>t, <2>1 DEF Flushes
  <1>4. ASSUME ReadDb(t)
        PROVE  /\ flush'[t].at = "db" /\ flush'[t].was = flush[t].was
               /\ flush'[t].rows = db[RunsOn[t]].main
    <2>1. flush'[t] = [flush[t] EXCEPT !.at = "db", !.db = db[RunsOn[t]].key,
                                       !.rows = db[RunsOn[t]].main]
      BY <1>t, <1>4 DEF ReadDb, Set
    <2> QED
      BY <1>t, <2>1 DEF Flushes
  <1>5. ASSUME UploadDb(t)
        PROVE  /\ flush'[t].at = "mls" /\ flush'[t].was = flush[t].was
               /\ flush'[t].key = flush[t].key /\ flush'[t].rows = flush[t].rows
    <2>1. flush'[t] = [flush[t] EXCEPT !.at = "mls"]
      BY <1>t, <1>5 DEF UploadDb, Set
    <2> QED
      BY <1>t, <2>1 DEF Flushes
  <1>6. ASSUME UploadMls(t) \/ FailFlush(t) PROVE flush'[t].at = "idle"
    <2>1. flush'[t] = NoFlush
      BY <1>t, <1>6 DEF UploadMls, FailFlush, Set
    <2> QED
      BY <2>1 DEF NoFlush
  <1> QED
    BY <1>1, <1>2, <1>3, <1>4, <1>5, <1>6 DEF FlushStep

LEMMA FlushUploaded ==
    ASSUME KeyInv, SlotInv, OwnKeys, SavedInv, NEW t \in Tasks, FlushStep(t)
    PROVE  Uploaded'
  <1>1. SUFFICES ASSUME NEW o \in Tasks, flush'[o].at = "mls", RunsOn[o] \notin crossed', ~raced'
                 PROVE  slot'.db = flush'[o].key /\ slot'.rows = flush'[o].rows
    BY DEF Uploaded
  <1>2. crossed \subseteq crossed' /\ ~raced /\ \A p \in Tasks \ {t} : flush'[p] = flush[p]
    BY <1>1, FlushLeaves
  <1>3. CASE o # t
    <2>1. o \in Uploading /\ flush[o].at = "mls" /\ RunsOn[o] \notin crossed
      BY <1>1, <1>2, <1>3 DEF Uploading
    <2>2. slot.db = flush[o].key /\ slot.rows = flush[o].rows
      BY <1>2, <2>1 DEF SavedInv, Uploaded
    <2>3. slot' = slot
      BY <1>1, <1>3, <2>1, NobodyElsePuts DEF SavedInv
    <2> QED
      BY <1>2, <1>3, <2>2, <2>3
  <1>4. CASE o = t
    <2>t. /\ flush[t] \in Flushes /\ slot \in Slots /\ Backing(t)
      BY DEF KeyInv, TypeOK
    <2>1. UploadDb(t) /\ flush'[t].key = flush[t].key /\ flush'[t].rows = flush[t].rows
      BY <1>1, <1>4, FlushFields
    <2>2. flush[t].at = "db" /\ slot' = [slot EXCEPT !.db = flush[t].db, !.rows = flush[t].rows]
      BY <2>1 DEF UploadDb
    <2>3. flush[t].db = flush[t].key
      BY <2>t, <2>2 DEF Backing
    <2>5. slot'.db = flush[t].db /\ slot'.rows = flush[t].rows
      BY <2>t, <2>2 DEF Slots
    <2> QED
      BY <1>4, <2>1, <2>3, <2>5
  <1> QED
    BY <1>3, <1>4

LEMMA FlushCarries ==
    ASSUME KeyInv, SavedInv, NEW t \in Tasks, FlushStep(t)
    PROVE  Carries'
  <1>1. SUFFICES ASSUME NEW o \in Tasks, flush'[o].at \in {"db", "mls"}, RunsOn[o] \notin crossed',
                        ~dirty'[RunsOn[o]]
                 PROVE  fresh'[RunsOn[o]] \subseteq flush'[o].rows
    BY DEF Carries
  <1>2. /\ crossed \subseteq crossed' /\ \A p \in Tasks \ {t} : flush'[p] = flush[p]
        /\ \A e \in Devices : fresh'[e] \subseteq fresh[e]
        /\ \A e \in Devices \ {RunsOn[t]} : fresh'[e] = fresh[e] /\ dirty'[e] = dirty[e]
    BY FlushLeaves
  <1>3. RunsOn[o] \in Devices /\ RunsOn[t] \in Devices /\ fresh \in [Devices -> SUBSET Rows]
        /\ RunsOn[o] \notin crossed
    BY BackupAssumption, <1>1, <1>2 DEF KeyInv, TypeOK
  <1>4. CASE o # t
    <2>1. flush'[o] = flush[o] /\ flush[o].at \in {"db", "mls"}
      BY <1>1, <1>2, <1>4
    <2>2. dirty'[RunsOn[o]] = dirty[RunsOn[o]]
      <3>1. CASE RunsOn[o] # RunsOn[t]
        BY <1>2, <1>3, <3>1
      <3>2. CASE RunsOn[o] = RunsOn[t]
        <4>1. flush[t].at = "idle"
          BY <1>3, <1>4, <2>1, <3>2 DEF SavedInv, OneBackup
        <4> QED
          BY <4>1 DEF FlushStep, StartFlush, AskOwner, UploadVault, ReadDb, UploadDb, UploadMls,
                      FailFlush, Uploading
      <3> QED
        BY <3>1, <3>2
    <2>3. fresh[RunsOn[o]] \subseteq flush[o].rows
      BY <1>1, <1>3, <2>1, <2>2 DEF SavedInv, Carries
    <2> QED
      BY <1>2, <1>3, <2>1, <2>3
  <1>5. CASE o = t
    <2>1. \/ ReadDb(t) /\ flush'[t].rows = db[RunsOn[t]].main
          \/ UploadDb(t) /\ flush'[t].rows = flush[t].rows
      BY <1>1, <1>5, FlushFields
    <2>2. CASE ReadDb(t) /\ flush'[t].rows = db[RunsOn[t]].main
      <3>1. fresh'[RunsOn[t]] = fresh[RunsOn[t]] \ db[RunsOn[t]].wal
        BY <1>3, <2>2 DEF ReadDb
      <3>2. fresh[RunsOn[t]] \subseteq db[RunsOn[t]].main \cup db[RunsOn[t]].wal
        BY <1>3 DEF SavedInv, FreshKept
      <3> QED
        BY <1>5, <2>2, <3>1, <3>2
    <2>3. CASE UploadDb(t) /\ flush'[t].rows = flush[t].rows
      <3>1. dirty' = dirty /\ flush[t].at = "db"
        BY <2>3 DEF UploadDb
      <3>2. fresh[RunsOn[t]] \subseteq flush[t].rows
        BY <1>1, <1>3, <1>5, <3>1 DEF SavedInv, Carries
      <3> QED
        BY <1>2, <1>3, <1>5, <2>3, <3>2
    <2> QED
      BY <2>1, <2>2, <2>3
  <1> QED
    BY <1>4, <1>5

\* The backups of one installation are no answer for another's rows, and do not take
\* the answer away.
LEMMA OthersSaved ==
    ASSUME KeyInv, SlotInv, OwnKeys, SavedInv, NEW t \in Tasks, FlushStep(t), [Next]_vars,
           NEW e \in Devices \ crossed', e # RunsOn[t], NEW r \in fresh'[e], ~raced'
    PROVE  \/ dirty'[e]
           \/ \E o \in TasksOf(e) \cap Uploading' :
                 flush'[o].was /\ (flush'[o].at \in {"vault", "read"} \/ r \in flush'[o].rows)
           \/ slot'.vault = vault'[e] /\ slot'.db = vault'[e] /\ r \in slot'.rows
           \/ slot'.vault \notin {NoKey, vault'[e]}
  <1>1. /\ vault' = vault /\ fresh'[e] = fresh[e] /\ dirty'[e] = dirty[e] /\ e \notin crossed
        /\ ~raced /\ \A p \in Tasks \ {t} : flush'[p] = flush[p]
        /\ t \notin Uploading => slot' = slot
    BY FlushLeaves
  <1>2. slot.vault # NoKey => slot'.vault = slot.vault
    BY SlotStep
  <1>3. \/ dirty[e]
        \/ \E o \in TasksOf(e) \cap Uploading :
              flush[o].was /\ (flush[o].at \in {"vault", "read"} \/ r \in flush[o].rows)
        \/ slot.vault = vault[e] /\ slot.db = vault[e] /\ r \in slot.rows
        \/ slot.vault \notin {NoKey, vault[e]}
    BY <1>1 DEF SavedInv, UnsavedIsFlagged
  <1>4. ASSUME NEW o \in TasksOf(e) \cap Uploading
        PROVE  o \in TasksOf(e) \cap Uploading' /\ flush'[o] = flush[o]
    BY <1>1 DEF TasksOf, Uploading
  <1>5. ASSUME slot.vault = vault[e] PROVE slot' = slot
    <2>1. vault[e] = keyring[e] /\ keyring[e] \in Keys /\ NoKey \notin Keys
      BY <1>1, BackupAssumption DEF SavedInv, FreshKept, Whole
    <2>2. ASSUME t \in Uploading PROVE FALSE
      <3>1. slot.vault \in {NoKey, flush[t].key}
        BY <1>1, <2>2 DEF SlotInv, Claims
      <3>2. flush[t].key = keyring[RunsOn[t]] /\ RunsOn[t] \in Devices
        BY <2>2, BackupAssumption DEF KeyInv, Backing, Whole, Uploading
      <3> QED
        BY <1>5, <2>1, <3>1, <3>2 DEF OwnKeys
    <2> QED
      BY <1>1, <2>2
  <1> QED
    BY <1>1, <1>2, <1>3, <1>4, <1>5

\* Nor does an installation's own backup lose the answer for its rows.
LEMMA OwnSaved ==
    ASSUME KeyInv, SlotInv, SavedInv, NEW t \in Tasks, FlushStep(t), [Next]_vars,
           RunsOn[t] \notin crossed', NEW r \in fresh'[RunsOn[t]], ~raced'
    PROVE  \/ dirty'[RunsOn[t]]
           \/ \E o \in TasksOf(RunsOn[t]) \cap Uploading' :
                 flush'[o].was /\ (flush'[o].at \in {"vault", "read"} \/ r \in flush'[o].rows)
           \/ slot'.vault = vault'[RunsOn[t]] /\ slot'.db = vault'[RunsOn[t]] /\ r \in slot'.rows
           \/ slot'.vault \notin {NoKey, vault'[RunsOn[t]]}
  <1> DEFINE d == RunsOn[t]
             carried(o) == flush[o].was /\ (flush[o].at \in {"vault", "read"} \/ r \in flush[o].rows)
             goal == \/ dirty'[d]
                     \/ \E o \in TasksOf(d) \cap Uploading' :
                           /\ flush'[o].was
                           /\ flush'[o].at \in {"vault", "read"} \/ r \in flush'[o].rows
                     \/ slot'.vault = vault[d] /\ slot'.db = vault[d] /\ r \in slot'.rows
                     \/ slot'.vault \notin {NoKey, vault[d]}
  <1>1. /\ vault' = vault /\ d \notin crossed /\ ~raced
        /\ \A p \in Tasks \ {t} : flush'[p] = flush[p]
        /\ t \notin Uploading => slot' = slot
    BY FlushLeaves
  <1>t. /\ d \in Devices /\ t \in TasksOf(d) /\ slot \in Slots /\ dirty \in [Devices -> BOOLEAN]
        /\ flush[t] \in Flushes /\ fresh \in [Devices -> SUBSET Rows]
        /\ Backing(t) /\ NoKey \notin Keys /\ dirty[d] \in BOOLEAN /\ flush[t].was \in BOOLEAN
    BY BackupAssumption DEF KeyInv, TypeOK, TasksOf, Flushes
  <1>f. r \in fresh[d]
    BY <1>t, FlushLeaves
  <1>w. Whole(d)
    BY <1>t, <1>f DEF SavedInv, FreshKept
  <1>2. slot.vault # NoKey => slot'.vault = slot.vault
    BY SlotStep
  <1>3. \/ dirty[d]
        \/ \E o \in TasksOf(d) \cap Uploading : carried(o)
        \/ slot.vault = vault[d] /\ slot.db = vault[d] /\ r \in slot.rows
        \/ slot.vault \notin {NoKey, vault[d]}
    BY <1>1, <1>t, <1>f DEF SavedInv, UnsavedIsFlagged
  <1>k. flush[t].at # "idle" => flush[t].key = vault[d]
    BY <1>t DEF Backing
  <1> SUFFICES goal
    BY <1>1
  <1>4. ASSUME NEW o \in TasksOf(d) \cap Uploading, o # t, carried(o) PROVE goal
    <2>1. flush'[o] = flush[o]
      BY <1>1, <1>4 DEF TasksOf
    <2>2. o \in TasksOf(d) \cap Uploading'
      BY <1>4, <2>1 DEF Uploading, TasksOf
    <2> QED
      BY <1>4, <2>1, <2>2
  <1>5. ASSUME slot.vault \notin {NoKey, vault[d]} PROVE goal
    BY <1>2, <1>5
  <1>6. ASSUME dirty' = dirty, dirty[d] PROVE goal
    BY <1>6
  <1>7. ASSUME slot' = slot,
               slot.vault = vault[d] /\ slot.db = vault[d] /\ r \in slot.rows
        PROVE  goal
    BY <1>7
  <1>c. r \in flush[t].rows \/ dirty[d] \/ flush[t].at \notin {"db", "mls"}
    BY <1>1, <1>t, <1>f DEF SavedInv, Carries
  <1>g. ASSUME t \in Uploading', flush'[t].was,
               flush'[t].at \in {"vault", "read"} \/ r \in flush'[t].rows
        PROVE  goal
    BY <1>t, <1>g
  <1> HIDE DEF d, goal
  <1>8. ASSUME NEW force \in BOOLEAN, StartFlush(t, force) PROVE goal
    <2>1. dirty' = dirty /\ slot' = slot /\ t \notin Uploading
      BY <1>8 DEF StartFlush, Uploading
    <2> QED
      BY <2>1, <1>3, <1>4, <1>5, <1>6, <1>7
  <1>9. CASE AskOwner(t)
    <2>1. slot' = slot /\ t \notin Uploading
      BY <1>9 DEF AskOwner, Claim, Uploading
    <2>2. ASSUME dirty[d] PROVE goal
      <3>1. CASE Claim(t)
        <4>1. flush'[t] = [flush[t] EXCEPT !.at = "vault", !.was = dirty[d]]
          BY <3>1 DEF Claim, Set, KeyInv, TypeOK, d
        <4>2. flush'[t].at = "vault" /\ flush'[t].was
          BY <1>t, <2>2, <4>1 DEF Flushes
        <4>3. t \in Uploading'
          BY <4>2 DEF Uploading
        <4> QED
          BY <4>2, <4>3, <1>g
      <3>2. CASE ~Owns(t)
        <4>1. flush[t].key = vault[d]
          BY <1>9, <1>k DEF AskOwner
        <4> QED
          BY <3>2, <4>1, <1>5 DEF Owns
      <3>3. CASE UNCHANGED dirty
        BY <2>2, <3>3, <1>6
      <3> QED
        BY <1>9, <3>1, <3>2, <3>3 DEF AskOwner
    <2> QED
      BY <2>1, <2>2, <1>3, <1>4, <1>5, <1>7
  <1>10. CASE UploadVault(t)
    <2>1. /\ flush[t].at = "vault" /\ dirty' = dirty
          /\ slot' = [slot EXCEPT !.vault = vault[d]]
      BY <1>10 DEF UploadVault, d
    <2>2. slot'.vault = vault[d] /\ slot'.db = slot.db /\ slot'.rows = slot.rows
      BY <1>t, <2>1 DEF Slots
    <2>3. flush'[t].at = "read" /\ flush'[t].was = flush[t].was
      BY <1>10, FlushFields
    <2>4. CASE t \in Uploading /\ carried(t)
      BY <2>3, <2>4, <1>g DEF Uploading
    <2>5. CASE slot.vault = vault[d] /\ slot.db = vault[d] /\ r \in slot.rows
      BY <2>2, <2>5 DEF goal
    <2> QED
      BY <2>1, <2>4, <2>5, <1>3, <1>4, <1>5, <1>6
  <1>11. CASE ReadDb(t)
    <2>1. flush[t].at = "read" /\ dirty' = dirty /\ slot' = slot
      BY <1>11 DEF ReadDb
    <2>2. fresh'[d] = fresh[d] \ db[d].wal
      BY <1>11, <1>t DEF ReadDb, d
    <2>3. r \in db[d].main
      BY <1>t, <2>2 DEF SavedInv, FreshKept, d
    <2>4. flush'[t].at = "db" /\ flush'[t].was = flush[t].was /\ flush'[t].rows = db[d].main
      BY <1>11, FlushFields DEF d
    <2>5. CASE t \in Uploading /\ carried(t)
      BY <2>3, <2>4, <2>5, <1>g DEF Uploading
    <2> QED
      BY <2>1, <2>5, <1>3, <1>4, <1>5, <1>6, <1>7
  <1>12. CASE UploadDb(t)
    <2>1. /\ flush[t].at = "db" /\ dirty' = dirty
          /\ slot' = [slot EXCEPT !.db = flush[t].db, !.rows = flush[t].rows]
      BY <1>12 DEF UploadDb
    <2>2. slot'.vault = slot.vault /\ slot'.db = flush[t].db /\ slot'.rows = flush[t].rows
      BY <1>t, <2>1 DEF Slots
    <2>3. flush[t].db = vault[d]
      BY <1>t, <1>k, <2>1 DEF Backing
    <2>4. /\ flush'[t].at = "mls" /\ flush'[t].was = flush[t].was
          /\ flush'[t].rows = flush[t].rows
      BY <1>12, FlushFields
    <2>5. CASE t \in Uploading /\ carried(t)
      BY <2>1, <2>4, <2>5, <1>g DEF Uploading
    <2>6. CASE slot.vault = vault[d] /\ slot.db = vault[d] /\ r \in slot.rows
      <3>1. CASE dirty[d]
        BY <2>1, <3>1, <1>6
      <3>2. CASE ~dirty[d]
        BY <2>1, <2>2, <2>3, <2>6, <3>2, <1>c DEF goal
      <3> QED
        BY <3>1, <3>2
    <2> QED
      BY <2>1, <2>5, <2>6, <1>3, <1>4, <1>5, <1>6
  <1>13. CASE UploadMls(t)
    <2>1. /\ flush[t].at = "mls" /\ dirty' = dirty
          /\ slot' \in {slot, [slot EXCEPT !.mls = flush[t].key]}
      BY <1>13 DEF UploadMls
    <2>2. slot'.vault = slot.vault /\ slot'.db = slot.db /\ slot'.rows = slot.rows
      BY <1>t, <2>1 DEF Slots
    <2>3. CASE t \in Uploading /\ carried(t)
      <3>1. slot.db = flush[t].key /\ slot.rows = flush[t].rows
        BY <1>1, <2>1 DEF SavedInv, Uploaded, d
      <3>2. slot.vault = flush[t].key
        BY <1>1, <2>1, <2>3 DEF SlotInv, Claims
      <3>3. r \in flush[t].rows /\ flush[t].key = vault[d]
        BY <2>1, <2>3, <1>k
      <3> QED
        BY <2>2, <3>1, <3>2, <3>3 DEF goal
    <2>4. CASE slot.vault = vault[d] /\ slot.db = vault[d] /\ r \in slot.rows
      BY <2>2, <2>4 DEF goal
    <2> QED
      BY <2>1, <2>3, <2>4, <1>3, <1>4, <1>5, <1>6
  <1>14. CASE FailFlush(t)
    <2>1. dirty' = [dirty EXCEPT ![d] = Rearmed(t)]
      BY <1>14 DEF FailFlush, d
    <2>r. Rearmed(t) <=> dirty[d] \/ flush[t].was
      BY DEF Rearmed, d
    <2>2. ASSUME dirty[d] \/ flush[t].was PROVE goal
      <3>1. dirty'[d] = Rearmed(t)
        BY <1>t, <2>1
      <3> QED
        BY <2>2, <2>r, <3>1 DEF goal
    <2>3. CASE slot.vault = vault[d] /\ slot.db = vault[d] /\ r \in slot.rows
      <3>1. CASE UNCHANGED slot
        BY <2>3, <3>1, <1>7
      <3>2. CASE slot' = [slot EXCEPT !.vault = vault[d]]
        <4>1. slot'.vault = vault[d] /\ slot'.db = slot.db /\ slot'.rows = slot.rows
          BY <1>t, <3>2 DEF Slots
        <4> QED
          BY <2>3, <4>1 DEF goal
      <3>3. CASE /\ flush[t].at = "db"
                 /\ slot' = [slot EXCEPT !.db = flush[t].db, !.rows = flush[t].rows]
        <4>1. slot'.vault = slot.vault /\ slot'.db = flush[t].db /\ slot'.rows = flush[t].rows
          BY <1>t, <3>3 DEF Slots
        <4>2. flush[t].db = vault[d]
          BY <1>t, <1>k, <3>3 DEF Backing
        <4>3. CASE dirty[d]
          BY <4>3, <2>2
        <4>4. CASE ~dirty[d]
          BY <2>3, <3>3, <4>1, <4>2, <4>4, <1>c DEF goal
        <4> QED
          BY <4>3, <4>4
      <3>4. CASE slot' = [slot EXCEPT !.mls = flush[t].key]
        <4>1. slot'.vault = slot.vault /\ slot'.db = slot.db /\ slot'.rows = slot.rows
          BY <1>t, <3>4 DEF Slots
        <4> QED
          BY <2>3, <4>1 DEF goal
      <3> QED
        BY <1>14, <3>1, <3>2, <3>3, <3>4 DEF FailFlush, d
    <2> QED
      BY <2>2, <2>3, <1>3, <1>4, <1>5
  <1> QED
    BY <1>8, <1>9, <1>10, <1>11, <1>12, <1>13, <1>14 DEF FlushStep

LEMMA FlushSaves ==
    ASSUME KeyInv, SlotInv, OwnKeys, SavedInv, NEW t \in Tasks, FlushStep(t)
    PROVE  SavedInv'
  <1>n. [Next]_vars
    BY DEF Next
  <1>1. OneBackup' /\ Carries' /\ Uploaded'
    BY FlushOne, FlushCarries, FlushUploaded DEF SavedInv
  <1>2. FreshKept'
    <2>1. /\ vault' = vault /\ db' = db /\ keyring' = keyring /\ stage' = stage
          /\ \A e \in Devices : fresh'[e] \subseteq fresh[e]
      BY FlushLeaves
    <2> QED
      BY <2>1 DEF SavedInv, FreshKept, Whole
  <1>3. UnsavedIsFlagged'
    <2>1. SUFFICES ASSUME NEW e \in Devices \ crossed', NEW r \in fresh'[e], ~raced'
                   PROVE  \/ dirty'[e]
                          \/ \E o \in TasksOf(e) \cap Uploading' :
                                /\ flush'[o].was
                                /\ flush'[o].at \in {"vault", "read"} \/ r \in flush'[o].rows
                          \/ slot'.vault = vault'[e] /\ slot'.db = vault'[e] /\ r \in slot'.rows
                          \/ slot'.vault \notin {NoKey, vault'[e]}
      BY DEF UnsavedIsFlagged, TasksOf
    <2>2. CASE e = RunsOn[t]
      BY <1>n, <2>1, <2>2, OwnSaved
    <2>3. CASE e # RunsOn[t]
      BY <1>n, <2>1, <2>3, OthersSaved
    <2> QED
      BY <2>2, <2>3
  <1> QED
    BY <1>1, <1>2, <1>3 DEF SavedInv

LEMMA SavedStep == KeyInv /\ SlotInv /\ OwnKeys /\ SavedInv /\ [Next]_vars => SavedInv'
  <1> SUFFICES ASSUME KeyInv, SlotInv, OwnKeys, SavedInv, [Next]_vars PROVE SavedInv'
    OBVIOUS
  <1>1. ASSUME NEW d \in Devices, LaunchStep(d) PROVE SavedInv'
    BY <1>1, LaunchSaves
  <1>2. ASSUME NEW d \in Devices,
               \/ \E r \in Rows : StoreRow(d, r)
               \/ Checkpoint(d) \/ SignOut(d) \/ Stop(d) \/ LoseFiles(d)
        PROVE  SavedInv'
    BY <1>2, RunningSaves
  <1>3. ASSUME NEW t \in Tasks, FlushStep(t) PROVE SavedInv'
    BY <1>3, FlushSaves
  <1>4. CASE UNCHANGED vars
    <2>1. /\ slot' = slot /\ raced' = raced /\ crossed' = crossed /\ flush' = flush
          /\ vault' = vault /\ db' = db /\ keyring' = keyring /\ stage' = stage
          /\ fresh' = fresh /\ dirty' = dirty
      BY <1>4 DEF vars, localVars, history
    <2>2. FreshKept'
      BY <2>1 DEF SavedInv, FreshKept, Whole
    <2> QED
      BY <2>1, <2>2, SavedQuietly
  <1> QED
    BY <1>1, <1>2, <1>3, <1>4 DEF Next

LEMMA InitSaved == Init => OwnKeys /\ SavedInv
  <1> SUFFICES ASSUME Init PROVE OwnKeys /\ SavedInv
    OBVIOUS
  <1>1. OwnKeys
    BY DEF Init, OwnKeys
  <1>2. FreshKept /\ UnsavedIsFlagged
    BY DEF Init, FreshKept, UnsavedIsFlagged
  <1>3. OneBackup /\ Carries /\ Uploaded
    BY DEF Init, NoFlush, OneBackup, Carries, Uploaded
  <1> QED
    BY <1>1, <1>2, <1>3 DEF SavedInv

\* The dirty flag answers for every row stored since the start that no backup has
\* missed in the WAL, whatever fails, stops or signs in between.
THEOREM UnsavedCorrect == Spec => []UnsavedIsFlagged
  <1>1. KeyInv /\ SlotInv /\ OwnKeys /\ SavedInv /\ [Next]_vars => OwnKeys' /\ SavedInv'
    BY OwnKeysStep, SavedStep
  <1>2. SavedInv => UnsavedIsFlagged
    BY DEF SavedInv
  <1> QED
    BY InitSaved, KeyInvariant, SlotInvariant, <1>1, <1>2, PTL DEF Spec
=============================================================================

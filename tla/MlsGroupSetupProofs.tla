------------------------- MODULE MlsGroupSetupProofs -------------------------
(***************************************************************************)
(* What MlsGroupSetup guarantees for every number of members, calls, groups *)
(* and faults: a registered group is in its builder's key store, and a     *)
(* second group needs two registrations at once.  With one send at a time  *)
(* per device: a discarded group is never used, and a group in use has     *)
(* been announced.                                                         *)
(***************************************************************************)
EXTENDS MlsGroupSetup, FiniteSetTheorems, SequenceTheorems, TLAPS

(***************************************************************************)
(* Type correctness                                                        *)
(***************************************************************************)
LEMMA EndCallType ==
    ASSUME TypeOK, NEW u \in Users, NEW k \in Callers, EndCall(u, k)
    PROVE  call' \in [Users -> [Callers -> Calls]]
<1>1. NoCall \in Calls
  BY DEF NoCall, Calls, Stages
<1>. QED  BY <1>1 DEF EndCall, TypeOK

LEMMA SetCallType ==
    ASSUME TypeOK, NEW u \in Users, NEW k \in Callers, NEW stage \in Stages,
           NEW G \in SUBSET Groups, NEW W \in SUBSET Groups, SetCall(u, k, stage, G, W)
    PROVE  call' \in [Users -> [Callers -> Calls]]
<1>1. call[u][k].n \in Nat
  BY DEF TypeOK, Calls
<1>2. [at |-> stage, n |-> call[u][k].n, gid |-> G, welcome |-> W] \in Calls
  BY <1>1 DEF Calls
<1>. QED  BY <1>2 DEF SetCall, TypeOK

LEMMA CallFields ==
    ASSUME TypeOK, NEW u \in Users, NEW k \in Callers
    PROVE  /\ call[u][k].gid \subseteq Groups
           /\ call[u][k].welcome \subseteq Groups
           /\ call[u][k].n \in Nat
BY DEF TypeOK, Calls

LEMMA RowFields ==
    ASSUME TypeOK, NEW i \in 1..Len(table)
    PROVE  table[i] \in Rows
BY ElementOfSeq DEF TypeOK

LEMMA SetStateType ==
    ASSUME TypeOK, NEW u \in Users, NEW M \in SUBSET Groups, NEW H \in SUBSET Groups,
           SetState(u, M, H)
    PROVE  mapping' \in [Users -> SUBSET Groups] /\ held' \in [Users -> SUBSET Groups]
BY DEF SetState, TypeOK

LEMMA SaveType ==
    ASSUME TypeOK, NEW u \in Users, NEW M \in SUBSET Groups, NEW H \in SUBSET Groups,
           Save(u, M, H)
    PROVE  saved' \in [Users -> [mapping : SUBSET Groups, held : SUBSET Groups]]
BY DEF Save, TypeOK

LEMMA FaultType == ASSUME TypeOK, Fault PROVE faults' \in Nat
BY DEF Fault, TypeOK

\* A save that is cut short adds groups to one key store at most.
LEMMA HalfSaved ==
    ASSUME TypeOK, NEW u \in Users, NEW H \in SUBSET Groups,
           saved' \in {saved, [saved EXCEPT ![u].held = @ \cup H]}
    PROVE  /\ saved' \in [Users -> [mapping : SUBSET Groups, held : SUBSET Groups]]
           /\ \A v \in Users : /\ saved'[v].mapping = saved[v].mapping
                               /\ saved[v].held \subseteq saved'[v].held
                               /\ saved'[v].held \subseteq saved[v].held \cup H
                               /\ v # u => saved'[v] = saved[v]
<1>1. saved[u] \in [mapping : SUBSET Groups, held : SUBSET Groups]
  BY DEF TypeOK
<1>2. CASE saved' = saved
  BY <1>2 DEF TypeOK
<1>3. CASE saved' = [saved EXCEPT ![u].held = @ \cup H]
  <2>1. saved' = [saved EXCEPT ![u] = [saved[u] EXCEPT !.held = saved[u].held \cup H]]
    BY <1>3
  <2>2. PICK s : s = [saved[u] EXCEPT !.held = saved[u].held \cup H]
    OBVIOUS
  <2>3. /\ s \in [mapping : SUBSET Groups, held : SUBSET Groups]
        /\ s.mapping = saved[u].mapping /\ s.held = saved[u].held \cup H
    BY <1>1, <2>2
  <2>4. saved' = [saved EXCEPT ![u] = s]
    BY <2>1, <2>2
  <2>5. saved' \in [Users -> [mapping : SUBSET Groups, held : SUBSET Groups]]
    BY <2>3, <2>4 DEF TypeOK
  <2>6. saved'[u] = s /\ \A v \in Users : v # u => saved'[v] = saved[v]
    BY <2>4 DEF TypeOK
  <2>. QED  BY <2>3, <2>5, <2>6
<1>. QED  BY <1>2, <1>3

LEMMA SaveFailsAdds ==
    ASSUME TypeOK, NEW u \in Users, NEW H \in SUBSET Groups, SaveFails(u, H)
    PROVE  \A v \in Users : /\ saved'[v].held \subseteq saved[v].held \cup H
                            /\ v # u => saved'[v] = saved[v]
<1>1. saved' \in {saved, [saved EXCEPT ![u].held = @ \cup H]}
  BY DEF SaveFails
<1>2. \A v \in Users : /\ saved'[v].mapping = saved[v].mapping
                       /\ saved[v].held \subseteq saved'[v].held
                       /\ saved'[v].held \subseteq saved[v].held \cup H
                       /\ v # u => saved'[v] = saved[v]
  BY <1>1, HalfSaved
<1>. QED  BY <1>2

LEMMA SaveFailsType ==
    ASSUME TypeOK, NEW u \in Users, NEW H \in SUBSET Groups, SaveFails(u, H)
    PROVE  /\ saved' \in [Users -> [mapping : SUBSET Groups, held : SUBSET Groups]]
           /\ faults' \in Nat
BY HalfSaved, FaultType DEF SaveFails

LEMMA NewGroupType ==
    ASSUME TypeOK, NEW u \in Users, built[u] < MaxGroups
    PROVE  NewGroup(u) \in Groups /\ built[u] + 1 \in 0..MaxGroups
<1>1. built[u] \in Nat /\ MaxGroups \in Nat
  BY SetupAssumption DEF TypeOK
<1>2. built[u] + 1 \in 1..MaxGroups
  BY <1>1
<1>3. built[u] + 1 \in 0..MaxGroups
  BY <1>1
<1>. QED  BY <1>2, <1>3 DEF NewGroup, Groups

LEMMA OrphanType ==
    ASSUME NEW S, NEW u, NEW K,
           S \subseteq [gid : Groups, by : Callers \cup {"gone"}, checked : BOOLEAN]
    PROVE  Orphan(S, u, K) \subseteq [gid : Groups, by : Callers \cup {"gone"}, checked : BOOLEAN]
BY DEF Orphan

\* What ProcessWelcomes does, without the fields of rows.
LEMMA WelcomeEffect ==
    ASSUME TypeOK, NEW u \in Users, NEW I, I \subseteq 1..Len(table), ProcessWelcomes(u, I)
    PROVE  \/ UNCHANGED mlsVars /\ UNCHANGED faults
           \/ \E g \in SUBSET Groups :
                 /\ \E i \in I : g = table[i].welcome /\ table[i].from # u
                 /\ mapping[u] = {}
                 /\ SetState(u, g, held[u] \cup g)
                 /\ \/ Save(u, g, held[u] \cup g) /\ UNCHANGED faults
                    \/ SaveFails(u, held[u] \cup g)
<1>1. CASE mapping[u] # {} \/ FirstWelcome(u, I) = {}
  BY <1>1 DEF ProcessWelcomes
<1>2. CASE ~(mapping[u] # {} \/ FirstWelcome(u, I) = {})
  <2>1. PICK i \in FirstWelcome(u, I) :
              /\ SetState(u, table[i].welcome, held[u] \cup table[i].welcome)
              /\ \/ Save(u, table[i].welcome, held[u] \cup table[i].welcome) /\ UNCHANGED faults
                 \/ SaveFails(u, held[u] \cup table[i].welcome)
    BY <1>2 DEF ProcessWelcomes
  <2>2. i \in I /\ table[i].from # u
    BY DEF FirstWelcome, Opens
  <2>3. table[i].welcome \in SUBSET Groups
    BY <2>2, RowFields DEF Rows
  <2>. QED  BY <1>2, <2>1, <2>2, <2>3
<1>. QED  BY <1>1, <1>2

LEMMA WelcomeType ==
    ASSUME TypeOK, NEW u \in Users, NEW I, I \subseteq 1..Len(table), ProcessWelcomes(u, I)
    PROVE  /\ mapping' \in [Users -> SUBSET Groups]
           /\ held' \in [Users -> SUBSET Groups]
           /\ saved' \in [Users -> [mapping : SUBSET Groups, held : SUBSET Groups]]
           /\ faults' \in Nat
<1>1. CASE UNCHANGED mlsVars /\ UNCHANGED faults
  BY <1>1 DEF mlsVars, TypeOK
<1>2. ASSUME NEW g \in SUBSET Groups,
             SetState(u, g, held[u] \cup g),
             \/ Save(u, g, held[u] \cup g) /\ UNCHANGED faults
             \/ SaveFails(u, held[u] \cup g)
      PROVE  /\ mapping' \in [Users -> SUBSET Groups]
             /\ held' \in [Users -> SUBSET Groups]
             /\ saved' \in [Users -> [mapping : SUBSET Groups, held : SUBSET Groups]]
             /\ faults' \in Nat
  <2>1. held[u] \cup g \in SUBSET Groups
    BY DEF TypeOK
  <2>2. mapping' \in [Users -> SUBSET Groups] /\ held' \in [Users -> SUBSET Groups]
    BY <1>2, <2>1, SetStateType
  <2>3. saved' \in [Users -> [mapping : SUBSET Groups, held : SUBSET Groups]]
    BY <1>2, <2>1, SaveType, SaveFailsType
  <2>4. faults' \in Nat
    BY <1>2, <2>1, SaveFailsType DEF TypeOK
  <2>. QED  BY <2>2, <2>3, <2>4
<1>. QED  BY <1>1, <1>2, WelcomeEffect

LEMMA InitType == Init => TypeOK
<1> SUFFICES ASSUME Init PROVE TypeOK
  OBVIOUS
<1>1. call \in [Users -> [Callers -> Calls]]
  BY DEF Init, NoCall, Calls, Stages
<1>2. built \in [Users -> 0..MaxGroups]
  BY SetupAssumption DEF Init
<1>3. saved \in [Users -> [mapping : SUBSET Groups, held : SUBSET Groups]]
  BY DEF Init
<1>4. table \in Seq(Rows)
  BY EmptySeq DEF Init
<1>5. local \in [Users -> SUBSET (1..Len(table))] /\ page \in [Users -> SUBSET (1..Len(table))]
  BY DEF Init
<1>6. /\ mapping \in [Users -> SUBSET Groups] /\ held \in [Users -> SUBSET Groups]
      /\ handed \in [Users -> SUBSET Groups] /\ started \in [Users -> Nat]
      /\ joining \in [Users -> BOOLEAN]
  BY DEF Init
<1>. QED  BY <1>1, <1>2, <1>3, <1>4, <1>5, <1>6 DEF Init, TypeOK

LEMMA BeginType ==
    ASSUME TypeOK, NEW u \in Users, NEW k \in Callers, Begin(u, k)
    PROVE  TypeOK'
<1>1. started[u] \in Nat /\ started' \in [Users -> Nat]
  BY DEF Begin, TypeOK
<1>2. [at |-> IF mapping[u] = {} THEN "claim" ELSE "ready",
       n |-> started[u] + 1, gid |-> {}, welcome |-> {}] \in Calls
  BY <1>1 DEF Calls, Stages
<1>3. call' \in [Users -> [Callers -> Calls]]
  BY <1>2 DEF Begin, TypeOK
<1>. QED  BY <1>1, <1>3 DEF Begin, TypeOK, serverVars, mlsVars, readVars

LEMMA ClaimFailsType ==
    ASSUME TypeOK, NEW u \in Users, NEW k \in Callers, ClaimFails(u, k)
    PROVE  TypeOK'
<1>1. call' \in [Users -> [Callers -> Calls]] /\ faults' \in Nat
  BY EndCallType, FaultType DEF ClaimFails
<1>. QED  BY <1>1 DEF ClaimFails, TypeOK, serverVars, mlsVars, readVars

LEMMA BuildType ==
    ASSUME TypeOK, NEW u \in Users, NEW k \in Callers, Build(u, k)
    PROVE  TypeOK'
<1>1. NewGroup(u) \in Groups /\ built' \in [Users -> 0..MaxGroups]
  <2>1. NewGroup(u) \in Groups /\ built[u] + 1 \in 0..MaxGroups
    BY NewGroupType DEF Build
  <2>. QED  BY <2>1 DEF Build, TypeOK
<1>2. {NewGroup(u)} \in SUBSET Groups /\ held[u] \cup {NewGroup(u)} \in SUBSET Groups
  BY <1>1 DEF TypeOK
<1>3. mapping' \in [Users -> SUBSET Groups] /\ held' \in [Users -> SUBSET Groups]
  BY <1>2, SetStateType DEF Build
<1>4. saved' \in [Users -> [mapping : SUBSET Groups, held : SUBSET Groups]]
  BY <1>2, SaveType DEF Build
<1>5. call' \in [Users -> [Callers -> Calls]]
  <2>1. "register" \in Stages /\ SetCall(u, k, "register", {NewGroup(u)}, {})
    BY DEF Stages, Build
  <2>2. {} \in SUBSET Groups
    OBVIOUS
  <2>. QED  BY <1>2, <2>1, <2>2, SetCallType
<1>6. registering' \subseteq [gid : Groups, by : Callers \cup {"gone"}, checked : BOOLEAN]
  <2>1. [gid |-> NewGroup(u), by |-> k, checked |-> FALSE]
            \in [gid : Groups, by : Callers \cup {"gone"}, checked : BOOLEAN]
    BY <1>1
  <2>. QED  BY <2>1 DEF Build, TypeOK
<1>7. overlap' \in BOOLEAN
  BY DEF Build, TypeOK
<1>. QED  BY <1>1, <1>3, <1>4, <1>5, <1>6, <1>7 DEF Build, TypeOK, readVars

LEMMA BuildUnsavedType ==
    ASSUME TypeOK, NEW u \in Users, NEW k \in Callers, BuildUnsaved(u, k)
    PROVE  TypeOK'
<1>1. NewGroup(u) \in Groups /\ built' \in [Users -> 0..MaxGroups]
  <2>1. NewGroup(u) \in Groups /\ built[u] + 1 \in 0..MaxGroups
    BY NewGroupType DEF BuildUnsaved
  <2>. QED  BY <2>1 DEF BuildUnsaved, TypeOK
<1>2. {NewGroup(u)} \in SUBSET Groups /\ held[u] \cup {NewGroup(u)} \in SUBSET Groups
  BY <1>1 DEF TypeOK
<1>3. mapping' \in [Users -> SUBSET Groups] /\ held' \in [Users -> SUBSET Groups]
  BY <1>2, SetStateType DEF BuildUnsaved
<1>4. call' \in [Users -> [Callers -> Calls]]
  BY EndCallType DEF BuildUnsaved
<1>5. /\ saved' \in [Users -> [mapping : SUBSET Groups, held : SUBSET Groups]]
      /\ faults' \in Nat
  BY <1>2, SaveFailsType DEF BuildUnsaved
<1>. QED  BY <1>1, <1>3, <1>4, <1>5 DEF BuildUnsaved, TypeOK, serverVars, readVars

LEMMA RegisterFailsType ==
    ASSUME TypeOK, NEW u \in Users, NEW k \in Callers, NEW delivered \in BOOLEAN,
           RegisterFails(u, k, delivered)
    PROVE  TypeOK'
<1>1. call' \in [Users -> [Callers -> Calls]] /\ faults' \in Nat
  BY EndCallType, FaultType DEF RegisterFails
<1>2. registering' \subseteq [gid : Groups, by : Callers \cup {"gone"}, checked : BOOLEAN]
  BY OrphanType DEF RegisterFails, TypeOK
<1>3. answers' \subseteq [gid : Groups, by : Callers, ok : BOOLEAN]
  BY DEF RegisterFails, TypeOK
<1>. QED  BY <1>1, <1>2, <1>3 DEF RegisterFails, TypeOK, mlsVars, readVars

LEMMA RegisteredType ==
    ASSUME TypeOK, NEW u \in Users, NEW k \in Callers, Registered(u, k)
    PROVE  TypeOK'
<1>1. call' \in [Users -> [Callers -> Calls]]
  <2>1. "commit" \in Stages /\ SetCall(u, k, "commit", call[u][k].gid, {})
    BY DEF Registered, Stages
  <2>2. {} \in SUBSET Groups /\ call[u][k].gid \in SUBSET Groups
    BY CallFields
  <2>. QED  BY <2>1, <2>2, SetCallType
<1>2. answers' \subseteq [gid : Groups, by : Callers, ok : BOOLEAN]
  BY DEF Registered, TypeOK
<1>. QED  BY <1>1, <1>2 DEF Registered, TypeOK, mlsVars, readVars

LEMMA RefusedType ==
    ASSUME TypeOK, NEW u \in Users, NEW k \in Callers, Refused(u, k)
    PROVE  TypeOK'
<1>1. {} \in SUBSET Groups /\ held[u] \ call[u][k].gid \in SUBSET Groups
  BY DEF TypeOK
<1>2. SetState(u, {}, held[u] \ call[u][k].gid)
  BY DEF Refused, AfterRefusal
<1>3. \/ Save(u, {}, held[u] \ call[u][k].gid) /\ SetCall(u, k, "history", {}, {}) /\ UNCHANGED faults
      \/ SaveFails(u, held[u] \ call[u][k].gid) /\ EndCall(u, k)
  BY DEF Refused, AfterRefusal
<1>4. mapping' \in [Users -> SUBSET Groups] /\ held' \in [Users -> SUBSET Groups]
  BY <1>1, <1>2, SetStateType
<1>5. saved' \in [Users -> [mapping : SUBSET Groups, held : SUBSET Groups]]
  BY <1>1, <1>3, SaveType, SaveFailsType
<1>6. call' \in [Users -> [Callers -> Calls]]
  <2>1. "history" \in Stages
    BY DEF Stages
  <2>. QED  BY <1>1, <1>3, <2>1, SetCallType, EndCallType
<1>7. faults' \in Nat
  BY <1>1, <1>3, SaveFailsType DEF TypeOK
<1>8. answers' \subseteq [gid : Groups, by : Callers, ok : BOOLEAN] /\ discarded' \subseteq Groups
  BY CallFields DEF Refused, TypeOK
<1>. QED  BY <1>4, <1>5, <1>6, <1>7, <1>8 DEF Refused, TypeOK, readVars

LEMMA JoinFromHistoryType ==
    ASSUME TypeOK, NEW u \in Users, NEW k \in Callers, JoinFromHistory(u, k)
    PROVE  TypeOK'
<1>1. ProcessWelcomes(u, 1..Len(table))
  BY DEF JoinFromHistory
<1>2. call' \in [Users -> [Callers -> Calls]]
  <2>1. "ready" \in Stages /\ {} \in SUBSET Groups
    BY DEF Stages
  <2>2. SetCall(u, k, "ready", {}, {}) \/ EndCall(u, k)
    BY DEF JoinFromHistory
  <2>. QED  BY <2>1, <2>2, SetCallType, EndCallType
<1>. QED  BY <1>1, <1>2, WelcomeType DEF JoinFromHistory, TypeOK, serverVars, readVars

LEMMA HistoryFailsType ==
    ASSUME TypeOK, NEW u \in Users, NEW k \in Callers, HistoryFails(u, k)
    PROVE  TypeOK'
<1>1. call' \in [Users -> [Callers -> Calls]] /\ faults' \in Nat
  BY EndCallType, FaultType DEF HistoryFails
<1>. QED  BY <1>1 DEF HistoryFails, TypeOK, serverVars, mlsVars, readVars

LEMMA CommitType ==
    ASSUME TypeOK, NEW u \in Users, NEW k \in Callers, Commit(u, k)
    PROVE  TypeOK'
<1>1. call' \in [Users -> [Callers -> Calls]]
  <2>1. "ready" \in Stages /\ SetCall(u, k, "ready", {}, call[u][k].gid)
    BY DEF Commit, Stages, WelcomeOf
  <2>2. {} \in SUBSET Groups /\ call[u][k].gid \in SUBSET Groups
    BY CallFields
  <2>. QED  BY <2>1, <2>2, SetCallType
<1>2. queue' \subseteq [to : Users, gid : Groups]
  BY CallFields DEF Commit, TypeOK
<1>. QED  BY <1>1, <1>2 DEF Commit, TypeOK, serverVars, mlsVars, readVars

LEMMA CommitFailsType ==
    ASSUME TypeOK, NEW u \in Users, NEW k \in Callers, NEW delivered \in BOOLEAN,
           CommitFails(u, k, delivered)
    PROVE  TypeOK'
<1>1. call' \in [Users -> [Callers -> Calls]] /\ faults' \in Nat
  BY EndCallType, FaultType DEF CommitFails
<1>2. queue' \subseteq [to : Users, gid : Groups]
  BY CallFields DEF CommitFails, TypeOK
<1>. QED  BY <1>1, <1>2 DEF CommitFails, TypeOK, serverVars, mlsVars, readVars

LEMMA EncryptType ==
    ASSUME TypeOK, NEW u \in Users, NEW k \in Callers, Encrypt(u, k)
    PROVE  TypeOK'
<1>1. call' \in [Users -> [Callers -> Calls]]
  <2>1. "posting" \in Stages /\ {} \in SUBSET Groups
    BY DEF Stages
  <2>2. SetCall(u, k, "posting", {}, {}) \/ EndCall(u, k)
    BY DEF Encrypt
  <2>. QED  BY <2>1, <2>2, SetCallType, EndCallType
<1>2. outbox' \subseteq Rows
  <2>1. mapping[u] \cap held[u] \subseteq Groups
    BY DEF TypeOK
  <2>2. [from : {u}, by : {k}, n : {call[u][k].n}, gid : mapping[u] \cap held[u],
         welcome : {call[u][k].welcome}] \subseteq Rows
    BY <2>1, CallFields DEF Rows
  <2>. QED  BY <2>2 DEF Encrypt, TypeOK
<1>3. saved' \in [Users -> [mapping : SUBSET Groups, held : SUBSET Groups]]
  <2>1. mapping[u] \in SUBSET Groups /\ held[u] \in SUBSET Groups
    BY DEF TypeOK
  <2>2. UNCHANGED saved \/ Save(u, mapping[u], held[u])
    BY DEF Encrypt
  <2>. QED  BY <2>1, <2>2, SaveType DEF TypeOK
<1>. QED  BY <1>1, <1>2, <1>3 DEF Encrypt, TypeOK, serverVars, readVars

LEMMA PostFailsType ==
    ASSUME TypeOK, NEW u \in Users, NEW k \in Callers, PostFails(u, k)
    PROVE  TypeOK'
<1>1. call' \in [Users -> [Callers -> Calls]] /\ faults' \in Nat
  BY EndCallType, FaultType DEF PostFails
<1>. QED  BY <1>1 DEF PostFails, TypeOK, serverVars, mlsVars, readVars

LEMMA SendLostType ==
    ASSUME TypeOK, NEW u \in Users, NEW k \in Callers, SendLost(u, k)
    PROVE  TypeOK'
<1>1. call' \in [Users -> [Callers -> Calls]]
  BY EndCallType DEF SendLost
<1>2. /\ saved' \in [Users -> [mapping : SUBSET Groups, held : SUBSET Groups]]
      /\ faults' \in Nat
  <2>1. mapping[u] \in SUBSET Groups /\ held[u] \in SUBSET Groups
    BY DEF TypeOK
  <2>2. SaveFails(u, held[u]) \/ (Save(u, mapping[u], held[u]) /\ Fault)
    BY DEF SendLost
  <2>. QED  BY <2>1, <2>2, SaveType, SaveFailsType, FaultType
<1>. QED  BY <1>1, <1>2 DEF SendLost, TypeOK, serverVars, readVars

LEMMA SendStepType ==
    ASSUME TypeOK, NEW u \in Users, NEW k \in Callers, SendStep(u, k)
    PROVE  TypeOK'
BY BeginType, ClaimFailsType, BuildType, BuildUnsavedType, RegisterFailsType, RegisteredType,
   RefusedType, JoinFromHistoryType, HistoryFailsType, CommitType, CommitFailsType, EncryptType,
   PostFailsType, SendLostType DEF SendStep

LEMMA AcceptType ==
    ASSUME TypeOK, NEW m \in outbox, Accept(m)
    PROVE  TypeOK'
<1>1. m \in Rows /\ m.from \in Users /\ m.by \in Callers
  BY DEF TypeOK, Rows
<1>2. table' \in Seq(Rows) /\ Len(table) \in Nat
  BY <1>1, AppendProperties, LenProperties DEF Accept, TypeOK
<1>3. local' \in [Users -> SUBSET (1..Len(table'))] /\ page' \in [Users -> SUBSET (1..Len(table'))]
  <2>1. Len(table') = Len(table) + 1
    BY <1>1, AppendProperties DEF Accept, TypeOK
  <2>2. 1..Len(table) \subseteq 1..Len(table') /\ Len(table) + 1 \in 1..Len(table')
    BY <1>2, <2>1
  <2>. QED  BY <1>1, <2>2 DEF Accept, TypeOK
<1>4. call' \in [Users -> [Callers -> Calls]]
  BY <1>1, EndCallType DEF Accept, TypeOK
<1>5. outbox' \subseteq Rows
  BY DEF Accept, TypeOK
<1>. QED  BY <1>2, <1>3, <1>4, <1>5 DEF Accept, TypeOK, serverVars, mlsVars

LEMMA AnswerType ==
    ASSUME NEW r \in [gid : Groups, by : Callers \cup {"gone"}, checked : BOOLEAN],
           NEW ok \in BOOLEAN
    PROVE  Answer(r, ok) \subseteq [gid : Groups, by : Callers, ok : BOOLEAN]
BY DEF Answer

LEMMA RegisterCheckType ==
    ASSUME TypeOK, NEW r \in registering, RegisterCheck(r)
    PROVE  TypeOK'
<1>1. r \in [gid : Groups, by : Callers \cup {"gone"}, checked : BOOLEAN]
  BY DEF TypeOK
<1>2. [r EXCEPT !.checked = TRUE] \in [gid : Groups, by : Callers \cup {"gone"}, checked : BOOLEAN]
  BY <1>1
<1>3. registering' \subseteq [gid : Groups, by : Callers \cup {"gone"}, checked : BOOLEAN]
  BY <1>2 DEF RegisterCheck, TypeOK
<1>4. answers' \subseteq [gid : Groups, by : Callers, ok : BOOLEAN]
  BY <1>1, AnswerType DEF RegisterCheck, TypeOK
<1>. QED  BY <1>3, <1>4 DEF RegisterCheck, TypeOK, mlsVars, readVars

LEMMA RegisterInsertType ==
    ASSUME TypeOK, NEW r \in registering, RegisterInsert(r)
    PROVE  TypeOK'
<1>1. r \in [gid : Groups, by : Callers \cup {"gone"}, checked : BOOLEAN]
  BY DEF TypeOK
<1>2. r.gid \in Groups /\ r.gid.by \in Users
  BY <1>1 DEF Groups
<1>3. groups' \subseteq Groups /\ confirmed' \subseteq [gid : Groups, user : Users]
  BY <1>2 DEF RegisterInsert, TypeOK
<1>4. registering' \subseteq [gid : Groups, by : Callers \cup {"gone"}, checked : BOOLEAN]
  BY DEF RegisterInsert, TypeOK
<1>5. answers' \subseteq [gid : Groups, by : Callers, ok : BOOLEAN]
  BY <1>1, AnswerType DEF RegisterInsert, TypeOK
<1>. QED  BY <1>3, <1>4, <1>5 DEF RegisterInsert, TypeOK, mlsVars, readVars


LEMMA FetchType ==
    ASSUME TypeOK, NEW u \in Users, Fetch(u)
    PROVE  TypeOK'
<1>1. page' \in [Users -> SUBSET (1..Len(table))]
  BY DEF Fetch, Newer, TypeOK
<1>2. joining' \in [Users -> BOOLEAN]
  BY DEF Fetch, TypeOK
<1>. QED  BY <1>1, <1>2 DEF Fetch, TypeOK, serverVars, mlsVars

LEMMA JoinType ==
    ASSUME TypeOK, NEW u \in Users, Join(u)
    PROVE  TypeOK'
<1>1. page[u] \ local[u] \subseteq 1..Len(table) /\ ProcessWelcomes(u, page[u] \ local[u])
  BY DEF Join, TypeOK
<1>2. joining' \in [Users -> BOOLEAN]
  BY DEF Join, TypeOK
<1>. QED  BY <1>1, <1>2, WelcomeType DEF Join, TypeOK, serverVars

LEMMA ReadType ==
    ASSUME TypeOK, NEW u \in Users, Read(u)
    PROVE  TypeOK'
<1>1. PICK i \in page[u] :
            /\ page' = [page EXCEPT ![u] = @ \ {i}]
            /\ \/ local' = [local EXCEPT ![u] = @ \cup {i}] /\ Save(u, mapping[u], held[u])
               \/ UNCHANGED <<local, saved>>
  BY DEF Read
<1>2. i \in 1..Len(table)
  BY DEF TypeOK
<1>3. page' \in [Users -> SUBSET (1..Len(table))] /\ local' \in [Users -> SUBSET (1..Len(table))]
  BY <1>1, <1>2 DEF TypeOK
<1>4. saved' \in [Users -> [mapping : SUBSET Groups, held : SUBSET Groups]]
  <2>1. mapping[u] \in SUBSET Groups /\ held[u] \in SUBSET Groups
    BY DEF TypeOK
  <2>. QED  BY <1>1, <2>1, SaveType DEF TypeOK
<1>. QED  BY <1>3, <1>4 DEF Read, TypeOK, serverVars

LEMMA FetchWelcomesType ==
    ASSUME TypeOK, NEW u \in Users, FetchWelcomes(u)
    PROVE  TypeOK'
<1> DEFINE mine == {q \in queue : q.to = u}
<1>1. {q.gid : q \in mine} \in SUBSET Groups
  BY DEF TypeOK
<1>2. handed' = [handed EXCEPT ![u] = {q.gid : q \in mine}] \/ UNCHANGED handed
  BY DEF FetchWelcomes
<1>3. handed' \in [Users -> SUBSET Groups]
  <2> HIDE DEF mine
  <2>. QED  BY <1>1, <1>2 DEF TypeOK
<1>4. faults' \in Nat
  BY FaultType DEF FetchWelcomes, TypeOK
<1>5. queue' \subseteq [to : Users, gid : Groups]
  BY DEF FetchWelcomes, TypeOK
<1>. QED  BY <1>3, <1>4, <1>5 DEF FetchWelcomes, TypeOK, serverVars, mlsVars

LEMMA HandleQueuedType ==
    ASSUME TypeOK, NEW u \in Users, NEW g \in handed[u], HandleQueued(u, g)
    PROVE  TypeOK'
<1>1. g \in Groups
  BY DEF TypeOK
<1>2. handed' \in [Users -> SUBSET Groups] /\ faults' \in Nat
  BY FaultType DEF HandleQueued, TypeOK
<1>3. confirmed' \subseteq [gid : Groups, user : Users]
  BY <1>1 DEF HandleQueued, TypeOK
<1>. QED  BY <1>2, <1>3 DEF HandleQueued, TypeOK, mlsVars

\* However the device stops, its key store grows at most by what it holds or by
\* what a row of somebody else lets it join.
LEMMA CrashEffect ==
    ASSUME TypeOK, NEW u \in Users, Crash(u) \/ StopInSave(u)
    PROVE  \E H \in SUBSET Groups :
              /\ Stop(u, H)
              /\ \/ H \subseteq held[u]
                 \/ \E i \in 1..Len(table) : /\ table[i].from # u
                                            /\ H = held[u] \cup table[i].welcome
<1>1. CASE Crash(u)
  BY <1>1 DEF Crash
<1>2. CASE Stop(u, held[u])
  BY <1>2 DEF TypeOK
<1>3. ASSUME NEW I, I \subseteq 1..Len(table), StopInJoin(u, I)
      PROVE  \E i \in 1..Len(table) :
                /\ table[i].from # u /\ Stop(u, held[u] \cup table[i].welcome)
                /\ held[u] \cup table[i].welcome \in SUBSET Groups
  <2>1. PICK i \in FirstWelcome(u, I) : Stop(u, held[u] \cup table[i].welcome)
    BY <1>3 DEF StopInJoin
  <2>2. i \in 1..Len(table) /\ table[i].from # u
    BY <1>3 DEF FirstWelcome, Opens
  <2>3. held[u] \cup table[i].welcome \in SUBSET Groups
    BY <2>2, RowFields DEF Rows, TypeOK
  <2>. QED  BY <2>1, <2>2, <2>3
<1>4. \/ Crash(u) \/ Stop(u, held[u])
      \/ StopInJoin(u, page[u] \ local[u]) \/ StopInJoin(u, 1..Len(table))
  BY DEF StopInSave
<1>5. page[u] \ local[u] \subseteq 1..Len(table)
  BY DEF TypeOK
<1>. QED  BY <1>1, <1>2, <1>3, <1>4, <1>5

LEMMA StopType ==
    ASSUME TypeOK, NEW u \in Users, NEW H \in SUBSET Groups, Stop(u, H)
    PROVE  TypeOK'
<1>1. saved[u].mapping \in SUBSET Groups /\ saved[u].held \cup H \in SUBSET Groups
  BY DEF TypeOK
<1>2. mapping' \in [Users -> SUBSET Groups] /\ held' \in [Users -> SUBSET Groups]
  BY <1>1, SetStateType DEF Stop
<1>3. call' \in [Users -> [Callers -> Calls]]
  <2>1. NoCall \in Calls
    BY DEF NoCall, Calls, Stages
  <2>. QED  BY <2>1 DEF Stop, TypeOK
<1>4. registering' \subseteq [gid : Groups, by : Callers \cup {"gone"}, checked : BOOLEAN]
  BY OrphanType DEF Stop, TypeOK
<1>5. /\ page' \in [Users -> SUBSET (1..Len(table))] /\ joining' \in [Users -> BOOLEAN]
      /\ handed' \in [Users -> SUBSET Groups]
  BY DEF Stop, TypeOK
<1>6. answers' \subseteq [gid : Groups, by : Callers, ok : BOOLEAN] /\ faults' \in Nat
  BY FaultType DEF Stop, TypeOK
<1>7. saved' \in [Users -> [mapping : SUBSET Groups, held : SUBSET Groups]]
  BY HalfSaved DEF Stop
<1>. QED  BY <1>2, <1>3, <1>4, <1>5, <1>6, <1>7 DEF Stop, TypeOK

LEMMA CrashType ==
    ASSUME TypeOK, NEW u \in Users, Crash(u) \/ StopInSave(u)
    PROVE  TypeOK'
BY CrashEffect, StopType

LEMMA NextType == TypeOK /\ [Next]_vars => TypeOK'
<1> SUFFICES ASSUME TypeOK, [Next]_vars PROVE TypeOK'
  OBVIOUS
<1>1. ASSUME NEW u \in Users, NEW k \in Callers, SendStep(u, k) PROVE TypeOK'
  BY <1>1, SendStepType
<1>2. ASSUME NEW m \in outbox, Accept(m) PROVE TypeOK'
  BY <1>2, AcceptType
<1>3. CASE ServerStep
  BY <1>3, RegisterCheckType, RegisterInsertType DEF ServerStep
<1>4. ASSUME NEW u \in Users, ReadStep(u) PROVE TypeOK'
  BY <1>4, FetchType, JoinType, ReadType, FetchWelcomesType, HandleQueuedType DEF ReadStep
<1>5. ASSUME NEW u \in Users, Crash(u) \/ StopInSave(u) PROVE TypeOK'
  BY <1>5, CrashType
<1>6. CASE UNCHANGED vars
  BY <1>6 DEF vars, serverVars, mlsVars, readVars, TypeOK
<1>. QED  BY <1>1, <1>2, <1>3, <1>4, <1>5, <1>6 DEF Next

\* The model stays within its types for any number of members, calls, groups
\* and faults (create_group, register_group and the fetches).
THEOREM TypeCorrect == Spec => []TypeOK
BY InitType, NextType, PTL DEF Spec

(***************************************************************************)
(* Registrations: a group is posted once, and what is refused is unknown   *)
(* to the server.                                                          *)
(***************************************************************************)
\* Serial numbers come from the builder's count, so a new group is unknown.
Numbered ==
    /\ \A g \in groups : g.n <= built[g.by]
    /\ \A r \in registering : r.gid.n <= built[r.gid.by]
    /\ \A x \in answers : x.gid.n <= built[x.gid.by]
OneRequest == \A r, s \in registering : r.gid = s.gid => r = s
Pending == \A r \in registering : r.gid \notin groups /\ \A x \in answers : x.gid # r.gid
RefusedUnknown == \A x \in answers : ~x.ok => x.gid \notin groups
Registrations == Numbered /\ OneRequest /\ Pending /\ RefusedUnknown

LEMMA OrphanFields ==
    ASSUME NEW S, NEW u, NEW K, NEW t \in Orphan(S, u, K),
           S \subseteq [gid : Groups, by : Callers \cup {"gone"}, checked : BOOLEAN]
    PROVE  \E r \in S : /\ t.gid = r.gid /\ t.checked = r.checked
                        /\ t = IF r.gid.by = u /\ r.by \in K THEN [r EXCEPT !.by = "gone"] ELSE r
BY DEF Orphan

LEMMA OrphanUnique ==
    ASSUME NEW S, NEW u, NEW K,
           S \subseteq [gid : Groups, by : Callers \cup {"gone"}, checked : BOOLEAN],
           \A r, s \in S : r.gid = s.gid => r = s
    PROVE  \A r, s \in Orphan(S, u, K) : r.gid = s.gid => r = s
<1> SUFFICES ASSUME NEW r \in Orphan(S, u, K), NEW s \in Orphan(S, u, K), r.gid = s.gid
             PROVE  r = s
  OBVIOUS
<1>1. PICK r0 \in S : /\ r.gid = r0.gid
                      /\ r = IF r0.gid.by = u /\ r0.by \in K THEN [r0 EXCEPT !.by = "gone"] ELSE r0
  BY OrphanFields
<1>2. PICK s0 \in S : /\ s.gid = s0.gid
                      /\ s = IF s0.gid.by = u /\ s0.by \in K THEN [s0 EXCEPT !.by = "gone"] ELSE s0
  BY OrphanFields
<1>3. r0 = s0
  BY <1>1, <1>2
<1>. QED  BY <1>1, <1>2, <1>3

\* Fewer requests and answers, some of them orphaned, harm nothing.
LEMMA FewerRequests ==
    ASSUME TypeOK, Registrations,
           groups' = groups, answers' \subseteq answers, built' = built,
           \/ registering' \subseteq registering
           \/ \E u, K : registering' = Orphan(registering, u, K)
    PROVE  Registrations'
<1>1. ASSUME NEW u, NEW K, registering' = Orphan(registering, u, K)
      PROVE  /\ \A t \in registering' : \E r \in registering : t.gid = r.gid
             /\ \A r, s \in registering' : r.gid = s.gid => r = s
  <2>1. registering \subseteq [gid : Groups, by : Callers \cup {"gone"}, checked : BOOLEAN]
    BY DEF TypeOK
  <2>2. \A r, s \in registering : r.gid = s.gid => r = s
    BY DEF Registrations, OneRequest
  <2>3. \A t \in Orphan(registering, u, K) : \E r \in registering : t.gid = r.gid
    BY <2>1, OrphanFields
  <2>4. \A r, s \in Orphan(registering, u, K) : r.gid = s.gid => r = s
    BY <2>1, <2>2, OrphanUnique
  <2>. QED  BY <1>1, <2>3, <2>4
<1>2. CASE registering' \subseteq registering
  BY <1>2 DEF Registrations, Numbered, OneRequest, Pending, RefusedUnknown
<1>. QED  BY <1>1, <1>2 DEF Registrations, Numbered, OneRequest, Pending, RefusedUnknown

LEMMA MoreBuilt ==
    ASSUME TypeOK, Numbered, NEW u \in Users, built[u] < MaxGroups,
           built' = [built EXCEPT ![u] = @ + 1],
           groups' = groups, answers' = answers
    PROVE  /\ \A g \in groups' : g.n <= built'[g.by]
           /\ \A r \in registering : r.gid.n <= built'[r.gid.by]
           /\ \A x \in answers' : x.gid.n <= built'[x.gid.by]
           /\ \A g \in groups : g # NewGroup(u)
           /\ \A r \in registering : r.gid # NewGroup(u)
           /\ \A x \in answers : x.gid # NewGroup(u)
           /\ NewGroup(u).n <= built'[NewGroup(u).by]
<1>1. \A v \in Users : built[v] \in Nat /\ built'[v] \in Nat /\ built[v] <= built'[v]
  BY SetupAssumption DEF TypeOK
<1>2. \A g \in Groups : g.n <= built[g.by] => g.n <= built'[g.by] /\ g # NewGroup(u)
  <2> SUFFICES ASSUME NEW g \in Groups, g.n <= built[g.by]
               PROVE  g.n <= built'[g.by] /\ g # NewGroup(u)
    OBVIOUS
  <2>1. g.by \in Users /\ g.n \in Nat
    BY SetupAssumption DEF Groups
  <2>2. g.n <= built'[g.by]
    BY <1>1, <2>1
  <2>3. g = NewGroup(u) => g.by = u /\ g.n = built[u] + 1
    BY DEF NewGroup
  <2>4. g # NewGroup(u)
    BY <1>1, <2>1, <2>3
  <2>. QED  BY <2>2, <2>4
<1>3. /\ \A g \in groups : g \in Groups
      /\ \A r \in registering : r.gid \in Groups
      /\ \A x \in answers : x.gid \in Groups
  BY DEF TypeOK
<1>4. NewGroup(u).n <= built'[NewGroup(u).by]
  <2>1. NewGroup(u).n = built[u] + 1 /\ NewGroup(u).by = u
    BY DEF NewGroup
  <2>2. built'[u] = built[u] + 1
    BY DEF TypeOK
  <2>. QED  BY <1>1, <2>1, <2>2
<1>. QED  BY <1>2, <1>3, <1>4 DEF Numbered

LEMMA BuildRegistrations ==
    ASSUME TypeOK, Registrations, NEW u \in Users, NEW k \in Callers, Build(u, k)
    PROVE  Registrations'
<1> DEFINE new == [gid |-> NewGroup(u), by |-> k, checked |-> FALSE]
<1>1. /\ built[u] < MaxGroups /\ built' = [built EXCEPT ![u] = @ + 1]
      /\ groups' = groups /\ answers' = answers
      /\ registering' = registering \cup {new}
  BY DEF Build
<1>2. /\ \A g \in groups' : g.n <= built'[g.by]
      /\ \A r \in registering : r.gid.n <= built'[r.gid.by]
      /\ \A x \in answers' : x.gid.n <= built'[x.gid.by]
      /\ \A g \in groups : g # NewGroup(u)
      /\ \A r \in registering : r.gid # NewGroup(u)
      /\ \A x \in answers : x.gid # NewGroup(u)
      /\ NewGroup(u).n <= built'[NewGroup(u).by]
  BY <1>1, MoreBuilt DEF Registrations
<1>3. new.gid = NewGroup(u)
  OBVIOUS
<1> HIDE DEF new
<1>4. Numbered'
  BY <1>1, <1>2, <1>3 DEF Numbered
<1>5. OneRequest'
  BY <1>1, <1>2, <1>3 DEF Registrations, OneRequest
<1>6. Pending' /\ RefusedUnknown'
  BY <1>1, <1>2, <1>3 DEF Registrations, Pending, RefusedUnknown
<1>. QED  BY <1>4, <1>5, <1>6 DEF Registrations

LEMMA BuildUnsavedRegistrations ==
    ASSUME TypeOK, Registrations, NEW u \in Users, NEW k \in Callers, BuildUnsaved(u, k)
    PROVE  Registrations'
<1>1. /\ built[u] < MaxGroups /\ built' = [built EXCEPT ![u] = @ + 1]
      /\ groups' = groups /\ answers' = answers /\ registering' = registering
  BY DEF BuildUnsaved, serverVars
<1>2. Numbered'
  BY <1>1, MoreBuilt DEF Registrations, Numbered
<1>. QED  BY <1>1, <1>2 DEF Registrations, OneRequest, Pending, RefusedUnknown

LEMMA AnswerFields ==
    ASSUME NEW r, NEW ok, NEW x \in Answer(r, ok)
    PROVE  x.gid = r.gid /\ x.ok = ok
BY DEF Answer

LEMMA RegisterCheckRegistrations ==
    ASSUME TypeOK, Registrations, NEW r \in registering, RegisterCheck(r)
    PROVE  Registrations'
<1> DEFINE passed == [r EXCEPT !.checked = TRUE]
<1>1. passed.gid = r.gid /\ passed.checked
  BY DEF TypeOK
<1>2. groups' = groups /\ built' = built
  BY DEF RegisterCheck
<1>3. CASE Existing(r) # {}
  <2>1. registering' = registering \ {r} /\ answers' = answers \cup Answer(r, FALSE)
    BY <1>3 DEF RegisterCheck
  <2>2. \A x \in answers' : x \in answers \/ (x.gid = r.gid /\ ~x.ok)
    BY <2>1, AnswerFields
  <2>. QED  BY <1>2, <2>1, <2>2 DEF Registrations, Numbered, OneRequest, Pending, RefusedUnknown
<1>4. CASE Existing(r) = {}
  <2>1. registering' = (registering \ {r}) \cup {passed} /\ answers' = answers
    BY <1>4 DEF RegisterCheck
  <2> HIDE DEF passed
  <2>. QED  BY <1>1, <1>2, <2>1 DEF Registrations, Numbered, OneRequest, Pending, RefusedUnknown
<1>. QED  BY <1>3, <1>4

LEMMA RegisterInsertRegistrations ==
    ASSUME TypeOK, Registrations, NEW r \in registering, RegisterInsert(r)
    PROVE  Registrations'
<1>1. /\ groups' = groups \cup {r.gid} /\ built' = built
      /\ registering' = registering \ {r} /\ answers' = answers \cup Answer(r, TRUE)
  BY DEF RegisterInsert
<1>2. \A x \in answers' : x \in answers \/ (x.gid = r.gid /\ x.ok)
  BY <1>1, AnswerFields
<1>. QED  BY <1>1, <1>2 DEF Registrations, Numbered, OneRequest, Pending, RefusedUnknown

LEMMA NextRegistrations == TypeOK /\ Registrations /\ [Next]_vars => Registrations'
<1> SUFFICES ASSUME TypeOK, Registrations, [Next]_vars PROVE Registrations'
  OBVIOUS
<1>1. ASSUME NEW u \in Users, NEW k \in Callers, SendStep(u, k) PROVE Registrations'
  <2>1. CASE Build(u, k) \/ BuildUnsaved(u, k)
    BY <2>1, BuildRegistrations, BuildUnsavedRegistrations
  <2>2. ASSUME NEW delivered \in BOOLEAN, RegisterFails(u, k, delivered) PROVE Registrations'
    BY <2>2, FewerRequests DEF RegisterFails
  <2>3. CASE Registered(u, k) \/ Refused(u, k)
    BY <2>3, FewerRequests DEF Registered, Refused
  <2>4. CASE Begin(u, k) \/ ClaimFails(u, k) \/ JoinFromHistory(u, k) \/ HistoryFails(u, k)
             \/ Commit(u, k) \/ (\E delivered \in BOOLEAN : CommitFails(u, k, delivered))
             \/ Encrypt(u, k) \/ SendLost(u, k) \/ PostFails(u, k)
    <3>1. UNCHANGED <<serverVars, built>>
      BY <2>4 DEF Begin, ClaimFails, JoinFromHistory, HistoryFails, Commit, CommitFails, Encrypt,
                  SendLost, PostFails
    <3>. QED  BY <3>1, FewerRequests DEF serverVars
  <2>. QED  BY <1>1, <2>1, <2>2, <2>3, <2>4 DEF SendStep
<1>2. ASSUME NEW m \in outbox, Accept(m) PROVE Registrations'
  BY <1>2, FewerRequests DEF Accept, serverVars
<1>3. CASE ServerStep
  BY <1>3, RegisterCheckRegistrations, RegisterInsertRegistrations DEF ServerStep
<1>4. ASSUME NEW u \in Users, ReadStep(u) PROVE Registrations'
  <2>1. groups' = groups /\ registering' = registering /\ answers' = answers /\ built' = built
    BY <1>4 DEF ReadStep, Fetch, Join, Read, FetchWelcomes, HandleQueued, serverVars
  <2>. QED  BY <2>1, FewerRequests
<1>5. ASSUME NEW u \in Users, Crash(u) \/ StopInSave(u) PROVE Registrations'
  BY <1>5, CrashEffect, FewerRequests DEF Stop
<1>6. CASE UNCHANGED vars
  BY <1>6, FewerRequests DEF vars, serverVars
<1>. QED  BY <1>1, <1>2, <1>3, <1>4, <1>5, <1>6 DEF Next

(***************************************************************************)
(* What the server knows or will know, its builder keeps.                  *)
(***************************************************************************)
\* A group the server has or is being asked to take.
Posted(g) == g \in groups \/ \E r \in registering : r.gid = g
Kept == \A g \in Groups : Posted(g) => g \in held[g.by] /\ g \in saved[g.by].held
\* A call works on one group.
OneEachCall == \A u \in Users, k \in Callers : \A g, h \in call[u][k].gid : g = h

LEMMA InitRegistrations == Init => Registrations /\ Kept /\ OneEachCall
BY DEF Init, Registrations, Numbered, OneRequest, Pending, RefusedUnknown, Kept, Posted,
       OneEachCall, NoCall

LEMMA EndCallOne ==
    ASSUME TypeOK, OneEachCall, NEW u \in Users, NEW k \in Callers, EndCall(u, k)
    PROVE  OneEachCall'
BY DEF EndCall, NoCall, OneEachCall, TypeOK

LEMMA SetCallOne ==
    ASSUME TypeOK, OneEachCall, NEW u \in Users, NEW k \in Callers, NEW stage, NEW G, NEW W,
           SetCall(u, k, stage, G, W), \A g, h \in G : g = h
    PROVE  OneEachCall'
BY DEF SetCall, OneEachCall, TypeOK

LEMMA NextOneEachCall == TypeOK /\ OneEachCall /\ [Next]_vars => OneEachCall'
<1> SUFFICES ASSUME TypeOK, OneEachCall, [Next]_vars PROVE OneEachCall'
  OBVIOUS
<1>1. ASSUME NEW u \in Users, NEW k \in Callers, SendStep(u, k) PROVE OneEachCall'
  <2>1. CASE Begin(u, k)
    BY <2>1 DEF Begin, OneEachCall, TypeOK
  <2>2. CASE ClaimFails(u, k) \/ BuildUnsaved(u, k) \/ HistoryFails(u, k) \/ SendLost(u, k)
             \/ PostFails(u, k)
    BY <2>2, EndCallOne DEF ClaimFails, BuildUnsaved, HistoryFails, SendLost, PostFails
  <2>3. ASSUME NEW delivered \in BOOLEAN,
               RegisterFails(u, k, delivered) \/ CommitFails(u, k, delivered)
        PROVE  OneEachCall'
    BY <2>3, EndCallOne DEF RegisterFails, CommitFails
  <2>4. CASE Build(u, k)
    <3>1. SetCall(u, k, "register", {NewGroup(u)}, {})
      BY <2>4 DEF Build
    <3>2. \A g, h \in {NewGroup(u)} : g = h
      OBVIOUS
    <3>. QED  BY <3>1, <3>2, SetCallOne
  <2>5. CASE Registered(u, k)
    <3>1. SetCall(u, k, "commit", call[u][k].gid, {})
      BY <2>5 DEF Registered
    <3>2. \A g, h \in call[u][k].gid : g = h
      BY DEF OneEachCall
    <3>. QED  BY <3>1, <3>2, SetCallOne
  <2>6. CASE Refused(u, k)
    <3>1. SetCall(u, k, "history", {}, {}) \/ EndCall(u, k)
      BY <2>6 DEF Refused
    <3>2. \A g, h \in {} : g = h
      OBVIOUS
    <3>. QED  BY <3>1, <3>2, SetCallOne, EndCallOne
  <2>7. CASE JoinFromHistory(u, k) \/ Encrypt(u, k) \/ Commit(u, k)
    <3>1. \/ EndCall(u, k)
          \/ SetCall(u, k, "ready", {}, {})
          \/ SetCall(u, k, "posting", {}, {})
          \/ SetCall(u, k, "ready", {}, WelcomeOf(call[u][k].gid))
      BY <2>7 DEF JoinFromHistory, Encrypt, Commit
    <3>2. \A g, h \in {} : g = h
      OBVIOUS
    <3>. QED  BY <3>1, <3>2, SetCallOne, EndCallOne
  <2>. QED  BY <1>1, <2>1, <2>2, <2>3, <2>4, <2>5, <2>6, <2>7 DEF SendStep
<1>2. ASSUME NEW m \in outbox, Accept(m) PROVE OneEachCall'
  <2>1. m.from \in Users /\ m.by \in Callers
    BY DEF TypeOK, Rows
  <2>2. EndCall(m.from, m.by) \/ UNCHANGED call
    BY <1>2 DEF Accept
  <2>. QED  BY <2>1, <2>2, EndCallOne DEF OneEachCall
<1>3. CASE ServerStep
  BY <1>3 DEF ServerStep, RegisterCheck, RegisterInsert, OneEachCall
<1>4. ASSUME NEW u \in Users, ReadStep(u) PROVE OneEachCall'
  BY <1>4 DEF ReadStep, Fetch, Join, Read, FetchWelcomes, HandleQueued, OneEachCall
<1>5. ASSUME NEW u \in Users, Crash(u) \/ StopInSave(u) PROVE OneEachCall'
  <2>1. call' = [call EXCEPT ![u] = [k \in Callers |-> NoCall]]
    BY <1>5, CrashEffect DEF Stop
  <2>. QED  BY <2>1 DEF NoCall, OneEachCall, TypeOK
<1>6. CASE UNCHANGED vars
  BY <1>6 DEF vars, OneEachCall
<1>. QED  BY <1>1, <1>2, <1>3, <1>4, <1>5, <1>6 DEF Next

\* Nothing new is posted and the builder keeps what is.
LEMMA StillKept ==
    ASSUME Kept, \A g \in Groups : Posted(g)' => Posted(g),
           \A g \in Groups : Posted(g) =>
               /\ g \in held[g.by] => g \in held'[g.by]
               /\ g \in held[g.by] /\ g \in saved[g.by].held => g \in saved'[g.by].held
    PROVE  Kept'
BY DEF Kept

\* No key store loses a group.
SavedGrows == \A v \in Users : saved[v].held \subseteq saved'[v].held

LEMMA SaveFailsGrows ==
    ASSUME TypeOK, NEW u \in Users, NEW H \in SUBSET Groups, SaveFails(u, H)
    PROVE  SavedGrows
BY HalfSaved DEF SaveFails, SavedGrows

\* A state that only grows keeps everything.
LEMMA GrownKeeps ==
    ASSUME TypeOK, NEW u \in Users, NEW M, NEW H, held[u] \subseteq H,
           SetState(u, M, H), Save(u, M, H) \/ SavedGrows, NEW g \in Groups
    PROVE  /\ g \in held[g.by] => g \in held'[g.by]
           /\ g \in held[g.by] /\ g \in saved[g.by].held => g \in saved'[g.by].held
<1>1. g.by \in Users
  BY DEF Groups
<1>2. held' = [held EXCEPT ![u] = H]
  BY DEF SetState
<1>3. saved' = [saved EXCEPT ![u] = [mapping |-> M, held |-> H]] \/ SavedGrows
  BY DEF Save
<1>4. g \in held[g.by] => g \in held'[g.by]
  BY <1>1, <1>2 DEF TypeOK
<1>5. g \in held[g.by] /\ g \in saved[g.by].held => g \in saved'[g.by].held
  <2>1. CASE saved' = [saved EXCEPT ![u] = [mapping |-> M, held |-> H]]
    <3>1. CASE g.by = u
      <4>1. saved'[u].held = H
        BY <2>1 DEF TypeOK
      <4>. QED  BY <3>1, <4>1
    <3>2. CASE g.by # u
      <4>1. saved'[g.by] = saved[g.by]
        BY <1>1, <2>1, <3>2 DEF TypeOK
      <4>. QED  BY <4>1
    <3>. QED  BY <3>1, <3>2
  <2>2. CASE SavedGrows
    BY <1>1, <2>2 DEF SavedGrows
  <2>. QED  BY <1>3, <2>1, <2>2
<1>. QED  BY <1>4, <1>5

LEMMA BuildKept ==
    ASSUME TypeOK, Kept, NEW u \in Users, NEW k \in Callers, Build(u, k)
    PROVE  Kept'
<1> DEFINE new == NewGroup(u)
<1>1. /\ SetState(u, {new}, held[u] \cup {new}) /\ Save(u, {new}, held[u] \cup {new})
      /\ new.by = u
  BY DEF Build, NewGroup
<1>2. \A g \in Groups : Posted(g)' => Posted(g) \/ g = new
  BY DEF Build, Posted
<1>3. new \in held'[new.by] /\ new \in saved'[new.by].held
  <2> HIDE DEF new
  <2>. QED  BY <1>1 DEF SetState, Save, TypeOK
<1>4. ASSUME NEW g \in Groups, Posted(g) PROVE g \in held'[g.by] /\ g \in saved'[g.by].held
  <2>1. held[u] \subseteq held[u] \cup {new}
    OBVIOUS
  <2>2. g \in held[g.by] /\ g \in saved[g.by].held
    BY <1>4 DEF Kept
  <2> HIDE DEF new
  <2>. QED  BY <1>1, <2>1, <2>2, GrownKeeps
<1> HIDE DEF new
<1>. QED  BY <1>2, <1>3, <1>4 DEF Kept

LEMMA BuildUnsavedKept ==
    ASSUME TypeOK, Kept, NEW u \in Users, NEW k \in Callers, BuildUnsaved(u, k)
    PROVE  Kept'
<1>1. /\ SetState(u, {NewGroup(u)}, held[u] \cup {NewGroup(u)})
      /\ SaveFails(u, held[u] \cup {NewGroup(u)})
      /\ groups' = groups /\ registering' = registering
  BY DEF BuildUnsaved, serverVars
<1>2. held[u] \subseteq held[u] \cup {NewGroup(u)}
  OBVIOUS
<1>3. \A g \in Groups : Posted(g)' => Posted(g)
  BY <1>1 DEF Posted
<1>4. SavedGrows
  <2>1. held[u] \cup {NewGroup(u)} \in SUBSET Groups
    BY NewGroupType DEF BuildUnsaved, TypeOK
  <2>. QED  BY <1>1, <2>1, SaveFailsGrows
<1>. QED  BY <1>1, <1>2, <1>3, <1>4, GrownKeeps, StillKept

LEMMA RefusedKept ==
    ASSUME TypeOK, Registrations, OneEachCall, Kept,
           NEW u \in Users, NEW k \in Callers, Refused(u, k)
    PROVE  Kept'
<1> DEFINE H == held[u] \ call[u][k].gid
<1>1. /\ SetState(u, {}, H)
      /\ Save(u, {}, H) \/ SavedGrows
      /\ groups' = groups /\ registering' = registering
  <2>1. H \in SUBSET Groups
    BY DEF TypeOK
  <2>2. Save(u, {}, H) \/ SaveFails(u, H)
    BY DEF Refused, AfterRefusal
  <2>. QED  BY <2>1, <2>2, SaveFailsGrows DEF Refused, AfterRefusal
<1>2. PICK x \in answers : x.gid \in call[u][k].gid /\ ~x.ok
  BY DEF Refused
<1>3. ~Posted(x.gid)
  BY <1>2 DEF Registrations, Pending, RefusedUnknown, Posted
<1>4. \A g \in call[u][k].gid : ~Posted(g)
  BY <1>2, <1>3 DEF OneEachCall
<1>5. \A g \in Groups : Posted(g)' => Posted(g)
  BY <1>1 DEF Posted
<1>6. ASSUME NEW g \in Groups, Posted(g)
      PROVE  /\ g \in held[g.by] => g \in held'[g.by]
             /\ g \in held[g.by] /\ g \in saved[g.by].held => g \in saved'[g.by].held
  <2>1. g.by \in Users
    BY DEF Groups
  <2>2. g \in held[u] => g \in H
    BY <1>4, <1>6
  <2> HIDE DEF H
  <2>3. held' = [held EXCEPT ![u] = H]
    BY <1>1 DEF SetState
  <2>4. g \in held[g.by] => g \in held'[g.by]
    BY <2>1, <2>2, <2>3 DEF TypeOK
  <2>5. g \in held[g.by] /\ g \in saved[g.by].held => g \in saved'[g.by].held
    <3>1. CASE saved' = [saved EXCEPT ![u] = [mapping |-> {}, held |-> H]]
      <4>1. CASE g.by = u
        <5>1. saved'[u].held = H
          BY <3>1 DEF TypeOK
        <5>. QED  BY <2>2, <4>1, <5>1
      <4>2. CASE g.by # u
        <5>1. saved'[g.by] = saved[g.by]
          BY <2>1, <3>1, <4>2 DEF TypeOK
        <5>. QED  BY <5>1
      <4>. QED  BY <4>1, <4>2
    <3>2. CASE SavedGrows
      BY <2>1, <3>2 DEF SavedGrows
    <3>3. saved' = [saved EXCEPT ![u] = [mapping |-> {}, held |-> H]] \/ SavedGrows
      BY <1>1 DEF Save
    <3>. QED  BY <3>1, <3>2, <3>3
  <2>. QED  BY <2>4, <2>5
<1>. QED  BY <1>5, <1>6, StillKept

LEMMA WelcomeKept ==
    ASSUME TypeOK, Kept, NEW u \in Users, NEW I, I \subseteq 1..Len(table),
           ProcessWelcomes(u, I), groups' = groups, registering' = registering
    PROVE  Kept'
<1>1. \A g \in Groups : Posted(g)' => Posted(g)
  BY DEF Posted
<1>2. CASE UNCHANGED mlsVars
  BY <1>1, <1>2, StillKept DEF mlsVars
<1>3. ASSUME NEW G \in SUBSET Groups, SetState(u, G, held[u] \cup G),
             Save(u, G, held[u] \cup G) \/ SaveFails(u, held[u] \cup G)
      PROVE  Kept'
  <2>1. held[u] \subseteq held[u] \cup G /\ held[u] \cup G \in SUBSET Groups
    BY DEF TypeOK
  <2>2. Save(u, G, held[u] \cup G) \/ SavedGrows
    BY <1>3, <2>1, SaveFailsGrows
  <2>. QED  BY <1>1, <1>3, <2>1, <2>2, GrownKeeps, StillKept
<1>. QED  BY <1>2, <1>3, WelcomeEffect

LEMMA CrashKept ==
    ASSUME TypeOK, Kept, NEW u \in Users, Crash(u) \/ StopInSave(u)
    PROVE  Kept'
<1>1. PICK H \in SUBSET Groups : Stop(u, H)
  BY CrashEffect
<1>2. /\ groups' = groups /\ registering' = Orphan(registering, u, Callers)
      /\ held' = [held EXCEPT ![u] = saved[u].held \cup H]
      /\ saved' = [saved EXCEPT ![u].held = @ \cup H]
  BY <1>1 DEF Stop, SetState
<1>3. \A t \in registering' : \E r \in registering : t.gid = r.gid
  <2>1. registering \subseteq [gid : Groups, by : Callers \cup {"gone"}, checked : BOOLEAN]
    BY DEF TypeOK
  <2>. QED  BY <1>2, <2>1, OrphanFields
<1>4. \A g \in Groups : Posted(g)' => Posted(g)
  BY <1>2, <1>3 DEF Posted
<1>5. \A v \in Users : saved[v].held \subseteq saved'[v].held
  BY <1>2, HalfSaved
<1>6. ASSUME NEW g \in Groups, g \in held[g.by], g \in saved[g.by].held
      PROVE  g \in held'[g.by] /\ g \in saved'[g.by].held
  <2>1. g.by \in Users
    BY DEF Groups
  <2>. QED  BY <1>2, <1>5, <1>6, <2>1 DEF TypeOK
<1>. QED  BY <1>4, <1>6 DEF Kept

\* A send or a fetch that saves what memory has keeps everything.
LEMMA SavingKept ==
    ASSUME TypeOK, Kept, NEW u \in Users, UNCHANGED <<mapping, held, groups, registering>>,
           \/ UNCHANGED saved \/ Save(u, mapping[u], held[u]) \/ SaveFails(u, held[u])
    PROVE  Kept'
<1>1. \A g \in Groups : Posted(g)' => Posted(g)
  BY DEF Posted
<1>2. Save(u, mapping[u], held[u]) \/ SavedGrows
  <2>1. held[u] \in SUBSET Groups
    BY DEF TypeOK
  <2>. QED  BY <2>1, SaveFailsGrows DEF SavedGrows
<1>3. SetState(u, mapping[u], held[u])
  BY DEF SetState, TypeOK
<1>. QED  BY <1>1, <1>2, <1>3, GrownKeeps, StillKept

\* Requests only move on or disappear, the groups stay where they are.
LEMMA QuietKept ==
    ASSUME TypeOK, Kept, UNCHANGED mlsVars,
           \A g \in Groups : Posted(g)' => Posted(g)
    PROVE  Kept'
BY StillKept DEF mlsVars

LEMMA NextKept == TypeOK /\ Registrations /\ OneEachCall /\ Kept /\ [Next]_vars => Kept'
<1> SUFFICES ASSUME TypeOK, Registrations, OneEachCall, Kept, [Next]_vars PROVE Kept'
  OBVIOUS
<1>1. ASSUME NEW u \in Users, NEW k \in Callers, SendStep(u, k) PROVE Kept'
  <2>1. CASE Build(u, k) \/ BuildUnsaved(u, k) \/ Refused(u, k)
    BY <2>1, BuildKept, BuildUnsavedKept, RefusedKept
  <2>2. CASE JoinFromHistory(u, k)
    BY <2>2, WelcomeKept DEF JoinFromHistory, serverVars
  <2>3. ASSUME NEW delivered \in BOOLEAN, RegisterFails(u, k, delivered) PROVE Kept'
    <3>1. \A t \in registering' : \E r \in registering : t.gid = r.gid
      <4>1. CASE registering' = Orphan(registering, u, {k})
        <5>1. registering \subseteq [gid : Groups, by : Callers \cup {"gone"}, checked : BOOLEAN]
          BY DEF TypeOK
        <5>. QED  BY <4>1, <5>1, OrphanFields
      <4>2. CASE registering' \subseteq registering
        BY <4>2
      <4>. QED  BY <2>3, <4>1, <4>2 DEF RegisterFails
    <3>2. UNCHANGED mlsVars /\ groups' = groups
      BY <2>3 DEF RegisterFails
    <3>. QED  BY <3>1, <3>2, QuietKept DEF Posted
  <2>4. CASE Begin(u, k) \/ ClaimFails(u, k) \/ HistoryFails(u, k) \/ Registered(u, k)
             \/ Commit(u, k) \/ (\E delivered \in BOOLEAN : CommitFails(u, k, delivered))
             \/ PostFails(u, k)
    <3>1. UNCHANGED mlsVars /\ groups' = groups /\ registering' = registering
      BY <2>4 DEF Begin, ClaimFails, HistoryFails, Registered, Commit, CommitFails, PostFails,
                  serverVars
    <3>. QED  BY <3>1, QuietKept DEF Posted
  <2>5. CASE Encrypt(u, k) \/ SendLost(u, k)
    <3>1. /\ UNCHANGED <<mapping, held, groups, registering>>
          /\ UNCHANGED saved \/ Save(u, mapping[u], held[u]) \/ SaveFails(u, held[u])
      BY <2>5 DEF Encrypt, SendLost, serverVars
    <3>. QED  BY <3>1, SavingKept
  <2>. QED  BY <1>1, <2>1, <2>2, <2>3, <2>4, <2>5 DEF SendStep
<1>2. ASSUME NEW m \in outbox, Accept(m) PROVE Kept'
  BY <1>2, QuietKept DEF Accept, serverVars, Posted
<1>3. ASSUME NEW r \in registering, RegisterCheck(r) \/ RegisterInsert(r) PROVE Kept'
  <2>1. UNCHANGED mlsVars
    BY <1>3 DEF RegisterCheck, RegisterInsert
  <2>2. [r EXCEPT !.checked = TRUE].gid = r.gid
    BY DEF TypeOK
  <2>3. \A g \in Groups : Posted(g)' => Posted(g)
    BY <1>3, <2>2 DEF RegisterCheck, RegisterInsert, Posted
  <2>. QED  BY <2>1, <2>3, QuietKept
<1>4. ASSUME NEW u \in Users, ReadStep(u) PROVE Kept'
  <2>1. CASE Join(u)
    <3>1. page[u] \ local[u] \subseteq 1..Len(table) /\ ProcessWelcomes(u, page[u] \ local[u])
      BY <2>1 DEF Join, TypeOK
    <3>. QED  BY <2>1, <3>1, WelcomeKept DEF Join, serverVars
  <2>2. CASE ~Join(u) /\ ~Read(u)
    <3>1. UNCHANGED mlsVars /\ groups' = groups /\ registering' = registering
      BY <1>4, <2>2 DEF ReadStep, Fetch, FetchWelcomes, HandleQueued, serverVars
    <3>. QED  BY <3>1, QuietKept DEF Posted
  <2>3. CASE Read(u)
    <3>1. /\ UNCHANGED <<mapping, held, groups, registering>>
          /\ UNCHANGED saved \/ Save(u, mapping[u], held[u])
      BY <2>3 DEF Read, serverVars
    <3>. QED  BY <3>1, SavingKept
  <2>. QED  BY <2>1, <2>2, <2>3
<1>5. ASSUME NEW u \in Users, Crash(u) \/ StopInSave(u) PROVE Kept'
  BY <1>5, CrashKept
<1>6. CASE UNCHANGED vars
  BY <1>6, QuietKept DEF vars, serverVars, Posted
<1>. QED  BY <1>1, <1>2, <1>3, <1>4, <1>5, <1>6 DEF Next, ServerStep

\* The inductive invariant behind the durability of registered groups.
SetupInv == TypeOK /\ Registrations /\ OneEachCall /\ Kept

\* The invariant about registrations and kept groups holds in every reachable state.
THEOREM SetupInvariant == Spec => []SetupInv
<1>1. Init => SetupInv
  BY InitType, InitRegistrations DEF SetupInv
<1>2. SetupInv /\ [Next]_vars => SetupInv'
  BY NextType, NextRegistrations, NextOneEachCall, NextKept DEF SetupInv
<1>. QED  BY <1>1, <1>2, PTL DEF Spec

\* A group the server knows is in its builder's key store on disk: create_group saves
\* before it posts, and a refusal removes only what the server refused.
THEOREM RegisteredGroupsDurable == Spec => []RegisteredIsDurable
<1>1. SetupInv => RegisteredIsDurable
  BY DEF SetupInv, Kept, Posted, RegisteredIsDurable, TypeOK
<1>. QED  BY <1>1, SetupInvariant, PTL

(***************************************************************************)
(* One registration at a time means one group.                             *)
(***************************************************************************)
\* Every registered group has its builder as a confirmed member ...
BuilderConfirmed == \A g \in groups : \E c \in confirmed : c.gid = g
\* ... so without an overlap the check sees it.
Serial ==
    ~overlap => /\ \A r, s \in registering : r = s
                /\ \A r \in registering : r.checked => groups = {}
                /\ \A g, h \in groups : g = h

LEMMA InitSerial == Init => BuilderConfirmed /\ Serial
BY DEF Init, BuilderConfirmed, Serial

LEMMA NextBuilderConfirmed == TypeOK /\ BuilderConfirmed /\ [Next]_vars => BuilderConfirmed'
<1> SUFFICES ASSUME TypeOK, BuilderConfirmed, [Next]_vars PROVE BuilderConfirmed'
  OBVIOUS
<1>1. CASE groups' = groups /\ confirmed \subseteq confirmed'
  BY <1>1 DEF BuilderConfirmed
<1>2. ASSUME NEW r \in registering, RegisterInsert(r) PROVE BuilderConfirmed'
  <2> DEFINE c == [gid |-> r.gid, user |-> r.gid.by]
  <2>1. c.gid = r.gid
    OBVIOUS
  <2>2. groups' = groups \cup {r.gid} /\ confirmed' = confirmed \cup {c}
    BY <1>2 DEF RegisterInsert
  <2> HIDE DEF c
  <2>. QED  BY <2>1, <2>2 DEF BuilderConfirmed
<1>3. ASSUME NEW u \in Users, NEW k \in Callers, SendStep(u, k)
      PROVE  groups' = groups /\ confirmed' = confirmed
  BY <1>3 DEF SendStep, Begin, ClaimFails, Build, BuildUnsaved, RegisterFails, Registered, Refused,
              JoinFromHistory, HistoryFails, Commit, CommitFails, Encrypt, SendLost, PostFails,
              serverVars
<1>4. ASSUME NEW u \in Users, ReadStep(u) PROVE groups' = groups /\ confirmed \subseteq confirmed'
  BY <1>4 DEF ReadStep, Fetch, Join, Read, FetchWelcomes, HandleQueued, serverVars
<1>5. ASSUME (\E m \in outbox : Accept(m)) \/ (\E r \in registering : RegisterCheck(r))
             \/ (\E u \in Users : Crash(u) \/ StopInSave(u)) \/ UNCHANGED vars
      PROVE  groups' = groups /\ confirmed' = confirmed
  BY <1>5, CrashEffect DEF Accept, RegisterCheck, Stop, vars, serverVars
<1>. QED  BY <1>1, <1>2, <1>3, <1>4, <1>5 DEF Next, ServerStep

\* Requests that go away, or lose their caller, overlap with nothing new.
LEMMA FewerSerial ==
    ASSUME TypeOK, Serial, groups' = groups, overlap' = overlap,
           \/ registering' \subseteq registering
           \/ \E u, K : registering' = Orphan(registering, u, K)
    PROVE  Serial'
<1>1. CASE registering' \subseteq registering
  BY <1>1 DEF Serial
<1>2. ASSUME NEW u, NEW K, registering' = Orphan(registering, u, K) PROVE Serial'
  <2>1. registering \subseteq [gid : Groups, by : Callers \cup {"gone"}, checked : BOOLEAN]
    BY DEF TypeOK
  <2>2. \A t \in registering' : \E r \in registering :
           /\ t.checked = r.checked
           /\ t = IF r.gid.by = u /\ r.by \in K THEN [r EXCEPT !.by = "gone"] ELSE r
    BY <1>2, <2>1, OrphanFields
  <2>. QED  BY <2>2 DEF Serial
<1>. QED  BY <1>1, <1>2

LEMMA NextSerial ==
    TypeOK /\ BuilderConfirmed /\ Serial /\ [Next]_vars => Serial'
<1> SUFFICES ASSUME TypeOK, BuilderConfirmed, Serial, [Next]_vars PROVE Serial'
  OBVIOUS
<1>1. ASSUME NEW u \in Users, NEW k \in Callers, SendStep(u, k) PROVE Serial'
  <2>1. CASE Build(u, k)
    <3> DEFINE new == [gid |-> NewGroup(u), by |-> k, checked |-> FALSE]
    <3>1. /\ registering' = registering \cup {new} /\ ~new.checked /\ groups' = groups
          /\ overlap' = (overlap \/ registering # {})
      BY <2>1 DEF Build
    <3> HIDE DEF new
    <3>2. CASE overlap \/ registering # {}
      BY <3>1, <3>2 DEF Serial
    <3>3. CASE ~(overlap \/ registering # {})
      BY <3>1, <3>3 DEF Serial
    <3>. QED  BY <3>2, <3>3
  <2>2. ASSUME NEW delivered \in BOOLEAN, RegisterFails(u, k, delivered) PROVE Serial'
    BY <2>2, FewerSerial DEF RegisterFails
  <2>3. CASE Begin(u, k) \/ ClaimFails(u, k) \/ BuildUnsaved(u, k) \/ HistoryFails(u, k)
             \/ Registered(u, k) \/ Refused(u, k) \/ JoinFromHistory(u, k)
             \/ Commit(u, k) \/ (\E delivered \in BOOLEAN : CommitFails(u, k, delivered))
             \/ Encrypt(u, k) \/ SendLost(u, k) \/ PostFails(u, k)
    <3>1. groups' = groups /\ registering' = registering /\ overlap' = overlap
      BY <2>3 DEF Begin, ClaimFails, BuildUnsaved, HistoryFails, Registered, Refused,
                  JoinFromHistory, Commit, CommitFails, Encrypt, SendLost, PostFails, serverVars
    <3>. QED  BY <3>1, FewerSerial
  <2>. QED  BY <1>1, <2>1, <2>2, <2>3 DEF SendStep
<1>2. ASSUME NEW m \in outbox, Accept(m) PROVE Serial'
  BY <1>2, FewerSerial DEF Accept, serverVars
<1>3. ASSUME NEW r \in registering, RegisterCheck(r) PROVE Serial'
  <2>1. CASE Existing(r) # {}
    BY <1>3, <2>1, FewerSerial DEF RegisterCheck
  <2>2. CASE Existing(r) = {}
    <3>1. groups = {}
      BY <2>2 DEF BuilderConfirmed, Existing
    <3>2. /\ registering' = (registering \ {r}) \cup {[r EXCEPT !.checked = TRUE]}
          /\ groups' = groups /\ overlap' = overlap
      BY <1>3, <2>2 DEF RegisterCheck
    <3>. QED  BY <3>1, <3>2 DEF Serial
  <2>. QED  BY <2>1, <2>2
<1>4. ASSUME NEW r \in registering, RegisterInsert(r) PROVE Serial'
  <2>1. /\ groups' = groups \cup {r.gid} /\ registering' = registering \ {r}
        /\ overlap' = overlap /\ r.checked
    BY <1>4 DEF RegisterInsert
  <2>. QED  BY <2>1 DEF Serial
<1>5. ASSUME NEW u \in Users, ReadStep(u) PROVE Serial'
  <2>1. groups' = groups /\ registering' = registering /\ overlap' = overlap
    BY <1>5 DEF ReadStep, Fetch, Join, Read, FetchWelcomes, HandleQueued, serverVars
  <2>. QED  BY <2>1, FewerSerial
<1>6. ASSUME NEW u \in Users, Crash(u) \/ StopInSave(u) PROVE Serial'
  BY <1>6, CrashEffect, FewerSerial DEF Stop
<1>7. CASE UNCHANGED vars
  BY <1>7, FewerSerial DEF vars, serverVars
<1>. QED  BY <1>1, <1>2, <1>3, <1>4, <1>5, <1>6, <1>7 DEF Next, ServerStep

\* A conversation gets a second group only where two registrations were under
\* way at once: the check of register_group catches every later one.
THEOREM SecondGroupNeedsOverlap == Spec => []DuplicateNeedsOverlap
<1>1. Init => TypeOK /\ BuilderConfirmed /\ Serial
  BY InitType, InitSerial
<1>2. TypeOK /\ BuilderConfirmed /\ Serial /\ [Next]_vars => (TypeOK /\ BuilderConfirmed /\ Serial)'
  BY NextType, NextBuilderConfirmed, NextSerial
<1>3. Serial => DuplicateNeedsOverlap
  <2> SUFFICES ASSUME Serial, ~overlap PROVE Cardinality(groups) <= 1
    BY DEF DuplicateNeedsOverlap
  <2>1. CASE groups = {}
    BY <2>1, FS_EmptySet
  <2>2. ASSUME NEW g \in groups PROVE Cardinality(groups) <= 1
    <3>1. \A h \in groups : h = g
      BY DEF Serial
    <3>2. groups = {g}
      BY <3>1
    <3>3. Cardinality({g}) = 1
      BY FS_Singleton
    <3>. QED  BY <3>2, <3>3
  <2>. QED  BY <2>1, <2>2
<1>. QED  BY <1>1, <1>2, <1>3, PTL DEF Spec

(***************************************************************************)
(* With one send at a time per device, what a refused caller threw away is *)
(* nowhere any more.                                                       *)
(***************************************************************************)
OneCaller == \A j, k \in Callers : j = k

\* The messages on their way and in the table.
Messages == outbox \cup {table[i] : i \in 1..Len(table)}
InMessages(g) == \E m \in Messages : g = m.gid \/ g \in m.welcome
\* Nobody but its builder has the group, and nobody is being told of it.
Silent(g) ==
    /\ ~InMessages(g)
    /\ \A u \in Users : u # g.by => g \notin held[u] /\ g \notin saved[u].held
    /\ \A u \in Users, k \in Callers : g \notin call[u][k].welcome
\* Its builder does not have it either, and works on it no more.
Nowhere(g) ==
    /\ Silent(g)
    /\ g \notin held[g.by] /\ g \notin saved[g.by].held
    /\ \A u \in Users, k \in Callers : g \notin call[u][k].gid
\* Not built yet, or thrown away.
Unbuilt(g) == g.n > built[g.by]
Absent == \A g \in Groups : Unbuilt(g) \/ g \in discarded => Nowhere(g)
\* What a caller works on is its own device's, and a secret until the server
\* has answered.
OwnWork ==
    \A u \in Users, k \in Callers : \A g \in call[u][k].gid :
        g.by = u /\ (call[u][k].at = "register" => Silent(g))
\* Only what was built is thrown away.
Thrown == \A g \in discarded : ~Unbuilt(g)
SecretInv == Absent /\ OwnWork /\ Thrown

\* Between two states nobody comes to hold, send, announce or work on a group
\* that he did not before.
NoNews(g) ==
    /\ InMessages(g)' => InMessages(g)
    /\ \A u \in Users :
          /\ g \in held'[u] => g \in held[u] \/ g \in saved[u].held
          /\ g \in saved'[u].held => g \in held[u] \/ g \in saved[u].held
    /\ \A u \in Users, k \in Callers :
          /\ g \in call'[u][k].welcome => g \in call[u][k].welcome

LEMMA StaysSilent ==
    ASSUME NEW g \in Groups, NoNews(g), Silent(g)
    PROVE  Silent(g)'
BY DEF NoNews, Silent

LEMMA StaysNowhere ==
    ASSUME NEW g \in Groups, NoNews(g), Nowhere(g),
           \A u \in Users, k \in Callers : g \in call'[u][k].gid => g \in call[u][k].gid
    PROVE  Nowhere(g)'
<1>1. g.by \in Users
  BY DEF Groups
<1>. QED  BY <1>1, StaysSilent DEF NoNews, Nowhere

\* A step that brings no news keeps the invariant.
LEMMA QuietSecret ==
    ASSUME TypeOK, SecretInv, built' = built, discarded' = discarded,
           \A g \in Groups : Nowhere(g) => NoNews(g),
           \A u \in Users, k \in Callers :
               /\ call'[u][k].gid \subseteq call[u][k].gid
               /\ call'[u][k].at = "register" =>
                     /\ call[u][k].at = "register"
                     /\ \A g \in call'[u][k].gid : Silent(g) => NoNews(g)
    PROVE  SecretInv'
<1>1. Absent'
  <2> SUFFICES ASSUME NEW g \in Groups, (Unbuilt(g) \/ g \in discarded)' PROVE Nowhere(g)'
    BY DEF Absent
  <2>1. Nowhere(g)
    BY DEF SecretInv, Absent, Unbuilt
  <2>. QED  BY <2>1, StaysNowhere
<1>2. OwnWork'
  <2> SUFFICES ASSUME NEW u \in Users, NEW k \in Callers, NEW g \in call'[u][k].gid
               PROVE  g.by = u /\ (call'[u][k].at = "register" => Silent(g)')
    BY DEF OwnWork
  <2>1. g \in call[u][k].gid /\ g \in Groups
    BY CallFields
  <2>2. g.by = u /\ (call[u][k].at = "register" => Silent(g))
    BY <2>1 DEF SecretInv, OwnWork
  <2>. QED  BY <2>1, <2>2, StaysSilent
<1>3. Thrown'
  BY DEF SecretInv, Thrown, Unbuilt
<1>. QED  BY <1>1, <1>2, <1>3 DEF SecretInv

\* No device comes to hold a group that it did not hold in memory or on disk.
NoGain == \A u \in Users : held'[u] \cup saved'[u].held \subseteq held[u] \cup saved[u].held

\* Saving what memory has, in full or in part, gains nothing.
LEMMA SavingGain ==
    ASSUME TypeOK, NEW u \in Users, held' = held,
           \/ UNCHANGED saved \/ Save(u, mapping[u], held[u]) \/ SaveFails(u, held[u])
    PROVE  NoGain
<1>1. CASE Save(u, mapping[u], held[u])
  <2>1. saved'[u].held = held[u] /\ \A v \in Users : v # u => saved'[v] = saved[v]
    BY <1>1 DEF Save, TypeOK
  <2>. QED  BY <2>1 DEF NoGain
<1>2. CASE SaveFails(u, held[u])
  <2>1. PICK H \in SUBSET Groups : H = held[u]
    BY DEF TypeOK
  <2>2. \A v \in Users : /\ saved'[v].held \subseteq saved[v].held \cup H
                         /\ v # u => saved'[v] = saved[v]
    <3>1. SaveFails(u, H)
      BY <1>2, <2>1 DEF SaveFails
    <3>. QED  BY <3>1, SaveFailsAdds
  <2>3. ASSUME NEW v \in Users PROVE saved'[v].held \subseteq held[v] \cup saved[v].held
    <3>1. CASE v = u
      BY <2>1, <2>2, <3>1
    <3>2. CASE v # u
      BY <2>2, <3>2
    <3>. QED  BY <3>1, <3>2
  <2>. QED  BY <2>3 DEF NoGain
<1>. QED  BY <1>1, <1>2 DEF NoGain

\* Without new messages and groups only the calls can bring news.
LEMMA SameMessages ==
    ASSUME UNCHANGED <<outbox, table>>, UNCHANGED mlsVars \/ NoGain,
           \A u \in Users, k \in Callers : call'[u][k].welcome \subseteq call[u][k].welcome
    PROVE  \A g \in Groups : NoNews(g)
BY DEF NoNews, NoGain, InMessages, Messages, mlsVars

\* What ending a call or taking it to another stage does to it.
LEMMA EndCallEffect ==
    ASSUME TypeOK, NEW u \in Users, NEW k \in Callers, EndCall(u, k),
           NEW v \in Users, NEW j \in Callers
    PROVE  IF v = u /\ j = k THEN call'[v][j] = NoCall ELSE call'[v][j] = call[v][j]
BY DEF EndCall, TypeOK

LEMMA SetCallEffect ==
    ASSUME TypeOK, NEW u \in Users, NEW k \in Callers, NEW stage, NEW G, NEW W,
           SetCall(u, k, stage, G, W), NEW v \in Users, NEW j \in Callers
    PROVE  IF v = u /\ j = k
           THEN /\ call'[v][j].at = stage /\ call'[v][j].gid = G /\ call'[v][j].welcome = W
                /\ call'[v][j].n = call[v][j].n
           ELSE call'[v][j] = call[v][j]
BY DEF SetCall, TypeOK

LEMMA EndCallSecret ==
    ASSUME TypeOK, SecretInv, NEW u \in Users, NEW k \in Callers, EndCall(u, k),
           UNCHANGED mlsVars \/ NoGain, UNCHANGED <<outbox, table, built, discarded>>
    PROVE  SecretInv'
<1>1. \A v \in Users, j \in Callers : call'[v][j] = NoCall \/ call'[v][j] = call[v][j]
  BY EndCallEffect
<1>2. \A v \in Users, j \in Callers :
         /\ call'[v][j].gid \subseteq call[v][j].gid
         /\ call'[v][j].welcome \subseteq call[v][j].welcome
         /\ call'[v][j].at = "register" => call[v][j].at = "register"
  BY <1>1 DEF NoCall
<1>3. \A g \in Groups : NoNews(g)
  BY <1>2, SameMessages
<1>4. \A v \in Users, j \in Callers : \A g \in call'[v][j].gid : NoNews(g)
  BY <1>2, <1>3, CallFields
<1>. QED  BY <1>2, <1>3, <1>4, QuietSecret

LEMMA InitSecret == Init => SecretInv
<1> SUFFICES ASSUME Init PROVE SecretInv
  OBVIOUS
<1>1. \A g \in Groups : g.by \in Users
  BY DEF Groups
<1>2. Messages = {}
  <2>1. table = <<>> /\ outbox = {}
    BY DEF Init
  <2>2. 1..Len(table) = {}
    BY <2>1
  <2>. QED  BY <2>1, <2>2 DEF Messages
<1>3. \A u \in Users, k \in Callers : call[u][k].gid = {} /\ call[u][k].welcome = {}
  BY DEF Init, NoCall
<1>4. discarded = {} /\ \A u \in Users : held[u] = {} /\ saved[u].held = {}
  BY DEF Init
<1>. QED  BY <1>1, <1>2, <1>3, <1>4 DEF SecretInv, Absent, OwnWork, Thrown, Nowhere, Silent, InMessages

\* A new group is its builder's secret; the ones before it stay what they were.
LEMMA NewSecret ==
    ASSUME TypeOK, SecretInv, NEW u \in Users, NEW k \in Callers, built[u] < MaxGroups,
           built' = [built EXCEPT ![u] = @ + 1],
           SetState(u, {NewGroup(u)}, held[u] \cup {NewGroup(u)}),
           \/ Save(u, {NewGroup(u)}, held[u] \cup {NewGroup(u)})
           \/ SaveFails(u, held[u] \cup {NewGroup(u)}),
           SetCall(u, k, "register", {NewGroup(u)}, {}) \/ EndCall(u, k),
           UNCHANGED <<outbox, table, discarded>>
    PROVE  SecretInv'
<1>0. PICK new \in Groups : new = NewGroup(u)
  BY NewGroupType
<1>1. new.by = u /\ new.n = built[u] + 1 /\ built[u] \in Nat
  BY <1>0, SetupAssumption DEF NewGroup, TypeOK
<1>2. Nowhere(new)
  BY <1>1 DEF SecretInv, Absent, Unbuilt
<1>3. \A v \in Users : held'[v] = IF v = u THEN held[u] \cup {new} ELSE held[v]
  <2>1. held' = [held EXCEPT ![u] = held[u] \cup {new}]
    BY <1>0 DEF SetState
  <2>. QED  BY <2>1 DEF TypeOK
<1>4. \A v \in Users : saved'[v].held \subseteq (IF v = u THEN held[u] \cup {new} ELSE {}) \cup saved[v].held
  <2>1. \/ saved' = [saved EXCEPT ![u] = [mapping |-> {new}, held |-> held[u] \cup {new}]]
        \/ SaveFails(u, held[u] \cup {new})
    BY <1>0 DEF Save
  <2>2. CASE saved' = [saved EXCEPT ![u] = [mapping |-> {new}, held |-> held[u] \cup {new}]]
    <3>1. saved'[u].held = held[u] \cup {new} /\ \A v \in Users : v # u => saved'[v] = saved[v]
      BY <2>2 DEF TypeOK
    <3>. QED  BY <3>1
  <2>3. CASE SaveFails(u, held[u] \cup {new})
    <3>1. PICK H \in SUBSET Groups : H = held[u] \cup {new}
      BY DEF TypeOK
    <3>2. \A v \in Users : /\ saved'[v].held \subseteq saved[v].held \cup H
                           /\ v # u => saved'[v] = saved[v]
      <4>1. SaveFails(u, H)
        BY <2>3, <3>1 DEF SaveFails
      <4>. QED  BY <4>1, SaveFailsAdds
    <3>3. ASSUME NEW v \in Users
          PROVE  saved'[v].held \subseteq (IF v = u THEN held[u] \cup {new} ELSE {}) \cup saved[v].held
      <4>1. CASE v = u
        BY <3>1, <3>2, <4>1
      <4>2. CASE v # u
        BY <3>2, <4>2
      <4>. QED  BY <4>1, <4>2
    <3>. QED  BY <3>3
  <2>. QED  BY <2>1, <2>2, <2>3
<1>5. \A v \in Users, j \in Callers :
         /\ call'[v][j].welcome \subseteq call[v][j].welcome
         /\ \/ call'[v][j] = call[v][j] \/ call'[v][j].gid = {}
            \/ v = u /\ call'[v][j].gid = {new}
  <2>1. ASSUME NEW v \in Users, NEW j \in Callers
        PROVE  /\ call'[v][j].welcome \subseteq call[v][j].welcome
               /\ \/ call'[v][j] = call[v][j] \/ call'[v][j].gid = {}
                  \/ v = u /\ call'[v][j].gid = {new}
    <3>1. CASE SetCall(u, k, "register", {NewGroup(u)}, {})
      <4>1. IF v = u /\ j = k
            THEN call'[v][j].gid = {NewGroup(u)} /\ call'[v][j].welcome = {}
            ELSE call'[v][j] = call[v][j]
        BY <3>1, SetCallEffect
      <4>. QED  BY <1>0, <4>1
    <3>2. CASE EndCall(u, k)
      <4>1. IF v = u /\ j = k THEN call'[v][j] = NoCall ELSE call'[v][j] = call[v][j]
        BY <3>2, EndCallEffect
      <4>. QED  BY <4>1 DEF NoCall
    <3>. QED  BY <3>1, <3>2
  <2>. QED  BY <2>1
<1>6. \A g \in Groups : InMessages(g)' <=> InMessages(g)
  BY DEF InMessages, Messages
<1>7. ASSUME NEW g \in Groups, g # new PROVE NoNews(g)
  BY <1>3, <1>4, <1>5, <1>6, <1>7 DEF NoNews
<1>8. Silent(new)'
  BY <1>1, <1>2, <1>3, <1>4, <1>5, <1>6 DEF Nowhere, Silent
<1>9. Absent'
  <2> SUFFICES ASSUME NEW g \in Groups, (Unbuilt(g) \/ g \in discarded)' PROVE Nowhere(g)'
    BY DEF Absent
  <2>1. built'[u] = built[u] + 1 /\ \A v \in Users : v # u => built'[v] = built[v]
    BY DEF TypeOK
  <2>2. g.by \in Users /\ g.n \in Nat
    BY SetupAssumption DEF Groups
  <2>3. built[g.by] \in Nat
    BY <2>2, SetupAssumption DEF TypeOK
  <2>4. Unbuilt(g)' => Unbuilt(g) /\ g # new
    BY <1>1, <2>1, <2>2, <2>3 DEF Unbuilt
  <2>5. g \in discarded' => g \in discarded /\ g # new
    <3>1. new \notin discarded
      BY <1>1 DEF SecretInv, Thrown, Unbuilt
    <3>. QED  BY <3>1
  <2>6. Nowhere(g) /\ g # new
    BY <2>4, <2>5 DEF SecretInv, Absent
  <2>7. \A v \in Users, j \in Callers : g \in call'[v][j].gid => g \in call[v][j].gid
    BY <1>5, <2>6
  <2>. QED  BY <1>7, <2>6, <2>7, StaysNowhere
<1>10. OwnWork'
  <2> SUFFICES ASSUME NEW v \in Users, NEW j \in Callers, NEW g \in call'[v][j].gid
               PROVE  g.by = v /\ (call'[v][j].at = "register" => Silent(g)')
    BY DEF OwnWork
  <2>1. CASE g = new
    <3>1. v = u
      BY <1>2, <1>5, <2>1 DEF Nowhere
    <3>. QED  BY <1>1, <1>8, <2>1, <3>1
  <2>2. CASE g # new
    <3>1. call'[v][j] = call[v][j]
      BY <1>5, <2>2
    <3>2. g \in Groups /\ g.by = v /\ (call[v][j].at = "register" => Silent(g))
      BY <3>1, CallFields DEF SecretInv, OwnWork
    <3>. QED  BY <1>7, <2>2, <3>1, <3>2, StaysSilent
  <2>. QED  BY <2>1, <2>2
<1>11. Thrown'
  <2>1. \A v \in Users : built[v] \in Nat /\ built[v] <= built'[v]
    BY SetupAssumption DEF TypeOK
  <2>2. ASSUME NEW g \in discarded PROVE ~(g.n > built'[g.by])
    <3>1. g.by \in Users /\ g.n \in Nat
      BY SetupAssumption DEF TypeOK, Groups
    <3>2. ~(g.n > built[g.by])
      BY DEF SecretInv, Thrown, Unbuilt
    <3>. QED  BY <2>1, <3>1, <3>2, SetupAssumption DEF TypeOK
  <2>. QED  BY <2>2 DEF Thrown, Unbuilt
<1>. QED  BY <1>9, <1>10, <1>11 DEF SecretInv

\* The refused group was nobody's but its builder's, who drops it.
LEMMA RefusedSecret ==
    ASSUME TypeOK, SecretInv, OneCaller, NEW u \in Users, NEW k \in Callers, Refused(u, k)
    PROVE  SecretInv'
<1> DEFINE G == call[u][k].gid
           H == held[u] \ G
<1>1. /\ SetState(u, {}, H) /\ call[u][k].at = "register"
      /\ UNCHANGED <<outbox, table, built>>
      /\ \/ /\ Save(u, {}, H) /\ discarded' = discarded \cup G
            /\ SetCall(u, k, "history", {}, {})
         \/ SaveFails(u, H) /\ UNCHANGED discarded /\ EndCall(u, k)
  BY DEF Refused, AfterRefusal
<1>2. \A v \in Users : held'[v] = IF v = u THEN H ELSE held[v]
  <2> HIDE DEF H
  <2>. QED  BY <1>1 DEF SetState, TypeOK
<1>3. \A v \in Users, j \in Callers :
         /\ call'[v][j].welcome \subseteq call[v][j].welcome
         /\ \/ v = u /\ j = k /\ call'[v][j].gid = {}
            \/ ~(v = u /\ j = k) /\ call'[v][j] = call[v][j]
  <2>1. ASSUME NEW v \in Users, NEW j \in Callers
        PROVE  \/ v = u /\ j = k /\ call'[v][j].gid = {} /\ call'[v][j].welcome = {}
               \/ ~(v = u /\ j = k) /\ call'[v][j] = call[v][j]
    <3>1. CASE SetCall(u, k, "history", {}, {})
      BY <3>1, SetCallEffect
    <3>2. CASE EndCall(u, k)
      <4>1. IF v = u /\ j = k THEN call'[v][j] = NoCall ELSE call'[v][j] = call[v][j]
        BY <3>2, EndCallEffect
      <4>. QED  BY <4>1 DEF NoCall
    <3>. QED  BY <1>1, <3>1, <3>2
  <2>. QED  BY <2>1
<1>4. \A g \in Groups : InMessages(g)' <=> InMessages(g)
  BY <1>1 DEF InMessages, Messages
<1>5. /\ saved'[u].held \subseteq saved[u].held \cup H
      /\ \A v \in Users : v # u => saved'[v] = saved[v]
  <2>1. H \in SUBSET Groups
    BY DEF TypeOK
  <2> HIDE DEF H
  <2>2. CASE Save(u, {}, H)
    BY <2>2 DEF Save, TypeOK
  <2>3. CASE SaveFails(u, H)
    BY <2>1, <2>3, HalfSaved DEF SaveFails
  <2>. QED  BY <1>1, <2>2, <2>3
<1>6. \A v \in Users : saved'[v].held \subseteq held[v] \cup saved[v].held
  BY <1>5
<1>7. \A g \in Groups : NoNews(g)
  BY <1>2, <1>3, <1>4, <1>6 DEF NoNews
<1>8. \A v \in Users, j \in Callers :
         /\ call'[v][j].gid \subseteq call[v][j].gid
         /\ call'[v][j].gid # {} /\ call'[v][j].at = "register" => call[v][j].at = "register"
  BY <1>3
<1>9. ASSUME NEW g \in G, discarded' = discarded \cup G, Save(u, {}, H) PROVE Nowhere(g)'
  <2>1. g \in Groups /\ g.by = u /\ Silent(g)
    BY <1>1, CallFields DEF SecretInv, OwnWork
  <2>2. Silent(g)'
    BY <1>7, <2>1, StaysSilent
  <2>3. g \notin held'[u] /\ g \notin saved'[u].held
    <3>1. saved'[u].held = H
      <4> HIDE DEF H
      <4>. QED  BY <1>9 DEF Save, TypeOK
    <3>. QED  BY <1>2, <3>1
  <2>4. ASSUME NEW v \in Users, NEW j \in Callers PROVE g \notin call'[v][j].gid
    <3>1. g \in call[v][j].gid => v = u /\ j = k
      BY <2>1 DEF SecretInv, OwnWork, OneCaller
    <3>. QED  BY <1>3, <3>1
  <2>. QED  BY <2>1, <2>2, <2>3, <2>4 DEF Nowhere
<1>10. Absent'
  <2> SUFFICES ASSUME NEW g \in Groups, (Unbuilt(g) \/ g \in discarded)' PROVE Nowhere(g)'
    BY DEF Absent
  <2>1. CASE Unbuilt(g) \/ g \in discarded
    <3>1. Nowhere(g)
      BY <2>1 DEF SecretInv, Absent
    <3>. QED  BY <1>7, <1>8, <3>1, StaysNowhere
  <2>2. CASE ~(Unbuilt(g) \/ g \in discarded)
    <3>1. ~Unbuilt(g)' /\ g \in discarded' /\ g \notin discarded
      BY <1>1, <2>2 DEF Unbuilt
    <3>2. Save(u, {}, H) /\ discarded' = discarded \cup G
      <4> HIDE DEF G, H
      <4>. QED  BY <1>1, <3>1
    <3>3. g \in G
      BY <3>1, <3>2
    <3>. QED  BY <1>9, <3>2, <3>3
  <2>. QED  BY <2>1, <2>2
<1>11. OwnWork'
  <2> SUFFICES ASSUME NEW v \in Users, NEW j \in Callers, NEW g \in call'[v][j].gid
               PROVE  g.by = v /\ (call'[v][j].at = "register" => Silent(g)')
    BY DEF OwnWork
  <2>1. g \in call[v][j].gid /\ g \in Groups
    BY <1>8, CallFields
  <2>2. g.by = v /\ (call[v][j].at = "register" => Silent(g))
    BY <2>1 DEF SecretInv, OwnWork
  <2>3. call'[v][j].at = "register" => call[v][j].at = "register"
    BY <1>8
  <2>4. Silent(g) => Silent(g)'
    BY <1>7, <2>1, StaysSilent
  <2>. QED  BY <2>2, <2>3, <2>4
<1>12. Thrown'
  <2>1. \A g \in G : ~Unbuilt(g)
    BY CallFields DEF SecretInv, Absent, Nowhere
  <2>2. discarded' \subseteq discarded \cup G
    <3> HIDE DEF G
    <3>. QED  BY <1>1
  <2> HIDE DEF G
  <2>. QED  BY <1>1, <2>1, <2>2 DEF SecretInv, Thrown, Unbuilt
<1>. QED  BY <1>10, <1>11, <1>12 DEF SecretInv

\* Who joins had the group's welcome in the table.
LEMMA JoinSecret ==
    ASSUME TypeOK, SecretInv, NEW u \in Users, NEW I, I \subseteq 1..Len(table),
           ProcessWelcomes(u, I), UNCHANGED <<outbox, table, built, discarded>>,
           \A v \in Users, j \in Callers :
               /\ call'[v][j].gid \subseteq call[v][j].gid
               /\ call'[v][j].welcome \subseteq call[v][j].welcome
               /\ call'[v][j].at = "register" => call[v][j].at = "register"
    PROVE  SecretInv'
<1>1. \A g \in Groups : InMessages(g)' <=> InMessages(g)
  BY DEF InMessages, Messages
<1>2. ASSUME UNCHANGED mlsVars, NEW g \in Groups PROVE NoNews(g)
  BY <1>1, <1>2 DEF NoNews, mlsVars
<1>3. ASSUME NEW W \in SUBSET Groups, \E i \in I : W = table[i].welcome,
             SetState(u, W, held[u] \cup W),
             Save(u, W, held[u] \cup W) \/ SaveFails(u, held[u] \cup W),
             NEW g \in Groups, Silent(g)
      PROVE  NoNews(g)
  <2>1. g \notin W
    <3>1. PICK i \in I : W = table[i].welcome
      BY <1>3
    <3>2. table[i] \in Messages
      BY <3>1 DEF Messages
    <3>. QED  BY <1>3, <3>1, <3>2 DEF Silent, InMessages
  <2> DEFINE H == held[u] \cup W
  <2>2. (g \in H <=> g \in held[u]) /\ H \in SUBSET Groups
    BY <2>1 DEF TypeOK
  <2> HIDE DEF H
  <2>3. held' = [held EXCEPT ![u] = H]
    BY <1>3 DEF SetState, H
  <2>4. saved' = [saved EXCEPT ![u] = [mapping |-> W, held |-> H]] \/ SaveFails(u, H)
    BY <1>3 DEF Save, H
  <2>5. \A v \in Users : g \in held'[v] => g \in held[v]
    BY <2>2, <2>3 DEF TypeOK
  <2>6. \A v \in Users : g \in saved'[v].held => g \in held[v] \/ g \in saved[v].held
    <3>1. CASE saved' = [saved EXCEPT ![u] = [mapping |-> W, held |-> H]]
      <4>1. saved'[u].held = H /\ \A v \in Users : v # u => saved'[v] = saved[v]
        BY <3>1 DEF TypeOK
      <4>. QED  BY <2>2, <4>1
    <3>2. CASE SaveFails(u, H)
      <4>1. PICK K \in SUBSET Groups : K = H
        BY <2>2
      <4>2. \A v \in Users : /\ saved'[v].held \subseteq saved[v].held \cup K
                             /\ v # u => saved'[v] = saved[v]
        <5>1. SaveFails(u, K)
          BY <3>2, <4>1 DEF SaveFails
        <5>. QED  BY <5>1, SaveFailsAdds
      <4>3. ASSUME NEW v \in Users, g \in saved'[v].held
            PROVE  g \in held[v] \/ g \in saved[v].held
        <5>1. CASE v = u
          BY <2>2, <4>1, <4>2, <4>3, <5>1
        <5>2. CASE v # u
          BY <4>2, <4>3, <5>2
        <5>. QED  BY <5>1, <5>2
      <4>. QED  BY <4>3
    <3>. QED  BY <2>4, <3>1, <3>2
  <2>. QED  BY <1>1, <2>5, <2>6 DEF NoNews
<1>4. \A g \in Groups : Silent(g) => NoNews(g)
  <2>1. CASE UNCHANGED mlsVars
    BY <1>2, <2>1
  <2>2. CASE ~UNCHANGED mlsVars
    <3>1. PICK W \in SUBSET Groups :
             /\ \E i \in I : W = table[i].welcome /\ table[i].from # u
             /\ mapping[u] = {}
             /\ SetState(u, W, held[u] \cup W)
             /\ \/ Save(u, W, held[u] \cup W) /\ UNCHANGED faults
                \/ SaveFails(u, held[u] \cup W)
      BY <2>2, WelcomeEffect, Zenon
    <3>. QED  BY <1>3, <3>1
  <2>. QED  BY <2>1, <2>2
<1>5. \A v \in Users, j \in Callers : call'[v][j].gid \subseteq Groups
  BY CallFields
<1>6. \A g \in Groups : Nowhere(g) => NoNews(g)
  BY <1>4 DEF Nowhere
<1>7. \A v \in Users, j \in Callers :
         \A g \in call'[v][j].gid : Silent(g) => NoNews(g)
  BY <1>4, <1>5
<1>. QED  BY <1>6, <1>7, QuietSecret

\* A call goes on without touching messages or groups.
LEMMA SetCallSecret ==
    ASSUME TypeOK, SecretInv, NEW u \in Users, NEW k \in Callers, NEW stage, NEW G,
           SetCall(u, k, stage, G, {}), stage # "register", G \subseteq call[u][k].gid,
           UNCHANGED <<outbox, table, mlsVars, built, discarded>>
    PROVE  SecretInv'
<1>1. \A v \in Users, j \in Callers :
         /\ call'[v][j].gid \subseteq call[v][j].gid
         /\ call'[v][j].welcome \subseteq call[v][j].welcome
         /\ call'[v][j].at = "register" => call[v][j].at = "register"
  BY SetCallEffect
<1>2. \A g \in Groups : NoNews(g)
  BY <1>1, SameMessages
<1>3. \A v \in Users, j \in Callers : \A g \in call'[v][j].gid : NoNews(g)
  BY <1>1, <1>2, CallFields
<1>. QED  BY <1>1, <1>2, <1>3, QuietSecret

LEMMA BeginSecret ==
    ASSUME TypeOK, SecretInv, NEW u \in Users, NEW k \in Callers, Begin(u, k)
    PROVE  SecretInv'
<1>1. UNCHANGED <<outbox, table, mlsVars, built, discarded>>
  BY DEF Begin
<1>2. ASSUME NEW v \in Users, NEW j \in Callers
      PROVE  /\ call'[v][j].gid \subseteq call[v][j].gid
             /\ call'[v][j].welcome \subseteq call[v][j].welcome
             /\ call'[v][j].at = "register" => call[v][j].at = "register"
  BY DEF Begin, TypeOK
<1>3. \A g \in Groups : NoNews(g)
  BY <1>1, <1>2, SameMessages
<1>4. \A v \in Users, j \in Callers : \A g \in call'[v][j].gid : NoNews(g)
  BY <1>2, <1>3, CallFields
<1>. QED  BY <1>1, <1>2, <1>3, <1>4, QuietSecret

\* The welcome is of the group the server took, which no other call works on.
LEMMA CommitSecret ==
    ASSUME TypeOK, SecretInv, OneCaller, NEW u \in Users, NEW k \in Callers, Commit(u, k)
    PROVE  SecretInv'
<1>1. /\ call[u][k].at = "commit" /\ SetCall(u, k, "ready", {}, call[u][k].gid)
      /\ UNCHANGED <<outbox, table, mlsVars, built, discarded>>
  BY DEF Commit, WelcomeOf
<1>2. \A v \in Users, j \in Callers :
         IF v = u /\ j = k
         THEN /\ call'[v][j].at = "ready" /\ call'[v][j].gid = {}
              /\ call'[v][j].welcome = call[u][k].gid
         ELSE call'[v][j] = call[v][j]
  BY <1>1, SetCallEffect
<1>3. ASSUME NEW g \in Groups, g \notin call[u][k].gid PROVE NoNews(g)
  <2>1. InMessages(g)' => InMessages(g)
    BY <1>1 DEF InMessages, Messages
  <2>2. \A v \in Users, j \in Callers : g \in call'[v][j].welcome => g \in call[v][j].welcome
    BY <1>2, <1>3
  <2>. QED  BY <1>1, <2>1, <2>2 DEF NoNews, mlsVars
<1>4. \A g \in Groups : Nowhere(g) => NoNews(g)
  BY <1>3 DEF Nowhere
<1>5. ASSUME NEW v \in Users, NEW j \in Callers, call'[v][j].at = "register",
             NEW g \in call'[v][j].gid
      PROVE  NoNews(g)
  <2>1. ~(v = u /\ j = k) /\ g \in call[v][j].gid /\ g \in Groups
    BY <1>2, <1>5, CallFields
  <2>2. g \notin call[u][k].gid
    BY <2>1 DEF SecretInv, OwnWork, OneCaller
  <2>. QED  BY <1>3, <2>1, <2>2
<1>6. \A v \in Users, j \in Callers :
         /\ call'[v][j].gid \subseteq call[v][j].gid
         /\ call'[v][j].at = "register" => call[v][j].at = "register"
  BY <1>2
<1>. QED  BY <1>1, <1>4, <1>5, <1>6, QuietSecret

\* What is encrypted is under a group the sender has; the group of a call that
\* waits for the server is another device's.
LEMMA EncryptSecret ==
    ASSUME TypeOK, SecretInv, OneCaller, NEW u \in Users, NEW k \in Callers, Encrypt(u, k)
    PROVE  SecretInv'
<1>1. /\ call[u][k].at = "ready"
      /\ outbox' = outbox \cup [from : {u}, by : {k}, n : {call[u][k].n},
                                gid : mapping[u] \cap held[u], welcome : {call[u][k].welcome}]
      /\ EndCall(u, k) \/ SetCall(u, k, "posting", {}, {})
      /\ UNCHANGED <<table, mapping, held, built, discarded>>
      /\ NoGain
  BY SavingGain DEF Encrypt
<1>2. \A v \in Users, j \in Callers :
         /\ call'[v][j].gid \subseteq call[v][j].gid
         /\ call'[v][j].welcome \subseteq call[v][j].welcome
         /\ call'[v][j].at = "register" =>
               call[v][j].at = "register" /\ ~(v = u /\ j = k)
  <2>1. ASSUME NEW v \in Users, NEW j \in Callers
        PROVE  IF v = u /\ j = k
               THEN /\ call'[v][j].at \in {"idle", "posting"}
                    /\ call'[v][j].gid = {} /\ call'[v][j].welcome = {}
               ELSE call'[v][j] = call[v][j]
    <3>1. CASE SetCall(u, k, "posting", {}, {})
      BY <3>1, SetCallEffect
    <3>2. CASE EndCall(u, k)
      <4>1. IF v = u /\ j = k THEN call'[v][j] = NoCall ELSE call'[v][j] = call[v][j]
        BY <3>2, EndCallEffect
      <4>. QED  BY <4>1 DEF NoCall
    <3>. QED  BY <1>1, <3>1, <3>2
  <2>. QED  BY <2>1
<1>3. ASSUME NEW g \in Groups, g \notin held[u], g \notin call[u][k].welcome PROVE NoNews(g)
  <2>1. \A m \in outbox' \ outbox : m.gid \in held[u] /\ m.welcome = call[u][k].welcome
    BY <1>1
  <2>2. \A m \in Messages' : m \in Messages \/ m \in outbox' \ outbox
    BY <1>1 DEF Messages
  <2>3. InMessages(g)' => InMessages(g)
    BY <1>3, <2>1, <2>2 DEF InMessages
  <2>. QED  BY <1>1, <1>2, <2>3 DEF NoNews, NoGain
<1>4. ASSUME NEW g \in Groups, Nowhere(g) PROVE NoNews(g)
  BY <1>3, <1>4 DEF Nowhere, Silent
<1>5. ASSUME NEW v \in Users, NEW j \in Callers, call'[v][j].at = "register",
             NEW g \in call'[v][j].gid, Silent(g)
      PROVE  NoNews(g)
  <2>1. ~(v = u /\ j = k) /\ g \in call[v][j].gid /\ g \in Groups
    BY <1>2, <1>5, CallFields
  <2>2. g.by # u
    BY <2>1 DEF SecretInv, OwnWork, OneCaller
  <2>3. g \notin held[u] /\ g \notin call[u][k].welcome
    BY <1>5, <2>2 DEF Silent
  <2>. QED  BY <1>3, <2>1, <2>3
<1>. QED  BY <1>1, <1>2, <1>4, <1>5, QuietSecret

\* The table gets what the outbox had.
LEMMA AcceptSecret ==
    ASSUME TypeOK, SecretInv, NEW m \in outbox, Accept(m)
    PROVE  SecretInv'
<1>1. m \in Rows /\ m.from \in Users /\ m.by \in Callers
  BY DEF TypeOK, Rows
<1>2. /\ table' = Append(table, m) /\ outbox' = outbox \ {m}
      /\ EndCall(m.from, m.by) \/ UNCHANGED call
      /\ UNCHANGED <<mlsVars, built, discarded>>
  BY DEF Accept
<1>3. Messages' \subseteq Messages
  <2>1. Len(table') = Len(table) + 1 /\ table'[Len(table) + 1] = m
        /\ (\A i \in 1..Len(table) : table'[i] = table[i])
    BY <1>1, <1>2 DEF TypeOK
  <2>2. Len(table) \in Nat
    BY LenProperties DEF TypeOK
  <2>3. ASSUME NEW i \in 1..Len(table') PROVE table'[i] \in Messages
    <3>1. i \in 1..Len(table) \/ i = Len(table) + 1
      BY <2>1, <2>2
    <3>. QED  BY <2>1, <3>1 DEF Messages
  <2>. QED  BY <1>2, <2>3 DEF Messages
<1>4. ASSUME NEW v \in Users, NEW j \in Callers
      PROVE  call'[v][j] = NoCall \/ call'[v][j] = call[v][j]
  BY <1>1, <1>2, EndCallEffect
<1>5. \A v \in Users, j \in Callers :
         /\ call'[v][j].gid \subseteq call[v][j].gid
         /\ call'[v][j].welcome \subseteq call[v][j].welcome
         /\ call'[v][j].at = "register" => call[v][j].at = "register"
  BY <1>4 DEF NoCall
<1>6. ASSUME NEW g \in Groups PROVE NoNews(g)
  BY <1>2, <1>3, <1>5 DEF NoNews, InMessages, mlsVars
<1>7. \A v \in Users, j \in Callers : \A g \in call'[v][j].gid : NoNews(g)
  BY <1>5, <1>6, CallFields
<1>. QED  BY <1>2, <1>5, <1>6, <1>7, QuietSecret

\* A restarted device has what its files had, and at most the groups whose save
\* was cut short.
LEMMA CrashSecret ==
    ASSUME TypeOK, SecretInv, NEW u \in Users, Crash(u) \/ StopInSave(u)
    PROVE  SecretInv'
<1>1. PICK H \in SUBSET Groups :
         /\ Stop(u, H)
         /\ \/ H \subseteq held[u]
            \/ \E i \in 1..Len(table) : table[i].from # u /\ H = held[u] \cup table[i].welcome
  BY CrashEffect
<1>2. /\ held' = [held EXCEPT ![u] = saved[u].held \cup H]
      /\ saved' = [saved EXCEPT ![u].held = @ \cup H]
      /\ call' = [call EXCEPT ![u] = [k \in Callers |-> NoCall]]
      /\ UNCHANGED <<outbox, table, built, discarded>>
  BY <1>1 DEF Stop, SetState
<1>3. ASSUME NEW v \in Users, NEW j \in Callers
      PROVE  call'[v][j] = NoCall \/ call'[v][j] = call[v][j]
  BY <1>2 DEF TypeOK
<1>4. \A v \in Users, j \in Callers :
         /\ call'[v][j].gid \subseteq call[v][j].gid
         /\ call'[v][j].welcome \subseteq call[v][j].welcome
         /\ call'[v][j].at = "register" => call[v][j].at = "register"
  BY <1>3 DEF NoCall
<1>5. \A v \in Users : /\ v = u => held'[v] = saved[v].held \cup H
                       /\ v # u => held'[v] = held[v]
                       /\ saved'[v].held \subseteq saved[v].held \cup H
                       /\ v # u => saved'[v] = saved[v]
  BY <1>2, HalfSaved DEF TypeOK
<1>6. ASSUME NEW g \in Groups, Silent(g) PROVE NoNews(g)
  <2>1. g \in H => g \in held[u]
    <3>1. ASSUME NEW i \in 1..Len(table) PROVE g \notin table[i].welcome
      <4>1. table[i] \in Messages
        BY DEF Messages
      <4>. QED  BY <1>6, <4>1 DEF Silent, InMessages
    <3>. QED  BY <1>1, <3>1
  <2>2. \A v \in Users : /\ g \in held'[v] => g \in held[v] \/ g \in saved[v].held
                         /\ g \in saved'[v].held => g \in held[v] \/ g \in saved[v].held
    BY <1>5, <2>1
  <2>3. InMessages(g)' => InMessages(g)
    BY <1>2 DEF InMessages, Messages
  <2>. QED  BY <1>4, <2>2, <2>3 DEF NoNews
<1>7. \A g \in Groups : Nowhere(g) => NoNews(g)
  BY <1>6 DEF Nowhere
<1>8. \A v \in Users, j \in Callers : \A g \in call'[v][j].gid : Silent(g) => NoNews(g)
  BY <1>4, <1>6, CallFields
<1>. QED  BY <1>2, <1>4, <1>7, <1>8, QuietSecret

\* A step of the server or of a fetch, which leaves all of this alone.
LEMMA AsideSecret ==
    ASSUME TypeOK, SecretInv, UNCHANGED mlsVars \/ NoGain,
           UNCHANGED <<outbox, table, built, discarded, call>>
    PROVE  SecretInv'
<1>1. \A g \in Groups : NoNews(g)
  BY SameMessages
<1>2. \A v \in Users, j \in Callers : \A g \in call'[v][j].gid : NoNews(g)
  BY <1>1, CallFields
<1>. QED  BY <1>1, <1>2, QuietSecret

LEMMA NextSecret == TypeOK /\ SecretInv /\ OneCaller /\ [Next]_vars => SecretInv'
<1> SUFFICES ASSUME TypeOK, SecretInv, OneCaller, [Next]_vars PROVE SecretInv'
  OBVIOUS
<1>1. ASSUME NEW u \in Users, NEW k \in Callers, SendStep(u, k) PROVE SecretInv'
  <2>1. CASE Begin(u, k) \/ Refused(u, k) \/ Commit(u, k) \/ Encrypt(u, k)
    BY <2>1, BeginSecret, RefusedSecret, CommitSecret, EncryptSecret
  <2>2. CASE ClaimFails(u, k) \/ HistoryFails(u, k) \/ PostFails(u, k)
             \/ (\E delivered \in BOOLEAN : RegisterFails(u, k, delivered))
             \/ (\E delivered \in BOOLEAN : CommitFails(u, k, delivered))
    <3>1. EndCall(u, k) /\ UNCHANGED <<outbox, table, mlsVars, built, discarded>>
      BY <2>2 DEF ClaimFails, HistoryFails, PostFails, RegisterFails, CommitFails
    <3>. QED  BY <3>1, EndCallSecret
  <2>6. CASE SendLost(u, k)
    <3>1. EndCall(u, k) /\ NoGain /\ UNCHANGED <<outbox, table, built, discarded>>
      BY <2>6, SavingGain DEF SendLost
    <3>. QED  BY <3>1, EndCallSecret
  <2>3. CASE Build(u, k) \/ BuildUnsaved(u, k)
    BY <2>3, NewSecret DEF Build, BuildUnsaved
  <2>4. CASE Registered(u, k)
    <3>1. /\ SetCall(u, k, "commit", call[u][k].gid, {})
          /\ UNCHANGED <<outbox, table, mlsVars, built, discarded>>
      BY <2>4 DEF Registered
    <3>. QED  BY <3>1, SetCallSecret
  <2>5. CASE JoinFromHistory(u, k)
    <3>1. /\ ProcessWelcomes(u, 1..Len(table))
          /\ SetCall(u, k, "ready", {}, {}) \/ EndCall(u, k)
          /\ UNCHANGED <<outbox, table, built, discarded>>
      BY <2>5 DEF JoinFromHistory
    <3>2. ASSUME NEW v \in Users, NEW j \in Callers
          PROVE  /\ call'[v][j].gid \subseteq call[v][j].gid
                 /\ call'[v][j].welcome \subseteq call[v][j].welcome
                 /\ call'[v][j].at = "register" => call[v][j].at = "register"
      <4>1. CASE SetCall(u, k, "ready", {}, {})
        BY <4>1, SetCallEffect
      <4>2. CASE EndCall(u, k)
        <5>1. call'[v][j] = NoCall \/ call'[v][j] = call[v][j]
          BY <4>2, EndCallEffect
        <5>. QED  BY <5>1 DEF NoCall
      <4>. QED  BY <3>1, <4>1, <4>2
    <3>. QED  BY <3>1, <3>2, JoinSecret
  <2>. QED  BY <1>1, <2>1, <2>2, <2>3, <2>4, <2>5, <2>6 DEF SendStep
<1>2. ASSUME NEW m \in outbox, Accept(m) PROVE SecretInv'
  BY <1>2, AcceptSecret
<1>3. ASSUME NEW r \in registering, RegisterCheck(r) \/ RegisterInsert(r) PROVE SecretInv'
  BY <1>3, AsideSecret DEF RegisterCheck, RegisterInsert
<1>4. ASSUME NEW u \in Users, ReadStep(u) PROVE SecretInv'
  <2>1. CASE Join(u)
    <3>1. /\ page[u] \ local[u] \subseteq 1..Len(table)
          /\ ProcessWelcomes(u, page[u] \ local[u])
          /\ UNCHANGED <<outbox, table, built, discarded, call>>
      BY <2>1 DEF Join, TypeOK
    <3>. QED  BY <3>1, JoinSecret
  <2>2. CASE ~Join(u) /\ ~Read(u)
    <3>1. UNCHANGED <<outbox, table, mlsVars, built, discarded, call>>
      BY <1>4, <2>2 DEF ReadStep, Fetch, FetchWelcomes, HandleQueued
    <3>. QED  BY <3>1, AsideSecret
  <2>3. CASE Read(u)
    <3>1. NoGain /\ UNCHANGED <<outbox, table, built, discarded, call>>
      BY <2>3, SavingGain DEF Read
    <3>. QED  BY <3>1, AsideSecret
  <2>. QED  BY <2>1, <2>2, <2>3
<1>5. ASSUME NEW u \in Users, Crash(u) \/ StopInSave(u) PROVE SecretInv'
  BY <1>5, CrashSecret
<1>6. CASE UNCHANGED vars
  BY <1>6, AsideSecret DEF vars
<1>. QED  BY <1>1, <1>2, <1>3, <1>4, <1>5, <1>6 DEF Next, ServerStep

\* One send at a time: what a refused caller threw away encrypts nothing.
THEOREM DiscardedUnused == ASSUME OneCaller PROVE Spec => []DiscardedNeverUsed
<1>1. Init => TypeOK /\ SecretInv
  BY InitType, InitSecret
<1>2. TypeOK /\ SecretInv /\ [Next]_vars => (TypeOK /\ SecretInv)'
  BY NextType, NextSecret
<1>3. TypeOK /\ SecretInv => DiscardedNeverUsed
  <2> SUFFICES ASSUME TypeOK, SecretInv PROVE DiscardedNeverUsed
    OBVIOUS
  <2>1. \A m \in Messages : m.gid \notin discarded
    BY DEF SecretInv, Absent, Nowhere, Silent, InMessages, TypeOK
  <2>. QED  BY <2>1 DEF DiscardedNeverUsed, Messages
<1>. QED  BY <1>1, <1>2, <1>3, PTL DEF Spec

(***************************************************************************)
(* As long as nothing fails, whoever sends under a group has announced it. *)
(***************************************************************************)
Single(S) == \A g, h \in S : g = h
Told(g) == \E i \in 1..Len(table) : table[i].welcome = {g}
\* The call that made g has still to send its welcome.
Announcing(u, k, g) ==
    \/ call[u][k].at \in {"register", "commit"} /\ g \in call[u][k].gid
    \/ call[u][k].at = "ready" /\ g \in call[u][k].welcome
    \/ call[u][k].at = "posting" /\ \E m \in outbox : m.from = u /\ m.welcome = {g}

OneGroupEach ==
    /\ \A u \in Users : Single(mapping[u]) /\ mapping[u] \subseteq held[u]
    /\ \A m \in Messages : Single(m.welcome)
    /\ \A u \in Users, k \in Callers : Single(call[u][k].welcome)
\* The group in use has been announced, or the one call will do it ...
MappedTold ==
    \A u \in Users : \A g \in mapping[u] : Told(g) \/ \E k \in Callers : Announcing(u, k, g)
\* ... and it is the group that call works on.
WorkMapped ==
    \A u \in Users, k \in Callers :
        /\ call[u][k].at \in {"register", "commit"} =>
               call[u][k].gid = mapping[u] /\ mapping[u] # {}
        /\ call[u][k].at = "ready" /\ call[u][k].welcome # {} =>
               call[u][k].welcome = mapping[u]
\* A device has one message on its way, which its call waits for.
Awaited ==
    /\ \A m \in outbox : /\ call[m.from][m.by].at = "posting"
                         /\ call[m.from][m.by].n = m.n
    /\ \A m, o \in outbox : m.from = o.from => m = o
SentTold == \A m \in outbox : Told(m.gid) \/ m.welcome = {m.gid}
RowsTold == \A i \in 1..Len(table) : \E j \in 1..i : table[j].welcome = {table[i].gid}
ToldInv ==
    /\ OneGroupEach /\ MappedTold /\ WorkMapped
    /\ Awaited /\ SentTold /\ RowsTold

LEMMA InitTold == Init => ToldInv
<1> SUFFICES ASSUME Init PROVE ToldInv
  OBVIOUS
<1>1. 1..Len(table) = {} /\ outbox = {}
  <2>1. table = <<>> /\ outbox = {}
    BY DEF Init
  <2>. QED  BY <2>1
<1>2. \A u \in Users, k \in Callers : call[u][k].at = "idle" /\ call[u][k].welcome = {}
  BY DEF Init, NoCall
<1>3. \A u \in Users : mapping[u] = {} /\ held[u] = {}
  BY DEF Init
<1>4. OneGroupEach
  BY <1>1, <1>2, <1>3 DEF OneGroupEach, Single, Messages
<1>5. WorkMapped
  BY <1>2 DEF WorkMapped
<1>. QED  BY <1>1, <1>3, <1>4, <1>5 DEF ToldInv, MappedTold, Awaited, SentTold, RowsTold

\* A step of one call that is not waiting for its POST.
LEMMA CallStepTold ==
    ASSUME TypeOK, ToldInv, OneCaller, NEW u \in Users, NEW k \in Callers,
           UNCHANGED <<outbox, table>>,
           call[u][k].at # "posting",
           \A v \in Users, j \in Callers : ~(v = u /\ j = k) => call'[v][j] = call[v][j],
           \A v \in Users : v # u => mapping'[v] = mapping[v] /\ held'[v] = held[v],
           Single(mapping'[u]), mapping'[u] \subseteq held'[u], Single(call'[u][k].welcome),
           \A g \in mapping'[u] : Told(g) \/ Announcing(u, k, g)',
           call'[u][k].at \in {"register", "commit"} =>
               call'[u][k].gid = mapping'[u] /\ mapping'[u] # {},
           call'[u][k].at = "ready" /\ call'[u][k].welcome # {} =>
               call'[u][k].welcome = mapping'[u]
    PROVE  ToldInv'
<1>1. \A g : Told(g)' <=> Told(g)
  BY DEF Told
<1>2. OneGroupEach'
  <2>1. Messages' = Messages
    BY DEF Messages
  <2>2. \A v \in Users : Single(mapping'[v]) /\ mapping'[v] \subseteq held'[v]
    BY DEF ToldInv, OneGroupEach
  <2>3. \A v \in Users, j \in Callers : Single(call'[v][j].welcome)
    BY DEF ToldInv, OneGroupEach
  <2>4. \A m \in Messages : Single(m.welcome)
    BY DEF ToldInv, OneGroupEach
  <2>. QED  BY <2>1, <2>2, <2>3, <2>4 DEF OneGroupEach, Single
<1>3. MappedTold'
  <2> SUFFICES ASSUME NEW v \in Users, NEW g \in mapping'[v]
               PROVE  Told(g)' \/ \E j \in Callers : Announcing(v, j, g)'
    BY DEF MappedTold
  <2>1. CASE v = u
    BY <1>1, <2>1
  <2>2. CASE v # u
    <3>1. g \in mapping[v] /\ \A j \in Callers : call'[v][j] = call[v][j]
      BY <2>2
    <3>2. Told(g) \/ \E j \in Callers : Announcing(v, j, g)
      BY <3>1 DEF ToldInv, MappedTold
    <3>3. \A j \in Callers : Announcing(v, j, g) => Announcing(v, j, g)'
      BY <3>1 DEF Announcing
    <3>. QED  BY <1>1, <3>2, <3>3
  <2>. QED  BY <2>1, <2>2
<1>4. WorkMapped'
  <2> SUFFICES ASSUME NEW v \in Users, NEW j \in Callers
               PROVE  /\ call'[v][j].at \in {"register", "commit"} =>
                             call'[v][j].gid = mapping'[v] /\ mapping'[v] # {}
                      /\ call'[v][j].at = "ready" /\ call'[v][j].welcome # {} =>
                             call'[v][j].welcome = mapping'[v]
    BY DEF WorkMapped
  <2>1. CASE v = u
    <3>1. j = k
      BY DEF OneCaller
    <3>. QED  BY <2>1, <3>1
  <2>2. CASE v # u
    BY <2>2 DEF ToldInv, WorkMapped
  <2>. QED  BY <2>1, <2>2
<1>5. Awaited'
  <2>1. ASSUME NEW m \in outbox
        PROVE  call'[m.from][m.by].at = "posting" /\ call'[m.from][m.by].n = m.n
    <3>1. m.from \in Users /\ m.by \in Callers
      BY DEF TypeOK, Rows
    <3>2. call[m.from][m.by].at = "posting" /\ call[m.from][m.by].n = m.n
      BY DEF ToldInv, Awaited
    <3>. QED  BY <3>1, <3>2
  <2>. QED  BY <2>1 DEF ToldInv, Awaited
<1>6. SentTold' /\ RowsTold'
  BY <1>1 DEF ToldInv, SentTold, RowsTold
<1>. QED  BY <1>2, <1>3, <1>4, <1>5, <1>6 DEF ToldInv

\* Who has a group in use and no call that will announce it, uses a known one.
LEMMA UseIsTold ==
    ASSUME ToldInv, OneCaller, NEW u \in Users, NEW k \in Callers, NEW g \in mapping[u],
           ~Announcing(u, k, g)
    PROVE  Told(g)
BY DEF ToldInv, MappedTold, OneCaller

LEMMA BeginTold ==
    ASSUME TypeOK, ToldInv, OneCaller, NEW u \in Users, NEW k \in Callers, Begin(u, k)
    PROVE  ToldInv'
<1>1. /\ call[u][k].at = "idle" /\ UNCHANGED <<outbox, table, mapping, held>>
      /\ call'[u][k].at \in {"claim", "ready"} /\ call'[u][k].welcome = {}
      /\ \A v \in Users, j \in Callers : ~(v = u /\ j = k) => call'[v][j] = call[v][j]
  BY DEF Begin, TypeOK, mlsVars
<1>2. \A g \in mapping[u] : Told(g)
  <2>1. \A g : ~Announcing(u, k, g)
    BY <1>1 DEF Announcing
  <2>. QED  BY <2>1, UseIsTold
<1>3. Single(mapping'[u]) /\ mapping'[u] \subseteq held'[u] /\ Single(call'[u][k].welcome)
  BY <1>1 DEF ToldInv, OneGroupEach, Single
<1>4. \A g \in mapping'[u] : Told(g)
  BY <1>1, <1>2
<1>. QED  BY <1>1, <1>3, <1>4, CallStepTold

LEMMA BuildTold ==
    ASSUME TypeOK, ToldInv, OneCaller, NEW u \in Users, NEW k \in Callers, Build(u, k)
    PROVE  ToldInv'
<1>1. PICK new \in Groups : new = NewGroup(u)
  BY NewGroupType DEF Build
<1>2. /\ call[u][k].at = "claim" /\ UNCHANGED <<outbox, table>>
      /\ mapping' = [mapping EXCEPT ![u] = {new}]
      /\ held' = [held EXCEPT ![u] = held[u] \cup {new}]
      /\ SetCall(u, k, "register", {new}, {})
  BY <1>1 DEF Build, SetState
<1>3. /\ mapping'[u] = {new} /\ new \in held'[u]
      /\ \A v \in Users : v # u => mapping'[v] = mapping[v] /\ held'[v] = held[v]
  BY <1>2 DEF TypeOK
<1>4. /\ call'[u][k].at = "register" /\ call'[u][k].gid = {new} /\ call'[u][k].welcome = {}
      /\ \A v \in Users, j \in Callers : ~(v = u /\ j = k) => call'[v][j] = call[v][j]
  BY <1>2, SetCallEffect
<1>5. Single(mapping'[u]) /\ mapping'[u] \subseteq held'[u] /\ Single(call'[u][k].welcome)
  BY <1>3, <1>4 DEF Single
<1>6. \A g \in mapping'[u] : Announcing(u, k, g)'
  BY <1>3, <1>4 DEF Announcing
<1>7. /\ call'[u][k].gid = mapping'[u] /\ mapping'[u] # {}
      /\ call'[u][k].at # "ready"
      /\ call[u][k].at # "posting"
  BY <1>2, <1>3, <1>4
<1>. QED  BY <1>2, <1>3, <1>4, <1>5, <1>6, <1>7, CallStepTold

LEMMA RegisteredTold ==
    ASSUME TypeOK, ToldInv, OneCaller, NEW u \in Users, NEW k \in Callers, Registered(u, k)
    PROVE  ToldInv'
<1>1. /\ call[u][k].at = "register" /\ UNCHANGED <<outbox, table, mapping, held>>
      /\ SetCall(u, k, "commit", call[u][k].gid, {})
  BY DEF Registered, mlsVars
<1>2. /\ call'[u][k].at = "commit" /\ call'[u][k].gid = call[u][k].gid
      /\ call'[u][k].welcome = {}
      /\ \A v \in Users, j \in Callers : ~(v = u /\ j = k) => call'[v][j] = call[v][j]
  BY <1>1, SetCallEffect
<1>3. call[u][k].gid = mapping[u] /\ mapping[u] # {}
  BY <1>1 DEF ToldInv, WorkMapped
<1>4. Single(mapping'[u]) /\ mapping'[u] \subseteq held'[u] /\ Single(call'[u][k].welcome)
  BY <1>1, <1>2 DEF ToldInv, OneGroupEach, Single
<1>5. \A g \in mapping'[u] : Announcing(u, k, g)'
  BY <1>1, <1>2, <1>3 DEF Announcing
<1>6. /\ call'[u][k].gid = mapping'[u] /\ mapping'[u] # {}
      /\ call'[u][k].at # "ready"
      /\ call[u][k].at # "posting"
  BY <1>1, <1>2, <1>3
<1>. QED  BY <1>1, <1>2, <1>4, <1>5, <1>6, CallStepTold

LEMMA RefusedTold ==
    ASSUME TypeOK, ToldInv, OneCaller, NEW u \in Users, NEW k \in Callers, Refused(u, k)
    PROVE  ToldInv'
<1>1. /\ call[u][k].at = "register" /\ UNCHANGED <<outbox, table>>
      /\ mapping' = [mapping EXCEPT ![u] = {}]
      /\ held' = [held EXCEPT ![u] = held[u] \ call[u][k].gid]
      /\ SetCall(u, k, "history", {}, {}) \/ EndCall(u, k)
  BY DEF Refused, AfterRefusal, SetState
<1>2. /\ mapping'[u] = {}
      /\ \A v \in Users : v # u => mapping'[v] = mapping[v] /\ held'[v] = held[v]
  BY <1>1 DEF TypeOK
<1>3. /\ call'[u][k].at \in {"history", "idle"} /\ call'[u][k].welcome = {}
      /\ \A v \in Users, j \in Callers : ~(v = u /\ j = k) => call'[v][j] = call[v][j]
  <2>1. CASE SetCall(u, k, "history", {}, {})
    BY <2>1, SetCallEffect
  <2>2. CASE EndCall(u, k)
    <3>1. NoCall.at = "idle" /\ NoCall.welcome = {}
      BY DEF NoCall
    <3>. QED  BY <2>2, <3>1, EndCallEffect
  <2>. QED  BY <1>1, <2>1, <2>2
<1>4. Single(mapping'[u]) /\ mapping'[u] \subseteq held'[u] /\ Single(call'[u][k].welcome)
  BY <1>2, <1>3 DEF Single
<1>. QED  BY <1>1, <1>2, <1>3, <1>4, CallStepTold

LEMMA CommitTold ==
    ASSUME TypeOK, ToldInv, OneCaller, NEW u \in Users, NEW k \in Callers, Commit(u, k)
    PROVE  ToldInv'
<1>1. /\ call[u][k].at = "commit" /\ UNCHANGED <<outbox, table, mapping, held>>
      /\ SetCall(u, k, "ready", {}, call[u][k].gid)
  BY DEF Commit, WelcomeOf, mlsVars
<1>2. /\ call'[u][k].at = "ready" /\ call'[u][k].welcome = call[u][k].gid
      /\ \A v \in Users, j \in Callers : ~(v = u /\ j = k) => call'[v][j] = call[v][j]
  BY <1>1, SetCallEffect
<1>3. call[u][k].gid = mapping[u]
  BY <1>1 DEF ToldInv, WorkMapped
<1>4. Single(mapping'[u]) /\ mapping'[u] \subseteq held'[u] /\ Single(call'[u][k].welcome)
  BY <1>1, <1>2, <1>3 DEF ToldInv, OneGroupEach
<1>5. \A g \in mapping'[u] : Announcing(u, k, g)'
  BY <1>1, <1>2, <1>3 DEF Announcing
<1>. QED  BY <1>1, <1>2, <1>3, <1>4, <1>5, CallStepTold

\* Joining: what is mapped then was announced in a row, and nothing was before.
LEMMA JoinEffect ==
    ASSUME TypeOK, ToldInv, NEW u \in Users, NEW I, I \subseteq 1..Len(table),
           ProcessWelcomes(u, I)
    PROVE  /\ mapping'[u] # mapping[u] => mapping[u] = {} /\ \A g \in mapping'[u] : Told(g)
           /\ Single(mapping'[u]) /\ mapping'[u] \subseteq held'[u]
           /\ \A v \in Users : v # u => mapping'[v] = mapping[v] /\ held'[v] = held[v]
<1>1. CASE UNCHANGED mlsVars
  BY <1>1 DEF mlsVars, ToldInv, OneGroupEach
<1>2. CASE ~UNCHANGED mlsVars
  <2> DEFINE Joined(W) ==
                 /\ \E i \in I : W = table[i].welcome /\ table[i].from # u
                 /\ mapping[u] = {}
                 /\ SetState(u, W, held[u] \cup W)
                 /\ \/ Save(u, W, held[u] \cup W) /\ UNCHANGED faults
                    \/ SaveFails(u, held[u] \cup W)
  <2>0. UNCHANGED mlsVars \/ \E W \in SUBSET Groups : Joined(W)
    <3>1. \/ UNCHANGED mlsVars /\ UNCHANGED faults
          \/ \E W \in SUBSET Groups : Joined(W)
      BY WelcomeEffect
    <3>. QED  BY <3>1
  <2>1. PICK W \in SUBSET Groups : Joined(W)
    BY <1>2, <2>0
  <2>2. PICK i \in I : W = table[i].welcome
    BY <2>1
  <2>3. Single(W)
    <3>1. table[i] \in Messages
      BY <2>2 DEF Messages
    <3>. QED  BY <2>2, <3>1 DEF ToldInv, OneGroupEach
  <2>4. \A g \in W : Told(g)
    <3>1. ASSUME NEW g \in W PROVE W = {g}
      BY <2>3 DEF Single
    <3>. QED  BY <2>2, <3>1 DEF Told
  <2>5. /\ mapping'[u] = W /\ W \subseteq held'[u]
        /\ \A v \in Users : v # u => mapping'[v] = mapping[v] /\ held'[v] = held[v]
    BY <2>1 DEF SetState, TypeOK
  <2>. QED  BY <2>1, <2>3, <2>4, <2>5
<1>. QED  BY <1>1, <1>2

LEMMA JoinFromHistoryTold ==
    ASSUME TypeOK, ToldInv, OneCaller, NEW u \in Users, NEW k \in Callers,
           JoinFromHistory(u, k)
    PROVE  ToldInv'
<1>1. /\ call[u][k].at = "history" /\ UNCHANGED <<outbox, table>>
      /\ ProcessWelcomes(u, 1..Len(table))
      /\ SetCall(u, k, "ready", {}, {}) \/ EndCall(u, k)
  BY DEF JoinFromHistory
<1>2. /\ call'[u][k].at \in {"ready", "idle"} /\ call'[u][k].welcome = {}
      /\ \A v \in Users, j \in Callers : ~(v = u /\ j = k) => call'[v][j] = call[v][j]
  <2>1. CASE SetCall(u, k, "ready", {}, {})
    BY <2>1, SetCallEffect
  <2>2. CASE EndCall(u, k)
    <3>1. NoCall.at = "idle" /\ NoCall.welcome = {}
      BY DEF NoCall
    <3>. QED  BY <2>2, <3>1, EndCallEffect
  <2>. QED  BY <1>1, <2>1, <2>2
<1>3. /\ mapping'[u] # mapping[u] => \A g \in mapping'[u] : Told(g)
      /\ Single(mapping'[u]) /\ mapping'[u] \subseteq held'[u]
      /\ \A v \in Users : v # u => mapping'[v] = mapping[v] /\ held'[v] = held[v]
  BY <1>1, JoinEffect
<1>4. \A g \in mapping[u] : Told(g)
  <2>1. \A g : ~Announcing(u, k, g)
    BY <1>1 DEF Announcing
  <2>. QED  BY <2>1, UseIsTold
<1>5. \A g \in mapping'[u] : Told(g)
  BY <1>3, <1>4
<1>6. Single(call'[u][k].welcome)
  BY <1>2 DEF Single
<1>. QED  BY <1>1, <1>2, <1>3, <1>5, <1>6, CallStepTold

LEMMA JoinTold ==
    ASSUME TypeOK, ToldInv, OneCaller, NEW u \in Users, Join(u)
    PROVE  ToldInv'
<1>1. /\ UNCHANGED <<outbox, table, call>>
      /\ page[u] \ local[u] \subseteq 1..Len(table)
      /\ ProcessWelcomes(u, page[u] \ local[u])
  BY DEF Join, TypeOK
<1>2. /\ mapping'[u] # mapping[u] => mapping[u] = {} /\ \A g \in mapping'[u] : Told(g)
      /\ Single(mapping'[u]) /\ mapping'[u] \subseteq held'[u]
      /\ \A v \in Users : v # u => mapping'[v] = mapping[v] /\ held'[v] = held[v]
  BY <1>1, JoinEffect
<1>3. \A g : Told(g)' <=> Told(g)
  BY <1>1 DEF Told
<1>4. OneGroupEach'
  <2>1. Messages' = Messages
    BY <1>1 DEF Messages
  <2>2. \A v \in Users : Single(mapping'[v]) /\ mapping'[v] \subseteq held'[v]
    BY <1>2 DEF ToldInv, OneGroupEach
  <2>. QED  BY <1>1, <2>1, <2>2 DEF ToldInv, OneGroupEach, Single
<1>5. MappedTold'
  <2> SUFFICES ASSUME NEW v \in Users, NEW g \in mapping'[v]
               PROVE  Told(g)' \/ \E j \in Callers : Announcing(v, j, g)'
    BY DEF MappedTold
  <2>1. CASE mapping'[v] = mapping[v]
    <3>1. \A j \in Callers : Announcing(v, j, g) => Announcing(v, j, g)'
      BY <1>1 DEF Announcing
    <3>. QED  BY <1>3, <2>1, <3>1 DEF ToldInv, MappedTold
  <2>2. CASE mapping'[v] # mapping[v]
    BY <1>2, <1>3, <2>2
  <2>. QED  BY <2>1, <2>2
<1>6. WorkMapped'
  <2>1. \A v \in Users : mapping'[v] # mapping[v] => mapping[v] = {}
    BY <1>2
  <2>. QED  BY <1>1, <2>1 DEF ToldInv, WorkMapped
<1>7. Awaited' /\ SentTold' /\ RowsTold'
  BY <1>1, <1>3 DEF ToldInv, Awaited, SentTold, RowsTold
<1>. QED  BY <1>4, <1>5, <1>6, <1>7 DEF ToldInv

\* The first message under a group made here carries its welcome; a later one
\* finds it announced.
LEMMA EncryptTold ==
    ASSUME TypeOK, ToldInv, OneCaller, NEW u \in Users, NEW k \in Callers, Encrypt(u, k)
    PROVE  ToldInv'
<1> DEFINE W == call[u][k].welcome
           news == [from : {u}, by : {k}, n : {call[u][k].n}, gid : mapping[u], welcome : {W}]
<1>1. /\ call[u][k].at = "ready" /\ outbox' = outbox \cup news
      /\ UNCHANGED <<table, mapping, held>>
      /\ IF mapping[u] = {} THEN EndCall(u, k) ELSE SetCall(u, k, "posting", {}, {})
  <2>1. mapping[u] \cap held[u] = mapping[u]
    BY DEF ToldInv, OneGroupEach
  <2>. QED  BY <2>1 DEF Encrypt, mlsVars
<1>2. /\ call'[u][k].at = IF mapping[u] = {} THEN "idle" ELSE "posting"
      /\ call'[u][k].welcome = {}
      /\ mapping[u] # {} => call'[u][k].n = call[u][k].n
      /\ \A v \in Users, j \in Callers : ~(v = u /\ j = k) => call'[v][j] = call[v][j]
  <2>1. CASE mapping[u] # {}
    <3>1. SetCall(u, k, "posting", {}, {})
      BY <1>1, <2>1
    <3>. QED  BY <2>1, <3>1, SetCallEffect
  <2>2. CASE mapping[u] = {}
    <3>1. NoCall.at = "idle" /\ NoCall.welcome = {}
      BY DEF NoCall
    <3>. QED  BY <1>1, <2>2, <3>1, EndCallEffect
  <2>. QED  BY <2>1, <2>2
<1>3. \A m \in news : /\ m.from = u /\ m.by = k /\ m.n = call[u][k].n
                     /\ m.gid \in mapping[u] /\ m.welcome = W
  OBVIOUS
<1>4. \A m, o \in news : m = o
  BY <1>3 DEF ToldInv, OneGroupEach, Single
<1>5. \A g \in mapping[u] : \E m \in news : m.from = u /\ m.welcome = W
  <2>1. ASSUME NEW g \in mapping[u] PROVE \E m \in news : m.from = u /\ m.welcome = W
    <3>1. [from |-> u, by |-> k, n |-> call[u][k].n, gid |-> g, welcome |-> W] \in news
      OBVIOUS
    <3>. QED  BY <1>3, <3>1
  <2>. QED  BY <2>1
<1>6. \A g \in mapping[u] : Told(g) \/ W = {g}
  <2>1. ASSUME NEW g \in mapping[u], ~Told(g) PROVE W = {g}
    <3>1. Announcing(u, k, g)
      BY <2>1, UseIsTold
    <3>2. g \in W /\ Single(W)
      BY <1>1, <3>1 DEF Announcing, ToldInv, OneGroupEach
    <3> HIDE DEF W
    <3>. QED  BY <3>2 DEF Single
  <2>. QED  BY <2>1
<1>7. W # {} => \A g \in mapping[u] : W = {g}
  <2>1. W # {} => W = mapping[u]
    BY <1>1 DEF ToldInv, WorkMapped
  <2>2. Single(mapping[u])
    BY DEF ToldInv, OneGroupEach
  <2> HIDE DEF W
  <2>. QED  BY <2>1, <2>2 DEF Single
<1>8. Single(W)
  BY DEF ToldInv, OneGroupEach
<1>9. \A m \in outbox : m.from # u /\ m.from \in Users /\ m.by \in Callers
  <2>1. ASSUME NEW m \in outbox PROVE m.from # u /\ m.from \in Users /\ m.by \in Callers
    <3>1. m.from \in Users /\ m.by \in Callers
      BY DEF TypeOK, Rows
    <3>2. call[m.from][m.by].at = "posting"
      BY DEF ToldInv, Awaited
    <3>3. m.from = u => m.by = k
      BY <3>1 DEF OneCaller
    <3>. QED  BY <1>1, <3>1, <3>2, <3>3
  <2>. QED  BY <2>1
<1> HIDE DEF W, news
<1>10. \A g : Told(g)' <=> Told(g)
  BY <1>1 DEF Told
<1>11. OneGroupEach'
  <2>1. Messages' = Messages \cup news
    BY <1>1 DEF Messages
  <2>2. \A m \in Messages' : Single(m.welcome)
    BY <1>3, <1>8, <2>1 DEF ToldInv, OneGroupEach
  <2>3. \A v \in Users, j \in Callers : Single(call'[v][j].welcome)
    BY <1>2 DEF ToldInv, OneGroupEach, Single
  <2>. QED  BY <1>1, <2>2, <2>3 DEF ToldInv, OneGroupEach, Single
<1>12. MappedTold'
  <2> SUFFICES ASSUME NEW v \in Users, NEW g \in mapping[v]
               PROVE  Told(g) \/ \E j \in Callers : Announcing(v, j, g)'
    BY <1>1, <1>10 DEF MappedTold
  <2>1. CASE v = u
    <3>1. call'[u][k].at = "posting"
      BY <1>2, <2>1
    <3>2. W = {g} => Announcing(u, k, g)'
      BY <1>1, <1>5, <2>1, <3>1 DEF Announcing
    <3>. QED  BY <1>6, <2>1, <3>2
  <2>2. CASE v # u
    <3>1. \A j \in Callers : Announcing(v, j, g) => Announcing(v, j, g)'
      BY <1>1, <1>2, <2>2 DEF Announcing
    <3>. QED  BY <3>1 DEF ToldInv, MappedTold
  <2>. QED  BY <2>1, <2>2
<1>13. WorkMapped'
  <2> SUFFICES ASSUME NEW v \in Users, NEW j \in Callers
               PROVE  /\ call'[v][j].at \in {"register", "commit"} =>
                             call'[v][j].gid = mapping[v] /\ mapping[v] # {}
                      /\ call'[v][j].at = "ready" /\ call'[v][j].welcome # {} =>
                             call'[v][j].welcome = mapping[v]
    BY <1>1 DEF WorkMapped
  <2>1. CASE v = u /\ j = k
    BY <1>2, <2>1
  <2>2. CASE ~(v = u /\ j = k)
    BY <1>2, <2>2 DEF ToldInv, WorkMapped
  <2>. QED  BY <2>1, <2>2
<1>14. Awaited'
  <2>1. ASSUME NEW m \in outbox'
        PROVE  call'[m.from][m.by].at = "posting" /\ call'[m.from][m.by].n = m.n
    <3>1. CASE m \in outbox
      BY <1>2, <1>9, <3>1 DEF ToldInv, Awaited
    <3>2. CASE m \in news
      <4>1. mapping[u] # {}
        BY <1>3, <3>2
      <4>. QED  BY <1>2, <1>3, <3>2, <4>1
    <3>. QED  BY <1>1, <3>1, <3>2
  <2>2. ASSUME NEW m \in outbox', NEW o \in outbox', m.from = o.from PROVE m = o
    <3>1. CASE m \in outbox /\ o \in outbox
      BY <2>2, <3>1 DEF ToldInv, Awaited
    <3>2. CASE m \in news /\ o \in news
      BY <1>4, <3>2
    <3>3. ~(m \in outbox /\ o \in news) /\ ~(m \in news /\ o \in outbox)
      BY <1>3, <1>9, <2>2
    <3>4. m \in outbox \cup news /\ o \in outbox \cup news
      BY <1>1
    <3>. QED  BY <3>1, <3>2, <3>3, <3>4
  <2>. QED  BY <2>1, <2>2 DEF Awaited
<1>15. SentTold'
  <2>1. ASSUME NEW m \in outbox' PROVE Told(m.gid) \/ m.welcome = {m.gid}
    <3>1. CASE m \in outbox
      BY <3>1 DEF ToldInv, SentTold
    <3>2. CASE m \in news
      BY <1>3, <1>6, <3>2
    <3>. QED  BY <1>1, <3>1, <3>2
  <2>. QED  BY <1>10, <2>1 DEF SentTold
<1>16. RowsTold'
  BY <1>1 DEF ToldInv, RowsTold
<1>. QED  BY <1>11, <1>12, <1>13, <1>14, <1>15, <1>16 DEF ToldInv

\* The server's row announces what the message carried; the call that waited
\* for it is over.
LEMMA AcceptTold ==
    ASSUME TypeOK, ToldInv, OneCaller, NEW m \in outbox, Accept(m)
    PROVE  ToldInv'
<1>1. m \in Rows /\ m.from \in Users /\ m.by \in Callers /\ m.n = call[m.from][m.by].n
  BY DEF TypeOK, Rows, ToldInv, Awaited
<1>2. /\ table' = Append(table, m) /\ outbox' = outbox \ {m}
      /\ EndCall(m.from, m.by) /\ UNCHANGED <<mapping, held>>
  BY <1>1 DEF Accept, mlsVars
<1>3. /\ Len(table) \in Nat /\ Len(table') = Len(table) + 1
      /\ table'[Len(table) + 1] = m
      /\ \A i \in 1..Len(table) : table'[i] = table[i]
  BY <1>1, <1>2, LenProperties DEF TypeOK
<1>4. \A i \in 1..Len(table') : i \in 1..Len(table) \/ i = Len(table) + 1
  BY <1>3
<1>5. 1..Len(table) \subseteq 1..Len(table') /\ Len(table) + 1 \in 1..Len(table')
  BY <1>3
<1>6. \A g : Told(g) \/ m.welcome = {g} => Told(g)'
  BY <1>3, <1>5 DEF Told
<1>7. /\ call'[m.from][m.by] = NoCall
      /\ \A v \in Users, j \in Callers :
            ~(v = m.from /\ j = m.by) => call'[v][j] = call[v][j]
  BY <1>1, <1>2, EndCallEffect
<1>8. OneGroupEach'
  <2>1. ASSUME NEW o \in Messages' PROVE o \in Messages
    <3>1. o \in outbox' \/ \E i \in 1..Len(table') : o = table'[i]
      BY DEF Messages
    <3>2. CASE o \in outbox'
      BY <1>2, <3>2 DEF Messages
    <3>3. ASSUME NEW i \in 1..Len(table'), o = table'[i] PROVE o \in Messages
      BY <1>3, <1>4, <3>3 DEF Messages
    <3>. QED  BY <3>1, <3>2, <3>3
  <2>2. \A o \in Messages' : Single(o.welcome)
    BY <2>1 DEF ToldInv, OneGroupEach
  <2>3. \A v \in Users, j \in Callers : Single(call'[v][j].welcome)
    <3>1. Single(NoCall.welcome)
      BY DEF NoCall, Single
    <3>2. ASSUME NEW v \in Users, NEW j \in Callers PROVE Single(call'[v][j].welcome)
      BY <1>7, <3>1 DEF ToldInv, OneGroupEach
    <3>. QED  BY <3>2
  <2>. QED  BY <1>2, <2>2, <2>3 DEF ToldInv, OneGroupEach, Single
<1>9. MappedTold'
  <2> SUFFICES ASSUME NEW v \in Users, NEW g \in mapping[v]
               PROVE  Told(g)' \/ \E j \in Callers : Announcing(v, j, g)'
    BY <1>2 DEF MappedTold
  <2>1. ASSUME NEW j \in Callers, Announcing(v, j, g)
        PROVE  Told(g)' \/ Announcing(v, j, g)'
    <3>1. CASE v = m.from
      <4>1. j = m.by
        BY <1>1 DEF OneCaller
      <4>2. call[v][j].at = "posting"
        BY <3>1, <4>1 DEF ToldInv, Awaited
      <4>3. PICK o \in outbox : o.from = v /\ o.welcome = {g}
        BY <2>1, <4>2 DEF Announcing
      <4>4. o = m
        BY <3>1, <4>3 DEF ToldInv, Awaited
      <4>. QED  BY <1>6, <4>3, <4>4
    <3>2. CASE v # m.from
      <4>1. call'[v][j] = call[v][j]
        BY <1>7, <3>2
      <4>2. \A o \in outbox : o.from = v => o \in outbox'
        BY <1>2, <3>2
      <4>. QED  BY <2>1, <4>1, <4>2 DEF Announcing
    <3>. QED  BY <3>1, <3>2
  <2>2. Told(g) \/ \E j \in Callers : Announcing(v, j, g)
    BY DEF ToldInv, MappedTold
  <2>. QED  BY <1>6, <2>1, <2>2
<1>10. WorkMapped'
  <2> SUFFICES ASSUME NEW v \in Users, NEW j \in Callers
               PROVE  /\ call'[v][j].at \in {"register", "commit"} =>
                             call'[v][j].gid = mapping[v] /\ mapping[v] # {}
                      /\ call'[v][j].at = "ready" /\ call'[v][j].welcome # {} =>
                             call'[v][j].welcome = mapping[v]
    BY <1>2 DEF WorkMapped
  <2>1. CASE v = m.from /\ j = m.by
    BY <1>7, <2>1 DEF NoCall
  <2>2. CASE ~(v = m.from /\ j = m.by)
    BY <1>7, <2>2 DEF ToldInv, WorkMapped
  <2>. QED  BY <2>1, <2>2
<1>11. Awaited'
  <2>1. ASSUME NEW o \in outbox'
        PROVE  call'[o.from][o.by].at = "posting" /\ call'[o.from][o.by].n = o.n
    <3>1. o \in outbox /\ o # m /\ o.from \in Users /\ o.by \in Callers
      BY <1>2 DEF TypeOK, Rows
    <3>2. o.from # m.from
      BY <3>1 DEF ToldInv, Awaited
    <3>3. call[o.from][o.by].at = "posting" /\ call[o.from][o.by].n = o.n
      BY <3>1 DEF ToldInv, Awaited
    <3>. QED  BY <1>7, <3>1, <3>2, <3>3
  <2>2. \A o, p \in outbox' : o.from = p.from => o = p
    BY <1>2 DEF ToldInv, Awaited
  <2>. QED  BY <2>1, <2>2 DEF Awaited
<1>12. SentTold'
  BY <1>2, <1>6 DEF ToldInv, SentTold
<1>13. RowsTold'
  <2>1. ASSUME NEW i \in 1..Len(table') PROVE \E j \in 1..i : table'[j].welcome = {table'[i].gid}
    <3>1. CASE i \in 1..Len(table)
      <4>1. PICK j \in 1..i : table[j].welcome = {table[i].gid}
        BY <3>1 DEF ToldInv, RowsTold
      <4>2. j \in 1..Len(table)
        BY <1>3, <3>1
      <4>. QED  BY <1>3, <3>1, <4>1, <4>2
    <3>2. CASE i = Len(table) + 1
      <4>1. table'[i] = m
        BY <1>3, <3>2
      <4>2. CASE m.welcome = {m.gid}
        <5>1. i \in 1..i
          BY <1>3, <3>2
        <5>. QED  BY <4>1, <4>2, <5>1
      <4>3. CASE Told(m.gid)
        <5>1. PICK j \in 1..Len(table) : table[j].welcome = {m.gid}
          BY <4>3 DEF Told
        <5>2. j \in 1..i /\ table'[j] = table[j]
          BY <1>3, <3>2
        <5>. QED  BY <4>1, <5>1, <5>2
      <4>. QED  BY <4>2, <4>3 DEF ToldInv, SentTold
    <3>. QED  BY <1>4, <3>1, <3>2
  <2>. QED  BY <2>1 DEF RowsTold
<1>. QED  BY <1>8, <1>9, <1>10, <1>11, <1>12, <1>13 DEF ToldInv

\* Steps that leave calls, messages and the groups in use alone.
LEMMA AsideTold ==
    ASSUME ToldInv, UNCHANGED <<outbox, table, mapping, held, call>>
    PROVE  ToldInv'
<1>1. Messages' = Messages /\ \A g : Told(g)' <=> Told(g)
  BY DEF Messages, Told
<1>2. \A v \in Users, j \in Callers, g \in Groups : Announcing(v, j, g)' <=> Announcing(v, j, g)
  BY DEF Announcing
<1>3. OneGroupEach'
  BY <1>1 DEF ToldInv, OneGroupEach
<1>4. MappedTold'
  BY <1>1 DEF ToldInv, MappedTold, Announcing
<1>5. WorkMapped' /\ Awaited'
  BY DEF ToldInv, WorkMapped, Awaited
<1>6. SentTold' /\ RowsTold'
  BY <1>1 DEF ToldInv, SentTold, RowsTold
<1>. QED  BY <1>3, <1>4, <1>5, <1>6 DEF ToldInv

\* A failing step counts.
LEMMA FaultCounts == ASSUME TypeOK, Fault PROVE faults' # 0
BY DEF Fault, TypeOK

LEMMA NextTold ==
    TypeOK /\ (faults = 0 => ToldInv) /\ OneCaller /\ [Next]_vars => (faults = 0 => ToldInv)'
<1> SUFFICES ASSUME TypeOK, faults = 0 => ToldInv, OneCaller, [Next]_vars, faults' = 0
             PROVE  ToldInv'
  OBVIOUS
<1>1. ~Fault
  BY FaultCounts
<1>2. ASSUME faults' = faults PROVE ToldInv
  BY <1>2
<1>3. ASSUME NEW u \in Users, NEW k \in Callers, SendStep(u, k) PROVE ToldInv'
  <2>1. /\ ~ClaimFails(u, k) /\ ~BuildUnsaved(u, k) /\ ~HistoryFails(u, k)
        /\ ~SendLost(u, k) /\ ~PostFails(u, k)
        /\ ~(\E delivered \in BOOLEAN : RegisterFails(u, k, delivered))
        /\ ~(\E delivered \in BOOLEAN : CommitFails(u, k, delivered))
    BY <1>1 DEF ClaimFails, BuildUnsaved, HistoryFails, SendLost, PostFails, RegisterFails,
                CommitFails, SaveFails
  <2>2. CASE Begin(u, k) \/ Build(u, k) \/ Registered(u, k) \/ Commit(u, k) \/ Encrypt(u, k)
    <3>1. ToldInv
      BY <1>2, <2>2 DEF Begin, Build, Registered, Commit, Encrypt
    <3>. QED  BY <2>2, <3>1, BeginTold, BuildTold, RegisteredTold, CommitTold, EncryptTold
  <2>3. CASE Refused(u, k)
    <3>1. ToldInv
      BY <1>1, <1>2, <2>3 DEF Refused, SaveFails
    <3>. QED  BY <2>3, <3>1, RefusedTold
  <2>4. CASE JoinFromHistory(u, k)
    <3>1. ProcessWelcomes(u, 1..Len(table))
      BY <2>4 DEF JoinFromHistory
    <3>2. faults' = faults
      BY <1>1, <3>1 DEF ProcessWelcomes, SaveFails
    <3>. QED  BY <1>2, <2>4, <3>2, JoinFromHistoryTold
  <2>. QED  BY <1>3, <2>1, <2>2, <2>3, <2>4 DEF SendStep
<1>4. ASSUME NEW m \in outbox, Accept(m) PROVE ToldInv'
  <2>1. ToldInv
    BY <1>2, <1>4 DEF Accept
  <2>. QED  BY <1>4, <2>1, AcceptTold
<1>5. ASSUME NEW r \in registering, RegisterCheck(r) \/ RegisterInsert(r) PROVE ToldInv'
  <2>1. ToldInv
    BY <1>2, <1>5 DEF RegisterCheck, RegisterInsert
  <2>. QED  BY <1>5, <2>1, AsideTold DEF RegisterCheck, RegisterInsert, mlsVars
<1>6. ASSUME NEW u \in Users, ReadStep(u) PROVE ToldInv'
  <2>1. CASE Join(u)
    <3>1. ProcessWelcomes(u, page[u] \ local[u])
      BY <2>1 DEF Join
    <3>2. faults' = faults
      BY <1>1, <3>1 DEF ProcessWelcomes, SaveFails
    <3>. QED  BY <1>2, <2>1, <3>2, JoinTold
  <2>2. CASE ~Join(u)
    <3>1. faults' = faults
      BY <1>1, <1>6, <2>2 DEF ReadStep, Fetch, Read, FetchWelcomes, HandleQueued
    <3>2. UNCHANGED <<outbox, table, mapping, held, call>>
      BY <1>6, <2>2 DEF ReadStep, Fetch, Read, FetchWelcomes, HandleQueued, mlsVars
    <3>. QED  BY <1>2, <3>1, <3>2, AsideTold
  <2>. QED  BY <2>1, <2>2
<1>7. \A u \in Users : ~Crash(u) /\ ~StopInSave(u)
  BY <1>1, CrashEffect DEF Stop
<1>8. CASE UNCHANGED vars
  BY <1>2, <1>8, AsideTold DEF vars, mlsVars
<1>. QED  BY <1>3, <1>4, <1>5, <1>6, <1>7, <1>8 DEF Next, ServerStep

\* One send at a time and no failure: the group of every row has been announced
\* by then, so a reader who takes the rows in order can join before he decrypts.
THEOREM RowsAnnounced == ASSUME OneCaller PROVE Spec => []Announced
<1>1. Init => TypeOK /\ (faults = 0 => ToldInv)
  BY InitType, InitTold
<1>2. TypeOK /\ (faults = 0 => ToldInv) /\ [Next]_vars => (TypeOK /\ (faults = 0 => ToldInv))'
  BY NextType, NextTold
<1>3. (faults = 0 => ToldInv) => Announced
  BY DEF ToldInv, RowsTold, Announced
<1>. QED  BY <1>1, <1>2, <1>3, PTL DEF Spec
=============================================================================

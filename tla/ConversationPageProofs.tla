------------------------ MODULE ConversationPageProofs ------------------------
(***************************************************************************)
(* Theorems about the conversation pages: what the user enters is kept,    *)
(* and a page left alone comes to show one conversation, and all of it.    *)
(***************************************************************************)
EXTENDS ConversationPage, FiniteSetTheorems, SequenceTheorems, WellFoundedInduction, TLAPS

-----------------------------------------------------------------------------
(***************************************************************************)
(* Rows in sequences                                                       *)
(***************************************************************************)
LEMMA NoRows ==
    <<>> \in Seq(Row) /\ RowsIn(<<>>) = {}
  BY DEF RowsIn

LEMMA RowsAreRows ==
    ASSUME NEW q \in Seq(Row) PROVE RowsIn(q) \subseteq Row
  <1>1. q \in [1..Len(q) -> Row] /\ DOMAIN q = 1..Len(q)
    BY LenProperties
  <1> QED
    BY <1>1 DEF RowsIn

LEMMA FunctionIsRows ==
    ASSUME NEW n \in Nat, NEW q \in [1..n -> Row] PROVE q \in Seq(Row)
  BY SMT

LEMMA RowsOfBoth ==
    ASSUME NEW p \in Seq(Row), NEW q \in Seq(Row)
    PROVE  p \o q \in Seq(Row) /\ RowsIn(p \o q) = RowsIn(p) \cup RowsIn(q)
  <1> DEFINE b == p \o q
  <1>1. /\ b \in Seq(Row) /\ Len(b) = Len(p) + Len(q)
        /\ \A i \in 1..Len(p) + Len(q) : b[i] = IF i <= Len(p) THEN p[i] ELSE q[i - Len(p)]
    BY ConcatProperties
  <1>2. /\ Len(p) \in Nat /\ DOMAIN p = 1..Len(p)
        /\ Len(q) \in Nat /\ DOMAIN q = 1..Len(q) /\ DOMAIN b = 1..Len(b)
    BY <1>1, LenProperties
  <1> HIDE DEF b
  <1>3. ASSUME NEW m \in RowsIn(b) PROVE m \in RowsIn(p) \cup RowsIn(q)
    <2>1. PICK i \in 1..Len(p) + Len(q) : m = b[i]
      BY <1>1, <1>2, <1>3 DEF RowsIn
    <2>2. i <= Len(p) => i \in DOMAIN p /\ m = p[i]
      BY <1>1, <1>2, <2>1
    <2>3. ~(i <= Len(p)) => i - Len(p) \in DOMAIN q /\ m = q[i - Len(p)]
      BY <1>1, <1>2, <2>1
    <2> QED
      BY <2>2, <2>3 DEF RowsIn
  <1>4. ASSUME NEW m \in RowsIn(p) PROVE m \in RowsIn(b)
    <2>1. PICK i \in 1..Len(p) : m = p[i]
      BY <1>2, <1>4 DEF RowsIn
    <2>2. i \in DOMAIN b /\ b[i] = m
      BY <1>1, <1>2, <2>1
    <2> QED
      BY <2>2 DEF RowsIn
  <1>5. ASSUME NEW m \in RowsIn(q) PROVE m \in RowsIn(b)
    <2>1. PICK i \in 1..Len(q) : m = q[i]
      BY <1>2, <1>5 DEF RowsIn
    <2>2. PICK h \in 1..Len(p) + Len(q) : h = i + Len(p)
      BY <1>2
    <2>3. ~(h <= Len(p)) /\ h - Len(p) = i
      BY <1>2, <2>2
    <2>4. h \in DOMAIN b /\ b[h] = m
      BY <1>1, <1>2, <2>1, <2>3
    <2> QED
      BY <2>4 DEF RowsIn
  <1>6. RowsIn(b) = RowsIn(p) \cup RowsIn(q)
    BY <1>3, <1>4, <1>5
  <1> QED
    BY <1>1, <1>6 DEF b

LEMMA OneRow ==
    ASSUME NEW m \in Row PROVE <<m>> \in Seq(Row) /\ RowsIn(<<m>>) = {m}
  BY DEF RowsIn

LEMMA OneRowMore ==
    ASSUME NEW q \in Seq(Row), NEW m \in Row
    PROVE  Append(q, m) \in Seq(Row) /\ RowsIn(Append(q, m)) = RowsIn(q) \cup {m}
  <1>1. Append(q, m) = q \o <<m>>
    BY AppendIsConcat
  <1> QED
    BY <1>1, OneRow, RowsOfBoth

\* A set of rows in order is a sequence of exactly these rows.
LEMMA OrderedRows ==
    ASSUME NEW S, S \subseteq Row, IsFiniteSet(S), NEW q \in InOrder(S)
    PROVE  q \in Seq(Row) /\ RowsIn(q) = S
  <1> DEFINE n == Cardinality(S)
  <1>1. n \in Nat
    BY FS_CardinalityType
  <1>2. q \in [1..n -> S] /\ \A i, k \in 1..n : i < k => q[i].ts < q[k].ts
    BY DEF InOrder
  <1> HIDE DEF n
  <1>3. ASSUME NEW i \in 1..n, NEW k \in 1..n, q[i] = q[k] PROVE i = k
    <2>1. q[i].ts \in Nat /\ q[k].ts = q[i].ts
      BY <1>2, <1>3 DEF Row
    <2>2. i \in Nat /\ k \in Nat
      BY <1>1
    <2> QED
      BY <1>2, <2>1, <2>2
  <1>4. q \in Injection(1..n, S)
    BY <1>2, <1>3 DEF Injection, IsInjective
  <1>5. IsFiniteSet(1..n) /\ Cardinality(1..n) = n
    BY <1>1, FS_Interval
  <1>6. q \in Surjection(1..n, S)
    BY <1>4, <1>5, FS_Injection DEF n
  <1>7. RowsIn(q) = S
    BY <1>2, <1>6 DEF Surjection, RowsIn
  <1>8. q \in Seq(Row)
    BY <1>1, <1>2, FunctionIsRows
  <1> QED
    BY <1>7, <1>8

\* Of a finite set of rows the newest k come after every other, if k is not 0.
LEMMA NewestRows ==
    ASSUME NEW S, S \subseteq Row, IsFiniteSet(S), NEW k \in Nat \ {0}
    PROVE  /\ Newest(S, k) \subseteq S
           /\ \A m \in S : m \in Newest(S, k) \/ \E n \in Newest(S, k) : n.ts > m.ts
  <1> DEFINE Above(m) == {n \in S : n.ts > m.ts}
             All == {Above(m) : m \in S}
  <1>1. All \subseteq FiniteSubsetsOf(S)
    <2>1. \A A \in SUBSET S : IsFiniteSet(A)
      BY FS_Subset
    <2> QED
      BY <2>1 DEF FiniteSubsetsOf
  <1>2. ASSUME NEW m \in S PROVE \E n \in S : Above(n) = {} /\ n.ts >= m.ts
    <2> DEFINE Higher == {Above(n) : n \in {x \in S : x.ts >= m.ts}}
    <2>1. Higher \subseteq FiniteSubsetsOf(S) /\ Higher # {}
      <3>1. m.ts >= m.ts
        BY DEF Row
      <3>2. Above(m) \in Higher
        BY <3>1
      <3>3. Higher \subseteq All
        OBVIOUS
      <3> QED
        BY <1>1, <3>2, <3>3
    <2>2. PICK A \in Higher : \A B \in Higher : <<B, A>> \notin StrictSubsetOrdering(S)
      <3> HIDE DEF Higher
      <3> QED
        BY <2>1, FS_StrictSubsetOrderingWellFounded, WFMin
    <2>3. PICK n \in S : A = Above(n) /\ n.ts >= m.ts
      OBVIOUS
    <2>4. ASSUME NEW x \in Above(n) PROVE FALSE
      <3>1. x \in S /\ x.ts > n.ts /\ x.ts \in Nat /\ n.ts \in Nat /\ m.ts \in Nat
        BY <2>4 DEF Row
      <3>2. Above(x) \in Higher
        BY <2>3, <3>1
      <3>3. Above(x) \subseteq Above(n) /\ x \notin Above(x)
        BY <3>1 DEF Row
      <3> QED
        BY <2>2, <2>3, <2>4, <3>2, <3>3 DEF StrictSubsetOrdering
    <2> QED
      BY <2>3, <2>4
  <1>3. ASSUME NEW n \in S, Above(n) = {} PROVE n \in Newest(S, k)
    <2>1. Cardinality(Above(n)) = 0
      BY <1>3, FS_EmptySet
    <2> QED
      BY <2>1 DEF Newest
  <1>4. ASSUME NEW m \in S PROVE m \in Newest(S, k) \/ \E n \in Newest(S, k) : n.ts > m.ts
    <2>1. PICK n \in S : Above(n) = {} /\ n.ts >= m.ts
      BY <1>2
    <2>2. n.ts \in Nat /\ m.ts \in Nat
      BY DEF Row
    <2>3. CASE n.ts > m.ts
      BY <1>3, <2>1, <2>3
    <2>4. CASE n.ts = m.ts
      <3>1. Above(m) = {}
        BY <2>1, <2>4
      <3> QED
        BY <1>3, <3>1
    <2> QED
      BY <2>1, <2>2, <2>3, <2>4
  <1> QED
    BY <1>4 DEF Newest

\* What is at some of the places of the screen is on the screen.
LEMMA RowsAt ==
    ASSUME shown \in Seq(Row), NEW I, I \subseteq DOMAIN shown, NEW q \in At(I)
    PROVE  q \in Seq(Row) /\ \A m \in RowsIn(q) : \E i \in I : m = shown[i]
  <1>1. Len(shown) \in Nat /\ DOMAIN shown = 1..Len(shown) /\ shown \in [1..Len(shown) -> Row]
    BY LenProperties
  <1>2. IsFiniteSet(DOMAIN shown)
    BY <1>1, FS_Interval
  <1>3. Cardinality(I) \in Nat
    BY <1>2, FS_Subset, FS_CardinalityType
  <1>4. PICK f \in Places(I) : q = [h \in DOMAIN f |-> shown[f[h]]]
    BY DEF At
  <1> DEFINE n == Cardinality(I)
  <1>5. f \in [1..n -> I]
    BY DEF Places
  <1> HIDE DEF n
  <1>6. q \in [1..n -> Row]
    BY <1>1, <1>4, <1>5
  <1>7. q \in Seq(Row)
    BY <1>3, <1>6, FunctionIsRows DEF n
  <1> QED
    BY <1>4, <1>5, <1>7 DEF RowsIn

-----------------------------------------------------------------------------
(***************************************************************************)
(* The steps                                                               *)
(***************************************************************************)
LEMMA Cases ==
    ASSUME Next
    PROVE  \/ \E c \in Conversations : Open(c) \/ PeerPosts(c) \/ Dispatch(c) \/ ListFetch(c)
           \/ \E j \in inits : \/ j.conv \in Direct /\ (DirectProfiles(j) \/ OpenDm(j))
                               \/ j.conv \in Groups /\ GroupInfo(j)
                               \/ LoadMessages(j) \/ ShowLoaded(j) \/ InitRead(j)
           \/ \E p \in pushes : PushFetch(p) \/ PushAsk(p) \/ PushShow(p)
           \/ \E q \in older : OlderLoaded(q)
           \/ \E s \in sends : Post(s) \/ TextSent(s) \/ MediaLoads(s) \/ MediaSent(s)
           \/ Leave \/ LoadOlder \/ Type \/ Attach \/ ClearFile \/ SendMessage \/ SendMedia
  <1>1. (DirectPage \/ GroupPage) =>
           \/ \E p \in pushes : PushFetch(p) \/ PushAsk(p) \/ PushShow(p)
           \/ \E q \in older : OlderLoaded(q)
           \/ LoadOlder \/ Type \/ Attach \/ ClearFile \/ SendMessage \/ SendMedia
    BY DEF DirectPage, GroupPage, GroupWsMessage, GroupOlder, GroupSendMessage, GroupSendMedia,
           HandleWsMessage, LoadMoreMessages
  <1>2. ASSUME NEW j \in inits
        PROVE  InitializeDirect(j) \/ InitializeGroup(j) =>
                   \/ j.conv \in Direct /\ (DirectProfiles(j) \/ OpenDm(j))
                   \/ j.conv \in Groups /\ GroupInfo(j)
                   \/ LoadMessages(j) \/ ShowLoaded(j) \/ InitRead(j)
    BY DEF InitializeDirect, InitializeGroup, Initialize
  <1>3. ASSUME NEW s \in sends
        PROVE  SendText(s) \/ SendAttachment(s) =>
                   Post(s) \/ TextSent(s) \/ MediaLoads(s) \/ MediaSent(s)
    BY DEF SendText, SendAttachment
  <1> QED
    BY <1>1, <1>2, <1>3 DEF Next

\* The store and the server change with these steps alone.
LEMMA StoreChanges ==
    ASSUME Next
    PROVE  /\ \/ UNCHANGED stored
              \/ \E c \in Conversations : ListFetch(c)
              \/ \E j \in inits : LoadMessages(j)
              \/ \E p \in pushes : PushFetch(p)
              \/ \E s \in sends : Post(s) \/ MediaLoads(s)
           /\ \/ UNCHANGED server
              \/ \E c \in Conversations : PeerPosts(c)
              \/ \E s \in sends : Post(s)
  <1> USE DEF storeVars
  <1>1. ASSUME NEW c \in Conversations, Open(c) \/ Dispatch(c) PROVE UNCHANGED <<stored, server>>
    BY <1>1 DEF Open, Dispatch
  <1>2. ASSUME NEW j \in inits,
               DirectProfiles(j) \/ OpenDm(j) \/ GroupInfo(j) \/ ShowLoaded(j) \/ InitRead(j)
        PROVE  UNCHANGED <<stored, server>>
    BY <1>2 DEF DirectProfiles, OpenDm, GroupInfo, ShowLoaded, InitRead
  <1>3. ASSUME NEW p \in pushes, PushAsk(p) \/ PushShow(p) PROVE UNCHANGED <<stored, server>>
    BY <1>3 DEF PushAsk, PushShow
  <1>4. ASSUME NEW s \in sends, TextSent(s) \/ MediaSent(s) PROVE UNCHANGED <<stored, server>>
    BY <1>4 DEF TextSent, MediaSent
  <1>5. ASSUME \/ Leave \/ LoadOlder \/ Type \/ Attach \/ ClearFile \/ SendMessage \/ SendMedia
               \/ \E q \in older : OlderLoaded(q)
        PROVE  UNCHANGED <<stored, server>>
    BY <1>5 DEF Leave, LoadOlder, Type, Attach, ClearFile, SendMessage, SendMedia, OlderLoaded
  <1>6. /\ \A c \in Conversations : ListFetch(c) => UNCHANGED server
        /\ \A c \in Conversations : PeerPosts(c) => UNCHANGED stored
        /\ \A j \in inits : LoadMessages(j) => UNCHANGED server
        /\ \A p \in pushes : PushFetch(p) => UNCHANGED server
        /\ \A s \in sends : MediaLoads(s) => UNCHANGED server
    BY DEF ListFetch, PeerPosts, LoadMessages, PushFetch, MediaLoads
  <1> QED
    BY <1>1, <1>2, <1>3, <1>4, <1>5, <1>6, Cases

\* What the store holds.
StoreInv ==
    /\ IsFiniteSet(server) /\ stored \subseteq server
    /\ \A m \in server : ~m.temp /\ m.ts \in 1..clock
    /\ \A m, n \in server : m.ts = n.ts => m = n

\* It only grows, by a row with the next timestamp.
Grows ==
    /\ stored \subseteq stored' /\ server \subseteq server'
    /\ clock' \in Nat /\ clock <= clock'
    /\ \A n \in server' : n \in server \/ (n.ts = clock' /\ clock' = clock + 1)

LEMMA RowPosted ==
    ASSUME TypeOK, StoreInv, NEW m \in Row, m.ts = clock', clock' = clock + 1, ~m.temp,
           server' = server \cup {m},
           stored' = stored \/ stored' = stored \cup {m}
    PROVE  StoreInv' /\ Grows
  <1>1. clock \in Nat /\ stored \subseteq Row /\ server \subseteq Row
    BY DEF TypeOK
  <1>2. clock' \in Nat /\ clock <= clock'
    BY <1>1
  <1>3. ASSUME NEW n \in server' PROVE n \in server \/ n = m
    OBVIOUS
  <1>4. Grows
    BY <1>2, <1>3 DEF Grows
  <1>5. IsFiniteSet(server')
    BY FS_AddElement DEF StoreInv
  <1>6. ASSUME NEW n \in server PROVE ~n.temp /\ n.ts \in 1..clock' /\ n.ts # m.ts
    <2>1. ~n.temp /\ n.ts \in 1..clock
      BY DEF StoreInv
    <2> QED
      BY <1>1, <2>1
  <1>7. m.ts \in 1..clock'
    BY <1>1
  <1>8. ASSUME NEW n \in server', NEW o \in server', n.ts = o.ts PROVE n = o
    BY <1>3, <1>6, <1>8 DEF StoreInv
  <1>9. stored' \subseteq server'
    BY DEF StoreInv
  <1> QED
    BY <1>3, <1>4, <1>5, <1>6, <1>7, <1>8, <1>9 DEF StoreInv

LEMMA RowsFetched ==
    ASSUME TypeOK, StoreInv, UNCHANGED <<server, clock>>,
           NEW c, stored' = stored \/ stored' = stored \cup Fetched(c)
    PROVE  StoreInv' /\ Grows
  <1>1. Fetched(c) \subseteq server /\ clock \in Nat
    BY DEF Fetched, RowsOf, TypeOK
  <1>2. stored' \subseteq server' /\ stored \subseteq stored'
    BY <1>1 DEF StoreInv
  <1>3. StoreInv'
    BY <1>2 DEF StoreInv
  <1> QED
    BY <1>1, <1>2, <1>3 DEF Grows

LEMMA StoreStep ==
    ASSUME TypeOK, StoreInv, Next PROVE StoreInv' /\ Grows
  <1>1. CASE UNCHANGED storeVars
    BY <1>1, RowsFetched DEF storeVars
  <1>2. ASSUME NEW c \in Conversations, PeerPosts(c) PROVE StoreInv' /\ Grows
    <2>1. PICK m : m = [conv |-> c, ts |-> clock', text |-> 0, temp |-> FALSE]
      OBVIOUS
    <2>2. clock' = clock + 1 /\ server' = server \cup {m} /\ stored' = stored
      BY <1>2, <2>1 DEF PeerPosts
    <2>3. m \in Row /\ m.ts = clock' /\ ~m.temp
      BY <2>1, <2>2 DEF Row, TypeOK
    <2> QED
      BY <2>2, <2>3, RowPosted
  <1>3. ASSUME NEW s \in sends, Post(s) PROVE StoreInv' /\ Grows
    <2>1. s.conv \in Conversations /\ s.text \in Nat
      BY PageAssumption DEF TypeOK, Number
    <2>2. PICK m : m = [conv |-> s.conv, ts |-> clock', text |-> s.text, temp |-> FALSE]
      OBVIOUS
    <2>3. CASE UNCHANGED <<clock, server, stored>>
      BY <1>1, <2>3 DEF storeVars
    <2>4. CASE /\ clock' = clock + 1 /\ server' = server \cup {m}
               /\ stored' = stored \cup {m}
      <3>1. m \in Row /\ m.ts = clock' /\ ~m.temp
        BY <2>1, <2>2, <2>4 DEF Row, TypeOK
      <3> QED
        BY <2>4, <3>1, RowPosted
    <2> QED
      BY <1>3, <2>2, <2>3, <2>4 DEF Post
  <1>4. ASSUME NEW c \in Conversations, ListFetch(c) PROVE StoreInv' /\ Grows
    BY <1>4, RowsFetched DEF ListFetch
  <1>5. ASSUME NEW j \in inits, LoadMessages(j) PROVE StoreInv' /\ Grows
    <2>1. PICK c : c = j.conv
      OBVIOUS
    <2>2. UNCHANGED <<server, clock>> /\ (stored' = stored \/ stored' = stored \cup Fetched(c))
      BY <1>5, <2>1 DEF LoadMessages
    <2> QED
      BY <2>2, RowsFetched
  <1>6. ASSUME NEW p \in pushes, PushFetch(p) PROVE StoreInv' /\ Grows
    <2>1. PICK c : c = p.conv
      OBVIOUS
    <2>2. UNCHANGED <<server, clock>> /\ (stored' = stored \/ stored' = stored \cup Fetched(c))
      BY <1>6, <2>1 DEF PushFetch
    <2> QED
      BY <2>2, RowsFetched
  <1>7. ASSUME NEW s \in sends, MediaLoads(s) PROVE StoreInv' /\ Grows
    <2>1. PICK c : c = s.conv
      OBVIOUS
    <2>2. UNCHANGED <<server, clock>> /\ (stored' = stored \/ stored' = stored \cup Fetched(c))
      BY <1>7, <2>1 DEF MediaLoads
    <2> QED
      BY <2>2, RowsFetched
  <1>8. ASSUME SendMessage PROVE StoreInv' /\ Grows
    <2>1. clock' = clock + 1 /\ UNCHANGED <<stored, server>> /\ clock \in Nat
      BY <1>8 DEF SendMessage, TypeOK
    <2>2. clock <= clock' /\ clock' \in Nat /\ 1..clock \subseteq 1..clock'
      BY <2>1
    <2> QED
      BY <2>1, <2>2 DEF StoreInv, Grows
  <1>9. ASSUME NEW c \in Conversations, Open(c) \/ Dispatch(c) PROVE UNCHANGED storeVars
    BY <1>9 DEF Open, Dispatch
  <1>10. ASSUME NEW j \in inits,
                DirectProfiles(j) \/ OpenDm(j) \/ GroupInfo(j) \/ ShowLoaded(j) \/ InitRead(j)
         PROVE  UNCHANGED storeVars
    BY <1>10 DEF DirectProfiles, OpenDm, GroupInfo, ShowLoaded, InitRead
  <1>11. ASSUME NEW p \in pushes, PushAsk(p) \/ PushShow(p) PROVE UNCHANGED storeVars
    BY <1>11 DEF PushAsk, PushShow
  <1>12. ASSUME NEW s \in sends, TextSent(s) \/ MediaSent(s) PROVE UNCHANGED storeVars
    BY <1>12 DEF TextSent, MediaSent
  <1>13. ASSUME \/ Leave \/ LoadOlder \/ Type \/ Attach \/ ClearFile \/ SendMedia
                \/ \E q \in older : OlderLoaded(q)
         PROVE  UNCHANGED storeVars
    BY <1>13 DEF Leave, LoadOlder, Type, Attach, ClearFile, SendMedia, OlderLoaded
  <1> QED
    BY <1>1, <1>2, <1>3, <1>4, <1>5, <1>6, <1>7, <1>8, <1>9, <1>10, <1>11, <1>12, <1>13, Cases

\* A row that is among R, or older than one of its conversation there.
Beside(m, R) == m \in R \/ \E n \in R : n.conv = m.conv /\ n.ts > m.ts

LEMMA LoadedRows ==
    ASSUME TypeOK, StoreInv, NEW T, T \subseteq server, NEW c, NEW k \in Nat \ {0},
           NEW q \in InOrder(Newest(RowsOf(T, c), k))
    PROVE  /\ q \in Seq(Row) /\ RowsIn(q) \subseteq RowsOf(T, c)
           /\ \A m \in RowsOf(T, c) : Beside(m, RowsIn(q))
  <1>1. PICK S : S = RowsOf(T, c)
    OBVIOUS
  <1>2. S \subseteq server /\ S \subseteq Row /\ \A m \in S : m.conv = c
    BY <1>1 DEF RowsOf, TypeOK
  <1>3. IsFiniteSet(S)
    BY <1>2, FS_Subset DEF StoreInv
  <1>4. PICK N : N = Newest(S, k)
    OBVIOUS
  <1>5. N \subseteq S /\ \A m \in S : m \in N \/ \E n \in N : n.ts > m.ts
    BY <1>2, <1>3, <1>4, NewestRows
  <1>6. N \subseteq Row /\ IsFiniteSet(N) /\ q \in InOrder(N)
    BY <1>1, <1>2, <1>3, <1>4, <1>5, FS_Subset
  <1>7. q \in Seq(Row) /\ RowsIn(q) = N
    BY <1>6, OrderedRows
  <1>8. \A m \in S : Beside(m, N)
    BY <1>2, <1>5 DEF Beside
  <1> QED
    BY <1>1, <1>5, <1>7, <1>8

\* The rows before the first one shown are some of the conversation's.
LEMMA OlderRows ==
    ASSUME TypeOK, StoreInv,
           NEW q \in InOrder(IF shown = <<>> THEN Newest(RowsOf(stored, conv), OlderLimit)
                             ELSE LocalBefore(conv, Stamp(shown[1])))
    PROVE  q \in Seq(Row) /\ RowsIn(q) \subseteq RowsOf(stored, conv)
  <1> DEFINE All == RowsOf(stored, conv)
             Before == {m \in All : m.ts < Stamp(shown[1])}
  <1>1. PICK S : S = (IF shown = <<>> THEN All ELSE Before)
    OBVIOUS
  <1>2. S \subseteq All /\ All \subseteq server /\ All \subseteq Row
    BY <1>1 DEF RowsOf, TypeOK, StoreInv
  <1>3. IsFiniteSet(S)
    BY <1>2, FS_Subset DEF StoreInv
  <1>4. PICK N : N = Newest(S, OlderLimit)
    OBVIOUS
  <1>5. N \subseteq S
    BY <1>4 DEF Newest
  <1>6. N \subseteq Row /\ IsFiniteSet(N)
    BY <1>2, <1>3, <1>5, FS_Subset
  <1>7. q \in InOrder(N)
    BY <1>1, <1>4 DEF LocalBefore
  <1>8. q \in Seq(Row) /\ RowsIn(q) = N
    BY <1>6, <1>7, OrderedRows
  <1> QED
    BY <1>2, <1>5, <1>8

\* What an announcement appends is what is not there yet.
LEMMA AppendedRows ==
    ASSUME TypeOK, StoreInv, NEW p \in pushes, p.rows \subseteq stored,
           NEW q \in InOrder(p.rows \ RowsIn(shown)), shown' = shown \o q
    PROVE  /\ q \in Seq(Row) /\ shown' \in Seq(Row)
           /\ RowsIn(shown') = RowsIn(shown) \cup p.rows
  <1>1. PICK S : S = p.rows \ RowsIn(shown)
    OBVIOUS
  <1>2. S \subseteq server /\ S \subseteq Row
    BY <1>1 DEF TypeOK, StoreInv
  <1>3. IsFiniteSet(S)
    BY <1>2, FS_Subset DEF StoreInv
  <1>4. q \in Seq(Row) /\ RowsIn(q) = S
    BY <1>1, <1>2, <1>3, OrderedRows
  <1>5. shown \in Seq(Row)
    BY DEF TypeOK
  <1> QED
    BY <1>1, <1>4, <1>5, RowsOfBoth

\* An accepted text takes the place of its row.
LEMMA ReplacedRows ==
    ASSUME shown \in Seq(Row), NEW s, s.rows[1] \in Row
    PROVE  /\ Replaced(s) \in Seq(Row)
           /\ \A m \in RowsIn(Replaced(s)) :
                 m = s.rows[1] \/ (m \in RowsIn(shown) /\ ~IsTemp(s, m))
           /\ \A m \in RowsIn(shown) :
                 IF IsTemp(s, m) THEN s.rows[1] \in RowsIn(Replaced(s))
                 ELSE m \in RowsIn(Replaced(s))
  <1>1. Len(shown) \in Nat /\ DOMAIN shown = 1..Len(shown) /\ shown \in [1..Len(shown) -> Row]
    BY LenProperties
  <1>2. PICK q : q = Replaced(s)
    OBVIOUS
  <1>3. /\ DOMAIN q = DOMAIN shown
        /\ \A i \in DOMAIN q : q[i] = IF IsTemp(s, shown[i]) THEN s.rows[1] ELSE shown[i]
    BY <1>2 DEF Replaced
  <1>4. q \in [1..Len(shown) -> Row]
    BY <1>1, <1>2, <1>3 DEF Replaced
  <1>5. q \in Seq(Row)
    BY <1>1, <1>4, FunctionIsRows
  <1> QED
    BY <1>2, <1>3, <1>5 DEF RowsIn

\* The rows that runs carry are in the store, those shown too or not yet sent.
Unsent(m) == m.temp /\ m.ts \in 1..clock /\ \A n \in server : n.ts # m.ts
RowsStored ==
    /\ \A j \in inits : RowsIn(j.rows) \subseteq stored
    /\ \A p \in pushes : p.rows \subseteq stored
    /\ \A q \in older : RowsIn(q) \subseteq stored
    /\ \A s \in sends : RowsIn(s.rows) \subseteq stored
    /\ \A m \in RowsIn(shown) : m \in stored \/ Unsent(m)

LEMMA UnsentStays ==
    ASSUME Grows, clock \in Nat, NEW m, Unsent(m)
    PROVE  Unsent(m)'
  <1>1. m.temp /\ m.ts \in 1..clock /\ \A n \in server : n.ts # m.ts
    BY DEF Unsent
  <1>2. clock' \in Nat /\ clock <= clock'
    BY DEF Grows
  <1>3. m.ts \in 1..clock'
    BY <1>1, <1>2
  <1>4. ASSUME NEW n \in server' PROVE n.ts # m.ts
    <2>1. n \in server \/ n.ts = clock + 1
      BY DEF Grows
    <2> QED
      BY <1>1, <2>1
  <1> QED
    BY <1>1, <1>3, <1>4 DEF Unsent

\* The text being sent, or the rows shown without it.
LEMMA SentRows ==
    ASSUME TypeOK, NEW s \in sends, s.at = "accepted" => 1 \in DOMAIN s.rows,
           TextSent(s), s.live
    PROVE  /\ shown' \in Seq(Row)
           /\ \A m \in RowsIn(shown') :
                 \/ m \in RowsIn(shown) /\ ~IsTemp(s, m)
                 \/ s.at = "accepted" /\ m \in RowsIn(s.rows)
  <1>1. shown \in Seq(Row) /\ s.rows \in Seq(Row)
    BY DEF TypeOK
  <1>2. CASE s.at = "accepted" /\ shown' = Replaced(s)
    <2>1. s.rows[1] \in RowsIn(s.rows)
      BY <1>2 DEF RowsIn
    <2>2. s.rows[1] \in Row
      BY <1>1, <2>1, RowsAreRows
    <2> QED
      BY <1>1, <1>2, <2>1, <2>2, ReplacedRows
  <1>3. CASE shown' \in Removed(s)
    <2>1. PICK I : I = {i \in DOMAIN shown : ~IsTemp(s, shown[i])}
      OBVIOUS
    <2>2. PICK q \in At(I) : q = shown'
      BY <1>3, <2>1 DEF Removed
    <2>3. q \in Seq(Row) /\ \A m \in RowsIn(q) : \E i \in I : m = shown[i]
      BY <1>1, <2>1, RowsAt
    <2>4. ASSUME NEW m \in RowsIn(q) PROVE m \in RowsIn(shown) /\ ~IsTemp(s, m)
      <3>1. PICK i \in I : m = shown[i]
        BY <2>3
      <3> QED
        BY <2>1, <3>1 DEF RowsIn
    <2> QED
      BY <2>2, <2>3, <2>4
  <1> QED
    BY <1>2, <1>3 DEF TextSent

RunType == [conv : Conversations, at : {"profiles", "dm", "load", "loaded", "read"},
            rows : Seq(Row)]
PushType == [conv : Conversations, at : {"fetch", "ask", "show"}, rows : SUBSET Row]
SendType == [kind : {"text", "media"}, conv : Conversations, text : Number, ts : Nat,
             at : {"post", "accepted", "loaded", "failed"}, rows : Seq(Row), live : BOOLEAN]

\* What the store does keeps its types.
LEMMA StoreTyped ==
    ASSUME TypeOK, StoreInv, Next
    PROVE  stored' \subseteq Row /\ server' \subseteq Row /\ clock' \in Nat
  <1>1. stored' \subseteq server' /\ clock' \in Nat
    BY StoreStep DEF StoreInv, Grows
  <1>2. server' \subseteq Row
    <2>1. CASE server' = server
      BY <2>1 DEF TypeOK
    <2>2. ASSUME NEW c \in Conversations, PeerPosts(c) PROVE server' \subseteq Row
      <3>1. PICK m : m = [conv |-> c, ts |-> clock', text |-> 0, temp |-> FALSE]
        OBVIOUS
      <3>2. m \in Row
        BY <1>1, <3>1 DEF Row
      <3>3. server' = server \cup {m}
        BY <2>2, <3>1 DEF PeerPosts
      <3> QED
        BY <3>2, <3>3 DEF TypeOK
    <2>3. ASSUME NEW s \in sends, Post(s) PROVE server' \subseteq Row
      <3>1. s.conv \in Conversations /\ s.text \in Nat
        BY PageAssumption DEF TypeOK, Number
      <3>2. [conv |-> s.conv, ts |-> clock', text |-> s.text, temp |-> FALSE] \in Row
        BY <1>1, <3>1 DEF Row
      <3> QED
        BY <2>1, <2>3, <3>2 DEF Post, TypeOK
    <2>4. \/ server' = server \/ \E c \in Conversations : PeerPosts(c)
          \/ \E s \in sends : Post(s)
      BY Cases DEF Open, Dispatch, ListFetch, DirectProfiles, OpenDm, GroupInfo, LoadMessages,
           ShowLoaded, InitRead, PushFetch, PushAsk, PushShow, OlderLoaded, TextSent, MediaLoads,
           MediaSent, Leave, LoadOlder, Type, Attach, ClearFile, SendMessage, SendMedia, storeVars
    <2> QED
      BY <2>1, <2>2, <2>3, <2>4
  <1> QED
    BY <1>1, <1>2

LEMMA FetchedRows ==
    ASSUME TypeOK, NEW c PROVE Fetched(c) \subseteq Row /\ Fetched(c) \subseteq server
  BY DEF Fetched, RowsOf, TypeOK

\* The sets of runs.
LEMMA RunsTyped ==
    ASSUME TypeOK, StoreInv, Next PROVE inits' \subseteq RunType
  <1> USE DEF RunType
  <1>1. inits \subseteq RunType
    BY DEF TypeOK
  <1>2. CASE inits' \subseteq inits
    BY <1>1, <1>2
  <1>3. ASSUME NEW c \in Conversations, inits' \subseteq inits \cup {Run(c)}
        PROVE  inits' \subseteq RunType
    <2>1. Run(c) \in RunType
      BY NoRows DEF Run
    <2> QED
      BY <1>1, <1>3, <2>1
  <1>4. ASSUME NEW j \in inits, NEW at \in {"profiles", "dm", "load", "loaded", "read"},
               NEW q \in Seq(Row), NextInit(j, at, q)
        PROVE  inits' \subseteq RunType
    BY <1>1, <1>4 DEF NextInit
  <1>5. ASSUME NEW j \in inits, LoadMessages(j) PROVE inits' \subseteq RunType
    <2>1. PICK T, c : T = stored' /\ c = j.conv
      OBVIOUS
    <2>2. T \subseteq server
      BY <1>5, <2>1, FetchedRows DEF LoadMessages, StoreInv
    <2>3. CASE \E q \in InOrder(Newest(RowsOf(T, c), LoadLimit)) : NextInit(j, "loaded", q)
      <3>1. PICK q \in InOrder(Newest(RowsOf(T, c), LoadLimit)) : NextInit(j, "loaded", q)
        BY <2>3
      <3>2. q \in Seq(Row)
        BY <2>2, LoadedRows, PageAssumption
      <3> QED
        BY <1>4, <3>1, <3>2
    <2>4. CASE NextInit(j, "read", <<>>)
      BY <1>4, <2>4, NoRows
    <2> QED
      BY <1>5, <2>1, <2>3, <2>4 DEF LoadMessages
  <1>6. ASSUME NEW j \in inits, DirectProfiles(j) \/ OpenDm(j) \/ GroupInfo(j)
        PROVE  inits' \subseteq RunType
    BY <1>2, <1>4, <1>6, NoRows DEF DirectProfiles, OpenDm, GroupInfo, Ends
  <1>7. ASSUME NEW j \in inits, ShowLoaded(j) \/ InitRead(j) PROVE inits' \subseteq RunType
    BY <1>2, <1>4, <1>7, NoRows DEF ShowLoaded, InitRead, Ends
  <1>8. ASSUME NEW c \in Conversations, Open(c) PROVE inits' \subseteq RunType
    BY <1>3, <1>8 DEF Open
  <1>9. ASSUME NEW c \in Conversations, PeerPosts(c) \/ Dispatch(c) \/ ListFetch(c)
        PROVE  inits' \subseteq RunType
    BY <1>2, <1>9 DEF PeerPosts, Dispatch, ListFetch, runVars
  <1>10. ASSUME NEW p \in pushes, PushFetch(p) \/ PushAsk(p) \/ PushShow(p)
         PROVE  inits' \subseteq RunType
    BY <1>2, <1>10 DEF PushFetch, PushAsk, PushShow
  <1>11. ASSUME NEW s \in sends, Post(s) \/ TextSent(s) \/ MediaLoads(s) \/ MediaSent(s)
         PROVE  inits' \subseteq RunType
    BY <1>2, <1>11 DEF Post, TextSent, MediaLoads, MediaSent
  <1>12. ASSUME \/ Leave \/ LoadOlder \/ Type \/ Attach \/ ClearFile \/ SendMessage \/ SendMedia
                \/ \E q \in older : OlderLoaded(q)
         PROVE  inits' \subseteq RunType
    BY <1>2, <1>12 DEF Leave, LoadOlder, Type, Attach, ClearFile, SendMessage, SendMedia,
           OlderLoaded, runVars
  <1> QED
    BY <1>5, <1>6, <1>7, <1>8, <1>9, <1>10, <1>11, <1>12, Cases

\* The pushes change with these steps alone.
LEMMA PushesChange ==
    ASSUME Next
    PROVE  \/ pushes' \subseteq pushes \/ \E c \in Conversations : Dispatch(c)
           \/ \E p \in pushes : PushFetch(p) \/ PushAsk(p)
  BY Cases DEF Open, Kept, Mounted, PeerPosts, ListFetch, DirectProfiles, OpenDm, GroupInfo,
       LoadMessages, ShowLoaded, InitRead, PushShow, OlderLoaded, Post, TextSent, MediaLoads,
       MediaSent, Leave, LoadOlder, Type, Attach, ClearFile, SendMessage, SendMedia, runVars

LEMMA PushesTyped ==
    ASSUME TypeOK, StoreInv, Next PROVE pushes' \subseteq PushType
  <1> USE DEF PushType
  <1>1. pushes \subseteq PushType
    BY DEF TypeOK
  <1>2. CASE pushes' \subseteq pushes
    BY <1>1, <1>2
  <1>3. ASSUME NEW c \in Conversations, Dispatch(c) PROVE pushes' \subseteq PushType
    BY <1>1, <1>3 DEF Dispatch
  <1>4. ASSUME NEW p \in pushes, PushFetch(p) PROVE pushes' \subseteq PushType
    <2>1. PICK R : R = Fetched(p.conv)
      OBVIOUS
    <2>2. R \subseteq Row
      BY <2>1, FetchedRows
    <2>3. PICK r : r = [p EXCEPT !.at = "ask", !.rows = R]
      OBVIOUS
    <2>4. r \in PushType
      BY <1>1, <2>2, <2>3
    <2>5. pushes' \subseteq pushes \cup {r}
      BY <1>4, <2>1, <2>3 DEF PushFetch
    <2> QED
      BY <1>1, <2>4, <2>5
  <1>5. ASSUME NEW p \in pushes, PushAsk(p) PROVE pushes' \subseteq PushType
    <2>1. LocalAfter(p, LastShown) \subseteq Row
      BY DEF LocalAfter, RowsOf, TypeOK
    <2> QED
      BY <1>1, <1>5, <2>1 DEF PushAsk
  <1>6. \/ pushes' \subseteq pushes \/ \E c \in Conversations : Dispatch(c)
        \/ \E p \in pushes : PushFetch(p) \/ PushAsk(p)
    BY PushesChange
  <1> QED
    BY <1>2, <1>3, <1>4, <1>5, <1>6

LEMMA SendsTyped ==
    ASSUME TypeOK, StoreInv, Next PROVE sends' \subseteq SendType
  <1> USE DEF SendType
  <1>1. sends \subseteq SendType
    BY DEF TypeOK
  <1>2. CASE sends' \subseteq sends
    BY <1>1, <1>2
  <1>3. CASE sends' = Orphans(sends)
    BY <1>1, <1>3 DEF Orphans
  <1>4. ASSUME SendMessage \/ SendMedia PROVE sends' \subseteq SendType
    <2>1. conv \in Conversations /\ draft \in Number /\ file \in Number /\ clock' \in Nat
      BY <1>4, StoreTyped DEF SendMessage, SendMedia, Composer, TypeOK
    <2>2. PICK s, t : s = Send("text", draft, clock') /\ t = Send("media", file, 0)
      OBVIOUS
    <2>3. s \in SendType /\ t \in SendType
      BY <2>1, <2>2, NoRows DEF Send
    <2>4. sends' = sends \cup {s} \/ sends' = sends \cup {t}
      BY <1>4, <2>2 DEF SendMessage, SendMedia
    <2> QED
      BY <1>1, <2>3, <2>4
  <1>5. ASSUME NEW s \in sends, NEW at \in {"post", "accepted", "loaded", "failed"},
               NEW q \in Seq(Row), NextSend(s, at, q)
        PROVE  sends' \subseteq SendType
    BY <1>1, <1>5 DEF NextSend
  <1>6. ASSUME NEW s \in sends, Post(s) PROVE sends' \subseteq SendType
    <2>1. s.conv \in Conversations /\ s.text \in Nat /\ clock' \in Nat
      BY PageAssumption, StoreTyped DEF TypeOK, Number
    <2>2. PICK m : m = [conv |-> s.conv, ts |-> clock', text |-> s.text, temp |-> FALSE]
      OBVIOUS
    <2>3. m \in Row
      BY <2>1, <2>2 DEF Row
    <2>4. NextSend(s, "accepted", <<m>>) \/ NextSend(s, "failed", <<>>)
      BY <1>6, <2>2 DEF Post
    <2> QED
      BY <1>5, <2>3, <2>4, OneRow, NoRows
  <1>7. ASSUME NEW s \in sends, MediaLoads(s) PROVE sends' \subseteq SendType
    <2>1. PICK T, c : T = stored' /\ c = s.conv
      OBVIOUS
    <2>2. T \subseteq server
      BY <1>7, <2>1, FetchedRows DEF MediaLoads, StoreInv
    <2>3. CASE \E q \in InOrder(Newest(RowsOf(T, c), LoadLimit)) : NextSend(s, "loaded", q)
      <3>1. PICK q \in InOrder(Newest(RowsOf(T, c), LoadLimit)) : NextSend(s, "loaded", q)
        BY <2>3
      <3>2. q \in Seq(Row)
        BY <2>2, LoadedRows, PageAssumption
      <3> QED
        BY <1>5, <3>1, <3>2
    <2>4. CASE NextSend(s, "failed", <<>>)
      BY <1>5, <2>4, NoRows
    <2> QED
      BY <1>7, <2>1, <2>3, <2>4 DEF MediaLoads
  <1>8. \/ sends' \subseteq sends \/ sends' = Orphans(sends) \/ SendMessage \/ SendMedia
        \/ \E s \in sends : Post(s) \/ MediaLoads(s)
    BY Cases DEF Open, Kept, Mounted, PeerPosts, Dispatch, ListFetch, DirectProfiles, OpenDm,
         GroupInfo, LoadMessages, ShowLoaded, InitRead, PushFetch, PushAsk, PushShow, OlderLoaded,
         TextSent, MediaSent, Leave, LoadOlder, Type, Attach, ClearFile, runVars
  <1> QED
    BY <1>2, <1>3, <1>4, <1>5, <1>6, <1>7, <1>8

\* What was accepted has its row.
Accepted == \A s \in sends : s.at = "accepted" => 1 \in DOMAIN s.rows

\* The list of the screen changes with these steps alone.
LEMMA ShownChanges ==
    ASSUME Next
    PROVE  \/ UNCHANGED shown
           \/ \E c \in Conversations : Open(c) /\ Mounted(c)
           \/ \E j \in inits : ShowLoaded(j)
           \/ \E p \in pushes : PushShow(p)
           \/ \E q \in older : OlderLoaded(q)
           \/ \E s \in sends : TextSent(s) \/ MediaSent(s)
           \/ Leave \/ SendMessage
  BY Cases DEF Open, Kept, PeerPosts, Dispatch, ListFetch, DirectProfiles, OpenDm, GroupInfo,
       LoadMessages, InitRead, PushFetch, PushAsk, Post, MediaLoads, LoadOlder, Type, Attach,
       ClearFile, SendMedia, pageVars

LEMMA ShownTyped ==
    ASSUME TypeOK, StoreInv, RowsStored, Accepted, Next PROVE shown' \in Seq(Row)
  <1>1. shown \in Seq(Row)
    BY DEF TypeOK
  <1>2. ASSUME NEW c, Mounted(c) PROVE shown' \in Seq(Row)
    BY <1>2, NoRows DEF Mounted
  <1>3. ASSUME NEW j \in inits, ShowLoaded(j) PROVE shown' \in Seq(Row)
    BY <1>3 DEF ShowLoaded, TypeOK
  <1>4. ASSUME NEW p \in pushes, PushShow(p) PROVE shown' \in Seq(Row)
    BY <1>4, AppendedRows DEF PushShow, RowsStored
  <1>5. ASSUME NEW q \in older, OlderLoaded(q) PROVE shown' \in Seq(Row)
    BY <1>1, <1>5, RowsOfBoth DEF OlderLoaded, TypeOK
  <1>6. ASSUME NEW s \in sends, TextSent(s) PROVE shown' \in Seq(Row)
    <2>1. ~s.live => shown' = shown
      BY <1>6 DEF TextSent
    <2> QED
      BY <1>1, <1>6, <2>1, SentRows DEF Accepted
  <1>7. ASSUME NEW s \in sends, MediaSent(s) PROVE shown' \in Seq(Row)
    BY <1>1, <1>7 DEF MediaSent, TypeOK
  <1>8. ASSUME SendMessage PROVE shown' \in Seq(Row)
    <2>1. conv \in Conversations /\ draft \in Nat /\ clock' \in Nat
      BY <1>8, StoreTyped, PageAssumption DEF SendMessage, Composer, TypeOK, Number
    <2>2. PICK m : m = [conv |-> conv, ts |-> clock', text |-> draft, temp |-> TRUE]
      OBVIOUS
    <2>3. m \in Row /\ shown' = Append(shown, m)
      BY <1>8, <2>1, <2>2 DEF SendMessage, Row
    <2> QED
      BY <1>1, <2>3, OneRowMore
  <1>9. Leave => shown' \in Seq(Row)
    BY <1>2 DEF Leave
  <1> QED
    BY <1>1, <1>2, <1>3, <1>4, <1>5, <1>6, <1>7, <1>8, <1>9, ShownChanges

\* The variables without rows.
PlainTyped ==
    /\ {route, conv, header} \subseteq Conversations \cup {None} /\ loading \in BOOLEAN
    /\ more \in BOOLEAN /\ draft \in Number /\ file \in Number
    /\ frames \subseteq Conversations
    /\ typed \in Number /\ left \subseteq Number
    /\ disturbed \in BOOLEAN /\ skew \in Int /\ misled \in BOOLEAN
    /\ visits \in Nat /\ faults \in Nat

LEMMA PlainStep ==
    ASSUME TypeOK, Next PROVE PlainTyped'
  <1>1. PlainTyped /\ 0 \in Number
    BY PageAssumption DEF TypeOK, PlainTyped, Number
  <1> USE DEF PlainTyped, stampVars
  <1>2. ASSUME NEW c \in Conversations, Open(c) PROVE PlainTyped'
    <2>1. Groups \subseteq Conversations
      BY DEF Conversations
    <2>2. visits' \in Nat /\ route' = c
      BY <1>1, <1>2 DEF Open
    <2>3. {conv', header'} \subseteq Conversations \cup {None} /\ loading' \in BOOLEAN
      BY <1>1, <1>2, <2>1 DEF Open, Mounted, Kept
    <2>4. /\ more' \in BOOLEAN /\ draft' \in Number /\ file' \in Number
          /\ left' \subseteq Number /\ disturbed' \in BOOLEAN /\ misled' \in BOOLEAN
      BY <1>1, <1>2 DEF Open, Mounted, Kept
    <2> QED
      BY <1>1, <1>2, <2>2, <2>3, <2>4 DEF Open
  <1>3. ASSUME Leave PROVE PlainTyped'
    BY <1>1, <1>3 DEF Leave, Mounted
  <1>4. ASSUME NEW c \in Conversations, PeerPosts(c) \/ Dispatch(c) \/ ListFetch(c)
        PROVE  PlainTyped'
    BY <1>1, <1>4 DEF PeerPosts, Dispatch, ListFetch, pageVars, inputVars
  <1>5. ASSUME Fails PROVE disturbed' \in BOOLEAN /\ faults' \in Nat
    BY <1>1, <1>5 DEF Fails
  <1>6. ASSUME NEW j \in inits, DirectProfiles(j) \/ OpenDm(j) \/ GroupInfo(j) PROVE PlainTyped'
    <2>1. j.conv \in Conversations
      BY DEF TypeOK
    <2> QED
      BY <1>1, <1>5, <1>6, <2>1 DEF DirectProfiles, OpenDm, GroupInfo, Ends, inputVars
  <1>7. ASSUME NEW j \in inits, LoadMessages(j) \/ ShowLoaded(j) \/ InitRead(j) PROVE PlainTyped'
    BY <1>1, <1>5, <1>7 DEF LoadMessages, ShowLoaded, InitRead, Ends, pageVars, inputVars
  <1>8. ASSUME NEW p \in pushes, PushFetch(p) \/ PushAsk(p) \/ PushShow(p) PROVE PlainTyped'
    BY <1>1, <1>5, <1>8 DEF PushFetch, PushAsk, PushShow, AfterAhead, pageVars, inputVars
  <1>9. ASSUME LoadOlder \/ \E q \in older : OlderLoaded(q) PROVE PlainTyped'
    BY <1>1, <1>9 DEF LoadOlder, OlderLoaded, pageVars, inputVars
  <1>10. ASSUME Type \/ Attach \/ ClearFile PROVE PlainTyped'
    <2>1. Type \/ Attach => typed + 1 \in Number
      BY <1>1, PageAssumption DEF Type, Attach, Number
    <2> QED
      BY <1>1, <1>10, <2>1 DEF Type, Attach, ClearFile
  <1>11. ASSUME SendMessage \/ SendMedia PROVE PlainTyped'
    <2>1. SendMessage => skew' \in Int
      BY PageAssumption DEF SendMessage
    <2> QED
      BY <1>1, <1>11, <2>1 DEF SendMessage, SendMedia, pageVars, inputVars
  <1>12. ASSUME NEW s \in sends, Post(s) \/ MediaLoads(s) PROVE PlainTyped'
    BY <1>1, <1>5, <1>12 DEF Post, MediaLoads, pageVars, inputVars
  <1>13. ASSUME NEW s \in sends, TextSent(s) \/ MediaSent(s) PROVE PlainTyped'
    <2>1. s.text \in Number
      BY DEF TypeOK
    <2> QED
      BY <1>1, <1>13, <2>1 DEF TextSent, MediaSent
  <1> QED
    BY <1>2, <1>3, <1>4, <1>6, <1>7, <1>8, <1>9, <1>10, <1>11, <1>12, <1>13, Cases

LEMMA OlderTyped ==
    ASSUME TypeOK, StoreInv, Next
    PROVE  /\ older' \subseteq Seq(Row)
           /\ older' \subseteq older \/ \A q \in older' : RowsIn(q) \subseteq RowsOf(stored, conv)
  <1>1. older' \subseteq older \/ LoadOlder
    BY Cases DEF Open, Kept, Mounted, PeerPosts, Dispatch, ListFetch, DirectProfiles, OpenDm,
         GroupInfo, LoadMessages, ShowLoaded, InitRead, PushFetch, PushAsk, PushShow, OlderLoaded,
         Post, TextSent, MediaLoads, MediaSent, Leave, Type, Attach, ClearFile, SendMessage,
         SendMedia, runVars
  <1>2. CASE LoadOlder
    BY <1>2, OlderRows DEF LoadOlder
  <1> QED
    BY <1>1, <1>2 DEF TypeOK

LEMMA TypeStep ==
    ASSUME TypeOK, StoreInv, RowsStored, Accepted, Next PROVE TypeOK'
  BY StoreTyped, RunsTyped, PushesTyped, SendsTyped, ShownTyped, PlainStep, OlderTyped
     DEF TypeOK, RunType, PushType, SendType, PlainTyped

\* A run goes on with the rows of a loaded list, or with none.
LEMMA RunsRows ==
    ASSUME TypeOK, StoreInv, RowsStored, Next
    PROVE  \A r \in inits' : RowsIn(r.rows) \subseteq stored'
  <1>1. ASSUME NEW r \in inits PROVE RowsIn(r.rows) \subseteq stored'
    BY StoreStep DEF RowsStored, Grows
  <1>2. ASSUME NEW j \in inits, NEW at, NEW q, NextInit(j, at, q), RowsIn(q) \subseteq stored'
        PROVE  \A r \in inits' : RowsIn(r.rows) \subseteq stored'
    <2>1. PICK o : o = [j EXCEPT !.at = at, !.rows = q]
      OBVIOUS
    <2>2. o.rows = q
      BY <2>1 DEF TypeOK
    <2>3. inits' \subseteq inits \cup {o}
      BY <1>2, <2>1 DEF NextInit
    <2> QED
      BY <1>1, <1>2, <2>2, <2>3
  <1>3. ASSUME NEW j \in inits, LoadMessages(j)
        PROVE  \A r \in inits' : RowsIn(r.rows) \subseteq stored'
    <2>1. PICK T, c : T = stored' /\ c = j.conv
      OBVIOUS
    <2>2. T \subseteq server
      BY <1>3, <2>1, FetchedRows DEF LoadMessages, StoreInv
    <2>3. ASSUME NEW q \in InOrder(Newest(RowsOf(T, c), LoadLimit)) PROVE RowsIn(q) \subseteq T
      BY <2>2, <2>3, LoadedRows, PageAssumption DEF RowsOf
    <2>4. \/ \E q : NextInit(j, "loaded", q) /\ RowsIn(q) \subseteq T
          \/ NextInit(j, "read", <<>>)
      BY <1>3, <2>1, <2>3 DEF LoadMessages
    <2> QED
      BY <1>2, <2>1, <2>4, NoRows
  <1>4. ASSUME NEW j \in inits, \/ DirectProfiles(j) \/ OpenDm(j) \/ GroupInfo(j)
                                \/ ShowLoaded(j) \/ InitRead(j)
        PROVE  \A r \in inits' : RowsIn(r.rows) \subseteq stored'
    <2>1. inits' \subseteq inits \/ \E at : NextInit(j, at, <<>>)
      BY <1>4 DEF DirectProfiles, OpenDm, GroupInfo, ShowLoaded, InitRead, Ends
    <2> QED
      BY <1>1, <1>2, <2>1, NoRows
  <1>5. ASSUME NEW c \in Conversations, Open(c)
        PROVE  \A r \in inits' : RowsIn(r.rows) \subseteq stored'
    <2>1. inits' \subseteq inits \cup {Run(c)}
      BY <1>5 DEF Open
    <2>2. RowsIn(Run(c).rows) = {}
      BY NoRows DEF Run
    <2> QED
      BY <1>1, <2>1, <2>2
  <1>6. \/ inits' \subseteq inits \/ \E c \in Conversations : Open(c)
        \/ \E j \in inits : \/ DirectProfiles(j) \/ OpenDm(j) \/ GroupInfo(j)
                            \/ LoadMessages(j) \/ ShowLoaded(j) \/ InitRead(j)
    BY Cases DEF PeerPosts, Dispatch, ListFetch, PushFetch, PushAsk, PushShow, OlderLoaded,
         Post, TextSent, MediaLoads, MediaSent, Leave, LoadOlder, Type, Attach, ClearFile,
         SendMessage, SendMedia, runVars
  <1> QED
    BY <1>1, <1>3, <1>4, <1>5, <1>6

LEMMA PushesRows ==
    ASSUME TypeOK, StoreInv, RowsStored, Next
    PROVE  \A r \in pushes' : r.rows \subseteq stored'
  <1>1. \A r \in pushes : r.rows \subseteq stored'
    BY StoreStep DEF RowsStored, Grows
  <1>2. ASSUME NEW c \in Conversations, Dispatch(c)
        PROVE  \A r \in pushes' : r.rows \subseteq stored'
    BY <1>1, <1>2 DEF Dispatch
  <1>3. ASSUME NEW p \in pushes, NEW at, NEW R, R \subseteq stored',
               pushes' \subseteq pushes \cup {[p EXCEPT !.at = at, !.rows = R]}
        PROVE  \A r \in pushes' : r.rows \subseteq stored'
    <2>1. PICK o : o = [p EXCEPT !.at = at, !.rows = R]
      OBVIOUS
    <2>2. o.rows = R
      BY <2>1 DEF TypeOK
    <2> QED
      BY <1>1, <1>3, <2>1, <2>2
  <1>4. ASSUME NEW p \in pushes, PushFetch(p) PROVE \A r \in pushes' : r.rows \subseteq stored'
    <2>1. PICK R : R = Fetched(p.conv)
      OBVIOUS
    <2>2. \/ pushes' \subseteq pushes
          \/ /\ R \subseteq stored'
             /\ pushes' \subseteq pushes \cup {[p EXCEPT !.at = "ask", !.rows = R]}
      BY <1>4, <2>1 DEF PushFetch
    <2> QED
      BY <1>1, <1>3, <2>2
  <1>5. ASSUME NEW p \in pushes, PushAsk(p) PROVE \A r \in pushes' : r.rows \subseteq stored'
    <2>1. PICK R : R = LocalAfter(p, LastShown)
      OBVIOUS
    <2>2. R \subseteq stored'
      BY <1>5, <2>1 DEF PushAsk, LocalAfter, RowsOf, storeVars
    <2>3. pushes' \subseteq pushes \cup {[p EXCEPT !.at = "show", !.rows = R]}
      BY <1>5, <2>1 DEF PushAsk
    <2> QED
      BY <1>3, <2>2, <2>3
  <1>6. \/ pushes' \subseteq pushes \/ \E c \in Conversations : Dispatch(c)
        \/ \E p \in pushes : PushFetch(p) \/ PushAsk(p)
    BY PushesChange
  <1> QED
    BY <1>1, <1>2, <1>4, <1>5, <1>6

\* The composer and the sends change with these steps alone.
LEMMA ComposerChanges ==
    ASSUME Next
    PROVE  \/ UNCHANGED <<draft, file, left, typed, sends>>
           \/ \E c : Mounted(c) /\ UNCHANGED <<typed, server>>
           \/ Type \/ Attach \/ ClearFile \/ SendMessage \/ SendMedia
           \/ \E s \in sends : Post(s) \/ TextSent(s) \/ MediaLoads(s) \/ MediaSent(s)
  <1>1. CASE UNCHANGED <<draft, file, left, typed, sends>>
    BY <1>1
  <1>2. ASSUME NEW c \in Conversations, Open(c)
        PROVE  \/ UNCHANGED <<draft, file, left, typed, sends>>
               \/ \E d : Mounted(d) /\ UNCHANGED <<typed, server>>
    BY <1>2 DEF Open, Kept, storeVars
  <1>3. Leave => \E d : Mounted(d) /\ UNCHANGED <<typed, server>>
    BY DEF Leave, storeVars
  <1>4. ASSUME NEW c \in Conversations, PeerPosts(c) \/ Dispatch(c) \/ ListFetch(c)
        PROVE  UNCHANGED <<draft, file, left, typed, sends>>
    BY <1>4 DEF PeerPosts, Dispatch, ListFetch, pageVars, runVars, inputVars
  <1>5. ASSUME NEW j \in inits, \/ DirectProfiles(j) \/ OpenDm(j) \/ GroupInfo(j)
                                \/ LoadMessages(j) \/ ShowLoaded(j) \/ InitRead(j)
        PROVE  UNCHANGED <<draft, file, left, typed, sends>>
    BY <1>5 DEF DirectProfiles, OpenDm, GroupInfo, LoadMessages, ShowLoaded, InitRead, pageVars,
         inputVars
  <1>6. ASSUME NEW p \in pushes, PushFetch(p) \/ PushAsk(p) \/ PushShow(p)
        PROVE  UNCHANGED <<draft, file, left, typed, sends>>
    BY <1>6 DEF PushFetch, PushAsk, PushShow, pageVars, inputVars
  <1>7. ASSUME LoadOlder \/ \E q \in older : OlderLoaded(q)
        PROVE  UNCHANGED <<draft, file, left, typed, sends>>
    BY <1>7 DEF LoadOlder, OlderLoaded, pageVars, inputVars
  <1> QED
    BY <1>1, <1>2, <1>3, <1>4, <1>5, <1>6, <1>7, Cases

\* A send that goes on is what it was, but for its place and its rows.
LEMMA SendGoesOn ==
    ASSUME TypeOK, NEW s \in sends, NEW at, NEW q, NextSend(s, at, q)
    PROVE  \E t : /\ sends' = (sends \ {s}) \cup {t}
                  /\ t.kind = s.kind /\ t.conv = s.conv /\ t.text = s.text /\ t.ts = s.ts
                  /\ t.live = s.live /\ t.at = at /\ t.rows = q
  <1>1. PICK t : t = [s EXCEPT !.at = at, !.rows = q]
    OBVIOUS
  <1>2. /\ t.kind = s.kind /\ t.conv = s.conv /\ t.text = s.text /\ t.ts = s.ts
        /\ t.live = s.live /\ t.at = at /\ t.rows = q
    BY <1>1 DEF TypeOK
  <1>3. sends' = (sends \ {s}) \cup {t}
    BY <1>1 DEF NextSend
  <1> QED
    BY <1>2, <1>3

LEMMA OrphansAre ==
    ASSUME TypeOK
    PROVE  /\ \A s \in sends : \E t \in Orphans(sends) : t.text = s.text
           /\ \A t \in Orphans(sends) :
                 \E s \in sends :
                    /\ t.kind = s.kind /\ t.conv = s.conv /\ t.text = s.text /\ t.ts = s.ts
                    /\ t.at = s.at /\ t.rows = s.rows /\ t.live = FALSE
  <1>1. ASSUME NEW s \in sends
        PROVE  \E t \in Orphans(sends) :
                    /\ t.kind = s.kind /\ t.conv = s.conv /\ t.text = s.text /\ t.ts = s.ts
                    /\ t.at = s.at /\ t.rows = s.rows /\ t.live = FALSE
                    /\ t = [s EXCEPT !.live = FALSE]
    <2>1. PICK t : t = [s EXCEPT !.live = FALSE]
      OBVIOUS
    <2>2. t \in Orphans(sends)
      BY <2>1 DEF Orphans
    <2>3. /\ t.kind = s.kind /\ t.conv = s.conv /\ t.text = s.text /\ t.ts = s.ts
          /\ t.at = s.at /\ t.rows = s.rows /\ t.live = FALSE
      BY <2>1 DEF TypeOK
    <2> QED
      BY <2>1, <2>2, <2>3
  <1>2. ASSUME NEW t \in Orphans(sends)
        PROVE  \E s \in sends :
                    /\ t.kind = s.kind /\ t.conv = s.conv /\ t.text = s.text /\ t.ts = s.ts
                    /\ t.at = s.at /\ t.rows = s.rows /\ t.live = FALSE
    <2>1. PICK s \in sends : t = [s EXCEPT !.live = FALSE]
      BY DEF Orphans
    <2> QED
      BY <1>1, <2>1
  <1>3. \A s \in sends : \E t \in Orphans(sends) : t.text = s.text
    BY <1>1
  <1> QED
    BY <1>2, <1>3

LEMMA SendsRows ==
    ASSUME TypeOK, StoreInv, RowsStored, Next
    PROVE  \A r \in sends' : RowsIn(r.rows) \subseteq stored'
  <1>1. \A r \in sends : RowsIn(r.rows) \subseteq stored'
    BY StoreStep DEF RowsStored, Grows
  <1>2. CASE sends' = Orphans(sends)
    BY <1>1, <1>2, OrphansAre
  <1>3. ASSUME NEW s, sends' = sends \cup {s}, s.rows = <<>>
        PROVE  \A r \in sends' : RowsIn(r.rows) \subseteq stored'
    BY <1>1, <1>3, NoRows
  <1>4. SendMessage \/ SendMedia => \A r \in sends' : RowsIn(r.rows) \subseteq stored'
    <2>1. PICK s, t : s = Send("text", draft, clock') /\ t = Send("media", file, 0)
      OBVIOUS
    <2>2. s.rows = <<>> /\ t.rows = <<>>
      BY <2>1 DEF Send
    <2> QED
      BY <1>3, <2>1, <2>2 DEF SendMessage, SendMedia
  <1>5. ASSUME NEW s \in sends, NEW at, NEW q, NextSend(s, at, q), RowsIn(q) \subseteq stored'
        PROVE  \A r \in sends' : RowsIn(r.rows) \subseteq stored'
    BY <1>1, <1>5, SendGoesOn
  <1>6. ASSUME NEW s \in sends, Post(s)
        PROVE  \A r \in sends' : RowsIn(r.rows) \subseteq stored'
    <2>1. PICK m : m = [conv |-> s.conv, ts |-> clock', text |-> s.text, temp |-> FALSE]
      OBVIOUS
    <2>2. RowsIn(<<m>>) = {m}
      BY DEF RowsIn
    <2>3. \/ NextSend(s, "accepted", <<m>>) /\ m \in stored'
          \/ NextSend(s, "failed", <<>>)
      BY <1>6, <2>1 DEF Post
    <2> QED
      BY <1>5, <2>2, <2>3, NoRows
  <1>7. ASSUME NEW s \in sends, MediaLoads(s)
        PROVE  \A r \in sends' : RowsIn(r.rows) \subseteq stored'
    <2>1. PICK T, c : T = stored' /\ c = s.conv
      OBVIOUS
    <2>2. T \subseteq server
      BY <1>7, <2>1, FetchedRows DEF MediaLoads, StoreInv
    <2>3. ASSUME NEW q \in InOrder(Newest(RowsOf(T, c), LoadLimit)) PROVE RowsIn(q) \subseteq T
      BY <2>2, <2>3, LoadedRows, PageAssumption DEF RowsOf
    <2>4. \/ \E q : NextSend(s, "loaded", q) /\ RowsIn(q) \subseteq T
          \/ NextSend(s, "failed", <<>>)
      BY <1>7, <2>1, <2>3 DEF MediaLoads
    <2> QED
      BY <1>5, <2>1, <2>4, NoRows
  <1>8. ASSUME NEW s \in sends, TextSent(s) \/ MediaSent(s)
        PROVE  \A r \in sends' : RowsIn(r.rows) \subseteq stored'
    BY <1>1, <1>8 DEF TextSent, MediaSent
  <1>9. ASSUME \/ UNCHANGED sends \/ \E c : Mounted(c)
               \/ Type \/ Attach \/ ClearFile
        PROVE  \A r \in sends' : RowsIn(r.rows) \subseteq stored'
    <2>1. sends' = sends \/ sends' = Orphans(sends)
      BY <1>9 DEF Mounted, Type, Attach, ClearFile, runVars
    <2> QED
      BY <1>1, <1>2, <2>1
  <1> QED
    BY <1>4, <1>6, <1>7, <1>8, <1>9, ComposerChanges

LEMMA ShownRows ==
    ASSUME TypeOK, StoreInv, RowsStored, Accepted, Next
    PROVE  \A m \in RowsIn(shown)' : m \in stored' \/ Unsent(m)'
  <1> DEFINE Good(m) == m \in stored' \/ Unsent(m)'
  <1>1. ASSUME NEW m, m \in stored \/ Unsent(m) PROVE Good(m)
    BY <1>1, StoreStep, UnsentStays DEF Grows, TypeOK
  <1>2. ASSUME NEW m \in RowsIn(shown) PROVE Good(m)
    BY <1>1 DEF RowsStored
  <1>3. RowsIn(shown)' = RowsIn(shown')
    BY DEF RowsIn
  <1> HIDE DEF Good
  <1>4. ASSUME NEW c, Mounted(c) PROVE \A m \in RowsIn(shown') : Good(m)
    BY <1>4, NoRows DEF Mounted
  <1>5. ASSUME NEW j \in inits, ShowLoaded(j) PROVE \A m \in RowsIn(shown') : Good(m)
    BY <1>1, <1>5 DEF ShowLoaded, RowsStored
  <1>6. ASSUME NEW p \in pushes, PushShow(p) PROVE \A m \in RowsIn(shown') : Good(m)
    <2>1. p.rows \subseteq stored
      BY DEF RowsStored
    <2>2. RowsIn(shown') = RowsIn(shown) \cup p.rows
      BY <1>6, <2>1, AppendedRows DEF PushShow
    <2> QED
      BY <1>1, <1>2, <2>1, <2>2
  <1>7. ASSUME NEW q \in older, OlderLoaded(q) PROVE \A m \in RowsIn(shown') : Good(m)
    <2>1. RowsIn(q) \subseteq stored /\ RowsIn(shown') = RowsIn(q) \cup RowsIn(shown)
      BY <1>7, RowsOfBoth DEF OlderLoaded, TypeOK, RowsStored
    <2> QED
      BY <1>1, <1>2, <2>1
  <1>8. ASSUME NEW s \in sends, TextSent(s)
        PROVE  \A m \in RowsIn(shown') : Good(m)
    <2>1. CASE s.live
      <3>1. \A m \in RowsIn(shown') : m \in RowsIn(shown) \/ m \in RowsIn(s.rows)
        BY <1>8, <2>1, SentRows DEF Accepted
      <3> QED
        BY <1>1, <1>2, <3>1 DEF RowsStored
    <2>2. ~s.live => shown' = shown
      BY <1>8 DEF TextSent
    <2> QED
      BY <1>2, <2>1, <2>2
  <1>9. ASSUME NEW s \in sends, MediaSent(s) PROVE \A m \in RowsIn(shown') : Good(m)
    <2>1. shown' = shown \/ shown' = s.rows
      BY <1>9 DEF MediaSent
    <2> QED
      BY <1>1, <1>2, <2>1 DEF RowsStored
  <1>10. ASSUME SendMessage PROVE \A m \in RowsIn(shown') : Good(m)
    <2>1. conv \in Conversations /\ draft \in Nat /\ clock' \in Nat /\ clock \in Nat
      BY <1>10, StoreTyped, PageAssumption DEF SendMessage, Composer, TypeOK, Number
    <2>2. PICK m : m = [conv |-> conv, ts |-> clock', text |-> draft, temp |-> TRUE]
      OBVIOUS
    <2>3. m \in Row /\ shown' = Append(shown, m) /\ clock' = clock + 1 /\ server' = server
      BY <1>10, <2>1, <2>2 DEF SendMessage, Row
    <2>4. RowsIn(shown') = RowsIn(shown) \cup {m}
      BY <2>3, OneRowMore DEF TypeOK
    <2>5. m.temp /\ m.ts \in 1..clock'
      BY <2>1, <2>2, <2>3
    <2>6. ASSUME NEW n \in server' PROVE n.ts # m.ts
      <3>1. n.ts \in 1..clock
        BY <2>3 DEF StoreInv
      <3> QED
        BY <2>1, <2>2, <2>3, <3>1
    <2>7. Good(m)
      BY <2>5, <2>6 DEF Good, Unsent
    <2> QED
      BY <1>2, <2>4, <2>7
  <1>11. Leave => \A m \in RowsIn(shown') : Good(m)
    BY <1>4 DEF Leave
  <1>12. \A m \in RowsIn(shown') : Good(m)
    BY <1>2, <1>4, <1>5, <1>6, <1>7, <1>8, <1>9, <1>10, <1>11, ShownChanges
  <1> QED
    BY <1>3, <1>12 DEF Good

LEMMA RowsStep ==
    ASSUME TypeOK, StoreInv, RowsStored, Accepted, Next PROVE RowsStored'
  <1>1. \A q \in older' : RowsIn(q) \subseteq stored'
    BY OlderTyped, StoreStep DEF RowsStored, RowsOf, Grows
  <1> QED
    BY <1>1, RunsRows, PushesRows, SendsRows, ShownRows DEF RowsStored, RowsIn

-----------------------------------------------------------------------------
(***************************************************************************)
(* The composer                                                            *)
(***************************************************************************)
\* A send carries a text, and what was accepted is on the server.
Fits(s) ==
    /\ s.text # 0 /\ s.ts <= clock
    /\ s.at \in {"accepted", "loaded"} => \E m \in server : m.text = s.text
    /\ s.at = "accepted" =>
          1 \in DOMAIN s.rows /\ s.rows[1].conv = s.conv /\ s.rows[1].ts > s.ts
    /\ s.kind = "text" => s.at # "loaded"
    /\ s.kind = "text" /\ s.at = "failed" => disturbed

\* One send at a time is the page's; while it is a text, the composer is empty.
SendsAgree ==
    /\ \A s, t \in Live(sends) : s = t
    /\ \A s \in Live(sends) : s.kind = "text" => draft = 0
    /\ \A s \in sends : Fits(s)

TextSomewhere ==
    \A t \in 1..typed :
        \/ t \in {draft, file} \cup left \cup TextsOf(sends)
        \/ \E m \in server : m.text = t

\* A row that is not accepted yet is that of the text being sent.
UnsentOnTheWay ==
    \A m \in RowsIn(shown) : m.temp =>
        \E s \in Live(sends) : s.kind = "text" /\ IsTemp(s, m) /\ m.conv = s.conv

ComposerInv ==
    TypeOK /\ StoreInv /\ RowsStored /\ SendsAgree /\ TextSomewhere /\ UnsentOnTheWay

LEMMA AcceptedFits ==
    ASSUME SendsAgree PROVE Accepted
  BY DEF SendsAgree, Accepted, Fits

LEMMA StaysDisturbed ==
    ASSUME TypeOK, Next, disturbed PROVE disturbed'
  BY Cases, Zenon DEF Open, Kept, Mounted, PeerPosts, Dispatch, ListFetch, DirectProfiles, OpenDm,
       GroupInfo, LoadMessages, ShowLoaded, InitRead, PushFetch, PushAsk, PushShow, OlderLoaded,
       Post, TextSent, MediaLoads, MediaSent, Leave, LoadOlder, Type, Attach, ClearFile,
       SendMessage, SendMedia, Fails

LEMMA FitsStays ==
    ASSUME TypeOK, StoreInv, Next, NEW s, s.ts \in Nat, Fits(s) PROVE Fits(s)'
  <1>1. server \subseteq server' /\ clock <= clock' /\ clock' \in Nat /\ clock \in Nat
    BY StoreStep DEF Grows, TypeOK
  <1>2. disturbed => disturbed'
    BY StaysDisturbed
  <1>3. s.ts <= clock'
    BY <1>1 DEF Fits
  <1> QED
    BY <1>1, <1>2, <1>3 DEF Fits

\* With the sends that are there, of the same page, there is nothing to show.
LEMMA SameSends ==
    ASSUME TypeOK, StoreInv, SendsAgree, Next, sends' \subseteq sends,
           draft' = draft \/ Live(sends) = {} \/ Live(sends') = {}
    PROVE  SendsAgree'
  <1>1. \A s \in sends : Fits(s)'
    BY FitsStays DEF SendsAgree, TypeOK
  <1>2. Live(sends') \subseteq Live(sends) /\ Live(sends)' = Live(sends')
    BY DEF Live
  <1>3. \A s, t \in Live(sends') : s = t
    BY <1>2 DEF SendsAgree
  <1>4. \A s \in Live(sends') : s.kind = "text" => draft' = 0
    BY <1>2 DEF SendsAgree
  <1> QED
    BY <1>1, <1>2, <1>3, <1>4 DEF SendsAgree

\* A send that goes on leaves the composer as it is.
LEMMA SendsGoOn ==
    ASSUME TypeOK, StoreInv, SendsAgree, Next, NEW s \in sends, NEW t, UNCHANGED draft,
           sends' = (sends \ {s}) \cup {t}, t.live = s.live, t.kind = s.kind, Fits(t)'
    PROVE  SendsAgree'
  <1>1. \A r \in sends : Fits(r)'
    BY FitsStays DEF SendsAgree, TypeOK
  <1>2. Live(sends') \subseteq (Live(sends) \ {s}) \cup {t} /\ Live(sends)' = Live(sends')
    BY DEF Live
  <1>3. t \in Live(sends') => s \in Live(sends)
    BY DEF Live
  <1>4. \A r, u \in Live(sends') : r = u
    BY <1>2, <1>3 DEF SendsAgree
  <1>5. \A r \in Live(sends') : r.kind = "text" => draft' = 0
    BY <1>2, <1>3 DEF SendsAgree
  <1> QED
    BY <1>1, <1>2, <1>4, <1>5 DEF SendsAgree

LEMMA SendsStep ==
    ASSUME TypeOK, StoreInv, SendsAgree, Next PROVE SendsAgree'
  <1>1. CASE UNCHANGED <<draft, sends>>
    BY <1>1, SameSends
  <1>2. ASSUME NEW c, Mounted(c) PROVE SendsAgree'
    <2>1. sends' = Orphans(sends)
      BY <1>2 DEF Mounted
    <2>2. ASSUME NEW t \in sends' PROVE ~t.live /\ Fits(t)'
      <3>1. PICK s \in sends :
                /\ t.kind = s.kind /\ t.conv = s.conv /\ t.text = s.text /\ t.ts = s.ts
                /\ t.at = s.at /\ t.rows = s.rows /\ t.live = FALSE
        BY <2>1, OrphansAre
      <3>2. Fits(t)
        BY <3>1 DEF SendsAgree, Fits
      <3> QED
        BY <3>1, <3>2, FitsStays DEF TypeOK
    <2>3. Live(sends)' = {}
      BY <2>2 DEF Live
    <2> QED
      BY <2>2, <2>3 DEF SendsAgree
  <1>3. ASSUME Type PROVE SendsAgree'
    BY <1>3, SameSends DEF Type, runVars
  <1>4. Attach \/ ClearFile => SendsAgree'
    BY <1>1 DEF Attach, ClearFile, runVars
  <1>5. ASSUME NEW s, sends' = sends \cup {s}, Live(sends) = {}, Fits(s)',
               s.kind = "text" => draft' = 0
        PROVE  SendsAgree'
    <2>1. \A r \in sends : Fits(r)'
      BY FitsStays DEF SendsAgree, TypeOK
    <2>2. Live(sends)' \subseteq {s}
      BY <1>5 DEF Live
    <2> QED
      BY <1>5, <2>1, <2>2 DEF SendsAgree
  <1>6. ASSUME SendMessage \/ SendMedia PROVE SendsAgree'
    <2>1. PICK s, t : s = Send("text", draft, clock') /\ t = Send("media", file, 0)
      OBVIOUS
    <2>2. clock' \in Nat
      BY StoreTyped
    <2>3. SendMessage => Fits(s)'
      BY <2>1, <2>2 DEF SendMessage, Send, Fits
    <2>4. SendMedia => Fits(t)'
      BY <2>1, <2>2 DEF SendMedia, Send, Fits
    <2>5. Live(sends) = {} /\ t.kind = "media"
      BY <1>6, <2>1 DEF SendMessage, SendMedia, Composer, Send
    <2> QED
      BY <1>5, <1>6, <2>1, <2>3, <2>4, <2>5 DEF SendMessage, SendMedia
  <1>7. ASSUME NEW s \in sends, NEW at, NEW q, NextSend(s, at, q), UNCHANGED draft,
               \A t : /\ t.kind = s.kind /\ t.conv = s.conv /\ t.text = s.text /\ t.ts = s.ts
                      /\ t.live = s.live /\ t.at = at /\ t.rows = q
                      => Fits(t)'
        PROVE  SendsAgree'
    BY <1>7, SendGoesOn, SendsGoOn
  <1>8. ASSUME NEW s \in sends PROVE s.text # 0 /\ s.ts <= clock' /\ s.ts \in Nat
    <2>1. Fits(s)'
      BY FitsStays DEF SendsAgree, TypeOK
    <2> QED
      BY <2>1 DEF Fits, TypeOK
  <1>9. ASSUME NEW s \in sends, Post(s) PROVE SendsAgree'
    <2>1. PICK m : m = [conv |-> s.conv, ts |-> clock', text |-> s.text, temp |-> FALSE]
      OBVIOUS
    <2>2. CASE clock' = clock + 1 /\ server' = server \cup {m} /\ NextSend(s, "accepted", <<m>>)
      <3>1. m.ts > s.ts
        <4>1. s.ts <= clock /\ s.ts \in Nat /\ clock \in Nat
          BY DEF SendsAgree, Fits, TypeOK
        <4> QED
          BY <2>1, <2>2, <4>1
      <3>2. ASSUME NEW t,
                   /\ t.kind = s.kind /\ t.conv = s.conv /\ t.text = s.text /\ t.ts = s.ts
                   /\ t.live = s.live /\ t.at = "accepted" /\ t.rows = <<m>>
            PROVE  Fits(t)'
        <4>1. \E n \in server' : n.text = t.text
          BY <2>1, <2>2, <3>2
        <4>2. 1 \in DOMAIN t.rows /\ t.rows[1].conv = t.conv /\ t.rows[1].ts > t.ts
          BY <2>1, <3>1, <3>2
        <4> QED
          BY <1>8, <3>2, <4>1, <4>2 DEF Fits
      <3> QED
        BY <1>7, <1>9, <2>2, <3>2 DEF Post, pageVars
    <2>3. CASE Fails /\ NextSend(s, "failed", <<>>)
      BY <1>7, <1>8, <1>9, <2>3 DEF Post, pageVars, Fails, Fits
    <2> QED
      BY <1>9, <2>1, <2>2, <2>3 DEF Post
  <1>10. ASSUME NEW s \in sends, MediaLoads(s) PROVE SendsAgree'
    <2>1. (\E q : NextSend(s, "loaded", q)) \/ NextSend(s, "failed", <<>>)
      BY <1>10 DEF MediaLoads
    <2>2. s.kind = "media" /\ s.at = "accepted" /\ server' = server /\ UNCHANGED draft
      BY <1>10 DEF MediaLoads, pageVars
    <2>3. \E m \in server : m.text = s.text
      BY <2>2 DEF SendsAgree, Fits
    <2>4. ASSUME NEW t, NEW at \in {"loaded", "failed"}, NEW q,
                 /\ t.kind = s.kind /\ t.conv = s.conv /\ t.text = s.text /\ t.ts = s.ts
                 /\ t.live = s.live /\ t.at = at /\ t.rows = q
          PROVE  Fits(t)'
      BY <1>8, <2>2, <2>3, <2>4 DEF Fits
    <2> QED
      BY <1>7, <2>1, <2>2, <2>4
  <1>11. ASSUME NEW s \in sends, TextSent(s) PROVE SendsAgree'
    <2>1. s.live => Live(sends') = {}
      BY <1>11 DEF TextSent, SendsAgree, Live
    <2>2. draft' = draft \/ s.live
      BY <1>11 DEF TextSent
    <2> QED
      BY <1>11, <2>1, <2>2, SameSends DEF TextSent
  <1>12. ASSUME NEW s \in sends, MediaSent(s) PROVE SendsAgree'
    BY <1>12, SameSends DEF MediaSent
  <1> QED
    BY <1>1, <1>2, <1>3, <1>4, <1>6, <1>9, <1>10, <1>11, <1>12, ComposerChanges

\* A text's place.
Somewhere(t) ==
    \/ t \in {draft, file} \cup left \cup TextsOf(sends)
    \/ \E m \in server : m.text = t

LEMMA TextStep ==
    ASSUME TypeOK, StoreInv, SendsAgree, TextSomewhere, Next PROVE TextSomewhere'
  <1>1. server \subseteq server'
    BY StoreStep DEF Grows
  <1>2. typed \in Nat /\ 0 \notin 1..typed
    BY PageAssumption DEF TypeOK, Number
  <1>3. ASSUME UNCHANGED typed,
               \A t \in 1..typed :
                   /\ t = draft => t \in {draft', file'} \cup left' \cup TextsOf(sends')
                   /\ t = file => t \in {draft', file'} \cup left' \cup TextsOf(sends')
                   /\ t \in TextsOf(sends) =>
                          \/ t \in {draft', file'} \cup left' \cup TextsOf(sends')
                          \/ \E m \in server : m.text = t,
               left \subseteq left'
        PROVE  TextSomewhere'
    <2>1. TextsOf(sends)' = TextsOf(sends')
      BY DEF TextsOf
    <2>2. ASSUME NEW t \in 1..typed
          PROVE  \/ t \in {draft', file'} \cup left' \cup TextsOf(sends')
                 \/ \E m \in server' : m.text = t
      BY <1>1, <1>3 DEF TextSomewhere
    <2> QED
      BY <1>3, <2>1, <2>2 DEF TextSomewhere
  <1>4. CASE UNCHANGED <<draft, file, left, typed, sends>>
    BY <1>3, <1>4
  <1>5. ASSUME NEW c, Mounted(c) /\ UNCHANGED <<typed, server>> PROVE TextSomewhere'
    <2>1. TextsOf(sends) \subseteq TextsOf(sends')
      BY <1>5, OrphansAre DEF TextsOf, Mounted
    <2> QED
      BY <1>2, <1>3, <1>5, <2>1 DEF Mounted
  <1>6. ASSUME Type \/ Attach PROVE TextSomewhere'
    <2>1. ASSUME NEW t \in 1..typed'
          PROVE  \/ t \in {draft', file'} \cup left' \cup TextsOf(sends)
                 \/ \E m \in server : m.text = t
      <3>1. t \in 1..typed \/ t = typed'
        BY <1>2, <1>6 DEF Type, Attach
      <3>2. t = typed' => t \in {draft', file'}
        BY <1>6 DEF Type, Attach
      <3>3. ASSUME t \in 1..typed
            PROVE  \/ t \in {draft, file} \cup left \cup TextsOf(sends)
                   \/ \E m \in server : m.text = t
        BY <3>3 DEF TextSomewhere
      <3>4. t \in 1..typed => (t = draft => t = draft') /\ (t = file => t \in {file'} \cup left')
        BY <1>2, <1>6 DEF Type, Attach
      <3>5. left \subseteq left'
        BY <1>6 DEF Type, Attach
      <3> QED
        BY <3>1, <3>2, <3>3, <3>4, <3>5
    <2>2. sends' = sends /\ server' = server
      BY <1>6 DEF Type, Attach, runVars, storeVars
    <2> QED
      BY <2>1, <2>2 DEF TextSomewhere, TextsOf
  <1>7. ASSUME ClearFile PROVE TextSomewhere'
    BY <1>3, <1>7 DEF ClearFile, runVars
  <1>8. ASSUME SendMessage \/ SendMedia PROVE TextSomewhere'
    <2>1. PICK s, t : s = Send("text", draft, clock') /\ t = Send("media", file, 0)
      OBVIOUS
    <2>2. s.text = draft /\ t.text = file
      BY <2>1 DEF Send
    <2>3. /\ TextsOf(sends) \subseteq TextsOf(sends')
          /\ SendMessage => draft \in TextsOf(sends')
      BY <1>8, <2>1, <2>2 DEF SendMessage, SendMedia, TextsOf
    <2>4. SendMedia => draft' = draft
      BY DEF SendMedia, pageVars
    <2>5. UNCHANGED <<file, left, typed>>
      BY <1>8 DEF SendMessage, SendMedia, pageVars, inputVars
    <2> QED
      BY <1>3, <1>8, <2>3, <2>4, <2>5
  <1>9. ASSUME NEW s \in sends, Post(s) \/ MediaLoads(s) PROVE TextSomewhere'
    <2>1. \E at, q : NextSend(s, at, q)
      BY <1>9 DEF Post, MediaLoads
    <2>2. TextsOf(sends) \subseteq TextsOf(sends')
      BY <2>1, SendGoesOn DEF TextsOf
    <2>3. UNCHANGED <<draft, file, left, typed>>
      BY <1>9 DEF Post, MediaLoads, pageVars, inputVars
    <2> QED
      BY <1>3, <2>2, <2>3
  <1>10. ASSUME NEW s \in sends, TextSent(s) PROVE TextSomewhere'
    <2>1. s.at = "accepted" => \E m \in server : m.text = s.text
      BY DEF SendsAgree, Fits
    <2>2. s.live => draft = 0
      BY <1>10 DEF TextSent, SendsAgree, Live
    <2>3. s.at = "failed" => s.text \in {draft'} \cup left'
      BY <1>10 DEF TextSent
    <2>4. \A t \in TextsOf(sends) : t = s.text \/ t \in TextsOf(sends')
      BY <1>10 DEF TextSent, TextsOf
    <2>5. UNCHANGED <<file, typed>> /\ left \subseteq left' /\ (draft' = draft \/ s.live)
      BY <1>10 DEF TextSent
    <2>6. s.at = "accepted" \/ s.at = "failed"
      BY <1>10 DEF TextSent
    <2> QED
      BY <1>2, <1>3, <2>1, <2>2, <2>3, <2>4, <2>5, <2>6
  <1>11. ASSUME NEW s \in sends, MediaSent(s) PROVE TextSomewhere'
    <2>1. s.text # 0
      BY DEF SendsAgree, Fits
    <2>2. \A t \in TextsOf(sends) : t = s.text \/ t \in TextsOf(sends')
      BY <1>11 DEF MediaSent, TextsOf
    <2>3. /\ UNCHANGED <<draft, typed>> /\ left \subseteq left' /\ s.text \in left'
          /\ file' = file \/ file = 0 \/ file \in left'
      BY <1>11, <2>1 DEF MediaSent
    <2> QED
      BY <1>2, <1>3, <2>2, <2>3
  <1> QED
    BY <1>4, <1>5, <1>6, <1>7, <1>8, <1>9, <1>10, <1>11, ComposerChanges

\* What comes on the screen, but for a text just submitted, was accepted.
LEMMA NewRows ==
    ASSUME TypeOK, StoreInv, RowsStored, SendsAgree, Next, ~SendMessage,
           NEW m \in RowsIn(shown'), m.temp
    PROVE  m \in RowsIn(shown)
  <1>1. \A n \in stored : ~n.temp
    BY DEF StoreInv
  <1>2. ASSUME NEW c, Mounted(c) PROVE m \in RowsIn(shown)
    BY <1>2, NoRows DEF Mounted
  <1>3. ASSUME NEW j \in inits, ShowLoaded(j) PROVE m \in RowsIn(shown)
    BY <1>1, <1>3 DEF ShowLoaded, RowsStored
  <1>4. ASSUME NEW p \in pushes, PushShow(p) PROVE m \in RowsIn(shown)
    <2>1. p.rows \subseteq stored
      BY DEF RowsStored
    <2>2. RowsIn(shown') = RowsIn(shown) \cup p.rows
      BY <1>4, <2>1, AppendedRows DEF PushShow
    <2> QED
      BY <1>1, <2>1, <2>2
  <1>5. ASSUME NEW q \in older, OlderLoaded(q) PROVE m \in RowsIn(shown)
    <2>1. RowsIn(q) \subseteq stored /\ RowsIn(shown') = RowsIn(q) \cup RowsIn(shown)
      BY <1>5, RowsOfBoth DEF OlderLoaded, TypeOK, RowsStored
    <2> QED
      BY <1>1, <2>1
  <1>6. ASSUME NEW s \in sends, TextSent(s) PROVE m \in RowsIn(shown)
    <2>1. ~s.live => shown' = shown
      BY <1>6 DEF TextSent
    <2>2. s.live => m \in RowsIn(shown) \/ m \in RowsIn(s.rows)
      BY <1>6, SentRows, AcceptedFits DEF Accepted
    <2> QED
      BY <1>1, <2>1, <2>2 DEF RowsStored
  <1>7. ASSUME NEW s \in sends, MediaSent(s) PROVE m \in RowsIn(shown)
    <2>1. shown' = shown \/ shown' = s.rows
      BY <1>7 DEF MediaSent
    <2> QED
      BY <1>1, <2>1 DEF RowsStored
  <1>8. ~Leave
    BY NoRows DEF Leave, Mounted
  <1> QED
    BY <1>2, <1>3, <1>4, <1>5, <1>6, <1>7, <1>8, ShownChanges

LEMMA UnsentStep ==
    ASSUME TypeOK, StoreInv, RowsStored, SendsAgree, UnsentOnTheWay, Next PROVE UnsentOnTheWay'
  <1> DEFINE On(m, S) == \E s \in S : s.live /\ s.kind = "text" /\ IsTemp(s, m) /\ m.conv = s.conv
  <1>1. ASSUME \A m \in RowsIn(shown') : m.temp => On(m, sends') PROVE UnsentOnTheWay'
    <2>1. RowsIn(shown)' = RowsIn(shown') /\ Live(sends)' = Live(sends')
      BY DEF RowsIn, Live
    <2>2. ASSUME NEW m, On(m, sends')
          PROVE  (\E s \in Live(sends) : s.kind = "text" /\ IsTemp(s, m) /\ m.conv = s.conv)'
      BY <2>1, <2>2 DEF Live, IsTemp
    <2> QED
      BY <1>1, <2>1, <2>2 DEF UnsentOnTheWay
  <1>2. ASSUME NEW m \in RowsIn(shown), m.temp PROVE On(m, sends)
    BY <1>2 DEF UnsentOnTheWay, Live
  <1>3. CASE sends \subseteq sends' /\ ~SendMessage
    BY <1>1, <1>2, <1>3, NewRows
  <1>4. ASSUME NEW c, Mounted(c) PROVE UnsentOnTheWay'
    BY <1>1, <1>4, NoRows DEF Mounted
  <1>5. ASSUME SendMessage PROVE UnsentOnTheWay'
    <2>1. conv \in Conversations /\ draft \in Nat /\ clock' \in Nat
      BY <1>5, StoreTyped, PageAssumption DEF SendMessage, Composer, TypeOK, Number
    <2>2. PICK m, s : /\ m = [conv |-> conv, ts |-> clock', text |-> draft, temp |-> TRUE]
                      /\ s = Send("text", draft, clock')
      OBVIOUS
    <2>3. m \in Row /\ shown' = Append(shown, m) /\ sends' = sends \cup {s}
      BY <1>5, <2>1, <2>2 DEF SendMessage, Row
    <2>4. RowsIn(shown') = RowsIn(shown) \cup {m}
      BY <2>3, OneRowMore DEF TypeOK
    <2>5. On(m, {s})
      BY <2>2 DEF Send, IsTemp
    <2> QED
      BY <1>1, <1>2, <2>3, <2>4, <2>5
  <1>6. ASSUME NEW s \in sends, Post(s) \/ MediaLoads(s) PROVE UnsentOnTheWay'
    <2>1. \E at, q : NextSend(s, at, q)
      BY <1>6 DEF Post, MediaLoads
    <2>2. PICK t : /\ sends' = (sends \ {s}) \cup {t} /\ t.kind = s.kind
                   /\ t.conv = s.conv /\ t.ts = s.ts /\ t.live = s.live
      BY <2>1, SendGoesOn
    <2>3. ASSUME NEW m, On(m, sends) PROVE On(m, sends')
      BY <2>2, <2>3 DEF IsTemp
    <2>4. shown' = shown
      BY <1>6 DEF Post, MediaLoads, pageVars
    <2> QED
      BY <1>1, <1>2, <2>3, <2>4
  <1>7. ASSUME NEW s \in sends, TextSent(s) PROVE UnsentOnTheWay'
    <2>1. sends' = sends \ {s} /\ ~SendMessage
      BY <1>7 DEF TextSent, SendMessage
    <2>2. ASSUME NEW m \in RowsIn(shown'), m.temp PROVE On(m, sends')
      <3>1. PICK r \in sends : r.live /\ r.kind = "text" /\ IsTemp(r, m) /\ m.conv = r.conv
        BY <1>2, <2>1, <2>2, NewRows
      <3>2. ASSUME s.live PROVE ~IsTemp(s, m)
        <4>1. m \in RowsIn(s.rows) => ~m.temp
          BY DEF RowsStored, StoreInv
        <4> QED
          BY <1>7, <2>2, <3>2, <4>1, SentRows, AcceptedFits DEF Accepted
      <3>3. s.live => r = s
        BY <3>1 DEF SendsAgree, Live
      <3> QED
        BY <2>1, <3>1, <3>2, <3>3
    <2> QED
      BY <1>1, <2>2
  <1>8. ASSUME NEW s \in sends, MediaSent(s) PROVE UnsentOnTheWay'
    <2>1. sends' = sends \ {s} /\ s.kind = "media" /\ ~SendMessage
      BY <1>8 DEF MediaSent, SendMessage
    <2>2. ASSUME NEW m \in RowsIn(shown'), m.temp PROVE On(m, sends')
      <3>1. PICK r \in sends : r.live /\ r.kind = "text" /\ IsTemp(r, m) /\ m.conv = r.conv
        BY <1>2, <2>1, <2>2, NewRows
      <3> QED
        BY <2>1, <3>1
    <2> QED
      BY <1>1, <2>2
  <1> QED
    BY <1>3, <1>4, <1>5, <1>6, <1>7, <1>8, ComposerChanges DEF Type, Attach, ClearFile,
       SendMedia, runVars

LEMMA ComposerStep ==
    ComposerInv /\ [Next]_vars => ComposerInv'
  <1>1. ASSUME ComposerInv, Next PROVE ComposerInv'
    BY <1>1, AcceptedFits, TypeStep, StoreStep, RowsStep, SendsStep, TextStep, UnsentStep
       DEF ComposerInv
  <1>2. ASSUME ComposerInv, UNCHANGED vars PROVE ComposerInv'
    <2>1. /\ UNCHANGED <<pageVars, runVars, storeVars, inputVars, frames, disturbed, faults>>
          /\ UNCHANGED <<skew, misled>>
      BY <1>2 DEF vars, stampVars
    <2>2. UNCHANGED <<route, conv, header, loading, shown, more, draft, file>>
      BY <2>1 DEF pageVars
    <2>3. UNCHANGED <<inits, pushes, older, sends, stored, server, clock, typed, left, visits>>
      BY <2>1 DEF runVars, storeVars, inputVars
    <2>4. TypeOK' /\ StoreInv' /\ RowsStored'
      BY <1>2, <2>1, <2>2, <2>3
         DEF ComposerInv, TypeOK, StoreInv, RowsStored, RowsIn, Unsent
    <2>5. SendsAgree' /\ TextSomewhere' /\ UnsentOnTheWay'
      BY <1>2, <2>1, <2>2, <2>3
         DEF ComposerInv, SendsAgree, Fits, Live, TextSomewhere, TextsOf, UnsentOnTheWay, RowsIn,
             IsTemp
    <2> QED
      BY <2>4, <2>5 DEF ComposerInv
  <1> QED
    BY <1>1, <1>2

LEMMA ComposerInit ==
    Init => ComposerInv
  <1> SUFFICES ASSUME Init PROVE ComposerInv
    OBVIOUS
  <1> USE DEF Init
  <1>1. TypeOK
    <2>1. 0 \in Number /\ 0 \in Int /\ 0 \in Nat
      BY PageAssumption DEF Number
    <2>2. PlainTyped /\ shown \in Seq(Row)
      BY <2>1, NoRows DEF PlainTyped
    <2>3. inits = {} /\ pushes = {} /\ older = {} /\ sends = {} /\ stored = {} /\ server = {}
      OBVIOUS
    <2> QED
      BY <2>2, <2>3 DEF TypeOK, PlainTyped
  <1>2. StoreInv
    BY FS_EmptySet DEF StoreInv
  <1>3. RowsStored /\ UnsentOnTheWay
    BY NoRows DEF RowsStored, UnsentOnTheWay
  <1>4. SendsAgree /\ TextSomewhere
    BY DEF SendsAgree, TextSomewhere, Live
  <1> QED
    BY <1>1, <1>2, <1>3, <1>4 DEF ComposerInv

\* The variables have their types, and the rows that runs carry and pages show are those of
\* the store, but for the one being sent.
THEOREM PageTypeCorrect ==
    Spec => []TypeOK
  <1>1. ComposerInv => TypeOK
    BY DEF ComposerInv
  <1> QED
    BY ComposerInit, ComposerStep, <1>1, PTL DEF Spec

\* A text the user has entered is in the composer, on its way, accepted or gone with its
\* page, and nothing is left on the screen as unsent.  A file may also be gone with its send.
THEOREM TextKeptCorrect ==
    Spec => []TextKept
  <1>1. ComposerInv => TextKept
    BY DEF ComposerInv, TextSomewhere, UnsentOnTheWay, TextKept
  <1> QED
    BY ComposerInit, ComposerStep, <1>1, PTL DEF Spec

-----------------------------------------------------------------------------
(***************************************************************************)
(* A page that was left alone is about one conversation                    *)
(***************************************************************************)
Of(R, c) == \A m \in R : m.conv = c

\* The run of initializeChat there is; without one everything is in place.
InitsAgree ==
    /\ \A i, j \in inits : i = j
    /\ \A j \in inits : /\ j.conv = route
                        /\ j.at # "profiles" => header = route
                        /\ j.at \in {"load", "loaded", "read"} => conv = route
                        /\ j.at = "loaded" => Of(RowsIn(j.rows), route)
                        /\ j.at = "read" => Of(RowsIn(shown), route)
    /\ inits = {} => header = route /\ conv = route /\ Of(RowsIn(shown), route)
    /\ route \in Groups => conv = route

\* The other runs are for conversationId.
PushesAgree == \A p \in pushes : p.conv = conv /\ Of(p.rows, conv)
OlderAgrees == \A q \in older : Of(RowsIn(q), conv)
LiveAgree == \A s \in sends : s.live => s.conv = conv /\ Of(RowsIn(s.rows), conv)
WorkAgrees == PushesAgree /\ OlderAgrees /\ LiveAgree

Loads == route # None => inits # {} \/ ~loading

Undisturbed == ~disturbed /\ route # None

LEMMA PushesAgreeStep ==
    ASSUME TypeOK, StoreInv, PushesAgree, Next, UNCHANGED conv PROVE PushesAgree'
  <1>1. CASE pushes' \subseteq pushes
    BY <1>1 DEF PushesAgree, Of
  <1>2. ASSUME NEW c \in Conversations, Dispatch(c) PROVE PushesAgree'
    BY <1>2 DEF Dispatch, Concerns, PushesAgree, Of
  <1>3. ASSUME NEW p \in pushes, NEW at, NEW R, Of(R, p.conv),
               pushes' \subseteq pushes \cup {[p EXCEPT !.at = at, !.rows = R]}
        PROVE  PushesAgree'
    <2>1. PICK o : o = [p EXCEPT !.at = at, !.rows = R]
      OBVIOUS
    <2>2. o.rows = R /\ o.conv = p.conv
      BY <2>1 DEF TypeOK
    <2> QED
      BY <1>3, <2>1, <2>2 DEF PushesAgree, Of
  <1>4. ASSUME NEW p \in pushes, PushFetch(p) PROVE PushesAgree'
    <2>1. PICK R : R = Fetched(p.conv)
      OBVIOUS
    <2>2. Of(R, p.conv)
      BY <2>1 DEF Of, Fetched, RowsOf
    <2>3. \/ pushes' \subseteq pushes
          \/ pushes' \subseteq pushes \cup {[p EXCEPT !.at = "ask", !.rows = R]}
      BY <1>4, <2>1 DEF PushFetch
    <2> QED
      BY <1>1, <1>3, <2>2, <2>3
  <1>5. ASSUME NEW p \in pushes, PushAsk(p) PROVE PushesAgree'
    <2>1. PICK R : R = LocalAfter(p, LastShown)
      OBVIOUS
    <2>2. Of(R, p.conv)
      BY <2>1 DEF Of, LocalAfter, RowsOf
    <2>3. pushes' \subseteq pushes \cup {[p EXCEPT !.at = "show", !.rows = R]}
      BY <1>5, <2>1 DEF PushAsk
    <2> QED
      BY <1>3, <2>2, <2>3
  <1>6. \/ pushes' \subseteq pushes \/ \E c \in Conversations : Dispatch(c)
        \/ \E p \in pushes : PushFetch(p) \/ PushAsk(p)
    BY PushesChange
  <1> QED
    BY <1>1, <1>2, <1>4, <1>5, <1>6

LEMMA LiveAgreeStep ==
    ASSUME TypeOK, StoreInv, LiveAgree, Next, UNCHANGED conv PROVE LiveAgree'
  <1>1. CASE sends' \subseteq sends
    BY <1>1 DEF LiveAgree, Of, RowsIn
  <1>2. ASSUME NEW c, Mounted(c) PROVE LiveAgree'
    BY <1>2, OrphansAre DEF Mounted, LiveAgree
  <1>3. ASSUME NEW s, sends' = sends \cup {s}, s.conv = conv, s.rows = <<>> PROVE LiveAgree'
    BY <1>3, NoRows DEF LiveAgree, Of, RowsIn
  <1>4. ASSUME SendMessage \/ SendMedia PROVE LiveAgree'
    <2>1. PICK s, t : s = Send("text", draft, clock') /\ t = Send("media", file, 0)
      OBVIOUS
    <2>2. s.rows = <<>> /\ t.rows = <<>> /\ s.conv = conv /\ t.conv = conv
      BY <2>1 DEF Send
    <2> QED
      BY <1>3, <1>4, <2>1, <2>2 DEF SendMessage, SendMedia
  <1>5. ASSUME NEW s \in sends, NEW at, NEW q, NextSend(s, at, q), Of(RowsIn(q), s.conv)
        PROVE  LiveAgree'
    <2>1. PICK t : /\ sends' = (sends \ {s}) \cup {t}
                   /\ t.conv = s.conv /\ t.live = s.live /\ t.rows = q
      BY <1>5, SendGoesOn
    <2> QED
      BY <1>5, <2>1 DEF LiveAgree, Of, RowsIn
  <1>6. ASSUME NEW s \in sends, Post(s) PROVE LiveAgree'
    <2>1. PICK m : m = [conv |-> s.conv, ts |-> clock', text |-> s.text, temp |-> FALSE]
      OBVIOUS
    <2>2. Of(RowsIn(<<m>>), s.conv) /\ Of(RowsIn(<<>>), s.conv)
      BY <2>1 DEF RowsIn, Of
    <2>3. NextSend(s, "accepted", <<m>>) \/ NextSend(s, "failed", <<>>)
      BY <1>6, <2>1 DEF Post
    <2> QED
      BY <1>5, <2>2, <2>3
  <1>7. ASSUME NEW s \in sends, MediaLoads(s) PROVE LiveAgree'
    <2>1. PICK T, c : T = stored' /\ c = s.conv
      OBVIOUS
    <2>2. T \subseteq server
      BY <1>7, <2>1, FetchedRows DEF MediaLoads, StoreInv
    <2>3. ASSUME NEW q \in InOrder(Newest(RowsOf(T, c), LoadLimit)) PROVE Of(RowsIn(q), c)
      BY <2>2, <2>3, LoadedRows, PageAssumption DEF RowsOf, Of
    <2>4. \/ \E q : NextSend(s, "loaded", q) /\ Of(RowsIn(q), c)
          \/ NextSend(s, "failed", <<>>)
      BY <1>7, <2>1, <2>3 DEF MediaLoads
    <2> QED
      BY <1>5, <2>1, <2>4, NoRows DEF Of
  <1>8. ASSUME NEW s \in sends, TextSent(s) \/ MediaSent(s) PROVE LiveAgree'
    BY <1>1, <1>8 DEF TextSent, MediaSent
  <1> QED
    BY <1>1, <1>2, <1>4, <1>6, <1>7, <1>8, ComposerChanges
       DEF Type, Attach, ClearFile, runVars

LEMMA WorkStep ==
    ASSUME TypeOK, StoreInv, WorkAgrees, Next, UNCHANGED conv PROVE WorkAgrees'
  <1>1. OlderAgrees'
    BY OlderTyped DEF WorkAgrees, OlderAgrees, RowsOf, Of, RowsIn
  <1> QED
    BY <1>1, PushesAgreeStep, LiveAgreeStep DEF WorkAgrees

\* What such runs bring on the screen is of the same conversation.
LEMMA ShownOf ==
    ASSUME TypeOK, StoreInv, RowsStored, SendsAgree, WorkAgrees, Next,
           \A j \in inits : ~ShowLoaded(j)
    PROVE  \A m \in RowsIn(shown') : m \in RowsIn(shown) \/ m.conv = conv
  <1> DEFINE Goal == \A m \in RowsIn(shown') : m \in RowsIn(shown) \/ m.conv = conv
  <1>1. ASSUME NEW c, Mounted(c) PROVE Goal
    BY <1>1, NoRows DEF Mounted, Of
  <1>2. ASSUME NEW p \in pushes, PushShow(p) PROVE Goal
    <2>1. p.rows \subseteq stored /\ Of(p.rows, conv)
      BY DEF RowsStored, WorkAgrees, PushesAgree
    <2>2. RowsIn(shown') = RowsIn(shown) \cup p.rows
      BY <1>2, <2>1, AppendedRows DEF PushShow
    <2> QED
      BY <2>1, <2>2 DEF Of
  <1>3. ASSUME NEW q \in older, OlderLoaded(q) PROVE Goal
    <2>1. RowsIn(shown') = RowsIn(q) \cup RowsIn(shown)
      BY <1>3, RowsOfBoth DEF OlderLoaded, TypeOK
    <2> QED
      BY <2>1 DEF Of, WorkAgrees, OlderAgrees
  <1>4. ASSUME NEW s \in sends, TextSent(s) PROVE Goal
    <2>1. ~s.live => shown' = shown
      BY <1>4 DEF TextSent
    <2>2. s.live => \A m \in RowsIn(shown') : m \in RowsIn(shown) \/ m \in RowsIn(s.rows)
      BY <1>4, SentRows, AcceptedFits DEF Accepted
    <2> QED
      BY <2>1, <2>2 DEF Of, WorkAgrees, LiveAgree
  <1>5. ASSUME NEW s \in sends, MediaSent(s) PROVE Goal
    <2>1. shown' = shown \/ (s.live /\ shown' = s.rows)
      BY <1>5 DEF MediaSent
    <2> QED
      BY <2>1 DEF Of, WorkAgrees, LiveAgree
  <1>6. ASSUME SendMessage PROVE Goal
    <2>1. conv \in Conversations /\ draft \in Nat /\ clock' \in Nat
      BY <1>6, StoreTyped, PageAssumption DEF SendMessage, Composer, TypeOK, Number
    <2>2. PICK m : m = [conv |-> conv, ts |-> clock', text |-> draft, temp |-> TRUE]
      OBVIOUS
    <2>3. m \in Row /\ shown' = Append(shown, m)
      BY <1>6, <2>1, <2>2 DEF SendMessage, Row
    <2>4. RowsIn(shown') = RowsIn(shown) \cup {m}
      BY <2>3, OneRowMore DEF TypeOK
    <2> QED
      BY <2>2, <2>4 DEF Of
  <1>7. Leave => Goal
    BY <1>1 DEF Leave
  <1> QED
    BY <1>1, <1>2, <1>3, <1>4, <1>5, <1>6, <1>7, ShownChanges

\* The conversation, the header and the runs of initializeChat change with these steps alone.
LEMMA PageChanges ==
    ASSUME Next
    PROVE  \/ /\ UNCHANGED <<route, conv, header, loading, inits>>
              /\ \A j \in inits : ~ShowLoaded(j)
           \/ Leave \/ \E c \in Conversations : Open(c)
           \/ /\ UNCHANGED route
              /\ \E j \in inits : \/ j.conv \in Direct /\ (DirectProfiles(j) \/ OpenDm(j))
                                  \/ j.conv \in Groups /\ GroupInfo(j)
                                  \/ LoadMessages(j) \/ ShowLoaded(j) \/ InitRead(j)
  <1>1. ASSUME NEW j \in inits, \/ DirectProfiles(j) \/ OpenDm(j) \/ GroupInfo(j)
                                \/ LoadMessages(j) \/ ShowLoaded(j) \/ InitRead(j)
        PROVE  UNCHANGED route
    BY <1>1 DEF DirectProfiles, OpenDm, GroupInfo, LoadMessages, ShowLoaded, InitRead, pageVars
  <1>2. ASSUME NEW c \in Conversations, PeerPosts(c) \/ Dispatch(c) \/ ListFetch(c)
        PROVE  UNCHANGED <<route, conv, header, loading, inits>>
    BY <1>2 DEF PeerPosts, Dispatch, ListFetch, pageVars, runVars
  <1>3. ASSUME NEW p \in pushes, PushFetch(p) \/ PushAsk(p) \/ PushShow(p)
        PROVE  UNCHANGED <<route, conv, header, loading, inits>>
    BY <1>3 DEF PushFetch, PushAsk, PushShow, pageVars
  <1>4. ASSUME NEW s \in sends, Post(s) \/ TextSent(s) \/ MediaLoads(s) \/ MediaSent(s)
        PROVE  UNCHANGED <<route, conv, header, loading, inits>>
    BY <1>4 DEF Post, TextSent, MediaLoads, MediaSent, pageVars
  <1>5. ASSUME \/ LoadOlder \/ Type \/ Attach \/ ClearFile \/ SendMessage \/ SendMedia
               \/ \E q \in older : OlderLoaded(q)
        PROVE  UNCHANGED <<route, conv, header, loading, inits>>
    BY <1>5 DEF LoadOlder, Type, Attach, ClearFile, SendMessage, SendMedia, OlderLoaded, pageVars,
         runVars
  <1>6. ASSUME NEW j \in inits, ShowLoaded(j) PROVE UNCHANGED route
    BY <1>1, <1>6
  <1> QED
    BY <1>1, <1>2, <1>3, <1>4, <1>5, <1>6, Cases

LEMMA LoadsStep ==
    ASSUME Loads, Next PROVE Loads'
  <1>1. CASE UNCHANGED <<route, inits, loading>>
    BY <1>1 DEF Loads
  <1>2. ASSUME NEW j \in inits, \/ DirectProfiles(j) \/ OpenDm(j) \/ GroupInfo(j)
                                \/ LoadMessages(j) \/ ShowLoaded(j) \/ InitRead(j)
        PROVE  Loads'
    BY <1>2 DEF DirectProfiles, OpenDm, GroupInfo, LoadMessages, ShowLoaded, InitRead, Ends,
         NextInit, Loads
  <1>3. ASSUME NEW c \in Conversations, Open(c) PROVE Loads'
    BY <1>3 DEF Open, Loads
  <1>4. Leave => Loads'
    BY DEF Leave, Loads
  <1>5. \/ UNCHANGED <<route, inits, loading>>
        \/ Leave \/ \E c \in Conversations : Open(c)
        \/ \E j \in inits : \/ DirectProfiles(j) \/ OpenDm(j) \/ GroupInfo(j)
                            \/ LoadMessages(j) \/ ShowLoaded(j) \/ InitRead(j)
    BY PageChanges
  <1> QED
    BY <1>1, <1>2, <1>3, <1>4, <1>5

\* A page opened afresh, or kept with nothing under way, has one run, at its beginning.
LEMMA OpenAgrees ==
    ASSUME TypeOK, NEW c \in Conversations, Open(c), Undisturbed => InitsAgree /\ WorkAgrees,
           Undisturbed'
    PROVE  /\ InitsAgree' /\ WorkAgrees' /\ inits' = {Run(c)} /\ pushes' = {} /\ older' = {}
           /\ RowsIn(shown') = {} \/ RowsIn(shown') = RowsIn(shown)
  <1>1. route' = c /\ (c \in Groups => conv' = c)
    BY DEF Open, Mounted, Kept
  <1>2. pushes' = {} /\ older' = {} /\ \A s \in sends' : ~s.live
    <2>1. CASE Mounted(c)
      BY <2>1, OrphansAre DEF Mounted
    <2>2. CASE Kept(c)
      BY <2>2 DEF Kept, Undisturbed, IdleBut, Live
    <2> QED
      BY <2>1, <2>2 DEF Open
  <1>3. inits' = {Run(c)}
    BY DEF Open, Kept, Undisturbed, IdleBut
  <1>4. Run(c).conv = c /\ Run(c).at = "profiles"
    BY DEF Run
  <1>5. InitsAgree'
    BY <1>1, <1>3, <1>4 DEF InitsAgree
  <1>6. WorkAgrees'
    BY <1>2 DEF WorkAgrees, PushesAgree, OlderAgrees, LiveAgree
  <1>7. RowsIn(shown') = {} \/ RowsIn(shown') = RowsIn(shown)
    BY NoRows DEF Open, Mounted, Kept
  <1> QED
    BY <1>2, <1>3, <1>5, <1>6, <1>7

\* The one run goes on.
LEMMA OneGoesOn ==
    ASSUME TypeOK, InitsAgree, NEW j \in inits, NEW at, NEW q, NextInit(j, at, q)
    PROVE  \E o : inits' = {o} /\ o.conv = j.conv /\ o.at = at /\ o.rows = q
  <1>1. PICK o : o = [j EXCEPT !.at = at, !.rows = q]
    OBVIOUS
  <1>2. o.conv = j.conv /\ o.at = at /\ o.rows = q
    BY <1>1 DEF TypeOK
  <1>3. inits = {j}
    BY DEF InitsAgree
  <1>4. inits' = {o}
    BY <1>1, <1>3 DEF NextInit
  <1> QED
    BY <1>2, <1>4

LEMMA InitAgrees ==
    ASSUME TypeOK, StoreInv, RowsStored, InitsAgree, WorkAgrees, Undisturbed, Next, Undisturbed',
           NEW j \in inits, \/ j.conv \in Direct /\ (DirectProfiles(j) \/ OpenDm(j))
                            \/ j.conv \in Groups /\ GroupInfo(j)
                            \/ LoadMessages(j) \/ ShowLoaded(j) \/ InitRead(j)
    PROVE  InitsAgree' /\ WorkAgrees'
  <1>1. /\ j.conv = route /\ (j.at # "profiles" => header = route)
        /\ j.at \in {"load", "loaded", "read"} => conv = route
        /\ j.at = "loaded" => Of(RowsIn(j.rows), route)
        /\ j.at = "read" => Of(RowsIn(shown), route)
        /\ inits = {j}
    BY DEF InitsAgree
  <1>2. ~Fails
    BY DEF Fails, Undisturbed
  <1>3. CASE DirectProfiles(j)
    <2>1. PICK o : inits' = {o} /\ o.conv = j.conv /\ o.at = "dm" /\ o.rows = <<>>
      BY <1>3, OneGoesOn DEF DirectProfiles
    <2>2. header' = route /\ UNCHANGED <<route, conv, shown>>
      BY <1>1, <1>2, <1>3 DEF DirectProfiles
    <2>3. InitsAgree'
      BY <1>1, <2>1, <2>2 DEF InitsAgree
    <2> QED
      BY <2>2, <2>3, WorkStep
  <1>4. CASE OpenDm(j)
    <2>1. PICK o : inits' = {o} /\ o.conv = j.conv /\ o.at = "load" /\ o.rows = <<>>
      BY <1>2, <1>4, OneGoesOn DEF OpenDm
    <2>2. /\ UNCHANGED <<route, header, shown, pushes, older, sends>> /\ conv' = route
          /\ j.at = "dm"
          /\ route # conv => IdleBut({j})
      BY <1>1, <1>2, <1>4 DEF OpenDm, Undisturbed
    <2>3. InitsAgree'
      BY <1>1, <2>1, <2>2 DEF InitsAgree
    <2>4. CASE route = conv
      BY <2>2, <2>3, <2>4, WorkStep
    <2>5. CASE IdleBut({j})
      BY <2>2, <2>3, <2>5 DEF IdleBut, Live, WorkAgrees, PushesAgree, OlderAgrees, LiveAgree
    <2> QED
      BY <2>2, <2>4, <2>5
  <1>5. CASE j.conv \in Groups /\ GroupInfo(j)
    <2>1. PICK o : inits' = {o} /\ o.conv = j.conv /\ o.at = "load" /\ o.rows = <<>>
      BY <1>2, <1>5, OneGoesOn DEF GroupInfo
    <2>2. header' = route /\ UNCHANGED <<route, conv, shown>> /\ conv = route
      BY <1>1, <1>2, <1>5 DEF GroupInfo, InitsAgree
    <2>3. InitsAgree'
      BY <1>1, <2>1, <2>2 DEF InitsAgree
    <2> QED
      BY <2>2, <2>3, WorkStep
  <1>6. CASE LoadMessages(j)
    <2>1. PICK T, c : T = stored' /\ c = j.conv
      OBVIOUS
    <2>2. T \subseteq server
      BY <1>6, <2>1, FetchedRows DEF LoadMessages, StoreInv
    <2>3. PICK q \in InOrder(Newest(RowsOf(T, c), LoadLimit)) : NextInit(j, "loaded", q)
      BY <1>2, <1>6, <2>1 DEF LoadMessages
    <2>4. Of(RowsIn(q), c)
      BY <2>2, LoadedRows, PageAssumption DEF RowsOf, Of
    <2>5. PICK o : inits' = {o} /\ o.conv = j.conv /\ o.at = "loaded" /\ o.rows = q
      BY <2>3, OneGoesOn
    <2>6. UNCHANGED <<route, conv, header, shown>> /\ j.at = "load"
      BY <1>6 DEF LoadMessages, pageVars
    <2>7. InitsAgree'
      BY <1>1, <2>1, <2>4, <2>5, <2>6 DEF InitsAgree, Of, RowsIn
    <2> QED
      BY <2>6, <2>7, WorkStep
  <1>7. CASE ShowLoaded(j)
    <2>1. PICK o : inits' = {o} /\ o.conv = j.conv /\ o.at = "read" /\ o.rows = <<>>
      BY <1>7, OneGoesOn DEF ShowLoaded
    <2>2. UNCHANGED <<route, conv, header>> /\ shown' = j.rows /\ j.at = "loaded"
      BY <1>7 DEF ShowLoaded
    <2>3. InitsAgree'
      BY <1>1, <2>1, <2>2 DEF InitsAgree, Of, RowsIn
    <2> QED
      BY <2>2, <2>3, WorkStep
  <1>8. CASE InitRead(j)
    <2>1. UNCHANGED <<route, conv, header, shown>> /\ j.at = "read" /\ inits' = {}
      BY <1>1, <1>8 DEF InitRead, Ends
    <2>2. InitsAgree'
      BY <1>1, <2>1 DEF InitsAgree, Of, RowsIn
    <2> QED
      BY <2>1, <2>2, WorkStep
  <1> QED
    BY <1>3, <1>4, <1>5, <1>6, <1>7, <1>8

LEMMA AgreeStep ==
    ASSUME TypeOK, StoreInv, RowsStored, SendsAgree, Undisturbed => InitsAgree /\ WorkAgrees,
           Next, Undisturbed'
    PROVE  InitsAgree' /\ WorkAgrees'
  <1>1. ~disturbed
    BY StaysDisturbed DEF Undisturbed
  <1>2. ASSUME NEW c \in Conversations, Open(c) PROVE InitsAgree' /\ WorkAgrees'
    BY <1>2, OpenAgrees
  <1>3. ASSUME NEW j \in inits, \/ j.conv \in Direct /\ (DirectProfiles(j) \/ OpenDm(j))
                                \/ j.conv \in Groups /\ GroupInfo(j)
                                \/ LoadMessages(j) \/ ShowLoaded(j) \/ InitRead(j),
               UNCHANGED route
        PROVE  InitsAgree' /\ WorkAgrees'
    BY <1>1, <1>3, InitAgrees DEF Undisturbed
  <1>4. CASE UNCHANGED <<route, conv, header, inits>> /\ \A j \in inits : ~ShowLoaded(j)
    <2>1. InitsAgree /\ WorkAgrees
      BY <1>1, <1>4 DEF Undisturbed
    <2>2. WorkAgrees'
      BY <1>4, <2>1, WorkStep
    <2>3. Of(RowsIn(shown), conv) => Of(RowsIn(shown'), conv)
      BY <1>4, <2>1, ShownOf DEF Of
    <2>4. InitsAgree'
      BY <1>4, <2>1, <2>3 DEF InitsAgree, RowsIn, Of
    <2> QED
      BY <2>2, <2>4
  <1>5. ~Leave
    BY DEF Leave, Undisturbed
  <1> QED
    BY <1>2, <1>3, <1>4, <1>5, PageChanges

AgreeInv == ComposerInv /\ Loads /\ (Undisturbed => InitsAgree /\ WorkAgrees)

LEMMA AgreeInvStep ==
    AgreeInv /\ [Next]_vars => AgreeInv'
  <1>1. ASSUME AgreeInv, Next PROVE AgreeInv'
    BY <1>1, ComposerStep, LoadsStep, AgreeStep DEF AgreeInv, ComposerInv
  <1>2. ASSUME AgreeInv, UNCHANGED vars PROVE AgreeInv'
    <2>1. UNCHANGED <<pageVars, runVars, disturbed>>
      BY <1>2 DEF vars
    <2>2. UNCHANGED <<route, conv, header, loading, shown, inits, pushes, older, sends>>
      BY <2>1 DEF pageVars, runVars
    <2>3. Undisturbed => InitsAgree' /\ WorkAgrees'
      BY <1>2, <2>1, <2>2 DEF AgreeInv, InitsAgree, WorkAgrees, PushesAgree, OlderAgrees,
         LiveAgree, RowsIn, Of
    <2> QED
      BY <1>2, <2>1, <2>2, <2>3, ComposerStep DEF AgreeInv, Loads, Undisturbed
  <1> QED
    BY <1>1, <1>2

LEMMA AgreeInvInit ==
    Init => AgreeInv
  BY ComposerInit DEF Init, AgreeInv, Loads, Undisturbed

\* A page that has come to rest undisturbed is about one conversation.
THEOREM PageAgreesCorrect ==
    Spec => []PageAgrees
  <1>1. AgreeInv => PageAgrees
    <2> SUFFICES ASSUME AgreeInv, route # None, Idle, ~disturbed
                 PROVE  conv = route /\ DirectScreen \cup GroupScreen = {route}
      BY DEF PageAgrees
    <2>1. inits = {}
      BY DEF Idle, IdleBut
    <2>2. ~loading
      BY <2>1 DEF AgreeInv, Loads
    <2>3. conv = route /\ header = route /\ Of(RowsIn(shown), route)
      BY <2>1 DEF AgreeInv, Undisturbed, InitsAgree
    <2>4. Speaks = {route}
      BY <2>3 DEF Speaks, Of
    <2>5. route \in Direct \/ route \in Groups
      BY DEF AgreeInv, ComposerInv, TypeOK, Conversations
    <2> QED
      BY <2>2, <2>3, <2>4, <2>5 DEF DirectScreen, GroupScreen, OnDirectPage, OnGroupPage
  <1> QED
    BY AgreeInvInit, AgreeInvStep, <1>1, PTL DEF Spec

-----------------------------------------------------------------------------
(***************************************************************************)
(* A page that was left alone has every row of its conversation            *)
(***************************************************************************)
\* Somebody is still to fetch what can be fetched, and to show it.
ToLoad == \E j \in inits : j.at \in {"profiles", "dm", "load"}
Waits == route \in frames \/ ToLoad \/ \E p \in pushes : p.at = "fetch" /\ p.conv = route
FetchComes == Fetched(route) # {} => Waits

\* A row of the open conversation is on the screen or will be.
Comes(m) ==
    \/ Waits
    \/ \E p \in pushes : p.conv = route /\ (p.at = "ask" \/ m \in p.rows)
    \/ \E j \in inits : j.at = "loaded" /\ Beside(m, RowsIn(j.rows))
    \/ Beside(m, RowsIn(shown))

\* Of what another conversation has left on the screen nothing is as new as a row
\* that a load under way has missed; older rows than one stored are not fetched.
Late(m) == \A n \in RowsIn(shown) : n.conv # route => n.ts < m.ts
Passed(m) == m \notin stored /\ \E n \in RowsOf(stored, route) : n.ts >= m.ts
MissedAreLate ==
    \A j \in inits : j.at = "loaded" =>
        \A m \in RowsOf(server, route) : m.text = 0 =>
            (m \in stored /\ Beside(m, RowsIn(j.rows))) \/ Late(m) \/ Passed(m)

Surfacing ==
    /\ FetchComes /\ MissedAreLate
    /\ ~misled => \A m \in RowsOf(stored, route) : m.text = 0 => Comes(m)

\* The state before a step of a page that stays open and undisturbed.
Before ==
    /\ ComposerInv /\ InitsAgree /\ WorkAgrees /\ Surfacing /\ ~disturbed /\ ~disturbed'
    /\ route \in Conversations /\ UNCHANGED route
    /\ Next /\ \A c \in Conversations : ~Open(c)

LEMMA BesideMore ==
    ASSUME NEW m, NEW R, NEW T, R \subseteq T, Beside(m, R) PROVE Beside(m, T)
  BY DEF Beside

\* What is stored was stored or could be fetched, or is the user's own.
LEMMA StoreGains ==
    ASSUME Before, NEW m \in RowsOf(stored', route), m.text = 0
    PROVE  m \in stored \/ m \in Fetched(route)
  <1>1. ASSUME NEW c, stored' = stored \cup Fetched(c) PROVE m \in stored \/ m \in Fetched(route)
    BY <1>1 DEF RowsOf, Fetched
  <1>2. ASSUME NEW s \in sends, Post(s) PROVE m \in stored
    <2>1. s.text # 0
      BY DEF Before, ComposerInv, SendsAgree, Fits
    <2> QED
      BY <1>2, <2>1 DEF Post, RowsOf
  <1>3. ASSUME NEW c \in Conversations, ListFetch(c) PROVE m \in stored \/ m \in Fetched(route)
    BY <1>1, <1>3 DEF ListFetch
  <1>4. ASSUME NEW j \in inits, LoadMessages(j) PROVE m \in stored \/ m \in Fetched(route)
    BY <1>1, <1>4 DEF LoadMessages, RowsOf
  <1>5. ASSUME NEW p \in pushes, PushFetch(p) PROVE m \in stored \/ m \in Fetched(route)
    BY <1>1, <1>5 DEF PushFetch, RowsOf
  <1>6. ASSUME NEW s \in sends, MediaLoads(s) PROVE m \in stored \/ m \in Fetched(route)
    BY <1>1, <1>6 DEF MediaLoads, RowsOf
  <1>7. \/ UNCHANGED stored
        \/ \E c \in Conversations : ListFetch(c)
        \/ \E j \in inits : LoadMessages(j)
        \/ \E p \in pushes : PushFetch(p)
        \/ \E s \in sends : Post(s) \/ MediaLoads(s)
    BY StoreChanges DEF Before
  <1> QED
    BY <1>2, <1>3, <1>4, <1>5, <1>6, <1>7 DEF RowsOf

\* What is new on the server is the user's own, or announced.
LEMMA ServerGains ==
    ASSUME Before, NEW m \in RowsOf(server', route), m.text = 0
    PROVE  m \in server \/ (m.ts = clock' /\ clock' = clock + 1 /\ PeerPosts(route))
  <1>1. ASSUME NEW s \in sends, Post(s) PROVE m \in server
    <2>1. s.text # 0
      BY DEF Before, ComposerInv, SendsAgree, Fits
    <2> QED
      BY <1>1, <2>1 DEF Post, RowsOf
  <1>2. ASSUME NEW c \in Conversations, PeerPosts(c)
        PROVE  m \in server \/ (m.ts = clock' /\ clock' = clock + 1 /\ PeerPosts(route))
    <2>1. PICK n : n = [conv |-> c, ts |-> clock', text |-> 0, temp |-> FALSE]
      OBVIOUS
    <2>2. server' = server \cup {n} /\ clock' = clock + 1
      BY <1>2, <2>1 DEF PeerPosts
    <2>3. m \in server \/ m = n
      BY <2>2 DEF RowsOf
    <2>4. m = n => c = route /\ m.ts = clock'
      BY <2>1 DEF RowsOf
    <2> QED
      BY <1>2, <2>2, <2>3, <2>4
  <1>3. \/ UNCHANGED server
        \/ \E c \in Conversations : PeerPosts(c)
        \/ \E s \in sends : Post(s)
    BY StoreChanges DEF Before
  <1> QED
    BY <1>1, <1>2, <1>3 DEF RowsOf

\* After a fetch there is nothing to fetch.
LEMMA FetchedAll ==
    ASSUME TypeOK, NEW c, stored' = stored \cup Fetched(c), UNCHANGED server
    PROVE  Fetched(c)' = {}
  <1>1. ASSUME NEW m \in Fetched(c)' PROVE FALSE
    <2>1. m \in server /\ m.conv = c /\ m.text = 0 /\ \A n \in RowsOf(stored', c) : n.ts < m.ts
      BY <1>1 DEF Fetched, RowsOf
    <2>2. m \in Fetched(c)
      BY <2>1 DEF Fetched, RowsOf
    <2>3. m \in RowsOf(stored', c) /\ m.ts \in Nat
      BY <2>1, <2>2 DEF RowsOf, TypeOK, Row
    <2> QED
      BY <2>1, <2>3
  <1> QED
    BY <1>1

LEMMA FetchesLess ==
    ASSUME Before, NEW m \in Fetched(route)', m \in server PROVE m \in Fetched(route)
  <1>1. stored \subseteq stored'
    BY StoreStep DEF Before, ComposerInv, Grows
  <1> QED
    BY <1>1 DEF Before, Fetched, RowsOf

\* What shows that a row comes, after the step.
LEMMA ComesAfter ==
    ASSUME UNCHANGED route, NEW m
    PROVE  /\ Waits' => Comes(m)'
           /\ \A p \in pushes' : p.conv = route /\ (p.at = "ask" \/ m \in p.rows) => Comes(m)'
           /\ \A j \in inits' : j.at = "loaded" /\ Beside(m, RowsIn(j.rows)) => Comes(m)'
           /\ Beside(m, RowsIn(shown')) => Comes(m)'
  BY DEF Comes, Beside, RowsIn

\* The runs of initializeChat on a page that stays.
LEMMA InitStays ==
    ASSUME Before, NEW j \in inits
    PROVE  \/ j \in inits'
           \/ \E at \in {"dm", "load"} : j.at \in {"profiles", "dm"} /\ NextInit(j, at, <<>>)
           \/ LoadMessages(j) \/ ShowLoaded(j) \/ InitRead(j)
  <1>1. ~Leave
    BY PageAssumption DEF Before, Leave
  <1>2. ~Fails
    BY DEF Before, Fails
  <1>3. \A i \in inits : i = j
    BY DEF Before, InitsAgree
  <1>4. ASSUME NEW i \in inits, DirectProfiles(i) \/ OpenDm(i) \/ GroupInfo(i)
        PROVE  \E at \in {"dm", "load"} : i.at \in {"profiles", "dm"} /\ NextInit(i, at, <<>>)
    BY <1>2, <1>4 DEF DirectProfiles, OpenDm, GroupInfo
  <1> QED
    BY <1>1, <1>3, <1>4, PageChanges DEF Before

LEMMA LoadsAll ==
    ASSUME Before, NEW j \in inits, LoadMessages(j)
    PROVE  /\ Fetched(route)' = {}
           /\ \E o : /\ inits' = {o} /\ o.at = "loaded"
                     /\ \A m \in RowsOf(stored', route) : Beside(m, RowsIn(o.rows))
  <1>1. TypeOK /\ StoreInv /\ InitsAgree /\ ~Fails /\ j.conv = route
    BY DEF Before, ComposerInv, InitsAgree, Fails
  <1>2. PICK T : T = stored'
    OBVIOUS
  <1>3. /\ stored' = stored \cup Fetched(route) /\ UNCHANGED server
        /\ \E q \in InOrder(Newest(RowsOf(T, route), LoadLimit)) : NextInit(j, "loaded", q)
    BY <1>1, <1>2 DEF LoadMessages
  <1>4. T \subseteq server
    BY <1>1, <1>2, <1>3, FetchedRows DEF StoreInv
  <1>5. PICK q \in InOrder(Newest(RowsOf(T, route), LoadLimit)) : NextInit(j, "loaded", q)
    BY <1>3
  <1>6. PICK r : r = route
    OBVIOUS
  <1>7. q \in InOrder(Newest(RowsOf(T, r), LoadLimit))
    BY <1>6
  <1>8. \A m \in RowsOf(T, r) : Beside(m, RowsIn(q))
    BY <1>1, <1>4, <1>7, LoadedRows, PageAssumption
  <1>9. \E o : inits' = {o} /\ o.at = "loaded" /\ o.rows = q
    BY <1>1, <1>5, OneGoesOn
  <1>10. Fetched(r)' = {}
    BY <1>1, <1>3, <1>6, FetchedAll
  <1>11. Fetched(route)' = {}
    BY <1>6, <1>10 DEF Before, Fetched, RowsOf
  <1> QED
    BY <1>2, <1>6, <1>8, <1>9, <1>11

LEMMA ToLoadStays ==
    ASSUME Before, ToLoad
    PROVE  ToLoad' \/ \E j \in inits : LoadMessages(j)
  <1>1. PICK j \in inits : j.at \in {"profiles", "dm", "load"}
    BY DEF ToLoad
  <1>2. ASSUME NEW at \in {"dm", "load"}, NextInit(j, at, <<>>) PROVE ToLoad'
    <2>1. \E o : inits' = {o} /\ o.at = at
      BY <1>2, OneGoesOn DEF Before, ComposerInv
    <2> QED
      BY <2>1 DEF ToLoad
  <1>3. ~ShowLoaded(j) /\ ~InitRead(j)
    BY <1>1 DEF ShowLoaded, InitRead
  <1> QED
    BY <1>1, <1>2, <1>3, InitStays DEF ToLoad

\* The runs of handleWsMessage on a page that stays.
LEMMA PushStays ==
    ASSUME Before, NEW p \in pushes
    PROVE  \/ p \in pushes'
           \/ PushAsk(p) \/ PushShow(p)
           \/ /\ p.at = "fetch" /\ stored' = stored \cup Fetched(p.conv) /\ UNCHANGED server
              /\ \E o \in pushes' : o.conv = p.conv /\ o.at = "ask"
  <1>1. ~Leave /\ ~Fails
    BY PageAssumption DEF Before, Leave, Fails
  <1>2. CASE PushFetch(p)
    <2>1. PICK o : o = [p EXCEPT !.at = "ask", !.rows = Fetched(p.conv)]
      OBVIOUS
    <2>2. o.conv = p.conv /\ o.at = "ask"
      BY <2>1 DEF Before, ComposerInv, TypeOK
    <2> QED
      BY <1>1, <1>2, <2>1, <2>2 DEF PushFetch
  <1>3. ASSUME NEW q \in pushes, q # p, PushFetch(q) \/ PushAsk(q) \/ PushShow(q)
        PROVE  p \in pushes'
    BY <1>1, <1>3 DEF PushFetch, PushAsk, PushShow
  <1>4. ASSUME NEW c \in Conversations, Dispatch(c) PROVE p \in pushes'
    BY <1>4 DEF Dispatch
  <1>5. \/ pushes' = pushes \/ \E c \in Conversations : Open(c) \/ Dispatch(c)
        \/ Leave \/ \E q \in pushes : PushFetch(q) \/ PushAsk(q) \/ PushShow(q)
    BY Cases DEF Before, PeerPosts, ListFetch, DirectProfiles, OpenDm, GroupInfo,
         LoadMessages, ShowLoaded, InitRead, OlderLoaded, Post, TextSent, MediaLoads,
         MediaSent, LoadOlder, Type, Attach, ClearFile, SendMessage, SendMedia, runVars
  <1> QED
    BY <1>1, <1>2, <1>3, <1>4, <1>5 DEF Before

\* An announcement of the open conversation has the page fetch it, or there is a load to come.
LEMMA FrameStays ==
    ASSUME Before, route \in frames PROVE Waits'
  <1>1. CASE frames \subseteq frames'
    BY <1>1 DEF Before, Waits
  <1>2. ASSUME NEW c \in Conversations, Dispatch(c) PROVE Waits'
    <2>1. CASE c # route
      BY <1>2, <2>1 DEF Dispatch, Waits, Before
    <2>2. CASE c = route /\ conv = route
      <3>1. PICK o : o = [conv |-> c, at |-> "fetch", rows |-> {}]
        OBVIOUS
      <3>2. o \in pushes' /\ o.at = "fetch" /\ o.conv = route
        BY <1>2, <2>2, <3>1, PageAssumption DEF Dispatch, Concerns, Before
      <3> QED
        BY <3>2 DEF Waits, Before
    <2>3. CASE conv # route
      <3>1. PICK j \in inits : j.at \notin {"load", "loaded", "read"}
        BY <2>3 DEF Before, InitsAgree
      <3>2. j.at \in {"profiles", "dm"}
        BY <3>1 DEF Before, ComposerInv, TypeOK
      <3>3. inits' = inits
        BY <1>2 DEF Dispatch
      <3> QED
        BY <3>2, <3>3 DEF Waits, ToLoad
    <2> QED
      BY <2>1, <2>2, <2>3
  <1>3. ASSUME NEW c \in Conversations, Open(c) \/ PeerPosts(c) \/ ListFetch(c)
        PROVE  frames \subseteq frames'
    BY <1>3 DEF Open, PeerPosts, ListFetch
  <1>4. ASSUME NEW j \in inits, \/ DirectProfiles(j) \/ OpenDm(j) \/ GroupInfo(j)
                                \/ LoadMessages(j) \/ ShowLoaded(j) \/ InitRead(j)
        PROVE  frames' = frames
    BY <1>4 DEF DirectProfiles, OpenDm, GroupInfo, LoadMessages, ShowLoaded, InitRead
  <1>5. ASSUME NEW p \in pushes, PushFetch(p) \/ PushAsk(p) \/ PushShow(p) PROVE frames' = frames
    BY <1>5 DEF PushFetch, PushAsk, PushShow
  <1>6. ASSUME NEW s \in sends, Post(s) \/ TextSent(s) \/ MediaLoads(s) \/ MediaSent(s)
        PROVE  frames' = frames
    BY <1>6 DEF Post, TextSent, MediaLoads, MediaSent
  <1>7. ASSUME \/ Leave \/ LoadOlder \/ Type \/ Attach \/ ClearFile \/ SendMessage \/ SendMedia
               \/ \E q \in older : OlderLoaded(q)
        PROVE  frames' = frames
    BY <1>7 DEF Leave, LoadOlder, Type, Attach, ClearFile, SendMessage, SendMedia, OlderLoaded
  <1> QED
    BY <1>1, <1>2, <1>3, <1>4, <1>5, <1>6, <1>7, Cases DEF Before

\* Somebody is still to fetch, or has fetched everything and goes on to show it.
LEMMA WaitsStep ==
    ASSUME Before, Waits
    PROVE  \/ Waits'
           \/ Fetched(route)' = {} /\ \A m \in RowsOf(stored', route) : Comes(m)'
  <1>1. UNCHANGED route
    BY DEF Before
  <1>2. CASE route \in frames
    BY <1>2, FrameStays
  <1>3. ASSUME NEW j \in inits, LoadMessages(j)
        PROVE  Fetched(route)' = {} /\ \A m \in RowsOf(stored', route) : Comes(m)'
    BY <1>1, <1>3, LoadsAll, ComesAfter
  <1>4. CASE ToLoad
    BY <1>3, <1>4, ToLoadStays DEF Waits
  <1>5. ASSUME NEW p \in pushes, p.at = "fetch", p.conv = route
        PROVE  \/ Waits'
               \/ Fetched(route)' = {} /\ \A m \in RowsOf(stored', route) : Comes(m)'
    <2>1. CASE p \in pushes'
      BY <1>1, <1>5, <2>1 DEF Waits
    <2>2. ~PushAsk(p) /\ ~PushShow(p)
      BY <1>5 DEF PushAsk, PushShow
    <2>3. ASSUME stored' = stored \cup Fetched(p.conv), UNCHANGED server,
                 NEW o \in pushes', o.conv = p.conv, o.at = "ask"
          PROVE  Fetched(route)' = {} /\ \A m \in RowsOf(stored', route) : Comes(m)'
      <3>1. PICK r : r = route
        OBVIOUS
      <3>2. Fetched(r)' = {}
        BY <1>5, <2>3, <3>1, FetchedAll DEF Before, ComposerInv
      <3>3. Fetched(route)' = {}
        BY <1>1, <3>1, <3>2 DEF Fetched, RowsOf
      <3> QED
        BY <1>1, <1>5, <2>3, <3>3, ComesAfter
    <2> QED
      BY <2>1, <2>2, <2>3, PushStays
  <1> QED
    BY <1>2, <1>4, <1>5 DEF Waits

LEMMA BeforeFacts ==
    ASSUME Before
    PROVE  /\ TypeOK /\ StoreInv /\ RowsStored /\ SendsAgree /\ UnsentOnTheWay
           /\ InitsAgree /\ WorkAgrees /\ Surfacing /\ Next /\ ~disturbed'
           /\ UNCHANGED route /\ ~Leave /\ ~Fails /\ Grows
           /\ \A c \in Conversations : ~Open(c)
  BY StoreStep, PageAssumption DEF Before, ComposerInv, Leave, Fails

\* Where conversationId is not the open conversation yet, its load is to come.
LEMMA OtherConversation ==
    ASSUME Before, conv # route PROVE ToLoad
  <1>1. PICK j \in inits : j.at \notin {"load", "loaded", "read"}
    BY DEF Before, InitsAgree
  <1>2. j.at \in {"profiles", "dm"}
    BY <1>1, BeforeFacts DEF TypeOK
  <1> QED
    BY <1>2 DEF ToLoad

\* Rows of other conversations are shown only until the load.
LEMMA OtherRows ==
    ASSUME Before, NEW n \in RowsIn(shown), n.conv # route
    PROVE  ToLoad \/ \E j \in inits : j.at = "loaded"
  <1>1. PICK j \in inits : j.at # "read"
    BY BeforeFacts DEF InitsAgree, Of
  <1>2. j.at \in {"profiles", "dm", "load", "loaded"}
    BY <1>1, BeforeFacts DEF TypeOK
  <1> QED
    BY <1>2 DEF ToLoad

\* The rows after the last one shown are all that is missing, or a load is to come,
\* if no stamp is ahead of the server's time: then an ask makes good an earlier one.
LEMMA Asked ==
    ASSUME Before, NEW p \in pushes, PushAsk(p), p.conv = route, ~misled',
           NEW m \in RowsOf(stored, route), m.text = 0
    PROVE  Comes(m)'
  <1>1. /\ UNCHANGED <<route, shown, inits>> /\ shown \in Seq(Row) /\ m \in server
        /\ m.conv = route /\ m.ts \in Nat \ {0}
    BY BeforeFacts DEF PushAsk, pageVars, TypeOK, RowsOf, StoreInv, Row
  <1>2. PICK o : o = [p EXCEPT !.at = "show", !.rows = LocalAfter(p, LastShown)]
    OBVIOUS
  <1>3. o \in pushes' /\ o.conv = route /\ o.rows = LocalAfter(p, LastShown)
    BY <1>2, BeforeFacts DEF PushAsk, TypeOK
  <1>4. CASE m.ts > LastShown
    <2>1. m \in o.rows
      BY <1>3, <1>4 DEF LocalAfter, RowsOf
    <2> QED
      BY <1>1, <1>3, <2>1, ComesAfter
  <1>5. CASE ~(m.ts > LastShown)
    <2>1. shown # <<>>
      BY <1>1, <1>5 DEF LastShown
    <2>2. PICK l : l = shown[Len(shown)]
      OBVIOUS
    <2>3. l \in RowsIn(shown) /\ l \in Row
      <3>1. Len(shown) \in Nat /\ DOMAIN shown = 1..Len(shown) /\ Len(shown) # 0
        BY <1>1, <2>1
      <3> QED
        BY <1>1, <2>2, <3>1, RowsAreRows DEF RowsIn
    <2>4. l.ts \in Nat /\ ~(m.ts > l.ts)
      <3>1. l.ts \in Nat /\ skew \in Int /\ LastShown = (IF l.temp THEN l.ts + skew ELSE l.ts)
        BY <2>1, <2>2, <2>3, BeforeFacts DEF LastShown, Stamp, Row, TypeOK
      <3>2. ~(l.temp /\ skew > 0)
        BY <2>1, <2>2 DEF PushAsk, AfterAhead
      <3>3. LastShown <= l.ts /\ LastShown \in Int
        BY <3>1, <3>2
      <3> QED
        BY <1>1, <1>5, <3>1, <3>3
    <2>5. CASE l.conv = route
      <3>1. l.ts = m.ts => l = m
        <4>1. l \in stored \/ Unsent(l)
          BY <2>3, BeforeFacts DEF RowsStored
        <4>2. Unsent(l) => l.ts # m.ts
          BY <1>1 DEF Unsent
        <4> QED
          BY <1>1, <4>1, <4>2, BeforeFacts DEF StoreInv
      <3>2. l = m \/ l.ts > m.ts
        BY <1>1, <2>4, <3>1
      <3>3. Beside(m, RowsIn(shown))
        BY <1>1, <2>3, <2>5, <3>2 DEF Beside
      <3> QED
        BY <1>1, <3>3, ComesAfter
    <2>6. CASE l.conv # route
      <3>1. CASE ToLoad
        BY <1>1, <3>1, ComesAfter DEF Waits, ToLoad
      <3>2. ASSUME NEW j \in inits, j.at = "loaded" PROVE Comes(m)'
        <4>1. ~Late(m)
          BY <1>1, <2>3, <2>4, <2>6 DEF Late
        <4>2. ~Passed(m) /\ m \in RowsOf(server, route)
          BY <1>1 DEF Passed, RowsOf
        <4>3. Beside(m, RowsIn(j.rows))
          BY <3>2, <4>1, <4>2, BeforeFacts DEF Surfacing, MissedAreLate
        <4> QED
          BY <1>1, <3>2, <4>3, ComesAfter
      <3> QED
        BY <2>3, <2>6, <3>1, <3>2, OtherRows
    <2> QED
      BY <2>5, <2>6
  <1> QED
    BY <1>4, <1>5

\* A list that is not too old has what was shown.
LEMMA NotOvertaken ==
    ASSUME Before, NEW q, RowsIn(q) \subseteq stored, Of(RowsIn(q), route), ~Overtaken(q),
           NEW m \in RowsOf(stored, route), Beside(m, RowsIn(shown))
    PROVE  Beside(m, RowsIn(q))
  <1>1. m \in server /\ m.conv = route /\ m.ts \in Nat
    BY BeforeFacts DEF RowsOf, StoreInv, TypeOK, Row
  <1>2. PICK n \in RowsIn(shown) : n.conv = route /\ (n = m \/ n.ts > m.ts)
    BY <1>1 DEF Beside
  <1>3. n.ts \in Nat
    BY BeforeFacts, RowsAreRows DEF TypeOK, Row
  <1>4. PICK i \in DOMAIN q : ~(q[i].conv = n.conv /\ q[i].ts < n.ts)
    BY DEF Overtaken
  <1>5. PICK r : r = q[i]
    OBVIOUS
  <1>6. r \in RowsIn(q) /\ r.conv = route /\ r \in server /\ r.ts \in Nat
    BY <1>5, BeforeFacts DEF RowsIn, Of, StoreInv, TypeOK, Row
  <1>7. ~(r.ts < n.ts)
    BY <1>2, <1>4, <1>5, <1>6
  <1>8. r.ts > m.ts \/ r.ts = m.ts
    BY <1>1, <1>2, <1>3, <1>6, <1>7
  <1>9. r.ts = m.ts => r = m
    BY <1>1, <1>6, BeforeFacts DEF StoreInv
  <1> QED
    BY <1>1, <1>6, <1>8, <1>9 DEF Beside

\* What is beside a row stays beside it, or is loaded again.
LEMMA BesideStays ==
    ASSUME Before, NEW m \in RowsOf(stored, route), Beside(m, RowsIn(shown))
    PROVE  Comes(m)'
  <1>1. /\ UNCHANGED route /\ m \in stored /\ m \in server /\ ~m.temp /\ m.ts \in Nat
        /\ m.conv = route /\ shown \in Seq(Row)
    BY BeforeFacts DEF RowsOf, StoreInv, TypeOK, Row
  <1>2. CASE RowsIn(shown) \subseteq RowsIn(shown')
    BY <1>1, <1>2, BesideMore, ComesAfter
  <1>3. ASSUME NEW j \in inits, ShowLoaded(j) PROVE Comes(m)'
    <2>1. shown' = j.rows /\ ~Overtaken(j.rows) /\ j.at = "loaded"
      BY <1>3, BeforeFacts DEF ShowLoaded
    <2>2. RowsIn(j.rows) \subseteq stored /\ Of(RowsIn(j.rows), route)
      BY <2>1, BeforeFacts DEF RowsStored, InitsAgree
    <2>3. Beside(m, RowsIn(shown'))
      BY <2>1, <2>2, NotOvertaken
    <2> QED
      BY <1>1, <2>3, ComesAfter
  <1>4. ASSUME NEW p \in pushes, PushShow(p) PROVE Comes(m)'
    <2>1. p.rows \subseteq stored
      BY BeforeFacts DEF RowsStored
    <2>2. RowsIn(shown') = RowsIn(shown) \cup p.rows
      BY <1>4, <2>1, AppendedRows, BeforeFacts DEF PushShow
    <2> QED
      BY <1>2, <2>2
  <1>5. ASSUME NEW q \in older, OlderLoaded(q) PROVE Comes(m)'
    <2>1. RowsIn(shown') = RowsIn(q) \cup RowsIn(shown)
      BY <1>5, RowsOfBoth, BeforeFacts DEF OlderLoaded, TypeOK
    <2> QED
      BY <1>2, <2>1
  <1>6. ASSUME NEW s \in sends, TextSent(s) PROVE Comes(m)'
    <2>1. CASE ~s.live
      BY <1>2, <1>6, <2>1 DEF TextSent
    <2>2. CASE s.live
      <3>1. s.at = "accepted" /\ shown' = Replaced(s)
        BY <1>6, <2>2, StaysDisturbed, BeforeFacts DEF TextSent, SendsAgree, Fits
      <3>2. s.rows[1].conv = s.conv /\ s.rows[1].ts > s.ts /\ s.rows[1] \in RowsIn(s.rows)
        BY <3>1, BeforeFacts DEF SendsAgree, Fits, RowsIn
      <3>3. s.rows[1] \in Row /\ s.ts \in Nat
        BY <3>2, RowsAreRows, BeforeFacts DEF TypeOK
      <3>4. \A n \in RowsIn(shown) :
               IF IsTemp(s, n) THEN s.rows[1] \in RowsIn(shown') ELSE n \in RowsIn(shown')
        BY <1>1, <3>1, <3>3, ReplacedRows
      <3>5. m \in RowsIn(shown) => m \in RowsIn(shown')
        BY <1>1, <3>4 DEF IsTemp
      <3>6. ASSUME NEW n \in RowsIn(shown), n.conv = m.conv, n.ts > m.ts
            PROVE  Beside(m, RowsIn(shown'))
        <4>1. CASE IsTemp(s, n)
          <5>1. PICK r \in Live(sends) : IsTemp(r, n) /\ n.conv = r.conv
            BY <4>1, BeforeFacts DEF UnsentOnTheWay, IsTemp
          <5>2. r = s
            BY <2>2, BeforeFacts DEF SendsAgree, Live
          <5>3. PICK o : o = s.rows[1]
            OBVIOUS
          <5>4. o \in RowsIn(shown') /\ o.conv = m.conv /\ o.ts > n.ts /\ n.ts = s.ts
            BY <3>2, <3>4, <3>6, <4>1, <5>1, <5>2, <5>3 DEF IsTemp
          <5>5. o.ts > m.ts
            BY <1>1, <3>3, <3>6, <5>3, <5>4 DEF Row
          <5> QED
            BY <5>4, <5>5 DEF Beside
        <4>2. CASE ~IsTemp(s, n)
          BY <3>4, <3>6, <4>2 DEF Beside
        <4> QED
          BY <4>1, <4>2
      <3>7. Beside(m, RowsIn(shown'))
        BY <3>5, <3>6 DEF Beside
      <3> QED
        BY <1>1, <3>7, ComesAfter
    <2> QED
      BY <2>1, <2>2
  <1>7. ASSUME NEW s \in sends, MediaSent(s) PROVE Comes(m)'
    <2>1. CASE shown' = shown
      BY <1>2, <2>1
    <2>2. CASE s.live /\ shown' = s.rows /\ ~Overtaken(s.rows)
      <3>1. RowsIn(s.rows) \subseteq stored /\ Of(RowsIn(s.rows), conv)
        BY <2>2, BeforeFacts DEF RowsStored, WorkAgrees, LiveAgree
      <3>2. CASE conv = route
        <4>1. Beside(m, RowsIn(shown'))
          BY <2>2, <3>1, <3>2, NotOvertaken
        <4> QED
          BY <1>1, <4>1, ComesAfter
      <3>3. CASE conv # route
        <4>1. ToLoad /\ inits' = inits
          BY <1>7, <3>3, OtherConversation DEF MediaSent
        <4> QED
          BY <1>1, <4>1, ComesAfter DEF Waits, ToLoad
      <3> QED
        BY <3>2, <3>3
    <2> QED
      BY <1>7, <2>1, <2>2, BeforeFacts DEF MediaSent
  <1>8. ASSUME SendMessage PROVE Comes(m)'
    <2>1. conv \in Conversations /\ draft \in Nat /\ clock' \in Nat
      BY <1>8, StoreTyped, PageAssumption, BeforeFacts DEF SendMessage, Composer, TypeOK, Number
    <2>2. PICK n : n = [conv |-> conv, ts |-> clock', text |-> draft, temp |-> TRUE]
      OBVIOUS
    <2>3. n \in Row /\ shown' = Append(shown, n)
      BY <1>8, <2>1, <2>2 DEF SendMessage, Row
    <2>4. RowsIn(shown') = RowsIn(shown) \cup {n}
      BY <1>1, <2>3, OneRowMore
    <2> QED
      BY <1>2, <2>4
  <1> QED
    BY <1>2, <1>3, <1>4, <1>5, <1>6, <1>7, <1>8, ShownChanges, BeforeFacts

LEMMA FetchComesStep ==
    ASSUME Before PROVE FetchComes'
  <1> SUFFICES ASSUME Fetched(route)' # {} PROVE Waits'
    BY DEF FetchComes
  <1>1. PICK m \in Fetched(route)' : TRUE
    OBVIOUS
  <1>2. m \in RowsOf(server', route) /\ m.text = 0
    BY <1>1, BeforeFacts DEF Fetched, RowsOf
  <1>3. CASE m \in server
    <2>1. m \in Fetched(route)
      BY <1>1, <1>3, FetchesLess
    <2>2. Waits
      BY <2>1, BeforeFacts DEF Surfacing, FetchComes
    <2> QED
      BY <1>1, <2>2, WaitsStep
  <1>4. CASE PeerPosts(route)
    BY <1>4, BeforeFacts DEF PeerPosts, Waits
  <1> QED
    BY <1>2, <1>3, <1>4, ServerGains

LEMMA MisledChanges ==
    ASSUME Next, ~Leave, \A c \in Conversations : ~Open(c)
    PROVE  misled' = misled \/ \E p \in pushes : PushAsk(p)
  <1> USE DEF stampVars
  <1>1. ASSUME NEW c \in Conversations, PeerPosts(c) \/ Dispatch(c) \/ ListFetch(c)
        PROVE  misled' = misled
    BY <1>1 DEF PeerPosts, Dispatch, ListFetch
  <1>2. ASSUME NEW j \in inits, \/ DirectProfiles(j) \/ OpenDm(j) \/ GroupInfo(j)
                                \/ LoadMessages(j) \/ ShowLoaded(j) \/ InitRead(j)
        PROVE  misled' = misled
    BY <1>2 DEF DirectProfiles, OpenDm, GroupInfo, LoadMessages, ShowLoaded, InitRead
  <1>3. ASSUME NEW p \in pushes, PushFetch(p) \/ PushShow(p) PROVE misled' = misled
    BY <1>3 DEF PushFetch, PushShow
  <1>4. ASSUME NEW s \in sends, Post(s) \/ TextSent(s) \/ MediaLoads(s) \/ MediaSent(s)
        PROVE  misled' = misled
    BY <1>4 DEF Post, TextSent, MediaLoads, MediaSent
  <1>5. ASSUME \/ LoadOlder \/ Type \/ Attach \/ ClearFile \/ SendMessage \/ SendMedia
               \/ \E q \in older : OlderLoaded(q)
        PROVE  misled' = misled
    BY <1>5 DEF LoadOlder, Type, Attach, ClearFile, SendMessage, SendMedia, OlderLoaded
  <1> QED
    BY <1>1, <1>2, <1>3, <1>4, <1>5, Cases

LEMMA ComesStep ==
    ASSUME Before, ~misled', NEW m \in RowsOf(stored', route), m.text = 0 PROVE Comes(m)'
  <1>1. UNCHANGED route
    BY BeforeFacts
  <1>2. CASE Waits
    BY <1>1, <1>2, WaitsStep, ComesAfter
  <1>3. CASE m \in Fetched(route)
    BY <1>2, <1>3, BeforeFacts DEF Surfacing, FetchComes
  <1>4. CASE m \in stored /\ ~Waits
    <2>1. m \in RowsOf(stored, route)
      BY <1>4 DEF RowsOf
    <2>2. ~misled => Comes(m)
      BY <1>4, <2>1, BeforeFacts DEF Surfacing
    <2>3. ASSUME NEW p \in pushes, PushAsk(p) PROVE Comes(m)'
      <3>1. p.conv = route
        BY <1>4, OtherConversation, BeforeFacts DEF WorkAgrees, PushesAgree, Waits
      <3> QED
        BY <2>1, <2>3, <3>1, Asked
    <2>4. ASSUME NEW p \in pushes, p.conv = route, p.at = "ask" \/ m \in p.rows PROVE Comes(m)'
      <3>1. CASE p \in pushes'
        BY <1>1, <2>4, <3>1, ComesAfter
      <3>2. CASE PushAsk(p)
        BY <2>3, <3>2
      <3>3. CASE PushShow(p)
        <4>1. p.rows \subseteq stored /\ p.at = "show"
          BY <3>3, BeforeFacts DEF RowsStored, PushShow
        <4>2. RowsIn(shown') = RowsIn(shown) \cup p.rows
          BY <3>3, <4>1, AppendedRows, BeforeFacts DEF PushShow
        <4>3. Beside(m, RowsIn(shown'))
          BY <2>4, <4>1, <4>2 DEF Beside
        <4> QED
          BY <1>1, <4>3, ComesAfter
      <3>4. ASSUME NEW o \in pushes', o.conv = p.conv, o.at = "ask" PROVE Comes(m)'
        BY <1>1, <2>4, <3>4, ComesAfter
      <3> QED
        BY <3>1, <3>2, <3>3, <3>4, PushStays
    <2>5. ASSUME NEW j \in inits, j.at = "loaded", Beside(m, RowsIn(j.rows)) PROVE Comes(m)'
      <3>1. CASE j \in inits'
        BY <1>1, <2>5, <3>1, ComesAfter
      <3>2. CASE ShowLoaded(j)
        BY <1>1, <2>5, <3>2, ComesAfter DEF ShowLoaded
      <3>3. ~LoadMessages(j) /\ ~InitRead(j) /\ j.at \notin {"profiles", "dm"}
        BY <2>5 DEF LoadMessages, InitRead
      <3> QED
        BY <3>1, <3>2, <3>3, InitStays
    <2>6. misled' = misled \/ \E p \in pushes : PushAsk(p)
      BY MisledChanges, BeforeFacts
    <2> QED
      BY <1>4, <2>1, <2>2, <2>3, <2>4, <2>5, <2>6, BesideStays DEF Comes
  <1> QED
    BY <1>2, <1>3, <1>4, StoreGains

LEMMA MissedStep ==
    ASSUME Before PROVE MissedAreLate'
  <1>1. UNCHANGED route /\ stored \subseteq stored'
    BY BeforeFacts DEF Grows
  <1>2. RowsIn(shown)' = RowsIn(shown') /\ RowsOf(stored, route)' = RowsOf(stored', route)
    BY <1>1 DEF RowsIn, RowsOf
  <1>3. ASSUME NEW j \in inits, j \in inits', j.at = "loaded", NEW m \in RowsOf(server', route),
               m.text = 0, \A i \in inits : ~ShowLoaded(i)
        PROVE  (m \in stored' /\ Beside(m, RowsIn(j.rows))) \/ Late(m)' \/ Passed(m)'
    <2>1. \A n \in RowsIn(shown') : n \in RowsIn(shown) \/ n.conv = route
      BY <1>3, ShownOf, BeforeFacts DEF InitsAgree
    <2>2. CASE m \in server
      <3>1. CASE m \in stored /\ Beside(m, RowsIn(j.rows))
        BY <1>1, <3>1
      <3>2. CASE Late(m)
        BY <1>1, <1>2, <2>1, <3>2 DEF Late
      <3>3. CASE Passed(m)
        <4>1. PICK n \in RowsOf(stored, route) : n.ts >= m.ts
          BY <3>3 DEF Passed
        <4>2. n \in RowsOf(stored', route)
          BY <1>1 DEF RowsOf
        <4>3. n.ts \in Nat /\ m.ts \in Nat
          BY <2>2, BeforeFacts DEF RowsOf, TypeOK, Row
        <4>4. m \notin Fetched(route)
          BY <4>1, <4>3 DEF Fetched
        <4>5. m \notin stored'
          BY <1>3, <3>3, <4>4, StoreGains DEF Passed, RowsOf
        <4> QED
          BY <1>2, <4>1, <4>2, <4>5 DEF Passed
      <3>4. m \in RowsOf(server, route)
        BY <1>3, <2>2 DEF RowsOf
      <3> QED
        BY <1>3, <3>1, <3>2, <3>3, <3>4, BeforeFacts DEF Surfacing, MissedAreLate
    <2>3. CASE m.ts = clock' /\ clock' = clock + 1 /\ PeerPosts(route)
      <3>1. ASSUME NEW n \in RowsIn(shown) PROVE n.ts < m.ts
        <4>1. n \in server \/ Unsent(n)
          BY BeforeFacts DEF RowsStored, StoreInv
        <4>2. n.ts \in 1..clock /\ clock \in Nat
          BY <4>1, BeforeFacts DEF Unsent, StoreInv, TypeOK
        <4> QED
          BY <2>3, <4>2
      <3>2. shown' = shown
        BY <2>3 DEF PeerPosts, pageVars
      <3> QED
        BY <1>2, <3>1, <3>2 DEF Late
    <2> QED
      BY <1>3, <2>2, <2>3, ServerGains
  <1>4. ASSUME NEW j \in inits, LoadMessages(j) PROVE MissedAreLate'
    <2>1. PICK o : /\ inits' = {o} /\ o.at = "loaded"
                   /\ \A m \in RowsOf(stored', route) : Beside(m, RowsIn(o.rows))
      BY <1>4, LoadsAll
    <2>2. Fetched(route)' = {} /\ server' = server
      BY <1>4, LoadsAll DEF LoadMessages
    <2>3. ASSUME NEW m \in RowsOf(server', route), m.text = 0
          PROVE  (m \in stored' /\ Beside(m, RowsIn(o.rows))) \/ Passed(m)'
      <3>1. CASE m \in stored'
        BY <2>1, <3>1 DEF RowsOf
      <3>2. CASE m \notin stored'
        <4>1. PICK n \in RowsOf(stored', route) : ~(n.ts < m.ts)
          BY <1>1, <2>2, <2>3 DEF Fetched, RowsOf
        <4>2. n.ts \in Nat /\ m.ts \in Nat
          BY <2>2, StoreTyped, BeforeFacts DEF RowsOf, TypeOK, Row
        <4>3. n.ts >= m.ts
          BY <4>1, <4>2
        <4> QED
          BY <1>2, <3>2, <4>3 DEF Passed
      <3> QED
        BY <3>1, <3>2
    <2> QED
      BY <1>1, <2>1, <2>3 DEF MissedAreLate, RowsOf, Beside, RowsIn
  <1>5. CASE inits' = inits /\ \A i \in inits : ~ShowLoaded(i)
    BY <1>1, <1>3, <1>5 DEF MissedAreLate, RowsOf, Beside, RowsIn
  <1>6. ASSUME NEW j \in inits, NEW at, at # "loaded", NEW q, NextInit(j, at, q)
        PROVE  MissedAreLate'
    <2>1. \E o : inits' = {o} /\ o.at = at
      BY <1>6, OneGoesOn, BeforeFacts
    <2> QED
      BY <1>6, <2>1 DEF MissedAreLate
  <1>7. ASSUME NEW j \in inits, InitRead(j) PROVE MissedAreLate'
    <2>1. inits' = {}
      BY <1>7, BeforeFacts DEF InitRead, Ends, InitsAgree
    <2> QED
      BY <2>1 DEF MissedAreLate
  <1>8. ASSUME NEW j \in inits, ShowLoaded(j) PROVE MissedAreLate'
    BY <1>6, <1>8 DEF ShowLoaded
  <1>9. ASSUME NEW j \in inits, DirectProfiles(j) \/ OpenDm(j) \/ GroupInfo(j)
        PROVE  MissedAreLate'
    BY <1>6, <1>9, BeforeFacts DEF DirectProfiles, OpenDm, GroupInfo
  <1> QED
    BY <1>4, <1>5, <1>7, <1>8, <1>9, PageChanges, BeforeFacts

PageInv == AgreeInv /\ (Undisturbed => Surfacing)

LEMMA PageStep ==
    PageInv /\ [Next]_vars => PageInv'
  <1>1. ASSUME PageInv, Next PROVE PageInv'
    <2>1. AgreeInv'
      BY <1>1, AgreeInvStep DEF PageInv
    <2> SUFFICES ASSUME Undisturbed' PROVE Surfacing'
      BY <2>1 DEF PageInv
    <2>2. ~disturbed
      BY <1>1, StaysDisturbed DEF PageInv, AgreeInv, ComposerInv, Undisturbed
    <2>3. ASSUME NEW c \in Conversations, Open(c) PROVE Surfacing'
      <3>1. inits' = {Run(c)}
        BY <1>1, <2>3, OpenAgrees DEF PageInv, AgreeInv, ComposerInv
      <3>2. Run(c).at = "profiles"
        BY DEF Run
      <3>3. Waits'
        BY <3>1, <3>2 DEF Waits, ToLoad
      <3> QED
        BY <3>1, <3>2, <3>3 DEF Surfacing, FetchComes, MissedAreLate, Comes
    <2>4. CASE \A c \in Conversations : ~Open(c)
      <3>1. UNCHANGED route
        BY <1>1, <2>4, PageChanges DEF Undisturbed, Leave
      <3>2. Before
        BY <1>1, <2>2, <2>4, <3>1 DEF Before, PageInv, AgreeInv, ComposerInv, Undisturbed, TypeOK
      <3>3. ~misled' => \A m \in RowsOf(stored', route) : m.text = 0 => Comes(m)'
        BY <3>2, ComesStep
      <3> QED
        BY <3>1, <3>2, <3>3, FetchComesStep, MissedStep DEF Surfacing, RowsOf
    <2> QED
      BY <2>3, <2>4
  <1>2. ASSUME PageInv, UNCHANGED vars PROVE PageInv'
    <2>1. UNCHANGED <<pageVars, runVars, storeVars, frames, disturbed, misled>>
      BY <1>2 DEF vars, stampVars
    <2>2. UNCHANGED <<route, shown, inits, pushes, stored, server>>
      BY <2>1 DEF pageVars, runVars, storeVars
    <2>3. Surfacing => Surfacing'
      BY <2>1, <2>2 DEF Surfacing, FetchComes, MissedAreLate, Comes, Waits, ToLoad, Late, Passed,
         Fetched, RowsOf, RowsIn, Beside
    <2> QED
      BY <1>2, <2>1, <2>2, <2>3, AgreeInvStep DEF PageInv, Undisturbed
  <1> QED
    BY <1>1, <1>2

\* Once it is at rest, a page hides no stored row newer than all it shows, if no call
\* failed, no run met one for another conversation, no list replaced rows newer than it,
\* and its last ask for new rows was not after a stamp ahead of the server's time.
THEOREM NothingNewerIsHiddenCorrect ==
    Spec => []NothingNewerIsHidden
  <1>1. Init => PageInv
    BY AgreeInvInit DEF PageInv, Undisturbed, Init
  <1>2. PageInv => NothingNewerIsHidden
    <2> SUFFICES ASSUME PageInv, route # None, Idle, route \notin frames, ~disturbed, ~misled,
                        NEW m \in RowsOf(stored, route), m.text = 0
                 PROVE  m \in RowsIn(shown) \/ \E n \in RowsIn(shown) : n.ts > m.ts
      BY DEF NothingNewerIsHidden
    <2>1. Comes(m)
      BY DEF PageInv, Undisturbed, Surfacing
    <2>2. inits = {} /\ pushes = {}
      BY DEF Idle, IdleBut
    <2>3. Beside(m, RowsIn(shown))
      BY <2>1, <2>2 DEF Comes, Waits, ToLoad
    <2> QED
      BY <2>3 DEF Beside
  <1> QED
    BY <1>1, <1>2, PageStep, PTL DEF Spec
=============================================================================

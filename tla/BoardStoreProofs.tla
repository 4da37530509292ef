-------------------------- MODULE BoardStoreProofs --------------------------
(***************************************************************************)
(* Proofs about the board store, for every capacity, lifetime, cooldown,   *)
(* clock behaviour and set of tokens, message IDs and generations.         *)
(*                                                                         *)
(* The invariants of BoardStore are not inductive one by one: that a token *)
(* has one record rests on its cooldown row outliving the record           *)
(* (CooldownOutlivesRecord), that an ID is accepted once on the tombstones *)
(* being the IDs of the accepted posts (SeenArePosted), that the board is  *)
(* the newest posts on an account of every post it no longer has           *)
(* (NewestInv).                                                            *)
(***************************************************************************)
EXTENDS BoardStore, FiniteSetTheorems, TLAPS

\* The row that refuses a token's next post is kept at least as long as the
\* token's record.
CooldownOutlivesRecord == \A m \in messages : ExpiresAt(m) <= cooldowns[m.token]

\* The tombstones are the IDs of the accepted posts.
SeenArePosted == seenIds = Ids(posts)

\* Every accepted post lies in the past, and its cooldown is over or still
\* recorded.
PostsCool ==
    \A p \in posts :
        /\ p.created <= now
        /\ \/ p.created + Cooldown <= now
           \/ p.created + Cooldown <= cooldowns[p.token]

-----------------------------------------------------------------------------

\* Initial states and steps keep the tables typed.
LEMMA InitTypeOK == Init => TypeOK
  <1> SUFFICES ASSUME Init PROVE TypeOK
    OBVIOUS
  <1>1. posts \subseteq Record
    BY DEF Init, NewRecord, Record
  <1>2. cooldowns \in [Token -> Nat]
    BY StoreAssumption DEF Init
  <1>3. seenIds \subseteq MessageId
    BY <1>1 DEF Init, Ids, Record
  <1> QED
    BY <1>1, <1>2, <1>3 DEF Init, TypeOK

\* What the expiry cleanup leaves is typed.
LEMMA CleanupType ==
    ASSUME TypeOK
    PROVE  /\ Unexpired \subseteq messages
           /\ Unexpired \subseteq Record
           /\ LiveCooldowns \in [Token -> Nat]
           /\ \A t \in Token : /\ LiveCooldowns[t] = cooldowns[t] \/ LiveCooldowns[t] = 0
                               /\ LiveCooldowns[t] = 0 => cooldowns[t] <= now
                               /\ cooldowns[t] > now => LiveCooldowns[t] = cooldowns[t]
  <1>1. \A t \in Token : cooldowns[t] \in Nat /\ now \in Nat
    BY DEF TypeOK
  <1>2. \A t \in Token :
           LiveCooldowns[t] = IF cooldowns[t] <= now THEN 0 ELSE cooldowns[t]
    BY DEF LiveCooldowns
  <1>3. LiveCooldowns \in [Token -> Nat]
    BY <1>1 DEF LiveCooldowns
  <1>4. Unexpired \subseteq messages /\ Unexpired \subseteq Record
    BY DEF Unexpired, TypeOK
  <1> QED
    BY <1>1, <1>2, <1>3, <1>4

\* Every step keeps the tables typed.
LEMMA NextTypeOK == TypeOK /\ [Next]_storeVars => TypeOK'
  <1> SUFFICES ASSUME TypeOK, [Next]_storeVars PROVE TypeOK'
    OBVIOUS
  <1>1. ASSUME NEW id \in MessageId, NEW t \in Token, PostDuplicate(id, t)
        PROVE  TypeOK'
    BY <1>1, CleanupType DEF PostDuplicate, Cleanup, TypeOK
  <1>2. ASSUME NEW id \in MessageId, NEW t \in Token, PostRefused(id, t)
        PROVE  TypeOK'
    BY <1>2, CleanupType DEF PostRefused, Cleanup, TypeOK
  <1>3. ASSUME NEW id \in MessageId, NEW t \in Token, PostAccepted(id, t)
        PROVE  TypeOK'
    <2>1. NewRecord(id, t) \in Record
      BY DEF NewRecord, Record, TypeOK
    <2>2. messages' \subseteq Record
      BY <1>3, <2>1, CleanupType DEF PostAccepted
    <2>3. cooldowns' \in [Token -> Nat]
      BY <1>3, CleanupType, StoreAssumption DEF PostAccepted, TypeOK
    <2>4. posts' \subseteq Record
      BY <1>3, <2>1 DEF PostAccepted, TypeOK
    <2> QED
      BY <1>3, <2>2, <2>3, <2>4 DEF PostAccepted, TypeOK
  <1>4. CASE CleanUp
    BY <1>4, CleanupType DEF CleanUp, Cleanup, TypeOK
  <1>5. ASSUME NEW g \in Generation, BindGeneration(g) PROVE TypeOK'
    BY <1>5 DEF BindGeneration, NoCooldowns, TypeOK
  <1>6. CASE ClockTick
    BY <1>6 DEF ClockTick, TypeOK
  <1>7. CASE ClockSetBack
    <2>1. now' \in Nat
      BY <1>7 DEF ClockSetBack, TypeOK
    <2>2. steady' \in BOOLEAN /\ UNCHANGED <<messages, seenIds, cooldowns, generation, posts>>
      BY <1>7, Zenon DEF ClockSetBack
    <2> QED
      BY <2>1, <2>2 DEF TypeOK
  <1>8. CASE UNCHANGED storeVars
    BY <1>8 DEF storeVars, TypeOK
  <1> QED
    BY <1>1, <1>2, <1>3, <1>4, <1>5, <1>6, <1>7, <1>8 DEF Next, Post

\* Whatever the sequence of calls, rotations and restarts, the tables hold
\* rows of the schema's types (hub.py 385-421).
THEOREM TypeCorrect == Spec => []TypeOK
  <1> QED
    BY InitTypeOK, NextTypeOK, PTL DEF Spec

-----------------------------------------------------------------------------

\* The capacity trim of an accepted post keeps the bound: above it one row,
\* the oldest, is deleted.
LEMMA TrimWithinCapacity ==
    ASSUME NEW S, IsFiniteSet(S), Cardinality(S) <= Capacity, NEW r,
           NEW gone \in Evictions(S \cup {r})
    PROVE  /\ IsFiniteSet((S \cup {r}) \ gone)
           /\ Cardinality((S \cup {r}) \ gone) <= Capacity
  <1> DEFINE T == S \cup {r}
  <1>1. /\ IsFiniteSet(T)
        /\ Cardinality(T) \in Nat
        /\ Cardinality(T) <= Capacity + 1
    <2>1. IsFiniteSet(T) /\ Cardinality(T) \in {Cardinality(S), Cardinality(S) + 1}
      BY FS_AddElement
    <2>2. Cardinality(S) \in Nat
      BY FS_CardinalityType
    <2> QED
      BY <2>1, <2>2, StoreAssumption
  <1>2. CASE Cardinality(T) > Capacity
    <2>1. PICK m \in Oldest(T) : gone = {m}
      BY <1>2 DEF Evictions
    <2>2. m \in T
      BY <2>1 DEF Oldest
    <2>3. IsFiniteSet(T \ {m}) /\ Cardinality(T \ {m}) = Cardinality(T) - 1
      BY <1>1, <2>2, FS_RemoveElement
    <2> QED
      BY <1>1, <2>1, <2>3, StoreAssumption
  <1>3. CASE ~(Cardinality(T) > Capacity)
    <2>1. gone = {}
      BY <1>3 DEF Evictions
    <2>2. T \ gone = T
      BY <2>1
    <2> QED
      BY <1>1, <1>3, <2>2, StoreAssumption
  <1> QED
    BY <1>2, <1>3

\* The cleanup only deletes rows.
LEMMA CleanupWithinCapacity ==
    ASSUME WithinCapacity
    PROVE  IsFiniteSet(Unexpired) /\ Cardinality(Unexpired) <= Capacity
  <1>1. Unexpired \in SUBSET messages
    BY DEF Unexpired
  <1>2. Cardinality(messages) \in Nat /\ Cardinality(Unexpired) \in Nat
    BY <1>1, FS_Subset, FS_CardinalityType DEF WithinCapacity
  <1> QED
    BY <1>1, <1>2, FS_Subset, StoreAssumption DEF WithinCapacity

\* Every step keeps the board within the capacity.
LEMMA NextWithinCapacity == WithinCapacity /\ [Next]_storeVars => WithinCapacity'
  <1> SUFFICES ASSUME WithinCapacity, [Next]_storeVars PROVE WithinCapacity'
    OBVIOUS
  <1>1. ASSUME messages' = Unexpired PROVE WithinCapacity'
    BY <1>1, CleanupWithinCapacity DEF WithinCapacity
  <1>2. ASSUME NEW id \in MessageId, NEW t \in Token, PostAccepted(id, t)
        PROVE  WithinCapacity'
    <2>1. PICK gone \in Evictions(Unexpired \cup {NewRecord(id, t)}) :
             messages' = (Unexpired \cup {NewRecord(id, t)}) \ gone
      BY <1>2 DEF PostAccepted
    <2>2. IsFiniteSet(Unexpired) /\ Cardinality(Unexpired) <= Capacity
      BY CleanupWithinCapacity
    <2> QED
      BY <2>1, <2>2, TrimWithinCapacity DEF WithinCapacity
  <1>3. ASSUME NEW g \in Generation, BindGeneration(g) PROVE WithinCapacity'
    <2>1. messages' = {} \/ messages' = messages
      BY <1>3 DEF BindGeneration
    <2> QED
      BY <2>1, FS_EmptySet, StoreAssumption DEF WithinCapacity
  <1>4. ASSUME messages' = messages PROVE WithinCapacity'
    BY <1>4 DEF WithinCapacity
  <1> QED
    BY <1>1, <1>2, <1>3, <1>4
    DEF Next, Post, PostDuplicate, PostRefused, CleanUp, Cleanup,
        ClockTick, ClockSetBack, storeVars

\* However posts, expiries, rotations and clock changes interleave, the board
\* never exceeds BOARD_CAPACITY (hub.py 573-591).
THEOREM CapacityHolds == Spec => []WithinCapacity
  <1>1. Init => WithinCapacity
    <2> SUFFICES ASSUME Init PROVE WithinCapacity
      OBVIOUS
    <2>1. messages = {} \/ \E x : messages = {x}
      BY DEF Init
    <2>2. CASE messages = {}
      BY <2>2, FS_EmptySet, StoreAssumption DEF WithinCapacity
    <2>3. ASSUME NEW x, messages = {x} PROVE WithinCapacity
      <3>1. IsFiniteSet({x}) /\ Cardinality({x}) = 1
        BY FS_Singleton
      <3> QED
        BY <2>3, <3>1, StoreAssumption DEF WithinCapacity
    <2> QED
      BY <2>1, <2>2, <2>3
  <1> QED
    BY <1>1, NextWithinCapacity, PTL DEF Spec

-----------------------------------------------------------------------------

\* The strengthening that makes "one record per token" and "accepted once"
\* inductive: rows are accepted posts, tombstones are their IDs, and a
\* record's cooldown row outlives it.
RowsInv ==
    /\ TypeOK
    /\ messages \subseteq posts
    /\ SeenArePosted
    /\ AcceptedOnce
    /\ CooldownOutlivesRecord
    /\ OneRecordPerToken
    /\ CooldownIsEarned

\* A fresh or unbound database satisfies the invariant of the rows.
LEMMA InitRowsInv == Init => RowsInv
  <1> SUFFICES ASSUME Init PROVE RowsInv
    OBVIOUS
  <1>1. \A p, q \in posts : p = q
    BY DEF Init
  <1>2. \A p \in posts : p.created = 0 /\ p.token \in Token
    BY DEF Init, NewRecord
  <1>3. CooldownOutlivesRecord
    <2>1. \A m \in messages : ExpiresAt(m) = Lifetime /\ cooldowns[m.token] = Cooldown
      BY <1>2, StoreAssumption DEF Init, ExpiresAt
    <2> QED
      BY <2>1, LifetimeWithinCooldown DEF CooldownOutlivesRecord
  <1>4. CooldownIsEarned
    BY <1>2, StoreAssumption DEF Init, CooldownIsEarned
  <1> QED
    BY <1>1, <1>3, <1>4, InitTypeOK
    DEF RowsInv, Init, SeenArePosted, AcceptedOnce, OneRecordPerToken

\* A transaction that only cleans up, possibly rewriting no cooldown row but
\* expired ones, keeps the invariant.
LEMMA CleanupRowsInv ==
    ASSUME RowsInv, TypeOK', Cleanup, UNCHANGED <<seenIds, posts>>
    PROVE  RowsInv'
  <1>1. messages' \subseteq messages
    BY DEF Cleanup, Unexpired
  <1>2. CooldownOutlivesRecord'
    <2> SUFFICES ASSUME NEW m \in messages' PROVE ExpiresAt(m) <= cooldowns'[m.token]
      BY DEF CooldownOutlivesRecord, ExpiresAt
    <2>1. m \in messages /\ m \in Record /\ ~(ExpiresAt(m) <= now)
      BY DEF Cleanup, Unexpired, Expired, RowsInv, TypeOK
    <2>2. ExpiresAt(m) <= cooldowns[m.token] /\ m.token \in Token
      BY <2>1 DEF RowsInv, CooldownOutlivesRecord, Record
    <2>3. cooldowns[m.token] > now
      BY <2>1, <2>2, StoreAssumption DEF ExpiresAt, Record, RowsInv, TypeOK
    <2> QED
      BY <2>2, <2>3, CleanupType DEF Cleanup, RowsInv
  <1>3. CooldownIsEarned'
    <2> SUFFICES ASSUME NEW t \in Token, cooldowns'[t] # 0
                 PROVE  \E p \in posts : p.token = t /\ p.created + Cooldown = cooldowns'[t]
      BY DEF CooldownIsEarned
    <2>1. cooldowns'[t] = cooldowns[t]
      BY CleanupType DEF Cleanup, RowsInv
    <2> QED
      BY <2>1 DEF RowsInv, CooldownIsEarned
  <1> QED
    BY <1>1, <1>2, <1>3 DEF RowsInv, SeenArePosted, AcceptedOnce, OneRecordPerToken

\* An accepted post finds no unexpired record of its token: the cooldown row
\* that has ended outlived every record of the token.
LEMMA AcceptedRowsInv ==
    ASSUME RowsInv, TypeOK', NEW id \in MessageId, NEW t \in Token, PostAccepted(id, t)
    PROVE  RowsInv'
  <1> DEFINE r == NewRecord(id, t)
  <1>1. /\ messages' \subseteq Unexpired \cup {r}
        /\ Unexpired \subseteq messages
        /\ posts' = posts \cup {r}
        /\ seenIds' = seenIds \cup {id}
        /\ cooldowns' = [LiveCooldowns EXCEPT ![t] = now + Cooldown]
    BY DEF PostAccepted, Unexpired
  <1>2. r.id = id /\ r.token = t /\ r.created = now
    BY DEF NewRecord
  <1>3. LiveCooldowns \in [Token -> Nat] /\ now \in Nat
    BY CleanupType DEF RowsInv, TypeOK
  <1>4. \A m \in Unexpired : m.token # t
    <2> SUFFICES ASSUME NEW m \in Unexpired, m.token = t PROVE FALSE
      OBVIOUS
    <2>1. m \in messages /\ m \in Record /\ ~(ExpiresAt(m) <= now)
      BY DEF Unexpired, Expired, RowsInv, TypeOK
    <2>2. ExpiresAt(m) <= cooldowns[t] /\ cooldowns[t] \in Nat /\ ExpiresAt(m) \in Nat
      BY <2>1, StoreAssumption DEF RowsInv, TypeOK, CooldownOutlivesRecord, ExpiresAt, Record
    <2>3. LiveCooldowns[t] = cooldowns[t]
      BY <1>3, <2>1, <2>2, CleanupType DEF RowsInv
    <2> QED
      BY <1>3, <2>1, <2>2, <2>3 DEF PostAccepted
  <1>5. (messages \subseteq posts)'
    BY <1>1 DEF RowsInv
  <1>6. SeenArePosted'
    BY <1>1, <1>2 DEF RowsInv, SeenArePosted, Ids
  <1>7. AcceptedOnce'
    <2>1. \A p \in posts : p.id # id
      BY DEF PostAccepted, AlreadySeen, RowsInv, SeenArePosted, Ids
    <2> QED
      BY <1>1, <1>2, <2>1 DEF RowsInv, AcceptedOnce
  <1>8. CooldownOutlivesRecord'
    <2> SUFFICES ASSUME NEW m \in messages' PROVE ExpiresAt(m) <= cooldowns'[m.token]
      BY DEF CooldownOutlivesRecord, ExpiresAt
    <2>1. CASE m = r
      <3>1. cooldowns'[m.token] = now + Cooldown /\ ExpiresAt(m) = now + Lifetime
        BY <1>1, <1>2, <1>3, <2>1 DEF ExpiresAt
      <3> QED
        BY <1>3, <3>1, StoreAssumption, LifetimeWithinCooldown
    <2>2. CASE m # r
      <3>1. m \in Unexpired /\ m \in messages /\ m \in Record /\ ~(ExpiresAt(m) <= now)
        BY <1>1, <2>2 DEF Unexpired, Expired, RowsInv, TypeOK
      <3>2. m.token \in Token /\ m.token # t
        BY <1>4, <3>1 DEF Record
      <3>3. ExpiresAt(m) <= cooldowns[m.token] /\ cooldowns[m.token] > now
        BY <3>1, <3>2, StoreAssumption
        DEF RowsInv, TypeOK, CooldownOutlivesRecord, ExpiresAt, Record
      <3>4. cooldowns'[m.token] = cooldowns[m.token]
        BY <1>1, <1>3, <3>2, <3>3, CleanupType DEF RowsInv
      <3> QED
        BY <3>3, <3>4
    <2> QED
      BY <2>1, <2>2
  <1>9. OneRecordPerToken'
    BY <1>1, <1>2, <1>4 DEF RowsInv, OneRecordPerToken
  <1>10. CooldownIsEarned'
    <2> SUFFICES ASSUME NEW u \in Token, cooldowns'[u] # 0
                 PROVE  \E p \in posts' : p.token = u /\ p.created + Cooldown = cooldowns'[u]
      BY DEF CooldownIsEarned
    <2>1. CASE u = t
      BY <1>1, <1>2, <1>3, <2>1
    <2>2. CASE u # t
      <3>1. cooldowns'[u] = cooldowns[u]
        BY <1>1, <1>3, <2>2, CleanupType DEF RowsInv
      <3> QED
        BY <1>1, <3>1 DEF RowsInv, CooldownIsEarned
    <2> QED
      BY <2>1, <2>2
  <1> QED
    BY <1>5, <1>6, <1>7, <1>8, <1>9, <1>10 DEF RowsInv

\* Every step keeps the invariant of the rows.
LEMMA NextRowsInv == RowsInv /\ [Next]_storeVars => RowsInv'
  <1> SUFFICES ASSUME RowsInv, [Next]_storeVars PROVE RowsInv'
    OBVIOUS
  <1>1. TypeOK'
    BY NextTypeOK DEF RowsInv
  <1>2. ASSUME Cleanup, UNCHANGED <<seenIds, posts>> PROVE RowsInv'
    BY <1>1, <1>2, CleanupRowsInv
  <1>3. ASSUME NEW id \in MessageId, NEW t \in Token, PostAccepted(id, t)
        PROVE  RowsInv'
    BY <1>1, <1>3, AcceptedRowsInv
  <1>4. ASSUME UNCHANGED <<messages, cooldowns, seenIds, posts>> PROVE RowsInv'
    BY <1>1, <1>4
    DEF RowsInv, SeenArePosted, AcceptedOnce, CooldownOutlivesRecord, ExpiresAt,
        OneRecordPerToken, CooldownIsEarned
  <1>5. ASSUME messages' = {}, seenIds' = {}, posts' = {}, cooldowns' = NoCooldowns
        PROVE  RowsInv'
    BY <1>1, <1>5
    DEF RowsInv, SeenArePosted, AcceptedOnce, CooldownOutlivesRecord,
        OneRecordPerToken, CooldownIsEarned, NoCooldowns, Ids
  <1>6. ASSUME NEW g \in Generation, BindGeneration(g) PROVE RowsInv'
    BY <1>4, <1>5, <1>6 DEF BindGeneration
  <1> QED
    BY <1>2, <1>3, <1>4, <1>6
    DEF Next, Post, PostDuplicate, PostRefused, CleanUp, ClockTick,
        ClockSetBack, storeVars

\* The invariant of the rows holds in every reachable state (hub.py 345-669).
LEMMA RowsInvHolds == Spec => []RowsInv
  <1> QED
    BY InitRowsInv, NextRowsInv, PTL DEF Spec

\* No display ID ever has two records on the board, even when the clock is set
\* back (hub.py 531-542 with 632-646).
THEOREM OneRecordHolds == Spec => []OneRecordPerToken
  <1>1. RowsInv => OneRecordPerToken
    BY DEF RowsInv
  <1> QED
    BY <1>1, RowsInvHolds, PTL

\* A message ID is accepted at most once per access generation (hub.py 523-529,
\* 544-547).
THEOREM AcceptedOnceHolds == Spec => []AcceptedOnce
  <1>1. RowsInv => AcceptedOnce
    BY DEF RowsInv
  <1> QED
    BY <1>1, RowsInvHolds, PTL

\* A display ID is refused only because of its own accepted post (hub.py
\* 531-542, 562-571).
THEOREM CooldownEarnedHolds == Spec => []CooldownIsEarned
  <1>1. RowsInv => CooldownIsEarned
    BY DEF RowsInv
  <1> QED
    BY <1>1, RowsInvHolds, PTL

-----------------------------------------------------------------------------

\* What makes the spacing of a token's posts inductive while the clock only
\* moves on.
SpacingInv == TypeOK /\ PostsCool /\ PostsAreSpaced

SteadyInv == TypeOK /\ (steady => SpacingInv)

\* A fresh or unbound database satisfies the invariant of the spacing.
LEMMA InitSpacingInv == Init => SpacingInv
  <1> SUFFICES ASSUME Init PROVE SpacingInv
    OBVIOUS
  <1>1. PostsCool
    <2> SUFFICES ASSUME NEW p \in posts
                 PROVE  p.created <= now /\ p.created + Cooldown <= cooldowns[p.token]
      BY DEF PostsCool
    <2>1. p.created = 0 /\ now = 0 /\ p.token \in Token
      BY DEF Init, NewRecord
    <2>2. cooldowns[p.token] = Cooldown
      BY <2>1 DEF Init
    <2> QED
      BY <2>1, <2>2, StoreAssumption
  <1> QED
    BY <1>1, InitTypeOK DEF SpacingInv, PostsAreSpaced, Init

\* Every step keeps it, unless the clock is or was set back.
LEMMA NextSpacingInv ==
    ASSUME steady, steady', SpacingInv, [Next]_storeVars
    PROVE  SpacingInv'
  <1>1. TypeOK'
    BY NextTypeOK DEF SpacingInv
  <1>2. ASSUME UNCHANGED posts, now' \in Nat, now <= now',
               \A t \in Token : cooldowns'[t] = cooldowns[t] \/ cooldowns[t] <= now
        PROVE  SpacingInv'
    <2>1. PostsCool'
      <3> SUFFICES ASSUME NEW p \in posts
                   PROVE  /\ p.created <= now'
                          /\ \/ p.created + Cooldown <= now'
                             \/ p.created + Cooldown <= cooldowns'[p.token]
        BY <1>2 DEF PostsCool
      <3>1. p.token \in Token /\ p.created \in Nat /\ now \in Nat /\ cooldowns[p.token] \in Nat
        BY DEF SpacingInv, TypeOK, Record
      <3> QED
        BY <1>2, <3>1, StoreAssumption DEF SpacingInv, PostsCool
    <2> QED
      BY <1>1, <1>2, <2>1 DEF SpacingInv, PostsAreSpaced
  <1>3. ASSUME Cleanup, UNCHANGED <<now, posts>> PROVE SpacingInv'
    BY <1>2, <1>3, CleanupType DEF Cleanup, SpacingInv, TypeOK
  <1>4. ASSUME NEW id \in MessageId, NEW t \in Token, PostAccepted(id, t)
        PROVE  SpacingInv'
    <2> DEFINE r == NewRecord(id, t)
    <2>1. /\ posts' = posts \cup {r}
          /\ now' = now
          /\ cooldowns' = [LiveCooldowns EXCEPT ![t] = now + Cooldown]
          /\ LiveCooldowns[t] <= now
      BY <1>4 DEF PostAccepted
    <2>2. r.token = t /\ r.created = now /\ now \in Nat
      BY DEF NewRecord, SpacingInv, TypeOK
    <2>3. LiveCooldowns \in [Token -> Nat]
      BY CleanupType DEF SpacingInv
    <2>4. \A p \in posts : p.token \in Token /\ p.created \in Nat /\ cooldowns[p.token] \in Nat
      BY DEF SpacingInv, TypeOK, Record
    <2>5. \A p \in posts : p.token = t => p.created + Cooldown <= now
      <3> SUFFICES ASSUME NEW p \in posts, p.token = t PROVE p.created + Cooldown <= now
        OBVIOUS
      <3>1. cooldowns[t] <= now
        BY <2>1, <2>2, <2>3, <2>4, CleanupType DEF SpacingInv
      <3> QED
        BY <2>2, <2>4, <3>1, StoreAssumption DEF SpacingInv, PostsCool
    <2>6. PostsCool'
      <3> SUFFICES ASSUME NEW p \in posts'
                   PROVE  /\ p.created <= now
                          /\ \/ p.created + Cooldown <= now
                             \/ p.created + Cooldown <= cooldowns'[p.token]
        BY <2>1 DEF PostsCool
      <3>1. CASE p = r
        BY <2>1, <2>2, <2>3, <3>1, StoreAssumption
      <3>2. CASE p \in posts /\ p.token = t
        BY <2>5, <3>2 DEF SpacingInv, PostsCool
      <3>3. CASE p \in posts /\ p.token # t
        <4>1. cooldowns'[p.token] = LiveCooldowns[p.token] /\ p.token \in Token
          BY <2>1, <2>3, <2>4, <3>3
        <4>2. LiveCooldowns[p.token] = cooldowns[p.token] \/ cooldowns[p.token] <= now
          BY <4>1, CleanupType DEF SpacingInv
        <4> QED
          BY <2>2, <2>4, <3>3, <4>1, <4>2, StoreAssumption DEF SpacingInv, PostsCool
      <3> QED
        BY <2>1, <3>1, <3>2, <3>3
    <2>7. PostsAreSpaced'
      BY <2>1, <2>2, <2>5 DEF SpacingInv, PostsAreSpaced
    <2> QED
      BY <1>1, <2>6, <2>7 DEF SpacingInv
  <1>5. ASSUME NEW g \in Generation, BindGeneration(g) PROVE SpacingInv'
    <2>1. CASE MustClear(g)
      BY <1>1, <1>5, <2>1 DEF BindGeneration, SpacingInv, PostsCool, PostsAreSpaced
    <2>2. CASE ~MustClear(g)
      BY <1>2, <1>5, <2>2 DEF BindGeneration, SpacingInv, TypeOK
    <2> QED
      BY <2>1, <2>2
  <1>6. CASE ClockTick
    BY <1>2, <1>6 DEF ClockTick, SpacingInv, TypeOK
  <1>7. CASE UNCHANGED storeVars
    BY <1>2, <1>7 DEF storeVars, SpacingInv, TypeOK
  <1> QED
    BY <1>3, <1>4, <1>5, <1>6, <1>7
    DEF Next, Post, PostDuplicate, PostRefused, CleanUp, ClockSetBack

\* Nothing makes the clock's history steady again.
LEMMA OnlySetBackUnsteadies ==
    ASSUME [Next]_storeVars
    PROVE  steady' => steady
  BY DEF Next, Post, PostDuplicate, PostRefused, PostAccepted, CleanUp, BindGeneration,
         ClockTick, ClockSetBack, storeVars

\* As long as the clock is not set back, two accepted posts of one display ID are at
\* least BOARD_COOLDOWN_SECONDS apart, whatever evictions, duplicates,
\* refusals and restarts come between them (hub.py 531-542, 562-571, 642-645).
THEOREM SpacingHolds == Spec => []PostsAreSpaced
  <1>1. Init => SteadyInv
    BY InitSpacingInv DEF SteadyInv, SpacingInv
  <1>2. ASSUME SteadyInv, [Next]_storeVars PROVE SteadyInv'
    <2>1. TypeOK'
      BY <1>2, NextTypeOK DEF SteadyInv
    <2>2. steady' => steady
      BY <1>2, OnlySetBackUnsteadies
    <2>3. ASSUME steady' PROVE SpacingInv'
      BY <1>2, <2>2, <2>3, NextSpacingInv DEF SteadyInv
    <2> QED
      BY <2>1, <2>3 DEF SteadyInv
  <1>3. SteadyInv => PostsAreSpaced
    BY DEF SteadyInv, SpacingInv, PostsAreSpaced
  <1> QED
    BY <1>1, <1>2, <1>3, PTL DEF Spec

-----------------------------------------------------------------------------

\* The order of the board's rows is transitive and asymmetric, and total on
\* rows of different IDs.
LEMMA OlderOrders ==
    ASSUME NEW m \in Record, NEW n \in Record, NEW p \in Record
    PROVE  /\ Older(m, n) /\ Older(n, p) => Older(m, p)
           /\ Older(m, n) => ~Older(n, m) /\ m # n
           /\ m.id # n.id => Older(m, n) \/ Older(n, m)
           /\ Older(m, n) /\ ExpiresAt(m) > now /\ now \in Nat => ExpiresAt(n) > now
  <1>1. /\ m.id \in Nat /\ n.id \in Nat /\ p.id \in Nat
        /\ m.created \in Nat /\ n.created \in Nat /\ p.created \in Nat /\ Lifetime \in Nat
    BY StoreAssumption DEF Record
  <1>2. Older(m, n) /\ Older(n, p) => Older(m, p)
    BY <1>1 DEF Older
  <1>3. Older(m, n) => ~Older(n, m) /\ m # n
    BY <1>1 DEF Older
  <1>4. m.id # n.id => Older(m, n) \/ Older(n, m)
    BY <1>1 DEF Older
  <1>5. Older(m, n) /\ ExpiresAt(m) > now /\ now \in Nat => ExpiresAt(n) > now
    BY <1>1 DEF Older, ExpiresAt
  <1> QED
    BY <1>2, <1>3, <1>4, <1>5

\* A post that is missing from the board and has not expired is older than every
\* row, and the board is full.
MissingIsOldest ==
    \A p \in posts \ messages : ExpiresAt(p) > now =>
        /\ Cardinality(messages) = Capacity
        /\ \A m \in messages : Older(p, m)

PostsArePast == \A p \in posts : p.created <= now

\* What makes "the board is the newest posts" inductive while the clock only
\* moves on.
NewestInv ==
    /\ RowsInv /\ WithinCapacity
    /\ IsFiniteSet(posts)
    /\ steady => PostsArePast /\ MissingIsOldest

\* A fresh or unbound database satisfies the invariant of the newest posts.
LEMMA InitNewestInv == Init => NewestInv
  <1> SUFFICES ASSUME Init PROVE NewestInv
    OBVIOUS
  <1>1. messages = posts /\ (posts = {} \/ \E x : posts = {x})
    BY DEF Init
  <1>2. IsFiniteSet(posts) /\ Cardinality(posts) <= Capacity
    <2>1. CASE posts = {}
      BY <2>1, FS_EmptySet, StoreAssumption
    <2>2. ASSUME NEW x, posts = {x} PROVE IsFiniteSet(posts) /\ Cardinality(posts) <= Capacity
      <3>1. IsFiniteSet({x}) /\ Cardinality({x}) = 1
        BY FS_Singleton
      <3> QED
        BY <2>2, <3>1, StoreAssumption
    <2> QED
      BY <1>1, <2>1, <2>2
  <1>3. PostsArePast
    <2>1. \A p \in posts : p.created = 0 /\ now = 0
      BY DEF Init, NewRecord
    <2> QED
      BY <2>1 DEF PostsArePast
  <1> QED
    BY <1>1, <1>2, <1>3, InitRowsInv DEF NewestInv, WithinCapacity, MissingIsOldest

\* The cleanup removes rows that have expired, and none while an unexpired post
\* is missing.
LEMMA CleanupKeepsNewest ==
    ASSUME RowsInv, MissingIsOldest,
           NEW p \in posts \ Unexpired, ExpiresAt(p) > now
    PROVE  /\ p \notin messages
           /\ Unexpired = messages
           /\ Cardinality(messages) = Capacity
           /\ \A m \in messages : Older(p, m)
  <1>1. now \in Nat /\ messages \subseteq posts /\ posts \subseteq Record /\ p \in Record
    BY DEF RowsInv, TypeOK
  <1>2. ExpiresAt(p) \in Nat
    BY <1>1, StoreAssumption DEF ExpiresAt, Record
  <1>3. p \notin messages
    BY <1>1, <1>2 DEF Unexpired, Expired
  <1>4. Cardinality(messages) = Capacity /\ \A m \in messages : Older(p, m)
    BY <1>3 DEF MissingIsOldest
  <1>5. ASSUME NEW m \in messages PROVE m \in Unexpired
    <2>1. m \in Record /\ Older(p, m)
      BY <1>1, <1>4
    <2>2. ExpiresAt(m) > now
      BY <1>1, <2>1, OlderOrders
    <2>3. ExpiresAt(m) \in Nat
      BY <2>1, StoreAssumption DEF ExpiresAt, Record
    <2> QED
      BY <1>1, <2>2, <2>3 DEF Unexpired, Expired
  <1>6. Unexpired = messages
    BY <1>5 DEF Unexpired
  <1> QED
    BY <1>3, <1>4, <1>6

\* An accepted post either fits, or the oldest row is evicted: it is older than
\* all that stay, and so is every post that was missing before.
LEMMA AcceptedKeepsNewest ==
    ASSUME NewestInv, steady, NEW id \in MessageId, NEW t \in Token, PostAccepted(id, t)
    PROVE  PostsArePast' /\ MissingIsOldest'
  <1> DEFINE r == NewRecord(id, t)
             S == Unexpired \cup {r}
  <1>1. PICK gone \in Evictions(S) : messages' = S \ gone
    BY DEF PostAccepted
  <1>2. posts' = posts \cup {r} /\ now' = now
    BY DEF PostAccepted
  <1>3. r \in Record /\ r.created = now /\ r.id = id /\ now \in Nat
    BY DEF NewRecord, Record, NewestInv, RowsInv, TypeOK
  <1>4. messages \subseteq posts /\ posts \subseteq Record /\ Unexpired \subseteq messages
    BY DEF NewestInv, RowsInv, TypeOK, Unexpired
  <1>5. \A p \in posts : p.id # id
    BY DEF PostAccepted, AlreadySeen, NewestInv, RowsInv, SeenArePosted, Ids
  <1>6. r \notin posts /\ r \notin Unexpired
    BY <1>3, <1>4, <1>5
  <1>7. PostsArePast /\ MissingIsOldest /\ RowsInv
    BY DEF NewestInv
  <1>8. PostsArePast'
    BY <1>2, <1>3, <1>7 DEF PostsArePast
  <1>9. /\ IsFiniteSet(Unexpired) /\ Cardinality(Unexpired) \in Nat
        /\ Cardinality(Unexpired) <= Capacity
        /\ IsFiniteSet(S) /\ Cardinality(S) = Cardinality(Unexpired) + 1
    <2>1. IsFiniteSet(Unexpired) /\ Cardinality(Unexpired) <= Capacity
      BY CleanupWithinCapacity DEF NewestInv
    <2> QED
      BY <1>6, <2>1, FS_AddElement, FS_CardinalityType
  <1>10. gone = {} \/ \E e \in S : /\ gone = {e} /\ Cardinality(S) = Capacity + 1
                                  /\ \A n \in S \ {e} : Older(e, n)
    <2>1. Capacity \in Nat
      BY StoreAssumption
    <2>2. CASE Cardinality(S) > Capacity
      <3>1. PICK e \in Oldest(S) : gone = {e}
        BY <1>1, <2>2 DEF Evictions
      <3>2. e \in S /\ \A n \in S \ {e} : Older(e, n)
        BY <3>1 DEF Oldest
      <3>3. Cardinality(S) = Capacity + 1
        BY <1>9, <2>1, <2>2
      <3> QED
        BY <3>1, <3>2, <3>3
    <2>3. CASE ~(Cardinality(S) > Capacity)
      BY <1>1, <2>3 DEF Evictions
    <2> QED
      BY <2>2, <2>3
  <1> HIDE DEF r
  <1>11. ASSUME NEW p \in posts', p \notin messages', ExpiresAt(p) > now
         PROVE  Cardinality(messages') = Capacity /\ \A m \in messages' : Older(p, m)
    <2>1. CASE p \in gone
      <3>1. PICK e \in S : /\ gone = {e} /\ Cardinality(S) = Capacity + 1
                           /\ \A n \in S \ {e} : Older(e, n)
        BY <1>10, <2>1
      <3>2. messages' = S \ {e} /\ p = e
        BY <1>1, <2>1, <3>1
      <3>3. Cardinality(S \ {e}) = Cardinality(S) - 1
        BY <1>9, FS_RemoveElement
      <3>4. Cardinality(S) - 1 = Capacity
        BY <3>1, StoreAssumption
      <3> QED
        BY <3>1, <3>2, <3>3, <3>4
    <2>2. CASE p \notin gone
      <3>1. p \in posts /\ p \notin Unexpired
        BY <1>1, <1>2, <1>11, <2>2
      <3>2. /\ Unexpired = messages /\ Cardinality(messages) = Capacity
            /\ \A m \in messages : Older(p, m)
        BY <1>7, <1>11, <3>1, CleanupKeepsNewest
      <3>3. Cardinality(S) > Capacity
        BY <1>9, <3>2, StoreAssumption
      <3>4. PICK e \in Oldest(S) : gone = {e}
        BY <1>1, <3>3 DEF Evictions
      <3>5. e \in S /\ (\A n \in S \ {e} : Older(e, n)) /\ messages' = S \ {e}
        BY <1>1, <3>4 DEF Oldest
      <3>6. Cardinality(S \ {e}) = Cardinality(S) - 1
        BY <1>9, <3>5, FS_RemoveElement
      <3>7. Cardinality(messages') = Capacity
        BY <1>9, <3>2, <3>5, <3>6, StoreAssumption
      <3>8. ASSUME NEW m \in messages' PROVE Older(p, m)
        <4>1. CASE m \in messages
          BY <3>2, <4>1
        <4>2. CASE m \notin messages
          <5>1. m = r
            BY <3>2, <3>5, <4>2
          <5>2. e # r /\ e \in messages
            BY <3>2, <3>5, <3>8, <5>1
          <5>3. Older(p, e) /\ Older(e, r)
            BY <3>2, <3>5, <5>2
          <5>4. p \in Record /\ e \in Record
            BY <1>4, <3>1, <5>2
          <5> QED
            BY <1>3, <5>1, <5>3, <5>4, OlderOrders
        <4> QED
          BY <4>1, <4>2
      <3> QED
        BY <3>7, <3>8
    <2> QED
      BY <2>1, <2>2
  <1>12. MissingIsOldest'
    BY <1>2, <1>11 DEF MissingIsOldest, ExpiresAt
  <1> QED
    BY <1>8, <1>12

\* Every step keeps it, unless the clock is or was set back.
LEMMA NextNewestInv == NewestInv /\ [Next]_storeVars => NewestInv'
  <1> SUFFICES ASSUME NewestInv, [Next]_storeVars PROVE NewestInv'
    OBVIOUS
  <1>1. RowsInv' /\ WithinCapacity'
    BY NextRowsInv, NextWithinCapacity DEF NewestInv
  <1>2. IsFiniteSet(posts')
    <2>1. posts' = posts \/ posts' = {} \/ \E r : posts' = posts \cup {r}
      BY DEF Next, Post, PostDuplicate, PostRefused, PostAccepted, CleanUp, BindGeneration,
             ClockTick, ClockSetBack, storeVars
    <2>2. IsFiniteSet(posts)
      BY DEF NewestInv
    <2>3. ASSUME NEW r, posts' = posts \cup {r} PROVE IsFiniteSet(posts')
      BY <2>2, <2>3, FS_AddElement
    <2> QED
      BY <2>1, <2>2, <2>3, FS_EmptySet
  <1>3. now \in Nat /\ messages \subseteq posts /\ posts \subseteq Record
    BY DEF NewestInv, RowsInv, TypeOK
  <1>4. ASSUME steady' PROVE PostsArePast' /\ MissingIsOldest'
    <2>1. ASSUME Cleanup, UNCHANGED <<now, steady, posts>>
          PROVE  PostsArePast' /\ MissingIsOldest'
      <3>1. PostsArePast /\ MissingIsOldest /\ RowsInv
        BY <1>4, <2>1 DEF NewestInv
      <3>2. PostsArePast'
        BY <2>1, <3>1 DEF PostsArePast
      <3>3. ASSUME NEW p \in posts', p \notin messages', ExpiresAt(p) > now
            PROVE  Cardinality(messages') = Capacity /\ \A m \in messages' : Older(p, m)
        <4>1. messages' = Unexpired /\ p \in posts \ Unexpired
          BY <2>1, <3>3 DEF Cleanup
        <4> QED
          BY <3>1, <3>3, <4>1, CleanupKeepsNewest
      <3> QED
        BY <2>1, <3>2, <3>3 DEF MissingIsOldest, ExpiresAt
    <2>2. ASSUME NEW id \in MessageId, NEW t \in Token, PostAccepted(id, t)
          PROVE  PostsArePast' /\ MissingIsOldest'
      BY <1>4, <2>2, AcceptedKeepsNewest DEF PostAccepted
    <2>3. ASSUME NEW g \in Generation, BindGeneration(g)
          PROVE  PostsArePast' /\ MissingIsOldest'
      <3>1. CASE posts' = {}
        BY <3>1 DEF PostsArePast, MissingIsOldest
      <3>2. CASE UNCHANGED <<messages, posts>>
        BY <1>4, <2>3, <3>2
        DEF BindGeneration, NewestInv, PostsArePast, MissingIsOldest, ExpiresAt
      <3> QED
        BY <2>3, <3>1, <3>2 DEF BindGeneration
    <2>4. CASE ClockTick
      <3>1. now' = now + 1 /\ UNCHANGED <<messages, posts, steady>>
        BY <2>4 DEF ClockTick
      <3>2. \A p \in posts : p.created \in Nat /\ ExpiresAt(p) \in Nat
        BY <1>3, StoreAssumption DEF Record, ExpiresAt
      <3>3. PostsArePast /\ MissingIsOldest
        BY <1>4, <3>1 DEF NewestInv
      <3>4. PostsArePast'
        BY <1>3, <3>1, <3>2, <3>3 DEF PostsArePast
      <3>5. ASSUME NEW p \in posts \ messages, ExpiresAt(p) > now'
            PROVE  Cardinality(messages) = Capacity /\ \A m \in messages : Older(p, m)
        <4>1. ExpiresAt(p) > now
          BY <1>3, <3>1, <3>2, <3>5
        <4> QED
          BY <3>3, <4>1 DEF MissingIsOldest
      <3>6. MissingIsOldest'
        BY <3>1, <3>5 DEF MissingIsOldest, ExpiresAt
      <3> QED
        BY <3>4, <3>6
    <2>5. CASE ClockSetBack
      BY <1>4, <2>5 DEF ClockSetBack
    <2>6. CASE UNCHANGED storeVars
      BY <1>4, <2>6
      DEF storeVars, NewestInv, PostsArePast, MissingIsOldest, ExpiresAt
    <2> QED
      BY <2>1, <2>2, <2>3, <2>4, <2>5, <2>6 DEF Next, Post, PostDuplicate, PostRefused, CleanUp
  <1> QED
    BY <1>1, <1>2, <1>4 DEF NewestInv

\* The missing posts have a full board of newer ones; a row has only rows of the
\* board, and not itself, that are newer.
LEMMA NewestFollows == NewestInv => BoardIsNewestPosts
  <1> SUFFICES ASSUME NewestInv, steady PROVE Unexpired = NewestPosts
    BY DEF BoardIsNewestPosts
  <1> DEFINE Newer(p) == {q \in posts : Older(p, q)}
  <1>1. /\ now \in Nat /\ messages \subseteq posts /\ posts \subseteq Record
        /\ IsFiniteSet(posts) /\ MissingIsOldest /\ RowsInv
        /\ IsFiniteSet(messages) /\ Cardinality(messages) <= Capacity
        /\ Cardinality(messages) \in Nat /\ Capacity \in Nat
    BY FS_CardinalityType, StoreAssumption
    DEF NewestInv, RowsInv, TypeOK, WithinCapacity
  <1>2. \A p \in posts : ExpiresAt(p) \in Nat
    BY <1>1, StoreAssumption DEF Record, ExpiresAt
  <1>3. \A p \in posts : IsFiniteSet(Newer(p)) /\ Cardinality(Newer(p)) \in Nat
    <2> SUFFICES ASSUME NEW p \in posts
                 PROVE  IsFiniteSet(Newer(p)) /\ Cardinality(Newer(p)) \in Nat
      OBVIOUS
    <2>1. Newer(p) \in SUBSET posts
      OBVIOUS
    <2> QED
      BY <1>1, <2>1, FS_Subset, FS_CardinalityType
  <1>4. ASSUME NEW m \in Unexpired PROVE m \in NewestPosts
    <2>1. m \in messages /\ m \in posts /\ m \in Record /\ ExpiresAt(m) > now
      BY <1>1, <1>2 DEF Unexpired, Expired
    <2>2. Newer(m) \subseteq messages \ {m}
      <3> SUFFICES ASSUME NEW q \in posts, Older(m, q) PROVE q \in messages /\ q # m
        OBVIOUS
      <3>1. q \in Record /\ ExpiresAt(q) > now /\ ~Older(q, m) /\ q # m
        BY <1>1, <2>1, OlderOrders
      <3> QED
        BY <1>1, <2>1, <3>1 DEF MissingIsOldest
    <2>3. /\ IsFiniteSet(messages \ {m})
          /\ Cardinality(messages \ {m}) = Cardinality(messages) - 1
      BY <1>1, <2>1, FS_RemoveElement
    <2>4. Cardinality(Newer(m)) <= Cardinality(messages \ {m})
      BY <2>2, <2>3, FS_Subset
    <2> DEFINE k == Cardinality(Newer(m))
               n == Cardinality(messages)
    <2>5. k \in Nat /\ n \in Nat /\ k <= n - 1 /\ n <= Capacity /\ Capacity \in Nat
      BY <1>1, <1>3, <2>1, <2>3, <2>4
    <2> HIDE DEF k, n
    <2>6. k < Capacity
      BY <2>5
    <2> QED
      BY <2>1, <2>6 DEF NewestPosts, k
  <1>5. ASSUME NEW p \in NewestPosts PROVE p \in Unexpired
    <2>1. p \in posts /\ ExpiresAt(p) > now /\ Cardinality(Newer(p)) < Capacity
      BY DEF NewestPosts
    <2>2. p \in messages
      <3> SUFFICES ASSUME p \notin messages PROVE FALSE
        OBVIOUS
      <3>1. Cardinality(messages) = Capacity /\ \A m \in messages : Older(p, m)
        BY <1>1, <2>1 DEF MissingIsOldest
      <3>2. messages \in SUBSET Newer(p)
        BY <1>1, <3>1
      <3>3. Cardinality(messages) <= Cardinality(Newer(p))
        BY <1>3, <2>1, <3>2, FS_Subset
      <3> DEFINE k == Cardinality(Newer(p))
      <3>4. k \in Nat /\ k < Capacity /\ Capacity <= k /\ Capacity \in Nat
        BY <1>1, <1>3, <2>1, <3>1, <3>3
      <3> HIDE DEF k
      <3> QED
        BY <3>4
    <2> QED
      BY <1>1, <1>2, <2>1, <2>2 DEF Unexpired, Expired
  <1> QED
    BY <1>4, <1>5

\* The unexpired rows are the newest posts, as many as the capacity allows, while
\* the clock has not been set back (hub.py 573-591).
THEOREM BoardNewestHolds == Spec => []BoardIsNewestPosts
  <1> QED
    BY InitNewestInv, NextNewestInv, NewestFollows, PTL DEF Spec

=============================================================================

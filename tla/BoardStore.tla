----------------------------- MODULE BoardStore -----------------------------
(***************************************************************************)
(* The encrypted Hub board kept in SQLite (class BoardStore of hub.py).    *)
(*                                                                         *)
(* Every public method of the class is one BEGIN IMMEDIATE transaction     *)
(* under one lock, so every method is one action here.  Each method reads  *)
(* the wall clock once and starts with the same expiry cleanup.  What      *)
(* survives a crash is exactly the tables, so a restart is the binding of  *)
(* the reopened database to the access generation found on disk.           *)
(*                                                                         *)
(* A ciphertext is opaque to the store; a record is its message ID, the    *)
(* posting display token and its creation second.  expires_at is always    *)
(* created_at + Lifetime (StoredBoardRecord refuses anything else).        *)
(***************************************************************************)
EXTENDS Naturals, FiniteSets

CONSTANTS
    MessageId,          \* message IDs; naturals, because SQLite orders them
    Token,              \* display tokens (one per display ID)
    Generation,         \* access generations
    Unbound,            \* a database whose board_meta table has no row
    Capacity,           \* BOARD_CAPACITY
    Lifetime,           \* BOARD_LIFETIME_SECONDS
    Cooldown,           \* BOARD_COOLDOWN_SECONDS
    MaxTime             \* bound: the last second of the model

ASSUME StoreAssumption ==
    /\ MessageId \subseteq Nat
    /\ Unbound \notin Generation
    /\ Capacity \in Nat \ {0}
    /\ Lifetime \in Nat \ {0}
    /\ Cooldown \in Nat \ {0}
    /\ MaxTime \in Nat

\* Both constants of the code are 86 400 seconds; one record per token needs
\* no more than this much of it.
ASSUME LifetimeWithinCooldown == Lifetime <= Cooldown

VARIABLES
    messages,     \* table board_messages
    seenIds,      \* table board_seen_ids
    cooldowns,    \* table board_cooldowns: next_post_at, 0 where no row
    generation,   \* table board_meta
    now,          \* int(time.time())
    steady,       \* history: the clock was never set back
    posts         \* history: the posts accepted since the tables were cleared

storeVars == <<messages, seenIds, cooldowns, generation, now, steady, posts>>

Record == [id : MessageId, token : Token, created : Nat]

NoCooldowns == [t \in Token |-> 0]

-----------------------------------------------------------------------------
(* Helpers of the transactions.  Where a definition is preceded by one of  *)
(* a longer name that nothing uses, that one is a plausible mistake which  *)
(* the properties must be able to tell from the code.                      *)

ExpiresAt(m) == m.created + Lifetime

\* ORDER BY created_at ASC, message_id ASC
Older(m, n) ==
    \/ m.created < n.created
    \/ m.created = n.created /\ m.id < n.id

OldestById(S) == {m \in S : \A n \in S \ {m} : m.id < n.id}

Oldest(S) == {m \in S : \A n \in S \ {m} : Older(m, n)}

Ids(S) == {m.id : m \in S}

\* _cleanup_locked: what it deletes, and the two tables it leaves.
ExpiredLate == {m \in messages : ExpiresAt(m) < now}

Expired == {m \in messages : ExpiresAt(m) <= now}

Unexpired == messages \ Expired

LiveCooldownsOfListed ==
    [t \in Token |-> IF t \in {m.token : m \in Unexpired} THEN cooldowns[t] ELSE 0]

LiveCooldowns == [t \in Token |-> IF cooldowns[t] <= now THEN 0 ELSE cooldowns[t]]

Cleanup ==
    /\ messages' = Unexpired
    /\ cooldowns' = LiveCooldowns

NewRecordSwapped(id, t) == [id |-> t, token |-> id, created |-> now]

NewRecord(id, t) == [id |-> id, token |-> t, created |-> now]

\* The possible evictions of a post that leaves S in the table: none within
\* the capacity, the single oldest row above it.
EvictionsOneLate(S) ==
    IF Cardinality(S) > Capacity + 1 THEN {{m} : m \in Oldest(S)} ELSE {{}}

Evictions(S) ==
    IF Cardinality(S) > Capacity THEN {{m} : m \in Oldest(S)} ELSE {{}}

-----------------------------------------------------------------------------
(* Initial states *)

\* Releases that did not bind the board to a generation left databases with
\* rows and no board_meta row; a fresh database has no rows at all.
Init ==
    /\ generation = Unbound
    /\ now = 0
    /\ steady = TRUE
    /\ \/ posts = {}
       \/ \E id \in MessageId, t \in Token : posts = {NewRecord(id, t)}
    /\ messages = posts
    /\ seenIds = Ids(posts)
    /\ cooldowns = [t \in Token |->
                      IF \E p \in posts : p.token = t THEN Cooldown ELSE 0]

-----------------------------------------------------------------------------
(* Operations *)

\* Every construction in the program passes a generation, so no other method
\* runs on an unbound database.
Opened == generation # Unbound

\* The tombstones outlive the record they were written for.
AlreadyListed(id) == id \in Ids(messages)

AlreadySeen(id) == id \in seenIds

\* post: the ID was accepted before.  The expiry cleanup is committed before
\* the DUPLICATE_MESSAGE error is raised.
PostDuplicate(id, t) ==
    /\ Opened
    /\ AlreadySeen(id)
    /\ Cleanup
    /\ UNCHANGED <<seenIds, generation, now, steady, posts>>

\* post: the token still has a cooldown row after the cleanup.
PostRefusedRenewing(id, t) ==
    /\ Opened
    /\ ~AlreadySeen(id)
    /\ LiveCooldowns[t] > now
    /\ messages' = Unexpired
    /\ cooldowns' = [LiveCooldowns EXCEPT ![t] = now + Cooldown]
    /\ UNCHANGED <<seenIds, generation, now, steady, posts>>

PostRefused(id, t) ==
    /\ Opened
    /\ ~AlreadySeen(id)
    /\ LiveCooldowns[t] > now
    /\ Cleanup
    /\ UNCHANGED <<seenIds, generation, now, steady, posts>>

\* post: accepted, the oldest row deleted when the table is over capacity.
PostAccepted(id, t) ==
    LET record == NewRecord(id, t)
    IN  /\ Opened
        /\ ~AlreadySeen(id)
        /\ LiveCooldowns[t] <= now
        /\ seenIds' = seenIds \cup {id}
        /\ \E evicted \in Evictions(Unexpired \cup {record}) :
              messages' = (Unexpired \cup {record}) \ evicted
        /\ cooldowns' = [LiveCooldowns EXCEPT ![t] = now + Cooldown]
        /\ posts' = posts \cup {record}
        /\ UNCHANGED <<generation, now, steady>>

\* list_current and cleanup leave the same tables.
CleanUp ==
    /\ Opened
    /\ Cleanup
    /\ UNCHANGED <<seenIds, generation, now, steady, posts>>

\* bind_access_generation: on opening the database and on a live rotation.
MustClear(g) ==
    IF generation = Unbound
    THEN messages # {} \/ seenIds # {} \/ cooldowns # NoCooldowns
    ELSE g # generation

BindGeneration(g) ==
    /\ generation' = g
    /\ IF MustClear(g)
       THEN /\ messages' = {}
            /\ cooldowns' = NoCooldowns
            /\ seenIds' = {}
            /\ posts' = {}
       ELSE UNCHANGED <<messages, cooldowns, seenIds, posts>>
    /\ UNCHANGED <<now, steady>>

\* removed_message_ids: the rows a transaction deletes, which include the row
\* it has just inserted when that one is the oldest.
RemovedIds == Ids((messages \cup (posts' \ posts)) \ messages')

\* The wall clock moves on, or is set back by the system.
ClockTick ==
    /\ now < MaxTime
    /\ now' = now + 1
    /\ UNCHANGED <<messages, seenIds, cooldowns, generation, steady, posts>>

ClockSetBack ==
    /\ now > 0
    /\ now' = now - 1
    /\ steady' = FALSE
    /\ UNCHANGED <<messages, seenIds, cooldowns, generation, posts>>

Post(id, t) ==
    \/ PostDuplicate(id, t)
    \/ PostRefused(id, t)
    \/ PostAccepted(id, t)

Next ==
    \/ \E id \in MessageId, t \in Token : Post(id, t)
    \/ CleanUp
    \/ \E g \in Generation : BindGeneration(g)
    \/ ClockTick
    \/ ClockSetBack

Spec == Init /\ [][Next]_storeVars

-----------------------------------------------------------------------------
(* Correctness *)

\* The tables hold rows of the schema's types.
TypeOK ==
    /\ messages \subseteq Record
    /\ seenIds \subseteq MessageId
    /\ cooldowns \in [Token -> Nat]
    /\ generation \in Generation \cup {Unbound}
    /\ now \in Nat
    /\ steady \in BOOLEAN
    /\ posts \subseteq Record

\* However posts, expiries and clock changes interleave, the committed board
\* never holds more than BOARD_CAPACITY records (hub.py 573-591).
WithinCapacity ==
    /\ IsFiniteSet(messages)
    /\ Cardinality(messages) <= Capacity

\* A display ID never has two records on the board: the cooldown row that
\* refuses its next post is never deleted before its record is, even when the
\* clock is set back (hub.py 531-542 with 632-646).
OneRecordPerToken ==
    \A m, n \in messages : m.token = n.token => m = n

\* A cooldown row always stems from an accepted post of that very token, so a
\* display ID is never refused because of someone else's post or of a refused
\* or duplicate one (hub.py 562-571).
CooldownIsEarned ==
    \A t \in Token : cooldowns[t] # 0 =>
        \E p \in posts : p.token = t /\ p.created + Cooldown = cooldowns[t]

\* A message ID is accepted once per access generation, even after its record
\* expired or was evicted: the board key and nonce derive from it
\* (hub.py 523-529, 544-547).
AcceptedOnce ==
    \A p, q \in posts : p.id = q.id => p = q

\* Two accepted posts of one display ID are at least a cooldown apart, across
\* evictions and restarts, as long as the clock is not set back.
PostsAreSpaced ==
    steady => \A p, q \in posts :
        p.token = q.token /\ p # q =>
            \/ p.created + Cooldown <= q.created
            \/ q.created + Cooldown <= p.created

\* Reference definition of the board: of the accepted posts that have not
\* expired, those with fewer than Capacity newer accepted posts.  Evictions
\* and the lazy cleanup together compute exactly this set (clock not set back).
NewestPosts ==
    {p \in posts : /\ ExpiresAt(p) > now
                   /\ Cardinality({q \in posts : Older(p, q)}) < Capacity}

BoardIsNewestPosts == steady => Unexpired = NewestPosts

=============================================================================

# The Grid: a TLA+ verification project

The Grid (`src/src/the_grid`) is a small text network: a relay server on one
asyncio event loop keeps an encrypted message board (the Hub) in SQLite and
pairs two clients for an end-to-end encrypted conversation (a comm). This
directory holds TLA+ models of its stateful parts, TLC configurations that check
them on small instances, and TLAPS proofs about them. Every definition is
translated from the source; `PROJECT.json` ("map") names the lines it stands for.

Contents: 1 inventory, 2 modules, 3 runs, 4 what the runs refute, 5 proofs,
6 limits of the models, 7 plan.

## 1. Inventory

### 1.1 Server side

**Board store** (`hub.py`, class `BoardStore`, 345-669). State: the SQLite tables
`board_messages`, `board_seen_ids`, `board_cooldowns`, `board_meta`. Operations:
`post`, `list_current`, `cleanup`, `bind_access_generation`, two reads. Each is one
`BEGIN IMMEDIATE` transaction under one lock, reads the wall clock once and starts
with the same lazy expiry cleanup. Called by the relay, and at start-up by the
server runtime. Hard: eviction order, tombstones that outlive records, cooldown
rows against expiry, a clock that is set back, reopening under another access
generation. Correct when: at most 24 rows; one row per display ID; an ID accepted
once per generation; posts of one display ID a cooldown apart; the board is the
newest unexpired posts.

**Board feed** (`relay.py` 465-483, 639-669, 699-712, 1010-1125). State: the
publication sequence `_board_sequence`, the set of subscribers. Operations: paged
list, subscribe at a sequence, post with broadcast of removals and update,
maintenance. Calls the store synchronously and awaits its broadcasts, so a handler is
suspended between a removal broadcast and what follows it. Correct when: every
record is published, a snapshot of several pages is one board, expiries are announced.

**Connections and queues** (`relay.py` 744-935). State: per connection an outbound
queue of bounded length, `closed`, `display_token`, `waiting_room_id`, `pair_id`. A
full queue raises at the sender *and* schedules the close of the receiver. A
connection dies in steps: close scheduled, closed, loop left, `_connection_closed`.

**Display reservations, waiting rooms, session routes** (`relay.py` 200-312,
427-740, 1127-1240). State: the three tables of `RelayServer` and the deadlines of
their entries. Operations: reserve, wait, cancel, join, handshake proof, data, close, the
end of a connection, expiry by maintenance or by the next request, rotation.
Correct when: tables and connections refer to each other, a phrase serves one comm, a
display ID has one holder, clients are told what happened to them, dead or
unfinished pairs end.

**Relay life cycle and rotation** (`relay.py` 314-425). `start`, `close`, and
`rotate_access`, which closes every connection, waits for their ends, rebinds the
board and clears the tables.

**Rate limiter** (`relay.py` 138-198). Windows and growing delays per source.

**Server runtime and administration** (`server_runtime.py`, `server_admin.py`). State:
the PID file and who locks it, the admin socket, the access state file, the
generation the relay and the database are bound to. Operations: start, serve, close,
rotate (through the socket, or on disk when nobody holds the lock), status, backup.
Hard: several processes on the same files, crashes between writing the verifier and
clearing the board, lock release before unlink, an admin request that times out and
takes effect later, a backup of files that change. Correct when: whoever serves has
one generation in memory, on disk and in the database, clients of the old one are
disconnected, and the phrase the owner was shown is the one in force.

**Access state** (`access.py`), **server TLS** (`server_tls.py`). Files, replaced
atomically.

### 1.2 Client side

**Client connection** (`client.py` 259-347, 622-729). State: pending requests, the
reader and heartbeat tasks. Requests are answered in order by request ID; an answer that
comes after its timeout is an unknown event.

**Board view** (`client.py` 373-436, 741-814, 905-924; `interactive.py` 778-787).
State: `_board_records`, `_board_sequence`, a resync task, a lock. Operations:
`synchronise_board` (pages, subscription, up to five attempts), the live events, the
resync after a gap, the reload after a comm. Correct when a quiet client lists
every published record, and nothing the relay has not announced.

**Client session** (`client.py` 464-617, 816-887, 926-1034). State: role, pair, the
handshake's participant, the channel, frames buffered before it, queues of pairs,
proofs, events and closes. Operations: wait, cancel, join, complete, send, end; the
session events of the reader; timeouts and aborts. Correct when: every setup ends, a
comm that ended leaves nothing behind, the next one can be opened, and using the
session part does not disconnect anybody.

**Live session channel** (`sessions.py` 382-588). State: two keys, two counters, the
identity flags, discarded, failed. Operations: encrypt identity, text and close;
decrypt; discard. Correct when no nonce is used twice under a key, nobody writes to an
unidentified peer, and each end hears a prefix of what the other said.

**Interactive application, terminal** (`interactive.py`, `terminal.py`). Screens,
the event loop of a comm with its watcher, line editing.

### 1.3 Stateless parts

Frame encoding, cryptography, phrases, configuration, command lines, texts and
deployment scripts are functions of their inputs or sequential scripts.
Where a model meets them they are opaque: a ciphertext, a proof or a key is a
value that is only compared.

### 1.4 Interaction

    interactive --calls--> client ==frames==> relay connection --> relay tables
         ^                   ^                      |                  |
         +---- callbacks ----+  <==queued frames====+                  v
                                                               board store (SQLite)
    runtime --start/rotate/close--> relay        runtime --generation--> board store
    admin   --socket or lock------> runtime

Client and relay are separate event loops joined by ordered byte streams. Within
one loop, handlers interleave only at awaits that really suspend: on the relay the
`gather` of a broadcast, on the client every request.

The hazards that follow from this are listed in `PROJECT.json`, each at its line
with the properties that would notice it. The parts with their status are its
"components".

## 2. Modules

| module | models | uses |
| --- | --- | --- |
| `BoardStore` | class `BoardStore` | |
| `BoardFeed` | relay board handlers, client board view | extends `BoardStore` |
| `SessionRelay` | reservations, rooms, routes, connections' deaths, maintenance, rotation | |
| `LiveSessionChannel` | class `LiveSessionChannel`, as operators on its state | |
| `SessionChannel` | both ends of every session over an unreliable network | extends `LiveSessionChannel` |
| `Conversation` | abstract: what two users of a comm are promised | refined by `SessionChannel` |
| `CommSession` | client session, comm screens, the relay's rooms and routes between them | extends `LiveSessionChannel` |
| `ServerAccess` | server processes, rotations, owner commands, authenticating connections | |
| `BoardStoreProofs`, `SessionRelayProofs`, `SessionChannelProofs`, `ServerAccessProofs` | theorems | extend the modules they are about |
| `BoardFeedProofs` | theorems about the feed | extends `BoardFeed` and `BoardStoreProofs` |
| `SessionRelayTruthProofs` | the theorem about what clients are told | extends `SessionRelayProofs` |
| `CommSessionProofs` | theorems about each client of `CommSession` | extends `CommSession` |
| `CommRelayProofs` | the theorem about clients and relay together | extends `CommSessionProofs` |
| `MC...` | symmetry and bounds for TLC | |

A definition that nothing uses and that precedes one it resembles
(`OldestById` before `Oldest`) is a plausible mistake. The "mutants" of
`PROJECT.json` put it in the other's place, and the property named there must then
fail: this shows that each property depends on the code it is about.

### 2.1 BoardStore

One variable per table, the clock, and the history of accepted posts. `Cleanup` is
`_cleanup_locked` and part of every transaction. `Post` is the disjunction of the
three outcomes of `post`: a duplicate *commits* its cleanup and raises, a cooldown
refusal commits and returns, an acceptance inserts, evicts the single oldest row above
capacity and sets the cooldown. A crash loses nothing but uncommitted work, so a restart is
`BindGeneration` with the generation on disk. `Init` includes a database written
before generations were bound. Message IDs are naturals because the eviction order
compares them.

### 2.2 BoardFeed

`BoardStore` with a relay and its clients around it. The handlers are split where
the code suspends: `ListAtOnce` when nothing is removed or nobody subscribed,
otherwise `ListSuspends`, which keeps the records read, and `ListResumes`, which reads
the sequence (`relay.py` 465-469); `PostSuspends` and `PostResumes` likewise
(471-483). `link[c]` is queue and socket of a connection, in order. On the client
`sync[c]` is the running `synchronise_board` with what it has collected; the
response of a subscription and the resumption of its requester are two steps
(`Subscribed`, `Install`), because the reader task is another task. `ReaderAhead`
says whether the reader may handle the next frame in between. It may since Python
3.12, where `asyncio.wait_for` no longer wraps a read in a task; the project's CI runs
3.11 and 3.14 (`.github/workflows/ci.yml`).

The task of `Maintenance` also expires sessions, and an error there ends it for good
(`MaintenanceEnds`, `relay.py` 736; `SessionRelay` shows how). `maintained` says whether
it lives; what depends on the periodic cleanup is stated as long as it does.

Histories: `announced` is the board a listener to all broadcasts believes in, and
`ghosts` are the records it ever listed wrongly. There are two sources of them. `board_post`
broadcasts its removals before its update, so that a record its own transaction evicted, or
another post while the handler was suspended, is listed after it is gone (`NoteUpdate`);
and a refused duplicate commits removals that nobody announces. `ViewsAreCurrent` therefore has
two halves: a quiet client lists every published record, and nothing off the board but
ghosts. The documents promise more (4).
`excused` records the three ways in which a synchronisation can end with an
outdated view. To decide the first of them, a stale snapshot, a page carries two fields
the code has not: the board it was cut from (`of`) and whether that was still the
board when the sequence was read (`exact`). `SnapshotsAreWhole` speaks of the pages a
client has put together for the sequence it is about to subscribe at. Pages are cut by offset from the ranking of
`ORDER BY` (`Rank`), so two pages of different boards under one sequence can repeat
or skip a record; `IsOfSameBoard` notices.

### 2.3 SessionRelay

A connection's `status` is none, open, doomed (its queue overflowed, `close()` is
scheduled), closed (`close()` has run; `run()` may still read a frame) or ending
(`run()` has left its loop, `_connection_closed` is due). A handler is one step with
all its sends: `Send` is `send_event`, an exception stops the later sends and ends the
connection of the handler (`Return`); `TrySend` is a send under `try`. Stale rooms
are dropped by the next wait or join without a frame (`_cleanup_sessions`) and by
maintenance with one (`_expire_sessions`): the two differ, and both are modelled.
`MaintenanceDies` is a full queue met by the latter, which raises out of the task.

Time is abstract: a deadline passes at any moment (`overdue`), which includes every
order of timeouts and requests. `told` is what the frames queued to a client say.

### 2.4 LiveSessionChannel, SessionChannel, Conversation

The methods of the class are operators on its state, so that two modules can use
them. Authenticated encryption is modelled by what it guarantees: a body opens under
the key of its session and direction, with the counter it was encrypted with.
`MayEncrypt` and `ValidEvent` are the identity gate, `Opens` the checks of
`decrypt_frame`; a frame that fails them ends the channel (`Fail`).

`SessionChannel` gives each end to a network that may deliver any frame there ever
was, to any channel, any number of times, also damaged. `Conversation` is the promise
in terms of what was said and heard only: each side hears the next event of the
other or nothing, identities come first, a side that is over stays silent.
`IsConversation` says that the former refines the latter under the mapping of
`discarded` to `over`.

### 2.5 CommSession

Three tasks of a client interleave as the event loop may run them: the reader
(`Read` with one operator per frame type), `complete_session` (`task`), and the
screen with its watcher (`ui`). Each request is two steps, `Ask` and its `...Answered`;
`pending` is per asking task, and a request that timed out leaves `late` frames
behind. A late answer to a wait, cancel or join is an unknown event, which the reader
catches: it fails the pending requests. One to a proof, data or close request has the type
of an event, whose handler raises `FrameError` past the reader, and nobody fails them. `pair` and `channel` are `_pair_id` and `_session_channel`, `taskPair` the local
variable of `complete_session`, which may belong to an earlier pair. `up` and
`down` are the two directions of a connection, in order; the relay's steps are those of
`SessionRelay` for one room, put together with their answers.

`Drained` hands the buffered frames to the new channel one after the other: a recursive
function on their number, with `DrainedOnto` for one frame. A frame that meets a channel
that is gone or discarded sets `task` to aborting, as the exception of the loop does.

A channel may be discarded and still be there (`end_session` encrypts the close, which
discards it, and drops it only when the relay has answered); most of what is hard about
this code is in that interval.

At the relay, the next wait or join drops an expired room without a word (`Kept`), and
maintenance drops it with a frame (`RoomExpires`). A client of an application that ends by an
error is closed (`HangUp`, `interactive.py` 174-183).

Timers (`Counts`): a timer fires freely when what it waits for cannot come any more;
firing while it still might come is a fault, as are a damaged frame and a lost
connection.

### 2.6 ServerAccess

A step is one system call or transaction on what the processes share. `server[s]` is a
process: it opens the PID file, locks it, loads the state, binds database and port, opens the
admin socket; it closes in the code's order, giving up the lock before it unlinks
the path; and it may be killed anywhere. A lock belongs to an inode, not to a path
(`Inode`, `pidFile`). Connections matter as far as they carry a generation:
that of their challenge.

A server closes in two steps that others meet: while the admin socket closes
("stopping") the relay still listens, and while the relay waits for its listener
("closing") it still serves. A rotation that was queued may begin there, too. `CheckLock` takes the lock for a moment, so a
server that starts just then may fail (`LockPidFile`). Nothing
orders rotations: `rotations` is a set, each with the connections it still waits for, and the
first to end clears `refusing` and the set of listed connections for all
(`overlapped`, a history). A rotation whose database fails leaves the new verifier on
disk, the old one in the relay, and `stop` set (`FailRotation`); the relay accepts again
until the server closes it.

The owner's command is a small program of its own: ask through
the socket, else check the lock, else work on disk.

`raced` is a history: an offline command met a running process, or a process removed a
PID file that another one had open. The code takes no lock for offline commands, so
this can happen; the model reaches it, and `PersistedFirst`, `BoardIsCurrent` and
`RotationHolds` are stated up to that point. `NoOldConnections` and `BoardIsCurrent` are
also stated until two rotations overlap. The overlap breaks them: a client accepted between
their ends is authenticated for the generation the second one replaces. `PersistedFirst`
and `RotationHolds` survive it.

## 3. Runs

Passing runs:

| run | instance | what it shows |
| --- | --- | --- |
| `store` | 4 IDs, 3 tokens, 2 generations, capacity 2, 5 seconds, clock may be set back | capacity, one record per token, honest cooldowns, IDs accepted once; while the clock was never set back, spaced posts and the newest posts on the board |
| `feed_views` | 2 clients, 3 IDs, capacity 2 with a record of an earlier lifetime, pages of one record, 2 attempts | no record withheld; quiet clients list every published record and otherwise ghosts only; collected pages are one board |
| `feed_live` | 2 clients, 1 ID | gaps end in a finished resync, expiries are announced while the maintenance task lives |
| `relay_tables` | 3 connections, 3 tokens, 1 room, 1 pair | tables and connections stay consistent, a phrase serves once, clients are told the truth |
| `relay_live` | 2 connections, 2 tokens, 1 room, 1 pair | dead and unfinished pairs end |
| `channel` | 2 sessions, 1 text, counters up to 2 | fresh nonces, the identity gate, refinement of `Conversation` |
| `comm` | 2 clients, 2 comms in a row, 1 text each, 1 fault in the first | texts shown in order, no live channel without a route, no false alarms |
| `comm_live` | 2 clients, 1 comm, no faults | setups end, ended comms close, the Hub is usable again |
| `server_access` | 2 processes, 1 connection, 3 generations, 1 crash, 3 inodes | one generation in memory, database and (a failed rotation apart) on disk; a shown phrase is not superseded by an older one |

Deadlock is checked except where the system may come to rest: both ends of every session
discarded (`channel`), everybody disconnected or the comms used up (`comm`, `comm_live`,
`comm_end`).

### 3.1 Bounds

`MaxTime` caps the clock; it is two lifetimes and more in the store run, so that
records expire, cooldowns lapse and the same token posts again. `Lifetime` and
`Cooldown` are equal, as in the code (86 400 s). Capacity 2 with 4 IDs lets the board
overflow repeatedly, also within one second, where the message ID breaks the tie. The
history `steady` says that the clock was never set back; only `PostsAreSpaced` and
`BoardIsNewestPosts` need it.

In `feed_live` and `feed_race` one lifetime of one second passes, enough for an expiry to
meet every handler. In `feed_views` a lifetime is two seconds and two pass, so that
records posted in different seconds expire apart, and a list may find one of two
gone. The relay starts with one record of an earlier lifetime on
a board of two, so that lists have two pages and the second post evicts that record and
suspends. `InheritedRecord` gives that record the largest ID, so that posts of its second lose
every tie and a post can evict itself. `BoardMaintained` checks the states in which
the maintenance task has died and follows them no further: what comes after them is what
happens with a task that does not run. `CrowdedOrOld` follows a state
no further once every ID is used *and* the last second has begun: the board overflows in
some behaviours and expires late in others, and what remains are 270 000
states. The proofs (5) have no such bound. In `feed_live` one ID suffices for a
gap. A second client
is the other party of every race: subscribers besides these two only receive
copies. Two attempts instead of five distinguish "tries again" from "gives up".

Routes pair two connections, so three connections give every pair an outsider who
waits, joins or takes over a display ID. `FewLeases` bounds `relay_tables` to one passed
deadline, and to one leased token or one full queue, at a time. One room suffices because rooms do not touch each other: a
connection waits in at most one, and what `PhraseServesOnce` says concerns one.

In `channel`, two sessions make every frame of one a foreign frame of the other
(`OneTalks`: in one session both sides talk, in the other one of them), and three
counter values are an identity, a text and the last one. In `comm`, two clients are all a comm has,
and a second comm is what frames, answers and closes of the first can meet (`Session`,
`FaultyPairs` 1: a fault happens in the first, so that it can meet the second). One
text per comm (`MaxTexts`) with the identity and the close lets every two kinds of
frames cross. `SecondIsMet` bounds the second comm of `comm` to what the first can reach:
nobody writes in it, and after a fault it is followed until a member has the other's
proof. `comm_live` has one comm: its properties follow one comm to its end. The
buffered frames of a comm stay below the code's limit of 16.

In `server_access`, two processes are what a lock excludes; either may be started again
(`Inode` exceeds `Server`, so that a new file can always be made). Three generations
let a request that timed out be followed by another rotation and a restored backup be
rotated again. `UntilRaced` stops a behaviour where `raced` becomes true, because no
property speaks of what follows, and lets a backup meet a crash or two processes, not
both.

Symmetry is used in safety runs only, over values that are merely compared.

### 3.2 Fairness

`FairFeedSpec`: an event loop runs every ready callback, so handlers that have a
request, clients that have a frame and tasks that hold the lock proceed (weak
fairness of `RelayStep` and `ClientStep`); the maintenance loop wakes once a second for as long as its task
lives (weak fairness of `Maintenance`, which `maintained` guards; `MaintenanceEnds` may end it
at any moment). Nothing is assumed of users, disconnections or the clock.

`FairSpec` of `SessionRelay`: scheduled closes run, the loop of a closed connection ends
because its transport is closed, and `_connection_closed` follows in a `finally`.
Maintenance is fair as long as its task lives. Sending, reading, deadlines and clients are
unfair.

`FairSpec` of `CommSession`: the reader, the setup task, the screen and the relay's
handlers run when they can, and a timer fires when what it waits for cannot come
(`ClientTimer(c, 0)`, `RouteExpires(p, 0)`, `RoomExpires`), because every one of those waits in the
code has a timeout. Users are unfair: they need never type. That is why
`EndedCommsClose` excepts the prompt that waits for the user's `y`.

## 4. What the runs refute

Three runs check a statement of the documentation and find it violated:

- `feed_race`: `board_list` reads the records, broadcasts the expiries it met, and
  reads the sequence after the await. A post accepted meanwhile is covered by the sequence
  but missing from the records, and the subscription that "closes the race"
  (`protocol-transport-v1.md` 149-152) succeeds.
- `relay_timeout`: a full queue ends the maintenance task, after which no
  handshake timeout is enforced (`protocol-transport-v1.md` 237-238).
- `comm_end`: a text and the other side's end of the comm cross. The client that ended
  has discarded its channel and still has it; the reader meets the text, `decrypt_frame`
  raises `SessionError`, which is neither the `SessionIntegrityError` that
  `_decrypt_session_frame` expects nor anything `_reader_loop` catches. The reader task ends and with it
  the connection, whereas "the user remains connected to the Grid"
  (`approved-specification.md` 877).

Other behaviour of the code that a reader may not expect, reached by the models and
recorded with the hazards, without a run of its own:

- A duplicate post commits its expiry cleanup but loses the removed IDs, so that removal
  is never broadcast (`hub.py` 529).
- That commit also changes the rows without the sequence. If it falls between two
  `board_list` pages, the second page, cut by offset, skips a live record, no `restart`
  is sent and the subscription succeeds, contrary to "sequence-consistent
  paginated `board_list` snapshots" (`protocol-transport-v1.md` 271). The model counts it as
  a stale snapshot; the attempt to prove `ViewsAreCurrent` without it found it.
- A post is broadcast after the removal of what it evicted (`relay.py` 478-482). Where it
  evicted itself (at capacity, its message ID the smallest of 25 records of one second), or
  was evicted while its handler was suspended in the first broadcast, it is listed after its own
  removal. Clients keep no bound (`client.py` 785), so a quiet Hub shows one record too many
  until a resync, against "the oldest message disappears and the new one appears" and "at
  most 24 current messages" (`approved-specification.md` 580, 815). Checking
  `Cardinality(view[c]) <= Capacity` of quiet clients shows it after 18 states, with two IDs
  and a capacity of one; `ViewsAreCurrent` states what holds instead, with `ghosts`.
- An event handled between the subscribe response and the installation of the snapshot
  is overwritten by the older snapshot (`client.py` 433); the client stays behind until
  the next event. `feed_views` checks what remains true apart from these.
- With the maintenance task, an error of the session part also ends the periodic cleanup of
  the board (`relay.py` 699-712).
- Both members end a comm at once: the second `session_close` is answered and then
  ends its connection (`relay.py` 1216).
- A `session_close` of the last pair that arrives when the next setup has a role
  but no pair yet discards that setup (`client.py` 880).
- If the channel dies while `/end` waits for its `y`, and has not been dropped,
  `end_session` raises an error that ends the application (`interactive.py` 644).
- Two rotations that overlap clear each other's `_rotating`; a client that connects in
  between keeps the generation that the second replaces (`relay.py` 425).
- A rotation whose database fails leaves a server that goes on accepting with the old verifier
  until it has closed its admin socket and its relay (`server_runtime.py` 156-160).
- An offline rotation that meets a starting server leaves the server on the old
  generation (`server_admin.py` 261).
- At capacity a post can be the very row its transaction evicts, when 24 others are of
  the same second and larger ID. `BoardIsNewestPosts` says what the code guarantees instead.

## 5. Proofs

TLAPS proves the following for every value of the constants that satisfies the
named assumptions, which TLC evaluates in the runs: `StoreAssumption`,
`LifetimeWithinCooldown`, `FeedAssumption`, `RelayAssumption`, `NewsAssumption` (a pair ID
is neither of the two words the history `told` uses), `ChannelAssumption`,
`CommAssumption`, `NobodyAssumption` (no client is the placeholder for none),
`AccessAssumption`.

**`BoardStoreProofs`**:

| theorem | property |
| --- | --- |
| `TypeCorrect` | `TypeOK` |
| `CapacityHolds` | `WithinCapacity` |
| `OneRecordHolds` | `OneRecordPerToken` |
| `AcceptedOnceHolds` | `AcceptedOnce` |
| `CooldownEarnedHolds` | `CooldownIsEarned` |
| `SpacingHolds` | `PostsAreSpaced`, while the clock was never set back |
| `BoardNewestHolds` | `BoardIsNewestPosts`, while the clock was never set back |

One record per token is not inductive: it rests on the cooldown row outliving the
record (`CooldownOutlivesRecord`), which needs `Lifetime <= Cooldown`. That an ID is
accepted once rests on the tombstones being the IDs of the accepted posts
(`SeenArePosted`), and the spacing of posts on every accepted post being in the past
with its cooldown over or still recorded (`PostsCool`). Only the last two theorems assume
anything about the clock.

`BoardNewestHolds` follows from `NewestInv`: an unexpired post that is not on the board
is older than every row (`MissingIsOldest`), and the board is full as long as
there is one. So a cleanup never removes a row while an unexpired post is missing (the row
would expire later), and an eviction takes a row older than the rest. The
rest is arithmetic of cardinalities of sets of newer posts.

**`BoardFeedProofs`**:

| theorem | property |
| --- | --- |
| `FeedTypesHold` | `FeedTypeOK` |
| `RecordsAreBroadcast` | `NoRecordWithheld` |
| `QuietViewsAreCurrent` | `ViewsAreCurrent` |
| `PagesMakeOneBoard` | `SnapshotsAreWhole` |
| `FeedKeepsToTheStore` | `[][Next]_storeVars`: every step of the feed is a step of `BoardStore` or leaves it alone |

The last one makes the invariants of the store invariants of the feed, and is proved
first. `ViewsAreCurrent` speaks of a client with nothing in transit; the inductive
invariant (`FeedInv`, per client `ClientInv`) says what is *promised* to the others. `Told(q, k, v,
id)` is whether `id` will be listed once the frames of the queue `q` after place `k`
have been applied to the view `v`; `Ahead` says that these frames are exactly the events
from one sequence number up to another, in order; `Current` puts both
together: every published record will be listed, and off the board nothing but ghosts. It
holds at three places, and each step of a synchronisation hands it on to the next: of the view of a
subscriber that knows of no gap (`ViewPromised`), of the snapshot whose successful
subscription is in transit, from its response on (`ReplyPromised`), and of the snapshot
about to be installed (`InstallPromised`). Before there is a subscription, what a client
has collected is the first part of one board, up to its offset in the ranking
(`Collecting`), and the page in transit is the next part of that board (`PagesFit`); when the
offset has reached the end, that is `SnapshotsAreWhole`. All this is conditional on the three
excuses and nothing else.

**`SessionRelayProofs`**:

| theorem | property |
| --- | --- |
| `RelayTypeCorrect` | `TypeOK` |
| `RoutesMatch` | `RoutesMatchConnections` |
| `RoomsMatch` | `RoomsMatchConnections` |
| `PhraseOnce` | `PhraseServesOnce` |
| `DisplaysReserved` | `DisplaysAreReserved` |
| `DeadAreForgotten` | `NothingRefersToTheDead` |

The properties speak of *open* connections. That is not inductive, because a connection
is closed, has left its loop and is forgotten in different steps, and a rotation
clears the tables between the last two. The inductive invariant `RelayInv` extends
them to every connection whose `_connection_closed` is not yet due: what it refers to
refers back to it (`DisplaysInv`, `RoomsInv`, `RoutesInv`); and a connection that is due
carries the ID of a live route only if it is a member (otherwise its end would close
a stranger's route). Connections that are gone carry nothing
(`GoneHasNoDisplay`, `GoneHasNothing`), so that a new one starts clean. The
proof first shows what sending can do to connections (`Sent`, `Lives`): no handler or task
makes one appear, disappear or come back. The rest is one lemma per table and kind of
action.

**`SessionRelayTruthProofs`**: `ClientsKnowTheTruth` states `ClientsAreToldTheTruth`. A
frame that meets a full queue dooms its receiver, and a handler that meets one ends its
own connection; so whoever is still open after a step has got every frame the handler
meant to send it (`SendEffect`, `ReturnEffect`), and the property is a matter of what
each handler means to send. That this is true of the tables afterwards rests on
`RelayInv`: the recipients of a close are members of the route, and a connection that waits has a room and no
pair. `TruthInv` adds that a connection object not in use was told nothing
(`GoneHasNoNews`), which is what a new connection starts with.

**`SessionChannelProofs`**:

| theorem | property |
| --- | --- |
| `ChannelTypeCorrect` | `TypeOK` |
| `NoncesAreFresh` | `NonceUsedOnce` |
| `AcquaintancesOnly` | `TextsAreBetweenAcquaintances` |
| `ChannelsConverse` | `IsConversation` |

The first three are facts about one end; the last relates both, because a frame on the
network must be the event its sender said at that place. The inductive invariant
(`ChannelInvariant`) says: the history `said` has as many events as the send counter,
until the channel is discarded; every frame on the network carries the event its
sender said at its counter; `heard` has as many events as the receive counter and is a
prefix of what the other end said; and a discarded channel is never used again, so that the
counters set back to zero do no harm. With it, an accepted frame is the next event of
the other side, and every step of `SessionChannel` is a `Say`, `Hear` or `GiveUp` of
`Conversation` or leaves it unchanged.

**`ServerAccessProofs`**:

| theorem | property |
| --- | --- |
| `AccessTypes` | `TypeOK` |
| `StateIsPersistedFirst` | `PersistedFirst` |
| `RotationEndsOldConnections` | `NoOldConnections` |
| `ServedBoardIsCurrent` | `BoardIsCurrent` |
| `ShownRotationHolds` | `RotationHolds` |

They hold for any number of processes, connections, generations, crashes, rotations at a time
and inodes; the second to the fifth up to the histories their statements name. `AccessInv`
says: an open connection belongs to a process that serves
(`ConnectionsServed`), and its challenge is for the generation of that process, because a
rotation ends only when all the connections it found are gone and none is accepted
meanwhile, as long as no two overlap (`ChallengesAreCurrent`); locks exclude each other, and before anything raced
the inode a process has open is the one at the path (`LocksExclude`); requests
are queued in the order of their generations, and a command that is about to ask has a
newer one (`RequestsInOrder`); a command is at a step its own kind has and names what it read
(`CommandsProceed`). Until something raced it also says that a process knows the disk: what it
has loaded is on disk, what it serves is bound in the database, and what it is asked to rotate
to is newer (`ServersFollowDisk`); and that the state on disk is never behind the
database, a running command or the database of a backup (`StoreIsConsistent`).
`NoOldConnections` needs none of the latter two, so it holds after a race as well.

**`CommSessionProofs`**:

| theorem | property |
| --- | --- |
| `CommTypes` | `TypeOK` |
| `TextsAreShownInOrder` | `ShownInOrder` |

Both are facts about one client, whatever the frames it reads. The inductive invariant
`CommInv` has, per client (`ClientInv`), the types; what pair, channel and role have to do
with each other (`RoleBelongs`); which pairs `complete_session` may be at, and on which
screen (`TaskBelongs`); and `TextsFollow`. That the texts shown are numbered from 1 without a gap is not
inductive: a text passes from the channel through a queue to the screen, and the queue
survives the channel. `TextsFollow` says that the queued texts follow those shown and the
counter of a usable channel follows both (`Accepted`), from the moment there is a setup or
a watcher; before the channel exists there is nothing queued. The relay is there with the types
of its frames and tables only.

Draining the buffer needs an induction over its length. The library's induction theorems
cannot be used, but the least element of a set of naturals can (`WFMin` of
`WellFoundedInduction`): the least number of frames after which the claim fails is not 0
and has a predecessor.

**`CommRelayProofs`**: `NoZombiesHold` states `NoZombieComms`, which relates each client to the
relay's routes and to both directions of its connection. A pair is announced to a client
long before the client holds it, and may be closed at every stage, so the inductive invariant
follows it (`Told`, per connected client):

- the announcements a client has not taken are of ever later pairs (`InOrder`), and what
  the client holds, asks to close or has failed is of an earlier one (`Behind`);
- an announcement on its way is of a route of the client or is followed by its close
  (`Announced`): the order of the frames is what makes the close arrive in time;
- a pair it holds, or may still take from its queue, is one of its routes or a close or the
  end of the connection is on its way (`Held`);
- a pair whose close it has asked for, or will ask for after a failure, is one it does not
  hold any more (`GivenUp`): the relay answers a `session_close` but sends no event about it
  to the one who asked, who must not be left with a channel that looks usable.

`OneRoute` is the relay's half: the room or one route is taken, and pair IDs are fresh.
TLC checked the invariant on the instance of `comm` before it was proved. The theorem holds for
any number of clients, pairs, texts and faults.

What TLAPS cannot do stays with TLC: liveness under fairness (`GapsAreResynced`,
`ExpiredAreAnnounced`, `DeadPairsEnd`, `UnfinishedPairsEnd`, `EndedCommsClose`, `SetupsEnd`,
`HubIsFree`) and everything about ENABLED. One invariant is only model-checked:
`NoFalseAlarms` of `CommSession`. It says that the frames a channel meets are exactly
its peer's, so its inductive invariant has to follow the numbered frames of a comm
through the peer's requests, the relay, the connection and the buffer, with the members of
every route, past and present, their roles and their counters: a relation between two clients
and four queues, where `Told` relates one client to two.

## 6. Limits of the models

BoardFeed: a broadcast puts its frames in the queues at the step that takes the
sequence number (the tasks of the `gather` run in the next turn of the loop, before
any handler can take another number). The response to a post carries nothing the
view uses and is left out. A full outbound queue is a `Disconnect`. One relay
lifetime under one generation is covered; clients of another one start afresh.
A suspended broadcast ends before the clock ticks.

SessionRelay: connections start past hello and access proof, heartbeats are
`OtherFrame`. The queue is full or not full. The rate limiter may refuse any join.
Handshake contents and bodies are opaque, pair and session IDs are fresh values.
A deadline equal to the current instant is counted as passed by some comparisons of the
code and not by others; here the deadline has passed or not.
Rotation waits for all connections to leave their loops.

SessionChannel: the values of identity and close events are left out, and so are
the length checks of texts; keys are the session and the direction.

CommSession: `/new` and a typed phrase are one action, and all users share one phrase,
which is the case in which they meet. The end of a connection at the relay and its
`_connection_closed` are one step (`SessionRelay` has them apart). The relay's limiter
refuses a join only when the pairs of the bound are used up. A lost connection loses all
or none of the frames in each direction. A client that hung up does not come back.
Board traffic is left out: it shares the connection but no state.

CommSession, continued: an error that `complete_session` re-raises from a frame it has
buffered (`client.py` 595-598) is not caught by the screens (`interactive.py` 518, 556);
the model returns to the Hub (`DrainedOnto`). It takes a peer that sends frames after its
own close, which the client does not do. TLC's one text per comm and one pair ID leave two
properties to their theorems: the order in `ShownInOrder`, and the second half of
`PhraseServesOnce`.

ServerAccess: which of two overlapping rotations that wait for nobody any more resumes first is
left open, where the event loop has an order. The challenge of a
connection stands for the phrase its user typed. Restoring a backup is the owner's
procedure (`docs/phase-5-deployment.md`), taken when nothing runs. `renew_server_tls`
and `export_client_profile` touch none of this state.

### Not modelled

Cryptography, frame encoding, texts, configuration and the command line are functions of
their inputs. The terminal editor and what the screens draw are presentation. Server TLS,
deployment scripts and the export of profiles are sequential file handling. The rate
limiter is a data structure on wall-clock seconds that the models allow to refuse at any
time. Heartbeats only end connections, which every model lets happen at any time.
`PROJECT.json` repeats this per component.

## 7. Plan

Done: all modules of the table in section 2. Every safety property and action property
that a run checks is a theorem, except `NoFalseAlarms`. Open:

1. A theorem about `NoFalseAlarms`, on top of `CommRelayProofs` (5 says what its
   invariant has to follow).
2. `RateLimiter`: windows and growing delays as operators checked against a definition.

----------------------------- MODULE BoardFeed ------------------------------
(***************************************************************************)
(* The live Hub feed: the relay publishes the board store to its clients   *)
(* (relay.py), each client mirrors it (client.py).                         *)
(*                                                                         *)
(* The relay runs on one event loop, so a handler is atomic up to an await *)
(* that really suspends.  Here that is the gather over the subscribers of  *)
(* a broadcast: board_list and board_post stay suspended there while other *)
(* handlers run (variable handler).  A frame put in a connection's queue   *)
(* reaches the client in order; link[c] stands for queue and socket.       *)
(*                                                                         *)
(* A client has one synchronisation at a time (its lock), a reader task    *)
(* and at most one resync task.  The module covers one lifetime of a relay *)
(* under one access generation; the board may hold a record of an earlier  *)
(* lifetime.                                                               *)
(***************************************************************************)
EXTENDS BoardStore, Integers, Sequences

CONSTANTS
    Client,        \* clients; each holds the display token of its own name
    PageSize,      \* records that fit in one board_list frame
    Tries,         \* snapshot attempts of one synchronisation (5 in the code)
    ReaderAhead,   \* the reader may handle the frame after a response before
                   \* the requester resumes (asyncio.wait_for since Python 3.12)
    FreshIds       \* no client posts a message ID twice

ASSUME FeedAssumption ==
    /\ Client \subseteq Token
    /\ PageSize \in Nat \ {0}
    /\ Tries \in Nat \ {0}
    /\ ReaderAhead \in BOOLEAN
    /\ FreshIds \in BOOLEAN

VARIABLES
    sequence,     \* RelayServer._board_sequence
    connected,    \* live connections past display_reserve
    subscribed,   \* those with board_subscribed
    handler,      \* per connection: the handler suspended in a broadcast
    request,      \* per client: the board_list or board_subscribe in transit
    link,         \* per client: frames queued to it
    sync,         \* per client: the running synchronise_board
    resync,       \* clients with an unfinished _board_resync_task
    dirty,        \* clients whose Hub changed since their last reload
    view,         \* per client: keys of _board_records
    viewSequence, \* per client: _board_sequence
    maintained,   \* _maintenance_task has not ended
    announced,    \* history: the board as the broadcasts describe it
    ghosts,       \* history: what they list and the board has not
    excused       \* history: per client, why its view may be wrong

relayVars ==
    <<sequence, connected, subscribed, handler, maintained, announced, ghosts>>
clientVars == <<sync, resync, dirty, view, viewSequence, excused>>
vars == <<storeVars, relayVars, clientVars, request, link>>

Idle == [op |-> "idle"]
NoRequest == [op |-> "none"]
NoSync == [phase |-> "none"]

-----------------------------------------------------------------------------
(* Frames *)

RemoveFrame(s, ids) == [type |-> "remove", seq |-> s, ids |-> ids]
UpdateFrame(s, id) == [type |-> "update", seq |-> s, ids |-> {id}]
SubscribeReply(ok) == [type |-> "subscribed", seq |-> sequence, ok |-> ok]

\* One page of a snapshot: ORDER BY as in Older, from an offset on.  exact and
\* of are no fields of the frame: they remember whether the records still were
\* the board when the sequence was read, and the records themselves.
Rank(m, records) == Cardinality({n \in records : Older(n, m)})

PageFrame(c, records, s, exact) ==
    LET from == request[c].offset
        size == Cardinality(records)
        upto == IF from + PageSize < size THEN from + PageSize ELSE size
    IN  [type |-> "page", seq |-> s, restart |-> FALSE, next |-> upto,
         done |-> upto = size, exact |-> exact, of |-> records,
         ids |-> Ids({m \in records : Rank(m, records) \in from..(upto - 1)})]

RestartFrame(s) == [type |-> "page", seq |-> s, restart |-> TRUE, next |-> 0,
                    done |-> FALSE, exact |-> TRUE, of |-> {}, ids |-> {}]

Send(c, frame) == link' = [link EXCEPT ![c] = Append(@, frame)]

\* _broadcast_to_subscribers: every subscriber's queue gets the frames.
Broadcast(frames) ==
    link' = [c \in Client |-> IF c \in subscribed THEN link[c] \o frames ELSE link[c]]

\* (As in BoardStore, a definition that nothing uses, in front of the one it
\* resembles, is a plausible mistake the properties must tell from the code.)
AnnounceToSubscribersOnly(ids) ==
    IF ids = {} \/ subscribed = {}
    THEN UNCHANGED <<sequence, link, announced>>
    ELSE /\ sequence' = sequence + 1
         /\ Broadcast(<<RemoveFrame(sequence + 1, ids)>>)
         /\ announced' = announced \ ids

\* _broadcast_board_remove: a removal of nothing consumes no sequence number.
AnnounceRemoved(ids) ==
    IF ids = {}
    THEN UNCHANGED <<sequence, link, announced>>
    ELSE /\ sequence' = sequence + 1
         /\ Broadcast(<<RemoveFrame(sequence + 1, ids)>>)
         /\ announced' = announced \ ids

-----------------------------------------------------------------------------
(* Connections *)

LeaveTaskBehind(c) ==
    /\ connected' = connected \ {c}
    /\ subscribed' = subscribed \ {c}
    /\ request' = [request EXCEPT ![c] = NoRequest]
    /\ link' = [link EXCEPT ![c] = <<>>]
    /\ handler' = [handler EXCEPT ![c] = IF @.op = "list" THEN Idle ELSE @]
    /\ sync' = [sync EXCEPT ![c] = NoSync]
    /\ dirty' = dirty \ {c}
    /\ view' = [view EXCEPT ![c] = {}]
    /\ viewSequence' = [viewSequence EXCEPT ![c] = 0]
    /\ excused' = [excused EXCEPT ![c] = {}]
    /\ UNCHANGED resync

\* The client and its connection go; a suspended post still publishes.
Leave(c) ==
    /\ connected' = connected \ {c}
    /\ subscribed' = subscribed \ {c}
    /\ request' = [request EXCEPT ![c] = NoRequest]
    /\ link' = [link EXCEPT ![c] = <<>>]
    /\ handler' = [handler EXCEPT ![c] = IF @.op = "list" THEN Idle ELSE @]
    /\ sync' = [sync EXCEPT ![c] = NoSync]
    /\ resync' = resync \ {c}
    /\ dirty' = dirty \ {c}
    /\ view' = [view EXCEPT ![c] = {}]
    /\ viewSequence' = [viewSequence EXCEPT ![c] = 0]
    /\ excused' = [excused EXCEPT ![c] = {}]

\* A first or repeated attempt of synchronise_board: ask for the first page.
Attempt(c, kind, tries) ==
    /\ sync' = [sync EXCEPT ![c] =
                  [phase |-> "list", kind |-> kind, tries |-> tries, seq |-> 0,
                   offset |-> 0, of |-> {}, ids |-> {}, exact |-> TRUE,
                   ok |-> FALSE, skipped |-> FALSE]]
    /\ request' = [request EXCEPT ![c] = [op |-> "list", offset |-> 0, snapshot |-> 0]]

\* reserve_display ends in synchronise_board.  A display token is free for a
\* new connection only after the handler of the old one has returned.
Connect(c) ==
    /\ c \notin connected
    /\ handler[c] = Idle
    /\ connected' = connected \cup {c}
    /\ Attempt(c, "join", 1)
    /\ UNCHANGED <<storeVars, sequence, subscribed, handler, maintained, announced,
                   ghosts, link, resync, dirty, view, viewSequence, excused>>

Disconnect(c) ==
    /\ c \in connected
    /\ Leave(c)
    /\ UNCHANGED <<storeVars, sequence, maintained, announced, ghosts>>

-----------------------------------------------------------------------------
(* Relay handlers *)

\* _handle_board_list from the point where the records and the sequence are
\* known.  A snapshot_sequence is sent from the second page on.
FinishList(c, records, s, exact) ==
    LET stale == request[c].offset > 0 /\ request[c].snapshot # s
    IN  /\ request' = [request EXCEPT ![c] = NoRequest]
        /\ handler' = [handler EXCEPT ![c] = Idle]
        /\ IF stale THEN Send(c, RestartFrame(s))
                    ELSE Send(c, PageFrame(c, records, s, exact))
        /\ UNCHANGED <<connected, subscribed, clientVars>>

\* An offset beyond the records is an invalid frame and ends the connection.
OffsetBeyond(c, records, s) ==
    /\ request[c].offset > Cardinality(records)
    /\ request[c].snapshot = s

\* board_list finds nothing to remove, or nobody to tell: no suspension.
ListAtOnce(c) ==
    /\ c \in connected /\ handler[c] = Idle /\ request[c].op = "list"
    /\ CleanUp
    /\ LET removed == RemovedIds
           s == IF removed = {} THEN sequence ELSE sequence + 1
       IN  /\ removed = {} \/ subscribed = {}
           /\ sequence' = s
           /\ announced' = announced \ removed
           /\ IF OffsetBeyond(c, messages', s)
              THEN Leave(c)
              ELSE FinishList(c, messages', s, TRUE)
    /\ UNCHANGED <<maintained, ghosts>>

\* board_list broadcasts the expired records it met and is suspended holding
\* the records it has read.
ListSuspends(c) ==
    /\ c \in connected /\ handler[c] = Idle /\ request[c].op = "list"
    /\ CleanUp
    /\ RemovedIds # {} /\ subscribed # {}
    /\ AnnounceRemoved(RemovedIds)
    /\ handler' = [handler EXCEPT ![c] = [op |-> "list", records |-> messages']]
    /\ UNCHANGED <<connected, subscribed, maintained, ghosts, clientVars, request>>

\* board_list resumes and reads the sequence of this moment.
ListResumes(c) ==
    /\ handler[c].op = "list"
    /\ LET records == handler[c].records
       IN  IF OffsetBeyond(c, records, sequence)
           THEN Leave(c)
           ELSE FinishList(c, records, sequence, records = messages)
    /\ UNCHANGED <<storeVars, sequence, maintained, announced, ghosts>>

\* _handle_board_subscribe: the check, the subscription and the queued
\* response are one step.
SubscribeUnchecked(c) ==
    /\ c \in connected /\ handler[c] = Idle /\ request[c].op = "subscribe"
    /\ subscribed' = subscribed \cup {c}
    /\ Send(c, [SubscribeReply(TRUE) EXCEPT !.seq = request[c].after])
    /\ request' = [request EXCEPT ![c] = NoRequest]
    /\ UNCHANGED <<storeVars, sequence, connected, handler, maintained, announced,
                   ghosts, clientVars>>

SubscribeSilent(c) ==
    /\ c \in connected /\ handler[c] = Idle /\ request[c].op = "subscribe"
    /\ request' = [request EXCEPT ![c] = NoRequest]
    /\ IF request[c].after = sequence
       THEN /\ subscribed' = subscribed \cup {c}
            /\ Send(c, SubscribeReply(TRUE))
       ELSE UNCHANGED <<subscribed, link>>
    /\ UNCHANGED <<storeVars, sequence, connected, handler, maintained, announced,
                   ghosts, clientVars>>

Subscribe(c) ==
    LET ok == request[c].after = sequence
    IN  /\ c \in connected /\ handler[c] = Idle /\ request[c].op = "subscribe"
        /\ subscribed' = IF ok THEN subscribed \cup {c} ELSE subscribed
        /\ Send(c, SubscribeReply(ok))
        /\ request' = [request EXCEPT ![c] = NoRequest]
        /\ UNCHANGED <<storeVars, sequence, connected, handler, maintained,
                       announced, ghosts, clientVars>>

Joining(c) == sync[c] # NoSync /\ sync[c].kind = "join"

MayPost(c, id) ==
    /\ c \in connected /\ handler[c] = Idle
    /\ ~Joining(c)
    /\ FreshIds => id \notin seenIds

\* board_post: the store raised DUPLICATE_MESSAGE, so what its cleanup removed
\* is never announced.
DuplicatePost(c, id) ==
    /\ MayPost(c, id)
    /\ PostDuplicate(id, c)
    /\ ghosts' = ghosts \cup RemovedIds
    /\ UNCHANGED <<sequence, connected, subscribed, handler, maintained, announced,
                   clientVars, request, link>>

RefusedPost(c, id) ==
    /\ MayPost(c, id)
    /\ PostRefused(id, c)
    /\ AnnounceRemoved(RemovedIds)
    /\ UNCHANGED <<connected, subscribed, handler, maintained, ghosts, clientVars,
                   request>>

\* board_post broadcasts its update after the removals: when the record is off
\* the board by then (its own post or another one evicted it), the update lists
\* it for good.
NoteUpdate(removed, id) ==
    /\ announced' = (announced \ removed) \cup {id}
    /\ ghosts' = ghosts \cup ({id} \ Ids(messages'))

\* board_post accepted with nothing to remove, or nobody to suspend for.
PostAtOnce(c, id) ==
    /\ MayPost(c, id)
    /\ PostAccepted(id, c)
    /\ LET removed == RemovedIds
           s == IF removed = {} THEN sequence + 1 ELSE sequence + 2
       IN  /\ removed = {} \/ subscribed = {}
           /\ sequence' = s
           /\ Broadcast(<<UpdateFrame(s, id)>>)
           /\ NoteUpdate(removed, id)
    /\ UNCHANGED <<connected, subscribed, handler, maintained, clientVars, request>>

PostRemovesOnly(c, id) ==
    /\ MayPost(c, id)
    /\ PostAccepted(id, c)
    /\ RemovedIds # {} /\ subscribed # {}
    /\ AnnounceRemoved(RemovedIds)
    /\ UNCHANGED <<connected, subscribed, handler, maintained, ghosts, clientVars,
                   request>>

\* board_post broadcasts the removals and is suspended before its update.
PostSuspends(c, id) ==
    /\ MayPost(c, id)
    /\ PostAccepted(id, c)
    /\ RemovedIds # {} /\ subscribed # {}
    /\ AnnounceRemoved(RemovedIds)
    /\ handler' = [handler EXCEPT ![c] = [op |-> "post", id |-> id]]
    /\ UNCHANGED <<connected, subscribed, maintained, ghosts, clientVars, request>>

PostResumes(c) ==
    /\ handler[c].op = "post"
    /\ sequence' = sequence + 1
    /\ Broadcast(<<UpdateFrame(sequence + 1, handler[c].id)>>)
    /\ handler' = [handler EXCEPT ![c] = Idle]
    /\ UNCHANGED <<storeVars, connected, subscribed, maintained, clientVars, request>>
    /\ NoteUpdate({}, handler[c].id)

\* The board part of _maintenance_loop; nothing follows its await that
\* concerns the board.
Maintenance ==
    /\ maintained
    /\ CleanUp
    /\ AnnounceRemoved(RemovedIds)
    /\ UNCHANGED <<connected, subscribed, handler, maintained, ghosts, clientVars,
                   request>>

\* The session part of a round raises (a full outbound queue, in SessionRelay):
\* the task ends, and with it the cleanup of the board.
MaintenanceEnds ==
    /\ maintained
    /\ maintained' = FALSE
    /\ UNCHANGED <<storeVars, sequence, connected, subscribed, handler, announced,
                   ghosts, clientVars, request, link>>

\* A suspended broadcast resumes within a few turns of the event loop, so no
\* second passes meanwhile.
Tick ==
    /\ \A c \in Client : handler[c] = Idle
    /\ ClockTick
    /\ UNCHANGED <<relayVars, clientVars, request, link>>

-----------------------------------------------------------------------------
(* The client *)

relayUnchanged == UNCHANGED <<storeVars, relayVars>>

Received(c, type) == link[c] # <<>> /\ Head(link[c]).type = type

Consume(c) == link' = [link EXCEPT ![c] = Tail(@)]

\* The lock is fair: a waiting resync task gets it first.
StartResync(c) ==
    /\ c \in resync /\ sync[c] = NoSync
    /\ Attempt(c, "resync", 1)
    /\ relayUnchanged
    /\ UNCHANGED <<link, resync, dirty, view, viewSequence, excused>>

\* _reload_hub_after_comm, when the Hub changed during the comm; _hub_dirty is
\* cleared when the reload ends.
Reload(c) ==
    /\ c \in dirty \ resync /\ sync[c] = NoSync
    /\ Attempt(c, "reload", 1)
    /\ relayUnchanged
    /\ UNCHANGED <<link, resync, dirty, view, viewSequence, excused>>

\* synchronise_board receives a page: it is of another sequence than the first
\* one, or asks for a restart; or it is kept and the next one is requested, or
\* the subscription after the last one.
PageIsStale(c, f) ==
    \/ f.restart
    \/ sync[c].offset > 0 /\ f.seq # sync[c].seq

\* A history: nothing in the frames tells a client that the page is of another
\* board than the one before, as it is after a duplicate post between them.
IsOfSameBoard(c, f) == sync[c].offset = 0 \/ f.of = sync[c].of

StalePage(c) ==
    /\ Received(c, "page")
    /\ PageIsStale(c, Head(link[c]))
    /\ sync' = [sync EXCEPT ![c].phase = "resume", ![c].ok = FALSE]
    /\ Consume(c)
    /\ relayUnchanged
    /\ UNCHANGED <<request, resync, dirty, view, viewSequence, excused>>

Page(c) ==
    LET f == Head(link[c])
    IN  /\ Received(c, "page")
        /\ ~PageIsStale(c, f)
        /\ sync' = [sync EXCEPT ![c].seq = f.seq,
                                ![c].offset = f.next,
                                ![c].ids = @ \cup f.ids,
                                ![c].of = f.of,
                                ![c].exact = @ /\ f.exact /\ IsOfSameBoard(c, f),
                                ![c].phase = IF f.done THEN "subscribe" ELSE "list"]
        /\ request' = [request EXCEPT ![c] =
              IF f.done THEN [op |-> "subscribe", after |-> f.seq]
              ELSE [op |-> "list", offset |-> f.next, snapshot |-> f.seq]]
        /\ Consume(c)
        /\ relayUnchanged
        /\ UNCHANGED <<resync, dirty, view, viewSequence, excused>>

\* The reader hands the subscribe response to the waiting requester, which
\* runs in a later step.
Subscribed(c) ==
    LET f == Head(link[c])
    IN  /\ Received(c, "subscribed")
        /\ sync' = [sync EXCEPT ![c].phase = "resume",
                                ![c].ok = f.ok /\ f.seq = sync[c].seq]
        /\ Consume(c)
        /\ relayUnchanged
        /\ UNCHANGED <<request, resync, dirty, view, viewSequence, excused>>

\* _handle_board_update and _handle_board_remove: an event that continues the
\* view is applied, any other one is dropped and schedules a resync task
\* unless one is unfinished.
Continues(c, f) == f.seq = viewSequence[c] + 1

Event(c) ==
    LET f == Head(link[c])
    IN  /\ Received(c, "update") \/ Received(c, "remove")
        /\ sync[c].phase = "resume" => ReaderAhead
        /\ \/ /\ Continues(c, f)
              /\ viewSequence' = [viewSequence EXCEPT ![c] = f.seq]
              /\ view' = [view EXCEPT ![c] =
                            IF f.type = "update" THEN @ \cup f.ids ELSE @ \ f.ids]
              /\ dirty' = dirty \cup {c}
              /\ UNCHANGED resync
           \/ /\ ~Continues(c, f)
              /\ resync' = resync \cup {c}
              /\ UNCHANGED <<dirty, view, viewSequence>>
        /\ sync' = IF sync[c].phase = "resume"
                   THEN [sync EXCEPT ![c].skipped = TRUE] ELSE sync
        /\ Consume(c)
        /\ relayUnchanged
        /\ UNCHANGED <<request, excused>>

\* The requester resumes after a successful subscription: it installs the
\* snapshot.
Install(c) ==
    /\ sync[c].phase = "resume" /\ sync[c].ok
    /\ view' = [view EXCEPT ![c] = sync[c].ids]
    /\ viewSequence' = [viewSequence EXCEPT ![c] = sync[c].seq]
    /\ excused' = [excused EXCEPT ![c] =
          (IF sync[c].exact THEN {} ELSE {"stale snapshot"})
          \cup (IF sync[c].skipped THEN {"skipped event"} ELSE {})]
    /\ resync' = IF sync[c].kind = "resync" THEN resync \ {c} ELSE resync
    /\ dirty' = IF sync[c].kind = "reload" THEN dirty \ {c} ELSE dirty
    /\ sync' = [sync EXCEPT ![c] = NoSync]
    /\ relayUnchanged
    /\ UNCHANGED <<request, link>>

\* The requester resumes after an attempt that was overtaken: it tries again;
\* after the last attempt a joining client leaves, a reload keeps the view
\* and a resync task ends silently.
AttemptFailed(c) == sync[c].phase = "resume" /\ ~sync[c].ok

Retry(c) ==
    /\ AttemptFailed(c) /\ sync[c].tries < Tries
    /\ Attempt(c, sync[c].kind, sync[c].tries + 1)
    /\ relayUnchanged
    /\ UNCHANGED <<link, resync, dirty, view, viewSequence, excused>>

JoinFails(c) ==
    /\ AttemptFailed(c) /\ sync[c].tries = Tries /\ sync[c].kind = "join"
    /\ Leave(c)
    /\ UNCHANGED <<storeVars, sequence, maintained, announced, ghosts>>

GiveUp(c) ==
    /\ AttemptFailed(c) /\ sync[c].tries = Tries /\ sync[c].kind # "join"
    /\ sync' = [sync EXCEPT ![c] = NoSync]
    /\ IF sync[c].kind = "resync"
       THEN /\ resync' = resync \ {c}
            /\ excused' = [excused EXCEPT ![c] = @ \cup {"gave up"}]
            /\ UNCHANGED dirty
       ELSE /\ dirty' = dirty \ {c}
            /\ UNCHANGED <<resync, excused>>
    /\ relayUnchanged
    /\ UNCHANGED <<request, link, view, viewSequence>>

-----------------------------------------------------------------------------
(* Specification *)

\* The relay has opened its board, empty or with a record that outlived the last
\* lifetime (its poster's display token is nobody's now); nobody is connected.
FeedInit ==
    /\ now = 0 /\ steady = TRUE
    /\ messages \in {{}} \cup {{NewRecord(id, t)} : id \in MessageId, t \in Token \ Client}
    /\ seenIds = Ids(messages) /\ posts = messages
    /\ cooldowns = [t \in Token |-> IF \E p \in posts : p.token = t THEN Cooldown ELSE 0]
    /\ generation \in Generation
    /\ sequence = 0
    /\ connected = {} /\ subscribed = {} /\ maintained = TRUE
    /\ announced = Ids(messages) /\ ghosts = {}
    /\ handler = [c \in Client |-> Idle]
    /\ request = [c \in Client |-> NoRequest]
    /\ link = [c \in Client |-> <<>>]
    /\ sync = [c \in Client |-> NoSync]
    /\ resync = {} /\ dirty = {}
    /\ view = [c \in Client |-> {}]
    /\ viewSequence = [c \in Client |-> 0]
    /\ excused = [c \in Client |-> {}]

RelayStep(c) ==
    \/ ListAtOnce(c)
    \/ ListSuspends(c)
    \/ ListResumes(c)
    \/ Subscribe(c)
    \/ PostResumes(c)

ClientStep(c) ==
    \/ StartResync(c)
    \/ StalePage(c)
    \/ Page(c)
    \/ Subscribed(c)
    \/ Event(c)
    \/ Install(c)
    \/ Retry(c)
    \/ JoinFails(c)
    \/ GiveUp(c)

UserStep(c) ==
    \/ Connect(c)
    \/ Disconnect(c)
    \/ Reload(c)
    \/ \E id \in MessageId :
          \/ DuplicatePost(c, id)
          \/ RefusedPost(c, id)
          \/ PostAtOnce(c, id)
          \/ PostSuspends(c, id)

FeedNext ==
    \/ \E c \in Client : RelayStep(c) \/ ClientStep(c) \/ UserStep(c)
    \/ Maintenance
    \/ MaintenanceEnds
    \/ Tick

FeedSpec == FeedInit /\ [][FeedNext]_vars

\* The event loops of relay and client run every ready callback, and the
\* maintenance loop for as long as its task lives; users do what they like.
FairFeedSpec ==
    /\ FeedSpec
    /\ \A c \in Client : WF_vars(RelayStep(c)) /\ WF_vars(ClientStep(c))
    /\ WF_vars(Maintenance)

-----------------------------------------------------------------------------
(* Correctness *)

\* Posts that are committed and whose update is still to be broadcast.
Pending == {handler[c].id : c \in {d \in Client : handler[d].op = "post"}}

\* A client whose connection is quiet: subscribed, nothing in transit, no
\* synchronisation running or scheduled.
Quiet(c) ==
    /\ c \in subscribed
    /\ link[c] = <<>>
    /\ sync[c] = NoSync
    /\ c \notin resync

\* Shape of the relay's and the clients' state.
FeedTypeOK ==
    /\ TypeOK
    /\ sequence \in Nat
    /\ connected \subseteq Client
    /\ subscribed \subseteq connected
    /\ announced \cup ghosts \subseteq MessageId
    /\ maintained \in BOOLEAN
    /\ \A c \in Client :
          /\ handler[c].op \in {"idle", "list", "post"}
          /\ request[c].op \in {"none", "list", "subscribe"}
          /\ sync[c].phase \in {"none", "list", "subscribe", "resume"}
          /\ view[c] \subseteq MessageId
          /\ viewSequence[c] \in 0..sequence
    /\ resync \subseteq connected
    /\ dirty \subseteq connected

\* Every committed record has been broadcast, or its handler is about to: no
\* interleaving of posts, evictions, expiries and lists withholds a record
\* (relay.py 471-483).
NoRecordWithheld == Ids(messages) \subseteq announced \cup Pending

\* A quiet client lists every record of the board, at the relay's sequence, and
\* off the board nothing but what the relay itself broadcast wrongly: an update
\* sent after the record's removal, or a removal a refused duplicate keeps quiet
\* about (relay.py 478-482).  Unless one of three things happened to its last
\* synchronisation: the relay read the records before the sequence, or its
\* pages were of two boards with one sequence (stale snapshot), the reader
\* handled an event before the snapshot was installed (skipped event), or the
\* resync task used up its attempts.
ViewsAreCurrent ==
    \A c \in Client : Quiet(c) /\ excused[c] = {} =>
        /\ Ids(messages) \subseteq view[c] \cup Pending
        /\ view[c] \subseteq Ids(messages) \cup ghosts
        /\ viewSequence[c] = sequence

\* A snapshot collected from one or several pages is one board, the relay's
\* while it is at the snapshot's sequence, however posts, expiries and restarts
\* fall between the pages.  Not so when a page was read before an await
\* and numbered after it, or a refused duplicate passed between two pages
\* (exact is FALSE), see SubscriptionClosesRace (relay.py 465-469, 1015-1075).
SnapshotsAreWhole ==
    \A c \in Client :
        /\ sync[c].phase = "subscribe"
        /\ sync[c].exact
        /\ sync[c].seq = sequence
        => /\ Ids(messages) \subseteq sync[c].ids
           /\ sync[c].ids \subseteq Ids(messages) \cup ghosts

\* A gap that a client has noticed ends in a finished resync (client.py
\* 774-778, 911-924).
GapsAreResynced == \A c \in Client : c \in resync ~> c \notin resync

\* An expired record leaves what subscribers are told, as long as the
\* maintenance task lives and nobody posts a message ID twice (relay.py 699-710).
ExpiredAreAnnounced ==
    \A id \in MessageId :
        id \in Ids(Expired) ~> id \notin announced \/ ~maintained

\* Documented (protocol-transport-v1.md 149-152): subscribing at the sequence
\* of the snapshot closes the race between the list and the live events.
SubscriptionClosesRace ==
    \A c \in Client : Quiet(c) => Ids(messages) \subseteq view[c] \cup Pending

=============================================================================

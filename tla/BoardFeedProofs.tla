--------------------------- MODULE BoardFeedProofs ---------------------------
(***************************************************************************)
(* Proofs about the live Hub feed, for any number of clients, posts, pages *)
(* and attempts, and for every interleaving of suspended handlers, events  *)
(* and synchronisations.                                                   *)
(***************************************************************************)
EXTENDS BoardFeed, BoardStoreProofs, SequenceTheorems

-----------------------------------------------------------------------------
(* The inductive invariant *)

\* The records of the state.
Handler ==
    {Idle} \cup [op : {"list"}, records : SUBSET Record]
           \cup [op : {"post"}, id : MessageId]

Request ==
    {NoRequest} \cup [op : {"list"}, offset : Nat, snapshot : Nat]
                \cup [op : {"subscribe"}, after : Nat]

EventFrame == [type : {"update", "remove"}, seq : Nat, ids : SUBSET MessageId]

ReplyFrame == [type : {"subscribed"}, seq : Nat, ok : BOOLEAN]

ListFrame ==
    [type : {"page"}, seq : Nat, restart : BOOLEAN, next : Nat, done : BOOLEAN,
     exact : BOOLEAN, of : SUBSET Record, ids : SUBSET MessageId]

Frame == EventFrame \cup ReplyFrame \cup ListFrame

SyncRecord ==
    [phase : {"list", "subscribe", "resume"}, kind : {"join", "resync", "reload"},
     tries : Nat, seq : Nat, offset : Nat, of : SUBSET Record,
     ids : SUBSET MessageId, exact : BOOLEAN, ok : BOOLEAN, skipped : BOOLEAN]

Sync == {NoSync} \cup SyncRecord

Excuse == {"stale snapshot", "skipped event", "gave up"}

FeedTypes ==
    /\ sequence \in Nat
    /\ connected \subseteq Client
    /\ subscribed \subseteq connected
    /\ announced \subseteq MessageId
    /\ ghosts \subseteq MessageId
    /\ maintained \in BOOLEAN
    /\ handler \in [Client -> Handler]
    /\ request \in [Client -> Request]
    /\ link \in [Client -> Seq(Frame)]
    /\ sync \in [Client -> Sync]
    /\ resync \subseteq Client
    /\ dirty \subseteq Client
    /\ view \in [Client -> SUBSET MessageId]
    /\ viewSequence \in [Client -> Nat]
    /\ excused \in [Client -> SUBSET Excuse]

IsResponse(f) == f.type \in {"page", "subscribed"}

IsEvent(f) == f.type \in {"update", "remove"}

\* What a list that is up to date has, what it may have, and what was broadcast
\* or is about to be.
Must == Ids(messages) \ Pending

May == Ids(messages) \cup ghosts

Known == announced \cup Pending

\* No sequence number is ahead of the relay's, and a client that is not
\* connected has nothing.
Bounded(c) ==
    /\ viewSequence[c] <= sequence
    /\ sync[c] # NoSync => sync[c].seq <= sequence
    /\ \A i \in 1..Len(link[c]) : link[c][i].seq <= sequence
    /\ c \notin connected =>
          /\ link[c] = <<>> /\ request[c] = NoRequest /\ sync[c] = NoSync
          /\ c \notin resync /\ c \notin dirty

\* A synchronisation has one request or one response in transit, and it asks for
\* what the client has not got.
Conversing(c) ==
    /\ handler[c].op = "list" =>
          request[c].op = "list" /\ IsFiniteSet(handler[c].records)
    /\ request[c].op = "list" =>
          /\ sync[c].phase = "list"
          /\ request[c].offset = sync[c].offset
          /\ sync[c].offset > 0 => request[c].snapshot = sync[c].seq
    /\ request[c].op = "subscribe" =>
          sync[c].phase = "subscribe" /\ request[c].after = sync[c].seq
    /\ \A i \in 1..Len(link[c]) : IsResponse(link[c][i]) =>
          /\ request[c] = NoRequest
          /\ sync[c].phase = IF link[c][i].type = "page" THEN "list" ELSE "subscribe"
          /\ \A j \in 1..Len(link[c]) : IsResponse(link[c][j]) => j = i

\* Who is told that the subscription succeeded is subscribed, and only a joining
\* client is not.
SubscriptionsKnown(c) == c \in connected \ subscribed =>
    /\ Joining(c)
    /\ \A i \in 1..Len(link[c]) : link[c][i].type = "subscribed" => ~link[c][i].ok
    /\ sync[c].phase = "resume" => ~sync[c].ok

\* The records were the board at a sequence s: as long as s is the relay's
\* sequence they still are, but for those a duplicate post has cleaned up.
OfBoard(of, s) ==
    s = sequence => messages \subseteq of /\ Ids(of) \subseteq May

Between(of, m, n) == Ids({r \in of : Rank(r, of) \in m..(n - 1)})

\* What a client has collected is the first part of one board, as long as the
\* relay's answers were exact.
Collecting(c) ==
    /\ sync[c].phase = "list" /\ sync[c].exact =>
          sync[c].ids = Between(sync[c].of, 0, sync[c].offset)
    /\ sync[c].phase = "subscribe" /\ sync[c].exact => sync[c].ids = Ids(sync[c].of)
    /\ \/ sync[c].phase = "list" /\ sync[c].exact /\ sync[c].offset > 0
       \/ sync[c].phase = "subscribe" /\ sync[c].exact
       => OfBoard(sync[c].of, sync[c].seq)

\* A page in transit is the next part of the board it is of.
PagesFit(c) ==
    \A i \in 1..Len(link[c]) :
       LET f == link[c][i]
       IN  f.type = "page" /\ ~f.restart =>
           /\ IsFiniteSet(f.of)
           /\ f.ids = Between(f.of, sync[c].offset, f.next)
           /\ sync[c].offset <= f.next
           /\ f.done <=> f.next = Cardinality(f.of)
           /\ f.exact => OfBoard(f.of, f.seq)
\* What applying the frames of q from position k on makes of the view v: an ID
\* is in it when it was and is not removed, or is added and not removed later.
Adds(f, id) == f.type = "update" /\ id \in f.ids

Removes(f, id) == f.type = "remove" /\ id \in f.ids

Told(q, k, v, id) ==
    \/ id \in v /\ \A i \in (k + 1)..Len(q) : ~Removes(q[i], id)
    \/ \E j \in (k + 1)..Len(q) :
          Adds(q[j], id) /\ \A i \in (j + 1)..Len(q) : ~Removes(q[i], id)

\* The events of q from position k on are those after base up to top, in order.
Ahead(q, k, base, top) ==
    /\ base <= top
    /\ \A i \in (k + 1)..Len(q) : IsEvent(q[i]) =>
          /\ base < q[i].seq /\ q[i].seq <= top
          /\ \A j \in (i + 1)..Len(q) : IsEvent(q[j]) => q[i].seq < q[j].seq
    /\ \A n \in (base + 1)..top :
          \E i \in (k + 1)..Len(q) : IsEvent(q[i]) /\ q[i].seq = n

Current(q, k, v, base, top, must, may) ==
    /\ Ahead(q, k, base, top)
    /\ \A id \in must : Told(q, k, v, id)
    /\ \A id \in MessageId : Told(q, k, v, id) => id \in may

\* What a subscriber will list once everything in transit has arrived is the
\* board: its view, the snapshot whose subscription is under way, and the one it
\* is about to install.
ViewPromised(c) ==
    c \in subscribed /\ ~Joining(c) /\ c \notin resync /\ excused[c] = {} =>
        Current(link[c], 0, view[c], viewSequence[c], sequence, Must, May)

ReplyPromised(c) ==
    c \in subscribed => \A i \in 1..Len(link[c]) :
        link[c][i].type = "subscribed" /\ link[c][i].ok /\ sync[c].exact =>
            Current(link[c], i, sync[c].ids, sync[c].seq, sequence, Must, May)

InstallPromised(c) ==
    c \in subscribed =>
        (/\ sync[c].phase = "resume" /\ sync[c].ok
         /\ sync[c].exact /\ ~sync[c].skipped
         => Current(link[c], 0, sync[c].ids, sync[c].seq, sequence, Must, May))

ClientInv(c) ==
    /\ Bounded(c)
    /\ Conversing(c)
    /\ SubscriptionsKnown(c)
    /\ Collecting(c)
    /\ PagesFit(c)
    /\ ViewPromised(c)
    /\ ReplyPromised(c)
    /\ InstallPromised(c)

FeedInv ==
    /\ RowsInv /\ WithinCapacity
    /\ FeedTypes
    /\ NoRecordWithheld
    /\ \A c \in Client : ClientInv(c)
-----------------------------------------------------------------------------
(* What a step of the feed does to the store *)

\* The part of a step that concerns the store: a transaction of one of the
\* clients, the cleanup or the clock.
StoreStep ==
    \/ \E id \in MessageId, t \in Token : Post(id, t)
    \/ CleanUp
    \/ ClockTick
    \/ UNCHANGED storeVars

\* A list begins with the cleanup of the store.
LEMMA ListSteps ==
    ASSUME NEW c \in Client, ListAtOnce(c) \/ ListSuspends(c)
    PROVE  CleanUp
BY DEF ListAtOnce, ListSuspends

\* A post, however it ends, is a post of the store.
LEMMA PostSteps ==
    ASSUME NEW c \in Client, NEW id \in MessageId,
           \/ DuplicatePost(c, id)
           \/ RefusedPost(c, id)
           \/ PostAtOnce(c, id)
           \/ PostSuspends(c, id)
    PROVE  \E t \in Token : Post(id, t)
BY FeedAssumption DEF Post, DuplicatePost, RefusedPost, PostAtOnce, PostSuspends

\* The steps of a client's protocol leave the store alone.
LEMMA ProtocolSteps ==
    ASSUME NEW c \in Client,
           \/ ListResumes(c) \/ Subscribe(c) \/ PostResumes(c)
           \/ Connect(c) \/ Disconnect(c) \/ Reload(c) \/ ClientStep(c)
    PROVE  UNCHANGED storeVars
  <1>1. ASSUME ListResumes(c) \/ Subscribe(c) \/ PostResumes(c) PROVE UNCHANGED storeVars
    BY <1>1 DEF ListResumes, Subscribe, PostResumes
  <1>2. ASSUME Connect(c) \/ Disconnect(c) \/ Reload(c) PROVE UNCHANGED storeVars
    BY <1>2 DEF Connect, Disconnect, Reload, relayUnchanged
  <1>3. ASSUME ClientStep(c) PROVE UNCHANGED storeVars
    BY <1>3
    DEF ClientStep, StartResync, StalePage, Page, Subscribed, Event, Install, Retry,
        JoinFails, GiveUp, relayUnchanged
  <1> QED
    BY <1>1, <1>2, <1>3

\* Every step of the feed is one of the store's, or leaves the store alone.
LEMMA FeedStepsStore == [FeedNext]_vars => StoreStep
  <1> SUFFICES ASSUME [FeedNext]_vars PROVE StoreStep
    OBVIOUS
  <1>1. ASSUME NEW c \in Client, RelayStep(c) PROVE StoreStep
    BY <1>1, ListSteps, ProtocolSteps DEF RelayStep, StoreStep
  <1>2. ASSUME NEW c \in Client, ClientStep(c) PROVE StoreStep
    BY <1>2, ProtocolSteps DEF StoreStep
  <1>3. ASSUME NEW c \in Client, UserStep(c) PROVE StoreStep
    BY <1>3, PostSteps, ProtocolSteps DEF UserStep, StoreStep
  <1>4. ASSUME Maintenance \/ MaintenanceEnds \/ Tick PROVE StoreStep
    BY <1>4 DEF Maintenance, MaintenanceEnds, Tick, StoreStep
  <1>5. ASSUME UNCHANGED vars PROVE StoreStep
    BY <1>5 DEF vars, StoreStep
  <1> QED
    BY <1>1, <1>2, <1>3, <1>4, <1>5 DEF FeedNext

\* ... and those are steps of the store's specification.
LEMMA StoreStepIsNext == StoreStep => [Next]_storeVars
BY DEF StoreStep, Next

\* The rows of the initial board.
LEMMA InitRows == FeedInit => RowsInv /\ WithinCapacity
  <1> SUFFICES ASSUME FeedInit PROVE RowsInv /\ WithinCapacity
    OBVIOUS
  <1>1. posts = {} \/ \E id \in MessageId, t \in Token : posts = {NewRecord(id, t)}
    BY DEF FeedInit
  <1>2. /\ messages = posts /\ seenIds = Ids(posts) /\ now = 0 /\ steady = TRUE
        /\ generation \in Generation
        /\ cooldowns = [t \in Token |-> IF \E p \in posts : p.token = t THEN Cooldown ELSE 0]
    BY DEF FeedInit
  <1>3. /\ \A p, q \in posts : p = q
        /\ \A p \in posts : p \in Record /\ p.created = 0 /\ p.token \in Token
    BY <1>1, <1>2 DEF NewRecord, Record
  <1>4. TypeOK
    <2>1. cooldowns \in [Token -> Nat]
      BY <1>2, StoreAssumption
    <2>2. seenIds \subseteq MessageId
      BY <1>2, <1>3 DEF Ids, Record
    <2> QED
      BY <1>2, <1>3, <2>1, <2>2 DEF TypeOK
  <1>5. CooldownOutlivesRecord
    <2>1. \A m \in messages : ExpiresAt(m) = Lifetime /\ cooldowns[m.token] = Cooldown
      BY <1>2, <1>3, StoreAssumption DEF ExpiresAt
    <2> QED
      BY <2>1, LifetimeWithinCooldown DEF CooldownOutlivesRecord
  <1>6. CooldownIsEarned
    BY <1>2, <1>3, StoreAssumption DEF CooldownIsEarned
  <1>7. WithinCapacity
    <2>1. CASE posts = {}
      BY <1>2, <2>1, FS_EmptySet, StoreAssumption DEF WithinCapacity
    <2>2. ASSUME NEW x, posts = {x} PROVE WithinCapacity
      <3>1. IsFiniteSet({x}) /\ Cardinality({x}) = 1
        BY FS_Singleton
      <3> QED
        BY <1>2, <2>2, <3>1, StoreAssumption DEF WithinCapacity
    <2> QED
      BY <1>1, <2>1, <2>2
  <1> QED
    BY <1>2, <1>3, <1>4, <1>5, <1>6, <1>7
    DEF RowsInv, SeenArePosted, AcceptedOnce, OneRecordPerToken

\* Nothing that a transaction removes is listed after it, because an ID is
\* accepted once; and what it lists that was not listed is the post's.
LEMMA RemovedAreGone ==
    ASSUME RowsInv, RowsInv', posts \subseteq posts'
    PROVE  Ids(messages') \cap RemovedIds = {}
  <1> SUFFICES ASSUME NEW m \in messages',
                      NEW r \in (messages \cup (posts' \ posts)) \ messages', m.id = r.id
               PROVE  FALSE
    BY DEF RemovedIds, Ids
  <1>1. m \in posts' /\ r \in posts'
    BY DEF RowsInv
  <1> QED
    BY <1>1 DEF RowsInv, AcceptedOnce

\* What is announced as removed are message IDs.
LEMMA RemovedAreIds ==
    ASSUME TypeOK, TypeOK'
    PROVE  RemovedIds \subseteq MessageId
BY DEF RemovedIds, Ids, TypeOK, Record

\* What is not removed stays.
LEMMA OthersStay == Ids(messages) \subseteq Ids(messages') \cup RemovedIds
BY DEF RemovedIds, Ids

\* What each transaction does to the rows.
LEMMA CleanupRows ==
    ASSUME Cleanup, UNCHANGED posts
    PROVE  /\ messages' \subseteq messages
           /\ RemovedIds = {} => messages' = messages
BY DEF Cleanup, Unexpired, RemovedIds, Ids

\* An accepted post adds one row and forgets none of the earlier posts.
LEMMA AcceptedRows ==
    ASSUME NEW id \in MessageId, NEW t \in Token, PostAccepted(id, t)
    PROVE  /\ posts \subseteq posts'
           /\ Ids(messages') \subseteq Ids(messages) \cup {id}
  <1>1. /\ messages' \subseteq Unexpired \cup {NewRecord(id, t)}
        /\ posts' = posts \cup {NewRecord(id, t)}
    BY DEF PostAccepted
  <1>2. NewRecord(id, t).id = id /\ Unexpired \subseteq messages
    BY DEF NewRecord, Unexpired
  <1> QED
    BY <1>1, <1>2 DEF Ids

-----------------------------------------------------------------------------
(* Types *)

\* The fields of a frame.
LEMMA FrameFields ==
    \A f \in Frame :
        /\ f.seq \in Nat
        /\ f.type \in {"update", "remove", "subscribed", "page"}
        /\ f.type \in {"update", "remove"} => f.ids \subseteq MessageId
        /\ f.type = "subscribed" => f.ok \in BOOLEAN
        /\ f.type = "page" =>
              /\ f.restart \in BOOLEAN /\ f.next \in Nat /\ f.done \in BOOLEAN
              /\ f.exact \in BOOLEAN /\ f.of \subseteq Record /\ f.ids \subseteq MessageId
BY DEF Frame, EventFrame, ReplyFrame, ListFrame

\* The fields of a synchronisation.
LEMMA SyncFields ==
    \A s \in Sync :
        /\ s = NoSync <=> s.phase = "none"
        /\ s # NoSync =>
              /\ s \in SyncRecord
              /\ s.phase \in {"list", "subscribe", "resume"}
              /\ s.kind \in {"join", "resync", "reload"}
              /\ s.tries \in Nat /\ s.seq \in Nat /\ s.offset \in Nat
              /\ s.of \subseteq Record /\ s.ids \subseteq MessageId
              /\ s.exact \in BOOLEAN /\ s.ok \in BOOLEAN /\ s.skipped \in BOOLEAN
BY DEF Sync, SyncRecord, NoSync

\* The fields of a request and of a handler.
LEMMA RequestFields ==
    \A r \in Request :
        /\ r = NoRequest <=> r.op = "none"
        /\ r.op \in {"none", "list", "subscribe"}
        /\ r.op = "list" => r.offset \in Nat /\ r.snapshot \in Nat
        /\ r.op = "subscribe" => r.after \in Nat
BY DEF Request, NoRequest

\* The fields of a suspended handler.
LEMMA HandlerFields ==
    \A h \in Handler :
        /\ h = Idle <=> h.op = "idle"
        /\ h.op \in {"idle", "list", "post"}
        /\ h.op = "list" => h.records \subseteq Record
        /\ h.op = "post" => h.id \in MessageId
BY DEF Handler, Idle

\* The frames that the relay makes.
LEMMA EventFrames ==
    ASSUME NEW s \in Nat, NEW ids \in SUBSET MessageId, NEW id \in MessageId
    PROVE  /\ RemoveFrame(s, ids) \in Frame
           /\ UpdateFrame(s, id) \in Frame
BY DEF RemoveFrame, UpdateFrame, Frame, EventFrame

\* The answer to a subscription.
LEMMA ReplyFrames ==
    ASSUME sequence \in Nat, NEW ok \in BOOLEAN
    PROVE  SubscribeReply(ok) \in Frame
BY DEF SubscribeReply, Frame, ReplyFrame

\* A page of a snapshot, and the request to start over.
LEMMA PageFrames ==
    ASSUME NEW c \in Client, request[c].offset \in Nat, NEW s \in Nat,
           NEW exact \in BOOLEAN, NEW records \in SUBSET Record, IsFiniteSet(records)
    PROVE  /\ PageFrame(c, records, s, exact) \in Frame
           /\ RestartFrame(s) \in Frame
  <1> DEFINE from == request[c].offset
             size == Cardinality(records)
             upto == IF from + PageSize < size THEN from + PageSize ELSE size
             ids == Ids({m \in records : Rank(m, records) \in from..(upto - 1)})
  <1>1. size \in Nat
    BY FS_CardinalityType
  <1>2. upto \in Nat
    BY <1>1, FeedAssumption
  <1>3. ids \subseteq MessageId
    BY DEF Ids, Record
  <1>4. PageFrame(c, records, s, exact) =
           [type |-> "page", seq |-> s, restart |-> FALSE, next |-> upto,
            done |-> (upto = size), exact |-> exact, of |-> records, ids |-> ids]
    BY DEF PageFrame
  <1> HIDE DEF from, size, upto, ids
  <1>5. PageFrame(c, records, s, exact) \in ListFrame
    BY <1>2, <1>3, <1>4 DEF ListFrame
  <1>6. RestartFrame(s) \in ListFrame
    BY DEF RestartFrame, ListFrame
  <1> QED
    BY <1>5, <1>6 DEF Frame

\* The links after frames are queued or taken.
LEMMA SendTypes ==
    ASSUME link \in [Client -> Seq(Frame)], NEW c \in Client, NEW f \in Frame, Send(c, f)
    PROVE  link' \in [Client -> Seq(Frame)]
BY DEF Send

\* A broadcast reaches the subscribers, at the end of their queues.
LEMMA BroadcastTypes ==
    ASSUME link \in [Client -> Seq(Frame)], NEW f \in Frame, Broadcast(<<f>>)
    PROVE  /\ link' \in [Client -> Seq(Frame)]
           /\ \A d \in Client :
                 link'[d] = IF d \in subscribed THEN Append(link[d], f) ELSE link[d]
  <1>1. <<f>> \in Seq(Frame)
    OBVIOUS
  <1>2. \A d \in Client : link[d] \in Seq(Frame) /\ link[d] \o <<f>> \in Seq(Frame)
                          /\ link[d] \o <<f>> = Append(link[d], f)
    BY <1>1
  <1> QED
    BY <1>2 DEF Broadcast

\* Taking a frame shortens one queue.
LEMMA ConsumeTypes ==
    ASSUME link \in [Client -> Seq(Frame)], NEW c \in Client, link[c] # <<>>, Consume(c)
    PROVE  /\ link' \in [Client -> Seq(Frame)]
           /\ link'[c] = Tail(link[c])
           /\ Head(link[c]) \in Frame
BY DEF Consume

\* A connection that goes: nothing of it is left but a suspended post.
Gone(c) ==
    /\ connected' = connected \ {c}
    /\ subscribed' = subscribed \ {c}
    /\ resync' = resync \ {c}
    /\ dirty' = dirty \ {c}
    /\ request'[c] = NoRequest
    /\ link'[c] = <<>>
    /\ sync'[c] = NoSync
    /\ view'[c] = {}
    /\ viewSequence'[c] = 0
    /\ handler'[c] = IF handler[c].op = "list" THEN Idle ELSE handler[c]

\* What is a client's own, and no step of another client touches.
OwnButLink(d) ==
    /\ request'[d] = request[d]
    /\ sync'[d] = sync[d]
    /\ view'[d] = view[d]
    /\ viewSequence'[d] = viewSequence[d]
    /\ excused'[d] = excused[d]
    /\ d \in connected' <=> d \in connected
    /\ d \in subscribed' <=> d \in subscribed
    /\ d \in resync' <=> d \in resync
    /\ d \in dirty' <=> d \in dirty

OwnKept(d) == OwnButLink(d) /\ link'[d] = link[d] /\ handler'[d] = handler[d]

\* Who leaves takes everything of the connection along, and nothing of others.
LEMMA LeaveTypes ==
    ASSUME FeedTypes, NEW c \in Client, Leave(c), sequence' \in Nat, announced' \subseteq announced,
           UNCHANGED <<maintained, ghosts>>
    PROVE  /\ FeedTypes'
           /\ Gone(c)
           /\ \A d \in Client : d # c => OwnKept(d)
  <1>1. handler'[c] = IF handler[c].op = "list" THEN Idle ELSE handler[c]
    BY DEF Leave, FeedTypes
  <1>2. Idle \in Handler /\ NoRequest \in Request /\ NoSync \in Sync /\ <<>> \in Seq(Frame)
    BY DEF Handler, Request, Sync
  <1>3. handler' \in [Client -> Handler] /\ request' \in [Client -> Request]
        /\ link' \in [Client -> Seq(Frame)] /\ sync' \in [Client -> Sync]
    BY <1>2 DEF Leave, FeedTypes
  <1>4. Gone(c)
    BY <1>1 DEF Gone, Leave, FeedTypes
  <1>5. ASSUME NEW d \in Client, d # c PROVE OwnKept(d)
    BY <1>5 DEF OwnKept, OwnButLink, Leave, FeedTypes
  <1>6. view' \in [Client -> SUBSET MessageId] /\ viewSequence' \in [Client -> Nat]
    BY DEF Leave, FeedTypes
  <1> QED
    BY <1>3, <1>4, <1>5, <1>6 DEF FeedTypes, Leave

\* An attempt of a synchronisation starts from nothing.
NewSync(kind, tries) ==
    [phase |-> "list", kind |-> kind, tries |-> tries, seq |-> 0, offset |-> 0,
     of |-> {}, ids |-> {}, exact |-> TRUE, ok |-> FALSE, skipped |-> FALSE]

\* An attempt is one new synchronisation and one request.
LEMMA AttemptTypes ==
    ASSUME FeedTypes, NEW c \in Client, NEW kind \in {"join", "resync", "reload"},
           NEW tries \in Nat, Attempt(c, kind, tries)
    PROVE  /\ sync' \in [Client -> Sync] /\ request' \in [Client -> Request]
           /\ sync'[c] = NewSync(kind, tries) /\ sync'[c] \in SyncRecord
           /\ request'[c] = [op |-> "list", offset |-> 0, snapshot |-> 0]
           /\ \A d \in Client : d # c => sync'[d] = sync[d] /\ request'[d] = request[d]
  <1>1. NewSync(kind, tries) \in SyncRecord
    BY DEF NewSync, SyncRecord
  <1>2. [op |-> "list", offset |-> 0, snapshot |-> 0] \in Request
    BY DEF Request
  <1>3. /\ sync' = [sync EXCEPT ![c] = NewSync(kind, tries)]
        /\ request' = [request EXCEPT ![c] = [op |-> "list", offset |-> 0, snapshot |-> 0]]
    BY DEF Attempt, NewSync
  <1> QED
    BY <1>1, <1>2, <1>3 DEF FeedTypes, Sync

-----------------------------------------------------------------------------
(* What is told to a client when a frame is queued or taken *)

\* An ID is told after a further frame when it was and is not removed, or is added.
LEMMA AppendTold ==
    ASSUME NEW q \in Seq(Frame), NEW k \in 0..Len(q), NEW v, NEW f \in Frame, NEW id
    PROVE  Told(Append(q, f), k, v, id) <=>
              (Told(q, k, v, id) /\ ~Removes(f, id)) \/ Adds(f, id)
  <1> DEFINE p == Append(q, f)
  <1>1. /\ Len(q) \in Nat /\ Len(p) = Len(q) + 1 /\ p[Len(q) + 1] = f
        /\ \A i \in 1..Len(q) : p[i] = q[i]
    OBVIOUS
  <1>2. Adds(f, id) => ~Removes(f, id)
    BY DEF Adds, Removes
  <1> HIDE DEF p
  <1>3. ASSUME NEW j \in k..Len(q)
        PROVE  (\A i \in (j + 1)..Len(p) : ~Removes(p[i], id)) <=>
               (\A i \in (j + 1)..Len(q) : ~Removes(q[i], id)) /\ ~Removes(f, id)
    BY <1>1
  <1>4. (\A i \in (Len(p) + 1)..Len(p) : ~Removes(p[i], id))
    BY <1>1
  <1>5. ASSUME Told(p, k, v, id), ~Adds(f, id)
        PROVE  Told(q, k, v, id) /\ ~Removes(f, id)
    <2>1. CASE id \in v /\ \A i \in (k + 1)..Len(p) : ~Removes(p[i], id)
      BY <1>3, <2>1, k \in k..Len(q) DEF Told
    <2>2. ASSUME NEW j \in (k + 1)..Len(p), Adds(p[j], id),
                 \A i \in (j + 1)..Len(p) : ~Removes(p[i], id)
          PROVE  Told(q, k, v, id) /\ ~Removes(f, id)
      <3>1. j \in (k + 1)..Len(q) /\ p[j] = q[j] /\ j \in k..Len(q)
        BY <1>1, <1>5, <2>2
      <3> QED
        BY <1>3, <2>2, <3>1 DEF Told
    <2> QED
      BY <1>5, <2>1, <2>2 DEF Told
  <1>6. ASSUME Adds(f, id) PROVE Told(p, k, v, id)
    <2>1. Len(p) \in (k + 1)..Len(p) /\ p[Len(p)] = f
      BY <1>1
    <2> QED
      BY <1>4, <1>6, <2>1 DEF Told
  <1>7. ASSUME Told(q, k, v, id), ~Removes(f, id) PROVE Told(p, k, v, id)
    <2>1. CASE id \in v /\ \A i \in (k + 1)..Len(q) : ~Removes(q[i], id)
      BY <1>3, <1>7, <2>1, k \in k..Len(q) DEF Told
    <2>2. ASSUME NEW j \in (k + 1)..Len(q), Adds(q[j], id),
                 \A i \in (j + 1)..Len(q) : ~Removes(q[i], id)
          PROVE  Told(p, k, v, id)
      <3>1. j \in (k + 1)..Len(p) /\ p[j] = q[j] /\ j \in k..Len(q)
        BY <1>1, <2>2
      <3> QED
        BY <1>3, <1>7, <2>2, <3>1 DEF Told
    <2> QED
      BY <1>7, <2>1, <2>2 DEF Told
  <1> QED
    BY <1>2, <1>5, <1>6, <1>7 DEF p

\* The elements of a queue whose first frame was taken.
LEMMA TailElements ==
    ASSUME NEW q \in Seq(Frame), q # <<>>
    PROVE  /\ Tail(q) \in Seq(Frame) /\ Head(q) \in Frame /\ Head(q) = q[1]
           /\ Len(q) \in Nat /\ Len(q) >= 1 /\ Len(Tail(q)) = Len(q) - 1
           /\ \A i \in 1..(Len(q) - 1) : Tail(q)[i] = q[i + 1]
OBVIOUS

\* What is told from a later position does not depend on the head.
LEMMA TailToldLater ==
    ASSUME NEW q \in Seq(Frame), q # <<>>, NEW k \in 1..Len(q), NEW v, NEW id
    PROVE  Told(Tail(q), k - 1, v, id) <=> Told(q, k, v, id)
  <1> DEFINE p == Tail(q)
  <1>1. /\ Len(q) \in Nat /\ Len(q) >= 1 /\ Len(p) = Len(q) - 1
        /\ \A i \in 1..(Len(q) - 1) : p[i] = q[i + 1]
    BY TailElements
  <1> HIDE DEF p
  <1>2. ASSUME NEW j \in k..Len(q)
        PROVE  (\A i \in ((j - 1) + 1)..Len(p) : ~Removes(p[i], id)) <=>
               (\A i \in (j + 1)..Len(q) : ~Removes(q[i], id))
    <2>1. ASSUME \A i \in ((j - 1) + 1)..Len(p) : ~Removes(p[i], id), NEW i \in (j + 1)..Len(q)
          PROVE  ~Removes(q[i], id)
      <3>1. i - 1 \in ((j - 1) + 1)..Len(p) /\ i - 1 \in 1..(Len(q) - 1) /\ (i - 1) + 1 = i
        BY <1>1, <2>1
      <3>2. p[i - 1] = q[i]
        BY <1>1, <3>1
      <3> QED
        BY <2>1, <3>1, <3>2
    <2>2. ASSUME \A i \in (j + 1)..Len(q) : ~Removes(q[i], id), NEW i \in ((j - 1) + 1)..Len(p)
          PROVE  ~Removes(p[i], id)
      BY <1>1, <2>2
    <2> QED
      BY <2>1, <2>2
  <1>3. ASSUME Told(p, k - 1, v, id) PROVE Told(q, k, v, id)
    <2>1. CASE id \in v /\ \A i \in ((k - 1) + 1)..Len(p) : ~Removes(p[i], id)
      BY <1>2, <2>1, k \in k..Len(q) DEF Told
    <2>2. ASSUME NEW j \in ((k - 1) + 1)..Len(p), Adds(p[j], id),
                 \A i \in (j + 1)..Len(p) : ~Removes(p[i], id)
          PROVE  Told(q, k, v, id)
      <3>1. j + 1 \in (k + 1)..Len(q) /\ j + 1 \in k..Len(q) /\ p[j] = q[j + 1]
            /\ ((j + 1) - 1) + 1 = j + 1
        BY <1>1, <2>2
      <3>2. \A i \in ((j + 1) + 1)..Len(q) : ~Removes(q[i], id)
        BY <1>2, <2>2, <3>1
      <3> QED
        BY <2>2, <3>1, <3>2 DEF Told
    <2> QED
      BY <1>3, <2>1, <2>2 DEF Told
  <1>4. ASSUME Told(q, k, v, id) PROVE Told(p, k - 1, v, id)
    <2>1. CASE id \in v /\ \A i \in (k + 1)..Len(q) : ~Removes(q[i], id)
      BY <1>2, <2>1, k \in k..Len(q) DEF Told
    <2>2. ASSUME NEW j \in (k + 1)..Len(q), Adds(q[j], id),
                 \A i \in (j + 1)..Len(q) : ~Removes(q[i], id)
          PROVE  Told(p, k - 1, v, id)
      <3>1. j - 1 \in ((k - 1) + 1)..Len(p) /\ j \in k..Len(q) /\ j - 1 \in 1..(Len(q) - 1)
            /\ (j - 1) + 1 = j
        BY <1>1, <2>2
      <3>2. p[j - 1] = q[j] /\ \A i \in ((j - 1) + 1)..Len(p) : ~Removes(p[i], id)
        BY <1>1, <1>2, <2>2, <3>1
      <3> QED
        BY <2>2, <3>1, <3>2 DEF Told
    <2> QED
      BY <1>4, <2>1, <2>2 DEF Told
  <1> QED
    BY <1>3, <1>4 DEF p

\* What a view becomes when an event is applied to it.
Apply(f, v) ==
    IF f.type = "update" THEN v \cup f.ids
    ELSE IF f.type = "remove" THEN v \ f.ids ELSE v

\* Taking the head from the front applies it to the view.
LEMMA TailTold ==
    ASSUME NEW q \in Seq(Frame), q # <<>>, NEW v, NEW id
    PROVE  Told(Tail(q), 0, Apply(Head(q), v), id) <=> Told(q, 0, v, id)
  <1> DEFINE f == Head(q)
  <1>1. f = q[1] /\ Len(q) \in Nat /\ Len(q) >= 1
    BY TailElements
  <1>2. id \in Apply(f, v) <=> (id \in v /\ ~Removes(f, id)) \/ Adds(f, id)
    BY DEF Apply, Adds, Removes
  <1>3. Told(Tail(q), 0, Apply(f, v), id) <=> Told(q, 1, Apply(f, v), id)
    <2>1. 1 \in 1..Len(q) /\ 1 - 1 = 0
      BY <1>1
    <2> QED
      BY <2>1, TailToldLater
  <1> HIDE DEF f
  <1>4. (\A i \in 1..Len(q) : ~Removes(q[i], id)) <=>
        (\A i \in 2..Len(q) : ~Removes(q[i], id)) /\ ~Removes(f, id)
    BY <1>1
  <1>5. Told(q, 1, Apply(f, v), id) <=>
           \/ id \in Apply(f, v) /\ \A i \in 2..Len(q) : ~Removes(q[i], id)
           \/ \E j \in 2..Len(q) : Adds(q[j], id) /\ \A i \in (j + 1)..Len(q) : ~Removes(q[i], id)
    BY DEF Told
  <1>6. Told(q, 0, v, id) <=>
           \/ id \in v /\ \A i \in 1..Len(q) : ~Removes(q[i], id)
           \/ \E j \in 1..Len(q) : Adds(q[j], id) /\ \A i \in (j + 1)..Len(q) : ~Removes(q[i], id)
    BY DEF Told
  <1>7. (\E j \in 1..Len(q) : Adds(q[j], id) /\ \A i \in (j + 1)..Len(q) : ~Removes(q[i], id)) <=>
           \/ Adds(f, id) /\ \A i \in 2..Len(q) : ~Removes(q[i], id)
           \/ \E j \in 2..Len(q) : Adds(q[j], id) /\ \A i \in (j + 1)..Len(q) : ~Removes(q[i], id)
    <2>1. 1..Len(q) = {1} \cup 2..Len(q)
      BY <1>1
    <2> QED
      BY <1>1, <2>1
  <1> QED
    BY <1>2, <1>3, <1>4, <1>5, <1>6, <1>7 DEF f

\* The next event keeps the events of a link in order, and a frame that is no
\* event changes nothing.
LEMMA AppendEventAhead ==
    ASSUME NEW q \in Seq(Frame), NEW k \in 0..Len(q), NEW base \in Nat, NEW top \in Nat,
           NEW f \in Frame, IsEvent(f), f.seq = top + 1, Ahead(q, k, base, top)
    PROVE  Ahead(Append(q, f), k, base, top + 1)
  <1> DEFINE p == Append(q, f)
  <1>1. /\ Len(q) \in Nat /\ Len(p) = Len(q) + 1 /\ p[Len(p)] = f
        /\ \A i \in 1..Len(q) : p[i] = q[i] /\ q[i] \in Frame
    OBVIOUS
  <1> HIDE DEF p
  <1>2. \A i \in 1..Len(q) : q[i].seq \in Nat
    BY <1>1, FrameFields
  <1>3. base <= top + 1
    BY DEF Ahead
  <1>4. ASSUME NEW i \in (k + 1)..Len(p), IsEvent(p[i])
        PROVE  /\ base < p[i].seq /\ p[i].seq <= top + 1
               /\ \A j \in (i + 1)..Len(p) : IsEvent(p[j]) => p[i].seq < p[j].seq
    <2>1. CASE i = Len(p)
      BY <1>1, <2>1 DEF Ahead
    <2>2. CASE i # Len(p)
      <3>1. i \in (k + 1)..Len(q) /\ p[i] = q[i] /\ i \in 1..Len(q)
        BY <1>1, <2>2
      <3>2. base < q[i].seq /\ q[i].seq <= top
        BY <1>4, <3>1 DEF Ahead
      <3>3. ASSUME NEW j \in (i + 1)..Len(p), IsEvent(p[j]) PROVE p[i].seq < p[j].seq
        <4>1. CASE j = Len(p)
          BY <1>1, <1>2, <3>1, <3>2, <4>1
        <4>2. CASE j # Len(p)
          <5>1. j \in (i + 1)..Len(q) /\ p[j] = q[j]
            BY <1>1, <3>1, <4>2
          <5>2. IsEvent(q[i]) /\ IsEvent(q[j])
            BY <1>4, <3>1, <3>3, <5>1
          <5>3. \A n \in (k + 1)..Len(q) : IsEvent(q[n]) =>
                    \A m \in (n + 1)..Len(q) : IsEvent(q[m]) => q[n].seq < q[m].seq
            BY DEF Ahead
          <5> QED
            BY <3>1, <5>1, <5>2, <5>3
        <4> QED
          BY <4>1, <4>2
      <3> QED
        BY <1>2, <3>1, <3>2, <3>3
    <2> QED
      BY <2>1, <2>2
  <1>5. ASSUME NEW n \in (base + 1)..(top + 1)
        PROVE  \E i \in (k + 1)..Len(p) : IsEvent(p[i]) /\ p[i].seq = n
    <2>1. CASE n = top + 1
      <3>1. Len(p) \in (k + 1)..Len(p)
        BY <1>1
      <3> QED
        BY <1>1, <2>1, <3>1
    <2>2. CASE n # top + 1
      <3>1. n \in (base + 1)..top
        BY <2>2
      <3>2. PICK i \in (k + 1)..Len(q) : IsEvent(q[i]) /\ q[i].seq = n
        BY <3>1 DEF Ahead
      <3>3. i \in (k + 1)..Len(p) /\ p[i] = q[i]
        BY <1>1, <3>2
      <3> QED
        BY <3>2, <3>3
    <2> QED
      BY <2>1, <2>2
  <1> QED
    BY <1>3, <1>4, <1>5 DEF Ahead, p

\* A frame that is no event changes nothing about the events in transit.
LEMMA AppendOtherAhead ==
    ASSUME NEW q \in Seq(Frame), NEW k \in 0..Len(q), NEW base \in Nat, NEW top \in Nat,
           NEW f \in Frame, ~IsEvent(f), Ahead(q, k, base, top)
    PROVE  Ahead(Append(q, f), k, base, top)
  <1> DEFINE p == Append(q, f)
  <1>1. /\ Len(q) \in Nat /\ Len(p) = Len(q) + 1 /\ p[Len(p)] = f
        /\ \A i \in 1..Len(q) : p[i] = q[i]
    OBVIOUS
  <1> HIDE DEF p
  <1>2. ASSUME NEW i \in (k + 1)..Len(p), IsEvent(p[i])
        PROVE  i \in (k + 1)..Len(q) /\ p[i] = q[i]
    BY <1>1, <1>2
  <1>3. \A i \in (k + 1)..Len(q) : i \in (k + 1)..Len(p) /\ p[i] = q[i]
    BY <1>1
  <1>4. \A i \in (k + 1)..Len(p) : \A j \in (i + 1)..Len(p) : j \in (k + 1)..Len(p)
    BY <1>1
  <1>5. \A i \in (k + 1)..Len(q) : \A j \in (i + 1)..Len(p) :
           j \in (k + 1)..Len(q) => j \in (i + 1)..Len(q)
    BY <1>1
  <1> QED
    BY <1>2, <1>3, <1>4, <1>5 DEF Ahead, p

\* Taking a head that is not looked at.
LEMMA TailAheadLater ==
    ASSUME NEW q \in Seq(Frame), q # <<>>, NEW k \in 1..Len(q), NEW base \in Nat,
           NEW top \in Nat, Ahead(q, k, base, top)
    PROVE  Ahead(Tail(q), k - 1, base, top)
  <1> DEFINE p == Tail(q)
  <1>1. /\ Len(q) \in Nat /\ Len(q) >= 1 /\ Len(p) = Len(q) - 1
        /\ \A i \in 1..(Len(q) - 1) : p[i] = q[i + 1]
    BY TailElements
  <1> HIDE DEF p
  <1>2. \A i \in ((k - 1) + 1)..Len(p) : i + 1 \in (k + 1)..Len(q) /\ p[i] = q[i + 1]
    BY <1>1
  <1>3. \A i \in ((k - 1) + 1)..Len(p) : \A j \in (i + 1)..Len(p) :
           /\ j + 1 \in ((i + 1) + 1)..Len(q)
           /\ p[j] = q[j + 1]
    BY <1>1
  <1>4. ASSUME NEW n \in (base + 1)..top
        PROVE  \E i \in ((k - 1) + 1)..Len(p) : IsEvent(p[i]) /\ p[i].seq = n
    <2>1. PICK i \in (k + 1)..Len(q) : IsEvent(q[i]) /\ q[i].seq = n
      BY DEF Ahead
    <2>2. i - 1 \in ((k - 1) + 1)..Len(p) /\ (i - 1) + 1 = i /\ i - 1 \in 1..(Len(q) - 1)
      BY <1>1
    <2>3. p[i - 1] = q[i]
      BY <1>1, <2>2
    <2> QED
      BY <2>1, <2>2, <2>3
  <1> QED
    BY <1>2, <1>3, <1>4 DEF Ahead, p

\* Taking the head from the front: the event after base, or no event.
LEMMA TailAhead ==
    ASSUME NEW q \in Seq(Frame), q # <<>>, NEW base \in Nat, NEW top \in Nat,
           Ahead(q, 0, base, top)
    PROVE  /\ ~IsEvent(Head(q)) => Ahead(Tail(q), 0, base, top)
           /\ IsEvent(Head(q)) /\ Head(q).seq = base + 1 => Ahead(Tail(q), 0, base + 1, top)
  <1> DEFINE p == Tail(q)
             f == Head(q)
  <1>1. /\ Len(q) \in Nat /\ Len(q) >= 1 /\ Len(p) = Len(q) - 1 /\ f = q[1]
        /\ \A i \in 1..(Len(q) - 1) : p[i] = q[i + 1]
        /\ f \in Frame
    BY TailElements
  <1> HIDE DEF p, f
  <1>2. \A i \in 1..Len(p) : i + 1 \in 1..Len(q) /\ i + 1 \in 2..Len(q) /\ p[i] = q[i + 1]
    BY <1>1
  <1>3. \A i \in 1..Len(p) : \A j \in (i + 1)..Len(p) :
           j + 1 \in ((i + 1) + 1)..Len(q) /\ p[j] = q[j + 1]
    BY <1>1
  <1>4. ASSUME NEW n \in (base + 1)..top, IsEvent(f) => f.seq # n
        PROVE  \E i \in 1..Len(p) : IsEvent(p[i]) /\ p[i].seq = n
    <2>1. PICK i \in 1..Len(q) : IsEvent(q[i]) /\ q[i].seq = n
      BY DEF Ahead
    <2>2. i # 1
      BY <1>1, <1>4, <2>1
    <2>3. i - 1 \in 1..Len(p) /\ (i - 1) + 1 = i /\ i - 1 \in 1..(Len(q) - 1)
      BY <1>1, <2>2
    <2>4. p[i - 1] = q[i]
      BY <1>1, <2>3
    <2> QED
      BY <2>1, <2>3, <2>4
  <1>5. \A i \in 1..Len(q) : IsEvent(q[i]) =>
           /\ base < q[i].seq /\ q[i].seq <= top
           /\ \A j \in (i + 1)..Len(q) : IsEvent(q[j]) => q[i].seq < q[j].seq
    BY DEF Ahead
  <1>6. \A i \in 1..Len(p) : IsEvent(p[i]) =>
           \A j \in (i + 1)..Len(p) : IsEvent(p[j]) => p[i].seq < p[j].seq
    BY <1>2, <1>3, <1>5
  <1>7. base <= top
    BY DEF Ahead
  <1>8. ASSUME ~IsEvent(f) PROVE Ahead(p, 0, base, top)
    <2>1. \A i \in 1..Len(p) : IsEvent(p[i]) => base < p[i].seq /\ p[i].seq <= top
      BY <1>2, <1>5
    <2>2. \A n \in (base + 1)..top : \E i \in 1..Len(p) : IsEvent(p[i]) /\ p[i].seq = n
      BY <1>4, <1>8
    <2>3. 0 + 1 = 1
      OBVIOUS
    <2> QED
      BY <1>6, <1>7, <2>1, <2>2, <2>3 DEF Ahead
  <1>9. ASSUME IsEvent(f), f.seq = base + 1 PROVE Ahead(p, 0, base + 1, top)
    <2>1. \A n \in ((base + 1) + 1)..top : n \in (base + 1)..top /\ f.seq # n
      BY <1>9
    <2>2. \A i \in 1..Len(p) : IsEvent(p[i]) => base + 1 < p[i].seq /\ p[i].seq <= top
      <3> SUFFICES ASSUME NEW i \in 1..Len(p), IsEvent(p[i])
                   PROVE  base + 1 < p[i].seq /\ p[i].seq <= top
        OBVIOUS
      <3>1. i + 1 \in 1..Len(q) /\ p[i] = q[i + 1] /\ i + 1 \in (1 + 1)..Len(q)
        BY <1>1, <1>2
      <3>2. 1 \in 1..Len(q) /\ IsEvent(q[1]) /\ q[1].seq = base + 1
        BY <1>1, <1>9
      <3> QED
        BY <1>5, <3>1, <3>2
    <2>3. base + 1 <= top
      BY <1>1, <1>5, <1>9
    <2>4. \A n \in ((base + 1) + 1)..top : \E i \in 1..Len(p) : IsEvent(p[i]) /\ p[i].seq = n
      BY <1>4, <2>1
    <2>5. 0 + 1 = 1
      OBVIOUS
    <2> QED
      BY <1>6, <2>2, <2>3, <2>4, <2>5 DEF Ahead
  <1> QED
    BY <1>8, <1>9 DEF p, f

\* The promise survives what the relay does: a change of the board that is
\* queued, and one that takes nothing back ...
LEMMA AppendEventCurrent ==
    ASSUME NEW q \in Seq(Frame), NEW k \in 0..Len(q), NEW v, NEW base \in Nat, NEW top \in Nat,
           NEW f \in Frame, IsEvent(f), f.seq = top + 1,
           NEW must, NEW may, NEW must2, NEW may2,
           must2 \subseteq Apply(f, must), Apply(f, may) \subseteq may2,
           Current(q, k, v, base, top, must, may)
    PROVE  Current(Append(q, f), k, v, base, top + 1, must2, may2)
  <1>1. Ahead(Append(q, f), k, base, top + 1)
    BY AppendEventAhead DEF Current
  <1>2. \A id : Told(Append(q, f), k, v, id) <=>
                   (Told(q, k, v, id) /\ ~Removes(f, id)) \/ Adds(f, id)
    BY AppendTold
  <1>3. \A id, S : id \in Apply(f, S) <=> (id \in S /\ ~Removes(f, id)) \/ Adds(f, id)
    BY DEF Apply, Adds, Removes
  <1>4. \A id \in must2 : Told(Append(q, f), k, v, id)
    BY <1>2, <1>3 DEF Current
  <1>5. \A id \in MessageId : Told(Append(q, f), k, v, id) => id \in may2
    BY <1>2, <1>3 DEF Current
  <1> QED
    BY <1>1, <1>4, <1>5 DEF Current

\* ... and nothing about what the events make of a view.
LEMMA AppendOtherCurrent ==
    ASSUME NEW q \in Seq(Frame), NEW k \in 0..Len(q), NEW v, NEW base \in Nat, NEW top \in Nat,
           NEW f \in Frame, ~IsEvent(f), NEW must, NEW may,
           Current(q, k, v, base, top, must, may)
    PROVE  Current(Append(q, f), k, v, base, top, must, may)
  <1>1. Ahead(Append(q, f), k, base, top)
    BY AppendOtherAhead DEF Current
  <1>2. \A id : Told(Append(q, f), k, v, id) <=> Told(q, k, v, id)
    <2>1. \A id : ~Removes(f, id) /\ ~Adds(f, id)
      BY DEF IsEvent, Removes, Adds
    <2> QED
      BY <2>1, AppendTold
  <1> QED
    BY <1>1, <1>2 DEF Current

\* A promise of more is a promise of less.
LEMMA WeakerCurrent ==
    ASSUME NEW q, NEW k, NEW v, NEW base, NEW top, NEW must, NEW may, NEW must2, NEW may2,
           must2 \subseteq must, may \subseteq may2,
           Current(q, k, v, base, top, must, may)
    PROVE  Current(q, k, v, base, top, must2, may2)
BY DEF Current

\* ... and what the client does: it takes a frame, and applies the next event.
LEMMA TailCurrentLater ==
    ASSUME NEW q \in Seq(Frame), q # <<>>, NEW k \in 1..Len(q), NEW v, NEW base \in Nat,
           NEW top \in Nat, NEW must, NEW may, Current(q, k, v, base, top, must, may)
    PROVE  Current(Tail(q), k - 1, v, base, top, must, may)
BY TailAheadLater, TailToldLater DEF Current

\* Taking the first frame: a response changes nothing, the next event is applied.
LEMMA TailCurrent ==
    ASSUME NEW q \in Seq(Frame), q # <<>>, NEW v, NEW base \in Nat,
           NEW top \in Nat, NEW must, NEW may, Current(q, 0, v, base, top, must, may)
    PROVE  /\ ~IsEvent(Head(q)) => Current(Tail(q), 0, v, base, top, must, may)
           /\ IsEvent(Head(q)) /\ Head(q).seq = base + 1 =>
                 Current(Tail(q), 0, Apply(Head(q), v), base + 1, top, must, may)
  <1>1. \A id : Told(Tail(q), 0, Apply(Head(q), v), id) <=> Told(q, 0, v, id)
    BY TailTold
  <1>2. ~IsEvent(Head(q)) => Apply(Head(q), v) = v
    BY DEF IsEvent, Apply
  <1>3. Ahead(q, 0, base, top)
    BY DEF Current
  <1>4. ~IsEvent(Head(q)) => Ahead(Tail(q), 0, base, top)
    BY <1>3, TailAhead
  <1>5. IsEvent(Head(q)) /\ Head(q).seq = base + 1 => Ahead(Tail(q), 0, base + 1, top)
    BY <1>3, TailAhead
  <1>6. \A id \in must : Told(q, 0, v, id)
    BY DEF Current
  <1>7. \A id \in MessageId : Told(q, 0, v, id) => id \in may
    BY DEF Current
  <1> QED
    BY <1>1, <1>2, <1>4, <1>5, <1>6, <1>7 DEF Current

\* A promise with nothing to come is kept now.
LEMMA CurrentNow ==
    ASSUME NEW q \in Seq(Frame), NEW v, NEW base \in Nat, NEW top \in Nat, NEW must, NEW may,
           must \subseteq v, v \subseteq may, base = top
    PROVE  Current(q, Len(q), v, base, top, must, may)
  <1>1. Len(q) \in Nat /\ (Len(q) + 1)..Len(q) = {}
    OBVIOUS
  <1>2. \A id : Told(q, Len(q), v, id) <=> id \in v
    BY <1>1 DEF Told
  <1>3. Ahead(q, Len(q), base, top)
    <2>1. (base + 1)..top = {}
      OBVIOUS
    <2> QED
      BY <1>1, <2>1 DEF Ahead
  <1> QED
    BY <1>2, <1>3 DEF Current

\* With nothing in transit, what is promised is what is listed.
LEMMA NothingInTransit ==
    ASSUME NEW v, NEW base \in Nat, NEW top \in Nat, NEW must, NEW may,
           Current(<<>>, 0, v, base, top, must, may)
    PROVE  must \subseteq v /\ v \cap MessageId \subseteq may /\ base = top
  <1>1. (0 + 1)..Len(<<>>) = {}
    OBVIOUS
  <1>2. \A id : Told(<<>>, 0, v, id) <=> id \in v
    BY <1>1 DEF Told
  <1>3. Ahead(<<>>, 0, base, top) => base = top
    <2>1. ASSUME Ahead(<<>>, 0, base, top), base # top PROVE FALSE
      <3>1. base <= top /\ \A n \in (base + 1)..top : FALSE
        BY <1>1, <2>1 DEF Ahead
      <3>2. base + 1 \in (base + 1)..top
        BY <2>1, <3>1
      <3> QED
        BY <3>1, <3>2
    <2> QED
      BY <2>1
  <1> QED
    BY <1>2, <1>3 DEF Current

-----------------------------------------------------------------------------
(* What a step that is not a client's own leaves of its invariant *)

\* The relay publishes nothing: the board may shrink (a duplicate post), what a
\* list must have shrinks with it.
RelayQuiet ==
    /\ sequence' = sequence
    /\ messages' \subseteq messages
    /\ Must' \subseteq Must
    /\ May \subseteq May'
    /\ Known \subseteq Known'

\* The relay publishes to nobody.
RelayUnheard(d) == sequence' \in Nat /\ sequence < sequence' /\ d \notin subscribed

\* A synchronisation that is left alone stays what it is.
LEMMA JoiningKept ==
    ASSUME NEW d \in Client, sync'[d] = sync[d]
    PROVE  Joining(d)' <=> Joining(d)
BY DEF Joining

\* Records that were the board at a sequence stay so.
LEMMA KeptOfBoard ==
    ASSUME NEW of, NEW s \in Nat, s <= sequence, sequence \in Nat, OfBoard(of, s),
           RelayQuiet \/ (sequence' \in Nat /\ sequence < sequence')
    PROVE  OfBoard(of, s)'
  <1>1. CASE RelayQuiet
    BY <1>1 DEF RelayQuiet, OfBoard
  <1>2. CASE sequence' \in Nat /\ sequence < sequence'
    <2>1. s # sequence'
      BY <1>2
    <2> QED
      BY <2>1 DEF OfBoard
  <1> QED
    BY <1>1, <1>2

\* A client none of whose state changes keeps the invariant.
LEMMA KeptClient ==
    ASSUME FeedTypes, NEW d \in Client, ClientInv(d), OwnKept(d),
           RelayQuiet \/ RelayUnheard(d)
    PROVE  ClientInv(d)'
  <1>1. /\ request'[d] = request[d] /\ sync'[d] = sync[d]
        /\ view'[d] = view[d] /\ viewSequence'[d] = viewSequence[d]
        /\ excused'[d] = excused[d] /\ link'[d] = link[d] /\ handler'[d] = handler[d]
        /\ d \in connected' <=> d \in connected
        /\ d \in subscribed' <=> d \in subscribed
        /\ d \in resync' <=> d \in resync
        /\ d \in dirty' <=> d \in dirty
    BY DEF OwnKept, OwnButLink
  <1>2. /\ sequence \in Nat /\ sequence' \in Nat /\ sequence <= sequence'
        /\ link[d] \in Seq(Frame) /\ viewSequence[d] \in Nat /\ sync[d] \in Sync
    BY DEF FeedTypes, RelayQuiet, RelayUnheard
  <1>3. \A i \in 1..Len(link[d]) : link[d][i] \in Frame
    BY <1>2
  <1>4. Joining(d)' <=> Joining(d)
    BY <1>1, JoiningKept
  <1>5. sync[d] # NoSync => sync[d].seq \in Nat /\ sync[d] \in SyncRecord
    BY <1>2, SyncFields
  <1>6. Bounded(d)'
    <2>1. Bounded(d)
      BY DEF ClientInv
    <2>2. \A i \in 1..Len(link[d]) : link[d][i].seq \in Nat
      BY <1>3, FrameFields
    <2> QED
      BY <1>1, <1>2, <1>5, <2>1, <2>2 DEF Bounded
  <1>7. Conversing(d)'
    BY <1>1 DEF ClientInv, Conversing
  <1>8. SubscriptionsKnown(d)'
    BY <1>1, <1>4 DEF ClientInv, SubscriptionsKnown
  <1>9. \A of, s : s \in Nat /\ s <= sequence /\ OfBoard(of, s) => OfBoard(of, s)'
    BY <1>2, KeptOfBoard DEF RelayUnheard
  <1>10. Collecting(d)'
    <2>1. Collecting(d) /\ Bounded(d)
      BY DEF ClientInv
    <2>2. sync[d].phase \in {"list", "subscribe"} => sync[d].seq \in Nat /\ sync[d].seq <= sequence
      BY <1>2, <1>5, <2>1, SyncFields DEF Bounded
    <2> QED
      BY <1>1, <1>9, <2>1, <2>2 DEF Collecting
  <1>11. PagesFit(d)'
    <2>1. PagesFit(d) /\ Bounded(d)
      BY DEF ClientInv
    <2>2. \A i \in 1..Len(link[d]) : link[d][i].seq \in Nat /\ link[d][i].seq <= sequence
      BY <1>3, <2>1, FrameFields DEF Bounded
    <2> QED
      BY <1>1, <1>9, <2>1, <2>2 DEF PagesFit
  <1>12. d \in subscribed' => /\ d \in subscribed /\ sequence' = sequence
                              /\ Must' \subseteq Must /\ May \subseteq May'
    BY <1>1 DEF RelayQuiet, RelayUnheard
  <1>13. ASSUME d \in subscribed',
                NEW k, NEW v, NEW base, Current(link[d], k, v, base, sequence, Must, May)
         PROVE  Current(link'[d], k, v, base, sequence', Must', May')
    BY <1>1, <1>12, <1>13, WeakerCurrent
  <1>14. ViewPromised(d)'
    BY <1>1, <1>4, <1>12, <1>13 DEF ClientInv, ViewPromised
  <1>15. ReplyPromised(d)'
    BY <1>1, <1>12, <1>13 DEF ClientInv, ReplyPromised
  <1>16. InstallPromised(d)'
    BY <1>1, <1>12, <1>13 DEF ClientInv, InstallPromised
  <1> QED
    BY <1>6, <1>7, <1>8, <1>10, <1>11, <1>14, <1>15, <1>16 DEF ClientInv

\* The relay publishes an event f to its subscribers.
Publishes(f) ==
    /\ f \in Frame /\ IsEvent(f) /\ f.seq = sequence + 1
    /\ sequence' = sequence + 1
    /\ \A d \in Client :
          link'[d] = IF d \in subscribed THEN Append(link[d], f) ELSE link[d]
    /\ Must' \subseteq Apply(f, Must)
    /\ Apply(f, May) \subseteq May'
    /\ Apply(f, Known) \subseteq Known'

\* A client keeps the invariant when the relay publishes an event.
LEMMA PublishedClient ==
    ASSUME FeedTypes, NEW d \in Client, ClientInv(d), OwnButLink(d), NEW f, Publishes(f),
           handler'[d].op = "list" =>
              request[d].op = "list" /\ IsFiniteSet(handler'[d].records)
    PROVE  ClientInv(d)'
  <1>1. /\ request'[d] = request[d] /\ sync'[d] = sync[d]
        /\ view'[d] = view[d] /\ viewSequence'[d] = viewSequence[d]
        /\ excused'[d] = excused[d]
        /\ d \in connected' <=> d \in connected
        /\ d \in subscribed' <=> d \in subscribed
        /\ d \in resync' <=> d \in resync
        /\ d \in dirty' <=> d \in dirty
    BY DEF OwnButLink
  <1>2. /\ sequence \in Nat /\ sequence' = sequence + 1 /\ sequence' \in Nat
        /\ link[d] \in Seq(Frame) /\ viewSequence[d] \in Nat /\ sync[d] \in Sync
        /\ subscribed \subseteq connected
        /\ f \in Frame /\ IsEvent(f) /\ ~IsResponse(f) /\ f.seq = sequence + 1
    BY DEF FeedTypes, Publishes, IsEvent, IsResponse
  <1>3. /\ link'[d] = link[d] \/ link'[d] = Append(link[d], f)
        /\ d \in subscribed => link'[d] = Append(link[d], f)
        /\ d \notin connected => link'[d] = link[d]
    BY <1>2 DEF Publishes
  <1>4. ASSUME NEW i \in 1..Len(link'[d])
        PROVE  \/ i \in 1..Len(link[d]) /\ link'[d][i] = link[d][i] /\ link[d][i] \in Frame
               \/ link'[d][i] = f
    <2>1. CASE link'[d] = link[d]
      BY <1>2, <1>4, <2>1
    <2>2. CASE link'[d] = Append(link[d], f)
      BY <1>2, <1>4, <2>2
    <2> QED
      BY <1>3, <2>1, <2>2
  <1>5. Joining(d)' <=> Joining(d)
    BY <1>1, JoiningKept
  <1>6. sync[d] # NoSync => sync[d].seq \in Nat /\ sync[d] \in SyncRecord
    BY <1>2, SyncFields
  <1>7. Bounded(d)'
    <2>1. Bounded(d)
      BY DEF ClientInv
    <2>2. \A i \in 1..Len(link'[d]) : link'[d][i].seq <= sequence'
      <3>1. \A i \in 1..Len(link[d]) : link[d][i].seq <= sequence /\ link[d][i].seq \in Nat
        BY <1>2, <2>1, FrameFields DEF Bounded
      <3>2. TAKE i \in 1..Len(link'[d])
      <3>3. CASE i \in 1..Len(link[d]) /\ link'[d][i] = link[d][i]
        BY <1>2, <3>1, <3>3
      <3>4. CASE link'[d][i] = f
        BY <1>2, <3>4
      <3> QED
        BY <1>4, <3>3, <3>4
    <2> QED
      BY <1>1, <1>2, <1>3, <1>6, <2>1, <2>2 DEF Bounded
  <1>8. Conversing(d)'
    <2>1. Conversing(d)
      BY DEF ClientInv
    <2>2. ASSUME NEW i \in 1..Len(link'[d]), IsResponse(link'[d][i])
          PROVE  /\ request[d] = NoRequest
                 /\ sync[d].phase = IF link'[d][i].type = "page" THEN "list" ELSE "subscribe"
                 /\ \A j \in 1..Len(link'[d]) : IsResponse(link'[d][j]) => j = i
      BY <1>2, <1>4, <2>1, <2>2 DEF Conversing
    <2> QED
      BY <1>1, <2>1, <2>2 DEF Conversing
  <1>9. SubscriptionsKnown(d)'
    <2>1. SubscriptionsKnown(d) /\ f.type # "subscribed"
      BY <1>2 DEF ClientInv, IsEvent
    <2> QED
      BY <1>1, <1>4, <1>5, <2>1 DEF SubscriptionsKnown
  <1>10. \A of, s : s \in Nat /\ s <= sequence /\ OfBoard(of, s) => OfBoard(of, s)'
    <2>1. sequence < sequence'
      BY <1>2
    <2> QED
      BY <1>2, <2>1, KeptOfBoard
  <1>11. Collecting(d)'
    <2>1. Collecting(d) /\ Bounded(d)
      BY DEF ClientInv
    <2>2. sync[d].phase \in {"list", "subscribe"} => sync[d].seq \in Nat /\ sync[d].seq <= sequence
      BY <1>2, <1>6, <2>1, SyncFields DEF Bounded
    <2> QED
      BY <1>1, <1>10, <2>1, <2>2 DEF Collecting
  <1>12. PagesFit(d)'
    <2>1. PagesFit(d) /\ Bounded(d)
      BY DEF ClientInv
    <2>2. \A i \in 1..Len(link[d]) : link[d][i] \in Frame => link[d][i].seq \in Nat /\ link[d][i].seq <= sequence
      BY <2>1, FrameFields DEF Bounded
    <2>3. f.type # "page"
      BY <1>2 DEF IsEvent
    <2> QED
      BY <1>1, <1>4, <1>10, <2>1, <2>2, <2>3 DEF PagesFit
  <1>13. ASSUME d \in subscribed', NEW k \in 0..Len(link[d]), NEW v, NEW base \in Nat,
                Current(link[d], k, v, base, sequence, Must, May)
         PROVE  Current(link'[d], k, v, base, sequence', Must', May')
    <2>1. Current(Append(link[d], f), k, v, base, sequence + 1, Must', May')
      BY <1>2, <1>13, AppendEventCurrent DEF Publishes
    <2> QED
      BY <1>1, <1>2, <1>3, <1>13, <2>1
  <1>14. Len(link[d]) \in Nat /\ 0 \in 0..Len(link[d]) /\ 1..Len(link[d]) \subseteq 0..Len(link[d])
    BY <1>2
  <1>15. ViewPromised(d)'
    BY <1>1, <1>2, <1>5, <1>13, <1>14 DEF ClientInv, ViewPromised
  <1>16. ReplyPromised(d)'
    <2>1. f.type # "subscribed"
      BY <1>2 DEF IsEvent
    <2>2. ASSUME d \in subscribed', NEW i \in 1..Len(link'[d]),
                 link'[d][i].type = "subscribed", link'[d][i].ok, sync'[d].exact
          PROVE  Current(link'[d], i, sync'[d].ids, sync'[d].seq, sequence', Must', May')
      <3>1. i \in 1..Len(link[d]) /\ link'[d][i] = link[d][i] /\ i \in 0..Len(link[d])
        BY <1>4, <1>14, <2>1, <2>2
      <3>2. sync[d].phase = "subscribe"
        BY <2>2, <3>1 DEF ClientInv, Conversing, IsResponse
      <3>3. sync[d].seq \in Nat
        BY <1>2, <1>6, <3>2, SyncFields
      <3>4. Current(link[d], i, sync[d].ids, sync[d].seq, sequence, Must, May)
        BY <1>1, <2>2, <3>1 DEF ClientInv, ReplyPromised
      <3> QED
        BY <1>1, <1>13, <2>2, <3>1, <3>3, <3>4
    <2> QED
      BY <2>2 DEF ReplyPromised
  <1>17. InstallPromised(d)'
    <2>1. sync[d].phase = "resume" => sync[d].seq \in Nat
      BY <1>2, <1>6, SyncFields
    <2> QED
      BY <1>1, <1>13, <1>14, <2>1 DEF ClientInv, InstallPromised
  <1> QED
    BY <1>7, <1>8, <1>9, <1>11, <1>12, <1>15, <1>16, <1>17 DEF ClientInv

-----------------------------------------------------------------------------
(* The steps that publish *)

\* What is left to prove of a step, once its transaction is known to keep the rows.
Kept ==
    /\ FeedTypes'
    /\ NoRecordWithheld'
    /\ \A d \in Client : ClientInv(d)'

\* The posts in suspension, when handlers change.
LEMMA PendingSame ==
    ASSUME \A d \in Client : \/ handler'[d] = handler[d]
                             \/ handler[d].op # "post" /\ handler'[d].op # "post"
    PROVE  Pending' = Pending
  <1>1. \A id : id \in Pending <=> \E d \in Client : handler[d].op = "post" /\ handler[d].id = id
    BY DEF Pending
  <1>2. \A id : id \in Pending' <=> \E d \in Client : handler'[d].op = "post" /\ handler'[d].id = id
    BY DEF Pending
  <1>3. \A d \in Client : \A id :
           handler[d].op = "post" /\ handler[d].id = id <=> handler'[d].op = "post" /\ handler'[d].id = id
    OBVIOUS
  <1>4. \A id : id \in Pending' <=> id \in Pending
    BY <1>1, <1>2, <1>3
  <1> QED
    BY <1>4

\* A post that is suspended joins them ...
LEMMA PendingGrows ==
    ASSUME NEW c \in Client, handler[c].op # "post", NEW id,
           handler'[c] = [op |-> "post", id |-> id],
           \A d \in Client : d # c => handler'[d] = handler[d]
    PROVE  Pending' = Pending \cup {id}
  <1>1. \A x : x \in Pending <=> \E d \in Client : handler[d].op = "post" /\ handler[d].id = x
    BY DEF Pending
  <1>2. \A x : x \in Pending' <=> \E d \in Client : handler'[d].op = "post" /\ handler'[d].id = x
    BY DEF Pending
  <1>3. \A d \in Client : d # c => handler'[d] = handler[d]
    OBVIOUS
  <1>4. handler'[c].op = "post" /\ handler'[c].id = id
    OBVIOUS
  <1>5. \A x : x \in Pending' => x \in Pending \/ x = id
    BY <1>1, <1>2, <1>3, <1>4
  <1>6. \A x : x \in Pending => x \in Pending'
    BY <1>1, <1>2, <1>3
  <1>7. id \in Pending'
    BY <1>2, <1>4
  <1> QED
    BY <1>5, <1>6, <1>7

\* ... and leaves them when it resumes.
LEMMA PendingShrinks ==
    ASSUME NEW c \in Client, handler[c].op = "post", handler'[c] = Idle,
           \A d \in Client : d # c => handler'[d] = handler[d]
    PROVE  Pending' \subseteq Pending /\ Pending \subseteq Pending' \cup {handler[c].id}
  <1>1. \A x : x \in Pending <=> \E d \in Client : handler[d].op = "post" /\ handler[d].id = x
    BY DEF Pending
  <1>2. \A x : x \in Pending' <=> \E d \in Client : handler'[d].op = "post" /\ handler'[d].id = x
    BY DEF Pending
  <1>3. handler'[c].op # "post"
    BY DEF Idle
  <1> QED
    BY <1>1, <1>2, <1>3

\* Withholding nothing is a matter of what a list must have.
LEMMA MustIsKnown ==
    /\ NoRecordWithheld <=> Must \subseteq Known
    /\ NoRecordWithheld' <=> Must' \subseteq Known'
BY DEF NoRecordWithheld, Must, Known

\* A relay that publishes nothing new withholds nothing new.
LEMMA QuietWithholdsNothing ==
    ASSUME NoRecordWithheld, RelayQuiet
    PROVE  NoRecordWithheld'
BY MustIsKnown DEF RelayQuiet

\* Publishing an event withholds nothing.
LEMMA PublishingWithholdsNothing ==
    ASSUME NoRecordWithheld, NEW f, Publishes(f)
    PROVE  NoRecordWithheld'
BY MustIsKnown DEF Publishes, Apply

\* The announcement of the removed rows R, if there are any.
LEMMA AnnounceStep ==
    ASSUME FeedTypes, NEW R \in SUBSET MessageId, AnnounceRemoved(R),
           Ids(messages') \cap R = {}, Ids(messages') \subseteq Ids(messages) \cup Pending',
           Ids(messages) \subseteq Ids(messages') \cup R, ghosts' = ghosts,
           Pending \subseteq Pending'
    PROVE  /\ sequence' \in Nat /\ announced' \subseteq MessageId
           /\ link' \in [Client -> Seq(Frame)]
           /\ R = {} => sequence' = sequence /\ link' = link /\ announced' = announced
           /\ R # {} => Publishes(RemoveFrame(sequence + 1, R))
  <1>1. CASE R = {}
    BY <1>1 DEF AnnounceRemoved, FeedTypes
  <1>2. CASE R # {}
    <2> DEFINE f == RemoveFrame(sequence + 1, R)
    <2>1. /\ sequence' = sequence + 1 /\ sequence \in Nat
          /\ Broadcast(<<f>>)
          /\ announced' = announced \ R /\ announced \subseteq MessageId
          /\ link \in [Client -> Seq(Frame)]
      BY <1>2 DEF AnnounceRemoved, FeedTypes
    <2>2. f \in Frame
      <3>1. sequence + 1 \in Nat
        BY <2>1
      <3> QED
        BY <3>1 DEF RemoveFrame, Frame, EventFrame
    <2>3. f.seq = sequence + 1 /\ f.type = "remove" /\ f.ids = R
      BY DEF RemoveFrame
    <2> HIDE DEF f
    <2>4. /\ link' \in [Client -> Seq(Frame)]
          /\ \A d \in Client :
                link'[d] = IF d \in subscribed THEN Append(link[d], f) ELSE link[d]
      BY <2>1, <2>2, BroadcastTypes
    <2>5. \A S : Apply(f, S) = S \ R
      BY <2>3 DEF Apply
    <2>6. Must' \subseteq Must \ R
      BY DEF Must
    <2>7. May \ R \subseteq May'
      BY DEF May
    <2>9. Known \ R \subseteq Known'
      BY <2>1 DEF Known
    <2>8. Publishes(f)
      BY <2>1, <2>2, <2>3, <2>4, <2>5, <2>6, <2>7, <2>9 DEF Publishes, IsEvent
    <2> QED
      BY <1>2, <2>1, <2>4, <2>8 DEF f
  <1> QED
    BY <1>1, <1>2

\* A removal and its handler, as far as the clients are concerned.
LEMMA AnnouncedClients ==
    ASSUME FeedInv, NEW R \in SUBSET MessageId, AnnounceRemoved(R), R # {} \/ messages' = messages,
           Ids(messages') \cap R = {}, Ids(messages') \subseteq Ids(messages) \cup Pending',
           Ids(messages) \subseteq Ids(messages') \cup R, UNCHANGED <<maintained, ghosts>>,
           Pending \subseteq Pending', R # {} \/ handler' = handler,
           UNCHANGED <<connected, subscribed, clientVars, request>>,
           handler' \in [Client -> Handler],
           \A d \in Client : handler'[d].op = "list" =>
              request[d].op = "list" /\ IsFiniteSet(handler'[d].records)
    PROVE  Kept
  <1>1. /\ FeedTypes /\ NoRecordWithheld /\ \A d \in Client : ClientInv(d)
    BY DEF FeedInv
  <1>2. /\ sequence' \in Nat /\ announced' \subseteq MessageId
        /\ link' \in [Client -> Seq(Frame)]
        /\ R = {} => sequence' = sequence /\ link' = link /\ announced' = announced
        /\ R # {} => Publishes(RemoveFrame(sequence + 1, R))
    BY <1>1, AnnounceStep
  <1>3. FeedTypes'
    BY <1>1, <1>2 DEF FeedTypes, clientVars
  <1>4. \A d \in Client : OwnButLink(d)
    BY DEF OwnButLink, clientVars
  <1>5. CASE R = {}
    <2>1. RelayQuiet
      <3>1. Pending' = Pending
        BY <1>5 DEF Pending
      <3>2. messages' = messages
        BY <1>5
      <3> QED
        BY <1>2, <1>5, <3>1, <3>2 DEF RelayQuiet, Must, May, Known, Ids
    <2>2. \A d \in Client : OwnKept(d)
      BY <1>2, <1>4, <1>5 DEF OwnKept
    <2>3. \A d \in Client : ClientInv(d)'
      BY <1>1, <2>1, <2>2, KeptClient
    <2> QED
      BY <1>1, <1>3, <2>1, <2>3, QuietWithholdsNothing DEF Kept
  <1>6. CASE R # {}
    <2>1. PICK f : Publishes(f)
      BY <1>2, <1>6
    <2>2. \A d \in Client : ClientInv(d)'
      BY <1>1, <1>4, <2>1, PublishedClient
    <2> QED
      BY <1>1, <1>3, <2>1, <2>2, PublishingWithholdsNothing DEF Kept
  <1> QED
    BY <1>5, <1>6

\* A suspended list names a finite set of records, whose request waits.
LEMMA HandlersKept ==
    ASSUME FeedInv
    PROVE  /\ handler \in [Client -> Handler]
           /\ \A d \in Client : handler[d].op = "list" =>
                 request[d].op = "list" /\ IsFiniteSet(handler[d].records)
BY DEF FeedInv, FeedTypes, ClientInv, Conversing

\* The maintenance loop expires records and tells the subscribers.
LEMMA MaintenanceStep ==
    ASSUME FeedInv, RowsInv', WithinCapacity', Maintenance
    PROVE  Kept
  <1>1. /\ Cleanup /\ UNCHANGED posts
        /\ AnnounceRemoved(RemovedIds)
        /\ UNCHANGED <<connected, subscribed, handler, maintained, ghosts, clientVars, request>>
    BY DEF Maintenance, CleanUp
  <1>2. /\ messages' \subseteq messages /\ (RemovedIds = {} => messages' = messages)
        /\ Ids(messages) \subseteq Ids(messages') \cup RemovedIds
    BY <1>1, CleanupRows, OthersStay
  <1>3. RemovedIds \subseteq MessageId /\ Ids(messages') \cap RemovedIds = {}
    BY <1>1, RemovedAreIds, RemovedAreGone DEF FeedInv, RowsInv
  <1>4. Pending' = Pending
    BY <1>1 DEF Pending
  <1>5. Ids(messages') \subseteq Ids(messages)
    BY <1>2 DEF Ids
  <1> QED
    BY <1>1, <1>2, <1>3, <1>4, <1>5, HandlersKept, AnnouncedClients

\* A refused post still announces what its cleanup removed.
LEMMA RefusedPostStep ==
    ASSUME FeedInv, RowsInv', WithinCapacity', NEW c \in Client, NEW id \in MessageId,
           RefusedPost(c, id)
    PROVE  Kept
  <1>1. /\ Cleanup /\ UNCHANGED posts
        /\ AnnounceRemoved(RemovedIds)
        /\ UNCHANGED <<connected, subscribed, handler, maintained, ghosts, clientVars, request>>
    BY DEF RefusedPost, PostRefused
  <1>2. /\ messages' \subseteq messages /\ (RemovedIds = {} => messages' = messages)
        /\ Ids(messages) \subseteq Ids(messages') \cup RemovedIds
    BY <1>1, CleanupRows, OthersStay
  <1>3. RemovedIds \subseteq MessageId /\ Ids(messages') \cap RemovedIds = {}
    BY <1>1, RemovedAreIds, RemovedAreGone DEF FeedInv, RowsInv
  <1>4. Pending' = Pending
    BY <1>1 DEF Pending
  <1>5. Ids(messages') \subseteq Ids(messages)
    BY <1>2 DEF Ids
  <1> QED
    BY <1>1, <1>2, <1>3, <1>4, <1>5, HandlersKept, AnnouncedClients

\* board_list is suspended with records that are finitely many.
LEMMA ListSuspendsStep ==
    ASSUME FeedInv, RowsInv', WithinCapacity', NEW c \in Client, ListSuspends(c)
    PROVE  Kept
  <1>1. /\ Cleanup /\ UNCHANGED posts
        /\ handler[c] = Idle /\ request[c].op = "list" /\ RemovedIds # {}
        /\ AnnounceRemoved(RemovedIds)
        /\ handler' = [handler EXCEPT ![c] = [op |-> "list", records |-> messages']]
        /\ UNCHANGED <<connected, subscribed, maintained, ghosts, clientVars, request>>
    BY DEF ListSuspends, CleanUp
  <1>2. messages' \subseteq messages /\ messages' \subseteq Record /\ IsFiniteSet(messages')
    BY <1>1, CleanupRows DEF RowsInv, TypeOK, WithinCapacity
  <1>3. RemovedIds \subseteq MessageId /\ Ids(messages') \cap RemovedIds = {}
    BY <1>1, RemovedAreIds, RemovedAreGone DEF FeedInv, RowsInv
  <1>4. /\ handler \in [Client -> Handler]
        /\ \A d \in Client : handler[d].op = "list" =>
              request[d].op = "list" /\ IsFiniteSet(handler[d].records)
    BY HandlersKept
  <1> DEFINE h == [op |-> "list", records |-> messages']
  <1>5. h \in Handler /\ h.op = "list" /\ h.records = messages'
    BY <1>2 DEF Handler
  <1>6. handler'[c] = h /\ \A d \in Client : d # c => handler'[d] = handler[d]
    BY <1>1, <1>4
  <1>7. handler' \in [Client -> Handler]
    BY <1>1, <1>4, <1>5
  <1> HIDE DEF h
  <1>8. Pending' = Pending
    <2>1. handler[c].op # "post" /\ handler'[c].op # "post"
      BY <1>1, <1>5, <1>6 DEF Idle
    <2> QED
      BY <1>6, <2>1, PendingSame
  <1>9. \A d \in Client : handler'[d].op = "list" =>
           request[d].op = "list" /\ IsFiniteSet(handler'[d].records)
    BY <1>1, <1>2, <1>4, <1>5, <1>6
  <1>10. Ids(messages') \subseteq Ids(messages)
    BY <1>2 DEF Ids
  <1> QED
    BY <1>1, <1>3, <1>7, <1>8, <1>9, <1>10, OthersStay, AnnouncedClients

\* board_post is suspended with its update still to come.
LEMMA PostSuspendsStep ==
    ASSUME FeedInv, RowsInv', WithinCapacity', NEW c \in Client, NEW id \in MessageId,
           PostSuspends(c, id)
    PROVE  Kept
  <1>1. /\ PostAccepted(id, c) /\ c \in Token
        /\ handler[c] = Idle /\ RemovedIds # {}
        /\ AnnounceRemoved(RemovedIds)
        /\ handler' = [handler EXCEPT ![c] = [op |-> "post", id |-> id]]
        /\ UNCHANGED <<connected, subscribed, maintained, ghosts, clientVars, request>>
    BY FeedAssumption DEF PostSuspends, MayPost
  <1>2. posts \subseteq posts' /\ Ids(messages') \subseteq Ids(messages) \cup {id}
    BY <1>1, AcceptedRows
  <1>3. RemovedIds \subseteq MessageId /\ Ids(messages') \cap RemovedIds = {}
    BY <1>2, RemovedAreIds, RemovedAreGone DEF FeedInv, RowsInv
  <1>4. /\ handler \in [Client -> Handler]
        /\ \A d \in Client : handler[d].op = "list" =>
              request[d].op = "list" /\ IsFiniteSet(handler[d].records)
    BY HandlersKept
  <1> DEFINE h == [op |-> "post", id |-> id]
  <1>5. h \in Handler /\ h.op = "post" /\ h.id = id
    BY DEF Handler
  <1>6. handler'[c] = h /\ \A d \in Client : d # c => handler'[d] = handler[d]
    BY <1>1, <1>4
  <1>7. handler' \in [Client -> Handler]
    BY <1>1, <1>4, <1>5
  <1>8. Pending' = Pending \cup {id}
    <2>1. handler[c].op # "post"
      BY <1>1 DEF Idle
    <2> QED
      BY <1>6, <2>1, PendingGrows
  <1> HIDE DEF h
  <1>9. \A d \in Client : handler'[d].op = "list" =>
           request[d].op = "list" /\ IsFiniteSet(handler'[d].records)
    BY <1>4, <1>5, <1>6
  <1> QED
    BY <1>1, <1>2, <1>3, <1>7, <1>8, <1>9, OthersStay, AnnouncedClients

\* The update of a post that was suspended.
LEMMA PostResumesStep ==
    ASSUME FeedInv, NEW c \in Client, PostResumes(c)
    PROVE  Kept
  <1>1. /\ handler[c].op = "post"
        /\ sequence' = sequence + 1
        /\ Broadcast(<<UpdateFrame(sequence + 1, handler[c].id)>>)
        /\ announced' = announced \cup {handler[c].id}
        /\ ghosts' = ghosts \cup ({handler[c].id} \ Ids(messages'))
        /\ handler' = [handler EXCEPT ![c] = Idle]
        /\ UNCHANGED <<connected, subscribed, maintained, clientVars, request>>
        /\ messages' = messages
    BY DEF PostResumes, NoteUpdate, storeVars
  <1>2. /\ FeedTypes /\ NoRecordWithheld /\ \A d \in Client : ClientInv(d)
        /\ sequence \in Nat /\ sequence + 1 \in Nat /\ link \in [Client -> Seq(Frame)]
        /\ announced \subseteq MessageId /\ ghosts \subseteq MessageId
    BY DEF FeedInv, FeedTypes
  <1>3. /\ handler \in [Client -> Handler]
        /\ \A d \in Client : handler[d].op = "list" =>
              request[d].op = "list" /\ IsFiniteSet(handler[d].records)
    BY HandlersKept
  <1>4. handler[c].id \in MessageId
    BY <1>1, <1>3, HandlerFields
  <1>5. handler'[c] = Idle /\ \A d \in Client : d # c => handler'[d] = handler[d]
    BY <1>1, <1>3
  <1>6. Pending' \subseteq Pending /\ Pending \subseteq Pending' \cup {handler[c].id}
    BY <1>1, <1>5, PendingShrinks
  <1>7. PICK x \in MessageId : x = handler[c].id
    BY <1>4
  <1> DEFINE f == UpdateFrame(sequence + 1, x)
  <1>8. f \in Frame
    BY <1>2, EventFrames
  <1>9. f.seq = sequence + 1 /\ f.type = "update" /\ f.ids = {x}
    BY DEF UpdateFrame
  <1>10. Broadcast(<<f>>)
    BY <1>1, <1>7
  <1> HIDE DEF f
  <1>11. /\ link' \in [Client -> Seq(Frame)]
         /\ \A d \in Client :
               link'[d] = IF d \in subscribed THEN Append(link[d], f) ELSE link[d]
    BY <1>2, <1>8, <1>10, BroadcastTypes
  <1>12. Publishes(f)
    <2>1. \A S : Apply(f, S) = S \cup {x}
      BY <1>9 DEF Apply
    <2>2. Must' \subseteq Must \cup {x}
      BY <1>1, <1>6, <1>7 DEF Must
    <2>3. May \cup {x} \subseteq May'
      BY <1>1, <1>7 DEF May
    <2>4. Known \cup {x} \subseteq Known'
      BY <1>1, <1>6, <1>7 DEF Known
    <2> QED
      BY <1>1, <1>8, <1>9, <1>11, <2>1, <2>2, <2>3, <2>4 DEF Publishes, IsEvent
  <1>13. FeedTypes'
    <2>1. handler' \in [Client -> Handler]
      BY <1>1, <1>3 DEF Handler
    <2> QED
      BY <1>1, <1>2, <1>4, <1>11, <2>1 DEF FeedTypes, clientVars
  <1>14. \A d \in Client : OwnButLink(d)
    BY <1>1 DEF OwnButLink, clientVars
  <1>15. \A d \in Client : handler'[d].op = "list" =>
            request[d].op = "list" /\ IsFiniteSet(handler'[d].records)
    BY <1>3, <1>5 DEF Idle
  <1>16. \A d \in Client : ClientInv(d)'
    BY <1>2, <1>12, <1>14, <1>15, PublishedClient
  <1> QED
    BY <1>2, <1>12, <1>13, <1>16, PublishingWithholdsNothing DEF Kept

\* A post whose removals nobody is told, or that removes nothing.
LEMMA PostAtOnceStep ==
    ASSUME FeedInv, RowsInv', NEW c \in Client, NEW id \in MessageId, PostAtOnce(c, id)
    PROVE  Kept
  <1> DEFINE removed == RemovedIds
             s == IF removed = {} THEN sequence + 1 ELSE sequence + 2
             f == UpdateFrame(s, id)
  <1>1. /\ PostAccepted(id, c) /\ c \in Token
        /\ removed = {} \/ subscribed = {}
        /\ sequence' = s
        /\ Broadcast(<<f>>)
        /\ announced' = (announced \ removed) \cup {id}
        /\ ghosts' = ghosts \cup ({id} \ Ids(messages'))
        /\ UNCHANGED <<connected, subscribed, handler, maintained, clientVars, request>>
    BY FeedAssumption DEF PostAtOnce, NoteUpdate
  <1>2. /\ FeedTypes /\ NoRecordWithheld /\ \A d \in Client : ClientInv(d)
        /\ sequence \in Nat /\ link \in [Client -> Seq(Frame)]
        /\ announced \subseteq MessageId /\ ghosts \subseteq MessageId
    BY DEF FeedInv, FeedTypes
  <1>3. posts \subseteq posts' /\ Ids(messages') \subseteq Ids(messages) \cup {id}
        /\ Ids(messages) \subseteq Ids(messages') \cup removed
    BY <1>1, AcceptedRows, OthersStay
  <1>4. removed \subseteq MessageId /\ Ids(messages') \cap removed = {}
    BY <1>3, RemovedAreIds, RemovedAreGone DEF FeedInv, RowsInv
  <1>5. Pending' = Pending
    BY <1>1 DEF Pending
  <1>6. s \in Nat /\ sequence < s /\ (removed = {} => s = sequence + 1)
    BY <1>2
  <1>7. f \in Frame
    BY <1>6, EventFrames
  <1>8. f.seq = s /\ f.type = "update" /\ f.ids = {id}
    BY DEF UpdateFrame
  <1> HIDE DEF f, s, removed
  <1>9. /\ link' \in [Client -> Seq(Frame)]
        /\ \A d \in Client :
              link'[d] = IF d \in subscribed THEN Append(link[d], f) ELSE link[d]
    BY <1>1, <1>2, <1>7, BroadcastTypes
  <1>10. FeedTypes'
    BY <1>1, <1>2, <1>6, <1>9 DEF FeedTypes, clientVars
  <1>11. \A d \in Client : OwnButLink(d)
    BY <1>1 DEF OwnButLink, clientVars
  <1>12. CASE removed = {}
    <2>1. Publishes(f)
      <3>1. \A S : Apply(f, S) = S \cup {id}
        BY <1>8 DEF Apply
      <3>2. Must' \subseteq Must \cup {id}
        BY <1>3, <1>5 DEF Must
      <3>3. May \cup {id} \subseteq May'
        BY <1>1, <1>3, <1>12 DEF May
      <3>4. Known \cup {id} \subseteq Known'
        BY <1>1, <1>5, <1>12 DEF Known
      <3> QED
        BY <1>1, <1>6, <1>7, <1>8, <1>9, <1>12, <3>1, <3>2, <3>3, <3>4 DEF Publishes, IsEvent
    <2>2. \A d \in Client : handler'[d].op = "list" =>
             request[d].op = "list" /\ IsFiniteSet(handler'[d].records)
      BY <1>1, HandlersKept
    <2>3. \A d \in Client : ClientInv(d)'
      BY <1>2, <1>11, <2>1, <2>2, PublishedClient
    <2> QED
      BY <1>2, <1>10, <2>1, <2>3, PublishingWithholdsNothing DEF Kept
  <1>13. CASE removed # {}
    <2>1. NoRecordWithheld'
      BY <1>1, <1>2, <1>3, <1>4, <1>5 DEF NoRecordWithheld
    <2>2. \A d \in Client : RelayUnheard(d)
      BY <1>1, <1>6, <1>13 DEF RelayUnheard
    <2>3. \A d \in Client : OwnKept(d)
      BY <1>1, <1>9, <1>11, <1>13 DEF OwnKept
    <2>4. \A d \in Client : ClientInv(d)'
      BY <1>2, <2>2, <2>3, KeptClient
    <2> QED
      BY <1>10, <2>1, <2>4 DEF Kept
  <1> QED
    BY <1>12, <1>13

-----------------------------------------------------------------------------
(* The steps of one connection *)

\* Steps in which the relay says nothing.
LEMMA SilentStep ==
    ASSUME FeedInv, messages' \subseteq messages,
           Ids(messages) \subseteq Ids(messages') \cup ghosts',
           ghosts \subseteq ghosts', ghosts' \subseteq MessageId, maintained' \in BOOLEAN,
           UNCHANGED <<sequence, connected, subscribed, handler, announced,
                       clientVars, request, link>>
    PROVE  Kept
  <1>1. RelayQuiet
    <2>1. Pending' = Pending
      BY DEF Pending
    <2>2. Ids(messages') \subseteq Ids(messages)
      BY DEF Ids
    <2> QED
      BY <2>1, <2>2 DEF RelayQuiet, Must, May, Known
  <1>2. \A d \in Client : OwnKept(d)
    BY DEF OwnKept, OwnButLink, clientVars
  <1>3. FeedTypes'
    BY DEF FeedInv, FeedTypes, clientVars
  <1>4. \A d \in Client : ClientInv(d)'
    BY <1>1, <1>2, KeptClient DEF FeedInv
  <1> QED
    BY <1>1, <1>3, <1>4, QuietWithholdsNothing DEF FeedInv, Kept

\* A duplicate post announces nothing: what it removes is a ghost.
LEMMA DuplicatePostStep ==
    ASSUME FeedInv, RowsInv', NEW c \in Client, NEW id \in MessageId, DuplicatePost(c, id)
    PROVE  Kept
  <1>1. messages' \subseteq messages /\ ghosts' = ghosts \cup RemovedIds
    BY CleanupRows DEF DuplicatePost, PostDuplicate
  <1>2. Ids(messages) \subseteq Ids(messages') \cup ghosts' /\ ghosts \subseteq ghosts'
    BY <1>1, OthersStay
  <1>3. RemovedIds \subseteq MessageId /\ ghosts \subseteq MessageId /\ maintained \in BOOLEAN
    BY RemovedAreIds DEF FeedInv, FeedTypes, RowsInv
  <1>4. /\ ghosts' \subseteq MessageId /\ maintained' \in BOOLEAN
        /\ UNCHANGED <<sequence, connected, subscribed, handler, announced,
                       clientVars, request, link>>
    BY <1>1, <1>3 DEF DuplicatePost
  <1> QED
    BY <1>1, <1>2, <1>4, SilentStep

\* Steps that leave the board alone as well: time passes, the maintenance task
\* ends.
LEMMA IdleStep ==
    ASSUME FeedInv, maintained' \in BOOLEAN,
           UNCHANGED <<messages, sequence, connected, subscribed, handler, announced,
                       ghosts, clientVars, request, link>>
    PROVE  Kept
  <1>1. Ids(messages) \subseteq Ids(messages') \cup ghosts' /\ ghosts' \subseteq MessageId
    BY DEF FeedInv, FeedTypes, Ids
  <1> QED
    BY <1>1, SilentStep

LEMMA TickStep == FeedInv /\ Tick => Kept
  <1> SUFFICES ASSUME FeedInv, Tick PROVE Kept
    OBVIOUS
  <1>1. maintained' = maintained /\ maintained \in BOOLEAN
    BY DEF Tick, relayVars, FeedInv, FeedTypes
  <1> QED
    BY <1>1, IdleStep DEF Tick, ClockTick, relayVars

LEMMA MaintenanceEndsStep == FeedInv /\ MaintenanceEnds => Kept
BY IdleStep DEF MaintenanceEnds, storeVars

\* What remains to prove of a step of one connection.
LEMMA OwnStep ==
    ASSUME FeedInv, NEW c \in Client, FeedTypes', NoRecordWithheld',
           \A d \in Client : d # c => OwnKept(d) /\ (RelayQuiet \/ RelayUnheard(d)),
           ClientInv(c)'
    PROVE  Kept
  <1>1. \A d \in Client : d # c => ClientInv(d)'
    BY KeptClient DEF FeedInv
  <1> QED
    BY <1>1 DEF Kept

\* A connection that is gone keeps no promise.
LEMMA GoneClient ==
    ASSUME FeedTypes, FeedTypes', NEW c \in Client, Gone(c)
    PROVE  ClientInv(c)'
  <1>1. /\ c \notin connected' /\ c \notin subscribed'
        /\ c \notin resync' /\ c \notin dirty'
        /\ request'[c] = NoRequest /\ link'[c] = <<>> /\ sync'[c] = NoSync
        /\ viewSequence'[c] = 0 /\ sequence' \in Nat
        /\ 1..Len(link'[c]) = {}
    <2>1. 1..Len(<<>>) = {}
      OBVIOUS
    <2> QED
      BY <2>1 DEF Gone, FeedTypes
  <1>2. handler'[c].op # "list"
    BY DEF Gone, Idle
  <1>3. request'[c].op = "none" /\ sync'[c].phase = "none"
    BY <1>1 DEF NoRequest, NoSync
  <1>4. Bounded(c)' /\ Conversing(c)' /\ SubscriptionsKnown(c)'
    BY <1>1, <1>2, <1>3 DEF Bounded, Conversing, SubscriptionsKnown
  <1>5. Collecting(c)' /\ PagesFit(c)'
    BY <1>1, <1>3 DEF Collecting, PagesFit
  <1>6. ViewPromised(c)' /\ ReplyPromised(c)' /\ InstallPromised(c)'
    BY <1>1 DEF ViewPromised, ReplyPromised, InstallPromised
  <1> QED
    BY <1>4, <1>5, <1>6 DEF ClientInv

\* A client that leaves, whatever else the step publishes ...
LEMMA LeaveStep ==
    ASSUME FeedInv, NEW c \in Client, Leave(c), sequence' \in Nat, announced' \subseteq announced,
           UNCHANGED <<maintained, ghosts>>, NoRecordWithheld', \A d \in Client : RelayQuiet \/ RelayUnheard(d)
    PROVE  Kept
  <1>1. FeedTypes' /\ Gone(c) /\ \A d \in Client : d # c => OwnKept(d)
    BY LeaveTypes DEF FeedInv
  <1>2. ClientInv(c)'
    BY <1>1, GoneClient DEF FeedInv
  <1> QED
    BY <1>1, <1>2, OwnStep

\* ... its suspended post stays pending ...
LEMMA LeavePending ==
    ASSUME FeedInv, NEW c \in Client, Leave(c)
    PROVE  Pending' = Pending
  <1>1. \A d \in Client : d # c => handler'[d] = handler[d]
    BY DEF Leave, FeedInv, FeedTypes
  <1>2. handler'[c] = handler[c] \/ (handler[c].op = "list" /\ handler'[c] = Idle)
    <2>1. handler' = [handler EXCEPT ![c] = IF handler[c].op = "list" THEN Idle ELSE handler[c]]
      BY DEF Leave
    <2>2. handler \in [Client -> Handler]
      BY DEF FeedInv, FeedTypes
    <2>3. handler'[c] = IF handler[c].op = "list" THEN Idle ELSE handler[c]
      BY <2>1, <2>2
    <2> QED
      BY <2>3
  <1>3. handler'[c] = handler[c] \/ (handler[c].op # "post" /\ handler'[c].op # "post")
    BY <1>2 DEF Idle
  <1> QED
    BY <1>1, <1>3, PendingSame

\* A connection that leaves changes nothing that is published.
LEMMA LeaveQuietly ==
    ASSUME FeedInv, NEW c \in Client, Leave(c),
           UNCHANGED <<messages, sequence, maintained, announced, ghosts>>
    PROVE  Kept
  <1>1. Pending' = Pending
    BY LeavePending
  <1>2. RelayQuiet
    BY <1>1 DEF RelayQuiet, Must, May, Known
  <1>3. NoRecordWithheld'
    BY <1>2, QuietWithholdsNothing DEF FeedInv
  <1>4. sequence' \in Nat
    BY DEF FeedInv, FeedTypes
  <1> QED
    BY <1>2, <1>3, <1>4, LeaveStep

\* A connection is lost.
LEMMA DisconnectStep ==
    ASSUME FeedInv, NEW c \in Client, Disconnect(c)
    PROVE  Kept
BY LeaveQuietly DEF Disconnect, storeVars

\* A joining client gives up after its last attempt.
LEMMA JoinFailsStep ==
    ASSUME FeedInv, NEW c \in Client, JoinFails(c)
    PROVE  Kept
BY LeaveQuietly DEF JoinFails, storeVars

\* What a page holds, when the offset is within the records.
LEMMA PageFits ==
    ASSUME NEW c \in Client, request[c].offset \in Nat, NEW s \in Nat,
           NEW exact \in BOOLEAN, NEW records \in SUBSET Record, IsFiniteSet(records),
           request[c].offset <= Cardinality(records),
           NEW f, f = PageFrame(c, records, s, exact)
    PROVE  /\ f.type = "page" /\ f.seq = s /\ ~f.restart /\ f.of = records
           /\ f.ids = Between(records, request[c].offset, f.next)
           /\ request[c].offset <= f.next
           /\ f.done <=> f.next = Cardinality(records)
           /\ f.exact = exact
  <1> DEFINE from == request[c].offset
             size == Cardinality(records)
             upto == IF from + PageSize < size THEN from + PageSize ELSE size
  <1>1. f = [type |-> "page", seq |-> s, restart |-> FALSE, next |-> upto,
             done |-> (upto = size), exact |-> exact, of |-> records,
             ids |-> Ids({m \in records : Rank(m, records) \in from..(upto - 1)})]
    BY DEF PageFrame
  <1>2. size \in Nat
    BY FS_CardinalityType
  <1>3. from <= upto
    BY <1>2, FeedAssumption
  <1> HIDE DEF from, size, upto
  <1>4. f.next = upto /\ f.ids = Between(records, from, upto)
    BY <1>1 DEF Between
  <1>5. f.type = "page" /\ f.seq = s /\ ~f.restart /\ f.of = records /\ f.exact = exact
    BY <1>1
  <1>6. f.done <=> f.next = size
    <2>1. f.done = (upto = size) /\ f.next = upto
      BY <1>1
    <2> QED
      BY <2>1
  <1> QED
    BY <1>3, <1>4, <1>5, <1>6 DEF from, size

\* A response is queued: the connection had none.
Answered(c, f) ==
    /\ request'[c] = NoRequest
    /\ link'[c] = Append(link[c], f)
    /\ handler'[c].op # "list"
    /\ sync'[c] = sync[c] /\ view'[c] = view[c] /\ viewSequence'[c] = viewSequence[c]
    /\ excused'[c] = excused[c]
    /\ c \in connected' <=> c \in connected
    /\ c \in resync' <=> c \in resync
    /\ c \in dirty' <=> c \in dirty

\* What holds of the frames after a response is queued.
LEMMA AppendElements ==
    ASSUME NEW q \in Seq(Frame), NEW f \in Frame
    PROVE  /\ Append(q, f) # <<>> /\ Len(q) \in Nat
           /\ Len(Append(q, f)) = Len(q) + 1 /\ Append(q, f)[Len(q) + 1] = f
           /\ \A i \in 1..Len(q) : q[i] \in Frame /\ Append(q, f)[i] = q[i]
OBVIOUS

\* The frames of a client after its request is answered.
LEMMA AnsweredFrames ==
    ASSUME FeedTypes, NEW c \in Client, ClientInv(c), request[c].op # "none",
           NEW f \in Frame, IsResponse(f), link'[c] = Append(link[c], f)
    PROVE  /\ link'[c] # <<>> /\ link[c] \in Seq(Frame) /\ Len(link[c]) \in Nat
           /\ c \in connected
           /\ Len(link'[c]) = Len(link[c]) + 1 /\ link'[c][Len(link[c]) + 1] = f
           /\ \A i \in 1..Len(link[c]) :
                 link[c][i] \in Frame /\ link'[c][i] = link[c][i] /\ ~IsResponse(link[c][i])
           /\ \A i \in 1..Len(link'[c]) :
                 i \in 1..Len(link[c]) \/ i = Len(link[c]) + 1
  <1>1. link[c] \in Seq(Frame)
    BY DEF FeedTypes
  <1>2. request[c] # NoRequest
    BY DEF NoRequest
  <1>3. \A i \in 1..Len(link[c]) : ~IsResponse(link[c][i])
    BY <1>2 DEF ClientInv, Conversing
  <1>4. c \in connected
    BY <1>2 DEF ClientInv, Bounded
  <1>5. /\ link'[c] # <<>> /\ Len(link[c]) \in Nat
        /\ Len(link'[c]) = Len(link[c]) + 1 /\ link'[c][Len(link[c]) + 1] = f
        /\ \A i \in 1..Len(link[c]) : link[c][i] \in Frame /\ link'[c][i] = link[c][i]
    BY <1>1, AppendElements
  <1>6. \A i \in 1..Len(link'[c]) : i \in 1..Len(link[c]) \/ i = Len(link[c]) + 1
    BY <1>5
  <1> QED
    BY <1>1, <1>3, <1>4, <1>5, <1>6

\* The invariants that both kinds of response keep in the same way.
LEMMA AnsweredClient ==
    ASSUME FeedTypes, NEW c \in Client, ClientInv(c), request[c].op # "none",
           NEW f \in Frame, IsResponse(f), Answered(c, f),
           sequence' \in Nat, sequence <= sequence', f.seq <= sequence',
           sync[c].phase = IF f.type = "page" THEN "list" ELSE "subscribe",
           RelayQuiet \/ sequence < sequence'
    PROVE  Bounded(c)' /\ Conversing(c)' /\ Collecting(c)' /\ InstallPromised(c)'
  <1> USE DEF Answered
  <1>1. /\ link[c] \in Seq(Frame) /\ Len(link[c]) \in Nat /\ c \in connected
        /\ Len(link'[c]) = Len(link[c]) + 1 /\ link'[c][Len(link[c]) + 1] = f
        /\ \A i \in 1..Len(link[c]) :
              link[c][i] \in Frame /\ link'[c][i] = link[c][i] /\ ~IsResponse(link[c][i])
        /\ \A i \in 1..Len(link'[c]) : i \in 1..Len(link[c]) \/ i = Len(link[c]) + 1
    BY AnsweredFrames
  <1>2. sync[c] \in Sync /\ viewSequence[c] \in Nat /\ sequence \in Nat
    BY DEF FeedTypes
  <1>3. sync[c] # NoSync => sync[c].seq \in Nat
    BY <1>2, SyncFields
  <1>4. Bounded(c)'
    <2>1. \A i \in 1..Len(link[c]) : link[c][i].seq \in Nat /\ link[c][i].seq <= sequence
      BY <1>1, FrameFields DEF ClientInv, Bounded
    <2>2. \A i \in 1..Len(link'[c]) : link'[c][i].seq <= sequence'
      BY <1>1, <1>2, <2>1
    <2>3. viewSequence[c] <= sequence'
      BY <1>2 DEF ClientInv, Bounded
    <2>4. sync[c] # NoSync => sync[c].seq <= sequence'
      BY <1>2, <1>3 DEF ClientInv, Bounded
    <2> QED
      BY <1>1, <2>2, <2>3, <2>4 DEF Bounded
  <1>5. Conversing(c)'
    <2>1. request'[c].op = "none"
      BY DEF NoRequest
    <2>2. \A i \in 1..Len(link'[c]) : IsResponse(link'[c][i]) => i = Len(link[c]) + 1
      BY <1>1
    <2> QED
      BY <1>1, <2>1, <2>2 DEF Conversing
  <1>6. Collecting(c)'
    <2>1. Collecting(c) /\ Bounded(c)
      BY DEF ClientInv
    <2>2. sync[c].phase \in {"list", "subscribe"} => sync[c].seq \in Nat /\ sync[c].seq <= sequence
      BY <1>2, <1>3, <2>1, SyncFields DEF Bounded
    <2>3. \A of, s : s \in Nat /\ s <= sequence /\ OfBoard(of, s) => OfBoard(of, s)'
      BY <1>2, KeptOfBoard
    <2> QED
      BY <2>1, <2>2, <2>3 DEF Collecting
  <1>7. InstallPromised(c)'
    BY DEF InstallPromised
  <1> QED
    BY <1>4, <1>5, <1>6, <1>7

\* The end of board_list, for records and an exactness that are true.
LEMMA FinishListStep ==
    ASSUME FeedInv, NEW c \in Client, request[c].op = "list",
           NEW records \in SUBSET Record, IsFiniteSet(records), NEW exact \in BOOLEAN,
           FinishList(c, records, sequence', exact), ~OffsetBeyond(c, records, sequence'),
           exact => messages' \subseteq records /\ Ids(records) \subseteq May',
           sequence' \in Nat, announced' \subseteq announced, NoRecordWithheld',
           UNCHANGED <<maintained, ghosts>>,
           RelayQuiet \/ (sequence < sequence' /\ subscribed = {})
    PROVE  Kept
  <1>1. /\ FeedTypes /\ ClientInv(c)
        /\ sequence \in Nat /\ link \in [Client -> Seq(Frame)] /\ link[c] \in Seq(Frame)
        /\ request \in [Client -> Request] /\ handler \in [Client -> Handler]
        /\ sync[c] \in Sync
    BY DEF FeedInv, FeedTypes
  <1>2. request[c].offset \in Nat /\ request[c].snapshot \in Nat /\ Cardinality(records) \in Nat
    BY <1>1, RequestFields, FS_CardinalityType
  <1> DEFINE stale == request[c].offset > 0 /\ request[c].snapshot # sequence'
             g == IF stale THEN RestartFrame(sequence')
                  ELSE PageFrame(c, records, sequence', exact)
  <1>3. /\ request' = [request EXCEPT ![c] = NoRequest]
        /\ handler' = [handler EXCEPT ![c] = Idle]
        /\ Send(c, g)
        /\ UNCHANGED <<connected, subscribed, clientVars>>
    BY DEF FinishList
  <1>4. g \in Frame /\ g.type = "page" /\ g.seq = sequence' /\ (g.restart <=> stale)
    <2>1. CASE stale
      BY <1>2, <2>1, PageFrames DEF RestartFrame
    <2>2. CASE ~stale
      <3>1. PageFrame(c, records, sequence', exact) \in Frame
        BY <1>2, PageFrames
      <3>2. /\ PageFrame(c, records, sequence', exact).type = "page"
            /\ PageFrame(c, records, sequence', exact).seq = sequence'
            /\ PageFrame(c, records, sequence', exact).restart = FALSE
        BY DEF PageFrame
      <3> QED
        BY <2>2, <3>1, <3>2
    <2> QED
      BY <2>1, <2>2
  <1>5. ~stale => /\ g.of = records
                  /\ g.ids = Between(records, request[c].offset, g.next)
                  /\ request[c].offset <= g.next
                  /\ g.done <=> g.next = Cardinality(records)
                  /\ g.exact = exact
    <2> SUFFICES ASSUME ~stale
                 PROVE  /\ g.of = records
                        /\ g.ids = Between(records, request[c].offset, g.next)
                        /\ request[c].offset <= g.next
                        /\ g.done <=> g.next = Cardinality(records)
                        /\ g.exact = exact
      OBVIOUS
    <2>1. request[c].offset <= Cardinality(records)
      BY <1>2 DEF OffsetBeyond
    <2>2. g = PageFrame(c, records, sequence', exact)
      OBVIOUS
    <2> HIDE DEF g
    <2> QED
      BY <1>2, <2>1, <2>2, PageFits
  <1>6. stale <=> request[c].offset > 0 /\ request[c].snapshot # sequence'
    OBVIOUS
  <1>a. PICK f : f = g
    OBVIOUS
  <1> HIDE DEF g, stale
  <1>b. /\ f \in Frame /\ f.type = "page" /\ f.seq = sequence' /\ (f.restart <=> stale)
        /\ Send(c, f)
        /\ ~stale => /\ f.of = records
                     /\ f.ids = Between(records, request[c].offset, f.next)
                     /\ request[c].offset <= f.next
                     /\ f.done <=> f.next = Cardinality(records)
                     /\ f.exact = exact
    BY <1>3, <1>4, <1>5, <1>a
  <1>7. link' \in [Client -> Seq(Frame)] /\ link'[c] = Append(link[c], f)
        /\ \A d \in Client : d # c => link'[d] = link[d]
    BY <1>1, <1>b, SendTypes DEF Send
  <1>8. FeedTypes'
    <2>1. request' \in [Client -> Request] /\ handler' \in [Client -> Handler]
      BY <1>1, <1>3 DEF Request, Handler
    <2> QED
      BY <1>1, <1>3, <1>7, <2>1 DEF FeedTypes, clientVars
  <1>9. \A d \in Client : d # c => OwnKept(d)
    BY <1>1, <1>3, <1>7 DEF OwnKept, OwnButLink, clientVars
  <1>10. Answered(c, f) /\ (c \in subscribed' <=> c \in subscribed)
    BY <1>1, <1>3, <1>7 DEF Answered, clientVars, Idle
  <1>11. IsResponse(f) /\ sync[c].phase = "list" /\ request[c].offset = sync[c].offset
         /\ ~IsEvent(f) /\ f.type # "subscribed"
    BY <1>1, <1>b DEF ClientInv, Conversing, IsResponse, IsEvent
  <1>12. sequence <= sequence' /\ (RelayQuiet \/ sequence < sequence')
    BY <1>1 DEF RelayQuiet
  <1>13. Bounded(c)' /\ Conversing(c)' /\ Collecting(c)' /\ InstallPromised(c)'
    <2>1. f.seq <= sequence' /\ sync[c].phase = IF f.type = "page" THEN "list" ELSE "subscribe"
      BY <1>b, <1>11
    <2>2. /\ FeedTypes /\ ClientInv(c) /\ request[c].op # "none"
          /\ f \in Frame /\ IsResponse(f) /\ Answered(c, f)
          /\ sequence' \in Nat /\ sequence <= sequence'
          /\ RelayQuiet \/ sequence < sequence'
      BY <1>1, <1>b, <1>10, <1>11, <1>12
    <2> QED
      BY <2>1, <2>2, AnsweredClient
  <1>14. /\ Len(link[c]) \in Nat /\ c \in connected
         /\ Len(link'[c]) = Len(link[c]) + 1 /\ link'[c][Len(link[c]) + 1] = f
         /\ \A i \in 1..Len(link[c]) :
               link[c][i] \in Frame /\ link'[c][i] = link[c][i] /\ ~IsResponse(link[c][i])
         /\ \A i \in 1..Len(link'[c]) : i \in 1..Len(link[c]) \/ i = Len(link[c]) + 1
    BY <1>1, <1>b, <1>7, <1>11, AnsweredFrames
  <1>15. Joining(c)' <=> Joining(c)
    BY <1>10, JoiningKept DEF Answered
  <1>16. SubscriptionsKnown(c)'
    BY <1>1, <1>10, <1>11, <1>14, <1>15 DEF ClientInv, SubscriptionsKnown, Answered, IsResponse
  <1>17. PagesFit(c)'
    <2>1. exact => messages' \subseteq records /\ Ids(records) \subseteq May'
      OBVIOUS
    <2>2. ~stale => /\ IsFiniteSet(f.of)
                    /\ f.ids = Between(f.of, sync[c].offset, f.next)
                    /\ sync[c].offset <= f.next
                    /\ f.done <=> f.next = Cardinality(f.of)
      BY <1>b, <1>11
    <2>3. ~stale /\ f.exact => OfBoard(f.of, f.seq)'
      BY <1>b, <2>1 DEF OfBoard
    <2>4. \A i \in 1..Len(link[c]) : link[c][i].type # "page"
      BY <1>14 DEF IsResponse
    <2>5. \A i \in 1..Len(link'[c]) : link'[c][i].type = "page" => link'[c][i] = f
      BY <1>14, <2>4
    <2>6. sync'[c] = sync[c]
      BY <1>10 DEF Answered
    <2>7. ~f.restart => ~stale
      BY <1>b
    <2> QED
      BY <2>2, <2>3, <2>5, <2>6, <2>7 DEF PagesFit
  <1>18. ViewPromised(c)'
    <2> SUFFICES ASSUME c \in subscribed', ~Joining(c)', c \notin resync', excused'[c] = {}
                 PROVE  Current(link'[c], 0, view'[c], viewSequence'[c], sequence', Must', May')
      BY DEF ViewPromised
    <2>1. /\ sequence' = sequence /\ Must' \subseteq Must /\ May \subseteq May'
      BY <1>10 DEF RelayQuiet
    <2>2. Current(link[c], 0, view[c], viewSequence[c], sequence, Must, May)
      BY <1>1, <1>10, <1>15 DEF ClientInv, ViewPromised, Answered
    <2>3. viewSequence[c] \in Nat /\ 0 \in 0..Len(link[c])
      BY <1>1, <1>14 DEF FeedTypes
    <2>4. Current(Append(link[c], f), 0, view[c], viewSequence[c], sequence, Must, May)
      BY <1>1, <1>b, <1>11, <2>2, <2>3, AppendOtherCurrent
    <2>5. Current(Append(link[c], f), 0, view[c], viewSequence[c], sequence, Must', May')
      BY <2>1, <2>4, WeakerCurrent
    <2> QED
      BY <1>10, <2>1, <2>5 DEF Answered
  <1>19. ReplyPromised(c)'
    <2>1. \A i \in 1..Len(link'[c]) : link'[c][i].type # "subscribed"
      BY <1>11, <1>14 DEF IsResponse
    <2> QED
      BY <2>1 DEF ReplyPromised
  <1>20. ClientInv(c)'
    BY <1>13, <1>16, <1>17, <1>18, <1>19 DEF ClientInv
  <1>21. \A d \in Client : RelayQuiet \/ RelayUnheard(d)
    BY DEF RelayUnheard
  <1> QED
    BY <1>8, <1>9, <1>20, <1>21, OwnStep

\* A list that nobody has to be told about is answered in one step.
LEMMA ListAtOnceStep ==
    ASSUME FeedInv, RowsInv', WithinCapacity', NEW c \in Client, ListAtOnce(c)
    PROVE  Kept
  <1> DEFINE removed == RemovedIds
  <1>1. /\ Cleanup /\ UNCHANGED posts
        /\ handler[c] = Idle /\ request[c].op = "list"
        /\ removed = {} \/ subscribed = {}
        /\ sequence' = IF removed = {} THEN sequence ELSE sequence + 1
        /\ announced' = announced \ removed
        /\ UNCHANGED <<maintained, ghosts>>
    BY DEF ListAtOnce, CleanUp
  <1>2. IF OffsetBeyond(c, messages', sequence')
        THEN Leave(c) ELSE FinishList(c, messages', sequence', TRUE)
    BY DEF ListAtOnce
  <1>3. /\ messages' \subseteq messages /\ (removed = {} => messages' = messages)
        /\ messages' \subseteq Record /\ IsFiniteSet(messages')
    BY <1>1, CleanupRows DEF RowsInv, TypeOK, WithinCapacity
  <1>4. Ids(messages') \cap removed = {}
    BY <1>1, RemovedAreGone DEF FeedInv
  <1>5. Ids(messages') \subseteq Ids(messages)
    BY <1>3 DEF Ids
  <1> HIDE DEF removed
  <1>6. Pending' = Pending
    <2>1. CASE Leave(c)
      BY <2>1, LeavePending
    <2>2. CASE FinishList(c, messages', sequence', TRUE)
      <3>1. handler' = [handler EXCEPT ![c] = Idle] /\ handler \in [Client -> Handler]
        BY <2>2 DEF FinishList, FeedInv, FeedTypes
      <3>2. \A d \in Client : handler'[d] = handler[d]
        BY <1>1, <3>1
      <3> QED
        BY <3>2, PendingSame
    <2> QED
      BY <1>2, <2>1, <2>2
  <1>7. sequence \in Nat /\ sequence' \in Nat /\ announced' \subseteq announced
    BY <1>1 DEF FeedInv, FeedTypes
  <1>8. NoRecordWithheld'
    BY <1>1, <1>4, <1>5, <1>6 DEF FeedInv, NoRecordWithheld
  <1>9. RelayQuiet \/ (sequence < sequence' /\ subscribed = {})
    <2>1. CASE removed = {}
      BY <1>1, <1>3, <1>5, <1>6, <2>1 DEF RelayQuiet, Must, May, Known
    <2>2. CASE removed # {}
      BY <1>1, <1>7, <2>2
    <2> QED
      BY <2>1, <2>2
  <1>10. CASE OffsetBeyond(c, messages', sequence')
    <2>1. \A d \in Client : RelayQuiet \/ RelayUnheard(d)
      BY <1>7, <1>9 DEF RelayUnheard
    <2> QED
      BY <1>1, <1>2, <1>7, <1>8, <1>10, <2>1, LeaveStep
  <1>11. CASE ~OffsetBeyond(c, messages', sequence')
    <2>1. Ids(messages') \subseteq May'
      BY DEF May
    <2>2. PICK records \in SUBSET Record : records = messages'
      BY <1>3
    <2>3. /\ IsFiniteSet(records) /\ FinishList(c, records, sequence', TRUE)
          /\ ~OffsetBeyond(c, records, sequence')
          /\ messages' \subseteq records /\ Ids(records) \subseteq May'
      BY <1>2, <1>3, <1>11, <2>1, <2>2
    <2> QED
      BY <1>1, <1>7, <1>8, <1>9, <2>3, FinishListStep
  <1> QED
    BY <1>10, <1>11

\* A list that was suspended answers with the records it had read.
LEMMA ListResumesStep ==
    ASSUME FeedInv, NEW c \in Client, ListResumes(c)
    PROVE  Kept
  <1>1. /\ handler[c].op = "list"
        /\ UNCHANGED <<storeVars, sequence, maintained, announced, ghosts>>
        /\ IF OffsetBeyond(c, handler[c].records, sequence)
           THEN Leave(c)
           ELSE FinishList(c, handler[c].records, sequence, handler[c].records = messages)
    BY DEF ListResumes
  <1>2. request[c].op = "list" /\ IsFiniteSet(handler[c].records)
        /\ handler[c].records \subseteq Record
    BY <1>1, HandlersKept, HandlerFields
  <1>3. messages' = messages /\ sequence' = sequence /\ announced' = announced /\ sequence \in Nat
    BY <1>1 DEF storeVars, FeedInv, FeedTypes
  <1>4. CASE OffsetBeyond(c, handler[c].records, sequence)
    BY <1>1, <1>3, <1>4, LeaveQuietly
  <1>5. CASE ~OffsetBeyond(c, handler[c].records, sequence)
    <2>1. PICK records \in SUBSET Record : records = handler[c].records
      BY <1>2
    <2>2. PICK exact \in BOOLEAN : exact = (records = messages)
      OBVIOUS
    <2>3. FinishList(c, records, sequence', exact) /\ ~OffsetBeyond(c, records, sequence')
      BY <1>1, <1>3, <1>5, <2>1, <2>2
    <2>4. Pending' = Pending
      <3>1. handler' = [handler EXCEPT ![c] = Idle] /\ handler \in [Client -> Handler]
        BY <2>3 DEF FinishList, FeedInv, FeedTypes
      <3>2. handler'[c].op # "post" /\ handler[c].op # "post"
        BY <1>1, <3>1 DEF Idle
      <3>3. \A d \in Client : d # c => handler'[d] = handler[d]
        BY <3>1
      <3> QED
        BY <3>2, <3>3, PendingSame
    <2>5. RelayQuiet
      BY <1>1, <1>3, <2>4 DEF RelayQuiet, Must, May, Known
    <2>6. NoRecordWithheld'
      BY <2>5, QuietWithholdsNothing DEF FeedInv
    <2>7. exact => messages' \subseteq records /\ Ids(records) \subseteq May'
      BY <1>3, <2>2 DEF May
    <2> QED
      BY <1>1, <1>2, <1>3, <2>1, <2>3, <2>5, <2>6, <2>7, FinishListStep
  <1> QED
    BY <1>4, <1>5

\* The subscription: if the sequence still is the snapshot's, the snapshot is the
\* board.
LEMMA SubscribeStep ==
    ASSUME FeedInv, NEW c \in Client, Subscribe(c)
    PROVE  Kept
  <1>1. PICK ok \in BOOLEAN : ok = (request[c].after = sequence)
    OBVIOUS
  <1> DEFINE g == SubscribeReply(ok)
  <1>2. /\ c \in connected /\ handler[c] = Idle /\ request[c].op = "subscribe"
        /\ subscribed' = IF ok THEN subscribed \cup {c} ELSE subscribed
        /\ Send(c, g)
        /\ request' = [request EXCEPT ![c] = NoRequest]
        /\ UNCHANGED <<storeVars, sequence, connected, handler, maintained, announced,
                       ghosts, clientVars>>
    BY <1>1 DEF Subscribe
  <1>3. /\ FeedTypes /\ ClientInv(c)
        /\ sequence \in Nat /\ link \in [Client -> Seq(Frame)] /\ link[c] \in Seq(Frame)
        /\ request \in [Client -> Request] /\ sync[c] \in Sync /\ subscribed \subseteq connected
    BY DEF FeedInv, FeedTypes
  <1>4. PICK f \in Frame : f = g
    BY <1>3, ReplyFrames
  <1>5. f.type = "subscribed" /\ f.seq = sequence /\ (f.ok <=> ok)
    BY <1>4 DEF SubscribeReply
  <1>6. Send(c, f)
    BY <1>2, <1>4
  <1> HIDE DEF g
  <1>7. link' \in [Client -> Seq(Frame)] /\ link'[c] = Append(link[c], f)
        /\ \A d \in Client : d # c => link'[d] = link[d]
    BY <1>3, <1>6, SendTypes DEF Send
  <1>8. FeedTypes'
    <2>1. request' \in [Client -> Request] /\ subscribed' \subseteq connected'
      BY <1>2, <1>3 DEF Request
    <2> QED
      BY <1>2, <1>3, <1>7, <2>1 DEF FeedTypes, clientVars
  <1>9. \A d \in Client : d # c => OwnKept(d)
    BY <1>2, <1>3, <1>7 DEF OwnKept, OwnButLink, clientVars
  <1>10. RelayQuiet /\ Must' = Must /\ May' = May /\ sequence' = sequence
    BY <1>2 DEF RelayQuiet, Must, May, Known, Pending, storeVars
  <1>11. NoRecordWithheld'
    BY <1>10, QuietWithholdsNothing DEF FeedInv
  <1>12. Answered(c, f)
    BY <1>2, <1>3, <1>7 DEF Answered, clientVars, Idle
  <1>13. IsResponse(f) /\ sync[c].phase = "subscribe" /\ request[c].after = sync[c].seq
         /\ ~IsEvent(f) /\ f.type # "page"
    BY <1>2, <1>3, <1>5 DEF ClientInv, Conversing, IsResponse, IsEvent
  <1>14. Bounded(c)' /\ Conversing(c)' /\ Collecting(c)' /\ InstallPromised(c)'
    <2>1. sequence' \in Nat /\ sequence <= sequence' /\ f.seq <= sequence'
      BY <1>3, <1>5, <1>10
    <2>2. sync[c].phase = IF f.type = "page" THEN "list" ELSE "subscribe"
      BY <1>13
    <2>3. request[c].op # "none"
      BY <1>2
    <2> QED
      BY <1>3, <1>10, <1>12, <1>13, <2>1, <2>2, <2>3, AnsweredClient
  <1>15. /\ Len(link[c]) \in Nat /\ c \in connected
         /\ Len(link'[c]) = Len(link[c]) + 1 /\ link'[c][Len(link[c]) + 1] = f
         /\ \A i \in 1..Len(link[c]) :
               link[c][i] \in Frame /\ link'[c][i] = link[c][i] /\ ~IsResponse(link[c][i])
         /\ \A i \in 1..Len(link'[c]) : i \in 1..Len(link[c]) \/ i = Len(link[c]) + 1
    BY <1>2, <1>3, <1>7, <1>13, AnsweredFrames
  <1>16. Joining(c)' <=> Joining(c)
    BY <1>12, JoiningKept DEF Answered
  <1>17. SubscriptionsKnown(c)'
    <2>1. c \in connected' \ subscribed' => c \in connected \ subscribed /\ ~ok
      BY <1>2
    <2>2. sync'[c].phase # "resume"
      BY <1>12, <1>13 DEF Answered
    <2> QED
      BY <1>3, <1>5, <1>15, <1>16, <2>1, <2>2 DEF ClientInv, SubscriptionsKnown, IsResponse
  <1>18. PagesFit(c)'
    <2>1. \A i \in 1..Len(link'[c]) : link'[c][i].type # "page"
      BY <1>13, <1>15 DEF IsResponse
    <2> QED
      BY <2>1 DEF PagesFit
  <1>19. ViewPromised(c)'
    <2> SUFFICES ASSUME c \in subscribed', ~Joining(c)', c \notin resync', excused'[c] = {}
                 PROVE  Current(link'[c], 0, view'[c], viewSequence'[c], sequence', Must', May')
      BY DEF ViewPromised
    <2>1. c \in subscribed /\ ~Joining(c)
      BY <1>2, <1>3, <1>16 DEF ClientInv, SubscriptionsKnown
    <2>2. Current(link[c], 0, view[c], viewSequence[c], sequence, Must, May)
      BY <1>3, <1>12, <2>1 DEF ClientInv, ViewPromised, Answered
    <2>3. viewSequence[c] \in Nat /\ 0 \in 0..Len(link[c])
      BY <1>3, <1>15 DEF FeedTypes
    <2>4. Current(Append(link[c], f), 0, view[c], viewSequence[c], sequence, Must, May)
      BY <1>3, <1>13, <2>2, <2>3, AppendOtherCurrent
    <2> QED
      BY <1>10, <1>12, <2>4 DEF Answered
  <1>20. ReplyPromised(c)'
    <2> SUFFICES ASSUME NEW i \in 1..Len(link'[c]), link'[c][i].type = "subscribed",
                        link'[c][i].ok, sync'[c].exact
                 PROVE  Current(link'[c], i, sync'[c].ids, sync'[c].seq, sequence', Must', May')
      BY DEF ReplyPromised
    <2>1. i = Len(link[c]) + 1 /\ ok /\ sync'[c] = sync[c]
      BY <1>5, <1>12, <1>15 DEF IsResponse, Answered
    <2>2. sync[c].seq = sequence
      BY <1>1, <1>13, <2>1
    <2>3. sync[c].ids = Ids(sync[c].of) /\ OfBoard(sync[c].of, sync[c].seq)
      BY <1>3, <1>13, <2>1 DEF ClientInv, Collecting
    <2>4. Must \subseteq sync[c].ids /\ sync[c].ids \subseteq May
      BY <2>2, <2>3 DEF OfBoard, Must, Ids
    <2>5. link'[c] \in Seq(Frame) /\ i = Len(link'[c])
      BY <1>7, <1>15, <2>1
    <2>6. Current(link'[c], Len(link'[c]), sync[c].ids, sequence, sequence, Must, May)
      BY <1>3, <2>4, <2>5, CurrentNow
    <2> QED
      BY <1>10, <2>1, <2>2, <2>5, <2>6
  <1>21. ClientInv(c)'
    BY <1>14, <1>17, <1>18, <1>19, <1>20 DEF ClientInv
  <1> QED
    BY <1>8, <1>9, <1>10, <1>11, <1>21, OwnStep

-----------------------------------------------------------------------------
(* The steps of one client *)

\* What a client step leaves alone is quiet.
LEMMA ClientQuiet ==
    ASSUME FeedInv, UNCHANGED <<messages, sequence, announced, ghosts, handler>>
    PROVE  /\ RelayQuiet /\ Must' = Must /\ May' = May /\ sequence' = sequence
           /\ NoRecordWithheld'
  <1>1. Pending' = Pending
    BY DEF Pending
  <1>2. RelayQuiet /\ Must' = Must /\ May' = May
    BY <1>1 DEF RelayQuiet, Must, May, Known
  <1> QED
    BY <1>2, QuietWithholdsNothing DEF FeedInv

\* A client with no request under way asks for the first page of the board.
LEMMA AttemptClient ==
    ASSUME FeedInv, NEW c \in Client, sync[c].phase \in {"none", "resume"},
           NEW kind \in {"join", "resync", "reload"}, NEW tries \in Nat,
           Attempt(c, kind, tries),
           kind = "join" <=> c \notin connected \/ Joining(c),
           connected' = connected \cup {c},
           UNCHANGED <<storeVars, sequence, subscribed, handler, maintained, announced,
                       ghosts, link, resync, dirty, view, viewSequence, excused>>
    PROVE  Kept
  <1>1. /\ FeedTypes /\ ClientInv(c)
        /\ sequence \in Nat /\ link[c] \in Seq(Frame) /\ viewSequence[c] \in Nat
        /\ sync[c] \in Sync /\ request[c] \in Request
        /\ subscribed \subseteq connected
    BY DEF FeedInv, FeedTypes
  <1>2. /\ sync' \in [Client -> Sync] /\ request' \in [Client -> Request]
        /\ sync'[c] = NewSync(kind, tries)
        /\ request'[c] = [op |-> "list", offset |-> 0, snapshot |-> 0]
        /\ \A d \in Client : d # c => sync'[d] = sync[d] /\ request'[d] = request[d]
    BY <1>1, AttemptTypes
  <1>3. /\ sync'[c].phase = "list" /\ sync'[c].kind = kind /\ sync'[c].seq = 0
        /\ sync'[c].offset = 0 /\ sync'[c].of = {} /\ sync'[c].ids = {}
        /\ sync'[c].exact = TRUE /\ sync'[c].ok = FALSE /\ sync'[c] # NoSync
        /\ request'[c].op = "list" /\ request'[c].offset = 0
    BY <1>2 DEF NewSync, NoSync
  <1>4. FeedTypes'
    BY <1>1, <1>2 DEF FeedTypes
  <1>5. \A d \in Client : d # c => OwnKept(d)
    BY <1>2 DEF OwnKept, OwnButLink
  <1>6. RelayQuiet /\ Must' = Must /\ May' = May /\ sequence' = sequence /\ NoRecordWithheld'
    BY ClientQuiet DEF storeVars
  <1>7. /\ request[c].op \notin {"list", "subscribe"} /\ handler[c].op # "list"
        /\ \A i \in 1..Len(link[c]) : ~IsResponse(link[c][i])
    BY <1>1 DEF ClientInv, Conversing
  <1>8. Joining(c)' <=> kind = "join"
    BY <1>3 DEF Joining
  <1>9. Bounded(c)'
    BY <1>1, <1>3 DEF ClientInv, Bounded
  <1>10. Conversing(c)'
    BY <1>3, <1>7 DEF Conversing
  <1>11. SubscriptionsKnown(c)'
    <2> SUFFICES ASSUME c \in connected' \ subscribed'
                 PROVE  /\ Joining(c)'
                        /\ \A i \in 1..Len(link'[c]) :
                              link'[c][i].type = "subscribed" => ~link'[c][i].ok
                        /\ sync'[c].phase = "resume" => ~sync'[c].ok
      BY DEF SubscriptionsKnown
    <2>1. c \notin subscribed /\ link' = link
      OBVIOUS
    <2>2. c \in connected => Joining(c)
      BY <1>1, <2>1 DEF ClientInv, SubscriptionsKnown
    <2>3. Joining(c)'
      BY <1>8, <2>2
    <2>4. \A i \in 1..Len(link[c]) : link[c][i].type # "subscribed"
      BY <1>7 DEF IsResponse
    <2> QED
      BY <1>3, <2>1, <2>3, <2>4
  <1>12. Collecting(c)'
    <2>1. Between({}, 0, 0) = {}
      BY DEF Between, Ids
    <2> QED
      BY <1>3, <2>1 DEF Collecting
  <1>13. PagesFit(c)'
    BY <1>7 DEF PagesFit, IsResponse
  <1>14. ViewPromised(c)'
    BY <1>1, <1>6, <1>8 DEF ClientInv, ViewPromised
  <1>15. ReplyPromised(c)' /\ InstallPromised(c)'
    BY <1>3, <1>7 DEF ReplyPromised, InstallPromised, IsResponse
  <1>16. ClientInv(c)'
    BY <1>9, <1>10, <1>11, <1>12, <1>13, <1>14, <1>15 DEF ClientInv
  <1> QED
    BY <1>4, <1>5, <1>6, <1>16, OwnStep

\* A new client asks for its first snapshot.
LEMMA ConnectStep ==
    ASSUME FeedInv, NEW c \in Client, Connect(c)
    PROVE  Kept
  <1>1. c \notin connected /\ sync[c] = NoSync
    BY DEF Connect, FeedInv, ClientInv, Bounded
  <1>2. sync[c].phase = "none" /\ 1 \in Nat
    BY <1>1 DEF NoSync
  <1> QED
    BY <1>1, <1>2, AttemptClient DEF Connect

\* The kind of a repeated attempt, and of one that starts.
LEMMA StartStep ==
    ASSUME FeedInv, NEW c \in Client, StartResync(c) \/ Reload(c) \/ Retry(c)
    PROVE  Kept
  <1>1. UNCHANGED <<storeVars, sequence, connected, subscribed, handler, maintained,
                    announced, ghosts, link, resync, dirty, view, viewSequence, excused>>
    BY DEF StartResync, Reload, Retry, relayUnchanged, relayVars
  <1>2. CASE sync[c] = NoSync /\ c \in resync \cup dirty
             /\ \E kind \in {"resync", "reload"} : Attempt(c, kind, 1)
    <2>1. c \in connected /\ connected' = connected \cup {c}
      BY <1>1, <1>2 DEF FeedInv, ClientInv, Bounded
    <2>2. ~Joining(c) /\ sync[c].phase = "none"
      BY <1>2 DEF Joining, NoSync
    <2>3. PICK kind \in {"resync", "reload"} : Attempt(c, kind, 1)
      BY <1>2
    <2>4. kind # "join" /\ kind \in {"join", "resync", "reload"} /\ 1 \in Nat
      BY <2>3
    <2> QED
      BY <1>1, <2>1, <2>2, <2>3, <2>4, AttemptClient
  <1>3. CASE Retry(c)
    <2>1. /\ sync[c].phase = "resume"
          /\ Attempt(c, sync[c].kind, sync[c].tries + 1)
      BY <1>3 DEF Retry, AttemptFailed
    <2>2. sync[c] \in Sync
      BY DEF FeedInv, FeedTypes
    <2>3. /\ sync[c] # NoSync /\ sync[c].kind \in {"join", "resync", "reload"}
          /\ sync[c].tries + 1 \in Nat
      BY <2>1, <2>2, SyncFields
    <2>4. c \in connected /\ connected' = connected \cup {c}
      BY <1>1, <2>3 DEF FeedInv, ClientInv, Bounded
    <2>5. sync[c].kind = "join" <=> Joining(c)
      BY <2>3 DEF Joining
    <2>6. PICK kind \in {"join", "resync", "reload"} : kind = sync[c].kind
      BY <2>3
    <2>7. PICK tries \in Nat : tries = sync[c].tries + 1
      BY <2>3
    <2>8. Attempt(c, kind, tries)
      BY <2>1, <2>6, <2>7
    <2> QED
      BY <1>1, <2>1, <2>4, <2>5, <2>6, <2>8, AttemptClient
  <1> QED
    BY <1>2, <1>3 DEF StartResync, Reload

-----------------------------------------------------------------------------
(* The steps that take a frame from the link *)

\* What is left when the client takes the first frame.
LEMMA ConsumedLink ==
    ASSUME FeedTypes, NEW c \in Client, link[c] # <<>>, Consume(c)
    PROVE  /\ link' \in [Client -> Seq(Frame)]
           /\ link[c] \in Seq(Frame) /\ link'[c] \in Seq(Frame)
           /\ link'[c] = Tail(link[c])
           /\ Len(link[c]) \in Nat /\ 1 \in 1..Len(link[c])
           /\ Len(link'[c]) = Len(link[c]) - 1
           /\ Head(link[c]) \in Frame /\ Head(link[c]) = link[c][1]
           /\ \A i \in 1..Len(link'[c]) :
                 i + 1 \in 1..Len(link[c]) /\ link'[c][i] = link[c][i + 1]
           /\ \A d \in Client : d # c => link'[d] = link[d]
  <1>1. link \in [Client -> Seq(Frame)] /\ link[c] \in Seq(Frame)
    BY DEF FeedTypes
  <1>2. /\ link' \in [Client -> Seq(Frame)] /\ link'[c] = Tail(link[c])
        /\ Head(link[c]) \in Frame
    BY <1>1, ConsumeTypes
  <1>3. PICK q \in Seq(Frame) : q = link[c]
    BY <1>1
  <1>4. /\ Tail(q) \in Seq(Frame) /\ Head(q) = q[1]
        /\ Len(q) \in Nat /\ Len(q) >= 1 /\ Len(Tail(q)) = Len(q) - 1
        /\ \A i \in 1..(Len(q) - 1) : Tail(q)[i] = q[i + 1]
    BY <1>3, TailElements
  <1>5. \A i \in 1..(Len(q) - 1) : i + 1 \in 1..Len(q)
    BY <1>4
  <1>6. \A d \in Client : d # c => link'[d] = link[d]
    BY <1>1 DEF Consume
  <1> QED
    BY <1>1, <1>2, <1>3, <1>4, <1>5, <1>6

\* A response is the only one, and nothing else is under way.
LEMMA ResponseIsAlone ==
    ASSUME FeedTypes, NEW c \in Client, ClientInv(c), link[c] # <<>>,
           IsResponse(Head(link[c])), Consume(c)
    PROVE  /\ request[c] = NoRequest /\ handler[c].op # "list"
           /\ sync[c].phase = IF Head(link[c]).type = "page" THEN "list" ELSE "subscribe"
           /\ sync[c] # NoSync /\ c \in connected
           /\ \A i \in 1..Len(link'[c]) : ~IsResponse(link'[c][i])
  <1>1. /\ Len(link[c]) \in Nat /\ 1 \in 1..Len(link[c]) /\ Head(link[c]) = link[c][1]
        /\ \A i \in 1..Len(link'[c]) :
              i \in Nat /\ i >= 1 /\ i + 1 \in 1..Len(link[c]) /\ link'[c][i] = link[c][i + 1]
    BY ConsumedLink
  <1>2. /\ request[c] = NoRequest
        /\ sync[c].phase = IF Head(link[c]).type = "page" THEN "list" ELSE "subscribe"
        /\ \A j \in 1..Len(link[c]) : IsResponse(link[c][j]) => j = 1
    BY <1>1 DEF ClientInv, Conversing
  <1>3. handler[c].op # "list"
    BY <1>2 DEF ClientInv, Conversing, NoRequest
  <1>4. sync[c] # NoSync
    BY <1>2 DEF NoSync
  <1>5. \A i \in 1..Len(link'[c]) : ~IsResponse(link'[c][i])
    <2> SUFFICES ASSUME NEW i \in 1..Len(link'[c]), IsResponse(link'[c][i])
                 PROVE  FALSE
      OBVIOUS
    <2>1. i \in Nat /\ i >= 1 /\ i + 1 \in 1..Len(link[c]) /\ IsResponse(link[c][i + 1])
      BY <1>1
    <2>2. i + 1 = 1
      BY <1>2, <2>1
    <2> QED
      BY <2>1, <2>2
  <1> QED
    BY <1>2, <1>3, <1>4, <1>5 DEF ClientInv, Bounded

\* A step of a client alone, whatever it takes and sends.
LEMMA ConsumerStep ==
    ASSUME FeedInv, NEW c \in Client, link[c] # <<>>, Consume(c), relayUnchanged,
           \A d \in Client : d # c => OwnButLink(d),
           sync' \in [Client -> Sync], request' \in [Client -> Request],
           view' \in [Client -> SUBSET MessageId], viewSequence' \in [Client -> Nat],
           resync' \subseteq Client, dirty' \subseteq Client, excused' = excused,
           ClientInv(c)'
    PROVE  Kept
  <1>1. FeedTypes
    BY DEF FeedInv
  <1>2. link' \in [Client -> Seq(Frame)] /\ \A d \in Client : d # c => link'[d] = link[d]
    BY <1>1, ConsumedLink
  <1>3. FeedTypes'
    BY <1>1, <1>2 DEF FeedTypes, relayUnchanged, relayVars
  <1>4. RelayQuiet /\ NoRecordWithheld'
    BY ClientQuiet DEF relayUnchanged, relayVars, storeVars
  <1>5. \A d \in Client : d # c => OwnKept(d)
    BY <1>2 DEF OwnKept, relayUnchanged, relayVars
  <1> QED
    BY <1>3, <1>4, <1>5, OwnStep

\* A step that takes the response of the synchronisation.
LEMMA ResponseStep ==
    ASSUME FeedInv, NEW c \in Client, link[c] # <<>>, IsResponse(Head(link[c])),
           Consume(c), relayUnchanged,
           UNCHANGED <<resync, dirty, view, viewSequence, excused>>,
           \A d \in Client : d # c => sync'[d] = sync[d] /\ request'[d] = request[d],
           sync' \in [Client -> Sync], request' \in [Client -> Request],
           sync'[c] # NoSync, sync'[c].kind = sync[c].kind, sync'[c].seq <= sequence,
           \/ request'[c] = NoRequest
           \/ /\ request'[c].op = "list" /\ sync'[c].phase = "list"
              /\ request'[c].offset = sync'[c].offset
              /\ request'[c].snapshot = sync'[c].seq
           \/ /\ request'[c].op = "subscribe" /\ sync'[c].phase = "subscribe"
              /\ request'[c].after = sync'[c].seq,
           c \notin subscribed /\ sync'[c].phase = "resume" => ~sync'[c].ok,
           Collecting(c)', InstallPromised(c)'
    PROVE  Kept
  <1>1. FeedTypes /\ ClientInv(c) /\ sequence \in Nat
    BY DEF FeedInv, FeedTypes
  <1>2. /\ request[c] = NoRequest /\ handler[c].op # "list"
        /\ sync[c] # NoSync /\ c \in connected
        /\ \A i \in 1..Len(link'[c]) : ~IsResponse(link'[c][i])
    BY <1>1, ResponseIsAlone
  <1>3. /\ link[c] \in Seq(Frame) /\ link'[c] = Tail(link[c])
        /\ \A i \in 1..Len(link'[c]) :
              i + 1 \in 1..Len(link[c]) /\ link'[c][i] = link[c][i + 1]
    BY <1>1, ConsumedLink
  <1>4. /\ sequence' = sequence /\ handler' = handler
        /\ connected' = connected /\ subscribed' = subscribed
    BY DEF relayUnchanged, relayVars
  <1>5. Must' = Must /\ May' = May
    BY ClientQuiet DEF relayUnchanged, relayVars, storeVars
  <1>6. \A d \in Client : d # c => OwnButLink(d)
    BY <1>4 DEF OwnButLink
  <1>7. Joining(c)' <=> Joining(c)
    BY <1>2 DEF Joining
  <1>8. Bounded(c)'
    BY <1>1, <1>2, <1>3, <1>4 DEF ClientInv, Bounded
  <1>9. Conversing(c)'
    <2>1. NoRequest.op = "none"
      BY DEF NoRequest
    <2> QED
      BY <1>2, <1>4, <2>1 DEF Conversing
  <1>10. SubscriptionsKnown(c)'
    BY <1>1, <1>2, <1>4, <1>7 DEF ClientInv, SubscriptionsKnown, IsResponse
  <1>11. PagesFit(c)' /\ ReplyPromised(c)'
    BY <1>2 DEF PagesFit, ReplyPromised, IsResponse
  <1>12. ViewPromised(c)'
    <2> SUFFICES ASSUME c \in subscribed', ~Joining(c)', c \notin resync', excused'[c] = {}
                 PROVE  Current(link'[c], 0, view'[c], viewSequence'[c], sequence', Must', May')
      BY DEF ViewPromised
    <2>1. Current(link[c], 0, view[c], viewSequence[c], sequence, Must, May)
      BY <1>1, <1>4, <1>7 DEF ClientInv, ViewPromised
    <2>2. viewSequence[c] \in Nat /\ ~IsEvent(Head(link[c]))
      BY <1>1 DEF FeedTypes, IsResponse, IsEvent
    <2>3. Current(Tail(link[c]), 0, view[c], viewSequence[c], sequence, Must, May)
      BY <1>1, <1>3, <2>1, <2>2, TailCurrent
    <2> QED
      BY <1>3, <1>4, <1>5, <2>3
  <1>13. ClientInv(c)'
    BY <1>8, <1>9, <1>10, <1>11, <1>12 DEF ClientInv
  <1>14. /\ view' \in [Client -> SUBSET MessageId] /\ viewSequence' \in [Client -> Nat]
         /\ resync' \subseteq Client /\ dirty' \subseteq Client
    BY <1>1 DEF FeedTypes
  <1> QED
    BY <1>6, <1>13, <1>14, ConsumerStep

\* A page of another sequence, or a restart, fails the attempt.
LEMMA StalePageStep ==
    ASSUME FeedInv, NEW c \in Client, StalePage(c)
    PROVE  Kept
  <1>1. FeedTypes /\ ClientInv(c) /\ sync \in [Client -> Sync] /\ sync[c] \in Sync
    BY DEF FeedInv, FeedTypes
  <1>2. /\ link[c] # <<>> /\ IsResponse(Head(link[c])) /\ Consume(c) /\ relayUnchanged
        /\ UNCHANGED <<request, resync, dirty, view, viewSequence, excused>>
        /\ sync' = [sync EXCEPT ![c].phase = "resume", ![c].ok = FALSE]
    BY DEF StalePage, Received, IsResponse
  <1>3. request[c] = NoRequest /\ sync[c] # NoSync
    BY <1>1, <1>2, ResponseIsAlone
  <1>4. sync[c] \in SyncRecord
    BY <1>1, <1>3, SyncFields
  <1> DEFINE r == [sync[c] EXCEPT !.phase = "resume", !.ok = FALSE]
  <1>5. sync'[c] = r /\ sync' = [sync EXCEPT ![c] = r]
    BY <1>1, <1>2
  <1>6. /\ r \in SyncRecord /\ r.phase = "resume" /\ r.ok = FALSE /\ r.kind = sync[c].kind
        /\ r.seq = sync[c].seq
    BY <1>4 DEF SyncRecord
  <1> HIDE DEF r
  <1>7. r # NoSync /\ r \in Sync
    BY <1>6 DEF NoSync, Sync
  <1>8. /\ sync' \in [Client -> Sync]
        /\ \A d \in Client : d # c => sync'[d] = sync[d]
    BY <1>1, <1>5, <1>7
  <1>9. request' \in [Client -> Request] /\ request'[c] = NoRequest
        /\ \A d \in Client : d # c => request'[d] = request[d]
    BY <1>1, <1>2, <1>3 DEF FeedTypes
  <1>10. sync'[c].seq <= sequence
    BY <1>1, <1>3, <1>5, <1>6 DEF ClientInv, Bounded
  <1>11. Collecting(c)' /\ InstallPromised(c)'
    BY <1>5, <1>6 DEF Collecting, InstallPromised
  <1> QED
    BY <1>2, <1>5, <1>6, <1>7, <1>8, <1>9, <1>10, <1>11, ResponseStep

\* The answer to the subscription: what was promised with the response is
\* promised to the requester.
LEMMA SubscribedStep ==
    ASSUME FeedInv, NEW c \in Client, Subscribed(c)
    PROVE  Kept
  <1>1. /\ FeedTypes /\ ClientInv(c) /\ sync \in [Client -> Sync] /\ sync[c] \in Sync
        /\ sequence \in Nat
    BY DEF FeedInv, FeedTypes
  <1>a. PICK f : f = Head(link[c])
    OBVIOUS
  <1>2. /\ link[c] # <<>> /\ f.type = "subscribed" /\ Consume(c) /\ relayUnchanged
        /\ UNCHANGED <<request, resync, dirty, view, viewSequence, excused>>
        /\ sync' = [sync EXCEPT ![c].phase = "resume",
                                ![c].ok = f.ok /\ f.seq = sync[c].seq]
    BY <1>a DEF Subscribed, Received
  <1>b. IsResponse(Head(link[c]))
    BY <1>a, <1>2 DEF IsResponse
  <1>3. request[c] = NoRequest /\ sync[c] # NoSync /\ c \in connected
    BY <1>1, <1>2, <1>b, ResponseIsAlone
  <1>c. /\ link[c] \in Seq(Frame) /\ link'[c] = Tail(link[c])
        /\ 1 \in 1..Len(link[c]) /\ f \in Frame /\ f = link[c][1]
    BY <1>1, <1>2, <1>a, ConsumedLink
  <1>4. sync[c] \in SyncRecord
    BY <1>1, <1>3, SyncFields
  <1>d. PICK ok \in BOOLEAN : ok = (f.ok /\ f.seq = sync[c].seq)
    OBVIOUS
  <1> DEFINE r == [sync[c] EXCEPT !.phase = "resume", !.ok = ok]
  <1>5. sync'[c] = r /\ sync' = [sync EXCEPT ![c] = r]
    BY <1>1, <1>2, <1>d
  <1>6. /\ r \in SyncRecord /\ r.phase = "resume" /\ r.ok = ok /\ r.kind = sync[c].kind
        /\ r.seq = sync[c].seq /\ r.ids = sync[c].ids /\ r.exact = sync[c].exact
    BY <1>4 DEF SyncRecord
  <1> HIDE DEF r
  <1>7. r # NoSync /\ r \in Sync
    BY <1>6 DEF NoSync, Sync
  <1>8. /\ sync' \in [Client -> Sync]
        /\ \A d \in Client : d # c => sync'[d] = sync[d]
    BY <1>1, <1>5, <1>7
  <1>9. request' \in [Client -> Request] /\ request'[c] = NoRequest
        /\ \A d \in Client : d # c => request'[d] = request[d]
    BY <1>1, <1>2, <1>3 DEF FeedTypes
  <1>10. sync'[c].seq <= sequence
    BY <1>1, <1>3, <1>5, <1>6 DEF ClientInv, Bounded
  <1>11. Collecting(c)'
    BY <1>5, <1>6 DEF Collecting
  <1>12. c \notin subscribed => ~ok
    BY <1>1, <1>2, <1>3, <1>c, <1>d DEF ClientInv, SubscriptionsKnown
  <1>13. InstallPromised(c)'
    <2> SUFFICES ASSUME c \in subscribed', sync'[c].ok, sync'[c].exact
                 PROVE  Current(link'[c], 0, sync'[c].ids, sync'[c].seq, sequence', Must', May')
      BY DEF InstallPromised
    <2>1. c \in subscribed /\ sequence' = sequence
      BY <1>2 DEF relayUnchanged, relayVars
    <2>2. f.ok /\ sync[c].exact
      BY <1>5, <1>6, <1>d
    <2>3. Current(link[c], 1, sync[c].ids, sync[c].seq, sequence, Must, May)
      BY <1>1, <1>2, <1>c, <2>1, <2>2 DEF ClientInv, ReplyPromised
    <2>4. sync[c].seq \in Nat
      BY <1>1, <1>3, SyncFields
    <2>5. Current(Tail(link[c]), 1 - 1, sync[c].ids, sync[c].seq, sequence, Must, May)
      BY <1>1, <1>2, <1>c, <2>3, <2>4, TailCurrentLater
    <2>6. Must' = Must /\ May' = May
      BY <1>2, ClientQuiet DEF relayUnchanged, relayVars, storeVars
    <2>7. 1 - 1 = 0
      OBVIOUS
    <2> QED
      BY <1>5, <1>6, <1>c, <2>1, <2>5, <2>6, <2>7
  <1> QED
    BY <1>2, <1>b, <1>5, <1>6, <1>7, <1>8, <1>9, <1>10, <1>11, <1>12, <1>13, ResponseStep
-----------------------------------------------------------------------------
(* Pages *)

\* The rank of a record is its position in the order of the list.
LEMMA RankOf ==
    ASSUME NEW of \in SUBSET Record, IsFiniteSet(of), NEW r \in of
    PROVE  Rank(r, of) \in Nat /\ Rank(r, of) < Cardinality(of)
  <1> DEFINE S == {n \in of : Older(n, r)}
  <1>1. r.created \in Nat /\ r.id \in Nat
    BY StoreAssumption DEF Record
  <1>2. r \notin S /\ S \subseteq of
    BY <1>1 DEF Older
  <1>3. IsFiniteSet(S) /\ Cardinality(S) <= Cardinality(of)
        /\ (Cardinality(S) = Cardinality(of) => S = of)
    BY <1>2, FS_Subset
  <1>4. Cardinality(S) \in Nat /\ Cardinality(of) \in Nat
    BY <1>3, FS_CardinalityType
  <1>5. Rank(r, of) = Cardinality(S)
    BY DEF Rank
  <1> HIDE DEF S
  <1> QED
    BY <1>2, <1>3, <1>4, <1>5

\* Two parts that meet are one part; the part up to the size is everything.
LEMMA BetweenParts ==
    ASSUME NEW of \in SUBSET Record, IsFiniteSet(of), NEW m \in Nat, NEW n \in Nat, m <= n
    PROVE  /\ Between(of, 0, m) \cup Between(of, m, n) = Between(of, 0, n)
           /\ n = Cardinality(of) => Between(of, 0, n) = Ids(of)
  <1>1. \A r \in of : Rank(r, of) \in Nat /\ Rank(r, of) < Cardinality(of)
    BY RankOf
  <1>2. Cardinality(of) \in Nat
    BY FS_CardinalityType
  <1>3. ASSUME NEW r \in of
        PROVE  /\ Rank(r, of) \in 0..(n - 1) <=>
                     Rank(r, of) \in 0..(m - 1) \/ Rank(r, of) \in m..(n - 1)
               /\ n = Cardinality(of) => Rank(r, of) \in 0..(n - 1)
    <2>1. PICK k \in Nat : k = Rank(r, of) /\ k < Cardinality(of)
      BY <1>1, <1>3
    <2>2. k \in 0..(n - 1) <=> (k \in 0..(m - 1) \/ k \in m..(n - 1))
      BY <2>1
    <2>3. n = Cardinality(of) => k \in 0..(n - 1)
      BY <1>2, <2>1
    <2> QED
      BY <2>1, <2>2, <2>3
  <1> QED
    BY <1>3 DEF Between, Ids

\* The first part of a board is empty.
LEMMA BetweenNothing == \A of : Between(of, 0, 0) = {}
  <1>1. 0..(0 - 1) = {}
    OBVIOUS
  <1> QED
    BY <1>1 DEF Between, Ids

\* With a page that fits, what was collected is again the first part of a board.
LEMMA PageCollects ==
    ASSUME FeedTypes, NEW c \in Client, ClientInv(c), sync[c].phase = "list",
           sync[c] \in SyncRecord,
           NEW f \in Frame, f.type = "page", f.exact, sync[c].exact, IsOfSameBoard(c, f),
           IsFiniteSet(f.of), f.ids = Between(f.of, sync[c].offset, f.next),
           sync[c].offset <= f.next
    PROVE  /\ sync[c].ids \cup f.ids = Between(f.of, 0, f.next)
           /\ f.next = Cardinality(f.of) => sync[c].ids \cup f.ids = Ids(f.of)
  <1>1. f.of \in SUBSET Record /\ f.next \in Nat /\ sync[c].offset \in Nat
    BY FrameFields DEF SyncRecord
  <1>2. sync[c].ids = Between(sync[c].of, 0, sync[c].offset)
    BY DEF ClientInv, Collecting
  <1>3. sync[c].ids = Between(f.of, 0, sync[c].offset)
    BY <1>2, BetweenNothing DEF IsOfSameBoard
  <1> QED
    BY <1>1, <1>3, BetweenParts

\* A page is added to the snapshot, and the next request is sent.
LEMMA PageStep ==
    ASSUME FeedInv, NEW c \in Client, Page(c)
    PROVE  Kept
  <1>1. /\ FeedTypes /\ ClientInv(c) /\ sync \in [Client -> Sync] /\ sync[c] \in Sync
        /\ sequence \in Nat /\ request \in [Client -> Request]
    BY DEF FeedInv, FeedTypes
  <1>a. PICK f : f = Head(link[c])
    OBVIOUS
  <1>b. PICK exact : exact = (sync[c].exact /\ f.exact /\ IsOfSameBoard(c, f))
    OBVIOUS
  <1>c. PICK phase : phase = IF f.done THEN "subscribe" ELSE "list"
    OBVIOUS
  <1>d. PICK next : next = IF f.done THEN [op |-> "subscribe", after |-> f.seq]
                           ELSE [op |-> "list", offset |-> f.next, snapshot |-> f.seq]
    OBVIOUS
  <1>e. PICK ids : ids = sync[c].ids \cup f.ids
    OBVIOUS
  <1>2. /\ link[c] # <<>> /\ f.type = "page" /\ ~PageIsStale(c, f)
        /\ Consume(c) /\ relayUnchanged
        /\ UNCHANGED <<resync, dirty, view, viewSequence, excused>>
        /\ sync' = [sync EXCEPT ![c].seq = f.seq, ![c].offset = f.next,
                                ![c].ids = ids, ![c].of = f.of,
                                ![c].exact = exact, ![c].phase = phase]
        /\ request' = [request EXCEPT ![c] = next]
    BY <1>a, <1>b, <1>c, <1>d, <1>e DEF Page, Received
  <1>3. IsResponse(Head(link[c]))
    BY <1>a, <1>2 DEF IsResponse
  <1>4. sync[c] # NoSync /\ sync[c].phase = "list"
    BY <1>1, <1>2, <1>3, <1>a, ResponseIsAlone
  <1>5. sync[c] \in SyncRecord
    BY <1>1, <1>4, SyncFields
  <1>6. f \in Frame /\ 1 \in 1..Len(link[c]) /\ f = link[c][1]
    BY <1>1, <1>2, <1>a, ConsumedLink
  <1>7. /\ f.seq \in Nat /\ f.next \in Nat /\ f.done \in BOOLEAN /\ f.exact \in BOOLEAN
        /\ f.of \subseteq Record /\ f.ids \subseteq MessageId
    BY <1>2, <1>6, FrameFields
  <1>8. /\ IsFiniteSet(f.of)
        /\ f.ids = Between(f.of, sync[c].offset, f.next)
        /\ sync[c].offset <= f.next
        /\ f.done <=> f.next = Cardinality(f.of)
        /\ f.exact => OfBoard(f.of, f.seq)
    <2>1. ~f.restart
      BY <1>2 DEF PageIsStale
    <2> QED
      BY <1>1, <1>2, <1>6, <2>1 DEF ClientInv, PagesFit
  <1>9. f.seq <= sequence
    BY <1>1, <1>6 DEF ClientInv, Bounded
  <1>10. exact \in BOOLEAN /\ ids \subseteq MessageId /\ phase \in {"list", "subscribe"}
    <2>1. exact \in BOOLEAN
      BY <1>b
    <2> QED
      BY <1>c, <1>e, <1>5, <1>7, <2>1 DEF SyncRecord
  <1> DEFINE r == [sync[c] EXCEPT !.seq = f.seq, !.offset = f.next, !.ids = ids,
                                  !.of = f.of, !.exact = exact, !.phase = phase]
  <1>11. sync'[c] = r /\ sync' = [sync EXCEPT ![c] = r]
    BY <1>1, <1>2
  <1>12. r \in SyncRecord
    BY <1>5, <1>7, <1>10 DEF SyncRecord
  <1>13. /\ r.phase = phase /\ r.kind = sync[c].kind /\ r.seq = f.seq /\ r.offset = f.next
         /\ r.ids = ids /\ r.of = f.of /\ r.exact = exact
    BY <1>5 DEF SyncRecord
  <1> HIDE DEF r
  <1>14. r \in Sync /\ r # NoSync /\ r.phase # "resume"
    BY <1>10, <1>12, <1>13 DEF Sync, NoSync
  <1>15. /\ sync' \in [Client -> Sync] /\ sync'[c] # NoSync
         /\ \A d \in Client : d # c => sync'[d] = sync[d]
    BY <1>1, <1>11, <1>14
  <1>16. next \in Request
    BY <1>7, <1>d DEF Request
  <1>17. /\ request' \in [Client -> Request] /\ request'[c] = next
         /\ \A d \in Client : d # c => request'[d] = request[d]
    BY <1>1, <1>2, <1>16
  <1>18. \/ /\ next.op = "list" /\ phase = "list"
            /\ next.offset = f.next /\ next.snapshot = f.seq
         \/ next.op = "subscribe" /\ phase = "subscribe" /\ next.after = f.seq
    BY <1>c, <1>d
  <1>19. Collecting(c)'
    <2> SUFFICES ASSUME exact
                 PROVE  /\ phase = "list" => ids = Between(f.of, 0, f.next)
                        /\ phase = "subscribe" => ids = Ids(f.of)
                        /\ OfBoard(f.of, f.seq)'
      BY <1>11, <1>13 DEF Collecting
    <2>1. sync[c].exact /\ f.exact /\ IsOfSameBoard(c, f)
      BY <1>b
    <2>2. /\ ids = Between(f.of, 0, f.next)
          /\ f.next = Cardinality(f.of) => ids = Ids(f.of)
      BY <1>1, <1>2, <1>4, <1>5, <1>6, <1>8, <1>e, <2>1, PageCollects
    <2>3. phase = "subscribe" => f.next = Cardinality(f.of)
      BY <1>8, <1>c
    <2>4. OfBoard(f.of, f.seq)'
      <3>1. RelayQuiet
        BY <1>2, ClientQuiet DEF relayUnchanged, relayVars, storeVars
      <3>2. OfBoard(f.of, f.seq)
        BY <1>8, <2>1
      <3> QED
        BY <1>1, <1>7, <1>9, <3>1, <3>2, KeptOfBoard
    <2> QED
      BY <2>2, <2>3, <2>4
  <1>20. InstallPromised(c)'
    BY <1>11, <1>14 DEF InstallPromised
  <1>21. \/ /\ request'[c].op = "list" /\ sync'[c].phase = "list"
            /\ request'[c].offset = sync'[c].offset
            /\ request'[c].snapshot = sync'[c].seq
         \/ /\ request'[c].op = "subscribe" /\ sync'[c].phase = "subscribe"
            /\ request'[c].after = sync'[c].seq
    BY <1>11, <1>13, <1>17, <1>18
  <1>22. /\ sync'[c].kind = sync[c].kind /\ sync'[c].seq <= sequence
         /\ sync'[c].phase # "resume"
    BY <1>9, <1>11, <1>13, <1>14
  <1> QED
    BY <1>2, <1>3, <1>15, <1>17, <1>19, <1>20, <1>21, <1>22, ResponseStep
-----------------------------------------------------------------------------
(* Events, and the end of a synchronisation *)

\* The view after the next event, and the frames that remain, promise the same.
LEMMA EventIsApplied ==
    ASSUME FeedTypes, NEW c \in Client, link[c] # <<>>, NEW f, f = Head(link[c]),
           IsEvent(f), Continues(c, f), ViewPromised(c), c \in subscribed,
           ~Joining(c), c \notin resync, excused[c] = {}
    PROVE  Current(Tail(link[c]), 0, Apply(f, view[c]), f.seq, sequence, Must, May)
  <1>1. link[c] \in Seq(Frame) /\ viewSequence[c] \in Nat /\ sequence \in Nat
    BY DEF FeedTypes
  <1>2. Current(link[c], 0, view[c], viewSequence[c], sequence, Must, May)
    BY DEF ViewPromised
  <1>3. f.seq = viewSequence[c] + 1
    BY DEF Continues
  <1> QED
    BY <1>1, <1>2, <1>3, TailCurrent

\* Taking an event changes neither the requests nor what a subscription
\* promises; a reader that runs ahead of the requester marks the snapshot.
LEMMA EventClient ==
    ASSUME FeedInv, NEW c \in Client, Event(c)
    PROVE  Conversing(c)' /\ SubscriptionsKnown(c)' /\ Collecting(c)' /\ PagesFit(c)'
           /\ ReplyPromised(c)' /\ InstallPromised(c)'
  <1>1. FeedTypes /\ ClientInv(c) /\ sync[c] \in Sync
    BY DEF FeedInv, FeedTypes
  <1>2. /\ link[c] # <<>> /\ IsEvent(Head(link[c])) /\ Consume(c) /\ relayUnchanged
        /\ request' = request
        /\ sync' = IF sync[c].phase = "resume"
                   THEN [sync EXCEPT ![c].skipped = TRUE] ELSE sync
    BY DEF Event, Received, IsEvent
  <1>3. /\ link[c] \in Seq(Frame) /\ link'[c] = Tail(link[c])
        /\ Len(link[c]) \in Nat /\ Len(link'[c]) = Len(link[c]) - 1
        /\ 1 \in 1..Len(link[c]) /\ Head(link[c]) = link[c][1]
        /\ \A i \in 1..Len(link'[c]) :
              i + 1 \in 1..Len(link[c]) /\ link'[c][i] = link[c][i + 1]
    BY <1>1, <1>2, ConsumedLink
  <1>4. /\ sequence' = sequence /\ handler' = handler
        /\ connected' = connected /\ subscribed' = subscribed
    BY <1>2 DEF relayUnchanged, relayVars
  <1>5. Must' = Must /\ May' = May /\ RelayQuiet
    BY <1>2, ClientQuiet DEF relayUnchanged, relayVars, storeVars
  <1>6. /\ sync'[c].phase = sync[c].phase
        /\ sync[c].phase = "resume" => sync'[c].skipped = TRUE
        /\ sync[c].phase # "resume" => sync'[c] = sync[c]
        /\ sync[c] # NoSync =>
              /\ sync'[c] # NoSync
              /\ sync'[c].kind = sync[c].kind
              /\ sync'[c].seq = sync[c].seq
              /\ sync'[c].offset = sync[c].offset
              /\ sync'[c].of = sync[c].of
              /\ sync'[c].ids = sync[c].ids
              /\ sync'[c].exact = sync[c].exact
              /\ sync'[c].ok = sync[c].ok
    <2>1. CASE sync[c].phase = "resume"
      <3>1. sync[c] \in SyncRecord
        BY <1>1, <2>1, SyncFields DEF NoSync
      <3>2. sync'[c] = [sync[c] EXCEPT !.skipped = TRUE]
        BY <1>1, <1>2, <2>1 DEF FeedTypes
      <3> QED
        BY <2>1, <3>1, <3>2 DEF SyncRecord, NoSync
    <2>2. CASE sync[c].phase # "resume"
      BY <1>2, <2>2
    <2> QED
      BY <2>1, <2>2
  <1>7. Conversing(c)'
    <2>1. /\ handler'[c].op = "list" =>
               request'[c].op = "list" /\ IsFiniteSet(handler'[c].records)
          /\ request'[c].op = "list" =>
               /\ sync'[c].phase = "list"
               /\ request'[c].offset = sync'[c].offset
               /\ sync'[c].offset > 0 => request'[c].snapshot = sync'[c].seq
          /\ request'[c].op = "subscribe" =>
               sync'[c].phase = "subscribe" /\ request'[c].after = sync'[c].seq
      BY <1>1, <1>2, <1>4, <1>6 DEF ClientInv, Conversing
    <2>2. ASSUME NEW i \in 1..Len(link'[c]), IsResponse(link'[c][i])
          PROVE  /\ request'[c] = NoRequest
                 /\ sync'[c].phase = IF link'[c][i].type = "page" THEN "list" ELSE "subscribe"
                 /\ \A j \in 1..Len(link'[c]) : IsResponse(link'[c][j]) => j = i
      <3>1. /\ i + 1 \in 1..Len(link[c]) /\ IsResponse(link[c][i + 1])
            /\ link'[c][i] = link[c][i + 1]
        BY <1>3, <2>2
      <3>2. /\ request[c] = NoRequest
            /\ sync[c].phase = IF link[c][i + 1].type = "page" THEN "list" ELSE "subscribe"
            /\ \A j \in 1..Len(link[c]) : IsResponse(link[c][j]) => j = i + 1
        BY <1>1, <3>1 DEF ClientInv, Conversing
      <3>3. ASSUME NEW j \in 1..Len(link'[c]), IsResponse(link'[c][j])
            PROVE  j = i
        <4>1. j + 1 = i + 1
          BY <1>3, <3>2, <3>3
        <4> QED
          BY <4>1
      <3> QED
        BY <1>2, <1>6, <3>1, <3>2, <3>3
    <2> QED
      BY <2>1, <2>2 DEF Conversing
  <1>8. SubscriptionsKnown(c)'
    <2> SUFFICES ASSUME c \in connected \ subscribed
                 PROVE  /\ Joining(c)'
                        /\ \A i \in 1..Len(link'[c]) :
                              link'[c][i].type = "subscribed" => ~link'[c][i].ok
                        /\ sync'[c].phase = "resume" => ~sync'[c].ok
      BY <1>4 DEF SubscriptionsKnown
    <2>1. /\ Joining(c)
          /\ \A i \in 1..Len(link[c]) : link[c][i].type = "subscribed" => ~link[c][i].ok
          /\ sync[c].phase = "resume" => ~sync[c].ok
      BY <1>1 DEF ClientInv, SubscriptionsKnown
    <2> QED
      BY <1>3, <1>6, <2>1 DEF Joining
  <1>9. Collecting(c)'
    <2>1. CASE sync[c].phase \in {"list", "subscribe"}
      <3>1. sync'[c] = sync[c] /\ sync[c] # NoSync
        BY <1>6, <2>1 DEF NoSync
      <3>2. sync[c].seq \in Nat /\ sync[c].seq <= sequence /\ sequence \in Nat
        BY <1>1, <3>1, SyncFields DEF ClientInv, Bounded, FeedTypes
      <3>3. PICK of, s : of = sync[c].of /\ s = sync[c].seq
        OBVIOUS
      <3>4. OfBoard(of, s) => OfBoard(of, s)'
        BY <1>5, <3>2, <3>3, KeptOfBoard
      <3>5. /\ sync[c].phase = "list" /\ sync[c].exact =>
                  sync[c].ids = Between(sync[c].of, 0, sync[c].offset)
            /\ sync[c].phase = "subscribe" /\ sync[c].exact => sync[c].ids = Ids(sync[c].of)
            /\ (\/ sync[c].phase = "list" /\ sync[c].exact /\ sync[c].offset > 0
                \/ sync[c].phase = "subscribe" /\ sync[c].exact)
               => OfBoard(of, s)
        BY <1>1, <3>3 DEF ClientInv, Collecting
      <3>6. of = sync'[c].of /\ s = sync'[c].seq
        BY <3>1, <3>3
      <3> QED
        BY <3>1, <3>4, <3>5, <3>6 DEF Collecting
    <2>2. CASE sync[c].phase \notin {"list", "subscribe"}
      BY <1>6, <2>2 DEF Collecting
    <2> QED
      BY <2>1, <2>2
  <1>10. PagesFit(c)'
    <2>1. ASSUME NEW i \in 1..Len(link'[c]), NEW f, f = link'[c][i],
                 f.type = "page", ~f.restart
          PROVE  /\ IsFiniteSet(f.of)
                 /\ f.ids = Between(f.of, sync'[c].offset, f.next)
                 /\ sync'[c].offset <= f.next
                 /\ f.done <=> f.next = Cardinality(f.of)
                 /\ f.exact => OfBoard(f.of, f.seq)'
      <3>1. i + 1 \in 1..Len(link[c]) /\ f = link[c][i + 1]
        BY <1>3, <2>1
      <3>2. sync[c].phase = "list" /\ sync[c] # NoSync
        BY <1>1, <2>1, <3>1 DEF ClientInv, Conversing, IsResponse, NoSync
      <3>3. /\ IsFiniteSet(f.of)
            /\ f.ids = Between(f.of, sync[c].offset, f.next)
            /\ sync[c].offset <= f.next
            /\ f.done <=> f.next = Cardinality(f.of)
            /\ f.exact => OfBoard(f.of, f.seq)
        BY <1>1, <2>1, <3>1 DEF ClientInv, PagesFit
      <3>4. f \in Frame /\ f.seq \in Nat /\ f.seq <= sequence /\ sequence \in Nat
        <4>1. f \in Frame
          BY <1>3, <3>1
        <4>2. f.seq \in Nat
          BY <4>1, FrameFields
        <4> QED
          BY <1>1, <3>1, <4>1, <4>2 DEF ClientInv, Bounded, FeedTypes
      <3>5. OfBoard(f.of, f.seq) => OfBoard(f.of, f.seq)'
        BY <1>5, <3>4, KeptOfBoard
      <3>6. sync'[c].offset = sync[c].offset
        BY <1>6, <3>2
      <3> QED
        BY <3>3, <3>5, <3>6
    <2> QED
      BY <2>1 DEF PagesFit
  <1>11. ReplyPromised(c)'
    <2> SUFFICES ASSUME c \in subscribed, NEW i \in 1..Len(link'[c]),
                        link'[c][i].type = "subscribed", link'[c][i].ok, sync'[c].exact
                 PROVE  Current(link'[c], i, sync'[c].ids, sync'[c].seq, sequence', Must', May')
      BY <1>4 DEF ReplyPromised
    <2>1. i \in Nat /\ i + 1 \in 1..Len(link[c]) /\ link'[c][i] = link[c][i + 1]
      BY <1>3
    <2>2. sync[c].phase = "subscribe" /\ sync'[c] = sync[c]
      BY <1>1, <1>6, <2>1 DEF ClientInv, Conversing, IsResponse
    <2>3. Current(link[c], i + 1, sync[c].ids, sync[c].seq, sequence, Must, May)
      BY <1>1, <2>1, <2>2 DEF ClientInv, ReplyPromised
    <2>4. sync[c].seq \in Nat /\ sequence \in Nat
      BY <1>1, <2>2, SyncFields DEF FeedTypes, NoSync
    <2>5. Current(Tail(link[c]), (i + 1) - 1, sync[c].ids, sync[c].seq, sequence, Must, May)
      BY <1>2, <1>3, <2>1, <2>3, <2>4, TailCurrentLater
    <2>6. (i + 1) - 1 = i
      BY <2>1
    <2> QED
      BY <1>3, <1>4, <1>5, <2>2, <2>5, <2>6
  <1>12. InstallPromised(c)'
    BY <1>6 DEF InstallPromised
  <1> QED
    BY <1>7, <1>8, <1>9, <1>10, <1>11, <1>12

\* The reader applies an event, or notices a gap and schedules a resync.
LEMMA EventStep ==
    ASSUME FeedInv, NEW c \in Client, Event(c)
    PROVE  Kept
  <1>1. /\ FeedTypes /\ ClientInv(c) /\ sync[c] \in Sync /\ sync \in [Client -> Sync]
        /\ sequence \in Nat /\ viewSequence[c] \in Nat
    BY DEF FeedInv, FeedTypes
  <1>a. PICK f : f = Head(link[c])
    OBVIOUS
  <1>2. /\ link[c] # <<>> /\ f.type \in {"update", "remove"} /\ Consume(c) /\ relayUnchanged
        /\ \/ /\ Continues(c, f)
              /\ viewSequence' = [viewSequence EXCEPT ![c] = f.seq]
              /\ view' = [view EXCEPT ![c] =
                            IF f.type = "update" THEN @ \cup f.ids ELSE @ \ f.ids]
              /\ dirty' = dirty \cup {c}
              /\ UNCHANGED resync
           \/ /\ resync' = resync \cup {c}
              /\ UNCHANGED <<dirty, view, viewSequence>>
        /\ sync' = IF sync[c].phase = "resume"
                   THEN [sync EXCEPT ![c].skipped = TRUE] ELSE sync
        /\ UNCHANGED <<request, excused>>
    BY <1>a DEF Event, Received
  <1>3. /\ f \in Frame /\ link[c] \in Seq(Frame) /\ link'[c] = Tail(link[c])
        /\ 1 \in 1..Len(link[c]) /\ f = link[c][1]
        /\ \A i \in 1..Len(link'[c]) :
              i + 1 \in 1..Len(link[c]) /\ link'[c][i] = link[c][i + 1]
    BY <1>1, <1>2, <1>a, ConsumedLink
  <1>4. f.seq \in Nat /\ f.ids \subseteq MessageId /\ f.seq <= sequence
    BY <1>1, <1>2, <1>3, FrameFields DEF ClientInv, Bounded
  <1>5. /\ sync' \in [Client -> Sync]
        /\ \A d \in Client : d # c => sync'[d] = sync[d]
        /\ sync'[c] # NoSync <=> sync[c] # NoSync
        /\ sync[c] # NoSync => sync'[c].seq = sync[c].seq /\ sync'[c].kind = sync[c].kind
    <2>1. CASE sync[c].phase = "resume"
      <3>1. sync[c] # NoSync /\ sync[c] \in SyncRecord
        BY <1>1, <2>1, SyncFields DEF NoSync
      <3> DEFINE r == [sync[c] EXCEPT !.skipped = TRUE]
      <3>2. sync' = [sync EXCEPT ![c] = r]
        BY <1>1, <1>2, <2>1
      <3>3. /\ r \in SyncRecord /\ r.phase = "resume" /\ r.seq = sync[c].seq
            /\ r.kind = sync[c].kind
        BY <2>1, <3>1 DEF SyncRecord
      <3> HIDE DEF r
      <3>4. r # NoSync /\ r \in Sync
        BY <3>3 DEF NoSync, Sync
      <3> QED
        BY <1>1, <3>1, <3>2, <3>3, <3>4
    <2>2. CASE sync[c].phase # "resume"
      BY <1>1, <1>2, <2>2
    <2> QED
      BY <2>1, <2>2
  <1>6. /\ view' \in [Client -> SUBSET MessageId] /\ viewSequence' \in [Client -> Nat]
        /\ resync' \subseteq Client /\ dirty' \subseteq Client /\ request' \in [Client -> Request]
        /\ viewSequence'[c] <= sequence
    <2>1. /\ view \in [Client -> SUBSET MessageId] /\ viewSequence \in [Client -> Nat]
          /\ resync \subseteq Client /\ dirty \subseteq Client /\ request \in [Client -> Request]
          /\ viewSequence[c] <= sequence
      BY <1>1 DEF FeedTypes, ClientInv, Bounded
    <2> QED
      BY <1>2, <1>4, <2>1
  <1>7. \A d \in Client : d # c => OwnButLink(d)
    BY <1>1, <1>2, <1>5 DEF OwnButLink, relayUnchanged, relayVars, FeedTypes
  <1>8. /\ sequence' = sequence /\ connected' = connected /\ subscribed' = subscribed
        /\ Must' = Must /\ May' = May
    BY <1>2, ClientQuiet DEF relayUnchanged, relayVars, storeVars
  <1>9. c \in connected
    BY <1>1, <1>2 DEF ClientInv, Bounded
  <1>10. Bounded(c)'
    <2>1. sync'[c] # NoSync => sync'[c].seq <= sequence'
      BY <1>1, <1>5, <1>8 DEF ClientInv, Bounded
    <2>2. \A i \in 1..Len(link'[c]) : link'[c][i].seq <= sequence'
      BY <1>1, <1>3, <1>8 DEF ClientInv, Bounded
    <2> QED
      BY <1>6, <1>8, <1>9, <2>1, <2>2 DEF Bounded
  <1>11. ViewPromised(c)'
    <2> SUFFICES ASSUME c \in subscribed', ~Joining(c)', c \notin resync', excused'[c] = {}
                 PROVE  Current(link'[c], 0, view'[c], viewSequence'[c], sequence', Must', May')
      BY DEF ViewPromised
    <2>1. c \in subscribed /\ excused[c] = {}
      BY <1>2, <1>8
    <2>2. ~Joining(c)
      BY <1>5 DEF Joining
    <2>3. /\ Continues(c, f) /\ c \notin resync
          /\ viewSequence'[c] = f.seq /\ view'[c] = Apply(f, view[c])
      BY <1>1, <1>2 DEF FeedTypes, Apply
    <2>4. IsEvent(f)
      BY <1>2 DEF IsEvent
    <2>5. Current(Tail(link[c]), 0, Apply(f, view[c]), f.seq, sequence, Must, May)
      BY <1>1, <1>2, <1>a, <2>1, <2>2, <2>3, <2>4, EventIsApplied DEF ClientInv
    <2> QED
      BY <1>3, <1>8, <2>3, <2>5
  <1>12. ClientInv(c)'
    BY <1>10, <1>11, EventClient DEF ClientInv
  <1> QED
    BY <1>2, <1>5, <1>6, <1>7, <1>12, ConsumerStep

\* The end of a synchronisation leaves nothing of it.
LEMMA FinishedClient ==
    ASSUME FeedTypes, NEW c \in Client, ClientInv(c), sync[c].phase = "resume",
           sync'[c] = NoSync, relayUnchanged, UNCHANGED <<request, link>>,
           viewSequence'[c] <= sequence,
           resync' \subseteq resync, dirty' \subseteq dirty,
           c \in subscribed
    PROVE  /\ Bounded(c)' /\ Conversing(c)' /\ SubscriptionsKnown(c)' /\ Collecting(c)'
           /\ PagesFit(c)' /\ ReplyPromised(c)' /\ InstallPromised(c)'
  <1>1. /\ sequence' = sequence /\ handler' = handler
        /\ connected' = connected /\ subscribed' = subscribed
    BY DEF relayUnchanged, relayVars
  <1>2. sync'[c].phase = "none"
    BY DEF NoSync
  <1>3. /\ request[c].op \notin {"list", "subscribe"} /\ handler[c].op # "list"
        /\ \A i \in 1..Len(link[c]) : ~IsResponse(link[c][i])
    BY DEF ClientInv, Conversing
  <1>4. Bounded(c)'
    BY <1>1 DEF ClientInv, Bounded
  <1>5. Conversing(c)'
    BY <1>1, <1>3 DEF Conversing
  <1>6. SubscriptionsKnown(c)'
    BY <1>1 DEF SubscriptionsKnown
  <1>7. Collecting(c)' /\ InstallPromised(c)'
    BY <1>2 DEF Collecting, InstallPromised
  <1>8. PagesFit(c)' /\ ReplyPromised(c)'
    BY <1>3 DEF PagesFit, ReplyPromised, IsResponse
  <1> QED
    BY <1>4, <1>5, <1>6, <1>7, <1>8

\* Only a joining client is connected and not subscribed, and its attempt failed.
LEMMA ResumingIsSubscribed ==
    ASSUME FeedTypes, NEW c \in Client, ClientInv(c), sync[c].phase = "resume",
           sync[c].ok \/ sync[c].kind # "join"
    PROVE  c \in subscribed /\ c \in connected
  <1>1. sync[c] # NoSync
    BY DEF NoSync
  <1>2. c \in connected
    BY <1>1 DEF ClientInv, Bounded
  <1> QED
    BY <1>2 DEF ClientInv, SubscriptionsKnown, Joining

\* The requester installs the snapshot: what was promised of it is promised of
\* the view.
LEMMA InstallStep ==
    ASSUME FeedInv, NEW c \in Client, Install(c)
    PROVE  Kept
  <1>1. /\ FeedTypes /\ ClientInv(c) /\ sync \in [Client -> Sync] /\ sync[c] \in Sync
        /\ link \in [Client -> Seq(Frame)] /\ sequence \in Nat
    BY DEF FeedInv, FeedTypes
  <1>2. /\ sync[c].phase = "resume" /\ sync[c].ok /\ relayUnchanged
        /\ view' = [view EXCEPT ![c] = sync[c].ids]
        /\ viewSequence' = [viewSequence EXCEPT ![c] = sync[c].seq]
        /\ excused' = [excused EXCEPT ![c] =
              (IF sync[c].exact THEN {} ELSE {"stale snapshot"})
              \cup (IF sync[c].skipped THEN {"skipped event"} ELSE {})]
        /\ resync' \subseteq resync /\ resync \subseteq resync' \cup {c}
        /\ dirty' \subseteq dirty /\ dirty \subseteq dirty' \cup {c}
        /\ sync' = [sync EXCEPT ![c] = NoSync]
        /\ UNCHANGED <<request, link>>
    BY DEF Install
  <1>3. sync[c] # NoSync /\ c \in subscribed
    <2>1. sync[c] # NoSync
      BY <1>1, <1>2, SyncFields
    <2>2. sync[c].ok \/ sync[c].kind # "join"
      BY <1>2
    <2> QED
      BY <1>1, <1>2, <2>1, <2>2, ResumingIsSubscribed
  <1>4. sync[c].ids \subseteq MessageId /\ sync[c].seq \in Nat /\ sync[c].seq <= sequence
    BY <1>1, <1>3, SyncFields DEF ClientInv, Bounded
  <1>5. FeedTypes'
    <2>1. NoSync \in Sync
      BY DEF Sync
    <2>2. excused' \in [Client -> SUBSET Excuse]
      BY <1>1, <1>2 DEF FeedTypes, Excuse
    <2>3. /\ sync' \in [Client -> Sync] /\ view' \in [Client -> SUBSET MessageId]
          /\ viewSequence' \in [Client -> Nat]
      BY <1>1, <1>2, <1>4, <2>1 DEF FeedTypes
    <2> QED
      BY <1>1, <1>2, <2>2, <2>3 DEF FeedTypes, relayUnchanged, relayVars
  <1>6. \A d \in Client : d # c => OwnKept(d)
    BY <1>1, <1>2 DEF OwnKept, OwnButLink, relayUnchanged, relayVars, FeedTypes
  <1>7. RelayQuiet /\ Must' = Must /\ May' = May /\ sequence' = sequence /\ NoRecordWithheld'
    BY <1>2, ClientQuiet DEF relayUnchanged, relayVars, storeVars
  <1>8. sync'[c] = NoSync /\ view'[c] = sync[c].ids /\ viewSequence'[c] = sync[c].seq
    BY <1>1, <1>2 DEF FeedTypes
  <1>9. ViewPromised(c)'
    <2> SUFFICES ASSUME excused'[c] = {}
                 PROVE  Current(link'[c], 0, view'[c], viewSequence'[c], sequence', Must', May')
      BY DEF ViewPromised
    <2>1. sync[c].exact /\ ~sync[c].skipped
      BY <1>1, <1>2 DEF FeedTypes
    <2>2. Current(link[c], 0, sync[c].ids, sync[c].seq, sequence, Must, May)
      BY <1>1, <1>2, <1>3, <2>1 DEF ClientInv, InstallPromised
    <2> QED
      BY <1>2, <1>7, <1>8, <2>2
  <1>10. ClientInv(c)'
    BY <1>1, <1>2, <1>3, <1>4, <1>8, <1>9, FinishedClient DEF ClientInv
  <1> QED
    BY <1>5, <1>6, <1>7, <1>10, OwnStep

\* A resync or reload ends after its last attempt.
LEMMA GiveUpStep ==
    ASSUME FeedInv, NEW c \in Client, GiveUp(c)
    PROVE  Kept
  <1>1. /\ FeedTypes /\ ClientInv(c) /\ sync \in [Client -> Sync] /\ sync[c] \in Sync
        /\ link \in [Client -> Seq(Frame)] /\ sequence \in Nat
    BY DEF FeedInv, FeedTypes
  <1>2. /\ sync[c].phase = "resume" /\ sync[c].kind # "join" /\ relayUnchanged
        /\ sync' = [sync EXCEPT ![c] = NoSync]
        /\ resync' \subseteq resync /\ resync \subseteq resync' \cup {c}
        /\ dirty' \subseteq dirty /\ dirty \subseteq dirty' \cup {c}
        /\ \/ /\ excused' = [excused EXCEPT ![c] = @ \cup {"gave up"}]
           \/ excused' = excused /\ resync' = resync
        /\ UNCHANGED <<request, link, view, viewSequence>>
    BY DEF GiveUp, AttemptFailed
  <1>3. sync[c] # NoSync /\ c \in subscribed
    <2>1. sync[c] # NoSync
      BY <1>1, <1>2, SyncFields
    <2>2. sync[c].ok \/ sync[c].kind # "join"
      BY <1>2
    <2> QED
      BY <1>1, <1>2, <2>1, <2>2, ResumingIsSubscribed
  <1>5. FeedTypes'
    <2>1. NoSync \in Sync
      BY DEF Sync
    <2>2. excused' \in [Client -> SUBSET Excuse]
      <3>1. excused \in [Client -> SUBSET Excuse]
        BY <1>1 DEF FeedTypes
      <3>2. excused[c] \cup {"gave up"} \in SUBSET Excuse
        BY <3>1 DEF Excuse
      <3>3. CASE excused' = [excused EXCEPT ![c] = excused[c] \cup {"gave up"}]
        BY <3>1, <3>2, <3>3
      <3>4. CASE excused' = excused
        BY <3>1, <3>4
      <3> QED
        BY <1>2, <3>3, <3>4
    <2> QED
      BY <1>1, <1>2, <2>1, <2>2 DEF FeedTypes, relayUnchanged, relayVars
  <1>6. \A d \in Client : d # c => OwnKept(d)
    BY <1>1, <1>2 DEF OwnKept, OwnButLink, relayUnchanged, relayVars, FeedTypes
  <1>7. RelayQuiet /\ Must' = Must /\ May' = May /\ sequence' = sequence /\ NoRecordWithheld'
    BY <1>2, ClientQuiet DEF relayUnchanged, relayVars, storeVars
  <1>8. sync'[c] = NoSync
    BY <1>1, <1>2
  <1>9. ViewPromised(c)'
    <2> SUFFICES ASSUME c \notin resync', excused'[c] = {}
                 PROVE  Current(link'[c], 0, view'[c], viewSequence'[c], sequence', Must', May')
      BY DEF ViewPromised
    <2>1. excused'[c] = excused[c] /\ resync' = resync
      <3>1. excused \in [Client -> SUBSET Excuse]
        BY <1>1 DEF FeedTypes
      <3> QED
        BY <1>2, <3>1
    <2>2. ~Joining(c)
      BY <1>2 DEF Joining
    <2>3. Current(link[c], 0, view[c], viewSequence[c], sequence, Must, May)
      BY <1>1, <1>3, <2>1, <2>2 DEF ClientInv, ViewPromised
    <2> QED
      BY <1>2, <1>7, <2>3
  <1>10. viewSequence'[c] <= sequence
    BY <1>1, <1>2 DEF ClientInv, Bounded
  <1>11. ClientInv(c)'
    BY <1>1, <1>2, <1>3, <1>8, <1>9, <1>10, FinishedClient DEF ClientInv
  <1> QED
    BY <1>5, <1>6, <1>7, <1>11, OwnStep
-----------------------------------------------------------------------------
(* The invariant *)

\* Nobody is connected when the relay opens its board.
LEMMA InitFeedInv == FeedInit => FeedInv
  <1> SUFFICES ASSUME FeedInit PROVE FeedInv
    OBVIOUS
  <1>1. RowsInv /\ WithinCapacity
    BY InitRows
  <1>2. Ids(messages) \subseteq MessageId
    BY <1>1 DEF RowsInv, TypeOK, Record, Ids
  <1>3. /\ sequence = 0 /\ connected = {} /\ subscribed = {} /\ announced = Ids(messages)
        /\ ghosts = {} /\ maintained = TRUE
        /\ handler = [c \in Client |-> Idle]
        /\ request = [c \in Client |-> NoRequest]
        /\ link = [c \in Client |-> <<>>]
        /\ sync = [c \in Client |-> NoSync]
        /\ resync = {} /\ dirty = {}
        /\ view = [c \in Client |-> {}]
        /\ viewSequence = [c \in Client |-> 0]
        /\ excused = [c \in Client |-> {}]
    BY DEF FeedInit
  <1>4. FeedTypes
    <2>1. Idle \in Handler /\ NoRequest \in Request /\ NoSync \in Sync /\ <<>> \in Seq(Frame)
      BY DEF Handler, Request, Sync
    <2> QED
      BY <1>2, <1>3, <2>1 DEF FeedTypes
  <1>5. NoRecordWithheld
    BY <1>3 DEF NoRecordWithheld
  <1>6. ASSUME NEW c \in Client PROVE ClientInv(c)
    <2>1. /\ c \notin connected /\ c \notin subscribed /\ link[c] = <<>> /\ Len(link[c]) = 0
          /\ request[c] = NoRequest /\ sync[c] = NoSync /\ handler[c] = Idle
          /\ viewSequence[c] = 0 /\ c \notin resync /\ c \notin dirty
      BY <1>3
    <2>2. request[c].op = "none" /\ sync[c].phase = "none" /\ handler[c].op = "idle"
      BY <2>1 DEF NoRequest, NoSync, Idle
    <2>3. 1..0 = {}
      OBVIOUS
    <2>4. Bounded(c) /\ Conversing(c)
      BY <1>3, <2>1, <2>2, <2>3 DEF Bounded, Conversing
    <2>5. SubscriptionsKnown(c) /\ Collecting(c) /\ PagesFit(c)
      BY <2>1, <2>2, <2>3 DEF SubscriptionsKnown, Collecting, PagesFit
    <2>6. ViewPromised(c) /\ ReplyPromised(c) /\ InstallPromised(c)
      BY <2>1 DEF ViewPromised, ReplyPromised, InstallPromised
    <2> QED
      BY <2>4, <2>5, <2>6 DEF ClientInv
  <1> QED
    BY <1>1, <1>4, <1>5, <1>6 DEF FeedInv

\* Nothing happens.
LEMMA StutterStep == FeedInv /\ UNCHANGED vars => Kept
  <1> SUFFICES ASSUME FeedInv, UNCHANGED vars PROVE Kept
    OBVIOUS
  <1>1. maintained' \in BOOLEAN
    BY DEF vars, relayVars, FeedInv, FeedTypes
  <1> QED
    BY <1>1, IdleStep DEF vars, storeVars, relayVars

\* Every step keeps the invariant.
LEMMA NextFeedInv == FeedInv /\ [FeedNext]_vars => FeedInv'
  <1> SUFFICES ASSUME FeedInv, [FeedNext]_vars PROVE FeedInv'
    OBVIOUS
  <1>1. RowsInv' /\ WithinCapacity'
    <2>1. [Next]_storeVars
      BY FeedStepsStore, StoreStepIsNext
    <2> QED
      BY <2>1, NextRowsInv, NextWithinCapacity DEF FeedInv
  <1>2. Kept
    <2>1. CASE UNCHANGED vars
      BY <2>1, StutterStep
    <2>2. CASE Maintenance
      BY <1>1, <2>2, MaintenanceStep
    <2>3. CASE Tick \/ MaintenanceEnds
      BY <2>3, TickStep, MaintenanceEndsStep
    <2>4. ASSUME NEW c \in Client, RelayStep(c) PROVE Kept
      <3>1. CASE ListAtOnce(c)
        BY <1>1, <3>1, ListAtOnceStep
      <3>2. CASE ListSuspends(c)
        BY <1>1, <3>2, ListSuspendsStep
      <3>3. CASE ListResumes(c)
        BY <3>3, ListResumesStep
      <3>4. CASE Subscribe(c)
        BY <3>4, SubscribeStep
      <3>5. CASE PostResumes(c)
        BY <3>5, PostResumesStep
      <3> QED
        BY <2>4, <3>1, <3>2, <3>3, <3>4, <3>5 DEF RelayStep
    <2>5. ASSUME NEW c \in Client, ClientStep(c) PROVE Kept
      <3>1. CASE StartResync(c)
        BY <3>1, StartStep
      <3>2. CASE StalePage(c)
        BY <3>2, StalePageStep
      <3>3. CASE Page(c)
        BY <3>3, PageStep
      <3>4. CASE Subscribed(c)
        BY <3>4, SubscribedStep
      <3>5. CASE Event(c)
        BY <3>5, EventStep
      <3>6. CASE Install(c)
        BY <3>6, InstallStep
      <3>7. CASE Retry(c)
        BY <3>7, StartStep
      <3>8. CASE JoinFails(c)
        BY <3>8, JoinFailsStep
      <3>9. CASE GiveUp(c)
        BY <3>9, GiveUpStep
      <3> QED
        BY <2>5, <3>1, <3>2, <3>3, <3>4, <3>5, <3>6, <3>7, <3>8, <3>9 DEF ClientStep
    <2>6. ASSUME NEW c \in Client, UserStep(c) PROVE Kept
      <3>1. CASE Connect(c)
        BY <3>1, ConnectStep
      <3>2. CASE Disconnect(c)
        BY <3>2, DisconnectStep
      <3>3. CASE Reload(c)
        BY <3>3, StartStep
      <3>4. ASSUME NEW id \in MessageId, DuplicatePost(c, id) PROVE Kept
        BY <1>1, <3>4, DuplicatePostStep
      <3>5. ASSUME NEW id \in MessageId, RefusedPost(c, id) PROVE Kept
        BY <1>1, <3>5, RefusedPostStep
      <3>6. ASSUME NEW id \in MessageId, PostAtOnce(c, id) PROVE Kept
        BY <1>1, <3>6, PostAtOnceStep
      <3>7. ASSUME NEW id \in MessageId, PostSuspends(c, id) PROVE Kept
        BY <1>1, <3>7, PostSuspendsStep
      <3> QED
        BY <2>6, <3>1, <3>2, <3>3, <3>4, <3>5, <3>6, <3>7 DEF UserStep
    <2> QED
      BY <2>1, <2>2, <2>3, <2>4, <2>5, <2>6 DEF FeedNext
  <1> QED
    BY <1>1, <1>2 DEF FeedInv, Kept

\* The strengthening that makes the properties of the feed inductive, for every
\* number of clients, posts, pages and attempts.
THEOREM FeedInvariant == FeedSpec => []FeedInv
  <1> QED
    BY InitFeedInv, NextFeedInv, PTL DEF FeedSpec

-----------------------------------------------------------------------------
(* The properties *)

\* The relay's and the clients' state keeps its shape: no client's sequence is
\* ahead of the relay's, and who is not connected has no task left
\* (relay.py 435-492, client.py 774-778).
THEOREM FeedTypesHold == FeedSpec => []FeedTypeOK
  <1>1. FeedInv => FeedTypeOK
    <2> SUFFICES ASSUME FeedInv PROVE FeedTypeOK
      OBVIOUS
    <2>1. TypeOK
      BY DEF FeedInv, RowsInv
    <2>2. FeedTypes
      BY DEF FeedInv
    <2>3. resync \subseteq connected /\ dirty \subseteq connected
      BY <2>2 DEF FeedInv, ClientInv, Bounded, FeedTypes
    <2>4. ASSUME NEW c \in Client
          PROVE  /\ handler[c].op \in {"idle", "list", "post"}
                 /\ request[c].op \in {"none", "list", "subscribe"}
                 /\ sync[c].phase \in {"none", "list", "subscribe", "resume"}
                 /\ view[c] \subseteq MessageId
                 /\ viewSequence[c] \in 0..sequence
      <3>1. handler[c] \in Handler /\ request[c] \in Request /\ sync[c] \in Sync
        BY <2>2 DEF FeedTypes
      <3>2. sync[c].phase \in {"none", "list", "subscribe", "resume"}
        BY <3>1, SyncFields
      <3>3. /\ handler[c].op \in {"idle", "list", "post"}
            /\ request[c].op \in {"none", "list", "subscribe"}
        BY <3>1, HandlerFields, RequestFields
      <3>4. viewSequence[c] \in Nat /\ sequence \in Nat /\ viewSequence[c] <= sequence
        BY <2>2 DEF FeedTypes, FeedInv, ClientInv, Bounded
      <3>5. viewSequence[c] \in 0..sequence
        BY <3>4
      <3> QED
        BY <2>2, <3>2, <3>3, <3>5 DEF FeedTypes
    <2> QED
      BY <2>1, <2>2, <2>3, <2>4 DEF FeedTypeOK, FeedTypes
  <1> QED
    BY <1>1, FeedInvariant, PTL

\* Every committed record has been broadcast, or its handler is about to,
\* however posts, evictions, expiries and lists interleave (relay.py 471-483).
THEOREM RecordsAreBroadcast == FeedSpec => []NoRecordWithheld
  <1>1. FeedInv => NoRecordWithheld
    BY DEF FeedInv
  <1> QED
    BY <1>1, FeedInvariant, PTL

\* A quiet client lists every record of the board, at the relay's sequence, and
\* off the board only what the relay broadcast after its removal or removed
\* without a word, unless its last synchronisation had one of the three excuses
\* (client.py 708-778, 911-924, relay.py 435-492).
THEOREM QuietViewsAreCurrent == FeedSpec => []ViewsAreCurrent
  <1>1. FeedInv => ViewsAreCurrent
    <2> SUFFICES ASSUME FeedInv, NEW c \in Client, Quiet(c), excused[c] = {}
                 PROVE  /\ Ids(messages) \subseteq view[c] \cup Pending
                        /\ view[c] \subseteq Ids(messages) \cup ghosts
                        /\ viewSequence[c] = sequence
      BY DEF ViewsAreCurrent
    <2>1. /\ FeedTypes /\ ViewPromised(c)
          /\ c \in subscribed /\ link[c] = <<>> /\ sync[c] = NoSync /\ c \notin resync
      BY DEF FeedInv, ClientInv, Quiet
    <2>2. Current(<<>>, 0, view[c], viewSequence[c], sequence, Must, May)
      BY <2>1 DEF ViewPromised, Joining
    <2>3. viewSequence[c] \in Nat /\ sequence \in Nat /\ view[c] \subseteq MessageId
      BY <2>1 DEF FeedTypes
    <2>4. Must \subseteq view[c] /\ view[c] \cap MessageId \subseteq May
          /\ viewSequence[c] = sequence
      BY <2>2, <2>3, NothingInTransit
    <2> QED
      BY <2>3, <2>4 DEF Must, May
  <1> QED
    BY <1>1, FeedInvariant, PTL

\* A snapshot collected from any number of pages is one board, whatever happens
\* between the pages, as long as each page was read and numbered in one step
\* (relay.py 465-469, 1015-1075, client.py 386-426).
THEOREM PagesMakeOneBoard == FeedSpec => []SnapshotsAreWhole
  <1>1. FeedInv => SnapshotsAreWhole
    <2> SUFFICES ASSUME FeedInv, NEW c \in Client, sync[c].phase = "subscribe",
                        sync[c].exact, sync[c].seq = sequence
                 PROVE  /\ Ids(messages) \subseteq sync[c].ids
                        /\ sync[c].ids \subseteq Ids(messages) \cup ghosts
      BY DEF SnapshotsAreWhole
    <2>1. sync[c].ids = Ids(sync[c].of) /\ OfBoard(sync[c].of, sync[c].seq)
      BY DEF FeedInv, ClientInv, Collecting
    <2>2. messages \subseteq sync[c].of /\ Ids(sync[c].of) \subseteq May
      BY <2>1 DEF OfBoard
    <2> QED
      BY <2>1, <2>2 DEF Ids, May
  <1> QED
    BY <1>1, FeedInvariant, PTL

\* Every step of the feed is a step of the board store or leaves it alone: the
\* relay's handlers, suspended or not, keep to the transactions of hub.py.
THEOREM FeedKeepsToTheStore == FeedSpec => [][Next]_storeVars
  <1>1. [FeedNext]_vars => [Next]_storeVars
    BY FeedStepsStore, StoreStepIsNext
  <1> QED
    BY <1>1, PTL DEF FeedSpec
=============================================================================

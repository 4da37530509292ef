---------------------------- MODULE SessionRelay ----------------------------
(***************************************************************************)
(* What a relay keeps for its connections (relay.py): display             *)
(* reservations, waiting rooms, session routes, and the bounded outbound   *)
(* queue every frame passes through.                                       *)
(*                                                                         *)
(* The handlers here never suspend: send_event puts a frame in a queue or  *)
(* raises.  So a handler is one step, with all its sends; what interleaves *)
(* are handlers of several connections, the steps in which a connection    *)
(* dies, maintenance and rotation.  A connection dies in up to three       *)
(* steps: a full queue schedules close() (doomed), close() sets closed     *)
(* while run() still reads (closed), run() has left its loop and has       *)
(* _connection_closed to call (ending).                                    *)
(*                                                                         *)
(* Time is abstract: a deadline passes at any moment (the overdue sets).   *)
(* Handshake material, proofs and bodies are opaque to the relay and left  *)
(* out, and so is the join rate limit, which may refuse any join.          *)
(***************************************************************************)
EXTENDS Naturals, FiniteSets

CONSTANTS
    Conn,           \* _RelayConnection objects
    Token,          \* display tokens
    RoomId,         \* room IDs (one per comm phrase)
    PairId,         \* pair IDs
    SessionId,      \* end-to-end session IDs
    None            \* Python's None

ASSUME RelayAssumption ==
    None \notin Conn \cup Token \cup RoomId \cup PairId \cup SessionId

VARIABLES
    status,        \* per connection: none, open, doomed, closed or ending
    full,          \* live connections whose outbound queue has no room
    display,       \* per connection: display_token
    waitingRoom,   \* per connection: waiting_room_id
    pairId,        \* per connection: pair_id
    holder,        \* per token: reservation.connection, None without one
    leased,        \* tokens whose connection is gone, reserved by their lease
    creatorOf,     \* per room ID: room.creator, None without a room
    route,         \* per pair ID: its route or NoRoute
    overdue,       \* tokens, room IDs and pair IDs whose deadline has passed
    maintaining,   \* _maintenance_task is alive
    rotating,      \* _rotating
    told,          \* history: what the queued frames tell each client
    dropped        \* history: creators whose room was dropped without a frame

wireVars == <<status, full, told>>
roomVars == <<waitingRoom, creatorOf, dropped>>
routeVars == <<pairId, route>>
displayVars == <<display, holder, leased>>
vars == <<wireVars, roomVars, routeVars, displayVars, overdue, maintaining, rotating>>

NoRoute == [room |-> None]

Roles == {"creator", "joiner"}

\* told: nothing, a room of its own that waits, or a pair.
Nothing == "nothing"
Waiting == "waiting"

ASSUME NewsAssumption == Nothing \notin PairId /\ Waiting \notin PairId

-----------------------------------------------------------------------------
(* Sending *)

Closed(c) == status[c] \in {"none", "closed", "ending"}

\* A handler's sends one after the other: w carries the connections' state
\* and whether an exception was raised, after which nothing more is sent.
Wire == [status |-> status, told |-> told, ok |-> TRUE]

Accepts(w, c) == w.status[c] \in {"open", "doomed"} /\ c \notin full

\* send_event: a full queue schedules close() of that connection and raises.
Send(w, c, news) ==
    IF ~w.ok THEN w
    ELSE IF Accepts(w, c)
    THEN [w EXCEPT !.told[c] = news]
    ELSE [w EXCEPT !.status[c] = IF @ = "open" THEN "doomed" ELSE @, !.ok = FALSE]

\* send_event under try/except, as _close_route does.
TrySend(w, c, news) == [Send(w, c, news) EXCEPT !.ok = w.ok]

\* The handler of c returns to run(), which ends c when an exception or an
\* invalid frame got there.
Return(c, w) ==
    /\ status' = IF w.ok THEN w.status ELSE [w.status EXCEPT ![c] = "ending"]
    /\ told' = w.told
    /\ full' = IF w.ok THEN full ELSE full \ {c}

\* FrameError: the error frame is sent if possible and run() ends.
Refuse(c, w) == Return(c, [TrySend(w, c, w.told[c]) EXCEPT !.ok = FALSE])

\* run() is in its loop: it may still read one frame after close() began.
Handles(c) == status[c] \in {"open", "doomed", "closed"}

\* Session and board frames are handled after display_reserve only.
Ready(c) == Handles(c) /\ display[c] # None

-----------------------------------------------------------------------------
(* Display reservations *)

Lapsed == leased \cap overdue

\* reserve_display after _prune_reservations.  A token that a connection
\* holds or a lease keeps is refused.
ReserveDisplay(c, t) ==
    LET free == holder[t] = None /\ t \notin leased \ Lapsed
        w == Send(Wire, c, told[c])
    IN  /\ Handles(c) /\ display[c] = None
        /\ leased' = leased \ Lapsed
        /\ overdue' = overdue \ Lapsed
        /\ holder' = IF free THEN [holder EXCEPT ![t] = c] ELSE holder
        /\ display' = IF free THEN [display EXCEPT ![c] = t] ELSE display
        /\ Return(c, w)
        /\ UNCHANGED <<roomVars, routeVars, maintaining, rotating>>

-----------------------------------------------------------------------------
(* Waiting rooms *)

\* The rooms _cleanup_sessions and _expire_sessions drop.
StaleRooms ==
    {r \in RoomId : creatorOf[r] # None /\ (r \in overdue \/ Closed(creatorOf[r]))}

\* Rooms and creators after the rooms R are dropped.
WithoutRooms(R) == [r \in RoomId |-> IF r \in R THEN None ELSE creatorOf[r]]

WaitingKept(R) == waitingRoom

WithoutWaiting(R) ==
    [c \in Conn |-> IF waitingRoom[c] \in R /\ creatorOf[waitingRoom[c]] = c
                    THEN None ELSE waitingRoom[c]]

Creators(R) == {creatorOf[r] : r \in R}

\* The open creators of the dropped rooms get no frame (relay.py 719-724).
CleanupDrops == dropped \cup {c \in Creators(StaleRooms) : ~Closed(c)}

\* create_waiting_room: nobody waits in the room, and no route came from it.
RoomFreeIfNotWaiting(r) == WithoutRooms(StaleRooms)[r] = None

RoomFree(r) ==
    /\ WithoutRooms(StaleRooms)[r] = None
    /\ \A p \in PairId : route[p].room # r

SessionWait(c, r) ==
    LET ok == WithoutWaiting(StaleRooms)[c] = None /\ pairId[c] = None /\ RoomFree(r)
    IN  /\ Ready(c)
        /\ IF ok
           THEN /\ creatorOf' = [WithoutRooms(StaleRooms) EXCEPT ![r] = c]
                /\ waitingRoom' = [WithoutWaiting(StaleRooms) EXCEPT ![c] = r]
                /\ dropped' = CleanupDrops \ {c}
                /\ Return(c, Send(Wire, c, Waiting))
           ELSE /\ creatorOf' = WithoutRooms(StaleRooms)
                /\ waitingRoom' = WithoutWaiting(StaleRooms)
                /\ dropped' = CleanupDrops
                /\ Return(c, Send(Wire, c, told[c]))
        /\ overdue' = overdue \ StaleRooms
        /\ UNCHANGED <<routeVars, displayVars, maintaining, rotating>>

\* cancel_waiting_room
SessionCancel(c) ==
    LET r == waitingRoom[c]
        own == r # None /\ creatorOf[r] = c
    IN  /\ Ready(c)
        /\ waitingRoom' = [waitingRoom EXCEPT ![c] = None]
        /\ creatorOf' = IF own THEN [creatorOf EXCEPT ![r] = None] ELSE creatorOf
        /\ overdue' = IF own THEN overdue \ {r} ELSE overdue
        /\ Return(c, Send(Wire, c, IF own THEN Nothing ELSE told[c]))
        /\ UNCHANGED <<routeVars, displayVars, dropped, maintaining, rotating>>

\* join_waiting_room: rate limited, nothing else happens.
JoinLimited(c) ==
    /\ Ready(c)
    /\ Return(c, Send(Wire, c, told[c]))
    /\ UNCHANGED <<roomVars, routeVars, displayVars, overdue, maintaining, rotating>>

\* join_waiting_room: the joiner is busy, or there is no such room.
JoinBusy(c) == WithoutWaiting(StaleRooms)[c] # None \/ pairId[c] # None

JoinRefused(c, r) ==
    /\ Ready(c)
    /\ JoinBusy(c) \/ WithoutRooms(StaleRooms)[r] = None
    /\ creatorOf' = WithoutRooms(StaleRooms)
    /\ waitingRoom' = WithoutWaiting(StaleRooms)
    /\ dropped' = CleanupDrops
    /\ overdue' = overdue \ StaleRooms
    /\ Return(c, Send(Wire, c, told[c]))
    /\ UNCHANGED <<routeVars, displayVars, maintaining, rotating>>

\* Pair IDs are random: never one that anything still refers to.
FreshPair(p) ==
    /\ route[p] = NoRoute
    /\ \A c \in Conn : pairId[c] # p /\ told[c] # p

\* join_waiting_room and the three frames of _handle_session_join.
JoinPairs(c, r, p) ==
    LET d == creatorOf[r]
        w == Send(Send(Wire, c, p), d, p)
    IN  /\ Ready(c)
        /\ ~JoinBusy(c)
        /\ r \notin StaleRooms /\ d # None
        /\ FreshPair(p)
        /\ creatorOf' = WithoutRooms(StaleRooms \cup {r})
        /\ waitingRoom' = [WithoutWaiting(StaleRooms) EXCEPT ![d] = None]
        /\ dropped' = CleanupDrops
        /\ overdue' = overdue \ StaleRooms
        /\ route' = [route EXCEPT ![p] =
                       [room |-> r, creator |-> d, joiner |-> c, proved |-> {},
                        session |-> None]]
        /\ pairId' = [pairId EXCEPT ![c] = p, ![d] = p]
        \* The queue of c may have had one slot left.
        /\ Return(c, Send(w, c, p)) \/ Return(c, [w EXCEPT !.ok = FALSE])
        /\ UNCHANGED <<displayVars, maintaining, rotating>>

-----------------------------------------------------------------------------
(* Session routes *)

Members(p) == IF route[p] = NoRoute THEN {} ELSE {route[p].creator, route[p].joiner}

Peer(p, c) == IF c = route[p].creator THEN route[p].joiner ELSE route[p].creator

Role(p, c) == IF c = route[p].creator THEN "creator" ELSE "joiner"

Active(p) == route[p] # NoRoute /\ route[p].proved = Roles

\* _close_route: what is left of the routes, and the session_close frames.
RouteMarked(p) == [route EXCEPT ![p].room = None]

WithoutRoute(p) == [route EXCEPT ![p] = NoRoute]

UnpairedOneSide(p) ==
    [c \in Conn |-> IF c = route[p].joiner THEN None ELSE pairId[c]]

Unpaired(p) == [c \in Conn |-> IF c \in Members(p) THEN None ELSE pairId[c]]

NotifyClosed(w, p) ==
    TrySend(TrySend(w, route[p].creator, Nothing), route[p].joiner, Nothing)

NotifyNobody(w, p, c) == w

NotifyPeerClosed(w, p, c) == TrySend(w, Peer(p, c), Nothing)

CloseRoute(p) ==
    /\ route' = WithoutRoute(p)
    /\ pairId' = Unpaired(p)

\* route_for fails: the connection is not a member of such a pair.
NotMember(c, p) ==
    /\ Ready(c)
    /\ c \notin Members(p)
    /\ Refuse(c, Wire)
    /\ UNCHANGED <<roomVars, routeVars, displayVars, overdue, maintaining, rotating>>

\* mark_handshake_proof after the deadline: both members are told, the sender
\* is disconnected.
ProofLate(c, p) ==
    /\ Ready(c)
    /\ c \in Members(p) /\ p \in overdue
    /\ CloseRoute(p)
    /\ overdue' = overdue \ {p}
    /\ Refuse(c, NotifyClosed(Wire, p))
    /\ UNCHANGED <<roomVars, displayVars, maintaining, rotating>>

ProofRepeated(c, p) ==
    /\ Ready(c)
    /\ c \in Members(p) /\ p \notin overdue
    /\ Role(p, c) \in route[p].proved
    /\ Refuse(c, Wire)
    /\ UNCHANGED <<roomVars, routeVars, displayVars, overdue, maintaining, rotating>>

\* The proof is marked before it is forwarded, and answered last.
Proof(c, p) ==
    LET d == Peer(p, c)
    IN  /\ Ready(c)
        /\ c \in Members(p) /\ p \notin overdue
        /\ Role(p, c) \notin route[p].proved
        /\ route' = [route EXCEPT ![p].proved = @ \cup {Role(p, c)}]
        /\ Return(c, Send(Send(Wire, d, told[d]), c, told[c]))
        /\ UNCHANGED <<roomVars, pairId, displayVars, overdue, maintaining, rotating>>

\* route_session_data: dir is the direction the frame claims.
DataAllowed(c, p, s, dir) ==
    Active(p) /\ dir = Role(p, c) /\ route[p].session \in {None, s}

DataRefused(c, p, s, dir) ==
    /\ Ready(c)
    /\ c \in Members(p)
    /\ ~DataAllowed(c, p, s, dir)
    /\ Refuse(c, Wire)
    /\ UNCHANGED <<roomVars, routeVars, displayVars, overdue, maintaining, rotating>>

Data(c, p, s, dir) ==
    LET d == Peer(p, c)
    IN  /\ Ready(c)
        /\ c \in Members(p)
        /\ DataAllowed(c, p, s, dir)
        /\ route' = [route EXCEPT ![p].session = s]
        /\ Return(c, Send(Send(Wire, d, told[d]), c, told[c]))
        /\ UNCHANGED <<roomVars, pairId, displayVars, overdue, maintaining, rotating>>

\* _handle_session_close answers first and then looks for the route.
CloseUnanswered(c) ==
    /\ Ready(c)
    /\ ~Accepts(Wire, c)
    /\ Return(c, Send(Wire, c, Nothing))
    /\ UNCHANGED <<roomVars, routeVars, displayVars, overdue, maintaining, rotating>>

CloseWithoutRoute(c, p) ==
    /\ Ready(c)
    /\ Accepts(Wire, c)
    /\ c \notin Members(p)
    /\ Refuse(c, Send(Wire, c, told[c]))
    /\ UNCHANGED <<roomVars, routeVars, displayVars, overdue, maintaining, rotating>>

SessionClose(c, p) ==
    /\ Ready(c)
    /\ Accepts(Wire, c)
    /\ c \in Members(p)
    /\ CloseRoute(p)
    /\ overdue' = overdue \ {p}
    /\ Return(c, NotifyPeerClosed(Send(Wire, c, Nothing), p, c))
    /\ UNCHANGED <<roomVars, displayVars, maintaining, rotating>>

-----------------------------------------------------------------------------
(* Connections *)

\* _accept: refused while a rotation runs.  The connection has passed hello and
\* the access proof.
Accept(c) ==
    /\ status[c] = "none" /\ ~rotating
    /\ status' = [status EXCEPT ![c] = "open"]
    /\ UNCHANGED <<full, told, roomVars, routeVars, displayVars, overdue,
                   maintaining, rotating>>

\* Any other frame: heartbeats, board events.  Whoever queues it ignores an
\* exception; a frame of a handler above may also be the one that fills.
OtherFrame(c) ==
    LET w == TrySend(Wire, c, told[c])
    IN  /\ status[c] = "open"
        /\ status' = w.status
        /\ full' = full \cup {c}
        /\ UNCHANGED <<told, roomVars, routeVars, displayVars, overdue, maintaining, rotating>>

\* _writer_loop: the socket takes a frame.
WriterSends(c) ==
    /\ c \in full
    /\ full' = full \ {c}
    /\ UNCHANGED <<status, told, roomVars, routeVars, displayVars, overdue,
                   maintaining, rotating>>

\* The task of send_event runs close(): closed is set, run() still reads.
CloseTask(c) ==
    /\ status[c] = "doomed"
    /\ status' = [status EXCEPT ![c] = "closed"]
    /\ full' = full \ {c}
    /\ UNCHANGED <<told, roomVars, routeVars, displayVars, overdue,
                   maintaining, rotating>>

\* run() leaves its loop: end of stream, dead_timeout, an unreadable frame, or
\* the transport that close() has closed.
LoopEnds(c) ==
    /\ Handles(c)
    /\ status' = [status EXCEPT ![c] = "ending"]
    /\ full' = full \ {c}
    /\ UNCHANGED <<told, roomVars, routeVars, displayVars, overdue,
                   maintaining, rotating>>

\* _connection_closed: the reservation becomes a lease, the room and the route
\* go, if they are this connection's.
ReleasedByToken(c) == {t \in Token : display[c] = t}

Released(c) == {t \in Token : display[c] = t /\ holder[t] = c}

RoomKept(c) == {}

OwnRoom(c) == {r \in RoomId : waitingRoom[c] = r /\ creatorOf[r] = c}

ActivePairOf(c) == IF pairId[c] # None /\ Active(pairId[c]) THEN pairId[c] ELSE None

PairOf(c) == IF pairId[c] # None /\ route[pairId[c]] # NoRoute THEN pairId[c] ELSE None

\* The connection object itself, with all its fields, is gone afterwards.
ConnectionClosed(c) ==
    LET p == PairOf(c)
        w == IF p = None THEN Wire ELSE NotifyPeerClosed(Wire, p, c)
    IN  /\ status[c] = "ending"
        /\ holder' = [t \in Token |-> IF t \in Released(c) THEN None ELSE holder[t]]
        /\ leased' = leased \cup Released(c)
        /\ creatorOf' = WithoutRooms(OwnRoom(c))
        /\ IF p = None
           THEN /\ pairId' = [pairId EXCEPT ![c] = None]
                /\ UNCHANGED route
           ELSE CloseRoute(p)
        /\ overdue' = overdue \ (OwnRoom(c) \cup {p})
        /\ status' = [w.status EXCEPT ![c] = "none"]
        /\ told' = [w.told EXCEPT ![c] = Nothing]
        /\ display' = [display EXCEPT ![c] = None]
        /\ waitingRoom' = [waitingRoom EXCEPT ![c] = None]
        /\ dropped' = dropped \ {c}
        /\ UNCHANGED <<full, maintaining, rotating>>

-----------------------------------------------------------------------------
(* Time, maintenance and rotation *)

\* A lease, a waiting room or a handshake reaches its deadline: that of a finished
\* one is still there, for a repeated proof to meet.
DeadlinePasses ==
    /\ \E x \in leased \cup {r \in RoomId : creatorOf[r] # None}
              \cup {p \in PairId : route[p] # NoRoute} :
          x \notin overdue /\ overdue' = overdue \cup {x}
    /\ UNCHANGED <<wireVars, roomVars, routeVars, displayVars, maintaining, rotating>>

\* _expire_sessions drops the stale rooms, then tells their open creators, in
\* the order of the rooms; the first full queue raises out of the task, which
\* nobody restarts.
Late(p) == p \in overdue /\ route[p] # NoRoute /\ ~Active(p)

HalfDoneRoutes == {p \in PairId : Late(p) /\ route[p].proved # {}}

LateRoutes == {p \in PairId : Late(p)}

LateMembers == UNION {Members(p) : p \in LateRoutes}

MaintenanceBase ==
    /\ maintaining
    /\ leased' = leased \ Lapsed
    /\ creatorOf' = WithoutRooms(StaleRooms)
    /\ waitingRoom' = WithoutWaiting(StaleRooms)
    /\ UNCHANGED <<display, holder, rotating>>

ToTell == {c \in Creators(StaleRooms) : ~Closed(c)}

\* Frames to the connections S, each of which is told nothing is left.
Tell(S) ==
    /\ status' = [c \in Conn |-> IF c \in S /\ ~Accepts(Wire, c) /\ status[c] = "open"
                                 THEN "doomed" ELSE status[c]]
    /\ told' = [c \in Conn |-> IF c \in S /\ Accepts(Wire, c) THEN Nothing ELSE told[c]]
    /\ UNCHANGED full

Maintenance ==
    /\ MaintenanceBase
    /\ \A c \in ToTell : Accepts(Wire, c)
    /\ Tell(ToTell \cup LateMembers)
    /\ route' = [p \in PairId |-> IF p \in LateRoutes THEN NoRoute ELSE route[p]]
    /\ pairId' = [c \in Conn |-> IF c \in LateMembers THEN None ELSE pairId[c]]
    /\ overdue' = ((overdue \ Lapsed) \ StaleRooms) \ LateRoutes
    /\ UNCHANGED <<dropped, maintaining>>

MaintenanceDies ==
    /\ MaintenanceBase
    /\ \E c \in ToTell, before \in SUBSET {d \in ToTell : Accepts(Wire, d)} :
          /\ ~Accepts(Wire, c)
          /\ Tell(before \cup {c})
          /\ dropped' = dropped \cup (ToTell \ before)
    /\ maintaining' = FALSE
    /\ overdue' = (overdue \ Lapsed) \ StaleRooms
    /\ UNCHANGED routeVars

\* rotate_access closes every connection, and when all have ended forgets
\* everything, before or after their _connection_closed.
RotationBegins ==
    /\ ~rotating
    /\ rotating' = TRUE
    /\ status' = [c \in Conn |-> IF status[c] \in {"open", "doomed"} THEN "closed"
                                 ELSE status[c]]
    /\ full' = {}
    /\ UNCHANGED <<told, roomVars, routeVars, displayVars, overdue, maintaining>>

RotationEnds ==
    /\ rotating
    /\ \A c \in Conn : status[c] \in {"none", "ending"}
    /\ rotating' = FALSE
    /\ creatorOf' = [r \in RoomId |-> None]
    /\ route' = [p \in PairId |-> NoRoute]
    /\ holder' = [t \in Token |-> None]
    /\ leased' = {}
    /\ overdue' = {}
    /\ UNCHANGED <<wireVars, waitingRoom, dropped, pairId, display, maintaining>>

-----------------------------------------------------------------------------
(* Specification *)

Init ==
    /\ status = [c \in Conn |-> "none"]
    /\ full = {}
    /\ told = [c \in Conn |-> Nothing]
    /\ display = [c \in Conn |-> None]
    /\ waitingRoom = [c \in Conn |-> None]
    /\ pairId = [c \in Conn |-> None]
    /\ holder = [t \in Token |-> None]
    /\ leased = {}
    /\ creatorOf = [r \in RoomId |-> None]
    /\ route = [p \in PairId |-> NoRoute]
    /\ overdue = {}
    /\ maintaining = TRUE /\ rotating = FALSE
    /\ dropped = {}

RoomRequest(c) ==
    \/ \E t \in Token : ReserveDisplay(c, t)
    \/ SessionCancel(c)
    \/ JoinLimited(c)
    \/ \E r \in RoomId :
          \/ SessionWait(c, r)
          \/ JoinRefused(c, r)
          \/ \E p \in PairId : JoinPairs(c, r, p)

PairRequest(c, p) ==
    \/ NotMember(c, p)
    \/ ProofLate(c, p)
    \/ ProofRepeated(c, p)
    \/ Proof(c, p)
    \/ CloseWithoutRoute(c, p)
    \/ SessionClose(c, p)
    \/ \E s \in SessionId, dir \in Roles :
          \/ DataRefused(c, p, s, dir)
          \/ Data(c, p, s, dir)

Request(c) ==
    \/ RoomRequest(c)
    \/ CloseUnanswered(c)
    \/ \E p \in PairId : PairRequest(c, p)

Next ==
    \/ \E c \in Conn :
          \/ Request(c)
          \/ Accept(c)
          \/ OtherFrame(c)
          \/ WriterSends(c)
          \/ CloseTask(c)
          \/ LoopEnds(c)
          \/ ConnectionClosed(c)
    \/ DeadlinePasses
    \/ Maintenance
    \/ MaintenanceDies
    \/ RotationBegins
    \/ RotationEnds

Spec == Init /\ [][Next]_vars

\* The event loop runs scheduled tasks and the ends of connections whose
\* transport is closed; the maintenance loop sleeps and wakes while it lives.
FairSpec ==
    /\ Spec
    /\ \A c \in Conn :
          /\ WF_vars(CloseTask(c))
          /\ WF_vars(status[c] = "closed" /\ LoopEnds(c))
          /\ WF_vars(ConnectionClosed(c))
    /\ WF_vars(Maintenance \/ MaintenanceDies)

-----------------------------------------------------------------------------
(* Correctness *)

Open(c) == status[c] \in {"open", "doomed"}

\* Shape of the relay's tables.
TypeOK ==
    /\ status \in [Conn -> {"none", "open", "doomed", "closed", "ending"}]
    /\ full \subseteq Conn
    /\ told \in [Conn -> {Nothing, Waiting} \cup PairId]
    /\ display \in [Conn -> Token \cup {None}]
    /\ waitingRoom \in [Conn -> RoomId \cup {None}]
    /\ pairId \in [Conn -> PairId \cup {None}]
    /\ holder \in [Token -> Conn \cup {None}]
    /\ leased \subseteq Token
    /\ creatorOf \in [RoomId -> Conn \cup {None}]
    /\ route \in [PairId -> [room : RoomId, creator : Conn, joiner : Conn,
                             proved : SUBSET Roles, session : SessionId \cup {None}]
                           \cup {NoRoute}]
    /\ overdue \subseteq Token \cup RoomId \cup PairId
    /\ maintaining \in BOOLEAN /\ rotating \in BOOLEAN
    /\ dropped \subseteq Conn

\* A route joins two different connections that both carry its pair ID, and no
\* open connection carries the pair ID of a route that is gone or another's:
\* however a close, a timeout, a disconnect and a rotation meet (relay.py
\* 528-558, 671-682, 427-440).
RoutesMatchConnections ==
    /\ \A p \in PairId : route[p] # NoRoute =>
          /\ route[p].creator # route[p].joiner
          /\ \A c \in Members(p) : pairId[c] = p
    /\ \A c \in Conn : Open(c) /\ pairId[c] # None => c \in Members(pairId[c])

\* A waiting room is its creator's, and an open connection that waits has its
\* room; nobody waits and is paired at once (relay.py 491-526, 719-741).
RoomsMatchConnections ==
    /\ \A r \in RoomId : creatorOf[r] # None => waitingRoom[creatorOf[r]] = r
    /\ \A c \in Conn : Open(c) /\ waitingRoom[c] # None =>
          /\ creatorOf[waitingRoom[c]] = c
          /\ pairId[c] = None

\* A comm phrase serves one comm at a time: no second creator can wait under
\* the room ID of a room or a route that exists (relay.py 499-504).
PhraseServesOnce ==
    \A p \in PairId : route[p] # NoRoute =>
        /\ creatorOf[route[p].room] = None
        /\ \A q \in PairId \ {p} : route[q].room # route[p].room

\* An open connection's display ID is reserved for it alone; a stale
\* connection that ends late cannot release it (relay.py 427-456).
DisplaysAreReserved ==
    /\ \A c \in Conn : Open(c) /\ display[c] # None => holder[display[c]] = c
    /\ \A t \in Token : holder[t] # None => display[holder[t]] = t /\ t \notin leased

\* Once _connection_closed has run, no table of the relay refers to the
\* connection (relay.py 427-440).
NothingRefersToTheDead ==
    \A c \in Conn : status[c] = "none" =>
        /\ \A t \in Token : holder[t] # c
        /\ \A r \in RoomId : creatorOf[r] # c
        /\ \A p \in PairId : c \notin Members(p)

\* The frames queued to an open client tell it the truth: it was told of its
\* pair and of nothing after that, it was told of the end of every pair it is
\* no longer in, and it waits exactly if it was told so.  The exceptions are a
\* pair whose joiner died while it was announced, and a room that was dropped
\* without a frame.
ClientsAreToldTheTruth ==
    \A c \in Conn : Open(c) /\ status[c] = "open" =>
        /\ told[c] \in PairId => pairId[c] = told[c]
        /\ pairId[c] # None =>
              told[c] = pairId[c] \/ status[Peer(pairId[c], c)] = "ending"
        /\ waitingRoom[c] # None => told[c] = Waiting
        /\ told[c] = Waiting => waitingRoom[c] # None \/ pairId[c] # None \/ c \in dropped

\* A pair with a dead member ends, and so does its hold on the other member
\* (relay.py 790-797, 439-440).
DeadPairsEnd ==
    \A p \in PairId :
        (\E c \in Members(p) : ~Open(c)) ~> route[p] = NoRoute

\* A handshake that is not finished in time ends, while maintenance lives.
UnfinishedPairsEnd ==
    \A p \in PairId : Late(p) ~> (~Late(p) \/ ~maintaining)

\* Documented (protocol-transport-v1.md 237-238): the handshake timeout
\* releases the in-memory pair.
HandshakeTimeoutReleases ==
    \A p \in PairId : Late(p) ~> ~Late(p)

=============================================================================

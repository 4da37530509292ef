----------------------------- MODULE CommSession -----------------------------
(***************************************************************************)
(* Clients that open, use and end comms through the relay: the session     *)
(* part of HeadlessClient (client.py), the comm screens of the interactive *)
(* application (interactive.py) and the relay's room and routes (relay.py) *)
(* between them.                                                           *)
(*                                                                         *)
(* Of the tasks of a client three are modelled, interleaved as the event   *)
(* loop may run them: the reader, complete_session (task) and the screen   *)
(* (ui) with its watcher.  Frames travel in order in both directions.  All *)
(* users know one comm phrase, so there is one room ID.                    *)
(*                                                                         *)
(* A timer fires by itself only when what it waits for cannot come any     *)
(* more; firing while it still might come is a fault.                      *)
(***************************************************************************)
EXTENDS LiveSessionChannel, Sequences, SequencesExt

CONSTANTS
    Client,
    MaxTexts,      \* bound: texts a user writes in one comm
    MaxFaults,     \* bound: frames damaged, connections lost, and timers that
                   \* fire although the answer is coming,
    FaultyPairs    \* while no more than so many pairs were made

ASSUME CommAssumption ==
    /\ Session \subseteq Nat \ {0}
    /\ MaxTexts \in Nat /\ MaxTexts + 2 <= CounterMax
    /\ {MaxFaults, FaultyPairs} \subseteq Nat

VARIABLES
    client,    \* per client: HeadlessClient and InteractiveClientApp
    up, down,  \* per client: frames to and from the relay
    served,    \* connections whose run() is in its loop
    room,      \* the creator in the waiting room, or Nobody
    route,     \* per pair: its _SessionRoute or NoRoute
    made,      \* pairs made so far; pair IDs count from 1
    faults,    \* frames damaged, connections lost, timers that fired early
    damaged    \* a history: whether a frame was damaged

vars == <<client, up, down, served, room, route, made, faults, damaged>>
relayVars == <<served, room, route, made>>
faultVars == <<faults, damaged>>

Nobody == "nobody"
NoRoute == [creator |-> Nobody, joiner |-> Nobody, proved |-> {}]
NoChannel == NewChannel(0, "creator")

ASSUME NobodyAssumption == Nobody \notin Client

-----------------------------------------------------------------------------
(* Frames *)

\* The end of a connection: nothing can be added after it.
Eof == [type |-> "eof"]

Ended(frames) == frames # <<>> /\ Last(frames) = Eof

Sent(frames, more) == IF Ended(frames) THEN frames ELSE frames \o more

\* A request, and the response that carries its request ID; late marks those
\* whose requester has given up.
Request(type, by, p) == [type |-> type, by |-> by, late |-> FALSE, pair |-> p]

DataRequest(by, f) ==
    [type |-> "data", by |-> by, late |-> FALSE, pair |-> f.session, frame |-> f]

Answer(q, result) ==
    [type |-> "answer", to |-> q.type, by |-> q.by, late |-> q.late, result |-> result]

CloseFrame(p) == [type |-> "close", pair |-> p]

\* What a timed-out request leaves in the connection.
Orphaned(frames, by) ==
    [i \in 1..Len(frames) |->
        IF "by" \in DOMAIN frames[i] /\ frames[i].by = by
        THEN [frames[i] EXCEPT !.late = TRUE] ELSE frames[i]]

InTransit(frames, by) ==
    \E i \in 1..Len(frames) :
        "by" \in DOMAIN frames[i] /\ frames[i].by = by /\ ~frames[i].late

-----------------------------------------------------------------------------
(* The session state of a client.  pair and channel are _pair_id and       *)
(* _session_channel, taskPair is complete_session's local pair, comm the   *)
(* pair the comm screen belongs to, over its closed event, failing a pair  *)
(* to close after an integrity failure.                                    *)

NewClient ==
    [connected |-> TRUE, ui |-> "hub", task |-> "none", role |-> Nobody,
     pair |-> 0, taskPair |-> 0, participant |-> FALSE, channel |-> NoChannel,
     buffered |-> <<>>, identified |-> FALSE, pairs |-> <<>>, proofs |-> <<>>,
     events |-> <<>>, closes |-> <<>>, comm |-> 0, over |-> FALSE, shown |-> <<>>,
     failing |-> 0, pending |-> [by \in {"ui", "task", "failure"} |-> "none"]]

Faulty ==
    /\ faults < MaxFaults /\ made <= FaultyPairs
    /\ faults' = faults + 1

Update(c, k) == client' = [client EXCEPT ![c] = k]

\* _request: raises at once when the connection is gone.
Asking(k, by) == [k EXCEPT !.pending[by] = IF k.connected THEN "sent" ELSE "error"]

Ask(c, k, q) ==
    /\ Update(c, Asking(k, q.by))
    /\ up' = IF k.connected /\ c \in served THEN [up EXCEPT ![c] = Sent(@, <<q>>)] ELSE up

Answered(c, by) == client[c].pending[by] \in {"ok", "no", "error"}

Resumed(c, by) == [client[c] EXCEPT !.pending[by] = "none"]

\* _prepare_session_state
Prepare(k, r) ==
    [k EXCEPT !.role = r, !.participant = TRUE, !.pair = 0, !.channel = NoChannel,
              !.buffered = <<>>, !.identified = FALSE,
              !.pairs = <<>>, !.proofs = <<>>, !.events = <<>>, !.closes = <<>>]

\* _discard_session_state
DiscardStateKeepingPair(k) ==
    [k EXCEPT !.role = Nobody, !.participant = FALSE,
              !.channel = NoChannel, !.buffered = <<>>]

DiscardState(k) ==
    [k EXCEPT !.role = Nobody, !.participant = FALSE, !.pair = 0,
              !.channel = NoChannel, !.buffered = <<>>]

\* _require_ready_for_session
Ready(k) == k.connected /\ k.role = Nobody /\ k.channel = NoChannel

\* _decrypt_session_frame on a usable channel: the next frame of the peer, or
\* one that ends the session (raised by decrypt_frame, reported as closed).
Decrypted(k, f) ==
    IF ~Opens(k.channel, f)
    THEN DiscardState([k EXCEPT !.closes = Append(@, "integrity_failure"),
                                !.failing = k.pair])
    ELSE LET d == [k EXCEPT !.channel = AfterDecrypt(@, f)]
         IN  IF f.event = Identity THEN [d EXCEPT !.identified = TRUE]
             ELSE [d EXCEPT !.events = Append(@, f)]

\* _drain_buffered_session_frames: ends with the channel, when discarding the
\* session state cleared the buffer and when a channel that is discarded raises.
DrainedNever(k) == k

DrainedOnto(d, f) ==
    IF d.channel # NoChannel /\ Usable(d.channel) THEN Decrypted(d, f)
    ELSE [d EXCEPT !.task = "aborting"]

Drained(k) ==
    LET after[n \in 0..Len(k.buffered)] ==
          IF n = 0 THEN [k EXCEPT !.buffered = <<>>]
          ELSE DrainedOnto(after[n - 1], k.buffered[n])
    IN  after[Len(k.buffered)]

-----------------------------------------------------------------------------
(* complete_session *)

Fails(k) == [k EXCEPT !.task = "failed"]

\* The pair arrives: its proof is sent, unless the state was discarded or
\* prepared for the other role meanwhile.
TakePair(c) ==
    LET k == client[c]
        p == Head(k.pairs)
        t == [k EXCEPT !.pairs = Tail(@)]
    IN  /\ k.task = "pair" /\ k.pairs # <<>>
        /\ IF p.role # k.role
           THEN /\ Update(c, Fails(DiscardState(t)))
                /\ UNCHANGED up
           ELSE Ask(c, [t EXCEPT !.pair = p.pair, !.taskPair = p.pair, !.task = "proving"],
                    Request("proof", "task", p.pair))
        /\ UNCHANGED <<down, relayVars, faultVars>>

\* The proof is with the relay; an error leaves the session state as it is.
ProofAnswered(c) ==
    LET k == Resumed(c, "task")
    IN  /\ client[c].task = "proving" /\ Answered(c, "task")
        /\ Update(c, IF client[c].pending["task"] = "ok"
                     THEN [k EXCEPT !.task = "proof"] ELSE Fails(k))
        /\ UNCHANGED <<up, down, relayVars, faultVars>>

\* _abort_session_route
Abort(c, k) ==
    Ask(c, [k EXCEPT !.task = "aborting"], Request("close", "task", k.taskPair))

\* The peer's proof arrives: finalise raises when a close destroyed the
\* participant.  The new channel decrypts what was buffered and sends the
\* local identity.
TakeProof(c) ==
    LET k == client[c]
        f == Head(k.proofs)
        t == [k EXCEPT !.proofs = Tail(@), !.participant = FALSE]
        ch == NewChannel(k.taskPair, k.role)
        open == Drained([t EXCEPT !.channel = AfterEncrypt(ch, Identity),
                                  !.task = "naming"])
    IN  /\ k.task = "proof" /\ k.proofs # <<>>
        /\ IF f.pair # k.taskPair \/ ~k.participant THEN Abort(c, t)
           ELSE IF open.channel = NoChannel \/ open.task = "aborting" THEN Abort(c, open)
           ELSE Ask(c, open, DataRequest("task", Encrypted(ch, Identity)))
        /\ UNCHANGED <<down, relayVars, faultVars>>

\* The identity is with the peer: _wait_for_peer_identity.
IdentityAnswered(c) ==
    LET k == Resumed(c, "task")
    IN  /\ client[c].task = "naming" /\ Answered(c, "task")
        /\ IF client[c].pending["task"] = "ok" /\ k.channel # NoChannel
           THEN /\ Update(c, [k EXCEPT !.task = IF k.channel.peerIdentityReceived
                                                THEN "done" ELSE "peer"])
                /\ UNCHANGED up
           ELSE Abort(c, k)
        /\ UNCHANGED <<down, relayVars, faultVars>>

PeerIdentified(c) ==
    LET k == client[c]
    IN  /\ k.task = "peer" /\ k.identified
        /\ IF k.channel.peerIdentityReceived
           THEN Update(c, [k EXCEPT !.task = "done"]) /\ UNCHANGED up
           ELSE Abort(c, k)
        /\ UNCHANGED <<down, relayVars, faultVars>>

AbortAnsweredKeepingState(c) ==
    /\ client[c].task = "aborting" /\ Answered(c, "task")
    /\ Update(c, Fails(Resumed(c, "task")))
    /\ UNCHANGED <<up, down, relayVars, faultVars>>

AbortAnswered(c) ==
    /\ client[c].task = "aborting" /\ Answered(c, "task")
    /\ Update(c, Fails(DiscardState(Resumed(c, "task"))))
    /\ UNCHANGED <<up, down, relayVars, faultVars>>

\* _close_route_after_failure
FailureCloses(c) ==
    LET k == client[c]
    IN  /\ k.failing # 0 /\ k.pending["failure"] = "none"
        /\ Ask(c, [k EXCEPT !.failing = 0], Request("close", "failure", k.failing))
        /\ UNCHANGED <<down, relayVars, faultVars>>

FailureAnswered(c) ==
    /\ Answered(c, "failure")
    /\ Update(c, Resumed(c, "failure"))
    /\ UNCHANGED <<up, down, relayVars, faultVars>>

TaskStep(c) ==
    \/ TakePair(c) \/ ProofAnswered(c) \/ TakeProof(c) \/ IdentityAnswered(c)
    \/ PeerIdentified(c) \/ AbortAnswered(c)
    \/ FailureCloses(c) \/ FailureAnswered(c)

-----------------------------------------------------------------------------
(* The screens *)

InSetup(k) == k.ui \in {"waiting", "settling", "connecting"}
InComm(k) == k.ui \in {"comm", "writing", "confirming", "saying bye", "closing"}

\* The Hub is shown again; the watcher of a comm is cancelled.
ToHubKeepingTexts(k) ==
    [k EXCEPT !.ui = "hub", !.task = "none", !.comm = 0, !.over = FALSE, !.taskPair = 0]

ToHub(k) == [k EXCEPT !.ui = "hub", !.task = "none", !.comm = 0, !.over = FALSE,
                      !.shown = <<>>, !.taskPair = 0]

\* /comm, then /new or a phrase: wait_session.
Start(c) ==
    LET k == client[c]
    IN  /\ k.ui = "hub" /\ Ready(k)
        /\ made + 1 \in Session
        /\ Ask(c, Prepare([k EXCEPT !.ui = "starting"], "creator"), Request("wait", "ui", 0))
        /\ UNCHANGED <<down, relayVars, faultVars>>

\* complete_session starts: a close may have discarded the state meanwhile.
Completes(k) == [k EXCEPT !.task = IF k.role = Nobody THEN "failed" ELSE "pair"]

\* The answer to session_wait: a refusal makes the phrase one to join, or the
\* end of /new; an error leaves the session state as it is.
WaitAnswered(c) ==
    LET k == Resumed(c, "ui")
        answer == client[c].pending["ui"]
        d == DiscardState(k)
    IN  /\ k.ui = "starting" /\ Answered(c, "ui")
        /\ \/ /\ answer = "ok"
              /\ Update(c, Completes([k EXCEPT !.ui = "waiting"]))
              /\ UNCHANGED up
           \/ /\ answer = "no" /\ k.connected
              /\ Ask(c, Prepare([d EXCEPT !.ui = "joining"], "joiner"), Request("join", "ui", 0))
           \/ /\ answer # "ok"
              /\ Update(c, ToHub(IF answer = "no" THEN d ELSE k))
              /\ UNCHANGED up
        /\ UNCHANGED <<down, relayVars, faultVars>>

JoinAnswered(c) ==
    LET k == Resumed(c, "ui")
        answer == client[c].pending["ui"]
    IN  /\ k.ui = "joining" /\ Answered(c, "ui")
        /\ Update(c, CASE answer = "ok" -> Completes([k EXCEPT !.ui = "connecting"])
                       [] answer = "no" -> ToHub(DiscardState(k))
                       [] OTHER -> ToHub(k))
        /\ UNCHANGED <<up, down, relayVars, faultVars>>

\* /cancel: cancel_waiting_session, refused at once when the pair was taken.
Cancel(c) ==
    LET k == client[c]
    IN  /\ k.ui = "waiting" /\ k.task \notin {"done", "failed"}
        /\ IF k.role = "creator" /\ k.pair = 0
           THEN Ask(c, [k EXCEPT !.ui = "cancelling"], Request("cancel", "ui", 0))
           ELSE Update(c, [k EXCEPT !.ui = "settling"]) /\ UNCHANGED up
        /\ UNCHANGED <<down, relayVars, faultVars>>

CancelAnswered(c) ==
    LET k == Resumed(c, "ui")
    IN  /\ k.ui = "cancelling" /\ Answered(c, "ui")
        /\ Update(c, IF client[c].pending["ui"] = "ok" THEN ToHub(DiscardState(k))
                     ELSE [k EXCEPT !.ui = "settling"])
        /\ UNCHANGED <<up, down, relayVars, faultVars>>

\* complete_session has ended: the comm opens if its channel is still there.
SetupEnds(c) ==
    LET k == client[c]
    IN  /\ InSetup(k) /\ k.task \in {"done", "failed"}
        /\ Update(c, IF k.task = "done" /\ k.channel.peerIdentityReceived
                     THEN [k EXCEPT !.ui = "comm", !.task = "none",
                                    !.comm = k.channel.session]
                     ELSE ToHub(k))
        /\ UNCHANGED <<up, down, relayVars, faultVars>>

\* send_session_text
Write(c) ==
    LET k == client[c]
    IN  /\ k.ui = "comm" /\ ~k.over
        /\ \E text \in Text :
              IF Active(k.channel)
              THEN /\ k.channel.sendCounter <= MaxTexts
                   /\ Ask(c, [k EXCEPT !.ui = "writing", !.channel = AfterEncrypt(@, text)],
                          DataRequest("ui", Encrypted(k.channel, text)))
              ELSE Update(c, [k EXCEPT !.over = TRUE]) /\ UNCHANGED up
        /\ UNCHANGED <<down, relayVars, faultVars>>

TextAnsweredOk(c) ==
    /\ client[c].ui = "writing" /\ client[c].pending["ui"] = "ok"
    /\ Update(c, [Resumed(c, "ui") EXCEPT !.ui = "comm"])
    /\ UNCHANGED <<up, down, relayVars, faultVars>>

TextAnswered(c) ==
    LET k == Resumed(c, "ui")
    IN  /\ k.ui = "writing" /\ Answered(c, "ui")
        /\ Update(c, [k EXCEPT !.ui = "comm",
                               !.over = @ \/ client[c].pending["ui"] # "ok"])
        /\ UNCHANGED <<up, down, relayVars, faultVars>>

\* /end asks for a confirmation, which is read whatever happens meanwhile.
AskToEnd(c) ==
    /\ client[c].ui = "comm" /\ ~client[c].over
    /\ Update(c, [client[c] EXCEPT !.ui = "confirming"])
    /\ UNCHANGED <<up, down, relayVars, faultVars>>

Refrain(c) ==
    /\ client[c].ui = "confirming"
    /\ Update(c, [client[c] EXCEPT !.ui = "comm"])
    /\ UNCHANGED <<up, down, relayVars, faultVars>>

\* end_session.  A channel that is discarded but still there raises an error
\* the screen does not expect.
EndSession(c) ==
    LET k == client[c]
    IN  /\ k.ui = "confirming"
        /\ \/ /\ k.channel = NoChannel \/ k.pair = 0
              /\ Update(c, [k EXCEPT !.ui = "comm", !.over = TRUE])
              /\ UNCHANGED up
           \/ /\ k.channel # NoChannel /\ k.pair # 0 /\ ~Usable(k.channel)
              /\ Update(c, [k EXCEPT !.ui = "crashed"])
              /\ UNCHANGED up
           \/ /\ Usable(k.channel) /\ k.channel # NoChannel /\ k.pair # 0
              /\ Ask(c, [k EXCEPT !.ui = "saying bye", !.channel = AfterEncrypt(@, Close),
                                  !.taskPair = k.pair],
                     DataRequest("ui", Encrypted(k.channel, Close)))
        /\ UNCHANGED <<down, relayVars, faultVars>>

ByeAnswered(c) ==
    LET k == Resumed(c, "ui")
    IN  /\ k.ui = "saying bye" /\ Answered(c, "ui")
        /\ IF client[c].pending["ui"] = "ok"
           THEN Ask(c, [k EXCEPT !.ui = "closing"], Request("close", "ui", k.taskPair))
           ELSE /\ Update(c, [DiscardState(k) EXCEPT !.ui = "comm", !.over = TRUE])
                /\ UNCHANGED up
        /\ UNCHANGED <<down, relayVars, faultVars>>

CloseAnswered(c) ==
    /\ client[c].ui = "closing" /\ Answered(c, "ui")
    /\ Update(c, [DiscardState(Resumed(c, "ui")) EXCEPT !.ui = "comm", !.over = TRUE])
    /\ UNCHANGED <<up, down, relayVars, faultVars>>

\* _watch_comm_events: of what is ready at once one is handled; a text that is
\* ready together with the end is never shown.
Watch(c) ==
    LET k == client[c]
        f == Head(k.events)
    IN  /\ InComm(k) /\ ~k.over
        /\ \/ /\ ~k.connected \/ k.closes # <<>>
              /\ Update(c, [k EXCEPT !.over = TRUE])
           \/ /\ k.events # <<>>
              /\ Update(c, IF f.event = Close
                           THEN [k EXCEPT !.over = TRUE, !.events = Tail(@)]
                           ELSE [k EXCEPT !.shown = Append(@, f), !.events = Tail(@)])
        /\ UNCHANGED <<up, down, relayVars, faultVars>>

LeaveComm(c) ==
    /\ client[c].ui = "comm" /\ client[c].over
    /\ Update(c, ToHub(client[c]))
    /\ UNCHANGED <<up, down, relayVars, faultVars>>

ScreenStep(c) ==
    \/ WaitAnswered(c) \/ JoinAnswered(c) \/ CancelAnswered(c) \/ SetupEnds(c)
    \/ TextAnswered(c) \/ ByeAnswered(c) \/ CloseAnswered(c)
    \/ Watch(c) \/ LeaveComm(c)

UserStep(c) ==
    \/ Start(c) \/ Cancel(c) \/ Write(c) \/ AskToEnd(c) \/ Refrain(c) \/ EndSession(c)

-----------------------------------------------------------------------------
(* The reader *)

\* The reader task ends, and with it the connection of the client.
Dies(k) ==
    [k EXCEPT !.connected = FALSE,
              !.channel = IF @ = NoChannel THEN @ ELSE Discard(@),
              !.closes = Append(@, "server_disconnect")]

\* _fail_pending: only where the reader catches the error it ends with.
FailPending(k) ==
    [k EXCEPT !.pending = [by \in DOMAIN @ |-> IF @[by] = "sent" THEN "error" ELSE @[by]]]

\* A response.  Of a request that timed out an error is ignored, one that has the
\* type of an event is read as an event whose fields are missing, and any other
\* one is unknown.
ReadAnswer(k, f) ==
    IF ~f.late THEN [k EXCEPT !.pending[f.by] = f.result]
    ELSE IF f.result = "error" THEN k
    ELSE IF f.to \in {"proof", "data", "close"} THEN Dies(k)
    ELSE FailPending(Dies(k))

\* _handle_session_data
ReadData(k, f) ==
    IF k.pair # 0 /\ f.session # k.pair THEN FailPending(Dies(k))
    ELSE IF k.channel = NoChannel THEN [k EXCEPT !.buffered = Append(@, f)]
    ELSE IF ~Usable(k.channel) THEN Dies(k)
    ELSE Decrypted(k, f)

\* _handle_session_close; wait_timeout carries no pair ID.
CloseAppliesToOthers(k, p) ==
    \/ p = 0
    \/ k.pair # 0 /\ p # k.pair
    \/ k.pair = 0 /\ k.role # Nobody

CloseApplies(k, p) ==
    \/ p = 0
    \/ k.pair # 0 /\ p = k.pair
    \/ k.pair = 0 /\ k.role # Nobody

ReadClose(k, p) ==
    IF CloseApplies(k, p)
    THEN DiscardState([k EXCEPT !.closes = Append(@, "closed")])
    ELSE k

Read(c) ==
    LET k == client[c]
        f == Head(down[c])
    IN  /\ k.connected /\ down[c] # <<>>
        /\ Update(c, CASE f.type = "answer" -> ReadAnswer(k, f)
                       [] f.type = "pair" -> [k EXCEPT !.pairs = Append(@, f)]
                       [] f.type = "proof" -> [k EXCEPT !.proofs = Append(@, f)]
                       [] f.type = "data" -> ReadData(k, f.frame)
                       [] f.type = "close" -> ReadClose(k, f.pair)
                       [] f.type = "eof" -> Dies(k))
        /\ down' = [down EXCEPT ![c] = IF client'[c].connected THEN Tail(@) ELSE <<>>]
        /\ UNCHANGED <<up, relayVars, faultVars>>

\* A client whose connection has ended is closed and dropped, and so is that of an
\* application that ends by an error.
HangUp(c) ==
    /\ client[c].ui = "crashed" \/ (client[c].ui = "hub" /\ ~client[c].connected)
    /\ Update(c, [NewClient EXCEPT !.connected = FALSE, !.ui = "offline"])
    /\ up' = IF c \in served THEN [up EXCEPT ![c] = Sent(@, <<Eof>>)] ELSE up
    /\ down' = [down EXCEPT ![c] = <<>>]
    /\ UNCHANGED <<relayVars, faultVars>>

\* The network loses a connection, and all or none of the frames in it each way.
ConnectionLost(c) ==
    /\ client[c].connected /\ c \in served /\ ~Ended(up[c]) /\ ~Ended(down[c])
    /\ Faulty
    /\ \E n \in {0, Len(up[c])} : up' = [up EXCEPT ![c] = Append(SubSeq(@, 1, n), Eof)]
    /\ \E n \in {0, Len(down[c])} : down' = [down EXCEPT ![c] = Append(SubSeq(@, 1, n), Eof)]
    /\ UNCHANGED <<client, relayVars, damaged>>

\* A frame for the client is damaged on its way.
FrameDamaged(c) ==
    /\ Faulty
    /\ damaged' = TRUE
    /\ down[c] # <<>> /\ Head(down[c]).type = "data"
    /\ down' = [down EXCEPT ![c][1].frame.event = Garbage]
    /\ UNCHANGED <<client, up, relayVars>>

-----------------------------------------------------------------------------
(* The relay *)

Members(p) == {route[p].creator, route[p].joiner} \ {Nobody}
RoutesOf(c) == {p \in Session : c \in Members(p)}
Paired(c) == RoutesOf(c) # {}

\* The frames that reach each client's queue.
Deliver(frames) ==
    down' = [d \in Client |-> IF client[d].connected THEN Sent(down[d], frames[d]) ELSE <<>>]

Only(c, f) == [d \in Client |-> IF d = c THEN f ELSE <<>>]

ToPeer(c, p, f) == [d \in Client |-> IF d \in Members(p) \ {c} THEN f ELSE <<>>]

Both(f, g) == [d \in Client |-> f[d] \o g[d]]

Handles(c, type) == c \in served /\ up[c] # <<>> /\ Head(up[c]).type = type

Taken(c, type) == Handles(c, type) /\ up' = [up EXCEPT ![c] = Tail(@)]

Reply(c, result) == Only(c, <<Answer(Head(up[c]), result)>>)

\* _close_route, told to the other member.
PeersClosed(c) ==
    [d \in Client |->
        IF d # c /\ RoutesOf(d) \cap RoutesOf(c) # {}
        THEN <<CloseFrame(CHOOSE p \in RoutesOf(c) : TRUE)>> ELSE <<>>]

WithoutRoutes(c) == [p \in Session |-> IF p \in RoutesOf(c) THEN NoRoute ELSE route[p]]

\* run() leaves its loop: _connection_closed.
Ends(c, frames) ==
    /\ served' = served \ {c}
    /\ up' = [up EXCEPT ![c] = <<>>]
    /\ room' = IF room = c THEN Nobody ELSE room
    /\ route' = WithoutRoutes(c)
    /\ Deliver(Both(frames, PeersClosed(c)))
    /\ UNCHANGED <<client, made, faultVars>>

\* The room of _cleanup_sessions: one that expired is dropped, and its creator is
\* told nothing.
Kept == {room, Nobody}

HandleWait(c) ==
    /\ Taken(c, "wait")
    /\ \E kept \in Kept :
          LET free == kept = Nobody /\ \A p \in Session : route[p] = NoRoute
          IN  /\ room' = IF free THEN c ELSE kept
              /\ Deliver(Reply(c, IF free THEN "ok" ELSE "no"))
    /\ UNCHANGED <<client, served, route, made, faultVars>>

HandleCancel(c) ==
    /\ Taken(c, "cancel")
    /\ room' = IF room = c THEN Nobody ELSE room
    /\ Deliver(Reply(c, IF room = c THEN "ok" ELSE "no"))
    /\ UNCHANGED <<client, served, route, made, faultVars>>

HandleJoinRefused(c) ==
    /\ Taken(c, "join")
    /\ \E kept \in Kept :
          /\ kept \in {Nobody, c} \/ Paired(c) \/ made + 1 \notin Session
          /\ room' = kept
    /\ Deliver(Reply(c, "no"))
    /\ UNCHANGED <<client, served, route, made, faultVars>>

HandleJoin(c) ==
    LET p == made + 1
    IN  /\ Taken(c, "join")
        /\ room \notin {Nobody, c} /\ ~Paired(c) /\ p \in Session
        /\ made' = p
        /\ room' = Nobody
        /\ route' = [route EXCEPT ![p] = [creator |-> room, joiner |-> c, proved |-> {}]]
        /\ Deliver([d \in Client |->
              IF d = c THEN <<Answer(Head(up[c]), "ok"),
                              [type |-> "pair", pair |-> p, role |-> "joiner"]>>
              ELSE IF d = room THEN <<[type |-> "pair", pair |-> p, role |-> "creator"]>>
              ELSE <<>>])
        /\ UNCHANGED <<client, served, faultVars>>

HandleProof(c) ==
    LET p == Head(up[c]).pair
    IN  /\ Taken(c, "proof")
        /\ c \in Members(p)
        /\ route' = [route EXCEPT ![p].proved = @ \cup {c}]
        /\ Deliver(Both(ToPeer(c, p, <<[type |-> "proof", pair |-> p]>>), Reply(c, "ok")))
        /\ UNCHANGED <<client, served, room, made, faultVars>>

HandleData(c) ==
    LET p == Head(up[c]).pair
    IN  /\ Taken(c, "data")
        /\ c \in Members(p) /\ route[p].proved = Members(p)
        /\ Deliver(Both(ToPeer(c, p, <<[type |-> "data", frame |-> Head(up[c]).frame]>>),
                        Reply(c, "ok")))
        /\ UNCHANGED <<client, served, room, route, made, faultVars>>

HandleClose(c) ==
    LET p == Head(up[c]).pair
    IN  /\ Taken(c, "close")
        /\ c \in Members(p)
        /\ route' = [route EXCEPT ![p] = NoRoute]
        /\ Deliver(Both(Reply(c, "ok"), PeersClosed(c)))
        /\ UNCHANGED <<client, served, room, made, faultVars>>

\* A request about a pair that is gone ends the connection; session_close is
\* answered before it is refused.
HandleRefused(c) ==
    /\ Handles(c, "proof") \/ Handles(c, "data") \/ Handles(c, "close")
    /\ LET q == Head(up[c])
       IN  /\ \/ c \notin Members(q.pair)
              \/ q.type = "data" /\ route[q.pair].proved # Members(q.pair)
           /\ Ends(c, Only(c, (IF q.type = "close" THEN <<Answer(q, "ok")>>
                               ELSE <<Answer(q, "error")>>) \o <<Eof>>))

HandleEof(c) ==
    /\ Handles(c, "eof")
    /\ Ends(c, Only(c, <<>>))

RelayStep(c) ==
    \/ HandleWait(c) \/ HandleCancel(c) \/ HandleJoinRefused(c) \/ HandleJoin(c)
    \/ HandleProof(c) \/ HandleData(c) \/ HandleClose(c)
    \/ HandleRefused(c) \/ HandleEof(c)

-----------------------------------------------------------------------------
(* Timers.  e is 1 when the timer fires although the answer is coming.     *)

Counts(coming, e) ==
    /\ e = IF coming THEN 1 ELSE 0
    /\ IF coming THEN Faulty ELSE UNCHANGED faults
    /\ UNCHANGED damaged

\* A client that may still send its proof or its identity for a pair.
Engaged(d, p) ==
    /\ d \in served
    /\ \/ client[d].taskPair = p /\ client[d].task \notin {"none", "failed"}
       \/ \E i \in 1..Len(up[d]) : up[d][i] # Eof /\ up[d][i].pair = p
       \/ /\ client[d].connected /\ client[d].role # Nobody
          /\ client[d].ui \notin {"hub", "crashed"} /\ client[d].task # "failed"
          /\ \E i \in 1..Len(down[d] \o client[d].pairs) :
                (down[d] \o client[d].pairs)[i].type = "pair"

Coming(c) ==
    client[c].connected /\ (down[c] # <<>> \/ \E d \in Client \ {c} : Engaged(d, client[c].taskPair))

RequestTimesOut(c, by, e) ==
    /\ client[c].pending[by] = "sent"
    /\ Counts(client[c].connected /\ (InTransit(down[c], by) \/ (c \in served /\ InTransit(up[c], by))), e)
    /\ Update(c, [client[c] EXCEPT !.pending[by] = "error"])
    /\ up' = [up EXCEPT ![c] = Orphaned(@, by)]
    /\ down' = [down EXCEPT ![c] = Orphaned(@, by)]
    /\ UNCHANGED relayVars

\* complete_session gives up waiting for the pair or the proof.
SetupTimesOutPaired(c, e) ==
    /\ client[c].task = "proof" /\ client[c].proofs = <<>>
    /\ Counts(Coming(c), e)
    /\ Update(c, Fails(DiscardState(client[c])))
    /\ UNCHANGED <<up, down, relayVars>>

SetupTimesOut(c, e) ==
    LET k == client[c]
    IN  /\ \/ /\ k.task = "pair" /\ k.pairs = <<>>
              /\ Counts(k.connected /\ (down[c] # <<>> \/ room = c), e)
           \/ /\ k.task = "proof" /\ k.proofs = <<>>
              /\ Counts(Coming(c), e)
        /\ Update(c, Fails(DiscardState(k)))
        /\ UNCHANGED <<up, down, relayVars>>

\* _wait_for_peer_identity gives up.
IdentityTimesOut(c, e) ==
    /\ client[c].task = "peer" /\ ~client[c].identified
    /\ Counts(Coming(c), e)
    /\ Abort(c, client[c])
    /\ UNCHANGED <<down, relayVars>>

\* _expire_sessions: a waiting room, or an unfinished handshake.
RoomExpires ==
    /\ room # Nobody
    /\ room' = Nobody
    /\ Deliver(Only(room, <<CloseFrame(0)>>))
    /\ UNCHANGED <<client, up, served, route, made, faultVars>>

RouteExpires(p, e) ==
    /\ route[p] # NoRoute /\ route[p].proved # Members(p)
    /\ Counts(\E d \in Members(p) \ route[p].proved : Engaged(d, p), e)
    /\ route' = [route EXCEPT ![p] = NoRoute]
    /\ Deliver([d \in Client |-> IF d \in Members(p) THEN <<CloseFrame(p)>> ELSE <<>>])
    /\ UNCHANGED <<client, up, served, room, made>>

ClientTimer(c, e) ==
    \/ \E by \in {"ui", "task", "failure"} : RequestTimesOut(c, by, e)
    \/ SetupTimesOut(c, e)
    \/ IdentityTimesOut(c, e)

Timer(e) ==
    \/ \E c \in Client : ClientTimer(c, e)
    \/ \E p \in Session : RouteExpires(p, e)

-----------------------------------------------------------------------------
(* Specification *)

Init ==
    /\ client = [c \in Client |-> NewClient]
    /\ up = [c \in Client |-> <<>>] /\ down = [c \in Client |-> <<>>]
    /\ served = Client
    /\ room = Nobody
    /\ route = [p \in Session |-> NoRoute]
    /\ made = 0
    /\ faults = 0 /\ damaged = FALSE

ClientStep(c) == Read(c) \/ TaskStep(c) \/ ScreenStep(c) \/ HangUp(c)

Next ==
    \/ \E c \in Client :
          ClientStep(c) \/ RelayStep(c) \/ UserStep(c)
          \/ ConnectionLost(c) \/ FrameDamaged(c)
    \/ RoomExpires
    \/ \E e \in {0, 1} : Timer(e)

Spec == Init /\ [][Next]_vars

\* Tasks, handlers and timers run; users need never act.
Fairness ==
    /\ \A c \in Client :
          /\ WF_vars(Read(c)) /\ WF_vars(TaskStep(c)) /\ WF_vars(ScreenStep(c))
          /\ WF_vars(HangUp(c)) /\ WF_vars(RelayStep(c)) /\ WF_vars(ClientTimer(c, 0))
    /\ \A p \in Session : WF_vars(RouteExpires(p, 0))
    /\ WF_vars(RoomExpires)

FairSpec == Spec /\ Fairness

-----------------------------------------------------------------------------
(* Correctness *)

Task == {"none", "pair", "proving", "proof", "naming", "peer", "aborting", "done", "failed"}
Screen == {"hub", "starting", "waiting", "cancelling", "settling", "joining", "connecting",
           "comm", "writing", "confirming", "saying bye", "closing", "crashed", "offline"}

\* The session state of every client and the relay's tables keep their types,
\* and what belongs together is set together: no pair or channel without the
\* role it was made in.
TypeOK ==
    /\ \A c \in Client : LET k == client[c] IN
          /\ k.ui \in Screen /\ k.task \in Task
          /\ k.role \in Role \cup {Nobody}
          /\ {k.pair, k.taskPair, k.comm, k.failing} \subseteq Session \cup {0}
          /\ k.role = Nobody => k.pair = 0 /\ ~k.participant /\ k.channel = NoChannel
          /\ k.channel # NoChannel => k.channel.session = k.pair /\ k.channel.role = k.role
          /\ \A f \in ToSet(k.buffered) \cup ToSet(k.events) \cup ToSet(k.shown) : f \in Frame
          /\ \A by \in DOMAIN k.pending : k.pending[by] \in {"none", "sent", "ok", "no", "error"}
    /\ served \subseteq Client
    /\ room \in Client \cup {Nobody}
    /\ \A p \in Session : route[p].proved \subseteq Members(p)
    /\ made \in Session \cup {0} /\ faults \in 0..MaxFaults /\ damaged \in BOOLEAN

\* The texts a comm screen shows are the peer's texts of this comm, in the order
\* they were written and without a gap.
ShownInOrder ==
    \A c \in Client : \A i \in 1..Len(client[c].shown) :
        client[c].shown[i].session = client[c].comm /\ client[c].shown[i].counter = i

\* A comm of two clients of this program fails its integrity check only if a
\* frame was damaged: no crossing, late or repeated frame is taken for one.
NoFalseAlarms ==
    \A c \in Client : "integrity_failure" \in ToSet(client[c].closes) => damaged

\* A connected client never keeps a usable channel of a pair the relay has
\* closed, unless the word of it is on its way.
NoZombieComms ==
    \A c \in Client : LET k == client[c] IN
        k.connected /\ k.channel # NoChannel /\ Usable(k.channel) =>
            \/ c \in Members(k.channel.session)
            \/ CloseFrame(k.channel.session) \in ToSet(down[c])
            \/ Eof \in ToSet(down[c])
            \/ k.task = "aborting"

\* A member of a finished route leaves its comm, unless it is asked to confirm
\* or the application has crashed.
EndedCommsClose ==
    \A c \in Client : \A p \in Session :
        client[c].comm = p /\ route[p] = NoRoute
            ~> client[c].comm # p \/ client[c].ui \in {"confirming", "crashed"}

\* Every setup ends, in a comm or in the Hub.
SetupsEnd ==
    \A c \in Client :
        client[c].ui \in {"starting", "joining", "waiting", "cancelling", "settling", "connecting"}
            ~> InComm(client[c]) \/ client[c].ui = "hub"

\* A user who is back in the Hub will be able to open another comm, or is
\* disconnected: whatever became of the last one, its state is discarded.
HubIsFree ==
    \A c \in Client :
        client[c].ui = "hub" ~> Ready(client[c]) \/ ~client[c].connected

\* Using and ending comms disconnects nobody: the specification has the user
\* stay connected to the Grid while a comm is open and when it closes.
UsersStayConnected == \A c \in Client : client[c].connected

=============================================================================

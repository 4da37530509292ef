------------------------- MODULE SessionRelayProofs -------------------------
(***************************************************************************)
(* Proofs about the relay's tables, for any number of connections, display *)
(* tokens, rooms, pairs and sessions.                                      *)
(*                                                                         *)
(* SessionRelay speaks of open connections; that is not inductive, because *)
(* a connection is closed, has left its loop and is forgotten in different *)
(* steps.  The invariant here (RelayInv) holds until _connection_closed is *)
(* due (status ending): up to then everything a connection refers to       *)
(* refers back to it, and afterwards only what is still there does.        *)
(***************************************************************************)
EXTENDS SessionRelay, TLAPS

States == {"none", "open", "doomed", "closed", "ending"}

News == {Nothing, Waiting} \cup PairId

WireType == [status : [Conn -> States], told : [Conn -> News], ok : BOOLEAN]

\* w is the wire after some sends of one handler: connections may have been
\* doomed, nothing else happened to them.
Sent(w) ==
    /\ w \in WireType
    /\ \A c \in Conn : w.status[c] # status[c] => status[c] = "open" /\ w.status[c] = "doomed"

\* What a handler or a task may do to the connections: none appears or
\* disappears, and one that has left its loop stays so.
Lives ==
    \A c \in Conn :
        /\ status'[c] = "none" <=> status[c] = "none"
        /\ status'[c] # "ending" => status[c] # "ending"

WireTypeOK ==
    /\ status \in [Conn -> States]
    /\ full \subseteq Conn
    /\ told \in [Conn -> News]

\* The tables are typed.
RouteRecord == [room : RoomId, creator : Conn, joiner : Conn,
                proved : SUBSET Roles, session : SessionId \cup {None}]

DisplayTypeOK ==
    /\ display \in [Conn -> Token \cup {None}]
    /\ holder \in [Token -> Conn \cup {None}]
    /\ leased \subseteq Token

RoomTypeOK ==
    /\ waitingRoom \in [Conn -> RoomId \cup {None}]
    /\ creatorOf \in [RoomId -> Conn \cup {None}]
    /\ dropped \subseteq Conn

RouteTypeOK ==
    /\ pairId \in [Conn -> PairId \cup {None}]
    /\ route \in [PairId -> RouteRecord \cup {NoRoute}]

\* TypeOK by parts.
TypeParts ==
    /\ WireTypeOK
    /\ DisplayTypeOK
    /\ RoomTypeOK
    /\ RouteTypeOK
    /\ overdue \subseteq Token \cup RoomId \cup PairId
    /\ maintaining \in BOOLEAN
    /\ rotating \in BOOLEAN

-----------------------------------------------------------------------------

\* The type invariant of the module, taken apart.
LEMMA TypeIsParts == TypeOK <=> TypeParts
  BY DEF TypeOK, TypeParts, WireTypeOK, DisplayTypeOK, RoomTypeOK, RouteTypeOK,
         RouteRecord, States, News

\* A handler starts with the connections as they are.
LEMMA WireSent == ASSUME WireTypeOK PROVE Sent(Wire)
  BY DEF WireTypeOK, Sent, Wire, WireType

\* Sending one more frame only dooms its receiver.
LEMMA SendSent ==
    ASSUME NEW w, Sent(w), NEW c \in Conn, NEW news \in News
    PROVE  Sent(Send(w, c, news))
  <1>1. CASE ~w.ok
    BY <1>1 DEF Send
  <1>2. CASE w.ok /\ Accepts(w, c)
    <2> DEFINE v == [w EXCEPT !.told[c] = news]
    <2>1. v \in WireType /\ v.status = w.status
      BY DEF Sent, WireType
    <2> QED
      BY <1>2, <2>1 DEF Send, Sent
  <1>3. CASE w.ok /\ ~Accepts(w, c)
    <2> DEFINE v == [w EXCEPT !.status[c] = IF @ = "open" THEN "doomed" ELSE @, !.ok = FALSE]
    <2>1. v \in WireType
      BY DEF Sent, WireType, States
    <2>2. \A d \in Conn : v.status[d] # w.status[d] => w.status[d] = "open" /\ v.status[d] = "doomed"
      BY DEF Sent, WireType
    <2>3. \A d \in Conn : v.status[d] # status[d] => status[d] = "open" /\ v.status[d] = "doomed"
      BY <2>2 DEF Sent
    <2> QED
      BY <1>3, <2>1, <2>3 DEF Send, Sent
  <1> QED
    BY <1>1, <1>2, <1>3

\* The same when an exception is caught.
LEMMA TrySendSent ==
    ASSUME NEW w, Sent(w), NEW c \in Conn, NEW news \in News
    PROVE  Sent(TrySend(w, c, news))
  <1>1. Sent(Send(w, c, news))
    BY SendSent
  <1> DEFINE v == Send(w, c, news)
  <1>2. v \in WireType /\ w.ok \in BOOLEAN
    BY <1>1 DEF Sent, WireType
  <1>3. /\ [v EXCEPT !.ok = w.ok] \in WireType
        /\ [v EXCEPT !.ok = w.ok].status = v.status
    BY <1>2 DEF WireType
  <1> QED
    BY <1>1, <1>3 DEF TrySend, Sent

\* However a handler returns, its connection is not gone, and the others are
\* where they were or doomed.
LEMMA ReturnLives ==
    ASSUME WireTypeOK, NEW c \in Conn, Handles(c), NEW w, Sent(w), Return(c, w)
    PROVE  WireTypeOK' /\ Lives
  <1>1. /\ w.status \in [Conn -> States]
        /\ w.told \in [Conn -> News]
    BY DEF Sent, WireType
  <1>2. status' = w.status \/ status' = [w.status EXCEPT ![c] = "ending"]
    BY DEF Return
  <1>3. WireTypeOK'
    BY <1>1, <1>2 DEF WireTypeOK, Return, States
  <1>4. status[c] \in {"open", "doomed", "closed"}
    BY DEF Handles
  <1>5. ASSUME NEW d \in Conn
        PROVE  /\ status'[d] = "none" <=> status[d] = "none"
               /\ status'[d] # "ending" => status[d] # "ending"
    <2>1. w.status[d] # status[d] => status[d] = "open" /\ w.status[d] = "doomed"
      BY DEF Sent
    <2>2. CASE d = c
      BY <1>1, <1>2, <1>4, <2>1, <2>2
    <2>3. CASE d # c
      BY <1>1, <1>2, <2>1, <2>3
    <2> QED
      BY <2>2, <2>3
  <1> QED
    BY <1>3, <1>5 DEF Lives

\* The same for a frame that ends the connection of its sender.
LEMMA RefuseLives ==
    ASSUME WireTypeOK, NEW c \in Conn, Handles(c), NEW w, Sent(w), Refuse(c, w)
    PROVE  WireTypeOK' /\ Lives
  <1> DEFINE v == TrySend(w, c, w.told[c])
             u == [v EXCEPT !.ok = FALSE]
  <1>1. w.told[c] \in News
    BY DEF Sent, WireType
  <1>2. Sent(v)
    BY <1>1, TrySendSent
  <1>3. u \in WireType /\ u.status = v.status
    BY <1>2 DEF Sent, WireType
  <1>4. Sent(u)
    BY <1>2, <1>3 DEF Sent
  <1>5. Return(c, u)
    BY DEF Refuse
  <1> QED
    BY <1>4, <1>5, ReturnLives

-----------------------------------------------------------------------------
(* The handlers and tasks that leave a connection where it is: all but     *)
(* Accept and ConnectionClosed.                                            *)

\* The members of a route are connections, and each has the other as peer.
LEMMA MembersOfRoute ==
    ASSUME RouteTypeOK, NEW p \in PairId
    PROVE  /\ Members(p) \subseteq Conn
           /\ \A c \in Members(p) : Peer(p, c) \in Members(p) /\ route[p] \in RouteRecord
           /\ route[p] \in RouteRecord =>
                route[p].creator \in Members(p) /\ route[p].joiner \in Members(p)
  <1>1. route[p] = NoRoute \/ route[p] \in RouteRecord
    BY DEF RouteTypeOK
  <1>2. ASSUME route[p] \in RouteRecord PROVE route[p] # NoRoute
    BY <1>2, RelayAssumption DEF RouteRecord, NoRoute
  <1>3. route[p] \in RouteRecord => route[p].creator \in Conn /\ route[p].joiner \in Conn
    BY DEF RouteRecord
  <1> QED
    BY <1>1, <1>2, <1>3 DEF Members, Peer

\* Display and room requests, and a close that could not be answered, end at
\* most their own connection.
LEMMA RoomRequestLives ==
    ASSUME TypeParts, NEW c \in Conn, RoomRequest(c) \/ CloseUnanswered(c)
    PROVE  WireTypeOK' /\ Lives
  <1>1. WireTypeOK /\ told[c] \in News /\ Waiting \in News /\ Nothing \in News
    BY DEF TypeParts, WireTypeOK, News
  <1>2. Sent(Wire)
    BY <1>1, WireSent
  <1>3. \A n \in News : Sent(Send(Wire, c, n))
    BY <1>2, SendSent
  <1>4. ASSUME NEW n \in News, Handles(c), Return(c, Send(Wire, c, n))
        PROVE  WireTypeOK' /\ Lives
    BY <1>1, <1>3, <1>4, ReturnLives
  <1>5. ASSUME NEW t \in Token, ReserveDisplay(c, t) PROVE WireTypeOK' /\ Lives
    <2>1. Handles(c) /\ Return(c, Send(Wire, c, told[c]))
      BY <1>5 DEF ReserveDisplay
    <2> QED
      BY <2>1, <1>1, <1>4
  <1>6. CASE SessionCancel(c)
    <2>1. /\ Handles(c)
          /\ \/ Return(c, Send(Wire, c, Nothing))
             \/ Return(c, Send(Wire, c, told[c]))
      BY <1>6 DEF SessionCancel, Ready
    <2> QED
      BY <2>1, <1>1, <1>4
  <1>7. CASE JoinLimited(c)
    <2>1. Handles(c) /\ Return(c, Send(Wire, c, told[c]))
      BY <1>7 DEF JoinLimited, Ready
    <2> QED
      BY <2>1, <1>1, <1>4
  <1>8. ASSUME NEW r \in RoomId, SessionWait(c, r) PROVE WireTypeOK' /\ Lives
    <2>1. /\ Handles(c)
          /\ \/ Return(c, Send(Wire, c, Waiting))
             \/ Return(c, Send(Wire, c, told[c]))
      BY <1>8 DEF SessionWait, Ready
    <2> QED
      BY <2>1, <1>1, <1>4
  <1>9. ASSUME NEW r \in RoomId, JoinRefused(c, r) PROVE WireTypeOK' /\ Lives
    <2>1. Handles(c) /\ Return(c, Send(Wire, c, told[c]))
      BY <1>9 DEF JoinRefused, Ready
    <2> QED
      BY <2>1, <1>1, <1>4
  <1>10. ASSUME NEW r \in RoomId, NEW p \in PairId, JoinPairs(c, r, p)
         PROVE  WireTypeOK' /\ Lives
    <2> DEFINE d == creatorOf[r]
    <2> DEFINE w == Send(Send(Wire, c, p), d, p)
    <2>1. /\ Handles(c)
          /\ Return(c, Send(w, c, p)) \/ Return(c, [w EXCEPT !.ok = FALSE])
      BY <1>10 DEF JoinPairs, Ready
    <2>2. d \in Conn /\ p \in News
      BY <1>10 DEF JoinPairs, TypeParts, RoomTypeOK, News
    <2>3. Sent(Send(Wire, c, p))
      BY <1>3, <2>2
    <2>4. Sent(w)
      BY <2>2, <2>3, SendSent
    <2> HIDE DEF w
    <2>5. Sent(Send(w, c, p))
      BY <2>2, <2>4, SendSent
    <2>6. Sent([w EXCEPT !.ok = FALSE])
      <3>1. /\ [w EXCEPT !.ok = FALSE] \in WireType
            /\ [w EXCEPT !.ok = FALSE].status = w.status
        BY <2>4 DEF Sent, WireType
      <3> QED
        BY <2>4, <3>1 DEF Sent
    <2> QED
      BY <1>1, <2>1, <2>5, <2>6, ReturnLives
  <1>11. CASE CloseUnanswered(c)
    <2>1. Handles(c) /\ Return(c, Send(Wire, c, Nothing))
      BY <1>11 DEF CloseUnanswered, Ready
    <2> QED
      BY <2>1, <1>1, <1>4
  <1> QED
    BY <1>5, <1>6, <1>7, <1>8, <1>9, <1>10, <1>11 DEF RoomRequest

\* So do the requests about a pair.
LEMMA PairRequestLives ==
    ASSUME TypeParts, NEW c \in Conn, NEW p \in PairId, PairRequest(c, p)
    PROVE  WireTypeOK' /\ Lives
  <1>1. WireTypeOK /\ Nothing \in News /\ \A d \in Conn : told[d] \in News
    BY DEF TypeParts, WireTypeOK, News
  <1>2. Sent(Wire)
    BY <1>1, WireSent
  <1>3. \A d \in Conn : \A n \in News : Sent(Send(Wire, d, n))
    BY <1>2, SendSent
  <1>4. ASSUME c \in Members(p) PROVE Peer(p, c) \in Conn
    BY <1>4, MembersOfRoute DEF TypeParts
  <1>5. CASE NotMember(c, p)
    BY <1>1, <1>2, <1>5, RefuseLives DEF NotMember, Ready
  <1>6. CASE ProofLate(c, p)
    <2> DEFINE d == route[p].creator
               e == route[p].joiner
    <2>1. d \in Conn /\ e \in Conn
      BY <1>6, MembersOfRoute DEF ProofLate, TypeParts
    <2>2. Sent(TrySend(Wire, d, Nothing))
      BY <1>1, <1>2, <2>1, TrySendSent
    <2>3. Sent(NotifyClosed(Wire, p))
      BY <1>1, <2>1, <2>2, TrySendSent DEF NotifyClosed
    <2>4. Handles(c) /\ Refuse(c, NotifyClosed(Wire, p))
      BY <1>6 DEF ProofLate, Ready
    <2> QED
      BY <1>1, <2>3, <2>4, RefuseLives
  <1>7. CASE ProofRepeated(c, p)
    BY <1>1, <1>2, <1>7, RefuseLives DEF ProofRepeated, Ready
  <1>8. ASSUME c \in Members(p), Handles(c),
               Return(c, Send(Send(Wire, Peer(p, c), told[Peer(p, c)]), c, told[c]))
        PROVE  WireTypeOK' /\ Lives
    <2>1. Peer(p, c) \in Conn
      BY <1>4, <1>8
    <2>2. Sent(Send(Wire, Peer(p, c), told[Peer(p, c)]))
      BY <1>1, <1>3, <2>1
    <2>3. Sent(Send(Send(Wire, Peer(p, c), told[Peer(p, c)]), c, told[c]))
      BY <1>1, <2>2, SendSent
    <2> QED
      BY <1>1, <1>8, <2>3, ReturnLives
  <1>9. CASE Proof(c, p)
    BY <1>8, <1>9 DEF Proof, Ready
  <1>10. CASE CloseWithoutRoute(c, p)
    <2>1. Handles(c) /\ Refuse(c, Send(Wire, c, told[c]))
      BY <1>10 DEF CloseWithoutRoute, Ready
    <2> QED
      BY <1>1, <1>3, <2>1, RefuseLives
  <1>11. CASE SessionClose(c, p)
    <2>1. /\ Handles(c) /\ c \in Members(p)
          /\ Return(c, TrySend(Send(Wire, c, Nothing), Peer(p, c), Nothing))
      BY <1>11 DEF SessionClose, Ready, NotifyPeerClosed
    <2>2. Sent(TrySend(Send(Wire, c, Nothing), Peer(p, c), Nothing))
      BY <1>1, <1>3, <1>4, <2>1, TrySendSent
    <2> QED
      BY <1>1, <2>1, <2>2, ReturnLives
  <1>12. ASSUME NEW s \in SessionId, NEW dir \in Roles, DataRefused(c, p, s, dir)
         PROVE  WireTypeOK' /\ Lives
    BY <1>1, <1>2, <1>12, RefuseLives DEF DataRefused, Ready
  <1>13. ASSUME NEW s \in SessionId, NEW dir \in Roles, Data(c, p, s, dir)
         PROVE  WireTypeOK' /\ Lives
    BY <1>8, <1>13 DEF Data, Ready
  <1> QED
    BY <1>5, <1>6, <1>7, <1>9, <1>10, <1>11, <1>12, <1>13 DEF PairRequest

\* The event loop, time, maintenance and rotation.
OtherStep ==
    \/ \E c \in Conn : OtherFrame(c) \/ WriterSends(c) \/ CloseTask(c) \/ LoopEnds(c)
    \/ DeadlinePasses
    \/ Maintenance
    \/ MaintenanceDies
    \/ RotationBegins
    \/ RotationEnds

\* Maintenance only dooms those whose queue is full.
LEMMA TellLives ==
    ASSUME TypeParts, NEW S, Tell(S)
    PROVE  WireTypeOK' /\ Lives
  <1>1. status \in [Conn -> States] /\ told \in [Conn -> News] /\ full \subseteq Conn
    BY DEF TypeParts, WireTypeOK
  <1>2. status' \in [Conn -> States]
    BY <1>1 DEF Tell, States
  <1>3. told' \in [Conn -> News]
    BY <1>1 DEF Tell, News
  <1>4. \A c \in Conn : status'[c] = status[c] \/ (status[c] = "open" /\ status'[c] = "doomed")
    BY DEF Tell
  <1>5. Lives
    BY <1>4 DEF Lives
  <1> QED
    BY <1>1, <1>2, <1>3, <1>5 DEF WireTypeOK, Tell

\* No task makes a connection appear or disappear.
LEMMA OtherStepLives ==
    ASSUME TypeParts, OtherStep
    PROVE  WireTypeOK' /\ Lives
  <1>1. status \in [Conn -> States] /\ told \in [Conn -> News] /\ full \subseteq Conn
    BY DEF TypeParts, WireTypeOK
  <1>2. ASSUME NEW c \in Conn, OtherFrame(c) PROVE WireTypeOK' /\ Lives
    <2>1. Sent(TrySend(Wire, c, told[c]))
      BY <1>1, WireSent, TrySendSent DEF WireTypeOK
    <2>2. status' = TrySend(Wire, c, told[c]).status
      BY <1>2 DEF OtherFrame
    <2>3. status' \in [Conn -> States]
      BY <2>1, <2>2 DEF Sent, WireType
    <2>4. \A d \in Conn : status'[d] # status[d] => status[d] = "open" /\ status'[d] = "doomed"
      BY <2>1, <2>2 DEF Sent
    <2>5. Lives
      BY <2>4 DEF Lives
    <2> QED
      BY <1>1, <1>2, <2>3, <2>5 DEF OtherFrame, WireTypeOK
  <1>3. ASSUME NEW c \in Conn, WriterSends(c) PROVE WireTypeOK' /\ Lives
    BY <1>1, <1>3 DEF WriterSends, WireTypeOK, Lives
  <1>4. ASSUME NEW c \in Conn, CloseTask(c) PROVE WireTypeOK' /\ Lives
    BY <1>1, <1>4 DEF CloseTask, WireTypeOK, Lives, States
  <1>5. ASSUME NEW c \in Conn, LoopEnds(c) PROVE WireTypeOK' /\ Lives
    BY <1>1, <1>5 DEF LoopEnds, Handles, WireTypeOK, Lives, States
  <1>6. CASE DeadlinePasses
    BY <1>1, <1>6 DEF DeadlinePasses, wireVars, WireTypeOK, Lives
  <1>7. CASE Maintenance
    BY <1>7, TellLives DEF Maintenance
  <1>8. CASE MaintenanceDies
    BY <1>8, TellLives DEF MaintenanceDies
  <1>9. CASE RotationBegins
    <2>1. status' \in [Conn -> States]
      BY <1>1, <1>9 DEF RotationBegins, States
    <2>2. \A c \in Conn : status'[c] = IF status[c] \in {"open", "doomed"} THEN "closed" ELSE status[c]
      BY <1>9 DEF RotationBegins
    <2>3. Lives
      BY <2>2 DEF Lives
    <2> QED
      BY <1>1, <1>9, <2>1, <2>3 DEF RotationBegins, WireTypeOK
  <1>10. CASE RotationEnds
    BY <1>1, <1>10 DEF RotationEnds, wireVars, WireTypeOK, Lives
  <1> QED
    BY <1>2, <1>3, <1>4, <1>5, <1>6, <1>7, <1>8, <1>9, <1>10 DEF OtherStep

-----------------------------------------------------------------------------
(* The two steps in which a connection appears and disappears. *)

\* An accepted connection was none before.
LEMMA AcceptLives ==
    ASSUME TypeParts, NEW c \in Conn, Accept(c)
    PROVE  /\ WireTypeOK'
           /\ status[c] = "none"
           /\ status' = [status EXCEPT ![c] = "open"]
  BY DEF TypeParts, WireTypeOK, Accept, States

\* _connection_closed ends its own connection and at most dooms another.
LEMMA ClosedConnectionLives ==
    ASSUME TypeParts, NEW c \in Conn, ConnectionClosed(c)
    PROVE  /\ WireTypeOK'
           /\ status[c] = "ending" /\ status'[c] = "none"
           /\ \A d \in Conn \ {c} :
                /\ status'[d] = "none" <=> status[d] = "none"
                /\ status'[d] # "ending" => status[d] # "ending"
  <1> DEFINE p == PairOf(c)
             w == IF p = None THEN Wire ELSE NotifyPeerClosed(Wire, p, c)
  <1>1. WireTypeOK /\ Sent(Wire) /\ Nothing \in News
    BY WireSent DEF TypeParts, News
  <1>2. p # None => p \in PairId /\ route[p] # NoRoute
    BY DEF PairOf, TypeParts, RouteTypeOK
  <1>3. p # None => Peer(p, c) \in Conn
    BY <1>2, MembersOfRoute DEF Peer, Members, TypeParts
  <1>4. Sent(w)
    BY <1>1, <1>3, TrySendSent DEF NotifyPeerClosed
  <1>5. /\ status[c] = "ending"
        /\ status' = [w.status EXCEPT ![c] = "none"]
        /\ told' = [w.told EXCEPT ![c] = Nothing]
        /\ full' = full
    BY DEF ConnectionClosed
  <1>6. w.status \in [Conn -> States] /\ w.told \in [Conn -> News]
    BY <1>4 DEF Sent, WireType
  <1>7. WireTypeOK'
    BY <1>1, <1>5, <1>6 DEF WireTypeOK, States
  <1>8. status'[c] = "none"
    BY <1>5, <1>6
  <1>9. ASSUME NEW d \in Conn \ {c}
        PROVE  /\ status'[d] = "none" <=> status[d] = "none"
               /\ status'[d] # "ending" => status[d] # "ending"
    <2>1. status'[d] = w.status[d]
      BY <1>5, <1>6
    <2>2. w.status[d] # status[d] => status[d] = "open" /\ w.status[d] = "doomed"
      BY <1>4 DEF Sent
    <2> QED
      BY <2>1, <2>2
  <1> QED
    BY <1>5, <1>7, <1>8, <1>9

-----------------------------------------------------------------------------
(* Display reservations: a token's holder and the connection that displays *)
(* it refer to each other, also while connections die.                     *)

DisplaysInv ==
    /\ \A c \in Conn : status[c] # "ending" /\ display[c] # None => holder[display[c]] = c
    /\ \A t \in Token : holder[t] # None => display[holder[t]] = t /\ t \notin leased

GoneHasNoDisplay == \A c \in Conn : status[c] = "none" => display[c] = None

\* The actions that leave the reservations alone, or let leases lapse.
LEMMA DisplayKept ==
    ASSUME TypeParts, DisplaysInv, GoneHasNoDisplay, Lives,
           display' = display, holder' = holder, leased' \subseteq leased
    PROVE  DisplayTypeOK' /\ DisplaysInv' /\ GoneHasNoDisplay'
  BY DEF TypeParts, DisplayTypeOK, DisplaysInv, GoneHasNoDisplay, Lives

\* reserve_display gives away only a token that nobody holds.
LEMMA DisplayReserved ==
    ASSUME TypeParts, DisplaysInv, GoneHasNoDisplay, Lives,
           NEW c \in Conn, NEW t \in Token, ReserveDisplay(c, t)
    PROVE  DisplayTypeOK' /\ DisplaysInv' /\ GoneHasNoDisplay'
  <1> DEFINE free == holder[t] = None /\ t \notin leased \ Lapsed
  <1>1. /\ Handles(c) /\ display[c] = None
        /\ leased' = leased \ Lapsed
        /\ holder' = IF free THEN [holder EXCEPT ![t] = c] ELSE holder
        /\ display' = IF free THEN [display EXCEPT ![c] = t] ELSE display
    BY DEF ReserveDisplay
  <1>2. display \in [Conn -> Token \cup {None}] /\ holder \in [Token -> Conn \cup {None}]
        /\ leased \subseteq Token
    BY DEF TypeParts, DisplayTypeOK
  <1>3. None \notin Token /\ None \notin Conn
    BY RelayAssumption
  <1>4. CASE ~free
    BY <1>1, <1>4, DisplayKept
  <1>5. CASE free
    <2>1. holder' = [holder EXCEPT ![t] = c] /\ display' = [display EXCEPT ![c] = t]
      BY <1>1, <1>5
    <2>2. DisplayTypeOK'
      BY <1>1, <1>2, <2>1 DEF DisplayTypeOK
    <2>3. GoneHasNoDisplay'
      BY <1>1, <1>2, <2>1 DEF GoneHasNoDisplay, Lives, Handles
    <2>4. ASSUME NEW d \in Conn, status'[d] # "ending", display'[d] # None
          PROVE  holder'[display'[d]] = d
      <3>1. CASE d = c
        BY <1>2, <2>1, <3>1
      <3>2. CASE d # c
        <4>1. status[d] # "ending" /\ display[d] # None /\ display'[d] = display[d]
          BY <1>2, <2>1, <2>4, <3>2 DEF Lives
        <4>2. holder[display[d]] = d /\ display[d] \in Token
          BY <1>2, <4>1 DEF DisplaysInv
        <4>3. display[d] # t
          BY <1>3, <1>5, <4>2
        <4> QED
          BY <1>2, <2>1, <4>1, <4>2, <4>3
      <3> QED
        BY <3>1, <3>2
    <2>5. ASSUME NEW u \in Token, holder'[u] # None
          PROVE  display'[holder'[u]] = u /\ u \notin leased'
      <3>1. CASE u = t
        BY <1>1, <1>2, <1>5, <2>1, <3>1
      <3>2. CASE u # t
        <4>1. holder'[u] = holder[u] /\ holder[u] \in Conn
          BY <1>2, <2>1, <2>5, <3>2
        <4>2. display[holder[u]] = u /\ u \notin leased
          BY <2>5, <4>1 DEF DisplaysInv
        <4>3. holder[u] # c
          BY <1>1, <1>3, <4>2
        <4> QED
          BY <1>1, <1>2, <2>1, <4>1, <4>2, <4>3
      <3> QED
        BY <3>1, <3>2
    <2> QED
      BY <2>2, <2>3, <2>4, <2>5 DEF DisplaysInv
  <1> QED
    BY <1>4, <1>5

\* _connection_closed turns its own reservation into a lease, no other's.
LEMMA DisplayReleased ==
    ASSUME TypeParts, DisplaysInv, GoneHasNoDisplay, NEW c \in Conn, ConnectionClosed(c)
    PROVE  DisplayTypeOK' /\ DisplaysInv' /\ GoneHasNoDisplay'
  <1>1. /\ holder' = [t \in Token |-> IF t \in Released(c) THEN None ELSE holder[t]]
        /\ leased' = leased \cup Released(c)
        /\ display' = [display EXCEPT ![c] = None]
    BY DEF ConnectionClosed
  <1>2. /\ status[c] = "ending" /\ status'[c] = "none"
        /\ \A d \in Conn \ {c} :
             /\ status'[d] = "none" <=> status[d] = "none"
             /\ status'[d] # "ending" => status[d] # "ending"
    BY ClosedConnectionLives
  <1>3. /\ display \in [Conn -> Token \cup {None}] /\ holder \in [Token -> Conn \cup {None}]
        /\ leased \subseteq Token /\ None \notin Token /\ None \notin Conn
    BY RelayAssumption DEF TypeParts, DisplayTypeOK
  <1>4. Released(c) = {t \in Token : display[c] = t /\ holder[t] = c}
    BY DEF Released
  <1>5. DisplayTypeOK'
    BY <1>1, <1>3, <1>4 DEF DisplayTypeOK
  <1>6. GoneHasNoDisplay'
    BY <1>1, <1>2, <1>3 DEF GoneHasNoDisplay
  <1>7. ASSUME NEW d \in Conn, status'[d] # "ending", display'[d] # None
        PROVE  holder'[display'[d]] = d
    <2>1. d # c /\ display'[d] = display[d] /\ display[d] \in Token /\ status[d] # "ending"
      BY <1>1, <1>2, <1>3, <1>7
    <2>2. holder[display[d]] = d
      BY <1>7, <2>1 DEF DisplaysInv
    <2> QED
      BY <1>1, <1>4, <2>1, <2>2
  <1>8. ASSUME NEW t \in Token, holder'[t] # None
        PROVE  display'[holder'[t]] = t /\ t \notin leased'
    <2>1. t \notin Released(c) /\ holder'[t] = holder[t] /\ holder[t] \in Conn
      BY <1>1, <1>3, <1>8
    <2>2. display[holder[t]] = t /\ t \notin leased
      BY <1>8, <2>1 DEF DisplaysInv
    <2>3. holder[t] # c
      BY <1>4, <2>1, <2>2
    <2> QED
      BY <1>1, <1>3, <2>1, <2>2, <2>3
  <1> QED
    BY <1>5, <1>6, <1>7, <1>8 DEF DisplaysInv

\* Every step keeps reservations and displays matched.
LEMMA DisplaysStep ==
    ASSUME TypeParts, DisplaysInv, GoneHasNoDisplay, [Next]_vars
    PROVE  DisplayTypeOK' /\ DisplaysInv' /\ GoneHasNoDisplay'
  <1>1. ASSUME NEW c \in Conn, RoomRequest(c) \/ CloseUnanswered(c)
        PROVE  DisplayTypeOK' /\ DisplaysInv' /\ GoneHasNoDisplay'
    <2>1. Lives
      BY <1>1, RoomRequestLives
    <2>2. \/ \E t \in Token : ReserveDisplay(c, t)
          \/ display' = display /\ holder' = holder /\ leased' = leased
      BY <1>1 DEF RoomRequest, CloseUnanswered, SessionCancel, JoinLimited, SessionWait, JoinRefused,
                  JoinPairs, displayVars
    <2> QED
      BY <2>1, <2>2, DisplayKept, DisplayReserved
  <1>2. ASSUME NEW c \in Conn, NEW p \in PairId, PairRequest(c, p)
        PROVE  DisplayTypeOK' /\ DisplaysInv' /\ GoneHasNoDisplay'
    <2>1. Lives
      BY <1>2, PairRequestLives
    <2>2. display' = display /\ holder' = holder /\ leased' = leased
      BY <1>2 DEF PairRequest, NotMember, ProofLate, ProofRepeated, Proof,
                  CloseWithoutRoute, SessionClose, DataRefused, Data, displayVars
    <2> QED
      BY <2>1, <2>2, DisplayKept
  <1>3. ASSUME OtherStep, ~RotationEnds
        PROVE  DisplayTypeOK' /\ DisplaysInv' /\ GoneHasNoDisplay'
    <2>1. Lives
      BY <1>3, OtherStepLives
    <2>2. display' = display /\ holder' = holder /\ leased' \subseteq leased
      BY <1>3 DEF OtherStep, OtherFrame, WriterSends, CloseTask, LoopEnds, DeadlinePasses,
                  Maintenance, MaintenanceDies, MaintenanceBase, RotationBegins, displayVars
    <2> QED
      BY <2>1, <2>2, DisplayKept
  <1>4. CASE RotationEnds
    <2>1. Lives /\ OtherStep
      BY <1>4, OtherStepLives DEF OtherStep
    <2>2. /\ display' = display /\ leased' = {}
          /\ holder' = [t \in Token |-> None]
          /\ status' = status
          /\ \A c \in Conn : status[c] \in {"none", "ending"}
      BY <1>4 DEF RotationEnds, wireVars
    <2> QED
      BY <2>2 DEF DisplayTypeOK, DisplaysInv, GoneHasNoDisplay, TypeParts
  <1>5. ASSUME NEW c \in Conn, Accept(c)
        PROVE  DisplayTypeOK' /\ DisplaysInv' /\ GoneHasNoDisplay'
    <2>1. status[c] = "none" /\ status' = [status EXCEPT ![c] = "open"]
      BY <1>5, AcceptLives
    <2>2. display' = display /\ holder' = holder /\ leased' = leased
      BY <1>5 DEF Accept, displayVars
    <2> QED
      BY <2>1, <2>2 DEF DisplayTypeOK, DisplaysInv, GoneHasNoDisplay, TypeParts, WireTypeOK
  <1>6. ASSUME NEW c \in Conn, ConnectionClosed(c)
        PROVE  DisplayTypeOK' /\ DisplaysInv' /\ GoneHasNoDisplay'
    BY <1>6, DisplayReleased
  <1>7. CASE UNCHANGED vars
    BY <1>7, DisplayKept DEF vars, wireVars, displayVars, Lives
  <1> QED
    BY <1>1, <1>2, <1>3, <1>4, <1>5, <1>6, <1>7 DEF Next, Request, OtherStep

-----------------------------------------------------------------------------
(* Waiting rooms: a room and its creator refer to each other, and nobody   *)
(* waits and is paired at once.                                            *)

RoomsInv ==
    /\ \A r \in RoomId : creatorOf[r] # None => waitingRoom[creatorOf[r]] = r
    /\ \A c \in Conn : status[c] # "ending" /\ waitingRoom[c] # None =>
          /\ creatorOf[waitingRoom[c]] = c
          /\ pairId[c] = None

GoneHasNothing ==
    \A c \in Conn : status[c] = "none" => waitingRoom[c] = None /\ pairId[c] = None

\* Rooms and waiting connections still match after the stale rooms are dropped.
LEMMA CleanedRooms ==
    ASSUME RoomTypeOK, RoomsInv,
           NEW W, W = WithoutWaiting(StaleRooms), NEW C, C = WithoutRooms(StaleRooms)
    PROVE  /\ W \in [Conn -> RoomId \cup {None}]
           /\ C \in [RoomId -> Conn \cup {None}]
           /\ \A c \in Conn : W[c] = None \/ W[c] = waitingRoom[c]
           /\ \A r \in RoomId : C[r] # None => C[r] = creatorOf[r] /\ W[C[r]] = r
           /\ \A c \in Conn : status[c] # "ending" /\ W[c] # None =>
                 C[W[c]] = c /\ pairId[c] = None
  <1>1. /\ waitingRoom \in [Conn -> RoomId \cup {None}]
        /\ creatorOf \in [RoomId -> Conn \cup {None}]
        /\ None \notin RoomId /\ None \notin Conn
    BY RelayAssumption DEF RoomTypeOK
  <1>2. /\ W = [c \in Conn |-> IF waitingRoom[c] \in StaleRooms /\ creatorOf[waitingRoom[c]] = c
                                THEN None ELSE waitingRoom[c]]
        /\ C = [r \in RoomId |-> IF r \in StaleRooms THEN None ELSE creatorOf[r]]
    BY DEF WithoutWaiting, WithoutRooms
  <1>3. W \in [Conn -> RoomId \cup {None}] /\ C \in [RoomId -> Conn \cup {None}]
    BY <1>1, <1>2
  <1>4. \A c \in Conn : W[c] = None \/ W[c] = waitingRoom[c]
    BY <1>2
  <1>5. ASSUME NEW r \in RoomId, C[r] # None PROVE C[r] = creatorOf[r] /\ W[C[r]] = r
    <2>1. r \notin StaleRooms /\ C[r] = creatorOf[r] /\ C[r] \in Conn
      BY <1>1, <1>2, <1>5
    <2>2. waitingRoom[creatorOf[r]] = r
      BY <1>5, <2>1 DEF RoomsInv
    <2> QED
      BY <1>2, <2>1, <2>2
  <1>6. ASSUME NEW c \in Conn, status[c] # "ending", W[c] # None
        PROVE  C[W[c]] = c /\ pairId[c] = None
    <2>1. W[c] = waitingRoom[c] /\ waitingRoom[c] \in RoomId
      BY <1>1, <1>2, <1>6
    <2>2. creatorOf[waitingRoom[c]] = c /\ pairId[c] = None
      BY <1>6, <2>1 DEF RoomsInv
    <2>3. waitingRoom[c] \notin StaleRooms
      BY <1>2, <1>6, <2>1, <2>2
    <2> QED
      BY <1>2, <2>1, <2>2, <2>3
  <1> QED
    BY <1>3, <1>4, <1>5, <1>6

\* Pairs may end without disturbing the rooms.
Unpairing == \A c \in Conn : pairId'[c] = pairId[c] \/ pairId'[c] = None

\* Actions that leave the rooms alone.
LEMMA RoomsKept ==
    ASSUME RoomTypeOK, RoomsInv, GoneHasNothing, Lives, Unpairing,
           waitingRoom' = waitingRoom, creatorOf' = creatorOf
    PROVE  RoomsInv' /\ GoneHasNothing'
  BY DEF RoomTypeOK, RoomsInv, GoneHasNothing, Lives, Unpairing

\* Actions that only drop the stale rooms.
LEMMA RoomsDropped ==
    ASSUME RoomTypeOK, RoomsInv, GoneHasNothing, Lives, Unpairing,
           waitingRoom' = WithoutWaiting(StaleRooms), creatorOf' = WithoutRooms(StaleRooms)
    PROVE  RoomsInv' /\ GoneHasNothing'
  <1>1. /\ \A r \in RoomId : creatorOf'[r] # None => waitingRoom'[creatorOf'[r]] = r
        /\ \A c \in Conn : status[c] # "ending" /\ waitingRoom'[c] # None =>
              creatorOf'[waitingRoom'[c]] = c /\ pairId[c] = None
        /\ \A c \in Conn : waitingRoom'[c] = None \/ waitingRoom'[c] = waitingRoom[c]
    BY CleanedRooms
  <1> QED
    BY <1>1 DEF RoomsInv, GoneHasNothing, Lives, Unpairing

\* create_waiting_room opens a room for an idle connection only.
LEMMA RoomsWait ==
    ASSUME RoomTypeOK, RoomsInv, GoneHasNothing, Lives,
           NEW c \in Conn, NEW r \in RoomId, SessionWait(c, r)
    PROVE  RoomTypeOK' /\ RoomsInv' /\ GoneHasNothing'
  <1> DEFINE W == WithoutWaiting(StaleRooms)
             C == WithoutRooms(StaleRooms)
             ok == W[c] = None /\ pairId[c] = None /\ RoomFree(r)
  <1>1. /\ W \in [Conn -> RoomId \cup {None}]
        /\ C \in [RoomId -> Conn \cup {None}]
        /\ \A d \in Conn : W[d] = None \/ W[d] = waitingRoom[d]
        /\ \A q \in RoomId : C[q] # None => C[q] = creatorOf[q] /\ W[C[q]] = q
        /\ \A d \in Conn : status[d] # "ending" /\ W[d] # None =>
              C[W[d]] = d /\ pairId[d] = None
    BY CleanedRooms
  <1> HIDE DEF W, C
  <1>2. Handles(c) /\ pairId' = pairId
    BY DEF SessionWait, Ready, routeVars
  <1>3. dropped \subseteq Conn /\ None \notin Conn /\ None \notin RoomId
    BY RelayAssumption DEF RoomTypeOK
  <1>4. CleanupDrops \subseteq Conn
    BY <1>3 DEF CleanupDrops, Creators, StaleRooms, RoomTypeOK
  <1>5. CASE ok
    <2>1. /\ creatorOf' = [C EXCEPT ![r] = c]
          /\ waitingRoom' = [W EXCEPT ![c] = r]
          /\ dropped' = CleanupDrops \ {c}
      BY <1>5 DEF SessionWait, W, C
    <2>2. C[r] = None
      BY <1>5 DEF RoomFree, C
    <2>3. RoomTypeOK'
      BY <1>1, <1>4, <2>1 DEF RoomTypeOK
    <2>4. \A q \in RoomId : creatorOf'[q] # None => waitingRoom'[creatorOf'[q]] = q
      BY <1>1, <1>3, <1>5, <2>1
    <2>5. ASSUME NEW d \in Conn, status'[d] # "ending", waitingRoom'[d] # None
          PROVE  creatorOf'[waitingRoom'[d]] = d /\ pairId'[d] = None
      <3>1. status[d] # "ending"
        BY <2>5 DEF Lives
      <3>2. CASE d = c
        BY <1>1, <1>2, <1>5, <2>1, <3>2
      <3>3. CASE d # c
        <4>1. waitingRoom'[d] = W[d] /\ W[d] # None /\ W[d] \in RoomId
          BY <1>1, <2>1, <2>5, <3>3
        <4>2. C[W[d]] = d /\ pairId[d] = None
          BY <1>1, <3>1, <4>1
        <4>3. W[d] # r
          BY <1>3, <2>2, <4>2
        <4> QED
          BY <1>1, <1>2, <2>1, <4>1, <4>2, <4>3
      <3> QED
        BY <3>2, <3>3
    <2>6. GoneHasNothing'
      BY <1>1, <1>2, <2>1 DEF GoneHasNothing, Lives, Handles
    <2> QED
      BY <2>3, <2>4, <2>5, <2>6 DEF RoomsInv
  <1>6. CASE ~ok
    <2>1. creatorOf' = C /\ waitingRoom' = W /\ dropped' = CleanupDrops
      BY <1>6 DEF SessionWait, W, C
    <2>2. RoomsInv' /\ GoneHasNothing'
      BY <1>2, <2>1, RoomsDropped DEF W, C, Unpairing
    <2> QED
      BY <1>1, <1>4, <2>1, <2>2 DEF RoomTypeOK
  <1> QED
    BY <1>5, <1>6

\* cancel_waiting_room removes the connection's own room, no other's.
LEMMA RoomsCancel ==
    ASSUME RoomTypeOK, RoomsInv, GoneHasNothing, Lives, NEW c \in Conn, SessionCancel(c)
    PROVE  RoomTypeOK' /\ RoomsInv' /\ GoneHasNothing'
  <1> DEFINE r == waitingRoom[c]
             own == r # None /\ creatorOf[r] = c
  <1>1. /\ waitingRoom' = [waitingRoom EXCEPT ![c] = None]
        /\ creatorOf' = IF own THEN [creatorOf EXCEPT ![r] = None] ELSE creatorOf
        /\ pairId' = pairId /\ dropped' = dropped
    BY DEF SessionCancel, routeVars
  <1>2. /\ waitingRoom \in [Conn -> RoomId \cup {None}]
        /\ creatorOf \in [RoomId -> Conn \cup {None}]
        /\ None \notin RoomId /\ None \notin Conn
    BY RelayAssumption DEF RoomTypeOK
  <1>3. RoomTypeOK'
    BY <1>1, <1>2 DEF RoomTypeOK
  <1>4. ASSUME NEW q \in RoomId, creatorOf'[q] # None
        PROVE  waitingRoom'[creatorOf'[q]] = q
    <2>1. creatorOf'[q] = creatorOf[q] /\ creatorOf[q] \in Conn
      BY <1>1, <1>2, <1>4
    <2>2. waitingRoom[creatorOf[q]] = q
      BY <1>4, <2>1 DEF RoomsInv
    <2>3. creatorOf[q] # c
      BY <1>1, <1>2, <1>4, <2>1, <2>2
    <2> QED
      BY <1>1, <1>2, <2>1, <2>2, <2>3
  <1>5. ASSUME NEW d \in Conn, status'[d] # "ending", waitingRoom'[d] # None
        PROVE  creatorOf'[waitingRoom'[d]] = d /\ pairId'[d] = None
    <2>1. d # c /\ waitingRoom'[d] = waitingRoom[d] /\ waitingRoom[d] \in RoomId
      BY <1>1, <1>2, <1>5
    <2>2. creatorOf[waitingRoom[d]] = d /\ pairId[d] = None
      BY <1>5, <2>1 DEF RoomsInv, Lives
    <2> QED
      BY <1>1, <1>2, <2>1, <2>2
  <1>6. GoneHasNothing'
    BY <1>1, <1>2 DEF GoneHasNothing, Lives
  <1> QED
    BY <1>3, <1>4, <1>5, <1>6 DEF RoomsInv

\* Who a join pairs: two different connections, neither of which is paired.
LEMMA JoinersAreFree ==
    ASSUME RoomTypeOK, RoomsInv, WireTypeOK,
           NEW c \in Conn, NEW r \in RoomId, NEW p \in PairId, JoinPairs(c, r, p)
    PROVE  /\ creatorOf[r] \in Conn
           /\ creatorOf[r] # c
           /\ pairId[c] = None /\ pairId[creatorOf[r]] = None
           /\ status[creatorOf[r]] # "none"
           /\ WithoutWaiting(StaleRooms)[creatorOf[r]] = r
  <1> DEFINE d == creatorOf[r]
  <1>1. None \notin RoomId /\ None \notin Conn
    BY RelayAssumption
  <1>2. /\ d \in Conn /\ r \notin StaleRooms
        /\ WithoutWaiting(StaleRooms)[c] = None /\ pairId[c] = None
    BY DEF JoinPairs, JoinBusy, RoomTypeOK
  <1>3. ~Closed(d)
    BY <1>1, <1>2 DEF StaleRooms
  <1>4. status[d] # "ending" /\ status[d] # "none"
    BY <1>3 DEF Closed
  <1>5. waitingRoom[d] = r
    BY <1>1, <1>2 DEF RoomsInv
  <1>6. pairId[d] = None
    BY <1>1, <1>4, <1>5, <1>2 DEF RoomsInv
  <1>7. WithoutWaiting(StaleRooms)[d] = r
    BY <1>2, <1>5 DEF WithoutWaiting
  <1> QED
    BY <1>1, <1>2, <1>4, <1>6, <1>7

\* join_waiting_room takes the room away and its creator out of waiting.
LEMMA RoomsJoin ==
    ASSUME RoomTypeOK, RouteTypeOK, RoomsInv, GoneHasNothing, WireTypeOK, Lives,
           NEW c \in Conn, NEW r \in RoomId, NEW p \in PairId, JoinPairs(c, r, p)
    PROVE  RoomTypeOK' /\ RoomsInv' /\ GoneHasNothing'
  <1> DEFINE W == WithoutWaiting(StaleRooms)
             C == WithoutRooms(StaleRooms)
             d == creatorOf[r]
  <1>1. /\ W \in [Conn -> RoomId \cup {None}]
        /\ C \in [RoomId -> Conn \cup {None}]
        /\ \A e \in Conn : W[e] = None \/ W[e] = waitingRoom[e]
        /\ \A q \in RoomId : C[q] # None => C[q] = creatorOf[q] /\ W[C[q]] = q
        /\ \A e \in Conn : status[e] # "ending" /\ W[e] # None =>
              C[W[e]] = e /\ pairId[e] = None
    BY CleanedRooms
  <1>2. /\ d \in Conn /\ d # c /\ status[d] # "none" /\ W[d] = r
        /\ W[c] = None /\ status[c] # "none"
    BY JoinersAreFree DEF JoinPairs, JoinBusy, Ready, Handles
  <1>3. /\ creatorOf' = WithoutRooms(StaleRooms \cup {r})
        /\ waitingRoom' = [W EXCEPT ![d] = None]
        /\ pairId' = [pairId EXCEPT ![c] = p, ![d] = p]
        /\ dropped' = CleanupDrops
        /\ r \notin StaleRooms
    BY DEF JoinPairs
  <1>4. \A q \in RoomId : creatorOf'[q] = IF q = r THEN None ELSE C[q]
    BY <1>3 DEF WithoutRooms
  <1>5. C[r] = d
    BY <1>3 DEF WithoutRooms
  <1>6. CleanupDrops \subseteq Conn
    BY RelayAssumption DEF CleanupDrops, Creators, StaleRooms, RoomTypeOK
  <1>7. creatorOf' \in [RoomId -> Conn \cup {None}]
    BY <1>3 DEF WithoutRooms, RoomTypeOK
  <1>8. None \notin RoomId /\ None \notin Conn
    BY RelayAssumption
  <1>9. pairId \in [Conn -> PairId \cup {None}]
    BY DEF RouteTypeOK
  <1> HIDE DEF W, C, d
  <1>10. RoomTypeOK'
    BY <1>1, <1>3, <1>6, <1>7 DEF RoomTypeOK
  <1>11. ASSUME NEW q \in RoomId, creatorOf'[q] # None
         PROVE  waitingRoom'[creatorOf'[q]] = q
    <2>1. q # r /\ creatorOf'[q] = C[q] /\ C[q] \in Conn
      BY <1>1, <1>4, <1>11
    <2>2. W[C[q]] = q
      BY <1>1, <1>11, <2>1
    <2> QED
      BY <1>1, <1>2, <1>3, <2>1, <2>2
  <1>12. ASSUME NEW e \in Conn, status'[e] # "ending", waitingRoom'[e] # None
         PROVE  creatorOf'[waitingRoom'[e]] = e /\ pairId'[e] = None
    <2>1. e # d /\ waitingRoom'[e] = W[e] /\ W[e] \in RoomId /\ e # c
      BY <1>1, <1>2, <1>3, <1>12
    <2>2. status[e] # "ending"
      BY <1>12 DEF Lives
    <2>3. C[W[e]] = e /\ pairId[e] = None
      BY <1>1, <1>8, <2>1, <2>2
    <2>4. W[e] # r
      BY <1>5, <2>1, <2>3
    <2> QED
      BY <1>3, <1>4, <1>9, <2>1, <2>3, <2>4
  <1>13. GoneHasNothing'
    <2> SUFFICES ASSUME NEW e \in Conn, status'[e] = "none"
                 PROVE  waitingRoom'[e] = None /\ pairId'[e] = None
      BY DEF GoneHasNothing
    <2>1. status[e] = "none" /\ e # c /\ e # d
      BY <1>2 DEF Lives
    <2> QED
      BY <1>1, <1>2, <1>3, <1>9, <2>1 DEF GoneHasNothing
  <1> QED
    BY <1>10, <1>11, <1>12, <1>13 DEF RoomsInv

\* _connection_closed removes the room of its own connection only.
LEMMA RoomsRemoved ==
    ASSUME TypeParts, RoomsInv, GoneHasNothing, Unpairing,
           NEW c \in Conn, ConnectionClosed(c), pairId'[c] = None
    PROVE  RoomTypeOK' /\ RoomsInv' /\ GoneHasNothing'
  <1>1. /\ creatorOf' = WithoutRooms(OwnRoom(c))
        /\ waitingRoom' = [waitingRoom EXCEPT ![c] = None]
        /\ dropped' = dropped \ {c}
    BY DEF ConnectionClosed
  <1>2. /\ waitingRoom \in [Conn -> RoomId \cup {None}]
        /\ creatorOf \in [RoomId -> Conn \cup {None}]
        /\ dropped \subseteq Conn /\ None \notin RoomId /\ None \notin Conn
    BY RelayAssumption DEF TypeParts, RoomTypeOK
  <1>3. \A r \in RoomId : creatorOf'[r] = IF waitingRoom[c] = r /\ creatorOf[r] = c
                                          THEN None ELSE creatorOf[r]
    BY <1>1 DEF WithoutRooms, OwnRoom
  <1>4. creatorOf' \in [RoomId -> Conn \cup {None}]
    BY <1>1, <1>2 DEF WithoutRooms
  <1>5. /\ status[c] = "ending" /\ status'[c] = "none"
        /\ \A d \in Conn \ {c} :
             /\ status'[d] = "none" <=> status[d] = "none"
             /\ status'[d] # "ending" => status[d] # "ending"
    BY ClosedConnectionLives
  <1>6. RoomTypeOK'
    BY <1>1, <1>2, <1>4 DEF RoomTypeOK
  <1>7. ASSUME NEW r \in RoomId, creatorOf'[r] # None
        PROVE  waitingRoom'[creatorOf'[r]] = r
    <2>1. creatorOf'[r] = creatorOf[r] /\ creatorOf[r] \in Conn
      BY <1>2, <1>3, <1>7
    <2>2. waitingRoom[creatorOf[r]] = r
      BY <1>7, <2>1 DEF RoomsInv
    <2>3. creatorOf[r] # c
      BY <1>3, <1>7, <2>1, <2>2
    <2> QED
      BY <1>1, <1>2, <2>1, <2>2, <2>3
  <1>8. ASSUME NEW d \in Conn, status'[d] # "ending", waitingRoom'[d] # None
        PROVE  creatorOf'[waitingRoom'[d]] = d /\ pairId'[d] = None
    <2>1. d # c /\ waitingRoom'[d] = waitingRoom[d] /\ waitingRoom[d] \in RoomId
      BY <1>1, <1>2, <1>8
    <2>2. status[d] # "ending"
      BY <1>5, <1>8, <2>1
    <2>3. creatorOf[waitingRoom[d]] = d /\ pairId[d] = None
      BY <1>8, <2>1, <2>2 DEF RoomsInv
    <2> QED
      BY <1>3, <2>1, <2>3 DEF Unpairing
  <1>9. GoneHasNothing'
    BY <1>1, <1>2, <1>5 DEF GoneHasNothing, Unpairing
  <1> QED
    BY <1>6, <1>7, <1>8, <1>9 DEF RoomsInv

-----------------------------------------------------------------------------
(* Session routes: a route joins two connections that carry its pair ID,   *)
(* and a connection that has not ended carries no other pair ID.           *)

RoutesInv ==
    /\ \A p \in PairId : route[p] # NoRoute =>
          /\ route[p].creator # route[p].joiner
          /\ \A c \in Members(p) : pairId[c] = p
    /\ \A p \in PairId, c \in Conn :
          pairId[c] = p /\ (status[c] # "ending" \/ route[p] # NoRoute) => c \in Members(p)

\* Routes that keep their members, whatever else of them changes.
SameMembers ==
    \A p \in PairId :
        /\ route'[p] = NoRoute <=> route[p] = NoRoute
        /\ route[p] # NoRoute =>
              /\ route'[p].creator = route[p].creator
              /\ route'[p].joiner = route[p].joiner
              /\ route'[p].room = route[p].room

\* Actions that leave the members of all routes alone.
LEMMA RoutesKept ==
    ASSUME RouteTypeOK, RoutesInv, Lives, pairId' = pairId, SameMembers
    PROVE  RoutesInv'
  <1>1. \A p \in PairId : Members(p)' = Members(p)
    BY DEF SameMembers, Members
  <1> QED
    BY <1>1 DEF RoutesInv, SameMembers, Lives

\* The routes S end, and their members carry no pair ID any more.
Ends(S) ==
    /\ route' = [p \in PairId |-> IF p \in S THEN NoRoute ELSE route[p]]
    /\ \A c \in Conn : pairId'[c] = IF \E p \in S : c \in Members(p) THEN None ELSE pairId[c]

\* When routes end together with the pair IDs of their members, the others
\* still match.
LEMMA RoutesEnd ==
    ASSUME RouteTypeOK, RoutesInv, NEW S \in SUBSET PairId, Ends(S),
           \A c \in Conn : status'[c] # "ending" => status[c] # "ending" \/ pairId'[c] = None
    PROVE  RoutesInv'
  <1>1. \A c \in Conn : pairId[c] = None \/ pairId[c] \in PairId
    BY DEF RouteTypeOK
  <1>2. \A p \in PairId : Members(p) \subseteq Conn
    BY MembersOfRoute
  <1>3. \A p \in PairId \ S : route'[p] = route[p] /\ Members(p)' = Members(p)
    BY DEF Ends, Members
  <1>4. \A p \in S : route'[p] = NoRoute
    BY DEF Ends
  <1>5. \A p \in PairId : \A c \in Members(p) : pairId[c] = p
    BY DEF RoutesInv, Members
  <1>6. ASSUME NEW p \in PairId, route'[p] # NoRoute
        PROVE  /\ route'[p].creator # route'[p].joiner
               /\ \A c \in Members(p)' : pairId'[c] = p
    <2>1. p \notin S /\ route'[p] = route[p] /\ Members(p)' = Members(p)
      BY <1>3, <1>4, <1>6
    <2>2. ASSUME NEW c \in Members(p) PROVE pairId'[c] = p
      <3>1. c \in Conn /\ pairId[c] = p
        BY <1>2, <1>5
      <3>2. \A q \in S : c \notin Members(q)
        BY <1>5, <2>1, <3>1
      <3> QED
        BY <3>1, <3>2 DEF Ends
    <2> QED
      BY <1>6, <2>1, <2>2 DEF RoutesInv
  <1>7. ASSUME NEW q \in PairId, NEW c \in Conn, pairId'[c] = q,
               status'[c] # "ending" \/ route'[q] # NoRoute
        PROVE  c \in Members(q)'
    <2>1. q # None /\ pairId[c] = q /\ \A p \in S : c \notin Members(p)
      BY <1>7, RelayAssumption DEF Ends
    <2>2. c \in Members(q)
      <3>1. CASE status'[c] # "ending"
        BY <1>7, <2>1, <3>1 DEF RoutesInv
      <3>2. CASE route'[q] # NoRoute
        BY <1>3, <1>4, <2>1, <3>2 DEF RoutesInv
      <3> QED
        BY <1>7, <3>1, <3>2
    <2>3. q \notin S
      BY <2>1, <2>2
    <2> QED
      BY <1>3, <2>2, <2>3
  <1> QED
    BY <1>6, <1>7 DEF RoutesInv

\* _close_route is such an end.
LEMMA CloseRouteEnds ==
    ASSUME RouteTypeOK, NEW p \in PairId, CloseRoute(p)
    PROVE  Ends({p}) /\ RouteTypeOK' /\ Unpairing
  BY DEF RouteTypeOK, CloseRoute, WithoutRoute, Unpaired, Ends, Unpairing

\* A join makes a route of two unpaired connections under a fresh pair ID.
LEMMA RoutesJoin ==
    ASSUME RoomTypeOK, RouteTypeOK, RoomsInv, RoutesInv, WireTypeOK, Lives,
           NEW c \in Conn, NEW r \in RoomId, NEW p \in PairId, JoinPairs(c, r, p)
    PROVE  RouteTypeOK' /\ RoutesInv'
  <1> DEFINE d == creatorOf[r]
             new == [room |-> r, creator |-> d, joiner |-> c, proved |-> {}, session |-> None]
  <1>1. d \in Conn /\ d # c /\ pairId[c] = None /\ pairId[d] = None
    BY JoinersAreFree
  <1>2. /\ route' = [route EXCEPT ![p] = new]
        /\ pairId' = [pairId EXCEPT ![c] = p, ![d] = p]
        /\ route[p] = NoRoute
        /\ \A e \in Conn : pairId[e] # p
    BY DEF JoinPairs, FreshPair
  <1>3. /\ pairId \in [Conn -> PairId \cup {None}] /\ None \notin PairId
        /\ route \in [PairId -> RouteRecord \cup {NoRoute}]
    BY RelayAssumption DEF RouteTypeOK
  <1>4. new \in RouteRecord
    BY <1>1 DEF RouteRecord
  <1>5. new # NoRoute
    BY RelayAssumption DEF NoRoute
  <1>6. RouteTypeOK'
    BY <1>1, <1>2, <1>3, <1>4 DEF RouteTypeOK
  <1>7. Members(p)' = {d, c} /\ route'[p] = new
    BY <1>2, <1>3, <1>5 DEF Members
  <1>8. \A q \in PairId \ {p} : route'[q] = route[q] /\ Members(q)' = Members(q)
    BY <1>2, <1>3 DEF Members
  <1>9. pairId'[c] = p /\ pairId'[d] = p /\ \A e \in Conn \ {c, d} : pairId'[e] = pairId[e]
    BY <1>1, <1>2, <1>3
  <1>10. \A q \in PairId : Members(q) \subseteq Conn
    BY MembersOfRoute
  <1> HIDE DEF d
  <1>11. ASSUME NEW q \in PairId, route'[q] # NoRoute
         PROVE  /\ route'[q].creator # route'[q].joiner
                /\ \A e \in Members(q)' : pairId'[e] = q
    <2>1. CASE q = p
      BY <1>1, <1>7, <1>9, <2>1
    <2>2. CASE q # p
      <3>1. route'[q] = route[q] /\ Members(q)' = Members(q)
        BY <1>8, <2>2
      <3>2. ASSUME NEW e \in Members(q) PROVE pairId'[e] = q
        <4>1. e \in Conn /\ pairId[e] = q
          BY <1>10, <1>11, <3>1 DEF RoutesInv
        <4> QED
          BY <1>1, <1>3, <1>9, <4>1
      <3> QED
        BY <1>11, <3>1, <3>2 DEF RoutesInv
    <2> QED
      BY <2>1, <2>2
  <1>12. ASSUME NEW q \in PairId, NEW e \in Conn, pairId'[e] = q,
                status'[e] # "ending" \/ route'[q] # NoRoute
         PROVE  e \in Members(q)'
    <2>1. CASE e \in {c, d}
      BY <1>7, <1>9, <1>12, <2>1
    <2>2. CASE e \notin {c, d}
      <3>1. pairId[e] = q /\ q # p
        BY <1>2, <1>9, <1>12, <2>2
      <3>2. e \in Members(q)
        BY <1>8, <1>12, <3>1 DEF RoutesInv, Lives
      <3> QED
        BY <1>8, <3>1, <3>2
    <2> QED
      BY <2>1, <2>2
  <1> QED
    BY <1>6, <1>11, <1>12 DEF RoutesInv

\* _connection_closed: the connection is in no other route than its own.
LEMMA RoutesLeft ==
    ASSUME TypeParts, RoutesInv, NEW c \in Conn, ConnectionClosed(c)
    PROVE  RouteTypeOK' /\ RoutesInv' /\ Unpairing /\ pairId'[c] = None
  <1> DEFINE p == PairOf(c)
  <1>1. RouteTypeOK /\ None \notin PairId
    BY RelayAssumption DEF TypeParts
  <1>2. /\ status[c] = "ending" /\ status'[c] = "none"
        /\ \A d \in Conn \ {c} : status'[d] # "ending" => status[d] # "ending"
    BY ClosedConnectionLives
  <1>3. pairId \in [Conn -> PairId \cup {None}]
    BY <1>1 DEF RouteTypeOK
  <1>4. CASE p = None
    <2>1. pairId' = [pairId EXCEPT ![c] = None] /\ route' = route
      BY <1>4 DEF ConnectionClosed
    <2>2. \A q \in PairId : c \notin Members(q)
      <3>1. SUFFICES ASSUME NEW q \in PairId, c \in Members(q) PROVE FALSE
        OBVIOUS
      <3>2. route[q] # NoRoute /\ pairId[c] = q
        BY <3>1 DEF RoutesInv, Members
      <3> QED
        BY <1>1, <1>4, <3>2 DEF PairOf
    <2>3. pairId'[c] = None /\ \A d \in Conn \ {c} : pairId'[d] = pairId[d]
      BY <1>3, <2>1
    <2>4. \A q \in PairId : Members(q)' = Members(q) /\ Members(q) \subseteq Conn
      BY <1>1, <2>1, MembersOfRoute DEF Members
    <2>5. ASSUME NEW q \in PairId, route'[q] # NoRoute
          PROVE  /\ route'[q].creator # route'[q].joiner
                 /\ \A d \in Members(q)' : pairId'[d] = q
      BY <2>1, <2>2, <2>3, <2>4, <2>5 DEF RoutesInv
    <2>6. ASSUME NEW q \in PairId, NEW d \in Conn, pairId'[d] = q,
                 status'[d] # "ending" \/ route'[q] # NoRoute
          PROVE  d \in Members(q)'
      <3>1. d # c /\ pairId[d] = q
        BY <1>1, <2>3, <2>6
      <3>2. d \in Members(q)
        BY <1>2, <2>1, <2>6, <3>1 DEF RoutesInv
      <3> QED
        BY <2>4, <3>2
    <2>7. RouteTypeOK'
      BY <1>1, <2>1 DEF RouteTypeOK
    <2> QED
      BY <2>3, <2>5, <2>6, <2>7 DEF RoutesInv, Unpairing
  <1>5. CASE p # None
    <2>1. p = pairId[c] /\ p \in PairId /\ route[p] # NoRoute
      BY <1>3, <1>5 DEF PairOf
    <2>2. c \in Members(p)
      BY <1>1, <2>1 DEF RoutesInv
    <2>3. CloseRoute(p)
      BY <1>5 DEF ConnectionClosed
    <2>4. Ends({p}) /\ RouteTypeOK' /\ Unpairing
      BY <1>1, <2>1, <2>3, CloseRouteEnds
    <2>5. pairId'[c] = None
      BY <2>2, <2>4 DEF Ends
    <2>6. \A d \in Conn : status'[d] # "ending" => status[d] # "ending" \/ pairId'[d] = None
      BY <1>2, <2>5
    <2>7. {p} \in SUBSET PairId
      BY <2>1
    <2> HIDE DEF p
    <2>8. RoutesInv'
      BY <1>1, <2>4, <2>6, <2>7, RoutesEnd
    <2> QED
      BY <2>4, <2>5, <2>8
  <1> QED
    BY <1>4, <1>5

-----------------------------------------------------------------------------
(* The rooms and routes after every step. *)

PairingOK == RoomTypeOK /\ RouteTypeOK /\ RoomsInv /\ RoutesInv /\ GoneHasNothing

\* Actions that concern neither rooms nor routes.
LEMMA PairingUntouched ==
    ASSUME PairingOK, Lives, UNCHANGED <<roomVars, routeVars>>
    PROVE  PairingOK'
  <1>1. /\ waitingRoom' = waitingRoom /\ creatorOf' = creatorOf /\ dropped' = dropped
        /\ pairId' = pairId /\ route' = route
    BY DEF roomVars, routeVars
  <1>2. SameMembers /\ Unpairing
    BY <1>1 DEF SameMembers, Unpairing
  <1>3. RoomsInv' /\ GoneHasNothing'
    BY <1>1, <1>2, RoomsKept DEF PairingOK
  <1>4. RoutesInv'
    BY <1>1, <1>2, RoutesKept DEF PairingOK
  <1>5. RoomTypeOK' /\ RouteTypeOK'
    BY <1>1 DEF PairingOK, RoomTypeOK, RouteTypeOK
  <1> QED
    BY <1>3, <1>4, <1>5 DEF PairingOK

\* Actions that concern no route.
LEMMA PairingRoutesKept ==
    ASSUME PairingOK, Lives, UNCHANGED routeVars
    PROVE  RouteTypeOK' /\ RoutesInv' /\ Unpairing
  <1>1. pairId' = pairId /\ route' = route
    BY DEF routeVars
  <1>2. SameMembers /\ Unpairing
    BY <1>1 DEF SameMembers, Unpairing
  <1>3. RoutesInv'
    BY <1>1, <1>2, RoutesKept DEF PairingOK
  <1> QED
    BY <1>1, <1>2, <1>3 DEF PairingOK, RouteTypeOK

\* Dropping the stale rooms keeps the tables typed.
LEMMA CleanedRoomsType ==
    ASSUME RoomTypeOK, RoomsInv
    PROVE  /\ WithoutWaiting(StaleRooms) \in [Conn -> RoomId \cup {None}]
           /\ WithoutRooms(StaleRooms) \in [RoomId -> Conn \cup {None}]
           /\ Creators(StaleRooms) \subseteq Conn
           /\ CleanupDrops \subseteq Conn
  <1>1. Creators(StaleRooms) \subseteq Conn
    BY DEF Creators, StaleRooms, RoomTypeOK
  <1>2. CleanupDrops \subseteq Conn
    BY <1>1 DEF CleanupDrops, RoomTypeOK
  <1> QED
    BY <1>1, <1>2, CleanedRooms

\* Room requests keep rooms and routes matched.
LEMMA PairingRoomRequest ==
    ASSUME TypeParts, PairingOK, NEW c \in Conn, RoomRequest(c) \/ CloseUnanswered(c)
    PROVE  PairingOK'
  <1>1. WireTypeOK /\ Lives
    BY RoomRequestLives DEF TypeParts
  <1>2. CASE (\E t \in Token : ReserveDisplay(c, t)) \/ JoinLimited(c) \/ CloseUnanswered(c)
    BY <1>1, <1>2, PairingUntouched DEF ReserveDisplay, JoinLimited, CloseUnanswered
  <1>3. CASE SessionCancel(c)
    <2>1. RouteTypeOK' /\ RoutesInv'
      BY <1>1, <1>3, PairingRoutesKept DEF SessionCancel
    <2>2. RoomTypeOK' /\ RoomsInv' /\ GoneHasNothing'
      BY <1>1, <1>3, RoomsCancel DEF PairingOK
    <2> QED
      BY <2>1, <2>2 DEF PairingOK
  <1>4. ASSUME NEW r \in RoomId, SessionWait(c, r) PROVE PairingOK'
    <2>1. RouteTypeOK' /\ RoutesInv'
      BY <1>1, <1>4, PairingRoutesKept DEF SessionWait
    <2>2. RoomTypeOK' /\ RoomsInv' /\ GoneHasNothing'
      BY <1>1, <1>4, RoomsWait DEF PairingOK
    <2> QED
      BY <2>1, <2>2 DEF PairingOK
  <1>5. ASSUME NEW r \in RoomId, JoinRefused(c, r) PROVE PairingOK'
    <2>1. RouteTypeOK' /\ RoutesInv' /\ Unpairing
      BY <1>1, <1>5, PairingRoutesKept DEF JoinRefused
    <2>2. /\ waitingRoom' = WithoutWaiting(StaleRooms)
          /\ creatorOf' = WithoutRooms(StaleRooms)
          /\ dropped' = CleanupDrops
      BY <1>5 DEF JoinRefused
    <2>3. RoomsInv' /\ GoneHasNothing'
      BY <1>1, <2>1, <2>2, RoomsDropped DEF PairingOK
    <2>4. RoomTypeOK'
      BY <2>2, CleanedRoomsType DEF RoomTypeOK, PairingOK
    <2> QED
      BY <2>1, <2>3, <2>4 DEF PairingOK
  <1>6. ASSUME NEW r \in RoomId, NEW p \in PairId, JoinPairs(c, r, p) PROVE PairingOK'
    <2>1. RoomTypeOK' /\ RoomsInv' /\ GoneHasNothing'
      BY <1>1, <1>6, RoomsJoin DEF PairingOK
    <2>2. RouteTypeOK' /\ RoutesInv'
      BY <1>1, <1>6, RoutesJoin DEF PairingOK
    <2> QED
      BY <2>1, <2>2 DEF PairingOK
  <1> QED
    BY <1>2, <1>3, <1>4, <1>5, <1>6 DEF RoomRequest

\* Pair requests do.
LEMMA PairingPairRequest ==
    ASSUME TypeParts, PairingOK, NEW c \in Conn, NEW p \in PairId, PairRequest(c, p)
    PROVE  PairingOK'
  <1>1. WireTypeOK /\ Lives
    BY PairRequestLives DEF TypeParts
  <1>2. CASE \/ NotMember(c, p) \/ ProofRepeated(c, p) \/ CloseWithoutRoute(c, p)
             \/ \E s \in SessionId, dir \in Roles : DataRefused(c, p, s, dir)
    BY <1>1, <1>2, PairingUntouched DEF NotMember, ProofRepeated, CloseWithoutRoute, DataRefused
  <1>3. ASSUME CloseRoute(p), UNCHANGED roomVars PROVE PairingOK'
    <2>1. Ends({p}) /\ RouteTypeOK' /\ Unpairing
      BY <1>3, CloseRouteEnds DEF PairingOK
    <2>2. {p} \in SUBSET PairId
      OBVIOUS
    <2>3. RoutesInv'
      BY <1>1, <2>1, <2>2, RoutesEnd DEF PairingOK, Lives
    <2>4. waitingRoom' = waitingRoom /\ creatorOf' = creatorOf /\ dropped' = dropped
      BY <1>3 DEF roomVars
    <2>5. RoomsInv' /\ GoneHasNothing'
      BY <1>1, <2>1, <2>4, RoomsKept DEF PairingOK
    <2> QED
      BY <2>1, <2>3, <2>4, <2>5 DEF PairingOK, RoomTypeOK
  <1>4. ASSUME c \in Members(p), pairId' = pairId, UNCHANGED roomVars,
               \/ route' = [route EXCEPT ![p].proved = @ \cup {Role(p, c)}]
               \/ \E s \in SessionId : route' = [route EXCEPT ![p].session = s]
        PROVE  PairingOK'
    <2>1. route \in [PairId -> RouteRecord \cup {NoRoute}] /\ route[p] \in RouteRecord
      BY <1>4, MembersOfRoute DEF PairingOK, RouteTypeOK
    <2>2. \A x \in RouteRecord : x # NoRoute
      BY RelayAssumption DEF RouteRecord, NoRoute
    <2>3. /\ route'[p] \in RouteRecord
          /\ route'[p].creator = route[p].creator
          /\ route'[p].joiner = route[p].joiner
          /\ route'[p].room = route[p].room
      <3>1. Role(p, c) \in Roles
        BY DEF Role, Roles
      <3>2. CASE route' = [route EXCEPT ![p].proved = @ \cup {Role(p, c)}]
        BY <2>1, <3>1, <3>2 DEF RouteRecord
      <3>3. ASSUME NEW s \in SessionId, route' = [route EXCEPT ![p].session = s]
            PROVE  /\ route'[p] \in RouteRecord
                   /\ route'[p].creator = route[p].creator
                   /\ route'[p].joiner = route[p].joiner
                   /\ route'[p].room = route[p].room
        BY <2>1, <3>3 DEF RouteRecord
      <3> QED
        BY <1>4, <3>2, <3>3
    <2>4. /\ \A q \in PairId \ {p} : route'[q] = route[q]
          /\ route' \in [PairId -> RouteRecord \cup {NoRoute}]
      BY <1>4, <2>1, <2>3
    <2>5. SameMembers
      BY <2>1, <2>2, <2>3, <2>4 DEF SameMembers
    <2>6. RoutesInv' /\ Unpairing
      BY <1>1, <1>4, <2>5, RoutesKept DEF PairingOK, Unpairing
    <2>7. waitingRoom' = waitingRoom /\ creatorOf' = creatorOf /\ dropped' = dropped
      BY <1>4 DEF roomVars
    <2>8. RoomsInv' /\ GoneHasNothing'
      BY <1>1, <2>6, <2>7, RoomsKept DEF PairingOK
    <2> QED
      BY <1>4, <2>4, <2>6, <2>7, <2>8 DEF PairingOK, RoomTypeOK, RouteTypeOK
  <1>5. CASE ProofLate(c, p)
    BY <1>3, <1>5 DEF ProofLate
  <1>6. CASE SessionClose(c, p)
    BY <1>3, <1>6 DEF SessionClose
  <1>7. CASE Proof(c, p)
    BY <1>4, <1>7 DEF Proof
  <1>8. ASSUME NEW s \in SessionId, NEW dir \in Roles, Data(c, p, s, dir) PROVE PairingOK'
    BY <1>4, <1>8 DEF Data
  <1> QED
    BY <1>2, <1>5, <1>6, <1>7, <1>8 DEF PairRequest

\* Maintenance and rotation do.
LEMMA PairingOtherStep ==
    ASSUME TypeParts, PairingOK, OtherStep
    PROVE  PairingOK'
  <1>1. WireTypeOK /\ Lives
    BY OtherStepLives DEF TypeParts
  <1>2. CASE \/ \E c \in Conn : OtherFrame(c) \/ WriterSends(c) \/ CloseTask(c) \/ LoopEnds(c)
             \/ DeadlinePasses \/ RotationBegins
    BY <1>1, <1>2, PairingUntouched
       DEF OtherFrame, WriterSends, CloseTask, LoopEnds, DeadlinePasses, RotationBegins
  <1>3. CASE Maintenance
    <2>1. /\ route' = [p \in PairId |-> IF p \in LateRoutes THEN NoRoute ELSE route[p]]
          /\ pairId' = [c \in Conn |-> IF c \in LateMembers THEN None ELSE pairId[c]]
          /\ waitingRoom' = WithoutWaiting(StaleRooms)
          /\ creatorOf' = WithoutRooms(StaleRooms)
          /\ dropped' = dropped
      BY <1>3 DEF Maintenance, MaintenanceBase
    <2>2. Ends(LateRoutes) /\ Unpairing /\ LateRoutes \in SUBSET PairId
      BY <2>1 DEF Ends, Unpairing, LateMembers, LateRoutes
    <2>3. RoutesInv'
      BY <1>1, <2>2, RoutesEnd DEF PairingOK, Lives
    <2>4. RoomsInv' /\ GoneHasNothing'
      BY <1>1, <2>1, <2>2, RoomsDropped DEF PairingOK
    <2>5. RoomTypeOK'
      BY <2>1, CleanedRoomsType DEF PairingOK, RoomTypeOK
    <2>6. RouteTypeOK'
      BY <2>1 DEF PairingOK, RouteTypeOK
    <2> QED
      BY <2>3, <2>4, <2>5, <2>6 DEF PairingOK
  <1>4. CASE MaintenanceDies
    <2>1. /\ waitingRoom' = WithoutWaiting(StaleRooms)
          /\ creatorOf' = WithoutRooms(StaleRooms)
          /\ UNCHANGED routeVars
          /\ dropped' \subseteq dropped \cup ToTell
      BY <1>4 DEF MaintenanceDies, MaintenanceBase
    <2>2. RouteTypeOK' /\ RoutesInv' /\ Unpairing
      BY <1>1, <2>1, PairingRoutesKept
    <2>3. RoomsInv' /\ GoneHasNothing'
      BY <1>1, <2>1, <2>2, RoomsDropped DEF PairingOK
    <2>4. RoomTypeOK'
      BY <2>1, CleanedRoomsType DEF PairingOK, RoomTypeOK, ToTell
    <2> QED
      BY <2>2, <2>3, <2>4 DEF PairingOK
  <1>5. CASE RotationEnds
    <2>1. /\ creatorOf' = [r \in RoomId |-> None]
          /\ route' = [p \in PairId |-> NoRoute]
          /\ waitingRoom' = waitingRoom /\ pairId' = pairId
          /\ dropped' = dropped /\ status' = status
          /\ \A c \in Conn : status[c] \in {"none", "ending"}
      BY <1>5 DEF RotationEnds, wireVars
    <2>2. \A c \in Conn : status'[c] # "ending" => waitingRoom'[c] = None /\ pairId'[c] = None
      BY <2>1 DEF PairingOK, GoneHasNothing
    <2>3. RoomsInv' /\ GoneHasNothing'
      BY <2>1, <2>2 DEF RoomsInv, GoneHasNothing
    <2>4. \A p \in PairId : p # None
      BY RelayAssumption
    <2>5. RoutesInv'
      BY <2>1, <2>2, <2>4 DEF RoutesInv
    <2>6. RoomTypeOK' /\ RouteTypeOK'
      BY <2>1 DEF PairingOK, RoomTypeOK, RouteTypeOK
    <2> QED
      BY <2>3, <2>5, <2>6 DEF PairingOK
  <1> QED
    BY <1>2, <1>3, <1>4, <1>5 DEF OtherStep

\* Every step does.
LEMMA PairingStep ==
    ASSUME TypeParts, PairingOK, [Next]_vars
    PROVE  PairingOK'
  <1>1. ASSUME NEW c \in Conn, Accept(c) PROVE PairingOK'
    <2>1. status[c] = "none" /\ status' = [status EXCEPT ![c] = "open"]
      BY <1>1, AcceptLives
    <2>2. /\ waitingRoom' = waitingRoom /\ creatorOf' = creatorOf /\ dropped' = dropped
          /\ pairId' = pairId /\ route' = route
      BY <1>1 DEF Accept, roomVars, routeVars
    <2>3. status \in [Conn -> States] /\ waitingRoom[c] = None /\ pairId[c] = None
      BY <2>1 DEF TypeParts, WireTypeOK, PairingOK, GoneHasNothing
    <2>4. \A d \in Conn \ {c} : status'[d] = status[d]
      BY <2>1, <2>3
    <2>5. status'[c] = "open"
      BY <2>1, <2>3
    <2>6. RoomsInv' /\ GoneHasNothing'
      BY <2>2, <2>3, <2>4, <2>5 DEF PairingOK, RoomsInv, GoneHasNothing
    <2>7. \A p \in PairId : Members(p)' = Members(p) /\ p # None
      BY <2>2, RelayAssumption DEF Members
    <2>8. RoutesInv'
      BY <2>2, <2>3, <2>4, <2>7 DEF PairingOK, RoutesInv
    <2> QED
      BY <2>2, <2>6, <2>8 DEF PairingOK, RoomTypeOK, RouteTypeOK
  <1>2. ASSUME NEW c \in Conn, ConnectionClosed(c) PROVE PairingOK'
    <2>1. RouteTypeOK' /\ RoutesInv' /\ Unpairing /\ pairId'[c] = None
      BY <1>2, RoutesLeft DEF PairingOK
    <2>2. RoomTypeOK' /\ RoomsInv' /\ GoneHasNothing'
      BY <1>2, <2>1, RoomsRemoved DEF PairingOK
    <2> QED
      BY <2>1, <2>2 DEF PairingOK
  <1>3. CASE UNCHANGED vars
    BY <1>3, PairingUntouched DEF vars, wireVars, Lives
  <1> QED
    BY <1>1, <1>2, <1>3, PairingRoomRequest, PairingPairRequest, PairingOtherStep
       DEF Next, Request, OtherStep

-----------------------------------------------------------------------------
(* A room serves one creator or one route. *)

\* Rooms are only dropped, routes only end or keep their room.
Shrinks ==
    /\ \A r \in RoomId : creatorOf'[r] = creatorOf[r] \/ creatorOf'[r] = None
    /\ \A p \in PairId :
          route'[p] = NoRoute \/ (route[p] # NoRoute /\ route'[p].room = route[p].room)

\* Dropping rooms and ending routes leaves one user of a room.
LEMMA PhraseShrinks ==
    ASSUME RouteTypeOK, PhraseServesOnce, Shrinks
    PROVE  PhraseServesOnce'
  <1>1. NoRoute.room = None /\ None \notin RoomId
    BY RelayAssumption DEF NoRoute
  <1>2. \A p \in PairId : route[p] # NoRoute => route[p].room \in RoomId
    BY DEF RouteTypeOK, RouteRecord
  <1> SUFFICES ASSUME NEW p \in PairId, route'[p] # NoRoute
               PROVE  /\ creatorOf'[route'[p].room] = None
                      /\ \A q \in PairId \ {p} : route'[q].room # route'[p].room
    BY DEF PhraseServesOnce
  <1>3. route[p] # NoRoute /\ route'[p].room = route[p].room /\ route[p].room \in RoomId
    BY <1>2 DEF Shrinks
  <1>4. creatorOf'[route'[p].room] = None
    BY <1>3 DEF Shrinks, PhraseServesOnce
  <1>5. ASSUME NEW q \in PairId \ {p} PROVE route'[q].room # route'[p].room
    <2>1. CASE route'[q] = NoRoute
      BY <1>1, <1>3, <2>1
    <2>2. CASE route'[q] # NoRoute
      <3>1. route'[q].room = route[q].room
        BY <2>2 DEF Shrinks
      <3> QED
        BY <1>3, <3>1 DEF PhraseServesOnce
    <2> QED
      BY <2>1, <2>2
  <1> QED
    BY <1>4, <1>5

\* create_waiting_room refuses a room that has a route.
LEMMA PhraseWait ==
    ASSUME RoomTypeOK, RouteTypeOK, PhraseServesOnce,
           NEW c \in Conn, NEW r \in RoomId, SessionWait(c, r)
    PROVE  PhraseServesOnce'
  <1> DEFINE C == WithoutRooms(StaleRooms)
  <1>1. route' = route
    BY DEF SessionWait, routeVars
  <1>2. \A q \in RoomId : C[q] = creatorOf[q] \/ C[q] = None
    BY DEF WithoutRooms
  <1>3. C = [q \in RoomId |-> IF q \in StaleRooms THEN None ELSE creatorOf[q]]
    BY DEF WithoutRooms
  <1>4. \/ creatorOf' = C
        \/ creatorOf' = [C EXCEPT ![r] = c] /\ RoomFree(r)
    BY DEF SessionWait
  <1>5. CASE creatorOf' = C
    <2>1. Shrinks
      BY <1>1, <1>2, <1>5 DEF Shrinks
    <2> QED
      BY <2>1, PhraseShrinks
  <1>6. CASE creatorOf' = [C EXCEPT ![r] = c] /\ RoomFree(r)
    <2>1. \A p \in PairId : route[p].room # r
      BY <1>6 DEF RoomFree
    <2>2. \A q \in RoomId \ {r} : creatorOf'[q] = C[q]
      BY <1>3, <1>6
    <2>3. \A p \in PairId : route[p] # NoRoute => route[p].room \in RoomId
      BY DEF RouteTypeOK, RouteRecord
    <2> HIDE DEF C
    <2> QED
      BY <1>1, <1>2, <2>1, <2>2, <2>3 DEF PhraseServesOnce
  <1> QED
    BY <1>4, <1>5, <1>6

\* A join moves the room from its creator to the route.
LEMMA PhraseJoin ==
    ASSUME RoomTypeOK, RouteTypeOK, PhraseServesOnce,
           NEW c \in Conn, NEW r \in RoomId, NEW p \in PairId, JoinPairs(c, r, p)
    PROVE  PhraseServesOnce'
  <1>1. /\ route[p] = NoRoute /\ creatorOf[r] # None
        /\ creatorOf' = WithoutRooms(StaleRooms \cup {r})
        /\ route' = [route EXCEPT ![p] =
                       [room |-> r, creator |-> creatorOf[r], joiner |-> c, proved |-> {},
                        session |-> None]]
    BY DEF JoinPairs, FreshPair
  <1>2. creatorOf'[r] = None /\ \A q \in RoomId : creatorOf'[q] = creatorOf[q] \/ creatorOf'[q] = None
    BY <1>1 DEF WithoutRooms
  <1>3. route'[p].room = r /\ \A q \in PairId \ {p} : route'[q] = route[q]
    BY <1>1 DEF RouteTypeOK
  <1>4. NoRoute.room = None /\ r # None
    BY RelayAssumption DEF NoRoute
  <1>5. \A q \in PairId : route[q].room # r
    BY <1>1, <1>4 DEF PhraseServesOnce
  <1>6. \A q \in PairId : route[q] # NoRoute => route[q].room \in RoomId
    BY DEF RouteTypeOK, RouteRecord
  <1> QED
    BY <1>2, <1>3, <1>5, <1>6 DEF PhraseServesOnce

\* Every step leaves one user of a room.
LEMMA PhraseStep ==
    ASSUME TypeParts, PairingOK, PhraseServesOnce, [Next]_vars
    PROVE  PhraseServesOnce'
  <1>1. RoomTypeOK /\ RouteTypeOK
    BY DEF PairingOK
  <1>2. ASSUME UNCHANGED <<creatorOf, route>> PROVE Shrinks
    BY <1>2 DEF Shrinks
  <1>3. ASSUME creatorOf' = WithoutRooms(StaleRooms), UNCHANGED route PROVE Shrinks
    BY <1>3 DEF Shrinks, WithoutRooms
  <1>4. ASSUME NEW c \in Conn, RoomRequest(c) \/ CloseUnanswered(c) PROVE PhraseServesOnce'
    <2>1. CASE \/ \E t \in Token : ReserveDisplay(c, t)
               \/ JoinLimited(c) \/ CloseUnanswered(c)
      BY <1>1, <1>2, <2>1, PhraseShrinks
         DEF ReserveDisplay, JoinLimited, CloseUnanswered, roomVars, routeVars
    <2>2. CASE SessionCancel(c)
      <3>1. Shrinks
        BY <2>2 DEF SessionCancel, routeVars, Shrinks, PairingOK, RoomTypeOK
      <3> QED
        BY <1>1, <3>1, PhraseShrinks
    <2>3. ASSUME NEW r \in RoomId, JoinRefused(c, r) PROVE PhraseServesOnce'
      BY <1>1, <1>3, <2>3, PhraseShrinks DEF JoinRefused, routeVars
    <2> QED
      BY <1>1, <1>4, <2>1, <2>2, <2>3, PhraseWait, PhraseJoin DEF RoomRequest
  <1>5. ASSUME NEW c \in Conn, NEW p \in PairId, PairRequest(c, p) PROVE PhraseServesOnce'
    <2>1. creatorOf' = creatorOf
      BY <1>5 DEF PairRequest, NotMember, ProofLate, ProofRepeated, Proof, CloseWithoutRoute,
                  SessionClose, DataRefused, Data, roomVars
    <2>2. CASE route' = route
      BY <1>1, <1>2, <2>1, <2>2, PhraseShrinks
    <2>3. CASE CloseRoute(p)
      BY <1>1, <2>1, <2>3, PhraseShrinks DEF CloseRoute, WithoutRoute, Shrinks, RouteTypeOK
    <2>4. ASSUME c \in Members(p),
                 \/ route' = [route EXCEPT ![p].proved = @ \cup {Role(p, c)}]
                 \/ \E s \in SessionId : route' = [route EXCEPT ![p].session = s]
          PROVE  PhraseServesOnce'
      <3>1. route[p] # NoRoute /\ route[p] \in RouteRecord
        BY <1>1, <2>4, MembersOfRoute DEF Members
      <3>2. route'[p].room = route[p].room
        BY <1>1, <2>4, <3>1 DEF RouteTypeOK, RouteRecord
      <3>3. \A q \in PairId \ {p} : route'[q] = route[q]
        BY <1>1, <2>4 DEF RouteTypeOK
      <3>4. Shrinks
        BY <2>1, <3>1, <3>2, <3>3 DEF Shrinks
      <3> QED
        BY <1>1, <3>4, PhraseShrinks
    <2> QED
      BY <1>5, <2>2, <2>3, <2>4
         DEF PairRequest, NotMember, ProofLate, ProofRepeated, Proof, CloseWithoutRoute,
             SessionClose, DataRefused, Data, routeVars
  <1>6. CASE OtherStep
    <2>1. CASE \/ \E c \in Conn : OtherFrame(c) \/ WriterSends(c) \/ CloseTask(c) \/ LoopEnds(c)
               \/ DeadlinePasses \/ RotationBegins
      BY <1>1, <1>2, <2>1, PhraseShrinks
         DEF OtherFrame, WriterSends, CloseTask, LoopEnds, DeadlinePasses, RotationBegins,
             roomVars, routeVars
    <2>2. CASE Maintenance
      <3>1. Shrinks
        BY <1>1, <2>2 DEF Maintenance, MaintenanceBase, WithoutRooms, Shrinks, RouteTypeOK
      <3> QED
        BY <1>1, <3>1, PhraseShrinks
    <2>3. CASE MaintenanceDies
      BY <1>1, <1>3, <2>3, PhraseShrinks DEF MaintenanceDies, MaintenanceBase, routeVars
    <2>4. CASE RotationEnds
      BY <1>1, <2>4, PhraseShrinks DEF RotationEnds, Shrinks
    <2> QED
      BY <1>6, <2>1, <2>2, <2>3, <2>4 DEF OtherStep
  <1>7. ASSUME NEW c \in Conn, Accept(c) PROVE PhraseServesOnce'
    BY <1>1, <1>2, <1>7, PhraseShrinks DEF Accept, roomVars, routeVars
  <1>8. ASSUME NEW c \in Conn, ConnectionClosed(c) PROVE PhraseServesOnce'
    <2> DEFINE p == PairOf(c)
    <2>1. creatorOf' = WithoutRooms(OwnRoom(c))
      BY <1>8 DEF ConnectionClosed
    <2>2. route' = route \/ (p # None /\ route' = WithoutRoute(p))
      BY <1>8 DEF ConnectionClosed, CloseRoute
    <2>3. p # None => p \in PairId
      BY <1>1 DEF PairOf, RouteTypeOK
    <2>4. \A r \in RoomId : creatorOf'[r] = creatorOf[r] \/ creatorOf'[r] = None
      BY <2>1 DEF WithoutRooms
    <2> HIDE DEF p
    <2>5. Shrinks
      BY <1>1, <2>2, <2>3, <2>4 DEF Shrinks, WithoutRoute, RouteTypeOK
    <2> QED
      BY <1>1, <2>5, PhraseShrinks
  <1>9. CASE UNCHANGED vars
    BY <1>1, <1>2, <1>9, PhraseShrinks DEF vars, roomVars, routeVars
  <1> QED
    BY <1>4, <1>5, <1>6, <1>7, <1>8, <1>9 DEF Next, Request, OtherStep

-----------------------------------------------------------------------------
(* The inductive invariant and the theorems. *)

RelayInv ==
    /\ TypeParts
    /\ DisplaysInv
    /\ RoomsInv
    /\ RoutesInv
    /\ GoneHasNoDisplay
    /\ GoneHasNothing
    /\ PhraseServesOnce

\* A relay that has just been created.
LEMMA InitInv == Init => RelayInv
  <1> SUFFICES ASSUME Init PROVE RelayInv
    OBVIOUS
  <1>1. TypeParts
    BY DEF Init, TypeParts, WireTypeOK, DisplayTypeOK, RoomTypeOK, RouteTypeOK, States, News
  <1>2. DisplaysInv /\ GoneHasNoDisplay
    BY DEF Init, DisplaysInv, GoneHasNoDisplay
  <1>3. RoomsInv /\ GoneHasNothing
    BY DEF Init, RoomsInv, GoneHasNothing
  <1>4. RoutesInv
    BY RelayAssumption DEF Init, RoutesInv
  <1>5. PhraseServesOnce
    BY DEF Init, PhraseServesOnce
  <1> QED
    BY <1>1, <1>2, <1>3, <1>4, <1>5 DEF RelayInv

\* Deadlines and flags.
FlagsOK ==
    /\ overdue \subseteq Token \cup RoomId \cup PairId
    /\ maintaining \in BOOLEAN
    /\ rotating \in BOOLEAN

\* Deadlines are those of tokens, rooms and pairs; the flags are Booleans.
LEMMA FlagsStep == TypeParts /\ [Next]_vars => FlagsOK'
  <1> SUFFICES ASSUME TypeParts, [Next]_vars PROVE FlagsOK'
    OBVIOUS
  <1>1. FlagsOK
    BY DEF TypeParts, FlagsOK
  <1>2. ASSUME overdue' \subseteq overdue, maintaining' = maintaining, rotating' = rotating
        PROVE  FlagsOK'
    BY <1>1, <1>2 DEF FlagsOK
  <1>3. ASSUME NEW c \in Conn, RoomRequest(c) \/ CloseUnanswered(c) PROVE FlagsOK'
    BY <1>2, <1>3 DEF RoomRequest, CloseUnanswered, ReserveDisplay, SessionCancel, JoinLimited,
                      SessionWait, JoinRefused, JoinPairs
  <1>4. ASSUME NEW c \in Conn, NEW p \in PairId, PairRequest(c, p) PROVE FlagsOK'
    BY <1>2, <1>4 DEF PairRequest, NotMember, ProofLate, ProofRepeated, Proof,
                      CloseWithoutRoute, SessionClose, DataRefused, Data
  <1>5. ASSUME NEW c \in Conn, \/ OtherFrame(c) \/ WriterSends(c) \/ CloseTask(c)
                               \/ LoopEnds(c) \/ Accept(c) \/ ConnectionClosed(c)
        PROVE  FlagsOK'
    BY <1>2, <1>5 DEF OtherFrame, WriterSends, CloseTask, LoopEnds, Accept, ConnectionClosed
  <1>6. CASE DeadlinePasses
    BY <1>1, <1>6 DEF DeadlinePasses, FlagsOK, TypeParts, DisplayTypeOK
  <1>7. CASE Maintenance
    BY <1>2, <1>7 DEF Maintenance, MaintenanceBase
  <1>8. CASE MaintenanceDies
    BY <1>1, <1>8 DEF MaintenanceDies, MaintenanceBase, FlagsOK
  <1>9. CASE RotationBegins \/ RotationEnds
    BY <1>1, <1>9 DEF RotationBegins, RotationEnds, FlagsOK
  <1>10. CASE UNCHANGED vars
    BY <1>2, <1>10 DEF vars
  <1> QED
    BY <1>3, <1>4, <1>5, <1>6, <1>7, <1>8, <1>9, <1>10 DEF Next, Request

\* The connections keep their types.
LEMMA WireStep == TypeParts /\ [Next]_vars => WireTypeOK'
  <1> SUFFICES ASSUME TypeParts, [Next]_vars PROVE WireTypeOK'
    OBVIOUS
  <1>1. CASE UNCHANGED vars
    BY <1>1 DEF vars, wireVars, WireTypeOK, TypeParts
  <1> QED
    BY <1>1, RoomRequestLives, PairRequestLives, OtherStepLives, AcceptLives,
       ClosedConnectionLives DEF Next, Request, OtherStep

\* The invariant is inductive.
LEMMA InvStep == RelayInv /\ [Next]_vars => RelayInv'
  <1> SUFFICES ASSUME RelayInv, [Next]_vars PROVE RelayInv'
    OBVIOUS
  <1>1. TypeParts /\ PairingOK
    BY DEF RelayInv, TypeParts, PairingOK
  <1>2. DisplayTypeOK' /\ DisplaysInv' /\ GoneHasNoDisplay'
    BY <1>1, DisplaysStep DEF RelayInv
  <1>3. PairingOK'
    BY <1>1, PairingStep
  <1>4. PhraseServesOnce'
    BY <1>1, PhraseStep DEF RelayInv
  <1>5. WireTypeOK' /\ FlagsOK'
    BY <1>1, WireStep, FlagsStep
  <1> QED
    BY <1>2, <1>3, <1>4, <1>5 DEF RelayInv, TypeParts, PairingOK, FlagsOK

\* The invariant holds in every reachable state.
LEMMA InvAlways == Spec => []RelayInv
  <1> QED
    BY InitInv, InvStep, PTL DEF Spec

\* The tables keep their types, whatever the connections do.
THEOREM RelayTypeCorrect == Spec => []TypeOK
  <1>1. RelayInv => TypeOK
    BY TypeIsParts DEF RelayInv
  <1> QED
    BY <1>1, InvAlways, PTL

\* A route and its two connections refer to each other, however closes,
\* timeouts, disconnects and a rotation meet (relay.py 528-558, 671-682).
THEOREM RoutesMatch == Spec => []RoutesMatchConnections
  <1>1. RelayInv => RoutesMatchConnections
    <2> SUFFICES ASSUME RelayInv PROVE RoutesMatchConnections
      OBVIOUS
    <2>1. RoutesInv /\ pairId \in [Conn -> PairId \cup {None}]
      BY DEF RelayInv, TypeParts, RouteTypeOK
    <2> QED
      BY <2>1 DEF RoutesInv, RoutesMatchConnections, Open
  <1> QED
    BY <1>1, InvAlways, PTL

\* A room is its creator's, and whoever waits is not paired (relay.py
\* 491-526, 719-741).
THEOREM RoomsMatch == Spec => []RoomsMatchConnections
  <1>1. RelayInv => RoomsMatchConnections
    BY DEF RelayInv, RoomsInv, RoomsMatchConnections, Open
  <1> QED
    BY <1>1, InvAlways, PTL

\* A comm phrase serves one comm at a time, for any number of users who know
\* it (relay.py 499-504).
THEOREM PhraseOnce == Spec => []PhraseServesOnce
  <1>1. RelayInv => PhraseServesOnce
    BY DEF RelayInv
  <1> QED
    BY <1>1, InvAlways, PTL

\* An open connection's display ID is reserved for it alone (relay.py
\* 427-456).
THEOREM DisplaysReserved == Spec => []DisplaysAreReserved
  <1>1. RelayInv => DisplaysAreReserved
    BY DEF RelayInv, DisplaysInv, DisplaysAreReserved, Open
  <1> QED
    BY <1>1, InvAlways, PTL

\* A connection that is gone is in none of the tables (relay.py 427-440).
THEOREM DeadAreForgotten == Spec => []NothingRefersToTheDead
  <1>1. RelayInv => NothingRefersToTheDead
    <2> SUFFICES ASSUME RelayInv, NEW c \in Conn, status[c] = "none"
                 PROVE  /\ \A t \in Token : holder[t] # c
                        /\ \A r \in RoomId : creatorOf[r] # c
                        /\ \A p \in PairId : c \notin Members(p)
      BY DEF NothingRefersToTheDead
    <2>1. display[c] = None /\ waitingRoom[c] = None /\ pairId[c] = None
      BY DEF RelayInv, GoneHasNoDisplay, GoneHasNothing
    <2>2. None \notin Token /\ None \notin RoomId /\ None \notin PairId /\ None \notin Conn
      BY RelayAssumption
    <2>3. \A t \in Token : holder[t] # c
      BY <2>1, <2>2 DEF RelayInv, DisplaysInv
    <2>4. \A r \in RoomId : creatorOf[r] # c
      BY <2>1, <2>2 DEF RelayInv, RoomsInv
    <2>5. \A p \in PairId : c \notin Members(p)
      BY <2>1, <2>2 DEF RelayInv, RoutesInv, Members
    <2> QED
      BY <2>3, <2>4, <2>5
  <1> QED
    BY <1>1, InvAlways, PTL

=============================================================================

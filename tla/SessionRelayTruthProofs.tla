----------------------- MODULE SessionRelayTruthProofs ----------------------
(***************************************************************************)
(* The frames queued to an open client tell it the truth: proofs about     *)
(* ClientsAreToldTheTruth, for any number of connections, rooms and pairs. *)
(*                                                                         *)
(* A frame that finds a full queue dooms its receiver, and a handler that  *)
(* meets one ends its own connection; so whoever is still open after a     *)
(* step has been sent what the handler meant to send (SendEffect,          *)
(* ReturnEffect).  That the news are true rests on the invariant of the    *)
(* tables (RelayInv): only the members of a route carry its pair ID, and   *)
(* whoever waits has a room and no pair.                                   *)
(***************************************************************************)
EXTENDS SessionRelayProofs

\* The other member of the connection's pair has left its loop.
PeerEnding(c) == status[Peer(pairId[c], c)] = "ending"

\* What ClientsAreToldTheTruth says of one client.
TruthOf(c) ==
    status[c] = "open" =>
        /\ told[c] \in PairId => pairId[c] = told[c]
        /\ pairId[c] # None => told[c] = pairId[c] \/ PeerEnding(c)
        /\ waitingRoom[c] # None => told[c] = Waiting
        /\ told[c] = Waiting => waitingRoom[c] # None \/ pairId[c] # None \/ c \in dropped

\* A connection object that is not in use has been told nothing.
GoneHasNoNews == \A c \in Conn : status[c] = "none" => told[c] = Nothing

Truths == GoneHasNoNews /\ \A c \in Conn : TruthOf(c)

TruthInv == RelayInv /\ Truths

-----------------------------------------------------------------------------
(* What is sent *)

\* A frame concerns its receiver alone; who is still open afterwards has it.
LEMMA SendEffect ==
    ASSUME NEW w \in WireType, NEW c \in Conn, NEW news \in News,
           NEW v, v = Send(w, c, news)
    PROVE  /\ v \in WireType
           /\ \A x \in Conn \ {c} : v.told[x] = w.told[x] /\ v.status[x] = w.status[x]
           /\ v.status[c] = "open" => w.status[c] = "open"
           /\ v.told[c] \in {w.told[c], news}
           /\ v.ok => w.ok
           /\ w.ok /\ (v.ok \/ v.status[c] = "open") => v.told[c] = news /\ v.ok
           /\ w.ok /\ Accepts(w, c) => v.ok /\ v.status = w.status
           /\ w.ok /\ ~Accepts(w, c) => v.told = w.told
  <1>1. CASE ~w.ok
    BY <1>1 DEF Send, WireType
  <1>2. CASE w.ok /\ Accepts(w, c)
    <2>1. v = [w EXCEPT !.told[c] = news]
      BY <1>2 DEF Send
    <2> QED
      BY <1>2, <2>1 DEF WireType
  <1>3. CASE w.ok /\ ~Accepts(w, c)
    <2>1. v = [w EXCEPT !.status[c] = IF @ = "open" THEN "doomed" ELSE @, !.ok = FALSE]
      BY <1>3 DEF Send
    <2>2. v.told = w.told /\ v.ok = FALSE
      BY <2>1 DEF WireType
    <2>3. v.status = [w.status EXCEPT ![c] = IF @ = "open" THEN "doomed" ELSE @]
      BY <2>1 DEF WireType
    <2>5. w.status \in [Conn -> States] /\ w.told \in [Conn -> News]
      BY DEF WireType
    <2>7. v.status \in [Conn -> States]
      BY <2>3, <2>5 DEF States
    <2>8. v = [status |-> v.status, told |-> v.told, ok |-> v.ok]
      BY <2>1 DEF WireType
    <2>4. v \in WireType
      BY <2>2, <2>5, <2>7, <2>8 DEF WireType
    <2>6. v.status[c] # "open" /\ \A x \in Conn \ {c} : v.status[x] = w.status[x]
      BY <2>3, <2>5
    <2> QED
      BY <1>3, <2>2, <2>4, <2>6
  <1> QED
    BY <1>1, <1>2, <1>3

\* The same when an exception is caught.
LEMMA TrySendEffect ==
    ASSUME NEW w \in WireType, NEW c \in Conn, NEW news \in News,
           NEW v, v = TrySend(w, c, news)
    PROVE  /\ v \in WireType
           /\ \A x \in Conn \ {c} : v.told[x] = w.told[x] /\ v.status[x] = w.status[x]
           /\ v.status[c] = "open" => w.status[c] = "open"
           /\ v.told[c] \in {w.told[c], news}
           /\ v.ok = w.ok
           /\ w.ok /\ v.status[c] = "open" => v.told[c] = news
  <1> DEFINE u == Send(w, c, news)
  <1>1. /\ u \in WireType
        /\ \A x \in Conn \ {c} : u.told[x] = w.told[x] /\ u.status[x] = w.status[x]
        /\ u.status[c] = "open" => w.status[c] = "open"
        /\ u.told[c] \in {w.told[c], news}
        /\ w.ok /\ u.status[c] = "open" => u.told[c] = news
    BY SendEffect
  <1>2. v = [u EXCEPT !.ok = w.ok]
    BY DEF TrySend
  <1> HIDE DEF u
  <1>3. v \in WireType /\ v.told = u.told /\ v.status = u.status /\ v.ok = w.ok
    BY <1>1, <1>2 DEF WireType
  <1> QED
    BY <1>1, <1>3

\* A handler that raised has ended its connection when it returns.
LEMMA ReturnEffect ==
    ASSUME NEW c \in Conn, NEW w \in WireType, Return(c, w)
    PROVE  /\ \A x \in Conn : told'[x] = w.told[x]
           /\ \A x \in Conn \ {c} : status'[x] = w.status[x]
           /\ status'[c] = "open" => w.ok /\ w.status[c] = "open"
           /\ ~w.ok => status'[c] = "ending"
  <1>1. w.status \in [Conn -> States] /\ w.ok \in BOOLEAN
    BY DEF WireType
  <1> QED
    BY <1>1 DEF Return

\* An invalid frame ends the connection of its sender.
LEMMA RefuseEffect ==
    ASSUME NEW c \in Conn, NEW w \in WireType, Refuse(c, w)
    PROVE  /\ \A x \in Conn : told'[x] = w.told[x]
           /\ \A x \in Conn \ {c} : status'[x] = w.status[x]
           /\ status'[c] # "open"
  <1> DEFINE v == TrySend(w, c, w.told[c])
             u == [v EXCEPT !.ok = FALSE]
  <1>1. w.told[c] \in News
    BY DEF WireType
  <1>2. /\ v \in WireType
        /\ \A x \in Conn \ {c} : v.told[x] = w.told[x] /\ v.status[x] = w.status[x]
        /\ v.told[c] \in {w.told[c], w.told[c]}
    BY <1>1, TrySendEffect
  <1>3. Return(c, u)
    BY DEF Refuse
  <1> HIDE DEF v
  <1>4. u \in WireType /\ u.told = v.told /\ u.status = v.status /\ u.ok = FALSE
    BY <1>2 DEF WireType
  <1> HIDE DEF u
  <1>5. /\ \A x \in Conn : told'[x] = u.told[x]
        /\ \A x \in Conn \ {c} : status'[x] = u.status[x]
        /\ status'[c] = "open" => u.ok /\ u.status[c] = "open"
    BY <1>3, <1>4, ReturnEffect
  <1> QED
    BY <1>2, <1>4, <1>5

-----------------------------------------------------------------------------
(* Steps that tell nobody anything new *)

\* The wire has told nobody anything new, and nobody was opened.
KeepsNews(w) ==
    /\ w \in WireType
    /\ \A x \in Conn : w.told[x] = told[x] /\ (w.status[x] = "open" => status[x] = "open")

\* The same of a step.
NewsKept ==
    \A x \in Conn : told'[x] = told[x] /\ (status'[x] = "open" => status[x] = "open")

\* Any other frame repeats what the client knows.
LEMMA AgainKeepsNews ==
    ASSUME WireTypeOK
    PROVE  /\ KeepsNews(Wire)
           /\ \A d \in Conn : KeepsNews(Send(Wire, d, told[d]))
           /\ \A c \in Conn, d \in Conn :
                KeepsNews(Send(Send(Wire, d, told[d]), c, told[c]))
  <1>1. KeepsNews(Wire)
    BY DEF WireTypeOK, KeepsNews, Wire, WireType
  <1>2. ASSUME NEW w, KeepsNews(w), NEW d \in Conn PROVE KeepsNews(Send(w, d, told[d]))
    <2>1. w \in WireType /\ told[d] \in News /\ w.told[d] = told[d]
      BY <1>2 DEF WireTypeOK, KeepsNews
    <2> DEFINE v == Send(w, d, told[d])
    <2>2. /\ v \in WireType
          /\ \A x \in Conn \ {d} : v.told[x] = w.told[x] /\ v.status[x] = w.status[x]
          /\ v.status[d] = "open" => w.status[d] = "open"
          /\ v.told[d] \in {w.told[d], told[d]}
      BY <2>1, SendEffect
    <2> HIDE DEF v
    <2>3. KeepsNews(v)
      BY <1>2, <2>1, <2>2 DEF KeepsNews
    <2> QED
      BY <2>3 DEF v
  <1> QED
    BY <1>1, <1>2

\* A handler that has told nobody anything new.
LEMMA HandledKeepsNews ==
    ASSUME NEW c \in Conn, NEW w, KeepsNews(w), Return(c, w) \/ Refuse(c, w)
    PROVE  NewsKept
  <1>1. w \in WireType
    BY DEF KeepsNews
  <1>2. CASE Return(c, w)
    <2>1. /\ \A x \in Conn : told'[x] = w.told[x]
          /\ \A x \in Conn \ {c} : status'[x] = w.status[x]
          /\ status'[c] = "open" => w.ok /\ w.status[c] = "open"
      BY <1>1, <1>2, ReturnEffect
    <2> QED
      BY <2>1 DEF KeepsNews, NewsKept
  <1>3. CASE Refuse(c, w)
    <2>1. /\ \A x \in Conn : told'[x] = w.told[x]
          /\ \A x \in Conn \ {c} : status'[x] = w.status[x]
          /\ status'[c] # "open"
      BY <1>1, <1>3, RefuseEffect
    <2> QED
      BY <2>1 DEF KeepsNews, NewsKept
  <1> QED
    BY <1>2, <1>3

\* A client whose own entries stay, and whose peer does not come back, is still
\* told the truth.
LEMMA TruthSame ==
    ASSUME NEW x \in Conn, TruthOf(x), status'[x] = "open" => status[x] = "open",
           told'[x] = told[x], waitingRoom'[x] = waitingRoom[x], pairId'[x] = pairId[x],
           x \in dropped => x \in dropped',
           status[x] = "open" /\ pairId[x] # None /\ PeerEnding(x) => PeerEnding(x)'
    PROVE  TruthOf(x)'
  BY DEF TruthOf

\* A peer that has left its loop is still the peer, and still ending.
LEMMA PeerStays ==
    ASSUME RelayInv, NEW x \in Conn, status[x] = "open", pairId[x] # None, PeerEnding(x),
           pairId'[x] = pairId[x],
           route'[pairId[x]].creator = route[pairId[x]].creator,
           route'[pairId[x]].joiner = route[pairId[x]].joiner,
           \A y \in Conn : pairId[y] = pairId[x] /\ status[y] = "ending" => status'[y] = "ending"
    PROVE  PeerEnding(x)'
  <1> DEFINE q == pairId[x]
             y == Peer(q, x)
  <1>1. q \in PairId
    BY DEF RelayInv, TypeParts, RouteTypeOK
  <1>2. x \in Members(q)
    BY <1>1 DEF RelayInv, RoutesInv
  <1>3. y \in Conn /\ y \in Members(q)
    BY <1>1, <1>2, MembersOfRoute DEF RelayInv, TypeParts
  <1>4. pairId[y] = q
    BY <1>1, <1>3 DEF RelayInv, RoutesInv, Members
  <1>5. status'[y] = "ending"
    BY <1>3, <1>4 DEF PeerEnding
  <1>6. Peer(q, x) = IF x = route[q].creator THEN route[q].joiner ELSE route[q].creator
    BY DEF Peer
  <1>7. PeerEnding(x)' = (status'[IF x = route'[q].creator THEN route'[q].joiner
                                  ELSE route'[q].creator] = "ending")
    BY DEF PeerEnding, Peer
  <1> QED
    BY <1>5, <1>6, <1>7

\* The tables that the news are about.
NewsTables == <<waitingRoom, pairId, dropped>>

\* Steps that change neither the news nor the tables they are about.
LEMMA TruthUntouched ==
    ASSUME TruthInv, Lives, NewsKept, SameMembers, UNCHANGED NewsTables
    PROVE  Truths'
  <1>1. RelayInv /\ Truths
    BY DEF TruthInv
  <1>2. waitingRoom' = waitingRoom /\ pairId' = pairId /\ dropped' = dropped
    BY DEF NewsTables
  <1>3. GoneHasNoNews'
    BY <1>1 DEF Truths, GoneHasNoNews, NewsKept, Lives
  <1>4. ASSUME NEW x \in Conn PROVE TruthOf(x)'
    <2>1. TruthOf(x) /\ told'[x] = told[x] /\ (status'[x] = "open" => status[x] = "open")
      BY <1>1 DEF Truths, NewsKept
    <2>2. ASSUME status[x] = "open", pairId[x] # None, PeerEnding(x) PROVE PeerEnding(x)'
      <3>1. pairId[x] \in PairId /\ x \in Members(pairId[x])
        BY <1>1, <2>2 DEF RelayInv, TypeParts, RouteTypeOK, RoutesInv
      <3>2. /\ route'[pairId[x]].creator = route[pairId[x]].creator
            /\ route'[pairId[x]].joiner = route[pairId[x]].joiner
        BY <3>1 DEF SameMembers, Members
      <3>3. \A y \in Conn : status[y] = "ending" => status'[y] = "ending"
        BY DEF Lives
      <3> QED
        BY <1>1, <1>2, <2>2, <3>2, <3>3, PeerStays
    <2> QED
      BY <1>2, <2>1, <2>2, TruthSame
  <1> QED
    BY <1>3, <1>4 DEF Truths

\* Requests that are answered, forwarded or refused without any change of rooms
\* and pairs.
LEMMA QuietRequest ==
    ASSUME TypeParts, NEW c \in Conn,
           \/ \E t \in Token : ReserveDisplay(c, t)
           \/ JoinLimited(c) \/ CloseUnanswered(c)
           \/ \E p \in PairId : NotMember(c, p) \/ ProofRepeated(c, p) \/ CloseWithoutRoute(c, p)
           \/ \E p \in PairId, s \in SessionId, dir \in Roles : DataRefused(c, p, s, dir)
    PROVE  NewsKept /\ SameMembers /\ UNCHANGED NewsTables
  <1>1. WireTypeOK
    BY DEF TypeParts
  <1>2. KeepsNews(Wire) /\ KeepsNews(Send(Wire, c, told[c]))
    BY <1>1, AgainKeepsNews
  <1>3. SameMembers /\ UNCHANGED NewsTables
    <2>1. UNCHANGED <<waitingRoom, pairId, dropped, route>>
      BY DEF ReserveDisplay, JoinLimited, CloseUnanswered, NotMember, ProofRepeated,
             CloseWithoutRoute, DataRefused, roomVars, routeVars
    <2> QED
      BY <2>1 DEF SameMembers, NewsTables
  <1>4. CASE CloseUnanswered(c)
    <2> DEFINE w == Send(Wire, c, Nothing)
    <2>1. ~Accepts(Wire, c) /\ Return(c, w)
      BY <1>4 DEF CloseUnanswered
    <2>2. Wire \in WireType /\ Wire.ok /\ Nothing \in News
      BY <1>2 DEF KeepsNews, Wire, News
    <2>3. /\ w \in WireType
          /\ \A x \in Conn \ {c} : w.told[x] = Wire.told[x] /\ w.status[x] = Wire.status[x]
          /\ w.status[c] = "open" => Wire.status[c] = "open"
          /\ w.told = Wire.told
      BY <2>1, <2>2, SendEffect
    <2> HIDE DEF w
    <2>4. KeepsNews(w)
      BY <1>2, <2>3 DEF KeepsNews
    <2> QED
      BY <1>3, <2>1, <2>4, HandledKeepsNews
  <1>5. CASE ~CloseUnanswered(c)
    <2>1. \/ Return(c, Send(Wire, c, told[c]))
          \/ Refuse(c, Wire)
          \/ Refuse(c, Send(Wire, c, told[c]))
      BY <1>5 DEF ReserveDisplay, JoinLimited, NotMember, ProofRepeated, CloseWithoutRoute,
                  DataRefused
    <2> QED
      BY <1>2, <1>3, <2>1, HandledKeepsNews
  <1> QED
    BY <1>4, <1>5

\* A proof or text that is forwarded leaves the members of its route alone.
LEMMA ForwardedRequest ==
    ASSUME TypeParts, NEW c \in Conn, NEW p \in PairId,
           \/ Proof(c, p)
           \/ \E s \in SessionId, dir \in Roles : Data(c, p, s, dir)
    PROVE  NewsKept /\ SameMembers /\ UNCHANGED NewsTables
  <1> DEFINE d == Peer(p, c)
  <1>1. /\ c \in Members(p)
        /\ UNCHANGED <<roomVars, pairId>>
        /\ Return(c, Send(Send(Wire, d, told[d]), c, told[c]))
    BY DEF Proof, Data
  <1>2. WireTypeOK /\ RouteTypeOK
    BY DEF TypeParts
  <1>3. d \in Conn /\ route[p] \in RouteRecord
    BY <1>1, <1>2, MembersOfRoute
  <1>4. NewsKept
    BY <1>1, <1>2, <1>3, AgainKeepsNews, HandledKeepsNews
  <1>5. UNCHANGED NewsTables
    BY <1>1 DEF NewsTables, roomVars
  <1>6. /\ route \in [PairId -> RouteRecord \cup {NoRoute}]
        /\ \A r \in RouteRecord : r # NoRoute
    BY <1>2, RelayAssumption DEF RouteTypeOK, RouteRecord, NoRoute
  <1>7. PICK new \in RouteRecord :
          /\ route' = [route EXCEPT ![p] = new]
          /\ new.creator = route[p].creator
          /\ new.joiner = route[p].joiner
          /\ new.room = route[p].room
    <2>1. CASE Proof(c, p)
      <3> DEFINE new == [route[p] EXCEPT !.proved = @ \cup {Role(p, c)}]
      <3>1. route' = [route EXCEPT ![p] = new]
        BY <2>1 DEF Proof
      <3>2. new \in RouteRecord
        BY <1>3 DEF RouteRecord, Role, Roles
      <3>3. new.creator = route[p].creator /\ new.joiner = route[p].joiner
            /\ new.room = route[p].room
        BY <1>3 DEF RouteRecord
      <3> QED
        BY <3>1, <3>2, <3>3
    <2>2. ASSUME NEW s \in SessionId, NEW dir \in Roles, Data(c, p, s, dir)
          PROVE  \E new \in RouteRecord :
                    /\ route' = [route EXCEPT ![p] = new]
                    /\ new.creator = route[p].creator
                    /\ new.joiner = route[p].joiner
                    /\ new.room = route[p].room
      <3> DEFINE new == [route[p] EXCEPT !.session = s]
      <3>1. route' = [route EXCEPT ![p] = new]
        BY <2>2 DEF Data
      <3>2. new \in RouteRecord
        BY <1>3 DEF RouteRecord
      <3>3. new.creator = route[p].creator /\ new.joiner = route[p].joiner
            /\ new.room = route[p].room
        BY <1>3 DEF RouteRecord
      <3> QED
        BY <3>1, <3>2, <3>3
    <2> QED
      BY <2>1, <2>2
  <1>8. SameMembers
    BY <1>3, <1>6, <1>7 DEF SameMembers
  <1> QED
    BY <1>4, <1>5, <1>8

\* The steps of the event loop, of time and of a beginning rotation.
LEMMA QuietStep ==
    ASSUME TypeParts,
           \/ \E c \in Conn : OtherFrame(c) \/ WriterSends(c) \/ CloseTask(c) \/ LoopEnds(c)
           \/ DeadlinePasses \/ RotationBegins
    PROVE  NewsKept /\ SameMembers /\ UNCHANGED NewsTables
  <1>1. UNCHANGED <<waitingRoom, pairId, dropped, route, told>>
    BY DEF OtherFrame, WriterSends, CloseTask, LoopEnds, DeadlinePasses, RotationBegins,
           roomVars, routeVars, wireVars
  <1>2. SameMembers /\ UNCHANGED NewsTables
    BY <1>1 DEF SameMembers, NewsTables
  <1>3. status \in [Conn -> States] /\ WireTypeOK
    BY DEF TypeParts, WireTypeOK
  <1>4. ASSUME NEW c \in Conn, OtherFrame(c)
        PROVE  \A x \in Conn : status'[x] = "open" => status[x] = "open"
    <2> DEFINE w == TrySend(Wire, c, told[c])
    <2>1. status' = w.status
      BY <1>4 DEF OtherFrame
    <2>2. Wire \in WireType /\ Wire.status = status /\ told[c] \in News
      BY <1>3 DEF WireTypeOK, Wire, WireType
    <2>3. /\ \A x \in Conn \ {c} : w.status[x] = Wire.status[x]
          /\ w.status[c] = "open" => Wire.status[c] = "open"
      BY <2>2, TrySendEffect
    <2> HIDE DEF w
    <2> QED
      BY <2>1, <2>2, <2>3
  <1>5. ASSUME NEW c \in Conn, WriterSends(c) \/ CloseTask(c) \/ LoopEnds(c)
        PROVE  \A x \in Conn : status'[x] = "open" => status[x] = "open"
    BY <1>3, <1>5 DEF WriterSends, CloseTask, LoopEnds
  <1>6. ASSUME DeadlinePasses \/ RotationBegins
        PROVE  \A x \in Conn : status'[x] = "open" => status[x] = "open"
    BY <1>3, <1>6 DEF DeadlinePasses, RotationBegins, wireVars
  <1>7. \A x \in Conn : status'[x] = "open" => status[x] = "open"
    BY <1>4, <1>5, <1>6
  <1> QED
    BY <1>1, <1>2, <1>7 DEF NewsKept

-----------------------------------------------------------------------------
(* Waiting rooms *)

\* The peer of a client whose routes and pair IDs nobody touches.
LEMMA PeerKept ==
    ASSUME RelayInv, Lives, UNCHANGED routeVars, NEW x \in Conn,
           status[x] = "open", pairId[x] # None, PeerEnding(x)
    PROVE  PeerEnding(x)'
  <1>1. pairId' = pairId /\ route' = route
    BY DEF routeVars
  <1>2. \A y \in Conn : status[y] = "ending" => status'[y] = "ending"
    BY DEF Lives
  <1> QED
    BY <1>1, <1>2, PeerStays

\* Whoever loses its room to the cleanup is remembered as dropped.
LEMMA TruthCleaned ==
    ASSUME TruthInv, NEW x \in Conn,
           told'[x] = told[x], pairId'[x] = pairId[x], status'[x] = "open" => status[x] = "open",
           status[x] = "open" /\ pairId[x] # None /\ PeerEnding(x) => PeerEnding(x)',
           waitingRoom'[x] = WithoutWaiting(StaleRooms)[x],
           x \in CleanupDrops => x \in dropped'
    PROVE  TruthOf(x)'
  <1> DEFINE r == waitingRoom[x]
  <1>1. RelayInv /\ TruthOf(x)
    BY DEF TruthInv, Truths
  <1>2. waitingRoom'[x] = IF r \in StaleRooms /\ creatorOf[r] = x THEN None ELSE r
    BY DEF WithoutWaiting
  <1>3. x \in dropped => x \in dropped'
    BY DEF CleanupDrops
  <1>4. CASE ~(r \in StaleRooms /\ creatorOf[r] = x)
    BY <1>1, <1>2, <1>3, <1>4, TruthSame
  <1>5. CASE r \in StaleRooms /\ creatorOf[r] = x
    <2> SUFFICES ASSUME status'[x] = "open"
                 PROVE  /\ told'[x] = Waiting
                        /\ waitingRoom'[x] = None /\ pairId'[x] = None
                        /\ x \in dropped'
      BY NewsAssumption DEF TruthOf
    <2>1. status[x] = "open" /\ r # None
      BY <1>5, RelayAssumption DEF StaleRooms
    <2>2. told[x] = Waiting
      BY <1>1, <2>1 DEF TruthOf
    <2>3. pairId[x] = None
      BY <1>1, <2>1 DEF RelayInv, RoomsInv
    <2>4. x \in CleanupDrops
      BY <1>5, <2>1 DEF CleanupDrops, Creators, Closed
    <2> QED
      BY <1>1, <1>2, <1>5, <2>2, <2>3, <2>4
  <1> QED
    BY <1>4, <1>5

\* A join that is refused.
LEMMA TruthJoinRefused ==
    ASSUME TruthInv, Lives, NEW c \in Conn, NEW r \in RoomId, JoinRefused(c, r)
    PROVE  Truths'
  <1>1. /\ UNCHANGED routeVars
        /\ waitingRoom' = WithoutWaiting(StaleRooms)
        /\ dropped' = CleanupDrops
        /\ Return(c, Send(Wire, c, told[c]))
    BY DEF JoinRefused
  <1>2. RelayInv /\ Truths /\ WireTypeOK
    BY DEF TruthInv, RelayInv, TypeParts
  <1>3. NewsKept
    BY <1>1, <1>2, AgainKeepsNews, HandledKeepsNews
  <1>4. GoneHasNoNews'
    BY <1>2, <1>3 DEF Truths, GoneHasNoNews, NewsKept, Lives
  <1>5. ASSUME NEW x \in Conn PROVE TruthOf(x)'
    <2>1. told'[x] = told[x] /\ (status'[x] = "open" => status[x] = "open")
      BY <1>3 DEF NewsKept
    <2> QED
      BY <1>1, <1>2, <2>1, TruthCleaned, PeerKept DEF routeVars
  <1> QED
    BY <1>4, <1>5 DEF Truths

\* What one frame, sent by a handler to its own client, changes.
LEMMA AnswerEffect ==
    ASSUME WireTypeOK, NEW c \in Conn, NEW news \in News, Return(c, Send(Wire, c, news))
    PROVE  /\ \A x \in Conn \ {c} : told'[x] = told[x] /\ status'[x] = status[x]
           /\ status'[c] = "open" => status[c] = "open" /\ told'[c] = news
  <1> DEFINE w == Send(Wire, c, news)
  <1>1. Wire \in WireType /\ Wire.ok /\ Wire.told = told /\ Wire.status = status
    BY DEF WireTypeOK, Wire, WireType
  <1>2. /\ w \in WireType
        /\ \A x \in Conn \ {c} : w.told[x] = told[x] /\ w.status[x] = status[x]
        /\ w.status[c] = "open" => status[c] = "open"
        /\ w.ok => w.told[c] = news
    BY <1>1, SendEffect
  <1> HIDE DEF w
  <1>3. Return(c, w)
    BY DEF w
  <1>4. /\ \A x \in Conn : told'[x] = w.told[x]
        /\ \A x \in Conn \ {c} : status'[x] = w.status[x]
        /\ status'[c] = "open" => w.ok /\ w.status[c] = "open"
    BY <1>2, <1>3, ReturnEffect
  <1> QED
    BY <1>2, <1>4

\* create_waiting_room tells its creator that it waits.
LEMMA TruthWait ==
    ASSUME TruthInv, Lives, NEW c \in Conn, NEW r \in RoomId, SessionWait(c, r)
    PROVE  Truths'
  <1> DEFINE ok == WithoutWaiting(StaleRooms)[c] = None /\ pairId[c] = None /\ RoomFree(r)
  <1>1. RelayInv /\ Truths /\ WireTypeOK /\ RoomTypeOK /\ Waiting \in News
    BY DEF TruthInv, RelayInv, TypeParts, News
  <1>2. UNCHANGED routeVars /\ pairId' = pairId /\ Handles(c)
    BY DEF SessionWait, Ready, routeVars
  <1>3. CASE ~ok
    <2>1. /\ waitingRoom' = WithoutWaiting(StaleRooms)
          /\ dropped' = CleanupDrops
          /\ Return(c, Send(Wire, c, told[c]))
      BY <1>3 DEF SessionWait
    <2>2. NewsKept
      BY <1>1, <2>1, AgainKeepsNews, HandledKeepsNews
    <2>3. GoneHasNoNews'
      BY <1>1, <2>2 DEF Truths, GoneHasNoNews, NewsKept, Lives
    <2>4. ASSUME NEW x \in Conn PROVE TruthOf(x)'
      <3>1. told'[x] = told[x] /\ (status'[x] = "open" => status[x] = "open")
        BY <2>2 DEF NewsKept
      <3> QED
        BY <1>1, <1>2, <2>1, <3>1, TruthCleaned, PeerKept
    <2> QED
      BY <2>3, <2>4 DEF Truths
  <1>4. CASE ok
    <2>1. /\ waitingRoom' = [WithoutWaiting(StaleRooms) EXCEPT ![c] = r]
          /\ dropped' = CleanupDrops \ {c}
          /\ Return(c, Send(Wire, c, Waiting))
      BY <1>4 DEF SessionWait
    <2>2. /\ \A x \in Conn \ {c} : told'[x] = told[x] /\ status'[x] = status[x]
          /\ status'[c] = "open" => status[c] = "open" /\ told'[c] = Waiting
      BY <1>1, <2>1, AnswerEffect
    <2>3. /\ waitingRoom'[c] = r
          /\ \A x \in Conn \ {c} : waitingRoom'[x] = WithoutWaiting(StaleRooms)[x]
      BY <2>1 DEF WithoutWaiting
    <2>4. GoneHasNoNews'
      BY <1>1, <1>2, <2>2 DEF Truths, GoneHasNoNews, Lives, Handles
    <2>5. ASSUME NEW x \in Conn \ {c} PROVE TruthOf(x)'
      <3>1. /\ told'[x] = told[x] /\ (status'[x] = "open" => status[x] = "open")
            /\ x \in CleanupDrops => x \in dropped'
        BY <2>1, <2>2
      <3> QED
        BY <1>1, <1>2, <2>3, <3>1, TruthCleaned, PeerKept
    <2>6. TruthOf(c)'
      BY <1>2, <1>4, <2>2, <2>3, NewsAssumption, RelayAssumption DEF TruthOf
    <2> QED
      BY <2>4, <2>5, <2>6 DEF Truths
  <1> QED
    BY <1>3, <1>4

\* cancel_waiting_room tells its connection that nothing is left, if there was a
\* room of its own.
LEMMA TruthCancel ==
    ASSUME TruthInv, Lives, NEW c \in Conn, SessionCancel(c)
    PROVE  Truths'
  <1> DEFINE r == waitingRoom[c]
             own == r # None /\ creatorOf[r] = c
             news == IF own THEN Nothing ELSE told[c]
  <1>1. RelayInv /\ Truths /\ WireTypeOK /\ waitingRoom \in [Conn -> RoomId \cup {None}]
    BY DEF TruthInv, RelayInv, TypeParts, RoomTypeOK
  <1>2. /\ UNCHANGED routeVars /\ pairId' = pairId /\ dropped' = dropped /\ Handles(c)
        /\ waitingRoom' = [waitingRoom EXCEPT ![c] = None]
        /\ Return(c, Send(Wire, c, news))
    BY DEF SessionCancel, Ready, routeVars
  <1>3. news \in News
    BY <1>1 DEF WireTypeOK, News
  <1> HIDE DEF news
  <1>4. /\ \A x \in Conn \ {c} : told'[x] = told[x] /\ status'[x] = status[x]
        /\ status'[c] = "open" => status[c] = "open" /\ told'[c] = news
    BY <1>1, <1>2, <1>3, AnswerEffect
  <1>5. GoneHasNoNews'
    BY <1>1, <1>2, <1>4 DEF Truths, GoneHasNoNews, Lives, Handles
  <1>6. ASSUME NEW x \in Conn \ {c} PROVE TruthOf(x)'
    <2>1. /\ TruthOf(x) /\ told'[x] = told[x] /\ (status'[x] = "open" => status[x] = "open")
          /\ waitingRoom'[x] = waitingRoom[x]
      BY <1>1, <1>2, <1>4 DEF Truths
    <2> QED
      BY <1>1, <1>2, <2>1, PeerKept, TruthSame
  <1>7. TruthOf(c)'
    <2> SUFFICES ASSUME status'[c] = "open" PROVE TruthOf(c)'
      BY DEF TruthOf
    <2>1. status[c] = "open" /\ told'[c] = news /\ waitingRoom'[c] = None /\ TruthOf(c)
      BY <1>1, <1>2, <1>4 DEF Truths
    <2>2. r # None => own /\ pairId[c] = None
      BY <1>1, <2>1 DEF RelayInv, RoomsInv
    <2>3. CASE own
      <3>1. told'[c] = Nothing
        BY <2>1, <2>3 DEF news
      <3> QED
        BY <1>2, <2>1, <2>2, <2>3, <3>1, NewsAssumption DEF TruthOf, Nothing, Waiting
    <2>4. CASE ~own
      <3>1. told'[c] = told[c] /\ waitingRoom[c] = None
        BY <2>1, <2>2, <2>4 DEF news
      <3> QED
        BY <1>1, <1>2, <1>4, <2>1, <3>1, PeerKept, TruthSame
    <2> QED
      BY <2>3, <2>4
  <1> QED
    BY <1>5, <1>6, <1>7 DEF Truths

-----------------------------------------------------------------------------
(* Pairs *)

\* A join tells the joiner and the creator of their pair; a creator that was not
\* told has a joiner that ends.
LEMMA TruthJoin ==
    ASSUME TruthInv, Lives, NEW c \in Conn, NEW r \in RoomId, NEW p \in PairId,
           JoinPairs(c, r, p)
    PROVE  Truths'
  <1>1. /\ RelayInv /\ Truths /\ WireTypeOK /\ RoomTypeOK /\ RouteTypeOK /\ RoomsInv
        /\ GoneHasNothing /\ p \in News /\ p # None
    BY RelayAssumption DEF TruthInv, RelayInv, TypeParts, News
  <1>2. PICK d \in Conn : d = creatorOf[r] /\ d # c /\ pairId[c] = None /\ pairId[d] = None
    BY <1>1, JoinersAreFree
  <1> DEFINE w1 == Send(Wire, c, p)
             w2 == Send(w1, d, p)
  <1>3. /\ Handles(c) /\ d # None /\ FreshPair(p)
        /\ route' = [route EXCEPT ![p] = [room |-> r, creator |-> d, joiner |-> c,
                                          proved |-> {}, session |-> None]]
        /\ pairId' = [pairId EXCEPT ![c] = p, ![d] = p]
        /\ waitingRoom' = [WithoutWaiting(StaleRooms) EXCEPT ![d] = None]
        /\ WithoutWaiting(StaleRooms)[c] = None
        /\ dropped' = CleanupDrops
    BY <1>2 DEF JoinPairs, Ready, JoinBusy
  <1>30. PICK w3 \in {Send(w2, c, p), [w2 EXCEPT !.ok = FALSE]} : Return(c, w3)
    BY <1>2 DEF JoinPairs
  <1>4. waitingRoom[d] = r /\ r # None
    BY <1>1, <1>2, <1>3, RelayAssumption DEF RoomsInv
  <1>5. Wire \in WireType /\ Wire.ok /\ Wire.told = told /\ Wire.status = status
    BY <1>1 DEF WireTypeOK, Wire, WireType
  <1>6. /\ w1 \in WireType
        /\ \A x \in Conn \ {c} : w1.told[x] = told[x] /\ w1.status[x] = status[x]
        /\ w1.status[c] = "open" => status[c] = "open"
    BY <1>1, <1>5, SendEffect
  <1> HIDE DEF w1
  <1>7. /\ w2 \in WireType
        /\ \A x \in Conn \ {d} : w2.told[x] = w1.told[x] /\ w2.status[x] = w1.status[x]
        /\ w2.status[d] = "open" => w1.status[d] = "open"
        /\ w2.told[d] \in {w1.told[d], p}
        /\ w2.ok => w1.ok
        /\ w2.ok => w2.told[d] = p
    BY <1>1, <1>2, <1>6, SendEffect
  <1> HIDE DEF w2
  <1>8. /\ w3 \in WireType
        /\ \A x \in Conn \ {c} : w3.told[x] = w2.told[x] /\ w3.status[x] = w2.status[x]
        /\ w3.status[c] = "open" => w2.status[c] = "open"
        /\ w3.ok => w2.ok
        /\ w3.ok => w3.told[c] = p
    <2>1. CASE w3 = Send(w2, c, p)
      BY <1>1, <1>7, <2>1, SendEffect
    <2>2. CASE w3 = [w2 EXCEPT !.ok = FALSE]
      <3>1. /\ w3 \in WireType /\ ~w3.ok
            /\ w3.told = w2.told /\ w3.status = w2.status
        BY <1>7, <2>2 DEF WireType
      <3> QED  BY <3>1
    <2> QED  BY <1>30, <2>1, <2>2
  <1>9. /\ \A x \in Conn : told'[x] = w3.told[x]
        /\ \A x \in Conn \ {c} : status'[x] = w3.status[x]
        /\ status'[c] = "open" => w3.ok /\ w3.status[c] = "open"
        /\ ~w3.ok => status'[c] = "ending"
    BY <1>3, <1>30, <1>8, ReturnEffect
  <1>10. /\ pairId'[c] = p /\ pairId'[d] = p
         /\ \A x \in Conn \ {c, d} : pairId'[x] = pairId[x]
    BY <1>1, <1>2, <1>3 DEF RouteTypeOK
  <1>11. /\ waitingRoom'[d] = None /\ waitingRoom'[c] = None
         /\ \A x \in Conn \ {c, d} : waitingRoom'[x] = WithoutWaiting(StaleRooms)[x]
    BY <1>2, <1>3 DEF WithoutWaiting
  <1>12. GoneHasNoNews'
    <2>1. status[d] # "none" /\ status[c] # "none"
      BY <1>1, <1>2, <1>3, <1>4 DEF GoneHasNothing, Handles
    <2>2. \A x \in Conn \ {c, d} : told'[x] = told[x]
      BY <1>6, <1>7, <1>8, <1>9
    <2> QED
      BY <1>1, <2>1, <2>2 DEF Truths, GoneHasNoNews, Lives
  <1>13. TruthOf(c)'
    <2>1. status'[c] = "open" => told'[c] = p
      BY <1>8, <1>9
    <2> QED
      BY <1>1, <1>10, <1>11, <2>1, NewsAssumption DEF TruthOf
  <1>14. TruthOf(d)'
    <2> SUFFICES ASSUME status'[d] = "open" PROVE TruthOf(d)'
      BY DEF TruthOf
    <2>1. status[d] = "open" /\ told[d] = Waiting
      BY <1>1, <1>2, <1>4, <1>6, <1>7, <1>8, <1>9 DEF Truths, TruthOf
    <2>2. told'[d] = p \/ (told'[d] = Waiting /\ ~w3.ok)
      BY <1>2, <1>6, <1>7, <1>8, <1>9, <2>1
    <2>3. ~w3.ok => PeerEnding(d)'
      <3>1. PeerEnding(d)' = (status'[IF d = route'[p].creator THEN route'[p].joiner
                                      ELSE route'[p].creator] = "ending")
        BY <1>10 DEF PeerEnding, Peer
      <3>2. route'[p].creator = d /\ route'[p].joiner = c
        BY <1>1, <1>3 DEF RouteTypeOK
      <3> QED
        BY <1>9, <3>1, <3>2
    <2> QED
      BY <1>1, <1>10, <1>11, <2>2, <2>3, NewsAssumption DEF TruthOf
  <1>15. ASSUME NEW x \in Conn \ {c, d} PROVE TruthOf(x)'
    <2>1. told'[x] = told[x] /\ (status'[x] = "open" => status[x] = "open")
      BY <1>6, <1>7, <1>8, <1>9
    <2>2. ASSUME status[x] = "open", pairId[x] # None, PeerEnding(x) PROVE PeerEnding(x)'
      <3>1. pairId[x] # p /\ pairId[x] \in PairId
        BY <1>1, <1>3, <2>2 DEF FreshPair, RouteTypeOK
      <3>2. route'[pairId[x]] = route[pairId[x]]
        BY <1>1, <1>3, <3>1 DEF RouteTypeOK
      <3>3. \A y \in Conn : status[y] = "ending" => status'[y] = "ending"
        BY DEF Lives
      <3> QED
        BY <1>1, <1>10, <2>2, <3>2, <3>3, PeerStays
    <2> QED
      BY <1>3, <1>10, <1>11, <2>1, <2>2, TruthCleaned
  <1> QED
    BY <1>12, <1>13, <1>14, <1>15 DEF Truths

\* The two members of a pair.
LEMMA PairOfMembers ==
    ASSUME RelayInv, NEW p \in PairId, NEW c \in Members(p)
    PROVE  /\ c \in Conn /\ Peer(p, c) \in Conn /\ Peer(p, c) # c
           /\ Members(p) = {c, Peer(p, c)}
           /\ \A x \in Members(p) : pairId[x] = p /\ status[x] # "none"
           /\ p # None
  <1>1. route[p] # NoRoute /\ Members(p) = {route[p].creator, route[p].joiner}
    BY DEF Members
  <1>2. Members(p) \subseteq Conn
    BY MembersOfRoute DEF RelayInv, TypeParts
  <1>3. route[p].creator # route[p].joiner /\ \A x \in Members(p) : pairId[x] = p
    BY <1>1 DEF RelayInv, RoutesInv
  <1>4. p # None
    BY RelayAssumption
  <1>5. \A x \in Members(p) : status[x] # "none"
    BY <1>2, <1>3, <1>4 DEF RelayInv, GoneHasNothing
  <1> QED
    BY <1>1, <1>2, <1>3, <1>4, <1>5 DEF Peer

\* _close_route tells both members that nothing is left.
LEMMA TruthClosed ==
    ASSUME TruthInv, NEW p \in PairId, CloseRoute(p), NEW x \in Conn,
           waitingRoom'[x] = waitingRoom[x], x \in dropped => x \in dropped',
           status'[x] = "open" => status[x] = "open",
           x \in Members(p) /\ status'[x] = "open" => told'[x] = Nothing,
           x \notin Members(p) => told'[x] = told[x],
           \A y \in Conn : pairId[y] # p /\ status[y] = "ending" => status'[y] = "ending"
    PROVE  TruthOf(x)'
  <1>1. RelayInv /\ TruthOf(x) /\ RoutesInv /\ RoomsInv /\ RouteTypeOK /\ p # None
    BY RelayAssumption DEF TruthInv, Truths, RelayInv, TypeParts
  <1>2. /\ pairId'[x] = IF x \in Members(p) THEN None ELSE pairId[x]
        /\ \A q \in PairId \ {p} : route'[q] = route[q]
    BY <1>1 DEF CloseRoute, Unpaired, WithoutRoute, RouteTypeOK
  <1> SUFFICES ASSUME status'[x] = "open" PROVE TruthOf(x)'
    BY DEF TruthOf
  <1>3. CASE x \in Members(p)
    <2>1. pairId[x] = p /\ status[x] = "open"
      BY <1>1, <1>3, PairOfMembers
    <2>2. waitingRoom[x] = None
      BY <1>1, <2>1 DEF RoomsInv
    <2> QED
      BY <1>2, <1>3, <2>2, NewsAssumption DEF TruthOf, Nothing, Waiting
  <1>4. CASE x \notin Members(p)
    <2>1. ASSUME status[x] = "open", pairId[x] # None, PeerEnding(x) PROVE PeerEnding(x)'
      <3>1. pairId[x] \in PairId /\ pairId[x] # p
        BY <1>1, <1>4, <2>1 DEF RouteTypeOK, RoutesInv
      <3>2. route'[pairId[x]] = route[pairId[x]]
        BY <1>2, <3>1
      <3>3. \A y \in Conn : pairId[y] = pairId[x] /\ status[y] = "ending" => status'[y] = "ending"
        BY <3>1
      <3> QED
        BY <1>1, <1>2, <1>4, <2>1, <3>2, <3>3, PeerStays
    <2> QED
      BY <1>1, <1>2, <1>4, <2>1, TruthSame
  <1> QED
    BY <1>3, <1>4

\* The same of all connections, when none of them disappears.
LEMMA TruthAllClosed ==
    ASSUME TruthInv, Lives, NEW p \in PairId, CloseRoute(p),
           waitingRoom' = waitingRoom, dropped' = dropped,
           \A x \in Conn :
               /\ status'[x] = "open" => status[x] = "open"
               /\ x \in Members(p) /\ status'[x] = "open" => told'[x] = Nothing
               /\ x \notin Members(p) => told'[x] = told[x]
    PROVE  Truths'
  <1>1. RelayInv /\ GoneHasNoNews
    BY DEF TruthInv, Truths
  <1>2. \A x \in Conn : status'[x] = "none" => status[x] = "none" /\ x \notin Members(p)
    BY <1>1, PairOfMembers DEF Lives
  <1>3. GoneHasNoNews'
    BY <1>1, <1>2 DEF GoneHasNoNews
  <1>4. \A y \in Conn : pairId[y] # p /\ status[y] = "ending" => status'[y] = "ending"
    BY DEF Lives
  <1>5. ASSUME NEW x \in Conn PROVE TruthOf(x)'
    BY <1>4, TruthClosed
  <1> QED
    BY <1>3, <1>5 DEF Truths

\* A proof after the deadline ends the pair.
LEMMA TruthProofLate ==
    ASSUME TruthInv, Lives, NEW c \in Conn, NEW p \in PairId, ProofLate(c, p)
    PROVE  Truths'
  <1>1. RelayInv /\ Truths /\ WireTypeOK /\ Nothing \in News
    BY DEF TruthInv, RelayInv, TypeParts, News
  <1>2. /\ c \in Members(p) /\ CloseRoute(p)
        /\ waitingRoom' = waitingRoom /\ dropped' = dropped
        /\ Refuse(c, NotifyClosed(Wire, p))
    BY DEF ProofLate, roomVars
  <1>3. PICK d \in Conn, e \in Conn :
          /\ d = route[p].creator /\ e = route[p].joiner /\ d # e
          /\ Members(p) = {d, e}
    BY <1>1, <1>2, PairOfMembers DEF Members, RelayInv, RoutesInv
  <1>4. Wire \in WireType /\ Wire.ok /\ Wire.told = told /\ Wire.status = status
    BY <1>1 DEF WireTypeOK, Wire, WireType
  <1> DEFINE v == TrySend(Wire, d, Nothing)
             w == TrySend(v, e, Nothing)
  <1>5. /\ v \in WireType /\ v.ok = Wire.ok
        /\ \A x \in Conn \ {d} : v.told[x] = Wire.told[x] /\ v.status[x] = Wire.status[x]
        /\ v.status[d] = "open" => Wire.status[d] = "open"
        /\ Wire.ok /\ v.status[d] = "open" => v.told[d] = Nothing
    <2>1. Wire \in WireType /\ d \in Conn /\ Nothing \in News
      BY <1>1, <1>4
    <2> QED
      BY <2>1, TrySendEffect
  <1> HIDE DEF v
  <1>6. /\ v \in WireType /\ v.ok
        /\ \A x \in Conn \ {d} : v.told[x] = told[x] /\ v.status[x] = status[x]
        /\ v.status[d] = "open" => status[d] = "open" /\ v.told[d] = Nothing
    BY <1>4, <1>5
  <1>7. /\ w \in WireType
        /\ \A x \in Conn \ {e} : w.told[x] = v.told[x] /\ w.status[x] = v.status[x]
        /\ w.status[e] = "open" => v.status[e] = "open" /\ w.told[e] = Nothing
    BY <1>1, <1>6, TrySendEffect
  <1> HIDE DEF w
  <1>8. Refuse(c, w)
    BY <1>2, <1>3 DEF NotifyClosed, w, v
  <1>9. /\ \A x \in Conn : told'[x] = w.told[x]
        /\ \A x \in Conn \ {c} : status'[x] = w.status[x]
        /\ status'[c] # "open"
    BY <1>7, <1>8, RefuseEffect
  <1>10. ASSUME NEW x \in Conn
        PROVE  /\ status'[x] = "open" => status[x] = "open"
               /\ x \in Members(p) /\ status'[x] = "open" => told'[x] = Nothing
               /\ x \notin Members(p) => told'[x] = told[x]
    BY <1>3, <1>6, <1>7, <1>9
  <1> QED
    BY <1>1, <1>2, <1>10, TruthAllClosed

\* session_close ends the pair, answers and tells the peer.
LEMMA TruthSessionClose ==
    ASSUME TruthInv, Lives, NEW c \in Conn, NEW p \in PairId, SessionClose(c, p)
    PROVE  Truths'
  <1>1. RelayInv /\ Truths /\ WireTypeOK /\ Nothing \in News
    BY DEF TruthInv, RelayInv, TypeParts, News
  <1>2. /\ c \in Members(p) /\ CloseRoute(p) /\ Accepts(Wire, c)
        /\ waitingRoom' = waitingRoom /\ dropped' = dropped
        /\ Return(c, TrySend(Send(Wire, c, Nothing), Peer(p, c), Nothing))
    BY DEF SessionClose, NotifyPeerClosed, roomVars
  <1>3. PICK d \in Conn : d = Peer(p, c) /\ d # c /\ Members(p) = {c, d}
    BY <1>1, <1>2, PairOfMembers
  <1>4. Wire \in WireType /\ Wire.ok /\ Wire.told = told /\ Wire.status = status
    BY <1>1 DEF WireTypeOK, Wire, WireType
  <1> DEFINE v == Send(Wire, c, Nothing)
             w == TrySend(v, d, Nothing)
  <1>5. /\ v \in WireType /\ v.ok
        /\ \A x \in Conn \ {c} : v.told[x] = told[x] /\ v.status[x] = status[x]
        /\ v.status[c] = "open" => status[c] = "open"
        /\ v.told[c] = Nothing
    BY <1>1, <1>2, <1>4, SendEffect
  <1> HIDE DEF v
  <1>6. /\ w \in WireType
        /\ \A x \in Conn \ {d} : w.told[x] = v.told[x] /\ w.status[x] = v.status[x]
        /\ w.status[d] = "open" => v.status[d] = "open" /\ w.told[d] = Nothing
    BY <1>1, <1>5, TrySendEffect
  <1> HIDE DEF w
  <1>7. Return(c, w)
    BY <1>2, <1>3 DEF w, v
  <1>8. /\ \A x \in Conn : told'[x] = w.told[x]
        /\ \A x \in Conn \ {c} : status'[x] = w.status[x]
        /\ status'[c] = "open" => w.status[c] = "open"
    BY <1>6, <1>7, ReturnEffect
  <1>9. ASSUME NEW x \in Conn
        PROVE  /\ status'[x] = "open" => status[x] = "open"
               /\ x \in Members(p) /\ status'[x] = "open" => told'[x] = Nothing
               /\ x \notin Members(p) => told'[x] = told[x]
    BY <1>3, <1>5, <1>6, <1>8
  <1> QED
    BY <1>1, <1>2, <1>9, TruthAllClosed

\* _connection_closed tells the peer; the pair of a connection without a route
\* concerns no open client.
LEMMA TruthConnectionClosed ==
    ASSUME TruthInv, NEW c \in Conn, ConnectionClosed(c)
    PROVE  Truths'
  <1> DEFINE w(p) == IF p = None THEN Wire ELSE NotifyPeerClosed(Wire, p, c)
  <1>1. RelayInv /\ Truths /\ WireTypeOK /\ RoomTypeOK /\ RouteTypeOK /\ Nothing \in News
    BY DEF TruthInv, RelayInv, TypeParts, News
  <1>2. /\ status[c] = "ending" /\ status'[c] = "none"
        /\ \A x \in Conn \ {c} :
              /\ status'[x] = "none" <=> status[x] = "none"
              /\ status'[x] # "ending" => status[x] # "ending"
    BY <1>1, ClosedConnectionLives DEF RelayInv
  <1>3. PICK p : p = PairOf(c)
    OBVIOUS
  <1>4. /\ IF p = None
           THEN pairId' = [pairId EXCEPT ![c] = None] /\ route' = route
           ELSE CloseRoute(p)
        /\ status' = [w(p).status EXCEPT ![c] = "none"]
        /\ told' = [w(p).told EXCEPT ![c] = Nothing]
        /\ waitingRoom' = [waitingRoom EXCEPT ![c] = None]
        /\ dropped' = dropped \ {c}
    BY <1>3 DEF ConnectionClosed
  <1>5. /\ \A x \in Conn \ {c} : waitingRoom'[x] = waitingRoom[x]
        /\ \A x \in Conn \ {c} : x \in dropped => x \in dropped'
    BY <1>1, <1>4 DEF RoomTypeOK
  <1>6. TruthOf(c)'
    BY <1>2 DEF TruthOf
  <1>7. CASE p = None
    <2>1. status \in [Conn -> States] /\ told \in [Conn -> News]
      BY <1>1 DEF WireTypeOK
    <2>2. /\ pairId' = [pairId EXCEPT ![c] = None] /\ route' = route
          /\ status' = [status EXCEPT ![c] = "none"]
          /\ told' = [told EXCEPT ![c] = Nothing]
      BY <1>4, <1>7 DEF Wire
    <2>3. pairId[c] = None \/ route[pairId[c]] = NoRoute
      BY <1>3, <1>7 DEF PairOf
    <2>4. told'[c] = Nothing /\ \A x \in Conn \ {c} : told'[x] = told[x] /\ status'[x] = status[x]
      BY <2>1, <2>2
    <2>5. GoneHasNoNews'
      BY <1>1, <2>4 DEF Truths, GoneHasNoNews
    <2>6. ASSUME NEW x \in Conn \ {c} PROVE TruthOf(x)'
      <3>1. pairId'[x] = pairId[x]
        BY <1>1, <2>2 DEF RouteTypeOK
      <3>2. ASSUME status[x] = "open", pairId[x] # None, PeerEnding(x) PROVE PeerEnding(x)'
        <4>1. pairId[x] \in PairId /\ route[pairId[x]] # NoRoute
          BY <1>1, <3>2 DEF RouteTypeOK, RelayInv, RoutesInv, Members
        <4>2. pairId[c] # pairId[x]
          BY <2>3, <3>2, <4>1
        <4>3. \A y \in Conn : pairId[y] = pairId[x] /\ status[y] = "ending" => status'[y] = "ending"
          BY <2>4, <4>2
        <4> QED
          BY <1>1, <2>2, <3>1, <3>2, <4>3, PeerStays
      <3>3. TruthOf(x)
        BY <1>1 DEF Truths
      <3> QED
        BY <1>5, <2>4, <3>1, <3>2, <3>3, TruthSame
    <2> QED
      BY <1>6, <2>5, <2>6 DEF Truths
  <1>8. CASE p # None
    <2>1. p \in PairId /\ pairId[c] = p /\ route[p] # NoRoute
      BY <1>1, <1>3, <1>8 DEF PairOf, RouteTypeOK
    <2>2. c \in Members(p)
      BY <1>1, <2>1 DEF RelayInv, RoutesInv
    <2>3. PICK d \in Conn : d = Peer(p, c) /\ d # c /\ Members(p) = {c, d}
      BY <1>1, <2>1, <2>2, PairOfMembers
    <2>4. Wire \in WireType /\ Wire.ok /\ Wire.told = told /\ Wire.status = status
      BY <1>1 DEF WireTypeOK, Wire, WireType
    <2> DEFINE v == TrySend(Wire, d, Nothing)
    <2>5. /\ v \in WireType
          /\ \A x \in Conn \ {d} : v.told[x] = told[x] /\ v.status[x] = status[x]
          /\ v.status[d] = "open" => status[d] = "open" /\ v.told[d] = Nothing
      BY <1>1, <2>4, TrySendEffect
    <2> HIDE DEF v
    <2>6. /\ CloseRoute(p)
          /\ status' = [v.status EXCEPT ![c] = "none"]
          /\ told' = [v.told EXCEPT ![c] = Nothing]
      BY <1>4, <1>8, <2>3 DEF NotifyPeerClosed, v
    <2>7. v.status \in [Conn -> States] /\ v.told \in [Conn -> News]
      BY <2>5 DEF WireType
    <2>8. /\ told'[c] = Nothing
          /\ \A x \in Conn \ {c} : told'[x] = v.told[x] /\ status'[x] = v.status[x]
      BY <2>6, <2>7
    <2>9. \A x \in Conn \ {c} :
             /\ status'[x] = "open" => status[x] = "open"
             /\ x \in Members(p) /\ status'[x] = "open" => told'[x] = Nothing
             /\ x \notin Members(p) => told'[x] = told[x]
      BY <2>3, <2>5, <2>8
    <2>10. GoneHasNoNews'
      <3>1. \A x \in Members(p) : status[x] # "none"
        BY <1>1, <2>1, <2>2, PairOfMembers
      <3> QED
        BY <1>1, <1>2, <2>8, <2>9, <3>1 DEF Truths, GoneHasNoNews
    <2>11. \A y \in Conn : pairId[y] # p /\ status[y] = "ending" => status'[y] = "ending"
      BY <1>2, <2>1
    <2>12. ASSUME NEW x \in Conn \ {c} PROVE TruthOf(x)'
      BY <1>5, <2>1, <2>6, <2>9, <2>11, TruthClosed
    <2> QED
      BY <1>6, <2>10, <2>12 DEF Truths
  <1> QED
    BY <1>7, <1>8

\* An accepted connection starts without news.
LEMMA TruthAccept ==
    ASSUME TruthInv, NEW c \in Conn, Accept(c)
    PROVE  Truths'
  <1>1. /\ RelayInv /\ Truths /\ GoneHasNothing /\ RouteTypeOK /\ RoutesInv
        /\ status \in [Conn -> States]
    BY DEF TruthInv, RelayInv, TypeParts, WireTypeOK
  <1>2. /\ status[c] = "none" /\ status' = [status EXCEPT ![c] = "open"]
        /\ UNCHANGED <<told, waitingRoom, dropped, pairId, route>>
    BY DEF Accept, roomVars, routeVars
  <1>3. status'[c] = "open" /\ \A x \in Conn \ {c} : status'[x] = status[x]
    BY <1>1, <1>2
  <1>4. told[c] = Nothing /\ waitingRoom[c] = None /\ pairId[c] = None
    BY <1>1, <1>2 DEF Truths, GoneHasNoNews, GoneHasNothing
  <1>5. GoneHasNoNews'
    BY <1>1, <1>2, <1>3 DEF Truths, GoneHasNoNews
  <1>6. TruthOf(c)'
    BY <1>2, <1>4, NewsAssumption DEF TruthOf, Nothing, Waiting
  <1>7. ASSUME NEW x \in Conn \ {c} PROVE TruthOf(x)'
    <2>1. \A y \in Conn : status[y] = "ending" => status'[y] = "ending"
      BY <1>2, <1>3
    <2>2. status[x] = "open" /\ pairId[x] # None /\ PeerEnding(x) => PeerEnding(x)'
      BY <1>1, <1>2, <2>1, PeerStays
    <2>3. TruthOf(x)
      BY <1>1 DEF Truths
    <2> QED
      BY <1>2, <1>3, <2>2, <2>3, TruthSame
  <1> QED
    BY <1>5, <1>6, <1>7 DEF Truths

-----------------------------------------------------------------------------
(* Maintenance and rotation *)

\* Those who are told and still open know that nothing is left.
LEMMA TellEffect ==
    ASSUME WireTypeOK, NEW S, Tell(S), NEW x \in Conn
    PROVE  /\ status'[x] = "open" => status[x] = "open"
           /\ x \in S /\ status'[x] = "open" => Accepts(Wire, x) /\ told'[x] = Nothing
           /\ x \notin S => told'[x] = told[x]
           /\ status'[x] = "none" => status[x] = "none" /\ told'[x] = told[x]
           /\ status[x] = "ending" => status'[x] = "ending"
  <1>1. /\ status'[x] = IF x \in S /\ ~Accepts(Wire, x) /\ status[x] = "open"
                        THEN "doomed" ELSE status[x]
        /\ told'[x] = IF x \in S /\ Accepts(Wire, x) THEN Nothing ELSE told[x]
    BY DEF Tell
  <1>2. Accepts(Wire, x) => status[x] \in {"open", "doomed"}
    BY DEF Accepts, Wire
  <1> QED
    BY <1>1, <1>2

\* An open creator of a dropped room waits for it and is in no pair.
LEMMA ToldCreators ==
    ASSUME RelayInv, NEW x \in ToTell
    PROVE  x \in Conn /\ WithoutWaiting(StaleRooms)[x] = None /\ pairId[x] = None
  <1>1. PICK r \in StaleRooms : x = creatorOf[r]
    BY DEF ToTell, Creators
  <1>2. r \in RoomId /\ creatorOf[r] # None /\ r # None
    BY <1>1, RelayAssumption DEF StaleRooms
  <1>3. x \in Conn /\ waitingRoom[x] = r
    BY <1>1, <1>2 DEF RelayInv, RoomsInv, TypeParts, RoomTypeOK
  <1>4. status[x] # "ending"
    BY DEF ToTell, Closed
  <1>5. pairId[x] = None
    BY <1>2, <1>3, <1>4 DEF RelayInv, RoomsInv
  <1>6. WithoutWaiting(StaleRooms)[x] = None
    BY <1>1, <1>3 DEF WithoutWaiting
  <1> QED
    BY <1>3, <1>5, <1>6

\* _expire_sessions tells everybody whose room or pair it ends.
LEMMA TruthMaintenance ==
    ASSUME TruthInv, Maintenance
    PROVE  Truths'
  <1> DEFINE S == ToTell \cup LateMembers
  <1>1. RelayInv /\ Truths /\ WireTypeOK /\ RoomsInv /\ RoutesInv /\ RouteTypeOK
    BY DEF TruthInv, RelayInv, TypeParts
  <1>2. /\ Tell(S)
        /\ waitingRoom' = WithoutWaiting(StaleRooms)
        /\ route' = [p \in PairId |-> IF p \in LateRoutes THEN NoRoute ELSE route[p]]
        /\ pairId' = [c \in Conn |-> IF c \in LateMembers THEN None ELSE pairId[c]]
        /\ dropped' = dropped
    BY DEF Maintenance, MaintenanceBase
  <1>3. ASSUME NEW x \in Conn
        PROVE  /\ status'[x] = "open" => status[x] = "open"
               /\ x \in S /\ status'[x] = "open" => told'[x] = Nothing
               /\ x \notin S => told'[x] = told[x]
               /\ status'[x] = "none" => status[x] = "none" /\ told'[x] = told[x]
               /\ status[x] = "ending" => status'[x] = "ending"
    BY <1>1, <1>2, TellEffect
  <1>4. GoneHasNoNews'
    BY <1>1, <1>3 DEF Truths, GoneHasNoNews
  <1>5. \A x \in LateMembers : \E p \in LateRoutes : p \in PairId /\ x \in Members(p)
    BY DEF LateMembers, LateRoutes
  <1>6. ASSUME NEW x \in Conn, status'[x] = "open", x \in S PROVE TruthOf(x)'
    <2>1. told'[x] = Nothing /\ status[x] = "open"
      BY <1>3, <1>6
    <2>2. CASE x \in ToTell
      <3>1. WithoutWaiting(StaleRooms)[x] = None /\ pairId[x] = None
        BY <1>1, <2>2, ToldCreators
      <3> QED
        BY <1>2, <2>1, <3>1, NewsAssumption DEF TruthOf, Nothing, Waiting
    <2>3. CASE x \in LateMembers
      <3>1. pairId[x] # None
        BY <1>1, <1>5, <2>3, PairOfMembers
      <3>2. waitingRoom[x] = None
        BY <1>1, <2>1, <3>1 DEF RoomsInv
      <3>3. waitingRoom'[x] = None /\ pairId'[x] = None
        BY <1>2, <2>3, <3>2 DEF WithoutWaiting
      <3> QED
        BY <2>1, <3>3, NewsAssumption DEF TruthOf, Nothing, Waiting
    <2> QED
      BY <1>6, <2>2, <2>3
  <1>7. ASSUME NEW x \in Conn, status'[x] = "open", x \notin S PROVE TruthOf(x)'
    <2>1. status[x] = "open" /\ told'[x] = told[x] /\ TruthOf(x)
      BY <1>1, <1>3, <1>7 DEF Truths
    <2>2. pairId'[x] = pairId[x]
      BY <1>2, <1>7
    <2>3. waitingRoom'[x] = waitingRoom[x]
      <3>1. waitingRoom[x] \in StaleRooms /\ creatorOf[waitingRoom[x]] = x => x \in ToTell
        BY <2>1 DEF ToTell, Creators, Closed
      <3> QED
        BY <1>2, <1>7, <3>1 DEF WithoutWaiting
    <2>4. ASSUME pairId[x] # None, PeerEnding(x) PROVE PeerEnding(x)'
      <3>1. pairId[x] \in PairId /\ x \in Members(pairId[x])
        BY <1>1, <2>1, <2>4 DEF RouteTypeOK, RoutesInv
      <3>2. pairId[x] \notin LateRoutes
        BY <1>7, <3>1 DEF LateMembers
      <3>3. route'[pairId[x]] = route[pairId[x]]
        BY <1>2, <3>1, <3>2
      <3>4. \A y \in Conn : status[y] = "ending" => status'[y] = "ending"
        BY <1>3
      <3> QED
        BY <1>1, <2>1, <2>2, <2>4, <3>3, <3>4, PeerStays
    <2> QED
      BY <1>2, <2>1, <2>2, <2>3, <2>4, TruthSame
  <1>8. ASSUME NEW x \in Conn PROVE TruthOf(x)'
    <2>1. CASE status'[x] = "open"
      BY <1>6, <1>7, <2>1
    <2>2. CASE status'[x] # "open"
      BY <2>2 DEF TruthOf
    <2> QED
      BY <2>1, <2>2
  <1> QED
    BY <1>4, <1>8 DEF Truths

\* When a full queue ends the task, the creators it did not reach are
\* remembered.
LEMMA TruthMaintenanceDies ==
    ASSUME TruthInv, MaintenanceDies
    PROVE  Truths'
  <1>1. RelayInv /\ Truths /\ WireTypeOK
    BY DEF TruthInv, RelayInv, TypeParts
  <1>2. PICK c \in ToTell, before \in SUBSET {d \in ToTell : Accepts(Wire, d)} :
          /\ ~Accepts(Wire, c)
          /\ Tell(before \cup {c})
          /\ dropped' = dropped \cup (ToTell \ before)
    BY DEF MaintenanceDies
  <1>3. waitingRoom' = WithoutWaiting(StaleRooms) /\ UNCHANGED routeVars
    BY DEF MaintenanceDies, MaintenanceBase
  <1> DEFINE S == before \cup {c}
  <1>4. ASSUME NEW x \in Conn
        PROVE  /\ status'[x] = "open" => status[x] = "open"
               /\ x \in S /\ status'[x] = "open" => Accepts(Wire, x) /\ told'[x] = Nothing
               /\ x \notin S => told'[x] = told[x]
               /\ status'[x] = "none" => status[x] = "none" /\ told'[x] = told[x]
               /\ status[x] = "ending" => status'[x] = "ending"
    BY <1>1, <1>2, TellEffect
  <1>5. GoneHasNoNews'
    BY <1>1, <1>4 DEF Truths, GoneHasNoNews
  <1>6. ASSUME NEW x \in Conn, status'[x] = "open", x \in S PROVE TruthOf(x)'
    <2>1. Accepts(Wire, x) /\ told'[x] = Nothing
      BY <1>4, <1>6
    <2>2. x \in ToTell
      BY <1>2, <1>6
    <2>3. WithoutWaiting(StaleRooms)[x] = None /\ pairId[x] = None
      BY <1>1, <2>2, ToldCreators
    <2> QED
      BY <1>3, <2>1, <2>3, NewsAssumption DEF TruthOf, Nothing, Waiting, routeVars
  <1>7. ASSUME NEW x \in Conn, status'[x] = "open", x \notin S PROVE TruthOf(x)'
    <2>1. told'[x] = told[x] /\ status[x] = "open"
      BY <1>4, <1>7
    <2>2. pairId'[x] = pairId[x] /\ route' = route
      BY <1>3 DEF routeVars
    <2>3. x \in CleanupDrops => x \in dropped'
      BY <1>2, <1>7 DEF CleanupDrops, ToTell
    <2>4. \A y \in Conn : status[y] = "ending" => status'[y] = "ending"
      BY <1>4
    <2>5. status[x] = "open" /\ pairId[x] # None /\ PeerEnding(x) => PeerEnding(x)'
      BY <1>1, <2>2, <2>4, PeerStays
    <2> QED
      BY <1>3, <2>1, <2>2, <2>3, <2>5, TruthCleaned
  <1>8. ASSUME NEW x \in Conn PROVE TruthOf(x)'
    <2>1. CASE status'[x] = "open"
      BY <1>6, <1>7, <2>1
    <2>2. CASE status'[x] # "open"
      BY <2>2 DEF TruthOf
    <2> QED
      BY <2>1, <2>2
  <1> QED
    BY <1>5, <1>8 DEF Truths

\* A rotation forgets everything when no client is open.
LEMMA TruthRotationEnds ==
    ASSUME TruthInv, RotationEnds
    PROVE  Truths'
  <1>1. status' = status /\ told' = told /\ \A x \in Conn : status[x] # "open"
    BY DEF RotationEnds, wireVars
  <1> QED
    BY <1>1 DEF TruthInv, Truths, GoneHasNoNews, TruthOf

-----------------------------------------------------------------------------
(* The inductive invariant and the theorem. *)

\* No client has been told anything yet.
LEMMA TruthInit == Init => TruthInv
  <1> SUFFICES ASSUME Init PROVE TruthInv
    OBVIOUS
  <1>1. Truths
    BY DEF Init, Truths, GoneHasNoNews, TruthOf
  <1> QED
    BY <1>1, InitInv DEF TruthInv

\* Every step keeps the clients told the truth.
LEMMA TruthStep == TruthInv /\ [Next]_vars => TruthInv'
  <1> SUFFICES ASSUME TruthInv, [Next]_vars PROVE TruthInv'
    OBVIOUS
  <1>1. RelayInv /\ TypeParts
    BY DEF TruthInv, RelayInv
  <1>2. RelayInv'
    BY <1>1, InvStep
  <1>3. ASSUME NewsKept /\ SameMembers /\ UNCHANGED NewsTables, Lives PROVE Truths'
    BY <1>3, TruthUntouched
  <1>4. ASSUME NEW c \in Conn, RoomRequest(c) \/ CloseUnanswered(c) PROVE Truths'
    <2>1. Lives
      BY <1>1, <1>4, RoomRequestLives
    <2>2. CASE SessionCancel(c)
      BY <2>1, <2>2, TruthCancel
    <2>3. ASSUME NEW r \in RoomId, SessionWait(c, r) PROVE Truths'
      BY <2>1, <2>3, TruthWait
    <2>4. ASSUME NEW r \in RoomId, JoinRefused(c, r) PROVE Truths'
      BY <2>1, <2>4, TruthJoinRefused
    <2>5. ASSUME NEW r \in RoomId, NEW p \in PairId, JoinPairs(c, r, p) PROVE Truths'
      BY <2>1, <2>5, TruthJoin
    <2>6. CASE (\E t \in Token : ReserveDisplay(c, t)) \/ JoinLimited(c) \/ CloseUnanswered(c)
      BY <1>1, <1>3, <2>1, <2>6, QuietRequest
    <2> QED
      BY <1>4, <2>2, <2>3, <2>4, <2>5, <2>6 DEF RoomRequest
  <1>5. ASSUME NEW c \in Conn, NEW p \in PairId, PairRequest(c, p) PROVE Truths'
    <2>1. Lives
      BY <1>1, <1>5, PairRequestLives
    <2>2. CASE ProofLate(c, p)
      BY <2>1, <2>2, TruthProofLate
    <2>3. CASE SessionClose(c, p)
      BY <2>1, <2>3, TruthSessionClose
    <2>4. CASE Proof(c, p) \/ \E s \in SessionId, dir \in Roles : Data(c, p, s, dir)
      BY <1>1, <1>3, <2>1, <2>4, ForwardedRequest
    <2>5. CASE \/ NotMember(c, p) \/ ProofRepeated(c, p) \/ CloseWithoutRoute(c, p)
               \/ \E s \in SessionId, dir \in Roles : DataRefused(c, p, s, dir)
      BY <1>1, <1>3, <2>1, <2>5, QuietRequest
    <2> QED
      BY <1>5, <2>2, <2>3, <2>4, <2>5 DEF PairRequest
  <1>6. ASSUME \/ \E c \in Conn : \/ OtherFrame(c) \/ WriterSends(c) \/ CloseTask(c)
                                 \/ LoopEnds(c)
               \/ DeadlinePasses \/ RotationBegins
        PROVE  Truths'
    <2>1. Lives
      BY <1>1, <1>6, OtherStepLives DEF OtherStep
    <2> QED
      BY <1>1, <1>3, <1>6, <2>1, QuietStep
  <1>7. ASSUME UNCHANGED vars PROVE Truths'
    <2>1. UNCHANGED <<status, told, NewsTables, route>>
      BY <1>7 DEF vars, wireVars, roomVars, routeVars, NewsTables
    <2>2. NewsKept /\ SameMembers /\ Lives
      BY <2>1 DEF NewsKept, SameMembers, Lives
    <2> QED
      BY <1>3, <2>1, <2>2
  <1>8. Truths'
    BY <1>4, <1>5, <1>6, <1>7, TruthAccept, TruthConnectionClosed, TruthMaintenance,
       TruthMaintenanceDies, TruthRotationEnds DEF Next, Request
  <1> QED
    BY <1>2, <1>8 DEF TruthInv

\* The frames queued to an open client tell it of its pair, of the end of every
\* pair it is no longer in, and of the room it waits in, however requests,
\* closes, timeouts, disconnects and a dying maintenance task meet (relay.py
\* 491-558, 671-741).
THEOREM ClientsKnowTheTruth == Spec => []ClientsAreToldTheTruth
  <1>1. TruthInv => ClientsAreToldTheTruth
    BY DEF TruthInv, Truths, TruthOf, PeerEnding, ClientsAreToldTheTruth
  <1> QED
    BY <1>1, TruthInit, TruthStep, PTL DEF Spec

=============================================================================

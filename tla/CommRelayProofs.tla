-------------------------- MODULE CommRelayProofs ---------------------------
(***************************************************************************)
(* Proofs about CommSession as a whole: a connected client never keeps a   *)
(* usable channel of a pair the relay has closed, unless the word of it is *)
(* on its way (NoZombieComms), for any number of clients and comms.        *)
(*                                                                         *)
(* Told relates a client to the frames on their way and to the routes it   *)
(* is a member of, from the moment a pair is made: its announcement may be *)
(* unread, read but not yet taken, or held, and a close of it may overtake *)
(* each.                                                                   *)
(***************************************************************************)
EXTENDS CommSessionProofs

-----------------------------------------------------------------------------
(* The inductive invariant *)

Has(q, f) == \E i \in 1..Len(q) : q[i] = f

\* The client holds its pair: its session state is there, its channel was not
\* discarded, and its setup is not being aborted.
Live(k) ==
    k.pair # 0 /\ k.task # "aborting" /\ (k.channel = NoChannel \/ Usable(k.channel))

\* The client ends its comm.
Departs(k) == k.ui \in {"saying bye", "closing"}

Rising(q) ==
    \A i, j \in 1..Len(q) :
        i < j /\ q[i].type = "pair" /\ q[j].type = "pair" => q[i].pair < q[j].pair

\* The announcements a client has not taken are of ever later pairs.
InOrder(k, d, m) ==
    /\ Rising(k.pairs) /\ Rising(d)
    /\ \A i \in 1..Len(k.pairs) : k.pairs[i].pair <= m
    /\ \A j \in 1..Len(d) : d[j].type = "pair" =>
          d[j].pair <= m /\ \A i \in 1..Len(k.pairs) : k.pairs[i].pair < d[j].pair

\* The pair x is behind the client: every announcement it has not taken is of a
\* later one.
Past(k, d, m, x) ==
    x # 0 =>
        /\ x <= m
        /\ \A i \in 1..Len(k.pairs) : x < k.pairs[i].pair
        /\ \A i \in 1..Len(d) : d[i].type = "pair" => x < d[i].pair

Behind(k, u, d, m) ==
    /\ Past(k, d, m, k.pair) /\ Past(k, d, m, k.taskPair) /\ Past(k, d, m, k.failing)
    /\ \A i \in 1..Len(u) : u[i].type = "close" => Past(k, d, m, u[i].pair)

\* Who asks to close a pair does not hold it any more.
GivenUp(k, u) ==
    /\ \A i \in 1..Len(u) : u[i].type = "close" /\ u[i].pair = k.pair => ~Live(k)
    /\ k.failing # 0 => k.pair # k.failing
    /\ Departs(k) => ~Live(k)

\* R are the pairs the client is a member of: p is one of them, or the client will
\* be told.
Alive(d, R, p) == p \in R \/ Has(d, CloseFrame(p)) \/ Has(d, Eof)

\* What the client holds, or may still take, is alive.
Held(k, d, R) ==
    /\ Live(k) => Alive(d, R, k.pair)
    /\ k.role # Nobody /\ k.pair = 0 =>
          \A i \in 1..Len(k.pairs) : Alive(d, R, k.pairs[i].pair)

\* So is what is announced to it: the close of a pair comes after its announcement.
Announced(d, R) ==
    \A i \in 1..Len(d) : d[i].type = "pair" =>
        \/ d[i].pair \in R
        \/ \E j \in 1..Len(d) : i < j /\ d[j] = CloseFrame(d[i].pair)
        \/ Has(d, Eof)

Told(k, u, d, R, m) ==
    k.connected =>
        /\ Has(u, Eof) => Has(d, Eof)
        /\ InOrder(k, d, m) /\ Behind(k, u, d, m) /\ GivenUp(k, u)
        /\ Held(k, d, R) /\ Announced(d, R)

\* There is one room ID: the room or one route is taken.
OneRoute ==
    /\ \A p, q \in Session : route[p] # NoRoute /\ route[q] # NoRoute => p = q
    /\ room # Nobody => \A p \in Session : route[p] = NoRoute
    /\ \A p \in Session : p > made => route[p] = NoRoute

AllTold == \A c \in Client : Told(client[c], up[c], down[c], RoutesOf(c), made)

RelayInv == OneRoute /\ AllTold

-----------------------------------------------------------------------------
(* Sequences *)

LEMMA Joined ==
    ASSUME NEW S, NEW q \in Seq(S), NEW r \in Seq(S)
    PROVE  /\ q \o r \in Seq(S) /\ Len(q \o r) = Len(q) + Len(r)
           /\ Len(q) \in Nat /\ Len(r) \in Nat
           /\ \A i \in 1..Len(q) : i \in 1..Len(q \o r) /\ (q \o r)[i] = q[i]
           /\ \A i \in 1..Len(r) :
                 Len(q) + i \in 1..Len(q \o r) /\ (q \o r)[Len(q) + i] = r[i]
           /\ \A i \in 1..Len(q \o r) :
                 \/ i \in 1..Len(q)
                 \/ i - Len(q) \in 1..Len(r) /\ i > Len(q) /\ (q \o r)[i] = r[i - Len(q)]
  OBVIOUS

LEMMA TailOf ==
    ASSUME NEW S, NEW q \in Seq(S), q # <<>>
    PROVE  /\ Tail(q) \in Seq(S) /\ Len(Tail(q)) = Len(q) - 1 /\ Len(q) \in Nat \ {0}
           /\ Head(q) = q[1] /\ 1 \in 1..Len(q) /\ Head(q) \in S
           /\ \A i \in 1..Len(Tail(q)) : i + 1 \in 1..Len(q) /\ Tail(q)[i] = q[i + 1]
           /\ \A i \in 1..Len(q) : i = 1 \/ (i - 1 \in 1..Len(Tail(q)) /\ Tail(q)[i - 1] = q[i])
  OBVIOUS

LEMMA Appended ==
    ASSUME NEW S, NEW q \in Seq(S), NEW f \in S
    PROVE  /\ Append(q, f) \in Seq(S) /\ Len(Append(q, f)) = Len(q) + 1 /\ Len(q) \in Nat
           /\ \A i \in 1..Len(q) : Append(q, f)[i] = q[i]
           /\ Append(q, f)[Len(q) + 1] = f
  OBVIOUS

LEMMA OneMore ==
    ASSUME NEW S, NEW q \in Seq(S), NEW f \in S, NEW e, e = q \/ e = q \o <<f>>
    PROVE  /\ \A i \in 1..Len(e) :
                 (i \in 1..Len(q) /\ e[i] = q[i]) \/ (e[i] = f /\ i = Len(q) + 1)
           /\ Len(q) \in Nat /\ \A i \in 1..Len(q) : i \in 1..Len(e) /\ e[i] = q[i]
  <1>1. CASE e = q
    BY <1>1
  <1>2. CASE e = q \o <<f>>
    <2>1. e = Append(q, f)
      BY <1>2
    <2>2. Len(e) = Len(q) + 1 /\ Len(q) \in Nat /\ e[Len(q) + 1] = f
          /\ \A i \in 1..Len(q) : e[i] = q[i]
      BY <2>1, Appended
    <2> QED
      BY <2>2
  <1> QED
    BY <1>1, <1>2

\* Nothing is added after the end of a connection.
LEMMA SentOn ==
    ASSUME NEW S, NEW q \in Seq(S), NEW r \in Seq(S), NEW e, e = Sent(q, r)
    PROVE  (Has(q, Eof) /\ e = q) \/ e = q \o r
  <1>1. CASE Ended(q)
    <2>1. Len(q) \in 1..Len(q) /\ q[Len(q)] = Eof
      BY <1>1 DEF Ended, Last
    <2> QED
      BY <1>1, <2>1 DEF Has, Sent
  <1> QED
    BY <1>1 DEF Sent

-----------------------------------------------------------------------------
(* Changes of a client *)

\* The client lets go of what it holds, and takes nothing new.
Weakens(k, n) ==
    /\ n.connected => k.connected
    /\ n.pairs = k.pairs \/ n.pairs = <<>>
    /\ n.pair = k.pair \/ n.pair = 0
    /\ n.taskPair = k.taskPair \/ n.taskPair = k.pair \/ n.taskPair = 0
    /\ n.failing = k.failing \/ n.failing = 0 \/ (n.failing = k.pair /\ n.pair = 0)
    /\ Live(n) => Live(k) /\ n.pair = k.pair
    /\ n.role # Nobody /\ n.pair = 0 /\ n.pairs # <<>> => k.role # Nobody /\ k.pair = 0
    /\ Departs(n) /\ Live(n) => Departs(k)

LEMMA SameDeparts ==
    ASSUME NEW k, NEW n, n.ui = k.ui PROVE Departs(n) = Departs(k)
  BY DEF Departs

\* A setup is not the end of a comm, and has a pair once one is taken.
LEMMA InSetupStays ==
    ASSUME NEW k, ClientInv(k), k.task # "none" PROVE ~Departs(k)
  <1>1. k.ui \in {"waiting", "cancelling", "settling", "connecting"}
    BY Zenon DEF ClientInv, TaskBelongs
  <1> QED
    BY <1>1 DEF Departs

LEMMA SetupHasPair ==
    ASSUME NEW k, ClientInv(k), k.task \in {"proving", "proof", "naming", "peer", "aborting"}
    PROVE  k.taskPair # 0 /\ k.taskPair \in Session
  <1>1. k.taskPair # 0
    BY Zenon DEF ClientInv, TaskBelongs
  <1>2. k.taskPair \in Pair
    BY DEF ClientInv, IsClient, ClientTypes
  <1> QED
    BY <1>1, <1>2 DEF Pair

LEMMA WeakensOn ==
    ASSUME NEW k, NEW n, NEW o, Weakens(k, n), Weakens(n, o) PROVE Weakens(k, o)
  BY DEF Weakens

LEMMA StillPast ==
    ASSUME NEW k, NEW n, NEW d, NEW m, NEW x, Past(k, d, m, x),
           n.pairs = k.pairs \/ n.pairs = <<>>
    PROVE  Past(n, d, m, x)
  <1>1. n.pairs = <<>> => \A i \in 1..Len(n.pairs) : FALSE
    OBVIOUS
  <1> QED
    BY <1>1 DEF Past

LEMMA NotBelowItself == \A p \in Session : ~(p < p)
  BY SessionsArePositive

LEMMA NoPast == \A k, d, m : Past(k, d, m, 0)
  BY DEF Past

LEMMA WeakerIsTold ==
    ASSUME NEW k, NEW n, NEW u, NEW d, NEW R, NEW m, Told(k, u, d, R, m), Weakens(k, n)
    PROVE  Told(n, u, d, R, m)
  <1>1. SUFFICES ASSUME n.connected
                 PROVE  /\ Has(u, Eof) => Has(d, Eof)
                        /\ InOrder(n, d, m) /\ Behind(n, u, d, m) /\ GivenUp(n, u)
                        /\ Held(n, d, R) /\ Announced(d, R)
    BY DEF Told
  <1>2. /\ Has(u, Eof) => Has(d, Eof)
        /\ InOrder(k, d, m) /\ Behind(k, u, d, m) /\ GivenUp(k, u)
        /\ Held(k, d, R) /\ Announced(d, R)
    BY <1>1 DEF Told, Weakens
  <1>3. n.pairs = k.pairs \/ n.pairs = <<>>
    BY DEF Weakens
  <1>4. n.pairs = <<>> => \A i \in 1..Len(n.pairs) : FALSE
    OBVIOUS
  <1>5. InOrder(n, d, m)
    BY <1>2, <1>3, <1>4 DEF InOrder, Rising
  <1>6. Behind(n, u, d, m)
    <2>1. \A x : Past(k, d, m, x) => Past(n, d, m, x)
      BY <1>3, StillPast
    <2>2. Past(n, d, m, n.pair) /\ Past(n, d, m, n.taskPair) /\ Past(n, d, m, n.failing)
      BY <1>2, <2>1, NoPast DEF Behind, Weakens
    <2> QED
      BY <1>2, <2>1, <2>2 DEF Behind
  <1>7. GivenUp(n, u)
    <2>1. Live(n) => Live(k) /\ n.pair = k.pair
      BY DEF Weakens
    <2>2. ASSUME NEW i \in 1..Len(u), u[i].type = "close", u[i].pair = n.pair, Live(n) PROVE FALSE
      BY <1>2, <2>1, <2>2 DEF GivenUp
    <2>3. n.failing # 0 => n.pair # n.failing
      BY <1>2 DEF GivenUp, Weakens
    <2>4. ~(Departs(n) /\ Live(n))
      BY <1>2, <2>1 DEF GivenUp, Weakens
    <2> QED
      BY <2>2, <2>3, <2>4 DEF GivenUp
  <1>8. Held(n, d, R)
    <2>1. Live(n) => Alive(d, R, n.pair)
      BY <1>2 DEF Held, Weakens
    <2>2. ASSUME n.role # Nobody, n.pair = 0, NEW i \in 1..Len(n.pairs)
          PROVE  Alive(d, R, n.pairs[i].pair)
      BY <1>2, <1>3, <1>4, <2>2 DEF Held, Weakens
    <2> QED
      BY <2>1, <2>2 DEF Held
  <1> QED
    BY <1>2, <1>5, <1>6, <1>7, <1>8

\* A request joins those on their way to the relay.
LEMMA AskerIsTold ==
    ASSUME NEW k, NEW u \in Seq(UpFrame), NEW d, NEW R, NEW m, Told(k, u, d, R, m),
           NEW q \in UpFrame, q # Eof,
           q.type = "close" /\ k.connected =>
              Past(k, d, m, q.pair) /\ (q.pair = k.pair => ~Live(k)),
           NEW v, v = Sent(u, <<q>>)
    PROVE  Told(k, v, d, R, m)
  <1>1. SUFFICES ASSUME k.connected, v = u \o <<q>> PROVE Told(k, v, d, R, m)
    <2>1. <<q>> \in Seq(UpFrame)
      OBVIOUS
    <2> QED
      BY <2>1, SentOn DEF Told
  <1>2. /\ Has(u, Eof) => Has(d, Eof)
        /\ InOrder(k, d, m) /\ Behind(k, u, d, m) /\ GivenUp(k, u)
        /\ Held(k, d, R) /\ Announced(d, R)
    BY <1>1 DEF Told
  <1>3. ASSUME NEW i \in 1..Len(v) PROVE (i \in 1..Len(u) /\ v[i] = u[i]) \/ v[i] = q
    BY <1>1
  <1>4. Has(v, Eof) => Has(d, Eof)
    BY <1>2, <1>3 DEF Has
  <1>5. Behind(k, v, d, m)
    BY <1>1, <1>2, <1>3 DEF Behind
  <1>6. GivenUp(k, v)
    BY <1>1, <1>2, <1>3 DEF GivenUp
  <1> QED
    BY <1>2, <1>4, <1>5, <1>6 DEF Told

-----------------------------------------------------------------------------
(* Changes of the frames on their way *)

\* What a request that timed out leaves: the frames are those they were.
LEMMA SameFramesTold ==
    ASSUME NEW k, NEW u, NEW d, NEW R, NEW m, Told(k, u, d, R, m),
           NEW v, Len(v) = Len(u),
           \A i \in 1..Len(u) :
              /\ v[i] = Eof => u[i] = Eof
              /\ v[i].type = u[i].type /\ (u[i].type = "close" => v[i].pair = u[i].pair),
           NEW e, Len(e) = Len(d),
           \A i \in 1..Len(d) :
              /\ e[i].type = d[i].type
              /\ e[i].type \in {"pair", "close", "eof"} => e[i] = d[i]
    PROVE  Told(k, v, e, R, m)
  <1>1. SUFFICES ASSUME k.connected PROVE Told(k, v, e, R, m)
    BY DEF Told
  <1>2. /\ Has(u, Eof) => Has(d, Eof)
        /\ InOrder(k, d, m) /\ Behind(k, u, d, m) /\ GivenUp(k, u)
        /\ Held(k, d, R) /\ Announced(d, R)
    BY <1>1 DEF Told
  <1>3. Eof.type = "eof" /\ \A p : CloseFrame(p).type = "close"
    BY DEF Eof, CloseFrame
  <1>4. \A f : f.type \in {"close", "eof"} /\ Has(d, f) => Has(e, f)
    BY DEF Has
  <1>5. Has(v, Eof) => Has(e, Eof)
    BY <1>2, <1>3, <1>4 DEF Has
  <1>6. InOrder(k, e, m)
    BY <1>2 DEF InOrder, Rising
  <1>7. Behind(k, v, e, m)
    <2>1. \A x : Past(k, d, m, x) => Past(k, e, m, x)
      BY DEF Past
    <2> QED
      BY <1>2, <2>1 DEF Behind
  <1>8. GivenUp(k, v)
    BY <1>2 DEF GivenUp
  <1>9. \A p : Alive(d, R, p) => Alive(e, R, p)
    BY <1>3, <1>4 DEF Alive
  <1>10. Held(k, e, R)
    BY <1>2, <1>9 DEF Held
  <1>11. Announced(e, R)
    <2>1. SUFFICES ASSUME NEW i \in 1..Len(e), e[i].type = "pair", e[i].pair \notin R, ~Has(e, Eof)
                   PROVE  \E j \in 1..Len(e) : i < j /\ e[j] = CloseFrame(e[i].pair)
      BY DEF Announced
    <2>2. e[i] = d[i] /\ i \in 1..Len(d) /\ ~Has(d, Eof)
      BY <1>3, <1>4, <2>1
    <2>3. PICK j \in 1..Len(d) : i < j /\ d[j] = CloseFrame(d[i].pair)
      BY <1>2, <2>1, <2>2 DEF Announced
    <2>4. e[j] = d[j]
      BY <1>3, <2>3
    <2> QED
      BY <2>2, <2>3, <2>4
  <1> QED
    BY <1>5, <1>6, <1>7, <1>8, <1>10, <1>11 DEF Told

\* What a connection that is lost leaves: some of the frames, and its end.
LEMMA CutOffTold ==
    ASSUME NEW k, NEW u, NEW d, NEW R, NEW Q, NEW m, Told(k, u, d, R, m),
           NEW v, \A i \in 1..Len(v) : v[i] = Eof \/ (i \in 1..Len(u) /\ v[i] = u[i]),
           NEW e, \A i \in 1..Len(e) : e[i] = Eof \/ (i \in 1..Len(d) /\ e[i] = d[i]),
           Has(e, Eof)
    PROVE  Told(k, v, e, Q, m)
  <1>1. SUFFICES ASSUME k.connected PROVE Told(k, v, e, Q, m)
    BY DEF Told
  <1>2. InOrder(k, d, m) /\ Behind(k, u, d, m) /\ GivenUp(k, u)
    BY <1>1 DEF Told
  <1>3. Eof.type = "eof"
    BY DEF Eof
  <1>4. InOrder(k, e, m)
    BY <1>2, <1>3 DEF InOrder, Rising
  <1>5. Behind(k, v, e, m)
    <2>1. \A x : Past(k, d, m, x) => Past(k, e, m, x)
      BY <1>3 DEF Past
    <2> QED
      BY <1>2, <1>3, <2>1 DEF Behind
  <1>6. GivenUp(k, v)
    BY <1>2, <1>3 DEF GivenUp
  <1>7. Held(k, e, Q) /\ Announced(e, Q)
    BY DEF Held, Announced, Alive
  <1> QED
    BY <1>4, <1>5, <1>6, <1>7 DEF Told

LEMMA CloseRequests ==
    ASSUME NEW u \in Seq(UpFrame)
    PROVE  \A i \in 1..Len(u) : u[i].type = "close" => u[i].pair \in Session
  <1>1. \A f \in UpFrame : f.type = "close" => f.pair \in Session
    BY DEF UpFrame, Eof, PlainRequest, PairRequest, FrameRequest
  <1> QED
    BY <1>1

\* The relay takes a request and sends frames other than announcements: it may end
\* the membership of a client in p as long as it tells the client, or the client
\* asked for it.
LEMMA DeliveredTold ==
    ASSUME NEW k, k.pairs \in Seq(PairFrame),
           NEW u \in Seq(UpFrame), NEW d \in Seq(DownFrame), NEW R, NEW Q, NEW m,
           Told(k, u, d, R, m),
           NEW v, \A i \in 1..Len(v) : \E j \in 1..Len(u) : v[i] = u[j],
           NEW more \in Seq(DownFrame), \A i \in 1..Len(more) : more[i].type # "pair",
           NEW e, e = Sent(d, more),
           \A p \in R :
              \/ p \in Q
              \/ Has(more, CloseFrame(p)) \/ Has(more, Eof) \/ Has(d, Eof)
              \/ \E i \in 1..Len(u) : u[i].type = "close" /\ u[i].pair = p
    PROVE  Told(k, v, e, Q, m)
  <1>1. SUFFICES ASSUME k.connected PROVE Told(k, v, e, Q, m)
    BY DEF Told
  <1>2. /\ Has(u, Eof) => Has(d, Eof)
        /\ InOrder(k, d, m) /\ Behind(k, u, d, m) /\ GivenUp(k, u)
        /\ Held(k, d, R) /\ Announced(d, R)
    BY <1>1 DEF Told
  <1>3. (Has(d, Eof) /\ e = d) \/ e = d \o more
    BY SentOn
  <1>4. ASSUME NEW i \in 1..Len(e), e[i].type = "pair"
        PROVE  i \in 1..Len(d) /\ e[i] = d[i]
    <2>1. CASE e = d
      BY <2>1
    <2>2. CASE e = d \o more
      BY <1>4, <2>2, Joined
    <2> QED
      BY <1>3, <2>1, <2>2
  <1>5. Len(d) \in Nat /\ \A i \in 1..Len(d) : i \in 1..Len(e) /\ e[i] = d[i]
    <2>1. CASE e = d
      BY <2>1
    <2>2. CASE e = d \o more
      BY <2>2, Joined
    <2> QED
      BY <1>3, <2>1, <2>2
  <1>6. ASSUME NEW f, Has(more, f)
        PROVE  Has(d, Eof) \/ \E j \in 1..Len(e) : j > Len(d) /\ e[j] = f
    <2>1. PICK j \in 1..Len(more) : more[j] = f
      BY <1>6 DEF Has
    <2>2. CASE e = d \o more
      <3>1. Len(d) + j \in 1..Len(e) /\ e[Len(d) + j] = f
        BY <2>1, <2>2, Joined
      <3>2. Len(d) + j > Len(d)
        BY <1>5
      <3> QED
        BY <3>1, <3>2
    <2> QED
      BY <1>3, <2>2
  <1>7. \A f : Has(d, f) => Has(e, f)
    BY <1>5 DEF Has
  <1>8. ASSUME NEW p \in R, \A i \in 1..Len(u) : ~(u[i].type = "close" /\ u[i].pair = p)
        PROVE  p \in Q \/ Has(e, Eof) \/ \E j \in 1..Len(e) : j > Len(d) /\ e[j] = CloseFrame(p)
    <2>1. p \in Q \/ Has(more, CloseFrame(p)) \/ Has(more, Eof) \/ Has(d, Eof)
      BY <1>8
    <2>2. Has(more, Eof) => Has(e, Eof)
      BY <1>6, <1>7 DEF Has
    <2> QED
      BY <1>6, <1>7, <2>1, <2>2
  <1>9. ASSUME NEW p, Alive(d, R, p), \A i \in 1..Len(u) : ~(u[i].type = "close" /\ u[i].pair = p)
        PROVE  Alive(e, Q, p)
    BY <1>7, <1>8, <1>9 DEF Alive, Has
  <1>10. Has(v, Eof) => Has(e, Eof)
    <2>1. Has(v, Eof) => Has(u, Eof)
      BY DEF Has
    <2> QED
      BY <1>2, <1>7, <2>1
  <1>11. InOrder(k, e, m)
    <2>1. Rising(e)
      <3>1. SUFFICES ASSUME NEW i \in 1..Len(e), NEW j \in 1..Len(e), i < j,
                            e[i].type = "pair", e[j].type = "pair"
                     PROVE  e[i].pair < e[j].pair
        BY DEF Rising
      <3>2. /\ i \in 1..Len(d) /\ e[i] = d[i]
            /\ j \in 1..Len(d) /\ e[j] = d[j]
        BY <1>4, <3>1
      <3> QED
        BY <1>2, <3>1, <3>2 DEF InOrder, Rising
    <2>2. \A j \in 1..Len(e) : e[j].type = "pair" =>
             e[j].pair <= m /\ \A i \in 1..Len(k.pairs) : k.pairs[i].pair < e[j].pair
      BY <1>2, <1>4 DEF InOrder
    <2> QED
      BY <1>2, <2>1, <2>2 DEF InOrder
  <1>12. Behind(k, v, e, m)
    <2>1. ASSUME NEW x, Past(k, d, m, x) PROVE Past(k, e, m, x)
      <3>1. SUFFICES ASSUME x # 0, NEW i \in 1..Len(e), e[i].type = "pair" PROVE x < e[i].pair
        BY <2>1 DEF Past
      <3> QED
        BY <1>4, <2>1, <3>1 DEF Past
    <2> QED
      BY <1>2, <2>1 DEF Behind
  <1>13. GivenUp(k, v)
    BY <1>2 DEF GivenUp
  <1>14. \A i \in 1..Len(u) : u[i].type = "close" => u[i].pair \in Session
    BY CloseRequests
  <1>15. Held(k, e, Q)
    <2>1. ASSUME Live(k) PROVE Alive(e, Q, k.pair)
      BY <1>2, <1>9, <2>1 DEF Held, GivenUp
    <2>2. ASSUME k.role # Nobody, k.pair = 0, NEW i \in 1..Len(k.pairs)
          PROVE  Alive(e, Q, k.pairs[i].pair)
      <3>1. k.pairs[i].pair \in Session
        <4>1. k.pairs[i] \in PairFrame
          BY <2>2
        <4> QED
          BY <4>1 DEF PairFrame
      <3>2. ASSUME NEW j \in 1..Len(u), u[j].type = "close", u[j].pair = k.pairs[i].pair
            PROVE  FALSE
        <4>1. u[j].pair # 0
          BY <1>14, <3>2, SessionsArePositive
        <4>2. u[j].pair < k.pairs[i].pair
          BY <1>2, <3>2, <4>1 DEF Behind, Past
        <4> QED
          BY <3>1, <3>2, <4>2, NotBelowItself
      <3> QED
        BY <1>2, <1>9, <2>2, <3>2 DEF Held
    <2> QED
      BY <2>1, <2>2 DEF Held
  <1>16. Announced(e, Q)
    <2>1. SUFFICES ASSUME NEW i \in 1..Len(e), e[i].type = "pair", e[i].pair \notin Q, ~Has(e, Eof)
                   PROVE  \E j \in 1..Len(e) : i < j /\ e[j] = CloseFrame(e[i].pair)
      BY DEF Announced
    <2>2. i \in 1..Len(d) /\ e[i] = d[i] /\ ~Has(d, Eof)
      BY <1>4, <1>7, <2>1
    <2>3. CASE d[i].pair \in R
      <3>1. d[i].pair \in Session
        <4>1. d[i] \in DownFrame /\ d[i].type = "pair"
          BY <2>1, <2>2
        <4> QED
          BY <4>1, DownFrameKinds DEF PairFrame
      <3>2. ASSUME NEW j \in 1..Len(u), u[j].type = "close", u[j].pair = d[i].pair
            PROVE  FALSE
        <4>1. u[j].pair # 0
          BY <1>14, <3>2, SessionsArePositive
        <4>2. u[j].pair < d[i].pair
          BY <1>2, <2>1, <2>2, <3>2, <4>1 DEF Behind, Past
        <4> QED
          BY <3>1, <3>2, <4>2, NotBelowItself
      <3>3. PICK j \in 1..Len(e) : j > Len(d) /\ e[j] = CloseFrame(d[i].pair)
        BY <1>8, <2>1, <2>2, <2>3, <3>2
      <3> QED
        BY <1>5, <2>2, <3>3
    <2>4. CASE d[i].pair \notin R
      <3>1. PICK j \in 1..Len(d) : i < j /\ d[j] = CloseFrame(d[i].pair)
        BY <1>2, <2>1, <2>2, <2>4 DEF Announced
      <3> QED
        BY <1>5, <2>2, <3>1
    <2> QED
      BY <2>3, <2>4
  <1> QED
    BY <1>10, <1>11, <1>12, <1>13, <1>15, <1>16 DEF Told

\* A pair is made: the announcement is the last frame, of a pair later than any.
LEMMA AnnouncedTold ==
    ASSUME NEW k, k.pairs \in Seq(PairFrame), {k.pair, k.taskPair, k.failing} \subseteq Pair,
           NEW u \in Seq(UpFrame), NEW d \in Seq(DownFrame), NEW R, NEW m \in Nat, m + 1 \in Session,
           Told(k, u, d, R, m),
           NEW f \in PairFrame, f.pair = m + 1, NEW e, e = Sent(d, <<f>>)
    PROVE  Told(k, u, e, R \cup {m + 1}, m + 1)
  <1>1. SUFFICES ASSUME k.connected PROVE Told(k, u, e, R \cup {m + 1}, m + 1)
    BY DEF Told
  <1>2. /\ Has(u, Eof) => Has(d, Eof)
        /\ InOrder(k, d, m) /\ Behind(k, u, d, m) /\ GivenUp(k, u)
        /\ Held(k, d, R) /\ Announced(d, R)
    BY <1>1 DEF Told
  <1>3. (Has(d, Eof) /\ e = d) \/ e = d \o <<f>>
    <2>1. <<f>> \in Seq(DownFrame)
      BY DEF DownFrame
    <2> QED
      BY <2>1, SentOn
  <1>4. /\ \A i \in 1..Len(e) :
              (i \in 1..Len(d) /\ e[i] = d[i]) \/ (e[i] = f /\ i = Len(d) + 1)
        /\ Len(d) \in Nat /\ \A i \in 1..Len(d) : i \in 1..Len(e) /\ e[i] = d[i]
    <2>1. f \in DownFrame
      BY DEF DownFrame
    <2>2. e = d \/ e = d \o <<f>>
      BY <1>3
    <2> QED
      BY <2>1, <2>2, OneMore, SMTT(60)
  <1>5. Len(d) \in Nat /\ \A i \in 1..Len(d) : i \in 1..Len(e) /\ e[i] = d[i]
    BY <1>4
  <1>6. \A g : Has(d, g) => Has(e, g)
    BY <1>5 DEF Has
  <1>7. \A p : Alive(d, R, p) => Alive(e, R \cup {m + 1}, p)
    BY <1>6 DEF Alive
  <1>8. ASSUME NEW p \in Session, p <= m PROVE p < f.pair /\ p <= m + 1
    BY <1>8, SessionsArePositive
  <1>9. ASSUME NEW i \in 1..Len(d), d[i].type = "pair"
        PROVE  d[i].pair \in Session /\ d[i].pair < f.pair /\ d[i].pair <= m + 1
    <2>1. d[i] \in DownFrame
      OBVIOUS
    <2>2. d[i].pair \in Session
      BY <1>9, <2>1, DownFrameKinds DEF PairFrame
    <2>3. d[i].pair <= m
      BY <1>2, <1>9 DEF InOrder
    <2> QED
      BY <1>8, <2>2, <2>3
  <1>10. ASSUME NEW i \in 1..Len(k.pairs)
         PROVE  k.pairs[i].pair < f.pair /\ k.pairs[i].pair <= m + 1
    <2>1. k.pairs[i] \in PairFrame
      BY <1>10
    <2>2. k.pairs[i].pair \in Session
      BY <2>1 DEF PairFrame
    <2>3. k.pairs[i].pair <= m
      BY <1>2 DEF InOrder
    <2> QED
      BY <1>8, <2>2, <2>3
  <1>11. InOrder(k, e, m + 1)
    <2>1. Rising(e)
      <3>1. SUFFICES ASSUME NEW i \in 1..Len(e), NEW j \in 1..Len(e), i < j,
                            e[i].type = "pair", e[j].type = "pair"
                     PROVE  e[i].pair < e[j].pair
        BY DEF Rising
      <3>2. i \in 1..Len(d) /\ e[i] = d[i]
        BY <1>4, <1>5, <3>1, SMTT(40)
      <3>3. CASE j \in 1..Len(d) /\ e[j] = d[j]
        BY <1>2, <3>1, <3>2, <3>3 DEF InOrder, Rising
      <3>4. CASE e[j] = f
        BY <1>9, <3>1, <3>2, <3>4
      <3> QED
        BY <1>4, <3>3, <3>4
    <2>2. ASSUME NEW j \in 1..Len(e), e[j].type = "pair"
          PROVE  /\ e[j].pair <= m + 1
                 /\ \A i \in 1..Len(k.pairs) : k.pairs[i].pair < e[j].pair
      <3>1. CASE j \in 1..Len(d) /\ e[j] = d[j]
        BY <1>2, <1>9, <2>2, <3>1 DEF InOrder
      <3>2. CASE e[j] = f
        BY <1>10, <3>2, SMTT(40)
      <3> QED
        BY <1>4, <3>1, <3>2
    <2> QED
      BY <1>2, <1>10, <2>1, <2>2 DEF InOrder
  <1>12. ASSUME NEW x \in Pair, Past(k, d, m, x) PROVE Past(k, e, m + 1, x)
    <2>1. SUFFICES ASSUME x # 0
                   PROVE  /\ x <= m + 1
                          /\ \A i \in 1..Len(k.pairs) : x < k.pairs[i].pair
                          /\ \A i \in 1..Len(e) : e[i].type = "pair" => x < e[i].pair
      BY DEF Past
    <2>2. x <= m + 1 /\ x < f.pair
      BY <1>8, <1>12, <2>1 DEF Past, Pair
    <2>3. ASSUME NEW i \in 1..Len(e), e[i].type = "pair" PROVE x < e[i].pair
      BY <1>4, <1>12, <2>1, <2>2, <2>3 DEF Past
    <2> QED
      BY <1>12, <2>1, <2>2, <2>3 DEF Past
  <1>13. Behind(k, u, e, m + 1)
    BY <1>2, <1>12, CloseRequests DEF Behind, Pair
  <1>14. Held(k, e, R \cup {m + 1})
    BY <1>2, <1>7 DEF Held
  <1>15. Announced(e, R \cup {m + 1})
    <2>1. SUFFICES ASSUME NEW i \in 1..Len(e), e[i].type = "pair",
                          e[i].pair \notin R \cup {m + 1}, ~Has(e, Eof)
                   PROVE  \E j \in 1..Len(e) : i < j /\ e[j] = CloseFrame(e[i].pair)
      BY DEF Announced
    <2>2. i \in 1..Len(d) /\ e[i] = d[i] /\ ~Has(d, Eof)
      BY <1>4, <1>6, <2>1
    <2>3. PICK j \in 1..Len(d) : i < j /\ d[j] = CloseFrame(d[i].pair)
      BY <1>2, <2>1, <2>2 DEF Announced
    <2> QED
      BY <1>5, <2>2, <2>3
  <1> QED
    BY <1>2, <1>6, <1>11, <1>13, <1>14, <1>15 DEF Told

\* For whom nothing is sent the pairs made only grow.
LEMMA LaterTold ==
    ASSUME NEW k, {k.pair, k.taskPair, k.failing} \subseteq Pair, k.pairs \in Seq(PairFrame),
           NEW u \in Seq(UpFrame), NEW d \in Seq(DownFrame), NEW R, NEW m \in Nat,
           Told(k, u, d, R, m)
    PROVE  Told(k, u, d, R, m + 1)
  <1>1. SUFFICES ASSUME k.connected PROVE Told(k, u, d, R, m + 1)
    BY DEF Told
  <1>2. /\ Has(u, Eof) => Has(d, Eof)
        /\ InOrder(k, d, m) /\ Behind(k, u, d, m) /\ GivenUp(k, u)
        /\ Held(k, d, R) /\ Announced(d, R)
    BY <1>1 DEF Told
  <1>3. \A p \in Pair : p <= m => p <= m + 1
    BY SessionsArePositive DEF Pair
  <1>4. InOrder(k, d, m + 1)
    <2>1. \A i \in 1..Len(k.pairs) : k.pairs[i].pair \in Pair
      <3>1. \A i \in 1..Len(k.pairs) : k.pairs[i] \in PairFrame
        OBVIOUS
      <3> QED
        BY <3>1 DEF PairFrame, Pair
    <2>2. \A i \in 1..Len(d) : d[i].type = "pair" => d[i].pair \in Pair
      <3>1. \A i \in 1..Len(d) : d[i] \in DownFrame
        OBVIOUS
      <3> QED
        BY <3>1, DownFrameKinds DEF PairFrame, Pair
    <2> QED
      BY <1>2, <1>3, <2>1, <2>2 DEF InOrder
  <1>5. \A x \in Pair : Past(k, d, m, x) => Past(k, d, m + 1, x)
    BY <1>3 DEF Past
  <1>6. Behind(k, u, d, m + 1)
    BY <1>2, <1>5, CloseRequests DEF Behind, Pair
  <1> QED
    BY <1>2, <1>4, <1>6 DEF Told

-----------------------------------------------------------------------------
(* What a client reads *)

\* A frame that announces nothing is read: it may be the close of a pair that the
\* client does not hold.
LEMMA TailTold ==
    ASSUME NEW k, NEW u, NEW d \in Seq(DownFrame), d # <<>>, NEW R, NEW m,
           Told(k, u, d, R, m), Head(d).type \notin {"pair", "eof"},
           Head(d).type = "close" =>
              /\ k.pair # 0 => Head(d).pair # k.pair
              /\ k.role = Nobody \/ k.pair # 0
    PROVE  Told(k, u, Tail(d), R, m)
  <1> DEFINE e == Tail(d)
  <1>1. SUFFICES ASSUME k.connected PROVE Told(k, u, e, R, m)
    BY DEF Told
  <1>2. /\ Has(u, Eof) => Has(d, Eof)
        /\ InOrder(k, d, m) /\ Behind(k, u, d, m) /\ GivenUp(k, u)
        /\ Held(k, d, R) /\ Announced(d, R)
    BY <1>1 DEF Told
  <1>3. /\ Head(d) = d[1] /\ Len(e) = Len(d) - 1 /\ Len(d) \in Nat \ {0}
        /\ \A i \in 1..Len(e) : i + 1 \in 1..Len(d) /\ e[i] = d[i + 1]
        /\ \A i \in 1..Len(d) : i = 1 \/ (i - 1 \in 1..Len(e) /\ e[i - 1] = d[i])
    BY TailOf
  <1> HIDE DEF e
  <1>4. ASSUME NEW f, Has(d, f), f # Head(d) PROVE Has(e, f)
    BY <1>3, <1>4 DEF Has
  <1>5. Has(d, Eof) => Has(e, Eof)
    BY <1>4 DEF Eof
  <1>6. InOrder(k, e, m)
    <2>1. Rising(e)
      <3>1. SUFFICES ASSUME NEW i \in 1..Len(e), NEW j \in 1..Len(e), i < j,
                            e[i].type = "pair", e[j].type = "pair"
                     PROVE  e[i].pair < e[j].pair
        BY DEF Rising
      <3>2. /\ i + 1 \in 1..Len(d) /\ e[i] = d[i + 1] /\ j + 1 \in 1..Len(d) /\ e[j] = d[j + 1]
            /\ i + 1 < j + 1
        BY <1>3, <3>1
      <3> QED
        BY <1>2, <3>1, <3>2 DEF InOrder, Rising
    <2> QED
      BY <1>2, <1>3, <2>1 DEF InOrder
  <1>7. Behind(k, u, e, m)
    <2>1. \A x : Past(k, d, m, x) => Past(k, e, m, x)
      BY <1>3 DEF Past
    <2> QED
      BY <1>2, <2>1 DEF Behind
  <1>8. Held(k, e, R)
    <2>1. ASSUME Live(k) PROVE Alive(e, R, k.pair)
      <3>1. k.pair # 0 /\ Alive(d, R, k.pair)
        BY <1>2, <2>1 DEF Held, Live
      <3>2. CloseFrame(k.pair) # Head(d)
        BY <3>1 DEF CloseFrame
      <3> QED
        BY <1>4, <1>5, <3>1, <3>2 DEF Alive
    <2>2. ASSUME k.role # Nobody, k.pair = 0, NEW i \in 1..Len(k.pairs)
          PROVE  Alive(e, R, k.pairs[i].pair)
      <3>1. Alive(d, R, k.pairs[i].pair)
        BY <1>2, <2>2 DEF Held
      <3>2. CloseFrame(k.pairs[i].pair) # Head(d)
        BY <2>2 DEF CloseFrame
      <3> QED
        BY <1>4, <1>5, <3>1, <3>2 DEF Alive
    <2> QED
      BY <2>1, <2>2 DEF Held
  <1>9. Announced(e, R)
    <2>1. SUFFICES ASSUME NEW i \in 1..Len(e), e[i].type = "pair", e[i].pair \notin R, ~Has(e, Eof)
                   PROVE  \E j \in 1..Len(e) : i < j /\ e[j] = CloseFrame(e[i].pair)
      BY DEF Announced
    <2>2. i + 1 \in 1..Len(d) /\ e[i] = d[i + 1] /\ ~Has(d, Eof)
      BY <1>3, <1>5, <2>1
    <2>3. PICK j \in 1..Len(d) : i + 1 < j /\ d[j] = CloseFrame(d[i + 1].pair)
      BY <1>2, <2>1, <2>2 DEF Announced
    <2>4. j - 1 \in 1..Len(e) /\ e[j - 1] = d[j] /\ i < j - 1
      BY <1>3, <2>3
    <2> QED
      BY <2>2, <2>3, <2>4
  <1> QED
    BY <1>2, <1>5, <1>6, <1>7, <1>8, <1>9 DEF Told

\* An announcement is read.
LEMMA PairHeardTold ==
    ASSUME NEW k, k.pairs \in Seq(PairFrame),
           NEW u, NEW d \in Seq(DownFrame), d # <<>>, NEW R, NEW m, Told(k, u, d, R, m),
           Head(d).type = "pair",
           NEW n, Changes(k, n, {"pairs"}), n.pairs = Append(k.pairs, Head(d))
    PROVE  Told(n, u, Tail(d), R, m)
  <1> DEFINE e == Tail(d)
             f == Head(d)
             q == n.pairs
  <1>1. SUFFICES ASSUME n.connected PROVE Told(n, u, e, R, m)
    BY DEF Told
  <1>2. /\ n.connected = k.connected /\ n.ui = k.ui /\ n.task = k.task /\ n.role = k.role
        /\ n.pair = k.pair /\ n.taskPair = k.taskPair /\ n.failing = k.failing
        /\ n.channel = k.channel
    BY DEF Changes, Fields
  <1>3. /\ Has(u, Eof) => Has(d, Eof)
        /\ InOrder(k, d, m) /\ Behind(k, u, d, m) /\ GivenUp(k, u)
        /\ Held(k, d, R) /\ Announced(d, R)
    BY <1>1, <1>2 DEF Told
  <1>4. /\ f = d[1] /\ Len(e) = Len(d) - 1 /\ Len(d) \in Nat \ {0} /\ f \in DownFrame
        /\ \A i \in 1..Len(e) : i + 1 \in 1..Len(d) /\ e[i] = d[i + 1]
        /\ \A i \in 1..Len(d) : i = 1 \/ (i - 1 \in 1..Len(e) /\ e[i - 1] = d[i])
    BY TailOf
  <1>5. f \in PairFrame
    BY <1>4, DownFrameKinds
  <1>6. /\ Len(q) = Len(k.pairs) + 1 /\ Len(k.pairs) \in Nat /\ q[Len(k.pairs) + 1] = f
        /\ \A i \in 1..Len(k.pairs) : q[i] = k.pairs[i]
    BY <1>5, Appended
  <1>7. Live(n) = Live(k)
    BY <1>2 DEF Live
  <1> HIDE DEF e, f, q
  <1>8. \A i \in 1..Len(q) : (i \in 1..Len(k.pairs) /\ q[i] = k.pairs[i]) \/ (q[i] = f /\ i = Len(k.pairs) + 1)
    BY <1>6
  <1>9. 1 \in 1..Len(d) /\ d[1] = f /\ f.type = "pair"
    BY <1>4 DEF f
  <1>10. ASSUME NEW g, Has(d, g), g.type # "pair" PROVE Has(e, g)
    BY <1>4, <1>9, <1>10 DEF Has
  <1>11. \A p : CloseFrame(p).type # "pair" /\ Eof.type # "pair"
    BY DEF CloseFrame, Eof
  <1>12. ASSUME NEW i \in 1..Len(e), e[i].type = "pair"
         PROVE  f.pair < e[i].pair /\ e[i].pair <= m
    <2>1. i + 1 \in 1..Len(d) /\ d[i + 1] = e[i] /\ 1 < i + 1
      BY <1>4
    <2> QED
      BY <1>3, <1>9, <1>12, <2>1 DEF InOrder, Rising
  <1>13. InOrder(n, e, m)
    <2>1. Rising(e)
      <3>1. SUFFICES ASSUME NEW i \in 1..Len(e), NEW j \in 1..Len(e), i < j,
                            e[i].type = "pair", e[j].type = "pair"
                     PROVE  e[i].pair < e[j].pair
        BY DEF Rising
      <3>2. /\ i + 1 \in 1..Len(d) /\ e[i] = d[i + 1] /\ j + 1 \in 1..Len(d) /\ e[j] = d[j + 1]
            /\ i + 1 < j + 1
        BY <1>4, <3>1
      <3> QED
        BY <1>3, <3>1, <3>2 DEF InOrder, Rising
    <2>2. Rising(q)
      <3>1. SUFFICES ASSUME NEW i \in 1..Len(q), NEW j \in 1..Len(q), i < j,
                            q[i].type = "pair", q[j].type = "pair"
                     PROVE  q[i].pair < q[j].pair
        BY DEF Rising
      <3>2. i \in 1..Len(k.pairs) /\ q[i] = k.pairs[i]
        BY <1>6, <1>8, <3>1
      <3>3. CASE j \in 1..Len(k.pairs) /\ q[j] = k.pairs[j]
        BY <1>3, <3>1, <3>2, <3>3 DEF InOrder, Rising
      <3>4. CASE q[j] = f
        BY <1>3, <1>9, <3>2, <3>4 DEF InOrder
      <3> QED
        BY <1>8, <3>3, <3>4
    <2>3. \A i \in 1..Len(q) : q[i].pair <= m
      BY <1>3, <1>8, <1>9 DEF InOrder
    <2>4. ASSUME NEW j \in 1..Len(e), e[j].type = "pair", NEW i \in 1..Len(q)
          PROVE  q[i].pair < e[j].pair
      <3>1. j + 1 \in 1..Len(d) /\ d[j + 1] = e[j]
        BY <1>4
      <3>2. \A l \in 1..Len(k.pairs) : k.pairs[l].pair < e[j].pair
        BY <1>3, <2>4, <3>1 DEF InOrder
      <3> QED
        BY <1>8, <1>12, <2>4, <3>2
    <2> QED
      BY <1>12, <2>1, <2>2, <2>3, <2>4 DEF InOrder, q
  <1>14. Behind(n, u, e, m)
    <2>1. ASSUME NEW x, Past(k, d, m, x) PROVE Past(n, e, m, x)
      <3>1. SUFFICES ASSUME x # 0
                     PROVE  /\ \A i \in 1..Len(q) : x < q[i].pair
                            /\ \A i \in 1..Len(e) : e[i].type = "pair" => x < e[i].pair
        BY <2>1 DEF Past, q
      <3>2. x < f.pair
        BY <1>9, <2>1, <3>1 DEF Past
      <3>3. \A i \in 1..Len(q) : x < q[i].pair
        BY <1>8, <2>1, <3>1, <3>2 DEF Past
      <3>4. ASSUME NEW i \in 1..Len(e), e[i].type = "pair" PROVE x < e[i].pair
        <4>1. i + 1 \in 1..Len(d) /\ d[i + 1] = e[i]
          BY <1>4
        <4> QED
          BY <2>1, <3>1, <3>4, <4>1 DEF Past
      <3> QED
        BY <3>3, <3>4
    <2> QED
      BY <1>2, <1>3, <2>1 DEF Behind
  <1>15. GivenUp(n, u)
    BY <1>2, <1>3, <1>7, SameDeparts DEF GivenUp
  <1>16. \A p : Alive(d, R, p) => Alive(e, R, p)
    BY <1>10, <1>11 DEF Alive
  <1>17. Alive(e, R, f.pair)
    <2>1. CASE f.pair \in R \/ Has(d, Eof)
      BY <1>10, <1>11, <2>1 DEF Alive
    <2>2. CASE \E j \in 1..Len(d) : 1 < j /\ d[j] = CloseFrame(f.pair)
      <3>1. Has(d, CloseFrame(f.pair))
        BY <2>2 DEF Has
      <3> QED
        BY <1>10, <1>11, <3>1 DEF Alive
    <2> QED
      BY <1>3, <1>9, <2>1, <2>2 DEF Announced
  <1>18. Held(n, e, R)
    <2>1. Live(n) => Alive(e, R, n.pair)
      BY <1>2, <1>3, <1>7, <1>16 DEF Held
    <2>2. ASSUME n.role # Nobody, n.pair = 0, NEW i \in 1..Len(q) PROVE Alive(e, R, q[i].pair)
      BY <1>2, <1>3, <1>8, <1>16, <1>17, <2>2 DEF Held
    <2> QED
      BY <2>1, <2>2 DEF Held, q
  <1>19. Announced(e, R)
    <2>1. SUFFICES ASSUME NEW i \in 1..Len(e), e[i].type = "pair", e[i].pair \notin R, ~Has(e, Eof)
                   PROVE  \E j \in 1..Len(e) : i < j /\ e[j] = CloseFrame(e[i].pair)
      BY DEF Announced
    <2>2. i + 1 \in 1..Len(d) /\ e[i] = d[i + 1] /\ ~Has(d, Eof)
      BY <1>4, <1>10, <1>11, <2>1
    <2>3. PICK j \in 1..Len(d) : i + 1 < j /\ d[j] = CloseFrame(d[i + 1].pair)
      BY <1>3, <2>1, <2>2 DEF Announced
    <2>4. j - 1 \in 1..Len(e) /\ e[j - 1] = d[j] /\ i < j - 1
      BY <1>4, <2>3
    <2> QED
      BY <2>2, <2>3, <2>4
  <1>20. Has(u, Eof) => Has(e, Eof)
    BY <1>3, <1>10, <1>11
  <1> QED
    BY <1>13, <1>14, <1>15, <1>18, <1>19, <1>20 DEF Told

\* The fields of what a client shows and remembers, but for those of its pairs.
ScreenFields ==
    {"ui", "task", "taskPair", "participant", "buffered", "identified", "proofs", "events",
     "closes", "comm", "over", "shown", "pending"}

LEMMA ChangesMore ==
    ASSUME NEW k, NEW n, NEW S, NEW T, Changes(k, n, S), S \subseteq T PROVE Changes(k, n, T)
  BY DEF Changes

\* The screens and tasks of a client move on, and none that aborted goes on.
LEMMA MovingOn ==
    ASSUME NEW k, NEW n, Changes(k, n, ScreenFields),
           n.taskPair = k.taskPair \/ n.taskPair = k.pair \/ n.taskPair = 0,
           k.task = "aborting" => n.task = "aborting" \/ k.pair = 0,
           Departs(n) => n.ui = k.ui
    PROVE  Weakens(k, n)
  <1>1. /\ n.connected = k.connected /\ n.pairs = k.pairs /\ n.pair = k.pair
        /\ n.failing = k.failing /\ n.role = k.role /\ n.channel = k.channel
    BY DEF Changes, Fields, ScreenFields
  <1> QED
    BY <1>1, SameDeparts DEF Weakens, Live

\* The session state is discarded, whatever the screens and tasks do.
LEMMA LettingGo ==
    ASSUME NEW k, NEW n, n.connected = k.connected, n.pairs = k.pairs,
           n.taskPair = k.taskPair \/ n.taskPair = k.pair \/ n.taskPair = 0,
           n.failing = k.failing \/ n.failing = k.pair,
           n.role = Nobody, n.pair = 0
    PROVE  Weakens(k, n)
  BY DEF Weakens, Live

LEMMA DecryptedWeakens ==
    ASSUME NEW k, ClientInv(k), k.channel # NoChannel, Usable(k.channel), NEW f \in Frame,
           NEW n, n = Decrypted(k, f)
    PROVE  Weakens(k, n)
  <1>1. CASE Opens(k.channel, f)
    <2>1. Changes(k, n, {"channel", "identified", "events"})
      BY <1>1, DecryptedKeeps
    <2>2. /\ n.connected = k.connected /\ n.pairs = k.pairs /\ n.pair = k.pair
          /\ n.taskPair = k.taskPair /\ n.task = k.task /\ n.ui = k.ui
          /\ n.failing = k.failing /\ n.role = k.role
      BY <2>1 DEF Changes, Fields
    <2> QED
      BY <2>2, SameDeparts DEF Weakens, Live
  <1>2. CASE ~Opens(k.channel, f)
    <2>1. Changes(k, n, DecryptedFields) /\ n.failing = k.pair /\ n.role = Nobody /\ n.pair = 0
      BY <1>2, DecryptedKeeps
    <2>2. n.connected = k.connected /\ n.pairs = k.pairs /\ n.taskPair = k.taskPair
      BY <2>1 DEF Changes, Fields, DecryptedFields
    <2> QED
      BY <2>1, <2>2, LettingGo
  <1> QED
    BY <1>1, <1>2

LEMMA ReadAnswerWeakens ==
    ASSUME NEW k, ClientInv(k), NEW f \in AnswerFrame, NEW n, n = ReadAnswer(k, f), n.connected
    PROVE  Weakens(k, n)
  <1>1. CASE ~f.late
    <2>1. f.by \in By /\ f.result \in {"none", "sent"} \cup Result
      BY DEF AnswerFrame
    <2>2. n = [k EXCEPT !.pending[f.by] = f.result]
      BY <1>1 DEF ReadAnswer
    <2>3. Changes(k, n, {"pending"})
      BY <2>1, <2>2, AnswerKeeps
    <2>4. Changes(k, n, ScreenFields)
      BY <2>3, ChangesMore DEF ScreenFields
    <2>5. n.taskPair = k.taskPair /\ n.task = k.task /\ n.ui = k.ui
      BY <2>3 DEF Changes, Fields
    <2> QED
      BY <2>4, <2>5, MovingOn
  <1>2. CASE f.late /\ f.result = "error"
    <2>1. n = k
      BY <1>2 DEF ReadAnswer
    <2> QED
      BY <2>1 DEF Weakens
  <1>3. CASE f.late /\ f.result # "error"
    <2>1. n = Dies(k) \/ n = FailPending(Dies(k))
      BY <1>3 DEF ReadAnswer
    <2>2. ClientInv(Dies(k)) /\ ~Dies(k).connected
      BY DiesKeeps
    <2>3. CASE n = FailPending(Dies(k))
      <3>1. Changes(Dies(k), n, {"pending"})
        BY <2>2, <2>3, FailPendingKeeps
      <3>2. ~n.connected
        BY <2>2, <3>1 DEF Changes, Fields
      <3> QED
        BY <3>2
    <2> QED
      BY <2>1, <2>2, <2>3
  <1> QED
    BY <1>1, <1>2, <1>3

LEMMA ReadDataWeakens ==
    ASSUME NEW k, ClientInv(k), NEW f \in Frame, NEW n, n = ReadData(k, f), n.connected
    PROVE  Weakens(k, n)
  <1>1. IsClient(k)
    BY DEF ClientInv
  <1>2. CASE k.pair # 0 /\ f.session # k.pair
    <2>1. n = FailPending(Dies(k))
      BY <1>2 DEF ReadData
    <2>2. ClientInv(Dies(k)) /\ ~Dies(k).connected
      BY DiesKeeps
    <2>3. Changes(Dies(k), n, {"pending"})
      BY <2>1, <2>2, FailPendingKeeps
    <2>4. ~n.connected
      BY <2>2, <2>3 DEF Changes, Fields
    <2> QED
      BY <2>4
  <1>3. CASE ~(k.pair # 0 /\ f.session # k.pair) /\ k.channel = NoChannel
    <2>1. n = [k EXCEPT !.buffered = Append(@, f)]
      BY <1>3 DEF ReadData
    <2>2. Changes(k, n, {"buffered"})
      BY <1>1, <2>1 DEF Changes, IsClient, IsRecord, Fields
    <2>3. Changes(k, n, ScreenFields)
      BY <2>2, ChangesMore DEF ScreenFields
    <2>4. n.taskPair = k.taskPair /\ n.task = k.task /\ n.ui = k.ui
      BY <2>2 DEF Changes, Fields
    <2> QED
      BY <2>3, <2>4, MovingOn
  <1>4. CASE ~(k.pair # 0 /\ f.session # k.pair) /\ k.channel # NoChannel /\ ~Usable(k.channel)
    <2>1. n = Dies(k)
      BY <1>4 DEF ReadData
    <2> QED
      BY <2>1, DiesKeeps
  <1>5. CASE ~(k.pair # 0 /\ f.session # k.pair) /\ k.channel # NoChannel /\ Usable(k.channel)
    <2>1. n = Decrypted(k, f)
      BY <1>5 DEF ReadData
    <2> QED
      BY <1>5, <2>1, DecryptedWeakens
  <1> QED
    BY <1>2, <1>3, <1>4, <1>5

LEMMA ReadCloseWeakens ==
    ASSUME NEW k, ClientInv(k), NEW p, NEW n, n = ReadClose(k, p)
    PROVE  /\ Weakens(k, n)
           /\ (n.pair = 0 /\ n.role = Nobody) \/ (n = k /\ ~CloseApplies(k, p))
  <1>1. IsClient(k)
    BY DEF ClientInv
  <1>2. CASE CloseApplies(k, p)
    <2> DEFINE o == [k EXCEPT !.closes = Append(@, "closed")]
    <2>1. Changes(k, o, {"closes"})
      BY <1>1 DEF Changes, IsClient, IsRecord, Fields
    <2>2. n = DiscardState(o)
      BY <1>2 DEF ReadClose
    <2> HIDE DEF o
    <2>3. /\ n.pair = 0 /\ n.role = Nobody /\ n.connected = o.connected /\ n.pairs = o.pairs
          /\ n.taskPair = o.taskPair /\ n.failing = o.failing
      BY <2>1, <2>2 DEF Changes, DiscardState, IsRecord, Fields
    <2>4. /\ o.connected = k.connected /\ o.pairs = k.pairs
          /\ o.taskPair = k.taskPair /\ o.failing = k.failing
      BY <2>1 DEF Changes, Fields
    <2> QED
      BY <2>3, <2>4, LettingGo
  <1>3. CASE ~CloseApplies(k, p)
    <2>1. n = k
      BY <1>3 DEF ReadClose
    <2> QED
      BY <1>3, <2>1 DEF Weakens
  <1> QED
    BY <1>2, <1>3

\* Whatever is read, the client knows what it is to know.
LEMMA HeardTold ==
    ASSUME NEW k, ClientInv(k), NEW u, NEW d \in Seq(DownFrame), d # <<>>, NEW R, NEW m,
           Told(k, u, d, R, m), NEW n, n = Heard(k, Head(d))
    PROVE  n.connected => Told(n, u, Tail(d), R, m)
  <1> DEFINE f == Head(d)
  <1>1. SUFFICES ASSUME n.connected PROVE Told(n, u, Tail(d), R, m)
    OBVIOUS
  <1>2. IsClient(k) /\ k.pairs \in Seq(PairFrame) /\ f \in DownFrame
    BY TailOf DEF ClientInv, IsClient, ClientTypes
  <1>3. CASE f.type = "pair"
    <2>1. n = [k EXCEPT !.pairs = Append(@, f)]
      BY <1>3 DEF Heard
    <2>2. Changes(k, n, {"pairs"}) /\ n.pairs = Append(k.pairs, f)
      BY <1>2, <2>1 DEF Changes, IsClient, IsRecord, Fields
    <2> QED
      BY <1>2, <1>3, <2>2, PairHeardTold
  <1>4. CASE f.type = "eof"
    <2>1. n = Dies(k)
      BY <1>4 DEF Heard
    <2> QED
      BY <1>1, <2>1, DiesKeeps
  <1>5. CASE f.type = "close"
    <2>1. n = ReadClose(k, f.pair)
      BY <1>5 DEF Heard
    <2>2. /\ Weakens(k, n)
          /\ (n.pair = 0 /\ n.role = Nobody) \/ (n = k /\ ~CloseApplies(k, f.pair))
      BY <2>1, ReadCloseWeakens
    <2>3. Told(n, u, d, R, m)
      BY <2>2, WeakerIsTold
    <2>4. (n.pair # 0 => f.pair # n.pair) /\ (n.role = Nobody \/ n.pair # 0)
      BY <2>2 DEF CloseApplies
    <2> QED
      BY <1>5, <2>3, <2>4, TailTold
  <1>6. CASE f.type \in {"answer", "proof", "data"}
    <2>1. Weakens(k, n)
      <3>1. CASE f.type = "answer"
        <4>1. n = ReadAnswer(k, f) /\ f \in AnswerFrame
          BY <1>2, <3>1, DownFrameKinds DEF Heard
        <4> QED
          BY <1>1, <4>1, ReadAnswerWeakens
      <3>2. CASE f.type = "proof"
        <4>1. n = [k EXCEPT !.proofs = Append(@, f)]
          BY <3>2 DEF Heard
        <4>2. Changes(k, n, {"proofs"})
          BY <1>2, <4>1 DEF Changes, IsClient, IsRecord, Fields
        <4>3. Changes(k, n, ScreenFields)
          BY <4>2, ChangesMore DEF ScreenFields
        <4>4. n.taskPair = k.taskPair /\ n.task = k.task /\ n.ui = k.ui
          BY <4>2 DEF Changes, Fields
        <4> QED
          BY <4>3, <4>4, MovingOn
      <3>3. CASE f.type = "data"
        <4>1. n = ReadData(k, f.frame) /\ f.frame \in Frame
          BY <1>2, <3>3, DownFrameKinds DEF Heard, RelayedFrame
        <4> QED
          BY <1>1, <4>1, ReadDataWeakens
      <3> QED
        BY <1>6, <3>1, <3>2, <3>3
    <2>2. Told(n, u, d, R, m)
      BY <2>1, WeakerIsTold
    <2> QED
      BY <1>6, <2>2, TailTold
  <1> QED
    BY <1>2, <1>3, <1>4, <1>5, <1>6, DownFrameKinds

-----------------------------------------------------------------------------
(* Steps of a client *)

\* complete_session takes the first announcement.
LEMMA DroppedTold ==
    ASSUME NEW k, k.pairs \in Seq(PairFrame), k.pairs # <<>>,
           NEW u, NEW d, NEW R, NEW m, Told(k, u, d, R, m),
           NEW n, Changes(k, n, {"pairs"}), n.pairs = Tail(k.pairs)
    PROVE  Told(n, u, d, R, m)
  <1> DEFINE q == n.pairs
  <1>1. SUFFICES ASSUME n.connected PROVE Told(n, u, d, R, m)
    BY DEF Told
  <1>2. /\ n.connected = k.connected /\ n.ui = k.ui /\ n.task = k.task /\ n.role = k.role
        /\ n.pair = k.pair /\ n.taskPair = k.taskPair /\ n.failing = k.failing
        /\ n.channel = k.channel
    BY DEF Changes, Fields
  <1>3. /\ Has(u, Eof) => Has(d, Eof)
        /\ InOrder(k, d, m) /\ Behind(k, u, d, m) /\ GivenUp(k, u)
        /\ Held(k, d, R) /\ Announced(d, R)
    BY <1>1, <1>2 DEF Told
  <1>4. /\ Len(q) \in Nat
        /\ \A i \in 1..Len(q) : i + 1 \in 1..Len(k.pairs) /\ q[i] = k.pairs[i + 1]
    BY TailOf
  <1> HIDE DEF q
  <1>5. InOrder(n, d, m)
    <2>1. Rising(q)
      <3>1. SUFFICES ASSUME NEW i \in 1..Len(q), NEW j \in 1..Len(q), i < j,
                            q[i].type = "pair", q[j].type = "pair"
                     PROVE  q[i].pair < q[j].pair
        BY DEF Rising
      <3>2. /\ i + 1 \in 1..Len(k.pairs) /\ q[i] = k.pairs[i + 1]
            /\ j + 1 \in 1..Len(k.pairs) /\ q[j] = k.pairs[j + 1] /\ i + 1 < j + 1
        BY <1>4, <3>1
      <3> QED
        BY <1>3, <3>1, <3>2 DEF InOrder, Rising
    <2>2. \A i \in 1..Len(q) : q[i].pair <= m
      BY <1>3, <1>4 DEF InOrder
    <2>3. \A j \in 1..Len(d) : d[j].type = "pair" =>
             d[j].pair <= m /\ \A i \in 1..Len(q) : q[i].pair < d[j].pair
      BY <1>3, <1>4 DEF InOrder
    <2> QED
      BY <1>3, <2>1, <2>2, <2>3 DEF InOrder, q
  <1>6. Behind(n, u, d, m)
    <2>1. \A x : Past(k, d, m, x) => Past(n, d, m, x)
      BY <1>4 DEF Past, q
    <2> QED
      BY <1>2, <1>3, <2>1 DEF Behind
  <1>7. Live(n) = Live(k)
    BY <1>2 DEF Live
  <1>8. GivenUp(n, u)
    BY <1>2, <1>3, <1>7, SameDeparts DEF GivenUp
  <1>9. Held(n, d, R)
    BY <1>2, <1>3, <1>4, <1>7 DEF Held, q
  <1> QED
    BY <1>3, <1>5, <1>6, <1>8, <1>9 DEF Told

LEMMA Announcements ==
    ASSUME NEW q \in Seq(PairFrame), q # <<>>, NEW r, r = Tail(q)
    PROVE  /\ Len(r) \in Nat /\ 1 \in 1..Len(q)
           /\ \A i \in 1..Len(r) : i + 1 \in 1..Len(q) /\ r[i] = q[i + 1] /\ 1 < i + 1
           /\ \A i \in 1..Len(q) : q[i].type = "pair" /\ q[i].pair \in Session
  <1>1. \A i \in 1..Len(q) : q[i] \in PairFrame
    OBVIOUS
  <1> QED
    BY <1>1, TailOf DEF PairFrame

LEMMA AddOne == \A N \in Nat : \A i, j \in 1..N : i < j => i + 1 < j + 1
  OBVIOUS

\* It holds the pair, and none of the later ones.
LEMMA TakenTold ==
    ASSUME NEW k, k.pairs \in Seq(PairFrame), k.pairs # <<>>, k.pair = 0, k.role # Nobody,
           ~Departs(k), {k.taskPair, k.failing} \subseteq Pair,
           NEW u \in Seq(UpFrame), NEW d, NEW R, NEW m, Told(k, u, d, R, m),
           NEW n, Changes(k, n, {"pairs", "pair", "taskPair", "task"}),
           n.pairs = Tail(k.pairs), NEW x, x = k.pairs[1].pair, n.pair = x, n.taskPair = x
    PROVE  Told(n, u, d, R, m)
  <1>1. SUFFICES ASSUME n.connected PROVE Told(n, u, d, R, m)
    BY DEF Told
  <1>2. /\ n.connected = k.connected /\ n.ui = k.ui /\ n.role = k.role
        /\ n.failing = k.failing
    BY DEF Changes, Fields
  <1>3. /\ Has(u, Eof) => Has(d, Eof)
        /\ InOrder(k, d, m) /\ Behind(k, u, d, m) /\ GivenUp(k, u)
        /\ Held(k, d, R) /\ Announced(d, R)
    BY <1>1, <1>2 DEF Told
  <1>4. /\ Len(n.pairs) \in Nat /\ 1 \in 1..Len(k.pairs)
        /\ \A i \in 1..Len(n.pairs) :
              i + 1 \in 1..Len(k.pairs) /\ n.pairs[i] = k.pairs[i + 1] /\ 1 < i + 1
    BY Announcements, Zenon
  <1>5. \A i \in 1..Len(k.pairs) : k.pairs[i].type = "pair" /\ k.pairs[i].pair \in Session
    BY Announcements, Zenon
  <1>6. x \in Session
    BY <1>4, <1>5
  <1>7. InOrder(n, d, m)
    <2>1. Rising(n.pairs)
      <3>1. SUFFICES ASSUME NEW i \in 1..Len(n.pairs), NEW j \in 1..Len(n.pairs), i < j
                     PROVE  n.pairs[i].pair < n.pairs[j].pair
        BY DEF Rising
      <3>2. /\ i + 1 \in 1..Len(k.pairs) /\ n.pairs[i] = k.pairs[i + 1]
            /\ j + 1 \in 1..Len(k.pairs) /\ n.pairs[j] = k.pairs[j + 1] /\ i + 1 < j + 1
        BY <1>4, <3>1, AddOne
      <3> QED
        BY <1>3, <1>5, <3>1, <3>2 DEF InOrder, Rising
    <2>2. \A i \in 1..Len(n.pairs) : n.pairs[i].pair <= m
      BY <1>3, <1>4 DEF InOrder
    <2>3. \A j \in 1..Len(d) : d[j].type = "pair" =>
             d[j].pair <= m /\ \A i \in 1..Len(n.pairs) : n.pairs[i].pair < d[j].pair
      BY <1>3, <1>4 DEF InOrder
    <2> QED
      BY <1>3, <2>1, <2>2, <2>3 DEF InOrder
  <1>8. Past(n, d, m, x)
    <2>1. x <= m
      BY <1>3, <1>4, <1>6 DEF InOrder
    <2>2. ASSUME NEW i \in 1..Len(n.pairs) PROVE x < n.pairs[i].pair
      <3>1. i + 1 \in 1..Len(k.pairs) /\ n.pairs[i] = k.pairs[i + 1] /\ 1 < i + 1
        BY <1>4
      <3> QED
        BY <1>3, <1>4, <1>5, <1>6, <3>1 DEF InOrder, Rising
    <2>3. \A j \in 1..Len(d) : d[j].type = "pair" => x < d[j].pair
      BY <1>3, <1>4, <1>6 DEF InOrder
    <2> QED
      BY <2>1, <2>2, <2>3 DEF Past
  <1>9. \A y : Past(k, d, m, y) => Past(n, d, m, y)
    BY <1>4 DEF Past
  <1>10. Behind(n, u, d, m)
    BY <1>2, <1>3, <1>8, <1>9 DEF Behind
  <1>11. \A y \in Pair : Past(k, d, m, y) => y # x
    <2>1. ASSUME NEW y \in Pair, Past(k, d, m, y), y = x PROVE FALSE
      <3>1. y # 0
        BY <1>6, <2>1, SessionsArePositive
      <3>2. x < x
        BY <1>4, <1>6, <2>1, <3>1 DEF Past
      <3> QED
        BY <1>6, <3>2, NotBelowItself
    <2> QED
      BY <2>1
  <1>12. GivenUp(n, u)
    <2>1. \A i \in 1..Len(u) : u[i].type = "close" => u[i].pair # x
      BY <1>3, <1>11, CloseRequests DEF Behind, Pair
    <2>2. n.failing # x
      BY <1>2, <1>3, <1>11 DEF Behind
    <2> QED
      BY <1>2, <2>1, <2>2, SameDeparts DEF GivenUp
  <1>13. Held(n, d, R)
    <2>1. Alive(d, R, x)
      BY <1>3, <1>4, <1>6 DEF Held
    <2>2. n.pair # 0
      BY <1>6, SessionsArePositive
    <2> QED
      BY <2>1, <2>2 DEF Held
  <1> QED
    BY <1>3, <1>7, <1>10, <1>12, <1>13 DEF Told

\* Nobody else notices what a client does by itself.
NextTold ==
    /\ OneRoute'
    /\ \A d \in Client : Told(client'[d], up'[d], down'[d], RoutesOf(d)', made')

LEMMA NextIsTold == NextTold => RelayInv'
  BY DEF NextTold, RelayInv, AllTold, Told, Has, Live, Rising, InOrder, Past, Behind, GivenUp,
         Alive, Held, Announced

LEMMA SameRoutes ==
    ASSUME RelayInv, UNCHANGED relayVars
    PROVE  /\ OneRoute' /\ made' = made /\ \A d \in Client : RoutesOf(d)' = RoutesOf(d)
  BY DEF RelayInv, OneRoute, relayVars, RoutesOf, Members

LEMMA OwnStepTold ==
    ASSUME CommInv, RelayInv, NEW c \in Client, NEW n, Update(c, n), UNCHANGED relayVars,
           \A d \in Client \ {c} : up'[d] = up[d] /\ down'[d] = down[d],
           Told(n, up'[c], down'[c], RoutesOf(c), made)
    PROVE  NextTold
  <1>1. OneRoute' /\ made' = made /\ \A d \in Client : RoutesOf(d)' = RoutesOf(d)
    BY SameRoutes
  <1>2. client' = [client EXCEPT ![c] = n] /\ client = [d \in Client |-> client[d]]
    BY DEF Update, CommInv
  <1>3. \A d \in Client : Told(client[d], up[d], down[d], RoutesOf(d), made)
    BY DEF RelayInv, AllTold
  <1>4. ASSUME NEW d \in Client PROVE Told(client'[d], up'[d], down'[d], RoutesOf(d), made)
    <2>1. CASE d = c
      <3>1. client'[d] = n
        BY <1>2, <2>1
      <3> QED
        BY <2>1, <3>1
    <2>2. CASE d # c
      <3>1. client'[d] = client[d] /\ up'[d] = up[d] /\ down'[d] = down[d]
        BY <1>2, <2>2
      <3> QED
        BY <1>3, <3>1
    <2> QED
      BY <2>1, <2>2
  <1> QED
    BY <1>1, <1>4 DEF NextTold

LEMMA WeakStepTold ==
    ASSUME CommInv, RelayInv, NEW c \in Client, NEW n, Update(c, n), Weakens(client[c], n),
           UNCHANGED <<up, down, relayVars>>
    PROVE  NextTold
  <1>1. Told(n, up[c], down[c], RoutesOf(c), made)
    BY WeakerIsTold DEF RelayInv, AllTold
  <1> QED
    BY <1>1, OwnStepTold

LEMMA AskTold ==
    ASSUME CommInv, RelayInv, NEW c \in Client, NEW k, IsRecord(k),
           Told(k, up[c], down[c], RoutesOf(c), made),
           NEW q \in UpFrame, q # Eof, Ask(c, k, q),
           q.type = "close" /\ k.connected =>
              Past(k, down[c], made, q.pair) /\ (q.pair = k.pair => ~Live(k)),
           UNCHANGED <<down, relayVars>>
    PROVE  NextTold
  <1> DEFINE n == Asking(k, q.by)
             R == RoutesOf(c)
  <1>1. Changes(k, n, {"pending"})
    BY DEF Changes, Asking, IsRecord, Fields
  <1>2. Update(c, n)
    BY DEF Ask
  <1> HIDE DEF n
  <1>3. /\ n.taskPair = k.taskPair /\ n.task = k.task /\ n.ui = k.ui /\ n.pair = k.pair
        /\ n.pairs = k.pairs /\ n.connected = k.connected
    BY <1>1 DEF Changes, Fields
  <1>4. Weakens(k, n)
    <2>1. Changes(k, n, ScreenFields)
      BY <1>1, ChangesMore DEF ScreenFields
    <2> QED
      BY <1>3, <2>1, MovingOn
  <1>5. Told(n, up[c], down[c], R, made)
    BY <1>4, WeakerIsTold
  <1>6. up \in [Client -> Seq(UpFrame)]
    BY DEF CommInv
  <1>7. up' = up \/ up' = [up EXCEPT ![c] = Sent(up[c], <<q>>)]
    BY DEF Ask
  <1>8. q.type = "close" /\ n.connected =>
           Past(n, down[c], made, q.pair) /\ (q.pair = n.pair => ~Live(n))
    BY <1>3, <1>4, StillPast DEF Weakens
  <1>9. up'[c] = up[c] \/ up'[c] = Sent(up[c], <<q>>)
    BY <1>6, <1>7
  <1>10. Told(n, up'[c], down[c], R, made)
    <2>1. up[c] \in Seq(UpFrame)
      BY <1>6
    <2> HIDE DEF R
    <2> QED
      BY <1>5, <1>8, <1>9, <2>1, AskerIsTold
  <1>11. \A d \in Client \ {c} : up'[d] = up[d] /\ down'[d] = down[d]
    BY <1>6, <1>7
  <1>12. down' = down
    OBVIOUS
  <1> QED
    BY <1>2, <1>10, <1>11, <1>12, OwnStepTold

\* A request that asks for nothing to be closed.
LEMMA WeakAskTold ==
    ASSUME CommInv, RelayInv, NEW c \in Client, NEW k, IsRecord(k), Weakens(client[c], k),
           NEW q \in UpFrame, q # Eof, q.type # "close", Ask(c, k, q),
           UNCHANGED <<down, relayVars>>
    PROVE  NextTold
  <1>1. Told(k, up[c], down[c], RoutesOf(c), made)
    BY WeakerIsTold DEF RelayInv, AllTold
  <1> QED
    BY <1>1, AskTold

\* A pair is closed by who does not hold it.
LEMMA CloseTold ==
    ASSUME CommInv, RelayInv, NEW c \in Client, NEW k, IsRecord(k),
           Told(k, up[c], down[c], RoutesOf(c), made),
           k.connected => ~Live(k), k.taskPair \in Session, NEW by \in By,
           Ask(c, k, Request("close", by, k.taskPair)), UNCHANGED <<down, relayVars>>
    PROVE  NextTold
  <1> DEFINE q == Request("close", by, k.taskPair)
  <1>1. q \in UpFrame /\ q # Eof /\ q.pair = k.taskPair
    <2>1. q.type = "close" /\ Eof.type = "eof" /\ q.pair = k.taskPair
      BY DEF Request, Eof
    <2> QED
      BY <2>1, RequestTypes
  <1>2. Ask(c, k, q)
    OBVIOUS
  <1> HIDE DEF q
  <1>3. k.connected => Past(k, down[c], made, q.pair)
    BY <1>1 DEF Told, Behind
  <1> QED
    BY <1>1, <1>2, <1>3, AskTold

LEMMA AbortTold ==
    ASSUME CommInv, RelayInv, NEW c \in Client, NEW k, IsRecord(k), Weakens(client[c], k),
           k.taskPair \in Session, ~Departs(k), Abort(c, k),
           UNCHANGED <<down, relayVars>>
    PROVE  NextTold
  <1> DEFINE n == [k EXCEPT !.task = "aborting"]
  <1>1. Changes(k, n, {"task"}) /\ n.task = "aborting"
    BY DEF Changes, IsRecord, Fields
  <1>2. Ask(c, n, Request("close", "task", k.taskPair))
    BY DEF Abort
  <1> HIDE DEF n
  <1>3. n.taskPair = k.taskPair /\ n.ui = k.ui
    BY <1>1 DEF Changes, Fields
  <1>4. Weakens(k, n)
    <2>1. Changes(k, n, ScreenFields)
      BY <1>1, ChangesMore DEF ScreenFields
    <2> QED
      BY <1>1, <1>3, <2>1, MovingOn
  <1>5. Told(n, up[c], down[c], RoutesOf(c), made)
    <2>1. Weakens(client[c], n)
      BY <1>4, WeakensOn
    <2> QED
      BY <2>1, WeakerIsTold DEF RelayInv, AllTold
  <1>6. ~Live(n) /\ IsRecord(n)
    BY <1>1 DEF Live, Changes
  <1>7. "task" \in By
    BY DEF By
  <1> QED
    BY <1>2, <1>3, <1>5, <1>6, <1>7, CloseTold

LEMMA TakePairTold ==
    ASSUME CommInv, RelayInv, NEW c \in Client, TakePair(c) PROVE NextTold
  <1> DEFINE k == client[c]
             p == Head(k.pairs)
             t == [k EXCEPT !.pairs = Tail(@)]
             n == [t EXCEPT !.pair = p.pair, !.taskPair = p.pair, !.task = "proving"]
             f == Fails(DiscardState(t))
             q == Request("proof", "task", p.pair)
             R == RoutesOf(c)
  <1>1. ClientInv(k) /\ IsClient(k) /\ k.task = "pair" /\ k.pairs # <<>>
    BY DEF CommInv, ClientInv, TakePair
  <1>2. UNCHANGED <<down, relayVars>>
    BY DEF TakePair
  <1>3. \/ p.role # k.role /\ Update(c, f) /\ UNCHANGED up
        \/ p.role = k.role /\ Ask(c, n, q)
    BY DEF TakePair
  <1>4. Told(k, up[c], down[c], R, made)
    BY DEF RelayInv, AllTold
  <1>5. Changes(k, t, {"pairs"}) /\ t.pairs = Tail(k.pairs)
    BY <1>1 DEF Changes, IsClient, IsRecord, Fields
  <1>6. k.pairs \in Seq(PairFrame) /\ {k.taskPair, k.failing} \subseteq Pair
    BY <1>1 DEF IsClient, ClientTypes
  <1>7. Head(k.pairs) = k.pairs[1] /\ p \in PairFrame
    BY <1>1, <1>6, TailOf
  <1>8. up \in [Client -> Seq(UpFrame)]
    BY DEF CommInv
  <1> HIDE DEF k, t, R
  <1>9. CASE p.role # k.role /\ Update(c, f) /\ UNCHANGED up
    <2>1. Told(t, up[c], down[c], R, made)
      BY <1>1, <1>4, <1>5, <1>6, DroppedTold
    <2>2. Weakens(t, f)
      <3>1. IsRecord(t)
        BY <1>5 DEF Changes
      <3>2. /\ f.connected = t.connected /\ f.pairs = t.pairs /\ f.taskPair = t.taskPair
            /\ f.failing = t.failing /\ f.role = Nobody /\ f.pair = 0
        BY <3>1 DEF Fails, DiscardState, IsRecord, Fields
      <3> HIDE DEF f
      <3> QED
        BY <3>2, LettingGo
    <2> HIDE DEF f
    <2>3. Told(f, up[c], down[c], R, made)
      BY <2>1, <2>2, WeakerIsTold
    <2>4. up' = up /\ down' = down
      BY <1>2, <1>9
    <2> QED
      BY <1>2, <1>9, <2>3, <2>4, OwnStepTold DEF R
  <1>10. CASE p.role = k.role /\ Ask(c, n, q)
    <2>1. /\ Changes(k, n, {"pairs", "pair", "taskPair", "task"}) /\ n.pairs = Tail(k.pairs)
          /\ n.pair = p.pair /\ n.taskPair = p.pair
      <3>1. IsRecord(t)
        BY <1>5 DEF Changes
      <3>2. Changes(t, n, {"pair", "taskPair", "task"}) /\ n.pair = p.pair /\ n.taskPair = p.pair
        BY <3>1 DEF Changes, IsRecord, Fields
      <3> HIDE DEF n
      <3>3. Changes(k, n, {"pairs", "pair", "taskPair", "task"})
        BY <1>5, <3>2 DEF Changes
      <3>4. n.pairs = t.pairs
        BY <3>2 DEF Changes, Fields
      <3> QED
        BY <1>5, <3>2, <3>3, <3>4
    <2>2. k.pair = 0 /\ ~Departs(k)
      <3>1. k.pair = 0
        BY <1>1, Zenon DEF ClientInv, TaskBelongs
      <3> QED
        BY <1>1, <3>1, InSetupStays
    <2>3. k.role # Nobody
      BY <1>7, <1>10 DEF PairFrame, Role, Nobody
    <2>4. p.pair = k.pairs[1].pair /\ up[c] \in Seq(UpFrame)
      BY <1>7, <1>8
    <2> HIDE DEF n
    <2>5. Told(n, up[c], down[c], R, made)
      <3> HIDE DEF p
      <3> QED
        BY <1>1, <1>4, <1>6, <2>1, <2>2, <2>3, <2>4, TakenTold
    <2>6. q \in UpFrame /\ q # Eof /\ q.type # "close"
      <3>1. q.type = "proof" /\ Eof.type = "eof"
        BY DEF Request, Eof
      <3>2. p.pair \in Session
        BY <1>7 DEF PairFrame
      <3> QED
        BY <3>1, <3>2, RequestTypes DEF By
    <2> HIDE DEF q
    <2>7. IsRecord(n) /\ Ask(c, n, q)
      BY <1>10, <2>1 DEF Changes
    <2> QED
      BY <1>2, <2>5, <2>6, <2>7, AskTold DEF R
  <1> QED
    BY <1>3, <1>9, <1>10

\* An answer is taken, and the task or the screen goes on.
LEMMA ResumedWeakens ==
    ASSUME CommInv, NEW c \in Client, NEW by \in By, NEW k, k = Resumed(c, by)
    PROVE  /\ ClientInv(client[c]) /\ ClientInv(k) /\ IsRecord(k)
           /\ Changes(client[c], k, {"pending"}) /\ Weakens(client[c], k)
           /\ k.task = client[c].task /\ k.ui = client[c].ui /\ k.role = client[c].role
           /\ k.taskPair = client[c].taskPair /\ k.pair = client[c].pair
           /\ k.connected = client[c].connected
  <1>1. ClientInv(client[c]) /\ ClientInv(k) /\ Changes(client[c], k, {"pending"})
    BY ResumedKeeps
  <1>2. /\ k.task = client[c].task /\ k.ui = client[c].ui /\ k.role = client[c].role
        /\ k.taskPair = client[c].taskPair /\ k.pair = client[c].pair
        /\ k.connected = client[c].connected
    BY <1>1 DEF Changes, Fields
  <1>3. Changes(client[c], k, ScreenFields)
    BY <1>1, ChangesMore DEF ScreenFields
  <1>4. Weakens(client[c], k)
    BY <1>2, <1>3, MovingOn
  <1> QED
    BY <1>1, <1>2, <1>4 DEF Changes

LEMMA ProofAnsweredTold ==
    ASSUME CommInv, RelayInv, NEW c \in Client, ProofAnswered(c) PROVE NextTold
  <1> DEFINE k == Resumed(c, "task")
  <1>1. /\ IsRecord(k) /\ Weakens(client[c], k)
        /\ k.task = client[c].task
    BY ResumedWeakens DEF By
  <1>2. client[c].task = "proving" /\ UNCHANGED <<up, down, relayVars>>
    BY DEF ProofAnswered
  <1>3. \E task \in {"proof", "failed"} : Update(c, [k EXCEPT !.task = task])
    BY DEF ProofAnswered, Fails
  <1> HIDE DEF k
  <1>4. PICK task \in {"proof", "failed"} : Update(c, [k EXCEPT !.task = task])
    BY <1>3
  <1> DEFINE n == [k EXCEPT !.task = task]
  <1>5. Changes(k, n, {"task"})
    BY <1>1 DEF Changes, IsRecord, Fields
  <1>6. Update(c, n)
    BY <1>4
  <1> HIDE DEF n
  <1>7. n.taskPair = k.taskPair /\ n.ui = k.ui
    BY <1>5 DEF Changes, Fields
  <1>8. Weakens(k, n)
    <2>1. Changes(k, n, ScreenFields)
      BY <1>5, ChangesMore DEF ScreenFields
    <2> QED
      BY <1>1, <1>2, <1>7, <2>1, MovingOn
  <1>9. Weakens(client[c], n)
    BY <1>1, <1>8, WeakensOn
  <1> QED
    BY <1>2, <1>6, <1>9, WeakStepTold

\* Draining a buffer discards, or opens frames.
LEMMA DrainedWeakens ==
    ASSUME NEW k, ClientInv(k), k.task \in {"naming", "aborting"}, k.taskPair # 0,
           ~Departs(k), NEW n, n = Drained(k)
    PROVE  Weakens(k, n) /\ n.ui = k.ui
  <1>1. IsClient(k) /\ k.buffered \in Seq(Frame)
    BY DEF ClientInv, IsClient, ClientTypes
  <1> DEFINE N == Len(k.buffered)
             K == [k EXCEPT !.buffered = <<>>]
  <1>2. N \in Nat /\ \A i \in 1..N : k.buffered[i] \in Frame
    BY <1>1
  <1>3. PICK g : /\ g = [i \in 0..N |-> IF i = 0 THEN K ELSE DrainedOnto(g[i - 1], k.buffered[i])]
                 /\ Drained(k) = g[N]
    BY <1>2, DrainedByFrame
  <1> DEFINE Good(d) == /\ ClientInv(d) /\ Weakens(k, d) /\ d.ui = k.ui
                        /\ d.task \in {"naming", "aborting"} /\ d.taskPair # 0
             S == {i \in Nat : i \in 0..N => Good(g[i])}
  <1>4. 0 \in S
    <2>1. Changes(k, K, {"buffered"}) /\ K.buffered = <<>>
      BY <1>1 DEF Changes, IsClient, IsRecord, Fields
    <2> HIDE DEF K
    <2>2. ClientTypes(K)
      BY <1>1, <2>1, EmptySequence DEF IsClient, ClientTypes, Changes, Fields
    <2>3. ClientInv(K)
      <3>1. Changes(k, K, Quiet)
        BY <2>1 DEF Changes, Quiet
      <3> QED
        BY <2>2, <3>1, QuietChange
    <2>4. K.taskPair = k.taskPair /\ K.task = k.task /\ K.ui = k.ui
      BY <2>1 DEF Changes, Fields
    <2>5. Weakens(k, K)
      <3>1. Changes(k, K, ScreenFields)
        BY <2>1, ChangesMore DEF ScreenFields
      <3> QED
        BY <2>4, <3>1, MovingOn
    <2>6. g[0] = K
      BY <1>2, <1>3
    <2> QED
      BY <2>3, <2>4, <2>5, <2>6
  <1>5. ASSUME NEW i \in Nat, i \in S PROVE i + 1 \in S
    <2>1. SUFFICES ASSUME i + 1 \in 0..N PROVE Good(g[i + 1])
      OBVIOUS
    <2>2. i \in 0..N /\ i + 1 \in 1..N
      BY <1>2, <2>1
    <2>3. Good(g[i])
      BY <1>5, <2>2
    <2> DEFINE o == g[i]
               f == k.buffered[i + 1]
               r == g[i + 1]
    <2>4. r = DrainedOnto(o, f)
      <3>1. i + 1 # 0 /\ (i + 1) - 1 = i
        OBVIOUS
      <3> QED
        BY <1>3, <2>1, <3>1
    <2>5. f \in Frame
      BY <1>2, <2>2
    <2> HIDE DEF o, f, r
    <2>6. /\ ClientInv(o) /\ Weakens(k, o) /\ o.ui = k.ui
          /\ o.task \in {"naming", "aborting"} /\ o.taskPair # 0
      BY <2>3 DEF o
    <2>7. /\ ClientInv(r) /\ Changes(o, r, DrainedFields)
          /\ r.task \in {"naming", "aborting"} /\ r.taskPair # 0
      BY <2>4, <2>5, <2>6, DrainedOntoKeeps
    <2>8. r.ui = o.ui
      BY <2>7 DEF Changes, Fields, DrainedFields, DecryptedFields
    <2>9. Weakens(o, r)
      <3>1. CASE o.channel # NoChannel /\ Usable(o.channel)
        <4>1. r = Decrypted(o, f)
          BY <2>4, <3>1 DEF DrainedOnto
        <4> QED
          BY <2>5, <2>6, <3>1, <4>1, DecryptedWeakens
      <3>2. CASE ~(o.channel # NoChannel /\ Usable(o.channel))
        <4>1. r = [o EXCEPT !.task = "aborting"]
          BY <2>4, <3>2 DEF DrainedOnto
        <4>2. Changes(o, r, {"task"}) /\ r.task = "aborting"
          BY <2>6, <4>1, AbortingKeeps
        <4>3. Changes(o, r, ScreenFields) /\ r.taskPair = o.taskPair
          BY <4>2, ChangesMore DEF ScreenFields, Changes, Fields
        <4> QED
          BY <2>8, <4>2, <4>3, MovingOn
      <3> QED
        BY <3>1, <3>2
    <2>10. Weakens(k, r)
      BY <2>6, <2>9, WeakensOn
    <2> QED
      BY <2>6, <2>7, <2>8, <2>10 DEF r
  <1>6. N \in S
    <2> HIDE DEF S
    <2> QED
      BY <1>2, <1>4, <1>5, SetInduction
  <1> QED
    BY <1>2, <1>3, <1>6

LEMMA TakeProofTold ==
    ASSUME CommInv, RelayInv, NEW c \in Client, TakeProof(c) PROVE NextTold
  <1> DEFINE k == client[c]
             f == Head(k.proofs)
             t == [k EXCEPT !.proofs = Tail(@), !.participant = FALSE]
             ch == NewChannel(k.taskPair, k.role)
             o == [t EXCEPT !.channel = AfterEncrypt(ch, Identity), !.task = "naming"]
             open == Drained(o)
             q == DataRequest("task", Encrypted(ch, Identity))
  <1>1. ClientInv(k) /\ IsClient(k) /\ k.task = "proof" /\ k.proofs # <<>>
    BY DEF CommInv, ClientInv, TakeProof
  <1>2. UNCHANGED <<down, relayVars>>
    BY DEF TakeProof
  <1>3. \/ Abort(c, t)
        \/ k.participant /\ Abort(c, open)
        \/ k.participant /\ Ask(c, open, q)
    BY DEF TakeProof
  <1>4. k.proofs \in Seq(ProofFrame) /\ Tail(k.proofs) \in Seq(ProofFrame)
    BY <1>1 DEF IsClient, ClientTypes
  <1>5. Changes(k, t, {"proofs", "participant"}) /\ t.proofs = Tail(k.proofs)
        /\ t.participant = FALSE
    BY <1>1 DEF Changes, IsClient, IsRecord, Fields
  <1> HIDE DEF t
  <1>6. /\ t.ui = k.ui /\ t.task = k.task /\ t.role = k.role /\ t.pair = k.pair
        /\ t.taskPair = k.taskPair /\ t.channel = k.channel /\ t.events = k.events
        /\ t.comm = k.comm /\ t.over = k.over /\ t.shown = k.shown
    BY <1>5 DEF Changes, Fields
  <1>7. ClientInv(t)
    <2>1. ClientTypes(t)
      BY <1>1, <1>4, <1>5 DEF IsClient, ClientTypes, Changes, Fields
    <2>2. RoleBelongs(t) /\ TaskBelongs(t)
      BY <1>1, <1>5, <1>6 DEF ClientInv, RoleBelongs, TaskBelongs
    <2>3. TextsFollow(t)
      BY <1>1, <1>5, <1>6 DEF ClientInv, TextsFollow, Accepted, Watches, InComm
    <2> QED
      BY <1>5, <2>1, <2>2, <2>3 DEF ClientInv, IsClient, Changes
  <1>8. t.task = "proof" /\ t.taskPair # 0 /\ t.taskPair \in Session
        /\ ~Departs(t)
    BY <1>1, <1>6, <1>7, InSetupStays, SetupHasPair
  <1>9. Weakens(k, t)
    <2>1. Changes(k, t, ScreenFields)
      BY <1>5, ChangesMore DEF ScreenFields
    <2> QED
      BY <1>1, <1>6, <2>1, MovingOn
  <1>10. CASE Abort(c, t)
    <2>1. IsRecord(t)
      BY <1>5 DEF Changes
    <2> QED
      BY <1>2, <1>8, <1>9, <1>10, <2>1, AbortTold
  <1>11. CASE k.participant /\ (Abort(c, open) \/ Ask(c, open, q))
    <2>1. k.role # Nobody /\ k.channel = NoChannel /\ k.events = <<>> /\ k.pair = k.taskPair
      BY <1>1, <1>11 DEF ClientInv, RoleBelongs, TextsFollow, TaskBelongs
    <2>2. ch = NewChannel(t.taskPair, t.role)
      BY <1>6
    <2>3. ClientInv(o) /\ o.task = "naming" /\ o.taskPair = t.taskPair
          /\ Changes(t, o, {"channel", "task"})
      BY <1>5, <1>6, <1>7, <1>8, <2>1, <2>2, OpeningKeeps
    <2>4. k.taskPair \in Session /\ k.role \in Role
      BY <1>1, <1>6, <1>8, <2>1 DEF IsClient, ClientTypes, Pair
    <2>5. q \in UpFrame /\ q # Eof /\ q.type # "close"
      <3>1. q.type = "data" /\ Eof.type = "eof"
        BY DEF DataRequest, Eof
      <3>2. Encrypted(ch, Identity) \in Frame
        BY <2>4 DEF Encrypted, NewChannel, Frame, Event
      <3> QED
        BY <3>1, <3>2, RequestTypes DEF By
    <2> HIDE DEF o, k, q
    <2>6. /\ o.ui = t.ui /\ o.pair = t.pair /\ o.connected = t.connected /\ o.pairs = t.pairs
          /\ o.failing = t.failing /\ o.role = t.role
      BY <2>3 DEF Changes, Fields
    <2>7. Weakens(t, o)
      <3>1. Live(t)
        <4>1. t.pair # 0 /\ t.channel = NoChannel /\ t.task = "proof"
          BY <1>6, <1>8, <2>1
        <4> QED
          BY <4>1 DEF Live
      <3> QED
        BY <2>3, <2>6, <3>1, SameDeparts DEF Weakens
    <2>8. Weakens(o, open) /\ open.ui = o.ui
      <3>1. o.task \in {"naming", "aborting"} /\ o.taskPair # 0 /\ ~Departs(o)
        BY <1>8, <2>3, <2>6, SameDeparts
      <3> QED
        BY <2>3, <3>1, DrainedWeakens DEF open
    <2>9. ClientInv(open) /\ open.taskPair = t.taskPair
      BY <1>8, <2>3, DrainedKeeps
    <2> HIDE DEF open
    <2>10. Weakens(client[c], open)
      BY <1>9, <2>7, <2>8, WeakensOn DEF k
    <2>11. IsRecord(open) /\ open.taskPair \in Session /\ ~Departs(open)
      BY <1>8, <2>6, <2>8, <2>9, SameDeparts DEF ClientInv, IsClient
    <2>12. CASE Abort(c, open)
      BY <1>2, <2>10, <2>11, <2>12, AbortTold
    <2>13. CASE Ask(c, open, q)
      BY <1>2, <2>5, <2>10, <2>11, <2>13, WeakAskTold
    <2> QED
      BY <1>11, <2>12, <2>13
  <1> QED
    BY <1>3, <1>10, <1>11

LEMMA NamedTold ==
    ASSUME CommInv, RelayInv, NEW c \in Client, NEW k, IsRecord(k), Weakens(client[c], k),
           k.task \in {"naming", "peer"}, ~Departs(k),
           k.taskPair \in Session, UNCHANGED <<down, relayVars>>,
           \/ \E task \in {"peer", "done"} : Update(c, [k EXCEPT !.task = task]) /\ UNCHANGED up
           \/ Abort(c, k)
    PROVE  NextTold
  <1>1. ASSUME NEW task \in {"peer", "done"}, Update(c, [k EXCEPT !.task = task]), UNCHANGED up
        PROVE  NextTold
    <2> DEFINE n == [k EXCEPT !.task = task]
    <2>1. Changes(k, n, {"task"})
      BY DEF Changes, IsRecord, Fields
    <2>2. Update(c, n)
      BY <1>1
    <2> HIDE DEF n
    <2>3. n.taskPair = k.taskPair /\ n.ui = k.ui
      BY <2>1 DEF Changes, Fields
    <2>4. Weakens(k, n)
      <3>1. Changes(k, n, ScreenFields)
        BY <2>1, ChangesMore DEF ScreenFields
      <3> QED
        BY <2>3, <3>1, MovingOn
    <2>5. Weakens(client[c], n)
      BY <2>4, WeakensOn
    <2> QED
      BY <1>1, <2>2, <2>5, WeakStepTold
  <1> QED
    BY <1>1, AbortTold

LEMMA IdentityAnsweredTold ==
    ASSUME CommInv, RelayInv, NEW c \in Client, IdentityAnswered(c) PROVE NextTold
  <1> DEFINE k == Resumed(c, "task")
  <1>1. /\ ClientInv(k) /\ IsRecord(k) /\ Weakens(client[c], k) /\ k.task = client[c].task
    BY ResumedWeakens DEF By
  <1>2. client[c].task = "naming" /\ UNCHANGED <<down, relayVars>>
    BY DEF IdentityAnswered
  <1>3. \/ \E task \in {"peer", "done"} : Update(c, [k EXCEPT !.task = task]) /\ UNCHANGED up
        \/ Abort(c, k)
    BY DEF IdentityAnswered
  <1> HIDE DEF k
  <1>4. ~Departs(k) /\ k.taskPair \in Session
    BY <1>1, <1>2, InSetupStays, SetupHasPair
  <1> QED
    BY <1>1, <1>2, <1>3, <1>4, NamedTold

LEMMA PeerIdentifiedTold ==
    ASSUME CommInv, RelayInv, NEW c \in Client, PeerIdentified(c) PROVE NextTold
  <1> DEFINE k == client[c]
  <1>1. ClientInv(k) /\ k.task = "peer"
    BY DEF CommInv, PeerIdentified
  <1>2. UNCHANGED <<down, relayVars>>
    BY DEF PeerIdentified
  <1>3. (Update(c, [k EXCEPT !.task = "done"]) /\ UNCHANGED up) \/ Abort(c, k)
    BY DEF PeerIdentified
  <1>4. ~Departs(k) /\ k.taskPair \in Session /\ IsRecord(k)
    BY <1>1, InSetupStays, SetupHasPair DEF ClientInv, IsClient
  <1>5. Weakens(k, k)
    BY DEF Weakens
  <1> QED
    BY <1>1, <1>2, <1>3, <1>4, <1>5, NamedTold

LEMMA AbortAnsweredTold ==
    ASSUME CommInv, RelayInv, NEW c \in Client, AbortAnswered(c) PROVE NextTold
  <1> DEFINE k == Resumed(c, "task")
             n == Fails(DiscardState(k))
  <1>1. IsRecord(k) /\ Weakens(client[c], k)
    BY ResumedWeakens DEF By
  <1>2. Update(c, n) /\ UNCHANGED <<up, down, relayVars>>
    BY DEF AbortAnswered
  <1> HIDE DEF k
  <1>3. /\ n.connected = k.connected /\ n.pairs = k.pairs /\ n.taskPair = k.taskPair
        /\ n.failing = k.failing /\ n.role = Nobody /\ n.pair = 0
    BY <1>1 DEF Fails, DiscardState, IsRecord, Fields
  <1> HIDE DEF n
  <1>4. Weakens(client[c], n)
    BY <1>1, <1>3, LettingGo, WeakensOn
  <1> QED
    BY <1>2, <1>4, WeakStepTold

LEMMA FailureClosesTold ==
    ASSUME CommInv, RelayInv, NEW c \in Client, FailureCloses(c) PROVE NextTold
  <1> DEFINE k == client[c]
             n == [k EXCEPT !.failing = 0]
             q == Request("close", "failure", k.failing)
  <1>1. ClientInv(k) /\ IsClient(k) /\ k.failing # 0
    BY DEF CommInv, ClientInv, FailureCloses
  <1>2. Ask(c, n, q) /\ UNCHANGED <<down, relayVars>>
    BY DEF FailureCloses
  <1>3. Changes(k, n, {"failing"}) /\ n.failing = 0
    BY <1>1 DEF Changes, IsClient, IsRecord, Fields
  <1>4. q \in UpFrame /\ q # Eof /\ q.pair = k.failing
    <2>1. k.failing \in Session
      BY <1>1 DEF IsClient, ClientTypes, Pair
    <2>2. q.type = "close" /\ Eof.type = "eof" /\ q.pair = k.failing
      BY DEF Request, Eof
    <2> QED
      BY <2>1, <2>2, RequestTypes DEF By
  <1> HIDE DEF n, q
  <1>5. /\ n.connected = k.connected /\ n.pairs = k.pairs /\ n.pair = k.pair
        /\ n.taskPair = k.taskPair /\ n.role = k.role /\ n.task = k.task
        /\ n.channel = k.channel /\ n.ui = k.ui
    BY <1>3 DEF Changes, Fields
  <1>6. Weakens(k, n)
    BY <1>3, <1>5, SameDeparts DEF Weakens, Live
  <1>7. Told(k, up[c], down[c], RoutesOf(c), made)
    BY DEF RelayInv, AllTold
  <1>8. Told(n, up[c], down[c], RoutesOf(c), made)
    BY <1>6, <1>7, WeakerIsTold
  <1>9. n.connected => Past(n, down[c], made, q.pair) /\ q.pair # n.pair
    <2>1. ASSUME n.connected PROVE Past(k, down[c], made, k.failing) /\ k.pair # k.failing
      BY <1>1, <1>5, <1>7, <2>1 DEF Told, Behind, GivenUp
    <2> QED
      BY <1>4, <1>5, <2>1, StillPast
  <1>10. IsRecord(n)
    BY <1>3 DEF Changes
  <1> QED
    BY <1>2, <1>4, <1>8, <1>9, <1>10, AskTold

LEMMA TaskStepTold ==
    ASSUME CommInv, RelayInv, NEW c \in Client, TaskStep(c) PROVE NextTold
  <1>1. CASE FailureAnswered(c)
    <2>1. Weakens(client[c], Resumed(c, "failure"))
      BY ResumedWeakens DEF By
    <2>2. Update(c, Resumed(c, "failure")) /\ UNCHANGED <<up, down, relayVars>>
      BY <1>1 DEF FailureAnswered
    <2> QED
      BY <2>1, <2>2, WeakStepTold
  <1> QED
    BY <1>1, TakePairTold, ProofAnsweredTold, TakeProofTold, IdentityAnsweredTold,
       PeerIdentifiedTold, AbortAnsweredTold, FailureClosesTold DEF TaskStep

\* The session state is discarded, or prepared anew.
LEMMA DiscardedWeakens ==
    ASSUME NEW k, ClientInv(k), NEW n, n = DiscardState(k)
    PROVE  ClientInv(n) /\ Weakens(k, n) /\ n.task = k.task /\ n.ui = k.ui /\ n.pair = 0
  <1>1. /\ ClientInv(n) /\ n.role = Nobody /\ n.pair = 0
        /\ Changes(k, n, {"role", "participant", "pair", "channel", "buffered"})
    BY DiscardKeeps
  <1>2. /\ n.connected = k.connected /\ n.pairs = k.pairs /\ n.taskPair = k.taskPair
        /\ n.failing = k.failing /\ n.task = k.task /\ n.ui = k.ui
    BY <1>1 DEF Changes, Fields
  <1> QED
    BY <1>1, <1>2, LettingGo

LEMMA PreparedWeakens ==
    ASSUME NEW k, ClientInv(k), k.task = "none", k.shown = <<>>, NEW r \in Role,
           NEW u \in {"starting", "joining"}, NEW n, n = Prepare([k EXCEPT !.ui = u], r)
    PROVE  ClientInv(n) /\ Weakens(k, n)
  <1>1. ClientInv(n) /\ Changes(k, n, PreparedFields) /\ n.pair = 0 /\ n.pairs = <<>>
    BY PrepareKeeps
  <1>2. n.connected = k.connected /\ n.taskPair = k.taskPair /\ n.failing = k.failing
    BY <1>1 DEF Changes, Fields, PreparedFields
  <1> QED
    BY <1>1, <1>2 DEF Weakens, Live

\* The screens change, of a client that aborts nothing.
LEMMA ScreenWeakens ==
    ASSUME NEW k, NEW n, Changes(k, n, ScreenFields), k.task # "aborting" \/ k.pair = 0,
           n.taskPair = k.taskPair \/ n.taskPair = 0, ~Departs(n)
    PROVE  Weakens(k, n)
  BY MovingOn

LEMMA ToHubWeakens ==
    ASSUME NEW k, ClientInv(k), k.task # "aborting" \/ k.pair = 0, NEW n, n = ToHub(k)
    PROVE  Weakens(k, n)
  <1>1. /\ Changes(k, n, {"ui", "task", "comm", "over", "shown", "taskPair"})
        /\ n.ui = "hub" /\ n.taskPair = 0
    BY ToHubKeeps
  <1>2. ~Departs(n)
    BY <1>1 DEF Departs
  <1>3. Changes(k, n, ScreenFields)
    BY <1>1, ChangesMore DEF ScreenFields
  <1> QED
    BY <1>1, <1>2, <1>3, ScreenWeakens

LEMMA CompletesWeakens ==
    ASSUME NEW k, ClientInv(k), k.ui \in {"starting", "joining"},
           NEW u \in {"waiting", "connecting"}, NEW n, n = Completes([k EXCEPT !.ui = u])
    PROVE  Weakens(k, n)
  <1>1. Changes(k, n, {"ui", "task"}) /\ n.ui = u
    BY CompletesKeeps
  <1>2. k.pair = 0
    BY Zenon DEF ClientInv, TaskBelongs
  <1>3. ~Departs(n)
    BY <1>1 DEF Departs
  <1>4. Changes(k, n, ScreenFields) /\ n.taskPair = k.taskPair
    BY <1>1, ChangesMore DEF ScreenFields, Changes, Fields
  <1> QED
    BY <1>2, <1>3, <1>4, ScreenWeakens

LEMMA StartTold ==
    ASSUME CommInv, RelayInv, NEW c \in Client, Start(c) PROVE NextTold
  <1> DEFINE k == client[c]
             n == Prepare([k EXCEPT !.ui = "starting"], "creator")
             q == Request("wait", "ui", 0)
  <1>1. ClientInv(k) /\ k.ui = "hub"
    BY DEF CommInv, Start
  <1>2. Ask(c, n, q) /\ UNCHANGED <<down, relayVars>>
    BY DEF Start
  <1>3. k.task = "none" /\ k.shown = <<>>
    BY <1>1 DEF ClientInv, TaskBelongs, TextsFollow, InComm
  <1>4. ClientInv(n) /\ Weakens(k, n)
    <2>1. "creator" \in Role /\ "starting" \in {"starting", "joining"}
      BY DEF Role
    <2> HIDE DEF k
    <2> QED
      BY <1>1, <1>3, <2>1, PreparedWeakens
  <1>5. q \in UpFrame /\ q # Eof /\ q.type # "close"
    <2>1. q.type = "wait" /\ Eof.type = "eof"
      BY DEF Request, Eof
    <2> QED
      BY <2>1, RequestTypes DEF By
  <1> HIDE DEF n, q
  <1>6. IsRecord(n)
    BY <1>4 DEF ClientInv, IsClient
  <1> QED
    BY <1>2, <1>4, <1>5, <1>6, WeakAskTold

LEMMA WaitAnsweredTold ==
    ASSUME CommInv, RelayInv, NEW c \in Client, WaitAnswered(c) PROVE NextTold
  <1> DEFINE k == Resumed(c, "ui")
             d == DiscardState(k)
             q == Request("join", "ui", 0)
             opens == Completes([k EXCEPT !.ui = "waiting"])
             joins == Prepare([d EXCEPT !.ui = "joining"], "joiner")
  <1>1. ClientInv(k) /\ Weakens(client[c], k)
    BY ResumedWeakens DEF By
  <1>2. k.ui = "starting" /\ UNCHANGED <<down, relayVars>>
    BY DEF WaitAnswered
  <1>3. \/ Update(c, opens) /\ UNCHANGED up
        \/ Ask(c, joins, q)
        \/ Update(c, ToHub(d)) /\ UNCHANGED up
        \/ Update(c, ToHub(k)) /\ UNCHANGED up
    BY DEF WaitAnswered
  <1> HIDE DEF k
  <1>4. ClientInv(d) /\ Weakens(k, d) /\ d.ui = "starting" /\ d.pair = 0
    BY <1>1, <1>2, DiscardedWeakens
  <1> HIDE DEF d
  <1>5. k.pair = 0
    BY <1>1, <1>2, Zenon DEF ClientInv, TaskBelongs
  <1>6. Weakens(k, opens)
    BY <1>1, <1>2, CompletesWeakens
  <1>7. d.task = "none" /\ d.shown = <<>>
    BY <1>4 DEF ClientInv, TaskBelongs, TextsFollow, InComm
  <1>8. ClientInv(joins) /\ Weakens(d, joins)
    <2>1. "joiner" \in Role /\ "joining" \in {"starting", "joining"}
      BY DEF Role
    <2> QED
      BY <1>4, <1>7, <2>1, PreparedWeakens
  <1>9. q \in UpFrame /\ q # Eof /\ q.type # "close"
    <2>1. q.type = "join" /\ Eof.type = "eof"
      BY DEF Request, Eof
    <2> QED
      BY <2>1, RequestTypes DEF By
  <1>10. Weakens(d, ToHub(d)) /\ Weakens(k, ToHub(k))
    BY <1>1, <1>4, <1>5, ToHubWeakens
  <1> HIDE DEF q, opens, joins
  <1>11. IsRecord(joins)
    BY <1>8 DEF ClientInv, IsClient
  <1>12. /\ Weakens(client[c], opens) /\ Weakens(client[c], joins)
         /\ Weakens(client[c], ToHub(d)) /\ Weakens(client[c], ToHub(k))
    BY <1>1, <1>4, <1>6, <1>8, <1>10, WeakensOn
  <1> QED
    BY <1>2, <1>3, <1>9, <1>11, <1>12, WeakStepTold, WeakAskTold

LEMMA JoinAnsweredTold ==
    ASSUME CommInv, RelayInv, NEW c \in Client, JoinAnswered(c) PROVE NextTold
  <1> DEFINE k == Resumed(c, "ui")
             d == DiscardState(k)
             opens == Completes([k EXCEPT !.ui = "connecting"])
  <1>1. ClientInv(k) /\ Weakens(client[c], k)
    BY ResumedWeakens DEF By
  <1>2. k.ui = "joining" /\ UNCHANGED <<up, down, relayVars>>
    BY DEF JoinAnswered
  <1>3. Update(c, opens) \/ Update(c, ToHub(d)) \/ Update(c, ToHub(k))
    BY DEF JoinAnswered
  <1> HIDE DEF k
  <1>4. ClientInv(d) /\ Weakens(k, d) /\ d.pair = 0
    BY <1>1, DiscardedWeakens
  <1> HIDE DEF d
  <1>5. k.pair = 0
    BY <1>1, <1>2, Zenon DEF ClientInv, TaskBelongs
  <1>6. Weakens(k, opens) /\ Weakens(d, ToHub(d)) /\ Weakens(k, ToHub(k))
    BY <1>1, <1>2, <1>4, <1>5, CompletesWeakens, ToHubWeakens
  <1> HIDE DEF opens
  <1>7. /\ Weakens(client[c], opens) /\ Weakens(client[c], ToHub(d))
        /\ Weakens(client[c], ToHub(k))
    BY <1>1, <1>4, <1>6, WeakensOn
  <1> QED
    BY <1>2, <1>3, <1>7, WeakStepTold

\* A screen is left for another, or shows more.
LEMMA NextScreenWeakens ==
    ASSUME NEW k, NEW n, Changes(k, n, {"ui", "over", "events", "shown"}),
           n.ui = k.ui \/ n.ui \in {"cancelling", "settling", "comm", "confirming", "crashed"}
    PROVE  Weakens(k, n)
  <1>1. /\ Changes(k, n, ScreenFields) /\ n.taskPair = k.taskPair /\ n.task = k.task
    BY ChangesMore DEF ScreenFields, Changes, Fields
  <1>2. Departs(n) => n.ui = k.ui
    BY DEF Departs
  <1> QED
    BY <1>1, <1>2, MovingOn

LEMMA CancelTold ==
    ASSUME CommInv, RelayInv, NEW c \in Client, Cancel(c) PROVE NextTold
  <1> DEFINE k == client[c]
             q == Request("cancel", "ui", 0)
             n(u) == [k EXCEPT !.ui = u]
  <1>1. IsRecord(k) /\ k.ui = "waiting"
    BY DEF CommInv, ClientInv, IsClient, Cancel
  <1>2. UNCHANGED <<down, relayVars>>
    BY DEF Cancel
  <1>3. \/ Ask(c, n("cancelling"), q)
        \/ Update(c, n("settling")) /\ UNCHANGED up
    BY DEF Cancel
  <1>4. ASSUME NEW u \in {"cancelling", "settling"} PROVE Weakens(k, n(u)) /\ IsRecord(n(u))
    <2> DEFINE m == n(u)
    <2>1. Changes(k, m, {"ui"}) /\ m.ui = u
      BY <1>1 DEF Changes, IsRecord, Fields
    <2> HIDE DEF m, n
    <2>2. Weakens(k, m) /\ IsRecord(m)
      BY <2>1, NextScreenWeakens DEF Changes
    <2> QED
      BY <2>2 DEF m
  <1>5. q \in UpFrame /\ q # Eof /\ q.type # "close"
    <2>1. q.type = "cancel" /\ Eof.type = "eof"
      BY DEF Request, Eof
    <2> QED
      BY <2>1, RequestTypes DEF By
  <1> HIDE DEF q, n
  <1> QED
    BY <1>2, <1>3, <1>4, <1>5, WeakStepTold, WeakAskTold

LEMMA CancelAnsweredTold ==
    ASSUME CommInv, RelayInv, NEW c \in Client, CancelAnswered(c) PROVE NextTold
  <1> DEFINE k == Resumed(c, "ui")
             d == DiscardState(k)
             n == [k EXCEPT !.ui = "settling"]
  <1>1. ClientInv(k) /\ IsRecord(k) /\ Weakens(client[c], k)
    BY ResumedWeakens DEF By
  <1>2. UNCHANGED <<up, down, relayVars>>
    BY DEF CancelAnswered
  <1>3. Update(c, ToHub(d)) \/ Update(c, n)
    BY DEF CancelAnswered
  <1> HIDE DEF k
  <1>4. ClientInv(d) /\ Weakens(k, d) /\ d.pair = 0
    BY <1>1, DiscardedWeakens
  <1> HIDE DEF d
  <1>5. Weakens(d, ToHub(d))
    BY <1>4, ToHubWeakens
  <1>6. Weakens(k, n)
    <2>1. Changes(k, n, {"ui"}) /\ n.ui = "settling"
      BY <1>1 DEF Changes, IsRecord, Fields
    <2> HIDE DEF n
    <2> QED
      BY <2>1, NextScreenWeakens DEF Changes
  <1> HIDE DEF n
  <1>7. Weakens(client[c], ToHub(d)) /\ Weakens(client[c], n)
    BY <1>1, <1>4, <1>5, <1>6, WeakensOn
  <1> QED
    BY <1>2, <1>3, <1>7, WeakStepTold

LEMMA SetupEndsTold ==
    ASSUME CommInv, RelayInv, NEW c \in Client, SetupEnds(c) PROVE NextTold
  <1> DEFINE k == client[c]
             n == [k EXCEPT !.ui = "comm", !.task = "none", !.comm = k.channel.session]
  <1>1. ClientInv(k) /\ IsRecord(k) /\ k.task \in {"done", "failed"}
    BY DEF CommInv, ClientInv, IsClient, SetupEnds
  <1>2. UNCHANGED <<up, down, relayVars>>
    BY DEF SetupEnds
  <1>3. Update(c, n) \/ Update(c, ToHub(k))
    BY DEF SetupEnds
  <1>4. Weakens(k, ToHub(k))
    <2> HIDE DEF k
    <2> QED
      BY <1>1, ToHubWeakens
  <1>5. Weakens(k, n)
    <2> HIDE DEF k
    <2>1. Changes(k, n, {"ui", "task", "comm"}) /\ n.ui = "comm"
      BY <1>1 DEF Changes, IsRecord, Fields
    <2> HIDE DEF n
    <2>2. Changes(k, n, ScreenFields) /\ n.taskPair = k.taskPair
      BY <2>1, ChangesMore DEF ScreenFields, Changes, Fields
    <2>3. ~Departs(n)
      BY <2>1 DEF Departs
    <2> QED
      BY <1>1, <2>2, <2>3, ScreenWeakens
  <1> HIDE DEF n
  <1> QED
    BY <1>2, <1>3, <1>4, <1>5, WeakStepTold

\* A frame is encrypted: a channel that was discarded stays so.
LEMMA SpeakingWeakens ==
    ASSUME NEW k, ClientInv(k), NEW e \in Event \ {Identity},
           NEW n, Changes(k, n, {"ui", "channel", "taskPair"}),
           n.channel = AfterEncrypt(k.channel, e), k.channel # NoChannel,
           n.taskPair = k.taskPair \/ n.taskPair = k.pair,
           e = Close \/ ~Departs(n)
    PROVE  Weakens(k, n)
  <1>1. k.channel \in End /\ k.channel.session # 0
    BY DEF ClientInv, IsClient, ClientTypes, RoleBelongs
  <1>2. e \in Event /\ e # Identity
    OBVIOUS
  <1>3. /\ n.channel.session = k.channel.session
        /\ Usable(n.channel) => Usable(k.channel)
        /\ e = Close => ~Usable(n.channel)
    BY <1>1, <1>2, SpeakingChannel, EncryptingChannel
  <1>4. n.channel # NoChannel
    BY <1>1, <1>3, NoChannelIsEnd
  <1>5. /\ n.connected = k.connected /\ n.pairs = k.pairs /\ n.pair = k.pair
        /\ n.failing = k.failing /\ n.role = k.role /\ n.task = k.task
    BY DEF Changes, Fields
  <1>6. Live(n) => Live(k) /\ ~(e = Close)
    BY <1>3, <1>4, <1>5 DEF Live
  <1> QED
    BY <1>5, <1>6 DEF Weakens

LEMMA WriteTold ==
    ASSUME CommInv, RelayInv, NEW c \in Client, Write(c) PROVE NextTold
  <1> DEFINE k == client[c]
             n(text) == [k EXCEPT !.ui = "writing", !.channel = AfterEncrypt(@, text)]
             q(text) == DataRequest("ui", Encrypted(k.channel, text))
             m == [k EXCEPT !.over = TRUE]
  <1>1. ClientInv(k) /\ IsClient(k) /\ k.ui = "comm"
    BY DEF CommInv, ClientInv, Write
  <1>2. UNCHANGED <<down, relayVars>>
    BY DEF Write
  <1>3. PICK text \in Text : \/ Active(k.channel) /\ Ask(c, n(text), q(text))
                             \/ Update(c, m) /\ UNCHANGED up
    BY DEF Write
  <1>4. CASE Active(k.channel) /\ Ask(c, n(text), q(text))
    <2> DEFINE nt == n(text)
               qt == q(text)
    <2>1. k.channel # NoChannel /\ k.channel \in End
      BY <1>1, <1>4, NoChannelIsEnd DEF Active, IsClient, ClientTypes
    <2>2. text \in Event \ {Identity}
      BY ChannelAssumption DEF Event, Identity
    <2>3. /\ Changes(k, nt, {"ui", "channel"}) /\ nt.ui = "writing"
          /\ nt.channel = AfterEncrypt(k.channel, text)
      <3> HIDE DEF k
      <3> QED
        BY <1>1 DEF Changes, IsClient, IsRecord, Fields
    <2>4. Ask(c, nt, qt)
      BY <1>4
    <2>5. qt \in UpFrame /\ qt # Eof /\ qt.type # "close"
      <3>1. k.channel.session \in Session
        BY <1>1, <2>1 DEF ClientInv, RoleBelongs, End, Pair
      <3>2. Encrypted(k.channel, text) \in Frame
        BY <2>1, <2>2, <3>1 DEF Encrypted, Frame, End
      <3>3. qt.type = "data" /\ Eof.type = "eof"
        BY DEF DataRequest, Eof
      <3> QED
        BY <3>2, <3>3, RequestTypes DEF By
    <2> HIDE DEF nt, qt, n, q
    <2>6. Changes(k, nt, {"ui", "channel", "taskPair"}) /\ nt.taskPair = k.taskPair
      BY <2>3 DEF Changes, Fields
    <2>7. ~Departs(nt)
      BY <2>3 DEF Departs
    <2>8. Weakens(k, nt) /\ IsRecord(nt)
      BY <1>1, <2>1, <2>2, <2>3, <2>6, <2>7, SpeakingWeakens DEF Changes
    <2> QED
      BY <1>2, <2>4, <2>5, <2>8, WeakAskTold
  <1>5. CASE Update(c, m) /\ UNCHANGED up
    <2>1. Changes(k, m, {"over"})
      <3> HIDE DEF k
      <3> QED
        BY <1>1 DEF Changes, IsClient, IsRecord, Fields
    <2> HIDE DEF m
    <2>2. Weakens(k, m)
      BY <2>1, NextScreenWeakens DEF Changes, Fields
    <2> QED
      BY <1>2, <1>5, <2>2, WeakStepTold
  <1> QED
    BY <1>3, <1>4, <1>5

LEMMA TextAnsweredTold ==
    ASSUME CommInv, RelayInv, NEW c \in Client, TextAnswered(c) PROVE NextTold
  <1> DEFINE k == Resumed(c, "ui")
             n == [k EXCEPT !.ui = "comm", !.over = @ \/ client[c].pending["ui"] # "ok"]
  <1>1. IsRecord(k) /\ Weakens(client[c], k)
    BY ResumedWeakens DEF By
  <1>2. UNCHANGED <<up, down, relayVars>> /\ Update(c, n)
    BY DEF TextAnswered
  <1> HIDE DEF k
  <1>3. Changes(k, n, {"ui", "over"}) /\ n.ui = "comm"
    BY <1>1 DEF Changes, IsRecord, Fields
  <1> HIDE DEF n
  <1>4. Weakens(client[c], n)
    <2>1. Weakens(k, n)
      BY <1>3, NextScreenWeakens DEF Changes
    <2> QED
      BY <1>1, <2>1, WeakensOn
  <1> QED
    BY <1>2, <1>4, WeakStepTold

LEMMA ConfirmTold ==
    ASSUME CommInv, RelayInv, NEW c \in Client, AskToEnd(c) \/ Refrain(c) PROVE NextTold
  <1> DEFINE k == client[c]
  <1>1. IsRecord(k)
    BY DEF CommInv, ClientInv, IsClient
  <1>2. UNCHANGED <<up, down, relayVars>>
    BY DEF AskToEnd, Refrain
  <1>3. PICK u \in {"comm", "confirming"} : Update(c, [k EXCEPT !.ui = u])
    BY DEF AskToEnd, Refrain
  <1> DEFINE n == [k EXCEPT !.ui = u]
  <1>4. Update(c, n)
    BY <1>3
  <1>5. Changes(k, n, {"ui"}) /\ n.ui = u
    <2> HIDE DEF k
    <2> QED
      BY <1>1 DEF Changes, IsRecord, Fields
  <1> HIDE DEF n
  <1>6. Weakens(k, n)
    BY <1>5, NextScreenWeakens DEF Changes
  <1> QED
    BY <1>2, <1>4, <1>6, WeakStepTold

LEMMA EndSessionTold ==
    ASSUME CommInv, RelayInv, NEW c \in Client, EndSession(c) PROVE NextTold
  <1> DEFINE k == client[c]
             quits == [k EXCEPT !.ui = "comm", !.over = TRUE]
             crashes == [k EXCEPT !.ui = "crashed"]
             says == [k EXCEPT !.ui = "saying bye", !.channel = AfterEncrypt(@, Close),
                               !.taskPair = k.pair]
             q == DataRequest("ui", Encrypted(k.channel, Close))
  <1>1. ClientInv(k) /\ IsClient(k)
    BY DEF CommInv, ClientInv
  <1>2. UNCHANGED <<down, relayVars>>
    BY DEF EndSession
  <1>3. \/ Update(c, quits) /\ UNCHANGED up
        \/ Update(c, crashes) /\ UNCHANGED up
        \/ k.channel # NoChannel /\ k.pair # 0 /\ Ask(c, says, q)
    BY DEF EndSession
  <1>4. Weakens(k, quits)
    <2> HIDE DEF k
    <2>1. Changes(k, quits, {"ui", "over"}) /\ quits.ui = "comm"
      BY <1>1 DEF Changes, IsClient, IsRecord, Fields
    <2> HIDE DEF quits
    <2> QED
      BY <2>1, NextScreenWeakens DEF Changes
  <1>5. Weakens(k, crashes)
    <2> HIDE DEF k
    <2>1. Changes(k, crashes, {"ui"}) /\ crashes.ui = "crashed"
      BY <1>1 DEF Changes, IsClient, IsRecord, Fields
    <2> HIDE DEF crashes
    <2> QED
      BY <2>1, NextScreenWeakens DEF Changes
  <1>6. CASE k.channel # NoChannel /\ k.pair # 0 /\ Ask(c, says, q)
    <2>1. /\ Changes(k, says, {"ui", "channel", "taskPair"})
          /\ says.channel = AfterEncrypt(k.channel, Close) /\ says.taskPair = k.pair
      <3> HIDE DEF k
      <3> QED
        BY <1>1 DEF Changes, IsClient, IsRecord, Fields
    <2>2. Close \in Event \ {Identity} /\ k.channel \in End
      BY <1>1 DEF Event, Close, Identity, IsClient, ClientTypes
    <2>3. q \in UpFrame /\ q # Eof /\ q.type # "close"
      <3>1. k.channel.session \in Session
        BY <1>1, <1>6, <2>2 DEF ClientInv, RoleBelongs, End, Pair
      <3>2. Encrypted(k.channel, Close) \in Frame
        BY <2>2, <3>1 DEF Encrypted, Frame, End
      <3>3. q.type = "data" /\ Eof.type = "eof"
        BY DEF DataRequest, Eof
      <3> QED
        BY <3>2, <3>3, RequestTypes DEF By
    <2> HIDE DEF says, q
    <2>4. Weakens(k, says) /\ IsRecord(says)
      BY <1>1, <1>6, <2>1, <2>2, SpeakingWeakens DEF Changes
    <2> QED
      BY <1>2, <1>6, <2>3, <2>4, WeakAskTold
  <1> HIDE DEF quits, crashes, says, q
  <1> QED
    BY <1>2, <1>3, <1>4, <1>5, <1>6, WeakStepTold

\* The comm is over: the session state is discarded, and the screen returns.
LEMMA OverWeakens ==
    ASSUME NEW k, ClientInv(k), NEW n, n = [DiscardState(k) EXCEPT !.ui = "comm", !.over = TRUE]
    PROVE  Weakens(k, n)
  <1> DEFINE d == DiscardState(k)
  <1>1. ClientInv(d) /\ Weakens(k, d)
    BY DiscardedWeakens
  <1>2. n = [d EXCEPT !.ui = "comm", !.over = TRUE]
    OBVIOUS
  <1> HIDE DEF d
  <1>3. Changes(d, n, {"ui", "over"}) /\ n.ui = "comm"
    BY <1>1, <1>2 DEF ClientInv, IsClient, Changes, IsRecord, Fields
  <1>4. Weakens(d, n)
    BY <1>3, NextScreenWeakens DEF Changes
  <1> QED
    BY <1>1, <1>4, WeakensOn

LEMMA ByeAnsweredTold ==
    ASSUME CommInv, RelayInv, NEW c \in Client, ByeAnswered(c) PROVE NextTold
  <1> DEFINE k == Resumed(c, "ui")
             closes == [k EXCEPT !.ui = "closing"]
             over == [DiscardState(k) EXCEPT !.ui = "comm", !.over = TRUE]
  <1>1. ClientInv(k) /\ IsRecord(k) /\ Weakens(client[c], k)
    BY ResumedWeakens DEF By
  <1>2. Departs(k) /\ UNCHANGED <<down, relayVars>>
    BY Zenon DEF ByeAnswered, Departs
  <1>3. \/ Ask(c, closes, Request("close", "ui", k.taskPair))
        \/ Update(c, over) /\ UNCHANGED up
    <2>1. CASE client[c].pending["ui"] = "ok"
      BY <2>1 DEF ByeAnswered
    <2>2. CASE client[c].pending["ui"] # "ok"
      BY <2>2 DEF ByeAnswered
    <2> QED
      BY <2>1, <2>2
  <1> HIDE DEF k
  <1>4. k.taskPair \in Session
    <2>1. k.taskPair # 0
      BY <1>1, <1>2, Zenon DEF ClientInv, TaskBelongs, Departs
    <2> QED
      BY <1>1, <2>1 DEF ClientInv, IsClient, ClientTypes, Pair
  <1>5. Weakens(client[c], over)
    <2>1. Weakens(k, over)
      BY <1>1, OverWeakens
    <2> HIDE DEF over
    <2> QED
      BY <1>1, <2>1, WeakensOn
  <1>6. Told(k, up[c], down[c], RoutesOf(c), made)
    BY <1>1, WeakerIsTold DEF RelayInv, AllTold
  <1>7. CASE Ask(c, closes, Request("close", "ui", k.taskPair))
    <2>1. Changes(k, closes, {"ui"})
      BY <1>1 DEF Changes, IsRecord, Fields
    <2> DEFINE n == closes
    <2>2. Ask(c, n, Request("close", "ui", n.taskPair))
      <3>1. n.taskPair = k.taskPair
        BY <2>1 DEF Changes, Fields
      <3> QED
        BY <1>7, <3>1
    <2> HIDE DEF closes, n
    <2>3. /\ Changes(k, n, {"ui"}) /\ n.connected = k.connected /\ n.pairs = k.pairs
          /\ n.pair = k.pair /\ n.taskPair = k.taskPair /\ n.failing = k.failing
          /\ n.role = k.role /\ n.task = k.task /\ n.channel = k.channel
      BY <2>1 DEF n, Changes, Fields
    <2>4. Weakens(k, n) /\ IsRecord(n)
      BY <1>2, <2>3 DEF Weakens, Live, Changes
    <2>5. Told(n, up[c], down[c], RoutesOf(c), made)
      BY <1>6, <2>4, WeakerIsTold
    <2>6. n.connected => ~Live(n)
      BY <1>2, <1>6, <2>4 DEF Told, GivenUp, Weakens
    <2>7. n.taskPair \in Session /\ "ui" \in By
      BY <1>4, <2>3 DEF By
    <2> QED
      BY <1>2, <2>2, <2>4, <2>5, <2>6, <2>7, CloseTold
  <1> HIDE DEF closes, over
  <1> QED
    BY <1>2, <1>3, <1>5, <1>7, WeakStepTold

LEMMA CloseAnsweredTold ==
    ASSUME CommInv, RelayInv, NEW c \in Client, CloseAnswered(c) PROVE NextTold
  <1> DEFINE k == Resumed(c, "ui")
             over == [DiscardState(k) EXCEPT !.ui = "comm", !.over = TRUE]
  <1>1. ClientInv(k) /\ Weakens(client[c], k)
    BY ResumedWeakens DEF By
  <1>2. UNCHANGED <<up, down, relayVars>> /\ Update(c, over)
    BY DEF CloseAnswered
  <1> HIDE DEF k
  <1>3. Weakens(k, over)
    BY <1>1, OverWeakens
  <1> HIDE DEF over
  <1>4. Weakens(client[c], over)
    BY <1>1, <1>3, WeakensOn
  <1> QED
    BY <1>2, <1>4, WeakStepTold

LEMMA WatchTold ==
    ASSUME CommInv, RelayInv, NEW c \in Client, Watch(c) PROVE NextTold
  <1> DEFINE k == client[c]
             f == Head(k.events)
             over == [k EXCEPT !.over = TRUE]
             ends == [k EXCEPT !.over = TRUE, !.events = Tail(@)]
             shows == [k EXCEPT !.shown = Append(@, f), !.events = Tail(@)]
  <1>1. IsRecord(k)
    BY DEF CommInv, ClientInv, IsClient
  <1>2. UNCHANGED <<up, down, relayVars>>
    BY DEF Watch
  <1>3. Update(c, over) \/ Update(c, ends) \/ Update(c, shows)
    BY DEF Watch
  <1> HIDE DEF f
  <1>4. ASSUME NEW n \in {over, ends, shows} PROVE Weakens(k, n)
    <2> HIDE DEF k
    <2>1. Changes(k, n, {"over", "events", "shown"})
      BY <1>1 DEF Changes, IsRecord, Fields
    <2>2. n.ui = k.ui
      BY <2>1 DEF Changes, Fields
    <2> QED
      BY <2>1, <2>2, NextScreenWeakens DEF Changes
  <1> HIDE DEF over, ends, shows
  <1> QED
    BY <1>2, <1>3, <1>4, WeakStepTold

LEMMA ScreenStepTold ==
    ASSUME CommInv, RelayInv, NEW c \in Client, ScreenStep(c) PROVE NextTold
  <1>1. CASE LeaveComm(c)
    <2> DEFINE k == client[c]
    <2>1. ClientInv(k) /\ k.ui = "comm"
      BY <1>1 DEF CommInv, LeaveComm
    <2>2. Update(c, ToHub(k)) /\ UNCHANGED <<up, down, relayVars>>
      BY <1>1 DEF LeaveComm
    <2>3. k.task = "none"
      BY <2>1, Zenon DEF ClientInv, TaskBelongs
    <2>4. Weakens(k, ToHub(k))
      <3> HIDE DEF k
      <3> QED
        BY <2>1, <2>3, ToHubWeakens
    <2> QED
      BY <2>2, <2>4, WeakStepTold
  <1> QED
    BY <1>1, WaitAnsweredTold, JoinAnsweredTold, CancelAnsweredTold, SetupEndsTold,
       TextAnsweredTold, ByeAnsweredTold, CloseAnsweredTold, WatchTold DEF ScreenStep

LEMMA UserStepTold ==
    ASSUME CommInv, RelayInv, NEW c \in Client, UserStep(c) PROVE NextTold
  BY StartTold, CancelTold, WriteTold, ConfirmTold, EndSessionTold DEF UserStep

-----------------------------------------------------------------------------
(* What happens to the frames of a client *)

LEMMA ReadTold ==
    ASSUME CommInv, RelayInv, NEW c \in Client, Read(c) PROVE NextTold
  <1> DEFINE k == client[c]
             n == Heard(k, Head(down[c]))
  <1>1. /\ ClientInv(k) /\ client = [d \in Client |-> client[d]]
        /\ down \in [Client -> Seq(DownFrame)] /\ down[c] # <<>>
    BY DEF CommInv, Read
  <1>2. UNCHANGED relayVars /\ up' = up /\ Update(c, n)
    BY DEF Read, Heard
  <1>3. down' = [down EXCEPT ![c] = IF client'[c].connected THEN Tail(@) ELSE <<>>]
    BY DEF Read
  <1>4. Told(k, up[c], down[c], RoutesOf(c), made)
    BY DEF RelayInv, AllTold
  <1> DEFINE R == RoutesOf(c)
  <1>5. down[c] \in Seq(DownFrame)
    BY <1>1
  <1>6. n.connected => Told(n, up[c], Tail(down[c]), R, made)
    <2> HIDE DEF k, R
    <2> QED
      BY <1>1, <1>4, <1>5, HeardTold DEF R
  <1> HIDE DEF n
  <1>7. client'[c] = n
    BY <1>1, <1>2 DEF Update
  <1>8. Told(n, up'[c], down'[c], R, made)
    <2>1. CASE n.connected
      <3>1. down'[c] = Tail(down[c])
        BY <1>1, <1>3, <1>7, <2>1
      <3> QED
        BY <1>2, <1>6, <2>1, <3>1
    <2>2. CASE ~n.connected
      BY <2>2 DEF Told
    <2> QED
      BY <2>1, <2>2
  <1>9. \A d \in Client \ {c} : up'[d] = up[d] /\ down'[d] = down[d]
    BY <1>1, <1>2, <1>3
  <1> QED
    BY <1>2, <1>8, <1>9, OwnStepTold

LEMMA HangUpTold ==
    ASSUME CommInv, RelayInv, NEW c \in Client, HangUp(c) PROVE NextTold
  <1> DEFINE n == [NewClient EXCEPT !.connected = FALSE, !.ui = "offline"]
  <1>1. Update(c, n) /\ UNCHANGED relayVars
    BY DEF HangUp
  <1>2. n.connected = FALSE
    BY DEF NewClient
  <1>3. Told(n, up'[c], down'[c], RoutesOf(c), made)
    BY <1>2 DEF Told
  <1>4. \A d \in Client \ {c} : up'[d] = up[d] /\ down'[d] = down[d]
    BY <1>1 DEF CommInv, HangUp
  <1> HIDE DEF n
  <1> QED
    BY <1>1, <1>3, <1>4, OwnStepTold

\* Nothing changes but the frames of c.
LEMMA FramesTold ==
    ASSUME CommInv, RelayInv, NEW c \in Client, UNCHANGED client, UNCHANGED relayVars,
           \A d \in Client \ {c} : up'[d] = up[d] /\ down'[d] = down[d],
           Told(client[c], up'[c], down'[c], RoutesOf(c), made)
    PROVE  NextTold
  <1>1. client = [d \in Client |-> client[d]]
    BY DEF CommInv
  <1>2. Update(c, client[c])
    BY <1>1 DEF Update
  <1> QED
    BY <1>2, OwnStepTold

LEMMA CutOff ==
    ASSUME NEW S, NEW q \in Seq(S), NEW n \in {0, Len(q)}, NEW r, r = Append(SubSeq(q, 1, n), Eof)
    PROVE  /\ \A i \in 1..Len(r) : r[i] = Eof \/ (i \in 1..Len(q) /\ r[i] = q[i])
           /\ Has(r, Eof)
  <1> DEFINE s == SubSeq(q, 1, n)
  <1>1. n \in Nat /\ n <= Len(q) /\ Len(q) \in Nat
    OBVIOUS
  <1>2. s \in Seq(S) /\ Len(s) = n /\ \A i \in 1..n : s[i] = q[i]
    BY <1>1
  <1> HIDE DEF s
  <1>3. r = Append(s, Eof)
    BY DEF s
  <1>4. Len(r) = n + 1 /\ r[n + 1] = Eof /\ \A i \in 1..n : r[i] = s[i]
    BY <1>1, <1>2, <1>3
  <1> QED
    BY <1>1, <1>2, <1>4 DEF Has

LEMMA ConnectionLostTold ==
    ASSUME CommInv, RelayInv, NEW c \in Client, ConnectionLost(c) PROVE NextTold
  <1>1. up \in [Client -> Seq(UpFrame)] /\ down \in [Client -> Seq(DownFrame)]
    BY DEF CommInv
  <1>2. UNCHANGED client /\ UNCHANGED relayVars
    BY DEF ConnectionLost
  <1>3. PICK n \in {0, Len(up[c])} : up' = [up EXCEPT ![c] = Append(SubSeq(@, 1, n), Eof)]
    BY DEF ConnectionLost
  <1>4. PICK m \in {0, Len(down[c])} : down' = [down EXCEPT ![c] = Append(SubSeq(@, 1, m), Eof)]
    BY DEF ConnectionLost
  <1>5. up[c] \in Seq(UpFrame) /\ down[c] \in Seq(DownFrame)
    BY <1>1
  <1>6. up'[c] = Append(SubSeq(up[c], 1, n), Eof) /\ down'[c] = Append(SubSeq(down[c], 1, m), Eof)
    BY <1>1, <1>3, <1>4
  <1>7. \A i \in 1..Len(up'[c]) : up'[c][i] = Eof \/ (i \in 1..Len(up[c]) /\ up'[c][i] = up[c][i])
    BY <1>5, <1>6, CutOff
  <1>8. /\ \A i \in 1..Len(down'[c]) :
              down'[c][i] = Eof \/ (i \in 1..Len(down[c]) /\ down'[c][i] = down[c][i])
        /\ Has(down'[c], Eof)
    BY <1>5, <1>6, CutOff
  <1>9. Told(client[c], up[c], down[c], RoutesOf(c), made)
    BY DEF RelayInv, AllTold
  <1> DEFINE v == up'[c]
             e == down'[c]
             R == RoutesOf(c)
  <1>10. Told(client[c], v, e, R, made)
    <2> HIDE DEF v, e, R
    <2> QED
      BY <1>7, <1>8, <1>9, CutOffTold DEF v, e, R
  <1>11. \A d \in Client \ {c} : up'[d] = up[d] /\ down'[d] = down[d]
    BY <1>1, <1>3, <1>4
  <1> QED
    BY <1>2, <1>10, <1>11, FramesTold

LEMMA FrameDamagedTold ==
    ASSUME CommInv, RelayInv, NEW c \in Client, FrameDamaged(c) PROVE NextTold
  <1>1. down \in [Client -> Seq(DownFrame)]
    BY DEF CommInv
  <1>2. UNCHANGED client /\ UNCHANGED relayVars /\ up' = up
    BY DEF FrameDamaged
  <1> DEFINE q == down[c]
             f == [q[1] EXCEPT !.frame.event = Garbage]
             e == [q EXCEPT ![1] = f]
  <1>3. q \in Seq(DownFrame) /\ q # <<>> /\ Head(q).type = "data"
    BY <1>1 DEF FrameDamaged
  <1>4. q[1] \in RelayedFrame /\ q[1].type = "data"
    BY <1>3, DownFrameKinds
  <1>5. f.type = "data"
    BY <1>4 DEF RelayedFrame
  <1>6. down' = [down EXCEPT ![c] = e]
    BY <1>1 DEF FrameDamaged
  <1>7. Told(client[c], up[c], q, RoutesOf(c), made)
    BY DEF RelayInv, AllTold
  <1>8. Len(e) = Len(q) /\ \A i \in 1..Len(q) : e[i] = q[i] \/ (e[i] = f /\ q[i] = q[1])
    <2> HIDE DEF f, q
    <2> QED
      BY <1>3
  <1> HIDE DEF e, f, q
  <1>9. \A i \in 1..Len(q) :
           /\ e[i].type = q[i].type
           /\ e[i].type \in {"pair", "close", "eof"} => e[i] = q[i]
    BY <1>4, <1>5, <1>8
  <1> DEFINE R == RoutesOf(c)
             u == up[c]
  <1>10. Told(client[c], u, e, R, made)
    <2> HIDE DEF R, u
    <2> QED
      BY <1>7, <1>8, <1>9, SameFramesTold DEF R, u
  <1>11. down'[c] = e /\ \A d \in Client \ {c} : up'[d] = up[d] /\ down'[d] = down[d]
    BY <1>1, <1>2, <1>6
  <1> QED
    BY <1>2, <1>10, <1>11, FramesTold

LEMMA RequestTimesOutTold ==
    ASSUME CommInv, RelayInv, NEW c \in Client, NEW by \in By, NEW e, RequestTimesOut(c, by, e)
    PROVE  NextTold
  <1> DEFINE k == client[c]
             n == [k EXCEPT !.pending[by] = "error"]
             v == Orphaned(up[c], by)
             w == Orphaned(down[c], by)
             R == RoutesOf(c)
  <1>1. ClientInv(k) /\ up \in [Client -> Seq(UpFrame)] /\ down \in [Client -> Seq(DownFrame)]
    BY DEF CommInv
  <1>2. /\ Update(c, n) /\ UNCHANGED relayVars
        /\ up' = [up EXCEPT ![c] = v] /\ down' = [down EXCEPT ![c] = w]
    BY DEF RequestTimesOut
  <1>3. Changes(k, n, {"pending"})
    <2> HIDE DEF k
    <2> QED
      BY <1>1, AnswerKeeps DEF Result
  <1>4. up[c] \in Seq(UpFrame) /\ down[c] \in Seq(DownFrame)
    BY <1>1
  <1> HIDE DEF n
  <1>5. Told(n, up[c], down[c], RoutesOf(c), made)
    <2>1. Changes(k, n, ScreenFields)
      BY <1>3, ChangesMore DEF ScreenFields
    <2>2. n.taskPair = k.taskPair /\ n.task = k.task /\ n.ui = k.ui
      BY <1>3 DEF Changes, Fields
    <2>3. Weakens(k, n)
      BY <2>1, <2>2, MovingOn
    <2> QED
      BY <2>3, WeakerIsTold DEF RelayInv, AllTold
  <1>6. /\ Len(v) = Len(up[c])
        /\ \A i \in 1..Len(up[c]) :
              /\ v[i] = Eof => up[c][i] = Eof
              /\ v[i].type = up[c][i].type
              /\ up[c][i].type = "close" => v[i].pair = up[c][i].pair
    <2>1. \A f \in UpFrame : Late(f, by) \in UpFrame
      BY LateUpFrame
    <2>2. Len(v) = Len(up[c]) /\ \A i \in 1..Len(up[c]) : v[i] = Late(up[c][i], by)
      BY <1>4, <2>1, OrphanedFrames
    <2>3. \A i \in 1..Len(up[c]) : up[c][i] \in UpFrame
      BY <1>4
    <2>4. Eof.type # "close"
      BY DEF Eof
    <2> HIDE DEF v
    <2> QED
      BY <2>2, <2>3, <2>4, LateUpFrame
  <1>7. /\ Len(w) = Len(down[c])
        /\ \A i \in 1..Len(down[c]) :
              /\ w[i].type = down[c][i].type
              /\ w[i].type \in {"pair", "close", "eof"} => w[i] = down[c][i]
    <2>1. \A f \in DownFrame : Late(f, by) \in DownFrame
      BY LateDownFrame
    <2>2. Len(w) = Len(down[c]) /\ \A i \in 1..Len(down[c]) : w[i] = Late(down[c][i], by)
      BY <1>4, <2>1, OrphanedFrames
    <2>3. \A i \in 1..Len(down[c]) : down[c][i] \in DownFrame
      BY <1>4
    <2> HIDE DEF w
    <2> QED
      BY <2>2, <2>3, LateDownFrame
  <1> HIDE DEF v, w, R
  <1>8. Told(n, v, w, R, made)
    BY <1>5, <1>6, <1>7, SameFramesTold DEF R
  <1>9. up'[c] = v /\ down'[c] = w /\ \A d \in Client \ {c} : up'[d] = up[d] /\ down'[d] = down[d]
    BY <1>1, <1>2
  <1> QED
    BY <1>2, <1>8, <1>9, OwnStepTold DEF R

LEMMA SetupTimesOutTold ==
    ASSUME CommInv, RelayInv, NEW c \in Client, NEW e, SetupTimesOut(c, e) PROVE NextTold
  <1> DEFINE k == client[c]
             n == Fails(DiscardState(k))
  <1>1. ClientInv(k) /\ IsRecord(k)
    BY DEF CommInv, ClientInv, IsClient
  <1>2. Update(c, n) /\ UNCHANGED <<up, down, relayVars>>
    BY DEF SetupTimesOut
  <1>3. Weakens(k, n)
    <2> HIDE DEF k
    <2>1. /\ n.connected = k.connected /\ n.pairs = k.pairs /\ n.taskPair = k.taskPair
          /\ n.failing = k.failing /\ n.role = Nobody /\ n.pair = 0
      BY <1>1 DEF Fails, DiscardState, IsRecord, Fields
    <2> HIDE DEF n
    <2> QED
      BY <2>1, LettingGo
  <1> HIDE DEF n
  <1> QED
    BY <1>2, <1>3, WeakStepTold

LEMMA IdentityTimesOutTold ==
    ASSUME CommInv, RelayInv, NEW c \in Client, NEW e, IdentityTimesOut(c, e) PROVE NextTold
  <1> DEFINE k == client[c]
  <1>1. ClientInv(k) /\ IsRecord(k) /\ k.task = "peer"
    BY DEF CommInv, ClientInv, IsClient, IdentityTimesOut
  <1>2. Abort(c, k) /\ UNCHANGED <<down, relayVars>>
    BY DEF IdentityTimesOut
  <1>3. ~Departs(k) /\ k.taskPair \in Session
    <2> HIDE DEF k
    <2> QED
      BY <1>1, InSetupStays, SetupHasPair
  <1>4. Weakens(k, k)
    BY DEF Weakens
  <1> QED
    BY <1>1, <1>2, <1>3, <1>4, AbortTold

-----------------------------------------------------------------------------
(* Steps of the relay *)

\* The relay delivers frames that announce nothing: who loses a route is told, or
\* has asked for it.
LEMMA DeliverTold ==
    ASSUME CommInv, RelayInv, OneRoute', UNCHANGED client, made' = made,
           NEW frames, Deliver(frames), \A d \in Client : frames[d] \in Seq(DownFrame),
           \A d \in Client : \A i \in 1..Len(frames[d]) : frames[d][i].type # "pair",
           \A d \in Client : \A i \in 1..Len(up'[d]) : \E j \in 1..Len(up[d]) : up'[d][i] = up[d][j],
           \A d \in Client : client[d].connected =>
              \A p \in RoutesOf(d) :
                 \/ p \in RoutesOf(d)'
                 \/ Has(frames[d], CloseFrame(p)) \/ Has(frames[d], Eof) \/ Has(down[d], Eof)
                 \/ \E i \in 1..Len(up[d]) : up[d][i].type = "close" /\ up[d][i].pair = p
    PROVE  NextTold
  <1>1. ASSUME NEW d \in Client
        PROVE  Told(client'[d], up'[d], down'[d], RoutesOf(d)', made')
    <2> DEFINE k == client[d]
               u == up[d]
               v == up'[d]
               q == down[d]
               e == down'[d]
               more == frames[d]
               R == RoutesOf(d)
               Q == RoutesOf(d)'
               m == made
    <2>1. SUFFICES ASSUME k.connected PROVE Told(k, v, e, Q, m)
      BY DEF Told
    <2>2. e = Sent(q, more)
      BY <2>1 DEF Deliver
    <2>3. /\ k.pairs \in Seq(PairFrame) /\ u \in Seq(UpFrame) /\ q \in Seq(DownFrame)
          /\ more \in Seq(DownFrame)
      BY DEF CommInv, ClientInv, IsClient, ClientTypes
    <2>4. Told(k, u, q, R, m)
      BY DEF RelayInv, AllTold
    <2>5. \A i \in 1..Len(v) : \E j \in 1..Len(u) : v[i] = u[j]
      OBVIOUS
    <2>6. \A i \in 1..Len(more) : more[i].type # "pair"
      OBVIOUS
    <2>7. \A p \in R :
             \/ p \in Q
             \/ Has(more, CloseFrame(p)) \/ Has(more, Eof) \/ Has(q, Eof)
             \/ \E i \in 1..Len(u) : u[i].type = "close" /\ u[i].pair = p
      BY <2>1
    <2> HIDE DEF k, u, v, q, e, more, R, Q, m
    <2> QED
      BY <2>2, <2>3, <2>4, <2>5, <2>6, <2>7, DeliveredTold, SMTT(60)
  <1> QED
    BY <1>1 DEF NextTold

\* A handler takes a request, and run() may leave its loop.
LEMMA TakenFrames ==
    ASSUME CommInv, NEW c \in Client,
           \/ up' = up
           \/ up' = [up EXCEPT ![c] = <<>>]
           \/ up[c] # <<>> /\ up' = [up EXCEPT ![c] = Tail(@)]
    PROVE  \A d \in Client : \A i \in 1..Len(up'[d]) : \E j \in 1..Len(up[d]) : up'[d][i] = up[d][j]
  <1>1. up \in [Client -> Seq(UpFrame)]
    BY DEF CommInv
  <1>2. SUFFICES ASSUME NEW d \in Client, NEW i \in 1..Len(up'[d])
                 PROVE  \E j \in 1..Len(up[d]) : up'[d][i] = up[d][j]
    OBVIOUS
  <1>3. CASE up'[d] = up[d]
    BY <1>3
  <1>4. CASE up'[d] = <<>>
    BY <1>4
  <1>5. CASE up[d] # <<>> /\ up'[d] = Tail(up[d])
    <2>1. up[d] \in Seq(UpFrame)
      BY <1>1
    <2>2. i + 1 \in 1..Len(up[d]) /\ up'[d][i] = up[d][i + 1]
      BY <1>5, <2>1, TailOf
    <2> QED
      BY <2>2
  <1> QED
    BY <1>1, <1>3, <1>4, <1>5

\* Routes are taken away.
LEMMA FewerRoutes ==
    ASSUME OneRoute, made' = made, room' \in {room, Nobody},
           \A p \in Session : route'[p] = NoRoute \/ (route[p] # NoRoute /\ room' = Nobody)
                              \/ route'[p] = route[p]
    PROVE  OneRoute'
  <1>1. \A p \in Session : route'[p] # NoRoute => route[p] # NoRoute
    OBVIOUS
  <1>2. room' # Nobody => room # Nobody
    OBVIOUS
  <1>3. /\ \A p, q \in Session : route[p] # NoRoute /\ route[q] # NoRoute => p = q
        /\ room # Nobody => \A p \in Session : route[p] = NoRoute
        /\ \A p \in Session : p > made => route[p] = NoRoute
    BY DEF OneRoute
  <1> QED
    BY <1>1, <1>2, <1>3 DEF OneRoute

LEMMA MembersHaveRoute ==
    ASSUME NEW p, NEW c, c \in Members(p) PROVE route[p] # NoRoute
  BY DEF Members, NoRoute

LEMMA OnlyRoute ==
    ASSUME OneRoute, NEW c \in Client, NEW p \in Session, c \in Members(p)
    PROVE  RoutesOf(c) = {p}
  BY MembersHaveRoute DEF OneRoute, RoutesOf

\* A reply announces nothing.
LEMMA ReplyFrames ==
    ASSUME CommInv, NEW c \in Client, NEW type, Handles(c, type), type # "eof",
           NEW result \in Result
    PROVE  /\ \A d \in Client : Reply(c, result)[d] \in Seq(DownFrame)
           /\ \A d \in Client : \A i \in 1..Len(Reply(c, result)[d]) :
                 Reply(c, result)[d][i].type # "pair"
  <1>1. \A d \in Client : Reply(c, result)[d] \in Seq(DownFrame)
    BY ReplyTypes
  <1> DEFINE a == Answer(Head(up[c]), result)
  <1>2. a.type = "answer"
    BY DEF Answer
  <1>3. ASSUME NEW d \in Client PROVE Reply(c, result)[d] = <<a>> \/ Reply(c, result)[d] = <<>>
    BY DEF Reply, Only
  <1> HIDE DEF a
  <1>4. ASSUME NEW d \in Client, NEW i \in 1..Len(Reply(c, result)[d])
        PROVE  Reply(c, result)[d][i].type # "pair"
    <2>1. CASE Reply(c, result)[d] = <<a>>
      <3>1. i = 1 /\ <<a>>[1] = a
        BY <1>4, <2>1
      <3> QED
        BY <1>2, <2>1, <3>1
    <2>2. CASE Reply(c, result)[d] = <<>>
      BY <1>4, <2>2
    <2> QED
      BY <1>3, <2>1, <2>2
  <1> QED
    BY <1>1, <1>4

\* Two lots of frames for a client.
LEMMA BothFrames ==
    ASSUME NEW f, NEW g, \A d \in Client : f[d] \in Seq(DownFrame),
           \A d \in Client : g[d] \in Seq(DownFrame),
           \A d \in Client : \A i \in 1..Len(f[d]) : f[d][i].type # "pair",
           \A d \in Client : \A i \in 1..Len(g[d]) : g[d][i].type # "pair"
    PROVE  /\ \A d \in Client : Both(f, g)[d] \in Seq(DownFrame)
           /\ \A d \in Client : \A i \in 1..Len(Both(f, g)[d]) : Both(f, g)[d][i].type # "pair"
           /\ \A d \in Client : \A h : Has(f[d], h) \/ Has(g[d], h) => Has(Both(f, g)[d], h)
  <1>1. ASSUME NEW d \in Client
        PROVE  /\ \A i \in 1..Len(Both(f, g)[d]) : Both(f, g)[d][i].type # "pair"
               /\ \A h : Has(f[d], h) \/ Has(g[d], h) => Has(Both(f, g)[d], h)
    <2> DEFINE q == f[d]
               r == g[d]
               b == q \o r
    <2>1. Both(f, g)[d] = b
      BY DEF Both
    <2>2. q \in Seq(DownFrame) /\ r \in Seq(DownFrame)
      OBVIOUS
    <2>3. /\ \A i \in 1..Len(q) : i \in 1..Len(b) /\ b[i] = q[i]
          /\ \A i \in 1..Len(r) : Len(q) + i \in 1..Len(b) /\ b[Len(q) + i] = r[i]
          /\ \A i \in 1..Len(b) :
                \/ i \in 1..Len(q) /\ b[i] = q[i]
                \/ i - Len(q) \in 1..Len(r) /\ b[i] = r[i - Len(q)]
      <3> HIDE DEF q, r
      <3> QED
        BY <2>2, Joined
    <2>4. /\ \A i \in 1..Len(q) : q[i].type # "pair"
          /\ \A i \in 1..Len(r) : r[i].type # "pair"
      OBVIOUS
    <2> HIDE DEF q, r, b
    <2>5. ASSUME NEW i \in 1..Len(b) PROVE b[i].type # "pair"
      <3>1. CASE i \in 1..Len(q) /\ b[i] = q[i]
        BY <2>4, <3>1
      <3>2. CASE i - Len(q) \in 1..Len(r) /\ b[i] = r[i - Len(q)]
        BY <2>4, <3>2
      <3> QED
        BY <2>3, <3>1, <3>2
    <2>6. \A h : Has(q, h) \/ Has(r, h) => Has(b, h)
      BY <2>3 DEF Has
    <2> QED
      BY <2>1, <2>5, <2>6 DEF q, r
  <1> QED
    BY <1>1, BothTypes

LEMMA HandleWaitTold ==
    ASSUME CommInv, RelayInv, NEW c \in Client, HandleWait(c) PROVE NextTold
  <1>1. Handles(c, "wait") /\ up' = [up EXCEPT ![c] = Tail(@)]
        /\ UNCHANGED <<client, served, route, made, faultVars>>
    BY DEF HandleWait, Taken
  <1>2. PICK result \in Result : Deliver(Reply(c, result))
    BY DEF HandleWait, Result
  <1>3. /\ \A d \in Client : Reply(c, result)[d] \in Seq(DownFrame)
        /\ \A d \in Client : \A i \in 1..Len(Reply(c, result)[d]) :
              Reply(c, result)[d][i].type # "pair"
    BY <1>1, ReplyFrames
  <1>4. OneRoute'
    <2>1. room' \in {room, Nobody} \/ \A p \in Session : route[p] = NoRoute
      BY DEF HandleWait, Kept
    <2>2. CASE room' \in {room, Nobody}
      BY <1>1, <2>2, FewerRoutes DEF RelayInv
    <2>3. CASE \A p \in Session : route[p] = NoRoute
      BY <1>1, <2>3 DEF RelayInv, OneRoute
    <2> QED
      BY <2>1, <2>2, <2>3
  <1>5. \A d \in Client : \A i \in 1..Len(up'[d]) : \E j \in 1..Len(up[d]) : up'[d][i] = up[d][j]
    BY <1>1, TakenFrames DEF Handles
  <1>6. \A d \in Client : RoutesOf(d)' = RoutesOf(d)
    BY <1>1 DEF RoutesOf, Members
  <1> QED
    BY <1>1, <1>2, <1>3, <1>4, <1>5, <1>6, DeliverTold

LEMMA RepliedTold ==
    ASSUME CommInv, RelayInv, NEW c \in Client, HandleCancel(c) \/ HandleJoinRefused(c)
    PROVE  NextTold
  <1>1. PICK type \in {"cancel", "join"} : Taken(c, type)
    BY DEF HandleCancel, HandleJoinRefused
  <1>2. Handles(c, type) /\ up' = [up EXCEPT ![c] = Tail(@)]
    BY <1>1 DEF Taken
  <1>3. UNCHANGED <<client, route, made>> /\ room' \in {room, Nobody}
    BY DEF HandleCancel, HandleJoinRefused, Kept
  <1>4. PICK result \in Result : Deliver(Reply(c, result))
    BY DEF HandleCancel, HandleJoinRefused, Result
  <1>5. /\ \A d \in Client : Reply(c, result)[d] \in Seq(DownFrame)
        /\ \A d \in Client : \A i \in 1..Len(Reply(c, result)[d]) :
              Reply(c, result)[d][i].type # "pair"
    BY <1>2, ReplyFrames
  <1>6. OneRoute'
    BY <1>3, FewerRoutes DEF RelayInv
  <1>7. \A d \in Client : \A i \in 1..Len(up'[d]) : \E j \in 1..Len(up[d]) : up'[d][i] = up[d][j]
    BY <1>2, TakenFrames DEF Handles
  <1>8. \A d \in Client : RoutesOf(d)' = RoutesOf(d)
    BY <1>3 DEF RoutesOf, Members
  <1> QED
    BY <1>3, <1>4, <1>5, <1>6, <1>7, <1>8, DeliverTold

\* What a handler relays to the peer announces nothing.
LEMMA PeerFrames ==
    ASSUME NEW c, NEW p, NEW f \in DownFrame, f.type # "pair"
    PROVE  /\ \A d \in Client : ToPeer(c, p, <<f>>)[d] \in Seq(DownFrame)
           /\ \A d \in Client : \A i \in 1..Len(ToPeer(c, p, <<f>>)[d]) :
                 ToPeer(c, p, <<f>>)[d][i].type # "pair"
  <1>1. ASSUME NEW d \in Client, NEW i \in 1..Len(ToPeer(c, p, <<f>>)[d])
        PROVE  ToPeer(c, p, <<f>>)[d][i].type # "pair"
    <2> DEFINE q == ToPeer(c, p, <<f>>)[d]
    <2>1. q = <<f>> \/ q = <<>>
      BY DEF ToPeer
    <2>2. i \in 1..Len(q)
      OBVIOUS
    <2> HIDE DEF q
    <2>3. q[i] = f
      BY <2>1, <2>2
    <2> QED
      BY <2>3 DEF q
  <1> QED
    BY <1>1, ToPeerTypes

\* A frame is relayed to the peer and the request is answered.
LEMMA RelayedTold ==
    ASSUME CommInv, RelayInv, NEW c \in Client, NEW type, Taken(c, type), type # "eof",
           NEW p, NEW f \in DownFrame, f.type # "pair",
           Deliver(Both(ToPeer(c, p, <<f>>), Reply(c, "ok"))),
           OneRoute', UNCHANGED client, made' = made,
           \A d \in Client : RoutesOf(d)' = RoutesOf(d)
    PROVE  NextTold
  <1> DEFINE g == ToPeer(c, p, <<f>>)
             h == Reply(c, "ok")
             b == Both(g, h)
  <1>1. Handles(c, type) /\ up' = [up EXCEPT ![c] = Tail(@)]
    BY DEF Taken
  <1>2. /\ \A d \in Client : g[d] \in Seq(DownFrame)
        /\ \A d \in Client : \A i \in 1..Len(g[d]) : g[d][i].type # "pair"
    BY PeerFrames
  <1>3. /\ \A d \in Client : h[d] \in Seq(DownFrame)
        /\ \A d \in Client : \A i \in 1..Len(h[d]) : h[d][i].type # "pair"
    BY <1>1, ReplyFrames DEF Result
  <1>4. \A d \in Client : \A i \in 1..Len(up'[d]) : \E j \in 1..Len(up[d]) : up'[d][i] = up[d][j]
    BY <1>1, TakenFrames DEF Handles
  <1> HIDE DEF g, h
  <1>5. /\ \A d \in Client : b[d] \in Seq(DownFrame)
        /\ \A d \in Client : \A i \in 1..Len(b[d]) : b[d][i].type # "pair"
    BY <1>2, <1>3, BothFrames
  <1>6. Deliver(b)
    BY DEF g, h
  <1> HIDE DEF b
  <1> QED
    BY <1>4, <1>5, <1>6, DeliverTold

LEMMA HandleProofTold ==
    ASSUME CommInv, RelayInv, NEW c \in Client, HandleProof(c) PROVE NextTold
  <1> DEFINE p == Head(up[c]).pair
             f == [type |-> "proof", pair |-> p]
  <1>1. /\ Taken(c, "proof") /\ Handles(c, "proof") /\ c \in Members(p)
        /\ route' = [route EXCEPT ![p].proved = @ \cup {c}]
        /\ Deliver(Both(ToPeer(c, p, <<f>>), Reply(c, "ok")))
        /\ UNCHANGED <<client, served, room, made, faultVars>>
    BY DEF HandleProof, Taken
  <1>2. p \in Session
    BY <1>1, HandlesTypes, UpFrameKinds DEF PairRequest
  <1> HIDE DEF p
  <1>3. f \in DownFrame /\ f.type # "pair"
    <2>1. f \in ProofFrame
      BY <1>2 DEF ProofFrame
    <2> QED
      BY <2>1 DEF DownFrame
  <1> HIDE DEF f
  <1>4. route \in [Session -> Route] /\ route[p] \in Route
    BY <1>2 DEF CommInv, RelayTypes
  <1>5. /\ \A s \in Session \ {p} : route'[s] = route[s]
        /\ route'[p].creator = route[p].creator /\ route'[p].joiner = route[p].joiner
    BY <1>1, <1>2, <1>4 DEF Route
  <1>6. ASSUME NEW s \in Session PROVE Members(s)' = Members(s)
    BY <1>5 DEF Members
  <1>7. \A d \in Client : RoutesOf(d)' = RoutesOf(d)
    BY <1>6 DEF RoutesOf
  <1>8. OneRoute'
    <2>1. route[p] # NoRoute
      BY <1>1, MembersHaveRoute
    <2>2. room = Nobody
      BY <1>2, <2>1 DEF RelayInv, OneRoute
    <2> QED
      BY <1>1, <1>5, <2>1, <2>2, FewerRoutes DEF RelayInv
  <1> QED
    BY <1>1, <1>3, <1>7, <1>8, RelayedTold

LEMMA HandleDataTold ==
    ASSUME CommInv, RelayInv, NEW c \in Client, HandleData(c) PROVE NextTold
  <1> DEFINE p == Head(up[c]).pair
             f == [type |-> "data", frame |-> Head(up[c]).frame]
  <1>1. /\ Taken(c, "data") /\ Handles(c, "data")
        /\ Deliver(Both(ToPeer(c, p, <<f>>), Reply(c, "ok")))
        /\ UNCHANGED <<client, served, room, route, made>>
    BY DEF HandleData, Taken
  <1>2. f \in DownFrame /\ f.type # "pair"
    <2>1. Head(up[c]).frame \in Frame
      BY <1>1, HandlesTypes, UpFrameKinds DEF FrameRequest
    <2>2. f \in RelayedFrame
      BY <2>1 DEF RelayedFrame
    <2> QED
      BY <2>2 DEF DownFrame
  <1> HIDE DEF f, p
  <1>3. OneRoute'
    BY <1>1, FewerRoutes DEF RelayInv
  <1>4. \A d \in Client : RoutesOf(d)' = RoutesOf(d)
    BY <1>1 DEF RoutesOf, Members
  <1> QED
    BY <1>1, <1>2, <1>3, <1>4, RelayedTold

\* The peer is told which route is closed.
LEMMA PeersClosedFrames ==
    ASSUME CommInv, RelayInv, NEW c \in Client
    PROVE  /\ \A d \in Client : PeersClosed(c)[d] \in Seq(DownFrame)
           /\ \A d \in Client : \A i \in 1..Len(PeersClosed(c)[d]) :
                 PeersClosed(c)[d][i].type # "pair"
           /\ \A d \in Client \ {c} : \A p \in RoutesOf(c) \cap RoutesOf(d) :
                 Has(PeersClosed(c)[d], CloseFrame(p))
  <1> DEFINE x == CHOOSE p \in RoutesOf(c) : TRUE
             f == CloseFrame(x)
  <1>1. f.type = "close"
    BY DEF CloseFrame
  <1>2. ASSUME NEW p \in RoutesOf(c) PROVE x = p
    <2>1. p \in Session /\ c \in Members(p)
      BY <1>2 DEF RoutesOf
    <2>2. RoutesOf(c) = {p}
      BY <2>1, OnlyRoute DEF RelayInv
    <2> QED
      BY <2>2
  <1>3. ASSUME NEW d \in Client
        PROVE  /\ PeersClosed(c)[d] = <<f>> \/ PeersClosed(c)[d] = <<>>
               /\ d # c /\ RoutesOf(d) \cap RoutesOf(c) # {} => PeersClosed(c)[d] = <<f>>
    BY DEF PeersClosed
  <1>4. ASSUME NEW p \in RoutesOf(c) PROVE f = CloseFrame(p)
    BY <1>2, <1>4
  <1> HIDE DEF f, x
  <1>5. ASSUME NEW d \in Client, NEW i \in 1..Len(PeersClosed(c)[d])
        PROVE  PeersClosed(c)[d][i].type # "pair"
    <2> DEFINE q == PeersClosed(c)[d]
    <2>1. (q = <<f>> \/ q = <<>>) /\ i \in 1..Len(q)
      BY <1>3
    <2> HIDE DEF q
    <2>2. q[i] = f
      BY <2>1
    <2> QED
      BY <1>1, <2>2 DEF q
  <1>6. ASSUME NEW d \in Client \ {c}, NEW p \in RoutesOf(c) \cap RoutesOf(d)
        PROVE  Has(PeersClosed(c)[d], CloseFrame(p))
    <2>1. PeersClosed(c)[d] = <<f>> /\ f = CloseFrame(p)
      BY <1>3, <1>4
    <2>2. Has(<<f>>, f)
      BY DEF Has
    <2> QED
      BY <2>1, <2>2
  <1> QED
    BY <1>5, <1>6, PeersClosedTypes

\* A handler takes routes away: it tells who loses one, or was asked by them.
LEMMA TakenAwayTold ==
    ASSUME CommInv, RelayInv, NEW c \in Client, UNCHANGED client, made' = made,
           room' \in {room, Nobody},
           \A p \in Session : route'[p] = NoRoute \/ route'[p] = route[p],
           \A p \in Session \ RoutesOf(c) : route'[p] = route[p],
           up' = [up EXCEPT ![c] = <<>>] \/ (up[c] # <<>> /\ up' = [up EXCEPT ![c] = Tail(@)]),
           NEW frames, Deliver(frames), \A d \in Client : frames[d] \in Seq(DownFrame),
           \A d \in Client : \A i \in 1..Len(frames[d]) : frames[d][i].type # "pair",
           \A d \in Client \ {c} : \A p \in RoutesOf(c) \cap RoutesOf(d) :
              Has(frames[d], CloseFrame(p)),
           client[c].connected =>
              \A p \in RoutesOf(c) :
                 \/ Has(frames[c], Eof) \/ Has(down[c], Eof)
                 \/ \E i \in 1..Len(up[c]) : up[c][i].type = "close" /\ up[c][i].pair = p
    PROVE  NextTold
  <1>1. OneRoute'
    BY FewerRoutes DEF RelayInv
  <1>2. \A d \in Client : \A i \in 1..Len(up'[d]) : \E j \in 1..Len(up[d]) : up'[d][i] = up[d][j]
    BY TakenFrames
  <1>3. ASSUME NEW d \in Client, client[d].connected, NEW p \in RoutesOf(d)
        PROVE  \/ p \in RoutesOf(d)'
               \/ Has(frames[d], CloseFrame(p)) \/ Has(frames[d], Eof) \/ Has(down[d], Eof)
               \/ \E i \in 1..Len(up[d]) : up[d][i].type = "close" /\ up[d][i].pair = p
    <2>1. CASE p \in RoutesOf(c) /\ d = c
      BY <1>3, <2>1
    <2>2. CASE p \in RoutesOf(c) /\ d # c
      BY <1>3, <2>2
    <2>3. CASE p \notin RoutesOf(c)
      <3>1. p \in Session /\ d \in Members(p)
        BY <1>3 DEF RoutesOf
      <3>2. route'[p] = route[p]
        BY <2>3, <3>1
      <3>3. p \in RoutesOf(d)'
        BY <3>1, <3>2 DEF RoutesOf, Members
      <3> QED
        BY <3>3
    <2> QED
      BY <2>1, <2>2, <2>3
  <1> QED
    BY <1>1, <1>2, <1>3, DeliverTold

LEMMA HandleCloseTold ==
    ASSUME CommInv, RelayInv, NEW c \in Client, HandleClose(c) PROVE NextTold
  <1> DEFINE q == Head(up[c])
             p == q.pair
             g == Reply(c, "ok")
             h == PeersClosed(c)
             b == Both(g, h)
  <1>1. /\ Handles(c, "close") /\ up' = [up EXCEPT ![c] = Tail(@)] /\ c \in Members(p)
        /\ route' = [route EXCEPT ![p] = NoRoute]
        /\ Deliver(b)
        /\ UNCHANGED <<client, served, room, made, faultVars>>
    BY DEF HandleClose, Taken
  <1>2. p \in Session /\ q.type = "close" /\ up[c] \in Seq(UpFrame) /\ up[c] # <<>>
    BY <1>1, HandlesTypes, UpFrameKinds DEF PairRequest
  <1>3. 1 \in 1..Len(up[c]) /\ up[c][1] = q
    BY <1>2
  <1>4. /\ \A d \in Client : g[d] \in Seq(DownFrame)
        /\ \A d \in Client : \A i \in 1..Len(g[d]) : g[d][i].type # "pair"
    BY <1>1, ReplyFrames DEF Result
  <1>5. /\ \A d \in Client : h[d] \in Seq(DownFrame)
        /\ \A d \in Client : \A i \in 1..Len(h[d]) : h[d][i].type # "pair"
        /\ \A d \in Client \ {c} : \A s \in RoutesOf(c) \cap RoutesOf(d) : Has(h[d], CloseFrame(s))
    BY PeersClosedFrames
  <1> HIDE DEF g, h
  <1>6. /\ \A d \in Client : b[d] \in Seq(DownFrame)
        /\ \A d \in Client : \A i \in 1..Len(b[d]) : b[d][i].type # "pair"
        /\ \A d \in Client : \A f : Has(g[d], f) \/ Has(h[d], f) => Has(b[d], f)
    BY <1>4, <1>5, BothFrames
  <1> HIDE DEF b
  <1>7. \A d \in Client \ {c} : \A s \in RoutesOf(c) \cap RoutesOf(d) : Has(b[d], CloseFrame(s))
    BY <1>5, <1>6
  <1>8. RoutesOf(c) = {p}
    BY <1>1, <1>2, OnlyRoute DEF RelayInv
  <1> HIDE DEF q, p
  <1>9. /\ \A s \in Session : route'[s] = NoRoute \/ route'[s] = route[s]
        /\ \A s \in Session \ RoutesOf(c) : route'[s] = route[s]
    BY <1>1, <1>8 DEF CommInv, RelayTypes
  <1>10. \A s \in RoutesOf(c) : \E i \in 1..Len(up[c]) : up[c][i].type = "close" /\ up[c][i].pair = s
    BY <1>2, <1>3, <1>8 DEF p
  <1> QED
    BY <1>1, <1>2, <1>6, <1>7, <1>9, <1>10, TakenAwayTold

\* run() leaves its loop: the client is told, or has ended the connection itself.
LEMMA EndsTold ==
    ASSUME CommInv, RelayInv, NEW c \in Client, up[c] # <<>>,
           NEW own \in Seq(DownFrame), \A i \in 1..Len(own) : own[i].type # "pair",
           Ends(c, Only(c, own)), Has(own, Eof) \/ (client[c].connected => Has(down[c], Eof))
    PROVE  NextTold
  <1> DEFINE g == Only(c, own)
             h == PeersClosed(c)
             b == Both(g, h)
  <1>1. /\ up' = [up EXCEPT ![c] = <<>>]
        /\ room' = IF room = c THEN Nobody ELSE room
        /\ route' = WithoutRoutes(c)
        /\ Deliver(b)
        /\ UNCHANGED <<client, made, faultVars>>
    BY DEF Ends
  <1>2. g[c] = own /\ \A d \in Client \ {c} : g[d] = <<>>
    BY DEF Only
  <1>3. \A d \in Client : g[d] \in Seq(DownFrame)
    BY OnlyTypes
  <1>4. /\ \A d \in Client : h[d] \in Seq(DownFrame)
        /\ \A d \in Client : \A i \in 1..Len(h[d]) : h[d][i].type # "pair"
        /\ \A d \in Client \ {c} : \A s \in RoutesOf(c) \cap RoutesOf(d) : Has(h[d], CloseFrame(s))
    BY PeersClosedFrames
  <1> HIDE DEF g, h
  <1>5. \A d \in Client : \A i \in 1..Len(g[d]) : g[d][i].type # "pair"
    BY <1>2
  <1>6. /\ \A d \in Client : b[d] \in Seq(DownFrame)
        /\ \A d \in Client : \A i \in 1..Len(b[d]) : b[d][i].type # "pair"
        /\ \A d \in Client : \A f : Has(g[d], f) \/ Has(h[d], f) => Has(b[d], f)
    BY <1>3, <1>4, <1>5, BothFrames
  <1> HIDE DEF b
  <1>7. \A d \in Client \ {c} : \A s \in RoutesOf(c) \cap RoutesOf(d) : Has(b[d], CloseFrame(s))
    BY <1>4, <1>6
  <1>8. client[c].connected => Has(b[c], Eof) \/ Has(down[c], Eof)
    BY <1>2, <1>6
  <1>9. /\ \A s \in Session : route'[s] = NoRoute \/ route'[s] = route[s]
        /\ \A s \in Session \ RoutesOf(c) : route'[s] = route[s]
    BY <1>1 DEF WithoutRoutes
  <1>10. room' \in {room, Nobody}
    BY <1>1
  <1> QED
    BY <1>1, <1>6, <1>7, <1>8, <1>9, <1>10, TakenAwayTold

LEMMA HandleRefusedTold ==
    ASSUME CommInv, RelayInv, NEW c \in Client, HandleRefused(c) PROVE NextTold
  <1> DEFINE q == Head(up[c])
             a(r) == Answer(q, r)
             own(r) == <<a(r)>> \o <<Eof>>
  <1>1. PICK r \in {"ok", "error"} : Ends(c, Only(c, own(r)))
    BY DEF HandleRefused
  <1>2. q \in UpFrame /\ q # Eof /\ up[c] # <<>>
    BY HandlesTypes, UpFrameKinds DEF HandleRefused
  <1>3. a(r) \in DownFrame /\ a(r).type # "pair"
    <2>1. a(r) \in DownFrame
      BY <1>2, AnswerTypes DEF Result
    <2> QED
      BY <2>1 DEF Answer
  <1>4. Eof \in DownFrame /\ Eof.type # "pair"
    BY DEF DownFrame, Eof
  <1> HIDE DEF a
  <1>5. /\ own(r) \in Seq(DownFrame) /\ \A i \in 1..Len(own(r)) : own(r)[i].type # "pair"
        /\ Has(own(r), Eof)
    <2> DEFINE f == a(r)
               s == <<f>> \o <<Eof>>
    <2>1. f \in DownFrame /\ f.type # "pair"
      BY <1>3
    <2> HIDE DEF f
    <2>2. <<f>> \in Seq(DownFrame) /\ <<Eof>> \in Seq(DownFrame)
          /\ Len(<<f>>) = 1 /\ Len(<<Eof>>) = 1 /\ <<f>>[1] = f /\ <<Eof>>[1] = Eof
      BY <1>4, <2>1
    <2>3. s \in Seq(DownFrame)
      BY <2>2, Joined
    <2>4. Len(s) = 2 /\ s[1] = f /\ s[2] = Eof
      BY <2>2, Joined
    <2>5. \A i \in 1..Len(s) : i = 1 \/ i = 2
      BY <2>4
    <2> HIDE DEF s
    <2>6. \A i \in 1..Len(s) : s[i].type # "pair"
      BY <1>4, <2>1, <2>4, <2>5
    <2>7. Has(s, Eof)
      <3>1. 2 \in 1..Len(s)
        BY <2>4
      <3> QED
        BY <2>4, <3>1 DEF Has
    <2> QED
      BY <2>3, <2>6, <2>7 DEF f, s
  <1> DEFINE o == own(r)
  <1> HIDE DEF own
  <1>6. /\ o \in Seq(DownFrame) /\ \A i \in 1..Len(o) : o[i].type # "pair"
        /\ Has(o, Eof) /\ Ends(c, Only(c, o))
    BY <1>1, <1>5
  <1> HIDE DEF o
  <1> QED
    BY <1>2, <1>6, EndsTold

LEMMA HandleEofTold ==
    ASSUME CommInv, RelayInv, NEW c \in Client, HandleEof(c) PROVE NextTold
  <1>1. Handles(c, "eof") /\ Ends(c, Only(c, <<>>))
    BY DEF HandleEof
  <1>2. up[c] \in Seq(UpFrame) /\ up[c] # <<>> /\ Head(up[c]) = Eof
    BY <1>1, HandlesTypes, UpFrameKinds
  <1>3. 1 \in 1..Len(up[c]) /\ up[c][1] = Eof
    BY <1>2
  <1>4. Has(up[c], Eof)
    BY <1>3 DEF Has
  <1>5. client[c].connected => Has(down[c], Eof)
    BY <1>4 DEF RelayInv, AllTold, Told
  <1> DEFINE own == <<>>
  <1>6. own \in Seq(DownFrame) /\ \A i \in 1..Len(own) : own[i].type # "pair"
    BY EmptySequence
  <1>7. Ends(c, Only(c, own))
    BY <1>1
  <1> HIDE DEF own
  <1> QED
    BY <1>2, <1>5, <1>6, <1>7, EndsTold

\* One frame announces nothing.
LEMMA OneFrame ==
    ASSUME NEW f \in DownFrame, f.type # "pair", NEW q, q = <<f>> \/ q = <<>>
    PROVE  /\ q \in Seq(DownFrame) /\ \A i \in 1..Len(q) : q[i].type # "pair"
           /\ q = <<f>> => Has(q, f)
  <1>1. CASE q = <<f>>
    <2>1. q \in Seq(DownFrame) /\ 1 \in 1..Len(q) /\ \A i \in 1..Len(q) : q[i] = f
      BY <1>1
    <2> QED
      BY <1>1, <2>1 DEF Has
  <1>2. CASE q = <<>>
    BY <1>2, EmptySequence
  <1> QED
    BY <1>1, <1>2

LEMMA RoomExpiresTold ==
    ASSUME CommInv, RelayInv, RoomExpires PROVE NextTold
  <1> DEFINE f == CloseFrame(0)
             frames == Only(room, <<f>>)
  <1>1. /\ room' = Nobody /\ Deliver(frames)
        /\ UNCHANGED <<client, up, served, route, made, faultVars>>
    BY DEF RoomExpires
  <1>2. f \in DownFrame /\ f.type # "pair"
    BY CloseFrameTypes DEF Pair
  <1> HIDE DEF f
  <1>3. \A d \in Client : frames[d] = <<f>> \/ frames[d] = <<>>
    BY DEF Only
  <1> HIDE DEF frames
  <1>4. /\ \A d \in Client : frames[d] \in Seq(DownFrame)
        /\ \A d \in Client : \A i \in 1..Len(frames[d]) : frames[d][i].type # "pair"
    BY <1>2, <1>3, OneFrame
  <1>5. OneRoute'
    BY <1>1, FewerRoutes DEF RelayInv
  <1>6. \A d \in Client : \A i \in 1..Len(up'[d]) : \E j \in 1..Len(up[d]) : up'[d][i] = up[d][j]
    BY <1>1
  <1>7. \A d \in Client : RoutesOf(d)' = RoutesOf(d)
    BY <1>1 DEF RoutesOf, Members
  <1> QED
    BY <1>1, <1>4, <1>5, <1>6, <1>7, DeliverTold

LEMMA RouteExpiresTold ==
    ASSUME CommInv, RelayInv, NEW p \in Session, NEW e, RouteExpires(p, e) PROVE NextTold
  <1> DEFINE f == CloseFrame(p)
             frames == [d \in Client |-> IF d \in Members(p) THEN <<f>> ELSE <<>>]
  <1>1. /\ route' = [route EXCEPT ![p] = NoRoute] /\ Deliver(frames)
        /\ UNCHANGED <<client, up, served, room, made>>
    BY DEF RouteExpires
  <1>2. f \in DownFrame /\ f.type # "pair"
    BY CloseFrameTypes DEF Pair
  <1>3. \A d \in Client : /\ frames[d] = <<f>> \/ frames[d] = <<>>
                          /\ d \in Members(p) => frames[d] = <<f>>
    OBVIOUS
  <1> HIDE DEF frames
  <1>4. /\ \A d \in Client : frames[d] \in Seq(DownFrame)
        /\ \A d \in Client : \A i \in 1..Len(frames[d]) : frames[d][i].type # "pair"
        /\ \A d \in Client : d \in Members(p) => Has(frames[d], CloseFrame(p))
    <2> HIDE DEF f
    <2>1. \A d \in Client : d \in Members(p) => Has(frames[d], f)
      BY <1>2, <1>3, OneFrame
    <2> QED
      BY <1>2, <1>3, <2>1, OneFrame DEF f
  <1>5. \A s \in Session : s # p => route'[s] = route[s]
    BY <1>1 DEF CommInv, RelayTypes
  <1>6. route'[p] = NoRoute
    BY <1>1 DEF CommInv, RelayTypes
  <1>7. OneRoute'
    BY <1>1, <1>5, <1>6, FewerRoutes DEF RelayInv
  <1>8. \A d \in Client : \A i \in 1..Len(up'[d]) : \E j \in 1..Len(up[d]) : up'[d][i] = up[d][j]
    BY <1>1
  <1>9. ASSUME NEW d \in Client, NEW s \in RoutesOf(d)
        PROVE  s \in RoutesOf(d)' \/ Has(frames[d], CloseFrame(s))
    <2>1. s \in Session /\ d \in Members(s)
      BY <1>9 DEF RoutesOf
    <2>2. CASE s = p
      BY <1>4, <2>1, <2>2
    <2>3. CASE s # p
      BY <1>5, <2>1, <2>3 DEF RoutesOf, Members
    <2> QED
      BY <2>2, <2>3
  <1> QED
    BY <1>1, <1>4, <1>7, <1>8, <1>9, DeliverTold

\* Two frames are sent as one after the other: only an end stops the second.
LEMMA SentTwice ==
    ASSUME NEW S, NEW q \in Seq(S), NEW a \in S, NEW f \in S, a # Eof
    PROVE  Sent(q, <<a, f>>) = Sent(Sent(q, <<a>>), <<f>>)
  <1>1. CASE Ended(q)
    BY <1>1 DEF Sent
  <1>2. CASE ~Ended(q)
    <2> DEFINE r == q \o <<a>>
    <2>1. r = Append(q, a)
      OBVIOUS
    <2>2. Len(r) = Len(q) + 1 /\ r[Len(q) + 1] = a /\ Len(q) \in Nat
      BY <2>1
    <2>3. ~Ended(r)
      BY <2>2 DEF Ended, Last
    <2>4. q \o <<a, f>> = r \o <<f>>
      <3>1. q \o <<a, f>> = Append(r, f) /\ r \in Seq(S)
        BY <2>1
      <3> HIDE DEF r
      <3>2. r \o <<f>> = Append(r, f)
        BY <3>1
      <3> QED
        BY <3>1, <3>2
    <2> QED
      BY <1>2, <2>3, <2>4 DEF Sent
  <1> QED
    BY <1>1, <1>2

\* A pair is made: both members are told, and hold no other.
LEMMA HandleJoinTold ==
    ASSUME CommInv, RelayInv, NEW c \in Client, HandleJoin(c) PROVE NextTold
  <1>0. PICK p \in Session : p = made + 1
    BY DEF HandleJoin
  <1> DEFINE a == Answer(Head(up[c]), "ok")
             f == [type |-> "pair", pair |-> p, role |-> "joiner"]
             g == [type |-> "pair", pair |-> p, role |-> "creator"]
             frames == [d \in Client |-> IF d = c THEN <<a, f>>
                                         ELSE IF d = room THEN <<g>> ELSE <<>>]
  <1>1. /\ Handles(c, "join") /\ up' = [up EXCEPT ![c] = Tail(@)]
        /\ room \notin {Nobody, c} /\ made' = p /\ room' = Nobody
        /\ route' = [route EXCEPT ![p] = [creator |-> room, joiner |-> c, proved |-> {}]]
        /\ Deliver(frames) /\ UNCHANGED <<client, served, faultVars>>
    BY <1>0 DEF HandleJoin, Taken
  <1>2. f \in PairFrame /\ g \in PairFrame /\ f.pair = made + 1 /\ g.pair = made + 1
    BY <1>0 DEF PairFrame, Role
  <1>3. a \in DownFrame /\ a.type # "pair"
    <2>1. Head(up[c]) \in UpFrame /\ Head(up[c]) # Eof
      BY <1>1, HandlesTypes, UpFrameKinds, ZenonT(60)
    <2>2. a \in DownFrame
      BY <2>1, AnswerTypes DEF Result
    <2> QED
      BY <2>2 DEF Answer
  <1>4. /\ route \in [Session -> Route] /\ made \in Nat /\ made + 1 \in Session
        /\ room \in Client /\ room # c
        /\ up \in [Client -> Seq(UpFrame)] /\ down \in [Client -> Seq(DownFrame)]
    BY <1>0, <1>1, SessionsArePositive DEF CommInv, RelayTypes, Pair
  <1>5. \A s \in Session : route[s] = NoRoute
    BY <1>1 DEF RelayInv, OneRoute
  <1>6. /\ \A s \in Session \ {p} : route'[s] = NoRoute
        /\ route'[p].creator = room /\ route'[p].joiner = c
    BY <1>1, <1>4, <1>5
  <1>7. OneRoute'
    <2>1. \A s \in Session : s > p => s # p
      BY SessionsArePositive
    <2> QED
      BY <1>1, <1>6, <2>1 DEF OneRoute
  <1>8. NoRoute.creator = Nobody /\ NoRoute.joiner = Nobody /\ Nobody \notin Client
    BY NobodyAssumption DEF NoRoute
  <1>9. \A d \in Client : RoutesOf(d) = {}
    BY <1>5, <1>8 DEF RoutesOf, Members
  <1>10. ASSUME NEW d \in Client, NEW s \in Session
         PROVE  d \in Members(s)' <=> s = p /\ d \in {room, c}
    <2>1. CASE s = p
      BY <1>6, <1>8, <2>1 DEF Members
    <2>2. CASE s # p
      BY <1>6, <1>8, <2>2 DEF Members
    <2> QED
      BY <2>1, <2>2
  <1>11. ASSUME NEW d \in Client
         PROVE  /\ d \in {room, c} => RoutesOf(d)' = {p}
                /\ d \notin {room, c} => RoutesOf(d)' = {}
    BY <1>10 DEF RoutesOf
  <1>12. /\ frames[c] = <<a, f>> /\ frames[room] = <<g>>
         /\ \A d \in Client \ {c, room} : frames[d] = <<>>
    BY <1>4
  <1> HIDE DEF a, f, g, frames
  <1>13. ASSUME NEW d \in Client
         PROVE  Told(client[d], up'[d], down'[d], RoutesOf(d)', made + 1)
    <2> DEFINE k == client[d]
               u == up[d]
               v == up'[d]
               q == down[d]
               e == down'[d]
               m == made
    <2>1. SUFFICES ASSUME k.connected PROVE Told(k, v, e, RoutesOf(d)', m + 1)
      BY DEF Told
    <2>2. e = Sent(q, frames[d])
      BY <1>1, <2>1 DEF Deliver
    <2>3. /\ k.pairs \in Seq(PairFrame) /\ {k.pair, k.taskPair, k.failing} \subseteq Pair
          /\ u \in Seq(UpFrame) /\ q \in Seq(DownFrame) /\ m \in Nat /\ m + 1 \in Session
      BY <1>4 DEF CommInv, ClientInv, IsClient, ClientTypes
    <2>4. Told(k, u, q, {}, m)
      BY <1>9 DEF RelayInv, AllTold
    <2>5. CASE d = c
      <3> DEFINE x == Sent(q, <<a>>)
      <3>1. \A i \in 1..Len(v) : \E j \in 1..Len(u) : v[i] = u[j]
        BY <1>1, TakenFrames DEF Handles
      <3>2. v \in Seq(UpFrame)
        BY <1>1, <1>4, HandlesTypes
      <3>3. <<a>> \in Seq(DownFrame) /\ \A i \in 1..Len(<<a>>) : <<a>>[i].type # "pair"
        BY <1>3, OneFrame
      <3>4. x \in Seq(DownFrame)
        BY <2>3, <3>3, SentFrames
      <3>5. RoutesOf(d)' = {} \cup {m + 1}
        BY <1>0, <1>11, <2>5
      <3>6. e = Sent(x, <<f>>)
        <4>1. e = Sent(q, <<a, f>>)
          BY <1>12, <2>2, <2>5
        <4>2. f \in DownFrame /\ a # Eof
          BY <1>2, <1>3 DEF DownFrame, a, Answer, Eof
        <4> HIDE DEF q, e
        <4> QED
          BY <1>3, <2>3, <4>1, <4>2, SentTwice
      <3> HIDE DEF k, u, v, q, e, m
      <3>7. Told(k, v, x, {}, m)
        <4> DEFINE more == <<a>>
                   R == {}
        <4> HIDE DEF x
        <4>1. more \in Seq(DownFrame) /\ x = Sent(q, more)
          BY <3>3 DEF x
        <4>2. \A i \in 1..Len(more) : more[i].type # "pair"
          BY <3>3
        <4>3. Told(k, u, q, R, m)
          BY <2>4
        <4> HIDE DEF more, R
        <4>4. \A y \in R :
                 \/ y \in R \/ Has(more, CloseFrame(y)) \/ Has(more, Eof) \/ Has(q, Eof)
                 \/ \E i \in 1..Len(u) : u[i].type = "close" /\ u[i].pair = y
          OBVIOUS
        <4>5. k.pairs \in Seq(PairFrame) /\ u \in Seq(UpFrame) /\ q \in Seq(DownFrame)
          BY <2>3
        <4>6. Told(k, v, x, R, m)
          BY <3>1, <4>1, <4>2, <4>3, <4>4, <4>5, DeliveredTold, SMTT(60)
        <4> QED
          BY <4>6 DEF R
      <3> HIDE DEF x
      <3>8. Told(k, v, e, {} \cup {m + 1}, m + 1)
        BY <1>2, <2>3, <3>2, <3>4, <3>6, <3>7, AnnouncedTold DEF m
      <3> QED
        BY <3>5, <3>8
    <2>6. CASE d = room
      <3>1. v = u
        BY <1>1, <1>4, <2>6
      <3>2. RoutesOf(d)' = {} \cup {m + 1}
        BY <1>0, <1>11, <2>6
      <3>3. e = Sent(q, <<g>>) /\ g \in PairFrame /\ g.pair = m + 1
        BY <1>2, <1>12, <2>2, <2>6
      <3> HIDE DEF k, u, v, q, e, m
      <3>4. Told(k, u, e, {} \cup {m + 1}, m + 1)
        BY <2>3, <2>4, <3>3, AnnouncedTold
      <3> QED
        BY <3>1, <3>2, <3>4
    <2>7. CASE d \notin {c, room}
      <3>1. v = u /\ RoutesOf(d)' = {}
        BY <1>1, <1>4, <1>11, <2>7
      <3>2. e = q
        <4>1. e = Sent(q, <<>>)
          BY <1>12, <2>2, <2>7
        <4> QED
          BY <2>3, <4>1 DEF Sent
      <3> HIDE DEF k, u, v, q, e, m
      <3>3. Told(k, u, q, {}, m + 1)
        BY <2>3, <2>4, LaterTold
      <3> QED
        BY <3>1, <3>2, <3>3
    <2> QED
      BY <2>5, <2>6, <2>7
  <1>14. client' = client /\ made' = made + 1
    BY <1>0, <1>1
  <1> QED
    BY <1>7, <1>13, <1>14 DEF NextTold

LEMMA RelayStepTold ==
    ASSUME CommInv, RelayInv, NEW c \in Client, RelayStep(c) PROVE NextTold
  BY HandleWaitTold, RepliedTold, HandleJoinTold, HandleProofTold, HandleDataTold,
     HandleCloseTold, HandleRefusedTold, HandleEofTold DEF RelayStep

-----------------------------------------------------------------------------
(* The theorems *)

LEMMA TimerTold ==
    ASSUME CommInv, RelayInv, NEW e, Timer(e) PROVE NextTold
  <1>1. ASSUME NEW c \in Client, ClientTimer(c, e) PROVE NextTold
    BY <1>1, RequestTimesOutTold, SetupTimesOutTold, IdentityTimesOutTold DEF ClientTimer, By
  <1> QED
    BY <1>1, RouteExpiresTold DEF Timer

LEMMA RelayInvInit ==
    ASSUME Init PROVE RelayInv
  <1>1. OneRoute
    BY DEF Init, OneRoute
  <1>2. ASSUME NEW c \in Client PROVE Told(client[c], up[c], down[c], RoutesOf(c), made)
    <2> DEFINE k == client[c]
               q == <<>>
    <2>1. /\ k.pair = 0 /\ k.taskPair = 0 /\ k.failing = 0 /\ k.pairs = q /\ k.ui = "hub"
          /\ up[c] = q /\ down[c] = q
      BY DEF Init, NewClient
    <2>2. \A i \in 1..Len(q) : FALSE
      OBVIOUS
    <2>3. ~Departs(k) /\ ~Live(k)
      BY <2>1 DEF Departs, Live
    <2> HIDE DEF k, q
    <2>4. ~Has(q, Eof)
      BY <2>2 DEF Has
    <2>5. InOrder(k, q, made) /\ Behind(k, q, q, made) /\ GivenUp(k, q)
      BY <2>1, <2>2, <2>3 DEF InOrder, Rising, Behind, Past, GivenUp
    <2>6. Held(k, q, RoutesOf(c)) /\ Announced(q, RoutesOf(c))
      BY <2>1, <2>2, <2>3 DEF Held, Announced
    <2> QED
      BY <2>1, <2>4, <2>5, <2>6 DEF Told, k
  <1> QED
    BY <1>1, <1>2 DEF RelayInv, AllTold

LEMMA RelayInvStep ==
    ASSUME CommInv, RelayInv, [Next]_vars PROVE RelayInv'
  <1>1. CASE UNCHANGED vars
    <2>1. UNCHANGED client /\ made' = made /\ up' = up /\ down' = down /\ route' = route /\ room' = room
      BY <1>1 DEF vars
    <2>2. OneRoute' /\ \A d \in Client : RoutesOf(d)' = RoutesOf(d)
      BY <2>1 DEF RelayInv, OneRoute, RoutesOf, Members
    <2>3. NextTold
      BY <2>1, <2>2 DEF NextTold, RelayInv, AllTold
    <2> QED
      BY <2>3, NextIsTold
  <1>2. ASSUME NEW c \in Client,
               \/ ClientStep(c) \/ RelayStep(c) \/ UserStep(c)
               \/ ConnectionLost(c) \/ FrameDamaged(c)
        PROVE  NextTold
    BY <1>2, ReadTold, TaskStepTold, ScreenStepTold, HangUpTold, RelayStepTold,
       UserStepTold, ConnectionLostTold, FrameDamagedTold DEF ClientStep
  <1> QED
    BY <1>1, <1>2, RoomExpiresTold, TimerTold, NextIsTold DEF Next

\* What the relay and a client know of each other is an invariant: who holds a
\* pair, or may still take it, is a member of its route or will be told.
THEOREM RelayInvariant == Spec => []RelayInv
  <1>1. Init => RelayInv
    BY RelayInvInit
  <1>2. CommInv /\ RelayInv /\ [Next]_vars => RelayInv'
    BY RelayInvStep
  <1> QED
    BY <1>1, <1>2, CommInvariant, PTL DEF Spec

LEMMA InvGivesNoZombies ==
    ASSUME CommInv, RelayInv PROVE NoZombieComms
  <1>1. SUFFICES ASSUME NEW c \in Client, NEW k, k = client[c],
                        k.connected, k.channel # NoChannel, Usable(k.channel),
                        k.task # "aborting"
                 PROVE  \/ c \in Members(k.channel.session)
                        \/ CloseFrame(k.channel.session) \in ToSet(down[c])
                        \/ Eof \in ToSet(down[c])
    BY DEF NoZombieComms
  <1>2. k.channel.session = k.pair /\ k.pair # 0
    BY <1>1 DEF CommInv, ClientInv, RoleBelongs
  <1>3. Live(k)
    BY <1>1, <1>2 DEF Live
  <1>4. Alive(down[c], RoutesOf(c), k.pair)
    BY <1>1, <1>3 DEF RelayInv, AllTold, Told, Held
  <1>5. \A f : Has(down[c], f) => f \in ToSet(down[c])
    BY DEF Has, ToSet
  <1> QED
    BY <1>2, <1>4, <1>5 DEF Alive, RoutesOf

\* A connected client never keeps a usable channel of a pair the relay has closed,
\* unless the word of it is on its way: whoever closed it, and whenever.
THEOREM NoZombiesHold == Spec => []NoZombieComms
  BY CommInvariant, RelayInvariant, InvGivesNoZombies, PTL

=============================================================================

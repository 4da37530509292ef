------------------------- MODULE CommSessionProofs --------------------------
(***************************************************************************)
(* Proofs about the clients of CommSession, for any number of clients,     *)
(* comms, texts and faults: that their session state keeps its shape, and  *)
(* that a comm screen shows the peer's texts in order (ShownInOrder).      *)
(*                                                                         *)
(* What a client reads is arbitrary here: these facts need nothing of the  *)
(* relay or the other clients but the types of their frames.               *)
(***************************************************************************)
EXTENDS CommSession, WellFoundedInduction, SequenceTheorems, TLAPS

-----------------------------------------------------------------------------
(* Induction over a set of naturals, and the drain of a buffer *)

\* A set that has 0, and with n also n + 1, has every natural number: otherwise
\* there were a least one it has not.
LEMMA SetInduction ==
    ASSUME NEW S, 0 \in S, \A n \in Nat : n \in S => n + 1 \in S
    PROVE  Nat \subseteq S
  <1> DEFINE T == Nat \ S
             R == OpToRel(<, Nat)
  <1>1. SUFFICES ASSUME T # {} PROVE FALSE
    OBVIOUS
  <1>2. IsWellFoundedOn(R, Nat)
    BY NatLessThanWellFounded
  <1>3. PICK x \in T : \A y \in T : ~(<<y, x>> \in R)
    <2> HIDE DEF R
    <2>1. T \subseteq Nat
      OBVIOUS
    <2> HIDE DEF T
    <2> QED
      BY <1>1, <1>2, <2>1, WFMin
  <1>4. x # 0 /\ x \in Nat
    OBVIOUS
  <1>5. x - 1 \in T
    BY <1>4
  <1>6. <<x - 1, x>> \in R
    BY <1>4, <1>5 DEF OpToRel
  <1> QED
    BY <1>3, <1>5, <1>6

\* A buffer is drained frame by frame: the recursive definition of Drained has a
\* solution, and g[n] is what n frames make of the client.
LEMMA DrainedByFrame ==
    ASSUME NEW k, NEW N \in Nat, N = Len(k.buffered)
    PROVE  \E g :
             /\ g = [n \in 0..N |-> IF n = 0 THEN [k EXCEPT !.buffered = <<>>]
                                    ELSE DrainedOnto(g[n - 1], k.buffered[n])]
             /\ Drained(k) = g[N]
  <1> DEFINE K == [k EXCEPT !.buffered = <<>>]
             B == k.buffered
             Def(g, m) == g = [n \in 0..m |-> IF n = 0 THEN K ELSE DrainedOnto(g[n - 1], B[n])]
             S == {m \in Nat : \E g : Def(g, m)}
  <1>1. 0 \in S
    <2> DEFINE g == [n \in 0..0 |-> K]
    <2>1. Def(g, 0)
      OBVIOUS
    <2> QED
      BY <2>1
  <1>2. ASSUME NEW m \in Nat, m \in S PROVE m + 1 \in S
    <2>1. PICK g : Def(g, m)
      BY <1>2
    <2> DEFINE h == [n \in 0..(m + 1) |->
                        IF n = m + 1 THEN DrainedOnto(g[m], B[m + 1]) ELSE g[n]]
    <2>2. ASSUME NEW n \in 0..(m + 1)
          PROVE  h[n] = IF n = 0 THEN K ELSE DrainedOnto(h[n - 1], B[n])
      <3>1. CASE n = m + 1
        <4>1. h[n] = DrainedOnto(g[m], B[m + 1]) /\ n # 0 /\ n - 1 = m
          BY <3>1
        <4>2. h[m] = g[m]
          OBVIOUS
        <4> QED
          BY <3>1, <4>1, <4>2
      <3>2. CASE n \in 0..m
        <4>1. h[n] = g[n]
          BY <3>2
        <4>2. g[n] = IF n = 0 THEN K ELSE DrainedOnto(g[n - 1], B[n])
          BY <2>1, <3>2
        <4>3. n # 0 => h[n - 1] = g[n - 1]
          BY <3>2
        <4> QED
          BY <4>1, <4>2, <4>3
      <3> QED
        BY <3>1, <3>2
    <2>3. Def(h, m + 1)
      <3>1. h = [n \in 0..(m + 1) |-> h[n]]
        OBVIOUS
      <3> HIDE DEF h
      <3> QED
        BY <2>2, <3>1
    <2> HIDE DEF Def
    <2> QED
      BY <2>3
  <1>3. N \in S
    <2> HIDE DEF S
    <2> QED
      BY <1>1, <1>2, SetInduction
  <1>4. \E g : Def(g, N)
    BY <1>3
  <1> DEFINE a == CHOOSE g : Def(g, N)
  <1>5. Def(a, N)
    <2> HIDE DEF Def
    <2> QED
      BY <1>4
  <1>6. Drained(k) = a[N]
    BY DEF Drained
  <1> QED
    BY <1>5, <1>6

-----------------------------------------------------------------------------
(* The inductive invariant *)

Pair == Session \cup {0}
By == {"ui", "task", "failure"}
Result == {"ok", "no", "error"}
Reason == {"integrity_failure", "closed", "server_disconnect"}
PairFrame == [type : {"pair"}, pair : Session, role : Role]
ProofFrame == [type : {"proof"}, pair : Session]

\* A channel, or NoChannel.
End ==
    [session : Pair, role : Role, sendCounter : Nat, receiveCounter : Nat,
     localIdentitySent : BOOLEAN, peerIdentityReceived : BOOLEAN,
     discarded : BOOLEAN, failed : BOOLEAN]

Fields ==
    {"connected", "ui", "task", "role", "pair", "taskPair", "participant", "channel",
     "buffered", "identified", "pairs", "proofs", "events", "closes", "comm", "over",
     "shown", "failing", "pending"}

ClientTypes(k) ==
    /\ k.connected \in BOOLEAN /\ k.ui \in Screen /\ k.task \in Task
    /\ k.role \in Role \cup {Nobody} /\ k.pair \in Pair /\ k.taskPair \in Pair
    /\ k.participant \in BOOLEAN /\ k.channel \in End
    /\ k.buffered \in Seq(Frame) /\ k.identified \in BOOLEAN
    /\ k.pairs \in Seq(PairFrame) /\ k.proofs \in Seq(ProofFrame)
    /\ k.events \in Seq(Frame) /\ k.closes \in Seq(Reason)
    /\ k.comm \in Pair /\ k.over \in BOOLEAN /\ k.shown \in Seq(Frame)
    /\ k.failing \in Pair /\ k.pending \in [By -> {"none", "sent"} \cup Result]

IsRecord(k) == k = [f \in Fields |-> k[f]]

IsClient(k) == IsRecord(k) /\ ClientTypes(k)

\* The client n is k but for the fields in S.
Changes(k, n, S) == IsRecord(n) /\ \A f \in Fields \ S : n[f] = k[f]

\* A pair and a channel belong to the role they were made in.
RoleBelongs(k) ==
    /\ k.role = Nobody => k.pair = 0 /\ ~k.participant /\ k.channel = NoChannel
    /\ k.channel # NoChannel =>
          k.channel.session = k.pair /\ k.pair # 0 /\ k.channel.role = k.role

\* complete_session runs under the screens of a setup, on its own pair as long as
\* there is a participant.
TaskBelongs(k) ==
    /\ k.task # "none" => k.ui \in {"waiting", "cancelling", "settling", "connecting"}
    /\ k.ui \in {"starting", "joining"} => k.pair = 0 /\ k.channel = NoChannel
    /\ k.task = "pair" => k.pair = 0
    /\ k.task \in {"proving", "proof"} /\ k.participant => k.pair = k.taskPair
    /\ k.task \in {"proving", "proof", "naming", "peer", "aborting"} => k.taskPair # 0
    /\ k.ui \in {"saying bye", "closing"} => k.taskPair # 0

\* The texts of q follow the first n of the session s.
Follow(q, n, s) ==
    \A i \in 1..Len(q) : q[i].event # Close => q[i].session = s /\ q[i].counter = n + i

\* The channel has accepted the identity, the texts shown and the events queued,
\* and nothing else.
Accepted(k) ==
    /\ Follow(k.events, Len(k.shown), k.channel.session)
    /\ Usable(k.channel) =>
          IF k.channel.peerIdentityReceived
          THEN k.channel.receiveCounter = Len(k.shown) + Len(k.events) + 1
          ELSE k.channel.receiveCounter = 0 /\ k.events = <<>> /\ k.shown = <<>>

\* The comm screen is open and its watcher runs.
Watches(k) == InComm(k) /\ ~k.over

TextsFollow(k) ==
    /\ k.participant => k.channel = NoChannel /\ k.events = <<>>
    /\ ~InComm(k) /\ k.ui # "crashed" => k.shown = <<>>
    /\ Follow(k.shown, 0, k.comm) /\ \A i \in 1..Len(k.shown) : k.shown[i].event # Close
    /\ (k.task # "none" \/ Watches(k)) /\ k.channel # NoChannel => Accepted(k)
    /\ Watches(k) => Follow(k.events, Len(k.shown), k.comm)
    /\ Watches(k) /\ k.channel # NoChannel => k.channel.session = k.comm

ClientInv(k) == IsClient(k) /\ RoleBelongs(k) /\ TaskBelongs(k) /\ TextsFollow(k)

PlainRequest == [type : {"wait", "cancel", "join"}, by : By, late : BOOLEAN, pair : {0}]
PairRequest == [type : {"proof", "close"}, by : By, late : BOOLEAN, pair : Session]
FrameRequest ==
    [type : {"data"}, by : By, late : BOOLEAN, pair : Session, frame : Frame]
UpFrame == {Eof} \cup PlainRequest \cup PairRequest \cup FrameRequest

AnswerFrame ==
    [type : {"answer"}, to : {"wait", "cancel", "join", "proof", "data", "close"}, by : By,
     late : BOOLEAN, result : Result]
RelayedFrame == [type : {"data"}, frame : Frame]
EndFrame == [type : {"close"}, pair : Pair]
DownFrame ==
    {Eof} \cup AnswerFrame \cup PairFrame \cup ProofFrame \cup RelayedFrame \cup EndFrame

Route == [creator : Client \cup {Nobody}, joiner : Client \cup {Nobody}, proved : SUBSET Client]

RelayTypes ==
    /\ served \subseteq Client /\ room \in Client \cup {Nobody}
    /\ route \in [Session -> Route]
    /\ \A p \in Session : route[p].proved \subseteq Members(p)
    /\ made \in Pair /\ faults \in 0..MaxFaults /\ damaged \in BOOLEAN

CommInv ==
    /\ client = [c \in Client |-> client[c]]
    /\ \A c \in Client : ClientInv(client[c])
    /\ up \in [Client -> Seq(UpFrame)] /\ down \in [Client -> Seq(DownFrame)]
    /\ RelayTypes

-----------------------------------------------------------------------------
(* Channels *)

LEMMA NoChannelIsEnd ==
    /\ NoChannel \in End /\ NoChannel.session = 0
    /\ ~NoChannel.localIdentitySent /\ ~NoChannel.peerIdentityReceived
  BY DEF NoChannel, NewChannel, End, Role, Pair

LEMMA SessionsArePositive == 0 \notin Session /\ Session \subseteq Nat
  BY CommAssumption

\* discard, also by a failure.
LEMMA DiscardedChannel ==
    ASSUME NEW ch \in End
    PROVE  /\ Discard(ch) \in End
           /\ Discard(ch).session = ch.session /\ Discard(ch).role = ch.role
           /\ ~Usable(Discard(ch))
  BY DEF Discard, End, Usable

\* encrypt_identity, encrypt_text, encrypt_close.
LEMMA EncryptingChannel ==
    ASSUME NEW ch \in End, NEW e \in Event, NEW n, n = AfterEncrypt(ch, e)
    PROVE  /\ n \in End /\ n.session = ch.session /\ n.role = ch.role
           /\ e = Close => ~Usable(n)
           /\ e # Close =>
                /\ n.receiveCounter = ch.receiveCounter
                /\ n.peerIdentityReceived = ch.peerIdentityReceived
                /\ n.discarded = ch.discarded /\ n.failed = ch.failed
                /\ n.sendCounter = ch.sendCounter + 1
           /\ e = Identity => n.localIdentitySent
  <1>1. CASE e = Identity
    <2>1. n = [ch EXCEPT !.sendCounter = @ + 1, !.localIdentitySent = TRUE]
      BY <1>1 DEF AfterEncrypt, Identity, Close
    <2>2. n = [session |-> ch.session, role |-> ch.role, sendCounter |-> ch.sendCounter + 1,
               receiveCounter |-> ch.receiveCounter, localIdentitySent |-> TRUE,
               peerIdentityReceived |-> ch.peerIdentityReceived,
               discarded |-> ch.discarded, failed |-> ch.failed]
      BY <2>1 DEF End
    <2>3. n \in End
      BY <2>2 DEF End
    <2> QED
      BY <1>1, <2>2, <2>3 DEF Identity, Close
  <1>2. CASE e = Close
    BY <1>2, DiscardedChannel DEF AfterEncrypt, Identity, Close
  <1>3. CASE e # Identity /\ e # Close
    <2>1. n = [ch EXCEPT !.sendCounter = @ + 1]
      BY <1>3 DEF AfterEncrypt
    <2> QED
      BY <1>3, <2>1 DEF End
  <1> QED
    BY <1>1, <1>2, <1>3

\* decrypt_frame of a frame that opens.
LEMMA DecryptingChannel ==
    ASSUME NEW ch \in End, NEW f \in Frame, Opens(ch, f), NEW n, n = AfterDecrypt(ch, f)
    PROVE  /\ n \in End /\ n.session = ch.session /\ n.role = ch.role
           /\ f.event = Close => ~Usable(n)
           /\ f.event # Close =>
                /\ n.receiveCounter = ch.receiveCounter + 1
                /\ f.event = Identity => n.peerIdentityReceived
                /\ f.event # Identity => n.peerIdentityReceived = ch.peerIdentityReceived
                /\ n.localIdentitySent = ch.localIdentitySent
                /\ n.sendCounter = ch.sendCounter
                /\ n.discarded = ch.discarded /\ n.failed = ch.failed
  <1>1. CASE f.event = Identity
    <2>1. n = [ch EXCEPT !.receiveCounter = @ + 1, !.peerIdentityReceived = TRUE]
      BY <1>1 DEF AfterDecrypt, Identity, Close
    <2>2. n = [session |-> ch.session, role |-> ch.role, sendCounter |-> ch.sendCounter,
               receiveCounter |-> ch.receiveCounter + 1,
               localIdentitySent |-> ch.localIdentitySent, peerIdentityReceived |-> TRUE,
               discarded |-> ch.discarded, failed |-> ch.failed]
      BY <2>1 DEF End
    <2>3. n \in End
      BY <2>2 DEF End
    <2> QED
      BY <1>1, <2>2, <2>3 DEF Identity, Close
  <1>2. CASE f.event = Close
    BY <1>2, DiscardedChannel DEF AfterDecrypt, Identity, Close
  <1>3. CASE f.event # Identity /\ f.event # Close
    <2>1. n = [ch EXCEPT !.receiveCounter = @ + 1]
      BY <1>3 DEF AfterDecrypt
    <2> QED
      BY <1>3, <2>1 DEF End
  <1> QED
    BY <1>1, <1>2, <1>3

-----------------------------------------------------------------------------
(* Changes of a client that keep ClientInv *)

LEMMA EmptySequence == \A S : <<>> \in Seq(S)
  OBVIOUS

LEMMA NoTextsFollow ==
    ASSUME NEW q, q = <<>>
    PROVE  /\ \A n, s : Follow(q, n, s)
           /\ \A i \in 1..Len(q) : q[i].event # Close
  <1>1. \A i \in 1..Len(q) : FALSE
    OBVIOUS
  <1> QED
    BY <1>1 DEF Follow

\* The fields ClientInv says nothing of but their types.
Quiet == {"connected", "pending", "failing", "closes", "pairs", "proofs", "identified", "buffered"}

LEMMA QuietChange ==
    ASSUME NEW k, NEW n, ClientInv(k), Changes(k, n, Quiet), ClientTypes(n)
    PROVE  ClientInv(n)
  <1>1. /\ n.ui = k.ui /\ n.task = k.task /\ n.role = k.role /\ n.pair = k.pair
        /\ n.taskPair = k.taskPair /\ n.participant = k.participant
        /\ n.channel = k.channel /\ n.events = k.events /\ n.comm = k.comm
        /\ n.over = k.over /\ n.shown = k.shown
    BY DEF Changes, Fields, Quiet
  <1>2. IsClient(n)
    BY DEF IsClient, Changes
  <1>3. RoleBelongs(n) /\ TaskBelongs(n)
    BY <1>1 DEF ClientInv, RoleBelongs, TaskBelongs
  <1>4. TextsFollow(n)
    BY <1>1 DEF ClientInv, TextsFollow, Accepted, Watches, InComm
  <1> QED
    BY <1>2, <1>3, <1>4 DEF ClientInv

LEMMA AskingKeeps ==
    ASSUME NEW k, NEW by \in By, ClientInv(k), NEW n, n = Asking(k, by)
    PROVE  ClientInv(n) /\ Changes(k, n, {"pending"})
  <1>1. IsClient(k)
    BY DEF ClientInv
  <1>2. Changes(k, n, {"pending"})
    BY <1>1 DEF Changes, Asking, IsClient, IsRecord, Fields
  <1>3. n.pending = [k.pending EXCEPT ![by] = IF k.connected THEN "sent" ELSE "error"]
    BY <1>1 DEF Asking, IsClient, IsRecord, Fields
  <1>4. k.pending \in [By -> {"none", "sent"} \cup Result]
    BY <1>1 DEF IsClient, ClientTypes
  <1>5. n.pending \in [By -> {"none", "sent"} \cup Result]
    BY <1>3, <1>4 DEF Result
  <1>6. ClientTypes(n)
    BY <1>1, <1>2, <1>5 DEF IsClient, ClientTypes, Changes, Fields
  <1>7. Changes(k, n, Quiet)
    BY <1>2 DEF Changes, Quiet
  <1> QED
    BY <1>2, <1>6, <1>7, QuietChange

LEMMA AnswerKeeps ==
    ASSUME NEW k, NEW by \in By, ClientInv(k), NEW r \in {"none", "sent"} \cup Result,
           NEW n, n = [k EXCEPT !.pending[by] = r]
    PROVE  ClientInv(n) /\ Changes(k, n, {"pending"})
  <1>1. IsClient(k)
    BY DEF ClientInv
  <1>2. Changes(k, n, {"pending"})
    BY <1>1 DEF Changes, IsClient, IsRecord, Fields
  <1>3. n.pending = [k.pending EXCEPT ![by] = r]
    BY <1>1 DEF IsClient, IsRecord, Fields
  <1>4. k.pending \in [By -> {"none", "sent"} \cup Result]
    BY <1>1 DEF IsClient, ClientTypes
  <1>5. n.pending \in [By -> {"none", "sent"} \cup Result]
    BY <1>3, <1>4 DEF Result
  <1>6. ClientTypes(n)
    BY <1>1, <1>2, <1>5 DEF IsClient, ClientTypes, Changes, Fields
  <1>7. Changes(k, n, Quiet)
    BY <1>2 DEF Changes, Quiet
  <1> QED
    BY <1>2, <1>6, <1>7, QuietChange

LEMMA FailPendingKeeps ==
    ASSUME NEW k, ClientInv(k), NEW n, n = FailPending(k)
    PROVE  ClientInv(n) /\ Changes(k, n, {"pending"})
  <1>1. IsClient(k)
    BY DEF ClientInv
  <1>2. Changes(k, n, {"pending"})
    BY <1>1 DEF Changes, FailPending, IsClient, IsRecord, Fields
  <1>3. k.pending \in [By -> {"none", "sent"} \cup Result]
    BY <1>1 DEF IsClient, ClientTypes
  <1>4. n.pending = [by \in By |-> IF k.pending[by] = "sent" THEN "error" ELSE k.pending[by]]
    BY <1>1, <1>3 DEF FailPending, IsClient, IsRecord, Fields
  <1>5. n.pending \in [By -> {"none", "sent"} \cup Result]
    BY <1>3, <1>4 DEF Result
  <1>6. ClientTypes(n)
    BY <1>1, <1>2, <1>5 DEF IsClient, ClientTypes, Changes, Fields
  <1>7. Changes(k, n, Quiet)
    BY <1>2 DEF Changes, Quiet
  <1> QED
    BY <1>2, <1>6, <1>7, QuietChange

\* The session state is gone: what remains of the comm is what the screen has.
LEMMA DiscardKeeps ==
    ASSUME NEW k, ClientInv(k), NEW n, n = DiscardState(k)
    PROVE  /\ ClientInv(n)
           /\ Changes(k, n, {"role", "participant", "pair", "channel", "buffered"})
           /\ n.role = Nobody /\ ~n.participant /\ n.pair = 0 /\ n.channel = NoChannel
           /\ n.buffered = <<>>
  <1>1. IsClient(k)
    BY DEF ClientInv
  <1>2. n = [k EXCEPT !.role = Nobody, !.participant = FALSE, !.pair = 0,
                      !.channel = NoChannel, !.buffered = <<>>]
    BY DEF DiscardState
  <1>3. Changes(k, n, {"role", "participant", "pair", "channel", "buffered"})
    BY <1>1, <1>2 DEF Changes, IsClient, IsRecord, Fields
  <1>4. /\ n.role = Nobody /\ n.participant = FALSE /\ n.pair = 0 /\ n.channel = NoChannel
        /\ n.buffered = <<>>
    BY <1>1, <1>2, ZenonT(60) DEF IsClient, IsRecord, Fields
  <1>5. /\ n.ui = k.ui /\ n.task = k.task /\ n.taskPair = k.taskPair
        /\ n.events = k.events /\ n.comm = k.comm /\ n.over = k.over /\ n.shown = k.shown
    BY <1>3 DEF Changes, Fields
  <1>6. n.buffered \in Seq(Frame) /\ n.pair \in Pair
    BY <1>4 DEF Pair
  <1>7. ClientTypes(n)
    BY <1>1, <1>3, <1>4, <1>6, NoChannelIsEnd DEF IsClient, ClientTypes, Changes, Fields
  <1>8. RoleBelongs(n)
    BY <1>4 DEF RoleBelongs
  <1>9. TaskBelongs(n)
    BY <1>4, <1>5 DEF ClientInv, TaskBelongs
  <1>10. TextsFollow(n)
    BY <1>4, <1>5 DEF ClientInv, TextsFollow, Accepted, Watches, InComm
  <1> QED
    BY <1>3, <1>4, <1>7, <1>8, <1>9, <1>10 DEF ClientInv, IsClient, Changes

LEMMA FailsKeeps ==
    ASSUME NEW k, ClientInv(k), k.task # "none", NEW n, n = Fails(k)
    PROVE  ClientInv(n) /\ Changes(k, n, {"task"}) /\ n.task = "failed"
  <1>1. IsClient(k)
    BY DEF ClientInv
  <1>2. Changes(k, n, {"task"}) /\ n.task = "failed"
    BY <1>1 DEF Fails, Changes, IsClient, IsRecord, Fields
  <1>3. /\ n.ui = k.ui /\ n.role = k.role /\ n.pair = k.pair
        /\ n.taskPair = k.taskPair /\ n.participant = k.participant
        /\ n.channel = k.channel /\ n.events = k.events /\ n.comm = k.comm
        /\ n.over = k.over /\ n.shown = k.shown
    BY <1>2 DEF Changes, Fields
  <1>4. "failed" \in Task
    BY DEF Task
  <1>5. ClientTypes(n)
    BY <1>1, <1>2, <1>4 DEF IsClient, ClientTypes, Changes, Fields
  <1>6. RoleBelongs(n) /\ TaskBelongs(n)
    BY <1>2, <1>3 DEF ClientInv, RoleBelongs, TaskBelongs
  <1>7. TextsFollow(n)
    BY <1>2, <1>3 DEF ClientInv, TextsFollow, Accepted, Watches, InComm
  <1> QED
    BY <1>2, <1>5, <1>6, <1>7 DEF ClientInv, IsClient, Changes

LEMMA ToHubKeeps ==
    ASSUME NEW k, ClientInv(k), NEW n, n = ToHub(k)
    PROVE  /\ ClientInv(n)
           /\ Changes(k, n, {"ui", "task", "comm", "over", "shown", "taskPair"})
           /\ n.ui = "hub" /\ n.task = "none" /\ n.taskPair = 0 /\ n.comm = 0
  <1>1. IsClient(k)
    BY DEF ClientInv
  <1>2. n = [k EXCEPT !.ui = "hub", !.task = "none", !.comm = 0, !.over = FALSE,
                      !.shown = <<>>, !.taskPair = 0]
    BY DEF ToHub
  <1>3. Changes(k, n, {"ui", "task", "comm", "over", "shown", "taskPair"})
    BY <1>1, <1>2 DEF Changes, IsClient, IsRecord, Fields
  <1>4. /\ n.ui = "hub" /\ n.task = "none" /\ n.comm = 0 /\ ~n.over
        /\ n.shown = <<>> /\ n.taskPair = 0 /\ n.over \in BOOLEAN
    BY <1>1, <1>2, ZenonT(60) DEF IsClient, IsRecord, Fields
  <1>5. n.role = k.role /\ n.pair = k.pair /\ n.participant = k.participant
        /\ n.channel = k.channel /\ n.events = k.events
    BY <1>3 DEF Changes, Fields
  <1>6. n.shown \in Seq(Frame) /\ n.comm \in Pair /\ n.taskPair \in Pair
        /\ n.ui \in Screen /\ n.task \in Task
    BY <1>4 DEF Pair, Screen, Task
  <1>7. ClientTypes(n)
    BY <1>1, <1>3, <1>4, <1>6 DEF IsClient, ClientTypes, Changes, Fields
  <1>8. RoleBelongs(n) /\ TaskBelongs(n)
    BY <1>4, <1>5 DEF ClientInv, RoleBelongs, TaskBelongs
  <1>9. TextsFollow(n)
    BY <1>4, <1>5, NoTextsFollow DEF ClientInv, TextsFollow, Watches, InComm
  <1> QED
    BY <1>3, <1>4, <1>7, <1>8, <1>9 DEF ClientInv, IsClient, Changes

PreparedFields ==
    {"ui", "role", "participant", "pair", "channel", "buffered", "identified", "pairs",
     "proofs", "events", "closes"}

LEMMA PrepareKeeps ==
    ASSUME NEW k, ClientInv(k), k.task = "none", k.shown = <<>>, NEW r \in Role,
           NEW u \in {"starting", "joining"}, NEW n, n = Prepare([k EXCEPT !.ui = u], r)
    PROVE  ClientInv(n) /\ Changes(k, n, PreparedFields) /\ n.pair = 0 /\ n.pairs = <<>>
  <1>1. IsClient(k)
    BY DEF ClientInv
  <1>2. n = [k EXCEPT !.ui = u, !.role = r, !.participant = TRUE, !.pair = 0,
                      !.channel = NoChannel, !.buffered = <<>>, !.identified = FALSE,
                      !.pairs = <<>>, !.proofs = <<>>, !.events = <<>>, !.closes = <<>>]
    BY <1>1 DEF Prepare, IsClient, IsRecord, Fields
  <1>3. Changes(k, n, PreparedFields)
    BY <1>1, <1>2 DEF Changes, IsClient, IsRecord, Fields, PreparedFields
  <1>4. /\ n.ui = u /\ n.role = r /\ n.participant = TRUE /\ n.pair = 0
        /\ n.channel = NoChannel /\ n.buffered = <<>> /\ n.identified = FALSE
        /\ n.pairs = <<>> /\ n.proofs = <<>> /\ n.events = <<>> /\ n.closes = <<>>
    BY <1>1, <1>2, ZenonT(60) DEF IsClient, IsRecord, Fields
  <1>5. n.task = "none" /\ n.shown = <<>> /\ n.comm = k.comm /\ n.over = k.over
        /\ n.taskPair = k.taskPair
    BY <1>3 DEF Changes, Fields, PreparedFields
  <1>6. /\ n.buffered \in Seq(Frame) /\ n.pairs \in Seq(PairFrame)
        /\ n.proofs \in Seq(ProofFrame) /\ n.events \in Seq(Frame)
        /\ n.closes \in Seq(Reason)
    BY <1>4, EmptySequence
  <1>7. /\ n.ui \in Screen /\ n.pair \in Pair /\ n.role \in Role \cup {Nobody}
        /\ n.channel \in End /\ n.participant \in BOOLEAN /\ n.identified \in BOOLEAN
    BY <1>4, NoChannelIsEnd DEF Screen, Pair
  <1>8. ClientTypes(n)
    BY <1>1, <1>3, <1>6, <1>7 DEF IsClient, ClientTypes, Changes, Fields, PreparedFields
  <1>9. r # Nobody
    BY DEF Role, Nobody
  <1>10. RoleBelongs(n)
    BY <1>4, <1>9 DEF RoleBelongs
  <1>11. TaskBelongs(n)
    BY <1>4, <1>5 DEF TaskBelongs
  <1>12. TextsFollow(n)
    BY <1>4, <1>5, NoTextsFollow DEF TextsFollow, Watches, InComm
  <1> QED
    BY <1>3, <1>4, <1>8, <1>10, <1>11, <1>12 DEF ClientInv, IsClient, Changes

\* The reader ends: what has been read stays, and the channel is not usable.
LEMMA DiesKeeps ==
    ASSUME NEW k, ClientInv(k), NEW n, n = Dies(k)
    PROVE  /\ ClientInv(n) /\ Changes(k, n, {"connected", "channel", "closes"})
           /\ ~n.connected
  <1>1. IsClient(k)
    BY DEF ClientInv
  <1> DEFINE ch == IF k.channel = NoChannel THEN k.channel ELSE Discard(k.channel)
  <1>2. n = [k EXCEPT !.connected = FALSE, !.channel = ch,
                      !.closes = Append(@, "server_disconnect")]
    BY DEF Dies
  <1> HIDE DEF ch
  <1>3. Changes(k, n, {"connected", "channel", "closes"})
    BY <1>1, <1>2 DEF Changes, IsClient, IsRecord, Fields
  <1>4. n.connected = FALSE /\ n.channel = ch /\ n.closes = Append(k.closes, "server_disconnect")
    BY <1>1, <1>2 DEF IsClient, IsRecord, Fields
  <1>5. /\ n.ui = k.ui /\ n.task = k.task /\ n.role = k.role /\ n.pair = k.pair
        /\ n.taskPair = k.taskPair /\ n.participant = k.participant
        /\ n.events = k.events /\ n.comm = k.comm
        /\ n.over = k.over /\ n.shown = k.shown
    BY <1>3 DEF Changes, Fields
  <1>6. k.channel \in End /\ k.closes \in Seq(Reason)
    BY <1>1 DEF IsClient, ClientTypes
  <1>7. /\ ch \in End
        /\ k.channel = NoChannel => ch = NoChannel
        /\ k.channel # NoChannel =>
              ch.session = k.channel.session /\ ch.role = k.channel.role /\ ~Usable(ch)
    BY <1>6, DiscardedChannel DEF ch
  <1>8. n.closes \in Seq(Reason)
    <2>1. "server_disconnect" \in Reason
      BY DEF Reason
    <2> QED
      BY <1>4, <1>6, <2>1
  <1>9. ClientTypes(n)
    BY <1>1, <1>3, <1>4, <1>7, <1>8 DEF IsClient, ClientTypes, Changes, Fields
  <1>10. RoleBelongs(n) /\ TaskBelongs(n)
    BY <1>4, <1>5, <1>7 DEF ClientInv, RoleBelongs, TaskBelongs
  <1>11. TextsFollow(n)
    BY <1>4, <1>5, <1>7 DEF ClientInv, TextsFollow, Accepted, Watches, InComm
  <1> QED
    BY <1>3, <1>4, <1>9, <1>10, <1>11 DEF ClientInv, IsClient, Changes

LEMMA FollowAppend ==
    ASSUME NEW S, NEW q \in Seq(S), NEW f \in S, NEW n \in Nat, NEW s, Follow(q, n, s),
           f.event # Close => f.session = s /\ f.counter = n + Len(q) + 1
    PROVE  Follow(Append(q, f), n, s)
  <1>1. SUFFICES ASSUME NEW i \in 1..Len(Append(q, f)), Append(q, f)[i].event # Close
                 PROVE  Append(q, f)[i].session = s /\ Append(q, f)[i].counter = n + i
    BY DEF Follow
  <1>2. Len(Append(q, f)) = Len(q) + 1 /\ Len(q) \in Nat
    OBVIOUS
  <1>3. CASE i = Len(q) + 1
    <2>1. Append(q, f)[i] = f
      BY <1>3
    <2> QED
      BY <1>1, <1>2, <1>3, <2>1
  <1>4. CASE i \in 1..Len(q)
    <2>1. Append(q, f)[i] = q[i]
      BY <1>4
    <2> QED
      BY <1>1, <1>4, <2>1 DEF Follow
  <1> QED
    BY <1>2, <1>3, <1>4

\* The channel accepts a frame: the identity first, then the texts in order, and
\* nothing after the close.
LEMMA AcceptingKeeps ==
    ASSUME NEW k, ClientInv(k), k.channel # NoChannel, Usable(k.channel),
           NEW f \in Frame, Opens(k.channel, f), NEW n, n = Decrypted(k, f)
    PROVE  /\ ClientInv(n) /\ Changes(k, n, {"channel", "identified", "events"})
           /\ n.channel = AfterDecrypt(k.channel, f)
           /\ n.channel # NoChannel
  <1>1. IsClient(k)
    BY DEF ClientInv
  <1> DEFINE ch == AfterDecrypt(k.channel, f)
  <1>2. n = IF f.event = Identity THEN [k EXCEPT !.channel = ch, !.identified = TRUE]
            ELSE [k EXCEPT !.channel = ch, !.events = Append(@, f)]
    BY <1>1 DEF Decrypted, IsClient, IsRecord, Fields
  <1>3. k.channel \in End /\ k.events \in Seq(Frame) /\ k.shown \in Seq(Frame)
    BY <1>1 DEF IsClient, ClientTypes
  <1>4. /\ ch \in End /\ ch.session = k.channel.session /\ ch.role = k.channel.role
        /\ f.event = Close => ~Usable(ch)
        /\ f.event # Close =>
              /\ ch.receiveCounter = k.channel.receiveCounter + 1
              /\ f.event = Identity => ch.peerIdentityReceived
              /\ f.event # Identity => ch.peerIdentityReceived = k.channel.peerIdentityReceived
    BY <1>3, DecryptingChannel
  <1> HIDE DEF ch
  <1>5. Changes(k, n, {"channel", "identified", "events"})
    BY <1>1, <1>2 DEF Changes, IsClient, IsRecord, Fields
  <1>6. /\ n.channel = ch
        /\ f.event = Identity => n.events = k.events /\ n.identified = TRUE
        /\ f.event # Identity => n.events = Append(k.events, f) /\ n.identified = k.identified
    BY <1>1, <1>2 DEF IsClient, IsRecord, Fields
  <1>7. /\ n.ui = k.ui /\ n.task = k.task /\ n.role = k.role /\ n.pair = k.pair
        /\ n.taskPair = k.taskPair /\ n.participant = k.participant
        /\ n.comm = k.comm /\ n.over = k.over /\ n.shown = k.shown
    BY <1>5 DEF Changes, Fields
  <1>8. ClientTypes(n)
    <2>1. n.events \in Seq(Frame) /\ n.identified \in BOOLEAN /\ n.channel \in End
      <3>1. n.events \in Seq(Frame)
        <4>1. Append(k.events, f) \in Seq(Frame)
          BY <1>3
        <4> QED
          BY <1>3, <1>6, <4>1
      <3>2. n.identified \in BOOLEAN
        BY <1>1, <1>6 DEF IsClient, ClientTypes
      <3> QED
        BY <1>4, <1>6, <3>1, <3>2
    <2> QED
      BY <1>1, <1>5, <2>1 DEF IsClient, ClientTypes, Changes, Fields
  <1>9. k.channel.session # 0 /\ ch # NoChannel
    <2>1. k.channel.session # 0
      BY DEF ClientInv, RoleBelongs
    <2> QED
      BY <1>4, <2>1, NoChannelIsEnd
  <1>10. RoleBelongs(n) /\ TaskBelongs(n)
    BY <1>4, <1>6, <1>7, <1>9 DEF ClientInv, RoleBelongs, TaskBelongs
  <1>11. ASSUME k.task # "none" \/ Watches(k)
         PROVE  Accepted(n)
    <2>1. Accepted(k)
      BY <1>11 DEF ClientInv, TextsFollow
    <2>2. /\ f.session = k.channel.session /\ f.counter = k.channel.receiveCounter
          /\ ValidEvent(k.channel, f.event)
      BY DEF Opens
    <2>3. CASE f.event = Identity
      <3>1. ~k.channel.peerIdentityReceived
        BY <2>2, <2>3, ChannelAssumption DEF ValidEvent, Identity, Close
      <3>2. k.channel.receiveCounter = 0 /\ k.events = <<>> /\ k.shown = <<>>
        BY <2>1, <3>1 DEF Accepted
      <3>3. ch.receiveCounter = 1 /\ ch.peerIdentityReceived
        BY <1>4, <2>3, <3>2 DEF Identity, Close
      <3>4. Len(n.shown) = 0 /\ Len(n.events) = 0 /\ n.events = <<>>
        BY <1>6, <1>7, <2>3, <3>2
      <3> QED
        BY <1>6, <3>3, <3>4, NoTextsFollow DEF Accepted
    <2>4. CASE f.event = Close
      <3>1. Follow(k.events, Len(k.shown), ch.session)
        BY <1>4, <2>1 DEF Accepted
      <3>2. Follow(n.events, Len(n.shown), ch.session)
        <4>1. Len(k.shown) \in Nat /\ f.event = Close
          BY <1>3, <2>4
        <4>2. Follow(Append(k.events, f), Len(k.shown), ch.session)
          BY <1>3, <3>1, <4>1, FollowAppend
        <4> QED
          BY <1>6, <1>7, <2>4, <4>2 DEF Identity, Close
      <3> QED
        BY <1>4, <1>6, <2>4, <3>2 DEF Accepted
    <2>5. CASE f.event # Identity /\ f.event # Close
      <3>1. k.channel.peerIdentityReceived
        BY <2>2, <2>5 DEF ValidEvent
      <3>2. k.channel.receiveCounter = Len(k.shown) + Len(k.events) + 1
        BY <2>1, <3>1 DEF Accepted
      <3>3. Follow(k.events, Len(k.shown), ch.session)
        BY <1>4, <2>1 DEF Accepted
      <3>4. f.session = ch.session /\ f.counter = Len(k.shown) + Len(k.events) + 1
        BY <1>4, <2>2, <3>2
      <3>5. Follow(n.events, Len(n.shown), ch.session)
        <4>1. Len(k.shown) \in Nat
          BY <1>3
        <4>2. Follow(Append(k.events, f), Len(k.shown), ch.session)
          BY <1>3, <3>3, <3>4, <4>1, FollowAppend
        <4> QED
          BY <1>6, <1>7, <2>5, <4>2
      <3>6. Len(n.events) = Len(k.events) + 1
        BY <1>3, <1>6, <2>5
      <3>7. ch.receiveCounter = Len(n.shown) + Len(n.events) + 1 /\ ch.peerIdentityReceived
        <4>1. Len(k.shown) \in Nat /\ Len(k.events) \in Nat
          BY <1>3
        <4>2. ch.receiveCounter = k.channel.receiveCounter + 1 /\ ch.peerIdentityReceived
          BY <1>4, <2>5, <3>1
        <4>3. Len(n.shown) = Len(k.shown)
          BY <1>7
        <4>4. ch.receiveCounter = Len(n.shown) + Len(n.events) + 1
          <5>1. ch.receiveCounter = (Len(k.shown) + Len(k.events) + 1) + 1
            BY <3>2, <4>2
          <5>2. \A a, b \in Nat : (a + b + 1) + 1 = a + (b + 1) + 1
            OBVIOUS
          <5>3. (Len(k.shown) + Len(k.events) + 1) + 1 = Len(k.shown) + (Len(k.events) + 1) + 1
            BY <4>1, <5>2, Zenon
          <5> QED
            BY <3>6, <4>3, <5>1, <5>3
        <4> QED
          BY <4>2, <4>4
      <3> QED
        BY <1>6, <3>5, <3>7 DEF Accepted
    <2> QED
      BY <2>3, <2>4, <2>5
  <1>12. TextsFollow(n)
    <2>1. Watches(n) = Watches(k)
      BY <1>7 DEF Watches, InComm
    <2>2. k.participant => k.channel = NoChannel
      BY DEF ClientInv, TextsFollow
    <2>3. Watches(n) => Follow(n.events, Len(n.shown), n.comm) /\ n.channel.session = n.comm
      <3>1. Watches(k) => k.channel.session = k.comm
        BY DEF ClientInv, TextsFollow
      <3>2. Watches(n) => n.channel.session = n.comm
        BY <1>4, <1>6, <1>7, <2>1, <3>1
      <3> QED
        BY <1>11, <2>1, <3>2 DEF Accepted
    <2>4. n.task # "none" \/ Watches(n) => Accepted(n)
      BY <1>7, <1>11, <2>1
    <2> QED
      BY <1>7, <2>2, <2>3, <2>4 DEF ClientInv, TextsFollow, InComm
  <1> QED
    BY <1>5, <1>6, <1>8, <1>9, <1>10, <1>12 DEF ClientInv, IsClient, Changes, ch

DecryptedFields ==
    {"closes", "failing", "role", "participant", "pair", "channel", "buffered", "identified",
     "events"}

LEMMA DecryptedKeeps ==
    ASSUME NEW k, ClientInv(k), k.channel # NoChannel, Usable(k.channel),
           NEW f \in Frame, NEW n, n = Decrypted(k, f)
    PROVE  /\ ClientInv(n) /\ Changes(k, n, DecryptedFields)
           /\ k.buffered = <<>> => n.buffered = <<>>
           /\ Opens(k.channel, f) =>
                 /\ Changes(k, n, {"channel", "identified", "events"})
                 /\ n.channel = AfterDecrypt(k.channel, f) /\ n.channel # NoChannel
           /\ ~Opens(k.channel, f) =>
                 /\ n.failing = k.pair /\ n.closes = Append(k.closes, "integrity_failure")
                 /\ n.role = Nobody /\ n.pair = 0 /\ n.channel = NoChannel
                 /\ n.identified = k.identified /\ n.events = k.events
  <1>1. IsClient(k)
    BY DEF ClientInv
  <1>2. CASE Opens(k.channel, f)
    <2>1. ClientInv(n) /\ Changes(k, n, {"channel", "identified", "events"})
          /\ n.channel = AfterDecrypt(k.channel, f) /\ n.channel # NoChannel
      BY <1>2, AcceptingKeeps
    <2>2. Changes(k, n, DecryptedFields) /\ n.buffered = k.buffered
      BY <2>1 DEF Changes, Fields, DecryptedFields
    <2> QED
      BY <1>2, <2>1, <2>2
  <1>3. CASE ~Opens(k.channel, f)
    <2> DEFINE m == [k EXCEPT !.closes = Append(@, "integrity_failure"), !.failing = k.pair]
    <2>1. n = DiscardState(m)
      BY <1>3 DEF Decrypted
    <2>2. Changes(k, m, {"closes", "failing"})
      BY <1>1 DEF Changes, IsClient, IsRecord, Fields
    <2>3. m.closes = Append(k.closes, "integrity_failure") /\ m.failing = k.pair
      BY <1>1 DEF IsClient, IsRecord, Fields
    <2> HIDE DEF m
    <2>4. ClientTypes(m)
      <3>1. k.closes \in Seq(Reason) /\ "integrity_failure" \in Reason
        BY <1>1 DEF IsClient, ClientTypes, Reason
      <3>2. m.closes \in Seq(Reason)
        BY <2>3, <3>1
      <3> QED
        BY <1>1, <2>2, <2>3, <3>2 DEF IsClient, ClientTypes, Changes, Fields
    <2>5. ClientInv(m)
      <3>1. Changes(k, m, Quiet)
        BY <2>2 DEF Changes, Quiet
      <3> QED
        BY <2>4, <3>1, QuietChange
    <2>6. ClientInv(n) /\ Changes(m, n, {"role", "participant", "pair", "channel", "buffered"})
          /\ n.role = Nobody /\ n.pair = 0 /\ n.channel = NoChannel /\ n.buffered = <<>>
      BY <2>1, <2>5, DiscardKeeps
    <2>7. Changes(k, n, DecryptedFields)
      BY <2>2, <2>6 DEF Changes, Fields, DecryptedFields
    <2>8. n.closes = Append(k.closes, "integrity_failure") /\ n.failing = k.pair
          /\ n.identified = k.identified /\ n.events = k.events
      BY <2>2, <2>3, <2>6 DEF Changes, Fields
    <2> QED
      BY <1>3, <2>6, <2>7, <2>8
  <1> QED
    BY <1>2, <1>3

\* Where complete_session aborts, nothing that ClientInv relates to it is left.
LEMMA AbortingKeeps ==
    ASSUME NEW k, ClientInv(k), k.task # "none", k.taskPair # 0,
           NEW n, n = [k EXCEPT !.task = "aborting"]
    PROVE  ClientInv(n) /\ Changes(k, n, {"task"}) /\ n.task = "aborting"
  <1>1. IsClient(k)
    BY DEF ClientInv
  <1>2. Changes(k, n, {"task"}) /\ n.task = "aborting"
    BY <1>1 DEF Changes, IsClient, IsRecord, Fields
  <1>3. /\ n.ui = k.ui /\ n.role = k.role /\ n.pair = k.pair
        /\ n.taskPair = k.taskPair /\ n.participant = k.participant
        /\ n.channel = k.channel /\ n.events = k.events /\ n.comm = k.comm
        /\ n.over = k.over /\ n.shown = k.shown
    BY <1>2 DEF Changes, Fields
  <1>4. "aborting" \in Task
    BY DEF Task
  <1>5. ClientTypes(n)
    BY <1>1, <1>2, <1>4 DEF IsClient, ClientTypes, Changes, Fields
  <1>6. RoleBelongs(n) /\ TaskBelongs(n)
    BY <1>2, <1>3 DEF ClientInv, RoleBelongs, TaskBelongs
  <1>7. TextsFollow(n)
    BY <1>2, <1>3 DEF ClientInv, TextsFollow, Accepted, Watches, InComm
  <1> QED
    BY <1>2, <1>5, <1>6, <1>7 DEF ClientInv, IsClient, Changes

DrainedFields == DecryptedFields \cup {"task"}

LEMMA DrainedOntoKeeps ==
    ASSUME NEW k, ClientInv(k), k.task \in {"naming", "aborting"}, k.taskPair # 0,
           NEW f \in Frame, NEW n, n = DrainedOnto(k, f)
    PROVE  /\ ClientInv(n) /\ Changes(k, n, DrainedFields)
           /\ n.task \in {"naming", "aborting"} /\ n.taskPair = k.taskPair
           /\ k.buffered = <<>> => n.buffered = <<>>
  <1>1. CASE k.channel # NoChannel /\ Usable(k.channel)
    <2>1. n = Decrypted(k, f)
      BY <1>1 DEF DrainedOnto
    <2>2. ClientInv(n) /\ Changes(k, n, DecryptedFields) /\ (k.buffered = <<>> => n.buffered = <<>>)
      BY <1>1, <2>1, DecryptedKeeps
    <2> QED
      BY <2>2 DEF Changes, Fields, DecryptedFields, DrainedFields
  <1>2. CASE ~(k.channel # NoChannel /\ Usable(k.channel))
    <2>1. n = [k EXCEPT !.task = "aborting"]
      BY <1>2 DEF DrainedOnto
    <2>2. ClientInv(n) /\ Changes(k, n, {"task"}) /\ n.task = "aborting"
      BY <2>1, AbortingKeeps
    <2> QED
      BY <2>2 DEF Changes, Fields, DrainedFields, DecryptedFields
  <1> QED
    BY <1>1, <1>2

LEMMA DrainedKeeps ==
    ASSUME NEW k, ClientInv(k), k.task \in {"naming", "aborting"}, k.taskPair # 0,
           NEW n, n = Drained(k)
    PROVE  /\ ClientInv(n) /\ Changes(k, n, DrainedFields)
           /\ n.task \in {"naming", "aborting"} /\ n.taskPair = k.taskPair
           /\ n.buffered = <<>>
  <1>1. IsClient(k) /\ k.buffered \in Seq(Frame)
    BY DEF ClientInv, IsClient, ClientTypes
  <1> DEFINE N == Len(k.buffered)
             K == [k EXCEPT !.buffered = <<>>]
  <1>2. N \in Nat /\ \A i \in 1..N : k.buffered[i] \in Frame
    BY <1>1
  <1>3. PICK g : /\ g = [i \in 0..N |-> IF i = 0 THEN K ELSE DrainedOnto(g[i - 1], k.buffered[i])]
                 /\ Drained(k) = g[N]
    BY <1>2, DrainedByFrame
  <1> DEFINE Good(d) == /\ ClientInv(d) /\ Changes(k, d, DrainedFields)
                        /\ d.task \in {"naming", "aborting"} /\ d.taskPair = k.taskPair
                        /\ d.buffered = <<>>
             S == {i \in Nat : i \in 0..N => Good(g[i])}
  <1>4. 0 \in S
    <2>1. Changes(k, K, {"buffered"}) /\ K.buffered = <<>>
      BY <1>1 DEF Changes, IsClient, IsRecord, Fields
    <2> HIDE DEF K
    <2>2. ClientTypes(K)
      BY <1>1, <2>1, EmptySequence DEF IsClient, ClientTypes, Changes, Fields
    <2>3. ClientInv(K)
      <3>1. Changes(k, K, Quiet)
        BY <2>1 DEF Changes, Quiet
      <3> QED
        BY <2>2, <3>1, QuietChange
    <2>4. Good(K)
      BY <2>1, <2>3 DEF Changes, Fields, DrainedFields, DecryptedFields
    <2>5. g[0] = K
      BY <1>2, <1>3
    <2> QED
      BY <2>4, <2>5
  <1>5. ASSUME NEW i \in Nat, i \in S PROVE i + 1 \in S
    <2>1. SUFFICES ASSUME i + 1 \in 0..N PROVE Good(g[i + 1])
      OBVIOUS
    <2>2. i \in 0..N /\ i + 1 \in 1..N
      BY <1>2, <2>1
    <2>3. Good(g[i])
      BY <1>5, <2>2
    <2>4. g[i + 1] = DrainedOnto(g[i], k.buffered[i + 1])
      <3>1. i + 1 # 0 /\ (i + 1) - 1 = i
        OBVIOUS
      <3> QED
        BY <1>3, <2>1, <3>1
    <2>5. k.buffered[i + 1] \in Frame
      BY <1>2, <2>2
    <2>6. /\ ClientInv(g[i + 1]) /\ Changes(g[i], g[i + 1], DrainedFields)
          /\ g[i + 1].task \in {"naming", "aborting"} /\ g[i + 1].taskPair = k.taskPair
          /\ g[i + 1].buffered = <<>>
      BY <2>3, <2>4, <2>5, DrainedOntoKeeps
    <2>7. Changes(k, g[i + 1], DrainedFields)
      BY <2>3, <2>6 DEF Changes
    <2> QED
      BY <2>6, <2>7
  <1>6. N \in S
    <2> HIDE DEF S
    <2> QED
      BY <1>2, <1>4, <1>5, SetInduction
  <1> QED
    BY <1>2, <1>3, <1>6

\* The screen moves on, and no watcher is started.
LEMMA ScreenKeeps ==
    ASSUME NEW k, ClientInv(k), NEW n, Changes(k, n, {"ui", "over"}),
           n.ui \in Screen \ {"starting", "joining"}, n.over \in BOOLEAN,
           k.task # "none" => n.ui \in {"waiting", "cancelling", "settling", "connecting"},
           n.ui \in {"saying bye", "closing"} => k.taskPair # 0,
           ~InComm(n) /\ n.ui # "crashed" => k.shown = <<>>,
           Watches(n) => Watches(k)
    PROVE  ClientInv(n)
  <1>1. IsClient(k)
    BY DEF ClientInv
  <1>2. /\ n.task = k.task /\ n.role = k.role /\ n.pair = k.pair
        /\ n.taskPair = k.taskPair /\ n.participant = k.participant
        /\ n.channel = k.channel /\ n.events = k.events /\ n.comm = k.comm /\ n.shown = k.shown
    BY DEF Changes, Fields
  <1>3. ClientTypes(n)
    BY <1>1 DEF IsClient, ClientTypes, Changes, Fields
  <1>4. RoleBelongs(n)
    BY <1>2 DEF ClientInv, RoleBelongs
  <1>5. TaskBelongs(n)
    BY <1>2 DEF ClientInv, TaskBelongs
  <1>6. TextsFollow(n)
    BY <1>2 DEF ClientInv, TextsFollow, Accepted
  <1> QED
    BY <1>3, <1>4, <1>5, <1>6 DEF ClientInv, IsClient, Changes

-----------------------------------------------------------------------------
(* What a client reads *)

\* Read, of the frame f.
Heard(k, f) ==
    CASE f.type = "answer" -> ReadAnswer(k, f)
      [] f.type = "pair" -> [k EXCEPT !.pairs = Append(@, f)]
      [] f.type = "proof" -> [k EXCEPT !.proofs = Append(@, f)]
      [] f.type = "data" -> ReadData(k, f.frame)
      [] f.type = "close" -> ReadClose(k, f.pair)
      [] f.type = "eof" -> Dies(k)

LEMMA DownFrameKinds ==
    ASSUME NEW f \in DownFrame
    PROVE  \/ f.type = "eof" /\ f = Eof
           \/ f.type = "answer" /\ f \in AnswerFrame
           \/ f.type = "pair" /\ f \in PairFrame
           \/ f.type = "proof" /\ f \in ProofFrame
           \/ f.type = "data" /\ f \in RelayedFrame
           \/ f.type = "close" /\ f \in EndFrame
  BY DEF DownFrame, Eof, AnswerFrame, PairFrame, ProofFrame, RelayedFrame, EndFrame

LEMMA ReadAnswerKeeps ==
    ASSUME NEW k, ClientInv(k), NEW f \in AnswerFrame, NEW n, n = ReadAnswer(k, f)
    PROVE  ClientInv(n) /\ Changes(k, n, {"connected", "channel", "closes", "pending"})
  <1>1. f.by \in By /\ f.result \in {"none", "sent"} \cup Result
    BY DEF AnswerFrame
  <1>2. CASE ~f.late
    <2>1. n = [k EXCEPT !.pending[f.by] = f.result]
      BY <1>2 DEF ReadAnswer
    <2>2. ClientInv(n) /\ Changes(k, n, {"pending"})
      BY <1>1, <2>1, AnswerKeeps
    <2> QED
      BY <2>2 DEF Changes
  <1>3. CASE f.late /\ f.result = "error"
    <2>1. n = k
      BY <1>3 DEF ReadAnswer
    <2> QED
      BY <2>1 DEF ClientInv, IsClient, Changes
  <1>4. CASE f.late /\ f.result # "error"
    <2>1. n = Dies(k) \/ n = FailPending(Dies(k))
      BY <1>4 DEF ReadAnswer
    <2>2. ClientInv(Dies(k)) /\ Changes(k, Dies(k), {"connected", "channel", "closes"})
      BY DiesKeeps
    <2>3. CASE n = Dies(k)
      BY <2>2, <2>3 DEF Changes
    <2>4. CASE n = FailPending(Dies(k))
      <3>1. ClientInv(n) /\ Changes(Dies(k), n, {"pending"})
        BY <2>2, <2>4, FailPendingKeeps
      <3> QED
        BY <2>2, <3>1 DEF Changes
    <2> QED
      BY <2>1, <2>3, <2>4
  <1> QED
    BY <1>2, <1>3, <1>4

LEMMA ReadDataKeeps ==
    ASSUME NEW k, ClientInv(k), NEW f \in Frame, NEW n, n = ReadData(k, f)
    PROVE  ClientInv(n) /\ Changes(k, n, {"connected", "pending"} \cup DecryptedFields)
  <1>1. IsClient(k)
    BY DEF ClientInv
  <1>2. CASE k.pair # 0 /\ f.session # k.pair
    <2>1. n = FailPending(Dies(k))
      BY <1>2 DEF ReadData
    <2>2. ClientInv(Dies(k)) /\ Changes(k, Dies(k), {"connected", "channel", "closes"})
      BY DiesKeeps
    <2>3. ClientInv(n) /\ Changes(Dies(k), n, {"pending"})
      BY <2>1, <2>2, FailPendingKeeps
    <2> QED
      BY <2>2, <2>3 DEF Changes, DecryptedFields
  <1>3. CASE ~(k.pair # 0 /\ f.session # k.pair) /\ k.channel = NoChannel
    <2>1. n = [k EXCEPT !.buffered = Append(@, f)]
      BY <1>3 DEF ReadData
    <2>2. Changes(k, n, {"buffered"}) /\ n.buffered = Append(k.buffered, f)
      BY <1>1, <2>1 DEF Changes, IsClient, IsRecord, Fields
    <2>3. n.buffered \in Seq(Frame)
      <3>1. k.buffered \in Seq(Frame)
        BY <1>1 DEF IsClient, ClientTypes
      <3> QED
        BY <2>2, <3>1
    <2>4. ClientTypes(n)
      BY <1>1, <2>2, <2>3 DEF IsClient, ClientTypes, Changes, Fields
    <2>5. Changes(k, n, Quiet)
      BY <2>2 DEF Changes, Quiet
    <2>6. ClientInv(n)
      BY <2>4, <2>5, QuietChange
    <2> QED
      BY <2>2, <2>6 DEF Changes, DecryptedFields
  <1>4. CASE ~(k.pair # 0 /\ f.session # k.pair) /\ k.channel # NoChannel /\ ~Usable(k.channel)
    <2>1. n = Dies(k)
      BY <1>4 DEF ReadData
    <2>2. ClientInv(n) /\ Changes(k, n, {"connected", "channel", "closes"})
      BY <2>1, DiesKeeps
    <2> QED
      BY <2>2 DEF Changes, DecryptedFields
  <1>5. CASE ~(k.pair # 0 /\ f.session # k.pair) /\ k.channel # NoChannel /\ Usable(k.channel)
    <2>1. n = Decrypted(k, f)
      BY <1>5 DEF ReadData
    <2>2. ClientInv(n) /\ Changes(k, n, DecryptedFields)
      BY <1>5, <2>1, DecryptedKeeps
    <2> QED
      BY <2>2 DEF Changes
  <1> QED
    BY <1>2, <1>3, <1>4, <1>5

LEMMA ReadCloseKeeps ==
    ASSUME NEW k, ClientInv(k), NEW p, NEW n, n = ReadClose(k, p)
    PROVE  /\ ClientInv(n)
           /\ Changes(k, n, {"closes", "role", "participant", "pair", "channel", "buffered"})
  <1>1. IsClient(k)
    BY DEF ClientInv
  <1>2. CASE ~CloseApplies(k, p)
    <2>1. n = k
      BY <1>2 DEF ReadClose
    <2> QED
      BY <2>1 DEF ClientInv, IsClient, Changes
  <1>3. CASE CloseApplies(k, p)
    <2> DEFINE m == [k EXCEPT !.closes = Append(@, "closed")]
    <2>1. n = DiscardState(m)
      BY <1>3 DEF ReadClose
    <2>2. Changes(k, m, {"closes"}) /\ m.closes = Append(k.closes, "closed")
      BY <1>1 DEF Changes, IsClient, IsRecord, Fields
    <2> HIDE DEF m
    <2>3. ClientTypes(m)
      <3>1. k.closes \in Seq(Reason) /\ "closed" \in Reason
        BY <1>1 DEF IsClient, ClientTypes, Reason
      <3>2. m.closes \in Seq(Reason)
        BY <2>2, <3>1
      <3> QED
        BY <1>1, <2>2, <3>2 DEF IsClient, ClientTypes, Changes, Fields
    <2>4. ClientInv(m)
      <3>1. Changes(k, m, Quiet)
        BY <2>2 DEF Changes, Quiet
      <3> QED
        BY <2>3, <3>1, QuietChange
    <2>5. ClientInv(n) /\ Changes(m, n, {"role", "participant", "pair", "channel", "buffered"})
      BY <2>1, <2>4, DiscardKeeps
    <2> QED
      BY <2>2, <2>5 DEF Changes
  <1> QED
    BY <1>2, <1>3

HeardFields == {"connected", "pending", "pairs", "proofs"} \cup DecryptedFields

LEMMA HeardKeeps ==
    ASSUME NEW k, ClientInv(k), NEW f \in DownFrame, NEW n, n = Heard(k, f)
    PROVE  ClientInv(n) /\ Changes(k, n, HeardFields)
  <1>1. IsClient(k)
    BY DEF ClientInv
  <1>2. CASE f.type = "eof"
    <2>1. n = Dies(k)
      BY <1>2 DEF Heard
    <2>2. ClientInv(n) /\ Changes(k, n, {"connected", "channel", "closes"})
      BY <2>1, DiesKeeps
    <2> QED
      BY <2>2 DEF Changes, HeardFields, DecryptedFields
  <1>3. CASE f.type = "answer"
    <2>1. n = ReadAnswer(k, f) /\ f \in AnswerFrame
      BY <1>3, DownFrameKinds DEF Heard
    <2>2. ClientInv(n) /\ Changes(k, n, {"connected", "channel", "closes", "pending"})
      BY <2>1, ReadAnswerKeeps
    <2> QED
      BY <2>2 DEF Changes, HeardFields, DecryptedFields
  <1>4. CASE f.type = "pair"
    <2>1. n = [k EXCEPT !.pairs = Append(@, f)] /\ f \in PairFrame
      BY <1>4, DownFrameKinds DEF Heard
    <2>2. Changes(k, n, {"pairs"}) /\ n.pairs = Append(k.pairs, f)
      BY <1>1, <2>1 DEF Changes, IsClient, IsRecord, Fields
    <2>3. n.pairs \in Seq(PairFrame)
      <3>1. k.pairs \in Seq(PairFrame)
        BY <1>1 DEF IsClient, ClientTypes
      <3> QED
        BY <2>1, <2>2, <3>1
    <2>4. ClientTypes(n)
      BY <1>1, <2>2, <2>3 DEF IsClient, ClientTypes, Changes, Fields
    <2>5. Changes(k, n, Quiet)
      BY <2>2 DEF Changes, Quiet
    <2>6. ClientInv(n)
      BY <2>4, <2>5, QuietChange
    <2> QED
      BY <2>2, <2>6 DEF Changes, HeardFields
  <1>5. CASE f.type = "proof"
    <2>1. n = [k EXCEPT !.proofs = Append(@, f)] /\ f \in ProofFrame
      BY <1>5, DownFrameKinds DEF Heard
    <2>2. Changes(k, n, {"proofs"}) /\ n.proofs = Append(k.proofs, f)
      BY <1>1, <2>1 DEF Changes, IsClient, IsRecord, Fields
    <2>3. n.proofs \in Seq(ProofFrame)
      <3>1. k.proofs \in Seq(ProofFrame)
        BY <1>1 DEF IsClient, ClientTypes
      <3> QED
        BY <2>1, <2>2, <3>1
    <2>4. ClientTypes(n)
      BY <1>1, <2>2, <2>3 DEF IsClient, ClientTypes, Changes, Fields
    <2>5. Changes(k, n, Quiet)
      BY <2>2 DEF Changes, Quiet
    <2>6. ClientInv(n)
      BY <2>4, <2>5, QuietChange
    <2> QED
      BY <2>2, <2>6 DEF Changes, HeardFields
  <1>6. CASE f.type = "data"
    <2>1. n = ReadData(k, f.frame) /\ f.frame \in Frame
      BY <1>6, DownFrameKinds DEF Heard, RelayedFrame
    <2>2. ClientInv(n) /\ Changes(k, n, {"connected", "pending"} \cup DecryptedFields)
      BY <2>1, ReadDataKeeps
    <2> QED
      BY <2>2 DEF Changes, HeardFields
  <1>7. CASE f.type = "close"
    <2>1. n = ReadClose(k, f.pair)
      BY <1>7 DEF Heard
    <2>2. /\ ClientInv(n)
          /\ Changes(k, n, {"closes", "role", "participant", "pair", "channel", "buffered"})
      BY <2>1, ReadCloseKeeps
    <2> QED
      BY <2>2 DEF Changes, HeardFields, DecryptedFields
  <1> QED
    BY <1>2, <1>3, <1>4, <1>5, <1>6, <1>7, DownFrameKinds

-----------------------------------------------------------------------------
(* Frames on their way *)

LEMMA SentFrames ==
    ASSUME NEW S, NEW q \in Seq(S), NEW more \in Seq(S)
    PROVE  Sent(q, more) \in Seq(S)
  BY DEF Sent

\* What _request sends, by each of its callers.
LEMMA RequestTypes ==
    ASSUME NEW by \in By
    PROVE  /\ \A type \in {"wait", "cancel", "join"} : Request(type, by, 0) \in UpFrame
           /\ \A type \in {"proof", "close"} : \A p \in Session : Request(type, by, p) \in UpFrame
           /\ \A f \in Frame : DataRequest(by, f) \in UpFrame
           /\ \A type, p : Request(type, by, p).by = by
           /\ \A f : DataRequest(by, f).by = by
  <1>1. ASSUME NEW type \in {"wait", "cancel", "join"} PROVE Request(type, by, 0) \in UpFrame
    <2>1. Request(type, by, 0) \in PlainRequest
      BY DEF Request, PlainRequest
    <2> QED
      BY <2>1 DEF UpFrame
  <1>2. ASSUME NEW type \in {"proof", "close"}, NEW p \in Session
        PROVE  Request(type, by, p) \in UpFrame
    <2>1. Request(type, by, p) \in PairRequest
      BY DEF Request, PairRequest
    <2> QED
      BY <2>1 DEF UpFrame
  <1>3. ASSUME NEW f \in Frame PROVE DataRequest(by, f) \in UpFrame
    <2>1. DataRequest(by, f) \in FrameRequest
      BY DEF DataRequest, FrameRequest, Frame
    <2> QED
      BY <2>1 DEF UpFrame
  <1>4. (\A type, p : Request(type, by, p).by = by) /\ (\A f : DataRequest(by, f).by = by)
    BY DEF Request, DataRequest
  <1> QED
    BY <1>1, <1>2, <1>3, <1>4

\* A frame of a request that timed out.
Late(f, by) ==
    IF "by" \in DOMAIN f /\ f.by = by THEN [f EXCEPT !.late = TRUE] ELSE f

LEMMA LateUpFrame ==
    ASSUME NEW f \in UpFrame, NEW by
    PROVE  /\ Late(f, by) \in UpFrame
           /\ Late(f, by).type = f.type /\ (f = Eof <=> Late(f, by) = Eof)
           /\ f # Eof => Late(f, by).pair = f.pair /\ Late(f, by).by = f.by
           /\ f.type = "data" => Late(f, by).frame = f.frame
  <1>1. CASE f = Eof
    BY <1>1 DEF Late, Eof, UpFrame
  <1>2. CASE f \in PlainRequest
    <2>1. Late(f, by) \in PlainRequest /\ Late(f, by).type = f.type /\ Late(f, by).pair = f.pair
          /\ Late(f, by).by = f.by
      BY <1>2 DEF Late, PlainRequest
    <2>2. f # Eof /\ Late(f, by) # Eof /\ f.type # "data"
      BY <1>2, <2>1 DEF PlainRequest, Eof
    <2> QED
      BY <2>1, <2>2 DEF UpFrame
  <1>3. CASE f \in PairRequest
    <2>1. Late(f, by) \in PairRequest /\ Late(f, by).type = f.type /\ Late(f, by).pair = f.pair
          /\ Late(f, by).by = f.by
      BY <1>3 DEF Late, PairRequest
    <2>2. f # Eof /\ Late(f, by) # Eof /\ f.type # "data"
      BY <1>3, <2>1 DEF PairRequest, Eof
    <2> QED
      BY <2>1, <2>2 DEF UpFrame
  <1>4. CASE f \in FrameRequest
    <2>1. Late(f, by) \in FrameRequest /\ Late(f, by).type = f.type /\ Late(f, by).pair = f.pair
          /\ Late(f, by).frame = f.frame /\ Late(f, by).by = f.by
      BY <1>4 DEF Late, FrameRequest
    <2>2. f # Eof /\ Late(f, by) # Eof
      BY <1>4, <2>1 DEF FrameRequest, Eof
    <2> QED
      BY <2>1, <2>2 DEF UpFrame
  <1> QED
    BY <1>1, <1>2, <1>3, <1>4 DEF UpFrame

LEMMA LateDownFrame ==
    ASSUME NEW f \in DownFrame, NEW by
    PROVE  /\ Late(f, by) \in DownFrame /\ Late(f, by).type = f.type
           /\ f.type # "answer" => Late(f, by) = f
           /\ f.type = "answer" =>
                 Late(f, by).by = f.by /\ Late(f, by).result = f.result
                 /\ (Late(f, by).late <=> f.late \/ f.by = by)
  <1>1. CASE f.type = "answer"
    <2>1. f \in AnswerFrame
      BY <1>1, DownFrameKinds
    <2>2. /\ Late(f, by) \in AnswerFrame /\ Late(f, by).type = f.type
          /\ Late(f, by).by = f.by /\ Late(f, by).result = f.result
          /\ (Late(f, by).late <=> f.late \/ f.by = by)
      BY <2>1 DEF Late, AnswerFrame
    <2> QED
      BY <1>1, <2>2 DEF DownFrame
  <1>2. CASE f.type # "answer"
    <2>1. "by" \notin DOMAIN f
      BY <1>2, DownFrameKinds DEF Eof, AnswerFrame, PairFrame, ProofFrame, RelayedFrame, EndFrame
    <2>2. Late(f, by) = f
      BY <2>1 DEF Late
    <2> QED
      BY <1>2, <2>2
  <1> QED
    BY <1>1, <1>2

LEMMA OrphanedFrames ==
    ASSUME NEW S, NEW q \in Seq(S), NEW by, \A f \in S : Late(f, by) \in S
    PROVE  /\ Orphaned(q, by) \in Seq(S) /\ Len(Orphaned(q, by)) = Len(q)
           /\ \A i \in 1..Len(q) : Orphaned(q, by)[i] = Late(q[i], by)
  <1>1. Orphaned(q, by) = [i \in 1..Len(q) |-> Late(q[i], by)]
    BY DEF Orphaned, Late
  <1>2. Len(q) \in Nat /\ \A i \in 1..Len(q) : q[i] \in S
    OBVIOUS
  <1>3. \A i \in 1..Len(q) : Late(q[i], by) \in S
    BY <1>2
  <1> HIDE DEF Late
  <1>4. Orphaned(q, by) \in [1..Len(q) -> S]
    BY <1>1, <1>3
  <1>5. Orphaned(q, by) \in Seq(S)
    BY <1>2, <1>4
  <1>6. Len(Orphaned(q, by)) = Len(q)
    <2>1. DOMAIN Orphaned(q, by) = 1..Len(q)
      BY <1>1
    <2>2. DOMAIN Orphaned(q, by) = 1..Len(Orphaned(q, by)) /\ Len(Orphaned(q, by)) \in Nat
      BY <1>5
    <2> QED
      BY <1>2, <2>1, <2>2
  <1> QED
    BY <1>1, <1>5, <1>6

LEMMA DeliverTypes ==
    ASSUME CommInv, NEW frames, \A d \in Client : frames[d] \in Seq(DownFrame), Deliver(frames)
    PROVE  down' \in [Client -> Seq(DownFrame)]
  <1>1. down \in [Client -> Seq(DownFrame)]
    BY DEF CommInv
  <1>2. \A d \in Client :
           (IF client[d].connected THEN Sent(down[d], frames[d]) ELSE <<>>) \in Seq(DownFrame)
    BY <1>1, SentFrames, EmptySequence
  <1> QED
    BY <1>2 DEF Deliver

-----------------------------------------------------------------------------
(* Steps of a client *)

LEMMA SameRelayTypes ==
    ASSUME CommInv, UNCHANGED relayVars, UNCHANGED faultVars
    PROVE  RelayTypes'
  BY DEF CommInv, RelayTypes, Members, relayVars, faultVars

LEMMA UpdateKeeps ==
    ASSUME CommInv, NEW c \in Client, NEW n, ClientInv(n), Update(c, n),
           up' \in [Client -> Seq(UpFrame)], down' \in [Client -> Seq(DownFrame)], RelayTypes'
    PROVE  CommInv'
  <1>1. client = [d \in Client |-> client[d]] /\ \A d \in Client : ClientInv(client[d])
    BY DEF CommInv
  <1>2. client' = [d \in Client |-> IF d = c THEN n ELSE client[d]]
    BY <1>1 DEF Update
  <1>3. \A d \in Client : ClientInv(client'[d])
    BY <1>1, <1>2
  <1>4. client' = [d \in Client |-> client'[d]]
    BY <1>2
  <1>5. (\A d \in Client : ClientInv(client[d]))'
    BY <1>3 DEF ClientInv, IsClient, IsRecord, ClientTypes, RoleBelongs, TaskBelongs, TextsFollow,
                Accepted, Follow, Watches, InComm
  <1> QED
    BY <1>4, <1>5 DEF CommInv

LEMMA StepKeeps ==
    ASSUME CommInv, NEW c \in Client, NEW n, ClientInv(n), Update(c, n),
           UNCHANGED <<up, down, relayVars, faultVars>>
    PROVE  CommInv'
  <1>1. RelayTypes'
    BY SameRelayTypes
  <1>2. up' \in [Client -> Seq(UpFrame)] /\ down' \in [Client -> Seq(DownFrame)]
    BY DEF CommInv
  <1> QED
    BY <1>1, <1>2, UpdateKeeps

LEMMA AskKeeps ==
    ASSUME CommInv, NEW c \in Client, NEW k, ClientInv(k), NEW q \in UpFrame, q.by \in By,
           Ask(c, k, q), UNCHANGED <<down, relayVars, faultVars>>
    PROVE  CommInv'
  <1> DEFINE n == Asking(k, q.by)
  <1>1. ClientInv(n)
    BY AskingKeeps
  <1>2. RelayTypes'
    BY SameRelayTypes
  <1>3. up \in [Client -> Seq(UpFrame)] /\ down' \in [Client -> Seq(DownFrame)]
    BY DEF CommInv
  <1>4. up' \in [Client -> Seq(UpFrame)]
    <2>1. <<q>> \in Seq(UpFrame) /\ up[c] \in Seq(UpFrame)
      BY <1>3
    <2>2. Sent(up[c], <<q>>) \in Seq(UpFrame)
      BY <2>1, SentFrames
    <2> QED
      BY <1>3, <2>2 DEF Ask
  <1>5. Update(c, n)
    BY DEF Ask
  <1> QED
    BY <1>1, <1>2, <1>3, <1>4, <1>5, UpdateKeeps

LEMMA ResumedKeeps ==
    ASSUME CommInv, NEW c \in Client, NEW by \in By
    PROVE  /\ ClientInv(client[c]) /\ ClientInv(Resumed(c, by))
           /\ Changes(client[c], Resumed(c, by), {"pending"})
  <1>1. ClientInv(client[c])
    BY DEF CommInv
  <1> QED
    BY <1>1, AnswerKeeps DEF Resumed

LEMMA AbortKeeps ==
    ASSUME CommInv, NEW c \in Client, NEW k, ClientInv(k), k.task # "none", k.taskPair # 0,
           Abort(c, k), UNCHANGED <<down, relayVars, faultVars>>
    PROVE  CommInv'
  <1> DEFINE n == [k EXCEPT !.task = "aborting"]
             q == Request("close", "task", k.taskPair)
  <1>1. ClientInv(n)
    BY AbortingKeeps
  <1>2. k.taskPair \in Session
    BY DEF ClientInv, IsClient, ClientTypes, Pair
  <1>3. q \in UpFrame /\ q.by \in By
    BY <1>2, RequestTypes DEF By
  <1>4. Ask(c, n, q)
    BY DEF Abort
  <1> QED
    BY <1>1, <1>3, <1>4, AskKeeps

LEMMA TakePairKeeps ==
    ASSUME CommInv, NEW c \in Client, TakePair(c) PROVE CommInv'
  <1> DEFINE k == client[c]
             p == Head(k.pairs)
             t == [k EXCEPT !.pairs = Tail(@)]
  <1>1. ClientInv(k) /\ IsClient(k) /\ k.task = "pair" /\ k.pairs # <<>>
    BY DEF CommInv, ClientInv, TakePair
  <1>2. UNCHANGED <<down, relayVars, faultVars>>
    BY DEF TakePair
  <1>3. k.pairs \in Seq(PairFrame) /\ p \in PairFrame /\ Tail(k.pairs) \in Seq(PairFrame)
    BY <1>1 DEF IsClient, ClientTypes
  <1>4. Changes(k, t, {"pairs"}) /\ t.pairs = Tail(k.pairs)
    BY <1>1 DEF Changes, IsClient, IsRecord, Fields
  <1>5. /\ p.role # k.role => Update(c, Fails(DiscardState(t))) /\ UNCHANGED up
        /\ p.role = k.role =>
              Ask(c, [t EXCEPT !.pair = p.pair, !.taskPair = p.pair, !.task = "proving"],
                  Request("proof", "task", p.pair))
    BY DEF TakePair
  <1>6. p.pair \in Session /\ p.role \in Role
    BY <1>3 DEF PairFrame
  <1> HIDE DEF k, p, t
  <1>7. ClientInv(t) /\ t.task = "pair"
    <2>1. ClientTypes(t)
      BY <1>1, <1>3, <1>4 DEF IsClient, ClientTypes, Changes, Fields
    <2>2. Changes(k, t, Quiet) /\ t.task = k.task
      BY <1>4 DEF Changes, Quiet, Fields
    <2> QED
      BY <1>1, <2>1, <2>2, QuietChange
  <1>8. CASE p.role # k.role
    <2>1. ClientInv(DiscardState(t)) /\ DiscardState(t).task = "pair"
      BY <1>7, DiscardKeeps DEF Changes, Fields
    <2>2. ClientInv(Fails(DiscardState(t)))
      BY <2>1, FailsKeeps
    <2> QED
      BY <1>2, <1>5, <1>8, <2>2, StepKeeps
  <1>9. CASE p.role = k.role
    <2> DEFINE n == [t EXCEPT !.pair = p.pair, !.taskPair = p.pair, !.task = "proving"]
    <2>1. IsClient(t)
      BY <1>7 DEF ClientInv
    <2>2. Changes(t, n, {"pair", "taskPair", "task"})
      BY <2>1 DEF Changes, IsClient, IsRecord, Fields
    <2>3. n.pair = p.pair /\ n.taskPair = p.pair /\ n.task = "proving"
      BY <2>1 DEF IsClient, IsRecord, Fields
    <2> HIDE DEF n
    <2>4. /\ n.ui = t.ui /\ n.role = t.role /\ n.participant = t.participant
          /\ n.channel = t.channel /\ n.events = t.events /\ n.comm = t.comm
          /\ n.over = t.over /\ n.shown = t.shown
      BY <2>2 DEF Changes, Fields
    <2>5. t.role = k.role /\ t.role # Nobody
      BY <1>4, <1>6, <1>9 DEF Changes, Fields, Role, Nobody
    <2>6. t.pair = 0 /\ t.channel = NoChannel
      BY <1>7 DEF ClientInv, TaskBelongs, RoleBelongs
    <2>7. ClientTypes(n)
      <3>1. n.pair \in Pair /\ n.taskPair \in Pair /\ n.task \in Task
        BY <1>6, <2>3 DEF Pair, Task
      <3> QED
        BY <2>1, <2>2, <3>1 DEF IsClient, ClientTypes, Changes, Fields
    <2>8. n.pair # 0
      BY <1>6, <2>3, SessionsArePositive
    <2>9. RoleBelongs(n)
      BY <2>4, <2>5, <2>6 DEF RoleBelongs
    <2>10. TaskBelongs(n)
      BY <1>7, <2>3, <2>4, <2>6, <2>8 DEF ClientInv, TaskBelongs
    <2>11. TextsFollow(n)
      BY <1>7, <2>3, <2>4, <2>6 DEF ClientInv, TextsFollow, Watches, InComm
    <2>12. ClientInv(n)
      BY <2>2, <2>7, <2>9, <2>10, <2>11 DEF ClientInv, IsClient, Changes
    <2>13. Request("proof", "task", p.pair) \in UpFrame /\ Request("proof", "task", p.pair).by \in By
      BY <1>6, RequestTypes DEF By
    <2>14. Ask(c, n, Request("proof", "task", p.pair))
      BY <1>5, <1>9 DEF n
    <2> QED
      BY <1>2, <2>12, <2>13, <2>14, AskKeeps
  <1> QED
    BY <1>8, <1>9

LEMMA ProofAnsweredKeeps ==
    ASSUME CommInv, NEW c \in Client, ProofAnswered(c) PROVE CommInv'
  <1> DEFINE k == Resumed(c, "task")
  <1>1. ClientInv(client[c]) /\ ClientInv(k) /\ Changes(client[c], k, {"pending"})
    BY ResumedKeeps DEF By
  <1>2. client[c].task = "proving" /\ UNCHANGED <<up, down, relayVars, faultVars>>
    BY DEF ProofAnswered
  <1>3. \/ Update(c, [k EXCEPT !.task = "proof"])
        \/ Update(c, Fails(k))
    BY DEF ProofAnswered
  <1> HIDE DEF k
  <1>4. k.task = "proving" /\ IsClient(k)
    BY <1>1, <1>2 DEF Changes, Fields, ClientInv
  <1>5. CASE Update(c, Fails(k))
    <2>1. ClientInv(Fails(k))
      BY <1>1, <1>4, FailsKeeps
    <2> QED
      BY <1>2, <1>5, <2>1, StepKeeps
  <1>6. CASE Update(c, [k EXCEPT !.task = "proof"])
    <2> DEFINE n == [k EXCEPT !.task = "proof"]
    <2>1. Changes(k, n, {"task"}) /\ n.task = "proof"
      BY <1>4 DEF Changes, IsClient, IsRecord, Fields
    <2>2. /\ n.ui = k.ui /\ n.role = k.role /\ n.pair = k.pair
          /\ n.taskPair = k.taskPair /\ n.participant = k.participant
          /\ n.channel = k.channel /\ n.events = k.events /\ n.comm = k.comm
          /\ n.over = k.over /\ n.shown = k.shown
      BY <2>1 DEF Changes, Fields
    <2>3. "proof" \in Task
      BY DEF Task
    <2>4. ClientTypes(n)
      BY <1>4, <2>1, <2>3 DEF IsClient, ClientTypes, Changes, Fields
    <2>5. RoleBelongs(n) /\ TaskBelongs(n)
      BY <1>1, <1>4, <2>1, <2>2 DEF ClientInv, RoleBelongs, TaskBelongs
    <2>6. TextsFollow(n)
      BY <1>1, <1>4, <2>1, <2>2 DEF ClientInv, TextsFollow, Accepted, Watches, InComm
    <2>7. ClientInv(n)
      BY <2>1, <2>4, <2>5, <2>6 DEF ClientInv, IsClient, Changes
    <2> QED
      BY <1>2, <1>6, <2>7, StepKeeps
  <1> QED
    BY <1>3, <1>5, <1>6

\* The session opens with a channel that has sent its identity and received nothing.
LEMMA OpeningKeeps ==
    ASSUME NEW t, ClientInv(t), t.task = "proof", ~t.participant, t.channel = NoChannel,
           t.pair = t.taskPair, t.role # Nobody, t.events = <<>>,
           NEW n, n = [t EXCEPT !.channel = AfterEncrypt(NewChannel(t.taskPair, t.role), Identity),
                                !.task = "naming"]
    PROVE  /\ ClientInv(n) /\ Changes(t, n, {"channel", "task"})
           /\ n.task = "naming" /\ n.taskPair = t.taskPair /\ n.taskPair # 0
           /\ n.channel = AfterEncrypt(NewChannel(t.taskPair, t.role), Identity)
           /\ n.channel.session = n.taskPair /\ Usable(n.channel)
  <1> DEFINE new == NewChannel(t.taskPair, t.role)
             ch == AfterEncrypt(new, Identity)
  <1>1. IsClient(t) /\ t.taskPair # 0 /\ t.taskPair \in Session /\ t.role \in Role
    BY DEF ClientInv, TaskBelongs, IsClient, ClientTypes, Pair
  <1>2. /\ new \in End /\ new.session = t.taskPair /\ new.role = t.role
        /\ new.receiveCounter = 0 /\ ~new.peerIdentityReceived /\ ~new.discarded /\ ~new.failed
    BY <1>1 DEF NewChannel, End, Pair
  <1>3. /\ ch \in End /\ ch.session = t.taskPair /\ ch.role = t.role
        /\ ch.receiveCounter = 0 /\ ~ch.peerIdentityReceived /\ Usable(ch)
    <2>1. Identity \in Event /\ Identity # Close
      BY DEF Event, Identity, Close
    <2> HIDE DEF new
    <2> QED
      BY <1>2, <2>1, EncryptingChannel DEF Usable
  <1> HIDE DEF ch
  <1>4. n = [t EXCEPT !.channel = ch, !.task = "naming"]
    BY DEF ch
  <1>5. Changes(t, n, {"channel", "task"}) /\ n.channel = ch /\ n.task = "naming"
    BY <1>1, <1>4 DEF Changes, IsClient, IsRecord, Fields
  <1>6. /\ n.ui = t.ui /\ n.role = t.role /\ n.pair = t.pair
        /\ n.taskPair = t.taskPair /\ n.participant = t.participant
        /\ n.events = t.events /\ n.comm = t.comm
        /\ n.over = t.over /\ n.shown = t.shown
    BY <1>5 DEF Changes, Fields
  <1>7. "naming" \in Task
    BY DEF Task
  <1>8. ClientTypes(n)
    BY <1>1, <1>3, <1>5, <1>7 DEF IsClient, ClientTypes, Changes, Fields
  <1>9. RoleBelongs(n)
    BY <1>1, <1>3, <1>5, <1>6 DEF RoleBelongs
  <1>10. TaskBelongs(n)
    BY <1>1, <1>5, <1>6 DEF ClientInv, TaskBelongs
  <1>11. ~InComm(n) /\ n.ui # "crashed"
    BY <1>5, <1>10 DEF TaskBelongs, InComm
  <1>12. n.shown = <<>>
    BY <1>6, <1>11 DEF ClientInv, TextsFollow, InComm
  <1>13. Accepted(n)
    BY <1>3, <1>5, <1>6, <1>12, NoTextsFollow DEF Accepted
  <1>14. TextsFollow(n)
    BY <1>6, <1>11, <1>12, <1>13, NoTextsFollow DEF TextsFollow, Watches
  <1> QED
    BY <1>1, <1>3, <1>5, <1>6, <1>8, <1>9, <1>10, <1>14 DEF ClientInv, IsClient, Changes, ch

LEMMA TakeProofKeeps ==
    ASSUME CommInv, NEW c \in Client, TakeProof(c) PROVE CommInv'
  <1> DEFINE k == client[c]
             f == Head(k.proofs)
             t == [k EXCEPT !.proofs = Tail(@), !.participant = FALSE]
             ch == NewChannel(k.taskPair, k.role)
             o == [t EXCEPT !.channel = AfterEncrypt(ch, Identity), !.task = "naming"]
             open == Drained(o)
             q == DataRequest("task", Encrypted(ch, Identity))
  <1>1. ClientInv(k) /\ IsClient(k) /\ k.task = "proof" /\ k.proofs # <<>>
    BY DEF CommInv, ClientInv, TakeProof
  <1>2. UNCHANGED <<down, relayVars, faultVars>>
    BY DEF TakeProof
  <1>3. \/ Abort(c, t)
        \/ k.participant /\ Abort(c, open)
        \/ k.participant /\ Ask(c, open, q)
    BY DEF TakeProof
  <1>4. k.proofs \in Seq(ProofFrame) /\ Tail(k.proofs) \in Seq(ProofFrame)
    BY <1>1 DEF IsClient, ClientTypes
  <1>5. Changes(k, t, {"proofs", "participant"}) /\ t.proofs = Tail(k.proofs)
        /\ t.participant = FALSE
    BY <1>1 DEF Changes, IsClient, IsRecord, Fields
  <1> HIDE DEF k, t
  <1>6. /\ t.ui = k.ui /\ t.task = k.task /\ t.role = k.role /\ t.pair = k.pair
        /\ t.taskPair = k.taskPair /\ t.channel = k.channel /\ t.events = k.events
        /\ t.comm = k.comm /\ t.over = k.over /\ t.shown = k.shown
    BY <1>5 DEF Changes, Fields
  <1>7. ClientInv(t)
    <2>1. ClientTypes(t)
      BY <1>1, <1>4, <1>5 DEF IsClient, ClientTypes, Changes, Fields
    <2>2. RoleBelongs(t) /\ TaskBelongs(t)
      BY <1>1, <1>5, <1>6 DEF ClientInv, RoleBelongs, TaskBelongs
    <2>3. TextsFollow(t)
      BY <1>1, <1>5, <1>6 DEF ClientInv, TextsFollow, Accepted, Watches, InComm
    <2> QED
      BY <1>5, <2>1, <2>2, <2>3 DEF ClientInv, IsClient, Changes
  <1>8. t.task = "proof" /\ t.taskPair # 0
    BY <1>1, <1>6 DEF ClientInv, TaskBelongs
  <1>9. CASE Abort(c, t)
    BY <1>2, <1>7, <1>8, <1>9, AbortKeeps
  <1>10. CASE k.participant /\ (Abort(c, open) \/ Ask(c, open, q))
    <2>1. k.role # Nobody /\ k.channel = NoChannel /\ k.events = <<>> /\ k.pair = k.taskPair
      BY <1>1, <1>10 DEF ClientInv, RoleBelongs, TextsFollow, TaskBelongs
    <2>2. ch = NewChannel(t.taskPair, t.role)
      BY <1>6
    <2>3. ClientInv(o) /\ o.task = "naming" /\ o.taskPair = t.taskPair /\ o.taskPair # 0
      BY <1>5, <1>6, <1>7, <1>8, <2>1, <2>2, OpeningKeeps
    <2> HIDE DEF o
    <2>4. ClientInv(open) /\ open.task \in {"naming", "aborting"} /\ open.taskPair = o.taskPair
      BY <2>3, DrainedKeeps
    <2> HIDE DEF open
    <2>5. q \in UpFrame /\ q.by \in By
      <3>1. k.taskPair \in Session /\ k.role \in Role
        BY <1>1, <1>6, <1>8, <2>1 DEF IsClient, ClientTypes, Pair
      <3>2. Encrypted(ch, Identity) \in Frame
        BY <3>1 DEF Encrypted, NewChannel, Frame, Event
      <3> QED
        BY <3>2, RequestTypes DEF By
    <2> HIDE DEF q
    <2>6. CASE Abort(c, open)
      BY <1>2, <2>3, <2>4, <2>6, AbortKeeps
    <2>7. CASE Ask(c, open, q)
      BY <1>2, <2>4, <2>5, <2>7, AskKeeps
    <2> QED
      BY <1>10, <2>6, <2>7
  <1> QED
    BY <1>3, <1>9, <1>10

LEMMA NamedKeeps ==
    ASSUME NEW k, ClientInv(k), k.task \in {"naming", "peer"}, NEW task \in {"peer", "done"},
           NEW n, n = [k EXCEPT !.task = task]
    PROVE  ClientInv(n)
  <1>1. IsClient(k)
    BY DEF ClientInv
  <1>2. Changes(k, n, {"task"}) /\ n.task = task
    BY <1>1 DEF Changes, IsClient, IsRecord, Fields
  <1>3. /\ n.ui = k.ui /\ n.role = k.role /\ n.pair = k.pair
        /\ n.taskPair = k.taskPair /\ n.participant = k.participant
        /\ n.channel = k.channel /\ n.events = k.events /\ n.comm = k.comm
        /\ n.over = k.over /\ n.shown = k.shown
    BY <1>2 DEF Changes, Fields
  <1>4. n.task \in Task
    BY <1>2 DEF Task
  <1>5. ClientTypes(n)
    BY <1>1, <1>2, <1>4 DEF IsClient, ClientTypes, Changes, Fields
  <1>6. RoleBelongs(n) /\ TaskBelongs(n)
    BY <1>2, <1>3 DEF ClientInv, RoleBelongs, TaskBelongs
  <1>7. TextsFollow(n)
    BY <1>2, <1>3 DEF ClientInv, TextsFollow, Accepted, Watches, InComm
  <1> QED
    BY <1>2, <1>5, <1>6, <1>7 DEF ClientInv, IsClient, Changes

LEMMA IdentityAnsweredKeeps ==
    ASSUME CommInv, NEW c \in Client, IdentityAnswered(c) PROVE CommInv'
  <1> DEFINE k == Resumed(c, "task")
  <1>1. ClientInv(client[c]) /\ ClientInv(k) /\ Changes(client[c], k, {"pending"})
    BY ResumedKeeps DEF By
  <1>2. client[c].task = "naming" /\ UNCHANGED <<down, relayVars, faultVars>>
    BY DEF IdentityAnswered
  <1>3. \/ \E task \in {"peer", "done"} : Update(c, [k EXCEPT !.task = task]) /\ UNCHANGED up
        \/ Abort(c, k)
    BY DEF IdentityAnswered
  <1> HIDE DEF k
  <1>4. k.task = "naming" /\ k.taskPair # 0
    BY <1>1, <1>2 DEF Changes, Fields, ClientInv, TaskBelongs
  <1>5. CASE Abort(c, k)
    BY <1>1, <1>2, <1>4, <1>5, AbortKeeps
  <1>6. ASSUME NEW task \in {"peer", "done"}, Update(c, [k EXCEPT !.task = task]), UNCHANGED up
        PROVE  CommInv'
    <2>1. ClientInv([k EXCEPT !.task = task])
      BY <1>1, <1>4, NamedKeeps
    <2> QED
      BY <1>2, <1>6, <2>1, StepKeeps
  <1> QED
    BY <1>3, <1>5, <1>6

LEMMA PeerIdentifiedKeeps ==
    ASSUME CommInv, NEW c \in Client, PeerIdentified(c) PROVE CommInv'
  <1> DEFINE k == client[c]
  <1>1. ClientInv(k) /\ k.task = "peer" /\ k.taskPair # 0
    BY DEF CommInv, PeerIdentified, ClientInv, TaskBelongs
  <1>2. UNCHANGED <<down, relayVars, faultVars>>
    BY DEF PeerIdentified
  <1>3. (Update(c, [k EXCEPT !.task = "done"]) /\ UNCHANGED up) \/ Abort(c, k)
    BY DEF PeerIdentified
  <1>4. ClientInv([k EXCEPT !.task = "done"])
    BY <1>1, NamedKeeps
  <1> QED
    BY <1>1, <1>2, <1>3, <1>4, StepKeeps, AbortKeeps

LEMMA AbortAnsweredKeeps ==
    ASSUME CommInv, NEW c \in Client, AbortAnswered(c) PROVE CommInv'
  <1> DEFINE k == Resumed(c, "task")
             n == Fails(DiscardState(k))
  <1>1. ClientInv(k) /\ Changes(client[c], k, {"pending"})
    BY ResumedKeeps DEF By
  <1>2. /\ client[c].task = "aborting" /\ UNCHANGED <<up, down, relayVars, faultVars>>
        /\ Update(c, n)
    BY DEF AbortAnswered
  <1> HIDE DEF k
  <1>3. k.task = "aborting"
    BY <1>1, <1>2 DEF Changes, Fields
  <1>4. ClientInv(DiscardState(k)) /\ DiscardState(k).task = "aborting"
    BY <1>1, <1>3, DiscardKeeps DEF Changes, Fields
  <1>5. ClientInv(n)
    BY <1>4, FailsKeeps
  <1> QED
    BY <1>2, <1>5, StepKeeps

LEMMA FailureClosesKeeps ==
    ASSUME CommInv, NEW c \in Client, FailureCloses(c) PROVE CommInv'
  <1> DEFINE k == client[c]
             n == [k EXCEPT !.failing = 0]
             q == Request("close", "failure", k.failing)
  <1>1. ClientInv(k) /\ IsClient(k) /\ k.failing # 0
    BY DEF CommInv, ClientInv, FailureCloses
  <1>2. Ask(c, n, q) /\ UNCHANGED <<down, relayVars, faultVars>>
    BY DEF FailureCloses
  <1>3. ClientInv(n)
    <2>1. Changes(k, n, {"failing"}) /\ n.failing = 0
      BY <1>1 DEF Changes, IsClient, IsRecord, Fields
    <2>2. 0 \in Pair
      BY DEF Pair
    <2>3. ClientTypes(n)
      BY <1>1, <2>1, <2>2 DEF IsClient, ClientTypes, Changes, Fields
    <2>4. Changes(k, n, Quiet)
      BY <2>1 DEF Changes, Quiet
    <2> QED
      BY <1>1, <2>3, <2>4, QuietChange
  <1>4. q \in UpFrame /\ q.by \in By
    <2>1. k.failing \in Session
      BY <1>1 DEF IsClient, ClientTypes, Pair
    <2> QED
      BY <2>1, RequestTypes DEF By
  <1> QED
    BY <1>2, <1>3, <1>4, AskKeeps

LEMMA TaskStepKeeps ==
    ASSUME CommInv, NEW c \in Client, TaskStep(c) PROVE CommInv'
  <1>1. CASE FailureAnswered(c)
    <2>1. ClientInv(Resumed(c, "failure"))
      BY ResumedKeeps DEF By
    <2>2. Update(c, Resumed(c, "failure")) /\ UNCHANGED <<up, down, relayVars, faultVars>>
      BY <1>1 DEF FailureAnswered
    <2> QED
      BY <2>1, <2>2, StepKeeps
  <1> QED
    BY <1>1, TakePairKeeps, ProofAnsweredKeeps, TakeProofKeeps, IdentityAnsweredKeeps,
       PeerIdentifiedKeeps, AbortAnsweredKeeps, FailureClosesKeeps DEF TaskStep

-----------------------------------------------------------------------------
(* Steps of the screens *)

LEMMA StartKeeps ==
    ASSUME CommInv, NEW c \in Client, Start(c) PROVE CommInv'
  <1> DEFINE k == client[c]
             n == Prepare([k EXCEPT !.ui = "starting"], "creator")
             q == Request("wait", "ui", 0)
  <1>1. ClientInv(k) /\ k.ui = "hub"
    BY DEF CommInv, Start
  <1>2. Ask(c, n, q) /\ UNCHANGED <<down, relayVars, faultVars>>
    BY DEF Start
  <1>3. k.task = "none" /\ k.shown = <<>>
    BY <1>1 DEF ClientInv, TaskBelongs, TextsFollow, InComm
  <1>4. ClientInv(n)
    <2>1. "creator" \in Role /\ "starting" \in {"starting", "joining"}
      BY DEF Role
    <2> HIDE DEF k
    <2> QED
      BY <1>1, <1>3, <2>1, PrepareKeeps
  <1>5. q \in UpFrame /\ q.by \in By
    BY RequestTypes DEF By
  <1> QED
    BY <1>2, <1>4, <1>5, AskKeeps

\* complete_session starts under its screen.
LEMMA CompletesKeeps ==
    ASSUME NEW k, ClientInv(k), k.ui \in {"starting", "joining"},
           NEW u \in {"waiting", "connecting"}, NEW n, n = Completes([k EXCEPT !.ui = u])
    PROVE  /\ ClientInv(n) /\ Changes(k, n, {"ui", "task"}) /\ n.ui = u
           /\ n.task = IF k.role = Nobody THEN "failed" ELSE "pair"
  <1>1. IsClient(k)
    BY DEF ClientInv
  <1>2. n = [k EXCEPT !.ui = u, !.task = IF k.role = Nobody THEN "failed" ELSE "pair"]
    BY <1>1 DEF Completes, IsClient, IsRecord, Fields
  <1>3. /\ Changes(k, n, {"ui", "task"}) /\ n.ui = u
        /\ n.task = IF k.role = Nobody THEN "failed" ELSE "pair"
    BY <1>1, <1>2 DEF Changes, IsClient, IsRecord, Fields
  <1>4. /\ n.role = k.role /\ n.pair = k.pair
        /\ n.taskPair = k.taskPair /\ n.participant = k.participant
        /\ n.channel = k.channel /\ n.events = k.events /\ n.comm = k.comm
        /\ n.over = k.over /\ n.shown = k.shown
    BY <1>3 DEF Changes, Fields
  <1>5. n.ui \in Screen /\ n.task \in Task
    BY <1>3 DEF Screen, Task
  <1>6. ClientTypes(n)
    BY <1>1, <1>3, <1>5 DEF IsClient, ClientTypes, Changes, Fields
  <1>7. k.pair = 0 /\ k.channel = NoChannel /\ k.shown = <<>>
    BY DEF ClientInv, TaskBelongs, TextsFollow, InComm
  <1>8. RoleBelongs(n)
    BY <1>4 DEF ClientInv, RoleBelongs
  <1>9. TaskBelongs(n)
    BY <1>3, <1>4, <1>7 DEF TaskBelongs
  <1>10. TextsFollow(n)
    BY <1>3, <1>4, <1>7, NoTextsFollow DEF ClientInv, TextsFollow, Watches, InComm
  <1> QED
    BY <1>3, <1>6, <1>8, <1>9, <1>10 DEF ClientInv, IsClient, Changes

LEMMA WaitAnsweredKeeps ==
    ASSUME CommInv, NEW c \in Client, WaitAnswered(c) PROVE CommInv'
  <1> DEFINE k == Resumed(c, "ui")
             d == DiscardState(k)
             q == Request("join", "ui", 0)
  <1>1. ClientInv(k) /\ Changes(client[c], k, {"pending"})
    BY ResumedKeeps DEF By
  <1>2. k.ui = "starting" /\ UNCHANGED <<down, relayVars, faultVars>>
    BY DEF WaitAnswered
  <1>3. \/ Update(c, Completes([k EXCEPT !.ui = "waiting"])) /\ UNCHANGED up
        \/ Ask(c, Prepare([d EXCEPT !.ui = "joining"], "joiner"), q)
        \/ Update(c, ToHub(d)) /\ UNCHANGED up
        \/ Update(c, ToHub(k)) /\ UNCHANGED up
    BY DEF WaitAnswered
  <1> HIDE DEF k
  <1>5. ClientInv(d) /\ d.ui = "starting"
    BY <1>1, <1>2, DiscardKeeps DEF Changes, Fields
  <1> HIDE DEF d
  <1>6. ClientInv(Completes([k EXCEPT !.ui = "waiting"]))
    BY <1>1, <1>2, CompletesKeeps
  <1>7. d.task = "none" /\ d.shown = <<>>
    BY <1>5 DEF ClientInv, TaskBelongs, TextsFollow, InComm
  <1>8. ClientInv(Prepare([d EXCEPT !.ui = "joining"], "joiner"))
    BY <1>5, <1>7, PrepareKeeps DEF Role
  <1>9. q \in UpFrame /\ q.by \in By
    BY RequestTypes DEF By
  <1>10. ClientInv(ToHub(d)) /\ ClientInv(ToHub(k))
    BY <1>1, <1>5, ToHubKeeps
  <1> HIDE DEF q
  <1> QED
    BY <1>2, <1>3, <1>6, <1>8, <1>9, <1>10, StepKeeps, AskKeeps

LEMMA JoinAnsweredKeeps ==
    ASSUME CommInv, NEW c \in Client, JoinAnswered(c) PROVE CommInv'
  <1> DEFINE k == Resumed(c, "ui")
  <1>1. ClientInv(k) /\ Changes(client[c], k, {"pending"})
    BY ResumedKeeps DEF By
  <1>2. k.ui = "joining" /\ UNCHANGED <<up, down, relayVars, faultVars>>
    BY DEF JoinAnswered
  <1>3. \/ Update(c, Completes([k EXCEPT !.ui = "connecting"]))
        \/ Update(c, ToHub(DiscardState(k)))
        \/ Update(c, ToHub(k))
    BY DEF JoinAnswered
  <1> HIDE DEF k
  <1>5. ClientInv(Completes([k EXCEPT !.ui = "connecting"]))
    BY <1>1, <1>2, CompletesKeeps
  <1>6. ClientInv(ToHub(DiscardState(k))) /\ ClientInv(ToHub(k))
    BY <1>1, DiscardKeeps, ToHubKeeps
  <1> QED
    BY <1>2, <1>3, <1>5, <1>6, StepKeeps

LEMMA CancelKeeps ==
    ASSUME CommInv, NEW c \in Client, Cancel(c) PROVE CommInv'
  <1> DEFINE k == client[c]
             q == Request("cancel", "ui", 0)
  <1>1. ClientInv(k) /\ k.ui = "waiting"
    BY DEF CommInv, Cancel
  <1>2. UNCHANGED <<down, relayVars, faultVars>>
    BY DEF Cancel
  <1>3. \/ Ask(c, [k EXCEPT !.ui = "cancelling"], q)
        \/ Update(c, [k EXCEPT !.ui = "settling"]) /\ UNCHANGED up
    BY DEF Cancel
  <1>4. ASSUME NEW u \in {"cancelling", "settling"} PROVE ClientInv([k EXCEPT !.ui = u])
    <2> DEFINE n == [k EXCEPT !.ui = u]
    <2>1. IsClient(k)
      BY <1>1 DEF ClientInv
    <2>2. Changes(k, n, {"ui"}) /\ n.ui = u
      BY <2>1 DEF Changes, IsClient, IsRecord, Fields
    <2>3. n.over = k.over /\ n.over \in BOOLEAN
      BY <2>1, <2>2 DEF IsClient, ClientTypes, Changes, Fields
    <2> HIDE DEF n
    <2>4. Changes(k, n, {"ui", "over"}) /\ n.ui \in Screen \ {"starting", "joining"}
      BY <2>2 DEF Changes, Screen
    <2>5. ~InComm(n) /\ k.shown = <<>>
      BY <1>1, <2>2 DEF ClientInv, TextsFollow, InComm
    <2>6. ~Watches(n)
      BY <2>5 DEF Watches
    <2>7. n.ui \in {"waiting", "cancelling", "settling", "connecting"}
          /\ n.ui \notin {"saying bye", "closing"}
      BY <2>2
    <2>8. ClientInv(n)
      BY <1>1, <2>3, <2>4, <2>5, <2>6, <2>7, ScreenKeeps
    <2> QED
      BY <2>8 DEF n
  <1>5. q \in UpFrame /\ q.by \in By
    BY RequestTypes DEF By
  <1> HIDE DEF q
  <1> QED
    BY <1>2, <1>3, <1>4, <1>5, StepKeeps, AskKeeps

LEMMA CancelAnsweredKeeps ==
    ASSUME CommInv, NEW c \in Client, CancelAnswered(c) PROVE CommInv'
  <1> DEFINE k == Resumed(c, "ui")
             n == [k EXCEPT !.ui = "settling"]
  <1>1. ClientInv(k) /\ Changes(client[c], k, {"pending"})
    BY ResumedKeeps DEF By
  <1>2. k.ui = "cancelling" /\ UNCHANGED <<up, down, relayVars, faultVars>>
    BY DEF CancelAnswered
  <1>3. Update(c, ToHub(DiscardState(k))) \/ Update(c, n)
    BY DEF CancelAnswered
  <1> HIDE DEF k
  <1>4. IsClient(k)
    BY <1>1 DEF ClientInv
  <1>5. ClientInv(ToHub(DiscardState(k)))
    BY <1>1, DiscardKeeps, ToHubKeeps
  <1>6. ClientInv(n)
    <2>1. Changes(k, n, {"ui"}) /\ n.ui = "settling"
      BY <1>4 DEF Changes, IsClient, IsRecord, Fields
    <2>2. n.over = k.over /\ n.over \in BOOLEAN
      BY <1>4, <2>1 DEF IsClient, ClientTypes, Changes, Fields
    <2> HIDE DEF n
    <2>3. Changes(k, n, {"ui", "over"}) /\ n.ui \in Screen \ {"starting", "joining"}
      BY <2>1 DEF Changes, Screen
    <2>4. ~InComm(n) /\ k.shown = <<>>
      BY <1>1, <1>2, <2>1 DEF ClientInv, TextsFollow, InComm
    <2>5. ~Watches(n)
      BY <2>4 DEF Watches
    <2> QED
      BY <1>1, <2>1, <2>2, <2>3, <2>4, <2>5, ScreenKeeps
  <1> QED
    BY <1>2, <1>3, <1>5, <1>6, StepKeeps

LEMMA SetupEndsKeeps ==
    ASSUME CommInv, NEW c \in Client, SetupEnds(c) PROVE CommInv'
  <1> DEFINE k == client[c]
             n == [k EXCEPT !.ui = "comm", !.task = "none", !.comm = k.channel.session]
  <1>1. ClientInv(k) /\ IsClient(k)
    BY DEF CommInv, ClientInv
  <1>2. UNCHANGED <<up, down, relayVars, faultVars>>
    BY DEF SetupEnds
  <1>3. \/ k.task = "done" /\ k.channel.peerIdentityReceived /\ Update(c, n)
        \/ Update(c, ToHub(k))
    BY DEF SetupEnds
  <1> HIDE DEF k
  <1>4. ClientInv(ToHub(k))
    BY <1>1, ToHubKeeps
  <1>5. ASSUME k.task = "done", k.channel.peerIdentityReceived
        PROVE  ClientInv(n)
    <2>1. /\ Changes(k, n, {"ui", "task", "comm"})
          /\ n.ui = "comm" /\ n.task = "none" /\ n.comm = k.channel.session
      BY <1>1 DEF Changes, IsClient, IsRecord, Fields
    <2> HIDE DEF n
    <2>2. /\ n.role = k.role /\ n.pair = k.pair
          /\ n.taskPair = k.taskPair /\ n.participant = k.participant
          /\ n.channel = k.channel /\ n.events = k.events
          /\ n.over = k.over /\ n.shown = k.shown
      BY <2>1 DEF Changes, Fields
    <2>3. k.channel # NoChannel /\ k.channel \in End
      BY <1>1, <1>5, NoChannelIsEnd DEF IsClient, ClientTypes
    <2>4. Accepted(k) /\ k.shown = <<>>
      BY <1>1, <1>5, <2>3 DEF ClientInv, TextsFollow, TaskBelongs, InComm
    <2>5. ClientTypes(n)
      <3>1. n.ui \in Screen /\ n.task \in Task /\ n.comm \in Pair
        BY <2>1, <2>3 DEF Screen, Task, End
      <3> QED
        BY <1>1, <2>1, <3>1 DEF IsClient, ClientTypes, Changes, Fields
    <2>6. RoleBelongs(n) /\ TaskBelongs(n)
      BY <1>1, <2>1, <2>2 DEF ClientInv, RoleBelongs, TaskBelongs
    <2>7. Accepted(n)
      BY <2>2, <2>4 DEF Accepted
    <2>8. Follow(n.events, Len(n.shown), n.comm)
      BY <2>1, <2>2, <2>7 DEF Accepted
    <2>9. TextsFollow(n)
      BY <1>1, <2>1, <2>2, <2>4, <2>7, <2>8, NoTextsFollow
      DEF ClientInv, TextsFollow, InComm
    <2> QED
      BY <2>1, <2>5, <2>6, <2>9 DEF ClientInv, IsClient, Changes
  <1> QED
    BY <1>2, <1>3, <1>4, <1>5, StepKeeps

LEMMA SpeakingChannel ==
    ASSUME NEW ch \in End, NEW e \in Event, NEW n, n = AfterEncrypt(ch, e), e # Identity
    PROVE  /\ n \in End /\ n.session = ch.session /\ n.role = ch.role
           /\ Usable(n) => /\ Usable(ch)
                           /\ n.receiveCounter = ch.receiveCounter
                           /\ n.peerIdentityReceived = ch.peerIdentityReceived
  <1>1. CASE e = Close
    BY <1>1, EncryptingChannel
  <1>2. CASE e # Close
    BY <1>2, EncryptingChannel DEF Usable
  <1> QED
    BY <1>1, <1>2

\* The comm screen sends a text or the close: the channel goes on receiving, or
\* is not usable any more.
LEMMA SpeakingKeeps ==
    ASSUME NEW k, ClientInv(k), k.ui \in {"comm", "confirming"}, k.channel # NoChannel,
           NEW e \in Event \ {Identity}, NEW n, Changes(k, n, {"ui", "channel", "taskPair"}),
           n.ui \in {"writing", "saying bye"}, n.channel = AfterEncrypt(k.channel, e),
           n.taskPair \in Pair, n.ui = "saying bye" => n.taskPair # 0
    PROVE  ClientInv(n)
  <1>1. IsClient(k) /\ k.channel \in End
    BY DEF ClientInv, IsClient, ClientTypes
  <1> DEFINE ch == n.channel
  <1>0. e \in Event /\ e # Identity /\ ch = AfterEncrypt(k.channel, e)
    OBVIOUS
  <1>2. /\ ch \in End /\ ch.session = k.channel.session /\ ch.role = k.channel.role
        /\ Usable(ch) => /\ Usable(k.channel)
                         /\ ch.receiveCounter = k.channel.receiveCounter
                         /\ ch.peerIdentityReceived = k.channel.peerIdentityReceived
    BY <1>0, <1>1, SpeakingChannel, ZenonT(40)
  <1>3. /\ n.task = k.task /\ n.role = k.role /\ n.pair = k.pair /\ n.participant = k.participant
        /\ n.events = k.events /\ n.comm = k.comm /\ n.over = k.over /\ n.shown = k.shown
    BY DEF Changes, Fields
  <1>4. k.task = "none"
    BY DEF ClientInv, TaskBelongs
  <1>5. n.ui \in Screen
    BY DEF Screen
  <1>6. ClientTypes(n)
    BY <1>1, <1>2, <1>5 DEF IsClient, ClientTypes, Changes, Fields
  <1>7. k.channel.session # 0 /\ ~k.participant
    BY DEF ClientInv, RoleBelongs, TextsFollow
  <1>8. RoleBelongs(n)
    BY <1>2, <1>3, <1>7, NoChannelIsEnd DEF ClientInv, RoleBelongs
  <1>9. TaskBelongs(n)
    BY <1>3, <1>4 DEF TaskBelongs
  <1>10. Watches(n) = Watches(k) /\ InComm(k)
    BY <1>3 DEF Watches, InComm
  <1>11. Watches(k) => Accepted(k) /\ Follow(k.events, Len(k.shown), k.comm)
                       /\ k.channel.session = k.comm
    BY DEF ClientInv, TextsFollow
  <1>12. Watches(n) => Accepted(n) /\ Follow(n.events, Len(n.shown), n.comm)
                       /\ n.channel.session = n.comm
    BY <1>2, <1>3, <1>10, <1>11 DEF Accepted
  <1>13. TextsFollow(n)
    BY <1>3, <1>4, <1>7, <1>10, <1>12 DEF ClientInv, TextsFollow, InComm
  <1> QED
    BY <1>6, <1>8, <1>9, <1>13 DEF ClientInv, IsClient, Changes

LEMMA WriteKeeps ==
    ASSUME CommInv, NEW c \in Client, Write(c) PROVE CommInv'
  <1> DEFINE k == client[c]
             n(text) == [k EXCEPT !.ui = "writing", !.channel = AfterEncrypt(@, text)]
             q(text) == DataRequest("ui", Encrypted(k.channel, text))
             m == [k EXCEPT !.over = TRUE]
  <1>1. ClientInv(k) /\ IsClient(k) /\ k.ui = "comm"
    BY DEF CommInv, ClientInv, Write
  <1>2. UNCHANGED <<down, relayVars, faultVars>>
    BY DEF Write
  <1>3. PICK text \in Text : \/ Active(k.channel) /\ Ask(c, n(text), q(text))
                             \/ Update(c, m) /\ UNCHANGED up
    BY DEF Write
  <1> HIDE DEF k
  <1>4. CASE Active(k.channel) /\ Ask(c, n(text), q(text))
    <2> DEFINE nt == n(text)
               qt == q(text)
    <2>1. k.channel # NoChannel /\ k.channel \in End
      BY <1>1, <1>4, NoChannelIsEnd DEF Active, IsClient, ClientTypes
    <2>2. text \in Event \ {Identity}
      BY ChannelAssumption DEF Event, Identity
    <2>3. /\ Changes(k, nt, {"ui", "channel"}) /\ nt.ui = "writing"
          /\ nt.channel = AfterEncrypt(k.channel, text)
      BY <1>1 DEF Changes, IsClient, IsRecord, Fields
    <2>4. Ask(c, nt, qt)
      BY <1>4
    <2>5. qt \in UpFrame /\ qt.by \in By
      <3>1. k.channel.session \in Session
        BY <1>1, <2>1 DEF ClientInv, RoleBelongs, End, Pair
      <3>2. Encrypted(k.channel, text) \in Frame
        BY <2>1, <2>2, <3>1 DEF Encrypted, Frame, End
      <3> QED
        BY <3>2, RequestTypes DEF By
    <2> HIDE DEF nt, qt, n, q
    <2>6. nt.taskPair \in Pair
      BY <1>1, <2>3 DEF Changes, Fields, IsClient, ClientTypes
    <2>7. Changes(k, nt, {"ui", "channel", "taskPair"})
      BY <2>3 DEF Changes
    <2>8. ClientInv(nt)
      BY <1>1, <2>1, <2>2, <2>3, <2>6, <2>7, SpeakingKeeps
    <2> QED
      BY <1>2, <2>4, <2>5, <2>8, AskKeeps
  <1>5. CASE Update(c, m) /\ UNCHANGED up
    <2>1. Changes(k, m, {"over"}) /\ m.over = TRUE
      BY <1>1 DEF Changes, IsClient, IsRecord, Fields
    <2> HIDE DEF m
    <2>2. m.ui = "comm" /\ Changes(k, m, {"ui", "over"})
      BY <1>1, <2>1 DEF Changes, Fields
    <2>3. m.ui \in Screen \ {"starting", "joining"} /\ InComm(m) /\ ~Watches(m)
      BY <2>1, <2>2 DEF Screen, InComm, Watches
    <2>4. k.task = "none"
      BY <1>1 DEF ClientInv, TaskBelongs
    <2>5. ClientInv(m)
      BY <1>1, <2>1, <2>2, <2>3, <2>4, ScreenKeeps
    <2> QED
      BY <1>2, <1>5, <2>5, StepKeeps
  <1> QED
    BY <1>3, <1>4, <1>5

\* A step within the comm screens.
LEMMA InCommKeeps ==
    ASSUME NEW k, ClientInv(k), InComm(k), NEW n, Changes(k, n, {"ui", "over"}),
           n.over = k.over \/ n.over = TRUE,
           n.ui \in {"comm", "writing", "confirming", "saying bye", "closing", "crashed"},
           n.ui \in {"saying bye", "closing"} => k.taskPair # 0
    PROVE  ClientInv(n)
  <1>1. IsClient(k)
    BY DEF ClientInv
  <1>2. k.task = "none" /\ n.over \in BOOLEAN
    BY <1>1 DEF ClientInv, TaskBelongs, InComm, IsClient, ClientTypes
  <1>3. n.ui \in Screen \ {"starting", "joining"} /\ (InComm(n) \/ n.ui = "crashed")
    BY DEF Screen, InComm
  <1>4. Watches(n) => Watches(k)
    BY DEF Watches
  <1> QED
    BY <1>2, <1>3, <1>4, ScreenKeeps

LEMMA TextAnsweredKeeps ==
    ASSUME CommInv, NEW c \in Client, TextAnswered(c) PROVE CommInv'
  <1> DEFINE k == Resumed(c, "ui")
             n == [k EXCEPT !.ui = "comm", !.over = @ \/ client[c].pending["ui"] # "ok"]
  <1>1. ClientInv(k)
    BY ResumedKeeps DEF By
  <1>2. k.ui = "writing" /\ UNCHANGED <<up, down, relayVars, faultVars>> /\ Update(c, n)
    BY DEF TextAnswered
  <1> HIDE DEF k
  <1>3. IsClient(k) /\ InComm(k)
    BY <1>1, <1>2 DEF ClientInv, InComm
  <1>4. Changes(k, n, {"ui", "over"}) /\ n.ui = "comm"
        /\ n.over = (k.over \/ client[c].pending["ui"] # "ok")
    BY <1>3 DEF Changes, IsClient, IsRecord, Fields
  <1> HIDE DEF n
  <1>5. n.over = k.over \/ n.over = TRUE
    BY <1>3, <1>4 DEF IsClient, ClientTypes
  <1>6. ClientInv(n)
    BY <1>1, <1>3, <1>4, <1>5, InCommKeeps
  <1> QED
    BY <1>2, <1>6, StepKeeps

LEMMA ConfirmKeeps ==
    ASSUME CommInv, NEW c \in Client, AskToEnd(c) \/ Refrain(c) PROVE CommInv'
  <1> DEFINE k == client[c]
  <1>1. ClientInv(k) /\ IsClient(k) /\ InComm(k)
    BY DEF CommInv, ClientInv, AskToEnd, Refrain, InComm
  <1>2. UNCHANGED <<up, down, relayVars, faultVars>>
    BY DEF AskToEnd, Refrain
  <1>3. PICK u \in {"comm", "confirming"} : Update(c, [k EXCEPT !.ui = u])
    BY DEF AskToEnd, Refrain
  <1> DEFINE n == [k EXCEPT !.ui = u]
  <1>4. Update(c, n)
    BY <1>3
  <1> HIDE DEF k
  <1>5. Changes(k, n, {"ui", "over"}) /\ n.ui = u /\ n.over = k.over
    BY <1>1 DEF Changes, IsClient, IsRecord, Fields
  <1> HIDE DEF n
  <1>7. ClientInv(n)
    BY <1>1, <1>5, InCommKeeps
  <1> QED
    BY <1>2, <1>4, <1>7, StepKeeps

LEMMA EndSessionKeeps ==
    ASSUME CommInv, NEW c \in Client, EndSession(c) PROVE CommInv'
  <1> DEFINE k == client[c]
             quits == [k EXCEPT !.ui = "comm", !.over = TRUE]
             crashes == [k EXCEPT !.ui = "crashed"]
             says == [k EXCEPT !.ui = "saying bye", !.channel = AfterEncrypt(@, Close),
                               !.taskPair = k.pair]
             q == DataRequest("ui", Encrypted(k.channel, Close))
  <1>1. ClientInv(k) /\ IsClient(k) /\ k.ui = "confirming" /\ InComm(k)
    BY DEF CommInv, ClientInv, EndSession, InComm
  <1>2. UNCHANGED <<down, relayVars, faultVars>>
    BY DEF EndSession
  <1>3. \/ Update(c, quits) /\ UNCHANGED up
        \/ Update(c, crashes) /\ UNCHANGED up
        \/ k.channel # NoChannel /\ k.pair # 0 /\ Ask(c, says, q)
    BY DEF EndSession
  <1> HIDE DEF k
  <1>4. ClientInv(quits)
    <2>1. Changes(k, quits, {"ui", "over"}) /\ quits.ui = "comm" /\ quits.over = TRUE
      BY <1>1 DEF Changes, IsClient, IsRecord, Fields
    <2> HIDE DEF quits
    <2> QED
      BY <1>1, <2>1, InCommKeeps
  <1>5. ClientInv(crashes)
    <2>1. Changes(k, crashes, {"ui", "over"}) /\ crashes.ui = "crashed" /\ crashes.over = k.over
      BY <1>1 DEF Changes, IsClient, IsRecord, Fields
    <2> HIDE DEF crashes
    <2> QED
      BY <1>1, <2>1, InCommKeeps
  <1>6. CASE k.channel # NoChannel /\ k.pair # 0 /\ Ask(c, says, q)
    <2>1. /\ Changes(k, says, {"ui", "channel", "taskPair"}) /\ says.ui = "saying bye"
          /\ says.channel = AfterEncrypt(k.channel, Close) /\ says.taskPair = k.pair
      BY <1>1 DEF Changes, IsClient, IsRecord, Fields
    <2>2. Close \in Event \ {Identity} /\ k.pair \in Pair /\ k.channel \in End
      BY <1>1 DEF Event, Close, Identity, IsClient, ClientTypes
    <2>3. q \in UpFrame /\ q.by \in By
      <3>1. k.channel.session \in Session
        BY <1>1, <1>6, <2>2 DEF ClientInv, RoleBelongs, End, Pair
      <3>2. Encrypted(k.channel, Close) \in Frame
        BY <2>2, <3>1 DEF Encrypted, Frame, End
      <3> QED
        BY <3>2, RequestTypes DEF By
    <2> HIDE DEF says, q
    <2>4. ClientInv(says)
      BY <1>1, <1>6, <2>1, <2>2, SpeakingKeeps
    <2> QED
      BY <1>2, <1>6, <2>3, <2>4, AskKeeps
  <1> HIDE DEF quits, crashes, says, q
  <1> QED
    BY <1>2, <1>3, <1>4, <1>5, <1>6, StepKeeps

\* The comm is over: the session state is discarded, and the screen returns.
LEMMA OverKeeps ==
    ASSUME NEW k, ClientInv(k), InComm(k),
           NEW n, n = [DiscardState(k) EXCEPT !.ui = "comm", !.over = TRUE]
    PROVE  ClientInv(n)
  <1> DEFINE d == DiscardState(k)
  <1>1. ClientInv(d) /\ d.ui = k.ui
    BY DiscardKeeps DEF Changes, Fields
  <1>2. n = [d EXCEPT !.ui = "comm", !.over = TRUE]
    OBVIOUS
  <1> HIDE DEF d
  <1>3. IsClient(d) /\ InComm(d)
    BY <1>1 DEF ClientInv, InComm
  <1>4. Changes(d, n, {"ui", "over"}) /\ n.ui = "comm" /\ n.over = TRUE
    BY <1>2, <1>3 DEF Changes, IsClient, IsRecord, Fields
  <1> QED
    BY <1>1, <1>3, <1>4, InCommKeeps

LEMMA ByeAnsweredKeeps ==
    ASSUME CommInv, NEW c \in Client, ByeAnswered(c) PROVE CommInv'
  <1> DEFINE k == Resumed(c, "ui")
             closes == [k EXCEPT !.ui = "closing"]
             over == [DiscardState(k) EXCEPT !.ui = "comm", !.over = TRUE]
             q == Request("close", "ui", k.taskPair)
  <1>1. ClientInv(k)
    BY ResumedKeeps DEF By
  <1>2. k.ui = "saying bye" /\ UNCHANGED <<down, relayVars, faultVars>>
    BY DEF ByeAnswered
  <1>3. \/ Ask(c, closes, q)
        \/ Update(c, over) /\ UNCHANGED up
    <2>1. CASE client[c].pending["ui"] = "ok"
      BY <2>1 DEF ByeAnswered
    <2>2. CASE client[c].pending["ui"] # "ok"
      BY <2>2 DEF ByeAnswered
    <2> QED
      BY <2>1, <2>2
  <1> HIDE DEF k
  <1>4. IsClient(k) /\ InComm(k) /\ k.taskPair # 0 /\ k.taskPair \in Session
    BY <1>1, <1>2 DEF ClientInv, InComm, TaskBelongs, IsClient, ClientTypes, Pair
  <1>5. ClientInv(over)
    BY <1>1, <1>4, OverKeeps
  <1>6. ClientInv(closes)
    <2>1. Changes(k, closes, {"ui", "over"}) /\ closes.ui = "closing" /\ closes.over = k.over
      BY <1>4 DEF Changes, IsClient, IsRecord, Fields
    <2> HIDE DEF closes
    <2> QED
      BY <1>1, <1>4, <2>1, InCommKeeps
  <1>7. q \in UpFrame /\ q.by \in By
    BY <1>4, RequestTypes DEF By
  <1> HIDE DEF closes, over, q
  <1> QED
    BY <1>2, <1>3, <1>5, <1>6, <1>7, StepKeeps, AskKeeps

LEMMA CloseAnsweredKeeps ==
    ASSUME CommInv, NEW c \in Client, CloseAnswered(c) PROVE CommInv'
  <1> DEFINE k == Resumed(c, "ui")
             over == [DiscardState(k) EXCEPT !.ui = "comm", !.over = TRUE]
  <1>1. ClientInv(k)
    BY ResumedKeeps DEF By
  <1>2. k.ui = "closing" /\ UNCHANGED <<up, down, relayVars, faultVars>> /\ Update(c, over)
    BY DEF CloseAnswered, Resumed
  <1> HIDE DEF k
  <1>3. ClientInv(over)
    BY <1>1, <1>2, OverKeeps DEF InComm
  <1> QED
    BY <1>2, <1>3, StepKeeps

LEMMA FollowTail ==
    ASSUME NEW S, NEW q \in Seq(S), q # <<>>, NEW n \in Nat, NEW s, Follow(q, n, s)
    PROVE  Follow(Tail(q), n + 1, s)
  <1>1. SUFFICES ASSUME NEW i \in 1..Len(Tail(q)), Tail(q)[i].event # Close
                 PROVE  Tail(q)[i].session = s /\ Tail(q)[i].counter = (n + 1) + i
    BY DEF Follow
  <1>2. Len(Tail(q)) = Len(q) - 1 /\ Len(q) \in Nat /\ Tail(q)[i] = q[i + 1]
    BY <1>1
  <1>3. i + 1 \in 1..Len(q)
    BY <1>1, <1>2
  <1>4. q[i + 1].session = s /\ q[i + 1].counter = n + (i + 1)
    BY <1>1, <1>2, <1>3 DEF Follow
  <1> QED
    BY <1>2, <1>4

\* The watcher shows the text at the head of the queue.
LEMMA ShowKeeps ==
    ASSUME NEW k, ClientInv(k), Watches(k), k.events # <<>>, Head(k.events).event # Close,
           NEW n, n = [k EXCEPT !.shown = Append(@, Head(k.events)), !.events = Tail(@)]
    PROVE  ClientInv(n)
  <1> DEFINE f == Head(k.events)
  <1>1. IsClient(k) /\ k.events \in Seq(Frame) /\ k.shown \in Seq(Frame)
    BY DEF ClientInv, IsClient, ClientTypes
  <1>2. /\ Changes(k, n, {"shown", "events"})
        /\ n.shown = Append(k.shown, f) /\ n.events = Tail(k.events)
    BY <1>1 DEF Changes, IsClient, IsRecord, Fields
  <1>3. /\ n.ui = k.ui /\ n.task = k.task /\ n.role = k.role /\ n.pair = k.pair
        /\ n.taskPair = k.taskPair /\ n.participant = k.participant
        /\ n.channel = k.channel /\ n.comm = k.comm /\ n.over = k.over
    BY <1>2 DEF Changes, Fields
  <1>4. f \in Frame /\ Tail(k.events) \in Seq(Frame)
    BY <1>1
  <1>5. n.shown \in Seq(Frame) /\ n.events \in Seq(Frame)
    BY <1>1, <1>2, <1>4
  <1>6. ClientTypes(n)
    BY <1>1, <1>2, <1>5 DEF IsClient, ClientTypes, Changes, Fields
  <1>7. RoleBelongs(n) /\ TaskBelongs(n)
    BY <1>3 DEF ClientInv, RoleBelongs, TaskBelongs
  <1>8. /\ Follow(k.events, Len(k.shown), k.comm) /\ Follow(k.shown, 0, k.comm)
        /\ \A i \in 1..Len(k.shown) : k.shown[i].event # Close
        /\ k.channel # NoChannel => Accepted(k)
        /\ ~k.participant
    BY DEF ClientInv, TextsFollow
  <1>9. Len(k.shown) \in Nat /\ Len(n.shown) = Len(k.shown) + 1 /\ Len(n.shown) \in Nat
    BY <1>1, <1>2, <1>4
  <1>10. \A s : Follow(k.events, Len(k.shown), s) => Follow(n.events, Len(n.shown), s)
    BY <1>1, <1>2, <1>9, FollowTail
  <1>11. Follow(n.shown, 0, k.comm) /\ \A i \in 1..Len(n.shown) : n.shown[i].event # Close
    <2>1. 1 \in 1..Len(k.events) /\ k.events[1] = f
      BY <1>1
    <2>2. f.session = k.comm /\ f.counter = Len(k.shown) + 1
      BY <1>8, <2>1 DEF Follow
    <2>3. f.counter = 0 + Len(k.shown) + 1
      BY <1>9, <2>2
    <2>4. Follow(n.shown, 0, k.comm)
      BY <1>1, <1>2, <1>4, <1>8, <2>2, <2>3, FollowAppend
    <2>5. ASSUME NEW i \in 1..Len(n.shown) PROVE n.shown[i].event # Close
      <3>1. CASE i = Len(k.shown) + 1
        BY <1>1, <1>2, <1>4, <3>1
      <3>2. CASE i \in 1..Len(k.shown)
        BY <1>1, <1>2, <1>4, <1>8, <3>2
      <3> QED
        BY <1>9, <3>1, <3>2
    <2> QED
      BY <2>4, <2>5
  <1>12. k.channel # NoChannel => Accepted(n)
    <2> SUFFICES ASSUME k.channel # NoChannel PROVE Accepted(n)
      OBVIOUS
    <2>1. Accepted(k)
      BY <1>8
    <2>2. Follow(n.events, Len(n.shown), n.channel.session)
      BY <1>3, <1>10, <2>1 DEF Accepted
    <2>3. ASSUME Usable(k.channel)
          PROVE  /\ k.channel.peerIdentityReceived
                 /\ k.channel.receiveCounter = Len(n.shown) + Len(n.events) + 1
      <3>1. k.channel.peerIdentityReceived
        BY <2>1, <2>3 DEF Accepted
      <3>2. k.channel.receiveCounter = Len(k.shown) + Len(k.events) + 1
        BY <2>1, <2>3, <3>1 DEF Accepted
      <3>3. Len(k.events) \in Nat /\ Len(k.events) # 0 /\ Len(n.events) = Len(k.events) - 1
        BY <1>1, <1>2
      <3>4. Len(k.shown) + Len(k.events) = Len(n.shown) + Len(n.events)
        <4>1. \A a, b \in Nat : b # 0 => a + b = (a + 1) + (b - 1)
          OBVIOUS
        <4> QED
          BY <1>9, <3>3, <4>1, Zenon
      <3> QED
        BY <3>1, <3>2, <3>4
    <2> QED
      BY <1>3, <2>2, <2>3 DEF Accepted
  <1>13. Watches(n) = Watches(k) /\ InComm(n)
    BY <1>3 DEF Watches, InComm
  <1>14. TextsFollow(n)
    BY <1>3, <1>8, <1>10, <1>11, <1>12, <1>13 DEF ClientInv, TextsFollow
  <1> QED
    BY <1>2, <1>6, <1>7, <1>14 DEF ClientInv, IsClient, Changes

LEMMA WatchKeeps ==
    ASSUME CommInv, NEW c \in Client, Watch(c) PROVE CommInv'
  <1> DEFINE k == client[c]
             f == Head(k.events)
             over == [k EXCEPT !.over = TRUE]
             closed == [k EXCEPT !.over = TRUE, !.events = Tail(@)]
             more == [k EXCEPT !.shown = Append(@, f), !.events = Tail(@)]
  <1>1. ClientInv(k) /\ IsClient(k) /\ InComm(k) /\ Watches(k)
    BY DEF CommInv, ClientInv, Watch, Watches
  <1>2. UNCHANGED <<up, down, relayVars, faultVars>>
    BY DEF Watch
  <1>3. \/ Update(c, over)
        \/ k.events # <<>> /\ f.event = Close /\ Update(c, closed)
        \/ k.events # <<>> /\ f.event # Close /\ Update(c, more)
    BY DEF Watch
  <1> HIDE DEF k
  <1>4. CASE Update(c, over)
    <2>1. Changes(k, over, {"ui", "over"}) /\ over.ui = k.ui /\ over.over = TRUE
      BY <1>1 DEF Changes, IsClient, IsRecord, Fields
    <2>2. k.ui \in {"saying bye", "closing"} => k.taskPair # 0
      BY <1>1 DEF ClientInv, TaskBelongs
    <2> HIDE DEF over
    <2>3. ClientInv(over)
      BY <1>1, <2>1, <2>2, InCommKeeps DEF InComm
    <2> QED
      BY <1>2, <1>4, <2>3, StepKeeps
  <1>5. CASE k.events # <<>> /\ f.event = Close /\ Update(c, closed)
    <2>1. /\ Changes(k, closed, {"over", "events"}) /\ closed.over = TRUE
          /\ closed.events = Tail(k.events)
      BY <1>1 DEF Changes, IsClient, IsRecord, Fields
    <2>2. /\ closed.ui = k.ui /\ closed.task = k.task /\ closed.role = k.role
          /\ closed.pair = k.pair /\ closed.taskPair = k.taskPair
          /\ closed.participant = k.participant /\ closed.channel = k.channel
          /\ closed.comm = k.comm /\ closed.shown = k.shown
      BY <2>1 DEF Changes, Fields
    <2> HIDE DEF closed
    <2>3. k.task = "none" /\ ~k.participant
      BY <1>1, <1>5 DEF ClientInv, TaskBelongs, TextsFollow, InComm
    <2>4. ClientTypes(closed)
      <3>1. k.events \in Seq(Frame)
        BY <1>1 DEF IsClient, ClientTypes
      <3>2. closed.events \in Seq(Frame)
        BY <1>5, <2>1, <3>1
      <3> QED
        BY <1>1, <2>1, <3>2 DEF IsClient, ClientTypes, Changes, Fields
    <2>5. RoleBelongs(closed) /\ TaskBelongs(closed)
      BY <1>1, <2>2 DEF ClientInv, RoleBelongs, TaskBelongs
    <2>6. ~Watches(closed) /\ InComm(closed)
      BY <1>1, <2>1, <2>2 DEF Watches, InComm
    <2>7. TextsFollow(closed)
      BY <1>1, <2>2, <2>3, <2>6 DEF ClientInv, TextsFollow
    <2>8. ClientInv(closed)
      BY <2>1, <2>4, <2>5, <2>7 DEF ClientInv, IsClient, Changes
    <2> QED
      BY <1>2, <1>5, <2>8, StepKeeps
  <1>6. CASE k.events # <<>> /\ f.event # Close /\ Update(c, more)
    <2>1. ClientInv(more)
      BY <1>1, <1>6, ShowKeeps
    <2> QED
      BY <1>2, <1>6, <2>1, StepKeeps
  <1> QED
    BY <1>3, <1>4, <1>5, <1>6

LEMMA ScreenStepKeeps ==
    ASSUME CommInv, NEW c \in Client, ScreenStep(c) PROVE CommInv'
  <1>1. CASE LeaveComm(c)
    <2>1. ClientInv(client[c])
      BY DEF CommInv
    <2>2. ClientInv(ToHub(client[c]))
      BY <2>1, ToHubKeeps
    <2>3. Update(c, ToHub(client[c])) /\ UNCHANGED <<up, down, relayVars, faultVars>>
      BY <1>1 DEF LeaveComm
    <2> QED
      BY <2>2, <2>3, StepKeeps
  <1> QED
    BY <1>1, WaitAnsweredKeeps, JoinAnsweredKeeps, CancelAnsweredKeeps, SetupEndsKeeps,
       TextAnsweredKeeps, ByeAnsweredKeeps, CloseAnsweredKeeps, WatchKeeps DEF ScreenStep

LEMMA UserStepKeeps ==
    ASSUME CommInv, NEW c \in Client, UserStep(c) PROVE CommInv'
  BY StartKeeps, CancelKeeps, WriteKeeps, ConfirmKeeps, EndSessionKeeps DEF UserStep

-----------------------------------------------------------------------------
(* Steps of the reader and of the network *)

LEMMA ReadKeeps ==
    ASSUME CommInv, NEW c \in Client, Read(c) PROVE CommInv'
  <1> DEFINE k == client[c]
             f == Head(down[c])
             n == Heard(k, f)
  <1>1. ClientInv(k) /\ down \in [Client -> Seq(DownFrame)] /\ down[c] # <<>>
        /\ up' \in [Client -> Seq(UpFrame)]
    BY DEF CommInv, Read
  <1>2. UNCHANGED relayVars /\ UNCHANGED faultVars
    BY DEF Read
  <1>3. down[c] \in Seq(DownFrame) /\ f \in DownFrame /\ Tail(down[c]) \in Seq(DownFrame)
    BY <1>1
  <1>4. Update(c, n)
    BY DEF Read, Heard
  <1>5. down' \in [Client -> Seq(DownFrame)]
    <2>1. \E g \in Seq(DownFrame) : down' = [down EXCEPT ![c] = g]
      BY <1>3, EmptySequence DEF Read
    <2> QED
      BY <1>1, <2>1
  <1>6. ClientInv(n)
    BY <1>1, <1>3, HeardKeeps
  <1>7. RelayTypes'
    BY <1>2, SameRelayTypes
  <1> HIDE DEF n
  <1> QED
    BY <1>1, <1>4, <1>5, <1>6, <1>7, UpdateKeeps

LEMMA NewClientKeeps ==
    /\ ClientInv(NewClient)
    /\ ClientInv([NewClient EXCEPT !.connected = FALSE, !.ui = "offline"])
  <1> DEFINE k(b, u) ==
        [connected |-> b, ui |-> u, task |-> "none", role |-> Nobody,
         pair |-> 0, taskPair |-> 0, participant |-> FALSE, channel |-> NoChannel,
         buffered |-> <<>>, identified |-> FALSE, pairs |-> <<>>, proofs |-> <<>>,
         events |-> <<>>, closes |-> <<>>, comm |-> 0, over |-> FALSE, shown |-> <<>>,
         failing |-> 0, pending |-> [by \in By |-> "none"]]
  <1>1. ASSUME NEW b \in BOOLEAN, NEW u \in {"hub", "offline"} PROVE ClientInv(k(b, u))
    <2> DEFINE n == k(b, u)
    <2>1. IsRecord(n)
      BY DEF IsRecord, Fields
    <2>2. /\ n.connected = b /\ n.ui = u /\ n.task = "none" /\ n.role = Nobody
          /\ n.pair = 0 /\ n.taskPair = 0 /\ n.participant = FALSE /\ n.channel = NoChannel
          /\ n.buffered = <<>> /\ n.identified = FALSE /\ n.pairs = <<>> /\ n.proofs = <<>>
          /\ n.events = <<>> /\ n.closes = <<>> /\ n.comm = 0 /\ n.over = FALSE
          /\ n.shown = <<>> /\ n.failing = 0 /\ n.pending = [by \in By |-> "none"]
      OBVIOUS
    <2> HIDE DEF k
    <2>3. /\ n.buffered \in Seq(Frame) /\ n.pairs \in Seq(PairFrame)
          /\ n.proofs \in Seq(ProofFrame) /\ n.events \in Seq(Frame)
          /\ n.closes \in Seq(Reason) /\ n.shown \in Seq(Frame)
      BY <2>2, EmptySequence
    <2>4. n.pending \in [By -> {"none", "sent"} \cup Result]
      BY <2>2
    <2>5. n.ui \in Screen /\ n.task \in Task /\ n.pair \in Pair /\ n.taskPair \in Pair
          /\ n.comm \in Pair /\ n.failing \in Pair
      BY <2>2 DEF Screen, Task, Pair
    <2>6. ClientTypes(n)
      BY <2>2, <2>3, <2>4, <2>5, NoChannelIsEnd DEF ClientTypes
    <2>7. RoleBelongs(n)
      BY <2>2 DEF RoleBelongs
    <2>8. TaskBelongs(n)
      BY <2>2 DEF TaskBelongs
    <2>9. TextsFollow(n)
      BY <2>2, NoTextsFollow DEF TextsFollow, Watches, InComm
    <2> QED
      BY <2>1, <2>6, <2>7, <2>8, <2>9 DEF ClientInv, IsClient
  <1>2. NewClient = k(TRUE, "hub")
    BY DEF NewClient, By
  <1>3. [NewClient EXCEPT !.connected = FALSE, !.ui = "offline"] = k(FALSE, "offline")
    <2> DEFINE m == k(TRUE, "hub")
               o == k(FALSE, "offline")
               n == [m EXCEPT !.connected = FALSE, !.ui = "offline"]
    <2>1. IsRecord(m) /\ IsRecord(o)
      BY DEF IsRecord, Fields
    <2>2. \A f \in Fields \ {"connected", "ui"} : m[f] = o[f]
      <3>1. /\ m.task = o.task /\ m.role = o.role /\ m.pair = o.pair
            /\ m.taskPair = o.taskPair /\ m.participant = o.participant /\ m.channel = o.channel
            /\ m.buffered = o.buffered /\ m.identified = o.identified /\ m.pairs = o.pairs
            /\ m.proofs = o.proofs /\ m.events = o.events /\ m.closes = o.closes
            /\ m.comm = o.comm /\ m.over = o.over /\ m.shown = o.shown
            /\ m.failing = o.failing /\ m.pending = o.pending
        OBVIOUS
      <3> HIDE DEF k
      <3> QED
        BY <3>1 DEF Fields
    <2>3. o.connected = FALSE /\ o.ui = "offline"
      OBVIOUS
    <2> HIDE DEF k
    <2>4. /\ IsRecord(n) /\ \A f \in Fields \ {"connected", "ui"} : n[f] = m[f]
          /\ n.connected = FALSE /\ n.ui = "offline"
      BY <2>1 DEF IsRecord, Fields
    <2>5. \A f \in Fields : n[f] = o[f]
      BY <2>2, <2>3, <2>4
    <2>6. n = o
      BY <2>1, <2>4, <2>5 DEF IsRecord
    <2> QED
      BY <1>2, <2>6
  <1> HIDE DEF k
  <1> QED
    BY <1>1, <1>2, <1>3

LEMMA HangUpKeeps ==
    ASSUME CommInv, NEW c \in Client, HangUp(c) PROVE CommInv'
  <1> DEFINE n == [NewClient EXCEPT !.connected = FALSE, !.ui = "offline"]
  <1>1. Update(c, n) /\ UNCHANGED relayVars /\ UNCHANGED faultVars
    BY DEF HangUp
  <1>2. up \in [Client -> Seq(UpFrame)] /\ down' \in [Client -> Seq(DownFrame)]
    BY DEF CommInv, HangUp
  <1>3. up' \in [Client -> Seq(UpFrame)]
    <2>1. Eof \in UpFrame
      BY DEF UpFrame
    <2>2. <<Eof>> \in Seq(UpFrame) /\ up[c] \in Seq(UpFrame)
      BY <1>2, <2>1
    <2>3. Sent(up[c], <<Eof>>) \in Seq(UpFrame)
      BY <2>2, SentFrames
    <2> QED
      BY <1>2, <2>3 DEF HangUp
  <1>4. RelayTypes'
    BY <1>1, SameRelayTypes
  <1>5. ClientInv(n)
    BY NewClientKeeps
  <1> HIDE DEF n
  <1> QED
    BY <1>1, <1>2, <1>3, <1>4, <1>5, UpdateKeeps

LEMMA FaultTypes ==
    ASSUME CommInv, UNCHANGED relayVars, faults' \in 0..MaxFaults, damaged' \in BOOLEAN
    PROVE  RelayTypes'
  BY DEF CommInv, RelayTypes, Members, relayVars

LEMMA FaultyCounts ==
    ASSUME CommInv, Faulty PROVE faults' \in 0..MaxFaults
  BY CommAssumption DEF CommInv, RelayTypes, Faulty

\* No client changes.
LEMMA OthersKeep ==
    ASSUME CommInv, UNCHANGED client,
           up' \in [Client -> Seq(UpFrame)], down' \in [Client -> Seq(DownFrame)], RelayTypes'
    PROVE  CommInv'
  <1>1. (client = [d \in Client |-> client[d]])'
    BY DEF CommInv
  <1>2. \A d \in Client : ClientInv(client'[d])
    BY DEF CommInv
  <1>3. (\A d \in Client : ClientInv(client[d]))'
    BY <1>2 DEF ClientInv, IsClient, IsRecord, ClientTypes, RoleBelongs, TaskBelongs,
           TextsFollow, Accepted, Follow, Watches, InComm
  <1> QED
    BY <1>1, <1>3 DEF CommInv

LEMMA ConnectionLostKeeps ==
    ASSUME CommInv, NEW c \in Client, ConnectionLost(c) PROVE CommInv'
  <1>1. up \in [Client -> Seq(UpFrame)] /\ down \in [Client -> Seq(DownFrame)]
        /\ damaged \in BOOLEAN
    BY DEF CommInv, RelayTypes
  <1>2. UNCHANGED client /\ UNCHANGED relayVars /\ UNCHANGED damaged /\ Faulty
    BY DEF ConnectionLost
  <1>3. RelayTypes'
    BY <1>1, <1>2, FaultyCounts, FaultTypes
  <1>4. ASSUME NEW S, Eof \in S, NEW q \in Seq(S), NEW n \in {0, Len(q)}
        PROVE  Append(SubSeq(q, 1, n), Eof) \in Seq(S)
    <2>1. SubSeq(q, 1, n) \in Seq(S)
      <3>1. n \in Nat /\ n <= Len(q)
        OBVIOUS
      <3> QED
        BY <3>1
    <2> QED
      BY <1>4, <2>1
  <1>5. up' \in [Client -> Seq(UpFrame)]
    <2>1. PICK n \in {0, Len(up[c])} : up' = [up EXCEPT ![c] = Append(SubSeq(@, 1, n), Eof)]
      BY DEF ConnectionLost
    <2>2. Append(SubSeq(up[c], 1, n), Eof) \in Seq(UpFrame)
      BY <1>1, <1>4 DEF UpFrame
    <2> QED
      BY <1>1, <2>1, <2>2
  <1>6. down' \in [Client -> Seq(DownFrame)]
    <2>1. PICK n \in {0, Len(down[c])} :
              down' = [down EXCEPT ![c] = Append(SubSeq(@, 1, n), Eof)]
      BY DEF ConnectionLost
    <2>2. Append(SubSeq(down[c], 1, n), Eof) \in Seq(DownFrame)
      BY <1>1, <1>4 DEF DownFrame
    <2> QED
      BY <1>1, <2>1, <2>2
  <1> QED
    BY <1>2, <1>3, <1>5, <1>6, OthersKeep

LEMMA FrameDamagedKeeps ==
    ASSUME CommInv, NEW c \in Client, FrameDamaged(c) PROVE CommInv'
  <1>1. up' \in [Client -> Seq(UpFrame)] /\ down \in [Client -> Seq(DownFrame)]
    BY DEF CommInv, FrameDamaged
  <1>2. UNCHANGED client /\ UNCHANGED relayVars /\ damaged' = TRUE /\ Faulty
    BY DEF FrameDamaged
  <1>3. RelayTypes'
    BY <1>2, FaultyCounts, FaultTypes
  <1> DEFINE q == down[c]
             f == [q[1] EXCEPT !.frame.event = Garbage]
  <1>4. q \in Seq(DownFrame) /\ q # <<>> /\ Head(q).type = "data"
    BY <1>1 DEF FrameDamaged
  <1>5. q[1] \in RelayedFrame /\ q[1] = Head(q)
    BY <1>4, DownFrameKinds
  <1>6. f \in DownFrame
    <2>1. f = [type |-> "data", frame |-> [q[1].frame EXCEPT !.event = Garbage]]
      BY <1>5 DEF RelayedFrame
    <2>2. [q[1].frame EXCEPT !.event = Garbage] \in Frame
      BY <1>5 DEF RelayedFrame, Frame
    <2>3. f \in RelayedFrame
      BY <2>1, <2>2 DEF RelayedFrame
    <2> QED
      BY <2>3 DEF DownFrame
  <1>7. down' = [down EXCEPT ![c] = [q EXCEPT ![1] = f]]
    BY <1>1 DEF FrameDamaged
  <1>8. [q EXCEPT ![1] = f] \in Seq(DownFrame)
    <2> HIDE DEF f, q
    <2> QED
      BY <1>4, <1>6
  <1>9. down' \in [Client -> Seq(DownFrame)]
    BY <1>1, <1>7, <1>8
  <1> QED
    BY <1>1, <1>2, <1>3, <1>9, OthersKeep

-----------------------------------------------------------------------------
(* Steps of the relay *)

LEMMA UpFrameKinds ==
    ASSUME NEW q \in UpFrame
    PROVE  /\ q.type = "eof" <=> q = Eof
           /\ q.type \in {"wait", "cancel", "join"} => q \in PlainRequest
           /\ q.type \in {"proof", "close"} => q \in PairRequest
           /\ q.type = "data" => q \in FrameRequest
           /\ q # Eof => q.by \in By /\ q.late \in BOOLEAN /\ q.pair \in Pair
  BY DEF UpFrame, Eof, PlainRequest, PairRequest, FrameRequest, Pair

\* What a frame of a client may ask for.
LEMMA RequestKinds ==
    ASSUME NEW q \in UpFrame, q # Eof
    PROVE  q.type \in {"wait", "cancel", "join", "proof", "data", "close"}
  <1>1. q \in PlainRequest \/ q \in PairRequest \/ q \in FrameRequest
    BY DEF UpFrame
  <1>2. CASE q \in PlainRequest
    BY <1>2 DEF PlainRequest
  <1>3. CASE q \in PairRequest
    BY <1>3 DEF PairRequest
  <1>4. CASE q \in FrameRequest
    BY <1>4 DEF FrameRequest
  <1> QED
    BY <1>1, <1>2, <1>3, <1>4

LEMMA AnswerTypes ==
    ASSUME NEW q \in UpFrame, q # Eof, NEW result \in Result
    PROVE  Answer(q, result) \in DownFrame
  <1>1. q.by \in By /\ q.late \in BOOLEAN
    BY UpFrameKinds
  <1>2. Answer(q, result) \in AnswerFrame
    BY <1>1, RequestKinds DEF Answer, AnswerFrame
  <1> QED
    BY <1>2 DEF DownFrame

LEMMA OnlyTypes ==
    ASSUME NEW c \in Client, NEW q \in Seq(DownFrame)
    PROVE  \A d \in Client : Only(c, q)[d] \in Seq(DownFrame)
  BY EmptySequence DEF Only

LEMMA BothTypes ==
    ASSUME NEW f, NEW g, \A d \in Client : f[d] \in Seq(DownFrame),
           \A d \in Client : g[d] \in Seq(DownFrame)
    PROVE  \A d \in Client : Both(f, g)[d] \in Seq(DownFrame)
  <1>1. ASSUME NEW d \in Client PROVE Both(f, g)[d] \in Seq(DownFrame)
    <2>1. f[d] \in Seq(DownFrame) /\ g[d] \in Seq(DownFrame)
      OBVIOUS
    <2>2. f[d] \o g[d] \in Seq(DownFrame)
      BY <2>1
    <2> QED
      BY <2>2 DEF Both
  <1> QED
    BY <1>1

LEMMA ToPeerTypes ==
    ASSUME NEW c, NEW p, NEW f \in DownFrame
    PROVE  \A d \in Client : ToPeer(c, p, <<f>>)[d] \in Seq(DownFrame)
  <1>1. <<f>> \in Seq(DownFrame)
    OBVIOUS
  <1> QED
    BY <1>1, EmptySequence DEF ToPeer

LEMMA CloseFrameTypes ==
    ASSUME NEW p \in Pair
    PROVE  CloseFrame(p) \in DownFrame /\ CloseFrame(p) \in EndFrame
           /\ CloseFrame(p).pair = p /\ CloseFrame(p).type = "close"
  BY DEF CloseFrame, EndFrame, DownFrame

LEMMA PeersClosedTypes ==
    ASSUME NEW c \in Client
    PROVE  \A d \in Client : PeersClosed(c)[d] \in Seq(DownFrame)
  <1>1. ASSUME NEW d \in Client, d # c, RoutesOf(d) \cap RoutesOf(c) # {}
        PROVE  <<CloseFrame(CHOOSE p \in RoutesOf(c) : TRUE)>> \in Seq(DownFrame)
    <2> DEFINE p == CHOOSE x \in RoutesOf(c) : TRUE
    <2>1. p \in RoutesOf(c)
      BY <1>1
    <2>2. p \in Pair
      BY <2>1 DEF RoutesOf, Pair
    <2> HIDE DEF p
    <2>3. CloseFrame(p) \in DownFrame
      BY <2>2, CloseFrameTypes
    <2> QED
      BY <2>3 DEF p
  <1> QED
    BY <1>1, EmptySequence DEF PeersClosed

\* What a handler of the relay takes.
LEMMA HandlesTypes ==
    ASSUME CommInv, NEW c \in Client, NEW type, Handles(c, type)
    PROVE  /\ Head(up[c]) \in UpFrame /\ Head(up[c]).type = type /\ c \in served
           /\ up[c] \in Seq(UpFrame) /\ up[c] # <<>>
           /\ up' = [up EXCEPT ![c] = Tail(@)] => up' \in [Client -> Seq(UpFrame)]
  <1>1. up \in [Client -> Seq(UpFrame)]
    BY DEF CommInv
  <1>2. up[c] \in Seq(UpFrame) /\ up[c] # <<>>
    BY <1>1 DEF Handles
  <1>3. Head(up[c]) \in UpFrame /\ Tail(up[c]) \in Seq(UpFrame)
    BY <1>2
  <1> QED
    BY <1>1, <1>2, <1>3 DEF Handles

LEMMA ReplyTypes ==
    ASSUME CommInv, NEW c \in Client, NEW type, Handles(c, type), type # "eof",
           NEW result \in Result
    PROVE  \A d \in Client : Reply(c, result)[d] \in Seq(DownFrame)
  <1>1. Head(up[c]) \in UpFrame /\ Head(up[c]) # Eof
    BY HandlesTypes, UpFrameKinds
  <1>2. <<Answer(Head(up[c]), result)>> \in Seq(DownFrame)
    BY <1>1, AnswerTypes
  <1> QED
    BY <1>2, OnlyTypes DEF Reply

\* A route is taken away, or a member has proved itself.
LEMMA RouteTypes ==
    ASSUME RelayTypes, NEW gone \in SUBSET Session,
           route' = [p \in Session |-> IF p \in gone THEN NoRoute ELSE route[p]]
    PROVE  /\ route' \in [Session -> Route]
           /\ \A p \in Session : route'[p].proved \subseteq Members(p)'
  <1>1. NoRoute \in Route /\ NoRoute.proved = {}
    BY DEF NoRoute, Route
  <1>2. route \in [Session -> Route] /\ \A p \in Session : route[p].proved \subseteq Members(p)
    BY DEF RelayTypes
  <1>3. route' \in [Session -> Route]
    BY <1>1, <1>2
  <1>4. ASSUME NEW p \in Session PROVE route'[p].proved \subseteq Members(p)'
    <2>1. CASE p \in gone
      BY <1>1, <2>1
    <2>2. CASE p \notin gone
      BY <1>2, <2>2 DEF Members
    <2> QED
      BY <2>1, <2>2
  <1> QED
    BY <1>3, <1>4

LEMMA HandleWaitKeeps ==
    ASSUME CommInv, NEW c \in Client, HandleWait(c) PROVE CommInv'
  <1>1. Handles(c, "wait") /\ up' = [up EXCEPT ![c] = Tail(@)]
        /\ UNCHANGED <<client, served, route, made, faultVars>>
    BY DEF HandleWait, Taken
  <1>2. PICK result \in Result : Deliver(Reply(c, result))
    BY DEF HandleWait, Result
  <1>3. \A d \in Client : Reply(c, result)[d] \in Seq(DownFrame)
    BY <1>1, ReplyTypes
  <1>4. down' \in [Client -> Seq(DownFrame)]
    BY <1>2, <1>3, DeliverTypes
  <1>5. RelayTypes'
    <2>1. room' \in {c, room, Nobody}
      BY DEF HandleWait, Kept
    <2>2. room' \in Client \cup {Nobody}
      BY <2>1 DEF CommInv, RelayTypes
    <2> QED
      BY <1>1, <2>2 DEF CommInv, RelayTypes, Members, faultVars
  <1> QED
    BY <1>1, <1>4, <1>5, HandlesTypes, OthersKeep

LEMMA HandleCancelKeeps ==
    ASSUME CommInv, NEW c \in Client, HandleCancel(c) PROVE CommInv'
  <1>1. Handles(c, "cancel") /\ up' = [up EXCEPT ![c] = Tail(@)]
        /\ UNCHANGED <<client, served, route, made, faultVars>>
    BY DEF HandleCancel, Taken
  <1>2. PICK result \in Result : Deliver(Reply(c, result))
    BY DEF HandleCancel, Result
  <1>3. \A d \in Client : Reply(c, result)[d] \in Seq(DownFrame)
    BY <1>1, ReplyTypes
  <1>4. down' \in [Client -> Seq(DownFrame)]
    BY <1>2, <1>3, DeliverTypes
  <1>5. RelayTypes'
    <2>1. room' \in Client \cup {Nobody}
      BY DEF HandleCancel, CommInv, RelayTypes
    <2> QED
      BY <1>1, <2>1 DEF CommInv, RelayTypes, Members, faultVars
  <1> QED
    BY <1>1, <1>4, <1>5, HandlesTypes, OthersKeep

LEMMA HandleJoinRefusedKeeps ==
    ASSUME CommInv, NEW c \in Client, HandleJoinRefused(c) PROVE CommInv'
  <1>1. Handles(c, "join") /\ up' = [up EXCEPT ![c] = Tail(@)]
        /\ UNCHANGED <<client, served, route, made, faultVars>>
        /\ room' \in {room, Nobody}
        /\ Deliver(Reply(c, "no"))
    BY DEF HandleJoinRefused, Taken, Kept
  <1>2. \A d \in Client : Reply(c, "no")[d] \in Seq(DownFrame)
    BY <1>1, ReplyTypes DEF Result
  <1>3. down' \in [Client -> Seq(DownFrame)]
    BY <1>1, <1>2, DeliverTypes
  <1>4. RelayTypes'
    BY <1>1 DEF CommInv, RelayTypes, Members, faultVars
  <1> QED
    BY <1>1, <1>3, <1>4, HandlesTypes, OthersKeep

LEMMA HandleJoinKeeps ==
    ASSUME CommInv, NEW c \in Client, HandleJoin(c) PROVE CommInv'
  <1> DEFINE p == made + 1
             frames == [d \in Client |->
              IF d = c THEN <<Answer(Head(up[c]), "ok"),
                              [type |-> "pair", pair |-> p, role |-> "joiner"]>>
              ELSE IF d = room THEN <<[type |-> "pair", pair |-> p, role |-> "creator"]>>
              ELSE <<>>]
  <1>1. /\ Handles(c, "join") /\ up' = [up EXCEPT ![c] = Tail(@)]
        /\ room \notin {Nobody, c} /\ p \in Session /\ made' = p /\ room' = Nobody
        /\ route' = [route EXCEPT ![p] = [creator |-> room, joiner |-> c, proved |-> {}]]
        /\ Deliver(frames) /\ UNCHANGED <<client, served, faultVars>>
    BY DEF HandleJoin, Taken
  <1> HIDE DEF p
  <1>2. \A d \in Client : frames[d] \in Seq(DownFrame)
    <2>1. Head(up[c]) \in UpFrame /\ Head(up[c]) # Eof
      BY <1>1, HandlesTypes, UpFrameKinds
    <2>2. Answer(Head(up[c]), "ok") \in DownFrame
      BY <2>1, AnswerTypes DEF Result
    <2>3. ASSUME NEW r \in Role PROVE [type |-> "pair", pair |-> p, role |-> r] \in DownFrame
      <3>1. [type |-> "pair", pair |-> p, role |-> r] \in PairFrame
        BY <1>1 DEF PairFrame
      <3> QED
        BY <3>1 DEF DownFrame
    <2>4. /\ [type |-> "pair", pair |-> p, role |-> "joiner"] \in DownFrame
          /\ [type |-> "pair", pair |-> p, role |-> "creator"] \in DownFrame
      BY <2>3 DEF Role
    <2>5. /\ <<Answer(Head(up[c]), "ok"), [type |-> "pair", pair |-> p, role |-> "joiner"]>>
                \in Seq(DownFrame)
          /\ <<[type |-> "pair", pair |-> p, role |-> "creator"]>> \in Seq(DownFrame)
      BY <2>2, <2>4
    <2> QED
      BY <2>5, EmptySequence
  <1> HIDE DEF frames
  <1>3. down' \in [Client -> Seq(DownFrame)]
    BY <1>1, <1>2, DeliverTypes
  <1>4. RelayTypes
    BY DEF CommInv
  <1>5. room \in Client /\ route \in [Session -> Route]
    BY <1>1, <1>4 DEF RelayTypes
  <1>6. route' \in [Session -> Route]
    <2>1. [creator |-> room, joiner |-> c, proved |-> {}] \in Route
      BY <1>5 DEF Route
    <2> QED
      BY <1>1, <1>5, <2>1
  <1>7. ASSUME NEW s \in Session PROVE route'[s].proved \subseteq Members(s)'
    <2>1. CASE s = p
      <3>1. route'[s].proved = {}
        BY <1>1, <1>5, <2>1
      <3> QED
        BY <3>1
    <2>2. CASE s # p
      <3>1. route'[s] = route[s]
        BY <1>1, <1>5, <2>2
      <3> QED
        BY <1>4, <3>1 DEF RelayTypes, Members
    <2> QED
      BY <2>1, <2>2
  <1>8. RelayTypes'
    <2>1. room' \in Client \cup {Nobody} /\ made' \in Pair
      BY <1>1 DEF Pair
    <2>2. /\ served' \subseteq Client /\ faults' \in 0..MaxFaults /\ damaged' \in BOOLEAN
      BY <1>1, <1>4 DEF RelayTypes, faultVars
    <2> QED
      BY <1>6, <1>7, <2>1, <2>2 DEF RelayTypes
  <1> QED
    BY <1>1, <1>3, <1>8, HandlesTypes, OthersKeep

LEMMA HandleProofKeeps ==
    ASSUME CommInv, NEW c \in Client, HandleProof(c) PROVE CommInv'
  <1> DEFINE p == Head(up[c]).pair
             f == [type |-> "proof", pair |-> p]
  <1>1. /\ Handles(c, "proof") /\ up' = [up EXCEPT ![c] = Tail(@)] /\ c \in Members(p)
        /\ route' = [route EXCEPT ![p].proved = @ \cup {c}]
        /\ Deliver(Both(ToPeer(c, p, <<f>>), Reply(c, "ok")))
        /\ UNCHANGED <<client, served, room, made, faultVars>>
    BY DEF HandleProof, Taken
  <1>2. p \in Session
    BY <1>1, HandlesTypes, UpFrameKinds DEF PairRequest
  <1> HIDE DEF p
  <1>3. f \in DownFrame
    <2>1. f \in ProofFrame
      BY <1>2 DEF ProofFrame
    <2> QED
      BY <2>1 DEF DownFrame
  <1> HIDE DEF f
  <1>4. down' \in [Client -> Seq(DownFrame)]
    <2> DEFINE g == ToPeer(c, p, <<f>>)
               h == Reply(c, "ok")
    <2>1. \A d \in Client : g[d] \in Seq(DownFrame)
      BY <1>3, ToPeerTypes
    <2>2. \A d \in Client : h[d] \in Seq(DownFrame)
      BY <1>1, ReplyTypes DEF Result
    <2> HIDE DEF g, h
    <2>3. \A d \in Client : Both(g, h)[d] \in Seq(DownFrame)
      BY <2>1, <2>2, BothTypes
    <2>4. Deliver(Both(g, h))
      BY <1>1 DEF g, h
    <2> QED
      BY <2>3, <2>4, DeliverTypes
  <1>5. RelayTypes
    BY DEF CommInv
  <1>6. route[p] \in Route /\ route \in [Session -> Route] /\ route[p].proved \subseteq Members(p)
    BY <1>2, <1>5 DEF RelayTypes
  <1>7. route' = [route EXCEPT ![p] = [creator |-> route[p].creator, joiner |-> route[p].joiner,
                                       proved |-> route[p].proved \cup {c}]]
    <2>1. route' = [route EXCEPT ![p] = [route[p] EXCEPT !.proved = @ \cup {c}]]
      BY <1>1
    <2>2. [route[p] EXCEPT !.proved = @ \cup {c}]
             = [creator |-> route[p].creator, joiner |-> route[p].joiner,
                proved |-> route[p].proved \cup {c}]
      <3> DEFINE r == route[p]
                 e == r.proved \cup {c}
      <3>1. r = [creator |-> r.creator, joiner |-> r.joiner, proved |-> r.proved]
        BY <1>6 DEF Route
      <3> HIDE DEF r
      <3>2. [r EXCEPT !.proved = e] = [creator |-> r.creator, joiner |-> r.joiner, proved |-> e]
        <4> HIDE DEF e
        <4> QED
          BY <3>1
      <3> QED
        BY <3>2 DEF r
    <2> QED
      BY <2>1, <2>2
  <1>8. route' \in [Session -> Route]
    <2>1. [creator |-> route[p].creator, joiner |-> route[p].joiner,
           proved |-> route[p].proved \cup {c}] \in Route
      BY <1>6 DEF Route
    <2> QED
      BY <1>6, <1>7, <2>1
  <1>9. ASSUME NEW s \in Session PROVE route'[s].proved \subseteq Members(s)'
    <2>1. CASE s = p
      <3>1. /\ route'[s].proved = route[p].proved \cup {c}
            /\ route'[s].creator = route[p].creator /\ route'[s].joiner = route[p].joiner
        BY <1>2, <1>6, <1>7, <2>1
      <3>2. Members(s)' = Members(p)
        BY <2>1, <3>1 DEF Members
      <3> QED
        BY <1>1, <1>6, <3>1, <3>2
    <2>2. CASE s # p
      <3>1. route'[s] = route[s]
        BY <1>6, <1>7, <2>2
      <3> QED
        BY <1>5, <3>1 DEF RelayTypes, Members
    <2> QED
      BY <2>1, <2>2
  <1>10. RelayTypes'
    BY <1>1, <1>5, <1>8, <1>9 DEF RelayTypes, faultVars
  <1> QED
    BY <1>1, <1>4, <1>10, HandlesTypes, OthersKeep

LEMMA HandleDataKeeps ==
    ASSUME CommInv, NEW c \in Client, HandleData(c) PROVE CommInv'
  <1> DEFINE p == Head(up[c]).pair
             f == [type |-> "data", frame |-> Head(up[c]).frame]
  <1>1. /\ Handles(c, "data") /\ up' = [up EXCEPT ![c] = Tail(@)]
        /\ Deliver(Both(ToPeer(c, p, <<f>>), Reply(c, "ok")))
        /\ UNCHANGED client /\ UNCHANGED relayVars /\ UNCHANGED faultVars
    BY DEF HandleData, Taken, relayVars
  <1>2. f \in DownFrame
    <2>1. Head(up[c]).frame \in Frame
      BY <1>1, HandlesTypes, UpFrameKinds DEF FrameRequest
    <2>2. f \in RelayedFrame
      BY <2>1 DEF RelayedFrame
    <2> QED
      BY <2>2 DEF DownFrame
  <1> HIDE DEF f, p
  <1>3. down' \in [Client -> Seq(DownFrame)]
    <2> DEFINE g == ToPeer(c, p, <<f>>)
               h == Reply(c, "ok")
    <2>1. \A d \in Client : g[d] \in Seq(DownFrame)
      BY <1>2, ToPeerTypes
    <2>2. \A d \in Client : h[d] \in Seq(DownFrame)
      BY <1>1, ReplyTypes DEF Result
    <2> HIDE DEF g, h
    <2>3. \A d \in Client : Both(g, h)[d] \in Seq(DownFrame)
      BY <2>1, <2>2, BothTypes
    <2>4. Deliver(Both(g, h))
      BY <1>1 DEF g, h
    <2> QED
      BY <2>3, <2>4, DeliverTypes
  <1> QED
    BY <1>1, <1>3, HandlesTypes, SameRelayTypes, OthersKeep

LEMMA HandleCloseKeeps ==
    ASSUME CommInv, NEW c \in Client, HandleClose(c) PROVE CommInv'
  <1> DEFINE p == Head(up[c]).pair
  <1>1. /\ Handles(c, "close") /\ up' = [up EXCEPT ![c] = Tail(@)]
        /\ route' = [route EXCEPT ![p] = NoRoute]
        /\ Deliver(Both(Reply(c, "ok"), PeersClosed(c)))
        /\ UNCHANGED <<client, served, room, made, faultVars>>
    BY DEF HandleClose, Taken
  <1>2. p \in Session
    BY <1>1, HandlesTypes, UpFrameKinds DEF PairRequest
  <1> HIDE DEF p
  <1>3. down' \in [Client -> Seq(DownFrame)]
    <2> DEFINE g == Reply(c, "ok")
               h == PeersClosed(c)
    <2>1. \A d \in Client : g[d] \in Seq(DownFrame)
      BY <1>1, ReplyTypes DEF Result
    <2>2. \A d \in Client : h[d] \in Seq(DownFrame)
      BY PeersClosedTypes
    <2> HIDE DEF g, h
    <2>3. \A d \in Client : Both(g, h)[d] \in Seq(DownFrame)
      BY <2>1, <2>2, BothTypes
    <2>4. Deliver(Both(g, h))
      BY <1>1 DEF g, h
    <2> QED
      BY <2>3, <2>4, DeliverTypes
  <1>4. RelayTypes'
    <2>1. RelayTypes /\ route \in [Session -> Route]
      BY DEF CommInv, RelayTypes
    <2>2. route' = [s \in Session |-> IF s \in {p} THEN NoRoute ELSE route[s]]
      BY <1>1, <1>2, <2>1
    <2>3. /\ route' \in [Session -> Route]
          /\ \A s \in Session : route'[s].proved \subseteq Members(s)'
      BY <1>2, <2>1, <2>2, RouteTypes
    <2> QED
      BY <1>1, <2>1, <2>3 DEF RelayTypes, faultVars
  <1> QED
    BY <1>1, <1>3, <1>4, HandlesTypes, OthersKeep

LEMMA EndsKeeps ==
    ASSUME CommInv, NEW c \in Client, NEW q \in Seq(DownFrame), Ends(c, Only(c, q))
    PROVE  CommInv'
  <1>1. /\ served' = served \ {c} /\ up' = [up EXCEPT ![c] = <<>>]
        /\ room' = IF room = c THEN Nobody ELSE room
        /\ route' = WithoutRoutes(c)
        /\ Deliver(Both(Only(c, q), PeersClosed(c)))
        /\ UNCHANGED <<client, made, faultVars>>
    BY DEF Ends
  <1>2. down' \in [Client -> Seq(DownFrame)]
    <2> DEFINE g == Only(c, q)
               h == PeersClosed(c)
    <2>1. \A d \in Client : g[d] \in Seq(DownFrame)
      BY OnlyTypes
    <2>2. \A d \in Client : h[d] \in Seq(DownFrame)
      BY PeersClosedTypes
    <2> HIDE DEF g, h
    <2>3. \A d \in Client : Both(g, h)[d] \in Seq(DownFrame)
      BY <2>1, <2>2, BothTypes
    <2>4. Deliver(Both(g, h))
      BY <1>1 DEF g, h
    <2> QED
      BY <2>3, <2>4, DeliverTypes
  <1>3. up' \in [Client -> Seq(UpFrame)]
    BY <1>1, EmptySequence DEF CommInv
  <1>4. RelayTypes'
    <2>1. RelayTypes
      BY DEF CommInv
    <2>2. RoutesOf(c) \in SUBSET Session
      BY DEF RoutesOf
    <2>3. /\ route' \in [Session -> Route]
          /\ \A s \in Session : route'[s].proved \subseteq Members(s)'
      BY <1>1, <2>1, <2>2, RouteTypes DEF WithoutRoutes
    <2>4. room' \in Client \cup {Nobody} /\ served' \subseteq Client
      BY <1>1, <2>1 DEF RelayTypes
    <2> QED
      BY <1>1, <2>1, <2>3, <2>4 DEF RelayTypes, faultVars
  <1> QED
    BY <1>1, <1>2, <1>3, <1>4, OthersKeep

LEMMA EndingFrames ==
    ASSUME CommInv, NEW c \in Client, HandleRefused(c) \/ HandleEof(c)
    PROVE  \E q \in Seq(DownFrame) : Ends(c, Only(c, q))
  <1>1. CASE HandleEof(c)
    BY <1>1, EmptySequence DEF HandleEof
  <1>2. CASE HandleRefused(c)
    <2> DEFINE h == Head(up[c])
               a(r) == <<Answer(h, r)>> \o <<Eof>>
    <2>1. \E r \in {"ok", "error"} : Ends(c, Only(c, a(r)))
      BY <1>2 DEF HandleRefused
    <2>2. h \in UpFrame /\ h # Eof
      BY <1>2, HandlesTypes, UpFrameKinds DEF HandleRefused
    <2>3. Eof \in DownFrame
      BY DEF DownFrame
    <2>4. ASSUME NEW r \in {"ok", "error"} PROVE a(r) \in Seq(DownFrame)
      <3>1. Answer(h, r) \in DownFrame
        BY <2>2, AnswerTypes DEF Result
      <3>2. <<Answer(h, r)>> \in Seq(DownFrame) /\ <<Eof>> \in Seq(DownFrame)
        BY <2>3, <3>1
      <3> QED
        BY <3>2
    <2> HIDE DEF a
    <2> QED
      BY <2>1, <2>4
  <1> QED
    BY <1>1, <1>2

LEMMA RelayStepKeeps ==
    ASSUME CommInv, NEW c \in Client, RelayStep(c) PROVE CommInv'
  BY HandleWaitKeeps, HandleCancelKeeps, HandleJoinRefusedKeeps, HandleJoinKeeps,
     HandleProofKeeps, HandleDataKeeps, HandleCloseKeeps, EndsKeeps, EndingFrames DEF RelayStep

-----------------------------------------------------------------------------
(* Timers *)

LEMMA CountsTypes ==
    ASSUME CommInv, NEW coming, NEW e, Counts(coming, e)
    PROVE  faults' \in 0..MaxFaults /\ damaged' \in BOOLEAN
  <1>1. UNCHANGED damaged /\ (Faulty \/ UNCHANGED faults)
    BY DEF Counts
  <1> QED
    BY <1>1, FaultyCounts DEF CommInv, RelayTypes

LEMMA RequestTimesOutKeeps ==
    ASSUME CommInv, NEW c \in Client, NEW by \in By, NEW e, RequestTimesOut(c, by, e)
    PROVE  CommInv'
  <1> DEFINE k == client[c]
             n == [k EXCEPT !.pending[by] = "error"]
  <1>1. /\ ClientInv(k) /\ up \in [Client -> Seq(UpFrame)] /\ down \in [Client -> Seq(DownFrame)]
    BY DEF CommInv
  <1>2. /\ Update(c, n) /\ UNCHANGED relayVars
        /\ up' = [up EXCEPT ![c] = Orphaned(@, by)]
        /\ down' = [down EXCEPT ![c] = Orphaned(@, by)]
    BY DEF RequestTimesOut
  <1>3. \E coming : Counts(coming, e)
    BY DEF RequestTimesOut
  <1>4. RelayTypes'
    BY <1>2, <1>3, CountsTypes, FaultTypes
  <1>5. ClientInv(n)
    BY <1>1, AnswerKeeps DEF Result
  <1> HIDE DEF n
  <1>6. Orphaned(up[c], by) \in Seq(UpFrame)
    <2>1. \A f \in UpFrame : Late(f, by) \in UpFrame
      BY LateUpFrame
    <2>2. up[c] \in Seq(UpFrame)
      BY <1>1
    <2> QED
      BY <2>1, <2>2, OrphanedFrames
  <1>7. Orphaned(down[c], by) \in Seq(DownFrame)
    <2>1. \A f \in DownFrame : Late(f, by) \in DownFrame
      BY LateDownFrame
    <2>2. down[c] \in Seq(DownFrame)
      BY <1>1
    <2> QED
      BY <2>1, <2>2, OrphanedFrames
  <1>8. up' \in [Client -> Seq(UpFrame)] /\ down' \in [Client -> Seq(DownFrame)]
    BY <1>1, <1>2, <1>6, <1>7
  <1> QED
    BY <1>2, <1>4, <1>5, <1>8, UpdateKeeps

LEMMA SetupTimesOutKeeps ==
    ASSUME CommInv, NEW c \in Client, NEW e, SetupTimesOut(c, e)
    PROVE  CommInv'
  <1> DEFINE k == client[c]
             n == Fails(DiscardState(k))
  <1>1. ClientInv(k) /\ up' \in [Client -> Seq(UpFrame)] /\ down' \in [Client -> Seq(DownFrame)]
    BY DEF CommInv, SetupTimesOut
  <1>2. Update(c, n) /\ UNCHANGED relayVars /\ k.task \in {"pair", "proof"}
    BY DEF SetupTimesOut
  <1>3. \E coming : Counts(coming, e)
    BY DEF SetupTimesOut
  <1>4. RelayTypes'
    BY <1>2, <1>3, CountsTypes, FaultTypes
  <1>5. ClientInv(DiscardState(k)) /\ DiscardState(k).task # "none"
    BY <1>1, <1>2, DiscardKeeps DEF Changes, Fields
  <1>6. ClientInv(n)
    BY <1>5, FailsKeeps
  <1> HIDE DEF n
  <1> QED
    BY <1>1, <1>2, <1>4, <1>6, UpdateKeeps

LEMMA IdentityTimesOutKeeps ==
    ASSUME CommInv, NEW c \in Client, NEW e, IdentityTimesOut(c, e)
    PROVE  CommInv'
  <1> DEFINE k == client[c]
             n == Asking([k EXCEPT !.task = "aborting"], "task")
             q == Request("close", "task", k.taskPair)
  <1>1. /\ ClientInv(k) /\ k.task = "peer" /\ k.taskPair # 0 /\ k.taskPair \in Session
        /\ up \in [Client -> Seq(UpFrame)] /\ down' \in [Client -> Seq(DownFrame)]
    BY DEF CommInv, IdentityTimesOut, ClientInv, TaskBelongs, IsClient, ClientTypes, Pair
  <1>2. UNCHANGED relayVars /\ \E coming : Counts(coming, e)
    BY DEF IdentityTimesOut
  <1>3. RelayTypes'
    BY <1>2, CountsTypes, FaultTypes
  <1>4. q \in UpFrame /\ q.by = "task"
    BY <1>1, RequestTypes DEF By
  <1>5. Update(c, n) /\ (up' = up \/ up' = [up EXCEPT ![c] = Sent(@, <<q>>)])
    BY <1>4 DEF IdentityTimesOut, Abort, Ask
  <1>6. up' \in [Client -> Seq(UpFrame)]
    <2>1. <<q>> \in Seq(UpFrame) /\ up[c] \in Seq(UpFrame)
      BY <1>1, <1>4
    <2>2. Sent(up[c], <<q>>) \in Seq(UpFrame)
      BY <2>1, SentFrames
    <2> QED
      BY <1>1, <1>5, <2>2
  <1>7. ClientInv(n)
    <2>1. ClientInv([k EXCEPT !.task = "aborting"])
      BY <1>1, AbortingKeeps
    <2> QED
      BY <2>1, AskingKeeps DEF By
  <1> HIDE DEF n
  <1> QED
    BY <1>1, <1>3, <1>5, <1>6, <1>7, UpdateKeeps

LEMMA RoomExpiresKeeps ==
    ASSUME CommInv, RoomExpires PROVE CommInv'
  <1>1. /\ room \in Client /\ room' = Nobody /\ Deliver(Only(room, <<CloseFrame(0)>>))
        /\ UNCHANGED <<client, up, served, route, made, faultVars>>
    BY DEF CommInv, RelayTypes, RoomExpires
  <1>2. <<CloseFrame(0)>> \in Seq(DownFrame)
    <2>1. CloseFrame(0) \in DownFrame
      BY CloseFrameTypes DEF Pair
    <2> QED
      BY <2>1
  <1>3. \A d \in Client : Only(room, <<CloseFrame(0)>>)[d] \in Seq(DownFrame)
    BY <1>1, <1>2, OnlyTypes
  <1>4. down' \in [Client -> Seq(DownFrame)]
    BY <1>1, <1>3, DeliverTypes
  <1>5. up' \in [Client -> Seq(UpFrame)] /\ RelayTypes'
    BY <1>1 DEF CommInv, RelayTypes, Members, faultVars
  <1> QED
    BY <1>1, <1>4, <1>5, OthersKeep

LEMMA RouteExpiresKeeps ==
    ASSUME CommInv, NEW p \in Session, NEW e, RouteExpires(p, e)
    PROVE  CommInv'
  <1> DEFINE frames == [d \in Client |-> IF d \in Members(p) THEN <<CloseFrame(p)>> ELSE <<>>]
  <1>1. /\ route' = [route EXCEPT ![p] = NoRoute] /\ Deliver(frames)
        /\ UNCHANGED <<client, up, served, room, made>>
        /\ \E coming : Counts(coming, e)
    BY DEF RouteExpires
  <1>2. <<CloseFrame(p)>> \in Seq(DownFrame)
    <2>1. CloseFrame(p) \in DownFrame
      BY CloseFrameTypes DEF Pair
    <2> QED
      BY <2>1
  <1>3. \A d \in Client : frames[d] \in Seq(DownFrame)
    BY <1>2, EmptySequence
  <1> HIDE DEF frames
  <1>4. down' \in [Client -> Seq(DownFrame)]
    BY <1>1, <1>3, DeliverTypes
  <1>5. RelayTypes'
    <2>1. RelayTypes /\ route \in [Session -> Route]
      BY DEF CommInv, RelayTypes
    <2>2. route' = [s \in Session |-> IF s \in {p} THEN NoRoute ELSE route[s]]
      BY <1>1, <2>1
    <2>3. /\ route' \in [Session -> Route]
          /\ \A s \in Session : route'[s].proved \subseteq Members(s)'
      BY <2>1, <2>2, RouteTypes
    <2>4. faults' \in 0..MaxFaults /\ damaged' \in BOOLEAN
      BY <1>1, CountsTypes
    <2> QED
      BY <1>1, <2>1, <2>3, <2>4 DEF RelayTypes
  <1>6. up' \in [Client -> Seq(UpFrame)]
    BY <1>1 DEF CommInv
  <1> QED
    BY <1>1, <1>4, <1>5, <1>6, OthersKeep

LEMMA TimerKeeps ==
    ASSUME CommInv, NEW e, Timer(e) PROVE CommInv'
  <1>1. ASSUME NEW c \in Client, ClientTimer(c, e) PROVE CommInv'
    BY <1>1, RequestTimesOutKeeps, SetupTimesOutKeeps, IdentityTimesOutKeeps
    DEF ClientTimer, By
  <1> QED
    BY <1>1, RouteExpiresKeeps DEF Timer

-----------------------------------------------------------------------------
(* The theorems *)

LEMMA CommInvInit ==
    ASSUME Init PROVE CommInv
  <1>1. \A c \in Client : client[c] = NewClient
    BY DEF Init
  <1>2. \A c \in Client : ClientInv(client[c])
    BY <1>1, NewClientKeeps
  <1>3. up \in [Client -> Seq(UpFrame)] /\ down \in [Client -> Seq(DownFrame)]
    BY EmptySequence DEF Init
  <1>4. RelayTypes
    <2>1. NoRoute \in Route /\ NoRoute.proved = {}
      BY DEF NoRoute, Route
    <2>2. route \in [Session -> Route] /\ \A p \in Session : route[p].proved \subseteq Members(p)
      BY <2>1 DEF Init
    <2>3. faults \in 0..MaxFaults
      BY CommAssumption DEF Init
    <2> QED
      BY <2>2, <2>3 DEF Init, RelayTypes, Pair
  <1>5. client = [c \in Client |-> client[c]]
    BY DEF Init
  <1> QED
    BY <1>2, <1>3, <1>4, <1>5 DEF CommInv

LEMMA CommInvStep ==
    ASSUME CommInv, [Next]_vars PROVE CommInv'
  <1>1. CASE UNCHANGED vars
    <2>1. UNCHANGED client /\ up' \in [Client -> Seq(UpFrame)]
          /\ down' \in [Client -> Seq(DownFrame)]
      BY <1>1 DEF CommInv, vars
    <2>2. RelayTypes'
      BY <1>1, SameRelayTypes DEF vars, relayVars, faultVars
    <2> QED
      BY <2>1, <2>2, OthersKeep
  <1>2. ASSUME NEW c \in Client,
               \/ ClientStep(c) \/ RelayStep(c) \/ UserStep(c)
               \/ ConnectionLost(c) \/ FrameDamaged(c)
        PROVE  CommInv'
    BY <1>2, ReadKeeps, TaskStepKeeps, ScreenStepKeeps, HangUpKeeps, RelayStepKeeps,
       UserStepKeeps, ConnectionLostKeeps, FrameDamagedKeeps DEF ClientStep
  <1> QED
    BY <1>1, <1>2, RoomExpiresKeeps, TimerKeeps DEF Next

\* The strengthening of the properties below is an invariant.
THEOREM CommInvariant == Spec => []CommInv
  <1>1. Init => CommInv
    BY CommInvInit
  <1>2. CommInv /\ [Next]_vars => CommInv'
    BY CommInvStep
  <1> QED
    BY <1>1, <1>2, PTL DEF Spec

LEMMA InvGivesTypes ==
    ASSUME CommInv PROVE TypeOK
  <1>1. ASSUME NEW c \in Client, NEW k, k = client[c]
        PROVE  /\ k.ui \in Screen /\ k.task \in Task
               /\ k.role \in Role \cup {Nobody}
               /\ {k.pair, k.taskPair, k.comm, k.failing} \subseteq Session \cup {0}
               /\ k.role = Nobody => k.pair = 0 /\ ~k.participant /\ k.channel = NoChannel
               /\ k.channel # NoChannel =>
                     k.channel.session = k.pair /\ k.channel.role = k.role
               /\ \A f \in ToSet(k.buffered) \cup ToSet(k.events) \cup ToSet(k.shown) : f \in Frame
               /\ \A by \in DOMAIN k.pending :
                     k.pending[by] \in {"none", "sent", "ok", "no", "error"}
    <2>1. ClientInv(k) /\ ClientTypes(k)
      BY <1>1 DEF CommInv, ClientInv, IsClient
    <2>2. /\ k.ui \in Screen /\ k.task \in Task
          /\ k.role \in Role \cup {Nobody}
          /\ {k.pair, k.taskPair, k.comm, k.failing} \subseteq Session \cup {0}
      BY <2>1 DEF ClientTypes, Pair
    <2>3. /\ k.role = Nobody => k.pair = 0 /\ ~k.participant /\ k.channel = NoChannel
          /\ k.channel # NoChannel => k.channel.session = k.pair /\ k.channel.role = k.role
      BY <2>1 DEF ClientInv, RoleBelongs
    <2>4. ASSUME NEW q \in Seq(Frame), NEW f \in ToSet(q) PROVE f \in Frame
      BY <2>4 DEF ToSet
    <2>5. \A f \in ToSet(k.buffered) \cup ToSet(k.events) \cup ToSet(k.shown) : f \in Frame
      BY <2>1, <2>4 DEF ClientTypes
    <2>6. \A by \in DOMAIN k.pending : k.pending[by] \in {"none", "sent", "ok", "no", "error"}
      BY <2>1 DEF ClientTypes, Result
    <2> QED
      BY <2>2, <2>3, <2>5, <2>6
  <1>2. RelayTypes
    BY DEF CommInv
  <1> QED
    BY <1>1, <1>2 DEF TypeOK, RelayTypes, Pair

\* The session state of every client and the relay's tables keep their types, and
\* what belongs together is set together.
THEOREM CommTypes == Spec => []TypeOK
  BY CommInvariant, InvGivesTypes, PTL

LEMMA InvGivesOrder ==
    ASSUME CommInv PROVE ShownInOrder
  <1>1. SUFFICES ASSUME NEW c \in Client, NEW i \in 1..Len(client[c].shown)
                 PROVE  /\ client[c].shown[i].session = client[c].comm
                        /\ client[c].shown[i].counter = i
    BY DEF ShownInOrder
  <1>2. ClientInv(client[c])
    BY DEF CommInv
  <1>3. client[c].shown[i].event # Close /\ Follow(client[c].shown, 0, client[c].comm)
    BY <1>1, <1>2 DEF ClientInv, TextsFollow
  <1>4. /\ client[c].shown[i].session = client[c].comm
        /\ client[c].shown[i].counter = 0 + i
    BY <1>1, <1>3 DEF Follow
  <1>5. 0 + i = i
    OBVIOUS
  <1> QED
    BY <1>4, <1>5

\* The texts a comm screen shows are the peer's texts of this comm, in the order
\* they were written and without a gap: whatever is in transit, late or repeated.
THEOREM TextsAreShownInOrder == Spec => []ShownInOrder
  BY CommInvariant, InvGivesOrder, PTL

=============================================================================

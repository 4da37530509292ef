------------------------ MODULE SessionChannelProofs ------------------------
(***************************************************************************)
(* Proofs about SessionChannel for every set of sessions and texts and     *)
(* every largest counter: the two ends of a session implement the          *)
(* abstract Conversation, and no nonce is used twice under one key.        *)
(***************************************************************************)
EXTENDS SessionChannel, TLAPS

-----------------------------------------------------------------------------
(* The inductive invariant *)

\* A channel that still has its keys counts exactly the events of its
\* histories, and its identity flags say whether there are any.
Counts(ch, out, in) ==
    ~ch.discarded =>
        /\ ch.sendCounter = Len(out)
        /\ ch.receiveCounter = Len(in)
        /\ (ch.localIdentitySent <=> Len(out) # 0)
        /\ (ch.peerIdentityReceived <=> Len(in) # 0)

ChannelsCount ==
    \A s \in Session, r \in Role :
        Counts(channel[s][r], said[s][r], heard[s][r])

FailedIsDiscarded ==
    \A s \in Session, r \in Role : channel[s][r].failed => channel[s][r].discarded

\* A frame carries the event at its counter's place in what its sender said.
FramesAreSaid ==
    \A f \in network :
        /\ f.counter < Len(said[f.session][f.from])
        /\ f.event = said[f.session][f.from][f.counter + 1]

\* What a channel with keys has said or heard starts with an identity.
OpenLog(ch, log) == ~ch.discarded /\ Len(log) # 0 => log[1] = Identity

LogsStartWithIdentity ==
    \A s \in Session, r \in Role :
        /\ OpenLog(channel[s][r], said[s][r])
        /\ OpenLog(channel[s][r], heard[s][r])

ChannelInv ==
    /\ TypeOK
    /\ ChannelsCount
    /\ FailedIsDiscarded
    /\ FramesAreSaid
    /\ LogsStartWithIdentity
    /\ TextsAreBetweenAcquaintances

-----------------------------------------------------------------------------
(* The operators on one channel *)

\* Discarding yields a discarded channel of the same session and role.
LEMMA DiscardType ==
    ASSUME NEW ch \in Channel
    PROVE  /\ Discard(ch) \in Channel
           /\ Discard(ch).session = ch.session
           /\ Discard(ch).role = ch.role
           /\ Discard(ch).discarded
           /\ Discard(ch).failed = ch.failed
BY DEF Discard, Channel

\* Counting a frame and noting an identity keep a channel a channel.
LEMMA CountType ==
    ASSUME NEW ch \in Channel, NEW n \in Nat
    PROVE  /\ [ch EXCEPT !.sendCounter = n, !.localIdentitySent = TRUE] \in Channel
           /\ [ch EXCEPT !.receiveCounter = n, !.peerIdentityReceived = TRUE] \in Channel
<1>1. [ch EXCEPT !.sendCounter = n, !.localIdentitySent = TRUE] \in Channel
  BY DEF Channel
<1>2. [ch EXCEPT !.receiveCounter = n, !.peerIdentityReceived = TRUE] \in Channel
  BY DEF Channel
<1> QED  BY <1>1, <1>2

\* Encryption yields a channel of the same session and role.
LEMMA EncryptType ==
    ASSUME NEW ch \in Channel, NEW e \in Event
    PROVE  /\ AfterEncrypt(ch, e) \in Channel
           /\ AfterEncrypt(ch, e).session = ch.session
           /\ AfterEncrypt(ch, e).role = ch.role
<1>1. CASE e = Identity
  <2> DEFINE d == [ch EXCEPT !.sendCounter = @ + 1, !.localIdentitySent = TRUE]
  <2>1. AfterEncrypt(ch, e) = d
    BY <1>1 DEF AfterEncrypt, Identity, Close
  <2>2. d \in Channel
    <3>1. ch.sendCounter + 1 \in Nat  BY DEF Channel
    <3> QED  BY <3>1, CountType
  <2>3. d.session = ch.session /\ d.role = ch.role
    BY DEF Channel
  <2> QED  BY <2>1, <2>2, <2>3
<1>2. CASE e = Close
  BY <1>2, DiscardType DEF AfterEncrypt, Identity, Close
<1>3. CASE e # Identity /\ e # Close
  <2>1. AfterEncrypt(ch, e) = [ch EXCEPT !.sendCounter = @ + 1]
    BY <1>3 DEF AfterEncrypt, Identity, Close
  <2> QED  BY <2>1 DEF Channel
<1> QED  BY <1>1, <1>2, <1>3

\* A failed channel is a discarded one of the same session and role.
LEMMA FailType ==
    ASSUME NEW ch \in Channel
    PROVE  /\ Fail(ch) \in Channel
           /\ Fail(ch).session = ch.session
           /\ Fail(ch).role = ch.role
           /\ Fail(ch).discarded
<1> DEFINE d == [ch EXCEPT !.failed = TRUE]
<1>1. d \in Channel /\ d.session = ch.session /\ d.role = ch.role
  BY DEF Channel
<1> QED  BY <1>1, DiscardType DEF Fail

\* Decryption yields a channel of the same session and role.
LEMMA DecryptType ==
    ASSUME NEW ch \in Channel, NEW f
    PROVE  /\ AfterDecrypt(ch, f) \in Channel
           /\ AfterDecrypt(ch, f).session = ch.session
           /\ AfterDecrypt(ch, f).role = ch.role
<1>1. CASE ~Opens(ch, f)
  BY <1>1, FailType DEF AfterDecrypt
<1>2. CASE Opens(ch, f) /\ f.event = Identity
  <2> DEFINE d == [ch EXCEPT !.receiveCounter = @ + 1, !.peerIdentityReceived = TRUE]
  <2>1. AfterDecrypt(ch, f) = d
    BY <1>2 DEF AfterDecrypt, Identity, Close
  <2>2. d \in Channel
    <3>1. ch.receiveCounter + 1 \in Nat  BY DEF Channel
    <3> QED  BY <3>1, CountType
  <2>3. d.session = ch.session /\ d.role = ch.role
    BY DEF Channel
  <2> QED  BY <2>1, <2>2, <2>3
<1>3. CASE Opens(ch, f) /\ f.event = Close
  BY <1>3, DiscardType DEF AfterDecrypt, Identity, Close
<1>4. CASE Opens(ch, f) /\ f.event # Identity /\ f.event # Close
  <2>1. AfterDecrypt(ch, f) = [ch EXCEPT !.receiveCounter = @ + 1]
    BY <1>4 DEF AfterDecrypt, Identity, Close
  <2> QED  BY <2>1 DEF Channel
<1> QED  BY <1>1, <1>2, <1>3, <1>4

\* A frame the channel opens carries an event, never a damaged body.
LEMMA OpensEvent ==
    ASSUME NEW ch, NEW f, Opens(ch, f)
    PROVE  f.event \in Event /\ f.event # Garbage
BY ChannelAssumption DEF Opens, ValidEvent, Event, Identity, Close, Garbage

\* A frame that opens anywhere is one that was encrypted.
LEMMA OpensGenuine ==
    ASSUME TypeOK, NEW s \in Session, NEW r \in Role, NEW f \in Deliverable,
           Opens(channel[s][r], f)
    PROVE  f \in network
<1>1. f.event # Garbage  BY OpensEvent
<1>2. \A g \in network : [g EXCEPT !.event = Garbage].event = Garbage
  BY DEF TypeOK, Frame
<1> QED  BY <1>1, <1>2 DEF Deliverable

-----------------------------------------------------------------------------
(* What one step does to the channel it is about *)

\* A channel that encrypts counts what it said.
LEMMA EncryptCounts ==
    ASSUME NEW ch \in Channel, NEW e \in Event, NEW out \in Seq(Event),
           NEW in \in Seq(Event),
           MayEncrypt(ch, e), Counts(ch, out, in)
    PROVE  /\ Counts(AfterEncrypt(ch, e), Append(out, e), in)
           /\ ch.sendCounter = Len(out)
           /\ AfterEncrypt(ch, e).discarded = (e = Close)
           /\ AfterEncrypt(ch, e).failed = FALSE
<1>1. ~ch.discarded /\ ~ch.failed  BY DEF MayEncrypt, Usable
<1>2. Len(Append(out, e)) = Len(out) + 1 /\ Len(out) \in Nat
  OBVIOUS
<1>3. CASE e = Identity
  <2>1. AfterEncrypt(ch, e) =
          [ch EXCEPT !.sendCounter = @ + 1, !.localIdentitySent = TRUE]
    BY <1>3 DEF AfterEncrypt, Identity, Close
  <2> DEFINE d == AfterEncrypt(ch, e)
  <2>2. /\ d.sendCounter = ch.sendCounter + 1
        /\ d.localIdentitySent = TRUE
        /\ d.receiveCounter = ch.receiveCounter
        /\ d.peerIdentityReceived = ch.peerIdentityReceived
        /\ d.discarded = ch.discarded
        /\ d.failed = ch.failed
    BY <2>1 DEF Channel
  <2>3. ch.discarded = FALSE /\ ch.failed = FALSE
    BY <1>1 DEF Channel
  <2>4. /\ ch.sendCounter = Len(out)
        /\ ch.receiveCounter = Len(in)
        /\ (ch.peerIdentityReceived <=> Len(in) # 0)
    BY <1>1 DEF Counts
  <2>5. e # Close
    BY <1>3 DEF Identity, Close
  <2> HIDE DEF d
  <2>6. Counts(d, Append(out, e), in)
    BY <1>2, <2>2, <2>4 DEF Counts
  <2> QED  BY <2>2, <2>3, <2>4, <2>5, <2>6 DEF d
<1>4. CASE e = Close
  <2>1. AfterEncrypt(ch, e) = Discard(ch)
    BY <1>4 DEF AfterEncrypt, Identity, Close
  <2>2. ch.failed = FALSE /\ ch.sendCounter = Len(out)
    BY <1>1 DEF Counts, Channel
  <2>3. Discard(ch).discarded = TRUE /\ Discard(ch).failed = FALSE
    BY <2>2, DiscardType DEF Channel
  <2> QED  BY <1>4, <2>1, <2>2, <2>3 DEF Counts
<1>5. CASE e # Identity /\ e # Close
  <2>1. AfterEncrypt(ch, e) = [ch EXCEPT !.sendCounter = @ + 1]
    BY <1>5 DEF AfterEncrypt
  <2>2. Len(out) # 0
    BY <1>1, <1>5 DEF MayEncrypt, Active, Event, Counts
  <2> QED  BY <1>1, <1>2, <1>5, <2>1, <2>2 DEF Counts, Channel
<1> QED  BY <1>1, <1>3, <1>4, <1>5 DEF Counts

\* A channel that decrypts counts what it heard.
LEMMA DecryptCounts ==
    ASSUME NEW ch \in Channel, NEW f, NEW out \in Seq(Event), NEW in \in Seq(Event),
           Usable(ch), Opens(ch, f), Counts(ch, out, in)
    PROVE  /\ Counts(AfterDecrypt(ch, f), out, Append(in, f.event))
           /\ f.counter = Len(in)
           /\ AfterDecrypt(ch, f).discarded = (f.event = Close)
           /\ AfterDecrypt(ch, f).failed = FALSE
<1>1. ~ch.discarded /\ ~ch.failed /\ f.event \in Event
  BY OpensEvent DEF Usable
<1>2. Len(Append(in, f.event)) = Len(in) + 1 /\ Len(in) \in Nat
  BY <1>1
<1>3. CASE f.event = Identity
  <2>1. AfterDecrypt(ch, f) =
          [ch EXCEPT !.receiveCounter = @ + 1, !.peerIdentityReceived = TRUE]
    BY <1>3 DEF AfterDecrypt, Identity, Close
  <2> DEFINE d == AfterDecrypt(ch, f)
  <2>2. /\ d.receiveCounter = ch.receiveCounter + 1
        /\ d.peerIdentityReceived = TRUE
        /\ d.sendCounter = ch.sendCounter
        /\ d.localIdentitySent = ch.localIdentitySent
        /\ d.discarded = ch.discarded
        /\ d.failed = ch.failed
    BY <2>1 DEF Channel
  <2>3. ch.discarded = FALSE /\ ch.failed = FALSE
    BY <1>1 DEF Channel
  <2>4. /\ f.counter = ch.receiveCounter
        /\ ch.sendCounter = Len(out)
        /\ ch.receiveCounter = Len(in)
        /\ (ch.localIdentitySent <=> Len(out) # 0)
    BY <1>1 DEF Counts, Opens
  <2>5. f.event # Close
    BY <1>3 DEF Identity, Close
  <2> HIDE DEF d
  <2>6. Counts(d, out, Append(in, f.event))
    BY <1>2, <2>2, <2>4 DEF Counts
  <2> QED  BY <2>2, <2>3, <2>4, <2>5, <2>6 DEF d
<1>4. CASE f.event = Close
  <2>1. AfterDecrypt(ch, f) = Discard(ch)
    BY <1>4 DEF AfterDecrypt, Identity, Close
  <2>2. ch.failed = FALSE /\ f.counter = Len(in)
    BY <1>1 DEF Counts, Channel, Opens
  <2>3. Discard(ch).discarded = TRUE /\ Discard(ch).failed = FALSE
    BY <2>2, DiscardType DEF Channel
  <2> QED  BY <1>4, <2>1, <2>2, <2>3 DEF Counts
<1>5. CASE f.event # Identity /\ f.event # Close
  <2>1. AfterDecrypt(ch, f) = [ch EXCEPT !.receiveCounter = @ + 1]
    BY <1>5 DEF AfterDecrypt
  <2>2. Len(in) # 0
    BY <1>1, <1>5 DEF Opens, ValidEvent, Counts
  <2> QED  BY <1>1, <1>2, <1>5, <2>1, <2>2 DEF Counts, Channel, Opens
<1> QED  BY <1>1, <1>3, <1>4, <1>5 DEF Counts, Opens

-----------------------------------------------------------------------------
(* Steps preserve the invariant *)

\* A step of one end leaves a family of channels, and the types of the logs.
LEMMA StepType ==
    ASSUME TypeOK, NEW s \in Session, NEW r \in Role, NEW d \in Channel,
           d.session = s, d.role = r,
           channel' = [channel EXCEPT ![s][r] = d],
           network' \subseteq Frame,
           said' \in [Session -> [Role -> Seq(Event)]],
           heard' \in [Session -> [Role -> Seq(Event)]]
    PROVE  TypeOK'
<1>1. channel' \in [Session -> [Role -> Channel]]
  BY DEF TypeOK
<1>2. \A t \in Session, q \in Role :
          channel'[t][q].session = t /\ channel'[t][q].role = q
  BY DEF TypeOK
<1> QED  BY <1>1, <1>2 DEF TypeOK

\* The initial state.
LEMMA InitInv == Init => ChannelInv
<1> SUFFICES ASSUME Init PROVE ChannelInv  OBVIOUS
<1>1. \A s \in Session, r \in Role : NewChannel(s, r) \in Channel
  BY DEF NewChannel, Channel
<1>2. TypeOK
  <2>1. channel \in [Session -> [Role -> Channel]]
    BY <1>1 DEF Init
  <2>2. \A s \in Session, r \in Role :
            channel[s][r].session = s /\ channel[s][r].role = r
    BY DEF Init, NewChannel
  <2> QED  BY <2>1, <2>2 DEF TypeOK, Init
<1>3. ChannelsCount
  BY DEF ChannelsCount, Counts, Init, NewChannel
<1>4. FailedIsDiscarded
  BY DEF FailedIsDiscarded, Init, NewChannel
<1>5. FramesAreSaid /\ TextsAreBetweenAcquaintances
  BY DEF FramesAreSaid, TextsAreBetweenAcquaintances, Init
<1>6. LogsStartWithIdentity
  BY DEF LogsStartWithIdentity, OpenLog, Init
<1> QED  BY <1>2, <1>3, <1>4, <1>5, <1>6 DEF ChannelInv

\* Encryption.
LEMMA EncryptStep ==
    ASSUME ChannelInv, NEW s \in Session, NEW r \in Role, NEW e \in Event,
           Encrypt(s, r, e)
    PROVE  ChannelInv'
<1> DEFINE ch == channel[s][r]
           d == AfterEncrypt(ch, e)
           out == said[s][r]
           in == heard[s][r]
           g == Encrypted(ch, e)
<1>1. /\ ch \in Channel /\ ch.session = s /\ ch.role = r
      /\ out \in Seq(Event) /\ in \in Seq(Event)
      /\ Counts(ch, out, in)
      /\ OpenLog(ch, out) /\ OpenLog(ch, in)
  BY DEF ChannelInv, TypeOK, ChannelsCount, LogsStartWithIdentity
<1>2. /\ MayEncrypt(ch, e)
      /\ channel' = [channel EXCEPT ![s][r] = d]
      /\ network' = network \cup {g}
      /\ said' = [said EXCEPT ![s][r] = Append(out, e)]
      /\ heard' = heard
  BY DEF Encrypt
<1>3. d \in Channel /\ d.session = s /\ d.role = r
  BY <1>1, EncryptType
<1>4. /\ Counts(d, Append(out, e), in)
      /\ ch.sendCounter = Len(out)
      /\ d.discarded = (e = Close)
      /\ d.failed = FALSE
  BY <1>1, <1>2, EncryptCounts
<1>5. /\ g.session = s /\ g.from = r /\ g.counter = Len(out) /\ g.event = e
      /\ g \in Frame
  BY <1>1, <1>4 DEF Encrypted, Frame, Channel
<1> HIDE DEF d, g
<1>6. /\ channel'[s][r] = d
      /\ said'[s][r] = Append(out, e)
      /\ \A t \in Session, q \in Role : t # s \/ q # r =>
            channel'[t][q] = channel[t][q] /\ said'[t][q] = said[t][q]
  BY <1>2 DEF ChannelInv, TypeOK
<1>7. /\ Len(out) \in Nat
      /\ Len(Append(out, e)) = Len(out) + 1
      /\ Append(out, e)[Len(out) + 1] = e
      /\ \A i \in 1..Len(out) : Append(out, e)[i] = out[i]
  BY <1>1
<1>8. ~ch.discarded
  BY <1>2 DEF MayEncrypt, Usable
<1>9. e \in Text => Len(out) # 0 /\ Len(in) # 0
  BY <1>1, <1>2, <1>8 DEF MayEncrypt, Active, Counts
<1>10. TypeOK'
  <2>1. network' \subseteq Frame
    BY <1>2, <1>5 DEF ChannelInv, TypeOK
  <2>2. said' \in [Session -> [Role -> Seq(Event)]]
    BY <1>1, <1>2 DEF ChannelInv, TypeOK
  <2>3. heard' \in [Session -> [Role -> Seq(Event)]]
    BY <1>2 DEF ChannelInv, TypeOK
  <2> QED  BY <1>2, <1>3, <2>1, <2>2, <2>3, StepType DEF ChannelInv
<1>11. ChannelsCount'
  BY <1>2, <1>4, <1>6 DEF ChannelInv, ChannelsCount
<1>12. FailedIsDiscarded'
  BY <1>4, <1>6 DEF ChannelInv, FailedIsDiscarded
<1>13. FramesAreSaid'
  <2> SUFFICES ASSUME NEW f \in network'
               PROVE  /\ f.counter < Len(said'[f.session][f.from])
                      /\ f.event = said'[f.session][f.from][f.counter + 1]
    BY DEF FramesAreSaid
  <2>1. CASE f = g
    BY <2>1, <1>5, <1>6, <1>7
  <2>2. CASE f \in network
    <3>1. /\ f.session \in Session /\ f.from \in Role /\ f.counter \in Nat
          /\ f.counter < Len(said[f.session][f.from])
          /\ f.event = said[f.session][f.from][f.counter + 1]
      BY <2>2 DEF ChannelInv, TypeOK, Frame, FramesAreSaid
    <3>2. CASE f.session = s /\ f.from = r
      <4>1. f.counter + 1 \in 1..Len(out)
        BY <1>7, <3>1, <3>2
      <4>2. said'[f.session][f.from] = Append(out, e) /\ said[f.session][f.from] = out
        BY <1>6, <3>2
      <4>3. Append(out, e)[f.counter + 1] = out[f.counter + 1]
        BY <1>7, <4>1
      <4>4. f.counter < Len(Append(out, e))
        BY <1>7, <3>1, <4>2
      <4> QED  BY <3>1, <4>2, <4>3, <4>4
    <3> QED  BY <1>6, <3>1, <3>2
  <2> QED  BY <1>2, <2>1, <2>2
<1>14. LogsStartWithIdentity'
  <2>1. OpenLog(d, Append(out, e))
    <3>1. CASE Len(out) # 0
      BY <1>1, <1>7, <1>8, <3>1 DEF OpenLog
    <3>2. CASE Len(out) = 0 /\ e # Close
      <4>1. e = Identity
        BY <1>9, <3>2 DEF Event
      <4> QED  BY <1>7, <3>2, <4>1 DEF OpenLog
    <3>3. CASE e = Close
      BY <1>4, <3>3 DEF OpenLog
    <3> QED  BY <3>1, <3>2, <3>3
  <2>2. OpenLog(d, in)
    BY <1>1, <1>8 DEF OpenLog
  <2> QED  BY <1>2, <1>6, <2>1, <2>2 DEF ChannelInv, LogsStartWithIdentity
<1>15. TextsAreBetweenAcquaintances'
  <2> SUFFICES ASSUME NEW f \in network', f.event \in Text
               PROVE  /\ said'[f.session][f.from][1] = Identity
                      /\ heard'[f.session][f.from] # <<>>
                      /\ heard'[f.session][f.from][1] = Identity
    BY DEF TextsAreBetweenAcquaintances
  <2>1. CASE f = g
    <3>1. Len(out) # 0 /\ Len(in) # 0
      BY <1>5, <1>9, <2>1
    <3>2. out[1] = Identity /\ in[1] = Identity /\ in # <<>>
      BY <1>1, <1>8, <3>1 DEF OpenLog
    <3> QED  BY <1>2, <1>5, <1>6, <1>7, <2>1, <3>1, <3>2
  <2>2. CASE f \in network
    <3>1. /\ said[f.session][f.from][1] = Identity
          /\ heard[f.session][f.from] # <<>>
          /\ heard[f.session][f.from][1] = Identity
      BY <2>2 DEF ChannelInv, TextsAreBetweenAcquaintances
    <3>2. f.session \in Session /\ f.from \in Role /\ f.counter \in Nat
      BY <2>2 DEF ChannelInv, TypeOK, Frame
    <3>3. Len(said[f.session][f.from]) # 0
      BY <2>2, <3>2 DEF ChannelInv, FramesAreSaid
    <3>4. said'[f.session][f.from][1] = said[f.session][f.from][1]
      <4>1. CASE f.session = s /\ f.from = r
        <5>1. said'[f.session][f.from] = Append(out, e) /\ said[f.session][f.from] = out
          BY <1>6, <4>1
        <5>2. 1 \in 1..Len(out)
          BY <1>7, <3>3, <5>1
        <5> QED  BY <1>7, <5>1, <5>2
      <4> QED  BY <1>6, <3>2, <4>1
    <3> QED  BY <1>2, <3>1, <3>4
  <2> QED  BY <1>2, <2>1, <2>2
<1> QED  BY <1>10, <1>11, <1>12, <1>13, <1>14, <1>15 DEF ChannelInv

\* Decryption of the next frame.
LEMMA DecryptStep ==
    ASSUME ChannelInv, NEW s \in Session, NEW r \in Role, NEW f \in Deliverable,
           Decrypt(s, r, f)
    PROVE  ChannelInv'
<1> DEFINE ch == channel[s][r]
           d == AfterDecrypt(ch, f)
           out == said[s][r]
           in == heard[s][r]
           e == f.event
<1>1. /\ ch \in Channel /\ ch.session = s /\ ch.role = r
      /\ out \in Seq(Event) /\ in \in Seq(Event)
      /\ Counts(ch, out, in)
      /\ OpenLog(ch, out) /\ OpenLog(ch, in)
  BY DEF ChannelInv, TypeOK, ChannelsCount, LogsStartWithIdentity
<1>2. /\ Usable(ch)
      /\ Opens(ch, f)
      /\ channel' = [channel EXCEPT ![s][r] = d]
      /\ heard' = [heard EXCEPT ![s][r] = Append(in, e)]
      /\ network' = network /\ said' = said
  BY DEF Decrypt
<1>3. d \in Channel /\ d.session = s /\ d.role = r
  BY <1>1, DecryptType
<1>4. /\ Counts(d, out, Append(in, e))
      /\ d.discarded = (e = Close)
      /\ d.failed = FALSE
      /\ e \in Event
  BY <1>1, <1>2, DecryptCounts, OpensEvent
<1> HIDE DEF d, e
<1>5. /\ channel'[s][r] = d
      /\ heard'[s][r] = Append(in, e)
      /\ \A t \in Session, q \in Role : t # s \/ q # r =>
            channel'[t][q] = channel[t][q] /\ heard'[t][q] = heard[t][q]
  BY <1>2 DEF ChannelInv, TypeOK
<1>6. /\ Len(in) \in Nat
      /\ Len(Append(in, e)) = Len(in) + 1
      /\ Append(in, e)[Len(in) + 1] = e
      /\ \A i \in 1..Len(in) : Append(in, e)[i] = in[i]
  BY <1>1, <1>4
<1>7. ~ch.discarded
  BY <1>2 DEF Usable
<1>8. e \in Text => Len(in) # 0
  BY <1>1, <1>2, <1>7, ChannelAssumption
     DEF Opens, ValidEvent, Counts, Identity, Close, e
<1>9. TypeOK'
  <2>1. heard' \in [Session -> [Role -> Seq(Event)]]
    BY <1>1, <1>2, <1>4 DEF ChannelInv, TypeOK
  <2> QED  BY <1>2, <1>3, <2>1, StepType DEF ChannelInv, TypeOK
<1>10. ChannelsCount'
  BY <1>2, <1>4, <1>5 DEF ChannelInv, ChannelsCount
<1>11. FailedIsDiscarded'
  BY <1>4, <1>5 DEF ChannelInv, FailedIsDiscarded
<1>12. FramesAreSaid'
  BY <1>2 DEF ChannelInv, FramesAreSaid
<1>13. LogsStartWithIdentity'
  <2>1. OpenLog(d, Append(in, e))
    <3>1. CASE Len(in) # 0
      BY <1>1, <1>6, <1>7, <3>1 DEF OpenLog
    <3>2. CASE Len(in) = 0 /\ e # Close
      <4>1. e = Identity
        BY <1>4, <1>8, <3>2 DEF Event
      <4> QED  BY <1>6, <3>2, <4>1 DEF OpenLog
    <3>3. CASE e = Close
      BY <1>4, <3>3 DEF OpenLog
    <3> QED  BY <3>1, <3>2, <3>3
  <2>2. OpenLog(d, out)
    BY <1>1, <1>7 DEF OpenLog
  <2> QED  BY <1>2, <1>5, <2>1, <2>2 DEF ChannelInv, LogsStartWithIdentity
<1>14. TextsAreBetweenAcquaintances'
  <2> SUFFICES ASSUME NEW g \in network, g.event \in Text
               PROVE  /\ said[g.session][g.from][1] = Identity
                      /\ heard'[g.session][g.from] # <<>>
                      /\ heard'[g.session][g.from][1] = Identity
    BY <1>2 DEF TextsAreBetweenAcquaintances
  <2>1. /\ said[g.session][g.from][1] = Identity
        /\ heard[g.session][g.from] # <<>>
        /\ heard[g.session][g.from][1] = Identity
        /\ g.session \in Session /\ g.from \in Role
    BY DEF ChannelInv, TextsAreBetweenAcquaintances, TypeOK, Frame
  <2>2. CASE g.session = s /\ g.from = r
    <3>1. in # <<>> /\ in[1] = Identity
      BY <2>1, <2>2
    <3>2. 1 \in 1..Len(in)
      BY <1>1, <3>1
    <3>3. Append(in, e)[1] = in[1] /\ Append(in, e) # <<>>
      BY <1>1, <1>4, <1>6, <3>2
    <3> QED  BY <1>5, <2>1, <2>2, <3>1, <3>3
  <2> QED  BY <1>5, <2>1, <2>2
<1> QED  BY <1>9, <1>10, <1>11, <1>12, <1>13, <1>14 DEF ChannelInv

\* A step that only discards a channel: a rejected frame, an abandoned session.
LEMMA DiscardStep ==
    ASSUME ChannelInv, NEW s \in Session, NEW r \in Role, NEW d \in Channel,
           d.session = s, d.role = r, d.discarded,
           channel' = [channel EXCEPT ![s][r] = d],
           UNCHANGED <<network, said, heard>>
    PROVE  ChannelInv'
<1>1. /\ channel'[s][r] = d
      /\ \A t \in Session, q \in Role : t # s \/ q # r => channel'[t][q] = channel[t][q]
  BY DEF ChannelInv, TypeOK
<1>2. TypeOK'
  BY StepType DEF ChannelInv, TypeOK
<1>3. ChannelsCount'
  BY <1>1 DEF ChannelInv, ChannelsCount, Counts
<1>4. FailedIsDiscarded'
  BY <1>1 DEF ChannelInv, FailedIsDiscarded
<1>5. FramesAreSaid' /\ TextsAreBetweenAcquaintances'
  BY DEF ChannelInv, FramesAreSaid, TextsAreBetweenAcquaintances
<1>6. LogsStartWithIdentity'
  BY <1>1 DEF ChannelInv, LogsStartWithIdentity, OpenLog
<1> QED  BY <1>2, <1>3, <1>4, <1>5, <1>6 DEF ChannelInv

\* Every step.
LEMMA NextInv == ChannelInv /\ [Next]_vars => ChannelInv'
<1> SUFFICES ASSUME ChannelInv, [Next]_vars PROVE ChannelInv'  OBVIOUS
<1>1. CASE UNCHANGED vars
  BY <1>1 DEF vars, ChannelInv, TypeOK, ChannelsCount, FailedIsDiscarded, FramesAreSaid,
              LogsStartWithIdentity, TextsAreBetweenAcquaintances
<1>2. ASSUME NEW s \in Session, NEW r \in Role, NEW e \in Event, Encrypt(s, r, e)
      PROVE  ChannelInv'
  BY <1>2, EncryptStep
<1>3. ASSUME NEW s \in Session, NEW r \in Role, NEW f \in Deliverable, Decrypt(s, r, f)
      PROVE  ChannelInv'
  BY <1>3, DecryptStep
<1>4. ASSUME NEW s \in Session, NEW r \in Role, NEW f \in Deliverable, Reject(s, r, f)
      PROVE  ChannelInv'
  <2> DEFINE ch == channel[s][r]
  <2>1. ch \in Channel /\ ch.session = s /\ ch.role = r
    BY DEF ChannelInv, TypeOK
  <2>2. AfterDecrypt(ch, f) = Fail(ch)
    BY <1>4 DEF Reject, AfterDecrypt
  <2>3. channel' = [channel EXCEPT ![s][r] = Fail(ch)] /\ UNCHANGED <<network, said, heard>>
    BY <1>4, <2>2 DEF Reject
  <2>4. Fail(ch) \in Channel /\ Fail(ch).session = s /\ Fail(ch).role = r /\ Fail(ch).discarded
    BY <2>1, FailType
  <2> QED  BY <2>3, <2>4, DiscardStep
<1>5. ASSUME NEW s \in Session, NEW r \in Role, Abandon(s, r)
      PROVE  ChannelInv'
  <2> DEFINE ch == channel[s][r]
  <2>1. ch \in Channel /\ ch.session = s /\ ch.role = r
    BY DEF ChannelInv, TypeOK
  <2>2. channel' = [channel EXCEPT ![s][r] = Discard(ch)] /\ UNCHANGED <<network, said, heard>>
    BY <1>5 DEF Abandon
  <2>3. /\ Discard(ch) \in Channel /\ Discard(ch).session = s /\ Discard(ch).role = r
        /\ Discard(ch).discarded
    BY <2>1, DiscardType
  <2> QED  BY <2>2, <2>3, DiscardStep
<1> QED  BY <1>1, <1>2, <1>3, <1>4, <1>5 DEF Next

\* Every reachable state satisfies the inductive invariant.
THEOREM ChannelInvariant == Spec => []ChannelInv
BY InitInv, NextInv, PTL DEF Spec

-----------------------------------------------------------------------------
(* Results *)

\* Channels, frames and histories keep their types.
THEOREM ChannelTypeCorrect == Spec => []TypeOK
<1>1. ChannelInv => TypeOK  BY DEF ChannelInv
<1> QED  BY <1>1, ChannelInvariant, PTL

\* No key meets a nonce twice.
THEOREM NoncesAreFresh == Spec => []NonceUsedOnce
<1>1. ASSUME ChannelInv, NEW f \in network, NEW g \in network,
             f.session = g.session, f.from = g.from, f.counter = g.counter
      PROVE  f = g
  <2>1. f.event = g.event
    BY <1>1 DEF ChannelInv, FramesAreSaid
  <2>2. f \in Frame /\ g \in Frame
    BY <1>1 DEF ChannelInv, TypeOK
  <2> QED  BY <1>1, <2>1, <2>2 DEF Frame
<1>2. ChannelInv => NonceUsedOnce
  BY <1>1 DEF NonceUsedOnce
<1> QED  BY <1>2, ChannelInvariant, PTL

\* Texts pass between users who have identified each other.
THEOREM AcquaintancesOnly == Spec => []TextsAreBetweenAcquaintances
<1>1. ChannelInv => TextsAreBetweenAcquaintances  BY DEF ChannelInv
<1> QED  BY <1>1, ChannelInvariant, PTL

-----------------------------------------------------------------------------
(* The refinement *)

\* over in the abstract conversation.
Ended == [s \in Session |-> [r \in Role |-> channel[s][r].discarded]]

\* A step about one end changes that end's `over' only.
LEMMA EndedStep ==
    ASSUME ChannelInv, NEW s \in Session, NEW r \in Role, NEW d \in Channel,
           channel' = [channel EXCEPT ![s][r] = d]
    PROVE  Ended' = [Ended EXCEPT ![s][r] = d.discarded]
<1>1. \A t \in Session, q \in Role :
          channel'[t][q].discarded =
            IF t = s /\ q = r THEN d.discarded ELSE channel[t][q].discarded
  BY DEF ChannelInv, TypeOK
<1>2. Ended' = [t \in Session |-> [q \in Role |->
          IF t = s /\ q = r THEN d.discarded ELSE channel[t][q].discarded]]
  BY <1>1 DEF Ended
<1>3. [Ended EXCEPT ![s][r] = d.discarded] = [t \in Session |-> [q \in Role |->
          IF t = s /\ q = r THEN d.discarded ELSE channel[t][q].discarded]]
  BY DEF Ended
<1> QED  BY <1>2, <1>3

\* Encrypting is saying.
LEMMA EncryptSays ==
    ASSUME ChannelInv, NEW s \in Session, NEW r \in Role, NEW e \in Event,
           Encrypt(s, r, e)
    PROVE  Talk!Say(s, r, e)
<1> DEFINE ch == channel[s][r]
           d == AfterEncrypt(ch, e)
<1>1. /\ ch \in Channel
      /\ said[s][r] \in Seq(Event) /\ heard[s][r] \in Seq(Event)
      /\ Counts(ch, said[s][r], heard[s][r])
  BY DEF ChannelInv, TypeOK, ChannelsCount
<1>2. /\ MayEncrypt(ch, e)
      /\ channel' = [channel EXCEPT ![s][r] = d]
      /\ said' = [said EXCEPT ![s][r] = Append(@, e)]
      /\ heard' = heard
  BY DEF Encrypt
<1>3. d \in Channel /\ d.discarded = (e = Close)
  BY <1>1, <1>2, EncryptType, EncryptCounts
<1>4. ~ch.discarded
  BY <1>2 DEF MayEncrypt, Usable
<1>5. e = "identity" => said[s][r] = <<>>
  BY <1>1, <1>2, <1>4 DEF MayEncrypt, Counts, Identity
<1>6. e \in Text => said[s][r] # <<>> /\ heard[s][r] # <<>>
  BY <1>1, <1>2, <1>4 DEF MayEncrypt, Active, Counts
<1>7. Ended' = [Ended EXCEPT ![s][r] = (e = "close")]
  BY <1>2, <1>3, EndedStep DEF Close
<1> QED  BY <1>2, <1>4, <1>5, <1>6, <1>7 DEF Talk!Say, Talk!MaySay, Ended

\* Decrypting is hearing the next event of the other end.
LEMMA DecryptHears ==
    ASSUME ChannelInv, NEW s \in Session, NEW r \in Role, NEW f \in Deliverable,
           Decrypt(s, r, f)
    PROVE  \E q \in Role : Talk!Hear(s, r, q)
<1> DEFINE ch == channel[s][r]
           d == AfterDecrypt(ch, f)
           q == OtherRole(r)
           n == Len(heard[s][r]) + 1
<1>1. /\ ch \in Channel /\ ch.session = s /\ ch.role = r
      /\ said[s][r] \in Seq(Event) /\ heard[s][r] \in Seq(Event)
      /\ Counts(ch, said[s][r], heard[s][r])
  BY DEF ChannelInv, TypeOK, ChannelsCount
<1>2. /\ Usable(ch)
      /\ Opens(ch, f)
      /\ channel' = [channel EXCEPT ![s][r] = d]
      /\ heard' = [heard EXCEPT ![s][r] = Append(@, f.event)]
      /\ said' = said
  BY DEF Decrypt
<1>3. d \in Channel /\ d.discarded = (f.event = Close) /\ f.counter = Len(heard[s][r])
  BY <1>1, <1>2, DecryptType, DecryptCounts
<1>4. f \in network
  BY <1>2, OpensGenuine DEF ChannelInv
<1>5. q \in Role /\ q # r
  BY DEF OtherRole, Role
<1>6. f.session = s /\ f.from = q
  BY <1>1, <1>2 DEF Opens
<1>7. n <= Len(said[s][q]) /\ f.event = said[s][q][n]
  <2>1. Len(heard[s][r]) \in Nat /\ said[s][q] \in Seq(Event)
    BY <1>1, <1>5 DEF ChannelInv, TypeOK
  <2>2. /\ f.counter < Len(said[f.session][f.from])
        /\ f.event = said[f.session][f.from][f.counter + 1]
    BY <1>4 DEF ChannelInv, FramesAreSaid
  <2>3. /\ Len(heard[s][r]) < Len(said[s][q])
        /\ f.event = said[s][q][n]
    BY <1>3, <1>6, <2>2
  <2>4. Len(said[s][q]) \in Nat
    BY <2>1
  <2> HIDE DEF q
  <2> QED  BY <2>1, <2>3, <2>4
<1>8. ~ch.discarded
  BY <1>2 DEF Usable
<1>9. Ended' = [Ended EXCEPT ![s][r] = (said[s][q][n] = "close")]
  BY <1>2, <1>3, <1>7, EndedStep DEF Close
<1>10. heard' = [heard EXCEPT ![s][r] = Append(@, said[s][q][n])]
  BY <1>2, <1>7
<1>11. Talk!Hear(s, r, q)
  BY <1>2, <1>5, <1>7, <1>8, <1>9, <1>10 DEF Talk!Hear, Ended
<1> QED  BY <1>5, <1>11

\* Losing the keys is giving up.
LEMMA DiscardGivesUp ==
    ASSUME ChannelInv, NEW s \in Session, NEW r \in Role, NEW d \in Channel,
           Usable(channel[s][r]), d.discarded,
           channel' = [channel EXCEPT ![s][r] = d],
           UNCHANGED <<network, said, heard>>
    PROVE  Talk!GiveUp(s, r)
<1>1. d.discarded = TRUE
  BY DEF Channel
<1>2. Ended' = [Ended EXCEPT ![s][r] = d.discarded]
  BY EndedStep
<1>3. Ended' = [Ended EXCEPT ![s][r] = TRUE]
  BY <1>1, <1>2
<1> QED  BY <1>3 DEF Talk!GiveUp, Usable, Ended

\* The channels implement the conversation.
THEOREM ChannelsConverse == Spec => IsConversation
<1>1. Init => Talk!Init
  <2> SUFFICES ASSUME Init PROVE Talk!Init  OBVIOUS
  <2>1. \A s \in Session, r \in Role : channel[s][r].discarded = FALSE
    BY DEF Init, NewChannel
  <2> QED  BY <2>1 DEF Init, Talk!Init
<1>2. ChannelInv /\ [Next]_vars => [Talk!Next]_(Talk!conversationVars)
  <2> SUFFICES ASSUME ChannelInv, [Next]_vars
               PROVE  Talk!Next \/ UNCHANGED Talk!conversationVars
    OBVIOUS
  <2>1. CASE UNCHANGED vars
    BY <2>1 DEF vars, Talk!conversationVars
  <2>2. ASSUME NEW s \in Session, NEW r \in Role, NEW e \in Event, Encrypt(s, r, e)
        PROVE  Talk!Next
    BY <2>2, EncryptSays DEF Talk!Next, Event, Identity, Close
  <2>3. ASSUME NEW s \in Session, NEW r \in Role, NEW f \in Deliverable, Decrypt(s, r, f)
        PROVE  Talk!Next
    BY <2>3, DecryptHears DEF Talk!Next
  <2>4. ASSUME NEW s \in Session, NEW r \in Role, NEW f \in Deliverable, Reject(s, r, f)
        PROVE  Talk!Next
    <3> DEFINE ch == channel[s][r]
    <3>1. ch \in Channel
      BY DEF ChannelInv, TypeOK
    <3>2. Fail(ch) \in Channel /\ Fail(ch).discarded
      BY <3>1, FailType
    <3>3. /\ Usable(ch)
          /\ channel' = [channel EXCEPT ![s][r] = Fail(ch)]
          /\ UNCHANGED <<network, said, heard>>
      BY <2>4 DEF Reject, AfterDecrypt
    <3>4. Talk!GiveUp(s, r)
      BY <3>2, <3>3, DiscardGivesUp
    <3> QED  BY <3>4 DEF Talk!Next
  <2>5. ASSUME NEW s \in Session, NEW r \in Role, Abandon(s, r)
        PROVE  Talk!Next
    <3> DEFINE ch == channel[s][r]
    <3>1. ch \in Channel
      BY DEF ChannelInv, TypeOK
    <3>2. Discard(ch) \in Channel /\ Discard(ch).discarded
      BY <3>1, DiscardType
    <3>3. /\ Usable(ch)
          /\ channel' = [channel EXCEPT ![s][r] = Discard(ch)]
          /\ UNCHANGED <<network, said, heard>>
      BY <2>5 DEF Abandon
    <3>4. Talk!GiveUp(s, r)
      BY <3>2, <3>3, DiscardGivesUp
    <3> QED  BY <3>4 DEF Talk!Next
  <2> QED  BY <2>1, <2>2, <2>3, <2>4, <2>5 DEF Next
<1> QED  BY <1>1, <1>2, ChannelInvariant, PTL DEF Spec, IsConversation, Talk!Spec

=============================================================================

------------------------- MODULE LiveSessionChannel -------------------------
(***************************************************************************)
(* One end of an encrypted comm (class LiveSessionChannel of sessions.py): *)
(* its methods as operators on the object's state.                         *)
(*                                                                         *)
(* Authenticated encryption is modelled by what it guarantees: a body      *)
(* opens exactly under the key of its session and direction, with the      *)
(* counter it was encrypted with, and yields the event that was encrypted. *)
(* A frame with a damaged body carries the event Garbage.                  *)
(***************************************************************************)
EXTENDS Naturals

CONSTANTS
    Session,        \* session IDs; each has its own pair of keys
    Text,           \* what users write
    CounterMax      \* SESSION_COUNTER_MAX

ASSUME ChannelAssumption ==
    /\ CounterMax \in Nat
    /\ {"identity", "close", "garbage"} \cap Text = {}

Role == {"creator", "joiner"}

OtherRole(r) == IF r = "creator" THEN "joiner" ELSE "creator"

\* (A definition that nothing uses, before one of a similar name, is a plausible
\* mistake the properties must tell from the code.)

\* SessionEvent; the values of identity and close events are left out.
Identity == "identity"
Close == "close"
Garbage == "garbage"
Event == {Identity, Close} \cup Text

\* EncryptedSessionFrame: the direction is given by the sender's role.
Frame ==
    [session : Session, from : Role, counter : Nat, event : Event \cup {Garbage}]

Channel ==
    [session : Session, role : Role,
     sendCounter : Nat, receiveCounter : Nat,
     localIdentitySent : BOOLEAN, peerIdentityReceived : BOOLEAN,
     discarded : BOOLEAN, failed : BOOLEAN]

NewChannelMirrored(s, r) ==
    [session |-> s, role |-> OtherRole(r), sendCounter |-> 0, receiveCounter |-> 0,
     localIdentitySent |-> FALSE, peerIdentityReceived |-> FALSE,
     discarded |-> FALSE, failed |-> FALSE]

NewChannel(s, r) ==
    [session |-> s, role |-> r, sendCounter |-> 0, receiveCounter |-> 0,
     localIdentitySent |-> FALSE, peerIdentityReceived |-> FALSE,
     discarded |-> FALSE, failed |-> FALSE]

-----------------------------------------------------------------------------

UsableUnlessFailed(ch) == ~ch.failed

Usable(ch) == ~ch.discarded /\ ~ch.failed

Active(ch) == Usable(ch) /\ ch.localIdentitySent /\ ch.peerIdentityReceived

\* discard: the keys are overwritten and the counters start over.
Discard(ch) ==
    IF ch.discarded THEN ch
    ELSE [ch EXCEPT !.sendCounter = 0, !.receiveCounter = 0,
                    !.localIdentitySent = FALSE, !.peerIdentityReceived = FALSE,
                    !.discarded = TRUE]

Fail(ch) == Discard([ch EXCEPT !.failed = TRUE])

\* encrypt_identity, encrypt_text, encrypt_close: the state each asks for.
MayEncryptEarly(ch, e) ==
    /\ Usable(ch)
    /\ e = Identity => ~ch.localIdentitySent /\ ch.sendCounter = 0
    /\ e \in Text => ch.localIdentitySent
    /\ ch.sendCounter <= CounterMax

MayEncrypt(ch, e) ==
    /\ Usable(ch)
    /\ e = Identity => ~ch.localIdentitySent /\ ch.sendCounter = 0
    /\ e \in Text => Active(ch)
    /\ ch.sendCounter <= CounterMax

Encrypted(ch, e) ==
    [session |-> ch.session, from |-> ch.role, counter |-> ch.sendCounter, event |-> e]

AfterEncrypt(ch, e) ==
    CASE e = Identity -> [ch EXCEPT !.sendCounter = @ + 1, !.localIdentitySent = TRUE]
      [] e = Close -> Discard(ch)
      [] OTHER -> [ch EXCEPT !.sendCounter = @ + 1]

\* _validate_received_event: identity first and once, close at any time.
ValidEvent(ch, e) ==
    \/ e = Close
    \/ e = Identity /\ ~ch.peerIdentityReceived
    \/ e \in Text /\ ch.peerIdentityReceived /\ ch.localIdentitySent

\* decrypt_frame: the frame is the next one of the peer in this session.
OpensLater(ch, f) ==
    /\ f.session = ch.session
    /\ f.from = OtherRole(ch.role)
    /\ f.counter >= ch.receiveCounter
    /\ ValidEvent(ch, f.event)

Opens(ch, f) ==
    /\ f.session = ch.session
    /\ f.from = OtherRole(ch.role)
    /\ f.counter = ch.receiveCounter
    /\ ValidEvent(ch, f.event)

AfterDecrypt(ch, f) ==
    IF ~Opens(ch, f) THEN Fail(ch)
    ELSE CASE f.event = Identity ->
                [ch EXCEPT !.receiveCounter = @ + 1, !.peerIdentityReceived = TRUE]
           [] f.event = Close -> Discard(ch)
           [] OTHER -> [ch EXCEPT !.receiveCounter = @ + 1]

=============================================================================

------------------------------ MODULE Channel ------------------------------
(***************************************************************************)
(* The channel between a device and its realm (arveil-core/src/channel,    *)
(* arveil-app/src/carrier.rs): the frames and what answers each of them,   *)
(* the fragments a frame travels in, the handshake, and how a failure is   *)
(* classified.  All of it is without state; Streams keeps the connections. *)
(*                                                                         *)
(* A sealed message carries its nonce: Noise opens a message only with the *)
(* next one, so a message lost, repeated or out of order is refused.       *)
(***************************************************************************)
EXTENDS Integers, Sequences, SequencesExt

CONSTANTS FragmentData,  \* FRAGMENT_DATA, in the units frames are measured in
          MaxFrame       \* MAX_FRAME_BYTES, in the same units

ASSUME ChannelAssumption == FragmentData \in Nat \ {0} /\ MaxFrame \in Nat
-----------------------------------------------------------------------------
(* What answers each request when it is not an Error. *)

InvitationFrames ==
    [InvitePolicyGet |-> "InvitePolicy", InviteCreate |-> "Invitation",
     InviteList |-> "Invitations", InviteGet |-> "Invitation", InviteRevoke |-> "Invitation",
     InviteAccept |-> "Invitation", KeyPackagesClaimOnce |-> "KeyPackageClaimed"]

SessionFrames ==
    [Ping |-> "Pong", WatchKeySet |-> "Ack", MailboxWatch |-> "Ack",
     EndpointListGet |-> "EndpointList", NotifyHintSet |-> "Ack"]

IdentityFrames ==
    [InviteRedeem |-> "InviteRedeemed", CredentialPut |-> "Ack", ManifestPut |-> "Ack",
     RecoverIdentity |-> "Recovered", ManifestGet |-> "ManifestLatest",
     CredentialGet |-> "CredentialFound"]

PairFrames == [PairBegin |-> "PairStarted", PairPut |-> "Ack", PairGet |-> "PairFetched"]

KeyPackageFrames ==
    [KeyPackagesPublish |-> "Ack", KeyPackagesStatus |-> "KeyPackagesAvailable",
     KeyPackagesClaim |-> "KeyPackageClaimed"]

MailboxFrames ==
    [MailboxCreate |-> "MailboxCreated", EnvelopePut |-> "EnvelopeAccepted",
     EnvelopeFetch |-> "Envelopes", EnvelopeAck |-> "Ack"]

BlobFrames ==
    [BlobUploadBegin |-> "BlobUploadStarted", BlobResume |-> "BlobOffset", BlobChunk |-> "Ack",
     BlobCommit |-> "BlobCommitted", BlobFetch |-> "BlobData"]

Answers == InvitationFrames @@ SessionFrames @@ IdentityFrames @@ PairFrames
               @@ KeyPackageFrames @@ MailboxFrames @@ BlobFrames

\* The one frame the relay sends unasked, with frame id 0.
Wakeup == "MailboxWakeup"

is_wakeup(payload) == payload = Wakeup
-----------------------------------------------------------------------------
(* Fragments and their reassembly. *)

\* Back to back, the last one marked; an empty frame is one empty fragment.
fragments(bytes) ==
    LET count == IF bytes = <<>> THEN 1 ELSE (Len(bytes) + FragmentData - 1) \div FragmentData
        upto(i) == IF i * FragmentData < Len(bytes) THEN i * FragmentData ELSE Len(bytes)
    IN  [i \in 1..count |-> [last |-> i = count,
                             data |-> SubSeq(bytes, (i - 1) * FragmentData + 1, upto(i))]]

seal(bytes, nonce) ==
    [i \in DOMAIN fragments(bytes) |-> [nonce |-> nonce + i - 1, fragment |-> fragments(bytes)[i]]]

NewReceiver == [nonce |-> 0, buffer |-> <<>>, frames |-> <<>>, refused |-> FALSE]

\* A bounded buffer; the last fragment hands the frame over and empties it.
push(receiver, fragment) ==
    LET whole == receiver.buffer \o fragment.data
    IN  IF Len(whole) > MaxFrame THEN [receiver EXCEPT !.buffer = <<>>, !.refused = TRUE]
        ELSE IF fragment.last
             THEN [receiver EXCEPT !.buffer = <<>>, !.frames = Append(@, whole)]
        ELSE [receiver EXCEPT !.buffer = whole]

\* A refusal is an error of the connection, which nobody reads again.
open(receiver, message) ==
    IF receiver.refused THEN receiver
    ELSE IF message.nonce # receiver.nonce THEN [receiver EXCEPT !.refused = TRUE]
    ELSE push([receiver EXCEPT !.nonce = @ + 1], message.fragment)

Received(messages) == FoldLeft(open, NewReceiver, messages)

Bytes(n) == UNION {[1..k -> {0}] : k \in 0..n}

\* Two frames sealed one after the other arrive whole and apart, and a message
\* that is missing never lets a frame through that was not sent.
ASSUME FragmentsWhole ==
    \A x, y \in Bytes(MaxFrame) :
        LET wire == seal(x, 0) \o seal(y, Len(fragments(x)))
        IN  /\ Received(wire).frames = <<x, y>>
            /\ \A i \in DOMAIN wire :
                   IsPrefix(Received(RemoveAt(wire, i)).frames, <<x, y>>)
-----------------------------------------------------------------------------
(* The handshake: both ends bind the protocol version and the realm, and the *)
(* device names the realm's static key.                                      *)

prologue(version, realm) == <<version, realm>>

Initiator(device, remote, version, realm) ==
    [static |-> device, remote |-> remote, prologue |-> prologue(version, realm), payload |-> <<>>]

Responder(static, version, realm) == [static |-> static, prologue |-> prologue(version, realm)]

\* read_message_1 and read_message_2 succeed.
Established(initiator, responder) ==
    /\ initiator.remote = responder.static
    /\ initiator.prologue = responder.prologue
    /\ initiator.payload = <<>>
-----------------------------------------------------------------------------
(* Failures. *)

Transport(text) == [is |-> "Transport", text |-> text]
Protocol        == [is |-> "Protocol"]
Relay(code)     == [is |-> "Relay", code |-> code]

\* Whether the credentials themselves were refused: reconnecting is pointless.
refused(error) ==
    \/ error.is = "Relay" /\ error.code \in {401, 403}
    \/ error.is = "Transport" /\ error.text \in {"handshake refused", "Policy"}
=============================================================================

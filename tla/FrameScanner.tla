-------------------------- MODULE FrameScanner -------------------------
(***************************************************************************)
(* The framing of the Meshtastic serial stream: nativeFrameScanner and     *)
(* consumeNativeSerial of internal/meshtastic/native_serial.go. A frame is *)
(* two start bytes, a length in two bytes, and the payload; between frames *)
(* a device may write anything, its console output for instance.           *)
(***************************************************************************)
EXTENDS Integers, Sequences

Byte == 0..255

CONSTANTS
  Start1, Start2,  \* 0x94 and 0xC3
  MaxPayload,      \* nativeMaxFramePayloadSize
  MaxDiscarded,    \* nativeMaxDiscardedBytes
  Noises,          \* what a device may write before a frame,
  Messages,        \* the payloads it may write,
  Tails            \* and what may follow the frame

ASSUME FrameAssumption ==
  /\ Start1 \in Byte /\ Start2 \in Byte /\ Start1 # Start2
  /\ MaxPayload \in Nat \ {0} /\ MaxPayload < 65536 /\ MaxDiscarded \in Nat

ASSUME StreamAssumption ==
  /\ Noises \subseteq Seq(Byte) /\ Tails \subseteq Seq(Byte)
  /\ \A p \in Messages : p \in Seq(Byte) /\ Len(p) \in 1..MaxPayload

(* buildNativeFrame.                                                        *)
Frame(payload) ==
  <<Start1, Start2, Len(payload) \div 256, Len(payload) % 256>> \o payload

-----------------------------------------------------------------------------
(* The scanner: what is left of the stream, whether the first start byte    *)
(* was seen, and the bytes discarded since the last frame.                  *)
Scanner == [rest : Seq(Byte), haveStart1 : BOOLEAN, discarded : Nat]

AtHeader(s) == s.haveStart1 /\ Head(s.rest) = Start2

Length(s) == 256 * s.rest[2] + s.rest[3]

AtFrame(s) == AtHeader(s) /\ Length(s) \in 1..MaxPayload

(* A stream that ends inside a frame ends there.                            *)
Ended(s) ==
  \/ s.rest = <<>>
  \/ AtHeader(s) /\ Len(s.rest) < 3
  \/ AtFrame(s) /\ Len(s.rest) < 3 + Length(s)

(* At the limit the reader is told that nothing like a frame was seen; it   *)
(* pauses, resets the count and calls again, with the start byte forgotten. *)
Discarded(s, n) == IF s.discarded + n > MaxDiscarded THEN 0 ELSE s.discarded + n

Left(s, n) == SubSeq(s.rest, n + 1, Len(s.rest))

(* Mutation: the byte that breaks a start is never the start of another.    *)
Restarts_Never(byte) == FALSE

(* A byte after the first start byte that is not the second one.            *)
Restarts(byte) == byte = Start1

(* One round of NextFrame's loop. A header with an impossible length is     *)
(* discarded whole.                                                         *)
Step(s) ==
  CASE ~s.haveStart1 /\ Head(s.rest) = Start1 ->
         [rest |-> Left(s, 1), haveStart1 |-> TRUE, discarded |-> s.discarded]
    [] ~s.haveStart1 /\ Head(s.rest) # Start1 ->
         [rest |-> Left(s, 1), haveStart1 |-> FALSE, discarded |-> Discarded(s, 1)]
    [] s.haveStart1 /\ Head(s.rest) # Start2 ->
         [rest |-> Left(s, 1), discarded |-> Discarded(s, 1),
          haveStart1 |-> Discarded(s, 1) > 0 /\ Restarts(Head(s.rest))]
    [] AtHeader(s) /\ ~AtFrame(s) ->
         [rest |-> Left(s, 3), haveStart1 |-> FALSE, discarded |-> Discarded(s, 4)]
    [] AtFrame(s) ->
         [rest |-> Left(s, 3 + Length(s)), haveStart1 |-> FALSE, discarded |-> 0]

(* What the round returns.                                                  *)
Found(s) == IF AtFrame(s) THEN <<SubSeq(s.rest, 4, 3 + Length(s))>> ELSE <<>>

(* The payloads the scanner returns for a stream, over all calls of         *)
(* NextFrame.                                                               *)
Scan[s \in Scanner] == IF Ended(s) THEN <<>> ELSE Found(s) \o Scan[Step(s)]

Payloads(stream) == Scan[[rest |-> stream, haveStart1 |-> FALSE, discarded |-> 0]]

-----------------------------------------------------------------------------
(* Bytes that hold no pair of start bytes.                                  *)
Harmless(noise) == \A i \in 1..(Len(noise) - 1) : ~(noise[i] = Start1 /\ noise[i + 1] = Start2)

(* Whatever a device writes before a frame, even a lone start byte right    *)
(* before it, the frame is found, and what follows it is read as if the     *)
(* frame had been the first: no noise without a pair of start bytes, and no *)
(* payload, puts the scanner out of step.                                   *)
FramesFound ==
  \A noise \in Noises, p \in Messages, rest \in Tails :
    (Harmless(noise) /\ Len(noise) <= MaxDiscarded) =>
      Payloads(noise \o Frame(p) \o rest) = <<p>> \o Payloads(rest)
=============================================================================

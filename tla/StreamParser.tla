----------------------------- MODULE StreamParser -----------------------------
(***************************************************************************)
(* The framing of the locomotion links (protocol.rs): frames packed by       *)
(* pack_message arrive in chunks, with noise between them, and               *)
(* StreamParser::feed finds them again, one turn of its loop after another.  *)
(*                                                                         *)
(* The header of a frame is the two start bytes, the version and one byte    *)
(* with the length of the payload; the type and the number of a message are  *)
(* of no account to the parser and left out.  A checksum is one number, of   *)
(* any function of the bytes it covers: it may take noise for a frame.       *)
(***************************************************************************)
EXTENDS Integers, Sequences

CONSTANTS
  Streams,      \* what may arrive, from the parser's start to the end
  Sof,          \* the two start bytes
  Version,
  MaxPayload,   \* max_payload_size
  Crc(_)        \* crc16

ASSUME StreamAssumption ==
  /\ Streams \subseteq Seq(Nat)
  /\ Sof \in Seq(Nat) /\ Len(Sof) = 2
  /\ Version \in Nat
  /\ MaxPayload \in Nat

\* StreamParser::buffer is the part of the stream from first to fed.
VARIABLES
  stream,    \* all bytes that ever arrive
  first,     \* place of the buffer's first byte
  fed,       \* bytes read so far
  feeding,   \* feed is in its loop
  messages   \* what all feeds have returned, each with the place of its frame

parserVars == <<stream, first, fed, feeding, messages>>

HeaderSize == 4
CrcSize == 1
FrameLen(length) == HeaderSize + length + CrcSize
LongestFrame == FrameLen(MaxPayload)

\* pack_message
Packed(payload) ==
  LET body == Sof \o <<Version, Len(payload)>> \o payload IN Append(body, Crc(body))

ParserInit ==
  /\ stream \in Streams
  /\ first = 1 /\ fed = 0
  /\ feeding = FALSE
  /\ messages = <<>>

\* The call: one read of the port or the socket, whatever it returned.
Feed ==
  /\ ~feeding
  /\ \E more \in fed .. Len(stream) : fed' = more
  /\ feeding' = TRUE
  /\ UNCHANGED <<stream, first, messages>>

(***************************************************************************)
(* The turns of the loop.  find_sof returns the first of SofPlaces, and what *)
(* is before it is dropped.                                                 *)
(***************************************************************************)
SofPlaces == {i \in first .. fed - 1 : <<stream[i], stream[i + 1]>> = Sof}
InBuffer(i) == fed - i + 1
LengthAt(i) == stream[i + HeaderSize - 1]
HeaderFits(i) == stream[i + 2] = Version /\ LengthAt(i) <= MaxPayload
PayloadAt(i) == SubSeq(stream, i + HeaderSize, i + HeaderSize + LengthAt(i) - 1)
CrcFits(i) ==
  LET covered == HeaderSize + LengthAt(i)
  IN stream[i + covered] = Crc(SubSeq(stream, i, i + covered - 1))

EndsLoop == feeding' = FALSE /\ UNCHANGED <<stream, fed, messages>>

\* drop_noise keeps one byte, which may be half of a start.
NoStart ==
  /\ SofPlaces = {}
  /\ first' = IF InBuffer(first) > Len(Sof) - 1 THEN fed ELSE first
  /\ EndsLoop

Incomplete(i) ==
  /\ \/ InBuffer(i) < HeaderSize
     \/ /\ InBuffer(i) >= HeaderSize
        /\ HeaderFits(i) /\ InBuffer(i) < FrameLen(LengthAt(i))
  /\ first' = i
  /\ EndsLoop

RefuseHeader(i) ==
  /\ InBuffer(i) >= HeaderSize
  /\ ~HeaderFits(i)
  /\ first' = i + 1
  /\ UNCHANGED <<stream, fed, feeding, messages>>

\* Mutant: a frame with a wrong CRC is dropped whole.
DropsFrame(i) == i + FrameLen(LengthAt(i))

\* What the scan goes on with after a CRC that does not fit: one byte less.
AfterBadCrc(i) == i + 1

Whole(i) ==
  /\ InBuffer(i) >= HeaderSize
  /\ HeaderFits(i) /\ InBuffer(i) >= FrameLen(LengthAt(i))

Mismatch(i) ==
  /\ Whole(i) /\ ~CrcFits(i)
  /\ first' = AfterBadCrc(i)
  /\ UNCHANGED <<stream, fed, feeding, messages>>

TakeFrame(i) ==
  /\ Whole(i) /\ CrcFits(i)
  /\ messages' = Append(messages, [at |-> i, payload |-> PayloadAt(i)])
  /\ first' = i + FrameLen(LengthAt(i))
  /\ UNCHANGED <<stream, fed, feeding>>

Turn ==
  /\ feeding
  /\ \/ NoStart
     \/ \E i \in SofPlaces :
          /\ \A k \in SofPlaces : i <= k
          /\ Incomplete(i) \/ RefuseHeader(i) \/ Mismatch(i) \/ TakeFrame(i)

ParserNext == Feed \/ Turn
ParserSpec == ParserInit /\ [][ParserNext]_parserVars

(***************************************************************************)
(* Properties.                                                              *)
(***************************************************************************)
Payload(i, n) == SubSeq(stream, i + HeaderSize, i + HeaderSize + n - 1)

\* What pack_message makes of some payload of n bytes stands at place i.
FrameStands(i, n) ==
  /\ i + FrameLen(n) - 1 <= Len(stream)
  /\ SubSeq(stream, i, i + FrameLen(n) - 1) = Packed(Payload(i, n))

EndOf(message) == message.at + FrameLen(Len(message.payload))

\* A message was returned whose frame is at place i or lies over it.
Returned(i) == \E k \in DOMAIN messages : messages[k].at <= i /\ i < EndOf(messages[k])

\* The buffer begins with what may be a longer frame and is not all read.
Behind(i) == first < i /\ first \in SofPlaces /\ InBuffer(first) < LongestFrame

\* feed returns only frames that stand in what was read, in their order and no two
\* of the same bytes.  Whatever noise or lost frame is before it, a frame that was
\* read comes out: with its last byte, or when the start it stands behind has its
\* frame or is refused, at the latest with as many bytes as the longest frame has.
\* Only another frame whose check sum fits may take its bytes.
FramesComeOut ==
  /\ \A k \in DOMAIN messages :
       /\ FrameStands(messages[k].at, Len(messages[k].payload))
       /\ messages[k].payload = Payload(messages[k].at, Len(messages[k].payload))
       /\ EndOf(messages[k]) <= fed + 1
       /\ \A j \in 1 .. k - 1 : EndOf(messages[j]) <= messages[k].at
  /\ ~feeding =>
       \A i \in 1 .. fed, n \in 0 .. MaxPayload :
         FrameStands(i, n) /\ i + FrameLen(n) - 1 <= fed => Returned(i) \/ Behind(i)
=============================================================================

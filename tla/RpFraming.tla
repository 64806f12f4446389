------------------------------ MODULE RpFraming ------------------------------
(***************************************************************************)
(* The binary frames of the ElkRP programming protocol: how a body is       *)
(* stuffed and closed with a CRC, and the receiver that takes the bytes one *)
(* by one.  A body is a sequence of bytes.                                  *)
(***************************************************************************)
EXTENDS Integers, Sequences, SequencesExt, Bitwise

DLE == 16
STX == 2
ETX == 3
ACK == 6
NAK == 21
DEBUG_STREAM == 255

\* One shift of the CRC register through the polynomial 0x1021, and what eight of
\* them make of a register that holds one byte on top.
Shifted(crc) ==
  LET doubled == (crc * 2) % 65536
  IN IF crc >= 32768 THEN doubled ^^ 4129 ELSE doubled
EightShifts ==
  [b \in 0..255 |-> Shifted(Shifted(Shifted(Shifted(Shifted(Shifted(Shifted(Shifted(b * 256))))))))]

\* CRC-16/XMODEM, by halves of the data; the shifts of the two halves of the
\* register are independent.
RECURSIVE CrcOver(_, _)
CrcOver(crc, data) ==
  LET half  == Len(data) \div 2
      first == CrcOver(crc, SubSeq(data, 1, half))
  IN CASE Len(data) = 0 -> crc
       [] Len(data) = 1 -> EightShifts[(crc \div 256) ^^ data[1]] ^^ ((crc % 256) * 256)
       [] Len(data) > 1 /\ first \in 0..65535 -> CrcOver(first, SubSeq(data, half + 1, Len(data)))

crc16(data) == CrcOver(0, data)

CrcBytes(body) == LET crc == crc16(body) IN <<crc \div 256, crc % 256>>

\* FlattenSeq by halves, for the depth of the recursion.
RECURSIVE Joined(_)
Joined(seqs) ==
  LET half == Len(seqs) \div 2
  IN IF Len(seqs) <= 2 THEN FlattenSeq(seqs)
     ELSE Joined(SubSeq(seqs, 1, half)) \o Joined(SubSeq(seqs, half + 1, Len(seqs)))

Stuffed(body) == Joined([i \in DOMAIN body |-> IF body[i] = DLE THEN <<DLE, DLE>> ELSE <<body[i]>>])

encode_frame(body) == <<DLE, STX>> \o Stuffed(body) \o <<DLE, ETX>> \o CrcBytes(body)

(***************************************************************************)
(* The receiver: its state, the body so far, the first byte of the CRC, and *)
(* the event that its latest byte produced.                                 *)
(***************************************************************************)
NoEvent == [kind |-> "none", body |-> <<>>]
Decoder == [state |-> "idle", body |-> <<>>, crcHi |-> 0, event |-> NoEvent]

Event(kind, body) == [kind |-> kind, body |-> body]

\* A frame whose CRC has come in: a debug stream is not checked.
Judged(body, crc) ==
  Event(IF body # <<>> /\ body[1] = DEBUG_STREAM THEN "debug"
        ELSE IF crc = CrcBytes(body) THEN "message" ELSE "crc_error", body)

ClosedByMessage(d, event) ==
  [d EXCEPT !.event = event, !.state = IF event.kind = "message" THEN "idle" ELSE @]
Closed(d, event) == [d EXCEPT !.event = event, !.state = "idle"]

Step(d, byte) ==
  LET to(state)   == [d EXCEPT !.state = state, !.event = NoEvent]
      begin       == [to("body") EXCEPT !.body = <<>>]
      take        == [to("body") EXCEPT !.body = Append(@, byte)]
  IN CASE d.state = "idle" -> IF byte = DLE THEN to("dle1") ELSE to("idle")
       [] d.state = "dle1" ->
            CASE byte = STX -> begin
              [] byte = ACK -> Closed(d, Event("ack", <<>>))
              [] byte = NAK -> Closed(d, Event("nak", <<>>))
              [] byte = DLE -> to("dle1")
              [] OTHER      -> to("idle")
       [] d.state = "body" -> IF byte = DLE THEN to("dle2") ELSE take
       [] d.state = "dle2" ->
            CASE byte = DLE -> take
              [] byte = ETX -> to("crc1")
              [] byte = STX -> begin
              [] OTHER      -> to("idle")
       [] d.state = "crc1" -> [to("crc2") EXCEPT !.crcHi = byte]
       [] d.state = "crc2" -> Closed(d, Judged(d.body, <<d.crcHi, byte>>))
=============================================================================

------------------------------- MODULE ElkFrame -------------------------------
(***************************************************************************)
(* The ASCII frames of the ELK-M1 line, NNMSD...00CC and a terminator: how *)
(* this program builds the ones it writes, and how the read stream cuts the *)
(* ones it receives out of reads of any size, over a line that may corrupt *)
(* characters.  A string is a sequence of character codes.                 *)
(***************************************************************************)
EXTENDS Integers, Sequences, SequencesExt

CONSTANTS
  Reports,     \* what the panel may report: command and data
  Requests,    \* what this program may ask: command and data
  Commands,    \* command letters that have a decoder
  NoiseChars,  \* what a corrupted character may turn into
  ReadSize,    \* longest read: 500 characters
  MaxFrame,    \* MAX_FRAME_CHARS
  MaxSaid,     \* bound on the panel's reports
  MaxNoise     \* bound on corrupted characters

CR == 13
LF == 10

\* The length field has two digits; the longest message, a display text, has 42
\* characters.
Fits(message) == message \in Seq(Nat) /\ Len(message) <= 251

ASSUME FrameAssumption ==
  /\ \A message \in Reports \cup Requests : Fits(message)
  /\ NoiseChars \subseteq Nat
  /\ ReadSize \in Nat /\ MaxFrame \in Nat

\* What the panel reports has a decoder and no terminator in it, and its frame,
\* six characters longer, is no longer than a frame may be.
IsReport(message) ==
  /\ Len(message) >= 2 /\ SubSeq(message, 1, 2) \in Commands
  /\ Len(message) + 6 <= MaxFrame
  /\ \A i \in DOMAIN message : message[i] \notin {CR, LF}

ASSUME ReportAssumption == \A report \in Reports : IsReport(report)

VARIABLES
  line,     \* characters on their way from the panel
  buffer,   \* read_buffer
  written,  \* the bytes of this program's latest write
  \* Bookkeeping that the program does not keep.
  said,     \* messages the panel has sent
  heard,    \* messages the read stream has dispatched
  noise     \* characters corrupted so far

frameVars == <<line, buffer, written, said, heard, noise>>

-----------------------------------------------------------------------------
(***************************************************************************)
(* Building a frame.                                                       *)
(***************************************************************************)
Sum(chars) ==
  LET upTo[i \in 0..Len(chars)] == IF i = 0 THEN 0 ELSE upTo[i - 1] + chars[i]
  IN upTo[Len(chars)]

HexDigit(d) == IF d < 10 THEN 48 + d ELSE 55 + d
Hex2(n)     == <<HexDigit(n \div 16), HexDigit(n % 16)>>

\* Mutant: one's complement.
ChecksumOnes(body) == Hex2(255 - (Sum(body) % 256))

\* Two's complement of the sum modulo 256, as two hexadecimal digits.
checksum(body) == Hex2(((255 - (Sum(body) % 256)) + 1) % 256)

\* The length counts all that follows it, the checksum included.
finalize(cmdAndData) ==
  LET rest == cmdAndData \o <<48, 48>>
      body == Hex2(Len(rest) + 2) \o rest
  IN body \o checksum(body)

\* UTF-8, which str.encode() means, of a character below 2^11.
Utf8(c) == IF c < 128 THEN <<c>> ELSE <<192 + c \div 64, 128 + (c % 64)>>

\* What goes out for a queued message: the connection appends a checksum to a
\* message that already ends in one.
write_msg(message) ==
  FlattenSeq([i \in DOMAIN message |-> Utf8(message[i])]) \o checksum(message) \o <<CR, LF>>

(***************************************************************************)
(* Accepting a frame.                                                      *)
(***************************************************************************)
\* Python's int(chars, 16) of one or two characters: hexadecimal digits of
\* either case, one of which may be a blank or, in front, a sign.
HexValue(c) ==
  CASE c \in 48..57  -> c - 48
    [] c \in 65..70  -> c - 55
    [] c \in 97..102 -> c - 87
IsHex(c)   == c \in 48..57 \cup 65..70 \cup 97..102
IsBlank(c) == c \in 9..13 \cup 28..32 \cup {133, 160}

IsInt(chars) ==
  \/ Len(chars) = 1 /\ IsHex(chars[1])
  \/ Len(chars) = 2 /\ IsHex(chars[2]) /\ (IsHex(chars[1]) \/ IsBlank(chars[1]) \/ chars[1] \in {43, 45})
  \/ Len(chars) = 2 /\ IsHex(chars[1]) /\ IsBlank(chars[2])

IntOf(chars) ==
  CASE Len(chars) = 2 /\ IsHex(chars[1]) /\ IsHex(chars[2])      -> 16 * HexValue(chars[1]) + HexValue(chars[2])
    [] IsHex(chars[1]) /\ (Len(chars) = 1 \/ ~IsHex(chars[2]))  -> HexValue(chars[1])
    [] chars[1] = 45                                           -> -HexValue(chars[2])
    [] OTHER                                                   -> HexValue(chars[2])

FirstTwo(frame) == SubSeq(frame, 1, IF Len(frame) < 2 THEN Len(frame) ELSE 2)
LastTwo(frame)  == SubSeq(frame, IF Len(frame) < 2 THEN 1 ELSE Len(frame) - 1, Len(frame))

\* Mutant: the checksum is not compared.
LengthOnly(frame) == IsInt(FirstTwo(frame)) /\ IntOf(FirstTwo(frame)) = Len(frame) - 2

\* _is_valid_length_and_checksum
IsValid(frame) ==
  /\ IsInt(FirstTwo(frame)) /\ IntOf(FirstTwo(frame)) = Len(frame) - 2
  /\ IsInt(LastTwo(frame))
  /\ (Sum(SubSeq(frame, 1, Len(frame) - 2)) + IntOf(LastTwo(frame))) % 256 = 0

\* The message a frame carries, without its length and checksum.
Message(frame) == SubSeq(frame, 3, Len(frame) - 2)

\* decode and the read stream's checks around it; a frame without a decoder is
\* dispatched as "unknown", which nobody handles.
IsDispatched(frame) ==
  /\ Len(frame) <= MaxFrame
  /\ IsValid(frame)
  /\ Len(frame) >= 4 /\ SubSeq(frame, 3, 4) \in Commands

\* (The quantifier makes TLC evaluate each frame once.)
Dispatch(frames) ==
  LET upTo[i \in 0..Len(frames)] ==
        IF i = 0 THEN <<>>
        ELSE IF \E frame \in {frames[i]} : IsDispatched(frame)
               THEN Append(upTo[i - 1], Message(frames[i])) ELSE upTo[i - 1]
  IN upTo[Len(frames)]

\* Mutant: a frame ends at CR LF only, and that is cut off.
ExtractCrLf(text) ==
  LET cut[i \in 0..Len(text)] ==
        IF i = 0 THEN [frames |-> <<>>, rest |-> <<>>]
        ELSE LET before == cut[i - 1]
                 size   == Len(before.rest)
             IN IF text[i] = LF /\ size > 0 /\ before.rest[size] = CR
                  THEN [frames |-> Append(before.frames, SubSeq(before.rest, 1, size - 1)), rest |-> <<>>]
                  ELSE [before EXCEPT !.rest = Append(@, text[i])]
  IN cut[Len(text)]

\* One more character: CR, LF or both end a frame, and an empty one is none.
Cut(before, c) ==
  IF c \notin {CR, LF}
    THEN [before EXCEPT !.rest = Append(@, c)]
    ELSE [frames |-> IF before.rest = <<>> THEN before.frames ELSE Append(before.frames, before.rest),
          rest   |-> <<>>]

extract_frames(text) ==
  LET cut[i \in 0..Len(text)] ==
        IF i = 0 THEN [frames |-> <<>>, rest |-> <<>>]
        ELSE LET before == cut[i - 1] IN Cut(before, text[i])
  IN cut[Len(text)]

-----------------------------------------------------------------------------
FrameInit == line = <<>> /\ buffer = <<>> /\ written = <<>> /\ said = <<>> /\ heard = <<>> /\ noise = 0

\* The panel reports something.
Say(report) ==
  /\ Len(said) < MaxSaid
  /\ said' = Append(said, report \o <<48, 48>>)
  /\ line' = line \o finalize(report) \o <<CR, LF>>
  /\ UNCHANGED <<buffer, written, heard, noise>>

\* A character is corrupted on its way.
Corrupt(i, c) ==
  /\ noise < MaxNoise
  /\ line[i] # c
  /\ noise' = noise + 1
  /\ line' = [line EXCEPT ![i] = c]
  /\ UNCHANGED <<buffer, written, said, heard>>

\* Mutant: an unfinished frame is dropped.
ReadForgetsRest(n) ==
  LET cut == extract_frames(SubSeq(line, 1, n)) IN
    /\ heard' = heard \o Dispatch(cut.frames)
    /\ buffer' = <<>>
    /\ line' = SubSeq(line, n + 1, Len(line))
    /\ UNCHANGED <<written, said, noise>>

\* _entry_read_stream: one read of n characters.
Read(n) ==
  LET cut == extract_frames(buffer \o SubSeq(line, 1, n)) IN
    /\ heard' = heard \o Dispatch(cut.frames)
    /\ buffer' = IF Len(cut.rest) > MaxFrame THEN <<>> ELSE cut.rest
    /\ line' = SubSeq(line, n + 1, Len(line))
    /\ UNCHANGED <<written, said, noise>>

\* A request leaves the queue.
Write(request) ==
  /\ written' = write_msg(finalize(request))
  /\ UNCHANGED <<line, buffer, said, heard, noise>>

FrameNext ==
  \/ \E report \in Reports : Say(report)
  \/ \E i \in DOMAIN line, c \in NoiseChars : Corrupt(i, c)
  \/ \E n \in 1..(IF Len(line) < ReadSize THEN Len(line) ELSE ReadSize) : Read(n)
  \/ \E request \in Requests : Write(request)

FrameSpec == FrameInit /\ [][FrameNext]_frameVars

-----------------------------------------------------------------------------
(***************************************************************************)
(* Properties.                                                             *)
(***************************************************************************)
\* All that has been heard, and all that will be once the line is read.
Understood == heard \o Dispatch(extract_frames(buffer \o line).frames)

\* s is t without some of its elements.
IsThinned(s, t) ==
  \E place \in [DOMAIN s -> DOMAIN t] :
    \A i \in DOMAIN s : s[i] = t[place[i]] /\ \A j \in 1..i - 1 : place[j] < place[i]

\* One corrupted character, wherever it falls, even one that cuts a frame in two
\* or joins two of them, never makes the read stream hear anything but what was
\* said, in its order: length and checksum catch it.  (Not of every set of
\* reports: where the end of a report is a frame itself, a terminator in front of
\* it is enough.)
OneErrorIsDetected == noise <= 1 => IsThinned(Understood, said)

\* A corrupted character costs at most one message, however the reads cut the
\* line: the next terminator of either kind brings the stream back in step.
ErrorCostsOneMessage == Len(Understood) >= Len(said) - noise

\* Where the reads cut the line makes no difference to what is heard, unless what
\* is read or left over is longer than a frame may be.
Oversize ==
  LET cut == extract_frames(buffer \o line)
  IN \E frame \in {cut.frames[i] : i \in DOMAIN cut.frames} \cup {cut.rest} : Len(frame) > MaxFrame

ChunksAreInvisible ==
  [][said' = said /\ noise' = noise /\ ~Oversize => Understood' = Understood]_frameVars

\* What a receiver finds that takes as many characters as the length says: for
\* every request of ASCII characters a valid message, the one that was asked.
RequestIsFramed ==
  written # <<>> /\ (\A i \in DOMAIN written : written[i] < 128) =>
    LET frame == SubSeq(written, 1, 2 + IntOf(FirstTwo(written)))
    IN IsValid(frame) /\ \E request \in Requests : Message(frame) = request \o <<48, 48>>

=============================================================================

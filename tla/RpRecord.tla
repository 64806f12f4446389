------------------------------- MODULE RpRecord -------------------------------
(***************************************************************************)
(* One programming record of the panel in the app: the layouts of the      *)
(* tables, the conversion between a record's bytes and what the editor      *)
(* shows, and the way of a record from the panel over a line that may spoil *)
(* bytes, through the editor and an account file, back to the panel.        *)
(***************************************************************************)
EXTENDS RpFraming, FiniteSets, TLC

CONSTANTS
  Tables,       \* tables that are explored
  NoisyTables,  \* bound: those whose line is explored with errors
  NoiseBytes,   \* what a spoilt byte may turn into
  MaxAttempts,  \* bound on attempts at one read: four
  MaxReads, MaxEdits, MaxNoise

-----------------------------------------------------------------------------
(***************************************************************************)
(* The layouts: a field is a name, a kind, a length and its bit groups,      *)
(* each a lowest bit and a width.                                          *)
(***************************************************************************)
Field(name, kind, length) == [name |-> name, kind |-> kind, length |-> length, bits |-> {}]
Byte(name)        == Field(name, "u8", 1)
Flags(name, bits) == [Byte(name) EXCEPT !.bits = bits]
Bytes(names)      == [i \in DOMAIN names |-> Byte(names[i])]
Single(lsbs)      == {<<lsb, 1>> : lsb \in lsbs}
NameAndVoice(name, voice) == <<Field(name, "text", 16), Field(voice, "voice", 6)>>

AREA == <<Field("PName", "text", 16)>>
  \o Bytes(<<"PExit1", "PEntrance1", "PExit2", "PEntrance2">>)
  \o <<Flags("PFlags1", Single({0, 4, 6}) \cup {<<1, 2>>}), Flags("PFlags2", Single(3..7))>>
  \o Bytes(<<"PArmTimeWindow", "PNotUsed">>)

ZONE == <<Byte("ZnFunction"), Flags("ZnFlag1", Single(0..7)),
          Flags("ZnFlag2", Single({3, 7}) \cup {<<0, 3>>, <<4, 3>>}), Byte("ZnNotUsed1")>>
  \o NameAndVoice("ZnZoneName", "ZnVoice")

KEYPAD == <<Byte("KeypadAreas"), Flags("KPFlags1", Single(2..5)), Flags("KPFlags2", Single(0..5)),
            Flags("KPFlags3", Single(1..7)), Flags("KPFlags4", {<<0, 4>>, <<4, 4>>}),
            Flags("KPFlags5", Single(1..4) \cup {<<5, 3>>}), Field("KeypadName", "text", 16),
            Byte("KeyLEDState"), Flags("KPFlags6", Single(0..5)), Flags("KPFlags7", Single(0..5)),
            Field("NotUsed", "bytes", 3)>>

USER == <<Field("UCode", "code", 6), Flags("UCFlags1", Single({1, 2, 4, 5, 6, 7})),
          Flags("UCFlags2", Single({0})), Byte("UCPartition"), Field("UCName", "text", 16),
          Flags("UCFlags3", Single({7})), Field("UCNotUsed", "bytes", 2)>>

OUTPUT == NameAndVoice("OPName", "OPVoice")
TASK   == NameAndVoice("TaskName", "Voice")

TELEPHONE == <<Field("TeleNumber", "digits", 20), Flags("TeleFlag1", Single(3..7)),
               Flags("TeleFlag2", Single({3}) \cup {<<4, 4>>}), Byte("TeleAttempts")>>
  \o [a \in 1..8 |-> Field("TeleAr" \o ToString(a) \o "Acct", "digits", 6)]
  \o <<Field("TeleName", "text", 16), Byte("TeleNotUsed1")>>

GLOBAL == <<Flags("Global1Flags1", Single({0} \cup 2..7))>>
  \o Bytes(<<"CrossZnVerifyTime", "FastLoopResponse", "SlowLoopResponse">>)
  \o <<Flags("Global1Nib1", {<<0, 3>>, <<4, 4>>}), Byte("CommonArea"),
       Flags("Global1Flags2", {<<0, 3>>, <<3, 3>>, <<6, 1>>}),
       Flags("Global1Flags3", {<<1, 1>>, <<2, 3>>, <<5, 3>>}), Byte("Out2CutOnTim"),
       Flags("Global1Flags4", Single(0..7)), Byte("TWVCallbackTime"), Field("Reserved", "bytes", 4),
       Byte("CSVerifyTime"), Byte("CodeLockOut"), Field("SysProgramCode", "code", 6),
       Field("Reserved5", "bytes", 6), Flags("Global1Flags5", {<<0, 5>>, <<5, 1>>, <<6, 2>>}),
       Flags("SendString", Single(0..4 \cup {7}))>>
  \o Bytes(<<"StartDaylightSavings1", "StartDaylightSavings2", "StopDaylightSavings1",
             "StopDaylightSavings2">>)
  \o <<Flags("Global1Flags6", Single({4, 5}) \cup {<<0, 4>>})>>
  \o Bytes(<<"S16", "S17", "S18", "S19", "S1A", "S1B", "S62", "SF5", "SF6", "SF7", "SDF", "Country">>)

X10 == <<Flags("X10Flags1", {<<1, 1>>, <<2, 3>>, <<5, 3>>}), Field("Description", "text", 15),
         Field("X10Voice", "voice", 6)>>

SPECS == [area |-> AREA, zone |-> ZONE, keypad |-> KEYPAD, user |-> USER, output |-> OUTPUT,
          task |-> TASK, telephone |-> TELEPHONE, global |-> GLOBAL, lighting |-> X10]

\* The opcode that reads a table and the size of its record on the wire.
WIRE == [area |-> <<3, 24>>, zone |-> <<5, 32>>, keypad |-> <<4, 28>>, user |-> <<1, 28>>,
         output |-> <<2, 28>>, task |-> <<2, 28>>, telephone |-> <<8, 88>>, global |-> <<7, 48>>,
         lighting |-> <<14, 28>>]

Size(f) == IF f.kind = "voice" THEN 2 * f.length ELSE f.length

\* The bytes of a record before its i-th field.
Offset(spec, i) ==
  LET upTo[k \in 1..Len(spec) + 1] == IF k = 1 THEN 0 ELSE upTo[k - 1] + Size(spec[k - 1])
  IN upTo[i]
Chunk(raw, spec, i) == SubSeq(raw, Offset(spec, i) + 1, Offset(spec, i) + Size(spec[i]))

-----------------------------------------------------------------------------
(***************************************************************************)
(* Fields.  A text is a sequence of character codes, digits and voice words *)
(* are sequences of numbers.                                               *)
(***************************************************************************)
Words(raw) == [i \in 1..(Len(raw) \div 2) |-> 256 * raw[2 * i - 1] + raw[2 * i]]

TrimmedRight(text) ==
  LET kept == {i \in DOMAIN text : text[i] \notin {0, 32}}
  IN SubSeq(text, 1, IF kept = {} THEN 0 ELSE Max(kept))

decode_field(f, raw) ==
  CASE f.kind = "u8"     -> raw[1]
    [] f.kind = "text"   -> TrimmedRight([i \in DOMAIN raw |-> raw[i] % 128])
    [] f.kind = "code"   -> [i \in DOMAIN raw |-> Reverse(raw)[i] % 10]
    [] f.kind = "digits" -> [i \in DOMAIN raw |-> raw[i] % 10]
    [] f.kind = "voice"  -> Words(raw)
    [] f.kind = "bytes"  -> raw

\* The first n of a sequence, filled up with a padding.
Fitted(s, n, padding) == [i \in 1..n |-> IF i <= Len(s) THEN s[i] ELSE padding]
LastOf(s, n) == IF Len(s) <= n THEN s ELSE SubSeq(s, Len(s) - n + 1, Len(s))
Ascii(text)  == [i \in DOMAIN text |-> IF text[i] < 128 THEN text[i] ELSE 63]

encode_field(f, value) ==
  CASE f.kind = "u8"     -> <<value % 256>>
    [] f.kind = "text"   -> Fitted(Ascii(value), f.length, 32)
    [] f.kind = "code"   -> Fitted(Reverse(LastOf(value, f.length)), f.length, 0)
    [] f.kind = "digits" -> Fitted(value, f.length, 0)
    [] f.kind = "voice"  -> LET words == Fitted(value, f.length, 0)
                            IN Joined([i \in DOMAIN words |-> <<words[i] \div 256, words[i] % 256>>])
    [] f.kind = "bytes"  -> Fitted(value, f.length, 0)

\* A bit group of a flag byte replaced: what the editor's check boxes do.
set_bitKeepingOld(byte, bit, new) == (byte | (new * 2^bit[1])) % 256
set_bit(byte, bit, new) ==
  LET old == (byte \div 2^bit[1]) % 2^bit[2] IN byte + (new - old) * 2^bit[1]

(***************************************************************************)
(* Records: the value of every field and the texts with the "show on        *)
(* keypad" flag, bit 7 of a text's first byte.                              *)
(***************************************************************************)
Names(spec) == {spec[i].name : i \in DOMAIN spec}

decode_record(spec, raw) ==
  LET place(name) == CHOOSE i \in DOMAIN spec : spec[i].name = name
  IN [value |-> [name \in Names(spec) |-> decode_field(spec[place(name)], Chunk(raw, spec, place(name)))],
      show  |-> {spec[i].name : i \in {j \in DOMAIN spec :
                   spec[j].kind = "text" /\ Chunk(raw, spec, j)[1] >= 128}}]

encode_recordWithoutShow(spec, record) ==
  Joined([i \in DOMAIN spec |-> encode_field(spec[i], record.value[spec[i].name])])

encode_record(spec, record) ==
  LET flagged(f, raw) == IF f.name \in record.show THEN [raw EXCEPT ![1] = (@ % 128) + 128] ELSE raw
  IN Joined([i \in DOMAIN spec |->
       flagged(spec[i], encode_field(spec[i], record.value[spec[i].name]))])

\* The account file and back: the flags are written and not read.
from_json(record) == [record EXCEPT !.show = {}]

-----------------------------------------------------------------------------
VARIABLES
  table,     \* the table of the record
  panel,     \* the record's bytes in the panel
  line,      \* bytes on their way from the panel
  decoder,   \* Session._decoder
  attempt,   \* attempts made at the read under way, 0 when there is none
  account,   \* the record in the open account, or none: a sequence
  file,      \* the record in the account file, or none
  reads, edits, noise,
  \* Bookkeeping that the program does not keep.
  meant,     \* the record as the user last saw or set it
  opened     \* the account was opened from its file since it was received

vars == <<table, panel, line, decoder, attempt, account, file, reads, edits, noise, meant, opened>>
Layout == SPECS[table]

\* What a panel may hold: names of ASCII characters padded with blanks, some
\* with the flag, decimal digits, and bytes that need stuffing.
RawOf(f) ==
  CASE f.kind = "u8"     -> <<IF f.bits = {} THEN DLE ELSE 150>>
    [] f.kind = "text"   -> Fitted(<<65 + 128, 66>>, f.length, 32)
    [] f.kind = "code"   -> <<4, 3, 2, 1, 0, 0>>
    [] f.kind = "digits" -> Fitted(<<5, 0, 7>>, f.length, 0)
    [] f.kind = "voice"  -> Fitted(<<1, 44, 0, DLE>>, 2 * f.length, 0)
    [] f.kind = "bytes"  -> Fitted(<<DLE, 9>>, f.length, 255)
RawRecord(spec) == Joined([i \in DOMAIN spec |-> RawOf(spec[i])])

\* What the editor may set a field to.
Typed(f) ==
  CASE f.kind = "u8"     -> {0, 255}
    [] f.kind = "text"   -> {<<>>, [i \in 1..f.length |-> 88], <<77, 252, 32>>}
    [] f.kind = "code"   -> {<<>>, <<9, 1>>, <<6, 5, 4, 3, 2, 1>>}
    [] f.kind = "digits" -> {<<>>, <<9, 1>>}
    [] f.kind = "voice"  -> {[i \in 1..f.length |-> 256 * i + 1]}
    [] f.kind = "bytes"  -> {}
Hidden == {"PNotUsed", "ZnNotUsed1", "TeleNotUsed1"}

\* How the editor will show what was typed.
Shown(f, value) ==
  CASE f.kind = "text"   -> TrimmedRight(Ascii(value))
    [] f.kind = "code"   -> [i \in 1..6 |-> IF i <= 6 - Len(value) THEN 0 ELSE value[i - 6 + Len(value)]]
    [] f.kind = "digits" -> Fitted(value, f.length, 0)
    [] OTHER             -> value

Init ==
  /\ table \in Tables
  /\ panel = RawRecord(Layout)
  /\ line = <<>> /\ decoder = Decoder /\ attempt = 0
  /\ account = <<>> /\ file = <<>> /\ opened = FALSE
  /\ reads = 0 /\ edits = 0 /\ noise = 0
  /\ meant = decode_record(Layout, panel)

\* The panel's answer to a read: opcode, class, item number and the record.
Reply == encode_frame(<<WIRE[table][1], 0, 0, 1>> \o panel)

\* send_receive: the request goes out, first or again; the panel answers, unless
\* it has fallen silent.
Silent == noise > MaxNoise

Attempt ==
  /\ line = <<>>
  /\ \/ attempt = 0 /\ reads < MaxReads /\ reads' = reads + 1
     \/ attempt \in 1..MaxAttempts - 1 /\ UNCHANGED reads
  /\ attempt' = attempt + 1
  /\ line' = IF Silent THEN <<>> ELSE Reply
  /\ UNCHANGED <<table, panel, decoder, account, file, edits, noise, meant, opened>>

\* The last attempt fails.
GiveUp ==
  /\ line = <<>> /\ attempt = MaxAttempts
  /\ attempt' = 0
  /\ UNCHANGED <<table, panel, line, decoder, account, file, reads, edits, noise, meant, opened>>

\* The line spoils a byte, or swallows one.
Spoil(i, byte) ==
  /\ noise < MaxNoise /\ table \in NoisyTables /\ line[i] # byte
  /\ noise' = noise + 1
  /\ line' = [line EXCEPT ![i] = byte]
  /\ UNCHANGED <<table, panel, decoder, attempt, account, file, reads, edits, meant, opened>>

Swallow(i) ==
  /\ noise < MaxNoise /\ table \in NoisyTables
  /\ noise' = noise + 1
  /\ line' = RemoveAt(line, i)
  /\ UNCHANGED <<table, panel, decoder, attempt, account, file, reads, edits, meant, opened>>

\* The panel falls silent during a read, for good.
FallsSilent ==
  /\ attempt > 0 /\ ~Silent
  /\ noise' = MaxNoise + 1 /\ line' = <<>>
  /\ UNCHANGED <<table, panel, decoder, attempt, account, file, reads, edits, meant, opened>>

\* _await_reply: a message with the opcode asked for is the reply; anything else
\* leaves the read to its next attempt.
IsReply(event) ==
  /\ event.kind = "message" /\ event.body # <<>>
  /\ event.body[1] = WIRE[table][1]

\* read_record: a reply with fewer bytes after its header than asked for is refused,
\* and not asked for again.
IsWhole(body) == Len(body) >= 4 + WIRE[table][2]

Feed ==
  /\ line # <<>>
  /\ line' = Tail(line)
  /\ decoder' = Step(decoder, Head(line))
  /\ IF attempt > 0 /\ IsReply(decoder'.event)
       THEN attempt' = 0
       ELSE UNCHANGED attempt
  /\ IF attempt > 0 /\ IsReply(decoder'.event) /\ IsWhole(decoder'.event.body)
       THEN /\ opened' = FALSE
            /\ account' = <<decode_record(Layout, SubSeq(decoder'.event.body, 5, 4 + WIRE[table][2]))>>
            /\ meant' = decode_record(Layout, panel)
       ELSE UNCHANGED <<account, meant, opened>>
  /\ UNCHANGED <<table, panel, file, reads, edits, noise>>

\* put_record
Put(name, value, shown, show) ==
  /\ account # <<>> /\ attempt = 0 /\ edits < MaxEdits
  /\ edits' = edits + 1
  /\ account' = <<[value |-> [account[1].value EXCEPT ![name] = value], show |-> show]>>
  /\ meant' = [value |-> [meant.value EXCEPT ![name] = shown],
               show |-> IF show = account[1].show THEN meant.show ELSE show]
  /\ UNCHANGED <<table, panel, line, decoder, attempt, file, reads, noise, opened>>

Type(f, value) == f.name \notin Hidden /\ Put(f.name, value, Shown(f, value), account[1].show)

\* A check box or a choice of the editor; what it means is said bit by bit.
Tick(f, bit, new) ==
  LET kept == {i \in 0..7 \ (bit[1]..bit[1] + bit[2] - 1) : (meant.value[f.name] \div 2^i) % 2 = 1}
  IN Put(f.name, set_bit(account[1].value[f.name], bit, new),
         new * 2^bit[1] + FoldSet(LAMBDA i, sum : 2^i + sum, 0, kept), account[1].show)

Show(f, flag) ==
  /\ f.kind = "text"
  /\ Put(f.name, account[1].value[f.name], meant.value[f.name],
         IF flag THEN account[1].show \cup {f.name} ELSE account[1].show \ {f.name})

\* save_account and open_account
Save ==
  /\ account # <<>> /\ attempt = 0
  /\ file' = account
  /\ UNCHANGED <<table, panel, line, decoder, attempt, account, reads, edits, noise, meant, opened>>

Open ==
  /\ file # <<>> /\ file = account /\ attempt = 0
  /\ account' = <<from_json(file[1])>> /\ opened' = TRUE
  /\ UNCHANGED <<table, panel, line, decoder, attempt, file, reads, edits, noise, meant>>

\* panel_write: the frame that is previewed reaches the panel, which stores it.
Write ==
  /\ account # <<>> /\ attempt = 0 /\ line = <<>> /\ ~Silent
  /\ panel' = encode_record(Layout, account[1])
  /\ UNCHANGED <<table, line, decoder, attempt, account, file, reads, edits, noise, meant, opened>>

Next ==
  \/ Attempt \/ GiveUp \/ FallsSilent \/ Feed \/ Save \/ Open \/ Write
  \/ \E i \in DOMAIN line : Swallow(i) \/ \E byte \in NoiseBytes : Spoil(i, byte)
  \/ \E i \in DOMAIN Layout : LET f == Layout[i] IN
       \/ \E value \in Typed(f) : Type(f, value)
       \/ \E bit \in f.bits : \E new \in {0, 2^bit[2] - 1} : Tick(f, bit, new)
       \/ \E flag \in BOOLEAN : Show(f, flag)

Spec == Init /\ [][Next]_vars

-----------------------------------------------------------------------------
(***************************************************************************)
(* Properties.                                                             *)
(***************************************************************************)
\* A record says what the user saw or set, field by field.  The "show on keypad"
\* flags are as they were unless the account came from a file.
Agrees(record, full) ==
  /\ \A i \in DOMAIN Layout : LET f == Layout[i] IN Shown(f, record.value[f.name]) = meant.value[f.name]
  /\ full => record.show = meant.show

\* Whatever the line did to the reply, no spoilt one is taken for a record: a
\* write leaves in the panel what the user saw and set, and changes its record
\* where the user changed it and nowhere else, down to the bits without a name.
IsUntouched(f) ==
  LET before == decode_record(Layout, panel)
  IN meant.value[f.name] = before.value[f.name] /\ (f.name \in meant.show <=> f.name \in before.show)

WriteIsMeant ==
  [][panel' # panel =>
       /\ Agrees(decode_record(Layout, panel'), ~opened)
       /\ ~opened => \A i \in DOMAIN Layout :
            IsUntouched(Layout[i]) => Chunk(panel', Layout, i) = Chunk(panel, Layout, i)]_vars

\* One byte spoilt or swallowed costs at most two replies, the second when the
\* receiver takes its start for the end of the first: three attempts suffice.
OneErrorIsSurvived == ~Silent /\ noise <= 1 => ~(attempt >= 3 /\ line = <<>>)

=============================================================================

------------------------------ MODULE ElkMessage ------------------------------
(***************************************************************************)
(* What the messages of the ELK-M1 line mean: the encoders of this          *)
(* program's commands, the decoders of the panel's messages, and the panel  *)
(* between them, which reads a command by its columns and writes its        *)
(* messages in columns of its own.  The panel counts from 1, the program    *)
(* from 0.  Length, checksum and terminator are the subject of ElkFrame.    *)
(*                                                                         *)
(* A character is its code.  The columns of a message are those of the      *)
(* frame: its data begin at column 4.                                       *)
(***************************************************************************)
EXTENDS Integers, Sequences, SequencesExt, FiniteSets, TLC

CONSTANTS
  Asked,        \* the commands of an instance, with what each of them means
  Reported,     \* what the panel says by itself
  Answers(_),   \* what it may say to a command, as it took it
  UtcOffset     \* minutes that the host's zone, and the panel's clock in it, are ahead of UTC

\* helpers/elk/const.py: sizes and enumerations, by their characters.
Zones    == 208
Outputs  == 208
Settings == 20
Keypads  == 16
Areas    == 8
ArmedStatus    == 48..54
ArmUpState     == 48..54
AlarmState     == 48..66 \cup {85}
ZoneAlarmState == 48..73
FunctionKeys   == 48..54 \cup {42, 67}
ZoneType       == 0..36
TimeOfDay == 2
SettingFormat  == {0, 1, TimeOfDay}

Zero == 48
One  == 49

VARIABLES
  asked,    \* the command that was written, or None
  message,  \* the panel's message, or None
  heard,    \* what the read stream tells its observers, or None
  status,   \* _keypad_status of the coordinator
  \* Bookkeeping that the program does not keep.
  took,     \* what the panel took the command for
  said      \* what the panel's message says

vars == <<asked, message, heard, status, took, said>>
None == <<>>

-----------------------------------------------------------------------------
(***************************************************************************)
(* Encoders.  Python's f"{n:0w}" pads to w digits and never cuts.           *)
(***************************************************************************)
Digits(n, w) ==
  LET size == CHOOSE k \in w..w + 10 : n < 10 ^ k /\ (k = w \/ n >= 10 ^ (k - 1))
  IN [i \in 1..size |-> Zero + ((n \div 10 ^ (size - i)) % 10)]

Command(cmd, data, reply) == [cmd |-> cmd, data |-> data, reply |-> reply]

\* A house letter from A and a unit from 01.
index_to_housecode(index) == <<65 + index \div 16>> \o Digits((index % 16) + 1, 2)

\* Up to 16 characters, filled up with "^".
Padded(text) == [i \in 1..16 |-> IF i <= Len(text) THEN text[i] ELSE 94]

al_encode(level, area, code) ==
  Command("a", <<level>> \o Digits(area + 1, 1) \o Digits(code, 6), "AS")
as_encode == Command("as", <<>>, "AS")
az_encode == Command("az", <<>>, "AZ")
cf_encode(output) == Command("cf", Digits(output + 1, 3), "")
ct_encode(output) == Command("ct", Digits(output + 1, 3), "")
cn_encode(output, seconds) == Command("cn", Digits(output + 1, 3) \o Digits(seconds, 5), "")
cs_encode == Command("cs", <<>>, "CS")
cp_encode == Command("cp", <<>>, "CR")
cr_encode(index) == Command("cr", Digits(index + 1, 2), "CR")
\* A time of day is a pair of hour and minute.
cw_encode(index, value, format) ==
  Command("cw", Digits(index + 1, 2)
    \o Digits(IF format = TimeOfDay THEN value[1] * 256 + value[2] ELSE value, 5), "CR")
cv_encode(counter) == Command("cv", Digits(counter + 1, 2), "CV")
cx_encode(counter, value) == Command("cx", Digits(counter + 1, 2) \o Digits(value, 5), "CV")
dm_encode(area, clear, beep, timeout, line1, line2) ==
  Command("dm", Digits(area + 1, 1) \o Digits(clear, 1) \o Digits(beep, 1) \o Digits(timeout, 5)
    \o Padded(line1) \o Padded(line2), "")
ka_encode == Command("ka", <<>>, "KA")
kc_encode(keypad) == Command("kc", Digits(keypad + 1, 2), "KC")
kf_encode(keypad, key) == Command("kf", Digits(keypad + 1, 2) \o <<key>>, "KF")
ld_encode(index) == Command("ld", Digits(index, 3), "LD")
lw_encode == Command("lw", <<>>, "LW")
pc_encode(index, function, extended, seconds) ==
  Command("pc", index_to_housecode(index) \o Digits(function, 2) \o Digits(extended, 2)
    \o Digits(seconds, 4), "")
pf_encode(index) == Command("pf", index_to_housecode(index), "")
pn_encode(index) == Command("pn", index_to_housecode(index), "")
ps_encode(bank) == Command("ps", Digits(bank, 1), "PS")
pt_encode(index) == Command("pt", index_to_housecode(index), "")
\* Mutant of sd_encode: the index of the program, which begins at 0.
sd_encodeFromZero(type, unit) == Command("sd", Digits(type, 2) \o Digits(unit, 3), "SD")
sd_encode(type, unit) == Command("sd", Digits(type, 2) \o Digits(unit + 1, 3), "SD")
sp_encode(phrase) == Command("sp", Digits(phrase, 3), "")
ss_encode == Command("ss", <<>>, "SS")
sw_encode(word) == Command("sw", Digits(word, 3), "")
rr_encode == Command("rr", <<>>, "RR")
\* second, minute, hour, weekday from Sunday = 1, day, month, year.
rw_encode(t) ==
  Command("rw", FlattenSeq([i \in 1..7 |-> Digits(t[i], IF i = 4 THEN 1 ELSE 2)]), "RR")
st_encode(group, device) == Command("st", Digits(group, 1) \o Digits(device + 1, 2), "ST")
tn_encode(task) == Command("tn", Digits(task + 1, 3), "")
tr_encode(thermostat) == Command("tr", Digits(thermostat + 1, 2), "TR")
ts_encode(thermostat, value, element) ==
  Command("ts", Digits(thermostat + 1, 2) \o Digits(value, 2) \o Digits(element, 1), "TR")
ua_encode(code) == Command("ua", Digits(code, 6), "UA")
vn_encode == Command("vn", <<>>, "VN")
\* -1 clears the bypass of all zones, a number past the last one bypasses all.
zb_encode(zone, area, code) ==
  Command("zb", Digits(IF zone < 0 THEN 0 ELSE IF zone > Zones THEN 999 ELSE zone + 1, 3)
    \o Digits(area + 1, 1) \o Digits(code, 6), "ZB")
zd_encode == Command("zd", <<>>, "ZD")
zp_encode == Command("zp", <<>>, "ZP")
zs_encode == Command("zs", <<>>, "ZS")
zt_encode(zone) == Command("zt", Digits(zone + 1, 3), "")
zv_encode(zone) == Command("zv", Digits(zone + 1, 3), "ZV")

-----------------------------------------------------------------------------
(***************************************************************************)
(* Decoders, by columns as in the source: from a column up to another.      *)
(***************************************************************************)
At(msg, col) == msg.data[col - 3]
Slice(msg, from, to) == SubSeq(msg.data, from - 3, to - 4)
HexDigit(c) == IF c < 58 THEN c - Zero ELSE c - 55
Number(digits, base) == FoldLeft(LAMBDA n, c : base * n + HexDigit(c), 0, digits)
Dec(msg, from, to) == Number(Slice(msg, from, to), 10)
Hex(msg, from, to) == Number(Slice(msg, from, to), 16)
IsOne(msg, col) == At(msg, col) = One
\* The list of an operator over n places, from 0.
List(n, Of(_)) == [i \in 0..n - 1 |-> Of(i)]
Chars(msg, from, n) == List(n, LAMBDA i : At(msg, from + i))
Trimmed(text) ==
  SubSeq(text, 1, CHOOSE n \in 0..Len(text) :
    (n = 0 \/ text[n] # 32) /\ \A i \in n + 1..Len(text) : text[i] = 32)

\* The length that the frame states, of what follows it.
Length(msg) == Len(msg.data) + 4

am_decode(msg) == [alarm_memory |-> List(Areas, LAMBDA i : IsOne(msg, 4 + i))]
as_decode(msg) ==
  [armed_statuses |-> Chars(msg, 4, Areas), arm_up_states |-> Chars(msg, 12, Areas),
   alarm_states |-> Chars(msg, 20, Areas), timer_seconds |-> Hex(msg, 28, 30)]
az_decode(msg) == [alarm_status |-> Chars(msg, 4, Zones)]
cr_one_custom_value_decode(index, part) ==
  LET value == Number(SubSeq(part, 1, 5), 10) format == Number(SubSeq(part, 6, 6), 10)
  IN [index |-> index, value_format |-> format,
      value |-> IF format = TimeOfDay THEN <<(value \div 256) % 256, value % 256>> ELSE <<value>>]
cr_decode(msg) ==
  [values |-> IF Dec(msg, 4, 6) > 0
     THEN List(1, LAMBDA i : cr_one_custom_value_decode(Dec(msg, 4, 6) - 1, Slice(msg, 6, 12)))
     ELSE List(Settings, LAMBDA i :
            cr_one_custom_value_decode(i, Slice(msg, 6 + 6 * i, 12 + 6 * i)))]
cc_decode(msg) == [output |-> Dec(msg, 4, 7) - 1, output_status |-> IsOne(msg, 7)]
cs_decode(msg) == [output_status |-> List(Outputs, LAMBDA i : IsOne(msg, 4 + i))]
cv_decode(msg) == [counter |-> Dec(msg, 4, 6) - 1, value |-> Dec(msg, 6, 11)]
ee_decode(msg) ==
  [area |-> Dec(msg, 4, 5) - 1, is_exit |-> At(msg, 5) = Zero, timer1 |-> Dec(msg, 6, 9),
   timer2 |-> Dec(msg, 9, 12), armed_status |-> At(msg, 12)]
\* Six digits, each behind a "0", are a code typed at a keypad.
ic_decode(msg) ==
  LET code == Slice(msg, 4, 16)
      typed == \A i \in 1..6 : code[2 * i - 1] = Zero /\ code[2 * i] \in Zero..57
  IN [code |-> IF typed THEN [i \in 1..6 |-> code[2 * i]] ELSE code,
      user |-> Dec(msg, 16, 19) - 1, keypad |-> Dec(msg, 19, 21) - 1]
ie_decode(msg) == <<>>
ka_decode(msg) == [keypad_areas |-> List(Keypads, LAMBDA i : At(msg, 4 + i) - One)]
kc_decode(msg) == [keypad |-> Dec(msg, 4, 6) - 1, key |-> Dec(msg, 6, 8)]
kf_decode(msg) ==
  [keypad |-> Dec(msg, 4, 6) - 1, key |-> At(msg, 6),
   chime_mode |-> List(Areas, LAMBDA i : At(msg, 7 + i) - Zero)]

\* time.mktime and time.gmtime for years 2000 to 2100, between a date of year, month,
\* day, hour and minute and the minutes since 2000 began.
Leap(year) == IF year % 4 = 0 /\ year # 2100 THEN 1 ELSE 0
DaysBefore(year, month) ==
  <<0, 31, 59, 90, 120, 151, 181, 212, 243, 273, 304, 334, 365>>[month]
    + (IF month > 2 THEN Leap(year) ELSE 0)
Midnight(year, month, day) ==
  1440 * (365 * (year - 2000) + (year - 1997) \div 4 + DaysBefore(year, month) + day - 1)
Minutes(date) == Midnight(date[1], date[2], date[3]) + 60 * date[4] + date[5]
Date(minutes) ==
  LET year  == CHOOSE y \in 1999..2100 : minutes \in Midnight(y, 1, 1)..Midnight(y, 13, 1) - 1
      month == CHOOSE m \in 1..12 : minutes \in Midnight(year, m, 1)..Midnight(year, m + 1, 1) - 1
      since == minutes - Midnight(year, month, 1)
  IN <<year, month, since \div 1440 + 1, (since % 1440) \div 60, since % 60>>

\* The panel's clock shows the host's local time; the log is kept in UTC.  Daylight
\* saving, which moves the offset in summer, is left out.
ld_decode(msg) ==
  [area |-> Dec(msg, 11, 12) - 1, event |-> Dec(msg, 4, 8), number |-> Dec(msg, 8, 11),
   index |-> Dec(msg, 20, 23),
   timestamp |-> Date(Minutes(<<Dec(msg, 24, 26) + 2000, Dec(msg, 16, 18), Dec(msg, 18, 20),
                                Dec(msg, 12, 14), Dec(msg, 14, 16)>>) - UtcOffset)]
lw_decode(msg) ==
  [keypad_temps |-> List(16, LAMBDA i : Dec(msg, 4 + 3 * i, 7 + 3 * i) - 40),
   zone_temps |-> List(16, LAMBDA i : Dec(msg, 52 + 3 * i, 55 + 3 * i) - 60)]
housecode_to_index(code) == (code[1] - 65) * 16 + Number(SubSeq(code, 2, 3), 10) - 1
pc_decode(msg) ==
  [index |-> housecode_to_index(Slice(msg, 4, 7)), light_level |-> Dec(msg, 7, 9)]
\* All lights of a house, whose unit is 00.
pc_all_decode(msg) ==
  [house_index |-> At(msg, 4) - 65, aggregate_code |-> Dec(msg, 7, 9)]
ps_decode(msg) ==
  [bank |-> At(msg, 4) - Zero, statuses |-> List(64, LAMBDA i : At(msg, 5 + i) - Zero)]
rp_decode(msg) == [remote_programming_status |-> Dec(msg, 4, 6)]
rr_decode(msg) == [real_time_clock |-> Slice(msg, 4, 20)]
sd_decode(msg) ==
  LET show == At(msg, 9) >= 128
      first == IF show THEN At(msg, 9) - 128 ELSE At(msg, 9)
  IN [desc_type |-> Dec(msg, 4, 6), unit |-> Dec(msg, 6, 9) - 1,
      desc |-> Trimmed(<<first>> \o Slice(msg, 10, 25)), show_on_keypad |-> show]
ss_decode(msg) == [system_trouble_status |-> msg.data]
\* Mutant of st_decode: one offset for zones and keypads.
st_decodeOneOffset(msg) ==
  [group |-> Dec(msg, 4, 5), device |-> Dec(msg, 5, 7) - 1,
   temperature |-> Dec(msg, 7, 10) - (IF Dec(msg, 4, 5) = 2 THEN 0 ELSE 60)]
st_decode(msg) ==
  LET group == Dec(msg, 4, 5)
  IN [group |-> group, device |-> Dec(msg, 5, 7) - 1,
      temperature |-> Dec(msg, 7, 10) - (CASE group = 0 -> 60 [] group = 1 -> 40 [] OTHER -> 0)]
tc_decode(msg) == [task |-> Dec(msg, 4, 7) - 1]
tr_decode(msg) ==
  [thermostat_index |-> Dec(msg, 4, 6) - 1, mode |-> Dec(msg, 6, 7), hold |-> IsOne(msg, 7),
   fan |-> Dec(msg, 8, 9), current_temp |-> Dec(msg, 9, 11), heat_setpoint |-> Dec(msg, 11, 13),
   cool_setpoint |-> Dec(msg, 13, 15), humidity |-> Dec(msg, 15, 17)]
ua_decode(msg) ==
  [user_code |-> Dec(msg, 4, 10), valid_areas |-> Hex(msg, 10, 12),
   diagnostic |-> Slice(msg, 12, 20), user_code_length |-> Dec(msg, 20, 21),
   user_code_type |-> Dec(msg, 21, 22), temperature_units |-> At(msg, 22)]
vn_decode(msg) ==
  [elkm1_version |-> List(3, LAMBDA i : Hex(msg, 4 + 2 * i, 6 + 2 * i)),
   xep_version |-> List(3, LAMBDA i : Hex(msg, 10 + 2 * i, 12 + 2 * i))]
zb_decode(msg) == [zone_number |-> Dec(msg, 4, 7) - 1, zone_bypassed |-> IsOne(msg, 7)]
\* Logical status in the upper two bits of a nibble, physical in the lower.
status_decode(nibble) == <<(nibble \div 4) % 4, nibble % 4>>
zc_decode(msg) ==
  [zone_number |-> Dec(msg, 4, 7) - 1, zone_status |-> status_decode(Hex(msg, 7, 8))]
zd_decode(msg) == [zone_definitions |-> List(Zones, LAMBDA i : At(msg, 4 + i) - Zero)]
zp_decode(msg) == [zone_partitions |-> List(Zones, LAMBDA i : At(msg, 4 + i) - One)]
zs_decode(msg) ==
  [zone_statuses |-> List(Zones, LAMBDA i : status_decode(HexDigit(At(msg, 4 + i))))]
zv_decode(msg) == [zone_number |-> Dec(msg, 4, 7) - 1, tenths |-> Dec(msg, 7, 10)]

\* A stated length or a value outside its enumeration makes a ValueError.
Rejected(msg) ==
  LET Outside(values, set) == ~ (ToSet(values) \subseteq set)
      fixed == [AM |-> 12, AZ |-> 214, TR |-> 19, ZC |-> 10, ZD |-> 214, ZS |-> 214]
  IN \/ msg.cmd \in DOMAIN fixed /\ Length(msg) # fixed[msg.cmd]
     \/ msg.cmd = "AS" /\ (\/ Outside(Slice(msg, 4, 12), ArmedStatus)
                           \/ Outside(Slice(msg, 12, 20), ArmUpState)
                           \/ Outside(Slice(msg, 20, 28), AlarmState))
     \/ msg.cmd = "AZ" /\ Outside(Slice(msg, 4, 4 + Zones), ZoneAlarmState)
     \/ msg.cmd = "EE" /\ Outside(Slice(msg, 12, 13), ArmedStatus)
     \/ msg.cmd = "KF" /\ (\/ Outside(Slice(msg, 6, 7), FunctionKeys)
                           \/ Outside(Slice(msg, 7, 15), Zero..Zero + 3))
     \/ msg.cmd = "ZD" /\ Outside(Slice(msg, 4, 4 + Zones), {Zero + z : z \in ZoneType})

\* The message's type for its observers, and its fields.
decode(msg) ==
  LET Is(type, fields) == [type |-> type, is |-> fields]
  IN IF Rejected(msg) THEN None
     ELSE CASE msg.cmd = "AM" -> Is("AM", am_decode(msg)) [] msg.cmd = "AS" -> Is("AS", as_decode(msg))
            [] msg.cmd = "AZ" -> Is("AZ", az_decode(msg)) [] msg.cmd = "CC" -> Is("CC", cc_decode(msg))
            [] msg.cmd = "CR" -> Is("CR", cr_decode(msg)) [] msg.cmd = "CS" -> Is("CS", cs_decode(msg))
            [] msg.cmd = "CV" -> Is("CV", cv_decode(msg)) [] msg.cmd = "EE" -> Is("EE", ee_decode(msg))
            [] msg.cmd = "IC" -> Is("IC", ic_decode(msg)) [] msg.cmd = "IE" -> Is("IE", ie_decode(msg))
            [] msg.cmd = "KA" -> Is("KA", ka_decode(msg)) [] msg.cmd = "KC" -> Is("KC", kc_decode(msg))
            [] msg.cmd = "KF" -> Is("KF", kf_decode(msg)) [] msg.cmd = "LD" -> Is("LD", ld_decode(msg))
            [] msg.cmd = "LW" -> Is("LW", lw_decode(msg)) [] msg.cmd = "PS" -> Is("PS", ps_decode(msg))
            [] msg.cmd = "RP" -> Is("RP", rp_decode(msg)) [] msg.cmd = "RR" -> Is("RR", rr_decode(msg))
            [] msg.cmd = "SD" -> Is("SD", sd_decode(msg)) [] msg.cmd = "SS" -> Is("SS", ss_decode(msg))
            [] msg.cmd = "ST" -> Is("ST", st_decode(msg)) [] msg.cmd = "TC" -> Is("TC", tc_decode(msg))
            [] msg.cmd = "TR" -> Is("TR", tr_decode(msg)) [] msg.cmd = "UA" -> Is("UA", ua_decode(msg))
            [] msg.cmd = "VN" -> Is("VN", vn_decode(msg)) [] msg.cmd = "XK" -> Is("XK", rr_decode(msg))
            [] msg.cmd = "ZB" -> Is("ZB", zb_decode(msg)) [] msg.cmd = "ZC" -> Is("ZC", zc_decode(msg))
            [] msg.cmd = "ZD" -> Is("ZD", zd_decode(msg)) [] msg.cmd = "ZP" -> Is("ZP", zp_decode(msg))
            [] msg.cmd = "ZS" -> Is("ZS", zs_decode(msg)) [] msg.cmd = "ZV" -> Is("ZV", zv_decode(msg))
            [] msg.cmd = "PC" -> IF Slice(msg, 5, 7) = <<Zero, Zero>> THEN Is("PC_ALL", pc_all_decode(msg))
                                 ELSE Is("PC", pc_decode(msg))
            [] OTHER -> Is("unknown", msg)

\* The rest of a KC, from the columns of whatever message is long enough and
\* has numbers there.
IsDigit(c) == c \in Zero..57
HasDetail(msg) ==
  LET IsInt(pair) == \/ IsDigit(pair[2]) /\ (IsDigit(pair[1]) \/ pair[1] \in {32, 43, 45})
                     \/ IsDigit(pair[1]) /\ pair[2] = 32
  IN /\ Length(msg) + 2 >= 27
     /\ IsInt(Slice(msg, 4, 6)) /\ IsInt(Slice(msg, 6, 8))
     /\ \A c \in ToSet(Slice(msg, 8, 14)) : IsDigit(c)
     /\ \A c \in ToSet(Slice(msg, 15, 23)) : IsDigit(c) \/ c \in 65..70 \cup 97..102
kc_detail_decode(msg) ==
  [keypad |-> Dec(msg, 4, 6) - 1, key |-> Dec(msg, 6, 8),
   function_key_lights |-> List(6, LAMBDA i : Dec(msg, 8 + i, 9 + i)),
   bypass_requires_code |-> IsOne(msg, 14),
   beep_chime_by_area |-> List(Areas, LAMBDA i : Hex(msg, 15 + i, 16 + i))]

-----------------------------------------------------------------------------
(***************************************************************************)
(* The panel: how it reads a command, by the widths of its fields, and how  *)
(* it writes what it has to say.                                            *)
(***************************************************************************)
\* An element or a number of some digits, a character, a light, a zone or all
\* zones, a text.
E(w) == <<"element", w>>
N(w) == <<"number", w>>
C == <<"character", 1>>
Light == <<"light", 3>>
ZoneOrAll == <<"zone", 3>>
Text == <<"text", 16>>

Columns == [
  a |-> <<C, E(1), N(6)>>, as |-> <<>>, az |-> <<>>, cf |-> <<E(3)>>, ct |-> <<E(3)>>,
  cn |-> <<E(3), N(5)>>, cs |-> <<>>, cp |-> <<>>, cr |-> <<E(2)>>, cw |-> <<E(2), N(5)>>,
  cv |-> <<E(2)>>, cx |-> <<E(2), N(5)>>, dm |-> <<E(1), N(1), N(1), N(5), Text, Text>>,
  ka |-> <<>>, kc |-> <<E(2)>>, kf |-> <<E(2), C>>, ld |-> <<N(3)>>, lw |-> <<>>,
  pc |-> <<Light, N(2), N(2), N(4)>>, pf |-> <<Light>>, pn |-> <<Light>>, ps |-> <<N(1)>>,
  pt |-> <<Light>>, sd |-> <<N(2), E(3)>>, sp |-> <<N(3)>>, ss |-> <<>>, sw |-> <<N(3)>>,
  rr |-> <<>>, rw |-> <<N(2), N(2), N(2), N(1), N(2), N(2), N(2)>>, st |-> <<N(1), E(2)>>,
  tn |-> <<E(3)>>, tr |-> <<E(2)>>, ts |-> <<E(2), N(2), N(1)>>, ua |-> <<N(6)>>, vn |-> <<>>,
  zb |-> <<ZoneOrAll, E(1), N(6)>>, zd |-> <<>>, zp |-> <<>>, zs |-> <<>>, zt |-> <<E(3)>>,
  zv |-> <<E(3)>>]

UpToCaret(text) == SubSeq(text, 1, CHOOSE n \in 0..16 :
  (n = 16 \/ text[n + 1] = 94) /\ \A i \in 1..n : text[i] # 94)

\* A number is read as one digit, as a sequence for every other field.
Reads(field, chars) ==
  LET n == Number(chars, 10)
  IN CASE field[1] = "element" -> <<n - 1>>
       [] field[1] = "number" -> <<n>>
       [] field[1] = "character" -> chars
       [] field[1] = "light" -> <<(chars[1] - 65) * 16 + Number(Tail(chars), 10) - 1>>
       [] field[1] = "zone" -> <<IF n = 999 THEN n ELSE n - 1>>
       [] OTHER -> UpToCaret(chars)

Takes(cmd) ==
  LET fields == Columns[cmd.cmd]
      Before(i) == FoldLeft(LAMBDA sum, f : sum + f[2], 0, SubSeq(fields, 1, i))
  IN IF Len(cmd.data) # Before(Len(fields)) THEN <<"garbled">>
     ELSE <<cmd.cmd>> \o [i \in DOMAIN fields |->
            Reads(fields[i], SubSeq(cmd.data, Before(i - 1) + 1, Before(i)))]

Hex2(n) == LET Of(d) == IF d < 10 THEN Zero + d ELSE 55 + d IN <<Of(n \div 16), Of(n % 16)>>
Flag(b) == IF b THEN <<One>> ELSE <<Zero>>
Nibble(s) == Hex2(s[1] * 4 + s[2])[2]
Listed(list, Of(_)) ==
  FlattenSeq([i \in 1..Cardinality(DOMAIN list) |-> Of(list[i - 1])])

\* The data that the panel sends to say c.
Data(type, c) ==
  CASE type = "AM" -> Listed(c.alarm_memory, Flag)
    [] type = "AS" -> Listed(c.armed_statuses, LAMBDA x : <<x>>) \o Listed(c.arm_up_states, LAMBDA x : <<x>>)
                        \o Listed(c.alarm_states, LAMBDA x : <<x>>) \o Hex2(c.timer_seconds)
    [] type = "AZ" -> Listed(c.alarm_status, LAMBDA x : <<x>>)
    [] type = "CC" -> Digits(c.output + 1, 3) \o Flag(c.output_status)
    [] type = "CR" ->
         LET one == Cardinality(DOMAIN c.values) = 1
         IN Digits(IF one THEN c.values[0].index + 1 ELSE 0, 2)
              \o Listed(c.values, LAMBDA v : Digits(IF v.value_format = 2
                   THEN v.value[1] * 256 + v.value[2] ELSE v.value[1], 5) \o Digits(v.value_format, 1))
    [] type = "CS" -> Listed(c.output_status, Flag)
    [] type = "CV" -> Digits(c.counter + 1, 2) \o Digits(c.value, 5)
    [] type = "EE" -> Digits(c.area + 1, 1) \o Flag(~c.is_exit) \o Digits(c.timer1, 3)
                        \o Digits(c.timer2, 3) \o <<c.armed_status>>
    [] type = "IC" -> (IF Len(c.code) = 6 THEN FlattenSeq([i \in 1..6 |-> <<Zero, c.code[i]>>]) ELSE c.code)
                        \o Digits(c.user + 1, 3) \o Digits(c.keypad + 1, 2)
    [] type = "IE" -> <<>>
    [] type = "KA" -> Listed(c.keypad_areas, LAMBDA x : <<One + x>>)
    [] type = "KC" -> Digits(c.keypad + 1, 2) \o Digits(c.key, 2)
                        \o Listed(c.function_key_lights, LAMBDA x : Digits(x, 1))
                        \o Flag(c.bypass_requires_code)
                        \o Listed(c.beep_chime_by_area, LAMBDA x : <<Hex2(x)[2]>>)
    [] type = "KF" -> Digits(c.keypad + 1, 2) \o <<c.key>> \o Listed(c.chime_mode, LAMBDA x : Digits(x, 1))
    [] type = "LD" ->
         LET clock == Date(Minutes(c.timestamp) + UtcOffset)
         IN Digits(c.event, 4) \o Digits(c.number, 3) \o Digits(c.area + 1, 1)
              \o FlattenSeq([i \in 1..4 |-> Digits(clock[<<4, 5, 2, 3>>[i]], 2)])
              \o Digits(c.index, 3) \o Digits(1, 1) \o Digits(clock[1] - 2000, 2)
    [] type = "LW" -> Listed(c.keypad_temps, LAMBDA x : Digits(x + 40, 3))
                        \o Listed(c.zone_temps, LAMBDA x : Digits(x + 60, 3))
    [] type = "PC" -> index_to_housecode(c.index) \o Digits(c.light_level, 2)
    [] type = "PC_ALL" -> <<65 + c.house_index>> \o Digits(0, 2) \o Digits(c.aggregate_code, 2)
    [] type = "PS" -> Digits(c.bank, 1) \o Listed(c.statuses, LAMBDA x : <<Zero + x>>)
    [] type = "RP" -> Digits(c.remote_programming_status, 2)
    [] type \in {"RR", "XK"} -> c.real_time_clock
    [] type = "SD" -> Digits(c.desc_type, 2) \o Digits(c.unit + 1, 3)
         \o [i \in 1..16 |-> (IF i <= Len(c.desc) THEN c.desc[i] ELSE 32)
                               + (IF i = 1 /\ c.show_on_keypad THEN 128 ELSE 0)]
    [] type = "SS" -> SubSeq(c.system_trouble_status, 1, 34)
    [] type = "ST" -> Digits(c.group, 1) \o Digits(c.device + 1, 2) \o Digits(c.temperature
                        + (CASE c.group = 0 -> 60 [] c.group = 1 -> 40 [] OTHER -> 0), 3)
    [] type = "TC" -> Digits(c.task + 1, 3)
    [] type = "TR" -> Digits(c.thermostat_index + 1, 2) \o Digits(c.mode, 1) \o Flag(c.hold)
                        \o Digits(c.fan, 1) \o Digits(c.current_temp, 2) \o Digits(c.heat_setpoint, 2)
                        \o Digits(c.cool_setpoint, 2) \o Digits(c.humidity, 2)
    [] type = "UA" -> Digits(c.user_code, 6) \o Hex2(c.valid_areas) \o c.diagnostic
                        \o Digits(c.user_code_length, 1) \o Digits(c.user_code_type, 1)
                        \o <<c.temperature_units>>
    [] type = "VN" -> Listed(c.elkm1_version, Hex2) \o Listed(c.xep_version, Hex2)
                        \o [i \in 1..36 |-> Zero]
    [] type = "ZB" -> Digits(c.zone_number + 1, 3) \o Flag(c.zone_bypassed)
    [] type = "ZC" -> Digits(c.zone_number + 1, 3) \o <<Nibble(c.zone_status)>>
    [] type = "ZD" -> Listed(c.zone_definitions, LAMBDA x : <<Zero + x>>)
    [] type = "ZP" -> Listed(c.zone_partitions, LAMBDA x : <<One + x>>)
    [] type = "ZS" -> Listed(c.zone_statuses, LAMBDA x : <<Nibble(x)>>)
    [] type = "ZV" -> Digits(c.zone_number + 1, 3) \o Digits(c.tenths, 3)

\* Two reserved zeros end all but AM and AS, whose timer takes their place.
Says(s) ==
  [cmd |-> IF s.type = "PC_ALL" THEN "PC" ELSE s.type,
   data |-> Data(s.type, s.is) \o (IF s.type \in {"AM", "AS"} THEN <<>> ELSE <<Zero, Zero>>)]

-----------------------------------------------------------------------------
(***************************************************************************)
(* One exchange: a command and its answer, or a report.                     *)
(***************************************************************************)
Init ==
  /\ asked = None /\ message = None /\ heard = None
  /\ status = <<>> /\ took = None /\ said = None

Write ==
  /\ asked = None /\ message = None
  /\ \E a \in Asked : asked' = a /\ took' = Takes(a.command)
  /\ UNCHANGED <<message, heard, status, said>>

PanelSpeaks(s) ==
  /\ message = None /\ said' = s /\ message' = Says(s)
  /\ UNCHANGED <<asked, heard, status, took>>

PanelAnswers == asked # None /\ \E s \in Answers(took) : PanelSpeaks(s)

PanelReports == asked = None /\ \E s \in Reported : PanelSpeaks(s)

\* The coordinator keeps the status of a keypad, and adds it to its key event.
handle_keypad_detail(detail) ==
  detail.keypad :> [f \in {"function_key_lights", "bypass_requires_code", "beep_chime_by_area"} |->
                      detail[f]]
handle_keypad_change(keypress) == status[keypress.keypad] @@ keypress

\* _entry_read_stream: the decoded message, and before it the detail of a KC
\* for the coordinator's _handle_keypad_detail.  The stream looks for a detail in
\* every message, and finds one in long replies that are no KC's.
Read ==
  /\ message # None /\ heard = None
  /\ IF Rejected(message)
       THEN heard' = [type |-> "rejected", is |-> <<>>] /\ UNCHANGED status
       ELSE /\ heard' = decode(message)
            /\ status' = IF HasDetail(message)
                 THEN handle_keypad_detail(kc_detail_decode(message)) @@ status
                 ELSE status
  /\ UNCHANGED <<asked, message, took, said>>

Next == Write \/ PanelAnswers \/ PanelReports \/ Read
Spec == Init /\ [][Next]_vars
-----------------------------------------------------------------------------
\* The panel takes every command for what its caller meant: the element, which
\* it counts from 1, and every value at its widest (the encoders of
\* message.py, called with what the services and elements let through).
CommandsAreTaken == asked # None => took = asked.means

\* Every message of the panel is heard as what it says, at the edges of every
\* field; an answer has the type that releases the next write, and a key event
\* comes with the lights and beeps of its keypad.
ReportsAreHeard ==
  heard # None =>
    /\ heard.type = said.type
    /\ IF said.type = "KC"
         THEN handle_keypad_change(heard.is) = said.is
         ELSE heard.is = said.is
    /\ asked # None => heard.type = asked.command.reply
=============================================================================

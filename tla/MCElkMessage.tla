---------------------------- MODULE MCElkMessage ----------------------------
(***************************************************************************)
(* Every command at the edges of its fields, every message of the panel     *)
(* with two fillings of its lists.                                          *)
(***************************************************************************)
EXTENDS ElkMessage

\* Five hours behind UTC.
MCUtcOffset == -300

Edge(n) == {0, 8, 9, 15, n - 1} \cap 0..n - 1
Code == {0, 1234, 999999}
Ask(cmd, fields, command) == [means |-> <<cmd>> \o fields, command |-> command]
N1(n) == <<n>>
Hi == <<72, 105>>
Long == [i \in 1..16 |-> 65 + i]

\* The format of each custom value, which the panel knows.
Format(index) == index % 3

Clock == {<<5, 4, 3, 7, 2, 1, 26>>, <<59, 59, 23, 1, 31, 12, 99>>}
ClockDigits(t) == FlattenSeq([i \in 1..7 |-> Digits(t[i], IF i = 4 THEN 1 ELSE 2)])

MCAsked ==
  {Ask("as", <<>>, as_encode), Ask("az", <<>>, az_encode), Ask("cs", <<>>, cs_encode),
   Ask("cp", <<>>, cp_encode), Ask("ka", <<>>, ka_encode), Ask("lw", <<>>, lw_encode),
   Ask("ss", <<>>, ss_encode), Ask("rr", <<>>, rr_encode), Ask("vn", <<>>, vn_encode),
   Ask("zd", <<>>, zd_encode), Ask("zp", <<>>, zp_encode), Ask("zs", <<>>, zs_encode)}
  \cup {Ask("a", <<<<Zero + l>>, N1(a), N1(c)>>, al_encode(Zero + l, a, c)) :
          l \in {0, 1, 10}, a \in {0, 7}, c \in Code}
  \cup UNION {{Ask("cf", <<N1(o)>>, cf_encode(o)), Ask("ct", <<N1(o)>>, ct_encode(o)),
               Ask("zt", <<N1(o)>>, zt_encode(o)), Ask("zv", <<N1(o)>>, zv_encode(o))} : o \in Edge(208)}
  \cup {Ask("cn", <<N1(o), N1(s)>>, cn_encode(o, s)) : o \in Edge(208), s \in {0, 65535}}
  \cup {Ask("cr", <<N1(i)>>, cr_encode(i)) : i \in Edge(20)}
  \cup {Ask("cw", <<N1(i), N1(v)>>, cw_encode(i, v, Format(i))) :
          i \in {j \in Edge(20) : Format(j) # TimeOfDay}, v \in {0, 65535}}
  \cup {Ask("cw", <<N1(i), N1(256 * t[1] + t[2])>>, cw_encode(i, t, TimeOfDay)) :
          i \in {j \in Edge(20) : Format(j) = TimeOfDay}, t \in {<<0, 0>>, <<23, 59>>}}
  \cup {Ask("cv", <<N1(i)>>, cv_encode(i)) : i \in Edge(64)}
  \cup {Ask("cx", <<N1(i), N1(v)>>, cx_encode(i, v)) : i \in Edge(64), v \in {0, 65535}}
  \cup {Ask("dm", <<N1(a), N1(1), N1(b), N1(s), Hi, t>>, dm_encode(a, 1, b, s, Hi, t)) :
          a \in {0, 7}, b \in {0, 1}, s \in {0, 65535}, t \in {<<>>, Long}}
  \cup UNION {{Ask("kc", <<N1(k)>>, kc_encode(k)), Ask("tr", <<N1(k)>>, tr_encode(k))} : k \in Edge(16)}
  \cup {Ask("kf", <<N1(k), <<f>>>>, kf_encode(k, f)) : k \in Edge(16), f \in {48, 54, 42, 67}}
  \cup {Ask("ld", <<N1(i)>>, ld_encode(i)) : i \in {0, 1, 511}}
  \cup UNION {{Ask("pf", <<N1(i)>>, pf_encode(i)), Ask("pn", <<N1(i)>>, pn_encode(i)),
               Ask("pt", <<N1(i)>>, pt_encode(i)),
               Ask("pc", <<N1(i), N1(9), N1(97), N1(9999)>>, pc_encode(i, 9, 97, 9999))} : i \in Edge(256)}
  \cup {Ask("ps", <<N1(b)>>, ps_encode(b)) : b \in 0..3}
  \cup {Ask("sd", <<N1(d), N1(u)>>, sd_encode(d, u)) : d \in {0, 11}, u \in Edge(208)}
  \cup UNION {{Ask("sp", <<N1(p)>>, sp_encode(p)), Ask("sw", <<N1(p)>>, sw_encode(p))} : p \in {0, 999}}
  \cup {Ask("rw", [i \in 1..7 |-> N1(t[i])], rw_encode(t)) : t \in Clock}
  \cup {Ask("st", <<N1(g), N1(d)>>, st_encode(g, d)) : g \in 0..2, d \in Edge(16)}
  \cup {Ask("ts", <<N1(k), N1(v), N1(e)>>, ts_encode(k, v, e)) : k \in Edge(16), v \in {0, 99}, e \in {4, 5}}
  \cup {Ask("ua", <<N1(c)>>, ua_encode(c)) : c \in Code}
  \cup {Ask("zb", <<N1(z), N1(0), N1(1234)>>, zb_encode(z, 0, 1234)) : z \in Edge(208) \cup {-1, 999}}

\* A list's filling, of n values, shifted by p.
Fill(n, p, Of(_)) == List(n, LAMBDA i : Of(i + p))
S(type, is) == [type |-> type, is |-> is]

Statuses(p) == S("AS",
  [armed_statuses |-> Fill(8, p, LAMBDA i : Zero + (i % 7)), arm_up_states |-> Fill(8, p, LAMBDA i : Zero + (i % 7)),
   alarm_states |-> Fill(8, p, LAMBDA i : Zero + ((5 * i) % 19)), timer_seconds |-> 255 * p])
Value(i, n) == [index |-> i, value_format |-> Format(i),
                value |-> IF Format(i) = TimeOfDay THEN <<n \div 256, n % 256>> ELSE <<n>>]
KeyEvent(k, key, p) == S("KC",
  [keypad |-> k, key |-> key, function_key_lights |-> Fill(6, p, LAMBDA i : i % 3),
   bypass_requires_code |-> p = 1, beep_chime_by_area |-> Fill(8, p, LAMBDA i : (5 * i) % 16)])
Log(index, area, p) == S("LD",
  [area |-> area, event |-> 1000 + 383 * p, number |-> 999 * p, index |-> index,
   timestamp |-> IF p = 0 THEN <<2028, 3, 1, 3, 4>> ELSE <<2100, 1, 1, 4, 59>>])
Thermostat(k, heat, cool, p) == S("TR",
  [thermostat_index |-> k, mode |-> 4 * p, hold |-> p = 1, fan |-> p, current_temp |-> 98 * p,
   heat_setpoint |-> heat, cool_setpoint |-> cool, humidity |-> 45])
Temperature(g, d, p) == S("ST", [group |-> g, device |-> d, temperature |->
  (CASE g = 0 -> -60 [] g = 1 -> -40 [] OTHER -> 0) + 255 * p])
Tail3 == <<One, Zero, Zero>>

MCAnswers(t) ==
  LET cmd == t[1]
      a == IF Len(t) > 1 THEN t[2][1] ELSE 0
      b == IF Len(t) > 2 /\ t[3] # <<>> THEN t[3][1] ELSE 0
      Two(Of(_)) == {Of(0), Of(1)}
      Lists(type, field, n, Of(_)) == {S(type, field :> Fill(n, p, Of)) : p \in {0, 1}}
  IN CASE cmd \in {"a", "as"} -> Two(Statuses)
       [] cmd = "az" -> Lists("AZ", "alarm_status", 208, LAMBDA i : Zero + (i % 26))
       [] cmd = "cs" -> Lists("CS", "output_status", 208, LAMBDA i : i % 3 = 0)
       [] cmd = "cp" -> Two(LAMBDA p : S("CR", [values |-> List(20, LAMBDA i : Value(i, 5947 * p))]))
       [] cmd = "cr" -> Two(LAMBDA p : S("CR", [values |-> List(1, LAMBDA i : Value(a, 5947 * p))]))
       [] cmd = "cw" -> {S("CR", [values |-> List(1, LAMBDA i : Value(a, b))])}
       [] cmd = "cv" -> Two(LAMBDA p : S("CV", [counter |-> a, value |-> 65535 * p]))
       [] cmd = "cx" -> {S("CV", [counter |-> a, value |-> b])}
       [] cmd = "ka" -> Lists("KA", "keypad_areas", 16, LAMBDA i : i % 8)
       [] cmd = "kc" -> Two(LAMBDA p : KeyEvent(a, 0, p))
       [] cmd = "kf" -> Two(LAMBDA p : S("KF", [keypad |-> a, key |-> b, chime_mode |-> Fill(8, p, LAMBDA i : i % 4)]))
       [] cmd = "ld" -> {Log(a, area, p) : area \in {0, 7}, p \in {0, 1}}
       [] cmd = "lw" -> Two(LAMBDA p : S("LW",
            [keypad_temps |-> Fill(16, p, LAMBDA i : 16 * i - 40), zone_temps |-> Fill(16, p, LAMBDA i : 16 * i - 60)]))
       [] cmd = "ps" -> Two(LAMBDA p : S("PS", [bank |-> a, statuses |-> Fill(64, p, LAMBDA i : (7 * i) % 100)]))
       [] cmd = "sd" -> {S("SD", [desc_type |-> a, unit |-> b, desc |-> d, show_on_keypad |-> s]) :
                           d \in {Hi, Long, <<65, 32, 66>>}, s \in BOOLEAN}
                        \cup {S("SD", [desc_type |-> a, unit |-> -1, desc |-> <<>>, show_on_keypad |-> FALSE])}
       [] cmd = "ss" -> Two(LAMBDA p : S("SS", [system_trouble_status |->
            [i \in 1..36 |-> IF i <= 34 /\ (i + p) % 3 = 0 THEN One + i ELSE Zero]]))
       [] cmd = "rr" -> {S("RR", [real_time_clock |-> ClockDigits(c) \o Tail3]) : c \in Clock}
       [] cmd = "rw" -> {S("RR", [real_time_clock |-> ClockDigits([i \in 1..7 |-> t[i + 1][1]]) \o Tail3])}
       [] cmd = "st" -> Two(LAMBDA p : Temperature(a, b, p))
       [] cmd = "tr" -> Two(LAMBDA p : Thermostat(a, 68, 76, p))
       [] cmd = "ts" -> Two(LAMBDA p : IF t[4][1] = 4 THEN Thermostat(a, 68, b, p) ELSE Thermostat(a, b, 76, p))
       [] cmd = "ua" -> Two(LAMBDA p : S("UA", [user_code |-> a, valid_areas |-> 255 * p,
            diagnostic |-> [i \in 1..8 |-> Zero], user_code_length |-> 4 + 2 * p, user_code_type |-> p,
            temperature_units |-> 70 - 3 * p]))
       [] cmd = "vn" -> Two(LAMBDA p : S("VN", [elkm1_version |-> Fill(3, p, LAMBDA i : 7 * i + 5),
            xep_version |-> Fill(3, p, LAMBDA i : 127 * i)]))
       [] cmd = "zb" -> Two(LAMBDA p : S("ZB", [zone_number |-> IF a = 999 THEN 998 ELSE a, zone_bypassed |-> p = 1]))
       [] cmd = "zd" -> Lists("ZD", "zone_definitions", 208, LAMBDA i : i % 37)
       [] cmd = "zp" -> Lists("ZP", "zone_partitions", 208, LAMBDA i : i % 8)
       [] cmd = "zs" -> Lists("ZS", "zone_statuses", 208, LAMBDA i : <<i % 4, (i \div 4) % 4>>)
       [] cmd = "zv" -> Two(LAMBDA p : S("ZV", [zone_number |-> a, tenths |-> 255 * p]))
       [] OTHER -> {}

MCReported ==
  {S("IE", <<>>), Statuses(0), Statuses(1)}
  \cup {S("AM", [alarm_memory |-> Fill(8, p, LAMBDA i : i % 2 = 0)]) : p \in {0, 1}}
  \cup {S("CC", [output |-> o, output_status |-> on]) : o \in Edge(208), on \in BOOLEAN}
  \cup {S("EE", [area |-> a, is_exit |-> x, timer1 |-> t, timer2 |-> 255 - t, armed_status |-> s]) :
          a \in {0, 7}, x \in BOOLEAN, t \in {0, 255}, s \in {48, 54}}
  \cup {S("IC", [code |-> c, user |-> u, keypad |-> k]) : k \in Edge(16), u \in {-1, 0, 202},
          c \in {[i \in 1..6 |-> Zero], [i \in 1..6 |-> Zero + i], [i \in 1..12 |-> 65]}}
  \cup {KeyEvent(k, key, p) : k \in Edge(16), key \in {0, 28}, p \in {0, 1}}
  \cup {Log(1, a, p) : a \in {0, 7}, p \in {0, 1}}
  \cup {S("PC", [index |-> i, light_level |-> v]) : i \in Edge(256), v \in {0, 99}}
  \cup {S("PC_ALL", [house_index |-> h, aggregate_code |-> c]) : h \in {0, 15}, c \in {1, 2, 7}}
  \cup {S("RP", [remote_programming_status |-> r]) : r \in 0..2}
  \cup {Temperature(g, d, p) : g \in 0..2, d \in Edge(16), p \in {0, 1}}
  \cup {S("TC", [task |-> t]) : t \in Edge(32)}
  \cup {S("XK", [real_time_clock |-> ClockDigits(c) \o Tail3]) : c \in Clock}
  \cup {S("ZC", [zone_number |-> z, zone_status |-> <<l, p>>]) : z \in Edge(208), l \in 0..3, p \in 0..3}
=============================================================================

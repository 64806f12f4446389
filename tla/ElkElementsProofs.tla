-------------------------- MODULE ElkElementsProofs --------------------------
(***************************************************************************)
(* What holds of ElkElements for every choice of collections, sizes, names, *)
(* and numbers of changes, refreshes and faults.                            *)
(***************************************************************************)
EXTENDS ElkElements, SequenceTheorems, FiniteSetTheorems, FunctionTheorems, NaturalsInduction, TLAPS

-----------------------------------------------------------------------------
(***************************************************************************)
(* The collections.                                                        *)
(***************************************************************************)

AskTypes == {"AS", "SD", "AZ", "ZD", "ZP", "ZS", "CS", "CR", "PS", "KA", "KF", "VN", "LW", "SS",
             "UA", "ZV", "CV", "TR"}
LineTypes == AskTypes \cup {"EE", "ZC", "CC", "TC", "PC", "TR", "KC", "ZB", "IE"}

\* What a collection's entry in the table is made of.
Declares(c) ==
  /\ c.sync \in Seq(AskTypes) /\ c.configured \in Seq({"CV", "TR"})
  /\ c.report \subseteq LineTypes \ {"SD"}
  /\ \A t \in DOMAIN c.sets : t # "idle" /\ "name" \notin c.sets[t]

LEMMA AllDeclare == \A k \in Collections : Declares(Collection[k])
<1>1. Declares(Panel)
  BY DEF Declares, AskTypes, LineTypes, Panel
<1>2. Declares(Zones)
  BY DEF Declares, AskTypes, LineTypes, Zones
<1>3. Declares(Lights)
  BY DEF Declares, AskTypes, LineTypes, Lights
<1>4. Declares(Areas)
  BY DEF Declares, AskTypes, LineTypes, Areas
<1>5. Declares(Tasks)
  BY DEF Declares, AskTypes, LineTypes, Tasks
<1>6. Declares(Keypads)
  BY DEF Declares, AskTypes, LineTypes, Keypads
<1>7. Declares(Outputs)
  BY DEF Declares, AskTypes, LineTypes, Outputs
<1>8. Declares(Thermostats)
  BY DEF Declares, AskTypes, LineTypes, Thermostats
<1>9. Declares(Counters)
  BY DEF Declares, AskTypes, LineTypes, Counters
<1>10. Declares(Settings)
  BY DEF Declares, AskTypes, LineTypes, Settings
<1>11. Declares(Users)
  BY DEF Declares, AskTypes, LineTypes, Users
<1> QED
  BY <1>1, <1>2, <1>3, <1>4, <1>5, <1>6, <1>7, <1>8, <1>9, <1>10, <1>11 DEF Collections, Collection

\* A resync asks of all elements at once, and an SD carries no attribute.
AsksOfAll(c) ==
  c.sync \in Seq(AskTypes \ {"CV", "TR", "ZV"}) /\ "SD" \notin DOMAIN c.sets

LEMMA AllAskOfAll == \A k \in Collections : AsksOfAll(Collection[k])
<1>1. AsksOfAll(Panel)
  BY DEF AsksOfAll, AskTypes, Panel
<1>2. AsksOfAll(Zones)
  BY DEF AsksOfAll, AskTypes, Zones
<1>3. AsksOfAll(Lights)
  BY DEF AsksOfAll, AskTypes, Lights
<1>4. AsksOfAll(Areas)
  BY DEF AsksOfAll, AskTypes, Areas
<1>5. AsksOfAll(Tasks)
  BY DEF AsksOfAll, AskTypes, Tasks
<1>6. AsksOfAll(Keypads)
  BY DEF AsksOfAll, AskTypes, Keypads
<1>7. AsksOfAll(Outputs)
  BY DEF AsksOfAll, AskTypes, Outputs
<1>8. AsksOfAll(Thermostats)
  BY DEF AsksOfAll, AskTypes, Thermostats
<1>9. AsksOfAll(Counters)
  BY DEF AsksOfAll, AskTypes, Counters
<1>10. AsksOfAll(Settings)
  BY DEF AsksOfAll, AskTypes, Settings
<1>11. AsksOfAll(Users)
  BY DEF AsksOfAll, AskTypes, Users
<1> QED
  BY <1>1, <1>2, <1>3, <1>4, <1>5, <1>6, <1>7, <1>8, <1>9, <1>10, <1>11 DEF Collections, Collection

\* Alarms and violations are attributes of zones only.
ZonesOwn == {"logical_status", "triggered_alarm"}

LEMMA OnlyZonesOwn ==
  \A k \in Collections \ {"zones"} : \A t \in DOMAIN Collection[k].sets : Collection[k].sets[t] \cap ZonesOwn = {}
<1> DEFINE Other(c) == \A t \in DOMAIN c.sets : c.sets[t] \cap ZonesOwn = {}
<1>1. Other(Panel)
  BY DEF ZonesOwn, Panel
<1>3. Other(Lights)
  BY DEF ZonesOwn, Lights
<1>4. Other(Areas)
  BY DEF ZonesOwn, Areas
<1>5. Other(Tasks)
  BY DEF ZonesOwn, Tasks
<1>6. Other(Keypads)
  BY DEF ZonesOwn, Keypads
<1>7. Other(Outputs)
  BY DEF ZonesOwn, Outputs
<1>8. Other(Thermostats)
  BY DEF ZonesOwn, Thermostats
<1>9. Other(Counters)
  BY DEF ZonesOwn, Counters
<1>10. Other(Settings)
  BY DEF ZonesOwn, Settings
<1>11. Other(Users)
  BY DEF ZonesOwn, Users
<1> HIDE DEF Other
<1>12. \A k \in Collections \ {"zones"} : Other(Collection[k])
  BY <1>1, <1>3, <1>4, <1>5, <1>6, <1>7, <1>8, <1>9, <1>10, <1>11 DEF Collections, Collection
<1> QED
  BY <1>12 DEF Other

\* Every collection but the panel's starts a chain.
LEMMA AllAskNames == \A k \in Collections \ {"panel"} : "SD" \in ToSet(Sync(k))
<1>1. "SD" = Zones.sync[5] /\ 5 \in DOMAIN Zones.sync
  BY DEF Zones
<1>2. "SD" = Lights.sync[2] /\ 2 \in DOMAIN Lights.sync
  BY DEF Lights
<1>3. "SD" = Areas.sync[2] /\ 2 \in DOMAIN Areas.sync
  BY DEF Areas
<1>4. "SD" = Tasks.sync[1] /\ 1 \in DOMAIN Tasks.sync
  BY DEF Tasks
<1>5. "SD" = Keypads.sync[2] /\ 2 \in DOMAIN Keypads.sync
  BY DEF Keypads
<1>6. "SD" = Outputs.sync[2] /\ 2 \in DOMAIN Outputs.sync
  BY DEF Outputs
<1>7. "SD" = Thermostats.sync[1] /\ 1 \in DOMAIN Thermostats.sync
  BY DEF Thermostats
<1>8. "SD" = Counters.sync[1] /\ 1 \in DOMAIN Counters.sync
  BY DEF Counters
<1>9. "SD" = Settings.sync[2] /\ 2 \in DOMAIN Settings.sync
  BY DEF Settings
<1>10. "SD" = Users.sync[1] /\ 1 \in DOMAIN Users.sync
  BY DEF Users
<1> QED
  BY <1>1, <1>2, <1>3, <1>4, <1>5, <1>6, <1>7, <1>8, <1>9, <1>10
  DEF Collections, Collection, Sync, ToSet

\* No message but an SD carries a name, and none is of the type "idle".
LEMMA OnlySDNames ==
  /\ "idle" \notin DOMAIN Carries
  /\ \A t \in DOMAIN Carries : \A x \in Carries[t] : x[2] # "name"
<1>1. "idle" \notin MessageTypes
  BY AllDeclare DEF Declares, MessageTypes
<1>2. ASSUME NEW t \in MessageTypes, NEW x \in Carries[t] PROVE x[2] # "name"
  <2>1. PICK k \in Hearing(t) : x \in {k} \X Collection[k].sets[t]
    BY <1>2 DEF Carries
  <2> QED
    BY <2>1, AllDeclare DEF Declares, Hearing
<1> QED
  BY <1>1, <1>2 DEF Carries

LEMMA CarriesOf ==
  ASSUME NEW k \in Collections, NEW t \in DOMAIN Collection[k].sets, NEW a \in Collection[k].sets[t]
  PROVE  t \in DOMAIN Carries /\ <<k, a>> \in Carries[t]
  BY DEF Carries, MessageTypes, Hearing

LEMMA AreasTellAlarms == "AS" \in DOMAIN Carries /\ <<"areas", "alarm_state">> \in Carries["AS"]
<1>1. "areas" \in Collections /\ Collection["areas"] = Areas
  BY DEF Collections, Collection
<1>2. "AS" \in DOMAIN Areas.sets /\ "alarm_state" \in Areas.sets["AS"]
  BY DEF Areas
<1> QED
  BY <1>1, <1>2, CarriesOf

\* Every message that is asked for has a handler in some collection.
LEMMA AskTypesAreHeard == AskTypes \subseteq MessageTypes
<1> DEFINE Has(k, ts) == k \in Collections /\ ts \subseteq DOMAIN Collection[k].sets
<1>1. Has("zones", {"AZ", "ZD", "ZP", "ZS", "LW", "ZV"})
  BY DEF Collections, Collection, Zones
<1>2. Has("areas", {"AS", "KF"})
  BY DEF Collections, Collection, Areas
<1>3. Has("outputs", {"CS"})
  BY DEF Collections, Collection, Outputs
<1>4. Has("settings", {"CR"})
  BY DEF Collections, Collection, Settings
<1>5. Has("lights", {"PS"})
  BY DEF Collections, Collection, Lights
<1>6. Has("keypads", {"KA"})
  BY DEF Collections, Collection, Keypads
<1>7. Has("panel", {"VN", "SS", "UA"})
  BY DEF Collections, Collection, Panel
<1>8. Has("counters", {"CV"})
  BY DEF Collections, Collection, Counters
<1>9. Has("thermostats", {"TR"})
  BY DEF Collections, Collection, Thermostats
<1>10. \A k, ts : Has(k, ts) => ts \subseteq MessageTypes
  BY DEF MessageTypes
<1>11. "SD" \in MessageTypes
  BY DEF MessageTypes
<1> HIDE DEF Has
<1>12. /\ {"AZ", "ZD", "ZP", "ZS", "LW", "ZV"} \subseteq MessageTypes /\ {"AS", "KF"} \subseteq MessageTypes
       /\ {"CS"} \subseteq MessageTypes /\ {"CR"} \subseteq MessageTypes /\ {"PS"} \subseteq MessageTypes
       /\ {"KA"} \subseteq MessageTypes /\ {"VN", "SS", "UA"} \subseteq MessageTypes
       /\ {"CV"} \subseteq MessageTypes /\ {"TR"} \subseteq MessageTypes
  BY <1>1, <1>2, <1>3, <1>4, <1>5, <1>6, <1>7, <1>8, <1>9, <1>10
<1> QED
  BY <1>11, <1>12 DEF AskTypes

LEMMA SDCarriesNothing == \A x : x \notin Carries["SD"]
<1>1. \A k \in Collections : "SD" \notin DOMAIN Collection[k].sets
  BY AllAskOfAll DEF AsksOfAll
<1>2. "SD" \in MessageTypes /\ Hearing("SD") = {}
  BY <1>1 DEF MessageTypes, Hearing
<1> QED
  BY <1>2 DEF Carries

\* AZ and ZS tell what only zones have.
LEMMA ZonesTellAlarms ==
  /\ "AZ" \in DOMAIN Carries /\ <<"zones", "triggered_alarm">> \in Carries["AZ"]
  /\ "ZS" \in DOMAIN Carries /\ <<"zones", "logical_status">> \in Carries["ZS"]
<1>1. "zones" \in Collections /\ Collection["zones"] = Zones
  BY DEF Collections, Collection
<1>2. /\ "AZ" \in DOMAIN Zones.sets /\ "triggered_alarm" \in Zones.sets["AZ"]
      /\ "ZS" \in DOMAIN Zones.sets /\ "logical_status" \in Zones.sets["ZS"]
  BY DEF Zones
<1> QED
  BY <1>1, <1>2, CarriesOf

LEMMA OwnersAreZones ==
  ASSUME NEW p \in Pair, p[2] \in ZonesOwn
  PROVE  p[1][1] = "zones"
<1>1. <<p[1][1], p[2]>> \in Attribute
  BY DEF Pair, ZonesOwn
<1>2. PICK t \in MessageTypes : <<p[1][1], p[2]>> \in Carries[t]
  BY <1>1 DEF Attribute, Carries
<1>3. PICK k \in Hearing(t) : <<p[1][1], p[2]>> \in {k} \X Collection[k].sets[t]
  BY <1>2 DEF Carries
<1>4. p[1][1] = k /\ p[2] \in Collection[k].sets[t]
  BY <1>3
<1> QED
  BY <1>3, <1>4, OnlyZonesOwn DEF Hearing

LEMMA ElementParts ==
  ASSUME NEW e \in Element
  PROVE  /\ e[1] \in Kinds /\ e[1] \in Collections /\ e[2] \in 0..Size[e[1]] - 1 /\ e[2] \in Nat
         /\ Size[e[1]] \in Nat /\ e = <<e[1], e[2]>> /\ <<e, "name">> \in Pair
<1>1. PICK k \in Kinds : e \in {k} \X (0..Size[k] - 1)
  BY DEF Element
<1>2. Size[k] \in Nat /\ k \in Collections
  BY ElementAssumption DEF ElementAssumption
<1>3. <<e, "name">> \in Pair
  BY DEF Pair
<1> QED
  BY <1>1, <1>2, <1>3

LEMMA ElementIs ==
  ASSUME NEW k \in Kinds, NEW u \in 0..Size[k] - 1
  PROVE  <<k, u>> \in Element
  BY DEF Element

LEMMA LeastOf ==
  ASSUME NEW T \in SUBSET Nat, T # {}
  PROVE  \E k \in T : \A j \in T : k <= j
<1> DEFINE R == OpToRel(<, Nat)
<1>1. IsWellFoundedOn(R, Nat)
  BY NatLessThanWellFounded, Zenon
<1>2. PICK k \in T : \A j \in T : ~(<<j, k>> \in R)
  BY <1>1, WFMin, Zenon
<1>3. R = {pair \in Nat \X Nat : pair[1] < pair[2]}
  BY Zenon DEF OpToRel
<1> HIDE DEF R
<1>4. ASSUME NEW j \in T PROVE k <= j
  <2>1. j \in Nat /\ k \in Nat /\ ~(j < k)
    BY <1>2, <1>3
  <2> QED
    BY <2>1
<1> QED
  BY <1>4

-----------------------------------------------------------------------------
(***************************************************************************)
(* What is asked and what is on the line.                                  *)
(***************************************************************************)

\* Every element with a name, up to the unit, is configured.
Behind(kind, unit) == \A e \in Named : e[1] = kind /\ e[2] < unit => e \in configured

\* An SD request goes on where the chain has come to.
Requests == {a \in [type : AskTypes, kind : Collections, unit : Int] :
               a.type = "SD" => a.kind \in Kinds /\ a.unit \in Nat /\ Behind(a.kind, a.unit)}

Readings == UNION {[S -> Nat] : S \in SUBSET Pair}

\* The element a reply names is the next one after those that are configured;
\* a reply that names none says that there is no further one.
NameReply(m) ==
  \/ m.unit = None /\ \A e \in Named : e[1] = m.kind => e \in configured
  \/ /\ <<m.kind, m.unit>> \in Element /\ Behind(m.kind, m.unit)
     /\ m.values \in [{<<<<m.kind, m.unit>>, "name">>} -> Nat]
     /\ m.kind # "users" \/ <<m.kind, m.unit>> \in Named
          => m.values[<<<<m.kind, m.unit>>, "name">>] > 0

Replies == {m \in [type : LineTypes, kind : Collections, unit : Int, values : Readings, reply : BOOLEAN] :
              IF m.type = "SD" THEN m.kind \in Kinds /\ NameReply(m)
              ELSE \A p \in DOMAIN m.values : <<p[1][1], p[2]>> \in Carries[m.type]}

LEMMA SeqOfMore ==
  ASSUME NEW S, NEW T, S \subseteq T, NEW s \in Seq(S)
  PROVE  s \in Seq(T)
<1>1. Len(s) \in Nat /\ s = [i \in 1..Len(s) |-> s[i]] /\ \A i \in 1..Len(s) : s[i] \in T
  BY LenProperties, ElementOfSeq
<1> QED
  BY <1>1, IsASeq

LEMMA TailOf ==
  ASSUME NEW S, NEW s \in Seq(S), s # <<>>
  PROVE  /\ Tail(s) \in Seq(S) /\ Head(s) = s[1] /\ 1 \in DOMAIN s /\ Head(s) \in S
         /\ \A i \in DOMAIN Tail(s) : i \in Nat /\ i > 0 /\ i + 1 \in DOMAIN s /\ Tail(s)[i] = s[i + 1]
         /\ \A i \in DOMAIN s : i = 1 \/ (i - 1 \in DOMAIN Tail(s) /\ Tail(s)[i - 1] = s[i])
         /\ \A x : x \in ToSet(s) <=> x = Head(s) \/ x \in ToSet(Tail(s))
<1> DEFINE t == Tail(s)
<1>1. t \in Seq(S) /\ Head(s) = s[1] /\ Len(t) = Len(s) - 1 /\ Len(s) \in Nat /\ Len(s) # 0 /\ Head(s) \in S
      /\ \A i \in 1..Len(t) : t[i] = s[i + 1]
  BY HeadTailProperties, EmptySeq, LenProperties
<1>2. DOMAIN s = 1..Len(s) /\ DOMAIN t = 1..Len(t)
  BY <1>1, LenProperties
<1> HIDE DEF t
<1>3. \A i \in DOMAIN t : i \in Nat /\ i > 0 /\ i + 1 \in DOMAIN s /\ t[i] = s[i + 1]
  BY <1>1, <1>2
<1>4. ASSUME NEW i \in DOMAIN s, i # 1 PROVE i - 1 \in DOMAIN t /\ t[i - 1] = s[i]
  <2>1. i - 1 \in 1..Len(t) /\ (i - 1) + 1 = i
    BY <1>1, <1>2, <1>4
  <2> QED
    BY <1>1, <1>2, <2>1
<1>5. 1 \in DOMAIN s
  BY <1>1, <1>2
<1>6. ASSUME NEW i \in DOMAIN s PROVE s[i] = Head(s) \/ s[i] \in ToSet(t)
  <2>1. CASE i = 1
    BY <1>1, <2>1
  <2>2. CASE i # 1
    <3>1. i - 1 \in DOMAIN t /\ t[i - 1] = s[i]
      BY <1>4, <2>2
    <3> QED
      BY <3>1 DEF ToSet
  <2> QED
    BY <2>1, <2>2
<1>7. Head(s) \in ToSet(s)
  BY <1>1, <1>5 DEF ToSet
<1>8. ASSUME NEW i \in DOMAIN t PROVE t[i] \in ToSet(s)
  <2>1. i + 1 \in DOMAIN s /\ t[i] = s[i + 1]
    BY <1>3
  <2> QED
    BY <2>1 DEF ToSet
<1>9. \A x : x \in ToSet(s) <=> x = Head(s) \/ x \in ToSet(t)
  BY <1>6, <1>7, <1>8 DEF ToSet
<1> QED
  BY <1>1, <1>3, <1>4, <1>5, <1>9 DEF t

LEMMA AppendOf ==
  ASSUME NEW S, NEW s \in Seq(S), NEW e \in S, NEW t, t = Append(s, e)
  PROVE  /\ t \in Seq(S) /\ Len(s) \in Nat /\ Len(s) + 1 \in DOMAIN t /\ t[Len(s) + 1] = e
         /\ \A i \in DOMAIN s : i \in DOMAIN t /\ i \in Nat /\ i < Len(s) + 1 /\ t[i] = s[i]
         /\ \A i \in DOMAIN t : i = Len(s) + 1 \/ i \in DOMAIN s
         /\ \A x : x \in ToSet(t) <=> x = e \/ x \in ToSet(s)
<1>1. t \in Seq(S) /\ Len(t) = Len(s) + 1 /\ t[Len(s) + 1] = e /\ \A i \in 1..Len(s) : t[i] = s[i]
  BY AppendProperties
<1>2. DOMAIN s = 1..Len(s) /\ DOMAIN t = 1..Len(t) /\ Len(s) \in Nat
  BY <1>1, LenProperties
<1>3. /\ Len(s) + 1 \in DOMAIN t
      /\ \A i \in DOMAIN s : i \in DOMAIN t /\ i \in Nat /\ i < Len(s) + 1 /\ t[i] = s[i]
      /\ \A i \in DOMAIN t : i = Len(s) + 1 \/ i \in DOMAIN s
  BY <1>1, <1>2
<1>4. \A x : x \in ToSet(t) <=> x = e \/ x \in ToSet(s)
  BY <1>1, <1>3 DEF ToSet
<1> QED
  BY <1>1, <1>2, <1>3, <1>4

LEMMA AppendSet ==
  ASSUME NEW S, NEW s \in Seq(S), NEW e \in S
  PROVE  \A x : x \in ToSet(Append(s, e)) <=> x = e \/ x \in ToSet(s)
  BY AppendOf, ZenonT(60)

LEMMA ConcatOf ==
  ASSUME NEW S, NEW s \in Seq(S), NEW t \in Seq(S)
  PROVE  /\ s \o t \in Seq(S)
         /\ \A i \in DOMAIN (s \o t) : (i \in DOMAIN s /\ (s \o t)[i] = s[i])
                                     \/ (s \o t)[i] \in ToSet(t)
         /\ \A x : x \in ToSet(s \o t) <=> x \in ToSet(s) \/ x \in ToSet(t)
<1> DEFINE u == s \o t
<1>1. u \in Seq(S) /\ Len(u) = Len(s) + Len(t)
      /\ \A i \in 1..Len(s) + Len(t) : u[i] = IF i <= Len(s) THEN s[i] ELSE t[i - Len(s)]
  BY ConcatProperties
<1>2. DOMAIN s = 1..Len(s) /\ DOMAIN t = 1..Len(t) /\ DOMAIN u = 1..Len(u) /\ Len(s) \in Nat /\ Len(t) \in Nat
  BY <1>1, LenProperties
<1> HIDE DEF u
<1>3. ASSUME NEW i \in DOMAIN u PROVE (i \in DOMAIN s /\ u[i] = s[i]) \/ u[i] \in ToSet(t)
  <2>1. CASE i <= Len(s)
    BY <1>1, <1>2, <2>1
  <2>2. CASE ~(i <= Len(s))
    <3>1. i - Len(s) \in DOMAIN t /\ u[i] = t[i - Len(s)]
      BY <1>1, <1>2, <2>2
    <3> QED
      BY <3>1 DEF ToSet
  <2> QED
    BY <2>1, <2>2
<1>4. ASSUME NEW i \in DOMAIN s PROVE s[i] \in ToSet(u)
  <2>1. i \in DOMAIN u /\ u[i] = s[i]
    BY <1>1, <1>2
  <2> QED
    BY <2>1 DEF ToSet
<1>5. ASSUME NEW i \in DOMAIN t PROVE t[i] \in ToSet(u)
  <2>1. i + Len(s) \in DOMAIN u /\ u[i + Len(s)] = t[i]
    BY <1>1, <1>2
  <2> QED
    BY <2>1 DEF ToSet
<1>6. \A x : x \in ToSet(u) <=> x \in ToSet(s) \/ x \in ToSet(t)
  BY <1>3, <1>4, <1>5 DEF ToSet
<1> QED
  BY <1>1, <1>3, <1>6 DEF u

\* What has been asked and answered stays right when more is configured.
LEMMA MoreIsConfigured ==
  ASSUME configured \subseteq configured'
  PROVE  /\ Requests \subseteq Requests' /\ Seq(Requests) \subseteq Seq(Requests')
         /\ Replies \subseteq Replies' /\ Seq(Replies) \subseteq Seq(Replies')
<1>1. \A k, u : Behind(k, u) => Behind(k, u)'
  BY DEF Behind
<1>2. Requests \subseteq Requests'
  BY <1>1 DEF Requests
<1>3. \A m : NameReply(m) => NameReply(m)'
  BY <1>1 DEF NameReply
<1>4. Replies \subseteq Replies'
  BY <1>3 DEF Replies
<1> QED
  BY <1>2, <1>4, SeqOfMore

\* Requests that begin a chain or belong to none.
Starts == {a \in Requests : a.type = "SD" => a.unit = 0}

LEMMA StartsAreRequests == Starts \subseteq Requests /\ Seq(Starts) \subseteq Seq(Requests)
  BY SeqOfMore DEF Starts

\* A request without a chain.
LEMMA PlainRequest ==
  ASSUME NEW type \in AskTypes \ {"SD"}, NEW kind \in Collections, NEW unit \in Int
  PROVE  Ask(type, kind, unit) \in Starts
  BY DEF Ask, Requests, Starts

LEMMA FirstRequest ==
  ASSUME NEW type \in AskTypes, NEW kind \in Kinds
  PROVE  Ask(type, kind, 0) \in Starts
<1>1. kind \in Collections
  BY ElementAssumption DEF ElementAssumption
<1>2. ASSUME NEW e \in Named PROVE ~(e[2] < 0)
  <2>1. e[2] \in Nat
    BY ElementParts, ElementAssumption DEF ElementAssumption
  <2> QED
    BY <2>1
<1>3. Behind(kind, 0)
  BY <1>2 DEF Behind
<1> QED
  BY <1>1, <1>3 DEF Ask, Requests, Starts

LEMMA SyncOfType ==
  ASSUME NEW k \in Collections
  PROVE  SyncOf(k) \in Seq(Starts)
<1>1. CASE k \in Kinds
  <2>1. Sync(k) \in Seq(AskTypes)
    BY AllDeclare DEF Declares, Sync
  <2>2. Len(Sync(k)) \in Nat /\ DOMAIN Sync(k) = 1..Len(Sync(k))
        /\ \A j \in 1..Len(Sync(k)) : Sync(k)[j] \in AskTypes
    BY <2>1, LenProperties, ElementOfSeq
  <2>3. SyncOf(k) = [j \in 1..Len(Sync(k)) |-> Ask(Sync(k)[j], k, 0)]
    BY <1>1, <2>2 DEF SyncOf
  <2>4. \A j \in 1..Len(Sync(k)) : Ask(Sync(k)[j], k, 0) \in Starts
    BY <1>1, <2>2, FirstRequest
  <2> QED
    BY <2>2, <2>3, <2>4, IsASeq
<1>2. CASE k \notin Kinds
  BY <1>2 DEF SyncOf
<1> QED
  BY <1>1, <1>2

LEMMA ResyncType == Resync \in Seq(Starts)
<1>1. \A s, t \in Seq(Starts) : s \o t \in Seq(Starts)
  BY ConcatProperties
<1>2. SyncRequests \in Seq(Starts)
  BY <1>1, SyncOfType DEF SyncRequests, Collections
<1>3. Ask("UA", "panel", 0) \in Starts
  BY PlainRequest DEF AskTypes, Collections
<1>4. <<Ask("UA", "panel", 0)>> \in Seq(Starts)
  BY <1>3
<1> QED
  BY <1>1, <1>2, <1>4 DEF Resync

LEMMA PolledType ==
  ASSUME NEW type \in AskTypes \ {"SD"}, NEW kind \in Collections
  PROVE  Polled(type, kind) \in Seq(Starts)
<1>1. Ask(type, kind, 0) \in Starts
  BY PlainRequest
<1> QED
  BY <1>1 DEF Polled

LEMMA VoltagesType ==
  /\ Voltages \in Seq(Starts)
  /\ \A e \in Analog : Ask("ZV", "zones", e[2]) \in ToSet(Voltages)
<1> DEFINE S == {Ask("ZV", "zones", e[2]) : e \in Analog}
<1>1. S \subseteq Starts
  <2>1. "ZV" \in AskTypes \ {"SD"} /\ "zones" \in Collections
    BY DEF AskTypes, Collections
  <2>2. ASSUME NEW e \in Analog PROVE e[2] \in Int
    <3>1. e \in Element
      BY ElementAssumption DEF ElementAssumption
    <3>2. e[2] \in Nat
      BY <3>1, ElementParts
    <3> QED
      BY <3>2
  <2> QED
    BY <2>1, <2>2, PlainRequest
<1>2. IsFiniteSet(S)
  <2>1. [e \in Analog |-> Ask("ZV", "zones", e[2])] \in Surjection(Analog, S)
    BY DEF Surjection
  <2> HIDE DEF S
  <2> QED
    BY <2>1, FS_Surjection, ElementAssumption DEF ElementAssumption
<1>3. Cardinality(S) \in Nat /\ ExistsBijection(1..Cardinality(S), S)
  BY <1>2, FS_CardinalityType
<1> HIDE DEF S
<1>4. \E f \in [1..Cardinality(S) -> S] : IsInjective(f)
  BY <1>3 DEF ExistsBijection, Bijection, Injection, IsInjective
<1>5. SetToSeq(S) \in [1..Cardinality(S) -> S]
  BY <1>4 DEF SetToSeq
<1>6. SetToSeq(S) \in Seq(S)
  BY <1>3, <1>5
<1>7. IsInjective(SetToSeq(S))
  BY <1>4 DEF SetToSeq
<1>8. SetToSeq(S) \in Surjection(1..Cardinality(S), S)
  <2>1. SetToSeq(S) \in Injection(1..Cardinality(S), S)
    BY <1>5, <1>7 DEF Injection, IsInjective
  <2>2. Cardinality(1..Cardinality(S)) = Cardinality(S)
    BY <1>3, FS_Interval
  <2> QED
    BY <1>2, <2>1, <2>2, FS_Injection
<1>9. \A x \in S : x \in ToSet(SetToSeq(S))
  BY <1>5, <1>8 DEF Surjection, ToSet
<1>10. Voltages = SetToSeq(S)
  BY DEF Voltages, S
<1>11. \A e \in Analog : Ask("ZV", "zones", e[2]) \in S
  BY DEF S
<1> QED
  BY <1>1, <1>6, <1>9, <1>10, <1>11, SeqOfMore

LEMMA FollowUpsType ==
  ASSUME NEW m
  PROVE  FollowUps(m) \in Seq(Starts)
<1>1. Ask("AZ", "zones", 0) \in Starts /\ Ask("ZS", "zones", 0) \in Starts
  BY PlainRequest DEF AskTypes, Collections
<1>2. /\ <<Ask("AZ", "zones", 0)>> \in Seq(Starts) /\ <<Ask("ZS", "zones", 0)>> \in Seq(Starts)
      /\ <<>> \in Seq(Starts)
  BY <1>1
<1>3. Voltages \in Seq(Starts)
  BY VoltagesType
<1>4. FollowUps(m) \in {<<Ask("AZ", "zones", 0)>>, <<Ask("ZS", "zones", 0)>>, Voltages, <<>>}
  BY DEF FollowUps
<1> QED
  BY <1>2, <1>3, <1>4

\* The panel and what the panel says.
PanelInv ==
  /\ panel \in [Pair -> Nat]
  /\ \A e \in Named : panel[<<e, "name">>] > 0

\* The next element with a name, if there is one.
LEMMA NextNamedIs ==
  ASSUME NEW kind \in Kinds, NEW unit \in Nat, NEW u, u = NextNamed(kind, unit)
  PROVE  \/ /\ u = None
            /\ \A e \in Element : e[1] = kind /\ e[2] >= unit => ~(panel[<<e, "name">>] > 0)
         \/ /\ u \in Nat /\ <<kind, u>> \in Element
            /\ kind = "users" \/ panel[<<<<kind, u>>, "name">>] > 0
            /\ \A e \in Element : e[1] = kind /\ e[2] >= unit /\ e[2] < u => ~(panel[<<e, "name">>] > 0)
<1> DEFINE found == {e \in Element : e[1] = kind /\ e[2] >= unit
                                     /\ (kind = "users" \/ panel[<<e, "name">>] > 0)}
           Least(v) == <<kind, v>> \in found /\ \A e \in found : v <= e[2]
<1>1. u = IF found = {} THEN None ELSE CHOOSE v \in 0..Size[kind] - 1 : Least(v)
  BY DEF NextNamed
<1>2. CASE found = {}
  BY <1>1, <1>2
<1>3. CASE found # {}
  <2> DEFINE T == {e[2] : e \in found}
  <2>1. T \in SUBSET Nat /\ T # {}
    BY <1>3, ElementParts
  <2>2. PICK k \in T : \A j \in T : k <= j
    <3> HIDE DEF T
    <3> QED
      BY <2>1, LeastOf
  <2>3. PICK e \in found : e[2] = k
    BY <2>2
  <2>4. e = <<kind, k>> /\ k \in 0..Size[kind] - 1
    BY <2>3, ElementParts
  <2>5. Least(k)
    BY <2>2, <2>3, <2>4
  <2> HIDE DEF Least
  <2>6. u \in 0..Size[kind] - 1 /\ Least(u)
    BY <1>1, <1>3, <2>4, <2>5
  <2> USE DEF Least
  <2>7. <<kind, u>> \in found
    BY <2>6
  <2>8. u \in Nat
    BY <2>7, ElementParts
  <2>9. ASSUME NEW f \in Element, f[1] = kind, f[2] >= unit, f[2] < u, panel[<<f, "name">>] > 0
        PROVE  FALSE
    <3>1. u <= f[2]
      BY <2>6, <2>9
    <3>2. f[2] \in Nat
      BY ElementParts
    <3> QED
      BY <2>8, <2>9, <3>1, <3>2
  <2> QED
    BY <2>7, <2>8, <2>9
<1> QED
  BY <1>2, <1>3

LEMMA ValuesType ==
  ASSUME panel \in [Pair -> Nat], NEW type, NEW es
  PROVE  /\ Values(type, es) \in Readings
         /\ \A p \in DOMAIN Values(type, es) : <<p[1][1], p[2]>> \in Carries[type]
<1> DEFINE S == {q \in Pair : q[1] \in es /\ <<q[1][1], q[2]>> \in Carries[type]}
<1>1. Values(type, es) = [p \in S |-> panel[p]]
  BY DEF Values
<1>2. Values(type, es) \in [S -> Nat] /\ S \in SUBSET Pair
  BY <1>1
<1> QED
  BY <1>1, <1>2 DEF Readings

LEMMA AnswerType ==
  ASSUME PanelInv, NEW ask \in Requests
  PROVE  Answer(ask) \in Replies
<1>1. CASE ask.type = "SD"
  <2> DEFINE k == ask.kind
             u == NextNamed(k, ask.unit)
             p == <<<<k, u>>, "name">>
             D == IF u = None THEN {} ELSE {p}
             v == [q \in D |-> panel[q]]
  <2>1. k \in Kinds /\ k \in Collections /\ ask.unit \in Nat /\ Behind(k, ask.unit)
    BY <1>1 DEF Requests
  <2>2. Answer(ask) = [type |-> "SD", kind |-> k, unit |-> u, values |-> v, reply |-> TRUE]
    BY <1>1 DEF Answer, Message
  <2>3. \/ /\ u = None
           /\ \A e \in Element : e[1] = k /\ e[2] >= ask.unit => ~(panel[<<e, "name">>] > 0)
        \/ /\ u \in Nat /\ <<k, u>> \in Element
           /\ k = "users" \/ panel[p] > 0
           /\ \A e \in Element : e[1] = k /\ e[2] >= ask.unit /\ e[2] < u => ~(panel[<<e, "name">>] > 0)
    BY <2>1, NextNamedIs
  <2> HIDE DEF u
  <2>4. ASSUME NEW e \in Named, e[1] = k, u = None \/ e[2] < u PROVE e \in configured
    <3>1. e \in Element /\ panel[<<e, "name">>] > 0
      BY ElementAssumption DEF ElementAssumption, PanelInv
    <3>2. e[2] \in Nat
      BY <3>1, ElementParts
    <3>3. ~(e[2] >= ask.unit)
      BY <2>3, <2>4, <3>1 DEF None
    <3>4. e[2] < ask.unit
      BY <2>1, <3>2, <3>3
    <3> QED
      BY <2>1, <2>4, <3>4 DEF Behind
  <2>5. CASE u = None
    <3>1. v \in [{} -> Nat] /\ {} \in SUBSET Pair
      BY <2>5
    <3>2. v \in Readings
      <4> HIDE DEF v
      <4> QED
        BY <3>1 DEF Readings
    <3>3. u \in Int
      BY <2>5 DEF None
    <3> HIDE DEF v, k
    <3>4. NameReply(Answer(ask))
      BY <2>2, <2>4, <2>5 DEF NameReply
    <3> QED
      BY <2>1, <2>2, <3>2, <3>3, <3>4 DEF Replies, LineTypes, AskTypes
  <2>6. CASE u # None
    <3>1. u \in Nat /\ <<k, u>> \in Element /\ p \in Pair
      BY <2>3, <2>6, ElementParts
    <3>2. panel[p] \in Nat
      BY <3>1 DEF PanelInv
    <3>3. v \in [{p} -> Nat] /\ v[p] = panel[p]
      BY <2>6, <3>2
    <3>4. v \in Readings
      BY <3>1, <3>3 DEF Readings
    <3>5. k # "users" \/ <<k, u>> \in Named => v[p] > 0
      BY <2>3, <2>6, <3>3 DEF PanelInv
    <3>6. Behind(k, u)
      BY <2>4 DEF Behind
    <3> HIDE DEF v, k
    <3>7. NameReply(Answer(ask))
      BY <2>2, <3>1, <3>3, <3>5, <3>6 DEF NameReply
    <3> QED
      BY <2>1, <2>2, <3>1, <3>4, <3>7 DEF Replies, LineTypes, AskTypes
  <2> QED
    BY <2>5, <2>6
<1>2. CASE ask.type # "SD"
  <2> DEFINE es == IF ask.type \in {"CV", "TR", "ZV"} THEN {<<ask.kind, ask.unit>>} ELSE Element
  <2>1. Answer(ask) = [type |-> ask.type, kind |-> ask.kind, unit |-> ask.unit,
                       values |-> Values(ask.type, es), reply |-> TRUE]
    BY <1>2 DEF Answer, Message
  <2>2. /\ Values(ask.type, es) \in Readings
        /\ \A p \in DOMAIN Values(ask.type, es) : <<p[1][1], p[2]>> \in Carries[ask.type]
    BY ValuesType DEF PanelInv
  <2>3. ask.type \in LineTypes /\ ask.kind \in Collections /\ ask.unit \in Int
    BY DEF Requests, LineTypes
  <2> QED
    BY <1>2, <2>1, <2>2, <2>3 DEF Replies
<1> QED
  BY <1>1, <1>2

-----------------------------------------------------------------------------
(***************************************************************************)
(* The chains of names.                                                    *)
(***************************************************************************)
ChainInv ==
  /\ mirror \in [Pair -> Nat]
  /\ configured \subseteq Element /\ \A e \in Element : e[1] = "panel" => e \in configured
  /\ textDesc \in [Kinds -> BOOLEAN]
  /\ queue \in Seq(Requests) /\ line \in Seq(Replies)
  /\ NamesComplete

\* A step that asks and answers nothing, and configures nothing.
LEMMA ChainStutter ==
  ASSUME ChainInv, UNCHANGED <<hubVars, queue, line, opened>>
  PROVE  ChainInv'
<1>1. Requests' = Requests /\ Replies' = Replies
  BY DEF Requests, Replies, NameReply, Behind, hubVars
<1> QED
  BY <1>1 DEF ChainInv, NamesComplete, hubVars

\* A step that asks or answers, and configures nothing.
LEMMA ChainGoesOn ==
  ASSUME ChainInv, UNCHANGED <<hubVars, opened>>, queue' \in Seq(Requests), line' \in Seq(Replies)
  PROVE  ChainInv'
<1>1. Requests' = Requests /\ Replies' = Replies
  BY DEF Requests, Replies, NameReply, Behind, hubVars
<1> QED
  BY <1>1 DEF ChainInv, NamesComplete, hubVars

LEMMA BroadcastIs ==
  ASSUME PanelInv', NEW type \in LineTypes \ {"SD"}, NEW kind \in Collections,
         NEW unit \in Int, NEW es, Broadcasts(type, kind, unit, es)
  PROVE  \E m \in Replies :
           /\ line' = Append(line, m) /\ m.type = type /\ m.unit = unit /\ ~m.reply
           /\ DOMAIN m.values = {q \in Pair : q[1] \in es /\ <<q[1][1], q[2]>> \in Carries[type]}
           /\ \A p \in DOMAIN m.values : m.values[p] = panel'[p]
<1> DEFINE S == {q \in Pair : q[1] \in es /\ <<q[1][1], q[2]>> \in Carries[type]}
           v == [p \in S |-> panel'[p]]
           m == [type |-> type, kind |-> kind, unit |-> unit, values |-> v, reply |-> FALSE]
<1>1. line' = Append(line, m)
  BY DEF Broadcasts, Message, Values
<1>2. v \in [S -> Nat] /\ S \in SUBSET Pair
  BY DEF PanelInv
<1>3. v \in Readings /\ DOMAIN v = S /\ \A p \in S : <<p[1][1], p[2]>> \in Carries[type] /\ v[p] = panel'[p]
  BY <1>2 DEF Readings
<1> HIDE DEF v, S
<1>4. m \in Replies
  BY <1>3 DEF Replies
<1>5. m.type = type /\ m.unit = unit /\ ~m.reply /\ m.values = v
  OBVIOUS
<1> HIDE DEF m
<1> QED
  BY <1>1, <1>3, <1>4, <1>5 DEF S

\* What the panel changes stays a number, and no name is taken away.
LEMMA ChangesKeepPanel ==
  ASSUME PanelInv, NEW pairs, Changes(pairs)
  PROVE  PanelInv'
<1>1. panel' = [p \in Pair |-> IF p \in pairs THEN panel[p] + 1 ELSE panel[p]]
  BY DEF Changes
<1>2. ASSUME NEW p \in Pair PROVE panel'[p] \in Nat /\ (panel[p] > 0 => panel'[p] > 0)
  <2>1. panel[p] \in Nat
    BY DEF PanelInv
  <2> QED
    BY <1>1, <2>1
<1>3. \A e \in Named : <<e, "name">> \in Pair
  BY ElementParts, ElementAssumption, ZenonT(60) DEF ElementAssumption
<1> QED
  BY <1>1, <1>2, <1>3 DEF PanelInv

LEMMA PanelStep == PanelInv /\ [Next]_vars => PanelInv'
<1> SUFFICES ASSUME PanelInv, [Next]_vars PROVE PanelInv'
  OBVIOUS
<1>1. ASSUME UNCHANGED panel PROVE PanelInv'
  BY <1>1 DEF PanelInv
<1> QED
  BY <1>1, ChangesKeepPanel DEF Next, vars, Serve, Lose, PanelReports, PanelProgrammed, PanelAlarms,
     PanelBypassesAll, ReadStatus, ReadName, ReadNoName, ReadInstallerExit, Connected, PollBegins,
     PollEnds, PollTimesOut

PanelChanges ==
  \/ \E e \in Element : PanelReports(e) \/ PanelProgrammed(e)
  \/ \E area, zone \in Element : PanelAlarms(area, zone)
  \/ PanelBypassesAll

\* What a change of the panel's is reported by: the value itself, or a message
\* that makes the hub ask for it.
Tells(m, p) ==
  \/ p \in DOMAIN m.values
  \/ m.type = "IE"
  \/ /\ p[2] = "triggered_alarm" /\ m.type = "AS"
     /\ \E a \in DOMAIN m.values : a[2] = "alarm_state" /\ m.values[a] = panel[a] + 1
  \/ p[2] = "logical_status" /\ m.type = "ZB" /\ m.unit = None

Told(m) ==
  /\ m \in Replies /\ line' = Append(line, m) /\ m.type # "SD" /\ ~m.reply
  /\ \A p \in DOMAIN m.values : m.values[p] = panel'[p]
  /\ \A p \in Pair : panel[p] <= panel'[p] /\ (panel'[p] # panel[p] => Tells(m, p))
  /\ UNCHANGED <<hubVars, opened, queue, lost>>

LEMMA ChangesTold ==
  ASSUME PanelInv, PanelInv', PanelChanges
  PROVE  \E m : Told(m)
<1>1. /\ {"IE", "AS", "ZB"} \subseteq LineTypes \ {"SD"} /\ {"panel", "areas", "zones"} \subseteq Collections
      /\ 0 \in Int /\ None \in Int
  BY DEF LineTypes, AskTypes, Collections, None
<1>2. ASSUME NEW pairs, Changes(pairs)
      PROVE  /\ UNCHANGED <<hubVars, opened, queue, lost>>
             /\ \A p \in Pair : panel[p] <= panel'[p] /\ (panel'[p] # panel[p] => p \in pairs)
             /\ \A p \in Pair : p \in pairs => panel'[p] = panel[p] + 1
  <2>1. panel' = [p \in Pair |-> IF p \in pairs THEN panel[p] + 1 ELSE panel[p]]
        /\ UNCHANGED <<hubVars, opened, queue, lost>>
    BY <1>2 DEF Changes
  <2>2. ASSUME NEW p \in Pair
        PROVE  /\ panel[p] <= panel'[p] /\ (panel'[p] # panel[p] => p \in pairs)
               /\ (p \in pairs => panel'[p] = panel[p] + 1)
    <3>1. panel[p] \in Nat
      BY DEF PanelInv
    <3> QED
      BY <2>1, <3>1
  <2> QED
    BY <2>1, <2>2
<1>3. ASSUME NEW e \in Element, PanelReports(e) PROVE \E m : Told(m)
  <2>1. PICK type \in Collection[e[1]].report :
          /\ Changes({p \in Pair : p[1] = e /\ <<e[1], p[2]>> \in Carries[type]})
          /\ Broadcasts(type, e[1], e[2], {e})
    BY <1>3 DEF PanelReports
  <2>2. e[1] \in Collections /\ e[2] \in Nat
    BY ElementParts
  <2>3. type \in LineTypes \ {"SD"} /\ e[2] \in Int
    BY <2>1, <2>2, AllDeclare DEF Declares
  <2>4. PICK m \in Replies :
          /\ line' = Append(line, m) /\ m.type = type /\ m.unit = e[2] /\ ~m.reply
          /\ DOMAIN m.values = {q \in Pair : q[1] \in {e} /\ <<q[1][1], q[2]>> \in Carries[type]}
          /\ \A p \in DOMAIN m.values : m.values[p] = panel'[p]
    BY <2>1, <2>2, <2>3, BroadcastIs, SMTT(60)
  <2>5. \A p \in Pair : panel'[p] # panel[p] => p \in DOMAIN m.values
    BY <1>2, <2>1, <2>4
  <2>6. \A p \in Pair : panel[p] <= panel'[p]
    BY <1>2, <2>1
  <2> QED
    BY <1>2, <2>1, <2>3, <2>4, <2>5, <2>6 DEF Told, Tells
<1>4. ASSUME NEW e \in Element, PanelProgrammed(e) PROVE \E m : Told(m)
  <2>1. PICK pairs : Changes(pairs) /\ Broadcasts("IE", "panel", 0, {})
    BY <1>4 DEF PanelProgrammed
  <2>2. PICK m \in Replies :
          /\ line' = Append(line, m) /\ m.type = "IE" /\ ~m.reply
          /\ \A p \in DOMAIN m.values : m.values[p] = panel'[p]
    BY <1>1, <2>1, BroadcastIs
  <2>3. \A p \in Pair : panel[p] <= panel'[p]
    BY <1>2, <2>1
  <2> QED
    BY <1>2, <2>1, <2>2, <2>3 DEF Told, Tells
<1>5. ASSUME NEW area \in Element, NEW zone \in Element, PanelAlarms(area, zone) PROVE \E m : Told(m)
  <2> DEFINE a == <<area, "alarm_state">>
             pairs == {a, <<zone, "triggered_alarm">>}
  <2>1. Changes(pairs) /\ Broadcasts("AS", "areas", 0, Element) /\ area[1] = "areas"
    BY <1>5 DEF PanelAlarms
  <2>2. PICK m \in Replies :
          /\ line' = Append(line, m) /\ m.type = "AS" /\ ~m.reply
          /\ DOMAIN m.values = {q \in Pair : q[1] \in Element /\ <<q[1][1], q[2]>> \in Carries["AS"]}
          /\ \A p \in DOMAIN m.values : m.values[p] = panel'[p]
    BY <1>1, <2>1, BroadcastIs
  <2>3. <<"areas", "alarm_state">> \in Carries["AS"] /\ "AS" \in DOMAIN Carries
    BY AreasTellAlarms
  <2>4. a \in Pair /\ a \in DOMAIN m.values
    BY <2>1, <2>2, <2>3 DEF Pair, Attribute
  <2>5. m.values[a] = panel[a] + 1
    BY <1>2, <2>1, <2>2, <2>4
  <2>6. ASSUME NEW p \in Pair, panel'[p] # panel[p] PROVE Tells(m, p)
    <3>1. p \in pairs
      BY <1>2, <2>1, <2>6
    <3>2. CASE p = a
      BY <2>4, <3>2 DEF Tells
    <3>3. CASE p = <<zone, "triggered_alarm">>
      <4>1. p[2] = "triggered_alarm" /\ a[2] = "alarm_state"
        BY <3>3
      <4> HIDE DEF a
      <4> QED
        BY <2>2, <2>4, <2>5, <4>1 DEF Tells
    <3> QED
      BY <3>1, <3>2, <3>3
  <2>7. \A p \in Pair : panel[p] <= panel'[p]
    BY <1>2, <2>1
  <2> QED
    BY <1>2, <2>1, <2>2, <2>6, <2>7 DEF Told
<1>6. ASSUME PanelBypassesAll PROVE \E m : Told(m)
  <2> DEFINE pairs == {p \in Pair : p[2] = "logical_status"}
  <2>1. Changes(pairs) /\ Broadcasts("ZB", "zones", None, {})
    BY <1>6 DEF PanelBypassesAll
  <2> DEFINE none == None
  <2>0. none \in Int /\ "ZB" \in LineTypes \ {"SD"} /\ "zones" \in Collections
        /\ Broadcasts("ZB", "zones", none, {})
    BY <1>1, <2>1
  <2> HIDE DEF none
  <2>2. PICK m \in Replies :
          /\ line' = Append(line, m) /\ m.type = "ZB" /\ m.unit = none /\ ~m.reply
          /\ \A p \in DOMAIN m.values : m.values[p] = panel'[p]
    BY <2>0, BroadcastIs
  <2>3. \A p \in Pair : panel[p] <= panel'[p] /\ (panel'[p] # panel[p] => p \in pairs)
    BY <1>2, <2>1
  <2> QED
    BY <1>2, <2>1, <2>2, <2>3 DEF Told, Tells, none
<1> QED
  BY <1>3, <1>4, <1>5, <1>6 DEF PanelChanges

LEMMA ChangesGoOn ==
  ASSUME PanelInv, PanelInv', ChainInv, PanelChanges
  PROVE  ChainInv'
<1>1. PICK m \in Replies : line' = Append(line, m) /\ UNCHANGED <<hubVars, opened, queue>>
  BY ChangesTold DEF Told
<1>2. line' \in Seq(Replies)
  BY <1>1, AppendProperties DEF ChainInv
<1> QED
  BY <1>1, <1>2, ChainGoesOn DEF ChainInv

LEMMA UpdatedType ==
  ASSUME mirror \in [Pair -> Nat], NEW values \in Readings
  PROVE  Updated(values) \in [Pair -> Nat]
<1>1. PICK S \in SUBSET Pair : values \in [S -> Nat]
  BY DEF Readings
<1> QED
  BY <1>1 DEF Updated

LEMMA ServeGoesOn ==
  ASSUME PanelInv, ChainInv, Serve
  PROVE  ChainInv'
<1>1. queue \in Seq(Requests) /\ queue # <<>> /\ line \in Seq(Replies)
  BY DEF ChainInv, Serve
<1>2. Head(queue) \in Requests /\ Tail(queue) \in Seq(Requests)
  BY <1>1, HeadTailProperties
<1>3. Answer(Head(queue)) \in Replies
  BY <1>2, AnswerType
<1>4. line' \in Seq(Replies) /\ queue' \in Seq(Requests)
  BY <1>1, <1>2, <1>3, AppendProperties DEF Serve
<1> QED
  BY <1>4, ChainGoesOn DEF Serve, countVars

LEMMA LoseGoesOn ==
  ASSUME ChainInv, Lose
  PROVE  ChainInv'
<1>1. line \in Seq(Replies) /\ line # <<>> /\ queue \in Seq(Requests)
  BY DEF ChainInv, Lose
<1>2. line' \in Seq(Replies) /\ queue' \in Seq(Requests)
  BY <1>1, HeadTailProperties DEF Lose
<1> QED
  BY <1>2, ChainGoesOn DEF Lose

\* What a handler reads is an answer to what was asked.
LEMMA HeadIsReply ==
  ASSUME ChainInv, line # <<>>
  PROVE  Head(line) \in Replies /\ Tail(line) \in Seq(Replies)
<1> QED
  BY HeadTailProperties DEF ChainInv

LEMMA StatusGoesOn ==
  ASSUME ChainInv, ReadStatus
  PROVE  ChainInv'
<1> DEFINE m == Head(line)
<1>1. /\ line # <<>> /\ line' = Tail(line) /\ m.type # "SD"
      /\ mirror' = Updated(m.values) /\ queue' = queue \o FollowUps(m)
      /\ UNCHANGED <<configured, textDesc, opened>>
  BY DEF ReadStatus, Read, countVars
<1>2. m \in Replies /\ line' \in Seq(Replies)
  BY <1>1, HeadIsReply
<1>3. mirror' \in [Pair -> Nat]
  <2>1. m.values \in Readings
    BY <1>2 DEF Replies
  <2> QED
    BY <1>1, <2>1, UpdatedType DEF ChainInv
<1>4. queue' \in Seq(Requests)
  <2>1. FollowUps(m) \in Seq(Requests)
    BY FollowUpsType, StartsAreRequests
  <2> QED
    BY <1>1, <2>1, ConcatProperties DEF ChainInv
<1>5. Seq(Requests) = Seq(Requests)' /\ Seq(Replies) = Seq(Replies)'
  BY <1>1 DEF Requests, Replies, NameReply, Behind
<1> QED
  BY <1>1, <1>2, <1>3, <1>4, <1>5 DEF ChainInv, NamesComplete

LEMMA NoNameGoesOn ==
  ASSUME ChainInv, ReadNoName
  PROVE  ChainInv'
<1> DEFINE m == Head(line)
<1>1. /\ line # <<>> /\ line' = Tail(line) /\ m.type = "SD" /\ (textDesc[m.kind] => m.unit = None)
      /\ textDesc' = [textDesc EXCEPT ![m.kind] = FALSE]
      /\ UNCHANGED <<mirror, configured, queue, opened>>
  BY DEF ReadNoName, Read, countVars
<1>2. m \in Replies /\ line' \in Seq(Replies)
  BY <1>1, HeadIsReply
<1>3. m.kind \in Kinds /\ NameReply(m)
  BY <1>1, <1>2 DEF Replies
<1>4. textDesc' \in [Kinds -> BOOLEAN]
  BY <1>1, <1>3 DEF ChainInv
<1>5. Seq(Requests) = Seq(Requests)' /\ Seq(Replies) = Seq(Replies)'
  BY <1>1 DEF Requests, Replies, NameReply, Behind
<1>6. ASSUME opened, NEW e \in Named, ~textDesc'[e[1]] PROVE e \in configured
  <2>1. textDesc[e[1]] \/ e \in configured
    BY <1>6 DEF ChainInv, NamesComplete
  <2>2. CASE e[1] = m.kind /\ textDesc[m.kind]
    <3>1. m.unit = None
      BY <1>1, <2>2
    <3>2. <<m.kind, m.unit>> \notin Element
      <4>1. ASSUME <<m.kind, m.unit>> \in Element PROVE FALSE
        <5>1. m.unit \in Nat
          BY <4>1, ElementParts
        <5> QED
          BY <3>1, <5>1 DEF None
      <4> QED
        BY <4>1
    <3> QED
      BY <1>3, <2>2, <3>2 DEF NameReply
  <2>3. CASE e[1] # m.kind
    <3>1. e[1] \in Kinds
      BY ElementParts, ElementAssumption DEF ElementAssumption
    <3> QED
      BY <1>1, <1>6, <2>1, <2>3, <3>1 DEF ChainInv
  <2> QED
    BY <2>1, <2>2, <2>3
<1> QED
  BY <1>1, <1>2, <1>4, <1>5, <1>6 DEF ChainInv, NamesComplete

\* A name configures its element, and the chain goes on behind it.
LEMMA NameGoesOn ==
  ASSUME ChainInv, ReadName
  PROVE  ChainInv' /\ configured \subseteq configured'
<1> DEFINE m == Head(line)
           e == <<m.kind, m.unit>>
           named == m.kind # "users" \/ m.values[<<e, "name">>] > 0
           more == [j \in DOMAIN OnConfigured(e) |-> Ask(OnConfigured(e)[j], m.kind, m.unit)]
<1>1. /\ line # <<>> /\ line' = Tail(line) /\ m.type = "SD" /\ m.unit # None
      /\ mirror' = (IF named THEN Updated(m.values) ELSE mirror)
      /\ configured' = (IF named THEN configured \cup {e} ELSE configured)
      /\ queue' = NextName(m) \o (IF named THEN more ELSE <<>>) \o queue
      /\ UNCHANGED <<textDesc, opened>>
  <2>1. /\ line # <<>> /\ line' = Tail(line) /\ m.type = "SD" /\ m.unit # None
        /\ UNCHANGED <<textDesc, opened>>
    BY ZenonT(60) DEF ReadName, Read, countVars
  <2>2. mirror' = (IF named THEN Updated(m.values) ELSE mirror)
    BY ZenonT(60) DEF ReadName
  <2>3. configured' = (IF named THEN configured \cup {e} ELSE configured)
    BY ZenonT(60) DEF ReadName
  <2>4. queue' = NextName(m) \o (IF named THEN more ELSE <<>>) \o queue
    BY ZenonT(60) DEF ReadName
  <2> QED
    BY <2>1, <2>2, <2>3, <2>4, Zenon
<1>2. m \in Replies /\ line' \in Seq(Replies)
  <2>1. line # <<>> /\ line' = Tail(line)
    BY <1>1, Zenon
  <2> QED
    BY <2>1, HeadIsReply, Zenon
<1>3. /\ m.kind \in Kinds /\ m.kind \in Collections /\ m.values \in Readings
      /\ e \in Element /\ Behind(m.kind, m.unit) /\ (e \in Named => named)
  BY <1>1, <1>2 DEF Replies, NameReply
<1> HIDE DEF named
<1>4. configured \subseteq configured' /\ (e \in Named => e \in configured') /\ configured' \subseteq Element
  BY <1>1, <1>3 DEF ChainInv
<1>5. Seq(Requests) \subseteq Seq(Requests)' /\ Seq(Replies) \subseteq Seq(Replies)'
      /\ Requests \subseteq Requests'
  BY <1>4, MoreIsConfigured
<1>6. mirror' \in [Pair -> Nat]
  BY <1>1, <1>3, UpdatedType DEF ChainInv
<1>7. m.unit \in Nat /\ e[1] \in Collections
  BY <1>3, ElementParts
<1>8. NextName(m) \in Seq(Requests')
  <2>1. ASSUME NEW f \in Named, f[1] = m.kind, f[2] < m.unit + 1 PROVE f \in configured'
    <3>1. f \in Element
      BY ElementAssumption DEF ElementAssumption
    <3>2. f[2] \in Nat /\ f = <<f[1], f[2]>>
      BY <3>1, ElementParts
    <3>3. f[2] < m.unit \/ f[2] = m.unit
      BY <1>7, <2>1, <3>2
    <3>4. CASE f[2] < m.unit
      BY <1>3, <1>4, <2>1, <3>4 DEF Behind
    <3>5. CASE f[2] = m.unit
      BY <1>4, <2>1, <3>2, <3>5
    <3> QED
      BY <3>3, <3>4, <3>5
  <2> DEFINE a == Ask("SD", m.kind, m.unit + 1)
  <2>2. m.unit + 1 \in Nat /\ m.unit + 1 \in Int
    BY <1>7
  <2>3. a \in Requests'
    <3> DEFINE k == m.kind u == m.unit + 1
    <3>1. k \in Kinds /\ k \in Collections /\ u \in Nat /\ u \in Int
          /\ \A f \in Named : f[1] = k /\ f[2] < u => f \in configured'
      BY <1>3, <2>1, <2>2
    <3>2. a = [type |-> "SD", kind |-> k, unit |-> u]
      BY DEF Ask
    <3> HIDE DEF k, u, a
    <3> QED
      BY <3>1, <3>2 DEF Requests, Behind, AskTypes
  <2> QED
    BY <2>3 DEF NextName
<1>9. more \in Seq(Requests')
  <2>1. OnConfigured(e) \in Seq({"CV", "TR"})
    BY <1>7, AllDeclare DEF Declares, OnConfigured
  <2>2. DOMAIN OnConfigured(e) = 1..Len(OnConfigured(e)) /\ Len(OnConfigured(e)) \in Nat
        /\ \A j \in 1..Len(OnConfigured(e)) : OnConfigured(e)[j] \in AskTypes \ {"SD"}
    <3>1. {"CV", "TR"} \subseteq AskTypes \ {"SD"}
      BY DEF AskTypes
    <3> QED
      BY <2>1, <3>1, LenProperties, ElementOfSeq
  <2>3. \A j \in 1..Len(OnConfigured(e)) : Ask(OnConfigured(e)[j], m.kind, m.unit) \in Requests
    <3>1. m.unit \in Int
      BY <1>7
    <3> QED
      BY <1>3, <2>2, <3>1, PlainRequest, StartsAreRequests
  <2>4. more \in Seq(Requests)
    <3> DEFINE n == Len(OnConfigured(e))
               f(j) == Ask(OnConfigured(e)[j], m.kind, m.unit)
    <3>1. more = [j \in 1..n |-> f(j)] /\ n \in Nat /\ \A j \in 1..n : f(j) \in Requests
      BY <2>2, <2>3
    <3> HIDE DEF n, f, more
    <3> QED
      BY <3>1, IsASeq
  <2> QED
    BY <1>5, <2>4
<1>10. queue' \in Seq(Requests')
  <2> DEFINE n == NextName(m) mo == IF named THEN more ELSE <<>>
  <2>1. n \in Seq(Requests') /\ mo \in Seq(Requests') /\ queue \in Seq(Requests')
    BY <1>5, <1>8, <1>9 DEF ChainInv
  <2>2. queue' = n \o mo \o queue
    BY <1>1
  <2> HIDE DEF n, mo
  <2> QED
    BY <2>1, <2>2, ConcatProperties
<1>11. line' \in Seq(Replies')
  BY <1>2, <1>5
<1> QED
  <2>1. /\ configured \subseteq configured'
        /\ UNCHANGED <<textDesc, opened>>
    <3>1. configured' = (IF named THEN configured \cup {e} ELSE configured) /\ UNCHANGED <<textDesc, opened>>
      BY <1>1, Zenon
    <3> HIDE DEF named, e, m
    <3> QED
      BY <3>1
  <2> HIDE DEF m, e, named, more
  <2> QED
    BY <1>4, <1>6, <1>10, <1>11, <2>1 DEF ChainInv, NamesComplete

\* A resync asks for every collection's names from the first element on.
LEMMA ResyncGoesOn ==
  ASSUME ChainInv, StartsResync, UNCHANGED <<mirror, configured>>, line' \in Seq(Replies)
  PROVE  ChainInv'
<1>1. Seq(Requests) = Seq(Requests)' /\ Seq(Replies) = Seq(Replies)'
  BY DEF Requests, Replies, NameReply, Behind
<1>2. queue' \in Seq(Requests)
  BY ResyncType, StartsAreRequests, ConcatProperties DEF StartsResync, ChainInv
<1>3. textDesc' = [k \in Kinds |-> "SD" \in ToSet(Sync(k))]
  BY DEF StartsResync
<1>4. ASSUME NEW e \in Named PROVE textDesc'[e[1]] \/ e \in configured'
  <2>1. e \in Element
    BY ElementAssumption DEF ElementAssumption
  <2>2. e[1] \in Kinds /\ e[1] \in Collections
    BY <2>1, ElementParts
  <2>3. CASE e[1] = "panel"
    BY <2>1, <2>3 DEF ChainInv
  <2>4. CASE e[1] # "panel"
    BY <1>3, <2>2, <2>4, AllAskNames
  <2> QED
    BY <2>3, <2>4
<1>5. textDesc' \in [Kinds -> BOOLEAN]
  BY <1>3
<1> QED
  BY <1>1, <1>2, <1>4, <1>5 DEF ChainInv, NamesComplete

LEMMA PollType == PollRequests \in Seq(Starts)
<1>1. {"AS", "AZ", "CS", "SS", "LW"} \subseteq AskTypes \ {"SD"}
      /\ {"areas", "zones", "outputs", "panel"} \subseteq Collections
  BY DEF AskTypes, Collections
<1>2. \A s, t \in Seq(Starts) : s \o t \in Seq(Starts)
  BY ConcatProperties
<1>3. \A type \in {"AS", "AZ", "CS", "SS", "LW"}, kind \in Collections : Polled(type, kind) \in Seq(Starts)
  BY <1>1, PolledType
<1> QED
  BY <1>1, <1>2, <1>3 DEF PollRequests

LEMMA PollGoesOn ==
  ASSUME ChainInv, PollBegins
  PROVE  ChainInv'
<1>1. PollRequests \in Seq(Requests)
  BY PollType, StartsAreRequests
<1>2. queue' \in Seq(Requests) /\ line' \in Seq(Replies)
  BY <1>1, ConcatProperties DEF PollBegins, ChainInv
<1> QED
  BY <1>2, ChainGoesOn DEF PollBegins

LEMMA ChainStep == PanelInv /\ PanelInv' /\ ChainInv /\ [Next]_vars => ChainInv'
<1> SUFFICES ASSUME PanelInv, PanelInv', ChainInv, [Next]_vars PROVE ChainInv'
  OBVIOUS
<1>1. CASE ReadInstallerExit
  <2>1. line' \in Seq(Replies)
    BY <1>1, HeadIsReply DEF ReadInstallerExit, Read
  <2> QED
    BY <1>1, <2>1, ResyncGoesOn DEF ReadInstallerExit
<1>2. CASE Connected
  <2>1. line' \in Seq(Replies)
    BY <1>2 DEF Connected
  <2> QED
    BY <1>2, <2>1, ResyncGoesOn DEF Connected, hubVars
<1>3. CASE PollEnds
  BY <1>3, ChainStutter DEF PollEnds, countVars
<1>4. CASE PollTimesOut
  BY <1>4, ChainStutter DEF PollTimesOut, countVars
<1>5. CASE UNCHANGED vars
  BY <1>5, ChainStutter DEF vars, countVars
<1> QED
  BY <1>1, <1>2, <1>3, <1>4, <1>5, ServeGoesOn, LoseGoesOn, ChangesGoOn, StatusGoesOn, NameGoesOn,
     NoNameGoesOn, PollGoesOn DEF Next, PanelChanges

LEMMA ChainInit == Init => PanelInv /\ ChainInv
<1> SUFFICES ASSUME Init PROVE PanelInv /\ ChainInv
  OBVIOUS
<1>1. PanelInv
  <2>1. ASSUME NEW e \in Named PROVE panel[<<e, "name">>] = 1
    <3>1. <<e, "name">> \in Pair
      BY ElementParts, ElementAssumption DEF ElementAssumption
    <3> QED
      BY <3>1 DEF Init
  <2>2. panel \in [Pair -> Nat]
    BY DEF Init
  <2> QED
    BY <2>1, <2>2 DEF PanelInv
<1>2. ChainInv
  BY DEF ChainInv, Init, NamesComplete
<1> QED
  BY <1>1, <1>2

\* When a chain of SD requests has ended, every element of its collection
\* that the panel names is configured.
THEOREM ChainsNameEveryElement == Spec => []NamesComplete
<1>1. PanelInv /\ ChainInv /\ [Next]_vars => (PanelInv /\ ChainInv)'
  BY PanelStep, ChainStep
<1>2. ChainInv => NamesComplete
  BY DEF ChainInv
<1> QED
  BY <1>1, <1>2, ChainInit, PTL DEF Spec

-----------------------------------------------------------------------------
(***************************************************************************)
(* The entities.                                                           *)
(***************************************************************************)
EntInv ==
  /\ entities \in [Element -> Seq({"known", "unknown"})]
  /\ \A e \in Element : Len(entities[e]) = IF setup = "ready" /\ e \in configured THEN 1 ELSE 0

LEMMA ScanKeeps ==
  ASSUME EntInv, NEW values, NEW known, Scan(known, values), configured \subseteq known, configured' = known,
         setup = "ready" => setup' = "ready"
  PROVE  EntInv'
<1> DEFINE B == {"known", "unknown"}
<1>1. \A e \in Element : entities'[e] = IF setup' = "ready" /\ e \in known /\ entities[e] = <<>>
                                          THEN <<Basis(e, values)>> ELSE entities[e]
  BY DEF Scan
<1>2. ASSUME NEW e \in Element
      PROVE  /\ entities'[e] \in Seq(B)
             /\ Len(entities'[e]) = IF setup' = "ready" /\ e \in configured' THEN 1 ELSE 0
  <2>1. entities[e] \in Seq(B) /\ Len(entities[e]) = IF setup = "ready" /\ e \in configured THEN 1 ELSE 0
    BY DEF EntInv
  <2>2. CASE setup' = "ready" /\ e \in known /\ entities[e] = <<>>
    <3> DEFINE b == Basis(e, values)
    <3>1. b \in B
      BY Zenon DEF Basis
    <3>2. entities'[e] = <<b>>
      BY <1>1, <2>2
    <3> HIDE DEF b, B
    <3> QED
      BY <2>2, <3>1, <3>2
  <2>3. CASE setup' = "ready" /\ e \in known /\ entities[e] # <<>>
    <3>1. entities'[e] = entities[e]
      BY <1>1, <2>3
    <3>2. Len(entities[e]) # 0
      BY <2>1, <2>3, EmptySeq
    <3> QED
      BY <2>1, <2>3, <3>1, <3>2
  <2>4. CASE ~(setup' = "ready" /\ e \in known)
    <3>1. entities'[e] = entities[e]
      BY <1>1, <2>4
    <3> QED
      BY <2>1, <2>4, <3>1
  <2> QED
    BY <2>2, <2>3, <2>4
<1>3. entities' = [e \in Element |-> entities'[e]]
  BY DEF Scan
<1> QED
  BY <1>2, <1>3 DEF EntInv

LEMMA EntStep == EntInv /\ [Next]_vars => EntInv'
<1> SUFFICES ASSUME EntInv, [Next]_vars PROVE EntInv'
  OBVIOUS
<1>1. ASSUME UNCHANGED <<entities, configured, setup>> PROVE EntInv'
  BY <1>1 DEF EntInv
<1>2. CASE ReadStatus
  <2>1. Scan(configured, Updated(Head(line).values)) /\ UNCHANGED <<configured, setup>>
    BY <1>2 DEF ReadStatus
  <2> QED
    BY <2>1, ScanKeeps
<1>3. CASE ReadName
  <2>1. Scan(configured', mirror') /\ configured \subseteq configured' /\ UNCHANGED setup
    BY <1>3 DEF ReadName
  <2> QED
    BY <2>1, ScanKeeps
<1>4. CASE ReadNoName
  <2>1. Scan(configured, mirror) /\ UNCHANGED <<configured, setup>>
    BY <1>4 DEF ReadNoName
  <2> QED
    BY <2>1, ScanKeeps
<1>5. CASE PollEnds
  <2>1. Scan(configured, mirror) /\ UNCHANGED configured /\ setup' = "ready"
    BY <1>5 DEF PollEnds, hubVars
  <2> QED
    BY <2>1, ScanKeeps
<1>6. CASE PollTimesOut
  BY <1>6 DEF EntInv, PollTimesOut, viewVars, hubVars
<1> QED
  BY <1>1, <1>2, <1>3, <1>4, <1>5, <1>6 DEF Next, vars, Serve, Lose, PanelReports, PanelProgrammed,
     PanelAlarms, PanelBypassesAll, Changes, ReadInstallerExit, Connected, PollBegins, hubVars, haVars,
     viewVars

LEMMA EntInit == Init => EntInv
BY DEF Init, EntInv

\* The platforms decide about every configured element once, and about no
\* other.
THEOREM EntitiesFollowNames == Spec => []EntitiesFollow
<1>1. EntInv => EntitiesFollow
  BY DEF EntInv, EntitiesFollow, Tracked
<1> QED
  BY <1>1, EntInit, EntStep, PTL DEF Spec

-----------------------------------------------------------------------------
(***************************************************************************)
(* The snapshot.                                                           *)
(***************************************************************************)
TrackedPair == {q \in Pair : q[1][1] \notin {"users", "panel"}}

\* The snapshot shows the elements' values, and every element but one.
Shows ==
  /\ \A p \in TrackedPair : snapshot.values[p] = mirror[p]
  /\ DOMAIN snapshot.values = TrackedPair /\ snapshot.values = [p \in TrackedPair |-> snapshot.values[p]]
  /\ \A e, f \in (configured \cap Tracked) \ snapshot.known : e = f

\* A tracked element's name is read together with its configuration, so that
\* an element the snapshot does not know changes its name and is noticed.
SnapInv ==
  /\ setup = "ready" \/ missing # {"idle"} => tracked
  /\ \A e \in Tracked : e \in configured \/ mirror[<<e, "name">>] = 0
  /\ setup = "ready" => Shows

LEMMA DerivedShows ==
  ASSUME NEW values, NEW known, snapshot' = Derived(values, known),
         \A p \in TrackedPair : mirror'[p] = values[p],
         \A e, f \in (configured' \cap Tracked) \ known : e = f
  PROVE  Shows'
<1>1. snapshot'.known = known /\ snapshot'.values = [p \in TrackedPair |-> values[p]]
  BY DEF Derived, TrackedPair
<1> QED
  BY <1>1 DEF Shows

\* What the snapshot knows after a message that changed no configuration but
\* that of e, whose name has changed with it.
LEMMA NotifiesShows ==
  ASSUME Shows, tracked, NEW type, Notifies(type, mirror', configured), NEW e,
         configured' \subseteq configured \cup {e},
         e \in Tracked => e \in configured \/ \E p \in TrackedPair : mirror'[p] # mirror[p]
  PROVE  Shows'
<1>1. CASE snapshot' = Derived(mirror', configured)
  <2>1. CASE \E p \in TrackedPair : mirror'[p] # mirror[p]
    BY <1>1, DerivedShows
  <2>2. CASE ~\E p \in TrackedPair : mirror'[p] # mirror[p]
    BY <1>1, <2>2, DerivedShows DEF Shows
  <2> QED
    BY <2>1, <2>2
<1>2. CASE snapshot' = snapshot /\ ~\E p \in TrackedPair : mirror'[p] # mirror[p]
  BY <1>2 DEF Shows
<1>3. ASSUME \E p \in TrackedPair : mirror'[p] # mirror[p] PROVE snapshot' = Derived(mirror', configured)
  BY <1>3 DEF Notifies, TrackedPair
<1>4. snapshot' = Derived(mirror', configured) \/ snapshot' = snapshot
  BY DEF Notifies
<1> QED
  BY <1>1, <1>2, <1>3, <1>4

LEMMA SnapStatus ==
  ASSUME ChainInv, SnapInv, ReadStatus
  PROVE  SnapInv'
<1> DEFINE m == Head(line)
<1>1. PICK type \in DOMAIN Carries \ {"SD", "IE"} : Read(type) /\ Received(type)
  BY DEF ReadStatus
<1>2. /\ mirror' = Updated(m.values) /\ Notifies(m.type, mirror', configured)
      /\ UNCHANGED <<setup, configured, tracked>>
  BY DEF ReadStatus
<1>3. m \in Replies /\ m.type = type
  BY <1>1, HeadIsReply DEF Read
<1>4. \A p \in DOMAIN m.values : p[2] # "name"
  BY <1>3, OnlySDNames DEF Replies
<1>5. ASSUME NEW e \in Tracked PROVE mirror'[<<e, "name">>] = mirror[<<e, "name">>]
  <2>1. <<e, "name">> \in Pair
    BY ElementParts DEF Tracked
  <2> QED
    BY <1>2, <1>4, <2>1 DEF Updated
<1>6. missing' # {"idle"} => missing # {"idle"}
  BY <1>1, OnlySDNames DEF Received
<1>7. ASSUME setup = "ready" PROVE Shows'
  <2>1. Shows /\ tracked
    BY <1>7 DEF SnapInv
  <2>2. <<"users", 0>> \notin Tracked
    BY DEF Tracked
  <2> QED
    BY <1>2, <2>1, <2>2, NotifiesShows
<1> QED
  BY <1>2, <1>5, <1>6, <1>7 DEF SnapInv

LEMMA SnapName ==
  ASSUME ChainInv, SnapInv, ReadName
  PROVE  SnapInv'
<1> DEFINE m == Head(line)
           e == <<m.kind, m.unit>>
           named == m.kind # "users" \/ m.values[<<e, "name">>] > 0
<1>1. /\ line # <<>> /\ m.type = "SD" /\ m.unit # None
      /\ mirror' = (IF named THEN Updated(m.values) ELSE mirror)
      /\ configured' = (IF named THEN configured \cup {e} ELSE configured)
      /\ Notifies("SD", mirror', configured)
      /\ UNCHANGED <<setup, tracked, missing>>
  BY DEF ReadName, Read
<1>2. m \in Replies
  BY <1>1, HeadIsReply
<1>3. /\ e \in Element /\ m.values \in [{<<e, "name">>} -> Nat]
      /\ (m.kind # "users" => m.values[<<e, "name">>] > 0)
  BY <1>1, <1>2 DEF Replies, NameReply
<1>4. <<e, "name">> \in Pair
  BY <1>3, ElementParts
<1>5. named => mirror' = [mirror EXCEPT ![<<e, "name">>] = m.values[<<e, "name">>]]
  <2>1. mirror = [p \in Pair |-> mirror[p]]
    BY DEF ChainInv
  <2> QED
    BY <1>1, <1>3, <1>4, <2>1 DEF Updated
<1>6. e \in Tracked => named /\ e \in configured' /\ mirror'[<<e, "name">>] > 0
  <2>1. SUFFICES ASSUME e \in Tracked PROVE named /\ e \in configured' /\ mirror'[<<e, "name">>] > 0
    OBVIOUS
  <2>2. m.kind # "users"
    BY <2>1 DEF Tracked
  <2> QED
    BY <1>1, <1>3, <1>4, <1>5, <2>2 DEF ChainInv
<1> HIDE DEF named, e
<1>7. ASSUME NEW f \in Tracked PROVE f \in configured' \/ mirror'[<<f, "name">>] = 0
  <2>1. CASE f = e
    BY <1>6, <2>1
  <2>2. CASE f # e
    <3>1. mirror'[<<f, "name">>] = mirror[<<f, "name">>]
      <4> DEFINE p == <<f, "name">> q == <<e, "name">>
      <4>1. p # q
        BY <2>2
      <4>2. CASE named
        <5>1. mirror' = [mirror EXCEPT ![q] = m.values[q]]
          BY <1>5, <4>2
        <5> HIDE DEF p, q, m
        <5>2. mirror'[p] = mirror[p]
          BY <4>1, <5>1
        <5> QED
          BY <5>2 DEF p
      <4>3. CASE ~named
        BY <1>1, <4>3
      <4> QED
        BY <4>2, <4>3
    <3> QED
      BY <1>1, <3>1 DEF SnapInv
  <2> QED
    BY <2>1, <2>2
<1>8. ASSUME e \in Tracked, e \notin configured
      PROVE  \E p \in TrackedPair : mirror'[p] # mirror[p]
  <2>1. <<e, "name">> \in TrackedPair
    BY <1>4, <1>8 DEF TrackedPair, Tracked
  <2>2. mirror[<<e, "name">>] = 0
    BY <1>8 DEF SnapInv
  <2> QED
    BY <1>6, <1>8, <2>1, <2>2
<1>9. ASSUME setup = "ready" PROVE Shows'
  <2>1. Shows /\ tracked
    BY <1>9 DEF SnapInv
  <2>2. configured' \subseteq configured \cup {e}
    BY <1>1
  <2> QED
    BY <1>1, <1>8, <2>1, <2>2, NotifiesShows
<1> QED
  BY <1>1, <1>7, <1>9, SMTT(60) DEF SnapInv

LEMMA SnapPollEnds ==
  ASSUME SnapInv, PollEnds
  PROVE  SnapInv'
<1>1. snapshot' = Derived(mirror, configured) /\ UNCHANGED <<mirror, configured, tracked>> /\ tracked
  BY DEF PollEnds, SnapInv, Current, hubVars
<1>2. Shows'
  BY <1>1, DerivedShows
<1> QED
  BY <1>1, <1>2 DEF SnapInv

LEMMA SnapStep == ChainInv /\ SnapInv /\ [Next]_vars => SnapInv'
<1> SUFFICES ASSUME ChainInv, SnapInv, [Next]_vars PROVE SnapInv'
  OBVIOUS
<1>1. ASSUME UNCHANGED <<hubVars, haVars, snapshot>> PROVE SnapInv'
  BY <1>1 DEF SnapInv, Shows, hubVars, haVars
<1>2. CASE ReadNoName \/ ReadInstallerExit \/ Connected
  BY <1>2 DEF SnapInv, Shows, ReadNoName, ReadInstallerExit, Connected, haVars, viewVars, hubVars
<1>3. CASE PollBegins
  BY <1>3 DEF SnapInv, Shows, PollBegins, hubVars, viewVars
<1>4. CASE PollTimesOut
  BY <1>4 DEF SnapInv, Shows, PollTimesOut, hubVars, viewVars
<1> QED
  BY <1>1, <1>2, <1>3, <1>4, SnapStatus, SnapName, SnapPollEnds
  DEF Next, vars, Serve, Lose, PanelReports, PanelProgrammed, PanelAlarms, PanelBypassesAll, Changes,
      viewVars

LEMMA SnapInit == Init => SnapInv
<1> SUFFICES ASSUME Init PROVE SnapInv
  OBVIOUS
<1>1. ASSUME NEW e \in Tracked PROVE mirror[<<e, "name">>] = 0
  <2>1. <<e, "name">> \in Pair
    BY ElementParts DEF Tracked
  <2> QED
    BY <2>1 DEF Init
<1> QED
  BY <1>1 DEF Init, SnapInv

\* Once the entry is set up the snapshot shows every value of the elements,
\* and lacks at most the one element whose name came last.
THEOREM SnapshotFollowsElements == Spec => []SnapshotLagsOneName
<1>1. PanelInv /\ ChainInv /\ SnapInv /\ [Next]_vars => (PanelInv /\ ChainInv /\ SnapInv)'
  BY PanelStep, ChainStep, SnapStep
<1>2. SnapInv => SnapshotLagsOneName
  <2> SUFFICES ASSUME SnapInv, setup = "ready" PROVE
         /\ snapshot.values = Current.values
         /\ Cardinality((configured \cap Tracked) \ snapshot.known) <= 1
    BY DEF SnapshotLagsOneName
  <2> DEFINE D == (configured \cap Tracked) \ snapshot.known
  <2>1. Shows
    BY DEF SnapInv
  <2>2. snapshot.values = Current.values
    BY <2>1 DEF Shows, Current, Derived, TrackedPair
  <2>3. CASE D = {}
    <3>1. Cardinality(D) = 0
      BY <2>3, FS_EmptySet
    <3> QED
      BY <2>2, <3>1
  <2>4. CASE D # {}
    <3>1. \A e, f \in D : e = f
      BY <2>1 DEF Shows
    <3> HIDE DEF D
    <3>2. PICK e \in D : TRUE
      BY <2>4
    <3>3. D = {e}
      BY <3>1, <3>2
    <3>4. Cardinality(D) = 1
      BY <3>3, FS_Singleton
    <3> QED
      BY <2>2, <3>4 DEF D
  <2> QED
    BY <2>3, <2>4
<1>3. Init => PanelInv /\ ChainInv /\ SnapInv
  BY ChainInit, SnapInit
<1> QED
  BY <1>1, <1>2, <1>3, PTL DEF Spec

-----------------------------------------------------------------------------
(***************************************************************************)
(* The mirror.  Values only grow from the mirror along the line to the      *)
(* panel, so that a value of the panel's on the line ends in the mirror.    *)
(***************************************************************************)
GrowInv ==
  /\ \A p \in Pair : mirror[p] <= panel[p]
  /\ \A i \in DOMAIN line : \A p \in DOMAIN line[i].values :
       mirror[p] <= line[i].values[p] /\ line[i].values[p] <= panel[p]
  /\ \A i, j \in DOMAIN line : i < j =>
       \A p \in DOMAIN line[i].values \cap DOMAIN line[j].values : line[i].values[p] <= line[j].values[p]

LEMMA ValuesAre ==
  ASSUME ChainInv, NEW i \in DOMAIN line, NEW p \in DOMAIN line[i].values
  PROVE  p \in Pair /\ line[i].values[p] \in Nat /\ mirror[p] \in Nat
<1>1. line[i] \in Replies
  BY ElementOfSeq, LenProperties DEF ChainInv
<1>2. PICK S \in SUBSET Pair : line[i].values \in [S -> Nat]
  BY <1>1 DEF Replies, Readings
<1> QED
  BY <1>2 DEF ChainInv

\* A message with the panel's values comes last.
LEMMA GrowAppends ==
  ASSUME PanelInv, PanelInv', ChainInv, GrowInv, NEW m \in Replies, line' = Append(line, m), UNCHANGED mirror,
         \A p \in DOMAIN m.values : m.values[p] = panel'[p],
         \A p \in Pair : panel[p] <= panel'[p]
  PROVE  GrowInv'
<1> DEFINE n == Len(line) + 1
<1>1. /\ Len(line) \in Nat /\ line'[n] = m
      /\ \A i \in DOMAIN line : i \in Nat /\ i < n /\ line'[i] = line[i]
      /\ \A i \in DOMAIN line' : i = n \/ i \in DOMAIN line
  BY AppendOf DEF ChainInv
<1> HIDE DEF n
<1>2. ASSUME NEW p \in Pair PROVE panel[p] \in Nat /\ panel'[p] \in Nat /\ mirror[p] \in Nat
  BY DEF PanelInv, ChainInv
<1>3. \A p \in Pair : mirror'[p] <= panel'[p]
  BY <1>2 DEF GrowInv
<1>4. ASSUME NEW p \in DOMAIN m.values PROVE p \in Pair
  BY DEF Replies, Readings
<1>5. ASSUME NEW i \in DOMAIN line', NEW p \in DOMAIN line'[i].values
      PROVE  mirror'[p] <= line'[i].values[p] /\ line'[i].values[p] <= panel'[p]
  <2>1. CASE i = n
    BY <1>1, <1>2, <1>3, <1>4, <1>5, <2>1
  <2>2. CASE i \in DOMAIN line
    <3>1. line'[i] = line[i] /\ p \in DOMAIN line[i].values
      BY <1>1, <1>5, <2>2
    <3>2. p \in Pair /\ line[i].values[p] \in Nat
      BY <2>2, <3>1, ValuesAre
    <3>3. mirror[p] <= line[i].values[p] /\ line[i].values[p] <= panel[p]
      BY <2>2, <3>1 DEF GrowInv
    <3> QED
      BY <1>2, <3>1, <3>2, <3>3
  <2> QED
    BY <1>1, <2>1, <2>2
<1>6. ASSUME NEW i \in DOMAIN line', NEW j \in DOMAIN line', i < j,
             NEW p \in DOMAIN line'[i].values \cap DOMAIN line'[j].values
      PROVE  line'[i].values[p] <= line'[j].values[p]
  <2>1. i \in DOMAIN line
    BY <1>1, <1>6
  <2>2. CASE j = n
    <3>1. line'[j].values[p] = panel'[p]
      BY <1>1, <1>6, <2>2
    <3> QED
      BY <1>5, <3>1
  <2>3. CASE j \in DOMAIN line
    BY <1>1, <1>6, <2>1, <2>3 DEF GrowInv
  <2> QED
    BY <1>1, <2>2, <2>3
<1> QED
  BY <1>3, <1>5, <1>6 DEF GrowInv

\* The first message goes, and may be read.
LEMMA GrowReads ==
  ASSUME PanelInv, ChainInv, GrowInv, line # <<>>, line' = Tail(line), UNCHANGED panel, mirror' \in [Pair -> Nat],
         \A p \in Pair : \/ mirror'[p] = mirror[p]
                         \/ p \in DOMAIN Head(line).values /\ mirror'[p] = Head(line).values[p]
  PROVE  GrowInv'
<1>1. /\ Head(line) = line[1] /\ 1 \in DOMAIN line
      /\ \A i \in DOMAIN line' : i \in Nat /\ i > 0 /\ i + 1 \in DOMAIN line /\ line'[i] = line[i + 1]
  BY TailOf DEF ChainInv
<1>2. ASSUME NEW p \in Pair PROVE mirror'[p] <= panel'[p]
  BY <1>1 DEF GrowInv
<1>3. ASSUME NEW i \in DOMAIN line', NEW p \in DOMAIN line'[i].values
      PROVE  mirror'[p] <= line'[i].values[p] /\ line'[i].values[p] <= panel'[p]
  <2> DEFINE k == i + 1
  <2>1. k \in DOMAIN line /\ line'[i] = line[k] /\ 1 < k /\ p \in DOMAIN line[k].values
    BY <1>1, <1>3
  <2> HIDE DEF k
  <2>2. p \in Pair /\ line[k].values[p] <= panel[p] /\ mirror[p] <= line[k].values[p]
    BY <2>1, ValuesAre DEF GrowInv
  <2>3. p \in DOMAIN line[1].values => line[1].values[p] <= line[k].values[p]
    BY <1>1, <2>1 DEF GrowInv
  <2> QED
    BY <1>1, <2>1, <2>2, <2>3
<1>4. ASSUME NEW i \in DOMAIN line', NEW j \in DOMAIN line', i < j,
             NEW p \in DOMAIN line'[i].values \cap DOMAIN line'[j].values
      PROVE  line'[i].values[p] <= line'[j].values[p]
  <2> DEFINE k == i + 1 l == j + 1
  <2>1. k \in DOMAIN line /\ l \in DOMAIN line /\ k < l /\ line'[i] = line[k] /\ line'[j] = line[l]
    BY <1>1, <1>4
  <2> HIDE DEF k, l
  <2> QED
    BY <1>4, <2>1 DEF GrowInv
<1> QED
  BY <1>2, <1>3, <1>4 DEF GrowInv

LEMMA AnswerValues ==
  ASSUME PanelInv, NEW ask \in Requests
  PROVE  /\ \A p \in DOMAIN Answer(ask).values : Answer(ask).values[p] = panel[p]
         /\ Answer(ask).reply /\ Answer(ask).type = ask.type /\ Answer(ask).kind = ask.kind
         /\ ask.type = "SD" => /\ Answer(ask).unit = NextNamed(ask.kind, ask.unit)
                               /\ \A p \in DOMAIN Answer(ask).values : p[2] = "name"
  BY DEF Answer, Message, Values

LEMMA GrowStep ==
  ASSUME PanelInv, PanelInv', ChainInv, ChainInv', GrowInv, [Next]_vars
  PROVE  GrowInv'
<1> DEFINE m == Head(line)
<1>1. CASE Serve
  <2>1. Head(queue) \in Requests
    BY <1>1, HeadTailProperties DEF Serve, ChainInv
  <2>2. Answer(Head(queue)) \in Replies /\ \A p \in DOMAIN Answer(Head(queue)).values :
                                             Answer(Head(queue)).values[p] = panel[p]
    BY <2>1, AnswerType, AnswerValues
  <2>3. line' = Append(line, Answer(Head(queue))) /\ UNCHANGED <<panel, mirror>>
    BY <1>1 DEF Serve, hubVars
  <2>4. \A p \in Pair : panel[p] <= panel'[p]
    BY <2>3 DEF PanelInv
  <2> QED
    BY <2>2, <2>3, <2>4, GrowAppends
<1>2. CASE PanelChanges
  <2>1. PICK r : Told(r)
    BY <1>2, ChangesTold
  <2> QED
    BY <2>1, GrowAppends DEF Told, hubVars
<1>3. CASE Lose
  <2>1. line # <<>> /\ line' = Tail(line) /\ UNCHANGED <<panel, mirror>>
    BY <1>3 DEF Lose, hubVars
  <2> QED
    BY <2>1, GrowReads DEF ChainInv
<1>4. CASE ReadNoName \/ ReadInstallerExit
  <2>1. line # <<>> /\ line' = Tail(line) /\ UNCHANGED <<panel, mirror>>
    BY <1>4 DEF ReadNoName, ReadInstallerExit, Read
  <2> QED
    BY <2>1, GrowReads DEF ChainInv
<1>5. CASE ReadStatus \/ ReadName
  <2>1. /\ line # <<>> /\ line' = Tail(line) /\ UNCHANGED panel
        /\ mirror' = Updated(m.values) \/ mirror' = mirror
    BY <1>5, Zenon DEF ReadStatus, ReadName, Read
  <2>2. \A p \in Pair : mirror'[p] = mirror[p] \/ (p \in DOMAIN m.values /\ mirror'[p] = m.values[p])
    BY <2>1 DEF Updated
  <2> QED
    BY <2>1, <2>2, GrowReads DEF ChainInv
<1>6. CASE Connected
  BY <1>6 DEF Connected, GrowInv
<1>7. ASSUME UNCHANGED <<panel, mirror, line>> PROVE GrowInv'
  BY <1>7, SMTT(60) DEF GrowInv
<1> QED
  BY <1>1, <1>2, <1>3, <1>4, <1>5, <1>6, <1>7
  DEF Next, PanelChanges, PollBegins, PollEnds, PollTimesOut, vars, hubVars

\* What reading a name does, in terms of what is asked.
NameIsRead(m, e) ==
  /\ m \in Replies /\ m = Head(line) /\ line # <<>> /\ line' = Tail(line)
  /\ m.type = "SD" /\ m.unit \in Nat /\ m.kind \in Kinds /\ textDesc[m.kind]
  /\ e = <<m.kind, m.unit>> /\ e \in Element /\ <<e, "name">> \in Pair /\ <<e, "name">> \in DOMAIN m.values
  /\ configured \subseteq configured' /\ configured' \subseteq configured \cup {e}
  /\ e \in configured' \ configured \/ m.kind # "users" => m.values[<<e, "name">>] > 0
  /\ \A p \in Pair : p[2] # "name" => mirror'[p] = mirror[p]
  /\ UNCHANGED <<panel, textDesc, opened, lost>>
  /\ Ask("SD", m.kind, m.unit + 1) \in ToSet(queue')
  /\ m.values[<<e, "name">>] > 0 =>
       \A t \in ToSet(OnConfigured(e)) : Ask(t, m.kind, m.unit) \in ToSet(queue')
  /\ \A a \in ToSet(queue) : a \in ToSet(queue')
  /\ \A a \in ToSet(queue') : a \in ToSet(queue) \/ a.type # "SD" \/ a = Ask("SD", m.kind, m.unit + 1)
  /\ \A j \in DOMAIN queue' : j = 1 \/ queue'[j] \in ToSet(queue) \/ queue'[j].type # "SD"

LEMMA NameReads ==
  ASSUME ChainInv, ReadName
  PROVE  \E m, e : NameIsRead(m, e)
<1> DEFINE m == Head(line)
           e == <<m.kind, m.unit>>
           value == m.values[<<e, "name">>]
           named == m.kind # "users" \/ value > 0
           n == Len(OnConfigured(e))
           more == [j \in DOMAIN OnConfigured(e) |-> Ask(OnConfigured(e)[j], m.kind, m.unit)]
           mo == IF named THEN more ELSE <<>>
           next == Ask("SD", m.kind, m.unit + 1)
<1>1. /\ line # <<>> /\ line' = Tail(line) /\ m.type = "SD" /\ m.unit # None /\ textDesc[m.kind]
      /\ mirror' = (IF named THEN Updated(m.values) ELSE mirror)
      /\ configured' = (IF named THEN configured \cup {e} ELSE configured)
      /\ queue' = NextName(m) \o mo \o queue
      /\ UNCHANGED <<panel, textDesc, opened, lost>>
  <2>1. /\ line # <<>> /\ line' = Tail(line) /\ m.type = "SD" /\ m.unit # None /\ textDesc[m.kind]
        /\ UNCHANGED <<panel, textDesc, opened, lost>>
    BY Zenon DEF ReadName, Read, countVars
  <2>2. mirror' = (IF named THEN Updated(m.values) ELSE mirror)
    BY Zenon DEF ReadName
  <2>3. configured' = (IF named THEN configured \cup {e} ELSE configured)
    BY Zenon DEF ReadName
  <2>4. queue' = NextName(m) \o mo \o queue
    BY ZenonT(60) DEF ReadName
  <2> QED
    BY <2>1, <2>2, <2>3, <2>4, Zenon
<1>2. m \in Replies
  <2>1. line # <<>>
    BY <1>1, Zenon
  <2> QED
    BY <2>1, HeadIsReply, Zenon
<1>3. /\ m.kind \in Kinds /\ e \in Element /\ m.values \in [{<<e, "name">>} -> Nat]
      /\ (m.kind # "users" => value > 0)
  BY <1>1, <1>2 DEF Replies, NameReply
<1>4. m.unit \in Nat /\ e[1] \in Collections /\ <<e, "name">> \in Pair
  BY <1>3, ElementParts
<1>5. named <=> value > 0
  BY <1>3, SMTT(60)
<1>6. ASSUME NEW p \in Pair, p[2] # "name" PROVE mirror'[p] = mirror[p]
  <2>1. p \notin DOMAIN m.values
    <3>1. DOMAIN m.values = {<<e, "name">>} /\ p # <<e, "name">>
      BY <1>3, <1>6
    <3> QED
      BY <3>1
  <2>2. Updated(m.values)[p] = mirror[p]
    BY <2>1, Zenon DEF Updated
  <2> QED
    BY <1>1, <2>2
<1>7. DOMAIN OnConfigured(e) = 1..n /\ n \in Nat /\ \A j \in 1..n : OnConfigured(e)[j] \in {"CV", "TR"}
  <2>1. OnConfigured(e) \in Seq({"CV", "TR"})
    BY <1>4, AllDeclare DEF Declares, OnConfigured
  <2> QED
    BY <2>1, LenProperties, ElementOfSeq
<1> DEFINE U == {Ask(t, k, u) : t \in AskTypes \cup {"SD", "CV", "TR"}, k \in {m.kind}, u \in {m.unit, m.unit + 1}}
                \cup ToSet(queue)
<1>8. mo \in Seq(U) /\ NextName(m) \in Seq(U) /\ queue \in Seq(U)
  <2>1. Ask("SD", m.kind, m.unit + 1) \in U
    OBVIOUS
  <2>2. NextName(m) \in Seq(U)
    <3> HIDE DEF U
    <3> QED
      BY <2>1 DEF NextName
  <2>3. \A j \in 1..n : Ask(OnConfigured(e)[j], m.kind, m.unit) \in U
    BY <1>7
  <2>4. more \in Seq(U)
    <3> DEFINE f(j) == Ask(OnConfigured(e)[j], m.kind, m.unit)
    <3>1. more = [j \in 1..n |-> f(j)]
      BY <1>7, Zenon
    <3> HIDE DEF U
    <3>2. n \in Nat /\ \A j \in 1..n : f(j) \in U
      <4> HIDE DEF n
      <4> QED
        BY <1>7, <2>3
    <3> HIDE DEF n, f, more, U
    <3> QED
      BY <3>1, <3>2, IsASeq
  <2>5. mo \in Seq(U)
    <3> HIDE DEF U, more, named
    <3> QED
      BY <2>4
  <2>6. queue \in Seq(U)
    <3>1. queue \in Seq(Requests)
      BY DEF ChainInv
    <3>2. Len(queue) \in Nat /\ queue = [j \in 1..Len(queue) |-> queue[j]] /\ DOMAIN queue = 1..Len(queue)
      BY <3>1, LenProperties
    <3>3. \A j \in 1..Len(queue) : queue[j] \in U
      BY <3>2 DEF ToSet
    <3> HIDE DEF U
    <3> QED
      BY <3>2, <3>3, IsASeq
  <2> QED
    BY <2>2, <2>5, <2>6
<1>9. /\ \A t \in ToSet(more) : t.type # "SD"
      /\ \A t \in ToSet(OnConfigured(e)) : Ask(t, m.kind, m.unit) \in ToSet(more)
  BY <1>7 DEF ToSet, Ask
<1>10. ToSet(mo) \subseteq ToSet(more) /\ (value > 0 => mo = more)
  <2>1. ToSet(<<>>) = {}
    BY DEF ToSet
  <2> HIDE DEF more
  <2> QED
    BY <1>5, <2>1
<1>11. NextName(m) = <<next>> /\ DOMAIN <<next>> = {1} /\ ToSet(<<next>>) = {next}
  BY DEF NextName, ToSet
<1> HIDE DEF mo, U, next
<1> DEFINE front == <<next>> \o mo
<1>12. /\ front \in Seq(U)
       /\ \A i \in DOMAIN front : (i \in DOMAIN <<next>> /\ front[i] = <<next>>[i]) \/ front[i] \in ToSet(mo)
       /\ \A x : x \in ToSet(front) <=> x \in ToSet(<<next>>) \/ x \in ToSet(mo)
  BY <1>8, <1>11, ConcatOf
<1>13. queue' = front \o queue
  BY <1>1, <1>11
<1> HIDE DEF front
<1>14. /\ \A i \in DOMAIN queue' : (i \in DOMAIN front /\ queue'[i] = front[i]) \/ queue'[i] \in ToSet(queue)
       /\ \A x : x \in ToSet(queue') <=> x \in ToSet(front) \/ x \in ToSet(queue)
  BY <1>8, <1>12, <1>13, ConcatOf
<1>15. /\ next \in ToSet(queue')
       /\ value > 0 => \A t \in ToSet(OnConfigured(e)) : Ask(t, m.kind, m.unit) \in ToSet(queue')
       /\ \A a \in ToSet(queue) : a \in ToSet(queue')
       /\ \A a \in ToSet(queue') : a \in ToSet(queue) \/ a.type # "SD" \/ a = next
       /\ \A j \in DOMAIN queue' : j = 1 \/ queue'[j] \in ToSet(queue) \/ queue'[j].type # "SD"
  BY <1>9, <1>10, <1>11, <1>12, <1>14
<1>16. /\ configured \subseteq configured' /\ configured' \subseteq configured \cup {e}
       /\ (e \in configured' \ configured \/ m.kind # "users" => value > 0)
  BY <1>1, <1>3, <1>5
<1>17. <<e, "name">> \in DOMAIN m.values
  BY <1>3
<1> QED
  BY <1>1, <1>2, <1>3, <1>4, <1>6, <1>15, <1>16, <1>17 DEF NameIsRead, next

\* Nothing leaves the queue, and what comes begins a chain or belongs to none.
Grows ==
  /\ \A x \in ToSet(queue) : x \in ToSet(queue')
  /\ \A i \in DOMAIN queue' : (i \in DOMAIN queue /\ queue'[i] = queue[i]) \/ queue'[i] \in Starts
  /\ \A x \in ToSet(queue') : x \in ToSet(queue) \/ x \in Starts

LEMMA GrowsBy ==
  ASSUME ChainInv, NEW r \in Seq(Starts), queue' = queue \o r
  PROVE  Grows /\ \A x \in ToSet(r) : x \in ToSet(queue')
<1>1. queue \in Seq(Requests) /\ r \in Seq(Requests)
  BY StartsAreRequests DEF ChainInv
<1>2. /\ \A i \in DOMAIN queue' : (i \in DOMAIN queue /\ queue'[i] = queue[i]) \/ queue'[i] \in ToSet(r)
      /\ \A x : x \in ToSet(queue') <=> x \in ToSet(queue) \/ x \in ToSet(r)
  BY <1>1, ConcatOf
<1>3. \A x \in ToSet(r) : x \in Starts
  BY LenProperties, ElementOfSeq DEF ToSet
<1> QED
  BY <1>2, <1>3 DEF Grows

LEMMA NothingAsked ==
  ASSUME UNCHANGED queue
  PROVE  Grows
  BY DEF Grows

LEMMA OthersGrow ==
  ASSUME PanelInv, PanelInv', ChainInv, [Next]_vars, ~Serve, ~ReadName
  PROVE  Grows
<1>1. CASE ReadStatus
  BY <1>1, GrowsBy, FollowUpsType DEF ReadStatus
<1>2. CASE ReadInstallerExit \/ Connected
  BY <1>2, GrowsBy, ResyncType DEF ReadInstallerExit, Connected, StartsResync
<1>3. CASE PollBegins
  BY <1>3, GrowsBy, PollType DEF PollBegins
<1>4. CASE PanelChanges
  BY <1>4, ChangesTold, NothingAsked DEF Told
<1>5. CASE Lose \/ ReadNoName \/ PollEnds \/ PollTimesOut \/ UNCHANGED vars
  BY <1>5, NothingAsked DEF Lose, ReadNoName, PollEnds, PollTimesOut, vars
<1> QED
  BY <1>1, <1>2, <1>3, <1>4, <1>5 DEF Next, PanelChanges

\* One request waits for its reply at a time, and a chain's next request is
\* the first in the queue.
TurnInv ==
  /\ \A i, j \in DOMAIN line : line[i].reply /\ line[j].reply => i = j
  /\ \A i \in DOMAIN line : line[i].type = "SD" =>
       line[i].reply /\ \A p \in DOMAIN line[i].values : p[2] = "name"
  /\ \A j \in DOMAIN queue : queue[j].type = "SD" /\ queue[j].unit > 0 =>
       j = 1 /\ \A i \in DOMAIN line : ~line[i].reply

\* The line loses its first message or all of them.
LEMMA TurnReads ==
  ASSUME ChainInv, TurnInv, Grows, (line # <<>> /\ line' = Tail(line)) \/ line' = <<>> \/ UNCHANGED line
  PROVE  TurnInv'
<1>1. \A i \in DOMAIN line' : \E j \in DOMAIN line : line'[i] = line[j]
  <2>1. CASE line' = line \/ line' = <<>>
    BY <2>1
  <2>2. CASE line # <<>> /\ line' = Tail(line)
    BY <2>2, TailOf DEF ChainInv
  <2> QED
    BY <2>1, <2>2
<1>2. ASSUME NEW i \in DOMAIN line', NEW j \in DOMAIN line', line'[i].reply, line'[j].reply PROVE i = j
  <2>1. CASE line' = line
    BY <1>2, <2>1 DEF TurnInv
  <2>2. CASE line' = <<>>
    BY <2>2
  <2>3. CASE line # <<>> /\ line' = Tail(line)
    <3>1. i \in Nat /\ j \in Nat /\ i + 1 \in DOMAIN line /\ j + 1 \in DOMAIN line
          /\ line'[i] = line[i + 1] /\ line'[j] = line[j + 1]
      BY <2>3, TailOf DEF ChainInv
    <3>2. i + 1 = j + 1
      BY <1>2, <3>1 DEF TurnInv
    <3> QED
      BY <3>1, <3>2
  <2> QED
    BY <2>1, <2>2, <2>3
<1>3. ASSUME NEW i \in DOMAIN line', line'[i].type = "SD"
      PROVE  line'[i].reply /\ \A p \in DOMAIN line'[i].values : p[2] = "name"
  BY <1>1, <1>3 DEF TurnInv
<1>4. ASSUME NEW j \in DOMAIN queue', queue'[j].type = "SD", queue'[j].unit > 0
      PROVE  j = 1 /\ \A i \in DOMAIN line' : ~line'[i].reply
  <2>1. j \in DOMAIN queue /\ queue'[j] = queue[j]
    <3>1. CASE queue'[j] \in Starts
      BY <1>4, <3>1 DEF Starts
    <3> QED
      BY <3>1 DEF Grows
  <2> QED
    BY <1>1, <1>4, <2>1 DEF TurnInv
<1> QED
  BY <1>2, <1>3, <1>4 DEF TurnInv

LEMMA TurnServes ==
  ASSUME PanelInv, ChainInv, TurnInv, Serve
  PROVE  TurnInv'
<1> DEFINE a == Head(queue)
           m == Answer(a)
           n == Len(line) + 1
<1>1. queue # <<>> /\ queue' = Tail(queue) /\ line' = Append(line, m) /\ \A j \in DOMAIN line : ~line[j].reply
  BY DEF Serve
<1>2. a \in Requests /\ \A j \in DOMAIN queue' : j \in Nat /\ j > 0 /\ j + 1 \in DOMAIN queue /\ queue'[j] = queue[j + 1]
  BY <1>1, TailOf DEF ChainInv
<1>3. m \in Replies /\ m.reply /\ (m.type = "SD" => \A p \in DOMAIN m.values : p[2] = "name")
  BY <1>2, AnswerType, AnswerValues
<1> HIDE DEF m, n
<1>4. /\ line'[n] = m
      /\ \A i \in DOMAIN line : line'[i] = line[i]
      /\ \A i \in DOMAIN line' : i = n \/ i \in DOMAIN line
  BY <1>1, <1>3, AppendOf DEF ChainInv, n
<1>5. ASSUME NEW j \in DOMAIN queue' PROVE ~(queue'[j].type = "SD" /\ queue'[j].unit > 0)
  <2>1. j \in Nat /\ j > 0 /\ j + 1 \in DOMAIN queue /\ queue'[j] = queue[j + 1]
    BY <1>2
  <2>2. j + 1 # 1
    BY <2>1
  <2> QED
    BY <2>1, <2>2 DEF TurnInv
<1> QED
  BY <1>1, <1>3, <1>4, <1>5 DEF TurnInv

LEMMA TurnNames ==
  ASSUME ChainInv, TurnInv, ReadName
  PROVE  TurnInv'
<1>1. PICK m, e : NameIsRead(m, e)
  BY NameReads
<1>2. /\ line # <<>> /\ line' = Tail(line) /\ m = Head(line) /\ m.type = "SD"
      /\ \A j \in DOMAIN queue' : j = 1 \/ queue'[j] \in ToSet(queue) \/ queue'[j].type # "SD"
  BY <1>1 DEF NameIsRead
<1>3. /\ m = line[1] /\ 1 \in DOMAIN line
      /\ \A i \in DOMAIN line' : i \in Nat /\ i > 0 /\ i + 1 \in DOMAIN line /\ line'[i] = line[i + 1]
  BY <1>2, TailOf DEF ChainInv
<1>4. ASSUME NEW i \in DOMAIN line' PROVE ~line'[i].reply /\ line'[i].type # "SD"
  <2>1. i \in Nat /\ i > 0 /\ i + 1 \in DOMAIN line /\ line'[i] = line[i + 1]
    BY <1>3
  <2>2. i + 1 # 1
    BY <2>1
  <2> QED
    BY <1>2, <1>3, <2>1, <2>2 DEF TurnInv
<1>5. ASSUME NEW j \in DOMAIN queue', queue'[j].type = "SD", queue'[j].unit > 0 PROVE j = 1
  BY <1>2, <1>3, <1>5 DEF TurnInv, ToSet
<1> QED
  BY <1>4, <1>5 DEF TurnInv

LEMMA TurnStep ==
  ASSUME PanelInv, PanelInv', ChainInv, TurnInv, [Next]_vars
  PROVE  TurnInv'
<1>1. CASE PanelChanges
  <2>1. PICK m : Told(m)
    BY <1>1, ChangesTold
  <2>2. m \in Replies /\ line' = Append(line, m) /\ m.type # "SD" /\ ~m.reply /\ UNCHANGED queue
    BY <2>1 DEF Told
  <2> DEFINE n == Len(line) + 1
  <2>3. /\ line'[n] = m
        /\ \A i \in DOMAIN line : line'[i] = line[i]
        /\ \A i \in DOMAIN line' : i = n \/ i \in DOMAIN line
    BY <2>2, AppendOf DEF ChainInv
  <2> HIDE DEF n
  <2> QED
    BY <2>2, <2>3 DEF TurnInv
<1>2. ASSUME ~Serve, ~ReadName, ~PanelChanges PROVE TurnInv'
  <2>1. Grows
    BY <1>2, OthersGrow
  <2>2. (line # <<>> /\ line' = Tail(line)) \/ line' = <<>> \/ UNCHANGED line
    BY <1>2 DEF Next, PanelChanges, Lose, ReadStatus, ReadNoName, ReadInstallerExit, Read, Connected, PollBegins,
       PollEnds, PollTimesOut, vars
  <2> QED
    BY <2>1, <2>2, TurnReads
<1> QED
  BY <1>1, <1>2, TurnServes, TurnNames

\* What is requested when an element is configured is in the queue.
Asked(e) == \A t \in ToSet(OnConfigured(e)) : Ask(t, e[1], e[2]) \in ToSet(queue)

\* The elements a chain has come past have a name in the panel, and what they
\* request waits for the chain to end.
PassedInv ==
  /\ \A e \in configured : e[1] = "panel" \/ panel[<<e, "name">>] > 0
  /\ \A a \in ToSet(queue) : a.type = "SD" =>
       \A e \in configured : e[1] = a.kind /\ e[2] < a.unit => Asked(e)
  /\ \A m \in ToSet(line) : m.type = "SD" =>
       \A e \in configured : e[1] = m.kind /\ (m.unit = None \/ e[2] < m.unit) => Asked(e)

\* The panel's own element, users and zones request nothing.
LEMMA SomeAskNothing == \A e : e[1] \in {"panel", "users", "zones"} => ToSet(OnConfigured(e)) = {}
<1>1. Collection["panel"].configured = <<>>
  BY DEF Collection, Panel
<1>2. Collection["users"].configured = <<>>
  BY DEF Collection, Users
<1>3. Collection["zones"].configured = <<>>
  BY DEF Collection, Zones
<1>4. ToSet(<<>>) = {}
  BY DEF ToSet
<1> QED
  BY <1>1, <1>2, <1>3, <1>4 DEF OnConfigured

LEMMA PassedOthers ==
  ASSUME ChainInv, PanelInv, PanelInv', PassedInv, Grows, UNCHANGED configured,
         \A p \in Pair : panel[p] <= panel'[p],
         \A x \in ToSet(line') : x \in ToSet(line) \/ x.type # "SD"
  PROVE  PassedInv'
<1>1. \A e : Asked(e) => Asked(e)'
  BY DEF Asked, Grows
<1>2. ASSUME NEW e \in configured PROVE e[1] = "panel" \/ panel'[<<e, "name">>] > 0
  <2>1. <<e, "name">> \in Pair
    BY ElementParts DEF ChainInv
  <2>2. panel[<<e, "name">>] \in Nat /\ panel'[<<e, "name">>] \in Nat /\ panel[<<e, "name">>] <= panel'[<<e, "name">>]
    BY <2>1 DEF PanelInv
  <2> QED
    BY <2>2 DEF PassedInv
<1>3. ASSUME NEW a \in ToSet(queue'), a.type = "SD", NEW e \in configured, e[1] = a.kind, e[2] < a.unit
      PROVE  Asked(e)'
  <2>1. a \notin Starts
    <3>1. e[2] \in Nat
      BY ElementParts DEF ChainInv
    <3> QED
      BY <1>3, <3>1 DEF Starts
  <2>2. a \in ToSet(queue)
    BY <2>1 DEF Grows
  <2> QED
    BY <1>1, <1>3, <2>2 DEF PassedInv
<1>4. ASSUME NEW m \in ToSet(line'), m.type = "SD",
             NEW e \in configured, e[1] = m.kind, m.unit = None \/ e[2] < m.unit
      PROVE  Asked(e)'
  BY <1>1, <1>4 DEF PassedInv
<1> QED
  BY <1>2, <1>3, <1>4 DEF PassedInv

\* A reply to a chain's request skips only elements without a name.
LEMMA PassedServe ==
  ASSUME PanelInv, ChainInv, TurnInv, PassedInv, Serve
  PROVE  PassedInv'
<1> DEFINE a == Head(queue)
           m == Answer(a)
<1>1. /\ queue # <<>> /\ queue' = Tail(queue) /\ line' = Append(line, m) /\ \A j \in DOMAIN line : ~line[j].reply
      /\ UNCHANGED <<panel, configured>>
  BY DEF Serve, hubVars
<1>2. /\ a \in Requests /\ a \in ToSet(queue)
      /\ \A x : x \in ToSet(queue) <=> x = a \/ x \in ToSet(queue')
      /\ \A j \in DOMAIN queue' : j \in Nat /\ j > 0 /\ j + 1 \in DOMAIN queue /\ queue'[j] = queue[j + 1]
  BY <1>1, TailOf DEF ChainInv
<1>3. /\ m \in Replies /\ m.type = a.type /\ m.kind = a.kind
      /\ a.type = "SD" => m.unit = NextNamed(a.kind, a.unit)
  BY <1>2, AnswerType, AnswerValues
<1> HIDE DEF m
<1>4. \A x : x \in ToSet(line') <=> x = m \/ x \in ToSet(line)
  <2>1. line' = Append(line, m) /\ m \in Replies /\ line \in Seq(Replies)
    BY <1>1, <1>3 DEF ChainInv
  <2>2. \A x : x \in ToSet(Append(line, m)) <=> x = m \/ x \in ToSet(line)
    BY <2>1, AppendSet
  <2> QED
    BY <2>1, <2>2
<1>5. ASSUME NEW x \in ToSet(queue'), x.type = "SD" PROVE ~(x.unit > 0)
  <2>1. PICK j \in DOMAIN queue' : x = queue'[j]
    BY DEF ToSet
  <2>2. j \in Nat /\ j > 0 /\ j + 1 \in DOMAIN queue /\ x = queue[j + 1]
    BY <1>2, <2>1
  <2>3. j + 1 # 1
    BY <2>2
  <2> QED
    BY <1>5, <2>2, <2>3 DEF TurnInv
<1>6. ASSUME NEW x \in ToSet(queue'), x.type = "SD", NEW e \in configured, e[2] < x.unit PROVE FALSE
  <2>1. x \in Requests
    <3>1. x \in ToSet(queue)
      BY <1>2
    <3> QED
      BY <3>1, LenProperties, ElementOfSeq DEF ChainInv, ToSet
  <2>2. x.unit \in Nat
    BY <1>6, <2>1 DEF Requests
  <2>3. e[2] \in Nat
    BY ElementParts DEF ChainInv
  <2>4. x.unit > 0
    BY <1>6, <2>2, <2>3
  <2> QED
    BY <1>5, <1>6, <2>4
<1>7. \A x \in ToSet(line) : x.type # "SD"
  BY <1>1 DEF TurnInv, ToSet
<1>8. ASSUME m.type = "SD", NEW e \in configured, e[1] = m.kind, m.unit = None \/ e[2] < m.unit
      PROVE  Asked(e)'
  <2>1. e \in Element /\ a.type = "SD" /\ a.kind \in Kinds /\ a.unit \in Nat /\ e[1] = a.kind
    BY <1>2, <1>3, <1>8 DEF ChainInv, Requests
  <2>2. e[2] \in Nat
    BY <2>1, ElementParts
  <2>3. CASE e[1] = "panel"
    <3>1. ToSet(OnConfigured(e)) = {}
      BY <2>3, SomeAskNothing
    <3> QED
      BY <3>1 DEF Asked
  <2>4. CASE e[1] # "panel"
    <3>1. panel[<<e, "name">>] > 0
      BY <2>4 DEF PassedInv
    <3>2. ~(e[2] >= a.unit)
      <4> DEFINE k == a.kind n == a.unit u == NextNamed(k, n)
      <4>1. k \in Kinds /\ n \in Nat /\ e[1] = k /\ (u = None \/ e[2] < u)
        BY <1>3, <1>8, <2>1
      <4> HIDE DEF k, n
      <4>2. \/ /\ u = None
               /\ \A f \in Element : f[1] = k /\ f[2] >= n => ~(panel[<<f, "name">>] > 0)
            \/ /\ u \in Nat
               /\ \A f \in Element : f[1] = k /\ f[2] >= n /\ f[2] < u => ~(panel[<<f, "name">>] > 0)
        BY <4>1, NextNamedIs
      <4> HIDE DEF u
      <4>3. ~(e[2] >= n)
        BY <2>1, <3>1, <4>1, <4>2 DEF None
      <4> QED
        BY <4>3 DEF n
    <3>3. e[2] < a.unit
      BY <2>1, <2>2, <3>2
    <3>4. Asked(e)
      BY <1>2, <2>1, <3>3 DEF PassedInv
    <3>5. \A t : Ask(t, e[1], e[2]) # a \/ t = "SD"
      BY <2>1 DEF Ask
    <3>6. "SD" \notin ToSet(OnConfigured(e))
      <4>1. e[1] \in Collections
        BY <2>1, ElementParts
      <4>2. OnConfigured(e) \in Seq({"CV", "TR"})
        BY <4>1, AllDeclare DEF Declares, OnConfigured
      <4> QED
        BY <4>2, LenProperties, ElementOfSeq DEF ToSet
    <3> QED
      BY <1>2, <3>4, <3>5, <3>6 DEF Asked
  <2> QED
    BY <2>3, <2>4
<1> QED
  BY <1>1, <1>4, <1>6, <1>7, <1>8 DEF PassedInv

\* The request that goes on with the chain comes with those of the element.
LEMMA PassedName ==
  ASSUME PanelInv, ChainInv, GrowInv, TurnInv, PassedInv, ReadName
  PROVE  PassedInv'
<1>1. PICK m, e : NameIsRead(m, e)
  BY NameReads
<1> DEFINE name == <<e, "name">>
<1>2. /\ m \in Replies /\ m = Head(line) /\ line # <<>> /\ line' = Tail(line)
      /\ m.type = "SD" /\ m.unit \in Nat /\ m.kind \in Kinds
      /\ e = <<m.kind, m.unit>> /\ e \in Element /\ name \in Pair /\ name \in DOMAIN m.values
      /\ configured \subseteq configured' /\ configured' \subseteq configured \cup {e}
      /\ (e \in configured' \ configured \/ m.kind # "users" => m.values[name] > 0)
      /\ UNCHANGED panel
  BY <1>1 DEF NameIsRead
<1>3. /\ Ask("SD", m.kind, m.unit + 1) \in ToSet(queue')
      /\ (m.values[name] > 0 =>
            \A t \in ToSet(OnConfigured(e)) : Ask(t, m.kind, m.unit) \in ToSet(queue'))
      /\ \A a \in ToSet(queue) : a \in ToSet(queue')
      /\ \A a \in ToSet(queue') : a \in ToSet(queue) \/ a.type # "SD" \/ a = Ask("SD", m.kind, m.unit + 1)
  BY <1>1 DEF NameIsRead
<1>4. m = line[1] /\ 1 \in DOMAIN line /\ m \in ToSet(line)
  BY <1>2, TailOf DEF ChainInv
<1>5. m.values[name] <= panel[name] /\ m.values[name] \in Nat /\ panel[name] \in Nat
  <2>1. m.values[name] <= panel[name] /\ m.values[name] \in Nat
    BY <1>2, <1>4, ValuesAre DEF GrowInv
  <2> QED
    BY <1>2, <2>1 DEF PanelInv
<1>6. \A f \in configured : Asked(f) => Asked(f)'
  BY <1>3 DEF Asked
<1>7. e[1] = m.kind /\ e[2] = m.unit
  BY <1>2
<1>8. CASE e[1] = "panel"
  <2>1. configured' = configured
    BY <1>2, <1>8 DEF ChainInv
  <2>2. ASSUME NEW a \in ToSet(queue'), a.type = "SD", NEW f \in configured', f[1] = a.kind, f[2] < a.unit
        PROVE  Asked(f)'
    <3>1. CASE f[1] = "panel"
      <4>1. ToSet(OnConfigured(f)) = {}
        BY <3>1, SomeAskNothing
      <4> QED
        BY <4>1 DEF Asked
    <3>2. CASE f[1] # "panel"
      <4>1. a \in ToSet(queue)
        BY <1>3, <1>7, <1>8, <2>2, <3>2 DEF Ask
      <4> QED
        BY <1>6, <2>1, <2>2, <4>1 DEF PassedInv
    <3> QED
      BY <3>1, <3>2
  <2>3. \A x \in ToSet(line') : x \in ToSet(line)
    BY <1>2, TailOf DEF ChainInv
  <2> QED
    BY <1>2, <1>6, <2>1, <2>2, <2>3 DEF PassedInv
<1>9. CASE e[1] # "panel"
  <2>1. ASSUME NEW f \in configured' PROVE f[1] = "panel" \/ panel'[<<f, "name">>] > 0
    <3>1. CASE f \in configured
      BY <1>2, <3>1 DEF PassedInv
    <3>2. CASE f = e /\ e \notin configured
      BY <1>2, <1>5, <2>1, <3>2
    <3> QED
      BY <1>2, <3>1, <3>2
  <2>2. \A x \in ToSet(line') : x.type # "SD"
    <3>1. ASSUME NEW i \in DOMAIN line' PROVE line'[i].type # "SD"
      <4>1. i \in Nat /\ i > 0 /\ i + 1 \in DOMAIN line /\ line'[i] = line[i + 1]
        BY <1>2, TailOf DEF ChainInv
      <4>2. i + 1 # 1
        BY <4>1
      <4> QED
        BY <1>2, <1>4, <4>1, <4>2 DEF TurnInv
    <3> QED
      BY <3>1 DEF ToSet
  <2>3. ASSUME e \in configured' PROVE Asked(e)'
    <3>1. CASE m.kind = "users"
      <4>1. ToSet(OnConfigured(e)) = {}
        BY <1>7, <3>1, SomeAskNothing
      <4> QED
        BY <4>1 DEF Asked
    <3>2. CASE m.kind # "users"
      BY <1>2, <1>3, <1>7, <3>2 DEF Asked
    <3> QED
      BY <3>1, <3>2
  <2>4. ASSUME NEW a \in ToSet(queue'), a.type = "SD", NEW f \in configured', f[1] = a.kind, f[2] < a.unit
        PROVE  Asked(f)'
    <3>1. f \in Element /\ f[2] \in Nat /\ f = <<f[1], f[2]>>
      <4>1. f \in Element
        BY <1>2 DEF ChainInv
      <4> QED
        BY <4>1, ElementParts
    <3>2. CASE f = e
      BY <2>3, <2>4, <3>2
    <3>3. CASE f # e /\ a = Ask("SD", m.kind, m.unit + 1)
      <4>1. f \in configured /\ f[1] = m.kind /\ f[2] < m.unit
        <5>1. f[1] = m.kind /\ f[2] < m.unit + 1
          BY <2>4, <3>3 DEF Ask
        <5>2. f[2] # m.unit
          BY <1>2, <3>1, <3>3, <5>1
        <5> QED
          BY <1>2, <2>4, <3>1, <3>3, <5>1, <5>2
      <4> QED
        BY <1>2, <1>4, <1>6, <4>1 DEF PassedInv
    <3>4. CASE f # e /\ a \in ToSet(queue)
      BY <1>2, <1>6, <2>4, <3>4 DEF PassedInv
    <3> QED
      BY <1>3, <2>4, <3>2, <3>3, <3>4
  <2> QED
    BY <2>1, <2>2, <2>4 DEF PassedInv
<1> QED
  BY <1>8, <1>9

LEMMA PassedStep ==
  ASSUME PanelInv, PanelInv', ChainInv, GrowInv, TurnInv, PassedInv, [Next]_vars
  PROVE  PassedInv'
<1>1. CASE PanelChanges
  <2>1. PICK m : Told(m)
    BY <1>1, ChangesTold
  <2>2. /\ m \in Replies /\ line' = Append(line, m) /\ m.type # "SD" /\ UNCHANGED <<queue, configured>>
        /\ \A p \in Pair : panel[p] <= panel'[p]
    BY <2>1 DEF Told, hubVars
  <2>3. \A x \in ToSet(line') : x \in ToSet(line) \/ x.type # "SD"
    BY <2>2, AppendSet DEF ChainInv
  <2> QED
    BY <2>2, <2>3, NothingAsked, PassedOthers
<1>2. ASSUME ~Serve, ~ReadName, ~PanelChanges PROVE PassedInv'
  <2>1. Grows
    BY <1>2, OthersGrow
  <2>2. /\ (line # <<>> /\ line' = Tail(line)) \/ line' = <<>> \/ UNCHANGED line
        /\ UNCHANGED <<configured, panel>>
    BY <1>2 DEF Next, PanelChanges, Lose, ReadStatus, ReadNoName, ReadInstallerExit, Read, Connected, PollBegins,
       PollEnds, PollTimesOut, vars, hubVars
  <2>3. \A x \in ToSet(line') : x \in ToSet(line)
    <3>1. ToSet(<<>>) = {}
      BY DEF ToSet
    <3> QED
      BY <2>2, <3>1, TailOf DEF ChainInv
  <2>4. \A p \in Pair : panel[p] <= panel'[p]
    BY <2>2 DEF PanelInv
  <2> QED
    BY <2>1, <2>2, <2>3, <2>4, PassedOthers
<1> QED
  BY <1>1, <1>2, PassedServe, PassedName

\* What a status reply to a request tells.
Answers(a, p) ==
  /\ a.type # "SD" /\ <<p[1][1], p[2]>> \in Carries[a.type]
  /\ a.type \in {"CV", "TR", "ZV"} => p[1] = <<a.kind, a.unit>>

\* What the hub asks for.
Wanted(p) ==
  \/ <<p[1][1], p[2]>> \in Synced
  \/ <<p[1][1], p[2]>> \in Fetched(p[1]) /\ p[1] \in configured \cup Analog

\* The mirror shows the panel's value, or will when the line is read.
Known(p) ==
  \/ mirror[p] = panel[p]
  \/ \E m \in ToSet(line) : p \in DOMAIN m.values /\ m.values[p] = panel[p]

\* An AS that shows an alarm that the hub has not seen.
AlarmComes ==
  \E j \in DOMAIN line : \E a \in DOMAIN line[j].values :
    /\ line[j].type = "AS" /\ a[2] = "alarm_state" /\ mirror[a] < line[j].values[a]
    /\ \A i \in DOMAIN line : i < j /\ a \in DOMAIN line[i].values => line[i].values[a] < line[j].values[a]

\* A chain that has not come past e and will be gone on with.
ChainComes(e) ==
  /\ textDesc[e[1]]
  /\ \/ \E a \in ToSet(queue) : a.type = "SD" /\ a.kind = e[1] /\ a.unit <= e[2]
     \/ \E m \in ToSet(line) : m.type = "SD" /\ m.kind = e[1] /\ m.unit # None /\ m.unit <= e[2]

\* The requests of a configured element tell p.
TellsLater(p) == p[1] \in configured /\ \E t \in ToSet(OnConfigured(p[1])) : <<p[1][1], p[2]>> \in Carries[t]

\* It is asked, or something on its way will make the hub ask.
Coming(p) ==
  \/ \E a \in ToSet(queue) : Answers(a, p)
  \/ \E m \in ToSet(line) : m.type = "IE"
  \/ p[2] = "triggered_alarm" /\ AlarmComes
  \/ p[2] = "logical_status" /\ \E m \in ToSet(line) : m.type = "ZB" /\ m.unit = None
  \/ /\ p[1] \in Analog /\ <<p[1][1], p[2]>> \in Carries["ZV"]
     /\ (\E a \in ToSet(queue) : a.type = "ZD") \/ \E m \in ToSet(line) : m.type = "ZD"
  \/ TellsLater(p) /\ ChainComes(p[1])

\* Unless something was lost, whatever is wanted is known or coming.
FreshInv == opened /\ ~lost => \A p \in Pair : Wanted(p) => Known(p) \/ Coming(p)

LEMMA WantedIsNoName ==
  ASSUME NEW p \in Pair, <<p[1][1], p[2]>> \in Synced \cup Fetched(p[1])
  PROVE  p[2] # "name"
<1>1. ASSUME NEW t \in AskTypes, <<p[1][1], p[2]>> \in Carries[t] PROVE p[2] # "name"
  BY <1>1, AskTypesAreHeard, OnlySDNames DEF Carries
<1>2. CASE <<p[1][1], p[2]>> \in Synced
  <2>1. PICK k \in Kinds : \E t \in ToSet(Sync(k)) : <<p[1][1], p[2]>> \in Carries[t]
    BY <1>2 DEF Synced
  <2> PICK t \in ToSet(Sync(k)) : <<p[1][1], p[2]>> \in Carries[t]
    BY <2>1
  <2>2. t \in AskTypes
    <3>1. Sync(k) \in Seq(AskTypes)
      BY AllDeclare, ElementAssumption DEF Declares, Sync, ElementAssumption
    <3> QED
      BY <2>1, <3>1, LenProperties, ElementOfSeq DEF ToSet
  <2> QED
    BY <1>1, <2>1, <2>2
<1>3. CASE <<p[1][1], p[2]>> \in Fetched(p[1])
  <2>1. PICK t \in ToSet(OnConfigured(p[1])) \cup {"ZV"} : <<p[1][1], p[2]>> \in Carries[t]
    BY <1>3 DEF Fetched
  <2>2. t \in AskTypes
    <3>1. p[1] \in Element
      BY DEF Pair
    <3>2. p[1][1] \in Collections
      BY <3>1, ElementParts
    <3>3. OnConfigured(p[1]) \in Seq({"CV", "TR"})
      BY <3>2, AllDeclare DEF Declares, OnConfigured
    <3> QED
      BY <2>1, <3>3, LenProperties, ElementOfSeq DEF ToSet, AskTypes
  <2> QED
    BY <1>1, <2>1, <2>2
<1> QED
  BY <1>2, <1>3

\* What a resync asks of a collection is in the queue.
LEMMA JoinKeeps ==
  ASSUME NEW S, NEW s \in Seq(S), NEW t \in Seq(S)
  PROVE  s \o t \in Seq(S) /\ ToSet(s) \subseteq ToSet(s \o t) /\ ToSet(t) \subseteq ToSet(s \o t)
  BY ConcatOf

LEMMA ResyncAsks ==
  ASSUME NEW k \in Kinds, NEW t \in ToSet(Sync(k))
  PROVE  Ask(t, k, 0) \in ToSet(Resync)
<1> DEFINE s1 == SyncOf("panel") s2 == SyncOf("zones") s3 == SyncOf("lights") s4 == SyncOf("areas")
           s5 == SyncOf("tasks") s6 == SyncOf("keypads") s7 == SyncOf("outputs")
           s8 == SyncOf("thermostats") s9 == SyncOf("counters") s10 == SyncOf("settings") s11 == SyncOf("users")
           j2 == s1 \o s2 j3 == j2 \o s3 j4 == j3 \o s4 j5 == j4 \o s5 j6 == j5 \o s6 j7 == j6 \o s7
           j8 == j7 \o s8 j9 == j8 \o s9 j10 == j9 \o s10 j11 == j10 \o s11
           ua == <<Ask("UA", "panel", 0)>>
<1>1. /\ s1 \in Seq(Starts) /\ s2 \in Seq(Starts) /\ s3 \in Seq(Starts) /\ s4 \in Seq(Starts)
      /\ s5 \in Seq(Starts) /\ s6 \in Seq(Starts) /\ s7 \in Seq(Starts) /\ s8 \in Seq(Starts)
      /\ s9 \in Seq(Starts) /\ s10 \in Seq(Starts) /\ s11 \in Seq(Starts)
  BY SyncOfType DEF Collections
<1>2. SyncRequests = j11
  BY DEF SyncRequests
<1>3. k \in Collections
  BY ElementAssumption DEF ElementAssumption
<1>4. SyncOf(k) \in {s1, s2, s3, s4, s5, s6, s7, s8, s9, s10, s11}
  BY <1>3 DEF Collections
<1>5. ua \in Seq(Starts)
  <2>1. Ask("UA", "panel", 0) \in Starts
    BY PlainRequest DEF AskTypes, Collections
  <2> QED
    BY <2>1
<1> HIDE DEF s1, s2, s3, s4, s5, s6, s7, s8, s9, s10, s11, ua
<1>6. j2 \in Seq(Starts) /\ ToSet(s1) \subseteq ToSet(j2) /\ ToSet(s2) \subseteq ToSet(j2)
  BY <1>1, JoinKeeps
<1> HIDE DEF j2
<1>7. j3 \in Seq(Starts) /\ ToSet(j2) \subseteq ToSet(j3) /\ ToSet(s3) \subseteq ToSet(j3)
  BY <1>1, <1>6, JoinKeeps
<1> HIDE DEF j3
<1>8. j4 \in Seq(Starts) /\ ToSet(j3) \subseteq ToSet(j4) /\ ToSet(s4) \subseteq ToSet(j4)
  BY <1>1, <1>7, JoinKeeps
<1> HIDE DEF j4
<1>9. j5 \in Seq(Starts) /\ ToSet(j4) \subseteq ToSet(j5) /\ ToSet(s5) \subseteq ToSet(j5)
  BY <1>1, <1>8, JoinKeeps
<1> HIDE DEF j5
<1>10. j6 \in Seq(Starts) /\ ToSet(j5) \subseteq ToSet(j6) /\ ToSet(s6) \subseteq ToSet(j6)
  BY <1>1, <1>9, JoinKeeps
<1> HIDE DEF j6
<1>11. j7 \in Seq(Starts) /\ ToSet(j6) \subseteq ToSet(j7) /\ ToSet(s7) \subseteq ToSet(j7)
  BY <1>1, <1>10, JoinKeeps
<1> HIDE DEF j7
<1>12. j8 \in Seq(Starts) /\ ToSet(j7) \subseteq ToSet(j8) /\ ToSet(s8) \subseteq ToSet(j8)
  BY <1>1, <1>11, JoinKeeps
<1> HIDE DEF j8
<1>13. j9 \in Seq(Starts) /\ ToSet(j8) \subseteq ToSet(j9) /\ ToSet(s9) \subseteq ToSet(j9)
  BY <1>1, <1>12, JoinKeeps
<1> HIDE DEF j9
<1>14. j10 \in Seq(Starts) /\ ToSet(j9) \subseteq ToSet(j10) /\ ToSet(s10) \subseteq ToSet(j10)
  BY <1>1, <1>13, JoinKeeps
<1> HIDE DEF j10
<1>15. j11 \in Seq(Starts) /\ ToSet(j10) \subseteq ToSet(j11) /\ ToSet(s11) \subseteq ToSet(j11)
  BY <1>1, <1>14, JoinKeeps
<1> HIDE DEF j11
<1>16. Resync = j11 \o ua
  BY <1>2 DEF Resync, ua
<1>17. ToSet(j11) \subseteq ToSet(Resync)
  BY <1>5, <1>15, <1>16, JoinKeeps
<1>18. ToSet(SyncOf(k)) \subseteq ToSet(Resync)
  BY <1>4, <1>6, <1>7, <1>8, <1>9, <1>10, <1>11, <1>12, <1>13, <1>14, <1>15, <1>17
<1>19. Ask(t, k, 0) \in ToSet(SyncOf(k))
  BY DEF SyncOf, ToSet
<1> QED
  BY <1>18, <1>19

\* A resync asks for everything that is wanted, or begins what leads to it.
LEMMA ResyncFresh ==
  ASSUME ChainInv, StartsResync, UNCHANGED configured, NEW p \in Pair, Wanted(p)
  PROVE  Coming(p)'
<1>1. \A k \in Kinds : \A t \in ToSet(Sync(k)) : Ask(t, k, 0) \in ToSet(queue')
  <2>1. \A x \in ToSet(Resync) : x \in ToSet(queue')
    BY GrowsBy, ResyncType DEF StartsResync
  <2> QED
    BY <2>1, ResyncAsks
<1>2. CASE <<p[1][1], p[2]>> \in Synced
  <2>1. PICK k \in Kinds : \E t \in ToSet(Sync(k)) : <<p[1][1], p[2]>> \in Carries[t]
    BY <1>2 DEF Synced
  <2> PICK t \in ToSet(Sync(k)) : <<p[1][1], p[2]>> \in Carries[t]
    BY <2>1
  <2>2. t \notin {"SD", "CV", "TR", "ZV"}
    <3>1. Sync(k) \in Seq(AskTypes \ {"CV", "TR", "ZV"})
      BY AllAskOfAll, ElementAssumption DEF AsksOfAll, Sync, ElementAssumption
    <3>2. t # "SD"
      BY SDCarriesNothing
    <3> QED
      BY <3>1, <3>2, LenProperties, ElementOfSeq DEF ToSet
  <2>3. Answers(Ask(t, k, 0), p)
    BY <2>2 DEF Answers, Ask
  <2> QED
    BY <1>1, <2>3 DEF Coming, Answers
<1>3. CASE /\ <<p[1][1], p[2]>> \in Fetched(p[1]) /\ p[1] \in configured \cup Analog
           /\ <<p[1][1], p[2]>> \notin Synced
  <2>1. p[1] \in Element
    BY DEF Pair
  <2>2. /\ p[1][1] \in Kinds /\ p[1][1] \in Collections /\ p[1][2] \in Nat
    BY <2>1, ElementParts
  <2>3. CASE p[1] \in Analog /\ <<p[1][1], p[2]>> \in Carries["ZV"]
    <3>1. p[1][1] = "zones"
      BY <2>3, ElementAssumption DEF ElementAssumption
    <3>2. "ZD" \in ToSet(Sync("zones"))
      <4>1. Sync("zones") = <<"AZ", "ZD", "ZP", "ZS", "SD">>
        BY DEF Sync, Collection, Zones
      <4> QED
        BY <4>1 DEF ToSet
    <3>3. Ask("ZD", "zones", 0) \in ToSet(queue') /\ Ask("ZD", "zones", 0).type = "ZD"
      BY <1>1, <2>2, <3>1, <3>2 DEF Ask
    <3> QED
      BY <2>3, <3>3 DEF Coming
  <2>4. CASE \E t \in ToSet(OnConfigured(p[1])) : <<p[1][1], p[2]>> \in Carries[t]
    <3>1. p[1][1] \notin {"panel", "users", "zones"}
      BY <2>4, SomeAskNothing
    <3>2. p[1] \in configured
      BY <1>3, <3>1, ElementAssumption DEF ElementAssumption
    <3>3. "SD" \in ToSet(Sync(p[1][1]))
      BY <2>2, <3>1, AllAskNames
    <3>4. textDesc'[p[1][1]]
      BY <2>2, <3>3 DEF StartsResync
    <3> DEFINE a == Ask("SD", p[1][1], 0)
    <3>5. a \in ToSet(queue') /\ a.type = "SD" /\ a.kind = p[1][1] /\ a.unit <= p[1][2]
      BY <1>1, <2>2, <3>3 DEF Ask
    <3>6. ChainComes(p[1])'
      BY <3>4, <3>5 DEF ChainComes
    <3>7. TellsLater(p)'
      BY <2>4, <3>2 DEF TellsLater
    <3> QED
      BY <3>6, <3>7 DEF Coming
  <2> QED
    BY <1>3, <2>3, <2>4 DEF Fetched
<1> QED
  BY <1>2, <1>3 DEF Wanted

\* What comes stays so while nothing is read.
LEMMA AlarmStays ==
  ASSUME AlarmComes, UNCHANGED mirror,
         \A i \in DOMAIN line : i \in DOMAIN line' /\ line'[i] = line[i],
         \A i \in DOMAIN line' : \A j \in DOMAIN line : i < j => i \in DOMAIN line
  PROVE  AlarmComes'
<1>1. PICK j \in DOMAIN line : \E a \in DOMAIN line[j].values :
        /\ line[j].type = "AS" /\ a[2] = "alarm_state" /\ mirror[a] < line[j].values[a]
        /\ \A i \in DOMAIN line : i < j /\ a \in DOMAIN line[i].values => line[i].values[a] < line[j].values[a]
  BY DEF AlarmComes
<1> PICK a \in DOMAIN line[j].values :
      /\ line[j].type = "AS" /\ a[2] = "alarm_state" /\ mirror[a] < line[j].values[a]
      /\ \A i \in DOMAIN line : i < j /\ a \in DOMAIN line[i].values => line[i].values[a] < line[j].values[a]
  BY <1>1
<1>2. j \in DOMAIN line' /\ line'[j] = line[j]
  OBVIOUS
<1>3. \A i \in DOMAIN line' : i < j /\ a \in DOMAIN line'[i].values => line'[i].values[a] < line'[j].values[a]
  BY <1>2
<1> QED
  BY <1>2, <1>3 DEF AlarmComes

LEMMA ComingStays ==
  ASSUME UNCHANGED <<mirror, configured, textDesc>>, NEW p, Coming(p),
         \A x \in ToSet(queue) : x \in ToSet(queue'),
         \A x \in ToSet(line) : x \in ToSet(line'),
         \A i \in DOMAIN line : i \in DOMAIN line' /\ line'[i] = line[i],
         \A i \in DOMAIN line' : \A j \in DOMAIN line : i < j => i \in DOMAIN line
  PROVE  Coming(p)'
<1>1. AlarmComes => AlarmComes'
  BY AlarmStays
<1>2. ChainComes(p[1]) => ChainComes(p[1])'
  BY DEF ChainComes
<1>3. TellsLater(p) => TellsLater(p)'
  BY DEF TellsLater
<1> QED
  BY <1>1, <1>2, <1>3 DEF Coming, Answers

LEMMA KnownStays ==
  ASSUME UNCHANGED mirror, NEW p \in Pair, Known(p), panel'[p] = panel[p],
         \A x \in ToSet(line) : x \in ToSet(line')
  PROVE  Known(p)'
  BY DEF Known

LEMMA WantedStays ==
  ASSUME UNCHANGED configured, NEW p
  PROVE  Wanted(p)' <=> Wanted(p)
  BY DEF Wanted, Fetched

\* A reply or a broadcast comes last.
LEMMA LineGrows ==
  ASSUME ChainInv, NEW m \in Replies, line' = Append(line, m)
  PROVE  /\ Len(line) + 1 \in DOMAIN line' /\ line'[Len(line) + 1] = m /\ m \in ToSet(line')
         /\ \A x \in ToSet(line) : x \in ToSet(line')
         /\ \A i \in DOMAIN line : i \in DOMAIN line' /\ line'[i] = line[i]
         /\ \A i \in DOMAIN line' : i < Len(line) + 1 => i \in DOMAIN line
         /\ \A i \in DOMAIN line' : \A j \in DOMAIN line : i < j => i \in DOMAIN line
<1> DEFINE n == Len(line) + 1
<1>1. /\ Len(line) \in Nat /\ n \in DOMAIN line' /\ line'[n] = m
      /\ \A i \in DOMAIN line : i \in DOMAIN line' /\ i \in Nat /\ i < n /\ line'[i] = line[i]
      /\ \A i \in DOMAIN line' : i = n \/ i \in DOMAIN line
  BY AppendOf DEF ChainInv
<1>2. \A x : x \in ToSet(Append(line, m)) <=> x = m \/ x \in ToSet(line)
  BY AppendSet DEF ChainInv
<1>3. n \in Nat
  BY <1>1
<1> HIDE DEF n
<1>4. \A i \in DOMAIN line' : i < n => i \in DOMAIN line
  BY <1>1, <1>3
<1>5. \A i \in DOMAIN line' : \A j \in DOMAIN line : i < j => i \in DOMAIN line
  BY <1>1, <1>3
<1> QED
  BY <1>1, <1>2, <1>4, <1>5 DEF n

\* Whatever the panel changes is told, or will be asked for.
LEMMA FreshChanges ==
  ASSUME PanelInv, PanelInv', ChainInv, GrowInv, PanelChanges, NEW p \in Pair, Known(p) \/ Coming(p)
  PROVE  Known(p)' \/ Coming(p)'
<1>1. PICK m : Told(m)
  BY ChangesTold
<1>2. /\ m \in Replies /\ line' = Append(line, m)
      /\ \A q \in DOMAIN m.values : m.values[q] = panel'[q]
      /\ panel'[p] # panel[p] => Tells(m, p)
      /\ UNCHANGED <<mirror, configured, textDesc, queue>>
  BY <1>1 DEF Told, hubVars
<1> DEFINE n == Len(line) + 1
<1>3. /\ n \in DOMAIN line' /\ line'[n] = m /\ m \in ToSet(line')
      /\ \A x \in ToSet(line) : x \in ToSet(line')
      /\ \A i \in DOMAIN line : i \in DOMAIN line' /\ line'[i] = line[i]
      /\ \A i \in DOMAIN line' : i < n => i \in DOMAIN line
      /\ \A i \in DOMAIN line' : \A j \in DOMAIN line : i < j => i \in DOMAIN line
  BY <1>2, LineGrows
<1> HIDE DEF n
<1>4. CASE panel'[p] = panel[p]
  BY <1>2, <1>3, <1>4, KnownStays, ComingStays
<1>5. CASE p \in DOMAIN m.values
  BY <1>2, <1>3, <1>5 DEF Known
<1>6. CASE m.type = "IE" \/ (p[2] = "logical_status" /\ m.type = "ZB" /\ m.unit = None)
  BY <1>3, <1>6 DEF Coming
<1>7. CASE p[2] = "triggered_alarm" /\ m.type = "AS"
           /\ \E a \in DOMAIN m.values : a[2] = "alarm_state" /\ m.values[a] = panel[a] + 1
  <2>1. PICK a \in DOMAIN m.values : a[2] = "alarm_state" /\ m.values[a] = panel[a] + 1
    BY <1>7
  <2>2. a \in Pair
    BY <1>2 DEF Replies, Readings
  <2>3. panel[a] \in Nat /\ mirror[a] \in Nat /\ mirror[a] <= panel[a]
    BY <2>2 DEF PanelInv, ChainInv, GrowInv
  <2>4. mirror'[a] < line'[n].values[a]
    BY <1>2, <1>3, <2>1, <2>3
  <2>5. ASSUME NEW i \in DOMAIN line', i < n, a \in DOMAIN line'[i].values
        PROVE  line'[i].values[a] < line'[n].values[a]
    <3>1. i \in DOMAIN line /\ line'[i] = line[i] /\ a \in DOMAIN line[i].values
      BY <1>3, <2>5
    <3>2. line[i].values[a] \in Nat /\ line[i].values[a] <= panel[a]
      BY <3>1, ValuesAre DEF GrowInv
    <3> QED
      BY <1>3, <2>1, <2>3, <3>1, <3>2
  <2>6. AlarmComes'
    BY <1>3, <1>7, <2>1, <2>4, <2>5 DEF AlarmComes
  <2> QED
    BY <1>7, <2>6 DEF Coming
<1> QED
  BY <1>2, <1>4, <1>5, <1>6, <1>7 DEF Tells

\* A request that tells p is answered with it, and the others bring their
\* answer on the line.
LEMMA FreshServe ==
  ASSUME PanelInv, ChainInv, PassedInv, Serve, NEW p \in Pair, Known(p) \/ Coming(p)
  PROVE  Known(p)' \/ Coming(p)'
<1> DEFINE a == Head(queue)
           m == Answer(a)
<1>1. /\ queue # <<>> /\ queue' = Tail(queue) /\ line' = Append(line, m)
      /\ UNCHANGED <<panel, mirror, configured, textDesc>>
  BY DEF Serve, hubVars
<1>2. a \in Requests /\ a \in ToSet(queue) /\ \A x \in ToSet(queue) : x = a \/ x \in ToSet(queue')
  BY <1>1, TailOf DEF ChainInv
<1>3. /\ m \in Replies /\ m.type = a.type /\ m.kind = a.kind
      /\ \A q \in DOMAIN m.values : m.values[q] = panel[q]
      /\ a.type = "SD" => m.unit = NextNamed(a.kind, a.unit)
  BY <1>2, AnswerType, AnswerValues
<1>4. ASSUME Answers(a, p) PROVE p \in DOMAIN m.values
  <2>1. a.type # "SD" /\ <<p[1][1], p[2]>> \in Carries[a.type] /\ p[1] \in Element
    BY <1>4 DEF Answers, Pair
  <2> DEFINE es == IF a.type \in {"CV", "TR", "ZV"} THEN {<<a.kind, a.unit>>} ELSE Element
  <2>2. p[1] \in es
    BY <1>4, <2>1 DEF Answers
  <2>3. m.values = Values(a.type, es)
    BY <2>1 DEF Answer, Message
  <2> HIDE DEF es, m, a
  <2> QED
    BY <2>1, <2>2, <2>3 DEF Values
<1> HIDE DEF m
<1>5. /\ m \in ToSet(line') /\ \A x \in ToSet(line) : x \in ToSet(line')
      /\ \A i \in DOMAIN line : i \in DOMAIN line' /\ line'[i] = line[i]
      /\ \A i \in DOMAIN line' : \A j \in DOMAIN line : i < j => i \in DOMAIN line
  BY <1>1, <1>3, LineGrows
<1>6. CASE Known(p)
  BY <1>1, <1>5, <1>6, KnownStays
<1>7. CASE \E x \in ToSet(queue) : Answers(x, p)
  <2>1. PICK x \in ToSet(queue) : Answers(x, p)
    BY <1>7
  <2>2. CASE x = a
    BY <1>1, <1>3, <1>4, <1>5, <2>1, <2>2 DEF Known
  <2>3. CASE x # a
    BY <1>2, <2>1, <2>3 DEF Coming, Answers
  <2> QED
    BY <2>2, <2>3
<1>8. CASE p[2] = "triggered_alarm" /\ AlarmComes
  BY <1>1, <1>5, <1>8, AlarmStays DEF Coming
<1>9. CASE /\ p[1] \in Analog /\ <<p[1][1], p[2]>> \in Carries["ZV"]
           /\ (\E x \in ToSet(queue) : x.type = "ZD") \/ \E x \in ToSet(line) : x.type = "ZD"
  <2>1. (\E x \in ToSet(queue') : x.type = "ZD") \/ \E x \in ToSet(line') : x.type = "ZD"
    BY <1>2, <1>3, <1>5, <1>9
  <2> QED
    BY <1>9, <2>1 DEF Coming
<1>10. CASE TellsLater(p) /\ ChainComes(p[1])
  <2> DEFINE e == p[1]
  <2>1. /\ e \in Element /\ e \in configured /\ e[2] \in Nat /\ TellsLater(p)'
    BY <1>1, <1>10, ElementParts DEF TellsLater, Pair
  <2>2. panel[<<e, "name">>] > 0
    <3>1. e[1] # "panel"
      BY <1>10, SomeAskNothing DEF TellsLater
    <3> QED
      BY <2>1, <3>1 DEF PassedInv
  <2>3. CASE a.type = "SD" /\ a.kind = e[1] /\ a.unit <= e[2]
    <3> DEFINE k == a.kind n == a.unit u == NextNamed(k, n)
    <3>1. k \in Kinds /\ n \in Nat /\ e[1] = k /\ e[2] >= n /\ m.unit = u /\ m.type = "SD" /\ m.kind = k
      BY <1>2, <1>3, <2>1, <2>3 DEF Requests
    <3> HIDE DEF k, n
    <3>2. \/ /\ u = None
             /\ \A f \in Element : f[1] = k /\ f[2] >= n => ~(panel[<<f, "name">>] > 0)
          \/ /\ u \in Nat
             /\ \A f \in Element : f[1] = k /\ f[2] >= n /\ f[2] < u => ~(panel[<<f, "name">>] > 0)
      BY <3>1, NextNamedIs
    <3> HIDE DEF u, e
    <3>3. u # None /\ u <= e[2]
      BY <2>1, <2>2, <3>1, <3>2 DEF None
    <3>4. ChainComes(e)'
      BY <1>1, <1>5, <1>10, <3>1, <3>3 DEF ChainComes, e
    <3> QED
      BY <2>1, <3>4 DEF Coming, e
  <2>4. CASE ~(a.type = "SD" /\ a.kind = e[1] /\ a.unit <= e[2])
    <3>1. ChainComes(e)'
      BY <1>1, <1>2, <1>5, <1>10, <2>4 DEF ChainComes
    <3> QED
      BY <2>1, <3>1 DEF Coming
  <2> QED
    BY <2>3, <2>4
<1>11. CASE \/ \E x \in ToSet(line) : x.type = "IE"
            \/ p[2] = "logical_status" /\ \E x \in ToSet(line) : x.type = "ZB" /\ x.unit = None
  BY <1>5, <1>11 DEF Coming
<1> QED
  BY <1>6, <1>7, <1>8, <1>9, <1>10, <1>11 DEF Coming

\* What is known stays so when the first message is read.
LEMMA KnownReads ==
  ASSUME PanelInv, ChainInv, GrowInv, line # <<>>, line' = Tail(line), UNCHANGED panel, NEW p \in Pair, Known(p),
         \/ mirror'[p] = Updated(Head(line).values)[p]
         \/ mirror'[p] = mirror[p] /\ p \notin DOMAIN Head(line).values
  PROVE  Known(p)'
<1> DEFINE m == Head(line)
<1>1. m = line[1] /\ 1 \in DOMAIN line /\ \A x \in ToSet(line) : x = m \/ x \in ToSet(line')
  BY TailOf DEF ChainInv
<1>2. p \in DOMAIN m.values => /\ m.values[p] \in Nat /\ mirror[p] <= m.values[p] /\ m.values[p] <= panel[p]
  BY <1>1, ValuesAre DEF GrowInv
<1>3. panel[p] \in Nat /\ mirror[p] \in Nat
  BY DEF PanelInv, ChainInv
<1> HIDE DEF m
<1>4. mirror'[p] = IF p \in DOMAIN m.values THEN m.values[p] ELSE mirror[p]
  BY DEF Updated, m
<1>5. CASE mirror[p] = panel[p]
  <2>1. mirror'[p] = panel[p]
    BY <1>2, <1>3, <1>4, <1>5
  <2> QED
    BY <2>1 DEF Known
<1>6. CASE \E x \in ToSet(line) : p \in DOMAIN x.values /\ x.values[p] = panel[p]
  BY <1>1, <1>4, <1>6 DEF Known
<1> QED
  BY <1>5, <1>6 DEF Known

\* An alarm that has not been seen stays so, unless it is the first message.
LEMMA AlarmReads ==
  ASSUME ChainInv, AlarmComes, line # <<>>, line' = Tail(line),
         \A q \in Pair : q[2] = "alarm_state" =>
           mirror'[q] = IF q \in DOMAIN Head(line).values THEN Head(line).values[q] ELSE mirror[q]
  PROVE  \/ AlarmComes'
         \/ /\ Head(line).type = "AS"
            /\ \E q \in DOMAIN Head(line).values : q[2] = "alarm_state" /\ Head(line).values[q] # mirror[q]
<1> DEFINE m == Head(line)
<1>1. /\ m = line[1] /\ 1 \in DOMAIN line
      /\ \A i \in DOMAIN line' : i \in Nat /\ i > 0 /\ i + 1 \in DOMAIN line /\ line'[i] = line[i + 1]
      /\ \A i \in DOMAIN line : i = 1 \/ (i - 1 \in DOMAIN line' /\ line'[i - 1] = line[i])
  BY TailOf DEF ChainInv
<1> HIDE DEF m
<1>2. PICK j \in DOMAIN line : \E a \in DOMAIN line[j].values :
        /\ line[j].type = "AS" /\ a[2] = "alarm_state" /\ mirror[a] < line[j].values[a]
        /\ \A i \in DOMAIN line : i < j /\ a \in DOMAIN line[i].values => line[i].values[a] < line[j].values[a]
  BY DEF AlarmComes
<1> PICK a \in DOMAIN line[j].values :
      /\ line[j].type = "AS" /\ a[2] = "alarm_state" /\ mirror[a] < line[j].values[a]
      /\ \A i \in DOMAIN line : i < j /\ a \in DOMAIN line[i].values => line[i].values[a] < line[j].values[a]
  BY <1>2
<1>3. a \in Pair /\ mirror[a] \in Nat /\ line[j].values[a] \in Nat
  BY ValuesAre
<1>4. CASE j = 1
  BY <1>1, <1>3, <1>4 DEF m
<1>5. CASE j # 1
  <2> DEFINE k == j - 1
  <2>1. k \in DOMAIN line' /\ line'[k] = line[j] /\ k \in Nat /\ 1 < j /\ j \in Nat
    BY <1>1, <1>5, SMTT(60)
  <2> HIDE DEF k
  <2>2. mirror'[a] < line'[k].values[a]
    <3>1. mirror'[a] = IF a \in DOMAIN m.values THEN m.values[a] ELSE mirror[a]
      BY <1>3 DEF m
    <3>2. a \in DOMAIN m.values => m.values[a] < line[j].values[a]
      BY <1>1, <2>1
    <3> QED
      BY <2>1, <3>1, <3>2
  <2>3. ASSUME NEW i \in DOMAIN line', i < k, a \in DOMAIN line'[i].values
        PROVE  line'[i].values[a] < line'[k].values[a]
    <3>1. i + 1 \in DOMAIN line /\ line'[i] = line[i + 1] /\ i + 1 < j
      BY <1>1, <2>1, <2>3 DEF k
    <3> QED
      BY <2>1, <2>3, <3>1
  <2> QED
    BY <2>1, <2>2, <2>3 DEF AlarmComes
<1> QED
  BY <1>4, <1>5

\* A status message is taken over, and what it hints at is asked.
LEMMA FreshStatus ==
  ASSUME PanelInv, ChainInv, GrowInv, ReadStatus, NEW p \in Pair, Known(p) \/ Coming(p)
  PROVE  Known(p)' \/ Coming(p)'
<1> DEFINE m == Head(line)
<1>1. /\ line # <<>> /\ line' = Tail(line) /\ m.type \notin {"SD", "IE"}
      /\ mirror' = Updated(m.values) /\ queue' = queue \o FollowUps(m)
      /\ UNCHANGED <<panel, configured, textDesc>>
  BY Zenon DEF ReadStatus, Read
<1>2. \A x \in ToSet(line) : x = m \/ x \in ToSet(line')
  BY <1>1, TailOf DEF ChainInv
<1>3. /\ \A x \in ToSet(queue) : x \in ToSet(queue')
      /\ \A x \in ToSet(FollowUps(m)) : x \in ToSet(queue')
  BY <1>1, GrowsBy, FollowUpsType DEF Grows
<1>4. \A a : ToSet(<<a>>) = {a}
  BY DEF ToSet
<1>5. CASE Known(p)
  <2>1. mirror'[p] = Updated(m.values)[p]
    BY <1>1
  <2>2. line # <<>> /\ line' = Tail(line) /\ UNCHANGED panel
    BY <1>1
  <2> QED
    BY <1>5, <2>1, <2>2, KnownReads
<1>6. CASE \E x \in ToSet(queue) : Answers(x, p)
  BY <1>3, <1>6 DEF Coming, Answers
<1>7. CASE \E x \in ToSet(line) : x.type = "IE"
  BY <1>1, <1>2, <1>7 DEF Coming
<1>8. CASE p[2] = "triggered_alarm" /\ AlarmComes
  <2>1. \A q \in Pair : mirror'[q] = IF q \in DOMAIN m.values THEN m.values[q] ELSE mirror[q]
    BY <1>1 DEF Updated
  <2>2. CASE AlarmComes'
    BY <1>8, <2>2 DEF Coming
  <2>3. CASE m.type = "AS" /\ \E q \in DOMAIN m.values : q[2] = "alarm_state" /\ m.values[q] # mirror[q]
    <3> DEFINE a == Ask("AZ", "zones", 0)
    <3>1. FollowUps(m) = <<a>>
      BY <2>3 DEF FollowUps
    <3>2. Answers(a, p)
      <4>1. p[1][1] = "zones"
        BY <1>8, OwnersAreZones DEF ZonesOwn
      <4> QED
        BY <1>8, <4>1, ZonesTellAlarms DEF Answers, Ask
    <3> HIDE DEF a
    <3>3. a \in ToSet(queue')
      BY <1>3, <1>4, <3>1
    <3> QED
      BY <3>2, <3>3 DEF Coming, Answers
  <2> QED
    BY <1>1, <1>8, <2>1, <2>2, <2>3, AlarmReads
<1>9. CASE p[2] = "logical_status" /\ \E x \in ToSet(line) : x.type = "ZB" /\ x.unit = None
  <2>1. CASE \E x \in ToSet(line') : x.type = "ZB" /\ x.unit = None
    BY <1>9, <2>1 DEF Coming
  <2>2. CASE m.type = "ZB" /\ m.unit = None
    <3> DEFINE a == Ask("ZS", "zones", 0)
    <3>1. FollowUps(m) = <<a>>
      BY <2>2 DEF FollowUps
    <3>2. Answers(a, p)
      <4>1. p[1][1] = "zones"
        BY <1>9, OwnersAreZones DEF ZonesOwn
      <4> QED
        BY <1>9, <4>1, ZonesTellAlarms DEF Answers, Ask
    <3> HIDE DEF a
    <3>3. a \in ToSet(queue')
      BY <1>3, <1>4, <3>1
    <3> QED
      BY <3>2, <3>3 DEF Coming, Answers
  <2> QED
    BY <1>2, <1>9, <2>1, <2>2
<1>10. CASE /\ p[1] \in Analog /\ <<p[1][1], p[2]>> \in Carries["ZV"]
            /\ (\E x \in ToSet(queue) : x.type = "ZD") \/ \E x \in ToSet(line) : x.type = "ZD"
  <2>1. CASE (\E x \in ToSet(queue') : x.type = "ZD") \/ \E x \in ToSet(line') : x.type = "ZD"
    BY <1>10, <2>1 DEF Coming
  <2>2. CASE m.type = "ZD"
    <3> DEFINE a == Ask("ZV", "zones", p[1][2])
    <3>1. FollowUps(m) = Voltages
      BY <2>2 DEF FollowUps
    <3>2. a \in ToSet(queue')
      BY <1>3, <1>10, <3>1, VoltagesType
    <3>3. p[1] \in Element /\ p[1][1] = "zones"
      BY <1>10, ElementAssumption DEF ElementAssumption
    <3>4. p[1] = <<"zones", p[1][2]>>
      BY <3>3, ElementParts
    <3>5. Answers(a, p)
      BY <1>10, <3>4 DEF Answers, Ask
    <3> HIDE DEF a
    <3> QED
      BY <3>2, <3>5 DEF Coming, Answers
  <2> QED
    BY <1>2, <1>3, <1>10, <2>1, <2>2
<1>11. CASE TellsLater(p) /\ ChainComes(p[1])
  <2>1. ChainComes(p[1])' /\ TellsLater(p)'
    BY <1>1, <1>2, <1>3, <1>11 DEF ChainComes, TellsLater
  <2> QED
    BY <2>1 DEF Coming
<1> QED
  BY <1>5, <1>6, <1>7, <1>8, <1>9, <1>10, <1>11 DEF Coming

\* Reading a name goes on with its chain, and asks what its element tells.
LEMMA FreshName ==
  ASSUME PanelInv, ChainInv, GrowInv, TurnInv, ReadName, NEW p \in Pair, Wanted(p)',
         Wanted(p) => Known(p) \/ Coming(p)
  PROVE  Known(p)' \/ Coming(p)'
<1>1. PICK m, e : NameIsRead(m, e)
  BY NameReads
<1> DEFINE name == <<e, "name">>
           next == Ask("SD", m.kind, m.unit + 1)
<1>2. /\ m = Head(line) /\ line # <<>> /\ line' = Tail(line)
      /\ m.type = "SD" /\ m.unit \in Nat /\ m.kind \in Kinds
      /\ e = <<m.kind, m.unit>> /\ e \in Element
      /\ configured \subseteq configured' /\ configured' \subseteq configured \cup {e}
      /\ (e \in configured' \ configured \/ m.kind # "users" => m.values[name] > 0)
      /\ \A q \in Pair : q[2] # "name" => mirror'[q] = mirror[q]
      /\ UNCHANGED <<panel, textDesc>>
  BY <1>1 DEF NameIsRead
<1>3. /\ next \in ToSet(queue')
      /\ (m.values[name] > 0 =>
            \A t \in ToSet(OnConfigured(e)) : Ask(t, m.kind, m.unit) \in ToSet(queue'))
      /\ \A a \in ToSet(queue) : a \in ToSet(queue')
  BY <1>1 DEF NameIsRead
<1>4. /\ m = line[1] /\ 1 \in DOMAIN line
      /\ \A x \in ToSet(line) : x = m \/ x \in ToSet(line')
  BY <1>2, TailOf DEF ChainInv
<1>5. \A q \in DOMAIN m.values : q[2] = "name"
  BY <1>2, <1>4 DEF TurnInv
<1>6. <<p[1][1], p[2]>> \in Synced \cup Fetched(p[1]) /\ p[2] # "name"
  <2>1. <<p[1][1], p[2]>> \in Synced \cup Fetched(p[1])
    BY DEF Wanted, Fetched
  <2> QED
    BY <2>1, WantedIsNoName
<1>7. mirror'[p] = mirror[p] /\ p \notin DOMAIN m.values
  BY <1>2, <1>5, <1>6
<1>8. ASSUME p[1] = e, m.values[name] > 0, NEW t \in ToSet(OnConfigured(e)), <<p[1][1], p[2]>> \in Carries[t]
      PROVE  Coming(p)'
  <2> DEFINE a == Ask(t, m.kind, m.unit)
  <2>1. a \in ToSet(queue')
    BY <1>3, <1>8
  <2>2. t # "SD"
    BY <1>8, SDCarriesNothing
  <2>3. Answers(a, p)
    BY <1>2, <1>8, <2>2 DEF Answers, Ask
  <2> HIDE DEF a
  <2> QED
    BY <2>1, <2>3 DEF Coming, Answers
<1> HIDE DEF name, next
<1>9. CASE ~Wanted(p)
  <2>1. <<p[1][1], p[2]>> \in Fetched(p[1]) /\ p[1] \in configured' \ configured /\ p[1] \notin Analog
    BY <1>9 DEF Wanted, Fetched
  <2>2. p[1] = e /\ m.values[name] > 0
    BY <1>2, <2>1
  <2>3. \E t \in ToSet(OnConfigured(e)) : <<p[1][1], p[2]>> \in Carries[t]
    BY <2>1, <2>2 DEF Fetched
  <2> QED
    BY <1>8, <2>2, <2>3
<1>10. CASE Known(p)
  BY <1>2, <1>7, <1>10, KnownReads
<1>11. CASE \E x \in ToSet(queue) : Answers(x, p)
  BY <1>3, <1>11 DEF Coming, Answers
<1>12. CASE \/ \E x \in ToSet(line) : x.type = "IE"
            \/ p[2] = "logical_status" /\ \E x \in ToSet(line) : x.type = "ZB" /\ x.unit = None
  BY <1>2, <1>4, <1>12 DEF Coming
<1>13. CASE p[2] = "triggered_alarm" /\ AlarmComes
  <2>1. \A q \in Pair : q[2] = "alarm_state" =>
          mirror'[q] = IF q \in DOMAIN m.values THEN m.values[q] ELSE mirror[q]
    BY <1>2, <1>5
  <2>2. AlarmComes'
    BY <1>2, <1>13, <2>1, AlarmReads
  <2> QED
    BY <1>13, <2>2 DEF Coming
<1>14. CASE /\ p[1] \in Analog /\ <<p[1][1], p[2]>> \in Carries["ZV"]
            /\ (\E x \in ToSet(queue) : x.type = "ZD") \/ \E x \in ToSet(line) : x.type = "ZD"
  <2>1. (\E x \in ToSet(queue') : x.type = "ZD") \/ \E x \in ToSet(line') : x.type = "ZD"
    BY <1>2, <1>3, <1>4, <1>14
  <2> QED
    BY <1>14, <2>1 DEF Coming
<1>15. CASE TellsLater(p) /\ ChainComes(p[1])
  <2>1. TellsLater(p)'
    BY <1>2, <1>15 DEF TellsLater
  <2>2. p[1] \in Element /\ p[1][2] \in Nat /\ p[1] = <<p[1][1], p[1][2]>>
    BY ElementParts DEF Pair
  <2>3. CASE m.kind = p[1][1] /\ m.unit <= p[1][2]
    <3>1. CASE m.unit = p[1][2]
      <4>1. p[1] = e
        BY <1>2, <2>2, <2>3, <3>1
      <4>2. e[1] # "users"
        BY <1>15, <4>1, SomeAskNothing DEF TellsLater
      <4>3. m.values[name] > 0
        BY <1>2, <4>2
      <4> QED
        BY <1>8, <1>15, <4>1, <4>3 DEF TellsLater
    <3>2. CASE m.unit # p[1][2]
      <4>1. next.type = "SD" /\ next.kind = p[1][1] /\ next.unit <= p[1][2]
        BY <1>2, <2>2, <2>3, <3>2 DEF next, Ask
      <4>2. ChainComes(p[1])'
        BY <1>2, <1>3, <1>15, <4>1 DEF ChainComes
      <4> QED
        BY <2>1, <4>2 DEF Coming
    <3> QED
      BY <3>1, <3>2
  <2>4. CASE ~(m.kind = p[1][1] /\ m.unit <= p[1][2])
    <3>1. ChainComes(p[1])'
      BY <1>2, <1>3, <1>4, <1>15, <2>4 DEF ChainComes
    <3> QED
      BY <2>1, <3>1 DEF Coming
  <2> QED
    BY <2>3, <2>4
<1> QED
  BY <1>9, <1>10, <1>11, <1>12, <1>13, <1>14, <1>15 DEF Coming

\* A chain that ends has come past the elements that ask by themselves.
LEMMA FreshNoName ==
  ASSUME PanelInv, ChainInv, GrowInv, TurnInv, PassedInv, ReadNoName, NEW p \in Pair, Wanted(p),
         Known(p) \/ Coming(p)
  PROVE  Known(p)' \/ Coming(p)'
<1> DEFINE m == Head(line)
<1>1. /\ line # <<>> /\ line' = Tail(line) /\ m.type = "SD" /\ (textDesc[m.kind] => m.unit = None)
      /\ textDesc' = [textDesc EXCEPT ![m.kind] = FALSE]
      /\ UNCHANGED <<panel, mirror, configured, queue>>
  BY DEF ReadNoName, Read
<1>2. /\ m \in Replies /\ m = line[1] /\ 1 \in DOMAIN line /\ m \in ToSet(line)
      /\ \A x \in ToSet(line) : x = m \/ x \in ToSet(line')
  BY <1>1, TailOf DEF ChainInv
<1>3. p[2] # "name"
  BY WantedIsNoName DEF Wanted
<1>4. \A q \in DOMAIN m.values : q[2] = "name"
  BY <1>1, <1>2 DEF TurnInv
<1> HIDE DEF m
<1>5. CASE Known(p)
  <2>1. p \notin DOMAIN m.values /\ mirror'[p] = mirror[p]
    BY <1>1, <1>3, <1>4
  <2> QED
    BY <1>1, <1>5, <2>1, KnownReads DEF m
<1>6. CASE \E x \in ToSet(queue) : Answers(x, p)
  BY <1>1, <1>6 DEF Coming, Answers
<1>7. CASE \/ \E x \in ToSet(line) : x.type = "IE"
           \/ p[2] = "logical_status" /\ \E x \in ToSet(line) : x.type = "ZB" /\ x.unit = None
  BY <1>1, <1>2, <1>7 DEF Coming
<1>8. CASE p[2] = "triggered_alarm" /\ AlarmComes
  <2>1. \A q \in Pair : q[2] = "alarm_state" =>
          mirror'[q] = IF q \in DOMAIN Head(line).values THEN Head(line).values[q] ELSE mirror[q]
    BY <1>1, <1>4 DEF m
  <2>2. AlarmComes'
    BY <1>1, <1>8, <2>1, AlarmReads DEF m
  <2> QED
    BY <1>8, <2>2 DEF Coming
<1>9. CASE /\ p[1] \in Analog /\ <<p[1][1], p[2]>> \in Carries["ZV"]
           /\ (\E x \in ToSet(queue) : x.type = "ZD") \/ \E x \in ToSet(line) : x.type = "ZD"
  <2>1. (\E x \in ToSet(queue') : x.type = "ZD") \/ \E x \in ToSet(line') : x.type = "ZD"
    BY <1>1, <1>2, <1>9
  <2> QED
    BY <1>9, <2>1 DEF Coming
<1>10. CASE TellsLater(p) /\ ChainComes(p[1])
  <2>1. p[1] \in Element /\ p[1][1] \in Kinds /\ p[1] = <<p[1][1], p[1][2]>>
    BY ElementParts DEF Pair
  <2>2. CASE p[1][1] = m.kind
    <3>1. m.unit = None
      BY <1>1, <1>10, <2>2 DEF ChainComes
    <3>2. Asked(p[1])
      BY <1>1, <1>2, <1>10, <2>2, <3>1 DEF PassedInv, TellsLater
    <3>3. PICK t \in ToSet(OnConfigured(p[1])) : <<p[1][1], p[2]>> \in Carries[t]
      BY <1>10 DEF TellsLater
    <3> DEFINE a == Ask(t, p[1][1], p[1][2])
    <3>4. a \in ToSet(queue')
      BY <1>1, <3>2, <3>3 DEF Asked
    <3>5. t # "SD"
      BY <3>3, SDCarriesNothing
    <3>6. Answers(a, p)
      BY <2>1, <3>3, <3>5 DEF Answers, Ask
    <3> HIDE DEF a
    <3> QED
      BY <3>4, <3>6 DEF Coming, Answers
  <2>3. CASE p[1][1] # m.kind
    <3>1. textDesc'[p[1][1]]
      BY <1>1, <1>10, <2>1, <2>3 DEF ChainComes, ChainInv
    <3>2. ChainComes(p[1])' /\ TellsLater(p)'
      BY <1>1, <1>2, <1>10, <2>3, <3>1 DEF ChainComes, TellsLater
    <3> QED
      BY <3>2 DEF Coming
  <2> QED
    BY <2>2, <2>3
<1> QED
  BY <1>5, <1>6, <1>7, <1>8, <1>9, <1>10 DEF Coming

LEMMA FreshStep ==
  ASSUME PanelInv, PanelInv', ChainInv, GrowInv, TurnInv, PassedInv, FreshInv, [Next]_vars
  PROVE  FreshInv'
<1> SUFFICES ASSUME opened', ~lost', NEW p \in Pair, Wanted(p)' PROVE Known(p)' \/ Coming(p)'
  BY DEF FreshInv
<1>1. CASE ReadInstallerExit \/ Connected
  <2>1. StartsResync /\ UNCHANGED configured
    BY <1>1 DEF ReadInstallerExit, Connected
  <2>2. Wanted(p)
    BY <2>1, WantedStays
  <2> QED
    BY <2>1, <2>2, ResyncFresh
<1>2. CASE ReadName
  <2>1. opened /\ ~lost
    BY <1>2 DEF ReadName, countVars
  <2> QED
    BY <1>2, <2>1, FreshName, SMTT(60) DEF FreshInv
<1>3. CASE Lose
  BY <1>3 DEF Lose
<1>4. CASE ~(ReadInstallerExit \/ Connected \/ ReadName \/ Lose)
  <2>1. UNCHANGED <<opened, lost, configured>>
    BY <1>4, ChangesTold DEF Next, PanelChanges, Told, hubVars, Serve, ReadStatus, ReadNoName, PollBegins,
       PollEnds, PollTimesOut, vars, countVars
  <2>2. Wanted(p)
    BY <2>1, WantedStays
  <2>3. Known(p) \/ Coming(p)
    BY <2>1, <2>2 DEF FreshInv
  <2>4. ASSUME UNCHANGED <<panel, hubVars, line>>, Grows PROVE Known(p)' \/ Coming(p)'
    <3>1. UNCHANGED <<panel, mirror, configured, textDesc, line>>
      BY <2>4 DEF hubVars
    <3>2. ASSUME Known(p) PROVE Known(p)'
      BY <3>1, <3>2, KnownStays
    <3>3. \A i \in DOMAIN line' : \A j \in DOMAIN line : i < j => i \in DOMAIN line
      BY <3>1
    <3>4. ASSUME Coming(p) PROVE Coming(p)'
      BY <2>4, <3>1, <3>3, <3>4, ComingStays DEF Grows
    <3> QED
      BY <2>3, <3>2, <3>4
  <2>5. CASE PollBegins \/ PollEnds \/ PollTimesOut \/ UNCHANGED vars
    <3>1. UNCHANGED <<panel, hubVars, line>>
      BY <2>5 DEF PollBegins, PollEnds, PollTimesOut, vars
    <3>2. Grows
      BY <2>5, NothingAsked, GrowsBy, PollType DEF PollBegins, PollEnds, PollTimesOut, vars
    <3> QED
      BY <2>4, <3>1, <3>2
  <2> QED
    BY <1>4, <2>2, <2>3, <2>5, FreshChanges, FreshServe, FreshStatus, FreshNoName DEF Next, PanelChanges
<1> QED
  BY <1>1, <1>2, <1>3, <1>4

LEMMA FreshInit == Init => GrowInv /\ TurnInv /\ PassedInv /\ FreshInv
<1> SUFFICES ASSUME Init PROVE GrowInv /\ TurnInv /\ PassedInv /\ FreshInv
  OBVIOUS
<1>1. line = <<>> /\ queue = <<>> /\ ~opened /\ configured = {e \in Element : e[1] = "panel"}
  BY DEF Init
<1>2. ASSUME NEW p \in Pair PROVE mirror[p] <= panel[p]
  <2>1. mirror[p] = 0
    BY DEF Init
  <2>2. panel[p] \in Nat
    BY ChainInit DEF PanelInv
  <2> QED
    BY <2>1, <2>2
<1>3. ToSet(<<>>) = {}
  BY DEF ToSet
<1> QED
  BY <1>1, <1>2, <1>3 DEF GrowInv, TurnInv, PassedInv, FreshInv

\* When nothing is asked or on its way, and nothing was lost since the last
\* resync, the hub shows the panel's values of all it asks for.
THEOREM MirrorsThePanel == Spec => []MirrorIsTrue
<1> DEFINE Inv == PanelInv /\ ChainInv /\ GrowInv /\ TurnInv /\ PassedInv /\ FreshInv
<1>1. Init => Inv
  BY ChainInit, FreshInit
<1>2. Inv /\ [Next]_vars => Inv'
  <2> SUFFICES ASSUME Inv, [Next]_vars PROVE Inv'
    OBVIOUS
  <2>1. PanelInv'
    BY PanelStep
  <2>2. ChainInv'
    BY <2>1, ChainStep
  <2>3. GrowInv'
    BY <2>1, <2>2, GrowStep
  <2>4. TurnInv'
    BY <2>1, TurnStep
  <2>5. PassedInv'
    BY <2>1, PassedStep
  <2>6. FreshInv'
    BY <2>1, FreshStep
  <2> QED
    BY <2>1, <2>2, <2>3, <2>4, <2>5, <2>6
<1>3. Inv => MirrorIsTrue
  <2> SUFFICES ASSUME Inv, Settled, ~lost, NEW p \in Pair, Wanted(p) PROVE mirror[p] = panel[p]
    BY DEF MirrorIsTrue, Wanted
  <2>1. ToSet(queue) = {} /\ ToSet(line) = {} /\ DOMAIN line = {}
    BY DEF Settled, ToSet
  <2>2. Known(p) \/ Coming(p)
    BY DEF FreshInv, Settled
  <2>3. ~Coming(p)
    BY <2>1 DEF Coming, AlarmComes, ChainComes
  <2> QED
    BY <2>1, <2>2, <2>3 DEF Known
<1> HIDE DEF Inv
<1> QED
  BY <1>1, <1>2, <1>3, PTL DEF Spec
=============================================================================

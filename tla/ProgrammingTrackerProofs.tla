----------------------- MODULE ProgrammingTrackerProofs -----------------------
(***************************************************************************)
(* What holds of ProgrammingTracker for any apps, entries, history limit and *)
(* numbers of sessions, reports and restarts: no session is kept twice, in   *)
(* memory or in the file, and the repair issues agree with the sessions.     *)
(***************************************************************************)
EXTENDS ProgrammingTracker, SequenceTheorems, TLAPS

USE TrackerAssumption

Claim   == [id : Nat, seen : BOOLEAN]
Session == [id : Nat, attributed : BOOLEAN, seen : BOOLEAN]
Saved   == [claim : Claim \cup {None}, history : Seq(Session), count : Nat]
State   == [claim : Claim \cup {None}, unattributed : Nat \cup {None}, rp : BOOLEAN,
            history : Seq(Session), count : Nat]

TypeInv ==
  /\ state \in State /\ loaded \in BOOLEAN
  /\ slot \in Saved \cup {None, Live} /\ writing \in Saved \cup {None} /\ disk \in Saved \cup {None}
  /\ call \in [Apps -> {"none", "claim", "end"}]
  /\ sessions \in Nat

\* The sessions of s are among the first n, each there once.
Distinct(history) == \A i, j \in DOMAIN history : history[i].id = history[j].id => i = j
Within(history, n) == \A i \in DOMAIN history : history[i].id <= n
Without(history, id) == \A i \in DOMAIN history : history[i].id # id
Consistent(s, n) ==
  /\ Distinct(s.history) /\ Within(s.history, n)
  /\ s.claim # None => s.claim.id <= n /\ Without(s.history, s.claim.id)

\* What is in the file, or on its way to it.
Stored == (({slot} \ {Live}) \cup {writing, disk}) \ {None}

\* Session id is none of those of s.
Lacks(s, id) == Without(s.history, id) /\ (s.claim # None => s.claim.id # id)

\* Besides what NeverTwice says of memory and file: it holds of what is on its
\* way to the file as well, since a load may meet it there, and nothing stored
\* has the session that nobody has claimed yet.
SessionInv ==
  /\ TypeInv
  /\ Consistent(state, sessions) /\ \A d \in Stored : Consistent(d, sessions)
  /\ state.unattributed # None =>
       /\ state.unattributed <= sessions /\ Lacks(state, state.unattributed)
       /\ \A d \in Stored : Lacks(d, state.unattributed)

-----------------------------------------------------------------------------
(***************************************************************************)
(* The operations on a state.                                              *)
(***************************************************************************)
LEMMA AppendedFacts ==
  ASSUME NEW s \in State, NEW x \in Session, Distinct(s.history), Without(s.history, x.id)
  PROVE  /\ Appended(s, x) \in State
         /\ Appended(s, x).claim = s.claim /\ Appended(s, x).unattributed = s.unattributed
         /\ Appended(s, x).rp = s.rp
         /\ Distinct(Appended(s, x).history)
         /\ \A n \in Nat : Within(s.history, n) /\ x.id <= n => Within(Appended(s, x).history, n)
         /\ \A id \in Nat : Without(s.history, id) /\ x.id # id => Without(Appended(s, x).history, id)
<1> DEFINE longer == Append(s.history, x)
           surplus == Len(longer) - HISTORY_LIMIT
           new == IF surplus > 0 THEN SubSeq(longer, surplus + 1, Len(longer)) ELSE longer
<1>1. s.history \in Seq(Session) /\ s.count \in Nat
  BY DEF State
<1>2. longer \in Seq(Session) /\ Len(longer) = Len(s.history) + 1 /\ DOMAIN longer = 1..Len(longer)
  BY <1>1
<1>3. \A i \in 1..Len(longer) : longer[i] = IF i = Len(longer) THEN x ELSE s.history[i]
  BY <1>1
<1>4. Distinct(longer)
  BY <1>1, <1>2, <1>3 DEF Distinct, Without
<1> HIDE DEF longer
<1> DEFINE Shifted(k) == /\ new \in Seq(Session) /\ Len(new) + k = Len(longer) /\ DOMAIN new = 1..Len(new)
                         /\ \A i \in 1..Len(new) : i + k \in 1..Len(longer) /\ new[i] = longer[i + k]
<1>5. PICK k \in Nat : Shifted(k)
  <2>1. CASE surplus > 0
    <3>1. surplus \in Nat /\ surplus < Len(longer)
      BY <1>2, <2>1
    <3>2. new = SubSeq(longer, surplus + 1, Len(longer))
      BY <2>1
    <3>3. /\ new \in Seq(Session) /\ Len(new) = Len(longer) - surplus
          /\ \A i \in 1..Len(new) : new[i] = longer[surplus + i]
      BY <1>2, <3>1, <3>2, SubSeqProperties
    <3> HIDE DEF new, surplus
    <3>4. Len(new) \in Nat /\ Len(longer) \in Nat /\ DOMAIN new = 1..Len(new)
      BY <1>2, <3>3
    <3>5. Len(new) + surplus = Len(longer)
      BY <3>1, <3>3, <3>4
    <3>6. \A i \in 1..Len(new) : i + surplus \in 1..Len(longer) /\ i + surplus = surplus + i
      BY <3>1, <3>4, <3>5
    <3>7. Shifted(surplus)
      BY <3>3, <3>4, <3>5, <3>6
    <3>. QED BY <3>1, <3>7
  <2>2. CASE ~(surplus > 0)
    <3>1. new = longer
      BY <2>2
    <3> HIDE DEF new
    <3>2. Shifted(0)
      BY <1>2, <3>1
    <3> HIDE DEF Shifted
    <3>. QED BY <3>2
  <2>. QED BY <2>1, <2>2
<1>6. Appended(s, x) = [s EXCEPT !.history = new, !.count = @ + 1]
  BY DEF Appended, longer
<1> HIDE DEF new
<1>7. /\ Appended(s, x) \in State /\ Appended(s, x).history = new
      /\ Appended(s, x).claim = s.claim /\ Appended(s, x).unattributed = s.unattributed /\ Appended(s, x).rp = s.rp
  <2>1. new \in Seq(Session) /\ s.count + 1 \in Nat
    BY <1>1, <1>5
  <2>2. s \in [claim : Claim \cup {None}, unattributed : Nat \cup {None}, rp : BOOLEAN,
                history : Seq(Session), count : Nat]
    BY DEF State
  <2>3. Appended(s, x) = [s EXCEPT !.history = new, !.count = s.count + 1]
    BY <1>6
  <2>. QED BY <2>1, <2>2, <2>3 DEF State
<1>8. Distinct(new)
  <2> SUFFICES ASSUME NEW i \in DOMAIN new, NEW j \in DOMAIN new, new[i].id = new[j].id PROVE i = j
    BY DEF Distinct
  <2>1. i \in 1..Len(new) /\ j \in 1..Len(new)
    BY <1>5
  <2>2. i + k \in DOMAIN longer /\ j + k \in DOMAIN longer /\ longer[i + k].id = longer[j + k].id
    BY <1>2, <1>5, <2>1
  <2>3. i + k = j + k
    BY <1>4, <2>2 DEF Distinct
  <2>. QED BY <2>1, <2>3
<1>9. \A i \in DOMAIN new : new[i] = x \/ \E j \in DOMAIN s.history : new[i] = s.history[j]
  <2>1. \A i \in DOMAIN longer : longer[i] = x \/ \E j \in DOMAIN s.history : longer[i] = s.history[j]
    BY <1>1, <1>2, <1>3
  <2>. QED BY <1>2, <1>5, <2>1
<1>. QED BY <1>7, <1>8, <1>9 DEF Within, Without

LEMMA ClosedFacts ==
  ASSUME NEW s \in State, NEW n \in Nat, Consistent(s, n)
  PROVE  /\ Closed(s) \in State /\ Consistent(Closed(s), n)
         /\ Closed(s).claim = None
         /\ Closed(s).unattributed = s.unattributed /\ Closed(s).rp = s.rp
         /\ \A id \in Nat : Lacks(s, id) => Lacks(Closed(s), id)
<1>1. CASE s.claim = None
  BY <1>1 DEF Closed
<1>2. CASE s.claim # None
  <2> DEFINE open == [s EXCEPT !.claim = None]
             x == [id |-> s.claim.id, attributed |-> TRUE, seen |-> s.claim.seen]
  <2>1. s.claim \in Claim
    BY <1>2 DEF State
  <2>2. open \in State /\ open.claim = None /\ open.history = s.history
          /\ open.unattributed = s.unattributed /\ open.rp = s.rp
    BY DEF State
  <2>3. x \in Session /\ x.id = s.claim.id
    BY <2>1 DEF Claim, Session
  <2>4. Closed(s) = Appended(open, x)
    BY <1>2 DEF Closed
  <2>5. Distinct(s.history) /\ Without(s.history, x.id) /\ x.id <= n /\ Within(s.history, n)
    BY <1>2, <2>3 DEF Consistent
  <2> HIDE DEF open, x
  <2>6. /\ Closed(s) \in State /\ Closed(s).claim = None /\ Distinct(Closed(s).history)
        /\ Closed(s).unattributed = s.unattributed /\ Closed(s).rp = s.rp
        /\ Within(Closed(s).history, n)
        /\ \A id \in Nat : Without(s.history, id) /\ x.id # id => Without(Closed(s).history, id)
    BY <2>2, <2>3, <2>4, <2>5, AppendedFacts
  <2>. QED BY <1>2, <2>3, <2>6 DEF Consistent, Lacks
<1>. QED BY <1>1, <1>2

LEMMA ClaimedFacts ==
  ASSUME NEW s \in State, NEW n \in Nat, Consistent(s, n)
  PROVE  /\ Claimed(s, n + 1) \in State /\ Consistent(Claimed(s, n + 1), n + 1)
         /\ Claimed(s, n + 1).unattributed = None /\ Claimed(s, n + 1).rp = s.rp
         /\ Claimed(s, n + 1).claim = [id |-> n + 1, seen |-> s.rp]
<1> DEFINE r == Closed(s)
           c == [id |-> n + 1, seen |-> s.rp]
<1>1. r \in State /\ Consistent(r, n) /\ r.rp = s.rp
  BY ClosedFacts
<1>2. Claimed(s, n + 1) = [r EXCEPT !.claim = c, !.unattributed = None]
  BY DEF Claimed
<1>3. c \in Claim /\ c.id = n + 1
  BY DEF Claim, State
<1> HIDE DEF r, c
<1>4. /\ Claimed(s, n + 1) \in State /\ Claimed(s, n + 1).history = r.history /\ Claimed(s, n + 1).claim = c
      /\ Claimed(s, n + 1).unattributed = None /\ Claimed(s, n + 1).rp = s.rp
  BY <1>1, <1>2, <1>3 DEF State
<1>5. r.history \in Seq(Session) /\ \A i \in DOMAIN r.history : r.history[i].id \in Nat /\ r.history[i].id <= n
  <2>1. r.history \in Seq(Session)
    BY <1>1 DEF State
  <2>2. \A i \in DOMAIN r.history : r.history[i] \in Session
    BY <2>1
  <2>. QED BY <1>1, <2>1, <2>2 DEF Consistent, Within, Session
<1>6. Within(r.history, n + 1) /\ Without(r.history, n + 1)
  BY <1>5 DEF Within, Without
<1>7. Consistent(Claimed(s, n + 1), n + 1)
  BY <1>1, <1>3, <1>4, <1>6 DEF Consistent
<1>. QED BY <1>4, <1>7 DEF c

LEMMA LoadedFacts ==
  ASSUME NEW s \in State, NEW n \in Nat, NEW data \in Saved \cup {None}, Consistent(s, n),
         data # None => Consistent(data, n)
  PROVE  /\ Loaded(s, data) \in State /\ Consistent(Loaded(s, data), n)
         /\ Loaded(s, data).unattributed = s.unattributed /\ Loaded(s, data).rp = s.rp
         /\ \A id \in Nat : Lacks(s, id) /\ (data # None => Lacks(data, id)) => Lacks(Loaded(s, data), id)
<1>1. CASE data = None
  BY <1>1 DEF Loaded
<1>2. CASE data # None
  <2>1. Loaded(s, data) = [s EXCEPT !.claim = data.claim, !.history = data.history, !.count = data.count]
    BY <1>2 DEF Loaded
  <2>2. /\ Loaded(s, data) \in State /\ Loaded(s, data).claim = data.claim /\ Loaded(s, data).history = data.history
        /\ Loaded(s, data).unattributed = s.unattributed /\ Loaded(s, data).rp = s.rp
    BY <1>2, <2>1 DEF State, Saved
  <2>. QED BY <1>2, <2>2 DEF Consistent, Lacks
<1>. QED BY <1>1, <1>2

LEMMA DataFacts ==
  ASSUME NEW s \in State
  PROVE  /\ Data(s) \in Saved
         /\ \A n \in Nat : Consistent(s, n) => Consistent(Data(s), n)
         /\ \A id \in Nat : Lacks(s, id) => Lacks(Data(s), id)
<1>1. Data(s) \in Saved /\ Data(s).claim = s.claim /\ Data(s).history = s.history
  BY DEF Data, State, Saved
<1>. QED BY <1>1 DEF Consistent, Lacks

\* A later bound is a weaker one, and a session after the bound is in none.
LEMMA BoundFacts ==
  ASSUME NEW s \in State \cup Saved, NEW n \in Nat, Consistent(s, n)
  PROVE  Consistent(s, n + 1) /\ Lacks(s, n + 1)
<1>1. s.history \in Seq(Session) /\ s.claim \in Claim \cup {None}
  BY DEF State, Saved
<1>2. \A i \in DOMAIN s.history : s.history[i] \in Session
  BY <1>1
<1>3. \A i \in DOMAIN s.history : s.history[i].id \in Nat /\ s.history[i].id <= n
  BY <1>2 DEF Consistent, Within, Session
<1>4. s.claim # None => s.claim.id \in Nat /\ s.claim.id <= n
  BY <1>1 DEF Consistent, Claim
<1>5. Within(s.history, n + 1) /\ Without(s.history, n + 1)
  BY <1>3 DEF Within, Without
<1>. QED BY <1>4, <1>5 DEF Consistent, Lacks

-----------------------------------------------------------------------------
(***************************************************************************)
(* No session is kept twice.                                               *)
(***************************************************************************)
\* A state that a service goes on with: what it finds in memory, or loads.
Resumed(s) ==
  /\ s \in State /\ Consistent(s, sessions)
  /\ s.unattributed = state.unattributed /\ s.rp = state.rp
  /\ s.unattributed # None => Lacks(s, s.unattributed)

LEMMA ServesKeepsSessions ==
  ASSUME SessionInv, NEW app \in Apps, NEW service \in {"claim", "end"}, NEW s, Resumed(s),
         Serves(app, service, s)
  PROVE  SessionInv'
<1> USE DEF SessionInv, TypeInv, Resumed
<1>1. /\ loaded' = TRUE /\ UNCHANGED <<writing, disk>> /\ call' = [call EXCEPT ![app] = "none"]
      /\ IF service = "claim" THEN Claims(app, s) ELSE Ends(app, s)
  BY DEF Serves
<1>2. loaded' \in BOOLEAN /\ call' \in [Apps -> {"none", "claim", "end"}]
  BY <1>1
<1>3. CASE service = "claim"
  <2>1. sessions' = sessions + 1 /\ state' = Claimed(s, sessions + 1) /\ slot' = Data(state')
    BY <1>1, <1>3 DEF Claims
  <2>2. state' \in State /\ Consistent(state', sessions') /\ state'.unattributed = None
    BY <2>1, ClaimedFacts
  <2>3. slot' \in Saved /\ Consistent(slot', sessions')
    BY <2>1, <2>2, DataFacts
  <2>4. \A d \in Stored : Consistent(d, sessions')
    BY <2>1, BoundFacts DEF Stored
  <2>5. \A d \in Stored' : d = slot' \/ d \in Stored
    BY <1>1 DEF Stored
  <2>. QED BY <1>1, <1>2, <2>1, <2>2, <2>3, <2>4, <2>5
<1>4. CASE service = "end"
  <2>1. state' = Closed(s) /\ UNCHANGED sessions /\ (slot' = slot \/ slot' = Data(state'))
    BY <1>1, <1>4 DEF Ends
  <2>2. /\ state' \in State /\ Consistent(state', sessions') /\ state'.unattributed = state.unattributed
        /\ state.unattributed # None => Lacks(state', state.unattributed)
    BY <2>1, ClosedFacts DEF State
  <2>3. \/ slot' = slot
        \/ /\ slot' \in Saved /\ Consistent(slot', sessions')
           /\ state.unattributed # None => Lacks(slot', state.unattributed)
    <3>1. slot' = Data(state') => slot' \in Saved /\ Consistent(slot', sessions')
      BY <2>1, <2>2, DataFacts
    <3>2. state.unattributed # None => state.unattributed \in Nat
      BY DEF State
    <3>3. slot' = Data(state') /\ state.unattributed # None => Lacks(slot', state.unattributed)
      BY <2>2, <3>2, DataFacts
    <3>. QED BY <2>1, <3>1, <3>3
  <2>4. \A d \in Stored' : d = slot' \/ d \in Stored
    BY <1>1 DEF Stored
  <2>5. slot' = slot => \A d \in Stored' : d \in Stored
    BY <1>1 DEF Stored
  <2>. QED BY <1>1, <1>2, <2>1, <2>2, <2>3, <2>4, <2>5
<1>. QED BY <1>3, <1>4

\* Whatever is read back, from the file or from what waits to be written, is a
\* state to go on with.
LEMMA LoadsResume ==
  ASSUME SessionInv, NEW data \in Saved \cup {None},
         data # None => /\ Consistent(data, sessions)
                        /\ state.unattributed # None => Lacks(data, state.unattributed)
  PROVE  Resumed(Loaded(state, data))
<1>1. state \in State /\ sessions \in Nat /\ Consistent(state, sessions)
  BY DEF SessionInv, TypeInv
<1>2. /\ Loaded(state, data) \in State /\ Consistent(Loaded(state, data), sessions)
      /\ Loaded(state, data).unattributed = state.unattributed /\ Loaded(state, data).rp = state.rp
      /\ \A id \in Nat : Lacks(state, id) /\ (data # None => Lacks(data, id)) => Lacks(Loaded(state, data), id)
  BY <1>1, LoadedFacts
<1>3. state.unattributed # None => state.unattributed \in Nat /\ Lacks(state, state.unattributed)
  BY <1>1 DEF SessionInv, State
<1>. QED BY <1>2, <1>3 DEF Resumed

\* A call that goes on at once does so with the state or what waits in the slot.
LEMMA CallsResume ==
  ASSUME SessionInv, NEW app \in Apps, NEW service \in {"claim", "end"}, Calls(app, service)
  PROVE  \/ \E s : Resumed(s) /\ (loaded => s = state) /\ Serves(app, service, s)
         \/ /\ ~loaded /\ call' = [call EXCEPT ![app] = service]
            /\ UNCHANGED <<state, loaded, issues, slot, writing, disk, counts>>
<1> USE DEF SessionInv, TypeInv
<1>1. CASE loaded
  BY <1>1 DEF Calls, Resumed
<1>2. CASE ~loaded /\ slot # None
  <2> DEFINE data == IF slot = Live THEN Data(state) ELSE slot
  <2>1. Serves(app, service, Loaded(state, data))
    BY <1>2 DEF Calls
  <2>2. data \in Saved /\ Consistent(data, sessions)
          /\ (state.unattributed # None => Lacks(data, state.unattributed))
    <3>1. CASE slot = Live
      <4>1. state.unattributed # None => state.unattributed \in Nat
        BY DEF State
      <4>. QED BY <3>1, <4>1, DataFacts
    <3>2. CASE slot # Live
      BY <1>2, <3>2 DEF Stored
    <3>. QED BY <3>1, <3>2
  <2> HIDE DEF data
  <2>3. Resumed(Loaded(state, data))
    BY <2>2, LoadsResume
  <2>. QED BY <1>2, <2>1, <2>3
<1>3. CASE ~loaded /\ slot = None
  BY <1>3 DEF Calls
<1>. QED BY <1>1, <1>2, <1>3

LEMMA FileReadResumes ==
  ASSUME SessionInv, NEW app \in Apps, FileRead(app)
  PROVE  call[app] \in {"claim", "end"} /\ Resumed(Loaded(state, disk))
           /\ Serves(app, call[app], Loaded(state, disk))
<1>1. call[app] \in {"claim", "end"} /\ Serves(app, call[app], Loaded(state, disk))
  BY DEF FileRead, SessionInv, TypeInv
<1>2. disk \in Saved \cup {None}
  BY DEF SessionInv, TypeInv
<1>3. disk # None => Consistent(disk, sessions) /\ (state.unattributed # None => Lacks(disk, state.unattributed))
  BY DEF SessionInv, Stored
<1>. QED BY <1>1, <1>2, <1>3, LoadsResume

LEMMA SessionsInit == Init => SessionInv
<1> SUFFICES ASSUME Init PROVE SessionInv
  OBVIOUS
<1>1. NewState \in State
  <2>1. None \in Claim \cup {None} /\ None \in Nat \cup {None} /\ FALSE \in BOOLEAN
          /\ <<>> \in Seq(Session) /\ 0 \in Nat
    OBVIOUS
  <2>. QED BY <2>1 DEF NewState, State
<1>2. TypeInv
  BY <1>1 DEF Init, TypeInv
<1>3. Consistent(NewState, 0) /\ NewState.unattributed = None
  BY DEF NewState, Consistent, Distinct, Within
<1>4. Stored = {}
  BY DEF Init, Stored
<1>. QED BY <1>2, <1>3, <1>4 DEF Init, SessionInv

LEMMA ConnectedKeepsSessions ==
  ASSUME SessionInv, NEW entry \in Entries, ReportsConnected(entry)
  PROVE  SessionInv'
<1> USE DEF SessionInv, TypeInv
<1>1. slot' = Live /\ UNCHANGED <<loaded, call, writing, disk>>
  BY DEF ReportsConnected
<1>2. \A d \in Stored' : d \in Stored
  BY <1>1 DEF Stored
<1>3. CASE state.claim # None
  <2>1. sessions' = sessions /\ state' = [state EXCEPT !.rp = TRUE, !.claim.seen = TRUE]
    BY <1>3 DEF ReportsConnected
  <2>2. state.claim \in Claim
    BY <1>3 DEF State
  <2>3. [state.claim EXCEPT !.seen = TRUE] \in Claim /\ [state.claim EXCEPT !.seen = TRUE].id = state.claim.id
    BY <2>2 DEF Claim
  <2>4. state' = [state EXCEPT !.rp = TRUE, !.claim = [state.claim EXCEPT !.seen = TRUE]]
    BY <2>1, SMTT(30) DEF State
  <2> DEFINE c == [state.claim EXCEPT !.seen = TRUE]
  <2> HIDE DEF c
  <2>5. /\ state' \in State /\ state'.history = state.history /\ state'.claim = c
        /\ state'.unattributed = state.unattributed
    BY <2>3, <2>4 DEF State, c
  <2>6. c.id = state.claim.id
    BY <2>3 DEF c
  <2>7. Consistent(state', sessions')
    BY <1>3, <2>1, <2>5, <2>6 DEF Consistent
  <2>8. state'.unattributed # None => Lacks(state', state'.unattributed)
    BY <1>3, <2>5, <2>6 DEF Lacks
  <2>. QED BY <1>1, <1>2, <2>1, <2>5, <2>7, <2>8
<1>4. CASE state.claim = None /\ state.unattributed # None
  <2>1. sessions' = sessions /\ state' = [state EXCEPT !.rp = TRUE]
    BY <1>4 DEF ReportsConnected
  <2>2. /\ state' \in State /\ state'.history = state.history /\ state'.claim = state.claim
        /\ state'.unattributed = state.unattributed
    BY <2>1 DEF State
  <2>3. Consistent(state', sessions') /\ (state'.unattributed # None => Lacks(state', state'.unattributed))
    BY <2>1, <2>2 DEF Consistent, Lacks
  <2>. QED BY <1>1, <1>2, <2>1, <2>2, <2>3
<1>5. CASE state.claim = None /\ state.unattributed = None
  <2>1. sessions' = sessions + 1 /\ state' = [state EXCEPT !.rp = TRUE, !.unattributed = sessions + 1]
    BY <1>5 DEF ReportsConnected
  <2>2. /\ state' \in State /\ state'.history = state.history /\ state'.claim = state.claim
        /\ state'.unattributed = sessions + 1
    <3> DEFINE n == sessions + 1
    <3>1. n \in Nat /\ state' = [state EXCEPT !.rp = TRUE, !.unattributed = n]
      BY <2>1
    <3> HIDE DEF n
    <3>2. state' \in State
      BY <3>1 DEF State
    <3>3. state'.history = state.history /\ state'.claim = state.claim /\ state'.unattributed = n
      BY <3>1 DEF State
    <3>. QED BY <3>2, <3>3 DEF n
  <2>3. Consistent(state, sessions + 1) /\ Lacks(state, sessions + 1)
    BY BoundFacts
  <2>4. Consistent(state', sessions') /\ Lacks(state', sessions + 1)
    BY <2>1, <2>2, <2>3 DEF Consistent, Lacks
  <2>5. \A d \in Stored : Consistent(d, sessions + 1) /\ Lacks(d, sessions + 1)
    BY BoundFacts DEF Stored
  <2>. QED BY <1>1, <1>2, <2>1, <2>2, <2>4, <2>5
<1>. QED BY <1>3, <1>4, <1>5

LEMMA DisconnectedKeepsSessions ==
  ASSUME SessionInv, ReportsDisconnected
  PROVE  SessionInv'
<1> USE DEF SessionInv, TypeInv
<1>1. slot' = Live /\ UNCHANGED <<loaded, call, writing, disk, sessions>>
  BY DEF ReportsDisconnected
<1>2. \A d \in Stored' : d \in Stored
  BY <1>1 DEF Stored
<1>3. CASE state.unattributed = None
  <2>1. state' = [state EXCEPT !.rp = FALSE]
    BY <1>3 DEF ReportsDisconnected
  <2>2. /\ state' \in State /\ state'.history = state.history /\ state'.claim = state.claim
        /\ state'.unattributed = None
    BY <1>3, <2>1 DEF State
  <2>3. Consistent(state', sessions')
    BY <1>1, <2>2 DEF Consistent
  <2>. QED BY <1>1, <1>2, <2>2, <2>3
<1>4. CASE state.unattributed # None
  <2> DEFINE r == [state EXCEPT !.rp = FALSE, !.unattributed = None]
             x == [id |-> state.unattributed, attributed |-> FALSE, seen |-> TRUE]
  <2>1. state' = Appended(r, x)
    BY <1>4 DEF ReportsDisconnected
  <2>2. r \in State /\ r.history = state.history /\ r.claim = state.claim /\ r.unattributed = None
    BY DEF State
  <2>3. state.unattributed \in Nat
    BY <1>4 DEF State
  <2>4. x \in Session /\ x.id = state.unattributed
    BY <2>3 DEF Session
  <2>5. Distinct(state.history) /\ Without(state.history, x.id) /\ Within(state.history, sessions) /\ x.id <= sessions
    BY <1>4, <2>4 DEF Consistent, Lacks
  <2> HIDE DEF r, x
  <2>6. /\ state' \in State /\ state'.claim = state.claim /\ state'.unattributed = None
        /\ Distinct(state'.history) /\ Within(state'.history, sessions)
        /\ \A id \in Nat : Without(state.history, id) /\ x.id # id => Without(state'.history, id)
    BY <2>1, <2>2, <2>4, <2>5, AppendedFacts
  <2>7. state.claim # None => /\ state.claim.id \in Nat /\ state.claim.id <= sessions
                              /\ Without(state.history, state.claim.id) /\ state.claim.id # x.id
    BY <1>4, <2>4 DEF State, Claim, Consistent, Lacks
  <2>8. Consistent(state', sessions')
    BY <1>1, <2>6, <2>7 DEF Consistent
  <2>. QED BY <1>1, <1>2, <2>6, <2>8
<1>. QED BY <1>3, <1>4

LEMMA WriteStartsKeepsSessions ==
  ASSUME SessionInv, WriteStarts
  PROVE  SessionInv'
<1> USE DEF SessionInv, TypeInv
<1>1. /\ slot # None /\ slot' = None /\ UNCHANGED <<state, loaded, call, disk, sessions>>
      /\ writing' = IF slot = Live THEN Data(state) ELSE slot
  BY DEF WriteStarts, counts
<1>2. writing' \in Saved /\ Consistent(writing', sessions)
        /\ (state.unattributed # None => Lacks(writing', state.unattributed))
  <2>1. CASE slot = Live
    <3>1. state.unattributed # None => state.unattributed \in Nat
      BY DEF State
    <3>. QED BY <1>1, <2>1, <3>1, DataFacts
  <2>2. CASE slot # Live
    BY <1>1, <2>2 DEF Stored
  <2>. QED BY <2>1, <2>2
<1>3. \A d \in Stored' : d = writing' \/ d \in Stored
  BY <1>1 DEF Stored
<1>4. \A d \in Stored' : Consistent(d, sessions) /\ (state.unattributed # None => Lacks(d, state.unattributed))
  BY <1>2, <1>3
<1>. QED BY <1>1, <1>2, <1>4

LEMMA SessionsNext == SessionInv /\ [Next]_vars => SessionInv'
<1> SUFFICES ASSUME SessionInv, [Next]_vars PROVE SessionInv'
  OBVIOUS
<1>1. ASSUME NEW app \in Apps, FileRead(app) PROVE SessionInv'
  BY <1>1, FileReadResumes, ServesKeepsSessions
<1>2. ASSUME NEW app \in Apps, NEW service \in {"claim", "end"}, Calls(app, service) PROVE SessionInv'
  <2>1. CASE \E s : Resumed(s) /\ (loaded => s = state) /\ Serves(app, service, s)
    BY <2>1, ServesKeepsSessions
  <2>2. CASE /\ ~loaded /\ call' = [call EXCEPT ![app] = service]
             /\ UNCHANGED <<state, loaded, issues, slot, writing, disk, counts>>
    <3>1. Stored' = Stored /\ UNCHANGED sessions
      BY <2>2 DEF Stored, counts
    <3>2. TypeInv'
      BY <2>2, <3>1 DEF SessionInv, TypeInv
    <3>. QED BY <2>2, <3>1, <3>2 DEF SessionInv
  <2>. QED BY <1>2, <2>1, <2>2, CallsResume
<1>3. ASSUME NEW entry \in Entries, ReportsConnected(entry) PROVE SessionInv'
  BY <1>3, ConnectedKeepsSessions
<1>4. ASSUME NEW entry \in Entries, ChecksClaim(entry) PROVE SessionInv'
  BY <1>4 DEF ChecksClaim, counts, SessionInv, TypeInv, Stored
<1>5. CASE ReportsDisconnected
  BY <1>5, DisconnectedKeepsSessions
<1>6. CASE WriteStarts
  BY <1>6, WriteStartsKeepsSessions
<1>7. CASE WriteEnds
  <2>1. disk' = writing /\ writing' = None /\ UNCHANGED <<state, loaded, call, slot, sessions>>
    BY <1>7 DEF WriteEnds, counts
  <2>2. \A d \in Stored' : d \in Stored
    BY <2>1 DEF Stored
  <2>. QED BY <2>1, <2>2 DEF SessionInv, TypeInv
<1>8. CASE Restarts
  <2>1. /\ state' = NewState /\ loaded' = FALSE /\ call' = [app \in Apps |-> "none"]
        /\ slot' = None /\ writing' = None /\ UNCHANGED <<disk, sessions>>
    BY <1>8 DEF Restarts
  <2>2. NewState \in State /\ NewState.unattributed = None /\ Consistent(NewState, sessions)
    <3>1. None \in Claim \cup {None} /\ None \in Nat \cup {None} /\ FALSE \in BOOLEAN
            /\ <<>> \in Seq(Session) /\ 0 \in Nat
      OBVIOUS
    <3>2. NewState \in State
      BY <3>1 DEF NewState, State
    <3>. QED BY <3>2 DEF NewState, Consistent, Distinct, Within
  <2>3. \A d \in Stored' : d \in Stored
    BY <2>1 DEF Stored
  <2>. QED BY <2>1, <2>2, <2>3 DEF SessionInv, TypeInv
<1>9. CASE UNCHANGED vars
  BY <1>9 DEF vars, memory, counts, SessionInv, TypeInv, Stored
<1>. QED BY <1>1, <1>2, <1>3, <1>4, <1>5, <1>6, <1>7, <1>8, <1>9 DEF Next

LEMMA SessionInvAlways == Spec => []SessionInv
<1>. QED BY SessionsInit, SessionsNext, PTL DEF Spec

\* For any number of apps, entries, reports and restarts, no session is kept
\* twice, neither in memory nor in the file, whatever is loaded over whatever.
THEOREM NeverTwiceAlways == Spec => []NeverTwice
<1>1. SessionInv => NeverTwice
  <2> SUFFICES ASSUME SessionInv, NEW kept \in {state, disk} \ {None}
               PROVE /\ Distinct(kept.history)
                     /\ kept.claim # None => Without(kept.history, kept.claim.id)
                     /\ kept = state /\ state.unattributed # None => state.unattributed \notin Ids(state)
    BY DEF NeverTwice, Distinct, Without
  <2>1. Consistent(kept, sessions)
    BY DEF SessionInv, Stored
  <2>2. state.unattributed # None => state.unattributed \notin Ids(state)
    BY DEF SessionInv, Lacks, Without, Ids
  <2>. QED BY <2>1, <2>2 DEF Consistent
<1>. QED BY <1>1, SessionInvAlways, PTL

-----------------------------------------------------------------------------
(***************************************************************************)
(* The repair issues agree with the sessions.                              *)
(***************************************************************************)
\* Why they do: there is a claim only once the file has been read, a claim made
\* or standing while a session is open has seen it, and an unmatched issue is
\* not raised while a call that could still load over its claim is under way.
IssuesInv ==
  /\ state.unattributed # None => issues \cap Unattributed # {}
  /\ issues \cap Unmatched # {} => /\ state.claim # None /\ ~state.claim.seen
                                   /\ \A app \in Apps : call[app] = "none"
  /\ state.claim # None => loaded = TRUE
  /\ state.claim # None /\ state.rp = TRUE => state.claim.seen = TRUE

LEMMA KindsDiffer == Unattributed \cap Unmatched = {}
<1>. QED BY DEF Unattributed, Unmatched

LEMMA ServesKeepsIssues ==
  ASSUME SessionInv, IssuesInv, NEW app \in Apps, NEW service \in {"claim", "end"}, NEW s, Resumed(s),
         Serves(app, service, s), s = state \/ issues \cap Unmatched = {}
  PROVE  IssuesInv'
<1>1. /\ loaded' = TRUE /\ call' = [call EXCEPT ![app] = "none"]
      /\ IF service = "claim" THEN Claims(app, s) ELSE Ends(app, s)
  BY DEF Serves
<1>2. s \in State /\ sessions \in Nat /\ Consistent(s, sessions) /\ s.unattributed = state.unattributed
        /\ call \in [Apps -> {"none", "claim", "end"}]
  BY DEF Resumed, SessionInv, TypeInv
<1>3. (\A a \in Apps : call[a] = "none") => \A a \in Apps : call'[a] = "none"
  BY <1>1, <1>2
<1>4. CASE service = "claim"
  <2>1. state' = Claimed(s, sessions + 1) /\ issues' \subseteq issues
    BY <1>1, <1>4 DEF Claims
  <2>2. /\ state'.unattributed = None /\ state'.rp = s.rp
        /\ state'.claim = [id |-> sessions + 1, seen |-> s.rp]
    BY <1>2, <2>1, ClaimedFacts
  <2>3. state'.claim # None /\ state'.claim.seen = s.rp
    <3>1. [id |-> sessions + 1, seen |-> s.rp] \in Claim
      BY <1>2 DEF Claim, State
    <3>. QED BY <2>2, <3>1 DEF Claim
  <2>4. ASSUME issues' \cap Unmatched # {}
        PROVE  ~state'.claim.seen /\ \A a \in Apps : call'[a] = "none"
    <3>1. issues \cap Unmatched # {} /\ s = state
      BY <2>1, <2>4
    <3>2. state.claim # None /\ ~state.claim.seen /\ \A a \in Apps : call[a] = "none"
      BY <3>1 DEF IssuesInv
    <3>3. state.rp # TRUE
      BY <3>2 DEF IssuesInv
    <3>4. s.rp = FALSE
      BY <1>2, <3>1, <3>3 DEF State
    <3>. QED BY <1>3, <2>3, <3>2, <3>4
  <2>. QED BY <1>1, <2>2, <2>3, <2>4 DEF IssuesInv
<1>5. CASE service = "end"
  <2>1. /\ state' = Closed(s)
        /\ issues' = IF s.claim = None THEN issues ELSE issues \ Unmatched
    BY <1>1, <1>5 DEF Ends
  <2>2. state'.claim = None /\ state'.unattributed = state.unattributed
    BY <1>2, <2>1, ClosedFacts
  <2>3. issues' \cap Unattributed = issues \cap Unattributed
    BY <2>1, KindsDiffer
  <2>4. issues' \cap Unmatched = {}
    <3>1. CASE s.claim # None
      BY <2>1, <3>1
    <3>2. CASE s.claim = None
      BY <2>1, <3>2 DEF IssuesInv
    <3>. QED BY <3>1, <3>2
  <2>. QED BY <2>2, <2>3, <2>4 DEF IssuesInv
<1>. QED BY <1>4, <1>5

LEMMA IssuesNext == SessionInv /\ IssuesInv /\ [Next]_vars => IssuesInv'
<1> SUFFICES ASSUME SessionInv, IssuesInv, [Next]_vars PROVE IssuesInv'
  OBVIOUS
<1>1. ASSUME NEW app \in Apps, FileRead(app) PROVE IssuesInv'
  <2>1. call[app] # "none"
    BY <1>1 DEF FileRead
  <2>2. issues \cap Unmatched = {}
    BY <2>1 DEF IssuesInv
  <2>. QED BY <1>1, <2>2, FileReadResumes, ServesKeepsIssues
<1>2. ASSUME NEW app \in Apps, NEW service \in {"claim", "end"}, Calls(app, service) PROVE IssuesInv'
  <2>1. CASE \E s : Resumed(s) /\ (loaded => s = state) /\ Serves(app, service, s)
    <3>1. PICK s : Resumed(s) /\ (loaded => s = state) /\ Serves(app, service, s)
      BY <2>1
    <3>2. s = state \/ issues \cap Unmatched = {}
      BY <3>1 DEF IssuesInv
    <3>. QED BY <3>1, <3>2, ServesKeepsIssues
  <2>2. CASE /\ ~loaded /\ call' = [call EXCEPT ![app] = service]
             /\ UNCHANGED <<state, loaded, issues, slot, writing, disk, counts>>
    <3>1. state.claim = None
      BY <2>2 DEF IssuesInv
    <3>. QED BY <2>2, <3>1 DEF IssuesInv, Unattributed, Unmatched
  <2>. QED BY <1>2, <2>1, <2>2, CallsResume
<1>3. ASSUME NEW entry \in Entries, ReportsConnected(entry) PROVE IssuesInv'
  <2>1. UNCHANGED <<loaded, call>> /\ state \in State
    BY <1>3 DEF ReportsConnected, SessionInv, TypeInv
  <2>2. CASE state.claim # None
    <3>1. state' = [state EXCEPT !.rp = TRUE, !.claim.seen = TRUE] /\ issues' = issues \ Unmatched
      BY <1>3, <2>2 DEF ReportsConnected
    <3>2. state.claim \in Claim
      BY <2>1, <2>2 DEF State
    <3>3. state' = [state EXCEPT !.rp = TRUE, !.claim = [state.claim EXCEPT !.seen = TRUE]]
      BY <2>1, <3>1, SMTT(30) DEF State
    <3>4. [state.claim EXCEPT !.seen = TRUE].seen = TRUE
      BY <3>2 DEF Claim
    <3> DEFINE c == [state.claim EXCEPT !.seen = TRUE]
    <3> HIDE DEF c
    <3>5. state'.claim = c /\ state'.unattributed = state.unattributed
      BY <2>1, <3>3 DEF State, c
    <3>6. state'.claim.seen = TRUE
      BY <3>4, <3>5 DEF c
    <3>7. issues' \cap Unmatched = {} /\ issues' \cap Unattributed = issues \cap Unattributed
      BY <3>1, KindsDiffer
    <3>. QED BY <2>1, <2>2, <3>5, <3>6, <3>7 DEF IssuesInv, Unattributed, Unmatched
  <2>3. CASE state.claim = None
    <3>1. /\ state'.claim = None
          /\ state'.unattributed # None => issues' \cap Unattributed # {}
      <4>1. CASE state.unattributed # None
        <5>1. state' = [state EXCEPT !.rp = TRUE] /\ issues' = issues
          BY <1>3, <2>3, <4>1 DEF ReportsConnected
        <5>. QED BY <2>1, <2>3, <4>1, <5>1 DEF State, IssuesInv
      <4>2. CASE state.unattributed = None
        <5>1. /\ state' = [state EXCEPT !.rp = TRUE, !.unattributed = sessions + 1]
              /\ issues' = issues \cup {<<"unattributed", entry>>}
          BY <1>3, <2>3, <4>2 DEF ReportsConnected
        <5>2. state'.claim = None
          BY <2>1, <2>3, <5>1 DEF State
        <5>3. <<"unattributed", entry>> \in Unattributed
          BY DEF Unattributed
        <5>. QED BY <5>1, <5>2, <5>3
      <4>. QED BY <4>1, <4>2
    <3>2. issues' \cap Unmatched = {}
      <4>1. issues \cap Unmatched = {}
        BY <2>3 DEF IssuesInv
      <4>2. issues' = issues \/ issues' = issues \cup {<<"unattributed", entry>>}
        BY <1>3, <2>3 DEF ReportsConnected
      <4>3. <<"unattributed", entry>> \notin Unmatched
        BY DEF Unmatched
      <4>. QED BY <4>1, <4>2, <4>3
    <3>. QED BY <3>1, <3>2 DEF IssuesInv, Unattributed, Unmatched
  <2>. QED BY <2>2, <2>3
<1>4. ASSUME NEW entry \in Entries, ChecksClaim(entry) PROVE IssuesInv'
  <2>1. /\ state.claim # None /\ ~state.claim.seen /\ ~Resuming
        /\ issues' = issues \cup {<<"unmatched", entry>>} /\ UNCHANGED <<state, loaded, call>>
    BY <1>4 DEF ChecksClaim
  <2>2. loaded = TRUE
    BY <2>1 DEF IssuesInv
  <2>3. \A app \in Apps : call[app] = "none"
    BY <2>1, <2>2 DEF Resuming
  <2>4. issues \cap Unattributed # {} => issues' \cap Unattributed # {}
    BY <2>1
  <2>. QED BY <2>1, <2>2, <2>3, <2>4 DEF IssuesInv, Unattributed, Unmatched
<1>5. CASE ReportsDisconnected
  <2>1. UNCHANGED <<issues, loaded, call>> /\ state \in State
    BY <1>5 DEF ReportsDisconnected, SessionInv, TypeInv
  <2>2. state'.claim = state.claim /\ state'.unattributed = None /\ state'.rp = FALSE
    <3>1. CASE state.unattributed = None
      <4>1. state' = [state EXCEPT !.rp = FALSE]
        BY <1>5, <3>1 DEF ReportsDisconnected
      <4>. QED BY <2>1, <3>1, <4>1 DEF State
    <3>2. CASE state.unattributed # None
      <4> DEFINE r == [state EXCEPT !.rp = FALSE, !.unattributed = None]
                 x == [id |-> state.unattributed, attributed |-> FALSE, seen |-> TRUE]
      <4>1. state' = Appended(r, x)
        BY <1>5, <3>2 DEF ReportsDisconnected
      <4>2. r \in State /\ r.history = state.history /\ r.claim = state.claim
              /\ r.unattributed = None /\ r.rp = FALSE
        BY <2>1 DEF State
      <4>3. x \in Session /\ x.id = state.unattributed
        BY <2>1, <3>2 DEF Session, State
      <4>4. Distinct(state.history) /\ Without(state.history, x.id)
        BY <3>2, <4>3 DEF SessionInv, Consistent, Lacks
      <4> HIDE DEF r, x
      <4>. QED BY <4>1, <4>2, <4>3, <4>4, AppendedFacts
    <3>. QED BY <3>1, <3>2
  <2>. QED BY <2>1, <2>2 DEF IssuesInv, Unattributed, Unmatched
<1>6. CASE WriteStarts \/ WriteEnds \/ UNCHANGED vars
  <2>1. UNCHANGED <<state, loaded, issues, call>>
    BY <1>6 DEF WriteStarts, WriteEnds, vars, memory
  <2>. QED BY <2>1 DEF IssuesInv, Unattributed, Unmatched
<1>7. CASE Restarts
  <2>1. /\ state'.claim = None /\ state'.unattributed = None /\ issues' = {}
    BY <1>7 DEF Restarts, NewState
  <2>. QED BY <2>1 DEF IssuesInv
<1>. QED BY <1>1, <1>2, <1>3, <1>4, <1>5, <1>6, <1>7 DEF Next

\* Whatever order claims, reports, checks and restarts come in, from any number
\* of apps and entries: an issue stands while a session runs that nobody has
\* claimed, and an unmatched issue only for a claim that no panel has confirmed.
THEOREM IssuesAlwaysAgree == Spec => []IssuesAgree
<1>1. Init => IssuesInv
  BY DEF Init, IssuesInv, NewState
<1>2. Spec => []IssuesInv
  BY <1>1, IssuesNext, SessionInvAlways, PTL DEF Spec
<1>3. IssuesInv => IssuesAgree
  BY DEF IssuesInv, IssuesAgree
<1>. QED BY <1>2, <1>3, PTL

-----------------------------------------------------------------------------
(***************************************************************************)
(* No session is forgotten.                                                *)
(***************************************************************************)
Short(s) == Len(s.history) <= HISTORY_LIMIT

\* The history never outgrows its limit, in memory, in the file or on its way
\* there, so that one session more drops one at most; and a session that nobody
\* has claimed is open.
LimitInv ==
  /\ Short(state) /\ \A d \in Stored : Short(d)
  /\ state.unattributed # None => state.rp = TRUE

\* The sessions of s are those of r too, but for the oldest of a full history.
Survives(s, r) ==
  \A id \in Ids(s) : id \in Ids(r) \/ (Len(s.history) = HISTORY_LIMIT /\ s.history[1].id = id)

LEMMA AppendedKeeps ==
  ASSUME NEW s \in State, NEW x \in Session, Short(s)
  PROVE  /\ Short(Appended(s, x))
         /\ \A i \in DOMAIN s.history :
              \/ \E j \in DOMAIN Appended(s, x).history : Appended(s, x).history[j] = s.history[i]
              \/ Len(s.history) = HISTORY_LIMIT /\ i = 1
         /\ \E j \in DOMAIN Appended(s, x).history : Appended(s, x).history[j] = x
<1> DEFINE h == s.history
           longer == Append(h, x)
           surplus == Len(longer) - HISTORY_LIMIT
           new == IF surplus > 0 THEN SubSeq(longer, surplus + 1, Len(longer)) ELSE longer
<1>1. h \in Seq(Session) /\ s.count \in Nat
  BY DEF State
<1>2. longer \in Seq(Session) /\ Len(longer) = Len(h) + 1 /\ Len(h) \in Nat
  BY <1>1
<1>3. longer[Len(h) + 1] = x /\ \A i \in 1..Len(h) : longer[i] = h[i]
  BY <1>1
<1>4. Len(h) <= HISTORY_LIMIT
  BY DEF Short
<1>5. Appended(s, x).history = new
  <2>1. Appended(s, x) = [s EXCEPT !.history = new, !.count = @ + 1]
    BY DEF Appended
  <2> HIDE DEF new
  <2>. QED BY <2>1 DEF State
<1>6. DOMAIN h = 1..Len(h)
  BY <1>1
<1> HIDE DEF h
<1>7. CASE surplus > 0
  <2>1. Len(h) = HISTORY_LIMIT /\ surplus = 1
    BY <1>2, <1>4, <1>7
  <2>2. new = SubSeq(longer, 2, Len(longer))
    BY <1>7, <2>1
  <2> HIDE DEF longer
  <2>3. Len(new) = Len(h) /\ DOMAIN new = 1..Len(h) /\ \A i \in 1..Len(h) : new[i] = longer[i + 1]
    BY <1>2, <2>1, <2>2
  <2> HIDE DEF new, surplus
  <2>4. new[Len(h)] = x /\ Len(h) \in DOMAIN new
    BY <1>2, <1>3, <2>1, <2>3
  <2>5. ASSUME NEW i \in DOMAIN h, i # 1
        PROVE  \E j \in DOMAIN new : new[j] = h[i]
    <3>1. i \in 1..Len(h) /\ i - 1 \in DOMAIN new /\ new[i - 1] = h[i]
      BY <1>2, <1>3, <1>6, <2>3, <2>5
    <3>. QED BY <3>1
  <2>. QED BY <1>4, <1>5, <2>1, <2>3, <2>4, <2>5 DEF Short, h
<1>8. CASE ~(surplus > 0)
  <2>1. new = longer
    BY <1>8
  <2>2. Len(longer) <= HISTORY_LIMIT
    BY <1>2, <1>8
  <2>3. DOMAIN longer = 1..(Len(h) + 1)
    BY <1>2
  <2> HIDE DEF new, surplus, longer
  <2>4. Len(h) + 1 \in DOMAIN new /\ new[Len(h) + 1] = x
    BY <1>2, <1>3, <2>1, <2>3
  <2>5. \A i \in DOMAIN h : i \in DOMAIN new /\ new[i] = h[i]
    BY <1>2, <1>3, <1>6, <2>1, <2>3
  <2>. QED BY <1>5, <2>1, <2>2, <2>4, <2>5 DEF Short, h
<1>. QED BY <1>7, <1>8

LEMMA ClosedKeeps ==
  ASSUME NEW s \in State, Short(s)
  PROVE  Short(Closed(s)) /\ Survives(s, Closed(s)) /\ (s.claim # None => Closed(s).claim = None)
<1>1. CASE s.claim = None
  BY <1>1 DEF Closed, Survives
<1>2. CASE s.claim # None
  <2> DEFINE open == [s EXCEPT !.claim = None]
             x == [id |-> s.claim.id, attributed |-> TRUE, seen |-> s.claim.seen]
             r == Closed(s)
  <2>1. s.claim \in Claim
    BY <1>2 DEF State
  <2>2. open \in State /\ open.claim = None /\ open.history = s.history
    BY DEF State
  <2>3. x \in Session /\ x.id = s.claim.id
    BY <2>1 DEF Claim, Session
  <2>4. r = Appended(open, x)
    BY <1>2 DEF Closed
  <2>5. r.claim = None
    <3>1. \E new : r = [open EXCEPT !.history = new, !.count = @ + 1]
      BY <2>4 DEF Appended
    <3> HIDE DEF open, r
    <3>. QED BY <2>2, <3>1 DEF State
  <2> HIDE DEF open, x, r
  <2>6. /\ Short(r)
        /\ \A i \in DOMAIN s.history : \/ \E j \in DOMAIN r.history : r.history[j] = s.history[i]
                                       \/ Len(s.history) = HISTORY_LIMIT /\ i = 1
        /\ \E j \in DOMAIN r.history : r.history[j] = x
    <3>1. Short(open)
      BY <2>2 DEF Short
    <3>. QED BY <2>2, <2>3, <2>4, <3>1, AppendedKeeps
  <2>7. Ids(r) = {r.history[j].id : j \in DOMAIN r.history}
    BY <2>5 DEF Ids
  <2>8. ASSUME NEW id \in Ids(s)
        PROVE  id \in Ids(r) \/ (Len(s.history) = HISTORY_LIMIT /\ s.history[1].id = id)
    <3>1. CASE id = s.claim.id
      BY <2>3, <2>6, <2>7, <3>1
    <3>2. CASE \E i \in DOMAIN s.history : id = s.history[i].id
      BY <2>6, <2>7, <3>2
    <3>. QED BY <3>1, <3>2, <1>2 DEF Ids
  <2>. QED BY <2>5, <2>6, <2>8 DEF Survives, r
<1>. QED BY <1>1, <1>2

LEMMA ClaimedKeeps ==
  ASSUME NEW s \in State, NEW n \in Nat, Consistent(s, n), Short(s)
  PROVE  Short(Claimed(s, n + 1)) /\ Survives(s, Claimed(s, n + 1))
<1> DEFINE r == Closed(s)
           c == [id |-> n + 1, seen |-> s.rp]
           t == Claimed(s, n + 1)
<1>1. r \in State /\ r.claim = None
  BY ClosedFacts
<1>2. Short(r) /\ Survives(s, r)
  BY ClosedKeeps
<1>3. t = [r EXCEPT !.claim = c, !.unattributed = None]
  BY DEF Claimed
<1> HIDE DEF r, c, t
<1>4. t.history = r.history
  BY <1>1, <1>3 DEF State
<1>5. Ids(r) \subseteq Ids(t)
  BY <1>1, <1>4 DEF Ids
<1>. QED BY <1>2, <1>4, <1>5 DEF Short, Survives, t

LEMMA ServesKeepsLimit ==
  ASSUME SessionInv, LimitInv, NEW app \in Apps, NEW service \in {"claim", "end"}, NEW s, Resumed(s), Short(s),
         Serves(app, service, s)
  PROVE  /\ LimitInv' /\ Survives(s, state')
         /\ state.unattributed # None /\ state'.unattributed = None => state'.claim # None /\ state'.claim.seen
<1>1. /\ UNCHANGED <<writing, disk>>
      /\ IF service = "claim" THEN Claims(app, s) ELSE Ends(app, s)
  BY DEF Serves
<1>2. s \in State /\ sessions \in Nat /\ Consistent(s, sessions)
        /\ s.unattributed = state.unattributed /\ s.rp = state.rp
  BY DEF Resumed, SessionInv, TypeInv
<1>3. CASE service = "claim"
  <2>1. state' = Claimed(s, sessions + 1) /\ slot' = Data(state')
    BY <1>1, <1>3 DEF Claims
  <2>2. /\ state'.unattributed = None /\ state'.claim = [id |-> sessions + 1, seen |-> s.rp]
        /\ Short(state') /\ Survives(s, state')
    BY <1>2, <2>1, ClaimedFacts, ClaimedKeeps
  <2>3. Short(slot')
    BY <2>1, <2>2 DEF Short, Data
  <2>4. \A d \in Stored' : Short(d)
    BY <1>1, <2>3 DEF Stored, LimitInv
  <2>5. state'.claim # None /\ state'.claim.seen = s.rp
    <3>1. [id |-> sessions + 1, seen |-> s.rp] \in Claim
      BY <1>2 DEF Claim, State
    <3>. QED BY <2>2, <3>1 DEF Claim
  <2>6. state.unattributed # None => state'.claim.seen = TRUE
    BY <1>2, <2>5 DEF LimitInv
  <2>. QED BY <2>2, <2>4, <2>5, <2>6 DEF LimitInv
<1>4. CASE service = "end"
  <2>1. state' = Closed(s) /\ (slot' = slot \/ slot' = Data(state'))
    BY <1>1, <1>4 DEF Ends
  <2>2. /\ state'.unattributed = state.unattributed /\ state'.rp = state.rp
        /\ Short(state') /\ Survives(s, state')
    BY <1>2, <2>1, ClosedFacts, ClosedKeeps
  <2>3. Short(Data(state'))
    BY <2>2 DEF Short, Data
  <2>4. \A d \in Stored' : Short(d)
    BY <1>1, <2>1, <2>3 DEF Stored, LimitInv
  <2>. QED BY <2>2, <2>4 DEF LimitInv
<1>. QED BY <1>3, <1>4

\* What a step that reads and writes no file keeps.
Kept ==
  /\ Survives(state, state')
  /\ state.unattributed # None /\ state'.unattributed = None =>
       \/ state'.claim # None /\ state'.claim.seen
       \/ \E i \in DOMAIN state'.history : state'.history[i].id = state.unattributed

LEMMA CallsResumeShort ==
  ASSUME SessionInv, LimitInv, NEW app \in Apps, NEW service \in {"claim", "end"}, Calls(app, service)
  PROVE  \/ \E s : Resumed(s) /\ Short(s) /\ (loaded => s = state) /\ Serves(app, service, s)
         \/ ~loaded /\ ~loaded' /\ UNCHANGED <<state, slot, writing, disk>>
<1>1. CASE loaded
  BY <1>1, CallsResume DEF LimitInv
<1>2. CASE ~loaded /\ slot # None
  <2> DEFINE data == IF slot = Live THEN Data(state) ELSE slot
  <2>1. Serves(app, service, Loaded(state, data))
    BY <1>2 DEF Calls
  <2>2. data \in Saved /\ Consistent(data, sessions) /\ Short(data)
          /\ (state.unattributed # None => Lacks(data, state.unattributed))
    <3>1. CASE slot = Live
      <4>1. state \in State /\ Consistent(state, sessions) /\ sessions \in Nat /\ Short(state)
              /\ (state.unattributed # None => state.unattributed \in Nat /\ Lacks(state, state.unattributed))
        BY DEF SessionInv, TypeInv, LimitInv, State
      <4>2. Short(Data(state))
        BY <4>1 DEF Short, Data
      <4>. QED BY <3>1, <4>1, <4>2, DataFacts
    <3>2. CASE slot # Live
      BY <1>2, <3>2 DEF Stored, SessionInv, TypeInv, LimitInv
    <3>. QED BY <3>1, <3>2
  <2> HIDE DEF data
  <2>3. Resumed(Loaded(state, data))
    BY <2>2, LoadsResume
  <2>4. Short(Loaded(state, data))
    <3>1. state \in State
      BY DEF SessionInv, TypeInv
    <3>2. Loaded(state, data).history \in {data.history, state.history}
      BY <3>1 DEF Loaded, State
    <3>. QED BY <2>2, <3>2 DEF Short, LimitInv
  <2>. QED BY <1>2, <2>1, <2>3, <2>4
<1>3. CASE ~loaded /\ slot = None
  BY <1>3 DEF Calls
<1>. QED BY <1>1, <1>2, <1>3

LEMMA LimitNext ==
  SessionInv /\ LimitInv /\ [Next]_vars =>
    LimitInv' /\ (loaded /\ loaded' /\ (\A app \in Apps : call[app] = "none") => Kept)
<1> DEFINE Steady == loaded /\ loaded' /\ \A app \in Apps : call[app] = "none"
<1> SUFFICES ASSUME SessionInv, LimitInv, [Next]_vars PROVE LimitInv' /\ (Steady => Kept)
  OBVIOUS
<1> HIDE DEF Steady
<1>0. state \in State
  BY DEF SessionInv, TypeInv
<1>1. ASSUME NEW app \in Apps, FileRead(app) PROVE LimitInv' /\ (Steady => Kept)
  <2>1. Short(Loaded(state, disk))
    <3>1. disk # None => Short(disk)
      BY DEF LimitInv, Stored
    <3>2. disk = None => Loaded(state, disk) = state
      BY DEF Loaded
    <3>3. disk # None => Loaded(state, disk).history = disk.history
      BY <1>0 DEF Loaded, State
    <3>. QED BY <3>1, <3>2, <3>3 DEF Short, LimitInv
  <2>2. ~Steady
    BY <1>1 DEF FileRead, Steady
  <2>3. LimitInv'
    BY <1>1, <2>1, FileReadResumes, ServesKeepsLimit
  <2>. QED BY <2>2, <2>3
<1>2. ASSUME NEW app \in Apps, NEW service \in {"claim", "end"}, Calls(app, service)
      PROVE  LimitInv' /\ (Steady => Kept)
  <2>1. CASE \E s : Resumed(s) /\ Short(s) /\ (loaded => s = state) /\ Serves(app, service, s)
    <3>1. PICK s : Resumed(s) /\ Short(s) /\ (loaded => s = state) /\ Serves(app, service, s)
      BY <2>1
    <3>2. /\ LimitInv' /\ Survives(s, state')
          /\ state.unattributed # None /\ state'.unattributed = None => state'.claim # None /\ state'.claim.seen
      BY <3>1, ServesKeepsLimit
    <3>. QED BY <3>1, <3>2 DEF Kept, Steady
  <2>2. CASE ~loaded /\ ~loaded' /\ UNCHANGED <<state, slot, writing, disk>>
    BY <2>2 DEF LimitInv, Stored, Steady
  <2>. QED BY <1>2, <2>1, <2>2, CallsResumeShort
<1>3. ASSUME NEW entry \in Entries, ReportsConnected(entry) PROVE LimitInv' /\ (Steady => Kept)
  <2>1. slot' = Live /\ UNCHANGED <<writing, disk>>
    BY <1>3 DEF ReportsConnected
  <2>2. \A d \in Stored' : d \in Stored
    BY <2>1 DEF Stored
  <2>3. /\ state'.rp = TRUE /\ state'.history = state.history
        /\ state'.unattributed = state.unattributed \/ state.unattributed = None
        /\ Ids(state) \subseteq Ids(state')
    <3>1. CASE state.claim # None
      <4>1. state' = [state EXCEPT !.rp = TRUE, !.claim.seen = TRUE]
        BY <1>3, <3>1 DEF ReportsConnected
      <4>2. state.claim \in Claim
        BY <1>0, <3>1 DEF State
      <4> DEFINE c == [state.claim EXCEPT !.seen = TRUE]
      <4>3. state' = [state EXCEPT !.rp = TRUE, !.claim = c]
        BY <1>0, <4>1, SMTT(30) DEF State
      <4>4. c.id = state.claim.id /\ c \in Claim
        BY <4>2 DEF Claim
      <4> HIDE DEF c
      <4>5. state'.rp = TRUE /\ state'.history = state.history /\ state'.claim = c
              /\ state'.unattributed = state.unattributed
        BY <1>0, <4>3 DEF State
      <4>6. c # None
        BY <4>4 DEF Claim
      <4>7. Ids(state') = {state.history[i].id : i \in DOMAIN state.history} \cup {state.claim.id}
        BY <4>4, <4>5, <4>6 DEF Ids
      <4>. QED BY <3>1, <4>5, <4>7 DEF Ids
    <3>2. CASE state.claim = None /\ state.unattributed # None
      <4>1. state' = [state EXCEPT !.rp = TRUE]
        BY <1>3, <3>2 DEF ReportsConnected
      <4>2. state'.rp = TRUE /\ state'.history = state.history /\ state'.claim = state.claim
              /\ state'.unattributed = state.unattributed
        BY <1>0, <4>1 DEF State
      <4>. QED BY <4>2 DEF Ids
    <3>3. CASE state.claim = None /\ state.unattributed = None
      <4>1. state' = [state EXCEPT !.rp = TRUE, !.unattributed = sessions + 1]
        BY <1>3, <3>3 DEF ReportsConnected
      <4>2. state'.rp = TRUE /\ state'.history = state.history /\ state'.claim = state.claim
        BY <1>0, <4>1 DEF State
      <4>. QED BY <3>3, <4>2 DEF Ids
    <3>. QED BY <3>1, <3>2, <3>3
  <2>. QED BY <2>2, <2>3 DEF LimitInv, Short, Kept, Survives
<1>4. CASE ReportsDisconnected
  <2>1. slot' = Live /\ UNCHANGED <<writing, disk>>
    BY <1>4 DEF ReportsDisconnected
  <2>2. \A d \in Stored' : d \in Stored
    BY <2>1 DEF Stored
  <2>3. CASE state.unattributed = None
    <3>1. state' = [state EXCEPT !.rp = FALSE]
      BY <1>4, <2>3 DEF ReportsDisconnected
    <3>2. state'.history = state.history /\ state'.claim = state.claim /\ state'.unattributed = None
      BY <1>0, <2>3, <3>1 DEF State
    <3>3. Ids(state') = Ids(state)
      BY <3>2 DEF Ids
    <3>. QED BY <2>2, <2>3, <3>2, <3>3 DEF LimitInv, Short, Kept, Survives
  <2>4. CASE state.unattributed # None
    <3> DEFINE r == [state EXCEPT !.rp = FALSE, !.unattributed = None]
               x == [id |-> state.unattributed, attributed |-> FALSE, seen |-> TRUE]
    <3>1. state' = Appended(r, x)
      BY <1>4, <2>4 DEF ReportsDisconnected
    <3>2. r \in State /\ r.history = state.history /\ r.claim = state.claim /\ r.unattributed = None
      BY <1>0 DEF State
    <3>3. x \in Session /\ x.id = state.unattributed
      BY <1>0, <2>4 DEF Session, State
    <3>4. Short(r) /\ Distinct(r.history) /\ Without(r.history, x.id)
      BY <2>4, <3>2, <3>3 DEF LimitInv, Short, SessionInv, Consistent, Lacks
    <3> HIDE DEF r, x
    <3>5. state'.claim = state.claim /\ state'.unattributed = None
      BY <3>1, <3>2, <3>3, <3>4, AppendedFacts
    <3>6. /\ Short(state')
          /\ \A i \in DOMAIN state.history :
               \/ \E j \in DOMAIN state'.history : state'.history[j] = state.history[i]
               \/ Len(state.history) = HISTORY_LIMIT /\ i = 1
          /\ \E j \in DOMAIN state'.history : state'.history[j] = x
      BY <3>1, <3>2, <3>3, <3>4, AppendedKeeps
    <3>7. ASSUME NEW id \in Ids(state)
          PROVE  id \in Ids(state') \/ (Len(state.history) = HISTORY_LIMIT /\ state.history[1].id = id)
      BY <3>5, <3>6 DEF Ids
    <3>8. \E i \in DOMAIN state'.history : state'.history[i].id = state.unattributed
      BY <3>3, <3>6
    <3>. QED BY <2>2, <3>5, <3>6, <3>7, <3>8 DEF LimitInv, Kept, Survives
  <2>. QED BY <2>3, <2>4
<1>5. CASE WriteStarts
  <2>1. /\ slot # None /\ slot' = None /\ UNCHANGED <<state, disk>>
        /\ writing' = IF slot = Live THEN Data(state) ELSE slot
    BY <1>5 DEF WriteStarts
  <2>2. Short(Data(state))
    BY DEF LimitInv, Short, Data
  <2>3. Short(writing')
    BY <2>1, <2>2 DEF LimitInv, Stored
  <2>4. \A d \in Stored' : d = writing' \/ d \in Stored
    BY <2>1 DEF Stored
  <2>. QED BY <2>1, <2>3, <2>4 DEF LimitInv, Kept, Survives
<1>6. CASE WriteEnds
  <2>1. disk' = writing /\ writing' = None /\ UNCHANGED <<state, slot>>
    BY <1>6 DEF WriteEnds
  <2>2. \A d \in Stored' : d \in Stored
    BY <2>1 DEF Stored
  <2>. QED BY <2>1, <2>2 DEF LimitInv, Kept, Survives
<1>7. CASE (\E entry \in Entries : ChecksClaim(entry)) \/ UNCHANGED vars
  <2>1. UNCHANGED <<state, slot, writing, disk>>
    BY <1>7 DEF ChecksClaim, vars, memory
  <2>. QED BY <2>1 DEF LimitInv, Stored, Kept, Survives
<1>8. CASE Restarts
  <2>1. /\ state' = NewState /\ loaded' = FALSE /\ slot' = None /\ writing' = None /\ disk' = disk
    BY <1>8 DEF Restarts
  <2>2. \A d \in Stored' : d \in Stored
    BY <2>1 DEF Stored
  <2>. QED BY <2>1, <2>2 DEF LimitInv, Short, NewState, Steady
<1>. QED BY <1>1, <1>2, <1>3, <1>4, <1>5, <1>6, <1>7, <1>8 DEF Next

\* For any history limit, apps and entries: once the file has been read no step
\* forgets a session, but for the oldest of a full history.
THEOREM NothingIsForgotten == Spec => NothingForgotten
<1>1. Init => LimitInv
  BY DEF Init, LimitInv, Short, Stored, NewState
<1>2. Spec => []LimitInv
  BY <1>1, LimitNext, SessionInvAlways, PTL DEF Spec
<1>3. SessionInv /\ LimitInv /\ [Next]_vars =>
        (loaded /\ loaded' /\ (\A app \in Apps : call[app] = "none") => Kept)
  BY LimitNext
<1>4. Spec => [][loaded /\ loaded' /\ (\A app \in Apps : call[app] = "none") => Kept]_vars
  BY <1>2, <1>3, SessionInvAlways, PTL DEF Spec
<1>5. (loaded /\ loaded' /\ (\A app \in Apps : call[app] = "none") => Kept)
      => (loaded /\ loaded' /\ (\A app \in Apps : call[app] = "none") =>
            /\ \A id \in Ids(state) : \/ id \in Ids(state')
                                      \/ Len(state.history) = HISTORY_LIMIT /\ state.history[1].id = id
            /\ state.unattributed # None /\ state'.unattributed = None =>
                 \/ state'.claim # None /\ state'.claim.seen
                 \/ \E i \in DOMAIN state'.history : state'.history[i].id = state.unattributed)
  BY DEF Kept, Survives
<1>. QED BY <1>4, <1>5, PTL DEF NothingForgotten

=============================================================================

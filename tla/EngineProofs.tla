---------------------------- MODULE EngineProofs ----------------------------
(***************************************************************************)
(* Proofs about the engine, for any trajectories, rules, results, TTL and  *)
(* clock: type correctness without hypotheses, then the properties that    *)
(* need the hypotheses of EngineProperties.                                *)
(***************************************************************************)
EXTENDS EngineProperties, FiniteSetTheorems, TLAPS

-----------------------------------------------------------------------------
(***************************************************************************)
(* Where the engine's test for the end of a window is right: daily rules   *)
(* always, hourly rules while the two instants are less than a year apart. *)
(***************************************************************************)
LEMMA Division ==
  ASSUME NEW x \in Int, NEW n \in Nat \ {0}
  PROVE  /\ x = n * (x \div n) + (x % n)
         /\ x \div n \in Int /\ x % n \in Int
  OBVIOUS

\* Quotient and remainder determine a number.
LEMMA Euclid ==
  ASSUME NEW x \in Int, NEW y \in Int, NEW n \in Nat \ {0},
         x % n = y % n, x \div n = y \div n
  PROVE  x = y
  <1>1. x = n * (x \div n) + (x % n)
    OBVIOUS
  <1>2. y = n * (y \div n) + (y % n)
    OBVIOUS
  <1> QED
    BY <1>1, <1>2

LEMMA DivMonotone ==
  ASSUME NEW x \in Int, NEW y \in Int, NEW n \in Nat \ {0}, x <= y
  PROVE  x \div n <= y \div n
  <1>1. x = n * (x \div n) + (x % n) /\ 0 <= x % n /\ x % n < n /\ x \div n \in Int
    OBVIOUS
  <1>2. y = n * (y \div n) + (y % n) /\ 0 <= y % n /\ y % n < n /\ y \div n \in Int
    OBVIOUS
  <1>3. ASSUME y \div n < x \div n PROVE FALSE
    <2> DEFINE p == x \div n
               q == y \div n
    <2>1. p \in Int /\ q \in Int /\ q + 1 <= p
      BY <1>1, <1>2, <1>3
    <2> HIDE DEF p, q
    <2>2. n * (q + 1) <= n * p
      BY <2>1
    <2>3. n * (q + 1) = n * q + n
      BY <2>1
    <2> QED
      BY <1>1, <1>2, <2>1, <2>2, <2>3 DEF p, q
  <1> QED
    BY <1>1, <1>2, <1>3

LEMMA InType ==
  ASSUME NEW tw, NEW a \in Int, NEW b \in Int
  PROVE  /\ In(tw, a) \in Int /\ In(tw, b) \in Int
         /\ In(tw, b) - In(tw, a) = b - a
  BY CalendarAssumption DEF In

-----------------------------------------------------------------------------
\* Between a and b the engine's test and the calendar agree.
SoundBetween(tw, a, b) ==
  /\ WindowOf(tw, a) <= WindowOf(tw, b)
  /\ IsWindowExpired(tw, a, b) <=> WindowOf(tw, a) # WindowOf(tw, b)

DailyWindow(tw) == tw.enabled /\ tw.resetSchedule = "daily"
HourlyWindow(tw) == tw.enabled /\ tw.resetSchedule = "hourly"

LEMMA DailySound ==
  ASSUME NEW tw, DailyWindow(tw), NEW a \in Int, NEW b \in Int, a <= b
  PROVE  SoundBetween(tw, a, b)
  <1> DEFINE A == In(tw, a)
             B == In(tw, b)
  <1>1. A \in Int /\ B \in Int /\ A <= B
    BY InType
  <1> HIDE DEF A, B
  <1>2. Day(A) \in Int /\ Day(B) \in Int /\ Day(A) <= Day(B)
    BY <1>1, DivMonotone, CalendarAssumption DEF Day
  <1>3. WindowOf(tw, a) = Day(A) /\ WindowOf(tw, b) = Day(B)
    BY DEF DailyWindow, WindowOf, Schedules, Period, Day, A, B
  <1>4. YearDay(B) = YearDay(A) /\ Year(B) = Year(A) <=> Day(A) = Day(B)
    BY <1>2, Euclid, CalendarAssumption DEF YearDay, Year
  <1>5. IsWindowExpired(tw, a, b) <=> YearDay(B) # YearDay(A) \/ Year(B) # Year(A)
    BY DEF IsWindowExpired, DailyWindow, A, B
  <1> QED
    BY <1>2, <1>3, <1>4, <1>5 DEF SoundBetween

\* The hourly test leaves the year out.
LEMMA HourlySound ==
  ASSUME NEW tw, HourlyWindow(tw), NEW a \in Int, NEW b \in Int, a <= b,
         b - a < HoursPerDay * DaysPerYear
  PROVE  SoundBetween(tw, a, b)
  <1> DEFINE A == In(tw, a)
             B == In(tw, b)
  <1>1. A \in Int /\ B \in Int /\ A <= B /\ B - A < HoursPerDay * DaysPerYear
    BY InType
  <1> HIDE DEF A, B
  <1>2. WindowOf(tw, a) = A /\ WindowOf(tw, b) = B
    BY <1>1 DEF HourlyWindow, WindowOf, Schedules, Period, A, B
  <1>3. ASSUME Hour(B) = Hour(A), YearDay(B) = YearDay(A)
        PROVE  A = B
    <2> DEFINE k == Year(B) - Year(A)
               year == HoursPerDay * DaysPerYear
    <2>1. /\ A = HoursPerDay * Day(A) + Hour(A) /\ Day(A) \in Int /\ Hour(A) \in Int
          /\ B = HoursPerDay * Day(B) + Hour(B) /\ Day(B) \in Int /\ Hour(B) \in Int
      BY <1>1, CalendarAssumption DEF Day, Hour
    <2>2. /\ Day(A) = DaysPerYear * Year(A) + YearDay(A) /\ Year(A) \in Int /\ YearDay(A) \in Int
          /\ Day(B) = DaysPerYear * Year(B) + YearDay(B) /\ Year(B) \in Int /\ YearDay(B) \in Int
      BY <2>1, Division, CalendarAssumption DEF Year, YearDay
    <2>3. Day(B) - Day(A) = DaysPerYear * k /\ k \in Int
      BY <1>3, <2>2, CalendarAssumption
    <2>4. B - A = HoursPerDay * (DaysPerYear * k)
      <3>1. B - A = HoursPerDay * (Day(B) - Day(A))
        BY <1>3, <2>1, CalendarAssumption
      <3> QED
        BY <2>3, <3>1
    <2>5. B - A = year * k /\ year \in Nat \ {0}
      BY <2>3, <2>4, CalendarAssumption
    <2> HIDE DEF k, year
    <2>6. k < 1
      <3>1. ASSUME 1 <= k PROVE FALSE
        <4>1. year <= year * k
          BY <2>3, <2>5, <3>1
        <4> QED
          BY <1>1, <2>5, <4>1 DEF year
      <3> QED
        BY <2>3, <3>1
    <2>7. k > -1
      <3>1. ASSUME k <= -1 PROVE FALSE
        <4>1. year * k <= -year
          BY <2>3, <2>5, <3>1
        <4> QED
          BY <1>1, <2>5, <4>1
      <3> QED
        BY <2>3, <3>1
    <2>8. k = 0
      BY <2>3, <2>6, <2>7
    <2> QED
      BY <1>1, <2>5, <2>8
  <1>4. IsWindowExpired(tw, a, b) <=> Hour(B) # Hour(A) \/ YearDay(B) # YearDay(A)
    BY DEF IsWindowExpired, HourlyWindow, A, B
  <1> QED
    BY <1>1, <1>2, <1>3, <1>4 DEF SoundBetween

LEMMA EndlessSound ==
  ASSUME NEW tw, ~tw.enabled, NEW a, NEW b
  PROVE  SoundBetween(tw, a, b)
  BY DEF SoundBetween, WindowOf, IsWindowExpired

-----------------------------------------------------------------------------
\* How long a gap no window spans.
LEMMA DailyGap ==
  ASSUME NEW tw, DailyWindow(tw), NEW a \in Int, NEW b \in Int, b - a >= HoursPerDay
  PROVE  WindowOf(tw, a) # WindowOf(tw, b)
  <1> DEFINE A == In(tw, a)
             B == In(tw, b)
  <1>1. A \in Int /\ B \in Int /\ B - A >= HoursPerDay
    BY InType, CalendarAssumption
  <1> HIDE DEF A, B
  <1>2. WindowOf(tw, a) = Day(A) /\ WindowOf(tw, b) = Day(B)
    BY DEF DailyWindow, WindowOf, Schedules, Period, Day, A, B
  <1>3. /\ A = HoursPerDay * Day(A) + Hour(A) /\ Hour(A) >= 0 /\ Hour(A) \in Int
        /\ B = HoursPerDay * Day(B) + Hour(B) /\ Hour(B) < HoursPerDay /\ Hour(B) \in Int
        /\ Day(A) \in Int /\ Day(B) \in Int
    BY <1>1, CalendarAssumption DEF Day, Hour
  <1>4. ASSUME Day(A) = Day(B) PROVE FALSE
    BY <1>1, <1>3, <1>4, CalendarAssumption
  <1> QED
    BY <1>2, <1>4

LEMMA HourlyGap ==
  ASSUME NEW tw, HourlyWindow(tw), NEW a \in Int, NEW b \in Int, b - a >= 1
  PROVE  WindowOf(tw, a) # WindowOf(tw, b)
  <1>1. In(tw, a) \in Int /\ In(tw, b) \in Int /\ In(tw, b) - In(tw, a) >= 1
    BY InType
  <1>2. WindowOf(tw, a) = In(tw, a) /\ WindowOf(tw, b) = In(tw, b)
    BY <1>1 DEF HourlyWindow, WindowOf, Schedules, Period
  <1> QED
    BY <1>1, <1>2

-----------------------------------------------------------------------------
(* Types of what a call computes. *)

LEMMA ReadableValue ==
  ASSUME NEW rule \in Rules, NEW res \in Results, ~Unreadable(rule, res)
  PROVE  /\ rule.accumulator = "sum" => res.value \in Int
         /\ rule.accumulator = "unique_set" => res.value \in Targets
  BY EngineAssumption DEF Unreadable

LEMMA ChargedType ==
  ASSUME NEW used \in Usage, NEW rule \in Rules, NEW res \in Results,
         ~Unreadable(rule, res)
  PROVE  Charged(used, rule, res) \in Usage
  BY ReadableValue DEF Charged, Usage

LEMMA RulesOfType ==
  ASSUME NEW session \in Sessions \cup {Absent}
  PROVE  RulesOf(session) \in [RuleIDs -> RuleStates \cup {Absent}]
  BY DEF RulesOf, Sessions

LEMMA StateOfType ==
  ASSUME NEW session \in Sessions \cup {Absent}, NEW rule \in Rules, NEW t \in Time
  PROVE  StateOf(session, rule, t) \in RuleStates
  <1>1. rule.ruleID \in RuleIDs
    BY DEF RuleIDs
  <1>2. RulesOf(session)[rule.ruleID] \in RuleStates \cup {Absent}
    BY <1>1, RulesOfType
  <1>3. Fresh(t) \in RuleStates
    BY DEF Fresh, RuleStates, Unused, Usage
  <1> QED
    BY <1>2, <1>3 DEF StateOf

LEMMA ChargedStateType ==
  ASSUME NEW session \in Sessions \cup {Absent}, NEW rule \in Rules,
         NEW res \in Results, NEW t \in Time, ~Unreadable(rule, res)
  PROVE  ChargedState(session, rule, res, t) \in RuleStates
  <1> DEFINE state == StateOf(session, rule, t)
  <1>1. state \in RuleStates
    BY StateOfType
  <1>2. Charged(state.used, rule, res) \in Usage
    BY <1>1, ChargedType DEF RuleStates
  <1> QED
    BY <1>1, <1>2 DEF ChargedState, RuleStates

LEMMA TouchedType ==
  ASSUME NEW session \in Sessions \cup {Absent}, NEW rule \in Rules,
         NEW state \in RuleStates, NEW t \in Time
  PROVE  Touched(session, rule, state, t) \in Sessions
  BY RulesOfType DEF Touched, Sessions, RuleIDs

LEMMA EnteredType ==
  ASSUME NEW entry \in LedgerEntries, NEW rule \in Rules, NEW res \in Results,
         NEW t \in Time, ~Unreadable(rule, res), WindowOf(rule.timeWindow, t) \in Int
  PROVE  Entered(entry, rule, res, t) \in LedgerEntries
  <1>1. Spent(entry, rule, t) \in Usage
    BY DEF Spent, LedgerEntries, Unused, Usage
  <1>2. Charged(Spent(entry, rule, t), rule, res) \in Usage
    BY <1>1, ChargedType
  <1> QED
    BY <1>2 DEF Entered, LedgerEntries

LEMMA WindowType ==
  ASSUME NEW rule \in Rules, NEW t \in Time
  PROVE  WindowOf(rule.timeWindow, t) \in Int
  <1> DEFINE tw == rule.timeWindow
  <1>1. tw \in TimeWindows
    BY EngineAssumption
  <1>2. In(tw, t) \in Int
    BY CalendarAssumption DEF In, Time
  <1>3. ASSUME tw.resetSchedule \in Schedules
        PROVE  Period(tw.resetSchedule) \in Nat \ {0}
    BY <1>3, CalendarAssumption DEF Schedules, Period
  <1> QED
    BY <1>2, <1>3 DEF WindowOf

-----------------------------------------------------------------------------
(* Type correctness, one lemma per kind of step. *)

LEMMA InitType == Init => TypeOK
  <1> SUFFICES ASSUME Init PROVE TypeOK
    OBVIOUS
  <1>1. \A id \in RuleIDs : WindowAtStart(id) \in Int
    <2> SUFFICES ASSUME NEW id \in RuleIDs PROVE WindowAtStart(id) \in Int
      OBVIOUS
    <2>1. (CHOOSE rule \in Rules : rule.ruleID = id) \in Rules
      BY DEF RuleIDs
    <2>2. 0 \in Time
      BY EngineAssumption DEF Time
    <2> QED
      BY <2>1, <2>2, WindowType DEF WindowAtStart
  <1>2. Unused \in Usage
    BY DEF Unused, Usage
  <1>3. ledger \in [Trajectories -> [RuleIDs -> LedgerEntries]]
    BY <1>1, <1>2 DEF Init, LedgerEntries
  <1>4. now \in Time
    BY EngineAssumption DEF Init, Time
  <1> QED
    BY <1>3, <1>4 DEF Init, TypeOK, Maps

LEMMA TouchOnlyType ==
  ASSUME TypeOK, NEW t \in Trajectories, NEW rule \in Rules, NEW res \in Results,
         TouchOnly(t, rule), NEW verdict \in Verdicts,
         reply' = Answer(verdict, t, rule, res)
  PROVE  TypeOK'
  <1>1. trajectories[t] \in Sessions \cup {Absent} /\ now \in Time
    BY DEF TypeOK, Maps
  <1>2. StateOf(trajectories[t], rule, now) \in RuleStates
    BY <1>1, StateOfType
  <1>3. Touched(trajectories[t], rule, StateOf(trajectories[t], rule, now), now) \in Sessions
    BY <1>1, <1>2, TouchedType
  <1>4. trajectories' \in Maps
    BY <1>3 DEF TypeOK, Maps, TouchOnly
  <1> QED
    BY <1>4 DEF TypeOK, TouchOnly, history, Answer

LEMMA GrantedType ==
  ASSUME TypeOK, NEW t \in Trajectories, NEW rule \in Rules, NEW res \in Results,
         CallGranted(t, rule, res)
  PROVE  TypeOK'
  <1> DEFINE state == ChargedState(trajectories[t], rule, res, now)
             session == Touched(trajectories[t], rule, state, now)
  <1>1. trajectories[t] \in Sessions \cup {Absent} /\ now \in Time
    BY DEF TypeOK, Maps
  <1>2. session \in Sessions
    <2>1. state \in RuleStates
      BY <1>1, ChargedStateType DEF CallGranted
    <2> QED
      BY <1>1, <2>1, TouchedType
  <1>3. trajectories' \in Maps
    BY <1>2 DEF TypeOK, Maps, CallGranted
  <1>4. disk' \in Maps
    BY <1>2 DEF TypeOK, Maps, CallGranted, SaveSession
  <1>5. ledger' \in [Trajectories -> [RuleIDs -> LedgerEntries]]
    <2>1. rule.ruleID \in RuleIDs
      BY DEF RuleIDs
    <2>2. Entered(ledger[t][rule.ruleID], rule, res, now) \in LedgerEntries
      BY <1>1, <2>1, EnteredType, WindowType DEF TypeOK, CallGranted
    <2>3. CASE t \in forgotten
      BY <2>3 DEF TypeOK, CallGranted
    <2>4. CASE t \notin forgotten
      BY <2>1, <2>2, <2>4 DEF TypeOK, CallGranted
    <2> QED
      BY <2>3, <2>4
  <1>6. reply' \in [verdict : Verdicts, traj : Trajectories, rule : Rules, result : Results]
    BY DEF CallGranted, Answer, Verdicts
  <1>7. unsaved' \in SUBSET Trajectories
    BY DEF TypeOK, CallGranted
  <1> QED
    BY <1>3, <1>4, <1>5, <1>6, <1>7 DEF TypeOK, CallGranted

LEMMA PurgeType ==
  ASSUME NEW m \in Maps, NEW gone
  PROVE  Purge(m, gone) \in Maps
  BY DEF Purge, Maps

LEMMA StepType == TypeOK /\ [Next]_vars => TypeOK'
  <1> SUFFICES ASSUME TypeOK, [Next]_vars PROVE TypeOK'
    OBVIOUS
  <1>1. ASSUME NEW t \in Trajectories, NEW rule \in Rules, NEW res \in Results,
               Call(t, rule, res)
        PROVE  TypeOK'
    <2>1. CASE CallUnlimited(t, rule, res)
      BY <2>1 DEF CallUnlimited, TypeOK, history, Answer, Verdicts
    <2>2. CASE CallUnreadable(t, rule, res)
      BY <2>2, TouchOnlyType DEF CallUnreadable, Verdicts
    <2>3. CASE CallPanics(t, rule, res)
      BY <2>3, TouchOnlyType DEF CallPanics, Verdicts
    <2>4. CASE CallDenied(t, rule, res)
      BY <2>4, TouchOnlyType DEF CallDenied, Verdicts
    <2>5. CASE CallGranted(t, rule, res)
      BY <2>5, GrantedType
    <2> QED
      BY <1>1, <2>1, <2>2, <2>3, <2>4, <2>5 DEF Call
  <1>2. CASE Janitor
    <2>1. trajectories' \in Maps /\ disk' \in Maps
      BY <1>2, PurgeType DEF Janitor, TypeOK
    <2> QED
      BY <1>2, <2>1 DEF Janitor, TypeOK, history
  <1>3. CASE CloseStorage
    BY <1>3 DEF CloseStorage, TypeOK, history
  <1>4. CASE Stop
    <2>1. disk' \in Maps
      BY <1>4, PurgeType DEF Stop, TypeOK
    <2>2. trajectories' \in Maps
      BY <1>4 DEF Stop, Maps
    <2> QED
      BY <1>4, <2>1, <2>2 DEF Stop, TypeOK
  <1>5. CASE Start
    BY <1>5 DEF Start, LoadAll, TypeOK, history
  <1>6. CASE Tick
    <2>1. now' \in Time
      BY <1>6, EngineAssumption DEF Tick, TypeOK, Time
    <2> QED
      BY <1>6, <2>1 DEF Tick, TypeOK, history
  <1>7. CASE UNCHANGED vars
    BY <1>7 DEF vars, TypeOK
  <1> QED
    BY <1>1, <1>2, <1>3, <1>4, <1>5, <1>6, <1>7 DEF Next

(***************************************************************************)
(* The state keeps its types, whatever the rules and results.              *)
(***************************************************************************)
THEOREM TypeCorrect == Spec => []TypeOK
  BY InitType, StepType, PTL DEF Spec

-----------------------------------------------------------------------------
(* The disk and the sessions in RAM. *)

LEMMA PurgedAbsent ==
  ASSUME NEW m \in Maps, NEW gone, NEW t \in Trajectories
  PROVE  Purge(m, gone)[t] = IF t \in gone THEN Absent ELSE m[t]
  BY DEF Purge

\* A call leaves a session of its own trajectory in RAM, and writes no other.
LEMMA CallKeepsNoOrphan ==
  ASSUME TypeOK, TypeOK', NoOrphans,
         NEW u \in Trajectories, NEW rule \in Rules, NEW res \in Results, Call(u, rule, res)
  PROVE  NoOrphans'
  <1>1. phase' = phase
    BY DEF Call, CallUnlimited, CallUnreadable, CallPanics, CallDenied, CallGranted, TouchOnly
  <1>2. ASSUME NEW t \in Trajectories, NEW session \in Sessions,
               trajectories' = [trajectories EXCEPT ![u] = session],
               disk' = disk \/ (\E s : disk' = [disk EXCEPT ![u] = s]),
               disk[t] # Absent => trajectories[t] # Absent
        PROVE  disk'[t] # Absent => trajectories'[t] # Absent
    <2>1. session # Absent
      BY EngineAssumption
    <2>2. /\ trajectories'[u] = session
          /\ t # u => trajectories'[t] = trajectories[t] /\ disk'[t] = disk[t]
      BY <1>2 DEF TypeOK, Maps
    <2> QED
      BY <1>2, <2>1, <2>2
  <1>3. trajectories[u] \in Sessions \cup {Absent} /\ now \in Time
    BY DEF TypeOK, Maps
  <1>4. CASE CallUnlimited(u, rule, res)
    BY <1>4 DEF CallUnlimited, NoOrphans
  <1>5. CASE TouchOnly(u, rule)
    <2>1. Touched(trajectories[u], rule, StateOf(trajectories[u], rule, now), now) \in Sessions
      BY <1>3, StateOfType, TouchedType
    <2>2. /\ trajectories' = [trajectories EXCEPT ![u] =
               Touched(trajectories[u], rule, StateOf(trajectories[u], rule, now), now)]
          /\ disk' = disk
      BY <1>5 DEF TouchOnly
    <2> QED
      BY <1>1, <1>2, <2>1, <2>2 DEF NoOrphans
  <1>6. CASE CallGranted(u, rule, res)
    <2> DEFINE state == ChargedState(trajectories[u], rule, res, now)
               session == Touched(trajectories[u], rule, state, now)
    <2>1. session \in Sessions
      BY <1>3, <1>6, ChargedStateType, TouchedType DEF CallGranted
    <2>2. /\ trajectories' = [trajectories EXCEPT ![u] = session]
          /\ disk' = disk \/ disk' = [disk EXCEPT ![u] = session]
      BY <1>6 DEF CallGranted, SaveSession
    <2> HIDE DEF session
    <2> QED
      BY <1>1, <1>2, <2>1, <2>2 DEF NoOrphans
  <1> QED
    BY <1>4, <1>5, <1>6 DEF Call, CallUnreadable, CallPanics, CallDenied

LEMMA StepKeepsNoOrphan == TypeOK /\ NoOrphans /\ [Next]_vars => NoOrphans'
  <1> SUFFICES ASSUME TypeOK, NoOrphans, [Next]_vars PROVE NoOrphans'
    OBVIOUS
  <1>1. TypeOK'
    BY StepType
  <1>2. ASSUME NEW t \in Trajectories, NEW rule \in Rules, NEW res \in Results,
               Call(t, rule, res)
        PROVE  NoOrphans'
    BY <1>1, <1>2, CallKeepsNoOrphan
  <1>3. CASE Janitor
    <2> SUFFICES ASSUME phase = "up", ~DiskFaults, NEW t \in Trajectories, disk'[t] # Absent
                 PROVE  trajectories'[t] # Absent
      BY <1>3 DEF NoOrphans, Janitor
    <2>1. PICK kept \in SUBSET Stale :
            (kept # {} => WriteMayFail) /\ disk' = Purge(disk, Stale \ kept)
      BY <1>3 DEF Janitor
    <2>2. disk' = Purge(disk, Stale)
      BY <2>1 DEF WriteMayFail
    <2>3. t \notin Stale /\ disk[t] # Absent
      BY <2>2, PurgedAbsent DEF TypeOK
    <2>4. trajectories[t] # Absent
      BY <2>3 DEF NoOrphans
    <2> QED
      BY <1>3, <2>3, <2>4, PurgedAbsent DEF Janitor, TypeOK
  <1>4. CASE CloseStorage \/ Stop
    BY <1>4 DEF CloseStorage, Stop, NoOrphans
  <1>5. CASE Start
    BY <1>5 DEF Start, LoadAll, NoOrphans
  <1>6. CASE Tick \/ UNCHANGED vars
    BY <1>6 DEF Tick, vars, NoOrphans
  <1> QED
    BY <1>2, <1>3, <1>4, <1>5, <1>6 DEF Next

(***************************************************************************)
(* While writes do not fail, the file holds no session that the janitor    *)
(* has dropped from RAM, whatever restarts and calls come between.         *)
(***************************************************************************)
THEOREM FileHoldsLiveSessions == Spec => []NoOrphans
  <1>1. Init => NoOrphans
    BY DEF Init, NoOrphans
  <1> QED
    BY <1>1, InitType, StepType, StepKeepsNoOrphan, PTL DEF Spec

-----------------------------------------------------------------------------
(* Balances. *)

LEMMA StateInPast ==
  ASSUME NEW session \in Sessions \cup {Absent}, NEW rule \in Rules, NEW t \in Time,
         InPast(session, t), RulesOf(session)[rule.ruleID] # Absent
  PROVE  /\ session # Absent
         /\ RulesOf(session)[rule.ruleID] \in RuleStates
         /\ RulesOf(session)[rule.ruleID].windowStart <= session.lastAccess
         /\ RulesOf(session)[rule.ruleID].windowStart <= t
  <1>1. rule.ruleID \in RuleIDs
    BY DEF RuleIDs
  <1>2. session # Absent
    BY <1>1 DEF RulesOf
  <1>3. session \in Sessions /\ session.lastAccess \in Int /\ t \in Int
    BY <1>2 DEF Sessions, Time
  <1>4. RulesOf(session)[rule.ruleID] \in RuleStates
    BY <1>1, RulesOfType
  <1>5. RulesOf(session)[rule.ruleID].windowStart \in Int
    BY <1>4 DEF RuleStates, Time
  <1> QED
    BY <1>1, <1>2, <1>3, <1>4, <1>5 DEF InPast, RulesOf

\* As time passes a balance stays as it is to the end of its window, then is unused.
LEMMA BalanceLater ==
  ASSUME SoundWindows,
         NEW session \in Sessions \cup {Absent}, NEW rule \in Rules,
         NEW t \in Time, NEW u \in Time, t <= u, InPast(session, t)
  PROVE  Balance(session, rule, u) =
           IF WindowOf(rule.timeWindow, t) = WindowOf(rule.timeWindow, u)
             THEN Balance(session, rule, t) ELSE Unused
  <1> DEFINE state == RulesOf(session)[rule.ruleID]
             W(v) == WindowOf(rule.timeWindow, v)
  <1>1. CASE state = Absent
    BY <1>1 DEF Balance, StateOf, Fresh
  <1>2. CASE state # Absent
    <2>1. state \in RuleStates /\ state.windowStart <= t
      BY <1>2, StateInPast
    <2>2. state.windowStart \in Time /\ state.windowStart <= u
      BY <2>1 DEF RuleStates, Time
    <2>3. IsWindowExpired(rule.timeWindow, state.windowStart, t) <=> W(state.windowStart) # W(t)
      BY <2>1, <2>2 DEF SoundWindows
    <2>4. IsWindowExpired(rule.timeWindow, state.windowStart, u) <=> W(state.windowStart) # W(u)
      BY <2>2 DEF SoundWindows
    <2>5. /\ W(state.windowStart) <= W(t)
          /\ W(t) <= W(u)
          /\ W(state.windowStart) \in Int /\ W(t) \in Int /\ W(u) \in Int
      BY <2>1, <2>2, WindowType DEF SoundWindows
    <2> HIDE DEF state, W
    <2>6. CASE W(t) = W(u)
      <3>1. CASE W(state.windowStart) = W(t)
        <4>1. /\ ~IsWindowExpired(rule.timeWindow, state.windowStart, t)
              /\ ~IsWindowExpired(rule.timeWindow, state.windowStart, u)
          BY <2>3, <2>4, <2>6, <3>1
        <4> QED
          BY <2>6, <4>1 DEF Balance, StateOf, Fresh, state, W
      <3>2. CASE W(state.windowStart) # W(t)
        <4>1. /\ IsWindowExpired(rule.timeWindow, state.windowStart, t)
              /\ IsWindowExpired(rule.timeWindow, state.windowStart, u)
          BY <2>3, <2>4, <2>6, <3>2
        <4> QED
          BY <2>6, <4>1 DEF Balance, StateOf, Fresh, state, W
      <3> QED
        BY <3>1, <3>2
    <2>7. CASE W(t) # W(u)
      <3>1. W(state.windowStart) # W(u)
        BY <2>5, <2>7
      <3>2. IsWindowExpired(rule.timeWindow, state.windowStart, u)
        BY <2>4, <3>1
      <3> QED
        BY <2>7, <3>2 DEF Balance, StateOf, Fresh, state, W
    <2> QED
      BY <2>6, <2>7
  <1> QED
    BY <1>1, <1>2

\* A state just created, reset or kept by StateOf is not expired.
LEMMA StateOfLive ==
  ASSUME SoundWindows, StableSchedules,
         NEW session \in Sessions \cup {Absent}, NEW rule \in Rules, NEW t \in Time,
         NEW other \in Rules, other.ruleID = rule.ruleID
  PROVE  /\ ~IsWindowExpired(other.timeWindow, StateOf(session, rule, t).windowStart, t)
         /\ Balance(session, other, t) = Balance(session, rule, t)
  <1>1. other.timeWindow = rule.timeWindow
    BY DEF StableSchedules
  <1>2. ~IsWindowExpired(rule.timeWindow, t, t)
    <2>1. t <= t
      BY DEF Time
    <2> QED
      BY <2>1 DEF SoundWindows
  <1> QED
    BY <1>1, <1>2 DEF StateOf, Fresh, Balance

\* Storing a state under a rule gives its versions the usage in it, and leaves the
\* other rules their balances.
LEMMA BalanceTouched ==
  ASSUME SoundWindows, StableSchedules,
         NEW session \in Sessions \cup {Absent}, NEW rule \in Rules, NEW t \in Time,
         NEW state \in RuleStates,
         state.windowStart = StateOf(session, rule, t).windowStart,
         NEW other \in Rules
  PROVE  Balance(Touched(session, rule, state, t), other, t) =
           IF other.ruleID = rule.ruleID THEN state.used ELSE Balance(session, other, t)
  <1> DEFINE touched == Touched(session, rule, state, t)
  <1>1. rule.ruleID \in RuleIDs /\ other.ruleID \in RuleIDs
    BY DEF RuleIDs
  <1>2. touched \in Sessions /\ touched # Absent
    BY TouchedType, EngineAssumption
  <1>3. RulesOf(touched) = [RulesOf(session) EXCEPT ![rule.ruleID] = state]
    BY <1>2 DEF RulesOf, Touched
  <1>4. CASE other.ruleID = rule.ruleID
    <2>1. RulesOf(touched)[other.ruleID] = state
      BY <1>1, <1>3, <1>4, RulesOfType
    <2>2. state # Absent
      BY EngineAssumption
    <2>3. ~IsWindowExpired(other.timeWindow, state.windowStart, t)
      BY <1>4, StateOfLive
    <2> QED
      BY <1>4, <2>1, <2>2, <2>3 DEF Balance, StateOf
  <1>5. CASE other.ruleID # rule.ruleID
    <2>1. RulesOf(touched)[other.ruleID] = RulesOf(session)[other.ruleID]
      BY <1>1, <1>3, <1>5, RulesOfType
    <2> QED
      BY <1>5, <2>1 DEF Balance, StateOf
  <1> QED
    BY <1>4, <1>5

\* A session the janitor purges had no balance left.
LEMMA StaleBalance ==
  ASSUME SoundWindows, TtlCoversWindows,
         NEW session \in Sessions, NEW rule \in Rules, NEW t \in Time,
         InPast(session, t), Ttl > 0, t - session.lastAccess > Ttl
  PROVE  Balance(session, rule, t) = Unused
  <1> DEFINE state == RulesOf(session)[rule.ruleID]
  <1>1. CASE state = Absent
    BY <1>1 DEF Balance, StateOf, Fresh
  <1>2. CASE state # Absent
    <2>1. state \in RuleStates /\ state.windowStart <= session.lastAccess /\ state.windowStart <= t
      BY <1>2, StateInPast
    <2>2. state.windowStart \in Time /\ session.lastAccess \in Time
      BY <2>1 DEF RuleStates, Sessions
    <2>3. t - state.windowStart > Ttl
      BY <2>1, <2>2, EngineAssumption DEF Time
    <2>4. WindowOf(rule.timeWindow, state.windowStart) # WindowOf(rule.timeWindow, t)
      BY <2>2, <2>3 DEF TtlCoversWindows
    <2>5. IsWindowExpired(rule.timeWindow, state.windowStart, t)
      BY <2>1, <2>2, <2>4 DEF SoundWindows
    <2> QED
      BY <2>5 DEF Balance, StateOf, Fresh
  <1> QED
    BY <1>1, <1>2

LEMMA AbsentBalance ==
  ASSUME NEW rule \in Rules, NEW t
  PROVE  Balance(Absent, rule, t) = Unused
  BY DEF Balance, StateOf, RulesOf, RuleIDs, Fresh

-----------------------------------------------------------------------------
(* The reference ledger. *)

LEMMA SpentLater ==
  ASSUME SoundWindows, NEW entry \in LedgerEntries, NEW rule \in Rules,
         NEW t \in Time, NEW u \in Time, t <= u,
         entry.window <= WindowOf(rule.timeWindow, t)
  PROVE  /\ entry.window <= WindowOf(rule.timeWindow, u)
         /\ Spent(entry, rule, u) =
              IF WindowOf(rule.timeWindow, t) = WindowOf(rule.timeWindow, u)
                THEN Spent(entry, rule, t) ELSE Unused
  <1> DEFINE Wt == WindowOf(rule.timeWindow, t)
             Wu == WindowOf(rule.timeWindow, u)
  <1>1. Wt <= Wu /\ Wt \in Int /\ Wu \in Int /\ entry.window \in Int
    BY WindowType DEF SoundWindows, LedgerEntries
  <1> HIDE DEF Wt, Wu
  <1>2. entry.window <= Wt
    BY DEF Wt
  <1>3. entry.window <= Wu /\ (Wt # Wu => entry.window # Wu)
    BY <1>1, <1>2
  <1> QED
    BY <1>3 DEF Spent, Wt, Wu

LEMMA SpentEntered ==
  ASSUME StableSchedules, NEW entry, NEW rule \in Rules, NEW res, NEW t,
         NEW other \in Rules, other.ruleID = rule.ruleID
  PROVE  /\ Spent(Entered(entry, rule, res, t), other, t) =
              Charged(Spent(entry, rule, t), rule, res)
         /\ Entered(entry, rule, res, t).window = WindowOf(other.timeWindow, t)
  <1>1. other.timeWindow = rule.timeWindow
    BY DEF StableSchedules
  <1> QED
    BY <1>1 DEF Spent, Entered

LEMMA TouchedInPast ==
  ASSUME NEW session \in Sessions \cup {Absent}, NEW rule \in Rules, NEW t \in Time,
         NEW state \in RuleStates, InPast(session, t), state.windowStart <= t
  PROVE  InPast(Touched(session, rule, state, t), t)
  <1> DEFINE touched == Touched(session, rule, state, t)
  <1>1. touched.lastAccess = t /\ t <= t
    BY DEF Touched, Time
  <1>2. ASSUME NEW id \in RuleIDs, touched.rules[id] # Absent
        PROVE  touched.rules[id].windowStart <= t
    <2>1. CASE id = rule.ruleID
      BY <2>1, RulesOfType DEF Touched
    <2>2. CASE id # rule.ruleID
      <3>1. touched.rules[id] = RulesOf(session)[id]
        BY <2>2, RulesOfType DEF Touched
      <3>2. PICK other \in Rules : other.ruleID = id
        BY DEF RuleIDs
      <3> QED
        BY <1>2, <3>1, <3>2, StateInPast
    <2> QED
      BY <2>1, <2>2
  <1> QED
    BY <1>1, <1>2 DEF InPast

LEMMA StateOfInPast ==
  ASSUME NEW session \in Sessions \cup {Absent}, NEW rule \in Rules, NEW t \in Time,
         InPast(session, t)
  PROVE  StateOf(session, rule, t).windowStart <= t
  BY StateInPast DEF StateOf, Fresh, Time

-----------------------------------------------------------------------------
(* RAM and disk follow the ledger. *)

LEMMA InitFollows ==
  ASSUME Hypotheses
  PROVE  Init => LedgerFollowed
  <1> SUFFICES ASSUME Init PROVE LedgerFollowed
    OBVIOUS
  <1>1. TypeOK
    BY InitType
  <1>2. RecordsInPast
    BY DEF RecordsInPast, InPast, Init
  <1>3. LedgerNotAhead
    <2> SUFFICES ASSUME NEW t \in Trajectories, NEW rule \in Rules
                 PROVE  ledger[t][rule.ruleID].window <= WindowOf(rule.timeWindow, now)
      BY DEF LedgerNotAhead
    <2> DEFINE chosen == CHOOSE other \in Rules : other.ruleID = rule.ruleID
    <2>1. chosen \in Rules /\ chosen.ruleID = rule.ruleID
      OBVIOUS
    <2>2. chosen.timeWindow = rule.timeWindow
      BY <2>1 DEF Hypotheses, StableSchedules
    <2>3. ledger[t][rule.ruleID].window = WindowOf(rule.timeWindow, now)
      BY <2>2 DEF Init, WindowAtStart, RuleIDs
    <2>4. WindowOf(rule.timeWindow, now) \in Int
      BY <1>1, WindowType DEF TypeOK
    <2> QED
      BY <2>3, <2>4
  <1>4. ChargesDurable
    BY DEF ChargesDurable, Init
  <1>5. FollowsLedger(trajectories)
    <2> SUFFICES ASSUME NEW t \in Trajectories, NEW rule \in Rules
                 PROVE  Balance(trajectories[t], rule, now) =
                          Spent(ledger[t][rule.ruleID], rule, now)
      BY DEF FollowsLedger
    <2>1. Balance(trajectories[t], rule, now) = Unused
      BY AbsentBalance DEF Init
    <2>2. Spent(ledger[t][rule.ruleID], rule, now) = Unused
      BY DEF Init, Spent, RuleIDs
    <2> QED
      BY <2>1, <2>2
  <1>6. phase = "up"
    BY DEF Init
  <1> QED
    BY <1>1, <1>2, <1>3, <1>4, <1>5, <1>6 DEF LedgerFollowed

\* The calls that touch the session without charging it.
LEMMA TouchOnlyFollows ==
  ASSUME Hypotheses, LedgerFollowed, TypeOK',
         NEW t \in Trajectories, NEW rule \in Rules, TouchOnly(t, rule)
  PROVE  LedgerFollowed'
  <1> USE DEF Hypotheses
  <1> DEFINE state == StateOf(trajectories[t], rule, now)
             session == Touched(trajectories[t], rule, state, now)
  <1>1. /\ trajectories \in [Trajectories -> Sessions \cup {Absent}]
        /\ trajectories[t] \in Sessions \cup {Absent}
        /\ now \in Time
        /\ InPast(trajectories[t], now)
    BY DEF LedgerFollowed, TypeOK, Maps, RecordsInPast
  <1>2. state \in RuleStates
    BY <1>1, StateOfType
  <1>3. /\ trajectories' = [trajectories EXCEPT ![t] = session]
        /\ UNCHANGED <<now, phase, disk, ledger, unsaved, forgotten>>
        /\ phase # "down"
    BY DEF TouchOnly, history
  <1>4. \A u \in Trajectories, other \in Rules :
          Balance(trajectories'[u], other, now) = Balance(trajectories[u], other, now)
    <2>1. \A other \in Rules :
            Balance(session, other, now) = Balance(trajectories[t], other, now)
      <3> SUFFICES ASSUME NEW other \in Rules
                   PROVE  Balance(session, other, now) = Balance(trajectories[t], other, now)
        OBVIOUS
      <3>1. Balance(session, other, now) =
              IF other.ruleID = rule.ruleID THEN state.used
              ELSE Balance(trajectories[t], other, now)
        BY <1>1, <1>2, BalanceTouched
      <3>2. other.ruleID = rule.ruleID =>
              Balance(trajectories[t], other, now) = Balance(trajectories[t], rule, now)
        BY <1>1, StateOfLive
      <3> QED
        BY <3>1, <3>2 DEF Balance
    <2> QED
      BY <1>1, <1>3, <2>1
  <1>5. RecordsInPast'
    <2>1. InPast(session, now)
      BY <1>1, <1>2, StateOfInPast, TouchedInPast
    <2> QED
      BY <1>1, <1>3, <2>1 DEF LedgerFollowed, RecordsInPast
  <1>6. LedgerNotAhead'
    BY <1>3 DEF LedgerFollowed, LedgerNotAhead
  <1>7. ChargesDurable'
    BY <1>3, <1>4 DEF LedgerFollowed, ChargesDurable
  <1>8. FollowsLedger(trajectories)'
    BY <1>3, <1>4 DEF LedgerFollowed, FollowsLedger
  <1> QED
    BY <1>3, <1>5, <1>6, <1>7, <1>8 DEF LedgerFollowed

LEMMA GrantedFollows ==
  ASSUME Hypotheses, LedgerFollowed, TypeOK',
         NEW t \in Trajectories, NEW rule \in Rules, NEW res \in Results,
         CallGranted(t, rule, res)
  PROVE  LedgerFollowed'
  <1> USE DEF Hypotheses
  <1> DEFINE state == ChargedState(trajectories[t], rule, res, now)
             session == Touched(trajectories[t], rule, state, now)
             entry == ledger[t][rule.ruleID]
  <1>1. /\ trajectories \in [Trajectories -> Sessions \cup {Absent}]
        /\ disk \in [Trajectories -> Sessions \cup {Absent}]
        /\ ledger \in [Trajectories -> [RuleIDs -> LedgerEntries]]
        /\ trajectories[t] \in Sessions \cup {Absent}
        /\ now \in Time
        /\ rule.ruleID \in RuleIDs
        /\ InPast(trajectories[t], now)
    BY DEF LedgerFollowed, TypeOK, Maps, RecordsInPast, RuleIDs
  <1>2. /\ trajectories' = [trajectories EXCEPT ![t] = session]
        /\ \/ disk' = [disk EXCEPT ![t] = session] /\ unsaved' = unsaved \ {t}
           \/ disk' = disk /\ unsaved' = unsaved \cup {t}
        /\ ledger' = IF t \in forgotten THEN ledger
                     ELSE [ledger EXCEPT ![t][rule.ruleID] = Entered(entry, rule, res, now)]
        /\ UNCHANGED <<now, phase, forgotten>>
        /\ phase # "down"
        /\ ~Unreadable(rule, res)
    BY DEF CallGranted, SaveSession
  <1> HIDE DEF session, state, entry
  <1>3. /\ state \in RuleStates
        /\ state.used = Charged(Balance(trajectories[t], rule, now), rule, res)
        /\ state.windowStart = StateOf(trajectories[t], rule, now).windowStart
    <2>1. StateOf(trajectories[t], rule, now) \in RuleStates
      BY <1>1, StateOfType
    <2>2. state \in RuleStates
      BY <1>1, <1>2, ChargedStateType DEF state
    <2> QED
      BY <2>1, <2>2 DEF state, ChargedState, Balance, RuleStates
  <1>4. \A other \in Rules :
          Balance(session, other, now) =
            IF other.ruleID = rule.ruleID
              THEN Charged(Balance(trajectories[t], rule, now), rule, res)
              ELSE Balance(trajectories[t], other, now)
    <2> SUFFICES ASSUME NEW other \in Rules
                 PROVE  Balance(session, other, now) =
                          IF other.ruleID = rule.ruleID THEN state.used
                          ELSE Balance(trajectories[t], other, now)
      BY <1>3
    <2>1. /\ trajectories[t] \in Sessions \cup {Absent} /\ now \in Time
          /\ SoundWindows /\ StableSchedules
      BY <1>1
    <2>2. state \in RuleStates
          /\ state.windowStart = StateOf(trajectories[t], rule, now).windowStart
      BY <1>3
    <2>3. Balance(Touched(trajectories[t], rule, state, now), other, now) =
            IF other.ruleID = rule.ruleID THEN state.used
            ELSE Balance(trajectories[t], other, now)
      BY <2>1, <2>2, BalanceTouched
    <2> QED
      BY <2>3 DEF session
  <1>5. RecordsInPast'
    <2>1. InPast(session, now)
      BY <1>1, <1>3, StateOfInPast, TouchedInPast DEF session
    <2>2. \A u \in Trajectories : trajectories'[u] \in {trajectories[u], session}
      BY <1>1, <1>2
    <2>3. \A u \in Trajectories : disk'[u] \in {disk[u], session}
      BY <1>1, <1>2
    <2> QED
      BY <1>2, <2>1, <2>2, <2>3 DEF LedgerFollowed, RecordsInPast
  <1>6. LedgerNotAhead'
    <2> SUFFICES ASSUME NEW u \in Trajectories, NEW other \in Rules
                 PROVE  ledger'[u][other.ruleID].window <= WindowOf(other.timeWindow, now)
      BY <1>2 DEF LedgerNotAhead
    <2>1. other.ruleID \in RuleIDs
      BY DEF RuleIDs
    <2>2. CASE u = t /\ t \notin forgotten /\ other.ruleID = rule.ruleID
      <3>1. ledger'[u][other.ruleID] = Entered(entry, rule, res, now)
        BY <1>1, <1>2, <2>2
      <3>2. ledger'[u][other.ruleID].window = WindowOf(other.timeWindow, now)
        BY <2>2, <3>1, SpentEntered
      <3>3. WindowOf(other.timeWindow, now) \in Int
        BY <1>1, WindowType
      <3> QED
        BY <3>2, <3>3
    <2>3. CASE ~(u = t /\ t \notin forgotten /\ other.ruleID = rule.ruleID)
      <3>1. ledger'[u][other.ruleID] = ledger[u][other.ruleID]
        BY <1>1, <1>2, <2>1, <2>3
      <3> QED
        BY <3>1 DEF LedgerFollowed, LedgerNotAhead
    <2> QED
      BY <2>2, <2>3
  <1>7. ChargesDurable'
    <2> SUFFICES ASSUME NEW u \in Trajectories, u \notin unsaved', NEW other \in Rules
                 PROVE  Balance(disk'[u], other, now) = Balance(trajectories'[u], other, now)
      BY <1>2 DEF ChargesDurable
    <2>1. CASE u = t
      BY <1>1, <1>2, <2>1
    <2>2. CASE u # t
      <3>1. u \notin unsaved /\ disk'[u] = disk[u] /\ trajectories'[u] = trajectories[u]
        BY <1>1, <1>2, <2>2
      <3> QED
        BY <1>2, <3>1 DEF LedgerFollowed, ChargesDurable
    <2> QED
      BY <2>1, <2>2
  <1>8. FollowsLedger(trajectories)'
    <2> SUFFICES ASSUME NEW u \in Trajectories, u \notin forgotten, NEW other \in Rules
                 PROVE  Balance(trajectories'[u], other, now) =
                          Spent(ledger'[u][other.ruleID], other, now)
      BY <1>2 DEF FollowsLedger
    <2>1. other.ruleID \in RuleIDs
      BY DEF RuleIDs
    <2>2. Balance(trajectories[u], other, now) = Spent(ledger[u][other.ruleID], other, now)
      BY <1>2 DEF LedgerFollowed, FollowsLedger
    <2>3. CASE u = t /\ other.ruleID = rule.ruleID
      <3>1. Balance(trajectories[t], rule, now) = Spent(entry, rule, now)
        BY <1>2, <2>3 DEF LedgerFollowed, FollowsLedger, entry
      <3>2. ledger'[u][other.ruleID] = Entered(entry, rule, res, now)
        BY <1>1, <1>2, <2>3
      <3>3. Spent(ledger'[u][other.ruleID], other, now) =
              Charged(Spent(entry, rule, now), rule, res)
        BY <2>3, <3>2, SpentEntered
      <3>4. trajectories'[u] = session
        BY <1>1, <1>2, <2>3
      <3> QED
        BY <1>4, <2>3, <3>1, <3>3, <3>4
    <2>4. CASE u = t /\ other.ruleID # rule.ruleID
      <3>1. ledger'[u][other.ruleID] = ledger[u][other.ruleID]
        BY <1>1, <1>2, <2>1, <2>4
      <3>2. trajectories'[u] = session
        BY <1>1, <1>2, <2>4
      <3> QED
        BY <1>4, <2>2, <2>4, <3>1, <3>2
    <2>5. CASE u # t
      <3>1. ledger'[u] = ledger[u] /\ trajectories'[u] = trajectories[u]
        BY <1>1, <1>2, <2>5
      <3> QED
        BY <2>2, <3>1
    <2> QED
      BY <2>3, <2>4, <2>5
  <1> QED
    BY <1>2, <1>5, <1>6, <1>7, <1>8 DEF LedgerFollowed

\* A session that is purged had no balance; its place has none either.
LEMMA PurgedBalance ==
  ASSUME Hypotheses, LedgerFollowed,
         NEW t \in Stale, NEW rule \in Rules
  PROVE  Balance(trajectories[t], rule, now) = Unused
  <1>1. /\ t \in Trajectories /\ trajectories[t] # Absent
        /\ Ttl > 0 /\ now - trajectories[t].lastAccess > Ttl
    BY DEF Stale
  <1>2. trajectories[t] \in Sessions /\ now \in Time /\ InPast(trajectories[t], now)
    BY <1>1 DEF LedgerFollowed, TypeOK, Maps, RecordsInPast
  <1> QED
    BY <1>1, <1>2, StaleBalance DEF Hypotheses

LEMMA JanitorFollows ==
  ASSUME Hypotheses, LedgerFollowed, TypeOK', Janitor
  PROVE  LedgerFollowed'
  <1>1. PICK kept \in SUBSET Stale : disk' = Purge(disk, Stale \ kept)
    BY DEF Janitor
  <1>2. /\ trajectories' = Purge(trajectories, Stale)
        /\ UNCHANGED <<now, phase, ledger, unsaved, forgotten>>
        /\ phase # "down"
    BY DEF Janitor, history
  <1>3. \A u \in Trajectories, rule \in Rules :
          Balance(trajectories'[u], rule, now) = Balance(trajectories[u], rule, now)
    BY <1>2, PurgedBalance, AbsentBalance DEF Purge
  <1>4. \A u \in Trajectories \ unsaved, rule \in Rules :
          Balance(disk'[u], rule, now) = Balance(disk[u], rule, now)
    <2> SUFFICES ASSUME NEW u \in Trajectories \ unsaved, NEW rule \in Rules
                 PROVE  Balance(disk'[u], rule, now) = Balance(disk[u], rule, now)
      OBVIOUS
    <2>1. CASE u \in Stale \ kept
      <3>1. Balance(disk[u], rule, now) = Balance(trajectories[u], rule, now)
        BY <1>2 DEF LedgerFollowed, ChargesDurable
      <3>2. disk'[u] = Absent
        BY <1>1, <2>1 DEF Purge
      <3> QED
        BY <2>1, <3>1, <3>2, PurgedBalance, AbsentBalance
    <2>2. CASE u \notin Stale \ kept
      BY <1>1, <2>2 DEF Purge
    <2> QED
      BY <2>1, <2>2
  <1>5. RecordsInPast'
    BY <1>1, <1>2 DEF LedgerFollowed, RecordsInPast, Purge, InPast
  <1>6. LedgerNotAhead'
    BY <1>2 DEF LedgerFollowed, LedgerNotAhead
  <1>7. ChargesDurable'
    BY <1>2, <1>3, <1>4 DEF LedgerFollowed, ChargesDurable
  <1>8. FollowsLedger(trajectories)'
    BY <1>2, <1>3 DEF LedgerFollowed, FollowsLedger
  <1> QED
    BY <1>2, <1>5, <1>6, <1>7, <1>8 DEF LedgerFollowed

LEMMA StopFollows ==
  ASSUME Hypotheses, LedgerFollowed, TypeOK', Stop
  PROVE  LedgerFollowed'
  <1>1. PICK gone \in SUBSET Stale : disk' = Purge(disk, gone)
    BY DEF Stop
  <1>2. /\ trajectories' = [t \in Trajectories |-> Absent]
        /\ UNCHANGED <<now, ledger>>
        /\ forgotten' = forgotten \cup unsaved
        /\ unsaved' = {}
        /\ phase # "down" /\ phase' = "down"
    BY DEF Stop
  <1>3. RecordsInPast'
    BY <1>1, <1>2 DEF LedgerFollowed, RecordsInPast, Purge, InPast
  <1>4. LedgerNotAhead'
    BY <1>2 DEF LedgerFollowed, LedgerNotAhead
  <1>5. FollowsLedger(disk)'
    <2> SUFFICES ASSUME NEW u \in Trajectories, u \notin forgotten, u \notin unsaved,
                        NEW rule \in Rules
                 PROVE  Balance(disk'[u], rule, now) = Spent(ledger[u][rule.ruleID], rule, now)
      BY <1>2 DEF FollowsLedger
    <2>1. Balance(disk[u], rule, now) = Balance(trajectories[u], rule, now)
      BY <1>2 DEF LedgerFollowed, ChargesDurable
    <2>2. Balance(trajectories[u], rule, now) = Spent(ledger[u][rule.ruleID], rule, now)
      BY <1>2 DEF LedgerFollowed, FollowsLedger
    <2>3. CASE u \in gone
      <3>1. disk'[u] = Absent
        BY <1>1, <2>3 DEF Purge
      <3> QED
        BY <2>2, <2>3, <3>1, PurgedBalance, AbsentBalance
    <2>4. CASE u \notin gone
      BY <1>1, <2>1, <2>2, <2>4 DEF Purge
    <2> QED
      BY <2>3, <2>4
  <1>6. ChargesDurable'
    BY <1>2 DEF ChargesDurable
  <1> QED
    BY <1>2, <1>3, <1>4, <1>5, <1>6 DEF LedgerFollowed

LEMMA StartFollows ==
  ASSUME LedgerFollowed, TypeOK', Start
  PROVE  LedgerFollowed'
  <1>1. /\ trajectories' = disk
        /\ UNCHANGED <<now, disk, ledger, unsaved, forgotten>>
        /\ phase = "down" /\ phase' = "up"
    BY DEF Start, LoadAll, history
  <1>2. RecordsInPast'
    BY <1>1 DEF LedgerFollowed, RecordsInPast
  <1>3. LedgerNotAhead'
    BY <1>1 DEF LedgerFollowed, LedgerNotAhead
  <1>4. ChargesDurable'
    BY <1>1 DEF ChargesDurable
  <1>5. FollowsLedger(trajectories)'
    BY <1>1 DEF LedgerFollowed, FollowsLedger
  <1> QED
    BY <1>1, <1>2, <1>3, <1>4, <1>5 DEF LedgerFollowed

LEMMA TickFollows ==
  ASSUME Hypotheses, LedgerFollowed, TypeOK', Tick
  PROVE  LedgerFollowed'
  <1>1. /\ now' = now + 1 /\ now \in Time /\ now' \in Time /\ now <= now'
        /\ UNCHANGED <<phase, trajectories, disk, ledger, unsaved, forgotten>>
    BY DEF Tick, history, LedgerFollowed, TypeOK, Time
  <1>2. \A u \in Trajectories, rule \in Rules :
          /\ Balance(trajectories[u], rule, now') =
               IF WindowOf(rule.timeWindow, now) = WindowOf(rule.timeWindow, now')
                 THEN Balance(trajectories[u], rule, now) ELSE Unused
          /\ Balance(disk[u], rule, now') =
               IF WindowOf(rule.timeWindow, now) = WindowOf(rule.timeWindow, now')
                 THEN Balance(disk[u], rule, now) ELSE Unused
    <2>1. \A u \in Trajectories :
            /\ trajectories[u] \in Sessions \cup {Absent} /\ InPast(trajectories[u], now)
            /\ disk[u] \in Sessions \cup {Absent} /\ InPast(disk[u], now)
      BY DEF LedgerFollowed, TypeOK, Maps, RecordsInPast
    <2> QED
      BY <1>1, <2>1, BalanceLater DEF Hypotheses
  <1>3. \A u \in Trajectories, rule \in Rules :
          /\ ledger[u][rule.ruleID].window <= WindowOf(rule.timeWindow, now')
          /\ Spent(ledger[u][rule.ruleID], rule, now') =
               IF WindowOf(rule.timeWindow, now) = WindowOf(rule.timeWindow, now')
                 THEN Spent(ledger[u][rule.ruleID], rule, now) ELSE Unused
    <2> SUFFICES ASSUME NEW u \in Trajectories, NEW rule \in Rules
                 PROVE
          /\ ledger[u][rule.ruleID].window <= WindowOf(rule.timeWindow, now')
          /\ Spent(ledger[u][rule.ruleID], rule, now') =
               IF WindowOf(rule.timeWindow, now) = WindowOf(rule.timeWindow, now')
                 THEN Spent(ledger[u][rule.ruleID], rule, now) ELSE Unused
      OBVIOUS
    <2>1. ledger[u][rule.ruleID] \in LedgerEntries
      <3>1. rule.ruleID \in RuleIDs
        BY DEF RuleIDs
      <3> QED
        BY <3>1 DEF LedgerFollowed, TypeOK
    <2>2. ledger[u][rule.ruleID].window <= WindowOf(rule.timeWindow, now)
      BY DEF LedgerFollowed, LedgerNotAhead
    <2> QED
      BY <1>1, <2>1, <2>2, SpentLater DEF Hypotheses
  <1>4. RecordsInPast'
    <2> SUFFICES ASSUME NEW session \in Sessions \cup {Absent}, InPast(session, now)
                 PROVE  InPast(session, now')
      BY <1>1 DEF LedgerFollowed, TypeOK, Maps, RecordsInPast
    <2>1. session # Absent => session.lastAccess \in Time
      BY DEF Sessions
    <2> QED
      BY <1>1, <2>1 DEF InPast, Time
  <1>5. LedgerNotAhead'
    BY <1>1, <1>3 DEF LedgerNotAhead
  <1>6. ChargesDurable'
    BY <1>1, <1>2 DEF LedgerFollowed, ChargesDurable
  <1>7. phase # "down" => FollowsLedger(trajectories)'
    BY <1>1, <1>2, <1>3 DEF LedgerFollowed, FollowsLedger
  <1>8. phase = "down" => FollowsLedger(disk)' /\ unsaved' = {}
    BY <1>1, <1>2, <1>3 DEF LedgerFollowed, FollowsLedger
  <1> QED
    BY <1>1, <1>4, <1>5, <1>6, <1>7, <1>8 DEF LedgerFollowed

LEMMA UnchangedFollows ==
  ASSUME LedgerFollowed, TypeOK',
         UNCHANGED <<now, trajectories, disk, ledger, unsaved, forgotten>>,
         phase = "down" <=> phase' = "down"
  PROVE  LedgerFollowed'
  <1>1. RecordsInPast' /\ LedgerNotAhead'
    BY DEF LedgerFollowed, RecordsInPast, LedgerNotAhead
  <1>2. ChargesDurable'
    BY DEF LedgerFollowed, ChargesDurable
  <1>3. /\ phase # "down" => FollowsLedger(trajectories)'
        /\ phase = "down" => FollowsLedger(disk)' /\ unsaved' = {}
    BY DEF LedgerFollowed, FollowsLedger
  <1> QED
    BY <1>1, <1>2, <1>3 DEF LedgerFollowed

LEMMA StepFollows ==
  ASSUME Hypotheses
  PROVE  LedgerFollowed /\ [Next]_vars => LedgerFollowed'
  <1> SUFFICES ASSUME LedgerFollowed, [Next]_vars PROVE LedgerFollowed'
    OBVIOUS
  <1>1. TypeOK'
    BY StepType DEF LedgerFollowed
  <1>2. ASSUME NEW t \in Trajectories, NEW rule \in Rules, NEW res \in Results,
               Call(t, rule, res)
        PROVE  LedgerFollowed'
    <2>1. CASE CallUnlimited(t, rule, res)
      BY <1>1, <2>1, UnchangedFollows DEF CallUnlimited, history
    <2>2. CASE TouchOnly(t, rule)
      BY <1>1, <2>2, TouchOnlyFollows
    <2>3. CASE CallGranted(t, rule, res)
      BY <1>1, <2>3, GrantedFollows
    <2> QED
      BY <1>2, <2>1, <2>2, <2>3 DEF Call, CallUnreadable, CallPanics, CallDenied
  <1>3. CASE Janitor
    BY <1>1, <1>3, JanitorFollows
  <1>4. CASE CloseStorage
    BY <1>1, <1>4, UnchangedFollows DEF CloseStorage, history
  <1>5. CASE Stop
    BY <1>1, <1>5, StopFollows
  <1>6. CASE Start
    BY <1>1, <1>6, StartFollows
  <1>7. CASE Tick
    BY <1>1, <1>7, TickFollows
  <1>8. CASE UNCHANGED vars
    BY <1>1, <1>8, UnchangedFollows DEF vars
  <1> QED
    BY <1>2, <1>3, <1>4, <1>5, <1>6, <1>7, <1>8 DEF Next

(***************************************************************************)
(* While the process runs, its balances are those of the ledger; while it  *)
(* is down, those on disk are.                                             *)
(***************************************************************************)
THEOREM BalancesFollowLedger ==
  ASSUME Hypotheses
  PROVE  Spec => []LedgerFollowed
  BY InitFollows, StepFollows, PTL DEF Spec

(***************************************************************************)
(* Saving at each grant is enough: no restart changes a balance.           *)
(***************************************************************************)
THEOREM ChargesSurvive ==
  ASSUME Hypotheses
  PROVE  Spec => []ChargesDurable
  <1>1. LedgerFollowed => ChargesDurable
    BY DEF LedgerFollowed
  <1> QED
    BY <1>1, BalancesFollowLedger, PTL

-----------------------------------------------------------------------------
(* What a call is told, and what it may spend. *)

LEMMA StepJustified ==
  DenialJustified /\ LedgerFollowed /\ [Next]_vars => DenialJustified'
  <1> SUFFICES ASSUME DenialJustified, LedgerFollowed, [Next]_vars
               PROVE  DenialJustified'
    OBVIOUS
  <1>1. ASSUME NEW t \in Trajectories, NEW rule \in Rules, NEW res \in Results,
               Call(t, rule, res)
        PROVE  DenialJustified'
    <2>1. CASE CallDenied(t, rule, res)
      <3>1. /\ reply' = Answer("denied", t, rule, res)
            /\ UNCHANGED <<now, ledger, forgotten>>
            /\ phase # "down"
            /\ Exceeds(Balance(trajectories[t], rule, now), rule, res)
        BY <2>1 DEF CallDenied, TouchOnly, history
      <3>2. t \notin forgotten =>
              Balance(trajectories[t], rule, now) = Spent(ledger[t][rule.ruleID], rule, now)
        BY <3>1 DEF LedgerFollowed, FollowsLedger
      <3>3. t \notin forgotten => Exceeds(Spent(ledger[t][rule.ruleID], rule, now), rule, res)
        BY <3>1, <3>2
      <3>4. reply'.traj = t /\ reply'.rule = rule /\ reply'.result = res
        BY <3>1 DEF Answer
      <3> QED
        BY <3>1, <3>3, <3>4 DEF DenialJustified
    <2>2. CASE ~CallDenied(t, rule, res)
      <3>1. reply'.verdict # "denied"
        BY <1>1, <2>2 DEF Call, CallUnlimited, CallUnreadable, CallPanics, CallGranted, Answer
      <3> QED
        BY <3>1 DEF DenialJustified
    <2> QED
      BY <2>1, <2>2
  <1>2. CASE Janitor \/ CloseStorage \/ Stop \/ Start \/ Tick
    <2>1. reply' = Idle
      BY <1>2 DEF Janitor, CloseStorage, Stop, Start, LoadAll, Tick
    <2> QED
      BY <2>1 DEF DenialJustified, Idle
  <1>3. CASE UNCHANGED vars
    BY <1>3 DEF vars, DenialJustified
  <1> QED
    BY <1>1, <1>2, <1>3 DEF Next

(***************************************************************************)
(* No call is refused for usage that is not in the ledger of its window.   *)
(***************************************************************************)
THEOREM DenialsJustified ==
  ASSUME Hypotheses
  PROVE  Spec => []DenialJustified
  <1>1. Init => DenialJustified
    BY DEF Init, DenialJustified, Idle
  <1> QED
    BY <1>1, StepJustified, BalancesFollowLedger, PTL DEF Spec

\* A charge that passed the check keeps the usage of its rule within a cap.
LEMMA ChargeWithinCap ==
  ASSUME NEW used \in Usage, NEW rule \in Rules, NEW res \in Results,
         Limited(rule), ~Unreadable(rule, res), ~Exceeds(used, rule, res),
         WithinCap(rule.ruleID, used)
  PROVE  WithinCap(rule.ruleID, Charged(used, rule, res))
  <1>1. rule.maxCumulative \in Int
    BY EngineAssumption DEF Limited
  <1>2. CASE rule.accumulator = "sum"
    <2>1. used.sum \in Int /\ res.value \in Int
      BY <1>2, ReadableValue DEF Usage
    <2>2. used.sum + res.value <= rule.maxCumulative
      BY <1>1, <1>2, <2>1 DEF Exceeds
    <2>3. Charged(used, rule, res) = [used EXCEPT !.sum = @ + res.value]
      BY <1>2 DEF Charged
    <2>4. Allows(rule, "sum", rule.ruleID)
      BY <1>2 DEF Allows
    <2> QED
      BY <2>2, <2>3, <2>4 DEF WithinCap, Usage
  <1>3. CASE rule.accumulator = "count"
    <2>1. used.count + 1 <= rule.maxCumulative
      BY <1>1, <1>3 DEF Exceeds, Usage
    <2>2. Charged(used, rule, res) = [used EXCEPT !.count = @ + 1]
      BY <1>3 DEF Charged
    <2>3. Allows(rule, "count", rule.ruleID)
      BY <1>3 DEF Allows
    <2> QED
      BY <2>1, <2>2, <2>3 DEF WithinCap, Usage
  <1>4. CASE rule.accumulator = "unique_set"
    <2> DEFINE grown == used.uniqueSet \cup {res.value}
    <2>1. IsFiniteSet(used.uniqueSet)
      BY EngineAssumption, FS_Subset DEF Usage
    <2>2. Charged(used, rule, res) = [used EXCEPT !.uniqueSet = grown]
      BY <1>4 DEF Charged
    <2>3. CASE res.value \in used.uniqueSet
      BY <2>2, <2>3 DEF WithinCap, Usage
    <2>4. CASE res.value \notin used.uniqueSet
      <3>1. Cardinality(grown) = Cardinality(used.uniqueSet) + 1
        BY <2>1, <2>4, FS_AddElement
      <3>2. Cardinality(used.uniqueSet) \in Nat
        BY <2>1, FS_CardinalityType
      <3>3. Cardinality(grown) <= rule.maxCumulative
        BY <1>1, <1>4, <2>4, <3>1, <3>2 DEF Exceeds
      <3>4. Allows(rule, "unique_set", rule.ruleID)
        BY <1>4 DEF Allows
      <3> QED
        BY <2>2, <3>3, <3>4 DEF WithinCap, Usage
    <2> QED
      BY <2>3, <2>4
  <1>5. CASE rule.accumulator \notin {"sum", "count", "unique_set"}
    BY <1>5 DEF Charged
  <1> QED
    BY <1>2, <1>3, <1>4, <1>5

LEMMA StepWithinCap ==
  SpendWithinCap /\ LedgerFollowed /\ [Next]_vars => SpendWithinCap'
  <1> SUFFICES ASSUME SpendWithinCap, LedgerFollowed, [Next]_vars
               PROVE  SpendWithinCap'
    OBVIOUS
  <1>1. ASSUME NEW t \in Trajectories, NEW rule \in Rules, NEW res \in Results,
               CallGranted(t, rule, res), t \notin forgotten
        PROVE  SpendWithinCap'
    <2> DEFINE entry == ledger[t][rule.ruleID]
               used == Spent(entry, rule, now)
    <2>1. /\ rule.ruleID \in RuleIDs
          /\ ledger \in [Trajectories -> [RuleIDs -> LedgerEntries]]
      BY DEF RuleIDs, LedgerFollowed, TypeOK
    <2>2. used \in Usage
      BY <2>1 DEF Spent, LedgerEntries, Unused, Usage
    <2>3. /\ ledger' = [ledger EXCEPT ![t][rule.ruleID] = Entered(entry, rule, res, now)]
          /\ forgotten' = forgotten
          /\ phase # "down"
          /\ Limited(rule) /\ ~Unreadable(rule, res)
          /\ ~Exceeds(Balance(trajectories[t], rule, now), rule, res)
      BY <1>1 DEF CallGranted
    <2>4. ~Exceeds(used, rule, res)
      BY <1>1, <2>3 DEF LedgerFollowed, FollowsLedger
    <2>5. WithinCap(rule.ruleID, used)
      <3>1. WithinCap(rule.ruleID, entry.used)
        BY <1>1, <2>1 DEF SpendWithinCap
      <3>2. WithinCap(rule.ruleID, Unused)
        BY DEF WithinCap, Unused
      <3> QED
        BY <3>1, <3>2 DEF Spent
    <2>6. WithinCap(rule.ruleID, Charged(used, rule, res))
      BY <2>2, <2>3, <2>4, <2>5, ChargeWithinCap
    <2>7. Entered(entry, rule, res, now).used = Charged(used, rule, res)
      BY DEF Entered
    <2> HIDE DEF used, entry
    <2>8. ASSUME NEW u \in Trajectories, u \notin forgotten, NEW id \in RuleIDs
          PROVE  WithinCap(id, ledger'[u][id].used)
      <3>1. CASE u = t /\ id = rule.ruleID
        <4>1. ledger'[u][id] = Entered(entry, rule, res, now)
          BY <2>1, <2>3, <3>1
        <4> QED
          BY <2>6, <2>7, <3>1, <4>1
      <3>2. CASE ~(u = t /\ id = rule.ruleID)
        <4>1. ledger'[u][id] = ledger[u][id]
          BY <2>1, <2>3, <3>2
        <4> QED
          BY <2>8, <4>1 DEF SpendWithinCap
      <3> QED
        BY <3>1, <3>2
    <2> QED
      BY <2>3, <2>8 DEF SpendWithinCap
  <1>2. CASE UNCHANGED ledger /\ forgotten \subseteq forgotten'
    BY <1>2 DEF SpendWithinCap
  <1>3. ASSUME NEW t \in Trajectories, NEW rule \in Rules, NEW res \in Results,
               Call(t, rule, res), ~(CallGranted(t, rule, res) /\ t \notin forgotten)
        PROVE  UNCHANGED ledger /\ forgotten \subseteq forgotten'
    BY <1>3 DEF Call, CallUnlimited, CallUnreadable, CallPanics, CallDenied, CallGranted,
                TouchOnly, history
  <1>4. Janitor \/ CloseStorage \/ Stop \/ Start \/ Tick \/ UNCHANGED vars =>
          UNCHANGED ledger /\ forgotten \subseteq forgotten'
    BY DEF Janitor, CloseStorage, Stop, Start, LoadAll, Tick, history, vars
  <1> QED
    BY <1>1, <1>2, <1>3, <1>4 DEF Next

(***************************************************************************)
(* The promise of the rules: within a window no trajectory is granted more *)
(* than a cap, through restarts, purges and failed saves.                  *)
(***************************************************************************)
THEOREM CapsHold ==
  ASSUME Hypotheses
  PROVE  Spec => []SpendWithinCap
  <1>1. Init => SpendWithinCap
    BY DEF Init, SpendWithinCap, WithinCap, Unused
  <1> QED
    BY <1>1, StepWithinCap, BalancesFollowLedger, PTL DEF Spec

-----------------------------------------------------------------------------
(* The engine implements the ledger of TrajectoryLedger. *)

LEMMA PromiseOperators ==
  ASSUME NEW rule, NEW res, NEW entry, NEW used, NEW t
  PROVE  /\ Promise!Unreadable(rule, res) <=> Unreadable(rule, res)
         /\ Promise!Dereferences(rule, res) <=> Dereferences(rule, res)
         /\ Promise!Exceeds(used, rule, res) <=> Exceeds(used, rule, res)
         /\ Promise!Spent(entry, rule, t) = Spent(entry, rule, t)
         /\ Promise!Entered(entry, rule, res, t) = Entered(entry, rule, res, t)
  <1>1. Promise!WindowOf(rule.timeWindow, t) = WindowOf(rule.timeWindow, t)
    BY DEF Promise!WindowOf, WindowOf, Promise!In, In, Promise!Period, Period,
           Promise!Schedules, Schedules
  <1>2. \A u : Promise!Charged(u, rule, res) = Charged(u, rule, res)
    BY DEF Promise!Charged, Charged
  <1>3. Promise!Spent(entry, rule, t) = Spent(entry, rule, t)
    BY <1>1 DEF Promise!Spent, Spent, Promise!Unused, Unused
  <1>4. Promise!Entered(entry, rule, res, t) = Entered(entry, rule, res, t)
    BY <1>1, <1>2, <1>3 DEF Promise!Entered, Entered
  <1>5. /\ Promise!Unreadable(rule, res) <=> Unreadable(rule, res)
        /\ Promise!Dereferences(rule, res) <=> Dereferences(rule, res)
        /\ Promise!Exceeds(used, rule, res) <=> Exceeds(used, rule, res)
    <2>1. \A S : Promise!Cardinality(S) = Cardinality(S)
      BY DEF Promise!Cardinality, Cardinality
    <2> QED
      BY <2>1 DEF Promise!Unreadable, Unreadable, Promise!Dereferences, Dereferences,
                  Promise!Exceeds, Exceeds
  <1> QED
    BY <1>3, <1>4, <1>5

LEMMA InitRefines == Init => Promise!Init
  <1> SUFFICES ASSUME Init PROVE Promise!Init
    OBVIOUS
  <1>1. \A t \in Trajectories, rule \in Rules : ledger[t][rule.ruleID].used = Unused
    BY DEF Init, RuleIDs
  <1> QED
    BY <1>1 DEF Init, Promise!Init, Idle, Unused, Promise!Unused

LEMMA StepRefines ==
  LedgerFollowed /\ [Next]_vars => [Promise!Next]_(Promise!ledgerVars)
  <1> SUFFICES ASSUME LedgerFollowed, [Next]_vars
               PROVE  Promise!Next \/ UNCHANGED Promise!ledgerVars
    OBVIOUS
  <1>1. ASSUME NEW t \in Trajectories, NEW rule \in Rules, NEW res \in Results,
               Call(t, rule, res)
        PROVE  Promise!Next
    <2>1. \/ Promise!PassUncounted(t, rule, res)
          \/ Promise!Deny(t, rule, res)
          \/ Promise!Grant(t, rule, res)
      <3>1. phase # "down"
        BY <1>1 DEF Call, CallUnlimited, CallUnreadable, CallPanics, CallDenied,
                    CallGranted, TouchOnly
      <3>2. t \notin forgotten =>
              Balance(trajectories[t], rule, now) = Spent(ledger[t][rule.ruleID], rule, now)
        BY <3>1 DEF LedgerFollowed, FollowsLedger
      <3>3. CASE CallUnlimited(t, rule, res)
        BY <3>3 DEF CallUnlimited, Limited, Answer, history,
                    Promise!PassUncounted, Promise!Answered
      <3>4. CASE CallUnreadable(t, rule, res) \/ CallPanics(t, rule, res)
        <4>1. Unreadable(rule, res)
          BY <3>4 DEF CallUnreadable, CallPanics, Unreadable, Dereferences
        <4> QED
          BY <3>4, <4>1, PromiseOperators
             DEF CallUnreadable, CallPanics, TouchOnly, Answer, history,
                 Promise!PassUncounted, Promise!Answered
      <3>5. CASE CallDenied(t, rule, res)
        BY <3>2, <3>5, PromiseOperators
           DEF CallDenied, TouchOnly, Limited, Answer, history,
               Promise!Deny, Promise!Answered
      <3>6. CASE CallGranted(t, rule, res)
        <4>1. unsaved' \in {unsaved \cup {t}, unsaved \ {t}}
          BY <3>6 DEF CallGranted
        <4> QED
          BY <3>2, <3>6, <4>1, PromiseOperators
             DEF CallGranted, Limited, Answer, Promise!Grant, Promise!Answered
      <3> QED
        BY <1>1, <3>3, <3>4, <3>5, <3>6 DEF Call
    <2> QED
      BY <2>1 DEF Promise!Next
  <1>2. CASE Janitor \/ CloseStorage \/ Start \/ Tick
    <2>1. Promise!Pass
      BY <1>2 DEF Janitor, CloseStorage, Start, LoadAll, Tick, history, Idle, Promise!Pass
    <2> QED
      BY <2>1 DEF Promise!Next
  <1>3. CASE Stop
    <2>1. Promise!Restart
      BY <1>3 DEF Stop, Idle, Promise!Restart
    <2> QED
      BY <2>1 DEF Promise!Next
  <1>4. CASE UNCHANGED vars
    BY <1>4 DEF vars, Promise!ledgerVars
  <1> QED
    BY <1>1, <1>2, <1>3, <1>4 DEF Next

(***************************************************************************)
(* RAM, disk, janitor, crashes and restarts cannot be told from one ledger *)
(* that is never forgotten.                                                *)
(***************************************************************************)
THEOREM EngineImplementsLedger ==
  ASSUME Hypotheses
  PROVE  Spec => ImplementsLedger
  BY InitRefines, StepRefines, BalancesFollowLedger, PTL
     DEF Spec, ImplementsLedger, Promise!Spec

-----------------------------------------------------------------------------
(***************************************************************************)
(* The hypotheses are met by what an operator can configure: rules without *)
(* a window and no TTL, daily rules and a TTL of a day, hourly rules.  The *)
(* default TTL of one hour is enough for hourly rules only.                *)
(***************************************************************************)
THEOREM ConfigurationsCovered ==
  ASSUME StableSchedules, \A rule \in Rules : CoveredByTtl(rule.timeWindow)
  PROVE  Hypotheses
  <1> USE DEF DailyWindow, HourlyWindow
  <1>1. ASSUME NEW rule \in Rules, NEW a \in Time, NEW b \in Time, a <= b
        PROVE  SoundBetween(rule.timeWindow, a, b)
    <2> DEFINE tw == rule.timeWindow
    <2>1. a \in Int /\ b \in Int /\ b - a <= MaxTime /\ MaxTime \in Int
      BY EngineAssumption DEF Time
    <2>2. HoursPerDay * DaysPerYear \in Int
      BY CalendarAssumption
    <2>3. CASE ~tw.enabled
      BY <2>3, EndlessSound
    <2>4. CASE DailyWindow(tw)
      BY <1>1, <2>1, <2>4, DailySound
    <2>5. CASE HourlyWindow(tw) /\ MaxTime < HoursPerDay * DaysPerYear
      BY <1>1, <2>1, <2>2, <2>5, HourlySound
    <2> QED
      BY <2>3, <2>4, <2>5 DEF CoveredByTtl
  <1>2. ASSUME NEW rule \in Rules, NEW a \in Time, NEW b \in Time, Ttl > 0, b - a > Ttl
        PROVE  WindowOf(rule.timeWindow, a) # WindowOf(rule.timeWindow, b)
    <2> DEFINE tw == rule.timeWindow
    <2>1. a \in Int /\ b \in Int /\ b - a >= 1 /\ Ttl \in Int /\ HoursPerDay \in Int
      BY <1>2, EngineAssumption, CalendarAssumption DEF Time
    <2>2. CASE DailyWindow(tw) /\ Ttl >= HoursPerDay
      BY <1>2, <2>1, <2>2, DailyGap
    <2>3. CASE HourlyWindow(tw)
      BY <2>1, <2>3, HourlyGap
    <2> QED
      BY <1>2, <2>1, <2>2, <2>3 DEF CoveredByTtl
  <1>3. SoundWindows
    BY <1>1 DEF SoundWindows, SoundBetween
  <1>4. TtlCoversWindows
    BY <1>2 DEF TtlCoversWindows
  <1> QED
    BY <1>3, <1>4 DEF Hypotheses

(***************************************************************************)
(* At an instant only a granted call changes a balance.                    *)
(***************************************************************************)
THEOREM OnlyGrantsChangeBalances ==
  ASSUME Hypotheses
  PROVE  Spec => OnlyGrantsSpend
  <1> DEFINE A == \A t \in Trajectories, rule \in Rules :
       (phase # "down" /\ phase' # "down" /\ now' = now
          /\ Balance(trajectories'[t], rule, now') # Balance(trajectories[t], rule, now)) =>
         /\ reply'.verdict = "granted"
         /\ reply'.traj = t
         /\ reply'.rule.ruleID = rule.ruleID
  <1>1. LedgerFollowed /\ [Next]_vars => [A]_vars
    <2> SUFFICES ASSUME LedgerFollowed, Next,
                        NEW t \in Trajectories, NEW rule \in Rules,
                        phase # "down", phase' # "down", now' = now,
                        Balance(trajectories'[t], rule, now) # Balance(trajectories[t], rule, now)
                 PROVE  /\ reply'.verdict = "granted"
                        /\ reply'.traj = t
                        /\ reply'.rule.ruleID = rule.ruleID
      OBVIOUS
    <2> USE DEF Hypotheses
    <2>1. /\ trajectories \in [Trajectories -> Sessions \cup {Absent}] /\ now \in Time
          /\ SoundWindows /\ StableSchedules
      BY DEF LedgerFollowed, TypeOK, Maps
    <2>2. ASSUME NEW u \in Trajectories, NEW called \in Rules,
                 NEW state \in RuleStates,
                 state.windowStart = StateOf(trajectories[u], called, now).windowStart,
                 trajectories' = [trajectories EXCEPT
                                    ![u] = Touched(trajectories[u], called, state, now)]
          PROVE  /\ u = t
                 /\ called.ruleID = rule.ruleID
                 /\ state.used # Balance(trajectories[u], called, now)
      <3>1. u = t
        BY <2>1, <2>2
      <3>2. Balance(trajectories'[t], rule, now) =
              IF rule.ruleID = called.ruleID THEN state.used
              ELSE Balance(trajectories[t], rule, now)
        <4>1. trajectories[u] \in Sessions \cup {Absent}
          BY <2>1
        <4>2. Balance(Touched(trajectories[u], called, state, now), rule, now) =
                IF rule.ruleID = called.ruleID THEN state.used
                ELSE Balance(trajectories[u], rule, now)
          BY <2>1, <2>2, <4>1, BalanceTouched
        <4> QED
          BY <2>1, <2>2, <3>1, <4>2
      <3>3. rule.ruleID = called.ruleID
        BY <3>2
      <3>4. Balance(trajectories[t], rule, now) = Balance(trajectories[t], called, now)
        BY <2>1, <3>3, StateOfLive
      <3> QED
        BY <3>1, <3>2, <3>3, <3>4
    <2>3. ASSUME NEW u \in Trajectories, NEW called \in Rules, NEW res \in Results,
                 Call(u, called, res)
          PROVE  /\ reply'.verdict = "granted"
                 /\ reply'.traj = t
                 /\ reply'.rule.ruleID = rule.ruleID
      <3>1. CASE CallUnlimited(u, called, res)
        BY <3>1 DEF CallUnlimited
      <3>2. CASE TouchOnly(u, called)
        <4>1. StateOf(trajectories[u], called, now) \in RuleStates
          BY <2>1, StateOfType
        <4>2. trajectories' = [trajectories EXCEPT ![u] =
                Touched(trajectories[u], called, StateOf(trajectories[u], called, now), now)]
          BY <3>2 DEF TouchOnly
        <4>3. StateOf(trajectories[u], called, now).used # Balance(trajectories[u], called, now)
          BY <2>2, <4>1, <4>2
        <4> QED
          BY <4>3 DEF Balance
      <3>3. CASE CallGranted(u, called, res)
        <4> DEFINE state == ChargedState(trajectories[u], called, res, now)
        <4>1. ~Unreadable(called, res)
          BY <3>3 DEF CallGranted
        <4>2. state \in RuleStates
          BY <2>1, <4>1, ChargedStateType
        <4>3. state.windowStart = StateOf(trajectories[u], called, now).windowStart
          BY <2>1, StateOfType DEF ChargedState, RuleStates
        <4>4. trajectories' = [trajectories EXCEPT
                                 ![u] = Touched(trajectories[u], called, state, now)]
          BY <3>3 DEF CallGranted
        <4> HIDE DEF state
        <4>5. u = t /\ called.ruleID = rule.ruleID
          BY <2>2, <4>2, <4>3, <4>4
        <4> QED
          BY <3>3, <4>5 DEF CallGranted, Answer
      <3> QED
        BY <2>3, <3>1, <3>2, <3>3 DEF Call, CallUnreadable, CallPanics, CallDenied
    <2>4. CASE Janitor
      <3>1. trajectories' = Purge(trajectories, Stale)
        BY <2>4 DEF Janitor
      <3>2. t \in Stale /\ trajectories'[t] = Absent
        BY <3>1 DEF Purge
      <3> QED
        BY <3>2, PurgedBalance, AbsentBalance
    <2>5. CASE CloseStorage \/ Stop \/ Start \/ Tick
      BY <2>1, <2>5 DEF CloseStorage, Stop, Start, LoadAll, Tick, Time
    <2> QED
      BY <2>3, <2>4, <2>5 DEF Next
  <1> QED
    BY <1>1, BalancesFollowLedger, PTL DEF Spec, OnlyGrantsSpend
=============================================================================

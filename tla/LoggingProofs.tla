---------------------------- MODULE LoggingProofs -----------------------------
(***************************************************************************)
(* Proofs about LogFile for any sizes, intervals and lengths of lines, and *)
(* any number of calls and of jumps of the clock; and, at the end, about   *)
(* the records of Log for any threads, zones, seconds and messages.        *)
(***************************************************************************)
EXTENDS LogFile, Log, FiniteSetTheorems, TLAPS

(* While the clock only goes forward, the last roll is before the last     *)
(* flush and the day of the open file is that of the last roll.            *)
ClockInv ==
    /\ startOfPeriod = DayOf(lastRoll)
    /\ jumps = 0 => lastRoll <= lastFlush /\ lastFlush <= now

(* Lines of later days are counted, or the file is replaced; and once the  *)
(* file has one, its day is over for good.                                 *)
DayInv ==
    jumps = 0 => /\ lateDay <= count
                 /\ lateDay > 0 => DayOf(now) > startOfPeriod

(* The same for the lines of an overdue flush, which stays overdue until   *)
(* it happens.                                                             *)
FlushInv ==
    jumps = 0 /\ ~stuck => /\ lateFlush <= count
                           /\ lateFlush > 0 => now - lastFlush > FlushInterval

IInv == TypeOK /\ ClockInv /\ DayInv /\ FlushInv

(* Days only go forward with time.                                         *)
LEMMA DaysGrow ==
    /\ \A t \in Nat : DayOf(t) \in Nat
    /\ \A s, t \in Nat : s <= t => DayOf(s) <= DayOf(t)
<1> USE LogFileAssumption
<1> DEFINE K == KRollPerSeconds
<1>1. ASSUME NEW t \in Nat PROVE DayOf(t) \in Nat /\ K * DayOf(t) <= t /\ t < K * (DayOf(t) + 1)
  BY DEF DayOf
<1>2. ASSUME NEW s \in Nat, NEW t \in Nat, s <= t PROVE DayOf(s) <= DayOf(t)
  <2> DEFINE p == DayOf(s)
             q == DayOf(t)
  <2>1. p \in Nat /\ q \in Nat /\ K * p <= s /\ t < K * (q + 1)
    BY <1>1
  <2> HIDE DEF p, q
  <2> SUFFICES ASSUME q < p PROVE FALSE
    BY <2>1 DEF p, q
  <2>2. PICK d \in Nat : p = q + 1 + d
    <3>1. p - q - 1 \in Nat /\ p = q + 1 + (p - q - 1)
      BY <2>1
    <3> QED
      BY <3>1
  <2>3. K * p = K * (q + 1) + K * d /\ K * d \in Nat /\ K * (q + 1) \in Nat
    BY <2>1, <2>2
  <2> QED
    BY <1>2, <2>1, <2>3
<1> QED
  BY <1>1, <1>2

(* What one append() does once it has written its bytes.                   *)
LEMMA AppendStep ==
    ASSUME IInv, NEW bytes \in Nat, AppendFileUnlock(bytes), ~stuck, clock' = clock
    PROVE  /\ written' \in Nat /\ count' \in 0 .. CheckEveryN - 1
           /\ startOfPeriod' \in {DayOf(t) : t \in Time}
           /\ lastRoll' \in Time /\ lastFlush' \in Time
           /\ lateDay' \in Nat /\ lateFlush' \in Nat
           /\ stuck' \in BOOLEAN
           /\ ClockInv' /\ DayInv' /\ FlushInv'
           /\ written' > RollSize => now <= lastRoll
<1> USE LogFileAssumption, DaysGrow DEF IInv, clock
<1>0. /\ now' = now /\ jumps' = jumps /\ now \in Time /\ now \in Nat
      /\ lateDay \in Nat /\ lateFlush \in Nat /\ lastRoll \in Nat /\ lastFlush \in Nat
      /\ DayOf(now) \in Nat /\ startOfPeriod \in Nat
  BY DEF TypeOK, Time, ClockInv
<1>1. CASE now > lastRoll /\ RollFile(bytes) /\ count' \in 0 .. CheckEveryN - 1
  BY <1>0, <1>1 DEF TypeOK, ClockInv, DayInv, FlushInv, RollFile, Time
<1>2. CASE bytes > RollSize /\ now <= lastRoll
  <2>1. Keeps(bytes) /\ count' = count
    BY <1>0, <1>2 DEF AppendFileUnlock, RollFile, TypeOK
  <2>2. jumps = 0 => LateDay = lateDay /\ LateFlush = lateFlush
    BY <1>0, <1>2 DEF ClockInv, LateDay, LateFlush
  <2> QED
    BY <1>0, <1>2, <2>1, <2>2
       DEF TypeOK, Keeps, LateDay, LateFlush, ClockInv, DayInv, FlushInv, Time
<1>3. CASE ~(bytes > RollSize) /\ ~CheckDue
  BY <1>0, <1>3 DEF AppendFileUnlock, CheckDue, TypeOK, Keeps, LateDay, LateFlush,
                    ClockInv, DayInv, FlushInv, Time
<1>4. CASE ~(bytes > RollSize) /\ CheckDue /\ DayOf(now) # startOfPeriod /\ now <= lastRoll
  <2>1. Keeps(bytes) /\ count' = 0 /\ now # lastRoll
    BY <1>0, <1>4 DEF AppendFileUnlock, RollFile, ClockInv
  <2> QED
    BY <1>0, <1>4, <2>1
       DEF TypeOK, Keeps, LateDay, LateFlush, ClockInv, DayInv, FlushInv, Time
<1>5. CASE ~(bytes > RollSize) /\ CheckDue /\ DayOf(now) = startOfPeriod
  <2>1. LateDay = lateDay /\ (jumps = 0 => lateDay = 0) /\ count' = 0
    BY <1>0, <1>5 DEF LateDay, DayInv, AppendFileUnlock
  <2>2. CASE now - lastFlush > FlushInterval
    BY <1>0, <1>5, <2>1, <2>2
       DEF AppendFileUnlock, FlushInAppend, TypeOK, LateFlush, ClockInv, DayInv, FlushInv, Time
  <2>3. CASE ~(now - lastFlush > FlushInterval)
    BY <1>0, <1>5, <2>1, <2>3
       DEF AppendFileUnlock, Keeps, TypeOK, LateFlush, ClockInv, DayInv, FlushInv, Time
  <2> QED
    BY <2>2, <2>3
<1>6. CASE now > lastRoll /\ (bytes > RollSize \/ (CheckDue /\ DayOf(now) # startOfPeriod))
  BY <1>0, <1>1, <1>6 DEF AppendFileUnlock, TypeOK
<1> QED
  BY <1>0, <1>2, <1>3, <1>4, <1>5, <1>6

LEMMA InvStep == IInv /\ [Next]_vars => IInv'
<1> SUFFICES ASSUME IInv, [Next]_vars PROVE IInv'
  OBVIOUS
<1> USE LogFileAssumption DEF clock
<1>1. ASSUME NEW len \in LineLens, AppendLine(len) PROVE IInv'
  <2>1. PICK k \in WrittenOf(len) : AppendFileUnlock(written + k)
    BY <1>1 DEF AppendLine
  <2>2. written + k \in Nat
    BY DEF WrittenOf, IInv, TypeOK
  <2>3. ~stuck /\ UNCHANGED <<clock, threadSafe>> /\ numLines' \in 0 .. MaxLines
    BY <1>1 DEF AppendLine, IInv, TypeOK
  <2> QED
    BY <2>1, <2>2, <2>3, AppendStep DEF IInv, TypeOK
<1>2. CASE Flush
  BY <1>2 DEF Flush, IInv, TypeOK, ClockInv, DayInv, FlushInv
<1>3. CASE Tick
  <2>1. now \in Nat /\ now + 1 \in Nat /\ DayOf(now) \in Nat /\ DayOf(now + 1) \in Nat
        /\ DayOf(now) <= DayOf(now + 1)
    BY DaysGrow DEF IInv, TypeOK, Time
  <2>2. startOfPeriod \in Nat /\ lastFlush \in Nat
    BY DaysGrow DEF IInv, TypeOK, ClockInv, Time
  <2> QED
    BY <1>3, <2>1, <2>2 DEF Tick, IInv, TypeOK, ClockInv, DayInv, FlushInv, Time
<1>4. CASE SetClockBack
  BY <1>4 DEF SetClockBack, IInv, TypeOK, ClockInv, DayInv, FlushInv, Time
<1>5. CASE UNCHANGED vars
  BY <1>5 DEF vars, IInv, TypeOK, ClockInv, DayInv, FlushInv
<1> QED
  BY <1>1, <1>2, <1>3, <1>4, <1>5 DEF Next

LEMMA InitInv == Init => IInv
<1> SUFFICES ASSUME Init PROVE IInv
  OBVIOUS
<1>1. TypeOK
  <2>1. 1 \in Time \ {0}
    BY LogFileAssumption DEF Time
  <2>2. DayOf(1) \in {DayOf(t) : t \in Time}
    <3>1. \A t \in Time : DayOf(t) \in {DayOf(u) : u \in Time}
      OBVIOUS
    <3> QED
      BY <2>1, <3>1, Zenon
  <2>3. startOfPeriod \in {DayOf(t) : t \in Time}
    BY <2>2, Zenon DEF Init
  <2>4. /\ now \in Time \ {0} /\ lastRoll \in Time /\ lastFlush \in Time
        /\ jumps \in 0 .. MaxJumps /\ count \in 0 .. CheckEveryN - 1
        /\ numLines \in 0 .. MaxLines
        /\ written \in Nat /\ lateDay \in Nat /\ lateFlush \in Nat
    BY <2>1, LogFileAssumption DEF Init
  <2> QED
    BY <2>3, <2>4, Zenon DEF Init, TypeOK
<1>2. ClockInv /\ DayInv /\ FlushInv
  BY DEF Init, ClockInv, DayInv, FlushInv
<1> QED
  BY <1>1, <1>2 DEF IInv

(* As long as the clock is not set back, fewer than CheckEveryN lines of   *)
(* later days get into a file, whatever the size and the lengths.          *)
THEOREM DaysAreSplit == Spec => []NewDayNewFile
<1>1. IInv => NewDayNewFile
  BY LogFileAssumption DEF IInv, TypeOK, DayInv, NewDayNewFile
<1> QED
  BY <1>1, InitInv, InvStep, PTL DEF Spec

(* As long as the clock is not set back, fewer than CheckEveryN lines are  *)
(* appended past the time of a flush.                                      *)
THEOREM FlushesAreBounded == Spec => []OverdueFlushBounded
<1>1. IInv => OverdueFlushBounded
  BY LogFileAssumption DEF IInv, TypeOK, FlushInv, OverdueFlushBounded
<1> QED
  BY <1>1, InitInv, InvStep, PTL DEF Spec

(* A line goes into a file past m_rollSize only in the second of the       *)
(* file's creation, or with the clock behind it.                           *)
THEOREM OversizeIsExplained == Spec => OversizeOnlyInRollSecond
<1>1. ASSUME IInv, [Next]_vars
      PROVE  [(written' > RollSize /\ numLines' # numLines) => now <= lastRoll]_vars
  <2>1. ASSUME NEW len \in LineLens, AppendLine(len)
        PROVE  written' > RollSize => now <= lastRoll
    <3>1. PICK k \in WrittenOf(len) : AppendFileUnlock(written + k)
      BY <2>1 DEF AppendLine
    <3>2. written + k \in Nat
      BY <1>1, LogFileAssumption DEF WrittenOf, IInv, TypeOK
    <3>3. ~stuck /\ clock' = clock
      BY <2>1 DEF AppendLine
    <3> QED
      BY <1>1, <3>1, <3>2, <3>3, AppendStep
  <2>2. CASE Flush \/ Tick \/ SetClockBack
    BY <2>2 DEF Flush, Tick, SetClockBack
  <2> QED
    BY <1>1, <2>1, <2>2 DEF Next
<1> QED
  BY <1>1, InitInv, InvStep, PTL DEF Spec, OversizeOnlyInRollSecond

-------------------------------------------------------------------------------
(* The dates of records.  formatTime() fails its assertion on the length   *)
(* of t_time only when nothing was ever formatted, since a date that was   *)
(* formatted has a month.                                                  *)

(* C++ and TLA+ divide by a positive number with a remainder below it.     *)
LEMMA DivBounds ==
    ASSUME NEW x \in Int, NEW k \in Nat \ {0}
    PROVE  x \div k \in Int /\ k * (x \div k) <= x /\ x < k * (x \div k) + k
OBVIOUS

(* The months of the calendar are never zero.                              *)
LEMMA MonthIsNotZero ==
    ASSUME NEW n \in Int
    PROVE  GetYearMonthDay(n).month # 0
<1> DEFINE a == n + 32044
           b == (4 * a + 3) \div 146097
           f == (b * 146097) \div 4
           c == a - f
           d == (4 * c + 3) \div 1461
           g == (1461 * d) \div 4
           e == c - g
           m == (5 * e + 2) \div 153
           q == m \div 10
<1>1. a \in Int /\ 4 * a + 3 \in Int
  OBVIOUS
<1>2. b \in Int
  BY <1>1, DivBounds
<1> HIDE DEF b
<1>3. f \in Int
  BY <1>2, DivBounds
<1> HIDE DEF f
<1>4. c \in Int /\ 4 * c + 3 \in Int
  BY <1>1, <1>3
<1> HIDE DEF c, a
<1>5. d \in Int /\ 1461 * d <= 4 * c + 3 /\ 4 * c + 3 < 1461 * d + 1461
  BY <1>4, DivBounds
<1> HIDE DEF d
<1>6. g \in Int /\ 4 * g <= 1461 * d /\ 1461 * d < 4 * g + 4
  BY <1>5, DivBounds
<1> HIDE DEF g
<1>7. e \in 0 .. 365
  BY <1>4, <1>5, <1>6
<1> HIDE DEF e
<1>8. m \in Int /\ 153 * m <= 5 * e + 2 /\ 5 * e + 2 < 153 * m + 153
  BY <1>7, DivBounds
<1> HIDE DEF m
<1>9. m \in 0 .. 11
  BY <1>7, <1>8
<1>10. q \in Int /\ 10 * q <= m /\ m < 10 * q + 10
  BY <1>9, DivBounds
<1> HIDE DEF q
<1>11. m + 3 - 12 * q # 0
  BY <1>9, <1>10
<1>12. GetYearMonthDay(n).month = m + 3 - 12 * q
  BY DEF GetYearMonthDay, a, b, c, d, e, f, g, m, q
<1> QED
  BY <1>11, <1>12

(* No time is broken down to the empty text.                               *)
LEMMA DatesAreNotEmpty ==
    ASSUME NEW s \in Int
    PROVE  BreakTime(s) # Empty
<1> DEFINE K    == KSecondsPerDay
           quo  == Quotient(s, K)
           rem  == Remainder(s, K)
           secs == IF rem < 0 THEN rem + K ELSE rem
           days == IF rem < 0 THEN quo - 1 ELSE quo
           n    == days + KJulianDayOf1970_01_01
<1>1. K \in Nat \ {0}
  BY DEF KSecondsPerDay
<1>2. quo \in Int
  <2>1. s \div K \in Int
    BY <1>1, DivBounds
  <2> QED
    BY <2>1 DEF Quotient
<1>3. days \in Int
  BY <1>2
<1>4. KJulianDayOf1970_01_01 \in Int
  BY DivBounds DEF KJulianDayOf1970_01_01, GetJulianDayNumber
<1>5. GetYearMonthDay(n).month # 0
  <2>1. n \in Int
    BY <1>3, <1>4
  <2> HIDE DEF n
  <2> QED
    BY <2>1, MonthIsNotZero
<1>6. BreakTime(s) = DateTime(GetYearMonthDay(n), FillHMS(secs))
  BY DEF BreakTime
<1>7. BreakTime(s).month = GetYearMonthDay(n).month
  <2> HIDE DEF n, secs
  <2> QED
    BY <1>6 DEF DateTime
<1>8. Empty.month = 0
  BY DEF Empty, DateTime
<1> QED
  BY <1>5, <1>7, <1>8

(* The date of a second in a zone is not the empty text.                   *)
LEMMA DateTextNotEmpty ==
    ASSUME NEW tz \in Zones, NEW s \in Seconds
    PROVE  DateText(tz, s) # Empty
<1>1. s \in Int
  BY LogAssumption
<1>2. CASE tz.valid
  <2>1. s + FindLocalTime(tz, s) \in Int
    BY <1>1, <1>2, LogAssumption
  <2> QED
    BY <1>2, <2>1, DatesAreNotEmpty DEF DateText, ToLocalTime
<1>3. CASE ~tz.valid
  BY <1>1, <1>3, DatesAreNotEmpty DEF DateText, ToUtcTime
<1> QED
  BY <1>2, <1>3

(* Two different zones were set.                                           *)
LEMMA TwoZones ==
    ASSUME NEW S, IsFiniteSet(S), NEW x \in S, NEW y \in S, x # y
    PROVE  Cardinality(S) > 1
<1>1. IsFiniteSet({x}) /\ Cardinality({x}) = 1
  BY FS_Singleton
<1>2. IsFiniteSet({x} \cup {y}) /\ Cardinality({x} \cup {y}) = 2
  <2>1. y \notin {x}
    OBVIOUS
  <2>2. /\ IsFiniteSet({x} \cup {y})
        /\ Cardinality({x} \cup {y}) =
               IF y \in {x} THEN Cardinality({x}) ELSE Cardinality({x}) + 1
    BY <1>1, FS_AddElement
  <2> QED
    BY <1>1, <2>1, <2>2
<1>3. {x} \cup {y} \subseteq S
  OBVIOUS
<1>4. Cardinality({x} \cup {y}) <= Cardinality(S) /\ Cardinality(S) \in Nat
  BY <1>3, FS_Subset, FS_CardinalityType
<1> QED
  BY <1>2, <1>4

(* The zones set since a thread entered its second.                        *)
SinceOK(t) == zone \in since[t] /\ since[t] \subseteq Zones /\ IsFiniteSet(since[t])

(* The cached date is that of the cached second, except while the two are  *)
(* written; a thread that has formatted nothing has neither.               *)
Formatting == {"toLocalTime", "toUtcTime"}

CacheOK(t) ==
    pc[t] \notin Formatting =>
        \/ time[t] = Empty /\ lastSecond[t] = 0
        \/ /\ lastSecond[t] \in Seconds
           /\ \E tz \in since[t] : time[t] = DateText(tz, lastSecond[t])

(* What formatTime() found g_timeZone to be is one of these zones.         *)
ReadingOK(t) ==
    /\ pc[t] = "toLocalTime" => \E tz \in since[t] : tz.valid
    /\ pc[t] = "toUtcTime" => \E tz \in since[t] : ~tz.valid

(* The record's second is the cached one from formatTime() on.             *)
SecondOK(t) ==
    /\ pc[t] \in Formatting \cup {"format", "suffix", "output"} => rec[t].second \in Seconds
    /\ pc[t] \in Formatting \cup {"suffix", "output"} => rec[t].second = lastSecond[t]

(* The date of a record that is complete.                                  *)
RecordOK(t) ==
    pc[t] = "output" =>
        \E tz, tz2 \in since[t] : /\ rec[t].time = DateText(tz, rec[t].second)
                                  /\ rec[t].zulu = ~tz2.valid

ThreadOK(t) == SinceOK(t) /\ CacheOK(t) /\ ReadingOK(t) /\ SecondOK(t) /\ RecordOK(t)

(* Assertions fail only as DateIsOfTheSecond says.                         *)
AbortOK ==
    /\ abort = "Log.cc:52" =>
           \E t \in Threads : pc[t] = "suffix" /\ time[t] = Empty /\ rec[t].second = 0
    /\ abort = "TimeZone.cc:453" =>
           \E t \in Threads : pc[t] = "toLocalTime" /\ Cardinality(since[t]) > 1

LogTypes ==
    /\ wallClock \in Seconds /\ zone \in Zones
    /\ DOMAIN lastSecond = Threads /\ DOMAIN time = Threads /\ DOMAIN pc = Threads
    /\ DOMAIN rec = Threads /\ DOMAIN since = Threads
    /\ DOMAIN unflushed = Sinks /\ output \in Sinks /\ flush \in Sinks

DateInv == LogTypes /\ (\A t \in Threads : ThreadOK(t)) /\ AbortOK

(* A thread that takes no step, with the zone unchanged.                   *)
LEMMA OtherThread ==
    ASSUME NEW u \in Threads, ThreadOK(u), zone' = zone,
           pc'[u] = pc[u], rec'[u] = rec[u], time'[u] = time[u],
           lastSecond'[u] = lastSecond[u], since'[u] = since[u]
    PROVE  ThreadOK(u)'
BY DEF ThreadOK, SinceOK, CacheOK, ReadingOK, SecondOK, RecordOK

(* The types are kept.                                                     *)
LEMMA LogTypesStep == LogTypes /\ [LogNext]_logVars => LogTypes'
<1> SUFFICES ASSUME LogTypes, [LogNext]_logVars PROVE LogTypes'
  OBVIOUS
<1>1. ASSUME NEW t \in Threads, NEW macro \in Macros, Begin(t, macro) PROVE LogTypes'
  BY <1>1 DEF Begin, global, cache, LogTypes
<1>2. ASSUME NEW t \in Threads, FormatTime(t) PROVE LogTypes'
  BY <1>2 DEF FormatTime, global, LogTypes
<1>3. ASSUME NEW t \in Threads, ToText(t) PROVE LogTypes'
  BY <1>3 DEF ToText, global, LogTypes
<1>4. ASSUME NEW t \in Threads, NEW m, NEW e, Complete(t, m, e) PROVE LogTypes'
  BY <1>4 DEF Complete, global, cache, LogTypes
<1>5. ASSUME NEW t \in Threads, Output(t) PROVE LogTypes'
  BY <1>5 DEF Output, global, cache, LogTypes
<1>6. ASSUME NEW t \in Threads, FlushAndAbort(t) PROVE LogTypes'
  BY <1>6 DEF FlushAndAbort, global, cache, LogTypes
<1>7. ASSUME NEW tz \in Zones, SetTimeZone(tz) PROVE LogTypes'
  BY <1>7 DEF SetTimeZone, LogTypes
<1>8. ASSUME NEW level \in Levels, SetLogLevel(level) PROVE LogTypes'
  BY <1>8 DEF SetLogLevel, cache, LogTypes
<1>9. ASSUME NEW o \in Sinks, NEW f \in Sinks, SetFuncs(o, f) PROVE LogTypes'
  BY <1>9 DEF SetFuncs, cache, LogTypes
<1>10. ASSUME NEW s \in Seconds, SetClock(s) PROVE LogTypes'
  BY <1>10 DEF SetClock, global, cache, LogTypes
<1>11. CASE UNCHANGED logVars
  BY <1>11 DEF logVars, LogTypes
<1> QED
  BY <1>1, <1>2, <1>3, <1>4, <1>5, <1>6, <1>7, <1>8, <1>9, <1>10, <1>11 DEF LogNext

(* Each step keeps the dates and what is said of failing assertions.       *)
LEMMA DateStep == DateInv /\ [LogNext]_logVars => DateInv'
<1> SUFFICES ASSUME DateInv, [LogNext]_logVars PROVE DateInv'
  OBVIOUS
<1>1. LogTypes /\ LogTypes' /\ AbortOK
  BY LogTypesStep DEF DateInv
<1>2. \A t \in Threads : ThreadOK(t)
  BY DEF DateInv
<1>3. ASSUME abort' = "none", \A t \in Threads : ThreadOK(t)' PROVE DateInv'
  BY <1>1, <1>3 DEF DateInv, AbortOK
<1>4. ASSUME NEW t \in Threads, NEW macro \in Macros, Begin(t, macro) PROVE DateInv'
  <2>1. ThreadOK(t)'
    <3>1. /\ pc[t] = "out" /\ pc'[t] = "format"
          /\ rec'[t] = [second |-> wallClock, macro |-> macro] /\ wallClock \in Seconds
          /\ UNCHANGED <<time, lastSecond, since, zone>>
      BY <1>1, <1>4 DEF Begin, global, cache, LogTypes
    <3> QED
      BY <1>2, <3>1 DEF ThreadOK, SinceOK, CacheOK, ReadingOK, SecondOK, RecordOK, Formatting
  <2>2. ASSUME NEW u \in Threads, u # t PROVE ThreadOK(u)'
    BY <1>1, <1>2, <1>4, <2>2, OtherThread DEF Begin, global, cache, LogTypes
  <2> QED
    BY <1>3, <1>4, <2>1, <2>2 DEF Begin, Alive
<1>5. ASSUME NEW t \in Threads, FormatTime(t) PROVE DateInv'
  <2>1. ThreadOK(t)'
    <3>1. CASE IsNewSecond(t)
      <4>1. /\ pc[t] = "format" /\ lastSecond'[t] = rec[t].second /\ since'[t] = {zone}
            /\ pc'[t] = IF zone.valid THEN "toLocalTime" ELSE "toUtcTime"
            /\ UNCHANGED <<time, rec, zone>>
        BY <1>1, <1>5, <3>1 DEF FormatTime, global, LogTypes
      <4>2. zone \in Zones /\ IsFiniteSet({zone})
        BY <1>1, FS_Singleton DEF LogTypes
      <4> QED
        BY <1>2, <4>1, <4>2
           DEF ThreadOK, SinceOK, CacheOK, ReadingOK, SecondOK, RecordOK, Formatting
    <3>2. CASE ~IsNewSecond(t)
      <4>1. /\ pc[t] = "format" /\ rec[t].second = lastSecond[t] /\ pc'[t] = "suffix"
            /\ UNCHANGED <<time, rec, zone, lastSecond, since>>
        BY <1>1, <1>5, <3>2 DEF FormatTime, IsNewSecond, global, LogTypes
      <4> QED
        BY <1>2, <4>1 DEF ThreadOK, SinceOK, CacheOK, ReadingOK, SecondOK, RecordOK, Formatting
    <3> QED
      BY <3>1, <3>2
  <2>2. ASSUME NEW u \in Threads, u # t PROVE ThreadOK(u)'
    BY <1>1, <1>2, <1>5, <2>2, OtherThread DEF FormatTime, global, LogTypes
  <2> QED
    BY <1>3, <1>5, <2>1, <2>2 DEF FormatTime, Alive
<1>6. ASSUME NEW t \in Threads, ToText(t) PROVE DateInv'
  <2>1. CASE pc[t] = "toLocalTime" /\ ~zone.valid
    <3>1. /\ abort' = "TimeZone.cc:453"
          /\ UNCHANGED <<time, pc, zone, lastSecond, rec, since>>
      BY <1>6, <2>1 DEF ToText, global
    <3>2. ASSUME NEW u \in Threads PROVE ThreadOK(u)'
      BY <1>2, <3>1, OtherThread
    <3>3. Cardinality(since[t]) > 1
      <4>1. PICK tz \in since[t] : tz.valid
        BY <1>2, <2>1 DEF ThreadOK, ReadingOK
      <4>2. tz # zone /\ zone \in since[t] /\ IsFiniteSet(since[t])
        BY <1>2, <2>1, <4>1 DEF ThreadOK, SinceOK
      <4> QED
        BY <4>1, <4>2, TwoZones
    <3>4. AbortOK'
      BY <2>1, <3>1, <3>3 DEF AbortOK
    <3> QED
      BY <1>1, <3>2, <3>4 DEF DateInv
  <2>2. CASE ~(pc[t] = "toLocalTime" /\ ~zone.valid)
    <3>1. /\ pc[t] \in Formatting /\ pc'[t] = "suffix" /\ abort' = "none"
          /\ time' = [time EXCEPT ![t] = IF pc[t] = "toLocalTime"
                                            THEN ToLocalTime(zone, rec[t].second)
                                            ELSE ToUtcTime(rec[t].second)]
          /\ pc' = [pc EXCEPT ![t] = "suffix"]
          /\ UNCHANGED <<zone, lastSecond, rec, since>>
      BY <1>1, <1>6, <2>2 DEF ToText, Alive, global, LogTypes, Formatting
    <3>2. \E tz \in since[t] : time'[t] = DateText(tz, rec[t].second)
      <4>1. CASE pc[t] = "toLocalTime"
        <5>1. zone \in since[t] /\ zone.valid
          BY <1>2, <2>2, <4>1 DEF ThreadOK, SinceOK
        <5>2. time'[t] = ToLocalTime(zone, rec[t].second)
          BY <1>1, <3>1, <4>1 DEF LogTypes
        <5> QED
          BY <5>1, <5>2 DEF DateText
      <4>2. CASE pc[t] = "toUtcTime"
        <5>1. PICK tz \in since[t] : ~tz.valid
          BY <1>2, <4>2 DEF ThreadOK, ReadingOK
        <5>2. time'[t] = ToUtcTime(rec[t].second)
          BY <1>1, <3>1, <4>2 DEF LogTypes
        <5> QED
          BY <5>1, <5>2 DEF DateText
      <4> QED
        BY <3>1, <4>1, <4>2 DEF Formatting
    <3>3. ThreadOK(t)'
      BY <1>2, <3>1, <3>2
         DEF ThreadOK, SinceOK, CacheOK, ReadingOK, SecondOK, RecordOK, Formatting
    <3>4. ASSUME NEW u \in Threads, u # t PROVE ThreadOK(u)'
      BY <1>1, <1>2, <3>1, <3>4, OtherThread DEF LogTypes
    <3> QED
      BY <1>3, <3>1, <3>3, <3>4
  <2> QED
    BY <2>1, <2>2
<1>7. ASSUME NEW t \in Threads, NEW m, NEW e, Complete(t, m, e) PROVE DateInv'
  <2>1. pc[t] = "suffix" /\ abort = "none" /\ UNCHANGED <<zone, lastSecond, time, since>>
    BY <1>7 DEF Complete, Alive, global, cache
  <2>2. CASE time[t] = Empty
    <3>1. abort' = "Log.cc:52" /\ UNCHANGED <<rec, pc>>
      BY <1>7, <2>2 DEF Complete
    <3>2. ASSUME NEW u \in Threads PROVE ThreadOK(u)'
      BY <1>2, <2>1, <3>1, OtherThread
    <3>3. rec[t].second = 0
      <4>1. rec[t].second = lastSecond[t] /\ since[t] \subseteq Zones
        BY <1>2, <2>1 DEF ThreadOK, SinceOK, SecondOK
      <4>2. ~(lastSecond[t] \in Seconds /\ \E tz \in since[t] : time[t] = DateText(tz, lastSecond[t]))
        BY <2>2, <4>1, DateTextNotEmpty
      <4>3. pc[t] \notin Formatting
        BY <2>1 DEF Formatting
      <4> QED
        BY <1>2, <4>1, <4>2, <4>3 DEF ThreadOK, CacheOK
    <3>4. AbortOK'
      BY <2>1, <2>2, <3>1, <3>3 DEF AbortOK
    <3> QED
      BY <1>1, <3>2, <3>4 DEF DateInv
  <2>3. CASE time[t] # Empty
    <3>1. /\ pc' = [pc EXCEPT ![t] = "output"] /\ abort' = abort
          /\ DOMAIN rec' = Threads /\ \A u \in Threads \ {t} : rec'[u] = rec[u]
          /\ rec'[t].second = rec[t].second /\ rec'[t].time = time[t]
          /\ rec'[t].zulu = ~zone.valid
      BY <1>1, <1>7, <2>3 DEF Complete, LogTypes
    <3>2. ThreadOK(t)'
      <4>1. pc'[t] = "output"
        BY <1>1, <3>1 DEF LogTypes
      <4>2. PICK tz \in since[t] : time[t] = DateText(tz, lastSecond[t])
        BY <1>2, <2>1, <2>3 DEF ThreadOK, CacheOK, Formatting
      <4>3. rec[t].second = lastSecond[t] /\ rec[t].second \in Seconds /\ zone \in since[t]
        BY <1>2, <2>1 DEF ThreadOK, SinceOK, SecondOK
      <4>4. RecordOK(t)'
        BY <2>1, <3>1, <4>2, <4>3 DEF RecordOK
      <4> QED
        BY <1>2, <2>1, <3>1, <4>1, <4>2, <4>3, <4>4
           DEF ThreadOK, SinceOK, CacheOK, ReadingOK, SecondOK, Formatting
    <3>3. ASSUME NEW u \in Threads, u # t PROVE ThreadOK(u)'
      BY <1>1, <1>2, <2>1, <3>1, <3>3, OtherThread DEF LogTypes
    <3> QED
      BY <1>3, <2>1, <3>1, <3>2, <3>3
  <2> QED
    BY <2>2, <2>3
<1>8. ASSUME NEW t \in Threads, Output(t) PROVE DateInv'
  <2>1. /\ pc[t] = "output" /\ pc'[t] \in {"flush", "out"}
        /\ UNCHANGED <<zone, lastSecond, time, since>> /\ abort' = "none"
    BY <1>1, <1>8 DEF Output, Alive, global, cache, LogTypes
  <2>2. ThreadOK(t)'
    BY <1>2, <2>1 DEF ThreadOK, SinceOK, CacheOK, ReadingOK, SecondOK, RecordOK, Formatting
  <2>3. ASSUME NEW u \in Threads, u # t PROVE ThreadOK(u)'
    BY <1>1, <1>2, <1>8, <2>1, <2>3, OtherThread DEF Output, LogTypes
  <2> QED
    BY <1>3, <2>1, <2>2, <2>3
<1>9. ASSUME NEW t \in Threads, FlushAndAbort(t) PROVE DateInv'
  <2>1. abort' = "FATAL" /\ UNCHANGED <<zone, lastSecond, time, since, pc, rec>>
    BY <1>9 DEF FlushAndAbort, global, cache
  <2>2. ASSUME NEW u \in Threads PROVE ThreadOK(u)'
    BY <1>2, <2>1, OtherThread
  <2> QED
    BY <1>1, <2>1, <2>2 DEF DateInv, AbortOK
<1>10. ASSUME NEW tz \in Zones, SetTimeZone(tz) PROVE DateInv'
  <2>1. /\ zone' = tz /\ \A u \in Threads : since'[u] = since[u] \cup {tz}
        /\ UNCHANGED <<lastSecond, time, pc, rec>> /\ abort' = "none"
    BY <1>10 DEF SetTimeZone, Alive
  <2>2. ASSUME NEW u \in Threads PROVE ThreadOK(u)'
    <3>1. SinceOK(u)'
      BY <1>2, <2>1, FS_AddElement DEF ThreadOK, SinceOK
    <3>2. since[u] \subseteq since'[u]
      BY <2>1
    <3> QED
      BY <1>2, <2>1, <3>1, <3>2 DEF ThreadOK, CacheOK, ReadingOK, SecondOK, RecordOK
  <2> QED
    BY <1>3, <2>1, <2>2
<1>11. ASSUME UNCHANGED <<zone, cache, pc, rec, abort>> PROVE DateInv'
  <2>1. ASSUME NEW u \in Threads PROVE ThreadOK(u)'
    BY <1>2, <1>11, OtherThread DEF cache
  <2> QED
    BY <1>1, <1>11, <2>1 DEF DateInv, AbortOK, cache
<1>12. ASSUME NEW level, SetLogLevel(level) PROVE DateInv'
  BY <1>11, <1>12 DEF SetLogLevel
<1>13. ASSUME NEW o, NEW f, SetFuncs(o, f) PROVE DateInv'
  BY <1>11, <1>13 DEF SetFuncs
<1>14. ASSUME NEW s, SetClock(s) PROVE DateInv'
  BY <1>11, <1>14 DEF SetClock, global
<1>15. CASE UNCHANGED logVars
  BY <1>11, <1>15 DEF logVars, cache
<1> QED
  BY <1>4, <1>5, <1>6, <1>7, <1>8, <1>9, <1>10, <1>12, <1>13, <1>14, <1>15 DEF LogNext

(* For any threads, zones, seconds and messages, the date of a record is   *)
(* that of its own second, and formatTime() fails an assertion only in the *)
(* first second of the Epoch or when the zone is taken away.               *)
THEOREM DatesAreCurrent == LogSpec => []DateIsOfTheSecond
<1>1. LogInit => DateInv
  <2> SUFFICES ASSUME LogInit PROVE DateInv
    OBVIOUS
  <2>1. LogTypes
    BY LogAssumption DEF LogInit, LogTypes, Sinks
  <2>2. ASSUME NEW t \in Threads PROVE ThreadOK(t)
    <3>1. /\ pc[t] = "out" /\ time[t] = Empty /\ lastSecond[t] = 0
          /\ since[t] = {zone} /\ zone \in Zones /\ IsFiniteSet({zone})
      BY LogAssumption, FS_Singleton DEF LogInit
    <3> QED
      BY <3>1 DEF ThreadOK, SinceOK, CacheOK, ReadingOK, SecondOK, RecordOK, Formatting
  <2>3. AbortOK
    BY DEF LogInit, AbortOK
  <2> QED
    BY <2>1, <2>2, <2>3 DEF DateInv
<1>2. DateInv => DateIsOfTheSecond
  BY DEF DateInv, ThreadOK, RecordOK, AbortOK, DateIsOfTheSecond, Finished
<1> QED
  BY <1>1, <1>2, DateStep, PTL DEF LogSpec
===============================================================================

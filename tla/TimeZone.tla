-------------------------------- MODULE TimeZone --------------------------------
(***************************************************************************)
(* src/base/TimeZone.cc: seconds since the Epoch, UTC and local time, and  *)
(* the tables of a zone file.  A LocalTime is its utcOffset; abbreviations *)
(* and the TZ string, which nothing reads, are left out.                   *)
(***************************************************************************)
EXTENDS Date, Numbers

KSecondsPerDay == 24 * 60 * 60

-------------------------------------------------------------------------------
(* UTC.                                                                    *)
FillHMS(seconds) ==
    [second |-> seconds % 60,
     minute |-> (seconds \div 60) % 60,
     hour   |-> (seconds \div 60) \div 60]

DateTime(ymd, hms) ==
    [year |-> ymd.year, month |-> ymd.month, day |-> ymd.day,
     hour |-> hms.hour, minute |-> hms.minute, second |-> hms.second]

BreakTime(t) ==
    LET rem == Remainder(t, KSecondsPerDay)
        quo == Quotient(t, KSecondsPerDay)
        seconds == IF rem < 0 THEN rem + KSecondsPerDay ELSE rem
        days == IF rem < 0 THEN quo - 1 ELSE quo
    IN  DateTime(GetYearMonthDay(days + KJulianDayOf1970_01_01), FillHMS(seconds))

ToUtcTime(secondsSinceEpoch) == BreakTime(secondsSinceEpoch)

FromUtcTime(dt) ==
    LET secondsInDay == dt.hour * 3600 + dt.minute * 60 + dt.second
        days == GetJulianDayNumber(dt.year, dt.month, dt.day) - KJulianDayOf1970_01_01
    IN  days * KSecondsPerDay + secondsInDay

-------------------------------------------------------------------------------
(* The tables.  A localtimeIdx counts from 0, a sequence from 1.           *)
NoData == [transitions |-> <<>>, localtimes |-> <<>>, valid |-> FALSE]

LocalTimeAt(data, idx) == data.localtimes[idx + 1]

AddTransition(data, utcTime, idx) ==
    [data EXCEPT !.transitions = Append(@, [utctime |-> utcTime,
                                            localtime |-> utcTime + LocalTimeAt(data, idx),
                                            localtimeIdx |-> idx])]

(* A block of a zone file: counters, transition times, the index of each   *)
(* one's type, the offsets of the types.  A block that is not whole ends   *)
(* before the last byte its counters promise.                              *)
BlockAccepted(b) ==
    /\ b.leapcnt = 0
    /\ b.isutccnt \in {0, Len(b.types)}
    /\ b.isstdcnt \in {0, Len(b.types)}

(* at() throws std::out_of_range, a std::logic_error.                      *)
IndicesInRange(b) == \A i \in DOMAIN b.trans : b.localtimes[i] + 1 \in DOMAIN b.types

ReadDataBlock(b) ==
    LET types == [transitions |-> <<>>, localtimes |-> b.types, valid |-> TRUE]
        add[i \in 0 .. Len(b.trans)] ==
            IF i = 0 THEN types ELSE AddTransition(add[i - 1], b.trans[i], b.localtimes[i])
    IN  IF BlockAccepted(b) /\ b.whole /\ IndicesInRange(b)
        THEN add[Len(b.trans)]
        ELSE NoData

(* Version "2" skips the first block and reads the second; every other     *)
(* version goes back to the first one's counters.                          *)
ReadTimeZoneFile(f) ==
    IF ~f.exists \/ f.head # "TZif"
    THEN NoData
    ELSE IF f.version = "2"
    THEN IF f.head2 # "TZif" THEN NoData ELSE ReadDataBlock(f.block2)
    ELSE ReadDataBlock(f.block1)

-------------------------------------------------------------------------------
(* std::upper_bound over times in order: the first place whose time is     *)
(* greater, or the end.                                                    *)
UpperBound(times, key) ==
    IF \E i \in DOMAIN times : key < times[i]
    THEN CHOOSE i \in DOMAIN times : key < times[i] /\ \A j \in 1 .. i - 1 : times[j] <= key
    ELSE Len(times) + 1

UtcTimes(data) == [i \in DOMAIN data.transitions |-> data.transitions[i].utctime]

LocalTimes(data) == [i \in DOMAIN data.transitions |-> data.transitions[i].localtime]

(* The offset a transition changes to.                                     *)
OffsetAfter(data, i) == LocalTimeAt(data, data.transitions[i].localtimeIdx)

Before(times, key) == times = <<>> \/ key < times[1]

FindLocalTime(data, utcTime) ==
    IF Before(UtcTimes(data), utcTime)
    THEN data.localtimes[1]
    ELSE OffsetAfter(data, UpperBound(UtcTimes(data), utcTime) - 1)

(* The last second before transition i, on the local clock in force then.  *)
PriorSecond(data, i) == data.transitions[i].utctime - 1 + OffsetAfter(data, i - 1)

(* Mutant: a repeated hour is not looked for.                              *)
FindByLocalTimeNoRepeat(data, localtime, postTransition) ==
    LET transI == UpperBound(LocalTimes(data), localtime)
    IN  IF Before(LocalTimes(data), localtime)
        THEN data.localtimes[1]
        ELSE IF transI > Len(data.transitions)
        THEN OffsetAfter(data, Len(data.transitions))
        ELSE IF PriorSecond(data, transI) < localtime
        THEN OffsetAfter(data, IF postTransition THEN transI ELSE transI - 1)
        ELSE OffsetAfter(data, transI - 1)

(* findLocalTime() by local time.  Between row transI - 1 and row transI   *)
(* the time is skipped, repeated or unique; the first row has no row       *)
(* before it to repeat, and keeps the second of the row after it.          *)
FindByLocalTime(data, localtime, postTransition) ==
    LET transI == UpperBound(LocalTimes(data), localtime)
        skip == PriorSecond(data, transI) < localtime
        repeat == transI > 2 /\ localtime <= PriorSecond(data, transI - 1)
    IN  IF Before(LocalTimes(data), localtime)
        THEN data.localtimes[1]
        ELSE IF transI > Len(data.transitions)
        THEN OffsetAfter(data, Len(data.transitions))
        ELSE IF skip
        THEN OffsetAfter(data, IF postTransition THEN transI ELSE transI - 1)
        ELSE IF repeat
        THEN OffsetAfter(data, IF postTransition THEN transI - 1 ELSE transI - 2)
        ELSE OffsetAfter(data, transI - 1)

ToLocalTime(data, seconds) == BreakTime(seconds + FindLocalTime(data, seconds))

FromLocalTime(data, dt, postTransition) ==
    FromUtcTime(dt) - FindByLocalTime(data, FromUtcTime(dt), postTransition)

===============================================================================

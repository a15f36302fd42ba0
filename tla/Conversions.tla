------------------------------- MODULE Conversions ------------------------------
(***************************************************************************)
(* The conversions of Date and TimeZone against a calendar that is turned  *)
(* page by page, and against the set of instants a local clock shows the   *)
(* same time at; those of LogStream against reading the number back.  The  *)
(* state is a walk over the inputs: over the days, or, once a zone file    *)
(* has been loaded, over the seconds of a local clock, or to a number.     *)
(***************************************************************************)
EXTENDS TimeZone, FiniteSets

CONSTANTS
    LastYear,     \* bound: the last year of the walk over days
    SecondsOfDay, \* the times of day looked at on each day
    TransTimes,   \* transition times, in order, far apart
    Offsets,      \* offsets of the types
    Horizon,      \* bound: the walk over seconds goes from -Horizon to Horizon
    Numbers32     \* the numbers that are written

ASSUME ConversionsAssumption ==
    /\ LastYear \in Nat
    /\ SecondsOfDay \subseteq 0 .. KSecondsPerDay - 1
    /\ Horizon \in Nat
    /\ \A i \in 1 .. Len(TransTimes) - 1 :
           \A o, p \in Offsets : TransTimes[i] + 2 * (o - p) < TransTimes[i + 1]

VARIABLES
    page,         \* the civil date and day of the week
    julian,       \* its Julian day number
    zone,         \* TimeZone::data_
    seconds,      \* a reading of the local clock, as seconds since the Epoch
    number        \* a number that is written

vars == <<page, julian, zone, seconds, number>>

-------------------------------------------------------------------------------
(* The Gregorian calendar.                                                 *)
IsLeap(y) == y % 4 = 0 /\ (y % 100 = 0 => y % 400 = 0)

MonthLength(y, m) ==
    CASE m \in {4, 6, 9, 11} -> 30
      [] m = 2 -> IF IsLeap(y) THEN 29 ELSE 28
      [] OTHER -> 31

(* Monday, 1 January 1900, and its number in astronomers' tables; the      *)
(* number of 1 January 1970 in them.                                       *)
FirstPage == [year |-> 1900, month |-> 1, day |-> 1, weekDay |-> 1]
FirstJulian == 2415021
EpochJulian == 2440588

NextPage(p) ==
    LET lastDay == p.day = MonthLength(p.year, p.month)
        lastMonth == lastDay /\ p.month = 12
    IN  [year    |-> IF lastMonth THEN p.year + 1 ELSE p.year,
         month   |-> IF lastMonth THEN 1 ELSE IF lastDay THEN p.month + 1 ELSE p.month,
         day     |-> IF lastDay THEN 1 ELSE p.day + 1,
         weekDay |-> (p.weekDay + 1) % 7]

-------------------------------------------------------------------------------
(* Zone files: blocks with up to all of TransTimes, with an index that may *)
(* be out of range, counters that fit or do not, whole or cut off.         *)
TypeIdx == 0 .. 2

Blocks ==
    UNION {[trans : {SubSeq(TransTimes, 1, n)}, localtimes : [1 .. n -> TypeIdx],
            types : [1 .. 2 -> Offsets], leapcnt : {0, 1}, isutccnt : 0 .. 2,
            isstdcnt : {0, 2}, whole : BOOLEAN] : n \in 0 .. Len(TransTimes)}

OtherBlock == [trans |-> <<>>, localtimes |-> <<>>, types |-> <<0>>, leapcnt |-> 0,
               isutccnt |-> 0, isstdcnt |-> 0, whole |-> TRUE]

File(version, head, block1, block2) ==
    [exists |-> TRUE, version |-> version, head |-> head, head2 |-> head,
     block1 |-> block1, block2 |-> block2]

Files ==
    {File("1", "TZif", b, OtherBlock) : b \in Blocks}
        \cup {File("2", "TZif", OtherBlock, b) : b \in Blocks}
        \cup {File("1", "junk", OtherBlock, OtherBlock),
               [File("2", "TZif", OtherBlock, OtherBlock) EXCEPT !.head2 = "junk"],
               [File("1", "TZif", OtherBlock, OtherBlock) EXCEPT !.exists = FALSE]}

-------------------------------------------------------------------------------
Init ==
    /\ page = FirstPage
    /\ julian = FirstJulian
    /\ zone = NoData
    /\ seconds = -Horizon
    /\ number = 0

TurnPage ==
    /\ ~zone.valid /\ number = 0
    /\ page.year <= LastYear
    /\ page' = NextPage(page)
    /\ julian' = julian + 1
    /\ UNCHANGED <<zone, seconds, number>>

LoadZoneFile ==
    /\ page = FirstPage
    /\ ~zone.valid /\ number = 0
    /\ \E f \in Files : zone' = ReadTimeZoneFile(f)
    /\ UNCHANGED <<page, julian, seconds, number>>

Second ==
    /\ zone.valid
    /\ seconds < Horizon
    /\ seconds' = seconds + 1
    /\ UNCHANGED <<page, julian, zone, number>>

WriteNumber ==
    /\ page = FirstPage
    /\ ~zone.valid /\ number = 0
    /\ number' \in Numbers32
    /\ UNCHANGED <<page, julian, zone, seconds>>

Next == TurnPage \/ LoadZoneFile \/ Second \/ WriteNumber

Spec == Init /\ [][Next]_vars

-------------------------------------------------------------------------------
(* Days whose seconds fit 32 bits, as many as TLC's integers have.         *)
InReach == julian - EpochJulian \in -24854 .. 24853

(* Date and TimeZone agree with the calendar on every day, before and after *)
(* the Epoch: the Julian day number and its inverse, the day of the week,  *)
(* and UTC date and time to seconds and back.                              *)
DatesAreCivil ==
    /\ GetJulianDayNumber(page.year, page.month, page.day) = julian
    /\ GetYearMonthDay(julian) = [year |-> page.year, month |-> page.month, day |-> page.day]
    /\ WeekDay(julian) = page.weekDay
    /\ InReach => \A s \in SecondsOfDay :
           LET t == (julian - EpochJulian) * KSecondsPerDay + s
               dt == [year |-> page.year, month |-> page.month, day |-> page.day,
                      hour |-> s \div 3600, minute |-> (s % 3600) \div 60, second |-> s % 60]
           IN  ToUtcTime(t) = dt /\ FromUtcTime(dt) = t

-------------------------------------------------------------------------------
(* The offset in force at an instant: that of the last transition so far,  *)
(* or the first type of the file.                                          *)
Past(u) == {i \in DOMAIN zone.transitions : zone.transitions[i].utctime <= u}

InForce(u) ==
    IF Past(u) = {}
    THEN zone.localtimes[1]
    ELSE LET last == CHOOSE i \in Past(u) : \A j \in Past(u) : j <= i
         IN  zone.localtimes[zone.transitions[last].localtimeIdx + 1]

(* The instants at which the local clock shows l.                          *)
Instants(l) == {l - o : o \in {p \in Offsets \cup {0} : l - p + InForce(l - p) = l}}

(* Transition i makes the local clock show l twice, or skip it.            *)
RepeatedBy(i, l) ==
    LET u == zone.transitions[i].utctime
    IN  u + InForce(u) <= l /\ l < u + InForce(u - 1)

SkippedBy(i, l) ==
    LET u == zone.transitions[i].utctime
    IN  u + InForce(u - 1) <= l /\ l < u + InForce(u)

(* A repeat is found between two rows of the table, a skip after one: the  *)
(* first and the last row are the limits of findLocalTime().               *)
InTable(l) ==
    \A i \in DOMAIN zone.transitions :
        /\ i \in {1, Len(zone.transitions)} => ~RepeatedBy(i, l)
        /\ i = 1 => ~SkippedBy(i, l)

(* The transitions of a loaded zone name types it has.                     *)
ZoneUsable == \A i \in DOMAIN zone.transitions :
                  zone.transitions[i].localtimeIdx + 1 \in DOMAIN zone.localtimes

(* A loaded zone can be used, toLocalTime() shows at an instant what the   *)
(* clock of the zone shows, and fromLocalTime() returns the instant of a   *)
(* reading of it: the only one; of two, the earlier without postTransition *)
(* and the later with it; of none, by the clock before or after the skip.  *)
LocalTimeInverse ==
    zone.valid =>
        /\ ZoneUsable
        /\ ToLocalTime(zone, seconds) = BreakTime(seconds + InForce(seconds))
        /\ InTable(seconds) =>
           \A post \in BOOLEAN :
             LET u == FromLocalTime(zone, BreakTime(seconds), post)
                 S == Instants(seconds)
             IN  IF S # {}
                 THEN u \in S /\ \A v \in S : IF post THEN v <= u ELSE u <= v
                 ELSE \E i \in DOMAIN zone.transitions :
                        /\ SkippedBy(i, seconds)
                        /\ u = seconds - InForce(zone.transitions[i].utctime
                                                   - (IF post THEN 0 ELSE 1))

-------------------------------------------------------------------------------
(* The number a sequence of digits stands for; a negative one is built     *)
(* downwards, as its opposite may not exist.                               *)
ReadBack(chars, base) ==
    IF chars[1] = Minus
    THEN FoldLeft(LAMBDA v, d : v * base - d, 0, Tail(chars))
    ELSE FoldLeft(LAMBDA v, d : v * base + d, 0, chars)

NoLeadingZero(digits) == digits[1] = 0 => Len(digits) = 1

(* The characters of a printed quantity: at least one digit before the     *)
(* point, the point, the unit.                                             *)
Width(p) ==
    LET len == Len(Convert(p.number))
    IN  (IF len > p.decimals THEN len ELSE p.decimals + 1)
            + (IF p.decimals > 0 THEN 1 ELSE 0) + p.unitLen

(* convert() and convertHex() write the number they are given, the least   *)
(* integer included, within the 48 bytes formatInteger() asks for;         *)
(* formatSI() and formatIEC() keep to the 5 and 6 characters LogStream.h   *)
(* promises, on both sides of every bound and however ties are rounded.    *)
NumbersReadable ==
    LET chars == Convert(number)
    IN  /\ ReadBack(chars, 10) = number /\ Len(chars) <= 11
        /\ NoLeadingZero(IF number < 0 THEN Tail(chars) ELSE chars)
        /\ number >= 0 =>
               ReadBack(ConvertHex(number), 16) = number /\ NoLeadingZero(ConvertHex(number))
        /\ number \in 0 .. 999499999 => \A p \in FormatSI(number) : Width(p) <= 5
        /\ number \in 0 .. 1073217535 => \A p \in FormatIEC(number) : Width(p) <= 6

===============================================================================

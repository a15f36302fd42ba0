---------------------------------- MODULE Date ----------------------------------
(***************************************************************************)
(* The calendar of src/base/Date.cc: a date and its Julian day number, for *)
(* the years [1900 .. 2500] Date.h names.  All operands are positive there, *)
(* so that C++'s division is \div.                                         *)
(***************************************************************************)
EXTENDS Integers

(* Mutant: only January is counted as a month of the year before.          *)
GetJulianDayNumberJanuary(year, month, day) ==
    LET a == (13 - month) \div 12
        y == year + 4800 - a
        m == month + 12 * a - 3
    IN  day + (153 * m + 2) \div 5 + y * 365
            + y \div 4 - y \div 100 + y \div 400 - 32045

GetJulianDayNumber(year, month, day) ==
    LET a == (14 - month) \div 12     \* 1 in January and February
        y == year + 4800 - a          \* years begin in March
        m == month + 12 * a - 3
    IN  day + (153 * m + 2) \div 5 + y * 365
            + y \div 4 - y \div 100 + y \div 400 - 32045

GetYearMonthDay(julianDayNumber) ==
    LET a == julianDayNumber + 32044
        b == (4 * a + 3) \div 146097
        c == a - (b * 146097) \div 4
        d == (4 * c + 3) \div 1461
        e == c - (1461 * d) \div 4
        m == (5 * e + 2) \div 153
    IN  [year  |-> b * 100 + d - 4800 + m \div 10,
         month |-> m + 3 - 12 * (m \div 10),
         day   |-> e - (153 * m + 2) \div 5 + 1]

KJulianDayOf1970_01_01 == GetJulianDayNumber(1970, 1, 1)

KDaysPerWeek == 7

(* 0 is Sunday.                                                            *)
WeekDay(julianDayNumber) == (julianDayNumber + 1) % KDaysPerWeek

===============================================================================

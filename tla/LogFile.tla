------------------------------- MODULE LogFile --------------------------------
(***************************************************************************)
(* LogFile and AppendFile (src/src/base/LogFile.cc, FileUnit.cc): lines    *)
(* are appended to a file that is replaced when it is too large or a new   *)
(* day has begun, and flushed from time to time.  Both conditions of time  *)
(* are looked at only once in CheckEveryN lines.                           *)
(*                                                                         *)
(* A call holds m_mutex, or belongs to the only thread that uses the file, *)
(* and is one step.  Times are seconds of the wall clock, which may be set *)
(* back.                                                                   *)
(***************************************************************************)
EXTENDS Integers

CONSTANTS
    RollSize,        \* m_rollSize
    FlushInterval,   \* m_flushInterVal
    CheckEveryN,     \* m_checkEveryN
    KRollPerSeconds, \* the length of a day
    LineLens,        \* the lengths of lines
    MaxTime,         \* bound: the clock stops here
    MaxLines,        \* bound: number of append() calls
    MaxJumps         \* bound: how often the clock is set back

ASSUME LogFileAssumption ==
    /\ RollSize \in Nat /\ FlushInterval \in Nat
    /\ MaxTime \in Nat \ {0}
    /\ MaxLines \in Nat /\ MaxJumps \in Nat
    /\ CheckEveryN \in Nat \ {0}
    /\ KRollPerSeconds \in Nat \ {0}
    /\ LineLens \subseteq Nat

VARIABLES
    now,            \* time(NULL)
    jumps,          \* how often the clock was set back
    written,        \* m_file->writtenBytes()
    count,          \* m_count
    startOfPeriod,  \* m_startOfPeriod, as the number of a day
    lastRoll,       \* m_lastRoll; the open file is named after it
    lastFlush,      \* m_lastFlush
    threadSafe,     \* m_threadSafe
    stuck,          \* the caller waits for the mutex it holds
    numLines,       \* number of append() calls
    lateDay,        \* lines in the open file from days after its own
    lateFlush       \* lines appended when a flush was overdue, not flushed

vars == <<now, jumps, written, count, startOfPeriod, lastRoll, lastFlush,
          threadSafe, stuck, numLines, lateDay, lateFlush>>

clock == <<now, jumps>>

Time == 0 .. MaxTime

DayOf(t) == t \div KRollPerSeconds

TypeOK ==
    /\ now \in Time \ {0}
    /\ jumps \in 0 .. MaxJumps
    /\ written \in Nat
    /\ count \in 0 .. CheckEveryN - 1
    /\ startOfPeriod \in {DayOf(t) : t \in Time}
    /\ lastRoll \in Time
    /\ lastFlush \in Time
    /\ threadSafe \in BOOLEAN
    /\ stuck \in BOOLEAN
    /\ numLines \in 0 .. MaxLines
    /\ lateDay \in Nat
    /\ lateFlush \in Nat

(* The constructor ends with rollFile(), long after second 0.  It does not *)
(* initialize m_threadSafe.                                                *)
Init ==
    /\ now = 1
    /\ jumps = 0
    /\ written = 0
    /\ count = 0
    /\ startOfPeriod = DayOf(1)
    /\ lastRoll = 1
    /\ lastFlush = 1
    /\ threadSafe \in BOOLEAN
    /\ stuck = FALSE
    /\ numLines = 0
    /\ lateDay = 0
    /\ lateFlush = 0

-------------------------------------------------------------------------------
(* The lines that are late once the call has appended one.                 *)
LateDay == IF DayOf(now) > startOfPeriod THEN lateDay + 1 ELSE lateDay

LateFlush == IF now - lastFlush > FlushInterval THEN lateFlush + 1 ELSE lateFlush

(* What a call leaves when it neither rolls nor flushes.                   *)
Keeps(bytes) ==
    /\ written' = bytes
    /\ lateDay' = LateDay
    /\ lateFlush' = LateFlush
    /\ UNCHANGED <<startOfPeriod, lastRoll, lastFlush, stuck>>

(* Mutant: rollFile() forgets the day of the new file.                     *)
RollFileKeepsDay(bytes) ==
    IF now > lastRoll
        THEN /\ lastRoll' = now
             /\ lastFlush' = now
             /\ written' = 0
             /\ lateDay' = 0
             /\ lateFlush' = 0
             /\ UNCHANGED <<startOfPeriod, stuck>>
        ELSE Keeps(bytes)

(* rollFile(): a new file, and the old one is closed, unless this second   *)
(* has had its file already.                                               *)
RollFile(bytes) ==
    IF now > lastRoll
        THEN /\ lastRoll' = now
             /\ lastFlush' = now
             /\ startOfPeriod' = DayOf(now)
             /\ written' = 0
             /\ lateDay' = 0
             /\ lateFlush' = 0
             /\ UNCHANGED stuck
        ELSE Keeps(bytes)

(* flush() from within append(): m_mutex is not recursive.                 *)
FlushInAppend(bytes) ==
    /\ written' = bytes
    /\ lastFlush' = now
    /\ stuck' = threadSafe
    /\ lateDay' = LateDay
    /\ lateFlush' = IF threadSafe THEN LateFlush ELSE 0
    /\ UNCHANGED <<startOfPeriod, lastRoll>>

(* The line is the one that makes append() look at the clock.              *)
CheckDue == count + 1 >= CheckEveryN

(* Mutant: a file that is too large is not replaced.                       *)
AppendSkipsCheck(bytes) ==
    IF bytes > RollSize
        THEN Keeps(bytes) /\ UNCHANGED count
        ELSE IF ~CheckDue
             THEN count' = count + 1 /\ Keeps(bytes)
             ELSE /\ count' = 0
                  /\ IF DayOf(now) # startOfPeriod THEN RollFile(bytes)
                     ELSE IF now - lastFlush > FlushInterval THEN FlushInAppend(bytes)
                     ELSE Keeps(bytes)

(* appendFileUnlock() once the file has the given number of bytes.         *)
AppendFileUnlock(bytes) ==
    IF bytes > RollSize
        THEN RollFile(bytes) /\ UNCHANGED count
        ELSE IF ~CheckDue
             THEN count' = count + 1 /\ Keeps(bytes)
             ELSE /\ count' = 0
                  /\ IF DayOf(now) # startOfPeriod THEN RollFile(bytes)
                     ELSE IF now - lastFlush > FlushInterval THEN FlushInAppend(bytes)
                     ELSE Keeps(bytes)

(* AppendFile::append(): how many bytes of a line are written; an error    *)
(* leaves the rest out.                                                    *)
WrittenOf(len) == 0 .. len

(* append().                                                               *)
AppendLine(len) ==
    /\ ~stuck
    /\ numLines < MaxLines
    /\ numLines' = numLines + 1
    /\ \E k \in WrittenOf(len) : AppendFileUnlock(written + k)
    /\ UNCHANGED <<clock, threadSafe>>

(* flush() from outside; it does not note the time.                        *)
Flush ==
    /\ ~stuck
    /\ lateFlush' = 0
    /\ UNCHANGED <<clock, written, count, startOfPeriod, lastRoll, lastFlush,
                   threadSafe, stuck, numLines, lateDay>>

Tick ==
    /\ now < MaxTime
    /\ now' = now + 1
    /\ UNCHANGED <<jumps, written, count, startOfPeriod, lastRoll, lastFlush,
                   threadSafe, stuck, numLines, lateDay, lateFlush>>

SetClockBack ==
    /\ jumps < MaxJumps
    /\ now > 1
    /\ now' = now - 1
    /\ jumps' = jumps + 1
    /\ UNCHANGED <<written, count, startOfPeriod, lastRoll, lastFlush, threadSafe,
                   stuck, numLines, lateDay, lateFlush>>

Next ==
    \/ \E len \in LineLens : AppendLine(len)
    \/ Flush
    \/ Tick
    \/ SetClockBack

Spec == Init /\ [][Next]_vars

-------------------------------------------------------------------------------
(* Properties.                                                             *)

(* As long as the clock is not set back, a file takes fewer than           *)
(* CheckEveryN lines from later days before it is replaced, however its    *)
(* size, the flushes and the calls go.  The state has its types, so the    *)
(* count of lines stays below CheckEveryN.                                 *)
NewDayNewFile == TypeOK /\ (jumps = 0 => lateDay < CheckEveryN)

(* As long as the clock is not set back, fewer than CheckEveryN lines are  *)
(* appended while a flush is overdue, unless the flush itself is stuck:    *)
(* every path that skips the count replaces the file, which flushes the    *)
(* old one.                                                                *)
OverdueFlushBounded == (jumps = 0 /\ ~stuck) => lateFlush < CheckEveryN

(* A file goes on growing past m_rollSize only within the second of its    *)
(* creation, whose name is taken, or while the clock is behind that        *)
(* second.                                                                 *)
OversizeOnlyInRollSecond ==
    [][(written' > RollSize /\ numLines' # numLines) => now <= lastRoll]_vars
===============================================================================

---------------------------------- MODULE Log -----------------------------------
(***************************************************************************)
(* Log and LogStream (src/src/base): a thread that logs builds a record in *)
(* a FixedBuffer of its own and hands it to g_output; for FATAL it calls   *)
(* g_flush and ends the process.  The date of a record is cached for its   *)
(* second in thread_local variables, while another thread may set the time *)
(* zone and the clock may be set; every read of g_timeZone is a step.      *)
(*                                                                         *)
(* A record is the sequence of the pieces its buffer took; a piece is its  *)
(* name and its length.  What a thread does to its own record between two  *)
(* reads of global variables is one step.                                  *)
(***************************************************************************)
EXTENDS TimeZone, SequencesExt

CONSTANTS
    Threads,     \* threads that log
    Zones,       \* the zones setTimeZone() gets; NoData is a TimeZone()
    Seconds,     \* bound: the readings of the clock, as seconds since the Epoch
    Macros,      \* the macros that are used
    Messages,    \* what is streamed into a record, as sequences of pieces
    Levels,      \* what setLogLevel() gets
    SIZE         \* KSmallBuffer

VARIABLES
    wallClock,   \* the clock
    zone,        \* g_timeZone
    logLevel,    \* g_logLevel
    output,      \* the sink of g_output
    flush,       \* the sink of g_flush
    lastSecond,  \* t_lastSecond
    time,        \* t_time
    pc,          \* where each thread is in its record
    rec,         \* its Log object
    since,       \* the values g_timeZone had since t_time was written
    unflushed,   \* for each sink, the threads whose last record is in its buffer
    abort        \* what ended the process, or "none"

logVars == <<wallClock, zone, logLevel, output, flush, lastSecond, time, pc, rec,
             since, unflushed, abort>>

global == <<zone, logLevel, output, flush>>

cache == <<lastSecond, time, since>>

-------------------------------------------------------------------------------
Rank == [TRACE |-> 0, DEBUG |-> 1, INFO |-> 2, WARN |-> 3, ERROR |-> 4, FATAL |-> 5]

LevelOf == [LOG_TRACE |-> "TRACE", LOG_DEBUG |-> "DEBUG", LOG_INFO |-> "INFO",
            LOG_WARN |-> "WARN", LOG_ERROR |-> "ERROR", LOG_FATAL |-> "FATAL",
            LOG_SYSERR |-> "ERROR", LOG_SYSFATAL |-> "FATAL"]

(* g_logLevel is consulted for the first three levels only.                *)
Passes(macro) == macro \in {"LOG_TRACE", "LOG_DEBUG", "LOG_INFO"} =>
                     Rank[logLevel] <= Rank[LevelOf[macro]]

Sinks == {"stdout", "AsyncLog"}

Empty == DateTime([year |-> 0, month |-> 0, day |-> 0], FillHMS(0))

NoRecord == [second |-> 0, macro |-> "none"]

(* A zone that has data has a local time for every second.                 *)
ASSUME LogAssumption ==
    /\ Seconds \subseteq Nat
    /\ NoData \in Zones
    /\ \A tz \in Zones, s \in Seconds : tz.valid => FindLocalTime(tz, s) \in Int
    /\ Macros \subseteq DOMAIN LevelOf
    /\ Levels \subseteq DOMAIN Rank
    /\ SIZE \in Nat

(* initLogLevel() reads the environment; t_lastSecond starts at zero, with *)
(* no text.                                                                *)
LogInit ==
    /\ wallClock \in Seconds
    /\ zone = NoData
    /\ logLevel \in {"TRACE", "DEBUG", "INFO"} \cap Levels
    /\ output = "stdout"
    /\ flush = "stdout"
    /\ lastSecond = [t \in Threads |-> 0]
    /\ time = [t \in Threads |-> Empty]
    /\ pc = [t \in Threads |-> "out"]
    /\ rec = [t \in Threads |-> NoRecord]
    /\ since = [t \in Threads |-> {zone}]
    /\ unflushed = [s \in Sinks |-> {}]
    /\ abort = "none"

Alive == abort = "none"

-------------------------------------------------------------------------------
(* LogStream.                                                              *)

Text(what, len) == [what |-> what, len |-> len, number |-> FALSE]

Number(what, len) == [what |-> what, len |-> len, number |-> TRUE]

KMaxNumericSize == 48

Used(buffer) == FoldLeft(LAMBDA sum, p : sum + p.len, 0, buffer)

Avail(buffer) == SIZE - Used(buffer)

(* Mutant: a text that fills the buffer to the last byte is taken.         *)
TakesFull(buffer, piece) ==
    IF piece.number THEN Avail(buffer) >= KMaxNumericSize ELSE Avail(buffer) >= piece.len

(* FixedBuffer::append() takes a text as a whole or not at all; a number   *)
(* is formatted only when any number would fit.                            *)
Takes(buffer, piece) ==
    IF piece.number THEN Avail(buffer) >= KMaxNumericSize ELSE Avail(buffer) > piece.len

Stream(pieces) ==
    FoldLeft(LAMBDA buffer, p : IF Takes(buffer, p) THEN Append(buffer, p) ELSE buffer,
             <<>>, pieces)

(* What Impl's constructor streams after the time.                         *)
Header(zulu) == <<Text("time", 17), Text("micros", IF zulu THEN 9 ELSE 8),
                  Text("tid", 5), Text("level", 6)>>

Errno == <<Text("strerror", 17), Text("(errno = ", 9), Number("errno", 2), Text(")", 1)>>

Func(macro) == IF macro \in {"LOG_TRACE", "LOG_DEBUG"}
                  THEN <<Text("func", 4), Text(" ", 1)>> ELSE <<>>

Finish == <<Text(" - ", 3), Text("file", 8), Text(":", 1), Number("line", 2),
            Text("newline", 1)>>

-------------------------------------------------------------------------------
(* A record.                                                               *)

(* The macro, and m_time(TimeStamp::now()).                                *)
Begin(t, macro) ==
    /\ Alive /\ pc[t] = "out"
    /\ Passes(macro)
    /\ rec' = [rec EXCEPT ![t] = [second |-> wallClock, macro |-> macro]]
    /\ pc' = [pc EXCEPT ![t] = "format"]
    /\ unflushed' = [s \in Sinks |-> unflushed[s] \ {t}]
    /\ UNCHANGED <<wallClock, global, cache, abort>>

(* Mutant: only a later second is formatted anew.                          *)
IsNewSecondLater(t) == rec[t].second > lastSecond[t]

IsNewSecond(t) == rec[t].second # lastSecond[t]

(* formatTime(), to the first g_timeZone.valid().                          *)
FormatTime(t) ==
    /\ Alive /\ pc[t] = "format"
    /\ \/ /\ IsNewSecond(t)
          /\ lastSecond' = [lastSecond EXCEPT ![t] = rec[t].second]
          /\ since' = [since EXCEPT ![t] = {zone}]
          /\ pc' = [pc EXCEPT ![t] = IF zone.valid THEN "toLocalTime" ELSE "toUtcTime"]
       \/ /\ ~IsNewSecond(t)
          /\ pc' = [pc EXCEPT ![t] = "suffix"]
          /\ UNCHANGED <<lastSecond, since>>
    /\ UNCHANGED <<wallClock, global, time, rec, unflushed, abort>>

(* toLocalTime() reads g_timeZone again and asserts that it has data.      *)
ToText(t) ==
    /\ Alive /\ pc[t] \in {"toLocalTime", "toUtcTime"}
    /\ IF pc[t] = "toLocalTime" /\ ~zone.valid
          THEN abort' = "TimeZone.cc:453" /\ UNCHANGED <<time, pc>>
          ELSE /\ time' = [time EXCEPT ![t] = IF pc[t] = "toLocalTime"
                                                 THEN ToLocalTime(zone, rec[t].second)
                                                 ELSE ToUtcTime(rec[t].second)]
               /\ pc' = [pc EXCEPT ![t] = "suffix"]
               /\ UNCHANGED abort
    /\ UNCHANGED <<wallClock, global, lastSecond, rec, since, unflushed>>

(* The last g_timeZone.valid(), and with it the rest of the constructors,  *)
(* the message and finish().  T's constructor asserts that t_time has 17   *)
(* characters.                                                             *)
Complete(t, message, errno) ==
    LET zulu   == ~zone.valid
        pieces == Header(zulu) \o errno \o Func(rec[t].macro) \o message \o Finish
    IN  /\ Alive /\ pc[t] = "suffix"
        /\ errno = Errno => rec[t].macro \in {"LOG_SYSERR", "LOG_SYSFATAL"}
        /\ IF time[t] = Empty
              THEN abort' = "Log.cc:52" /\ UNCHANGED <<rec, pc>>
              ELSE /\ rec' = [rec EXCEPT ![t] = [second |-> @.second, macro |-> @.macro,
                                                 time |-> time[t], zulu |-> zulu,
                                                 streamed |-> pieces, buffer |-> Stream(pieces)]]
                   /\ pc' = [pc EXCEPT ![t] = "output"]
                   /\ UNCHANGED abort
        /\ UNCHANGED <<wallClock, global, cache, unflushed>>

(* ~Log() calls g_output; a record that is not FATAL ends here.            *)
Output(t) ==
    /\ Alive /\ pc[t] = "output"
    /\ unflushed' = [unflushed EXCEPT ![output] = @ \cup {t}]
    /\ \/ /\ LevelOf[rec[t].macro] = "FATAL"
          /\ pc' = [pc EXCEPT ![t] = "flush"]
          /\ rec' = [rec EXCEPT ![t] = [sink |-> output]]
       \/ /\ LevelOf[rec[t].macro] # "FATAL"
          /\ pc' = [pc EXCEPT ![t] = "out"]
          /\ rec' = [rec EXCEPT ![t] = NoRecord]
    /\ UNCHANGED <<wallClock, global, cache, abort>>

(* g_flush may be of another sink than the one the record went to.         *)
FlushAndAbort(t) ==
    /\ Alive /\ pc[t] = "flush"
    /\ unflushed' = [unflushed EXCEPT ![flush] = {}]
    /\ abort' = "FATAL"
    /\ UNCHANGED <<wallClock, global, cache, pc, rec>>

-------------------------------------------------------------------------------
(* The other threads, and the clock.                                       *)

SetTimeZone(tz) ==
    /\ Alive
    /\ zone' = tz
    /\ since' = [t \in Threads |-> since[t] \cup {tz}]
    /\ UNCHANGED <<wallClock, logLevel, output, flush, lastSecond, time, pc, rec,
                   unflushed, abort>>

SetLogLevel(level) ==
    /\ Alive
    /\ logLevel' = level
    /\ UNCHANGED <<wallClock, zone, output, flush, cache, pc, rec, unflushed, abort>>

SetFuncs(out, fl) ==
    /\ Alive
    /\ out = output \/ fl = flush
    /\ output' = out
    /\ flush' = fl
    /\ UNCHANGED <<wallClock, zone, logLevel, cache, pc, rec, unflushed, abort>>

SetClock(second) ==
    /\ Alive
    /\ wallClock' = second
    /\ UNCHANGED <<global, cache, pc, rec, unflushed, abort>>

LogNext ==
    \/ \E t \in Threads :
           \/ \E macro \in Macros : Begin(t, macro)
           \/ FormatTime(t) \/ ToText(t) \/ Output(t) \/ FlushAndAbort(t)
           \/ \E m \in Messages, e \in {<<>>, Errno} : Complete(t, m, e)
    \/ \E tz \in Zones : SetTimeZone(tz)
    \/ \E level \in Levels : SetLogLevel(level)
    \/ \E o, f \in Sinks : SetFuncs(o, f)
    \/ \E s \in Seconds : SetClock(s)

LogSpec == LogInit /\ [][LogNext]_logVars

-------------------------------------------------------------------------------
(* Properties.                                                             *)

DateText(tz, second) == IF tz.valid THEN ToLocalTime(tz, second) ELSE ToUtcTime(second)

Finished == {t \in Threads : pc[t] = "output"}

(* The date of a record is that of its own second, in a zone that was set  *)
(* since its thread entered that second, however the clock was set before; *)
(* with no setTimeZone() since then the date and the Z after it are of the *)
(* same zone, the one that is set.  formatTime() fails an assertion only   *)
(* in the first second of the Epoch, or when the zone is taken away.       *)
DateIsOfTheSecond ==
    /\ \A t \in Finished :
           \E tz, tz2 \in since[t] :
               /\ rec[t].time = DateText(tz, rec[t].second)
               /\ rec[t].zulu = ~tz2.valid
    /\ abort = "Log.cc:52" =>
           \E t \in Threads : pc[t] = "suffix" /\ time[t] = Empty /\ rec[t].second = 0
    /\ abort = "TimeZone.cc:453" =>
           \E t \in Threads : pc[t] = "toLocalTime" /\ Cardinality(since[t]) > 1

(* A record keeps within its buffer, begins with its whole header, loses   *)
(* nothing while the text leaves room for a number, and ends with its line *)
(* end unless it has filled the buffer but for one byte, so that the next  *)
(* record does not begin in its line.                                      *)
RecordWhole ==
    \A t \in Finished :
        LET b == rec[t].buffer
        IN  /\ Used(b) < SIZE
            /\ SubSeq(b, 1, 4) = Header(rec[t].zulu)
            /\ Used(rec[t].streamed) <= SIZE - KMaxNumericSize => b = rec[t].streamed
            /\ Last(b).what = "newline" \/ Used(b) = SIZE - 1

===============================================================================

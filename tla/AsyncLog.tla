------------------------------- MODULE AsyncLog -------------------------------
(***************************************************************************)
(* The asynchronous logger (src/src/base/AsyncLog.h, AsyncLog.cc): any     *)
(* number of threads append() lines to the current buffer under m_mux; one *)
(* backend thread swaps the filled buffers out, writes them to the file    *)
(* and gives two of them back.                                             *)
(*                                                                         *)
(* A unique_ptr<Buffer> is a sequence of at most one buffer, so a moved-   *)
(* from pointer is <<>> and moving a pointer into a vector is \o.          *)
(***************************************************************************)
EXTENDS Naturals, Sequences

CONSTANTS
    BufferSize,   \* KLargeBuffer, in units of the smallest line
    LineLens,     \* the lengths of lines
    MaxBuffers,   \* a batch of more buffers is cut down (25 in the code)
    MaxLines      \* bound: number of append() calls

(* Log hands over at most KSmallBuffer - 1 bytes, less than KLargeBuffer.  *)
ASSUME AsyncLogAssumption ==
    /\ BufferSize \in Nat
    /\ LineLens \subseteq 1 .. BufferSize - 1
    /\ MaxBuffers \in Nat \ {0, 1}
    /\ MaxLines \in Nat

VARIABLES
    isRunning,   \* m_isRunning
    joining,     \* stop() has been called and waits in m_thread.join()
    current,     \* m_currentBuffer
    next,        \* m_nextBuffer
    vec,         \* m_vecBuffer
    pc,          \* where the backend is in threadFunc()
    new1,        \* newBuffer1
    new2,        \* newBuffer2
    toWrite,     \* buffersToWrite
    written,     \* how many buffers of toWrite the for loop has written
    file,        \* the lines handed to LogFile, in order
    numLines,    \* number of lines appended; a line is its number
    dropped,     \* lines erased because a batch was too large
    threadSafe   \* m_threadSafe of outPut, which no constructor sets

vars == <<isRunning, joining, current, next, vec, pc, new1, new2, toWrite,
          written, file, numLines, dropped, threadSafe>>

shared == <<isRunning, joining, current, next, vec, numLines, threadSafe>>

backend == <<pc, new1, new2, toWrite, written, file, dropped>>

Lines == 1 .. MaxLines

Buffer == [lines : Seq(Lines), used : 0 .. BufferSize]

EmptyBuffer == [lines |-> <<>>, used |-> 0]

(* FixedBuffer::append(): a line that does not fit is not stored.          *)
Put(b, line, len) ==
    IF BufferSize - b.used > len
        THEN [lines |-> Append(b.lines, line), used |-> b.used + len]
        ELSE b

Null(ptr) == ptr = <<>>

IsPtr(ptr) == ptr \in Seq(Buffer) /\ Len(ptr) <= 1

(* "stuck": outPut.append() waits for ever for the mutex it holds.         *)
PCs == {"start", "top", "wait", "cut", "write", "recycle", "stuck", "abort",
        "abortAtStart"}

TypeOK ==
    /\ isRunning \in BOOLEAN
    /\ joining \in BOOLEAN
    /\ IsPtr(current) /\ ~Null(current)
    /\ IsPtr(next)
    /\ vec \in Seq(Buffer)
    /\ pc \in PCs
    /\ IsPtr(new1)
    /\ IsPtr(new2)
    /\ toWrite \in Seq(Buffer)
    /\ written \in 0 .. Len(toWrite)
    /\ file \in Seq(Lines)
    /\ numLines \in 0 .. MaxLines
    /\ dropped \subseteq Lines
    /\ threadSafe \in BOOLEAN

(* The constructor ends with start(), which creates the backend thread.    *)
Init ==
    /\ isRunning = TRUE
    /\ joining = FALSE
    /\ current = <<EmptyBuffer>>
    /\ next = <<EmptyBuffer>>
    /\ vec = <<>>
    /\ pc = "start"
    /\ new1 = <<>>
    /\ new2 = <<>>
    /\ toWrite = <<>>
    /\ written = 0
    /\ file = <<>>
    /\ numLines = 0
    /\ dropped = {}
    /\ threadSafe \in BOOLEAN

(* An aborted process takes no step.                                       *)
Alive == pc \notin {"abort", "abortAtStart"}

-------------------------------------------------------------------------------
(* The frontend.                                                           *)

(* Mutant: a full current buffer is replaced and not queued for writing.   *)
AppendForgetsFull(len) ==
    /\ Alive
    /\ numLines < MaxLines
    /\ numLines' = numLines + 1
    /\ IF BufferSize - current[1].used > len
          THEN current' = <<Put(current[1], numLines + 1, len)>>
          ELSE current' = <<Put(EmptyBuffer, numLines + 1, len)>>
    /\ UNCHANGED <<next, vec, isRunning, joining, threadSafe>>
    /\ UNCHANGED backend

(* append(), all of it under m_mux.  The notification at its end lets a    *)
(* waiting backend go on, which it may do at any time anyway (Wake).       *)
AppendLine(len) ==
    /\ Alive
    /\ numLines < MaxLines
    /\ numLines' = numLines + 1
    /\ \/ /\ BufferSize - current[1].used > len
          /\ current' = <<Put(current[1], numLines + 1, len)>>
          /\ UNCHANGED <<next, vec>>
       \/ /\ BufferSize - current[1].used <= len
          /\ vec' = vec \o current
          /\ IF Null(next)
                THEN current' = <<Put(EmptyBuffer, numLines + 1, len)>>
                ELSE current' = <<Put(next[1], numLines + 1, len)>>
          /\ next' = <<>>
    /\ UNCHANGED <<isRunning, joining, threadSafe>>
    /\ UNCHANGED backend

(* stop(), or the destructor: clear the flag, notify, then join.           *)
Stop ==
    /\ Alive
    /\ ~joining
    /\ isRunning' = FALSE
    /\ joining' = TRUE
    /\ UNCHANGED <<current, next, vec, numLines, threadSafe>>
    /\ UNCHANGED backend

-------------------------------------------------------------------------------
(* The backend, threadFunc().                                              *)

(* The assertion on m_isRunning and the two spare buffers.                 *)
BackendStart ==
    /\ pc = "start"
    /\ IF isRunning
          THEN /\ pc' = "top"
               /\ new1' = <<EmptyBuffer>>
               /\ new2' = <<EmptyBuffer>>
          ELSE pc' = "abortAtStart" /\ UNCHANGED <<new1, new2>>
    /\ UNCHANGED <<toWrite, written, file, dropped>>
    /\ UNCHANGED shared

TopAssertions == new1 = <<EmptyBuffer>> /\ new2 = <<EmptyBuffer>> /\ Null(toWrite)

(* Lines 60 to 65, under the lock.                                         *)
SwapBuffers ==
    /\ toWrite' = vec \o current
    /\ vec' = <<>>
    /\ current' = new1
    /\ new1' = <<>>
    /\ next' = IF Null(next) THEN new2 ELSE next
    /\ new2' = IF Null(next) THEN <<>> ELSE new2
    /\ UNCHANGED <<isRunning, joining, numLines, threadSafe>>

LinesIn(b) == {b.lines[i] : i \in 1 .. Len(b.lines)}

LinesOf(bufs, from) == UNION {LinesIn(bufs[k]) : k \in from .. Len(bufs)}

(* Mutant: the cut keeps one buffer.                                       *)
CutBatchToOne(batch) ==
    IF Len(batch) > MaxBuffers THEN SubSeq(batch, 1, 1) ELSE batch

(* Lines 68 to 76: a batch that is too large keeps its first two buffers.  *)
CutBatch(batch) ==
    IF Len(batch) > MaxBuffers THEN SubSeq(batch, 1, 2) ELSE batch

(* One iteration starts; the backend waits if nothing has filled up.       *)
BackendTop ==
    /\ pc = "top"
    /\ IF ~TopAssertions
          THEN pc' = "abort" /\ UNCHANGED <<new1, new2, toWrite>> /\ UNCHANGED shared
          ELSE IF vec = <<>>
               THEN pc' = "wait" /\ UNCHANGED <<new1, new2, toWrite>> /\ UNCHANGED shared
               ELSE SwapBuffers /\ pc' = "cut"
    /\ UNCHANGED <<written, file, dropped>>

(* Mutant: the wait goes on until some buffer is full.                     *)
BackendWakeWhenFull ==
    /\ pc = "wait"
    /\ vec # <<>>
    /\ SwapBuffers
    /\ pc' = "cut"
    /\ UNCHANGED <<written, file, dropped>>

(* wait_until() returns, notified or not, and the lock is held again.      *)
BackendWake ==
    /\ pc = "wait"
    /\ SwapBuffers
    /\ pc' = "cut"
    /\ UNCHANGED <<written, file, dropped>>

(* outPut.append() may not return: LogFile::append() holds m_mutex when    *)
(* appendFileUnlock() calls flush(), which locks it again.  Which call     *)
(* flushes depends on the clock and on m_checkEveryN and is left open.     *)
AppendMayBlock == threadSafe

(* The assertion of line 67, the cut, and the append() of line 74 before   *)
(* it, which may not return.                                               *)
BackendCut ==
    /\ pc = "cut"
    /\ \/ /\ Null(toWrite)
          /\ pc' = "abort"
          /\ UNCHANGED <<toWrite, dropped>>
       \/ /\ ~Null(toWrite)
          /\ pc' = "write"
          /\ toWrite' = CutBatch(toWrite)
          /\ dropped' = dropped \cup
                 (IF Len(toWrite) > MaxBuffers THEN LinesOf(toWrite, 3) ELSE {})
       \/ /\ Len(toWrite) > MaxBuffers /\ AppendMayBlock
          /\ pc' = "stuck"
          /\ UNCHANGED <<toWrite, dropped>>
    /\ UNCHANGED <<new1, new2, written, file>>
    /\ UNCHANGED shared

(* One round of the for loop.  A call that does not return has written its *)
(* buffer: appendFileUnlock() does so first.                               *)
BackendWrite ==
    /\ pc = "write"
    /\ IF written < Len(toWrite)
          THEN /\ file' = file \o toWrite[written + 1].lines
               /\ written' = written + 1
               /\ pc' = "write" \/ (AppendMayBlock /\ pc' = "stuck")
          ELSE pc' = "recycle" /\ UNCHANGED <<file, written>>
    /\ UNCHANGED <<new1, new2, toWrite, dropped>>
    /\ UNCHANGED shared

(* Lines 80 to 97: newBuffer1 comes from the back of the first two, then   *)
(* newBuffer2 if it was given away, both emptied by reset(); the           *)
(* assertions 84 and 91 guard the two moves.                               *)
BackendRecycle ==
    LET kept  == IF Len(toWrite) > 2 THEN 2 ELSE Len(toWrite)
        take1 == IF Null(new1) THEN 1 ELSE 0
        take2 == IF Null(new2) THEN 1 ELSE 0
    IN  /\ pc = "recycle"
        /\ IF kept < take1 + take2
              THEN pc' = "abort" /\ UNCHANGED <<new1, new2, toWrite, written>>
              ELSE /\ pc' = "top"
                   /\ new1' = IF Null(new1) THEN <<EmptyBuffer>> ELSE new1
                   /\ new2' = IF Null(new2) THEN <<EmptyBuffer>> ELSE new2
                   /\ toWrite' = <<>>
                   /\ written' = 0
        /\ UNCHANGED <<file, dropped>>
        /\ UNCHANGED shared

BackendStep ==
    \/ BackendStart \/ BackendTop \/ BackendWake \/ BackendCut \/ BackendWrite
    \/ BackendRecycle

Next ==
    \/ \E len \in LineLens : AppendLine(len)
    \/ Stop
    \/ BackendStep

(* The backend thread is scheduled and its wait ends after                 *)
(* m_flushInterval seconds at the latest.  A backend that is stuck has no  *)
(* step to take.                                                           *)
Spec == Init /\ [][Next]_vars /\ WF_vars(BackendStep)

-------------------------------------------------------------------------------
(* Properties.                                                             *)

(* No interleaving of append() with the backend's loop makes one of its    *)
(* assertions (AsyncLog.cc lines 52 to 54, 67, 84 and 91) fail: whenever   *)
(* m_nextBuffer was used up, the batch has a second buffer to recycle.     *)
LoopAssertionsHold == pc # "abort"

(* Where the lines are, first to last: the file (as if it were a buffer),  *)
(* the rest of the batch, the full buffers and the current buffer.         *)
Held ==
    <<[lines |-> file, used |-> 0]>>
      \o (SubSeq(toWrite, written + 1, Len(toWrite)) \o (vec \o current))

(* The lines of each buffer, and the buffers, follow the append() calls.   *)
InOrder(bufs) ==
    /\ \A k \in 1 .. Len(bufs) : \A a, b \in 1 .. Len(bufs[k].lines) :
           a < b => bufs[k].lines[a] < bufs[k].lines[b]
    /\ \A j, k \in 1 .. Len(bufs) : j < k =>
           \A x \in LinesIn(bufs[j]), y \in LinesIn(bufs[k]) : x < y

(* Every appended line that no cut has dropped is in exactly one place,    *)
(* and file, batch, full buffers and current buffer hold the lines in the  *)
(* order of the append() calls: the swap under the lock neither loses,     *)
(* duplicates nor reorders a line.  The state has its types throughout.    *)
NothingLost ==
    /\ TypeOK
    /\ pc # "abort" =>
           /\ InOrder(Held)
           /\ LinesOf(Held, 1) = (1 .. numLines) \ dropped

InFile(i) == \E k \in 1 .. Len(file) : file[k] = i

(* Every appended line is written to the file, unless its batch was cut,   *)
(* the process ended in the assertion of line 43, or outPut's uninitial-   *)
(* ised m_threadSafe happens to be true and an append() that flushes has   *)
(* locked its own mutex (LogFile.cc lines 45, 90 and 30).                  *)
LineReachesFile ==
    \A i \in Lines :
        (numLines >= i) ~>
            \/ InFile(i)
            \/ i \in dropped
            \/ pc = "abortAtStart"
            \/ threadSafe /\ pc = "stuck"
===============================================================================

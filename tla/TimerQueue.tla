------------------------------ MODULE TimerQueue ------------------------------
(***************************************************************************)
(* TimerQueue, Timer and TimerId (src/src/net).  All lists belong to the   *)
(* loop thread; other threads reach them through functors the loop runs in *)
(* order (module EventLoop).  Timers are heap objects, deleted by the loop *)
(* thread, whose addresses the allocator may use again; a TimerId is an    *)
(* address and the timer's sequence number.                                *)
(*                                                                         *)
(* Expirations are wall clock times while the timerfd counts down on the   *)
(* monotonic clock, so the wall clock may be set back under it.  One unit  *)
(* of time stands for the shortest wait howMuchTimeFromNow() returns.      *)
(***************************************************************************)
EXTENDS Integers, Sequences, FiniteSets

CONSTANTS
    Addrs,       \* heap addresses, a set of positive numbers
    Clients,     \* threads other than the loop's
    Delays,      \* how far ahead a timer is set
    Intervals,   \* repeat intervals; 0 is a timer that runs once
    MaxTime,     \* bound: the clock stops here
    MaxTimers,   \* bound: number of timers created
    MaxCalls,    \* bound: length of the loop's queue of functors
    MaxJumps     \* bound: how often the wall clock is set back

ASSUME TimerQueueAssumption ==
    /\ Addrs \subseteq Nat \ {0}
    /\ Delays \subseteq Nat
    /\ Intervals \subseteq Nat
    /\ MaxTime \in Nat /\ MaxTimers \in Nat /\ MaxCalls \in Nat /\ MaxJumps \in Nat

VARIABLES
    now,           \* the wall clock
    jumps,         \* how often it was set back
    tfd,           \* timerfd: time left, 0 when readable, Off when disarmed
    polled,        \* the loop has the timerfd channel in its active list
    heap,          \* the live timers, a function on their addresses
    numCreated,    \* Timer::m_numTimerCrated
    timeList,      \* m_timeList: pairs of expiration and address
    activeTimers,  \* m_activeTimers: pairs of address and sequence
    canceling,     \* m_cancelingTimer
    calling,       \* m_callingExpiredTimer
    expired,       \* handleRead()'s vector of entries
    toRun,         \* the entries of it whose callback has not started
    snapshot,      \* handleRead()'s now
    functors,      \* calls queued in the loop by other threads
    adding,        \* the timer a client has handed over in addTimer(), with its sequence
    ids,           \* TimerIds returned so far
    cancelled,     \* sequences whose cancellation reached a known timer
    done           \* sequences of timers without interval that have run

vars == <<now, jumps, tfd, polled, heap, numCreated, timeList, activeTimers,
          canceling, calling, expired, toRun, snapshot, functors, adding, ids,
          cancelled, done>>

clock == <<now, jumps>>

lists == <<timeList, activeTimers>>

batch == <<calling, expired, toRun, snapshot>>

history == <<cancelled, done>>

Off == -1

NoTimer == <<0, 0>>

Sequences == 0 .. MaxTimers - 1

TimerIds == Addrs \X Sequences

Entries == Int \X Addrs

Calls == [op : {"add"}, timer : Addrs] \cup [op : {"cancel"}, id : TimerIds]

TypeOK ==
    /\ now \in 0 .. MaxTime
    /\ jumps \in 0 .. MaxJumps
    /\ tfd \in Int /\ tfd >= Off
    /\ polled \in BOOLEAN
    /\ DOMAIN heap \subseteq Addrs
    /\ \A a \in DOMAIN heap :
           heap[a] \in [expiration : Int, interval : Intervals, sequence : Sequences]
    /\ numCreated \in 0 .. MaxTimers
    /\ timeList \subseteq Entries
    /\ activeTimers \subseteq TimerIds
    /\ canceling \subseteq TimerIds
    /\ calling \in BOOLEAN
    /\ expired \subseteq Entries
    /\ toRun \subseteq expired
    /\ snapshot \in 0 .. MaxTime
    /\ functors \in Seq(Calls)
    /\ adding \in [Clients -> TimerIds \cup {NoTimer}]
    /\ ids \subseteq TimerIds
    /\ cancelled \subseteq Sequences
    /\ done \subseteq Sequences

Init ==
    /\ now = 0
    /\ jumps = 0
    /\ tfd = Off
    /\ polled = FALSE
    /\ heap = [a \in {} |-> 0]
    /\ numCreated = 0
    /\ timeList = {}
    /\ activeTimers = {}
    /\ canceling = {}
    /\ calling = FALSE
    /\ expired = {}
    /\ toRun = {}
    /\ snapshot = 0
    /\ functors = <<>>
    /\ adding = [c \in Clients |-> NoTimer]
    /\ ids = {}
    /\ cancelled = {}
    /\ done = {}

-------------------------------------------------------------------------------
(* new Timer and delete.                                                   *)

Timer(when, interval) ==
    [expiration |-> when, interval |-> interval, sequence |-> numCreated]

Alloc(a, t) == [x \in DOMAIN heap \cup {a} |-> IF x = a THEN t ELSE heap[x]]

Delete(addrs) == [x \in DOMAIN heap \ addrs |-> heap[x]]

IdOf(a) == <<a, heap[a].sequence>>

(* howMuchTimeFromNow(): at least one unit.                                *)
HowMuchTimeFromNow(when) == IF when - now < 1 THEN 1 ELSE when - now

Earliest(list) == CHOOSE w \in {e[1] : e \in list} : \A e \in list : w <= e[1]

(* Mutant: the timerfd is set only for the first timer in an empty list.   *)
AddTimerInLoopFirstOnly(a, t) ==
    /\ timeList' = timeList \cup {<<t.expiration, a>>}
    /\ activeTimers' = activeTimers \cup {<<a, t.sequence>>}
    /\ tfd' = IF timeList = {} THEN HowMuchTimeFromNow(t.expiration) ELSE tfd

(* addTimerInLoop() with insert(): the timerfd is set when the new timer   *)
(* is earlier than all others.                                             *)
AddTimerInLoop(a, t) ==
    /\ timeList' = timeList \cup {<<t.expiration, a>>}
    /\ activeTimers' = activeTimers \cup {<<a, t.sequence>>}
    /\ tfd' = IF \A e \in timeList : t.expiration < e[1]
                 THEN HowMuchTimeFromNow(t.expiration) ELSE tfd

(* Mutant: the timer is looked up by its address alone.                    *)
CancelInLoopByAddress(id) ==
    \/ /\ \E t \in activeTimers : t[1] = id[1]
       /\ timeList' = timeList \ {<<heap[id[1]].expiration, id[1]>>}
       /\ activeTimers' = {t \in activeTimers : t[1] # id[1]}
       /\ heap' = Delete({id[1]})
       /\ cancelled' = cancelled \cup {id[2]}
       /\ UNCHANGED canceling
    \/ /\ \A t \in activeTimers : t[1] # id[1]
       /\ canceling' = IF calling THEN canceling \cup {id} ELSE canceling
       /\ cancelled' = IF calling /\ id \in {IdOf(e[2]) : e \in expired}
                          THEN cancelled \cup {id[2]} ELSE cancelled
       /\ UNCHANGED <<timeList, activeTimers, heap>>

(* Mutant: a cancelled timer stays in m_timeList.                          *)
CancelInLoopKeepsEntry(id) ==
    \/ /\ id \in activeTimers
       /\ activeTimers' = activeTimers \ {id}
       /\ heap' = Delete({id[1]})
       /\ cancelled' = cancelled \cup {id[2]}
       /\ UNCHANGED <<timeList, canceling>>
    \/ /\ id \notin activeTimers
       /\ canceling' = IF calling THEN canceling \cup {id} ELSE canceling
       /\ cancelled' = IF calling /\ id \in {IdOf(e[2]) : e \in expired}
                          THEN cancelled \cup {id[2]} ELSE cancelled
       /\ UNCHANGED <<timeList, activeTimers, heap>>

(* cancelInLoop(): an active timer is deleted; while callbacks run, any    *)
(* other id is remembered for reset().                                     *)
CancelInLoop(id) ==
    \/ /\ id \in activeTimers
       /\ timeList' = timeList \ {<<heap[id[1]].expiration, id[1]>>}
       /\ activeTimers' = activeTimers \ {id}
       /\ heap' = Delete({id[1]})
       /\ cancelled' = cancelled \cup {id[2]}
       /\ UNCHANGED canceling
    \/ /\ id \notin activeTimers
       /\ canceling' = IF calling THEN canceling \cup {id} ELSE canceling
       /\ cancelled' = IF calling /\ id \in {IdOf(e[2]) : e \in expired}
                          THEN cancelled \cup {id[2]} ELSE cancelled
       /\ UNCHANGED <<timeList, activeTimers, heap>>

-------------------------------------------------------------------------------
(* Calls from the loop thread, in the callbacks of timers and of other     *)
(* channels: runInLoop() executes them at once.                            *)

(* No callback runs in handleRead() before the first timer's.              *)
InCallback == calling => toRun # expired

LoopAddTimer(a, when, interval) ==
    /\ InCallback
    /\ numCreated < MaxTimers
    /\ a \notin DOMAIN heap
    /\ heap' = Alloc(a, Timer(when, interval))
    /\ numCreated' = numCreated + 1
    /\ AddTimerInLoop(a, Timer(when, interval))
    /\ ids' = ids \cup {<<a, numCreated>>}
    /\ UNCHANGED <<clock, polled, canceling, batch, functors, adding, history>>

LoopCancel(id) ==
    /\ InCallback
    /\ id \in ids
    /\ CancelInLoop(id)
    /\ UNCHANGED <<clock, tfd, polled, numCreated, batch, functors, adding, ids,
                   done>>

(* Calls from other threads: addTimer() queues the timer and then reads    *)
(* its sequence number to build the TimerId.                               *)
ClientAddTimer(c, a, when, interval) ==
    /\ adding[c] = NoTimer
    /\ numCreated < MaxTimers
    /\ Len(functors) < MaxCalls
    /\ a \notin DOMAIN heap
    /\ heap' = Alloc(a, Timer(when, interval))
    /\ numCreated' = numCreated + 1
    /\ functors' = Append(functors, [op |-> "add", timer |-> a])
    /\ adding' = [adding EXCEPT ![c] = <<a, numCreated>>]
    /\ UNCHANGED <<clock, tfd, polled, lists, canceling, batch, ids, history>>

(* Reading a deleted timer is undefined: any number may come back.         *)
ClientAddReturns(c) ==
    /\ adding[c] # NoTimer
    /\ \E s \in Sequences :
           /\ adding[c][1] \in DOMAIN heap => s = heap[adding[c][1]].sequence
           /\ ids' = ids \cup {<<adding[c][1], s>>}
    /\ adding' = [adding EXCEPT ![c] = NoTimer]
    /\ UNCHANGED <<clock, tfd, polled, heap, numCreated, lists, canceling, batch,
                   functors, history>>

ClientCancel(c, id) ==
    /\ adding[c] = NoTimer
    /\ id \in ids
    /\ Len(functors) < MaxCalls
    /\ functors' = Append(functors, [op |-> "cancel", id |-> id])
    /\ UNCHANGED <<clock, tfd, polled, heap, numCreated, lists, canceling, batch,
                   adding, ids, history>>

-------------------------------------------------------------------------------
(* The loop.                                                               *)

(* doPendingFunc() runs a queued call; never inside handleRead().          *)
RunFunctor ==
    /\ ~calling
    /\ functors # <<>>
    /\ functors' = Tail(functors)
    /\ \/ /\ Head(functors).op = "add"
          /\ AddTimerInLoop(Head(functors).timer, heap[Head(functors).timer])
          /\ UNCHANGED <<heap, canceling, cancelled>>
       \/ /\ Head(functors).op = "cancel"
          /\ CancelInLoop(Head(functors).id)
          /\ UNCHANGED tfd
    /\ UNCHANGED <<clock, polled, numCreated, batch, adding, ids, done>>

(* poll() reports the timerfd.  The channel's turn comes later: another    *)
(* callback of the same iteration may set the timerfd again before it.     *)
PollTimerfd ==
    /\ ~calling
    /\ ~polled
    /\ tfd = 0
    /\ polled' = TRUE
    /\ UNCHANGED <<clock, tfd, heap, numCreated, lists, canceling, batch, functors,
                   adding, ids, history>>

(* handleRead() up to the loop over the callbacks, with readTimerfd() and  *)
(* getExpired().                                                           *)
HandleRead ==
    LET due == {e \in timeList : e[1] <= now}
    IN  /\ polled
        /\ ~calling
        /\ polled' = FALSE
        /\ tfd' = IF tfd = 0 THEN Off ELSE tfd
        /\ snapshot' = now
        /\ timeList' = timeList \ due
        /\ activeTimers' = activeTimers \ {IdOf(e[2]) : e \in due}
        /\ expired' = due
        /\ toRun' = due
        /\ calling' = TRUE
        /\ UNCHANGED <<clock, heap, numCreated, canceling, functors, adding, ids,
                       history>>

(* The next callback, in the order of the expirations.                     *)
RunTimer(e) ==
    /\ calling
    /\ e \in toRun
    /\ \A f \in toRun : e[1] <= f[1]
    /\ toRun' = toRun \ {e}
    /\ done' = IF heap[e[2]].interval = 0
                  THEN done \cup {heap[e[2]].sequence} ELSE done
    /\ UNCHANGED <<clock, tfd, polled, heap, numCreated, lists, canceling, calling,
                   expired, snapshot, functors, adding, ids, cancelled>>

(* Mutant: m_cancelingTimer is not consulted.                              *)
RestartsIgnoringCancel(a) == heap[a].interval > 0

(* Mutant: only timers without interval are kept.                          *)
RestartsOneShot(a) == heap[a].interval = 0 /\ IdOf(a) \notin canceling

(* The timers reset() keeps.                                               *)
Restarts(a) == heap[a].interval > 0 /\ IdOf(a) \notin canceling

(* Mutant: the timerfd is not set again after the callbacks.               *)
ResetWithoutRearm ==
    LET again == {e[2] : e \in {f \in expired : Restarts(f[2])}}
    IN  /\ calling
        /\ toRun = {}
        /\ heap' = [a \in DOMAIN heap \ ({e[2] : e \in expired} \ again) |->
                       IF a \in again
                          THEN [heap[a] EXCEPT !.expiration = snapshot + heap[a].interval]
                          ELSE heap[a]]
        /\ timeList' = timeList \cup {<<snapshot + heap[a].interval, a>> : a \in again}
        /\ activeTimers' = activeTimers \cup {IdOf(a) : a \in again}
        /\ calling' = FALSE
        /\ expired' = {}
        /\ UNCHANGED <<clock, tfd, polled, numCreated, canceling, toRun, snapshot,
                       functors, adding, ids, history>>

(* The rest of handleRead() with reset() and Timer::restart(): repeating   *)
(* timers are inserted again, the others deleted, the timerfd is set for   *)
(* the earliest timer left.                                                *)
Reset ==
    LET again == {e[2] : e \in {f \in expired : Restarts(f[2])}}
    IN  /\ calling
        /\ toRun = {}
        /\ heap' = [a \in DOMAIN heap \ ({e[2] : e \in expired} \ again) |->
                       IF a \in again
                          THEN [heap[a] EXCEPT !.expiration = snapshot + heap[a].interval]
                          ELSE heap[a]]
        /\ timeList' = timeList \cup {<<snapshot + heap[a].interval, a>> : a \in again}
        /\ activeTimers' = activeTimers \cup {IdOf(a) : a \in again}
        /\ tfd' = IF timeList' = {} THEN tfd ELSE HowMuchTimeFromNow(Earliest(timeList'))
        /\ calling' = FALSE
        /\ expired' = {}
        /\ UNCHANGED <<clock, polled, numCreated, canceling, toRun, snapshot,
                       functors, adding, ids, history>>

-------------------------------------------------------------------------------
(* Time.                                                                   *)

Tick ==
    /\ now < MaxTime \/ tfd > 0
    /\ now' = IF now < MaxTime THEN now + 1 ELSE now
    /\ tfd' = IF tfd > 0 THEN tfd - 1 ELSE tfd
    /\ UNCHANGED <<jumps, polled, heap, numCreated, lists, canceling, batch,
                   functors, adding, ids, history>>

SetClockBack ==
    /\ jumps < MaxJumps
    /\ now > 0
    /\ now' = now - 1
    /\ jumps' = jumps + 1
    /\ UNCHANGED <<tfd, polled, heap, numCreated, lists, canceling, batch,
                   functors, adding, ids, history>>

Next ==
    \/ \E a \in Addrs, d \in Delays, i \in Intervals :
           \/ LoopAddTimer(a, now + d, i)
           \/ \E c \in Clients : ClientAddTimer(c, a, now + d, i)
    \/ \E id \in ids : LoopCancel(id) \/ \E c \in Clients : ClientCancel(c, id)
    \/ \E c \in Clients : ClientAddReturns(c)
    \/ RunFunctor \/ PollTimerfd \/ HandleRead \/ Reset
    \/ \E e \in toRun : RunTimer(e)
    \/ Tick
    \/ SetClockBack

(* The loop thread iterates: it polls, handles the timerfd and runs its    *)
(* functors again and again; callbacks return, and time passes.            *)
Fairness ==
    /\ WF_vars(RunFunctor)
    /\ WF_vars(PollTimerfd)
    /\ WF_vars(HandleRead)
    /\ WF_vars(\E e \in toRun : RunTimer(e))
    /\ WF_vars(Reset)
    /\ WF_vars(Tick)

Spec == Init /\ [][Next]_vars /\ Fairness

-------------------------------------------------------------------------------
(* Properties.                                                             *)

(* The state has its types, among them a timerfd that never counts down    *)
(* from a negative time, and the two lists are always views of the same    *)
(* live timers; the timers of a batch and of queued additions are live too *)
(* and are in neither list.                                                *)
(* The assertions of cancelInLoop(), getExpired() and insert() say parts   *)
(* of this; no pointer the loop thread will follow dangles.                *)
ListsAgree ==
    /\ TypeOK
    /\ \A e \in timeList \cup expired : e[2] \in DOMAIN heap
    /\ \A e \in timeList : e[1] = heap[e[2]].expiration
    /\ activeTimers = {IdOf(e[2]) : e \in timeList}
    /\ \A e \in timeList, f \in expired : e[2] # f[2]
    /\ \A k \in 1 .. Len(functors) :
           functors[k].op = "add" =>
               /\ functors[k].timer \in DOMAIN heap
               /\ \A e \in timeList \cup expired : e[2] # functors[k].timer

(* Outside handleRead() the timerfd is set no later than the earliest      *)
(* timer wants, whichever timers were added, cancelled or restarted, and   *)
(* even after the wall clock was set back.                                 *)
ArmedInTime ==
    (timeList # {} /\ ~calling /\ ~polled) =>
        tfd # Off /\ tfd <= HowMuchTimeFromNow(Earliest(timeList))

(* A timer that has come to its end stays out of the list: one cancelled   *)
(* while it was active or in a running batch, and one without interval     *)
(* from the moment it has run, from when on it is not due to run again     *)
(* either.                                                                 *)
EndedStaysOut ==
    /\ \A e \in timeList : heap[e[2]].sequence \notin cancelled
    /\ \A e \in timeList \cup toRun : heap[e[2]].sequence \notin done

(* A timer is only ever lost by its own end: each one created is still     *)
(* known to the loop, or has been cancelled under its own sequence number  *)
(* (at once, or remembered in m_cancelingTimer), or was a timer without    *)
(* interval and has run.  An old TimerId whose address is in use again     *)
(* cancels nothing.                                                        *)
NoTimerVanishes ==
    \A s \in 0 .. numCreated - 1 :
        \/ s \in cancelled \cup done \cup {id[2] : id \in canceling}
        \/ \E e \in timeList \cup expired : heap[e[2]].sequence = s
        \/ \E k \in 1 .. Len(functors) :
               functors[k].op = "add" /\ heap[functors[k].timer].sequence = s

(* Every timer that becomes due leaves the list, to run or cancelled.      *)
DueTimerExpires ==
    \A a \in Addrs, w \in 0 .. MaxTime : (<<w, a>> \in timeList) ~> (<<w, a>> \notin timeList)

(* addTimer() on another thread reads the timer it has handed over, which  *)
(* the loop thread may have run and deleted by then.  The id it returns is *)
(* that of its own timer all the same, unless that timer has come to its   *)
(* end: while a timer may still run, its creator gets the id to cancel it. *)
(* A timer whose sequence number is in m_cancelingTimer counts as ended:   *)
(* reset() deletes it after its next run, even if the number got there     *)
(* through an id that was read from a deleted timer.                       *)
ReturnedIdIsTheTimers ==
    [][\A c \in Clients :
           (adding[c] # NoTimer /\ adding'[c] = NoTimer) =>
               \/ ids' = ids \cup {adding[c]}
               \/ adding[c][2] \in done \cup cancelled \cup {id[2] : id \in canceling}]_vars
===============================================================================

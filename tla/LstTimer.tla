-------------------------------- MODULE LstTimer --------------------------------
(***************************************************************************)
(* src/src/base/LstTimer: TimerManagerList, one list of timers a tick()    *)
(* runs against the clock, and TimerManagerWheel, a ring of lists of which *)
(* a tick() handles one.  A behaviour has one manager of either kind.      *)
(*                                                                         *)
(* Both link TimerNodes in both directions behind head nodes; End is the   *)
(* tail node of the list and NULL in the wheel.  tick() calls a callback   *)
(* in the middle of its walk, and that may add and delete timers: the walk *)
(* is taken node by node.                                                  *)
(***************************************************************************)
EXTENDS Integers, FiniteSets, FiniteSetsExt

CONSTANTS
    TIME_SLOTS,   \* number of slots of the wheel
    Timers,       \* the TimerNodes, positive numbers
    Delays,       \* how far ahead a timer is set
    MaxTime       \* bound: last second, or number of ticks of the wheel

ASSUME LstTimerAssumption ==
    /\ TIME_SLOTS \in Nat \ {0}
    /\ Timers \subseteq Nat \ {0} /\ IsFiniteSet(Timers)
    /\ Delays \subseteq Nat
    /\ MaxTime \in Nat

VARIABLES
    kind,       \* "list" or "wheel"
    now,        \* time(NULL); for the wheel, the number of ticks so far
    curSlot,    \* m_curSlot
    links,      \* m_ptrNodeNext and m_ptrNodePrev
    timer,      \* the timers
    clients,    \* timers whose ClientData is still there
    phase,      \* "out" of tick(), or where it is
    at,         \* curNode, nowNode
    store,      \* storeNode
    cutoff,     \* tick()'s curTime
    confused    \* a callback has changed the links its tick() goes by

vars == <<kind, now, curSlot, links, timer, clients, phase, at, store, cutoff, confused>>

walk == <<at, store, cutoff>>

End == 0

HeadOf(slot) == -1 - slot

Slots == IF kind = "list" THEN {0} ELSE 0 .. TIME_SLOTS - 1

Heads == {HeadOf(s) : s \in 0 .. TIME_SLOTS - 1}

Nodes == Timers \cup Heads \cup {End}

TimerRecord == [status : {"new", "linked", "ended"}, expire : Nat, rotation : Int,
                slot : 0 .. TIME_SLOTS - 1, born : Nat, limit : Nat]

NoTimer(status) ==
    [status |-> status, expire |-> 0, rotation |-> 0, slot |-> 0, born |-> 0, limit |-> 0]

(* Only m_rotation of a timer that has ended may still be looked at.       *)
Ended(n) == [NoTimer("ended") EXCEPT !.rotation = timer[n].rotation]

TypeOK ==
    /\ kind \in {"list", "wheel"}
    /\ now \in 0 .. MaxTime /\ cutoff \in 0 .. MaxTime
    /\ curSlot \in 0 .. TIME_SLOTS - 1
    /\ links \in [next : [Nodes -> Nodes], prev : [Nodes -> Nodes]]
    /\ timer \in [Timers -> TimerRecord]
    /\ clients \subseteq Timers
    /\ phase \in {"out", "test", "callback", "remove", "undefined", "gone"}
    /\ at \in Timers \cup {End} /\ store \in Timers \cup {End}
    /\ confused \in BOOLEAN

Init ==
    /\ kind \in {"list", "wheel"}
    /\ now = IF kind = "list" THEN 1 ELSE 0
    /\ curSlot = 0
    /\ links = [next |-> [n \in Nodes |-> End], prev |-> [n \in Nodes |-> End]]
    /\ timer = [n \in Timers |-> NoTimer("new")]
    /\ clients = Timers
    /\ phase = "out"
    /\ at = End
    /\ store = End
    /\ cutoff = 0
    /\ confused = FALSE

-------------------------------------------------------------------------------
(* The links.                                                              *)

InsertAfter(l, pre, n) ==
    [next |-> [l.next EXCEPT ![n] = l.next[pre], ![pre] = n],
     prev |-> [l.prev EXCEPT ![n] = pre, ![l.next[pre]] = n]]

(* Mutant: the node after the one taken out keeps its m_ptrNodePrev.       *)
UnlinkOneWay(l, n) == [l EXCEPT !.next[l.prev[n]] = l.next[n]]

Unlink(l, n) ==
    [next |-> [l.next EXCEPT ![l.prev[n]] = l.next[n]],
     prev |-> [l.prev EXCEPT ![l.next[n]] = l.prev[n]]]

Expire(n) == IF n \in Timers THEN timer[n].expire ELSE 0

(* Mutant: the comparison the other way round.                             *)
InsertPlaceFront(l, when) ==
    LET from[n \in Nodes] ==
            IF l.next[n] = End \/ Expire(n) <= when THEN n ELSE from[l.next[n]]
    IN  from[HeadOf(0)]

(* The node that addNode() puts a timer behind: the first one that expires *)
(* no earlier, or the last.                                                *)
InsertPlace(l, when) ==
    LET from[n \in Nodes] ==
            IF l.next[n] = End \/ Expire(n) >= when THEN n ELSE from[l.next[n]]
    IN  from[HeadOf(0)]

(* new TimerNode; timers are numbered in the order they are made.          *)
Fresh(n) == \A m \in Timers : (timer[m].status = "new") <=> (m >= n)

Linked == {n \in Timers : timer[n].status = "linked"}

(* The latest expiration among a timer and those in the list before it.    *)
Latest(when, others) == Max({when} \cup {timer[m].expire : m \in others})

-------------------------------------------------------------------------------
(* Calls from outside, or from a callback.                                 *)

UserRuns == phase \in {"out", "callback"}

InCallback(n) == phase = "callback" /\ n = at

ListAddNode(n, when) ==
    /\ kind = "list" /\ UserRuns
    /\ Fresh(n)
    /\ links' = InsertAfter(links, InsertPlace(links, when), n)
    /\ timer' = [timer EXCEPT ![n] = [@ EXCEPT !.status = "linked", !.expire = when,
                                               !.limit = Latest(when, Linked)]]
    /\ UNCHANGED <<kind, now, curSlot, clients, phase, walk, confused>>

AdjustNode(n) ==
    LET l == Unlink(links, n)
    IN  /\ kind = "list" /\ UserRuns
        /\ n \in Linked
        /\ links' = InsertAfter(l, InsertPlace(l, timer[n].expire), n)
        /\ timer' = [timer EXCEPT ![n].limit = Latest(timer[n].expire, Linked \ {n})]
        /\ confused' = (confused \/ InCallback(n))
        /\ UNCHANGED <<kind, now, curSlot, clients, phase, walk>>

(* A callback that deletes its own timer makes tick() read freed memory.   *)
ListDeleteNode(n) ==
    /\ kind = "list" /\ UserRuns
    /\ n \in Linked
    /\ links' = Unlink(links, n)
    /\ timer' = [timer EXCEPT ![n] = Ended(n)]
    /\ phase' = IF InCallback(n) THEN "undefined" ELSE phase
    /\ UNCHANGED <<kind, now, curSlot, clients, walk, confused>>

TIME_GAP == 1

Ticks(timeout) == IF timeout < TIME_GAP THEN 1 ELSE timeout \div TIME_GAP

(* Mutant: one slot too far.                                               *)
SlotForNext(timeout) == (curSlot + (Ticks(timeout) % TIME_SLOTS) + 1) % TIME_SLOTS

SlotFor(timeout) == (curSlot + (Ticks(timeout) % TIME_SLOTS)) % TIME_SLOTS

WheelAddNode(n, timeout) ==
    /\ kind = "wheel" /\ UserRuns
    /\ Fresh(n)
    /\ links' = InsertAfter(links, HeadOf(SlotFor(timeout)), n)
    /\ timer' = [timer EXCEPT ![n] = [status |-> "linked", expire |-> timeout,
                                      rotation |-> Ticks(timeout) \div TIME_SLOTS,
                                      slot |-> SlotFor(timeout), born |-> now, limit |-> 0]]
    /\ UNCHANGED <<kind, now, curSlot, clients, phase, walk, confused>>

(* delNode() unlinks and frees nothing.  tick() will unlink the timer whose *)
(* callback runs once more, and goes on with the one it has stored.        *)
WheelDelNode(n) ==
    /\ kind = "wheel" /\ UserRuns
    /\ n \in Linked
    /\ links' = Unlink(links, n)
    /\ timer' = [timer EXCEPT ![n] = Ended(n)]
    /\ confused' = (confused \/ (phase = "callback" /\ n \in {at, store}))
    /\ UNCHANGED <<kind, now, curSlot, clients, phase, walk>>

(* The last shared_ptr to a timer's ClientData goes.                       *)
ClientGone(n) ==
    /\ UserRuns
    /\ n \in Linked \cap clients
    /\ clients' = clients \ {n}
    /\ UNCHANGED <<kind, now, curSlot, links, timer, phase, walk, confused>>

Destroy ==
    /\ phase = "out"
    /\ phase' = "gone"
    /\ timer' = [n \in Timers |-> IF n \in Linked THEN Ended(n) ELSE timer[n]]
    /\ UNCHANGED <<kind, now, curSlot, links, clients, walk, confused>>

-------------------------------------------------------------------------------
(* tick().                                                                 *)

TickBegin ==
    /\ phase = "out"
    /\ kind = "list" => links.next[HeadOf(0)] # End
    /\ kind = "wheel" => now < MaxTime
    /\ at' = links.next[HeadOf(curSlot)]
    /\ cutoff' = IF kind = "list" THEN now ELSE cutoff
    /\ confused' = (kind = "wheel" /\ confused)
    /\ phase' = "test"
    /\ UNCHANGED <<kind, now, curSlot, links, timer, clients, store>>

(* The callback runs if the client's ClientData is still there.            *)
RunOrRemove(n) == IF n \in clients THEN "callback" ELSE "remove"

ListVisit ==
    /\ kind = "list" /\ phase = "test" /\ at # End
    /\ \/ /\ timer[at].expire > cutoff
          /\ phase' = "out"
          /\ at' = End
       \/ /\ timer[at].expire <= cutoff
          /\ phase' = RunOrRemove(at)
          /\ UNCHANGED at
    /\ UNCHANGED <<kind, now, curSlot, links, timer, clients, store, cutoff, confused>>

WheelVisit ==
    LET left == timer[at].rotation - 1
    IN  /\ kind = "wheel" /\ phase = "test" /\ at # End
        /\ timer' = [timer EXCEPT ![at].rotation = left]
        /\ store' = links.next[at]
        /\ \/ /\ left <= 0
              /\ phase' = RunOrRemove(at)
              /\ UNCHANGED at
           \/ /\ left > 0
              /\ at' = links.next[at]
              /\ UNCHANGED phase
        /\ UNCHANGED <<kind, now, curSlot, links, clients, cutoff, confused>>

(* After the callback: the list reads the next node now, the wheel has     *)
(* stored it before.                                                       *)
RemoveVisited ==
    /\ phase \in {"callback", "remove"}
    /\ at' = IF kind = "list" THEN links.next[at] ELSE store
    /\ links' = Unlink(links, at)
    /\ timer' = [timer EXCEPT ![at] = Ended(at)]
    /\ phase' = "test"
    /\ UNCHANGED <<kind, now, curSlot, clients, store, cutoff, confused>>

TickEnd ==
    /\ phase = "test" /\ at = End
    /\ phase' = "out"
    /\ curSlot' = IF kind = "wheel" THEN (curSlot + 1) % TIME_SLOTS ELSE curSlot
    /\ now' = IF kind = "wheel" THEN now + 1 ELSE now
    /\ UNCHANGED <<kind, links, timer, clients, walk, confused>>

(* time(NULL) advances.                                                    *)
Second ==
    /\ kind = "list" /\ UserRuns
    /\ now < MaxTime
    /\ now' = now + 1
    /\ UNCHANGED <<kind, curSlot, links, timer, clients, phase, walk, confused>>

Next ==
    \/ \E n \in Timers, d \in Delays : ListAddNode(n, now + d) \/ WheelAddNode(n, d)
    \/ \E n \in Timers :
           AdjustNode(n) \/ ListDeleteNode(n) \/ WheelDelNode(n) \/ ClientGone(n)
    \/ TickBegin \/ ListVisit \/ WheelVisit \/ RemoveVisited \/ TickEnd
    \/ Second \/ Destroy

Spec == Init /\ [][Next]_vars

-------------------------------------------------------------------------------
(* Properties.                                                             *)

(* The timers behind a head, in at most as many steps as there are timers. *)
Behind(head) ==
    LET reach[k \in 0 .. Cardinality(Timers)] ==
            IF k = 0 THEN {head}
            ELSE reach[k - 1] \cup {links.next[n] : n \in reach[k - 1] \ {End}}
    IN  reach[Cardinality(Timers)] \ {head, End}

(* Whatever callbacks add, delete and move, the lists hold exactly the     *)
(* timers that were added and have neither run nor been deleted, each in   *)
(* its slot and linked in both directions, and tick() goes on with one of  *)
(* them.  So no timer runs twice or after its deletion.  The exception is  *)
(* a callback of the wheel that deletes its own timer or the one stored as *)
(* the next: tick() then goes by links that are no longer those of the     *)
(* slot.                                                                   *)
LinksSound ==
    (~confused /\ phase \notin {"undefined", "gone"}) =>
        /\ TypeOK
        /\ \A s \in Slots : Behind(HeadOf(s)) = {n \in Linked : timer[n].slot = s}
        /\ \A n \in Linked : links.next[links.prev[n]] = n
        /\ phase = "test" => at \in Linked \cup {End}

(* TimerManagerList is not in the order of its expirations, so a timer may *)
(* be late; but not later than the latest expiration that was in the list  *)
(* when it was put there: no tick() from then on leaves it, unless a       *)
(* callback moves its own timer.                                           *)
ListLateBounded ==
    [][(kind = "list" /\ phase = "test" /\ phase' = "out" /\ ~confused)
           => \A n \in Linked : timer[n].limit > cutoff]_vars

(* A timer of the wheel set less than a turn ahead runs in the very tick   *)
(* its timeout says, whatever callbacks add and delete around it, and none *)
(* at all is still waiting after its tick.  A timer set a turn or more     *)
(* ahead runs a turn early: tick() decrements m_rotation on its first      *)
(* visit already, although line 89 calls it the number of turns after      *)
(* which the timer is deleted.                                             *)
ShortTimersOnTime ==
    (kind = "wheel" /\ ~confused) =>
        /\ (phase \in {"callback", "remove"} /\ Ticks(timer[at].expire) < TIME_SLOTS) =>
               now - timer[at].born = Ticks(timer[at].expire)
        /\ phase = "out" =>
               \A n \in Linked : now - timer[n].born <= Ticks(timer[n].expire)

===============================================================================

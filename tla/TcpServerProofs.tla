---------------------------- MODULE TcpServerProofs ----------------------------
(***************************************************************************)
(* Proofs about TcpServer for any number of connections, loops, client     *)
(* threads, messages and calls.                                            *)
(*                                                                         *)
(* The handlers are operators from state to state, so most lemmas are      *)
(* about a state s that a handler begins with and the state t it leaves;   *)
(* sv, en and cl stand for the variables that handlers do not change:      *)
(* server, ending and client.                                              *)
(***************************************************************************)
EXTENDS TcpServer, SequenceTheorems, TLAPS

States == [abort : Aborts, connections : SUBSET Conns, conn : [Conns -> ConnRecord],
           chan : [Conns \cup {Listen} -> ChannelRecord], loop : [Loops -> LoopRecord],
           sock : [Conns -> SockRecord]]

(* Names for the changes that handlers are made of.                        *)
WithEvents(ch, E) == [ch EXCEPT !.events = E]

Queued(loops, l, f) ==
    [loops EXCEPT ![l] = [loops[l] EXCEPT !.queue = Append(loops[l].queue, f)]]

Taken(loops, l) == [loops EXCEPT ![l] = [loops[l] EXCEPT !.batch = Tail(loops[l].batch)]]

(* The poller's view of a channel.                                         *)
ChanOK(ch) ==
    ch.fail = "none" =>
        /\ ch.interest = IF ch.idx = KADDED THEN {ch.events} ELSE {}
        /\ ch.idx = KADDED => ch.mapped
        /\ ch.events # {} => ch.idx = KADDED

PollerOK(s) == \A c \in Conns \cup {Listen} : ChanOK(s.chan[c])

(* The functors a loop has still to run, in their order.                   *)
Work(s, l) == s.loop[l].batch \o s.loop[l].queue

Met(s, c) == s.conn[c].stat \notin {"none", "KCONNECTING"}

Removed(s, c) == s.chan[c].idx = KDEL /\ ~s.chan[c].mapped

Closed == {"KDISCONNECTED", "KDISCONNECTING"}

(* Operations of functors: those of user code, and those that move a       *)
(* connection on in its life.                                              *)
UserOps == CallOps \cup {"send"}

LifeOps == {"established", "destory", "remove"}

(* The i-th functor that loop l has still to run is op of connection c.    *)
At(s, l, i, op, c) ==
    i \in 1 .. Len(Work(s, l)) /\ Work(s, l)[i].op = op /\ Work(s, l)[i].conn = c

(* The server's destructor has handed c to connectionDestory().            *)
HandedOver(s, sv, en, c) == sv = "ending" /\ c \in s.connections /\ c \notin en

(* A loop has active channels while it handles them, and a batch while it  *)
(* runs it; the acceptor's channel is on the base loop.                    *)
LoopInv(s) ==
    /\ \A l \in Loops :
           /\ s.loop[l].phase # "handle" => s.loop[l].active = {}
           /\ s.loop[l].phase # "run" => s.loop[l].batch = <<>>
           /\ l # Base => \A p \in s.loop[l].active : p[1] # Listen
    /\ s.chan[Listen].fail = "none"

(* The base loop waits while the destructor runs; connections come only    *)
(* after the acceptor's channel was enabled, and a process that has ended  *)
(* an enabled acceptor is no longer alive.                                 *)
ServerInv(s, sv, en) ==
    /\ en # {} => sv = "ending"
    /\ en \subseteq s.connections
    /\ sv = "ending" => s.loop[Base].phase = "poll"
    /\ sv # "gone" => s.chan[Listen].idx # KDEL
    /\ sv = "started" => s.chan[Listen].idx = KADDED
    /\ (sv = "gone" \/ s.chan[Listen].idx # KADDED) =>
           \A c \in Conns : s.sock[c].where = "none"

(* Other threads know only established connections.                        *)
ClientInv(s, cl) ==
    \A k \in Clients : cl[k] # Idle =>
        Met(s, cl[k].functor.conn) /\ cl[k].functor.op \in UserOps

(* A reported channel is on its loop's poller and is not removed before    *)
(* its turn.                                                               *)
ActiveOf(s, c) ==
    \A l \in Loops : \A p \in s.loop[l].active :
        p[1] = c => s.conn[c].loop = l /\ Met(s, c) /\ s.chan[c].mapped

(* A connection's channel is new until the connection is established, and  *)
(* removed only by the server's destructor.                                *)
ChanOf(s, sv, en, c) ==
    /\ s.chan[c].fail = "none"
    /\ ~Met(s, c) <=> s.chan[c].idx = KNEW
    /\ s.chan[c].idx = KADDED => s.chan[c].events # {}
    /\ (Met(s, c) /\ ~Removed(s, c) /\ s.conn[c].reading) => "in" \in s.chan[c].events
    /\ Removed(s, c) => HandedOver(s, sv, en, c)
    /\ s.conn[c].out # <<>> => "out" \in s.chan[c].events

(* A connection is in the map from accept() until it is closed, and then   *)
(* until its removal; a second close needs another thread to revive it.    *)
ConnOf(s, c) ==
    /\ s.sock[c].where # "open" => s.conn[c].stat = "none"
    /\ s.conn[c].stat = "none" => c \notin s.connections
    /\ s.conn[c].stat = "KCONNECTING" => c \in s.connections /\ s.conn[c].loop # Base
    /\ (~s.conn[c].revived /\ s.conn[c].stat \in {"KCONNECT", "KDISCONNECTING"}) =>
           c \in s.connections

(* connectionEstablished() is still to run for a new connection, and runs  *)
(* before connectionDestory().                                             *)
PendingOf(s, c) ==
    s.conn[c].stat = "KCONNECTING" =>
        /\ \E i \in Nat : At(s, s.conn[c].loop, i, "established", c)
        /\ \A i \in Nat : At(s, s.conn[c].loop, i, "destory", c) =>
               \E j \in Nat : j < i /\ At(s, s.conn[c].loop, j, "established", c)

(* The removal of a closed connection is queued.                           *)
RemovalOf(s, sv, en, c) ==
    (c \in s.connections /\ s.conn[c].stat = "KDISCONNECTED") =>
        \/ \E i \in Nat : At(s, Base, i, "remove", c)
        \/ HandedOver(s, sv, en, c)

(* What holds of a connection while a functor of it waits on loop l.       *)
LifeFunctor(s, sv, en, l, op, c) ==
    /\ op = "established" => s.conn[c].stat = "KCONNECTING" /\ s.conn[c].loop = l
    /\ op = "remove" =>
           /\ l = Base
           /\ s.conn[c].stat \in Closed
           /\ ~s.conn[c].revived => s.conn[c].stat = "KDISCONNECTED" /\ c \in s.connections
    /\ op = "destory" =>
           /\ s.conn[c].loop = l
           /\ ~Removed(s, c)
           /\ s.conn[c].stat # "none"
           /\ \/ HandedOver(s, sv, en, c)
              \/ c \notin s.connections /\ s.conn[c].stat \in Closed

(* What waits at most once.                                                *)
Single(s, op, c) == op = "remove" => ~s.conn[c].revived

FunctorsOf(s, sv, en, c) ==
    /\ \A l \in Loops, i \in Nat, op \in UserOps :
           At(s, l, i, op, c) => Met(s, c) /\ s.conn[c].loop = l
    /\ \A l \in Loops, i \in Nat, op \in LifeOps :
           At(s, l, i, op, c) => LifeFunctor(s, sv, en, l, op, c)
    /\ \A l \in Loops, i \in Nat, j \in Nat, op \in LifeOps :
           (At(s, l, i, op, c) /\ At(s, l, j, op, c) /\ Single(s, op, c)) => i = j

LifeOf(s, sv, en, c) ==
    ConnOf(s, c) /\ PendingOf(s, c) /\ RemovalOf(s, sv, en, c) /\ FunctorsOf(s, sv, en, c)

ConnInv(s, sv, en, c) == ActiveOf(s, c) /\ ChanOf(s, sv, en, c) /\ LifeOf(s, sv, en, c)

Good(s, sv, en, cl) ==
    /\ LoopInv(s)
    /\ ServerInv(s, sv, en)
    /\ ClientInv(s, cl)
    /\ \A c \in Conns : ConnInv(s, sv, en, c)

(* AssertionsExplained of a state.                                         *)
Explained(s, sv, en) ==
    /\ s.abort = "TcpServer.cc:75" => \E c \in Conns : s.conn[c].revived
    /\ s.abort = "TcpConnection.cc:170" =>
           \E c \in Conns : s.conn[c].stat = "KDISCONNECTED" /\ s.chan[c].mapped
    /\ s.abort = "Channel.cc:42" =>
           \E c \in Conns : s.conn[c].stat \in Closed /\ s.chan[c].fail = s.abort
    /\ s.abort = "EpollPoller.cc:35" =>
           sv = "ending" /\ \E c \in s.connections \ en : s.chan[c].fail = s.abort
    /\ s.abort \notin {"EpollPoller.cc:64", "TcpConnection.cc:111"}

(* What a handler leaves.                                                  *)
Result(t, sv, en, cl) ==
    /\ t \in States
    /\ PollerOK(t)
    /\ t.abort = "none" => Good(t, sv, en, cl)
    /\ Explained(t, sv, en)

ClientStates == [Clients -> {Idle} \cup [op : {"set", "queue"}, functor : Functors]]

(* What a handler begins with.                                             *)
Ready(s, sv, en, cl) ==
    /\ s \in States
    /\ cl \in ClientStates
    /\ PollerOK(s)
    /\ s.abort = "none"
    /\ Good(s, sv, en, cl)

-------------------------------------------------------------------------------
(* Channels.                                                               *)

(* updateChannel() for a channel whose events were set to E.               *)
LEMMA UpdateEffect ==
    ASSUME NEW ch \in ChannelRecord, ch.fail = "none", ChanOK(ch), NEW E \in SUBSET Events,
           NEW r, r = UpdateChannel(WithEvents(ch, E))
    PROVE  /\ r \in ChannelRecord
           /\ ChanOK(r)
           /\ r.events = E
           /\ IF ch.idx = KDEL /\ ~ch.mapped
                 THEN r.fail = "EpollPoller.cc:35" /\ ~r.mapped /\ r.idx = KDEL
                 ELSE /\ r.fail = "none" /\ r.mapped
                      /\ r.idx = IF ch.idx = KADDED /\ E = {} THEN KDEL ELSE KADDED
  BY DEF WithEvents, ChannelRecord, ChanOK, UpdateChannel, IsNoneEvent, KNEW, KDEL, KADDED, ChannelAssertions

(* The second update of enableWrite() changes nothing.                     *)
LEMMA EnableWriteOnce ==
    ASSUME NEW ch \in ChannelRecord, ch.fail = "none", ChanOK(ch)
    PROVE  EnableWrite(ch) = UpdateChannel(WithEvents(ch, ch.events \cup {"out"}))
<1> DEFINE E == ch.events \cup {"out"}
           r == UpdateChannel(WithEvents(ch, E))
<1>1. E \in SUBSET Events /\ E # {}
  BY DEF ChannelRecord, Events
<1>2. /\ r \in ChannelRecord /\ ChanOK(r) /\ r.events = E
      /\ \/ r.fail = "EpollPoller.cc:35"
         \/ r.fail = "none" /\ r.idx = KADDED
  BY <1>1, UpdateEffect
<1>3. EnableWrite(ch) = UpdateChannel(r)
  BY DEF EnableWrite, WithEvents
<1> HIDE DEF r
<1>4. CASE r.fail = "EpollPoller.cc:35"
  <2>1. UpdateChannel(r) = r
    BY <1>4 DEF UpdateChannel
  <2> QED
    BY <1>3, <2>1 DEF r
<1>5. CASE r.fail = "none" /\ r.idx = KADDED
  <2>1. r.interest = {r.events} /\ r.events # {}
    BY <1>1, <1>2, <1>5 DEF ChanOK
  <2>2. UpdateChannel(r) = [r EXCEPT !.interest = {r.events}]
    BY <1>5, <2>1 DEF UpdateChannel, IsNoneEvent, KNEW, KDEL, KADDED
  <2>3. [r EXCEPT !.interest = {r.events}] = r
    BY <1>2, <2>1 DEF ChannelRecord
  <2> QED
    BY <1>3, <2>2, <2>3 DEF r
<1> QED
  BY <1>2, <1>4, <1>5

(* Channel::remove(): it succeeds only for a channel that was added and    *)
(* has no events.                                                          *)
LEMMA RemoveEffect ==
    ASSUME NEW ch \in ChannelRecord, ch.fail = "none", ChanOK(ch), NEW r, r = Remove(ch)
    PROVE  /\ r \in ChannelRecord
           /\ ChanOK(r)
           /\ r.events = ch.events
           /\ ch.events # {} => r.fail = "Channel.cc:42"
           /\ ch.events = {} =>
                 /\ ch.mapped /\ ch.idx = KDEL => r.fail = "EpollPoller.cc:67"
                 /\ ch.mapped /\ ch.idx # KDEL => /\ r.fail = "none" /\ ~r.mapped
                                                  /\ r.idx = KDEL
  BY DEF ChannelRecord, ChanOK, Remove, RemoveChannel, IsNoneEvent, KNEW, KDEL, KADDED,
         ChannelAssertions

-------------------------------------------------------------------------------
(* The fields that the building blocks of handlers change.                 *)

LEMMA FailFields ==
    ASSUME NEW s \in States, NEW w \in Aborts, NEW t, t = Fail(s, w)
    PROVE  /\ t \in States
           /\ t.abort = w
           /\ t.connections = s.connections
           /\ t.conn = s.conn
           /\ t.chan = s.chan
           /\ t.loop = s.loop
           /\ t.sock = s.sock
  BY DEF Fail, States

LEMMA SetChanFields ==
    ASSUME NEW s \in States, NEW c \in Conns \cup {Listen}, NEW ch \in ChannelRecord,
           NEW t, t = SetChan(s, c, ch)
    PROVE  /\ t \in States
           /\ t.abort = IF s.abort = "none" THEN ch.fail ELSE s.abort
           /\ t.connections = s.connections
           /\ t.conn = s.conn
           /\ t.chan = [s.chan EXCEPT ![c] = ch]
           /\ t.loop = s.loop
           /\ t.sock = s.sock
  BY DEF SetChan, States, ChannelRecord, Aborts

LEMMA SetStatFields ==
    ASSUME NEW s \in States, NEW c \in Conns, NEW x \in Stats,
           NEW t, t = SetStat(s, c, x)
    PROVE  /\ t \in States
           /\ t.abort = s.abort
           /\ t.connections = s.connections
           /\ t.conn[c].stat = x
           /\ t.conn[c].loop = s.conn[c].loop
           /\ t.conn[c].revived = s.conn[c].revived
           /\ t.conn[c].reading = s.conn[c].reading
           /\ t.conn[c].wire = s.conn[c].wire
           /\ t.conn[c].out = s.conn[c].out
           /\ \A d \in Conns \ {c} : t.conn[d] = s.conn[d]
           /\ t.chan = s.chan
           /\ t.loop = s.loop
           /\ t.sock = s.sock
  BY DEF SetStat, States, ConnRecord

LEMMA QueueFields ==
    ASSUME NEW s \in States, NEW l \in Loops, NEW f \in Functors,
           NEW t, t = QueueInLoop(s, l, f)
    PROVE  /\ t \in States
           /\ t.abort = s.abort
           /\ t.connections = s.connections
           /\ t.conn = s.conn
           /\ t.chan = s.chan
           /\ t.loop = Queued(s.loop, l, f)
           /\ t.sock = s.sock
<1>1. s.loop \in [Loops -> LoopRecord] /\ s.loop[l] \in LoopRecord
  BY DEF States
<1>2. s.loop[l].queue \in Seq(Functors)
  BY <1>1 DEF LoopRecord
<1> DEFINE q == Append(s.loop[l].queue, f)
           r == [s.loop[l] EXCEPT !.queue = q]
<1>3. q \in Seq(Functors)
  BY <1>2
<1> HIDE DEF q
<1>4. r \in LoopRecord
  BY <1>1, <1>3 DEF LoopRecord
<1>5. t = [s EXCEPT !.loop = [s.loop EXCEPT ![l] = r]]
  BY DEF QueueInLoop, q
<1> HIDE DEF r
<1>6. [s.loop EXCEPT ![l] = r] \in [Loops -> LoopRecord]
  BY <1>1, <1>4
<1>7. /\ t \in States
      /\ t.abort = s.abort
      /\ t.connections = s.connections
      /\ t.conn = s.conn
      /\ t.chan = s.chan
      /\ t.loop = [s.loop EXCEPT ![l] = r]
      /\ t.sock = s.sock
  BY <1>5, <1>6 DEF States
<1> QED
  BY <1>7 DEF r, q, Queued

LEMMA StateTyped ==
    ASSUME TypeOK PROVE State \in States
  BY DEF State, States, TypeOK

LEMMA WorkTyped ==
    ASSUME NEW s \in States, NEW l \in Loops
    PROVE  Work(s, l) \in Seq(Functors)
<1>1. s.loop[l].batch \in Seq(Functors) /\ s.loop[l].queue \in Seq(Functors)
  BY DEF States, LoopRecord
<1> QED
  BY <1>1 DEF Work

LEMMA FunctorFields ==
    ASSUME NEW f \in Functors
    PROVE  f.conn \in Conns /\ f.op \in UserOps \cup LifeOps
  BY DEF Functors, UserOps, LifeOps

LEMMA ConcatTails ==
    ASSUME NEW S, NEW a \in Seq(S), NEW b \in Seq(S), NEW e \in S
    PROVE  /\ a \o Append(b, e) = Append(a \o b, e)
           /\ a # <<>> => a \o b # <<>> /\ Head(a) = Head(a \o b) /\ Tail(a) \o b = Tail(a \o b)
<1>1. a \o Append(b, e) = Append(a \o b, e)
  <2>1. a \o Append(b, e) \in Seq(S) /\ Append(a \o b, e) \in Seq(S)
    OBVIOUS
  <2>2. Len(a \o Append(b, e)) = Len(Append(a \o b, e))
    OBVIOUS
  <2>3. \A i \in 1 .. Len(a \o Append(b, e)) : (a \o Append(b, e))[i] = Append(a \o b, e)[i]
    OBVIOUS
  <2> QED
    BY <2>1, <2>2, <2>3, SeqEqual
<1>2. ASSUME a # <<>>
      PROVE  a \o b # <<>> /\ Head(a) = Head(a \o b) /\ Tail(a) \o b = Tail(a \o b)
  <2>1. Len(a) > 0 /\ Tail(a) \in Seq(S) /\ a \o b \in Seq(S)
    BY <1>2
  <2>2. Len(a \o b) = Len(a) + Len(b) /\ a \o b # <<>> /\ Head(a) = Head(a \o b)
    BY <1>2, <2>1
  <2>3. Tail(a) \o b \in Seq(S) /\ Tail(a \o b) \in Seq(S)
    BY <2>1, <2>2
  <2>4. Len(Tail(a) \o b) = Len(Tail(a \o b))
    BY <2>1, <2>2
  <2>5. \A i \in 1 .. Len(Tail(a) \o b) : (Tail(a) \o b)[i] = Tail(a \o b)[i]
    BY <1>2, <2>1, <2>2
  <2> QED
    BY <2>2, <2>3, <2>4, <2>5, SeqEqual
<1> QED
  BY <1>1, <1>2

(* A functor is queued behind the others of its loop.                      *)
LEMMA WorkQueued ==
    ASSUME NEW s \in States, NEW t \in States, NEW l \in Loops, NEW f \in Functors,
           t.loop = Queued(s.loop, l, f)
    PROVE  /\ Work(t, l) = Append(Work(s, l), f)
           /\ \A m \in Loops \ {l} : Work(t, m) = Work(s, m)
           /\ \A m \in Loops : /\ t.loop[m].phase = s.loop[m].phase
                               /\ t.loop[m].active = s.loop[m].active
                               /\ t.loop[m].batch = s.loop[m].batch
<1>1. s.loop \in [Loops -> LoopRecord] /\ s.loop[l] \in LoopRecord
  BY DEF States
<1>2. s.loop[l].batch \in Seq(Functors) /\ s.loop[l].queue \in Seq(Functors)
  BY <1>1 DEF LoopRecord
<1>3. /\ t.loop[l] = [s.loop[l] EXCEPT !.queue = Append(s.loop[l].queue, f)]
      /\ \A m \in Loops \ {l} : t.loop[m] = s.loop[m]
  BY <1>1 DEF Queued, Taken
<1>4. /\ t.loop[l].queue = Append(s.loop[l].queue, f)
      /\ t.loop[l].batch = s.loop[l].batch
      /\ t.loop[l].phase = s.loop[l].phase
      /\ t.loop[l].active = s.loop[l].active
  BY <1>1, <1>3 DEF LoopRecord
<1>5. s.loop[l].batch \o Append(s.loop[l].queue, f)
         = Append(s.loop[l].batch \o s.loop[l].queue, f)
  <2>1. \A a, b \in Seq(Functors) : a \o Append(b, f) = Append(a \o b, f)
    BY ConcatTails
  <2> QED
    BY <1>2, <2>1, Zenon
<1> QED
  BY <1>3, <1>4, <1>5 DEF Work

(* A loop takes the next functor of its batch.                             *)
LEMMA WorkTaken ==
    ASSUME NEW s \in States, NEW t \in States, NEW l \in Loops, s.loop[l].batch # <<>>,
           t.loop = Taken(s.loop, l)
    PROVE  /\ Work(s, l) # <<>>
           /\ Head(s.loop[l].batch) = Head(Work(s, l))
           /\ Work(t, l) = Tail(Work(s, l))
           /\ \A m \in Loops \ {l} : Work(t, m) = Work(s, m)
           /\ \A m \in Loops : /\ t.loop[m].phase = s.loop[m].phase
                               /\ t.loop[m].active = s.loop[m].active
                               /\ s.loop[m].batch = <<>> => t.loop[m].batch = <<>>
<1>1. s.loop \in [Loops -> LoopRecord] /\ s.loop[l] \in LoopRecord
  BY DEF States
<1>2. s.loop[l].batch \in Seq(Functors) /\ s.loop[l].queue \in Seq(Functors)
  BY <1>1 DEF LoopRecord
<1>3. /\ t.loop[l] = [s.loop[l] EXCEPT !.batch = Tail(s.loop[l].batch)]
      /\ \A m \in Loops \ {l} : t.loop[m] = s.loop[m]
  BY <1>1 DEF Queued, Taken
<1>4. /\ t.loop[l].batch = Tail(s.loop[l].batch)
      /\ t.loop[l].queue = s.loop[l].queue
      /\ t.loop[l].phase = s.loop[l].phase
      /\ t.loop[l].active = s.loop[l].active
  BY <1>1, <1>3 DEF LoopRecord
<1>5. /\ s.loop[l].batch \o s.loop[l].queue # <<>>
      /\ Head(s.loop[l].batch) = Head(s.loop[l].batch \o s.loop[l].queue)
      /\ Tail(s.loop[l].batch) \o s.loop[l].queue = Tail(s.loop[l].batch \o s.loop[l].queue)
  <2>1. Head(s.loop[l].batch) \in Functors
    BY <1>2
  <2>2. \A a, b \in Seq(Functors) :
            a # <<>> => a \o b # <<>> /\ Head(a) = Head(a \o b) /\ Tail(a) \o b = Tail(a \o b)
    BY <2>1, ConcatTails
  <2> QED
    BY <1>2, <2>2, Zenon
<1>6. \A m \in Loops : /\ t.loop[m].phase = s.loop[m].phase
                        /\ t.loop[m].active = s.loop[m].active
                        /\ s.loop[m].batch = <<>> => t.loop[m].batch = <<>>
  BY <1>3, <1>4
<1> QED
  BY <1>3, <1>4, <1>5, <1>6 DEF Work

-------------------------------------------------------------------------------
(* What a step leaves alone of a connection.                               *)

SameLife(s, t, d) ==
    /\ d \in t.connections <=> d \in s.connections
    /\ t.conn[d].stat = s.conn[d].stat
    /\ t.conn[d].loop = s.conn[d].loop
    /\ t.conn[d].revived = s.conn[d].revived
    /\ t.sock[d].where = s.sock[d].where
    /\ Removed(t, d) => Removed(s, d)

(* The functors that matter for the life of d have at most moved forward   *)
(* in their loops, and new calls of d are on its loop.                     *)
Moved(s, t, d) ==
    /\ \A l \in Loops : \E k \in {0, 1} : \A i \in Nat, op \in LifeOps :
           At(t, l, i, op, d) <=> At(s, l, i + k, op, d)
    /\ \A l \in Loops, i \in Nat, op \in UserOps :
           At(t, l, i, op, d) => \/ \E j \in Nat : At(s, l, j, op, d)
                                 \/ Met(s, d) /\ s.conn[d].loop = l

LEMMA MovedSame ==
    ASSUME NEW s, NEW t, \A l \in Loops : Work(t, l) = Work(s, l), NEW d
    PROVE  Moved(s, t, d)
<1>1. \A l \in Loops, i \in Nat : \A op : At(t, l, i, op, d) <=> At(s, l, i, op, d)
  BY DEF At
<1>2. \A i \in Nat : i + 0 = i
  OBVIOUS
<1>3. \A l \in Loops, i \in Nat, op \in LifeOps :
          At(t, l, i, op, d) <=> At(s, l, i + 0, op, d)
  BY <1>1, <1>2
<1> QED
  BY <1>1, <1>3 DEF Moved

(* At() after a functor was queued, and after one was taken.               *)
LEMMA AtQueued ==
    ASSUME NEW s \in States, NEW t \in States, NEW l \in Loops, NEW f \in Functors,
           t.loop = Queued(s.loop, l, f), NEW d, NEW op, NEW m \in Loops, NEW i \in Nat
    PROVE  At(t, m, i, op, d) <=>
               \/ At(s, m, i, op, d)
               \/ m = l /\ i = Len(Work(s, l)) + 1 /\ op = f.op /\ d = f.conn
<1>1. /\ Work(t, l) = Append(Work(s, l), f)
      /\ \A n \in Loops \ {l} : Work(t, n) = Work(s, n)
  BY WorkQueued
<1>2. Work(s, l) \in Seq(Functors)
  BY WorkTyped
<1>3. CASE m = l
  <2> DEFINE w == Work(s, l)
  <2>1. Len(Append(w, f)) = Len(w) + 1 /\ Len(w) \in Nat
    BY <1>2
  <2>2. \A j \in 1 .. Len(w) : Append(w, f)[j] = w[j]
    BY <1>2
  <2>3. Append(w, f)[Len(w) + 1] = f
    BY <1>2
  <2> HIDE DEF w
  <2>4. i \in 1 .. Len(w) + 1 <=> i \in 1 .. Len(w) \/ i = Len(w) + 1
    BY <2>1
  <2>5. i \in 1 .. Len(w) => i # Len(w) + 1
    BY <2>1
  <2>6. Work(t, m) = Append(w, f) /\ Work(s, m) = w
    BY <1>1, <1>3 DEF w
  <2> QED
    BY <1>3, <2>1, <2>2, <2>3, <2>4, <2>5, <2>6 DEF At, w
<1>4. CASE m # l
  BY <1>1, <1>4 DEF At
<1> QED
  BY <1>3, <1>4

LEMMA AtTaken ==
    ASSUME NEW s \in States, NEW t \in States, NEW l \in Loops, s.loop[l].batch # <<>>,
           t.loop = Taken(s.loop, l), NEW d, NEW op, NEW m \in Loops, NEW i \in Nat
    PROVE  At(t, m, i, op, d) <=>
               At(s, m, IF m = l THEN i + 1 ELSE i, op, d) /\ (m = l => i > 0)
<1>1. /\ Work(s, l) # <<>>
      /\ Work(t, l) = Tail(Work(s, l))
      /\ \A n \in Loops \ {l} : Work(t, n) = Work(s, n)
  BY WorkTaken
<1>2. Work(s, l) \in Seq(Functors)
  BY WorkTyped
<1>3. CASE m = l
  <2> DEFINE w == Work(s, l)
  <2>1. Len(Tail(w)) = Len(w) - 1 /\ Len(w) \in Nat \ {0}
    BY <1>1, <1>2
  <2>2. \A j \in 1 .. Len(w) - 1 : Tail(w)[j] = w[j + 1]
    BY <1>1, <1>2
  <2> HIDE DEF w
  <2>3. i \in 1 .. Len(w) - 1 <=> i + 1 \in 1 .. Len(w) /\ i > 0
    BY <2>1
  <2>4. Work(t, m) = Tail(w) /\ Work(s, m) = w
    BY <1>1, <1>3 DEF w
  <2> QED
    BY <1>3, <2>1, <2>2, <2>3, <2>4 DEF At
<1>4. CASE m # l
  BY <1>1, <1>4 DEF At
<1> QED
  BY <1>3, <1>4

LEMMA AtHead ==
    ASSUME NEW s \in States, NEW l \in Loops, s.loop[l].batch # <<>>,
           NEW f, f = Head(s.loop[l].batch)
    PROVE  /\ f \in Functors
           /\ At(s, l, 1, f.op, f.conn)
           /\ \A op, d : At(s, l, 1, op, d) => op = f.op /\ d = f.conn
<1>1. s.loop[l].batch \in Seq(Functors) /\ s.loop[l].queue \in Seq(Functors)
  BY DEF States, LoopRecord
<1>2. f = (s.loop[l].batch)[1] /\ 1 \in 1 .. Len(s.loop[l].batch) /\ f \in Functors
  BY <1>1
<1>3. 1 \in 1 .. Len(Work(s, l)) /\ Work(s, l)[1] = f
  <2>1. \A a, b \in Seq(Functors) :
            1 \in 1 .. Len(a) => 1 \in 1 .. Len(a \o b) /\ (a \o b)[1] = a[1]
    OBVIOUS
  <2> QED
    BY <1>1, <1>2, <2>1, Zenon DEF Work
<1> QED
  BY <1>2, <1>3 DEF At

LEMMA MovedQueued ==
    ASSUME NEW s \in States, NEW t \in States, NEW l \in Loops, NEW f \in Functors,
           t.loop = Queued(s.loop, l, f), NEW d,
           f.conn = d => f.op \in UserOps /\ Met(s, d) /\ s.conn[d].loop = l
    PROVE  Moved(s, t, d)
<1>1. \A m \in Loops, i \in Nat : \A op :
          At(t, m, i, op, d) <=>
              \/ At(s, m, i, op, d)
              \/ m = l /\ i = Len(Work(s, l)) + 1 /\ op = f.op /\ d = f.conn
  BY AtQueued
<1>2. \A op \in LifeOps : op \notin UserOps
  BY DEF LifeOps, UserOps, CallOps
<1>3. \A m \in Loops, i \in Nat, op \in LifeOps :
          At(t, m, i, op, d) <=> At(s, m, i + 0, op, d)
  <2>1. \A i \in Nat : i + 0 = i
    OBVIOUS
  <2> QED
    BY <1>1, <1>2, <2>1
<1>4. \A m \in Loops, i \in Nat, op \in UserOps :
           At(t, m, i, op, d) => \/ \E j \in Nat : At(s, m, j, op, d)
                                 \/ Met(s, d) /\ s.conn[d].loop = m
  BY <1>1
<1> QED
  BY <1>3, <1>4 DEF Moved

LEMMA MovedTaken ==
    ASSUME NEW s \in States, NEW t \in States, NEW l \in Loops, s.loop[l].batch # <<>>,
           t.loop = Taken(s.loop, l), NEW d,
           LET f == Head(s.loop[l].batch) IN f.conn # d \/ f.op \in UserOps
    PROVE  Moved(s, t, d)
<1> DEFINE f == Head(s.loop[l].batch)
<1>1. \A m \in Loops, i \in Nat : \A op :
          At(t, m, i, op, d) <=> At(s, m, IF m = l THEN i + 1 ELSE i, op, d) /\ (m = l => i > 0)
  BY AtTaken
<1>2. \A op : At(s, l, 1, op, d) => op = f.op /\ d = f.conn
  BY AtHead
<1>3. \A op \in LifeOps : ~At(s, l, 0 + 1, op, d)
  <2>1. \A op \in LifeOps : op \notin UserOps
    BY DEF LifeOps, UserOps, CallOps
  <2> QED
    BY <1>2, <2>1
<1> HIDE DEF f
<1>4. ASSUME NEW m \in Loops
      PROVE  \E k \in {0, 1} : \A i \in Nat, op \in LifeOps :
                 At(t, m, i, op, d) <=> At(s, m, i + k, op, d)
  <2>1. CASE m = l
    <3>1. \A i \in Nat, op \in LifeOps : At(t, m, i, op, d) <=> At(s, m, i + 1, op, d)
      <4> TAKE i \in Nat, op \in LifeOps
      <4>1. CASE i = 0
        <5>1. ~At(t, m, i, op, d)
          BY <1>1, <2>1, <4>1
        <5>2. ~At(s, m, i + 1, op, d)
          BY <1>3, <2>1, <4>1
        <5> QED
          BY <5>1, <5>2
      <4>2. CASE i > 0
        BY <1>1, <2>1, <4>2
      <4> QED
        BY <4>1, <4>2
    <3> QED
      BY <3>1
  <2>2. CASE m # l
    <3>1. \A i \in Nat : i + 0 = i
      OBVIOUS
    <3>2. \A i \in Nat, op \in LifeOps : At(t, m, i, op, d) <=> At(s, m, i + 0, op, d)
      BY <1>1, <2>2, <3>1
    <3> QED
      BY <3>2
  <2> QED
    BY <2>1, <2>2
<1>5. \A m \in Loops, i \in Nat, op \in UserOps :
           At(t, m, i, op, d) => \E j \in Nat : At(s, m, j, op, d)
  <2> TAKE m \in Loops, i \in Nat, op \in UserOps
  <2> HAVE At(t, m, i, op, d)
  <2>1. CASE m = l
    BY <1>1, <2>1
  <2>2. CASE m # l
    BY <1>1, <2>2
  <2> QED
    BY <2>1, <2>2
<1> QED
  BY <1>4, <1>5 DEF Moved

(* Such a step leaves what is known of d.                                  *)
LEMMA LifeFrame ==
    ASSUME NEW s \in States, NEW t, NEW sv, NEW en, NEW sw, NEW eo, NEW d \in Conns,
           SameLife(s, t, d), Moved(s, t, d), LifeOf(s, sv, en, d),
           HandedOver(s, sv, en, d) => HandedOver(t, sw, eo, d)
    PROVE  LifeOf(t, sw, eo, d)
<1> DEFINE m == s.conn[d].loop
<1>0. m \in Loops /\ Base \in Loops
  BY DEF States, ConnRecord, Loops
<1>1. ConnOf(t, d)
  BY DEF LifeOf, ConnOf, SameLife
<1>2. PendingOf(t, d)
  <2> SUFFICES ASSUME t.conn[d].stat = "KCONNECTING"
               PROVE  /\ \E i \in Nat : At(t, m, i, "established", d)
                      /\ \A i \in Nat : At(t, m, i, "destory", d) =>
                             \E j \in Nat : j < i /\ At(t, m, j, "established", d)
    BY DEF PendingOf, SameLife
  <2>1. /\ \E i \in Nat : At(s, m, i, "established", d)
        /\ \A i \in Nat : At(s, m, i, "destory", d) =>
               \E j \in Nat : j < i /\ At(s, m, j, "established", d)
    BY DEF LifeOf, PendingOf, SameLife
  <2>2. PICK k \in {0, 1} : \A i \in Nat, op \in LifeOps :
            At(t, m, i, op, d) <=> At(s, m, i + k, op, d)
    BY <1>0 DEF Moved
  <2>3. \A j \in Nat : At(s, m, j, "established", d) =>
            j - k \in Nat /\ At(t, m, j - k, "established", d)
    <3> TAKE j \in Nat
    <3> HAVE At(s, m, j, "established", d)
    <3>1. j > 0
      BY DEF At
    <3>2. j - k \in Nat /\ (j - k) + k = j
      BY <3>1
    <3> QED
      BY <2>2, <3>2 DEF LifeOps
  <2>4. \E i \in Nat : At(t, m, i, "established", d)
    BY <2>1, <2>3
  <2>5. ASSUME NEW i \in Nat, At(t, m, i, "destory", d)
        PROVE  \E j \in Nat : j < i /\ At(t, m, j, "established", d)
    <3>1. At(s, m, i + k, "destory", d) /\ i + k \in Nat
      BY <2>2, <2>5 DEF LifeOps
    <3>2. PICK j \in Nat : j < i + k /\ At(s, m, j, "established", d)
      BY <2>1, <3>1
    <3>3. j - k \in Nat /\ At(t, m, j - k, "established", d)
      BY <2>3, <3>2
    <3>4. j - k < i
      BY <3>2
    <3> QED
      BY <3>3, <3>4
  <2> QED
    BY <2>4, <2>5
<1>3. RemovalOf(t, sw, eo, d)
  <2> SUFFICES ASSUME d \in t.connections, t.conn[d].stat = "KDISCONNECTED",
                      ~HandedOver(t, sw, eo, d)
               PROVE  \E i \in Nat : At(t, Base, i, "remove", d)
    BY DEF RemovalOf
  <2>1. PICK i \in Nat : At(s, Base, i, "remove", d)
    BY DEF LifeOf, RemovalOf, SameLife
  <2>2. PICK k \in {0, 1} : \A j \in Nat, op \in LifeOps :
            At(t, Base, j, op, d) <=> At(s, Base, j + k, op, d)
    BY <1>0 DEF Moved
  <2>3. i > 0
    BY <2>1 DEF At
  <2>4. i - k \in Nat /\ (i - k) + k = i
    BY <2>3
  <2> QED
    BY <2>1, <2>2, <2>4 DEF LifeOps
<1>4. FunctorsOf(t, sw, eo, d)
  <2>1. \A l \in Loops, i \in Nat, op \in UserOps :
           At(t, l, i, op, d) => Met(t, d) /\ t.conn[d].loop = l
    BY DEF LifeOf, FunctorsOf, Moved, SameLife, Met
  <2>2. ASSUME NEW l \in Loops, NEW i \in Nat, NEW op \in LifeOps, At(t, l, i, op, d)
        PROVE  LifeFunctor(t, sw, eo, l, op, d)
    <3>1. PICK k \in {0, 1} : \A j \in Nat, o \in LifeOps :
            At(t, l, j, o, d) <=> At(s, l, j + k, o, d)
      BY DEF Moved
    <3>2. i + k \in Nat /\ At(s, l, i + k, op, d)
      BY <2>2, <3>1
    <3>3. LifeFunctor(s, sv, en, l, op, d)
      BY <3>2 DEF LifeOf, FunctorsOf
    <3> QED
      BY <3>3 DEF LifeFunctor, SameLife
  <2>3. ASSUME NEW l \in Loops, NEW i \in Nat, NEW j \in Nat, NEW op \in LifeOps,
               At(t, l, i, op, d), At(t, l, j, op, d), Single(t, op, d)
        PROVE  i = j
    <3>1. PICK k \in {0, 1} : \A n \in Nat, o \in LifeOps :
            At(t, l, n, o, d) <=> At(s, l, n + k, o, d)
      BY DEF Moved
    <3>2. i + k \in Nat /\ At(s, l, i + k, op, d) /\ j + k \in Nat /\ At(s, l, j + k, op, d)
      BY <2>3, <3>1
    <3>3. Single(s, op, d)
      BY <2>3 DEF Single, SameLife
    <3>4. i + k = j + k
      BY <3>2, <3>3 DEF LifeOf, FunctorsOf
    <3> QED
      BY <3>4
  <2> QED
    BY <2>1, <2>2, <2>3 DEF FunctorsOf
<1> QED
  BY <1>1, <1>2, <1>3, <1>4 DEF LifeOf

LEMMA ChanFrame ==
    ASSUME NEW s, NEW t, NEW sv, NEW en, NEW sw, NEW eo, NEW d,
           t.chan[d] = s.chan[d], t.conn[d].stat = s.conn[d].stat,
           t.conn[d].reading = s.conn[d].reading,
           t.conn[d].out # <<>> => "out" \in s.chan[d].events,
           HandedOver(s, sv, en, d) => HandedOver(t, sw, eo, d), ChanOf(s, sv, en, d)
    PROVE  ChanOf(t, sw, eo, d)
  BY DEF ChanOf, Met, Removed

LEMMA ActiveFrame ==
    ASSUME NEW s, NEW t, NEW d,
           \A l \in Loops : t.loop[l].active \subseteq s.loop[l].active,
           t.conn[d].loop = s.conn[d].loop, Met(s, d) => Met(t, d),
           s.chan[d].mapped => t.chan[d].mapped, ActiveOf(s, d)
    PROVE  ActiveOf(t, d)
  BY DEF ActiveOf

(* All of it for a connection that a step does not touch.                  *)
Untouched(s, t, d) ==
    /\ t.conn[d] = s.conn[d]
    /\ t.chan[d] = s.chan[d]
    /\ t.sock[d].where = s.sock[d].where
    /\ d \in t.connections <=> d \in s.connections
    /\ Moved(s, t, d)

LEMMA UntouchedFrame ==
    ASSUME NEW s \in States, NEW t, NEW sv, NEW en, NEW sw, NEW eo, NEW d \in Conns,
           Untouched(s, t, d), ConnInv(s, sv, en, d),
           \A l \in Loops : t.loop[l].active \subseteq s.loop[l].active,
           HandedOver(s, sv, en, d) => HandedOver(t, sw, eo, d)
    PROVE  ConnInv(t, sw, eo, d)
<1>1. ActiveOf(t, d)
  BY ActiveFrame DEF Untouched, ConnInv, Met
<1>2. ChanOf(t, sw, eo, d)
  <2>1. t.conn[d].out # <<>> => "out" \in s.chan[d].events
    BY DEF Untouched, ConnInv, ChanOf
  <2> QED
    BY <2>1, ChanFrame DEF Untouched, ConnInv
<1>3. LifeOf(t, sw, eo, d)
  <2>1. SameLife(s, t, d)
    BY DEF SameLife, Untouched, Removed
  <2> QED
    BY <2>1, LifeFrame DEF Untouched, ConnInv
<1> QED
  BY <1>1, <1>2, <1>3 DEF ConnInv

LEMMA ExplainedAlive ==
    ASSUME NEW t, NEW sv, NEW en, t.abort = "none"
    PROVE  Explained(t, sv, en)
  BY DEF Explained

-------------------------------------------------------------------------------
(* A step that touches one connection.                                     *)

LEMMA Assemble ==
    ASSUME NEW s, NEW sv, NEW en, NEW cl, Ready(s, sv, en, cl), NEW t \in States,
           NEW eo, eo \subseteq en, eo \subseteq t.connections, t.abort = "none",
           \A d \in Conns : ConnInv(t, sv, eo, d) /\ ChanOK(t.chan[d]),
           \A d \in Conns : Met(s, d) => Met(t, d),
           \A d \in Conns : s.sock[d].where = "none" /\ sv # "started" =>
                                t.sock[d].where = "none",
           t.chan[Listen] = s.chan[Listen],
           \A l \in Loops : /\ t.loop[l].phase = s.loop[l].phase
                            /\ t.loop[l].active \subseteq s.loop[l].active
                            /\ s.loop[l].batch = <<>> => t.loop[l].batch = <<>>
    PROVE  Result(t, sv, eo, cl)
<1>1. s \in States /\ cl \in ClientStates /\ Good(s, sv, en, cl) /\ PollerOK(s)
  BY DEF Ready
<1>2. PollerOK(t)
  BY <1>1 DEF PollerOK
<1>3. LoopInv(t)
  BY <1>1 DEF Good, LoopInv
<1>4. ServerInv(t, sv, eo)
  <2>1. Base \in Loops
    BY DEF Loops
  <2> QED
    BY <1>1, <2>1 DEF Good, ServerInv
<1>5. ClientInv(t, cl)
  <2>1. \A k \in Clients : cl[k] # Idle => cl[k].functor \in Functors
    BY <1>1 DEF ClientStates
  <2> QED
    BY <1>1, <2>1, FunctorFields DEF Good, ClientInv
<1>6. Explained(t, sv, eo)
  BY ExplainedAlive
<1> QED
  BY <1>2, <1>3, <1>4, <1>5, <1>6 DEF Result, Good

LEMMA ConnStep ==
    ASSUME NEW s, NEW sv, NEW en, NEW cl, Ready(s, sv, en, cl), NEW t \in States,
           NEW c \in Conns, t.abort = "none",
           \A d \in Conns \ {c} : Untouched(s, t, d),
           t.chan[Listen] = s.chan[Listen],
           \A l \in Loops : /\ t.loop[l].phase = s.loop[l].phase
                            /\ t.loop[l].active \subseteq s.loop[l].active
                            /\ s.loop[l].batch = <<>> => t.loop[l].batch = <<>>,
           en \subseteq t.connections,
           s.sock[c].where = "none" => t.sock[c].where = "none",
           Met(s, c) => Met(t, c),
           ChanOK(t.chan[c]), ActiveOf(t, c), ChanOf(t, sv, en, c), LifeOf(t, sv, en, c)
    PROVE  Result(t, sv, en, cl)
<1>1. s \in States /\ Good(s, sv, en, cl) /\ PollerOK(s)
  BY DEF Ready
<1>2. \A d \in Conns : s.sock[d].where = "none" => t.sock[d].where = "none"
  BY DEF Untouched
<1>3. \A d \in Conns : Met(s, d) => Met(t, d)
  BY DEF Untouched, Met
<1>4. \A d \in Conns : ConnInv(t, sv, en, d) /\ ChanOK(t.chan[d])
  <2> TAKE d \in Conns
  <2>1. CASE d = c
    BY <2>1 DEF ConnInv
  <2>2. CASE d # c
    <3>1. Untouched(s, t, d) /\ ConnInv(s, sv, en, d) /\ ChanOK(s.chan[d])
      BY <1>1, <2>2 DEF Good, PollerOK
    <3>2. HandedOver(s, sv, en, d) => HandedOver(t, sv, en, d)
      BY <3>1 DEF HandedOver, Untouched
    <3>3. ConnInv(t, sv, en, d)
      BY <1>1, <3>1, <3>2, UntouchedFrame
    <3> QED
      BY <3>1, <3>3 DEF Untouched
  <2> QED
    BY <2>1, <2>2
<1>5. en \subseteq en
  OBVIOUS
<1> QED
  BY <1>2, <1>3, <1>4, <1>5, Assemble

(* A handler that queues nothing and leaves the life of every connection   *)
(* as it is.                                                               *)
LEMMA QuietStep ==
    ASSUME NEW s, NEW sv, NEW en, NEW cl, Ready(s, sv, en, cl), NEW t \in States,
           NEW c \in Conns, t.abort = "none", t.loop = s.loop, t.connections = s.connections,
           \A d \in Conns \ {c} : t.conn[d] = s.conn[d],
           \A d \in (Conns \cup {Listen}) \ {c} : t.chan[d] = s.chan[d],
           \A d \in Conns : t.sock[d].where = s.sock[d].where,
           t.conn[c].stat = s.conn[c].stat, t.conn[c].loop = s.conn[c].loop,
           t.conn[c].revived = s.conn[c].revived,
           Removed(t, c) => Removed(s, c), s.chan[c].mapped => t.chan[c].mapped,
           ChanOK(t.chan[c]), ChanOf(t, sv, en, c)
    PROVE  Result(t, sv, en, cl)
<1>1. s \in States /\ Good(s, sv, en, cl)
  BY DEF Ready
<1>2. \A d : Moved(s, t, d)
  <2>1. \A l \in Loops : Work(t, l) = Work(s, l)
    BY DEF Work
  <2> QED
    BY <2>1, MovedSame
<1>3. \A d \in Conns \ {c} : Untouched(s, t, d)
  BY <1>2 DEF Untouched
<1>4. t.chan[Listen] = s.chan[Listen]
  BY TcpServerAssumption
<1>5. ConnInv(s, sv, en, c)
  BY <1>1 DEF Good
<1>6. Met(t, c) <=> Met(s, c)
  BY DEF Met
<1>7. ActiveOf(t, c)
  BY <1>5, <1>6, ActiveFrame DEF ConnInv
<1>8. LifeOf(t, sv, en, c)
  <2>1. SameLife(s, t, c)
    BY DEF SameLife
  <2>2. HandedOver(s, sv, en, c) => HandedOver(t, sv, en, c)
    BY DEF HandedOver
  <2>3. Moved(s, t, c) /\ LifeOf(s, sv, en, c)
    BY <1>2, <1>5 DEF ConnInv
  <2> QED
    BY <1>1, <2>1, <2>2, <2>3, LifeFrame
<1>9. en \subseteq t.connections
  BY <1>1 DEF Good, ServerInv
<1>10. \A l \in Loops : /\ t.loop[l].phase = s.loop[l].phase
                        /\ t.loop[l].active \subseteq s.loop[l].active
                        /\ s.loop[l].batch = <<>> => t.loop[l].batch = <<>>
  OBVIOUS
<1> QED
  BY <1>3, <1>4, <1>6, <1>7, <1>8, <1>9, <1>10, ConnStep

(* A handler that sets the events of an established connection's channel:  *)
(* startRead(), stopRead(), and what send() and handleWrite() do.          *)
Updated(s, t, c, E) ==
    /\ t.chan[c] = UpdateChannel(WithEvents(s.chan[c], E))
    /\ t.abort = t.chan[c].fail
    /\ t.connections = s.connections
    /\ t.loop = s.loop
    /\ \A d \in (Conns \cup {Listen}) \ {c} : t.chan[d] = s.chan[d]
    /\ \A d \in Conns \ {c} : t.conn[d] = s.conn[d]
    /\ \A d \in Conns : t.sock[d].where = s.sock[d].where
    /\ t.conn[c].stat = s.conn[c].stat
    /\ t.conn[c].loop = s.conn[c].loop
    /\ t.conn[c].revived = s.conn[c].revived
    /\ t.conn[c].reading => "in" \in E \/ Removed(s, c)
    /\ t.conn[c].out # <<>> => "out" \in E

LEMMA UpdateStep ==
    ASSUME NEW s, NEW sv, NEW en, NEW cl, Ready(s, sv, en, cl), NEW t \in States,
           NEW c \in Conns, Met(s, c), NEW E \in SUBSET Events,
           E = {} => s.chan[c].events # {} \/ Removed(s, c), Updated(s, t, c, E)
    PROVE  Result(t, sv, en, cl)
<1> DEFINE r == t.chan[c]
<1>0. /\ r = UpdateChannel(WithEvents(s.chan[c], E))
      /\ t.abort = r.fail
      /\ t.connections = s.connections
      /\ t.loop = s.loop
      /\ \A d \in (Conns \cup {Listen}) \ {c} : t.chan[d] = s.chan[d]
      /\ \A d \in Conns \ {c} : t.conn[d] = s.conn[d]
      /\ \A d \in Conns : t.sock[d].where = s.sock[d].where
      /\ t.conn[c].stat = s.conn[c].stat
      /\ t.conn[c].loop = s.conn[c].loop
      /\ t.conn[c].revived = s.conn[c].revived
      /\ t.conn[c].reading => "in" \in E \/ Removed(s, c)
      /\ t.conn[c].out # <<>> => "out" \in E
  BY DEF Updated
<1>1. s \in States /\ cl \in ClientStates /\ Good(s, sv, en, cl) /\ PollerOK(s)
  BY DEF Ready
<1>2. /\ s.chan[c] \in ChannelRecord /\ ChanOK(s.chan[c]) /\ s.chan[c].fail = "none"
      /\ ChanOf(s, sv, en, c)
  BY <1>1 DEF States, PollerOK, Good, ConnInv, ChanOf
<1>3. /\ ChanOK(r)
      /\ r.events = E
      /\ IF s.chan[c].idx = KDEL /\ ~s.chan[c].mapped
            THEN r.fail = "EpollPoller.cc:35" /\ ~r.mapped /\ r.idx = KDEL
            ELSE /\ r.fail = "none" /\ r.mapped
                 /\ r.idx = IF s.chan[c].idx = KADDED /\ E = {} THEN KDEL ELSE KADDED
  <2>a. PICK ch \in ChannelRecord : ch = s.chan[c]
    BY <1>2
  <2>1. r = UpdateChannel(WithEvents(ch, E)) /\ ChanOK(ch) /\ ch.fail = "none"
    BY <1>0, <2>a, <1>2
  <2>b. /\ ChanOK(r)
        /\ r.events = E
        /\ IF ch.idx = KDEL /\ ~ch.mapped
              THEN r.fail = "EpollPoller.cc:35" /\ ~r.mapped /\ r.idx = KDEL
              ELSE /\ r.fail = "none" /\ r.mapped
                   /\ r.idx = IF ch.idx = KADDED /\ E = {} THEN KDEL ELSE KADDED
    BY <2>1, UpdateEffect
  <2> QED
    BY <2>a, <2>b
<1>7. CASE Removed(s, c)
  <2>1. r.fail = "EpollPoller.cc:35" /\ HandedOver(s, sv, en, c)
    BY <1>2, <1>3, <1>7 DEF Removed, ChanOf
  <2>2. PollerOK(t)
    BY <1>0, <1>1, <1>3 DEF PollerOK
  <2> QED
    BY <1>0, <2>1, <2>2 DEF Result, Explained, HandedOver
<1>8. CASE ~Removed(s, c)
  <2>1. /\ r.fail = "none" /\ r.mapped
        /\ r.idx = IF s.chan[c].idx = KADDED /\ E = {} THEN KDEL ELSE KADDED
    BY <1>3, <1>8 DEF Removed
  <2>2. ~Removed(t, c)
    BY <1>0, <2>1 DEF Removed
  <2>3. Met(t, c)
    BY <1>0 DEF Met
  <2>4. r.idx = KADDED => E # {}
    BY <1>2, <1>8, <2>1 DEF ChanOK, KDEL, KADDED
  <2>5. r.idx # KNEW
    BY <2>1 DEF KDEL, KADDED, KNEW
  <2>6. ChanOf(t, sv, en, c)
    BY <1>0, <1>3, <1>8, <2>1, <2>2, <2>3, <2>4, <2>5 DEF ChanOf
  <2>7. t.abort = "none" /\ ChanOK(t.chan[c]) /\ t.chan[c].mapped
    BY <1>0, <1>3, <2>1
  <2> QED
    BY <1>0, <2>2, <2>6, <2>7, QuietStep
<1> QED
  BY <1>7, <1>8

-------------------------------------------------------------------------------
(* Handlers of an established connection.                                  *)

LEMMA ConnFields ==
    ASSUME NEW s \in States, NEW c \in Conns, NEW r \in ConnRecord,
           NEW t, t = SetConn(s, c, r)
    PROVE  /\ t \in States
           /\ t.abort = s.abort
           /\ t.connections = s.connections
           /\ t.conn[c] = r
           /\ \A d \in Conns \ {c} : t.conn[d] = s.conn[d]
           /\ t.chan = s.chan
           /\ t.loop = s.loop
           /\ t.sock = s.sock
  BY DEF States, SetConn

(* A handler that changes only fields of conn[c] that no other part looks  *)
(* at.                                                                     *)
LEMMA DataStep ==
    ASSUME NEW s, NEW sv, NEW en, NEW cl, Ready(s, sv, en, cl), NEW c \in Conns,
           NEW r \in ConnRecord,
           r.stat = s.conn[c].stat, r.loop = s.conn[c].loop, r.revived = s.conn[c].revived,
           r.reading = s.conn[c].reading,
           r.out # <<>> => "out" \in s.chan[c].events,
           NEW t, t = SetConn(s, c, r)
    PROVE  Result(t, sv, en, cl)
<1>1. s \in States /\ Good(s, sv, en, cl) /\ s.abort = "none" /\ PollerOK(s)
  BY DEF Ready
<1>2. /\ t \in States
      /\ t.abort = s.abort
      /\ t.connections = s.connections
      /\ t.conn[c] = r
      /\ \A d \in Conns \ {c} : t.conn[d] = s.conn[d]
      /\ t.chan = s.chan
      /\ t.loop = s.loop
      /\ t.sock = s.sock
  BY <1>1, ConnFields
<1>3. ConnInv(s, sv, en, c) /\ ChanOK(s.chan[c])
  BY <1>1 DEF Good, PollerOK
<1>4. ChanOf(t, sv, en, c)
  <2>1. HandedOver(s, sv, en, c) => HandedOver(t, sv, en, c)
    BY <1>2 DEF HandedOver
  <2> QED
    BY <1>2, <1>3, <2>1, ChanFrame DEF ConnInv
<1>5. Removed(t, c) => Removed(s, c)
  BY <1>2 DEF Removed
<1> QED
  BY <1>1, <1>2, <1>3, <1>4, <1>5, QuietStep

LEMMA ShutdownStep ==
    ASSUME NEW s, NEW sv, NEW en, NEW cl, Ready(s, sv, en, cl), NEW c \in Conns
    PROVE  Result(ShutdownInLoop(s, c), sv, en, cl)
<1>1. s \in States /\ Good(s, sv, en, cl) /\ s.abort = "none" /\ PollerOK(s)
  BY DEF Ready
<1>2. CASE IsWriting(s.chan[c])
  <2> DEFINE r == [s.conn[c] EXCEPT !.shut = TRUE]
  <2>1. s.conn[c] \in ConnRecord
    BY <1>1 DEF States
  <2>2. /\ r \in ConnRecord
        /\ r.stat = s.conn[c].stat /\ r.loop = s.conn[c].loop /\ r.revived = s.conn[c].revived
        /\ r.reading = s.conn[c].reading /\ r.out = s.conn[c].out
    BY <2>1 DEF ConnRecord
  <2>3. ShutdownInLoop(s, c) = SetConn(s, c, r)
    BY <1>2 DEF ShutdownInLoop, SetConn
  <2>4. r.out # <<>> => "out" \in s.chan[c].events
    BY <1>1, <2>2 DEF Good, ConnInv, ChanOf
  <2> HIDE DEF r
  <2> QED
    BY <2>2, <2>3, <2>4, DataStep
<1>3. CASE ~IsWriting(s.chan[c])
  BY <1>1, <1>3, ExplainedAlive DEF ShutdownInLoop, Result
<1> QED
  BY <1>2, <1>3

(* A handler that changes fields of conn[c] and the events of its channel. *)
LEMMA EventsStep ==
    ASSUME NEW s, NEW sv, NEW en, NEW cl, Ready(s, sv, en, cl), NEW c \in Conns, Met(s, c),
           NEW q \in ConnRecord,
           q.stat = s.conn[c].stat, q.loop = s.conn[c].loop, q.revived = s.conn[c].revived,
           NEW E \in SUBSET Events, E = {} => s.chan[c].events # {} \/ Removed(s, c),
           q.reading => "in" \in E \/ Removed(s, c), q.out # <<>> => "out" \in E,
           NEW r, r = UpdateChannel(WithEvents(s.chan[c], E)),
           NEW t, t = SetChan(SetConn(s, c, q), c, r)
    PROVE  Result(t, sv, en, cl) /\ t \in States /\ t.chan[c].events = E
<1>1. s \in States /\ Good(s, sv, en, cl) /\ s.abort = "none" /\ PollerOK(s)
  BY DEF Ready
<1>2. s.chan[c] \in ChannelRecord /\ ChanOK(s.chan[c]) /\ s.chan[c].fail = "none"
  BY <1>1 DEF States, PollerOK, Good, ConnInv, ChanOf
<1>3. r \in ChannelRecord /\ r.events = E
  <2>a. PICK ch \in ChannelRecord : ch = s.chan[c]
    BY <1>2
  <2>1. r = UpdateChannel(WithEvents(ch, E)) /\ ChanOK(ch) /\ ch.fail = "none"
    BY <2>a, <1>2
  <2> QED
    BY <2>1, UpdateEffect
<1> DEFINE u == SetConn(s, c, q)
<1>4. /\ u \in States
      /\ u.abort = s.abort
      /\ u.connections = s.connections
      /\ u.conn[c] = q
      /\ \A d \in Conns \ {c} : u.conn[d] = s.conn[d]
      /\ u.chan = s.chan
      /\ u.loop = s.loop
      /\ u.sock = s.sock
  BY <1>1, ConnFields
<1>5. t = SetChan(u, c, r)
  OBVIOUS
<1> HIDE DEF u
<1>6. /\ t \in States
      /\ t.abort = r.fail
      /\ t.connections = u.connections
      /\ t.conn = u.conn
      /\ t.chan = [u.chan EXCEPT ![c] = r]
      /\ t.loop = u.loop
      /\ t.sock = u.sock
  BY <1>1, <1>3, <1>4, <1>5, SetChanFields
<1>7. t.chan[c] = r /\ \A d \in (Conns \cup {Listen}) \ {c} : t.chan[d] = s.chan[d]
  BY <1>1, <1>4, <1>6 DEF States
<1>8. /\ \A d \in Conns \ {c} : t.conn[d] = s.conn[d]
      /\ \A d \in Conns : t.sock[d].where = s.sock[d].where
      /\ t.connections = s.connections /\ t.loop = s.loop
      /\ t.conn[c].stat = s.conn[c].stat /\ t.conn[c].loop = s.conn[c].loop
      /\ t.conn[c].revived = s.conn[c].revived
      /\ t.conn[c].reading => "in" \in E \/ Removed(s, c)
      /\ t.conn[c].out # <<>> => "out" \in E
  BY <1>4, <1>6
<1>9. Updated(s, t, c, E)
  BY <1>6, <1>7, <1>8 DEF Updated
<1>10. t.chan[c].events = E
  BY <1>3, <1>7
<1> QED
  BY <1>6, <1>9, <1>10, UpdateStep

LEMMA Unchanged ==
    ASSUME NEW s, NEW sv, NEW en, NEW cl, Ready(s, sv, en, cl)
    PROVE  Result(s, sv, en, cl)
  BY ExplainedAlive DEF Ready, Result

(* What is known of an established connection.                             *)
LEMMA ReadyConn ==
    ASSUME NEW s, NEW sv, NEW en, NEW cl, Ready(s, sv, en, cl), NEW c \in Conns
    PROVE  /\ s \in States
           /\ s.abort = "none"
           /\ s.conn[c] \in ConnRecord
           /\ s.chan[c] \in ChannelRecord
           /\ ChanOK(s.chan[c])
           /\ s.chan[c].fail = "none"
           /\ s.conn[c].out # <<>> => "out" \in s.chan[c].events
           /\ Met(s, c) /\ ~Removed(s, c) /\ s.conn[c].reading => "in" \in s.chan[c].events
           /\ ConnInv(s, sv, en, c)
  BY DEF Ready, States, PollerOK, Good, ConnInv, ChanOf

LEMMA StartReadStep ==
    ASSUME NEW s, NEW sv, NEW en, NEW cl, Ready(s, sv, en, cl), NEW c \in Conns, Met(s, c)
    PROVE  Result(StartReadInLoop(s, c), sv, en, cl)
<1>1. CASE ~s.conn[c].reading \/ ~IsReading(s.chan[c])
  <2> DEFINE q == [s.conn[c] EXCEPT !.reading = TRUE]
             E == s.chan[c].events \cup {"in"}
             r == UpdateChannel(WithEvents(s.chan[c], E))
             t == SetChan(SetConn(s, c, q), c, r)
  <2>1. /\ q \in ConnRecord
        /\ q.stat = s.conn[c].stat /\ q.loop = s.conn[c].loop /\ q.revived = s.conn[c].revived
        /\ q.out = s.conn[c].out
    BY ReadyConn DEF ConnRecord
  <2>2. E \in SUBSET Events /\ E # {} /\ "in" \in E /\ s.chan[c].events \subseteq E
    BY ReadyConn DEF ChannelRecord, Events
  <2>3. StartReadInLoop(s, c) = t
    BY <1>1 DEF StartReadInLoop, EnableRead, SetConn, WithEvents
  <2>4. q.out # <<>> => "out" \in E
    BY <2>1, <2>2, ReadyConn
  <2>5. r = UpdateChannel(WithEvents(s.chan[c], E)) /\ t = SetChan(SetConn(s, c, q), c, r)
    OBVIOUS
  <2> HIDE DEF q, E, r, t
  <2> QED
    BY <2>1, <2>2, <2>3, <2>4, <2>5, EventsStep
<1>2. CASE ~(~s.conn[c].reading \/ ~IsReading(s.chan[c]))
  BY <1>2, Unchanged DEF StartReadInLoop
<1> QED
  BY <1>1, <1>2

LEMMA StopReadStep ==
    ASSUME NEW s, NEW sv, NEW en, NEW cl, Ready(s, sv, en, cl), NEW c \in Conns, Met(s, c)
    PROVE  Result(StopReadInLoop(s, c), sv, en, cl)
<1>1. CASE s.conn[c].reading \/ IsReading(s.chan[c])
  <2> DEFINE q == [s.conn[c] EXCEPT !.reading = FALSE]
             E == s.chan[c].events \ {"in"}
             r == UpdateChannel(WithEvents(s.chan[c], E))
             t == SetChan(SetConn(s, c, q), c, r)
  <2>1. /\ q \in ConnRecord
        /\ q.stat = s.conn[c].stat /\ q.loop = s.conn[c].loop /\ q.revived = s.conn[c].revived
        /\ q.out = s.conn[c].out
    BY ReadyConn DEF ConnRecord
  <2>2. E \in SUBSET Events
    BY ReadyConn DEF ChannelRecord, Events
  <2>3. StopReadInLoop(s, c) = t
    BY <1>1 DEF StopReadInLoop, DisableRead, SetConn, WithEvents
  <2>4. q.out # <<>> => "out" \in E
    BY <2>1, <2>2, ReadyConn
  <2>5. r = UpdateChannel(WithEvents(s.chan[c], E)) /\ t = SetChan(SetConn(s, c, q), c, r)
    OBVIOUS
  <2>6. s.chan[c].events # {} \/ Removed(s, c)
    BY <1>1, ReadyConn DEF IsReading
  <2>7. ~q.reading
    BY ReadyConn DEF ConnRecord
  <2> HIDE DEF q, E, r, t
  <2>8. q.reading => "in" \in E \/ Removed(s, c)
    BY <2>7
  <2> QED
    BY <2>1, <2>2, <2>3, <2>4, <2>5, <2>6, <2>8, EventsStep
<1>2. CASE ~(s.conn[c].reading \/ IsReading(s.chan[c]))
  BY <1>2, Unchanged DEF StopReadInLoop
<1> QED
  BY <1>1, <1>2

(* A failed write ends the process: no explanation is asked of it.         *)
LEMMA FailStep ==
    ASSUME NEW s, NEW sv, NEW en, NEW cl, Ready(s, sv, en, cl), NEW w \in Aborts,
           w \notin {"none", "TcpServer.cc:75", "TcpConnection.cc:170", "Channel.cc:42",
                     "EpollPoller.cc:35", "EpollPoller.cc:64", "TcpConnection.cc:111"}
    PROVE  Result(Fail(s, w), sv, en, cl)
<1>1. s \in States /\ PollerOK(s)
  BY DEF Ready
<1> DEFINE t == Fail(s, w)
<1>2. t \in States /\ t.abort = w /\ t.chan = s.chan
  BY <1>1, FailFields
<1> HIDE DEF t
<1>3. Result(t, sv, en, cl)
  BY <1>1, <1>2 DEF Result, PollerOK, Explained
<1> QED
  BY <1>3 DEF t

(* The part of a message that ::write took, and the rest of it.            *)
LEMMA UnitsSplit ==
    ASSUME NEW msg \in Messages, NEW n \in 0 .. MsgLen
    PROVE  /\ Units(msg) \in Seq(Messages) /\ Len(Units(msg)) = MsgLen
           /\ SubSeq(Units(msg), 1, n) \in Seq(Messages)
           /\ SubSeq(Units(msg), n + 1, MsgLen) \in Seq(Messages)
           /\ n = MsgLen => SubSeq(Units(msg), n + 1, MsgLen) = <<>>
<1>1. MsgLen \in Nat
  BY TcpServerAssumption
<1>2. Units(msg) \in Seq(Messages) /\ Len(Units(msg)) = MsgLen
  BY <1>1 DEF Units
<1> DEFINE w == Units(msg)
<1> HIDE DEF w
<1>3. SubSeq(w, 1, n) \in Seq(Messages) /\ SubSeq(w, n + 1, MsgLen) \in Seq(Messages)
  BY <1>1, <1>2, SubSeqProperties DEF w
<1>4. n = MsgLen => SubSeq(w, n + 1, MsgLen) = <<>>
  BY <1>1, <1>2, <1>3, SubSeqProperties, EmptySeq DEF w
<1> QED
  BY <1>2, <1>3, <1>4 DEF w

LEMMA WriteRange ==
    ASSUME NEW s, NEW c, NEW len \in Nat, NEW n \in WriteResults(s, c, len)
    PROVE  n = Killed \/ n = -1 \/ n \in 1 .. len
  BY DEF WriteResults

LEMMA SendStep ==
    ASSUME NEW s, NEW sv, NEW en, NEW cl, Ready(s, sv, en, cl), NEW c \in Conns, Met(s, c),
           NEW msg \in Messages, NEW n \in SendResults(s, c)
    PROVE  Result(SendInLoop(s, c, msg, n), sv, en, cl)
<1>0. MsgLen \in Nat \ {0}
  BY TcpServerAssumption
<1>1. n = Killed \/ n = -1 \/ n \in 0 .. MsgLen
  <2>1. CASE n = 0
    BY <1>0, <2>1
  <2>2. CASE n \in WriteResults(s, c, MsgLen) \/ n = -1
    BY <1>0, <2>2, WriteRange
  <2> QED
    BY <2>1, <2>2 DEF SendResults
<1>2. CASE s.conn[c].stat = "KDISCONNECTED"
  BY <1>2, Unchanged DEF SendInLoop
<1>3. CASE s.conn[c].stat # "KDISCONNECTED" /\ n = Killed
  <2>1. SendInLoop(s, c, msg, n) = Fail(s, "SIGPIPE")
    BY <1>3 DEF SendInLoop, Killed
  <2> QED
    BY <2>1, FailStep DEF Aborts
<1>4. CASE s.conn[c].stat # "KDISCONNECTED" /\ n = -1
  <2>1. SendInLoop(s, c, msg, n) = Fail(s, "TcpConnection.cc:213")
    BY <1>4 DEF SendInLoop, Killed
  <2> QED
    BY <2>1, FailStep DEF Aborts
<1>5. CASE s.conn[c].stat # "KDISCONNECTED" /\ n \in 0 .. MsgLen
  <2> DEFINE sent == SubSeq(Units(msg), 1, n)
             kept == SubSeq(Units(msg), n + 1, MsgLen)
             q == [s.conn[c] EXCEPT !.wire = @ \o sent, !.out = @ \o kept]
             t == SetConn(s, c, q)
  <2>1. sent \in Seq(Messages) /\ kept \in Seq(Messages) /\ (n = MsgLen => kept = <<>>)
    BY <1>5, UnitsSplit
  <2>2. n >= 0 /\ n # Killed /\ n # -1
    BY <1>0, <1>5 DEF Killed
  <2>3. SendInLoop(s, c, msg, n) = IF n < MsgLen /\ ~IsWriting(t.chan[c])
                                       THEN SetChan(t, c, EnableWrite(t.chan[c])) ELSE t
    BY <1>5, <2>2, Zenon DEF SendInLoop
  <2> HIDE DEF sent, kept
  <2>4. s.conn[c].wire \in Seq(Messages) /\ s.conn[c].out \in Seq(Messages)
    BY ReadyConn DEF ConnRecord
  <2>5. s.conn[c].wire \o sent \in Seq(Messages) /\ s.conn[c].out \o kept \in Seq(Messages)
    BY <2>1, <2>4
  <2>6. /\ q \in ConnRecord
        /\ q.stat = s.conn[c].stat /\ q.loop = s.conn[c].loop /\ q.revived = s.conn[c].revived
        /\ q.reading = s.conn[c].reading /\ q.out = s.conn[c].out \o kept
    BY <2>5, ReadyConn DEF ConnRecord
  <2>7. t.chan = s.chan
    BY <2>6, ReadyConn, ConnFields
  <2>8. CASE n < MsgLen /\ ~IsWriting(s.chan[c])
    <3> DEFINE E == s.chan[c].events \cup {"out"}
               r == UpdateChannel(WithEvents(s.chan[c], E))
               u == SetChan(SetConn(s, c, q), c, r)
    <3>1. E \in SUBSET Events /\ E # {} /\ "out" \in E /\ s.chan[c].events \subseteq E
      BY ReadyConn DEF ChannelRecord, Events
    <3>2. SendInLoop(s, c, msg, n) = u
      <4>1. PICK ch \in ChannelRecord : ch = s.chan[c]
        BY ReadyConn
      <4>2. ChanOK(ch) /\ ch.fail = "none"
        BY <4>1, ReadyConn
      <4>3. EnableWrite(ch) = UpdateChannel(WithEvents(ch, ch.events \cup {"out"}))
        BY <4>2, EnableWriteOnce
      <4>4. EnableWrite(s.chan[c]) = r
        BY <4>1, <4>3
      <4> QED
        BY <2>3, <2>7, <2>8, <4>4
    <3>3. q.reading => "in" \in E \/ Removed(s, c)
      BY <2>6, <3>1, ReadyConn
    <3>4. r = UpdateChannel(WithEvents(s.chan[c], E)) /\ u = SetChan(SetConn(s, c, q), c, r)
      OBVIOUS
    <3> HIDE DEF q, E, r, u, t
    <3> QED
      BY <2>6, <3>1, <3>2, <3>3, <3>4, EventsStep
  <2>9. CASE ~(n < MsgLen /\ ~IsWriting(s.chan[c]))
    <3>1. SendInLoop(s, c, msg, n) = t
      BY <2>3, <2>7, <2>9
    <3>2. q.out # <<>> => "out" \in s.chan[c].events
      <4>1. CASE IsWriting(s.chan[c])
        BY <4>1 DEF IsWriting
      <4>2. CASE n = MsgLen
        <5>1. s.conn[c].out \o kept = s.conn[c].out
          BY <2>1, <2>4, <4>2
        <5> QED
          BY <2>6, <5>1, ReadyConn
      <4> QED
        BY <1>0, <1>5, <2>9, <4>1, <4>2
    <3>3. t = SetConn(s, c, q)
      OBVIOUS
    <3> HIDE DEF q, t
    <3> QED
      BY <2>6, <3>1, <3>2, <3>3, DataStep
  <2> QED
    BY <2>8, <2>9
<1> QED
  BY <1>1, <1>2, <1>3, <1>4, <1>5

(* handleWrite() when ::write ended the process or failed.                 *)
LEMMA WriteFails ==
    ASSUME NEW s, NEW c, NEW n, IsWriting(s.chan[c])
    PROVE  /\ n = Killed => HandleWrite(s, c, n) = Fail(s, "SIGPIPE")
           /\ n = -1 => HandleWrite(s, c, n) = Fail(s, "Buffer.h:88")
<1> DEFINE w == IsWriting(s.chan[c])
           out == s.conn[c].out
           rest == SubSeq(out, n + 1, Len(out))
           t == SetConn(s, c, [s.conn[c] EXCEPT !.out = rest,
                                                !.wire = @ \o SubSeq(out, 1, n)])
           u == SetChan(t, c, DisableWrite(t.chan[c]))
           v == IF u.conn[c].stat = "KDISCONNECTING" THEN ShutdownInLoop(u, c) ELSE u
           x == Fail(s, "SIGPIPE")
           y == Fail(s, "Buffer.h:88")
<1>1. HandleWrite(s, c, n) =
          CASE ~w -> s
            [] w /\ n = Killed -> x
            [] w /\ n = -1 -> y
            [] w /\ n > 0 /\ rest # <<>> -> t
            [] w /\ n > 0 /\ rest = <<>> -> v
  BY Zenon DEF HandleWrite
<1>2. w
  OBVIOUS
<1> HIDE DEF w, rest, t, u, v, x, y
<1>3. (n = Killed => HandleWrite(s, c, n) = x) /\ (n = -1 => HandleWrite(s, c, n) = y)
  BY <1>1, <1>2 DEF Killed
<1> QED
  BY <1>3 DEF x, y

LEMMA WriteStep ==
    ASSUME NEW s, NEW sv, NEW en, NEW cl, Ready(s, sv, en, cl), NEW c \in Conns, Met(s, c),
           NEW n, n \in WriteResults(s, c, Len(s.conn[c].out)) \cup
                      (IF IsWriting(s.chan[c]) THEN {} ELSE {0})
    PROVE  Result(HandleWrite(s, c, n), sv, en, cl)
<1> DEFINE out == s.conn[c].out
<1>0. s.conn[c].wire \in Seq(Messages) /\ out \in Seq(Messages)
  BY ReadyConn DEF ConnRecord
<1>1. CASE ~IsWriting(s.chan[c])
  BY <1>1, Unchanged DEF HandleWrite
<1>2. CASE IsWriting(s.chan[c])
  <2>0. n = Killed \/ n = -1 \/ n \in 1 .. Len(out)
    BY <1>0, <1>2, WriteRange
  <2>1. CASE n = Killed
    <3>1. HandleWrite(s, c, n) = Fail(s, "SIGPIPE")
      BY <1>2, <2>1, WriteFails, Zenon
    <3> QED
      BY <3>1, FailStep DEF Aborts
  <2>2. CASE n = -1
    <3>1. HandleWrite(s, c, n) = Fail(s, "Buffer.h:88")
      BY <1>2, <2>2, WriteFails, Zenon
    <3> QED
      BY <3>1, FailStep DEF Aborts
  <2>3. CASE n \in 1 .. Len(out)
    <3> DEFINE rest == SubSeq(out, n + 1, Len(out))
               sent == SubSeq(out, 1, n)
               q == [s.conn[c] EXCEPT !.out = rest, !.wire = @ \o sent]
               t == SetConn(s, c, q)
    <3>1. n > 0 /\ n # Killed /\ n # -1
      BY <1>0, <2>3 DEF Killed
    <3>2. rest \in Seq(Messages) /\ sent \in Seq(Messages)
      BY <1>0, <2>3, SubSeqProperties
    <3>3. HandleWrite(s, c, n) =
              IF rest # <<>> THEN t
              ELSE LET u == SetChan(t, c, DisableWrite(t.chan[c]))
                   IN  IF u.conn[c].stat = "KDISCONNECTING" THEN ShutdownInLoop(u, c) ELSE u
      BY <1>2, <3>1, Zenon DEF HandleWrite
    <3> HIDE DEF rest, sent
    <3>4. s.conn[c].wire \o sent \in Seq(Messages)
      BY <1>0, <3>2
    <3>5. /\ q \in ConnRecord
          /\ q.stat = s.conn[c].stat /\ q.loop = s.conn[c].loop
          /\ q.revived = s.conn[c].revived
          /\ q.reading = s.conn[c].reading /\ q.out = rest
      BY <3>2, <3>4, ReadyConn DEF ConnRecord
    <3>6. t.chan = s.chan
      BY <3>5, ReadyConn, ConnFields
    <3>7. CASE rest # <<>>
      <4>1. HandleWrite(s, c, n) = t
        BY <3>3, <3>7
      <4>2. q.out # <<>> => "out" \in s.chan[c].events
        BY <1>2 DEF IsWriting
      <4>3. t = SetConn(s, c, q)
        OBVIOUS
      <4> HIDE DEF q, t
      <4> QED
        BY <3>5, <4>1, <4>2, <4>3, DataStep
    <3>8. CASE rest = <<>>
      <4> DEFINE E == s.chan[c].events \ {"out"}
                 r == UpdateChannel(WithEvents(s.chan[c], E))
                 u == SetChan(SetConn(s, c, q), c, r)
      <4>1. E \in SUBSET Events /\ s.chan[c].events # {}
        BY <1>2, ReadyConn DEF ChannelRecord, Events, IsWriting
      <4>2. r = UpdateChannel(WithEvents(s.chan[c], E)) /\ u = SetChan(SetConn(s, c, q), c, r)
        OBVIOUS
      <4>3. q.reading => "in" \in E \/ Removed(s, c)
        BY <3>5, ReadyConn
      <4>4. "out" \notin E
        OBVIOUS
      <4>5. DisableWrite(t.chan[c]) = r
        BY <3>6 DEF DisableWrite, WithEvents
      <4>6. HandleWrite(s, c, n) =
                IF u.conn[c].stat = "KDISCONNECTING" THEN ShutdownInLoop(u, c) ELSE u
        BY <3>3, <3>8, <4>5
      <4> HIDE DEF q, E, r, u, t
      <4>7. Result(u, sv, en, cl) /\ u.chan[c].events = E
        BY <3>5, <3>8, <4>1, <4>2, <4>3, EventsStep
      <4>8. ShutdownInLoop(u, c) = u
        BY <4>4, <4>7 DEF ShutdownInLoop, IsWriting
      <4> QED
        BY <4>6, <4>7, <4>8
    <3> QED
      BY <3>7, <3>8
  <2> QED
    BY <2>0, <2>1, <2>2, <2>3
<1> QED
  BY <1>1, <1>2

-------------------------------------------------------------------------------
(* Steps in the life of a connection.                                      *)

LEMMA OpsApart ==
    \A op \in UserOps : op \notin LifeOps
  BY DEF LifeOps, UserOps, CallOps

(* setState(KDISCONNECTING), by the connection's loop or another thread.   *)
LEMMA StatStep ==
    ASSUME NEW s, NEW sv, NEW en, NEW cl, Ready(s, sv, en, cl), NEW c \in Conns, Met(s, c),
           NEW q \in ConnRecord, q.stat = "KDISCONNECTING", q.loop = s.conn[c].loop,
           q.reading = s.conn[c].reading, q.out = s.conn[c].out,
           q.revived <=> s.conn[c].revived \/ s.conn[c].stat = "KDISCONNECTED",
           NEW t, t = SetConn(s, c, q)
    PROVE  Result(t, sv, en, cl) /\ Met(t, c)
<1>1. /\ t \in States
      /\ t.abort = s.abort
      /\ t.connections = s.connections
      /\ t.conn[c] = q
      /\ \A d \in Conns \ {c} : t.conn[d] = s.conn[d]
      /\ t.chan = s.chan
      /\ t.loop = s.loop
      /\ t.sock = s.sock
  <2>1. s \in States
    BY DEF Ready
  <2> QED
    BY <2>1, ConnFields
<1>2. \A l \in Loops : Work(t, l) = Work(s, l)
  BY <1>1 DEF Work
<1>3. \A d \in Conns \ {c} : Untouched(s, t, d)
  BY <1>1, <1>2, MovedSame DEF Untouched
<1>4. Met(t, c)
  BY <1>1 DEF Met
<1>5. ConnInv(s, sv, en, c) /\ Good(s, sv, en, cl)
  BY DEF Ready, Good
<1>6. ActiveOf(t, c)
  BY <1>1, <1>4, <1>5, ActiveFrame DEF ConnInv
<1>7. ChanOf(t, sv, en, c)
  BY <1>1, <1>4, <1>5 DEF ConnInv, ChanOf, Removed, HandedOver
<1>8. ConnOf(t, c)
  <2>1. s.conn[c].stat \in Stats
    BY ReadyConn DEF ConnRecord
  <2>2. ConnOf(s, c)
    BY <1>5 DEF ConnInv, LifeOf
  <2> QED
    BY <1>1, <2>1, <2>2 DEF ConnOf, Met, Stats
<1>9. PendingOf(t, c) /\ RemovalOf(t, sv, en, c)
  BY <1>1 DEF PendingOf, RemovalOf
<1>10. FunctorsOf(t, sv, en, c)
  <2>1. \A l \in Loops, i \in Nat : \A op : At(t, l, i, op, c) <=> At(s, l, i, op, c)
    BY <1>2 DEF At
  <2>2. \A l \in Loops, i \in Nat, op \in UserOps :
           At(t, l, i, op, c) => Met(t, c) /\ t.conn[c].loop = l
    BY <1>1, <1>4, <1>5, <2>1 DEF ConnInv, LifeOf, FunctorsOf
  <2>3. ASSUME NEW l \in Loops, NEW i \in Nat, NEW op \in LifeOps, At(t, l, i, op, c)
        PROVE  LifeFunctor(t, sv, en, l, op, c)
    <3>1. LifeFunctor(s, sv, en, l, op, c)
      BY <1>5, <2>1, <2>3 DEF ConnInv, LifeOf, FunctorsOf
    <3> QED
      BY <1>1, <3>1 DEF LifeFunctor, Met, Removed, HandedOver, Closed
  <2>4. \A op : Single(t, op, c) => Single(s, op, c)
    BY <1>1 DEF Single
  <2>5. \A l \in Loops, i \in Nat, j \in Nat, op \in LifeOps :
           (At(t, l, i, op, c) /\ At(t, l, j, op, c) /\ Single(t, op, c)) => i = j
    BY <1>5, <2>1, <2>4 DEF ConnInv, LifeOf, FunctorsOf
  <2> QED
    BY <2>2, <2>3, <2>5 DEF FunctorsOf
<1>11. LifeOf(t, sv, en, c)
  BY <1>8, <1>9, <1>10 DEF LifeOf
<1>12. /\ t.abort = "none" /\ t.chan[Listen] = s.chan[Listen] /\ ChanOK(t.chan[c])
       /\ en \subseteq t.connections
       /\ s.sock[c].where = "none" => t.sock[c].where = "none"
       /\ \A l \in Loops : /\ t.loop[l].phase = s.loop[l].phase
                           /\ t.loop[l].active \subseteq s.loop[l].active
                           /\ s.loop[l].batch = <<>> => t.loop[l].batch = <<>>
  BY <1>1, <1>5, ReadyConn DEF Good, ServerInv
<1> QED
  BY <1>1, <1>3, <1>4, <1>6, <1>7, <1>11, <1>12, ConnStep

LEMMA SetStatStep ==
    ASSUME NEW s, NEW sv, NEW en, NEW cl, Ready(s, sv, en, cl), NEW c \in Conns,
           s.conn[c].stat \in {"KCONNECT", "KDISCONNECTING"},
           NEW t, t = SetStat(s, c, "KDISCONNECTING")
    PROVE  /\ Result(t, sv, en, cl) /\ Ready(t, sv, en, cl) /\ Met(t, c)
           /\ t.conn[c].loop = s.conn[c].loop
<1> DEFINE q == [s.conn[c] EXCEPT !.stat = "KDISCONNECTING"]
<1>1. /\ q \in ConnRecord
      /\ q.stat = "KDISCONNECTING" /\ q.loop = s.conn[c].loop
      /\ q.reading = s.conn[c].reading /\ q.out = s.conn[c].out
      /\ q.revived = s.conn[c].revived
  BY ReadyConn DEF ConnRecord, Stats
<1>2. q.revived <=> s.conn[c].revived \/ s.conn[c].stat = "KDISCONNECTED"
  BY <1>1
<1>3. t = SetConn(s, c, q)
  BY DEF SetStat, SetConn
<1>4. Met(s, c)
  BY DEF Met
<1> HIDE DEF q
<1>5. Result(t, sv, en, cl) /\ Met(t, c)
  BY <1>1, <1>2, <1>3, <1>4, StatStep
<1>6. t.abort = "none" /\ t.conn[c] = q
  BY <1>1, <1>3, ReadyConn, ConnFields
<1> QED
  BY <1>1, <1>5, <1>6 DEF Result, Ready

(* A call is queued in the connection's loop.                              *)
LEMMA QueueStep ==
    ASSUME NEW s, NEW sv, NEW en, NEW cl, Ready(s, sv, en, cl), NEW f \in Functors,
           f.op \in UserOps, Met(s, f.conn), NEW t,
           t = QueueInLoop(s, s.conn[f.conn].loop, f)
    PROVE  Result(t, sv, en, cl)
<1>1. PICK c \in Conns : c = f.conn
  BY FunctorFields
<1>2. PICK l \in Loops : l = s.conn[c].loop
  BY ReadyConn DEF ConnRecord
<1>3. s \in States /\ Good(s, sv, en, cl) /\ s.abort = "none"
  BY DEF Ready
<1>4. /\ t \in States
      /\ t.abort = s.abort
      /\ t.connections = s.connections
      /\ t.conn = s.conn
      /\ t.chan = s.chan
      /\ t.loop = Queued(s.loop, l, f)
      /\ t.sock = s.sock
  BY <1>1, <1>2, <1>3, QueueFields
<1>5. \A d \in Conns : Untouched(s, t, d)
  <2> TAKE d \in Conns
  <2>1. f.conn = d => f.op \in UserOps /\ Met(s, d) /\ s.conn[d].loop = l
    BY <1>1, <1>2
  <2>2. Moved(s, t, d)
    BY <1>3, <1>4, <2>1, MovedQueued
  <2> QED
    BY <1>4, <2>2 DEF Untouched
<1>6. \A m \in Loops : /\ t.loop[m].phase = s.loop[m].phase
                       /\ t.loop[m].active \subseteq s.loop[m].active
                       /\ s.loop[m].batch = <<>> => t.loop[m].batch = <<>>
  BY <1>3, <1>4, WorkQueued
<1>7. ConnInv(t, sv, en, c)
  <2>1. HandedOver(s, sv, en, c) => HandedOver(t, sv, en, c)
    BY <1>4 DEF HandedOver
  <2>2. Untouched(s, t, c) /\ ConnInv(s, sv, en, c)
    BY <1>3, <1>5 DEF Good
  <2>3. \A m \in Loops : t.loop[m].active \subseteq s.loop[m].active
    BY <1>6
  <2> QED
    BY <1>3, <2>1, <2>2, <2>3, UntouchedFrame
<1>8. /\ t.abort = "none" /\ t.chan[Listen] = s.chan[Listen] /\ ChanOK(t.chan[c])
      /\ en \subseteq t.connections
      /\ s.sock[c].where = "none" => t.sock[c].where = "none"
      /\ Met(s, c) => Met(t, c)
  BY <1>3, <1>4, ReadyConn DEF Good, ServerInv, Met
<1>9. \A d \in Conns \ {c} : Untouched(s, t, d)
  BY <1>5
<1> QED
  BY <1>4, <1>6, <1>7, <1>8, <1>9, ConnStep DEF ConnInv

(* The connections other than c after a functor of c was queued.           *)
LEMMA QueuedUntouched ==
    ASSUME NEW s \in States, NEW t \in States, NEW c \in Conns, NEW l \in Loops,
           NEW f \in Functors, f.conn = c, t.loop = Queued(s.loop, l, f),
           \A d \in Conns \ {c} : /\ t.conn[d] = s.conn[d]
                                  /\ t.chan[d] = s.chan[d]
                                  /\ t.sock[d].where = s.sock[d].where
                                  /\ d \in t.connections <=> d \in s.connections
    PROVE  /\ \A d \in Conns \ {c} : Untouched(s, t, d)
           /\ \A m \in Loops : /\ t.loop[m].phase = s.loop[m].phase
                               /\ t.loop[m].active \subseteq s.loop[m].active
                               /\ s.loop[m].batch = <<>> => t.loop[m].batch = <<>>
<1>1. \A d \in Conns \ {c} : Untouched(s, t, d)
  <2> TAKE d \in Conns \ {c}
  <2>1. f.conn # d
    OBVIOUS
  <2>2. Moved(s, t, d)
    BY <2>1, MovedQueued
  <2> QED
    BY <2>2 DEF Untouched
<1> QED
  BY <1>1, WorkQueued

(* A connection is closed: t is what setState() and the queueing of f      *)
(* leave.                                                                  *)
ClosedTo(s, t, c, l, f) ==
    /\ t \in States
    /\ t.abort = "none"
    /\ t.conn[c].stat = "KDISCONNECTED"
    /\ t.conn[c].loop = s.conn[c].loop
    /\ t.conn[c].revived = s.conn[c].revived
    /\ t.conn[c].reading = s.conn[c].reading
    /\ t.conn[c].out = s.conn[c].out
    /\ \A d \in Conns \ {c} : t.conn[d] = s.conn[d]
    /\ t.chan = s.chan
    /\ t.sock = s.sock
    /\ t.loop = Queued(s.loop, l, f)

LEMMA CloseStepWith ==
    ASSUME NEW s, NEW sv, NEW en, NEW cl, Ready(s, sv, en, cl), NEW c \in Conns,
           s.conn[c].stat \in {"KCONNECT", "KDISCONNECTING"}, NEW l \in Loops,
           NEW f \in Functors, f.conn = c, NEW t, ClosedTo(s, t, c, l, f),
           \/ /\ f.op = "remove" /\ l = Base /\ s.conn[c].loop # Base
              /\ t.connections = s.connections
           \/ /\ f.op = "destory" /\ l = s.conn[c].loop /\ sv # "ending"
              /\ c \in s.connections /\ t.connections = s.connections \ {c}
    PROVE  Result(t, sv, en, cl)
<1>1. s \in States /\ Good(s, sv, en, cl) /\ ConnInv(s, sv, en, c)
  BY DEF Ready, Good
<1>2. /\ t \in States
      /\ t.abort = "none"
      /\ t.conn[c].stat = "KDISCONNECTED"
      /\ t.conn[c].loop = s.conn[c].loop
      /\ t.conn[c].revived = s.conn[c].revived
      /\ t.conn[c].reading = s.conn[c].reading
      /\ t.conn[c].out = s.conn[c].out
      /\ \A d \in Conns \ {c} : t.conn[d] = s.conn[d]
      /\ t.chan = s.chan
      /\ t.sock = s.sock
      /\ t.loop = Queued(s.loop, l, f)
  BY DEF ClosedTo
<1>3. /\ \A d \in Conns \ {c} : Untouched(s, t, d)
      /\ \A m \in Loops : /\ t.loop[m].phase = s.loop[m].phase
                          /\ t.loop[m].active \subseteq s.loop[m].active
                          /\ s.loop[m].batch = <<>> => t.loop[m].batch = <<>>
  <2>1. \A d \in Conns \ {c} : /\ t.conn[d] = s.conn[d]
                               /\ t.chan[d] = s.chan[d]
                               /\ t.sock[d].where = s.sock[d].where
                               /\ d \in t.connections <=> d \in s.connections
    BY <1>2
  <2> QED
    BY <1>1, <1>2, <2>1, QueuedUntouched
<1>4. Met(t, c) /\ Met(s, c)
  BY <1>2 DEF Met
<1>5. ActiveOf(t, c)
  <2>1. \A m \in Loops : t.loop[m].active \subseteq s.loop[m].active
    BY <1>3
  <2> QED
    BY <1>1, <1>2, <1>4, <2>1, ActiveFrame DEF ConnInv
<1>6. en = {} \/ t.connections = s.connections
  BY <1>1 DEF Good, ServerInv
<1>7. HandedOver(s, sv, en, c) => HandedOver(t, sv, en, c)
  BY <1>1 DEF HandedOver
<1>8. ChanOf(t, sv, en, c)
  BY <1>1, <1>2, <1>4, <1>7 DEF ConnInv, ChanOf, Removed
<1>9. ConnOf(t, c)
  BY <1>1, <1>2 DEF ConnInv, LifeOf, ConnOf
<1>10. \A m \in Loops, i \in Nat : \A op :
           At(t, m, i, op, c) <=>
               \/ At(s, m, i, op, c)
               \/ m = l /\ i = Len(Work(s, l)) + 1 /\ op = f.op
  BY <1>1, <1>2, AtQueued
<1>11. Len(Work(s, l)) + 1 \in Nat
  BY <1>1, WorkTyped
<1>12. PendingOf(t, c)
  BY <1>2 DEF PendingOf
<1>13. RemovalOf(t, sv, en, c)
  <2>1. CASE f.op = "remove"
    <3>1. At(t, Base, Len(Work(s, l)) + 1, "remove", c)
      BY <1>10, <1>11, <2>1 DEF Loops
    <3> QED
      BY <1>11, <3>1 DEF RemovalOf
  <2>2. CASE f.op = "destory"
    BY <2>2 DEF RemovalOf
  <2> QED
    BY <2>1, <2>2
<1>14. ASSUME NEW m \in Loops, NEW i \in Nat, NEW op \in LifeOps, At(s, m, i, op, c)
       PROVE  /\ LifeFunctor(t, sv, en, m, op, c)
              /\ f.op = op => ~Single(s, op, c)
  <2>1. LifeFunctor(s, sv, en, m, op, c)
    BY <1>1, <1>14 DEF ConnInv, LifeOf, FunctorsOf
  <2>2. op \in {"remove", "destory"}
    BY <2>1 DEF LifeFunctor, LifeOps
  <2>3. CASE op = "remove"
    <3>1. s.conn[c].revived /\ m = Base
      BY <2>1, <2>3 DEF LifeFunctor
    <3> QED
      BY <1>2, <2>3, <3>1 DEF LifeFunctor, Single, Closed
  <2>4. CASE op = "destory"
    <3>1. f.op = "remove"
      BY <2>1, <2>4 DEF LifeFunctor, HandedOver
    <3>2. t.connections = s.connections
      BY <3>1
    <3> QED
      BY <1>2, <2>1, <2>4, <3>1, <3>2 DEF LifeFunctor, Closed, Removed, HandedOver
  <2> QED
    BY <2>2, <2>3, <2>4
<1>15. LifeFunctor(t, sv, en, l, f.op, c)
  <2>1. CASE f.op = "remove"
    <3>1. ~s.conn[c].revived => c \in s.connections
      BY <1>1 DEF ConnInv, LifeOf, ConnOf
    <3> QED
      BY <1>2, <2>1, <3>1 DEF LifeFunctor, Closed
  <2>2. CASE f.op = "destory"
    <3>1. ~Removed(s, c)
      BY <1>1, <2>2 DEF ConnInv, ChanOf, HandedOver
    <3>2. ~Removed(t, c)
      BY <1>2, <3>1 DEF Removed
    <3> QED
      BY <1>2, <2>2, <3>2 DEF LifeFunctor, Closed
  <2> QED
    BY <2>1, <2>2
<1>16. FunctorsOf(t, sv, en, c)
  <2>1. \A m \in Loops, i \in Nat, op \in UserOps :
           At(t, m, i, op, c) => Met(t, c) /\ t.conn[c].loop = m
    <3>1. f.op \notin UserOps
      BY OpsApart DEF LifeOps
    <3> QED
      BY <1>1, <1>2, <1>4, <1>10, <3>1 DEF ConnInv, LifeOf, FunctorsOf
  <2>2. \A m \in Loops, i \in Nat, op \in LifeOps :
           At(t, m, i, op, c) => LifeFunctor(t, sv, en, m, op, c)
    BY <1>10, <1>14, <1>15
  <2>3. \A op : Single(t, op, c) <=> Single(s, op, c)
    BY <1>2 DEF Single
  <2>4. ASSUME NEW m \in Loops, NEW i \in Nat, NEW j \in Nat, NEW op \in LifeOps,
               At(t, m, i, op, c), At(t, m, j, op, c), Single(t, op, c)
        PROVE  i = j
    <3>1. CASE At(s, m, i, op, c) /\ At(s, m, j, op, c)
      BY <1>1, <2>3, <2>4, <3>1 DEF ConnInv, LifeOf, FunctorsOf
    <3>2. CASE ~At(s, m, i, op, c) \/ ~At(s, m, j, op, c)
      BY <1>10, <1>14, <2>3, <2>4, <3>2
    <3> QED
      BY <3>1, <3>2
  <2> QED
    BY <2>1, <2>2, <2>4 DEF FunctorsOf
<1>17. LifeOf(t, sv, en, c)
  BY <1>9, <1>12, <1>13, <1>16 DEF LifeOf
<1>18. /\ t.abort = "none" /\ t.chan[Listen] = s.chan[Listen] /\ ChanOK(t.chan[c])
       /\ en \subseteq t.connections
       /\ s.sock[c].where = "none" => t.sock[c].where = "none"
  BY <1>1, <1>2, <1>6, ReadyConn DEF Good, ServerInv
<1> QED
  BY <1>2, <1>3, <1>4, <1>5, <1>8, <1>17, <1>18, ConnStep

LEMMA CloseStep ==
    ASSUME NEW s, NEW sv, NEW en, NEW cl, Ready(s, sv, en, cl), NEW c \in Conns, Met(s, c),
           NEW l \in Loops, s.conn[c].loop = l, s.loop[l].phase # "poll",
           s.conn[c].stat = "KDISCONNECTED" => s.chan[c].mapped
    PROVE  Result(HandleClose(s, l, c), sv, en, cl)
<1>1. s \in States /\ Good(s, sv, en, cl) /\ ConnInv(s, sv, en, c) /\ PollerOK(s)
      /\ s.abort = "none"
  BY DEF Ready, Good
<1>2. CASE s.conn[c].stat \notin {"KCONNECT", "KDISCONNECTING"}
  <2>1. s.conn[c].stat = "KDISCONNECTED"
    BY <1>2, ReadyConn DEF Met, ConnRecord, Stats
  <2> DEFINE t == Fail(s, "TcpConnection.cc:170")
  <2>2. /\ t \in States /\ t.abort = "TcpConnection.cc:170"
        /\ t.conn = s.conn /\ t.chan = s.chan
    BY <1>1, FailFields DEF Aborts
  <2>3. HandleClose(s, l, c) = t
    BY <1>2 DEF HandleClose
  <2> HIDE DEF t
  <2>4. Explained(t, sv, en)
    BY <2>1, <2>2 DEF Explained
  <2> QED
    BY <1>1, <2>2, <2>3, <2>4 DEF Result, PollerOK
<1>3. CASE s.conn[c].stat \in {"KCONNECT", "KDISCONNECTING"}
  <2> DEFINE u == SetStat(s, c, "KDISCONNECTED")
  <2>1. HandleClose(s, l, c) = RemoveConnection(u, l, c)
    BY <1>3 DEF HandleClose
  <2>2. /\ u \in States
        /\ u.abort = s.abort
        /\ u.connections = s.connections
        /\ u.conn[c].stat = "KDISCONNECTED"
        /\ u.conn[c].loop = s.conn[c].loop
        /\ u.conn[c].revived = s.conn[c].revived
        /\ u.conn[c].reading = s.conn[c].reading
        /\ u.conn[c].out = s.conn[c].out
        /\ \A d \in Conns \ {c} : u.conn[d] = s.conn[d]
        /\ u.chan = s.chan
        /\ u.loop = s.loop
        /\ u.sock = s.sock
    <3>1. "KDISCONNECTED" \in Stats
      BY DEF Stats
    <3>2. u = SetStat(s, c, "KDISCONNECTED")
      OBVIOUS
    <3> HIDE DEF u
    <3> QED
      BY <1>1, <3>1, <3>2, SetStatFields
  <2> HIDE DEF u
  <2>4. CASE l # Base
    <3> DEFINE f == [op |-> "remove", conn |-> c]
               t == QueueInLoop(u, Base, f)
    <3>1. f \in Functors /\ f.op = "remove" /\ f.conn = c /\ Base \in Loops
      BY DEF Functors, Loops
    <3>2. HandleClose(s, l, c) = t
      BY <2>1, <2>4 DEF RemoveConnection
    <3> HIDE DEF f
    <3>3. /\ t \in States
          /\ t.abort = u.abort
          /\ t.connections = u.connections
          /\ t.conn = u.conn
          /\ t.chan = u.chan
          /\ t.loop = Queued(u.loop, Base, f)
          /\ t.sock = u.sock
      BY <2>2, <3>1, QueueFields
    <3> HIDE DEF t
    <3>4. ClosedTo(s, t, c, Base, f) /\ t.connections = s.connections
      BY <1>1, <2>2, <3>3 DEF ClosedTo
    <3>5. Result(t, sv, en, cl)
      BY <1>3, <2>4, <3>1, <3>4, CloseStepWith
    <3> QED
      BY <3>2, <3>5
  <2>5. CASE l = Base /\ c \notin s.connections
    <3> DEFINE t == Fail(u, "TcpServer.cc:75")
    <3>1. /\ t \in States /\ t.abort = "TcpServer.cc:75"
          /\ t.conn = u.conn /\ t.chan = u.chan
      BY <2>2, FailFields DEF Aborts
    <3>2. HandleClose(s, l, c) = t
      BY <2>1, <2>2, <2>5 DEF RemoveConnection, RemoveConnectionInLoop
    <3> HIDE DEF t
    <3>3. s.conn[c].revived
      BY <1>1, <1>3, <2>5 DEF ConnInv, LifeOf, ConnOf
    <3>4. Explained(t, sv, en)
      BY <2>2, <3>1, <3>3 DEF Explained
    <3> QED
      BY <1>1, <2>2, <3>1, <3>2, <3>4 DEF Result, PollerOK
  <2>6. CASE l = Base /\ c \in s.connections
    <3> DEFINE f == [op |-> "destory", conn |-> c]
               v == [u EXCEPT !.connections = @ \ {c}]
               t == QueueInLoop(v, l, f)
    <3>1. f \in Functors /\ f.op = "destory" /\ f.conn = c
      BY DEF Functors
    <3>2. HandleClose(s, l, c) = t
      BY <2>1, <2>2, <2>6 DEF RemoveConnection, RemoveConnectionInLoop
    <3>3. /\ v \in States
          /\ v.abort = u.abort
          /\ v.connections = u.connections \ {c}
          /\ v.conn = u.conn
          /\ v.chan = u.chan
          /\ v.loop = u.loop
          /\ v.sock = u.sock
      BY <2>2 DEF States
    <3> HIDE DEF f, v
    <3>4. /\ t \in States
          /\ t.abort = v.abort
          /\ t.connections = v.connections
          /\ t.conn = v.conn
          /\ t.chan = v.chan
          /\ t.loop = Queued(v.loop, l, f)
          /\ t.sock = v.sock
      BY <3>1, <3>3, QueueFields
    <3> HIDE DEF t
    <3>5. ClosedTo(s, t, c, l, f) /\ t.connections = s.connections \ {c}
      BY <1>1, <2>2, <3>3, <3>4 DEF ClosedTo
    <3>6. sv # "ending"
      BY <1>1, <2>6 DEF Good, ServerInv
    <3>7. Result(t, sv, en, cl)
      BY <1>3, <2>6, <3>1, <3>5, <3>6, CloseStepWith
    <3> QED
      BY <3>2, <3>7
  <2> QED
    BY <2>4, <2>5, <2>6
<1> QED
  BY <1>2, <1>3

-------------------------------------------------------------------------------
(* Functors.                                                               *)

TakeHead(s, l) == [s EXCEPT !.loop[l].batch = Tail(@)]

LEMMA TakeFields ==
    ASSUME NEW s \in States, NEW l \in Loops, s.loop[l].batch # <<>>,
           NEW t, t = TakeHead(s, l)
    PROVE  /\ t \in States
           /\ t.abort = s.abort
           /\ t.connections = s.connections
           /\ t.conn = s.conn
           /\ t.chan = s.chan
           /\ t.loop = Taken(s.loop, l)
           /\ t.sock = s.sock
<1>1. s.loop \in [Loops -> LoopRecord] /\ s.loop[l] \in LoopRecord
  BY DEF States
<1>2. s.loop[l].batch \in Seq(Functors)
  BY <1>1 DEF LoopRecord
<1> DEFINE b == Tail(s.loop[l].batch)
           r == [s.loop[l] EXCEPT !.batch = b]
<1>3. b \in Seq(Functors)
  BY <1>2
<1> HIDE DEF b
<1>4. r \in LoopRecord
  BY <1>1, <1>3 DEF LoopRecord
<1>5. t = [s EXCEPT !.loop = [s.loop EXCEPT ![l] = r]]
  BY DEF TakeHead, b
<1> HIDE DEF r
<1>6. [s.loop EXCEPT ![l] = r] \in [Loops -> LoopRecord]
  BY <1>1, <1>4
<1>7. /\ t \in States
      /\ t.abort = s.abort
      /\ t.connections = s.connections
      /\ t.conn = s.conn
      /\ t.chan = s.chan
      /\ t.loop = [s.loop EXCEPT ![l] = r]
      /\ t.sock = s.sock
  BY <1>5, <1>6 DEF States
<1> QED
  BY <1>7 DEF r, b, Taken

(* The connections that a functor taken by its loop is not about, or for   *)
(* which it is a call.                                                     *)
LEMMA TakenOthers ==
    ASSUME NEW s, NEW sv, NEW en, NEW cl, Ready(s, sv, en, cl), NEW l \in Loops,
           s.loop[l].batch # <<>>, NEW f, f = Head(s.loop[l].batch),
           NEW t, t = TakeHead(s, l), NEW d \in Conns, f.conn # d \/ f.op \in UserOps
    PROVE  Untouched(s, t, d) /\ ConnInv(t, sv, en, d)
<1>1. s \in States /\ Good(s, sv, en, cl)
  BY DEF Ready
<1>2. /\ t \in States
      /\ t.abort = s.abort
      /\ t.connections = s.connections
      /\ t.conn = s.conn
      /\ t.chan = s.chan
      /\ t.loop = Taken(s.loop, l)
      /\ t.sock = s.sock
  BY <1>1, TakeFields
<1>3. Moved(s, t, d)
  BY <1>1, <1>2, MovedTaken
<1>4. Untouched(s, t, d)
  BY <1>2, <1>3 DEF Untouched
<1>5. HandedOver(s, sv, en, d) => HandedOver(t, sv, en, d)
  BY <1>2 DEF HandedOver
<1>6. \A m \in Loops : t.loop[m].active \subseteq s.loop[m].active
  BY <1>1, <1>2, WorkTaken
<1>7. ConnInv(s, sv, en, d)
  BY <1>1 DEF Good
<1> QED
  BY <1>1, <1>4, <1>5, <1>6, <1>7, UntouchedFrame

LEMMA TakeCall ==
    ASSUME NEW s, NEW sv, NEW en, NEW cl, Ready(s, sv, en, cl), NEW l \in Loops,
           s.loop[l].phase = "run", s.loop[l].batch # <<>>,
           NEW f, f = Head(s.loop[l].batch), f.op \in UserOps, NEW t, t = TakeHead(s, l)
    PROVE  /\ Ready(t, sv, en, cl) /\ f \in Functors /\ f.conn \in Conns
           /\ Met(t, f.conn) /\ t.conn[f.conn].loop = l /\ t.loop[l].phase = "run"
<1>1. s \in States /\ Good(s, sv, en, cl) /\ s.abort = "none" /\ PollerOK(s)
      /\ cl \in ClientStates
  BY DEF Ready
<1>2. /\ t \in States
      /\ t.abort = s.abort
      /\ t.connections = s.connections
      /\ t.conn = s.conn
      /\ t.chan = s.chan
      /\ t.loop = Taken(s.loop, l)
      /\ t.sock = s.sock
  BY <1>1, TakeFields
<1>3. f \in Functors /\ At(s, l, 1, f.op, f.conn)
  BY <1>1, AtHead
<1>4. f.conn \in Conns
  BY <1>3, FunctorFields
<1>5. ConnInv(s, sv, en, f.conn)
  BY <1>1, <1>4 DEF Good
<1>6. Met(s, f.conn) /\ s.conn[f.conn].loop = l
  BY <1>3, <1>5 DEF ConnInv, LifeOf, FunctorsOf
<1>7. \A d \in Conns : ConnInv(t, sv, en, d) /\ ChanOK(t.chan[d])
  BY <1>1, <1>2, TakenOthers DEF PollerOK
<1>8. \A m \in Loops : /\ t.loop[m].phase = s.loop[m].phase
                       /\ t.loop[m].active \subseteq s.loop[m].active
                       /\ s.loop[m].batch = <<>> => t.loop[m].batch = <<>>
  BY <1>1, <1>2, WorkTaken
<1>9. /\ \A d \in Conns : Met(s, d) => Met(t, d)
      /\ \A d \in Conns : s.sock[d].where = "none" => t.sock[d].where = "none"
      /\ t.chan[Listen] = s.chan[Listen] /\ t.abort = "none"
      /\ en \subseteq en /\ en \subseteq t.connections
  BY <1>1, <1>2 DEF Met, Good, ServerInv
<1>10. Result(t, sv, en, cl)
  BY <1>2, <1>7, <1>8, <1>9, Assemble
<1> QED
  BY <1>1, <1>2, <1>3, <1>4, <1>6, <1>8, <1>9, <1>10 DEF Result, Ready, Met

(* connectionEstablished() of a connection whose channel is new.           *)
LEMMA EstablishedFields ==
    ASSUME NEW s \in States, s.abort = "none", NEW c \in Conns,
           s.conn[c].stat = "KCONNECTING", s.chan[c].idx = KNEW, s.chan[c].fail = "none",
           ChanOK(s.chan[c]), NEW t, t = ConnectionEstablished(s, c)
    PROVE  /\ t \in States
           /\ t.abort = "none"
           /\ t.connections = s.connections
           /\ t.conn[c].stat = "KCONNECT"
           /\ t.conn[c].loop = s.conn[c].loop
           /\ t.conn[c].revived = s.conn[c].revived
           /\ t.conn[c].reading = s.conn[c].reading
           /\ t.conn[c].out = s.conn[c].out
           /\ \A d \in Conns \ {c} : t.conn[d] = s.conn[d]
           /\ \A d \in (Conns \cup {Listen}) \ {c} : t.chan[d] = s.chan[d]
           /\ ChanOK(t.chan[c]) /\ t.chan[c].fail = "none"
           /\ t.chan[c].mapped /\ t.chan[c].idx = KADDED
           /\ "in" \in t.chan[c].events /\ s.chan[c].events \subseteq t.chan[c].events
           /\ t.loop = s.loop
           /\ t.sock = s.sock
<1> DEFINE u == SetStat(s, c, "KCONNECT")
           E == s.chan[c].events \cup {"in"}
           r == EnableRead(s.chan[c])
<1>1. /\ u \in States
      /\ u.abort = s.abort
      /\ u.connections = s.connections
      /\ u.conn[c].stat = "KCONNECT"
      /\ u.conn[c].loop = s.conn[c].loop
      /\ u.conn[c].revived = s.conn[c].revived
      /\ u.conn[c].reading = s.conn[c].reading
      /\ u.conn[c].out = s.conn[c].out
      /\ \A d \in Conns \ {c} : u.conn[d] = s.conn[d]
      /\ u.chan = s.chan
      /\ u.loop = s.loop
      /\ u.sock = s.sock
  <2>1. "KCONNECT" \in Stats /\ u = SetStat(s, c, "KCONNECT")
    BY DEF Stats
  <2> HIDE DEF u
  <2> QED
    BY <2>1, SetStatFields
<1>2. PICK ch \in ChannelRecord : ch = s.chan[c]
  BY DEF States
<1>3. E \in SUBSET Events /\ E # {} /\ "in" \in E /\ s.chan[c].events \subseteq E
  BY <1>2 DEF ChannelRecord, Events
<1>4. r = UpdateChannel(WithEvents(ch, E)) /\ ChanOK(ch) /\ ch.fail = "none" /\ ch.idx = KNEW
  BY <1>2 DEF EnableRead, WithEvents
<1>5. t = SetChan(u, c, r)
  BY DEF ConnectionEstablished
<1> HIDE DEF E, r, u
<1>6. /\ r \in ChannelRecord /\ ChanOK(r) /\ r.events = E
      /\ r.fail = "none" /\ r.mapped /\ r.idx = KADDED
  BY <1>3, <1>4, UpdateEffect DEF KNEW, KDEL
<1>7. /\ t \in States
      /\ t.abort = IF u.abort = "none" THEN r.fail ELSE u.abort
      /\ t.connections = u.connections
      /\ t.conn = u.conn
      /\ t.chan = [u.chan EXCEPT ![c] = r]
      /\ t.loop = u.loop
      /\ t.sock = u.sock
  BY <1>1, <1>5, <1>6, SetChanFields
<1>8. t.chan[c] = r /\ \A d \in (Conns \cup {Listen}) \ {c} : t.chan[d] = s.chan[d]
  BY <1>1, <1>7 DEF States
<1> QED
  BY <1>1, <1>3, <1>6, <1>7, <1>8

LEMMA EstablishedStep ==
    ASSUME NEW s, NEW sv, NEW en, NEW cl, Ready(s, sv, en, cl), NEW l \in Loops,
           s.loop[l].phase = "run", s.loop[l].batch # <<>>,
           NEW f, f = Head(s.loop[l].batch), f.op = "established"
    PROVE  Result(ConnectionEstablished(TakeHead(s, l), f.conn), sv, en, cl)
<1>1. s \in States /\ Good(s, sv, en, cl) /\ s.abort = "none" /\ PollerOK(s)
  BY DEF Ready
<1>2. PICK c \in Conns : c = f.conn
  BY <1>1, AtHead, FunctorFields
<1>3. At(s, l, 1, "established", c)
  BY <1>1, <1>2, AtHead
<1> DEFINE u == TakeHead(s, l)
           t == ConnectionEstablished(u, c)
<1>4. /\ u \in States
      /\ u.abort = s.abort
      /\ u.connections = s.connections
      /\ u.conn = s.conn
      /\ u.chan = s.chan
      /\ u.loop = Taken(s.loop, l)
      /\ u.sock = s.sock
  BY <1>1, TakeFields
<1> HIDE DEF u
<1>5. ConnInv(s, sv, en, c)
  BY <1>1 DEF Good
<1>6. s.conn[c].stat = "KCONNECTING" /\ s.conn[c].loop = l
  BY <1>3, <1>5 DEF ConnInv, LifeOf, FunctorsOf, LifeFunctor, LifeOps
<1>7. ~Met(s, c) /\ s.chan[c].idx = KNEW /\ s.chan[c].fail = "none" /\ ChanOK(s.chan[c])
  BY <1>1, <1>5, <1>6 DEF Met, ConnInv, ChanOf, PollerOK
<1>8. /\ t \in States
      /\ t.abort = "none"
      /\ t.connections = u.connections
      /\ t.conn[c].stat = "KCONNECT"
      /\ t.conn[c].loop = u.conn[c].loop
      /\ t.conn[c].revived = u.conn[c].revived
      /\ t.conn[c].reading = u.conn[c].reading
      /\ t.conn[c].out = u.conn[c].out
      /\ \A d \in Conns \ {c} : t.conn[d] = u.conn[d]
      /\ \A d \in (Conns \cup {Listen}) \ {c} : t.chan[d] = u.chan[d]
      /\ ChanOK(t.chan[c]) /\ t.chan[c].fail = "none"
      /\ t.chan[c].mapped /\ t.chan[c].idx = KADDED
      /\ "in" \in t.chan[c].events /\ u.chan[c].events \subseteq t.chan[c].events
      /\ t.loop = u.loop
      /\ t.sock = u.sock
  BY <1>1, <1>4, <1>6, <1>7, EstablishedFields
<1> HIDE DEF t
<1>9. t.loop = Taken(s.loop, l)
  BY <1>4, <1>8
<1>10. \A d \in Conns \ {c} : Untouched(s, t, d)
  <2> TAKE d \in Conns \ {c}
  <2>1. Moved(s, t, d)
    BY <1>1, <1>2, <1>8, <1>9, MovedTaken
  <2> QED
    BY <1>4, <1>8, <2>1 DEF Untouched
<1>11. \A m \in Loops : /\ t.loop[m].phase = s.loop[m].phase
                        /\ t.loop[m].active \subseteq s.loop[m].active
                        /\ s.loop[m].batch = <<>> => t.loop[m].batch = <<>>
  BY <1>1, <1>8, <1>9, WorkTaken
<1>12. ActiveOf(t, c)
  <2>1. \A m \in Loops : t.loop[m].active \subseteq s.loop[m].active
    BY <1>11
  <2> QED
    BY <1>4, <1>5, <1>7, <1>8, <2>1, ActiveFrame DEF ConnInv
<1>13. Met(t, c) /\ ~Removed(t, c)
  BY <1>8 DEF Met, Removed
<1>14. ChanOf(t, sv, en, c)
  <2>1. s.conn[c].out # <<>> => "out" \in s.chan[c].events
    BY <1>5 DEF ConnInv, ChanOf
  <2> QED
    BY <1>4, <1>8, <1>13, <2>1 DEF ChanOf, KADDED, KNEW
<1>15. ConnOf(t, c)
  BY <1>4, <1>5, <1>6, <1>8 DEF ConnInv, LifeOf, ConnOf
<1>16. PendingOf(t, c) /\ RemovalOf(t, sv, en, c)
  BY <1>8 DEF PendingOf, RemovalOf
<1>17. \A m \in Loops, i \in Nat : \A op :
           At(t, m, i, op, c) <=> At(s, m, IF m = l THEN i + 1 ELSE i, op, c) /\ (m = l => i > 0)
  BY <1>1, <1>8, <1>9, AtTaken
<1>18. \A m \in Loops, i \in Nat, op \in LifeOps :
           At(s, m, i, op, c) => LifeFunctor(s, sv, en, m, op, c)
  BY <1>5 DEF ConnInv, LifeOf, FunctorsOf
<1>19. \A m \in Loops, i \in Nat, op \in UserOps : ~At(s, m, i, op, c)
  BY <1>5, <1>7 DEF ConnInv, LifeOf, FunctorsOf
<1>20. FunctorsOf(t, sv, en, c)
  <2>1. ASSUME NEW m \in Loops, NEW i \in Nat, NEW op \in LifeOps, At(t, m, i, op, c)
        PROVE  LifeFunctor(t, sv, en, m, op, c) /\ op = "destory" /\ m = l
    <3> DEFINE k == IF m = l THEN i + 1 ELSE i
    <3>1. k \in Nat /\ At(s, m, k, op, c) /\ (m = l => i > 0)
      BY <1>17, <2>1
    <3>2. LifeFunctor(s, sv, en, m, op, c)
      BY <1>18, <3>1
    <3>3. op # "remove"
      BY <1>6, <3>2 DEF LifeFunctor, Closed
    <3>4. op # "established"
      <4> SUFFICES ASSUME op = "established" PROVE FALSE
        OBVIOUS
      <4>1. m = l
        BY <1>6, <3>2 DEF LifeFunctor
      <4>2. \A j \in Nat : At(s, l, j, "established", c) => j = 1
        BY <1>3, <1>5 DEF ConnInv, LifeOf, FunctorsOf, Single, LifeOps
      <4> QED
        BY <3>1, <4>1, <4>2
    <3>5. op = "destory"
      BY <3>3, <3>4 DEF LifeOps
    <3> QED
      BY <1>4, <1>6, <1>8, <1>13, <3>2, <3>5 DEF LifeFunctor, HandedOver, Closed
  <2>2. ASSUME NEW m \in Loops, NEW i \in Nat, NEW j \in Nat, NEW op \in LifeOps,
               At(t, m, i, op, c), At(t, m, j, op, c)
        PROVE  i = j
    <3>1. op = "destory" /\ m = l
      BY <2>1, <2>2
    <3>2. At(s, l, i + 1, "destory", c) /\ At(s, l, j + 1, "destory", c)
      BY <1>17, <2>2, <3>1
    <3>3. i + 1 = j + 1
      BY <1>5, <3>2 DEF ConnInv, LifeOf, FunctorsOf, Single, LifeOps
    <3> QED
      BY <3>3
  <2>3. \A m \in Loops, i \in Nat, op \in UserOps : ~At(t, m, i, op, c)
    <3> TAKE m \in Loops, i \in Nat, op \in UserOps
    <3>1. CASE m = l
      BY <1>17, <1>19, <3>1
    <3>2. CASE m # l
      BY <1>17, <1>19, <3>2
    <3> QED
      BY <3>1, <3>2
  <2> QED
    BY <2>1, <2>2, <2>3 DEF FunctorsOf
<1>21. LifeOf(t, sv, en, c)
  BY <1>15, <1>16, <1>20 DEF LifeOf
<1>22. /\ t.chan[Listen] = s.chan[Listen]
       /\ en \subseteq t.connections
       /\ s.sock[c].where = "none" => t.sock[c].where = "none"
  BY <1>1, <1>4, <1>8, TcpServerAssumption DEF Good, ServerInv
<1>23. Result(t, sv, en, cl)
  BY <1>8, <1>10, <1>11, <1>12, <1>13, <1>14, <1>21, <1>22, ConnStep
<1> QED
  BY <1>2, <1>23 DEF t, u

(* connectionDestory() of an established connection: its channel is        *)
(* removed only if it watched nothing and the connection was still open.   *)
LEMMA DestoryFields ==
    ASSUME NEW s \in States, s.abort = "none", NEW c \in Conns, Met(s, c), ~Removed(s, c),
           ChanOK(s.chan[c]), s.chan[c].fail = "none", s.chan[c].idx # KNEW,
           s.chan[c].idx = KADDED => s.chan[c].events # {},
           NEW t, t = ConnectionDestory(s, c)
    PROVE  /\ t \in States
           /\ t.abort = t.chan[c].fail
           /\ t.connections = s.connections
           /\ t.conn[c].stat = IF s.conn[c].stat = "KCONNECT" THEN "KDISCONNECTED"
                                                              ELSE s.conn[c].stat
           /\ t.conn[c].loop = s.conn[c].loop
           /\ t.conn[c].revived = s.conn[c].revived
           /\ t.conn[c].reading = s.conn[c].reading
           /\ t.conn[c].out = s.conn[c].out
           /\ \A d \in Conns \ {c} : t.conn[d] = s.conn[d]
           /\ \A d \in (Conns \cup {Listen}) \ {c} : t.chan[d] = s.chan[d]
           /\ ChanOK(t.chan[c])
           /\ t.loop = s.loop
           /\ t.sock = s.sock
           /\ t.abort \in {"none", "Channel.cc:42", "EpollPoller.cc:67"}
           /\ t.abort = "Channel.cc:42" => s.conn[c].stat # "KCONNECT"
           /\ t.abort = "none" => /\ Removed(t, c) /\ s.conn[c].stat = "KCONNECT"
                                  /\ s.chan[c].events = {} /\ t.chan[c].events = {}
<1>0. PICK ch \in ChannelRecord : ch = s.chan[c]
  BY DEF States
<1>a. ch.mapped /\ ChanOK(ch) /\ ch.fail = "none" /\ ch.idx \in {KADDED, KDEL}
      /\ (ch.idx = KADDED => ch.events # {}) /\ (ch.idx = KDEL => ch.events = {})
  BY <1>0 DEF Removed, ChanOK, ChannelRecord, KADDED, KDEL, KNEW
<1>1. CASE s.conn[c].stat # "KCONNECT"
  <2> DEFINE r == Remove(ch)
  <2>1. t = SetChan(s, c, r)
    BY <1>0, <1>1 DEF ConnectionDestory
  <2>2. /\ r \in ChannelRecord /\ ChanOK(r)
        /\ r.fail \in {"Channel.cc:42", "EpollPoller.cc:67"}
    BY <1>a, RemoveEffect
  <2> HIDE DEF r
  <2>3. /\ t \in States
        /\ t.abort = r.fail
        /\ t.connections = s.connections
        /\ t.conn = s.conn
        /\ t.chan = [s.chan EXCEPT ![c] = r]
        /\ t.loop = s.loop
        /\ t.sock = s.sock
    BY <2>1, <2>2, SetChanFields
  <2>4. t.chan[c] = r /\ \A d \in (Conns \cup {Listen}) \ {c} : t.chan[d] = s.chan[d]
    BY <2>3 DEF States
  <2> QED
    BY <1>1, <2>2, <2>3, <2>4
<1>2. CASE s.conn[c].stat = "KCONNECT"
  <2> DEFINE u == SetStat(s, c, "KDISCONNECTED")
             q == DisableAll(ch)
             v == SetChan(u, c, q)
             r == Remove(q)
  <2>1. /\ u \in States
        /\ u.abort = s.abort
        /\ u.connections = s.connections
        /\ u.conn[c].stat = "KDISCONNECTED"
        /\ u.conn[c].loop = s.conn[c].loop
        /\ u.conn[c].revived = s.conn[c].revived
        /\ u.conn[c].reading = s.conn[c].reading
        /\ u.conn[c].out = s.conn[c].out
        /\ \A d \in Conns \ {c} : u.conn[d] = s.conn[d]
        /\ u.chan = s.chan
        /\ u.loop = s.loop
        /\ u.sock = s.sock
    <3>1. "KDISCONNECTED" \in Stats /\ u = SetStat(s, c, "KDISCONNECTED")
      BY DEF Stats
    <3> HIDE DEF u
    <3> QED
      BY <3>1, SetStatFields
  <2>2. t = SetChan(v, c, Remove(v.chan[c]))
    BY <1>0, <1>2 DEF ConnectionDestory
  <2>3. q = UpdateChannel(WithEvents(ch, {})) /\ {} \in SUBSET Events
    BY DEF DisableAll, WithEvents
  <2>4. v = SetChan(u, c, q) /\ r = Remove(q)
    OBVIOUS
  <2> HIDE DEF u, v, q, r
  <2>5. /\ q \in ChannelRecord /\ ChanOK(q) /\ q.events = {} /\ q.fail = "none" /\ q.mapped
        /\ q.idx = IF ch.idx = KADDED THEN KDEL ELSE KADDED
    BY <1>a, <2>3, UpdateEffect
  <2>6. /\ r \in ChannelRecord /\ ChanOK(r) /\ r.events = {}
        /\ q.idx = KDEL => r.fail = "EpollPoller.cc:67"
        /\ q.idx # KDEL => r.fail = "none" /\ ~r.mapped /\ r.idx = KDEL
    BY <2>4, <2>5, RemoveEffect
  <2>7. /\ v \in States
        /\ v.abort = IF u.abort = "none" THEN q.fail ELSE u.abort
        /\ v.connections = u.connections
        /\ v.conn = u.conn
        /\ v.chan = [u.chan EXCEPT ![c] = q]
        /\ v.loop = u.loop
        /\ v.sock = u.sock
    BY <2>1, <2>4, <2>5, SetChanFields
  <2>8. /\ v.chan[c] = q /\ v.abort = "none"
        /\ \A d \in (Conns \cup {Listen}) \ {c} : v.chan[d] = s.chan[d]
    BY <2>1, <2>5, <2>7 DEF States
  <2>9. t = SetChan(v, c, r)
    BY <2>2, <2>4, <2>8
  <2>10. /\ t \in States
         /\ t.abort = IF v.abort = "none" THEN r.fail ELSE v.abort
         /\ t.connections = v.connections
         /\ t.conn = v.conn
         /\ t.chan = [v.chan EXCEPT ![c] = r]
         /\ t.loop = v.loop
         /\ t.sock = v.sock
    BY <2>6, <2>7, <2>9, SetChanFields
  <2>11. /\ t.chan[c] = r /\ \A d \in (Conns \cup {Listen}) \ {c} : t.chan[d] = v.chan[d]
    BY <2>7, <2>10 DEF States
  <2>12. r.fail = "none" => ch.idx = KDEL /\ ~r.mapped /\ r.idx = KDEL
    BY <1>a, <2>5, <2>6 DEF KADDED, KDEL
  <2>13. r.fail \in {"none", "EpollPoller.cc:67"}
    BY <2>6
  <2>14. /\ t.abort = r.fail /\ t.connections = s.connections /\ t.loop = s.loop
         /\ t.sock = s.sock /\ t.conn = u.conn /\ t.chan[c].events = {} /\ ChanOK(t.chan[c])
    BY <2>1, <2>6, <2>7, <2>8, <2>10, <2>11
  <2>15. t.abort = "none" => Removed(t, c) /\ s.chan[c].events = {}
    BY <1>0, <1>a, <2>11, <2>12, <2>14 DEF Removed
  <2> QED
    BY <1>2, <2>1, <2>8, <2>10, <2>11, <2>13, <2>14, <2>15
<1> QED
  BY <1>1, <1>2

(* u is what taking the functor, or the server's destructor, has left.     *)
LEMMA DestoryResult ==
    ASSUME NEW s, NEW sv, NEW en, NEW cl, Ready(s, sv, en, cl), NEW c \in Conns,
           Met(s, c), ~Removed(s, c), NEW u \in States,
           u.abort = "none", u.connections = s.connections, u.conn = s.conn,
           u.chan = s.chan, u.sock = s.sock,
           \A m \in Loops : /\ u.loop[m].phase = s.loop[m].phase
                            /\ u.loop[m].active \subseteq s.loop[m].active
                            /\ s.loop[m].batch = <<>> => u.loop[m].batch = <<>>,
           \A m \in Loops : \A p \in u.loop[m].active : p[1] # c,
           NEW eo, eo \subseteq en,
           \A d \in Conns \ {c} : ConnInv(u, sv, eo, d),
           s.conn[c].stat = "KCONNECT" =>
               /\ HandedOver(u, sv, eo, c)
               /\ \A m \in Loops, i \in Nat, op \in LifeOps : ~At(u, m, i, op, c),
           \A m \in Loops, i \in Nat, op \in UserOps : At(u, m, i, op, c) => s.conn[c].loop = m
    PROVE  Result(ConnectionDestory(u, c), sv, eo, cl)
<1>1. s \in States /\ Good(s, sv, en, cl) /\ PollerOK(s) /\ ConnInv(s, sv, en, c)
  BY DEF Ready, Good
<1> DEFINE t == ConnectionDestory(u, c)
<1>2. /\ Met(u, c) /\ ~Removed(u, c) /\ ChanOK(u.chan[c]) /\ u.chan[c].fail = "none"
      /\ u.chan[c].idx # KNEW /\ (u.chan[c].idx = KADDED => u.chan[c].events # {})
  BY <1>1 DEF Met, Removed, PollerOK, ConnInv, ChanOf
<1>3. /\ t \in States
      /\ t.abort = t.chan[c].fail
      /\ t.connections = u.connections
      /\ t.conn[c].stat = IF u.conn[c].stat = "KCONNECT" THEN "KDISCONNECTED"
                                                         ELSE u.conn[c].stat
      /\ t.conn[c].loop = u.conn[c].loop
      /\ t.conn[c].revived = u.conn[c].revived
      /\ t.conn[c].reading = u.conn[c].reading
      /\ t.conn[c].out = u.conn[c].out
      /\ \A d \in Conns \ {c} : t.conn[d] = u.conn[d]
      /\ \A d \in (Conns \cup {Listen}) \ {c} : t.chan[d] = u.chan[d]
      /\ ChanOK(t.chan[c])
      /\ t.loop = u.loop
      /\ t.sock = u.sock
      /\ t.abort \in {"none", "Channel.cc:42", "EpollPoller.cc:67"}
      /\ t.abort = "Channel.cc:42" => u.conn[c].stat # "KCONNECT"
      /\ t.abort = "none" => /\ Removed(t, c) /\ u.conn[c].stat = "KCONNECT"
                             /\ u.chan[c].events = {} /\ t.chan[c].events = {}
  BY <1>2, DestoryFields
<1> HIDE DEF t
<1>4. PollerOK(t)
  BY <1>1, <1>3 DEF PollerOK
<1>5. CASE t.abort # "none"
  <2>1. s.conn[c].stat \in Stats
    BY ReadyConn DEF ConnRecord
  <2>2. t.abort = "Channel.cc:42" => t.conn[c].stat \in Closed
    BY <1>3, <2>1 DEF Met, Closed, Stats
  <2>3. Explained(t, sv, eo)
    BY <1>3, <1>5, <2>2 DEF Explained
  <2>4. Result(t, sv, eo, cl)
    BY <1>3, <1>4, <1>5, <2>3 DEF Result
  <2> QED
    BY <2>4 DEF t
<1>6. CASE t.abort = "none"
  <2>1. /\ Removed(t, c) /\ s.conn[c].stat = "KCONNECT" /\ t.conn[c].stat = "KDISCONNECTED"
        /\ s.chan[c].events = {} /\ t.chan[c].events = {} /\ t.chan[c].fail = "none"
    BY <1>3, <1>6
  <2>2. HandedOver(t, sv, eo, c)
    BY <1>3, <2>1 DEF HandedOver
  <2>3. Met(t, c)
    BY <2>1 DEF Met
  <2>4. ActiveOf(t, c)
    BY <1>3 DEF ActiveOf
  <2>5. ChanOf(t, sv, eo, c)
    <3>1. t.conn[c].out = <<>>
      BY <1>1, <1>3, <2>1 DEF ConnInv, ChanOf
    <3> QED
      BY <2>1, <2>2, <2>3, <3>1 DEF ChanOf, Removed, KADDED, KDEL, KNEW
  <2>6. \A m \in Loops, i \in Nat : \A op : At(t, m, i, op, c) <=> At(u, m, i, op, c)
    <3>1. \A m \in Loops : Work(t, m) = Work(u, m)
      BY <1>3 DEF Work
    <3> QED
      BY <3>1 DEF At
  <2>7. LifeOf(t, sv, eo, c)
    <3>1. ConnOf(t, c)
      BY <1>1, <1>3, <2>1 DEF ConnInv, LifeOf, ConnOf
    <3>2. PendingOf(t, c) /\ RemovalOf(t, sv, eo, c)
      BY <2>1, <2>2 DEF PendingOf, RemovalOf
    <3>3. FunctorsOf(t, sv, eo, c)
      BY <1>3, <2>1, <2>3, <2>6 DEF FunctorsOf
    <3> QED
      BY <3>1, <3>2, <3>3 DEF LifeOf
  <2>8. \A d \in Conns : ConnInv(t, sv, eo, d) /\ ChanOK(t.chan[d])
    <3> TAKE d \in Conns
    <3>1. CASE d = c
      BY <1>3, <2>4, <2>5, <2>7, <3>1 DEF ConnInv
    <3>2. CASE d # c
      <4>1. \A m \in Loops : Work(t, m) = Work(u, m)
        BY <1>3 DEF Work
      <4>2. Untouched(u, t, d)
        BY <1>3, <3>2, <4>1, MovedSame DEF Untouched
      <4>3. HandedOver(u, sv, eo, d) => HandedOver(t, sv, eo, d)
        BY <1>3 DEF HandedOver
      <4>4. ConnInv(t, sv, eo, d)
        BY <1>3, <3>2, <4>2, <4>3, UntouchedFrame
      <4> QED
        BY <1>4, <4>4 DEF PollerOK
    <3> QED
      BY <3>1, <3>2
  <2>9. \A d \in Conns : Met(s, d) => Met(t, d)
    BY <1>3, <2>3 DEF Met
  <2>10. /\ eo \subseteq t.connections
         /\ t.chan[Listen] = s.chan[Listen]
         /\ \A d \in Conns : s.sock[d].where = "none" => t.sock[d].where = "none"
    BY <1>1, <1>3, TcpServerAssumption DEF Good, ServerInv
  <2>11. \A m \in Loops : /\ t.loop[m].phase = s.loop[m].phase
                          /\ t.loop[m].active \subseteq s.loop[m].active
                          /\ s.loop[m].batch = <<>> => t.loop[m].batch = <<>>
    BY <1>3
  <2>12. Result(t, sv, eo, cl)
    BY <1>3, <1>6, <2>8, <2>9, <2>10, <2>11, Assemble
  <2> QED
    BY <2>12 DEF t
<1> QED
  BY <1>5, <1>6

LEMMA DestoryStep ==
    ASSUME NEW s, NEW sv, NEW en, NEW cl, Ready(s, sv, en, cl), NEW l \in Loops,
           s.loop[l].phase = "run", s.loop[l].batch # <<>>,
           NEW f, f = Head(s.loop[l].batch), f.op = "destory"
    PROVE  Result(ConnectionDestory(TakeHead(s, l), f.conn), sv, en, cl)
<1>1. s \in States /\ Good(s, sv, en, cl) /\ s.abort = "none"
  BY DEF Ready
<1>2. PICK c \in Conns : c = f.conn
  BY <1>1, AtHead, FunctorFields
<1>3. At(s, l, 1, "destory", c)
  BY <1>1, <1>2, AtHead
<1> DEFINE u == TakeHead(s, l)
<1>4. /\ u \in States
      /\ u.abort = s.abort
      /\ u.connections = s.connections
      /\ u.conn = s.conn
      /\ u.chan = s.chan
      /\ u.loop = Taken(s.loop, l)
      /\ u.sock = s.sock
  BY <1>1, TakeFields
<1>5. \A d \in Conns \ {c} : ConnInv(u, sv, en, d)
  BY <1>2, TakenOthers
<1> HIDE DEF u
<1>6. ConnInv(s, sv, en, c)
  BY <1>1 DEF Good
<1>7. /\ s.conn[c].loop = l /\ ~Removed(s, c) /\ s.conn[c].stat # "none"
      /\ s.conn[c].stat = "KCONNECT" => HandedOver(s, sv, en, c)
  BY <1>3, <1>6 DEF ConnInv, LifeOf, FunctorsOf, LifeFunctor, LifeOps, Closed
<1>8. Met(s, c)
  <2> SUFFICES ASSUME s.conn[c].stat = "KCONNECTING" PROVE FALSE
    BY <1>7 DEF Met
  <2>1. PICK j \in Nat : j < 1 /\ At(s, l, j, "established", c)
    BY <1>3, <1>6, <1>7 DEF ConnInv, LifeOf, PendingOf
  <2> QED
    BY <2>1 DEF At
<1>9. \A m \in Loops : /\ u.loop[m].phase = s.loop[m].phase
                       /\ u.loop[m].active \subseteq s.loop[m].active
                       /\ s.loop[m].batch = <<>> => u.loop[m].batch = <<>>
  BY <1>1, <1>4, WorkTaken
<1>10. \A m \in Loops : \A p \in u.loop[m].active : p[1] # c
  <2> TAKE m \in Loops
  <2> TAKE p \in u.loop[m].active
  <2>1. p \in s.loop[m].active
    BY <1>9
  <2>2. p[1] = c => m = l
    BY <1>6, <1>7, <2>1 DEF ConnInv, ActiveOf
  <2>3. s.loop[l].active = {}
    BY <1>1 DEF Good, LoopInv
  <2> QED
    BY <2>1, <2>2, <2>3
<1>11. \A m \in Loops, i \in Nat : \A op :
           At(u, m, i, op, c) <=> At(s, m, IF m = l THEN i + 1 ELSE i, op, c) /\ (m = l => i > 0)
  BY <1>1, <1>4, AtTaken
<1>12. ASSUME NEW m \in Loops, NEW i \in Nat, NEW op, At(u, m, i, op, c)
       PROVE  \E k \in Nat : At(s, m, k, op, c) /\ (m = l => k > 1)
  <2>1. CASE m = l
    BY <1>11, <1>12, <2>1
  <2>2. CASE m # l
    BY <1>11, <1>12, <2>2
  <2> QED
    BY <2>1, <2>2
<1>13. \A m \in Loops, i \in Nat, op \in UserOps : At(u, m, i, op, c) => s.conn[c].loop = m
  BY <1>6, <1>12 DEF ConnInv, LifeOf, FunctorsOf
<1>14. ASSUME s.conn[c].stat = "KCONNECT"
       PROVE  /\ HandedOver(u, sv, en, c)
              /\ \A m \in Loops, i \in Nat, op \in LifeOps : ~At(u, m, i, op, c)
  <2>1. HandedOver(u, sv, en, c)
    BY <1>4, <1>7, <1>14 DEF HandedOver
  <2>2. ASSUME NEW m \in Loops, NEW i \in Nat, NEW op \in LifeOps, At(u, m, i, op, c)
        PROVE  FALSE
    <3>1. PICK k \in Nat : At(s, m, k, op, c) /\ (m = l => k > 1)
      BY <1>12, <2>2
    <3>2. LifeFunctor(s, sv, en, m, op, c)
      BY <1>6, <3>1 DEF ConnInv, LifeOf, FunctorsOf
    <3>3. op = "destory" /\ m = l
      BY <1>7, <1>14, <3>2 DEF LifeFunctor, LifeOps, Closed
    <3>4. k = 1
      BY <1>3, <1>6, <3>1, <3>3 DEF ConnInv, LifeOf, FunctorsOf, Single, LifeOps
    <3> QED
      BY <3>1, <3>3, <3>4
  <2> QED
    BY <2>1, <2>2
<1>15. en \subseteq en /\ u.abort = "none"
  BY <1>1, <1>4
<1>16. Result(ConnectionDestory(u, c), sv, en, cl)
  BY <1>4, <1>5, <1>7, <1>8, <1>9, <1>10, <1>13, <1>14, <1>15, DestoryResult
<1> QED
  BY <1>2, <1>16 DEF u

(* removeConnectionInLoop() as a functor of the base loop.                 *)
LEMMA RemoveStep ==
    ASSUME NEW s, NEW sv, NEW en, NEW cl, Ready(s, sv, en, cl), NEW l \in Loops,
           s.loop[l].phase = "run", s.loop[l].batch # <<>>,
           NEW f, f = Head(s.loop[l].batch), f.op = "remove"
    PROVE  Result(RemoveConnectionInLoop(TakeHead(s, l), f.conn), sv, en, cl)
<1>1. s \in States /\ Good(s, sv, en, cl) /\ s.abort = "none" /\ PollerOK(s)
  BY DEF Ready
<1>2. PICK c \in Conns : c = f.conn
  BY <1>1, AtHead, FunctorFields
<1>3. At(s, l, 1, "remove", c)
  BY <1>1, <1>2, AtHead
<1> DEFINE u == TakeHead(s, l)
<1>4. /\ u \in States
      /\ u.abort = s.abort
      /\ u.connections = s.connections
      /\ u.conn = s.conn
      /\ u.chan = s.chan
      /\ u.loop = Taken(s.loop, l)
      /\ u.sock = s.sock
  BY <1>1, TakeFields
<1>5. \A d \in Conns \ {c} : ConnInv(u, sv, en, d)
  BY <1>2, TakenOthers
<1> HIDE DEF u
<1>6. ConnInv(s, sv, en, c)
  BY <1>1 DEF Good
<1>7. /\ l = Base /\ s.conn[c].stat \in Closed
      /\ ~s.conn[c].revived => s.conn[c].stat = "KDISCONNECTED" /\ c \in s.connections
  BY <1>3, <1>6 DEF ConnInv, LifeOf, FunctorsOf, LifeFunctor, LifeOps
<1>8. CASE c \notin s.connections
  <2> DEFINE t == Fail(u, "TcpServer.cc:75")
  <2>1. /\ t \in States /\ t.abort = "TcpServer.cc:75"
        /\ t.conn = s.conn /\ t.chan = s.chan
    BY <1>4, FailFields DEF Aborts
  <2>2. RemoveConnectionInLoop(u, c) = t
    BY <1>4, <1>8 DEF RemoveConnectionInLoop
  <2> HIDE DEF t
  <2>3. Explained(t, sv, en)
    BY <1>7, <1>8, <2>1 DEF Explained
  <2>4. Result(t, sv, en, cl)
    BY <1>1, <2>1, <2>3 DEF Result, PollerOK
  <2> QED
    BY <1>2, <2>2, <2>4 DEF u
<1>9. CASE c \in s.connections
  <2>1. sv # "ending" /\ en = {}
    BY <1>1, <1>7 DEF Good, ServerInv
  <2>2. PICK m \in Loops : m = s.conn[c].loop
    BY <1>1 DEF States, ConnRecord
  <2> DEFINE g == [op |-> "destory", conn |-> c]
             v == [u EXCEPT !.connections = @ \ {c}]
             t == QueueInLoop(v, m, g)
  <2>3. g \in Functors /\ g.op = "destory" /\ g.conn = c
    BY DEF Functors
  <2>4. RemoveConnectionInLoop(u, c) = t
    BY <1>4, <1>9, <2>2 DEF RemoveConnectionInLoop
  <2>5. /\ v \in States
        /\ v.abort = u.abort
        /\ v.connections = u.connections \ {c}
        /\ v.conn = u.conn
        /\ v.chan = u.chan
        /\ v.loop = u.loop
        /\ v.sock = u.sock
    BY <1>4 DEF States
  <2> HIDE DEF g, v
  <2>6. /\ t \in States
        /\ t.abort = v.abort
        /\ t.connections = v.connections
        /\ t.conn = v.conn
        /\ t.chan = v.chan
        /\ t.loop = Queued(v.loop, m, g)
        /\ t.sock = v.sock
    BY <2>3, <2>5, QueueFields
  <2> HIDE DEF t
  <2>7. /\ t.abort = "none" /\ t.connections = s.connections \ {c} /\ t.conn = s.conn
        /\ t.chan = s.chan /\ t.sock = s.sock /\ t.loop = Queued(u.loop, m, g)
    BY <1>1, <1>4, <2>5, <2>6
  <2>8. /\ \A d \in Conns \ {c} : Untouched(u, t, d)
        /\ \A n \in Loops : /\ t.loop[n].phase = u.loop[n].phase
                            /\ t.loop[n].active \subseteq u.loop[n].active
                            /\ u.loop[n].batch = <<>> => t.loop[n].batch = <<>>
    <3>1. \A d \in Conns \ {c} : /\ t.conn[d] = u.conn[d]
                                 /\ t.chan[d] = u.chan[d]
                                 /\ t.sock[d].where = u.sock[d].where
                                 /\ d \in t.connections <=> d \in u.connections
      BY <1>4, <2>7
    <3> QED
      BY <1>4, <2>3, <2>6, <2>7, <3>1, QueuedUntouched
  <2>9. \A n \in Loops : /\ t.loop[n].phase = s.loop[n].phase
                         /\ t.loop[n].active \subseteq s.loop[n].active
                         /\ s.loop[n].batch = <<>> => t.loop[n].batch = <<>>
    <3>1. \A n \in Loops : /\ u.loop[n].phase = s.loop[n].phase
                           /\ u.loop[n].active \subseteq s.loop[n].active
                           /\ s.loop[n].batch = <<>> => u.loop[n].batch = <<>>
      BY <1>1, <1>4, WorkTaken
    <3> QED
      BY <2>8, <3>1
  <2>10. Met(t, c) /\ Met(s, c)
    BY <1>7, <2>7 DEF Met, Closed
  <2>11. ActiveOf(t, c)
    <3>1. \A n \in Loops : t.loop[n].active \subseteq s.loop[n].active
      BY <2>9
    <3> QED
      BY <1>6, <2>7, <2>10, <3>1, ActiveFrame DEF ConnInv
  <2>12. ~Removed(s, c) /\ ~Removed(t, c)
    BY <1>6, <2>1, <2>7 DEF ConnInv, ChanOf, HandedOver, Removed
  <2>13. ChanOf(t, sv, en, c)
    BY <1>6, <2>7, <2>10, <2>12 DEF ConnInv, ChanOf
  <2>14. \A n \in Loops, i \in Nat : \A op :
             At(u, n, i, op, c) <=>
                 At(s, n, IF n = l THEN i + 1 ELSE i, op, c) /\ (n = l => i > 0)
    BY <1>1, <1>4, AtTaken
  <2>15. \A n \in Loops, i \in Nat : \A op :
             At(t, n, i, op, c) <=>
                 \/ At(u, n, i, op, c)
                 \/ n = m /\ i = Len(Work(u, m)) + 1 /\ op = "destory"
    BY <1>4, <2>3, <2>6, <2>7, AtQueued
  <2>16. ASSUME NEW n \in Loops, NEW i \in Nat, NEW op, At(u, n, i, op, c)
         PROVE  \E k \in Nat : At(s, n, k, op, c) /\ k = (IF n = l THEN i + 1 ELSE i)
    <3>1. CASE n = l
      BY <2>14, <2>16, <3>1
    <3>2. CASE n # l
      BY <2>14, <2>16, <3>2
    <3> QED
      BY <3>1, <3>2
  <2>17. ASSUME NEW n \in Loops, NEW i \in Nat, NEW op \in LifeOps, At(u, n, i, op, c)
         PROVE  /\ op = "remove" /\ n = Base /\ s.conn[c].revived
                /\ LifeFunctor(t, sv, en, n, op, c)
    <3>1. PICK k \in Nat : At(s, n, k, op, c) /\ k = (IF n = l THEN i + 1 ELSE i)
      BY <2>16, <2>17
    <3>2. LifeFunctor(s, sv, en, n, op, c)
      BY <1>6, <3>1 DEF ConnInv, LifeOf, FunctorsOf
    <3>3. op = "remove" /\ n = Base
      BY <1>7, <1>9, <2>1, <3>2 DEF LifeFunctor, LifeOps, Closed, HandedOver
    <3>4. s.conn[c].revived
      <4> SUFFICES ASSUME ~s.conn[c].revived PROVE FALSE
        OBVIOUS
      <4>1. k = 1
        BY <1>3, <1>6, <1>7, <3>1, <3>3 DEF ConnInv, LifeOf, FunctorsOf, Single, LifeOps
      <4>2. i > 0 /\ k = i + 1
        BY <1>7, <2>14, <2>17, <3>1, <3>3
      <4> QED
        BY <4>1, <4>2
    <3> QED
      BY <1>7, <2>7, <3>3, <3>4 DEF LifeFunctor
  <2>18. LifeFunctor(t, sv, en, m, "destory", c)
    BY <1>7, <2>2, <2>7, <2>12 DEF LifeFunctor, Closed
  <2>19. FunctorsOf(t, sv, en, c)
    <3>1. \A n \in Loops, i \in Nat, op \in UserOps :
             At(t, n, i, op, c) => Met(t, c) /\ t.conn[c].loop = n
      <4>1. "destory" \notin UserOps
        BY DEF UserOps, CallOps
      <4> QED
        BY <1>6, <2>7, <2>10, <2>15, <2>16, <4>1 DEF ConnInv, LifeOf, FunctorsOf
    <3>2. \A n \in Loops, i \in Nat, op \in LifeOps :
             At(t, n, i, op, c) => LifeFunctor(t, sv, en, n, op, c)
      BY <2>15, <2>17, <2>18
    <3>3. ASSUME NEW n \in Loops, NEW i \in Nat, NEW j \in Nat, NEW op \in LifeOps,
                 At(t, n, i, op, c), At(t, n, j, op, c), Single(t, op, c)
          PROVE  i = j
      <4>1. CASE op = "remove"
        BY <2>7, <2>15, <2>17, <3>3, <4>1 DEF Single
      <4>2. CASE op # "remove"
        BY <2>15, <2>17, <3>3, <4>2
      <4> QED
        BY <4>1, <4>2
    <3> QED
      BY <3>1, <3>2, <3>3 DEF FunctorsOf
  <2>20. LifeOf(t, sv, en, c)
    <3>1. ConnOf(t, c)
      BY <1>6, <1>7, <2>7, <2>10 DEF ConnInv, LifeOf, ConnOf, Met, Closed
    <3>2. PendingOf(t, c) /\ RemovalOf(t, sv, en, c)
      BY <1>7, <2>7 DEF PendingOf, RemovalOf, Closed
    <3> QED
      BY <2>19, <3>1, <3>2 DEF LifeOf
  <2>21. \A d \in Conns : ConnInv(t, sv, en, d) /\ ChanOK(t.chan[d])
    <3> TAKE d \in Conns
    <3>1. CASE d = c
      BY <1>1, <2>7, <2>11, <2>13, <2>20, <3>1 DEF ConnInv, PollerOK
    <3>2. CASE d # c
      <4>1. HandedOver(u, sv, en, d) => HandedOver(t, sv, en, d)
        BY <2>1 DEF HandedOver
      <4>2. \A n \in Loops : t.loop[n].active \subseteq u.loop[n].active
        BY <2>8
      <4>3. ConnInv(t, sv, en, d)
        BY <1>4, <1>5, <2>8, <3>2, <4>1, <4>2, UntouchedFrame
      <4> QED
        BY <1>1, <2>7, <4>3 DEF PollerOK
    <3> QED
      BY <3>1, <3>2
  <2>22. /\ en \subseteq en /\ en \subseteq t.connections
         /\ t.chan[Listen] = s.chan[Listen]
         /\ \A d \in Conns : s.sock[d].where = "none" => t.sock[d].where = "none"
         /\ \A d \in Conns : Met(s, d) => Met(t, d)
    BY <2>1, <2>7 DEF Met
  <2>23. Result(t, sv, en, cl)
    BY <2>6, <2>7, <2>9, <2>21, <2>22, Assemble
  <2> QED
    BY <1>2, <2>4, <2>23 DEF u
<1> QED
  BY <1>8, <1>9

-------------------------------------------------------------------------------
(* The server's destructor.                                                *)

LEMMA EndOnBaseStep ==
    ASSUME NEW s, NEW sv, NEW en, NEW cl, Ready(s, sv, en, cl), NEW c \in Conns,
           c \in en, s.conn[c].loop = Base
    PROVE  Result(ConnectionDestory(s, c), sv, en \ {c}, cl)
<1> DEFINE eo == en \ {c}
<1>1. s \in States /\ Good(s, sv, en, cl) /\ s.abort = "none" /\ ConnInv(s, sv, en, c)
  BY DEF Ready, Good
<1>2. sv = "ending" /\ c \in s.connections /\ s.loop[Base].phase = "poll"
  BY <1>1 DEF Good, ServerInv
<1>3. ~HandedOver(s, sv, en, c) /\ HandedOver(s, sv, eo, c)
  BY <1>2 DEF HandedOver
<1>4. Met(s, c) /\ ~Removed(s, c)
  BY <1>1, <1>2, <1>3 DEF ConnInv, LifeOf, ConnOf, ChanOf, Met
<1>5. \A m \in Loops : \A p \in s.loop[m].active : p[1] # c
  <2> TAKE m \in Loops
  <2> TAKE p \in s.loop[m].active
  <2>1. p[1] = c => m = Base
    BY <1>1 DEF ConnInv, ActiveOf
  <2>2. s.loop[Base].active = {}
    BY <1>1, <1>2 DEF Good, LoopInv, Loops
  <2> QED
    BY <2>1, <2>2
<1>6. \A d \in Conns \ {c} : ConnInv(s, sv, eo, d)
  <2> TAKE d \in Conns \ {c}
  <2>1. Moved(s, s, d)
    BY MovedSame
  <2>2. Untouched(s, s, d)
    BY <2>1 DEF Untouched
  <2>3. HandedOver(s, sv, en, d) => HandedOver(s, sv, eo, d)
    BY DEF HandedOver
  <2>4. ConnInv(s, sv, en, d)
    BY <1>1 DEF Good
  <2> HIDE DEF eo
  <2> QED
    BY <1>1, <2>2, <2>3, <2>4, UntouchedFrame
<1>7. ASSUME s.conn[c].stat = "KCONNECT"
      PROVE  /\ HandedOver(s, sv, eo, c)
             /\ \A m \in Loops, i \in Nat, op \in LifeOps : ~At(s, m, i, op, c)
  <2>1. ASSUME NEW m \in Loops, NEW i \in Nat, NEW op \in LifeOps, At(s, m, i, op, c)
        PROVE  FALSE
    <3>1. LifeFunctor(s, sv, en, m, op, c)
      BY <1>1, <2>1 DEF ConnInv, LifeOf, FunctorsOf
    <3> QED
      BY <1>2, <1>3, <1>7, <3>1 DEF LifeFunctor, LifeOps, Closed
  <2> QED
    BY <1>3, <2>1
<1>8. \A m \in Loops, i \in Nat, op \in UserOps : At(s, m, i, op, c) => s.conn[c].loop = m
  BY <1>1 DEF ConnInv, LifeOf, FunctorsOf
<1>9. eo \subseteq en
  OBVIOUS
<1> HIDE DEF eo
<1>10. Result(ConnectionDestory(s, c), sv, eo, cl)
  BY <1>1, <1>4, <1>5, <1>6, <1>7, <1>8, <1>9, DestoryResult
<1> QED
  BY <1>10 DEF eo

LEMMA EndOnIoStep ==
    ASSUME NEW s, NEW sv, NEW en, NEW cl, Ready(s, sv, en, cl), NEW c \in Conns,
           c \in en, NEW l \in Loops, s.conn[c].loop = l,
           NEW f, f = [op |-> "destory", conn |-> c], NEW t, t = QueueInLoop(s, l, f)
    PROVE  Result(t, sv, en \ {c}, cl)
<1> DEFINE eo == en \ {c}
<1>1. /\ s \in States /\ Good(s, sv, en, cl) /\ s.abort = "none" /\ PollerOK(s)
      /\ ConnInv(s, sv, en, c)
  BY DEF Ready, Good
<1>2. sv = "ending" /\ c \in s.connections
  BY <1>1 DEF Good, ServerInv
<1>3. f \in Functors /\ f.op = "destory" /\ f.conn = c
  BY DEF Functors
<1>4. /\ t \in States
      /\ t.abort = s.abort
      /\ t.connections = s.connections
      /\ t.conn = s.conn
      /\ t.chan = s.chan
      /\ t.loop = Queued(s.loop, l, f)
      /\ t.sock = s.sock
  BY <1>1, <1>3, QueueFields
<1>5. /\ \A d \in Conns \ {c} : Untouched(s, t, d)
      /\ \A m \in Loops : /\ t.loop[m].phase = s.loop[m].phase
                          /\ t.loop[m].active \subseteq s.loop[m].active
                          /\ s.loop[m].batch = <<>> => t.loop[m].batch = <<>>
  <2>1. \A d \in Conns \ {c} : /\ t.conn[d] = s.conn[d]
                               /\ t.chan[d] = s.chan[d]
                               /\ t.sock[d].where = s.sock[d].where
                               /\ d \in t.connections <=> d \in s.connections
    BY <1>4
  <2> QED
    BY <1>1, <1>3, <1>4, <2>1, QueuedUntouched
<1>6. /\ ~HandedOver(s, sv, en, c) /\ HandedOver(t, sv, eo, c)
      /\ \A d : HandedOver(s, sv, en, d) => HandedOver(t, sv, eo, d)
  BY <1>2, <1>4 DEF HandedOver
<1>7. eo \subseteq en
  OBVIOUS
<1> HIDE DEF eo
<1>8. ~Removed(s, c) /\ s.conn[c].stat # "none"
  BY <1>1, <1>2, <1>6 DEF ConnInv, LifeOf, ConnOf, ChanOf
<1>9. \A m \in Loops : t.loop[m].active \subseteq s.loop[m].active
  BY <1>5
<1>10. \A m \in Loops, i \in Nat : \A op :
           At(t, m, i, op, c) <=>
               \/ At(s, m, i, op, c)
               \/ m = l /\ i = Len(Work(s, l)) + 1 /\ op = "destory"
  BY <1>1, <1>3, <1>4, AtQueued
<1>11. \A m \in Loops, i \in Nat, op \in LifeOps :
           At(s, m, i, op, c) => LifeFunctor(s, sv, en, m, op, c)
  BY <1>1 DEF ConnInv, LifeOf, FunctorsOf
<1>12. \A m \in Loops, i \in Nat : ~At(s, m, i, "destory", c)
  BY <1>2, <1>6, <1>11 DEF LifeFunctor, LifeOps
<1>13. ActiveOf(t, c)
  BY <1>1, <1>4, <1>9, ActiveFrame DEF ConnInv, Met
<1>14. ChanOf(t, sv, eo, c)
  BY <1>1, <1>4, <1>6 DEF ConnInv, ChanOf, Met, Removed
<1>15. ConnOf(t, c) /\ RemovalOf(t, sv, eo, c)
  BY <1>1, <1>4, <1>6 DEF ConnInv, LifeOf, ConnOf, RemovalOf
<1>16. PendingOf(t, c)
  <2> SUFFICES ASSUME s.conn[c].stat = "KCONNECTING"
               PROVE  /\ \E i \in Nat : At(t, l, i, "established", c)
                      /\ \A i \in Nat : At(t, l, i, "destory", c) =>
                             \E j \in Nat : j < i /\ At(t, l, j, "established", c)
    BY <1>4 DEF PendingOf
  <2>1. PICK j \in Nat : At(s, l, j, "established", c)
    BY <1>1 DEF ConnInv, LifeOf, PendingOf
  <2>2. Len(Work(s, l)) \in Nat
    BY <1>1, WorkTyped
  <2>3. j < Len(Work(s, l)) + 1
    BY <2>1, <2>2 DEF At
  <2>4. At(t, l, j, "established", c)
    BY <1>10, <2>1
  <2>5. \A i \in Nat : At(t, l, i, "destory", c) => i = Len(Work(s, l)) + 1
    BY <1>10, <1>12
  <2> QED
    BY <2>3, <2>4, <2>5
<1>17. FunctorsOf(t, sv, eo, c)
  <2>1. \A m \in Loops, i \in Nat, op \in UserOps :
           At(t, m, i, op, c) => Met(t, c) /\ t.conn[c].loop = m
    <3>1. "destory" \notin UserOps
      BY DEF UserOps, CallOps
    <3> QED
      BY <1>1, <1>4, <1>10, <3>1 DEF ConnInv, LifeOf, FunctorsOf, Met
  <2>2. ASSUME NEW m \in Loops, NEW i \in Nat, NEW op \in LifeOps, At(t, m, i, op, c)
        PROVE  LifeFunctor(t, sv, eo, m, op, c)
    <3>1. CASE op = "destory"
      <4>1. m = l
        BY <1>10, <1>12, <2>2, <3>1
      <4> QED
        BY <1>4, <1>6, <1>8, <3>1, <4>1 DEF LifeFunctor, Removed
    <3>2. CASE op # "destory"
      <4>1. LifeFunctor(s, sv, en, m, op, c)
        BY <1>10, <1>11, <2>2, <3>2
      <4> QED
        BY <1>4, <3>2, <4>1 DEF LifeFunctor
    <3> QED
      BY <3>1, <3>2
  <2>3. ASSUME NEW m \in Loops, NEW i \in Nat, NEW j \in Nat, NEW op \in LifeOps,
               At(t, m, i, op, c), At(t, m, j, op, c), Single(t, op, c)
        PROVE  i = j
    <3>1. CASE op = "destory"
      BY <1>10, <1>12, <2>3, <3>1
    <3>2. CASE op # "destory"
      <4>1. At(s, m, i, op, c) /\ At(s, m, j, op, c) /\ Single(s, op, c)
        BY <1>4, <1>10, <2>3, <3>2 DEF Single
      <4> QED
        BY <1>1, <4>1 DEF ConnInv, LifeOf, FunctorsOf
    <3> QED
      BY <3>1, <3>2
  <2> QED
    BY <2>1, <2>2, <2>3 DEF FunctorsOf
<1>18. \A d \in Conns : ConnInv(t, sv, eo, d) /\ ChanOK(t.chan[d])
  <2> TAKE d \in Conns
  <2>1. CASE d = c
    BY <1>1, <1>4, <1>13, <1>14, <1>15, <1>16, <1>17, <2>1 DEF ConnInv, LifeOf, PollerOK
  <2>2. CASE d # c
    <3>1. ConnInv(s, sv, en, d)
      BY <1>1 DEF Good
    <3>2. ConnInv(t, sv, eo, d)
      BY <1>1, <1>5, <1>6, <1>9, <2>2, <3>1, UntouchedFrame
    <3> QED
      BY <1>1, <1>4, <3>2 DEF PollerOK
  <2> QED
    BY <2>1, <2>2
<1>19. /\ eo \subseteq t.connections
       /\ t.chan[Listen] = s.chan[Listen] /\ t.abort = "none"
       /\ \A d \in Conns : s.sock[d].where = "none" => t.sock[d].where = "none"
       /\ \A d \in Conns : Met(s, d) => Met(t, d)
  BY <1>1, <1>4, <1>7 DEF Met, Good, ServerInv
<1>20. Result(t, sv, eo, cl)
  BY <1>4, <1>5, <1>7, <1>18, <1>19, Assemble
<1> QED
  BY <1>20 DEF eo

-------------------------------------------------------------------------------
(* The acceptor.                                                           *)

SetActive(s, l, a) == [s EXCEPT !.loop[l].active = a]

(* An event leaves the list of active channels before it is handled.       *)
LEMMA ActiveStep ==
    ASSUME NEW s, NEW sv, NEW en, NEW cl, Ready(s, sv, en, cl), NEW l \in Loops,
           NEW a, a \subseteq s.loop[l].active, NEW t, t = SetActive(s, l, a)
    PROVE  /\ Ready(t, sv, en, cl)
           /\ t.connections = s.connections
           /\ t.conn = s.conn
           /\ t.chan = s.chan
           /\ t.sock = s.sock
           /\ \A m \in Loops : t.loop[m].phase = s.loop[m].phase
<1>1. /\ s \in States /\ Good(s, sv, en, cl) /\ s.abort = "none" /\ PollerOK(s)
      /\ cl \in ClientStates
  BY DEF Ready
<1>2. s.loop \in [Loops -> LoopRecord] /\ s.loop[l] \in LoopRecord
  BY <1>1 DEF States
<1> DEFINE r == [s.loop[l] EXCEPT !.active = a]
<1>3. /\ r \in LoopRecord /\ r.phase = s.loop[l].phase /\ r.active = a
      /\ r.queue = s.loop[l].queue /\ r.batch = s.loop[l].batch
  BY <1>2 DEF LoopRecord
<1>4. t = [s EXCEPT !.loop = [s.loop EXCEPT ![l] = r]]
  BY DEF SetActive
<1> HIDE DEF r
<1>5. [s.loop EXCEPT ![l] = r] \in [Loops -> LoopRecord]
  BY <1>2, <1>3
<1>6. /\ t \in States
      /\ t.abort = s.abort
      /\ t.connections = s.connections
      /\ t.conn = s.conn
      /\ t.chan = s.chan
      /\ t.loop = [s.loop EXCEPT ![l] = r]
      /\ t.sock = s.sock
  BY <1>1, <1>4, <1>5 DEF States
<1>7. t.loop[l] = r /\ \A m \in Loops \ {l} : t.loop[m] = s.loop[m]
  BY <1>2, <1>6
<1>8. \A m \in Loops : /\ t.loop[m].phase = s.loop[m].phase
                       /\ t.loop[m].active \subseteq s.loop[m].active
                       /\ t.loop[m].batch = s.loop[m].batch
                       /\ t.loop[m].queue = s.loop[m].queue
  BY <1>3, <1>7
<1>9. \A m \in Loops : Work(t, m) = Work(s, m)
  BY <1>8 DEF Work
<1>10. \A d \in Conns : ConnInv(t, sv, en, d) /\ ChanOK(t.chan[d])
  <2> TAKE d \in Conns
  <2>1. Untouched(s, t, d)
    BY <1>6, <1>9, MovedSame DEF Untouched
  <2>2. HandedOver(s, sv, en, d) => HandedOver(t, sv, en, d)
    BY <1>6 DEF HandedOver
  <2>3. ConnInv(s, sv, en, d)
    BY <1>1 DEF Good
  <2>4. ConnInv(t, sv, en, d)
    BY <1>1, <1>8, <2>1, <2>2, <2>3, UntouchedFrame
  <2> QED
    BY <1>1, <1>6, <2>4 DEF PollerOK
<1>11. /\ \A d \in Conns : Met(s, d) => Met(t, d)
       /\ \A d \in Conns : s.sock[d].where = "none" /\ sv # "started" =>
                               t.sock[d].where = "none"
       /\ t.chan[Listen] = s.chan[Listen] /\ t.abort = "none"
       /\ en \subseteq en /\ en \subseteq t.connections
       /\ \A m \in Loops : /\ t.loop[m].phase = s.loop[m].phase
                           /\ t.loop[m].active \subseteq s.loop[m].active
                           /\ s.loop[m].batch = <<>> => t.loop[m].batch = <<>>
  BY <1>1, <1>6, <1>8 DEF Met, Good, ServerInv
<1>12. Result(t, sv, en, cl)
  <2>1. t \in States
    BY <1>6
  <2> QED
    BY <2>1, <1>10, <1>11, Assemble, Zenon
<1>13. Ready(t, sv, en, cl)
  BY <1>1, <1>11, <1>12, Zenon DEF Result, Ready
<1>14. \A m \in Loops : t.loop[m].phase = s.loop[m].phase
  BY <1>8, Zenon
<1> QED
  BY <1>6, <1>13, <1>14, Zenon

(* A connection that was not accepted yet.                                 *)
LEMMA UnknownConn ==
    ASSUME NEW s, NEW sv, NEW en, NEW cl, Ready(s, sv, en, cl), NEW c \in Conns,
           s.sock[c].where # "open"
    PROVE  /\ s.conn[c].stat = "none" /\ c \notin s.connections
           /\ s.chan[c].idx = KNEW /\ s.chan[c].events = {} /\ s.conn[c].out = <<>>
           /\ \A l \in Loops, i \in Nat, op \in UserOps \cup LifeOps : ~At(s, l, i, op, c)
           /\ \A l \in Loops : \A p \in s.loop[l].active : p[1] # c
<1>1. ConnInv(s, sv, en, c)
  BY ReadyConn
<1>2. s.conn[c].stat = "none" /\ c \notin s.connections
  BY <1>1 DEF ConnInv, LifeOf, ConnOf
<1>3. ~Met(s, c)
  BY <1>2 DEF Met
<1>4. s.chan[c].idx = KNEW
  BY <1>1, <1>3 DEF ConnInv, ChanOf
<1>5. s.chan[c].events = {}
  BY <1>4, ReadyConn DEF ChanOK, KNEW, KADDED
<1>6. s.conn[c].out = <<>>
  BY <1>5, ReadyConn
<1>7. \A l \in Loops, i \in Nat, op \in UserOps : ~At(s, l, i, op, c)
  BY <1>1, <1>3 DEF ConnInv, LifeOf, FunctorsOf
<1>8. \A l \in Loops, i \in Nat, op \in LifeOps : ~At(s, l, i, op, c)
  BY <1>1, <1>2 DEF ConnInv, LifeOf, FunctorsOf, LifeFunctor, Closed, LifeOps
<1>9. \A l \in Loops : \A p \in s.loop[l].active : p[1] # c
  BY <1>1, <1>3 DEF ConnInv, ActiveOf
<1> QED
  BY <1>2, <1>4, <1>5, <1>6, <1>7, <1>8, <1>9

(* accept() gave newConnection() the socket.                               *)
Accepted(s, c) == [s EXCEPT !.sock[c].where = "open", !.connections = @ \cup {c}]

LEMMA AcceptedFields ==
    ASSUME NEW s \in States, NEW c \in Conns, NEW t, t = Accepted(s, c)
    PROVE  /\ t \in States
           /\ t.abort = s.abort
           /\ t.connections = s.connections \cup {c}
           /\ t.conn = s.conn
           /\ t.chan = s.chan
           /\ t.loop = s.loop
           /\ t.sock[c].where = "open"
           /\ \A d \in Conns \ {c} : t.sock[d] = s.sock[d]
<1> DEFINE r == [s.sock[c] EXCEPT !.where = "open"]
<1>1. s.sock \in [Conns -> SockRecord] /\ s.sock[c] \in SockRecord
  BY DEF States
<1>2. r \in SockRecord /\ r.where = "open"
  BY <1>1 DEF SockRecord
<1> DEFINE x == [s.sock EXCEPT ![c] = r]
           y == s.connections \cup {c}
<1>3. t = [s EXCEPT !.sock = x, !.connections = y]
  BY DEF Accepted
<1> HIDE DEF r
<1>4. /\ x \in [Conns -> SockRecord] /\ y \in SUBSET Conns
      /\ x[c] = r /\ \A d \in Conns \ {c} : x[d] = s.sock[d]
  BY <1>1, <1>2 DEF States
<1> HIDE DEF x
<1>5. /\ t \in States
      /\ t.abort = s.abort
      /\ t.connections = s.connections \cup {c}
      /\ t.conn = s.conn
      /\ t.chan = s.chan
      /\ t.loop = s.loop
      /\ t.sock = x
  <2> HIDE DEF y
  <2>1. /\ t \in States /\ t.abort = s.abort /\ t.connections = y /\ t.conn = s.conn
        /\ t.chan = s.chan /\ t.loop = s.loop /\ t.sock = x
    BY <1>3, <1>4 DEF States
  <2> QED
    BY <2>1 DEF y
<1> QED
  BY <1>2, <1>4, <1>5

LEMMA NewStep ==
    ASSUME NEW s, NEW sv, NEW en, NEW cl, Ready(s, sv, en, cl), NEW c \in Conns,
           s.sock[c].where = "backlog", s.loop[Base].phase = "handle",
           NEW l \in Loops, NEW reading \in BOOLEAN
    PROVE  Result(NewConnection(s, c, l, reading), sv, en, cl)
<1>1. /\ s \in States /\ Good(s, sv, en, cl) /\ s.abort = "none" /\ PollerOK(s)
      /\ s.conn[c] \in ConnRecord /\ s.chan[c].fail = "none" /\ ChanOK(s.chan[c])
  BY ReadyConn DEF Ready
<1>2. sv # "ending" /\ en = {}
  BY <1>1 DEF Good, ServerInv
<1>3. /\ s.conn[c].stat = "none" /\ c \notin s.connections
      /\ s.chan[c].idx = KNEW /\ s.chan[c].events = {} /\ s.conn[c].out = <<>>
      /\ \A m \in Loops, i \in Nat, op \in UserOps \cup LifeOps : ~At(s, m, i, op, c)
      /\ \A m \in Loops : \A p \in s.loop[m].active : p[1] # c
  BY UnknownConn
<1> DEFINE u == Accepted(s, c)
           q == [s.conn[c] EXCEPT !.stat = "KCONNECTING", !.loop = l, !.reading = reading]
           v == SetConn(u, c, q)
           f == [op |-> "established", conn |-> c]
<1>4. /\ u \in States
      /\ u.abort = s.abort
      /\ u.connections = s.connections \cup {c}
      /\ u.conn = s.conn
      /\ u.chan = s.chan
      /\ u.loop = s.loop
      /\ u.sock[c].where = "open"
      /\ \A d \in Conns \ {c} : u.sock[d] = s.sock[d]
  BY <1>1, AcceptedFields
<1>5. /\ q \in ConnRecord /\ q.stat = "KCONNECTING" /\ q.loop = l /\ q.out = s.conn[c].out
  BY <1>1 DEF ConnRecord, Stats
<1>6. NewConnection(s, c, l, reading) =
          IF l = Base THEN ConnectionEstablished(v, c) ELSE QueueInLoop(v, l, f)
  BY <1>4 DEF NewConnection, Accepted
<1>7. f \in Functors /\ f.op = "established" /\ f.conn = c
  BY DEF Functors
<1>8. v = SetConn(u, c, q)
  OBVIOUS
<1> HIDE DEF u, q, f, v
<1>9. /\ v \in States
      /\ v.abort = u.abort
      /\ v.connections = u.connections
      /\ v.conn[c] = q
      /\ \A d \in Conns \ {c} : v.conn[d] = u.conn[d]
      /\ v.chan = u.chan
      /\ v.loop = u.loop
      /\ v.sock = u.sock
  BY <1>4, <1>5, <1>8, ConnFields
<1>10. ~Met(s, c)
  BY <1>3 DEF Met
<1>11. CASE l = Base
  <2> DEFINE t == ConnectionEstablished(v, c)
  <2>1. NewConnection(s, c, l, reading) = t
    BY <1>6, <1>11
  <2>2. /\ t \in States
        /\ t.abort = "none"
        /\ t.connections = v.connections
        /\ t.conn[c].stat = "KCONNECT"
        /\ t.conn[c].loop = v.conn[c].loop
        /\ t.conn[c].revived = v.conn[c].revived
        /\ t.conn[c].reading = v.conn[c].reading
        /\ t.conn[c].out = v.conn[c].out
        /\ \A d \in Conns \ {c} : t.conn[d] = v.conn[d]
        /\ \A d \in (Conns \cup {Listen}) \ {c} : t.chan[d] = v.chan[d]
        /\ ChanOK(t.chan[c]) /\ t.chan[c].fail = "none"
        /\ t.chan[c].mapped /\ t.chan[c].idx = KADDED
        /\ "in" \in t.chan[c].events /\ v.chan[c].events \subseteq t.chan[c].events
        /\ t.loop = v.loop
        /\ t.sock = v.sock
    BY <1>1, <1>3, <1>4, <1>5, <1>9, EstablishedFields
  <2> HIDE DEF t
  <2>3. \A m \in Loops : Work(t, m) = Work(s, m)
    BY <1>4, <1>9, <2>2 DEF Work
  <2>4. \A d \in Conns \ {c} : Untouched(s, t, d)
    BY <1>4, <1>9, <2>2, <2>3, MovedSame DEF Untouched
  <2>5. Met(t, c) /\ ~Removed(t, c)
    BY <2>2 DEF Met, Removed
  <2>6. ActiveOf(t, c)
    BY <1>3, <1>4, <1>9, <2>2 DEF ActiveOf
  <2>7. ChanOf(t, sv, en, c)
    BY <1>3, <1>5, <1>9, <2>2, <2>5 DEF ChanOf, KADDED, KNEW
  <2>8. LifeOf(t, sv, en, c)
    <3>1. \A m \in Loops, i \in Nat : \A op : At(t, m, i, op, c) <=> At(s, m, i, op, c)
      BY <2>3 DEF At
    <3>2. FunctorsOf(t, sv, en, c)
      BY <1>3, <3>1 DEF FunctorsOf
    <3>3. ConnOf(t, c) /\ PendingOf(t, c) /\ RemovalOf(t, sv, en, c)
      BY <1>4, <1>9, <2>2 DEF ConnOf, PendingOf, RemovalOf
    <3> QED
      BY <3>2, <3>3 DEF LifeOf
  <2>9. /\ t.chan[Listen] = s.chan[Listen] /\ en \subseteq t.connections
        /\ \A m \in Loops : /\ t.loop[m].phase = s.loop[m].phase
                            /\ t.loop[m].active \subseteq s.loop[m].active
                            /\ s.loop[m].batch = <<>> => t.loop[m].batch = <<>>
        /\ s.sock[c].where = "none" => t.sock[c].where = "none"
    BY <1>2, <1>4, <1>9, <2>2, TcpServerAssumption
  <2>10. Result(t, sv, en, cl)
    BY <2>2, <2>4, <2>5, <2>6, <2>7, <2>8, <2>9, ConnStep
  <2> QED
    BY <2>1, <2>10
<1>12. CASE l # Base
  <2> DEFINE t == QueueInLoop(v, l, f)
  <2>1. NewConnection(s, c, l, reading) = t
    BY <1>6, <1>12
  <2>2. /\ t \in States
        /\ t.abort = v.abort
        /\ t.connections = v.connections
        /\ t.conn = v.conn
        /\ t.chan = v.chan
        /\ t.loop = Queued(v.loop, l, f)
        /\ t.sock = v.sock
    BY <1>7, <1>9, QueueFields
  <2> HIDE DEF t
  <2>3. t.loop = Queued(s.loop, l, f) /\ t.chan = s.chan /\ t.conn[c] = q
    BY <1>4, <1>9, <2>2
  <2>4. /\ \A d \in Conns \ {c} : Untouched(s, t, d)
        /\ \A m \in Loops : /\ t.loop[m].phase = s.loop[m].phase
                            /\ t.loop[m].active \subseteq s.loop[m].active
                            /\ s.loop[m].batch = <<>> => t.loop[m].batch = <<>>
    <3>1. \A d \in Conns \ {c} : /\ t.conn[d] = s.conn[d]
                                 /\ t.chan[d] = s.chan[d]
                                 /\ t.sock[d].where = s.sock[d].where
                                 /\ d \in t.connections <=> d \in s.connections
      BY <1>4, <1>9, <2>2
    <3> QED
      BY <1>1, <1>7, <2>2, <2>3, <3>1, QueuedUntouched
  <2>5. ~Met(t, c)
    BY <1>5, <2>3 DEF Met
  <2>6. ActiveOf(t, c)
    BY <1>3, <2>4 DEF ActiveOf
  <2>7. ChanOf(t, sv, en, c)
    BY <1>1, <1>3, <1>5, <2>3, <2>5 DEF ChanOf, Removed, KADDED, KNEW, KDEL
  <2>8. \A m \in Loops, i \in Nat, op \in UserOps \cup LifeOps :
            At(t, m, i, op, c) <=> m = l /\ i = Len(Work(s, l)) + 1 /\ op = "established"
    <3>1. \A m \in Loops, i \in Nat : \A op :
              At(t, m, i, op, c) <=>
                  \/ At(s, m, i, op, c)
                  \/ m = l /\ i = Len(Work(s, l)) + 1 /\ op = "established"
      BY <1>1, <1>7, <2>2, <2>3, AtQueued
    <3> QED
      BY <1>3, <3>1
  <2>9. LifeOf(t, sv, en, c)
    <3>1. ConnOf(t, c) /\ RemovalOf(t, sv, en, c)
      BY <1>4, <1>5, <1>9, <1>12, <2>2 DEF ConnOf, RemovalOf
    <3>2. PendingOf(t, c)
      <4>1. Len(Work(s, l)) + 1 \in Nat
        BY <1>1, WorkTyped
      <4>2. At(t, l, Len(Work(s, l)) + 1, "established", c)
        BY <2>8, <4>1 DEF LifeOps
      <4>3. \A i \in Nat : ~At(t, l, i, "destory", c)
        BY <2>8 DEF LifeOps
      <4> QED
        BY <1>5, <2>3, <4>1, <4>2, <4>3 DEF PendingOf
    <3>3. FunctorsOf(t, sv, en, c)
      <4>1. "established" \notin UserOps
        BY DEF UserOps, CallOps
      <4>2. LifeFunctor(t, sv, en, l, "established", c)
        BY <1>5, <2>3 DEF LifeFunctor
      <4> QED
        BY <2>8, <4>1, <4>2 DEF FunctorsOf
    <3> QED
      BY <3>1, <3>2, <3>3 DEF LifeOf
  <2>10. /\ t.chan[Listen] = s.chan[Listen] /\ en \subseteq t.connections
         /\ t.abort = "none" /\ ChanOK(t.chan[c]) /\ (Met(s, c) => Met(t, c))
         /\ s.sock[c].where = "none" => t.sock[c].where = "none"
    BY <1>1, <1>2, <1>4, <1>9, <1>10, <2>2, <2>3
  <2>11. Result(t, sv, en, cl)
    BY <2>2, <2>4, <2>6, <2>7, <2>9, <2>10, ConnStep
  <2> QED
    BY <2>1, <2>11
<1> QED
  BY <1>11, <1>12

-------------------------------------------------------------------------------
(* Sockets and loops.                                                      *)

SetSock(s, c, r) == [s EXCEPT !.sock[c] = r]

(* What the peers and the handlers do to a socket; a peer connects only to *)
(* a server that was started.                                              *)
LEMMA SockStep ==
    ASSUME NEW s, NEW sv, NEW en, NEW cl, Ready(s, sv, en, cl), NEW c \in Conns,
           NEW r \in SockRecord, s.sock[c].where = "open" => r.where = "open",
           s.sock[c].where = "none" /\ sv # "started" => r.where = "none",
           NEW t, t = SetSock(s, c, r)
    PROVE  Result(t, sv, en, cl)
<1>1. s \in States /\ Good(s, sv, en, cl) /\ s.abort = "none" /\ PollerOK(s)
  BY DEF Ready
<1>2. s.sock \in [Conns -> SockRecord]
  BY <1>1 DEF States
<1> DEFINE x == [s.sock EXCEPT ![c] = r]
<1>3. x \in [Conns -> SockRecord] /\ x[c] = r /\ \A d \in Conns \ {c} : x[d] = s.sock[d]
  BY <1>2
<1>4. t = [s EXCEPT !.sock = x]
  BY DEF SetSock
<1> HIDE DEF x
<1>5. /\ t \in States
      /\ t.abort = s.abort
      /\ t.connections = s.connections
      /\ t.conn = s.conn
      /\ t.chan = s.chan
      /\ t.loop = s.loop
      /\ t.sock = x
  BY <1>1, <1>3, <1>4 DEF States
<1>6. \A m \in Loops : Work(t, m) = Work(s, m)
  BY <1>5 DEF Work
<1>7. \A d \in Conns : HandedOver(s, sv, en, d) => HandedOver(t, sv, en, d)
  BY <1>5 DEF HandedOver
<1>8. \A d \in Conns : ConnInv(t, sv, en, d) /\ ChanOK(t.chan[d])
  <2> TAKE d \in Conns
  <2>0. ConnInv(s, sv, en, d)
    BY <1>1 DEF Good
  <2>1. CASE d # c
    <3>1. Untouched(s, t, d)
      BY <1>3, <1>5, <1>6, <2>1, MovedSame DEF Untouched
    <3>2. \A m \in Loops : t.loop[m].active \subseteq s.loop[m].active
      BY <1>5
    <3>3. ConnInv(t, sv, en, d)
      BY <1>1, <1>7, <2>0, <3>1, <3>2, UntouchedFrame
    <3> QED
      BY <1>1, <1>5, <3>3 DEF PollerOK
  <2>2. CASE d = c
    <3>1. ActiveOf(t, c) /\ ChanOf(t, sv, en, c)
      BY <1>5, <2>0, <2>2 DEF ConnInv, ActiveOf, ChanOf, Met, Removed, HandedOver
    <3>2. \A l \in Loops, i \in Nat : \A op : At(t, l, i, op, c) <=> At(s, l, i, op, c)
      BY <1>6 DEF At
    <3>3. ConnOf(t, c)
      BY <1>3, <1>5, <2>0, <2>2 DEF ConnInv, LifeOf, ConnOf
    <3>4. s.conn[c].loop \in Loops /\ Base \in Loops
      BY <1>1 DEF States, ConnRecord, Loops
    <3>5. PendingOf(t, c) /\ RemovalOf(t, sv, en, c)
      BY <1>5, <1>7, <2>0, <2>2, <3>2, <3>4 DEF ConnInv, LifeOf, PendingOf, RemovalOf
    <3>6. FunctorsOf(t, sv, en, c)
      <4>1. \A op : Single(t, op, c) <=> Single(s, op, c)
        BY <1>5 DEF Single
      <4>2. \A l, op : LifeFunctor(s, sv, en, l, op, c) => LifeFunctor(t, sv, en, l, op, c)
        BY <1>5 DEF LifeFunctor, HandedOver, Removed
      <4> QED
        BY <1>5, <2>0, <2>2, <3>2, <4>1, <4>2 DEF ConnInv, LifeOf, FunctorsOf, Met
    <3> QED
      BY <1>1, <1>5, <2>2, <3>1, <3>3, <3>5, <3>6 DEF ConnInv, LifeOf, PollerOK
  <2> QED
    BY <2>1, <2>2
<1>9. /\ \A d \in Conns : Met(s, d) => Met(t, d)
      /\ \A d \in Conns : s.sock[d].where = "none" /\ sv # "started" =>
                              t.sock[d].where = "none"
      /\ t.chan[Listen] = s.chan[Listen] /\ t.abort = "none"
      /\ en \subseteq en /\ en \subseteq t.connections
      /\ \A m \in Loops : /\ t.loop[m].phase = s.loop[m].phase
                          /\ t.loop[m].active \subseteq s.loop[m].active
                          /\ s.loop[m].batch = <<>> => t.loop[m].batch = <<>>
  BY <1>1, <1>3, <1>5 DEF Met, Good, ServerInv
<1> QED
  BY <1>5, <1>8, <1>9, Assemble

SetLoop(s, l, r) == [s EXCEPT !.loop[l] = r]

(* A loop goes on to its next phase.                                       *)
LEMMA PhaseStep ==
    ASSUME NEW s, NEW sv, NEW en, NEW cl, Ready(s, sv, en, cl), NEW l \in Loops,
           NEW r \in LoopRecord, r.batch \o r.queue = Work(s, l),
           r.phase # "handle" => r.active = {}, r.phase # "run" => r.batch = <<>>,
           l = Base /\ sv = "ending" => r.phase = "poll",
           \A p \in r.active :
               \/ p[1] = Listen /\ l = Base
               \/ /\ p[1] \in Conns /\ s.conn[p[1]].loop = l /\ Met(s, p[1])
                  /\ s.chan[p[1]].mapped,
           NEW t, t = SetLoop(s, l, r)
    PROVE  Result(t, sv, en, cl)
<1>1. s \in States /\ Good(s, sv, en, cl) /\ s.abort = "none" /\ PollerOK(s)
  BY DEF Ready
<1>2. s.loop \in [Loops -> LoopRecord]
  BY <1>1 DEF States
<1> DEFINE x == [s.loop EXCEPT ![l] = r]
<1>3. x \in [Loops -> LoopRecord] /\ x[l] = r /\ \A m \in Loops \ {l} : x[m] = s.loop[m]
  BY <1>2
<1>4. t = [s EXCEPT !.loop = x]
  BY DEF SetLoop
<1> HIDE DEF x
<1>5. /\ t \in States
      /\ t.abort = s.abort
      /\ t.connections = s.connections
      /\ t.conn = s.conn
      /\ t.chan = s.chan
      /\ t.loop = x
      /\ t.sock = s.sock
  BY <1>1, <1>3, <1>4 DEF States
<1>6. \A m \in Loops : Work(t, m) = Work(s, m)
  <2> TAKE m \in Loops
  <2>1. CASE m = l
    BY <1>3, <1>5, <2>1 DEF Work
  <2>2. CASE m # l
    BY <1>3, <1>5, <2>2 DEF Work
  <2> QED
    BY <2>1, <2>2
<1>7. \A d \in Conns : ConnInv(t, sv, en, d)
  <2> TAKE d \in Conns
  <2>0. ConnInv(s, sv, en, d)
    BY <1>1 DEF Good
  <2>1. HandedOver(s, sv, en, d) => HandedOver(t, sv, en, d)
    BY <1>5 DEF HandedOver
  <2>2. ActiveOf(t, d)
    <3> SUFFICES ASSUME NEW m \in Loops, NEW p \in t.loop[m].active, p[1] = d
                 PROVE  s.conn[d].loop = m /\ Met(s, d) /\ s.chan[d].mapped
      BY <1>5 DEF ActiveOf, Met
    <3>1. CASE m = l
      BY <1>3, <1>5, <3>1, TcpServerAssumption
    <3>2. CASE m # l
      BY <1>3, <1>5, <2>0, <3>2 DEF ConnInv, ActiveOf
    <3> QED
      BY <3>1, <3>2
  <2>3. ChanOf(t, sv, en, d)
    BY <1>5, <2>0, <2>1 DEF ConnInv, ChanOf, Met, Removed
  <2>4. LifeOf(t, sv, en, d)
    <3>1. SameLife(s, t, d) /\ Moved(s, t, d)
      BY <1>5, <1>6, MovedSame DEF SameLife, Removed
    <3> QED
      BY <1>1, <2>0, <2>1, <3>1, LifeFrame DEF ConnInv
  <2> QED
    BY <2>2, <2>3, <2>4 DEF ConnInv
<1>8. LoopInv(t)
  <2>1. ASSUME NEW m \in Loops
        PROVE  /\ t.loop[m].phase # "handle" => t.loop[m].active = {}
               /\ t.loop[m].phase # "run" => t.loop[m].batch = <<>>
               /\ m # Base => \A p \in t.loop[m].active : p[1] # Listen
    <3>1. CASE m = l
      BY <1>3, <1>5, <3>1, TcpServerAssumption
    <3>2. CASE m # l
      BY <1>1, <1>3, <1>5, <3>2 DEF Good, LoopInv
    <3> QED
      BY <3>1, <3>2
  <2> QED
    BY <1>1, <1>5, <2>1 DEF Good, LoopInv
<1>9. ServerInv(t, sv, en)
  <2>1. sv = "ending" => t.loop[Base].phase = "poll"
    <3>1. CASE l = Base
      BY <1>3, <1>5, <3>1
    <3>2. CASE l # Base
      BY <1>1, <1>3, <1>5, <3>2 DEF Good, ServerInv, Loops
    <3> QED
      BY <3>1, <3>2
  <2> QED
    BY <1>1, <1>5, <2>1 DEF Good, ServerInv
<1>10. ClientInv(t, cl) /\ PollerOK(t) /\ t.abort = "none" /\ Explained(t, sv, en)
  BY <1>1, <1>5, ExplainedAlive DEF Good, ClientInv, Met, PollerOK
<1> QED
  BY <1>5, <1>7, <1>8, <1>9, <1>10 DEF Result, Good

(* The clients go on in their calls.                                       *)
LEMMA ClientsStep ==
    ASSUME NEW t, NEW sv, NEW en, NEW cl, NEW cm, Result(t, sv, en, cl),
           t.abort = "none" => ClientInv(t, cm)
    PROVE  Result(t, sv, en, cm)
  BY DEF Result, Good

(* handleRead() of a reported connection.                                  *)
LEMMA ReadStep ==
    ASSUME NEW s, NEW sv, NEW en, NEW cl, Ready(s, sv, en, cl), NEW c \in Conns, Met(s, c),
           NEW l \in Loops, s.conn[c].loop = l, s.loop[l].phase # "poll", s.chan[c].mapped
    PROVE  Result(HandleRead(s, l, c), sv, en, cl)
<1>1. s.sock[c] \in SockRecord
  BY DEF Ready, States
<1>2. CASE s.sock[c].err
  <2> DEFINE r == [s.sock[c] EXCEPT !.err = FALSE]
  <2>1. r \in SockRecord /\ r.where = s.sock[c].where
    BY <1>1 DEF SockRecord
  <2>2. HandleRead(s, l, c) = SetSock(s, c, r)
    BY <1>2 DEF HandleRead, SetSock
  <2> HIDE DEF r
  <2> QED
    BY <2>1, <2>2, SockStep
<1>3. CASE ~s.sock[c].err /\ s.sock[c].data
  <2> DEFINE r == [s.sock[c] EXCEPT !.data = FALSE]
  <2>1. r \in SockRecord /\ r.where = s.sock[c].where
    BY <1>1 DEF SockRecord
  <2>2. HandleRead(s, l, c) = SetSock(s, c, r)
    BY <1>3 DEF HandleRead, SetSock
  <2> HIDE DEF r
  <2> QED
    BY <2>1, <2>2, SockStep
<1>4. CASE ~s.sock[c].err /\ ~s.sock[c].data /\ s.sock[c].eof
  <2>1. HandleRead(s, l, c) = HandleClose(s, l, c)
    BY <1>4 DEF HandleRead
  <2> QED
    BY <2>1, CloseStep
<1>5. CASE ~s.sock[c].err /\ ~s.sock[c].data /\ ~s.sock[c].eof
  BY <1>5, Unchanged DEF HandleRead
<1> QED
  BY <1>2, <1>3, <1>4, <1>5

LEMMA ForceCloseStep ==
    ASSUME NEW s, NEW sv, NEW en, NEW cl, Ready(s, sv, en, cl), NEW c \in Conns
    PROVE  Result(ForceClose(s, c), sv, en, cl)
<1>1. CASE CanForceClose(s.conn[c].stat)
  <2> DEFINE u == SetStat(s, c, "KDISCONNECTING")
             f == [op |-> "forceClose", conn |-> c]
  <2>1. f \in Functors /\ f.op \in UserOps /\ f.conn = c
    BY DEF Functors, UserOps, CallOps
  <2>2. ForceClose(s, c) = QueueInLoop(u, s.conn[c].loop, f)
    BY <1>1 DEF ForceClose
  <2>3. Ready(u, sv, en, cl) /\ Met(u, c) /\ u.conn[c].loop = s.conn[c].loop
    BY <1>1, SetStatStep DEF CanForceClose
  <2> HIDE DEF u, f
  <2> QED
    BY <2>1, <2>2, <2>3, QueueStep
<1>2. CASE ~CanForceClose(s.conn[c].stat)
  BY <1>2, Unchanged DEF ForceClose
<1> QED
  BY <1>1, <1>2

LEMMA ShutDownCallStep ==
    ASSUME NEW s, NEW sv, NEW en, NEW cl, Ready(s, sv, en, cl), NEW c \in Conns
    PROVE  Result(ShutDown(s, c), sv, en, cl)
<1>1. CASE s.conn[c].stat = "KCONNECT"
  <2> DEFINE u == SetStat(s, c, "KDISCONNECTING")
  <2>1. Ready(u, sv, en, cl)
    BY <1>1, SetStatStep
  <2> QED
    BY <1>1, <2>1, ShutdownStep DEF ShutDown
<1>2. CASE s.conn[c].stat # "KCONNECT"
  BY <1>2, Unchanged DEF ShutDown
<1> QED
  BY <1>1, <1>2

-------------------------------------------------------------------------------
(* The life of the server.                                                 *)

(* A step that changes no connection, no loop and no socket, only the      *)
(* acceptor's channel and where the server is.                             *)
LEMMA ServerStep ==
    ASSUME NEW s, NEW sv, NEW en, NEW cl, Ready(s, sv, en, cl), NEW t \in States,
           NEW sw, NEW eo, t.abort = "none", t.connections = s.connections,
           t.conn = s.conn, t.loop = s.loop, t.sock = s.sock,
           \A d \in Conns : t.chan[d] = s.chan[d],
           ChanOK(t.chan[Listen]), t.chan[Listen].fail = "none",
           \A d \in Conns : ~HandedOver(s, sv, en, d),
           ServerInv(t, sw, eo)
    PROVE  Result(t, sw, eo, cl)
<1>1. s \in States /\ Good(s, sv, en, cl) /\ PollerOK(s)
  BY DEF Ready
<1>2. \A m \in Loops : Work(t, m) = Work(s, m)
  BY DEF Work
<1>3. \A d \in Conns : ConnInv(t, sw, eo, d)
  <2> TAKE d \in Conns
  <2>1. Untouched(s, t, d)
    BY <1>2, MovedSame DEF Untouched
  <2>2. ConnInv(s, sv, en, d)
    BY <1>1 DEF Good
  <2>3. \A m \in Loops : t.loop[m].active \subseteq s.loop[m].active
    OBVIOUS
  <2>4. HandedOver(s, sv, en, d) => HandedOver(t, sw, eo, d)
    OBVIOUS
  <2> QED
    BY <1>1, <2>1, <2>2, <2>3, <2>4, UntouchedFrame
<1>4. LoopInv(t) /\ ClientInv(t, cl)
  BY <1>1 DEF Good, LoopInv, ClientInv, Met
<1>5. PollerOK(t)
  BY <1>1 DEF PollerOK
<1> QED
  BY <1>3, <1>4, <1>5, ExplainedAlive DEF Result, Good

(* listen() enables the acceptor's channel.                                *)
LEMMA ListenStep ==
    ASSUME NEW s, NEW en, NEW cl, Ready(s, "new", en, cl),
           NEW t, t = [s EXCEPT !.chan[Listen] = EnableRead(s.chan[Listen])]
    PROVE  Result(t, "started", en, cl)
<1>1. s \in States /\ Good(s, "new", en, cl) /\ PollerOK(s) /\ s.abort = "none"
  BY DEF Ready
<1>2. s.chan \in [Conns \cup {Listen} -> ChannelRecord]
  BY <1>1 DEF States
<1>3. PICK ch \in ChannelRecord : ch = s.chan[Listen]
  BY <1>2
<1>4. ChanOK(ch) /\ ch.fail = "none" /\ ch.idx # KDEL
  BY <1>1, <1>3 DEF PollerOK, Good, LoopInv, ServerInv
<1> DEFINE E == ch.events \cup {"in"}
           r == EnableRead(ch)
           x == [s.chan EXCEPT ![Listen] = r]
<1>5. E \in SUBSET Events /\ E # {}
  BY DEF ChannelRecord, Events
<1>6. r = UpdateChannel(WithEvents(ch, E))
  BY DEF EnableRead, WithEvents
<1>7. t = [s EXCEPT !.chan = x]
  BY <1>3
<1> HIDE DEF E, r
<1>8. r \in ChannelRecord /\ ChanOK(r) /\ r.fail = "none" /\ r.idx = KADDED
  BY <1>4, <1>5, <1>6, UpdateEffect
<1>9. /\ x \in [Conns \cup {Listen} -> ChannelRecord] /\ x[Listen] = r
      /\ \A d \in Conns : x[d] = s.chan[d]
  BY <1>2, <1>8, TcpServerAssumption
<1> HIDE DEF x
<1>10. /\ t \in States
       /\ t.abort = s.abort
       /\ t.connections = s.connections
       /\ t.conn = s.conn
       /\ t.chan = x
       /\ t.loop = s.loop
       /\ t.sock = s.sock
  BY <1>1, <1>7, <1>9 DEF States
<1>11. ServerInv(t, "started", en)
  BY <1>1, <1>8, <1>9, <1>10 DEF Good, ServerInv, KADDED, KDEL
<1>12. \A d \in Conns : ~HandedOver(s, "new", en, d)
  BY DEF HandedOver
<1> QED
  BY <1>1, <1>8, <1>9, <1>10, <1>11, <1>12, ServerStep

(* The destructor begins.                                                  *)
LEMMA DestroyStep ==
    ASSUME NEW s, NEW sv \in {"new", "started"}, NEW en, NEW cl, Ready(s, sv, en, cl),
           s.loop[Base].phase = "poll"
    PROVE  Result(s, "ending", s.connections, cl)
<1>1. s \in States /\ Good(s, sv, en, cl) /\ PollerOK(s) /\ s.abort = "none"
  BY DEF Ready
<1>2. ServerInv(s, "ending", s.connections)
  BY <1>1 DEF Good, ServerInv
<1>3. \A d \in Conns : ~HandedOver(s, sv, en, d)
  BY DEF HandedOver
<1>4. ChanOK(s.chan[Listen]) /\ s.chan[Listen].fail = "none"
  BY <1>1 DEF PollerOK, Good, LoopInv
<1> QED
  BY <1>1, <1>2, <1>3, <1>4, ServerStep

(* The acceptor's destructor removes a channel that was just disabled, so  *)
(* only the one of a server that was never started is removed in order.    *)
LEMMA EndAcceptorStep ==
    ASSUME NEW s, NEW cl, Ready(s, "ending", {}, cl),
           NEW t, t = SetChan(s, Listen, Remove(DisableAll(s.chan[Listen])))
    PROVE  Result(t, "gone", {}, cl)
<1>1. s \in States /\ Good(s, "ending", {}, cl) /\ PollerOK(s) /\ s.abort = "none"
  BY DEF Ready
<1>2. PICK ch \in ChannelRecord : ch = s.chan[Listen]
  BY <1>1 DEF States
<1>3. ChanOK(ch) /\ ch.fail = "none" /\ ch.idx # KDEL
  BY <1>1, <1>2 DEF PollerOK, Good, LoopInv, ServerInv
<1> DEFINE q == DisableAll(ch)
           r == Remove(q)
<1>4. q = UpdateChannel(WithEvents(ch, {})) /\ {} \in SUBSET Events
  BY DEF DisableAll, WithEvents
<1>5. t = SetChan(s, Listen, r) /\ r = Remove(q)
  BY <1>2
<1> HIDE DEF q, r
<1>6. /\ q \in ChannelRecord /\ ChanOK(q) /\ q.events = {} /\ q.fail = "none" /\ q.mapped
      /\ q.idx = IF ch.idx = KADDED THEN KDEL ELSE KADDED
  BY <1>3, <1>4, UpdateEffect
<1>7. /\ r \in ChannelRecord /\ ChanOK(r)
      /\ q.idx = KDEL => r.fail = "EpollPoller.cc:67"
      /\ q.idx # KDEL => r.fail = "none"
  BY <1>5, <1>6, RemoveEffect
<1>8. /\ t \in States
      /\ t.abort = IF s.abort = "none" THEN r.fail ELSE s.abort
      /\ t.connections = s.connections
      /\ t.conn = s.conn
      /\ t.chan = [s.chan EXCEPT ![Listen] = r]
      /\ t.loop = s.loop
      /\ t.sock = s.sock
  BY <1>1, <1>5, <1>7, SetChanFields
<1>9. t.chan[Listen] = r /\ \A d \in Conns : t.chan[d] = s.chan[d]
  BY <1>1, <1>8, TcpServerAssumption DEF States
<1>10. CASE ch.idx = KADDED
  <2>1. t.abort = "EpollPoller.cc:67"
    BY <1>1, <1>6, <1>7, <1>8, <1>10
  <2>2. PollerOK(t)
    BY <1>1, <1>7, <1>9 DEF PollerOK
  <2> QED
    BY <1>8, <2>1, <2>2 DEF Result, Explained
<1>11. CASE ch.idx # KADDED
  <2>1. r.fail = "none" /\ t.abort = "none"
    BY <1>1, <1>6, <1>7, <1>8, <1>11 DEF KADDED, KDEL
  <2>2. \A d \in Conns : s.sock[d].where = "none"
    BY <1>1, <1>2, <1>11 DEF Good, ServerInv
  <2>3. \A d \in Conns : d \notin s.connections
    BY <1>1, <2>2 DEF Good, ConnInv, LifeOf, ConnOf
  <2>4. \A d \in Conns : ~HandedOver(s, "ending", {}, d)
    BY <2>3 DEF HandedOver
  <2>5. ServerInv(t, "gone", {})
    BY <1>8, <2>2 DEF ServerInv
  <2> QED
    BY <1>7, <1>8, <1>9, <2>1, <2>4, <2>5, ServerStep
<1> QED
  BY <1>10, <1>11

-------------------------------------------------------------------------------
(* The inductive invariant.                                                *)

TypedRest ==
    /\ server \in {"new", "started", "ending", "gone"}
    /\ ending \subseteq Conns
    /\ isListen \in BOOLEAN
    /\ client \in ClientStates
    /\ delayed \subseteq Conns
    /\ sends \in 0 .. MaxSends
    /\ calls \in 0 .. MaxCalls

IInv == TypedRest /\ Result(State, server, ending, client)

LEMMA ReadyNow ==
    ASSUME IInv, Alive
    PROVE  /\ Ready(State, server, ending, client)
           /\ State \in States
           /\ State.abort = abort /\ State.connections = connections /\ State.conn = conn
           /\ State.chan = chan /\ State.loop = loop /\ State.sock = sock
<1>1. State.abort = abort /\ State.connections = connections /\ State.conn = conn
      /\ State.chan = chan /\ State.loop = loop /\ State.sock = sock
  BY DEF State
<1> QED
  BY <1>1 DEF IInv, TypedRest, Alive, Result, Ready

LEMMA Conclude ==
    ASSUME NEW t, Becomes(t), Result(t, server', ending', client'), TypedRest'
    PROVE  IInv'
<1>1. t \in States
  BY DEF Result
<1>2. t = [abort |-> t.abort, connections |-> t.connections, conn |-> t.conn,
           chan |-> t.chan, loop |-> t.loop, sock |-> t.sock]
  BY <1>1 DEF States
<1>3. State' = t
  BY <1>2 DEF Becomes, State
<1> QED
  BY <1>3 DEF IInv

LEMMA InitInv ==
    ASSUME Init PROVE IInv
<1>1. TypedRest
  BY TcpServerAssumption DEF Init, TypedRest, ClientStates
<1>2. NewChannel \in ChannelRecord /\ ChanOK(NewChannel)
  BY DEF NewChannel, ChannelRecord, ChanOK, ChannelAssertions, Events, KNEW, KADDED
<1>3. /\ conn \in [Conns -> ConnRecord]
      /\ \A c \in Conns : conn[c].stat = "none" /\ conn[c].out = <<>>
  <2>1. <<>> \in Seq(Messages) /\ Base \in Loops /\ "none" \in Stats
    BY DEF Loops, Stats
  <2> QED
    BY <2>1 DEF Init, ConnRecord
<1>4. /\ loop \in [Loops -> LoopRecord]
      /\ \A l \in Loops : /\ loop[l].phase = "poll" /\ loop[l].active = {}
                          /\ loop[l].queue = <<>> /\ loop[l].batch = <<>>
  <2>1. <<>> \in Seq(Functors)
    OBVIOUS
  <2> QED
    BY <2>1 DEF Init, LoopRecord
<1>5. sock \in [Conns -> SockRecord] /\ \A c \in Conns : sock[c].where = "none"
  BY DEF Init, SockRecord
<1>6. chan \in [Conns \cup {Listen} -> ChannelRecord]
      /\ \A c \in Conns \cup {Listen} : chan[c] = NewChannel
  BY <1>2 DEF Init
<1>7. /\ abort = "none" /\ server = "new" /\ ending = {} /\ connections = {}
      /\ \A k \in Clients : client[k] = Idle
  BY DEF Init
<1>8. PICK s : s = State
  OBVIOUS
<1>9. /\ s.abort = "none" /\ s.connections = {} /\ s.conn = conn
      /\ s.chan = chan /\ s.loop = loop /\ s.sock = sock
  BY <1>7, <1>8 DEF State
<1>10. s \in States
  BY <1>3, <1>4, <1>5, <1>6, <1>7, <1>8 DEF State, States, Aborts, ChannelAssertions
<1>11. \A l \in Loops, i \in Nat : \A op, c : ~At(s, l, i, op, c)
  <2>0. Len(<<>> \o <<>>) = 0
    OBVIOUS
  <2>1. \A l \in Loops : Len(Work(s, l)) = 0
    BY <1>4, <1>9, <2>0, Zenon DEF Work
  <2> QED
    BY <2>1 DEF At
<1>12. LoopInv(s) /\ ServerInv(s, "new", {}) /\ ClientInv(s, client)
  BY <1>4, <1>5, <1>6, <1>7, <1>9 DEF LoopInv, ServerInv, ClientInv, NewChannel,
     KNEW, KDEL, KADDED, Loops
<1>13. ASSUME NEW c \in Conns PROVE ConnInv(s, "new", {}, c)
  <2>1. ~Met(s, c) /\ s.chan[c] = NewChannel
    BY <1>3, <1>6, <1>9 DEF Met
  <2>2. ActiveOf(s, c) /\ ChanOf(s, "new", {}, c)
    BY <1>3, <1>4, <1>9, <2>1 DEF ActiveOf, ChanOf, Removed, NewChannel, KNEW, KDEL, KADDED
  <2>3. ConnOf(s, c) /\ PendingOf(s, c) /\ RemovalOf(s, "new", {}, c)
    BY <1>3, <1>9 DEF ConnOf, PendingOf, RemovalOf
  <2>4. FunctorsOf(s, "new", {}, c)
    BY <1>11 DEF FunctorsOf
  <2> QED
    BY <2>2, <2>3, <2>4 DEF ConnInv, LifeOf
<1>14. Result(s, "new", {}, client)
  BY <1>2, <1>6, <1>9, <1>10, <1>12, <1>13, ExplainedAlive DEF Result, Good, PollerOK
<1> QED
  BY <1>1, <1>7, <1>8, <1>14 DEF IInv

(* The events that poll() reports of a channel.                            *)
LEMMA ReventsOf ==
    ASSUME NEW c \in Conns \cup {Listen}, chan[c] \in ChannelRecord, NEW full
    PROVE  /\ Revents(c, full) \in SUBSET {"err", "in", "out"}
           /\ Revents(c, full) # {} => chan[c].interest # {}
<1>1. UNION chan[c].interest \subseteq Events
  BY DEF ChannelRecord
<1> DEFINE ready == IF c = Listen
                    THEN IF \E d \in Conns : sock[d].where = "backlog" THEN {"in"} ELSE {}
                    ELSE (IF sock[c].data \/ sock[c].eof THEN {"in"} ELSE {})
                         \cup (IF c \notin full THEN {"out"} ELSE {})
           x == (UNION chan[c].interest) \cap ready
           y == IF c # Listen /\ sock[c].err THEN {"err"} ELSE {}
<1>2. x \subseteq {"in", "out"} /\ y \subseteq {"err"}
  BY <1>1 DEF Events
<1>3. Revents(c, full) = IF chan[c].interest = {} THEN {} ELSE x \cup y
  BY DEF Revents
<1> HIDE DEF x, y
<1> QED
  BY <1>2, <1>3

LEMMA PollInv ==
    ASSUME IInv, NEW l \in Loops, Poll(l) PROVE IInv'
<1>0. Alive
  BY DEF Poll
<1>1. PICK s : s = State
  OBVIOUS
<1>2. /\ Ready(s, server, ending, client) /\ s \in States
      /\ s.abort = abort /\ s.connections = connections /\ s.conn = conn
      /\ s.chan = chan /\ s.loop = loop /\ s.sock = sock
  BY <1>0, <1>1, ReadyNow
<1>3. loop[l] \in LoopRecord /\ loop \in [Loops -> LoopRecord]
  BY <1>2 DEF States
<1>4. PICK full \in SUBSET Conns :
           loop' = [loop EXCEPT ![l].phase = "handle",
                                ![l].active = {<<c, Revents(c, full)>> : c \in
                                    {d \in ChannelsOf(l) : Revents(d, full) # {}}}]
  BY DEF Poll
<1> DEFINE A == {<<c, Revents(c, full)>> : c \in {d \in ChannelsOf(l) : Revents(d, full) # {}}}
           r == [loop[l] EXCEPT !.phase = "handle", !.active = A]
           t == SetLoop(s, l, r)
<1>5. loop' = [loop EXCEPT ![l] = r]
  BY <1>3, <1>4
<1>6. ASSUME NEW p \in A
      PROVE  /\ p \in (Conns \cup {Listen}) \X SUBSET {"err", "in", "out"}
             /\ \/ p[1] = Listen /\ l = Base
                \/ /\ p[1] \in Conns /\ s.conn[p[1]].loop = l /\ Met(s, p[1])
                   /\ s.chan[p[1]].mapped
  <2>1. PICK c \in ChannelsOf(l) : Revents(c, full) # {} /\ p = <<c, Revents(c, full)>>
    BY <1>6
  <2>2. /\ c \in Conns \cup {Listen}
        /\ c \in Conns => conn[c].loop = l /\ conn[c].stat # "none"
        /\ c = Listen => l = Base
    BY <2>1, TcpServerAssumption DEF ChannelsOf
  <2>3. chan[c] \in ChannelRecord /\ ChanOK(chan[c])
    BY <1>2, <2>2 DEF States, Ready, PollerOK
  <2>4. /\ Revents(c, full) \in SUBSET {"err", "in", "out"}
        /\ chan[c].interest # {}
    BY <2>1, <2>2, <2>3, ReventsOf
  <2>5. CASE c = Listen
    BY <2>1, <2>2, <2>4, <2>5
  <2>6. CASE c \in Conns
    <3>1. ChanOf(s, server, ending, c)
      BY <1>2, <2>6, ReadyConn DEF ConnInv
    <3>2. chan[c].idx = KADDED /\ chan[c].mapped
      BY <1>2, <2>3, <2>4, <3>1 DEF ChanOf, ChanOK
    <3>3. Met(s, c)
      BY <1>2, <3>1, <3>2 DEF ChanOf, KADDED, KNEW
    <3> QED
      BY <1>2, <2>1, <2>2, <2>4, <2>6, <3>2, <3>3
  <2> QED
    BY <2>2, <2>5, <2>6
<1> HIDE DEF A
<1>7. /\ r \in LoopRecord /\ r.phase = "handle" /\ r.active = A
      /\ r.queue = loop[l].queue /\ r.batch = loop[l].batch
  BY <1>3, <1>6 DEF LoopRecord
<1>8. t = SetLoop(s, l, r)
  OBVIOUS
<1> HIDE DEF r, t
<1>9. r.batch \o r.queue = Work(s, l)
  BY <1>2, <1>7 DEF Work
<1>10. r.batch = <<>> /\ (l = Base => server # "ending")
  BY <1>2, <1>7 DEF Poll, Ready, Good, LoopInv
<1>11. Result(t, server, ending, client)
  BY <1>2, <1>6, <1>7, <1>8, <1>9, <1>10, PhaseStep
<1>12. Becomes(t)
  BY <1>2, <1>5, <1>8 DEF Becomes, SetLoop, States, Poll
<1>13. TypedRest' /\ server' = server /\ ending' = ending /\ client' = client
  BY DEF IInv, TypedRest, Poll
<1> QED
  BY <1>11, <1>12, <1>13, Conclude

LEMMA SwapInv ==
    ASSUME IInv, NEW l \in Loops, SwapFunctors(l) PROVE IInv'
<1>0. Alive /\ loop[l].phase = "handle" /\ loop[l].active = {}
  BY DEF SwapFunctors
<1>1. PICK s : s = State
  OBVIOUS
<1>2. /\ Ready(s, server, ending, client) /\ s \in States
      /\ s.abort = abort /\ s.connections = connections /\ s.conn = conn
      /\ s.chan = chan /\ s.loop = loop /\ s.sock = sock
  BY <1>0, <1>1, ReadyNow
<1>3. loop[l] \in LoopRecord /\ loop \in [Loops -> LoopRecord]
  BY <1>2 DEF States
<1> DEFINE r == [loop[l] EXCEPT !.phase = "run", !.batch = loop[l].queue, !.queue = <<>>]
           t == SetLoop(s, l, r)
<1>4. loop' = [loop EXCEPT ![l] = r]
  BY <1>3 DEF SwapFunctors
<1>5. loop[l].queue \in Seq(Functors) /\ <<>> \in Seq(Functors)
  BY <1>3 DEF LoopRecord
<1>6. /\ r \in LoopRecord /\ r.phase = "run" /\ r.active = {}
      /\ r.queue = <<>> /\ r.batch = loop[l].queue
  BY <1>0, <1>3, <1>5 DEF LoopRecord
<1>7. t = SetLoop(s, l, r)
  OBVIOUS
<1> HIDE DEF r, t
<1>8. loop[l].batch = <<>> /\ (l = Base => server # "ending")
  BY <1>0, <1>2 DEF Ready, Good, LoopInv, ServerInv
<1>9. r.batch \o r.queue = Work(s, l)
  <2>1. \A q \in Seq(Functors) : q \o <<>> = <<>> \o q
    OBVIOUS
  <2> QED
    BY <1>2, <1>5, <1>6, <1>8, <2>1, Zenon DEF Work
<1>10. \A p \in r.active :
               \/ p[1] = Listen /\ l = Base
               \/ /\ p[1] \in Conns /\ s.conn[p[1]].loop = l /\ Met(s, p[1])
                  /\ s.chan[p[1]].mapped
  BY <1>6
<1>11. Result(t, server, ending, client)
  BY <1>2, <1>6, <1>7, <1>8, <1>9, <1>10, PhaseStep
<1>12. Becomes(t)
  BY <1>2, <1>4, <1>7 DEF Becomes, SetLoop, States, SwapFunctors
<1>13. TypedRest' /\ server' = server /\ ending' = ending /\ client' = client
  BY DEF IInv, TypedRest, SwapFunctors
<1> QED
  BY <1>11, <1>12, <1>13, Conclude

LEMMA EndIterationInv ==
    ASSUME IInv, NEW l \in Loops, EndIteration(l) PROVE IInv'
<1>0. Alive /\ loop[l].phase = "run" /\ loop[l].batch = <<>>
  BY DEF EndIteration
<1>1. PICK s : s = State
  OBVIOUS
<1>2. /\ Ready(s, server, ending, client) /\ s \in States
      /\ s.abort = abort /\ s.connections = connections /\ s.conn = conn
      /\ s.chan = chan /\ s.loop = loop /\ s.sock = sock
  BY <1>0, <1>1, ReadyNow
<1>3. loop[l] \in LoopRecord /\ loop \in [Loops -> LoopRecord]
  BY <1>2 DEF States
<1> DEFINE r == [loop[l] EXCEPT !.phase = "poll"]
           t == SetLoop(s, l, r)
<1>4. loop' = [loop EXCEPT ![l] = r]
  BY <1>3 DEF EndIteration
<1>6. /\ r \in LoopRecord /\ r.phase = "poll" /\ r.active = loop[l].active
      /\ r.queue = loop[l].queue /\ r.batch = loop[l].batch
  BY <1>0, <1>3 DEF LoopRecord
<1>7. t = SetLoop(s, l, r)
  OBVIOUS
<1> HIDE DEF r, t
<1>8. r.batch = <<>> /\ r.active = {} /\ r.batch \o r.queue = Work(s, l)
  BY <1>0, <1>2, <1>6 DEF Ready, Good, LoopInv, Work
<1>11. Result(t, server, ending, client)
  BY <1>2, <1>6, <1>7, <1>8, PhaseStep
<1>12. Becomes(t)
  BY <1>2, <1>4, <1>7 DEF Becomes, SetLoop, States, EndIteration
<1>13. TypedRest' /\ server' = server /\ ending' = ending /\ client' = client
  BY DEF IInv, TypedRest, EndIteration
<1> QED
  BY <1>11, <1>12, <1>13, Conclude

LEMMA HandleEventInv ==
    ASSUME IInv, NEW l \in Loops, NEW p \in loop[l].active, HandleEvent(l, p[1], p[2])
    PROVE  IInv'
<1>1. PICK s : s = State
  OBVIOUS
<1> DEFINE e == p[2]
           c == p[1]
           a == s.loop[l].active \ {<<c, e>>}
           u == SetActive(s, l, a)
<1>2. /\ Alive /\ c # Listen /\ <<c, e>> \in loop[l].active
      /\ \/ "err" \in e /\ Becomes([u EXCEPT !.sock[c].err = FALSE])
         \/ "err" \notin e /\ "in" \in e /\ Becomes(HandleRead(u, l, c))
         \/ e = {"out"} /\ \E n \in WriteResults(u, c, Len(u.conn[c].out)) \cup
                                    (IF IsWriting(u.chan[c]) THEN {} ELSE {0}) :
                               Becomes(HandleWrite(u, c, n))
      /\ UNCHANGED <<server, ending, isListen, client, delayed, sends, calls>>
  BY <1>1, Zenon DEF HandleEvent, SetActive
<1>3. /\ Ready(s, server, ending, client) /\ s \in States
      /\ s.abort = abort /\ s.connections = connections /\ s.conn = conn
      /\ s.chan = chan /\ s.loop = loop /\ s.sock = sock
  BY <1>1, <1>2, ReadyNow
<1>4. c \in Conns
  BY <1>2, <1>3 DEF States, LoopRecord
<1>5. s.conn[c].loop = l /\ Met(s, c) /\ s.chan[c].mapped
  BY <1>2, <1>3, <1>4, ReadyConn DEF ConnInv, ActiveOf
<1>6. s.loop[l].phase = "handle"
  BY <1>2, <1>3 DEF Ready, Good, LoopInv
<1>7. /\ Ready(u, server, ending, client)
      /\ u.conn = s.conn /\ u.chan = s.chan /\ u.sock = s.sock
      /\ u.loop[l].phase = s.loop[l].phase
  <2>1. a \subseteq s.loop[l].active
    OBVIOUS
  <2> HIDE DEF a
  <2> QED
    BY <1>3, <2>1, ActiveStep
<1>8. Met(u, c) /\ u.conn[c].loop = l /\ u.chan[c].mapped /\ u.loop[l].phase # "poll"
  BY <1>5, <1>6, <1>7 DEF Met
<1>9. TypedRest' /\ server' = server /\ ending' = ending /\ client' = client
  BY <1>2 DEF IInv, TypedRest
<1> HIDE DEF u, c, e
<1>10. CASE Becomes([u EXCEPT !.sock[c].err = FALSE])
  <2> DEFINE r == [u.sock[c] EXCEPT !.err = FALSE]
             t == SetSock(u, c, r)
  <2>1. u.sock[c] \in SockRecord
    BY <1>4, <1>7 DEF Ready, States
  <2>2. r \in SockRecord /\ r.where = u.sock[c].where
    BY <2>1 DEF SockRecord
  <2>3. Becomes(t)
    BY <1>10 DEF SetSock
  <2> HIDE DEF r
  <2>4. Result(t, server, ending, client)
    BY <1>4, <1>7, <2>2, SockStep
  <2> QED
    BY <1>9, <2>3, <2>4, Conclude
<1>11. CASE Becomes(HandleRead(u, l, c))
  <2>1. Result(HandleRead(u, l, c), server, ending, client)
    BY <1>4, <1>7, <1>8, ReadStep
  <2> QED
    BY <1>9, <1>11, <2>1, Conclude
<1>12. CASE \E n \in WriteResults(u, c, Len(u.conn[c].out)) \cup
                     (IF IsWriting(u.chan[c]) THEN {} ELSE {0}) :
                Becomes(HandleWrite(u, c, n))
  <2>1. PICK n \in WriteResults(u, c, Len(u.conn[c].out)) \cup
                     (IF IsWriting(u.chan[c]) THEN {} ELSE {0}) :
                Becomes(HandleWrite(u, c, n))
    BY <1>12
  <2>2. Result(HandleWrite(u, c, n), server, ending, client)
    BY <1>4, <1>7, <1>8, WriteStep
  <2> QED
    BY <1>9, <2>1, <2>2, Conclude
<1> QED
  BY <1>2, <1>10, <1>11, <1>12

LEMMA AcceptInv ==
    ASSUME IInv, NEW c \in Conns, AcceptorHandleRead(c) PROVE IInv'
<1>1. PICK s : s = State
  OBVIOUS
<1> DEFINE a == {p \in s.loop[Base].active : p[1] # Listen}
           u == SetActive(s, Base, a)
<1>2. /\ Alive
      /\ loop[Base].active # {}
      /\ sock[c].where = "backlog"
      /\ \/ \E l \in Loops, reading \in BOOLEAN : Becomes(NewConnection(u, c, l, reading))
         \/ Becomes([u EXCEPT !.sock[c].where = "closed"])
      /\ UNCHANGED <<server, ending, isListen, client, delayed, sends, calls>>
  <2>1. (IF IoLoops = {} THEN {Base} ELSE IoLoops) \subseteq Loops
    BY DEF Loops
  <2>2. /\ Alive
        /\ loop[Base].active # {}
        /\ sock[c].where = "backlog"
        /\ \/ \E l \in (IF IoLoops = {} THEN {Base} ELSE IoLoops), reading \in BOOLEAN :
                  Becomes(NewConnection(u, c, l, reading))
           \/ Becomes([u EXCEPT !.sock[c].where = "closed"])
        /\ UNCHANGED <<server, ending, isListen, client, delayed, sends, calls>>
    BY <1>1, Zenon DEF AcceptorHandleRead, SetActive
  <2> HIDE DEF u
  <2> QED
    BY <2>1, <2>2, Zenon
<1>3. /\ Ready(s, server, ending, client) /\ s \in States
      /\ s.abort = abort /\ s.connections = connections /\ s.conn = conn
      /\ s.chan = chan /\ s.loop = loop /\ s.sock = sock
  BY <1>1, <1>2, ReadyNow
<1>4. Base \in Loops
  BY DEF Loops
<1>5. s.loop[Base].phase = "handle"
  BY <1>2, <1>3, <1>4 DEF Ready, Good, LoopInv
<1>6. /\ Ready(u, server, ending, client) /\ u.sock = s.sock
      /\ u.loop[Base].phase = s.loop[Base].phase
  <2>1. a \subseteq s.loop[Base].active
    OBVIOUS
  <2> HIDE DEF a
  <2> QED
    BY <1>3, <1>4, <2>1, ActiveStep
<1>7. TypedRest' /\ server' = server /\ ending' = ending /\ client' = client
  BY <1>2 DEF IInv, TypedRest
<1> HIDE DEF u
<1>8. CASE \E l \in Loops, reading \in BOOLEAN : Becomes(NewConnection(u, c, l, reading))
  <2>1. PICK l \in Loops, reading \in BOOLEAN : Becomes(NewConnection(u, c, l, reading))
    BY <1>8
  <2>2. Result(NewConnection(u, c, l, reading), server, ending, client)
    BY <1>2, <1>3, <1>5, <1>6, NewStep
  <2> QED
    BY <1>7, <2>1, <2>2, Conclude
<1>9. CASE Becomes([u EXCEPT !.sock[c].where = "closed"])
  <2> DEFINE r == [u.sock[c] EXCEPT !.where = "closed"]
             t == SetSock(u, c, r)
  <2>1. u.sock[c] \in SockRecord
    BY <1>6 DEF Ready, States
  <2>2. r \in SockRecord /\ u.sock[c].where = "backlog"
    BY <1>2, <1>3, <1>6, <2>1 DEF SockRecord
  <2>3. Becomes(t)
    BY <1>9 DEF SetSock
  <2> HIDE DEF r
  <2>4. Result(t, server, ending, client)
    BY <1>6, <2>2, SockStep
  <2> QED
    BY <1>7, <2>3, <2>4, Conclude
<1> QED
  BY <1>2, <1>8, <1>9

LEMMA DelayedCloseInv ==
    ASSUME IInv, NEW c \in Conns, DelayedClose(c) PROVE IInv'
<1>1. Ready(State, server, ending, client)
  BY ReadyNow DEF DelayedClose
<1>2. Result(ForceClose(State, c), server, ending, client)
  BY <1>1, ForceCloseStep
<1>3. TypedRest' /\ server' = server /\ ending' = ending /\ client' = client
  BY DEF IInv, TypedRest, DelayedClose
<1>4. Becomes(ForceClose(State, c))
  BY DEF DelayedClose
<1> QED
  BY <1>2, <1>3, <1>4, Conclude

LEMMA RunFunctorInv ==
    ASSUME IInv, NEW l \in Loops, RunFunctor(l) PROVE IInv'
<1>1. PICK s : s = State
  OBVIOUS
<1> DEFINE f == Head(loop[l].batch)
           c == f.conn
           u == TakeHead(s, l)
<1>2. /\ Alive
      /\ loop[l].phase = "run"
      /\ loop[l].batch # <<>>
      /\ delayed' = IF f.op = "forceCloseWithDelay" THEN delayed \cup {c} ELSE delayed
      /\ \/ f.op = "established" /\ Becomes(ConnectionEstablished(u, c))
         \/ f.op = "destory" /\ Becomes(ConnectionDestory(u, c))
         \/ f.op = "remove" /\ Becomes(RemoveConnectionInLoop(u, c))
         \/ f.op = "forceClose" /\ Becomes(ForceCloseInLoop(u, l, c))
         \/ f.op = "shutDown" /\ Becomes(ShutdownInLoop(u, c))
         \/ f.op = "startRead" /\ Becomes(StartReadInLoop(u, c))
         \/ f.op = "stopRead" /\ Becomes(StopReadInLoop(u, c))
         \/ f.op = "forceCloseWithDelay" /\ Becomes(u)
         \/ f.op = "send" /\ \E n \in SendResults(u, c) : Becomes(SendInLoop(u, c, f.msg, n))
      /\ UNCHANGED <<server, ending, isListen, client, sends, calls>>
  BY <1>1, Zenon DEF RunFunctor, TakeHead
<1>3. /\ Ready(s, server, ending, client) /\ s \in States
      /\ s.abort = abort /\ s.connections = connections /\ s.conn = conn
      /\ s.chan = chan /\ s.loop = loop /\ s.sock = sock
  BY <1>1, <1>2, ReadyNow
<1>4. s.loop[l].phase = "run" /\ s.loop[l].batch # <<>> /\ f = Head(s.loop[l].batch)
  BY <1>2, <1>3
<1>5. f \in Functors /\ c \in Conns
  BY <1>3, <1>4, AtHead, FunctorFields
<1>6. TypedRest' /\ server' = server /\ ending' = ending /\ client' = client
  BY <1>2, <1>5 DEF IInv, TypedRest
<1>7. u = TakeHead(s, l)
  OBVIOUS
<1> HIDE DEF f, u
<1>8. CASE f.op = "established" /\ Becomes(ConnectionEstablished(u, c))
  BY <1>3, <1>4, <1>6, <1>7, <1>8, EstablishedStep, Conclude
<1>9. CASE f.op = "destory" /\ Becomes(ConnectionDestory(u, c))
  BY <1>3, <1>4, <1>6, <1>7, <1>9, DestoryStep, Conclude
<1>10. CASE f.op = "remove" /\ Becomes(RemoveConnectionInLoop(u, c))
  BY <1>3, <1>4, <1>6, <1>7, <1>10, RemoveStep, Conclude
<1>11. CASE f.op \in UserOps
  <2>1. /\ Ready(u, server, ending, client)
        /\ Met(u, c) /\ u.conn[c].loop = l /\ u.loop[l].phase = "run"
    BY <1>3, <1>4, <1>7, <1>11, TakeCall
  <2>2. CASE f.op = "forceClose" /\ Becomes(ForceCloseInLoop(u, l, c))
    <3>1. CASE CanForceClose(u.conn[c].stat)
      <4>1. ForceCloseInLoop(u, l, c) = HandleClose(u, l, c)
        BY <3>1 DEF ForceCloseInLoop
      <4>2. u.conn[c].stat # "KDISCONNECTED"
        BY <3>1 DEF CanForceClose
      <4>3. Result(HandleClose(u, l, c), server, ending, client)
        BY <1>5, <2>1, <4>2, CloseStep
      <4> QED
        BY <1>6, <2>2, <4>1, <4>3, Conclude
    <3>2. CASE ~CanForceClose(u.conn[c].stat)
      <4>1. ForceCloseInLoop(u, l, c) = u
        BY <3>2 DEF ForceCloseInLoop
      <4> QED
        BY <1>6, <2>1, <2>2, <4>1, Unchanged, Conclude
    <3> QED
      BY <3>1, <3>2
  <2>3. CASE f.op = "shutDown" /\ Becomes(ShutdownInLoop(u, c))
    BY <1>5, <1>6, <2>1, <2>3, ShutdownStep, Conclude
  <2>4. CASE f.op = "startRead" /\ Becomes(StartReadInLoop(u, c))
    BY <1>5, <1>6, <2>1, <2>4, StartReadStep, Conclude
  <2>5. CASE f.op = "stopRead" /\ Becomes(StopReadInLoop(u, c))
    BY <1>5, <1>6, <2>1, <2>5, StopReadStep, Conclude
  <2>6. CASE f.op = "forceCloseWithDelay" /\ Becomes(u)
    BY <1>6, <2>1, <2>6, Unchanged, Conclude
  <2>7. CASE f.op = "send" /\ \E n \in SendResults(u, c) : Becomes(SendInLoop(u, c, f.msg, n))
    <3>1. PICK n \in SendResults(u, c) : Becomes(SendInLoop(u, c, f.msg, n))
      BY <2>7
    <3>2. f.msg \in Messages
      BY <1>5, <2>7 DEF Functors, CallOps
    <3>3. Result(SendInLoop(u, c, f.msg, n), server, ending, client)
      BY <1>5, <2>1, <3>2, SendStep
    <3> QED
      BY <1>6, <3>1, <3>3, Conclude
  <2>8. f.op \notin LifeOps
    BY <1>11, OpsApart
  <2> QED
    BY <1>2, <2>2, <2>3, <2>4, <2>5, <2>6, <2>7, <2>8 DEF LifeOps
<1> QED
  BY <1>2, <1>5, <1>8, <1>9, <1>10, <1>11, FunctorFields DEF LifeOps

LEMMA LoopSendInv ==
    ASSUME IInv, NEW l \in Loops, NEW c \in Conns, LoopSend(l, c) PROVE IInv'
<1>1. /\ Ready(State, server, ending, client) /\ State.conn = conn
  BY ReadyNow DEF LoopSend
<1>2. Met(State, c)
  BY <1>1 DEF LoopSend, Met
<1> DEFINE msg == [by |-> l, n |-> sends + 1]
<1>3. sends \in 0 .. MaxSends /\ sends < MaxSends /\ MaxSends \in Nat
  BY TcpServerAssumption DEF IInv, TypedRest, LoopSend
<1>4. msg \in Messages
  BY <1>3 DEF Messages
<1>5. PICK n \in SendResults(State, c) : Becomes(SendInLoop(State, c, msg, n))
  BY DEF LoopSend
<1> HIDE DEF msg
<1>6. Result(SendInLoop(State, c, msg, n), server, ending, client)
  BY <1>1, <1>2, <1>4, SendStep
<1>7. sends' \in 0 .. MaxSends
  BY <1>3 DEF LoopSend
<1>8. TypedRest' /\ server' = server /\ ending' = ending /\ client' = client
  BY <1>7 DEF IInv, TypedRest, LoopSend
<1> QED
  BY <1>5, <1>6, <1>8, Conclude

LEMMA LoopCallInv ==
    ASSUME IInv, NEW l \in Loops, NEW c \in Conns, NEW op \in CallOps, LoopCall(l, c, op)
    PROVE  IInv'
<1>1. /\ Ready(State, server, ending, client) /\ State.conn = conn
  BY ReadyNow DEF LoopCall
<1>2. Met(State, c)
  BY <1>1 DEF LoopCall, Met, Known
<1>3. calls' \in 0 .. MaxCalls
  BY TcpServerAssumption DEF IInv, TypedRest, LoopCall
<1>4. delayed' \subseteq Conns
  BY DEF IInv, TypedRest, LoopCall
<1>5. TypedRest' /\ server' = server /\ ending' = ending /\ client' = client
  BY <1>3, <1>4 DEF IInv, TypedRest, LoopCall
<1>6. CASE Becomes(ShutDown(State, c))
  BY <1>1, <1>5, <1>6, ShutDownCallStep, Conclude
<1>7. CASE Becomes(ForceClose(State, c))
  BY <1>1, <1>5, <1>7, ForceCloseStep, Conclude
<1>8. CASE Becomes(StartReadInLoop(State, c))
  BY <1>1, <1>2, <1>5, <1>8, StartReadStep, Conclude
<1>9. CASE Becomes(StopReadInLoop(State, c))
  BY <1>1, <1>2, <1>5, <1>9, StopReadStep, Conclude
<1>10. CASE CanForceClose(conn[c].stat) /\ Becomes(SetStat(State, c, "KDISCONNECTING"))
  <2>1. State.conn[c].stat \in {"KCONNECT", "KDISCONNECTING"}
    BY <1>1, <1>10 DEF CanForceClose
  <2>2. Result(SetStat(State, c, "KDISCONNECTING"), server, ending, client)
    BY <1>1, <2>1, SetStatStep
  <2> QED
    BY <1>5, <1>10, <2>2, Conclude
<1> QED
  BY <1>6, <1>7, <1>8, <1>9, <1>10 DEF LoopCall

LEMMA PeerInv ==
    ASSUME IInv, NEW c \in Conns, PeerStep(c) PROVE IInv'
<1>1. PICK s : s = State
  OBVIOUS
<1>2. /\ Ready(s, server, ending, client) /\ s \in States
      /\ s.abort = abort /\ s.connections = connections /\ s.conn = conn
      /\ s.chan = chan /\ s.loop = loop /\ s.sock = sock
  BY <1>1, ReadyNow DEF PeerStep
<1>3. sock \in [Conns -> SockRecord] /\ sock[c] \in SockRecord
  BY <1>2 DEF States
<1>4. PICK r \in SockRecord : /\ sock' = [sock EXCEPT ![c] = r]
                              /\ sock[c].where = "open" => r.where = "open"
                              /\ sock[c].where = "none" /\ server # "started" => r.where = "none"
  <2>1. CASE sock[c].where = "none" /\ server = "started"
             /\ sock' = [sock EXCEPT ![c].where = "backlog"]
    <3> DEFINE r == [sock[c] EXCEPT !.where = "backlog"]
    <3>1. r \in SockRecord /\ sock' = [sock EXCEPT ![c] = r]
      BY <1>3, <2>1 DEF SockRecord
    <3>2. sock[c].where = "open" => r.where = "open"
      BY <1>3, <2>1 DEF SockRecord
    <3>3. sock[c].where = "none" /\ server # "started" => r.where = "none"
      BY <1>3, <2>1 DEF SockRecord
    <3> HIDE DEF r
    <3> QED
      BY <3>1, <3>2, <3>3
  <2>2. CASE sock[c].where = "open" /\ sock' = [sock EXCEPT ![c].data = TRUE]
    <3> DEFINE r == [sock[c] EXCEPT !.data = TRUE]
    <3>1. r \in SockRecord /\ sock' = [sock EXCEPT ![c] = r]
      BY <1>3, <2>2 DEF SockRecord
    <3>2. sock[c].where = "open" => r.where = "open"
      BY <1>3, <2>2 DEF SockRecord
    <3>3. sock[c].where = "none" /\ server # "started" => r.where = "none"
      BY <1>3, <2>2 DEF SockRecord
    <3> HIDE DEF r
    <3> QED
      BY <3>1, <3>2, <3>3
  <2>3. CASE sock[c].where = "open" /\ sock' = [sock EXCEPT ![c].eof = TRUE]
    <3> DEFINE r == [sock[c] EXCEPT !.eof = TRUE]
    <3>1. r \in SockRecord /\ sock' = [sock EXCEPT ![c] = r]
      BY <1>3, <2>3 DEF SockRecord
    <3>2. sock[c].where = "open" => r.where = "open"
      BY <1>3, <2>3 DEF SockRecord
    <3>3. sock[c].where = "none" /\ server # "started" => r.where = "none"
      BY <1>3, <2>3 DEF SockRecord
    <3> HIDE DEF r
    <3> QED
      BY <3>1, <3>2, <3>3
  <2>4. CASE sock[c].where = "open"
             /\ sock' = [sock EXCEPT ![c].data = FALSE, ![c].eof = TRUE,
                                     ![c].err = TRUE, ![c].rst = TRUE]
    <3> DEFINE r == [sock[c] EXCEPT !.data = FALSE, !.eof = TRUE, !.err = TRUE, !.rst = TRUE]
    <3>1. r \in SockRecord /\ sock' = [sock EXCEPT ![c] = r]
      BY <1>3, <2>4 DEF SockRecord
    <3>2. sock[c].where = "open" => r.where = "open"
      BY <1>3, <2>4 DEF SockRecord
    <3>3. sock[c].where = "none" /\ server # "started" => r.where = "none"
      BY <1>3, <2>4 DEF SockRecord
    <3> HIDE DEF r
    <3> QED
      BY <3>1, <3>2, <3>3
  <2> QED
    BY <2>1, <2>2, <2>3, <2>4 DEF PeerStep
<1> DEFINE t == SetSock(s, c, r)
<1>5. Result(t, server, ending, client)
  BY <1>2, <1>4, SockStep
<1>6. Becomes(t)
  BY <1>2, <1>4 DEF Becomes, SetSock, States, PeerStep
<1>7. TypedRest' /\ server' = server /\ ending' = ending /\ client' = client
  BY DEF IInv, TypedRest, PeerStep
<1> HIDE DEF t
<1> QED
  BY <1>5, <1>6, <1>7, Conclude

(* A client thread begins a call, when the connection is established.      *)
LEMMA ClientBegins ==
    ASSUME IInv, Alive, NEW k \in Clients, NEW f \in Functors, f.op \in UserOps,
           Met(State, f.conn), NEW o \in {"set", "queue"},
           client' = [client EXCEPT ![k] = [op |-> o, functor |-> f]]
    PROVE  client' \in ClientStates /\ Result(State, server, ending, client')
<1>1. Ready(State, server, ending, client)
  BY ReadyNow
<1>2. client \in ClientStates /\ ClientInv(State, client)
  BY <1>1 DEF Ready, Good
<1> DEFINE r == [op |-> o, functor |-> f]
<1>3. r \in [op : {"set", "queue"}, functor : Functors] /\ r.functor = f
  OBVIOUS
<1> HIDE DEF r
<1>4. client' = [client EXCEPT ![k] = r]
  BY DEF r
<1>5. client' \in ClientStates /\ client'[k] = r
      /\ \A j \in Clients \ {k} : client'[j] = client[j]
  BY <1>2, <1>3, <1>4 DEF ClientStates
<1>6. ClientInv(State, client')
  <2> SUFFICES ASSUME NEW j \in Clients, client'[j] # Idle
               PROVE  Met(State, client'[j].functor.conn) /\ client'[j].functor.op \in UserOps
    BY DEF ClientInv
  <2>1. CASE j = k
    BY <1>3, <1>5, <2>1
  <2>2. CASE j # k
    BY <1>2, <1>5, <2>2 DEF ClientInv
  <2> QED
    BY <2>1, <2>2
<1>7. Result(State, server, ending, client)
  BY DEF IInv
<1> QED
  BY <1>5, <1>6, <1>7, ClientsStep

LEMMA StateBecomes ==
    ASSUME UNCHANGED <<abort, connections, conn, chan, loop, sock>>
    PROVE  Becomes(State)
  BY DEF Becomes, State

LEMMA ClientSendInv ==
    ASSUME IInv, NEW k \in Clients, NEW c \in Conns, ClientSend(k, c) PROVE IInv'
<1>1. Ready(State, server, ending, client) /\ State.conn = conn
  BY ReadyNow DEF ClientSend
<1>2. Met(State, c)
  BY <1>1 DEF ClientSend, Met
<1> DEFINE msg == [by |-> k, n |-> sends + 1]
           f == [op |-> "send", conn |-> c, msg |-> msg]
<1>3. sends \in 0 .. MaxSends /\ sends < MaxSends /\ MaxSends \in Nat
  BY TcpServerAssumption DEF IInv, TypedRest, ClientSend
<1>4. msg \in Messages
  BY <1>3 DEF Messages
<1> HIDE DEF msg
<1>5. f \in Functors /\ f.op \in UserOps /\ f.conn = c
  BY <1>4 DEF Functors, UserOps
<1>6. Alive /\ client' = [client EXCEPT ![k] = [op |-> "queue", functor |-> f]]
  BY DEF ClientSend, msg
<1> HIDE DEF f
<1>7. client' \in ClientStates /\ Result(State, server, ending, client')
  BY <1>2, <1>5, <1>6, ClientBegins
<1>8. sends' \in 0 .. MaxSends
  BY <1>3 DEF ClientSend
<1>9. TypedRest' /\ server' = server /\ ending' = ending
  BY <1>7, <1>8 DEF IInv, TypedRest, ClientSend
<1>10. Becomes(State)
  BY StateBecomes DEF ClientSend
<1> QED
  BY <1>7, <1>9, <1>10, Conclude

LEMMA ClientCallInv ==
    ASSUME IInv, NEW k \in Clients, NEW c \in Conns, NEW op \in CallOps, ClientCall(k, c, op)
    PROVE  IInv'
<1>1. Ready(State, server, ending, client) /\ State.conn = conn
  BY ReadyNow DEF ClientCall
<1>2. Met(State, c)
  BY <1>1 DEF ClientCall, Met, Known
<1> DEFINE f == [op |-> op, conn |-> c]
           o == IF op \in {"startRead", "stopRead"} THEN "queue" ELSE "set"
<1>3. f \in Functors /\ f.op \in UserOps /\ f.conn = c /\ o \in {"set", "queue"}
  BY DEF Functors, UserOps
<1>4. Alive /\ client' = [client EXCEPT ![k] = [op |-> o, functor |-> f]]
  BY DEF ClientCall
<1> HIDE DEF f, o
<1>5. client' \in ClientStates /\ Result(State, server, ending, client')
  BY <1>2, <1>3, <1>4, ClientBegins
<1>6. calls' \in 0 .. MaxCalls
  BY TcpServerAssumption DEF IInv, TypedRest, ClientCall
<1>7. TypedRest' /\ server' = server /\ ending' = ending
  BY <1>5, <1>6 DEF IInv, TypedRest, ClientCall
<1>8. Becomes(State)
  BY StateBecomes DEF ClientCall
<1> QED
  BY <1>5, <1>7, <1>8, Conclude

LEMMA ClientSetInv ==
    ASSUME IInv, NEW k \in Clients, ClientSet(k) PROVE IInv'
<1>1. Ready(State, server, ending, client) /\ State.conn = conn /\ State \in States
  BY ReadyNow DEF ClientSet
<1>2. client \in ClientStates /\ ClientInv(State, client)
  BY <1>1 DEF Ready, Good
<1>3. PICK r \in [op : {"set", "queue"}, functor : Functors] : r = client[k]
  <2>1. client[k] # Idle
    BY DEF ClientSet, Idle
  <2> QED
    BY <1>2, <2>1 DEF ClientStates
<1>4. client[k] # Idle
  BY DEF ClientSet, Idle
<1>5. PICK c \in Conns : c = r.functor.conn
  BY <1>3, FunctorFields
<1>6. Met(State, c) /\ r.functor.op \in UserOps
  BY <1>2, <1>3, <1>4, <1>5 DEF ClientInv
<1> DEFINE q == [conn[c] EXCEPT !.stat = "KDISCONNECTING",
                                !.revived = @ \/ conn[c].stat = "KDISCONNECTED"]
           t == SetConn(State, c, q)
<1>7. conn[c] \in ConnRecord
  BY <1>1 DEF States
<1>8. /\ q \in ConnRecord /\ q.stat = "KDISCONNECTING" /\ q.loop = conn[c].loop
      /\ q.reading = conn[c].reading /\ q.out = conn[c].out
      /\ q.revived <=> conn[c].revived \/ conn[c].stat = "KDISCONNECTED"
  BY <1>7 DEF ConnRecord, Stats
<1>9. Becomes(t)
  BY <1>3, <1>5 DEF ClientSet
<1> HIDE DEF q
<1>10. Result(t, server, ending, client) /\ Met(t, c)
  BY <1>1, <1>6, <1>8, StatStep
<1>11. t.conn[c] = q /\ \A d \in Conns \ {c} : t.conn[d] = conn[d]
  BY <1>1, <1>8, ConnFields
<1> HIDE DEF t
<1> DEFINE z == [r EXCEPT !.op = "queue"]
<1>12. z \in [op : {"set", "queue"}, functor : Functors] /\ z.functor = r.functor
  OBVIOUS
<1>13. client' = [client EXCEPT ![k] = z]
  BY <1>2, <1>3 DEF ClientSet, ClientStates
<1> HIDE DEF z
<1>14. client' \in ClientStates /\ client'[k] = z
       /\ \A j \in Clients \ {k} : client'[j] = client[j]
  BY <1>2, <1>12, <1>13 DEF ClientStates
<1>15. t.abort = "none" => ClientInv(t, client')
  <2> SUFFICES ASSUME t.abort = "none", NEW j \in Clients, client'[j] # Idle
               PROVE  Met(t, client'[j].functor.conn) /\ client'[j].functor.op \in UserOps
    BY DEF ClientInv
  <2>1. CASE j = k
    BY <1>5, <1>6, <1>10, <1>12, <1>14, <2>1
  <2>2. CASE j # k
    BY <1>10, <1>14, <2>2 DEF Result, Good, ClientInv
  <2> QED
    BY <2>1, <2>2
<1>16. Result(t, server, ending, client')
  BY <1>10, <1>15, ClientsStep
<1>17. TypedRest' /\ server' = server /\ ending' = ending
  BY <1>14 DEF IInv, TypedRest, ClientSet
<1> QED
  BY <1>9, <1>16, <1>17, Conclude

LEMMA ClientQueueInv ==
    ASSUME IInv, NEW k \in Clients, ClientQueue(k) PROVE IInv'
<1>1. /\ Ready(State, server, ending, client) /\ State \in States
      /\ State.abort = abort /\ State.connections = connections /\ State.conn = conn
      /\ State.chan = chan /\ State.loop = loop /\ State.sock = sock
  BY ReadyNow DEF ClientQueue
<1>2. client \in ClientStates /\ ClientInv(State, client)
  BY <1>1 DEF Ready, Good
<1>3. client[k] # Idle
  BY DEF ClientQueue, Idle
<1>4. PICK f \in Functors : f = client[k].functor
  BY <1>2, <1>3 DEF ClientStates
<1>5. f.op \in UserOps /\ Met(State, f.conn) /\ f.conn \in Conns
  BY <1>2, <1>3, <1>4, FunctorFields DEF ClientInv
<1> DEFINE t == QueueInLoop(State, State.conn[f.conn].loop, f)
<1>6. Result(t, server, ending, client)
  BY <1>1, <1>5, QueueStep
<1>7. loop' = t.loop
  BY <1>1, <1>4 DEF ClientQueue
<1>8. State.conn[f.conn].loop \in Loops
  BY <1>1, <1>5 DEF States, ConnRecord
<1>9. /\ t.abort = abort /\ t.connections = connections /\ t.conn = conn
      /\ t.chan = chan /\ t.sock = sock
  BY <1>1, <1>8, QueueFields
<1> HIDE DEF t
<1>10. Becomes(t)
  BY <1>7, <1>9 DEF Becomes, ClientQueue
<1>11. client' \in ClientStates /\ client'[k] = Idle
       /\ \A j \in Clients \ {k} : client'[j] = client[j]
  BY <1>2 DEF ClientStates, ClientQueue
<1>12. t.abort = "none" => ClientInv(t, client')
  BY <1>6, <1>11 DEF Result, Good, ClientInv
<1>13. Result(t, server, ending, client')
  BY <1>6, <1>12, ClientsStep
<1>14. TypedRest' /\ server' = server /\ ending' = ending
  BY <1>11 DEF IInv, TypedRest, ClientQueue
<1> QED
  BY <1>10, <1>13, <1>14, Conclude

LEMMA StartInv ==
    ASSUME IInv, Start PROVE IInv'
<1>1. PICK s : s = State
  OBVIOUS
<1>2. /\ Ready(s, server, ending, client) /\ s \in States
      /\ s.abort = abort /\ s.connections = connections /\ s.conn = conn
      /\ s.chan = chan /\ s.loop = loop /\ s.sock = sock
  BY <1>1, ReadyNow DEF Start
<1>3. /\ TypedRest' /\ server = "new" /\ server' = "started" /\ ending' = ending
      /\ client' = client
  BY DEF IInv, TypedRest, Start
<1>4. CASE isListen
  <2> DEFINE t == Fail(s, "TcpServer.cc:88")
  <2>1. /\ t \in States /\ t.abort = "TcpServer.cc:88"
        /\ t.connections = s.connections /\ t.conn = s.conn /\ t.chan = s.chan
        /\ t.loop = s.loop /\ t.sock = s.sock
    BY <1>2, FailFields DEF Aborts
  <2> HIDE DEF t
  <2>2. Result(t, "started", ending, client)
    BY <1>2, <2>1 DEF Result, Explained, Ready, PollerOK
  <2>3. Becomes(t)
    BY <1>2, <1>4, <2>1 DEF Becomes, Start
  <2> QED
    BY <1>3, <2>2, <2>3, Conclude
<1>5. CASE ~isListen
  <2> DEFINE t == [s EXCEPT !.chan[Listen] = EnableRead(s.chan[Listen])]
  <2>1. Result(t, "started", ending, client)
    BY <1>2, <1>3, ListenStep
  <2>2. Becomes(t)
    BY <1>2, <1>5 DEF Becomes, Start, States
  <2> HIDE DEF t
  <2> QED
    BY <1>3, <2>1, <2>2, Conclude
<1> QED
  BY <1>4, <1>5

LEMMA DestroyInv ==
    ASSUME IInv, Destroy PROVE IInv'
<1>1. Ready(State, server, ending, client) /\ State.loop = loop /\ State.connections = connections
      /\ State \in States
  BY ReadyNow DEF Destroy
<1>2. Result(State, "ending", State.connections, client)
  BY <1>1, DestroyStep DEF Destroy
<1>3. Becomes(State)
  BY StateBecomes DEF Destroy
<1>4. connections \subseteq Conns
  BY <1>1 DEF States
<1>5. /\ TypedRest' /\ server' = "ending" /\ ending' = State.connections
      /\ client' = client
  BY <1>1, <1>4 DEF IInv, TypedRest, Destroy
<1> QED
  BY <1>2, <1>3, <1>5, Conclude

LEMMA EndConnectionInv ==
    ASSUME IInv, NEW c \in Conns, EndConnection(c) PROVE IInv'
<1>1. Ready(State, server, ending, client) /\ State.conn = conn /\ State \in States
  BY ReadyNow DEF EndConnection
<1>2. /\ TypedRest' /\ server' = server /\ ending' = ending \ {c} /\ client' = client
      /\ c \in ending
  BY DEF IInv, TypedRest, EndConnection
<1>3. CASE conn[c].loop = Base
  <2>1. Result(ConnectionDestory(State, c), server, ending \ {c}, client)
    BY <1>1, <1>2, <1>3, EndOnBaseStep
  <2>2. Becomes(ConnectionDestory(State, c))
    BY <1>3 DEF EndConnection
  <2> QED
    BY <1>2, <2>1, <2>2, Conclude
<1>4. CASE conn[c].loop # Base
  <2> DEFINE f == [op |-> "destory", conn |-> c]
             t == QueueInLoop(State, conn[c].loop, f)
  <2>1. conn[c].loop \in Loops
    BY <1>1 DEF States, ConnRecord
  <2>2. Becomes(t)
    BY <1>4 DEF EndConnection
  <2>3. Result(t, server, ending \ {c}, client)
    BY <1>1, <1>2, <2>1, EndOnIoStep
  <2> HIDE DEF t
  <2> QED
    BY <1>2, <2>2, <2>3, Conclude
<1> QED
  BY <1>3, <1>4

LEMMA EndAcceptorInv ==
    ASSUME IInv, EndAcceptor PROVE IInv'
<1>1. Ready(State, server, ending, client) /\ State.chan = chan
  BY ReadyNow DEF EndAcceptor
<1>2. /\ TypedRest' /\ server' = "gone" /\ ending' = {} /\ client' = client
      /\ server = "ending" /\ ending = {}
  BY DEF IInv, TypedRest, EndAcceptor
<1> DEFINE t == SetChan(State, Listen, Remove(DisableAll(State.chan[Listen])))
<1>3. Becomes(t)
  BY <1>1 DEF EndAcceptor
<1>4. Result(t, "gone", {}, client)
  BY <1>1, <1>2, EndAcceptorStep
<1> HIDE DEF t
<1> QED
  BY <1>2, <1>3, <1>4, Conclude

LEMMA StutterInv ==
    ASSUME IInv, UNCHANGED vars PROVE IInv'
<1>1. State' = State /\ server' = server /\ ending' = ending /\ client' = client
  BY DEF vars, State
<1>2. TypedRest'
  BY DEF vars, IInv, TypedRest
<1> QED
  BY <1>1, <1>2 DEF IInv

LEMMA NextInv ==
    ASSUME IInv, [Next]_vars PROVE IInv'
<1>1. ASSUME NEW l \in Loops, Poll(l) \/ SwapFunctors(l) \/ RunFunctor(l) \/ EndIteration(l)
      PROVE  IInv'
  BY <1>1, PollInv, SwapInv, RunFunctorInv, EndIterationInv
<1>2. ASSUME NEW l \in Loops, NEW p \in loop[l].active, HandleEvent(l, p[1], p[2])
      PROVE  IInv'
  BY <1>2, HandleEventInv
<1>3. ASSUME NEW c \in Conns, AcceptorHandleRead(c) \/ DelayedClose(c) \/ PeerStep(c)
      PROVE  IInv'
  BY <1>3, AcceptInv, DelayedCloseInv, PeerInv
<1>4. ASSUME NEW l \in Loops, NEW c \in Conns,
             LoopSend(l, c) \/ \E op \in CallOps : LoopCall(l, c, op)
      PROVE  IInv'
  BY <1>4, LoopSendInv, LoopCallInv
<1>5. ASSUME NEW k \in Clients, NEW c \in Conns,
             ClientSend(k, c) \/ \E op \in CallOps : ClientCall(k, c, op)
      PROVE  IInv'
  BY <1>5, ClientSendInv, ClientCallInv
<1>6. ASSUME NEW k \in Clients, ClientSet(k) \/ ClientQueue(k) PROVE IInv'
  BY <1>6, ClientSetInv, ClientQueueInv
<1>7. ASSUME Start \/ Destroy \/ EndAcceptor PROVE IInv'
  BY <1>7, StartInv, DestroyInv, EndAcceptorInv
<1>8. ASSUME NEW c \in Conns, EndConnection(c) PROVE IInv'
  BY <1>8, EndConnectionInv
<1>9. ASSUME UNCHANGED vars PROVE IInv'
  BY <1>9, StutterInv
<1> QED
  BY <1>1, <1>2, <1>3, <1>4, <1>5, <1>6, <1>7, <1>8, <1>9 DEF Next

LEMMA AlwaysIInv == Spec => []IInv
<1>1. Init => IInv
  BY InitInv
<1>2. IInv /\ [Next]_vars => IInv'
  BY NextInv
<1> QED
  BY <1>1, <1>2, PTL DEF Spec

-------------------------------------------------------------------------------
(* The streams of the connections.                                         *)

(* What a connection was given to send: what is written, then what is      *)
(* buffered.                                                               *)
Stream(s, c) == s.conn[c].wire \o s.conn[c].out

(* StreamInOrder of one stream.                                            *)
StreamOK(q) ==
    /\ Len(q) % MsgLen = 0
    /\ \A i, j \in 1 .. Len(q) :
           (i - 1) \div MsgLen = (j - 1) \div MsgLen => q[i] = q[j]
    /\ \A i, j \in 1 .. Len(q) :
           ((i - 1) \div MsgLen < (j - 1) \div MsgLen /\ q[i].by = q[j].by) => q[i].n < q[j].n

SendOf(c, m) == [op |-> "send", conn |-> c, msg |-> m]

(* The i-th functor that loop l has still to run sends m on c.             *)
Waits(s, l, i, c, m) == i \in 1 .. Len(Work(s, l)) /\ Work(s, l)[i] = SendOf(c, m)

(* Every message of m's thread that c was given is an earlier one.         *)
After(s, c, m) ==
    \A i \in 1 .. Len(Stream(s, c)) :
        Stream(s, c)[i].by = m.by => Stream(s, c)[i].n < m.n

(* The streams are in order, and so is what will be appended to them: the  *)
(* sends that wait in the loops come after what their streams hold, each   *)
(* thread's in the order of its calls, and the call a thread is in comes   *)
(* last; n is the number of send() calls so far.                           *)
GivenInv(s, n) ==
    \A c \in Conns : /\ StreamOK(Stream(s, c))
                     /\ \A i \in 1 .. Len(Stream(s, c)) : Stream(s, c)[i].n <= n

WaitingInv(s, n) ==
    /\ \A l \in Loops, i \in Nat, c \in Conns, m \in Messages :
           Waits(s, l, i, c, m) => m.by \in Clients /\ m.n <= n /\ After(s, c, m)
    /\ \A l \in Loops, i \in Nat, j \in Nat, c \in Conns, d \in Conns,
          m \in Messages, p \in Messages :
           (i < j /\ Waits(s, l, i, c, m) /\ Waits(s, l, j, d, p) /\ m.by = p.by) => m.n < p.n

Calling(s, k, c, m, n) ==
    /\ m.by = k /\ m.n <= n /\ After(s, c, m)
    /\ \A l \in Loops, i \in Nat, d \in Conns, p \in Messages :
           (Waits(s, l, i, d, p) /\ p.by = k) => p.n < m.n

CallingInv(s, cl, n) ==
    \A k \in Clients, c \in Conns, m \in Messages :
        (cl[k] # Idle /\ cl[k].functor = SendOf(c, m)) => Calling(s, k, c, m, n)

Streams(s, cl, n) == GivenInv(s, n) /\ WaitingInv(s, n) /\ CallingInv(s, cl, n)

(* Whole messages take up whole blocks of MsgLen units.                    *)
LEMMA Blocks ==
    ASSUME NEW L \in Nat, L % MsgLen = 0
    PROVE  /\ (L + MsgLen) % MsgLen = 0
           /\ \A i \in 1 .. L + MsgLen : (i - 1) \div MsgLen \in Nat
           /\ \A i \in 1 .. L, j \in L + 1 .. L + MsgLen :
                  (i - 1) \div MsgLen < (j - 1) \div MsgLen
           /\ \A i, j \in L + 1 .. L + MsgLen : (i - 1) \div MsgLen = (j - 1) \div MsgLen
<1> DEFINE M == MsgLen
           k == L \div M
<1>0. M \in Nat \ {0}
  BY TcpServerAssumption
<1> HIDE DEF M
<1>1. k \in Nat /\ L = M * k
  BY <1>0 DEF M
<1> HIDE DEF k
<1>2. ASSUME NEW x \in Nat, NEW a \in Nat, M * a <= x, x < M * a + M PROVE x \div M = a
  <2> DEFINE q == x \div M
  <2>1. q \in Nat /\ M * q <= x /\ x < M * q + M
    BY <1>0
  <2> HIDE DEF q
  <2>2. CASE q < a
    <3>1. PICK d \in Nat : a = q + 1 + d
      <4>1. a - q - 1 \in Nat /\ a = q + 1 + (a - q - 1)
        BY <2>1, <2>2
      <4> QED
        BY <4>1
    <3>2. M * a = M * q + M + M * d /\ M * d \in Nat /\ M * q \in Nat
      BY <1>0, <2>1, <3>1
    <3> QED
      BY <1>0, <1>2, <2>1, <3>2
  <2>3. CASE a < q
    <3>1. PICK d \in Nat : q = a + 1 + d
      <4>1. q - a - 1 \in Nat /\ q = a + 1 + (q - a - 1)
        BY <2>1, <2>3
      <4> QED
        BY <4>1
    <3>2. M * q = M * a + M + M * d /\ M * d \in Nat /\ M * a \in Nat
      BY <1>0, <2>1, <3>1
    <3> QED
      BY <1>0, <1>2, <2>1, <3>2
  <2> QED
    BY <2>1, <2>2, <2>3 DEF q
<1>3. ASSUME NEW i \in L + 1 .. L + M PROVE (i - 1) \div M = k
  BY <1>0, <1>1, <1>2, <1>3
<1>4. ASSUME NEW i \in 1 .. L PROVE (i - 1) \div M < k
  <2> DEFINE q == (i - 1) \div M
  <2>1. q \in Nat /\ M * q <= i - 1
    BY <1>0
  <2> HIDE DEF q
  <2>2. CASE k <= q
    <3>1. PICK d \in Nat : q = k + d
      <4>1. q - k \in Nat /\ q = k + (q - k)
        BY <1>1, <2>1, <2>2
      <4> QED
        BY <4>1
    <3>2. M * q = M * k + M * d /\ M * d \in Nat /\ M * k \in Nat
      BY <1>0, <1>1, <2>1, <3>1
    <3> QED
      BY <1>1, <2>1, <3>2
  <2> QED
    BY <1>1, <2>1, <2>2 DEF q
<1>5. (L + M) % M = 0
  <2>1. L + M \in Nat /\ k + 1 \in Nat /\ M * (k + 1) = L + M
    BY <1>0, <1>1
  <2>2. (L + M) \div M = k + 1
    BY <1>0, <1>2, <2>1
  <2>3. L + M = M * ((L + M) \div M) + ((L + M) % M) /\ (L + M) % M \in Nat
    BY <1>0, <2>1
  <2> QED
    BY <2>1, <2>2, <2>3
<1>6. ASSUME NEW i \in 1 .. L + M PROVE (i - 1) \div M \in Nat
  BY <1>0
<1> QED
  BY <1>3, <1>4, <1>5, <1>6 DEF M

(* A stream stays in order when a later message of its thread follows.     *)
LEMMA StreamGrows ==
    ASSUME NEW q \in Seq(Messages), StreamOK(q), NEW m \in Messages,
           \A i \in 1 .. Len(q) : q[i].by = m.by => q[i].n < m.n,
           NEW r, r = q \o Units(m)
    PROVE  /\ StreamOK(r)
           /\ Len(r) = Len(q) + MsgLen
           /\ \A i \in 1 .. Len(q) : r[i] = q[i]
           /\ \A i \in Len(q) + 1 .. Len(q) + MsgLen : r[i] = m
<1> DEFINE L == Len(q)
<1>0. MsgLen \in Nat \ {0} /\ L \in Nat
  BY TcpServerAssumption
<1>1. /\ r \in Seq(Messages) /\ Len(r) = L + MsgLen
      /\ \A i \in 1 .. L : r[i] = q[i]
      /\ \A i \in L + 1 .. L + MsgLen : r[i] = m
  <2>1. Units(m) \in Seq(Messages) /\ Len(Units(m)) = MsgLen
        /\ \A i \in 1 .. MsgLen : Units(m)[i] = m
    BY <1>0 DEF Units
  <2> DEFINE u == Units(m)
  <2> HIDE DEF u
  <2>2. r \in Seq(Messages) /\ Len(r) = L + MsgLen /\ \A i \in 1 .. L : r[i] = q[i]
    <3>1. \A x, y \in Seq(Messages) : /\ x \o y \in Seq(Messages)
                                      /\ Len(x \o y) = Len(x) + Len(y)
                                      /\ \A i \in 1 .. Len(x) : (x \o y)[i] = x[i]
      OBVIOUS
    <3>2. r = q \o u /\ u \in Seq(Messages) /\ Len(u) = MsgLen
      BY <2>1 DEF u
    <3>3. q \o u \in Seq(Messages) /\ Len(q \o u) = L + Len(u)
          /\ \A i \in 1 .. L : (q \o u)[i] = q[i]
      BY <3>1, <3>2, Zenon
    <3> QED
      BY <3>2, <3>3
  <2>4. ASSUME NEW i \in L + 1 .. L + MsgLen PROVE r[i] = m
    <3>1. i - L \in 1 .. MsgLen
      BY <1>0
    <3>2. r[i] = u[i - L]
      <4>1. \A x, y \in Seq(Messages) :
                \A j \in Len(x) + 1 .. Len(x) + Len(y) : (x \o y)[j] = y[j - Len(x)]
        OBVIOUS
      <4> QED
        BY <2>1, <4>1, Zenon DEF u
    <3> QED
      BY <2>1, <3>1, <3>2 DEF u
  <2> QED
    BY <2>2, <2>4
<1>2. /\ (L + MsgLen) % MsgLen = 0
      /\ \A i \in 1 .. L + MsgLen : (i - 1) \div MsgLen \in Nat
      /\ \A i \in 1 .. L, j \in L + 1 .. L + MsgLen :
             (i - 1) \div MsgLen < (j - 1) \div MsgLen
      /\ \A i, j \in L + 1 .. L + MsgLen : (i - 1) \div MsgLen = (j - 1) \div MsgLen
  BY <1>0, Blocks DEF StreamOK
<1> DEFINE B(i) == (i - 1) \div MsgLen
<1>3. \A i \in 1 .. L + MsgLen : (i \in 1 .. L \/ i \in L + 1 .. L + MsgLen) /\ B(i) \in Nat
  <2> TAKE i \in 1 .. L + MsgLen
  <2>1. i - 1 \in Nat /\ (i \in 1 .. L \/ i \in L + 1 .. L + MsgLen)
    BY <1>0
  <2> QED
    BY <1>2, <2>1
<1>4. /\ \A i, j \in 1 .. L : B(i) = B(j) => q[i] = q[j]
      /\ \A i, j \in 1 .. L : (B(i) < B(j) /\ q[i].by = q[j].by) => q[i].n < q[j].n
  BY DEF StreamOK
<1>5. \A i \in 1 .. L, j \in L + 1 .. L + MsgLen : B(i) < B(j)
  BY <1>2
<1>6. \A i, j \in L + 1 .. L + MsgLen : B(i) = B(j)
  BY <1>2
<1> HIDE DEF B, L
<1>7. ASSUME NEW i \in 1 .. L + MsgLen, NEW j \in 1 .. L + MsgLen, B(i) = B(j)
      PROVE  r[i] = r[j]
  <2>1. CASE i \in 1 .. L /\ j \in 1 .. L
    BY <1>1, <1>4, <1>7, <2>1
  <2>2. CASE i \in L + 1 .. L + MsgLen /\ j \in L + 1 .. L + MsgLen
    BY <1>1, <2>2
  <2>3. CASE i \in 1 .. L /\ j \in L + 1 .. L + MsgLen
    BY <1>3, <1>5, <1>7, <2>3
  <2>4. CASE j \in 1 .. L /\ i \in L + 1 .. L + MsgLen
    BY <1>3, <1>5, <1>7, <2>4
  <2> QED
    BY <1>3, <2>1, <2>2, <2>3, <2>4
<1>8. ASSUME NEW i \in 1 .. L + MsgLen, NEW j \in 1 .. L + MsgLen,
             B(i) < B(j), r[i].by = r[j].by
      PROVE  r[i].n < r[j].n
  <2>1. CASE i \in 1 .. L /\ j \in 1 .. L
    BY <1>1, <1>4, <1>8, <2>1
  <2>2. CASE i \in L + 1 .. L + MsgLen /\ j \in L + 1 .. L + MsgLen
    BY <1>3, <1>6, <1>8, <2>2
  <2>3. CASE i \in 1 .. L /\ j \in L + 1 .. L + MsgLen
    BY <1>1, <1>8, <2>3 DEF L
  <2>4. CASE j \in 1 .. L /\ i \in L + 1 .. L + MsgLen
    BY <1>3, <1>5, <1>8, <2>4
  <2> QED
    BY <1>3, <2>1, <2>2, <2>3, <2>4
<1>9. StreamOK(r)
  BY <1>1, <1>2, <1>7, <1>8 DEF StreamOK, B
<1> QED
  BY <1>1, <1>9 DEF L

-------------------------------------------------------------------------------
(* Streams and waiting sends from state to state.                          *)

LEMMA StreamTyped ==
    ASSUME NEW s \in States, NEW c \in Conns
    PROVE  /\ Stream(s, c) \in Seq(Messages)
           /\ s.conn[c].wire \in Seq(Messages) /\ s.conn[c].out \in Seq(Messages)
<1>1. s.conn[c].wire \in Seq(Messages) /\ s.conn[c].out \in Seq(Messages)
  BY DEF States, ConnRecord
<1> QED
  BY <1>1 DEF Stream

(* A step that leaves the streams alone and at most takes waiting sends    *)
(* from the front of the loops.                                            *)
LEMMA StreamsKept ==
    ASSUME NEW s, NEW t, NEW cl, NEW n, Streams(s, cl, n),
           \A c \in Conns : Stream(t, c) = Stream(s, c),
           \A l \in Loops : \E k \in Nat : \A i \in Nat, c \in Conns, m \in Messages :
               Waits(t, l, i, c, m) => Waits(s, l, i + k, c, m)
    PROVE  Streams(t, cl, n)
<1>1. \A c \in Conns, m \in Messages : After(s, c, m) <=> After(t, c, m)
  BY DEF After
<1>2. GivenInv(t, n)
  BY DEF Streams, GivenInv
<1>3. ASSUME NEW l \in Loops, NEW i \in Nat, NEW c \in Conns, NEW m \in Messages,
             Waits(t, l, i, c, m)
      PROVE  \E j \in Nat : Waits(s, l, j, c, m)
  <2>1. PICK k \in Nat : Waits(s, l, i + k, c, m)
    BY <1>3
  <2>2. i + k \in Nat
    OBVIOUS
  <2> QED
    BY <2>1, <2>2
<1>4. ASSUME NEW l \in Loops, NEW i \in Nat, NEW j \in Nat, NEW c \in Conns, NEW d \in Conns,
             NEW m \in Messages, NEW p \in Messages,
             i < j, Waits(t, l, i, c, m), Waits(t, l, j, d, p), m.by = p.by
      PROVE  m.n < p.n
  <2>1. PICK k \in Nat : \A x \in Nat, e \in Conns, q \in Messages :
                             Waits(t, l, x, e, q) => Waits(s, l, x + k, e, q)
    OBVIOUS
  <2>2. Waits(s, l, i + k, c, m) /\ Waits(s, l, j + k, d, p)
    BY <1>4, <2>1
  <2>3. i + k \in Nat /\ j + k \in Nat /\ i + k < j + k
    BY <1>4
  <2> HIDE <1>4
  <2> QED
    BY <1>4, <2>2, <2>3 DEF Streams, WaitingInv
<1>5. WaitingInv(t, n)
  BY <1>1, <1>3, <1>4 DEF Streams, WaitingInv
<1>6. CallingInv(t, cl, n)
  BY <1>1, <1>3 DEF Streams, CallingInv, Calling
<1> QED
  BY <1>2, <1>5, <1>6 DEF Streams

(* A step that leaves what is written, what is buffered and what waits.    *)
LEMMA StreamsSame ==
    ASSUME NEW s, NEW t, NEW cl, NEW n, Streams(s, cl, n),
           \A c \in Conns : t.conn[c].wire = s.conn[c].wire /\ t.conn[c].out = s.conn[c].out,
           \A l \in Loops : Work(t, l) = Work(s, l)
    PROVE  Streams(t, cl, n)
<1>1. \A c \in Conns : Stream(t, c) = Stream(s, c)
  BY DEF Stream
<1>2. \A l \in Loops, i \in Nat, c \in Conns, m \in Messages :
          Waits(t, l, i, c, m) => Waits(s, l, i + 0, c, m)
  BY DEF Waits
<1> QED
  BY <1>1, <1>2, StreamsKept

LEMMA WaitsQueued ==
    ASSUME NEW s \in States, NEW t \in States, NEW l \in Loops, NEW f \in Functors,
           t.loop = Queued(s.loop, l, f), NEW c, NEW m, NEW x \in Loops, NEW i \in Nat
    PROVE  Waits(t, x, i, c, m) <=>
               \/ Waits(s, x, i, c, m)
               \/ x = l /\ i = Len(Work(s, l)) + 1 /\ f = SendOf(c, m)
<1>1. /\ Work(t, l) = Append(Work(s, l), f)
      /\ \A y \in Loops \ {l} : Work(t, y) = Work(s, y)
  BY WorkQueued
<1>2. Work(s, l) \in Seq(Functors)
  BY WorkTyped
<1>3. CASE x = l
  <2> DEFINE w == Work(s, l)
  <2>1. Len(Append(w, f)) = Len(w) + 1 /\ Len(w) \in Nat
    BY <1>2
  <2>2. \A j \in 1 .. Len(w) : Append(w, f)[j] = w[j]
    BY <1>2
  <2>3. Append(w, f)[Len(w) + 1] = f
    BY <1>2
  <2> HIDE DEF w
  <2>4. i \in 1 .. Len(w) + 1 <=> i \in 1 .. Len(w) \/ i = Len(w) + 1
    BY <2>1
  <2>5. i \in 1 .. Len(w) => i # Len(w) + 1
    BY <2>1
  <2>6. Work(t, x) = Append(w, f) /\ Work(s, x) = w
    BY <1>1, <1>3 DEF w
  <2> QED
    BY <1>3, <2>1, <2>2, <2>3, <2>4, <2>5, <2>6 DEF Waits, w
<1>4. CASE x # l
  BY <1>1, <1>4 DEF Waits
<1> QED
  BY <1>3, <1>4

(* A functor that sends nothing is queued.                                 *)
LEMMA StreamsQueued ==
    ASSUME NEW s \in States, NEW cl, NEW n, Streams(s, cl, n), NEW l \in Loops,
           NEW f \in Functors, f.op # "send", NEW t, t = QueueInLoop(s, l, f)
    PROVE  t \in States /\ Streams(t, cl, n)
<1>1. t \in States /\ t.conn = s.conn /\ t.loop = Queued(s.loop, l, f)
  BY QueueFields
<1>2. \A c \in Conns, m \in Messages : f # SendOf(c, m)
  BY DEF SendOf
<1>3. \A x \in Loops, i \in Nat, c \in Conns, m \in Messages :
          Waits(t, x, i, c, m) => Waits(s, x, i + 0, c, m)
  <2>1. \A i \in Nat : i + 0 = i
    OBVIOUS
  <2> QED
    BY <1>1, <1>2, <2>1, WaitsQueued
<1>4. \A c \in Conns : Stream(t, c) = Stream(s, c)
  BY <1>1 DEF Stream
<1> QED
  BY <1>1, <1>3, <1>4, StreamsKept

(* A loop takes the next functor of its batch.                             *)
LEMMA WaitsTaken ==
    ASSUME NEW s \in States, NEW t \in States, NEW l \in Loops, s.loop[l].batch # <<>>,
           t.loop = Taken(s.loop, l), NEW c, NEW m, NEW x \in Loops, NEW i \in Nat,
           Waits(t, x, i, c, m)
    PROVE  Waits(s, x, IF x = l THEN i + 1 ELSE i, c, m) /\ i > 0
<1>1. /\ Work(s, l) # <<>>
      /\ Work(t, l) = Tail(Work(s, l))
      /\ \A y \in Loops \ {l} : Work(t, y) = Work(s, y)
  BY WorkTaken
<1>2. Work(s, l) \in Seq(Functors) /\ i > 0
  BY WorkTyped DEF Waits
<1>3. CASE x = l
  <2> DEFINE w == Work(s, l)
  <2>1. Len(Tail(w)) = Len(w) - 1 /\ Len(w) \in Nat \ {0}
    BY <1>1, <1>2
  <2>2. \A j \in 1 .. Len(w) - 1 : Tail(w)[j] = w[j + 1]
    BY <1>1, <1>2
  <2> HIDE DEF w
  <2>3. i \in 1 .. Len(w) - 1 => i + 1 \in 1 .. Len(w)
    BY <2>1
  <2>4. Work(t, x) = Tail(w) /\ Work(s, x) = w
    BY <1>1, <1>3 DEF w
  <2> QED
    BY <1>2, <1>3, <2>1, <2>2, <2>3, <2>4 DEF Waits
<1>4. CASE x # l
  BY <1>1, <1>2, <1>4 DEF Waits
<1> QED
  BY <1>3, <1>4

LEMMA StreamsTaken ==
    ASSUME NEW s \in States, NEW cl, NEW n, Streams(s, cl, n), NEW l \in Loops,
           s.loop[l].batch # <<>>, NEW t, t = TakeHead(s, l)
    PROVE  t \in States /\ Streams(t, cl, n)
<1>1. t \in States /\ t.conn = s.conn /\ t.loop = Taken(s.loop, l)
  BY TakeFields
<1>2. \A c \in Conns : Stream(t, c) = Stream(s, c)
  BY <1>1 DEF Stream
<1>3. \A x \in Loops, i \in Nat, c \in Conns, m \in Messages :
          Waits(t, x, i, c, m) => Waits(s, x, IF x = l THEN i + 1 ELSE i, c, m)
  BY <1>1, WaitsTaken
<1>4. ASSUME NEW x \in Loops
      PROVE  \E k \in Nat : \A i \in Nat, c \in Conns, m \in Messages :
                 Waits(t, x, i, c, m) => Waits(s, x, i + k, c, m)
  <2>1. CASE x = l
    BY <1>3, <2>1
  <2>2. CASE x # l
    <3>1. \A i \in Nat : i + 0 = i
      OBVIOUS
    <3>2. \A i \in Nat, c \in Conns, m \in Messages :
              Waits(t, x, i, c, m) => Waits(s, x, i + 0, c, m)
      BY <1>3, <2>2, <3>1
    <3> QED
      BY <3>2
  <2> QED
    BY <2>1, <2>2
<1> QED
  BY <1>1, <1>2, <1>4, StreamsKept

(* A whole message is appended to a stream, earlier than what still waits  *)
(* for that stream and than the calls under way.                           *)
LEMMA StreamsSent ==
    ASSUME NEW s \in States, NEW t, NEW cl, NEW n, Streams(s, cl, n),
           NEW c \in Conns, NEW m \in Messages, m.n <= n, After(s, c, m),
           Stream(t, c) = Stream(s, c) \o Units(m),
           \A d \in Conns \ {c} : Stream(t, d) = Stream(s, d),
           \A l \in Loops : Work(t, l) = Work(s, l),
           \A l \in Loops, i \in Nat, p \in Messages :
               (Waits(s, l, i, c, p) /\ p.by = m.by) => m.n < p.n,
           \A k \in Clients, p \in Messages :
               (cl[k] # Idle /\ cl[k].functor = SendOf(c, p) /\ k = m.by) => m.n < p.n
    PROVE  Streams(t, cl, n)
<1> DEFINE q == Stream(s, c)
           r == Stream(t, c)
<1>0. MsgLen \in Nat \ {0} /\ q \in Seq(Messages) /\ Len(q) \in Nat
  BY TcpServerAssumption, StreamTyped
<1>1. /\ StreamOK(r)
      /\ Len(r) = Len(q) + MsgLen
      /\ \A i \in 1 .. Len(q) : r[i] = q[i]
      /\ \A i \in Len(q) + 1 .. Len(q) + MsgLen : r[i] = m
  <2>1. StreamOK(q) /\ \A i \in 1 .. Len(q) : q[i].by = m.by => q[i].n < m.n
    BY DEF Streams, GivenInv, After
  <2> HIDE DEF q, r
  <2> QED
    BY <1>0, <2>1, StreamGrows DEF q, r
<1>2. \A i \in 1 .. Len(r) : r[i] = m \/ \E j \in 1 .. Len(q) : r[i] = q[j]
  <2> HIDE DEF q, r
  <2> TAKE i \in 1 .. Len(r)
  <2>1. i \in 1 .. Len(q) \/ i \in Len(q) + 1 .. Len(q) + MsgLen
    BY <1>0, <1>1
  <2> QED
    BY <1>1, <2>1
<1>3. \A l \in Loops, i \in Nat, d \in Conns, p \in Messages :
          Waits(t, l, i, d, p) <=> Waits(s, l, i, d, p)
  BY DEF Waits
<1>4. \A p \in Messages :
          After(s, c, p) /\ (p.by = m.by => m.n < p.n) => After(t, c, p)
  BY <1>2 DEF After
<1>5. \A d \in Conns \ {c}, p \in Messages : After(s, d, p) => After(t, d, p)
  BY DEF After
<1>6. GivenInv(t, n)
  <2> SUFFICES ASSUME NEW d \in Conns
               PROVE  /\ StreamOK(Stream(t, d))
                      /\ \A i \in 1 .. Len(Stream(t, d)) : Stream(t, d)[i].n <= n
    BY DEF GivenInv
  <2>1. CASE d = c
    <3>1. \A i \in 1 .. Len(q) : q[i].n <= n
      BY DEF Streams, GivenInv
    <3> QED
      BY <1>1, <1>2, <2>1, <3>1
  <2>2. CASE d # c
    BY <2>2 DEF Streams, GivenInv
  <2> QED
    BY <2>1, <2>2
<1> HIDE DEF q, r
<1>7. ASSUME NEW l \in Loops, NEW i \in Nat, NEW d \in Conns, NEW p \in Messages,
             Waits(s, l, i, d, p)
      PROVE  p.by \in Clients /\ p.n <= n /\ After(t, d, p)
  <2>1. p.by \in Clients /\ p.n <= n /\ After(s, d, p)
    BY <1>7 DEF Streams, WaitingInv
  <2>2. CASE d = c
    <3>1. p.by = m.by => m.n < p.n
      BY <1>7, <2>2
    <3> QED
      BY <1>4, <2>1, <2>2, <3>1
  <2>3. CASE d # c
    BY <1>5, <2>1, <2>3
  <2> QED
    BY <2>2, <2>3
<1>8. WaitingInv(t, n)
  <2>1. \A l \in Loops, i \in Nat, j \in Nat, d \in Conns, e \in Conns,
           p \in Messages, o \in Messages :
            (i < j /\ Waits(s, l, i, d, p) /\ Waits(s, l, j, e, o) /\ p.by = o.by) => p.n < o.n
    BY DEF Streams, WaitingInv
  <2> QED
    BY <1>3, <1>7, <2>1 DEF WaitingInv
<1>9. ASSUME NEW k \in Clients, NEW d \in Conns, NEW p \in Messages,
             cl[k] # Idle, cl[k].functor = SendOf(d, p)
      PROVE  Calling(t, k, d, p, n)
  <2>1. Calling(s, k, d, p, n)
    BY <1>9 DEF Streams, CallingInv
  <2>2. After(t, d, p)
    <3>1. CASE d = c
      BY <1>4, <1>9, <2>1, <3>1 DEF Calling
    <3>2. CASE d # c
      BY <1>5, <2>1, <3>2 DEF Calling
    <3> QED
      BY <3>1, <3>2
  <2> QED
    BY <1>3, <2>1, <2>2 DEF Calling
<1> QED
  BY <1>6, <1>8, <1>9 DEF Streams, CallingInv

(* One more call of send(): its message is later than all others.          *)
LEMMA StreamsCount ==
    ASSUME NEW s \in States, NEW cl, NEW n \in Nat, Streams(s, cl, n)
    PROVE  /\ Streams(s, cl, n + 1)
           /\ \A c \in Conns, m \in Messages : m.n = n + 1 => After(s, c, m)
           /\ \A l \in Loops, i \in Nat, c \in Conns, m \in Messages, p \in Messages :
                  Waits(s, l, i, c, p) /\ m.n = n + 1 => p.n < m.n
<1>0. \A m \in Messages : m.n \in Nat
  BY TcpServerAssumption DEF Messages
<1>1. \A m \in Messages : m.n <= n => m.n < n + 1 /\ m.n <= n + 1
  BY <1>0
<1>2. \A c \in Conns : \A i \in 1 .. Len(Stream(s, c)) :
          Stream(s, c)[i] \in Messages /\ Stream(s, c)[i].n <= n
  BY StreamTyped DEF Streams, GivenInv
<1>3. \A c \in Conns : \A i \in 1 .. Len(Stream(s, c)) :
          Stream(s, c)[i].n < n + 1 /\ Stream(s, c)[i].n <= n + 1
  BY <1>1, <1>2
<1>4. GivenInv(s, n + 1)
  BY <1>3 DEF Streams, GivenInv
<1>5. WaitingInv(s, n + 1)
  BY <1>1 DEF Streams, WaitingInv
<1>6. CallingInv(s, cl, n + 1)
  BY <1>1 DEF Streams, CallingInv, Calling
<1>7. \A c \in Conns, m \in Messages : m.n = n + 1 => After(s, c, m)
  BY <1>3 DEF After
<1>8. \A l \in Loops, i \in Nat, c \in Conns, m \in Messages, p \in Messages :
          Waits(s, l, i, c, p) /\ m.n = n + 1 => p.n < m.n
  BY <1>1 DEF Streams, WaitingInv
<1> QED
  BY <1>4, <1>5, <1>6, <1>7, <1>8 DEF Streams

(* A thread goes on to r: no send, the send it was in, or a new one.       *)
LEMMA StreamsCalling ==
    ASSUME NEW s, NEW cl, NEW n, Streams(s, cl, n), NEW k \in Clients, NEW cm,
           \A j \in Clients \ {k} : cm[j] = cl[j],
           \A c \in Conns, m \in Messages :
               (cm[k] # Idle /\ cm[k].functor = SendOf(c, m)) => Calling(s, k, c, m, n)
    PROVE  Streams(s, cm, n)
  BY DEF Streams, CallingInv

(* A thread hands its send to a loop.                                      *)
LEMMA StreamsHanded ==
    ASSUME NEW s \in States, NEW cl, NEW n, NEW k \in Clients, NEW l \in Loops,
           NEW c \in Conns, NEW m \in Messages, cl[k] # Idle,
           cl[k].functor = SendOf(c, m), NEW t, t = QueueInLoop(s, l, SendOf(c, m)),
           NEW cm, cm[k] = Idle, \A j \in Clients \ {k} : cm[j] = cl[j], Streams(s, cl, n)
    PROVE  Streams(t, cm, n)
<1> DEFINE f == SendOf(c, m)
           w == Len(Work(s, l)) + 1
<1>0. f \in Functors
  BY DEF SendOf, Functors
<1>1. t \in States /\ t.conn = s.conn /\ t.loop = Queued(s.loop, l, f)
  BY <1>0, QueueFields
<1>2. \A d \in Conns : Stream(t, d) = Stream(s, d)
  BY <1>1 DEF Stream
<1>3. \A d \in Conns, p \in Messages : After(t, d, p) <=> After(s, d, p)
  BY <1>2 DEF After
<1>4. \A d \in Conns, p \in Messages : f = SendOf(d, p) => c = d /\ m = p
  BY DEF SendOf
<1> HIDE DEF f
<1>5. \A x \in Loops, i \in Nat, d \in Conns, p \in Messages :
          Waits(t, x, i, d, p) =>
              Waits(s, x, i, d, p) \/ (x = l /\ i = w /\ d = c /\ p = m)
  BY <1>0, <1>1, <1>4, WaitsQueued
<1>6. Calling(s, k, c, m, n)
  BY DEF Streams, CallingInv
<1>7. \A x \in Loops, i \in Nat, d \in Conns, p \in Messages :
          Waits(s, x, i, d, p) => i \in 1 .. Len(Work(s, x))
  BY DEF Waits
<1>8. w \in Nat /\ Len(Work(s, l)) \in Nat
  BY WorkTyped
<1>9. GivenInv(t, n)
  BY <1>2 DEF Streams, GivenInv
<1>10. ASSUME NEW x \in Loops, NEW i \in Nat, NEW j \in Nat, NEW d \in Conns, NEW e \in Conns,
              NEW p \in Messages, NEW o \in Messages,
              i < j, Waits(t, x, i, d, p), Waits(t, x, j, e, o), p.by = o.by
       PROVE  p.n < o.n
  <2>1. CASE Waits(s, x, i, d, p) /\ Waits(s, x, j, e, o)
    BY <1>10, <2>1 DEF Streams, WaitingInv
  <2>2. CASE Waits(s, x, i, d, p) /\ x = l /\ j = w /\ o = m
    BY <1>6, <1>10, <2>2 DEF Calling
  <2>3. CASE x = l /\ i = w /\ Waits(s, x, j, e, o)
    BY <1>7, <1>8, <1>10, <2>3
  <2>4. CASE i = w /\ j = w
    BY <1>8, <1>10, <2>4
  <2> QED
    BY <1>5, <1>10, <2>1, <2>2, <2>3, <2>4
<1>11. \A x \in Loops, i \in Nat, d \in Conns, p \in Messages :
           Waits(t, x, i, d, p) => p.by \in Clients /\ p.n <= n /\ After(t, d, p)
  BY <1>3, <1>5, <1>6 DEF Streams, WaitingInv, Calling
<1>12. WaitingInv(t, n)
  BY <1>10, <1>11 DEF WaitingInv
<1>13. ASSUME NEW j \in Clients, NEW d \in Conns, NEW p \in Messages,
              cm[j] # Idle, cm[j].functor = SendOf(d, p)
       PROVE  Calling(t, j, d, p, n)
  <2>1. j # k /\ cl[j] # Idle /\ cl[j].functor = SendOf(d, p)
    BY <1>13
  <2>2. Calling(s, j, d, p, n)
    BY <2>1 DEF Streams, CallingInv
  <2> QED
    BY <1>3, <1>5, <1>6, <2>1, <2>2 DEF Calling
<1> QED
  BY <1>9, <1>12, <1>13 DEF Streams, CallingInv

-------------------------------------------------------------------------------
(* Handlers and streams.                                                   *)

SameData(s, t) ==
    /\ \A c \in Conns : t.conn[c].wire = s.conn[c].wire /\ t.conn[c].out = s.conn[c].out
    /\ t.loop = s.loop

LEMMA StreamsSameData ==
    ASSUME NEW s, NEW t, SameData(s, t), NEW cl, NEW n, Streams(s, cl, n)
    PROVE  Streams(t, cl, n)
<1>1. \A l \in Loops : Work(t, l) = Work(s, l)
  BY DEF SameData, Work
<1> QED
  BY <1>1, StreamsSame DEF SameData

(* Handlers that neither write, buffer nor queue.                          *)
LEMMA QuietHandlers ==
    ASSUME NEW s \in States, NEW c \in Conns
    PROVE  /\ \A w : SameData(s, Fail(s, w))
           /\ \A d, ch : SameData(s, SetChan(s, d, ch))
           /\ \A x \in Stats : SameData(s, SetStat(s, c, x)) /\ SetStat(s, c, x) \in States
           /\ SameData(s, ConnectionEstablished(s, c))
           /\ SameData(s, ConnectionDestory(s, c))
           /\ SameData(s, ShutdownInLoop(s, c))
           /\ SameData(s, ShutDown(s, c))
           /\ SameData(s, StartReadInLoop(s, c))
           /\ SameData(s, StopReadInLoop(s, c))
<1>1. \A w : SameData(s, Fail(s, w))
  BY DEF SameData, Fail, States
<1>2. \A d, ch : SameData(s, SetChan(s, d, ch))
  BY DEF SameData, SetChan, States
<1>3. ASSUME NEW x \in Stats PROVE SameData(s, SetStat(s, c, x)) /\ SetStat(s, c, x) \in States
  BY SetStatFields DEF SameData
<1>4. \A x \in Stats : \A d, ch : SameData(s, SetChan(SetStat(s, c, x), d, ch))
  BY <1>3 DEF SameData, SetChan, States
<1>5. \A x \in Stats : \A d, ch, e, cj :
          SameData(s, SetChan(SetChan(SetStat(s, c, x), d, ch), e, cj))
  BY <1>3 DEF SameData, SetChan, States
<1>6. SameData(s, ConnectionEstablished(s, c))
  BY <1>1, <1>4 DEF ConnectionEstablished, Stats
<1>7. SameData(s, ConnectionDestory(s, c))
  BY <1>2, <1>5 DEF ConnectionDestory, Stats
<1>8. ASSUME NEW t \in States PROVE SameData(t, ShutdownInLoop(t, c))
  BY DEF SameData, ShutdownInLoop, States, ConnRecord
<1>9. SameData(s, ShutDown(s, c))
  <2>1. SameData(SetStat(s, c, "KDISCONNECTING"),
                 ShutdownInLoop(SetStat(s, c, "KDISCONNECTING"), c))
    BY <1>3, <1>8 DEF Stats
  <2>2. SameData(s, SetStat(s, c, "KDISCONNECTING"))
    BY <1>3 DEF Stats
  <2> QED
    BY <2>1, <2>2 DEF SameData, ShutDown
<1>10. ASSUME NEW b \in BOOLEAN PROVE \A d, ch :
           SameData(s, SetChan([s EXCEPT !.conn[c].reading = b], d, ch))
  BY DEF SameData, SetChan, States, ConnRecord
<1>11. SameData(s, s)
  BY DEF SameData
<1>12. SameData(s, StartReadInLoop(s, c))
  BY <1>10, <1>11 DEF StartReadInLoop
<1>13. SameData(s, StopReadInLoop(s, c))
  BY <1>10, <1>11 DEF StopReadInLoop
<1> QED
  BY <1>1, <1>2, <1>3, <1>6, <1>7, <1>8, <1>9, <1>12, <1>13

(* Handlers that queue another step of a connection's life.                *)
LEMMA RemoveStreams ==
    ASSUME NEW s \in States, NEW cl, NEW n, Streams(s, cl, n), NEW c \in Conns
    PROVE  Streams(RemoveConnectionInLoop(s, c), cl, n)
<1>1. CASE c \notin s.connections
  BY <1>1, QuietHandlers, StreamsSameData DEF RemoveConnectionInLoop
<1>2. CASE c \in s.connections
  <2> DEFINE u == [s EXCEPT !.connections = @ \ {c}]
             f == [op |-> "destory", conn |-> c]
  <2>1. u \in States /\ u.conn = s.conn /\ u.loop = s.loop
    BY DEF States
  <2>2. f \in Functors /\ f.op # "send"
    BY DEF Functors
  <2>3. s.conn[c].loop \in Loops
    BY DEF States, ConnRecord
  <2>4. RemoveConnectionInLoop(s, c) = QueueInLoop(u, s.conn[c].loop, f)
    BY <1>2, Zenon DEF RemoveConnectionInLoop
  <2> HIDE DEF u, f
  <2>5. Streams(u, cl, n)
    BY <2>1, StreamsSameData DEF SameData
  <2> QED
    BY <2>1, <2>2, <2>3, <2>4, <2>5, StreamsQueued
<1> QED
  BY <1>1, <1>2

LEMMA CloseStreams ==
    ASSUME NEW s \in States, NEW cl, NEW n, Streams(s, cl, n), NEW l \in Loops,
           NEW c \in Conns
    PROVE  Streams(HandleClose(s, l, c), cl, n)
<1>1. CASE s.conn[c].stat \notin {"KCONNECT", "KDISCONNECTING"}
  BY <1>1, QuietHandlers, StreamsSameData DEF HandleClose
<1>2. CASE s.conn[c].stat \in {"KCONNECT", "KDISCONNECTING"}
  <2> DEFINE u == SetStat(s, c, "KDISCONNECTED")
             f == [op |-> "remove", conn |-> c]
  <2>1. u \in States /\ Streams(u, cl, n)
    BY QuietHandlers, StreamsSameData DEF Stats
  <2>2. f \in Functors /\ f.op # "send" /\ Base \in Loops
    BY DEF Functors, Loops
  <2>3. HandleClose(s, l, c) = IF l = Base THEN RemoveConnectionInLoop(u, c)
                                           ELSE QueueInLoop(u, Base, f)
    BY <1>2, Zenon DEF HandleClose, RemoveConnection
  <2> HIDE DEF u, f
  <2> QED
    BY <2>1, <2>2, <2>3, RemoveStreams, StreamsQueued
<1> QED
  BY <1>1, <1>2

LEMMA ForceCloseStreams ==
    ASSUME NEW s \in States, NEW cl, NEW n, Streams(s, cl, n), NEW c \in Conns
    PROVE  Streams(ForceClose(s, c), cl, n)
<1> DEFINE u == SetStat(s, c, "KDISCONNECTING")
           f == [op |-> "forceClose", conn |-> c]
<1>1. u \in States /\ Streams(u, cl, n)
  BY QuietHandlers, StreamsSameData DEF Stats
<1>2. f \in Functors /\ f.op # "send" /\ s.conn[c].loop \in Loops
  BY DEF Functors, CallOps, States, ConnRecord
<1>3. ForceClose(s, c) = IF CanForceClose(s.conn[c].stat)
                            THEN QueueInLoop(u, s.conn[c].loop, f) ELSE s
  BY Zenon DEF ForceClose
<1> HIDE DEF u, f
<1> QED
  BY <1>1, <1>2, <1>3, StreamsQueued

LEMMA ReadStreams ==
    ASSUME NEW s \in States, NEW cl, NEW n, Streams(s, cl, n), NEW l \in Loops,
           NEW c \in Conns
    PROVE  Streams(HandleRead(s, l, c), cl, n)
<1>1. /\ Streams([s EXCEPT !.sock[c].err = FALSE], cl, n)
      /\ Streams([s EXCEPT !.sock[c].data = FALSE], cl, n)
  <2>1. /\ SameData(s, [s EXCEPT !.sock[c].err = FALSE])
        /\ SameData(s, [s EXCEPT !.sock[c].data = FALSE])
    BY DEF SameData, States
  <2> QED
    BY <2>1, StreamsSameData
<1>2. \/ HandleRead(s, l, c) = [s EXCEPT !.sock[c].err = FALSE]
      \/ HandleRead(s, l, c) = [s EXCEPT !.sock[c].data = FALSE]
      \/ HandleRead(s, l, c) = HandleClose(s, l, c)
      \/ HandleRead(s, l, c) = s
  BY DEF HandleRead
<1>3. Streams(HandleClose(s, l, c), cl, n)
  BY CloseStreams
<1> QED
  BY <1>1, <1>2, <1>3, Zenon

LEMMA NewStreams ==
    ASSUME NEW s \in States, NEW cl, NEW n, Streams(s, cl, n), NEW l \in Loops,
           NEW c \in Conns, NEW reading \in BOOLEAN
    PROVE  Streams(NewConnection(s, c, l, reading), cl, n)
<1> DEFINE u == [s EXCEPT !.sock[c].where = "open", !.connections = @ \cup {c}]
           r == [u.conn[c] EXCEPT !.stat = "KCONNECTING", !.loop = l, !.reading = reading]
           t == SetConn(u, c, r)
           f == [op |-> "established", conn |-> c]
<1>1. u \in States /\ u.conn = s.conn /\ u.loop = s.loop
  <2> DEFINE a == [s.sock EXCEPT ![c].where = "open"]
             b == s.connections \cup {c}
  <2>1. a \in [Conns -> SockRecord]
    BY DEF States, SockRecord
  <2>2. b \in SUBSET Conns
    BY DEF States
  <2>3. u = [s EXCEPT !.sock = a, !.connections = b]
    OBVIOUS
  <2> HIDE DEF a, b, u
  <2> QED
    BY <2>1, <2>2, <2>3 DEF States
<1>2. NewConnection(s, c, l, reading) =
          IF l = Base THEN ConnectionEstablished(t, c) ELSE QueueInLoop(t, l, f)
  BY Zenon DEF NewConnection
<1> HIDE DEF u
<1>3. u.conn[c] \in ConnRecord
  BY <1>1 DEF States
<1>4. r \in ConnRecord /\ r.wire = u.conn[c].wire /\ r.out = u.conn[c].out
  BY <1>3 DEF ConnRecord, Stats
<1> HIDE DEF r
<1>5. t \in States /\ SameData(s, t)
  BY <1>1, <1>4, ConnFields DEF SameData
<1>6. f \in Functors /\ f.op # "send"
  BY DEF Functors
<1> HIDE DEF t, f
<1>7. Streams(t, cl, n)
  BY <1>5, StreamsSameData
<1>8. Streams(ConnectionEstablished(t, c), cl, n)
  BY <1>5, <1>7, QuietHandlers, StreamsSameData
<1> QED
  BY <1>2, <1>5, <1>6, <1>7, <1>8, StreamsQueued

(* What ::write took of q, and the rest.                                   *)
LEMMA Parts ==
    ASSUME NEW q \in Seq(Messages), NEW n \in 0 .. Len(q)
    PROVE  /\ SubSeq(q, 1, n) \in Seq(Messages)
           /\ SubSeq(q, n + 1, Len(q)) \in Seq(Messages)
           /\ SubSeq(q, 1, n) \o SubSeq(q, n + 1, Len(q)) = q
<1>1. Len(q) \in Nat /\ 1 \in 1 .. Len(q) + 1 /\ n \in 1 - 1 .. Len(q)
      /\ Len(q) \in n .. Len(q)
  OBVIOUS
<1>2. SubSeq(q, 1, n) \o SubSeq(q, n + 1, Len(q)) = SubSeq(q, 1, Len(q))
  BY <1>1, ConcatAdjacentSubSeq
<1>3. SubSeq(q, 1, Len(q)) = q
  BY SubSeqFull
<1>4. SubSeq(q, 1, n) \in Seq(Messages) /\ SubSeq(q, n + 1, Len(q)) \in Seq(Messages)
  BY <1>1, SubSeqProperties
<1> QED
  BY <1>2, <1>3, <1>4

LEMMA Assoc ==
    \A x, y, z \in Seq(Messages) : (x \o y) \o z = x \o (y \o z)
  BY ConcatAssociative

(* handleWrite() moves output from the buffer to the wire.                 *)
LEMMA WriteStreams ==
    ASSUME NEW s \in States, NEW cl, NEW k, Streams(s, cl, k), NEW c \in Conns,
           NEW n, n \in WriteResults(s, c, Len(s.conn[c].out)) \cup
                      (IF IsWriting(s.chan[c]) THEN {} ELSE {0})
    PROVE  Streams(HandleWrite(s, c, n), cl, k)
<1> DEFINE out == s.conn[c].out
           wire == s.conn[c].wire
<1>0. wire \in Seq(Messages) /\ out \in Seq(Messages) /\ Len(out) \in Nat
  BY StreamTyped
<1>1. CASE ~IsWriting(s.chan[c])
  BY <1>1 DEF HandleWrite
<1>2. CASE IsWriting(s.chan[c])
  <2>0. n = Killed \/ n = -1 \/ n \in 1 .. Len(out)
    BY <1>0, <1>2, WriteRange
  <2>1. CASE n = Killed \/ n = -1
    <3>1. PICK w : HandleWrite(s, c, n) = Fail(s, w)
      BY <1>2, <2>1, WriteFails, Zenon
    <3>2. SameData(s, Fail(s, w))
      BY QuietHandlers, Zenon
    <3>3. Streams(Fail(s, w), cl, k)
      BY <3>2, StreamsSameData, Zenon
    <3> QED
      BY <3>1, <3>3, Zenon
  <2>2. CASE n \in 1 .. Len(out)
    <3> DEFINE rest == SubSeq(out, n + 1, Len(out))
               sent == SubSeq(out, 1, n)
               q == [s.conn[c] EXCEPT !.out = rest, !.wire = @ \o sent]
               t == SetConn(s, c, q)
               u == SetChan(t, c, DisableWrite(t.chan[c]))
    <3>1. n > 0 /\ n # Killed /\ n # -1 /\ n \in 0 .. Len(out)
      BY <1>0, <2>2 DEF Killed
    <3>2. rest \in Seq(Messages) /\ sent \in Seq(Messages) /\ sent \o rest = out
      <4> HIDE DEF out
      <4> QED
        BY <1>0, <3>1, Parts
    <3>3. HandleWrite(s, c, n) =
              IF rest # <<>> THEN t
              ELSE IF u.conn[c].stat = "KDISCONNECTING" THEN ShutdownInLoop(u, c) ELSE u
      BY <1>2, <3>1, Zenon DEF HandleWrite
    <3> HIDE DEF rest, sent
    <3>4. wire \o sent \in Seq(Messages)
      BY <1>0, <3>2
    <3>5. q \in ConnRecord /\ q.out = rest /\ q.wire = wire \o sent
      <4>1. s.conn[c] \in ConnRecord
        BY DEF States
      <4> QED
        BY <3>2, <3>4, <4>1 DEF ConnRecord
    <3> HIDE DEF q
    <3>6. /\ t \in States /\ t.conn[c] = q /\ t.loop = s.loop
          /\ \A d \in Conns \ {c} : t.conn[d] = s.conn[d]
      BY <3>5, ConnFields
    <3>7. (wire \o sent) \o rest = wire \o out
      <4>1. (wire \o sent) \o rest = wire \o (sent \o rest)
        BY <1>0, <3>2, Assoc, Zenon
      <4> QED
        BY <3>2, <4>1
    <3> HIDE DEF t
    <3>8. \A d \in Conns : Stream(t, d) = Stream(s, d)
      BY <3>5, <3>6, <3>7 DEF Stream
    <3>9. \A l \in Loops, i \in Nat, d \in Conns, m \in Messages :
              Waits(t, l, i, d, m) => Waits(s, l, i + 0, d, m)
      <4>1. \A l \in Loops : Work(t, l) = Work(s, l)
        BY <3>6 DEF Work
      <4> QED
        BY <4>1 DEF Waits
    <3>10. Streams(t, cl, k)
      BY <3>8, <3>9, StreamsKept
    <3>11. SameData(t, u)
      BY <3>6, QuietHandlers
    <3>12. SameData(t, ShutdownInLoop(u, c))
      BY <3>6 DEF SameData, ShutdownInLoop, SetChan, States, ConnRecord
    <3> HIDE DEF u
    <3> QED
      BY <3>3, <3>10, <3>11, <3>12, StreamsSameData
  <2> QED
    BY <2>0, <2>1, <2>2
<1> QED
  BY <1>1, <1>2

(* sendInLoop() appends the whole message to the connection's stream, if   *)
(* it appends anything: part of it is written at once only when nothing is *)
(* buffered.                                                               *)
LEMMA SendStreams ==
    ASSUME NEW s \in States, NEW cl, NEW k, Streams(s, cl, k), NEW c \in Conns,
           NEW m \in Messages, NEW n \in SendResults(s, c), m.n <= k, After(s, c, m),
           \A l \in Loops, i \in Nat, p \in Messages :
               (Waits(s, l, i, c, p) /\ p.by = m.by) => m.n < p.n,
           \A j \in Clients, p \in Messages :
               (cl[j] # Idle /\ cl[j].functor = SendOf(c, p) /\ j = m.by) => m.n < p.n
    PROVE  Streams(SendInLoop(s, c, m, n), cl, k)
<1>0. MsgLen \in Nat \ {0}
  BY TcpServerAssumption
<1>1. n = Killed \/ n = -1 \/ (n \in 0 .. MsgLen /\ (n # 0 => s.conn[c].out = <<>>))
  <2>1. CASE n = 0
    BY <1>0, <2>1
  <2>2. CASE n # 0
    <3>1. WritesAtOnce(s, c) /\ (n \in WriteResults(s, c, MsgLen) \/ n = -1)
      BY <2>2 DEF SendResults
    <3> QED
      BY <1>0, <3>1, WriteRange DEF WritesAtOnce
  <2> QED
    BY <2>1, <2>2
<1>2. CASE s.conn[c].stat = "KDISCONNECTED"
  BY <1>2 DEF SendInLoop
<1>3. CASE s.conn[c].stat # "KDISCONNECTED" /\ (n = Killed \/ n = -1)
  <2> DEFINE w == IF n = Killed THEN "SIGPIPE" ELSE "TcpConnection.cc:213"
  <2>1. SendInLoop(s, c, m, n) = Fail(s, w)
    BY <1>3 DEF SendInLoop, Killed
  <2> HIDE DEF w
  <2>2. SameData(s, Fail(s, w))
    BY QuietHandlers, Zenon
  <2>3. Streams(Fail(s, w), cl, k)
    BY <2>2, StreamsSameData, Zenon
  <2> QED
    BY <2>1, <2>3, Zenon
<1>4. CASE /\ s.conn[c].stat # "KDISCONNECTED" /\ n \in 0 .. MsgLen
           /\ n # 0 => s.conn[c].out = <<>>
  <2> DEFINE out == s.conn[c].out
             wire == s.conn[c].wire
             w == Units(m)
             sent == SubSeq(w, 1, n)
             kept == SubSeq(w, n + 1, MsgLen)
             q == [s.conn[c] EXCEPT !.wire = @ \o sent, !.out = @ \o kept]
             t == SetConn(s, c, q)
             u == SetChan(t, c, EnableWrite(t.chan[c]))
  <2>1. wire \in Seq(Messages) /\ out \in Seq(Messages)
        /\ w \in Seq(Messages) /\ Len(w) = MsgLen
    BY <1>4, StreamTyped, UnitsSplit
  <2>2. n >= 0 /\ n # Killed /\ n # -1
    BY <1>0, <1>4 DEF Killed
  <2>3. SendInLoop(s, c, m, n) = IF n < MsgLen /\ ~IsWriting(t.chan[c]) THEN u ELSE t
    BY <1>4, <2>2, Zenon DEF SendInLoop
  <2> HIDE DEF w
  <2>4. sent \in Seq(Messages) /\ kept \in Seq(Messages) /\ sent \o kept = w
    BY <1>4, <2>1, Parts
  <2>5. n = 0 => sent = <<>>
    BY SubSeqEmpty
  <2> HIDE DEF sent, kept
  <2>6. wire \o sent \in Seq(Messages) /\ out \o kept \in Seq(Messages)
    BY <2>1, <2>4
  <2>7. q \in ConnRecord /\ q.out = out \o kept /\ q.wire = wire \o sent
    <3>1. s.conn[c] \in ConnRecord
      BY DEF States
    <3> QED
      BY <2>6, <3>1 DEF ConnRecord
  <2> HIDE DEF q
  <2>8. /\ t \in States /\ t.conn[c] = q /\ t.loop = s.loop
        /\ \A d \in Conns \ {c} : t.conn[d] = s.conn[d]
    BY <2>7, ConnFields
  <2>9. (wire \o sent) \o (out \o kept) = (wire \o out) \o w
    <3>1. CASE n = 0
      <4>1. wire \o sent = wire /\ kept = w
        BY <2>1, <2>4, <2>5, <3>1
      <4>2. (wire \o out) \o w = wire \o (out \o w)
        BY <2>1, Assoc, Zenon
      <4> QED
        BY <4>1, <4>2
    <3>2. CASE n # 0
      <4>1. out = <<>>
        BY <1>4, <3>2
      <4>2. out \o kept = kept /\ wire \o out = wire
        BY <2>1, <2>4, <4>1
      <4>3. (wire \o sent) \o kept = wire \o (sent \o kept)
        <5>1. wire \in Seq(Messages) /\ sent \in Seq(Messages) /\ kept \in Seq(Messages)
          BY <2>1, <2>4
        <5> HIDE DEF wire
        <5> QED
          BY <5>1, Assoc, Zenon
      <4> QED
        BY <2>4, <4>2, <4>3
    <3> QED
      BY <3>1, <3>2
  <2> HIDE DEF t
  <2>10. Stream(t, c) = Stream(s, c) \o Units(m)
    BY <2>7, <2>8, <2>9 DEF Stream, w
  <2>11. /\ \A d \in Conns \ {c} : Stream(t, d) = Stream(s, d)
         /\ \A l \in Loops : Work(t, l) = Work(s, l)
    BY <2>8 DEF Stream, Work
  <2>12. Streams(t, cl, k)
    BY <2>10, <2>11, StreamsSent
  <2>13. Streams(u, cl, k)
    BY <2>8, <2>12, QuietHandlers, StreamsSameData
  <2> HIDE DEF u
  <2> QED
    BY <2>3, <2>12, <2>13
<1> QED
  BY <1>1, <1>2, <1>3, <1>4

-------------------------------------------------------------------------------
(* Steps and streams.                                                      *)

StreamInv == Streams(State, client, sends)

LEMMA StreamsBecome ==
    ASSUME NEW t, Becomes(t), Streams(t, client', sends') PROVE StreamInv'
<1>1. SameData(t, State')
  BY DEF SameData, Becomes, State
<1> QED
  BY <1>1, StreamsSameData DEF StreamInv

(* A step that leaves the connections and the order of the functors.       *)
LEMMA StreamsStay ==
    ASSUME StreamInv, UNCHANGED <<conn, client, sends>>,
           \A l \in Loops : loop'[l].batch \o loop'[l].queue = loop[l].batch \o loop[l].queue
    PROVE  StreamInv'
<1>1. /\ \A c \in Conns : /\ State'.conn[c].wire = State.conn[c].wire
                          /\ State'.conn[c].out = State.conn[c].out
      /\ \A l \in Loops : Work(State', l) = Work(State, l)
  BY DEF State, Work
<1> QED
  BY <1>1, StreamsSame DEF StreamInv

(* A channel is taken from the active ones.                                *)
LEMMA ActiveStreams ==
    ASSUME NEW s \in States, NEW cl, NEW n, Streams(s, cl, n), NEW l \in Loops,
           NEW a, a \subseteq s.loop[l].active, NEW t, t = SetActive(s, l, a)
    PROVE  t \in States /\ Streams(t, cl, n)
<1>1. s.loop \in [Loops -> LoopRecord] /\ s.loop[l] \in LoopRecord
  BY DEF States
<1> DEFINE r == [s.loop[l] EXCEPT !.active = a]
<1>2. r \in LoopRecord /\ r.batch = s.loop[l].batch /\ r.queue = s.loop[l].queue
  BY <1>1 DEF LoopRecord
<1>3. t = [s EXCEPT !.loop = [s.loop EXCEPT ![l] = r]]
  BY DEF SetActive
<1> HIDE DEF r
<1>4. t \in States /\ t.conn = s.conn /\ t.loop = [s.loop EXCEPT ![l] = r]
  BY <1>1, <1>2, <1>3 DEF States
<1>5. \A x \in Loops : Work(t, x) = Work(s, x)
  BY <1>1, <1>2, <1>4 DEF Work
<1> QED
  BY <1>4, <1>5, StreamsSame

LEMMA LoopStreams ==
    ASSUME IInv, StreamInv, NEW l \in Loops, Poll(l) \/ SwapFunctors(l) \/ EndIteration(l)
    PROVE  StreamInv'
<1>1. /\ Ready(State, server, ending, client) /\ State \in States
      /\ State.loop = loop
  BY ReadyNow DEF Poll, SwapFunctors, EndIteration
<1>2. loop \in [Loops -> LoopRecord] /\ loop[l] \in LoopRecord
  BY <1>1 DEF States
<1>3. /\ \A x \in Loops \ {l} : loop'[x] = loop[x]
      /\ UNCHANGED <<conn, client, sends>>
  BY <1>2 DEF Poll, SwapFunctors, EndIteration
<1>4. loop'[l].batch \o loop'[l].queue = loop[l].batch \o loop[l].queue
  <2>1. CASE Poll(l) \/ EndIteration(l)
    <3>1. loop'[l].batch = loop[l].batch /\ loop'[l].queue = loop[l].queue
      BY <1>2, <2>1 DEF Poll, EndIteration, LoopRecord
    <3> QED
      BY <3>1
  <2>2. CASE SwapFunctors(l)
    <3>1. loop'[l].batch = loop[l].queue /\ loop'[l].queue = <<>>
      BY <1>2, <2>2 DEF SwapFunctors, LoopRecord
    <3>2. loop[l].batch = <<>> /\ loop[l].queue \in Seq(Functors)
      BY <1>1, <1>2, <2>2 DEF SwapFunctors, Ready, Good, LoopInv, LoopRecord
    <3>3. \A q \in Seq(Functors) : q \o <<>> = <<>> \o q
      OBVIOUS
    <3> QED
      BY <3>1, <3>2, <3>3, Zenon
  <2> QED
    BY <2>1, <2>2
<1> QED
  BY <1>3, <1>4, StreamsStay

LEMMA HandleEventStreams ==
    ASSUME IInv, StreamInv, NEW l \in Loops, NEW p \in loop[l].active,
           HandleEvent(l, p[1], p[2])
    PROVE  StreamInv'
<1>1. PICK s : s = State
  OBVIOUS
<1> DEFINE e == p[2]
           c == p[1]
           a == s.loop[l].active \ {<<c, e>>}
           u == SetActive(s, l, a)
<1>2. /\ Alive /\ c # Listen /\ <<c, e>> \in loop[l].active
      /\ \/ "err" \in e /\ Becomes([u EXCEPT !.sock[c].err = FALSE])
         \/ "err" \notin e /\ "in" \in e /\ Becomes(HandleRead(u, l, c))
         \/ e = {"out"} /\ \E n \in WriteResults(u, c, Len(u.conn[c].out)) \cup
                                    (IF IsWriting(u.chan[c]) THEN {} ELSE {0}) :
                               Becomes(HandleWrite(u, c, n))
      /\ UNCHANGED <<server, ending, isListen, client, delayed, sends, calls>>
  BY <1>1, Zenon DEF HandleEvent, SetActive
<1>3. s \in States /\ Ready(s, server, ending, client) /\ s.loop = loop
  BY <1>1, <1>2, ReadyNow
<1>4. c \in Conns
  BY <1>2, <1>3 DEF States, LoopRecord
<1>5. a \subseteq s.loop[l].active /\ client' = client /\ sends' = sends
  BY <1>2
<1> HIDE DEF a, c, e
<1>6. u \in States /\ Streams(u, client', sends')
  BY <1>1, <1>3, <1>5, ActiveStreams DEF StreamInv
<1> HIDE DEF u
<1>7. CASE Becomes([u EXCEPT !.sock[c].err = FALSE])
  <2> DEFINE t == [u EXCEPT !.sock[c].err = FALSE]
  <2>1. SameData(u, t)
    BY <1>6 DEF SameData, States
  <2>2. Becomes(t)
    BY <1>7
  <2> HIDE DEF t
  <2> QED
    BY <1>6, <2>1, <2>2, StreamsSameData, StreamsBecome
<1>8. CASE Becomes(HandleRead(u, l, c))
  BY <1>4, <1>6, <1>8, ReadStreams, StreamsBecome
<1>9. CASE \E n \in WriteResults(u, c, Len(u.conn[c].out)) \cup
                     (IF IsWriting(u.chan[c]) THEN {} ELSE {0}) :
                Becomes(HandleWrite(u, c, n))
  <2>1. PICK n \in WriteResults(u, c, Len(u.conn[c].out)) \cup
                     (IF IsWriting(u.chan[c]) THEN {} ELSE {0}) :
                Becomes(HandleWrite(u, c, n))
    BY <1>9
  <2>2. Streams(HandleWrite(u, c, n), client', sends')
    BY <1>4, <1>6, WriteStreams
  <2> QED
    BY <2>1, <2>2, StreamsBecome
<1> QED
  BY <1>2, <1>7, <1>8, <1>9

LEMMA AcceptStreams ==
    ASSUME IInv, StreamInv, NEW c \in Conns, AcceptorHandleRead(c) PROVE StreamInv'
<1>1. PICK s : s = State
  OBVIOUS
<1> DEFINE a == {p \in s.loop[Base].active : p[1] # Listen}
           u == SetActive(s, Base, a)
<1>2. (IF IoLoops = {} THEN {Base} ELSE IoLoops) \subseteq Loops /\ Base \in Loops
  BY DEF Loops
<1>3. /\ Alive
      /\ \/ \E l \in (IF IoLoops = {} THEN {Base} ELSE IoLoops), reading \in BOOLEAN :
                Becomes(NewConnection(u, c, l, reading))
         \/ Becomes([u EXCEPT !.sock[c].where = "closed"])
      /\ UNCHANGED <<server, ending, isListen, client, delayed, sends, calls>>
  BY <1>1, Zenon DEF AcceptorHandleRead, SetActive
<1>4. s \in States /\ Ready(s, server, ending, client)
  BY <1>1, <1>3, ReadyNow
<1>5. a \subseteq s.loop[Base].active /\ client' = client /\ sends' = sends
  BY <1>3
<1> HIDE DEF a
<1>6. u \in States /\ Streams(u, client', sends')
  BY <1>1, <1>2, <1>4, <1>5, ActiveStreams DEF StreamInv
<1> HIDE DEF u
<1>7. ASSUME NEW l \in Loops, NEW reading \in BOOLEAN, Becomes(NewConnection(u, c, l, reading))
      PROVE  StreamInv'
  BY <1>6, <1>7, NewStreams, StreamsBecome
<1>8. CASE Becomes([u EXCEPT !.sock[c].where = "closed"])
  <2> DEFINE t == [u EXCEPT !.sock[c].where = "closed"]
  <2>1. SameData(u, t)
    BY <1>6 DEF SameData, States
  <2>2. Becomes(t)
    BY <1>8
  <2> HIDE DEF t
  <2> QED
    BY <1>6, <2>1, <2>2, StreamsSameData, StreamsBecome
<1> QED
  BY <1>2, <1>3, <1>7, <1>8, Zenon

(* The send at the head of a loop's batch is the next of its thread for    *)
(* its connection: what else waits for that connection is on the same      *)
(* loop, behind it.                                                        *)
LEMMA HeadSend ==
    ASSUME NEW s, NEW sv, NEW en, NEW cl, Ready(s, sv, en, cl), NEW n, Streams(s, cl, n),
           NEW l \in Loops, s.loop[l].batch # <<>>, NEW c \in Conns, NEW m \in Messages,
           Head(s.loop[l].batch) = SendOf(c, m), NEW t, t = TakeHead(s, l)
    PROVE  /\ m.n <= n /\ After(t, c, m)
           /\ \A x \in Loops, i \in Nat, p \in Messages :
                  (Waits(t, x, i, c, p) /\ p.by = m.by) => m.n < p.n
           /\ \A k \in Clients, p \in Messages :
                  (cl[k] # Idle /\ cl[k].functor = SendOf(c, p) /\ k = m.by) => m.n < p.n
<1>1. s \in States /\ FunctorsOf(s, sv, en, c)
  BY ReadyConn DEF ConnInv, LifeOf
<1>2. t \in States /\ t.conn = s.conn /\ t.loop = Taken(s.loop, l)
  BY <1>1, TakeFields
<1>3. Waits(s, l, 1, c, m)
  <2>1. Work(s, l) # <<>> /\ Head(Work(s, l)) = SendOf(c, m) /\ Work(s, l) \in Seq(Functors)
    BY <1>1, <1>2, WorkTaken, WorkTyped
  <2>2. 1 \in 1 .. Len(Work(s, l)) /\ Work(s, l)[1] = Head(Work(s, l))
    BY <2>1
  <2> QED
    BY <2>1, <2>2 DEF Waits
<1>4. m.n <= n /\ After(s, c, m)
  BY <1>3 DEF Streams, WaitingInv
<1>5. After(t, c, m)
  BY <1>2, <1>4 DEF After, Stream
<1>6. \A x \in Loops, i \in Nat, p \in Messages : Waits(s, x, i, c, p) => s.conn[c].loop = x
  <2>1. \A x \in Loops, i \in Nat, p \in Messages :
            Waits(s, x, i, c, p) => At(s, x, i, "send", c)
    BY DEF Waits, At, SendOf
  <2>2. "send" \in UserOps
    BY DEF UserOps
  <2> QED
    BY <1>1, <2>1, <2>2 DEF FunctorsOf
<1>7. ASSUME NEW x \in Loops, NEW i \in Nat, NEW p \in Messages,
             Waits(t, x, i, c, p), p.by = m.by
      PROVE  m.n < p.n
  <2>1. Waits(s, x, IF x = l THEN i + 1 ELSE i, c, p) /\ i > 0
    BY <1>1, <1>2, <1>7, WaitsTaken
  <2>2. (IF x = l THEN i + 1 ELSE i) \in Nat
    OBVIOUS
  <2>3. x = l
    BY <1>3, <1>6, <2>1, <2>2
  <2>4. Waits(s, l, i + 1, c, p) /\ i + 1 \in Nat /\ 1 < i + 1 /\ 1 \in Nat
    BY <2>1, <2>3
  <2> QED
    BY <1>3, <1>7, <2>4 DEF Streams, WaitingInv
<1>8. ASSUME NEW k \in Clients, NEW p \in Messages,
             cl[k] # Idle, cl[k].functor = SendOf(c, p), k = m.by
      PROVE  m.n < p.n
  BY <1>3, <1>8 DEF Streams, CallingInv, Calling
<1> QED
  BY <1>4, <1>5, <1>7, <1>8

LEMMA RunFunctorStreams ==
    ASSUME IInv, StreamInv, NEW l \in Loops, RunFunctor(l) PROVE StreamInv'
<1>1. PICK s : s = State
  OBVIOUS
<1> DEFINE f == Head(loop[l].batch)
           c == f.conn
           u == TakeHead(s, l)
<1>2. /\ Alive
      /\ loop[l].batch # <<>>
      /\ \/ f.op = "established" /\ Becomes(ConnectionEstablished(u, c))
         \/ f.op = "destory" /\ Becomes(ConnectionDestory(u, c))
         \/ f.op = "remove" /\ Becomes(RemoveConnectionInLoop(u, c))
         \/ f.op = "forceClose" /\ Becomes(ForceCloseInLoop(u, l, c))
         \/ f.op = "shutDown" /\ Becomes(ShutdownInLoop(u, c))
         \/ f.op = "startRead" /\ Becomes(StartReadInLoop(u, c))
         \/ f.op = "stopRead" /\ Becomes(StopReadInLoop(u, c))
         \/ f.op = "forceCloseWithDelay" /\ Becomes(u)
         \/ f.op = "send" /\ \E n \in SendResults(u, c) : Becomes(SendInLoop(u, c, f.msg, n))
      /\ UNCHANGED <<server, ending, isListen, client, sends, calls>>
  BY <1>1, Zenon DEF RunFunctor, TakeHead
<1>3. Ready(s, server, ending, client) /\ s \in States /\ s.loop = loop
  BY <1>1, <1>2, ReadyNow
<1>4. s.loop[l].batch # <<>> /\ f = Head(s.loop[l].batch)
  BY <1>2, <1>3
<1>5. f \in Functors /\ c \in Conns
  BY <1>3, <1>4, AtHead, FunctorFields
<1>6. u = TakeHead(s, l) /\ client' = client /\ sends' = sends
  BY <1>2
<1>7. u \in States /\ Streams(u, client', sends') /\ Streams(s, client, sends)
  BY <1>1, <1>3, <1>4, <1>6, StreamsTaken DEF StreamInv
<1> HIDE DEF f, u, c
<1>8. CASE \/ Becomes(ConnectionEstablished(u, c)) \/ Becomes(ConnectionDestory(u, c))
           \/ Becomes(ShutdownInLoop(u, c)) \/ Becomes(StartReadInLoop(u, c))
           \/ Becomes(StopReadInLoop(u, c))
  BY <1>5, <1>7, <1>8, QuietHandlers, StreamsSameData, StreamsBecome
<1>9. CASE Becomes(RemoveConnectionInLoop(u, c))
  BY <1>5, <1>7, <1>9, RemoveStreams, StreamsBecome
<1>10. CASE Becomes(ForceCloseInLoop(u, l, c)) \/ Becomes(u)
  BY <1>5, <1>7, <1>10, CloseStreams, StreamsBecome DEF ForceCloseInLoop
<1>11. CASE f.op = "send" /\ \E n \in SendResults(u, c) : Becomes(SendInLoop(u, c, f.msg, n))
  <2>1. PICK n \in SendResults(u, c) : Becomes(SendInLoop(u, c, f.msg, n))
    BY <1>11
  <2>2. f.msg \in Messages
    BY <1>5, <1>11 DEF Functors, CallOps
  <2> DEFINE m == f.msg
  <2>3. f = SendOf(c, m)
    BY <1>5, <1>11 DEF Functors, CallOps, SendOf, c
  <2> HIDE DEF m
  <2>4. /\ m.n <= sends' /\ After(u, c, m)
        /\ \A x \in Loops, i \in Nat, p \in Messages :
               (Waits(u, x, i, c, p) /\ p.by = m.by) => m.n < p.n
        /\ \A k \in Clients, p \in Messages :
               (client'[k] # Idle /\ client'[k].functor = SendOf(c, p) /\ k = m.by) => m.n < p.n
    <3>1. Head(s.loop[l].batch) = SendOf(c, m) /\ m \in Messages
      BY <1>4, <2>2, <2>3 DEF m
    <3> QED
      BY <1>3, <1>4, <1>5, <1>6, <1>7, <3>1, HeadSend
  <2>5. Streams(SendInLoop(u, c, m, n), client', sends')
    BY <1>5, <1>7, <2>2, <2>4, SendStreams DEF m
  <2> QED
    BY <2>1, <2>5, StreamsBecome DEF m
<1> QED
  BY <1>2, <1>8, <1>9, <1>10, <1>11

LEMMA LoopSendStreams ==
    ASSUME IInv, StreamInv, NEW l \in Loops, NEW c \in Conns, LoopSend(l, c)
    PROVE  StreamInv'
<1>1. PICK s : s = State
  OBVIOUS
<1>2. Ready(s, server, ending, client) /\ s \in States
  BY <1>1, ReadyNow DEF LoopSend
<1> DEFINE m == [by |-> l, n |-> sends + 1]
<1>3. sends \in Nat /\ sends + 1 \in 1 .. MaxSends
  BY TcpServerAssumption DEF IInv, TypedRest, LoopSend
<1>4. m \in Messages /\ m.by = l /\ m.n = sends + 1 /\ m.n <= sends + 1
  BY <1>3 DEF Messages
<1>5. PICK n \in SendResults(s, c) : Becomes(SendInLoop(s, c, m, n))
  BY <1>1 DEF LoopSend
<1>6. client' = client /\ sends' = sends + 1
  BY DEF LoopSend
<1> HIDE DEF m
<1>7. Streams(s, client, sends)
  BY <1>1 DEF StreamInv
<1>8. Streams(s, client', sends') /\ After(s, c, m)
  BY <1>2, <1>3, <1>4, <1>6, <1>7, StreamsCount
<1>9. l \notin Clients
  BY TcpServerAssumption DEF Loops
<1>10. \A x \in Loops, i \in Nat, p \in Messages :
           (Waits(s, x, i, c, p) /\ p.by = m.by) => m.n < p.n
  BY <1>4, <1>7, <1>9 DEF Streams, WaitingInv
<1>11. \A k \in Clients : k # m.by
  BY <1>4, <1>9
<1>12. Streams(SendInLoop(s, c, m, n), client', sends')
  BY <1>2, <1>4, <1>6, <1>8, <1>10, <1>11, SendStreams
<1> QED
  BY <1>5, <1>12, StreamsBecome

LEMMA CallStreams ==
    ASSUME IInv, StreamInv, NEW c \in Conns,
           DelayedClose(c) \/ \E l \in Loops, op \in CallOps : LoopCall(l, c, op)
    PROVE  StreamInv'
<1>1. PICK s : s = State
  OBVIOUS
<1>2. s \in States /\ Streams(s, client', sends')
  BY <1>1, ReadyNow DEF DelayedClose, LoopCall, StreamInv
<1>3. \/ Becomes(ForceClose(s, c)) \/ Becomes(ShutDown(s, c)) \/ Becomes(StartReadInLoop(s, c))
      \/ Becomes(StopReadInLoop(s, c)) \/ Becomes(SetStat(s, c, "KDISCONNECTING"))
  BY <1>1 DEF DelayedClose, LoopCall
<1>4. Streams(ForceClose(s, c), client', sends')
  BY <1>2, ForceCloseStreams
<1>5. /\ Streams(ShutDown(s, c), client', sends')
      /\ Streams(StartReadInLoop(s, c), client', sends')
      /\ Streams(StopReadInLoop(s, c), client', sends')
      /\ Streams(SetStat(s, c, "KDISCONNECTING"), client', sends')
  BY <1>2, QuietHandlers, StreamsSameData DEF Stats
<1> QED
  BY <1>3, <1>4, <1>5, StreamsBecome

LEMMA ClientBeginsStreams ==
    ASSUME IInv, StreamInv, NEW k \in Clients, NEW c \in Conns,
           ClientSend(k, c) \/ \E op \in CallOps : ClientCall(k, c, op)
    PROVE  StreamInv'
<1>1. PICK s : s = State
  OBVIOUS
<1>2. /\ s \in States /\ client \in ClientStates /\ Streams(s, client, sends)
      /\ sends \in Nat /\ \A j \in Clients \ {k} : client'[j] = client[j]
  BY <1>1, ReadyNow, TcpServerAssumption
     DEF ClientSend, ClientCall, Ready, StreamInv, IInv, TypedRest, ClientStates
<1>3. Becomes(s)
  BY <1>1, StateBecomes DEF ClientSend, ClientCall
<1>4. CASE ClientSend(k, c)
  <2> DEFINE m == [by |-> k, n |-> sends + 1]
  <2>1. sends + 1 \in 1 .. MaxSends /\ sends' = sends + 1
    BY <1>4, TcpServerAssumption DEF IInv, TypedRest, ClientSend
  <2>2. m \in Messages /\ m.by = k /\ m.n = sends + 1 /\ m.n <= sends + 1
    BY <1>2, <2>1 DEF Messages
  <2>3. client'[k].functor = SendOf(c, m)
    BY <1>2, <1>4 DEF ClientSend, ClientStates, SendOf
  <2> HIDE DEF m
  <2>4. /\ Streams(s, client, sends') /\ After(s, c, m)
        /\ \A l \in Loops, i \in Nat, d \in Conns, p \in Messages :
               Waits(s, l, i, d, p) => p.n < m.n
    BY <1>2, <2>1, <2>2, StreamsCount
  <2>5. \A d \in Conns, p \in Messages : SendOf(c, m) = SendOf(d, p) => d = c /\ p = m
    BY DEF SendOf
  <2>6. \A d \in Conns, p \in Messages :
            client'[k].functor = SendOf(d, p) => Calling(s, k, d, p, sends')
    BY <2>1, <2>2, <2>3, <2>4, <2>5 DEF Calling
  <2> QED
    BY <1>2, <1>3, <2>4, <2>6, StreamsCalling, StreamsBecome
<1>5. CASE \E op \in CallOps : ClientCall(k, c, op)
  <2>1. client'[k].functor.op \in CallOps /\ sends' = sends
    BY <1>2, <1>5 DEF ClientCall, ClientStates
  <2>2. \A d \in Conns, p \in Messages : client'[k].functor # SendOf(d, p)
    BY <2>1 DEF CallOps, SendOf
  <2> QED
    BY <1>2, <1>3, <2>1, <2>2, StreamsCalling, StreamsBecome
<1> QED
  BY <1>4, <1>5

LEMMA ClientSetStreams ==
    ASSUME IInv, StreamInv, NEW k \in Clients, ClientSet(k) PROVE StreamInv'
<1>1. PICK s : s = State
  OBVIOUS
<1>2. s \in States /\ client \in ClientStates /\ Streams(s, client, sends) /\ s.conn = conn
  BY <1>1, ReadyNow DEF ClientSet, Ready, StreamInv
<1>3. client[k] # Idle
  BY DEF ClientSet, Idle
<1>4. PICK r \in [op : {"set", "queue"}, functor : Functors] : r = client[k]
  BY <1>2, <1>3 DEF ClientStates
<1>5. PICK c \in Conns : c = r.functor.conn
  BY <1>4, FunctorFields
<1> DEFINE q == [conn[c] EXCEPT !.stat = "KDISCONNECTING",
                                !.revived = @ \/ conn[c].stat = "KDISCONNECTED"]
           t == SetConn(s, c, q)
<1>6. Becomes(t)
  BY <1>1, <1>4, <1>5 DEF ClientSet
<1>7. conn[c] \in ConnRecord
  BY <1>2 DEF States
<1>8. q \in ConnRecord /\ q.wire = conn[c].wire /\ q.out = conn[c].out
  BY <1>7 DEF ConnRecord, Stats
<1> HIDE DEF q
<1>9. SameData(s, t)
  BY <1>2, <1>8, ConnFields DEF SameData
<1> HIDE DEF t
<1>10. Streams(t, client, sends)
  BY <1>2, <1>9, StreamsSameData
<1>11. /\ \A j \in Clients \ {k} : client'[j] = client[j]
       /\ client'[k].functor = r.functor /\ sends' = sends
  BY <1>2, <1>4 DEF ClientSet, ClientStates
<1>12. \A d \in Conns, p \in Messages :
           client'[k].functor = SendOf(d, p) => Calling(t, k, d, p, sends')
  BY <1>3, <1>4, <1>10, <1>11 DEF Streams, CallingInv
<1>13. Streams(t, client', sends')
  BY <1>10, <1>11, <1>12, StreamsCalling
<1> QED
  BY <1>6, <1>13, StreamsBecome

LEMMA ClientQueueStreams ==
    ASSUME IInv, StreamInv, NEW k \in Clients, ClientQueue(k) PROVE StreamInv'
<1>1. PICK s : s = State
  OBVIOUS
<1>2. /\ s \in States /\ client \in ClientStates /\ Streams(s, client, sends)
      /\ s.abort = abort /\ s.connections = connections /\ s.conn = conn
      /\ s.chan = chan /\ s.loop = loop /\ s.sock = sock
  BY <1>1, ReadyNow DEF ClientQueue, Ready, StreamInv
<1>3. client[k] # Idle
  BY DEF ClientQueue, Idle
<1>4. PICK f \in Functors : f = client[k].functor
  BY <1>2, <1>3 DEF ClientStates
<1>5. f.conn \in Conns
  BY FunctorFields
<1> DEFINE l == s.conn[f.conn].loop
           t == QueueInLoop(s, l, f)
<1>6. l \in Loops
  BY <1>2, <1>5 DEF States, ConnRecord
<1>7. loop' = t.loop
  BY <1>1, <1>2, <1>4 DEF ClientQueue
<1> HIDE DEF l
<1>8. /\ t.abort = abort /\ t.connections = connections /\ t.conn = conn
      /\ t.chan = chan /\ t.sock = sock
  BY <1>2, <1>6, QueueFields
<1>9. t = QueueInLoop(s, l, f)
  OBVIOUS
<1> HIDE DEF t
<1>10. Becomes(t)
  BY <1>7, <1>8 DEF Becomes, ClientQueue
<1>11. /\ client'[k] = Idle /\ sends' = sends
       /\ \A j \in Clients \ {k} : client'[j] = client[j]
  BY <1>2 DEF ClientStates, ClientQueue
<1>12. CASE f.op = "send"
  <2>1. PICK m \in Messages : f = SendOf(f.conn, m)
    BY <1>12 DEF Functors, CallOps, SendOf
  <2>2. Streams(t, client', sends')
    BY <1>2, <1>3, <1>4, <1>5, <1>6, <1>9, <1>11, <2>1, StreamsHanded
  <2> QED
    BY <1>10, <2>2, StreamsBecome
<1>13. CASE f.op # "send"
  <2>1. Streams(t, client, sends)
    BY <1>2, <1>6, <1>9, <1>13, StreamsQueued
  <2>2. Streams(t, client', sends')
    BY <1>11, <2>1, StreamsCalling
  <2> QED
    BY <1>10, <2>2, StreamsBecome
<1> QED
  BY <1>12, <1>13

LEMMA ServerStreams ==
    ASSUME IInv, StreamInv,
           Start \/ Destroy \/ EndAcceptor \/ \E c \in Conns : PeerStep(c) \/ EndConnection(c)
    PROVE  StreamInv'
<1>1. PICK s : s = State
  OBVIOUS
<1>2. s \in States /\ Streams(s, client, sends) /\ s.conn = conn
  BY <1>1, ReadyNow DEF Start, Destroy, EndAcceptor, PeerStep, EndConnection, StreamInv
<1>3. CASE Start \/ Destroy \/ \E c \in Conns : PeerStep(c)
  <2>1. UNCHANGED <<conn, loop, client, sends>>
    BY <1>3 DEF Start, Destroy, PeerStep
  <2> QED
    BY <2>1, StreamsStay
<1>4. CASE EndAcceptor
  <2> DEFINE t == SetChan(s, Listen, Remove(DisableAll(chan[Listen])))
  <2>1. Becomes(t) /\ client' = client /\ sends' = sends
    BY <1>1, <1>4 DEF EndAcceptor
  <2>2. SameData(s, t)
    BY <1>2 DEF SameData, SetChan, States
  <2> HIDE DEF t
  <2> QED
    BY <1>2, <2>1, <2>2, StreamsSameData, StreamsBecome
<1>5. ASSUME NEW c \in Conns, EndConnection(c) PROVE StreamInv'
  <2> DEFINE f == [op |-> "destory", conn |-> c]
             t == QueueInLoop(s, conn[c].loop, f)
  <2>1. /\ Becomes(ConnectionDestory(s, c)) \/ Becomes(t)
        /\ client' = client /\ sends' = sends
    BY <1>1, <1>5 DEF EndConnection
  <2>2. conn[c].loop \in Loops /\ f \in Functors /\ f.op # "send"
    BY <1>2 DEF States, ConnRecord, Functors
  <2> HIDE DEF f
  <2>3. Streams(t, client, sends)
    BY <1>2, <2>2, StreamsQueued
  <2>4. Streams(ConnectionDestory(s, c), client, sends)
    BY <1>2, QuietHandlers, StreamsSameData
  <2> HIDE DEF t
  <2> QED
    BY <2>1, <2>3, <2>4, StreamsBecome
<1> QED
  BY <1>3, <1>4, <1>5

LEMMA InitStreams ==
    ASSUME Init PROVE StreamInv
<1>1. \A c \in Conns : Stream(State, c) = <<>>
  BY DEF Init, State, Stream
<1>2. \A l \in Loops : Work(State, l) = <<>>
  BY DEF Init, State, Work
<1>3. \A k \in Clients : client[k] = Idle
  BY DEF Init
<1>4. 0 % MsgLen = 0
  BY TcpServerAssumption
<1>5. GivenInv(State, sends)
  BY <1>1, <1>4 DEF GivenInv, StreamOK
<1>6. \A l \in Loops, i \in Nat, c \in Conns, m \in Messages : ~Waits(State, l, i, c, m)
  BY <1>2 DEF Waits
<1> QED
  BY <1>3, <1>5, <1>6 DEF StreamInv, Streams, WaitingInv, CallingInv

LEMMA NextStreams ==
    ASSUME IInv, StreamInv, [Next]_vars PROVE StreamInv'
<1>1. ASSUME NEW l \in Loops, Poll(l) \/ SwapFunctors(l) \/ RunFunctor(l) \/ EndIteration(l)
      PROVE  StreamInv'
  BY <1>1, LoopStreams, RunFunctorStreams
<1>2. ASSUME NEW l \in Loops, NEW p \in loop[l].active, HandleEvent(l, p[1], p[2])
      PROVE  StreamInv'
  BY <1>2, HandleEventStreams
<1>3. ASSUME NEW c \in Conns, AcceptorHandleRead(c) \/ DelayedClose(c) \/ PeerStep(c)
      PROVE  StreamInv'
  BY <1>3, AcceptStreams, CallStreams, ServerStreams
<1>4. ASSUME NEW l \in Loops, NEW c \in Conns,
             LoopSend(l, c) \/ \E op \in CallOps : LoopCall(l, c, op)
      PROVE  StreamInv'
  BY <1>4, LoopSendStreams, CallStreams
<1>5. ASSUME NEW k \in Clients, NEW c \in Conns,
             ClientSend(k, c) \/ \E op \in CallOps : ClientCall(k, c, op)
      PROVE  StreamInv'
  BY <1>5, ClientBeginsStreams
<1>6. ASSUME NEW k \in Clients, ClientSet(k) \/ ClientQueue(k) PROVE StreamInv'
  BY <1>6, ClientSetStreams, ClientQueueStreams
<1>7. ASSUME Start \/ Destroy \/ EndAcceptor \/ \E c \in Conns : EndConnection(c)
      PROVE  StreamInv'
  BY <1>7, ServerStreams
<1>8. ASSUME UNCHANGED vars PROVE StreamInv'
  BY <1>8, StreamsStay DEF vars
<1> QED
  BY <1>1, <1>2, <1>3, <1>4, <1>5, <1>6, <1>7, <1>8 DEF Next

-------------------------------------------------------------------------------
(* What holds of the server, its connections and its loops.                *)

(* The state has its types, and the kernel watches exactly what every      *)
(* channel asks for, after any sequence of calls, events and functors.     *)
THEOREM PollerStaysConsistent == Spec => []PollerConsistent
<1>1. IInv => PollerConsistent
  <2> SUFFICES ASSUME IInv PROVE PollerConsistent
    OBVIOUS
  <2>1. State \in States /\ PollerOK(State) /\ TypedRest
    BY DEF IInv, Result
  <2>2. TypeOK
    BY <2>1 DEF State, States, TypedRest, TypeOK, ClientStates
  <2>3. State.chan = chan
    BY DEF State
  <2>4. \A c \in Conns \cup {Listen} : ChanOK(chan[c])
    BY <2>1, <2>3 DEF PollerOK
  <2> QED
    BY <2>2, <2>4 DEF PollerConsistent, ChanOK
<1> QED
  BY <1>1, AlwaysIInv, PTL

(* No path of send(), handleWrite(), startRead() and stopRead(), in any    *)
(* interleaving with closes, leaves buffered output without POLLOUT.       *)
THEOREM OutputStaysWatched == Spec => []OutputWatched
<1>1. IInv => OutputWatched
  <2> SUFFICES ASSUME IInv, Alive, NEW c \in Conns, conn[c].out # <<>>
               PROVE  IsWriting(chan[c])
    BY DEF OutputWatched
  <2>1. Ready(State, server, ending, client) /\ State.conn = conn /\ State.chan = chan
    BY ReadyNow
  <2> QED
    BY <2>1, ReadyConn DEF IsWriting
<1> QED
  BY <1>1, AlwaysIInv, PTL

(* Whatever is written at once, buffered, handed to the loop by another    *)
(* thread or interrupted by closes, what a connection has written and      *)
(* still buffers is a sequence of whole messages, and those of one thread  *)
(* are in the order of its send() calls.                                   *)
THEOREM MessagesStayInOrder == Spec => []StreamInOrder
<1>1. Init => StreamInv
  BY InitStreams
<1>2. IInv /\ StreamInv /\ [Next]_vars => StreamInv'
  BY NextStreams
<1>3. StreamInv => StreamInOrder
  <2> SUFFICES ASSUME StreamInv, NEW c \in Conns PROVE StreamOK(conn[c].wire \o conn[c].out)
    BY DEF StreamInOrder, StreamOK
  <2>1. State.conn = conn
    BY DEF State
  <2> QED
    BY <2>1 DEF StreamInv, Streams, GivenInv, Stream
<1> QED
  BY <1>1, <1>2, <1>3, AlwaysIInv, PTL DEF Spec

(* A closed connection leaves m_connections: its removal is queued in the  *)
(* base loop until it has run, unless the server's destructor has taken    *)
(* the connection over.                                                    *)
THEOREM ClosedConnectionsLeave == Spec => []RemovalUnderWay
<1>1. IInv => RemovalUnderWay
  <2> SUFFICES ASSUME IInv, Alive, NEW c \in connections, conn[c].stat = "KDISCONNECTED"
               PROVE  \/ \E f \in {loop[Base].queue[i] : i \in 1 .. Len(loop[Base].queue)} \cup
                                  {loop[Base].batch[i] : i \in 1 .. Len(loop[Base].batch)} :
                             f = [op |-> "remove", conn |-> c]
                      \/ server = "ending" /\ c \notin ending
    BY DEF RemovalUnderWay
  <2>1. PICK s : s = State
    OBVIOUS
  <2>2. /\ Ready(s, server, ending, client) /\ s \in States
        /\ s.connections = connections /\ s.conn = conn /\ s.loop = loop
    BY <2>1, ReadyNow
  <2>3. c \in Conns
    BY <2>2 DEF States
  <2>4. RemovalOf(s, server, ending, c)
    BY <2>2, <2>3, ReadyConn DEF ConnInv, LifeOf
  <2>5. CASE HandedOver(s, server, ending, c)
    BY <2>5 DEF HandedOver
  <2>6. CASE \E i \in Nat : At(s, Base, i, "remove", c)
    <3>1. PICK i \in Nat : At(s, Base, i, "remove", c)
      BY <2>6
    <3> DEFINE b == loop[Base].batch
               q == loop[Base].queue
    <3>2. b \in Seq(Functors) /\ q \in Seq(Functors)
      BY <2>2 DEF States, LoopRecord, Loops
    <3>3. i \in 1 .. Len(b \o q) /\ (b \o q)[i].op = "remove" /\ (b \o q)[i].conn = c
      BY <2>2, <3>1 DEF At, Work
    <3> HIDE DEF b, q
    <3>4. \A x, y \in Seq(Functors) : \A j \in 1 .. Len(x \o y) :
              \/ \E m \in 1 .. Len(x) : (x \o y)[j] = x[m] /\ x[m] \in Functors
              \/ \E m \in 1 .. Len(y) : (x \o y)[j] = y[m] /\ y[m] \in Functors
      <4> TAKE x, y \in Seq(Functors)
      <4> TAKE j \in 1 .. Len(x \o y)
      <4>0. Len(x) \in Nat /\ Len(y) \in Nat /\ Len(x \o y) = Len(x) + Len(y)
        OBVIOUS
      <4>1. CASE j <= Len(x)
        <5>1. j \in 1 .. Len(x) /\ (x \o y)[j] = x[j] /\ x[j] \in Functors
          BY <4>0, <4>1
        <5> QED
          BY <5>1
      <4>2. CASE j > Len(x)
        <5>1. j - Len(x) \in 1 .. Len(y)
          BY <4>0, <4>2
        <5>2. (x \o y)[j] = y[j - Len(x)] /\ y[j - Len(x)] \in Functors
          BY <4>0, <4>2, <5>1
        <5> QED
          BY <5>1, <5>2
      <4> QED
        BY <4>0, <4>1, <4>2
    <3>5. PICK f \in Functors : /\ f = (b \o q)[i]
                                /\ \/ \E m \in 1 .. Len(b) : f = b[m]
                                   \/ \E m \in 1 .. Len(q) : f = q[m]
      <4>1. \/ \E m \in 1 .. Len(b) : (b \o q)[i] = b[m] /\ b[m] \in Functors
            \/ \E m \in 1 .. Len(q) : (b \o q)[i] = q[m] /\ q[m] \in Functors
        BY <3>2, <3>3, <3>4
      <4>2. (b \o q)[i] \in Functors
        BY <4>1, Zenon
      <4> QED
        BY <4>1, <4>2, Zenon
    <3>6. f = [op |-> "remove", conn |-> c]
      <4>1. f.op = "remove" /\ f.conn = c
        BY <3>3, <3>5
      <4> QED
        BY <4>1 DEF Functors
    <3> QED
      BY <3>5, <3>6 DEF b, q
  <2> QED
    BY <2>2, <2>4, <2>5, <2>6 DEF RemovalOf
<1> QED
  BY <1>1, AlwaysIInv, PTL

(* Which assertions of the code can fail, and after what: a connection is  *)
(* taken out of the map twice only after another thread revived it,        *)
(* handleClose() meets only a closed connection with a channel that is     *)
(* still mapped, a removed channel is updated only after the server's      *)
(* destructor ended its connection, and no channel is removed twice.       *)
THEOREM FailuresAreExplained == Spec => []AssertionsExplained
<1>1. IInv => AssertionsExplained
  <2> SUFFICES ASSUME IInv PROVE AssertionsExplained
    OBVIOUS
  <2>1. Explained(State, server, ending)
    BY DEF IInv, Result
  <2>2. State.abort = abort /\ State.connections = connections /\ State.conn = conn
        /\ State.chan = chan
    BY DEF State
  <2> QED
    BY <2>1, <2>2 DEF Explained, AssertionsExplained, Closed
<1> QED
  BY <1>1, AlwaysIInv, PTL

===============================================================================

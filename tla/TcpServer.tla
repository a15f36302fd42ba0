------------------------------ MODULE TcpServer -------------------------------
(***************************************************************************)
(* TcpServer, Acceptor and TcpConnection (src/src/net) on their loops.     *)
(*                                                                         *)
(* Each loop thread polls, handles the reported channels, then runs the    *)
(* batch of functors it has swapped out (module EventLoop); a handler or a *)
(* functor is one step, since it shares only the functor queues and m_stat *)
(* with other threads.  User code on a loop thread calls a connection      *)
(* between two such steps.  Other threads call it in the steps of the      *)
(* code: test m_stat, set m_stat, queue the functor.                       *)
(*                                                                         *)
(* A handler is an operator from a state to a state, composed as the code  *)
(* composes its calls.  A failed assertion ends the process: abort holds   *)
(* its place.                                                              *)
(***************************************************************************)
EXTENDS Channel, Integers, Sequences, FiniteSets

CONSTANTS
    Conns,      \* connections the peers may open
    Listen,     \* the acceptor's channel
    Base,       \* the loop of the server and its acceptor
    IoLoops,    \* the loops of the thread pool, may be empty
    Clients,    \* threads that run no loop and hold a TcpConnectionPtr
    MsgLen,     \* units of data in a message
    MaxSends,   \* bound: number of send() calls
    MaxCalls    \* bound: number of other calls of a connection

ASSUME TcpServerAssumption ==
    /\ Listen \notin Conns
    /\ Base \notin IoLoops
    /\ Clients \cap (IoLoops \cup {Base}) = {}
    /\ MsgLen \in Nat \ {0} /\ MaxSends \in Nat /\ MaxCalls \in Nat

VARIABLES
    abort,        \* the assertion that ended the process, or "none"
    server,       \* "new", "started", "ending" in its destructor, or "gone"
    ending,       \* connections the destructor has still to end
    isListen,     \* Acceptor::m_isListen
    connections,  \* m_connections
    conn,         \* the TcpConnections
    chan,         \* their channels, and the acceptor's
    loop,         \* the loops: phase, active channels, queue, batch
    sock,         \* the sockets as the kernel and the peers leave them
    client,       \* where each client thread is in its call
    delayed,      \* connections with a forceCloseWithDelay() timer
    sends,        \* number of send() calls
    calls         \* number of other calls

vars == <<abort, server, ending, isListen, connections, conn, chan, loop, sock, client,
          delayed, sends, calls>>

Loops == IoLoops \cup {Base}

Stats == {"none", "KCONNECTING", "KCONNECT", "KDISCONNECTING", "KDISCONNECTED"}

Aborts == ChannelAssertions \cup
    {"TcpConnection.cc:111", "TcpConnection.cc:170", "TcpConnection.cc:213",
     "Buffer.h:88", "TcpServer.cc:75", "TcpServer.cc:88", "SIGPIPE"}

CallOps == {"shutDown", "forceClose", "forceCloseWithDelay", "startRead", "stopRead"}

Messages == [by : Loops \cup Clients, n : 1 .. MaxSends]

Functors ==
    [op : CallOps \cup {"established", "destory", "remove"}, conn : Conns]
    \cup [op : {"send"}, conn : Conns, msg : Messages]

Idle == [op |-> "none"]

ConnRecord == [stat : Stats, reading : BOOLEAN, shut : BOOLEAN, loop : Loops,
               out : Seq(Messages), wire : Seq(Messages), revived : BOOLEAN]

LoopRecord == [phase : {"poll", "handle", "run"},
               active : SUBSET ((Conns \cup {Listen}) \X SUBSET {"err", "in", "out"}),
               queue : Seq(Functors), batch : Seq(Functors)]

SockRecord == [where : {"none", "backlog", "open", "closed"}, data : BOOLEAN,
               eof : BOOLEAN, err : BOOLEAN, rst : BOOLEAN]

TypeOK ==
    /\ abort \in Aborts
    /\ server \in {"new", "started", "ending", "gone"}
    /\ ending \subseteq Conns
    /\ isListen \in BOOLEAN
    /\ connections \subseteq Conns
    /\ conn \in [Conns -> ConnRecord]
    /\ chan \in [Conns \cup {Listen} -> ChannelRecord]
    /\ loop \in [Loops -> LoopRecord]
    /\ sock \in [Conns -> SockRecord]
    /\ client \in [Clients -> {Idle} \cup [op : {"set", "queue"}, functor : Functors]]
    /\ delayed \subseteq Conns
    /\ sends \in 0 .. MaxSends
    /\ calls \in 0 .. MaxCalls

(* A process whose assertion failed takes no further step.                 *)
Alive == abort = "none"

(* m_isListen and m_reading have no initializer.                           *)
Init ==
    /\ abort = "none"
    /\ server = "new"
    /\ ending = {}
    /\ isListen \in BOOLEAN
    /\ connections = {}
    /\ conn = [c \in Conns |-> [stat |-> "none", reading |-> FALSE, shut |-> FALSE,
                                loop |-> Base, out |-> <<>>, wire |-> <<>>,
                                revived |-> FALSE]]
    /\ chan = [c \in Conns \cup {Listen} |-> NewChannel]
    /\ loop = [l \in Loops |-> [phase |-> "poll", active |-> {}, queue |-> <<>>,
                                batch |-> <<>>]]
    /\ sock = [c \in Conns |-> [where |-> "none", data |-> FALSE, eof |-> FALSE,
                                err |-> FALSE, rst |-> FALSE]]
    /\ client = [k \in Clients |-> Idle]
    /\ delayed = {}
    /\ sends = 0
    /\ calls = 0

-------------------------------------------------------------------------------
(* States, as far as handlers change them.                                 *)

State == [abort |-> abort, connections |-> connections, conn |-> conn,
          chan |-> chan, loop |-> loop, sock |-> sock]

Becomes(s) ==
    /\ abort' = s.abort
    /\ connections' = s.connections
    /\ conn' = s.conn
    /\ chan' = s.chan
    /\ loop' = s.loop
    /\ sock' = s.sock

Fail(s, where) == [s EXCEPT !.abort = where]

SetConn(s, c, r) == [s EXCEPT !.conn[c] = r]

SetStat(s, c, stat) == [s EXCEPT !.conn[c].stat = stat]

SetChan(s, c, ch) == [s EXCEPT !.chan[c] = ch, !.abort = IF @ = "none" THEN ch.fail ELSE @]

QueueInLoop(s, l, f) == [s EXCEPT !.loop[l].queue = Append(@, f)]

-------------------------------------------------------------------------------
(* TcpServer.                                                              *)

RemoveConnectionInLoop(s, c) ==
    IF c \notin s.connections
        THEN Fail(s, "TcpServer.cc:75")
        ELSE QueueInLoop([s EXCEPT !.connections = @ \ {c}], s.conn[c].loop,
                         [op |-> "destory", conn |-> c])

RemoveConnection(s, l, c) ==
    IF l = Base THEN RemoveConnectionInLoop(s, c)
                ELSE QueueInLoop(s, Base, [op |-> "remove", conn |-> c])

ConnectionEstablished(s, c) ==
    IF s.conn[c].stat # "KCONNECTING"
        THEN Fail(s, "TcpConnection.cc:111")
        ELSE SetChan(SetStat(s, c, "KCONNECT"), c, EnableRead(s.chan[c]))

(* connectionDestory(): after a normal close the state is KDISCONNECTED,   *)
(* so only a connection the server's destructor ends is disabled first.    *)
ConnectionDestory(s, c) ==
    LET t == IF s.conn[c].stat = "KCONNECT"
                THEN SetChan(SetStat(s, c, "KDISCONNECTED"), c, DisableAll(s.chan[c]))
                ELSE s
    IN  SetChan(t, c, Remove(t.chan[c]))

(* newConnection() for the loop l that getNextLoop() returned.             *)
NewConnection(s, c, l, reading) ==
    LET u == [s EXCEPT !.sock[c].where = "open", !.connections = @ \cup {c}]
        t == SetConn(u, c, [u.conn[c] EXCEPT !.stat = "KCONNECTING", !.loop = l,
                                             !.reading = reading])
    IN  IF l = Base THEN ConnectionEstablished(t, c)
                    ELSE QueueInLoop(t, l, [op |-> "established", conn |-> c])

-------------------------------------------------------------------------------
(* TcpConnection, on the thread of its loop l.                             *)

(* Mutant: handleClose() without m_closeCb.                                *)
HandleCloseSilent(s, l, c) ==
    IF s.conn[c].stat \notin {"KCONNECT", "KDISCONNECTING"}
        THEN Fail(s, "TcpConnection.cc:170")
        ELSE SetStat(s, c, "KDISCONNECTED")

(* Mutant: handleClose() without setState().                               *)
HandleCloseKeepsStat(s, l, c) ==
    IF s.conn[c].stat \notin {"KCONNECT", "KDISCONNECTING"}
        THEN Fail(s, "TcpConnection.cc:170")
        ELSE RemoveConnection(s, l, c)

HandleClose(s, l, c) ==
    IF s.conn[c].stat \notin {"KCONNECT", "KDISCONNECTING"}
        THEN Fail(s, "TcpConnection.cc:170")
        ELSE RemoveConnection(SetStat(s, c, "KDISCONNECTED"), l, c)

(* handleRead(): readFd() returns -1 on a pending socket error, bytes, 0   *)
(* at the end of the stream, or -1 with EAGAIN.  As a size_t, -1 counts as *)
(* bytes and the message callback is called.                               *)
HandleRead(s, l, c) ==
    CASE s.sock[c].err -> [s EXCEPT !.sock[c].err = FALSE]
      [] ~s.sock[c].err /\ s.sock[c].data -> [s EXCEPT !.sock[c].data = FALSE]
      [] ~s.sock[c].err /\ ~s.sock[c].data /\ s.sock[c].eof -> HandleClose(s, l, c)
      [] OTHER -> s

(* shutdownInLoop(): shuts down a connection that is still writing.        *)
ShutdownInLoop(s, c) ==
    IF IsWriting(s.chan[c]) THEN [s EXCEPT !.conn[c].shut = TRUE] ELSE s

(* What ::write may return for len units; Killed stands for SIGPIPE, which *)
(* the library does not ignore, after the write side was shut down or the  *)
(* peer's reset was already reported.                                      *)
Killed == -2

Broken(s, c) == s.conn[c].shut \/ s.sock[c].rst

WriteResults(s, c, len) ==
    CASE s.sock[c].err -> {-1}
      [] ~s.sock[c].err /\ Broken(s, c) -> {Killed}
      [] OTHER -> 1 .. len

(* handleWrite(): -1 as a size_t is an amount to retrieve.                 *)
HandleWrite(s, c, n) ==
    LET out  == s.conn[c].out
        rest == SubSeq(out, n + 1, Len(out))
        t    == SetConn(s, c, [s.conn[c] EXCEPT !.out = rest,
                                                !.wire = @ \o SubSeq(out, 1, n)])
    IN  CASE ~IsWriting(s.chan[c]) -> s
          [] IsWriting(s.chan[c]) /\ n = Killed -> Fail(s, "SIGPIPE")
          [] IsWriting(s.chan[c]) /\ n = -1 -> Fail(s, "Buffer.h:88")
          [] IsWriting(s.chan[c]) /\ n > 0 /\ rest # <<>> -> t
          [] IsWriting(s.chan[c]) /\ n > 0 /\ rest = <<>> ->
                 LET u == SetChan(t, c, DisableWrite(t.chan[c]))
                 IN  IF u.conn[c].stat = "KDISCONNECTING" THEN ShutdownInLoop(u, c) ELSE u

WritesAtOnce(s, c) == ~IsWriting(s.chan[c]) /\ s.conn[c].out = <<>>

Units(msg) == [i \in 1 .. MsgLen |-> msg]

(* Mutant: what ::write did not take is buffered but not waited for.       *)
SendInLoopNoEnable(s, c, msg, n) ==
    CASE s.conn[c].stat = "KDISCONNECTED" -> s
      [] s.conn[c].stat # "KDISCONNECTED" /\ n = Killed -> Fail(s, "SIGPIPE")
      [] s.conn[c].stat # "KDISCONNECTED" /\ n = -1 -> Fail(s, "TcpConnection.cc:213")
      [] s.conn[c].stat # "KDISCONNECTED" /\ n >= 0 ->
             SetConn(s, c, [s.conn[c] EXCEPT
                                !.wire = @ \o SubSeq(Units(msg), 1, n),
                                !.out = @ \o SubSeq(Units(msg), n + 1, MsgLen)])

(* sendInLoop() of msg, of which ::write took n units at once.  -1 as a    *)
(* size_t is never negative, and "remaining" becomes len + 1.              *)
SendInLoop(s, c, msg, n) ==
    CASE s.conn[c].stat = "KDISCONNECTED" -> s
      [] s.conn[c].stat # "KDISCONNECTED" /\ n = Killed -> Fail(s, "SIGPIPE")
      [] s.conn[c].stat # "KDISCONNECTED" /\ n = -1 -> Fail(s, "TcpConnection.cc:213")
      [] s.conn[c].stat # "KDISCONNECTED" /\ n >= 0 ->
             LET t == SetConn(s, c, [s.conn[c] EXCEPT
                                         !.wire = @ \o SubSeq(Units(msg), 1, n),
                                         !.out = @ \o SubSeq(Units(msg), n + 1, MsgLen)])
             IN  IF n < MsgLen /\ ~IsWriting(t.chan[c])
                    THEN SetChan(t, c, EnableWrite(t.chan[c])) ELSE t

(* Mutant: ::write is tried although output is still buffered.             *)
SendResultsEager(s, c) == WriteResults(s, c, MsgLen) \cup {-1}

(* How much of a message sendInLoop() may write at once: nothing while     *)
(* output is buffered, else any amount, or -1 with EWOULDBLOCK.            *)
SendResults(s, c) ==
    IF WritesAtOnce(s, c) /\ s.conn[c].stat # "KDISCONNECTED"
        THEN WriteResults(s, c, MsgLen) \cup (IF Broken(s, c) THEN {} ELSE {-1})
        ELSE {0}

CanForceClose(stat) == stat \in {"KCONNECT", "KDISCONNECTING"}

ForceCloseInLoop(s, l, c) ==
    IF CanForceClose(s.conn[c].stat) THEN HandleClose(s, l, c) ELSE s

ForceClose(s, c) ==
    IF CanForceClose(s.conn[c].stat)
        THEN QueueInLoop(SetStat(s, c, "KDISCONNECTING"), s.conn[c].loop,
                         [op |-> "forceClose", conn |-> c])
        ELSE s

ShutDown(s, c) ==
    IF s.conn[c].stat = "KCONNECT"
        THEN ShutdownInLoop(SetStat(s, c, "KDISCONNECTING"), c) ELSE s

StartReadInLoop(s, c) ==
    IF ~s.conn[c].reading \/ ~IsReading(s.chan[c])
        THEN SetChan([s EXCEPT !.conn[c].reading = TRUE], c, EnableRead(s.chan[c]))
        ELSE s

StopReadInLoop(s, c) ==
    IF s.conn[c].reading \/ IsReading(s.chan[c])
        THEN SetChan([s EXCEPT !.conn[c].reading = FALSE], c, DisableRead(s.chan[c]))
        ELSE s

-------------------------------------------------------------------------------
(* The loops.                                                              *)

Revents(c, full) ==
    LET asked == UNION chan[c].interest
        ready == IF c = Listen
                    THEN IF \E d \in Conns : sock[d].where = "backlog" THEN {"in"} ELSE {}
                    ELSE (IF sock[c].data \/ sock[c].eof THEN {"in"} ELSE {})
                         \cup (IF c \notin full THEN {"out"} ELSE {})
    IN  IF chan[c].interest = {} THEN {}
        ELSE (asked \cap ready) \cup (IF c # Listen /\ sock[c].err THEN {"err"} ELSE {})

ChannelsOf(l) == {c \in Conns : conn[c].loop = l /\ conn[c].stat # "none"}
                 \cup (IF l = Base THEN {Listen} ELSE {})

(* poll(): the sockets in full have no room in their send buffers.         *)
Poll(l) ==
    /\ Alive
    /\ loop[l].phase = "poll"
    /\ l = Base => server # "ending"
    /\ \E full \in SUBSET Conns :
           loop' = [loop EXCEPT ![l].phase = "handle",
                                ![l].active = {<<c, Revents(c, full)>> : c \in
                                    {d \in ChannelsOf(l) : Revents(d, full) # {}}}]
    /\ UNCHANGED <<abort, server, ending, isListen, connections, conn, chan, sock, client,
                   delayed, sends, calls>>

(* handleEvent() of a connection's channel: one of the callbacks, read     *)
(* before write, none for a hang-up.                                       *)
HandleEvent(l, c, revents) ==
    LET s == [State EXCEPT !.loop[l].active = @ \ {<<c, revents>>}]
    IN  /\ Alive
        /\ c # Listen
        /\ <<c, revents>> \in loop[l].active
        /\ \/ /\ "err" \in revents
              /\ Becomes([s EXCEPT !.sock[c].err = FALSE])
           \/ /\ "err" \notin revents /\ "in" \in revents
              /\ Becomes(HandleRead(s, l, c))
           \/ /\ revents = {"out"}
              /\ \E n \in WriteResults(s, c, Len(s.conn[c].out)) \cup
                          (IF IsWriting(s.chan[c]) THEN {} ELSE {0}) :
                     Becomes(HandleWrite(s, c, n))
        /\ UNCHANGED <<server, ending, isListen, client, delayed, sends, calls>>

(* The acceptor's handleRead(): accept() gives newConnection() a socket,   *)
(* or fails with EMFILE and the connection is taken and closed.            *)
AcceptorHandleRead(c) ==
    LET s == [State EXCEPT !.loop[Base].active = {p \in @ : p[1] # Listen}]
    IN  /\ Alive
        /\ \E p \in loop[Base].active : p[1] = Listen
        /\ sock[c].where = "backlog"
        /\ \/ \E l \in (IF IoLoops = {} THEN {Base} ELSE IoLoops), reading \in BOOLEAN :
                  Becomes(NewConnection(s, c, l, reading))
           \/ Becomes([s EXCEPT !.sock[c].where = "closed"])
        /\ UNCHANGED <<server, ending, isListen, client, delayed, sends, calls>>

(* A timer of forceCloseWithDelay() fires, in the phase of the handlers.   *)
DelayedClose(c) ==
    /\ Alive
    /\ c \in delayed
    /\ loop[conn[c].loop].phase = "handle"
    /\ Becomes(ForceClose(State, c))
    /\ delayed' = delayed \ {c}
    /\ UNCHANGED <<server, ending, isListen, client, sends, calls>>

SwapFunctors(l) ==
    /\ Alive
    /\ loop[l].phase = "handle"
    /\ loop[l].active = {}
    /\ loop' = [loop EXCEPT ![l].phase = "run", ![l].batch = loop[l].queue,
                            ![l].queue = <<>>]
    /\ UNCHANGED <<abort, server, ending, isListen, connections, conn, chan, sock, client,
                   delayed, sends, calls>>

(* One functor of the batch; the functor of forceCloseWithDelay() adds its *)
(* timer.                                                                  *)
RunFunctor(l) ==
    LET f == Head(loop[l].batch)
        c == f.conn
        s == [State EXCEPT !.loop[l].batch = Tail(@)]
    IN  /\ Alive
        /\ loop[l].phase = "run"
        /\ loop[l].batch # <<>>
        /\ delayed' = IF f.op = "forceCloseWithDelay" THEN delayed \cup {c} ELSE delayed
        /\ \/ f.op = "established" /\ Becomes(ConnectionEstablished(s, c))
           \/ f.op = "destory" /\ Becomes(ConnectionDestory(s, c))
           \/ f.op = "remove" /\ Becomes(RemoveConnectionInLoop(s, c))
           \/ f.op = "forceClose" /\ Becomes(ForceCloseInLoop(s, l, c))
           \/ f.op = "shutDown" /\ Becomes(ShutdownInLoop(s, c))
           \/ f.op = "startRead" /\ Becomes(StartReadInLoop(s, c))
           \/ f.op = "stopRead" /\ Becomes(StopReadInLoop(s, c))
           \/ f.op = "forceCloseWithDelay" /\ Becomes(s)
           \/ /\ f.op = "send"
              /\ \E n \in SendResults(s, c) : Becomes(SendInLoop(s, c, f.msg, n))
        /\ UNCHANGED <<server, ending, isListen, client, sends, calls>>

EndIteration(l) ==
    /\ Alive
    /\ loop[l].phase = "run"
    /\ loop[l].batch = <<>>
    /\ loop' = [loop EXCEPT ![l].phase = "poll"]
    /\ UNCHANGED <<abort, server, ending, isListen, connections, conn, chan, sock, client,
                   delayed, sends, calls>>

-------------------------------------------------------------------------------
(* Calls.                                                                  *)

(* The connection callback has handed the connection to user code.         *)
Known(c) == conn[c].stat \notin {"none", "KCONNECTING"}

(* User code on the thread of the connection's loop.                       *)
LoopSend(l, c) ==
    /\ Alive
    /\ loop[l].phase # "poll"
    /\ conn[c].loop = l /\ Known(c)
    /\ conn[c].stat = "KCONNECT"
    /\ sends < MaxSends
    /\ sends' = sends + 1
    /\ \E n \in SendResults(State, c) :
           Becomes(SendInLoop(State, c, [by |-> l, n |-> sends + 1], n))
    /\ UNCHANGED <<server, ending, isListen, client, delayed, calls>>

LoopCall(l, c, op) ==
    /\ Alive
    /\ loop[l].phase # "poll"
    /\ conn[c].loop = l /\ Known(c)
    /\ calls < MaxCalls
    /\ calls' = calls + 1
    /\ \/ op = "shutDown" /\ Becomes(ShutDown(State, c)) /\ UNCHANGED delayed
       \/ op = "forceClose" /\ Becomes(ForceClose(State, c)) /\ UNCHANGED delayed
       \/ op = "startRead" /\ Becomes(StartReadInLoop(State, c)) /\ UNCHANGED delayed
       \/ op = "stopRead" /\ Becomes(StopReadInLoop(State, c)) /\ UNCHANGED delayed
       \/ /\ op = "forceCloseWithDelay" /\ CanForceClose(conn[c].stat)
          /\ Becomes(SetStat(State, c, "KDISCONNECTING"))
          /\ delayed' = delayed \cup {c}
    /\ UNCHANGED <<server, ending, isListen, client, sends>>

(* Another thread calls send(): it passes the test of m_stat here, and     *)
(* queues the functor later.                                               *)
ClientSend(k, c) ==
    /\ Alive
    /\ client[k] = Idle
    /\ conn[c].stat = "KCONNECT"
    /\ sends < MaxSends
    /\ sends' = sends + 1
    /\ client' = [client EXCEPT ![k] =
           [op |-> "queue", functor |-> [op |-> "send", conn |-> c,
                                         msg |-> [by |-> k, n |-> sends + 1]]]]
    /\ UNCHANGED <<abort, server, ending, isListen, connections, conn, chan, loop, sock,
                   delayed, calls>>

(* The other calls: shutDown() and the two ways to close have passed their *)
(* test of m_stat and have still to set it.                                *)
ClientCall(k, c, op) ==
    /\ Alive
    /\ client[k] = Idle
    /\ Known(c)
    /\ calls < MaxCalls
    /\ calls' = calls + 1
    /\ client' = [client EXCEPT ![k] =
           [op |-> IF op \in {"startRead", "stopRead"} THEN "queue" ELSE "set",
            functor |-> [op |-> op, conn |-> c]]]
    /\ op = "shutDown" => conn[c].stat = "KCONNECT"
    /\ op \in {"forceClose", "forceCloseWithDelay"} => CanForceClose(conn[c].stat)
    /\ UNCHANGED <<abort, server, ending, isListen, connections, conn, chan, loop, sock,
                   delayed, sends>>

(* setState(KDISCONNECTING), whatever m_stat is by now: a connection that  *)
(* was closed since the test is revived.                                   *)
ClientSet(k) ==
    /\ Alive
    /\ client[k].op = "set"
    /\ LET c == client[k].functor.conn
       IN  Becomes(SetConn(State, c, [conn[c] EXCEPT !.stat = "KDISCONNECTING",
                       !.revived = @ \/ conn[c].stat = "KDISCONNECTED"]))
    /\ client' = [client EXCEPT ![k].op = "queue"]
    /\ UNCHANGED <<server, ending, isListen, delayed, sends, calls>>

ClientQueue(k) ==
    /\ Alive
    /\ client[k].op = "queue"
    /\ loop' = QueueInLoop(State, conn[client[k].functor.conn].loop,
                           client[k].functor).loop
    /\ client' = [client EXCEPT ![k] = Idle]
    /\ UNCHANGED <<abort, server, ending, isListen, connections, conn, chan, sock, delayed,
                   sends, calls>>

(* TcpServer::start() on the base thread, outside its handlers, with       *)
(* Acceptor::listen().                                                     *)
Start ==
    /\ Alive
    /\ server = "new"
    /\ loop[Base].phase = "poll"
    /\ server' = "started"
    /\ IF isListen
          THEN abort' = "TcpServer.cc:88" /\ UNCHANGED <<isListen, chan>>
          ELSE /\ isListen' = TRUE
               /\ chan' = [chan EXCEPT ![Listen] = EnableRead(@)]
               /\ UNCHANGED abort
    /\ UNCHANGED <<ending, connections, conn, loop, sock, client, delayed, sends, calls>>

(* The server's destructor on the base thread, outside its handlers, while *)
(* the other loops go on.                                                  *)
Destroy ==
    /\ Alive
    /\ server \in {"new", "started"}
    /\ loop[Base].phase = "poll"
    /\ server' = "ending"
    /\ ending' = connections
    /\ UNCHANGED <<abort, isListen, connections, conn, chan, loop, sock, client, delayed,
                   sends, calls>>

(* It runs connectionDestory() for each connection, at once or in its loop *)
EndConnection(c) ==
    /\ Alive
    /\ c \in ending
    /\ ending' = ending \ {c}
    /\ IF conn[c].loop = Base
          THEN Becomes(ConnectionDestory(State, c))
          ELSE Becomes(QueueInLoop(State, conn[c].loop, [op |-> "destory", conn |-> c]))
    /\ UNCHANGED <<server, isListen, client, delayed, sends, calls>>

(* and then the acceptor's destructor.                                     *)
EndAcceptor ==
    /\ Alive
    /\ server = "ending"
    /\ ending = {}
    /\ server' = "gone"
    /\ Becomes(SetChan(State, Listen, Remove(DisableAll(chan[Listen]))))
    /\ UNCHANGED <<ending, isListen, client, delayed, sends, calls>>

-------------------------------------------------------------------------------
(* The peers.                                                              *)

PeerStep(c) ==
    /\ Alive
    /\ \/ /\ sock[c].where = "none" /\ server = "started"
          /\ sock' = [sock EXCEPT ![c].where = "backlog"]
       \/ /\ sock[c].where = "open" /\ ~sock[c].eof
          /\ \/ sock' = [sock EXCEPT ![c].data = TRUE]
             \/ sock' = [sock EXCEPT ![c].eof = TRUE]
             \/ sock' = [sock EXCEPT ![c].data = FALSE, ![c].eof = TRUE,
                                     ![c].err = TRUE, ![c].rst = TRUE]
    /\ UNCHANGED <<abort, server, ending, isListen, connections, conn, chan, loop, client,
                   delayed, sends, calls>>

Next ==
    \/ \E l \in Loops : Poll(l) \/ SwapFunctors(l) \/ RunFunctor(l) \/ EndIteration(l)
    \/ \E l \in Loops : \E p \in loop[l].active : HandleEvent(l, p[1], p[2])
    \/ \E c \in Conns : AcceptorHandleRead(c) \/ DelayedClose(c) \/ PeerStep(c)
    \/ \E l \in Loops, c \in Conns :
           LoopSend(l, c) \/ \E op \in CallOps : LoopCall(l, c, op)
    \/ \E k \in Clients, c \in Conns :
           ClientSend(k, c) \/ \E op \in CallOps : ClientCall(k, c, op)
    \/ \E k \in Clients : ClientSet(k) \/ ClientQueue(k)
    \/ Start \/ Destroy \/ EndAcceptor
    \/ \E c \in Conns : EndConnection(c)

Spec == Init /\ [][Next]_vars

-------------------------------------------------------------------------------
(* Properties of every state before the process ends.                      *)

(* The kernel watches exactly what each channel asks for, through every    *)
(* sequence of enable and disable calls: EpollPoller's index says whether  *)
(* the fd is in the epoll set, and the entry there is the channel's.  The  *)
(* state has its types.                                                    *)
PollerConsistent ==
    TypeOK /\ \A c \in Conns \cup {Listen} : chan[c].fail = "none" =>
        /\ chan[c].interest = IF chan[c].idx = KADDED THEN {chan[c].events} ELSE {}
        /\ chan[c].idx = KADDED => chan[c].mapped
        /\ chan[c].events # {} => chan[c].idx = KADDED

(* Buffered output is always waited for: no path of send, write, startRead *)
(* or stopRead leaves it behind without POLLOUT in the channel's events.   *)
OutputWatched ==
    Alive =>
        \A c \in Conns : conn[c].out # <<>> => IsWriting(chan[c])

(* What a connection has written followed by what it still buffers is a    *)
(* sequence of whole messages, no message is there twice, and the messages *)
(* of one thread appear in the order of its calls, whether they were       *)
(* written at once, buffered or handed to the loop.                        *)
StreamInOrder ==
    Alive =>
        \A c \in Conns :
            LET stream     == conn[c].wire \o conn[c].out
                message(i) == (i - 1) \div MsgLen
            IN  /\ Len(stream) % MsgLen = 0
                /\ \A i, j \in 1 .. Len(stream) :
                       message(i) = message(j) => stream[i] = stream[j]
                /\ \A i, j \in 1 .. Len(stream) :
                       (message(i) < message(j) /\ stream[i].by = stream[j].by) =>
                           stream[i].n < stream[j].n

(* A closed connection never stays in m_connections unnoticed: as long as  *)
(* it is there, its removal is queued in the server's loop, or the         *)
(* server's destructor has already handed it to connectionDestory().       *)
RemovalUnderWay ==
    Alive =>
        \A c \in connections : conn[c].stat = "KDISCONNECTED" =>
            \/ \E f \in {loop[Base].queue[i] : i \in 1 .. Len(loop[Base].queue)} \cup
                        {loop[Base].batch[i] : i \in 1 .. Len(loop[Base].batch)} :
                   f = [op |-> "remove", conn |-> c]
            \/ server = "ending" /\ c \notin ending

-------------------------------------------------------------------------------
(* What the assertions of the code say.                                    *)

(* Channel.cc line 42: a channel that is removed watches nothing.          *)
RemovedChannelIsIdle == abort # "Channel.cc:42"

(* Which of the other assertions can fail, and how.  A connection is taken *)
(* out of the map twice only after another thread's shutDown() or          *)
(* forceClose() has revived it; handleClose() meets a closed connection    *)
(* only before its channel is removed; a removed channel is updated only   *)
(* by a call of a connection that the server's destructor has ended; no    *)
(* channel is removed twice, and a connection is established once.         *)
AssertionsExplained ==
    /\ abort = "TcpServer.cc:75" => \E c \in Conns : conn[c].revived
    /\ abort = "TcpConnection.cc:170" =>
           \E c \in Conns : conn[c].stat = "KDISCONNECTED" /\ chan[c].mapped
    /\ abort = "Channel.cc:42" =>
           \E c \in Conns : conn[c].stat \in {"KDISCONNECTED", "KDISCONNECTING"}
                               /\ chan[c].fail = abort
    /\ abort = "EpollPoller.cc:35" =>
           server = "ending" /\ \E c \in connections \ ending : chan[c].fail = abort
    /\ abort \notin {"EpollPoller.cc:64", "TcpConnection.cc:111"}

===============================================================================

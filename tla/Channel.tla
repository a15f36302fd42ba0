-------------------------------- MODULE Channel -------------------------------
(***************************************************************************)
(* Channel (src/src/net/Channel.h, Channel.cc) together with what          *)
(* EpollPoller (src/src/net/EpollPoller.cc) keeps for it, as operators on  *)
(* one record:                                                             *)
(*   events    m_events, a subset of {"in", "out"}                         *)
(*   idx       m_idxs                                                      *)
(*   mapped    whether m_mapFdToChannel holds the channel                  *)
(*   interest  the kernel's epoll entry for the fd: {} or {events}         *)
(*   fail      the assertion that failed, or "none"                        *)
(* The build compiles assertions in, so a failed one ends the process.     *)
(***************************************************************************)
EXTENDS Naturals

KNEW == "KNEW"

KDEL == "KDEL"

KADDED == "KADDED"

Events == {"in", "out"}

ChannelAssertions == {"none", "Channel.cc:42", "EpollPoller.cc:35",
                      "EpollPoller.cc:64", "EpollPoller.cc:67"}

ChannelRecord == [events : SUBSET Events, idx : {KNEW, KDEL, KADDED},
                  mapped : BOOLEAN, interest : SUBSET (SUBSET Events),
                  fail : ChannelAssertions]

NewChannel == [events |-> {}, idx |-> KNEW, mapped |-> FALSE, interest |-> {},
               fail |-> "none"]

IsNoneEvent(ch) == ch.events = {}

IsWriting(ch) == "out" \in ch.events

IsReading(ch) == "in" \in ch.events

(* Mutant: a channel whose interest was deleted keeps the index KADDED.    *)
UpdateChannelKeepsIndex(ch) ==
    IF ch.fail # "none" THEN ch ELSE
    CASE ch.idx = KNEW ->
             [ch EXCEPT !.mapped = TRUE, !.idx = KADDED, !.interest = {ch.events}]
      [] ch.idx = KDEL /\ ~ch.mapped -> [ch EXCEPT !.fail = "EpollPoller.cc:35"]
      [] ch.idx = KDEL /\ ch.mapped ->
             [ch EXCEPT !.idx = KADDED, !.interest = {ch.events}]
      [] ch.idx = KADDED ->
             [ch EXCEPT !.interest = IF IsNoneEvent(ch) THEN {} ELSE {ch.events}]

(* updateChannel() with update(): EPOLL_CTL_ADD for a new or deleted       *)
(* channel, even without events; EPOLL_CTL_DEL or EPOLL_CTL_MOD otherwise. *)
UpdateChannel(ch) ==
    IF ch.fail # "none" THEN ch ELSE
    CASE ch.idx = KNEW ->
             [ch EXCEPT !.mapped = TRUE, !.idx = KADDED, !.interest = {ch.events}]
      [] ch.idx = KDEL /\ ~ch.mapped -> [ch EXCEPT !.fail = "EpollPoller.cc:35"]
      [] ch.idx = KDEL /\ ch.mapped ->
             [ch EXCEPT !.idx = KADDED, !.interest = {ch.events}]
      [] ch.idx = KADDED /\ IsNoneEvent(ch) ->
             [ch EXCEPT !.idx = KDEL, !.interest = {}]
      [] ch.idx = KADDED /\ ~IsNoneEvent(ch) ->
             [ch EXCEPT !.interest = {ch.events}]

EnableRead(ch) == UpdateChannel([ch EXCEPT !.events = @ \cup {"in"}])

(* enableWrite() updates twice.                                            *)
EnableWrite(ch) ==
    UpdateChannel(UpdateChannel([ch EXCEPT !.events = @ \cup {"out"}]))

DisableRead(ch) == UpdateChannel([ch EXCEPT !.events = @ \ {"in"}])

DisableWrite(ch) == UpdateChannel([ch EXCEPT !.events = @ \ {"out"}])

DisableAll(ch) == UpdateChannel([ch EXCEPT !.events = {}])

(* EpollPoller::removeChannel().                                           *)
RemoveChannel(ch) ==
    CASE ch.fail # "none" -> ch
      [] ch.fail = "none" /\ ~ch.mapped -> [ch EXCEPT !.fail = "EpollPoller.cc:64"]
      [] ch.fail = "none" /\ ch.mapped /\ ch.idx = KDEL ->
             [ch EXCEPT !.fail = "EpollPoller.cc:67"]
      [] ch.fail = "none" /\ ch.mapped /\ ch.idx # KDEL ->
             [ch EXCEPT !.mapped = FALSE, !.idx = KDEL, !.interest = {}]

(* Channel::remove().                                                      *)
Remove(ch) ==
    IF ch.fail = "none" /\ ~IsNoneEvent(ch)
        THEN [ch EXCEPT !.fail = "Channel.cc:42"]
        ELSE RemoveChannel(ch)
===============================================================================

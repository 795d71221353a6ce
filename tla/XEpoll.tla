------------------------------- MODULE XEpoll -------------------------------
(***************************************************************************)
(* The epoll server of xepoll.cpp: the loop ServerLoop with its two ways   *)
(* to handle what epoll_wait reports, ET (edge-triggered, one-shot) and LT *)
(* (level-triggered), against clients.                                     *)
(*                                                                         *)
(* SocketSession comes from a header that is not in the repository.  Of it *)
(* the module keeps what the code uses: the descriptor, the fill of the    *)
(* receive buffer, and that a buffer asked for may not be had.  The        *)
(* virtual handlers are empty; that HandleRead is called is recorded.      *)
(* EPOLLOUT is never asked for, so the branches that send are not here.    *)
(***************************************************************************)
EXTENDS Epoll, FiniteSets

CONSTANTS
    Conns,            \* connections the clients may open
    Listen,           \* m_nListenFd
    max_event_number, \* entries of m_Events
    max_buffer_size,  \* Buffer::max_buffer_size, in units
    Backlog,          \* completed connections the listening socket holds
    FdLimits,         \* descriptors the process may have left for connections
    MaxUnits          \* bound: units a client sends

ASSUME XEpollAssumption ==
    /\ Listen \notin Conns
    /\ max_event_number \in Nat \ {0} /\ max_buffer_size \in Nat \ {0}
    /\ Backlog \in Nat \ {0} /\ FdLimits \subseteq Nat /\ MaxUnits \in Nat

VARIABLES
    mode,       \* m_nWorkMode
    limit,      \* the limit of descriptors the process was started with
    pc,         \* where the thread is; "no_buffer" after a receive buffer was not had,
                \* "undefined" after a use of a deleted session
    batch,      \* the entries of m_Events from the current one on
    session,    \* "none", "live" (allocated) or "deleted"
    fill,       \* len of a session's current receive buffer
    shown,      \* history: units received when HandleRead was last called
    dropped,    \* history: sessions whose entry a return threw away, not seen since
    ghosts,     \* whether a SocketSession for descriptor -1 was allocated
    backlog,    \* connections completed and not accepted, oldest first
    peer,       \* "idle", "open", "fin" (no more data will follow)
    err,        \* pending socket error: "none", "soft" or "rst"
    rx,         \* number of units in the socket's receive queue
    sent        \* history: number of units the client sent

sessionVars == <<session, fill, shown>>
serverVars == <<mode, limit, pc, batch, sessionVars, dropped, ghosts>>
netVars == <<backlog, peer, err, rx, sent>>
vars == <<epollVars, serverVars, netVars>>

Fds == Conns \cup {Listen}

TypeOK ==
    /\ rdlist \in Seq(Fds) /\ armed \subseteq Fds
    /\ mode \in {"et", "lt"} /\ limit \in FdLimits
    /\ pc \in {"epoll_wait", "dispatch", "read", "reset_oneshot",
               "exit", "interrupted", "no_buffer", "undefined"}
    /\ batch \in Seq([fd : Fds, ev : SUBSET {"IN", "ERR"}])
    /\ session \in [Conns -> {"none", "live", "deleted"}]
    /\ fill \in [Conns -> 0..max_buffer_size]
    /\ shown \in [Conns -> Nat]
    /\ dropped \subseteq Conns /\ ghosts \in BOOLEAN
    /\ backlog \in Seq(Conns)
    /\ peer \in [Conns -> {"idle", "open", "fin"}]
    /\ err \in [Conns -> {"none", "soft", "rst"}]
    /\ rx \in [Conns -> Nat] /\ sent \in [Conns -> Nat]

\* AddFd registers one-shot unless it is told not to, and only in ET mode.
OneShot_with_listen(fd) == mode = "et"
OneShot(fd) == mode = "et" /\ fd # Listen

\* The constructor: the socket listens and is registered.
Init ==
    /\ mode \in {"et", "lt"} /\ limit \in FdLimits
    /\ rdlist = <<>> /\ armed = {Listen}
    /\ pc = "epoll_wait" /\ batch = <<>>
    /\ session = [c \in Conns |-> "none"]
    /\ fill = [c \in Conns |-> 0] /\ shown = [c \in Conns |-> 0]
    /\ dropped = {} /\ ghosts = FALSE
    /\ backlog = <<>>
    /\ peer = [c \in Conns |-> "idle"] /\ err = [c \in Conns |-> "none"]
    /\ rx = [c \in Conns |-> 0] /\ sent = [c \in Conns |-> 0]

Running == pc \notin {"exit", "interrupted", "no_buffer", "undefined"}
Live == {c \in Conns : session[c] = "live"}
FdsOf(events) == {events[i].fd : i \in DOMAIN events}

\* What polling a descriptor reports.
Readable(c) == rx[c] > 0 \/ peer[c] = "fin" \/ err[c] = "rst"
EventsOf(fd) ==
    IF fd = Listen THEN {e \in {"IN"} : backlog # <<>>}
    ELSE {e \in {"IN"} : Readable(fd)} \cup {e \in {"ERR"} : err[fd] # "none"}
HasEvents(fd) == EventsOf(fd) # {}

-----------------------------------------------------------------------------
(* Clients.  One may abort even after it has closed its sending side.       *)

Connect(c) ==
    /\ peer[c] = "idle" /\ Len(backlog) < Backlog
    /\ peer' = [peer EXCEPT ![c] = "open"]
    /\ backlog' = Append(backlog, c)
    /\ EpollWake(Listen)
    /\ UNCHANGED <<serverVars, err, rx, sent>>

Talking(c) == peer[c] # "idle" /\ err[c] # "rst" /\ session[c] # "deleted"

SendUnit(c) ==
    /\ Talking(c) /\ peer[c] = "open" /\ sent[c] < MaxUnits
    /\ sent' = [sent EXCEPT ![c] = @ + 1]
    /\ rx' = [rx EXCEPT ![c] = @ + 1]
    /\ EpollWake(c)
    /\ UNCHANGED <<serverVars, backlog, peer, err>>

ClientClose(c) ==
    /\ Talking(c) /\ peer[c] = "open"
    /\ peer' = [peer EXCEPT ![c] = "fin"]
    /\ EpollWake(c)
    /\ UNCHANGED <<serverVars, backlog, err, rx, sent>>

ClientError(c) ==
    /\ Talking(c)
    /\ \E e \in {"soft", "rst"} \ {err[c]} : err' = [err EXCEPT ![c] = e]
    /\ EpollWake(c)
    /\ UNCHANGED <<serverVars, backlog, peer, rx, sent>>

-----------------------------------------------------------------------------
(* ServerLoop.                                                              *)

\* Each entry of the ready list is polled: one with nothing to report leaves it.
Polled(fd) == IF HasEvents(fd) THEN <<fd>> ELSE <<>>

\* Level-triggered, a reported descriptor goes back to the end of the list.
EpollWait ==
    /\ pc = "epoll_wait"
    /\ LET ready == FlattenSeq([i \in DOMAIN rdlist |-> Polled(rdlist[i])])
           n == IF Len(ready) < max_event_number THEN Len(ready) ELSE max_event_number
           reported == SubSeq(ready, 1, n)
           rest == SubSeq(ready, n + 1, Len(ready))
       IN  /\ n > 0
           /\ batch' = [i \in 1..n |-> [fd |-> ready[i], ev |-> EventsOf(ready[i])]]
           /\ rdlist' = IF mode = "et" THEN rest ELSE rest \o reported
           /\ armed' = armed \ {fd \in ToSet(reported) : OneShot(fd)}
           /\ dropped' = dropped \ ToSet(reported)
    /\ pc' = "dispatch"
    /\ UNCHANGED <<mode, limit, sessionVars, ghosts, netVars>>

\* A signal the application handles makes epoll_wait return -1: EINTR or not,
\* the process exits.
WaitInterrupted ==
    /\ pc = "epoll_wait"
    /\ pc' = "interrupted"
    /\ UNCHANGED <<epollVars, mode, limit, batch, sessionVars, dropped, ghosts, netVars>>

Current == Head(batch).fd
Dispatching(fd) == pc = "dispatch" /\ Current = fd

NextEvent ==
    /\ batch' = Tail(batch)
    /\ pc' = IF Tail(batch) = <<>> THEN "epoll_wait" ELSE "dispatch"

Exit ==
    /\ pc' = "exit"
    /\ UNCHANGED <<epollVars, mode, limit, batch, sessionVars, dropped, ghosts, netVars>>

\* get_buffer_for_recv or alloc_recv_buffer has returned 0, and with it the server
\* ends: ET looks at the pointer and exits, LT follows it.
NoBuffer ==
    /\ pc' = "no_buffer"
    /\ UNCHANGED <<epollVars, mode, limit, batch, sessionVars, dropped, ghosts, netVars>>

(* The accept of both modes, after which LT and ET return.                  *)

OutOfFds == Cardinality(Live) >= limit

AcceptOne ==
    LET c == Head(backlog)
    IN  /\ backlog # <<>> /\ ~OutOfFds
        /\ backlog' = Tail(backlog)
        /\ session' = [session EXCEPT ![c] = "live"]
        /\ EpollArm(c, HasEvents(c))
        /\ UNCHANGED ghosts

AcceptFails ==
    /\ backlog = <<>> \/ OutOfFds
    /\ ghosts' = TRUE
    /\ UNCHANGED <<epollVars, backlog, session>>

AcceptAndReturn ==
    /\ Dispatching(Listen)
    /\ AcceptOne \/ AcceptFails
    /\ batch' = <<>> /\ pc' = "epoll_wait"
    /\ dropped' = dropped \cup FdsOf(Tail(batch))
    /\ UNCHANGED <<mode, limit, fill, shown, peer, err, rx, sent>>

\* RemoveFd, close, delete.
CloseSession(c) ==
    /\ session' = [session EXCEPT ![c] = "deleted"]
    /\ rx' = [rx EXCEPT ![c] = 0]
    /\ EpollDel(c)

(* read() into the current buffer; a full one is replaced by a new one.      *)

Room_without_alloc(c) == max_buffer_size - fill[c]
Room(c) == IF fill[c] = max_buffer_size THEN max_buffer_size ELSE max_buffer_size - fill[c]

GetsData(c) == rx[c] > 0 /\ Room(c) > 0
GetsEof(c) == Room(c) = 0 \/ (rx[c] = 0 /\ peer[c] = "fin")
GetsAgain(c) == ~GetsData(c) /\ ~GetsEof(c) /\ err[c] = "none"
GetsError(c) == ~GetsData(c) /\ ~GetsEof(c) /\ err[c] # "none"

Taken(c) == IF rx[c] < Room(c) THEN rx[c] ELSE Room(c)
Store(c) ==
    /\ rx' = [rx EXCEPT ![c] = @ - Taken(c)]
    /\ fill' = [fill EXCEPT ![c] = max_buffer_size - Room(c) + Taken(c)]

\* HandleRead is called: the session holds all that was received.
Show(c, left) == shown' = [shown EXCEPT ![c] = sent[c] - left]

(* LT: one read per event; any failure of it, EAGAIN too, exits.            *)

LtAfterData(c) ==
    /\ fill' = [fill EXCEPT ![c] = max_buffer_size - Room(c) + Taken(c)]
    /\ Show(c, rx[c] - Taken(c))
    /\ IF "ERR" \in Head(batch).ev
       THEN CloseSession(c)
       ELSE rx' = [rx EXCEPT ![c] = @ - Taken(c)] /\ UNCHANGED <<session, epollVars>>
    /\ NextEvent

LtReadData(c) ==
    /\ mode = "lt" /\ Dispatching(c) /\ "IN" \in Head(batch).ev /\ GetsData(c)
    /\ LtAfterData(c)
    /\ UNCHANGED <<mode, limit, dropped, ghosts, backlog, peer, err, sent>>

\* The session is gone, and LT goes on with the next event.
LtAfterEof_without_continue(c) ==
    IF "ERR" \in Head(batch).ev THEN pc' = "undefined" /\ UNCHANGED batch ELSE NextEvent
LtAfterEof(c) == NextEvent

LtReadEof(c) ==
    /\ mode = "lt" /\ Dispatching(c) /\ "IN" \in Head(batch).ev /\ GetsEof(c)
    /\ CloseSession(c)
    /\ LtAfterEof(c)
    /\ UNCHANGED <<mode, limit, fill, shown, dropped, ghosts, backlog, peer, err, sent>>

\* No first buffer, or, the last one being full, no other.
LtNoBuffer(c) ==
    /\ mode = "lt" /\ Dispatching(c) /\ "IN" \in Head(batch).ev
    /\ NoBuffer

LtReadFails(c) ==
    /\ mode = "lt" /\ Dispatching(c) /\ "IN" \in Head(batch).ev
    /\ GetsAgain(c) \/ GetsError(c)
    /\ Exit

(* ET: read until EAGAIN, then ResetOneShot and HandleRead.                 *)

EtBeginRead(c) ==
    /\ mode = "et" /\ Dispatching(c) /\ "IN" \in Head(batch).ev
    /\ pc' = "read"
    /\ UNCHANGED <<epollVars, mode, limit, batch, sessionVars, dropped, ghosts, netVars>>

\* No first buffer, or, the last one being full, no other before the next read().
EtNoBuffer(c) ==
    /\ \/ mode = "et" /\ Dispatching(c) /\ "IN" \in Head(batch).ev
       \/ pc = "read" /\ c = Current /\ fill[c] = max_buffer_size
    /\ NoBuffer

EtReadData(c) ==
    /\ pc = "read" /\ c = Current /\ GetsData(c)
    /\ Store(c)
    /\ UNCHANGED <<epollVars, mode, limit, pc, batch, session, shown, dropped, ghosts,
                   backlog, peer, err, sent>>

EtReadAgain(c) ==
    /\ pc = "read" /\ c = Current /\ GetsAgain(c)
    /\ pc' = "reset_oneshot"
    /\ UNCHANGED <<epollVars, mode, limit, batch, sessionVars, dropped, ghosts, netVars>>

\* The session is gone, but ET still asks whether its event had EPOLLERR.
EtReadEof(c) ==
    /\ pc = "read" /\ c = Current /\ GetsEof(c)
    /\ CloseSession(c)
    /\ IF "ERR" \in Head(batch).ev THEN pc' = "undefined" /\ UNCHANGED batch ELSE NextEvent
    /\ UNCHANGED <<mode, limit, fill, shown, dropped, ghosts, backlog, peer, err, sent>>

EtReadError(c) == pc = "read" /\ c = Current /\ GetsError(c) /\ Exit

ResetOneShot_without_ctl(c) == UNCHANGED epollVars
ResetOneShot(c) == EpollArm(c, HasEvents(c))

\* With EPOLLERR in the event read() does not get as far as EAGAIN: an error
\* that is reported is still pending.
EtFinishRead(c) ==
    /\ pc = "reset_oneshot" /\ c = Current
    /\ ResetOneShot(c)
    /\ Show(c, rx[c])
    /\ NextEvent
    /\ UNCHANGED <<mode, limit, session, fill, dropped, ghosts, netVars>>

\* EPOLLERR alone, in both modes.
HandleError(c) ==
    /\ Dispatching(c) /\ Head(batch).ev = {"ERR"}
    /\ CloseSession(c)
    /\ NextEvent
    /\ UNCHANGED <<mode, limit, fill, shown, dropped, ghosts, backlog, peer, err, sent>>

-----------------------------------------------------------------------------
LT(c) == LtReadData(c) \/ LtReadEof(c) \/ LtReadFails(c) \/ LtNoBuffer(c)

ET(c) ==
    \/ EtBeginRead(c) \/ EtReadData(c) \/ EtReadAgain(c) \/ EtReadEof(c) \/ EtReadError(c)
    \/ EtNoBuffer(c) \/ EtFinishRead(c)

ServerLoop ==
    EpollWait \/ AcceptAndReturn \/ \E c \in Conns : LT(c) \/ ET(c) \/ HandleError(c)

ClientStep ==
    \E c \in Conns : Connect(c) \/ SendUnit(c) \/ ClientClose(c) \/ ClientError(c)

\* The process has ended, or anything may happen.
Finished == ~Running /\ UNCHANGED vars

Next == ServerLoop \/ WaitInterrupted \/ (Running /\ ClientStep) \/ Finished

\* The system schedules the one thread of the server.  No fairness is assumed of the
\* clients and of signals; a client pauses at some time, since its units are bounded.
Spec == Init /\ [][Next]_vars /\ WF_vars(ServerLoop)

-----------------------------------------------------------------------------
(* Properties.                                                              *)

\* No event refers to a deleted session, and in ET mode a live session is armed, or
\* in m_Events, or was dropped by a return after an accept, and only one of these.
EventsAccounted ==
    Running =>
        /\ ToSet(rdlist) \cup FdsOf(batch) \cup dropped \subseteq Live \cup {Listen}
        /\ mode = "lt" => armed = Live \cup {Listen}
        /\ mode = "et" => /\ Live \subseteq armed \cup FdsOf(batch) \cup dropped
                          /\ armed \cap (dropped \cup (FdsOf(batch) \ {Listen})) = {}
                          /\ FdsOf(batch) \cap dropped = {}

\* An armed descriptor with something to report is in the ready list; in ET mode
\* not the listening socket, which is reported once for a burst of connections.
NothingUnreported ==
    Running => \A fd \in (armed \cap Live) \cup (IF mode = "lt" THEN {Listen} ELSE {}) :
        HasEvents(fd) => fd \in ToSet(rdlist)

\* Type correctness and the two conditions above.
XEpollInv == TypeOK /\ EventsAccounted /\ NothingUnreported

\* What ends the server but for an interrupted epoll_wait is an error of a connection
\* it holds, or that it gets no buffer for one: clients that only connect, send and
\* close do not, for which read() may not be called in LT mode when it would block.
\* A session is used after its delete only in ET mode, and only when one event carries
\* both the client's FIN and an error.
OnlyErrorsEnd ==
    /\ pc = "exit" => \E c \in Live : err[c] # "none"
    /\ pc = "no_buffer" => Current \in Live
    /\ pc = "undefined" =>
           /\ mode = "et"
           /\ \E c \in Conns : session[c] = "deleted" /\ peer[c] = "fin" /\ err[c] # "none"

\* LT passes all of a client's data on before it closes an orderly session.
OrderlyCloseComplete ==
    mode = "lt" =>
        \A c \in Conns : session[c] = "deleted" /\ err[c] = "none" => shown[c] = sent[c]

\* What keeps LT and ET from starving a session: LT that no accept fails, since it
\* returns after the failed accept and is told of the same connection first again;
\* ET that no return dropped the session's event.
Undisturbed(c) ==
    IF mode = "lt" THEN backlog # <<>> => ~OutOfFds ELSE c \notin dropped

\* Undisturbed, all that reaches the socket of a live session is read.
DataRead ==
    \A c \in Conns :
        []Undisturbed(c) =>
            ((session[c] = "live" /\ rx[c] > 0)
                ~> (rx[c] = 0 \/ session[c] = "deleted" \/ ~Running))

\* While descriptors last every connection is accepted: in LT mode also those of a
\* burst, in ET mode if they come one by one.
ConnectionsAccepted ==
    [](backlog # <<>> => ~OutOfFds /\ (mode = "et" => Len(backlog) = 1)) =>
        \A c \in Conns : (c \in ToSet(backlog)) ~> (session[c] # "none" \/ ~Running)
============================================================================

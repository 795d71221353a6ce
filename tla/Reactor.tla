------------------------------ MODULE Reactor ------------------------------
(***************************************************************************)
(* The event loop of lazyserver: lazy_loop and the handlers it calls in    *)
(* reactor.cpp, with the default callbacks of default_func.cpp, running    *)
(* against clients, signals and the alarm clock.                           *)
(*                                                                         *)
(* One thread runs the loop.  Each of its actions below ends at the next   *)
(* system call whose outcome depends on the outside, so that clients and   *)
(* signals interleave with it between any two such calls.                  *)
(*                                                                         *)
(* A connection c names the client, the kernel's socket and the            *)
(* EventHandler allocated for it.  Payload is counted in units, numbered   *)
(* from 1 by each client, so that order, loss and duplication show.        *)
(***************************************************************************)
EXTENDS Epoll, FiniteSets

CONSTANTS
    Conns,       \* connections the clients may open
    Listen,      \* ReactorBase::listen_fd
    Pipe,        \* ReactorBase::pipefd[0], the reading end of the socketpair
    NoSession,   \* the value of cur while no session is being read
    SIGINT,      \* stops the loop
    SIGALRM,     \* runs the timers and re-arms the alarm
    PlainSignals,\* the other registered signals, whose handlers only print
    MaxEvents,   \* ReactorBase::max_event_number
    BufSize,     \* Buffer::max_buffer_size, in units
    SigBuf,      \* size of the array handle_sig_timer receives into
    PipeCap,     \* signals the socketpair holds before send() fails
    Backlog,     \* completed connections the listening socket holds
    MaxFds,      \* descriptors left to the process for connections
    MaxUnits,    \* bound: units a client sends
    MaxSignals   \* bound: signals raised from outside

ASSUME ReactorAssumption ==
    /\ Listen \notin Conns /\ Pipe \notin Conns /\ NoSession \notin Conns
    /\ Listen # Pipe /\ NoSession \notin {Listen, Pipe}
    /\ SIGINT # SIGALRM /\ SIGALRM \notin PlainSignals
    /\ MaxEvents \in Nat \ {0} /\ BufSize \in Nat \ {0} /\ SigBuf \in Nat \ {0}
    /\ PipeCap \in Nat \ {0} /\ Backlog \in Nat \ {0}
    /\ MaxFds \in Nat /\ MaxUnits \in Nat /\ MaxSignals \in Nat

VARIABLES
    \* the loop
    pc,          \* where the loop thread is
    batch,       \* the entries of events[] not yet dispatched
    cur,         \* the session handle_read works on
    stop,        \* stop_server_flag
    sigs,        \* the signals received and not yet dispatched
    \* the EventHandlers
    session,     \* "none", "live" (allocated) or "deleted"
    recvList,    \* m_RecvBufferList: the contents of its Buffers, in order
    handled,     \* history: the units default_read_handler was given
    ghosts,      \* EventHandlers allocated for a failed accept (m_nFd = -1)
    \* the kernel and the clients
    backlog,     \* connections completed and not accepted, oldest first
    peer,        \* "idle", "open", "fin" (no more data will follow)
    err,         \* pending socket error: "none", "soft" or "rst"
    rx,          \* units in the socket's receive queue
    sent,        \* history: number of units the client sent
    pipe,        \* signal bytes in the socketpair
    alarm,       \* whether an alarm() is pending
    raised       \* number of signals raised from outside

loopVars == <<pc, batch, cur, stop, sigs>>
sessionVars == <<session, recvList, handled, ghosts>>
netVars == <<backlog, peer, err, rx, sent>>
sigVars == <<pipe, alarm, raised>>
vars == <<epollVars, loopVars, sessionVars, netVars, sigVars>>

\* main has not called lazy_set_current_reactor yet: "setup" until the handlers
\* of the signals are installed, "created" after that.
Startup == {"setup", "created"}

Fds == Conns \cup {Listen, Pipe}
Signals == PlainSignals \cup {SIGINT, SIGALRM}

TypeOK ==
    /\ rdlist \in Seq(Fds) /\ armed \subseteq Fds
    /\ pc \in Startup \cup {"start", "epoll_wait", "dispatch", "handle_read",
               "reset_oneshot", "handle_sig_timer", "returned", "exit"}
    /\ batch \in Seq([fd : Fds, ev : {"IN", "ERR"}])
    /\ cur \in Conns \cup {NoSession}
    /\ stop \in BOOLEAN
    /\ sigs \in Seq(Signals)
    /\ session \in [Conns -> {"none", "live", "deleted"}]
    /\ recvList \in [Conns -> Seq(Seq(Nat))]
    /\ handled \in [Conns -> Seq(Nat)]
    /\ ghosts \in Nat
    /\ backlog \in Seq(Conns)
    /\ peer \in [Conns -> {"idle", "open", "fin"}]
    /\ err \in [Conns -> {"none", "soft", "rst"}]
    /\ rx \in [Conns -> Seq(Nat)]
    /\ sent \in [Conns -> Nat]
    /\ pipe \in Seq(Signals)
    /\ alarm \in BOOLEAN
    /\ raised \in Nat

\* lazy_create_listen_fd has returned: clients can connect, nothing is registered.
Init ==
    /\ rdlist = <<>> /\ armed = {}
    /\ pc = "setup" /\ batch = <<>> /\ cur = NoSession
    /\ stop = FALSE /\ sigs = <<>>
    /\ session = [c \in Conns |-> "none"]
    /\ recvList = [c \in Conns |-> <<>>]
    /\ handled = [c \in Conns |-> <<>>]
    /\ ghosts = 0
    /\ backlog = <<>>
    /\ peer = [c \in Conns |-> "idle"]
    /\ err = [c \in Conns |-> "none"]
    /\ rx = [c \in Conns |-> <<>>]
    /\ sent = [c \in Conns |-> 0]
    /\ pipe = <<>> /\ alarm = FALSE /\ raised = 0

Running == pc \notin {"returned", "exit"}
Live == {c \in Conns : session[c] = "live"}
BatchFds == {batch[i].fd : i \in DOMAIN batch}

\* What polling a connection reports: EPOLLIN, or only EPOLLERR.
Readable(c) == rx[c] # <<>> \/ peer[c] = "fin" \/ err[c] = "rst"
HasEvents(c) == Readable(c) \/ err[c] = "soft"
EventOf(fd) == IF fd \in Conns /\ ~Readable(fd) THEN "ERR" ELSE "IN"

-----------------------------------------------------------------------------
(* Clients: they connect, send, close, abort, at any time.                 *)

Connect(c) ==
    /\ peer[c] = "idle" /\ Len(backlog) < Backlog
    /\ peer' = [peer EXCEPT ![c] = "open"]
    /\ backlog' = Append(backlog, c)
    /\ EpollWake(Listen)
    /\ UNCHANGED <<loopVars, sessionVars, err, rx, sent, sigVars>>

\* The client still uses its end of a connection the server has not closed.
Talking(c) == peer[c] = "open" /\ err[c] # "rst" /\ session[c] # "deleted"

SendUnit(c) ==
    /\ Talking(c) /\ sent[c] < MaxUnits
    /\ sent' = [sent EXCEPT ![c] = @ + 1]
    /\ rx' = [rx EXCEPT ![c] = Append(@, sent[c] + 1)]
    /\ EpollWake(c)
    /\ UNCHANGED <<loopVars, sessionVars, backlog, peer, err, sigVars>>

ClientClose(c) ==
    /\ Talking(c)
    /\ peer' = [peer EXCEPT ![c] = "fin"]
    /\ EpollWake(c)
    /\ UNCHANGED <<loopVars, sessionVars, backlog, err, rx, sent, sigVars>>

ClientReset(c) ==
    /\ Talking(c)
    /\ err' = [err EXCEPT ![c] = "rst"]
    /\ EpollWake(c)
    /\ UNCHANGED <<loopVars, sessionVars, backlog, peer, rx, sent, sigVars>>

\* An asynchronous error that leaves the connection open: EPOLLERR alone.
SocketError(c) ==
    /\ Talking(c) /\ err[c] = "none"
    /\ err' = [err EXCEPT ![c] = "soft"]
    /\ EpollWake(c)
    /\ UNCHANGED <<loopVars, sessionVars, backlog, peer, rx, sent, sigVars>>

-----------------------------------------------------------------------------
(* Signals: sig_handler writes one byte to the non-blocking pipefd[1] and  *)
(* ignores the result of send().                                           *)

sig_handler(s) ==
    IF Len(pipe) < PipeCap
    THEN pipe' = Append(pipe, s) /\ EpollWake(Pipe)
    ELSE UNCHANGED <<pipe, epollVars>>

RaiseSignal(s) ==
    /\ Running /\ pc \notin Startup /\ raised < MaxSignals
    /\ raised' = raised + 1
    /\ sig_handler(s)
    /\ UNCHANGED <<loopVars, sessionVars, netVars, alarm>>

\* Before a handler is installed the kernel's default action applies: not modelled,
\* no signal is raised in "setup".  Then the handlers are there and g_current_reactor
\* is still null: sig_handler takes pipefd from a null pointer.
EarlySignal ==
    /\ pc = "created" /\ raised < MaxSignals
    /\ raised' = raised + 1
    /\ pc' = "exit"
    /\ UNCHANGED <<epollVars, batch, cur, stop, sigs, sessionVars, netVars, pipe, alarm>>

AlarmFires ==
    /\ Running /\ alarm
    /\ alarm' = FALSE
    /\ sig_handler(SIGALRM)
    /\ UNCHANGED <<loopVars, sessionVars, netVars, raised>>

-----------------------------------------------------------------------------
(* lazy_loop: wait for events, dispatch them one by one.                   *)
(*                                                                         *)
(* A definition whose name ends in a word after "_without_", "_instead_"   *)
(* and the like is a variant no action uses: it is the definition after it *)
(* with one plausible mistake, and shows that a property notices it.       *)

\* addfd_to_epoll registers everything but the listening socket one-shot.
OneShotFds_with_listen == Fds
OneShotFds == Fds \ {Listen}

\* reset_oneshot: enable a one-shot descriptor again.
reset_oneshot_without_ctl(fd, pending) == UNCHANGED epollVars
reset_oneshot_without_EPOLLIN(fd, pending) ==
    armed' = armed \cup {fd} /\ UNCHANGED rdlist
reset_oneshot_only_of_pipe(fd, pending) ==
    IF fd = Pipe THEN EpollArm(fd, pending) ELSE UNCHANGED epollVars
reset_oneshot(fd, pending) == EpollArm(fd, pending)

(* main: lazy_create_reactor registers the listening socket and the pipe and  *)
(* installs the handlers; lazy_set_current_reactor; lazy_loop.               *)

lazy_create_reactor_without_pipe ==
    /\ pc = "setup"
    /\ armed' = {Listen}
    /\ rdlist' = IF backlog # <<>> THEN <<Listen>> ELSE <<>>
    /\ pc' = "created"
    /\ UNCHANGED <<batch, cur, stop, sigs, sessionVars, netVars, sigVars>>

lazy_create_reactor ==
    /\ pc = "setup"
    /\ armed' = {Listen, Pipe}
    /\ rdlist' = IF backlog # <<>> THEN <<Listen>> ELSE <<>>
    /\ pc' = "created"
    /\ UNCHANGED <<batch, cur, stop, sigs, sessionVars, netVars, sigVars>>

lazy_set_current_reactor ==
    /\ pc = "created"
    /\ pc' = "start"
    /\ UNCHANGED <<epollVars, batch, cur, stop, sigs, sessionVars, netVars, sigVars>>

StartLoop ==
    /\ pc = "start"
    /\ alarm' = TRUE
    /\ pc' = "epoll_wait"
    /\ UNCHANGED <<epollVars, batch, cur, stop, sigs, sessionVars, netVars, pipe, raised>>

\* An epoll_wait cut short by a signal (EINTR) reports nothing and is retried:
\* a stuttering step here.
EpollWait ==
    /\ pc = "epoll_wait" /\ ~stop /\ rdlist # <<>>
    /\ LET n == IF Len(rdlist) < MaxEvents THEN Len(rdlist) ELSE MaxEvents
       IN  /\ batch' = [i \in 1..n |-> [fd |-> rdlist[i], ev |-> EventOf(rdlist[i])]]
           /\ EpollReport(n, OneShotFds)
    /\ pc' = "dispatch"
    /\ UNCHANGED <<cur, stop, sigs, sessionVars, netVars, sigVars>>

StopLoop ==
    /\ pc = "epoll_wait" /\ stop
    /\ pc' = "returned"
    /\ UNCHANGED <<epollVars, batch, cur, stop, sigs, sessionVars, netVars, sigVars>>

\* Go on with the rest of events[], or back to epoll_wait.
Continue(rest) ==
    /\ batch' = rest
    /\ pc' = IF rest = <<>> THEN "epoll_wait" ELSE "dispatch"

Dispatching(fd) == pc = "dispatch" /\ Head(batch).fd = fd

\* removefd_from_epoll, close, delete: the end of an EventHandler.  The list of
\* receive Buffers goes with it; what the socket still holds is discarded.
CloseSession(c) ==
    /\ session' = [session EXCEPT ![c] = "deleted"]
    /\ recvList' = [recvList EXCEPT ![c] = <<>>]
    /\ rx' = [rx EXCEPT ![c] = <<>>]
    /\ EpollDel(c)

(* handle_accpet: one accept() per event.  When accept fails the code      *)
(* allocates an EventHandler for descriptor -1 all the same, and epoll_ctl *)
(* refuses it.                                                             *)

OutOfFds == Cardinality(Live) >= MaxFds

AcceptOne_until_empty ==
    /\ backlog # <<>> /\ ~OutOfFds
    /\ backlog' = <<>>
    /\ session' = [c \in Conns |-> IF c \in ToSet(backlog) THEN "live" ELSE session[c]]
    /\ armed' = armed \cup ToSet(backlog)
    /\ rdlist' = rdlist \o SelectSeq(backlog, HasEvents)
    /\ UNCHANGED ghosts

AcceptOne ==
    LET c == Head(backlog)
    IN  /\ backlog # <<>> /\ ~OutOfFds
        /\ backlog' = Tail(backlog)
        /\ session' = [session EXCEPT ![c] = "live"]
        /\ EpollArm(c, HasEvents(c))
        /\ UNCHANGED ghosts

AcceptFails ==
    /\ backlog = <<>> \/ OutOfFds
    /\ ghosts' = ghosts + 1
    /\ UNCHANGED <<backlog, session, epollVars>>

handle_accpet ==
    /\ Dispatching(Listen)
    /\ AcceptOne \/ AcceptFails
    /\ Continue(Tail(batch))
    /\ UNCHANGED <<cur, stop, sigs, recvList, handled, peer, err, rx, sent, sigVars>>

(* handle_read: recv() into the last Buffer, allocating one when there is  *)
(* none or it is full, until the socket is drained.                        *)

BeginRead ==
    \E c \in Conns :
        /\ Dispatching(c) /\ Head(batch).ev = "IN"
        /\ cur' = c
        /\ batch' = Tail(batch)
        /\ pc' = "handle_read"
        /\ UNCHANGED <<epollVars, stop, sigs, sessionVars, netVars, sigVars>>

WithRoom_always_new(list) == Append(list, <<>>)
WithRoom(list) ==
    IF list = <<>> \/ Len(Last(list)) = BufSize THEN Append(list, <<>>) ELSE list

\* The room recv() is told a Buffer has.
Room_ignoring_size(buf) == BufSize
Room(buf) == BufSize - Len(buf)

\* What a Buffer holds after recv() put got behind its size.
Filled_without_old_size(buf, got) == got
Filled(buf, got) == buf \o got

RecvData ==
    /\ pc = "handle_read" /\ rx[cur] # <<>>
    /\ LET bufs == WithRoom(recvList[cur])
           room == Room(Last(bufs))
           n == IF Len(rx[cur]) < room THEN Len(rx[cur]) ELSE room
           got == SubSeq(rx[cur], 1, n)
       IN  /\ recvList' = [recvList EXCEPT ![cur] =
                              [bufs EXCEPT ![Len(bufs)] = Filled(@, got)]]
           /\ rx' = [rx EXCEPT ![cur] = SubSeq(@, n + 1, Len(@))]
    /\ UNCHANGED <<epollVars, loopVars, session, handled, ghosts,
                   backlog, peer, err, sent, sigVars>>

\* recv() would block: the only failure that is not an error.
Drained_never(c) == FALSE
Drained(c) == rx[c] = <<>> /\ peer[c] # "fin" /\ err[c] = "none"

\* EAGAIN or EWOULDBLOCK.
RecvAgain ==
    /\ pc = "handle_read" /\ Drained(cur)
    /\ recvList' = [recvList EXCEPT ![cur] = WithRoom(@)]
    /\ pc' = "reset_oneshot"
    /\ UNCHANGED <<epollVars, batch, cur, stop, sigs, session, handled, ghosts,
                   netVars, sigVars>>

\* handle_read returns once the session is gone.
LeaveRead_by_break == pc' = "reset_oneshot" /\ UNCHANGED <<batch, cur>>
LeaveRead == cur' = NoSession /\ Continue(batch)

\* recv() returns 0: the client left.
RecvEof ==
    /\ pc = "handle_read" /\ rx[cur] = <<>> /\ peer[cur] = "fin"
    /\ CloseSession(cur)
    /\ LeaveRead
    /\ UNCHANGED <<stop, sigs, handled, ghosts, backlog, peer, err, sent, sigVars>>

\* Any other error ends the process.
RecvError ==
    /\ pc = "handle_read" /\ rx[cur] = <<>> /\ peer[cur] # "fin" /\ ~Drained(cur)
    /\ pc' = "exit"
    /\ UNCHANGED <<epollVars, batch, cur, stop, sigs, sessionVars, netVars, sigVars>>

\* EventHandler::Read: the Buffer it takes from the list, and the rest.
Read(list) == [buf |-> Head(list), rest |-> Tail(list)]

\* reset_oneshot, then default_read_handler takes one Buffer.
FinishRead ==
    /\ pc = "reset_oneshot"
    /\ reset_oneshot(cur, HasEvents(cur))
    /\ handled' = [handled EXCEPT ![cur] = @ \o Read(recvList[cur]).buf]
    /\ recvList' = [recvList EXCEPT ![cur] = Read(@).rest]
    /\ LeaveRead
    /\ UNCHANGED <<stop, sigs, session, ghosts, netVars, sigVars>>

\* The EPOLLERR branch of lazy_loop.
HandleError ==
    \E c \in Conns :
        /\ Dispatching(c) /\ Head(batch).ev = "ERR"
        /\ CloseSession(c)
        /\ Continue(Tail(batch))
        /\ UNCHANGED <<cur, stop, sigs, handled, ghosts, backlog, peer, err, sent, sigVars>>

(* handle_sig_timer: receive the pending signals, run the handler of each  *)
(* and re-arm the pipe after each.  An empty recv returns without re-arming. *)

RecvSignals ==
    /\ Dispatching(Pipe)
    /\ LET n == IF Len(pipe) < SigBuf THEN Len(pipe) ELSE SigBuf
       IN  IF n = 0
           THEN Continue(Tail(batch)) /\ UNCHANGED <<sigs, pipe>>
           ELSE /\ sigs' = SubSeq(pipe, 1, n)
                /\ pipe' = SubSeq(pipe, n + 1, Len(pipe))
                /\ batch' = Tail(batch)
                /\ pc' = "handle_sig_timer"
    /\ UNCHANGED <<epollVars, cur, stop, sessionVars, netVars, alarm, raised>>

\* default_sigint_handler sets the flag; default_sigalrm_handler runs the timers
\* (module TimerHeap) and calls alarm(1); the other handlers print.
RunHandler_without_alarm(s) == stop' = (stop \/ s = SIGINT) /\ UNCHANGED alarm
RunHandler(s) ==
    /\ stop' = (stop \/ s = SIGINT)
    /\ alarm' = (alarm \/ s = SIGALRM)

DispatchSignal ==
    /\ pc = "handle_sig_timer"
    /\ RunHandler(Head(sigs))
    /\ reset_oneshot(Pipe, pipe # <<>>)
    /\ sigs' = Tail(sigs)
    /\ IF Tail(sigs) = <<>> THEN Continue(batch) ELSE UNCHANGED <<pc, batch>>
    /\ UNCHANGED <<cur, sessionVars, netVars, pipe, raised>>

-----------------------------------------------------------------------------
LoopStep ==
    \/ lazy_create_reactor \/ lazy_set_current_reactor
    \/ StartLoop \/ EpollWait \/ StopLoop
    \/ handle_accpet
    \/ BeginRead \/ RecvData \/ RecvAgain \/ RecvEof \/ RecvError \/ FinishRead
    \/ HandleError
    \/ RecvSignals \/ DispatchSignal

ClientStep ==
    \E c \in Conns :
        Connect(c) \/ SendUnit(c) \/ ClientClose(c) \/ ClientReset(c) \/ SocketError(c)

SignalStep == EarlySignal \/ AlarmFires \/ \E s \in Signals \ {SIGALRM} : RaiseSignal(s)

\* The process is gone: nothing happens any more.
Finished == ~Running /\ UNCHANGED vars

Next == LoopStep \/ (Running /\ ClientStep) \/ SignalStep \/ Finished

\* The loop is one thread the system schedules, and a pending alarm fires.
\* No fairness is assumed of clients and of other signals; that a client sends at most
\* MaxUnits units means that each one pauses at some time, without which handle_read
\* would not end.
Fairness == WF_vars(LoopStep) /\ WF_vars(AlarmFires)

Spec == Init /\ [][Next]_vars /\ Fairness

-----------------------------------------------------------------------------
(* Safety.                                                                 *)

\* What the loop works on now, taken out of events[] and not yet re-armed.
Held ==
    {fd \in Fds : \/ pc \in {"handle_read", "reset_oneshot"} /\ fd = cur
                  \/ pc = "handle_sig_timer" /\ fd = Pipe /\ Pipe \notin armed}

\* No event refers to a deleted EventHandler: what the ready list, the rest of
\* events[] and the running handler point to is live, and events[] names no
\* descriptor twice, so deleting one session leaves the rest of the batch valid.
NoDanglingEvent ==
    /\ ToSet(rdlist) \cup BatchFds \cup Held \subseteq Live \cup {Listen, Pipe}
    /\ \A i, j \in DOMAIN batch : batch[i].fd = batch[j].fd => i = j

\* A one-shot descriptor is never forgotten disarmed: while the loop runs, every
\* live session and the pipe is either armed, or waits in events[], or is being
\* handled, and it is only one of these.
OneShotAccounted ==
    Running /\ pc # "setup" => \A fd \in Live \cup {Pipe} :
        \/ fd \in armed /\ fd \notin BatchFds /\ fd \notin Held
        \/ fd \notin armed /\ fd \in BatchFds /\ fd \notin Held
        \/ fd \notin armed /\ fd \notin BatchFds /\ fd \in Held

\* An armed descriptor with something to report is in the ready list, whatever
\* arrived between the EAGAIN of recv and reset_oneshot; and only such
\* descriptors are in it.
NoLostWakeup ==
    /\ \A c \in Live \cap armed : HasEvents(c) <=> c \in ToSet(rdlist)
    /\ Pipe \in armed => (pipe # <<>> <=> Pipe \in ToSet(rdlist))

\* Every accept() the loop is going to make finds a connection: an event of the
\* listening socket never outlives the connection that caused it.
AcceptFindsConnection ==
    LET events == (IF Listen \in ToSet(rdlist) THEN 1 ELSE 0)
                  + (IF Listen \in BatchFds THEN 1 ELSE 0)
    IN  Len(backlog) >= events

\* What a client sent on a live connection is, in order and without gaps, what
\* the read handler got, what waits in receive Buffers and what the socket holds;
\* a closed connection may lose a tail, nothing else.
StreamIntact ==
    \A c \in Conns :
        LET got == handled[c] \o FlattenSeq(recvList[c]) \o rx[c]
        IN  /\ got = [i \in 1..Len(got) |-> i]
            /\ session[c] # "deleted" => Len(got) = sent[c]

\* recv() never writes behind the end of a Buffer.
BuffersInBounds ==
    \A c \in Conns : \A i \in DOMAIN recvList[c] : Len(recvList[c][i]) <= BufSize

\* Clients that only connect, send and close cannot end the process: it exits only
\* while a session it holds has an error pending, or because of a signal that came
\* before lazy_set_current_reactor, when no session exists.
OrderlyClientsHarmless ==
    pc = "exit" =>
        \/ \E c \in Live : err[c] # "none"
        \/ raised > 0 /\ \A c \in Conns : session[c] = "none"

\* The bookkeeping behind these: what each piece of the loop's state says about
\* the others.
Registrations ==
    /\ IsInjective(rdlist) /\ ToSet(rdlist) \subseteq armed
    /\ pc # "setup" => Listen \in armed
    /\ armed \subseteq Live \cup {Listen, Pipe}
    /\ BatchFds \cap armed \subseteq {Listen}

Phases ==
    /\ pc \in Startup \cup {"start", "epoll_wait", "returned"} => batch = <<>>
    /\ pc \in Startup => ~alarm /\ pipe = <<>> /\ \A c \in Conns : session[c] = "none"
    /\ pc = "setup" => armed = {}
    /\ pc = "dispatch" => batch # <<>>
    /\ pc \in {"handle_read", "reset_oneshot"} => cur \in Live \ armed /\ cur \notin BatchFds
    /\ pc = "reset_oneshot" => recvList[cur] # <<>>
    /\ pc \notin {"handle_read", "reset_oneshot", "exit"} => cur = NoSession
    /\ pc = "handle_sig_timer" <=> sigs # <<>>
    /\ pc = "handle_sig_timer" => Pipe \notin BatchFds
    /\ Pipe \in BatchFds => pipe # <<>>

Arrivals ==
    /\ IsInjective(backlog)
    /\ \A c \in Conns : c \in ToSet(backlog) => session[c] = "none" /\ peer[c] # "idle"
    /\ \A c \in Conns : peer[c] = "idle" => session[c] = "none"

\* The inductive invariant from which all of these follow; StreamIntact is inductive
\* together with it.
LoopInv ==
    /\ TypeOK /\ Registrations /\ Phases /\ Arrivals
    /\ NoDanglingEvent /\ OneShotAccounted /\ NoLostWakeup /\ AcceptFindsConnection
    /\ BuffersInBounds

-----------------------------------------------------------------------------
(* Liveness.                                                               *)

\* Data that reaches the socket of a live session is received, or the session
\* is closed, as long as the loop runs.
DataReceived ==
    \A c \in Conns :
        (session[c] = "live" /\ rx[c] # <<>>)
            ~> (rx[c] = <<>> \/ session[c] = "deleted" \/ ~Running)

\* The read handler is given one Buffer per wake-up; if a client never has more
\* than one Buffer of unhandled data, that is enough for all of it.
Unhandled(c) == sent[c] - Len(handled[c])
SmallDataHandled ==
    \A c \in Conns :
        [](Unhandled(c) <= BufSize) =>
            ((session[c] = "live" /\ Unhandled(c) > 0)
                ~> (Unhandled(c) = 0 \/ session[c] = "deleted" \/ ~Running))

\* One accept per edge is enough as long as connections arrive one by one and each
\* finds a descriptor free, even for one that came before the registration.
AcceptedUnlessBurst ==
    [](backlog # <<>> => Len(backlog) = 1 /\ ~OutOfFds) =>
        \A c \in Conns :
            (c \in ToSet(backlog)) ~> (session[c] # "none" \/ ~Running)

\* A SIGINT that got into the pipe stops the loop.
InterruptStops == (SIGINT \in ToSet(pipe)) ~> ~Running

\* As long as the pipe has room for every signal, the alarm is set again and
\* again: the timers never stop.
TimersKeepRunning ==
    [](Len(pipe) < PipeCap) => ([]<>alarm \/ <>~Running)

============================================================================

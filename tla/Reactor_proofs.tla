--------------------------- MODULE Reactor_proofs ---------------------------
(***************************************************************************)
(* Theorems about the event loop of module Reactor, for every number of    *)
(* connections, every batch size, buffer size and pipe capacity.           *)
(*                                                                         *)
(* The argument is one inductive invariant, LoopInv. Its step lemma is     *)
(* split by actor: the clients and the signals first, then each action of  *)
(* the loop. StreamIntact comes last and is proved from LoopInv: each step *)
(* either leaves what handlers, Buffers and socket of a connection hold    *)
(* together as it was (SameStream), or adds what the client sent behind    *)
(* it.                                                                     *)
(***************************************************************************)
EXTENDS Reactor, SeqFacts

USE DEF Startup

-----------------------------------------------------------------------------
\* Linking a descriptor into the ready list, whether or not it is there.
LEMMA EnqueueFacts ==
    ASSUME NEW S, NEW s \in Seq(S), NEW x \in S
    PROVE  /\ Enqueue(s, x) \in Seq(S)
           /\ ToSet(Enqueue(s, x)) = ToSet(s) \cup {x}
           /\ IsInjective(s) => IsInjective(Enqueue(s, x))
BY AppendFacts DEF Enqueue

-----------------------------------------------------------------------------
(* The outside: clients and signals.                                       *)

\* The event a wake-up of the ready list adds: the facts every wake-up shares.
LEMMA WakeFacts ==
    ASSUME LoopInv, NEW fd \in Fds, EpollWake(fd)
    PROVE  /\ rdlist' \in Seq(Fds) /\ armed' = armed
           /\ IsInjective(rdlist') /\ ToSet(rdlist') \subseteq armed
           /\ \A x : x \in ToSet(rdlist')
                        <=> x \in ToSet(rdlist) \/ (x = fd /\ fd \in armed)
<1>1. /\ rdlist \in Seq(Fds) /\ IsInjective(rdlist) /\ ToSet(rdlist) \subseteq armed
      /\ rdlist' = (IF fd \in armed THEN Enqueue(rdlist, fd) ELSE rdlist) /\ armed' = armed
    BY DEF EpollWake, LoopInv, TypeOK, Registrations
<1>2. CASE fd \in armed
    <2>1. /\ rdlist' \in Seq(Fds) /\ IsInjective(rdlist')
          /\ ToSet(rdlist') = ToSet(rdlist) \cup {fd}
        BY <1>1, <1>2, EnqueueFacts
    <2>. QED  BY <1>1, <1>2, <2>1
<1>3. CASE fd \notin armed
    BY <1>1, <1>3
<1>. QED  BY <1>2, <1>3

\* A step of one client that leaves its socket with something to report keeps
\* the invariant.
LEMMA ClientWake ==
    ASSUME LoopInv, NEW c \in Conns, EpollWake(c), TypeOK',
           UNCHANGED <<loopVars, session, recvList, backlog, pipe, alarm>>,
           HasEvents(c)', \A d \in Conns \ {c} : HasEvents(d)' <=> HasEvents(d),
           \A d \in Conns : peer'[d] = "idle" <=> peer[d] = "idle"
    PROVE  LoopInv'
<1> USE DEF loopVars, Live, BatchFds
<1>1. /\ armed' = armed
      /\ IsInjective(rdlist') /\ ToSet(rdlist') \subseteq armed
      /\ \A x : x \in ToSet(rdlist') <=> x \in ToSet(rdlist) \/ (x = c /\ c \in armed)
    BY WakeFacts DEF Fds
<1>2. c # Listen /\ c # Pipe
    BY ReactorAssumption
<1>3. Registrations'
    BY <1>1 DEF LoopInv, Registrations
<1>4. Phases'
    BY <1>1 DEF LoopInv, Phases
<1>5. Arrivals'
    BY DEF LoopInv, Arrivals
<1>6. NoDanglingEvent'
    BY <1>1 DEF LoopInv, NoDanglingEvent, Held, Registrations
<1>7. OneShotAccounted'
    BY <1>1 DEF LoopInv, OneShotAccounted, Held, Running
<1>8. NoLostWakeup'
    BY <1>1, <1>2 DEF LoopInv, NoLostWakeup
<1>9. AcceptFindsConnection'
    BY <1>1, <1>2 DEF LoopInv, AcceptFindsConnection
<1>. QED  BY <1>3, <1>4, <1>5, <1>6, <1>7, <1>8, <1>9
          DEF LoopInv, BuffersInBounds

\* Every step of a client keeps the invariant.
LEMMA ClientStepInv ==
    ASSUME LoopInv, Running, ClientStep
    PROVE  LoopInv'
<1>1. PICK c \in Conns :
          Connect(c) \/ SendUnit(c) \/ ClientClose(c) \/ ClientReset(c) \/ SocketError(c)
    BY DEF ClientStep
<1>2. c \in Fds /\ Listen \in Fds /\ Pipe \in Fds /\ c # Listen /\ c # Pipe /\ Listen # Pipe
    BY ReactorAssumption DEF Fds
<1> USE DEF loopVars, sessionVars, sigVars, netVars, HasEvents, Readable
<1>3. CASE Connect(c)
    <2> USE DEF Connect, Live, BatchFds
    <2>1. /\ rdlist' \in Seq(Fds) /\ armed' = armed
          /\ IsInjective(rdlist') /\ ToSet(rdlist') \subseteq armed
          /\ \A x : x \in ToSet(rdlist') <=> x \in ToSet(rdlist) \/ (x = Listen /\ Listen \in armed)
        BY <1>2, <1>3, WakeFacts
    <2>2. /\ backlog \in Seq(Conns) /\ IsInjective(backlog)
          /\ peer \in [Conns -> {"idle", "open", "fin"}] /\ c \notin ToSet(backlog)
          /\ session[c] = "none"
        BY <1>3 DEF LoopInv, TypeOK, Arrivals
    <2>3. /\ backlog' \in Seq(Conns) /\ IsInjective(backlog')
          /\ ToSet(backlog') = ToSet(backlog) \cup {c} /\ Len(backlog') = Len(backlog) + 1
        BY <1>3, <2>2, AppendFacts
    <2>4. peer' = [peer EXCEPT ![c] = "open"]
        BY <1>3
    <2>5. TypeOK'
        BY <1>3, <2>1, <2>2, <2>3 DEF LoopInv, TypeOK
    <2>6. Registrations'
        BY <1>3, <2>1 DEF LoopInv, Registrations
    <2>7. Phases'
        BY <1>3, <2>1 DEF LoopInv, Phases
    <2>8. Arrivals'
        BY <1>3, <2>2, <2>3, <2>4 DEF LoopInv, Arrivals
    <2>9. NoDanglingEvent'
        BY <1>3, <2>1 DEF LoopInv, NoDanglingEvent, Held, Registrations
    <2>10. OneShotAccounted'
        BY <1>3, <2>1 DEF LoopInv, OneShotAccounted, Held, Running
    <2>11. NoLostWakeup'
        <3>1. c \notin Live
            BY <2>2
        <3>2. \A d \in Conns \ {c} : peer'[d] = peer[d]
            BY <2>2, <2>4
        <3>3. \A d \in Conns \ {c} : d # Listen
            BY ReactorAssumption
        <3>. QED  BY <1>2, <1>3, <2>1, <3>1, <3>2, <3>3 DEF LoopInv, NoLostWakeup
    <2>12. AcceptFindsConnection'
        <3>1. Len(backlog) \in Nat
            BY <2>2
        <3>2. UNCHANGED batch
            BY <1>3
        <3>. QED  BY <2>1, <2>3, <3>1, <3>2 DEF LoopInv, AcceptFindsConnection
    <2>. QED  BY <1>3, <2>5, <2>6, <2>7, <2>8, <2>9, <2>10, <2>11, <2>12
              DEF LoopInv, BuffersInBounds
<1>4. CASE SendUnit(c)
    <2>1. rx[c] \in Seq(Nat) /\ sent[c] \in Nat
        BY DEF LoopInv, TypeOK
    <2>2. /\ Append(rx[c], sent[c] + 1) \in Seq(Nat)
          /\ Append(rx[c], sent[c] + 1) # <<>>
        BY <2>1
    <2>3. TypeOK'
        <3>1. rdlist' \in Seq(Fds) /\ armed' = armed
            BY <1>2, <1>4, WakeFacts DEF SendUnit
        <3>2. rx' \in [Conns -> Seq(Nat)]
            BY <1>4, <2>2 DEF SendUnit, LoopInv, TypeOK
        <3>3. sent' \in [Conns -> Nat]
            <4>1. sent \in [Conns -> Nat] /\ sent[c] + 1 \in Nat
                BY <2>1 DEF LoopInv, TypeOK
            <4>2. sent' = [sent EXCEPT ![c] = sent[c] + 1]
                BY <1>4 DEF SendUnit
            <4>. QED  BY <4>1, <4>2
        <3>. QED  BY <1>4, <3>1, <3>2, <3>3 DEF SendUnit, LoopInv, TypeOK
    <2>4. HasEvents(c)' /\ \A d \in Conns \ {c} : HasEvents(d)' <=> HasEvents(d)
        BY <1>4, <2>2 DEF SendUnit, LoopInv, TypeOK
    <2>. QED  BY <1>4, <2>3, <2>4, ClientWake DEF SendUnit
<1>5. CASE ClientClose(c)
    <2>1. TypeOK'
        BY <1>2, <1>5, WakeFacts DEF ClientClose, LoopInv, TypeOK
    <2>2. HasEvents(c)' /\ \A d \in Conns \ {c} : HasEvents(d)' <=> HasEvents(d)
        BY <1>5 DEF ClientClose, LoopInv, TypeOK
    <2>3. \A d \in Conns : peer'[d] = "idle" <=> peer[d] = "idle"
        BY <1>5 DEF ClientClose, Talking, LoopInv, TypeOK
    <2>. QED  BY <1>5, <2>1, <2>2, <2>3, ClientWake DEF ClientClose
<1>6. CASE ClientReset(c)
    <2>1. TypeOK'
        BY <1>2, <1>6, WakeFacts DEF ClientReset, LoopInv, TypeOK
    <2>2. HasEvents(c)' /\ \A d \in Conns \ {c} : HasEvents(d)' <=> HasEvents(d)
        BY <1>6 DEF ClientReset, LoopInv, TypeOK
    <2>. QED  BY <1>6, <2>1, <2>2, ClientWake DEF ClientReset
<1>7. CASE SocketError(c)
    <2>1. TypeOK'
        BY <1>2, <1>7, WakeFacts DEF SocketError, LoopInv, TypeOK
    <2>2. HasEvents(c)' /\ \A d \in Conns \ {c} : HasEvents(d)' <=> HasEvents(d)
        BY <1>7 DEF SocketError, LoopInv, TypeOK
    <2>. QED  BY <1>7, <2>1, <2>2, ClientWake DEF SocketError
<1>. QED  BY <1>1, <1>3, <1>4, <1>5, <1>6, <1>7

\* A signal, or the alarm, interrupting the loop anywhere keeps the invariant.
LEMMA SignalStepInv ==
    ASSUME LoopInv, AlarmFires \/ \E s \in Signals \ {SIGALRM} : RaiseSignal(s)
    PROVE  LoopInv'
<1> USE DEF loopVars, sessionVars, netVars, epollVars, Live, BatchFds, HasEvents, Readable
<1>1. PICK s \in Signals :
          sig_handler(s) /\ UNCHANGED <<loopVars, sessionVars, netVars>>
              /\ pc \notin Startup /\ alarm' \in BOOLEAN /\ raised' \in Nat
    <2>1. CASE AlarmFires
        BY <2>1 DEF AlarmFires, Signals, LoopInv, TypeOK, Phases
    <2>2. CASE \E s \in Signals \ {SIGALRM} : RaiseSignal(s)
        BY <2>2 DEF RaiseSignal, Signals, LoopInv, TypeOK
    <2>. QED  BY <2>1, <2>2
<1>2. Pipe \in Fds /\ Listen # Pipe /\ Pipe \notin Conns /\ PipeCap \in Nat
    BY ReactorAssumption DEF Fds
<1>3. CASE Len(pipe) < PipeCap
    <2>1. pipe' = Append(pipe, s) /\ EpollWake(Pipe)
        BY <1>1, <1>3 DEF sig_handler
    <2>2. pipe' \in Seq(Signals) /\ pipe' # <<>>
        BY <1>1, <2>1, AppendFacts DEF LoopInv, TypeOK
    <2>3. /\ rdlist' \in Seq(Fds) /\ armed' = armed
          /\ IsInjective(rdlist') /\ ToSet(rdlist') \subseteq armed
          /\ \A x : x \in ToSet(rdlist') <=> x \in ToSet(rdlist) \/ (x = Pipe /\ Pipe \in armed)
        BY <1>2, <2>1, WakeFacts
    <2>4. TypeOK'
        BY <1>1, <2>2, <2>3 DEF LoopInv, TypeOK
    <2>5. Registrations'
        BY <1>1, <2>3 DEF LoopInv, Registrations
    <2>6. Phases'
        BY <1>1, <2>2, <2>3 DEF LoopInv, Phases
    <2>7. Arrivals'
        BY <1>1 DEF LoopInv, Arrivals
    <2>8. NoDanglingEvent'
        BY <1>1, <2>3 DEF LoopInv, NoDanglingEvent, Held, Registrations
    <2>9. OneShotAccounted'
        BY <1>1, <2>3 DEF LoopInv, OneShotAccounted, Held, Running
    <2>10. NoLostWakeup'
        BY <1>1, <1>2, <2>2, <2>3 DEF LoopInv, NoLostWakeup
    <2>11. AcceptFindsConnection'
        BY <1>1, <1>2, <2>3 DEF LoopInv, AcceptFindsConnection
    <2>. QED  BY <1>1, <2>4, <2>5, <2>6, <2>7, <2>8, <2>9, <2>10, <2>11
              DEF LoopInv, BuffersInBounds
<1>4. CASE ~(Len(pipe) < PipeCap)
    <2>1. UNCHANGED <<pipe, epollVars, loopVars, sessionVars, netVars>>
        BY <1>1, <1>4 DEF sig_handler
    <2>2. TypeOK'
        BY <1>1, <2>1 DEF LoopInv, TypeOK
    <2>3. Registrations' /\ Phases' /\ Arrivals'
        BY <1>1, <2>1 DEF LoopInv, Registrations, Phases, Arrivals
    <2>4. NoDanglingEvent' /\ OneShotAccounted' /\ NoLostWakeup' /\ AcceptFindsConnection'
        BY <2>1 DEF LoopInv, NoDanglingEvent, OneShotAccounted, NoLostWakeup,
                    AcceptFindsConnection, Held, Running
    <2>. QED  BY <1>1, <2>2, <2>3, <2>4
              DEF LoopInv, BuffersInBounds
<1>. QED  BY <1>3, <1>4

-----------------------------------------------------------------------------
(* The loop.                                                               *)

\* Taking an entry out of events[]: the rest names the other descriptors.
LEMMA DispatchFacts ==
    ASSUME LoopInv, pc = "dispatch"
    PROVE  LET rest == Tail(batch)
               restFds == {rest[i].fd : i \in DOMAIN rest}
           IN  /\ rest \in Seq([fd : Fds, ev : {"IN", "ERR"}])
               /\ Head(batch).fd \in Fds
               /\ BatchFds = restFds \cup {Head(batch).fd}
               /\ Head(batch).fd \notin restFds
               /\ \A i, j \in DOMAIN rest : rest[i].fd = rest[j].fd => i = j
<1> DEFINE rest == Tail(batch)
           restFds == {rest[i].fd : i \in DOMAIN rest}
           Entries == [fd : Fds, ev : {"IN", "ERR"}]
<1>1. /\ batch \in Seq(Entries) /\ batch # <<>>
      /\ \A i, j \in DOMAIN batch : batch[i].fd = batch[j].fd => i = j
    BY DEF LoopInv, TypeOK, Phases, NoDanglingEvent
<1> HIDE DEF Entries
<1>2. /\ rest \in Seq(Entries) /\ Len(rest) = Len(batch) - 1 /\ Len(batch) \in Nat
      /\ Head(batch) \in Entries /\ Head(batch) = batch[1]
      /\ \A i \in 1..Len(rest) : rest[i] = batch[i + 1]
      /\ DOMAIN batch = 1..Len(batch) /\ DOMAIN rest = 1..Len(rest)
    BY <1>1, TailFacts
<1> HIDE DEF rest
<1>3. Head(batch).fd \in Fds
    BY <1>2 DEF Entries
<1>4. \A i \in 1..Len(batch) : i = 1 \/ (i - 1 \in 1..Len(rest) /\ batch[i] = rest[i - 1])
    BY <1>2
<1>5. \A i \in 1..Len(rest) : i + 1 \in 1..Len(batch) /\ rest[i] = batch[i + 1] /\ i + 1 # 1
    BY <1>2
<1>6. 1 \in 1..Len(batch)
    BY <1>1, <1>2
<1>7. ASSUME NEW x
      PROVE  x \in BatchFds <=> x \in restFds \/ x = Head(batch).fd
    <2>1. x \in BatchFds <=> \E i \in 1..Len(batch) : x = batch[i].fd
        BY <1>2 DEF BatchFds
    <2>2. x \in restFds <=> \E i \in 1..Len(rest) : x = rest[i].fd
        BY <1>2
    <2>. QED  BY <1>2, <1>4, <1>5, <1>6, <2>1, <2>2
<1>8. Head(batch).fd \notin restFds
    <2>1. \A i \in 1..Len(rest) : rest[i].fd # Head(batch).fd
        BY <1>1, <1>2, <1>5, <1>6
    <2>. QED  BY <1>2, <2>1
<1>9. \A i, j \in DOMAIN rest : rest[i].fd = rest[j].fd => i = j
    <2>1. ASSUME NEW i \in 1..Len(rest), NEW j \in 1..Len(rest), rest[i].fd = rest[j].fd
          PROVE  i = j
        <3>1. /\ i + 1 \in DOMAIN batch /\ j + 1 \in DOMAIN batch
              /\ batch[i + 1].fd = rest[i].fd /\ batch[j + 1].fd = rest[j].fd
            BY <1>2, <1>5
        <3>2. i + 1 = j + 1
            BY <1>1, <2>1, <3>1
        <3>. QED  BY <1>2, <3>2
    <2>. QED  BY <1>2, <2>1
<1>. QED  BY <1>2, <1>3, <1>7, <1>8, <1>9 DEF rest, Entries

\* Closing a session whose descriptor is disarmed leaves the ready list alone.
LEMMA CloseFacts ==
    ASSUME LoopInv, NEW c \in Conns, c \notin armed, CloseSession(c)
    PROVE  /\ rdlist' = rdlist /\ armed' = armed
           /\ session' \in [Conns -> {"none", "live", "deleted"}]
           /\ recvList' \in [Conns -> Seq(Seq(Nat))]
           /\ rx' \in [Conns -> Seq(Nat)]
           /\ Live' = Live \ {c}
           /\ \A d \in Conns \ {c} : session'[d] = session[d] /\ rx'[d] = rx[d]
           /\ session'[c] = "deleted"
<1>1. c \notin ToSet(rdlist)
    BY DEF LoopInv, Registrations
<1>2. rdlist' = rdlist /\ armed' = armed
    BY <1>1 DEF CloseSession, EpollDel, Unlink
<1>3. /\ session \in [Conns -> {"none", "live", "deleted"}]
      /\ recvList \in [Conns -> Seq(Seq(Nat))]
      /\ rx \in [Conns -> Seq(Nat)]
    BY DEF LoopInv, TypeOK
<1>4. <<>> \in Seq(Seq(Nat)) /\ <<>> \in Seq(Nat)
    OBVIOUS
<1>. QED  BY <1>2, <1>3, <1>4 DEF CloseSession, Live

\* The startup: registering the listening socket and the pipe, setting the current
\* reactor, and a signal that comes before that.
LEMMA StartupInv ==
    ASSUME LoopInv, lazy_create_reactor \/ lazy_set_current_reactor \/ EarlySignal
    PROVE  LoopInv'
<1>1. CASE lazy_create_reactor
    <2>1. /\ pc = "setup" /\ pc' = "created" /\ armed' = {Listen, Pipe}
          /\ rdlist' = (IF backlog # <<>> THEN <<Listen>> ELSE <<>>)
          /\ UNCHANGED <<batch, cur, stop, sigs, sessionVars, netVars, sigVars>>
        BY <1>1 DEF lazy_create_reactor
    <2> USE DEF sessionVars, netVars, sigVars
    <2>2. /\ batch = <<>> /\ pipe = <<>> /\ sigs = <<>> /\ cur = NoSession /\ ~alarm
          /\ \A c \in Conns : session[c] = "none"
          /\ Listen # Pipe /\ Listen \in Fds /\ Pipe \in Fds
          /\ backlog \in Seq(Conns)
        BY <2>1, ReactorAssumption DEF LoopInv, Phases, TypeOK, Fds
    <2>3. /\ BatchFds = {} /\ BatchFds' = {} /\ Held' = {} /\ Live = {} /\ Live' = {}
        BY <2>1, <2>2 DEF BatchFds, Held, Live
    <2>4. /\ rdlist' \in Seq(Fds) /\ IsInjective(rdlist') /\ ToSet(rdlist') \subseteq {Listen}
          /\ Listen \in ToSet(rdlist') => backlog # <<>>
        <3>1. CASE backlog # <<>>
            <4>1. rdlist' = <<Listen>>
                BY <2>1, <3>1
            <4>. QED  BY <2>2, <3>1, <4>1 DEF IsInjective, ToSet
        <3>2. CASE backlog = <<>>
            <4>1. rdlist' = <<>>
                BY <2>1, <3>2
            <4>. QED  BY <4>1 DEF IsInjective, ToSet
        <3>. QED  BY <3>1, <3>2
    <2>5. TypeOK'
        BY <2>1, <2>2, <2>4 DEF LoopInv, TypeOK
    <2>6. Registrations'
        BY <2>1, <2>3, <2>4 DEF Registrations
    <2>7. Phases'
        BY <2>1, <2>2, <2>3 DEF Phases
    <2>8. Arrivals'
        BY <2>1 DEF LoopInv, Arrivals
    <2>9. NoDanglingEvent'
        BY <2>1, <2>2, <2>3, <2>4 DEF NoDanglingEvent
    <2>10. OneShotAccounted' /\ NoLostWakeup'
        BY <2>1, <2>2, <2>3, <2>4 DEF OneShotAccounted, NoLostWakeup
    <2>11. AcceptFindsConnection'
        <3>1. Len(backlog) \in Nat /\ (backlog # <<>> => Len(backlog) >= 1)
            BY <2>2
        <3>. QED  BY <2>1, <2>3, <2>4, <3>1 DEF AcceptFindsConnection
    <2>12. BuffersInBounds'
        BY <2>1 DEF LoopInv, BuffersInBounds
    <2>. QED  BY <2>5, <2>6, <2>7, <2>8, <2>9, <2>10, <2>11, <2>12 DEF LoopInv
<1>2. CASE lazy_set_current_reactor \/ EarlySignal
    <2>1. /\ pc = "created" /\ pc' \in {"start", "exit"} /\ raised' \in Nat
          /\ UNCHANGED <<epollVars, batch, cur, stop, sigs, sessionVars, netVars, pipe, alarm>>
        BY <1>2 DEF lazy_set_current_reactor, EarlySignal, sigVars, LoopInv, TypeOK
    <2> USE DEF epollVars, sessionVars, netVars
    <2>2. BatchFds' = BatchFds /\ Held' = {} /\ Held = {} /\ Live' = Live
        BY <2>1 DEF BatchFds, Held, Live
    <2>3. TypeOK'
        BY <2>1 DEF LoopInv, TypeOK
    <2>4. Registrations' /\ Arrivals'
        BY <2>1, <2>2 DEF LoopInv, Registrations, Arrivals
    <2>5. Phases'
        BY <2>1, <2>2 DEF LoopInv, Phases
    <2>6. NoDanglingEvent' /\ AcceptFindsConnection'
        BY <2>1, <2>2 DEF LoopInv, NoDanglingEvent, AcceptFindsConnection
    <2>7. OneShotAccounted' /\ NoLostWakeup'
        BY <2>1, <2>2 DEF LoopInv, OneShotAccounted, NoLostWakeup, Running, HasEvents, Readable
    <2>8. BuffersInBounds'
        BY <2>1 DEF LoopInv, BuffersInBounds
    <2>. QED  BY <2>3, <2>4, <2>5, <2>6, <2>7, <2>8 DEF LoopInv
<1>. QED  BY <1>1, <1>2

\* lazy_loop: setting the alarm, and leaving the loop.
LEMMA StartStopInv ==
    ASSUME LoopInv, StartLoop \/ StopLoop
    PROVE  LoopInv'
<1> USE DEF StartLoop, StopLoop, sessionVars, netVars, sigVars, epollVars, Live, BatchFds,
            HasEvents, Readable
<1>1. TypeOK'
    BY DEF LoopInv, TypeOK
<1>2. Registrations' /\ Phases' /\ Arrivals'
    BY DEF LoopInv, Registrations, Phases, Arrivals
<1>3. NoDanglingEvent' /\ OneShotAccounted' /\ NoLostWakeup' /\ AcceptFindsConnection'
    BY DEF LoopInv, NoDanglingEvent, OneShotAccounted, NoLostWakeup, AcceptFindsConnection,
           Held, Running
<1>. QED  BY <1>1, <1>2, <1>3
          DEF LoopInv, BuffersInBounds

\* epoll_wait: what it reports moves from the ready list to events[], and the
\* one-shot descriptors among it are disarmed.
LEMMA EpollWaitInv ==
    ASSUME LoopInv, EpollWait
    PROVE  LoopInv'
<1> DEFINE n == IF Len(rdlist) < MaxEvents THEN Len(rdlist) ELSE MaxEvents
           reported == {rdlist[i] : i \in 1..n}
           Entries == [fd : Fds, ev : {"IN", "ERR"}]
<1>1. /\ rdlist \in Seq(Fds) /\ rdlist # <<>> /\ IsInjective(rdlist)
      /\ ToSet(rdlist) \subseteq armed /\ armed \subseteq Fds /\ Listen \in armed
      /\ armed \subseteq Live \cup {Listen, Pipe}
      /\ batch = <<>> /\ cur = NoSession /\ pc = "epoll_wait" /\ sigs = <<>>
    BY DEF EpollWait, LoopInv, TypeOK, Registrations, Phases
<1>2. /\ n \in 1..Len(rdlist) /\ Len(rdlist) \in Nat
      /\ batch' = [i \in 1..n |-> [fd |-> rdlist[i], ev |-> EventOf(rdlist[i])]]
      /\ rdlist' = SubSeq(rdlist, n + 1, Len(rdlist))
      /\ armed' = armed \ {fd \in OneShotFds : \E i \in 1..n : rdlist[i] = fd}
      /\ pc' = "dispatch"
      /\ UNCHANGED <<cur, stop, sigs, sessionVars, netVars, sigVars>>
    BY <1>1, ReactorAssumption DEF EpollWait, EpollReport
<1> HIDE DEF n
<1>3. /\ rdlist' \in Seq(Fds) /\ IsInjective(rdlist')
      /\ ToSet(rdlist) = ToSet(rdlist') \cup reported
      /\ ToSet(rdlist') \cap reported = {}
    <2>1. n \in 0..Len(rdlist)
        BY <1>2
    <2>. QED  BY <1>1, <1>2, <2>1, RestFacts
<1>4. /\ \A i \in 1..n : rdlist[i] \in Fds
      /\ DOMAIN batch' = 1..n /\ \A i \in 1..n : batch'[i].fd = rdlist[i]
      /\ \A i \in 1..n : batch'[i] \in Entries
    BY <1>1, <1>2 DEF EventOf
<1> HIDE DEF Entries
<1>5. batch' \in Seq(Entries) /\ batch' # <<>>
    <2>1. n \in Nat /\ batch' \in [1..n -> Entries]
        BY <1>2, <1>4
    <2>2. batch' \in Seq(Entries) /\ Len(batch') = n
        BY <2>1
    <2>3. n # 0
        BY <1>2
    <2>. QED  BY <2>2, <2>3
<1>6. BatchFds' = reported
    BY <1>4 DEF BatchFds
<1>7. /\ armed' = armed \ (reported \ {Listen}) /\ reported \subseteq armed
      /\ reported \subseteq Fds
    BY <1>1, <1>2, <1>3 DEF OneShotFds
<1> HIDE DEF reported
<1>8. BatchFds = {}
    BY <1>1 DEF BatchFds
<1> USE DEF sessionVars, netVars, sigVars, Live
<1>9. TypeOK'
    BY <1>2, <1>3, <1>5, <1>7 DEF LoopInv, TypeOK, Entries
<1>10. Registrations'
    BY <1>1, <1>2, <1>3, <1>6, <1>7 DEF Registrations
<1>11. Phases'
    <2>1. Pipe \in reported => pipe # <<>>
        BY <1>3, <1>7 DEF LoopInv, NoLostWakeup
    <2>. QED  BY <1>1, <1>2, <1>5, <1>6, <2>1 DEF Phases
<1>12. Arrivals'
    BY <1>2 DEF LoopInv, Arrivals
<1>13. NoDanglingEvent'
    <2>1. \A i, j \in 1..n : rdlist[i] = rdlist[j] => i = j
        BY <1>1, <1>2 DEF IsInjective
    <2>2. Held' = {}
        BY <1>2 DEF Held
    <2>. QED  BY <1>1, <1>2, <1>3, <1>4, <1>6, <1>7, <2>1, <2>2 DEF NoDanglingEvent
<1>14. OneShotAccounted'
    <2>1. Held = {} /\ Held' = {} /\ Running
        BY <1>1, <1>2 DEF Held, Running
    <2>2. \A fd \in Live \cup {Pipe} : fd \in armed /\ fd # Listen
        BY <1>1, <1>8, <2>1, ReactorAssumption DEF LoopInv, OneShotAccounted
    <2>. QED  BY <1>2, <1>6, <1>7, <2>1, <2>2 DEF OneShotAccounted
<1>15. NoLostWakeup'
    BY <1>1, <1>2, <1>3, <1>7, ReactorAssumption
       DEF LoopInv, NoLostWakeup, HasEvents, Readable
<1>16. AcceptFindsConnection'
    BY <1>2, <1>3, <1>6, <1>8 DEF LoopInv, AcceptFindsConnection
<1>. QED  BY <1>2, <1>9, <1>10, <1>11, <1>12, <1>13, <1>14, <1>15, <1>16
          DEF LoopInv, BuffersInBounds

\* handle_accpet: whether or not accept() finds a connection and a descriptor.
LEMMA AcceptInv ==
    ASSUME LoopInv, handle_accpet
    PROVE  LoopInv'
<1> DEFINE rest == Tail(batch)
           restFds == {rest[i].fd : i \in DOMAIN rest}
<1>1. /\ pc = "dispatch" /\ Head(batch).fd = Listen
      /\ batch' = rest /\ pc' = (IF rest = <<>> THEN "epoll_wait" ELSE "dispatch")
      /\ UNCHANGED <<cur, stop, sigs, recvList, handled, peer, err, rx, sent, sigVars>>
    BY DEF handle_accpet, Dispatching, Continue
<1>2. /\ rest \in Seq([fd : Fds, ev : {"IN", "ERR"}])
      /\ BatchFds = restFds \cup {Listen} /\ Listen \notin restFds
      /\ \A i, j \in DOMAIN rest : rest[i].fd = rest[j].fd => i = j
      /\ BatchFds' = restFds
    <2>1. pc = "dispatch" /\ Head(batch).fd = Listen /\ batch' = rest
        BY <1>1
    <2>2. /\ rest \in Seq([fd : Fds, ev : {"IN", "ERR"}])
          /\ BatchFds = restFds \cup {Listen} /\ Listen \notin restFds
          /\ \A i, j \in DOMAIN rest : rest[i].fd = rest[j].fd => i = j
        BY <2>1, DispatchFacts
    <2>3. BatchFds' = restFds
        BY <2>1 DEF BatchFds
    <2>. QED  BY <2>2, <2>3
<1> HIDE DEF rest, restFds
<1>3. /\ cur = NoSession /\ Held = {} /\ Held' = {} /\ Running /\ sigs = <<>>
    BY <1>1 DEF LoopInv, Phases, Held, Running
<1>4. Listen \notin Conns /\ Pipe \notin Conns /\ Listen # Pipe
    BY ReactorAssumption
<1> USE DEF sigVars, HasEvents, Readable
<1>5. CASE AcceptOne
    <2> DEFINE c == Head(backlog)
    <2>1. /\ backlog # <<>> /\ backlog' = Tail(backlog)
          /\ session' = [session EXCEPT ![c] = "live"]
          /\ armed' = armed \cup {c}
          /\ rdlist' = (IF HasEvents(c) THEN Enqueue(rdlist, c) ELSE rdlist)
          /\ ghosts' = ghosts
        BY <1>5 DEF AcceptOne, EpollArm
    <2>2. /\ c \in Conns /\ c \in Fds /\ c \in ToSet(backlog)
          /\ backlog \in Seq(Conns) /\ backlog' \in Seq(Conns)
          /\ IsInjective(backlog') /\ c \notin ToSet(backlog')
          /\ ToSet(backlog) = ToSet(backlog') \cup {c}
          /\ Len(backlog') = Len(backlog) - 1 /\ Len(backlog) \in Nat
        <3>1. backlog \in Seq(Conns) /\ IsInjective(backlog)
            BY DEF LoopInv, TypeOK, Arrivals
        <3>. QED  BY <2>1, <3>1, TailFacts DEF Fds
    <2> HIDE DEF c
    <2>3. /\ session \in [Conns -> {"none", "live", "deleted"}]
          /\ session[c] = "none" /\ peer[c] # "idle" /\ c \notin Live
          /\ c \notin armed /\ c \notin BatchFds /\ c # Listen /\ c # Pipe
        <3>1. c # Listen /\ c # Pipe
            BY <1>4, <2>2
        <3>2. /\ session \in [Conns -> {"none", "live", "deleted"}]
              /\ session[c] = "none" /\ peer[c] # "idle"
            BY <2>2 DEF LoopInv, TypeOK, Arrivals
        <3>3. c \notin Live
            BY <3>2 DEF Live
        <3>. QED  BY <3>1, <3>2, <3>3 DEF LoopInv, NoDanglingEvent, Registrations
    <2>4. Live' = Live \cup {c} /\ session' \in [Conns -> {"none", "live", "deleted"}]
          /\ \A d \in Conns \ {c} : session'[d] = session[d]
        BY <2>1, <2>2, <2>3 DEF Live
    <2>5. /\ rdlist' \in Seq(Fds) /\ IsInjective(rdlist')
          /\ \A x : x \in ToSet(rdlist') <=> x \in ToSet(rdlist) \/ (x = c /\ HasEvents(c))
          /\ c \notin ToSet(rdlist)
        <3>1. rdlist \in Seq(Fds) /\ IsInjective(rdlist) /\ c \notin ToSet(rdlist)
            BY <2>3 DEF LoopInv, TypeOK, Registrations
        <3>2. CASE HasEvents(c)
            <4>1. rdlist' = Enqueue(rdlist, c)
                BY <2>1, <3>2
            <4>2. /\ Enqueue(rdlist, c) \in Seq(Fds) /\ IsInjective(Enqueue(rdlist, c))
                  /\ ToSet(Enqueue(rdlist, c)) = ToSet(rdlist) \cup {c}
                BY <2>2, <3>1, EnqueueFacts
            <4>. QED  BY <3>1, <3>2, <4>1, <4>2
        <3>3. CASE ~HasEvents(c)
            BY <2>1, <3>1, <3>3
        <3>. QED  BY <3>2, <3>3
    <2>6. TypeOK'
        BY <1>1, <1>2, <2>1, <2>2, <2>4, <2>5 DEF LoopInv, TypeOK
    <2>7. Registrations'
        BY <1>1, <1>2, <2>1, <2>3, <2>4, <2>5 DEF LoopInv, Registrations
    <2>8. Phases'
        BY <1>1, <1>2, <1>3 DEF LoopInv, Phases
    <2>9. Arrivals'
        BY <1>1, <2>2, <2>3, <2>4 DEF LoopInv, Arrivals
    <2>10. NoDanglingEvent'
        BY <1>1, <1>2, <1>3, <2>4, <2>5 DEF LoopInv, NoDanglingEvent
    <2>11. OneShotAccounted'
        <3>1. \A fd \in Live \cup {Pipe} : fd # c /\ fd # Listen
                  /\ (fd \in armed' <=> fd \in armed) /\ (fd \in BatchFds' <=> fd \in BatchFds)
            BY <1>2, <1>4, <2>1, <2>3 DEF Live
        <3>2. c \in armed' /\ c \notin BatchFds'
            BY <1>2, <2>1, <2>3
        <3>. QED  BY <1>1, <1>3, <2>4, <3>1, <3>2 DEF LoopInv, OneShotAccounted
    <2>12. NoLostWakeup'
        BY <1>1, <1>4, <2>1, <2>3, <2>4, <2>5 DEF LoopInv, NoLostWakeup
    <2>13. AcceptFindsConnection'
        BY <1>2, <2>2, <2>3, <2>5 DEF LoopInv, AcceptFindsConnection
    <2>. QED  BY <1>1, <2>6, <2>7, <2>8, <2>9, <2>10, <2>11, <2>12, <2>13
              DEF LoopInv, BuffersInBounds
<1>6. CASE AcceptFails
    <2>1. /\ ghosts' \in Nat /\ UNCHANGED <<backlog, session, rdlist, armed>>
        BY <1>6 DEF AcceptFails, epollVars, LoopInv, TypeOK
    <2> USE DEF Live
    <2>2. TypeOK'
        BY <1>1, <1>2, <2>1 DEF LoopInv, TypeOK
    <2>3. Registrations' /\ Arrivals'
        BY <1>1, <1>2, <2>1 DEF LoopInv, Registrations, Arrivals
    <2>4. Phases'
        BY <1>1, <1>2, <1>3 DEF LoopInv, Phases
    <2>5. NoDanglingEvent'
        BY <1>1, <1>2, <1>3, <2>1 DEF LoopInv, NoDanglingEvent
    <2>6. OneShotAccounted'
        BY <1>1, <1>2, <1>3, <1>4, <2>1 DEF LoopInv, OneShotAccounted, Running
    <2>7. NoLostWakeup'
        BY <1>1, <2>1 DEF LoopInv, NoLostWakeup
    <2>8. AcceptFindsConnection'
        <3>1. Len(backlog) \in Nat
            BY DEF LoopInv, TypeOK
        <3>. QED  BY <1>2, <2>1, <3>1 DEF LoopInv, AcceptFindsConnection
    <2>. QED  BY <1>1, <2>2, <2>3, <2>4, <2>5, <2>6, <2>7, <2>8
              DEF LoopInv, BuffersInBounds
<1>. QED  BY <1>5, <1>6 DEF handle_accpet

\* The list of receive Buffers recv() goes on with: it has a last one, and no
\* Buffer of it is overrun.
LEMMA RoomFacts ==
    ASSUME LoopInv, NEW c \in Conns
    PROVE  LET bufs == WithRoom(recvList[c])
           IN  /\ bufs \in Seq(Seq(Nat)) /\ bufs # <<>> /\ Len(bufs) \in 1..Len(bufs)
               /\ \A i \in DOMAIN bufs : Len(bufs[i]) <= BufSize
<1> DEFINE list == recvList[c]
           bufs == WithRoom(list)
<1>1. list \in Seq(Seq(Nat)) /\ Len(list) \in Nat
    BY DEF LoopInv, TypeOK
<1>4. \A i \in 1..Len(list) : Len(list[i]) <= BufSize
    BY <1>1 DEF LoopInv, BuffersInBounds
<1> HIDE DEF list
<1>2. bufs \in Seq(Seq(Nat)) /\ bufs # <<>> /\ Len(bufs) \in 1..Len(bufs)
    <2>1. <<>> \in Seq(Nat)
        OBVIOUS
    <2>2. bufs \in Seq(Seq(Nat)) /\ bufs # <<>>
        BY <1>1, <2>1, AppendFacts DEF WithRoom
    <2>. QED  BY <2>2
<1>3. \A i \in DOMAIN bufs : Len(bufs[i]) <= BufSize
    <2>1. CASE bufs = list
        BY <1>1, <1>4, <2>1
    <2>2. CASE bufs = Append(list, <<>>)
        <3>1. /\ DOMAIN bufs = 1..(Len(list) + 1)
              /\ \A i \in 1..Len(list) : bufs[i] = list[i]
              /\ bufs[Len(list) + 1] = <<>>
              /\ Len(list) \in Nat
            BY <1>1, <2>2
        <3>2. Len(<<>>) <= BufSize
            BY ReactorAssumption
        <3>. QED  BY <1>4, <3>1, <3>2
    <2>. QED  BY <2>1, <2>2 DEF WithRoom
<1>. QED  BY <1>2, <1>3 DEF list

\* handle_read, up to and including EAGAIN: the session stays the one the loop
\* holds, and nothing outside it changes.
LEMMA ReadInv ==
    ASSUME LoopInv, BeginRead \/ RecvData \/ RecvAgain \/ RecvError
    PROVE  LoopInv'
<1> USE DEF sessionVars, netVars, sigVars, epollVars, loopVars, HasEvents, Readable
<1>1. Listen \notin Conns /\ Pipe \notin Conns /\ Listen # Pipe /\ NoSession \notin Conns
    BY ReactorAssumption
<1>2. CASE BeginRead
    <2> DEFINE rest == Tail(batch)
               restFds == {rest[i].fd : i \in DOMAIN rest}
    <2>1. PICK c \in Conns :
              /\ pc = "dispatch" /\ Head(batch).fd = c
              /\ cur' = c /\ batch' = rest /\ pc' = "handle_read"
              /\ UNCHANGED <<epollVars, stop, sigs, sessionVars, netVars, sigVars>>
        BY <1>2 DEF BeginRead, Dispatching
    <2>2. /\ rest \in Seq([fd : Fds, ev : {"IN", "ERR"}])
          /\ BatchFds = restFds \cup {c} /\ c \notin restFds
          /\ \A i, j \in DOMAIN rest : rest[i].fd = rest[j].fd => i = j
          /\ BatchFds' = restFds
        <3>1. pc = "dispatch" /\ Head(batch).fd = c /\ batch' = rest
            BY <2>1
        <3>2. /\ rest \in Seq([fd : Fds, ev : {"IN", "ERR"}])
              /\ BatchFds = restFds \cup {c} /\ c \notin restFds
              /\ \A i, j \in DOMAIN rest : rest[i].fd = rest[j].fd => i = j
            BY <3>1, DispatchFacts
        <3>3. BatchFds' = restFds
            BY <3>1 DEF BatchFds
        <3>. QED  BY <3>2, <3>3
    <2> HIDE DEF rest, restFds
    <2>3. c \in Live /\ c \notin armed /\ c # Listen /\ c # Pipe /\ c \in Fds
        BY <1>1, <2>1, <2>2 DEF LoopInv, NoDanglingEvent, Registrations, Fds
    <2>4. cur = NoSession /\ Held = {} /\ Held' = {c} /\ Running /\ sigs = <<>>
        <3>1. pc = "dispatch" /\ pc' = "handle_read" /\ cur' = c /\ c \in Fds
            BY <2>1, <2>3
        <3>2. cur = NoSession /\ Running /\ sigs = <<>>
            BY <3>1 DEF LoopInv, Phases, Running
        <3>3. Held = {}
            BY <3>1 DEF Held
        <3>4. \A x : x \in Held' <=> x = c
            BY <3>1 DEF Held
        <3>. QED  BY <3>2, <3>3, <3>4
    <2>5. Live' = Live /\ ToSet(rdlist)' = ToSet(rdlist)
        BY <2>1 DEF Live
    <2>6. TypeOK'
        BY <2>1, <2>2 DEF LoopInv, TypeOK
    <2>7. Registrations' /\ Arrivals'
        BY <2>1, <2>2, <2>5 DEF LoopInv, Registrations, Arrivals
    <2>8. Phases'
        BY <2>1, <2>2, <2>3, <2>4, <2>5 DEF LoopInv, Phases
    <2>9. NoDanglingEvent'
        BY <2>1, <2>2, <2>3, <2>4, <2>5 DEF LoopInv, NoDanglingEvent
    <2>10. OneShotAccounted'
        BY <2>1, <2>2, <2>3, <2>4, <2>5 DEF LoopInv, OneShotAccounted
    <2>11. NoLostWakeup'
        BY <2>1, <2>5 DEF LoopInv, NoLostWakeup
    <2>12. AcceptFindsConnection'
        BY <2>1, <2>2, <2>3 DEF LoopInv, AcceptFindsConnection
    <2>. QED  BY <2>1, <2>6, <2>7, <2>8, <2>9, <2>10, <2>11, <2>12
              DEF LoopInv, BuffersInBounds
<1>3. CASE RecvData \/ RecvAgain \/ RecvError
    <2>1. /\ pc = "handle_read" /\ cur \in Live /\ cur \in Conns /\ cur \notin armed
          /\ cur \notin BatchFds
          /\ UNCHANGED <<epollVars, batch, cur, stop, sigs, session, handled, ghosts,
                        backlog, peer, err, sent, sigVars>>
          /\ pc' \in {"handle_read", "reset_oneshot", "exit"}
        BY <1>3 DEF RecvData, RecvAgain, RecvError, LoopInv, Phases, Live
    <2>2. /\ recvList' \in [Conns -> Seq(Seq(Nat))] /\ rx' \in [Conns -> Seq(Nat)]
          /\ \A d \in Conns \ {cur} : rx'[d] = rx[d]
          /\ pc' = "reset_oneshot" => recvList'[cur] # <<>>
          /\ BuffersInBounds'
        <3>1. /\ recvList \in [Conns -> Seq(Seq(Nat))] /\ recvList[cur] \in Seq(Seq(Nat))
              /\ rx \in [Conns -> Seq(Nat)] /\ rx[cur] \in Seq(Nat)
            BY <2>1 DEF LoopInv, TypeOK
        <3> DEFINE bufs == WithRoom(recvList[cur])
        <3>2. bufs \in Seq(Seq(Nat)) /\ bufs # <<>> /\ Len(bufs) \in 1..Len(bufs)
            BY <2>1, RoomFacts
        <3>6. \A i \in DOMAIN bufs : Len(bufs[i]) <= BufSize
            BY <2>1, RoomFacts
        <3> HIDE DEF bufs
        <3>3. CASE RecvData
            <4> DEFINE room == Room(Last(bufs))
                       n == IF Len(rx[cur]) < room THEN Len(rx[cur]) ELSE room
                       got == SubSeq(rx[cur], 1, n)
                       left == SubSeq(rx[cur], n + 1, Len(rx[cur]))
            <4>1. /\ recvList' = [recvList EXCEPT ![cur] =
                                     [bufs EXCEPT ![Len(bufs)] = Filled(@, got)]]
                  /\ rx' = [rx EXCEPT ![cur] = left] /\ pc' = "handle_read"
                BY <2>1, <3>3 DEF RecvData, bufs, loopVars
            <4>2. Last(bufs) \in Seq(Nat) /\ bufs[Len(bufs)] \in Seq(Nat)
                BY <3>2 DEF Last
            <4>3. room = BufSize - Len(bufs[Len(bufs)]) /\ room \in Nat
                BY <3>2, <3>6, <4>2, ReactorAssumption DEF Last, Room
            <4>4. n \in 0..Len(rx[cur]) /\ n <= room
                BY <3>1, <4>3
            <4> HIDE DEF room, n
            <4>5. got \in Seq(Nat) /\ Len(got) = n
                BY <3>1, <4>4
            <4>6. left \in Seq(Nat)
                BY <3>1, <4>4, RestFacts
            <4> HIDE DEF got, left
            <4>7. /\ Filled(bufs[Len(bufs)], got) \in Seq(Nat)
                  /\ Len(Filled(bufs[Len(bufs)], got)) = Len(bufs[Len(bufs)]) + Len(got)
                BY <4>2, <4>5, ConcatProperties DEF Filled
            <4>8. Len(Filled(bufs[Len(bufs)], got)) <= BufSize
                BY <4>2, <4>3, <4>4, <4>5, <4>7, ReactorAssumption
            <4> DEFINE after == [bufs EXCEPT ![Len(bufs)] = Filled(@, got)]
            <4>9. /\ after \in Seq(Seq(Nat)) /\ Len(after) = Len(bufs)
                  /\ \A i \in DOMAIN after : Len(after[i]) <= BufSize
                BY <3>2, <3>6, <4>7, <4>8, ExceptSeq
            <4> HIDE DEF after
            <4>10. recvList' = [recvList EXCEPT ![cur] = after]
                BY <4>1 DEF after
            <4>. QED  BY <2>1, <3>1, <4>1, <4>6, <4>9, <4>10 DEF LoopInv, BuffersInBounds
        <3>4. CASE RecvAgain
            <4>1. recvList' = [recvList EXCEPT ![cur] = bufs] /\ rx' = rx
                BY <3>4 DEF RecvAgain, bufs
            <4>. QED  BY <2>1, <3>1, <3>2, <3>6, <4>1 DEF LoopInv, BuffersInBounds
        <3>5. CASE RecvError
            BY <3>1, <3>5 DEF RecvError, LoopInv, BuffersInBounds
        <3>. QED  BY <1>3, <3>3, <3>4, <3>5
    <2>3. /\ cur \in Fds /\ Held = {cur} /\ Held' \subseteq {cur}
          /\ (pc' # "exit" => Held' = {cur}) /\ Running /\ (Running' => pc' # "exit")
        <3>1. /\ pc = "handle_read" /\ pc' \in {"handle_read", "reset_oneshot", "exit"}
              /\ cur \in Conns /\ cur' = cur
            BY <2>1
        <3>2. \A x : x \in Held <=> x = cur
            BY <3>1 DEF Held, Fds
        <3>3. \A x : x \in Held' <=> x = cur /\ pc' # "exit"
            BY <3>1 DEF Held, Fds
        <3>4. cur \in Fds /\ Running /\ (Running' => pc' # "exit")
            BY <3>1 DEF Running, Fds
        <3>5. Held = {cur} /\ (pc' # "exit" => Held' = {cur}) /\ Held' \subseteq {cur}
            BY <3>2, <3>3
        <3>. QED  BY <3>4, <3>5
    <2>4. /\ Live' = Live /\ BatchFds' = BatchFds /\ ToSet(rdlist)' = ToSet(rdlist)
          /\ rdlist' = rdlist /\ armed' = armed
        BY <2>1 DEF Live, BatchFds
    <2>5. TypeOK'
        BY <2>1, <2>2 DEF LoopInv, TypeOK
    <2>6. Registrations' /\ Arrivals'
        BY <2>1, <2>4 DEF LoopInv, Registrations, Arrivals
    <2>7. Phases'
        BY <2>1, <2>2, <2>4 DEF LoopInv, Phases
    <2>8. NoDanglingEvent'
        BY <2>1, <2>3, <2>4 DEF LoopInv, NoDanglingEvent
    <2>9. OneShotAccounted'
        BY <2>1, <2>3, <2>4 DEF LoopInv, OneShotAccounted
    <2>10. NoLostWakeup'
        <3>1. \A d \in Live \cap armed : d \in Conns \ {cur}
            BY <2>1 DEF Live
        <3>. QED  BY <2>1, <2>2, <2>4, <3>1 DEF LoopInv, NoLostWakeup
    <2>11. AcceptFindsConnection'
        BY <2>1, <2>4 DEF LoopInv, AcceptFindsConnection
    <2>. QED  BY <2>2, <2>5, <2>6, <2>7, <2>8, <2>9, <2>10, <2>11 DEF LoopInv
<1>. QED  BY <1>2, <1>3

\* The end of a session, at end of file or by an error event: nothing in the
\* loop's state names it any more.
LEMMA CloseInv ==
    ASSUME LoopInv, RecvEof \/ HandleError
    PROVE  LoopInv'
<1>1. PICK c \in Conns :
          /\ c \in Live /\ c \notin armed /\ CloseSession(c)
          /\ c \notin BatchFds' /\ BatchFds' \subseteq BatchFds
          /\ batch' \in Seq([fd : Fds, ev : {"IN", "ERR"}])
          /\ \A i, j \in DOMAIN batch' : batch'[i].fd = batch'[j].fd => i = j
          /\ \A x \in BatchFds : x = c \/ x \in BatchFds'
          /\ \A x \in Held : x = c
          /\ pc' = (IF batch' = <<>> THEN "epoll_wait" ELSE "dispatch")
          /\ cur' = NoSession /\ sigs = <<>> /\ Running
          /\ pc \in {"handle_read", "dispatch"}
          /\ UNCHANGED <<stop, sigs, handled, ghosts, backlog, peer, err, sent, sigVars>>
    <2>1. CASE RecvEof
        <3>1. /\ pc = "handle_read" /\ cur \in Live /\ cur \in Conns /\ cur \notin armed
              /\ cur \notin BatchFds /\ CloseSession(cur) /\ sigs = <<>> /\ Running
              /\ batch' = batch /\ cur' = NoSession
              /\ pc' = (IF batch' = <<>> THEN "epoll_wait" ELSE "dispatch")
              /\ UNCHANGED <<stop, sigs, handled, ghosts, backlog, peer, err, sent, sigVars>>
            BY <2>1 DEF RecvEof, LeaveRead, Continue, LoopInv, Phases, Live, Running
        <3>2. BatchFds' = BatchFds
            BY <3>1 DEF BatchFds
        <3>3. \A x \in Held : x = cur
            BY <3>1 DEF Held
        <3>4. /\ batch' \in Seq([fd : Fds, ev : {"IN", "ERR"}])
              /\ \A i, j \in DOMAIN batch' : batch'[i].fd = batch'[j].fd => i = j
            BY <3>1 DEF LoopInv, TypeOK, NoDanglingEvent
        <3>. QED  BY <3>1, <3>2, <3>3, <3>4
    <2>2. CASE HandleError
        <3>1. PICK c \in Conns :
                  /\ pc = "dispatch" /\ Head(batch).fd = c /\ CloseSession(c)
                  /\ batch' = Tail(batch)
                  /\ pc' = (IF batch' = <<>> THEN "epoll_wait" ELSE "dispatch")
                  /\ UNCHANGED <<cur, stop, sigs, handled, ghosts, backlog, peer, err,
                                sent, sigVars>>
            BY <2>2 DEF HandleError, Dispatching, Continue
        <3>2. /\ batch' \in Seq([fd : Fds, ev : {"IN", "ERR"}])
              /\ BatchFds = BatchFds' \cup {c} /\ c \notin BatchFds'
              /\ \A i, j \in DOMAIN batch' : batch'[i].fd = batch'[j].fd => i = j
            <4>1. pc = "dispatch" /\ Head(batch).fd = c /\ batch' = Tail(batch)
                BY <3>1
            <4>2. /\ Tail(batch) \in Seq([fd : Fds, ev : {"IN", "ERR"}])
                  /\ LET restFds == {Tail(batch)[i].fd : i \in DOMAIN Tail(batch)}
                     IN  BatchFds = restFds \cup {c} /\ c \notin restFds
                  /\ \A i, j \in DOMAIN Tail(batch) :
                        Tail(batch)[i].fd = Tail(batch)[j].fd => i = j
                BY <4>1, DispatchFacts
            <4>3. BatchFds' = {Tail(batch)[i].fd : i \in DOMAIN Tail(batch)}
                BY <4>1 DEF BatchFds
            <4>. QED  BY <4>1, <4>2, <4>3
        <3>3. c # Listen /\ c # Pipe
            BY ReactorAssumption
        <3>4. c \in Live /\ c \notin armed
            BY <3>2, <3>3 DEF LoopInv, NoDanglingEvent, Registrations
        <3>5. Held = {} /\ Running /\ cur = NoSession /\ sigs = <<>>
            BY <3>1 DEF LoopInv, Phases, Held, Running
        <3>. QED  BY <3>1, <3>2, <3>4, <3>5
    <2>. QED  BY <2>1, <2>2
<1>2. /\ rdlist' = rdlist /\ armed' = armed
      /\ session' \in [Conns -> {"none", "live", "deleted"}]
      /\ recvList' \in [Conns -> Seq(Seq(Nat))] /\ rx' \in [Conns -> Seq(Nat)]
      /\ Live' = Live \ {c}
      /\ \A d \in Conns \ {c} : session'[d] = session[d] /\ rx'[d] = rx[d]
      /\ session'[c] = "deleted"
    BY <1>1, CloseFacts
<1>3. /\ c # Listen /\ c # Pipe /\ Listen \notin Conns /\ Pipe \notin Conns /\ Listen # Pipe
      /\ Held' = {}
    BY <1>1, ReactorAssumption DEF Held
<1> USE DEF sigVars
<1>5. TypeOK'
    BY <1>1, <1>2 DEF LoopInv, TypeOK
<1>6. Registrations'
    BY <1>1, <1>2, <1>3 DEF LoopInv, Registrations
<1>7. Phases'
    BY <1>1, <1>2 DEF LoopInv, Phases
<1>8. Arrivals'
    <2>1. c \notin ToSet(backlog) /\ peer[c] # "idle"
        BY <1>1 DEF LoopInv, Arrivals, Live
    <2>. QED  BY <1>1, <1>2, <2>1 DEF LoopInv, Arrivals
<1>9. NoDanglingEvent'
    <2>1. c \notin ToSet(rdlist)
        BY <1>1 DEF LoopInv, Registrations
    <2>. QED  BY <1>1, <1>2, <1>3, <2>1 DEF LoopInv, NoDanglingEvent
<1>10. OneShotAccounted'
    <2>1. \A fd \in Live \cup {Pipe} : fd # c =>
              /\ fd \notin Held /\ (fd \in BatchFds' <=> fd \in BatchFds)
              /\ (fd \in armed' <=> fd \in armed)
        BY <1>1, <1>2
    <2>2. \A fd \in Live' \cup {Pipe} : fd \in Live \cup {Pipe} /\ fd # c
        BY <1>2, <1>3
    <2>. QED  BY <1>1, <1>3, <2>1, <2>2 DEF LoopInv, OneShotAccounted
<1>11. NoLostWakeup'
    <2>1. \A d \in Live' : d \in Conns \ {c} /\ d \in Live
        BY <1>2 DEF Live
    <2>. QED  BY <1>1, <1>2, <2>1 DEF LoopInv, NoLostWakeup, HasEvents, Readable
<1>12. AcceptFindsConnection'
    BY <1>1, <1>2, <1>3 DEF LoopInv, AcceptFindsConnection
<1>13. BuffersInBounds'
    <2>1. recvList' = [recvList EXCEPT ![c] = <<>>]
        BY <1>1 DEF CloseSession
    <2>2. recvList \in [Conns -> Seq(Seq(Nat))]
        BY DEF LoopInv, TypeOK
    <2>. QED  BY <2>1, <2>2 DEF LoopInv, BuffersInBounds
<1>. QED  BY <1>5, <1>6, <1>7, <1>8, <1>9, <1>10, <1>11, <1>12, <1>13 DEF LoopInv

\* reset_oneshot, whether or not the descriptor was armed already.
LEMMA ResetFacts ==
    ASSUME LoopInv, NEW fd \in Fds, NEW pending \in BOOLEAN, reset_oneshot(fd, pending)
    PROVE  /\ armed' = armed \cup {fd}
           /\ rdlist' \in Seq(Fds) /\ IsInjective(rdlist')
           /\ \A x : x \in ToSet(rdlist') <=> x \in ToSet(rdlist) \/ (x = fd /\ pending)
<1>1. /\ armed' = armed \cup {fd} /\ rdlist \in Seq(Fds) /\ IsInjective(rdlist)
      /\ rdlist' = (IF pending THEN Enqueue(rdlist, fd) ELSE rdlist)
    BY DEF reset_oneshot, EpollArm, LoopInv, TypeOK, Registrations
<1>2. /\ Enqueue(rdlist, fd) \in Seq(Fds) /\ IsInjective(Enqueue(rdlist, fd))
      /\ ToSet(Enqueue(rdlist, fd)) = ToSet(rdlist) \cup {fd}
    BY <1>1, EnqueueFacts
<1>3. CASE pending
    BY <1>1, <1>2, <1>3
<1>4. CASE ~pending
    BY <1>1, <1>4
<1>. QED  BY <1>3, <1>4

\* The end of handle_read: reset_oneshot finds what arrived after EAGAIN, and
\* default_read_handler takes a Buffer.
LEMMA FinishReadInv ==
    ASSUME LoopInv, FinishRead
    PROVE  LoopInv'
<1>1. /\ pc = "reset_oneshot" /\ cur \in Live /\ cur \in Conns /\ cur \notin armed
      /\ cur \notin BatchFds /\ recvList[cur] # <<>> /\ sigs = <<>> /\ Running
      /\ batch' = batch /\ cur' = NoSession
      /\ pc' = (IF batch' = <<>> THEN "epoll_wait" ELSE "dispatch")
      /\ reset_oneshot(cur, HasEvents(cur))
      /\ handled' = [handled EXCEPT ![cur] = @ \o Head(recvList[cur])]
      /\ recvList' = [recvList EXCEPT ![cur] = Tail(@)]
      /\ UNCHANGED <<stop, sigs, session, ghosts, netVars, sigVars>>
    BY DEF FinishRead, LeaveRead, Continue, Read, LoopInv, Phases, Live, Running
<1>2. /\ cur \in Fds /\ cur # Listen /\ cur # Pipe /\ Listen # Pipe
      /\ Listen \notin Conns /\ Pipe \notin Conns
    BY <1>1, ReactorAssumption DEF Fds
<1>3. /\ armed' = armed \cup {cur}
      /\ rdlist' \in Seq(Fds) /\ IsInjective(rdlist')
      /\ \A x : x \in ToSet(rdlist') <=> x \in ToSet(rdlist) \/ (x = cur /\ HasEvents(cur))
    <2>1. HasEvents(cur) \in BOOLEAN
        BY DEF HasEvents
    <2>. QED  BY <1>1, <1>2, <2>1, ResetFacts
<1>4. /\ BatchFds' = BatchFds /\ Live' = Live /\ Held' = {}
      /\ \A x : x \in Held <=> x = cur
    BY <1>1, <1>2 DEF BatchFds, Live, Held
<1>5. /\ recvList \in [Conns -> Seq(Seq(Nat))] /\ recvList[cur] \in Seq(Seq(Nat))
      /\ handled \in [Conns -> Seq(Nat)] /\ handled[cur] \in Seq(Nat)
    BY <1>1 DEF LoopInv, TypeOK
<1>6. /\ Head(recvList[cur]) \in Seq(Nat) /\ Tail(recvList[cur]) \in Seq(Seq(Nat))
      /\ \A i \in DOMAIN Tail(recvList[cur]) :
            i + 1 \in DOMAIN recvList[cur] /\ Tail(recvList[cur])[i] = recvList[cur][i + 1]
    BY <1>1, <1>5
<1>7. handled[cur] \o Head(recvList[cur]) \in Seq(Nat)
    BY <1>5, <1>6, ConcatProperties
<1> USE DEF netVars, sigVars
<1>8. TypeOK'
    <2>1. recvList' \in [Conns -> Seq(Seq(Nat))] /\ handled' \in [Conns -> Seq(Nat)]
        BY <1>1, <1>5, <1>6, <1>7
    <2>. QED  BY <1>1, <1>2, <1>3, <2>1 DEF LoopInv, TypeOK
<1>9. Registrations'
    BY <1>1, <1>2, <1>3, <1>4 DEF LoopInv, Registrations
<1>10. Phases'
    BY <1>1, <1>4 DEF LoopInv, Phases
<1>11. Arrivals'
    BY <1>1 DEF LoopInv, Arrivals
<1>12. NoDanglingEvent'
    BY <1>1, <1>3, <1>4 DEF LoopInv, NoDanglingEvent
<1>13. OneShotAccounted'
    BY <1>1, <1>3, <1>4 DEF LoopInv, OneShotAccounted
<1>14. NoLostWakeup'
    BY <1>1, <1>2, <1>3, <1>4 DEF LoopInv, NoLostWakeup, HasEvents, Readable, Registrations
<1>15. AcceptFindsConnection'
    BY <1>1, <1>2, <1>3, <1>4 DEF LoopInv, AcceptFindsConnection
<1>16. BuffersInBounds'
    BY <1>1, <1>5, <1>6 DEF LoopInv, BuffersInBounds
<1>. QED  BY <1>8, <1>9, <1>10, <1>11, <1>12, <1>13, <1>14, <1>15, <1>16 DEF LoopInv

\* handle_sig_timer: the recv of the signals.
LEMMA RecvSignalsInv ==
    ASSUME LoopInv, RecvSignals
    PROVE  LoopInv'
<1> DEFINE n == IF Len(pipe) < SigBuf THEN Len(pipe) ELSE SigBuf
<1>1. pc = "dispatch" /\ Head(batch).fd = Pipe
    BY DEF RecvSignals, Dispatching
<1>2. /\ Tail(batch) \in Seq([fd : Fds, ev : {"IN", "ERR"}])
      /\ LET restFds == {Tail(batch)[i].fd : i \in DOMAIN Tail(batch)}
         IN  BatchFds = restFds \cup {Pipe} /\ Pipe \notin restFds
      /\ \A i, j \in DOMAIN Tail(batch) : Tail(batch)[i].fd = Tail(batch)[j].fd => i = j
    BY <1>1, DispatchFacts
<1>3. Pipe \in BatchFds /\ pipe \in Seq(Signals) /\ pipe # <<>>
    BY <1>2 DEF LoopInv, Phases, TypeOK
<1>4. n \in 1..Len(pipe)
    BY <1>3, ReactorAssumption
<1>5. /\ sigs' = SubSeq(pipe, 1, n) /\ pipe' = SubSeq(pipe, n + 1, Len(pipe))
      /\ batch' = Tail(batch) /\ pc' = "handle_sig_timer"
      /\ UNCHANGED <<epollVars, cur, stop, sessionVars, netVars, alarm, raised>>
    BY <1>4 DEF RecvSignals
<1> HIDE DEF n
<1>6. sigs' \in Seq(Signals) /\ sigs' # <<>> /\ pipe' \in Seq(Signals)
    <2>1. n \in 0..Len(pipe)
        BY <1>4
    <2>2. pipe' \in Seq(Signals)
        BY <1>3, <1>5, <2>1, RestFacts
    <2>3. SubSeq(pipe, 1, n) \in Seq(Signals) /\ Len(SubSeq(pipe, 1, n)) = n /\ n # 0
        BY <1>3, <1>4
    <2>. QED  BY <1>5, <2>2, <2>3
<1>7. /\ Pipe \notin Conns /\ Listen # Pipe /\ Pipe \in Fds /\ Pipe \notin armed
    BY <1>3, ReactorAssumption DEF Fds, LoopInv, Registrations
<1>8. BatchFds = BatchFds' \cup {Pipe} /\ Pipe \notin BatchFds'
    BY <1>2, <1>5 DEF BatchFds
<1>9. Live' = Live /\ rdlist' = rdlist /\ armed' = armed
    BY <1>5 DEF Live, sessionVars, epollVars
<1>10. /\ cur = NoSession /\ Held = {} /\ Running /\ sigs = <<>>
       /\ \A x : x \in Held' <=> x = Pipe
    BY <1>1, <1>5, <1>7, <1>9 DEF LoopInv, Phases, Held, Running
<1> USE DEF sessionVars, netVars
<1>11. TypeOK'
    BY <1>2, <1>5, <1>6, <1>9 DEF LoopInv, TypeOK
<1>12. Registrations' /\ Arrivals'
    BY <1>1, <1>5, <1>8, <1>9 DEF LoopInv, Registrations, Arrivals
<1>13. Phases'
    BY <1>5, <1>6, <1>8, <1>10 DEF LoopInv, Phases
<1>14. NoDanglingEvent'
    BY <1>2, <1>5, <1>8, <1>9, <1>10 DEF LoopInv, NoDanglingEvent
<1>15. OneShotAccounted'
    BY <1>1, <1>7, <1>8, <1>9, <1>10 DEF LoopInv, OneShotAccounted
<1>16. NoLostWakeup'
    BY <1>5, <1>7, <1>9 DEF LoopInv, NoLostWakeup, HasEvents, Readable
<1>17. AcceptFindsConnection'
    BY <1>5, <1>7, <1>8, <1>9 DEF LoopInv, AcceptFindsConnection
<1>18. BuffersInBounds'
    BY <1>5 DEF LoopInv, BuffersInBounds
<1>. QED  BY <1>11, <1>12, <1>13, <1>14, <1>15, <1>16, <1>17, <1>18 DEF LoopInv

\* handle_sig_timer: one signal's handler and the reset_oneshot after it.
LEMMA DispatchSignalInv ==
    ASSUME LoopInv, DispatchSignal
    PROVE  LoopInv'
<1>1. /\ pc = "handle_sig_timer" /\ sigs # <<>> /\ Pipe \notin BatchFds /\ cur = NoSession
      /\ reset_oneshot(Pipe, pipe # <<>>) /\ RunHandler(Head(sigs))
      /\ batch' = batch /\ sigs' = Tail(sigs) /\ sigs \in Seq(Signals)
      /\ pc' = (IF Tail(sigs) # <<>> THEN "handle_sig_timer"
                ELSE IF batch = <<>> THEN "epoll_wait" ELSE "dispatch")
      /\ UNCHANGED <<cur, sessionVars, netVars, pipe, raised>>
    BY DEF DispatchSignal, Continue, LoopInv, Phases, TypeOK
<1>2. stop' \in BOOLEAN /\ alarm' \in BOOLEAN
    BY <1>1 DEF RunHandler, LoopInv, TypeOK
<1>3. Tail(sigs) \in Seq(Signals)
    BY <1>1
<1>4. /\ Pipe \notin Conns /\ Listen # Pipe /\ Pipe \in Fds /\ Listen \notin Conns
    BY ReactorAssumption DEF Fds
<1>5. /\ armed' = armed \cup {Pipe}
      /\ rdlist' \in Seq(Fds) /\ IsInjective(rdlist')
      /\ \A x : x \in ToSet(rdlist') <=> x \in ToSet(rdlist) \/ (x = Pipe /\ pipe # <<>>)
    BY <1>1, <1>4, ResetFacts
<1>6. /\ BatchFds' = BatchFds /\ Live' = Live /\ Running /\ Running'
      /\ Held' = {} /\ (\A x \in Held : x = Pipe)
    BY <1>1, <1>5 DEF BatchFds, Live, Held, Running, sessionVars
<1> USE DEF sessionVars, netVars
<1>7. TypeOK'
    BY <1>1, <1>2, <1>3, <1>4, <1>5 DEF LoopInv, TypeOK
<1>8. Registrations'
    BY <1>1, <1>4, <1>5, <1>6 DEF LoopInv, Registrations
<1>9. Phases'
    BY <1>1, <1>6 DEF LoopInv, Phases
<1>10. Arrivals'
    BY <1>1 DEF LoopInv, Arrivals
<1>11. NoDanglingEvent'
    BY <1>1, <1>5, <1>6 DEF LoopInv, NoDanglingEvent
<1>12. OneShotAccounted'
    BY <1>1, <1>4, <1>5, <1>6 DEF LoopInv, OneShotAccounted, Live
<1>13. NoLostWakeup'
    BY <1>1, <1>4, <1>5, <1>6 DEF LoopInv, NoLostWakeup, HasEvents, Readable, Registrations, Live
<1>14. AcceptFindsConnection'
    BY <1>1, <1>4, <1>5, <1>6 DEF LoopInv, AcceptFindsConnection
<1>15. BuffersInBounds'
    BY <1>1 DEF LoopInv, BuffersInBounds
<1>. QED  BY <1>7, <1>8, <1>9, <1>10, <1>11, <1>12, <1>13, <1>14, <1>15 DEF LoopInv

-----------------------------------------------------------------------------
(* The theorems.                                                           *)

\* main starts in a state that satisfies the invariant.
LEMMA InitInv == Init => LoopInv
<1> SUFFICES ASSUME Init PROVE LoopInv
    OBVIOUS
<1> USE ReactorAssumption DEF Init
<1>1. TypeOK
    <2>1. /\ <<>> \in Seq(Fds) /\ <<>> \in Seq([fd : Fds, ev : {"IN", "ERR"}])
          /\ <<>> \in Seq(Signals) /\ <<>> \in Seq(Conns)
          /\ <<>> \in Seq(Seq(Nat)) /\ <<>> \in Seq(Nat)
        OBVIOUS
    <2>2. armed \subseteq Fds
        BY DEF Fds
    <2>3. /\ recvList \in [Conns -> Seq(Seq(Nat))] /\ handled \in [Conns -> Seq(Nat)]
          /\ rx \in [Conns -> Seq(Nat)] /\ sent \in [Conns -> Nat]
        BY <2>1
    <2>. QED  BY <2>1, <2>2, <2>3 DEF TypeOK
<1>2. BatchFds = {} /\ Held = {} /\ Live = {} /\ ToSet(rdlist) = {} /\ ToSet(backlog) = {}
    BY DEF BatchFds, Held, Live, ToSet
<1>3. Registrations /\ Phases /\ Arrivals
    BY <1>2 DEF Registrations, Phases, Arrivals, IsInjective
<1>4. NoDanglingEvent /\ OneShotAccounted /\ NoLostWakeup /\ AcceptFindsConnection
    BY <1>2 DEF NoDanglingEvent, OneShotAccounted, NoLostWakeup, AcceptFindsConnection
<1>5. BuffersInBounds
    BY DEF BuffersInBounds
<1>. QED  BY <1>1, <1>3, <1>4, <1>5 DEF LoopInv

\* A state that does not change keeps the invariant.
LEMMA StutterInv == LoopInv /\ UNCHANGED vars => LoopInv'
<1> SUFFICES ASSUME LoopInv, UNCHANGED vars PROVE LoopInv'
    OBVIOUS
<1> USE DEF vars, epollVars, loopVars, sessionVars, netVars, sigVars, Live, BatchFds, Held,
            Running, HasEvents, Readable
<1>1. TypeOK'
    BY DEF LoopInv, TypeOK
<1>2. Registrations' /\ Phases' /\ Arrivals'
    BY DEF LoopInv, Registrations, Phases, Arrivals
<1>3. NoDanglingEvent' /\ OneShotAccounted' /\ NoLostWakeup' /\ AcceptFindsConnection'
    BY DEF LoopInv, NoDanglingEvent, OneShotAccounted, NoLostWakeup, AcceptFindsConnection
<1>4. BuffersInBounds'
    BY DEF LoopInv, BuffersInBounds
<1>. QED  BY <1>1, <1>2, <1>3, <1>4 DEF LoopInv

\* Every step of the loop, of a client or of a signal keeps the invariant.
LEMMA StepInv == LoopInv /\ [Next]_vars => LoopInv'
<1> SUFFICES ASSUME LoopInv, [Next]_vars PROVE LoopInv'
    OBVIOUS
<1>1. CASE UNCHANGED vars
    BY <1>1, StutterInv
<1>2. CASE LoopStep
    BY <1>2, StartupInv, StartStopInv, EpollWaitInv, AcceptInv, ReadInv, CloseInv, FinishReadInv,
       RecvSignalsInv, DispatchSignalInv DEF LoopStep
<1>3. CASE Running /\ ClientStep
    BY <1>3, ClientStepInv
<1>4. CASE SignalStep
    BY <1>4, StartupInv, SignalStepInv DEF SignalStep
<1>5. CASE Finished
    BY <1>5, StutterInv DEF Finished
<1>. QED  BY <1>1, <1>2, <1>3, <1>4, <1>5 DEF Next

\* The invariant of the event loop, whatever clients and signals do.
THEOREM LoopInvariant == Spec => []LoopInv
<1>. QED  BY InitInv, StepInv, PTL DEF Spec

\* Type correctness of the event loop.
THEOREM TypeCorrect == Spec => []TypeOK
<1>1. LoopInv => TypeOK
    BY DEF LoopInv
<1>. QED  BY <1>1, LoopInvariant, PTL

\* Neither the ready list, nor the rest of a batch, nor a running handler ever
\* refers to a deleted EventHandler.
THEOREM EventsNeverDangle == Spec => []NoDanglingEvent
<1>1. LoopInv => NoDanglingEvent
    BY DEF LoopInv
<1>. QED  BY <1>1, LoopInvariant, PTL

\* No one-shot descriptor is orphaned: EPOLLONESHOT's re-arming duty is met on
\* every path through handle_read and handle_sig_timer.
THEOREM OneShotsAccounted == Spec => []OneShotAccounted
<1>1. LoopInv => OneShotAccounted
    BY DEF LoopInv
<1>. QED  BY <1>1, LoopInvariant, PTL

\* Whatever arrives between EAGAIN and reset_oneshot is reported.
THEOREM WakeupsNeverLost == Spec => []NoLostWakeup
<1>1. LoopInv => NoLostWakeup
    BY DEF LoopInv
<1>. QED  BY <1>1, LoopInvariant, PTL

\* accept() is never called for nothing: it can only fail for lack of descriptors.
THEOREM AcceptsFindConnections == Spec => []AcceptFindsConnection
<1>1. LoopInv => AcceptFindsConnection
    BY DEF LoopInv
<1>. QED  BY <1>1, LoopInvariant, PTL

\* Only an error of a session, or a signal during the startup, ends the process.
THEOREM OrderlyClientsNeverHarm == Spec => []OrderlyClientsHarmless
<1>1. Init => OrderlyClientsHarmless
    BY DEF Init, OrderlyClientsHarmless
<1>2. LoopInv /\ OrderlyClientsHarmless /\ [Next]_vars => OrderlyClientsHarmless'
    <2> SUFFICES ASSUME LoopInv, OrderlyClientsHarmless, [Next]_vars, pc' = "exit"
                 PROVE  OrderlyClientsHarmless'
        BY DEF OrderlyClientsHarmless
    <2> USE DEF sessionVars, netVars, sigVars, loopVars, Live
    <2>1. CASE UNCHANGED vars
        BY <2>1 DEF vars, OrderlyClientsHarmless
    <2>2. CASE LoopStep
        <3>1. RecvError
            BY <2>2 DEF LoopStep, lazy_create_reactor, lazy_set_current_reactor, StartLoop,
               EpollWait, StopLoop, handle_accpet, BeginRead, RecvData, RecvAgain, RecvEof,
               FinishRead, HandleError, RecvSignals, DispatchSignal, Continue, LeaveRead
        <3>2. /\ pc = "handle_read" /\ cur \in Live /\ cur \in Conns
              /\ err[cur] # "none" /\ UNCHANGED <<session, err>>
            BY <3>1 DEF RecvError, Drained, LoopInv, Phases
        <3>. QED  BY <3>2 DEF OrderlyClientsHarmless
    <2>3. CASE Running /\ ClientStep
        BY <2>3 DEF Running, ClientStep, Connect, SendUnit, ClientClose, ClientReset, SocketError
    <2>4. CASE SignalStep
        <3>1. EarlySignal
            BY <2>4 DEF SignalStep, AlarmFires, RaiseSignal, Running
        <3>2. raised' = raised + 1 /\ raised \in Nat /\ UNCHANGED session
              /\ \A c \in Conns : session[c] = "none"
            BY <3>1 DEF EarlySignal, LoopInv, TypeOK, Phases
        <3>. QED  BY <3>2 DEF OrderlyClientsHarmless
    <2>5. CASE Finished
        BY <2>5 DEF Finished, vars, OrderlyClientsHarmless
    <2>. QED  BY <2>1, <2>2, <2>3, <2>4, <2>5 DEF Next
<1>. QED  BY <1>1, <1>2, LoopInvariant, PTL DEF Spec

\* recv() never overruns a Buffer.
THEOREM BuffersNeverOverrun == Spec => []BuffersInBounds
<1>1. LoopInv => BuffersInBounds
    BY DEF LoopInv
<1>. QED  BY <1>1, LoopInvariant, PTL
-----------------------------------------------------------------------------
(* The streams of units: StreamIntact, from LoopInv.                       *)

\* What handled, the receive Buffers and the socket hold, one behind the other.
Put(h, list, r) == h \o FlattenSeq(list) \o r

Numbered(s) == s = [i \in 1..Len(s) |-> i]

\* The two splits of a stream are splits of the same stream.
SameStream(h, list, r, h2, list2, r2) == Put(h, list, r) = Put(h2, list2, r2)

StreamOf(c) ==
    /\ Numbered(Put(handled[c], recvList[c], rx[c]))
    /\ session[c] # "deleted" => Len(Put(handled[c], recvList[c], rx[c])) = sent[c]

\* The parts of a stream are sequences of units, and so is the stream.
LEMMA PutFacts ==
    ASSUME NEW h \in Seq(Nat), NEW list \in Seq(Seq(Nat)), NEW r \in Seq(Nat)
    PROVE  /\ FlattenSeq(list) \in Seq(Nat) /\ h \o FlattenSeq(list) \in Seq(Nat)
           /\ Put(h, list, r) \in Seq(Nat)
<1>1. FlattenSeq(list) \in Seq(Nat)
    BY FlattenAppend
<1> DEFINE f == FlattenSeq(list)
<1> HIDE DEF f
<1>2. f \in Seq(Nat)
    BY <1>1 DEF f
<1>3. h \o f \in Seq(Nat) /\ (h \o f) \o r \in Seq(Nat)
    BY <1>2, ConcatProperties
<1>. QED  BY <1>1, <1>3 DEF f, Put

\* A new Buffer is empty: it changes no stream.
LEMMA RoomKeepsStream ==
    ASSUME NEW h \in Seq(Nat), NEW list \in Seq(Seq(Nat)), NEW r \in Seq(Nat)
    PROVE  SameStream(h, WithRoom(list), r, h, list, r)
<1>1. FlattenSeq(Append(list, <<>>)) = FlattenSeq(list)
    <2>1. <<>> \in Seq(Nat)
        OBVIOUS
    <2>2. FlattenSeq(Append(list, <<>>)) = FlattenSeq(list) \o <<>>
        BY <2>1, FlattenAppend, Zenon
    <2>3. FlattenSeq(list) \in Seq(Nat)
        BY PutFacts
    <2> DEFINE f == FlattenSeq(list)
    <2>4. f \o <<>> = f
        <3> HIDE DEF f
        <3>1. f \in Seq(Nat)
            BY <2>3 DEF f
        <3>. QED  BY <3>1, ConcatEmptySeq
    <2>. QED  BY <2>2, <2>4, Zenon
<1>2. FlattenSeq(WithRoom(list)) = FlattenSeq(list)
    <2>1. WithRoom(list) = list \/ WithRoom(list) = Append(list, <<>>)
        BY Zenon DEF WithRoom
    <2>. QED  BY <1>1, <2>1, Zenon
<1>. QED  BY <1>2, Zenon DEF SameStream, Put

\* recv() moves units from the socket to the end of the last Buffer.
LEMMA RecvKeepsStream ==
    ASSUME NEW h \in Seq(Nat), NEW list \in Seq(Seq(Nat)), NEW r \in Seq(Nat),
           NEW after \in Seq(Seq(Nat)), NEW got \in Seq(Nat), NEW left \in Seq(Nat),
           ExtendsLast(after, list, got), r = got \o left
    PROVE  SameStream(h, after, left, h, list, r)
<1> DEFINE f == FlattenSeq(list)
           hf == h \o f
<1>1. FlattenSeq(after) = f \o got
    BY FlattenLast, Zenon
<1>2. f \in Seq(Nat)
    BY PutFacts
<1> HIDE DEF f
<1>3. h \o (f \o got) = hf \o got
    <2>1. Associates(h, f, got)
        BY <1>2, ConcatAssociates
    <2>. QED  BY <2>1, Zenon DEF Associates, hf
<1>4. hf \in Seq(Nat)
    BY <1>2, ConcatProperties
<1> HIDE DEF hf
<1>5. (hf \o got) \o left = hf \o (got \o left)
    <2>1. Associates(hf, got, left)
        BY <1>4, ConcatAssociates
    <2>. QED  BY <2>1, Zenon DEF Associates
<1>. QED  BY <1>1, <1>3, <1>5, Zenon DEF SameStream, Put, hf, f

\* Read takes the first Buffer: its units go from the list to the handler.
LEMMA ReadKeepsStream ==
    ASSUME NEW h \in Seq(Nat), NEW list \in Seq(Seq(Nat)), NEW r \in Seq(Nat), list # <<>>
    PROVE  SameStream(h \o Head(list), Tail(list), r, h, list, r)
<1> DEFINE x == Head(list)
           t == Tail(list)
           f == FlattenSeq(t)
<1>1. x \in Seq(Nat) /\ t \in Seq(Seq(Nat))
    OBVIOUS
<1>2. FlattenSeq(list) = x \o f
    BY FlattenHead, Zenon
<1> HIDE DEF x, t
<1>3. f \in Seq(Nat)
    BY <1>1, PutFacts
<1> HIDE DEF f
<1>4. (h \o x) \o f = h \o (x \o f)
    <2>1. Associates(h, x, f)
        BY <1>1, <1>3, ConcatAssociates
    <2>. QED  BY <2>1, Zenon DEF Associates
<1>. QED  BY <1>2, <1>4, Zenon DEF SameStream, Put, x, t, f

\* A unit that arrives is the last one of the stream.
LEMMA ArrivalFacts ==
    ASSUME NEW h \in Seq(Nat), NEW list \in Seq(Seq(Nat)), NEW r \in Seq(Nat),
           Numbered(Put(h, list, r)), NEW n \in Nat, n = Len(Put(h, list, r))
    PROVE  LET p == Put(h, list, Append(r, n + 1))
           IN  Numbered(p) /\ Len(p) = n + 1
<1> DEFINE hf == h \o FlattenSeq(list)
           p == hf \o r
           q == hf \o Append(r, n + 1)
<1>1. hf \in Seq(Nat)
    BY PutFacts
<1> HIDE DEF hf
<1> DEFINE x == n + 1
<1> HIDE DEF x
<1>0. x \in Nat /\ x = n + 1
    BY DEF x
<1>2. p \in Seq(Nat) /\ q = Append(p, n + 1)
    <2>1. p \in Seq(Nat) /\ hf \o Append(r, x) = Append(p, x)
        BY <1>0, <1>1, ConcatAppend
    <2>. QED  BY <1>0, <2>1, Zenon
<1>3. p = [i \in 1..Len(p) |-> i] /\ Len(p) = n
    BY Zenon DEF Numbered, Put, hf
<1> HIDE DEF p, q
<1>4. Numbered(q) /\ Len(q) = n + 1
    BY <1>2, <1>3 DEF Numbered
<1>. QED  BY <1>4, Zenon DEF Put, hf, q

\* Of a session that ends, what was handled is left.
LEMMA EndFacts ==
    ASSUME NEW h \in Seq(Nat), NEW list \in Seq(Seq(Nat)), NEW r \in Seq(Nat),
           Numbered(Put(h, list, r))
    PROVE  Numbered(Put(h, <<>>, <<>>))
<1> DEFINE f == FlattenSeq(list)
<1>1. f \in Seq(Nat)
    BY PutFacts
<1>2. Numbered((h \o f) \o r)
    BY Zenon DEF Put
<1> HIDE DEF f
<1> DEFINE hf == h \o f
           p == hf \o r
<1>3. Numbered(h)
    <2>1. /\ Len(h) \in Nat /\ Len(h) <= Len(hf) /\ Len(hf) <= Len(p) /\ Len(hf) \in Nat
          /\ Len(p) \in Nat /\ \A i \in 1..Len(h) : hf[i] = h[i]
          /\ \A i \in 1..Len(hf) : p[i] = hf[i]
        <3>1. hf \in Seq(Nat) /\ Joins(hf, h, f)
            BY <1>1, JoinFacts
        <3> HIDE DEF hf
        <3>2. p \in Seq(Nat) /\ Joins(p, hf, r)
            BY <3>1, JoinFacts
        <3> HIDE DEF p
        <3>3. /\ Len(hf) = Len(h) + Len(f) /\ Len(p) = Len(hf) + Len(r)
              /\ \A i \in 1..Len(h) : hf[i] = h[i]
              /\ \A i \in 1..Len(hf) : p[i] = hf[i]
            BY <3>1, <3>2, Zenon DEF Joins
        <3>. QED  BY <1>1, <3>1, <3>2, <3>3
    <2> HIDE DEF hf, p
    <2>2. \A i \in 1..Len(p) : p[i] = i
        <3>1. p = [i \in 1..Len(p) |-> i]
            BY <1>2, Zenon DEF p, hf, Numbered
        <3>. QED  BY <3>1
    <2>3. h = [i \in 1..Len(h) |-> h[i]]
        OBVIOUS
    <2>. QED  BY <2>1, <2>2, <2>3 DEF Numbered
<1>4. FlattenSeq(<<>>) = <<>>
    BY FlattenAppend, Zenon
<1>5. (h \o <<>>) \o <<>> = h
    OBVIOUS
<1>. QED  BY <1>3, <1>4, <1>5, Zenon DEF Put
\* StreamIntact speaks of each connection by itself.
LEMMA StreamUnfold == StreamIntact <=> \A c \in Conns : StreamOf(c)
BY Zenon DEF StreamIntact, StreamOf, Put, Numbered

\* The types of what the streams are made of.
LEMMA StreamTypes ==
    ASSUME LoopInv, NEW c \in Conns
    PROVE  /\ handled[c] \in Seq(Nat) /\ recvList[c] \in Seq(Seq(Nat)) /\ rx[c] \in Seq(Nat)
           /\ sent[c] \in Nat
BY DEF LoopInv, TypeOK

\* A step moves units of a connection without changing their stream.
LEMMA StreamKept ==
    ASSUME NEW c \in Conns, StreamOf(c),
           SameStream(handled'[c], recvList'[c], rx'[c], handled[c], recvList[c], rx[c]),
           session'[c] # "deleted" => session[c] # "deleted", sent'[c] = sent[c]
    PROVE  StreamOf(c)'
BY Zenon DEF StreamOf, SameStream

\* A step that leaves the units of a connection where they are.
Untouched(c) ==
    /\ handled'[c] = handled[c] /\ recvList'[c] = recvList[c] /\ rx'[c] = rx[c]
    /\ sent'[c] = sent[c]
    /\ session'[c] # "deleted" => session[c] # "deleted"

\* A connection a step does not touch keeps its stream.
LEMMA UntouchedKeeps ==
    ASSUME NEW c \in Conns, StreamOf(c), Untouched(c)
    PROVE  StreamOf(c)'
BY Zenon DEF StreamOf, Untouched

\* Everything but SendUnit, the two recv, the end of a session and Read.
LEMMA QuietSteps ==
    ASSUME LoopInv, [Next]_vars, NEW c \in Conns,
           ~(\E d \in Conns : SendUnit(d)), ~RecvData, ~RecvAgain, ~RecvEof, ~HandleError,
           ~FinishRead
    PROVE  Untouched(c)
<1> USE DEF sessionVars, netVars, Untouched
<1>1. CASE UNCHANGED vars
    BY <1>1 DEF vars
<1>2. CASE lazy_create_reactor \/ lazy_set_current_reactor \/ StartLoop \/ EpollWait \/ StopLoop
    BY <1>2 DEF lazy_create_reactor, lazy_set_current_reactor, StartLoop, EpollWait, StopLoop
<1>3. CASE handle_accpet
    <2>1. UNCHANGED <<handled, recvList, rx, sent>> /\ (AcceptOne \/ AcceptFails)
        BY <1>3 DEF handle_accpet
    <2>2. CASE AcceptFails
        BY <2>1, <2>2 DEF AcceptFails
    <2>3. CASE AcceptOne
        <3>1. backlog # <<>> /\ session' = [session EXCEPT ![Head(backlog)] = "live"]
            BY <2>3 DEF AcceptOne
        <3>2. backlog \in Seq(Conns) /\ session \in [Conns -> {"none", "live", "deleted"}]
            BY DEF LoopInv, TypeOK
        <3>3. Head(backlog) \in Conns /\ Head(backlog) \in ToSet(backlog)
            BY <3>1, <3>2, TailFacts
        <3>4. session[Head(backlog)] = "none"
            BY <3>3, Zenon DEF LoopInv, Arrivals
        <3>5. session'[c] # "deleted" => session[c] # "deleted"
            BY <3>1, <3>2, <3>3, <3>4
        <3>. QED  BY <2>1, <3>5
    <2>. QED  BY <2>1, <2>2, <2>3
<1>4. CASE BeginRead \/ RecvError \/ RecvSignals \/ DispatchSignal
    BY <1>4 DEF BeginRead, RecvError, RecvSignals, DispatchSignal
<1>5. CASE ClientStep
    BY <1>5 DEF ClientStep, Connect, ClientClose, ClientReset, SocketError
<1>6. CASE SignalStep
    BY <1>6 DEF SignalStep, EarlySignal, AlarmFires, RaiseSignal
<1>7. CASE Finished
    BY <1>7 DEF Finished, vars
<1>. QED  BY <1>1, <1>2, <1>3, <1>4, <1>5, <1>6, <1>7, Zenon DEF Next, LoopStep

\* A client sends: only its own stream grows.
LEMMA SendUnitStream ==
    ASSUME LoopInv, NEW c \in Conns, StreamOf(c), NEW d \in Conns, SendUnit(d)
    PROVE  StreamOf(c)'
<1> USE DEF sessionVars, netVars
<1>1. /\ session[d] # "deleted"
      /\ sent' = [sent EXCEPT ![d] = @ + 1]
      /\ rx' = [rx EXCEPT ![d] = Append(@, sent[d] + 1)]
      /\ UNCHANGED <<session, recvList, handled>>
    BY DEF SendUnit, Talking
<1>2. sent \in [Conns -> Nat] /\ rx \in [Conns -> Seq(Nat)]
    BY DEF LoopInv, TypeOK
<1>3. CASE c = d
    <2>1. /\ handled[c] \in Seq(Nat) /\ recvList[c] \in Seq(Seq(Nat)) /\ rx[c] \in Seq(Nat)
          /\ sent[c] \in Nat
        BY StreamTypes
    <2>2. /\ Numbered(Put(handled[c], recvList[c], rx[c]))
          /\ sent[c] = Len(Put(handled[c], recvList[c], rx[c]))
        BY <1>1, <1>3, Zenon DEF StreamOf
    <2>3. /\ Numbered(Put(handled[c], recvList[c], Append(rx[c], sent[c] + 1)))
          /\ Len(Put(handled[c], recvList[c], Append(rx[c], sent[c] + 1))) = sent[c] + 1
        BY <2>1, <2>2, ArrivalFacts
    <2>4. rx'[c] = Append(rx[c], sent[c] + 1) /\ sent'[c] = sent[c] + 1
        BY <1>1, <1>2, <1>3
    <2>5. handled'[c] = handled[c] /\ recvList'[c] = recvList[c]
        BY <1>1, Zenon
    <2>. QED  BY <2>3, <2>4, <2>5, Zenon DEF StreamOf
<1>4. CASE c # d
    <2>1. Untouched(c)
        BY <1>1, <1>2, <1>4 DEF Untouched
    <2>. QED  BY <2>1, UntouchedKeeps
<1>. QED  BY <1>3, <1>4

\* recv() in handle_read: what it takes from the socket is in the last Buffer.
LEMMA RecvStream ==
    ASSUME LoopInv, NEW c \in Conns, StreamOf(c), RecvData \/ RecvAgain
    PROVE  StreamOf(c)'
<1> USE DEF sessionVars, netVars, sigVars, loopVars
<1>1. /\ cur \in Conns /\ session' = session /\ sent' = sent /\ handled' = handled
      /\ pc = "handle_read"
    BY DEF RecvData, RecvAgain, LoopInv, Phases, Live
<1>2. /\ recvList \in [Conns -> Seq(Seq(Nat))] /\ rx \in [Conns -> Seq(Nat)]
    BY DEF LoopInv, TypeOK
<1> DEFINE bufs == WithRoom(recvList[cur])
<1>3. /\ handled[cur] \in Seq(Nat) /\ recvList[cur] \in Seq(Seq(Nat)) /\ rx[cur] \in Seq(Nat)
    BY <1>1, StreamTypes
<1>4. bufs \in Seq(Seq(Nat)) /\ bufs # <<>>
    BY <1>1, RoomFacts
<1>9. \A i \in DOMAIN bufs : Len(bufs[i]) <= BufSize
    BY <1>1, RoomFacts
<1>5. SameStream(handled[cur], bufs, rx[cur], handled[cur], recvList[cur], rx[cur])
    BY <1>3, RoomKeepsStream
<1> HIDE DEF bufs
<1>6. CASE c # cur
    <2>1. Untouched(c)
        BY <1>1, <1>2, <1>6 DEF Untouched, RecvData, RecvAgain
    <2>. QED  BY <2>1, UntouchedKeeps
<1>7. CASE c = cur /\ RecvAgain
    <2>1. recvList' = [recvList EXCEPT ![cur] = bufs] /\ rx' = rx
        BY <1>7 DEF RecvAgain, bufs
    <2>2. recvList'[c] = bufs /\ rx'[c] = rx[c] /\ handled'[c] = handled[c]
        BY <1>1, <1>2, <1>7, <2>1
    <2>3. SameStream(handled'[c], recvList'[c], rx'[c], handled[c], recvList[c], rx[c])
        BY <1>5, <1>7, <2>2, Zenon
    <2>. QED  BY <1>1, <2>3, StreamKept
<1>8. CASE c = cur /\ RecvData
    <2> DEFINE room == Room(Last(bufs))
               n == IF Len(rx[cur]) < room THEN Len(rx[cur]) ELSE room
               got == SubSeq(rx[cur], 1, n)
               left == SubSeq(rx[cur], n + 1, Len(rx[cur]))
               after == [bufs EXCEPT ![Len(bufs)] = Filled(@, got)]
    <2>1. recvList' = [recvList EXCEPT ![cur] = after] /\ rx' = [rx EXCEPT ![cur] = left]
        BY <1>8 DEF RecvData, bufs
    <2>2. recvList'[c] = after /\ rx'[c] = left /\ handled'[c] = handled[c]
        BY <1>1, <1>2, <1>8, <2>1
    <2>3. n \in 0..Len(rx[cur])
        <3>1. Len(Last(bufs)) \in Nat /\ Len(Last(bufs)) <= BufSize
            <4>1. Len(bufs) \in DOMAIN bufs /\ bufs[Len(bufs)] \in Seq(Nat)
                BY <1>4
            <4>2. Len(bufs[Len(bufs)]) <= BufSize
                BY <1>9, <4>1
            <4>. QED  BY <4>1, <4>2 DEF Last
        <3>2. room \in Nat
            BY <3>1, ReactorAssumption DEF Room
        <3> HIDE DEF room
        <3>. QED  BY <1>3, <3>2
    <2> HIDE DEF n
    <2>4. /\ got \in Seq(Nat) /\ left \in Seq(Nat) /\ rx[cur] = got \o left
        <3>1. got \in Seq(Nat) /\ Len(got) = n
            BY <1>3, <2>3
        <3>2. left \in Seq(Nat)
            BY <1>3, <2>3, RestFacts
        <3>3. rx[cur] = got \o left
            BY <1>3, <2>3, CutFacts, Zenon DEF IsCut
        <3>. QED  BY <3>1, <3>2, <3>3
    <2> HIDE DEF got, left
    <2>5. after \in Seq(Seq(Nat)) /\ ExtendsLast(after, bufs, got)
        <3>1. Len(bufs) \in 1..Len(bufs) /\ bufs[Len(bufs)] \in Seq(Nat) /\ Len(bufs) \in Nat
            BY <1>4
        <3> DEFINE x == bufs[Len(bufs)] \o got
        <3>2. x \in Seq(Nat)
            BY <2>4, <3>1, ConcatProperties
        <3>3. after = [bufs EXCEPT ![Len(bufs)] = x]
            BY Zenon DEF Filled
        <3> HIDE DEF x, after
        <3>4. /\ after \in Seq(Seq(Nat)) /\ Len(after) = Len(bufs)
              /\ \A i \in 1..Len(bufs) : after[i] = IF i = Len(bufs) THEN x ELSE bufs[i]
            BY <1>4, <3>1, <3>2, <3>3, ExceptSeq
        <3>5. \A i \in 1..(Len(bufs) - 1) : i \in 1..Len(bufs) /\ i # Len(bufs)
            BY <3>1
        <3>. QED  BY <1>4, <3>1, <3>4, <3>5, Zenon DEF ExtendsLast, x
    <2> HIDE DEF after
    <2>6. SameStream(handled[cur], after, left, handled[cur], bufs, rx[cur])
        BY <1>3, <1>4, <2>4, <2>5, RecvKeepsStream
    <2>7. SameStream(handled'[c], recvList'[c], rx'[c], handled[c], recvList[c], rx[c])
        BY <1>5, <1>8, <2>2, <2>6, Zenon DEF SameStream
    <2>. QED  BY <1>1, <2>7, StreamKept
<1>. QED  BY <1>6, <1>7, <1>8
\* A session that ends loses what was not handled yet: a tail of its stream.
LEMMA CloseStream ==
    ASSUME LoopInv, NEW c \in Conns, StreamOf(c), RecvEof \/ HandleError
    PROVE  StreamOf(c)'
<1>1. PICK d \in Conns : CloseSession(d) /\ handled' = handled /\ sent' = sent
    BY DEF RecvEof, HandleError, LoopInv, Phases, Live, netVars
<1>2. /\ recvList \in [Conns -> Seq(Seq(Nat))] /\ rx \in [Conns -> Seq(Nat)]
      /\ session \in [Conns -> {"none", "live", "deleted"}]
    BY DEF LoopInv, TypeOK
<1>3. /\ session' = [session EXCEPT ![d] = "deleted"]
      /\ recvList' = [recvList EXCEPT ![d] = <<>>] /\ rx' = [rx EXCEPT ![d] = <<>>]
    BY <1>1, Zenon DEF CloseSession
<1>4. CASE c # d
    <2>1. Untouched(c)
        BY <1>1, <1>2, <1>3, <1>4 DEF Untouched
    <2>. QED  BY <2>1, UntouchedKeeps
<1>5. CASE c = d
    <2>1. session'[c] = "deleted" /\ recvList'[c] = <<>> /\ rx'[c] = <<>>
        BY <1>2, <1>3, <1>5
    <2>2. handled[c] \in Seq(Nat) /\ recvList[c] \in Seq(Seq(Nat)) /\ rx[c] \in Seq(Nat)
        BY StreamTypes
    <2>3. Numbered(Put(handled[c], recvList[c], rx[c]))
        BY Zenon DEF StreamOf
    <2>4. Numbered(Put(handled[c], <<>>, <<>>))
        BY <2>2, <2>3, EndFacts
    <2>5. handled'[c] = handled[c]
        BY <1>1, Zenon
    <2>. QED  BY <2>1, <2>4, <2>5, Zenon DEF StreamOf
<1>. QED  BY <1>4, <1>5

\* Read hands the oldest Buffer to default_read_handler.
LEMMA FinishReadStream ==
    ASSUME LoopInv, NEW c \in Conns, StreamOf(c), FinishRead
    PROVE  StreamOf(c)'
<1>1. /\ cur \in Conns /\ recvList[cur] # <<>>
      /\ handled' = [handled EXCEPT ![cur] = handled[cur] \o Head(recvList[cur])]
      /\ recvList' = [recvList EXCEPT ![cur] = Tail(recvList[cur])]
      /\ rx' = rx /\ sent' = sent /\ session' = session
    BY DEF FinishRead, Read, LoopInv, Phases, Live, netVars
<1>2. recvList \in [Conns -> Seq(Seq(Nat))] /\ handled \in [Conns -> Seq(Nat)]
    BY DEF LoopInv, TypeOK
<1> DEFINE h == handled[cur] \o Head(recvList[cur])
           t == Tail(recvList[cur])
<1>3. handled' = [handled EXCEPT ![cur] = h] /\ recvList' = [recvList EXCEPT ![cur] = t]
    BY <1>1
<1>4. SameStream(h, t, rx[cur], handled[cur], recvList[cur], rx[cur])
    <2>1. /\ handled[cur] \in Seq(Nat) /\ recvList[cur] \in Seq(Seq(Nat))
          /\ rx[cur] \in Seq(Nat)
        BY <1>1, StreamTypes
    <2>. QED  BY <1>1, <2>1, ReadKeepsStream
<1> HIDE DEF h, t
<1>5. CASE c # cur
    <2>1. Untouched(c)
        BY <1>1, <1>2, <1>3, <1>5 DEF Untouched
    <2>. QED  BY <2>1, UntouchedKeeps
<1>6. CASE c = cur
    <2>1. handled'[c] = h /\ recvList'[c] = t /\ rx'[c] = rx[c]
        BY <1>1, <1>2, <1>3, <1>6
    <2>2. SameStream(handled'[c], recvList'[c], rx'[c], handled[c], recvList[c], rx[c])
        BY <1>4, <1>6, <2>1, Zenon
    <2>. QED  BY <1>1, <2>2, StreamKept
<1>. QED  BY <1>5, <1>6

\* No client has sent anything when main starts.
LEMMA StreamInit == Init => StreamIntact
<1> SUFFICES ASSUME Init, NEW c \in Conns PROVE StreamOf(c)
    BY StreamUnfold, Zenon
<1>1. handled[c] = <<>> /\ recvList[c] = <<>> /\ rx[c] = <<>> /\ sent[c] = 0
    BY DEF Init
<1>2. FlattenSeq(<<>>) = <<>>
    BY FlattenAppend, Zenon
<1>3. (<<>> \o <<>>) \o <<>> = <<>>
    OBVIOUS
<1>4. Put(handled[c], recvList[c], rx[c]) = <<>>
    BY <1>1, <1>2, <1>3, Zenon DEF Put
<1>5. Numbered(<<>>) /\ Len(<<>>) = 0
    BY DEF Numbered
<1>. QED  BY <1>1, <1>4, <1>5, Zenon DEF StreamOf

\* Every step keeps every stream.
LEMMA StreamStep == LoopInv /\ StreamIntact /\ [Next]_vars => StreamIntact'
<1> SUFFICES ASSUME LoopInv, StreamIntact, [Next]_vars PROVE StreamIntact'
    OBVIOUS
<1>1. (StreamIntact <=> \A c \in Conns : StreamOf(c))'
    BY StreamUnfold, PTL
<1>2. ASSUME NEW c \in Conns PROVE StreamOf(c)'
    <2>1. StreamOf(c)
        BY StreamUnfold, Zenon
    <2>. QED  BY <2>1, SendUnitStream, RecvStream, CloseStream, FinishReadStream, QuietSteps,
              UntouchedKeeps, Zenon
<1>. QED  BY <1>1, <1>2, Zenon

\* A live connection's units are in the handler, the Buffers and the socket, in
\* order and none missing; the end of a connection loses nothing but a tail.
THEOREM StreamsStayIntact == Spec => []StreamIntact
<1>. QED  BY StreamInit, StreamStep, LoopInvariant, PTL DEF Spec
============================================================================

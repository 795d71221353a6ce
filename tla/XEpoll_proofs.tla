--------------------------- MODULE XEpoll_proofs ---------------------------
(***************************************************************************)
(* Theorems about the epoll server of module XEpoll, for every number of   *)
(* connections, every size of m_Events, of the buffers and of the backlog, *)
(* and in both modes.                                                      *)
(*                                                                         *)
(* The argument is one inductive invariant, IInv: with the properties it   *)
(* says what the ready list, m_Events and the backlog may hold, and that   *)
(* what an entry of m_Events reports is still so when its turn comes.      *)
(***************************************************************************)
EXTENDS XEpoll, SeqFacts

\* A connection waits to be accepted at most once and before it has a session; what
\* LT received, it has passed on.
Arrivals ==
    /\ IsInjective(backlog)
    /\ \A c \in ToSet(backlog) : peer[c] # "idle" /\ session[c] = "none"
    /\ \A c \in Conns :
           /\ peer[c] = "idle" => session[c] = "none"
           /\ rx[c] <= sent[c]
           /\ mode = "lt" /\ session[c] # "deleted" => shown[c] + rx[c] = sent[c]

\* The ready list names no descriptor twice and none that is disarmed; only live
\* sessions and the listening socket are armed.
Registrations ==
    /\ IsInjective(rdlist) /\ ToSet(rdlist) \subseteq armed
    /\ armed \subseteq Live \cup {Listen}

\* What the i-th entry of m_Events reports of a connection is still to be had: only
\* the handling of the entry itself takes it away.
Due(i) ==
    LET c == batch[i].fd
    IN  c \in Conns =>
            /\ "ERR" \in batch[i].ev => err[c] # "none"
            /\ "IN" \in batch[i].ev /\ (i = 1 => pc = "dispatch") => Readable(c)

\* Where the thread is, and what m_Events holds there.
Phases ==
    Running =>
        /\ batch = <<>> <=> pc = "epoll_wait"
        /\ pc \in {"read", "reset_oneshot"} => mode = "et" /\ Current \in Conns
        /\ \A i, j \in DOMAIN batch : batch[i].fd = batch[j].fd => i = j
        /\ \A i \in DOMAIN batch : Due(i)
        /\ FdsOf(batch) \cap dropped = {}

IInv ==
    /\ XEpollInv /\ Arrivals /\ Registrations /\ Phases
    /\ OnlyErrorsEnd /\ OrderlyCloseComplete

\* NothingUnreported, for the sessions and for the listening socket.
SessionsReported == \A c \in armed \cap Live : HasEvents(c) => c \in ToSet(rdlist)
ListenReported == mode = "lt" /\ HasEvents(Listen) => Listen \in ToSet(rdlist)

\* NothingUnreported is about sessions and about the listening socket.
LEMMA ReportedParts ==
    NothingUnreported <=> (Running => SessionsReported /\ ListenReported)
BY Zenon DEF NothingUnreported, SessionsReported, ListenReported

Entries == [fd : Fds, ev : SUBSET {"IN", "ERR"}]

-----------------------------------------------------------------------------
(* The ready list and m_Events.                                            *)

\* Linking a descriptor into the ready list, whether or not it is there.
LEMMA EnqueueFacts ==
    ASSUME NEW S, NEW s \in Seq(S), NEW x \in S
    PROVE  /\ Enqueue(s, x) \in Seq(S)
           /\ ToSet(Enqueue(s, x)) = ToSet(s) \cup {x}
           /\ IsInjective(s) => IsInjective(Enqueue(s, x))
BY AppendFacts DEF Enqueue

\* Taking a descriptor out of a list that names none twice.
LEMMA UnlinkFacts ==
    ASSUME NEW S, NEW s \in Seq(S), NEW x, IsInjective(s)
    PROVE  /\ Unlink(s, x) \in Seq(S)
           /\ ToSet(Unlink(s, x)) = ToSet(s) \ {x}
           /\ IsInjective(Unlink(s, x))
<1>1. CASE x \notin ToSet(s)
    BY <1>1 DEF Unlink
<1>2. CASE x \in ToSet(s)
    <2> DEFINE i == CHOOSE i \in DOMAIN s : s[i] = x
               a == SubSeq(s, 1, i - 1)
               z == SubSeq(s, i + 1, Len(s))
               l == a \o z
    <2>1. i \in DOMAIN s /\ s[i] = x
        BY <1>2 DEF ToSet
    <2> HIDE DEF i
    <2>2. /\ DOMAIN s = 1..Len(s) /\ Len(s) \in Nat /\ i \in 1..Len(s) /\ i \in 0..Len(s)
          /\ i - 1 \in 0..Len(s)
        BY <2>1
    <2>3. /\ a \in Seq(S) /\ Len(a) = i - 1 /\ DOMAIN a = 1..(i - 1)
          /\ \A j \in 1..(i - 1) : a[j] = s[j]
        BY <2>2
    <2>4. /\ z \in Seq(S) /\ IsInjective(z)
          /\ ToSet(s) = ToSet(z) \cup {s[j] : j \in 1..i}
          /\ \A j \in 1..i : s[j] \notin ToSet(z)
        BY <2>2, RestFacts, SMTT(20)
    <2> HIDE DEF a, z
    <2>5. \A j, k \in 1..Len(s) : s[j] = s[k] => j = k
        BY <2>2 DEF IsInjective
    <2>6. IsInjective(a)
        BY <2>2, <2>3, <2>5 DEF IsInjective
    <2>7. ToSet(a) = {s[j] : j \in 1..i} \ {x}
        <3>1. ToSet(a) = {s[j] : j \in 1..(i - 1)}
            BY <2>3 DEF ToSet
        <3>2. \A j \in 1..(i - 1) : j \in 1..i /\ s[j] # x
            BY <2>1, <2>2, <2>5
        <3>3. \A j \in 1..i : j \in 1..(i - 1) \/ s[j] = x
            BY <2>1, <2>2
        <3>. QED  BY <3>1, <3>2, <3>3
    <2>8. x \notin ToSet(z)
        BY <2>1, <2>2, <2>4
    <2>9. ToSet(a) \cap ToSet(z) = {}
        BY <2>4, <2>7
    <2>10. l \in Seq(S) /\ Joins(l, a, z)
        BY <2>3, <2>4, JoinFacts
    <2> HIDE DEF l
    <2>11. ToSet(l) = ToSet(s) \ {x} /\ IsInjective(l)
        BY <2>4, <2>6, <2>7, <2>8, <2>9, <2>10 DEF Joins
    <2>12. Unlink(s, x) = l
        BY <1>2 DEF Unlink, RemoveAt, l, a, z, i
    <2>. QED  BY <2>10, <2>11, <2>12, Zenon
<1>. QED  BY <1>1, <1>2

\* A wake-up: the ready list gains the descriptor if it is armed.
LEMMA WakeFacts ==
    ASSUME TypeOK, Registrations, NEW fd \in Fds, EpollWake(fd)
    PROVE  /\ rdlist' \in Seq(Fds) /\ armed' = armed
           /\ IsInjective(rdlist') /\ ToSet(rdlist') \subseteq armed
           /\ ToSet(rdlist) \subseteq ToSet(rdlist')
           /\ \A x : x \in ToSet(rdlist')
                        <=> x \in ToSet(rdlist) \/ (x = fd /\ fd \in armed)
<1>1. /\ rdlist \in Seq(Fds) /\ IsInjective(rdlist) /\ ToSet(rdlist) \subseteq armed
      /\ rdlist' = (IF fd \in armed THEN Enqueue(rdlist, fd) ELSE rdlist) /\ armed' = armed
    BY DEF EpollWake, TypeOK, Registrations
<1>2. CASE fd \in armed
    <2>1. /\ rdlist' \in Seq(Fds) /\ IsInjective(rdlist')
          /\ ToSet(rdlist') = ToSet(rdlist) \cup {fd}
        BY <1>1, <1>2, EnqueueFacts
    <2>. QED  BY <1>1, <1>2, <2>1
<1>3. CASE fd \notin armed
    BY <1>1, <1>3
<1>. QED  BY <1>2, <1>3

\* Arming a descriptor: it is in the ready list when it has something to report.
LEMMA ArmFacts ==
    ASSUME TypeOK, Registrations, NEW fd \in Fds, NEW pending \in BOOLEAN,
           EpollArm(fd, pending)
    PROVE  /\ rdlist' \in Seq(Fds) /\ armed' = armed \cup {fd} /\ armed' \subseteq Fds
           /\ IsInjective(rdlist') /\ ToSet(rdlist') \subseteq armed'
           /\ ToSet(rdlist) \subseteq ToSet(rdlist')
           /\ ToSet(rdlist') \subseteq ToSet(rdlist) \cup {fd}
           /\ pending => fd \in ToSet(rdlist')
<1>1. /\ rdlist \in Seq(Fds) /\ IsInjective(rdlist) /\ ToSet(rdlist) \subseteq armed
      /\ rdlist' = (IF pending THEN Enqueue(rdlist, fd) ELSE rdlist)
      /\ armed' = armed \cup {fd} /\ armed \subseteq Fds
    BY DEF EpollArm, TypeOK, Registrations
<1>2. CASE pending
    <2>1. /\ rdlist' \in Seq(Fds) /\ IsInjective(rdlist')
          /\ ToSet(rdlist') = ToSet(rdlist) \cup {fd}
        BY <1>1, <1>2, EnqueueFacts
    <2>. QED  BY <1>1, <1>2, <2>1
<1>3. CASE ~pending
    BY <1>1, <1>3
<1>. QED  BY <1>2, <1>3

\* Taking an entry out of m_Events: the rest names the other descriptors.
LEMMA DispatchFacts ==
    ASSUME TypeOK, Phases, Running, batch # <<>>
    PROVE  /\ Tail(batch) \in Seq(Entries) /\ Current \in Fds
           /\ Head(batch) = batch[1] /\ 1 \in DOMAIN batch
           /\ FdsOf(batch) = FdsOf(Tail(batch)) \cup {Current}
           /\ Current \notin FdsOf(Tail(batch))
           /\ \A i, j \in DOMAIN Tail(batch) : Tail(batch)[i].fd = Tail(batch)[j].fd => i = j
           /\ \A i \in DOMAIN Tail(batch) : /\ i \in Nat \ {0} /\ i + 1 \in DOMAIN batch
                                            /\ Tail(batch)[i] = batch[i + 1]
                                            /\ Tail(batch)[i].fd # Current
<1> DEFINE rest == Tail(batch)
           restFds == FdsOf(rest)
<1>1. /\ batch \in Seq(Entries) /\ batch # <<>>
      /\ \A i, j \in DOMAIN batch : batch[i].fd = batch[j].fd => i = j
    BY DEF TypeOK, Phases, Entries
<1>2. /\ rest \in Seq(Entries) /\ Len(rest) = Len(batch) - 1 /\ Len(batch) \in Nat
      /\ Head(batch) \in Entries /\ Head(batch) = batch[1]
      /\ \A i \in 1..Len(rest) : rest[i] = batch[i + 1]
      /\ DOMAIN batch = 1..Len(batch) /\ DOMAIN rest = 1..Len(rest)
    BY <1>1, TailFacts
<1> HIDE DEF rest
<1>3. Current \in Fds /\ Current = batch[1].fd
    BY <1>2 DEF Entries, Current
<1>4. \A i \in 1..Len(batch) : i = 1 \/ (i - 1 \in 1..Len(rest) /\ batch[i] = rest[i - 1])
    BY <1>2
<1>5. \A i \in 1..Len(rest) : i + 1 \in 1..Len(batch) /\ rest[i] = batch[i + 1] /\ i + 1 # 1
    BY <1>2
<1>6. 1 \in 1..Len(batch)
    BY <1>1, <1>2
<1>7. ASSUME NEW x
      PROVE  x \in FdsOf(batch) <=> x \in restFds \/ x = Current
    <2>1. x \in FdsOf(batch) <=> \E i \in 1..Len(batch) : x = batch[i].fd
        BY <1>2 DEF FdsOf
    <2>2. x \in restFds <=> \E i \in 1..Len(rest) : x = rest[i].fd
        BY <1>2 DEF FdsOf
    <2>. QED  BY <1>3, <1>4, <1>5, <1>6, <2>1, <2>2
<1>8. \A i \in 1..Len(rest) : rest[i].fd # Current
    BY <1>1, <1>2, <1>3, <1>5, <1>6
<1>9. Current \notin restFds
    BY <1>2, <1>8 DEF FdsOf
<1>10. \A i, j \in DOMAIN rest : rest[i].fd = rest[j].fd => i = j
    <2>1. ASSUME NEW i \in 1..Len(rest), NEW j \in 1..Len(rest), rest[i].fd = rest[j].fd
          PROVE  i = j
        <3>1. /\ i + 1 \in DOMAIN batch /\ j + 1 \in DOMAIN batch
              /\ batch[i + 1].fd = rest[i].fd /\ batch[j + 1].fd = rest[j].fd
            BY <1>2, <1>5
        <3>2. i + 1 = j + 1
            BY <1>1, <2>1, <3>1
        <3>. QED  BY <1>2, <3>2
    <2>. QED  BY <1>2, <2>1
<1>11. \A i \in DOMAIN rest : i \in Nat \ {0} /\ i + 1 \in DOMAIN batch /\ rest[i] = batch[i + 1]
    BY <1>2, <1>5
<1>. QED  BY <1>2, <1>3, <1>6, <1>7, <1>8, <1>9, <1>10, <1>11 DEF rest

-----------------------------------------------------------------------------
(* Clients.                                                                *)

\* A step of one client that leaves its socket with something to report keeps
\* the invariant.
LEMMA ClientWake ==
    ASSUME IInv, Running, NEW c \in Conns, EpollWake(c), TypeOK',
           UNCHANGED <<serverVars, backlog>>, HasEvents(c)',
           Readable(c) => Readable(c)', err[c] # "none" => err'[c] # "none",
           peer'[c] = "idle" <=> peer[c] = "idle", session[c] # "deleted",
           rx'[c] <= sent'[c], shown[c] + rx[c] = sent[c] => shown[c] + rx'[c] = sent'[c],
           \A d \in Conns \ {c} : /\ peer'[d] = peer[d] /\ err'[d] = err[d]
                                  /\ rx'[d] = rx[d] /\ sent'[d] = sent[d]
    PROVE  IInv'
<1> USE DEF serverVars, sessionVars, IInv, XEpollInv
<1>1. c \in Fds /\ c # Listen /\ Listen \in Fds
    BY XEpollAssumption DEF Fds
<1>2. /\ rdlist' \in Seq(Fds) /\ armed' = armed
      /\ IsInjective(rdlist') /\ ToSet(rdlist') \subseteq armed
      /\ ToSet(rdlist) \subseteq ToSet(rdlist')
      /\ \A x : x \in ToSet(rdlist') <=> x \in ToSet(rdlist) \/ (x = c /\ c \in armed)
    BY <1>1, WakeFacts
<1>3. Live' = Live /\ FdsOf(batch)' = FdsOf(batch) /\ Running'
    BY DEF Live, FdsOf, Running
<1>4. EventsAccounted'
    <2>1. ToSet(rdlist') \subseteq Live \cup {Listen}
        BY <1>2 DEF Registrations
    <2>. QED  BY <1>2, <1>3, <2>1 DEF EventsAccounted
<1>5. \A d \in Conns \ {c} : HasEvents(d)' <=> HasEvents(d)
    BY XEpollAssumption DEF HasEvents, EventsOf, Readable
<1>6. HasEvents(Listen)' <=> HasEvents(Listen)
    BY DEF HasEvents, EventsOf
<1>7. NothingUnreported'
    <2>1. SessionsReported /\ ListenReported
        BY ReportedParts
    <2>2. SessionsReported'
        BY <1>2, <1>3, <1>5, <2>1 DEF SessionsReported, Live
    <2>3. ListenReported'
        BY <1>2, <1>6, <2>1 DEF ListenReported
    <2>4. (NothingUnreported <=> (Running => SessionsReported /\ ListenReported))'
        BY ReportedParts, PTL
    <2>. QED  BY <2>2, <2>3, <2>4
<1>8. Arrivals'
    <2>1. UNCHANGED <<backlog, session, shown, mode>>
        OBVIOUS
    <2>2. /\ IsInjective(backlog)'
          /\ \A d \in ToSet(backlog)' : peer'[d] # "idle" /\ session'[d] = "none"
        <3>1. ToSet(backlog) \subseteq Conns
            BY ToSetFacts DEF TypeOK
        <3>2. \A d \in Conns : peer'[d] = "idle" <=> peer[d] = "idle"
            OBVIOUS
        <3>3. IsInjective(backlog)' /\ ToSet(backlog)' = ToSet(backlog)
            BY <2>1 DEF Arrivals
        <3>. QED  BY <2>1, <3>1, <3>2, <3>3 DEF Arrivals
    <2>3. ASSUME NEW d \in Conns
          PROVE  /\ peer'[d] = "idle" => session'[d] = "none"
                 /\ rx'[d] <= sent'[d]
                 /\ mode' = "lt" /\ session'[d] # "deleted" => shown'[d] + rx'[d] = sent'[d]
        <3>1. CASE d = c
            BY <2>1, <3>1 DEF Arrivals
        <3>2. CASE d # c
            BY <2>1, <3>2 DEF Arrivals
        <3>. QED  BY <3>1, <3>2
    <2>. QED  BY <2>2, <2>3 DEF Arrivals
<1>9. Registrations'
    BY <1>2, <1>3 DEF Registrations
<1>10. Phases'
    <2>1. ASSUME NEW i \in DOMAIN batch PROVE Due(i)'
        BY DEF Phases, Due, Readable
    <2>. QED  BY <1>3, <2>1 DEF Phases, Current
<1>11. OnlyErrorsEnd' /\ OrderlyCloseComplete'
    BY DEF OnlyErrorsEnd, OrderlyCloseComplete, Running
<1>. QED  BY <1>4, <1>7, <1>8, <1>9, <1>10, <1>11

\* A client's connection waits at the end of the backlog.
LEMMA ConnectInv ==
    ASSUME IInv, Running, NEW c \in Conns, Connect(c)
    PROVE  IInv'
<1> USE DEF serverVars, sessionVars, IInv, XEpollInv
<1>1. c \in Fds /\ c # Listen /\ Listen \in Fds /\ Listen \notin Conns
    BY XEpollAssumption DEF Fds
<1>2. /\ rdlist' \in Seq(Fds) /\ armed' = armed
      /\ IsInjective(rdlist') /\ ToSet(rdlist') \subseteq armed
      /\ ToSet(rdlist) \subseteq ToSet(rdlist')
      /\ \A x : x \in ToSet(rdlist') <=> x \in ToSet(rdlist) \/ (x = Listen /\ Listen \in armed)
    BY <1>1, WakeFacts DEF Connect
<1>3. /\ Live' = Live /\ FdsOf(batch)' = FdsOf(batch) /\ Running'
      /\ UNCHANGED <<mode, limit, pc, batch, session, fill, shown, dropped, ghosts, err, rx, sent>>
    BY DEF Live, FdsOf, Running, Connect
<1>4. /\ backlog \in Seq(Conns) /\ IsInjective(backlog) /\ session[c] = "none"
      /\ peer \in [Conns -> {"idle", "open", "fin"}] /\ c \notin ToSet(backlog)
      /\ peer[c] = "idle" /\ peer' = [peer EXCEPT ![c] = "open"]
      /\ backlog' = Append(backlog, c)
    BY DEF TypeOK, Arrivals, Connect
<1>5. /\ backlog' \in Seq(Conns) /\ IsInjective(backlog')
      /\ ToSet(backlog') = ToSet(backlog) \cup {c}
    BY <1>4, AppendFacts
<1>6. TypeOK'
    BY <1>2, <1>3, <1>4, <1>5 DEF TypeOK
<1>7. EventsAccounted'
    <2>1. ToSet(rdlist') \subseteq Live \cup {Listen}
        BY <1>2 DEF Registrations
    <2>. QED  BY <1>2, <1>3, <2>1 DEF EventsAccounted
<1>8. NothingUnreported'
    <2>1. SessionsReported /\ ListenReported
        BY ReportedParts
    <2>2. SessionsReported'
        <3>1. \A d \in Live : d # c /\ d # Listen /\ d \in Conns
            BY <1>1, <1>4 DEF Live
        <3>2. \A d \in Live : HasEvents(d)' <=> HasEvents(d)
            BY <1>3, <1>4, <3>1 DEF HasEvents, EventsOf, Readable
        <3>. QED  BY <1>2, <1>3, <2>1, <3>2 DEF SessionsReported
    <2>3. ListenReported'
        BY <1>2, <1>3 DEF ListenReported, EventsAccounted
    <2>4. (NothingUnreported <=> (Running => SessionsReported /\ ListenReported))'
        BY ReportedParts, PTL
    <2>. QED  BY <2>2, <2>3, <2>4
<1>9. Arrivals'
    BY <1>3, <1>4, <1>5 DEF Arrivals
<1>10. Registrations'
    BY <1>2, <1>3 DEF Registrations
<1>11. Phases'
    <2>1. ASSUME NEW i \in DOMAIN batch PROVE Due(i)'
        <3>1. \A d \in Conns : peer[d] = "fin" => peer'[d] = "fin"
            BY <1>4
        <3>. QED  BY <1>3, <3>1 DEF Phases, Due, Readable
    <2>. QED  BY <1>3, <2>1 DEF Phases, Current
<1>12. OnlyErrorsEnd' /\ OrderlyCloseComplete'
    BY <1>3, <1>4 DEF OnlyErrorsEnd, OrderlyCloseComplete, Running
<1>. QED  BY <1>6, <1>7, <1>8, <1>9, <1>10, <1>11, <1>12

\* Every step of a client keeps the invariant.
LEMMA ClientStepInv ==
    ASSUME IInv, Running, ClientStep
    PROVE  IInv'
<1> USE DEF serverVars, sessionVars, HasEvents, EventsOf, Readable, Talking
<1>1. PICK c \in Conns : Connect(c) \/ SendUnit(c) \/ ClientClose(c) \/ ClientError(c)
    BY DEF ClientStep
<1>2. /\ c \in Fds /\ c # Listen /\ TypeOK /\ Registrations
      /\ rx[c] \in Nat /\ sent[c] \in Nat /\ shown[c] \in Nat /\ rx[c] <= sent[c]
      /\ rx \in [Conns -> Nat] /\ sent \in [Conns -> Nat]
      /\ peer \in [Conns -> {"idle", "open", "fin"}]
      /\ err \in [Conns -> {"none", "soft", "rst"}]
    BY XEpollAssumption DEF Fds, IInv, XEpollInv, TypeOK, Arrivals
<1>3. CASE Connect(c)
    BY <1>3, ConnectInv
<1>4. CASE SendUnit(c)
    <2>1. /\ rx' = [rx EXCEPT ![c] = rx[c] + 1] /\ sent' = [sent EXCEPT ![c] = sent[c] + 1]
          /\ rx' \in [Conns -> Nat] /\ sent' \in [Conns -> Nat]
          /\ rx'[c] = rx[c] + 1 /\ sent'[c] = sent[c] + 1
          /\ \A d \in Conns \ {c} : rx'[d] = rx[d] /\ sent'[d] = sent[d]
          /\ UNCHANGED <<backlog, peer, err>>
        BY <1>2, <1>4 DEF SendUnit
    <2>2. rdlist' \in Seq(Fds) /\ armed' = armed
        BY <1>2, <1>4, WakeFacts DEF SendUnit
    <2>3. TypeOK'
        BY <1>2, <1>4, <2>1, <2>2 DEF SendUnit, TypeOK
    <2>4. HasEvents(c)' /\ (Readable(c) => Readable(c)')
        BY <1>2, <2>1
    <2>5. rx'[c] <= sent'[c] /\ (shown[c] + rx[c] = sent[c] => shown[c] + rx'[c] = sent'[c])
        BY <1>2, <2>1
    <2>. QED  BY <1>4, <2>1, <2>3, <2>4, <2>5, ClientWake DEF SendUnit
<1>5. CASE ClientClose(c)
    <2>1. /\ peer' = [peer EXCEPT ![c] = "fin"] /\ peer[c] = "open"
          /\ UNCHANGED <<backlog, err, rx, sent>>
        BY <1>5 DEF ClientClose
    <2>2. rdlist' \in Seq(Fds) /\ armed' = armed
        BY <1>2, <1>5, WakeFacts DEF ClientClose
    <2>3. TypeOK'
        BY <1>2, <1>5, <2>1, <2>2 DEF ClientClose, TypeOK
    <2>4. HasEvents(c)' /\ (Readable(c) => Readable(c)')
        BY <1>2, <2>1
    <2>. QED  BY <1>2, <1>5, <2>1, <2>3, <2>4, ClientWake DEF ClientClose
<1>6. CASE ClientError(c)
    <2>1. PICK e \in {"soft", "rst"} : err' = [err EXCEPT ![c] = e]
        BY <1>6 DEF ClientError
    <2>2. err[c] # "rst" /\ session[c] # "deleted" /\ UNCHANGED <<backlog, peer, rx, sent>>
        BY <1>6 DEF ClientError
    <2>3. rdlist' \in Seq(Fds) /\ armed' = armed
        BY <1>2, <1>6, WakeFacts DEF ClientError
    <2>4. TypeOK'
        BY <1>2, <1>6, <2>1, <2>2, <2>3 DEF ClientError, TypeOK
    <2>5. HasEvents(c)' /\ (Readable(c) => Readable(c)') /\ err'[c] # "none"
        BY <1>2, <2>1, <2>2
    <2>6. \A d \in Conns \ {c} : err'[d] = err[d]
        BY <1>2, <2>1
    <2>. QED  BY <1>2, <1>6, <2>2, <2>4, <2>5, <2>6, ClientWake DEF ClientError
<1>. QED  BY <1>1, <1>3, <1>4, <1>5, <1>6

-----------------------------------------------------------------------------
(* The server.                                                             *)

\* The connection of the current entry has a session.
LEMMA CurrentLive ==
    ASSUME IInv, Running, batch # <<>>, Current \in Conns
    PROVE  Current \in Live
<1>1. Current \in FdsOf(batch)
    BY DispatchFacts DEF IInv, XEpollInv
<1>. QED  BY <1>1, XEpollAssumption DEF IInv, XEpollInv, EventsAccounted

\* The thread goes on, or the process ends, and nothing else happens.
LEMMA PcInv ==
    ASSUME IInv, Running, pc' \in {"read", "reset_oneshot", "exit", "interrupted", "no_buffer"},
           UNCHANGED <<epollVars, mode, limit, batch, sessionVars, dropped, ghosts, netVars>>,
           pc' \in {"read", "reset_oneshot"} =>
               mode = "et" /\ batch # <<>> /\ Current \in Conns,
           pc' = "exit" => \E c \in Live : err[c] # "none",
           pc' = "no_buffer" => Current \in Live
    PROVE  IInv'
<1> USE DEF epollVars, sessionVars, netVars, IInv, XEpollInv
<1>1. TypeOK'
    BY DEF TypeOK
<1>2. Live' = Live /\ FdsOf(batch)' = FdsOf(batch)
    BY DEF Live, FdsOf
<1>3. EventsAccounted'
    BY <1>2 DEF EventsAccounted
<1>4. NothingUnreported'
    <2>1. SessionsReported /\ ListenReported
        BY ReportedParts
    <2>2. SessionsReported' /\ ListenReported'
        BY <1>2, <2>1 DEF SessionsReported, ListenReported, HasEvents, EventsOf, Readable
    <2>3. (NothingUnreported <=> (Running => SessionsReported /\ ListenReported))'
        BY ReportedParts, PTL
    <2>. QED  BY <2>2, <2>3
<1>5. Arrivals' /\ Registrations'
    BY <1>2 DEF Arrivals, Registrations
<1>6. Phases'
    <2>1. Running' => batch' # <<>> /\ pc' # "dispatch" /\ pc' # "epoll_wait"
        BY DEF Running
    <2>2. \A i \in DOMAIN batch : i # 1 => (Due(i) <=> Due(i)')
        BY DEF Due, Readable
    <2>3. Running' => \A i \in DOMAIN batch : Due(i) => Due(i)'
        BY <2>1 DEF Due, Readable
    <2>. QED  BY <1>2, <2>1, <2>3 DEF Phases, Current
<1>7. OnlyErrorsEnd'
    BY <1>2 DEF OnlyErrorsEnd, Running, Current
<1>8. OrderlyCloseComplete'
    BY DEF OrderlyCloseComplete
<1>. QED  BY <1>1, <1>3, <1>4, <1>5, <1>6, <1>7, <1>8

\* An interrupted epoll_wait.
LEMMA WaitInterruptedInv ==
    ASSUME IInv, WaitInterrupted
    PROVE  IInv'
BY PcInv DEF WaitInterrupted, Running

\* The beginning and the end of reading in ET mode, the calls of read() that end the
\* process, and the missing buffers: that LT reads where it would block does not happen.
LEMMA ReadPcInv ==
    ASSUME IInv, NEW c \in Conns,
           \/ EtBeginRead(c) \/ EtReadAgain(c) \/ EtReadError(c) \/ LtReadFails(c)
           \/ EtNoBuffer(c) \/ LtNoBuffer(c)
    PROVE  IInv'
<1>1. Running /\ Current = c /\ pc \in {"dispatch", "read"}
    BY DEF EtBeginRead, EtReadAgain, EtReadError, LtReadFails, EtNoBuffer, LtNoBuffer,
           Dispatching, Running
<1>2. batch # <<>>
    BY <1>1 DEF IInv, Phases
<1>3. c \in Live
    BY <1>1, <1>2, CurrentLive
<1>4. CASE EtBeginRead(c)
    BY <1>1, <1>2, <1>4, PcInv DEF EtBeginRead
<1>5. CASE EtReadAgain(c)
    <2>1. mode = "et"
        BY <1>1, <1>5 DEF EtReadAgain, IInv, Phases
    <2>. QED  BY <1>1, <1>2, <1>5, <2>1, PcInv DEF EtReadAgain
<1>6. CASE EtReadError(c)
    BY <1>1, <1>3, <1>6, PcInv DEF EtReadError, Exit, GetsError
<1>7. CASE LtReadFails(c)
    <2>1. err[c] # "none"
        <3>1. Due(1) /\ batch[1] = Head(batch)
            BY <1>1, <1>2, DispatchFacts DEF IInv, XEpollInv, Phases
        <3>2. batch[1].fd = c /\ "IN" \in batch[1].ev /\ pc = "dispatch"
            BY <1>7, <3>1 DEF LtReadFails, Dispatching, Current
        <3>3. Readable(c)
            BY <3>1, <3>2 DEF Due
        <3>4. fill[c] \in 0..max_buffer_size /\ max_buffer_size \in Nat \ {0} /\ rx[c] \in Nat
            BY XEpollAssumption DEF IInv, XEpollInv, TypeOK
        <3>5. Room(c) > 0
            BY <3>4 DEF Room
        <3>. QED  BY <1>7, <3>3, <3>4, <3>5
                  DEF LtReadFails, GetsAgain, GetsError, GetsData, GetsEof, Readable
    <2>. QED  BY <1>1, <1>3, <1>7, <2>1, PcInv DEF LtReadFails, Exit
<1>8. CASE EtNoBuffer(c) \/ LtNoBuffer(c)
    BY <1>1, <1>3, <1>8, PcInv DEF EtNoBuffer, LtNoBuffer, NoBuffer
<1>. QED  BY <1>4, <1>5, <1>6, <1>7, <1>8

\* A list without repetitions is cut into the part that epoll_wait reports and the
\* rest, which goes to the front when the reported part is put back.
Splits(s, first, rest, S) ==
    /\ first \in Seq(S) /\ rest \in Seq(S)
    /\ ToSet(s) = ToSet(first) \cup ToSet(rest) /\ ToSet(first) \cap ToSet(rest) = {}
    /\ IsInjective(first) /\ IsInjective(rest)
    /\ IsInjective(rest \o first) /\ rest \o first \in Seq(S)
    /\ ToSet(rest \o first) = ToSet(s)

\* Any number of its first descriptors moved to the end of the list.
LEMMA SplitFacts ==
    ASSUME NEW S, NEW s \in Seq(S), IsInjective(s), NEW n \in 0..Len(s)
    PROVE  Splits(s, SubSeq(s, 1, n), SubSeq(s, n + 1, Len(s)), S)
<1> DEFINE first == SubSeq(s, 1, n)
           rest == SubSeq(s, n + 1, Len(s))
           l == rest \o first
<1>1. first \in Seq(S) /\ Len(first) = n /\ \A i \in 1..n : first[i] = s[i]
    OBVIOUS
<1>2. /\ rest \in Seq(S) /\ IsInjective(rest)
      /\ ToSet(s) = ToSet(rest) \cup {s[i] : i \in 1..n}
      /\ \A i \in 1..n : s[i] \notin ToSet(rest)
    BY RestFacts
<1> HIDE DEF first, rest
<1>3. DOMAIN first = 1..n /\ ToSet(first) = {s[i] : i \in 1..n}
    BY <1>1 DEF ToSet
<1>4. IsInjective(first)
    BY <1>1, <1>3 DEF IsInjective
<1>5. ToSet(first) \cap ToSet(rest) = {} /\ ToSet(s) = ToSet(first) \cup ToSet(rest)
    BY <1>2, <1>3
<1>6. l \in Seq(S) /\ Joins(l, rest, first)
    BY <1>1, <1>2, JoinFacts, Zenon
<1> HIDE DEF l
<1>7. IsInjective(l) /\ ToSet(l) = ToSet(s)
    BY <1>2, <1>4, <1>5, <1>6 DEF Joins
<1>. QED  BY <1>1, <1>2, <1>4, <1>5, <1>6, <1>7, Zenon DEF Splits, first, rest, l

\* What epoll_wait finds in the ready list: the descriptors with something to report.
Ready == FlattenSeq([i \in DOMAIN rdlist |-> Polled(rdlist[i])])

\* epoll_wait looks at every descriptor of the ready list once.
LEMMA ReadyFacts ==
    ASSUME TypeOK, Registrations
    PROVE  /\ Ready \in Seq(Fds) /\ IsInjective(Ready)
           /\ ToSet(Ready) = {fd \in ToSet(rdlist) : HasEvents(fd)}
<1> DEFINE T == {fd \in Fds : HasEvents(fd)}
           ss == [i \in DOMAIN rdlist |-> Polled(rdlist[i])]
<1>1. rdlist \in Seq(Fds) /\ IsInjective(rdlist) /\ DOMAIN rdlist = 1..Len(rdlist)
    BY DEF TypeOK, Registrations
<1>2. ss = [i \in 1..Len(rdlist) |-> IF rdlist[i] \in T THEN <<rdlist[i]>> ELSE <<>>]
    BY <1>1 DEF Polled
<1> HIDE DEF T, ss
<1>3. FlattenSeq(ss) \in Seq(Fds) /\ Selects(FlattenSeq(ss), rdlist, T)
    BY <1>1, <1>2, FlattenSelects, Zenon
<1>4. Ready \in Seq(Fds) /\ Selects(Ready, rdlist, T)
    BY <1>3, Zenon DEF ss, Ready
<1>5. IsInjective(Ready) /\ ToSet(Ready) = ToSet(rdlist) \cap T /\ ToSet(rdlist) \subseteq Fds
    BY <1>1, <1>4, ToSetFacts DEF Selects
<1>6. ToSet(Ready) = {fd \in ToSet(rdlist) : HasEvents(fd)}
    BY <1>5 DEF T
<1>. QED  BY <1>4, <1>5, <1>6

\* epoll_wait keeps the invariant, in both modes.
LEMMA EpollWaitInv ==
    ASSUME IInv, EpollWait
    PROVE  IInv'
<1> USE DEF sessionVars, netVars, IInv, XEpollInv
<1> DEFINE n == IF Len(Ready) < max_event_number THEN Len(Ready) ELSE max_event_number
           reported == SubSeq(Ready, 1, n)
           rest == SubSeq(Ready, n + 1, Len(Ready))
           back == rest \o reported
<1>1. /\ Ready \in Seq(Fds) /\ IsInjective(Ready)
      /\ ToSet(Ready) = {fd \in ToSet(rdlist) : HasEvents(fd)}
    BY ReadyFacts
<1>2. /\ n > 0 /\ pc = "epoll_wait" /\ pc' = "dispatch"
      /\ batch' = [i \in 1..n |-> [fd |-> Ready[i], ev |-> EventsOf(Ready[i])]]
      /\ rdlist' = (IF mode = "et" THEN rest ELSE back)
      /\ armed' = armed \ {fd \in ToSet(reported) : OneShot(fd)}
      /\ dropped' = dropped \ ToSet(reported)
      /\ UNCHANGED <<mode, limit, sessionVars, ghosts, netVars>>
    BY Zenon DEF EpollWait, Ready
<1>3. n \in 0..Len(Ready) /\ n \in Nat
    BY <1>1, <1>2, XEpollAssumption
<1>4. Splits(Ready, reported, rest, Fds)
    BY <1>1, <1>3, SplitFacts, Zenon
<1>5. Len(reported) = n /\ \A i \in 1..n : reported[i] = Ready[i]
    BY <1>1, <1>3
<1> HIDE DEF n, reported, rest
<1>6. /\ reported \in Seq(Fds) /\ rest \in Seq(Fds) /\ back \in Seq(Fds)
      /\ ToSet(Ready) = ToSet(reported) \cup ToSet(rest)
      /\ ToSet(reported) \cap ToSet(rest) = {}
      /\ IsInjective(reported) /\ IsInjective(rest) /\ IsInjective(back)
      /\ ToSet(back) = ToSet(Ready)
    BY <1>4, Zenon DEF Splits
<1> HIDE DEF back
<1>7. /\ rdlist' \in Seq(Fds) /\ IsInjective(rdlist') /\ ToSet(rdlist') \subseteq ToSet(Ready)
      /\ mode = "et" => ToSet(rdlist') = ToSet(Ready) \ ToSet(reported)
      /\ mode = "lt" => ToSet(rdlist') = ToSet(Ready)
    BY <1>2, <1>6 DEF TypeOK
<1>8. /\ mode = "lt" => armed' = armed
      /\ mode = "et" => armed' = armed \ (ToSet(reported) \ {Listen})
    BY <1>2 DEF OneShot
<1>9. ToSet(reported) = {Ready[i] : i \in 1..n} /\ \A i \in 1..n : Ready[i] \in Fds
    <2>1. DOMAIN reported = 1..n
        BY <1>3, <1>5, <1>6
    <2>. QED  BY <1>1, <1>3, <1>5, <2>1 DEF ToSet
<1>10. /\ DOMAIN batch' = 1..n /\ batch' \in Seq(Entries) /\ batch' # <<>>
       /\ \A i \in 1..n : batch'[i].fd = Ready[i] /\ batch'[i].ev = EventsOf(Ready[i])
    <2>1. \A fd \in Fds : EventsOf(fd) \in SUBSET {"IN", "ERR"}
        BY DEF EventsOf
    <2>2. \A i \in 1..n : [fd |-> Ready[i], ev |-> EventsOf(Ready[i])] \in Entries
        BY <1>9, <2>1 DEF Entries
    <2>3. batch' \in [1..n -> Entries] /\ 1 \in 1..n
        BY <1>2, <1>3, <2>2
    <2>. QED  BY <1>2, <1>3, <2>3
<1>11. FdsOf(batch)' = ToSet(reported)
    BY <1>9, <1>10 DEF FdsOf
<1>12. Live' = Live /\ Running /\ Running' /\ batch = <<>>
    BY <1>2 DEF Live, Running, Phases
<1>13. ToSet(Ready) \subseteq Live \cup {Listen} /\ ToSet(Ready) \subseteq armed
    BY <1>1 DEF Registrations
<1>14. TypeOK'
    BY <1>2, <1>7, <1>10 DEF TypeOK, Entries
<1>15. EventsAccounted'
    <2>1. FdsOf(batch) = {}
        BY <1>12 DEF FdsOf
    <2>2. ToSet(rdlist)' \cup FdsOf(batch)' \cup dropped' \subseteq Live \cup {Listen}
        <3>1. dropped \subseteq Live \cup {Listen}
            BY <1>12 DEF EventsAccounted
        <3>2. ToSet(rdlist') \subseteq Live \cup {Listen}
            BY <1>7, <1>13
        <3>3. ToSet(reported) \subseteq Live \cup {Listen}
            BY <1>6, <1>13
        <3>. QED  BY <1>2, <1>11, <3>1, <3>2, <3>3
    <2>3. mode = "lt" => armed' = Live \cup {Listen}
        BY <1>8, <1>12 DEF EventsAccounted
    <2>4. ASSUME mode = "et"
          PROVE  /\ Live \subseteq armed' \cup FdsOf(batch)' \cup dropped'
                 /\ armed' \cap (dropped' \cup (FdsOf(batch)' \ {Listen})) = {}
                 /\ FdsOf(batch)' \cap dropped' = {}
        BY <1>2, <1>8, <1>11, <1>12, <2>1, <2>4 DEF EventsAccounted
    <2>. QED  BY <1>2, <1>12, <2>2, <2>3, <2>4 DEF EventsAccounted
<1>16. NothingUnreported'
    <2>1. SessionsReported /\ ListenReported
        BY <1>12, ReportedParts
    <2>2. \A fd \in Fds : HasEvents(fd)' <=> HasEvents(fd)
        BY <1>2 DEF HasEvents, EventsOf, Readable
    <2>3. Listen \in Fds /\ Listen \notin Live /\ Live \subseteq Fds
        BY XEpollAssumption DEF Fds, Live
    <2>4. \A fd \in armed' \cap Live : HasEvents(fd) => fd \in ToSet(rdlist')
        <3> SUFFICES ASSUME NEW fd \in armed' \cap Live, HasEvents(fd)
                     PROVE  fd \in ToSet(rdlist')
            OBVIOUS
        <3>1. fd \in ToSet(Ready)
            BY <1>1, <1>2, <2>1 DEF SessionsReported
        <3>2. mode = "et" => fd \notin ToSet(reported)
            BY <1>8, <2>3
        <3>. QED  BY <1>7, <3>1, <3>2 DEF TypeOK
    <2>5. SessionsReported'
        BY <1>12, <2>2, <2>3, <2>4 DEF SessionsReported
    <2>6. ListenReported'
        BY <1>1, <1>2, <1>7, <2>1, <2>2, <2>3 DEF ListenReported
    <2>7. (NothingUnreported <=> (Running => SessionsReported /\ ListenReported))'
        BY ReportedParts, PTL
    <2>. QED  BY <2>5, <2>6, <2>7
<1>17. Arrivals'
    BY <1>2 DEF Arrivals
<1>18. Registrations'
    BY <1>6, <1>7, <1>8, <1>12, <1>13 DEF Registrations, TypeOK
<1>19. Phases'
    <2>1. \A i, j \in 1..n : batch'[i].fd = batch'[j].fd => i = j
        <3>1. \A i, j \in 1..n : reported[i] = reported[j] => i = j
            BY <1>3, <1>5, <1>6 DEF IsInjective
        <3>. QED  BY <1>5, <1>10, <3>1
    <2>2. ASSUME NEW i \in 1..n PROVE Due(i)'
        <3>1. batch'[i].fd = Ready[i] /\ batch'[i].ev = EventsOf(Ready[i])
            BY <1>10
        <3>2. Ready[i] \in Conns => Ready[i] # Listen
            BY XEpollAssumption
        <3>. QED  BY <1>2, <3>1, <3>2 DEF Due, EventsOf, Readable
    <2>3. FdsOf(batch)' \cap dropped' = {}
        BY <1>2, <1>11
    <2>. QED  BY <1>2, <1>10, <2>1, <2>2, <2>3 DEF Phases
<1>20. OnlyErrorsEnd' /\ OrderlyCloseComplete'
    BY <1>2 DEF OnlyErrorsEnd, OrderlyCloseComplete
<1>. QED  BY <1>14, <1>15, <1>16, <1>17, <1>18, <1>19, <1>20

\* Going on with the next entry of m_Events.
LEMMA NextEventFacts ==
    ASSUME IInv, Running, batch # <<>>, NextEvent, err' = err, dropped' = dropped,
           \A d \in Conns \ {Current} : Readable(d) => Readable(d)'
    PROVE  /\ batch' \in Seq(Entries) /\ pc' \in {"epoll_wait", "dispatch"} /\ Running'
           /\ FdsOf(batch)' = FdsOf(batch) \ {Current}
           /\ Phases'
<1>1. /\ batch' = Tail(batch)
      /\ pc' = IF Tail(batch) = <<>> THEN "epoll_wait" ELSE "dispatch"
    BY DEF NextEvent
<1>2. TypeOK /\ Phases
    BY DEF IInv, XEpollInv
<1>3. /\ batch' \in Seq(Entries)
      /\ FdsOf(batch)' = FdsOf(batch) \ {Current}
      /\ \A i, j \in DOMAIN batch' : batch'[i].fd = batch'[j].fd => i = j
      /\ \A i \in DOMAIN batch' : /\ i \in Nat \ {0} /\ i + 1 \in DOMAIN batch
                                  /\ batch'[i] = batch[i + 1] /\ batch'[i].fd # Current
    <2>1. FdsOf(batch)' = FdsOf(Tail(batch))
        BY <1>1 DEF FdsOf
    <2>2. FdsOf(Tail(batch)) = FdsOf(batch) \ {Current}
        BY <1>2, DispatchFacts
    <2>. QED  BY <1>1, <1>2, <2>1, <2>2, DispatchFacts
<1>4. pc' \in {"epoll_wait", "dispatch"} /\ Running'
    BY <1>1 DEF Running
<1>5. batch' = <<>> <=> pc' = "epoll_wait"
    BY <1>1
<1>6. ASSUME NEW i \in DOMAIN batch' PROVE Due(i)'
    <2>1. Due(i + 1) /\ i + 1 # 1 /\ batch'[i] = batch[i + 1] /\ batch'[i].fd # Current
        BY <1>2, <1>3 DEF Phases
    <2>. QED  BY <2>1 DEF Due
<1>7. FdsOf(batch)' \cap dropped' = {}
    BY <1>2, <1>3 DEF Phases
<1>8. Phases'
    BY <1>3, <1>4, <1>5, <1>6, <1>7 DEF Phases
<1>. QED  BY <1>3, <1>4, <1>8

\* The end of a session.
LEMMA CloseFacts ==
    ASSUME IInv, NEW c \in Conns, c \in Live, CloseSession(c)
    PROVE  /\ rdlist' \in Seq(Fds) /\ armed' \subseteq Fds /\ armed' = armed \ {c}
           /\ ToSet(rdlist') = ToSet(rdlist) \ {c}
           /\ IsInjective(rdlist') /\ ToSet(rdlist') \subseteq armed'
           /\ session' \in [Conns -> {"none", "live", "deleted"}]
           /\ Live' = Live \ {c} /\ session'[c] = "deleted"
           /\ \A d \in Conns \ {c} : session'[d] = session[d]
<1> USE DEF IInv, XEpollInv
<1>1. rdlist \in Seq(Fds) /\ IsInjective(rdlist) /\ ToSet(rdlist) \subseteq armed /\ armed \subseteq Fds
    BY DEF TypeOK, Registrations
<1>2. rdlist' = Unlink(rdlist, c) /\ armed' = armed \ {c}
    BY DEF CloseSession, EpollDel
<1>3. rdlist' \in Seq(Fds) /\ ToSet(rdlist') = ToSet(rdlist) \ {c} /\ IsInjective(rdlist')
    BY <1>1, <1>2, UnlinkFacts
<1>4. /\ session \in [Conns -> {"none", "live", "deleted"}]
      /\ session' = [session EXCEPT ![c] = "deleted"]
    BY DEF TypeOK, CloseSession
<1>. QED  BY <1>1, <1>2, <1>3, <1>4 DEF Live

\* The session of the current entry ends, orderly with all of its data passed on or
\* because of an error, and the thread goes on with the next entry.
LEMMA CloseInv ==
    ASSUME IInv, Running, batch # <<>>, NEW c \in Conns, c = Current,
           CloseSession(c), NextEvent,
           UNCHANGED <<mode, limit, dropped, ghosts, backlog, peer, err, sent>>,
           fill' \in [Conns -> 0..max_buffer_size], shown' \in [Conns -> Nat],
           \A d \in Conns \ {c} : shown'[d] = shown[d],
           mode = "lt" /\ err[c] = "none" => shown'[c] = sent[c]
    PROVE  IInv'
<1> USE DEF IInv, XEpollInv
<1>1. c \in Live /\ c \in FdsOf(batch) /\ c # Listen /\ c \in Fds
    BY CurrentLive, DispatchFacts, XEpollAssumption DEF Fds
<1>2. /\ rdlist' \in Seq(Fds) /\ armed' \subseteq Fds /\ armed' = armed \ {c}
      /\ ToSet(rdlist') = ToSet(rdlist) \ {c}
      /\ IsInjective(rdlist') /\ ToSet(rdlist') \subseteq armed'
      /\ session' \in [Conns -> {"none", "live", "deleted"}]
      /\ Live' = Live \ {c} /\ session'[c] = "deleted"
      /\ \A d \in Conns \ {c} : session'[d] = session[d]
    BY <1>1, CloseFacts
<1>3. /\ rx \in [Conns -> Nat] /\ rx' = [rx EXCEPT ![c] = 0] /\ rx' \in [Conns -> Nat]
      /\ rx'[c] = 0 /\ \A d \in Conns \ {c} : rx'[d] = rx[d]
    BY DEF CloseSession, TypeOK
<1>4. \A d \in Conns \ {c} : /\ Readable(d)' <=> Readable(d)
                             /\ HasEvents(d)' <=> HasEvents(d)
    BY <1>3, XEpollAssumption DEF Readable, HasEvents, EventsOf
<1>5. /\ batch' \in Seq(Entries) /\ pc' \in {"epoll_wait", "dispatch"} /\ Running'
      /\ FdsOf(batch)' = FdsOf(batch) \ {c}
      /\ Phases'
    BY <1>4, NextEventFacts
<1>6. TypeOK'
    BY <1>2, <1>3, <1>5 DEF TypeOK, Entries
<1>7. EventsAccounted'
    <2>1. c \notin dropped
        BY <1>1 DEF Phases
    <2>2. ToSet(rdlist)' = ToSet(rdlist) \ {c}
        BY <1>2
    <2>3. /\ ToSet(rdlist) \cup FdsOf(batch) \cup dropped \subseteq Live \cup {Listen}
          /\ mode = "lt" => armed = Live \cup {Listen}
          /\ mode = "et" => /\ Live \subseteq armed \cup FdsOf(batch) \cup dropped
                            /\ armed \cap (dropped \cup (FdsOf(batch) \ {Listen})) = {}
                            /\ FdsOf(batch) \cap dropped = {}
        BY DEF EventsAccounted
    <2>4. mode' = mode /\ dropped' = dropped
        OBVIOUS
    <2> HIDE DEF IInv, XEpollInv
    <2>5. ToSet(rdlist)' \cup FdsOf(batch)' \cup dropped' \subseteq Live' \cup {Listen}
        BY <1>2, <1>5, <2>1, <2>2, <2>3, <2>4
    <2>6. mode = "lt" => armed' = Live' \cup {Listen}
        BY <1>1, <1>2, <2>3
    <2>7. mode = "et" => /\ Live' \subseteq armed' \cup FdsOf(batch)' \cup dropped'
                         /\ armed' \cap (dropped' \cup (FdsOf(batch)' \ {Listen})) = {}
                         /\ FdsOf(batch)' \cap dropped' = {}
        BY <1>2, <1>5, <2>3, <2>4
    <2>. QED  BY <2>4, <2>5, <2>6, <2>7 DEF EventsAccounted
<1>8. NothingUnreported'
    <2>1. SessionsReported /\ ListenReported
        BY ReportedParts
    <2>2. HasEvents(Listen)' <=> HasEvents(Listen)
        BY DEF HasEvents, EventsOf
    <2>3. SessionsReported'
        BY <1>2, <1>4, <2>1 DEF SessionsReported, Live
    <2>4. ListenReported'
        BY <1>1, <1>2, <2>1, <2>2 DEF ListenReported
    <2>5. (NothingUnreported <=> (Running => SessionsReported /\ ListenReported))'
        BY ReportedParts, PTL
    <2>. QED  BY <2>3, <2>4, <2>5
<1>9. Arrivals'
    <2>1. c \notin ToSet(backlog) /\ peer[c] # "idle" /\ ToSet(backlog) \subseteq Conns
        BY <1>1, ToSetFacts DEF Arrivals, Live, TypeOK
    <2>2. /\ IsInjective(backlog)'
          /\ \A d \in ToSet(backlog)' : peer'[d] # "idle" /\ session'[d] = "none"
        BY <1>2, <2>1 DEF Arrivals
    <2>3. ASSUME NEW d \in Conns
          PROVE  /\ peer'[d] = "idle" => session'[d] = "none"
                 /\ rx'[d] <= sent'[d]
                 /\ mode' = "lt" /\ session'[d] # "deleted" => shown'[d] + rx'[d] = sent'[d]
        <3>1. CASE d = c
            BY <1>2, <1>3, <2>1, <3>1, SMTT(20) DEF TypeOK
        <3>2. CASE d # c
            BY <1>2, <1>3, <3>2 DEF Arrivals
        <3>. QED  BY <3>1, <3>2
    <2>. QED  BY <2>2, <2>3 DEF Arrivals
<1>10. Registrations'
    BY <1>2 DEF Registrations
<1>11. OnlyErrorsEnd'
    BY <1>5 DEF OnlyErrorsEnd
<1>12. OrderlyCloseComplete'
    BY <1>2 DEF OrderlyCloseComplete
<1>. QED  BY <1>5, <1>6, <1>7, <1>8, <1>9, <1>10, <1>11, <1>12

\* What one read() takes fits the buffer and was there, and read() returns 0 only
\* at the client's FIN.
LEMMA ReadFacts ==
    ASSUME TypeOK, NEW c \in Conns
    PROVE  /\ rx[c] \in Nat /\ sent[c] \in Nat /\ shown[c] \in Nat
           /\ Room(c) \in 1..max_buffer_size /\ Taken(c) \in 0..rx[c]
           /\ max_buffer_size - Room(c) + Taken(c) \in 0..max_buffer_size
           /\ GetsEof(c) => rx[c] = 0 /\ peer[c] = "fin"
<1>1. fill[c] \in 0..max_buffer_size /\ max_buffer_size \in Nat \ {0}
      /\ rx[c] \in Nat /\ sent[c] \in Nat /\ shown[c] \in Nat
    BY XEpollAssumption DEF TypeOK
<1>2. Room(c) \in 1..max_buffer_size
    BY <1>1 DEF Room
<1>3. Taken(c) \in 0..rx[c] /\ Taken(c) <= Room(c) /\ Taken(c) \in Nat
    BY <1>1, <1>2 DEF Taken
<1>4. max_buffer_size - Room(c) + Taken(c) \in 0..max_buffer_size
    BY <1>1, <1>2, <1>3
<1>5. GetsEof(c) => rx[c] = 0 /\ peer[c] = "fin"
    BY <1>2 DEF GetsEof
<1>. QED  BY <1>1, <1>2, <1>3, <1>4, <1>5

\* An error that the current entry reports is still pending.
LEMMA CurrentError ==
    ASSUME IInv, Running, batch # <<>>, Current \in Conns, "ERR" \in Head(batch).ev
    PROVE  err[Current] # "none"
<1>1. Due(1) /\ batch[1] = Head(batch)
    BY DispatchFacts DEF IInv, XEpollInv, Phases
<1>. QED  BY <1>1 DEF Due, Current

\* The session ends: LT at the client's FIN, both modes at an error alone.
LEMMA LtEofInv ==
    ASSUME IInv, NEW c \in Conns, LtReadEof(c) \/ HandleError(c)
    PROVE  IInv'
<1>1. Running /\ Current = c /\ pc = "dispatch" /\ TypeOK
    BY DEF LtReadEof, HandleError, Dispatching, Running, IInv, XEpollInv
<1>2. batch # <<>>
    BY <1>1 DEF IInv, Phases
<1>3. c \in Live
    BY <1>1, <1>2, CurrentLive
<1>4. CASE LtReadEof(c)
    <2>1. rx[c] = 0 /\ shown[c] \in Nat /\ sent[c] \in Nat
        BY <1>1, <1>4, ReadFacts DEF LtReadEof
    <2>2. shown[c] = sent[c]
        BY <1>3, <1>4, <2>1 DEF LtReadEof, IInv, Arrivals, Live
    <2>3. /\ CloseSession(c) /\ NextEvent
          /\ UNCHANGED <<mode, limit, fill, shown, dropped, ghosts, backlog, peer, err, sent>>
        BY <1>4 DEF LtReadEof, LtAfterEof
    <2>. QED  BY <1>1, <1>2, <2>2, <2>3, CloseInv DEF TypeOK
<1>5. CASE HandleError(c)
    <2>1. err[c] # "none"
        BY <1>1, <1>2, <1>5, CurrentError DEF HandleError
    <2>. QED  BY <1>1, <1>2, <1>5, <2>1, CloseInv DEF HandleError, TypeOK
<1>. QED  BY <1>4, <1>5

\* ET at the client's FIN: with an error in the same event the thread goes on with
\* the deleted session.
LEMMA EtEofInv ==
    ASSUME IInv, NEW c \in Conns, EtReadEof(c)
    PROVE  IInv'
<1>1. Running /\ Current = c /\ pc = "read" /\ TypeOK
    BY DEF EtReadEof, Running, IInv, XEpollInv
<1>2. batch # <<>> /\ mode = "et"
    BY <1>1 DEF IInv, Phases
<1>3. /\ CloseSession(c) /\ GetsEof(c)
      /\ UNCHANGED <<mode, limit, fill, shown, dropped, ghosts, backlog, peer, err, sent>>
    BY DEF EtReadEof
<1>4. CASE "ERR" \notin Head(batch).ev
    BY <1>1, <1>2, <1>3, <1>4, CloseInv DEF EtReadEof, TypeOK
<1>5. CASE "ERR" \in Head(batch).ev
    <2>1. pc' = "undefined" /\ batch' = batch
        BY <1>5 DEF EtReadEof
    <2>2. err[c] # "none" /\ peer[c] = "fin" /\ c \in Live
        BY <1>1, <1>2, <1>3, <1>5, CurrentError, CurrentLive, ReadFacts
    <2>3. /\ rdlist' \in Seq(Fds) /\ armed' \subseteq Fds /\ armed' = armed \ {c}
          /\ IsInjective(rdlist') /\ ToSet(rdlist') \subseteq armed'
          /\ session' \in [Conns -> {"none", "live", "deleted"}]
          /\ Live' = Live \ {c} /\ session'[c] = "deleted"
          /\ \A d \in Conns \ {c} : session'[d] = session[d]
        BY <1>3, <2>2, CloseFacts
    <2>4. /\ rx \in [Conns -> Nat] /\ rx' = [rx EXCEPT ![c] = 0] /\ rx' \in [Conns -> Nat]
          /\ rx'[c] = 0 /\ \A d \in Conns \ {c} : rx'[d] = rx[d]
        BY <1>1, <1>3 DEF CloseSession, TypeOK
    <2>5. TypeOK'
        BY <1>1, <1>3, <2>1, <2>3, <2>4 DEF TypeOK
    <2>6. EventsAccounted' /\ NothingUnreported' /\ Phases'
        BY <2>1 DEF EventsAccounted, NothingUnreported, Phases, Running
    <2>7. Registrations'
        <3>1. c # Listen
            BY XEpollAssumption
        <3>. QED  BY <2>3, <3>1 DEF IInv, Registrations
    <2>8. Arrivals'
        <3>1. c \notin ToSet(backlog) /\ peer[c] # "idle"
            BY <2>2 DEF IInv, Arrivals, Live
        <3>2. ToSet(backlog) \subseteq Conns
            BY <1>1, ToSetFacts DEF TypeOK
        <3>3. /\ IsInjective(backlog)'
              /\ \A d \in ToSet(backlog)' : peer'[d] # "idle" /\ session'[d] = "none"
            BY <1>3, <2>3, <3>1, <3>2 DEF IInv, Arrivals
        <3>4. \A d \in Conns : peer'[d] = "idle" => session'[d] = "none"
            BY <1>3, <2>3, <3>1 DEF IInv, Arrivals
        <3>5. \A d \in Conns : rx'[d] <= sent'[d]
            <4>1. 0 <= sent[c]
                BY <1>1 DEF TypeOK
            <4>. QED  BY <1>3, <2>4, <4>1 DEF IInv, Arrivals
        <3>. QED  BY <1>2, <1>3, <3>3, <3>4, <3>5 DEF Arrivals
    <2>9. OnlyErrorsEnd' /\ OrderlyCloseComplete'
        BY <1>2, <1>3, <2>1, <2>2, <2>3 DEF OnlyErrorsEnd, OrderlyCloseComplete
    <2>. QED  BY <2>5, <2>6, <2>7, <2>8, <2>9 DEF IInv, XEpollInv
<1>. QED  BY <1>4, <1>5

\* A unit more or less in a socket changes what its polling says, not the others'.
LEMMA LessToReport ==
    ASSUME IInv, NEW c \in Conns, UNCHANGED <<backlog, peer, err>>, rx \in [Conns -> Nat],
           rx' = [rx EXCEPT ![c] = rx[c] - Taken(c)], Taken(c) \in 0..rx[c]
    PROVE  /\ rx' \in [Conns -> Nat] /\ rx'[c] = rx[c] - Taken(c) /\ rx'[c] <= rx[c]
           /\ \A d \in Conns \ {c} : rx'[d] = rx[d] /\ (Readable(d)' <=> Readable(d))
           /\ \A fd \in Fds : HasEvents(fd)' => HasEvents(fd)
<1>1. rx[c] - Taken(c) \in Nat /\ rx[c] - Taken(c) <= rx[c] /\ rx[c] \in Nat
    OBVIOUS
<1>2. /\ rx' \in [Conns -> Nat] /\ rx'[c] = rx[c] - Taken(c)
      /\ \A d \in Conns \ {c} : rx'[d] = rx[d]
    BY <1>1
<1>3. \A d \in Conns : Readable(d)' => Readable(d)
    BY <1>1, <1>2 DEF Readable
<1>4. \A d \in Conns \ {c} : Readable(d)' <=> Readable(d)
    BY <1>2 DEF Readable
<1>5. \A fd \in Fds : HasEvents(fd)' => HasEvents(fd)
    BY <1>3 DEF HasEvents, EventsOf, Fds
<1>. QED  BY <1>1, <1>2, <1>4, <1>5

\* One read() of ET.
LEMMA EtReadDataInv ==
    ASSUME IInv, NEW c \in Conns, EtReadData(c)
    PROVE  IInv'
<1> USE DEF IInv, XEpollInv, sessionVars, epollVars
<1>1. /\ Running /\ Running' /\ Current = c /\ pc = "read" /\ mode = "et"
      /\ UNCHANGED <<rdlist, armed, mode, limit, pc, batch, session, shown, dropped, ghosts,
                     backlog, peer, err, sent>>
    BY DEF EtReadData, Running, Phases
<1>2. /\ rx' = [rx EXCEPT ![c] = rx[c] - Taken(c)] /\ rx \in [Conns -> Nat]
      /\ fill' = [fill EXCEPT ![c] = max_buffer_size - Room(c) + Taken(c)]
    BY DEF EtReadData, Store, TypeOK
<1>3. /\ Taken(c) \in 0..rx[c]
      /\ max_buffer_size - Room(c) + Taken(c) \in 0..max_buffer_size
    BY ReadFacts
<1>4. /\ rx' \in [Conns -> Nat] /\ rx'[c] <= rx[c]
      /\ \A d \in Conns \ {c} : rx'[d] = rx[d] /\ (Readable(d)' <=> Readable(d))
      /\ \A fd \in Fds : HasEvents(fd)' => HasEvents(fd)
    BY <1>1, <1>2, <1>3, LessToReport
<1>5. TypeOK'
    BY <1>1, <1>2, <1>3, <1>4 DEF TypeOK
<1>6. Live' = Live /\ FdsOf(batch)' = FdsOf(batch) /\ Current' = Current
    BY <1>1 DEF Live, FdsOf, Current
<1>7. EventsAccounted'
    BY <1>1, <1>6 DEF EventsAccounted
<1>8. NothingUnreported'
    <2>1. SessionsReported /\ ListenReported
        BY <1>1, ReportedParts
    <2>2. Live \subseteq Fds
        BY DEF Live, Fds
    <2>3. SessionsReported'
        BY <1>1, <1>4, <1>6, <2>1, <2>2 DEF SessionsReported
    <2>4. ListenReported'
        BY <1>1 DEF ListenReported
    <2>5. (NothingUnreported <=> (Running => SessionsReported /\ ListenReported))'
        BY ReportedParts, PTL
    <2>. QED  BY <2>3, <2>4, <2>5
<1>9. Arrivals'
    <2>1. rx[c] \in Nat /\ rx'[c] \in Nat /\ sent[c] \in Nat /\ rx[c] <= sent[c]
        BY <1>2, <1>4 DEF TypeOK, Arrivals
    <2>2. \A d \in Conns : rx'[d] <= sent'[d]
        BY <1>1, <1>4, <2>1 DEF Arrivals
    <2>3. /\ IsInjective(backlog)'
          /\ \A d \in ToSet(backlog)' : peer'[d] # "idle" /\ session'[d] = "none"
          /\ \A d \in Conns : peer'[d] = "idle" => session'[d] = "none"
        BY <1>1 DEF Arrivals
    <2>. QED  BY <1>1, <2>2, <2>3 DEF Arrivals
<1>10. Registrations'
    BY <1>1, <1>6 DEF Registrations
<1>11. Phases'
    <2>1. batch # <<>> /\ batch[1].fd = c
        BY <1>1, DispatchFacts DEF Phases, Current
    <2>2. 1 \in DOMAIN batch
        BY <1>1, <2>1, DispatchFacts
    <2>3. ASSUME NEW i \in DOMAIN batch PROVE Due(i)'
        <3>1. Due(i)
            BY <1>1 DEF Phases
        <3>2. i # 1 => batch[i].fd # c
            BY <1>1, <2>1, <2>2 DEF Phases
        <3>. QED  BY <1>1, <1>4, <3>1, <3>2 DEF Due
    <2>. QED  BY <1>1, <1>6, <2>3 DEF Phases
<1>12. OnlyErrorsEnd' /\ OrderlyCloseComplete'
    BY <1>1 DEF OnlyErrorsEnd, OrderlyCloseComplete
<1>. QED  BY <1>5, <1>7, <1>8, <1>9, <1>10, <1>11, <1>12

\* HandleRead: the history notes what was received, which is not less than nothing.
LEMMA ShowFacts ==
    ASSUME TypeOK, NEW c \in Conns, NEW left \in 0..rx[c], rx[c] <= sent[c], Show(c, left)
    PROVE  /\ shown' \in [Conns -> Nat] /\ shown'[c] + left = sent[c]
           /\ \A d \in Conns \ {c} : shown'[d] = shown[d]
<1>1. /\ rx[c] \in Nat /\ sent[c] \in Nat /\ left \in Nat /\ left <= rx[c]
      /\ shown \in [Conns -> Nat] /\ shown' = [shown EXCEPT ![c] = sent[c] - left]
    BY DEF TypeOK, Show
<1>2. sent[c] - left \in Nat /\ (sent[c] - left) + left = sent[c]
    BY <1>1
<1>. QED  BY <1>1, <1>2

\* ET after its last read(): the descriptor is armed again, and polled.
LEMMA EtFinishReadInv ==
    ASSUME IInv, NEW c \in Conns, EtFinishRead(c)
    PROVE  IInv'
<1> USE DEF IInv, XEpollInv, netVars
<1>1. /\ Running /\ Current = c /\ pc = "reset_oneshot" /\ mode = "et"
      /\ UNCHANGED <<mode, limit, session, fill, dropped, ghosts, backlog, peer, err, rx, sent>>
    BY DEF EtFinishRead, Running, Phases
<1>2. /\ batch # <<>> /\ NextEvent /\ EpollArm(c, HasEvents(c)) /\ Show(c, rx[c])
      /\ HasEvents(c) \in BOOLEAN
    BY <1>1 DEF Phases, EtFinishRead, ResetOneShot, HasEvents
<1>3. c \in Fds /\ c # Listen /\ c \in Live /\ c \in FdsOf(batch)
    BY <1>1, <1>2, CurrentLive, DispatchFacts, XEpollAssumption DEF Fds
<1>4. /\ rdlist' \in Seq(Fds) /\ armed' = armed \cup {c} /\ armed' \subseteq Fds
      /\ IsInjective(rdlist') /\ ToSet(rdlist') \subseteq armed'
      /\ ToSet(rdlist) \subseteq ToSet(rdlist')
      /\ ToSet(rdlist') \subseteq ToSet(rdlist) \cup {c}
      /\ HasEvents(c) => c \in ToSet(rdlist')
    BY <1>2, <1>3, ArmFacts
<1>5. \A fd \in Fds : HasEvents(fd)' <=> HasEvents(fd)
    BY <1>1 DEF HasEvents, EventsOf, Readable
<1>6. \A d \in Conns : Readable(d)' <=> Readable(d)
    BY <1>1 DEF Readable
<1>7. /\ batch' \in Seq(Entries) /\ pc' \in {"epoll_wait", "dispatch"} /\ Running'
      /\ FdsOf(batch)' = FdsOf(batch) \ {c}
      /\ Phases'
    BY <1>1, <1>2, <1>6, NextEventFacts
<1>8. /\ rx[c] \in 0..rx[c] /\ rx[c] <= sent[c]
    BY DEF TypeOK, Arrivals
<1>9. /\ shown' \in [Conns -> Nat] /\ \A d \in Conns \ {c} : shown'[d] = shown[d]
    BY <1>2, <1>8, ShowFacts
<1>10. Live' = Live
    BY <1>1 DEF Live
<1>11. TypeOK'
    BY <1>1, <1>4, <1>7, <1>9 DEF TypeOK, Entries
<1>12. EventsAccounted'
    <2>1. /\ ToSet(rdlist) \cup FdsOf(batch) \cup dropped \subseteq Live \cup {Listen}
          /\ Live \subseteq armed \cup FdsOf(batch) \cup dropped
          /\ armed \cap (dropped \cup (FdsOf(batch) \ {Listen})) = {}
          /\ FdsOf(batch) \cap dropped = {}
        BY <1>1 DEF EventsAccounted
    <2>2. mode' = "et" /\ dropped' = dropped /\ ToSet(rdlist)' \subseteq ToSet(rdlist) \cup {c}
        BY <1>1, <1>4
    <2> HIDE DEF IInv, XEpollInv
    <2>3. ToSet(rdlist)' \cup FdsOf(batch)' \cup dropped' \subseteq Live' \cup {Listen}
        BY <1>3, <1>7, <1>10, <2>1, <2>2
    <2>4. /\ Live' \subseteq armed' \cup FdsOf(batch)' \cup dropped'
          /\ armed' \cap (dropped' \cup (FdsOf(batch)' \ {Listen})) = {}
          /\ FdsOf(batch)' \cap dropped' = {}
        BY <1>3, <1>4, <1>7, <1>10, <2>1, <2>2
    <2>. QED  BY <2>2, <2>3, <2>4 DEF EventsAccounted
<1>13. NothingUnreported'
    <2>1. SessionsReported
        BY <1>1, ReportedParts
    <2>2. Live \subseteq Fds
        BY DEF Live, Fds
    <2>3. SessionsReported'
        BY <1>4, <1>5, <1>10, <2>1, <2>2 DEF SessionsReported
    <2>4. ListenReported'
        BY <1>1 DEF ListenReported
    <2>5. (NothingUnreported <=> (Running => SessionsReported /\ ListenReported))'
        BY ReportedParts, PTL
    <2>. QED  BY <2>3, <2>4, <2>5
<1>14. Arrivals'
    BY <1>1 DEF Arrivals
<1>15. Registrations'
    BY <1>3, <1>4, <1>10 DEF Registrations
<1>16. OnlyErrorsEnd' /\ OrderlyCloseComplete'
    BY <1>1, <1>7 DEF OnlyErrorsEnd, OrderlyCloseComplete
<1>. QED  BY <1>7, <1>11, <1>12, <1>13, <1>14, <1>15, <1>16

\* LT reads once and calls HandleRead; with an error in the event the session ends.
LEMMA LtReadDataInv ==
    ASSUME IInv, NEW c \in Conns, LtReadData(c)
    PROVE  IInv'
<1> USE DEF IInv, XEpollInv, epollVars
<1>1. /\ Running /\ Current = c /\ pc = "dispatch" /\ mode = "lt" /\ NextEvent
      /\ UNCHANGED <<mode, limit, dropped, ghosts, backlog, peer, err, sent>>
      /\ fill' = [fill EXCEPT ![c] = max_buffer_size - Room(c) + Taken(c)]
      /\ Show(c, rx[c] - Taken(c))
    BY DEF LtReadData, LtAfterData, Dispatching, Running
<1>2. batch # <<>>
    BY <1>1 DEF Phases
<1>3. /\ Taken(c) \in 0..rx[c] /\ rx[c] \in Nat /\ sent[c] \in Nat
      /\ max_buffer_size - Room(c) + Taken(c) \in 0..max_buffer_size
      /\ rx[c] <= sent[c]
    BY ReadFacts DEF Arrivals
<1>4. rx[c] - Taken(c) \in 0..rx[c] /\ rx[c] - Taken(c) \in Nat
    BY <1>3
<1>5. /\ shown' \in [Conns -> Nat] /\ shown'[c] + (rx[c] - Taken(c)) = sent[c]
      /\ \A d \in Conns \ {c} : shown'[d] = shown[d]
    BY <1>1, <1>3, <1>4, ShowFacts
<1>6. fill' \in [Conns -> 0..max_buffer_size]
    BY <1>1, <1>3 DEF TypeOK
<1>7. CASE "ERR" \in Head(batch).ev
    <2>1. CloseSession(c)
        BY <1>7 DEF LtReadData, LtAfterData
    <2>2. err[c] # "none"
        BY <1>1, <1>2, <1>7, CurrentError
    <2> HIDE DEF IInv, XEpollInv
    <2>. QED  BY <1>1, <1>2, <1>5, <1>6, <2>1, <2>2, CloseInv
<1>8. CASE "ERR" \notin Head(batch).ev
    <2>1. rx' = [rx EXCEPT ![c] = rx[c] - Taken(c)] /\ UNCHANGED <<session, rdlist, armed>>
        BY <1>8 DEF LtReadData, LtAfterData
    <2>2. /\ rx' \in [Conns -> Nat] /\ rx'[c] = rx[c] - Taken(c) /\ rx'[c] <= rx[c]
          /\ \A d \in Conns \ {c} : rx'[d] = rx[d] /\ (Readable(d)' <=> Readable(d))
          /\ \A fd \in Fds : HasEvents(fd)' => HasEvents(fd)
        BY <1>1, <1>3, <2>1, LessToReport DEF TypeOK
    <2>3. /\ batch' \in Seq(Entries) /\ pc' \in {"epoll_wait", "dispatch"} /\ Running'
          /\ FdsOf(batch)' = FdsOf(batch) \ {c}
          /\ Phases'
        BY <1>1, <1>2, <2>2, NextEventFacts
    <2>4. Live' = Live /\ Live \subseteq Fds /\ Listen \in Fds
        BY <2>1 DEF Live, Fds
    <2>5. TypeOK'
        BY <1>1, <1>5, <1>6, <2>1, <2>2, <2>3 DEF TypeOK, Entries
    <2>6. EventsAccounted'
        BY <1>1, <2>1, <2>3, <2>4 DEF EventsAccounted
    <2>7. NothingUnreported'
        <3>1. SessionsReported /\ ListenReported
            BY <1>1, ReportedParts
        <3>2. SessionsReported' /\ ListenReported'
            BY <1>1, <2>1, <2>2, <2>4, <3>1 DEF SessionsReported, ListenReported
        <3>3. (NothingUnreported <=> (Running => SessionsReported /\ ListenReported))'
            BY ReportedParts, PTL
        <3>. QED  BY <3>2, <3>3
    <2>8. Arrivals'
        <3>1. rx'[c] <= sent[c] /\ shown'[c] + rx'[c] = sent[c]
            BY <1>3, <1>5, <2>2
        <3>2. /\ IsInjective(backlog)'
              /\ \A d \in ToSet(backlog)' : peer'[d] # "idle" /\ session'[d] = "none"
              /\ \A d \in Conns : peer'[d] = "idle" => session'[d] = "none"
            BY <1>1, <2>1 DEF Arrivals
        <3>3. ASSUME NEW d \in Conns
              PROVE  /\ rx'[d] <= sent'[d]
                     /\ mode' = "lt" /\ session'[d] # "deleted" =>
                            shown'[d] + rx'[d] = sent'[d]
            <4>1. CASE d = c
                BY <1>1, <3>1, <4>1
            <4>2. CASE d # c
                BY <1>1, <1>5, <2>1, <2>2, <4>2 DEF Arrivals
            <4>. QED  BY <4>1, <4>2
        <3>. QED  BY <3>2, <3>3 DEF Arrivals
    <2>9. Registrations'
        BY <2>1, <2>4 DEF Registrations
    <2>10. OnlyErrorsEnd'
        BY <2>3 DEF OnlyErrorsEnd
    <2>11. OrderlyCloseComplete'
        <3>1. session[c] = "live"
            BY <1>1, <1>2, CurrentLive DEF Live
        <3>. QED  BY <1>1, <1>5, <2>1, <3>1 DEF OrderlyCloseComplete
    <2>. QED  BY <2>3, <2>5, <2>6, <2>7, <2>8, <2>9, <2>10, <2>11
<1>. QED  BY <1>7, <1>8

\* An accept, or its failure, and the return that throws the rest of m_Events away.
LEMMA AcceptInv ==
    ASSUME IInv, AcceptAndReturn
    PROVE  IInv'
<1> USE DEF IInv, XEpollInv
<1>1. /\ Running /\ Current = Listen /\ pc = "dispatch" /\ Running'
      /\ batch' = <<>> /\ pc' = "epoll_wait" /\ dropped' = dropped \cup FdsOf(Tail(batch))
      /\ UNCHANGED <<mode, limit, fill, shown, peer, err, rx, sent>>
    BY DEF AcceptAndReturn, Dispatching, Running
<1>2. batch # <<>>
    BY <1>1 DEF Phases
<1> DEFINE gone == FdsOf(Tail(batch))
<1>3. FdsOf(batch) = gone \cup {Listen} /\ Listen \notin gone
    BY <1>1, <1>2, DispatchFacts
<1> HIDE DEF gone
<1>4. /\ ToSet(rdlist) \subseteq Live \cup {Listen} /\ gone \subseteq Live /\ gone \subseteq Conns
      /\ dropped \subseteq Live /\ dropped \subseteq Conns
      /\ mode = "lt" => armed = Live \cup {Listen}
      /\ mode = "et" => /\ Live \subseteq armed \cup gone \cup dropped
                        /\ armed \cap (dropped \cup gone) = {}
    <2>1. dropped \subseteq Conns /\ Listen \notin Conns /\ Live \subseteq Conns
        BY XEpollAssumption DEF TypeOK, Live
    <2>. QED  BY <1>1, <1>3, <2>1 DEF EventsAccounted
<1>5. FdsOf(batch)' = {} /\ dropped' = dropped \cup gone
    BY <1>1 DEF FdsOf, gone
<1>6. Phases'
    BY <1>1, <1>5 DEF Phases
<1>7. OnlyErrorsEnd'
    BY <1>1 DEF OnlyErrorsEnd
<1>8. \A d \in Conns : HasEvents(d)' <=> HasEvents(d)
    BY <1>1, XEpollAssumption DEF HasEvents, EventsOf, Readable
<1>9. SessionsReported /\ ListenReported /\ Live \subseteq Conns
    BY <1>1, ReportedParts DEF Live
<1>10. (NothingUnreported <=> (Running => SessionsReported /\ ListenReported))'
    BY ReportedParts, PTL
<1>11. CASE AcceptOne
    <2> DEFINE c == Head(backlog)
    <2>1. /\ backlog # <<>> /\ backlog' = Tail(backlog)
          /\ session' = [session EXCEPT ![c] = "live"]
          /\ EpollArm(c, HasEvents(c)) /\ ghosts' = ghosts
        BY <1>11 DEF AcceptOne
    <2>2. /\ c \in Conns /\ backlog' \in Seq(Conns) /\ IsInjective(backlog')
          /\ ToSet(backlog) = ToSet(backlog') \cup {c} /\ c \notin ToSet(backlog')
        BY <2>1, TailFacts DEF TypeOK, Arrivals
    <2>3. session[c] = "none" /\ peer[c] # "idle"
        BY <2>2 DEF Arrivals
    <2> HIDE DEF c
    <2>4. c \in Fds /\ c # Listen /\ HasEvents(c) \in BOOLEAN /\ c \notin Live
        BY <2>2, <2>3, XEpollAssumption DEF Fds, HasEvents, Live
    <2>5. /\ rdlist' \in Seq(Fds) /\ armed' = armed \cup {c} /\ armed' \subseteq Fds
          /\ IsInjective(rdlist') /\ ToSet(rdlist') \subseteq armed'
          /\ ToSet(rdlist) \subseteq ToSet(rdlist')
          /\ ToSet(rdlist') \subseteq ToSet(rdlist) \cup {c}
          /\ HasEvents(c) => c \in ToSet(rdlist')
        BY <2>1, <2>4, ArmFacts
    <2>6. /\ session' \in [Conns -> {"none", "live", "deleted"}] /\ session'[c] = "live"
          /\ \A d \in Conns \ {c} : session'[d] = session[d]
          /\ Live' = Live \cup {c}
        BY <2>1, <2>2 DEF TypeOK, Live
    <2>7. TypeOK'
        <3>1. /\ rdlist' \in Seq(Fds) /\ armed' \subseteq Fds
              /\ session' \in [Conns -> {"none", "live", "deleted"}]
              /\ dropped' \subseteq Conns /\ backlog' \in Seq(Conns)
            BY <1>4, <1>5, <2>2, <2>5, <2>6
        <3>2. batch' \in Seq(Entries)
            BY <1>1
        <3> HIDE DEF IInv, XEpollInv
        <3>3. TypeOK
            BY DEF IInv, XEpollInv
        <3>. QED  BY <1>1, <2>1, <3>1, <3>2, <3>3 DEF TypeOK, Entries
    <2>8. EventsAccounted'
        <3>1. ToSet(rdlist)' \subseteq Live' \cup {Listen} /\ dropped' \subseteq Live' \cup {Listen}
            BY <1>4, <1>5, <2>5, <2>6
        <3>2. mode = "lt" => armed' = Live' \cup {Listen}
            BY <1>4, <2>5, <2>6
        <3>3. mode = "et" => Live' \subseteq armed' \cup dropped' /\ armed' \cap dropped' = {}
            BY <1>4, <1>5, <2>4, <2>5, <2>6
        <3>. QED  BY <1>1, <1>5, <3>1, <3>2, <3>3 DEF EventsAccounted
    <2>9. SessionsReported'
        BY <1>8, <1>9, <2>2, <2>4, <2>5, <2>6 DEF SessionsReported
    <2>10. ListenReported'
        BY <1>1, <1>9, <2>1, <2>5 DEF ListenReported, HasEvents, EventsOf
    <2>11. Arrivals'
        <3>1. ToSet(backlog') \subseteq Conns /\ ToSet(backlog') \subseteq ToSet(backlog)
            BY <2>2, ToSetFacts
        <3>2. \A d \in ToSet(backlog') : peer'[d] # "idle" /\ session'[d] = "none"
            BY <1>1, <2>2, <2>6, <3>1 DEF Arrivals
        <3>3. \A d \in Conns : session'[d] # "deleted" => session[d] # "deleted"
            BY <2>3, <2>6
        <3>4. \A d \in Conns : peer'[d] = "idle" => session'[d] = "none"
            BY <1>1, <2>3, <2>6 DEF Arrivals
        <3>. QED  BY <1>1, <2>2, <3>2, <3>3, <3>4 DEF Arrivals
    <2>12. Registrations'
        BY <2>5, <2>6 DEF Registrations
    <2>13. OrderlyCloseComplete'
        BY <1>1, <2>6 DEF OrderlyCloseComplete
    <2>. QED  BY <1>6, <1>7, <1>10, <2>7, <2>8, <2>9, <2>10, <2>11, <2>12, <2>13
<1>12. CASE AcceptFails
    <2>1. ghosts' = TRUE /\ UNCHANGED <<rdlist, armed, backlog, session>>
        BY <1>12 DEF AcceptFails, epollVars
    <2>2. Live' = Live
        BY <2>1 DEF Live
    <2>3. TypeOK'
        BY <1>1, <1>4, <1>5, <2>1 DEF TypeOK
    <2>4. EventsAccounted'
        BY <1>1, <1>4, <1>5, <2>1, <2>2 DEF EventsAccounted
    <2>5. SessionsReported' /\ ListenReported'
        BY <1>1, <1>8, <1>9, <2>1, <2>2
           DEF SessionsReported, ListenReported, HasEvents, EventsOf
    <2>6. Arrivals' /\ Registrations'
        BY <1>1, <2>1, <2>2 DEF Arrivals, Registrations
    <2>7. OrderlyCloseComplete'
        BY <1>1, <2>1 DEF OrderlyCloseComplete
    <2>. QED  BY <1>6, <1>7, <1>10, <2>3, <2>4, <2>5, <2>6, <2>7
<1>. QED  BY <1>11, <1>12 DEF AcceptAndReturn

-----------------------------------------------------------------------------
(* The theorems.                                                           *)

\* The server starts with nothing but the listening socket registered.
LEMMA InitInv == Init => IInv
<1> SUFFICES ASSUME Init PROVE IInv
    OBVIOUS
<1> USE DEF Init
<1>1. TypeOK
    <2>1. /\ rdlist \in Seq(Fds) /\ batch \in Seq([fd : Fds, ev : SUBSET {"IN", "ERR"}])
          /\ backlog \in Seq(Conns)
        OBVIOUS
    <2>2. armed \subseteq Fds /\ dropped \subseteq Conns
        BY DEF Fds
    <2>3. /\ fill \in [Conns -> 0..max_buffer_size] /\ shown \in [Conns -> Nat]
          /\ rx \in [Conns -> Nat] /\ sent \in [Conns -> Nat]
        BY XEpollAssumption
    <2>. QED  BY <2>1, <2>2, <2>3 DEF TypeOK
<1>2. Live = {} /\ FdsOf(batch) = {} /\ ToSet(rdlist) = {} /\ ToSet(backlog) = {}
    BY DEF Live, FdsOf, ToSet
<1>3. EventsAccounted
    BY <1>2 DEF EventsAccounted
<1>4. NothingUnreported
    BY <1>2, ReportedParts DEF SessionsReported, ListenReported, HasEvents, EventsOf
<1>5. Arrivals
    BY <1>2 DEF Arrivals, IsInjective
<1>6. Registrations
    BY <1>2 DEF Registrations, IsInjective
<1>7. Phases
    BY <1>2 DEF Phases
<1>8. OnlyErrorsEnd /\ OrderlyCloseComplete
    BY DEF OnlyErrorsEnd, OrderlyCloseComplete
<1>. QED  BY <1>1, <1>3, <1>4, <1>5, <1>6, <1>7, <1>8 DEF IInv, XEpollInv

\* Nothing changes when the process has ended.
LEMMA StutterInv == IInv /\ UNCHANGED vars => IInv'
<1> SUFFICES ASSUME IInv, UNCHANGED vars PROVE IInv'
    OBVIOUS
<1> USE DEF vars, epollVars, serverVars, sessionVars, netVars, IInv, XEpollInv
<1>1. TypeOK'
    BY DEF TypeOK
<1>2. Live' = Live /\ FdsOf(batch)' = FdsOf(batch) /\ (Running' <=> Running)
    BY DEF Live, FdsOf, Running
<1>3. EventsAccounted'
    BY <1>2 DEF EventsAccounted
<1>4. NothingUnreported'
    <2>1. \A fd \in Fds : HasEvents(fd)' <=> HasEvents(fd)
        BY DEF HasEvents, EventsOf, Readable
    <2>2. Live \subseteq Fds /\ Listen \in Fds
        BY DEF Live, Fds
    <2>3. Running => SessionsReported /\ ListenReported
        BY ReportedParts
    <2>4. Running' => SessionsReported' /\ ListenReported'
        BY <1>2, <2>1, <2>2, <2>3 DEF SessionsReported, ListenReported
    <2>5. (NothingUnreported <=> (Running => SessionsReported /\ ListenReported))'
        BY ReportedParts, PTL
    <2>. QED  BY <2>4, <2>5
<1>5. Arrivals' /\ Registrations'
    BY <1>2 DEF Arrivals, Registrations
<1>6. Phases'
    <2>1. \A i \in DOMAIN batch : Due(i) => Due(i)'
        BY DEF Due, Readable
    <2>. QED  BY <1>2, <2>1 DEF Phases, Current
<1>7. OnlyErrorsEnd' /\ OrderlyCloseComplete'
    BY <1>2 DEF OnlyErrorsEnd, OrderlyCloseComplete, Current
<1>. QED  BY <1>1, <1>3, <1>4, <1>5, <1>6, <1>7

\* Every step of the server, of a signal and of the clients keeps the invariant.
LEMMA StepInv == IInv /\ [Next]_vars => IInv'
<1> SUFFICES ASSUME IInv, [Next]_vars PROVE IInv'
    OBVIOUS
<1>1. CASE EpollWait
    BY <1>1, EpollWaitInv
<1>2. CASE AcceptAndReturn
    BY <1>2, AcceptInv
<1>3. ASSUME NEW c \in Conns, LT(c) PROVE IInv'
    BY <1>3, LtReadDataInv, LtEofInv, ReadPcInv DEF LT
<1>4. ASSUME NEW c \in Conns, ET(c) PROVE IInv'
    BY <1>4, EtReadDataInv, EtEofInv, ReadPcInv, EtFinishReadInv DEF ET
<1>5. ASSUME NEW c \in Conns, HandleError(c) PROVE IInv'
    BY <1>5, LtEofInv
<1>6. CASE WaitInterrupted
    BY <1>6, WaitInterruptedInv
<1>7. CASE Running /\ ClientStep
    BY <1>7, ClientStepInv
<1>8. CASE UNCHANGED vars
    BY <1>8, StutterInv
<1>. QED  BY <1>1, <1>2, <1>3, <1>4, <1>5, <1>6, <1>7, <1>8
          DEF Next, ServerLoop, Finished

\* The inductive invariant holds throughout.
LEMMA SpecInv == Spec => []IInv
BY InitInv, StepInv, PTL DEF Spec

\* No entry of the ready list or of m_Events is about a deleted session; in ET mode
\* every live session is armed, in m_Events or dropped by a return after an accept, and
\* only one of these (xepoll.cpp:231 and 99); and what is armed and has something to
\* report is in the ready list.
THEOREM EventsStayAccounted == Spec => []XEpollInv
<1>1. IInv => XEpollInv
    BY DEF IInv
<1>. QED  BY <1>1, SpecInv, PTL

\* But for an interrupted epoll_wait only an error of a connection ends the server, or
\* that it gets no receive buffer for one (xepoll.cpp:254 and 266 in ET, 163 to 167 in
\* LT): LT never calls read() where it would block (xepoll.cpp:171), and a session is
\* used after its delete only by ET, for an event with both the FIN and an error.
THEOREM OnlyErrorsEndTheServer == Spec => []OnlyErrorsEnd
<1>1. IInv => OnlyErrorsEnd
    BY DEF IInv
<1>. QED  BY <1>1, SpecInv, PTL

\* LT passes all that a client sent on before it closes an orderly session
\* (xepoll.cpp:177).
THEOREM OrderlyClosesComplete == Spec => []OrderlyCloseComplete
<1>1. IInv => OrderlyCloseComplete
    BY DEF IInv
<1>. QED  BY <1>1, SpecInv, PTL
============================================================================

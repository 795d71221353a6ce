------------------------ MODULE SockServers_proofs ------------------------
(***************************************************************************)
(* Theorems about the servers on plain sockets, for every number of        *)
(* clients, every length of the message and every limit on descriptors.    *)
(*                                                                         *)
(* MultiProcessServer: what a child writes with WriteN reaches ReadN       *)
(* whole. The inductive invariant says of each client where it is          *)
(* (Connections), who holds its connection (Holders), and that what it has *)
(* read and what is on the wire are, one behind the other, the part of the *)
(* reply that WriteN has counted (Data).                                   *)
(*                                                                         *)
(* SelectServer and PollServer: the tables keep the clients they were      *)
(* given, and a server ends for a cause. The inductive invariant,          *)
(* ServersIInv, adds to that that each accepted client has a descriptor of *)
(* its own (Connected) and one entry of the table (HoldsEach), and what a  *)
(* pass over the table relies on (SelectLoop, PollLoop).                   *)
(***************************************************************************)
EXTENDS SockServers, SeqFacts, FiniteSetTheorems

USE SocketsAssumption, ProcessAssumption

Units == 1..MsgLen

ProcessTypes ==
    /\ backlog \in Seq(Clients)
    /\ peer \in [Clients -> {"idle", "open", "spoke", "gone"}]
    /\ fd \in [Clients -> Int]
    /\ child \in [Clients -> {"none", "running", "zombie", "reaped"}]
    /\ holds \in [Clients -> SUBSET Clients]
    /\ call \in [Clients -> 1..3] /\ nLeft \in [Clients -> Units]
    /\ wire \in [Clients -> Seq(Units)] /\ got \in [Clients -> Seq(Units)]
    /\ nWanted \in [Clients -> Int] /\ returned \in [Clients -> BOOLEAN]

\* A client connects once, and the parent has at most the connection it is about to
\* fork for or to close.
Connections ==
    /\ IsInjective(backlog)
    /\ \A c \in Clients : peer[c] = "idle" => c \notin ToSet(backlog)
    /\ \A c \in Clients : peer[c] = "idle" \/ c \in ToSet(backlog) =>
           fd[c] = -1 /\ child[c] = "none" /\ ~returned[c]
    /\ pc \in {"fork", "close"} =>
           /\ clientFd \in Nat
           /\ \A c \in Clients : fd[c] \in {-1, clientFd}
           /\ \A c, d \in Clients : fd[c] = clientFd /\ fd[d] = clientFd => c = d
    /\ pc \notin {"fork", "close"} => \A c \in Clients : fd[c] = -1
    /\ pc = "fork" => \A c \in Clients : fd[c] = clientFd => child[c] = "none"

\* A child has its client's connection, and the end of a connection comes after it.
Holders ==
    /\ \A c \in Clients : child[c] = "running" => c \in holds[c]
    /\ \A c \in Clients : returned[c] =>
           wire[c] = <<>> /\ fd[c] = -1 /\ child[c] # "running"

Sent(c) == call[c] * MsgLen - nLeft[c]

DataOf(c) ==
    /\ child[c] = "none" => /\ got[c] = <<>> /\ wire[c] = <<>>
                            /\ call[c] = 1 /\ nLeft[c] = MsgLen
    /\ call[c] = 3 => nLeft[c] = MsgLen
    /\ nWanted[c] = ReadLen - Len(got[c])
    /\ Len(got[c]) <= Len(Reply)
    /\ \A i \in 1..Len(got[c]) : got[c][i] = Reply[i]
    /\ peer[c] # "gone" => /\ Len(got[c]) + Len(wire[c]) = Sent(c)
                           /\ \A i \in 1..Len(wire[c]) : wire[c][i] = Reply[Len(got[c]) + i]

Data == \A c \in Clients : DataOf(c)

ProcessInv == ProcessTypes /\ Connections /\ Holders /\ Data
IInv == server = "process" => ProcessInv

-----------------------------------------------------------------------------
\* The reply is the message twice.
LEMMA ReplyFacts ==
    /\ MsgLen \in Nat /\ MsgLen > 0
    /\ Reply \in Seq(Units) /\ Len(Reply) = 2 * MsgLen /\ ReadLen = 2 * MsgLen + 1
    /\ Msg \in Seq(Units) /\ Len(Msg) = MsgLen
    /\ \A i \in 1..MsgLen : Msg[i] = i /\ Reply[i] = i /\ Reply[MsgLen + i] = i
<1>1. Msg \in Seq(Units) /\ Len(Msg) = MsgLen /\ \A i \in 1..MsgLen : Msg[i] = i
    BY DEF Msg, Units
<1>2. Len(Reply) = 2 * MsgLen /\ Reply \in Seq(Units)
    BY <1>1 DEF Reply
<1>3. ASSUME NEW i \in 1..MsgLen PROVE Reply[i] = i /\ Reply[MsgLen + i] = i
    BY <1>1, <1>3 DEF Reply
<1>. QED  BY <1>1, <1>2, <1>3 DEF ReadLen

\* The number of units WriteN has counted stays within the reply.
LEMMA SentFacts ==
    ASSUME ProcessTypes, Data, NEW c \in Clients
    PROVE  /\ Sent(c) \in 0..(2 * MsgLen)
           /\ call[c] = 1 => Sent(c) = MsgLen - nLeft[c]
           /\ call[c] = 2 => Sent(c) = 2 * MsgLen - nLeft[c]
           /\ call[c] = 3 => Sent(c) = 2 * MsgLen
<1>1. call[c] \in {1, 2, 3} /\ nLeft[c] \in 1..MsgLen /\ (call[c] = 3 => nLeft[c] = MsgLen)
    BY DEF ProcessTypes, Data, DataOf, Units
<1>2. CASE call[c] = 1
    BY <1>1, <1>2 DEF Sent
<1>3. CASE call[c] = 2
    BY <1>1, <1>3 DEF Sent
<1>4. CASE call[c] = 3
    BY <1>1, <1>4 DEF Sent
<1>. QED  BY <1>1, <1>2, <1>3, <1>4

\* Moving the first n elements of one sequence behind another.
LEMMA MoveFacts ==
    ASSUME NEW S, NEW s \in Seq(S), NEW t \in Seq(S), NEW n \in 0..Len(t)
    PROVE  /\ SubSeq(t, 1, n) \in Seq(S) /\ s \o SubSeq(t, 1, n) \in Seq(S)
           /\ SubSeq(t, n + 1, Len(t)) \in Seq(S)
           /\ Len(s \o SubSeq(t, 1, n)) = Len(s) + n
           /\ Len(SubSeq(t, n + 1, Len(t))) = Len(t) - n
           /\ \A i \in 1..(Len(s) + n) :
                  (s \o SubSeq(t, 1, n))[i] = IF i <= Len(s) THEN s[i] ELSE t[i - Len(s)]
           /\ \A i \in 1..(Len(t) - n) : SubSeq(t, n + 1, Len(t))[i] = t[n + i]
OBVIOUS

\* If w continues the reply behind g, and p continues it behind w, so does w \o p.
LEMMA ExtendFacts ==
    ASSUME NEW g \in Seq(Units), NEW w \in Seq(Units), NEW p \in Seq(Units),
           \A i \in 1..Len(w) : w[i] = Reply[Len(g) + i],
           \A i \in 1..Len(p) : p[i] = Reply[Len(g) + Len(w) + i]
    PROVE  /\ Len(g) + Len(w \o p) = (Len(g) + Len(w)) + Len(p)
           /\ \A i \in 1..Len(w \o p) : (w \o p)[i] = Reply[Len(g) + i]
<1>1. Len(w \o p) = Len(w) + Len(p) /\ Len(w) \in Nat /\ Len(p) \in Nat /\ Len(g) \in Nat
    OBVIOUS
<1>2. ASSUME NEW i \in 1..Len(w), i <= Len(w) PROVE (w \o p)[i] = Reply[Len(g) + i]
    OBVIOUS
<1>3. ASSUME NEW i \in 1..(Len(w) + Len(p)), i > Len(w) PROVE (w \o p)[i] = Reply[Len(g) + i]
    <2>1. i - Len(w) \in 1..Len(p) /\ Len(g) + Len(w) + (i - Len(w)) = Len(g) + i
        BY <1>1, <1>3
    <2>2. (w \o p)[i] = p[i - Len(w)]
        BY <1>3
    <2>. QED  BY <2>1, <2>2
<1>. QED  BY <1>1, <1>2, <1>3

\* If g is the beginning of the reply and w continues it, so it is when g takes the
\* first n units of w.
LEMMA TakeFacts ==
    ASSUME NEW g \in Seq(Units), NEW w \in Seq(Units), NEW n \in 0..Len(w),
           \A i \in 1..Len(g) : g[i] = Reply[i],
           \A i \in 1..Len(w) : w[i] = Reply[Len(g) + i]
    PROVE  \E h, r \in Seq(Units) :
               /\ h = g \o SubSeq(w, 1, n) /\ r = SubSeq(w, n + 1, Len(w))
               /\ Len(h) = Len(g) + n /\ Len(h) + Len(r) = Len(g) + Len(w)
               /\ \A i \in 1..Len(h) : h[i] = Reply[i]
               /\ \A i \in 1..Len(r) : r[i] = Reply[Len(h) + i]
               /\ g = <<>> /\ w = <<>> => h = <<>> /\ r = <<>>
<1> DEFINE h == g \o SubSeq(w, 1, n)
           r == SubSeq(w, n + 1, Len(w))
<1>1. /\ h \in Seq(Units) /\ r \in Seq(Units)
      /\ Len(h) = Len(g) + n /\ Len(r) = Len(w) - n
      /\ \A i \in 1..(Len(g) + n) : h[i] = IF i <= Len(g) THEN g[i] ELSE w[i - Len(g)]
      /\ \A i \in 1..(Len(w) - n) : r[i] = w[n + i]
    BY MoveFacts
<1> HIDE DEF h, r
<1>2. Len(g) \in Nat /\ Len(w) \in Nat /\ n \in Nat /\ n <= Len(w)
    OBVIOUS
<1>3. Len(h) + Len(r) = Len(g) + Len(w)
    <2>1. Len(h) = Len(g) + n /\ Len(r) = Len(w) - n
        BY <1>1
    <2>. QED  BY <1>2, <2>1
<1>4. ASSUME NEW i \in 1..Len(h) PROVE h[i] = Reply[i]
    <2>1. i \in 1..(Len(g) + n)
        BY <1>1
    <2>2. h[i] = IF i <= Len(g) THEN g[i] ELSE w[i - Len(g)]
        BY <1>1, <2>1
    <2>3. CASE i <= Len(g)
        <3>1. i \in 1..Len(g)
            BY <1>2, <2>1, <2>3
        <3>. QED  BY <2>2, <2>3, <3>1
    <2>4. CASE ~(i <= Len(g))
        <3>1. i - Len(g) \in 1..Len(w) /\ Len(g) + (i - Len(g)) = i
            BY <1>2, <2>1, <2>4
        <3>. QED  BY <2>2, <2>4, <3>1
    <2>. QED  BY <2>3, <2>4
<1>5. ASSUME NEW i \in 1..Len(r) PROVE r[i] = Reply[Len(h) + i]
    <2>1. n + i \in 1..Len(w) /\ Len(g) + (n + i) = Len(h) + i
        BY <1>1, <1>2
    <2>. QED  BY <1>1, <2>1
<1>6. ASSUME g = <<>>, w = <<>> PROVE h = <<>> /\ r = <<>>
    <2>1. Len(h) = 0 /\ Len(r) = 0
        BY <1>1, <1>2, <1>3, <1>6
    <2>. QED  BY <1>1, <2>1
<1>7. h = g \o SubSeq(w, 1, n) /\ r = SubSeq(w, n + 1, Len(w))
    BY DEF h, r
<1>8. h \in Seq(Units) /\ r \in Seq(Units) /\ Len(h) = Len(g) + n
    BY <1>1
<1>. QED  BY <1>3, <1>4, <1>5, <1>6, <1>7, <1>8, ZenonT(60)

\* If g is the beginning of the reply and w continues it, g \o w is its beginning.
LEMMA WholeFacts ==
    ASSUME NEW g \in Seq(Units), NEW w \in Seq(Units),
           \A i \in 1..Len(g) : g[i] = Reply[i],
           \A i \in 1..Len(w) : w[i] = Reply[Len(g) + i]
    PROVE  /\ g \o w \in Seq(Units) /\ Len(g \o w) = Len(g) + Len(w)
           /\ \A i \in 1..Len(g \o w) : (g \o w)[i] = Reply[i]
<1>1. /\ g \o w \in Seq(Units) /\ Len(g \o w) = Len(g) + Len(w)
      /\ Len(g) \in Nat /\ Len(w) \in Nat
    OBVIOUS
<1>2. ASSUME NEW i \in 1..(Len(g) + Len(w)) PROVE (g \o w)[i] = Reply[i]
    <2>1. CASE i <= Len(g)
        BY <1>1, <2>1
    <2>2. CASE i > Len(g)
        <3>1. i - Len(g) \in 1..Len(w) /\ Len(g) + (i - Len(g)) = i
            BY <1>1, <2>2
        <3>2. (g \o w)[i] = w[i - Len(g)]
            BY <1>1, <2>2
        <3>. QED  BY <3>1, <3>2
    <2>. QED  BY <1>1, <2>1, <2>2
<1>. QED  BY <1>1, <1>2

\* The data of a client stays right in a step that does not move any of it.
LEMMA DataKept ==
    ASSUME NEW d \in Clients, DataOf(d),
           child'[d] = "none" => child[d] = "none",
           peer'[d] # "gone" => peer[d] # "gone",
           wire'[d] = wire[d], got'[d] = got[d], nWanted'[d] = nWanted[d],
           call'[d] = call[d], nLeft'[d] = nLeft[d]
    PROVE  DataOf(d)'
BY DEF DataOf, Sent

-----------------------------------------------------------------------------
(* The clients.                                                            *)

\* A client that connects or aborts keeps the invariant.
LEMMA ClientStepInv ==
    ASSUME ProcessInv, server = "process", ClientStep
    PROVE  ProcessInv'
<1> USE DEF tableVars, selectVars, pollVars, processVars, childVars, readVars
<1>1. PICK c \in Clients : Connect(c) \/ Abort(c)
    BY DEF ClientStep
<1>2. /\ UNCHANGED <<server, pc, clientFd, child, holds, call, nLeft, wire, got, nWanted, returned>>
      /\ fd' = fd
    BY <1>1 DEF ClientStep, Connect, Abort
<1>3. CASE Connect(c)
    <2>1. /\ peer[c] = "idle" /\ peer' = [peer EXCEPT ![c] = "open"]
          /\ c \notin ToSet(backlog) /\ backlog' = Append(backlog, c)
        BY <1>3 DEF Connect, ProcessInv, Connections
    <2>2. /\ backlog' \in Seq(Clients) /\ IsInjective(backlog')
          /\ ToSet(backlog') = ToSet(backlog) \cup {c}
        BY <2>1, AppendFacts DEF ProcessInv, ProcessTypes, Connections
    <2>3. /\ peer' \in [Clients -> {"idle", "open", "spoke", "gone"}]
          /\ \A d \in Clients : peer'[d] = IF d = c THEN "open" ELSE peer[d]
        BY <2>1 DEF ProcessInv, ProcessTypes
    <2>4. ProcessTypes'
        BY <1>2, <2>2, <2>3 DEF ProcessInv, ProcessTypes
    <2>5. Connections'
        BY <1>2, <2>1, <2>2, <2>3 DEF ProcessInv, Connections
    <2>6. Holders'
        BY <1>2 DEF ProcessInv, Holders
    <2>7. Data'
        BY <1>2, <2>1, <2>3, DataKept DEF ProcessInv, Data
    <2>. QED  BY <2>4, <2>5, <2>6, <2>7 DEF ProcessInv
<1>4. CASE Abort(c)
    <2>1. /\ peer[c] \in {"open", "spoke"} /\ peer' = [peer EXCEPT ![c] = "gone"]
          /\ backlog' = backlog
        BY <1>4 DEF Abort
    <2>3. /\ peer' \in [Clients -> {"idle", "open", "spoke", "gone"}]
          /\ \A d \in Clients : peer'[d] = IF d = c THEN "gone" ELSE peer[d]
        BY <2>1 DEF ProcessInv, ProcessTypes
    <2>4. ProcessTypes'
        BY <1>2, <2>1, <2>3 DEF ProcessInv, ProcessTypes
    <2>5. Connections'
        BY <1>2, <2>1, <2>3 DEF ProcessInv, Connections
    <2>6. Holders'
        BY <1>2 DEF ProcessInv, Holders
    <2>7. Data'
        BY <1>2, <2>1, <2>3, DataKept DEF ProcessInv, Data
    <2>. QED  BY <2>4, <2>5, <2>6, <2>7 DEF ProcessInv
<1>. QED  BY <1>1, <1>3, <1>4

-----------------------------------------------------------------------------
(* The parent.                                                             *)

\* While the parent has no connection, accept() returns a descriptor.
LEMMA NewFdFacts ==
    ASSUME \A c \in Clients : fd[c] = -1
    PROVE  NewFd \in Nat
<1> DEFINE Free == {f \in (listenFd + 1)..(listenFd + 1 + Cardinality(Clients)) :
                        \A c \in Clients : fd[c] # f}
<1>1. Cardinality(Clients) \in Nat /\ listenFd \in Nat
    BY FS_CardinalityType
<1>2. listenFd + 1 \in Free /\ \A f \in Free : f \in Nat /\ listenFd + 1 <= f
    BY <1>1
<1>3. Min(Free) \in Free
    BY <1>2 DEF Min
<1>. QED  BY <1>2, <1>3 DEF NewFd

\* The parent accepts, or drops a connection that was aborted.
LEMMA ParentAcceptInv ==
    ASSUME ProcessInv, (\E c \in Clients : ParentAccept(c)) \/ ParentAcceptFails
    PROVE  ProcessInv'
<1> USE DEF tableVars, processVars, childVars, readVars, socketVars
<1>1. /\ UNCHANGED <<peer, child, holds, call, nLeft, wire, got, nWanted, returned>>
      /\ pc = "accept"
    BY DEF ParentAccept, ParentAcceptFails, AcceptReturns, AcceptAborted, AcceptFails
<1>2. \A c \in Clients : fd[c] = -1
    BY <1>1 DEF ProcessInv, Connections
<1>3. Data'
    BY <1>1, DataKept DEF ProcessInv, Data
<1>4. CASE ParentAcceptFails
    <2>1. UNCHANGED <<fd, clientFd>> /\ pc' \in {"accept", "exit"}
        BY <1>4 DEF ParentAcceptFails, AcceptAborted, AcceptFails
    <2>2. \/ backlog' = backlog
          \/ backlog # <<>> /\ backlog' = Tail(backlog)
        BY <1>4 DEF ParentAcceptFails, AcceptAborted, AcceptFails
    <2>3. backlog' \in Seq(Clients) /\ IsInjective(backlog') /\ ToSet(backlog') \subseteq ToSet(backlog)
        <3>1. backlog \in Seq(Clients) /\ IsInjective(backlog)
            BY DEF ProcessInv, ProcessTypes, Connections
        <3>2. CASE backlog' = backlog
            BY <3>1, <3>2
        <3>3. CASE backlog # <<>> /\ backlog' = Tail(backlog)
            BY <3>1, <3>3, TailFacts
        <3>. QED  BY <2>2, <3>2, <3>3
    <2>4. ProcessTypes'
        BY <1>1, <2>1, <2>3 DEF ProcessInv, ProcessTypes
    <2>5. Connections'
        BY <1>1, <2>1, <2>3 DEF ProcessInv, Connections
    <2>6. Holders'
        BY <1>1, <2>1 DEF ProcessInv, Holders
    <2>. QED  BY <1>3, <2>4, <2>5, <2>6 DEF ProcessInv
<1>5. CASE \E c \in Clients : ParentAccept(c)
    <2>1. PICK c \in Clients : ParentAccept(c)
        BY <1>5
    <2>2. /\ backlog # <<>> /\ c = Head(backlog) /\ backlog' = Tail(backlog)
          /\ fd' = [fd EXCEPT ![c] = NewFd] /\ clientFd' = NewFd /\ pc' = "fork"
        BY <2>1 DEF ParentAccept, AcceptReturns
    <2>3. /\ backlog' \in Seq(Clients) /\ IsInjective(backlog')
          /\ ToSet(backlog') \subseteq ToSet(backlog)
          /\ c \in ToSet(backlog) /\ c \notin ToSet(backlog')
        BY <2>2, TailFacts DEF ProcessInv, ProcessTypes, Connections
    <2>4. NewFd \in Nat
        BY <1>2, NewFdFacts
    <2>5. \A d \in Clients : fd'[d] = IF d = c THEN NewFd ELSE -1
        BY <1>2, <2>2 DEF ProcessInv, ProcessTypes
    <2>6. ProcessTypes'
        BY <1>1, <2>2, <2>3, <2>4 DEF ProcessInv, ProcessTypes
    <2>7. peer[c] # "idle" /\ child[c] = "none" /\ ~returned[c]
        BY <2>3 DEF ProcessInv, Connections
    <2>8. Connections'
        BY <1>1, <2>2, <2>3, <2>4, <2>5, <2>7 DEF ProcessInv, Connections
    <2>9. Holders'
        BY <1>1, <2>5, <2>7 DEF ProcessInv, Holders
    <2>. QED  BY <1>3, <2>6, <2>8, <2>9 DEF ProcessInv
<1>. QED  BY <1>4, <1>5

\* The parent forks: the child begins with the first call of WriteN.
LEMMA ParentForksInv ==
    ASSUME ProcessInv, NEW c \in Clients, ParentForks(c)
    PROVE  ProcessInv'
<1> USE DEF tableVars, socketVars, readVars
<1>1. /\ UNCHANGED <<backlog, peer, fd, clientFd, call, nLeft, wire, got, nWanted, returned>>
      /\ pc = "fork" /\ pc' = "close" /\ fd[c] = clientFd
    BY DEF ParentForks
<1>2. child[c] = "none" /\ fd[c] \in Nat /\ ~returned[c]
      /\ peer[c] # "idle" /\ c \notin ToSet(backlog)
    BY <1>1 DEF ProcessInv, Connections, Holders
<1>3. \/ UNCHANGED <<child, holds>>
      \/ /\ child' = [child EXCEPT ![c] = "running"]
         /\ holds' = [holds EXCEPT ![c] = Accepted]
    BY DEF ParentForks, Fork
<1>4. c \in Accepted /\ Accepted \subseteq Clients
    BY <1>2 DEF Accepted
<1>5. /\ child' \in [Clients -> {"none", "running", "zombie", "reaped"}]
      /\ holds' \in [Clients -> SUBSET Clients]
      /\ child'[c] = "running" => c \in holds'[c]
      /\ \A d \in Clients : d # c => child'[d] = child[d] /\ holds'[d] = holds[d]
    <2>1. /\ child \in [Clients -> {"none", "running", "zombie", "reaped"}]
          /\ holds \in [Clients -> SUBSET Clients]
        BY DEF ProcessInv, ProcessTypes
    <2>2. CASE UNCHANGED <<child, holds>>
        BY <1>2, <2>1, <2>2
    <2>3. CASE /\ child' = [child EXCEPT ![c] = "running"]
               /\ holds' = [holds EXCEPT ![c] = Accepted]
        BY <1>4, <2>1, <2>3
    <2>. QED  BY <1>3, <2>2, <2>3
<1>6. ProcessTypes'
    BY <1>1, <1>5 DEF ProcessInv, ProcessTypes
<1>7. Connections'
    BY <1>1, <1>2, <1>5 DEF ProcessInv, Connections
<1>8. Holders'
    BY <1>1, <1>2, <1>5 DEF ProcessInv, Holders
<1>9. Data'
    BY <1>1, <1>2, <1>5, DataKept DEF ProcessInv, Data
<1>. QED  BY <1>6, <1>7, <1>8, <1>9 DEF ProcessInv

\* The parent closes its descriptor of a connection, or of all when it is terminated.
LEMMA ParentClosesInv ==
    ASSUME ProcessInv, (\E c \in Clients : ParentCloses(c)) \/ ParentTerminated
    PROVE  ProcessInv'
<1> USE DEF tableVars, processVars, childVars, readVars
<1>1. /\ UNCHANGED <<backlog, peer, clientFd, child, holds, call, nLeft, wire, got, nWanted, returned>>
      /\ pc' \in {"accept", "terminated"}
    BY DEF ParentCloses, ParentTerminated
<1>2. fd' \in [Clients -> Int] /\ \A d \in Clients : fd'[d] = -1
    <2>1. CASE ParentTerminated
        BY <2>1 DEF ParentTerminated
    <2>2. CASE \E c \in Clients : ParentCloses(c)
        <3>1. PICK c \in Clients : pc = "close" /\ fd[c] = clientFd /\ fd' = [fd EXCEPT ![c] = -1]
            BY <2>2 DEF ParentCloses, CloseClient
        <3>2. \A d \in Clients : d # c => fd[d] = -1
            BY <3>1 DEF ProcessInv, Connections
        <3>. QED  BY <3>1, <3>2 DEF ProcessInv, ProcessTypes
    <2>. QED  BY <2>1, <2>2
<1>3. ProcessTypes'
    BY <1>1, <1>2 DEF ProcessInv, ProcessTypes
<1>4. Connections'
    BY <1>1, <1>2 DEF ProcessInv, Connections
<1>5. Holders'
    BY <1>1, <1>2 DEF ProcessInv, Holders
<1>6. Data'
    BY <1>1, DataKept DEF ProcessInv, Data
<1>. QED  BY <1>3, <1>4, <1>5, <1>6 DEF ProcessInv

\* SIGCHLD and waitpid only change which child is a zombie.
LEMMA ParentWaitsInv ==
    ASSUME ProcessInv, SigChld \/ ParentWaits
    PROVE  ProcessInv'
<1> USE DEF tableVars, socketVars, childVars, readVars
<1>1. UNCHANGED <<backlog, peer, fd, pc, clientFd, holds, call, nLeft, wire, got, nWanted, returned>>
    BY DEF SigChld, ParentWaits
<1>2. \/ child' = child
      \/ \E c \in Clients : child[c] = "zombie" /\ child' = [child EXCEPT ![c] = "reaped"]
    BY DEF SigChld, ParentWaits, Waitpid, Zombies
<1>3. /\ child' \in [Clients -> {"none", "running", "zombie", "reaped"}]
      /\ \A d \in Clients : child'[d] = child[d] \/ (child[d] = "zombie" /\ child'[d] = "reaped")
    <2>1. child \in [Clients -> {"none", "running", "zombie", "reaped"}]
        BY DEF ProcessInv, ProcessTypes
    <2>2. CASE child' = child
        BY <2>1, <2>2
    <2>3. CASE \E c \in Clients : child[c] = "zombie" /\ child' = [child EXCEPT ![c] = "reaped"]
        BY <2>1, <2>3
    <2>. QED  BY <1>2, <2>2, <2>3
<1>4. ProcessTypes'
    BY <1>1, <1>3 DEF ProcessInv, ProcessTypes
<1>5. Connections'
    BY <1>1, <1>3 DEF ProcessInv, Connections
<1>6. Holders'
    BY <1>1, <1>3 DEF ProcessInv, Holders
<1>7. Data'
    BY <1>1, <1>3, DataKept DEF ProcessInv, Data
<1>. QED  BY <1>4, <1>5, <1>6, <1>7 DEF ProcessInv

-----------------------------------------------------------------------------
(* The children and the clients' ReadN.                                    *)

\* A child that ends keeps the invariant.
LEMMA ChildEndsInv ==
    ASSUME ProcessInv, NEW c \in Clients, ChildEnds(c)
    PROVE  ProcessInv'
<1> USE DEF tableVars, socketVars, readVars
<1>1. /\ UNCHANGED <<backlog, peer, fd, pc, clientFd, call, nLeft, wire, got, nWanted, returned>>
      /\ child[c] = "running"
    BY DEF ChildEnds
<1>2. /\ child' \in [Clients -> {"none", "running", "zombie", "reaped"}]
      /\ holds' \in [Clients -> SUBSET Clients]
      /\ \A d \in Clients : /\ child'[d] = IF d = c THEN "zombie" ELSE child[d]
                            /\ holds'[d] = IF d = c THEN {} ELSE holds[d]
    BY DEF ChildEnds, ProcessInv, ProcessTypes
<1>3. ProcessTypes'
    BY <1>1, <1>2 DEF ProcessInv, ProcessTypes
<1>4. Connections'
    BY <1>1, <1>2 DEF ProcessInv, Connections
<1>5. Holders'
    BY <1>1, <1>2 DEF ProcessInv, Holders
<1>6. Data'
    BY <1>1, <1>2, DataKept DEF ProcessInv, Data
<1>. QED  BY <1>3, <1>4, <1>5, <1>6 DEF ProcessInv

\* A write of n units, or none at all (EINTR), adds to the wire what WriteN counts.
LEMMA ChildWritesInv ==
    ASSUME ProcessInv, NEW c \in Clients, NEW n \in Units \cup {-1}, ChildWrites(c, n)
    PROVE  ProcessInv'
<1> USE DEF tableVars, socketVars, readVars
<1> DEFINE m == Moved(n)
           ptr == MsgLen - nLeft[c]
           piece == SubSeq(Msg, ptr + 1, ptr + m)
<1>1. /\ UNCHANGED <<backlog, peer, fd, pc, clientFd, child, holds, got, nWanted, returned>>
      /\ child[c] = "running" /\ call[c] < 3 /\ n <= nLeft[c]
    BY DEF ChildWrites
<1>2. /\ nLeft[c] \in 1..MsgLen /\ call[c] \in {1, 2} /\ MsgLen \in Nat
      /\ wire[c] \in Seq(Units) /\ got[c] \in Seq(Units)
    BY <1>1 DEF ProcessInv, ProcessTypes, Units
<1>3. m \in 0..nLeft[c] /\ Counted(n) = m
    BY <1>1, <1>2 DEF Moved, Counted, Units
<1>4. /\ wire' = IF peer[c] = "gone" THEN wire ELSE [wire EXCEPT ![c] = @ \o piece]
      /\ nLeft' = [nLeft EXCEPT ![c] = IF nLeft[c] - m = 0 THEN MsgLen ELSE nLeft[c] - m]
      /\ call' = [call EXCEPT ![c] = IF nLeft[c] - m = 0 THEN call[c] + 1 ELSE call[c]]
    BY <1>3 DEF ChildWrites
<1>5. /\ piece \in Seq(Units) /\ Len(piece) = m
      /\ \A i \in 1..m : piece[i] = ptr + i
    <2>1. /\ Msg \in Seq(Units) /\ Len(Msg) = MsgLen
          /\ \A i \in 1..MsgLen : Msg[i] = i
        BY ReplyFacts
    <2>2. /\ ptr \in Nat /\ ptr + m \in Nat /\ ptr + 1 \in Nat
          /\ ptr + m <= MsgLen /\ m \in Nat /\ ptr + 1 >= 1
        BY <1>2, <1>3
    <2> HIDE DEF m, ptr
    <2>3. /\ SubSeq(Msg, ptr + 1, ptr + m) \in Seq(Units)
          /\ Len(SubSeq(Msg, ptr + 1, ptr + m)) = m
          /\ \A i \in 1..m : SubSeq(Msg, ptr + 1, ptr + m)[i] = Msg[ptr + i]
        BY <2>1, <2>2
    <2>4. \A i \in 1..m : ptr + i \in 1..MsgLen
        BY <1>2, <2>2
    <2>. QED  BY <2>1, <2>3, <2>4
<1> HIDE DEF m, piece
<1>6. wire[c] \o piece \in Seq(Units)
    BY <1>2, <1>5
<1>7. /\ nLeft' \in [Clients -> Units] /\ call' \in [Clients -> 1..3]
      /\ wire' \in [Clients -> Seq(Units)]
      /\ \A d \in Clients \ {c} : nLeft'[d] = nLeft[d] /\ call'[d] = call[d] /\ wire'[d] = wire[d]
    <2>1. nLeft' \in [Clients -> Units]
        BY <1>2, <1>3, <1>4 DEF ProcessInv, ProcessTypes, Units
    <2>2. call' \in [Clients -> 1..3]
        BY <1>2, <1>4 DEF ProcessInv, ProcessTypes
    <2>3. wire' \in [Clients -> Seq(Units)]
        BY <1>4, <1>6 DEF ProcessInv, ProcessTypes
    <2>. QED  BY <1>4, <2>1, <2>2, <2>3 DEF ProcessInv, ProcessTypes
<1>8. ProcessTypes'
    BY <1>1, <1>7 DEF ProcessInv, ProcessTypes
<1>9. Connections'
    BY <1>1 DEF ProcessInv, Connections
<1>10. Holders'
    BY <1>1, <1>7 DEF ProcessInv, Holders
<1>11. DataOf(c)'
    <2>1. /\ nLeft'[c] = IF nLeft[c] - m = 0 THEN MsgLen ELSE nLeft[c] - m
          /\ call'[c] = IF nLeft[c] - m = 0 THEN call[c] + 1 ELSE call[c]
        BY <1>4 DEF ProcessInv, ProcessTypes
    <2>2. call'[c] = 3 => nLeft'[c] = MsgLen
        BY <1>2, <2>1
    <2>3. /\ Sent(c)' = Sent(c) + m
          /\ call[c] = 1 => Sent(c) = ptr
          /\ call[c] = 2 => Sent(c) = MsgLen + ptr
        <3>1. CASE call[c] = 1
            BY <1>2, <1>3, <2>1, <3>1 DEF Sent
        <3>2. CASE call[c] = 2
            BY <1>2, <1>3, <2>1, <3>2 DEF Sent
        <3>. QED  BY <1>2, <3>1, <3>2
    <2>4. ASSUME peer[c] # "gone"
          PROVE  /\ Len(got[c]) + Len(wire'[c]) = Sent(c)'
                 /\ \A i \in 1..Len(wire'[c]) : wire'[c][i] = Reply[Len(got[c]) + i]
        <3>1. /\ Len(got[c]) + Len(wire[c]) = Sent(c)
              /\ \A i \in 1..Len(wire[c]) : wire[c][i] = Reply[Len(got[c]) + i]
            BY <2>4 DEF ProcessInv, Data, DataOf
        <3>2. wire'[c] = wire[c] \o piece
            BY <1>4, <2>4 DEF ProcessInv, ProcessTypes
        <3>3. \A i \in 1..m : piece[i] = Reply[Sent(c) + i]
            <4>1. \A i \in 1..m : ptr + i \in 1..MsgLen
                BY <1>2, <1>3
            <4>2. CASE call[c] = 1
                <5>1. Sent(c) = ptr
                    BY <2>3, <4>2
                <5>. QED  BY <1>5, <4>1, <5>1, ReplyFacts
            <4>3. CASE call[c] = 2
                <5>1. ASSUME NEW i \in 1..m PROVE Sent(c) + i = MsgLen + (ptr + i)
                    BY <1>2, <1>3, <2>3, <4>3
                <5>2. \A i \in 1..m : Reply[MsgLen + (ptr + i)] = ptr + i
                    BY <4>1, ReplyFacts
                <5>. QED  BY <1>5, <5>1, <5>2
            <4>. QED  BY <1>2, <4>2, <4>3
        <3>4. /\ Len(got[c]) + Len(wire[c] \o piece) = (Len(got[c]) + Len(wire[c])) + Len(piece)
              /\ \A i \in 1..Len(wire[c] \o piece) : (wire[c] \o piece)[i] = Reply[Len(got[c]) + i]
            <4>1. \A i \in 1..Len(piece) : piece[i] = Reply[Len(got[c]) + Len(wire[c]) + i]
                BY <1>5, <3>1, <3>3
            <4>. QED  BY <1>2, <1>5, <3>1, <4>1, ExtendFacts, Zenon
        <3>5. Len(got[c]) + Len(wire'[c]) = Sent(c)'
            BY <1>5, <2>3, <3>1, <3>2, <3>4, Zenon
        <3>. QED  BY <3>2, <3>4, <3>5, Zenon
    <2>5. UNCHANGED <<got, nWanted, child, peer>> /\ child[c] = "running" /\ DataOf(c)
        BY <1>1 DEF ProcessInv, Data
    <2>. QED  BY <2>2, <2>4, <2>5 DEF DataOf
<1>12. Data'
    BY <1>1, <1>7, <1>11, DataKept DEF ProcessInv, Data
<1>. QED  BY <1>8, <1>9, <1>10, <1>12 DEF ProcessInv

\* A write that fails ends its call of WriteN; its client is gone.
LEMMA ChildWriteFailsInv ==
    ASSUME ProcessInv, NEW c \in Clients, ChildWriteFails(c)
    PROVE  ProcessInv'
<1> USE DEF tableVars, socketVars, readVars
<1>1. /\ UNCHANGED <<backlog, peer, fd, pc, clientFd, child, holds, wire, got, nWanted, returned>>
      /\ child[c] = "running" /\ call[c] < 3 /\ peer[c] = "gone"
      /\ call' = [call EXCEPT ![c] = @ + 1] /\ nLeft' = [nLeft EXCEPT ![c] = MsgLen]
    BY DEF ChildWriteFails
<1>2. /\ call' \in [Clients -> 1..3] /\ nLeft' \in [Clients -> Units]
      /\ nLeft'[c] = MsgLen
      /\ \A d \in Clients \ {c} : nLeft'[d] = nLeft[d] /\ call'[d] = call[d]
    <2>1. call \in [Clients -> 1..3] /\ nLeft \in [Clients -> Units]
        BY DEF ProcessInv, ProcessTypes
    <2>2. call[c] + 1 \in 1..3 /\ MsgLen \in Units
        BY <1>1, <2>1 DEF Units
    <2>. QED  BY <1>1, <2>1, <2>2
<1>3. ProcessTypes'
    BY <1>1, <1>2 DEF ProcessInv, ProcessTypes
<1>4. Connections'
    BY <1>1 DEF ProcessInv, Connections
<1>5. Holders'
    BY <1>1 DEF ProcessInv, Holders
<1>6. DataOf(c)'
    BY <1>1, <1>2 DEF ProcessInv, Data, DataOf
<1>7. Data'
    BY <1>1, <1>2, <1>6, DataKept DEF ProcessInv, Data
<1>. QED  BY <1>3, <1>4, <1>5, <1>7 DEF ProcessInv

\* A read of n units, or none at all (EINTR), takes from the wire what ReadN counts.
LEMMA ClientReadsInv ==
    ASSUME ProcessInv, NEW c \in Clients, NEW n \in (1..ReadLen) \cup {-1}, ClientReads(c, n)
    PROVE  ProcessInv'
<1> USE DEF tableVars, socketVars, childVars
<1> DEFINE m == Moved(n)
<1>1. /\ UNCHANGED <<backlog, peer, fd, pc, clientFd, child, holds, call, nLeft>>
      /\ peer[c] = "open" /\ n <= Len(wire[c])
      /\ got' = [got EXCEPT ![c] = @ \o SubSeq(wire[c], 1, m)]
      /\ wire' = [wire EXCEPT ![c] = SubSeq(@, m + 1, Len(@))]
      /\ nWanted' = [nWanted EXCEPT ![c] = @ - Counted(n)]
      /\ returned' = [returned EXCEPT ![c] = nWanted'[c] = 0]
      /\ ~returned[c]
    BY DEF ClientReads, Reading
<1>2. /\ wire[c] \in Seq(Units) /\ got[c] \in Seq(Units) /\ nWanted[c] \in Int
      /\ ReadLen \in Nat /\ nWanted[c] = ReadLen - Len(got[c])
    BY ReplyFacts DEF ProcessInv, ProcessTypes, Data, DataOf
<1>3. m \in 0..Len(wire[c]) /\ Counted(n) = m
    BY <1>1, <1>2 DEF Moved, Counted
<1>4. /\ Len(got[c]) + Len(wire[c]) = Sent(c) /\ Sent(c) \in 0..(2 * MsgLen)
      /\ \A i \in 1..Len(got[c]) : got[c][i] = Reply[i]
      /\ \A i \in 1..Len(wire[c]) : wire[c][i] = Reply[Len(got[c]) + i]
    BY <1>1, SentFacts DEF ProcessInv, Data, DataOf
<1> HIDE DEF m
<1>5. PICK h, r \in Seq(Units) :
          /\ h = got[c] \o SubSeq(wire[c], 1, m)
          /\ r = SubSeq(wire[c], m + 1, Len(wire[c]))
          /\ Len(h) = Len(got[c]) + m /\ Len(h) + Len(r) = Len(got[c]) + Len(wire[c])
          /\ \A i \in 1..Len(h) : h[i] = Reply[i]
          /\ \A i \in 1..Len(r) : r[i] = Reply[Len(h) + i]
          /\ got[c] = <<>> /\ wire[c] = <<>> => h = <<>> /\ r = <<>>
    <2> DEFINE g == got[c]
               w == wire[c]
    <2>1. /\ g \in Seq(Units) /\ w \in Seq(Units) /\ m \in 0..Len(w)
          /\ \A i \in 1..Len(g) : g[i] = Reply[i]
          /\ \A i \in 1..Len(w) : w[i] = Reply[Len(g) + i]
        BY <1>2, <1>3, <1>4
    <2> HIDE DEF g, w
    <2>2. \E h, r \in Seq(Units) :
              /\ h = g \o SubSeq(w, 1, m) /\ r = SubSeq(w, m + 1, Len(w))
              /\ Len(h) = Len(g) + m /\ Len(h) + Len(r) = Len(g) + Len(w)
              /\ \A i \in 1..Len(h) : h[i] = Reply[i]
              /\ \A i \in 1..Len(r) : r[i] = Reply[Len(h) + i]
              /\ g = <<>> /\ w = <<>> => h = <<>> /\ r = <<>>
        BY <2>1, TakeFacts, ZenonT(60)
    <2>. QED  BY <2>2 DEF g, w
<1>6. /\ got'[c] = h /\ wire'[c] = r /\ nWanted'[c] = nWanted[c] - m
      /\ returned'[c] = (nWanted'[c] = 0)
    BY <1>1, <1>3, <1>5 DEF ProcessInv, ProcessTypes
<1>7. nWanted'[c] = ReadLen - Len(h) /\ Len(h) <= 2 * MsgLen /\ nWanted'[c] # 0
    <2>1. /\ Len(got[c]) \in Nat /\ Len(h) \in Nat /\ Len(r) \in Nat
        BY <1>2, LenProperties
    <2>2. ReadLen = 2 * MsgLen + 1 /\ MsgLen \in Nat /\ m \in Nat
        BY <1>3, ReplyFacts
    <2>3. /\ nWanted'[c] = ReadLen - Len(got[c]) - m
          /\ Len(h) = Len(got[c]) + m /\ Len(h) + Len(r) = Sent(c)
        BY <1>2, <1>4, <1>5, <1>6, Zenon
    <2>4. Sent(c) <= 2 * MsgLen
        BY <1>4
    <2>. QED  BY <2>1, <2>2, <2>3, <2>4
<1>8. returned' = returned
    BY <1>1, <1>6, <1>7 DEF ProcessInv, ProcessTypes
<1>9. /\ got' \in [Clients -> Seq(Units)] /\ wire' \in [Clients -> Seq(Units)]
      /\ nWanted' \in [Clients -> Int]
      /\ \A d \in Clients \ {c} : got'[d] = got[d] /\ wire'[d] = wire[d] /\ nWanted'[d] = nWanted[d]
    <2>1. got' = [got EXCEPT ![c] = h] /\ wire' = [wire EXCEPT ![c] = r]
        BY <1>1, <1>5
    <2>2. nWanted' = [nWanted EXCEPT ![c] = nWanted[c] - m] /\ nWanted[c] - m \in Int
        BY <1>1, <1>2, <1>3
    <2>. QED  BY <2>1, <2>2 DEF ProcessInv, ProcessTypes
<1>10. ProcessTypes'
    BY <1>1, <1>8, <1>9 DEF ProcessInv, ProcessTypes
<1>11. Connections'
    BY <1>1, <1>8 DEF ProcessInv, Connections
<1>12. Holders'
    <2>1. UNCHANGED <<child, holds, fd, returned>> /\ ~returned[c]
        BY <1>1, <1>8
    <2>2. \A d \in Clients : returned[d] => wire'[d] = wire[d]
        BY <1>9, <2>1
    <2>. QED  BY <2>1, <2>2 DEF ProcessInv, Holders
<1>13. DataOf(c)'
    <2>1. child[c] = "none" => h = <<>> /\ r = <<>>
        BY <1>5 DEF ProcessInv, Data, DataOf
    <2>2. Len(h) <= Len(Reply)
        BY <1>7, ReplyFacts
    <2>3. UNCHANGED <<child, peer, call, nLeft>> /\ Sent(c)' = Sent(c)
        BY <1>1 DEF Sent
    <2>4. /\ child[c] = "none" => call[c] = 1 /\ nLeft[c] = MsgLen
          /\ call[c] = 3 => nLeft[c] = MsgLen
        BY DEF ProcessInv, Data, DataOf
    <2>. QED  BY <1>4, <1>5, <1>6, <1>7, <2>1, <2>2, <2>3, <2>4, Zenon DEF DataOf
<1>14. Data'
    BY <1>1, <1>9, <1>13, DataKept DEF ProcessInv, Data
<1>. QED  BY <1>10, <1>11, <1>12, <1>14 DEF ProcessInv

\* ReadN returns at the end of the connection, which comes after the child.
LEMMA ClientReadsEndInv ==
    ASSUME ProcessInv, NEW c \in Clients, ClientReadsEnd(c)
    PROVE  ProcessInv'
<1> USE DEF tableVars, socketVars, childVars
<1>1. /\ UNCHANGED <<backlog, peer, fd, pc, clientFd, child, holds, call, nLeft, wire, got, nWanted>>
      /\ returned' = [returned EXCEPT ![c] = TRUE]
      /\ peer[c] = "open" /\ c \notin ToSet(backlog)
      /\ wire[c] = <<>> /\ fd[c] = -1 /\ \A d \in Clients : c \notin holds[d]
    BY DEF ClientReadsEnd, Reading, Open
<1>2. child[c] # "running"
    BY <1>1 DEF ProcessInv, Holders
<1>3. /\ returned' \in [Clients -> BOOLEAN]
      /\ \A d \in Clients : d # c => returned'[d] = returned[d]
    BY <1>1 DEF ProcessInv, ProcessTypes
<1>4. ProcessTypes'
    BY <1>1, <1>3 DEF ProcessInv, ProcessTypes
<1>5. Connections'
    BY <1>1, <1>3 DEF ProcessInv, Connections
<1>6. Holders'
    BY <1>1, <1>2, <1>3 DEF ProcessInv, Holders
<1>7. Data'
    BY <1>1, DataKept DEF ProcessInv, Data
<1>. QED  BY <1>4, <1>5, <1>6, <1>7 DEF ProcessInv

-----------------------------------------------------------------------------
(* The specification.                                                      *)

\* Before the parent accepts anything, nothing has moved.
LEMMA InitInv == Init => IInv
<1> SUFFICES ASSUME Init, server = "process"
             PROVE  ProcessInv
    BY DEF IInv
<1>1. /\ backlog = <<>> /\ peer = [c \in Clients |-> "idle"] /\ fd = [c \in Clients |-> -1]
      /\ pc = "accept" /\ child = [c \in Clients |-> "none"]
      /\ holds = [c \in Clients |-> {}] /\ call = [c \in Clients |-> 1]
      /\ nLeft = [c \in Clients |-> MsgLen] /\ wire = [c \in Clients |-> <<>>]
      /\ got = [c \in Clients |-> <<>>] /\ nWanted = [c \in Clients |-> ReadLen]
      /\ returned = [c \in Clients |-> FALSE]
    BY DEF Init, SocketsInit, ProcessLocals, ProcessStarts
<1>2. ReadLen \in Nat /\ Len(Reply) \in Nat /\ MsgLen \in Units /\ MsgLen \in Nat
    BY ReplyFacts DEF Units
<1>3. ProcessTypes
    BY <1>1, <1>2 DEF ProcessTypes
<1>4. Connections
    <2>1. IsInjective(backlog)
        BY <1>1 DEF IsInjective
    <2>2. \A c \in Clients : c \notin ToSet(backlog)
        BY <1>1 DEF ToSet
    <2>. QED  BY <1>1, <2>1, <2>2 DEF Connections
<1>5. Holders
    BY <1>1 DEF Holders
<1>6. ASSUME NEW c \in Clients PROVE DataOf(c)
    BY <1>1, <1>2 DEF DataOf, Sent
<1>. QED  BY <1>3, <1>4, <1>5, <1>6 DEF ProcessInv, Data

\* Every step of MultiProcessServer and of its children keeps the invariant.
LEMMA ProcessStepInv ==
    ASSUME ProcessInv, ProcessStep
    PROVE  ProcessInv'
<1>1. CASE ParentStep
    <2>1. CASE \E c \in Clients : ParentForks(c)
        BY <2>1, ParentForksInv
    <2>. QED  BY <1>1, <2>1, ParentAcceptInv, ParentClosesInv, ParentWaitsInv DEF ParentStep
<1>2. CASE ParentTerminated
    BY <1>2, ParentClosesInv
<1>3. ASSUME NEW c \in Clients, ChildStep(c) PROVE ProcessInv'
    <2>1. CASE ChildExits(c)
        BY <2>1, ChildEndsInv DEF ChildExits
    <2>. QED  BY <1>3, <2>1, ChildWritesInv DEF ChildStep, Units
<1>4. ASSUME NEW c \in Clients, ReadStep(c) PROVE ProcessInv'
    BY <1>4, ClientReadsInv, ClientReadsEndInv DEF ReadStep
<1>5. ASSUME NEW c \in Clients, ChildWrites(c, -1) \/ ClientReads(c, -1) PROVE ProcessInv'
    BY <1>5, ChildWritesInv, ClientReadsInv
<1>6. ASSUME NEW c \in Clients, ChildWriteFails(c) \/ ChildSigPipe(c) \/ ChildTerminated(c)
      PROVE  ProcessInv'
    BY <1>6, ChildWriteFailsInv, ChildEndsInv DEF ChildSigPipe, ChildTerminated
<1>. QED  BY <1>1, <1>2, <1>3, <1>4, <1>5, <1>6 DEF ProcessStep

\* The invariant is inductive; steps of the other two servers are not its concern.
LEMMA NextInv ==
    ASSUME IInv, [Next]_vars
    PROVE  IInv'
<1>1. server' = server
    <2>1. CASE Next
        BY <2>1 DEF Next, ServerStep, ClientStep, Select, Poll, Process
    <2>. QED  BY <2>1 DEF vars
<1> SUFFICES ASSUME server = "process", ProcessInv
             PROVE  ProcessInv'
    BY <1>1 DEF IInv
<1>2. CASE ClientStep
    BY <1>2, ClientStepInv
<1>3. CASE ServerStep
    BY <1>3, ProcessStepInv DEF ServerStep, Select, Poll, Process, ProcessStep
<1>4. CASE Process(ProcessStep)
    BY <1>4, ProcessStepInv DEF Process
<1>5. CASE UNCHANGED vars
    <2>1. UNCHANGED <<backlog, peer, fd, pc, clientFd, child, holds, call, nLeft, wire, got, nWanted, returned>>
        BY <1>5 DEF vars, socketVars, processVars, childVars, readVars
    <2>2. ProcessTypes'
        BY <2>1 DEF ProcessInv, ProcessTypes
    <2>3. Connections'
        BY <2>1 DEF ProcessInv, Connections
    <2>4. Holders'
        BY <2>1 DEF ProcessInv, Holders
    <2>5. Data'
        BY <2>1, DataKept DEF ProcessInv, Data
    <2>. QED  BY <2>2, <2>3, <2>4, <2>5 DEF ProcessInv
<1>. QED  BY <1>2, <1>3, <1>4, <1>5 DEF Next, Poll

\* A sequence that agrees with another as far as it goes is a prefix of it.
LEMMA PrefixFacts ==
    ASSUME NEW s \in Seq(Units), Len(s) <= Len(Reply),
           \A i \in 1..Len(s) : s[i] = Reply[i]
    PROVE  /\ IsPrefix(s, Reply)
           /\ Len(s) = Len(Reply) => s = Reply
<1>1. Reply \in Seq(Units) /\ Len(s) \in 0..Len(Reply)
    BY ReplyFacts
<1>2. /\ SubSeq(Reply, 1, Len(s)) \in Seq(Units) /\ Len(SubSeq(Reply, 1, Len(s))) = Len(s)
      /\ \A i \in 1..Len(s) : SubSeq(Reply, 1, Len(s))[i] = Reply[i]
    BY <1>1
<1>3. SubSeq(Reply, 1, Len(s)) = s
    BY <1>2, SeqEqual
<1>4. SubSeq(s, 1, Len(s)) = s /\ SubSeq(Reply, 1, Len(Reply)) = Reply
    BY <1>1, SubSeqFull
<1>. QED  BY <1>3, <1>4 DEF IsPrefix

\* The invariant implies that replies are delivered whole.
LEMMA InvDelivers == IInv => ReplyDelivered
<1> SUFFICES ASSUME ProcessInv, server = "process", NEW c \in Clients
             PROVE  /\ IsPrefix(got[c], Reply)
                    /\ nWanted[c] = ReadLen - Len(got[c])
                    /\ peer[c] = "open" =>
                           /\ IsPrefix(got[c] \o wire[c], Reply)
                           /\ Len(got[c] \o wire[c]) = Sent(c)
                           /\ returned[c] /\ call[c] = 3 => got[c] = Reply
                    /\ child[c] = "none" => got[c] = <<>>
    BY DEF IInv, ReplyDelivered, Sent
<1>1. /\ got[c] \in Seq(Units) /\ wire[c] \in Seq(Units) /\ DataOf(c)
      /\ Sent(c) \in 0..(2 * MsgLen) /\ (call[c] = 3 => Sent(c) = 2 * MsgLen)
    BY SentFacts DEF ProcessInv, ProcessTypes, Data
<1>2. IsPrefix(got[c], Reply)
    BY <1>1, PrefixFacts DEF DataOf
<1>3. ASSUME peer[c] = "open"
      PROVE  /\ IsPrefix(got[c] \o wire[c], Reply)
             /\ Len(got[c] \o wire[c]) = Sent(c)
             /\ returned[c] /\ call[c] = 3 => got[c] = Reply
    <2>1. /\ Len(got[c]) + Len(wire[c]) = Sent(c)
          /\ \A i \in 1..Len(got[c]) : got[c][i] = Reply[i]
          /\ \A i \in 1..Len(wire[c]) : wire[c][i] = Reply[Len(got[c]) + i]
        BY <1>1, <1>3 DEF DataOf
    <2> DEFINE both == got[c] \o wire[c]
    <2>3. /\ both \in Seq(Units) /\ Len(both) = Sent(c)
          /\ \A i \in 1..Len(both) : both[i] = Reply[i]
        BY <1>1, <2>1, WholeFacts
    <2> HIDE DEF both
    <2>4. IsPrefix(both, Reply) /\ (Len(both) = Len(Reply) => both = Reply)
        BY <1>1, <2>3, PrefixFacts, ReplyFacts
    <2>5. returned[c] => both = got[c]
        <3>1. returned[c] => wire[c] = <<>>
            BY DEF ProcessInv, Holders
        <3>. QED  BY <1>1, <3>1, ConcatEmptySeq DEF both
    <2>6. call[c] = 3 => both = Reply
        BY <1>1, <2>3, <2>4, ReplyFacts
    <2>. QED  BY <2>3, <2>4, <2>5, <2>6 DEF both
<1>. QED  BY <1>1, <1>2, <1>3 DEF DataOf

\* WriteN of a child and ReadN of its client, for every number of clients and every
\* length of the message: whatever part of what is asked for each call transfers, however
\* often one is interrupted and whichever process ends, nothing is lost, repeated or
\* reordered, and a client of a child that ended by itself has read both messages.
THEOREM RepliesDelivered == Spec => []ReplyDelivered
<1>1. Init => IInv
    BY InitInv
<1>2. IInv /\ [Next]_vars => IInv'
    BY NextInv
<1>3. IInv => ReplyDelivered
    BY InvDelivers
<1>. QED  BY <1>1, <1>2, <1>3, PTL DEF Spec
-----------------------------------------------------------------------------
(* The descriptors and the tables of SelectServer and PollServer: ServersInv *)
(* and EndsForCause.  The second inductive invariant says of a connection    *)
(* where it is (Connected), of the two tables what is in them (HoldsEach),   *)
(* and of each loop what it knows at its three stops (SelectLoop, PollLoop). *)

SocketTypes ==
    /\ fdLimit \in FdLimits
    /\ backlog \in Seq(Clients) /\ IsInjective(backlog)
    /\ peer \in [Clients -> {"idle", "open", "spoke", "gone"}]
    /\ fd \in [Clients -> (listenFd + 1)..(fdLimit - 1) \cup {-1}]

\* A client connects once, and its descriptor is its own.
Connected ==
    /\ \A c \in Clients : peer[c] = "idle" => c \notin ToSet(backlog)
    /\ \A c \in Clients : peer[c] = "idle" \/ c \in ToSet(backlog) => fd[c] = -1
    /\ \A c, d \in Accepted : fd[c] = fd[d] => c = d

AcceptedFds == {fd[c] : c \in Accepted}

\* Each of fds has one entry in a table, and the others are free.
HoldsEach(table, highest, fds) ==
    /\ \A f \in fds : \E i \in DOMAIN table :
           table[i] = f /\ \A j \in DOMAIN table : table[j] = f => j = i
    /\ \A i \in DOMAIN table : table[i] # -1 => table[i] \in fds /\ i <= highest

\* What the pass of SelectServer relies on.
SelectLoop ==
    /\ client \in [0..(FD_SETSIZE - 1) -> Int] /\ maxIndex < FD_SETSIZE
    /\ \A f \in AcceptedFds : f < FD_SETSIZE
    /\ HoldsEach(client, maxIndex, AcceptedFds)
    /\ read_set = {listenFd} \cup AcceptedFds
    /\ maxFd \in read_set /\ \A f \in read_set : f <= maxFd
    /\ rset \subseteq read_set
    /\ pc = "wait" => rset \ {listenFd} \subseteq visited /\ nReady = 0
    /\ pc = "accept" => listenFd \in rset /\ nReady = Cardinality(rset)
    /\ pc = "scan" => nReady = Cardinality(rset \ {listenFd})

LoopStops == {"wait", "accept", "scan"}

SelectInv ==
    /\ pc \in LoopStops \cup {"exit", "undefined"}
    /\ pc = "exit" => NewFd >= fdLimit
    /\ pc = "undefined" => \E f \in AcceptedFds : f >= FD_SETSIZE
    /\ pc \in LoopStops => SelectLoop

\* PollServer has met a readable client, or poll was interrupted.
Cause == interrupted \/ \E c \in Accepted : peer[c] \in {"spoke", "gone"}

\* What the pass of PollServer relies on: when it leaves entry 0 to look at the
\* others, one of them is ready, unless poll was interrupted.
PollLoop ==
    /\ client \in [0..(OPEN_MAX - 1) -> Int] /\ revents \in [0..(OPEN_MAX - 1) -> BOOLEAN]
    /\ HoldsEach(client, maxIndex, {listenFd} \cup AcceptedFds) /\ client[0] = listenFd
    /\ maxIndex <= OPEN_MAX
    /\ maxIndex = OPEN_MAX => FreeSlots = {}
    /\ pc = "accept" /\ nReady # 1 => Cause
    /\ pc = "scan" => Cause

PollInv ==
    /\ pc \in LoopStops \cup {"exit", "undefined"}
    /\ pc = "exit" => NewFd >= fdLimit \/ Cause
    /\ pc = "undefined" => maxIndex = OPEN_MAX
    /\ pc \in LoopStops => PollLoop

ParentInv ==
    /\ fdLimit = Max(FdLimits)
    /\ pc \in {"accept", "fork", "close", "terminated"}

ServersIInv ==
    /\ SocketTypes /\ maxIndex \in Nat /\ nReady \in Int
    /\ server \in ServerName /\ Connected
    /\ server = "select" => SelectInv
    /\ server = "poll" => PollInv
    /\ server = "process" => ParentInv

-----------------------------------------------------------------------------
\* A set of numbers has a least one, and the greatest is what Max chooses.
LEMMA MinFact ==
    ASSUME NEW T \in SUBSET Nat, T # {}
    PROVE  Min(T) \in T /\ \A n \in T : Min(T) <= n
BY LeastFact DEF Min

\* A greatest number is the one Max chooses.
LEMMA MaxFact ==
    ASSUME NEW T \in SUBSET Int, NEW m \in T, \A n \in T : n <= m
    PROVE  Max(T) = m
<1>1. \A n \in T : m >= n
    OBVIOUS
<1>2. Max(T) \in T /\ \A n \in T : Max(T) >= n
    BY <1>1 DEF Max
<1> DEFINE x == Max(T)
<1>3. x \in Int /\ m \in Int /\ x <= m /\ x >= m
    BY <1>2
<1> HIDE DEF x
<1>4. x = m
    BY <1>3
<1>. QED  BY <1>4 DEF x

\* accept() finds a free descriptor, since there are more numbers than clients: it is
\* above that of the listening socket, and no connection has it.
LEMMA NewFdFree ==
    ASSUME SocketTypes
    PROVE  NewFd \in Nat /\ NewFd > listenFd /\ NewFd # -1 /\ \A c \in Clients : fd[c] # NewFd
<1> DEFINE n == Cardinality(Clients)
           T == (listenFd + 1)..(listenFd + 1 + n)
           Free == {f \in T : \A c \in Clients : fd[c] # f}
<1>1. n \in Nat /\ listenFd \in Nat
    BY FS_CardinalityType
<1>2. Free # {}
    <2> SUFFICES ASSUME Free = {} PROVE FALSE
        OBVIOUS
    <2> DEFINE g == [f \in T |-> CHOOSE c \in Clients : fd[c] = f]
    <2>1. \A f \in T : \E c \in Clients : fd[c] = f
        OBVIOUS
    <2>2. \A f \in T : g[f] \in Clients /\ fd[g[f]] = f
        BY <2>1
    <2>3. Cardinality(T) = n + 1 /\ IsFiniteSet(T)
        BY <1>1, FS_Interval
    <2> HIDE DEF T, n
    <2>4. g \in Injection(T, Clients)
        <3>1. g \in [T -> Clients]
            BY <2>2
        <3>2. \A a, b \in T : g[a] = g[b] => a = b
            BY <2>2
        <3> HIDE DEF g
        <3>. QED  BY <3>1, <3>2 DEF Injection, IsInjective
    <2> HIDE DEF g
    <2>5. Cardinality(T) <= Cardinality(Clients)
        BY <2>4, FS_Injection, SocketsAssumption
    <2>. QED  BY <1>1, <2>3, <2>5 DEF n
<1>3. Free \subseteq Nat /\ \A f \in Free : f > listenFd /\ f # -1 /\ \A c \in Clients : fd[c] # f
    BY <1>1
<1>4. NewFd = Min(Free)
    BY DEF NewFd
<1> HIDE DEF Free
<1>. QED  BY <1>2, <1>3, <1>4, MinFact
\* The entries of a table stay at their place when a free one is filled.
TableFilled(table, slot, f) == [table EXCEPT ![slot] = f]

\* A new descriptor in a free entry has one entry, and the others keep theirs.
LEMMA TableFills ==
    ASSUME NEW n \in Nat, NEW table \in [0..(n - 1) -> Int], NEW highest \in Nat, NEW fds,
           HoldsEach(table, highest, fds), NEW slot \in 0..(n - 1), table[slot] = -1,
           NEW f \in Nat, f \notin fds, -1 \notin fds
    PROVE  /\ TableFilled(table, slot, f) \in [0..(n - 1) -> Int]
           /\ HoldsEach(TableFilled(table, slot, f),
                        IF slot > highest THEN slot ELSE highest, fds \cup {f})
<1> DEFINE t == TableFilled(table, slot, f)
           m == IF slot > highest THEN slot ELSE highest
           D == 0..(n - 1)
<1>1. t \in [D -> Int] /\ \A i \in D : t[i] = IF i = slot THEN f ELSE table[i]
    BY DEF TableFilled
<1>2. slot <= m /\ highest <= m /\ m \in Nat /\ slot \in Nat
    OBVIOUS
<1>3. D \subseteq Nat
    OBVIOUS
<1>4. table \in [D -> Int] /\ slot \in D /\ DOMAIN table = D
    OBVIOUS
<1> HIDE DEF t, m, D
<1>5. ASSUME NEW g \in fds \cup {f}
      PROVE  \E i \in DOMAIN t : t[i] = g /\ \A j \in DOMAIN t : t[j] = g => j = i
    <2>1. CASE g = f
        <3>1. \A j \in D : t[j] = f => j = slot
            <4>1. \A j \in D : table[j] # f
                BY <1>4 DEF HoldsEach
            <4>. QED  BY <1>1, <4>1
        <3>. QED  BY <1>1, <1>4, <2>1, <3>1
    <2>2. CASE g \in fds
        <3>1. PICK i \in D : table[i] = g /\ \A j \in D : table[j] = g => j = i
            BY <1>4, <2>2, Zenon DEF HoldsEach
        <3>2. i # slot /\ g # f
            BY <2>2, <3>1
        <3>. QED  BY <1>1, <3>1, <3>2
    <2>. QED  BY <2>1, <2>2
<1>6. ASSUME NEW i \in DOMAIN t, t[i] # -1
      PROVE  t[i] \in fds \cup {f} /\ i <= m
    <2>1. CASE i = slot
        BY <1>1, <1>2, <2>1
    <2>2. CASE i # slot
        <3>1. i \in D /\ t[i] = table[i]
            BY <1>1, <2>2
        <3>2. table[i] \in fds /\ i <= highest
            BY <1>4, <1>6, <3>1, Zenon DEF HoldsEach
        <3>3. i \in Nat
            BY <1>3, <3>1
        <3>. QED  BY <1>2, <3>1, <3>2, <3>3
    <2>. QED  BY <2>1, <2>2
<1>7. HoldsEach(t, m, fds \cup {f})
    BY <1>5, <1>6, Zenon DEF HoldsEach
<1>. QED  BY <1>1, <1>7 DEF t, m, D

\* Raising the highest entry keeps a table.
LEMMA TableRaised ==
    ASSUME NEW n \in Nat, NEW table \in [0..(n - 1) -> Int], NEW highest \in Nat, NEW fds,
           HoldsEach(table, highest, fds), NEW above \in Nat, highest <= above
    PROVE  HoldsEach(table, above, fds)
<1>1. \A i \in DOMAIN table : table[i] # -1 => table[i] \in fds /\ i <= highest
    BY Zenon DEF HoldsEach
<1>2. \A i \in DOMAIN table : table[i] # -1 => table[i] \in fds /\ i <= above
    BY <1>1
<1>. QED  BY <1>2, Zenon DEF HoldsEach

\* HoldsEach says of the table what TableHolds counts.
LEMMA TableCounts ==
    ASSUME NEW fds, HoldsEach(client, maxIndex, fds)
    PROVE  TableHolds(fds)
<1>1. ASSUME NEW f \in fds PROVE Cardinality({i \in DOMAIN client : client[i] = f}) = 1
    <2>1. PICK i \in DOMAIN client :
              client[i] = f /\ \A j \in DOMAIN client : client[j] = f => j = i
        BY Zenon DEF HoldsEach
    <2>2. {j \in DOMAIN client : client[j] = f} = {i}
        BY <2>1
    <2>. QED  BY <2>2, FS_Singleton
<1>. QED  BY <1>1, Zenon DEF TableHolds, HoldsEach

\* A free entry is -1, and Slot is one.
LEMMA SlotFacts ==
    ASSUME NEW n \in Nat, client \in [0..(n - 1) -> Int], NEW fds \in SUBSET Nat,
           HoldsEach(client, maxIndex, fds), FreeSlots # {}
    PROVE  Slot \in 0..(n - 1) /\ client[Slot] = -1 /\ Slot \in Nat
<1>1. FreeSlots \in SUBSET Nat /\ \A i \in FreeSlots : i \in 0..(n - 1) /\ client[i] < 0
    BY DEF FreeSlots
<1>2. Slot \in FreeSlots
    BY <1>1, MinFact DEF Slot
<1>3. \A i \in 0..(n - 1) : client[i] # -1 => client[i] \in Nat
    BY DEF HoldsEach
<1>4. Slot \in 0..(n - 1) /\ client[Slot] < 0
    BY <1>1, <1>2
<1>. QED  BY <1>3, <1>4

\* A table with an entry for every number below its length has a free one while every
\* descriptor in it is below its length and above that of the listening socket.
LEMMA TableHasRoom ==
    ASSUME NEW n \in Nat \ {0}, client \in [0..(n - 1) -> Int],
           NEW fds \in SUBSET ((listenFd + 1)..(n - 1)), HoldsEach(client, maxIndex, fds)
    PROVE  FreeSlots # {}
<1> DEFINE D == 0..(n - 1)
           R == (listenFd + 1)..(n - 1)
<1> SUFFICES ASSUME \A i \in D : ~(client[i] < 0) PROVE FALSE
    BY DEF FreeSlots
<1>1. /\ IsFiniteSet(R) /\ Cardinality(D) = n
      /\ Cardinality(R) < n
    <2>1. listenFd \in Nat
        BY SocketsAssumption
    <2>2. Cardinality(D) = n /\ IsFiniteSet(R)
        BY <2>1, FS_Interval
    <2>3. Cardinality(R) = IF listenFd + 1 > n - 1 THEN 0 ELSE (n - 1) - (listenFd + 1) + 1
        BY <2>1, FS_Interval
    <2>. QED  BY <2>1, <2>2, <2>3
<1>2. \A i \in D : client[i] \in fds
    <2>1. \A i \in D : client[i] # -1
        OBVIOUS
    <2>. QED  BY <2>1 DEF HoldsEach
<1>3. DOMAIN client = D
    OBVIOUS
<1>4. fds \subseteq R
    OBVIOUS
<1> HIDE DEF D, R
<1>5. \A i, j \in D : client[i] = client[j] => i = j
    BY <1>2, <1>3, Zenon DEF HoldsEach
<1>6. client \in Injection(D, R)
    <2>1. client \in [D -> R]
        BY <1>2, <1>4 DEF D, R
    <2>. QED  BY <1>3, <1>5, <2>1, Zenon DEF Injection, IsInjective
<1>7. Cardinality(D) <= Cardinality(R)
    BY <1>1, <1>6, FS_Injection
<1>8. Cardinality(R) \in Nat
    BY <1>1, FS_CardinalityType
<1>. QED  BY <1>1, <1>7, <1>8
-----------------------------------------------------------------------------
\* The descriptors of the connections.
LEMMA FdFacts ==
    ASSUME SocketTypes, Connected
    PROVE  /\ \A f \in AcceptedFds : f \in Nat /\ f > listenFd
           /\ -1 \notin {listenFd} \cup AcceptedFds /\ listenFd \notin AcceptedFds
           /\ \A c \in Accepted : FdReady(fd[c]) <=> peer[c] \in {"spoke", "gone"}
<1>1. listenFd \in Nat /\ fdLimit \in Nat
    BY DEF SocketTypes
<1>2. \A c \in Accepted : c \in Clients /\ fd[c] \in Nat /\ fd[c] > listenFd /\ fd[c] # -1
    BY <1>1 DEF SocketTypes, Accepted
<1>3. \A f \in AcceptedFds : f \in Nat /\ f > listenFd
    BY <1>2 DEF AcceptedFds
<1>4. -1 \notin {listenFd} \cup AcceptedFds /\ listenFd \notin AcceptedFds
    BY <1>1, <1>3
<1>5. ASSUME NEW c \in Accepted PROVE FdReady(fd[c]) <=> peer[c] \in {"spoke", "gone"}
    <2>1. fd[c] # listenFd
        BY <1>1, <1>2
    <2>2. \A d \in Clients : fd[d] = fd[c] => d = c
        BY <1>2 DEF Connected, Accepted
    <2>3. FdReady(fd[c]) <=> \E d \in Clients : fd[d] = fd[c] /\ peer[d] \in {"spoke", "gone"}
        BY <2>1, Zenon DEF FdReady
    <2>. QED  BY <1>2, <2>2, <2>3, Zenon
<1>. QED  BY <1>3, <1>4, <1>5

\* accept() takes the oldest connection and gives it a descriptor of its own.
LEMMA AcceptFacts ==
    ASSUME SocketTypes, Connected, NEW c \in Clients, AcceptReturns(c, TRUE)
    PROVE  /\ SocketTypes' /\ Connected' /\ pc = "accept"
           /\ AcceptedFds' = AcceptedFds \cup {NewFd} /\ NewFd \notin AcceptedFds
           /\ \A d \in Accepted : d \in Accepted' /\ fd'[d] = fd[d]
           /\ c \in Accepted' /\ fd'[c] = NewFd /\ peer' = peer
<1>1. /\ backlog # <<>> /\ c = Head(backlog) /\ backlog' = Tail(backlog) /\ NewFd < fdLimit
      /\ fd' = [fd EXCEPT ![c] = NewFd] /\ peer' = peer /\ fdLimit' = fdLimit
      /\ pc = "accept"
    BY DEF AcceptReturns
<1>2. NewFd \in Nat /\ NewFd > listenFd /\ NewFd # -1 /\ \A d \in Clients : fd[d] # NewFd
    BY NewFdFree
<1>3. /\ backlog \in Seq(Clients) /\ IsInjective(backlog) /\ fdLimit \in Nat /\ listenFd \in Nat
      /\ fd \in [Clients -> (listenFd + 1)..(fdLimit - 1) \cup {-1}]
    BY DEF SocketTypes
<1>4. /\ backlog' \in Seq(Clients) /\ IsInjective(backlog')
      /\ ToSet(backlog') \subseteq ToSet(backlog) /\ c \in ToSet(backlog) /\ c \notin ToSet(backlog')
    BY <1>1, <1>3, TailFacts
<1>5. fd[c] = -1 /\ peer[c] # "idle"
    BY <1>4, Zenon DEF Connected
<1>6. NewFd \in (listenFd + 1)..(fdLimit - 1)
    BY <1>1, <1>2, <1>3
<1> DEFINE f == NewFd
<1> HIDE DEF f
<1>7. /\ fd' \in [Clients -> (listenFd + 1)..(fdLimit - 1) \cup {-1}]
      /\ \A d \in Clients : fd'[d] = IF d = c THEN f ELSE fd[d]
    BY <1>1, <1>3, <1>6 DEF f
<1>8. f # -1 /\ \A d \in Clients : fd[d] # f
    BY <1>2 DEF f
<1>9. SocketTypes'
    BY <1>1, <1>4, <1>7 DEF SocketTypes
<1>10. Accepted' = Accepted \cup {c} /\ c \notin Accepted
    BY <1>5, <1>7, <1>8 DEF Accepted
<1>11. \A d \in Accepted : d \in Clients /\ d # c /\ fd'[d] = fd[d]
    BY <1>7, <1>10 DEF Accepted
<1>12. Connected'
    <2>1. \A d, e \in Accepted \cup {c} : fd'[d] = fd'[e] => d = e
        BY <1>7, <1>8, <1>11 DEF Connected
    <2>. QED  BY <1>1, <1>4, <1>5, <1>7, <1>10, <2>1 DEF Connected
<1>13. AcceptedFds' = AcceptedFds \cup {f} /\ f \notin AcceptedFds
    <2>1. AcceptedFds' = {fd'[d] : d \in Accepted \cup {c}}
        BY <1>10, Zenon DEF AcceptedFds
    <2>2. {fd'[d] : d \in Accepted \cup {c}} = {fd[d] : d \in Accepted} \cup {f}
        BY <1>7, <1>11
    <2>. QED  BY <1>8, <1>11, <2>1, <2>2 DEF AcceptedFds
<1>. QED  BY <1>1, <1>7, <1>9, <1>10, <1>11, <1>12, <1>13 DEF f

\* A connection that accept() drops, or the server at once.
LEMMA DropFacts ==
    ASSUME SocketTypes, Connected, backlog # <<>>, backlog' = Tail(backlog),
           UNCHANGED <<fdLimit, peer, fd>>
    PROVE  SocketTypes' /\ Connected'
<1>1. backlog \in Seq(Clients) /\ IsInjective(backlog)
    BY DEF SocketTypes
<1>2. /\ backlog' \in Seq(Clients) /\ IsInjective(backlog')
      /\ ToSet(backlog') \subseteq ToSet(backlog)
    BY <1>1, TailFacts
<1>. QED  BY <1>2 DEF SocketTypes, Connected, Accepted

\* While no descriptor changes hands, neither does anything made of them.
LEMMA FdsKept ==
    ASSUME fd' = fd
    PROVE  Accepted' = Accepted /\ AcceptedFds' = AcceptedFds /\ NewFd' = NewFd
<1>1. Accepted' = Accepted /\ NewFd' = NewFd
    BY Zenon DEF Accepted, NewFd
<1>. QED  BY <1>1, Zenon DEF AcceptedFds

\* A step that leaves the table and the accepted clients alone.
LEMMA TableKept ==
    ASSUME UNCHANGED <<client, maxIndex>>, AcceptedFds' = AcceptedFds
    PROVE  /\ FreeSlots' = FreeSlots
           /\ HoldsEach(client, maxIndex, {listenFd} \cup AcceptedFds)'
                 <=> HoldsEach(client, maxIndex, {listenFd} \cup AcceptedFds)
<1>1. FreeSlots' = FreeSlots
    BY Zenon DEF FreeSlots
<1>. QED  BY <1>1, Zenon DEF HoldsEach

\* A step that leaves the server where it is and takes no client's data back.
LEMMA LoopsKept ==
    ASSUME ServersIInv, SocketTypes', Connected',
           UNCHANGED <<server, pc, fdLimit, fd, tableVars, selectVars, pollVars>>,
           \A c \in Clients : peer[c] \in {"spoke", "gone"} => peer'[c] \in {"spoke", "gone"}
    PROVE  ServersIInv'
<1> USE DEF tableVars, selectVars, pollVars
<1>1. Accepted' = Accepted /\ AcceptedFds' = AcceptedFds /\ NewFd' = NewFd
    BY FdsKept
<1>2. Cause => Cause'
    BY <1>1 DEF Cause, Accepted
<1>3. SelectInv => SelectInv'
    <2>1. SelectLoop => SelectLoop'
        BY <1>1, Zenon DEF SelectLoop, HoldsEach
    <2>. QED  BY <1>1, <2>1, Zenon DEF SelectInv
<1>4. PollInv => PollInv'
    <2>1. PollLoop => PollLoop'
        <3>1. /\ FreeSlots' = FreeSlots
              /\ HoldsEach(client, maxIndex, {listenFd} \cup AcceptedFds)'
                    <=> HoldsEach(client, maxIndex, {listenFd} \cup AcceptedFds)
            BY <1>1, TableKept, Zenon
        <3>. QED  BY <1>2, <3>1 DEF PollLoop
    <2>. QED  BY <1>1, <1>2, <2>1, Zenon DEF PollInv
<1>5. ParentInv => ParentInv'
    BY DEF ParentInv
<1>. QED  BY <1>3, <1>4, <1>5 DEF ServersIInv

\* A client connects, speaks or aborts.
LEMMA ClientStepServers ==
    ASSUME ServersIInv, ClientStep
    PROVE  ServersIInv'
<1>1. PICK c \in Clients : Connect(c) \/ Speak(c) \/ Abort(c)
    BY DEF ClientStep
<1>2. UNCHANGED <<server, pc, tableVars, selectVars, pollVars>> /\ fdLimit' = fdLimit /\ fd' = fd
    BY <1>1 DEF ClientStep, Connect, Speak, Abort
<1>3. SocketTypes /\ Connected
    BY DEF ServersIInv
<1>4. /\ SocketTypes' /\ Connected'
      /\ \A d \in Clients : peer[d] \in {"spoke", "gone"} => peer'[d] \in {"spoke", "gone"}
    <2>1. CASE Connect(c)
        <3>1. /\ peer[c] = "idle" /\ peer' = [peer EXCEPT ![c] = "open"]
              /\ c \notin ToSet(backlog) /\ backlog' = Append(backlog, c)
            BY <1>3, <2>1 DEF Connect, Connected
        <3>2. /\ backlog' \in Seq(Clients) /\ IsInjective(backlog')
              /\ ToSet(backlog') = ToSet(backlog) \cup {c}
            BY <1>3, <3>1, AppendFacts DEF SocketTypes
        <3>3. /\ peer' \in [Clients -> {"idle", "open", "spoke", "gone"}]
              /\ \A d \in Clients : peer'[d] = IF d = c THEN "open" ELSE peer[d]
            BY <1>3, <3>1 DEF SocketTypes
        <3>4. SocketTypes'
            BY <1>2, <1>3, <3>2, <3>3 DEF SocketTypes
        <3>5. Connected'
            BY <1>2, <1>3, <3>1, <3>2, <3>3 DEF Connected, Accepted
        <3>. QED  BY <3>1, <3>3, <3>4, <3>5
    <2>2. CASE Speak(c) \/ Abort(c)
        <3>1. PICK p \in {"spoke", "gone"} : peer' = [peer EXCEPT ![c] = p]
            BY <2>2 DEF Speak, Abort
        <3>2. peer[c] # "idle" /\ backlog' = backlog
            BY <2>2 DEF Speak, Abort
        <3>3. /\ peer' \in [Clients -> {"idle", "open", "spoke", "gone"}]
              /\ \A d \in Clients : peer'[d] = IF d = c THEN p ELSE peer[d]
            BY <1>3, <3>1 DEF SocketTypes
        <3>4. SocketTypes'
            BY <1>2, <1>3, <3>2, <3>3 DEF SocketTypes
        <3>5. Connected'
            BY <1>2, <1>3, <3>2, <3>3 DEF Connected, Accepted
        <3>. QED  BY <3>3, <3>4, <3>5
    <2>. QED  BY <1>1, <2>1, <2>2
<1>. QED  BY <1>2, <1>4, LoopsKept
-----------------------------------------------------------------------------
(* SelectServer.                                                           *)

\* select reports the ready ones of the descriptors it is asked for.
LEMMA SelectWaitInv ==
    ASSUME ServersIInv, SelectInv, SelectWait
    PROVE  /\ SelectInv' /\ SocketTypes' /\ Connected'
           /\ maxIndex' \in Nat /\ nReady' \in Int
<1>1. /\ pc = "wait" /\ rset' = {f \in Watched : FdReady(f)} /\ nReady' = Cardinality(rset')
      /\ pc' = (IF listenFd \in rset' THEN "accept" ELSE "scan")
      /\ UNCHANGED <<socketVars, client, maxIndex, read_set, maxFd>>
    BY DEF SelectWait
<1>2. SelectLoop /\ SocketTypes /\ Connected
    BY <1>1 DEF SelectInv, LoopStops, ServersIInv
<1>3. Accepted' = Accepted /\ AcceptedFds' = AcceptedFds /\ NewFd' = NewFd
    BY <1>1, FdsKept DEF socketVars
<1>4. rset' \subseteq read_set
    BY <1>1 DEF Watched
<1>5. IsFiniteSet(rset')
    <2>1. read_set \subseteq Nat /\ \A f \in read_set : f <= maxFd
        BY <1>2, FdFacts, SocketsAssumption DEF SelectLoop
    <2>2. maxFd \in Nat
        BY <1>2, <2>1 DEF SelectLoop
    <2>. QED  BY <1>4, <2>1, <2>2, FS_BoundedSetOfNaturals
<1>6. Cardinality(rset') \in Nat
    BY <1>5, FS_CardinalityType
<1>7. listenFd \notin rset' => rset' \ {listenFd} = rset'
    OBVIOUS
<1>8. SelectLoop'
    <2>1. HoldsEach(client, maxIndex, AcceptedFds)'
        BY <1>1, <1>2, <1>3, Zenon DEF SelectLoop, HoldsEach
    <2>2. /\ client' = client /\ read_set' = read_set /\ maxFd' = maxFd
        BY <1>1
    <2>. QED  BY <1>1, <1>2, <1>3, <1>4, <1>7, <2>1, <2>2 DEF SelectLoop
<1>9. SelectInv'
    BY <1>1, <1>8 DEF SelectInv, LoopStops
<1>10. SocketTypes' /\ Connected'
    BY <1>1, <1>2, <1>3 DEF SocketTypes, Connected, socketVars
<1>. QED  BY <1>1, <1>6, <1>9, <1>10 DEF ServersIInv

\* The pass meets every client that was ready: as many entries as nReady says hold one.
LEMMA SelectScanInv ==
    ASSUME ServersIInv, SelectInv, SelectScan
    PROVE  /\ SelectInv' /\ SocketTypes' /\ Connected'
           /\ maxIndex' \in Nat /\ nReady' \in Int
<1> DEFINE due == {i \in 0..maxIndex : client[i] \in rset}
           met == {i \in due : Cardinality({j \in due : j < i}) < nReady}
           R == rset \ {listenFd}
<1>1. /\ pc = "scan" /\ pc' = "wait"
      /\ visited' = {client[i] : i \in met} /\ nReady' = nReady - Cardinality(met)
      /\ UNCHANGED <<socketVars, client, maxIndex, read_set, maxFd, rset>>
    BY DEF SelectScan
<1>2. SelectLoop /\ SocketTypes /\ Connected /\ maxIndex \in Nat
    BY <1>1 DEF SelectInv, LoopStops, ServersIInv
<1>3. Accepted' = Accepted /\ AcceptedFds' = AcceptedFds /\ NewFd' = NewFd
    BY <1>1, FdsKept DEF socketVars
<1>4. nReady = Cardinality(R) /\ R \subseteq AcceptedFds
    BY <1>1, <1>2 DEF SelectLoop
<1>5. \A f \in AcceptedFds : f \in Nat
    BY <1>2, FdFacts
<1>6. due \subseteq 0..maxIndex /\ IsFiniteSet(due)
    <2>1. due \subseteq 0..maxIndex
        OBVIOUS
    <2> HIDE DEF due
    <2>2. IsFiniteSet(0..maxIndex)
        BY <1>2, FS_Interval
    <2>. QED  BY <2>1, <2>2, FS_Subset
<1>7. /\ \A i \in due : client[i] \in R
      /\ \A f \in R : \E i \in due : client[i] = f
      /\ \A i, j \in due : client[i] = client[j] => i = j
    <2>1. \A i \in 0..maxIndex : i \in DOMAIN client
        BY <1>2, SelectAssumption DEF SelectLoop
    <2>2. \A i \in DOMAIN client : client[i] # -1 => client[i] \in AcceptedFds /\ i <= maxIndex
        BY <1>2, Zenon DEF SelectLoop, HoldsEach
    <2>3. -1 \notin rset /\ listenFd \notin AcceptedFds
        BY <1>2, FdFacts DEF SelectLoop
    <2>4. \A i \in due : i \in DOMAIN client /\ client[i] \in R /\ client[i] \in AcceptedFds
        BY <2>1, <2>2, <2>3
    <2>5. \A i, j \in DOMAIN client : client[i] \in AcceptedFds /\ client[i] = client[j] => i = j
        BY <1>2, Zenon DEF SelectLoop, HoldsEach
    <2>6. ASSUME NEW f \in R PROVE \E i \in due : client[i] = f
        <3>1. PICK i \in DOMAIN client : client[i] = f
            BY <1>2, <1>4, Zenon DEF SelectLoop, HoldsEach
        <3>2. i \in 0..maxIndex
            BY <1>2, <1>4, <1>5, <2>2, <3>1 DEF SelectLoop
        <3>. QED  BY <3>1, <3>2
    <2> HIDE DEF due, R
    <2>. QED  BY <2>4, <2>5, <2>6, Zenon
<1> HIDE DEF due, R
<1>8. Cardinality(due) = nReady
    <2> DEFINE g == [i \in due |-> client[i]]
    <2>1. /\ g \in [due -> R] /\ \A i \in due : g[i] = client[i]
        BY <1>7
    <2> HIDE DEF g
    <2>2. g \in Bijection(due, R)
        BY <1>7, <2>1, Zenon DEF Bijection, Injection, Surjection, IsInjective
    <2>3. ExistsBijection(due, R)
        BY <2>2, Zenon DEF ExistsBijection
    <2>. QED  BY <1>4, <1>6, <2>3, FS_Bijection
<1>9. ASSUME NEW i \in due PROVE i \in met
    <2> DEFINE before == {j \in due : j < i}
    <2>1. before \subseteq due \ {i}
        BY <1>6
    <2>2. IsFiniteSet(due \ {i}) /\ Cardinality(due \ {i}) = Cardinality(due) - 1
        BY <1>6, FS_RemoveElement
    <2>3. Cardinality(before) <= Cardinality(due) - 1
        <3> HIDE DEF before
        <3>. QED  BY <2>1, <2>2, FS_Subset
    <2>4. Cardinality(before) \in Nat /\ Cardinality(due) \in Nat
        <3> HIDE DEF before
        <3>. QED  BY <1>6, <2>1, <2>2, FS_Subset, FS_CardinalityType
    <2> DEFINE b == Cardinality(before)
               k == Cardinality(due)
    <2>5. b < nReady
        <3> HIDE DEF b, k
        <3>1. b \in Nat /\ k \in Nat /\ b <= k - 1 /\ k = nReady
            BY <1>8, <2>3, <2>4 DEF b, k
        <3>. QED  BY <3>1
    <2>. QED  BY <2>5
<1>10. met = due
    BY <1>9
<1>11. nReady' = 0 /\ R \subseteq visited'
    <2>1. Cardinality(met) = nReady /\ nReady \in Nat
        BY <1>6, <1>8, <1>10, FS_CardinalityType
    <2>2. visited' = {client[i] : i \in due}
        BY <1>1, <1>10
    <2>3. R \subseteq visited'
        BY <1>7, <2>2
    <2>4. nReady' = nReady - Cardinality(met)
        BY <1>1
    <2> HIDE DEF met
    <2>5. nReady' = 0
        BY <2>1, <2>4
    <2>. QED  BY <2>3, <2>5
<1>12. SelectLoop'
    <2>1. HoldsEach(client, maxIndex, AcceptedFds)'
        BY <1>1, <1>2, <1>3, Zenon DEF SelectLoop, HoldsEach
    <2>2. client' = client /\ read_set' = read_set /\ maxFd' = maxFd /\ rset' = rset
          /\ maxIndex' = maxIndex
        BY <1>1
    <2>. QED  BY <1>1, <1>2, <1>3, <1>11, <2>1, <2>2 DEF SelectLoop, R
<1>13. SelectInv'
    BY <1>1, <1>12 DEF SelectInv, LoopStops
<1>14. SocketTypes' /\ Connected'
    BY <1>1, <1>2, <1>3 DEF SocketTypes, Connected, socketVars
<1>. QED  BY <1>1, <1>2, <1>11, <1>13, <1>14
\* SelectServer registers an accepted client, for which the table always has an entry,
\* or writes behind its fd_set.
LEMMA SelectAcceptInv ==
    ASSUME ServersIInv, SelectInv, NEW c \in Clients, SelectAccept(c)
    PROVE  /\ SelectInv' /\ SocketTypes' /\ Connected'
           /\ maxIndex' \in Nat /\ nReady' \in Int
<1>1. pc = "accept"
    BY DEF SelectAccept, AcceptReturns
<1>2. /\ SelectLoop /\ SocketTypes /\ Connected /\ maxIndex \in Nat /\ nReady \in Int
      /\ FD_SETSIZE \in Nat \ {0} /\ listenFd \in Nat
    BY <1>1, SelectAssumption DEF SelectInv, LoopStops, ServersIInv
<1>3. \A f \in AcceptedFds : f \in Nat /\ f > listenFd /\ f < FD_SETSIZE
    BY <1>2, FdFacts DEF SelectLoop
<1>4. FreeSlots # {}
    <2>1. AcceptedFds \in SUBSET ((listenFd + 1)..(FD_SETSIZE - 1))
        BY <1>2, <1>3
    <2>. QED  BY <1>2, <2>1, TableHasRoom DEF SelectLoop
<1>5. /\ AcceptReturns(c, TRUE) /\ client' = [client EXCEPT ![Slot] = NewFd] /\ Register
    BY <1>4 DEF SelectAccept
<1>6. /\ SocketTypes' /\ Connected' /\ AcceptedFds' = AcceptedFds \cup {NewFd}
      /\ NewFd \notin AcceptedFds
    BY <1>2, <1>5, AcceptFacts
<1>7. NewFd \in Nat /\ NewFd > listenFd /\ NewFd # -1
    BY <1>2, NewFdFree
<1>8. CASE NewFd >= FD_SETSIZE
    <2>1. pc' = "undefined" /\ UNCHANGED <<maxIndex, nReady>>
        BY <1>5, <1>8 DEF Register
    <2>2. SelectInv'
        BY <1>6, <1>8, <2>1 DEF SelectInv, LoopStops
    <2>. QED  BY <1>2, <1>6, <2>1, <2>2
<1>9. CASE ~(NewFd >= FD_SETSIZE)
    <2>1. /\ read_set' = read_set \cup {NewFd} /\ maxFd' = MaxFdWith(NewFd)
          /\ maxIndex' = MaxIndexWith(Slot) /\ nReady' = nReady - 1
          /\ pc' = (IF nReady' = 0 THEN "wait" ELSE "scan")
          /\ UNCHANGED <<rset, visited>>
        BY <1>5, <1>9 DEF Register
    <2>2. Slot \in 0..(FD_SETSIZE - 1) /\ client[Slot] = -1 /\ Slot \in Nat
        <3>1. AcceptedFds \in SUBSET Nat /\ FD_SETSIZE \in Nat
            BY <1>2, <1>3
        <3>. QED  BY <1>2, <1>4, <3>1, SlotFacts DEF SelectLoop
    <2> DEFINE s == Slot
               f == NewFd
    <2>3. /\ client' = TableFilled(client, s, f)
          /\ maxIndex' = (IF s > maxIndex THEN s ELSE maxIndex)
        BY <1>5, <2>1 DEF TableFilled, MaxIndexWith
    <2>4. /\ s \in 0..(FD_SETSIZE - 1) /\ client[s] = -1 /\ s \in Nat
          /\ f \in Nat /\ f > listenFd /\ f \notin AcceptedFds /\ f < FD_SETSIZE
          /\ AcceptedFds' = AcceptedFds \cup {f}
        BY <1>2, <1>6, <1>7, <1>9, <2>2
    <2> HIDE DEF s, f
    <2>5. /\ client' \in [0..(FD_SETSIZE - 1) -> Int]
          /\ HoldsEach(client', maxIndex', AcceptedFds')
        <3>1. -1 \notin AcceptedFds
            BY <1>3
        <3>2. /\ client \in [0..(FD_SETSIZE - 1) -> Int]
              /\ HoldsEach(client, maxIndex, AcceptedFds) /\ FD_SETSIZE \in Nat
            BY <1>2 DEF SelectLoop
        <3>3. /\ TableFilled(client, s, f) \in [0..(FD_SETSIZE - 1) -> Int]
              /\ HoldsEach(TableFilled(client, s, f),
                           IF s > maxIndex THEN s ELSE maxIndex, AcceptedFds \cup {f})
            BY <1>2, <2>4, <3>1, <3>2, TableFills
        <3>. QED  BY <2>3, <2>4, <3>3, Zenon
    <2>6. maxIndex' \in Nat /\ maxIndex' < FD_SETSIZE
        BY <1>2, <2>3, <2>4 DEF SelectLoop
    <2>7. read_set' = {listenFd} \cup AcceptedFds'
        BY <1>2, <2>1, <2>4 DEF SelectLoop, f
    <2>8. maxFd' \in read_set' /\ \A g \in read_set' : g <= maxFd'
        <3>1. /\ maxFd \in read_set /\ \A g \in read_set : g <= maxFd
              /\ \A g \in read_set : g \in Nat
            BY <1>2, <1>3 DEF SelectLoop
        <3>2. read_set' = read_set \cup {f} /\ maxFd' = (IF maxFd < f THEN f ELSE maxFd)
            BY <2>1 DEF MaxFdWith, f
        <3>. QED  BY <2>4, <3>1, <3>2
    <2>9. rset' \subseteq read_set' /\ rset' = rset
        BY <1>2, <2>1 DEF SelectLoop
    <2>10. /\ nReady' = Cardinality(rset \ {listenFd}) /\ nReady' \in Nat
           /\ nReady' = 0 => rset \ {listenFd} = {}
        <3>1. IsFiniteSet(rset)
            <4>1. rset \subseteq Nat /\ maxFd \in Nat /\ \A g \in rset : g <= maxFd
                BY <1>2, <1>3 DEF SelectLoop
            <4>. QED  BY <4>1, FS_BoundedSetOfNaturals
        <3>2. nReady = Cardinality(rset) /\ listenFd \in rset
            BY <1>1, <1>2 DEF SelectLoop
        <3> DEFINE R == rset \ {listenFd}
        <3>3. IsFiniteSet(R) /\ Cardinality(R) = Cardinality(rset) - 1
            BY <3>1, <3>2, FS_RemoveElement
        <3> HIDE DEF R
        <3>4. Cardinality(R) \in Nat /\ (Cardinality(R) = 0 => R = {})
            BY <3>3, FS_CardinalityType, FS_EmptySet
        <3>. QED  BY <2>1, <3>2, <3>3, <3>4 DEF R
    <2>11. SelectLoop'
        <3>1. \A g \in AcceptedFds' : g < FD_SETSIZE
            BY <1>3, <2>4
        <3>2. pc' # "accept" /\ (pc' = "wait" => nReady' = 0)
            BY <2>1
        <3>. QED  BY <2>5, <2>6, <2>7, <2>8, <2>9, <2>10, <3>1, <3>2 DEF SelectLoop
    <2>12. SelectInv'
        BY <2>1, <2>11 DEF SelectInv, LoopStops
    <2>. QED  BY <1>6, <2>6, <2>10, <2>12
<1>. QED  BY <1>8, <1>9

\* accept() fails in SelectServer or PollServer: the process ends, or goes on with the
\* next connection.
LEMMA AcceptFailsInv ==
    ASSUME ServersIInv, AcceptAborted \/ AcceptFails,
           UNCHANGED <<server, tableVars, selectVars, pollVars>>
    PROVE  ServersIInv' \/ (SocketTypes' /\ Connected' /\ pc' = "exit" /\ NewFd' >= fdLimit')
<1>1. SocketTypes /\ Connected
    BY DEF ServersIInv
<1>2. CASE AcceptAborted
    <2>1. /\ backlog # <<>> /\ backlog' = Tail(backlog) /\ UNCHANGED <<pc, fdLimit, peer, fd>>
        BY <1>2 DEF AcceptAborted
    <2>2. SocketTypes' /\ Connected'
        BY <1>1, <2>1, DropFacts
    <2>. QED  BY <2>1, <2>2, LoopsKept
<1>3. CASE AcceptFails
    <2>1. NewFd >= fdLimit /\ pc' = "exit" /\ UNCHANGED <<fdLimit, backlog, peer, fd>>
        BY <1>3 DEF AcceptFails, socketVars
    <2>2. NewFd' = NewFd /\ Accepted' = Accepted
        BY <2>1, FdsKept
    <2>3. SocketTypes' /\ Connected'
        BY <1>1, <2>1, <2>2 DEF SocketTypes, Connected
    <2>. QED  BY <2>1, <2>2, <2>3
<1>. QED  BY <1>2, <1>3
-----------------------------------------------------------------------------
(* PollServer.                                                             *)

\* poll returns, or is interrupted, or is asked for an entry that is not there.
LEMMA PollWaitInv ==
    ASSUME ServersIInv, PollInv, PollWait \/ PollInterrupted
    PROVE  /\ PollInv' /\ SocketTypes' /\ Connected'
           /\ maxIndex' \in Nat /\ nReady' \in Int
<1>1. pc = "wait" /\ UNCHANGED <<socketVars, client, maxIndex>>
    BY DEF PollWait, PollInterrupted
<1>2. /\ PollLoop /\ SocketTypes /\ Connected /\ maxIndex \in Nat /\ nReady \in Int
      /\ OPEN_MAX \in Nat \ {0} /\ listenFd \in Nat
    BY <1>1, PollAssumption DEF PollInv, LoopStops, ServersIInv
<1>3. Accepted' = Accepted /\ AcceptedFds' = AcceptedFds /\ NewFd' = NewFd
    BY <1>1, FdsKept DEF socketVars
<1>4. SocketTypes' /\ Connected'
    BY <1>1, <1>2, <1>3 DEF SocketTypes, Connected, socketVars
<1>5. /\ HoldsEach(client, maxIndex, {listenFd} \cup AcceptedFds)'
      /\ FreeSlots' = FreeSlots /\ client' = client /\ maxIndex' = maxIndex
    BY <1>1, <1>2, <1>3, TableKept, Zenon DEF PollLoop
<1>6. ASSUME NEW result \in Int, NEW rr \in [0..(OPEN_MAX - 1) -> BOOLEAN],
             AfterPoll(result, rr),
             Cause' \/ (rr[0] /\ result = 1)
      PROVE  PollInv' /\ nReady' \in Int
    <2>1. /\ nReady' = result /\ revents' = rr
          /\ pc' = IF rr[0] THEN "accept" ELSE "scan"
        BY <1>6 DEF AfterPoll
    <2>2. PollLoop'
        BY <1>2, <1>5, <1>6, <2>1 DEF PollLoop
    <2>. QED  BY <2>1, <2>2 DEF PollInv, LoopStops
<1>7. CASE PollInterrupted
    <2>1. Cause'
        BY <1>7 DEF PollInterrupted, Cause
    <2>2. revents \in [0..(OPEN_MAX - 1) -> BOOLEAN]
        BY <1>2 DEF PollLoop
    <2> DEFINE rr == [i \in DOMAIN revents |-> i > maxIndex /\ revents[i]]
    <2>3. rr \in [0..(OPEN_MAX - 1) -> BOOLEAN]
        BY <2>2
    <2>4. AfterPoll(-1, revents) \/ AfterPoll(-1, rr)
        BY <1>7 DEF PollInterrupted
    <2> HIDE DEF rr
    <2>. QED  BY <1>1, <1>2, <1>4, <1>6, <2>1, <2>2, <2>3, <2>4
<1>8. CASE PollWait
    <2>1. CASE maxIndex = OPEN_MAX
        <3>1. pc' = "undefined" /\ nReady' = nReady
            BY <1>8, <2>1 DEF PollWait
        <3>. QED  BY <1>1, <1>2, <1>4, <2>1, <3>1 DEF PollInv, LoopStops
    <2>2. CASE maxIndex # OPEN_MAX
        <3> DEFINE ready == {i \in 0..maxIndex : client[i] >= 0 /\ FdReady(client[i])}
                   rr == [i \in DOMAIN revents |->
                             IF i <= maxIndex THEN i \in ready ELSE revents[i]]
        <3>1. ready # {} /\ AfterPoll(Cardinality(ready), rr) /\ interrupted' = interrupted
            BY <1>8, <2>2 DEF PollWait
        <3>2. IsFiniteSet(ready) /\ ready \subseteq 0..maxIndex
            <4>1. IsFiniteSet(0..maxIndex)
                BY <1>2, FS_Interval
            <4>2. ready \subseteq 0..maxIndex
                OBVIOUS
            <4> HIDE DEF ready
            <4>. QED  BY <4>1, <4>2, FS_Subset
        <3>3. rr \in [0..(OPEN_MAX - 1) -> BOOLEAN] /\ rr[0] = (0 \in ready)
            <4>1. revents \in [0..(OPEN_MAX - 1) -> BOOLEAN] /\ 0 \in 0..(OPEN_MAX - 1)
                BY <1>2 DEF PollLoop
            <4>2. \A i \in 0..(OPEN_MAX - 1) : (i \in ready) \in BOOLEAN /\ revents[i] \in BOOLEAN
                BY <4>1
            <4>3. 0 <= maxIndex /\ DOMAIN revents = 0..(OPEN_MAX - 1)
                BY <1>2, <4>1
            <4> HIDE DEF ready
            <4>4. rr \in [0..(OPEN_MAX - 1) -> BOOLEAN]
                BY <4>2, <4>3
            <4>5. rr[0] = (0 \in ready)
                BY <4>1, <4>3
            <4>. QED  BY <4>4, <4>5
        <3>4. ASSUME NEW i \in ready, i # 0 PROVE Cause'
            <4>1. i \in 0..(OPEN_MAX - 1) /\ client[i] >= 0 /\ FdReady(client[i])
                BY <1>2, <2>2, <3>2 DEF PollLoop
            <4>2. /\ client \in [0..(OPEN_MAX - 1) -> Int] /\ client[0] = listenFd
                  /\ HoldsEach(client, maxIndex, {listenFd} \cup AcceptedFds)
                  /\ 0 \in 0..(OPEN_MAX - 1)
                BY <1>2 DEF PollLoop
            <4>3. client[i] # -1 /\ DOMAIN client = 0..(OPEN_MAX - 1)
                BY <4>1, <4>2
            <4>4. client[i] \in {listenFd} \cup AcceptedFds /\ client[i] # listenFd
                <5>1. PICK j \in DOMAIN client : \A k \in DOMAIN client : client[k] = listenFd => k = j
                    BY <4>2, Zenon DEF HoldsEach
                <5>2. client[i] # listenFd
                    BY <3>4, <4>1, <4>2, <4>3, <5>1, Zenon
                <5>3. client[i] \in {listenFd} \cup AcceptedFds
                    BY <4>1, <4>2, <4>3, Zenon DEF HoldsEach
                <5>. QED  BY <5>2, <5>3
            <4>5. PICK d \in Accepted : client[i] = fd[d]
                BY <4>4 DEF AcceptedFds
            <4>6. peer[d] \in {"spoke", "gone"}
                BY <1>2, <4>1, <4>5, FdFacts
            <4>7. peer' = peer
                BY <1>1 DEF socketVars
            <4>. QED  BY <1>3, <4>5, <4>6, <4>7, Zenon DEF Cause
        <3>5. Cause' \/ (rr[0] /\ Cardinality(ready) = 1)
            <4>1. CASE \E i \in ready : i # 0
                BY <3>4, <4>1
            <4>2. CASE \A i \in ready : i = 0
                <5>1. ready = {0}
                    BY <3>1, <4>2
                <5> HIDE DEF ready, rr
                <5>. QED  BY <3>3, <5>1, FS_Singleton
            <4>. QED  BY <4>1, <4>2
        <3>6. Cardinality(ready) \in Int
            <4> HIDE DEF ready
            <4>. QED  BY <3>2, FS_CardinalityType
        <3> DEFINE k == Cardinality(ready)
        <3>7. /\ k \in Int /\ rr \in [0..(OPEN_MAX - 1) -> BOOLEAN]
              /\ AfterPoll(k, rr) /\ (Cause' \/ (rr[0] /\ k = 1))
            BY <3>1, <3>3, <3>5, <3>6
        <3> HIDE DEF k, rr, ready
        <3>. QED  BY <1>1, <1>2, <1>4, <1>6, <3>7
    <2>. QED  BY <2>1, <2>2
<1>. QED  BY <1>7, <1>8

\* PollServer puts an accepted client into its table, or turns it away.
LEMMA PollAcceptInv ==
    ASSUME ServersIInv, PollInv, NEW c \in Clients, PollAccept(c)
    PROVE  /\ PollInv' /\ SocketTypes' /\ Connected'
           /\ maxIndex' \in Nat /\ nReady' \in Int
<1>1. /\ pc = "accept" /\ nReady' = nReady - 1 /\ UNCHANGED <<revents, interrupted>>
      /\ pc' = (IF nReady - 1 = 0 THEN "wait" ELSE "scan")
    BY DEF PollAccept, AcceptReturns, pollVars, NextAfterAccept
<1>2. /\ PollLoop /\ SocketTypes /\ Connected /\ maxIndex \in Nat /\ nReady \in Int
      /\ OPEN_MAX \in Nat \ {0} /\ listenFd \in Nat
    BY <1>1, PollAssumption DEF PollInv, LoopStops, ServersIInv
<1>3. ASSUME Cause => Cause', client' \in [0..(OPEN_MAX - 1) -> Int], client'[0] = listenFd,
             HoldsEach(client', maxIndex', {listenFd} \cup AcceptedFds'),
             maxIndex' <= OPEN_MAX, maxIndex' = OPEN_MAX => FreeSlots' = {}
      PROVE  PollInv' /\ nReady' \in Int
    <2>1. pc' = "scan" => Cause'
        BY <1>1, <1>2, <1>3 DEF PollLoop
    <2>2. PollLoop'
        BY <1>1, <1>2, <1>3, <2>1 DEF PollLoop
    <2>. QED  BY <1>1, <1>2, <2>2 DEF PollInv, LoopStops
<1>4. CASE FreeSlots = {}
    <2>1. /\ backlog # <<>> /\ backlog' = Tail(backlog) /\ UNCHANGED <<fdLimit, peer, fd>>
          /\ maxIndex' = MaxIndexWith(OPEN_MAX) /\ client' = client
        BY <1>4 DEF PollAccept, AcceptReturns
    <2>2. SocketTypes' /\ Connected'
        BY <1>2, <2>1, DropFacts
    <2>3. Accepted' = Accepted /\ AcceptedFds' = AcceptedFds
        BY <2>1, FdsKept
    <2>4. maxIndex' = OPEN_MAX /\ maxIndex <= OPEN_MAX
        BY <1>2, <2>1 DEF MaxIndexWith, PollLoop
    <2>5. Cause => Cause'
        BY <1>1, <2>1, <2>3, Zenon DEF Cause
    <2>6. FreeSlots' = {}
        BY <1>4, <2>1 DEF FreeSlots
    <2>7. HoldsEach(client', maxIndex', {listenFd} \cup AcceptedFds')
        <3>1. HoldsEach(client, OPEN_MAX, {listenFd} \cup AcceptedFds)
            BY <1>2, <2>4, TableRaised DEF PollLoop
        <3>. QED  BY <2>1, <2>3, <2>4, <3>1, Zenon
    <2>8. client' \in [0..(OPEN_MAX - 1) -> Int] /\ client'[0] = listenFd
        BY <1>2, <2>1 DEF PollLoop
    <2>. QED  BY <1>2, <1>3, <2>2, <2>4, <2>5, <2>6, <2>7, <2>8
<1>5. CASE FreeSlots # {}
    <2>1. /\ AcceptReturns(c, TRUE) /\ maxIndex' = MaxIndexWith(Slot)
          /\ client' = [client EXCEPT ![Slot] = NewFd]
        BY <1>5 DEF PollAccept
    <2>2. /\ SocketTypes' /\ Connected' /\ AcceptedFds' = AcceptedFds \cup {NewFd}
          /\ NewFd \notin AcceptedFds /\ peer' = peer
          /\ \A d \in Accepted : d \in Accepted' /\ fd'[d] = fd[d]
        BY <1>2, <2>1, AcceptFacts
    <2>3. NewFd \in Nat /\ NewFd > listenFd /\ NewFd # -1
        BY <1>2, NewFdFree
    <2> DEFINE fds == {listenFd} \cup AcceptedFds
    <2>4. fds \in SUBSET Nat /\ -1 \notin fds
        BY <1>2, FdFacts
    <2>5. /\ client \in [0..(OPEN_MAX - 1) -> Int] /\ HoldsEach(client, maxIndex, fds)
          /\ OPEN_MAX \in Nat /\ client[0] = listenFd /\ maxIndex <= OPEN_MAX
          /\ maxIndex # OPEN_MAX
        BY <1>2, <1>5 DEF PollLoop
    <2>6. NewFd \notin fds
        BY <1>2, <2>2, <2>3
    <2> HIDE DEF fds
    <2>7. Slot \in 0..(OPEN_MAX - 1) /\ client[Slot] = -1 /\ Slot \in Nat
        BY <1>5, <2>4, <2>5, SlotFacts
    <2> DEFINE s == Slot
               f == NewFd
    <2>8. /\ client' = TableFilled(client, s, f)
          /\ maxIndex' = (IF s > maxIndex THEN s ELSE maxIndex)
        BY <2>1 DEF TableFilled, MaxIndexWith
    <2>9. /\ s \in 0..(OPEN_MAX - 1) /\ client[s] = -1 /\ s \in Nat
          /\ f \in Nat /\ f \notin fds /\ AcceptedFds' = AcceptedFds \cup {f}
        BY <2>2, <2>3, <2>6, <2>7
    <2> HIDE DEF s, f
    <2>10. /\ TableFilled(client, s, f) \in [0..(OPEN_MAX - 1) -> Int]
           /\ HoldsEach(TableFilled(client, s, f),
                        IF s > maxIndex THEN s ELSE maxIndex, fds \cup {f})
        BY <1>2, <2>4, <2>5, <2>9, TableFills
    <2>11. {listenFd} \cup AcceptedFds' = fds \cup {f}
        BY <2>9 DEF fds
    <2>12. /\ client' \in [0..(OPEN_MAX - 1) -> Int]
           /\ HoldsEach(client', maxIndex', {listenFd} \cup AcceptedFds')
        BY <2>8, <2>10, <2>11, Zenon
    <2>13. client'[0] = listenFd
        <3>1. s # 0
            BY <1>2, <2>5, <2>9
        <3>. QED  BY <2>5, <2>8, <2>9, <3>1 DEF TableFilled
    <2>14. maxIndex' \in Nat /\ maxIndex' <= OPEN_MAX /\ maxIndex' # OPEN_MAX
        BY <1>2, <2>5, <2>8, <2>9
    <2>15. Cause => Cause'
        BY <1>1, <2>2, Zenon DEF Cause
    <2>. QED  BY <1>3, <2>2, <2>12, <2>13, <2>14, <2>15
<1>. QED  BY <1>4, <1>5

\* The pass of PollServer ends at the first ready entry, or finds none.
LEMMA PollScanInv ==
    ASSUME ServersIInv, PollInv, PollScan
    PROVE  /\ PollInv' /\ SocketTypes' /\ Connected'
           /\ maxIndex' \in Nat /\ nReady' \in Int
<1>1. /\ pc = "scan" /\ pc' \in {"exit", "wait"} /\ UNCHANGED <<socketVars, tableVars, pollVars>>
    BY DEF PollScan
<1>2. /\ PollLoop /\ SocketTypes /\ Connected /\ maxIndex \in Nat /\ nReady \in Int
    BY <1>1 DEF PollInv, LoopStops, ServersIInv
<1>3. Accepted' = Accepted /\ AcceptedFds' = AcceptedFds /\ NewFd' = NewFd
    BY <1>1, FdsKept DEF socketVars
<1>4. SocketTypes' /\ Connected' /\ Cause'
    BY <1>1, <1>2, <1>3 DEF SocketTypes, Connected, socketVars, PollLoop, Cause, pollVars
<1>5. /\ HoldsEach(client, maxIndex, {listenFd} \cup AcceptedFds)'
      /\ FreeSlots' = FreeSlots
    BY <1>1, <1>2, <1>3, TableKept, Zenon DEF PollLoop, tableVars
<1>6. PollLoop'
    BY <1>1, <1>2, <1>4, <1>5 DEF PollLoop, tableVars, pollVars
<1>. QED  BY <1>1, <1>2, <1>4, <1>6 DEF PollInv, LoopStops, tableVars
-----------------------------------------------------------------------------
(* MultiProcessServer.                                                     *)

\* The parent accepts while it has no connection: it never runs out of descriptors.
LEMMA NewFdFirst ==
    ASSUME \A c \in Clients : fd[c] = -1
    PROVE  NewFd = listenFd + 1
<1> DEFINE Free == {f \in (listenFd + 1)..(listenFd + 1 + Cardinality(Clients)) :
                        \A c \in Clients : fd[c] # f}
<1>1. Cardinality(Clients) \in Nat /\ listenFd \in Nat
    BY FS_CardinalityType
<1>2. listenFd + 1 \in Free /\ \A f \in Free : f \in Nat /\ listenFd + 1 <= f
    BY <1>1
<1>3. NewFd = Min(Free)
    BY DEF NewFd
<1> HIDE DEF Free
<1>4. Min(Free) \in Free /\ Min(Free) <= listenFd + 1
    BY <1>2, MinFact
<1> DEFINE m == Min(Free)
<1>5. m \in Nat /\ listenFd + 1 <= m /\ m <= listenFd + 1
    BY <1>2, <1>4
<1> HIDE DEF m
<1>6. m = listenFd + 1
    BY <1>1, <1>5
<1>. QED  BY <1>3, <1>6 DEF m

\* The parent holds one connection at a time, and ends by SIGTERM only.
LEMMA ProcessServerInv ==
    ASSUME ServersIInv, IInv, server = "process", server' = server, ProcessStep
    PROVE  ServersIInv'
<1> USE DEF processVars, childVars, readVars
<1>1. SocketTypes /\ Connected /\ ParentInv /\ ProcessInv
    BY DEF ServersIInv, IInv
<1>2. ASSUME SocketTypes', Connected', fdLimit' = fdLimit, tableVars' = tableVars,
             pc' \in {"accept", "fork", "close", "terminated"}
      PROVE  ServersIInv'
    BY <1>2 DEF ServersIInv, ParentInv, tableVars
<1>3. ASSUME UNCHANGED <<socketVars, tableVars>>,
             pc' \in {pc, "close"}
      PROVE  ServersIInv'
    <2>1. SocketTypes' /\ Connected'
        BY <1>1, <1>3 DEF SocketTypes, Connected, Accepted, socketVars
    <2>. QED  BY <1>1, <1>2, <1>3, <2>1 DEF ParentInv, socketVars
<1>4. ASSUME NEW c \in Clients, ParentAccept(c) PROVE ServersIInv'
    <2>1. AcceptReturns(c, TRUE) /\ pc' = "fork" /\ tableVars' = tableVars /\ fdLimit' = fdLimit
        BY <1>4 DEF ParentAccept, AcceptReturns
    <2>2. SocketTypes' /\ Connected'
        BY <1>1, <2>1, AcceptFacts
    <2>. QED  BY <1>2, <2>1, <2>2
<1>5. ASSUME NEW S \in SUBSET Clients, UNCHANGED <<fdLimit, backlog, peer, tableVars>>,
             fd' = [c \in Clients |-> IF c \in S THEN -1 ELSE fd[c]],
             pc' \in {"accept", "terminated"}
      PROVE  ServersIInv'
    <2>1. SocketTypes'
        <3>1. fd' \in [Clients -> (listenFd + 1)..(fdLimit - 1) \cup {-1}]
            BY <1>1, <1>5 DEF SocketTypes
        <3>. QED  BY <1>1, <1>5, <3>1 DEF SocketTypes
    <2>2. Connected'
        BY <1>1, <1>5 DEF Connected, Accepted
    <2>. QED  BY <1>2, <1>5, <2>1, <2>2
<1>6. ASSUME NEW c \in Clients, ParentCloses(c) PROVE ServersIInv'
    <2>1. /\ fd' = [fd EXCEPT ![c] = -1] /\ pc' = "accept"
          /\ UNCHANGED <<fdLimit, backlog, peer, tableVars>>
        BY <1>6 DEF ParentCloses, CloseClient
    <2>2. fd' = [d \in Clients |-> IF d \in {c} THEN -1 ELSE fd[d]]
        BY <1>1, <2>1 DEF SocketTypes
    <2>. QED  BY <1>5, <2>1, <2>2
<1>7. CASE ParentTerminated
    <2>1. /\ fd' = [c \in Clients |-> -1] /\ pc' = "terminated"
          /\ UNCHANGED <<fdLimit, backlog, peer, tableVars>>
        BY <1>7 DEF ParentTerminated
    <2>2. fd' = [d \in Clients |-> IF d \in Clients THEN -1 ELSE fd[d]]
        BY <2>1
    <2>. QED  BY <1>5, <2>1, <2>2
<1>8. CASE ParentAcceptFails
    <2>1. pc = "accept" /\ backlog # <<>> /\ tableVars' = tableVars
        BY <1>8 DEF ParentAcceptFails, AcceptAborted, AcceptFails
    <2>2. NewFd = listenFd + 1
        <3>1. \A c \in Clients : fd[c] = -1
            BY <1>1, <2>1 DEF ProcessInv, Connections
        <3>. QED  BY <3>1, NewFdFirst
    <2>3. NewFd < fdLimit
        BY <1>1, <2>2, ServersAssumption DEF ParentInv
    <2>4. ~(NewFd >= fdLimit)
        <3>1. NewFd \in Nat /\ fdLimit \in Nat
            BY <1>1, <2>2 DEF SocketTypes
        <3>. QED  BY <2>3, <3>1
    <2>5. backlog' = Tail(backlog) /\ UNCHANGED <<pc, fdLimit, peer, fd>>
        BY <1>8, <2>4 DEF ParentAcceptFails, AcceptAborted, AcceptFails
    <2>6. SocketTypes' /\ Connected'
        BY <1>1, <2>1, <2>5, DropFacts
    <2>. QED  BY <1>2, <2>1, <2>5, <2>6
<1>9. ASSUME NEW c \in Clients, ParentForks(c) PROVE ServersIInv'
    BY <1>3, <1>9 DEF ParentForks
<1>10. CASE SigChld \/ ParentWaits
    BY <1>3, <1>10 DEF SigChld, ParentWaits
<1>11. ASSUME NEW c \in Clients,
              (\E n \in (1..MsgLen) \cup {-1} : ChildWrites(c, n)) \/ ChildWriteFails(c)
                  \/ ChildEnds(c) \/ ClientReadsEnd(c)
                  \/ (\E n \in (1..ReadLen) \cup {-1} : ClientReads(c, n))
       PROVE  ServersIInv'
    BY <1>3, <1>11 DEF ChildWrites, ChildWriteFails, ChildEnds, ClientReadsEnd, ClientReads
<1>12. CASE ParentStep
    BY <1>4, <1>6, <1>8, <1>9, <1>10, <1>12 DEF ParentStep
<1>. QED  BY <1>7, <1>11, <1>12 DEF ProcessStep, ChildStep, ReadStep, ChildExits, ChildSigPipe,
              ChildTerminated

-----------------------------------------------------------------------------
(* The theorems about all three.                                           *)

\* The servers start with an empty table and no connection.
LEMMA InitServers == Init => ServersIInv
<1> SUFFICES ASSUME Init PROVE ServersIInv
    OBVIOUS
<1> USE SelectAssumption, PollAssumption
<1>1. /\ fdLimit \in FdLimits /\ backlog = <<>> /\ maxIndex = 0 /\ nReady = 0
      /\ peer = [c \in Clients |-> "idle"] /\ fd = [c \in Clients |-> -1]
      /\ read_set = {listenFd} /\ maxFd = listenFd /\ rset = {} /\ visited = {}
    BY DEF Init, SocketsInit, SelectLocals
<1>2. SocketTypes
    BY <1>1 DEF SocketTypes, IsInjective
<1>3. Accepted = {} /\ AcceptedFds = {} /\ ToSet(backlog) = {}
    BY <1>1 DEF Accepted, AcceptedFds, ToSet
<1>4. Connected
    BY <1>1, <1>3 DEF Connected
<1>5. server = "select" => SelectInv
    <2> SUFFICES ASSUME server = "select" PROVE SelectInv
        OBVIOUS
    <2>1. pc = "wait" /\ client = [i \in 0..(FD_SETSIZE - 1) |-> -1]
        BY DEF Init, SelectStarts
    <2>2. HoldsEach(client, maxIndex, AcceptedFds)
        BY <1>3, <2>1 DEF HoldsEach
    <2>3. SelectLoop
        BY <1>1, <1>3, <2>1, <2>2, SocketsAssumption DEF SelectLoop
    <2>. QED  BY <2>1, <2>3 DEF SelectInv, LoopStops
<1>6. server = "poll" => PollInv
    <2> SUFFICES ASSUME server = "poll" PROVE PollInv
        OBVIOUS
    <2>1. /\ pc = "wait" /\ revents \in [0..(OPEN_MAX - 1) -> BOOLEAN]
          /\ client = [i \in 0..(OPEN_MAX - 1) |-> IF i = 0 THEN listenFd ELSE -1]
        BY DEF Init, PollStarts
    <2>2. HoldsEach(client, maxIndex, {listenFd} \cup AcceptedFds) /\ client[0] = listenFd
        BY <1>1, <1>3, <2>1, SocketsAssumption, SMTT(20) DEF HoldsEach
    <2>3. PollLoop
        BY <1>1, <2>1, <2>2, SocketsAssumption DEF PollLoop
    <2>. QED  BY <2>1, <2>3 DEF PollInv, LoopStops
<1>7. server = "process" => ParentInv
    BY DEF Init, ParentInv, ProcessStarts
<1>8. server \in ServerName
    BY DEF Init, ServerName
<1>. QED  BY <1>1, <1>2, <1>4, <1>5, <1>6, <1>7, <1>8 DEF ServersIInv

\* Every step of a server and of its clients keeps the invariant.
LEMMA NextServers ==
    ASSUME ServersIInv, IInv, [Next]_vars
    PROVE  ServersIInv'
<1>1. server' = server
    <2>1. CASE Next
        BY <2>1 DEF Next, ServerStep, ClientStep, Select, Poll, Process
    <2>. QED  BY <2>1 DEF vars
<1>2. CASE ClientStep
    BY <1>2, ClientStepServers
<1>3. CASE Select(SelectStep)
    <2>1. server = "select" /\ SelectInv /\ SelectStep /\ pollVars' = pollVars
        BY <1>3 DEF Select, ServersIInv
    <2>2. CASE SelectWait \/ SelectScan \/ \E c \in Clients : SelectAccept(c)
        <3>1. /\ SelectInv' /\ SocketTypes' /\ Connected' /\ maxIndex' \in Nat /\ nReady' \in Int
            BY <2>1, <2>2, SelectWaitInv, SelectScanInv, SelectAcceptInv
        <3>. QED  BY <1>1, <2>1, <3>1 DEF ServersIInv
    <2>3. CASE (AcceptAborted \/ AcceptFails) /\ UNCHANGED <<tableVars, selectVars>>
        <3>1. ServersIInv' \/ (SocketTypes' /\ Connected' /\ pc' = "exit" /\ NewFd' >= fdLimit')
            BY <1>1, <2>1, <2>3, AcceptFailsInv
        <3>2. SocketTypes' /\ Connected' /\ pc' = "exit" /\ NewFd' >= fdLimit' => ServersIInv'
            BY <1>1, <2>1, <2>3 DEF ServersIInv, SelectInv, LoopStops, tableVars
        <3>. QED  BY <3>1, <3>2
    <2>. QED  BY <2>1, <2>2, <2>3 DEF SelectStep
<1>4. CASE Poll(PollStep) \/ Poll(PollInterrupted)
    <2>1. /\ server = "poll" /\ PollInv /\ (PollStep \/ PollInterrupted)
          /\ selectVars' = selectVars
        BY <1>4 DEF Poll, ServersIInv
    <2>2. CASE PollWait \/ PollInterrupted \/ PollScan \/ \E c \in Clients : PollAccept(c)
        <3>1. /\ PollInv' /\ SocketTypes' /\ Connected' /\ maxIndex' \in Nat /\ nReady' \in Int
            BY <2>1, <2>2, PollWaitInv, PollScanInv, PollAcceptInv
        <3>. QED  BY <1>1, <2>1, <3>1 DEF ServersIInv
    <2>3. CASE (AcceptAborted \/ AcceptFails) /\ UNCHANGED <<tableVars, pollVars>>
        <3>1. ServersIInv' \/ (SocketTypes' /\ Connected' /\ pc' = "exit" /\ NewFd' >= fdLimit')
            BY <1>1, <2>1, <2>3, AcceptFailsInv
        <3>2. SocketTypes' /\ Connected' /\ pc' = "exit" /\ NewFd' >= fdLimit' => ServersIInv'
            BY <1>1, <2>1, <2>3 DEF ServersIInv, PollInv, LoopStops, tableVars
        <3>. QED  BY <3>1, <3>2
    <2>. QED  BY <2>1, <2>2, <2>3 DEF PollStep
<1>5. CASE Process(ParentStep) \/ Process(ProcessStep)
    <2>1. server = "process" /\ ProcessStep
        BY <1>5 DEF Process, ProcessStep
    <2>. QED  BY <1>1, <2>1, ProcessServerInv
<1>6. CASE UNCHANGED vars
    <2>1. SocketTypes' /\ Connected'
        BY <1>6 DEF ServersIInv, SocketTypes, Connected, Accepted, vars, socketVars
    <2>2. /\ UNCHANGED <<server, pc, fdLimit, fd, tableVars, selectVars, pollVars>>
          /\ peer' = peer
        BY <1>6 DEF vars, socketVars
    <2>. QED  BY <2>1, <2>2, LoopsKept
<1>. QED  BY <1>2, <1>3, <1>4, <1>5, <1>6 DEF Next, ServerStep

\* The inductive invariant of the tables.
LEMMA SpecServers == Spec => []ServersIInv
<1>1. IInv /\ [Next]_vars => IInv'
    BY NextInv
<1>2. ServersIInv /\ IInv /\ [Next]_vars => ServersIInv'
    BY NextServers
<1>. QED  BY <1>1, <1>2, InitInv, InitServers, PTL DEF Spec

\* The tables of SelectServer and PollServer always tell of the clients that were
\* accepted, SelectServer's never fills, and no pass of it skips a ready client.
THEOREM TablesStayConsistent == Spec => []ServersInv
<1>1. ServersIInv => ServersInv
    <2> SUFFICES ASSUME ServersIInv PROVE ServersInv
        OBVIOUS
    <2>1. SocketTypes /\ Connected
        BY DEF ServersIInv
    <2>2. SocketsTypeOK /\ server \in ServerName
        BY DEF ServersIInv, SocketTypes, SocketsTypeOK
    <2>3. {fd[c] : c \in Accepted} = AcceptedFds
        BY DEF AcceptedFds
    <2>4. SelectConsistent
        <3> SUFFICES ASSUME server = "select", Running
                     PROVE  /\ TableHolds(AcceptedFds)
                            /\ read_set = {listenFd} \cup AcceptedFds
                            /\ maxFd = Max(read_set)
                            /\ FreeSlots # {}
            BY <2>3, Zenon DEF SelectConsistent
        <3>1. SelectLoop
            BY DEF ServersIInv, SelectInv, LoopStops, Running
        <3>2. \A f \in AcceptedFds : f \in Nat /\ f > listenFd /\ f < FD_SETSIZE
            BY <2>1, <3>1, FdFacts DEF SelectLoop
        <3>3. TableHolds(AcceptedFds)
            BY <3>1, TableCounts DEF SelectLoop
        <3>4. maxFd = Max(read_set)
            <4>1. read_set \in SUBSET Int
                BY <3>1, <3>2 DEF SelectLoop
            <4>. QED  BY <3>1, <4>1, MaxFact DEF SelectLoop
        <3>5. FreeSlots # {}
            <4>1. AcceptedFds \in SUBSET ((listenFd + 1)..(FD_SETSIZE - 1))
                BY <3>2, SelectAssumption
            <4>. QED  BY <3>1, <4>1, TableHasRoom, SelectAssumption DEF SelectLoop
        <3>. QED  BY <3>1, <3>3, <3>4, <3>5 DEF SelectLoop
    <2>5. PollConsistent
        <3> SUFFICES ASSUME server = "poll", Running
                     PROVE  /\ TableHolds({listenFd} \cup AcceptedFds)
                            /\ maxIndex <= OPEN_MAX
                            /\ maxIndex = OPEN_MAX => FreeSlots = {}
            BY <2>3, Zenon DEF PollConsistent
        <3>1. PollLoop
            BY DEF ServersIInv, PollInv, LoopStops, Running
        <3>2. TableHolds({listenFd} \cup AcceptedFds)
            BY <3>1, TableCounts DEF PollLoop
        <3>. QED  BY <3>1, <3>2 DEF PollLoop
    <2>6. PassComplete
        BY DEF PassComplete, ServersIInv, SelectInv, LoopStops, SelectLoop
    <2>. QED  BY <2>2, <2>4, <2>5, <2>6 DEF ServersInv
<1>. QED  BY <1>1, SpecServers, PTL

\* A server ends for one of the reasons the code has: it runs out of descriptors, one
\* does not fit an fd_set or the table of PollServer, PollServer met a readable client
\* or an interrupted poll; MultiProcessServer ends by SIGTERM only.
THEOREM ServersEndForCause == Spec => []EndsForCause
<1>1. ServersIInv => EndsForCause
    <2> SUFFICES ASSUME ServersIInv PROVE EndsForCause
        OBVIOUS
    <2>1. /\ SocketTypes /\ Connected /\ server \in ServerName
          /\ server = "select" => SelectInv
          /\ server = "poll" => PollInv
          /\ server = "process" => ParentInv
        BY DEF ServersIInv
    <2>2. Cause => interrupted \/ \E c \in Accepted : FdReady(fd[c])
        BY <2>1, FdFacts DEF Cause
    <2>3. (\E f \in AcceptedFds : f >= FD_SETSIZE) => \E c \in Accepted : fd[c] >= FD_SETSIZE
        BY DEF AcceptedFds
    <2>. QED  BY <2>1, <2>2, <2>3 DEF EndsForCause, ServerName, SelectInv, PollInv, ParentInv,
              LoopStops
<1>. QED  BY <1>1, SpecServers, PTL
============================================================================

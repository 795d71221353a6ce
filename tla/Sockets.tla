------------------------------ MODULE Sockets ------------------------------
(***************************************************************************)
(* What the servers of sock_comm.cpp and main.cpp share: a listening       *)
(* socket, the clients that connect to it, the descriptors of the process, *)
(* and the wrapper Accept, in which each of them waits.                    *)
(*                                                                         *)
(* A server is one of SelectServer, PollServer and MultiProcessServer;     *)
(* pc is where its thread is.  Each step ends before the next system call  *)
(* whose result depends on the outside.                                    *)
(***************************************************************************)
EXTENDS Integers, Sequences, SequencesExt, FiniteSetsExt

CONSTANTS
    Clients,        \* the clients
    listenFd,       \* the descriptor of the listening socket, the highest in use
    ListenBacklog,  \* completed connections the listening socket holds
    FdLimits        \* limits of descriptors the process may be started with

ASSUME SocketsAssumption ==
    /\ IsFiniteSet(Clients)
    /\ listenFd \in Nat /\ ListenBacklog \in Nat \ {0}
    /\ FdLimits \subseteq {n \in Nat : n > listenFd}

VARIABLES
    pc,         \* where the server's thread is
    fdLimit,    \* the limit of descriptors of this process
    backlog,    \* connections completed and not accepted, oldest first
    peer,       \* a client: "idle", "open", "spoke" (sent data or a FIN that nobody
                \* has read) or "gone" (aborted)
    fd,         \* the server's descriptor of each connection, or -1
    client,     \* locals of SelectServer and PollServer: the table of descriptors,
    maxIndex,   \* the highest of its entries ever used,
    nReady      \* and what is left of the result of select or poll

socketVars == <<fdLimit, backlog, peer, fd>>
tableVars == <<client, maxIndex, nReady>>

SocketsTypeOK ==
    /\ fdLimit \in FdLimits
    /\ backlog \in Seq(Clients) /\ IsInjective(backlog)
    /\ peer \in [Clients -> {"idle", "open", "spoke", "gone"}]
    /\ fd \in [Clients -> (listenFd + 1)..(fdLimit - 1) \cup {-1}]
    /\ maxIndex \in Nat /\ nReady \in Int

\* Socket, Bind and Listen have succeeded: each exits when it fails.
SocketsInit ==
    /\ fdLimit \in FdLimits
    /\ backlog = <<>>
    /\ peer = [c \in Clients |-> "idle"] /\ fd = [c \in Clients |-> -1]
    /\ maxIndex = 0 /\ nReady = 0

\* Not ended: by exit(-1), by the handler of SIGTERM, or in undefined behaviour.
Running == pc \notin {"exit", "terminated", "undefined"}
Accepted == {c \in Clients : fd[c] # -1}

-----------------------------------------------------------------------------
(* The clients.                                                            *)

Connect(c) ==
    /\ peer[c] = "idle" /\ Len(backlog) < ListenBacklog
    /\ peer' = [peer EXCEPT ![c] = "open"]
    /\ backlog' = Append(backlog, c)
    /\ UNCHANGED <<fdLimit, fd>>

Speak(c) ==
    /\ peer[c] = "open"
    /\ peer' = [peer EXCEPT ![c] = "spoke"]
    /\ UNCHANGED <<fdLimit, backlog, fd>>

Abort(c) ==
    /\ peer[c] \in {"open", "spoke"}
    /\ peer' = [peer EXCEPT ![c] = "gone"]
    /\ UNCHANGED <<fdLimit, backlog, fd>>

\* What select and poll say of a descriptor; nobody reads, so it stays ready.
FdReady(f) ==
    IF f = listenFd THEN backlog # <<>>
    ELSE \E c \in Clients : fd[c] = f /\ peer[c] \in {"spoke", "gone"}

-----------------------------------------------------------------------------
(* Accept.  The listening socket blocks: with nothing to accept the thread *)
(* stays here.  EINTR is retried, which changes nothing.                   *)

\* The descriptor accept() would return: the lowest free one.
NewFd == Min({f \in (listenFd + 1)..(listenFd + 1 + Cardinality(Clients)) :
                 \A c \in Clients : fd[c] # f})

\* ECONNABORTED: Close(-1) does nothing, and accept() is called again.  Some systems
\* report an aborted connection so, others hand it out.
AcceptAborted ==
    /\ pc = "accept" /\ backlog # <<>> /\ peer[Head(backlog)] = "gone"
    /\ backlog' = Tail(backlog)
    /\ UNCHANGED <<pc, fdLimit, peer, fd>>

\* Any other error, here that no descriptor is left, ends the process.
AcceptFails ==
    /\ pc = "accept" /\ backlog # <<>> /\ NewFd >= fdLimit
    /\ pc' = "exit"
    /\ UNCHANGED socketVars

\* accept() returns the connection of c, which the server keeps or closes at once.
AcceptReturns(c, keep) ==
    /\ pc = "accept" /\ backlog # <<>> /\ c = Head(backlog) /\ NewFd < fdLimit
    /\ backlog' = Tail(backlog)
    /\ fd' = IF keep THEN [fd EXCEPT ![c] = NewFd] ELSE fd
    /\ UNCHANGED <<fdLimit, peer>>

-----------------------------------------------------------------------------
(* The table of SelectServer and PollServer.                               *)

FreeSlots == {i \in DOMAIN client : client[i] < 0}
Slot == Min(FreeSlots)

\* maxIndex once entry i has been used.
MaxIndexWith_unchanged(i) == maxIndex
MaxIndexWith(i) == IF i > maxIndex THEN i ELSE maxIndex

\* fds are in the table, each once, and behind maxIndex all entries are free.
TableHolds(fds) ==
    /\ \A f \in fds : Cardinality({i \in DOMAIN client : client[i] = f}) = 1
    /\ \A i \in DOMAIN client : client[i] # -1 => client[i] \in fds /\ i <= maxIndex
============================================================================

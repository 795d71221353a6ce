----------------------------- MODULE SockServers -----------------------------
(* The three servers that wait on plain sockets, one of which the program   *)
(* runs, against clients.                                                   *)
EXTENDS SelectServer, PollServer, ProcessServer

CONSTANT ProcessClients  \* bound: the clients that connect to MultiProcessServer

\* The parent may have a connection besides the listening socket.
ASSUME ServersAssumption == Max(FdLimits) > listenFd + 1

VARIABLE server          \* the one that runs

ServerName == {"select", "poll", "process"}

vars == <<server, pc, socketVars, tableVars, selectVars, pollVars, processVars>>

\* The variables of the other two servers keep their initial values.
Init ==
    /\ SocketsInit /\ SelectLocals /\ ProcessLocals /\ interrupted = FALSE
    /\ \/ server = "select" /\ SelectStarts /\ revents = <<>>
       \/ server = "poll" /\ PollStarts
       \/ /\ server = "process" /\ ProcessStarts /\ revents = <<>>
          /\ fdLimit = Max(FdLimits)  \* bound: none but a leak could reach it

\* To a server that never reads a socket, an accepted connection that is aborted is one
\* with data.
ClientStep ==
    /\ Running
    /\ \E c \in Clients :
          \/ (server = "process" => c \in ProcessClients) /\ Connect(c)
          \/ server # "process" /\ Speak(c)
          \/ (server = "process" \/ c \in ToSet(backlog)) /\ Abort(c)
    /\ UNCHANGED <<server, pc, tableVars, selectVars, pollVars, processVars>>

Select(A) == server = "select" /\ A /\ UNCHANGED <<server, pollVars, processVars>>
Poll(A) == server = "poll" /\ A /\ UNCHANGED <<server, selectVars, processVars>>
Process(A) == server = "process" /\ A /\ UNCHANGED <<server, selectVars, pollVars>>

ServerStep == Select(SelectStep) \/ Poll(PollStep) \/ Process(ParentStep)

Next == ServerStep \/ ClientStep \/ Poll(PollInterrupted) \/ Process(ProcessStep)

\* The system runs the thread of each process; ReadN is called by each client, and
\* that one of its calls or of WriteN's is interrupted again and again is left out.
Spec ==
    /\ Init /\ [][Next]_vars
    /\ WF_vars(ServerStep)
    /\ \A c \in Clients : WF_vars(Process(ChildStep(c))) /\ WF_vars(Process(ReadStep(c)))

-----------------------------------------------------------------------------
(* Properties.                                                              *)

\* The table, read_set, maxFd and maxIndex of SelectServer tell of the same clients,
\* and the table never fills: every client needs a descriptor too, and the lowest
\* ones are not for clients.
SelectConsistent ==
    server = "select" /\ Running =>
        /\ TableHolds({fd[c] : c \in Accepted})
        /\ read_set = {listenFd} \cup {fd[c] : c \in Accepted}
        /\ maxFd = Max(read_set)
        /\ FreeSlots # {}

\* So do the table and maxIndex of PollServer, until one client is turned away.
PollConsistent ==
    server = "poll" /\ Running =>
        /\ TableHolds({listenFd} \cup {fd[c] : c \in Accepted})
        /\ maxIndex <= OPEN_MAX
        /\ maxIndex = OPEN_MAX => FreeSlots = {}

\* nReady does not end a pass of SelectServer before every ready client was met.
PassComplete ==
    server = "select" /\ pc = "wait" => rset \ {listenFd} \subseteq visited /\ nReady = 0

\* Type correctness and the three conditions above.
ServersInv ==
    /\ SocketsTypeOK /\ server \in ServerName
    /\ SelectConsistent /\ PollConsistent /\ PassComplete

\* What ends a server.  SelectServer: no descriptor left, or one an fd_set has no bit
\* for.  PollServer: no descriptor left, one readable client, an interrupted poll, or one
\* client too many.  MultiProcessServer: SIGTERM.
EndsForCause ==
    /\ pc = "exit" => /\ server # "process"
                      /\ \/ NewFd >= fdLimit
                         \/ /\ server = "poll"
                            /\ interrupted \/ \E c \in Accepted : FdReady(fd[c])
    /\ pc = "undefined" => \/ server = "select" /\ \E c \in Accepted : fd[c] >= FD_SETSIZE
                           \/ server = "poll" /\ maxIndex = OPEN_MAX

\* WriteN and ReadN lose, repeat and reorder nothing, and their counts are right,
\* through partial and interrupted calls.  A client that stays gets the whole reply of
\* a child that ends by itself, and without a child it gets nothing.
ReplyDelivered ==
    server = "process" =>
        \A c \in Clients :
            /\ IsPrefix(got[c], Reply)
            /\ nWanted[c] = ReadLen - Len(got[c])
            /\ peer[c] = "open" =>
                   /\ IsPrefix(got[c] \o wire[c], Reply)
                   /\ Len(got[c] \o wire[c]) = call[c] * MsgLen - nLeft[c]
                   /\ returned[c] /\ call[c] = 3 => got[c] = Reply
            /\ child[c] = "none" => got[c] = <<>>

\* SelectServer comes to every client that is readable, also one that waits for
\* Accept, and PollServer ends, unless Accept blocks after an aborted connection.
ReadyNoticed ==
    [](server # "process" /\ pc = "accept" => backlog # <<>>) =>
        \A c \in Clients :
            (server # "process" /\ peer[c] = "spoke")
                ~> (fd[c] \in visited \/ peer[c] = "gone" \/ ~Running)

\* ReadN of every client returns, whatever happens to the processes, unless the parent
\* ends before it accepts: no process keeps a connection that is not its own.
ReadNReturns ==
    \A c \in ProcessClients :
        (server = "process" /\ peer[c] = "open")
            ~> (peer[c] = "gone" \/ returned[c] \/ (c \in ToSet(backlog) /\ ~Running))

\* SIGCHLD does not queue, but no child stays a zombie while the parent lives.
ZombiesReaped ==
    \A c \in ProcessClients :
        (server = "process" /\ child[c] = "zombie") ~> (child[c] = "reaped" \/ ~Running)
============================================================================

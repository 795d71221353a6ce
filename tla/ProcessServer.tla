--------------------------- MODULE ProcessServer ---------------------------
(***************************************************************************)
(* MultiProcessServer of main.cpp, with WriteN, and the handlers of        *)
(* SIGCHLD, SIGTERM and SIGPIPE of sock_comm.cpp: the parent accepts and   *)
(* forks, and each child writes its client the same message twice.  The    *)
(* clients read with ReadN, whose counterpart WriteN is.                   *)
(***************************************************************************)
EXTENDS Sockets

CONSTANTS
    MsgLen,         \* length of the message, in units
    PartialClients  \* bound: clients whose read and write transfer a part of what is
                    \* asked for; those of the others transfer all there is

ASSUME ProcessAssumption == MsgLen \in Nat \ {0}

VARIABLES
    clientFd,   \* the parent's local
    child,      \* the process forked for a client: "none", "running", "zombie", "reaped"
    holds,      \* the connections of which a child has a descriptor
    call,       \* the call of WriteN a child is in, 1 or 2, or 3: it exits
    nLeft,      \* nLeft of that call
    wire,       \* what was written to a connection and not read yet
    got,        \* what a client has read
    nWanted,    \* nLeft of its ReadN
    returned,   \* whether its ReadN has returned
    sigchld,    \* SIGCHLD is pending in the parent
    reaping     \* the parent runs the handler of SIGCHLD

childVars == <<child, holds, call, nLeft>>
readVars == <<got, nWanted, returned>>
processVars == <<clientFd, childVars, wire, readVars, sigchld, reaping>>

Msg == [i \in 1..MsgLen |-> i]
Reply == Msg \o Msg
ReadLen == Len(Reply) + 1   \* a client reads until the end

ProcessLocals ==
    /\ clientFd = -1
    /\ child = [c \in Clients |-> "none"] /\ holds = [c \in Clients |-> {}]
    /\ call = [c \in Clients |-> 1] /\ nLeft = [c \in Clients |-> MsgLen]
    /\ wire = [c \in Clients |-> <<>>]
    /\ got = [c \in Clients |-> <<>>]
    /\ nWanted = [c \in Clients |-> ReadLen]
    /\ returned = [c \in Clients |-> FALSE]
    /\ sigchld = FALSE /\ reaping = FALSE

ProcessStarts == pc = "accept" /\ client = <<>>

-----------------------------------------------------------------------------
(* The parent.  Its thread stands still while the handler runs.             *)

ParentAccept(c) ==
    /\ ~reaping
    /\ AcceptReturns(c, TRUE)
    /\ clientFd' = NewFd
    /\ pc' = "fork"
    /\ UNCHANGED <<tableVars, childVars, wire, readVars, sigchld, reaping>>

\* The child has a descriptor of every connection the parent has one of.
Fork(c) ==
    /\ child' = [child EXCEPT ![c] = "running"]
    /\ holds' = [holds EXCEPT ![c] = Accepted]

\* The -1 of a fork that fails is taken for the parent's side of one that succeeded.
ParentForks(c) ==
    /\ pc = "fork" /\ ~reaping /\ fd[c] = clientFd
    /\ Fork(c) \/ UNCHANGED <<child, holds>>
    /\ pc' = "close"
    /\ UNCHANGED <<socketVars, tableVars, clientFd, call, nLeft, wire, readVars, sigchld, reaping>>

CloseClient_not(c) == UNCHANGED fd
CloseClient(c) == fd' = [fd EXCEPT ![c] = -1]

ParentCloses(c) ==
    /\ pc = "close" /\ ~reaping /\ fd[c] = clientFd
    /\ CloseClient(c)
    /\ pc' = "accept"
    /\ UNCHANGED <<fdLimit, backlog, peer, tableVars, processVars>>

ParentAcceptFails ==
    /\ ~reaping
    /\ AcceptAborted \/ AcceptFails
    /\ UNCHANGED <<tableVars, processVars>>

\* Default_Sig_Term, also within the handler of SIGCHLD.
ParentTerminated ==
    /\ Running
    /\ pc' = "terminated"
    /\ fd' = [c \in Clients |-> -1]
    /\ UNCHANGED <<fdLimit, backlog, peer, tableVars, processVars>>

\* SIGCHLD is delivered; its handler blocks it until it returns.
SigChld ==
    /\ Running /\ sigchld /\ ~reaping
    /\ sigchld' = FALSE /\ reaping' = TRUE
    /\ UNCHANGED <<socketVars, pc, tableVars, clientFd, childVars, wire, readVars>>

\* A round of the loop of Default_Sig_Chld: waitpid until no zombie is left.
Zombies == {c \in Clients : child[c] = "zombie"}
Waitpid_once ==
    /\ \/ Zombies = {} /\ UNCHANGED child
       \/ \E c \in Zombies : child' = [child EXCEPT ![c] = "reaped"]
    /\ reaping' = FALSE
Waitpid ==
    \/ Zombies = {} /\ reaping' = FALSE /\ UNCHANGED child
    \/ \E c \in Zombies : child' = [child EXCEPT ![c] = "reaped"] /\ UNCHANGED reaping

ParentWaits ==
    /\ Running /\ reaping
    /\ Waitpid
    /\ UNCHANGED <<socketVars, pc, tableVars, clientFd, holds, call, nLeft, wire, readVars, sigchld>>

-----------------------------------------------------------------------------
(* The children.                                                            *)

\* What ReadN and WriteN count for a call that returned n: for EINTR nothing.
Counted_as_returned(n) == n
Counted(n) == IF n < 0 THEN 0 ELSE n

\* What a call that returned n has moved.
Moved(n) == IF n < 0 THEN 0 ELSE n

Whole(c, n, all) == c \notin PartialClients => n \in {-1, all}

\* write() of some of the nLeft units that follow ptr, or EINTR (n = -1).
ChildWrites(c, n) ==
    /\ child[c] = "running" /\ call[c] < 3
    /\ n <= nLeft[c] /\ Whole(c, n, nLeft[c])
    /\ LET ptr == MsgLen - nLeft[c]
           left == nLeft[c] - Counted(n)
       IN  /\ wire' = IF peer[c] = "gone" THEN wire
                      ELSE [wire EXCEPT ![c] = @ \o SubSeq(Msg, ptr + 1, ptr + Moved(n))]
           /\ nLeft' = [nLeft EXCEPT ![c] = IF left = 0 THEN MsgLen ELSE left]
           /\ call' = [call EXCEPT ![c] = IF left = 0 THEN @ + 1 ELSE @]
    /\ UNCHANGED <<socketVars, pc, tableVars, clientFd, child, holds, readVars, sigchld, reaping>>

\* write() fails since the client is gone; that WriteN returns -1 is not looked at.
ChildWriteFails(c) ==
    /\ child[c] = "running" /\ call[c] < 3 /\ peer[c] = "gone"
    /\ call' = [call EXCEPT ![c] = @ + 1]
    /\ nLeft' = [nLeft EXCEPT ![c] = MsgLen]
    /\ UNCHANGED <<socketVars, pc, tableVars, clientFd, child, holds, wire, readVars, sigchld, reaping>>

ChildEnds(c) ==
    /\ child[c] = "running"
    /\ child' = [child EXCEPT ![c] = "zombie"]
    /\ holds' = [holds EXCEPT ![c] = {}]
    /\ sigchld' = TRUE
    /\ UNCHANGED <<socketVars, pc, tableVars, clientFd, call, nLeft, wire, readVars, reaping>>

ChildExits(c) == call[c] = 3 /\ ChildEnds(c)

\* Default_Sig_Pipe ends a child whose client is gone, Default_Sig_Term any.
ChildSigPipe(c) == call[c] < 3 /\ peer[c] = "gone" /\ ChildEnds(c)
ChildTerminated(c) == ChildEnds(c)

-----------------------------------------------------------------------------
(* ReadN of a client.                                                       *)

Reading(c) == peer[c] = "open" /\ c \notin ToSet(backlog) /\ ~returned[c]

\* Somebody has a descriptor of the connection, so that it has not ended.
Open(c) == fd[c] # -1 \/ \E d \in Clients : c \in holds[d]

\* read() of some of what is there, or EINTR (n = -1).
ClientReads(c, n) ==
    /\ Reading(c)
    /\ n <= Len(wire[c]) /\ n <= nWanted[c] /\ Whole(c, n, Len(wire[c]))
    /\ got' = [got EXCEPT ![c] = @ \o SubSeq(wire[c], 1, Moved(n))]
    /\ wire' = [wire EXCEPT ![c] = SubSeq(@, Moved(n) + 1, Len(@))]
    /\ nWanted' = [nWanted EXCEPT ![c] = @ - Counted(n)]
    /\ returned' = [returned EXCEPT ![c] = nWanted'[c] = 0]
    /\ UNCHANGED <<socketVars, pc, tableVars, clientFd, childVars, sigchld, reaping>>

\* The end of the connection.
ClientReadsEnd(c) ==
    /\ Reading(c) /\ wire[c] = <<>> /\ ~Open(c)
    /\ returned' = [returned EXCEPT ![c] = TRUE]
    /\ UNCHANGED <<socketVars, pc, tableVars, clientFd, childVars, wire, got, nWanted, sigchld, reaping>>

-----------------------------------------------------------------------------
ParentStep ==
    \/ \E c \in Clients : ParentAccept(c) \/ ParentForks(c) \/ ParentCloses(c)
    \/ ParentAcceptFails \/ SigChld \/ ParentWaits

ChildStep(c) == (\E n \in 1..MsgLen : ChildWrites(c, n)) \/ ChildExits(c)
ReadStep(c) == (\E n \in 1..ReadLen : ClientReads(c, n)) \/ ClientReadsEnd(c)

ProcessStep ==
    \/ ParentStep \/ ParentTerminated
    \/ \E c \in Clients : \/ ChildStep(c) \/ ReadStep(c)
                          \/ ChildWrites(c, -1) \/ ClientReads(c, -1)
                          \/ ChildWriteFails(c) \/ ChildSigPipe(c) \/ ChildTerminated(c)
============================================================================

---------------------------- MODULE SelectServer ----------------------------
(* SelectServer of sock_comm.cpp.  Where it would read a client it only has *)
(* a comment: which clients it comes to in a pass is recorded.              *)
EXTENDS Sockets

CONSTANT FD_SETSIZE     \* entries of the table, and bits of an fd_set

ASSUME SelectAssumption == FD_SETSIZE \in Nat \ {0}

VARIABLES
    read_set,   \* the descriptors select is asked for
    maxFd,      \* the highest of them
    rset,       \* the ready ones
    visited     \* history: the clients' descriptors this pass has come to

selectVars == <<read_set, maxFd, rset, visited>>

SelectLocals ==
    /\ read_set = {listenFd} /\ maxFd = listenFd
    /\ rset = {} /\ visited = {}

SelectStarts == pc = "wait" /\ client = [i \in 0..(FD_SETSIZE - 1) |-> -1]

\* select(maxFd + 1, ...); without a time limit it returns 0 never, and EINTR is retried.
Watched == {f \in read_set : f <= maxFd}

SelectWait ==
    /\ pc = "wait"
    /\ rset' = {f \in Watched : FdReady(f)} /\ rset' # {}
    /\ nReady' = Cardinality(rset')
    /\ visited' = {}
    /\ pc' = IF listenFd \in rset' THEN "accept" ELSE "scan"
    /\ UNCHANGED <<socketVars, client, maxIndex, read_set, maxFd>>

MaxFdWith_unchanged(f) == maxFd
MaxFdWith(f) == IF maxFd < f THEN f ELSE maxFd

\* FD_SET and --nReady; a descriptor that does not fit an fd_set is written behind it.
Register ==
    IF NewFd >= FD_SETSIZE
    THEN /\ pc' = "undefined"
         /\ UNCHANGED <<maxIndex, nReady, selectVars>>
    ELSE /\ read_set' = read_set \cup {NewFd}
         /\ maxFd' = MaxFdWith(NewFd)
         /\ maxIndex' = MaxIndexWith(Slot)
         /\ nReady' = nReady - 1
         /\ pc' = IF nReady' = 0 THEN "wait" ELSE "scan"
         /\ UNCHANGED <<rset, visited>>

SelectAccept(c) ==
    IF FreeSlots = {}
    THEN /\ AcceptReturns(c, FALSE)
         /\ pc' = "wait"
         /\ UNCHANGED <<tableVars, selectVars>>
    ELSE /\ AcceptReturns(c, TRUE)
         /\ client' = [client EXCEPT ![Slot] = NewFd]
         /\ Register

\* The pass over the table goes on until nReady clients have been met.
SelectScan ==
    /\ pc = "scan"
    /\ LET due == {i \in 0..maxIndex : client[i] \in rset}
           met == {i \in due : Cardinality({j \in due : j < i}) < nReady}
       IN  /\ visited' = {client[i] : i \in met}
           /\ nReady' = nReady - Cardinality(met)
    /\ pc' = "wait"
    /\ UNCHANGED <<socketVars, client, maxIndex, read_set, maxFd, rset>>

SelectStep ==
    \/ SelectWait \/ SelectScan
    \/ \E c \in Clients : SelectAccept(c)
    \/ (AcceptAborted \/ AcceptFails) /\ UNCHANGED <<tableVars, selectVars>>
============================================================================

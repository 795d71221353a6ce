----------------------------- MODULE PollServer -----------------------------
(* PollServer of sock_comm.cpp.  Where it would read a client it sets        *)
(* nReadBytes to -1 and asks for errno, which is not ECONNRESET: nothing in  *)
(* the process has failed to read a socket.                                  *)
EXTENDS Sockets

CONSTANT OPEN_MAX       \* entries of the table

ASSUME PollAssumption == OPEN_MAX \in Nat \ {0}

VARIABLES
    revents,     \* whether an entry's revents has POLLRDNORM or POLLERR
    interrupted  \* history: a signal has interrupted poll

pollVars == <<revents, interrupted>>

\* Only fd and events of the entries are set: revents is what the stack held.
PollStarts ==
    /\ pc = "wait"
    /\ client = [i \in 0..(OPEN_MAX - 1) |-> IF i = 0 THEN listenFd ELSE -1]
    /\ revents \in [0..(OPEN_MAX - 1) -> BOOLEAN]

\* The result of poll is not tested.
AfterPoll(result, result_revents) ==
    /\ nReady' = result
    /\ revents' = result_revents
    /\ pc' = IF result_revents[0] THEN "accept" ELSE "scan"

\* poll(client, maxIndex + 1, INFTIM) writes revents of the entries it is given, one
\* of them not in the table when maxIndex is OPEN_MAX.
PollWait ==
    /\ pc = "wait"
    /\ IF maxIndex = OPEN_MAX
       THEN pc' = "undefined" /\ UNCHANGED <<nReady, revents>>
       ELSE LET ready == {i \in 0..maxIndex : client[i] >= 0 /\ FdReady(client[i])}
            IN  /\ ready # {}
                /\ AfterPoll(Cardinality(ready),
                             [i \in DOMAIN revents |->
                                 IF i <= maxIndex THEN i \in ready ELSE revents[i]])
    /\ UNCHANGED <<socketVars, client, maxIndex, interrupted>>

\* poll returns -1, having cleared revents or left it alone.  Bound: once.
PollInterrupted ==
    /\ pc = "wait" /\ maxIndex < OPEN_MAX /\ ~interrupted
    /\ interrupted' = TRUE
    /\ \/ AfterPoll(-1, revents)
       \/ AfterPoll(-1, [i \in DOMAIN revents |-> i > maxIndex /\ revents[i]])
    /\ UNCHANGED <<socketVars, client, maxIndex>>

\* A client more than the table holds is turned away, but maxIndex is raised.
NextAfterAccept_always_scan == "scan"
NextAfterAccept == IF nReady - 1 = 0 THEN "wait" ELSE "scan"

PollAccept(c) ==
    /\ AcceptReturns(c, FreeSlots # {})
    /\ IF FreeSlots = {}
       THEN maxIndex' = MaxIndexWith(OPEN_MAX) /\ UNCHANGED client
       ELSE maxIndex' = MaxIndexWith(Slot) /\ client' = [client EXCEPT ![Slot] = NewFd]
    /\ nReady' = nReady - 1
    /\ pc' = NextAfterAccept
    /\ UNCHANGED pollVars

\* The pass begins at entry 0, the listening socket; at the first ready entry it exits.
PollScan ==
    /\ pc = "scan"
    /\ pc' = IF \E i \in DOMAIN client : i <= maxIndex /\ client[i] >= 0 /\ revents[i]
             THEN "exit" ELSE "wait"
    /\ UNCHANGED <<socketVars, tableVars, pollVars>>

PollStep ==
    \/ PollWait \/ PollScan
    \/ \E c \in Clients : PollAccept(c)
    \/ (AcceptAborted \/ AcceptFails) /\ UNCHANGED <<tableVars, pollVars>>
============================================================================

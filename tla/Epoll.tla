------------------------------- MODULE Epoll -------------------------------
(***************************************************************************)
(* The kernel's side of one epoll instance, as reactor.cpp and xepoll.cpp  *)
(* use it.                                                                 *)
(*                                                                         *)
(* rdlist is the ready list: the descriptors the next epoll_wait reports,  *)
(* in the order the kernel reports them.  armed is the set of registered   *)
(* descriptors whose events are enabled.  A descriptor registered with     *)
(* EPOLLONESHOT leaves armed when it is reported; epoll_ctl puts it back.  *)
(* Both EPOLL_CTL_ADD and EPOLL_CTL_MOD poll the descriptor at once, so an *)
(* event that arrived while it was disarmed is not lost.                   *)
(*                                                                         *)
(* Nothing here is code of the repository: it is what the two loops take   *)
(* from the kernel.                                                        *)
(***************************************************************************)
EXTENDS Integers, Sequences, SequencesExt

VARIABLES
    rdlist,     \* the ready list, without repetitions
    armed       \* the registered descriptors whose events are enabled

epollVars == <<rdlist, armed>>

\* Linking a descriptor into the ready list; one already linked stays put.
Enqueue(list, fd) == IF fd \in ToSet(list) THEN list ELSE Append(list, fd)

\* Taking a descriptor out of the ready list, if it is there.
Unlink(list, fd) ==
    IF fd \in ToSet(list) THEN RemoveAt(list, CHOOSE i \in DOMAIN list : list[i] = fd)
    ELSE list

\* EPOLL_CTL_ADD and EPOLL_CTL_MOD: enable the events of fd and poll it.
EpollArm(fd, pending) ==
    /\ armed' = armed \cup {fd}
    /\ rdlist' = IF pending THEN Enqueue(rdlist, fd) ELSE rdlist

\* EPOLL_CTL_DEL.
EpollDel(fd) ==
    /\ armed' = armed \ {fd}
    /\ rdlist' = Unlink(rdlist, fd)

\* A wake-up of fd (data, FIN, error, connection): edge triggered, and
\* ignored while the descriptor is disarmed or not registered.
EpollWake(fd) ==
    /\ rdlist' = IF fd \in armed THEN Enqueue(rdlist, fd) ELSE rdlist
    /\ UNCHANGED armed

\* epoll_wait: report the n oldest entries of the ready list and disarm the
\* one-shot descriptors among them.
EpollReport(n, oneshot) ==
    /\ rdlist' = SubSeq(rdlist, n + 1, Len(rdlist))
    /\ armed' = armed \ {fd \in oneshot : \E i \in 1..n : rdlist[i] = fd}
============================================================================

-------------------------- MODULE SessionBuffers --------------------------
(***************************************************************************)
(* The Buffers of the EventHandlers: BufferPool (buffer.h), the receive    *)
(* and send lists of every session with Read and Write (event_handler.h),  *)
(* and the two places of the loop that move data between these lists and   *)
(* the socket (reactor.cpp): recv() in handle_read and the EPOLLOUT branch *)
(* of lazy_loop.                                                           *)
(*                                                                         *)
(* Everything runs on the loop's thread, but the operations of several     *)
(* sessions, and an application's calls of Write, share one pool in any    *)
(* order.  A Buffer is a number, its content a sequence of units <<s, k>>: *)
(* the k-th unit of the stream of session s.  The loop itself asks epoll   *)
(* for EPOLLIN only; Drain runs when the application has added EPOLLOUT,   *)
(* ReactorBase::epoll_fd being public.                                     *)
(***************************************************************************)
EXTENDS Integers, Sequences, SequencesExt, FiniteSets, Functions

CONSTANTS
    Sessions,   \* the EventHandlers
    NoSession,  \* the value of reading while handle_read does not run
    BufSize,    \* Buffer::max_buffer_size, in units
    Grow,       \* Buffers AllocBuffer creates when the pool is empty
    MaxUnits    \* bound: units received and written, by all sessions

ASSUME BuffersAssumption ==
    /\ NoSession \notin Sessions
    /\ BufSize \in Nat \ {0} /\ Grow \in Nat \ {0}
    /\ MaxUnits \in Nat

VARIABLES
    pool,       \* BufferPool::m_BufferList
    all,        \* length of m_AllBufferList: the Buffers are 1..all
    data,       \* the content of each Buffer, size units long
    recvList,   \* m_RecvBufferList of each session
    sendList,   \* m_SendBufferList of each session
    alive,      \* the sessions not deleted yet
    leaked,     \* the Buffers in the lists of deleted sessions
    reading,    \* the session handle_read works on
    drained,    \* whether its recv() has reported EAGAIN
    received,   \* history: units recv() got, per session
    handled,    \* what the read handler was given, per session
    written,    \* history: units passed to Write, per session
    wire,       \* what send() took, per session
    short       \* history: the sessions of which send() did not take a whole Buffer

poolVars == <<pool, all>>
readVars == <<reading, drained>>
recvVars == <<recvList, received, handled>>
sendVars == <<sendList, written, wire, short>>
vars == <<poolVars, data, alive, leaked, readVars, recvVars, sendVars>>

Buffers == 1..all
Units == Sessions \X Nat

TypeOK ==
    /\ all \in Nat /\ pool \in Seq(Buffers) /\ data \in [Buffers -> Seq(Units)]
    /\ recvList \in [Sessions -> Seq(Buffers)] /\ sendList \in [Sessions -> Seq(Buffers)]
    /\ reading \in alive \cup {NoSession} /\ drained \in BOOLEAN
    /\ alive \subseteq Sessions /\ leaked \subseteq Buffers
    /\ received \in [Sessions -> Nat] /\ written \in [Sessions -> Nat]
    /\ handled \in [Sessions -> Seq(Units)] /\ wire \in [Sessions -> Seq(Units)]
    /\ short \subseteq Sessions

Init ==
    /\ pool = <<>> /\ all = 0 /\ data = <<>>
    /\ recvList = [s \in Sessions |-> <<>>] /\ sendList = [s \in Sessions |-> <<>>]
    /\ alive = Sessions /\ leaked = {}
    /\ reading = NoSession /\ drained = FALSE
    /\ received = [s \in Sessions |-> 0] /\ written = [s \in Sessions |-> 0]
    /\ handled = [s \in Sessions |-> <<>>] /\ wire = [s \in Sessions |-> <<>>]
    /\ short = {}

\* Units from + 1 .. from + n of the stream of s.
Stream(s, from, n) == [k \in 1..n |-> <<s, from + k>>]

-----------------------------------------------------------------------------
(* BufferPool.  A definition with a suffix after an operation's name is    *)
(* that operation with one plausible mistake; no action uses it.           *)

\* The pool from which k calls of AllocBuffer take their Buffers: each call that
\* finds it empty first adds Grow new ones.
Grown(k) ==
    LET lacking == IF k > Len(pool) THEN k - Len(pool) ELSE 0
        new == Grow * ((lacking + Grow - 1) \div Grow)
    IN  pool \o [i \in 1..new |-> all + i]

\* k calls of AllocBuffer return the first k of Grown(k).
AllocBuffers_without_pop(k) ==
    /\ pool' = Grown(k)
    /\ all' = all + Len(Grown(k)) - Len(pool)
AllocBuffers(k) ==
    /\ pool' = SubSeq(Grown(k), k + 1, Len(Grown(k)))
    /\ all' = all + Len(Grown(k)) - Len(pool)

\* The contents, those of new Buffers included.
Contents(k) == data \o [i \in 1..(Len(Grown(k)) - Len(pool)) |-> <<>>]

\* ReleaseBuffer clears the Buffer before it puts it back.
Cleared_not(content) == content
Cleared(content) == <<>>

Release(bs) ==
    /\ pool' = pool \o bs
    /\ data' = [b \in Buffers |-> IF b \in ToSet(bs) THEN Cleared(data[b]) ELSE data[b]]
    /\ UNCHANGED all

-----------------------------------------------------------------------------
UnitsLeft == MaxUnits - FoldFunction(+, 0, received) - FoldFunction(+, 0, written)

\* GetLastRecvBuffer, GetLastSendBuffer: is there one with room?
HasRoom(list) == list # <<>> /\ Len(data[Last(list)]) # BufSize

\* One recv() of n units in handle_read, into the last Buffer of the list or a
\* new one; n = 0 is the EAGAIN that ends the loop, which is never the first
\* result: epoll reports EPOLLIN of a socket that has something to receive.
Recv(s, n) ==
    LET k == IF HasRoom(recvList[s]) THEN 0 ELSE 1
        list == recvList[s] \o SubSeq(Grown(k), 1, k)
        room == BufSize - Len(Contents(k)[Last(list)])
    IN  /\ s \in alive /\ reading \in {NoSession, s} /\ ~drained
        /\ n = 0 => reading = s
        /\ n <= room /\ n <= UnitsLeft
        /\ AllocBuffers(k)
        /\ recvList' = [recvList EXCEPT ![s] = list]
        /\ data' = [Contents(k) EXCEPT ![Last(list)] = @ \o Stream(s, received[s], n)]
        /\ received' = [received EXCEPT ![s] = @ + n]
        /\ reading' = s /\ drained' = (n = 0)
        /\ UNCHANGED <<handled, sendVars, alive, leaked>>

\* default_read_handler: Read takes the first Buffer, then it is released.
ReadHandler(s) ==
    /\ reading = s /\ drained
    /\ handled' = [handled EXCEPT ![s] = @ \o data[Head(recvList[s])]]
    /\ recvList' = [recvList EXCEPT ![s] = Tail(@)]
    /\ Release(<<Head(recvList[s])>>)
    /\ reading' = NoSession /\ drained' = FALSE
    /\ UNCHANGED <<received, sendVars, alive, leaked>>

\* The number of Buffers Write puts behind the first one.
MoreBuffers_rounded_down(rest) == rest \div BufSize
MoreBuffers(rest) == rest \div BufSize + 1

\* EventHandler::Write, called by a handler: fill the last Buffer, which is a new
\* one if there was none or it was full, and put what is left into as many more as
\* it needs, of which the last may stay empty.
Write(s, n) ==
    LET k0 == IF HasRoom(sendList[s]) THEN 0 ELSE 1
        last == Last(sendList[s] \o SubSeq(Grown(k0), 1, k0))
        room == BufSize - Len(Contents(k0)[last])
        first == IF n <= room THEN n ELSE room
        more == IF n <= room THEN 0 ELSE MoreBuffers(n - room)
        new == SubSeq(Grown(k0 + more), 1, k0 + more)
        \* what the i-th of the Buffers behind the first one gets
        Chunk(i) == LET before == first + (i - 1) * BufSize
                    IN  Stream(s, written[s] + before,
                               IF i < more THEN BufSize ELSE n - before)
    IN  /\ s \in alive /\ reading = NoSession /\ n <= UnitsLeft
        /\ AllocBuffers(k0 + more)
        /\ sendList' = [sendList EXCEPT ![s] = @ \o new]
        /\ data' = [b \in DOMAIN Contents(k0 + more) |->
               Contents(k0 + more)[b] \o
                   IF b = last THEN Stream(s, written[s], first)
                   ELSE FlattenSeq([i \in 1..more |->
                            IF new[k0 + i] = b THEN Chunk(i) ELSE <<>>])]
        /\ written' = [written EXCEPT ![s] = @ + n]
        /\ UNCHANGED <<wire, short, recvVars, readVars, alive, leaked>>

\* The EPOLLOUT branch: send every Buffer of the list, in order, and release it.
\* send() may take a part of a Buffer, or nothing; its result is ignored.
Drain(s) ==
    LET list == sendList[s]
    IN  /\ s \in alive /\ reading = NoSession /\ list # <<>>
        /\ \E taken \in [DOMAIN list -> 0..BufSize] :
               /\ \A i \in DOMAIN list : taken[i] <= Len(data[list[i]])
               /\ wire' = [wire EXCEPT ![s] = @ \o FlattenSeq(
                      [i \in DOMAIN list |-> SubSeq(data[list[i]], 1, taken[i])])]
               /\ short' = IF \A i \in DOMAIN list : taken[i] = Len(data[list[i]])
                           THEN short ELSE short \cup {s}
        /\ sendList' = [sendList EXCEPT ![s] = <<>>]
        /\ Release(list)
        /\ UNCHANGED <<written, recvVars, readVars, alive, leaked>>

\* delete pSession: its lists go, the Buffers they point to stay allocated, and so
\* does new, what handle_read has just pushed behind the receive list.
DeleteSession(s, new) ==
    /\ s \in alive
    /\ alive' = alive \ {s}
    /\ leaked' = leaked \cup ToSet(recvList[s]) \cup ToSet(new) \cup ToSet(sendList[s])
    /\ recvList' = [recvList EXCEPT ![s] = <<>>]
    /\ sendList' = [sendList EXCEPT ![s] = <<>>]
    /\ reading' = NoSession
    /\ UNCHANGED <<drained, received, handled, written, wire, short>>

\* recv() in handle_read returns 0: it was called with room in the last Buffer of the
\* list or with a new one, as in Recv.
CloseSession(s) ==
    LET k == IF HasRoom(recvList[s]) THEN 0 ELSE 1
    IN  /\ reading \in {NoSession, s} /\ ~drained
        /\ AllocBuffers(k)
        /\ data' = Contents(k)
        /\ DeleteSession(s, SubSeq(Grown(k), 1, k))

\* The EPOLLERR branch of lazy_loop.
ErrorSession(s) ==
    /\ reading = NoSession
    /\ DeleteSession(s, <<>>)
    /\ UNCHANGED <<poolVars, data>>

Next == \E s \in Sessions :
    \/ \E n \in 0..BufSize : Recv(s, n)
    \/ ReadHandler(s)
    \/ \E n \in 0..MaxUnits : Write(s, n)
    \/ Drain(s)
    \/ CloseSession(s) \/ ErrorSession(s)

Spec == Init /\ [][Next]_vars

-----------------------------------------------------------------------------
Listed(s) == recvList[s] \o sendList[s]

\* Every Buffer ever created has one owner: it is in the pool, in one list of one
\* session, or was left behind by a deleted one, and in none of these twice.
OneOwner ==
    LET held == ToSet(pool) \cup UNION {ToSet(Listed(s)) : s \in Sessions}
    IN  /\ IsInjective(pool) /\ \A s \in Sessions : IsInjective(Listed(s))
        /\ \A s \in Sessions : ToSet(pool) \cap ToSet(Listed(s)) = {}
        /\ \A s, t \in Sessions : s # t => ToSet(Listed(s)) \cap ToSet(Listed(t)) = {}
        /\ leaked \cap held = {} /\ Buffers = leaked \cup held

\* Whoever takes a Buffer out of the pool finds it empty, no Buffer is overrun,
\* and in a list every Buffer but the last one is full.
Filling ==
    /\ \A b \in ToSet(pool) : data[b] = <<>>
    /\ \A b \in Buffers : Len(data[b]) <= BufSize
    /\ \A s \in Sessions : \A list \in {recvList[s], sendList[s]} :
           \A i \in 1..(Len(list) - 1) : Len(data[list[i]]) = BufSize

BuffersInv == TypeOK /\ OneOwner /\ Filling

ContentOf(list) == FlattenSeq([i \in DOMAIN list |-> data[list[i]]])

\* What recv() got for a session is, unit by unit, what its read handler was given
\* and what its receive list holds, whatever other sessions do with the pool.
ReceivesItsOwn ==
    \A s \in alive : handled[s] \o ContentOf(recvList[s]) = Stream(s, 0, received[s])

\* What send() took of a session is a part of what was written to it, in order and
\* nothing twice, at any chunking; and together with what the send list holds it is
\* all of it, as long as every send() took its whole Buffer.
SendsItsOwn ==
    \A s \in alive :
        LET out == wire[s] \o ContentOf(sendList[s])
        IN  /\ \A i \in DOMAIN out : out[i][1] = s /\ out[i][2] \in 1..written[s]
            /\ \A i, j \in DOMAIN out : i < j => out[i][2] < out[j][2]
            /\ s \notin short => out = Stream(s, 0, written[s])
============================================================================

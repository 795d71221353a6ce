# lazyserver in TLA+

lazyserver is a small network server library in C++: a single-threaded reactor
over `epoll`, with signals and timers delivered through the same loop, and the
data structures it stands on. This directory holds a TLA+ model of it, the TLC
runs that check the model on small instances, and TLAPS proofs for instances of
any size. `PROJECT.json` lists the runs, the source lines of every definition,
the mistakes each property was tried against, the findings and the hazards.

## The system

| Part | Source | State | Operations |
| --- | --- | --- | --- |
| event loop and its startup | `reactor.cpp`, `reactor.h` | `events[]`, `stop_server_flag`, epoll registrations, the current reactor | `lazy_create_reactor`, `lazy_set_current_reactor`, `lazy_loop`, `handle_accpet`, `handle_read`, `handle_sig_timer`, `reset_oneshot` |
| default callbacks | `default_func.cpp` | none | `default_read_handler`, the signal handlers |
| sessions, `BufferPool` | `event_handler.h`, `buffer.h` | receive and send lists of every `EventHandler`, the pool's list | `Read`, `Write`, `AllocBuffer`, `ReleaseBuffer`, `delete` |
| `LazyBuffer`, `BufferV` | `event_handler.h`, `buffer.h` | a vector and two indexes | `append`, `prepend`, `retrieve…`, `shrink`, `swap` |
| timers | `util_timer.h`, `util_timer.cpp` | `expire`, `interval`, `repeat` of each timer, the heap | `lazy_register_timer`, `tick` |
| heap | `heap.h`, `heap.cpp` | an array of pointers, size, capacity | `Insert`, `Pop`, `Top` |
| memory pool | `stl_memory_pool.*` | 16 free lists, the free heap | `allocate`, `deallocate`, `build_freelist` |
| xepoll server | `xepoll.*` | `m_Events`, sessions, epoll registrations | `ServerLoop`, `ET`, `LT` |
| socket wrappers | `sock_comm.*` | none | `Accept`, `ReadN`, `WriteN`, handlers of SIGCHLD, SIGTERM, SIGPIPE |
| `select` and `poll` servers | `sock_comm.cpp` | a table of descriptors, `maxFd`, `maxIndex`, `nReady` | `SelectServer`, `PollServer` |
| programs | `main.cpp`, `client.cpp` | child processes and their connections | `MultiProcessServer`; register three timers and run the loop; send in a loop |

How they interact. `lazy_loop` waits for epoll events, each of which carries a
raw pointer to an `EventHandler`, and calls the handler of the descriptor. A
connection's registration is one-shot and edge-triggered: it is disabled when its
event is reported, and `handle_read` has to receive until `EAGAIN` and enable it
again. The listening socket is edge-triggered only. Signal handlers write the
signal's number into a socketpair, whose other end is one more one-shot
descriptor of the loop; `handle_sig_timer` runs the registered function of each
number it receives. SIGALRM's function calls `tick()` on the timers and
`alarm(1)`, which is what keeps the timers going. `tick()` calls the handlers of
due timers from inside the heap. Receive and send Buffers of all sessions come
from one pool. `LazyBuffer`, `BufferV` and the memory pool are library classes
the loop does not use itself.

The other servers are alternatives to the reactor and share nothing with it:
`xepoll` is an earlier form of the loop with an edge-triggered and a
level-triggered mode, `SelectServer` and `PollServer` are samples of the other two
ways to wait for many sockets, and `MultiProcessServer` forks a process per
client. The last three stand on the same wrappers; `Accept` in particular
blocks and retries.

What is hard about it: clients and signals act between any two system calls of the
loop; every path through a handler has to leave the one-shot registration in
order; pointers to sessions live in `events[]` and in the kernel while sessions
are deleted; edge-triggered events are reported once; handlers are application
code and call back into the timers and the sessions; results of `accept`, `send`,
`poll`, `fork` and `malloc` are ignored in places; descriptors are inherited by
every child; partial and interrupted transfers have to be continued. The `hazards` of `PROJECT.json` list each of
these at its line.

## Modules

| Module | Models | Abstract specification |
| --- | --- | --- |
| `Epoll` | epoll as the two loops use it (external): the ready list and the armed descriptors | |
| `Reactor` | startup, the event loop, the default callbacks, clients, signals, the alarm | |
| `XEpoll` | the epoll server, both modes, and clients | |
| `Sockets` | the listening socket, `Accept`, the clients, the table two of the servers keep | |
| `SelectServer`, `PollServer` | the two loops of `sock_comm.cpp` | |
| `ProcessServer` | `MultiProcessServer`, its children, `WriteN`, `ReadN`, the signal handlers | |
| `SockServers` | the composition: one of the three servers runs, against the clients | |
| `SessionBuffers` | the Buffers of all sessions, `Write`, the `EPOLLOUT` branch, the pool | |
| `Heap` | `heap.cpp`, loop iteration by loop iteration | `PtrQueue`, a bag of pointers of which `Pop` removes a first one |
| `TimerHeap` | the timers, over `PtrQueue` | `PtrQueue` is what it uses of the heap |
| `LazyBuffer` | `LazyBuffer`; `BufferV` has the same code | `ByteQueue`, a sequence of bytes |
| `MemoryPool` | `stl_memory_pool` | |

`MC…` modules hold the constants of the runs, `…_proofs` modules the theorems, and
`SeqFacts` lemmas about sequences that several of them use.

Definitions keep the names of the code, its misspellings included. A definition
whose name is that of an operation with a suffix (`AcceptOne_until_empty`,
`Cleared_not`) is used by no action: it is the operation with one plausible
mistake, and shows which property would notice.

### Epoll and Reactor

One action of `Reactor` runs from one system call whose result depends on the
outside to the next, so that clients and signals can act between any two of them.
`pc` is the place in the code, `batch` the rest of `events[]`, `armed` and `rdlist`
the kernel's view. A connection stands for its client, its socket and its
`EventHandler`; `session` says whether the latter is allocated. Payload is
counted in units, numbered by the client, so a lost, doubled or misplaced unit
shows in `recvList` and `handled`. `RecvError` ends the process, as the code does;
`HandleError` is the `EPOLLERR` branch. `AcceptFails` allocates an `EventHandler`
for descriptor -1, counted by `ghosts`. Signals go through `pipe`, which has a
limit, beyond which `sig_handler` loses them. The handlers of timers are
`TimerHeap`'s business; here SIGALRM sets the alarm again.

`pc` begins before `lazy_create_reactor`. Clients can connect from then on, since
its first call is `listen`; signals are caught from its end on, and between that and
`lazy_set_current_reactor` one of them (`EarlySignal`) dereferences a null pointer,
which ends the process.

A read handler set with `lazy_set_read_handler` is not modelled because the code
never calls one (`reactor.cpp:307` calls `default_read_handler`).

### XEpoll

The same cut into steps as in `Reactor`, and the same `Epoll`, extended with the
level-triggered mode: a descriptor that was reported goes back to the end of the
ready list. `mode` and `limit` are chosen at the start and constant. `fill` is how
full a session's current buffer is; `shown` what had been received when
`HandleRead` was last called. `dropped` records the sessions whose entries a return
after an accept threw away, `pc = "undefined"` that a deleted session is used.
`SocketSession` is declared in a header that is not in the repository: the module
has of it what `xepoll.cpp` uses. When it gives no receive buffer, which may happen at
either place that asks for one, the server ends (`NoBuffer`): `ET` tests the pointer and
exits, `LT` reads through it.

### Sockets, SelectServer, PollServer, ProcessServer, SockServers

`Sockets` has what the three servers share. `pc = "accept"` is a thread that waits in
`Accept`; `AcceptAborted` is its retry, `AcceptFails` its `exit`. Systems differ in
whether they hand out a connection that was aborted, so both happen.

`SelectServer` and `PollServer` share the names of their locals: `client`, `maxIndex`
and `nReady`. Where the first would read a client it has a comment, so the module
records which clients a pass comes to (`visited`); where the second would read, it
sets the result to -1 and exits, because `errno` is not `ECONNRESET`. A pass over the
table contains no system call and is one step. `revents` begins with any
value: the code leaves it as the stack had it. Writing past an `fd_set` or past the
table is `pc = "undefined"`.

In `ProcessServer` a connection ends for the client when no process has a
descriptor of it any more: `fd` is the parent's, `holds[c]` those of the child of
`c`, which gets all that are open when it is forked. `nLeft` and `nWanted` are the
counters of `WriteN` and `ReadN`; `Counted(n)` is what they take a call that returned
`n` for. The repository has no caller of `ReadN`; the model's clients are ones. The parent
stands still while it runs the handler of SIGCHLD.

### SessionBuffers

`Reactor` has the contents of the receive lists, this module the identity of the
Buffers: who owns each, what it contains when it comes out of the pool, and how
`Write` and `handle_read` fill it. `reading` and `drained` say how far
`handle_read` is, during which nothing else runs. `AllocBuffer` is modelled for
several calls at a time. A session is deleted in `handle_read` (`CloseSession`), where
the `recv` that returned 0 had a Buffer with room like every other, taken from the pool
if need be and left behind with the lists, or after `EPOLLERR` (`ErrorSession`). The loop registers for `EPOLLIN` only, so `Drain` runs
only for an application that changes the registration itself.

### Heap, PtrQueue, TimerHeap

`Heap` steps through `ReBuild4Insert` and `ReBuild4Delete` one iteration at a
time. `Before` compares addresses, since the code never calls the comparison
function it is given. In `TimerHeap` a timer is its address; the heap is the bag
of `PtrQueue`, whose operations are those `Heap` is shown to implement. Times are
relative to the clock, `left[p]` being what is left until `expire`, so that no
clock has to be bounded; `elapsed` counts the seconds that pass during a tick.
A handler may register timers at any address. `Top` is read before the handler runs and
`Pop` takes out a first timer after it: if the handler has registered one below its own,
`Pop` takes out that one, which is lost, and leaves the one called in the heap. `fresh`
is what the handler that runs has registered, `overtook[q]` the timer in whose place `q`
was taken out; the properties count with these two (`Owed`).

### LazyBuffer, ByteQueue

The vector, the two indexes, `makeSpace` in both its forms, and the asserts:
`aborted` says that one failed. `ShrinkAnywhere` says whether `shrink` may be
called when the content is not at `kCheapPrepend`.

### MemoryPool

Addresses and sizes are counted in words of 8 bytes. `build_freelist` has three
ends: `CutFromHeap`, `CutFromMalloc` (with its recursive call) and `MallocFailed`.
`used` is what the program holds, `chunks` what `malloc` returned. `failed` says
that `malloc` has failed once, after which the free heap seems to begin at address
0: the properties say what holds before, and that borrowing a block is not itself
what breaks it.

## Runs

| Run | Instance | Shows |
| --- | --- | --- |
| `reactor_conns` | 2 connections, 3 units each, Buffers of 2, 2 events per wait; or one of them and 2 signals of 2 kinds besides the alarm, pipe and receive array of 2 | startup; `LoopInv` and its parts, also when the pipe fills and the array is too small; `StreamIntact`, `OrderlyClientsHarmless` |
| `reactor_live` | 2 connections, 1 descriptor, 2 units each, Buffers of 1, signals as above, 1 event per wait | when `accept` fails too: `DataReceived`, `SmallDataHandled`, `AcceptedUnlessBurst`, `InterruptStops`, `TimersKeepRunning` |
| `xepoll` | 2 clients, 2 units each, buffers of 1, 1 or 2 descriptors, both modes | `XEpollInv`, `OnlyErrorsEnd`, `OrderlyCloseComplete`, `DataRead`, `ConnectionsAccepted` |
| `sock_servers` | 3 clients (2 of `MultiProcessServer`), `FD_SETSIZE` 4, `OPEN_MAX` 3, limits of 4 or 6 descriptors, messages of 2 units | `ServersInv`, `EndsForCause`, `ReplyDelivered`, `ReadyNoticed`, `ReadNReturns`, `ZombiesReaped` |
| `heap` | min heap of up to 6 elements of 4 addresses | `HeapInv`, `TopIsFirst`, `WithinCapacity`, the refinement of `PtrQueue` |
| `timers` | 3 timers, intervals 0 to 2, registered by handlers at any address | `TickInv`, `TimersAccounted`, `CallsAccounted`, `PopTakesCurrentOrFresh`, `EveryTimerFires` |
| `buffer` | vector of 3 cells at first, content of up to 3 bytes | `BufferInv`, `MovesToFront`, the refinement of `ByteQueue` |
| `session_buffers` | 2 sessions, Buffers of 2 units, 4 units in all, pool growing by 2 | `BuffersInv`, `ReceivesItsOwn`, `SendsItsOwn` |
| `pool` | blocks of 1 to 3 words, refills of 2, 3 blocks held, 2 chunks, `malloc` may fail | `PoolInv`, `NothingLost`, `BorrowsSoundly` |
| `timers_order`, `buffer_shrink`, `pool_fails` | the same modules | violations, see Findings |

Why the bounds are enough. Two connections give every way one session can affect
another in a batch, and two events per wait let one of the two be stale. Units
exceed the Buffer size, so Buffers fill, a Buffer is filled by several `recv` and
one `recv` loop needs several Buffers. Pipe, receive array, backlog and
descriptors each have a run in which they are exhausted. A behaviour of the two
runs of `Reactor` has signals from outside or a second client (`SignalsOrClients`):
signals and sessions meet only in the batch, for which one session is enough.
Six heap elements give
three levels, with a last node that has one child. The program uses the min heap
only; the proofs are about both types. Three timers allow one that is
called, one that is due and one that is not. Four units over Buffers of two
give writes that end inside a Buffer, at its end and two Buffers further. Three
block sizes give leftovers of every smaller size and a list to borrow from.

In `xepoll` one buffer of one unit is full after every read, and one descriptor is
less than two clients need. In `sock_servers` the table of `PollServer` holds two of
three clients, the third client of `SelectServer` gets a descriptor that an `fd_set`
of 4 bits has no place for or, with the lower limit, none; two children are enough for
one to inherit a connection of the other and for two of them to raise one SIGCHLD.
The transfers of one client of `MultiProcessServer` are cut in every way
(`PartialClients`), those of the other are whole, and a signal interrupts `poll` once.

Deadlock is checked where the system never stops. In the two runs of `Reactor` the
loop really may wait for ever: a SIGALRM lost in a full pipe is followed by no other
alarm, and with it no signal and no client is left. The same holds for the servers of
`xepoll` and `sock_servers`, which wait for clients without a time limit. In
`session_buffers` the bound on units stops the model, in `pool` the process ends.

Fairness. `Reactor` assumes weak fairness of the loop's steps as one action: it is
one thread, which the system schedules, and it never blocks except in
`epoll_wait`, which returns when the ready list is not empty. It also assumes
that a pending alarm fires. Of clients and signals no fairness is assumed: a client may
send, close or abort at any moment or never. But a client sends at most `MaxUnits` units,
and this is more than a bound on the state space for the liveness properties:
the `while(true)` of `handle_read`, and that of `ET`, goes on as long as `recv` finds
something, so that a client that sends without a pause would keep the loop from all other
clients, from signals and from timers. They hold for clients that pause at some
time. Nor does an endless stream of connections reach the models, which
in `LT` would be served before any data: a client connects once.
`TimerHeap` assumes the same of `tick()`'s steps, of the clock and of the alarm,
`XEpoll` and `SockServers` the same of the one thread of the server. The children of
`MultiProcessServer` are processes of their own, each scheduled fairly, and so are the
clients that are in `ReadN`; that one transfer is interrupted for ever is excluded.

Several properties have a condition, which is a part of what they say.
`DataRead` and `ConnectionsAccepted` hold in edge-triggered mode for sessions no
return after an accept has dropped, and for connections that come one by one; in
level-triggered mode while no `accept` fails. `ReadyNoticed` holds while `Accept` does
not wait for a connection that was aborted.
`AcceptedUnlessBurst`: one `accept` per event is enough only while connections
arrive one by one and each finds a descriptor free. `SmallDataHandled`: one Buffer per
wake-up is enough only for a client that never has more than a Buffer
outstanding. `TimersKeepRunning`: only while the pipe never fills. `TimersAccounted` and
`CallsAccounted` count what the `Pop` of a timer other than the one called costs: the
timer taken out is gone, the one called is in the heap and in `temp`, and is called
again. `PopTakesCurrentOrFresh` says when it happens, for a timer the handler itself has
registered at a lower address, and `EveryTimerFires` excepts only the timers that are
taken out like this.

## Findings

- `timers_order`: the heap orders timers by address instead of time, so `tick()`
  can stop at a timer that is not due while others are.
- `buffer_shrink`: `shrink` leaves the indexes of the old vector in place.
- `pool_fails`: after a failed `malloc`, the next refill cuts blocks from address 0.

Not runs of their own, because no line of the repository says otherwise, but
visible in the models and bounded by the properties named:

- A Buffer that `send()` took only in part is released all the same
  (`reactor.cpp:365`): `SendsItsOwn`, where `short` is the set of sessions it happened to.
- A client that aborts its connection while data is read makes `handle_read` call
  `exit(-1)`, which ends the reactor for all; the error handler is never told. A signal
  before `lazy_set_current_reactor` ends it too. `OrderlyClientsHarmless` says that
  nothing else does.
- `xepoll`, edge-triggered: `ET` returns after an accept and drops the rest of the batch,
  whose sessions are never heard of again (`EventsAccounted`); a FIN and an error in one
  event make it use a deleted session, and `LT` uses the pointer to a receive buffer
  without a test (`OnlyErrorsEnd`). Level-triggered: when `accept`
  fails for want of descriptors, the same event comes first for ever and the sessions
  behind it starve (`DataRead`). In both an interrupted `epoll_wait` ends the process.
- `PollServer` ends with the first client that sends or closes, with one client more than
  its table holds, or when `poll` is interrupted at the wrong moment; `SelectServer`
  overruns its `fd_set` if the limit of descriptors exceeds `FD_SETSIZE`, before its test
  for a full table can succeed (`EndsForCause`, `SelectConsistent`). Both stand still in
  `Accept` after an aborted connection (`ReadyNoticed`).
- A handler that registers a timer to which the allocator gives a lower address than its
  own has: the `Pop` that follows removes the new timer, which never fires, and the one
  whose handler ran is called again and, if it repeats, is in the heap twice from then on
  (`util_timer.h:116`; `TimersAccounted`, `CallsAccounted`, `PopTakesCurrentOrFresh`).
- `delete` of a session leaves its Buffers behind, the one included that `handle_read`
  took for the `recv` that reported the end (`reactor.cpp:296`): `BuffersInv`, where
  `leaked` is the set of these Buffers.
- A client whose `fork` fails is closed without a reply (`ReplyDelivered`).

## Proofs

Each invariant is proved in the usual three steps (initially, under every action,
and what follows from it), with constants that are arbitrary but for the
assumptions named in the modules. Where a run's invariant is not inductive, the module
of its proofs states the one that is.

- `Reactor_proofs`: `LoopInvariant` proves `LoopInv`, and from it follow
  `TypeCorrect`, `EventsNeverDangle`, `OneShotsAccounted`, `WakeupsNeverLost`,
  `AcceptsFindConnections`, `BuffersNeverOverrun` and `OrderlyClientsNeverHarm`
  (`OrderlyClientsHarmless`). None of these is inductive
  alone. That no event names a deleted session needs to know that a session in
  the batch is not armed (`Registrations`), that `events[]` names it once, and
  that the session being read is in neither (`Phases`); that an `accept` finds a
  connection needs each pending event of the listening socket to be matched by a
  connection in the backlog (`Arrivals`). `StreamsStayIntact` (`StreamIntact`) is
  proved on top of `LoopInv`: a step leaves what the handlers were given, the Buffers and
  the socket hold together, in this order, as it was (`SameStream`), or adds what the
  client sent at its end. That a `recv` extends the last Buffer, and no other, is the
  part of it that could go wrong.
- `Heap_proofs`: `HeapInvariant` proves `HeapInv`: the heap order holds but for
  the index a loop works on, whose parent and children are then in order with
  each other. `TopIsAlwaysFirst` and `AlwaysWithinCapacity` follow; the first is
  proved from a least index that violates it. `ImplementsPtrQueue` is the refinement: a
  swap leaves the number of indexes at which an address is found unchanged (by the
  cardinality of finite sets), `Insert` and `Pop` change that of one address by one, and
  the address `Pop` takes is a first one.
- `TimerHeap_proofs`: `TickInvariant` (`TickInv`), `TimersStayAccounted`
  (`TimersAccounted`), `CallsStayAccounted` (`CallsAccounted`) and
  `PopsTakeCurrentOrFresh`, wherever the allocator puts a new timer. `TickInv` says how
  often the heap and `temp` hold each timer at each place in `tick()`, as cardinalities
  of sets of indexes, and that while a handler runs only what it has registered itself comes
  before its timer. `OrdinaryTimers` is what is left while no timer has been taken out
  in the place of another: each is held at most once and called once.
- `Memory_proofs`, of two components that share nothing. For `LazyBuffer`:
  `BufferInvariant`, `MovesGoToFront` and `ImplementsByteQueue`, the refinement, assuming
  `ShrinkAnywhere = FALSE`. For `MemoryPool`: `BlocksStayApart` (`PoolInv`),
  `NoWordIsLost` (`NothingLost`) and `BorrowingIsSound` (`BorrowsSoundly`), without an
  assumption on where `malloc` puts its chunks but that they are apart. The inductive
  invariant, `PoolIInv`, sees memory in two ways: which block is in which place
  (`Ledger`), and which words the blocks cover (those of `chunks` that are not the free
  heap's). It adds what the code relies on without a test: the
  free heap lies in one chunk, behind the blocks cut from it (`HeapInPlace`), and a
  failed `malloc` leaves `start_free` 0 and `end_free` not 0, so that the next refill
  believes the heap to be large, cuts from address 0 and ends the process (`pool_fails`).
- `SessionBuffers_proofs`: `EveryBufferHasOneOwner` (`BuffersInv`), `EachReceivesItsOwn`
  and `EachSendsItsOwn`. The inductive invariant has the ownership one list at a time
  (`Owned`), so that a step on one session leaves the lists and the contents of the
  others alone, and says that `handle_read`, which hands over the first Buffer of its
  list without a look, has one.
- `XEpoll_proofs`: `EventsStayAccounted` (`XEpollInv`), `OnlyErrorsEndTheServer` and
  `OrderlyClosesComplete`, in both modes. An entry of `m_Events` is older than its
  handling, so the inductive invariant, `IInv`, needs that what it reports is still to be
  had when its turn comes (`Due`); otherwise a `recv` on a session whose client is
  well-behaved could fail and end the server.
- `SockServers_proofs`: `RepliesDelivered` proves `ReplyDelivered` for every number of
  clients and every length of the message, wherever `read` and `write` stop. The
  inductive invariant says what `WriteN` has counted (`Data`), that a child keeps its
  client's connection until it ends (`Holders`), without which a client could read the
  end in the middle of a reply, and that the parent has at most the one connection it
  is about to fork for or to close (`Connections`). `TablesStayConsistent` (`ServersInv`)
  and `ServersEndForCause` (`EndsForCause`) are about `SelectServer` and `PollServer`:
  each accepted client has a descriptor of its own (`Connected`) and one entry of the
  table (`HoldsEach`), a pass knows how many of the ready clients it has
  yet to meet (`SelectLoop`), or goes on only for a cause (`PollLoop`).
  That a table which is not full has a free entry, and that a limit not reached leaves a
  free descriptor, are pigeonhole arguments.
- `SeqFacts`: what the others need of sequences. `FlattenSeq` is recursive, and no
  induction theorem can be used; its lemmas are shown for every length from the least
  counterexample, or from a set of numbers that contains 0 and is closed under successor.

What the proofs assume of the constants is what the code has: `FD_SETSIZE`, `OPEN_MAX`,
Buffer sizes, backlogs and batch sizes are not zero; `listen` has a descriptor, so every
limit of descriptors is above it, and some limit is above the next one, so that a
server can accept a client at all; the addresses of timers are finitely many, so that
they can be counted; `malloc` is asked
for at least as many words as the largest block has (`__FREELISTS <= 2 * NObjs`; 16 and
20 in the code), so that `end_free` is large enough to mislead every refill after a
failure. The bounds on the runs
(`MaxUnits`, `MaxUsed`, `MaxSize` and the like) are arbitrary in the proofs.

Only model-checked: the liveness properties, which are outside TLAPS's reach
(`DataReceived`, `SmallDataHandled`, `AcceptedUnlessBurst`, `InterruptStops`,
`TimersKeepRunning`, `EveryTimerFires`, `DataRead`, `ConnectionsAccepted`, `ReadyNoticed`,
`ReadNReturns`, `ZombiesReaped`). Every invariant, every action property and every
refinement that a passing run checks has a theorem.

## Not modelled

- The read, accept, close and error callbacks an application sets, beyond the default
  ones: they are not in the repository. `lazy_set_…_handler` store a pointer before the
  loop runs.
- `Socket`, `Bind`, `Listen` and `Connect`, which pass one system call on and exit when it
  fails: the models begin when they have succeeded. `Signal`, `Close`, `CreateSockaddr`,
  `ByteOrder`.
- `findCRLF`, `readFd` and `PSelectServer`: no program can use them, since `kCRLF` and the
  other two are declared and never defined.
- Logging, printing, address formatting.
- The branches for `EPOLLOUT` in `Reactor` and `XEpoll`, which never ask for it;
  `SessionBuffers` has the one of the reactor.
- Timers and sessions are apart: that a timer's session may be deleted is a hazard
  without a property, since nothing in the library connects the two but a pointer that
  an application passes. So is what `Write` stores and nothing sends. `allocate(0)`
  has no caller.

## Plan

1. Liveness by hand-made variants: that `handle_read` ends after as many steps as units
   are left, as an action property over a measure, which TLAPS can prove where it cannot
   prove `DataReceived` itself.
2. That `TimerHeap` over `Heap` is `TimerHeap` over `PtrQueue`: the composition of the
   refinement that is proved with the timers that use it.
3. Timers with session pointers, composed with `Reactor` and `TimerHeap`, once an
   application shows how it uses them.

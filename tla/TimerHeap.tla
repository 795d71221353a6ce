----------------------------- MODULE TimerHeap -----------------------------
(***************************************************************************)
(* The timers: timer_heap::tick of util_timer.h and lazy_register_timer of *)
(* util_timer.cpp, over the heap of heap.cpp at the level of PtrQueue.     *)
(*                                                                         *)
(* A timer is known by its address.  tick() reads the clock once, calls    *)
(* the handlers of the timers that are due while they are still in the     *)
(* heap, and puts the repeating ones back afterwards.  A handler is        *)
(* application code: it may register timers itself, and new addresses are  *)
(* the allocator's choice.  A timer that a handler registers below its own *)
(* becomes Top, and the Pop that follows the handler takes out this one.   *)
(*                                                                         *)
(* left[p] is the expire time of p minus the time tick() read, or minus    *)
(* the clock while no tick runs; a timer that is overdue has 0 left.       *)
(***************************************************************************)
EXTENDS Integers, Sequences, SequencesExt, FiniteSets

CONSTANTS
    Addrs,      \* the addresses a util_timer may get, numbers
    Intervals,  \* the intervals timers are registered with, in seconds
    MaxElapsed  \* bound: seconds that pass while tick() runs

ASSUME TimerAssumption ==
    /\ Addrs \subseteq Nat /\ IsFiniteSet(Addrs)
    /\ Intervals \subseteq Nat /\ MaxElapsed \in Nat

VARIABLES
    heap,       \* m_pHeap: how often it holds each address
    popped,     \* what its last Pop returned
    registered, \* the addresses of the timers created, none is ever freed
    left,       \* util_timer::expire, relative
    interval,   \* util_timer::interval
    repeat,     \* util_timer::repeat
    rang,       \* a SIGALRM has arrived that tick() has not yet answered
    pc,         \* "idle", or where tick() is
    cur,        \* pTimer, while its handler runs
    temp,       \* temp, the timers whose handlers were called
    elapsed,    \* seconds since tick() read the clock
    fresh,      \* history: what the handler that runs has registered
    overtook    \* history: overtook[q] is the timer in whose place Pop took out q,
                \* or -1

timerVars == <<registered, left, interval, repeat>>
historyVars == <<fresh, overtook>>
tickVars == <<pc, cur, temp>>
vars == <<heap, popped, timerVars, rang, tickVars, elapsed, historyVars>>

PQ == INSTANCE PtrQueue WITH Ptrs <- Addrs, Type <- "SmallHeap", queue <- heap

TypeOK ==
    /\ heap \in [Addrs -> Nat] /\ popped \in Addrs \cup {-1}
    /\ registered \subseteq Addrs
    /\ left \in [Addrs -> Nat]
    /\ interval \in [Addrs -> Intervals \cup {0}] /\ repeat \in [Addrs -> BOOLEAN]
    /\ rang \in BOOLEAN
    /\ pc \in {"idle", "tick", "handler", "rearm"}
    /\ cur \in Addrs \cup {-1}
    /\ temp \in Seq(Addrs)
    /\ elapsed \in 0..MaxElapsed
    /\ fresh \subseteq Addrs /\ overtook \in [Addrs -> Addrs \cup {-1}]

Init ==
    /\ heap = [p \in Addrs |-> 0] /\ popped = -1
    /\ registered = {}
    /\ left = [p \in Addrs |-> 0]
    /\ interval = [p \in Addrs |-> 0] /\ repeat = [p \in Addrs |-> FALSE]
    /\ rang = FALSE
    /\ pc = "idle" /\ cur = -1 /\ temp = <<>> /\ elapsed = 0
    /\ fresh = {} /\ overtook = [p \in Addrs |-> -1]

-----------------------------------------------------------------------------
\* lazy_register_timer, with the util_timer at address p.
lazy_register_timer(p, seconds, again) ==
    /\ p \notin registered
    /\ registered' = registered \cup {p}
    /\ left' = [left EXCEPT ![p] = elapsed + seconds]
    /\ interval' = [interval EXCEPT ![p] = seconds]
    /\ repeat' = [repeat EXCEPT ![p] = again]
    /\ PQ!Insert(p)
    /\ UNCHANGED <<rang, tickVars, elapsed, overtook>>

\* From main or from a callback of the event loop.
Register ==
    /\ pc = "idle"
    /\ \E p \in Addrs, s \in Intervals, b \in BOOLEAN : lazy_register_timer(p, s, b)
    /\ UNCHANGED fresh

\* From the handler of a timer.
RegisterInHandler ==
    /\ pc = "handler"
    /\ \E p \in Addrs, s \in Intervals, b \in BOOLEAN :
           lazy_register_timer(p, s, b) /\ fresh' = fresh \cup {p}

\* A second passes.  While no tick runs it lets the alarm of alarm(1) fire.
Second ==
    \/ /\ pc = "idle"
       /\ left' = [p \in Addrs |-> IF left[p] > 0 THEN left[p] - 1 ELSE 0]
       /\ rang' = TRUE
       /\ UNCHANGED elapsed
    \/ /\ pc # "idle" /\ elapsed < MaxElapsed
       /\ elapsed' = elapsed + 1
       /\ UNCHANGED <<left, rang>>

Clock ==
    Second /\ UNCHANGED <<heap, popped, registered, interval, repeat, tickVars, historyVars>>

-----------------------------------------------------------------------------
(* tick(), called by default_sigalrm_handler.  A definition with a suffix  *)
(* after an operation's name is that operation with one plausible mistake. *)

BeginTick ==
    /\ pc = "idle" /\ rang
    /\ rang' = FALSE
    /\ pc' = IF PQ!Held = {} THEN "idle" ELSE "tick"
    /\ UNCHANGED <<heap, popped, timerVars, cur, temp, elapsed, historyVars>>

Top_of_other_end == CHOOSE p \in PQ!Held : \A q \in PQ!Held : PQ!Before(q, p)
Top == CHOOSE p \in PQ!Held : \A q \in PQ!Held : PQ!Before(p, q)

\* expire <= now
Due(p) == left[p] = 0

\* The loop goes on: the heap is not empty and its top is due.
TopIsDue == PQ!Held # {} /\ Due(Top)

CallHandler ==
    /\ pc = "tick" /\ TopIsDue
    /\ cur' = Top
    /\ pc' = "handler"
    /\ UNCHANGED <<heap, popped, timerVars, rang, temp, elapsed, historyVars>>

\* The handler returns: Pop, whatever it takes out, and remember the timer called.
HandlerReturned ==
    /\ pc = "handler"
    /\ pc' = "tick" /\ cur' = -1 /\ fresh' = {}
    /\ UNCHANGED <<registered, interval, repeat, rang, elapsed>>

PopTimer_forgotten ==
    /\ HandlerReturned
    /\ temp' = Append(temp, cur)
    /\ UNCHANGED <<heap, popped, left, overtook>>

PopTimer_and_rearm ==
    /\ HandlerReturned
    /\ left' = [left EXCEPT ![cur] = interval[cur]]
    /\ UNCHANGED <<heap, popped, temp, overtook>>

PopTimer ==
    /\ HandlerReturned
    /\ PQ!Pop
    /\ temp' = Append(temp, cur)
    /\ overtook' = IF popped' = cur THEN overtook ELSE [overtook EXCEPT ![popped'] = cur]
    /\ UNCHANGED left

EndLoop_by_return ==
    /\ pc = "tick" /\ ~TopIsDue
    /\ pc' = "idle"
    /\ UNCHANGED <<heap, popped, timerVars, rang, cur, temp, elapsed, historyVars>>

EndLoop ==
    /\ pc = "tick" /\ ~TopIsDue
    /\ pc' = "rearm"
    /\ UNCHANGED <<heap, popped, timerVars, rang, cur, temp, elapsed, historyVars>>

\* The second loop, one timer after the other.
Rearmed_once(p) == FALSE
Rearmed(p) == repeat[p]

Rearm ==
    /\ pc = "rearm" /\ temp # <<>>
    /\ IF Rearmed(Head(temp))
       THEN /\ left' = [left EXCEPT ![Head(temp)] = elapsed + interval[Head(temp)]]
            /\ PQ!Insert(Head(temp))
       ELSE UNCHANGED <<heap, popped, left>>
    /\ temp' = Tail(temp)
    /\ UNCHANGED <<registered, interval, repeat, rang, pc, cur, elapsed, historyVars>>

\* tick() returns; alarm(1) is called again.
EndTick ==
    /\ pc = "rearm" /\ temp = <<>>
    /\ pc' = "idle"
    /\ left' = [p \in Addrs |-> IF left[p] > elapsed THEN left[p] - elapsed ELSE 0]
    /\ elapsed' = 0
    /\ UNCHANGED <<heap, popped, registered, interval, repeat, rang, cur, temp, historyVars>>

Tick == BeginTick \/ CallHandler \/ PopTimer \/ EndLoop \/ Rearm \/ EndTick

Next == Tick \/ Register \/ RegisterInHandler \/ Clock

\* Time passes, and a pending SIGALRM is answered: the loop keeps running and
\* handlers return (module Reactor shows when the alarm is set again).
Spec == Init /\ [][Next]_vars /\ WF_vars(Tick) /\ WF_vars(Clock)

-----------------------------------------------------------------------------
\* How often the heap and temp hold a timer, and how often temp does.
InTemp(p) == Cardinality({i \in DOMAIN temp : temp[i] = p})
Copies(p) == heap[p] + InTemp(p)

\* The timers that were taken out in the place of p.
Overtakers(p) == {q \in Addrs : overtook[q] = p}

\* How often they should hold it: once, and once more for each of these; not at all
\* when it was taken out itself in the place of another.
Owed(p) ==
    IF p \in registered /\ overtook[p] = -1 THEN 1 + Cardinality(Overtakers(p)) ELSE 0

\* Every timer is accounted for: heap and temp hold a repeating one as often as they
\* should, a one-shot timer at most that often. No timer is lost or doubled but by a
\* Pop that took out another timer than the one called.
TimersAccounted ==
    \A p \in Addrs : Copies(p) <= Owed(p) /\ (repeat[p] => Copies(p) = Owed(p))

\* One tick calls a handler once, whatever intervals and repetitions there are, and
\* again at most as often as Pop took out another timer in the place of its own.
CallsAccounted ==
    pc = "handler" => InTemp(cur) <= Cardinality(Overtakers(cur))

\* What Pop takes out after a handler returned is the timer whose handler it was,
\* although Top was read before the handler ran, unless the handler itself has
\* registered a timer at a lower address: then it is one of these.
PopTakesCurrentOrFresh ==
    [][pc = "handler" /\ pc' = "tick" =>
           popped' = cur \/ (popped' \in fresh /\ popped' < cur)]_vars

\* The bookkeeping behind these: tick() leaves nothing in temp, only what a handler
\* registers comes before its timer, and that has been called by no one.
Phases ==
    /\ pc = "idle" => temp = <<>> /\ elapsed = 0
    /\ pc = "handler" <=> cur # -1
    /\ pc # "handler" => fresh = {}
    /\ pc = "handler" => cur \in PQ!Held /\ \A q \in PQ!Held \ fresh : PQ!Before(cur, q)
    /\ cur \notin fresh /\ fresh \subseteq registered
    /\ \A p \in Addrs : overtook[p] # -1 => {p, overtook[p]} \subseteq registered
    /\ \A q \in fresh : Overtakers(q) = {} /\ heap[q] = 1

\* The inductive invariant from which the other properties follow.
TickInv == TypeOK /\ TimersAccounted /\ Phases

\* Every timer in the heap fires sooner or later, whatever timers lie before it
\* in the order of the addresses, unless Pop takes it out in the place of another.
EveryTimerFires ==
    \A p \in Addrs :
        (heap[p] > 0) ~> ((pc = "handler" /\ cur = p) \/ overtook[p] # -1)

\* What util_timer.h says of the order of timers, "the smallest value first":
\* when tick() looks at the heap, no timer expires sooner than the top.
TopIsSoonest ==
    pc = "tick" /\ PQ!Held # {} => \A p \in PQ!Held : left[Top] <= left[p]
============================================================================

-------------------------------- MODULE Events --------------------------------
(***************************************************************************)
(* libs/pevents.cpp: Windows-style events on pthreads, as the program      *)
(* builds them (WFMO defined, PULSE not).  A thread waits for one event    *)
(* (WaitForEvent) or for several (WaitForMultipleEvents); SetEvent hands   *)
(* the signal to the waits registered with the event before it leaves the  *)
(* event signalled.                                                        *)
(*                                                                         *)
(* A step of a thread runs from one point where another thread can be      *)
(* noticed to the next: taking a mutex, releasing one that was held over   *)
(* several steps, sleeping, waking, signalling.  A critical section that   *)
(* needs no second mutex is one step; a trylock can still find it busy     *)
(* (EventBusy, WaiterBusy).                                                *)
(***************************************************************************)
EXTENDS Integers, SequencesExt

CONSTANTS
  Threads,    \* the threads that use the events
  Events,     \* the neosmart_event_t in existence
  AutoReset,  \* those created with manualReset = false
  Waits,      \* the neosmart_wfmo_t the allocator can return; freed ones recur
  Menu,       \* Menu[t]: the calls thread t makes
  Rank,       \* the order in which every caller lists the events it waits for
  Spurious    \* whether a condition variable may wake a thread unasked

Nobody == "nobody"   \* no thread: the holder of a free mutex
NoWait == "no wait"  \* no wait record

Calls == [op     : {"set", "reset", "wait", "waitMany"},
          events : Seq(Events),
          all    : BOOLEAN,                          \* waitAll
          time   : {"zero", "finite", "infinite"}]   \* milliseconds

NoCall == [op |-> "none", events |-> <<>>, all |-> FALSE, time |-> "zero"]

ASSUME EventsAssumption ==
  /\ IsFiniteSet(Events)
  /\ AutoReset \subseteq Events
  /\ Nobody \notin Threads
  /\ NoWait \notin Waits
  /\ Spurious \in BOOLEAN

\* Every call names an event, all but waitMany just one; no array lists an
\* event twice, and all arrays list common events in one order.  The program
\* has one array, that of thread_function01 in TcpServer.cpp.
ASSUME MenuAssumption ==
  /\ Rank \in [Events -> Nat]
  /\ Menu \in [Threads -> SUBSET Calls]
  /\ \A t \in Threads : \A c \in Menu[t] :
       /\ Len(c.events) >= 1
       /\ c.op # "waitMany" => Len(c.events) = 1
       /\ \A i, j \in DOMAIN c.events :
            i < j => Rank[c.events[i]] < Rank[c.events[j]]

VARIABLES
  State,            \* [Events -> BOOLEAN]: the event is signalled
  RegisteredWaits,  \* [Events -> Seq(WaitInfos)]: the event's deque
  eventMutex,       \* [Events -> the thread holding it]
  wfmo,             \* [Waits -> the fields of the record]
  waiterMutex,      \* [Waits -> the thread holding it]
  pc,               \* [Threads -> where the thread is]
  call,             \* [Threads -> the call it makes]
  pos,              \* [Threads -> position in call.events of the event at hand]
  scan,             \* [Threads -> position in the deque it purges]
  own,              \* [Threads -> the record of its WaitForMultipleEvents]
  target,           \* [Threads -> the record whose waiter SetEvent signals next]
  result            \* [Threads -> return value and waitIndex of its last call]

shared == <<State, RegisteredWaits, eventMutex, wfmo, waiterMutex>>
local == <<call, pos, scan, own, target, result>>
vars == <<shared, pc, local>>

NotFired == -1   \* FiredEvent before an event fires

Freed == [Live |-> FALSE, RefCount |-> 0, WaitAll |-> FALSE,
          StillWaiting |-> FALSE, Status |-> NotFired]

Records == [Live : BOOLEAN, RefCount : Nat, WaitAll : BOOLEAN,
            StillWaiting : BOOLEAN, Status : Int]

WaitInfos == [Waiter : Waits, WaitIndex : Nat]

NoResult == [code |-> "none", index |-> NotFired]

Results == [code : {"none", "success", "timeout"}, index : Int]

Locations ==
  {"idle",
   "setLock", "notify", "signalWaiter", "signalEvent",            \* SetEvent
   "resetLock",                                                   \* ResetEvent
   "waitLock", "waitAsleep", "waitExpired",                       \* WaitForEvent
   "register", "purge", "test", "asleep", "woken", "expired", "finish"}
                                                 \* WaitForMultipleEvents

\* An event created with initialState is set before anyone can wait for it.
Init ==
  /\ State \in [Events -> BOOLEAN]
  /\ RegisteredWaits = [e \in Events |-> <<>>]
  /\ eventMutex = [e \in Events |-> Nobody]
  /\ wfmo = [w \in Waits |-> Freed]
  /\ waiterMutex = [w \in Waits |-> Nobody]
  /\ pc = [t \in Threads |-> "idle"]
  /\ call = [t \in Threads |-> NoCall]
  /\ pos = [t \in Threads |-> 1]
  /\ scan = [t \in Threads |-> 1]
  /\ own = [t \in Threads |-> NoWait]
  /\ target = [t \in Threads |-> NoWait]
  /\ result = [t \in Threads |-> NoResult]

------------------------------------------------------------------------------
(* Operators the actions share. *)

Event(t) == call[t].events[pos[t]]

Goto(t, location) == pc' = [pc EXCEPT ![t] = location]

\* A thread waking the threads in S as it goes to a location itself.
GotoWaking(t, location, S) ==
  pc' = [u \in Threads |->
           IF u = t THEN location
           ELSE IF u \in S
                THEN IF pc[u] = "asleep" THEN "woken" ELSE "waitLock"
                ELSE pc[u]]

LockEvent(t) ==
  /\ eventMutex[Event(t)] = Nobody
  /\ eventMutex' = [eventMutex EXCEPT ![Event(t)] = t]

UnlockEvent(t) == eventMutex' = [eventMutex EXCEPT ![Event(t)] = Nobody]

\* A short critical section on the event: locked and unlocked in one step.
WithEvent(t) == eventMutex[Event(t)] = Nobody /\ UNCHANGED eventMutex

LockWaiter(t) ==
  /\ waiterMutex[own[t]] = Nobody
  /\ waiterMutex' = [waiterMutex EXCEPT ![own[t]] = t]

BugSleepsLocked(t) == UNCHANGED waiterMutex   \* sleeps with the mutex held

UnlockWaiter(t) == waiterMutex' = [waiterMutex EXCEPT ![own[t]] = Nobody]

BugNotConsumed(e) == UNCHANGED State   \* State = false forgotten

\* What a successful wait does to the event: an auto-reset one is consumed.
Consume(e) == State' = [State EXCEPT ![e] = e \notin AutoReset]

\* --RefCount, and the deletion of a record nobody refers to any more
Unreferenced(r) ==
  IF r.RefCount = 1 THEN Freed ELSE [r EXCEPT !.RefCount = @ - 1]

------------------------------------------------------------------------------
(* Bugs a change to pevents.cpp could bring in, one for each property.     *)

BugUnownedRecord(c) ==   \* RefCount starts at 0
  [Live |-> TRUE, RefCount |-> 0, WaitAll |-> c.all, StillWaiting |-> TRUE,
   Status |-> IF c.all THEN Len(c.events) ELSE NotFired]

BugKeepsReference(r, i) ==   \* no --RefCount for a wait that is notified
  IF r.WaitAll THEN [r EXCEPT !.Status = @ - 1]
  ELSE [r EXCEPT !.Status = i, !.StillWaiting = FALSE]

BugCountsFromOne(r, i) ==   \* the position instead of the index is reported
  IF r.WaitAll
  THEN [r EXCEPT !.RefCount = @ - 1, !.Status = @ - 1]
  ELSE [r EXCEPT !.RefCount = @ - 1, !.Status = i + 1, !.StillWaiting = FALSE]

BugNoSignal(w) == {}   \* pthread_cond_signal forgotten

BugDoneOneEarly(r) ==   \* a wait for all content with all but one
  IF r.WaitAll THEN r.Status <= 1 ELSE r.Status # NotFired

BugSignalForBroadcast(e, sleepers) ==   \* one sleeper woken on any event
  IF sleepers = {} THEN {{}} ELSE {{u} : u \in sleepers}

------------------------------------------------------------------------------
(* SetEvent *)

FrontWait(e) == Head(RegisteredWaits[e]).Waiter

FrontIndex(e) == Head(RegisteredWaits[e]).WaitIndex

PopFront(e) == RegisteredWaits' = [RegisteredWaits EXCEPT ![e] = Tail(@)]

SetLock(t) ==
  /\ pc[t] = "setLock"
  /\ LockEvent(t)
  /\ State' = [State EXCEPT ![Event(t)] = TRUE]
  /\ Goto(t, "notify")
  /\ UNCHANGED <<RegisteredWaits, wfmo, waiterMutex, local>>

\* The front wait is over: drop the event's reference to it.
NotifyExpired(t) ==
  LET e == Event(t) w == FrontWait(e) IN
  /\ pc[t] = "notify" /\ RegisteredWaits[e] # <<>>
  /\ waiterMutex[w] = Nobody
  /\ ~wfmo[w].StillWaiting
  /\ wfmo' = [wfmo EXCEPT ![w] = Unreferenced(@)]
  /\ PopFront(e)
  /\ UNCHANGED <<State, eventMutex, waiterMutex, pc, local>>

\* What a wait's record becomes when its event number i fires.
Notified(r, i) ==
  IF r.WaitAll
  THEN [r EXCEPT !.RefCount = @ - 1, !.Status = @ - 1]
  ELSE [r EXCEPT !.RefCount = @ - 1, !.Status = i, !.StillWaiting = FALSE]

\* The front wait gets the signal.  Its mutex is released at the end of this
\* step and its condition variable signalled in the next.
NotifyWaiter(t) ==
  LET e == Event(t) w == FrontWait(e) IN
  /\ pc[t] = "notify" /\ RegisteredWaits[e] # <<>>
  /\ waiterMutex[w] = Nobody
  /\ wfmo[w].StillWaiting
  /\ wfmo' = [wfmo EXCEPT ![w] = Notified(@, FrontIndex(e))]
  /\ Consume(e)
  /\ PopFront(e)
  /\ target' = [target EXCEPT ![t] = w]
  /\ Goto(t, "signalWaiter")
  /\ UNCHANGED <<eventMutex, waiterMutex, call, pos, scan, own, result>>

\* Whom pthread_cond_signal on the record wakes: its waiter, or the waiter that
\* uses the memory by now when the record was deleted meanwhile.
WaiterAsleep(w) == {u \in Threads : own[u] = w /\ pc[u] = "asleep"}

SignalWaiter(t) ==
  LET done == Event(t) \in AutoReset IN
  /\ pc[t] = "signalWaiter"
  /\ GotoWaking(t, IF done THEN "idle" ELSE "notify", WaiterAsleep(target[t]))
  /\ IF done THEN UnlockEvent(t) ELSE UNCHANGED eventMutex
  /\ call' = [call EXCEPT ![t] = IF done THEN NoCall ELSE @]
  /\ target' = [target EXCEPT ![t] = NoWait]
  /\ UNCHANGED <<State, RegisteredWaits, wfmo, waiterMutex,
                 pos, scan, own, result>>

\* No wait is left.  An auto-reset event found unsignalled here would return
\* with its mutex held.
NotifyNone(t) ==
  LET e == Event(t) stuck == e \in AutoReset /\ ~State[e] IN
  /\ pc[t] = "notify" /\ RegisteredWaits[e] = <<>>
  /\ Goto(t, IF stuck THEN "idle" ELSE "signalEvent")
  /\ IF stuck THEN UNCHANGED eventMutex ELSE UnlockEvent(t)
  /\ UNCHANGED <<State, RegisteredWaits, wfmo, waiterMutex, local>>

EventSleepers(e) == {u \in Threads : pc[u] = "waitAsleep" /\ Event(u) = e}

\* The sets of sleepers that pthread_cond_signal, of an auto-reset event, and
\* pthread_cond_broadcast, of a manual-reset one, may wake.
WakeChoices(e, sleepers) ==
  IF e \in AutoReset /\ sleepers # {}
  THEN {{u} : u \in sleepers}
  ELSE {sleepers}

SignalEvent(t) ==
  /\ pc[t] = "signalEvent"
  /\ \E S \in WakeChoices(Event(t), EventSleepers(Event(t))) :
       GotoWaking(t, "idle", S)
  /\ call' = [call EXCEPT ![t] = NoCall]
  /\ UNCHANGED <<shared, pos, scan, own, target, result>>

------------------------------------------------------------------------------
(* ResetEvent *)

Reset(t) ==
  /\ pc[t] = "resetLock"
  /\ WithEvent(t)
  /\ State' = [State EXCEPT ![Event(t)] = FALSE]
  /\ Goto(t, "idle")
  /\ call' = [call EXCEPT ![t] = NoCall]
  /\ UNCHANGED <<RegisteredWaits, wfmo, waiterMutex,
                 pos, scan, own, target, result>>

------------------------------------------------------------------------------
(* WaitForEvent.  A thread signalled on the event's condition variable is  *)
(* at waitLock again: it takes the mutex and tests State like a newcomer.  *)

ReturnFromWait(t, code) ==
  /\ Goto(t, "idle")
  /\ call' = [call EXCEPT ![t] = NoCall]
  /\ result' = [result EXCEPT ![t] = [code |-> code, index |-> NotFired]]
  /\ UNCHANGED <<RegisteredWaits, wfmo, waiterMutex, pos, scan, own, target>>

\* Another thread holds the event's mutex, or is about to take it.
EventBusy(t) ==
  \/ eventMutex[Event(t)] # Nobody
  \/ \E u \in Threads \ {t} :
       /\ pc[u] \in {"setLock", "resetLock", "waitLock", "waitExpired", "register"}
       /\ Event(u) = Event(t)

WaitFindsBusy(t) ==
  /\ pc[t] = "waitLock" /\ call[t].time = "zero"
  /\ EventBusy(t)
  /\ ReturnFromWait(t, "timeout")
  /\ UNCHANGED <<State, eventMutex>>

WaitTakes(t) ==
  /\ pc[t] = "waitLock"
  /\ WithEvent(t)
  /\ State[Event(t)]
  /\ Consume(Event(t))
  /\ ReturnFromWait(t, "success")

WaitFindsUnset(t) ==
  /\ pc[t] = "waitLock" /\ call[t].time = "zero"
  /\ WithEvent(t)
  /\ ~State[Event(t)]
  /\ ReturnFromWait(t, "timeout")
  /\ UNCHANGED State

WaitSleeps(t) ==
  /\ pc[t] = "waitLock" /\ call[t].time # "zero"
  /\ WithEvent(t)
  /\ ~State[Event(t)]
  /\ Goto(t, "waitAsleep")
  /\ UNCHANGED <<State, RegisteredWaits, wfmo, waiterMutex, local>>

\* The deadline passes; the thread still has to take the mutex, then returns
\* ETIMEDOUT without looking at State.
WaitExpires(t) ==
  /\ pc[t] = "waitAsleep" /\ call[t].time = "finite"
  /\ Goto(t, "waitExpired")
  /\ UNCHANGED <<shared, local>>

WaitGivesUp(t) ==
  /\ pc[t] = "waitExpired"
  /\ WithEvent(t)
  /\ ReturnFromWait(t, "timeout")
  /\ UNCHANGED State

------------------------------------------------------------------------------
(* WaitForMultipleEvents *)

Count(t) == Len(call[t].events)

NewRecord(c) ==
  [Live |-> TRUE, RefCount |-> 1, WaitAll |-> c.all, StillWaiting |-> TRUE,
   Status |-> IF c.all THEN Len(c.events) ELSE NotFired]

RegisterLock(t) ==
  /\ pc[t] = "register"
  /\ LockEvent(t)
  /\ scan' = [scan EXCEPT ![t] = 1]
  /\ Goto(t, "purge")
  /\ UNCHANGED <<State, RegisteredWaits, wfmo, waiterMutex,
                 call, pos, own, target, result>>

\* RemoveExpiredWaitHelper on the deque's entries, one at a time
Scanned(t) == RegisteredWaits[Event(t)][scan[t]].Waiter

Purging(t) == pc[t] = "purge" /\ scan[t] <= Len(RegisteredWaits[Event(t)])

\* Another thread holds the mutex of a record, or is about to take it.
WaiterBusy(w, t) ==
  \/ waiterMutex[w] # Nobody
  \/ \E u \in Threads \ {t} :
       \/ pc[u] = "notify" /\ RegisteredWaits[Event(u)] # <<>>
                           /\ FrontWait(Event(u)) = w
       \/ Purging(u) /\ Scanned(u) = w
       \/ pc[u] \in {"woken", "expired"} /\ own[u] = w

PurgeKeeps(t) ==
  /\ Purging(t)
  /\ WaiterBusy(Scanned(t), t) \/ wfmo[Scanned(t)].StillWaiting
  /\ scan' = [scan EXCEPT ![t] = @ + 1]
  /\ UNCHANGED <<shared, pc, call, pos, own, target, result>>

PurgeRemoves(t) ==
  /\ Purging(t)
  /\ waiterMutex[Scanned(t)] = Nobody
  /\ ~wfmo[Scanned(t)].StillWaiting
  /\ wfmo' = [wfmo EXCEPT ![Scanned(t)] = Unreferenced(@)]
  /\ RegisteredWaits' =
       [RegisteredWaits EXCEPT ![Event(t)] = RemoveAt(@, scan[t])]
  /\ UNCHANGED <<State, eventMutex, waiterMutex, pc, local>>

Purged(t) == pc[t] = "purge" /\ scan[t] > Len(RegisteredWaits[Event(t)])

\* The loop over the array goes on, or ends with the test of milliseconds.
NextEvent(t) ==
  /\ pos' = [pos EXCEPT ![t] = @ + 1]
  /\ Goto(t, IF pos[t] < Count(t) THEN "register"
             ELSE IF call[t].time = "zero" THEN "finish" ELSE "test")
  /\ result' = [result EXCEPT ![t].code =
       IF pos[t] = Count(t) /\ call[t].time = "zero" THEN "timeout" ELSE @]

TakeForAny(t) ==
  /\ Purged(t) /\ State[Event(t)] /\ ~call[t].all
  /\ Consume(Event(t))
  /\ UnlockEvent(t)
  /\ wfmo' = [wfmo EXCEPT ![own[t]].Status = pos[t] - 1]
  /\ result' = [result EXCEPT ![t].code = "success"]
  /\ Goto(t, "finish")
  /\ UNCHANGED <<RegisteredWaits, waiterMutex, call, pos, scan, own, target>>

TakeForAll(t) ==
  /\ Purged(t) /\ State[Event(t)] /\ call[t].all
  /\ Consume(Event(t))
  /\ UnlockEvent(t)
  /\ wfmo' = [wfmo EXCEPT ![own[t]].Status = @ - 1]
  /\ NextEvent(t)
  /\ UNCHANGED <<RegisteredWaits, waiterMutex, call, scan, own, target>>

Register(t) ==
  /\ Purged(t) /\ ~State[Event(t)]
  /\ RegisteredWaits' =
       [RegisteredWaits EXCEPT ![Event(t)] =
          Append(@, [Waiter |-> own[t], WaitIndex |-> pos[t] - 1])]
  /\ wfmo' = [wfmo EXCEPT ![own[t]].RefCount = @ + 1]
  /\ UnlockEvent(t)
  /\ NextEvent(t)
  /\ UNCHANGED <<State, waiterMutex, call, scan, own, target>>

Done(r) == IF r.WaitAll THEN r.Status = 0 ELSE r.Status # NotFired

TestDone(t) ==
  /\ pc[t] = "test"
  /\ Done(wfmo[own[t]])
  /\ result' = [result EXCEPT ![t].code = "success"]
  /\ Goto(t, "finish")
  /\ UNCHANGED <<shared, call, pos, scan, own, target>>

TestSleeps(t) ==
  /\ pc[t] = "test"
  /\ ~Done(wfmo[own[t]])
  /\ UnlockWaiter(t)
  /\ Goto(t, "asleep")
  /\ UNCHANGED <<State, RegisteredWaits, eventMutex, wfmo, local>>

Wake(t) ==
  /\ pc[t] = "woken"
  /\ LockWaiter(t)
  /\ Goto(t, "test")
  /\ UNCHANGED <<State, RegisteredWaits, eventMutex, wfmo, local>>

Expires(t) ==
  /\ pc[t] = "asleep" /\ call[t].time = "finite"
  /\ Goto(t, "expired")
  /\ UNCHANGED <<shared, local>>

ExpiredLock(t) ==
  /\ pc[t] = "expired"
  /\ LockWaiter(t)
  /\ result' = [result EXCEPT ![t].code = "timeout"]
  /\ Goto(t, "finish")
  /\ UNCHANGED <<State, RegisteredWaits, eventMutex, wfmo,
                 call, pos, scan, own, target>>

\* waitIndex is read from the union Status, whatever the wait was for.
Finish(t) ==
  LET w == own[t] IN
  /\ pc[t] = "finish"
  /\ result' = [result EXCEPT ![t].index = wfmo[w].Status]
  /\ wfmo' = [wfmo EXCEPT ![w] = Unreferenced([@ EXCEPT !.StillWaiting = FALSE])]
  /\ UnlockWaiter(t)
  /\ own' = [own EXCEPT ![t] = NoWait]
  /\ call' = [call EXCEPT ![t] = NoCall]
  /\ pos' = [pos EXCEPT ![t] = 1]
  /\ scan' = [scan EXCEPT ![t] = 1]
  /\ Goto(t, "idle")
  /\ UNCHANGED <<State, RegisteredWaits, eventMutex, target>>

------------------------------------------------------------------------------
(* The calls. *)

CallOne(t, c, op, location) ==
  /\ pc[t] = "idle"
  /\ c.op = op
  /\ call' = [call EXCEPT ![t] = c]
  /\ result' = [result EXCEPT ![t] = NoResult]
  /\ Goto(t, location)
  /\ UNCHANGED <<shared, pos, scan, own, target>>

SetEvent(t, c) == CallOne(t, c, "set", "setLock")
ResetEvent(t, c) == CallOne(t, c, "reset", "resetLock")
WaitForEvent(t, c) == CallOne(t, c, "wait", "waitLock")

\* The record is created and its mutex locked before anyone can see it.
WaitForMultipleEvents(t, c) ==
  /\ pc[t] = "idle"
  /\ c.op = "waitMany"
  /\ \E w \in Waits :
       /\ ~wfmo[w].Live
       /\ wfmo' = [wfmo EXCEPT ![w] = NewRecord(c)]
       /\ waiterMutex' = [waiterMutex EXCEPT ![w] = t]
       /\ own' = [own EXCEPT ![t] = w]
  /\ call' = [call EXCEPT ![t] = c]
  /\ result' = [result EXCEPT ![t] = NoResult]
  /\ Goto(t, "register")
  /\ UNCHANGED <<State, RegisteredWaits, eventMutex, pos, scan, target>>

SpuriousWakeup(t) ==
  /\ Spurious
  /\ pc[t] \in {"asleep", "waitAsleep"}
  /\ Goto(t, IF pc[t] = "asleep" THEN "woken" ELSE "waitLock")
  /\ UNCHANGED <<shared, local>>

------------------------------------------------------------------------------
SetStep(t) ==
  \/ SetLock(t) \/ NotifyExpired(t) \/ NotifyWaiter(t) \/ SignalWaiter(t)
  \/ NotifyNone(t) \/ SignalEvent(t)

WaitStep(t) ==
  \/ WaitFindsBusy(t) \/ WaitTakes(t) \/ WaitFindsUnset(t) \/ WaitSleeps(t)
  \/ WaitGivesUp(t)

WaitManyStep(t) ==
  \/ RegisterLock(t) \/ PurgeKeeps(t) \/ PurgeRemoves(t)
  \/ TakeForAny(t) \/ TakeForAll(t) \/ Register(t)
  \/ TestDone(t) \/ TestSleeps(t) \/ Wake(t) \/ ExpiredLock(t) \/ Finish(t)

Step(t) == SetStep(t) \/ Reset(t) \/ WaitStep(t) \/ WaitManyStep(t)

Call(t) ==
  \E c \in Menu[t] :
    \/ SetEvent(t, c) \/ ResetEvent(t, c)
    \/ WaitForEvent(t, c) \/ WaitForMultipleEvents(t, c)

Clock(t) == WaitExpires(t) \/ Expires(t) \/ SpuriousWakeup(t)

Next == \E t \in Threads : Step(t) \/ Call(t) \/ Clock(t)

\* A thread inside a call goes on when it can.  Nothing makes a thread call,
\* a deadline pass or a sleeping thread wake unasked.
Spec == Init /\ [][Next]_vars /\ \A t \in Threads : WF_vars(Step(t))

------------------------------------------------------------------------------
(* Properties. *)

TypeOK ==
  /\ State \in [Events -> BOOLEAN]
  /\ RegisteredWaits \in [Events -> Seq(WaitInfos)]
  /\ eventMutex \in [Events -> Threads \cup {Nobody}]
  /\ wfmo \in [Waits -> Records]
  /\ waiterMutex \in [Waits -> Threads \cup {Nobody}]
  /\ pc \in [Threads -> Locations]
  /\ call \in [Threads -> Calls \cup {NoCall}]
  /\ pos \in [Threads -> Nat \ {0}]
  /\ scan \in [Threads -> Nat \ {0}]
  /\ own \in [Threads -> Waits \cup {NoWait}]
  /\ target \in [Threads -> Waits \cup {NoWait}]
  /\ result \in [Threads -> Results]

\* The wait of record w is in the deque of event e.
IsRegistered(w, e) ==
  \E i \in DOMAIN RegisteredWaits[e] : RegisteredWaits[e][i].Waiter = w

\* A record's RefCount is the number of deques that hold it, plus one while
\* its WaitForMultipleEvents runs: it is deleted once, by whoever drops the
\* last reference, and never while a deque still points to it.
RefCountExact ==
  \A w \in Waits :
    wfmo[w].RefCount = Cardinality({e \in Events : IsRegistered(w, e)})
                       + Cardinality({t \in Threads : own[t] = w})

\* An event is never left signalled while a wait is registered with it.
SignalledHasNoWaiter ==
  \A e \in Events :
    State[e] /\ eventMutex[e] = Nobody => RegisteredWaits[e] = <<>>

\* A wait for several events whose condition holds does not stay asleep: the
\* SetEvent that made it hold is about to signal it.
FiredWaiterIsSignalled ==
  \A t \in Threads :
    pc[t] = "asleep" /\ Done(wfmo[own[t]]) =>
      \E u \in Threads : pc[u] = "signalWaiter" /\ target[u] = own[t]

\* A thread sleeps in WaitForEvent on a signalled event only while a signal
\* for the event is due, or another thread is about to take the event.
SleeperIsSignalled ==
  \A t \in Threads :
    LET e == Event(t) IN
    pc[t] = "waitAsleep" /\ State[e] /\ eventMutex[e] = Nobody =>
      \E u \in Threads :
        /\ \/ pc[u] = "signalEvent"
           \/ pc[u] = "waitLock" /\ call[u].time # "zero"
        /\ Event(u) = e

\* Status keeps its meaning through scanning, sleeping and signalling.  In a
\* wait for all it counts the events still missing: those not scanned yet and
\* those registered with.  A wait for any that has not fired is registered
\* with every event scanned, and one that has fired names an event it scanned.
StatusExact ==
  \A t \in Threads :
    own[t] # NoWait =>
      LET array == call[t].events
          status == wfmo[own[t]].Status
          missing == {i \in 1 .. Count(t) :
                        i >= pos[t] \/ IsRegistered(own[t], array[i])}
      IN  IF call[t].all
          THEN status = Cardinality(missing)
          ELSE IF status = NotFired
               THEN missing = 1 .. Count(t)
               ELSE /\ status + 1 \in 1 .. pos[t]
                    /\ ~IsRegistered(own[t], array[status + 1])

\* The mutex a thread is blocked on, as the thread that holds it.
BlockedOn(t) ==
  CASE pc[t] \in {"setLock", "resetLock", "waitExpired", "register"}
         -> eventMutex[Event(t)]
    [] pc[t] = "waitLock" /\ call[t].time # "zero" -> eventMutex[Event(t)]
    [] pc[t] = "notify" /\ RegisteredWaits[Event(t)] # <<>>
         -> waiterMutex[FrontWait(Event(t))]
    [] pc[t] \in {"woken", "expired"} -> waiterMutex[own[t]]
    [] OTHER -> Nobody

Resting(t) == pc[t] \in {"idle", "asleep", "waitAsleep"}

\* SetEvent takes an event's mutex and then a wait's, WaitForMultipleEvents
\* takes them the other way round.  Still no threads block each other in a
\* circle, and no thread is blocked on one that sleeps or left the library.
NoDeadlock ==
  \A S \in (SUBSET Threads) \ {{}} :
    ~ \A t \in S : \E u \in S \cup {v \in Threads : Resting(v)} : BlockedOn(t) = u

\* A wait for several events that fired returns, whoever calls meanwhile.
FiredWaitReturns ==
  \A t \in Threads :
    (pc[t] = "asleep" /\ Done(wfmo[own[t]])) ~> (pc[t] = "idle")

\* pthread_cond_signal is called on a record that exists: what the assertion
\* after the call, in SetEvent, takes for granted.
SignalTargetsLive ==
  \A t \in Threads : pc[t] = "signalWaiter" => wfmo[target[t]].Live

\* A wait for all that acquired every event reports success: only a wait that
\* found an event unfired is not done.
AllAcquiredMeansSuccess ==
  \A t \in Threads :
    pc[t] = "finish" /\ call[t].all /\ wfmo[own[t]].Status = 0
      => result[t].code = "success"

------------------------------------------------------------------------------
(* The abstract events these implement. *)

UpEvents ==
  {e \in Events :
     /\ State[e] /\ RegisteredWaits[e] = <<>>
     /\ \A t \in Threads : pc[t] = "signalWaiter" => Event(t) # e}

Setting(t) ==
  \/ pc[t] = "setLock"
  \/ pc[t] = "notify" /\ RegisteredWaits[Event(t)] # <<>>
  \/ pc[t] = "signalWaiter" /\ Event(t) \notin AutoReset

PhaseOf(t) ==
  CASE pc[t] = "idle" -> "out"
    [] pc[t] = "resetLock" -> "lowering"
    [] Setting(t) -> "setting"
    [] pc[t] \in {"notify", "signalWaiter", "signalEvent"} /\ ~Setting(t) -> "set"
    [] OTHER -> "waiting"

Obtained(t) ==
  IF own[t] = NoWait THEN {}
  ELSE LET array == call[t].events status == wfmo[own[t]].Status IN
       IF call[t].all
       THEN {array[i] : i \in {j \in 1 .. Count(t) :
                                 j < pos[t] /\ ~IsRegistered(own[t], array[j])}}
       ELSE IF status = NotFired THEN {} ELSE {array[status + 1]}

Phases == [t \in Threads |-> PhaseOf(t)]

Gains == [t \in Threads |-> Obtained(t)]

Outcomes == [t \in Threads |-> IF pc[t] = "idle" THEN result[t] ELSE NoResult]

Promise == INSTANCE EventPromise WITH
  Requests <- Menu,
  up <- UpEvents,
  phase <- Phases,
  request <- call,
  got <- Gains,
  outcome <- Outcomes

\* Every step of the library is a step of the abstract events: no signal is
\* both handed on and left behind, none serves two waits, and no wait reports
\* an event it did not obtain.
KeepsPromise == Promise!Spec
=============================================================================

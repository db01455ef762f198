---------------------------- MODULE EventsProofs -----------------------------
(***************************************************************************)
(* Theorems about the events of libs/pevents.cpp, for any number of        *)
(* threads, events and wait records and every interleaving of their calls. *)
(***************************************************************************)
EXTENDS Events, DataFacts, FiniteSetTheorems

------------------------------------------------------------------------------
(* The inductive invariant.                                                *)

InSet == {"setLock", "notify", "signalWaiter", "signalEvent"}
InWait == {"waitLock", "waitAsleep", "waitExpired"}
InScan == {"register", "purge"}
AfterScan == {"test", "asleep", "woken", "expired"}
InOne == InSet \cup {"resetLock"} \cup InWait
InMany == InScan \cup AfterScan \cup {"finish"}

\* Where thread t is tells what its call and its record are.
InCall(t) ==
  /\ pc[t] # "idle" => call[t] \in Menu[t]
  /\ pc[t] \notin InMany => own[t] = NoWait /\ pos[t] = 1
  /\ pc[t] \in InMany => own[t] \in Waits
  /\ pc[t] \in InScan => pos[t] \in 1 .. Count(t)
  /\ pc[t] \in AfterScan => pos[t] = Count(t) + 1
  /\ pc[t] = "finish" => pos[t] \in 1 .. Count(t) + 1
  /\ pc[t] = "purge" => scan[t] <= Len(RegisteredWaits[Event(t)]) + 1
  /\ pc[t] \in {"waitAsleep", "waitExpired"} => call[t].time # "zero"

HoldsEvent(t) == pc[t] \in {"notify", "signalWaiter", "purge"}

HoldsWaiter(t) == pc[t] \in {"register", "purge", "test", "finish"}

\* Who holds a mutex is where it needs it, and who is there holds it.
EventMutexHeld ==
  \A e \in Events, t \in Threads : eventMutex[e] = t <=> HoldsEvent(t) /\ Event(t) = e

WaiterMutexHeld ==
  \A w \in Waits, t \in Threads : waiterMutex[w] = t <=> HoldsWaiter(t) /\ own[t] = w

\* No two threads use one record.
OwnersDiffer ==
  \A t, u \in Threads : own[t] = own[u] /\ own[t] # NoWait => t = u

\* A wait is at most once in a deque.
OnceEach(s) == \A i, j \in DOMAIN s : s[i].Waiter = s[j].Waiter => i = j

\* The entries of a running wait carry the indices of events it scanned.
EntriesFollow ==
  \A t \in Threads, e \in Events :
    \A x \in ToSet(RegisteredWaits[e]) :
      x.Waiter = own[t] =>
        /\ x.WaitIndex + 1 \in 1 .. Count(t) /\ x.WaitIndex + 1 < pos[t]
        /\ call[t].events[x.WaitIndex + 1] = e

\* A record exists while something refers to it, and waits while a thread has it.
RecordsFollow ==
  /\ \A w \in Waits :
       /\ wfmo[w].Live <=> wfmo[w].RefCount # 0
       /\ wfmo[w].StillWaiting => \E t \in Threads : own[t] = w
  /\ \A t \in Threads : own[t] # NoWait =>
       /\ wfmo[own[t]].WaitAll = call[t].all
       /\ ~wfmo[own[t]].StillWaiting => ~call[t].all /\ wfmo[own[t]].Status # NotFired
       /\ wfmo[own[t]].StillWaiting /\ ~call[t].all /\ pc[t] # "finish" =>
            wfmo[own[t]].Status = NotFired
       /\ pc[t] \in InScan => wfmo[own[t]].StillWaiting

SetterHolds(e) ==
  \E u \in Threads : pc[u] \in {"notify", "signalWaiter"} /\ Event(u) = e

\* A signalled event with a wait in its deque is being set.
SignalsFollow ==
  /\ \A e \in Events : State[e] /\ RegisteredWaits[e] # <<>> => SetterHolds(e)
  /\ \A t \in Threads :
       /\ pc[t] = "notify" => State[Event(t)]
       /\ pc[t] = "signalWaiter" => (State[Event(t)] <=> Event(t) \notin AutoReset)

\* A thread asleep on a signalled event has a signal coming, or an auto-reset event
\* has a taker.
SleepersFollow ==
  \A t \in Threads :
    pc[t] = "waitAsleep" /\ State[Event(t)] =>
      \/ SetterHolds(Event(t))
      \/ \E u \in Threads : pc[u] = "signalEvent" /\ Event(u) = Event(t)
      \/ /\ Event(t) \in AutoReset
         /\ \E u \in Threads : /\ pc[u] = "waitLock" /\ call[u].time # "zero"
                               /\ Event(u) = Event(t)

\* The positions of the array that a wait has not obtained.
Missing(t) ==
  {i \in 1 .. Count(t) : i >= pos[t] \/ IsRegistered(own[t], call[t].events[i])}

\* StatusExact of one thread; the index of a wait that fired is in its array.
StatusFits(t) ==
  own[t] # NoWait =>
    IF call[t].all
    THEN wfmo[own[t]].Status = Cardinality(Missing(t))
    ELSE IF wfmo[own[t]].Status = NotFired
         THEN Missing(t) = 1 .. Count(t)
         ELSE /\ wfmo[own[t]].Status + 1 \in 1 .. pos[t]
              /\ wfmo[own[t]].Status + 1 \in 1 .. Count(t)
              /\ ~IsRegistered(own[t], call[t].events[wfmo[own[t]].Status + 1])

\* What holds of mutexes, calls, deques and records at every step.
Base ==
  /\ TypeOK
  /\ \A t \in Threads : InCall(t)
  /\ EventMutexHeld /\ WaiterMutexHeld
  /\ OwnersDiffer
  /\ \A e \in Events : OnceEach(RegisteredWaits[e])
  /\ EntriesFollow
  /\ RecordsFollow
  /\ RefCountExact

IInv ==
  /\ Base /\ SignalsFollow /\ SleepersFollow /\ FiredWaiterIsSignalled
  /\ \A t \in Threads : StatusFits(t)

------------------------------------------------------------------------------
(* What a step of one thread leaves alone.                                 *)

Acts(t) == Step(t) \/ Call(t) \/ Clock(t)

\* The other threads keep their locals; those asleep may be woken.
OthersAside(t) ==
  \A u \in Threads \ {t} :
    /\ call'[u] = call[u] /\ pos'[u] = pos[u] /\ scan'[u] = scan[u] /\ own'[u] = own[u]
    /\ target'[u] = target[u] /\ result'[u] = result[u]
    /\ \/ pc'[u] = pc[u]
       \/ pc[u] = "asleep" /\ pc'[u] = "woken"
       \/ pc[u] = "waitAsleep" /\ pc'[u] = "waitLock"

\* A signal moves sleepers from their wait to where they go on, and nobody else.
LEMMA SleepersWoken ==
  ASSUME TypeOK, NEW t \in Threads, NEW location, NEW S, GotoWaking(t, location, S),
         \A u \in S : pc[u] \in {"asleep", "waitAsleep"}
  PROVE  \A u \in Threads \ {t} :
           \/ pc'[u] = pc[u]
           \/ pc[u] = "asleep" /\ pc'[u] = "woken"
           \/ pc[u] = "waitAsleep" /\ pc'[u] = "waitLock"
BY DEF TypeOK, GotoWaking

\* A step of one thread leaves the others where they are, but for the sleepers it wakes.
LEMMA OthersLeftAside ==
  ASSUME TypeOK, NEW t \in Threads, Acts(t)
  PROVE  OthersAside(t)
<1> USE DEF TypeOK, OthersAside, Goto
<1>1. CASE SetStep(t)
  <2>1. CASE SetLock(t) \/ NotifyExpired(t) \/ NotifyWaiter(t) \/ NotifyNone(t)
    BY <2>1 DEF SetLock, NotifyExpired, NotifyWaiter, NotifyNone, local
  <2>2. CASE SignalWaiter(t)
    <3>1. \A u \in WaiterAsleep(target[t]) : pc[u] \in {"asleep", "waitAsleep"}
      BY DEF WaiterAsleep
    <3> QED
      BY <2>2, <3>1, SleepersWoken DEF SignalWaiter
  <2>3. CASE SignalEvent(t)
    <3>1. PICK S \in WakeChoices(Event(t), EventSleepers(Event(t))) : GotoWaking(t, "idle", S)
      BY <2>3 DEF SignalEvent
    <3>2. \A u \in S : pc[u] \in {"asleep", "waitAsleep"}
      BY DEF WakeChoices, EventSleepers
    <3> QED
      BY <2>3, <3>1, <3>2, SleepersWoken DEF SignalEvent
  <2> QED
    BY <1>1, <2>1, <2>2, <2>3 DEF SetStep
<1>2. CASE Reset(t) \/ WaitStep(t)
  BY <1>2 DEF Reset, WaitStep, WaitFindsBusy, WaitTakes, WaitFindsUnset, WaitSleeps,
              WaitGivesUp, ReturnFromWait, local
<1>3. CASE WaitManyStep(t)
  BY <1>3 DEF WaitManyStep, RegisterLock, PurgeKeeps, PurgeRemoves, TakeForAny, TakeForAll,
              Register, NextEvent, TestDone, TestSleeps, Wake, ExpiredLock, Finish, local
<1>4. CASE Call(t)
  BY <1>4 DEF Call, SetEvent, ResetEvent, WaitForEvent, CallOne, WaitForMultipleEvents
<1>5. CASE Clock(t)
  BY <1>5 DEF Clock, WaitExpires, Expires, SpuriousWakeup, local
<1> QED
  BY <1>1, <1>2, <1>3, <1>4, <1>5 DEF Acts, Step

\* Which steps change what the threads share.
LEMMA Changes ==
  ASSUME NEW t \in Threads, Acts(t)
  PROVE  /\ \/ RegisteredWaits' = RegisteredWaits
            \/ NotifyExpired(t) \/ NotifyWaiter(t) \/ PurgeRemoves(t) \/ Register(t)
         /\ \/ wfmo' = wfmo
            \/ NotifyExpired(t) \/ NotifyWaiter(t) \/ PurgeRemoves(t) \/ Register(t)
            \/ TakeForAny(t) \/ TakeForAll(t) \/ Finish(t)
            \/ \E c \in Menu[t] : WaitForMultipleEvents(t, c)
         /\ \/ own' = own
            \/ Finish(t) \/ \E c \in Menu[t] : WaitForMultipleEvents(t, c)
         /\ \/ State' = State
            \/ SetLock(t) \/ NotifyWaiter(t) \/ Reset(t) \/ WaitTakes(t)
            \/ TakeForAny(t) \/ TakeForAll(t)
         /\ \/ waiterMutex' = waiterMutex
            \/ TestSleeps(t) \/ Wake(t) \/ ExpiredLock(t) \/ Finish(t)
            \/ \E c \in Menu[t] : WaitForMultipleEvents(t, c)
         /\ \/ eventMutex' = eventMutex
            \/ SetLock(t) \/ SignalWaiter(t) \/ NotifyNone(t) \/ RegisterLock(t)
            \/ TakeForAny(t) \/ TakeForAll(t) \/ Register(t)
<1> USE DEF shared, local
<1>1. CASE SetStep(t)
  BY <1>1 DEF SetStep, SetLock, NotifyExpired, NotifyWaiter, NotifyNone, SignalWaiter,
              SignalEvent
<1>2. CASE Reset(t) \/ WaitStep(t)
  BY <1>2 DEF Reset, WaitStep, WaitFindsBusy, WaitTakes, WaitFindsUnset, WaitSleeps,
              WaitGivesUp, ReturnFromWait, WithEvent
<1>3. CASE WaitManyStep(t)
  BY <1>3 DEF WaitManyStep, RegisterLock, PurgeKeeps, PurgeRemoves, TakeForAny, TakeForAll,
              Register, TestDone, TestSleeps, Wake, ExpiredLock, Finish
<1>4. CASE Call(t)
  BY <1>4 DEF Call, SetEvent, ResetEvent, WaitForEvent, CallOne, WaitForMultipleEvents
<1>5. CASE Clock(t)
  BY <1>5 DEF Clock, WaitExpires, Expires, SpuriousWakeup
<1> QED
  BY <1>1, <1>2, <1>3, <1>4, <1>5 DEF Acts, Step

------------------------------------------------------------------------------
(* Calls and records.                                                      *)

\* What MenuAssumption says of the call a thread is in.
LEMMA CallFacts ==
  ASSUME NEW t \in Threads, InCall(t), pc[t] # "idle"
  PROVE  /\ call[t] \in Calls /\ call[t].events \in Seq(Events) /\ call[t].all \in BOOLEAN
         /\ Count(t) \in Nat \ {0} /\ DOMAIN call[t].events = 1 .. Count(t)
         /\ \A i \in 1 .. Count(t) : call[t].events[i] \in Events
         /\ \A i, j \in 1 .. Count(t) :
              i < j => Rank[call[t].events[i]] < Rank[call[t].events[j]]
         /\ \A i, j \in 1 .. Count(t) : call[t].events[i] = call[t].events[j] => i = j
<1>1. call[t] \in Menu[t]
  BY DEF InCall
<1>2. call[t] \in Calls /\ Len(call[t].events) >= 1
      /\ \A i, j \in DOMAIN call[t].events :
           i < j => Rank[call[t].events[i]] < Rank[call[t].events[j]]
  BY <1>1, MenuAssumption
<1>3. call[t].events \in Seq(Events) /\ call[t].all \in BOOLEAN
  BY <1>2 DEF Calls
<1>4. Count(t) \in Nat \ {0} /\ DOMAIN call[t].events = 1 .. Count(t)
      /\ \A i \in 1 .. Count(t) : call[t].events[i] \in Events
  BY <1>2, <1>3 DEF Count
<1>5. ASSUME NEW i \in 1 .. Count(t), NEW j \in 1 .. Count(t),
             call[t].events[i] = call[t].events[j]
      PROVE  i = j
  <2>1. Rank[call[t].events[i]] \in Nat
    BY <1>4, MenuAssumption
  <2>2. ~ (i < j) /\ ~ (j < i)
    BY <1>2, <1>4, <1>5, <2>1
  <2> QED
    BY <1>4, <2>2
<1> QED
  BY <1>2, <1>3, <1>4, <1>5

\* A thread that has an event at hand has one of its call.
LEMMA EventAtHand ==
  ASSUME NEW t \in Threads, InCall(t), pc[t] \in InOne \cup InScan
  PROVE  Event(t) \in Events /\ pos[t] \in 1 .. Count(t)
<1>1. pc[t] # "idle"
  BY DEF InOne, InScan, InSet, InWait
<1>2. Count(t) \in Nat \ {0} /\ \A i \in 1 .. Count(t) : call[t].events[i] \in Events
  BY <1>1, CallFacts
<1>3. pos[t] \in 1 .. Count(t)
  BY <1>2 DEF InCall, InOne, InScan, InMany, AfterScan, InSet, InWait
<1> QED
  BY <1>2, <1>3 DEF Event

\* The threads that use record w, and the events in whose deque it is.
Owners(w) == {t \in Threads : own[t] = w}

Holders(w) == {e \in Events : IsRegistered(w, e)}

\* A record has at most one owner.
LEMMA OwnerIsAlone ==
  ASSUME OwnersDiffer, NEW w \in Waits
  PROVE  /\ \A t \in Threads : own[t] = w => Owners(w) = {t} /\ Cardinality(Owners(w)) = 1
         /\ Owners(w) = {} => Cardinality(Owners(w)) = 0
         /\ Cardinality(Owners(w)) \in {0, 1}
<1>1. ASSUME NEW t \in Threads, own[t] = w
      PROVE  Owners(w) = {t} /\ Cardinality(Owners(w)) = 1
  <2>1. own[t] # NoWait
    BY <1>1, EventsAssumption
  <2>2. Owners(w) = {t}
    BY <1>1, <2>1 DEF Owners, OwnersDiffer
  <2> QED
    BY <2>2, FS_Singleton
<1>2. Owners(w) = {} => Cardinality(Owners(w)) = 0
  BY FS_EmptySet
<1>3. Owners(w) = {} \/ \E t \in Threads : own[t] = w
  BY DEF Owners
<1> QED
  BY <1>1, <1>2, <1>3

\* The deques that hold a record can be counted.
LEMMA HoldersFinite ==
  ASSUME NEW w
  PROVE  IsFiniteSet(Holders(w)) /\ Cardinality(Holders(w)) \in Nat
<1>1. Holders(w) \subseteq Events
  BY DEF Holders
<1> QED
  BY <1>1, EventsAssumption, FS_Subset, FS_CardinalityType

\* The references that a record has.
LEMMA References ==
  ASSUME OwnersDiffer, RefCountExact, NEW w \in Waits
  PROVE  /\ wfmo[w].RefCount = Cardinality(Holders(w)) + Cardinality(Owners(w))
         /\ wfmo[w].RefCount \in Nat
         /\ \A e \in Events : IsRegistered(w, e) => Cardinality(Holders(w)) # 0
         /\ \A e \in Events : IsRegistered(w, e) => wfmo[w].RefCount # 0
         /\ \A t \in Threads : own[t] = w => wfmo[w].RefCount # 0
         /\ \A t \in Threads, e \in Events :
              own[t] = w /\ IsRegistered(w, e) => wfmo[w].RefCount > 1
         /\ wfmo[w].RefCount = 0 => /\ \A t \in Threads : own[t] # w
                                    /\ \A e \in Events : ~IsRegistered(w, e)
<1>1. wfmo[w].RefCount = Cardinality(Holders(w)) + Cardinality(Owners(w))
  BY DEF RefCountExact, Holders, Owners
<1>2. /\ Cardinality(Holders(w)) \in Nat /\ Cardinality(Owners(w)) \in {0, 1}
      /\ \A t \in Threads : own[t] = w => Cardinality(Owners(w)) = 1
  BY OwnerIsAlone, HoldersFinite
<1>3. ASSUME NEW e \in Events, IsRegistered(w, e)
      PROVE  Cardinality(Holders(w)) # 0
  <2>1. e \in Holders(w)
    BY <1>3 DEF Holders
  <2> QED
    BY <2>1, HoldersFinite, FS_EmptySet
<1>4. wfmo[w].RefCount \in Nat
  BY <1>1, <1>2
<1>5. \A e \in Events : IsRegistered(w, e) => wfmo[w].RefCount # 0
  BY <1>1, <1>2, <1>3
<1>6. \A t \in Threads : own[t] = w => wfmo[w].RefCount # 0
  BY <1>1, <1>2
<1>7. \A t \in Threads, e \in Events :
        own[t] = w /\ IsRegistered(w, e) => wfmo[w].RefCount > 1
  BY <1>1, <1>2, <1>3
<1> QED
  BY <1>1, <1>3, <1>4, <1>5, <1>6, <1>7

------------------------------------------------------------------------------
(* Deques.                                                                 *)

WaitersIn(s) == {s[i].Waiter : i \in DOMAIN s}

\* Erasing an entry of a deque removes its wait and keeps the others once each.
LEMMA RemoveWait ==
  ASSUME NEW s \in Seq(WaitInfos), OnceEach(s), NEW n \in DOMAIN s
  PROVE  /\ RemoveAt(s, n) \in Seq(WaitInfos) /\ OnceEach(RemoveAt(s, n))
         /\ Len(s) \in Nat /\ DOMAIN s = 1 .. Len(s)
         /\ Len(RemoveAt(s, n)) = Len(s) - 1
         /\ ToSet(RemoveAt(s, n)) \subseteq ToSet(s)
         /\ WaitersIn(RemoveAt(s, n)) = WaitersIn(s) \ {s[n].Waiter}
<1> DEFINE q == RemoveAt(s, n)
<1>1. Len(s) \in Nat /\ DOMAIN s = 1 .. Len(s)
  BY LenProperties
<1>2. /\ q \in Seq(WaitInfos) /\ DOMAIN q = 1 .. Len(s) - 1
      /\ \A i \in 1 .. Len(s) - 1 : q[i] = IF i < n THEN s[i] ELSE s[i + 1]
      /\ ToSet(q) \subseteq ToSet(s)
  BY RemoveElements
<1> HIDE DEF q
<1> DEFINE from(i) == IF i < n THEN i ELSE i + 1
<1>4. \A i \in DOMAIN q : from(i) \in (DOMAIN s) \ {n} /\ q[i] = s[from(i)]
  BY <1>1, <1>2
<1>5. \A i, j \in DOMAIN q : from(i) = from(j) => i = j
  BY <1>1, <1>2
<1>6. \A j \in (DOMAIN s) \ {n} : \E i \in DOMAIN q : j = from(i)
  <2> SUFFICES ASSUME NEW j \in (DOMAIN s) \ {n} PROVE \E i \in DOMAIN q : j = from(i)
    OBVIOUS
  <2>1. CASE j < n
    <3>1. j \in DOMAIN q /\ j = from(j)
      BY <1>1, <1>2, <2>1
    <3> QED
      BY <3>1
  <2>2. CASE ~ (j < n)
    <3>1. j - 1 \in DOMAIN q /\ j = from(j - 1)
      BY <1>1, <1>2, <2>2
    <3> QED
      BY <3>1
  <2> QED
    BY <2>1, <2>2
<1> HIDE DEF from
<1>7. OnceEach(q)
  <2> SUFFICES ASSUME NEW i \in DOMAIN q, NEW j \in DOMAIN q, q[i].Waiter = q[j].Waiter
               PROVE  i = j
    BY DEF OnceEach
  <2>1. from(i) = from(j)
    BY <1>4 DEF OnceEach
  <2> QED
    BY <1>5, <2>1
<1>8. WaitersIn(q) = WaitersIn(s) \ {s[n].Waiter}
  <2>1. \A i \in DOMAIN q : q[i].Waiter \in WaitersIn(s) \ {s[n].Waiter}
    BY <1>4 DEF WaitersIn, OnceEach
  <2>2. \A j \in (DOMAIN s) \ {n} : s[j].Waiter \in WaitersIn(q)
    BY <1>4, <1>6 DEF WaitersIn
  <2> QED
    BY <2>1, <2>2 DEF WaitersIn
<1>9. q \in Seq(WaitInfos) /\ Len(q) = Len(s) - 1 /\ ToSet(q) \subseteq ToSet(s)
  BY <1>2
<1> QED
  BY <1>1, <1>7, <1>8, <1>9 DEF q

\* To pop the front is to remove the first entry.
LEMMA PopIsRemoval ==
  ASSUME NEW s \in Seq(WaitInfos), s # <<>>
  PROVE  1 \in DOMAIN s /\ Head(s) = s[1] /\ Tail(s) = RemoveAt(s, 1)
<1>1. /\ Len(s) \in Nat \ {0} /\ DOMAIN s = 1 .. Len(s)
      /\ Tail(s) \in Seq(WaitInfos) /\ Len(Tail(s)) = Len(s) - 1
      /\ \A i \in 1 .. Len(s) - 1 : Tail(s)[i] = s[i + 1]
      /\ Head(s) = s[1]
  BY TailElements
<1>2. 1 \in DOMAIN s
  BY <1>1
<1>3. /\ RemoveAt(s, 1) \in Seq(WaitInfos) /\ Len(RemoveAt(s, 1)) = Len(s) - 1
      /\ \A i \in 1 .. Len(s) - 1 :
           RemoveAt(s, 1)[i] = IF i < 1 THEN s[i] ELSE s[i + 1]
  BY <1>2, RemoveElements
<1>4. \A i \in 1 .. Len(Tail(s)) : Tail(s)[i] = RemoveAt(s, 1)[i]
  BY <1>1, <1>3
<1> QED
  BY <1>1, <1>2, <1>3, <1>4, SeqEqual

\* Appending a wait that a deque lacks keeps every wait there once.
LEMMA AppendWait ==
  ASSUME NEW s \in Seq(WaitInfos), OnceEach(s), NEW x \in WaitInfos,
         x.Waiter \notin WaitersIn(s)
  PROVE  /\ Append(s, x) \in Seq(WaitInfos) /\ OnceEach(Append(s, x))
         /\ Len(Append(s, x)) = Len(s) + 1 /\ Append(s, x) # <<>>
         /\ ToSet(Append(s, x)) = ToSet(s) \cup {x}
         /\ WaitersIn(Append(s, x)) = WaitersIn(s) \cup {x.Waiter}
<1> DEFINE q == Append(s, x)
<1>1. /\ q \in Seq(WaitInfos) /\ Len(q) = Len(s) + 1 /\ DOMAIN q = 1 .. Len(s) + 1
      /\ \A i \in 1 .. Len(s) : q[i] = s[i]
      /\ q[Len(s) + 1] = x
      /\ ToSet(q) = ToSet(s) \cup {x}
  BY AppendElements
<1>2. Len(s) \in Nat /\ DOMAIN s = 1 .. Len(s)
  BY LenProperties
<1>3. q # <<>>
  BY <1>1, <1>2, EmptySeq
<1> HIDE DEF q
<1>4. \A i \in DOMAIN q : (i \in DOMAIN s /\ q[i] = s[i]) \/ (i = Len(s) + 1 /\ q[i] = x)
  BY <1>1, <1>2
<1>5. \A i \in DOMAIN s : i \in DOMAIN q /\ q[i] = s[i]
  BY <1>1, <1>2
<1>6. Len(s) + 1 \in DOMAIN q /\ q[Len(s) + 1] = x
  BY <1>1, <1>2
<1>7. WaitersIn(q) = WaitersIn(s) \cup {x.Waiter}
  BY <1>4, <1>5, <1>6 DEF WaitersIn
<1>8. OnceEach(q)
  <2>1. \A i \in DOMAIN s : s[i].Waiter # x.Waiter
    BY DEF WaitersIn
  <2> QED
    BY <1>4, <2>1 DEF OnceEach
<1> QED
  BY <1>1, <1>3, <1>7, <1>8 DEF q

------------------------------------------------------------------------------
(* Steps that drop or add a reference.                                     *)

\* The deque of the event whose mutex t holds loses its entry n, and that entry's
\* record a reference.
Drops(t, n) ==
  LET e == Event(t) w == RegisteredWaits[e][n].Waiter IN
  /\ pc[t] \in {"notify", "purge"}
  /\ n \in DOMAIN RegisteredWaits[e]
  /\ waiterMutex[w] = Nobody
  /\ RegisteredWaits' = [RegisteredWaits EXCEPT ![e] = RemoveAt(@, n)]
  /\ \/ /\ ~wfmo[w].StillWaiting
        /\ wfmo' = [wfmo EXCEPT ![w] = Unreferenced(@)]
        /\ UNCHANGED <<State, pc, target>>
     \/ /\ wfmo[w].StillWaiting
        /\ wfmo' = [wfmo EXCEPT ![w] = Notified(@, RegisteredWaits[e][n].WaitIndex)]
        /\ pc[t] = "notify" /\ pc' = [pc EXCEPT ![t] = "signalWaiter"]
        /\ target' = [target EXCEPT ![t] = w]
        /\ State' = [State EXCEPT ![e] = e \notin AutoReset]
  /\ UNCHANGED <<eventMutex, waiterMutex, call, pos, scan, own, result>>

DropStep(t) == NotifyExpired(t) \/ NotifyWaiter(t) \/ PurgeRemoves(t)

\* The three steps that erase an entry have the effect that Drops describes.
LEMMA DropStepDrops ==
  ASSUME Base, NEW t \in Threads, DropStep(t)
  PROVE  /\ \E n \in DOMAIN RegisteredWaits[Event(t)] : Drops(t, n)
         /\ \/ pc' = pc
            \/ pc[t] = "notify" /\ pc' = [pc EXCEPT ![t] = "signalWaiter"]
<1> DEFINE s == RegisteredWaits[Event(t)]
<1>1. Event(t) \in Events
  BY EventAtHand DEF Base, DropStep, NotifyExpired, NotifyWaiter, PurgeRemoves, Purging,
                     InOne, InSet, InScan
<1>2. s \in Seq(WaitInfos)
  BY <1>1 DEF Base, TypeOK
<1>3. CASE NotifyExpired(t) \/ NotifyWaiter(t)
  <2>1. s # <<>> /\ pc[t] = "notify"
    BY <1>3 DEF NotifyExpired, NotifyWaiter
  <2>2. 1 \in DOMAIN s /\ Head(s) = s[1] /\ Tail(s) = RemoveAt(s, 1)
    BY <1>2, <2>1, PopIsRemoval
  <2>3. RegisteredWaits' = [RegisteredWaits EXCEPT ![Event(t)] = RemoveAt(@, 1)]
    <3>1. RegisteredWaits' = [RegisteredWaits EXCEPT ![Event(t)] = Tail(@)]
      BY <1>3 DEF NotifyExpired, NotifyWaiter, PopFront
    <3> QED
      BY <2>2, <3>1
  <2>4. FrontWait(Event(t)) = s[1].Waiter /\ FrontIndex(Event(t)) = s[1].WaitIndex
    BY <2>2 DEF FrontWait, FrontIndex
  <2>5. Drops(t, 1)
    <3>1. CASE NotifyExpired(t)
      BY <2>1, <2>2, <2>3, <2>4, <3>1 DEF Drops, NotifyExpired, local
    <3>2. CASE NotifyWaiter(t)
      BY <2>1, <2>2, <2>3, <2>4, <3>2 DEF Drops, NotifyWaiter, Goto, Consume
    <3> QED
      BY <1>3, <3>1, <3>2
  <2>6. \/ pc' = pc
        \/ pc[t] = "notify" /\ pc' = [pc EXCEPT ![t] = "signalWaiter"]
    <3>1. CASE NotifyExpired(t)
      BY <3>1 DEF NotifyExpired
    <3>2. CASE NotifyWaiter(t)
      BY <3>2 DEF NotifyWaiter, Goto
    <3> QED
      BY <1>3, <3>1, <3>2
  <2> QED
    BY <2>2, <2>5, <2>6
<1>4. CASE PurgeRemoves(t)
  <2>1. scan[t] \in DOMAIN s
    BY <1>2, <1>4 DEF PurgeRemoves, Purging, Base, TypeOK
  <2>2. Drops(t, scan[t]) /\ pc' = pc
    BY <1>4, <2>1 DEF Drops, PurgeRemoves, Purging, Scanned, local
  <2> QED
    BY <2>1, <2>2
<1> QED
  BY <1>3, <1>4 DEF DropStep

\* What a drop does to the deque and to the record.
LEMMA DropEffect ==
  ASSUME Base, NEW t \in Threads, NEW n, Drops(t, n)
  PROVE  LET e == Event(t)
             s == RegisteredWaits[e]
             w == s[n].Waiter
         IN  /\ e \in Events /\ s[n] \in WaitInfos /\ w \in Waits /\ IsRegistered(w, e)
             /\ RegisteredWaits' = [RegisteredWaits EXCEPT ![e] = RemoveAt(s, n)]
             /\ RemoveAt(s, n) \in Seq(WaitInfos) /\ OnceEach(RemoveAt(s, n))
             /\ Len(RemoveAt(s, n)) = Len(s) - 1 /\ n <= Len(s) /\ Len(s) \in Nat
             /\ ToSet(RemoveAt(s, n)) \subseteq ToSet(s)
             /\ WaitersIn(RemoveAt(s, n)) = WaitersIn(s) \ {w}
             /\ wfmo[w].RefCount \in Nat \ {0} /\ wfmo[w].Live
             /\ wfmo'[w] \in Records /\ wfmo' = [wfmo EXCEPT ![w] = wfmo'[w]]
             /\ wfmo'[w].RefCount = wfmo[w].RefCount - 1
             /\ wfmo'[w].Live <=> wfmo'[w].RefCount # 0
             /\ wfmo'[w].StillWaiting => wfmo[w].StillWaiting
<1> DEFINE e == Event(t)
           s == RegisteredWaits[e]
           w == s[n].Waiter
           r == wfmo[w]
<1>1. e \in Events
  BY EventAtHand DEF Base, Drops, InOne, InSet, InScan
<1>2. s \in Seq(WaitInfos) /\ OnceEach(s) /\ n \in DOMAIN s
  BY <1>1 DEF Base, TypeOK, Drops
<1>3. s[n] \in WaitInfos /\ IsRegistered(w, e)
  BY <1>2, ElementType DEF IsRegistered
<1>4. w \in Waits /\ s[n].WaitIndex \in Nat
  BY <1>3 DEF WaitInfos
<1>5. r \in Records /\ wfmo \in [Waits -> Records]
  BY <1>4 DEF Base, TypeOK
<1>6. r.RefCount \in Nat \ {0}
  BY <1>1, <1>3, <1>4, References DEF Base
<1>7. r.Live
  BY <1>4, <1>6 DEF Base, RecordsFollow
<1>8. /\ RemoveAt(s, n) \in Seq(WaitInfos) /\ OnceEach(RemoveAt(s, n))
      /\ Len(RemoveAt(s, n)) = Len(s) - 1 /\ n <= Len(s) /\ Len(s) \in Nat
      /\ ToSet(RemoveAt(s, n)) \subseteq ToSet(s)
      /\ WaitersIn(RemoveAt(s, n)) = WaitersIn(s) \ {w}
  BY <1>2, RemoveWait
<1>9. RegisteredWaits' = [RegisteredWaits EXCEPT ![e] = RemoveAt(s, n)]
  BY DEF Drops
<1>10. CASE ~r.StillWaiting
  <2>1. wfmo' = [wfmo EXCEPT ![w] = Unreferenced(r)]
    BY <1>10 DEF Drops
  <2> DEFINE v == Unreferenced(r)
  <2>2. /\ v \in Records /\ v.RefCount = r.RefCount - 1 /\ (v.Live <=> v.RefCount # 0)
        /\ ~v.StillWaiting
    BY <1>5, <1>6, <1>7, <1>10 DEF Unreferenced, Freed, Records, NotFired
  <2> HIDE DEF v
  <2>3. wfmo' = [wfmo EXCEPT ![w] = v] /\ wfmo'[w] = v
    BY <1>4, <1>5, <2>1 DEF v
  <2> QED
    BY <1>1, <1>3, <1>4, <1>5, <1>6, <1>7, <1>8, <1>9, <2>2, <2>3
<1>11. CASE r.StillWaiting
  <2>1. wfmo' = [wfmo EXCEPT ![w] = Notified(r, s[n].WaitIndex)]
    BY <1>11 DEF Drops
  <2>2. r.RefCount > 1
    <3>1. PICK u \in Threads : own[u] = w
      BY <1>4, <1>11 DEF Base, RecordsFollow
    <3> QED
      BY <1>1, <1>3, <1>4, <3>1, References DEF Base
  <2> DEFINE v == Notified(r, s[n].WaitIndex)
  <2>3. v \in Records /\ v.RefCount = r.RefCount - 1 /\ (v.Live <=> v.RefCount # 0)
    <3>1. r.RefCount - 1 \in Nat \ {0} /\ r.Status - 1 \in Int /\ s[n].WaitIndex \in Int
      BY <1>4, <1>5, <1>6, <2>2 DEF Records
    <3>2. CASE r.WaitAll
      BY <1>5, <1>7, <3>1, <3>2 DEF Notified, Records
    <3>3. CASE ~r.WaitAll
      BY <1>5, <1>7, <3>1, <3>3 DEF Notified, Records
    <3> QED
      BY <3>2, <3>3
  <2> HIDE DEF v
  <2>4. wfmo' = [wfmo EXCEPT ![w] = v] /\ wfmo'[w] = v
    BY <1>4, <1>5, <2>1 DEF v
  <2> QED
    BY <1>1, <1>3, <1>4, <1>5, <1>6, <1>7, <1>8, <1>9, <1>11, <2>3, <2>4
<1> QED
  BY <1>10, <1>11

------------------------------------------------------------------------------
(* Types.                                                                  *)

\* What the calls write into their results is of the type of results.
LEMMA ResultTypes ==
  ASSUME TypeOK, NEW t \in Threads
  PROVE  /\ NoResult \in Results
         /\ \A code \in {"success", "timeout"} :
              /\ [code |-> code, index |-> NotFired] \in Results
              /\ [result EXCEPT ![t].code = code] \in [Threads -> Results]
         /\ \A i \in Int : [result EXCEPT ![t].index = i] \in [Threads -> Results]
         /\ \A r \in Results : [result EXCEPT ![t] = r] \in [Threads -> Results]
<1>1. result \in [Threads -> Results] /\ result[t] \in Results
  BY DEF TypeOK
<1>2. NoResult \in Results
  BY DEF NoResult, Results, NotFired
<1>3. ASSUME NEW code \in {"success", "timeout"}
      PROVE  /\ [code |-> code, index |-> NotFired] \in Results
             /\ [result EXCEPT ![t].code = code] \in [Threads -> Results]
  BY <1>1 DEF Results, NotFired
<1>4. ASSUME NEW i \in Int
      PROVE  [result EXCEPT ![t].index = i] \in [Threads -> Results]
  BY <1>1 DEF Results
<1> QED
  BY <1>1, <1>2, <1>3, <1>4

\* SetEvent keeps the types.
LEMMA SetStepTypes ==
  ASSUME Base, NEW t \in Threads, SetStep(t)
  PROVE  TypeOK'
<1> USE DEF Goto, Locations
<1>1. TypeOK /\ Event(t) \in Events
  BY EventAtHand DEF Base, SetStep, SetLock, NotifyExpired, NotifyWaiter, SignalWaiter,
                     NotifyNone, SignalEvent, InOne, InSet
<1>2. CASE SetLock(t)
  BY <1>1, <1>2 DEF SetLock, LockEvent, TypeOK, local
<1>3. CASE NotifyExpired(t) \/ NotifyWaiter(t)
  <2>1. PICK n \in DOMAIN RegisteredWaits[Event(t)] : Drops(t, n)
    BY <1>3, DropStepDrops DEF DropStep
  <2>2. /\ pc' \in [Threads -> Locations]
    BY <1>1, <1>3, DropStepDrops DEF DropStep, TypeOK
  <2>3. RegisteredWaits' \in [Events -> Seq(WaitInfos)] /\ wfmo' \in [Waits -> Records]
    BY <1>1, <2>1, DropEffect DEF TypeOK
  <2>4. State' \in [Events -> BOOLEAN] /\ target' \in [Threads -> Waits \cup {NoWait}]
    <3>1. CASE NotifyExpired(t)
      BY <1>1, <3>1 DEF NotifyExpired, TypeOK, local
    <3>2. CASE NotifyWaiter(t)
      <4>1. RegisteredWaits[Event(t)] # <<>> /\ RegisteredWaits[Event(t)] \in Seq(WaitInfos)
        BY <1>1, <3>2 DEF NotifyWaiter, TypeOK
      <4>2. Head(RegisteredWaits[Event(t)]) \in WaitInfos
        BY <4>1, FirstElement
      <4>3. FrontWait(Event(t)) \in Waits
        BY <4>2 DEF FrontWait, WaitInfos
      <4> QED
        BY <1>1, <3>2, <4>3 DEF NotifyWaiter, Consume, TypeOK
    <3> QED
      BY <1>3, <3>1, <3>2
  <2> QED
    BY <1>1, <2>1, <2>2, <2>3, <2>4 DEF Drops, TypeOK
<1>4. CASE SignalWaiter(t)
  BY <1>1, <1>4 DEF SignalWaiter, GotoWaking, UnlockEvent, TypeOK
<1>5. CASE NotifyNone(t)
  BY <1>1, <1>5 DEF NotifyNone, UnlockEvent, TypeOK, local
<1>6. CASE SignalEvent(t)
  BY <1>1, <1>6 DEF SignalEvent, GotoWaking, TypeOK, shared
<1> QED
  BY <1>2, <1>3, <1>4, <1>5, <1>6 DEF SetStep

\* ResetEvent, WaitForEvent and the clock keep the types.
LEMMA WaitStepTypes ==
  ASSUME Base, NEW t \in Threads, Reset(t) \/ WaitStep(t) \/ Clock(t)
  PROVE  TypeOK'
<1> USE DEF Goto, Locations
<1>1. TypeOK
  BY DEF Base
<1>2. CASE Clock(t)
  BY <1>1, <1>2 DEF Clock, WaitExpires, Expires, SpuriousWakeup, TypeOK, shared, local
<1>3. CASE Reset(t)
  BY <1>1, <1>3 DEF Reset, WithEvent, TypeOK
<1>4. CASE WaitSleeps(t)
  BY <1>1, <1>4 DEF WaitSleeps, WithEvent, TypeOK, local
<1>5. ASSUME NEW code \in {"success", "timeout"}, ReturnFromWait(t, code),
             UNCHANGED eventMutex, UNCHANGED State \/ Consume(Event(t))
      PROVE  TypeOK'
  <2>1. result' \in [Threads -> Results]
    BY <1>1, <1>5, ResultTypes DEF ReturnFromWait
  <2>2. State' \in [Events -> BOOLEAN]
    BY <1>1, <1>5 DEF Consume, TypeOK
  <2> QED
    BY <1>1, <1>5, <2>1, <2>2 DEF ReturnFromWait, TypeOK
<1> QED
  BY <1>2, <1>3, <1>4, <1>5
  DEF WaitStep, WaitFindsBusy, WaitTakes, WaitFindsUnset, WaitGivesUp, WithEvent

\* Going on to the next event of the array keeps the types.
LEMMA NextEventTypes ==
  ASSUME TypeOK, NEW t \in Threads, NextEvent(t)
  PROVE  /\ pos' \in [Threads -> Nat \ {0}]
         /\ pc' \in [Threads -> Locations]
         /\ result' \in [Threads -> Results]
<1>1. result' \in [Threads -> Results]
  <2>1. \/ result' = [result EXCEPT ![t].code = "timeout"]
        \/ result' = [result EXCEPT ![t].code = @]
    BY DEF NextEvent
  <2>2. result \in [Threads -> Results] /\ result[t] \in Results
    BY DEF TypeOK
  <2> QED
    BY <2>1, <2>2 DEF Results
<1> QED
  BY <1>1 DEF NextEvent, Goto, TypeOK, Locations

\* What a thread that has a record refers to.
LEMMA OwnRecord ==
  ASSUME Base, NEW t \in Threads, pc[t] \in InMany
  PROVE  /\ own[t] \in Waits /\ wfmo \in [Waits -> Records] /\ wfmo[own[t]] \in Records
         /\ wfmo[own[t]].RefCount \in Nat \ {0} /\ wfmo[own[t]].Live
         /\ pos[t] - 1 \in Nat
<1>1. own[t] \in Waits /\ pos[t] - 1 \in Nat
  BY DEF Base, InCall, TypeOK
<1>2. wfmo \in [Waits -> Records] /\ wfmo[own[t]] \in Records
  BY <1>1 DEF Base, TypeOK
<1>3. wfmo[own[t]].RefCount \in Nat \ {0}
  BY <1>1, References DEF Base
<1>4. wfmo[own[t]].Live
  BY <1>1, <1>3 DEF Base, RecordsFollow
<1> QED
  BY <1>1, <1>2, <1>3, <1>4

\* What a step of a scan that obtains its event does to the record.
LEMMA TakeEffect ==
  ASSUME Base, NEW t \in Threads, TakeForAny(t) \/ TakeForAll(t)
  PROVE  /\ Event(t) \in Events /\ own[t] \in Waits /\ pc[t] = "purge"
         /\ RegisteredWaits' = RegisteredWaits
         /\ wfmo'[own[t]] \in Records /\ wfmo' = [wfmo EXCEPT ![own[t]] = wfmo'[own[t]]]
         /\ wfmo'[own[t]].RefCount = wfmo[own[t]].RefCount
         /\ wfmo'[own[t]].Live = wfmo[own[t]].Live
         /\ wfmo'[own[t]].StillWaiting = wfmo[own[t]].StillWaiting
         /\ wfmo'[own[t]].WaitAll = wfmo[own[t]].WaitAll
         /\ wfmo'[own[t]].Status =
              IF TakeForAny(t) THEN pos[t] - 1 ELSE wfmo[own[t]].Status - 1
<1> DEFINE w == own[t] r == wfmo[w]
<1>1. pc[t] = "purge" /\ RegisteredWaits' = RegisteredWaits
  BY DEF TakeForAny, TakeForAll, Purged
<1>2. Event(t) \in Events
  BY <1>1, EventAtHand DEF Base, InScan
<1>3. w \in Waits /\ wfmo \in [Waits -> Records] /\ r \in Records /\ pos[t] - 1 \in Nat
  BY <1>1, OwnRecord DEF InMany, InScan
<1> DEFINE v == [r EXCEPT !.Status = IF TakeForAny(t) THEN pos[t] - 1 ELSE r.Status - 1]
<1>4. wfmo' = [wfmo EXCEPT ![w] = v]
  BY <1>3 DEF TakeForAny, TakeForAll
<1>5. /\ v \in Records /\ v.RefCount = r.RefCount /\ v.Live = r.Live
      /\ v.StillWaiting = r.StillWaiting /\ v.WaitAll = r.WaitAll
      /\ v.Status = IF TakeForAny(t) THEN pos[t] - 1 ELSE r.Status - 1
  BY <1>3 DEF Records
<1> HIDE DEF v
<1>6. wfmo'[w] = v
  BY <1>3, <1>4
<1> QED
  BY <1>1, <1>2, <1>3, <1>4, <1>5, <1>6

\* An event that a scan has reached does not have the wait in its deque.
LEMMA NotYetRegistered ==
  ASSUME Base, NEW t \in Threads, pc[t] = "purge"
  PROVE  ~IsRegistered(own[t], Event(t))
<1> DEFINE e == Event(t) s == RegisteredWaits[e]
<1>1. e \in Events /\ pos[t] \in 1 .. Count(t)
  BY EventAtHand DEF Base, InScan
<1>2. s \in Seq(WaitInfos)
  BY <1>1 DEF Base, TypeOK
<1> SUFFICES ASSUME NEW i \in DOMAIN s, s[i].Waiter = own[t] PROVE FALSE
  BY DEF IsRegistered
<1>3. s[i] \in ToSet(s) /\ s[i] \in WaitInfos
  BY <1>2, ElementType DEF ToSet
<1> DEFINE k == s[i].WaitIndex + 1
<1>4. k \in 1 .. Count(t) /\ k < pos[t] /\ call[t].events[k] = e
  BY <1>1, <1>3 DEF Base, EntriesFollow
<1>5. k = pos[t]
  BY <1>1, <1>4, CallFacts DEF Base, Event
<1> QED
  BY <1>1, <1>4, <1>5

\* What registering does to the deque and to the record.
LEMMA RegisterEffect ==
  ASSUME Base, NEW t \in Threads, Register(t)
  PROVE  LET e == Event(t)
             s == RegisteredWaits[e]
             x == [Waiter |-> own[t], WaitIndex |-> pos[t] - 1]
             w == own[t]
         IN  /\ e \in Events /\ w \in Waits /\ pc[t] = "purge" /\ x \in WaitInfos
             /\ RegisteredWaits' = [RegisteredWaits EXCEPT ![e] = Append(s, x)]
             /\ Append(s, x) \in Seq(WaitInfos) /\ OnceEach(Append(s, x))
             /\ Len(Append(s, x)) = Len(s) + 1 /\ Append(s, x) # <<>> /\ Len(s) \in Nat
             /\ ToSet(Append(s, x)) = ToSet(s) \cup {x}
             /\ WaitersIn(Append(s, x)) = WaitersIn(s) \cup {w}
             /\ ~IsRegistered(w, e)
             /\ wfmo[w].RefCount \in Nat \ {0} /\ wfmo[w].Live
             /\ wfmo'[w] \in Records /\ wfmo' = [wfmo EXCEPT ![w] = wfmo'[w]]
             /\ wfmo'[w].RefCount = wfmo[w].RefCount + 1
             /\ wfmo'[w].Live = wfmo[w].Live
             /\ wfmo'[w].StillWaiting = wfmo[w].StillWaiting
             /\ wfmo'[w].WaitAll = wfmo[w].WaitAll
             /\ wfmo'[w].Status = wfmo[w].Status
<1> DEFINE e == Event(t)
           s == RegisteredWaits[e]
           w == own[t]
           r == wfmo[w]
           x == [Waiter |-> w, WaitIndex |-> pos[t] - 1]
<1>1. pc[t] = "purge"
  BY DEF Register, Purged
<1>2. e \in Events /\ pos[t] \in 1 .. Count(t)
  BY <1>1, EventAtHand DEF Base, InScan
<1>3. /\ w \in Waits /\ wfmo \in [Waits -> Records] /\ r \in Records
      /\ pos[t] - 1 \in Nat /\ r.RefCount \in Nat \ {0} /\ r.Live
  BY <1>1, OwnRecord DEF InMany, InScan
<1>4. s \in Seq(WaitInfos) /\ OnceEach(s) /\ Len(s) \in Nat
  BY <1>2, LenProperties DEF Base, TypeOK
<1>5. x \in WaitInfos
  BY <1>3 DEF WaitInfos
<1>6. ~IsRegistered(w, e)
  BY <1>1, NotYetRegistered
<1>7. w \notin WaitersIn(s)
  BY <1>6 DEF IsRegistered, WaitersIn
<1>8. /\ Append(s, x) \in Seq(WaitInfos) /\ OnceEach(Append(s, x))
      /\ Len(Append(s, x)) = Len(s) + 1 /\ Append(s, x) # <<>>
      /\ ToSet(Append(s, x)) = ToSet(s) \cup {x}
      /\ WaitersIn(Append(s, x)) = WaitersIn(s) \cup {w}
  <2>1. x.Waiter = w
    OBVIOUS
  <2> HIDE DEF s, x, w
  <2> QED
    BY <1>4, <1>5, <1>7, <2>1, AppendWait
<1>9. RegisteredWaits' = [RegisteredWaits EXCEPT ![e] = Append(s, x)]
  BY DEF Register
<1>13. PICK k \in Nat : k = r.RefCount + 1
  BY <1>3
<1> DEFINE v == [r EXCEPT !.RefCount = k]
<1>10. wfmo' = [wfmo EXCEPT ![w] = v]
  BY <1>3, <1>13 DEF Register
<1>11. /\ v \in Records /\ v.RefCount = r.RefCount + 1 /\ v.Live = r.Live
       /\ v.StillWaiting = r.StillWaiting /\ v.WaitAll = r.WaitAll /\ v.Status = r.Status
  <2>1. r \in Records /\ v.RefCount = k
    BY <1>3 DEF Records
  <2> QED
    BY <1>13, <2>1 DEF Records
<1> HIDE DEF v
<1>12. wfmo'[w] = v
  BY <1>3, <1>10
<1> QED
  BY <1>1, <1>2, <1>3, <1>4, <1>5, <1>6, <1>8, <1>9, <1>10, <1>11, <1>12

\* What the end of a wait does to its record.
LEMMA FinishEffect ==
  ASSUME Base, NEW t \in Threads, Finish(t)
  PROVE  LET w == own[t] IN
         /\ w \in Waits /\ pc[t] = "finish" /\ RegisteredWaits' = RegisteredWaits
         /\ own' = [own EXCEPT ![t] = NoWait]
         /\ wfmo[w].RefCount \in Nat \ {0} /\ wfmo[w].Live /\ wfmo[w].Status \in Int
         /\ wfmo'[w] \in Records /\ wfmo' = [wfmo EXCEPT ![w] = wfmo'[w]]
         /\ wfmo'[w].RefCount = wfmo[w].RefCount - 1
         /\ wfmo'[w].Live <=> wfmo'[w].RefCount # 0
         /\ ~wfmo'[w].StillWaiting
<1> DEFINE w == own[t] r == wfmo[w]
<1>1. pc[t] = "finish" /\ RegisteredWaits' = RegisteredWaits
      /\ own' = [own EXCEPT ![t] = NoWait]
  BY DEF Finish
<1>2. /\ w \in Waits /\ wfmo \in [Waits -> Records] /\ r \in Records
      /\ r.RefCount \in Nat \ {0} /\ r.Live
  BY <1>1, OwnRecord DEF InMany
<1> DEFINE v == Unreferenced([r EXCEPT !.StillWaiting = FALSE])
<1>3. wfmo' = [wfmo EXCEPT ![w] = v]
  BY <1>2 DEF Finish
<1>4. /\ v \in Records /\ v.RefCount = r.RefCount - 1 /\ (v.Live <=> v.RefCount # 0)
      /\ ~v.StillWaiting /\ r.Status \in Int
  <2> DEFINE q == [r EXCEPT !.StillWaiting = FALSE]
  <2>1. /\ q \in Records /\ q.RefCount = r.RefCount /\ q.Live /\ ~q.StillWaiting
        /\ r.Status \in Int
    BY <1>2 DEF Records
  <2> HIDE DEF q
  <2> DEFINE u == Unreferenced(q)
  <2>2. u \in Records /\ u.RefCount = q.RefCount - 1 /\ (u.Live <=> u.RefCount # 0) /\ ~u.StillWaiting
    <3>1. CASE q.RefCount = 1
      BY <2>1, <3>1 DEF Unreferenced, Freed, Records, NotFired
    <3>2. CASE q.RefCount # 1
      <4>1. PICK k \in Nat \ {0} : k = q.RefCount - 1
        BY <1>2, <2>1, <3>2
      <4>2. u = [q EXCEPT !.RefCount = k]
        BY <3>2, <4>1 DEF Unreferenced
      <4> QED
        BY <2>1, <4>1, <4>2 DEF Records
    <3> QED
      BY <3>1, <3>2
  <2> HIDE DEF u
  <2>3. u = v
    BY DEF u, q
  <2> QED
    BY <2>1, <2>2, <2>3
<1> HIDE DEF v
<1>5. wfmo'[w] = v
  BY <1>2, <1>3
<1> QED
  BY <1>1, <1>2, <1>3, <1>4, <1>5

\* What a new wait does: it gets a record nobody refers to.
LEMMA OpenEffect ==
  ASSUME Base, NEW t \in Threads, NEW c \in Menu[t], WaitForMultipleEvents(t, c)
  PROVE  /\ pc[t] = "idle" /\ pc' = [pc EXCEPT ![t] = "register"]
         /\ call' = [call EXCEPT ![t] = c] /\ call'[t] = c
         /\ own[t] = NoWait /\ pos[t] = 1
         /\ RegisteredWaits' = RegisteredWaits
         /\ UNCHANGED <<State, eventMutex, pos, scan, target>>
         /\ own'[t] \in Waits /\ own' = [own EXCEPT ![t] = own'[t]]
         /\ \A u \in Threads : own[u] # own'[t]
         /\ \A e \in Events : ~IsRegistered(own'[t], e)
         /\ wfmo[own'[t]].RefCount = 0
         /\ waiterMutex' = [waiterMutex EXCEPT ![own'[t]] = t]
         /\ waiterMutex[own'[t]] = Nobody
         /\ wfmo' = [wfmo EXCEPT ![own'[t]] = NewRecord(c)]
         /\ NewRecord(c) \in Records
<1>1. PICK w \in Waits :
        /\ ~wfmo[w].Live
        /\ wfmo' = [wfmo EXCEPT ![w] = NewRecord(c)]
        /\ waiterMutex' = [waiterMutex EXCEPT ![w] = t]
        /\ own' = [own EXCEPT ![t] = w]
  BY DEF WaitForMultipleEvents
<1>2. own'[t] = w /\ wfmo[w].RefCount = 0
  BY <1>1 DEF Base, TypeOK, RecordsFollow
<1>3. /\ \A u \in Threads : own[u] # w
      /\ \A e \in Events : ~IsRegistered(w, e)
  BY <1>2, References DEF Base
<1>4. pc[t] = "idle" /\ own[t] = NoWait /\ pos[t] = 1
  BY DEF WaitForMultipleEvents, Base, InCall, InMany, InScan, AfterScan
<1>5. waiterMutex[w] = Nobody
  BY <1>3 DEF Base, TypeOK, WaiterMutexHeld
<1>6. NewRecord(c) \in Records
  <2>1. c \in Calls
    BY MenuAssumption
  <2>2. c.all \in BOOLEAN /\ Len(c.events) \in Nat
    BY <2>1 DEF Calls
  <2> QED
    BY <2>2 DEF NewRecord, Records, NotFired
<1>7. call'[t] = c /\ call' = [call EXCEPT ![t] = c] /\ pc' = [pc EXCEPT ![t] = "register"]
  BY DEF WaitForMultipleEvents, Goto, Base, TypeOK
<1> QED
  BY <1>1, <1>2, <1>3, <1>4, <1>5, <1>6, <1>7 DEF WaitForMultipleEvents

\* WaitForMultipleEvents keeps the types.
LEMMA WaitManyStepTypes ==
  ASSUME Base, NEW t \in Threads, WaitManyStep(t)
  PROVE  TypeOK'
<1> USE DEF Goto, Locations
<1>1. TypeOK
  BY DEF Base
<1>2. pc[t] \in {"register", "purge"} => Event(t) \in Events
  BY EventAtHand DEF Base, InScan
<1>3. CASE RegisterLock(t)
  BY <1>1, <1>2, <1>3 DEF RegisterLock, LockEvent, TypeOK
<1>4. CASE PurgeKeeps(t)
  BY <1>1, <1>4 DEF PurgeKeeps, TypeOK, shared
<1>5. CASE PurgeRemoves(t)
  <2>1. PICK n \in DOMAIN RegisteredWaits[Event(t)] : Drops(t, n)
    BY <1>5, DropStepDrops DEF DropStep
  <2>2. RegisteredWaits' \in [Events -> Seq(WaitInfos)] /\ wfmo' \in [Waits -> Records]
    BY <1>1, <2>1, DropEffect DEF TypeOK
  <2> QED
    BY <1>1, <1>5, <2>2 DEF PurgeRemoves, TypeOK, local
<1>6. CASE TakeForAny(t)
  <2>1. wfmo' \in [Waits -> Records] /\ result' \in [Threads -> Results]
    BY <1>1, <1>6, TakeEffect, ResultTypes DEF TakeForAny, TypeOK
  <2> QED
    BY <1>1, <1>6, <2>1 DEF TakeForAny, Consume, UnlockEvent, TypeOK
<1>7. CASE TakeForAll(t)
  <2>1. wfmo' \in [Waits -> Records]
    BY <1>1, <1>7, TakeEffect DEF TypeOK
  <2>2. /\ pos' \in [Threads -> Nat \ {0}] /\ pc' \in [Threads -> Locations]
        /\ result' \in [Threads -> Results]
    BY <1>1, <1>7, NextEventTypes DEF TakeForAll
  <2> QED
    BY <1>1, <1>7, <2>1, <2>2 DEF TakeForAll, Consume, UnlockEvent, TypeOK
<1>8. CASE Register(t)
  <2> DEFINE q == Append(RegisteredWaits[Event(t)], [Waiter |-> own[t], WaitIndex |-> pos[t] - 1])
  <2>3. /\ q \in Seq(WaitInfos) /\ RegisteredWaits' = [RegisteredWaits EXCEPT ![Event(t)] = q]
        /\ wfmo'[own[t]] \in Records /\ wfmo' = [wfmo EXCEPT ![own[t]] = wfmo'[own[t]]]
    BY <1>8, RegisterEffect
  <2> HIDE DEF q
  <2>1. RegisteredWaits' \in [Events -> Seq(WaitInfos)] /\ wfmo' \in [Waits -> Records]
    BY <1>1, <2>3 DEF TypeOK
  <2>2. /\ pos' \in [Threads -> Nat \ {0}] /\ pc' \in [Threads -> Locations]
        /\ result' \in [Threads -> Results]
    BY <1>1, <1>8, NextEventTypes DEF Register
  <2> QED
    BY <1>1, <1>8, <2>1, <2>2 DEF Register, UnlockEvent, TypeOK
<1>9. CASE TestDone(t) \/ TestSleeps(t) \/ Wake(t) \/ ExpiredLock(t)
  <2>1. result' \in [Threads -> Results]
    <3>1. \/ \E code \in {"success", "timeout"} : result' = [result EXCEPT ![t].code = code]
          \/ result' = result
      <4>1. CASE TestDone(t)
        BY <4>1 DEF TestDone
      <4>2. CASE ExpiredLock(t)
        BY <4>2 DEF ExpiredLock
      <4>3. CASE TestSleeps(t) \/ Wake(t)
        BY <4>3 DEF TestSleeps, Wake, local
      <4> QED
        BY <1>9, <4>1, <4>2, <4>3
    <3>2. result \in [Threads -> Results]
      BY <1>1 DEF TypeOK
    <3>3. \A code \in {"success", "timeout"} :
            [result EXCEPT ![t].code = code] \in [Threads -> Results]
      BY <1>1, ResultTypes
    <3> QED
      BY <3>1, <3>2, <3>3
  <2>2. waiterMutex' \in [Waits -> Threads \cup {Nobody}]
    BY <1>1, <1>9 DEF TestDone, TestSleeps, Wake, ExpiredLock, LockWaiter, UnlockWaiter,
                      TypeOK, shared
  <2> QED
    BY <1>1, <1>9, <2>1, <2>2 DEF TestDone, TestSleeps, Wake, ExpiredLock, TypeOK, shared, local
<1>10. CASE Finish(t)
  <2>1. wfmo' \in [Waits -> Records] /\ result' \in [Threads -> Results]
    BY <1>1, <1>10, FinishEffect, ResultTypes DEF Finish, TypeOK
  <2> QED
    BY <1>1, <1>10, <2>1 DEF Finish, UnlockWaiter, TypeOK
<1> QED
  BY <1>3, <1>4, <1>5, <1>6, <1>7, <1>8, <1>9, <1>10 DEF WaitManyStep

\* Entering a call keeps the types.
LEMMA CallTypes ==
  ASSUME Base, NEW t \in Threads, Call(t)
  PROVE  TypeOK'
<1>1. TypeOK
  BY DEF Base
<1>2. PICK c \in Menu[t] : \/ SetEvent(t, c) \/ ResetEvent(t, c)
                           \/ WaitForEvent(t, c) \/ WaitForMultipleEvents(t, c)
  BY DEF Call
<1>3. c \in Calls
  BY MenuAssumption
<1>4. call' \in [Threads -> Calls \cup {NoCall}]
  <2>1. call' = [call EXCEPT ![t] = c]
    BY <1>2 DEF SetEvent, ResetEvent, WaitForEvent, CallOne, WaitForMultipleEvents
  <2> QED
    BY <1>1, <1>3, <2>1 DEF TypeOK
<1>5. result' \in [Threads -> Results]
  <2>1. result' = [result EXCEPT ![t] = NoResult]
    BY <1>2 DEF SetEvent, ResetEvent, WaitForEvent, CallOne, WaitForMultipleEvents
  <2> QED
    BY <1>1, <2>1, ResultTypes
<1>6. CASE SetEvent(t, c) \/ ResetEvent(t, c) \/ WaitForEvent(t, c)
  BY <1>1, <1>4, <1>5, <1>6
  DEF TypeOK, SetEvent, ResetEvent, WaitForEvent, CallOne, Goto, Locations, shared
<1>7. CASE WaitForMultipleEvents(t, c)
  <2>1. pc' \in [Threads -> Locations]
    BY <1>1, <1>7 DEF TypeOK, WaitForMultipleEvents, Goto, Locations
  <2>5. PICK w \in Waits :
          /\ wfmo' = [wfmo EXCEPT ![w] = NewRecord(c)]
          /\ waiterMutex' = [waiterMutex EXCEPT ![w] = t]
          /\ own' = [own EXCEPT ![t] = w]
    BY <1>7 DEF WaitForMultipleEvents
  <2>6. NewRecord(c) \in Records
    BY <1>7, OpenEffect
  <2>2. /\ own' \in [Threads -> Waits \cup {NoWait}]
        /\ wfmo' \in [Waits -> Records]
        /\ waiterMutex' \in [Waits -> Threads \cup {Nobody}]
    BY <1>1, <2>5, <2>6 DEF TypeOK
  <2> QED
    BY <1>1, <1>4, <1>5, <1>7, <2>1, <2>2 DEF TypeOK, WaitForMultipleEvents
<1> QED
  BY <1>2, <1>6, <1>7

\* Every step keeps the types.
LEMMA TypesKept ==
  ASSUME Base, NEW t \in Threads, Acts(t)
  PROVE  TypeOK'
BY SetStepTypes, WaitStepTypes, WaitManyStepTypes, CallTypes DEF Acts, Step

------------------------------------------------------------------------------
(* Where a thread is and what it has.                                      *)

\* A thread changes a deque only while it holds the event's mutex.
LEMMA DequesKept ==
  ASSUME Base, NEW t \in Threads, Acts(t)
  PROVE  /\ \A e \in Events :
              RegisteredWaits'[e] = RegisteredWaits[e] \/ (e = Event(t) /\ HoldsEvent(t))
         /\ \A u \in Threads \ {t} :
              HoldsEvent(u) => RegisteredWaits'[Event(u)] = RegisteredWaits[Event(u)]
<1>1. \A e \in Events :
        RegisteredWaits'[e] = RegisteredWaits[e] \/ (e = Event(t) /\ HoldsEvent(t))
  <2>1. CASE NotifyExpired(t) \/ NotifyWaiter(t) \/ PurgeRemoves(t)
    <3>1. PICK n \in DOMAIN RegisteredWaits[Event(t)] : Drops(t, n)
      BY <2>1, DropStepDrops DEF DropStep
    <3> QED
      BY <3>1 DEF Drops, HoldsEvent, Base, TypeOK
  <2>2. CASE Register(t)
    BY <2>2 DEF Register, Purged, HoldsEvent, Base, TypeOK
  <2>3. CASE RegisteredWaits' = RegisteredWaits
    BY <2>3
  <2> QED
    BY <2>1, <2>2, <2>3, Changes
<1>2. ASSUME NEW u \in Threads \ {t}, HoldsEvent(u)
      PROVE  RegisteredWaits'[Event(u)] = RegisteredWaits[Event(u)]
  <2>1. Event(u) \in Events
    BY <1>2, EventAtHand DEF Base, HoldsEvent, InOne, InSet, InScan
  <2>2. eventMutex[Event(u)] = u
    BY <1>2, <2>1 DEF Base, EventMutexHeld
  <2>3. ~ (Event(u) = Event(t) /\ HoldsEvent(t))
    BY <2>1, <2>2 DEF Base, EventMutexHeld
  <2> QED
    BY <1>1, <2>1, <2>3
<1> QED
  BY <1>1, <1>2

\* The event at hand of another thread stays what it is.
LEMMA OthersEvent ==
  ASSUME NEW t \in Threads, NEW u \in Threads \ {t}, OthersAside(t)
  PROVE  Event(u)' = Event(u) /\ Count(u)' = Count(u)
BY DEF OthersAside, Event, Count

\* The threads that do not act stay consistent with their calls.
LEMMA OthersInCall ==
  ASSUME Base, NEW t \in Threads, Acts(t), NEW u \in Threads \ {t}
  PROVE  InCall(u)'
<1>1. TypeOK /\ InCall(u)
  BY DEF Base
<1>2. /\ call'[u] = call[u] /\ pos'[u] = pos[u] /\ scan'[u] = scan[u] /\ own'[u] = own[u]
      /\ \/ pc'[u] = pc[u]
         \/ pc[u] = "asleep" /\ pc'[u] = "woken"
         \/ pc[u] = "waitAsleep" /\ pc'[u] = "waitLock"
  BY <1>1, OthersLeftAside DEF OthersAside
<1>3. Event(u)' = Event(u) /\ Count(u)' = Count(u)
  BY <1>1, OthersLeftAside, OthersEvent
<1>4. pc[u] = "purge" => RegisteredWaits'[Event(u)] = RegisteredWaits[Event(u)]
  BY DequesKept DEF HoldsEvent
<1>5. CASE pc'[u] = pc[u]
  <2>1. pc'[u] = "purge" => scan'[u] <= Len(RegisteredWaits'[Event(u)']) + 1
    BY <1>1, <1>2, <1>3, <1>4, <1>5 DEF InCall
  <2> QED
    BY <1>1, <1>2, <1>3, <1>5, <2>1 DEF InCall
<1>6. CASE pc[u] = "asleep" /\ pc'[u] = "woken"
  BY <1>1, <1>2, <1>3, <1>6 DEF InCall, InMany, InScan, AfterScan
<1>7. CASE pc[u] = "waitAsleep" /\ pc'[u] = "waitLock"
  BY <1>1, <1>2, <1>3, <1>7 DEF InCall, InMany, InScan, AfterScan
<1> QED
  BY <1>2, <1>5, <1>6, <1>7

\* Going on to the next event leaves the thread consistent with its call.
LEMMA NextEventInCall ==
  ASSUME Base, NEW t \in Threads, pc[t] = "purge", NextEvent(t), call' = call, own' = own
  PROVE  InCall(t)'
<1>1. TypeOK /\ InCall(t) /\ Count(t) \in Nat /\ Count(t)' = Count(t)
  BY CallFacts DEF Base, Count
<1>2. pos'[t] = pos[t] + 1 /\ pos[t] \in 1 .. Count(t) /\ own'[t] \in Waits
  BY <1>1 DEF NextEvent, TypeOK, InCall, InScan, InMany
<1>3. CASE pos[t] < Count(t)
  <2>1. pc'[t] = "register"
    BY <1>1, <1>3 DEF NextEvent, Goto, TypeOK
  <2> QED
    BY <1>1, <1>2, <1>3, <2>1 DEF InCall, InScan, InMany, AfterScan
<1>4. CASE ~ (pos[t] < Count(t))
  <2>1. pc'[t] \in {"finish", "test"}
    BY <1>1, <1>4 DEF NextEvent, Goto, TypeOK
  <2>2. pos'[t] = Count(t) + 1
    BY <1>1, <1>2, <1>4
  <2> QED
    BY <1>1, <1>2, <2>1, <2>2 DEF InCall, InScan, InMany, AfterScan
<1> QED
  BY <1>3, <1>4

\* The thread that acts stays consistent with its call.
LEMMA ActorInCall ==
  ASSUME Base, NEW t \in Threads, Acts(t)
  PROVE  InCall(t)'
<1>1. TypeOK /\ InCall(t)
  BY DEF Base
<1> USE DEF InMany, InScan, AfterScan
<1>2. CASE SetStep(t) \/ Reset(t) \/ WaitStep(t) \/ Clock(t)
  <2>2. CASE SetStep(t)
    BY <1>1, <2>2 DEF SetStep, SetLock, NotifyExpired, NotifyWaiter, SignalWaiter, NotifyNone,
                      SignalEvent, InCall, Goto, GotoWaking, TypeOK, local
  <2>3. CASE Reset(t) \/ WaitStep(t)
    BY <1>1, <2>3 DEF Reset, WaitStep, WaitFindsBusy, WaitTakes, WaitFindsUnset, WaitSleeps,
                      WaitGivesUp, ReturnFromWait, InCall, Goto, TypeOK, local
  <2>4. CASE Clock(t)
    BY <1>1, <2>4 DEF Clock, WaitExpires, Expires, SpuriousWakeup, InCall, Goto, TypeOK, local,
                      Count
  <2> QED
    BY <1>2, <2>2, <2>3, <2>4
<1>3. CASE WaitManyStep(t)
  <2>1. CASE RegisterLock(t)
    <3>1. Event(t) \in Events /\ Event(t)' = Event(t) /\ Count(t)' = Count(t)
      BY <1>1, <2>1, EventAtHand DEF RegisterLock, Event, Count
    <3>2. pc'[t] = "purge" /\ scan'[t] = 1 /\ pc[t] = "register"
      BY <1>1, <2>1 DEF RegisterLock, Goto, TypeOK
    <3>3. Len(RegisteredWaits'[Event(t)]) \in Nat
      BY <1>1, <2>1, <3>1, LenProperties DEF RegisterLock, TypeOK
    <3> QED
      BY <1>1, <2>1, <3>1, <3>2, <3>3 DEF InCall, RegisterLock
  <2>2. CASE PurgeKeeps(t)
    <3>1. Event(t) \in Events /\ Event(t)' = Event(t) /\ Count(t)' = Count(t)
      BY <1>1, <2>2, EventAtHand DEF PurgeKeeps, Purging, Event, Count
    <3>2. /\ scan'[t] = scan[t] + 1 /\ scan[t] <= Len(RegisteredWaits[Event(t)])
          /\ RegisteredWaits' = RegisteredWaits /\ pc[t] = "purge" /\ scan[t] \in Nat
      BY <1>1, <2>2 DEF PurgeKeeps, Purging, TypeOK, shared
    <3>3. Len(RegisteredWaits[Event(t)]) \in Nat
      BY <1>1, <3>1, LenProperties DEF TypeOK
    <3> QED
      BY <1>1, <2>2, <3>1, <3>2, <3>3 DEF InCall, PurgeKeeps
  <2>3. CASE PurgeRemoves(t)
    <3> DEFINE s == RegisteredWaits[Event(t)]
    <3>1. Event(t)' = Event(t) /\ Count(t)' = Count(t) /\ pc[t] = "purge" /\ scan[t] <= Len(s)
      BY <2>3 DEF PurgeRemoves, Purging, Event, Count, local
    <3>2. PICK n \in DOMAIN s : Drops(t, n)
      BY <2>3, DropStepDrops DEF DropStep
    <3>3. /\ RegisteredWaits'[Event(t)] = RemoveAt(s, n)
          /\ Len(RemoveAt(s, n)) = Len(s) - 1 /\ Len(s) \in Nat
      BY <1>1, <3>2, DropEffect DEF TypeOK
    <3>4. scan'[t] <= Len(RegisteredWaits'[Event(t)']) + 1
      <4>1. scan'[t] = scan[t] /\ scan[t] \in Nat
        BY <1>1, <2>3 DEF PurgeRemoves, local, TypeOK
      <4> HIDE DEF s
      <4> QED
        BY <3>1, <3>3, <4>1
    <3> QED
      BY <1>1, <2>3, <3>1, <3>4 DEF InCall, PurgeRemoves, local
  <2>4. CASE TakeForAny(t)
    <3>1. pc'[t] = "finish" /\ pc[t] = "purge" /\ Count(t)' = Count(t)
      BY <1>1, <2>4 DEF TakeForAny, Purged, Goto, TypeOK, Count
    <3>2. Count(t) \in Nat
      BY <1>1, <3>1, CallFacts
    <3> QED
      BY <1>1, <2>4, <3>1, <3>2 DEF InCall, TakeForAny
  <2>5. CASE TakeForAll(t) \/ Register(t)
    BY <2>5, NextEventInCall DEF TakeForAll, Register, Purged
  <2>6. CASE TestDone(t) \/ TestSleeps(t) \/ Wake(t) \/ ExpiredLock(t)
    <3>1. /\ Count(t)' = Count(t) /\ pc[t] \in AfterScan
          /\ pc'[t] \in {"finish", "asleep", "test"}
      BY <1>1, <2>6 DEF TestDone, TestSleeps, Wake, ExpiredLock, Goto, TypeOK, Count, local
    <3>2. Count(t) \in Nat
      BY <1>1, <3>1, CallFacts
    <3> QED
      BY <1>1, <2>6, <3>1, <3>2 DEF InCall, TestDone, TestSleeps, Wake, ExpiredLock, local
  <2>7. CASE Finish(t)
    BY <1>1, <2>7 DEF Finish, InCall, Goto, TypeOK
  <2> QED
    BY <1>3, <2>1, <2>2, <2>3, <2>4, <2>5, <2>6, <2>7 DEF WaitManyStep
<1>4. CASE Call(t)
  <2>1. PICK c \in Menu[t] : \/ SetEvent(t, c) \/ ResetEvent(t, c)
                             \/ WaitForEvent(t, c) \/ WaitForMultipleEvents(t, c)
    BY <1>4 DEF Call
  <2>2. CASE SetEvent(t, c) \/ ResetEvent(t, c) \/ WaitForEvent(t, c)
    BY <1>1, <2>2 DEF SetEvent, ResetEvent, WaitForEvent, CallOne, Goto, InCall, TypeOK
  <2>3. CASE WaitForMultipleEvents(t, c)
    <3>1. /\ pc'[t] = "register" /\ call'[t] = c /\ own'[t] \in Waits /\ pos'[t] = 1
      BY <1>1, <2>3, OpenEffect DEF TypeOK
    <3>2. Count(t)' \in Nat \ {0}
      <4>1. c \in Calls /\ Len(c.events) >= 1
        BY MenuAssumption
      <4>2. c.events \in Seq(Events)
        BY <4>1 DEF Calls
      <4> QED
        BY <3>1, <4>1, <4>2 DEF Count
    <3> QED
      BY <3>1, <3>2 DEF InCall
  <2> QED
    BY <2>1, <2>2, <2>3
<1> QED
  BY <1>2, <1>3, <1>4 DEF Acts, Step

\* Every thread stays consistent with its call.
LEMMA CallsKept ==
  ASSUME Base, NEW t \in Threads, Acts(t)
  PROVE  \A u \in Threads : InCall(u)'
BY OthersInCall, ActorInCall

------------------------------------------------------------------------------
(* Mutexes and owners.                                                     *)

\* A step takes a free event mutex, releases the one it holds, or does neither.
TakesEvent(t) ==
  /\ ~HoldsEvent(t) /\ HoldsEvent(t)' /\ Event(t)' = Event(t) /\ Event(t) \in Events
  /\ eventMutex[Event(t)] = Nobody
  /\ eventMutex' = [eventMutex EXCEPT ![Event(t)] = t]

ReleasesEvent(t) ==
  /\ HoldsEvent(t) /\ ~HoldsEvent(t)' /\ Event(t) \in Events
  /\ eventMutex' = [eventMutex EXCEPT ![Event(t)] = Nobody]

KeepsEvent(t) ==
  /\ HoldsEvent(t)' <=> HoldsEvent(t)
  /\ HoldsEvent(t) => Event(t)' = Event(t)
  /\ UNCHANGED eventMutex

\* A step takes one free event mutex, releases the one its thread holds, or neither.
LEMMA EventMutexStep ==
  ASSUME Base, SignalsFollow, NEW t \in Threads, Acts(t)
  PROVE  TakesEvent(t) \/ ReleasesEvent(t) \/ KeepsEvent(t)
<1> USE DEF HoldsEvent
<1>1. TypeOK
  BY DEF Base
<1>2. pc[t] \in InOne \cup InScan => Event(t) \in Events
  BY EventAtHand DEF Base
<1>3. CASE SetLock(t) \/ RegisterLock(t)
  <2>1. /\ pc[t] \in {"setLock", "register"} /\ pc'[t] \in {"notify", "purge"}
        /\ call' = call /\ pos' = pos /\ LockEvent(t)
    BY <1>1, <1>3 DEF SetLock, RegisterLock, Goto, TypeOK, local
  <2> QED
    BY <1>2, <2>1 DEF TakesEvent, LockEvent, Event, InOne, InSet, InScan
<1>4. CASE SignalWaiter(t)
  <2>1. pc[t] = "signalWaiter" /\ Event(t) \in Events
    BY <1>2, <1>4 DEF SignalWaiter, InOne, InSet
  <2>2. CASE Event(t) \in AutoReset
    BY <1>1, <1>4, <2>1, <2>2 DEF SignalWaiter, ReleasesEvent, UnlockEvent, GotoWaking, TypeOK
  <2>3. CASE Event(t) \notin AutoReset
    <3>1. pc'[t] = "notify" /\ eventMutex' = eventMutex /\ call'[t] = call[t] /\ pos'[t] = pos[t]
      BY <1>1, <1>4, <2>3 DEF SignalWaiter, GotoWaking, TypeOK
    <3> QED
      BY <2>1, <3>1 DEF KeepsEvent, Event
  <2> QED
    BY <2>2, <2>3
<1>5. CASE NotifyNone(t)
  <2>1. pc[t] = "notify" /\ Event(t) \in Events /\ State[Event(t)]
    BY <1>2, <1>5 DEF NotifyNone, InOne, InSet, SignalsFollow
  <2> QED
    BY <1>1, <1>5, <2>1 DEF NotifyNone, ReleasesEvent, UnlockEvent, Goto, TypeOK
<1>6. CASE TakeForAny(t) \/ TakeForAll(t) \/ Register(t)
  <2>1. pc[t] = "purge" /\ pc'[t] # "purge" /\ pc'[t] \notin {"notify", "signalWaiter"}
        /\ UnlockEvent(t)
    BY <1>1, <1>6 DEF TakeForAny, TakeForAll, Register, Purged, NextEvent, Goto, TypeOK
  <2> QED
    BY <1>2, <2>1 DEF ReleasesEvent, UnlockEvent, InScan
<1>7. CASE NotifyExpired(t) \/ NotifyWaiter(t) \/ PurgeRemoves(t) \/ PurgeKeeps(t)
  <2>1. /\ pc[t] \in {"notify", "purge"} /\ pc'[t] \in {"notify", "purge", "signalWaiter"}
        /\ call' = call /\ pos' = pos /\ eventMutex' = eventMutex
    BY <1>1, <1>7 DEF NotifyExpired, NotifyWaiter, PurgeRemoves, PurgeKeeps, Purging, Goto,
                      TypeOK, local, shared
  <2> QED
    BY <2>1 DEF KeepsEvent, Event
<1>8. CASE SignalEvent(t) \/ Reset(t) \/ WaitStep(t)
  <2>1. /\ ~HoldsEvent(t) /\ eventMutex' = eventMutex
        /\ pc'[t] \notin {"notify", "purge", "signalWaiter"}
    BY <1>1, <1>8 DEF SignalEvent, Reset, WaitStep, WaitFindsBusy, WaitTakes, WaitFindsUnset,
                      WaitSleeps, WaitGivesUp, ReturnFromWait, WithEvent, Goto, GotoWaking,
                      TypeOK, shared
  <2> QED
    BY <2>1 DEF KeepsEvent
<1>9. CASE TestDone(t) \/ TestSleeps(t) \/ Wake(t) \/ ExpiredLock(t) \/ Finish(t) \/ Clock(t)
  <2>1. /\ ~HoldsEvent(t) /\ eventMutex' = eventMutex
        /\ pc'[t] \notin {"notify", "purge", "signalWaiter"}
    BY <1>1, <1>9 DEF TestDone, TestSleeps, Wake, ExpiredLock, Finish, Clock, WaitExpires,
                      Expires, SpuriousWakeup, Goto, TypeOK, shared
  <2> QED
    BY <2>1 DEF KeepsEvent
<1>10. CASE Call(t)
  <2>1. /\ ~HoldsEvent(t) /\ eventMutex' = eventMutex
        /\ pc'[t] \notin {"notify", "purge", "signalWaiter"}
    BY <1>1, <1>10 DEF Call, SetEvent, ResetEvent, WaitForEvent, CallOne,
                       WaitForMultipleEvents, Goto, TypeOK, shared
  <2> QED
    BY <2>1 DEF KeepsEvent
<1> QED
  BY <1>3, <1>4, <1>5, <1>6, <1>7, <1>8, <1>9, <1>10
  DEF Acts, Step, SetStep, WaitManyStep

\* The mutex of an event is held by the thread that is where it needs it.
LEMMA EventMutexKept ==
  ASSUME Base, SignalsFollow, NEW t \in Threads, Acts(t)
  PROVE  EventMutexHeld'
<1>1. TypeOK /\ EventMutexHeld /\ t # Nobody
  BY EventsAssumption DEF Base
<1>2. TakesEvent(t) \/ ReleasesEvent(t) \/ KeepsEvent(t)
  BY EventMutexStep
<1>3. ASSUME NEW e \in Events, NEW u \in Threads \ {t}
      PROVE  eventMutex'[e] = u <=> HoldsEvent(u)' /\ Event(u)' = e
  <2>1. (HoldsEvent(u)' <=> HoldsEvent(u)) /\ Event(u)' = Event(u)
    BY <1>1, OthersLeftAside, OthersEvent DEF OthersAside, HoldsEvent
  <2>2. eventMutex[e] = u <=> HoldsEvent(u) /\ Event(u) = e
    BY <1>1 DEF EventMutexHeld
  <2>3. HoldsEvent(t) => \A d \in Events : Event(t) = d => eventMutex[d] = t
    BY <1>1 DEF EventMutexHeld
  <2>4. eventMutex'[e] = u <=> eventMutex[e] = u
    BY <1>1, <1>2, <2>3, EventsAssumption DEF TakesEvent, ReleasesEvent, KeepsEvent, TypeOK
  <2> QED
    BY <2>1, <2>2, <2>4
<1>4. ASSUME NEW e \in Events
      PROVE  eventMutex'[e] = t <=> HoldsEvent(t)' /\ Event(t)' = e
  <2>1. eventMutex[e] = t <=> HoldsEvent(t) /\ Event(t) = e
    BY <1>1 DEF EventMutexHeld
  <2>2. CASE TakesEvent(t)
    BY <1>1, <2>1, <2>2 DEF TakesEvent, TypeOK
  <2>3. CASE ReleasesEvent(t)
    BY <1>1, <2>1, <2>3 DEF ReleasesEvent, TypeOK
  <2>4. CASE KeepsEvent(t)
    BY <2>1, <2>4 DEF KeepsEvent
  <2> QED
    BY <1>2, <2>2, <2>3, <2>4
<1> QED
  BY <1>3, <1>4 DEF EventMutexHeld

\* The same of the mutex of a thread's record.
TakesWaiter(t) ==
  /\ ~HoldsWaiter(t) /\ HoldsWaiter(t)' /\ own'[t] \in Waits
  /\ waiterMutex[own'[t]] = Nobody
  /\ waiterMutex' = [waiterMutex EXCEPT ![own'[t]] = t]

ReleasesWaiter(t) ==
  /\ HoldsWaiter(t) /\ ~HoldsWaiter(t)' /\ own[t] \in Waits
  /\ waiterMutex' = [waiterMutex EXCEPT ![own[t]] = Nobody]

KeepsWaiter(t) ==
  /\ HoldsWaiter(t)' <=> HoldsWaiter(t)
  /\ own'[t] = own[t]
  /\ UNCHANGED waiterMutex

\* A step takes one free record mutex, releases the one its thread holds, or neither.
LEMMA WaiterMutexStep ==
  ASSUME Base, NEW t \in Threads, Acts(t)
  PROVE  TakesWaiter(t) \/ ReleasesWaiter(t) \/ KeepsWaiter(t)
<1> USE DEF HoldsWaiter
<1>1. TypeOK
  BY DEF Base
<1>2. pc[t] \in InMany => own[t] \in Waits
  BY DEF Base, InCall
<1>3. CASE Wake(t) \/ ExpiredLock(t)
  <2>1. /\ pc[t] \in {"woken", "expired"} /\ pc'[t] \in {"test", "finish"} /\ own' = own
        /\ LockWaiter(t)
    BY <1>1, <1>3 DEF Wake, ExpiredLock, Goto, TypeOK, local
  <2> QED
    BY <1>2, <2>1 DEF TakesWaiter, LockWaiter, InMany, AfterScan
<1>4. CASE TestSleeps(t) \/ Finish(t)
  <2>1. pc[t] \in {"test", "finish"} /\ pc'[t] \in {"asleep", "idle"} /\ UnlockWaiter(t)
    BY <1>1, <1>4 DEF TestSleeps, Finish, Goto, TypeOK
  <2> QED
    BY <1>2, <2>1 DEF ReleasesWaiter, UnlockWaiter, InMany, AfterScan
<1>5. CASE SetStep(t) \/ Reset(t) \/ WaitStep(t)
  <2>1. /\ pc[t] \in InOne /\ pc'[t] \in InOne \cup {"idle"}
        /\ own' = own /\ waiterMutex' = waiterMutex
    BY <1>1, <1>5 DEF SetStep, SetLock, NotifyExpired, NotifyWaiter, SignalWaiter, NotifyNone,
                      SignalEvent, Reset, WaitStep, WaitFindsBusy, WaitTakes, WaitFindsUnset,
                      WaitSleeps, WaitGivesUp, ReturnFromWait, Goto, GotoWaking, TypeOK,
                      InOne, InSet, InWait, local, shared
  <2> QED
    BY <2>1 DEF KeepsWaiter, InOne, InSet, InWait
<1>6. CASE \/ RegisterLock(t) \/ PurgeKeeps(t) \/ PurgeRemoves(t) \/ TakeForAny(t)
           \/ TakeForAll(t) \/ Register(t) \/ TestDone(t)
  <2>1. /\ pc[t] \in {"register", "purge", "test"}
        /\ pc'[t] \in {"register", "purge", "test", "finish"}
        /\ own' = own /\ waiterMutex' = waiterMutex
    BY <1>1, <1>6 DEF RegisterLock, PurgeKeeps, PurgeRemoves, Purging, TakeForAny, TakeForAll,
                      Register, Purged, TestDone, NextEvent, Goto, TypeOK, local, shared
  <2> QED
    BY <2>1 DEF KeepsWaiter
<1>7. CASE Clock(t)
  <2>1. /\ pc[t] \in {"asleep", "waitAsleep"} /\ own' = own /\ waiterMutex' = waiterMutex
        /\ pc'[t] \in {"waitExpired", "expired", "woken", "waitLock"}
    BY <1>1, <1>7 DEF Clock, WaitExpires, Expires, SpuriousWakeup, Goto, TypeOK, local, shared
  <2> QED
    BY <2>1 DEF KeepsWaiter
<1>8. CASE Call(t)
  <2>1. PICK c \in Menu[t] : \/ SetEvent(t, c) \/ ResetEvent(t, c)
                             \/ WaitForEvent(t, c) \/ WaitForMultipleEvents(t, c)
    BY <1>8 DEF Call
  <2>2. CASE SetEvent(t, c) \/ ResetEvent(t, c) \/ WaitForEvent(t, c)
    <3>1. /\ pc[t] = "idle" /\ own' = own /\ waiterMutex' = waiterMutex
          /\ pc'[t] \in {"setLock", "resetLock", "waitLock"}
      BY <1>1, <2>2 DEF SetEvent, ResetEvent, WaitForEvent, CallOne, Goto, TypeOK, shared
    <3> QED
      BY <3>1 DEF KeepsWaiter
  <2>3. CASE WaitForMultipleEvents(t, c)
    <3>1. pc[t] = "idle" /\ pc'[t] = "register"
      BY <1>1, <2>3, OpenEffect DEF TypeOK
    <3>2. /\ own'[t] \in Waits /\ waiterMutex[own'[t]] = Nobody
          /\ waiterMutex' = [waiterMutex EXCEPT ![own'[t]] = t]
      BY <2>3, OpenEffect
    <3> QED
      BY <3>1, <3>2 DEF TakesWaiter
  <2> QED
    BY <2>1, <2>2, <2>3
<1> QED
  BY <1>3, <1>4, <1>5, <1>6, <1>7, <1>8 DEF Acts, Step, WaitManyStep

\* The mutex of a record is held by the thread that is where it needs it.
LEMMA WaiterMutexKept ==
  ASSUME Base, NEW t \in Threads, Acts(t)
  PROVE  WaiterMutexHeld'
<1>1. TypeOK /\ WaiterMutexHeld /\ t # Nobody
  BY EventsAssumption DEF Base
<1>2. TakesWaiter(t) \/ ReleasesWaiter(t) \/ KeepsWaiter(t)
  BY WaiterMutexStep
<1>3. ASSUME NEW w \in Waits, NEW u \in Threads \ {t}
      PROVE  waiterMutex'[w] = u <=> HoldsWaiter(u)' /\ own'[u] = w
  <2>1. (HoldsWaiter(u)' <=> HoldsWaiter(u)) /\ own'[u] = own[u]
    BY <1>1, OthersLeftAside DEF OthersAside, HoldsWaiter
  <2>2. waiterMutex[w] = u <=> HoldsWaiter(u) /\ own[u] = w
    BY <1>1 DEF WaiterMutexHeld
  <2>3. HoldsWaiter(t) => \A v \in Waits : own[t] = v => waiterMutex[v] = t
    BY <1>1 DEF WaiterMutexHeld
  <2>4. waiterMutex'[w] = u <=> waiterMutex[w] = u
    <3>1. waiterMutex \in [Waits -> Threads \cup {Nobody}]
      BY <1>1 DEF TypeOK
    <3>2. CASE TakesWaiter(t)
      <4>1. PICK v \in Waits : v = own'[t]
        BY <3>2 DEF TakesWaiter
      <4> QED
        BY <1>1, <3>1, <3>2, <4>1, EventsAssumption DEF TakesWaiter
    <3>3. CASE ReleasesWaiter(t)
      BY <1>1, <2>3, <3>1, <3>3, EventsAssumption DEF ReleasesWaiter
    <3>4. CASE KeepsWaiter(t)
      BY <3>4 DEF KeepsWaiter
    <3> QED
      BY <1>2, <3>2, <3>3, <3>4
  <2> QED
    BY <2>1, <2>2, <2>4
<1>4. ASSUME NEW w \in Waits
      PROVE  waiterMutex'[w] = t <=> HoldsWaiter(t)' /\ own'[t] = w
  <2>1. waiterMutex[w] = t <=> HoldsWaiter(t) /\ own[t] = w
    BY <1>1 DEF WaiterMutexHeld
  <2>2. CASE TakesWaiter(t)
    <3>1. PICK v \in Waits : v = own'[t]
      BY <2>2 DEF TakesWaiter
    <3> QED
      BY <1>1, <2>1, <2>2, <3>1 DEF TakesWaiter, TypeOK
  <2>3. CASE ReleasesWaiter(t)
    BY <1>1, <2>1, <2>3 DEF ReleasesWaiter, TypeOK
  <2>4. CASE KeepsWaiter(t)
    BY <2>1, <2>4 DEF KeepsWaiter
  <2> QED
    BY <1>2, <2>2, <2>3, <2>4
<1> QED
  BY <1>3, <1>4 DEF WaiterMutexHeld

\* A new call takes a record that no other call has.
LEMMA OwnersKept ==
  ASSUME Base, NEW t \in Threads, Acts(t)
  PROVE  OwnersDiffer'
<1>1. TypeOK /\ OwnersDiffer
  BY DEF Base
<1>2. CASE own' = own
  BY <1>1, <1>2 DEF OwnersDiffer
<1>3. CASE Finish(t)
  BY <1>1, <1>3 DEF Finish, OwnersDiffer, TypeOK
<1>4. ASSUME NEW c \in Menu[t], WaitForMultipleEvents(t, c)
      PROVE  OwnersDiffer'
  <2>1. /\ own'[t] \in Waits /\ own' = [own EXCEPT ![t] = own'[t]]
        /\ \A u \in Threads : own[u] # own'[t]
    BY <1>4, OpenEffect
  <2>2. PICK w : w = own'[t]
    OBVIOUS
  <2> QED
    BY <1>1, <2>1, <2>2 DEF OwnersDiffer, TypeOK
<1> QED
  BY <1>2, <1>3, <1>4, Changes

------------------------------------------------------------------------------
(* Deques, records and references.                                         *)

\* No step registers a wait twice with one event.
LEMMA OnceEachKept ==
  ASSUME Base, NEW t \in Threads, Acts(t)
  PROVE  \A e \in Events : OnceEach(RegisteredWaits'[e])
<1>1. RegisteredWaits \in [Events -> Seq(WaitInfos)] /\ \A e \in Events : OnceEach(RegisteredWaits[e])
  BY DEF Base, TypeOK
<1>2. CASE DropStep(t)
  <2>1. PICK n \in DOMAIN RegisteredWaits[Event(t)] : Drops(t, n)
    BY <1>2, DropStepDrops
  <2>2. PICK q : /\ OnceEach(q) /\ RegisteredWaits' = [RegisteredWaits EXCEPT ![Event(t)] = q]
    BY <2>1, DropEffect
  <2> QED
    BY <1>1, <2>2
<1>3. CASE Register(t)
  <2>1. PICK q : /\ OnceEach(q) /\ RegisteredWaits' = [RegisteredWaits EXCEPT ![Event(t)] = q]
    BY <1>3, RegisterEffect
  <2> QED
    BY <1>1, <2>1
<1> QED
  BY <1>1, <1>2, <1>3, Changes DEF DropStep

\* The entries that are in a deque after a step were there before it, but for the one
\* that a step registers.
LEMMA EntriesAfter ==
  ASSUME Base, NEW t \in Threads, Acts(t), NEW e \in Events, NEW x \in ToSet(RegisteredWaits'[e])
  PROVE  /\ x \in WaitInfos
         /\ \/ x \in ToSet(RegisteredWaits[e])
            \/ /\ Register(t) /\ e = Event(t)
               /\ x = [Waiter |-> own[t], WaitIndex |-> pos[t] - 1]
<1>1. RegisteredWaits \in [Events -> Seq(WaitInfos)]
  BY DEF Base, TypeOK
<1>2. x \in WaitInfos
  <2>1. RegisteredWaits'[e] \in Seq(WaitInfos)
    BY TypesKept DEF TypeOK
  <2> QED
    BY <2>1, ElementsOf
<1>3. CASE DropStep(t)
  <2>1. PICK n \in DOMAIN RegisteredWaits[Event(t)] : Drops(t, n)
    BY <1>3, DropStepDrops
  <2>2. PICK q : /\ ToSet(q) \subseteq ToSet(RegisteredWaits[Event(t)])
                 /\ RegisteredWaits' = [RegisteredWaits EXCEPT ![Event(t)] = q]
    BY <2>1, DropEffect
  <2> QED
    BY <1>1, <1>2, <2>2
<1>4. CASE Register(t)
  <2>1. PICK q : /\ ToSet(q) = ToSet(RegisteredWaits[Event(t)])
                               \cup {[Waiter |-> own[t], WaitIndex |-> pos[t] - 1]}
                 /\ RegisteredWaits' = [RegisteredWaits EXCEPT ![Event(t)] = q]
    BY <1>4, RegisterEffect
  <2> QED
    BY <1>1, <1>2, <1>4, <2>1
<1> QED
  BY <1>2, <1>3, <1>4, Changes DEF DropStep

\* A thread that has a record after a step keeps it, and its call, or has just got it.
LEMMA RecordAfter ==
  ASSUME Base, NEW t \in Threads, Acts(t), own'[t] # NoWait
  PROVE  \/ /\ own'[t] = own[t] /\ call'[t] = call[t]
            /\ \/ pos'[t] = pos[t] /\ ~Register(t) /\ ~TakeForAll(t)
               \/ pos'[t] = pos[t] + 1 /\ (Register(t) \/ TakeForAll(t))
         \/ /\ \E c \in Menu[t] : WaitForMultipleEvents(t, c)
            /\ \A e \in Events : ~IsRegistered(own'[t], e)
<1>1. TypeOK /\ own[t] # NoWait => pc[t] \in InMany
  BY DEF Base, InCall
<1>2. CASE Finish(t)
  BY <1>2 DEF Finish, Base, TypeOK
<1>3. CASE \E c \in Menu[t] : WaitForMultipleEvents(t, c)
  BY <1>3, OpenEffect
<1>4. CASE own' = own /\ ~Finish(t)
  <2>1. pc[t] \in InMany
    BY <1>4 DEF Base, InCall
  <2>2. CASE Register(t) \/ TakeForAll(t)
    BY <1>4, <2>2 DEF Register, TakeForAll, NextEvent, Base, TypeOK
  <2>3. CASE ~(Register(t) \/ TakeForAll(t))
    <3>1. ~SetStep(t) /\ ~Reset(t) /\ ~WaitStep(t) /\ ~Call(t)
      BY <2>1 DEF SetStep, SetLock, NotifyExpired, NotifyWaiter, SignalWaiter, NotifyNone,
                  SignalEvent, Reset, WaitStep, WaitFindsBusy, WaitTakes, WaitFindsUnset,
                  WaitSleeps, WaitGivesUp, Call, SetEvent, ResetEvent, WaitForEvent, CallOne,
                  WaitForMultipleEvents, InMany, InScan, AfterScan
    <3>2. call' = call /\ pos' = pos
      BY <1>4, <2>3, <3>1 DEF Acts, Step, WaitManyStep, RegisterLock, PurgeKeeps, PurgeRemoves,
                              TakeForAny, TestDone, TestSleeps, Wake, ExpiredLock, Clock,
                              WaitExpires, Expires, SpuriousWakeup, local
    <3> QED
      BY <1>4, <2>3, <3>2
  <2> QED
    BY <2>2, <2>3
<1> QED
  BY <1>2, <1>3, <1>4, Changes

\* Entries keep naming the event they were made for.
LEMMA EntriesKept ==
  ASSUME Base, NEW t \in Threads, Acts(t)
  PROVE  EntriesFollow'
<1> SUFFICES ASSUME NEW u \in Threads, NEW e \in Events, NEW x \in ToSet(RegisteredWaits'[e]),
                    x.Waiter = own'[u]
             PROVE  /\ x.WaitIndex + 1 \in 1 .. Count(u)' /\ x.WaitIndex + 1 < pos'[u]
                    /\ call'[u].events[x.WaitIndex + 1] = e
  BY DEF EntriesFollow
<1>1. /\ TypeOK /\ OwnersDiffer /\ EntriesFollow
      /\ x \in WaitInfos /\ own'[u] \in Waits /\ own'[u] # NoWait /\ x.WaitIndex \in Nat
  BY EntriesAfter, EventsAssumption DEF Base, WaitInfos
<1>2. CASE x \in ToSet(RegisteredWaits[e]) /\ own'[u] = own[u] /\ call'[u] = call[u]
           /\ pos'[u] \in {pos[u], pos[u] + 1}
  <2>1. x.WaitIndex + 1 \in 1 .. Count(u) /\ x.WaitIndex + 1 < pos[u]
        /\ call[u].events[x.WaitIndex + 1] = e
    BY <1>1, <1>2 DEF EntriesFollow
  <2>2. Count(u)' = Count(u) /\ pos[u] \in Nat
    BY <1>1, <1>2 DEF Count, TypeOK
  <2> QED
    BY <1>1, <1>2, <2>1, <2>2
<1>3. CASE u # t
  <2>1. own'[u] = own[u] /\ call'[u] = call[u] /\ pos'[u] = pos[u]
    BY <1>1, <1>3, OthersLeftAside DEF OthersAside
  <2>2. own[u] # own[t]
    BY <1>1, <1>3, <2>1 DEF OwnersDiffer
  <2>3. x \in ToSet(RegisteredWaits[e])
    BY <2>1, <2>2, EntriesAfter
  <2> QED
    BY <1>2, <2>1, <2>3
<1>4. CASE u = t
  <2>1. CASE x \in ToSet(RegisteredWaits[e])
    <3>1. PICK i \in DOMAIN RegisteredWaits[e] : RegisteredWaits[e][i] = x
      BY <2>1 DEF ToSet
    <3>2. IsRegistered(own'[t], e)
      BY <1>4, <3>1 DEF IsRegistered
    <3>3. own'[t] = own[t] /\ call'[t] = call[t] /\ pos'[t] \in {pos[t], pos[t] + 1}
      BY <1>1, <1>4, <3>2, RecordAfter
    <3> QED
      BY <1>2, <1>4, <2>1, <3>3
  <2>2. CASE /\ Register(t) /\ e = Event(t)
             /\ x = [Waiter |-> own[t], WaitIndex |-> pos[t] - 1]
    <3>1. pc[t] = "purge" /\ call' = call /\ pos'[t] = pos[t] + 1
      BY <1>1, <2>2 DEF Register, Purged, NextEvent, TypeOK
    <3>2. pos[t] \in 1 .. Count(t) /\ Count(t)' = Count(t) /\ Count(t) \in Nat
      BY <3>1, EventAtHand, CallFacts DEF Base, InScan, Count
    <3>3. x.WaitIndex + 1 = pos[t]
      BY <2>2, <3>2
    <3> QED
      BY <1>4, <2>2, <3>1, <3>2, <3>3 DEF Event
  <2> QED
    BY <2>1, <2>2, EntriesAfter
<1> QED
  BY <1>3, <1>4

------------------------------------------------------------------------------
(* Who refers to a record after a step.                                    *)

\* Erasing an entry unregisters its wait from that event, and no other.
LEMMA DropRegistrations ==
  ASSUME Base, NEW t \in Threads, NEW n, Drops(t, n), NEW v \in Waits, NEW d \in Events
  PROVE  IsRegistered(v, d)' <=>
           IsRegistered(v, d) /\ ~ (v = RegisteredWaits[Event(t)][n].Waiter /\ d = Event(t))
<1> DEFINE e == Event(t) w == RegisteredWaits[e][n].Waiter
<1>1. PICK q : /\ RegisteredWaits' = [RegisteredWaits EXCEPT ![e] = q]
               /\ WaitersIn(q) = WaitersIn(RegisteredWaits[e]) \ {w}
  BY DropEffect
<1>2. RegisteredWaits \in [Events -> Seq(WaitInfos)]
  BY DEF Base, TypeOK
<1>3. /\ IsRegistered(v, d) <=> v \in WaitersIn(RegisteredWaits[d])
      /\ IsRegistered(v, d)' <=> v \in WaitersIn(RegisteredWaits'[d])
  BY DEF IsRegistered, WaitersIn
<1> QED
  BY <1>1, <1>2, <1>3

\* Register adds the caller's wait to the event at hand, and no other.
LEMMA RegisterRegistrations ==
  ASSUME Base, NEW t \in Threads, Register(t), NEW v \in Waits, NEW d \in Events
  PROVE  IsRegistered(v, d)' <=> IsRegistered(v, d) \/ (v = own[t] /\ d = Event(t))
<1> DEFINE e == Event(t) w == own[t]
<1>1. PICK q : /\ RegisteredWaits' = [RegisteredWaits EXCEPT ![e] = q]
               /\ WaitersIn(q) = WaitersIn(RegisteredWaits[e]) \cup {w}
  BY RegisterEffect
<1>2. RegisteredWaits \in [Events -> Seq(WaitInfos)]
  BY DEF Base, TypeOK
<1>3. /\ IsRegistered(v, d) <=> v \in WaitersIn(RegisteredWaits[d])
      /\ IsRegistered(v, d)' <=> v \in WaitersIn(RegisteredWaits'[d])
  BY DEF IsRegistered, WaitersIn
<1> QED
  BY <1>1, <1>2, <1>3

\* Whoever erases an entry gives back the reference that the entry was.
LEMMA DropReferences ==
  ASSUME Base, NEW t \in Threads, NEW n, Drops(t, n), NEW v \in Waits
  PROVE  wfmo'[v].RefCount = Cardinality(Holders(v)') + Cardinality(Owners(v)')
<1> DEFINE e == Event(t) w == RegisteredWaits[e][n].Waiter
<1>1. \A d \in Events : IsRegistered(v, d)' <=>
                          IsRegistered(v, d) /\ ~ (v = w /\ d = e)
  BY DropRegistrations
<1>2. /\ e \in Events /\ w \in Waits /\ IsRegistered(w, e)
      /\ wfmo'[w].RefCount = wfmo[w].RefCount - 1
      /\ wfmo' = [wfmo EXCEPT ![w] = wfmo'[w]]
  BY DropEffect
<1>3. RegisteredWaits \in [Events -> Seq(WaitInfos)] /\ wfmo \in [Waits -> Records]
  BY DEF Base, TypeOK
<1>4. /\ wfmo[v].RefCount = Cardinality(Holders(v)) + Cardinality(Owners(v))
      /\ Cardinality(Holders(v)) \in Nat /\ Cardinality(Owners(v)) \in Nat
      /\ IsFiniteSet(Holders(v))
  BY References, OwnerIsAlone, HoldersFinite DEF Base
<1>5. Owners(v)' = Owners(v)
  BY DEF Drops, Owners
<1> HIDE DEF w, e
<1>6. CASE v # w
  <2>1. \A d \in Events : IsRegistered(v, d)' <=> IsRegistered(v, d)
    BY <1>1, <1>6
  <2>2. Holders(v)' = Holders(v)
    BY <2>1 DEF Holders
  <2>3. wfmo'[v] = wfmo[v]
    <3>1. PICK m : m = wfmo'[w]
      OBVIOUS
    <3> QED
      BY <1>2, <1>3, <1>6, <3>1
  <2> QED
    BY <1>4, <1>5, <2>2, <2>3
<1>7. CASE v = w
  <2>1. \A d \in Events : IsRegistered(v, d)' <=> IsRegistered(v, d) /\ d # e
    BY <1>1, <1>7
  <2>2. Holders(v)' = Holders(v) \ {e} /\ e \in Holders(v)
    BY <1>2, <1>7, <2>1 DEF Holders
  <2>3. Cardinality(Holders(v)') = Cardinality(Holders(v)) - 1
    BY <1>4, <2>2, FS_RemoveElement
  <2> QED
    BY <1>2, <1>4, <1>5, <1>7, <2>3
<1> QED
  BY <1>6, <1>7

\* Register takes a reference for the entry it makes.
LEMMA RegisterReferences ==
  ASSUME Base, NEW t \in Threads, Register(t), NEW v \in Waits
  PROVE  wfmo'[v].RefCount = Cardinality(Holders(v)') + Cardinality(Owners(v)')
<1> DEFINE e == Event(t) w == own[t]
<1>1. \A d \in Events : IsRegistered(v, d)' <=>
                          IsRegistered(v, d) \/ (v = w /\ d = e)
  BY RegisterRegistrations
<1>2. /\ e \in Events /\ w \in Waits /\ ~IsRegistered(w, e)
      /\ wfmo'[w].RefCount = wfmo[w].RefCount + 1
      /\ wfmo' = [wfmo EXCEPT ![w] = wfmo'[w]]
  BY RegisterEffect
<1>3. RegisteredWaits \in [Events -> Seq(WaitInfos)] /\ wfmo \in [Waits -> Records]
  BY DEF Base, TypeOK
<1>4. /\ wfmo[v].RefCount = Cardinality(Holders(v)) + Cardinality(Owners(v))
      /\ Cardinality(Holders(v)) \in Nat /\ Cardinality(Owners(v)) \in Nat
      /\ IsFiniteSet(Holders(v))
  BY References, OwnerIsAlone, HoldersFinite DEF Base
<1>5. Owners(v)' = Owners(v)
  BY DEF Register, Owners
<1> HIDE DEF w, e
<1>6. CASE v # w
  <2>1. \A d \in Events : IsRegistered(v, d)' <=> IsRegistered(v, d)
    BY <1>1, <1>6
  <2>2. Holders(v)' = Holders(v)
    BY <2>1 DEF Holders
  <2>3. wfmo'[v] = wfmo[v]
    <3>1. PICK m : m = wfmo'[w]
      OBVIOUS
    <3> QED
      BY <1>2, <1>3, <1>6, <3>1
  <2> QED
    BY <1>4, <1>5, <2>2, <2>3
<1>7. CASE v = w
  <2>1. \A d \in Events : IsRegistered(v, d)' <=> IsRegistered(v, d) \/ d = e
    BY <1>1, <1>7
  <2>2. Holders(v)' = Holders(v) \cup {e} /\ e \notin Holders(v)
    BY <1>2, <1>7, <2>1 DEF Holders
  <2>3. Cardinality(Holders(v)') = Cardinality(Holders(v)) + 1
    BY <1>4, <2>2, FS_AddElement
  <2> QED
    BY <1>2, <1>4, <1>5, <1>7, <2>3
<1> QED
  BY <1>6, <1>7

\* A new record has one reference, its caller's.
LEMMA OpenReferences ==
  ASSUME Base, NEW t \in Threads, NEW c \in Menu[t], WaitForMultipleEvents(t, c), NEW v \in Waits
  PROVE  wfmo'[v].RefCount = Cardinality(Holders(v)') + Cardinality(Owners(v)')
<1>1. PICK w \in Waits : /\ own' = [own EXCEPT ![t] = w] /\ own[t] = NoWait
                         /\ \A u \in Threads : own[u] # w
                         /\ \A e \in Events : ~IsRegistered(w, e)
                         /\ wfmo' = [wfmo EXCEPT ![w] = NewRecord(c)]
                         /\ RegisteredWaits' = RegisteredWaits
                         /\ wfmo[w].RefCount = 0
  BY OpenEffect
<1>2. own \in [Threads -> Waits \cup {NoWait}] /\ wfmo \in [Waits -> Records]
  BY DEF Base, TypeOK
<1>3. /\ wfmo[v].RefCount = Cardinality(Holders(v)) + Cardinality(Owners(v))
      /\ Cardinality(Holders(v)) \in Nat /\ Cardinality(Owners(v)) \in Nat
  BY References, OwnerIsAlone, HoldersFinite DEF Base
<1>4. Holders(v)' = Holders(v)
  BY <1>1 DEF Holders, IsRegistered
<1>5. CASE v # w
  <2>1. \A u \in Threads : own'[u] = v <=> own[u] = v
    BY <1>1, <1>2, <1>5, EventsAssumption
  <2>2. Owners(v)' = Owners(v)
    BY <2>1 DEF Owners
  <2> QED
    BY <1>1, <1>2, <1>3, <1>4, <1>5, <2>2
<1>6. CASE v = w
  <2>1. Owners(v)' = {t}
    BY <1>1, <1>2, <1>6 DEF Owners
  <2>2. Cardinality(Owners(v)') = 1
    BY <2>1, FS_Singleton
  <2>3. Cardinality(Holders(v)) = 0
    BY <1>1, <1>3, <1>6
  <2>4. wfmo'[v].RefCount = 1
    BY <1>1, <1>2, <1>6 DEF NewRecord
  <2> QED
    BY <1>4, <2>2, <2>3, <2>4
<1> QED
  BY <1>5, <1>6

\* A call that ends gives back its own reference.
LEMMA FinishReferences ==
  ASSUME Base, NEW t \in Threads, Finish(t), NEW v \in Waits
  PROVE  wfmo'[v].RefCount = Cardinality(Holders(v)') + Cardinality(Owners(v)')
<1> DEFINE w == own[t]
<1>1. /\ w \in Waits /\ RegisteredWaits' = RegisteredWaits
      /\ own' = [own EXCEPT ![t] = NoWait]
      /\ wfmo' = [wfmo EXCEPT ![w] = wfmo'[w]]
      /\ wfmo'[w].RefCount = wfmo[w].RefCount - 1
  BY FinishEffect
<1>2. own \in [Threads -> Waits \cup {NoWait}] /\ wfmo \in [Waits -> Records] /\ OwnersDiffer
  BY DEF Base, TypeOK
<1>3. /\ wfmo[v].RefCount = Cardinality(Holders(v)) + Cardinality(Owners(v))
      /\ Cardinality(Holders(v)) \in Nat /\ Cardinality(Owners(v)) \in Nat
      /\ v = w => Cardinality(Owners(v)) = 1
  BY References, OwnerIsAlone, HoldersFinite DEF Base
<1>4. Holders(v)' = Holders(v)
  BY <1>1 DEF Holders, IsRegistered
<1>5. CASE v # w
  <2>1. \A u \in Threads : own'[u] = v <=> own[u] = v
    BY <1>1, <1>2, <1>5, EventsAssumption
  <2>2. Owners(v)' = Owners(v)
    BY <2>1 DEF Owners
  <2>3. wfmo'[v] = wfmo[v]
    <3>1. PICK m : m = wfmo'[w]
      OBVIOUS
    <3> QED
      BY <1>1, <1>2, <1>5, <3>1
  <2> QED
    BY <1>3, <1>4, <2>2, <2>3
<1>6. CASE v = w
  <2>1. Owners(v)' = {}
    <3>1. \A u \in Threads : own'[u] # v
      BY <1>1, <1>2, <1>6, EventsAssumption DEF OwnersDiffer
    <3> QED
      BY <3>1 DEF Owners
  <2>2. Cardinality(Owners(v)') = 0
    BY <2>1, FS_EmptySet
  <2> QED
    BY <1>1, <1>3, <1>4, <1>6, <2>2
<1> QED
  BY <1>5, <1>6

\* RefCount stays the number of deques and calls that refer to the record.
LEMMA RefCountKept ==
  ASSUME Base, NEW t \in Threads, Acts(t)
  PROVE  RefCountExact'
<1> SUFFICES ASSUME NEW v \in Waits
             PROVE  wfmo'[v].RefCount = Cardinality(Holders(v)') + Cardinality(Owners(v)')
  BY DEF RefCountExact, Holders, Owners
<1>1. CASE DropStep(t)
  BY <1>1, DropStepDrops, DropReferences
<1>2. CASE Register(t)
  BY <1>2, RegisterReferences
<1>3. CASE Finish(t)
  BY <1>3, FinishReferences
<1>4. CASE \E c \in Menu[t] : WaitForMultipleEvents(t, c)
  BY <1>4, OpenReferences
<1>5. CASE TakeForAny(t) \/ TakeForAll(t)
  <2>1. /\ own' = own /\ RegisteredWaits' = RegisteredWaits
        /\ wfmo' = [wfmo EXCEPT ![own[t]] = wfmo'[own[t]]]
        /\ wfmo'[own[t]].RefCount = wfmo[own[t]].RefCount
        /\ own[t] \in Waits
    BY <1>5, TakeEffect DEF TakeForAny, TakeForAll
  <2>2. PICK m : m = wfmo'[own[t]]
    OBVIOUS
  <2>3. wfmo'[v].RefCount = wfmo[v].RefCount
    BY <2>1, <2>2 DEF Base, TypeOK
  <2>4. Holders(v)' = Holders(v) /\ Owners(v)' = Owners(v)
    BY <2>1 DEF Holders, Owners, IsRegistered
  <2> QED
    BY <2>3, <2>4, References DEF Base
<1>6. CASE wfmo' = wfmo /\ own' = own /\ RegisteredWaits' = RegisteredWaits
  <2>1. Holders(v)' = Holders(v) /\ Owners(v)' = Owners(v)
    BY <1>6 DEF Holders, Owners, IsRegistered
  <2> QED
    BY <1>6, <2>1, References DEF Base
<1> QED
  BY <1>1, <1>2, <1>3, <1>4, <1>5, <1>6, Changes DEF DropStep

------------------------------------------------------------------------------
(* Records.                                                                *)

\* What a drop leaves of a record that a thread still has.
LEMMA DropOwned ==
  ASSUME Base, NEW t \in Threads, NEW n, Drops(t, n), NEW u \in Threads,
         own[u] = RegisteredWaits[Event(t)][n].Waiter
  PROVE  LET r == wfmo[own[u]] v == wfmo'[own[u]] IN
         /\ own[u] \in Waits /\ ~HoldsWaiter(u) /\ u # t
         /\ v.WaitAll = r.WaitAll
         /\ v.StillWaiting <=> r.StillWaiting /\ r.WaitAll
         /\ v.Status = IF ~r.StillWaiting THEN r.Status
                       ELSE IF r.WaitAll THEN r.Status - 1
                       ELSE RegisteredWaits[Event(t)][n].WaitIndex
<1> DEFINE w == own[u]
           x == RegisteredWaits[Event(t)][n]
           r == wfmo[w]
<1>1. /\ w \in Waits /\ Event(t) \in Events /\ IsRegistered(w, Event(t)) /\ x \in WaitInfos
      /\ r \in Records /\ wfmo \in [Waits -> Records]
  BY DropEffect DEF Base, TypeOK
<1>2. r.RefCount # 1
  BY <1>1, References DEF Base
<1>3. ~HoldsWaiter(u)
  <2>1. waiterMutex[w] = Nobody
    BY DEF Drops
  <2> QED
    BY <1>1, <2>1, EventsAssumption DEF Base, WaiterMutexHeld
<1>4. u # t
  <2>1. pc[t] = "notify" => own[t] = NoWait
    BY DEF Base, InCall, InMany, InScan, AfterScan
  <2>2. pc[t] = "purge" => HoldsWaiter(t)
    BY DEF HoldsWaiter
  <2> QED
    BY <1>1, <1>3, <2>1, <2>2, EventsAssumption DEF Drops
<1>5. CASE ~r.StillWaiting
  <2>1. wfmo' = [wfmo EXCEPT ![w] = Unreferenced(r)]
    BY <1>5 DEF Drops
  <2>2. PICK k : k = r.RefCount - 1
    OBVIOUS
  <2>3. Unreferenced(r) = [r EXCEPT !.RefCount = k]
    BY <1>2, <2>2 DEF Unreferenced
  <2>4. wfmo'[w] = [r EXCEPT !.RefCount = k]
    BY <1>1, <2>1, <2>3
  <2> QED
    BY <1>1, <1>3, <1>4, <1>5, <2>4 DEF Records
<1>6. CASE r.StillWaiting
  <2>1. wfmo' = [wfmo EXCEPT ![w] = Notified(r, x.WaitIndex)]
    BY <1>6 DEF Drops
  <2>2. wfmo'[w] = Notified(r, x.WaitIndex)
    BY <1>1, <2>1
  <2> HIDE DEF x
  <2>3. CASE r.WaitAll
    BY <1>1, <1>3, <1>4, <1>6, <2>2, <2>3 DEF Notified, Records, x
  <2>4. CASE ~r.WaitAll
    BY <1>1, <1>3, <1>4, <1>6, <2>2, <2>4 DEF Notified, Records, x
  <2> QED
    BY <2>3, <2>4
<1> QED
  BY <1>5, <1>6

\* What RecordsFollow says of the record of one thread.
RecordFollows(t) ==
  own[t] # NoWait =>
    /\ wfmo[own[t]].WaitAll = call[t].all
    /\ ~wfmo[own[t]].StillWaiting => ~call[t].all /\ wfmo[own[t]].Status # NotFired
    /\ wfmo[own[t]].StillWaiting /\ ~call[t].all /\ pc[t] # "finish" =>
         wfmo[own[t]].Status = NotFired
    /\ pc[t] \in InScan => wfmo[own[t]].StillWaiting

\* A record that a step does not touch stays what it is.
LEMMA SameRecordFollows ==
  ASSUME RecordsFollow, NEW u \in Threads, own'[u] = own[u], call'[u] = call[u],
         wfmo'[own[u]] = wfmo[own[u]],
         pc'[u] # "finish" => pc[u] # "finish", pc'[u] \in InScan => pc[u] \in InScan
  PROVE  RecordFollows(u)'
BY DEF RecordsFollow, RecordFollows

\* A record lives while it is referred to, and waits while a call has it.
LEMMA RecordsLive ==
  ASSUME Base, NEW t \in Threads, Acts(t)
  PROVE  \A w \in Waits :
           /\ wfmo'[w].Live <=> wfmo'[w].RefCount # 0
           /\ wfmo'[w].StillWaiting => \E u \in Threads : own'[u] = w
<1>1. wfmo \in [Waits -> Records] /\ own \in [Threads -> Waits \cup {NoWait}]
  BY DEF Base, TypeOK
<1>2. \A w \in Waits : /\ wfmo[w].Live <=> wfmo[w].RefCount # 0
                       /\ wfmo[w].StillWaiting => \E u \in Threads : own[u] = w
  BY DEF Base, RecordsFollow
<1>3. CASE DropStep(t)
  <2>1. PICK n : Drops(t, n)
    BY <1>3, DropStepDrops
  <2>2. PICK w \in Waits, v \in Records :
          /\ wfmo' = [wfmo EXCEPT ![w] = v]
          /\ v.Live <=> v.RefCount # 0
          /\ v.StillWaiting => wfmo[w].StillWaiting
    BY <2>1, DropEffect
  <2>3. own' = own
    BY <2>1 DEF Drops
  <2> QED
    BY <1>1, <1>2, <2>2, <2>3
<1>4. CASE Register(t) \/ TakeForAny(t) \/ TakeForAll(t)
  <2>1. PICK w \in Waits, v \in Records :
          /\ wfmo' = [wfmo EXCEPT ![w] = v] /\ w = own[t]
          /\ v.Live <=> v.RefCount # 0
    <3>1. CASE Register(t)
      <4>1. PICK w \in Waits, v \in Records :
              /\ wfmo' = [wfmo EXCEPT ![w] = v] /\ w = own[t]
              /\ v.Live = wfmo[w].Live /\ wfmo[w].Live
              /\ v.RefCount = wfmo[w].RefCount + 1 /\ wfmo[w].RefCount \in Nat \ {0}
        BY <3>1, RegisterEffect
      <4>2. v.RefCount # 0 /\ v.Live
        BY <4>1 DEF Records
      <4> QED
        BY <4>1, <4>2
    <3>2. CASE TakeForAny(t) \/ TakeForAll(t)
      <4>1. PICK w \in Waits, v \in Records :
              /\ wfmo' = [wfmo EXCEPT ![w] = v] /\ w = own[t]
              /\ v.Live = wfmo[w].Live
              /\ v.RefCount = wfmo[w].RefCount
        BY <3>2, TakeEffect
      <4> QED
        BY <1>2, <4>1
    <3> QED
      BY <1>4, <3>1, <3>2
  <2>2. own' = own
    BY <1>4 DEF Register, TakeForAny, TakeForAll
  <2> QED
    BY <1>1, <1>2, <2>1, <2>2
<1>5. CASE Finish(t)
  <2>1. PICK w \in Waits, v \in Records :
          /\ wfmo' = [wfmo EXCEPT ![w] = v] /\ w = own[t]
          /\ v.Live <=> v.RefCount # 0
          /\ ~v.StillWaiting
          /\ own' = [own EXCEPT ![t] = NoWait]
    BY <1>5, FinishEffect
  <2>2. \A u \in Threads, x \in Waits : own[u] = x /\ x # w => own'[u] = x
    BY <1>1, <2>1
  <2> QED
    BY <1>1, <1>2, <2>1, <2>2
<1>6. ASSUME NEW c \in Menu[t], WaitForMultipleEvents(t, c)
      PROVE  \A w \in Waits :
               /\ wfmo'[w].Live <=> wfmo'[w].RefCount # 0
               /\ wfmo'[w].StillWaiting => \E u \in Threads : own'[u] = w
  <2>1. PICK w \in Waits : /\ wfmo' = [wfmo EXCEPT ![w] = NewRecord(c)]
                           /\ own' = [own EXCEPT ![t] = w] /\ own[t] = NoWait
    BY <1>6, OpenEffect
  <2>2. NewRecord(c).Live /\ NewRecord(c).RefCount = 1
    BY DEF NewRecord
  <2>3. \A u \in Threads, x \in Waits : own[u] = x => own'[u] = x
    BY <1>1, <2>1, EventsAssumption
  <2> QED
    BY <1>1, <1>2, <2>1, <2>2, <2>3
<1>7. CASE wfmo' = wfmo /\ own' = own
  BY <1>2, <1>7
<1> QED
  BY <1>3, <1>4, <1>5, <1>6, <1>7, Changes DEF DropStep

\* Where a step of t leaves the threads.
LEMMA PcAfter ==
  ASSUME Base, NEW t \in Threads, Acts(t), NEW u \in Threads, own'[u] = own[u]
  PROVE  /\ pc'[u] # "finish" => pc[u] # "finish"
         /\ pc'[u] \in InScan => pc[u] \in InScan
<1>1. TypeOK /\ \A v \in Threads : InCall(v)
  BY DEF Base
<1>2. CASE u # t
  BY <1>1, <1>2, OthersLeftAside DEF OthersAside, InScan
<1>3. CASE u = t
  <2>1. \A c \in Menu[t] : ~WaitForMultipleEvents(t, c)
    <3> SUFFICES ASSUME NEW c \in Menu[t], WaitForMultipleEvents(t, c) PROVE FALSE
      OBVIOUS
    <3>1. own'[t] \in Waits /\ own[t] = NoWait
      BY OpenEffect
    <3> QED
      BY <1>3, <3>1, EventsAssumption
  <2>2. ~Finish(t)
    <3> SUFFICES ASSUME Finish(t) PROVE FALSE
      OBVIOUS
    <3>1. own[t] \in Waits /\ own' = [own EXCEPT ![t] = NoWait]
      BY FinishEffect
    <3> QED
      BY <1>1, <1>3, <3>1, EventsAssumption DEF TypeOK
  <2>3. CASE SetStep(t) \/ Reset(t) \/ WaitStep(t)
    <3>1. pc[t] \in InOne /\ pc'[t] \in InOne \cup {"idle"}
      BY <1>1, <2>3 DEF SetStep, SetLock, NotifyExpired, NotifyWaiter, SignalWaiter, NotifyNone,
                        SignalEvent, Reset, WaitStep, WaitFindsBusy, WaitTakes, WaitFindsUnset,
                        WaitSleeps, WaitGivesUp, ReturnFromWait, Goto, GotoWaking, TypeOK,
                        InOne, InSet, InWait, local
    <3> QED
      BY <1>3, <3>1 DEF InOne, InSet, InWait, InScan
  <2>4. CASE WaitManyStep(t)
    BY <1>1, <1>3, <2>2, <2>4 DEF WaitManyStep, RegisterLock, PurgeKeeps, PurgeRemoves, Purging,
              TakeForAny, TakeForAll, Register, Purged, NextEvent, TestDone, TestSleeps, Wake,
              ExpiredLock, Goto, TypeOK, InScan, local
  <2>5. CASE Clock(t) \/ Call(t)
    BY <1>1, <1>3, <2>1, <2>5 DEF Clock, WaitExpires, Expires, SpuriousWakeup, Call, SetEvent,
              ResetEvent, WaitForEvent, CallOne, Goto, TypeOK, InScan
  <2> QED
    BY <2>3, <2>4, <2>5 DEF Acts, Step
<1> QED
  BY <1>2, <1>3

\* The records keep agreeing with the calls that own them.
LEMMA RecordsKept ==
  ASSUME Base, NEW t \in Threads, Acts(t)
  PROVE  RecordsFollow'
<1>1. /\ TypeOK /\ RecordsFollow /\ OwnersDiffer
      /\ wfmo \in [Waits -> Records] /\ own \in [Threads -> Waits \cup {NoWait}]
  BY DEF Base, TypeOK
<1>2. ASSUME NEW u \in Threads, own'[u] # NoWait
      PROVE  RecordFollows(u)'
  <2>1. CASE ~ (own'[u] = own[u] /\ call'[u] = call[u])
    <3>1. u = t
      BY <1>1, <2>1, OthersLeftAside DEF OthersAside
    <3>2. PICK c \in Menu[t] : WaitForMultipleEvents(t, c)
      BY <1>2, <2>1, <3>1, RecordAfter
    <3>3. PICK w \in Waits : /\ wfmo' = [wfmo EXCEPT ![w] = NewRecord(c)]
                             /\ own'[t] = w /\ call'[t] = c
      BY <3>2, OpenEffect
    <3>4. wfmo'[w] = NewRecord(c) /\ own'[u] = w /\ call'[u] = c
      BY <1>1, <3>1, <3>3
    <3>5. /\ NewRecord(c).WaitAll = c.all /\ NewRecord(c).StillWaiting
          /\ ~c.all => NewRecord(c).Status = NotFired
      BY DEF NewRecord
    <3> QED
      BY <3>4, <3>5 DEF RecordFollows
  <2>2. CASE own'[u] = own[u] /\ call'[u] = call[u]
    <3>1. /\ pc'[u] # "finish" => pc[u] # "finish"
          /\ pc'[u] \in InScan => pc[u] \in InScan
      BY <2>2, PcAfter
    <3>2. own[u] \in Waits
      BY <1>1, <1>2, <2>2
    <3> DEFINE r == wfmo[own[u]]
    <3>3. RecordFollows(u)
      BY <1>1 DEF RecordsFollow, RecordFollows
    <3>4. CASE wfmo'[own[u]] = wfmo[own[u]]
      BY <1>1, <2>2, <3>1, <3>4, SameRecordFollows
    <3>5. CASE DropStep(t)
      <4>1. PICK n : Drops(t, n)
        BY <3>5, DropStepDrops
      <4>2. PICK w \in Waits, v \in Records :
              /\ wfmo' = [wfmo EXCEPT ![w] = v]
              /\ w = RegisteredWaits[Event(t)][n].Waiter
        BY <4>1, DropEffect
      <4>3. CASE own[u] # w
        BY <1>1, <3>2, <3>4, <4>2, <4>3
      <4>4. CASE own[u] = w
        <5>1. PICK q, i : /\ q = wfmo'[own[u]] /\ i = RegisteredWaits[Event(t)][n].WaitIndex
          OBVIOUS
        <5>2. /\ ~HoldsWaiter(u)
              /\ q.WaitAll = r.WaitAll
              /\ q.StillWaiting <=> r.StillWaiting /\ r.WaitAll
              /\ q.Status = IF ~r.StillWaiting THEN r.Status
                            ELSE IF r.WaitAll THEN r.Status - 1 ELSE i
          BY <4>1, <4>2, <4>4, <5>1, DropOwned
        <5>3. i \in Nat
          BY <4>1, <5>1, DropEffect DEF WaitInfos
        <5>4. pc[u] \notin InScan
          BY <5>2 DEF HoldsWaiter, InScan
        <5>5. r \in Records
          BY <1>1, <3>2
        <5> QED
          BY <1>2, <2>2, <3>1, <3>3, <5>1, <5>2, <5>3, <5>4, <5>5
          DEF RecordFollows, NotFired, Records
      <4> QED
        BY <4>3, <4>4
    <3>6. CASE Register(t)
      <4>1. PICK w \in Waits, v \in Records :
              /\ wfmo' = [wfmo EXCEPT ![w] = v] /\ w = own[t]
              /\ v.StillWaiting = wfmo[w].StillWaiting /\ v.WaitAll = wfmo[w].WaitAll
              /\ v.Status = wfmo[w].Status
        BY <3>6, RegisterEffect
      <4> QED
        BY <1>1, <1>2, <2>2, <3>1, <3>2, <3>3, <3>4, <4>1 DEF RecordFollows
    <3>7. CASE TakeForAny(t) \/ TakeForAll(t)
      <4>1. PICK w \in Waits, v \in Records :
              /\ wfmo' = [wfmo EXCEPT ![w] = v] /\ w = own[t] /\ pc[t] = "purge"
              /\ v.StillWaiting = wfmo[w].StillWaiting /\ v.WaitAll = wfmo[w].WaitAll
        BY <3>7, TakeEffect
      <4>2. CASE own[u] # w
        BY <1>1, <3>2, <3>4, <4>1, <4>2
      <4>3. CASE own[u] = w
        <5>1. u = t
          BY <1>1, <1>2, <2>2, <4>1, <4>3 DEF OwnersDiffer
        <5>2. r.StillWaiting /\ wfmo'[own[u]] = v /\ v.StillWaiting /\ v.WaitAll = r.WaitAll
          BY <1>1, <1>2, <2>2, <3>2, <3>3, <4>1, <4>3, <5>1 DEF RecordFollows, InScan
        <5>3. call'[u].all \/ pc'[u] = "finish"
          BY <1>1, <2>2, <3>7, <5>1 DEF TakeForAny, TakeForAll, Goto, TypeOK
        <5> QED
          BY <1>2, <2>2, <3>3, <5>2, <5>3 DEF RecordFollows
      <4> QED
        BY <4>2, <4>3
    <3>8. CASE Finish(t)
      <4>1. PICK w \in Waits, v \in Records :
              /\ wfmo' = [wfmo EXCEPT ![w] = v] /\ w = own[t]
              /\ own' = [own EXCEPT ![t] = NoWait]
        BY <3>8, FinishEffect
      <4>2. own[u] # w
        BY <1>1, <1>2, <2>2, <4>1, EventsAssumption DEF OwnersDiffer
      <4> QED
        BY <1>1, <3>2, <3>4, <4>1, <4>2
    <3>9. ASSUME NEW c \in Menu[t], WaitForMultipleEvents(t, c)
          PROVE  RecordFollows(u)'
      <4>1. PICK w \in Waits : /\ wfmo' = [wfmo EXCEPT ![w] = NewRecord(c)]
                               /\ \A x \in Threads : own[x] # w
        BY <3>9, OpenEffect
      <4> QED
        BY <1>1, <3>2, <3>4, <4>1
    <3> QED
      BY <3>4, <3>5, <3>6, <3>7, <3>8, <3>9, Changes DEF DropStep
  <2> QED
    BY <2>1, <2>2
<1>3. \A u \in Threads : RecordFollows(u)'
  BY <1>2 DEF RecordFollows
<1> QED
  BY <1>3, RecordsLive DEF RecordsFollow, RecordFollows

\* Before the first call nothing is held, registered or alive.
LEMMA InitBase == Init => Base
<1> SUFFICES ASSUME Init PROVE Base
  OBVIOUS
<1>1. TypeOK
  BY DEF Init, TypeOK, Records, Freed, NotFired, Locations, Results, NoResult
<1>2. ASSUME NEW t \in Threads PROVE InCall(t)
  BY DEF Init, InCall, InMany, InScan, AfterScan
<1>3. EventMutexHeld /\ WaiterMutexHeld /\ OwnersDiffer
  BY EventsAssumption DEF Init, EventMutexHeld, WaiterMutexHeld, OwnersDiffer, HoldsEvent, HoldsWaiter
<1>4. \A e \in Events : RegisteredWaits[e] = <<>> /\ DOMAIN RegisteredWaits[e] = {}
  BY DEF Init
<1>5. \A e \in Events : OnceEach(RegisteredWaits[e])
  BY <1>4 DEF OnceEach
<1>6. EntriesFollow
  BY <1>4 DEF EntriesFollow, ToSet
<1>7. RecordsFollow
  BY DEF Init, RecordsFollow, Freed
<1>8. RefCountExact
  <2> SUFFICES ASSUME NEW w \in Waits
               PROVE  wfmo[w].RefCount = Cardinality(Holders(w)) + Cardinality(Owners(w))
    BY DEF RefCountExact, Holders, Owners
  <2>1. Holders(w) = {}
    BY <1>4 DEF Holders, IsRegistered
  <2>2. Owners(w) = {}
    BY EventsAssumption DEF Init, Owners
  <2>3. wfmo[w].RefCount = 0
    BY DEF Init, Freed
  <2> QED
    BY <2>1, <2>2, <2>3, FS_EmptySet
<1> QED
  BY <1>1, <1>2, <1>3, <1>5, <1>6, <1>7, <1>8 DEF Base

\* Every step keeps mutexes, calls, deques and records in agreement.
LEMMA BaseKept ==
  ASSUME Base, SignalsFollow, NEW t \in Threads, Acts(t)
  PROVE  Base'
BY TypesKept, CallsKept, EventMutexKept, WaiterMutexKept, OwnersKept, OnceEachKept, EntriesKept,
   RecordsKept, RefCountKept DEF Base

------------------------------------------------------------------------------
(* Signals.                                                                *)

AtSetter == {"notify", "signalWaiter"}

\* SetterHolds, over the locations named by AtSetter.
LEMMA SetterAt ==
  ASSUME NEW e
  PROVE  SetterHolds(e) <=> \E u \in Threads : pc[u] \in AtSetter /\ Event(u) = e
BY DEF SetterHolds, AtSetter

\* A state changes only where the mutex allows it, and rises only in SetEvent.
LEMMA StatesKept ==
  ASSUME Base, SignalsFollow, NEW t \in Threads, Acts(t), NEW e \in Events
  PROVE  /\ State'[e] = State[e] \/ (e = Event(t) /\ eventMutex[e] \in {Nobody, t})
         /\ State'[e] => State[e] \/ (SetLock(t) /\ e = Event(t))
<1>1. State \in [Events -> BOOLEAN]
  BY DEF Base, TypeOK
<1>2. CASE State' = State
  BY <1>2
<1>3. CASE SetLock(t)
  BY <1>1, <1>3 DEF SetLock, LockEvent
<1>4. CASE Reset(t)
  BY <1>1, <1>4 DEF Reset, WithEvent
<1>5. CASE WaitTakes(t)
  BY <1>1, <1>5 DEF WaitTakes, WithEvent, Consume
<1>6. CASE NotifyWaiter(t) \/ TakeForAny(t) \/ TakeForAll(t)
  <2>1. pc[t] \in {"notify", "purge"} /\ State' = [State EXCEPT ![Event(t)] = Event(t) \notin AutoReset]
    BY <1>6 DEF NotifyWaiter, TakeForAny, TakeForAll, Purged, Consume
  <2>2. Event(t) \in Events
    BY <2>1, EventAtHand DEF Base, InOne, InSet, InScan
  <2>3. eventMutex[Event(t)] = t
    BY <2>1, <2>2 DEF Base, EventMutexHeld, HoldsEvent
  <2>4. State[Event(t)]
    BY <1>6, <2>1 DEF SignalsFollow, NotifyWaiter, TakeForAny, TakeForAll
  <2> QED
    BY <1>1, <2>1, <2>3, <2>4
<1> QED
  BY <1>2, <1>3, <1>4, <1>5, <1>6, Changes

\* A deque fills only with a wait for an event that is not signalled.
LEMMA DequesFill ==
  ASSUME Base, NEW t \in Threads, Acts(t), NEW e \in Events, RegisteredWaits'[e] # <<>>
  PROVE  RegisteredWaits[e] # <<>> \/ (Register(t) /\ e = Event(t) /\ ~State'[e])
<1>1. RegisteredWaits \in [Events -> Seq(WaitInfos)]
  BY DEF Base, TypeOK
<1>2. CASE DropStep(t)
  <2>1. PICK n \in DOMAIN RegisteredWaits[Event(t)] : Drops(t, n)
    BY <1>2, DropStepDrops
  <2>2. PICK q : RegisteredWaits' = [RegisteredWaits EXCEPT ![Event(t)] = q]
    BY <2>1, DropEffect
  <2>3. e = Event(t) => RegisteredWaits[e] # <<>>
    BY <2>1
  <2> QED
    BY <1>1, <2>2, <2>3
<1>3. CASE Register(t)
  <2>1. ~State'[Event(t)]
    BY <1>3 DEF Register
  <2>2. e = Event(t) \/ RegisteredWaits'[e] = RegisteredWaits[e]
    BY <1>1, <1>3 DEF Register
  <2> QED
    BY <1>3, <2>1, <2>2
<1>4. CASE RegisteredWaits' = RegisteredWaits
  BY <1>4
<1> QED
  BY <1>2, <1>3, <1>4, Changes DEF DropStep

\* What becomes of a thread that is setting an event.
LEMMA SetterAfter ==
  ASSUME Base, SignalsFollow, NEW t \in Threads, Acts(t), pc[t] \in AtSetter
  PROVE  \/ pc'[t] \in AtSetter /\ Event(t)' = Event(t)
         \/ SignalWaiter(t) /\ Event(t) \in AutoReset /\ ~State'[Event(t)] /\ ~State[Event(t)]
         \/ /\ pc'[t] = "signalEvent" /\ Event(t)' = Event(t)
            /\ RegisteredWaits[Event(t)] = <<>> /\ RegisteredWaits' = RegisteredWaits
<1>1. TypeOK /\ InCall(t)
  BY DEF Base
<1>2. SetStep(t)
  BY DEF AtSetter, Acts, Step, Reset, WaitStep, WaitFindsBusy, WaitTakes, WaitFindsUnset,
         WaitSleeps, WaitGivesUp, WaitManyStep, RegisterLock, PurgeKeeps, PurgeRemoves, Purging,
         TakeForAny, TakeForAll, Register, Purged, TestDone, TestSleeps, Wake, ExpiredLock,
         Finish, Call, SetEvent, ResetEvent, WaitForEvent, CallOne, WaitForMultipleEvents,
         Clock, WaitExpires, Expires, SpuriousWakeup
<1>3. CASE NotifyExpired(t) \/ NotifyWaiter(t)
  <2>1. pc'[t] \in AtSetter /\ call' = call /\ pos' = pos
    BY <1>1, <1>3 DEF NotifyExpired, NotifyWaiter, Goto, TypeOK, AtSetter, local
  <2> QED
    BY <2>1 DEF Event
<1>4. CASE SignalWaiter(t)
  <2>1. pc[t] = "signalWaiter" /\ State' = State /\ pos' = pos
    BY <1>4 DEF SignalWaiter
  <2>2. CASE Event(t) \in AutoReset
    BY <1>4, <2>1, <2>2 DEF SignalsFollow
  <2>3. CASE Event(t) \notin AutoReset
    <3>1. pc'[t] = "notify" /\ call'[t] = call[t]
      BY <1>1, <1>4, <2>3 DEF SignalWaiter, GotoWaking, TypeOK
    <3> QED
      BY <2>1, <3>1 DEF Event, AtSetter
  <2> QED
    BY <2>2, <2>3
<1>5. CASE NotifyNone(t)
  <2>1. State[Event(t)] /\ call' = call /\ pos' = pos /\ RegisteredWaits' = RegisteredWaits
    BY <1>5 DEF NotifyNone, SignalsFollow, local
  <2>2. pc'[t] = "signalEvent" /\ RegisteredWaits[Event(t)] = <<>>
    BY <1>1, <1>5, <2>1 DEF NotifyNone, Goto, TypeOK
  <2> QED
    BY <2>1, <2>2 DEF Event
<1> QED
  BY <1>2, <1>3, <1>4, <1>5 DEF SetStep, SetLock, SignalEvent, AtSetter

\* A thread that sets an event goes on, or has just begun.
LEMMA SetterBefore ==
  ASSUME Base, NEW t \in Threads, Acts(t), pc'[t] \in AtSetter
  PROVE  /\ Event(t)' = Event(t)
         /\ \/ SetLock(t) /\ pc'[t] = "notify"
            \/ NotifyExpired(t) /\ pc'[t] = "notify" /\ State' = State
            \/ NotifyWaiter(t) /\ pc'[t] = "signalWaiter"
            \/ /\ SignalWaiter(t) /\ pc'[t] = "notify" /\ Event(t) \notin AutoReset
               /\ State' = State
<1>1. TypeOK
  BY DEF Base
<1>2. CASE SetStep(t)
  <2>1. CASE SetLock(t) \/ NotifyExpired(t) \/ NotifyWaiter(t)
    <3>1. call' = call /\ pos' = pos
      BY <2>1 DEF SetLock, NotifyExpired, NotifyWaiter, local
    <3> QED
      BY <1>1, <2>1, <3>1 DEF SetLock, NotifyExpired, NotifyWaiter, Goto, TypeOK, Event
  <2>2. CASE SignalWaiter(t)
    <3>1. Event(t) \notin AutoReset /\ pc'[t] = "notify"
      BY <1>1, <2>2 DEF SignalWaiter, GotoWaking, TypeOK, AtSetter
    <3>2. call'[t] = call[t] /\ pos' = pos /\ State' = State
      BY <1>1, <2>2, <3>1 DEF SignalWaiter, TypeOK
    <3> QED
      BY <2>2, <3>1, <3>2 DEF Event
  <2>3. CASE NotifyNone(t) \/ SignalEvent(t)
    BY <1>1, <2>3 DEF NotifyNone, SignalEvent, Goto, GotoWaking, TypeOK, AtSetter
  <2> QED
    BY <1>2, <2>1, <2>2, <2>3 DEF SetStep
<1>3. CASE Reset(t) \/ WaitStep(t)
  BY <1>1, <1>3 DEF Reset, WaitStep, WaitFindsBusy, WaitTakes, WaitFindsUnset,
     WaitSleeps, WaitGivesUp, ReturnFromWait, Goto, TypeOK, AtSetter
<1>4. CASE WaitManyStep(t)
  BY <1>1, <1>4 DEF WaitManyStep, RegisterLock, PurgeKeeps, PurgeRemoves, Purging,
     TakeForAny, TakeForAll, Register, Purged, NextEvent, TestDone, TestSleeps, Wake,
     ExpiredLock, Finish, Goto, TypeOK, AtSetter
<1>5. CASE Call(t) \/ Clock(t)
  BY <1>1, <1>5 DEF Call, SetEvent, ResetEvent, WaitForEvent, CallOne, WaitForMultipleEvents,
     Clock, WaitExpires, Expires, SpuriousWakeup, Goto, TypeOK, AtSetter
<1> QED
  BY <1>2, <1>3, <1>4, <1>5 DEF Acts, Step

\* An event is left signalled only by a SetEvent that served its deque.
LEMMA SignalsKept ==
  ASSUME Base, SignalsFollow, NEW t \in Threads, Acts(t)
  PROVE  SignalsFollow'
<1>1. TypeOK /\ EventMutexHeld /\ t # Nobody
  BY EventsAssumption DEF Base
<1>2. ASSUME NEW u \in Threads \ {t}
      PROVE  /\ Event(u)' = Event(u) /\ (pc'[u] \in AtSetter \cup {"signalEvent"} => pc'[u] = pc[u])
             /\ pc[u] \in AtSetter =>
                  Event(u) \in Events /\ pc'[u] = pc[u] /\ State'[Event(u)] = State[Event(u)]
  <2>1. /\ Event(u)' = Event(u)
        /\ pc'[u] \in AtSetter \cup {"signalEvent"} => pc'[u] = pc[u]
        /\ pc[u] \in AtSetter => pc'[u] = pc[u]
    BY <1>1, OthersLeftAside, OthersEvent DEF OthersAside, AtSetter
  <2>2. ASSUME pc[u] \in AtSetter
        PROVE  Event(u) \in Events /\ State'[Event(u)] = State[Event(u)]
    <3>1. Event(u) \in Events
      BY <2>2, EventAtHand DEF Base, AtSetter, InOne, InSet
    <3>2. eventMutex[Event(u)] = u
      BY <1>1, <2>2, <3>1 DEF EventMutexHeld, HoldsEvent, AtSetter
    <3> QED
      BY <3>1, <3>2, StatesKept, EventsAssumption
  <2> QED
    BY <2>1, <2>2
<1>3. ASSUME NEW e \in Events, State'[e], RegisteredWaits'[e] # <<>>
      PROVE  SetterHolds(e)'
  <2> SUFFICES \E u \in Threads : pc'[u] \in AtSetter /\ Event(u)' = e
    BY DEF SetterHolds, AtSetter
  <2>1. CASE SetLock(t) /\ e = Event(t)
    <3>1. pc'[t] = "notify" /\ Event(t)' = Event(t)
      BY <1>1, <2>1 DEF SetLock, Goto, TypeOK, Event, local
    <3> QED
      BY <2>1, <3>1 DEF AtSetter
  <2>2. CASE ~ (SetLock(t) /\ e = Event(t))
    <3>1. State[e]
      BY <1>3, <2>2, StatesKept
    <3>2. RegisteredWaits[e] # <<>>
      BY <1>3, DequesFill
    <3>3. PICK u \in Threads : pc[u] \in AtSetter /\ Event(u) = e
      BY <3>1, <3>2, SetterAt DEF SignalsFollow
    <3>4. CASE u # t
      BY <1>2, <3>3, <3>4
    <3>5. CASE u = t
      BY <3>1, <3>2, <3>3, <3>5, SetterAfter
    <3> QED
      BY <3>4, <3>5
  <2> QED
    BY <2>1, <2>2
<1>4. ASSUME NEW u \in Threads
      PROVE  /\ pc'[u] = "notify" => State'[Event(u)']
             /\ pc'[u] = "signalWaiter" => (State'[Event(u)'] <=> Event(u)' \notin AutoReset)
  <2>1. CASE u # t
    <3>1. CASE pc'[u] \in AtSetter
      <4>1. pc'[u] = pc[u] /\ Event(u)' = Event(u) /\ State'[Event(u)] = State[Event(u)]
        BY <1>2, <2>1, <3>1
      <4> QED
        BY <4>1 DEF SignalsFollow
    <3>2. CASE pc'[u] \notin AtSetter
      BY <3>2 DEF AtSetter
    <3> QED
      BY <3>1, <3>2
  <2>2. CASE u = t /\ pc'[t] \in AtSetter
    <3>1. Event(t)' = Event(t)
      BY <2>2, SetterBefore
    <3>2. pc[t] \in InOne => Event(t) \in Events
      BY EventAtHand DEF Base
    <3>3. CASE SetLock(t) /\ pc'[t] = "notify"
      BY <1>1, <2>2, <3>1, <3>2, <3>3 DEF SetLock, TypeOK, InOne, InSet
    <3>4. CASE NotifyExpired(t) /\ pc'[t] = "notify" /\ State' = State
      BY <2>2, <3>1, <3>4 DEF NotifyExpired, SignalsFollow
    <3>5. CASE NotifyWaiter(t) /\ pc'[t] = "signalWaiter"
      BY <1>1, <2>2, <3>1, <3>2, <3>5 DEF NotifyWaiter, Consume, TypeOK, InOne, InSet
    <3>6. CASE /\ SignalWaiter(t) /\ pc'[t] = "notify" /\ Event(t) \notin AutoReset
               /\ State' = State
      BY <2>2, <3>1, <3>6 DEF SignalWaiter, SignalsFollow
    <3> QED
      BY <2>2, <3>3, <3>4, <3>5, <3>6, SetterBefore
  <2>3. CASE u = t /\ pc'[t] \notin AtSetter
    BY <2>3 DEF AtSetter
  <2> QED
    BY <2>1, <2>2, <2>3
<1> QED
  BY <1>3, <1>4 DEF SignalsFollow

------------------------------------------------------------------------------
(* Sleepers.                                                               *)

TakesAt(u, e) == pc[u] = "waitLock" /\ call[u].time # "zero" /\ Event(u) = e

\* A thread that acts does not stay asleep, nor fall asleep on a signalled event.
LEMMA SleepersBefore ==
  ASSUME Base, NEW t \in Threads, Acts(t), NEW u \in Threads, pc'[u] = "waitAsleep",
         State'[Event(u)']
  PROVE  pc[u] = "waitAsleep" /\ u # t /\ Event(u)' = Event(u) /\ Event(u) \in Events
<1>1. TypeOK
  BY DEF Base
<1>2. CASE u # t
  <2>1. pc[u] = "waitAsleep" /\ Event(u)' = Event(u)
    BY <1>1, <1>2, OthersLeftAside, OthersEvent DEF OthersAside
  <2> QED
    BY <1>2, <2>1, EventAtHand DEF Base, InOne, InWait
<1>3. CASE u = t
  <2>1. WaitSleeps(t)
    <3>1. ~SetStep(t)
      BY <1>1, <1>3 DEF SetStep, SetLock, NotifyExpired, NotifyWaiter, SignalWaiter, NotifyNone,
         SignalEvent, Goto, GotoWaking, TypeOK
    <3>2. ~Reset(t) /\ ~WaitFindsBusy(t) /\ ~WaitTakes(t) /\ ~WaitFindsUnset(t) /\ ~WaitGivesUp(t)
      BY <1>1, <1>3 DEF Reset, WaitFindsBusy, WaitTakes, WaitFindsUnset,
         WaitGivesUp, ReturnFromWait, Goto, TypeOK
    <3>3. ~WaitManyStep(t)
      BY <1>1, <1>3 DEF WaitManyStep, RegisterLock, PurgeKeeps, PurgeRemoves, Purging,
         TakeForAny, TakeForAll, Register, Purged, NextEvent, TestDone, TestSleeps, Wake,
         ExpiredLock, Finish, Goto, TypeOK
    <3>4. ~Call(t) /\ ~Clock(t)
      BY <1>1, <1>3 DEF Call, SetEvent, ResetEvent, WaitForEvent, CallOne, WaitForMultipleEvents,
         Clock, WaitExpires, Expires, SpuriousWakeup, Goto, TypeOK
    <3> QED
      BY <3>1, <3>2, <3>3, <3>4 DEF Acts, Step, WaitStep
  <2>2. Event(t)' = Event(t) /\ ~State'[Event(t)]
    BY <2>1 DEF WaitSleeps, Event, local
  <2> QED
    BY <1>3, <2>2
<1> QED
  BY <1>2, <1>3

\* No step takes away the signal that a sleeper of WaitForEvent needs.
LEMMA SleepersKept ==
  ASSUME Base, SignalsFollow, SleepersFollow, NEW t \in Threads, Acts(t)
  PROVE  SleepersFollow'
<1> SUFFICES ASSUME NEW u \in Threads, pc'[u] = "waitAsleep", State'[Event(u)']
             PROVE  \/ SetterHolds(Event(u))'
                    \/ \E v \in Threads : pc'[v] = "signalEvent" /\ Event(v)' = Event(u)'
                    \/ /\ Event(u)' \in AutoReset
                       /\ \E v \in Threads : TakesAt(v, Event(u))'
  BY DEF SleepersFollow, TakesAt
<1> DEFINE e == Event(u)
<1>1. /\ TypeOK /\ pc[u] = "waitAsleep" /\ u # t /\ Event(u)' = e /\ e \in Events
      /\ \A v \in Threads : InCall(v)
  BY SleepersBefore DEF Base
<1>11. e' = e
  BY <1>1
<1> HIDE DEF e
<1>2. ASSUME NEW v \in Threads \ {t}
      PROVE  /\ Event(v)' = Event(v) /\ call'[v] = call[v]
             /\ pc[v] \in AtSetter \cup {"signalEvent", "waitLock"} => pc'[v] = pc[v]
  BY <1>1, OthersLeftAside, OthersEvent DEF OthersAside, AtSetter
<1>3. (\E v \in Threads : pc'[v] \in AtSetter /\ Event(v)' = e) => SetterHolds(Event(u))'
  BY <1>1 DEF SetterHolds, AtSetter
<1>4. CASE SetLock(t) /\ e = Event(t)
  <2>1. pc'[t] = "notify" /\ Event(t)' = Event(t)
    BY <1>1, <1>4 DEF SetLock, Goto, TypeOK, Event, local
  <2> QED
    BY <1>3, <1>4, <2>1 DEF AtSetter
<1>5. CASE ~ (SetLock(t) /\ e = Event(t))
  <2>1. State[e] /\ State'[e]
    BY <1>1, <1>5, StatesKept
  <2>2. \/ \E v \in Threads : pc[v] \in AtSetter /\ Event(v) = e
        \/ \E v \in Threads : pc[v] = "signalEvent" /\ Event(v) = e
        \/ e \in AutoReset /\ \E v \in Threads : TakesAt(v, e)
    BY <1>1, <2>1, SetterAt DEF SleepersFollow, TakesAt, e
  <2>3. ASSUME NEW v \in Threads, pc[v] \in AtSetter, Event(v) = e
        PROVE  \/ SetterHolds(Event(u))'
               \/ \E x \in Threads : pc'[x] = "signalEvent" /\ Event(x)' = e
    <3>1. CASE v # t
      BY <1>2, <1>3, <2>3, <3>1
    <3>2. CASE v = t
      BY <1>3, <2>1, <2>3, <3>2, SetterAfter
    <3> QED
      BY <3>1, <3>2
  <2>4. ASSUME NEW v \in Threads, pc[v] = "signalEvent", Event(v) = e
        PROVE  \/ \E x \in Threads : pc'[x] = "signalEvent" /\ Event(x)' = e
               \/ e \in AutoReset /\ \E x \in Threads : TakesAt(x, e)'
    <3>1. CASE v # t
      BY <1>2, <2>4, <3>1
    <3>2. CASE v = t
      <4>1. SignalEvent(t)
        BY <2>4, <3>2 DEF Acts, Step, SetStep, SetLock, NotifyExpired, NotifyWaiter, SignalWaiter,
           NotifyNone, Reset, WaitStep, WaitFindsBusy, WaitTakes, WaitFindsUnset, WaitSleeps,
           WaitGivesUp, WaitManyStep, RegisterLock, PurgeKeeps, PurgeRemoves, Purging,
           TakeForAny, TakeForAll, Register, Purged, TestDone, TestSleeps, Wake, ExpiredLock,
           Finish, Call, SetEvent, ResetEvent, WaitForEvent, CallOne, WaitForMultipleEvents,
           Clock, WaitExpires, Expires, SpuriousWakeup
      <4>2. PICK S \in WakeChoices(e, EventSleepers(e)) : GotoWaking(t, "idle", S)
        BY <2>4, <3>2, <4>1 DEF SignalEvent
      <4>3. u \in EventSleepers(e)
        BY <1>1 DEF EventSleepers, e
      <4>4. \A x \in S : x \in EventSleepers(e)
        BY <4>2 DEF WakeChoices
      <4>5. u \notin S
        BY <1>1, <4>2 DEF GotoWaking
      <4>6. e \in AutoReset /\ \E x \in EventSleepers(e) : S = {x}
        BY <4>2, <4>3, <4>5 DEF WakeChoices
      <4>7. PICK x \in EventSleepers(e) : S = {x}
        BY <4>6
      <4>8. x \in Threads /\ x # t /\ pc[x] = "waitAsleep" /\ Event(x) = e
        BY <2>4, <3>2, <4>7 DEF EventSleepers
      <4>9. pc'[x] = "waitLock"
        BY <1>1, <4>2, <4>7, <4>8 DEF GotoWaking
      <4>10. call'[x] = call[x] /\ Event(x)' = e /\ call[x].time # "zero"
        BY <1>1, <1>2, <4>8 DEF InCall
      <4> QED
        BY <1>11, <4>6, <4>8, <4>9, <4>10 DEF TakesAt
    <3> QED
      BY <3>1, <3>2
  <2>5. ASSUME NEW v \in Threads, TakesAt(v, e), e \in AutoReset
        PROVE  TakesAt(v, e)'
    <3>1. CASE v # t
      BY <1>2, <1>11, <2>5, <3>1 DEF TakesAt
    <3>2. CASE v = t
      <4>1. pc[t] = "waitLock" /\ call[t].time # "zero" /\ Event(t) = e
        BY <2>5, <3>2 DEF TakesAt
      <4>2. WaitTakes(t) \/ WaitSleeps(t)
        BY <4>1 DEF Acts, Step, SetStep, SetLock, NotifyExpired, NotifyWaiter, SignalWaiter,
           NotifyNone, SignalEvent, Reset, WaitStep, WaitFindsBusy, WaitTakes, WaitFindsUnset,
           WaitSleeps,
           WaitGivesUp, WaitManyStep, RegisterLock, PurgeKeeps, PurgeRemoves, Purging,
           TakeForAny, TakeForAll, Register, Purged, TestDone, TestSleeps, Wake, ExpiredLock,
           Finish, Call, SetEvent, ResetEvent, WaitForEvent, CallOne, WaitForMultipleEvents,
           Clock, WaitExpires, Expires, SpuriousWakeup
      <4>3. CASE WaitTakes(t)
        BY <1>1, <2>1, <2>5, <4>1, <4>3 DEF WaitTakes, Consume, TypeOK
      <4>4. CASE WaitSleeps(t)
        BY <2>1, <4>1, <4>4 DEF WaitSleeps
      <4> QED
        BY <4>2, <4>3, <4>4
    <3> QED
      BY <3>1, <3>2
  <2> QED
    BY <1>1, <1>11, <2>2, <2>3, <2>4, <2>5
<1> QED
  BY <1>4, <1>5

------------------------------------------------------------------------------
(* Waits that fired.                                                       *)

\* No step takes away the signal that a sleeper whose wait fired needs.
LEMMA FiredKept ==
  ASSUME Base, FiredWaiterIsSignalled, NEW t \in Threads, Acts(t)
  PROVE  FiredWaiterIsSignalled'
<1>1. /\ TypeOK /\ wfmo \in [Waits -> Records] /\ OwnersDiffer
      /\ \A u \in Threads : InCall(u)
  BY DEF Base, TypeOK
<1> SUFFICES ASSUME NEW u \in Threads, pc'[u] = "asleep", Done(wfmo'[own'[u]])
             PROVE  \E v \in Threads : pc'[v] = "signalWaiter" /\ target'[v] = own'[u]
  BY DEF FiredWaiterIsSignalled
<1>2. u # t
  <2> SUFFICES ASSUME u = t PROVE FALSE
    OBVIOUS
  <2>1. ~SetStep(t)
    BY <1>1 DEF SetStep, SetLock, NotifyExpired, NotifyWaiter, SignalWaiter, NotifyNone,
       SignalEvent, Goto, GotoWaking, TypeOK
  <2>2. ~Reset(t) /\ ~WaitStep(t)
    BY <1>1 DEF Reset, WaitStep, WaitFindsBusy, WaitTakes, WaitFindsUnset, WaitSleeps,
       WaitGivesUp, ReturnFromWait, Goto, TypeOK
  <2>3. ~TestSleeps(t)
    BY <1>1 DEF TestSleeps, local
  <2>4. ~WaitManyStep(t)
    BY <1>1, <2>3 DEF WaitManyStep, RegisterLock, PurgeKeeps, PurgeRemoves, Purging,
       TakeForAny, TakeForAll, Register, Purged, NextEvent, TestDone, Wake,
       ExpiredLock, Finish, Goto, TypeOK
  <2>5. ~Call(t) /\ ~Clock(t)
    BY <1>1 DEF Call, SetEvent, ResetEvent, WaitForEvent, CallOne, WaitForMultipleEvents,
       Clock, WaitExpires, Expires, SpuriousWakeup, Goto, TypeOK
  <2> QED
    BY <2>1, <2>2, <2>4, <2>5 DEF Acts, Step
<1>3. pc[u] = "asleep" /\ own'[u] = own[u]
  BY <1>1, <1>2, OthersLeftAside DEF OthersAside
<1>4. own[u] \in Waits
  BY <1>1, <1>3 DEF InCall, InMany, AfterScan
<1>5. own[u] # NoWait /\ own[u] # own[t]
  BY <1>1, <1>2, <1>4, EventsAssumption DEF OwnersDiffer
<1>6. ASSUME Done(wfmo[own[u]])
      PROVE  \E v \in Threads : pc'[v] = "signalWaiter" /\ target'[v] = own[u]
  <2>1. PICK v \in Threads : pc[v] = "signalWaiter" /\ target[v] = own[u]
    BY <1>3, <1>6 DEF FiredWaiterIsSignalled
  <2>2. CASE v # t
    BY <1>1, <2>1, <2>2, OthersLeftAside DEF OthersAside
  <2>3. CASE v = t
    <3>1. SignalWaiter(t)
      BY <2>1, <2>3 DEF Acts, Step, SetStep, SetLock, NotifyExpired, NotifyWaiter,
         NotifyNone, SignalEvent, Reset, WaitStep, WaitFindsBusy, WaitTakes, WaitFindsUnset,
         WaitSleeps,
         WaitGivesUp, WaitManyStep, RegisterLock, PurgeKeeps, PurgeRemoves, Purging,
         TakeForAny, TakeForAll, Register, Purged, TestDone, TestSleeps, Wake, ExpiredLock,
         Finish, Call, SetEvent, ResetEvent, WaitForEvent, CallOne, WaitForMultipleEvents,
         Clock, WaitExpires, Expires, SpuriousWakeup
    <3>2. u \in WaiterAsleep(target[t])
      BY <1>3, <2>1, <2>3 DEF WaiterAsleep
    <3>3. pc'[u] = "woken"
      BY <1>2, <1>3, <3>1, <3>2 DEF SignalWaiter, GotoWaking
    <3> QED
      BY <3>3
  <2> QED
    BY <2>2, <2>3
<1>7. CASE wfmo'[own[u]] = wfmo[own[u]]
  BY <1>3, <1>6, <1>7
<1>8. CASE DropStep(t)
  <2>1. PICK n : Drops(t, n)
    BY <1>8, DropStepDrops
  <2>2. PICK w \in Waits, v \in Records :
          /\ wfmo' = [wfmo EXCEPT ![w] = v]
          /\ w = RegisteredWaits[Event(t)][n].Waiter
    BY <2>1, DropEffect
  <2>3. CASE own[u] # w
    BY <1>1, <1>4, <1>7, <2>2, <2>3
  <2>4. CASE own[u] = w
    <3>1. PICK q : q = wfmo'[own[u]]
      OBVIOUS
    <3>2. /\ q.WaitAll = wfmo[own[u]].WaitAll
          /\ ~wfmo[own[u]].StillWaiting => q.Status = wfmo[own[u]].Status
      BY <2>1, <2>2, <2>4, <3>1, DropOwned
    <3>3. CASE ~wfmo[own[u]].StillWaiting
      BY <1>3, <1>6, <3>1, <3>2, <3>3 DEF Done
    <3>4. CASE wfmo[own[u]].StillWaiting
      <4>1. pc' = [pc EXCEPT ![t] = "signalWaiter"] /\ target' = [target EXCEPT ![t] = own[u]]
        BY <2>1, <2>2, <2>4, <3>4 DEF Drops
      <4> QED
        BY <1>1, <1>3, <4>1 DEF TypeOK
    <3> QED
      BY <3>3, <3>4
  <2> QED
    BY <2>3, <2>4
<1>9. CASE Register(t) \/ TakeForAny(t) \/ TakeForAll(t) \/ Finish(t)
  <2>1. wfmo' = [wfmo EXCEPT ![own[t]] = wfmo'[own[t]]]
    <3>1. CASE Register(t)
      BY <3>1, RegisterEffect
    <3>2. CASE TakeForAny(t) \/ TakeForAll(t)
      BY <3>2, TakeEffect
    <3>3. CASE Finish(t)
      BY <3>3, FinishEffect
    <3> QED
      BY <1>9, <3>1, <3>2, <3>3
  <2>2. PICK v : wfmo' = [wfmo EXCEPT ![own[t]] = v]
    BY <2>1
  <2> QED
    BY <1>1, <1>4, <1>5, <1>7, <2>2
<1>10. ASSUME NEW c \in Menu[t], WaitForMultipleEvents(t, c)
       PROVE  wfmo'[own[u]] = wfmo[own[u]]
  <2>1. PICK w \in Waits : /\ wfmo' = [wfmo EXCEPT ![w] = NewRecord(c)]
                           /\ \A x \in Threads : own[x] # w
    BY <1>10, OpenEffect
  <2> QED
    BY <1>1, <1>4, <2>1
<1> QED
  BY <1>7, <1>8, <1>9, <1>10, Changes DEF DropStep

------------------------------------------------------------------------------
(* The count and the index of a record.                                    *)

\* StatusFits of every thread is StatusExact, and a little more.
LEMMA StatusIsFit == (\A t \in Threads : StatusFits(t)) => StatusExact
BY DEF StatusExact, StatusFits, Missing

\* The positions a wait misses can be counted.
LEMMA MissingFinite ==
  ASSUME NEW t, Count(t) \in Nat
  PROVE  IsFiniteSet(Missing(t)) /\ Cardinality(Missing(t)) \in Nat
<1>1. Missing(t) \subseteq 1 .. Count(t)
  BY DEF Missing
<1>2. IsFiniteSet(1 .. Count(t))
  BY FS_Interval
<1> QED
  BY <1>1, <1>2, FS_Subset, FS_CardinalityType

\* A new wait has obtained nothing.
LEMMA OpenStatus ==
  ASSUME Base, NEW t \in Threads, NEW c \in Menu[t], WaitForMultipleEvents(t, c)
  PROVE  StatusFits(t)'
<1>1. PICK w \in Waits : own'[t] = w /\ wfmo' = [wfmo EXCEPT ![w] = NewRecord(c)]
  BY OpenEffect
<1>2. call'[t] = c /\ pos'[t] = 1
  BY OpenEffect
<1>3. wfmo'[w] = NewRecord(c)
  BY <1>1 DEF Base, TypeOK
<1>4. Len(c.events) \in Nat
  <2>1. c \in Calls
    BY MenuAssumption
  <2> QED
    BY <2>1 DEF Calls
<1>5. Missing(t)' = 1 .. Len(c.events) /\ Count(t)' = Len(c.events)
  BY <1>2, <1>4 DEF Missing, Count
<1>6. Cardinality(1 .. Len(c.events)) = Len(c.events)
  BY <1>4, FS_Interval
<1> QED
  BY <1>1, <1>2, <1>3, <1>5, <1>6 DEF StatusFits, NewRecord

\* A step that obtains an event for a wait.
LEMMA DropStatus ==
  ASSUME Base, NEW t \in Threads, NEW n, Drops(t, n), NEW u \in Threads,
         own[u] = RegisteredWaits[Event(t)][n].Waiter, StatusFits(u),
         UNCHANGED <<own[u], call[u], pos[u]>>
  PROVE  StatusFits(u)'
<1>1. PICK w, c, e, x : w = own[u] /\ c = call[u] /\ e = Event(t)
                        /\ x = RegisteredWaits[Event(t)][n]
  OBVIOUS
<1>2. PICK p, r, q : p = pos[u] /\ r = wfmo[own[u]] /\ q = wfmo'[own[u]]
  OBVIOUS
<1>3. /\ w \in Waits /\ e \in Events /\ x \in WaitInfos /\ x.Waiter = w
      /\ IsRegistered(w, e) /\ r \in Records
  BY <1>1, <1>2, DropEffect DEF Base, TypeOK
<1>4. /\ ~HoldsWaiter(u)
      /\ q.WaitAll = r.WaitAll
      /\ q.StillWaiting <=> r.StillWaiting /\ r.WaitAll
      /\ q.Status = IF ~r.StillWaiting THEN r.Status
                    ELSE IF r.WaitAll THEN r.Status - 1 ELSE x.WaitIndex
  BY <1>1, <1>2, DropOwned
<1>5. w # NoWait
  BY <1>3, EventsAssumption
<1>6. /\ r.WaitAll = c.all
      /\ ~r.StillWaiting => ~c.all /\ r.Status # NotFired
  BY <1>1, <1>2, <1>5 DEF Base, RecordsFollow
<1> DEFINE k == x.WaitIndex + 1
<1>7. /\ x.WaitIndex \in Nat /\ k \in 1 .. Len(c.events) /\ k < p /\ c.events[k] = e
  <2>1. x \in ToSet(RegisteredWaits[e])
    BY <1>1 DEF Drops, ToSet
  <2> QED
    BY <1>1, <1>2, <1>3, <2>1 DEF Base, EntriesFollow, Count, WaitInfos
<1>8. /\ Len(c.events) \in Nat /\ \A i \in 1 .. Len(c.events) : c.events[i] \in Events
      /\ \A i, j \in 1 .. Len(c.events) : c.events[i] = c.events[j] => i = j
      /\ c.all \in BOOLEAN
  <2>1. pc[u] # "idle" /\ InCall(u)
    BY <1>1, <1>5 DEF Base, InCall, InMany, InScan, AfterScan
  <2> QED
    BY <1>1, <2>1, CallFacts DEF Count
<1>9. \A d \in Events : IsRegistered(w, d)' <=> IsRegistered(w, d) /\ d # e
  BY <1>1, <1>3, DropRegistrations
<1> HIDE DEF k
<1> DEFINE M == {i \in 1 .. Len(c.events) : i >= p \/ IsRegistered(w, c.events[i])}
           L == {i \in 1 .. Len(c.events) : i >= p \/ IsRegistered(w, c.events[i])'}
<1>10. Missing(u) = M /\ Missing(u)' = L /\ Count(u)' = Count(u) /\ Count(u) = Len(c.events)
  BY <1>1, <1>2 DEF Missing, Count
<1>11. k \in M /\ L = M \ {k}
  <2>1. p \in Int /\ ~ (k >= p)
    BY <1>2, <1>7 DEF Base, TypeOK, k
  <2>2. IsRegistered(w, c.events[k]) /\ ~IsRegistered(w, c.events[k])'
    BY <1>3, <1>7, <1>9
  <2>3. \A i \in 1 .. Len(c.events) \ {k} :
          IsRegistered(w, c.events[i])' <=> IsRegistered(w, c.events[i])
    BY <1>7, <1>8, <1>9
  <2> QED
    BY <1>7, <2>1, <2>2, <2>3
<1>12. Cardinality(L) = Cardinality(M) - 1 /\ Cardinality(M) \in Nat
  <2>1. IsFiniteSet(Missing(u)) /\ Cardinality(Missing(u)) \in Nat
    BY <1>8, <1>10, MissingFinite
  <2>2. IsFiniteSet(M) /\ Cardinality(M) \in Nat
    BY <1>10, <2>1
  <2> HIDE DEF M, L
  <2> QED
    BY <1>11, <2>2, FS_RemoveElement
<1> HIDE DEF M, L
<1>13. CASE c.all
  <2>1. r.Status = Cardinality(M)
    BY <1>1, <1>2, <1>5, <1>10, <1>13 DEF StatusFits
  <2>2. q.Status = Cardinality(L)
    BY <1>4, <1>6, <1>12, <1>13, <2>1
  <2> QED
    BY <1>1, <1>2, <1>10, <1>13, <2>2 DEF StatusFits
<1>14. CASE ~c.all /\ r.StillWaiting
  <2>1. q.Status = x.WaitIndex /\ q.Status # NotFired /\ q.Status + 1 = k
    BY <1>4, <1>6, <1>7, <1>14 DEF NotFired, k
  <2>2. k \in 1 .. p
    BY <1>2, <1>7 DEF Base, TypeOK, k
  <2>3. ~IsRegistered(w, c.events[k])'
    BY <1>3, <1>7, <1>9
  <2> QED
    BY <1>1, <1>2, <1>7, <1>10, <1>14, <2>1, <2>2, <2>3 DEF StatusFits
<1>15. CASE ~c.all /\ ~r.StillWaiting
  <2>1. q.Status = r.Status /\ r.Status # NotFired
    BY <1>4, <1>6, <1>15
  <2>2. r.Status + 1 \in 1 .. p /\ ~IsRegistered(w, c.events[r.Status + 1])
    BY <1>1, <1>2, <1>5, <1>15, <2>1 DEF StatusFits
  <2>4. r.Status + 1 \in 1 .. Len(c.events)
    BY <1>1, <1>2, <1>5, <1>10, <1>15, <2>1 DEF StatusFits
  <2>3. ~IsRegistered(w, c.events[r.Status + 1])'
    BY <1>8, <1>9, <2>2, <2>4
  <2> QED
    BY <1>1, <1>2, <1>10, <1>15, <2>1, <2>2, <2>3, <2>4 DEF StatusFits
<1> QED
  BY <1>8, <1>13, <1>14, <1>15

\* A scan that goes on.
LEMMA ScanStatus ==
  ASSUME Base, NEW t \in Threads, TakeForAny(t) \/ TakeForAll(t) \/ Register(t), StatusFits(t)
  PROVE  StatusFits(t)'
<1>1. PICK w, c, e : w = own[t] /\ c = call[t] /\ e = Event(t)
  OBVIOUS
<1>2. PICK p, r, q : p = pos[t] /\ r = wfmo[own[t]] /\ q = wfmo'[own[t]]
  OBVIOUS
<1>3. pc[t] = "purge" /\ own' = own /\ call' = call
  BY DEF TakeForAny, TakeForAll, Register, Purged
<1>4. e \in Events /\ p \in 1 .. Len(c.events) /\ w \in Waits /\ w # NoWait
      /\ r \in Records /\ r.StillWaiting /\ (~c.all => r.Status = NotFired)
      /\ r.WaitAll = c.all
  <2>1. e \in Events /\ p \in 1 .. Len(c.events)
    BY <1>1, <1>2, <1>3, EventAtHand DEF Base, InScan, Count
  <2>2. w \in Waits /\ r \in Records
    BY <1>1, <1>2, <1>3, OwnRecord DEF InMany, InScan
  <2>3. w # NoWait
    BY <2>2, EventsAssumption
  <2> QED
    BY <1>1, <1>2, <1>3, <2>1, <2>2, <2>3 DEF Base, RecordsFollow, InScan
<1>5. /\ Len(c.events) \in Nat /\ \A i \in 1 .. Len(c.events) : c.events[i] \in Events
      /\ \A i, j \in 1 .. Len(c.events) : c.events[i] = c.events[j] => i = j
      /\ c.all \in BOOLEAN /\ c.events[p] = e
  BY <1>1, <1>2, <1>3, CallFacts DEF Base, Count, Event
<1>6. ~IsRegistered(w, e)
  BY <1>1, <1>3, NotYetRegistered
<1> DEFINE M == {i \in 1 .. Len(c.events) : i >= p \/ IsRegistered(w, c.events[i])}
<1>7. Missing(t) = M /\ Count(t)' = Count(t) /\ Count(t) = Len(c.events)
  BY <1>1, <1>2, <1>3 DEF Missing, Count
<1>8. p \in M /\ IsFiniteSet(M)
  <2>1. IsFiniteSet(Missing(t))
    BY <1>5, <1>7, MissingFinite
  <2> QED
    BY <1>4, <1>7, <2>1
<1>9. CASE TakeForAny(t)
  <2>1. q.Status = p - 1 /\ ~c.all /\ pos' = pos /\ RegisteredWaits' = RegisteredWaits
    BY <1>1, <1>2, <1>9, TakeEffect DEF TakeForAny
  <2>2. q.Status + 1 = p /\ q.Status # NotFired
    BY <1>4, <2>1 DEF NotFired
  <2>3. ~IsRegistered(w, e)'
    BY <1>6, <2>1 DEF IsRegistered
  <2> QED
    BY <1>1, <1>2, <1>3, <1>4, <1>5, <1>7, <2>1, <2>2, <2>3 DEF StatusFits
<1>10. CASE TakeForAll(t)
  <2>1. q.Status = r.Status - 1 /\ c.all /\ pos'[t] = p + 1 /\ RegisteredWaits' = RegisteredWaits
    <3>1. q.Status = r.Status - 1 /\ c.all /\ RegisteredWaits' = RegisteredWaits
      BY <1>1, <1>2, <1>10, TakeEffect DEF TakeForAll, TakeForAny
    <3> QED
      BY <1>2, <1>10, <3>1 DEF TakeForAll, NextEvent, Base, TypeOK
  <2> DEFINE L == {i \in 1 .. Len(c.events) : i >= p + 1 \/ IsRegistered(w, c.events[i])}
  <2>2. Missing(t)' = L
    BY <1>1, <1>3, <2>1 DEF Missing, Count, IsRegistered
  <2>3. L = M \ {p}
    BY <1>4, <1>5, <1>6
  <2>4. Cardinality(L) = Cardinality(M) - 1
    <3> HIDE DEF L, M
    <3> QED
      BY <1>8, <2>3, FS_RemoveElement
  <2>5. r.Status = Cardinality(M)
    BY <1>1, <1>2, <1>4, <1>7, <2>1 DEF StatusFits
  <2> HIDE DEF L, M
  <2> QED
    BY <1>1, <1>2, <1>3, <2>1, <2>2, <2>4, <2>5 DEF StatusFits
<1>11. CASE Register(t)
  <2>1. q.Status = r.Status /\ pos'[t] = p + 1
    <3>1. q.Status = r.Status
      BY <1>2, <1>11, RegisterEffect
    <3> QED
      BY <1>2, <1>11, <3>1 DEF Register, NextEvent, Base, TypeOK
  <2> DEFINE L == {i \in 1 .. Len(c.events) : i >= p + 1 \/ IsRegistered(w, c.events[i])'}
  <2>2. Missing(t)' = L
    BY <1>1, <1>3, <2>1 DEF Missing, Count
  <2>3. \A i \in 1 .. Len(c.events) :
          IsRegistered(w, c.events[i])' <=> IsRegistered(w, c.events[i]) \/ i = p
    <3>1. \A d \in Events : IsRegistered(w, d)' <=> IsRegistered(w, d) \/ d = e
      BY <1>1, <1>4, <1>11, RegisterRegistrations
    <3> QED
      BY <1>4, <1>5, <3>1
  <2>4. L = M
    BY <1>4, <1>5, <2>3
  <2>5. CASE c.all
    <3>1. r.Status = Cardinality(M)
      BY <1>1, <1>2, <1>4, <1>7, <2>5 DEF StatusFits
    <3> HIDE DEF L, M
    <3> QED
      BY <1>1, <1>2, <1>3, <2>1, <2>2, <2>4, <2>5, <3>1 DEF StatusFits
  <2>6. CASE ~c.all
    <3>1. M = 1 .. Len(c.events)
      BY <1>1, <1>2, <1>4, <1>7, <2>6 DEF StatusFits
    <3> HIDE DEF L, M
    <3> QED
      BY <1>1, <1>2, <1>3, <1>4, <1>7, <2>1, <2>2, <2>4, <2>6, <3>1 DEF StatusFits
  <2> QED
    BY <1>5, <2>5, <2>6
<1> QED
  BY <1>9, <1>10, <1>11

\* A step that leaves a thread's call, place, record and registrations alone.
LEMMA SameStatus ==
  ASSUME NEW u \in Threads, Base, StatusFits(u), own[u] # NoWait,
         UNCHANGED <<own[u], call[u], pos[u]>>,
         wfmo'[own[u]].Status = wfmo[own[u]].Status,
         \A e \in Events : IsRegistered(own[u], e)' <=> IsRegistered(own[u], e)
  PROVE  StatusFits(u)'
<1>1. PICK w, c, p, q : w = own[u] /\ c = call[u] /\ p = pos[u] /\ q = wfmo[own[u]].Status
  OBVIOUS
<1>2. \A i \in 1 .. Len(c.events) : c.events[i] \in Events
  <2>1. pc[u] # "idle" /\ InCall(u)
    BY DEF Base, InCall, InMany, InScan, AfterScan
  <2> QED
    BY <1>1, <2>1, CallFacts DEF Count
<1>3. \A i \in 1 .. Len(c.events) : IsRegistered(w, c.events[i])' <=> IsRegistered(w, c.events[i])
  BY <1>1, <1>2
<1>4. Missing(u)' = Missing(u) /\ Count(u)' = Count(u) /\ Count(u) = Len(c.events)
  BY <1>1, <1>3 DEF Missing, Count
<1>5. CASE c.all
  BY <1>1, <1>4, <1>5 DEF StatusFits
<1>6. CASE ~c.all /\ q = NotFired
  BY <1>1, <1>4, <1>6 DEF StatusFits
<1>7. CASE ~c.all /\ q # NotFired
  <2>1. q + 1 \in 1 .. p /\ q + 1 \in 1 .. Len(c.events) /\ ~IsRegistered(w, c.events[q + 1])
    BY <1>1, <1>4, <1>7 DEF StatusFits
  <2>2. ~IsRegistered(w, c.events[q + 1])'
    BY <1>3, <2>1
  <2> QED
    BY <1>1, <1>4, <1>7, <2>1, <2>2 DEF StatusFits
<1> QED
  BY <1>5, <1>6, <1>7

\* Status keeps counting, or naming, what it is for.
LEMMA StatusKept ==
  ASSUME Base, \A u \in Threads : StatusFits(u), NEW t \in Threads, Acts(t)
  PROVE  \A u \in Threads : StatusFits(u)'
<1>1. TypeOK /\ OwnersDiffer /\ wfmo \in [Waits -> Records]
      /\ own \in [Threads -> Waits \cup {NoWait}]
  BY DEF Base, TypeOK
<1> SUFFICES ASSUME NEW u \in Threads, own'[u] # NoWait PROVE StatusFits(u)'
  BY DEF StatusFits
<1>2. ASSUME NEW c \in Menu[t], WaitForMultipleEvents(t, c), u = t
      PROVE  StatusFits(u)'
  BY <1>2, OpenStatus
<1>3. CASE u = t /\ (TakeForAny(t) \/ TakeForAll(t) \/ Register(t))
  BY <1>3, ScanStatus
<1>4. CASE ~ (u = t /\ (TakeForAny(t) \/ TakeForAll(t) \/ Register(t)))
           /\ UNCHANGED <<own[u], call[u], pos[u]>>
  <2>1. own[u] \in Waits
    BY <1>1, <1>4
  <2>2. CASE DropStep(t)
    <3>1. PICK n : Drops(t, n)
      BY <2>2, DropStepDrops
    <3>2. PICK w \in Waits, v \in Records :
            /\ wfmo' = [wfmo EXCEPT ![w] = v]
            /\ w = RegisteredWaits[Event(t)][n].Waiter
      BY <3>1, DropEffect
    <3>3. CASE own[u] = w
      BY <1>4, <3>1, <3>2, <3>3, DropStatus
    <3>4. CASE own[u] # w
      <4>1. wfmo'[own[u]] = wfmo[own[u]]
        BY <1>1, <2>1, <3>2, <3>4
      <4>2. \A e \in Events : IsRegistered(own[u], e)' <=> IsRegistered(own[u], e)
        <5>1. PICK o \in Waits : o = own[u]
          BY <2>1
        <5>2. \A e \in Events : IsRegistered(o, e)' <=> IsRegistered(o, e)
          BY <3>1, <3>2, <3>4, <5>1, DropRegistrations
        <5> QED
          BY <1>4, <5>1, <5>2 DEF IsRegistered
      <4> QED
        BY <1>4, <1>1, <2>1, <4>1, <4>2, SameStatus
    <3> QED
      BY <3>3, <3>4
  <2>3. CASE Register(t)
    <3>1. own[u] # own[t]
      BY <1>1, <1>4, <2>1, <2>3, EventsAssumption DEF OwnersDiffer
    <3>2. wfmo'[own[u]] = wfmo[own[u]]
      <4>1. PICK v : wfmo' = [wfmo EXCEPT ![own[t]] = v]
        BY <2>3 DEF Register
      <4> QED
        BY <1>1, <2>1, <3>1, <4>1
    <3>3. \A e \in Events : IsRegistered(own[u], e)' <=> IsRegistered(own[u], e)
      <4>1. PICK o \in Waits : o = own[u]
        BY <2>1
      <4>2. \A e \in Events : IsRegistered(o, e)' <=> IsRegistered(o, e)
        BY <2>3, <3>1, <4>1, RegisterRegistrations
      <4> QED
        BY <1>4, <4>1, <4>2 DEF IsRegistered
    <3> QED
      BY <1>4, <1>1, <2>1, <3>2, <3>3, SameStatus, EventsAssumption
  <2>4. CASE ~DropStep(t) /\ ~Register(t)
    <3>3. RegisteredWaits' = RegisteredWaits
      BY <2>4, Changes DEF DropStep
    <3>1. wfmo'[own[u]] = wfmo[own[u]]
      <4>1. CASE wfmo' = wfmo
        BY <4>1
      <4>2. CASE TakeForAny(t) \/ TakeForAll(t) \/ Finish(t)
        <5>1. u # t
          BY <1>1, <1>4, <2>1, <4>2, EventsAssumption DEF Finish
        <5>2. own[u] # own[t]
          BY <1>1, <2>1, <5>1, EventsAssumption DEF OwnersDiffer
        <5>3. wfmo' = [wfmo EXCEPT ![own[t]] = wfmo'[own[t]]]
          BY <4>2, TakeEffect, FinishEffect
        <5>4. PICK v : wfmo' = [wfmo EXCEPT ![own[t]] = v]
          BY <5>3
        <5> QED
          BY <1>1, <2>1, <5>2, <5>4
      <4>3. ASSUME NEW c \in Menu[t], WaitForMultipleEvents(t, c)
            PROVE  wfmo'[own[u]] = wfmo[own[u]]
        <5>1. PICK w \in Waits : /\ wfmo' = [wfmo EXCEPT ![w] = NewRecord(c)]
                                 /\ \A x \in Threads : own[x] # w
          BY <4>3, OpenEffect
        <5> QED
          BY <1>1, <2>1, <5>1
      <4> QED
        BY <2>4, <4>1, <4>2, <4>3, Changes DEF DropStep
    <3>2. \A e \in Events : IsRegistered(own[u], e)' <=> IsRegistered(own[u], e)
      BY <1>4, <3>3 DEF IsRegistered
    <3> QED
      BY <1>4, <1>1, <2>1, <3>1, <3>2, SameStatus, EventsAssumption
  <2> QED
    BY <2>2, <2>3, <2>4
<1>5. CASE u # t
  BY <1>1, <1>4, <1>5, OthersLeftAside DEF OthersAside
<1>6. CASE u = t
  BY <1>2, <1>3, <1>4, <1>6, RecordAfter
<1> QED
  BY <1>5, <1>6

------------------------------------------------------------------------------
(* The invariant is inductive.                                             *)

\* The invariant holds before the first call.
LEMMA InitInvariant == Init => IInv
<1> SUFFICES ASSUME Init PROVE IInv
  OBVIOUS
<1>1. Base
  BY InitBase
<1>2. \A t \in Threads : pc[t] = "idle" /\ own[t] = NoWait
  BY DEF Init
<1>3. \A e \in Events : RegisteredWaits[e] = <<>>
  BY DEF Init
<1>4. SignalsFollow /\ SleepersFollow /\ FiredWaiterIsSignalled
  BY <1>2, <1>3 DEF SignalsFollow, SleepersFollow, FiredWaiterIsSignalled
<1>5. \A t \in Threads : StatusFits(t)
  BY <1>2 DEF StatusFits
<1> QED
  BY <1>1, <1>4, <1>5 DEF IInv

\* A step that changes nothing keeps the invariant.
LEMMA Stutter ==
  ASSUME IInv, UNCHANGED vars
  PROVE  IInv'
<1>1. /\ UNCHANGED <<State, RegisteredWaits, eventMutex, wfmo, waiterMutex, pc>>
      /\ UNCHANGED <<call, pos, scan, own, target, result>>
  BY DEF vars, shared, local
<1>2. \A t \in Threads : InCall(t)' <=> InCall(t)
  BY <1>1 DEF InCall, Count, Event
<1>3. TypeOK'
  BY <1>1 DEF IInv, Base, TypeOK
<1>4. EventMutexHeld' /\ WaiterMutexHeld' /\ OwnersDiffer' /\ EntriesFollow' /\ RecordsFollow'
  BY <1>1 DEF IInv, Base, EventMutexHeld, WaiterMutexHeld, HoldsEvent, HoldsWaiter, Event,
              OwnersDiffer, EntriesFollow, Count, RecordsFollow
<1>5. \A w \in Waits, e \in Events : IsRegistered(w, e)' <=> IsRegistered(w, e)
  BY <1>1 DEF IsRegistered
<1>6. RefCountExact'
  BY <1>1, <1>5 DEF IInv, Base, RefCountExact
<1>7. SignalsFollow' /\ SleepersFollow' /\ FiredWaiterIsSignalled'
  BY <1>1 DEF IInv, SignalsFollow, SetterHolds, Event, SleepersFollow, FiredWaiterIsSignalled
<1>8. ASSUME NEW t \in Threads PROVE StatusFits(t)'
  BY <1>1 DEF IInv, StatusFits, Missing, Count, IsRegistered
<1> QED
  BY <1>1, <1>2, <1>3, <1>4, <1>6, <1>7, <1>8 DEF IInv, Base

\* Every step keeps the invariant.
LEMMA InductiveStep == IInv /\ [Next]_vars => IInv'
<1> SUFFICES ASSUME IInv, [Next]_vars PROVE IInv'
  OBVIOUS
<1>1. ASSUME NEW t \in Threads, Acts(t) PROVE IInv'
  <2>1. Base' /\ SignalsFollow' /\ SleepersFollow' /\ FiredWaiterIsSignalled'
    BY <1>1, BaseKept, SignalsKept, SleepersKept, FiredKept DEF IInv
  <2>2. \A u \in Threads : StatusFits(u)'
    BY <1>1, StatusKept DEF IInv
  <2> QED
    BY <2>1, <2>2 DEF IInv
<1> QED
  BY <1>1, Stutter DEF Next, Acts

\* The invariant holds at every step of every run.
THEOREM Invariant == Spec => []IInv
BY InitInvariant, InductiveStep, PTL DEF Spec

------------------------------------------------------------------------------
(* What the invariant implies.                                             *)

\* The state of the events, the threads and the wait records keeps its type.
THEOREM TypeCorrect == Spec => []TypeOK
<1>1. IInv => TypeOK
  BY DEF IInv, Base
<1> QED
  BY <1>1, Invariant, PTL

\* A record is deleted by whoever drops its last reference, once: RefCount is the number
\* of deques that hold it, and one more while the call that created it runs.
THEOREM RecordsLiveWhileReferenced == Spec => []RefCountExact
<1>1. IInv => RefCountExact
  BY DEF IInv, Base
<1> QED
  BY <1>1, Invariant, PTL

\* SetEvent serves the waits in the deque before it leaves the event signalled.
THEOREM NoWaitIsPassedOver == Spec => []SignalledHasNoWaiter
<1>1. IInv => SignalledHasNoWaiter
  <2> SUFFICES ASSUME IInv, NEW e \in Events, State[e], eventMutex[e] = Nobody,
                      RegisteredWaits[e] # <<>>
               PROVE  FALSE
    BY DEF SignalledHasNoWaiter
  <2>1. PICK u \in Threads : pc[u] \in {"notify", "signalWaiter"} /\ Event(u) = e
    BY DEF IInv, SignalsFollow, SetterHolds
  <2> QED
    BY <2>1, EventsAssumption DEF IInv, Base, EventMutexHeld, HoldsEvent
<1> QED
  BY <1>1, Invariant, PTL

\* A SetEvent that makes the condition of a sleeping WaitForMultipleEvents hold has
\* still to signal its condition variable: no wakeup is lost.
THEOREM NoFiredWaitIsForgotten == Spec => []FiredWaiterIsSignalled
<1>1. IInv => FiredWaiterIsSignalled
  BY DEF IInv
<1> QED
  BY <1>1, Invariant, PTL

\* No signal of SetEvent to the sleepers of WaitForEvent is lost either.
THEOREM NoSleeperIsForgotten == Spec => []SleeperIsSignalled
<1>1. IInv => SleeperIsSignalled
  <2> SUFFICES ASSUME IInv, NEW t \in Threads, pc[t] = "waitAsleep", State[Event(t)],
                      eventMutex[Event(t)] = Nobody
               PROVE  \E u \in Threads :
                        /\ \/ pc[u] = "signalEvent"
                           \/ pc[u] = "waitLock" /\ call[u].time # "zero"
                        /\ Event(u) = Event(t)
    BY DEF SleeperIsSignalled
  <2>1. Event(t) \in Events
    BY EventAtHand DEF IInv, Base, InOne, InWait
  <2>2. ~SetterHolds(Event(t))
    BY <2>1, EventsAssumption DEF IInv, Base, EventMutexHeld, HoldsEvent, SetterHolds
  <2> QED
    BY <2>2 DEF IInv, SleepersFollow
<1> QED
  BY <1>1, Invariant, PTL

\* Status counts the events a wait for all still misses, and names the event that a
\* wait for any obtained.
THEOREM StatusKeepsItsMeaning == Spec => []StatusExact
<1>1. IInv => StatusExact
  BY StatusIsFit DEF IInv
<1> QED
  BY <1>1, Invariant, PTL

------------------------------------------------------------------------------
(* Nobody waits in a circle.                                               *)

\* Whom a thread may be blocked on.
LEMMA Blockers ==
  ASSUME Base, NEW t \in Threads, NEW u \in Threads, BlockedOn(t) = u
  PROVE  /\ ~Resting(u)
         /\ \/ /\ pc[t] \in {"setLock", "resetLock", "waitLock", "waitExpired", "register"}
               /\ Event(u) = Event(t)
               /\ \/ pc[u] \in {"signalWaiter", "purge"} /\ BlockedOn(u) = Nobody
                  \/ pc[u] = "notify"
            \/ /\ pc[t] = "notify"
               /\ \/ pc[u] \in {"purge", "test", "finish"} /\ BlockedOn(u) = Nobody
                  \/ pc[u] = "register" /\ Rank[Event(t)] < Rank[Event(u)]
<1>1. u # Nobody
  BY EventsAssumption
<1>2. CASE pc[t] \in {"setLock", "resetLock", "waitLock", "waitExpired", "register"}
  <2>1. eventMutex[Event(t)] = u
    BY <1>1, <1>2 DEF BlockedOn
  <2>2. Event(t) \in Events
    BY <1>2, EventAtHand DEF Base, InOne, InSet, InWait, InScan
  <2>3. pc[u] \in {"notify", "signalWaiter", "purge"} /\ Event(u) = Event(t)
    BY <2>1, <2>2 DEF Base, EventMutexHeld, HoldsEvent
  <2> QED
    BY <1>2, <2>3 DEF BlockedOn, Resting
<1>3. CASE pc[t] = "notify"
  <2> DEFINE e == Event(t) s == RegisteredWaits[e] w == FrontWait(e)
  <2>1. s # <<>> /\ waiterMutex[w] = u
    BY <1>1, <1>3 DEF BlockedOn
  <2>2. e \in Events
    BY <1>3, EventAtHand DEF Base, InOne, InSet
  <2>3. Head(s) \in ToSet(s) /\ Head(s) \in WaitInfos
    BY <2>1, <2>2, TailElements DEF Base, TypeOK
  <2>4. w \in Waits /\ w = Head(s).Waiter
    BY <2>3 DEF FrontWait, WaitInfos
  <2>5. pc[u] \in {"register", "purge", "test", "finish"} /\ own[u] = w
    BY <2>1, <2>4 DEF Base, WaiterMutexHeld, HoldsWaiter
  <2>6. CASE pc[u] # "register"
    BY <1>3, <2>5, <2>6 DEF BlockedOn, Resting
  <2>7. CASE pc[u] = "register"
    <3> DEFINE k == Head(s).WaitIndex + 1
    <3>1. k \in 1 .. Count(u) /\ k < pos[u] /\ call[u].events[k] = e
      BY <2>2, <2>3, <2>4, <2>5 DEF Base, EntriesFollow
    <3>2. pos[u] \in 1 .. Count(u)
      BY <2>7, EventAtHand DEF Base, InScan
    <3>3. Rank[call[u].events[k]] < Rank[call[u].events[pos[u]]]
      BY <2>7, <3>1, <3>2, CallFacts DEF Base
    <3> QED
      BY <1>3, <2>7, <3>1, <3>3 DEF Event, Resting
  <2> QED
    BY <2>6, <2>7
<1>4. CASE pc[t] \in {"woken", "expired"}
  <2>1. own[t] \in Waits /\ waiterMutex[own[t]] = u
    BY <1>1, <1>4 DEF BlockedOn, Base, InCall, InMany, AfterScan
  <2>2. HoldsWaiter(u) /\ own[u] = own[t]
    BY <2>1 DEF Base, WaiterMutexHeld
  <2>3. u = t
    BY <2>1, <2>2, EventsAssumption DEF Base, OwnersDiffer
  <2> QED
    BY <1>4, <2>2, <2>3 DEF HoldsWaiter
<1>5. CASE pc[t] \notin {"setLock", "resetLock", "waitLock", "waitExpired", "register",
                         "notify", "woken", "expired"}
  BY <1>1, <1>5 DEF BlockedOn
<1> QED
  BY <1>2, <1>3, <1>4, <1>5

\* How many events come after event e in the order of all arrays.
After(e) == {d \in Events : Rank[e] < Rank[d]}

\* The later of two events has fewer events after it.
LEMMA FewerAfter ==
  ASSUME NEW e \in Events, NEW d \in Events, Rank[e] < Rank[d]
  PROVE  /\ Cardinality(After(d)) < Cardinality(After(e))
         /\ Cardinality(After(e)) \in Nat /\ Cardinality(After(d)) \in Nat
<1>1. \A x \in Events : Rank[x] \in Nat
  BY MenuAssumption
<1>2. /\ After(d) \subseteq After(e) /\ d \in After(e) /\ d \notin After(d)
      /\ After(e) \subseteq Events
  BY <1>1 DEF After
<1>3. IsFiniteSet(After(e)) /\ Cardinality(After(e)) \in Nat
  BY <1>2, EventsAssumption, FS_Subset, FS_CardinalityType
<1>4. /\ IsFiniteSet(After(d)) /\ Cardinality(After(d)) \in Nat
      /\ Cardinality(After(d)) <= Cardinality(After(e))
      /\ Cardinality(After(d)) # Cardinality(After(e))
  BY <1>2, <1>3, FS_Subset, FS_CardinalityType
<1> QED
  BY <1>3, <1>4

\* SetEvent locks an event and then a record, WaitForMultipleEvents a record and then
\* events: the order of the arrays is what keeps them from blocking each other for good.
THEOREM NobodyWaitsInACircle == Spec => []NoDeadlock
<1>1. IInv => NoDeadlock
  <2> SUFFICES ASSUME IInv, NEW S \in SUBSET Threads, S # {},
                      \A t \in S : \E u \in S \cup {v \in Threads : Resting(v)} : BlockedOn(t) = u
               PROVE  FALSE
    BY DEF NoDeadlock
  <2>1. Base /\ \A t \in Threads : InCall(t)
    BY DEF IInv, Base
  <2>2. \A t \in S : \E u \in S : BlockedOn(t) = u
    BY <2>1, Blockers
  <2> DEFINE R == {t \in S : pc[t] = "register"}
  <2>3. ASSUME NEW t \in S, pc[t] = "notify"
        PROVE  \E u \in R : Rank[Event(t)] < Rank[Event(u)]
    <3>1. PICK u \in S : BlockedOn(t) = u
      BY <2>2
    <3>2. BlockedOn(u) # Nobody
      BY <2>2, EventsAssumption
    <3> QED
      BY <2>1, <2>3, <3>1, <3>2, Blockers
  <2>4. ASSUME NEW t \in S, pc[t] # "notify"
        PROVE  \E u \in S : pc[u] = "notify" /\ Event(u) = Event(t)
    <3>1. PICK u \in S : BlockedOn(t) = u
      BY <2>2
    <3>2. BlockedOn(u) # Nobody
      BY <2>2, EventsAssumption
    <3> QED
      BY <2>1, <2>4, <3>1, <3>2, Blockers
  <2>5. R # {}
    BY <2>3, <2>4
  <2>6. \A t \in R : Event(t) \in Events
    BY <2>1, EventAtHand DEF InScan
  <2>7. \A t \in R : \E u \in R : Rank[Event(t)] < Rank[Event(u)]
    <3> SUFFICES ASSUME NEW t \in R PROVE \E u \in R : Rank[Event(t)] < Rank[Event(u)]
      OBVIOUS
    <3>1. PICK v \in S : pc[v] = "notify" /\ Event(v) = Event(t)
      BY <2>4
    <3> QED
      BY <2>3, <3>1
  <2> DEFINE left(t) == Cardinality(After(Event(t)))
             N == {left(t) : t \in R}
  <2>8. N \in SUBSET Nat /\ N # {}
    <3>1. \A t \in R : left(t) \in Nat
      BY <2>6, <2>7, FewerAfter
    <3> QED
      BY <2>5, <3>1
  <2>9. PICK m \in N : \A x \in N : m <= x
    BY <2>8, LeastExists
  <2>10. PICK t \in R : m = left(t)
    OBVIOUS
  <2>11. PICK u \in R : Rank[Event(t)] < Rank[Event(u)]
    BY <2>7
  <2>12. left(u) < left(t) /\ left(u) \in N /\ left(u) \in Nat /\ left(t) \in Nat
    BY <2>6, <2>11, FewerAfter
  <2> QED
    BY <2>9, <2>10, <2>12
<1> QED
  BY <1>1, Invariant, PTL
=============================================================================

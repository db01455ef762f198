------------------------- MODULE EventPromiseProofs --------------------------
(***************************************************************************)
(* The events of libs/pevents.cpp keep the promise of EventPromise: every  *)
(* step of theirs is a step of the abstract events or leaves these alone.  *)
(***************************************************************************)
EXTENDS EventsProofs

------------------------------------------------------------------------------
(* What the calls are for.                                                 *)

\* A thread at a location makes the call that leads there; only waits have a result, and
\* a wait for several events that is to report success has what it waited for.
CallFits(t) ==
  /\ pc[t] \in InSet => call[t].op = "set"
  /\ pc[t] = "resetLock" => call[t].op = "reset"
  /\ pc[t] \in InWait => call[t].op = "wait"
  /\ pc[t] \in InMany => call[t].op = "waitMany"
  /\ pc[t] \in InSet \cup {"resetLock"} => result[t] = NoResult
  /\ pc[t] = "finish" =>
       \/ result[t].code = "timeout"
       \/ result[t].code = "success" /\ Done(wfmo[own[t]])

\* A step that erases no entry leaves the records and registrations of others alone.
LEMMA OthersRecord ==
  ASSUME Base, NEW t \in Threads, Acts(t), ~DropStep(t),
         NEW u \in Threads \ {t}, own[u] \in Waits
  PROVE  /\ wfmo'[own[u]] = wfmo[own[u]]
         /\ \A e \in Events : IsRegistered(own[u], e)' <=> IsRegistered(own[u], e)
<1>1. own'[u] = own[u]
  BY OthersLeftAside DEF OthersAside, Base
<1>2. own[t] \in Waits => own[u] # own[t]
  BY EventsAssumption DEF Base, OwnersDiffer
<1>3. CASE TakeForAny(t) \/ TakeForAll(t)
  <2>1. PICK r : wfmo' = [wfmo EXCEPT ![own[t]] = r] /\ own[t] \in Waits
    BY <1>3, TakeEffect
  <2>2. RegisteredWaits' = RegisteredWaits
    BY <1>3, TakeEffect
  <2> QED
    BY <1>1, <1>2, <2>1, <2>2 DEF IsRegistered, Base, TypeOK
<1>4. CASE Register(t)
  <2>1. PICK r : wfmo' = [wfmo EXCEPT ![own[t]] = r] /\ own[t] \in Waits
    BY <1>4, RegisterEffect
  <2>2. wfmo'[own[u]] = wfmo[own[u]]
    BY <1>2, <2>1 DEF Base, TypeOK
  <2>3. ASSUME NEW e \in Events
        PROVE  IsRegistered(own[u], e)' <=> IsRegistered(own[u], e)
    <3>1. PICK w : w = own[u]
      OBVIOUS
    <3>2. IsRegistered(w, e)' <=> IsRegistered(w, e)
      BY <1>2, <1>4, <2>1, <3>1, RegisterRegistrations
    <3> QED
      BY <1>1, <3>1, <3>2 DEF IsRegistered
  <2> QED
    BY <2>2, <2>3
<1>5. CASE Finish(t)
  <2>1. PICK r : wfmo' = [wfmo EXCEPT ![own[t]] = r] /\ own[t] \in Waits
    BY <1>5, FinishEffect
  <2>2. RegisteredWaits' = RegisteredWaits
    BY <1>5, FinishEffect
  <2> QED
    BY <1>1, <1>2, <2>1, <2>2 DEF IsRegistered, Base, TypeOK
<1>6. CASE \E c \in Menu[t] : WaitForMultipleEvents(t, c)
  <2>1. PICK c \in Menu[t] : WaitForMultipleEvents(t, c)
    BY <1>6
  <2>2. /\ wfmo' = [wfmo EXCEPT ![own'[t]] = NewRecord(c)] /\ own'[t] # own[u]
        /\ RegisteredWaits' = RegisteredWaits
    BY <2>1, OpenEffect
  <2> QED
    BY <1>1, <2>2 DEF IsRegistered, Base, TypeOK
<1>7. CASE wfmo' = wfmo /\ RegisteredWaits' = RegisteredWaits
  BY <1>1, <1>7 DEF IsRegistered
<1> QED
  BY <1>3, <1>4, <1>5, <1>6, <1>7, Changes DEF DropStep

\* Erasing the entry of another wait does neither.
LEMMA OthersDropped ==
  ASSUME Base, NEW t \in Threads, NEW n, Drops(t, n), NEW u \in Threads, own[u] \in Waits,
         own[u] # RegisteredWaits[Event(t)][n].Waiter
  PROVE  /\ wfmo'[own[u]] = wfmo[own[u]]
         /\ \A e \in Events : IsRegistered(own[u], e)' <=> IsRegistered(own[u], e)
<1>1. own' = own
  BY DEF Drops
<1>2. PICK w, r : w = RegisteredWaits[Event(t)][n].Waiter /\ wfmo' = [wfmo EXCEPT ![w] = r]
  BY DropEffect
<1>3. wfmo'[own[u]] = wfmo[own[u]]
  BY <1>2 DEF Base, TypeOK
<1>4. ASSUME NEW e \in Events
      PROVE  IsRegistered(own[u], e)' <=> IsRegistered(own[u], e)
  <2>1. PICK v : v = own[u]
    OBVIOUS
  <2>2. IsRegistered(v, e)' <=> IsRegistered(v, e)
    BY <2>1, DropRegistrations
  <2> QED
    BY <1>1, <2>1, <2>2 DEF IsRegistered
<1> QED
  BY <1>3, <1>4

\* Nobody writes to the record of a thread that holds its mutex.
LEMMA HeldRecord ==
  ASSUME Base, NEW t \in Threads, Acts(t), NEW u \in Threads \ {t}, HoldsWaiter(u)
  PROVE  wfmo'[own[u]] = wfmo[own[u]]
<1>1. own[u] \in Waits /\ waiterMutex[own[u]] = u
  BY DEF Base, InCall, HoldsWaiter, InMany, InScan, AfterScan, WaiterMutexHeld
<1>2. CASE ~DropStep(t)
  BY <1>1, <1>2, OthersRecord
<1>3. CASE DropStep(t)
  <2>1. PICK n \in DOMAIN RegisteredWaits[Event(t)] : Drops(t, n)
    BY <1>3, DropStepDrops
  <2>2. own[u] # RegisteredWaits[Event(t)][n].Waiter
    BY <1>1, <2>1, EventsAssumption DEF Drops
  <2> QED
    BY <1>1, <2>1, <2>2, OthersDropped
<1> QED
  BY <1>2, <1>3

\* The calls of the others keep fitting.
LEMMA OthersFit ==
  ASSUME Base, NEW t \in Threads, Acts(t), NEW u \in Threads \ {t}, CallFits(u)
  PROVE  CallFits(u)'
<1>1. /\ call'[u] = call[u] /\ result'[u] = result[u] /\ own'[u] = own[u]
      /\ \/ pc'[u] = pc[u]
         \/ pc[u] = "asleep" /\ pc'[u] = "woken"
         \/ pc[u] = "waitAsleep" /\ pc'[u] = "waitLock"
  BY OthersLeftAside DEF OthersAside, Base
<1>2. pc[u] = "finish" => wfmo'[own'[u]] = wfmo[own[u]]
  BY <1>1, HeldRecord DEF HoldsWaiter
<1> QED
  BY <1>1, <1>2 DEF CallFits, Done, InSet, InWait, InMany, InScan, AfterScan

\* The call of the thread that acts keeps fitting.
LEMMA ActorFits ==
  ASSUME Base, NEW t \in Threads, Acts(t), CallFits(t)
  PROVE  CallFits(t)'
<1>1. TypeOK
  BY DEF Base
<1> USE DEF InSet, InWait, InMany, InScan, AfterScan
<1>2. CASE SetStep(t)
  <2>1. CASE SetLock(t) \/ NotifyExpired(t) \/ NotifyWaiter(t) \/ NotifyNone(t)
    <3>1. /\ pc[t] \in InSet /\ pc'[t] \in {"notify", "signalWaiter", "signalEvent", "idle"}
          /\ call' = call /\ result' = result
      BY <1>1, <2>1 DEF SetLock, NotifyExpired, NotifyWaiter, NotifyNone, Goto, TypeOK, local
    <3> QED
      BY <3>1 DEF CallFits
  <2>2. CASE SignalWaiter(t) \/ SignalEvent(t)
    <3>1. /\ pc[t] \in InSet /\ result' = result
          /\ \/ pc'[t] = "idle"
             \/ pc'[t] = "notify" /\ call'[t] = call[t]
      BY <1>1, <2>2 DEF SignalWaiter, SignalEvent, GotoWaking, TypeOK
    <3> QED
      BY <3>1 DEF CallFits
  <2> QED
    BY <1>2, <2>1, <2>2 DEF SetStep
<1>3. CASE Reset(t) \/ WaitStep(t) \/ Finish(t)
  <2>1. \/ pc'[t] = "idle"
        \/ pc[t] = "waitLock" /\ pc'[t] = "waitAsleep" /\ call' = call
    BY <1>1, <1>3 DEF Reset, WaitStep, WaitFindsBusy, WaitTakes, WaitFindsUnset, WaitSleeps,
                      WaitGivesUp, ReturnFromWait, Finish, Goto, TypeOK, local
  <2> QED
    BY <2>1 DEF CallFits
<1>4. CASE \/ RegisterLock(t) \/ PurgeKeeps(t) \/ PurgeRemoves(t) \/ TestSleeps(t) \/ Wake(t)
  <2>1. pc[t] \in InMany /\ pc'[t] \in InMany \ {"finish"} /\ call' = call
    BY <1>1, <1>4 DEF RegisterLock, PurgeKeeps, PurgeRemoves, Purging, TestSleeps, Wake, Goto,
                      TypeOK, local
  <2> QED
    BY <2>1 DEF CallFits
<1>5. CASE TakeForAll(t) \/ Register(t)
  <2>1. pc[t] = "purge" /\ call' = call /\ NextEvent(t)
    BY <1>5 DEF TakeForAll, Register, Purged
  <2>2. pos[t] \in 1 .. Count(t) /\ Count(t) \in Nat
    BY <2>1, EventAtHand, CallFacts DEF Base
  <2>3. pc'[t] \in InMany /\ (pc'[t] = "finish" => pos[t] = Count(t) /\ call[t].time = "zero")
    BY <1>1, <2>1, <2>2 DEF NextEvent, Goto, TypeOK
  <2>4. pos[t] = Count(t) /\ call[t].time = "zero" => result'[t].code = "timeout"
    BY <1>1, <2>1 DEF NextEvent, TypeOK, Results
  <2> QED
    BY <2>1, <2>3, <2>4 DEF CallFits
<1>10. CASE ExpiredLock(t)
  <2>1. /\ pc[t] \in InMany /\ pc'[t] = "finish" /\ call' = call
        /\ result'[t].code = "timeout"
    BY <1>1, <1>10 DEF ExpiredLock, Goto, TypeOK, Results
  <2> QED
    BY <2>1 DEF CallFits
<1>6. CASE TakeForAny(t)
  <2>1. /\ pc[t] = "purge" /\ pc'[t] = "finish" /\ call' = call /\ own' = own
        /\ result'[t].code = "success" /\ ~call[t].all
    BY <1>1, <1>6 DEF TakeForAny, Purged, Goto, TypeOK, Results
  <2>2. /\ own[t] \in Waits /\ wfmo'[own[t]].WaitAll = wfmo[own[t]].WaitAll
        /\ wfmo'[own[t]].Status = pos[t] - 1 /\ pos[t] - 1 \in Nat
    BY <1>6, <2>1, TakeEffect, OwnRecord
  <2>3. wfmo[own[t]].WaitAll = call[t].all
    BY <2>2, EventsAssumption DEF Base, RecordsFollow
  <2>4. Done(wfmo'[own'[t]])
    BY <2>1, <2>2, <2>3 DEF Done, NotFired
  <2> QED
    BY <2>1, <2>4 DEF CallFits, Done
<1>7. CASE TestDone(t)
  <2>1. /\ pc[t] = "test" /\ pc'[t] = "finish" /\ call' = call /\ own' = own /\ wfmo' = wfmo
        /\ result'[t].code = "success" /\ Done(wfmo[own[t]])
    BY <1>1, <1>7 DEF TestDone, Goto, TypeOK, Results, shared
  <2> QED
    BY <2>1 DEF CallFits, Done
<1>8. CASE Call(t)
  <2>1. PICK c \in Menu[t] : \/ SetEvent(t, c) \/ ResetEvent(t, c)
                             \/ WaitForEvent(t, c) \/ WaitForMultipleEvents(t, c)
    BY <1>8 DEF Call
  <2>2. call'[t] = c /\ result'[t] = NoResult
    BY <1>1, <2>1 DEF SetEvent, ResetEvent, WaitForEvent, CallOne, WaitForMultipleEvents, TypeOK
  <2>3. \/ c.op = "set" /\ pc'[t] = "setLock"
        \/ c.op = "reset" /\ pc'[t] = "resetLock"
        \/ c.op = "wait" /\ pc'[t] = "waitLock"
        \/ c.op = "waitMany" /\ pc'[t] = "register"
    BY <1>1, <2>1 DEF SetEvent, ResetEvent, WaitForEvent, CallOne, WaitForMultipleEvents, Goto,
                      TypeOK
  <2> QED
    BY <2>2, <2>3 DEF CallFits
<1>9. CASE Clock(t)
  <2>1. /\ call' = call
        /\ \/ pc[t] = "waitAsleep" /\ pc'[t] \in {"waitExpired", "waitLock"}
           \/ pc[t] = "asleep" /\ pc'[t] \in {"expired", "woken"}
    BY <1>1, <1>9 DEF Clock, WaitExpires, Expires, SpuriousWakeup, Goto, TypeOK, local
  <2> QED
    BY <2>1 DEF CallFits
<1> QED
  BY <1>2, <1>3, <1>4, <1>5, <1>6, <1>7, <1>8, <1>9, <1>10 DEF Acts, Step, WaitManyStep

\* Every thread's call fits, at every step of every run.
LEMMA CallsFit == Spec => [](\A t \in Threads : CallFits(t))
<1> DEFINE Fits == \A t \in Threads : CallFits(t)
<1>1. Init => Fits
  BY DEF Init, CallFits, InSet, InWait, InMany, InScan, AfterScan
<1>2. IInv /\ Fits /\ [Next]_vars => Fits'
  <2> SUFFICES ASSUME IInv, Fits, [Next]_vars PROVE Fits'
    OBVIOUS
  <2>1. ASSUME NEW t \in Threads, Acts(t) PROVE Fits'
    BY <2>1, OthersFit, ActorFits DEF IInv
  <2>2. CASE UNCHANGED vars
    BY <2>2 DEF vars, shared, local, CallFits, Done
  <2> QED
    BY <2>1, <2>2 DEF Next, Acts
<1> QED
  BY <1>1, <1>2, Invariant, PTL DEF Spec

------------------------------------------------------------------------------
(* How a step looks to the abstract events.                                *)

\* The phase of the abstract call, by the location of the thread.
PhaseFollows(t) ==
  /\ pc[t] = "idle" => PhaseOf(t) = "out"
  /\ pc[t] = "resetLock" => PhaseOf(t) = "lowering"
  /\ pc[t] = "setLock" => PhaseOf(t) = "setting"
  /\ pc[t] = "notify" /\ RegisteredWaits[Event(t)] # <<>> => PhaseOf(t) = "setting"
  /\ pc[t] = "notify" /\ RegisteredWaits[Event(t)] = <<>> => PhaseOf(t) = "set"
  /\ pc[t] = "signalWaiter" /\ Event(t) \notin AutoReset => PhaseOf(t) = "setting"
  /\ pc[t] = "signalWaiter" /\ Event(t) \in AutoReset => PhaseOf(t) = "set"
  /\ pc[t] = "signalEvent" => PhaseOf(t) = "set"
  /\ pc[t] \in InWait \cup InMany => PhaseOf(t) = "waiting"

\* A thread is in the phase that its location tells.
LEMMA Phased == \A t \in Threads : PhaseFollows(t)
BY DEF PhaseFollows, PhaseOf, Setting, InWait, InMany, InScan, AfterScan

\* So it is after a step.
LEMMA PhasedAfter == (\A t \in Threads : PhaseFollows(t))'
BY Phased, PTL

\* The other calls stay in their phase.
LEMMA OthersPhase ==
  ASSUME Base, NEW t \in Threads, Acts(t), NEW u \in Threads \ {t}
  PROVE  PhaseOf(u)' = PhaseOf(u)
<1>1. /\ call'[u] = call[u] /\ Event(u)' = Event(u)
      /\ \/ pc'[u] = pc[u]
         \/ pc[u] = "asleep" /\ pc'[u] = "woken"
         \/ pc[u] = "waitAsleep" /\ pc'[u] = "waitLock"
  BY OthersLeftAside, OthersEvent DEF OthersAside, Base
<1>2. pc[u] = "notify" => RegisteredWaits'[Event(u)] = RegisteredWaits[Event(u)]
  BY DequesKept DEF HoldsEvent
<1>3. Setting(u)' <=> Setting(u)
  <2>1. PICK e : e = Event(u)
    OBVIOUS
  <2>2. Setting(u) <=> \/ pc[u] = "setLock"
                       \/ pc[u] = "notify" /\ RegisteredWaits[e] # <<>>
                       \/ pc[u] = "signalWaiter" /\ e \notin AutoReset
    BY <2>1 DEF Setting
  <2>3. Setting(u)' <=> \/ pc'[u] = "setLock"
                        \/ pc'[u] = "notify" /\ RegisteredWaits'[e] # <<>>
                        \/ pc'[u] = "signalWaiter" /\ e \notin AutoReset
    BY <1>1, <2>1 DEF Setting
  <2> QED
    BY <1>1, <1>2, <2>1, <2>2, <2>3
<1> QED
  BY <1>1, <1>3 DEF PhaseOf

\* What a thread has obtained stays if its record and its entries do.
LEMMA SameObtained ==
  ASSUME Base, NEW u \in Threads, own[u] \in Waits => pc[u] # "idle",
         UNCHANGED <<own[u], call[u], pos[u]>>,
         own[u] \in Waits =>
           /\ wfmo'[own[u]].Status = wfmo[own[u]].Status
           /\ call[u].all => \A e \in Events : IsRegistered(own[u], e)' <=> IsRegistered(own[u], e)
  PROVE  Obtained(u)' = Obtained(u)
<1>1. CASE own[u] = NoWait
  BY <1>1 DEF Obtained
<1>2. CASE own[u] # NoWait
  <2>1. own[u] \in Waits
    BY <1>2 DEF Base, TypeOK
  <2>2. /\ \A i \in 1 .. Count(u) : call[u].events[i] \in Events
        /\ Count(u)' = Count(u)
    BY <2>1, CallFacts DEF Base, Count
  <2>3. CASE ~call[u].all
    BY <1>2, <2>1, <2>3 DEF Obtained
  <2>4. CASE call[u].all
    <3>1. ASSUME NEW i \in 1 .. Count(u)
          PROVE  IsRegistered(own[u], call[u].events[i])'
                 <=> IsRegistered(own[u], call[u].events[i])
      <4>1. PICK e \in Events : e = call[u].events[i]
        BY <2>2
      <4>2. IsRegistered(own[u], e)' <=> IsRegistered(own[u], e)
        BY <2>1, <2>4
      <4> QED
        BY <4>1, <4>2 DEF IsRegistered
    <3>2. {j \in 1 .. Count(u) : j < pos[u] /\ ~IsRegistered(own[u], call[u].events[j])}'
          = {j \in 1 .. Count(u) : j < pos[u] /\ ~IsRegistered(own[u], call[u].events[j])}
      BY <2>2, <3>1
    <3> QED
      BY <1>2, <2>4, <3>2 DEF Obtained
  <2> QED
    BY <2>3, <2>4
<1> QED
  BY <1>1, <1>2

\* The others have obtained what they had, unless SetEvent serves a wait.
LEMMA OthersObtained ==
  ASSUME Base, NEW t \in Threads, Acts(t), NEW u \in Threads \ {t},
         ~NotifyWaiter(t) \/ own[u] # FrontWait(Event(t))
  PROVE  Obtained(u)' = Obtained(u)
<1>1. UNCHANGED <<own[u], call[u], pos[u]>>
  BY OthersLeftAside DEF OthersAside, Base
<1>2. own[u] \in Waits => pc[u] # "idle"
  BY EventsAssumption DEF Base, InCall, InMany, InScan, AfterScan
<1>3. CASE ~DropStep(t) \/ own[u] \notin Waits
  BY <1>1, <1>2, <1>3, OthersRecord, SameObtained
<1>4. CASE DropStep(t) /\ own[u] \in Waits
  <2>1. PICK n \in DOMAIN RegisteredWaits[Event(t)] : Drops(t, n)
    BY <1>4, DropStepDrops
  <2>2. CASE own[u] # RegisteredWaits[Event(t)][n].Waiter
    BY <1>1, <1>2, <1>4, <2>1, <2>2, OthersDropped, SameObtained
  <2>3. CASE own[u] = RegisteredWaits[Event(t)][n].Waiter
    <3>1. ~wfmo[own[u]].StillWaiting
      <4>1. CASE NotifyWaiter(t)
        <5>1. target'[t] = FrontWait(Event(t)) /\ pc'[t] = "signalWaiter" /\ pc[t] = "notify"
          BY <4>1 DEF NotifyWaiter, Goto, Base, TypeOK
        <5>2. wfmo[own[u]].StillWaiting => target'[t] = own[u]
          BY <2>1, <2>3 DEF Drops, Base, TypeOK
        <5> QED
          BY <4>1, <5>1, <5>2
      <4>2. CASE ~NotifyWaiter(t)
        <5>1. pc' = pc /\ pc[t] \in {"notify", "purge"}
          BY <1>4, <4>2 DEF DropStep, NotifyExpired, PurgeRemoves, Purging
        <5>2. wfmo[own[u]].StillWaiting => pc'[t] = "signalWaiter"
          BY <2>1, <2>3 DEF Drops, Base, TypeOK
        <5> QED
          BY <5>1, <5>2
      <4> QED
        BY <4>1, <4>2
    <3>2. wfmo'[own[u]].Status = wfmo[own[u]].Status
      BY <2>1, <2>3, <3>1, DropOwned
    <3>3. ~call[u].all
      BY <1>4, <3>1, EventsAssumption DEF Base, RecordsFollow
    <3> QED
      BY <1>1, <1>2, <3>2, <3>3, SameObtained
  <2> QED
    BY <2>2, <2>3
<1> QED
  BY <1>3, <1>4

\* Event e is signalled for the abstract events.
UpAt(e) ==
  /\ State[e] /\ RegisteredWaits[e] = <<>>
  /\ \A t \in Threads : pc[t] = "signalWaiter" => Event(t) # e

\* Other threads signal the waits they signalled.
LEMMA OthersSignal ==
  ASSUME Base, NEW t \in Threads, Acts(t), NEW u \in Threads \ {t}
  PROVE  /\ pc'[u] = "signalWaiter" <=> pc[u] = "signalWaiter"
         /\ Event(u)' = Event(u)
BY OthersLeftAside, OthersEvent DEF OthersAside, Base

\* A step changes at most whether its own event is signalled.
LEMMA UpElsewhere ==
  ASSUME Base, SignalsFollow, NEW t \in Threads, Acts(t), NEW e \in Events, e # Event(t)
  PROVE  UpAt(e)' <=> UpAt(e)
<1>1. State'[e] = State[e] /\ RegisteredWaits'[e] = RegisteredWaits[e]
  BY StatesKept, DequesKept
<1>2. pc'[t] = "signalWaiter" => Event(t)' = Event(t)
  BY SetterBefore DEF AtSetter
<1>3. \A u \in Threads \ {t} : /\ pc'[u] = "signalWaiter" <=> pc[u] = "signalWaiter"
                               /\ Event(u)' = Event(u)
  BY OthersSignal
<1>4. (\A u \in Threads : pc'[u] = "signalWaiter" => Event(u)' # e)
      <=> \A u \in Threads : pc[u] = "signalWaiter" => Event(u) # e
  BY <1>2, <1>3
<1> QED
  BY <1>1, <1>4 DEF UpAt

\* A step that leaves State and the deques and is none of signalling changes nothing.
LEMMA UpKept ==
  ASSUME Base, NEW t \in Threads, Acts(t), State' = State, RegisteredWaits' = RegisteredWaits,
         pc[t] # "signalWaiter", pc'[t] # "signalWaiter"
  PROVE  UpEvents' = UpEvents
<1>1. \A u \in Threads \ {t} : /\ pc'[u] = "signalWaiter" <=> pc[u] = "signalWaiter"
                               /\ Event(u)' = Event(u)
  BY OthersSignal
<1>2. ASSUME NEW e \in Events
      PROVE  (\A u \in Threads : pc'[u] = "signalWaiter" => Event(u)' # e)
             <=> \A u \in Threads : pc[u] = "signalWaiter" => Event(u) # e
  BY <1>1
<1> QED
  BY <1>2 DEF UpEvents

\* What a step does to the event whose mutex its thread holds or may take.
LEMMA UpHere ==
  ASSUME Base, SignalsFollow, NEW t \in Threads, Acts(t), NEW e \in Events, e = Event(t),
         eventMutex[e] = t \/ eventMutex[e] = Nobody
  PROVE  /\ State'[e] /\ RegisteredWaits'[e] = <<>> /\ pc'[t] # "signalWaiter" =>
              UpEvents' = UpEvents \cup {e}
         /\ ~State'[e] \/ RegisteredWaits'[e] # <<>> \/ pc'[t] = "signalWaiter" =>
              UpEvents' = UpEvents \ {e}
         /\ e \in UpEvents <=>
              State[e] /\ RegisteredWaits[e] = <<>> /\ pc[t] # "signalWaiter"
<1>1. \A u \in Threads \ {t} : pc[u] = "signalWaiter" => Event(u) # e
  BY EventsAssumption DEF Base, EventMutexHeld, HoldsEvent
<1>2. \A u \in Threads \ {t} : pc'[u] = "signalWaiter" => Event(u)' # e
  BY <1>1, OthersSignal
<1>3. UpAt(e) <=> State[e] /\ RegisteredWaits[e] = <<>> /\ pc[t] # "signalWaiter"
  BY <1>1 DEF UpAt
<1>4. UpAt(e)' <=> State'[e] /\ RegisteredWaits'[e] = <<>> /\ pc'[t] # "signalWaiter"
  <2>1. pc'[t] = "signalWaiter" => Event(t)' = e
    BY SetterBefore DEF AtSetter
  <2> QED
    BY <1>2, <2>1 DEF UpAt
<1>5. UpEvents = {d \in Events : UpAt(d)}
  BY DEF UpEvents, UpAt
<1>6. UpEvents' = {d \in Events : UpAt(d)'}
  BY DEF UpEvents, UpAt
<1>7. \A d \in Events \ {e} : UpAt(d)' <=> UpAt(d)
  BY UpElsewhere
<1> HIDE DEF UpAt
<1> QED
  BY <1>3, <1>4, <1>5, <1>6, <1>7

\* How the abstract calls change: only that of the thread that acts.
LEMMA Seen ==
  ASSUME Base, NEW t \in Threads, Acts(t)
  PROVE  /\ Phases[t] = PhaseOf(t) /\ Gains[t] = Obtained(t)
         /\ Phases' = [Phases EXCEPT ![t] = PhaseOf(t)']
         /\ PhaseOf(t)' = PhaseOf(t) => Phases' = Phases
         /\ pc[t] # "idle" /\ pc'[t] # "idle" => Outcomes' = Outcomes
         /\ pc'[t] = "idle" => Outcomes' = [Outcomes EXCEPT ![t] = result'[t]]
         /\ pc[t] = "idle" => Outcomes[t] = result[t]
         /\ pc[t] # "idle" => Outcomes[t] = NoResult
         /\ pc'[t] # "idle" => Outcomes' = [Outcomes EXCEPT ![t] = NoResult]
         /\ ~NotifyWaiter(t) => Gains' = [Gains EXCEPT ![t] = Obtained(t)']
         /\ ~NotifyWaiter(t) /\ Obtained(t)' = Obtained(t) => Gains' = Gains
<1>1. \A u \in Threads \ {t} : PhaseOf(u)' = PhaseOf(u)
  BY OthersPhase
<1>2. \A u \in Threads \ {t} :
        (IF pc'[u] = "idle" THEN result'[u] ELSE NoResult)
        = (IF pc[u] = "idle" THEN result[u] ELSE NoResult)
  BY OthersLeftAside DEF OthersAside, Base
<1>3. ~NotifyWaiter(t) => \A u \in Threads \ {t} : Obtained(u)' = Obtained(u)
  BY OthersObtained
<1>4. /\ Phases = [u \in Threads |-> PhaseOf(u)]
      /\ Phases' = [u \in Threads |-> PhaseOf(u)']
  BY DEF Phases
<1>5. /\ Gains = [u \in Threads |-> Obtained(u)]
      /\ Gains' = [u \in Threads |-> Obtained(u)']
  BY DEF Gains
<1>6. /\ Outcomes = [u \in Threads |-> IF pc[u] = "idle" THEN result[u] ELSE NoResult]
      /\ Outcomes' = [u \in Threads |-> IF pc'[u] = "idle" THEN result'[u] ELSE NoResult]
  BY DEF Outcomes
<1>7. /\ Phases[t] = PhaseOf(t) /\ Gains[t] = Obtained(t)
      /\ pc[t] = "idle" => Outcomes[t] = result[t]
      /\ pc[t] # "idle" => Outcomes[t] = NoResult
  BY <1>4, <1>5, <1>6
<1>8. /\ Phases' = [Phases EXCEPT ![t] = PhaseOf(t)']
      /\ PhaseOf(t)' = PhaseOf(t) => Phases' = Phases
  BY <1>1, <1>4
<1>9. /\ pc[t] # "idle" /\ pc'[t] # "idle" => Outcomes' = Outcomes
      /\ pc'[t] = "idle" => Outcomes' = [Outcomes EXCEPT ![t] = result'[t]]
      /\ pc'[t] # "idle" => Outcomes' = [Outcomes EXCEPT ![t] = NoResult]
  BY <1>2, <1>6
<1>10. /\ ~NotifyWaiter(t) => Gains' = [Gains EXCEPT ![t] = Obtained(t)']
       /\ ~NotifyWaiter(t) /\ Obtained(t)' = Obtained(t) => Gains' = Gains
  BY <1>3, <1>5
<1> QED
  BY <1>7, <1>8, <1>9, <1>10

------------------------------------------------------------------------------
(* Steps of SetEvent and ResetEvent.                                       *)

\* The abstract events do not change.
Unseen == UNCHANGED <<UpEvents, Phases, call, Gains, Outcomes>>

\* A thread that waits for at most one event has obtained nothing yet.
LEMMA NothingObtained ==
  ASSUME Base, NEW t \in Threads, pc[t] \notin InMany, own'[t] = own[t]
  PROVE  own[t] = NoWait /\ pos[t] = 1 /\ Obtained(t) = {} /\ Obtained(t)' = {}
<1>1. own[t] = NoWait /\ pos[t] = 1
  BY DEF Base, InCall
<1> QED
  BY <1>1 DEF Obtained

\* A step that leaves the thread with its event, State and deques is not seen.
LEMMA QuietStep ==
  ASSUME Base, NEW t \in Threads, Acts(t),
         UNCHANGED <<State, RegisteredWaits, wfmo, own, call, pos>>,
         pc[t] \notin {"idle", "signalWaiter"}, pc'[t] \notin {"idle", "signalWaiter"},
         PhaseOf(t)' = PhaseOf(t)
  PROVE  Unseen
<1>1. ~NotifyWaiter(t)
  BY DEF NotifyWaiter, Goto, Base, TypeOK
<1>2. Obtained(t)' = Obtained(t)
  BY SameObtained DEF IsRegistered
<1> QED
  BY <1>1, <1>2, UpKept, Seen DEF Unseen

\* SetEvent on its way to the next wait in the deque: when no wait is left, this is the
\* step that leaves the event signalled.
LEMMA SetGoesOn ==
  ASSUME Base, SignalsFollow, NEW t \in Threads, Acts(t), NEW e \in Events, e = Event(t),
         eventMutex[e] = t \/ eventMutex[e] = Nobody,
         pc[t] \in InSet, PhaseOf(t) = "setting",
         pc'[t] = "notify", State'[e], UNCHANGED <<call, pos, own>>,
         e \in UpEvents => RegisteredWaits'[e] = <<>>
  PROVE  Promise!Raise(t) \/ Unseen
<1>1. ~NotifyWaiter(t)
  BY DEF NotifyWaiter, Goto, Base, TypeOK
<1>2. Gains' = Gains /\ Outcomes' = Outcomes /\ call[t].events[1] = e
  BY <1>1, NothingObtained, Seen DEF Event, InSet, InMany, InScan, AfterScan
<1>3. Event(t)' = e
  BY DEF Event
<1>4. PhaseFollows(t)'
  BY PhasedAfter
<1>5. CASE RegisteredWaits'[e] = <<>>
  <2>1. UpEvents' = UpEvents \cup {e}
    BY <1>5, UpHere
  <2>2. PhaseOf(t)' = "set"
    BY <1>3, <1>4, <1>5 DEF PhaseFollows
  <2> QED
    BY <1>2, <2>1, <2>2, Seen DEF Promise!Raise
<1>6. CASE RegisteredWaits'[e] # <<>>
  <2>1. UpEvents' = UpEvents
    <3>1. UpEvents' = UpEvents \ {e} /\ e \notin UpEvents
      BY <1>6, UpHere
    <3> QED
      BY <3>1
  <2>2. PhaseOf(t)' = "setting"
    BY <1>3, <1>4, <1>6 DEF PhaseFollows
  <2> QED
    BY <1>2, <2>1, <2>2, Seen DEF Unseen
<1> QED
  BY <1>5, <1>6

\* The front entry of the deque is the one that SetEvent erases.
LEMMA FrontDrops ==
  ASSUME Base, NEW t \in Threads, NotifyWaiter(t)
  PROVE  /\ Drops(t, 1) /\ Event(t) \in Events
         /\ 1 \in DOMAIN RegisteredWaits[Event(t)]
         /\ RegisteredWaits[Event(t)][1] = Head(RegisteredWaits[Event(t)])
         /\ RegisteredWaits[Event(t)][1] \in ToSet(RegisteredWaits[Event(t)])
         /\ RegisteredWaits[Event(t)][1] \in WaitInfos
<1> DEFINE s == RegisteredWaits[Event(t)]
<1>1. Event(t) \in Events
  BY EventAtHand DEF Base, NotifyWaiter, InOne, InSet
<1>2. s \in Seq(WaitInfos) /\ s # <<>>
  BY <1>1 DEF Base, TypeOK, NotifyWaiter
<1>3. /\ 1 \in DOMAIN s /\ Head(s) = s[1] /\ Tail(s) = RemoveAt(s, 1)
      /\ s[1] \in ToSet(s) /\ s[1] \in WaitInfos
  BY <1>2, PopIsRemoval, ElementType DEF ToSet
<1>4. RegisteredWaits' = [RegisteredWaits EXCEPT ![Event(t)] = RemoveAt(s, 1)]
  BY <1>3 DEF NotifyWaiter, PopFront
<1>5. FrontWait(Event(t)) = s[1].Waiter /\ FrontIndex(Event(t)) = s[1].WaitIndex
  BY <1>3 DEF FrontWait, FrontIndex
<1>6. Drops(t, 1)
  BY <1>3, <1>4, <1>5 DEF Drops, NotifyWaiter, Goto, Consume
<1> QED
  BY <1>1, <1>3, <1>6

\* The positions whose events a wait for all has obtained.
Had(t) ==
  {j \in 1 .. Count(t) : j < pos[t] /\ ~IsRegistered(own[t], call[t].events[j])}

\* SetEvent serves a wait that can still use the event, and gives it this event only.
LEMMA ServedWait ==
  ASSUME Base, NEW t \in Threads, Acts(t), NotifyWaiter(t), NEW e \in Events, e = Event(t)
  PROVE  \E u \in Threads \ {t} :
           /\ own[u] = FrontWait(e) /\ own[u] \in Waits /\ pc[u] \in InMany
           /\ \E j \in 1 .. Count(u) : call[u].events[j] = e
           /\ e \notin Obtained(u) /\ (~call[u].all => Obtained(u) = {})
           /\ Obtained(u)' = Obtained(u) \cup {e}
<1> DEFINE x == RegisteredWaits[e][1]
           w == x.Waiter
           k == x.WaitIndex + 1
<1>1. /\ Drops(t, 1) /\ x \in ToSet(RegisteredWaits[e]) /\ x \in WaitInfos
      /\ w = FrontWait(e) /\ 1 \in DOMAIN RegisteredWaits[e]
  BY FrontDrops DEF FrontWait
<1>2. w \in Waits /\ x.WaitIndex \in Nat /\ IsRegistered(w, e)
  BY <1>1 DEF WaitInfos, IsRegistered
<1>3. wfmo[w].StillWaiting /\ waiterMutex[w] = Nobody
  BY <1>1 DEF NotifyWaiter
<1>4. PICK u \in Threads : own[u] = w
  BY <1>2, <1>3 DEF Base, RecordsFollow
<1>5. /\ own[u] \in Waits /\ own[u] # NoWait /\ ~HoldsWaiter(u) /\ u # t
      /\ wfmo'[w].Status = IF wfmo[w].WaitAll THEN wfmo[w].Status - 1 ELSE x.WaitIndex
  BY <1>1, <1>2, <1>3, <1>4, DropOwned, EventsAssumption
<1>6. pc[u] \in AfterScan /\ pc[u] \in InMany /\ pos[u] = Count(u) + 1
  BY <1>5 DEF Base, InCall, InMany, InScan, AfterScan, HoldsWaiter
<1>7. k \in 1 .. Count(u) /\ k < pos[u] /\ call[u].events[k] = e
  BY <1>1, <1>4 DEF Base, EntriesFollow
<1>8. /\ Count(u) \in Nat
      /\ \A i \in 1 .. Count(u) : call[u].events[i] \in Events
      /\ \A i, j \in 1 .. Count(u) : call[u].events[i] = call[u].events[j] => i = j
  BY <1>6, CallFacts DEF Base, InMany, InScan, AfterScan
<1>9. UNCHANGED <<own, call, pos>> /\ Count(u)' = Count(u)
  BY <1>1 DEF Drops, Count
<1>10. wfmo[w].WaitAll = call[u].all
  BY <1>4, <1>5 DEF Base, RecordsFollow
<1> HIDE DEF x
<1>11. CASE call[u].all
  <2>1. Obtained(u) = {call[u].events[j] : j \in Had(u)}
    BY <1>5, <1>11 DEF Obtained, Had
  <2>2. Obtained(u)' = {call[u].events[j] : j \in Had(u)'}
    BY <1>5, <1>9, <1>11 DEF Obtained, Had
  <2>3. Had(u)' = Had(u) \cup {k} /\ k \notin Had(u)
    <3>1. Had(u) = {j \in 1 .. Count(u) : j < pos[u] /\ ~IsRegistered(w, call[u].events[j])}
      BY <1>4 DEF Had
    <3>2. Had(u)' = {j \in 1 .. Count(u) : /\ j < pos[u]
                                           /\ \/ ~IsRegistered(w, call[u].events[j])
                                              \/ j = k}
      <4>1. ASSUME NEW j \in 1 .. Count(u)
            PROVE  IsRegistered(own[u], call[u].events[j])'
                   <=> IsRegistered(w, call[u].events[j]) /\ j # k
        <5>1. PICK d \in Events, v \in Waits : d = call[u].events[j] /\ v = w
          BY <1>2, <1>8
        <5>2. IsRegistered(v, d)' <=> IsRegistered(v, d) /\ d # e
          <6>1. v = RegisteredWaits[Event(t)][1].Waiter
            BY <5>1 DEF x
          <6> QED
            BY <1>1, <6>1, DropRegistrations
        <5>3. d # e <=> j # k
          BY <1>7, <1>8, <5>1
        <5>4. IsRegistered(own[u], call[u].events[j])' <=> IsRegistered(v, d)'
          BY <1>4, <1>9, <5>1 DEF IsRegistered
        <5> QED
          BY <5>1, <5>2, <5>3, <5>4
      <4> QED
        BY <1>9, <4>1 DEF Had
    <3> QED
      BY <1>2, <1>7, <3>1, <3>2
  <2>4. e \notin Obtained(u)
    BY <1>7, <1>8, <2>1, <2>3 DEF Had
  <2>5. Obtained(u)' = Obtained(u) \cup {e}
    BY <1>7, <2>1, <2>2, <2>3
  <2> QED
    BY <1>1, <1>4, <1>5, <1>6, <1>7, <1>11, <2>4, <2>5
<1>12. CASE ~call[u].all
  <2>1. Obtained(u) = {}
    <3>1. wfmo[w].Status = NotFired
      BY <1>3, <1>4, <1>5, <1>6, <1>12 DEF Base, RecordsFollow, AfterScan
    <3> QED
      BY <1>4, <1>5, <1>12, <3>1 DEF Obtained
  <2>2. Obtained(u)' = {e}
    <3>1. wfmo'[own[u]].Status = x.WaitIndex
      BY <1>4, <1>5, <1>10, <1>12
    <3>2. x.WaitIndex # NotFired
      BY <1>2 DEF NotFired
    <3> QED
      BY <1>5, <1>7, <1>9, <1>12, <3>1, <3>2 DEF Obtained
  <2> QED
    BY <1>1, <1>4, <1>5, <1>6, <1>7, <2>1, <2>2
<1> QED
  BY <1>11, <1>12

\* SetEvent hands the signal to a wait.
LEMMA NotifyHands ==
  ASSUME Base, SignalsFollow, NEW t \in Threads, Acts(t), NotifyWaiter(t)
  PROVE  Promise!Hand(t)
<1> DEFINE e == Event(t)
<1>1. /\ e \in Events /\ pc[t] = "notify" /\ pc'[t] = "signalWaiter"
      /\ RegisteredWaits[e] # <<>> /\ UNCHANGED <<call, pos, own>>
  BY FrontDrops DEF NotifyWaiter, Goto, Base, TypeOK
<1>2. eventMutex[e] = t
  BY <1>1 DEF Base, EventMutexHeld, HoldsEvent
<1>3. call[t].events[1] = e /\ e' = e /\ Obtained(t)' = Obtained(t)
  BY <1>1, NothingObtained DEF Event, InMany, InScan, AfterScan
<1>4. PhaseOf(t) = "setting"
  BY <1>1, Phased DEF PhaseFollows
<1>5. PhaseOf(t)' = IF e \in AutoReset THEN "set" ELSE "setting"
  <2>1. PhaseFollows(t)'
    BY PhasedAfter
  <2> QED
    BY <1>1, <1>3, <2>1 DEF PhaseFollows
<1> HIDE DEF e
<1>6. UpEvents' = UpEvents
  <2>1. UpEvents' = UpEvents \ {e} /\ e \notin UpEvents
    BY <1>1, <1>2, UpHere DEF e
  <2> QED
    BY <2>1
<1>7. PICK u \in Threads \ {t} :
        /\ own[u] = FrontWait(e) /\ own[u] \in Waits /\ pc[u] \in InMany
        /\ \E j \in 1 .. Count(u) : call[u].events[j] = e
        /\ e \notin Obtained(u) /\ (~call[u].all => Obtained(u) = {})
        /\ Obtained(u)' = Obtained(u) \cup {e}
  BY <1>1, ServedWait DEF e
<1>8. Promise!Wants(u, e)
  <2>1. Phases[u] = "waiting" /\ Gains[u] = Obtained(u)
    BY <1>7, Phased DEF PhaseFollows, Phases, Gains
  <2>2. DOMAIN call[u].events = 1 .. Count(u)
    BY <1>7, CallFacts DEF Base, InMany, InScan, AfterScan
  <2> QED
    BY <1>7, <2>1, <2>2 DEF Promise!Wants, Promise!Wanted
<1>9. Gains' = [Gains EXCEPT ![u] = @ \cup {e}]
  <2>1. ASSUME NEW v \in Threads \ {u} PROVE Obtained(v)' = Obtained(v)
    <3>1. CASE v = t
      BY <1>3, <3>1
    <3>2. CASE v # t
      <4>1. own[v] # FrontWait(e)
        BY <1>7, <2>1, EventsAssumption DEF Base, OwnersDiffer
      <4> QED
        BY <3>2, <4>1, OthersObtained DEF e
    <3> QED
      BY <3>1, <3>2
  <2> QED
    BY <1>7, <2>1 DEF Gains
<1>10. /\ Phases' = [Phases EXCEPT ![t] = IF e \in AutoReset THEN "set" ELSE @]
       /\ Phases[t] = "setting" /\ Outcomes' = Outcomes
  BY <1>1, <1>4, <1>5, Seen
<1> QED
  BY <1>1, <1>3, <1>6, <1>8, <1>9, <1>10 DEF Promise!Hand

\* A call that has nothing to report leaves the library.
LEMMA SetEnds ==
  ASSUME Base, NEW t \in Threads, Acts(t), CallFits(t), pc[t] \in InSet, PhaseOf(t) = "set",
         pc'[t] = "idle", call' = [call EXCEPT ![t] = NoCall],
         UNCHANGED <<own, result>>, UpEvents' = UpEvents
  PROVE  Promise!EndSet(t)
<1>1. ~NotifyWaiter(t)
  BY DEF NotifyWaiter, Goto, Base, TypeOK
<1>2. Gains' = Gains
  BY <1>1, NothingObtained, Seen DEF InSet, InMany, InScan, AfterScan
<1>3. Outcomes' = Outcomes
  <2>1. pc[t] # "idle" /\ result[t] = NoResult
    BY DEF CallFits, InSet
  <2>2. Outcomes \in [Threads -> {Outcomes[u] : u \in Threads}]
    BY DEF Outcomes
  <2> QED
    BY <2>1, <2>2, Seen
<1>4. Phases[t] = "set" /\ Phases' = [Phases EXCEPT ![t] = "out"]
  <2>1. PhaseFollows(t)'
    BY PhasedAfter
  <2>2. PhaseOf(t)' = "out"
    BY <2>1 DEF PhaseFollows
  <2> QED
    BY <2>2, Seen
<1> QED
  BY <1>2, <1>3, <1>4 DEF Promise!EndSet, Promise!End, NoCall

\* Every step of SetEvent hands on the signal, leaves the event signalled, ends the
\* abstract call, or is not seen.
LEMMA SetKeepsPromise ==
  ASSUME Base, SignalsFollow, NEW t \in Threads, CallFits(t), SetStep(t)
  PROVE  Promise!Hand(t) \/ Promise!Raise(t) \/ Promise!EndSet(t) \/ Unseen
<1> DEFINE e == Event(t)
<1>1. TypeOK /\ Acts(t)
  BY DEF Base, Acts, Step
<1>2. pc[t] \in InSet
  BY DEF SetStep, SetLock, NotifyExpired, NotifyWaiter, SignalWaiter, NotifyNone, SignalEvent,
         InSet
<1>3. e \in Events /\ State \in [Events -> BOOLEAN]
  BY <1>1, <1>2, EventAtHand DEF Base, InOne, TypeOK
<1>4. pc[t] \in {"notify", "signalWaiter"} => eventMutex[e] = t
  BY <1>3 DEF Base, EventMutexHeld, HoldsEvent
<1>5. PhaseFollows(t)
  BY Phased
<1> HIDE DEF e
<1>6. CASE SetLock(t)
  <2>1. /\ pc[t] = "setLock" /\ pc'[t] = "notify" /\ State'[e] /\ eventMutex[e] = Nobody
        /\ UNCHANGED <<call, pos, own, RegisteredWaits>>
    BY <1>1, <1>3, <1>6 DEF SetLock, LockEvent, Goto, TypeOK, local, e
  <2>2. PhaseOf(t) = "setting"
    BY <1>5, <2>1 DEF PhaseFollows
  <2>3. e \in UpEvents => RegisteredWaits'[e] = <<>>
    BY <2>1 DEF UpEvents
  <2> QED
    BY <1>1, <1>2, <1>3, <2>1, <2>2, <2>3, SetGoesOn DEF e
<1>7. CASE NotifyExpired(t)
  <2>1. /\ pc[t] = "notify" /\ pc'[t] = "notify" /\ State' = State
        /\ RegisteredWaits[e] # <<>> /\ UNCHANGED <<call, pos, own>>
    BY <1>7 DEF NotifyExpired, local, e
  <2>2. PhaseOf(t) = "setting" /\ State[e]
    BY <1>5, <2>1 DEF PhaseFollows, SignalsFollow, e
  <2>3. e \notin UpEvents
    BY <2>1 DEF UpEvents
  <2> QED
    BY <1>1, <1>2, <1>3, <1>4, <2>1, <2>2, <2>3, SetGoesOn DEF e
<1>8. CASE NotifyWaiter(t)
  BY <1>1, <1>8, NotifyHands
<1>9. CASE SignalWaiter(t) /\ e \notin AutoReset
  <2>1. /\ pc[t] = "signalWaiter" /\ pc'[t] = "notify" /\ State' = State
        /\ UNCHANGED <<pos, own>> /\ call' = [call EXCEPT ![t] = call[t]]
    BY <1>1, <1>9 DEF SignalWaiter, GotoWaking, TypeOK, e
  <2>2. PhaseOf(t) = "setting" /\ State[e]
    BY <1>5, <1>9, <2>1 DEF PhaseFollows, SignalsFollow, e
  <2>3. e \notin UpEvents /\ call' = call
    BY <1>1, <2>1 DEF UpEvents, TypeOK, e
  <2> QED
    BY <1>1, <1>2, <1>3, <1>4, <2>1, <2>2, <2>3, SetGoesOn DEF e
<1>10. CASE SignalWaiter(t) /\ e \in AutoReset
  <2>1. /\ pc[t] = "signalWaiter" /\ pc'[t] = "idle" /\ State' = State
        /\ UNCHANGED <<own, result>> /\ call' = [call EXCEPT ![t] = NoCall]
    BY <1>1, <1>10 DEF SignalWaiter, GotoWaking, TypeOK, e
  <2>2. PhaseOf(t) = "set" /\ ~State[e]
    BY <1>5, <1>10, <2>1 DEF PhaseFollows, SignalsFollow, e
  <2>3. UpEvents' = UpEvents
    <3>1. UpEvents' = UpEvents \ {e} /\ e \notin UpEvents
      BY <1>1, <1>3, <1>4, <2>1, <2>2, UpHere DEF e
    <3> QED
      BY <3>1
  <2> QED
    BY <1>1, <1>2, <2>1, <2>2, <2>3, SetEnds
<1>11. CASE NotifyNone(t)
  <2>1. pc[t] = "notify" /\ State[e] /\ RegisteredWaits[e] = <<>>
    BY <1>11 DEF NotifyNone, SignalsFollow, e
  <2>2. /\ pc'[t] = "signalEvent"
        /\ UNCHANGED <<State, RegisteredWaits, wfmo, own, call, pos>>
    BY <1>1, <1>11, <2>1 DEF NotifyNone, Goto, TypeOK, local, e
  <2>3. PhaseOf(t) = "set" /\ PhaseOf(t)' = "set"
    <3>1. PhaseFollows(t)'
      BY PhasedAfter
    <3> QED
      BY <1>5, <2>1, <2>2, <3>1 DEF PhaseFollows, e
  <2> QED
    BY <1>1, <2>1, <2>2, <2>3, QuietStep
<1>12. CASE SignalEvent(t)
  <2>1. /\ pc[t] = "signalEvent" /\ pc'[t] = "idle"
        /\ UNCHANGED <<State, RegisteredWaits, own, result>>
        /\ call' = [call EXCEPT ![t] = NoCall]
    BY <1>1, <1>12 DEF SignalEvent, GotoWaking, TypeOK, shared
  <2>2. PhaseOf(t) = "set" /\ UpEvents' = UpEvents
    BY <1>1, <1>5, <2>1, UpKept DEF PhaseFollows
  <2> QED
    BY <1>1, <1>2, <2>1, <2>2, SetEnds
<1> QED
  BY <1>6, <1>7, <1>8, <1>9, <1>10, <1>11, <1>12 DEF SetStep

\* ResetEvent lowers the event.
LEMMA ResetLowers ==
  ASSUME Base, SignalsFollow, NEW t \in Threads, CallFits(t), Reset(t)
  PROVE  Promise!Lower(t)
<1>1. TypeOK /\ Acts(t) /\ pc[t] = "resetLock" /\ PhaseFollows(t)
  BY Phased DEF Base, Acts, Step, Reset
<1>2. PICK e \in Events : e = Event(t)
  BY <1>1, EventAtHand DEF Base, InOne
<1>3. /\ pc'[t] = "idle" /\ ~State'[e] /\ eventMutex[e] = Nobody
      /\ UNCHANGED <<own, result>> /\ call' = [call EXCEPT ![t] = NoCall]
  BY <1>1, <1>2 DEF Reset, WithEvent, Goto, TypeOK
<1>4. ~NotifyWaiter(t)
  BY <1>1 DEF NotifyWaiter
<1>5. Gains' = Gains /\ call[t].events[1] = e
  BY <1>1, <1>2, <1>3, <1>4, NothingObtained, Seen DEF Event, InMany, InScan, AfterScan
<1>6. Outcomes' = Outcomes
  <2>1. result[t] = NoResult
    BY <1>1 DEF CallFits
  <2>2. Outcomes \in [Threads -> {Outcomes[u] : u \in Threads}]
    BY DEF Outcomes
  <2> QED
    BY <1>1, <1>3, <2>1, <2>2, Seen
<1>7. Phases[t] = "lowering" /\ Phases' = [Phases EXCEPT ![t] = "out"]
  <2>1. PhaseFollows(t)'
    BY PhasedAfter
  <2>2. PhaseOf(t)' = "out" /\ PhaseOf(t) = "lowering"
    BY <1>1, <1>3, <2>1 DEF PhaseFollows
  <2> QED
    BY <1>1, <2>2, Seen
<1>8. UpEvents' = UpEvents \ {e}
  BY <1>1, <1>2, <1>3, UpHere
<1> QED
  BY <1>3, <1>5, <1>6, <1>7, <1>8 DEF Promise!Lower, Promise!End, NoCall

------------------------------------------------------------------------------
(* Steps of the waits.                                                     *)

\* A wait that takes an event takes it from the abstract ones.
LEMMA Consumed ==
  ASSUME Base, SignalsFollow, NEW t \in Threads, Acts(t), NEW e \in Events, e = Event(t),
         eventMutex[e] = Nobody \/ (eventMutex[e] = t /\ pc[t] = "purge"),
         State[e], Consume(e), RegisteredWaits' = RegisteredWaits,
         pc[t] # "signalWaiter", pc'[t] # "signalWaiter"
  PROVE  e \in UpEvents /\ UpEvents' = Promise!AfterTaking(e)
<1>1. RegisteredWaits[e] = <<>>
  <2>1. ~SetterHolds(e)
    BY EventsAssumption DEF SetterHolds, Base, EventMutexHeld, HoldsEvent
  <2> QED
    BY <2>1 DEF SignalsFollow
<1>2. e \in UpEvents
  BY <1>1, UpHere
<1>3. State'[e] <=> e \notin AutoReset
  BY DEF Consume, Base, TypeOK
<1>4. /\ e \notin AutoReset => UpEvents' = UpEvents \cup {e}
      /\ e \in AutoReset => UpEvents' = UpEvents \ {e}
  BY <1>1, <1>3, UpHere
<1>5. e \notin AutoReset => UpEvents' = UpEvents
  BY <1>2, <1>4
<1> QED
  BY <1>2, <1>4, <1>5 DEF Promise!AfterTaking

\* What WaitForEvent returns, the abstract wait returns.
LEMMA WaitReturns ==
  ASSUME Base, NEW t \in Threads, Acts(t), pc[t] \in InWait, NEW code,
         ReturnFromWait(t, code)
  PROVE  /\ Phases[t] = "waiting" /\ Phases' = [Phases EXCEPT ![t] = "out"]
         /\ call' = [call EXCEPT ![t] = NoCall]
         /\ Gains[t] = {} /\ Gains' = Gains /\ Gains' = [Gains EXCEPT ![t] = {}]
         /\ Outcomes' = [Outcomes EXCEPT ![t] = [code |-> code, index |-> -1]]
         /\ pc'[t] = "idle" /\ RegisteredWaits' = RegisteredWaits
<1>1. /\ pc'[t] = "idle" /\ own'[t] = own[t] /\ ~NotifyWaiter(t)
      /\ result'[t] = [code |-> code, index |-> -1]
  BY DEF ReturnFromWait, Goto, Base, TypeOK, NotifyWaiter, InWait, NotFired
<1>2. PhaseFollows(t) /\ PhaseFollows(t)'
  BY Phased, PhasedAfter
<1>3. PhaseOf(t) = "waiting" /\ PhaseOf(t)' = "out"
  BY <1>1, <1>2 DEF PhaseFollows
<1>4. Gains[t] = {} /\ Gains' = Gains
  BY <1>1, NothingObtained, Seen DEF InWait, InMany, InScan, AfterScan
<1>5. Gains \in [Threads -> {Gains[u] : u \in Threads}]
  BY DEF Gains
<1> QED
  BY <1>1, <1>3, <1>4, <1>5, Seen DEF ReturnFromWait

\* Every step of WaitForEvent but falling asleep ends the abstract wait.
LEMMA WaitKeepsPromise ==
  ASSUME Base, SignalsFollow, NEW t \in Threads, CallFits(t), WaitStep(t)
  PROVE  Promise!Return(t) \/ Promise!TakeAndReturn(t) \/ Unseen
<1>1. /\ TypeOK /\ Acts(t) /\ pc[t] \in InWait /\ call[t].op = "wait"
      /\ Len(call[t].events) \in Nat /\ DOMAIN call[t].events = 1 .. Len(call[t].events)
      /\ Len(call[t].events) # 0
  <2>1. Acts(t) /\ pc[t] \in InWait
    BY DEF Acts, Step, WaitStep, WaitFindsBusy, WaitTakes, WaitFindsUnset, WaitSleeps,
           WaitGivesUp, InWait
  <2> QED
    BY <2>1, CallFacts DEF Base, CallFits, Count, InWait
<1>2. PICK e \in Events : e = Event(t)
  BY <1>1, EventAtHand DEF Base, InOne
<1>3. CASE WaitFindsBusy(t) \/ WaitFindsUnset(t) \/ WaitGivesUp(t)
  <2>1. ReturnFromWait(t, "timeout") /\ State' = State
    BY <1>3 DEF WaitFindsBusy, WaitFindsUnset, WaitGivesUp
  <2>2. /\ Phases[t] = "waiting" /\ Phases' = [Phases EXCEPT ![t] = "out"]
        /\ call' = [call EXCEPT ![t] = NoCall]
        /\ Gains' = [Gains EXCEPT ![t] = {}]
        /\ Outcomes' = [Outcomes EXCEPT ![t] = [code |-> "timeout", index |-> -1]]
        /\ pc'[t] = "idle" /\ RegisteredWaits' = RegisteredWaits
    BY <1>1, <2>1, WaitReturns
  <2>3. UpEvents' = UpEvents
    BY <1>1, <2>1, <2>2, UpKept DEF InWait
  <2>4. -1 \in -1 .. Len(call[t].events)
    BY <1>1
  <2>5. Promise!End(t)
    BY <2>2 DEF Promise!End, NoCall
  <2> QED
    BY <2>2, <2>3, <2>4, <2>5 DEF Promise!Return
<1>4. CASE WaitTakes(t)
  <2>1. /\ ReturnFromWait(t, "success") /\ State[e] /\ Consume(e) /\ eventMutex[e] = Nobody
    BY <1>2, <1>4 DEF WaitTakes, WithEvent
  <2>2. /\ Phases[t] = "waiting" /\ Phases' = [Phases EXCEPT ![t] = "out"]
        /\ call' = [call EXCEPT ![t] = NoCall]
        /\ Gains[t] = {} /\ Gains' = Gains
        /\ Outcomes' = [Outcomes EXCEPT ![t] = [code |-> "success", index |-> -1]]
        /\ pc'[t] = "idle" /\ RegisteredWaits' = RegisteredWaits
    BY <1>1, <2>1, WaitReturns
  <2>3. e \in UpEvents /\ UpEvents' = Promise!AfterTaking(e)
    BY <1>1, <1>2, <2>1, <2>2, Consumed DEF InWait
  <2>4. Promise!Wants(t, e)
    <3>1. call[t].events[1] = e /\ 1 \in DOMAIN call[t].events
      BY <1>1, <1>2 DEF Event, Base, InCall, InWait, InMany, InScan, AfterScan
    <3> QED
      BY <2>2, <3>1 DEF Promise!Wants, Promise!Wanted
  <2> QED
    BY <1>1, <2>2, <2>3, <2>4 DEF Promise!TakeAndReturn, Promise!End, NoCall
<1>5. CASE WaitSleeps(t)
  <2>1. /\ pc[t] = "waitLock" /\ pc'[t] = "waitAsleep"
        /\ UNCHANGED <<State, RegisteredWaits, wfmo, own, call, pos>>
    BY <1>1, <1>5 DEF WaitSleeps, Goto, TypeOK, local
  <2>2. PhaseFollows(t) /\ PhaseFollows(t)'
    BY Phased, PhasedAfter
  <2>3. PhaseOf(t)' = PhaseOf(t)
    BY <2>1, <2>2 DEF PhaseFollows, InWait
  <2> QED
    BY <1>1, <2>1, <2>3, QuietStep
<1> QED
  BY <1>3, <1>4, <1>5 DEF WaitStep

\* What a thread has at hand while it holds the mutexes of its record and of an event.
LEMMA AtPurge ==
  ASSUME Base, SignalsFollow, NEW t \in Threads, CallFits(t), pc[t] = "purge", NEW e, e = Event(t)
  PROVE  /\ e \in Events /\ eventMutex[e] = t /\ ~NotifyWaiter(t)
         /\ (State[e] => RegisteredWaits[e] = <<>>)
         /\ own[t] \in Waits /\ own[t] # NoWait /\ call[t].op = "waitMany"
         /\ call[t].all \in BOOLEAN
         /\ Count(t) \in Nat /\ pos[t] \in 1 .. Count(t) /\ call[t].events[pos[t]] = e
         /\ DOMAIN call[t].events = 1 .. Count(t)
         /\ \A j \in 1 .. Count(t) : call[t].events[j] \in Events
         /\ \A j \in 1 .. Count(t) : call[t].events[j] = e => j = pos[t]
         /\ wfmo[own[t]].StillWaiting /\ wfmo[own[t]].WaitAll = call[t].all
         /\ ~call[t].all => wfmo[own[t]].Status = NotFired
<1>1. e \in Events /\ pos[t] \in 1 .. Count(t)
  BY EventAtHand DEF Base, InScan
<1>2. eventMutex[e] = t
  BY <1>1 DEF Base, EventMutexHeld, HoldsEvent
<1>3. State[e] => RegisteredWaits[e] = <<>>
  BY <1>1, <1>2, EventsAssumption DEF SignalsFollow, SetterHolds, Base, EventMutexHeld, HoldsEvent
<1>4. own[t] \in Waits /\ own[t] # NoWait
  BY EventsAssumption DEF Base, InCall, InMany, InScan
<1>5. /\ call[t].all \in BOOLEAN /\ Count(t) \in Nat
      /\ DOMAIN call[t].events = 1 .. Count(t)
      /\ \A j \in 1 .. Count(t) : call[t].events[j] \in Events
      /\ \A i, j \in 1 .. Count(t) : call[t].events[i] = call[t].events[j] => i = j
  BY CallFacts DEF Base
<1>6. /\ wfmo[own[t]].StillWaiting /\ wfmo[own[t]].WaitAll = call[t].all
      /\ ~call[t].all => wfmo[own[t]].Status = NotFired
  BY <1>4 DEF Base, RecordsFollow, InScan
<1>7. call[t].op = "waitMany" /\ ~NotifyWaiter(t)
  BY DEF CallFits, InMany, InScan, NotifyWaiter
<1>8. call[t].events[pos[t]] = e
  BY DEF Event
<1> QED
  BY <1>1, <1>2, <1>3, <1>4, <1>5, <1>6, <1>7, <1>8

\* What a wait has obtained, by what it waits for.
LEMMA ObtainedIs == \A t \in Threads :
  own[t] # NoWait =>
    /\ call[t].all => Obtained(t) = {call[t].events[j] : j \in Had(t)}
    /\ ~call[t].all /\ wfmo[own[t]].Status = NotFired => Obtained(t) = {}
    /\ ~call[t].all /\ wfmo[own[t]].Status # NotFired =>
         Obtained(t) = {call[t].events[wfmo[own[t]].Status + 1]}
BY DEF Obtained, Had

\* So it is after a step.
LEMMA ObtainedAfter == (\A t \in Threads :
  own[t] # NoWait =>
    /\ call[t].all => Obtained(t) = {call[t].events[j] : j \in Had(t)}
    /\ ~call[t].all /\ wfmo[own[t]].Status = NotFired => Obtained(t) = {}
    /\ ~call[t].all /\ wfmo[own[t]].Status # NotFired =>
         Obtained(t) = {call[t].events[wfmo[own[t]].Status + 1]})'
BY ObtainedIs, PTL

\* WaitForMultipleEvents finds an event signalled and takes it.
LEMMA ManyTakes ==
  ASSUME Base, SignalsFollow, NEW t \in Threads, CallFits(t), TakeForAny(t) \/ TakeForAll(t)
  PROVE  Promise!Take(t)
<1>1. /\ TypeOK /\ Acts(t) /\ pc[t] = "purge"
      /\ RegisteredWaits' = RegisteredWaits /\ call' = call /\ own' = own
      /\ State[Event(t)] /\ Consume(Event(t))
  BY DEF Base, Acts, Step, WaitManyStep, TakeForAny, TakeForAll, Purged, NextEvent
<1>2. PICK e : e = Event(t)
  OBVIOUS
<1>3. /\ e \in Events /\ eventMutex[e] = t /\ ~NotifyWaiter(t)
      /\ RegisteredWaits[e] = <<>>
      /\ own[t] \in Waits /\ own[t] # NoWait /\ call[t].all \in BOOLEAN
      /\ Count(t) \in Nat /\ pos[t] \in 1 .. Count(t) /\ call[t].events[pos[t]] = e
      /\ DOMAIN call[t].events = 1 .. Count(t)
      /\ \A j \in 1 .. Count(t) : call[t].events[j] = e => j = pos[t]
      /\ ~call[t].all => wfmo[own[t]].Status = NotFired
  BY <1>1, <1>2, AtPurge
<1>4. /\ pc'[t] \in {"register", "test", "finish"}
      /\ call[t].all => TakeForAll(t) /\ pos' = [pos EXCEPT ![t] = @ + 1]
      /\ ~call[t].all => TakeForAny(t)
  BY <1>1 DEF TakeForAny, TakeForAll, NextEvent, Goto, TypeOK
<1>5. e \in UpEvents /\ UpEvents' = Promise!AfterTaking(e)
  BY <1>1, <1>2, <1>3, <1>4, Consumed
<1>6. e \notin Obtained(t) /\ (~call[t].all => Obtained(t) = {})
      /\ Obtained(t)' = Obtained(t) \cup {e}
  <2>1. CASE ~call[t].all
    <3>1. wfmo'[own[t]].Status = pos[t] - 1 /\ pos[t] - 1 # NotFired
      BY <1>3, <1>4, <2>1, TakeEffect DEF NotFired
    <3>2. (pos[t] - 1) + 1 = pos[t]
      BY <1>3
    <3>3. Obtained(t) = {} /\ Obtained(t)' = {e}
      BY <1>1, <1>3, <2>1, <3>1, <3>2, ObtainedIs, ObtainedAfter
    <3> QED
      BY <3>3
  <2>2. CASE call[t].all
    <3>1. Had(t)' = Had(t) \cup {pos[t]}
      <4>1. /\ pos'[t] = pos[t] + 1 /\ Count(t)' = Count(t)
            /\ \A d : IsRegistered(own[t], d)' <=> IsRegistered(own[t], d)
        BY <1>1, <1>4, <2>2 DEF TypeOK, Count, IsRegistered
      <4>2. ~IsRegistered(own[t], e)
        BY <1>3, EmptySeq DEF IsRegistered
      <4> DEFINE R(j) == IsRegistered(own[t], call[t].events[j])
      <4>3. \A j : R(j)' <=> R(j)
        BY <1>1 DEF IsRegistered
      <4>4. ~R(pos[t])
        BY <1>3, <4>2
      <4>5. /\ Had(t) = {j \in 1 .. Count(t) : j < pos[t] /\ ~R(j)}
            /\ Had(t)' = {j \in 1 .. Count(t) : j < pos[t] + 1 /\ ~R(j)'}
        BY <1>1, <4>1 DEF Had
      <4> HIDE DEF R
      <4> QED
        BY <1>3, <4>3, <4>4, <4>5
    <3>2. /\ Obtained(t) = {call[t].events[j] : j \in Had(t)}
          /\ Obtained(t)' = {call[t].events[j] : j \in Had(t)'}
      BY <1>1, <1>3, <2>2, ObtainedIs, ObtainedAfter
    <3>3. e \notin Obtained(t)
      BY <1>3, <3>2 DEF Had
    <3>4. Obtained(t)' = Obtained(t) \cup {e}
      BY <1>3, <3>1, <3>2
    <3> QED
      BY <2>2, <3>3, <3>4
  <2> QED
    BY <1>3, <2>1, <2>2
<1>7. PhaseOf(t) = "waiting" /\ PhaseOf(t)' = "waiting"
  <2>1. PhaseFollows(t) /\ PhaseFollows(t)'
    BY Phased, PhasedAfter
  <2> QED
    BY <1>1, <1>4, <2>1 DEF PhaseFollows, InMany, InScan, AfterScan
<1>8. Phases[t] = "waiting" /\ Phases' = Phases /\ Outcomes' = Outcomes
  BY <1>1, <1>4, <1>7, Seen
<1>9. Gains[t] = Obtained(t) /\ Gains' = [Gains EXCEPT ![t] = @ \cup {e}]
  BY <1>1, <1>3, <1>6, Seen
<1>10. Promise!Wants(t, e)
  BY <1>3, <1>6, <1>8, <1>9 DEF Promise!Wants, Promise!Wanted
<1> QED
  BY <1>1, <1>5, <1>8, <1>9, <1>10 DEF Promise!Take

\* Registering with an event, and purging its deque, is not seen.
LEMMA ManyRegisters ==
  ASSUME Base, SignalsFollow, NEW t \in Threads, CallFits(t), Register(t) \/ PurgeRemoves(t)
  PROVE  Unseen
<1>1. /\ TypeOK /\ Acts(t) /\ pc[t] = "purge" /\ call' = call /\ own' = own /\ State' = State
  BY DEF Base, Acts, Step, WaitManyStep, Register, Purged, PurgeRemoves, Purging, local
<1>2. PICK e : e = Event(t)
  OBVIOUS
<1>3. /\ e \in Events /\ eventMutex[e] = t /\ ~NotifyWaiter(t)
      /\ (State[e] => RegisteredWaits[e] = <<>>)
      /\ own[t] \in Waits /\ own[t] # NoWait /\ call[t].all \in BOOLEAN
      /\ Count(t) \in Nat /\ pos[t] \in 1 .. Count(t) /\ call[t].events[pos[t]] = e
      /\ \A j \in 1 .. Count(t) : call[t].events[j] \in Events
      /\ \A j \in 1 .. Count(t) : call[t].events[j] = e => j = pos[t]
      /\ wfmo[own[t]].StillWaiting
      /\ ~call[t].all => wfmo[own[t]].Status = NotFired
  BY <1>1, <1>2, AtPurge
<1>4. pc'[t] \in {"purge", "register", "test", "finish"}
  BY <1>1 DEF Register, PurgeRemoves, NextEvent, Goto, TypeOK
<1>5. UpEvents' = UpEvents
  <2>1. ~State[e]
    <3>1. CASE Register(t)
      BY <1>2, <3>1 DEF Register
    <3>2. CASE PurgeRemoves(t)
      <4>1. PICK n \in DOMAIN RegisteredWaits[e] : Drops(t, n)
        BY <1>1, <1>2, <3>2, DropStepDrops DEF DropStep
      <4> QED
        BY <1>3, <4>1, EmptySeq
    <3> QED
      BY <3>1, <3>2
  <2>2. UpEvents' = UpEvents \ {e} /\ e \notin UpEvents
    BY <1>1, <1>2, <1>3, <2>1, UpHere
  <2> QED
    BY <2>2
<1>6. Obtained(t)' = Obtained(t)
  <2>1. CASE Register(t)
    <3>1. pos'[t] = pos[t] + 1 /\ Count(t)' = Count(t)
      BY <1>1, <2>1 DEF Register, NextEvent, TypeOK, Count
    <3>2. CASE ~call[t].all
      <4>1. wfmo'[own[t]].Status = wfmo[own[t]].Status
        BY <2>1, RegisterEffect
      <4> QED
        BY <1>1, <1>3, <3>2, <4>1, ObtainedIs, ObtainedAfter
    <3>3. CASE call[t].all
      <4> DEFINE R(j) == IsRegistered(own[t], call[t].events[j])
      <4>1. ASSUME NEW j \in 1 .. Count(t)
            PROVE  R(j)' <=> R(j) \/ j = pos[t]
        <5>1. PICK d \in Events, v \in Waits : d = call[t].events[j] /\ v = own[t]
          BY <1>3
        <5>2. IsRegistered(v, d)' <=> IsRegistered(v, d) \/ (v = own[t] /\ d = Event(t))
          BY <2>1, RegisterRegistrations
        <5>3. d = Event(t) <=> j = pos[t]
          BY <1>2, <1>3, <5>1
        <5>4. R(j)' <=> IsRegistered(v, d)'
          BY <1>1, <5>1 DEF IsRegistered
        <5> QED
          BY <5>1, <5>2, <5>3, <5>4
      <4>2. Had(t) = {j \in 1 .. Count(t) : j < pos[t] /\ ~R(j)}
        BY DEF Had
      <4>3. Had(t)' = {j \in 1 .. Count(t) : j < pos[t] + 1 /\ ~R(j)'}
        BY <1>1, <3>1 DEF Had
      <4> HIDE DEF R
      <4>4. \A j \in 1 .. Count(t) : j < pos[t] + 1 /\ ~R(j)' <=> j < pos[t] /\ ~R(j)
        BY <1>3, <4>1
      <4>5. Had(t)' = Had(t)
        BY <4>2, <4>3, <4>4
      <4>6. /\ Obtained(t) = {call[t].events[j] : j \in Had(t)}
            /\ Obtained(t)' = {call[t].events[j] : j \in Had(t)'}
        BY <1>1, <1>3, <3>3, ObtainedIs, ObtainedAfter
      <4> QED
        BY <4>5, <4>6
    <3> QED
      BY <1>3, <3>2, <3>3
  <2>2. CASE PurgeRemoves(t)
    <3>1. PICK n \in DOMAIN RegisteredWaits[e] : Drops(t, n)
      BY <1>1, <1>2, <2>2, DropStepDrops DEF DropStep
    <3>2. own[t] # RegisteredWaits[Event(t)][n].Waiter
      <4>1. pc' = pc
        BY <2>2 DEF PurgeRemoves
      <4>2. ~wfmo[RegisteredWaits[Event(t)][n].Waiter].StillWaiting
        BY <1>1, <3>1, <4>1 DEF Drops
      <4> QED
        BY <1>3, <4>2
    <3>3. /\ wfmo'[own[t]] = wfmo[own[t]]
          /\ \A d \in Events : IsRegistered(own[t], d)' <=> IsRegistered(own[t], d)
      BY <1>3, <3>1, <3>2, OthersDropped
    <3>4. pos' = pos
      BY <2>2 DEF PurgeRemoves, local
    <3> QED
      BY <1>1, <3>3, <3>4, SameObtained
  <2> QED
    BY <2>1, <2>2
<1>7. PhaseOf(t)' = PhaseOf(t)
  <2>1. PhaseFollows(t) /\ PhaseFollows(t)'
    BY Phased, PhasedAfter
  <2> QED
    BY <1>1, <1>4, <2>1 DEF PhaseFollows, InMany, InScan, AfterScan
<1> QED
  BY <1>1, <1>3, <1>4, <1>5, <1>6, <1>7, Seen DEF Unseen

\* A wait that ends reports what it has.
LEMMA ManyReturns ==
  ASSUME Base, SignalsFollow, NEW t \in Threads, StatusFits(t), CallFits(t), Finish(t)
  PROVE  Promise!Return(t)
<1> DEFINE w == own[t] i == wfmo[w].Status code == result[t].code
<1>1. /\ TypeOK /\ Acts(t) /\ pc[t] = "finish" /\ pc'[t] = "idle"
      /\ RegisteredWaits' = RegisteredWaits /\ State' = State /\ own'[t] = NoWait
      /\ call' = [call EXCEPT ![t] = NoCall]
      /\ result' = [result EXCEPT ![t].index = i]
  BY DEF Base, Acts, Step, WaitManyStep, Finish, Goto, TypeOK
<1>2. /\ w \in Waits /\ w # NoWait /\ i \in Int /\ ~NotifyWaiter(t)
      /\ wfmo[w].WaitAll = call[t].all
  BY <1>1, EventsAssumption
     DEF Base, InCall, InMany, TypeOK, Records, RecordsFollow, NotifyWaiter
<1>3. /\ Count(t) \in Nat \ {0} /\ DOMAIN call[t].events = 1 .. Count(t)
      /\ call[t].all \in BOOLEAN
  BY <1>1, CallFacts DEF Base
<1>4. result'[t] = [code |-> code, index |-> i]
  BY <1>1 DEF TypeOK, Results
<1>5. code \in {"success", "timeout"} /\ (code = "success" => Done(wfmo[w]))
  BY <1>1 DEF CallFits
<1>6. /\ ~call[t].all /\ i # NotFired => i + 1 \in 1 .. Count(t)
      /\ call[t].all => i = Cardinality(Missing(t))
  BY <1>2 DEF StatusFits
<1>7. i \in -1 .. Count(t)
  <2>1. CASE call[t].all
    <3>1. Missing(t) \subseteq 1 .. Count(t) /\ IsFiniteSet(1 .. Count(t))
      BY <1>3, FS_Interval DEF Missing
    <3>2. Cardinality(1 .. Count(t)) = Count(t)
      BY <1>3, FS_Interval
    <3>3. i <= Count(t) /\ i \in Nat
      BY <1>3, <1>6, <2>1, <3>1, <3>2, FS_Subset, FS_CardinalityType
    <3> QED
      BY <1>3, <3>3
  <2>2. CASE ~call[t].all
    BY <1>2, <1>3, <1>6, <2>2 DEF NotFired
  <2> QED
    BY <1>3, <2>1, <2>2
<1>8. PhaseOf(t) = "waiting" /\ PhaseOf(t)' = "out"
  <2>1. PhaseFollows(t) /\ PhaseFollows(t)'
    BY Phased, PhasedAfter
  <2> QED
    BY <1>1, <2>1 DEF PhaseFollows, InMany
<1>9. UpEvents' = UpEvents
  BY <1>1, UpKept
<1>10. /\ Phases[t] = "waiting" /\ Phases' = [Phases EXCEPT ![t] = "out"]
       /\ Gains[t] = Obtained(t) /\ Gains' = [Gains EXCEPT ![t] = {}]
       /\ Outcomes' = [Outcomes EXCEPT ![t] = [code |-> code, index |-> i]]
  <2>1. Obtained(t)' = {}
    BY <1>1 DEF Obtained
  <2> QED
    BY <1>1, <1>2, <1>4, <1>8, <2>1, Seen
<1>11. /\ code = "success" => Promise!Satisfied(t)
       /\ code = "success" /\ ~call[t].all => Gains[t] = Promise!Named(t, i)
  <2> SUFFICES ASSUME code = "success"
               PROVE  /\ Promise!Satisfied(t)
                      /\ ~call[t].all => Gains[t] = Promise!Named(t, i)
    OBVIOUS
  <2>1. CASE call[t].all
    <3>1. Cardinality(Missing(t)) = 0
      BY <1>2, <1>5, <1>6, <2>1 DEF Done
    <3>2. Missing(t) = {}
      BY <1>3, <3>1, MissingFinite, FS_EmptySet
    <3>3. Had(t) = 1 .. Count(t)
      BY <1>1, <3>2 DEF Missing, Had, TypeOK
    <3>4. Obtained(t) = {call[t].events[j] : j \in 1 .. Count(t)}
      BY <1>2, <2>1, <3>3, ObtainedIs
    <3> QED
      BY <1>3, <1>10, <2>1, <3>4 DEF Promise!Satisfied, Promise!Wanted
  <2>2. CASE ~call[t].all
    <3>1. i # NotFired
      BY <1>2, <1>5, <2>2 DEF Done
    <3>2. Obtained(t) = {call[t].events[i + 1]} /\ i + 1 \in 1 .. Count(t)
      BY <1>2, <1>6, <2>2, <3>1, ObtainedIs
    <3>3. Promise!Named(t, i) = {call[t].events[i + 1]}
      BY <1>3, <3>2 DEF Promise!Named
    <3> QED
      BY <1>10, <2>2, <3>2, <3>3 DEF Promise!Satisfied
  <2> QED
    BY <1>3, <2>1, <2>2
<1>12. Promise!End(t)
  BY <1>1, <1>10 DEF Promise!End, NoCall
<1>13. i \in -1 .. Len(call[t].events)
  BY <1>7 DEF Count
<1> HIDE DEF w, i, code
<1> QED
  BY <1>5, <1>9, <1>10, <1>11, <1>12, <1>13 DEF Promise!Return

\* The other steps of WaitForMultipleEvents, and the clock, are not seen.
LEMMA ManyWaits ==
  ASSUME Base, NEW t \in Threads,
         \/ RegisterLock(t) \/ PurgeKeeps(t) \/ TestDone(t) \/ TestSleeps(t) \/ Wake(t)
         \/ ExpiredLock(t) \/ Clock(t)
  PROVE  Unseen
<1>1. TypeOK /\ Acts(t)
  BY DEF Base, Acts, Step, WaitManyStep
<1>2. UNCHANGED <<State, RegisteredWaits, wfmo, own, call, pos>>
  BY DEF RegisterLock, PurgeKeeps, TestDone, TestSleeps, Wake, ExpiredLock, Clock, WaitExpires,
         Expires, SpuriousWakeup, shared, local
<1>3. pc[t] \in InWait \cup InMany /\ pc'[t] \in InWait \cup InMany
  BY <1>1 DEF RegisterLock, PurgeKeeps, Purging, TestDone, TestSleeps, Wake, ExpiredLock, Clock,
              WaitExpires, Expires, SpuriousWakeup, Goto, TypeOK, InWait, InMany, InScan, AfterScan
<1>4. PhaseOf(t)' = PhaseOf(t)
  <2>1. PhaseFollows(t) /\ PhaseFollows(t)'
    BY Phased, PhasedAfter
  <2> QED
    BY <1>3, <2>1 DEF PhaseFollows
<1> QED
  BY <1>1, <1>2, <1>3, <1>4, QuietStep DEF InWait, InMany, InScan, AfterScan

\* A call of the library is a call of the abstract events.
LEMMA CallBegins ==
  ASSUME Base, NEW t \in Threads, Call(t)
  PROVE  Promise!Begin(t)
<1>1. PICK c \in Menu[t] : \/ SetEvent(t, c) \/ ResetEvent(t, c)
                           \/ WaitForEvent(t, c) \/ WaitForMultipleEvents(t, c)
  BY DEF Call
<1>2. /\ TypeOK /\ Acts(t) /\ pc[t] = "idle" /\ ~NotifyWaiter(t)
      /\ call' = [call EXCEPT ![t] = c] /\ call'[t] = c
      /\ UNCHANGED <<State, RegisteredWaits>>
  BY <1>1 DEF Base, Acts, TypeOK, NotifyWaiter, SetEvent, ResetEvent, WaitForEvent, CallOne,
              WaitForMultipleEvents, shared
<1>3. \/ c.op = "set" /\ pc'[t] = "setLock"
      \/ c.op = "reset" /\ pc'[t] = "resetLock"
      \/ c.op = "wait" /\ pc'[t] = "waitLock"
      \/ c.op = "waitMany" /\ pc'[t] = "register"
  BY <1>1, <1>2 DEF SetEvent, ResetEvent, WaitForEvent, CallOne, WaitForMultipleEvents, Goto,
                    TypeOK
<1>4. UpEvents' = UpEvents
  BY <1>2, <1>3, UpKept
<1>5. PhaseOf(t) = "out" /\ PhaseOf(t)' = Promise!PhaseFor(c)
  <2>1. PhaseFollows(t) /\ PhaseFollows(t)'
    BY Phased, PhasedAfter
  <2> QED
    BY <1>2, <1>3, <2>1 DEF PhaseFollows, Promise!PhaseFor, InWait, InMany, InScan
<1>6. Obtained(t) = {} /\ Obtained(t)' = {}
  <2>1. CASE WaitForMultipleEvents(t, c)
    <3>1. PICK w \in Waits : own' = [own EXCEPT ![t] = w] /\ wfmo' = [wfmo EXCEPT ![w] = NewRecord(c)]
      BY <2>1 DEF WaitForMultipleEvents
    <3>2. /\ own'[t] = w /\ own'[t] # NoWait /\ wfmo'[w] = NewRecord(c)
          /\ own[t] = NoWait /\ pos[t] = 1 /\ pos' = pos
      <4>1. own'[t] = w /\ own'[t] # NoWait /\ wfmo'[w] = NewRecord(c)
        BY <1>2, <3>1, EventsAssumption DEF TypeOK
      <4>2. own[t] = NoWait /\ pos[t] = 1
        BY <1>2 DEF Base, InCall, InMany, InScan, AfterScan
      <4> QED
        BY <2>1, <4>1, <4>2 DEF WaitForMultipleEvents
    <3>3. Obtained(t) = {}
      BY <3>2 DEF Obtained
    <3>4. CASE c.all
      <4>1. Had(t)' = {}
        <5>1. \A j \in (1 .. Count(t))' : ~(j < pos'[t])
          BY <3>2
        <5> QED
          BY <5>1 DEF Had
      <4>2. Obtained(t)' = {call[t].events[j] : j \in Had(t)}'
        BY <1>2, <3>2, <3>4, ObtainedAfter
      <4> QED
        BY <3>3, <4>1, <4>2
    <3>5. CASE ~c.all
      <4>1. wfmo'[own'[t]].Status = NotFired
        BY <3>2, <3>5 DEF NewRecord
      <4> QED
        BY <1>2, <3>2, <3>3, <3>5, <4>1, ObtainedAfter
    <3> QED
      BY <3>4, <3>5
  <2>2. CASE ~WaitForMultipleEvents(t, c)
    <3>1. own' = own
      BY <1>1, <2>2 DEF SetEvent, ResetEvent, WaitForEvent, CallOne
    <3> QED
      BY <1>2, <3>1, NothingObtained DEF InMany, InScan, AfterScan
  <2> QED
    BY <2>1, <2>2
<1>7. /\ Phases[t] = "out" /\ Phases' = [Phases EXCEPT ![t] = Promise!PhaseFor(c)]
      /\ Gains' = Gains /\ Outcomes' = [Outcomes EXCEPT ![t] = NoResult]
  BY <1>2, <1>3, <1>5, <1>6, Seen
<1>8. NoResult = [code |-> "none", index |-> -1]
  BY DEF NoResult, NotFired
<1> QED
  BY <1>2, <1>4, <1>7, <1>8 DEF Promise!Begin

------------------------------------------------------------------------------
(* The refinement.                                                         *)

\* Nothing is obtained and nobody calls before the first call.
LEMMA PromiseInit == Init => Promise!Init
<1> SUFFICES ASSUME Init PROVE Promise!Init
  OBVIOUS
<1>1. UpEvents \in SUBSET Events
  BY DEF UpEvents
<1>2. Phases = [t \in Threads |-> "out"]
  <2>1. \A t \in Threads : PhaseOf(t) = "out"
    BY Phased DEF Init, PhaseFollows
  <2> QED
    BY <2>1 DEF Phases
<1>3. Gains = [t \in Threads |-> {}]
  <2>1. \A t \in Threads : Obtained(t) = {}
    BY DEF Init, Obtained
  <2> QED
    BY <2>1 DEF Gains
<1>4. Outcomes = [t \in Threads |-> [code |-> "none", index |-> -1]]
  <2>1. \A t \in Threads : pc[t] = "idle" /\ result[t] = NoResult
    BY DEF Init
  <2> QED
    BY <2>1 DEF Outcomes, NoResult, NotFired
<1> QED
  BY <1>1, <1>2, <1>3, <1>4 DEF Promise!Init, Init, NoCall

\* Every step is a step of the abstract events or is not seen.
LEMMA StepKeepsPromise ==
  IInv /\ (\A t \in Threads : CallFits(t)) /\ [Next]_vars => [Promise!Next]_(Promise!vars)
<1> SUFFICES ASSUME IInv, \A t \in Threads : CallFits(t), [Next]_vars
             PROVE  Promise!Next \/ Unseen
  BY DEF Unseen, Promise!vars
<1>1. Base /\ SignalsFollow
  BY DEF IInv
<1>2. CASE UNCHANGED vars
  <2>1. UpEvents' = UpEvents
    BY <1>2 DEF vars, shared, local, UpEvents, Event
  <2>2. Phases' = Phases
    BY <1>2 DEF vars, shared, local, Phases, PhaseOf, Setting, Event
  <2>3. Gains' = Gains
    BY <1>2 DEF vars, shared, local, Gains, Obtained, Count, IsRegistered
  <2>4. Outcomes' = Outcomes /\ call' = call
    BY <1>2 DEF vars, shared, local, Outcomes
  <2> QED
    BY <2>1, <2>2, <2>3, <2>4 DEF Unseen
<1>3. ASSUME NEW t \in Threads, Step(t) \/ Call(t) \/ Clock(t)
      PROVE  Promise!Next \/ Unseen
  <2>1. CallFits(t) /\ StatusFits(t)
    BY DEF IInv
  <2>2. CASE SetStep(t)
    BY <1>1, <2>1, <2>2, SetKeepsPromise DEF Promise!Next
  <2>3. CASE Reset(t)
    BY <1>1, <2>1, <2>3, ResetLowers DEF Promise!Next
  <2>4. CASE WaitStep(t)
    BY <1>1, <2>1, <2>4, WaitKeepsPromise DEF Promise!Next
  <2>5. CASE TakeForAny(t) \/ TakeForAll(t)
    BY <1>1, <2>1, <2>5, ManyTakes DEF Promise!Next
  <2>6. CASE Register(t) \/ PurgeRemoves(t)
    BY <1>1, <2>1, <2>6, ManyRegisters
  <2>7. CASE Finish(t)
    BY <1>1, <2>1, <2>7, ManyReturns DEF Promise!Next
  <2>8. CASE \/ RegisterLock(t) \/ PurgeKeeps(t) \/ TestDone(t) \/ TestSleeps(t) \/ Wake(t)
             \/ ExpiredLock(t) \/ Clock(t)
    BY <1>1, <2>8, ManyWaits
  <2>9. CASE Call(t)
    BY <1>1, <2>9, CallBegins DEF Promise!Next
  <2> QED
    BY <1>3, <2>2, <2>3, <2>4, <2>5, <2>6, <2>7, <2>8, <2>9 DEF Step, WaitManyStep
<1> QED
  BY <1>2, <1>3 DEF Next

\* pevents implements the abstract events: no signal is both handed on and left behind,
\* none serves two waits, and no wait reports an event it did not obtain.
THEOREM PromiseKept == Spec => KeepsPromise
<1> DEFINE Fits == \A t \in Threads : CallFits(t)
<1>1. IInv /\ Fits /\ [Next]_vars => [Promise!Next]_(Promise!vars)
  BY StepKeepsPromise
<1>2. Spec => []Fits
  BY CallsFit
<1> QED
  BY <1>1, <1>2, PromiseInit, Invariant, PTL DEF Spec, KeepsPromise, Promise!Spec
=============================================================================

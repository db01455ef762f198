----------------------------- MODULE EventPromise -----------------------------
(***************************************************************************)
(* What libs/pevents promises, without mutexes, deques and wait records.   *)
(* A call to set an event either leaves it signalled or hands the signal   *)
(* to waiting calls: an auto-reset event to exactly one and then it is not *)
(* signalled, a manual-reset event to any number and then it is signalled. *)
(* A wait gets a signalled event by taking it, and the signal of an        *)
(* auto-reset event is gone then.  A wait reports success only with the    *)
(* events it asked for, and names the one that ended a wait for any.       *)
(***************************************************************************)
EXTENDS Integers, Sequences

CONSTANTS Threads, Events, AutoReset, Requests

VARIABLES
  up,       \* the events that are signalled
  phase,    \* [Threads -> what the thread's call is doing]
  request,  \* [Threads -> the call]
  got,      \* [Threads -> the events its wait has obtained]
  outcome   \* [Threads -> what its last call returned]

vars == <<up, phase, request, got, outcome>>

Wanted(t) == {request[t].events[i] : i \in DOMAIN request[t].events}

Satisfied(t) == IF request[t].all THEN got[t] = Wanted(t) ELSE got[t] # {}

\* The wait of t may still be given e.
Wants(t, e) ==
  /\ phase[t] = "waiting"
  /\ e \in Wanted(t) \ got[t]
  /\ ~request[t].all => got[t] = {}

Init ==
  /\ up \in SUBSET Events
  /\ phase = [t \in Threads |-> "out"]
  /\ request = [t \in Threads |-> [op |-> "none", events |-> <<>>,
                                   all |-> FALSE, time |-> "zero"]]
  /\ got = [t \in Threads |-> {}]
  /\ outcome = [t \in Threads |-> [code |-> "none", index |-> -1]]

PhaseFor(r) ==
  CASE r.op = "set" -> "setting"
    [] r.op = "reset" -> "lowering"
    [] OTHER -> "waiting"

Begin(t) ==
  /\ phase[t] = "out"
  /\ \E r \in Requests[t] :
       /\ phase' = [phase EXCEPT ![t] = PhaseFor(r)]
       /\ request' = [request EXCEPT ![t] = r]
  /\ outcome' = [outcome EXCEPT ![t] = [code |-> "none", index |-> -1]]
  /\ UNCHANGED <<up, got>>

Hand(t) ==
  /\ phase[t] = "setting"
  /\ LET e == request[t].events[1] IN
       /\ \E u \in Threads :
            Wants(u, e) /\ got' = [got EXCEPT ![u] = @ \cup {e}]
       /\ phase' = [phase EXCEPT ![t] = IF e \in AutoReset THEN "set" ELSE @]
  /\ UNCHANGED <<up, request, outcome>>

Raise(t) ==
  /\ phase[t] = "setting"
  /\ up' = up \cup {request[t].events[1]}
  /\ phase' = [phase EXCEPT ![t] = "set"]
  /\ UNCHANGED <<request, got, outcome>>

\* A call that leaves nothing to report ends.
End(t) ==
  /\ phase' = [phase EXCEPT ![t] = "out"]
  /\ request' = [request EXCEPT ![t] = [op |-> "none", events |-> <<>>,
                                        all |-> FALSE, time |-> "zero"]]

EndSet(t) ==
  /\ phase[t] = "set"
  /\ End(t)
  /\ UNCHANGED <<up, got, outcome>>

Lower(t) ==
  /\ phase[t] = "lowering"
  /\ up' = up \ {request[t].events[1]}
  /\ End(t)
  /\ UNCHANGED <<got, outcome>>

AfterTaking(e) == IF e \in AutoReset THEN up \ {e} ELSE up

Take(t) ==
  /\ phase[t] = "waiting"
  /\ \E e \in up :
       /\ Wants(t, e)
       /\ up' = AfterTaking(e)
       /\ got' = [got EXCEPT ![t] = @ \cup {e}]
  /\ UNCHANGED <<phase, request, outcome>>

\* A wait for one event takes it and returns at once.
TakeAndReturn(t) ==
  /\ phase[t] = "waiting"
  /\ request[t].op = "wait"
  /\ \E e \in up : Wants(t, e) /\ up' = AfterTaking(e)
  /\ outcome' = [outcome EXCEPT ![t] = [code |-> "success", index |-> -1]]
  /\ End(t)
  /\ UNCHANGED got

\* The event at a zero-based index of the array.
Named(t, i) == {request[t].events[j] : j \in (DOMAIN request[t].events) \cap {i + 1}}

\* The index means something only when a wait for any succeeds.
Return(t) ==
  /\ phase[t] = "waiting"
  /\ \E code \in {"success", "timeout"}, i \in -1 .. Len(request[t].events) :
       /\ code = "success" => Satisfied(t)
       /\ code = "success" /\ ~request[t].all => got[t] = Named(t, i)
       /\ outcome' = [outcome EXCEPT ![t] = [code |-> code, index |-> i]]
  /\ End(t)
  /\ got' = [got EXCEPT ![t] = {}]
  /\ UNCHANGED up

Next ==
  \E t \in Threads :
    \/ Begin(t)
    \/ Hand(t) \/ Raise(t) \/ EndSet(t)
    \/ Lower(t)
    \/ Take(t) \/ TakeAndReturn(t) \/ Return(t)

Spec == Init /\ [][Next]_vars
=============================================================================

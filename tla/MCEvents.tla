------------------------------- MODULE MCEvents -------------------------------
(***************************************************************************)
(* Small sets of threads, each making a few kinds of call any number of    *)
(* times.  Event e0 is auto-reset, e1 manual-reset or, as in the program,  *)
(* auto-reset too.                                                         *)
(***************************************************************************)
EXTENDS Events

Request(op, events, all, time) ==
  [op |-> op, events |-> events, all |-> all, time |-> time]

Set(e) == Request("set", <<e>>, FALSE, "zero")
ResetOf(e) == Request("reset", <<e>>, FALSE, "zero")
WaitFor(e, time) == Request("wait", <<e>>, FALSE, time)
WaitForAny(time) == Request("waitMany", <<"e0", "e1">>, FALSE, time)
WaitForAll(time) == Request("waitMany", <<"e0", "e1">>, TRUE, time)

MCEventSet == {"e0", "e1"}
MCRank == [e \in MCEventSet |-> IF e = "e0" THEN 0 ELSE 1]

WaitSymmetry == Permutations(Waits)

\* Two waits for several events against two setters.
ManyThreads == {"any", "all", "setter0", "setter1"}
ManyMenu ==
  [t \in ManyThreads |->
     CASE t = "any" -> {WaitForAny("infinite")}
       [] t = "all" -> {WaitForAll("zero"), WaitForAll("finite")}
       [] t = "setter0" -> {Set("e0")}
       [] t = "setter1" -> {Set("e0"), Set("e1"), ResetOf("e1")}]

\* Waits for one event beside the wait of thread_function01.
OneThreads == {"any", "one", "other", "setter"}
OneMenu ==
  [t \in OneThreads |->
     CASE t = "any" -> {WaitForAny("infinite")}
       [] t = "one" -> {WaitFor("e0", "zero"), WaitFor("e1", "finite")}
       [] t = "other" -> {WaitFor("e0", "infinite"), WaitFor("e1", "infinite")}
       [] t = "setter" -> {Set("e0"), Set("e1"), ResetOf("e1")}]

\* One wait for all, with or without a timeout, and a setter for each event.
AllThreads == {"all", "setter0", "setter1"}
AllForeverMenu ==
  [t \in AllThreads |->
     CASE t = "all" -> {WaitForAll("infinite")}
       [] t = "setter0" -> {Set("e0")}
       [] t = "setter1" -> {Set("e1")}]
AllAtOnceMenu ==
  [t \in AllThreads |->
     CASE t = "all" -> {WaitForAll("zero")}
       [] t = "setter0" -> {Set("e0")}
       [] t = "setter1" -> {Set("e1")}]
=============================================================================

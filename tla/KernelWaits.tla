----------------------------- MODULE KernelWaits -----------------------------
(***************************************************************************)
(* The kernel's dispatcher objects and the waits on them: events,           *)
(* semaphores and mutants under one lock, a condition variable per waiter   *)
(* (kernel_objects.cpp), and the NT waits on several objects that are built *)
(* from single waits (kernel_events.cpp).                                   *)
(*                                                                          *)
(* A section under g_dispatcherMutex is one step.  A timer and a thread's   *)
(* exit are events.  Object handles and guest addresses are resolved.       *)
(***************************************************************************)
EXTENDS Naturals, Sequences

CONSTANTS
  Threads,        (* guest threads                                            *)
  Objects,        (* dispatcher objects                                       *)
  Kind,           (* by object: its kind                                      *)
  Limit,          (* by object: a semaphore's limit, 0 for none               *)
  Waits,          (* the waits the title makes: [api, objects, timed]         *)
  MaxCount        (* bound: a semaphore's count, a mutant's recursion         *)

Kinds == {"notification", "synchronization", "semaphore", "mutant"}
Apis == {"any", "all", "nt-any", "nt-all"}
NoWait == [api |-> "any", objects |-> <<>>, timed |-> FALSE]

ASSUME WaitsAssumption ==
  /\ Kind \in [Objects -> Kinds]
  /\ Limit \in [Objects -> Nat] /\ MaxCount \in Nat
  /\ Waits \subseteq [api : Apis, objects : Seq(Objects) \ {<<>>}, timed : BOOLEAN]

VARIABLES
  signalled,      (* the events that are                                      *)
  count,          (* by semaphore                                             *)
  owner,          (* by mutant: the set of its owner                          *)
  recursion,      (* by mutant: how often the owner has it                    *)
  step,           (* by thread: "run", "test", "blocked", "notified", "pulse" *)
  wait,           (* by thread: the wait it is in, or NoWait                  *)
  index,          (* by thread: the object an NT wait has come to             *)
  took,           (* by thread: what its wait on all has taken so far         *)
  pulsed          (* by thread: the set of the event it pulses                *)

objectVars == <<signalled, count, owner, recursion>>
threadVars == <<step, wait, index, took, pulsed>>
waitsVars == <<objectVars, threadVars>>

WaitsInit ==
  /\ signalled = {}
  /\ count = [o \in Objects |-> 0]
  /\ owner = [o \in Objects |-> {}]
  /\ recursion = [o \in Objects |-> 0]
  /\ step = [t \in Threads |-> "run"]
  /\ wait = [t \in Threads |-> NoWait]
  /\ index = [t \in Threads |-> 1]
  /\ took = [t \in Threads |-> {}]
  /\ pulsed = [t \in Threads |-> {}]

IsEvent(o) == Kind[o] \in {"notification", "synchronization"}

-----------------------------------------------------------------------------
(* What a wait tests and takes *)

IsNt(t) == wait[t].api \in {"nt-any", "nt-all"}

\* The objects the thread's condition variable is registered on: an NT wait tests one at a time.
Awaited(t) ==
  IF IsNt(t) THEN {wait[t].objects[index[t]]}
  ELSE {wait[t].objects[i] : i \in DOMAIN wait[t].objects}

\* Mutant: a semaphore can be had at zero.
SatisfiedAtZero(t, o) ==
  CASE Kind[o] = "semaphore" -> count[o] >= 0
    [] Kind[o] = "mutant" -> recursion[o] = 0 \/ owner[o] = {t}
    [] OTHER -> o \in signalled

\* SatisfiedLocked
Satisfied(t, o) ==
  CASE Kind[o] = "semaphore" -> count[o] > 0
    [] Kind[o] = "mutant" -> recursion[o] = 0 \/ owner[o] = {t}
    [] OTHER -> o \in signalled

\* The predicate of the wait.
Ready(t) == IF wait[t].api = "all" THEN \A o \in Awaited(t) : Satisfied(t, o)
            ELSE \E o \in Awaited(t) : Satisfied(t, o)

\* Which objects it takes: all of them, or the first in the array that is satisfied.
Taken(t) ==
  IF wait[t].api = "all" THEN Awaited(t)
  ELSE {o \in Awaited(t) :
          \E i \in DOMAIN wait[t].objects :
            /\ wait[t].objects[i] = o /\ Satisfied(t, o)
            /\ \A j \in 1 .. (i - 1) : wait[t].objects[j] \in Awaited(t) =>
                                         ~Satisfied(t, wait[t].objects[j])}

\* ConsumeLocked, for each
Consume(t, objects) ==
  LET of(kind) == {o \in objects : Kind[o] = kind}
  IN /\ signalled' = signalled \ of("synchronization")
     /\ count' = [o \in Objects |-> IF o \in of("semaphore") THEN count[o] - 1 ELSE count[o]]
     /\ owner' = [o \in Objects |-> IF o \in of("mutant") THEN {t} ELSE owner[o]]
     /\ recursion' = [o \in Objects |-> IF o \in of("mutant") THEN recursion[o] + 1
                                        ELSE recursion[o]]

-----------------------------------------------------------------------------
(* Waiting *)

AtTest(t) == step[t] \in {"test", "notified"}

\* The bound MaxCount is on how often a thread takes its own mutant again.
Call(t, w) ==
  /\ step[t] = "run"
  /\ \A i \in DOMAIN w.objects : owner[w.objects[i]] = {t} => recursion[w.objects[i]] < MaxCount
  /\ step' = [step EXCEPT ![t] = "test"]
  /\ wait' = [wait EXCEPT ![t] = w]
  /\ UNCHANGED <<objectVars, index, took, pulsed>>

\* A wait is over.
Return(t) ==
  /\ step' = [step EXCEPT ![t] = "run"]
  /\ wait' = [wait EXCEPT ![t] = NoWait]
  /\ index' = [index EXCEPT ![t] = 1]
  /\ took' = [took EXCEPT ![t] = {}]

Last(t) == index[t] = Len(wait[t].objects)

\* Mutant: a wait on all goes on with any object of the array, not with the next.
AdvanceAnywhere(t) ==
  /\ step' = [step EXCEPT ![t] = "test"]
  /\ \E i \in DOMAIN wait[t].objects :
       wait[t].objects[i] \notin took'[t] /\ index' = [index EXCEPT ![t] = i]

\* An NT wait on all goes on with the next object of the array.
Advance(t) ==
  /\ step' = [step EXCEPT ![t] = "test"]
  /\ index' = [index EXCEPT ![t] = @ + 1]

\* The predicate holds: what the wait is for is taken under the same lock.
TakeAwaited(t) ==
  /\ AtTest(t) /\ Ready(t)
  /\ Consume(t, Taken(t))
  /\ IF wait[t].api = "nt-all" /\ ~Last(t)
     THEN /\ took' = [took EXCEPT ![t] = @ \union Taken(t)]
          /\ Advance(t)
          /\ UNCHANGED wait
     ELSE Return(t)
  /\ UNCHANGED pulsed

\* It does not hold: the thread blocks, registered with every object it waits for ...
Block(t) ==
  /\ AtTest(t) /\ ~Ready(t) /\ wait[t].api # "nt-any"
  /\ step' = [step EXCEPT ![t] = "blocked"]
  /\ UNCHANGED <<objectVars, wait, index, took, pulsed>>

\* ... but an NT wait on any polls the next object, after the last the first again.
Poll(t) ==
  /\ AtTest(t) /\ ~Ready(t) /\ wait[t].api = "nt-any"
  /\ index' = [index EXCEPT ![t] = IF Last(t) THEN 1 ELSE @ + 1]
  /\ UNCHANGED <<objectVars, step, wait, took, pulsed>>

\* The time is over: the predicate is tested once more (wait_for).  An NT wait on all keeps
\* what it has taken.
TimeOut(t) ==
  /\ wait[t].timed
  /\ \/ step[t] \in {"blocked", "notified"}
     \/ step[t] = "test" /\ wait[t].api = "nt-any" /\ index[t] = 1
  /\ ~Ready(t)
  /\ Return(t)
  /\ UNCHANGED <<objectVars, pulsed>>

\* A wait wakes without a notification: its time slice of 5 s is over (KeWaitForMultiple).
WakeUp(t) ==
  /\ step[t] = "blocked" /\ wait[t].api \in {"any", "all"} /\ Len(wait[t].objects) > 1
  /\ step' = [step EXCEPT ![t] = "test"]
  /\ UNCHANGED <<objectVars, wait, index, took, pulsed>>

-----------------------------------------------------------------------------
(* Signalling, by a thread that runs *)

\* Mutant: one waiter is woken, as if there were nothing to tell waiters apart.
WokenByOne(t, o) ==
  LET waiting == {u \in Threads : step[u] = "blocked" /\ o \in Awaited(u)}
  IN [u \in Threads |-> IF waiting # {} /\ u = CHOOSE v \in waiting : TRUE THEN "notified"
                        ELSE step[u]]

\* WakeWaitersLocked: every waiter registered on the object.
WokenBy(t, o) ==
  [u \in Threads |-> IF step[u] = "blocked" /\ o \in Awaited(u) THEN "notified" ELSE step[u]]

Set(t, o) ==
  /\ step[t] = "run" /\ IsEvent(o)
  /\ signalled' = signalled \union {o}
  /\ step' = WokenBy(t, o)
  /\ UNCHANGED <<count, owner, recursion, wait, index, took, pulsed>>

Clear(t, o) ==
  /\ step[t] = "run" /\ IsEvent(o)
  /\ signalled' = signalled \ {o}
  /\ UNCHANGED <<count, owner, recursion, threadVars>>

\* Pulse sets and wakes, lets go of the lock, and clears.
Pulse(t, o) ==
  /\ step[t] = "run" /\ IsEvent(o)
  /\ signalled' = signalled \union {o}
  /\ step' = [WokenBy(t, o) EXCEPT ![t] = "pulse"]
  /\ pulsed' = [pulsed EXCEPT ![t] = {o}]
  /\ UNCHANGED <<count, owner, recursion, wait, index, took>>

EndPulse(t) ==
  /\ step[t] = "pulse"
  /\ signalled' = signalled \ pulsed[t]
  /\ step' = [step EXCEPT ![t] = "run"]
  /\ pulsed' = [pulsed EXCEPT ![t] = {}]
  /\ UNCHANGED <<count, owner, recursion, wait, index, took>>

\* Release: the count is clamped to the limit, if there is one.
Release(t, o, increment) ==
  /\ step[t] = "run" /\ Kind[o] = "semaphore"
  /\ LET sum == count[o] + increment
     IN /\ count' = [count EXCEPT ![o] = IF Limit[o] > 0 /\ sum > Limit[o] THEN Limit[o] ELSE sum]
        /\ count'[o] <= MaxCount
  /\ step' = WokenBy(t, o)
  /\ UNCHANGED <<signalled, owner, recursion, wait, index, took, pulsed>>

\* ReleaseMutant: only by the owner; the waiters hear of the last release.
ReleaseMutant(t, o) ==
  /\ step[t] = "run" /\ Kind[o] = "mutant" /\ owner[o] = {t}
  /\ recursion' = [recursion EXCEPT ![o] = @ - 1]
  /\ IF recursion[o] > 1
     THEN UNCHANGED <<owner, step>>
     ELSE owner' = [owner EXCEPT ![o] = {}] /\ step' = WokenBy(t, o)
  /\ UNCHANGED <<signalled, count, wait, index, took, pulsed>>

-----------------------------------------------------------------------------
Waiting(t) == TakeAwaited(t) \/ Block(t) \/ Poll(t) \/ TimeOut(t) \/ WakeUp(t)

Signalling(t) ==
  \/ \E o \in Objects : Set(t, o) \/ Clear(t, o) \/ Pulse(t, o) \/ ReleaseMutant(t, o)
  \/ \E o \in Objects : \E increment \in 1 .. 2 : Release(t, o, increment)
  \/ EndPulse(t)

\* Every thread sleeps and nothing is left to wake one: the title has stopped itself.
AllSleep == (\A t \in Threads : step[t] = "blocked") /\ UNCHANGED waitsVars

WaitsNext ==
  \/ AllSleep
  \/ \E t \in Threads : Waiting(t) \/ Signalling(t) \/ \E w \in Waits : Call(t, w)

WaitsSpec == WaitsInit /\ [][WaitsNext]_waitsVars

-----------------------------------------------------------------------------
\* Every variable has its type; a mutant is owned by the thread that has it, if any has.
WaitsTypeOK ==
  /\ signalled \subseteq Objects
  /\ count \in [Objects -> Nat] /\ recursion \in [Objects -> Nat]
  /\ owner \in [Objects -> SUBSET Threads]
  /\ \A o \in Objects : IF recursion[o] = 0 THEN owner[o] = {}
                        ELSE \E t \in Threads : owner[o] = {t}
  /\ step \in [Threads -> {"run", "test", "blocked", "notified", "pulse"}]
  /\ wait \in [Threads -> Waits \union {NoWait}]
  /\ \A t \in Threads : IF wait[t] = NoWait THEN index[t] = 1 /\ step[t] \in {"run", "pulse"}
                         ELSE /\ index[t] \in 1 .. Len(wait[t].objects)
                              /\ step[t] \notin {"run", "pulse"}
  /\ {took, pulsed} \subseteq [Threads -> SUBSET Objects]

\* No wake-up is lost: a thread that sleeps with nobody having notified it has nothing it could
\* take, whoever else was woken by the same signal, took it first or wanted more than one
\* (kernel_objects.cpp:25, "Waking only the waiters registered on the signalled object changes
\* nothing about the atomicity").
NoLostWakeup == \A t \in Threads : step[t] = "blocked" => ~Ready(t)

\* Two NT waits on all never each wait for what the other has taken (kernel_events.cpp:153, "the
\* objects are acquired in a stable order so two all-waiters cannot deadlock against each other
\* on the same set").  The order is the caller's: it holds of callers that name the objects in
\* one order.
AllWaitersCannotDeadlock ==
  \A t, u \in Threads :
    ~(/\ t # u /\ wait[t].api = "nt-all" /\ wait[u].api = "nt-all"
      /\ Awaited(t) \subseteq took[u] /\ Awaited(u) \subseteq took[t])

=============================================================================

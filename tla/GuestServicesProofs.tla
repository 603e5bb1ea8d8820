-------------------------- MODULE GuestServicesProofs --------------------------
(***************************************************************************)
(* The kernel's services to the title.                                      *)
(*                                                                          *)
(* The waits (KernelWaits), for every number of threads and objects and     *)
(* every set of waits: no wake-up is lost, and waits on all that name       *)
(* objects in one order cannot wait for each other, two of them or in a     *)
(* circle.                                                                  *)
(*                                                                          *)
(* The timers (KernelTimers), for all timers, callers, delays and periods:  *)
(* the scheduler does not sleep through one, and one that is due is not     *)
(* forgotten.                                                               *)
(*                                                                          *)
(* The heap (GuestHeap), for every size of it and all sizes and alignments  *)
(* asked for: the books balance, and a page comes to a new owner zeroed.    *)
(***************************************************************************)
EXTENDS KernelWaits, KernelTimers, GuestHeap, WellFoundedInduction, TLAPS

-----------------------------------------------------------------------------
(* The waits *)

\* The objects of the array before the one an NT wait has come to.
Passed(t) == {wait[t].objects[i] : i \in 1 .. (index[t] - 1)}

\* What the NT wait on all has taken lies before the object it has come to; no other wait has
\* taken anything yet.
TookInOrder ==
  \A t \in Threads : took[t] \subseteq (IF wait[t].api = "nt-all" THEN Passed(t) ELSE {})

\* The title's waits on all name the objects in one order.
OneOrder ==
  \E rank \in [Objects -> Nat] :
    \A w \in Waits : w.api = "nt-all" =>
      \A i, j \in 1 .. Len(w.objects) : i < j => rank[w.objects[i]] < rank[w.objects[j]]

\* What a thread may be waiting in.
Calls == Waits \union {NoWait}

\* The types the proofs need, of what is tested and of the waits.
WaitsShape ==
  /\ signalled \subseteq Objects
  /\ count \in [Objects -> Nat] /\ recursion \in [Objects -> Nat]
  /\ owner \in [Objects -> SUBSET Threads]
  /\ step \in [Threads -> {"run", "test", "blocked", "notified", "pulse"}]
  /\ wait \in [Threads -> Calls] /\ index \in [Threads -> Nat]
  /\ took \in [Threads -> SUBSET Objects] /\ pulsed \in [Threads -> SUBSET Objects]

\* A mutant is held by one thread as long as it has been acquired more often than released.
HeldOnce ==
  \A o \in Objects : IF recursion[o] = 0 THEN owner[o] = {} ELSE \E t \in Threads : owner[o] = {t}

\* A thread that runs waits for nothing; one that waits has come to an object of its wait.
Placed ==
  \A t \in Threads : IF wait[t] = NoWait THEN index[t] = 1 /\ step[t] \in {"run", "pulse"}
                     ELSE index[t] \in 1 .. Len(wait[t].objects) /\ step[t] \notin {"run", "pulse"}

-----------------------------------------------------------------------------
\* A wait of the title has objects, and they are objects.
LEMMA WaitHasObjects ==
  ASSUME NEW w \in Waits
  PROVE  /\ w \in [api : Apis, objects : Seq(Objects), timed : BOOLEAN]
         /\ Len(w.objects) \in Nat \ {0} /\ w # NoWait
         /\ \A i \in 1 .. Len(w.objects) : w.objects[i] \in Objects
<1>1. /\ w.objects \in Seq(Objects) /\ w.objects # <<>>
      /\ w \in [api : Apis, objects : Seq(Objects), timed : BOOLEAN]
  BY WaitsAssumption
<1> QED
  BY <1>1 DEF NoWait

\* A wait's objects are objects.
LEMMA AwaitedAreObjects ==
  ASSUME WaitsShape, Placed, NEW t \in Threads
  PROVE  Awaited(t) \subseteq Objects
<1>1. CASE wait[t] = NoWait
  BY <1>1 DEF Awaited, IsNt, NoWait
<1>2. CASE wait[t] # NoWait
  <2>1. wait[t] \in Waits /\ index[t] \in 1 .. Len(wait[t].objects)
    BY <1>2 DEF WaitsShape, Placed, Calls
  <2>2. DOMAIN wait[t].objects = 1 .. Len(wait[t].objects)
    BY <2>1, WaitHasObjects
  <2> QED
    BY <2>1, <2>2, WaitHasObjects DEF Awaited, IsNt
<1> QED
  BY <1>1, <1>2

\* A wait is not made ready by a step that neither moves it on nor makes one of its objects
\* ready.
LEMMA ReadyNeedsAnObject ==
  ASSUME WaitsShape, Placed, NEW u \in Threads, wait'[u] = wait[u], index'[u] = index[u],
         \A o \in Awaited(u) : Satisfied(u, o)' => Satisfied(u, o)
  PROVE  Ready(u)' => Ready(u)
<1>1. Awaited(u)' = Awaited(u)
  BY DEF Awaited, IsNt
<1> QED
  BY <1>1 DEF Ready

\* What a thread takes is not more ready for another.
LEMMA TakingMakesNothingReady ==
  ASSUME WaitsShape, HeldOnce, NEW t \in Threads, NEW u \in Threads, t # u, NEW o \in Objects,
         Consume(t, Taken(t)), Satisfied(u, o)'
  PROVE  Satisfied(u, o)
<1>1. CASE Kind[o] = "semaphore"
  <2>1. count'[o] > 0 /\ count[o] \in Nat
    BY <1>1 DEF WaitsShape, Satisfied
  <2>2. count'[o] = count[o] \/ count'[o] = count[o] - 1
    BY DEF WaitsShape, Consume
  <2>3. count[o] > 0
    BY <2>1, <2>2
  <2> QED
    BY <1>1, <2>3 DEF Satisfied
<1>2. CASE Kind[o] = "mutant"
  <2>1. recursion'[o] = 0 \/ owner'[o] = {u}
    BY <1>2 DEF Satisfied
  <2>2. \/ owner'[o] = owner[o] /\ recursion'[o] = recursion[o]
        \/ owner'[o] = {t} /\ recursion'[o] = recursion[o] + 1
    BY DEF WaitsShape, Consume
  <2>3. {t} # {u} /\ recursion[o] \in Nat
    BY DEF WaitsShape
  <2>4. recursion[o] = 0 \/ owner[o] = {u}
    BY <2>1, <2>2, <2>3
  <2> QED
    BY <1>2, <2>4 DEF Satisfied
<1>3. CASE Kind[o] \notin {"semaphore", "mutant"}
  BY <1>3 DEF Consume, Satisfied
<1> QED
  BY <1>1, <1>2, <1>3

-----------------------------------------------------------------------------
\* The inductive invariant of the waits' types.
WaitsSound == WaitsShape /\ HeldOnce /\ Placed

\* The shape at the start.
LEMMA SoundInitially == WaitsInit => WaitsSound
<1> SUFFICES ASSUME WaitsInit PROVE WaitsSound
  OBVIOUS
<1>1. WaitsShape
  BY DEF WaitsInit, WaitsShape, Calls
<1>2. HeldOnce /\ Placed
  BY DEF WaitsInit, HeldOnce, Placed
<1> QED
  BY <1>1, <1>2 DEF WaitsSound

\* What is taken was there to take.
LEMMA TakenIsThere ==
  ASSUME WaitsSound, NEW t \in Threads, Ready(t), step[t] # "run"
  PROVE  Taken(t) \subseteq Objects /\ \A o \in Taken(t) : Satisfied(t, o)
<1>1. Taken(t) \subseteq Awaited(t) /\ \A o \in Taken(t) : Satisfied(t, o)
  BY DEF Taken, Ready
<1> QED
  BY <1>1, AwaitedAreObjects DEF WaitsSound

\* Taking keeps the objects' shape.
LEMMA ConsumeKeepsShape ==
  ASSUME WaitsSound, NEW t \in Threads, Ready(t), step[t] # "run", Consume(t, Taken(t))
  PROVE  /\ signalled' \subseteq Objects
         /\ count' \in [Objects -> Nat] /\ recursion' \in [Objects -> Nat]
         /\ owner' \in [Objects -> SUBSET Threads]
         /\ HeldOnce'
<1> USE DEF WaitsSound, WaitsShape, Consume
<1>1. \A o \in Taken(t) : Satisfied(t, o)
  BY TakenIsThere
<1>2. \A o \in Taken(t) : Kind[o] = "semaphore" => count[o] > 0
  BY <1>1 DEF Satisfied
<1>3. count' \in [Objects -> Nat] /\ recursion' \in [Objects -> Nat]
  BY <1>2
<1>4. owner' \in [Objects -> SUBSET Threads] /\ signalled' \subseteq Objects
  OBVIOUS
<1>5. HeldOnce'
  BY DEF HeldOnce
<1> QED
  BY <1>3, <1>4, <1>5

\* A wait that is over leaves its thread running.
LEMMA ReturnKeepsShape ==
  ASSUME WaitsSound, NEW t \in Threads, Return(t)
  PROVE  /\ step' \in [Threads -> {"run", "test", "blocked", "notified", "pulse"}]
         /\ wait' \in [Threads -> Calls] /\ index' \in [Threads -> Nat]
         /\ took' \in [Threads -> SUBSET Objects]
         /\ Placed'
<1>1. /\ step' \in [Threads -> {"run", "test", "blocked", "notified", "pulse"}]
      /\ wait' \in [Threads -> Calls] /\ index' \in [Threads -> Nat]
      /\ took' \in [Threads -> SUBSET Objects]
  BY DEF Return, WaitsSound, WaitsShape, Calls
<1>2. Placed'
  BY DEF Return, WaitsSound, WaitsShape, Placed
<1> QED
  BY <1>1, <1>2

\* Waking changes only the steps of threads that sleep.
LEMMA WakingKeepsPlaces ==
  ASSUME WaitsSound, NEW t \in Threads, NEW o \in Objects, step' = WokenBy(t, o),
         UNCHANGED <<wait, index>>
  PROVE  step' \in [Threads -> {"run", "test", "blocked", "notified", "pulse"}] /\ Placed'
<1>1. step' \in [Threads -> {"run", "test", "blocked", "notified", "pulse"}]
  BY DEF WaitsSound, WaitsShape, WokenBy
<1>2. Placed'
  BY DEF WaitsSound, WaitsShape, WokenBy, Placed
<1> QED
  BY <1>1, <1>2

\* Every step keeps the shape.
LEMMA SoundKept == WaitsSound /\ [WaitsNext]_waitsVars => WaitsSound'
<1> SUFFICES ASSUME WaitsSound, [WaitsNext]_waitsVars PROVE WaitsSound'
  OBVIOUS
<1>1. CASE UNCHANGED waitsVars
  BY <1>1 DEF WaitsSound, WaitsShape, HeldOnce, Placed, waitsVars, objectVars, threadVars
<1>2. ASSUME NEW t \in Threads, NEW w \in Waits, Call(t, w) PROVE WaitsSound'
  <2>1. w \in Calls /\ w # NoWait /\ 1 \in 1 .. Len(w.objects)
    BY WaitHasObjects DEF Calls
  <2>2. index[t] = 1
    BY <1>2, WaitHasObjects DEF Call, WaitsSound, WaitsShape, Placed
  <2> QED
    BY <1>2, <2>1, <2>2 DEF Call, WaitsSound, WaitsShape, HeldOnce, Placed, objectVars
<1>3. ASSUME NEW t \in Threads, TakeAwaited(t) PROVE WaitsSound'
  <2>1. Ready(t) /\ step[t] # "run" /\ Consume(t, Taken(t)) /\ pulsed' = pulsed
    BY <1>3 DEF TakeAwaited, AtTest
  <2>2. CASE wait[t].api = "nt-all" /\ ~Last(t)
    <3>1. /\ step' = [step EXCEPT ![t] = "test"] /\ index' = [index EXCEPT ![t] = @ + 1]
          /\ wait' = wait /\ took' = [took EXCEPT ![t] = @ \union Taken(t)]
      BY <1>3, <2>2 DEF TakeAwaited, Advance
    <3>2. wait[t] \in Waits /\ index[t] \in 1 .. Len(wait[t].objects)
      BY <2>2 DEF WaitsSound, WaitsShape, Placed, Calls, NoWait
    <3>3. index[t] + 1 \in 1 .. Len(wait[t].objects)
      BY <2>2, <3>2, WaitHasObjects DEF Last
    <3>4. WaitsShape'
      BY <2>1, <3>1, TakenIsThere, ConsumeKeepsShape DEF WaitsSound, WaitsShape
    <3>5. Placed'
      BY <3>1, <3>2, <3>3, WaitHasObjects DEF WaitsSound, WaitsShape, Placed
    <3> QED
      BY <2>1, <3>4, <3>5, ConsumeKeepsShape DEF WaitsSound
  <2>3. CASE ~(wait[t].api = "nt-all" /\ ~Last(t))
    <3>1. Return(t)
      BY <1>3, <2>3 DEF TakeAwaited
    <3> QED
      BY <2>1, <3>1, ConsumeKeepsShape, ReturnKeepsShape DEF WaitsSound, WaitsShape
  <2> QED
    BY <2>2, <2>3
<1>4. ASSUME NEW t \in Threads, Block(t) PROVE WaitsSound'
  BY <1>4 DEF Block, AtTest, WaitsSound, WaitsShape, HeldOnce, Placed, objectVars
<1>5. ASSUME NEW t \in Threads, Poll(t) PROVE WaitsSound'
  <2>1. wait[t] \in Waits /\ index[t] \in 1 .. Len(wait[t].objects) /\ wait[t] # NoWait
    BY <1>5 DEF Poll, AtTest, WaitsSound, WaitsShape, Placed, Calls
  <2>2. (IF Last(t) THEN 1 ELSE index[t] + 1) \in 1 .. Len(wait[t].objects)
    BY <2>1, WaitHasObjects DEF Last
  <2> QED
    BY <1>5, <2>1, <2>2 DEF Poll, WaitsSound, WaitsShape, HeldOnce, Placed, objectVars
<1>6. ASSUME NEW t \in Threads, TimeOut(t) PROVE WaitsSound'
  BY <1>6, ReturnKeepsShape DEF TimeOut, WaitsSound, WaitsShape, HeldOnce, objectVars
<1>7. ASSUME NEW t \in Threads, WakeUp(t) PROVE WaitsSound'
  BY <1>7 DEF WakeUp, WaitsSound, WaitsShape, HeldOnce, Placed, objectVars
<1>8. ASSUME NEW t \in Threads, NEW o \in Objects, Set(t, o) PROVE WaitsSound'
  BY <1>8, WakingKeepsPlaces DEF Set, WaitsSound, WaitsShape, HeldOnce
<1>9. ASSUME NEW t \in Threads, NEW o \in Objects, Clear(t, o) PROVE WaitsSound'
  BY <1>9 DEF Clear, WaitsSound, WaitsShape, HeldOnce, Placed, threadVars
<1>10. ASSUME NEW t \in Threads, NEW o \in Objects, Pulse(t, o) PROVE WaitsSound'
  BY <1>10 DEF Pulse, WokenBy, WaitsSound, WaitsShape, HeldOnce, Placed
<1>11. ASSUME NEW t \in Threads, EndPulse(t) PROVE WaitsSound'
  BY <1>11 DEF EndPulse, WaitsSound, WaitsShape, HeldOnce, Placed
<1>12. ASSUME NEW t \in Threads, NEW o \in Objects, NEW increment \in 1 .. 2,
              Release(t, o, increment)
       PROVE  WaitsSound'
  <2>1. count' \in [Objects -> Nat]
    <3>1. Limit[o] \in Nat /\ count[o] + increment \in Nat
      BY WaitsAssumption DEF WaitsSound, WaitsShape
    <3>2. \E n \in Nat : count' = [count EXCEPT ![o] = n]
      BY <1>12, <3>1 DEF Release
    <3> QED
      BY <3>2 DEF WaitsSound, WaitsShape
  <2> QED
    BY <1>12, <2>1, WakingKeepsPlaces DEF Release, WaitsSound, WaitsShape, HeldOnce
<1>13. ASSUME NEW t \in Threads, NEW o \in Objects, ReleaseMutant(t, o) PROVE WaitsSound'
  <2>1. recursion[o] # 0
    BY <1>13 DEF ReleaseMutant, WaitsSound, HeldOnce
  <2>2. recursion' = [recursion EXCEPT ![o] = @ - 1] /\ recursion' \in [Objects -> Nat]
    BY <1>13, <2>1 DEF ReleaseMutant, WaitsSound, WaitsShape
  <2>3. CASE recursion[o] > 1
    BY <1>13, <2>2, <2>3 DEF ReleaseMutant, WaitsSound, WaitsShape, HeldOnce, Placed
  <2>4. CASE ~(recursion[o] > 1)
    <3>1. owner' = [owner EXCEPT ![o] = {}] /\ step' = WokenBy(t, o) /\ recursion'[o] = 0
      BY <1>13, <2>1, <2>2, <2>4 DEF ReleaseMutant, WaitsSound, WaitsShape
    <3>2. HeldOnce' /\ owner' \in [Objects -> SUBSET Threads]
      BY <3>1, <2>2 DEF WaitsSound, WaitsShape, HeldOnce
    <3> QED
      BY <1>13, <2>2, <3>1, <3>2, WakingKeepsPlaces DEF ReleaseMutant, WaitsSound, WaitsShape
  <2> QED
    BY <2>3, <2>4
<1> QED
  BY <1>1, <1>2, <1>3, <1>4, <1>5, <1>6, <1>7, <1>8, <1>9, <1>10, <1>11, <1>12, <1>13
     DEF WaitsNext, AllSleep, Waiting, Signalling

-----------------------------------------------------------------------------
\* A step of one thread that moves no other and makes nothing ready leaves the sleepers asleep.
LEMMA SleepersSleepOn ==
  ASSUME WaitsSound, NoLostWakeup, NEW t \in Threads,
         \A u \in Threads \ {t} : wait'[u] = wait[u] /\ index'[u] = index[u] /\ step'[u] = step[u],
         \A u \in Threads \ {t} : \A o \in Objects : Satisfied(u, o)' => Satisfied(u, o),
         step'[t] # "blocked"
  PROVE  NoLostWakeup'
<1> SUFFICES ASSUME NEW u \in Threads, step'[u] = "blocked" PROVE ~Ready(u)'
  BY DEF NoLostWakeup
<1>1. u # t /\ step[u] = "blocked"
  OBVIOUS
<1>2. Awaited(u) \subseteq Objects
  BY AwaitedAreObjects DEF WaitsSound
<1>3. Ready(u)' => Ready(u)
  BY <1>1, <1>2, ReadyNeedsAnObject DEF WaitsSound
<1> QED
  BY <1>1, <1>3 DEF NoLostWakeup

\* A step that makes one object ready and wakes who waits for it leaves the others asleep.
LEMMA WakingMissesNobody ==
  ASSUME WaitsSound, NoLostWakeup, NEW t \in Threads, NEW o \in Objects,
         UNCHANGED <<wait, index>>, step' = WokenBy(t, o),
         \A u \in Threads : \A other \in Objects \ {o} : Satisfied(u, other)' = Satisfied(u, other)
  PROVE  NoLostWakeup'
<1> SUFFICES ASSUME NEW u \in Threads, step'[u] = "blocked" PROVE ~Ready(u)'
  BY DEF NoLostWakeup
<1>1. step[u] = "blocked" /\ o \notin Awaited(u)
  BY DEF WokenBy, WaitsSound, WaitsShape
<1>2. Awaited(u) \subseteq Objects \ {o}
  BY <1>1, AwaitedAreObjects DEF WaitsSound
<1>3. Ready(u)' => Ready(u)
  BY <1>2, ReadyNeedsAnObject DEF WaitsSound
<1> QED
  BY <1>1, <1>3 DEF NoLostWakeup

\* No step loses a wake-up.
LEMMA NoLostWakeupKept == WaitsSound /\ NoLostWakeup /\ [WaitsNext]_waitsVars => NoLostWakeup'
<1> SUFFICES ASSUME WaitsSound, NoLostWakeup, [WaitsNext]_waitsVars PROVE NoLostWakeup'
  OBVIOUS
<1>1. CASE UNCHANGED waitsVars
  BY <1>1 DEF NoLostWakeup, Ready, Awaited, IsNt, Satisfied, waitsVars, objectVars, threadVars
<1>2. ASSUME NEW t \in Threads, NEW w \in Waits, Call(t, w) PROVE NoLostWakeup'
  <2>1. /\ \A u \in Threads \ {t} : wait'[u] = wait[u] /\ index'[u] = index[u] /\ step'[u] = step[u]
        /\ step'[t] = "test"
    BY <1>2 DEF Call, WaitsSound, WaitsShape
  <2>2. \A u \in Threads : \A o \in Objects : Satisfied(u, o)' => Satisfied(u, o)
    BY <1>2 DEF Call, objectVars, Satisfied
  <2> QED
    BY <2>1, <2>2, SleepersSleepOn
<1>3. ASSUME NEW t \in Threads, TakeAwaited(t) PROVE NoLostWakeup'
  <2>1. Consume(t, Taken(t)) /\ ((Advance(t) /\ UNCHANGED wait) \/ Return(t))
    BY <1>3 DEF TakeAwaited
  <2>2. /\ \A u \in Threads \ {t} : wait'[u] = wait[u] /\ index'[u] = index[u] /\ step'[u] = step[u]
        /\ step'[t] # "blocked"
    BY <2>1 DEF Advance, Return, WaitsSound, WaitsShape
  <2>3. \A u \in Threads \ {t} : \A o \in Objects : Satisfied(u, o)' => Satisfied(u, o)
    BY <2>1, TakingMakesNothingReady DEF WaitsSound
  <2> QED
    BY <2>2, <2>3, SleepersSleepOn
<1>4. ASSUME NEW t \in Threads, Block(t) PROVE NoLostWakeup'
  <2>1. UNCHANGED <<objectVars, wait, index>> /\ ~Ready(t)
    BY <1>4 DEF Block
  <2>2. \A u \in Threads : Ready(u)' = Ready(u)
    BY <2>1 DEF Ready, Awaited, IsNt, Satisfied, objectVars
  <2>3. \A u \in Threads \ {t} : step'[u] = step[u]
    BY <1>4 DEF Block, WaitsSound, WaitsShape
  <2> QED
    BY <2>1, <2>2, <2>3 DEF NoLostWakeup
<1>5. ASSUME NEW t \in Threads, Poll(t) PROVE NoLostWakeup'
  <2>1. /\ \A u \in Threads \ {t} : wait'[u] = wait[u] /\ index'[u] = index[u] /\ step'[u] = step[u]
        /\ step'[t] # "blocked"
    BY <1>5 DEF Poll, AtTest, WaitsSound, WaitsShape
  <2>2. \A u \in Threads : \A o \in Objects : Satisfied(u, o)' => Satisfied(u, o)
    BY <1>5 DEF Poll, objectVars, Satisfied
  <2> QED
    BY <2>1, <2>2, SleepersSleepOn
<1>6. ASSUME NEW t \in Threads, TimeOut(t) PROVE NoLostWakeup'
  <2>1. /\ \A u \in Threads \ {t} : wait'[u] = wait[u] /\ index'[u] = index[u] /\ step'[u] = step[u]
        /\ step'[t] # "blocked"
    BY <1>6 DEF TimeOut, Return, WaitsSound, WaitsShape
  <2>2. \A u \in Threads : \A o \in Objects : Satisfied(u, o)' => Satisfied(u, o)
    BY <1>6 DEF TimeOut, objectVars, Satisfied
  <2> QED
    BY <2>1, <2>2, SleepersSleepOn
<1>7. ASSUME NEW t \in Threads, WakeUp(t) PROVE NoLostWakeup'
  <2>1. /\ \A u \in Threads \ {t} : wait'[u] = wait[u] /\ index'[u] = index[u] /\ step'[u] = step[u]
        /\ step'[t] # "blocked"
    BY <1>7 DEF WakeUp, WaitsSound, WaitsShape
  <2>2. \A u \in Threads : \A o \in Objects : Satisfied(u, o)' => Satisfied(u, o)
    BY <1>7 DEF WakeUp, objectVars, Satisfied
  <2> QED
    BY <2>1, <2>2, SleepersSleepOn
<1>8. ASSUME NEW t \in Threads, NEW o \in Objects, Set(t, o) PROVE NoLostWakeup'
  <2>1. \A u \in Threads : \A other \in Objects \ {o} : Satisfied(u, other)' = Satisfied(u, other)
    BY <1>8 DEF Set, Satisfied
  <2> QED
    BY <1>8, <2>1, WakingMissesNobody DEF Set
<1>9. ASSUME NEW t \in Threads, NEW o \in Objects, Clear(t, o) PROVE NoLostWakeup'
  <2>1. UNCHANGED <<wait, index, step>> /\ step[t] # "blocked"
    BY <1>9 DEF Clear, threadVars
  <2>2. \A u \in Threads : \A other \in Objects : Satisfied(u, other)' => Satisfied(u, other)
    BY <1>9 DEF Clear, Satisfied
  <2> QED
    BY <2>1, <2>2, SleepersSleepOn
<1>10. ASSUME NEW t \in Threads, NEW o \in Objects, Pulse(t, o) PROVE NoLostWakeup'
  <2>1. UNCHANGED <<wait, index>> /\ step' = [WokenBy(t, o) EXCEPT ![t] = "pulse"]
    BY <1>10 DEF Pulse
  <2>2. \A u \in Threads : \A other \in Objects \ {o} : Satisfied(u, other)' = Satisfied(u, other)
    BY <1>10 DEF Pulse, Satisfied
  <2> SUFFICES ASSUME NEW u \in Threads, step'[u] = "blocked" PROVE ~Ready(u)'
    BY DEF NoLostWakeup
  <2>3. step[u] = "blocked" /\ o \notin Awaited(u)
    BY <2>1 DEF WokenBy, WaitsSound, WaitsShape
  <2>4. Awaited(u) \subseteq Objects \ {o}
    BY <2>3, AwaitedAreObjects DEF WaitsSound
  <2>5. Ready(u)' => Ready(u)
    BY <2>1, <2>2, <2>4, ReadyNeedsAnObject DEF WaitsSound
  <2> QED
    BY <2>3, <2>5 DEF NoLostWakeup
<1>11. ASSUME NEW t \in Threads, EndPulse(t) PROVE NoLostWakeup'
  <2>1. /\ \A u \in Threads \ {t} : wait'[u] = wait[u] /\ index'[u] = index[u] /\ step'[u] = step[u]
        /\ step'[t] # "blocked"
    BY <1>11 DEF EndPulse, WaitsSound, WaitsShape
  <2>2. \A u \in Threads : \A o \in Objects : Satisfied(u, o)' => Satisfied(u, o)
    BY <1>11 DEF EndPulse, Satisfied
  <2> QED
    BY <2>1, <2>2, SleepersSleepOn
<1>12. ASSUME NEW t \in Threads, NEW o \in Objects, NEW increment \in 1 .. 2,
              Release(t, o, increment)
       PROVE  NoLostWakeup'
  <2>1. \A u \in Threads : \A other \in Objects \ {o} : Satisfied(u, other)' = Satisfied(u, other)
    BY <1>12 DEF Release, Satisfied, WaitsSound, WaitsShape
  <2> QED
    BY <1>12, <2>1, WakingMissesNobody DEF Release
<1>13. ASSUME NEW t \in Threads, NEW o \in Objects, ReleaseMutant(t, o) PROVE NoLostWakeup'
  <2>1. CASE recursion[o] > 1
    <3>1. UNCHANGED <<wait, index, step>> /\ step[t] # "blocked"
      BY <1>13, <2>1 DEF ReleaseMutant
    <3>2. \A u \in Threads : \A other \in Objects : Satisfied(u, other)' => Satisfied(u, other)
      BY <1>13, <2>1 DEF ReleaseMutant, Satisfied, WaitsSound, WaitsShape
    <3> QED
      BY <3>1, <3>2, SleepersSleepOn
  <2>2. CASE ~(recursion[o] > 1)
    <3>1. \A u \in Threads : \A other \in Objects \ {o} : Satisfied(u, other)' = Satisfied(u, other)
      BY <1>13, <2>2 DEF ReleaseMutant, Satisfied, WaitsSound, WaitsShape
    <3> QED
      BY <1>13, <2>2, <3>1, WakingMissesNobody DEF ReleaseMutant
  <2> QED
    BY <2>1, <2>2
<1> QED
  BY <1>1, <1>2, <1>3, <1>4, <1>5, <1>6, <1>7, <1>8, <1>9, <1>10, <1>11, <1>12, <1>13
     DEF WaitsNext, AllSleep, Waiting, Signalling

\* No thread sleeps at the start.
LEMMA NobodySleepsInitially == WaitsInit => NoLostWakeup
  BY DEF WaitsInit, NoLostWakeup

-----------------------------------------------------------------------------
\* Nothing is taken at the start.
LEMMA NothingTookInitially == WaitsInit => TookInOrder
  BY DEF WaitsInit, TookInOrder

\* A step that moves no wait takes nothing of one.
LEMMA StillWaits == TookInOrder /\ UNCHANGED <<wait, index, took>> => TookInOrder'
  BY DEF TookInOrder, Passed

\* A wait that is over has taken nothing.
LEMMA ReturnTakesNothing ==
  ASSUME WaitsSound, TookInOrder, NEW t \in Threads, Return(t)
  PROVE  TookInOrder'
<1>1. took'[t] = {}
  BY DEF Return, WaitsSound, WaitsShape
<1>2. \A u \in Threads \ {t} : wait'[u] = wait[u] /\ index'[u] = index[u] /\ took'[u] = took[u]
  BY DEF Return, WaitsSound, WaitsShape
<1> QED
  BY <1>1, <1>2 DEF TookInOrder, Passed

\* An NT wait on all goes on to the next object only, past what it took.
LEMMA AdvancePasses ==
  ASSUME WaitsSound, TookInOrder, NEW t \in Threads, wait[t].api = "nt-all", Advance(t),
         UNCHANGED wait, took' = [took EXCEPT ![t] = @ \union Taken(t)]
  PROVE  TookInOrder'
<1>1. index[t] \in Nat \ {0} /\ index'[t] = index[t] + 1 /\ took'[t] = took[t] \union Taken(t)
  <2>1. wait[t] \in Waits /\ index[t] \in 1 .. Len(wait[t].objects)
    BY DEF WaitsSound, WaitsShape, Placed, Calls, NoWait
  <2>2. index[t] \in Nat \ {0}
    BY <2>1, WaitHasObjects
  <2> QED
    BY <2>2 DEF Advance, WaitsSound, WaitsShape
<1>2. took[t] \subseteq Passed(t)
  BY DEF TookInOrder
<1>3. Taken(t) \subseteq {wait[t].objects[index[t]]}
  BY DEF Taken, Awaited, IsNt
<1>4. Passed(t) \union {wait[t].objects[index[t]]} \subseteq Passed(t)'
  BY <1>1 DEF Passed
<1>5. took'[t] \subseteq Passed(t)'
  BY <1>1, <1>2, <1>3, <1>4
<1>6. \A u \in Threads \ {t} : wait'[u] = wait[u] /\ index'[u] = index[u] /\ took'[u] = took[u]
  BY DEF Advance, WaitsSound, WaitsShape
<1>7. \A u \in Threads \ {t} : Passed(u)' = Passed(u)
  BY <1>6 DEF Passed
<1> QED
  BY <1>5, <1>6, <1>7 DEF TookInOrder

\* Every step keeps what a wait on all took behind it.
LEMMA TookInOrderKept == WaitsSound /\ TookInOrder /\ [WaitsNext]_waitsVars => TookInOrder'
<1> SUFFICES ASSUME WaitsSound, TookInOrder, [WaitsNext]_waitsVars PROVE TookInOrder'
  OBVIOUS
<1>1. CASE UNCHANGED waitsVars
  BY <1>1, StillWaits DEF waitsVars, threadVars
<1>2. ASSUME NEW t \in Threads, NEW w \in Waits, Call(t, w) PROVE TookInOrder'
  <2>1. step[t] = "run" /\ UNCHANGED <<index, took>> /\ wait' = [wait EXCEPT ![t] = w]
    BY <1>2 DEF Call
  <2>2. wait[t] = NoWait
    BY <2>1 DEF WaitsSound, Placed
  <2>3. took[t] = {}
    BY <2>2 DEF TookInOrder, NoWait
  <2>4. \A u \in Threads \ {t} : wait'[u] = wait[u]
    BY <2>1 DEF WaitsSound, WaitsShape
  <2> QED
    BY <2>1, <2>3, <2>4 DEF TookInOrder, Passed
<1>3. ASSUME NEW t \in Threads, TakeAwaited(t) PROVE TookInOrder'
  BY <1>3, ReturnTakesNothing, AdvancePasses DEF TakeAwaited
<1>4. ASSUME NEW t \in Threads, Block(t) PROVE TookInOrder'
  BY <1>4, StillWaits DEF Block
<1>5. ASSUME NEW t \in Threads, Poll(t) PROVE TookInOrder'
  <2>1. took[t] = {} /\ UNCHANGED <<wait, took>>
    BY <1>5 DEF Poll, TookInOrder
  <2>2. \A u \in Threads \ {t} : index'[u] = index[u]
    BY <1>5 DEF Poll, WaitsSound, WaitsShape
  <2> QED
    BY <2>1, <2>2 DEF TookInOrder, Passed
<1>6. ASSUME NEW t \in Threads, TimeOut(t) PROVE TookInOrder'
  BY <1>6, ReturnTakesNothing DEF TimeOut
<1>7. ASSUME NEW t \in Threads, WakeUp(t) PROVE TookInOrder'
  BY <1>7, StillWaits DEF WakeUp
<1>8. ASSUME NEW t \in Threads, Signalling(t) PROVE TookInOrder'
  <2>1. UNCHANGED <<wait, index, took>>
    BY <1>8 DEF Signalling, Set, Clear, Pulse, EndPulse, Release, ReleaseMutant, threadVars
  <2> QED
    BY <2>1, StillWaits
<1> QED
  BY <1>1, <1>2, <1>3, <1>4, <1>5, <1>6, <1>7, <1>8 DEF WaitsNext, AllSleep, Waiting

\* A set of numbers has a smallest one.
LEMMA MinIs ==
  ASSUME NEW S, S \subseteq Nat, S # {}
  PROVE  Min(S) \in S /\ \A n \in S : Min(S) <= n
<1> DEFINE R == OpToRel(<, Nat)
<1>1. IsWellFoundedOn(R, Nat)
  BY NatLessThanWellFounded, Zenon
<1>2. \A m, n \in Nat : m < n => <<m, n>> \in R
  BY Zenon DEF OpToRel
<1> HIDE DEF R
<1>3. PICK m \in S : \A n \in S : ~(<<n, m>> \in R)
  BY <1>1, WFMin
<1>4. ASSUME NEW n \in S PROVE m <= n
  <2>1. ~(n < m)
    BY <1>2, <1>3
  <2> QED
    BY <2>1
<1> QED
  BY <1>4, Zenon DEF Min

\* A thread in a wait on all waits for one object, and what it has taken comes before that one.
AwaitedAt(v) == wait[v].objects[index[v]]

LEMMA OrderedWaiter ==
  ASSUME WaitsSound, TookInOrder, OneOrder
  PROVE  \E rank \in [Objects -> Nat] :
           \A v \in Threads : wait[v].api = "nt-all" =>
             /\ AwaitedAt(v) \in Objects /\ Awaited(v) = {AwaitedAt(v)}
             /\ \A o \in took[v] : o \in Objects /\ rank[o] < rank[AwaitedAt(v)]
<1>1. PICK rank \in [Objects -> Nat] :
        \A w \in Waits : w.api = "nt-all" =>
          \A i, j \in 1 .. Len(w.objects) : i < j => rank[w.objects[i]] < rank[w.objects[j]]
  BY DEF OneOrder
<1>2. ASSUME NEW v \in Threads, wait[v].api = "nt-all"
      PROVE  /\ AwaitedAt(v) \in Objects /\ Awaited(v) = {AwaitedAt(v)}
             /\ \A o \in took[v] : o \in Objects /\ rank[o] < rank[AwaitedAt(v)]
  <2>1. wait[v] \in Waits /\ index[v] \in 1 .. Len(wait[v].objects)
    BY <1>2 DEF WaitsSound, WaitsShape, Placed, Calls, NoWait
  <2>2. \A i \in 1 .. Len(wait[v].objects) : wait[v].objects[i] \in Objects
    BY <2>1, WaitHasObjects
  <2>3. ASSUME NEW o \in took[v] PROVE o \in Objects /\ rank[o] < rank[AwaitedAt(v)]
    <3>1. PICK i \in 1 .. (index[v] - 1) : o = wait[v].objects[i]
      BY <1>2 DEF TookInOrder, Passed
    <3>2. i \in 1 .. Len(wait[v].objects) /\ i < index[v]
      BY <2>1, WaitHasObjects
    <3> QED
      BY <1>1, <1>2, <2>1, <2>2, <3>1, <3>2 DEF AwaitedAt
  <2> QED
    BY <1>2, <2>1, <2>2, <2>3 DEF Awaited, AwaitedAt, IsNt
<1> QED
  BY <1>1, <1>2

\* Two waits on all that go through their objects in one order do not wait for each other.
LEMMA OrderedWaitersAdvance == WaitsSound /\ TookInOrder /\ OneOrder => AllWaitersCannotDeadlock
<1> SUFFICES ASSUME WaitsSound, TookInOrder, OneOrder,
                    NEW t \in Threads, NEW u \in Threads,
                    wait[t].api = "nt-all", wait[u].api = "nt-all",
                    Awaited(t) \subseteq took[u], Awaited(u) \subseteq took[t]
             PROVE  FALSE
  BY DEF AllWaitersCannotDeadlock
<1>1. PICK rank \in [Objects -> Nat] :
        \A v \in Threads : wait[v].api = "nt-all" =>
          /\ AwaitedAt(v) \in Objects /\ Awaited(v) = {AwaitedAt(v)}
          /\ \A o \in took[v] : o \in Objects /\ rank[o] < rank[AwaitedAt(v)]
  BY OrderedWaiter
<1>2. rank[AwaitedAt(t)] < rank[AwaitedAt(u)] /\ rank[AwaitedAt(u)] < rank[AwaitedAt(t)]
  BY <1>1
<1>3. rank[AwaitedAt(t)] \in Nat /\ rank[AwaitedAt(u)] \in Nat
  BY <1>1
<1> QED
  BY <1>2, <1>3

-----------------------------------------------------------------------------
\* The objects and the waits keep their types, and a mutant has at most one owner, which has it
\* when it has been taken (kernel_objects.cpp, DispatcherObject).
THEOREM WaitsTypeCorrect == WaitsSpec => []WaitsTypeOK
<1>1. WaitsSound => WaitsTypeOK
  BY DEF WaitsSound, WaitsShape, HeldOnce, Placed, Calls, WaitsTypeOK
<1> QED
  BY <1>1, SoundInitially, SoundKept, PTL DEF WaitsSpec

\* However many threads wait for however many objects, a thread that sleeps and has not been
\* notified has nothing to take (kernel_objects.cpp, Wait and WakeWaitersLocked).
THEOREM WakeupsAreNotLost == WaitsSpec => []NoLostWakeup
<1>1. WaitsInit => WaitsSound /\ NoLostWakeup
  BY SoundInitially, NobodySleepsInitially
<1>2. (WaitsSound /\ NoLostWakeup) /\ [WaitsNext]_waitsVars => (WaitsSound /\ NoLostWakeup)'
  BY SoundKept, NoLostWakeupKept
<1> QED
  BY <1>1, <1>2, PTL DEF WaitsSpec

\* A title that names objects in one order never has two waits on all wait for each other,
\* however many objects they name (kernel_events.cpp, NtWaitForMultipleObjectsEx).
THEOREM AllWaitersAdvance == OneOrder => (WaitsSpec => []AllWaitersCannotDeadlock)
<1> SUFFICES ASSUME OneOrder PROVE WaitsSpec => []AllWaitersCannotDeadlock
  OBVIOUS
<1>1. WaitsInit => WaitsSound /\ TookInOrder
  BY SoundInitially, NothingTookInitially
<1>2. (WaitsSound /\ TookInOrder) /\ [WaitsNext]_waitsVars => (WaitsSound /\ TookInOrder)'
  BY SoundKept, TookInOrderKept
<1>3. WaitsSound /\ TookInOrder => AllWaitersCannotDeadlock
  BY OrderedWaitersAdvance
<1> QED
  BY <1>1, <1>2, <1>3, PTL DEF WaitsSpec

\* What two waits on all cannot do, no circle of them can: in every set of threads that are in
\* one, some thread has taken nothing that a thread of the set waits for.
NoCircleOfWaiters ==
  \A S \in SUBSET Threads :
    S # {} /\ (\A t \in S : wait[t].api = "nt-all") =>
      \E u \in S : \A t \in S : Awaited(t) \cap took[u] = {}

\* The one that waits for the object that comes first in the title's order.
LEMMA FirstOfTheWaiters == WaitsSound /\ TookInOrder /\ OneOrder => NoCircleOfWaiters
<1> SUFFICES ASSUME WaitsSound, TookInOrder, OneOrder,
                    NEW S \in SUBSET Threads, S # {}, \A t \in S : wait[t].api = "nt-all"
             PROVE  \E u \in S : \A t \in S : Awaited(t) \cap took[u] = {}
  BY DEF NoCircleOfWaiters
<1>1. PICK rank \in [Objects -> Nat] :
        \A v \in S : /\ AwaitedAt(v) \in Objects /\ Awaited(v) = {AwaitedAt(v)}
                     /\ \A o \in took[v] : o \in Objects /\ rank[o] < rank[AwaitedAt(v)]
  BY OrderedWaiter
<1> DEFINE Ranks == {rank[AwaitedAt(v)] : v \in S}
<1>2. Ranks \subseteq Nat /\ Ranks # {}
  BY <1>1
<1>3. Min(Ranks) \in Ranks /\ \A n \in Ranks : Min(Ranks) <= n
  BY <1>2, MinIs
<1>4. PICK u \in S : rank[AwaitedAt(u)] = Min(Ranks)
  BY <1>3
<1>5. ASSUME NEW t \in S PROVE Awaited(t) \cap took[u] = {}
  <2>1. rank[AwaitedAt(u)] <= rank[AwaitedAt(t)]
    BY <1>3, <1>4, <1>5
  <2>2. ~ (AwaitedAt(t) \in took[u])
    <3>1. rank[AwaitedAt(u)] \in Nat /\ rank[AwaitedAt(t)] \in Nat
      BY <1>1, <1>4, <1>5
    <3> QED
      BY <1>1, <1>4, <2>1, <3>1
  <2> QED
    BY <1>1, <1>5, <2>2
<1> QED
  BY <1>4, <1>5

\* However many threads wait on all at a time, they never wait in a circle, as long as the title
\* names the objects in one order (kernel_events.cpp, NtWaitForMultipleObjectsEx).
THEOREM AllWaitersNeverCircle == OneOrder => (WaitsSpec => []NoCircleOfWaiters)
<1> SUFFICES ASSUME OneOrder PROVE WaitsSpec => []NoCircleOfWaiters
  OBVIOUS
<1>1. WaitsInit => WaitsSound /\ TookInOrder
  BY SoundInitially, NothingTookInitially
<1>2. (WaitsSound /\ TookInOrder) /\ [WaitsNext]_waitsVars => (WaitsSound /\ TookInOrder)'
  BY SoundKept, TookInOrderKept
<1>3. WaitsSound /\ TookInOrder => NoCircleOfWaiters
  BY FirstOfTheWaiters
<1> QED
  BY <1>1, <1>2, <1>3, PTL DEF WaitsSpec

-----------------------------------------------------------------------------
(* The heap *)

\* What the blocks are: not empty, within the heap; and free blocks neither overlap nor touch.
HeapBlocks == {b \in (0 .. HeapPages) \X (0 .. HeapPages) : b[1] < b[2]}
Separated(blocks) == \A b, c \in blocks : b = c \/ b[2] < c[1] \/ c[2] < b[1]

\* The types of the heap.
HeapShape ==
  /\ regions \subseteq HeapBlocks /\ free \subseteq HeapBlocks
  /\ mark \in 0 .. HeapPages
  /\ committed \subseteq 0 .. HeapPages - 1 /\ written \subseteq committed
  /\ commitFailed \in BOOLEAN /\ conflicted \in BOOLEAN

\* Above the high-water mark nothing was ever committed.
FreshAboveMark == conflicted \/ \A p \in committed : p < mark

\* The inductive invariant: the mark tells which of the pages given out need to be zeroed.
HeapInv == HeapShape /\ BooksBalance /\ FreshAboveMark

\* A size is rounded up to what holds it, an address down to one before it.
LEMMA RoundUpIs ==
  ASSUME NEW n \in Nat, NEW a \in Nat \ {0}
  PROVE  RoundUp(n, a) \in Nat /\ n <= RoundUp(n, a)
<1> DEFINE x == n + a - 1
           q == x \div a
<1>1. x \in Nat
  OBVIOUS
<1>2. q \in Nat /\ x = a * q + (x % a) /\ x % a \in 0 .. (a - 1)
  BY <1>1
<1> HIDE DEF x, q
<1>3. a * q \in Nat /\ q * a = a * q
  BY <1>2
<1>4. n <= a * q
  BY <1>2, <1>3 DEF x
<1> QED
  BY <1>3, <1>4 DEF RoundUp, x, q

LEMMA RoundDownIs ==
  ASSUME NEW n \in Nat, NEW a \in Nat \ {0}
  PROVE  RoundDown(n, a) \in 0 .. n
BY DEF RoundDown

\* A bounded set of numbers has a largest one.
LEMMA MaxIs ==
  ASSUME NEW top \in Nat, NEW S, S \subseteq 0 .. top, S # {}
  PROVE  Max(S) \in S /\ \A n \in S : n <= Max(S)
<1> DEFINE T == {top - n : n \in S}
<1>1. T \subseteq Nat /\ T # {}
  <2>1. PICK n \in S : TRUE
    OBVIOUS
  <2>2. top - n \in T
    OBVIOUS
  <2>3. \A i \in S : top - i \in Nat
    OBVIOUS
  <2> QED
    BY <2>2, <2>3
<1>2. Min(T) \in T /\ \A n \in T : Min(T) <= n
  <2> HIDE DEF T
  <2> QED
    BY <1>1, MinIs
<1>3. PICK m \in S : Min(T) = top - m
  BY <1>2
<1>4. \A n \in S : m >= n
  BY <1>2, <1>3
<1>5. Max(S) \in S /\ \A n \in S : Max(S) >= n
  BY <1>4, Zenon DEF Max
<1> QED
  BY <1>5

\* What is left of a block without a range.
LEMMA WithoutIs ==
  ASSUME NEW b \in HeapBlocks, NEW from \in Nat, NEW to \in Nat, from < to,
         NEW c \in Without(b, from, to), c[1] < c[2]
  PROVE  /\ c \in HeapBlocks
         /\ PagesOf(c) \subseteq PagesOf(b) \ (from .. to - 1)
         /\ b[1] <= c[1] /\ c[2] <= b[2]
         /\ (c[2] <= from \/ to <= c[1])
<1>1. /\ b[1] \in 0 .. HeapPages /\ b[2] \in 0 .. HeapPages /\ b[1] < b[2]
  BY DEF HeapBlocks
<1>2. \/ c[1] = b[1] /\ c[2] = (IF from < b[2] THEN from ELSE b[2])
      \/ c[1] = (IF to > b[1] THEN to ELSE b[1]) /\ c[2] = b[2]
  BY DEF Without
<1>3. \E x, y : c = <<x, y>>
  BY DEF Without
<1>4. b[1] <= c[1] /\ c[2] <= b[2] /\ (c[2] <= from \/ to <= c[1])
  BY <1>1, <1>2
<1>5. c[1] \in 0 .. HeapPages /\ c[2] \in 0 .. HeapPages
  BY <1>1, <1>2, <1>4, HeapAssumption
<1>6. c \in HeapBlocks
  BY <1>3, <1>5 DEF HeapBlocks
<1>7. PagesOf(c) \subseteq PagesOf(b) \ (from .. to - 1)
  BY <1>1, <1>4, <1>5 DEF PagesOf
<1> QED
  BY <1>4, <1>6, <1>7

\* RemoveFreeRange removes the range from the free pages, and leaves the free blocks apart.
LEMMA RemoveIs ==
  ASSUME NEW blocks, blocks \subseteq HeapBlocks, Separated(blocks),
         NEW from \in Nat, NEW to \in Nat, from < to
  PROVE  LET rest == RemoveFreeRange(blocks, from, to)
         IN  /\ rest \subseteq HeapBlocks /\ Separated(rest)
             /\ Cover(rest) = Cover(blocks) \ (from .. to - 1)
<1> DEFINE rest == RemoveFreeRange(blocks, from, to)
<1>1. ASSUME NEW c \in rest
      PROVE  \E b \in blocks : /\ c \in Without(b, from, to) /\ c[1] < c[2] /\ c \in HeapBlocks
                               /\ PagesOf(c) \subseteq PagesOf(b) \ (from .. to - 1)
                               /\ b[1] <= c[1] /\ c[2] <= b[2] /\ (c[2] <= from \/ to <= c[1])
  <2>1. PICK b \in blocks : c \in Without(b, from, to) /\ c[1] < c[2]
    BY DEF RemoveFreeRange
  <2> QED
    BY <2>1, WithoutIs
<1>2. rest \subseteq HeapBlocks
  BY <1>1
<1>3. ASSUME NEW c \in rest, NEW d \in rest PROVE c = d \/ c[2] < d[1] \/ d[2] < c[1]
  <2>1. PICK b \in blocks :
          /\ c \in Without(b, from, to) /\ c[1] < c[2] /\ c \in HeapBlocks
          /\ b[1] <= c[1] /\ c[2] <= b[2] /\ (c[2] <= from \/ to <= c[1])
    BY <1>1
  <2>2. PICK e \in blocks :
          /\ d \in Without(e, from, to) /\ d[1] < d[2] /\ d \in HeapBlocks
          /\ e[1] <= d[1] /\ d[2] <= e[2] /\ (d[2] <= from \/ to <= d[1])
    BY <1>1
  <2>3. /\ b[1] \in Nat /\ b[2] \in Nat /\ e[1] \in Nat /\ e[2] \in Nat
        /\ c[1] \in Nat /\ c[2] \in Nat /\ d[1] \in Nat /\ d[2] \in Nat
    BY <2>1, <2>2, HeapAssumption DEF HeapBlocks
  <2>4. CASE b = e
    <3> DEFINE left == <<b[1], IF from < b[2] THEN from ELSE b[2]>>
               right == <<IF to > b[1] THEN to ELSE b[1], b[2]>>
    <3>1. c \in {left, right} /\ d \in {left, right}
      BY <2>1, <2>2, <2>4 DEF Without
    <3>2. CASE c = left /\ d = right
      BY <2>1, <2>2, <2>3, <3>2
    <3>3. CASE c = right /\ d = left
      BY <2>1, <2>2, <2>3, <3>3
    <3> QED
      BY <3>1, <3>2, <3>3
  <2>5. CASE b # e
    <3>1. b[2] < e[1] \/ e[2] < b[1]
      BY <2>5 DEF Separated
    <3> QED
      BY <2>1, <2>2, <2>3, <3>1
  <2> QED
    BY <2>4, <2>5
<1>4. Separated(rest)
  <2> HIDE DEF rest
  <2> QED
    BY <1>3 DEF Separated
<1>5. Cover(rest) \subseteq Cover(blocks) \ (from .. to - 1)
  <2> SUFFICES ASSUME NEW p \in Cover(rest) PROVE p \in Cover(blocks) \ (from .. to - 1)
    OBVIOUS
  <2>1. PICK c \in rest : p \in PagesOf(c)
    BY DEF Cover
  <2>2. PICK b \in blocks : PagesOf(c) \subseteq PagesOf(b) \ (from .. to - 1)
    BY <1>1, <2>1
  <2> QED
    BY <2>1, <2>2 DEF Cover
<1>6. ASSUME NEW p \in Cover(blocks), p \notin from .. to - 1 PROVE p \in Cover(rest)
  <2>1. PICK b \in blocks : p \in PagesOf(b)
    BY DEF Cover
  <2>2. /\ b[1] \in Nat /\ b[2] \in Nat /\ p \in Nat /\ b[1] <= p /\ p < b[2]
        /\ (p < from \/ to <= p)
    BY <1>6, <2>1, HeapAssumption DEF HeapBlocks, PagesOf
  <2> DEFINE left == <<b[1], IF from < b[2] THEN from ELSE b[2]>>
             right == <<IF to > b[1] THEN to ELSE b[1], b[2]>>
  <2>3. left \in Without(b, from, to) /\ right \in Without(b, from, to)
    BY DEF Without
  <2>4. CASE p < from
    <3>1. p \in PagesOf(left) /\ left[1] < left[2]
      BY <2>2, <2>4 DEF PagesOf
    <3>2. left \in rest
      BY <2>1, <2>3, <3>1 DEF RemoveFreeRange
    <3> QED
      BY <3>1, <3>2 DEF Cover
  <2>5. CASE to <= p
    <3>1. p \in PagesOf(right) /\ right[1] < right[2]
      BY <2>2, <2>5 DEF PagesOf
    <3>2. right \in rest
      BY <2>1, <2>3, <3>1 DEF RemoveFreeRange
    <3> QED
      BY <3>1, <3>2 DEF Cover
  <2> QED
    BY <2>2, <2>4, <2>5
<1> QED
  BY <1>2, <1>4, <1>5, <1>6

\* InsertFree joins a block to the free pages, and leaves the free blocks apart.
LEMMA InsertIs ==
  ASSUME NEW blocks, blocks \subseteq HeapBlocks, Separated(blocks),
         NEW b \in HeapBlocks, PagesOf(b) \cap Cover(blocks) = {}
  PROVE  LET joined == InsertFree(blocks, b)
         IN  /\ joined \subseteq HeapBlocks /\ Separated(joined)
             /\ Cover(joined) = Cover(blocks) \union PagesOf(b)
<1> DEFINE near == {c \in blocks : c[2] = b[1] \/ c[1] = b[2]}
           firsts == {b[1]} \union {c[1] : c \in near}
           lasts == {b[2]} \union {c[2] : c \in near}
           merged == <<Min(firsts), Max(lasts)>>
<1>1. InsertFree(blocks, b) = (blocks \ near) \union {merged}
  BY DEF InsertFree
<1>2. /\ b[1] \in 0 .. HeapPages /\ b[2] \in 0 .. HeapPages /\ b[1] < b[2]
      /\ \A c \in blocks : c[1] \in 0 .. HeapPages /\ c[2] \in 0 .. HeapPages /\ c[1] < c[2]
  BY DEF HeapBlocks
<1>3. Min(firsts) \in firsts /\ \A n \in firsts : Min(firsts) <= n
  <2>1. firsts \subseteq Nat /\ firsts # {}
    BY <1>2, HeapAssumption
  <2> HIDE DEF firsts
  <2> QED
    BY <2>1, MinIs
<1>4. Max(lasts) \in lasts /\ \A n \in lasts : n <= Max(lasts)
  <2>1. lasts \subseteq 0 .. HeapPages /\ lasts # {}
    BY <1>2
  <2> HIDE DEF lasts
  <2> QED
    BY <2>1, MaxIs, HeapAssumption
<1> HIDE DEF merged
<1>5. merged[1] = Min(firsts) /\ merged[2] = Max(lasts) /\ \E x, y : merged = <<x, y>>
  BY DEF merged
\* The new block and its neighbours do not meet.
<1>6. ASSUME NEW c \in blocks PROVE c[2] <= b[1] \/ b[2] <= c[1]
  <2>1. \A p \in PagesOf(c) : p \notin PagesOf(b)
    BY DEF Cover
  <2>2. ASSUME c[1] < b[2], b[1] < c[2] PROVE FALSE
    <3>1. CASE b[1] <= c[1]
      <4>1. c[1] \in PagesOf(c) /\ c[1] \in PagesOf(b)
        BY <1>2, <2>2, <3>1, HeapAssumption DEF PagesOf
      <4> QED
        BY <2>1, <4>1
    <3>2. CASE c[1] < b[1]
      <4>1. b[1] \in PagesOf(c) /\ b[1] \in PagesOf(b)
        BY <1>2, <2>2, <3>2, HeapAssumption DEF PagesOf
      <4> QED
        BY <2>1, <4>1
    <3> QED
      BY <1>2, <3>1, <3>2, HeapAssumption
  <2> QED
    BY <1>2, <2>2, HeapAssumption
<1>7. /\ merged[1] \in 0 .. HeapPages /\ merged[2] \in 0 .. HeapPages
      /\ merged[1] <= b[1] /\ b[2] <= merged[2]
      /\ merged[1] = b[1] \/ \E c \in near : c[1] = merged[1] /\ c[2] = b[1]
      /\ merged[2] = b[2] \/ \E c \in near : c[2] = merged[2] /\ c[1] = b[2]
  <2>1. merged[1] \in firsts /\ merged[1] <= b[1] /\ merged[2] \in lasts /\ b[2] <= merged[2]
    BY <1>3, <1>4, <1>5
  <2>2. CASE merged[1] = b[1]
    BY <1>2, <2>1, <2>2
  <2>3. CASE merged[2] = b[2]
    BY <1>2, <2>1, <2>3
  <2>4. merged[1] # b[1] => \E c \in near : c[1] = merged[1] /\ c[2] = b[1]
    <3> SUFFICES ASSUME merged[1] # b[1] PROVE \E c \in near : c[1] = merged[1] /\ c[2] = b[1]
      OBVIOUS
    <3>1. PICK c \in near : c[1] = merged[1]
      BY <2>1
    <3>2. c[2] = b[1]
      BY <1>2, <2>1, <3>1, HeapAssumption
    <3> QED
      BY <3>1, <3>2
  <2>5. merged[2] # b[2] => \E c \in near : c[2] = merged[2] /\ c[1] = b[2]
    <3> SUFFICES ASSUME merged[2] # b[2] PROVE \E c \in near : c[2] = merged[2] /\ c[1] = b[2]
      OBVIOUS
    <3>1. PICK c \in near : c[2] = merged[2]
      BY <2>1
    <3>2. c[1] = b[2]
      BY <1>2, <2>1, <3>1, HeapAssumption
    <3> QED
      BY <3>1, <3>2
  <2>6. merged[1] \in 0 .. HeapPages /\ merged[2] \in 0 .. HeapPages
    BY <1>2, <2>1
  <2> QED
    BY <2>1, <2>4, <2>5, <2>6
<1>8. merged \in HeapBlocks
  BY <1>2, <1>5, <1>7, HeapAssumption DEF HeapBlocks
<1>9. ASSUME NEW c \in blocks, c \notin near PROVE c[2] < merged[1] \/ merged[2] < c[1]
  <2>1. c[2] < b[1] \/ b[2] < c[1]
    BY <1>2, <1>6, <1>9, HeapAssumption
  <2>2. CASE c[2] < b[1]
    <3>1. \A d \in near : d[2] = b[1] => c[2] < d[1]
      <4> SUFFICES ASSUME NEW d \in near, d[2] = b[1] PROVE c[2] < d[1]
        OBVIOUS
      <4>1. c[2] < d[1] \/ d[2] < c[1]
        BY <1>9 DEF Separated
      <4> QED
        BY <1>2, <2>2, <4>1, HeapAssumption
    <3> QED
      BY <1>7, <2>2, <3>1
  <2>3. CASE b[2] < c[1]
    <3>1. \A d \in near : d[1] = b[2] => d[2] < c[1]
      <4> SUFFICES ASSUME NEW d \in near, d[1] = b[2] PROVE d[2] < c[1]
        OBVIOUS
      <4>1. c[2] < d[1] \/ d[2] < c[1]
        BY <1>9 DEF Separated
      <4> QED
        BY <1>2, <2>3, <4>1, HeapAssumption
    <3> QED
      BY <1>7, <2>3, <3>1
  <2> QED
    BY <2>1, <2>2, <2>3
<1>10. Separated((blocks \ near) \union {merged})
  BY <1>9 DEF Separated
<1>11. \A c \in near : PagesOf(c) \subseteq PagesOf(merged)
  <2> SUFFICES ASSUME NEW c \in near PROVE PagesOf(c) \subseteq PagesOf(merged)
    OBVIOUS
  <2>1. c[1] \in firsts /\ c[2] \in lasts
    OBVIOUS
  <2>2. merged[1] <= c[1] /\ c[2] <= merged[2]
    BY <1>3, <1>4, <1>5, <2>1
  <2> QED
    BY <1>2, <1>7, <2>2, HeapAssumption DEF PagesOf
<1>12. PagesOf(merged) \subseteq PagesOf(b) \union Cover(blocks)
  <2> SUFFICES ASSUME NEW p \in PagesOf(merged), p \notin PagesOf(b) PROVE p \in Cover(blocks)
    OBVIOUS
  <2>1. p \in Nat /\ merged[1] <= p /\ p < merged[2] /\ (p < b[1] \/ b[2] <= p)
    BY <1>2, <1>7, HeapAssumption DEF PagesOf
  <2>2. \E c \in near : p \in PagesOf(c)
    <3>1. CASE p < b[1]
      <4>1. PICK c \in near : c[1] = merged[1] /\ c[2] = b[1]
        BY <1>2, <1>7, <2>1, <3>1, HeapAssumption
      <4> QED
        BY <1>2, <2>1, <3>1, <4>1, HeapAssumption DEF PagesOf
    <3>2. CASE b[2] <= p
      <4>1. PICK c \in near : c[2] = merged[2] /\ c[1] = b[2]
        BY <1>2, <1>7, <2>1, <3>2, HeapAssumption
      <4> QED
        BY <1>2, <2>1, <3>2, <4>1, HeapAssumption DEF PagesOf
    <3> QED
      BY <2>1, <3>1, <3>2
  <2> QED
    BY <2>2 DEF Cover
<1>13. PagesOf(b) \subseteq PagesOf(merged)
  BY <1>2, <1>7, HeapAssumption DEF PagesOf
<1>14. Cover((blocks \ near) \union {merged}) = Cover(blocks) \union PagesOf(b)
  <2>1. Cover((blocks \ near) \union {merged}) = Cover(blocks \ near) \union PagesOf(merged)
    BY DEF Cover
  <2>2. Cover(blocks) = Cover(blocks \ near) \union Cover(near)
    BY DEF Cover
  <2>3. Cover(near) \subseteq PagesOf(merged)
    BY <1>11 DEF Cover
  <2> QED
    BY <1>12, <1>13, <2>1, <2>2, <2>3
<1> QED
  BY <1>1, <1>8, <1>10, <1>14

-----------------------------------------------------------------------------
(* The books *)

\* The books of some live regions, free blocks and committed pages.
BooksHold(rs, fs, pages, lossy) ==
  /\ Apart(rs) /\ Cover(rs) \cap Cover(fs) = {} /\ Cover(rs) \subseteq pages
  /\ Separated(fs)
  /\ lossy \/ Cover(rs) \union Cover(fs) = 0 .. HeapPages - 1

\* What a step hands out.
FreshStep == \A p \in Owned' \ Owned : p \notin written' \/ conflicted

\* The books before a step.
LEMMA BooksBefore ==
  ASSUME HeapInv
  PROVE  BooksHold(regions, free, committed, commitFailed)
BY DEF HeapInv, BooksBalance, BooksHold, Owned, Separated

\* What there is to show of a step.
LEMMA BooksAfter ==
  ASSUME HeapShape', FreshAboveMark', BooksHold(regions', free', committed', commitFailed'),
         \A p \in Cover(regions') \ Cover(regions) : p \notin written' \/ conflicted
  PROVE  HeapInv' /\ FreshStep
<1>1. Owned' = Cover(regions') /\ Owned = Cover(regions)
  BY DEF Owned, Cover, PagesOf
<1>2. BooksBalance'
  <2>1. /\ Apart(regions') /\ Cover(regions') \cap Cover(free') = {}
        /\ Cover(regions') \subseteq committed' /\ Separated(free')
        /\ commitFailed' \/ Cover(regions') \union Cover(free') = 0 .. HeapPages - 1
    BY DEF BooksHold
  <2>2. Cover(free)' = Cover(free') /\ Apart(regions)' = Apart(regions')
    BY DEF Cover, PagesOf, Apart
  <2> QED
    BY <1>1, <2>1, <2>2 DEF BooksBalance, Separated
<1> QED
  BY <1>1, <1>2 DEF HeapInv, FreshStep

\* The pages of blocks are pages of the heap.
LEMMA CoverTyped ==
  ASSUME NEW blocks, blocks \subseteq HeapBlocks
  PROVE  Cover(blocks) \subseteq 0 .. HeapPages - 1
<1> SUFFICES ASSUME NEW b \in blocks, NEW p \in PagesOf(b) PROVE p \in 0 .. HeapPages - 1
  BY DEF Cover
<1>1. b[1] \in 0 .. HeapPages /\ b[2] \in 0 .. HeapPages
  BY DEF HeapBlocks
<1> QED
  BY <1>1, HeapAssumption DEF PagesOf

\* A range within the heap is a block.
LEMMA RangeIsBlock ==
  ASSUME NEW from \in Nat, NEW to \in Nat, from < to, to <= HeapPages
  PROVE  <<from, to>> \in HeapBlocks /\ PagesOf(<<from, to>>) = from .. to - 1
BY HeapAssumption DEF HeapBlocks, PagesOf

\* A block more ...
LEMMA OneMore ==
  ASSUME NEW blocks, NEW b
  PROVE  /\ Cover(blocks \union {b}) = Cover(blocks) \union PagesOf(b)
         /\ Apart(blocks) /\ PagesOf(b) \cap Cover(blocks) = {} => Apart(blocks \union {b})
BY DEF Cover, Apart

\* ... and some less.
LEMMA SomeLess ==
  ASSUME NEW blocks, NEW some \in SUBSET blocks, Apart(blocks)
  PROVE  /\ Cover(blocks \ some) = Cover(blocks) \ Cover(some)
         /\ Apart(blocks \ some)
BY DEF Cover, Apart

-----------------------------------------------------------------------------
(* The calls *)

\* A size is at least one page of the heap, at an address of a page.
LEMMA SizesAre ==
  ASSUME NEW n \in Requests, NEW a \in Alignments
  PROVE  n \in Nat \ {0} /\ a \in Nat \ {0} /\ RoundUp(n, a) \in Nat \ {0}
<1>1. n \in Nat \ {0} /\ a \in Nat \ {0}
  BY HeapAssumption
<1>2. RoundUp(n, a) \in Nat /\ n <= RoundUp(n, a)
  BY <1>1, RoundUpIs
<1> QED
  BY <1>1, <1>2

\* The first fit lies in one free block.
LEMMA FirstFitIs ==
  ASSUME HeapShape, NEW size \in Nat \ {0}, NEW a \in Nat \ {0}, Fits(size, a) # {}
  PROVE  /\ FirstFit(size, a) \in Nat /\ FirstFit(size, a) + size <= HeapPages
         /\ FirstFit(size, a) .. (FirstFit(size, a) + size - 1) \subseteq Cover(free)
<1> DEFINE firsts == {b[1] : b \in Fits(size, a)}
<1>1. \A b \in Fits(size, a) :
        /\ b \in free /\ b[1] \in 0 .. HeapPages /\ b[2] \in 0 .. HeapPages
        /\ RoundUp(b[1], a) + size <= b[2]
  BY DEF Fits, HeapShape, HeapBlocks
<1>2. Min(firsts) \in firsts
  <2>1. firsts \subseteq Nat /\ firsts # {}
    BY <1>1
  <2> HIDE DEF firsts
  <2> QED
    BY <2>1, MinIs
<1>3. PICK b \in Fits(size, a) : b[1] = Min(firsts)
  BY <1>2
<1>4. RoundUp(b[1], a) \in Nat /\ b[1] <= RoundUp(b[1], a)
  BY <1>1, RoundUpIs
<1>5. FirstFit(size, a) = RoundUp(b[1], a)
  BY <1>3 DEF FirstFit
<1>6. FirstFit(size, a) .. (FirstFit(size, a) + size - 1) \subseteq PagesOf(b)
  BY <1>1, <1>4, <1>5, HeapAssumption DEF PagesOf
<1> QED
  BY <1>1, <1>4, <1>5, <1>6, HeapAssumption DEF Cover

\* Where the mark is once a range is claimed.
LEMMA MarkIs ==
  ASSUME HeapShape, NEW to \in 0 .. HeapPages
  PROVE  RaisedTo(to) \in 0 .. HeapPages /\ mark <= RaisedTo(to) /\ to <= RaisedTo(to)
BY HeapAssumption DEF HeapShape, RaisedTo

\* A claim of pages that were free: they are committed, zeroed and below the mark.
LEMMA ClaimedSound ==
  ASSUME HeapInv, NEW pages \in SUBSET (0 .. HeapPages - 1), NEW to \in 0 .. HeapPages,
         \A p \in pages : p < to,
         committed' = committed \union pages, written' = ZeroClaimed(pages),
         mark' = RaisedTo(to), UNCHANGED conflicted
  PROVE  /\ FreshAboveMark'
         /\ committed' \subseteq 0 .. HeapPages - 1 /\ written' \subseteq committed'
         /\ \A p \in pages : p \notin written' \/ conflicted
<1>1. /\ HeapShape /\ FreshAboveMark /\ committed \subseteq 0 .. HeapPages - 1
      /\ written \subseteq committed
  BY DEF HeapInv, HeapShape
<1>2. RaisedTo(to) \in 0 .. HeapPages /\ mark <= RaisedTo(to) /\ to <= RaisedTo(to)
  BY <1>1, MarkIs
<1>3. mark \in 0 .. HeapPages
  BY <1>1 DEF HeapShape
<1>4. FreshAboveMark'
  <2> SUFFICES ASSUME ~conflicted, NEW p \in committed' PROVE p < mark'
    BY DEF FreshAboveMark
  <2>1. CASE p \in committed
    BY <1>1, <1>2, <1>3, <2>1 DEF FreshAboveMark
  <2>2. CASE p \in pages
    BY <1>2, <1>3, <2>2
  <2> QED
    BY <2>1, <2>2
<1>5. \A p \in pages : p \notin written' \/ conflicted
  BY <1>1, <1>3 DEF FreshAboveMark, ZeroClaimed
<1> QED
  BY <1>1, <1>4, <1>5 DEF ZeroClaimed

\* An allocation claims the first fit, or puts it back.
LEMMA AllocateIs ==
  ASSUME NEW n \in Requests, NEW a \in Alignments, Allocate(n, a),
         NEW size, NEW from, size = RoundUp(n, a), from = FirstFit(size, a)
  PROVE  \/ /\ free' = RemoveFreeRange(free, from, from + size)
            /\ regions' = regions \union {<<from, from + size>>}
            /\ committed' = committed \union (from .. from + size - 1)
            /\ written' = ZeroClaimed(from .. from + size - 1) /\ mark' = RaisedTo(from + size)
         \/ /\ free' = InsertFree(RemoveFreeRange(free, from, from + size), <<from, from + size>>)
            /\ UNCHANGED <<regions, mark, committed, written>>
BY DEF Allocate

\* The books after an allocation of a range that was free ...
LEMMA AllocatedSound ==
  ASSUME HeapInv, NEW from \in Nat, NEW to \in 0 .. HeapPages, from < to,
         from .. (to - 1) \subseteq Cover(free),
         free' = RemoveFreeRange(free, from, to), regions' = regions \union {<<from, to>>},
         committed' = committed \union (from .. to - 1), written' = ZeroClaimed(from .. to - 1),
         mark' = RaisedTo(to), UNCHANGED <<commitFailed, conflicted>>
  PROVE  HeapInv' /\ FreshStep
<1>1. HeapShape /\ FreshAboveMark /\ BooksHold(regions, free, committed, commitFailed)
  BY BooksBefore DEF HeapInv
<1>2. /\ free' \subseteq HeapBlocks /\ Separated(free')
      /\ Cover(free') = Cover(free) \ (from .. to - 1)
  BY <1>1, RemoveIs DEF HeapShape, BooksHold
<1>3. <<from, to>> \in HeapBlocks /\ PagesOf(<<from, to>>) = from .. to - 1
  BY RangeIsBlock, HeapAssumption
<1>4. /\ FreshAboveMark' /\ committed' \subseteq 0 .. HeapPages - 1
      /\ written' \subseteq committed' /\ mark' \in 0 .. HeapPages
      /\ \A p \in from .. to - 1 : p \notin written' \/ conflicted
  <2>1. from .. (to - 1) \in SUBSET (0 .. HeapPages - 1) /\ \A p \in from .. to - 1 : p < to
    BY HeapAssumption
  <2> QED
    BY <1>1, <2>1, ClaimedSound, MarkIs
<1>5. HeapShape'
  BY <1>1, <1>2, <1>3, <1>4 DEF HeapShape
<1>6. Cover(regions') = Cover(regions) \union (from .. to - 1) /\ Apart(regions')
  <2>1. PagesOf(<<from, to>>) \cap Cover(regions) = {}
    BY <1>1, <1>3 DEF BooksHold
  <2> QED
    BY <1>1, <1>3, <2>1, OneMore DEF BooksHold
<1>7. BooksHold(regions', free', committed', commitFailed')
  BY <1>1, <1>2, <1>6 DEF BooksHold
<1> QED
  BY <1>4, <1>5, <1>6, <1>7, BooksAfter

\* ... and after one whose commit failed.
LEMMA PutBackSound ==
  ASSUME HeapInv, NEW from \in Nat, NEW to \in 0 .. HeapPages, from < to,
         from .. (to - 1) \subseteq Cover(free),
         free' = InsertFree(RemoveFreeRange(free, from, to), <<from, to>>),
         UNCHANGED <<regions, mark, committed, written, commitFailed, conflicted>>
  PROVE  HeapInv' /\ FreshStep
<1> DEFINE rest == RemoveFreeRange(free, from, to)
<1>1. HeapShape /\ FreshAboveMark /\ BooksHold(regions, free, committed, commitFailed)
  BY BooksBefore DEF HeapInv
<1>2. /\ rest \subseteq HeapBlocks /\ Separated(rest)
      /\ Cover(rest) = Cover(free) \ (from .. to - 1)
  BY <1>1, RemoveIs DEF HeapShape, BooksHold
<1>3. <<from, to>> \in HeapBlocks /\ PagesOf(<<from, to>>) = from .. to - 1
  BY RangeIsBlock, HeapAssumption
<1>4. free' = InsertFree(rest, <<from, to>>)
  OBVIOUS
<1> HIDE DEF rest
<1>5. /\ free' \subseteq HeapBlocks /\ Separated(free')
      /\ Cover(free') = Cover(rest) \union (from .. to - 1)
  <2>1. PagesOf(<<from, to>>) \cap Cover(rest) = {}
    BY <1>2, <1>3
  <2> QED
    BY <1>2, <1>3, <1>4, <2>1, InsertIs
<1>6. Cover(free') = Cover(free)
  BY <1>2, <1>5
<1>7. HeapShape' /\ FreshAboveMark'
  BY <1>1, <1>5 DEF HeapShape, FreshAboveMark
<1>8. BooksHold(regions', free', committed', commitFailed')
  BY <1>1, <1>5, <1>6 DEF BooksHold
<1> QED
  BY <1>7, <1>8, BooksAfter

\* An allocation takes the first fit.
LEMMA AllocateKeeps ==
  ASSUME HeapInv, NEW n \in Requests, NEW a \in Alignments, Allocate(n, a)
  PROVE  HeapInv' /\ FreshStep
<1> DEFINE size == RoundUp(n, a)
           from == FirstFit(size, a)
<1>1. size \in Nat \ {0} /\ a \in Nat \ {0}
  BY SizesAre
<1>2. Fits(size, a) # {} /\ UNCHANGED <<commitFailed, conflicted>>
  BY DEF Allocate
<1>3. /\ from \in Nat /\ from + size \in 0 .. HeapPages /\ from < from + size
      /\ from .. (from + size - 1) \subseteq Cover(free)
  <2>1. /\ from \in Nat /\ from + size <= HeapPages
        /\ from .. (from + size - 1) \subseteq Cover(free)
    BY <1>1, <1>2, FirstFitIs DEF HeapInv
  <2> QED
    BY <1>1, <2>1, HeapAssumption
<1>4. \/ /\ free' = RemoveFreeRange(free, from, from + size)
         /\ regions' = regions \union {<<from, from + size>>}
         /\ committed' = committed \union (from .. from + size - 1)
         /\ written' = ZeroClaimed(from .. from + size - 1) /\ mark' = RaisedTo(from + size)
      \/ /\ free' = InsertFree(RemoveFreeRange(free, from, from + size), <<from, from + size>>)
         /\ UNCHANGED <<regions, mark, committed, written>>
  BY AllocateIs, Zenon
<1> HIDE DEF size, from
<1>5. PICK to \in 0 .. HeapPages : to = from + size
  BY <1>3
<1>6. /\ from \in Nat /\ from < to
      /\ from .. (from + size - 1) = from .. (to - 1)
      /\ from .. (to - 1) \subseteq Cover(free)
  <2>1. from + size - 1 = to - 1
    BY <1>1, <1>3, <1>5
  <2> QED
    BY <1>3, <1>5, <2>1
<1>7. CASE /\ free' = RemoveFreeRange(free, from, from + size)
           /\ regions' = regions \union {<<from, from + size>>}
           /\ committed' = committed \union (from .. from + size - 1)
           /\ written' = ZeroClaimed(from .. from + size - 1) /\ mark' = RaisedTo(from + size)
  BY <1>2, <1>5, <1>6, <1>7, AllocatedSound
<1>8. CASE /\ free' = InsertFree(RemoveFreeRange(free, from, from + size), <<from, from + size>>)
           /\ UNCHANGED <<regions, mark, committed, written>>
  BY <1>2, <1>5, <1>6, <1>8, PutBackSound
<1> QED
  BY <1>4, <1>7, <1>8

\* The books after a free.
LEMMA FreeKeeps ==
  ASSUME HeapInv, NEW b \in regions, Free(b)
  PROVE  HeapInv' /\ FreshStep
<1>1. HeapShape /\ FreshAboveMark /\ BooksHold(regions, free, committed, commitFailed)
  BY BooksBefore DEF HeapInv
<1>2. /\ regions' = regions \ {b} /\ free' = InsertFree(free, b)
      /\ UNCHANGED <<mark, committed, written, commitFailed, conflicted>>
  BY DEF Free
<1>3. /\ Cover(regions') = Cover(regions) \ PagesOf(b) /\ Apart(regions')
  <2>1. Cover({b}) = PagesOf(b)
    BY DEF Cover
  <2>2. {b} \in SUBSET regions /\ Apart(regions)
    BY <1>1 DEF BooksHold
  <2>3. /\ Cover(regions \ {b}) = Cover(regions) \ Cover({b})
        /\ Apart(regions \ {b})
    BY <2>2, SomeLess, Zenon
  <2> QED
    BY <1>2, <2>1, <2>3
<1>4. PagesOf(b) \subseteq Cover(regions)
  BY DEF Cover
<1>5. /\ free' \subseteq HeapBlocks /\ Separated(free')
      /\ Cover(free') = Cover(free) \union PagesOf(b)
  <2>1. b \in HeapBlocks /\ PagesOf(b) \cap Cover(free) = {}
    BY <1>1, <1>4 DEF HeapShape, BooksHold
  <2> QED
    BY <1>1, <1>2, <2>1, InsertIs DEF HeapShape, BooksHold
<1>6. HeapShape' /\ FreshAboveMark'
  BY <1>1, <1>2, <1>5 DEF HeapShape, FreshAboveMark
<1>7. BooksHold(regions', free', committed', commitFailed')
  BY <1>1, <1>2, <1>3, <1>4, <1>5 DEF BooksHold
<1> QED
  BY <1>3, <1>6, <1>7, BooksAfter

\* A fixed allocation inside a live region changes no owner.
LEMMA RecommitKeeps ==
  ASSUME HeapInv, NEW from \in Nat, NEW to \in Nat, to <= HeapPages, Recommit(from, to)
  PROVE  HeapInv' /\ FreshStep
<1>1. HeapShape /\ FreshAboveMark /\ BooksHold(regions, free, committed, commitFailed)
  BY BooksBefore DEF HeapInv
<1>2. PICK o \in Owner(from) : to <= o[2]
  BY DEF Recommit
<1>3. /\ committed' = committed \union (from .. to - 1)
      /\ UNCHANGED <<regions, free, mark, written, commitFailed, conflicted>>
  BY DEF Recommit, Commits
<1>4. from .. (to - 1) \subseteq committed
  <2>1. o \in regions /\ o[1] <= from /\ o[1] \in Nat /\ o[2] \in Nat
    BY <1>1, <1>2, HeapAssumption DEF Owner, HeapShape, HeapBlocks
  <2>2. from .. (to - 1) \subseteq PagesOf(o)
    BY <1>2, <2>1 DEF PagesOf
  <2>3. PagesOf(o) \subseteq Cover(regions)
    BY <2>1 DEF Cover
  <2> QED
    BY <1>1, <2>2, <2>3 DEF BooksHold
<1>5. committed' = committed
  BY <1>3, <1>4
<1>6. HeapShape' /\ FreshAboveMark' /\ BooksHold(regions', free', committed', commitFailed')
  BY <1>1, <1>3, <1>5 DEF HeapShape, FreshAboveMark, BooksHold
<1> QED
  BY <1>3, <1>6, BooksAfter

\* One that runs into a live region from free space commits pages that it does not claim.
LEMMA ConflictKeeps ==
  ASSUME HeapInv, NEW from \in Nat, NEW to \in Nat, to <= HeapPages, Conflict(from, to)
  PROVE  HeapInv' /\ FreshStep
<1>1. HeapShape /\ FreshAboveMark /\ BooksHold(regions, free, committed, commitFailed)
  BY BooksBefore DEF HeapInv
<1>2. /\ committed' = committed \union (from .. to - 1) /\ conflicted' = TRUE
      /\ UNCHANGED <<regions, free, mark, written, commitFailed>>
  BY DEF Conflict, Commits
<1>3. from .. (to - 1) \subseteq 0 .. HeapPages - 1
  BY HeapAssumption
<1>4. HeapShape' /\ FreshAboveMark'
  BY <1>1, <1>2, <1>3 DEF HeapShape, FreshAboveMark
<1>5. BooksHold(regions', free', committed', commitFailed')
  BY <1>1, <1>2 DEF BooksHold
<1> QED
  BY <1>2, <1>4, <1>5, BooksAfter

\* One in free space claims it, or loses it.
LEMMA ClaimKeeps ==
  ASSUME HeapInv, NEW from \in Nat, NEW to \in 0 .. HeapPages, from < to, Claim(from, to)
  PROVE  HeapInv' /\ FreshStep
<1>1. HeapShape /\ FreshAboveMark /\ BooksHold(regions, free, committed, commitFailed)
  BY BooksBefore DEF HeapInv
<1>2. /\ \A b \in regions : PagesOf(b) \cap (from .. to - 1) = {}
      /\ free' = RemoveFreeRange(free, from, to) /\ UNCHANGED conflicted
  BY DEF Claim
<1>3. /\ free' \subseteq HeapBlocks /\ Separated(free')
      /\ Cover(free') = Cover(free) \ (from .. to - 1)
  BY <1>1, <1>2, RemoveIs DEF HeapShape, BooksHold
<1>4. Cover(regions) \cap (from .. to - 1) = {}
  BY <1>2 DEF Cover
<1>5. CASE /\ regions' = regions \union {<<from, to>>} /\ Commits(from, to)
           /\ written' = ZeroClaimed(from .. to - 1) /\ mark' = RaisedTo(to)
           /\ UNCHANGED commitFailed
  <2>1. <<from, to>> \in HeapBlocks /\ PagesOf(<<from, to>>) = from .. to - 1
    BY RangeIsBlock, HeapAssumption
  <2>2. /\ FreshAboveMark' /\ committed' \subseteq 0 .. HeapPages - 1
        /\ written' \subseteq committed' /\ mark' \in 0 .. HeapPages
        /\ \A p \in from .. to - 1 : p \notin written' \/ conflicted
    <3>1. from .. (to - 1) \in SUBSET (0 .. HeapPages - 1) /\ \A p \in from .. to - 1 : p < to
      BY HeapAssumption
    <3> QED
      BY <1>1, <1>2, <1>5, <3>1, ClaimedSound, MarkIs DEF Commits
  <2>3. HeapShape'
    BY <1>1, <1>2, <1>3, <1>5, <2>1, <2>2 DEF HeapShape
  <2>4. Cover(regions') = Cover(regions) \union (from .. to - 1) /\ Apart(regions')
    BY <1>1, <1>4, <1>5, <2>1, OneMore DEF BooksHold
  <2>5. BooksHold(regions', free', committed', commitFailed')
    <3>1. from .. (to - 1) \subseteq 0 .. HeapPages - 1
      BY HeapAssumption
    <3> QED
      BY <1>1, <1>3, <1>4, <1>5, <2>4, <3>1 DEF BooksHold, Commits
  <2> QED
    BY <2>2, <2>3, <2>4, <2>5, BooksAfter
<1>6. CASE commitFailed' = TRUE /\ UNCHANGED <<regions, committed, written, mark>>
  <2>1. HeapShape' /\ FreshAboveMark'
    BY <1>1, <1>2, <1>3, <1>6 DEF HeapShape, FreshAboveMark
  <2>2. BooksHold(regions', free', committed', commitFailed')
    BY <1>1, <1>3, <1>6 DEF BooksHold
  <2> QED
    BY <1>6, <2>1, <2>2, BooksAfter
<1> QED
  BY <1>5, <1>6 DEF Claim

\* The victims of a growing region lie behind it, and nothing else before their end.
LEMMA VictimsAre ==
  ASSUME HeapShape, Apart(regions), NEW o \in regions, NEW to \in 0 .. HeapPages, to > o[2],
         NEW victims, victims = {v \in regions : v[1] > o[1] /\ v[1] < to},
         NEW end, end = Max({to} \union {v[2] : v \in victims})
  PROVE  /\ victims \subseteq regions /\ o \notin victims
         /\ end \in 0 .. HeapPages /\ to <= end
         /\ \A v \in victims : o[2] <= v[1] /\ v[2] <= end
         /\ \A r \in regions : r \in victims \/ r = o \/ r[2] <= o[1] \/ end <= r[1]
<1>1. /\ o \in HeapBlocks /\ o[1] \in Nat /\ o[2] \in Nat /\ o[1] < o[2]
      /\ \A r \in regions : r[1] \in Nat /\ r[2] \in 0 .. HeapPages /\ r[1] < r[2]
  BY HeapAssumption DEF HeapShape, HeapBlocks
<1>2. ASSUME NEW r \in regions, NEW q \in regions, r # q PROVE r[2] <= q[1] \/ q[2] <= r[1]
  <2>1. \A p \in PagesOf(r) : p \notin PagesOf(q)
    BY <1>2 DEF Apart
  <2>2. ASSUME q[1] < r[2], r[1] < q[2] PROVE FALSE
    <3>1. CASE r[1] <= q[1]
      BY <1>1, <2>1, <2>2, <3>1, HeapAssumption DEF PagesOf
    <3>2. CASE q[1] < r[1]
      BY <1>1, <2>1, <2>2, <3>2, HeapAssumption DEF PagesOf
    <3> QED
      BY <1>1, <3>1, <3>2
  <2> QED
    BY <1>1, <2>2, HeapAssumption
<1> DEFINE ends == {to} \union {v[2] : v \in victims}
<1>3. end \in ends /\ \A n \in ends : n <= end
  <2>1. ends \subseteq 0 .. HeapPages /\ ends # {}
    BY <1>1
  <2>2. end = Max(ends)
    OBVIOUS
  <2> HIDE DEF ends
  <2> QED
    BY <2>1, <2>2, MaxIs, HeapAssumption
<1>4. end \in 0 .. HeapPages /\ to <= end /\ \A v \in victims : v[2] <= end
  BY <1>1, <1>3
<1>5. ASSUME NEW v \in victims PROVE o[2] <= v[1]
  BY <1>1, <1>2, <1>5, HeapAssumption
<1>6. ASSUME NEW r \in regions, r \notin victims, r # o PROVE r[2] <= o[1] \/ end <= r[1]
  <2>1. r[1] <= o[1] \/ to <= r[1]
    BY <1>1, <1>6
  <2>2. CASE r[1] <= o[1]
    BY <1>1, <1>2, <1>6, <2>2, HeapAssumption
  <2>3. CASE to <= r[1]
    <3>1. CASE end = to
      BY <2>3, <3>1
    <3>2. CASE \E v \in victims : end = v[2]
      <4>1. PICK v \in victims : end = v[2]
        BY <3>2
      <4>2. v \in regions /\ v # r /\ v[1] < to
        BY <1>6, <4>1
      <4>3. v[2] <= r[1] \/ r[2] <= v[1]
        BY <1>2, <4>2
      <4> QED
        BY <1>1, <2>3, <4>1, <4>2, <4>3, HeapAssumption
    <3> QED
      BY <1>3, <3>1, <3>2
  <2> QED
    BY <2>1, <2>2, <2>3
<1> QED
  BY <1>1, <1>4, <1>5, <1>6

\* Ranges within and beside each other.
LEMMA RangeWithin ==
  ASSUME NEW a \in Nat, NEW b \in Nat, NEW c \in Nat, NEW d \in Nat, c <= a, b <= d
  PROVE  a .. (b - 1) \subseteq c .. (d - 1) /\ a .. (b - 1) \subseteq Nat
OBVIOUS

LEMMA RangeSplits ==
  ASSUME NEW a \in Nat, NEW b \in Nat, NEW c \in Nat, a <= b, b <= c
  PROVE  a .. (c - 1) = (a .. (b - 1)) \union (b .. (c - 1))
OBVIOUS

\* The last of some pages of the heap.
LEMMA LastPage ==
  ASSUME NEW pages \in SUBSET (0 .. (HeapPages - 1)), pages # {}
  PROVE  Max(pages) + 1 \in 0 .. HeapPages /\ \A p \in pages : p < Max(pages) + 1
<1>1. HeapPages - 1 \in Nat
  BY HeapAssumption
<1>2. Max(pages) \in pages /\ \A p \in pages : p <= Max(pages)
  BY <1>1, MaxIs
<1> DEFINE last == Max(pages)
<1>3. \A p \in pages : p \in 0 .. (HeapPages - 1)
  OBVIOUS
<1> HIDE DEF last
<1>5. last \in 0 .. (HeapPages - 1) /\ \A p \in pages : p \in Nat /\ p <= last
  <2>1. last \in pages /\ \A p \in pages : p <= last
    BY <1>2 DEF last
  <2> QED
    BY <1>3, <2>1
<1>4. last + 1 \in 0 .. HeapPages /\ \A p \in pages : p < last + 1
  BY <1>5, HeapAssumption
<1> QED
  BY <1>4 DEF last

\* A claim of gaps, which raises the mark past the last of them.
LEMMA GapsSound ==
  ASSUME HeapInv, NEW gaps \in SUBSET (0 .. (HeapPages - 1)),
         committed' = committed \union gaps, written' = ZeroClaimed(gaps),
         mark' = (IF gaps = {} THEN mark ELSE RaisedTo(Max(gaps) + 1)), UNCHANGED conflicted
  PROVE  /\ FreshAboveMark' /\ committed' \subseteq 0 .. (HeapPages - 1)
         /\ written' \subseteq committed' /\ mark' \in 0 .. HeapPages
         /\ \A p \in gaps : p \notin written' \/ conflicted
<1>1. HeapShape /\ FreshAboveMark
  BY DEF HeapInv
<1>2. CASE gaps = {}
  BY <1>1, <1>2 DEF HeapShape, FreshAboveMark, ZeroClaimed
<1>3. CASE gaps # {}
  <2>1. PICK to \in 0 .. HeapPages : to = Max(gaps) + 1
    BY <1>3, LastPage
  <2>2. \A p \in gaps : p < to
    BY <1>3, <2>1, LastPage
  <2>3. mark' = RaisedTo(to)
    BY <1>3, <2>1
  <2> QED
    BY <1>1, <2>2, <2>3, ClaimedSound, MarkIs
<1> QED
  BY <1>2, <1>3

\* The regions after one of them has grown to first .. end - 1 over the gaps.
Grows(after, first, end, gaps) ==
  /\ after \subseteq HeapBlocks /\ Apart(after)
  /\ Cover(after) = Cover(regions) \union gaps
  /\ gaps \subseteq 0 .. (HeapPages - 1)
  /\ first .. (end - 1) \subseteq Cover(regions) \union gaps

\* A region that grows over others and the gaps between them.
LEMMA GrownIs ==
  ASSUME HeapShape, Apart(regions), NEW o \in regions, NEW victims \in SUBSET regions,
         o \notin victims,
         NEW first \in Nat, NEW next \in Nat, NEW end \in Nat,
         first = o[1], next = o[2], first < next, next < end, end <= HeapPages,
         \A v \in victims : next <= v[1] /\ v[2] <= end,
         \A r \in regions : r \in victims \/ r = o \/ r[2] <= first \/ end <= r[1],
         NEW gaps, gaps = (next .. (end - 1)) \ Cover(victims),
         NEW after, after = (regions \ (victims \union {o})) \union {<<first, end>>}
  PROVE  Grows(after, first, end, gaps)
<1> DEFINE kept == regions \ (victims \union {o})
           grown == <<first, end>>
<1>1. HeapPages \in Nat /\ regions \subseteq HeapBlocks
      /\ \A r \in regions : r[1] \in Nat /\ r[2] \in Nat /\ r[1] < r[2]
  BY HeapAssumption DEF HeapShape, HeapBlocks
<1>2. grown \in HeapBlocks /\ PagesOf(grown) = first .. (end - 1)
  <2>1. first < end
    OBVIOUS
  <2> QED
    BY <2>1, RangeIsBlock
<1>3. Cover(kept) = Cover(regions) \ (Cover(victims) \union PagesOf(o)) /\ Apart(kept)
  <2> DEFINE some == victims \union {o}
  <2>1. some \in SUBSET regions /\ Apart(regions)
    OBVIOUS
  <2>2. Cover(some) = Cover(victims) \union PagesOf(o)
    BY DEF Cover
  <2> HIDE DEF some
  <2>3. Cover(regions \ some) = Cover(regions) \ Cover(some) /\ Apart(regions \ some)
    BY <2>1, SomeLess, Zenon
  <2> QED
    BY <2>2, <2>3 DEF some
<1>4. PagesOf(grown) \cap Cover(kept) = {}
  <2> SUFFICES ASSUME NEW r \in kept, NEW p \in PagesOf(r), p \in PagesOf(grown) PROVE FALSE
    BY DEF Cover
  <2>1. r[2] <= first \/ end <= r[1]
    OBVIOUS
  <2>2. p \in Nat /\ r[1] <= p /\ p < r[2] /\ first <= p /\ p < end
    BY <1>1, <1>2 DEF PagesOf
  <2> QED
    BY <1>1, <2>1, <2>2
<1>5. PagesOf(o) = first .. (next - 1) /\ PagesOf(o) \subseteq Cover(regions)
  BY DEF PagesOf, Cover
<1>6. Cover(victims) \subseteq Cover(regions) /\ Cover(victims) \subseteq next .. (end - 1)
  <2>1. ASSUME NEW v \in victims PROVE PagesOf(v) \subseteq next .. (end - 1)
    <3>1. v[1] \in Nat /\ v[2] \in Nat /\ next <= v[1] /\ v[2] <= end
      BY <1>1
    <3> QED
      BY <3>1, RangeWithin DEF PagesOf
  <2> QED
    BY <2>1 DEF Cover
<1>7. first .. (end - 1) = PagesOf(o) \union Cover(victims) \union gaps
  <2>1. first .. (end - 1) = (first .. (next - 1)) \union (next .. (end - 1))
    BY RangeSplits
  <2> QED
    BY <1>5, <1>6, <2>1
<1>8. gaps \subseteq 0 .. (HeapPages - 1)
  <2>1. next .. (end - 1) \subseteq 0 .. (HeapPages - 1)
    BY <1>1, RangeWithin
  <2> QED
    BY <2>1
<1>9. after = kept \union {grown}
  OBVIOUS
<1> HIDE DEF kept
<1>10. PagesOf(grown) = PagesOf(o) \union Cover(victims) \union gaps
  BY <1>2, <1>7
<1> HIDE DEF grown
<1>11. Cover(after) = Cover(kept) \union PagesOf(grown) /\ Apart(after)
  BY <1>3, <1>4, <1>9, OneMore
<1>12. after \subseteq HeapBlocks
  BY <1>1, <1>2, <1>9 DEF kept
<1> QED
  BY <1>3, <1>5, <1>6, <1>7, <1>8, <1>10, <1>11, <1>12 DEF Grows

\* Once it has grown the books still balance ...
LEMMA GrowthSound ==
  ASSUME HeapInv, NEW gaps \in SUBSET (0 .. (HeapPages - 1)),
         NEW next \in Nat, NEW end \in Nat, next < end,
         gaps \subseteq next .. (end - 1), next .. (end - 1) \subseteq Cover(regions) \union gaps,
         regions' \subseteq HeapBlocks, Apart(regions'),
         Cover(regions') = Cover(regions) \union gaps,
         free' = RemoveFreeRange(free, next, end),
         committed' = committed \union gaps, written' = ZeroClaimed(gaps),
         mark' = (IF gaps = {} THEN mark ELSE RaisedTo(Max(gaps) + 1)),
         UNCHANGED <<commitFailed, conflicted>>
  PROVE  HeapInv' /\ FreshStep
<1>1. HeapShape /\ BooksHold(regions, free, committed, commitFailed)
  BY BooksBefore DEF HeapInv
<1>2. /\ free' \subseteq HeapBlocks /\ Separated(free')
      /\ Cover(free') = Cover(free) \ (next .. (end - 1))
  BY <1>1, RemoveIs DEF HeapShape, BooksHold
<1>3. /\ FreshAboveMark' /\ committed' \subseteq 0 .. (HeapPages - 1)
      /\ written' \subseteq committed' /\ mark' \in 0 .. HeapPages
      /\ \A p \in gaps : p \notin written' \/ conflicted
  BY GapsSound
<1>4. HeapShape'
  BY <1>1, <1>2, <1>3 DEF HeapShape
<1>5. BooksHold(regions', free', committed', commitFailed')
  <2>1. Cover(regions') \cap Cover(free') = {}
    BY <1>1, <1>2 DEF BooksHold
  <2>2. Cover(regions') \subseteq committed'
    BY <1>1 DEF BooksHold
  <2>3. commitFailed' \/ Cover(regions') \union Cover(free') = 0 .. (HeapPages - 1)
    BY <1>1, <1>2 DEF BooksHold
  <2> QED
    BY <1>2, <2>1, <2>2, <2>3 DEF BooksHold
<1> QED
  BY <1>3, <1>4, <1>5, BooksAfter

\* ... and if a commit failed on the way, what is lost is nobody's.
LEMMA LossSound ==
  ASSUME HeapInv, NEW claimed \in SUBSET (0 .. (HeapPages - 1)),
         NEW next \in Nat, NEW end \in Nat, next < end,
         NEW lost \in SUBSET regions, regions' = regions \ lost,
         free' = RemoveFreeRange(free, next, end),
         committed' = committed \union claimed, written' = ZeroClaimed(claimed),
         mark' = (IF claimed = {} THEN mark ELSE RaisedTo(Max(claimed) + 1)),
         commitFailed' = TRUE, UNCHANGED conflicted
  PROVE  HeapInv' /\ FreshStep
<1>1. HeapShape /\ BooksHold(regions, free, committed, commitFailed)
  BY BooksBefore DEF HeapInv
<1>2. /\ free' \subseteq HeapBlocks /\ Separated(free')
      /\ Cover(free') = Cover(free) \ (next .. (end - 1))
  BY <1>1, RemoveIs DEF HeapShape, BooksHold
<1>3. /\ FreshAboveMark' /\ committed' \subseteq 0 .. (HeapPages - 1)
      /\ written' \subseteq committed' /\ mark' \in 0 .. HeapPages
  BY GapsSound
<1>4. Apart(regions') /\ Cover(regions') \subseteq Cover(regions)
  <2>1. Cover(regions \ lost) = Cover(regions) \ Cover(lost) /\ Apart(regions \ lost)
    BY <1>1, SomeLess DEF BooksHold
  <2> QED
    BY <2>1
<1>5. HeapShape'
  BY <1>1, <1>2, <1>3 DEF HeapShape
<1>6. BooksHold(regions', free', committed', commitFailed')
  BY <1>1, <1>2, <1>4 DEF BooksHold
<1> QED
  BY <1>3, <1>4, <1>5, <1>6, BooksAfter

\* A region that grows over a fixed range, whether or not a commit fails on the way.
LEMMA GrowKeeps ==
  ASSUME HeapInv, NEW from \in Nat, NEW to \in 0 .. HeapPages, GrowRegion(from, to)
  PROVE  HeapInv' /\ FreshStep
<1>1. HeapShape /\ Apart(regions)
  BY BooksBefore DEF HeapInv, BooksHold
<1>2. PICK o \in Owner(from) :
        LET victims == {v \in regions : v[1] > o[1] /\ v[1] < to}
            end == Max({to} \union {v[2] : v \in victims})
            gaps == (o[2] .. end - 1) \ Cover(victims)
            ends(g) == Min({v[1] : v \in {w \in victims : w[1] > g}} \union {end})
            Claimed(stop) == {p \in gaps : p < stop} IN
        /\ to > o[2]
        /\ \/ /\ regions' = (regions \ (victims \union {o})) \union {<<o[1], end>>}
              /\ free' = RemoveFreeRange(free, o[2], end)
              /\ committed' = committed \union gaps \union (from .. to - 1)
              /\ written' = ZeroClaimed(gaps)
              /\ mark' = IF gaps = {} THEN mark ELSE RaisedTo(Max(gaps) + 1)
              /\ UNCHANGED commitFailed
           \/ \E stop \in {g \in gaps : g - 1 \notin gaps} :
                /\ regions' = regions \ {v \in victims : v[1] < stop}
                /\ free' = RemoveFreeRange(free, o[2], ends(stop))
                /\ committed' = committed \union Claimed(stop)
                /\ written' = ZeroClaimed(Claimed(stop))
                /\ mark' = IF Claimed(stop) = {} THEN mark ELSE RaisedTo(Max(Claimed(stop)) + 1)
                /\ commitFailed' = TRUE
        /\ UNCHANGED conflicted
  BY Zenon DEF GrowRegion
<1> DEFINE victims == {v \in regions : v[1] > o[1] /\ v[1] < to}
           end == Max({to} \union {v[2] : v \in victims})
           gaps == (o[2] .. end - 1) \ Cover(victims)
           ends(g) == Min({v[1] : v \in {w \in victims : w[1] > g}} \union {end})
           Claimed(stop) == {p \in gaps : p < stop}
           Grown == (regions \ (victims \union {o})) \union {<<o[1], end>>}
<1>3. o \in regions /\ o[1] \in Nat /\ o[2] \in Nat /\ o[1] < o[2] /\ o[1] <= from /\ to > o[2]
  <2>1. o \in regions /\ o[1] <= from
    BY DEF Owner
  <2> QED
    BY <1>1, <1>2, <2>1 DEF HeapShape, HeapBlocks
<1>4. /\ victims \subseteq regions /\ o \notin victims
      /\ end \in 0 .. HeapPages /\ to <= end
      /\ \A v \in victims : o[2] <= v[1] /\ v[2] <= end
      /\ \A r \in regions : r \in victims \/ r = o \/ r[2] <= o[1] \/ end <= r[1]
  <2>1. /\ victims = {v \in regions : v[1] > o[1] /\ v[1] < to}
        /\ end = Max({to} \union {v[2] : v \in victims})
    OBVIOUS
  <2> HIDE DEF victims, end
  <2> QED
    BY <1>1, <1>3, <2>1, VictimsAre
<1>5. \/ /\ regions' = Grown
         /\ free' = RemoveFreeRange(free, o[2], end)
         /\ committed' = committed \union gaps \union (from .. to - 1)
         /\ written' = ZeroClaimed(gaps)
         /\ mark' = IF gaps = {} THEN mark ELSE RaisedTo(Max(gaps) + 1)
         /\ UNCHANGED commitFailed
      \/ \E stop \in {g \in gaps : g - 1 \notin gaps} :
           /\ regions' = regions \ {v \in victims : v[1] < stop}
           /\ free' = RemoveFreeRange(free, o[2], ends(stop))
           /\ committed' = committed \union Claimed(stop)
           /\ written' = ZeroClaimed(Claimed(stop))
           /\ mark' = IF Claimed(stop) = {} THEN mark ELSE RaisedTo(Max(Claimed(stop)) + 1)
           /\ commitFailed' = TRUE
  BY <1>2, Zenon
<1>6. UNCHANGED conflicted
  BY <1>2, Zenon
<1> HIDE DEF end
<1>7. end \in Nat /\ end <= HeapPages /\ o[2] < end /\ HeapPages \in Nat
  BY <1>3, <1>4, HeapAssumption
<1>8. victims \in SUBSET regions
  OBVIOUS
<1> HIDE DEF victims
<1>9. Grows(Grown, o[1], end, gaps)
  <2>1. PICK first \in Nat, next \in Nat : first = o[1] /\ next = o[2]
    BY <1>3
  <2>2. /\ gaps = (next .. (end - 1)) \ Cover(victims)
        /\ Grown = (regions \ (victims \union {o})) \union {<<first, end>>}
    BY <2>1
  <2> HIDE DEF gaps, Grown
  <2>3. /\ HeapShape /\ Apart(regions) /\ o \in regions /\ o \notin victims
        /\ end \in Nat /\ first < next /\ next < end /\ end <= HeapPages
        /\ \A v \in victims : next <= v[1] /\ v[2] <= end
        /\ \A r \in regions : r \in victims \/ r = o \/ r[2] <= first \/ end <= r[1]
    BY <1>1, <1>3, <1>4, <1>7, <2>1
  <2>4. Grows(Grown, first, end, gaps)
    BY <1>8, <2>1, <2>2, <2>3, GrownIs
  <2> QED
    BY <2>1, <2>4
<1>10. gaps \subseteq o[2] .. (end - 1)
  OBVIOUS
<1> HIDE DEF gaps, Grown
<1>11. /\ Grown \subseteq HeapBlocks /\ Apart(Grown)
       /\ Cover(Grown) = Cover(regions) \union gaps
       /\ gaps \subseteq 0 .. (HeapPages - 1)
       /\ o[1] .. (end - 1) \subseteq Cover(regions) \union gaps
  BY <1>9 DEF Grows
<1>12. CASE /\ regions' = Grown
            /\ free' = RemoveFreeRange(free, o[2], end)
            /\ committed' = committed \union gaps \union (from .. to - 1)
            /\ written' = ZeroClaimed(gaps)
            /\ mark' = IF gaps = {} THEN mark ELSE RaisedTo(Max(gaps) + 1)
            /\ UNCHANGED commitFailed
  <2>1. /\ o[2] .. (end - 1) \subseteq o[1] .. (end - 1)
        /\ from .. (to - 1) \subseteq o[1] .. (end - 1)
    BY <1>3, <1>4, <1>7, RangeWithin
  <2>2. Cover(regions) \subseteq committed
    BY BooksBefore DEF HeapInv, BooksHold
  <2>3. committed' = committed \union gaps
    BY <1>11, <1>12, <2>1, <2>2
  <2>4. o[2] .. (end - 1) \subseteq Cover(regions) \union gaps
    BY <1>11, <2>1
  <2> QED
    BY <1>3, <1>6, <1>7, <1>11, <1>10, <1>12, <2>3, <2>4, GrowthSound
<1>13. CASE \E stop \in {g \in gaps : g - 1 \notin gaps} :
              /\ regions' = regions \ {v \in victims : v[1] < stop}
              /\ free' = RemoveFreeRange(free, o[2], ends(stop))
              /\ committed' = committed \union Claimed(stop)
              /\ written' = ZeroClaimed(Claimed(stop))
              /\ mark' = IF Claimed(stop) = {} THEN mark
                         ELSE RaisedTo(Max(Claimed(stop)) + 1)
              /\ commitFailed' = TRUE
  <2>1. PICK stop \in gaps :
              /\ regions' = regions \ {v \in victims : v[1] < stop}
              /\ free' = RemoveFreeRange(free, o[2], ends(stop))
              /\ committed' = committed \union Claimed(stop)
              /\ written' = ZeroClaimed(Claimed(stop))
              /\ mark' = IF Claimed(stop) = {} THEN mark
                         ELSE RaisedTo(Max(Claimed(stop)) + 1)
              /\ commitFailed' = TRUE
    BY <1>13
  <2> DEFINE candidates == {v[1] : v \in {w \in victims : w[1] > stop}} \union {end}
             claimed == Claimed(stop)
             lost == {v \in victims : v[1] < stop}
  <2>2. stop \in Nat /\ o[2] <= stop
    BY <1>3, <1>7, <1>10
  <2>3. \A v \in victims : v[1] \in Nat
    BY <1>1, <1>8 DEF HeapShape, HeapBlocks
  <2>4. candidates \subseteq Nat /\ candidates # {} /\ \A n \in candidates : o[2] < n
    BY <1>3, <1>7, <2>2, <2>3
  <2>5. ends(stop) = Min(candidates)
    OBVIOUS
  <2>6. claimed \in SUBSET (0 .. (HeapPages - 1)) /\ lost \in SUBSET regions
    BY <1>8, <1>11
  <2> HIDE DEF candidates
  <2>7. Min(candidates) \in Nat /\ o[2] < Min(candidates)
    BY <2>4, MinIs
  <2> HIDE DEF claimed, lost
  <2>8. /\ regions' = regions \ lost
        /\ free' = RemoveFreeRange(free, o[2], Min(candidates))
        /\ committed' = committed \union claimed /\ written' = ZeroClaimed(claimed)
        /\ mark' = (IF claimed = {} THEN mark ELSE RaisedTo(Max(claimed) + 1))
        /\ commitFailed' = TRUE
    BY <2>1, <2>5 DEF claimed, lost
  <2> QED
    BY <1>3, <1>6, <2>6, <2>7, <2>8, LossSound
<1> QED
  BY <1>5, <1>12, <1>13

\* An allocation at an address takes whole pages of the heap.
LEMMA AllocateAtKeeps ==
  ASSUME HeapInv, NEW n \in Requests, NEW a \in Alignments, NEW at \in 0 .. HeapPages - 1,
         AllocateAt(at, n, a)
  PROVE  HeapInv' /\ FreshStep
<1>1. n \in Nat /\ a \in Nat \ {0} /\ at \in Nat
  BY HeapAssumption
<1> DEFINE from == RoundDown(at, a)
           size == RoundUp(n, a)
<1>2. from \in Nat /\ size \in Nat \ {0}
  <2>1. from \in 0 .. at
    BY <1>1, RoundDownIs
  <2> QED
    BY <1>1, <2>1, SizesAre
<1>3. /\ from + size <= HeapPages
      /\ \/ Recommit(from, from + size) \/ GrowRegion(from, from + size)
         \/ Conflict(from, from + size) \/ Claim(from, from + size)
  BY Zenon DEF AllocateAt
<1> HIDE DEF from, size
<1>4. PICK to \in 0 .. HeapPages : to = from + size
  BY <1>2, <1>3, HeapAssumption
<1>5. from < to /\ to \in Nat /\ to <= HeapPages
  BY <1>2, <1>4, HeapAssumption
<1>6. Recommit(from, to) \/ GrowRegion(from, to) \/ Conflict(from, to) \/ Claim(from, to)
  BY <1>3, <1>4
<1> QED
  BY <1>2, <1>5, <1>6, RecommitKeeps, GrowKeeps, ConflictKeeps, ClaimKeeps

\* A guest writes to pages that are committed.
LEMMA WriteKeeps ==
  ASSUME HeapInv, NEW p \in 0 .. HeapPages - 1, Write(p)
  PROVE  HeapInv' /\ FreshStep
<1>1. HeapShape' /\ FreshAboveMark'
  BY DEF HeapInv, HeapShape, FreshAboveMark, Write
<1>2. BooksHold(regions', free', committed', commitFailed')
  BY BooksBefore DEF HeapInv, BooksHold, Write
<1>3. regions' = regions
  BY DEF Write
<1> QED
  BY <1>1, <1>2, <1>3, BooksAfter

\* The heap starts as one free block.
LEMMA HeapInitially == HeapInit => HeapInv
<1> SUFFICES ASSUME HeapInit PROVE HeapInv
  OBVIOUS
<1>1. /\ <<0, HeapPages>> \in HeapBlocks /\ PagesOf(<<0, HeapPages>>) = 0 .. (HeapPages - 1)
  BY RangeIsBlock, HeapAssumption
<1>2. HeapShape /\ FreshAboveMark
  <2>1. free \subseteq HeapBlocks
    BY <1>1 DEF HeapInit
  <2>2. /\ regions = {} /\ mark = 0 /\ committed = {} /\ written = {}
        /\ commitFailed = FALSE /\ conflicted = FALSE
    BY DEF HeapInit
  <2>3. 0 \in 0 .. HeapPages
    BY HeapAssumption
  <2> QED
    BY <2>1, <2>2, <2>3 DEF HeapShape, FreshAboveMark
<1>3. Owned = {} /\ Cover(free) = 0 .. (HeapPages - 1) /\ Apart(regions)
  BY <1>1 DEF HeapInit, Owned, Cover, Apart
<1>4. BooksBalance
  BY <1>3 DEF HeapInit, BooksBalance
<1> QED
  BY <1>2, <1>4 DEF HeapInv

\* Every call of the heap keeps the invariant, and gives out zeroed pages.
LEMMA HeapKept == HeapInv /\ [HeapNext]_heapVars => HeapInv' /\ (FreshStep \/ UNCHANGED heapVars)
<1> SUFFICES ASSUME HeapInv, [HeapNext]_heapVars
             PROVE  HeapInv' /\ (FreshStep \/ UNCHANGED heapVars)
  OBVIOUS
<1>1. CASE \E n \in Requests, a \in Alignments :
             Allocate(n, a) \/ \E at \in 0 .. HeapPages - 1 : AllocateAt(at, n, a)
  BY <1>1, AllocateKeeps, AllocateAtKeeps
<1>2. CASE \E b \in regions : Free(b)
  BY <1>2, FreeKeeps
<1>3. CASE \E p \in 0 .. HeapPages - 1 : Write(p)
  BY <1>3, WriteKeeps
<1>4. CASE UNCHANGED heapVars
  BY <1>4 DEF HeapInv, HeapShape, BooksBalance, FreshAboveMark, Owned, heapVars
<1> QED
  BY <1>1, <1>2, <1>3, <1>4 DEF HeapNext

\* The books balance and nothing above the mark was committed, after any calls of the heap.
LEMMA HeapIsInv == HeapSpec => []HeapInv
<1>1. HeapInv /\ [HeapNext]_heapVars => HeapInv'
  BY HeapKept
<1> QED
  BY <1>1, HeapInitially, PTL DEF HeapSpec

\* The heap's variables have their types: no block leaves the heap, and the guest only writes to
\* pages that were committed.
THEOREM HeapTypeCorrect == HeapSpec => []HeapTypeOK
<1>1. HeapInv => HeapTypeOK
  BY DEF HeapInv, HeapShape, HeapBlocks, HeapTypeOK
<1> QED
  BY <1>1, HeapIsInv, PTL

\* Whatever is allocated, freed, grown and fails to commit, no page has two owners or is owned
\* and free at once, free neighbours are merged, and no page is lost but to a failed commit in a
\* fixed allocation (Allocate, AllocateAt, Free, InsertFree, RemoveFreeRange).
THEOREM HeapBooksBalance == HeapSpec => []BooksBalance
<1>1. HeapInv => BooksBalance
  BY DEF HeapInv
<1> QED
  BY <1>1, HeapIsInv, PTL

\* Every page is zeroed on its way to a new owner, by the host above the mark and by ZeroClaimed
\* below it, unless a fixed allocation has run into a live region before.
THEOREM NewPagesAreZero == HeapSpec => FreshPagesAreZero
<1>1. HeapInv /\ [HeapNext]_heapVars
        => [\A p \in Owned' \ Owned : p \notin written' \/ conflicted]_heapVars
  BY HeapKept DEF FreshStep
<1> QED
  BY <1>1, HeapIsInv, PTL DEF HeapSpec, FreshPagesAreZero

-----------------------------------------------------------------------------
(* The timers *)

ArmedShape == \A a \in armed : a \in [timer : Timers, due : Nat, period : Periods]

\* What a step on the schedule needs: types, one schedule a timer, and a scheduler that sleeps no
\* longer than it may.
TimersSound == TimersTypeOK /\ ArmedShape /\ NoTimerSleptThrough

\* A timer's schedule is gone with it, and the others' stay.
LEMMA DisarmedIs ==
  ASSUME TimersSound, NEW k \in Timers
  PROVE  Disarmed(k) \subseteq armed /\ \A a \in Disarmed(k) : a.timer # k
BY DEF Disarmed

LEMMA ArmSound ==
  ASSUME TimersSound, NEW c \in Callers, NEW k \in Timers, NEW delay \in Delays,
         NEW period \in Periods, Arm(c, k, delay, period)
  PROVE  TimersSound'
<1> DEFINE new == [timer |-> k, due |-> time + delay, period |-> period]
<1>1. time \in Nat /\ delay \in Nat /\ new \in [timer : Timers, due : Nat, period : Periods]
  BY TimersAssumption DEF TimersSound, TimersTypeOK
<1>2. armed' = Disarmed(k) \union {new}
  BY DEF Arm
<1>3. ArmedShape'
  BY <1>1, <1>2, DisarmedIs DEF ArmedShape, TimersSound
<1>4. \A a, b \in armed' : a.timer = b.timer => a = b
  <2>1. \A a, b \in armed : a.timer = b.timer => a = b
    BY DEF TimersSound, TimersTypeOK
  <2> HIDE DEF new
  <2>2. new.timer = k
    BY DEF new
  <2> QED
    BY <1>2, <2>1, <2>2, DisarmedIs
<1>5. caller' = [caller EXCEPT ![c] = "notify"] /\ calling' = [calling EXCEPT ![c] = {k}]
      /\ calls < MaxCalls /\ calls' = calls + 1
      /\ UNCHANGED <<time, expired, until, firing>>
      /\ scheduler' \in {scheduler, "look"}
  BY DEF Arm
<1>6. /\ caller' \in [Callers -> {"run", "notify", "clear", "cancelled"}]
      /\ calling' \in [Callers -> SUBSET Timers] /\ calls' \in 0 .. MaxCalls
      /\ caller'[c] = "notify"
  BY <1>5, TimersAssumption DEF TimersSound, TimersTypeOK
<1>7. NoTimerSleptThrough'
  BY <1>6 DEF NoTimerSleptThrough
<1>8. TimersTypeOK'
  BY <1>3, <1>4, <1>5, <1>6 DEF TimersTypeOK, TimersSound, ArmedShape
<1> QED
  BY <1>3, <1>7, <1>8 DEF TimersSound

LEMMA CancelSound ==
  ASSUME TimersSound, NEW c \in Callers, NEW k \in Timers, Cancel(c, k)
  PROVE  TimersSound'
<1>1. armed' \subseteq armed /\ UNCHANGED <<time, expired, scheduler, until, firing, calling>>
  BY DisarmedIs DEF Cancel
<1>2. calls' \in 0 .. MaxCalls /\ caller' \in [Callers -> {"run", "notify", "clear", "cancelled"}]
  BY TimersAssumption DEF Cancel, TimersSound, TimersTypeOK
<1>3. \A d \in Callers : caller[d] = "notify" => caller'[d] = "notify"
  BY DEF Cancel, TimersSound, TimersTypeOK
<1>4. ArmedShape' /\ TimersTypeOK'
  BY <1>1, <1>2 DEF TimersSound, TimersTypeOK, ArmedShape
<1>5. NoTimerSleptThrough'
  BY <1>1, <1>3 DEF TimersSound, NoTimerSleptThrough
<1> QED
  BY <1>4, <1>5 DEF TimersSound

\* A caller's last steps: a scheduler that is notified sleeps no more.
LEMMA CallSound ==
  ASSUME TimersSound, NEW c \in Callers, Notify(c) \/ ClearTimer(c)
  PROVE  TimersSound'
<1>1. CASE Notify(c)
  <2>1. scheduler' # "sleep" /\ scheduler' \in {"off", "look", "sleep", "notified", "set"}
    BY <1>1 DEF Notify, Notified, TimersSound, TimersTypeOK
  <2>2. caller' \in [Callers -> {"run", "notify", "clear", "cancelled"}]
    BY <1>1 DEF Notify, TimersSound, TimersTypeOK
  <2> QED
    BY <1>1, <2>1, <2>2
    DEF Notify, TimersSound, TimersTypeOK, ArmedShape, NoTimerSleptThrough
<1>2. CASE ClearTimer(c)
  <2>1. /\ caller' \in [Callers -> {"run", "notify", "clear", "cancelled"}]
        /\ calling' \in [Callers -> SUBSET Timers] /\ expired' \subseteq Timers
        /\ \A d \in Callers : caller[d] = "notify" => caller'[d] = "notify"
    BY <1>2 DEF ClearTimer, TimersSound, TimersTypeOK
  <2> QED
    BY <1>2, <2>1 DEF ClearTimer, TimersSound, TimersTypeOK, ArmedShape, NoTimerSleptThrough
<1> QED
  BY <1>1, <1>2

\* When anything is armed something is due first, and what the scheduler sleeps to is no later
\* than anything armed.
LEMMA EarliestIs ==
  ASSUME TimersSound
  PROVE  /\ Earliest \subseteq armed
         /\ \A a \in armed : \E due \in {e.due : e \in Earliest} : due <= a.due
<1> DEFINE S == {a.due : a \in armed}
<1>1. Earliest \subseteq armed
  BY DEF Earliest
<1>2. ASSUME NEW a \in armed
      PROVE  \E due \in {e.due : e \in Earliest} : due <= a.due
  <2>1. S \subseteq Nat /\ S # {}
    BY <1>2 DEF TimersSound, ArmedShape
  <2> HIDE DEF S
  <2>2. Min(S) \in S /\ \A n \in S : Min(S) <= n
    BY <2>1, MinIs
  <2>3. PICK e \in armed : e.due = Min(S)
    BY <2>2 DEF S
  <2>4. \A b \in armed : e.due <= b.due
    BY <2>2, <2>3 DEF S
  <2>5. e \in Earliest
    BY <2>4 DEF Earliest
  <2> QED
    BY <2>4, <2>5
<1> QED
  BY <1>1, <1>2

\* What the scheduler does: the one timer it picks is due again or gone.
LEMMA SchedulerSound ==
  ASSUME TimersSound, SchedulerStep
  PROVE  TimersSound'
<1>1. CASE Sleep
  <2>1. until' = {a.due : a \in Earliest} /\ scheduler' = "sleep"
        /\ UNCHANGED <<time, armed, expired, firing, caller, calling, calls>>
    BY <1>1 DEF Sleep
  <2>2. until' \subseteq Nat
    BY <2>1, EarliestIs DEF TimersSound, ArmedShape
  <2>3. NoTimerSleptThrough'
    BY <2>1, EarliestIs DEF NoTimerSleptThrough
  <2> QED
    BY <2>1, <2>2, <2>3 DEF TimersSound, TimersTypeOK, ArmedShape
<1>2. CASE WakeScheduler \/ Fire
  <2>1. scheduler' = "look" /\ UNCHANGED <<time, armed, caller, calling, calls>>
        /\ until' \subseteq Nat /\ firing' \subseteq Timers /\ expired' \subseteq Timers
    BY <1>2 DEF WakeScheduler, Fire, TimersSound, TimersTypeOK
  <2> QED
    BY <2>1 DEF TimersSound, TimersTypeOK, ArmedShape, NoTimerSleptThrough
<1>3. CASE Pick
  <2>1. PICK a \in Earliest :
          /\ armed' = (armed \ {a}) \union
                        (IF a.period = 0 THEN {} ELSE {[a EXCEPT !.due = a.due + a.period]})
          /\ firing' = {a.timer}
    BY <1>3 DEF Pick
  <2>2. a \in armed /\ a \in [timer : Timers, due : Nat, period : Periods] /\ a.period \in Nat
    BY EarliestIs, TimersAssumption DEF TimersSound, ArmedShape
  <2> DEFINE again == [a EXCEPT !.due = a.due + a.period]
  <2>3. again \in [timer : Timers, due : Nat, period : Periods] /\ again.timer = a.timer
    BY <2>2
  <2> HIDE DEF again
  <2>4. armed' \subseteq (armed \ {a}) \union {again}
    BY <2>1 DEF again
  <2>5. ArmedShape'
    BY <2>3, <2>4 DEF TimersSound, ArmedShape
  <2>6. \A b, c \in armed' : b.timer = c.timer => b = c
    <3>1. \A b, c \in armed : b.timer = c.timer => b = c
      BY DEF TimersSound, TimersTypeOK
    <3> QED
      BY <2>2, <2>3, <2>4, <3>1
  <2>7. scheduler' = "set" /\ firing' \subseteq Timers
        /\ UNCHANGED <<time, expired, until, caller, calling, calls>>
    BY <1>3, <2>1, <2>2 DEF Pick
  <2> QED
    BY <2>5, <2>6, <2>7 DEF TimersSound, TimersTypeOK, ArmedShape, NoTimerSleptThrough
<1> QED
  BY <1>1, <1>2, <1>3 DEF SchedulerStep

LEMMA TimersInvariant == TimersSpec => []TimersSound
<1>1. TimersInit => TimersSound
  BY TimersAssumption
  DEF TimersInit, TimersSound, TimersTypeOK, ArmedShape, NoTimerSleptThrough
<1>2. TimersSound /\ [TimersNext]_timersVars => TimersSound'
  <2> SUFFICES ASSUME TimersSound, [TimersNext]_timersVars PROVE TimersSound'
    OBVIOUS
  <2>1. CASE UNCHANGED timersVars \/ TimersQuiet
    BY <2>1
    DEF TimersQuiet, timersVars, TimersSound, TimersTypeOK, ArmedShape, NoTimerSleptThrough
  <2>2. CASE Tick
    BY <2>2, TimersAssumption
    DEF Tick, TimersSound, TimersTypeOK, ArmedShape, NoTimerSleptThrough
  <2>3. CASE TimersNext /\ ~TimersQuiet /\ ~Tick
    BY <2>3, SchedulerSound, CallSound, CancelSound, ArmSound DEF TimersNext
  <2> QED
    BY <2>1, <2>2, <2>3
<1> QED
  BY <1>1, <1>2, PTL DEF TimersSpec

\* A timer never has two schedules, however many callers set and cancel it while the scheduler
\* fires it, and every variable keeps its type.
THEOREM TimersTypeCorrect == TimersSpec => []TimersTypeOK
<1>1. TimersSound => TimersTypeOK
  BY DEF TimersSound
<1> QED
  BY <1>1, TimersInvariant, PTL

\* The scheduler does not sleep through a timer armed while it sleeps, or while it signalled
\* another.
THEOREM SchedulerIsNotLate == TimersSpec => []NoTimerSleptThrough
<1>1. TimersSound => NoTimerSleptThrough
  BY DEF TimersSound
<1> QED
  BY <1>1, TimersInvariant, PTL

\* A timer whose time has come is not forgotten: the scheduler runs, or what it sleeps to is over,
\* or a thread is still to notify it.  A scheduler that was never started has nothing armed.
OverdueIsNoticed ==
  (\E a \in armed : a.due <= time) =>
    \/ scheduler \in {"look", "notified", "set"}
    \/ scheduler = "sleep" /\ \E due \in until : due <= time
    \/ \E c \in Callers : caller[c] = "notify"

StartedWhenArmed == scheduler = "off" => armed = {}

LEMMA StartedWhenArmedKept == TimersSpec => []StartedWhenArmed
<1>1. TimersInit => StartedWhenArmed
  BY DEF TimersInit, StartedWhenArmed
<1>2. TimersSound /\ StartedWhenArmed /\ [TimersNext]_timersVars => StartedWhenArmed'
  <2> SUFFICES ASSUME TimersSound, StartedWhenArmed, [TimersNext]_timersVars
               PROVE  StartedWhenArmed'
    OBVIOUS
  <2>1. CASE UNCHANGED timersVars \/ TimersQuiet \/ Tick
    BY <2>1 DEF TimersQuiet, timersVars, Tick, StartedWhenArmed
  <2>2. CASE SchedulerStep
    BY <2>2 DEF SchedulerStep, Sleep, WakeScheduler, Pick, Fire, StartedWhenArmed
  <2>3. ASSUME NEW c \in Callers, Notify(c) \/ ClearTimer(c) PROVE StartedWhenArmed'
    BY <2>3 DEF Notify, Notified, ClearTimer, StartedWhenArmed
  <2>4. ASSUME NEW c \in Callers, NEW k \in Timers, Cancel(c, k) PROVE StartedWhenArmed'
    BY <2>4, DisarmedIs DEF Cancel, StartedWhenArmed
  <2>5. ASSUME NEW c \in Callers, NEW k \in Timers, NEW delay \in Delays, NEW period \in Periods,
               Arm(c, k, delay, period)
        PROVE  StartedWhenArmed'
    <3>1. scheduler' # "off"
      BY <2>5 DEF Arm
    <3> QED
      BY <3>1 DEF StartedWhenArmed
  <2> QED
    BY <2>1, <2>2, <2>3, <2>4, <2>5 DEF TimersNext
<1> QED
  BY <1>1, <1>2, TimersInvariant, PTL DEF TimersSpec

\* However many threads arm and cancel timers, a timer that is due always has a step of the
\* scheduler or of a caller ahead of it that leads to its signal (kernel_timer.cpp, the loop of
\* the scheduler and NtSetTimerEx).
THEOREM OverdueTimersAreNoticed == TimersSpec => []OverdueIsNoticed
<1>1. TimersSound /\ StartedWhenArmed => OverdueIsNoticed
  <2> SUFFICES ASSUME TimersSound, StartedWhenArmed, NEW a \in armed, a.due <= time
               PROVE  \/ scheduler \in {"look", "notified", "set"}
                      \/ scheduler = "sleep" /\ \E due \in until : due <= time
                      \/ \E c \in Callers : caller[c] = "notify"
    BY DEF OverdueIsNoticed
  <2>1. scheduler \in {"look", "sleep", "notified", "set"}
    BY DEF StartedWhenArmed, TimersSound, TimersTypeOK
  <2>2. ASSUME scheduler = "sleep", NEW due \in until, due <= a.due PROVE due <= time
    <3>1. due \in Nat /\ a.due \in Nat /\ time \in Nat
      BY <2>2, TimersAssumption DEF TimersSound, TimersTypeOK
    <3> QED
      BY <2>2, <3>1
  <2> QED
    BY <2>1, <2>2 DEF TimersSound, NoTimerSleptThrough
<1> QED
  BY <1>1, TimersInvariant, StartedWhenArmedKept, PTL

=============================================================================

----------------------------- MODULE KernelTimers -----------------------------
(***************************************************************************)
(* The kernel's timers (kernel_timer.cpp): one scheduler thread sleeps       *)
(* until the earliest due time, signals that timer's event, and is woken     *)
(* when a guest thread arms a timer or cancels one.                          *)
(*                                                                           *)
(* A section under g_mutex is one step; a timer's event is Set and Cleared   *)
(* outside it.  Which of two timers due at once comes first is left open.    *)
(***************************************************************************)
EXTENDS Naturals, FiniteSets

CONSTANTS
  Timers,         (* handles of timers                                        *)
  Callers,        (* guest threads that set and cancel them                   *)
  Delays, Periods, (* in milliseconds; the period 0 is a one-shot             *)
  MaxTime,        (* bound: the clock stops here                              *)
  MaxCalls        (* bound: NtSetTimerEx and NtCancelTimer calls              *)

ASSUME TimersAssumption ==
  /\ Delays \subseteq Nat /\ Periods \subseteq Nat
  /\ MaxTime \in Nat /\ MaxCalls \in Nat

VARIABLES
  time,           (* steady_clock                                             *)
  armed,          (* g_armed: a set of [timer, due, period]                   *)
  expired,        (* the timers whose event is signalled                      *)
  scheduler,      (* "off", "look", "sleep", "notified", "set"                *)
  until,          (* while it sleeps: the due time it sleeps to, or {}        *)
  firing,         (* the timer it is about to signal                          *)
  caller,         (* by guest thread: "run", "notify", "clear", "cancelled"   *)
  calling,        (* by guest thread: the timer it set, or {}                 *)
  calls

timersVars == <<time, armed, expired, scheduler, until, firing, caller, calling, calls>>

TimersInit ==
  /\ time = 0 /\ armed = {} /\ expired = {}
  /\ scheduler = "off" /\ until = {} /\ firing = {}
  /\ caller = [c \in Callers |-> "run"] /\ calling = [c \in Callers |-> {}]
  /\ calls = 0

Tick ==
  /\ time < MaxTime
  /\ time' = time + 1
  /\ UNCHANGED <<armed, expired, scheduler, until, firing, caller, calling, calls>>

-----------------------------------------------------------------------------
(* Guest threads *)

Disarmed(k) == {a \in armed : a.timer # k}

\* NtSetTimerEx, under the lock: the schedule is replaced; the first call starts the scheduler.
Arm(c, k, delay, period) ==
  /\ caller[c] = "run" /\ calls < MaxCalls
  /\ armed' = Disarmed(k) \union {[timer |-> k, due |-> time + delay, period |-> period]}
  /\ scheduler' = IF scheduler = "off" THEN "look" ELSE scheduler
  /\ caller' = [caller EXCEPT ![c] = "notify"]
  /\ calling' = [calling EXCEPT ![c] = {k}]
  /\ calls' = calls + 1
  /\ UNCHANGED <<time, expired, until, firing>>

\* NtCancelTimer, under the lock.
Cancel(c, k) ==
  /\ caller[c] = "run" /\ calls < MaxCalls
  /\ armed' = Disarmed(k)
  /\ caller' = [caller EXCEPT ![c] = "cancelled"]
  /\ calls' = calls + 1
  /\ UNCHANGED <<time, expired, scheduler, until, firing, calling>>

\* Mutant: the scheduler is notified of the first timer only.
NotifyWhenIdle == IF scheduler = "sleep" /\ until = {} THEN "notified" ELSE scheduler

Notified == IF scheduler = "sleep" THEN "notified" ELSE scheduler

\* g_wakeup.notify_all, after the lock.
Notify(c) ==
  /\ caller[c] \in {"notify", "cancelled"}
  /\ scheduler' = Notified
  /\ caller' = [caller EXCEPT ![c] = IF @ = "notify" THEN "clear" ELSE "run"]
  /\ UNCHANGED <<time, armed, expired, until, firing, calling, calls>>

\* ... and NtSetTimerEx clears the event last.
ClearTimer(c) ==
  /\ caller[c] = "clear"
  /\ expired' = expired \ calling[c]
  /\ caller' = [caller EXCEPT ![c] = "run"]
  /\ calling' = [calling EXCEPT ![c] = {}]
  /\ UNCHANGED <<time, armed, scheduler, until, firing, calls>>

-----------------------------------------------------------------------------
(* The scheduler *)

\* Mutant: the comparison of std::min_element is the wrong way round.
LatestArmed == {a \in armed : \A b \in armed : b.due <= a.due}

\* The timers with the earliest due time.
Earliest == {a \in armed : \A b \in armed : a.due <= b.due}

Due == \E a \in Earliest : a.due <= time

\* Nothing is due: it sleeps until something is, or until it is notified.
Sleep ==
  /\ scheduler = "look" /\ ~Due
  /\ scheduler' = "sleep"
  /\ until' = {a.due : a \in Earliest}
  /\ UNCHANGED <<time, armed, expired, firing, caller, calling, calls>>

WakeScheduler ==
  /\ scheduler = "notified" \/ (scheduler = "sleep" /\ \E due \in until : due <= time)
  /\ scheduler' = "look"
  /\ until' = {}
  /\ UNCHANGED <<time, armed, expired, firing, caller, calling, calls>>

\* The earliest is due: a periodic timer is due again, a one-shot is disarmed.
Pick ==
  /\ scheduler = "look" /\ Due
  /\ \E a \in Earliest :
       /\ armed' = (armed \ {a}) \union
                     (IF a.period = 0 THEN {} ELSE {[a EXCEPT !.due = @ + a.period]})
       /\ firing' = {a.timer}
  /\ scheduler' = "set"
  /\ UNCHANGED <<time, expired, until, caller, calling, calls>>

\* Its event is signalled outside the lock.
Fire ==
  /\ scheduler = "set"
  /\ expired' = expired \union firing
  /\ firing' = {}
  /\ scheduler' = "look"
  /\ UNCHANGED <<time, armed, until, caller, calling, calls>>

-----------------------------------------------------------------------------
SchedulerStep == Sleep \/ WakeScheduler \/ Pick \/ Fire

\* The clock stands, every call has been made, and the scheduler sleeps.
TimersQuiet ==
  /\ time = MaxTime /\ calls = MaxCalls /\ scheduler \in {"off", "sleep"}
  /\ \A c \in Callers : caller[c] = "run"
  /\ UNCHANGED timersVars

TimersNext ==
  \/ TimersQuiet \/ Tick \/ SchedulerStep
  \/ \E c \in Callers : Notify(c) \/ ClearTimer(c)
  \/ \E c \in Callers, k \in Timers : Cancel(c, k)
  \/ \E c \in Callers, k \in Timers, delay \in Delays, period \in Periods : Arm(c, k, delay, period)

TimersFairness ==
  /\ WF_timersVars(Tick) /\ WF_timersVars(SchedulerStep)
  /\ \A c \in Callers : WF_timersVars(Notify(c))

TimersSpec == TimersInit /\ [][TimersNext]_timersVars /\ TimersFairness

-----------------------------------------------------------------------------
\* Every variable has its type, and a timer has one schedule.
TimersTypeOK ==
  /\ time \in 0 .. MaxTime /\ calls \in 0 .. MaxCalls
  /\ \A a \in armed : a.timer \in Timers /\ a.due \in Nat /\ a.period \in Periods
  /\ \A a, b \in armed : a.timer = b.timer => a = b
  /\ {expired, firing} \subseteq SUBSET Timers /\ until \subseteq Nat
  /\ scheduler \in {"off", "look", "sleep", "notified", "set"}
  /\ caller \in [Callers -> {"run", "notify", "clear", "cancelled"}]
  /\ calling \in [Callers -> SUBSET Timers]

\* The scheduler never sleeps past an armed timer's due time, unless a thread that has armed one
\* since the scheduler looked is still to notify it: callers arm and cancel under the lock but
\* notify after it, several at a time, while the scheduler signals outside the lock too
\* (kernel_timer.cpp:64, 171).
NoTimerSleptThrough ==
  scheduler = "sleep" =>
    \/ \A a \in armed : \E due \in until : due <= a.due
    \/ \E c \in Callers : caller[c] = "notify"

\* A timer whose time has come fires until it is not due any more, unless it is disarmed or armed
\* anew: no periodic timer starves another, and an earlier timer armed while the scheduler sleeps
\* until a later one is not slept through (kernel_timer.cpp:62, "arming another timer can bring
\* an earlier due time in while this one waits").
EveryArmedTimerFires ==
  \A k \in Timers : LET Overdue == \E a \in armed : a.timer = k /\ a.due <= time
                   IN Overdue ~> ~Overdue

=============================================================================

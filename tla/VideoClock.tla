------------------------------ MODULE VideoClock ------------------------------
(***************************************************************************)
(* What drives the guest's time: the vblank thread (VblankThread), the      *)
(* title's presents (VdSwap), the guest clock they advance, and the         *)
(* interrupt callback the vblank thread and the command processor share     *)
(* (InterruptThreadState::Dispatch).  A fixed clock step is configured.     *)
(*                                                                          *)
(* The title is modelled as guest_clock.h and the gate's own warning        *)
(* describe it: before its first present it spins until guest time has      *)
(* advanced, and after that it needs a vblank for every further present, or *)
(* several, "which it legitimately does while loading".                     *)
(***************************************************************************)
EXTENDS Naturals

CONSTANTS
  Slack,          (* GuestClockVblankSlack                                    *)
  BootTicks,      (* clock steps the title spins for before its first present *)
  MaxNeed,        (* bound: vblanks the title needs for one present           *)
  MaxPresents     (* bound: VdSwap calls                                      *)

ASSUME ClockAssumption ==
  /\ Slack \in Nat \ {0}      (* guest_clock.h: "It must not be 0"            *)
  /\ BootTicks \in Nat \ {0} /\ MaxNeed \in Nat \ {0} /\ MaxPresents \in Nat

VARIABLES
  trigger,        (* GuestClockTrigger, fixed when the run starts             *)
  vblank,         (* the vblank thread: "pace", "gate", "count", "dispatch",  *)
                  (* "isr"                                                    *)
  presents,       (* the frame count it read                                  *)
  ahead,          (* vblanksDelivered - paceBase, counted where it is paced   *)
  frames,         (* g_frameCount                                             *)
  clock,          (* the guest clock's steps, up to BootTicks                 *)
  interrupt,      (* who holds g_interruptMutex                               *)
  vblanksSeen,    (* vblanks the title has had since it last presented, up to *)
                  (* MaxNeed                                                  *)
  needs           (* vblanks it needs before it presents again                *)

clockVars == <<trigger, vblank, presents, ahead, frames, clock, interrupt, vblanksSeen, needs>>

Triggers == {"present", "vblank", "vblank-freerun", "vblank-paced"}

ClockInit ==
  /\ trigger \in Triggers
  /\ vblank = "pace" /\ presents = 0 /\ ahead = 0
  /\ frames = 0 /\ clock = 0
  /\ interrupt = "nobody" /\ vblanksSeen = 0 /\ needs = 1

\* AdvanceGuestClockFrame
Advanced == IF clock < BootTicks THEN clock + 1 ELSE clock

-----------------------------------------------------------------------------
(* The vblank thread *)

\* Before the first present the paced trigger runs free, and its vblanks do not count; after
\* it, it passes the gate.  The other triggers sleep, or do not wait at all.
Pace ==
  /\ vblank = "pace"
  /\ presents' = frames
  /\ IF trigger = "vblank-paced" /\ frames # 0
     THEN vblank' = "gate" /\ UNCHANGED ahead
     ELSE vblank' = "count" /\ ahead' = 0
  /\ UNCHANGED <<trigger, frames, clock, interrupt, vblanksSeen, needs>>

\* Mutant: the gate lets one vblank too many through.
SpentLate == ahead > presents + Slack

BudgetSpent == ahead >= presents + Slack

\* Mutant: the gate does not look at the frame count again.
PassGateUnwatched ==
  /\ vblank = "gate" /\ ~BudgetSpent
  /\ vblank' = "count"
  /\ UNCHANGED <<trigger, presents, ahead, frames, clock, interrupt, vblanksSeen, needs>>

\* The gate spins while the budget is spent and the title has not presented again.
PassGate ==
  /\ vblank = "gate"
  /\ ~BudgetSpent \/ frames # presents
  /\ vblank' = "count"
  /\ UNCHANGED <<trigger, presents, ahead, frames, clock, interrupt, vblanksSeen, needs>>

\* The vblank is counted, and advances the clock unless presents do.
CountVblank ==
  /\ vblank = "count"
  /\ ahead' = IF trigger = "vblank-paced" THEN ahead + 1 ELSE ahead
  /\ clock' = IF trigger # "present" THEN Advanced ELSE clock
  /\ vblank' = "dispatch"
  /\ UNCHANGED <<trigger, presents, frames, interrupt, vblanksSeen, needs>>

\* Dispatch(0, 0): the title's callback runs on this thread, under the mutex.
EnterVblankCallback ==
  /\ vblank = "dispatch" /\ interrupt = "nobody"
  /\ interrupt' = "vblank"
  /\ vblank' = "isr"
  /\ UNCHANGED <<trigger, presents, ahead, frames, clock, vblanksSeen, needs>>

LeaveVblankCallback ==
  /\ vblank = "isr"
  /\ vblanksSeen' = IF vblanksSeen < MaxNeed THEN vblanksSeen + 1 ELSE vblanksSeen
  /\ interrupt' = "nobody"
  /\ vblank' = "pace"
  /\ UNCHANGED <<trigger, presents, ahead, frames, clock, needs>>

-----------------------------------------------------------------------------
(* The command processor's INTERRUPT packets: Dispatch(1, cpu) *)

EnterCallback ==
  /\ interrupt = "nobody"
  /\ interrupt' = "processor"
  /\ UNCHANGED <<trigger, vblank, presents, ahead, frames, clock, vblanksSeen, needs>>

LeaveCallback ==
  /\ interrupt = "processor"
  /\ interrupt' = "nobody"
  /\ UNCHANGED <<trigger, vblank, presents, ahead, frames, clock, vblanksSeen, needs>>

-----------------------------------------------------------------------------
(* The title *)

\* What the title waits for before it presents.
MayPresent == IF frames = 0 THEN clock = BootTicks ELSE vblanksSeen >= needs

\* VdSwap counts the frame, and advances the clock if presents do.  The next frame may need
\* more than one vblank.
Present ==
  /\ frames < MaxPresents
  /\ MayPresent
  /\ frames' = frames + 1
  /\ vblanksSeen' = 0 /\ needs' \in 1 .. MaxNeed
  /\ clock' = IF trigger = "present" THEN Advanced ELSE clock
  /\ UNCHANGED <<trigger, vblank, presents, ahead, interrupt>>

\* The title has presented all that is asked of it, and the gate is closed.
ClockQuiet == frames = MaxPresents /\ UNCHANGED clockVars

VblankStep == Pace \/ PassGate \/ CountVblank \/ EnterVblankCallback \/ LeaveVblankCallback

ClockNext == VblankStep \/ EnterCallback \/ LeaveCallback \/ Present \/ ClockQuiet

\* The mutex is contended: a thread that keeps trying for it gets it.
ClockFairness ==
  /\ SF_clockVars(VblankStep) /\ WF_clockVars(LeaveCallback) /\ WF_clockVars(Present)

ClockSpec == ClockInit /\ [][ClockNext]_clockVars /\ ClockFairness

-----------------------------------------------------------------------------
\* Every variable has its type, and the mutex is held by whoever is in the callback.
ClockTypeOK ==
  /\ trigger \in Triggers
  /\ vblank \in {"pace", "gate", "count", "dispatch", "isr"}
  /\ presents \in Nat /\ ahead \in Nat /\ frames \in Nat
  /\ clock \in 0 .. BootTicks
  /\ interrupt \in {"nobody", "vblank", "processor"} /\ (interrupt = "vblank") = (vblank = "isr")
  /\ vblanksSeen \in 0 .. MaxNeed /\ needs \in 1 .. MaxNeed

\* Once the title presents, guest time runs at the rate it renders at: the paced vblanks are
\* never further ahead of the presents than the slack, although the gate decides with a frame
\* count it read earlier (vd_null_gpu.cpp:3030, "only while the vblank count is within `slack`
\* of the present count").
VblanksPaced == trigger = "vblank-paced" => ahead <= frames + Slack

\* The gate spins: the budget is spent, and no present has come since it read the count.
GateHolds == trigger = "vblank-paced" /\ vblank = "gate" /\ BudgetSpent /\ frames = presents

\* The gate holds back the vblank that the title still needs: the gate's warning says
\* STARVED.  It does so only to a title that needs several vblanks for one present.
Starved == GateHolds /\ vblanksSeen < needs /\ needs > 1

\* With every trigger but "present" the title presents as long as it wants to, unless the gate
\* starves it: the boot spin sees time pass, and neither the gate's stale frame count nor a
\* spent budget stops a title that has one vblank per present (guest_clock.h: "present"
\* deadlocks this title, and so does exact lockstep; the warning at vd_null_gpu.cpp:3062).
KeepsPresenting == trigger # "present" => <>(frames = MaxPresents \/ []Starved)

=============================================================================

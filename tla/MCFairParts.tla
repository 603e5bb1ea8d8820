------------------------------ MODULE MCFairParts ------------------------------
(***************************************************************************)
(* Four parts of the runtime that share no state in the model, checked side *)
(* by side for what must happen: a behaviour runs one of them, chosen at    *)
(* the start, under the fairness of its threads, and leaves the others as   *)
(* they were.                                                               *)
(***************************************************************************)
EXTENDS CommandStream, VideoClock, KernelTimers, PadArbiter

VARIABLE chosen

Parts == {"stream", "clock", "timers", "pad"}

partsVars == <<chosen, streamVars, clockVars, timersVars, arbiterVars>>

\* A clock that is not chosen has a trigger of which nothing is asked.
PartsInit ==
  /\ chosen \in Parts
  /\ StreamInit /\ ClockInit /\ TimersInit /\ PadInit
  /\ chosen # "clock" => trigger = "present"

\* One part's step.
StreamTurn(A) == chosen = "stream" /\ A /\ UNCHANGED <<chosen, clockVars, timersVars, arbiterVars>>
ClockTurn(A) == chosen = "clock" /\ A /\ UNCHANGED <<chosen, streamVars, timersVars, arbiterVars>>
TimersTurn(A) == chosen = "timers" /\ A /\ UNCHANGED <<chosen, streamVars, clockVars, arbiterVars>>
PadTurn(A) == chosen = "pad" /\ A /\ UNCHANGED <<chosen, streamVars, clockVars, timersVars>>

\* The pad rests once the player and the script have made their inputs; the others never stop.
PartsNext ==
  \/ StreamTurn(StreamNext) \/ ClockTurn(ClockNext)
  \/ TimersTurn(TimersNext) \/ PadTurn(PadNext)

\* Each part's fairness, when it is chosen.
PartsFairness ==
  /\ WF_streamVars(StreamTurn(ProcessorStep))
  /\ SF_clockVars(ClockTurn(VblankStep)) /\ WF_clockVars(ClockTurn(LeaveCallback))
  /\ WF_clockVars(ClockTurn(Present))
  /\ WF_timersVars(TimersTurn(Tick)) /\ WF_timersVars(TimersTurn(SchedulerStep))
  /\ \A c \in Callers : WF_timersVars(TimersTurn(Notify(c)))
  /\ WF_arbiterVars(PadTurn(StepComesDue))
  /\ \A t \in Pollers : WF_arbiterVars(PadTurn(Poll(t)))

PartsSpec == PartsInit /\ [][PartsNext]_partsVars /\ PartsFairness

\* Every variable of the part that runs has its type; the others keep their initial values,
\* which are checked where they run.
PartsTypeOK ==
  /\ chosen = "stream" => StreamTypeOK
  /\ chosen = "clock" => ClockTypeOK
  /\ chosen = "timers" => TimersTypeOK
  /\ chosen = "pad" => PadTypeOK

-----------------------------------------------------------------------------
(* The instances *)

\* A frame's buffer swaps, defers a store and draws; a tiled frame calls it once for each tile,
\* with only the first tile's bins live, waits for the store, and calls itself too deep.
P(op) == [op |-> op, predicated |-> FALSE, buffer |-> "frame", live |-> TRUE]
MCProgram ==
  [b \in {"frame", "tiles"} |->
     IF b = "frame" THEN <<P("swap"), P("shd"), P("other")>>
     ELSE <<[P("call") EXCEPT !.predicated = TRUE], [P("bins") EXCEPT !.live = FALSE],
            [P("call") EXCEPT !.predicated = TRUE], [P("bins") EXCEPT !.live = TRUE], P("wait"),
            [P("call") EXCEPT !.buffer = "tiles"]>>]

\* A script that presses a button and lets go of it, a remote controller and a desktop.
GuestAndPresenter == {"guest", "presenter"}
PressAndRelease == <<"scriptA", "neutral">>
RemotePresses == {"remoteA", "remoteB"}
DesktopPresses == {"key"}

=============================================================================

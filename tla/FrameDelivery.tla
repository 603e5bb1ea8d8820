---------------------------- MODULE FrameDelivery ----------------------------
(***************************************************************************)
(* What the pool of frame slots promises to the renderer, without slots,    *)
(* fences, polling or waits.  Submitted frames are numbered 1, 2, ...  The  *)
(* GPU reads a frame's resources until it is done with it.  A runner, the   *)
(* pump or the render thread, takes the completions of the next frames in   *)
(* a row that the GPU is done with, and then runs them one by one; while    *)
(* it does, the other runner may take and run those that follow.            *)
(*                                                                          *)
(* GpuFrameSlots implements this specification, and RenderPipeline builds   *)
(* the retirement of guest frames on it.                                    *)
(***************************************************************************)
EXTENDS Naturals

CONSTANTS Runners       (* the threads that take and run completions          *)

VARIABLES
  submitted,    (* frames handed to the pool so far                           *)
  reading,      (* those whose resources the GPU still reads                  *)
  taken,        (* every frame before this one has been taken                 *)
  held,         (* what each runner has taken and not run: [next, end)        *)
  lost,         (* the device is lost                                         *)
  lostFrames,   (* frames given up because of it                              *)
  succeeded, failed   (* frames whose completion ran with TRUE, with FALSE    *)

deliveryVars == <<submitted, reading, taken, held, lost, lostFrames, succeeded, failed>>

Nothing == [next |-> 1, end |-> 1, ok |-> TRUE]
Delivered == succeeded \union failed

DeliveryInit ==
  /\ submitted = 0 /\ reading = {} /\ taken = 1
  /\ held = [t \in Runners |-> Nothing]
  /\ lost = FALSE /\ lostFrames = {}
  /\ succeeded = {} /\ failed = {}

\* A frame enters the pool; the GPU may already be done with it, or be lost.
SubmitToPool ==
  /\ submitted' = submitted + 1
  /\ reading' \in {reading} \union (IF lost THEN {} ELSE {reading \union {submitted + 1}})
  /\ UNCHANGED <<taken, held, lost, lostFrames, succeeded, failed>>

GpuDone(n) ==
  /\ n \in reading
  /\ reading' = reading \ {n}
  /\ UNCHANGED <<submitted, taken, held, lost, lostFrames, succeeded, failed>>

\* Losing the device ends its access to every frame.
LoseDevice ==
  /\ ~lost
  /\ lost' = TRUE
  /\ reading' = {}
  /\ UNCHANGED <<submitted, taken, held, lostFrames, succeeded, failed>>

\* Runner t takes the completions of the frames up to end.
Take(t, end) ==
  /\ held[t] = Nothing
  /\ end \in taken .. (submitted + 1)
  /\ (taken .. (end - 1)) \intersect reading = {}
  /\ \E given \in SUBSET (taken .. submitted), ok \in BOOLEAN :
       /\ (given # {} \/ ~ok) => lost
       /\ lostFrames' = lostFrames \union given
       /\ ok => (taken .. (end - 1)) \intersect lostFrames' = {}
       /\ held' = IF end = taken THEN held
                  ELSE [held EXCEPT ![t] = [next |-> taken, end |-> end, ok |-> ok]]
  /\ taken' = end
  /\ UNCHANGED <<submitted, reading, lost, succeeded, failed>>

\* Runner t runs the first completion it holds.
Run(t) ==
  /\ held[t] # Nothing
  /\ held' = [held EXCEPT ![t] = IF held[t].next + 1 = held[t].end THEN Nothing
                                 ELSE [held[t] EXCEPT !.next = held[t].next + 1]]
  /\ IF held[t].ok
     THEN succeeded' = succeeded \union {held[t].next} /\ UNCHANGED failed
     ELSE failed' = failed \union {held[t].next} /\ UNCHANGED succeeded
  /\ UNCHANGED <<submitted, reading, taken, lost, lostFrames>>

DeliveryNext ==
  \/ SubmitToPool
  \/ \E n \in reading : GpuDone(n)
  \/ LoseDevice
  \/ \E t \in Runners : Run(t) \/ \E end \in taken .. (submitted + 1) : Take(t, end)

DeliverySpec == DeliveryInit /\ [][DeliveryNext]_deliveryVars

=============================================================================

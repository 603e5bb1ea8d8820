---------------------------- MODULE RenderPipeline ----------------------------
(***************************************************************************)
(* A guest frame from VdSwap to retirement: the command processor hands     *)
(* frames to the render thread (SubmitFrameForRender, FrameQueue), which    *)
(* records them and hands them to the pool of frame slots (FrameDelivery);  *)
(* when a frame's completion runs, RenderRetirement lets the guest memory   *)
(* writes deferred behind it (EVENT_WRITE_SHD) reach guest memory.          *)
(*                                                                          *)
(* Frames are named by their retirement generation.  SubmitFrameForRender   *)
(* gives a frame its id and its generation in the same critical section,    *)
(* so the queue's frame ids and the generations run together.               *)
(***************************************************************************)
EXTENDS Naturals, Sequences, FrameDelivery

CONSTANTS
  MaxFrames,    (* bound: frames the command processor submits                *)
  MaxWrites,    (* bound: EVENT_WRITE_SHD packets it defers                   *)
  Outcomes      (* what may become of a frame the render thread took:         *)
                (* "deferred", it is submitted and completes later;           *)
                (* "waits", the render thread waits for it (host readback, a  *)
                (* graphics probe); "drains", the frame first waits until the *)
                (* pool is empty; "fails", it never reaches the GPU;          *)
                (* "resets", the fence of its slot may be reset under the     *)
                (* pump's wait; "loss", the device may be lost                *)

ASSUME PipelineAssumption ==
  /\ MaxFrames \in Nat /\ MaxWrites \in Nat
  /\ Outcomes \subseteq {"deferred", "waits", "drains", "fails", "resets", "loss"}

Pump == "pump"
Render == "render"
Processor == "processor"
ASSUME RunnersAssumption == Runners = {Pump, Render}

NoFrame == 0

VARIABLES
  accepted, completed,  (* RenderRetirement: last accepted, completed generation *)
  completions,          (* RenderRetirement::completions_: [generation, write]   *)
  pending, active,      (* FrameQueue::pending_, activeFrameId_                  *)
  closed,               (* FrameQueue::closed_, set together with g_stopping     *)
  render,               (* the render thread                                     *)
  asleep,               (* the pump waits only for the reset fence of a slot:    *)
                        (* "leased", that of the frame being recorded;           *)
                        (* "abandoned", that of a frame given up; else "no"      *)
  owedTo,               (* by pool sequence: the generation its completion       *)
                        (* retires, or NoFrame for one the render thread awaits  *)
  retire,               (* by runner: the retire callback it is inside           *)
  immediate,            (* the write the processor is about to run itself        *)
  writes,               (* by write: lastAcceptedGeneration_ when it was issued  *)
  stored,               (* the writes in the order they reached guest memory     *)
  retired,              (* history: generations whose retire callback began      *)
  troubled              (* history: a frame failed, or the device was lost       *)

queueVars == <<pending, active, closed>>
retirementVars == <<accepted, completed, completions>>
processorVars == <<immediate, writes>>
vars == <<deliveryVars, queueVars, retirementVars, render, asleep, owedTo, retire,
          processorVars, stored, retired, troubled>>

NotRetiring == [generation |-> NoFrame, batch |-> <<>>]
Free(t) == retire[t] = NotRetiring

Init ==
  /\ DeliveryInit
  /\ accepted = 0 /\ completed = 0 /\ completions = <<>>
  /\ pending = NoFrame /\ active = NoFrame /\ closed = FALSE
  /\ render = "take" /\ asleep = "no"
  /\ owedTo = <<>>
  /\ retire = [t \in Runners |-> NotRetiring]
  /\ immediate = 0 /\ writes = <<>> /\ stored = <<>> /\ retired = {}
  /\ troubled = FALSE

-----------------------------------------------------------------------------
(* The command processor: one guest thread produces frames and writes *)

\* SubmitFrameForRender: a frame still pending is displaced by the newer one.
SubmitFrame ==
  /\ immediate = 0
  /\ ~closed
  /\ accepted < MaxFrames
  /\ accepted' = accepted + 1
  /\ pending' = accepted + 1
  /\ UNCHANGED <<deliveryVars, active, closed, completed, completions, render, owedTo, retire,
                 processorVars, stored, retired, troubled, asleep>>

\* RenderRetirement::Defer refuses: the last accepted frame has completed.
AcceptedIsComplete == accepted <= completed

\* DeferUntilAcceptedRenderRetires: queued behind the last accepted frame, unless that one
\* has completed, in which case the processor runs it after the lock.
DeferWrite ==
  /\ immediate = 0
  /\ Len(writes) < MaxWrites
  /\ writes' = Append(writes, accepted)
  /\ IF AcceptedIsComplete
     THEN immediate' = Len(writes) + 1 /\ UNCHANGED completions
     ELSE /\ completions' = Append(completions,
                                   [generation |-> accepted, write |-> Len(writes) + 1])
          /\ UNCHANGED immediate
  /\ UNCHANGED <<deliveryVars, queueVars, accepted, completed, render, owedTo, retire, stored,
                 retired, troubled, asleep>>

RunImmediate ==
  /\ immediate # 0
  /\ stored' = Append(stored, immediate)
  /\ immediate' = 0
  /\ UNCHANGED <<deliveryVars, queueVars, retirementVars, render, owedTo, retire, writes,
                 retired, troubled, asleep>>

-----------------------------------------------------------------------------
(* The retire callback of a frame, on whichever thread runs it *)

BeginRetire(t, generation) ==
  /\ retire' = [retire EXCEPT ![t] = [generation |-> generation, batch |-> <<>>]]
  /\ retired' = retired \union {generation}

\* Mutant: every queued completion counts as ready.
AllQueued(generation) == 1 .. Len(completions)

\* The completions of RenderRetirement a generation releases: a prefix of the queue.
Ready(generation) == {i \in 1 .. Len(completions) :
                        \A j \in 1 .. i : completions[j].generation <= generation}

\* Mutant: the last completion taken stays in the queue.
LeavesOne(count) == SubSeq(completions, count, Len(completions))

\* What stays queued once count completions are taken.
Remaining(count) == SubSeq(completions, count + 1, Len(completions))

\* RenderRetirement::Finish, under g_stateMutex: take what is ready, or close the
\* generation when nothing is.
Finish(t) ==
  /\ retire[t].generation # NoFrame
  /\ retire[t].batch = <<>>
  /\ LET ready == Ready(retire[t].generation)
         count == IF ready = {} THEN 0 ELSE CHOOSE n \in ready : \A m \in ready : m <= n
     IN IF count = 0
        THEN /\ completed' = retire[t].generation
             /\ retire' = [retire EXCEPT ![t] = NotRetiring]
             /\ UNCHANGED completions
        ELSE /\ completions' = Remaining(count)
             /\ retire' = [retire EXCEPT ![t].batch =
                             [i \in 1 .. count |-> completions[i].write]]
             /\ UNCHANGED completed
  /\ UNCHANGED <<deliveryVars, queueVars, accepted, render, owedTo, processorVars, stored,
                 retired, troubled, asleep>>

\* Mutant: the retire callback takes one batch and never closes its generation.
StoreWriteOnce(t) ==
  /\ retire[t].batch # <<>>
  /\ stored' = Append(stored, Head(retire[t].batch))
  /\ retire' = [retire EXCEPT ![t] = IF Tail(@.batch) = <<>> THEN NotRetiring
                                     ELSE [@ EXCEPT !.batch = Tail(@)]]
  /\ UNCHANGED <<deliveryVars, queueVars, retirementVars, render, owedTo, processorVars,
                 retired, troubled, asleep>>

\* One deferred write reaches guest memory, outside the lock.
StoreWrite(t) ==
  /\ retire[t].batch # <<>>
  /\ stored' = Append(stored, Head(retire[t].batch))
  /\ retire' = [retire EXCEPT ![t].batch = Tail(@)]
  /\ UNCHANGED <<deliveryVars, queueVars, retirementVars, render, owedTo, processorVars,
                 retired, troubled, asleep>>

-----------------------------------------------------------------------------
(* The render thread *)

\* FrameQueue::WaitTake
TakeFrame ==
  /\ render = "take"
  /\ active = NoFrame
  /\ pending # NoFrame
  /\ active' = pending
  /\ pending' = NoFrame
  /\ render' = "frame"
  /\ UNCHANGED <<deliveryVars, closed, retirementVars, owedTo, retire, processorVars, stored,
                 retired, troubled, asleep>>

\* A closed queue ends the thread once the last pending frame has been rendered.
EndThread ==
  /\ render = "take"
  /\ closed /\ active = NoFrame /\ pending = NoFrame
  /\ render' = "ended"
  /\ UNCHANGED <<deliveryVars, queueVars, retirementVars, owedTo, retire, processorVars, stored,
                 retired, troubled, asleep>>

\* EnsurePersistentCapacity (before the lease) and GetSurfaceTarget (with it) wait until
\* nothing is in flight and no completion is running: Drain, WaitInFlight.
BeginDrain ==
  /\ "drains" \in Outcomes
  /\ render = "frame" /\ Free(Render) /\ held[Render] = Nothing
  /\ render' = "drain"
  /\ UNCHANGED <<deliveryVars, queueVars, retirementVars, owedTo, retire, processorVars, stored,
                 retired, troubled, asleep>>

EndDrain ==
  /\ render = "drain"
  /\ lost \/ taken = submitted + 1
  /\ Free(Pump) /\ held[Pump] = Nothing
  /\ render' = "drained"
  /\ UNCHANGED <<deliveryVars, queueVars, retirementVars, owedTo, retire, processorVars, stored,
                 retired, troubled, asleep>>

\* A frame is being recorded, and may be submitted or given up.
Recording == render \in {"frame", "drained"}

\* The submission of a frame brings the signal that the pump waits for, unless it sleeps on
\* the fence of another slot, which an earlier frame gave up.
AfterSubmission == IF asleep = "abandoned" THEN {"no", "abandoned"} ELSE {"no"}

\* Mutant: the frame is retired when it is submitted.
RetireAtSubmission ==
  /\ "deferred" \in Outcomes
  /\ Recording /\ Free(Render) /\ held[Render] = Nothing
  /\ SubmitToPool
  /\ asleep' \in AfterSubmission
  /\ owedTo' = Append(owedTo, active)
  /\ BeginRetire(Render, active)
  /\ render' = "complete"
  /\ UNCHANGED <<queueVars, retirementVars, processorVars, stored, troubled>>

\* The frame's slot is submitted; its completion will retire the frame.
SubmitDeferred ==
  /\ "deferred" \in Outcomes
  /\ Recording /\ Free(Render) /\ held[Render] = Nothing
  /\ SubmitToPool
  /\ asleep' \in AfterSubmission
  /\ owedTo' = Append(owedTo, active)
  /\ render' = "complete"
  /\ UNCHANGED <<queueVars, retirementVars, retire, processorVars, stored, retired, troubled>>

\* The frame's slot is submitted and the render thread waits for its completion.
SubmitAndWait ==
  /\ "waits" \in Outcomes
  /\ Recording /\ Free(Render) /\ held[Render] = Nothing
  /\ SubmitToPool
  /\ asleep' \in AfterSubmission
  /\ owedTo' = Append(owedTo, NoFrame)
  /\ render' = "await"
  /\ UNCHANGED <<queueVars, retirementVars, retire, processorVars, stored, retired, troubled>>

\* The awaited completion has run; the render thread retires the frame itself.
AwaitDone ==
  /\ render = "await"
  /\ submitted \in Delivered
  /\ BeginRetire(Render, active)
  /\ render' = "complete"
  /\ UNCHANGED <<deliveryVars, queueVars, retirementVars, owedTo, processorVars, stored,
                 troubled, asleep>>

\* No slot, no memory, no image or no device: RenderFrameImpl returns false, and
\* SubmitFrameRender runs the retire callback at once.
FrameFails ==
  /\ "fails" \in Outcomes \/ lost
  /\ Recording /\ Free(Render) /\ held[Render] = Nothing
  /\ BeginRetire(Render, active)
  /\ render' = "complete"
  /\ troubled' = TRUE
  /\ asleep' = IF asleep = "leased" THEN "abandoned" ELSE asleep
  /\ UNCHANGED <<deliveryVars, queueVars, retirementVars, owedTo, processorVars, stored>>

\* The pool refuses a frame already on the queue because it has noticed the loss; the wait
\* for the frame's fence fails too, and the retire callback is destroyed without running.
FrameDropped ==
  /\ lost
  /\ Recording /\ Free(Render) /\ held[Render] = Nothing
  /\ render' = "complete"
  /\ UNCHANGED <<deliveryVars, queueVars, retirementVars, owedTo, retire, processorVars, stored,
                 retired, troubled, asleep>>

\* Mutant: the frame stays active.
CompleteKeepsActive ==
  /\ render = "complete" /\ Free(Render)
  /\ render' = "take"
  /\ UNCHANGED <<deliveryVars, queueVars, retirementVars, owedTo, retire, processorVars, stored,
                 retired, troubled, asleep>>

\* FrameQueue::Complete, after the render call returned.
CompleteFrame ==
  /\ render = "complete" /\ Free(Render)
  /\ active' = NoFrame
  /\ render' = "take"
  /\ UNCHANGED <<deliveryVars, pending, closed, retirementVars, owedTo, retire, processorVars,
                 stored, retired, troubled, asleep>>

\* StopRenderThread
Stop ==
  /\ ~closed
  /\ accepted > 0
  /\ closed' = TRUE
  /\ UNCHANGED <<deliveryVars, pending, active, retirementVars, render, owedTo, retire,
                 processorVars, stored, retired, troubled, asleep>>

-----------------------------------------------------------------------------
(* The pool: the pump takes completions at any time, the render thread only while it *)
(* acquires a slot for its frame                                                      *)

TakeCompletions(t) ==
  /\ Free(t)
  /\ t = Render => render = "frame"
  /\ t = Pump => asleep = "no"
  /\ \E end \in (taken + 1) .. (submitted + 1) : Take(t, end)
  /\ UNCHANGED <<queueVars, retirementVars, render, owedTo, retire, processorVars, stored,
                 retired, troubled, asleep>>

\* The pump enters vkWaitForFences with a snapshot from before an Acquire: all it names has
\* been retired meanwhile, and the fence of the slot leased to this frame has been reset.
PumpOversleeps ==
  /\ "resets" \in Outcomes
  /\ Recording /\ ~lost
  /\ asleep = "no" /\ Free(Pump) /\ held[Pump] = Nothing
  /\ taken > 1
  /\ asleep' = "leased"
  /\ UNCHANGED <<deliveryVars, queueVars, retirementVars, render, owedTo, retire, processorVars,
                 stored, retired, troubled>>

\* A completion starts the retire callback of the frame it belongs to.
RunCompletion(t) ==
  /\ Free(t)
  /\ Run(t)
  /\ IF owedTo[held[t].next] = NoFrame
     THEN UNCHANGED <<retire, retired>>
     ELSE BeginRetire(t, owedTo[held[t].next])
  /\ UNCHANGED <<queueVars, retirementVars, render, owedTo, processorVars, stored, troubled,
                 asleep>>

GpuFinishes ==
  /\ \E n \in reading : GpuDone(n)
  /\ UNCHANGED <<queueVars, retirementVars, render, owedTo, retire, processorVars, stored,
                 retired, troubled, asleep>>

DeviceLoss ==
  /\ "loss" \in Outcomes
  /\ LoseDevice
  /\ troubled' = TRUE
  /\ asleep' = "no"
  /\ UNCHANGED <<queueVars, retirementVars, render, owedTo, retire, processorVars, stored,
                 retired>>

-----------------------------------------------------------------------------
RenderStep == TakeFrame \/ EndThread \/ BeginDrain \/ EndDrain \/ SubmitDeferred
              \/ SubmitAndWait \/ AwaitDone \/ FrameFails \/ FrameDropped \/ CompleteFrame

Retire(t) == Finish(t) \/ StoreWrite(t)

\* The pump sleeps on a fence that nobody signals: its frame was given up, or is held by a
\* render thread that itself waits for the pump.
Stuck == asleep = "abandoned" \/ (asleep = "leased" /\ render = "drain")

AllDone ==
  /\ render = "ended" \/ (render = "take" /\ pending = NoFrame)
  /\ \A t \in Runners : Free(t) /\ held[t] = Nothing
  /\ taken = submitted + 1 /\ immediate = 0

Quiet == (AllDone \/ Stuck) /\ UNCHANGED vars

Next ==
  \/ SubmitFrame \/ DeferWrite \/ RunImmediate
  \/ RenderStep \/ Stop
  \/ \E t \in Runners : Retire(t) \/ TakeCompletions(t) \/ RunCompletion(t)
  \/ PumpOversleeps
  \/ GpuFinishes \/ DeviceLoss
  \/ Quiet

Spec == Init /\ [][Next]_vars

\* The threads run and the GPU finishes its frames.  A pump that does not sleep on a reset
\* fence takes what the GPU is done with.  Nothing wakes one that does, and nothing makes the
\* command processor produce another frame.
Fairness ==
  /\ WF_vars(RunImmediate)
  /\ WF_vars(RenderStep)
  /\ WF_vars(GpuFinishes)
  /\ WF_vars(TakeCompletions(Pump))
  /\ \A t \in Runners : WF_vars(Retire(t)) /\ WF_vars(RunCompletion(t))

FairSpec == Spec /\ Fairness

-----------------------------------------------------------------------------
\* Every variable has its type.
TypeOK ==
  /\ submitted \in Nat /\ reading \subseteq 1 .. submitted /\ taken \in 1 .. (submitted + 1)
  /\ held \in [Runners -> [next : Nat, end : Nat, ok : BOOLEAN]]
  /\ lost \in BOOLEAN /\ lostFrames \subseteq 1 .. submitted
  /\ Delivered \subseteq 1 .. submitted
  /\ accepted \in Nat /\ completed \in 0 .. accepted
  /\ completions \in Seq([generation : 1 .. accepted, write : 1 .. Len(writes)])
  /\ pending \in 0 .. accepted /\ active \in 0 .. accepted /\ closed \in BOOLEAN
  /\ render \in {"take", "frame", "drain", "drained", "await", "complete", "ended"}
  /\ asleep \in {"no", "leased", "abandoned"}
  /\ owedTo \in Seq(0 .. accepted) /\ Len(owedTo) = submitted
  /\ retire \in [Runners -> [generation : 0 .. accepted, batch : Seq(1 .. Len(writes))]]
  /\ immediate \in 0 .. Len(writes)
  /\ writes \in Seq(0 .. accepted)
  /\ stored \in Seq(1 .. Len(writes))
  /\ retired \subseteq 1 .. accepted /\ troubled \in BOOLEAN

Elements(s) == {s[i] : i \in 1 .. Len(s)}
Queued == {completions[i].write : i \in 1 .. Len(completions)}

\* Every deferred write is in exactly one place: still queued, about to be run by the
\* processor, in one runner's batch, or stored.  None is dropped with a displaced or failed
\* frame and none is stored twice, although two threads may be inside Finish
\* (RenderRetirement::Defer and Finish).
WritesConserved ==
  LET places == <<Queued, {immediate} \ {0}, Elements(retire[Pump].batch),
                  Elements(retire[Render].batch), Elements(stored)>>
  IN /\ UNION {places[i] : i \in 1 .. 5} = 1 .. Len(writes)
     /\ \A i, j \in 1 .. 5 : i # j => places[i] \intersect places[j] = {}
     /\ \A i, j \in 1 .. Len(stored) : stored[i] = stored[j] => i = j

\* Finishing an older frame does not publish a write deferred behind a newer one: a write
\* has been stored only if it was issued before any frame, or a frame at least as new as
\* the one it was deferred behind has been retired (RenderRetirement::Finish).
NoWriteBeforeItsFrame ==
  \A w \in Elements(stored) :
    writes[w] = 0 \/ \E generation \in retired : writes[w] <= generation

\* A deferred write reaches guest memory only when the GPU no longer reads the frame it was
\* deferred behind nor an older one: until then the guest must not recycle that memory
\* (the retire callback in render_thread.cpp).
NoRecycleWhileRead ==
  \A w \in Elements(stored) : \A n \in reading :
    owedTo[n] # NoFrame => owedTo[n] > writes[w]

\* When every frame reaches the GPU, a write that has been stored names memory the GPU no
\* longer reads, whichever thread ran the retire callbacks, in whichever order
\* (the retire callback in render_thread.cpp).
NoRecycleUnlessTroubled == ~troubled => NoRecycleWhileRead

\* Whatever is displaced, failed, awaited or waits for the pool to empty, the frames that accept
\* writes are retired: for each accepted frame a frame at least as new is retired, with no
\* further frame arriving, unless the device is lost or the pump sleeps for good on a fence that
\* was reset under its wait (gpu_frame_slots.cpp:130).
EveryFrameRetires ==
  \A g \in 1 .. MaxFrames :
    (accepted >= g) ~> (lost \/ []Stuck \/ \E r \in retired : r >= g)

\* A title waiting on EVENT_WRITE_SHD makes progress even when no new frame arrives
\* (gpu_frame_slots.h).
EveryWriteIsStored ==
  \A w \in 1 .. MaxWrites : (Len(writes) >= w) ~> (w \in Elements(stored))

\* It does when no frame fails and the device is not lost, unless the pump sleeps for good on
\* the fence of a frame whose recording waits for the pool to empty.
EveryWriteIsStoredUnlessTroubled ==
  \A w \in 1 .. MaxWrites :
    (Len(writes) >= w) ~> (troubled \/ []Stuck \/ w \in Elements(stored))

=============================================================================

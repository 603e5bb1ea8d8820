---------------------------- MODULE GpuFrameSlots ----------------------------
(***************************************************************************)
(* The renderer's bounded pool of frame slots: GpuRetirement (slot          *)
(* ownership), GpuFrameSlots (the Vulkan adapter with its completion pump)  *)
(* and the part of Renderer::RenderFrameImpl that leases, submits, cancels  *)
(* and drains slots.                                                        *)
(*                                                                          *)
(* Three threads share the pool under one mutex: the render thread, the     *)
(* completion pump, and the owner that tears the renderer down.  Between    *)
(* two critical sections each of them runs completions, or waits on a       *)
(* Vulkan fence, without the mutex.  The GPU is the fourth actor.           *)
(***************************************************************************)
EXTENDS Naturals

CONSTANTS
  Capacity,       (* slots in the pool (kRendererFramesInFlight)              *)
  MaxFrames,      (* bound: frames the render thread starts                   *)
  Outcomes        (* what may become of a leased frame: "submits", it reaches *)
                  (* the queue; "abandons", recording fails first;            *)
                  (* "promotes", recording first waits for older frames       *)

ASSUME CapacityAssumption == Capacity \in Nat \ {0}
ASSUME MaxFramesAssumption == MaxFrames \in Nat
ASSUME OutcomesAssumption == Outcomes \subseteq {"submits", "abandons", "promotes"}

Slots == 1 .. Capacity
Pump == "pump"
Render == "render"
Runners == {Pump, Render}
NoLease == [slot |-> 0, generation |-> 0]

VARIABLES
  state,          (* GpuRetirement::Slot::state                               *)
  generation,     (* GpuRetirement::Slot::generation                          *)
  sequenceOf,     (* the sequence captured by the slot's completion           *)
  healthy,        (* GpuRetirement::healthy_                                  *)
  inFlight,       (* Impl::inFlight, the adapter's mirror the pump reads      *)
  ordered,        (* sequences in Impl::ordered: retired, not collected yet   *)
  nextSubmit,     (* Impl::nextSubmitSequence                                 *)
  nextCompletion, (* Impl::nextCompletionSequence                             *)
  callbacksRunning,
  backendLost,
  stopping,
  batch,          (* each runner's collected completions: [first, next, end)  *)
  pump, watched, latched, waitOk,       (* the pump thread and its fence wait *)
  render, lease, afterCallbacks, frames,(* the render thread                  *)
  owner,                                (* the thread that releases the pool  *)
  executing, fence, gpuLost,            (* the device                         *)
  succeeded, failed, abandoned          (* history: completions run with TRUE, *)
                                        (* with FALSE, and sequences released *)
                                        (* without observing their fence      *)

retirementVars == <<state, generation, sequenceOf, healthy>>
adapterVars == <<inFlight, ordered, nextSubmit, nextCompletion, callbacksRunning,
                 backendLost, stopping, batch>>
pumpVars == <<pump, watched, latched, waitOk>>
renderVars == <<render, lease, afterCallbacks, frames>>
gpuVars == <<executing, fence, gpuLost>>
history == <<succeeded, failed, abandoned>>
vars == <<retirementVars, adapterVars, pumpVars, renderVars, owner, gpuVars, history>>

EmptyBatch == [first |-> 1, next |-> 1, end |-> 1, ok |-> TRUE]
PumpStates == {"wait", "taken", "fences", "woken", "callbacks", "exited"}
RenderStates == {"idle", "grow", "acquire", "callbacks", "waitSlot", "reset", "record",
                 "promote", "promoted", "queued", "sync", "orphan", "stopped"}
OwnerStates == {"running", "draining", "joining", "released"}

Init ==
  /\ state = [s \in Slots |-> "Free"]
  /\ generation = [s \in Slots |-> 0]
  /\ sequenceOf = [s \in Slots |-> 0]
  /\ healthy = TRUE
  /\ inFlight = [s \in Slots |-> FALSE]
  /\ ordered = {}
  /\ nextSubmit = 1
  /\ nextCompletion = 1
  /\ callbacksRunning = 0
  /\ backendLost = FALSE
  /\ stopping = FALSE
  /\ batch = [t \in Runners |-> EmptyBatch]
  /\ pump = "wait" /\ watched = {} /\ latched = FALSE /\ waitOk = TRUE
  /\ render = "idle" /\ lease = NoLease /\ afterCallbacks = "idle" /\ frames = 0
  /\ owner = "running"
  /\ executing = {} /\ fence = [s \in Slots |-> "unsignaled"] /\ gpuLost = FALSE
  /\ succeeded = {} /\ failed = {} /\ abandoned = {}

-----------------------------------------------------------------------------
(* GpuRetirement *)

InFlightSlots == {s \in Slots : state[s] = "InFlight"}
RecordingSlots == {s \in Slots : state[s] = "Recording"}

\* Which slots report an error to a poll.  A lost device may answer any query
\* with an error; once the adapter has noticed, every query is one.
PollErrors(lost) ==
  IF lost THEN {InFlightSlots}
  ELSE IF gpuLost THEN SUBSET InFlightSlots
  ELSE {{}}

\* Mutant: the poll takes a slot in flight for a finished one.
RetiredUnfinished(errors) == {s \in InFlightSlots : s \notin errors}

\* The poll walks the slots in index order and stops at the first error.
Retired(errors) ==
  {s \in InFlightSlots : /\ fence[s] = "signaled"
                         /\ s \notin errors
                         /\ \A e \in errors : s < e}

\* Mutant: a lost device releases nothing.
AbandonNothing(retired) == {}

\* ReleaseAfterBackendLoss refuses while a recording lease exists.
Abandonable(retired) == IF RecordingSlots = {} THEN InFlightSlots \ retired ELSE {}

FirstFree(s, slotState) ==
  /\ slotState[s] = "Free"
  /\ \A other \in Slots : slotState[other] = "Free" => s <= other

LeaseMatches == lease.slot \in Slots /\ generation[lease.slot] = lease.generation
                                     /\ state[lease.slot] = "Recording"

-----------------------------------------------------------------------------
(* GpuFrameSlots: polling and collecting, always under the mutex *)

\* CollectReadyLocked: end is the first sequence, from the next one to complete,
\* that has not retired.
Collects(retiredSequences, end) ==
  /\ nextCompletion .. (end - 1) \subseteq retiredSequences
  /\ end \notin retiredSequences

\* The collected completions are running until their runner says otherwise.
CountsRunning(end) == callbacksRunning' = callbacksRunning + (end - nextCompletion)

\* What the runner tells the completions it collected.
Success(waited) == waited /\ ~backendLost'

\* One poll and collection by runner t, which frees the slots in freed.  lost is
\* backendLost as the poll sees it; waited, whether the runner's fence wait passed.
PollAndCollect(t, lost, waited, freed) ==
  \E errors \in PollErrors(lost) :
    LET broken     == ~healthy \/ errors # {}
        retired    == IF healthy THEN Retired(errors) ELSE {}
        lostSlots  == IF broken THEN Abandonable(retired) ELSE {}
        nowRetired == ordered \union {sequenceOf[s] : s \in freed}
    IN /\ freed = retired \union lostSlots
       /\ healthy' = ~broken
       /\ backendLost' = (lost \/ broken)
       /\ inFlight' = [s \in Slots |-> inFlight[s] /\ s \notin freed]
       /\ abandoned' = abandoned \union {sequenceOf[s] : s \in lostSlots}
       /\ \E end \in nextCompletion .. nextSubmit :
            /\ Collects(nowRetired, end)
            /\ ordered' = nowRetired \ (nextCompletion .. (end - 1))
            /\ nextCompletion' = end
            /\ CountsRunning(end)
            /\ batch' = [batch EXCEPT ![t] =
                           [first |-> nextCompletion, next |-> nextCompletion, end |-> end,
                            ok |-> Success(waited)]]

AfterPoll(freed) == [s \in Slots |-> IF s \in freed THEN "Free" ELSE state[s]]

\* Running one collected completion, without the mutex.
RunCallback(t) ==
  /\ batch[t].next < batch[t].end
  /\ batch' = [batch EXCEPT ![t].next = @ + 1]
  /\ IF batch[t].ok
     THEN succeeded' = succeeded \union {batch[t].next} /\ UNCHANGED failed
     ELSE failed' = failed \union {batch[t].next} /\ UNCHANGED succeeded
  /\ UNCHANGED <<retirementVars, inFlight, ordered, nextSubmit, nextCompletion,
                 callbacksRunning, backendLost, stopping, pumpVars, renderVars, owner,
                 gpuVars, abandoned>>

\* Mutant: the runner forgets to say so.
BatchDoneUncounted(t) ==
  /\ batch[t].next = batch[t].end
  /\ UNCHANGED callbacksRunning
  /\ batch' = [batch EXCEPT ![t] = EmptyBatch]

\* The whole batch has run: the runner takes the mutex again and says so.
BatchDone(t) ==
  /\ batch[t].next = batch[t].end
  /\ callbacksRunning' = callbacksRunning - (batch[t].end - batch[t].first)
  /\ batch' = [batch EXCEPT ![t] = EmptyBatch]

\* Mutant: the wait ends while completions are still running.
NothingInFlight == backendLost \/ InFlightSlots = {}

\* The predicate WaitInFlight and Drain wait for.
Drained ==
  /\ backendLost \/ InFlightSlots = {}
  /\ callbacksRunning = 0

-----------------------------------------------------------------------------
(* The completion pump *)

PumpSleepEnds == stopping \/ InFlightSlots # {}

\* Woken under the mutex: exit, or snapshot the fences in flight.
PumpTake ==
  /\ pump = "wait"
  /\ PumpSleepEnds
  /\ IF stopping /\ InFlightSlots = {}
     THEN pump' = "exited" /\ UNCHANGED watched
     ELSE pump' = "taken" /\ watched' = {s \in Slots : inFlight[s]}
  /\ UNCHANGED <<latched, waitOk, retirementVars, adapterVars, renderVars, owner, gpuVars, history>>

\* vkWaitForFences is entered after the mutex is released: it sees the fences as they
\* are by then, and another thread may have reset one since the snapshot.
PumpBeginWait ==
  /\ pump = "taken"
  /\ pump' = "fences"
  /\ latched' = \E s \in watched : fence[s] = "signaled"
  /\ UNCHANGED <<watched, waitOk, retirementVars, adapterVars, renderVars, owner, gpuVars,
                 history>>

\* vkWaitForFences returns, without the mutex.
PumpWake ==
  /\ pump = "fences"
  /\ \/ /\ latched \/ \E s \in watched : fence[s] = "signaled"
        /\ waitOk' = TRUE
     \/ gpuLost /\ waitOk' = FALSE
  /\ pump' = "woken"
  /\ UNCHANGED <<watched, latched, retirementVars, adapterVars, renderVars, owner, gpuVars,
                 history>>

\* The pump polls every slot and collects, under the mutex.
PumpCollect ==
  /\ pump = "woken"
  /\ \E freed \in SUBSET Slots :
       /\ PollAndCollect(Pump, backendLost \/ ~waitOk, waitOk, freed)
       /\ state' = AfterPoll(freed)
  /\ pump' = "callbacks"
  /\ watched' = {} /\ latched' = FALSE /\ waitOk' = TRUE
  /\ UNCHANGED <<generation, sequenceOf, nextSubmit, stopping, renderVars, owner, gpuVars,
                 succeeded, failed>>

PumpSettle ==
  /\ pump = "callbacks"
  /\ BatchDone(Pump)
  /\ pump' = "wait"
  /\ UNCHANGED <<watched, latched, waitOk, retirementVars, inFlight, ordered, nextSubmit,
                 nextCompletion, backendLost, stopping, renderVars, owner, gpuVars, history>>

PumpStep == PumpTake \/ PumpBeginWait \/ PumpWake \/ PumpCollect \/ PumpSettle

-----------------------------------------------------------------------------
(* The render thread *)

\* RenderFrameImpl begins; a frame larger than every earlier one first rebuilds the
\* extent-sized resources.
BeginFrame ==
  /\ render = "idle"
  /\ frames < MaxFrames
  /\ frames' = frames + 1
  /\ render' \in {"acquire", "grow"}
  /\ UNCHANGED <<lease, afterCallbacks, retirementVars, adapterVars, pumpVars, owner, gpuVars,
                 history>>

\* EnsurePersistentCapacity: WaitDeviceIdle, then ReleasePersistent behind Drain.
Grow ==
  /\ render = "grow"
  /\ gpuLost \/ executing = {}
  /\ Drained
  /\ render' = "acquire"
  /\ UNCHANGED <<lease, afterCallbacks, frames, retirementVars, adapterVars, pumpVars, owner,
                 gpuVars, history>>

\* Acquire after the pool was lost or stopped: the frame fails at once.
AcquireRefused ==
  /\ render = "acquire"
  /\ stopping \/ backendLost
  /\ render' = "idle"
  /\ UNCHANGED <<lease, afterCallbacks, frames, retirementVars, adapterVars, pumpVars, owner,
                 gpuVars, history>>

\* Acquire polls, leases the first free slot when the poll passed, and collects.
Acquire ==
  /\ render = "acquire"
  /\ ~stopping /\ ~backendLost
  /\ \E freed \in SUBSET Slots :
       /\ PollAndCollect(Render, FALSE, TRUE, freed)
       /\ \/ /\ healthy'
             /\ \E s \in Slots :
                  /\ FirstFree(s, AfterPoll(freed))
                  /\ state' = [AfterPoll(freed) EXCEPT ![s] = "Recording"]
                  /\ generation' = [generation EXCEPT ![s] = @ + 1]
                  /\ lease' = [slot |-> s, generation |-> generation[s] + 1]
             /\ afterCallbacks' = "reset"
          \/ /\ ~healthy' \/ \A s \in Slots : AfterPoll(freed)[s] # "Free"
             /\ state' = AfterPoll(freed)
             /\ afterCallbacks' = IF healthy' THEN "waitSlot" ELSE "idle"
             /\ UNCHANGED <<generation, lease>>
  /\ render' = "callbacks"
  /\ UNCHANGED <<sequenceOf, nextSubmit, stopping, pumpVars, frames, owner, gpuVars,
                 succeeded, failed>>

\* The collected completions have run.
RenderSettle ==
  /\ render = "callbacks"
  /\ BatchDone(Render)
  /\ render' = afterCallbacks
  /\ afterCallbacks' = "idle"
  /\ UNCHANGED <<lease, frames, retirementVars, inFlight, ordered, nextSubmit, nextCompletion,
                 backendLost, stopping, pumpVars, owner, gpuVars, history>>

\* Every slot is in flight: wait for one, then poll again.
SlotFreed ==
  /\ render = "waitSlot"
  /\ stopping \/ backendLost \/ InFlightSlots # Slots
  /\ render' = "acquire"
  /\ UNCHANGED <<lease, afterCallbacks, frames, retirementVars, adapterVars, pumpVars, owner,
                 gpuVars, history>>

\* Mutant: the leased slot keeps the fence of its previous frame.
FenceNotReset ==
  /\ render = "reset"
  /\ render' = "record"
  /\ UNCHANGED <<lease, afterCallbacks, frames, retirementVars, adapterVars, pumpVars, owner,
                 gpuVars, history>>

\* vkResetFences on the leased slot, without the mutex.
ResetFence ==
  /\ render = "reset"
  /\ fence' = [fence EXCEPT ![lease.slot] = "unsignaled"]
  /\ render' = "record"
  /\ UNCHANGED <<lease, afterCallbacks, frames, retirementVars, adapterVars, pumpVars, owner,
                 executing, gpuLost, history>>

CancelLease ==
  /\ state' = IF LeaseMatches THEN [state EXCEPT ![lease.slot] = "Free"] ELSE state
  /\ lease' = NoLease

\* Recording gives up before vkQueueSubmit, vkResetFences fails, or vkQueueSubmit does
\* because the device is lost: the destructor of CancelFrameLease returns the slot.
AbandonFrame ==
  /\ "abandons" \in Outcomes \/ gpuLost
  /\ render \in {"reset", "record", "promoted"}
  /\ CancelLease
  /\ render' = "idle"
  /\ UNCHANGED <<afterCallbacks, frames, generation, sequenceOf, healthy, adapterVars, pumpVars,
                 owner, gpuVars, history>>

\* Recording replaces a cached surface and waits for the frames that may read it.
BeginPromote ==
  /\ "promotes" \in Outcomes
  /\ render = "record"
  /\ render' = "promote"
  /\ UNCHANGED <<lease, afterCallbacks, frames, retirementVars, adapterVars, pumpVars, owner,
                 gpuVars, history>>

EndPromote ==
  /\ render = "promote"
  /\ Drained
  /\ render' = "promoted"
  /\ UNCHANGED <<lease, afterCallbacks, frames, retirementVars, adapterVars, pumpVars, owner,
                 gpuVars, history>>

QueueSubmit ==
  /\ "submits" \in Outcomes
  /\ render \in {"record", "promoted"}
  /\ ~gpuLost
  /\ executing' = executing \union {lease.slot}
  /\ render' = "queued"
  /\ UNCHANGED <<lease, afterCallbacks, frames, retirementVars, adapterVars, pumpVars, owner,
                 fence, gpuLost, history>>

\* GpuFrameSlots::Submit accepts the queued slot.  A deferred frame lets the render
\* thread go; a frame with host readback waits for its own completion.
Submit ==
  /\ render = "queued"
  /\ healthy /\ LeaseMatches
  /\ state' = [state EXCEPT ![lease.slot] = "InFlight"]
  /\ sequenceOf' = [sequenceOf EXCEPT ![lease.slot] = nextSubmit]
  /\ inFlight' = [inFlight EXCEPT ![lease.slot] = TRUE]
  /\ nextSubmit' = nextSubmit + 1
  /\ lease' = NoLease
  /\ render' \in {"idle", "sync"}
  /\ UNCHANGED <<afterCallbacks, frames, generation, healthy, ordered, nextCompletion,
                 callbacksRunning, backendLost, stopping, batch, pumpVars, owner, gpuVars,
                 history>>

\* Submit refuses: the frame is on the queue but nobody tracks it.
SubmitRefused ==
  /\ render = "queued"
  /\ ~(healthy /\ LeaseMatches)
  /\ render' = "orphan"
  /\ UNCHANGED <<lease, afterCallbacks, frames, retirementVars, adapterVars, pumpVars, owner,
                 gpuVars, history>>

\* The render thread waits for the untracked frame's fence itself, then cancels.
OrphanWait ==
  /\ render = "orphan"
  /\ gpuLost \/ fence[lease.slot] = "signaled"
  /\ CancelLease
  /\ render' = "idle"
  /\ UNCHANGED <<afterCallbacks, frames, generation, sequenceOf, healthy, adapterVars, pumpVars,
                 owner, gpuVars, history>>

\* The synchronous frame is the newest one, so its completion is the last to run.
SyncWait ==
  /\ render = "sync"
  /\ nextSubmit - 1 \in succeeded \union failed
  /\ render' = "idle"
  /\ UNCHANGED <<lease, afterCallbacks, frames, retirementVars, adapterVars, pumpVars, owner,
                 gpuVars, history>>

RenderStop ==
  /\ render = "idle"
  /\ render' = "stopped"
  /\ UNCHANGED <<lease, afterCallbacks, frames, retirementVars, adapterVars, pumpVars, owner,
                 gpuVars, history>>

\* The render thread's steps other than starting a frame or ending the thread.
RenderStep ==
  \/ Grow \/ AcquireRefused \/ Acquire \/ RenderSettle \/ SlotFreed \/ ResetFence
  \/ AbandonFrame \/ BeginPromote \/ EndPromote \/ QueueSubmit \/ Submit \/ SubmitRefused
  \/ OrphanWait \/ SyncWait

-----------------------------------------------------------------------------
(* The owner: Renderer::Shutdown, once the render thread is gone *)

BeginRelease ==
  /\ owner = "running"
  /\ render = "stopped"
  /\ owner' = "draining"
  /\ UNCHANGED <<retirementVars, adapterVars, pumpVars, renderVars, gpuVars, history>>

\* Release drains, then asks the pump to stop.
OwnerDrained ==
  /\ owner = "draining"
  /\ RecordingSlots # {} \/ Drained
  /\ stopping' = TRUE
  /\ owner' = "joining"
  /\ UNCHANGED <<retirementVars, inFlight, ordered, nextSubmit, nextCompletion,
                 callbacksRunning, backendLost, batch, pumpVars, renderVars, gpuVars, history>>

\* The pump is joined and the slots' Vulkan objects are destroyed.
OwnerReleased ==
  /\ owner = "joining"
  /\ pump = "exited"
  /\ owner' = "released"
  /\ UNCHANGED <<retirementVars, adapterVars, pumpVars, renderVars, gpuVars, history>>

OwnerStep == BeginRelease \/ OwnerDrained \/ OwnerReleased

-----------------------------------------------------------------------------
(* The device *)

\* A submission finishes and signals its fence.  If the render thread resets the fence
\* while the pump is inside vkWaitForFences, Vulkan leaves open whether the wait still
\* returns for this signal: latched is either.
GpuFinish(s) ==
  /\ s \in executing
  /\ executing' = executing \ {s}
  /\ fence' = [fence EXCEPT ![s] = "signaled"]
  /\ IF pump = "fences" /\ s \in watched
     THEN \E latch \in BOOLEAN : latched' = (latched \/ latch)
     ELSE UNCHANGED latched
  /\ UNCHANGED <<gpuLost, pump, watched, waitOk, retirementVars, adapterVars, renderVars,
                 owner, history>>

GpuLoss ==
  /\ ~gpuLost
  /\ gpuLost' = TRUE
  /\ executing' = {}
  /\ UNCHANGED <<fence, retirementVars, adapterVars, pumpVars, renderVars, owner, history>>

-----------------------------------------------------------------------------
Finished == owner = "released" /\ UNCHANGED vars

Next ==
  \/ PumpStep
  \/ BeginFrame \/ RenderStep \/ RenderStop
  \/ OwnerStep
  \/ \E t \in Runners : RunCallback(t)
  \/ \E s \in Slots : GpuFinish(s)
  \/ GpuLoss
  \/ Finished

Spec == Init /\ [][Next]_vars

\* Both threads run, the GPU finishes what it was given, and the owner, once it has
\* begun to release the pool, carries on.  Nothing makes another frame start, the
\* render thread end or the device get lost.
Fairness ==
  /\ WF_vars(PumpStep)
  /\ WF_vars(RenderStep)
  /\ WF_vars(OwnerDrained \/ OwnerReleased)
  /\ \A t \in Runners : WF_vars(RunCallback(t))
  /\ \A s \in Slots : WF_vars(GpuFinish(s))

FairSpec == Spec /\ Fairness

-----------------------------------------------------------------------------
Sequences == 1 .. (nextSubmit - 1)
Delivered == succeeded \union failed
Pending(t) == batch[t].next .. (batch[t].end - 1)

\* Every variable has its type.
TypeOK ==
  /\ state \in [Slots -> {"Free", "Recording", "InFlight"}]
  /\ generation \in [Slots -> Nat]
  /\ sequenceOf \in [Slots -> Nat]
  /\ healthy \in BOOLEAN
  /\ inFlight \in [Slots -> BOOLEAN]
  /\ ordered \subseteq Nat
  /\ nextSubmit \in Nat /\ nextCompletion \in Nat /\ callbacksRunning \in Nat
  /\ backendLost \in BOOLEAN /\ stopping \in BOOLEAN
  /\ batch \in [Runners -> [first : Nat, next : Nat, end : Nat, ok : BOOLEAN]]
  /\ pump \in PumpStates /\ watched \subseteq Slots /\ latched \in BOOLEAN /\ waitOk \in BOOLEAN
  /\ render \in RenderStates /\ afterCallbacks \in {"idle", "waitSlot", "reset"} /\ frames \in Nat
  /\ lease \in [slot : Slots \union {0}, generation : Nat]
  /\ owner \in OwnerStates
  /\ executing \subseteq Slots /\ fence \in [Slots -> {"signaled", "unsignaled"}]
  /\ gpuLost \in BOOLEAN
  /\ succeeded \subseteq Nat /\ failed \subseteq Nat /\ abandoned \subseteq Nat

\* The resources of a slot the GPU still reads belong to a tracked frame, or to the frame
\* the render thread has put on the queue itself: no lease, cancel, poll or release hands
\* them to somebody who would record over or destroy them
\* (GpuRetirement::Acquire, Cancel, Poll; GpuFrameSlots::Release).
GpuReadsOnlyOwnedSlots ==
  \A s \in executing :
    /\ owner # "released"
    /\ state[s] = "InFlight" \/ (render \in {"queued", "orphan"} /\ lease.slot = s)

\* When WaitInFlight or Drain returns true, every completion of every frame submitted so
\* far has run, whichever thread collected it: only then may the caller destroy surfaces
\* the frames read and the scan-out their completions publish to
\* (GpuFrameSlots::WaitInFlight, Drain; Renderer::ReleasePersistent).
DrainMeansDelivered == (Drained /\ ~backendLost) => Sequences \subseteq Delivered

\* No completion is run twice: what a thread still has to run has not been run, is not
\* held by the other thread, and cannot be collected again
\* (CollectReadyLocked, and the release after a lost device).
NoCallbackTwice ==
  /\ \A t \in Runners : Pending(t) \intersect Delivered = {}
  /\ Pending(Pump) \intersect Pending(Render) = {}
  /\ \A n \in ordered : n \notin Delivered /\ \A t \in Runners : n \notin Pending(t)
  /\ succeeded \intersect failed = {}

\* A completion is told success only if the frame's fence was observed: a frame released
\* by the loss of the device is never reported as rendered, although pump and render
\* thread may each be the one to report it (Impl::Pump, GpuFrameSlots::Acquire).
SuccessWasObserved == succeeded \intersect abandoned = {}

\* The pool is destroyed only when each submitted frame's completion has run
\* (GpuFrameSlots::Release: Drain, stop, join).
ReleaseLosesNothing == owner = "released" => Sequences \subseteq Delivered

\* The pump waits on at least one fence, and the mirror it takes the fences from agrees
\* with the slots under the mutex (Impl::inFlight against GpuRetirement::InFlightCount).
PumpWatchesSomething ==
  /\ pump \in {"taken", "fences"} => watched # {}
  /\ \A s \in Slots : inFlight[s] <=> state[s] = "InFlight"

\* User callbacks are delivered in submission order (gpu_frame_slots.h).
DeliveredInSubmissionOrder == \A n \in Delivered : 1 .. n \subseteq Delivered

\* Every submitted frame's completion runs, even when no further frame arrives and even
\* when the device is lost (the completion pump).
EveryFrameDelivers ==
  \A n \in 1 .. MaxFrames : (n < nextSubmit) ~> (n \in Delivered)

\* The pump sleeps on fences that were reset after it had taken them for its snapshot, and
\* that nobody is about to submit again: their frame was given up, or waits itself for the
\* pump to deliver older ones (Impl::Pump, GpuFrameSlots::Acquire).
Overslept ==
  /\ pump = "fences" /\ ~latched /\ ~gpuLost
  /\ \A s \in watched : /\ s \notin executing /\ fence[s] = "unsignaled"
                        /\ lease.slot = s => render = "promote"

\* With frames that are submitted, given up or made to wait for older ones, nothing but that
\* sleep keeps a completion from running: without it, each submitted frame's completion runs
\* even when no further frame arrives and even when the device is lost (the completion pump).
EveryFrameDeliversUnlessOverslept ==
  \A n \in 1 .. MaxFrames : (n < nextSubmit) ~> (n \in Delivered \/ []Overslept)

\* Once the owner releases the pool, the release returns: the drain ends and the pump
\* exits, unless the pump sleeps for good (GpuFrameSlots::Release).
ReleaseReturns == (owner = "draining") ~> (owner = "released" \/ []Overslept)

-----------------------------------------------------------------------------
(* The pool implements FrameDelivery *)

HeldBy(t) == IF batch[t].next = batch[t].end
             THEN [next |-> 1, end |-> 1, ok |-> TRUE]
             ELSE [next |-> batch[t].next, end |-> batch[t].end, ok |-> batch[t].ok]

Delivery == INSTANCE FrameDelivery WITH
  submitted <- nextSubmit - 1,
  reading <- {sequenceOf[s] : s \in executing \intersect InFlightSlots},
  taken <- nextCompletion,
  held <- [t \in Runners |-> HeldBy(t)],
  lost <- gpuLost,
  lostFrames <- abandoned

\* Whatever the slots, fences and waits do, the pool only ever submits, takes and runs
\* completions the way FrameDelivery says: a completion is taken in submission order and
\* never before the GPU is done with its frame (GpuFrameSlots and GpuRetirement).
ImplementsDelivery == Delivery!DeliverySpec

=============================================================================

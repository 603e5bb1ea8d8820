# Verification of gears1

TLA+ models, TLC runs and TLAPS proofs for the concurrent core of this repository: how the command
stream becomes frames, how a frame gets to the GPU, to the window and back, when guest memory may be
reused behind it, what the renderer remembers about textures and render targets, how the kernel's
waits and timers, the guest heap, the audio decoder's contexts and the virtual pad behave under their
threads. `PROJECT.json` is the machine-readable index: components, runs, the source lines every
definition stands for, hazards, findings, theorems.

## 1. The system

gears1 hosts one Xbox 360 title. Guest code runs in a shared runtime (`x360port`, outside this
repository); what is here is the title's adapter, the native renderer, the input, audio and kernel
owners around it, and an independent native engine. `docs/codemap.md` names the owners. Most of the
source is sequential data transformation (shader translation, package decoding, geometry). What
several threads touch, or what a long sequence of calls can spoil, is small:

```
 title ──ring, VdSwap──▶ command processor ──SubmitFrameForRender──▶ FrameQueue ──▶ render thread
   ▲                          │      │ ▲                            (one active,         │ record
   │ interrupt, guest clock   │      │ └─ mailbox ─▶ presenter ─▶    one pending)        │ Acquire/Submit
 vblank thread                │      │                   ▲                               ▼
                              │      │         published │ scan-out image          GpuFrameSlots ──▶ GPU
   DeferUntilAccepted...      ▼      ▼                   │                               │
                        RenderRetirement ◀── retire ── completion ◀── pump / Acquire ◀── fences
                              │
                              ▼
 guest memory (EVENT_WRITE_SHD: "this memory may be reused") ──soft-dirty pages──▶ texture cache

 guest poll, presenter poll, control channel ─▶ one pad + packet number ─▶ snapshots
 guest threads ─▶ dispatcher objects, timers, heap, XMA contexts
```

| Component | State | Operations | Interacts with | What is hard |
|---|---|---|---|---|
| Frame slots (`gpu_frame_slots.*`, `gpu_retirement.*`) | slot states, generations, mirror of slots in flight, ordered completions, running callbacks, lost/stopping flags, fences | Acquire, Submit, Cancel, WaitInFlight, Drain, Release; the pump | renderer, Vulkan, completions | three threads and the GPU; mutex released around fence waits and callbacks; device loss |
| Frame submission (`gpu_draw*.cpp`, `gpu_renderer_*.cpp`) | the lease of the frame being recorded; marks, layouts and format labels of the render targets | lease, record, abandon, promote, grow, submit, wait | frame slots, cleanup | early returns at every stage; a mark that outlives its frame |
| Render thread and queue (`render_thread.*`, `frame_queue.*`) | active and pending frame, closed | submit, take, complete, stop, wait idle | command processor, renderer | displacement of the pending frame; stop |
| Render retirement (`render_retirement.h`, `gpu_packet_memory.*`) | last accepted and completed generation, deferred writes | AcceptFrame, Defer, Finish | retire callbacks on two threads | completions of several generations at once |
| Cleanup, scan-out, frame contract, shared image (`gpu_frame_cleanup.*`, `gpu_scanout.*`, `frame_contract.*`, `gpu_shared_device.*`) | image leases, published and presented frame | record, publish, acquire, clear | completions, presenter | leases that outlive their slot; publication order |
| Presenter (`gpu_present*.cpp`, `gpu_queue_access.*`) | slots, the leased shared frame, the mailbox | present, capture, rebuild | shared image, command processor, pad | failure of one step of several; a late answer |
| Command processor and video (`vd_null_gpu.cpp`, `kernel_video.cpp`, `guest_clock.cpp`) | read and write pointers, call stack, swap blocks, vblank and present counts | fetch, execute, call, swap, vblank, interrupt | title, presenter, retirement | the ring's wrap; replayed buffers; two pacings that wait for each other |
| Texture cache, dirty pages (`gpu_draw_textures.*`, `guest_dirty_pages.*`) | per texture: image, hash, last check, spans; soft-dirty bits, generation | upload, verify, skip, clear | guest stores | stores between any two steps |
| Kernel objects and timers (`kernel_*.cpp`) | dispatcher objects, waiters, armed timers | set, clear, pulse, release, wait one/any/all, arm, cancel | guest threads | multi-object waits, pulse, timer against cancel |
| Guest heap (`guest_heap.cpp`, `guest_memory.cpp`) | live regions, free list, high-water mark, committed pages | allocate, allocate at, free | guest threads | four cases of fixed allocation, failing commits |
| XMA contexts (`xma.cpp`, `xma_context.cpp`) | a context slot shared with the title, its decoder | allocate, release, kick, clear, work | title | the decoder works on a copy while the title writes its half |
| Virtual pad (`input.*`, `xam_input_provider.*`, `desktop_controls.*`) | pad, packet number, remote owner, script cursor | poll, set/release/disconnect remote, read | guest threads, presenter, control channel | several pollers; samples taken outside the lock |
| Ticket wait, other services, product, composition, mix, RHI, shaders, probes, native engine, tools | – | – | – | not modelled: section 7 |

What makes each of the modelled components correct is stated in section 4; the hazards that led to
those properties are listed, each at its line, in `PROJECT.json`.

At this commit `vd_null_gpu.cpp`, `gpu_present.cpp` and the `kernel_*.cpp` files are in no CMake
target, `xma*.cpp` are built only for tests and tools, and the heap's fixed allocations are reached
only from `tools/heap_replay.cpp`. They are modelled as the code they are.

## 2. The modules

| Module | Models | Composed with |
|---|---|---|
| `FrameDelivery` | what the pool of frame slots promises: frames are submitted in order, their completions are *taken* in that order and only when the GPU is done (or the device is lost), and run once | implemented by `GpuFrameSlots`; extended by `RenderPipeline` and `Presentation` |
| `GpuFrameSlots` | the pool with its slots, fences, mutex, pump and release, and the renderer's use of it | implements `FrameDelivery` (`INSTANCE ... WITH`) |
| `RenderPipeline` | command processor, queue, render thread, retirement, deferred writes | extends `FrameDelivery` |
| `Presentation` | scan-out images from recording to the window | extends `FrameDelivery` |
| `FrameRecording` | render targets during a frame's record loop | – |
| `CommandStream` | ring consumer, command buffers, swaps, the presenter's mailbox | – |
| `VideoClock` | vblank thread, pacing, interrupts, guest clock | – |
| `TextureCache` | the cache's staleness policy over dirty pages | – |
| `KernelWaits` | dispatcher objects and waits | – |
| `KernelTimers` | the timer scheduler | – |
| `GuestHeap` | the allocator | – |
| `XmaContext` | one audio context slot | – |
| `PadArbiter` | the virtual pad | – |
| `GpuFrameSlotsProofs` | theorems about the pool, and that it implements `FrameDelivery` | extends `GpuFrameSlots` |
| `FrameDeliveryProofs` | the invariant of `FrameDelivery` | extended by the next two |
| `RenderPipelineProofs`, `PresentationProofs` | theorems about the two modules built on `FrameDelivery` | each extends its module |
| `CommandProcessorProofs` | theorems about the stream and the clock | extends `CommandStream`, `VideoClock` |
| `RendererStateProofs` | theorems about what the renderer remembers | extends `FrameRecording`, `TextureCache` |
| `GuestServicesProofs` | theorems about waits, timers and the heap | extends `KernelWaits`, `KernelTimers`, `GuestHeap` |
| `DeviceProofs` | theorems about the pad and the audio slot | extends `PadArbiter`, `XmaContext` |
| `MC...` | values of the constants for TLC | each extends its module |
| `MCSafeParts`, `MCFairParts` | six and four modules that share no state, side by side: a behaviour runs one of them, chosen at the start | – |

Definitions that begin with a comment "Mutant:" are faulty variants of the definition that follows
them. Nothing uses them; substituted for that definition, each makes one property fail, which shows
that the property depends on the code being right there.

### GpuFrameSlots

One TLA+ step is one critical section under `Impl::mutex`, or one Vulkan call made outside it.

- *Pump* (`Impl::Pump`): `PumpTake` (sleep predicate, exit or snapshot of the fences),
  `PumpBeginWait` and `PumpWake` (`vkWaitForFences`, without the mutex), `PumpCollect` (poll, release
  after loss, collect), `RunCallback` once per completion (without the mutex), `PumpSettle`.
- *Render thread*: `BeginFrame`, `Grow` (capacity growth behind a drain), `Acquire` (poll, lease,
  collect), `RunCallback`, `RenderSettle`, `SlotFreed` (wait with every slot in flight), `ResetFence`,
  then one of `AbandonFrame` (any early return before `vkQueueSubmit`, through `CancelFrameLease`),
  `BeginPromote`/`EndPromote` (WaitInFlight in the middle of recording) or `QueueSubmit`; after
  `QueueSubmit`, `Submit` (deferred, or waiting in `SyncWait`) or `SubmitRefused`/`OrphanWait`.
- *Owner*: `BeginRelease`, `OwnerDrained`, `OwnerReleased` (`Renderer::Shutdown`, `Release`).
- *Device*: `GpuFinish`, `GpuLoss`.

Fences are modelled as Vulkan defines them: a wait sees the fences when it is entered
(`PumpBeginWait`), returns when one of them is signalled, and, if a fence is reset while somebody
waits on it, may or may not return for an earlier signal (`latched`). A lost device may answer any
status query with an error, or with the truth. `PollAndCollect` is the part that pump and
`Acquire` share: the walk over the slots that stops at the first error, `ReleaseAfterBackendLoss`
and `CollectReadyLocked`. `Initialize`, GPU timing sums and overflow of the 64-bit counters are
left out. A condition variable is modelled by its predicate: every change of the pool's state
notifies all waiters under the mutex, so no wake-up is lost.

### RenderPipeline

Frames are named by their retirement generation: `SubmitFrameForRender` assigns frame id and
generation in one critical section. The pool is `FrameDelivery`, so completions may be taken and
run by the pump at any time and by the render thread while it acquires a slot. The retire callback
(`BeginRetire`, `Finish` once per turn of its loop, `StoreWrite` per deferred write) is run by
whichever thread runs the completion, by the render thread itself for a probed frame
(`AwaitDone`) and at once for a frame that fails (`FrameFails`); `FrameDropped` is the frame whose
callback is destroyed when the pool refuses it after a device loss. Enabled actions stand for
`FrameQueue`'s waits: its one `notify_one` may wake an idle waiter, but such a waiter blocks only while
a frame is active (and `Complete` notifies all) or while a frame is pending of which the render thread
has been notified. A synchronous frame's own polling is not repeated here; it is in `GpuFrameSlots`.

A frame may wait until the pool is empty (`BeginDrain`, `EndDrain`), before its lease when capacity grows or
with it when a surface is promoted. `asleep` is what this module keeps of the pump's snapshot: after
`PumpOversleeps` the pump waits only for the fence that `Acquire` has reset for the frame being recorded. Its
submission ends that; a frame given up instead leaves the pump asleep, and later frames may go to another
slot (`AfterSubmission`). `Stuck` names the two ways in which nobody wakes it: the fence's frame was given up,
or its render thread itself waits for the pump.

### Presentation

A frame records into a scan-out image that nobody leases (`Record`, or `SkipScanout` when there is
none), its cleanup carries the lease until the pump or the render thread destroys it
(`PumpDestroys`), which may be after the slot has been leased again; its completion publishes it
(`RunCompletion`, `Publish`). The presenter leases what is published (`RecordLatest`), submits a blit
(`SubmitBlit`, `SubmitFails`), may capture (`Capture`), presents (`Flip`) and rebuilds (`Rebuild`), and
keeps its lease until its slot's fence is seen (`SlotFree`). `Grow` replaces the pool of images behind
a drain; an image is a pool's number and an index, so that leases of a former pool stay apart.

### FrameRecording

A prepared draw or copy is one step: `Draw` with its surface, depth image, declared format and what it
writes ("no colour", "a part", "blend", "everything"); `ClearDepth`, `ResolveDepth`, `ResolveColour` and
`SkipColour` for the copies; `Promote`; `FinishFrame`, which may be an abandoned frame. `label` and
`mixed` are the renderer's marks, `pixels` and `depth` what is really there: the formats the pixels were
written in, and the surfaces drawn against a depth image since it was cleared. `owed` is what the
command stream asks of it. Resolve destinations, sample rectangles and failing Vulkan calls are left out.

### CommandStream

`VdSwap` and `Submit` are the title; `ReadHeader`, `FetchData` and `FinishPacket` the ring consumer,
which may read a length wrongly once if `MayMisread` is set; `PassOver`, `SetBins`, `CallBuffer`,
`DeferStore`, `WaitRegMem`, `Swap` and `LeaveBuffer` the walk over nested command buffers; `Ask`,
`Presented` and `PresentTimesOut` the processor's side of the mailbox, `TakeRequest`, `PresentOne`,
`Acknowledge` and `CloseRequested` the presenter's. Swap sequences live in a small ring
(`SequenceSpan`) and wrap within the run. Register writes, loads and draws only take time. `StoreDeferred`
is the render pipeline; nothing here promises that it comes.

### VideoClock

`Pace`, `PassGate`, `CountVblank` and the interrupt callback (`EnterVblankCallback`,
`LeaveVblankCallback`) are the vblank thread; `EnterCallback`/`LeaveCallback` the command processor's
interrupts under the same mutex; `Present` is `VdSwap`, with the title as `guest_clock.h` and the gate's own
warning (`vd_null_gpu.cpp:3061-3069`) describe it: it spins until guest time advances before its first
present and needs a vblank, or several, for every further one (`needs`, chosen anew at each present).
`Starved` is the state of that warning: the gate is closed and the title needs more than it lets through.

### TextureCache

One texture lookup is `Check` (the first binding of a frame), then `Skip` or `PagesDirty` (are its pages
clean?) or, on a frame that verifies, the hash straight away. `Look` is the hash; on a frame that verifies, a
second `Look` asks the pages *after* it (`Observe`), so that a store between the two counts as detected and
not as a contradiction. `Settle` confirms the texture or evicts it, `Decode` copies its bytes, `RecordHash`
hashes them again; `Store` of a guest thread may come between any two of them. Bytes, image and hash are
abstracted to which is older than which. `BeginFrame` decides whether to track and to skip; `EndFrame` clears
the bits and begins a new generation, and a frame given up does neither. The histories `unseen` and
`raced` name the two ways the code admits of missing a store.

### KernelWaits and KernelTimers

A section under `g_dispatcherMutex` is one step of `KernelWaits`. A wait tests (`AtTest`), blocks
(`Block`), is woken (`WakeUp`, `TimeOut`) and competes again; the NT waits on several objects are loops
of single waits (`Poll`, `Advance`), as in `kernel_events.cpp`. `Pulse`/`EndPulse` are its two lock
scopes. In `KernelTimers` the scheduler looks (`Sleep`, `WakeScheduler`, `Pick`) and signals outside its
lock (`Fire`); `Arm`, `Cancel`, `Notify` and `ClearTimer` are the callers. `NoTimerSleptThrough` is what
keeps `EveryArmedTimerFires`: a scheduler asleep past a due time has a caller that is about to notify it.

### GuestHeap

Every call holds the heap's lock and is one step: `Allocate` (first fit), `Free`, `AllocateAt` with its
cases `Recommit`, `GrowRegion`, `Conflict` and `Claim`, each with commits that may fail at any region.
`Write` is the guest, to any page that was ever committed. Addresses are pages.

### XmaContext

One slot: `AllocateXmaContext`, `ReleaseXmaContext`, the title's `Submit`, `OfferRing` and `TakeBlocks`,
and per kicking thread `BeginWork`, `ConsumeFrame`/`DrainFrame` once per pass and `StoreMerged`, with the
clear register as `BeginClear`/`StoreClear`. An input buffer is a number of frames and the form of its
last one's tail. The codec always opens; streams do not loop. Two history variables say when a promise
of the code's ends: `strayed`, when a slot's contents outlived its owner, and `overran`, when a kick that
only drained wrote more blocks than the ring had room for (`Work` returns before it looks at the room,
xma_context.cpp:914, and a pass may be of several blocks).

### PadArbiter

A poll is `PollHostInput` followed by `ReadPadSnapshot`, in the steps its two mutexes leave:
`TakeSteps` (the script's mutex), `PublishStep`, `FinishScript` (an atomic store without a lock),
`Arbitrate`, `SampleDesktop` (no lock), `PublishHost` (with its second check), `ReadPadSnapshot`.
`SetRemotePad`, `ReleaseRemotePad` and `DisconnectRemotePad` are one step each. Script times are
abstracted to `due`, how many steps' time has come. The `connected` flag of a snapshot, key bindings
and the mouse deltas that `TakeSnapshot` consumes are left out: the desktop is a state the player
changes.

## 3. The runs

| Run | Constants | Distinct states | Shows |
|---|---|---|---|
| `slots` | 2 slots, 4 frames, every outcome | 75,784 | `GpuReadsOnlyOwnedSlots`, `DrainMeansDelivered`, `ImplementsDelivery`, `EveryFrameDeliversUnlessOverslept`, `ReleaseReturns` |
| `pipeline` | 3 frames, 2 writes, every outcome | 361,341 | the pipeline's safety and liveness |
| `safe_parts` | see below | 1,444,481 | safety of `Presentation`, `FrameRecording`, `TextureCache`, `KernelWaits`, `GuestHeap`, `XmaContext` |
| `fair_parts` | see below | 184,052 | safety and liveness of `CommandStream`, `VideoClock`, `KernelTimers`, `PadArbiter` |
| `slots_order`, `slots_reset`, `pipeline_fails`, `pipeline_strands`, `pad_handoff`, `textures_hash`, `xma_half`, `waits_order` | smaller | – | the disagreements of section 5, as counterexamples |

`MCSafeParts` and `MCFairParts` put modules side by side whose state is disjoint in the model. A
behaviour chooses one at the start and runs only that one: the state graphs are added, not multiplied,
and every property is that of the module it comes from. What *does* interact is composed:
`RenderPipeline` and `Presentation` run on the pool of `FrameDelivery`, which `slots` shows
`GpuFrameSlots` to implement.

*Bounds*, and why they reach the interesting cases. `Max...` constants bound how often the environment
acts.

- *Slots*: two, as the code has (`kRendererFramesInFlight`): one in flight while another is leased,
  both in flight (the render thread waits), both runners holding a batch. Four frames let a slot be
  reused after a reuse. The theorems cover every capacity.
- *Pipeline*: three frames let a pending one be displaced while one is active and one is on the GPU;
  two writes let one be deferred behind each of two frames, or one be queued while another is run.
- *Presentation*: one renderer and one presenter slot with the three images the header's count then
  gives; three frames and two pools, so that images of a former pool are still leased after growth.
- *FrameRecording*: three colour images (two share a depth image, one is 2X), two depth images, three
  formats one of which cannot be converted, one conversion and one alias set a frame, three commands
  a frame over any number of frames, submitted or given up.
- *TextureCache*: one texture over two pages (a base and an alias), verification every third frame,
  one miss allowed, over unboundedly many frames and stores.
- *KernelWaits*: three threads, an event of each kind, a semaphore and a mutant; a wait on all, an NT
  wait on any and an NT wait on all with time-outs, a second NT wait on all without, in the same order as
  the first; counts up to two. `waits_order` (`MCKernelWaits`) has the opposite orders.
- *GuestHeap*: four pages, requests of one, three and four, two alignments: every shape of split,
  merge and absorption that four pages have.
- *XmaContext*: one kicking thread beside the title's accesses (the decoder's lock makes two kicks
  exclusive), a ring of three blocks, frames of four in passes of two (so that the
  ring fills, straddles its end, and is drained without room), two frames a buffer and tails that end in the
  buffer or run into the next, two streams in one slot. The state constraint `UntilStrayed` stops a
  behaviour once a slot's contents have outlived their owner: `strayed` never becomes false again, and
  every property of this part in the run excepts it.
- *CommandStream*: a ring of eight words in which a packet of three straddles the end; call depth two;
  eight swap sequences starting at six, so that they wrap; two swaps and three submissions; one length
  that may be misread.
- *VideoClock*: every trigger, slack one, two boot ticks, four presents, one or two vblanks for each.
  *KernelTimers*: two timers, two callers, delays and periods of zero and one, two calls, two units of time.
  *PadArbiter*: the two pollers the code has, a script of two steps, so that one poller may hold a step that
  is not the last, and two inputs of a remote controller or a player.

*Symmetry* is not used: slots, images and pages are scanned in order, and threads differ.

*Fairness* (used by `slots`, `pipeline`, `fair_parts` and two of the counterexample runs): weak fairness of
each thread's steps (they are operating system threads that are never cancelled, and each wait is notified
whenever its predicate may have changed) and of the GPU finishing what it was given (a submission finishes or
the device is lost, and Vulkan then returns from every wait). In `CommandStream` only the processor's steps
are fair. The presenter is not: it may be wedged, and the processor then times out. Neither is the storing of
deferred writes, which the pipeline does not always grant (section 5): a packet that waits for a store that
never comes is the exception in `EveryPacketFinishes`. In `VideoClock` the vblank thread's steps are strongly
fair, because it competes with the processor for the interrupt mutex, which each of its holders gives up; a
title that may present does. In `KernelTimers` time passes and the scheduler and the callers inside a call are
fair; in `PadArbiter` the steps of a poll and the script's time. Nothing is assumed about new work: no
fairness on `BeginFrame`, `SubmitFrame`, `DeferWrite`, `Submit`, `Arm`, on losing the device, on remote
commands or the player. In `RenderPipeline` the pump's `TakeCompletions` is fair only while it is not asleep
on a reset fence, and a draining render thread's step only once the pool is empty; that nothing but that sleep
keeps the pump from taking what the GPU is done with is `EveryFrameDeliversUnlessOverslept`, which `slots`
checks.

*Deadlock* is checked in every run. `Finished`, `Quiet`, `StreamQuiet`, `ClockQuiet`,
`TimersQuiet`, `AllSleep` and `XmaQuiet` are the states in which a part may rest; `Quiet` includes `Stuck`.

## 4. The properties

*Pool.* `GpuReadsOnlyOwnedSlots`: while the GPU reads a slot's resources nobody else may record over
or destroy them. `DrainMeansDelivered`: when `WaitInFlight` or `Drain` returns true, every completion
has *run*, not merely been collected. `ImplementsDelivery`: the pool is a `FrameDelivery`; this holds
everything the other modules need of it. `EveryFrameDeliversUnlessOverslept`, `ReleaseReturns` (liveness): each
submitted frame's completion runs with no further frame arriving, and a release returns, unless the pump sleeps
for good on reset fences that nobody is about to submit (`Overslept`; section 5).

*Pipeline.* `WritesConserved`: each deferred write is in exactly one place.
`NoWriteBeforeItsFrame`: a stored write's frame, or a newer one, has been retired.
`NoRecycleUnlessTroubled`: until a frame fails or the device is lost, a stored write's frame and the
older ones are no longer read by the GPU. `EveryFrameRetires`, `EveryWriteIsStoredUnlessTroubled`
(liveness, with no further frame arriving): unless the pump is `Stuck` for good, and the device is lost or,
for the writes, a frame fails.

*Presentation.* `NoOverwriteInUse`: an image is recorded over only when its last reader is done.
`ShowsWhatItNames`: what the presenter blits is the completed frame it was published as.
`ShownNeverGoesBack`, although completions run out of order. `RefusedOnlyForFinishedFrames`: a frame is
refused an image only while the cleanup of a finished one still holds one.

*Recording.* `LabelsNameContents`: a surface's format label tells what its pixels are.
`PassesKnowLayouts`: no pass loads an image from a layout it is not in, after any abandoned frames.
`DepthFollowsStream`: a depth image holds what the stream says, wherever its clear was recorded.

*Command stream.* `RingOnceInOrder`, also after a misread length. `NoFramePresentedAgain`, however often
a buffer is replayed and whatever timed out. `AcknowledgedIsPresented`. `EveryPacketFinishes` (liveness),
whatever becomes of the presenter, unless a `WAIT_REG_MEM` waits for a write that is never stored.

*Clock.* `VblanksPaced`: vblanks are never further ahead of the presents than the slack.
`KeepsPresenting` (liveness): neither pacing waits for the other for good, unless the gate starves a title that
needs several vblanks for its next present.

*Textures.* `StaleOnlyThroughTheHole`: a texture with an old image is skipped only after a store that a
clear wiped or that raced the making of its image. `MissesAreTheHole`: the tracker is accused only of
what it really missed.

*Kernel.* `NoLostWakeup`: a thread asleep that nobody notified has nothing it could take.
`AllWaitersCannotDeadlock`, in `safe_parts` for callers that name their objects in one order.
`EveryArmedTimerFires` (liveness): no timer is slept through or starved. `NoTimerSleptThrough`: the scheduler
sleeps past a due time only if someone is about to notify it.

*Heap.* `BooksBalance`: no page in two places or in none. `FreshPagesAreZero`.

*Audio.* `UnreadSurvives`: a kick never writes over sound the title has yet to read.
`InputsAreUsedUp`: a buffer is given back only when decoded, once, in order, and none submitted meanwhile
is lost. `SoundsStayApart`: no stream is given another's sound.

*Pad.* `ScriptIsUndisturbed`, `RemoteHoldsPad`, `PacketNamesState`; `ScriptHandsOver` (liveness).

The two runs of parts side by side check the parts' types (`PartsTypeOK`); of the pool and the pipeline
they are proved (section 6). A property that carries an exception
("unless troubled", `mixed`, `missed`, `unseen`, `conflicted`, ...) names with it the case in which the code
does otherwise; the cases are in section 5.

## 5. Where the code and its comments disagree

Each of the first eight has a run whose counterexample shows it.

1. `slots_order`: completions are *collected* in submission order but run outside the mutex by two
   threads, so they are not *delivered* in submission order as `gpu_frame_slots.h:50` says.
2. `slots_reset`: the pump waits on a snapshot of fences, one of which the render thread may retire, lease
   and reset before the wait begins. If that frame promotes a surface (`gpu_draw_targets.cpp:153`), it waits
   for the older frames with its lease held, and the pump would be woken only by its submission: rendering
   stops, though no frame has failed and no device is lost. This is the counterexample. If the frame is
   abandoned instead, frames on other slots complete unnoticed until another one is acquired; a later frame
   that waits for its own completion (`gpu_draw.cpp:2854-2857`) does not poll and waits for ever, and so does a
   release. `slots` and `pipeline` have all of these; each is in `Overslept` and in `Stuck`, and without
   either part of it TLC finds the corresponding hang.
3. `pipeline_fails`: a frame that fails before submission is retired at once, ahead of older frames
   the GPU still reads; the writes deferred behind those are released with it.
4. `pipeline_strands`: `Finish` sets `completedGeneration_` without comparing, so an older frame that
   retires late moves it backwards; a write issued then waits for a frame that has already retired.
5. `pad_handoff`: a script step taken by one poller and published late lands on the remote
   controller's command, after another poller has finished the script.
6. `textures_hash`: the recorded hash is read from guest memory after the bytes were copied
   (`gpu_draw_textures.cpp:512`, `:347`); a store in between leaves an old image under a new hash.
7. `xma_half`: `StoreContextMerged` writes back the output ring's read offset it loaded
   (`xma_context.cpp:870`) over what the title has written meanwhile, though "the title owns this".
8. `waits_order`: an NT wait on all takes its objects in the order of the caller's array, which nothing sorts
   (`kernel_events.cpp:158`); the "stable order" of the comment at 153 is the caller's. Two threads with
   opposite orders each take one of two mutants and wait for the other.

What is left of each claim is checked or proved (section 6 has the proofs):

| refuted | what holds | shown by |
|---|---|---|
| `slots_order` | at any time one runner's batch holds every completion that a newer one has overtaken | theorem `OvertakenIsOneBatch` |
| `slots_reset` | unless the pump oversleeps every frame delivers; if every frame is submitted and none promotes, none is forgotten | `EveryFrameDeliversUnlessOverslept`, theorem `NoFrameIsForgotten` |
| `pipeline_fails` | while every frame reaches the GPU, nothing is recycled under it | `NoRecycleUnlessTroubled`, theorem `NothingIsRecycledEarly` |
| `pipeline_strands` | while every frame reaches the GPU, no write waits for a frame that is not under way | theorem `NoWriteIsStranded`, `EveryWriteIsStoredUnlessTroubled` |
| `pad_handoff` | with one poller the remote controller keeps the pad | theorem `OnePollerKeepsTheRemotePad` |
| `textures_hash` | without a store between the copy and the hash, an old image has an old hash | theorem `UnracedHashesAreTrue` |
| `xma_half` | a kick leaves a read offset that the title has not moved since the kick loaded it | theorem `UntouchedHalfIsKept` |
| `waits_order` | callers that name their objects in one order never wait for each other in a ring | theorems `AllWaitersAdvance`, `AllWaitersNeverCircle` |

Smaller ones, met while modelling; the models have the behaviour and no run contradicts a comment:

- *Presentation*: cleanups outlive their slot, so a frame can be refused an image although the header's
  count provides for every slot and the publication.
- *Command stream*: the late `serviced` of a timed-out request acknowledges the next one
  (`gpu_present.cpp:1343-1350`); `Run` executes a packet before it checks its length.
- *Textures*: `guest_dirty_pages.h` calls the hole "a store racing the clear itself"; it is any store
  after the texture's check until the clear. Skipping is disabled after more than 32 misses, not
  "once". `texTrustedClean` is written and never read.
- *Waits*: an NT wait on all keeps what it took when it times out and gives each object the whole
  time-out (`kernel_objects.h:46-53`). A pulse may be missed and may clear another thread's signal.
- *Clock*: `guest_clock.h` asks only for a slack that is not 0, but with any slack the gate starves a title
  that needs more vblanks for one present than it lets through; the code says so itself, in a warning
  (`vd_null_gpu.cpp:3061-3069`).
- *Timers*: `NtSetTimerEx` arms the timer and then clears its object (`kernel_timer.cpp:173`).
- *Recording*: another surface's first pass of the frame clears depth already drawn
  (`gpu_draw.cpp:2025-2029`, against the comment at 1804); a copy of a surface not begun drops its depth
  clear (2164); a 2X surface without a storage view is relabelled as converted; a depth copy of an image
  never rendered names a layout it is not in; `resolvedColorReady` survives an abandoned frame.
- *Heap*: a conflicting fixed allocation succeeds without claiming; a commit that fails in the growth
  path loses space and absorbed regions; the conflict path does not raise the high-water mark.
- *Audio*: a pass that only consumes writes without looking for room; a starved kick drops unread
  output and the pending tail of a frame is written but not published; a kick that holds the old decoder
  runs on after the slot was released and allocated again; `Release` zeroes the slot only if it was ever
  kicked; the lock register is not honoured.

## 6. What is proved

The theorems hold for every value of the constants, from the constants' assumptions alone: a positive
`Capacity`, bounds that are natural numbers, a `Script` that is a sequence, outcomes from the listed
ones, runners that are the pump and the render thread, a command stream with at least one buffer, and
what the other modules' `ASSUME`s say. They use no fairness. Hypotheses beyond these are named with the
theorems that have them. Hardly any of the invariants is inductive as it stands; each module's inductive
invariant is named below.

Thirty of the theorems state properties of the runs. The others state types, refinements, or formulas
of the proof modules, which TLC has checked too on the constants of the component's run. A theorem that is
said to be *behind* a liveness property is its safety part: whenever something is still to happen, somebody
has a step ahead that leads to it. That the step is taken is fairness, and stays with TLC.

*`GpuFrameSlotsProofs`*: `TypeCorrect`, `NoReuseUnderTheGpu`, `DrainIsComplete`, `CompletionsRunOnce`,
`LossIsReported`, `ReleaseIsComplete`, `PumpHasWork`, for any number of slots and frames. The inductive
invariant is built in layers, each proved from the ones below it:

- *Counting*: types; a lease names a slot; each runner's batch is an interval below the next
  completion; `callbacksRunning` is the sum of the two batches; a batch is empty outside the callbacks.
- *Books*: the mirror agrees with the slots, and each submitted sequence is in exactly one place:
  tracked by exactly one slot, retired and waiting for its turn, or taken (in exactly one batch, or
  delivered). This is what makes "nothing in flight, no callbacks running" mean that every completion has run:
  were one waiting in `ordered`, the next one in turn would have to be tracked by a slot.
- *Losses*: as long as the pool believes in the device nothing has been abandoned, and a batch that
  will be told success holds no abandoned sequence, nor has one succeeded.
- *Ending*: what the owner and the pump have established by the time each of them may go on.
- *Ownership*: an executing slot's fence is unsignalled, and so is the fence of a slot being recorded;
  the render thread's lease is the slot's current one; a slot the GPU executes is in flight or is that
  lease, already queued; and the pool believes the device lost only when it is.

In the same module `PoolImplementsDelivery`, the refinement of `FrameDelivery` on which
`RenderPipeline` and `Presentation` are built, for every capacity. `Refinable` is *Counting*, *Books*, *Losses*
and *Ownership* together; one lemma per action that is visible. A collection is a `Take` because *Books*
puts the row it collects in no slot still in flight, and *Ownership* keeps the slots a poll frees apart
from those the GPU reads; what it reports agrees with what was given up by *Losses*. `Submit` is a
`SubmitToPool` whether or not the GPU finished first; queueing, cancelling and waiting are stutters.

`OvertakenIsOneBatch` follows up `slots_order`: below the newest delivery nothing is missing but what is left
of one batch. The invariant is that what is not delivered of everything collected so far is in the two
batches, and that, if both have something left, one of them was collected last (`LastTaken`).
`NoFrameIsForgotten`, *behind* `EveryFrameDeliversUnlessOverslept`, has as hypothesis that every outcome is
"submits", which `slots_reset` shows to be needed. A frame whose completion has not run is in a runner's hands
or in flight with the pump not gone; and every fence in the snapshot the pump waits on still comes
(`Wakeups`): the GPU executes its slot, or the render thread has leased and reset the slot since and is to
submit it.

*`RenderPipelineProofs`*: `PipelineTypeCorrect`, `WritesAreConserved`, `WritesFollowFrames`,
`NothingIsRecycledEarly`, for any number of frames and writes. The layers:

- *PoolSound*: what the pool has delivered was taken, what the GPU reads was not, and a runner holds
  frames that were taken. Every step of the pipeline is a step of `FrameDelivery` or leaves it alone
  (`StepOfPool`), so this layer is proved of `FrameDelivery` alone (`FrameDeliveryProofs`).
- *FrameSound*: the generations owed to the pool grow along it, and the frame being rendered and the
  one still pending are newer than all that were submitted or retired, displacement included.
- *ReadAhead*: until something goes wrong, what the GPU reads is newer than what was retired; a
  completion retires a frame all older ones of which have been taken.
- *Awaiting*: a render thread waiting for its frame is not inside a retire callback.
- *WritesSound*: every generation a runner or `completed` names is among the retired; a queued write
  carries the generation it was issued under; what left the queue is covered by a retired generation;
  and queue, processor, the two batches and guest memory partition the writes issued, none of them
  with repetitions. `ReadyIsPrefix` and `QueueIsCut` say what `Finish` takes; sequences of distinct
  elements under `Append`, `Tail` and `SubSeq` are lemmas of their own.

`PipelineUsesDelivery` puts `StepOfPool` as a refinement: the pipeline's behaviours are behaviours of
`FrameDelivery`, which `PoolImplementsDelivery` shows the pool to implement; `PresentationUsesDelivery` says the
same of the presentation, a lost and rebuilt pool included. `NoFrameIsLost`, *behind* `EveryFrameRetires`: until
the device is lost, the newest frame accepted is pending, being rendered, awaited, owed or retired.
`NoWriteIsStranded`, *behind* `EveryWriteIsStoredUnlessTroubled`, is from three more invariants:

- `RenderHolds`: the render thread holds completions only inside a frame, and retires only there or
  after one that was awaited.
- `AwaitedIsLast`: a frame it waits for is the newest in the pool and owed to nobody, and when it has been
  delivered the pump has nothing left to run or retire.
- `NotStranded`: either the retirement of the newest accepted frame is still to come, or under way with
  nobody left to retire an older one after it (`OnItsWay`); or `completed` is at the newest and the queue is
  empty (`Settled`). "The queue is empty or a frame is open" alone is not inductive: an older frame that
  retires last moves `completed` back, which is how `pipeline_strands` goes wrong.

*`DeviceProofs`*: `PadTypeCorrect`, `ScriptRunsAlone`, `StaleSampleIsDropped`, `DisconnectReleases`
and `RemoteRules` (if the remote controller's states can be told from the others'),
`PacketNumbersNameStates`, and `OnePollerKeepsTheRemotePad`. The inductive invariant `Arbitration`
says what each poller carries across its unlocked stretches: a step already taken, knowledge that no
step is left, or a sample taken after the script. Lemma `StepWrites` reduces every action to the
five things that may happen to the pad. `TheScriptIsEnded`, *behind* `ScriptHandsOver`: a script out of
steps that still owns the pad has a poller on its way to end it, however many take steps at once.
In the same module `XmaTypeCorrect`, `UnreadSoundSurvives`, `StreamsKeepTheirSounds` and
`BuffersAreUsedUp`, for every number of threads and every size of ring, pass, frame and buffer, from
`XmaInv`, whose last three layers rest on the first two:

- *XmaShape*: the types; offsets stay in the ring and in the buffer, and room does not fall below none.
- *Owned*: a decoder's lock has one holder, which is at the slot's decoder until something strayed.
- *OwnSounds*: what the decoder still consumes, what the slot's buffers hold and what a kick has loaded
  is the present stream's.
- *InputsCounted*: the frames not yet decoded of the current buffer follow from the read offset, in the
  slot or in the copy of the kick that decodes; what a copy no longer has and the slot still has is
  used up. The title refills only what the slot has not, so the store loses nothing.
- *RingKnown*: the blocks a kick may still write, or a ring has free, are none the title was told of
  and has not read. A ring whose offsets are equal is known to be empty, because a full one is taken away
  in the same store that made it full. `SpanJoins`, `SpanApart` and `SpanRest` are what the
  proofs need of arithmetic modulo the ring.

`UntouchedHalfIsKept` is from one more invariant, that a kick's copy of the title's read offset is as it was
loaded (`HalfAsLoaded`): through every pass, swap of buffers and drain, only the title moves it.

*RingKnown* failed at the first attempt to prove it: a draining kick looks for no room. TLC shows the case
with passes of two blocks, which the run's constants now include; `overran` came of it.

*`PresentationProofs`*: `PresentationTypeCorrect`, `NoImageOverwrittenInUse`, `EveryLeaseShowsItsFrame`,
`PresenterNeverGoesBack`, `RefusalNeedsAFinishedFrame`, for any number of frames, images, presenter
slots and growths. The inductive invariant `PresentationInv` adds to *PoolSound* and the types:

- a frame whose cleanup is undestroyed, published or leased was the *last* submitted to write its image
  (`LatestWriter`), which is why what it names is still there to be read;
- every lease of the presenter names a completed frame and that frame's image;
- the image being recorded into has no other lease;
- every frame the GPU reads has its cleanup, or the render thread is waiting for it; the runners'
  batches of cleanups are of frames taken, and disjoint;
- the presenter draws no older frame than it has presented, into a slot that it has released.

`RefusalNeedsAFinishedFrame` counts: images less than the free ones are leased by distinct cleanups, the
publication and presenter slots, and the render thread prepares a frame only with a slot free.

*`CommandProcessorProofs`*: `StreamTypeCorrect`, `EveryPacketOnceInOrder`, `AcknowledgedIsTheFrameAsked`,
`NoSwapPresentedTwice`, for every ring, program, depth and number of swaps, from three invariants.

- *RingSound*: measured back from the write pointer (`Distance`, modulo the ring), the words of the
  submissions not yet executed lie one packet after the other; the packet being executed is the first
  of those the consumer saw. A misread length can only make it skip all it saw. That `Submit` leaves room for
  a word more is what keeps the distances from wrapping.
- *Handshake*: until a wait times out there is one request, in exactly one of four places between
  the processor and the presenter, and it is for the last swap.
- *InOrder*: counted from the first frame (`Age`), sequences only fall from the blocks of the buffers
  through the processor and the mailbox to the presenter, and a request not yet taken is newer than all
  that was presented.

The code compares 32-bit sequences by a signed difference, so *InOrder* needs the swaps ever issued to
be fewer than half of the sequence numbers. `NoSwapPresentedTwice` has that as its hypothesis,
`2 * MaxSwaps < SequenceSpan`: 2^31 calls of `VdSwap`, more than a year at sixty a second. Where the
sequence starts, and so whether it wraps in between, is free. The run checks the same property with
eight sequences and two swaps, across the wrap.
In the same module `ClockTypeCorrect`, `VblanksArePaced`, from `Paced`: past the gate there is room for
one vblank, by the frame count read earlier.

`EveryWalkShortens`, *behind* `EveryPacketFinishes`, is why a packet ends although buffers call each other and
themselves: with every step the processor walks, `Left(d)`, what is left of the buffer at depth `d`, shrinks at
some depth and stays as it was at those above. There are `MaxDepth` depths, so the order is well-founded.
`GateStarvesOnlyTheHungry`, *behind* `KeepsPresenting`: while the gate holds the vblank thread back
(`GateHolds`), every vblank that the slack allows has been let through and the title has had at least one
since its last present; a title that cannot present even so is `Starved`. `OneToCome` makes it inductive: while
the title waits for its first vblank, a vblank thread that has yet to count one is within its budget.

*`RendererStateProofs`*: `RecordingTypeCorrect`, `LabelsAreTrue`, `LayoutsAreKnown`, `DepthIsTheGuests`,
from `Recorded`: a surface has a format exactly when the frame has begun it, and nothing is marked
between frames. `TextureTypeCorrect`, `SkipsStayRecent`, `StalenessIsTheHole`, `MissesAreHonest`, from
`Honest`: a store leaves a bit until a clear, and a clear either makes the last check too old to skip on
or is recorded as the hole. `UnracedHashesAreTrue` is a layer of the same invariant (`HashFollowsBytes`).

*`GuestServicesProofs`*: `WaitsTypeCorrect`, `WakeupsAreNotLost`, `AllWaitersAdvance` (if callers name their
objects in one order), from `WaitsSound` and `TookInOrder`: what an NT wait on all has taken lies before the
object it has come to. `AllWaitersNeverCircle`, under the same hypothesis, is about any number of waiters: of
a set of them, the one whose awaited object comes first in the callers' order has taken nothing the others
await. With waits in two orders TLC finds the circle (`waits_order`). `TimersTypeCorrect` and
`SchedulerIsNotLate`, which need no more than the types: `EarliestIs` is that anything armed has an earliest
(a least number), which every kind of step leaves true of a scheduler asleep or gives a notification to come.
`OverdueTimersAreNoticed`, *behind* `EveryArmedTimerFires`, adds that a scheduler never started has nothing
armed: a timer that is due has the scheduler awake, its sleep over, or a notification to come.
`HeapTypeCorrect`, `HeapBooksBalance`, `NewPagesAreZero`, for every size of the heap and all sizes and
alignments, from `HeapInv`: the types, `BooksBalance` itself, and that nothing was ever committed above the
high-water mark until a fixed allocation runs into a live region (`FreshAboveMark`), without which pages above
the mark could not be left as they are. Lemmas say of the operators what the actions need: `RemoveIs` and
`InsertIs` that the free list loses and gains exactly the pages named and that its blocks stay apart and
merged, `FirstFitIs` that the first fit is aligned space that is free, `VictimsAre` and `GrownIs` that the
regions a growing one absorbs, the gaps between them and the region itself make up the grown one.

*Model-checked only*: liveness, which the prover does not support (`EveryFrameDeliversUnlessOverslept`,
`ReleaseReturns`, `EveryFrameRetires`, `EveryWriteIsStoredUnlessTroubled`, `EveryPacketFinishes`,
`KeepsPresenting`, `EveryArmedTimerFires`, `ScriptHandsOver`), but for the safety parts named above; the
properties that the code violates (section 5); and `PartsTypeOK` of the two modules that only put others side
by side: each of its conjuncts is proved of its component (`StreamTypeCorrect`, `ClockTypeCorrect`,
`TimersTypeCorrect`, `PadTypeCorrect`; `PresentationTypeCorrect`, `RecordingTypeCorrect`,
`TextureTypeCorrect`, `WaitsTypeCorrect`, `HeapTypeCorrect`, `XmaTypeCorrect`), and a step of the whole is a
step of one component that leaves the others as they are.

## 7. Not modelled

- *Ticket wait* (`gpu_ticket_wait.*`): no source at this commit but its tests calls the waiter; what is
  left is a generation per address and a difference of wrapping ticks.
- *`FrameQueue`'s condition variable*: see `RenderPipeline` in section 2 for why its wake-ups add nothing.
- *Preparing a draw* (`gpu_draw.cpp`'s preparation, `gpu_draw_xlate.cpp`, shaders, vertex and constant
  translation), resolve planning and sample rectangles: data, not control. Creation of Vulkan objects is
  taken to succeed or to abandon the frame.
- *Semantic RHI* (`rhi_*.cpp`): it folds a stream of observations into counts and comparisons; nothing of
  the renderer depends on it.
- *Native mix, native engine, geometry, package decoding*: floating point and data transformation in one
  thread.
- *Probes, diagnostics, the write watch, tools, launcher*: observation and I/O. A probed frame is the
  waiting outcome of `RenderPipeline`.
- *Handle tables, critical sections, spin locks, thread creation, files, time, XAM, network, null audio*: thin
  bodies in no build target; *guest image and runtime composition, product and control channel*: resolved
  once at start, or calls into the pad.
- Code outside the repository (`x360port`, Vulkan, the codec) is modelled by how this code uses it.

Open for an extension: the audio slot's lock register and loops; the ticket wait
once something waits.

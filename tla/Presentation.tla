---------------------------- MODULE Presentation ----------------------------
(***************************************************************************)
(* From a recorded frame to the window.  The render thread copies each      *)
(* frame into a scan-out image it leases (GpuScanout::Record), the frame's  *)
(* completion publishes that image (FrameCleanup, PublishSharedFrameImage,  *)
(* FrameContract), and the presenter blits the latest published one into    *)
(* the swapchain when the command processor asks for it (PresentFrame,      *)
(* Presenter::Thread).  An image may be recorded over only when no lease of *)
(* it is left: a lease is held by the frame being recorded, by its cleanup, *)
(* by the published frame and by the presenter's submissions.               *)
(*                                                                          *)
(* Frames are named by their number in the pool (FrameDelivery).  The       *)
(* presenter's device is the renderer's.  Timing, captures' pixels, event   *)
(* handling and the copy through host memory, the presenter's choice when   *)
(* no image is published, are left out.                                     *)
(***************************************************************************)
EXTENDS Naturals, Sequences, FiniteSets, FrameDelivery

CONSTANTS
  RendererSlots,    (* kRendererFramesInFlight                                *)
  PresenterSlots,   (* kPresenterFramesInFlight                               *)
  ImageCount,       (* kSharedScanoutImageCount                               *)
  Hazards,          (* what may go wrong: "abandon", a frame is recorded and  *)
                    (* not submitted; "waits", the render thread waits for    *)
                    (* its frame; "grow", the renderer rebuilds its images;   *)
                    (* "loss", the device may be lost; "window", the window   *)
                    (* is resized, closed or captured                         *)
  MaxFrames,        (* bound: frames submitted to the pool                    *)
  MaxPools,         (* bound: how often the images are built                  *)
  MaxSkips          (* bound: submissions up to which frames may go unshown   *)
                    (* and the device is not lost                             *)

ASSUME PresentationAssumption ==
  /\ RendererSlots \in Nat \ {0} /\ PresenterSlots \in Nat \ {0} /\ ImageCount \in Nat \ {0}
  /\ MaxFrames \in Nat /\ MaxPools \in Nat \ {0} /\ MaxSkips \in Nat
  /\ Hazards \subseteq {"abandon", "waits", "grow", "loss", "window"}

Pump == "pump"
Render == "render"
ASSUME PresentationRunners == Runners = {Pump, Render}

VARIABLES
  render,       (* the render thread: "idle", "callbacks", "record", ...      *)
  image,        (* the image leased by the frame it records or waits for      *)
  target,       (* by frame: the image it writes                              *)
  cleanups,     (* frames whose FrameCleanup is alive                         *)
  batch,        (* by runner: the cleanups destroyed with its batch           *)
  pool,         (* images_: how often it has been built                       *)
  nextImage,    (* nextImage_                                                 *)
  shared,       (* g_frame                                                    *)
  published, presented,         (* FrameContract::published_, presented_      *)
  presenter,    (* the presenter thread                                       *)
  frameSlot,    (* Presenter::frameSlot                                       *)
  drawn,        (* drawnLease, the frame being blitted                        *)
  slots,        (* by slot: PresentSourceSlots::leases_, submitted_           *)
  blitting      (* slots whose submission the GPU executes                    *)

renderVars == <<render, image, target, cleanups, batch, pool, nextImage>>
sharedVars == <<shared, published, presented>>
presenterVars == <<presenter, frameSlot, drawn, slots, blitting>>
presentationVars == <<deliveryVars, renderVars, sharedVars, presenterVars>>

NoImage == 0
NoFrame == [image |-> NoImage, frame |-> 0]
Unused == [lease |-> NoFrame, submitted |-> FALSE]
PresentSlots == 0 .. (PresenterSlots - 1)

PresentationInit ==
  /\ DeliveryInit
  /\ render = "idle" /\ image = NoImage /\ target = <<>> /\ cleanups = {}
  /\ batch = [t \in Runners |-> {}]
  /\ pool = 0 /\ nextImage = 0
  /\ shared = NoFrame /\ published = 0 /\ presented = 0
  /\ presenter = "begin" /\ frameSlot = 0 /\ drawn = NoFrame
  /\ slots = [s \in PresentSlots |-> Unused] /\ blitting = {}

-----------------------------------------------------------------------------
(* Scan-out images *)

\* The images of the current pool, in the order of images_.
Image(index) == pool * ImageCount + index + 1

\* Mutant: the cleanup does not keep the image it is going to publish.
CleanupsForgotten ==
  ({image, shared.image, drawn.image} \union {slots[s].lease.image : s \in PresentSlots})
    \ {NoImage}

\* Images somebody holds a lease of: those whose use_count is not 1.
Leased ==
  ({image, shared.image, drawn.image} \union {target[n] : n \in cleanups}
     \union {slots[s].lease.image : s \in PresentSlots}) \ {NoImage}

\* How far each image is from nextImage_, in the order GpuScanout::Record tries them.
Offsets == {offset \in 0 .. (ImageCount - 1) :
              Image((nextImage + offset) % ImageCount) \notin Leased}

\* Mutant: a publication that comes late replaces a newer one.
PublishAnything(frame, img) ==
  /\ published' = frame
  /\ shared' = [image |-> img, frame |-> frame]

\* GpuScanout::Publish and FrameContract::Publish: a frame at or behind the published one is
\* refused, and takes no lease.
Publish(frame, img) ==
  IF frame > published
  THEN published' = frame /\ shared' = [image |-> img, frame |-> frame]
  ELSE UNCHANGED <<published, shared>>

-----------------------------------------------------------------------------
(* The render thread *)

\* Frames whose completion is next in turn and which the GPU is done with.
ReadyEnd == CHOOSE end \in taken .. (submitted + 1) :
              /\ (taken .. (end - 1)) \intersect reading = {}
              /\ end \in reading \union {submitted + 1}

\* Bound: a frame beyond MaxFrames is recorded to be abandoned, before the first growth only.
MoreFrames == submitted < MaxFrames \/ ("abandon" \in Hazards /\ pool = 0 /\ ~lost)

\* GpuFrameSlots::Acquire polls, and waits while every slot is in flight.
Acquire ==
  /\ render = "idle" /\ MoreFrames
  /\ Cardinality(reading) < RendererSlots
  /\ Take(Render, ReadyEnd)
  /\ batch' = [batch EXCEPT ![Render] = (taken .. (ReadyEnd - 1)) \intersect cleanups]
  /\ render' = "callbacks"
  /\ UNCHANGED <<image, target, cleanups, pool, nextImage, sharedVars, presenterVars>>

\* The completions that Acquire collected have run and are destroyed; the pool refuses a
\* frame once it has noticed the loss of the device.
Acquired ==
  /\ render = "callbacks" /\ held[Render] = Nothing
  /\ cleanups' = cleanups \ batch[Render]
  /\ batch' = [batch EXCEPT ![Render] = {}]
  /\ render' \in {"record"} \union (IF lost THEN {"idle"} ELSE {})
  /\ UNCHANGED <<deliveryVars, image, target, pool, nextImage, sharedVars, presenterVars>>

\* Mutant: the next image is taken whoever holds it.
RecordNext ==
  /\ render = "record"
  /\ image' = Image(nextImage)
  /\ nextImage' = (nextImage + 1) % ImageCount
  /\ render' = "recorded"
  /\ UNCHANGED <<deliveryVars, target, cleanups, batch, pool, sharedVars, presenterVars>>

\* GpuScanout::Record: the first unleased image from nextImage_ on; without one the frame
\* is given up.
Record ==
  /\ render = "record"
  /\ IF Offsets = {}
     THEN render' = "idle" /\ UNCHANGED <<image, nextImage>>
     ELSE LET offset == CHOOSE o \in Offsets : \A p \in Offsets : o <= p
              index == (nextImage + offset) % ImageCount
          IN /\ image' = Image(index)
             /\ nextImage' = (index + 1) % ImageCount
             /\ render' = "recorded"
  /\ UNCHANGED <<deliveryVars, target, cleanups, batch, pool, sharedVars, presenterVars>>

\* A frame without a surface to present records no scan-out, and one that fails before or at
\* vkQueueSubmit, or that the pool refuses after losing the device, drops its lease.
SkipScanout ==
  /\ "abandon" \in Hazards /\ submitted < MaxSkips
  /\ render = "record"
  /\ render' = "recorded"
  /\ UNCHANGED <<deliveryVars, image, target, cleanups, batch, pool, nextImage, sharedVars,
                 presenterVars>>

Abandon ==
  /\ render = "recorded"
  /\ "abandon" \in Hazards \/ lost
  /\ render' = "idle" /\ image' = NoImage
  /\ UNCHANGED <<deliveryVars, target, cleanups, batch, pool, nextImage, sharedVars,
                 presenterVars>>

\* The lease moves into the frame's cleanup.
SubmitDeferred ==
  /\ render = "recorded" /\ submitted < MaxFrames
  /\ SubmitToPool
  /\ target' = Append(target, image)
  /\ cleanups' = cleanups \union {submitted + 1}
  /\ render' = "idle" /\ image' = NoImage
  /\ UNCHANGED <<batch, pool, nextImage, sharedVars, presenterVars>>

\* The render thread waits for its frame (host readback, probes) and keeps the lease.
SubmitAndWait ==
  /\ "waits" \in Hazards
  /\ render = "recorded" /\ submitted < MaxFrames
  /\ SubmitToPool
  /\ target' = Append(target, image)
  /\ render' = "await"
  /\ UNCHANGED <<image, cleanups, batch, pool, nextImage, sharedVars, presenterVars>>

AwaitDone ==
  /\ render = "await" /\ submitted \in Delivered
  /\ IF submitted \in succeeded /\ image # NoImage
     THEN Publish(submitted, image) ELSE UNCHANGED <<published, shared>>
  /\ render' = "idle" /\ image' = NoImage
  /\ UNCHANGED <<deliveryVars, target, cleanups, batch, pool, nextImage, presented,
                 presenterVars>>

DeviceIdle == lost \/ (reading = {} /\ blitting = {})

\* EnsurePersistentCapacity waits for the device before it releases the images; the presenter
\* may start another blit in between.
BeginGrow ==
  /\ "grow" \in Hazards
  /\ render = "idle" /\ pool + 1 < MaxPools
  /\ DeviceIdle
  /\ render' = "grow"
  /\ UNCHANGED <<deliveryVars, image, target, cleanups, batch, pool, nextImage, sharedVars,
                 presenterVars>>

\* ReleasePersistent: Drain, then GpuScanout::Release. A device lost meanwhile fails the
\* Drain and keeps everything.
Grow ==
  /\ render = "grow"
  /\ lost \/ Delivered = 1 .. submitted
  /\ \/ /\ lost
        /\ UNCHANGED <<pool, nextImage, shared>>
     \/ /\ Delivered = 1 .. submitted
        /\ pool' = pool + 1 /\ nextImage' = 0 /\ shared' = NoFrame
  /\ render' = "idle"
  /\ UNCHANGED <<deliveryVars, image, target, cleanups, batch, published, presented,
                 presenterVars>>

-----------------------------------------------------------------------------
(* Completions: FrameCleanup::Finish publishes a frame that succeeded *)

RunCompletion(t) ==
  /\ Run(t)
  /\ LET frame == held[t].next
     IN IF held[t].ok /\ frame \in cleanups /\ target[frame] # NoImage
        THEN Publish(frame, target[frame]) ELSE UNCHANGED <<published, shared>>
  /\ UNCHANGED <<renderVars, presented, presenterVars>>

\* The pump collects the completions that are ready once the cleanups of its last batch are
\* destroyed, which is after the pool has counted their callbacks as done.
PumpCollect ==
  /\ batch[Pump] = {} /\ held[Pump] = Nothing
  /\ \E end \in (taken + 1) .. (submitted + 1) :
       /\ Take(Pump, end)
       /\ batch' = [batch EXCEPT ![Pump] = (taken .. (end - 1)) \intersect cleanups]
  /\ UNCHANGED <<render, image, target, cleanups, pool, nextImage, sharedVars, presenterVars>>

PumpDestroys ==
  /\ batch[Pump] # {} /\ held[Pump] = Nothing
  /\ cleanups' = cleanups \ batch[Pump]
  /\ batch' = [batch EXCEPT ![Pump] = {}]
  /\ UNCHANGED <<deliveryVars, render, image, target, pool, nextImage, sharedVars,
                 presenterVars>>

FrameDone ==
  /\ \E n \in reading : GpuDone(n)
  /\ UNCHANGED <<renderVars, sharedVars, presenterVars>>

BlitDone ==
  /\ \E s \in blitting : blitting' = blitting \ {s}
  /\ UNCHANGED <<deliveryVars, renderVars, sharedVars, presenter, frameSlot, drawn, slots>>

DeviceLoss ==
  /\ "loss" \in Hazards /\ submitted > MaxSkips
  /\ LoseDevice
  /\ blitting' = {}
  /\ UNCHANGED <<renderVars, sharedVars, presenter, frameSlot, drawn, slots>>

-----------------------------------------------------------------------------
(* The presenter thread *)

Mishap == "window" \in Hazards
AllReleased == [s \in PresentSlots |-> Unused]
Slot == (frameSlot + PresenterSlots - 1) % PresenterSlots

\* The window is closed.
CloseWindow ==
  /\ Mishap
  /\ presenter = "begin"
  /\ presenter' = "ended"
  /\ UNCHANGED <<deliveryVars, renderVars, sharedVars, frameSlot, drawn, slots, blitting>>

\* PresentSourceSlots::Begin waits for the fence of the slot's last submission.
SlotFree(s) == slots[s].submitted => s \notin blitting

\* Mutant: the slot keeps the lease of its last submission until the next one replaces it.
BeginHolding ==
  /\ presenter = "begin"
  /\ SlotFree(frameSlot)
  /\ frameSlot' = (frameSlot + 1) % PresenterSlots
  /\ presenter' = "record"
  /\ UNCHANGED <<deliveryVars, renderVars, sharedVars, drawn, slots, blitting>>

\* PresentOne: the next slot is released, and a swapchain image acquired. Failing that the
\* swapchain is rebuilt, or presenting ends; the slots then keep their leases.
BeginPresent ==
  /\ presenter = "begin"
  /\ SlotFree(frameSlot)
  /\ frameSlot' = (frameSlot + 1) % PresenterSlots
  /\ slots' = [slots EXCEPT ![frameSlot] = Unused]
  /\ presenter' \in {"record"} \union (IF Mishap THEN {"rebuild", "ended"} ELSE {})
                     \union (IF lost THEN {"ended"} ELSE {})
  /\ UNCHANGED <<deliveryVars, renderVars, sharedVars, drawn, blitting>>

\* RecordLatest and AcquireSharedFrameImage: the published frame is presented under the
\* frame contract, and its lease kept unless it does not fit the window.
RecordLatest ==
  /\ presenter = "record"
  /\ IF shared # NoFrame /\ shared.frame = published
     THEN /\ presented' = shared.frame
          /\ drawn' \in {shared} \union (IF Mishap THEN {NoFrame} ELSE {})
     ELSE UNCHANGED <<presented, drawn>>
  /\ presenter' = "submit"
  /\ UNCHANGED <<deliveryVars, renderVars, shared, published, frameSlot, slots, blitting>>

\* The blit is submitted, and the slot keeps the lease (PresentSourceSlots::Submitted).
SubmitBlit ==
  /\ presenter = "submit" /\ ~lost
  /\ slots' = [slots EXCEPT ![Slot] = [lease |-> drawn, submitted |-> TRUE]]
  /\ blitting' = blitting \union {Slot}
  /\ drawn' = NoFrame
  /\ presenter' = "present"
  /\ UNCHANGED <<deliveryVars, renderVars, sharedVars, frameSlot>>

\* vkQueueSubmit fails: PresentOne returns, and presenting ends.
SubmitFails ==
  /\ presenter = "submit" /\ lost
  /\ drawn' = NoFrame
  /\ presenter' = "ended"
  /\ UNCHANGED <<deliveryVars, renderVars, sharedVars, frameSlot, slots, blitting>>

\* A capture of the presented frame waits for the submission and releases the slot.
Capture ==
  /\ Mishap
  /\ presenter = "present" /\ slots[Slot].submitted /\ Slot \notin blitting
  /\ slots' \in {[slots EXCEPT ![Slot] = Unused]} \union (IF lost THEN {AllReleased} ELSE {})
  /\ UNCHANGED <<deliveryVars, renderVars, sharedVars, presenter, frameSlot, drawn, blitting>>

\* vkQueuePresentKHR
Flip ==
  /\ presenter = "present"
  /\ presenter' \in {"begin"} \union (IF Mishap \/ lost THEN {"rebuild"} ELSE {})
  /\ UNCHANGED <<deliveryVars, renderVars, sharedVars, frameSlot, drawn, slots, blitting>>

\* The swapchain is out of date, or presenting failed: the presenter waits for the device
\* and releases every slot, and goes on only with a new swapchain.
Rebuild ==
  /\ presenter = "rebuild"
  /\ DeviceIdle
  /\ slots' = AllReleased
  /\ presenter' \in {"ended"} \union (IF lost THEN {} ELSE {"begin"})
  /\ UNCHANGED <<deliveryVars, renderVars, sharedVars, frameSlot, drawn, blitting>>

-----------------------------------------------------------------------------
RenderStep == Acquire \/ Acquired \/ Record \/ SkipScanout \/ Abandon \/ SubmitDeferred
              \/ SubmitAndWait \/ AwaitDone \/ BeginGrow \/ Grow
PresenterStep == CloseWindow \/ BeginPresent \/ RecordLatest \/ SubmitBlit \/ SubmitFails
                 \/ Capture \/ Flip \/ Rebuild

\* Nothing is left to do once the frames are rendered and presenting has ended.
Quiet ==
  /\ render = "idle" /\ presenter = "ended"
  /\ submitted = MaxFrames
  /\ UNCHANGED presentationVars

PresentationNext ==
  \/ RenderStep
  \/ \E t \in Runners : RunCompletion(t)
  \/ PumpCollect \/ PumpDestroys
  \/ FrameDone \/ BlitDone \/ DeviceLoss
  \/ PresenterStep
  \/ Quiet

PresentationSpec == PresentationInit /\ [][PresentationNext]_presentationVars

-----------------------------------------------------------------------------
\* Every variable has its type.
PresentationTypeOK ==
  /\ submitted \in Nat /\ reading \subseteq 1 .. submitted /\ taken \in 1 .. (submitted + 1)
  /\ held \in [Runners -> [next : Nat, end : Nat, ok : BOOLEAN]]
  /\ Delivered \subseteq 1 .. submitted
  /\ render \in {"idle", "callbacks", "record", "recorded", "await", "grow"}
  /\ image \in Nat /\ pool \in 0 .. (MaxPools - 1) /\ nextImage \in 0 .. (ImageCount - 1)
  /\ target \in Seq(Nat) /\ Len(target) = submitted
  /\ cleanups \subseteq 1 .. submitted /\ batch \in [Runners -> SUBSET cleanups]
  /\ shared \in [image : Nat, frame : 0 .. published]
  /\ published \in 0 .. submitted /\ presented \in 0 .. published
  /\ presenter \in {"begin", "record", "submit", "present", "rebuild", "ended"}
  /\ frameSlot \in PresentSlots /\ drawn \in [image : Nat, frame : 0 .. published]
  /\ slots \in [PresentSlots -> [lease : [image : Nat, frame : 0 .. published],
                                 submitted : BOOLEAN]]
  /\ blitting \subseteq {s \in PresentSlots : slots[s].submitted}

Writing == {target[n] : n \in reading} \ {NoImage}

\* While the GPU may still write a frame into a scan-out image, no other frame is written
\* into it, and it is neither published nor blitted to the window: whatever the pump, the
\* render thread and the presenter do, an image is recorded over only when its last reader is
\* done (gpu_frame_capacity.h: either side may stall "without forcing the other to overwrite
\* an image that is still in use").
NoOverwriteInUse ==
  /\ \A n, m \in reading : n # m /\ target[n] = target[m] => target[n] = NoImage
  /\ Writing \intersect ({shared.image, drawn.image}
                           \union {slots[s].lease.image : s \in blitting}) = {}

\* The frame last submitted to be written into an image.
Content(img) == LET writers == {n \in 1 .. submitted : target[n] = img}
                IN CHOOSE n \in writers : \A m \in writers : m <= n

\* What the presenter blits is a completed frame, and still that frame when the blit runs:
\* the image holds what it was published as (gpu_shared_device.h: published "only from its
\* ordered producer-fence completion").
ShowsWhatItNames ==
  \A lease \in {shared, drawn} \union {slots[s].lease : s \in blitting} :
    lease # NoFrame => lease.frame \in succeeded /\ Content(lease.image) = lease.frame

\* Completions may run out of order, but the presenter never shows an older frame than one it
\* has shown (frame_contract.h: presentation "may never show an older or unpublished
\* identity").
ShownNeverGoesBack == [][drawn' # NoFrame => drawn'.frame >= presented]_presentationVars

\* A frame is refused a scan-out image only while the cleanup of a frame the GPU has finished
\* still holds one, its batch not yet destroyed: one allocation for every renderer and
\* presenter slot and one for the publication would otherwise do (gpu_frame_capacity.h).
RefusedOnlyForFinishedFrames ==
  ImageCount = RendererSlots + PresenterSlots + 1 /\ render = "record" /\ Offsets = {}
    => \E n \in cleanups : n \notin reading

=============================================================================

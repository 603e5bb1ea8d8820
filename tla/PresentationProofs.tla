------------------------- MODULE PresentationProofs -------------------------
(***************************************************************************)
(* For any number of frames, slots, images and growths: an image in use is  *)
(* never overwritten, what is shown is what was published, and a frame is   *)
(* refused an image only for cleanups that are still to be destroyed. The   *)
(* pool it is built on is the abstract one.                                 *)
(***************************************************************************)
EXTENDS Presentation, FrameDeliveryProofs, FiniteSetTheorems,
        WellFoundedInduction, TLAPS

-----------------------------------------------------------------------------
(* The invariant *)

\* No frame after n was submitted to be written into n's image.
LatestWriter(n) ==
  target[n] # NoImage => \A m \in (n + 1) .. submitted : target[m] # target[n]

\* The leases of completed frames: the published one, the presenter's and its slots'.
ShownLeases == {shared, drawn} \union {slots[s].lease : s \in PresentSlots}

\* A lease names a completed frame and the image it was the last to write.
NamesItsContent(lease) ==
  lease # NoFrame => /\ lease.frame \in succeeded /\ lease.image # NoImage
                     /\ target[lease.frame] = lease.image
                     /\ LatestWriter(lease.frame)

\* The image of the frame being recorded has no other lease.
RecordsAlone ==
  render = "recorded" /\ image # NoImage =>
    /\ \A n \in cleanups : target[n] # image
    /\ \A lease \in ShownLeases : lease.image # image

\* Every frame the GPU reads has its cleanup, or the render thread waits for it; a batch of
\* cleanups belongs to one runner, and to frames that have been taken.
CleanupsKept ==
  /\ reading \subseteq cleanups \union (IF render = "await" THEN {submitted} ELSE {})
  /\ render = "await" => submitted \in 1 .. submitted /\ target[submitted] = image
  /\ render \notin {"recorded", "await"} => image = NoImage
  /\ \A t \in Runners : batch[t] \subseteq 1 .. (taken - 1)
  /\ \A t, u \in Runners : t # u => batch[t] \intersect batch[u] = {}

\* The presenter draws a frame only between recording and submitting it, into a slot it has
\* released, and no older one than it has presented.
DrawsForward ==
  /\ presenter \in {"record", "submit"} => slots[Slot] = Unused
  /\ drawn # NoFrame => presenter = "submit" /\ drawn.frame >= presented
  /\ lost => blitting = {}

\* While the render thread prepares a frame, one of its slots is free; while it waits to
\* rebuild the images, it may.
RoomToRender ==
  /\ render \in {"callbacks", "record"} => Cardinality(reading) < RendererSlots
  /\ render = "grow" => pool + 1 < MaxPools

InUseInv ==
  /\ \A n \in cleanups : LatestWriter(n)
  /\ \A lease \in ShownLeases : NamesItsContent(lease)
  /\ RecordsAlone /\ CleanupsKept /\ DrawsForward /\ RoomToRender

PresentationInv == PoolSound /\ PresentationTypeOK /\ InUseInv

-----------------------------------------------------------------------------
(* Arithmetic of the slots, and the steps of the pool *)

\* The slot after the next one, less one, is the next one.
LEMMA SlotTaken ==
  ASSUME NEW s \in PresentSlots
  PROVE  /\ (s + 1) % PresenterSlots \in PresentSlots
         /\ (((s + 1) % PresenterSlots) + PresenterSlots - 1) % PresenterSlots = s
BY PresentationAssumption DEF PresentSlots

\* The slot of the frame being presented is one of the slots.
LEMMA SlotInRange == PresentationTypeOK => Slot \in PresentSlots
BY PresentationAssumption DEF PresentationTypeOK, Slot, PresentSlots

\* The presenter does not touch the pool.
LEMMA PresenterLeavesPool == PresenterStep => UNCHANGED <<deliveryVars, renderVars>>
BY DEF PresenterStep, CloseWindow, BeginPresent, RecordLatest, SubmitBlit, SubmitFails, Capture,
       Flip, Rebuild

\* A step of the presentation is a step of the pool, or leaves it alone.
LEMMA StepOfPool ==
  PoolSound /\ [PresentationNext]_presentationVars => [DeliveryNext]_deliveryVars
<1> SUFFICES ASSUME PoolSound, [PresentationNext]_presentationVars
             PROVE  [DeliveryNext]_deliveryVars
  OBVIOUS
<1>1. CASE RenderStep
  <2>1. CASE Acquire
    <3>1. Take(Render, ReadyEnd) /\ ReadyEnd \in taken .. (submitted + 1)
      BY <2>1 DEF Acquire, Take
    <3> QED
      BY <3>1, PresentationRunners DEF DeliveryNext
  <2>2. CASE SubmitDeferred \/ SubmitAndWait
    BY <2>2 DEF SubmitDeferred, SubmitAndWait, DeliveryNext
  <2>3. CASE Acquired \/ Record \/ SkipScanout \/ Abandon \/ AwaitDone \/ BeginGrow \/ Grow
    BY <2>3 DEF Acquired, Record, SkipScanout, Abandon, AwaitDone, BeginGrow, Grow
  <2> QED
    BY <1>1, <2>1, <2>2, <2>3 DEF RenderStep
<1>2. ASSUME NEW t \in Runners, RunCompletion(t) PROVE [DeliveryNext]_deliveryVars
  BY <1>2 DEF RunCompletion, DeliveryNext
<1>3. CASE PumpCollect
  <2>1. PICK end \in (taken + 1) .. (submitted + 1) : Take(Pump, end)
    BY <1>3 DEF PumpCollect
  <2>2. end \in taken .. (submitted + 1)
    BY DEF PoolSound
  <2> QED
    BY <2>1, <2>2, PresentationRunners DEF DeliveryNext
<1>4. CASE FrameDone \/ DeviceLoss
  BY <1>4 DEF FrameDone, DeviceLoss, DeliveryNext
<1>5. CASE PumpDestroys \/ BlitDone \/ Quiet \/ UNCHANGED presentationVars
  BY <1>5 DEF PumpDestroys, BlitDone, Quiet, presentationVars
<1>6. CASE PresenterStep
  BY <1>6, PresenterLeavesPool
<1> QED
  BY <1>1, <1>2, <1>3, <1>4, <1>5, <1>6 DEF PresentationNext

\* What has been submitted or has succeeded remains so.
LEMMA PoolGrows ==
  PoolSound /\ [DeliveryNext]_deliveryVars => /\ succeeded \subseteq succeeded'
                                              /\ submitted' \in {submitted, submitted + 1}
BY DEF DeliveryNext, deliveryVars, SubmitToPool, GpuDone, LoseDevice, Take, Run

-----------------------------------------------------------------------------
(* Types *)

\* The types of the pool, of the render thread's variables and of the presenter's.
PoolTypes ==
  /\ submitted \in Nat /\ reading \subseteq 1 .. submitted /\ taken \in 1 .. (submitted + 1)
  /\ held \in [Runners -> [next : Nat, end : Nat, ok : BOOLEAN]]
  /\ Delivered \subseteq 1 .. submitted

RenderTypes ==
  /\ render \in {"idle", "callbacks", "record", "recorded", "await", "grow"}
  /\ image \in Nat /\ pool \in 0 .. (MaxPools - 1) /\ nextImage \in 0 .. (ImageCount - 1)
  /\ target \in Seq(Nat) /\ Len(target) = submitted
  /\ cleanups \subseteq 1 .. submitted /\ batch \in [Runners -> SUBSET cleanups]

PublishedTypes ==
  /\ shared \in [image : Nat, frame : 0 .. published]
  /\ published \in 0 .. submitted /\ presented \in 0 .. published

PresenterTypes ==
  /\ presenter \in {"begin", "record", "submit", "present", "rebuild", "ended"}
  /\ frameSlot \in PresentSlots /\ drawn \in [image : Nat, frame : 0 .. published]
  /\ slots \in [PresentSlots -> [lease : [image : Nat, frame : 0 .. published],
                                 submitted : BOOLEAN]]
  /\ blitting \subseteq {s \in PresentSlots : slots[s].submitted}

\* The typed parts are the types.
LEMMA TypesTogether ==
  PresentationTypeOK <=> PoolTypes /\ RenderTypes /\ PublishedTypes /\ PresenterTypes
BY DEF PresentationTypeOK, PoolTypes, RenderTypes, PublishedTypes, PresenterTypes

\* A sound pool is typed.
LEMMA PoolTyped == PoolSound => PoolTypes
BY DEF PoolSound, PoolTypes

\* Leases stay typed while publications go on.
LEMMA LeasesStayTyped ==
  PresenterTypes /\ UNCHANGED presenterVars /\ published \in Nat /\ published' \in Nat
    /\ published <= published' => PresenterTypes'
<1> SUFFICES ASSUME PresenterTypes, UNCHANGED presenterVars, published \in Nat,
                    published' \in Nat, published <= published'
             PROVE  PresenterTypes'
  OBVIOUS
<1> DEFINE Lease(n) == [image : Nat, frame : 0 .. n]
           Entry(n) == [lease : Lease(n), submitted : BOOLEAN]
<1>1. Lease(published) \subseteq Lease(published')
  OBVIOUS
<1>2. slots \in [PresentSlots -> Entry(published)] /\ drawn \in Lease(published)
  BY DEF PresenterTypes
<1> HIDE DEF Lease
<1>3. slots \in [PresentSlots -> Entry(published')] /\ drawn \in Lease(published')
  BY <1>1, <1>2
<1> USE DEF Lease
<1> QED
  BY <1>3 DEF PresenterTypes, presenterVars

\* A publication is newer than the last, and names a frame of the pool.
LEMMA PublishTyped ==
  ASSUME PresentationTypeOK, NEW frame \in 1 .. submitted, NEW img \in Nat,
         \/ Publish(frame, img)
         \/ UNCHANGED <<published, shared>>
  PROVE  /\ published' \in 0 .. submitted /\ published <= published'
         /\ shared' \in [image : Nat, frame : 0 .. published']
BY DEF PresentationTypeOK, Publish

\* No image and no frame are of the types of what is shared and leased.
LEMMA NoFrameTyped ==
  ASSUME NEW n \in Nat
  PROVE  NoFrame \in [image : Nat, frame : 0 .. n] /\ Unused.lease = NoFrame
         /\ Unused \in [lease : [image : Nat, frame : 0 .. n], submitted : BOOLEAN]
BY DEF NoFrame, NoImage, Unused

\* The presenter keeps the types of its variables, and draws and slots what was published.
LEMMA PresenterTyped ==
  PresentationTypeOK /\ DrawsForward /\ PresenterStep => PresentationTypeOK'
<1> SUFFICES ASSUME PresentationTypeOK, DrawsForward, PresenterStep PROVE PresentationTypeOK'
  OBVIOUS
<1> DEFINE Lease == [image : Nat, frame : 0 .. published]
           Entry == [lease : Lease, submitted : BOOLEAN]
<1>1. UNCHANGED <<submitted, reading, taken, held, Delivered, renderVars>>
  BY PresenterLeavesPool DEF deliveryVars, Delivered
<1>2. /\ Slot \in PresentSlots /\ NoFrame \in Lease /\ Unused \in Entry
      /\ AllReleased \in [PresentSlots -> Entry]
  <2>1. published \in Nat
    BY DEF PresentationTypeOK
  <2> QED
    BY <2>1, SlotInRange, NoFrameTyped DEF AllReleased
<1>3. /\ slots \in [PresentSlots -> Entry] /\ drawn \in Lease /\ shared \in Lease
      /\ presented \in 0 .. published /\ frameSlot \in PresentSlots
      /\ presenter \in {"begin", "record", "submit", "present", "rebuild", "ended"}
      /\ blitting \subseteq {s \in PresentSlots : slots[s].submitted}
  BY DEF PresentationTypeOK
<1>4. SUFFICES /\ slots' \in [PresentSlots -> Entry] /\ drawn' \in Lease
               /\ presented' \in 0 .. published /\ frameSlot' \in PresentSlots
               /\ presenter' \in {"begin", "record", "submit", "present", "rebuild", "ended"}
               /\ blitting' \subseteq {s \in PresentSlots : slots'[s].submitted}
               /\ UNCHANGED <<shared, published>>
  BY <1>1, <1>4 DEF PresentationTypeOK, renderVars
<1> HIDE DEF Entry
<1>5. CASE CloseWindow
  BY <1>3, <1>5 DEF CloseWindow, sharedVars
<1>6. CASE BeginPresent
  <2>1. (frameSlot + 1) % PresenterSlots \in PresentSlots
    BY <1>3, SlotTaken
  <2>2. frameSlot \notin blitting
    BY <1>3, <1>6 DEF BeginPresent, SlotFree
  <2> QED
    BY <1>2, <1>3, <1>6, <2>1, <2>2 DEF BeginPresent, sharedVars
<1>7. CASE RecordLatest
  <2>1. drawn' \in {drawn, shared, NoFrame}
    BY <1>7 DEF RecordLatest
  <2>2. presented' \in {presented, shared.frame}
    BY <1>7 DEF RecordLatest
  <2>3. UNCHANGED <<shared, published, frameSlot, slots, blitting>> /\ presenter' = "submit"
    BY <1>7 DEF RecordLatest
  <2> QED
    BY <1>2, <1>3, <2>1, <2>2, <2>3
<1>8. CASE SubmitBlit
  <2>1. [lease |-> drawn, submitted |-> TRUE] \in Entry
    BY <1>3 DEF Entry
  <2>2. slots' = [slots EXCEPT ![Slot] = [lease |-> drawn, submitted |-> TRUE]]
    BY <1>8 DEF SubmitBlit
  <2>3. slots' \in [PresentSlots -> Entry]
    BY <1>2, <1>3, <2>1, <2>2
  <2>4. /\ slots'[Slot].submitted
        /\ \A s \in PresentSlots : s # Slot => slots'[s] = slots[s]
    BY <1>2, <1>3, <2>2
  <2>5. blitting' \subseteq {s \in PresentSlots : slots'[s].submitted}
    BY <1>2, <1>3, <1>8, <2>4 DEF SubmitBlit
  <2> QED
    BY <1>2, <1>3, <1>8, <2>3, <2>5 DEF SubmitBlit, sharedVars
<1>9. CASE SubmitFails
  BY <1>2, <1>3, <1>9 DEF SubmitFails, sharedVars
<1>10. CASE Capture
  <2>1. /\ slots' \in {[slots EXCEPT ![Slot] = Unused], AllReleased}
        /\ Slot \notin blitting
        /\ slots' = AllReleased => lost \/ slots' = [slots EXCEPT ![Slot] = Unused]
    BY <1>10 DEF Capture
  <2>2. slots' \in [PresentSlots -> Entry]
    BY <1>2, <1>3, <2>1
  <2>3. blitting \subseteq {s \in PresentSlots : slots'[s].submitted}
    <3>1. CASE lost
      BY <3>1 DEF DrawsForward
    <3>2. CASE slots' = [slots EXCEPT ![Slot] = Unused]
      BY <1>3, <2>1, <3>2
    <3> QED
      BY <2>1, <3>1, <3>2
  <2> QED
    BY <1>3, <1>10, <2>2, <2>3 DEF Capture, sharedVars
<1>11. CASE Flip
  BY <1>3, <1>11 DEF Flip, sharedVars
<1>12. CASE Rebuild
  <2>1. blitting = {}
    BY <1>12 DEF Rebuild, DeviceIdle, DrawsForward
  <2> QED
    BY <1>2, <1>3, <1>12, <2>1 DEF Rebuild, sharedVars
<1> QED
  BY <1>5, <1>6, <1>7, <1>8, <1>9, <1>10, <1>11, <1>12 DEF PresenterStep

\* Some first element there is in every set of numbers.
LEMMA SmallestExists ==
  ASSUME NEW S, S \subseteq Nat, S # {} PROVE \E m \in S : \A n \in S : m <= n
<1> DEFINE R == OpToRel(<, Nat)
<1>1. IsWellFoundedOn(R, Nat)
  BY NatLessThanWellFounded, Zenon
<1>2. \A m, n \in Nat : m < n => <<m, n>> \in R
  BY Zenon DEF OpToRel
<1> HIDE DEF R
<1>3. PICK m \in S : \A n \in S : ~(<<n, m>> \in R)
  BY <1>1, WFMin
<1>4. ASSUME NEW n \in S PROVE m <= n
  <2>1. ~(n < m)
    BY <1>2, <1>3
  <2> QED
    BY <2>1
<1> QED
  BY <1>4

\* The images are numbered, and every record continues the circle.
LEMMA RecordTyped ==
  PresentationTypeOK /\ Record => /\ image' \in Nat /\ nextImage' \in 0 .. (ImageCount - 1)
                                  /\ render' \in {"idle", "recorded"}
<1> SUFFICES ASSUME PresentationTypeOK, Record
             PROVE  /\ image' \in Nat /\ nextImage' \in 0 .. (ImageCount - 1)
                    /\ render' \in {"idle", "recorded"}
  OBVIOUS
<1>1. CASE Offsets = {}
  BY <1>1 DEF Record, PresentationTypeOK
<1>2. CASE Offsets # {}
  <2> DEFINE offset == CHOOSE o \in Offsets : \A p \in Offsets : o <= p
             index == (nextImage + offset) % ImageCount
  <2>1. image' = Image(index) /\ nextImage' = (index + 1) % ImageCount /\ render' = "recorded"
    BY <1>2 DEF Record
  <2>2. \E o \in Offsets : \A p \in Offsets : o <= p
    <3>1. Offsets \subseteq Nat
      BY PresentationAssumption DEF Offsets
    <3> QED
      BY <1>2, <3>1, SmallestExists
  <2>3. offset \in 0 .. (ImageCount - 1)
    BY <2>2 DEF Offsets
  <2> HIDE DEF offset
  <2>4. index \in 0 .. (ImageCount - 1)
    BY <2>3, PresentationAssumption DEF PresentationTypeOK
  <2> HIDE DEF index
  <2>5. Image(index) \in Nat
    <3>1. pool * ImageCount \in Nat
      BY PresentationAssumption DEF PresentationTypeOK
    <3> QED
      BY <2>4, <3>1, PresentationAssumption DEF Image
  <2> QED
    BY <2>1, <2>4, <2>5, PresentationAssumption
<1> QED
  BY <1>1, <1>2

\* The render thread keeps the types of its variables.
LEMMA RenderTyped ==
  PoolSound /\ PresentationTypeOK /\ CleanupsKept /\ RoomToRender /\ RenderStep
    => RenderTypes' /\ PublishedTypes' /\ UNCHANGED presenterVars /\ published <= published'
<1> SUFFICES ASSUME PoolSound, PresentationTypeOK, CleanupsKept, RoomToRender, RenderStep
             PROVE  /\ RenderTypes' /\ PublishedTypes' /\ UNCHANGED presenterVars
                    /\ published <= published'
  OBVIOUS
<1>1. PoolTypes /\ RenderTypes /\ PublishedTypes /\ PresenterTypes
  BY TypesTogether
<1>2. /\ Pump \in Runners /\ Render \in Runners /\ Pump # Render
      /\ \A t \in Runners : t = Pump \/ t = Render
  BY PresentationRunners DEF Pump, Render
<1>3. CASE Acquire
  <2>1. (taken .. (ReadyEnd - 1)) \intersect cleanups \in SUBSET cleanups
    OBVIOUS
  <2>2. batch' \in [Runners -> SUBSET cleanups]
    BY <1>1, <1>3, <2>1 DEF Acquire, RenderTypes
  <2>3. submitted' = submitted
    BY <1>3 DEF Acquire, Take
  <2> QED
    BY <1>1, <1>3, <2>2, <2>3 DEF Acquire, RenderTypes, PublishedTypes, sharedVars
<1>4. CASE Acquired
  <2>1. batch' = [batch EXCEPT ![Render] = {}] /\ cleanups' = cleanups \ batch[Render]
    BY <1>4 DEF Acquired
  <2>2. batch[Pump] \intersect batch[Render] = {}
    BY <1>2 DEF CleanupsKept
  <2>3. batch' \in [Runners -> SUBSET cleanups']
    <3>1. batch'[Pump] \in SUBSET cleanups' /\ batch'[Render] = {}
      BY <1>1, <1>2, <2>1, <2>2 DEF RenderTypes
    <3> QED
      BY <1>1, <1>2, <2>1, <3>1 DEF RenderTypes
  <2>4. /\ render' \in {"record", "idle"} /\ cleanups' \subseteq cleanups
        /\ UNCHANGED <<submitted, image, target, pool, nextImage, sharedVars, presenterVars>>
    BY <1>4 DEF Acquired, deliveryVars
  <2> QED
    BY <1>1, <2>3, <2>4 DEF RenderTypes, PublishedTypes, sharedVars
<1>5. CASE Record
  <2>1. UNCHANGED <<submitted, target, cleanups, batch, pool, sharedVars, presenterVars>>
    BY <1>5 DEF Record, deliveryVars
  <2>2. /\ image' \in Nat /\ nextImage' \in 0 .. (ImageCount - 1)
        /\ render' \in {"idle", "recorded"}
    BY <1>5, RecordTyped
  <2> QED
    BY <1>1, <2>1, <2>2 DEF RenderTypes, PublishedTypes, sharedVars
<1>6. CASE SkipScanout \/ BeginGrow \/ Abandon
  <2>1. /\ UNCHANGED <<submitted, target, cleanups, batch, pool, nextImage, sharedVars,
                       presenterVars>>
        /\ image' \in {image, NoImage} /\ render' \in {"recorded", "grow", "idle"}
    BY <1>6 DEF SkipScanout, BeginGrow, Abandon, deliveryVars
  <2> QED
    BY <1>1, <2>1 DEF RenderTypes, PublishedTypes, sharedVars, NoImage
<1>7. CASE SubmitDeferred \/ SubmitAndWait
  <2>1. /\ submitted' = submitted + 1 /\ target' = Append(target, image)
        /\ render' \in {"idle", "await"} /\ image' \in {NoImage, image}
        /\ cleanups' \in {cleanups, cleanups \union {submitted + 1}}
        /\ UNCHANGED <<batch, pool, nextImage, sharedVars, presenterVars>>
    BY <1>7 DEF SubmitDeferred, SubmitAndWait, SubmitToPool
  <2>2. target' \in Seq(Nat) /\ Len(target') = submitted'
    BY <1>1, <2>1 DEF RenderTypes
  <2>3. cleanups' \subseteq 1 .. submitted' /\ batch' \in [Runners -> SUBSET cleanups']
    BY <1>1, <2>1 DEF RenderTypes, PoolTypes
  <2>4. PublishedTypes' /\ published <= published'
    BY <1>1, <2>1 DEF PublishedTypes, PoolTypes, sharedVars
  <2> QED
    BY <1>1, <2>1, <2>2, <2>3, <2>4 DEF RenderTypes, NoImage
<1>8. CASE AwaitDone
  <2>1. /\ submitted' = submitted /\ UNCHANGED <<target, cleanups, batch, pool, nextImage>>
        /\ UNCHANGED <<presented, presenterVars>> /\ render' = "idle" /\ image' = NoImage
    BY <1>8 DEF AwaitDone, deliveryVars
  <2>2. submitted \in 1 .. submitted /\ image \in Nat
    BY <1>1, <1>8 DEF AwaitDone, CleanupsKept, RenderTypes
  <2>3. Publish(submitted, image) \/ UNCHANGED <<published, shared>>
    BY <1>8 DEF AwaitDone
  <2>4. /\ published' \in 0 .. submitted /\ published <= published'
        /\ shared' \in [image : Nat, frame : 0 .. published']
    BY <2>2, <2>3, PublishTyped
  <2>5. PublishedTypes'
    BY <1>1, <2>1, <2>4 DEF PublishedTypes
  <2> QED
    BY <1>1, <2>1, <2>4, <2>5 DEF RenderTypes, NoImage
<1>9. CASE Grow
  <2>1. /\ shared' \in {shared, NoFrame} /\ pool' \in {pool, pool + 1}
        /\ nextImage' \in {nextImage, 0} /\ render' = "idle"
        /\ UNCHANGED <<submitted, image, target, cleanups, batch, published, presented,
                       presenterVars>>
    BY <1>9 DEF Grow, deliveryVars
  <2>2. pool' \in 0 .. (MaxPools - 1)
    BY <1>1, <1>9, PresentationAssumption DEF Grow, RoomToRender, RenderTypes
  <2>3. PublishedTypes'
    BY <1>1, <2>1, NoFrameTyped DEF PublishedTypes, PoolTypes
  <2> QED
    BY <1>1, <2>1, <2>2, <2>3, PresentationAssumption DEF RenderTypes, PublishedTypes
<1> QED
  BY <1>3, <1>4, <1>5, <1>6, <1>7, <1>8, <1>9 DEF RenderStep

\* The completions and the GPU do.
LEMMA RestTyped ==
  ASSUME PoolSound, PresentationTypeOK, CleanupsKept,
         \/ \E t \in Runners : RunCompletion(t)
         \/ PumpCollect \/ PumpDestroys \/ FrameDone
  PROVE  RenderTypes' /\ PublishedTypes' /\ UNCHANGED presenterVars /\ published <= published'
<1>1. PoolTypes /\ RenderTypes /\ PublishedTypes /\ PresenterTypes
  BY TypesTogether
<1>2. /\ Pump \in Runners /\ Render \in Runners /\ Pump # Render
      /\ \A t \in Runners : t = Pump \/ t = Render
  BY PresentationRunners DEF Pump, Render
<1>3. ASSUME NEW t \in Runners, RunCompletion(t)
      PROVE  /\ RenderTypes' /\ PublishedTypes' /\ UNCHANGED presenterVars
             /\ published <= published'
  <2>1. held[t] # Nothing /\ UNCHANGED <<submitted, renderVars, presented, presenterVars>>
    BY <1>3 DEF RunCompletion, Run
  <2>2. held[t].next \in 1 .. submitted
    BY <2>1 DEF PoolSound
  <2> DEFINE frame == held[t].next
  <2>3. \/ frame \in cleanups /\ Publish(frame, target[frame])
        \/ UNCHANGED <<published, shared>>
    BY <1>3 DEF RunCompletion
  <2> HIDE DEF frame
  <2>4. frame \in cleanups => frame \in 1 .. submitted /\ target[frame] \in Nat
    BY <1>1 DEF RenderTypes, PoolTypes
  <2>5. /\ published' \in 0 .. submitted /\ published <= published'
        /\ shared' \in [image : Nat, frame : 0 .. published']
    <3>1. CASE UNCHANGED <<published, shared>>
      BY <1>1, <3>1 DEF PublishedTypes, PoolTypes
    <3>2. CASE frame \in cleanups /\ Publish(frame, target[frame])
      BY <2>4, <3>2, PublishTyped
    <3> QED
      BY <2>3, <3>1, <3>2
  <2> QED
    BY <1>1, <2>1, <2>5 DEF RenderTypes, PublishedTypes, renderVars
<1>4. CASE PumpCollect
  <2>1. /\ UNCHANGED <<submitted, render, image, target, cleanups, pool, nextImage, sharedVars,
                       presenterVars>>
        /\ \E end \in (taken + 1) .. (submitted + 1) :
             batch' = [batch EXCEPT ![Pump] = (taken .. (end - 1)) \intersect cleanups]
    BY <1>4 DEF PumpCollect, Take
  <2>2. batch' \in [Runners -> SUBSET cleanups]
    BY <1>1, <2>1 DEF RenderTypes
  <2> QED
    BY <1>1, <2>1, <2>2 DEF RenderTypes, PublishedTypes, sharedVars
<1>5. CASE PumpDestroys
  <2>1. batch' = [batch EXCEPT ![Pump] = {}] /\ cleanups' = cleanups \ batch[Pump]
    BY <1>5 DEF PumpDestroys
  <2>2. batch[Pump] \intersect batch[Render] = {}
    BY <1>2 DEF CleanupsKept
  <2>3. batch' \in [Runners -> SUBSET cleanups']
    <3>1. batch'[Render] \in SUBSET cleanups' /\ batch'[Pump] = {}
      BY <1>1, <1>2, <2>1, <2>2 DEF RenderTypes
    <3> QED
      BY <1>1, <1>2, <2>1, <3>1 DEF RenderTypes
  <2>4. /\ cleanups' \subseteq cleanups
        /\ UNCHANGED <<submitted, render, image, target, pool, nextImage, sharedVars,
                       presenterVars>>
    BY <1>5 DEF PumpDestroys, deliveryVars
  <2> QED
    BY <1>1, <2>3, <2>4 DEF RenderTypes, PublishedTypes, sharedVars
<1>6. CASE FrameDone
  <2>1. UNCHANGED <<submitted, renderVars, sharedVars, presenterVars>>
    BY <1>6 DEF FrameDone, GpuDone
  <2> QED
    BY <1>1, <2>1 DEF RenderTypes, PublishedTypes, renderVars, sharedVars
<1> QED
  BY <1>3, <1>4, <1>5, <1>6

\* Every step keeps the types.
LEMMA TypesKept ==
  PresentationInv /\ PoolSound' /\ [PresentationNext]_presentationVars => PresentationTypeOK'
<1> SUFFICES ASSUME PresentationInv, PoolSound', [PresentationNext]_presentationVars
             PROVE  PresentationTypeOK'
  OBVIOUS
<1>1. PoolSound /\ PresentationTypeOK /\ CleanupsKept /\ DrawsForward /\ RoomToRender
  BY DEF PresentationInv, InUseInv
<1>2. PoolTypes'
  BY PoolTyped, PTL
<1>3. PoolTypes /\ RenderTypes /\ PublishedTypes /\ PresenterTypes
  BY <1>1, TypesTogether
<1>4. /\ PresentationTypeOK' <=> PoolTypes' /\ RenderTypes' /\ PublishedTypes' /\ PresenterTypes'
  BY TypesTogether, PTL
<1>5. ASSUME RenderTypes', PublishedTypes', UNCHANGED presenterVars, published <= published'
      PROVE  PresentationTypeOK'
  <2>1. published \in Nat /\ published' \in Nat
    <3>1. published \in 0 .. submitted /\ submitted \in Nat
      BY <1>3 DEF PublishedTypes, PoolTypes
    <3>2. published' \in 0 .. submitted' /\ submitted' \in Nat
      BY <1>2, <1>5 DEF PublishedTypes, PoolTypes
    <3> QED
      BY <3>1, <3>2
  <2> QED
    BY <1>2, <1>3, <1>4, <1>5, <2>1, LeasesStayTyped
<1>6. CASE RenderStep
  BY <1>1, <1>5, <1>6, RenderTyped
<1>7. CASE PresenterStep
  BY <1>1, <1>7, PresenterTyped
<1>8. CASE (\E t \in Runners : RunCompletion(t)) \/ PumpCollect \/ PumpDestroys \/ FrameDone
  BY <1>1, <1>5, <1>8, RestTyped
<1>9. CASE BlitDone \/ DeviceLoss \/ Quiet \/ UNCHANGED presentationVars
  <2>1. /\ UNCHANGED <<submitted, renderVars, sharedVars, presenter, frameSlot, drawn, slots>>
        /\ blitting' \subseteq blitting
    BY <1>9 DEF BlitDone, DeviceLoss, LoseDevice, Quiet, presentationVars, presenterVars,
                deliveryVars
  <2>2. RenderTypes' /\ PublishedTypes'
    BY <1>3, <2>1 DEF RenderTypes, PublishedTypes, renderVars, sharedVars
  <2>3. PresenterTypes'
    BY <1>3, <2>1 DEF PresenterTypes, sharedVars
  <2> QED
    BY <1>2, <1>4, <2>2, <2>3
<1> QED
  BY <1>6, <1>7, <1>8, <1>9 DEF PresentationNext

-----------------------------------------------------------------------------
(* Cleanups, slots and the presenter *)

\* A runner that takes completions takes the cleanups that come next.
LEMMA BatchTaken ==
  ASSUME PoolSound, PresentationTypeOK, CleanupsKept, NEW r \in Runners, NEW end, Take(r, end),
         batch' = [batch EXCEPT ![r] = (taken .. (end - 1)) \intersect cleanups]
  PROVE  /\ \A t \in Runners : batch'[t] \subseteq 1 .. (taken' - 1)
         /\ \A t, u \in Runners : t # u => batch'[t] \intersect batch'[u] = {}
         /\ UNCHANGED <<submitted, reading>>
<1>1. /\ taken \in Nat \ {0} /\ end \in Nat /\ taken <= end /\ taken' = end
      /\ UNCHANGED <<submitted, reading>>
  BY DEF Take, PoolSound
<1>2. \A t \in Runners : /\ batch[t] \subseteq 1 .. (taken - 1)
                         /\ t # r => batch'[t] = batch[t]
  BY DEF CleanupsKept, PresentationTypeOK
<1>3. batch'[r] = (taken .. (end - 1)) \intersect cleanups
  BY DEF PresentationTypeOK
<1>4. ASSUME NEW t \in Runners PROVE batch'[t] \subseteq 1 .. (taken' - 1)
  <2>1. CASE t = r
    BY <1>1, <1>3, <2>1
  <2>2. CASE t # r
    BY <1>1, <1>2, <2>2
  <2> QED
    BY <2>1, <2>2
<1>5. ASSUME NEW t \in Runners, t # r PROVE batch'[t] \intersect batch'[r] = {}
  BY <1>1, <1>2, <1>3, <1>5
<1>6. ASSUME NEW t \in Runners, NEW u \in Runners, t # u
      PROVE  batch'[t] \intersect batch'[u] = {}
  <2>1. CASE t # r /\ u # r
    BY <1>2, <1>6, <2>1 DEF CleanupsKept
  <2> QED
    BY <1>5, <1>6, <2>1
<1> QED
  BY <1>1, <1>4, <1>6

\* Cleanups are destroyed for frames that the GPU is done with.
LEMMA BatchDestroyed ==
  ASSUME PoolSound, PresentationTypeOK, CleanupsKept, NEW r \in Runners,
         cleanups' = cleanups \ batch[r], batch' = [batch EXCEPT ![r] = {}]
  PROVE  /\ \A t \in Runners : batch'[t] \subseteq 1 .. (taken - 1)
         /\ \A t, u \in Runners : t # u => batch'[t] \intersect batch'[u] = {}
         /\ \A n \in reading : n \in cleanups => n \in cleanups'
<1>1. \A t \in Runners : batch'[t] \subseteq batch[t]
  BY DEF PresentationTypeOK
<1>2. \A n \in reading : n \notin batch[r]
  BY DEF CleanupsKept, PoolSound
<1> QED
  BY <1>1, <1>2 DEF CleanupsKept

\* The queue of cleanups changes by the steps of the queue only.
LEMMA CleanupsStayKept ==
  PresentationInv /\ [PresentationNext]_presentationVars => CleanupsKept'
<1> SUFFICES ASSUME PresentationInv, [PresentationNext]_presentationVars
             PROVE  CleanupsKept'
  OBVIOUS
<1>1. PoolSound /\ PresentationTypeOK /\ CleanupsKept
  BY DEF PresentationInv, InUseInv
<1>2. Pump \in Runners /\ Render \in Runners
  BY PresentationRunners
<1>3. CASE Acquire
  <2>1. /\ \A t \in Runners : batch'[t] \subseteq 1 .. (taken' - 1)
        /\ \A t, u \in Runners : t # u => batch'[t] \intersect batch'[u] = {}
        /\ UNCHANGED <<submitted, reading>>
    BY <1>1, <1>2, <1>3, BatchTaken DEF Acquire
  <2>2. render = "idle" /\ render' = "callbacks" /\ UNCHANGED <<image, target, cleanups>>
    BY <1>3 DEF Acquire
  <2> QED
    BY <1>1, <2>1, <2>2 DEF CleanupsKept
<1>4. CASE PumpCollect
  <2>1. /\ \A t \in Runners : batch'[t] \subseteq 1 .. (taken' - 1)
        /\ \A t, u \in Runners : t # u => batch'[t] \intersect batch'[u] = {}
        /\ UNCHANGED <<submitted, reading>>
    BY <1>1, <1>2, <1>4, BatchTaken DEF PumpCollect
  <2>2. UNCHANGED <<render, image, target, cleanups>>
    BY <1>4 DEF PumpCollect
  <2> QED
    BY <1>1, <2>1, <2>2 DEF CleanupsKept
<1>5. CASE Acquired
  <2>1. /\ \A t \in Runners : batch'[t] \subseteq 1 .. (taken - 1)
        /\ \A t, u \in Runners : t # u => batch'[t] \intersect batch'[u] = {}
        /\ \A n \in reading : n \in cleanups => n \in cleanups'
    BY <1>1, <1>2, <1>5, BatchDestroyed DEF Acquired
  <2>2. /\ render = "callbacks" /\ render' \in {"record", "idle"}
        /\ UNCHANGED <<submitted, reading, taken, image, target>>
    BY <1>5 DEF Acquired, deliveryVars
  <2> QED
    BY <1>1, <2>1, <2>2 DEF CleanupsKept
<1>6. CASE PumpDestroys
  <2>1. /\ \A t \in Runners : batch'[t] \subseteq 1 .. (taken - 1)
        /\ \A t, u \in Runners : t # u => batch'[t] \intersect batch'[u] = {}
        /\ \A n \in reading : n \in cleanups => n \in cleanups'
    BY <1>1, <1>2, <1>6, BatchDestroyed DEF PumpDestroys
  <2>2. UNCHANGED <<submitted, reading, taken, render, image, target>>
    BY <1>6 DEF PumpDestroys, deliveryVars
  <2> QED
    BY <1>1, <2>1, <2>2 DEF CleanupsKept
<1>7. CASE SubmitDeferred \/ SubmitAndWait
  <2>1. /\ submitted' = submitted + 1 /\ target' = Append(target, image)
        /\ reading' \subseteq reading \union {submitted + 1} /\ UNCHANGED <<taken, batch>>
        /\ \/ /\ cleanups' = cleanups \union {submitted + 1} /\ render' = "idle"
              /\ image' = NoImage
           \/ cleanups' = cleanups /\ render' = "await" /\ image' = image
    BY <1>7 DEF SubmitDeferred, SubmitAndWait, SubmitToPool
  <2>2. reading \subseteq cleanups
    BY <1>1, <1>7 DEF SubmitDeferred, SubmitAndWait, CleanupsKept
  <2>3. target'[submitted'] = image /\ submitted' \in 1 .. submitted'
    BY <1>1, <2>1 DEF PresentationTypeOK
  <2> QED
    BY <1>1, <2>1, <2>2, <2>3 DEF CleanupsKept
<1>8. CASE AwaitDone
  <2>1. submitted \notin reading
    BY <1>1, <1>8 DEF AwaitDone, PoolSound
  <2>2. /\ UNCHANGED <<submitted, reading, taken, target, cleanups, batch>>
        /\ render' = "idle" /\ image' = NoImage
    BY <1>8 DEF AwaitDone, deliveryVars
  <2> QED
    BY <1>1, <2>1, <2>2 DEF CleanupsKept
<1>9. CASE Record \/ SkipScanout \/ Abandon \/ BeginGrow \/ Grow
  <2>1. /\ UNCHANGED <<submitted, reading, taken, target, cleanups, batch>>
        /\ render \notin {"await"} /\ render' \notin {"await"}
        /\ render' = "recorded" \/ image' = NoImage
    BY <1>1, <1>9
       DEF Record, SkipScanout, Abandon, BeginGrow, Grow, deliveryVars, CleanupsKept
  <2> QED
    BY <1>1, <2>1 DEF CleanupsKept
<1>10. CASE \/ \E t \in Runners : RunCompletion(t)
            \/ FrameDone \/ DeviceLoss \/ BlitDone \/ PresenterStep \/ Quiet
            \/ UNCHANGED presentationVars
  <2>1. /\ reading' \subseteq reading /\ UNCHANGED <<submitted, taken>> /\ UNCHANGED renderVars
    BY <1>10, PresenterLeavesPool
       DEF RunCompletion, Run, FrameDone, GpuDone, DeviceLoss, LoseDevice, BlitDone, Quiet,
           presentationVars, deliveryVars
  <2> QED
    BY <1>1, <2>1 DEF CleanupsKept, renderVars
<1> QED
  BY <1>3, <1>4, <1>5, <1>6, <1>7, <1>8, <1>9, <1>10 DEF PresentationNext, RenderStep

\* Only the render thread submits, so the room it has found stays.
LEMMA RoomStays == PresentationInv /\ [PresentationNext]_presentationVars => RoomToRender'
<1> SUFFICES ASSUME PresentationInv, [PresentationNext]_presentationVars
             PROVE  RoomToRender'
  OBVIOUS
<1>1. PoolSound /\ PresentationTypeOK /\ RoomToRender
  BY DEF PresentationInv, InUseInv
<1>2. IsFiniteSet(reading) /\ Cardinality(reading) \in Nat
  <2>1. reading \subseteq 1 .. submitted /\ submitted \in Nat
    BY <1>1 DEF PresentationTypeOK
  <2>2. IsFiniteSet(1 .. submitted)
    BY <2>1, FS_Interval
  <2> QED
    BY <2>1, <2>2, FS_Subset, FS_CardinalityType
<1>3. ASSUME NEW S, S \subseteq reading
      PROVE  Cardinality(S) \in Nat /\ Cardinality(S) <= Cardinality(reading)
  BY <1>2, <1>3, FS_Subset, FS_CardinalityType
<1>4. CASE RenderStep
  <2>1. CASE Acquire
    BY <2>1 DEF Acquire, Take, RoomToRender
  <2>2. CASE BeginGrow
    BY <2>2 DEF BeginGrow, RoomToRender
  <2>3. CASE Acquired
    BY <1>1, <2>3 DEF Acquired, RoomToRender, deliveryVars
  <2>4. CASE \/ Record \/ SkipScanout \/ Abandon \/ SubmitDeferred
             \/ SubmitAndWait \/ AwaitDone \/ Grow
    BY <2>4 DEF Record, SkipScanout, Abandon, SubmitDeferred, SubmitAndWait, AwaitDone, Grow,
                RoomToRender
  <2> QED
    BY <1>4, <2>1, <2>2, <2>3, <2>4 DEF RenderStep
<1>5. CASE ~RenderStep
  <2>1. reading' \subseteq reading /\ UNCHANGED <<render, pool>>
    <3>1. CASE PresenterStep
      BY <3>1, PresenterLeavesPool DEF deliveryVars, renderVars
    <3>2. CASE PumpCollect
      BY <3>2 DEF PumpCollect, Take
    <3>3. CASE ~PresenterStep /\ ~PumpCollect
      BY <1>5, <3>3
         DEF PresentationNext, RunCompletion, Run, PumpDestroys, FrameDone, GpuDone, DeviceLoss,
             LoseDevice, BlitDone, Quiet, presentationVars, deliveryVars, renderVars
    <3> QED
      BY <3>1, <3>2, <3>3
  <2>2. Cardinality(reading') \in Nat /\ Cardinality(reading') <= Cardinality(reading)
    BY <1>3, <2>1
  <2> QED
    BY <1>1, <1>2, <2>1, <2>2, PresentationAssumption DEF RoomToRender
<1> QED
  BY <1>4, <1>5

\* The presenter draws into a slot it has released.
LEMMA DrawsStayForward == PresentationInv /\ [PresentationNext]_presentationVars => DrawsForward'
<1> SUFFICES ASSUME PresentationInv, [PresentationNext]_presentationVars
             PROVE  DrawsForward'
  OBVIOUS
<1>1. PresentationTypeOK /\ DrawsForward
  BY DEF PresentationInv, InUseInv
<1>2. Slot \in PresentSlots /\ frameSlot \in PresentSlots
  BY <1>1, SlotInRange DEF PresentationTypeOK
<1>3. CASE BeginPresent
  <2>1. /\ frameSlot' = (frameSlot + 1) % PresenterSlots
        /\ slots' = [slots EXCEPT ![frameSlot] = Unused]
        /\ UNCHANGED <<drawn, presented, lost, blitting>>
        /\ presenter = "begin"
    BY <1>3 DEF BeginPresent, deliveryVars, sharedVars
  <2>2. Slot' = frameSlot
    BY <1>2, <2>1, SlotTaken DEF Slot
  <2>3. slots'[Slot'] = Unused
    BY <1>1, <1>2, <2>1, <2>2 DEF PresentationTypeOK
  <2> QED
    BY <1>1, <2>1, <2>3 DEF DrawsForward
<1>4. CASE RecordLatest
  <2>1. /\ presenter = "record" /\ presenter' = "submit"
        /\ UNCHANGED <<frameSlot, slots, lost, blitting>>
        /\ \/ /\ shared.frame = published /\ presented' = shared.frame
              /\ drawn' \in {shared, NoFrame}
           \/ UNCHANGED <<presented, drawn>>
    BY <1>4 DEF RecordLatest, deliveryVars
  <2>2. Slot' = Slot
    BY <2>1 DEF Slot
  <2>3. drawn = NoFrame
    BY <1>1, <2>1 DEF DrawsForward
  <2>4. drawn' # NoFrame => drawn'.frame >= presented'
    BY <1>1, <2>1, <2>3 DEF PresentationTypeOK
  <2> QED
    BY <1>1, <2>1, <2>2, <2>4 DEF DrawsForward
<1>5. CASE CloseWindow \/ SubmitFails \/ Capture \/ Flip \/ Rebuild
  <2>1. /\ presenter' \notin {"record", "submit"} /\ UNCHANGED <<presented, lost, blitting>>
        /\ drawn' = NoFrame \/ (drawn' = drawn /\ presenter # "submit")
    BY <1>5 DEF CloseWindow, SubmitFails, Capture, Flip, Rebuild, deliveryVars, sharedVars
  <2> QED
    BY <1>1, <2>1 DEF DrawsForward
<1>6. CASE SubmitBlit
  BY <1>6 DEF SubmitBlit, DrawsForward, deliveryVars
<1>7. CASE ~PresenterStep
  <2>1. /\ UNCHANGED <<presented, presenter, frameSlot, drawn, slots>>
        /\ blitting' \subseteq blitting /\ (lost' => lost \/ blitting' = {})
    <3>1. CASE RenderStep
      BY <3>1 DEF RenderStep, Acquire, Take, Acquired, Record, SkipScanout, Abandon,
                  SubmitDeferred, SubmitAndWait, SubmitToPool, AwaitDone, BeginGrow, Grow,
                  deliveryVars, sharedVars, presenterVars
    <3>2. CASE ~RenderStep
      BY <1>7, <3>2
         DEF PresentationNext, RunCompletion, Run, PumpCollect, Take, PumpDestroys, FrameDone,
             GpuDone, DeviceLoss, LoseDevice, BlitDone, Quiet, presentationVars, deliveryVars,
             sharedVars, presenterVars
    <3> QED
      BY <3>1, <3>2
  <2>2. Slot' = Slot
    BY <2>1 DEF Slot
  <2> QED
    BY <1>1, <2>1, <2>2 DEF DrawsForward
<1> QED
  BY <1>3, <1>4, <1>5, <1>6, <1>7 DEF PresenterStep

-----------------------------------------------------------------------------
(* Images *)

\* Only a frame's submission writes into an image.
LEMMA TargetGrows ==
  PresentationTypeOK /\ [PresentationNext]_presentationVars =>
    \/ UNCHANGED <<submitted, target>>
    \/ /\ render = "recorded" /\ submitted' = submitted + 1 /\ target' = Append(target, image)
       /\ UNCHANGED <<sharedVars, presenterVars>>
       /\ cleanups' \in {cleanups, cleanups \union {submitted + 1}}
<1> SUFFICES ASSUME PresentationTypeOK, [PresentationNext]_presentationVars,
                    ~UNCHANGED <<submitted, target>>
             PROVE  /\ render = "recorded" /\ submitted' = submitted + 1
                    /\ target' = Append(target, image)
                    /\ UNCHANGED <<sharedVars, presenterVars>>
                    /\ cleanups' \in {cleanups, cleanups \union {submitted + 1}}
  OBVIOUS
<1>1. CASE RenderStep
  BY <1>1 DEF RenderStep, Acquire, Take, Acquired, Record, SkipScanout, Abandon,
              SubmitDeferred, SubmitAndWait, SubmitToPool, AwaitDone, BeginGrow, Grow,
              deliveryVars
<1>2. CASE PresenterStep
  BY <1>2, PresenterLeavesPool DEF deliveryVars, renderVars
<1>3. CASE ~RenderStep /\ ~PresenterStep
  BY <1>3 DEF PresentationNext, RunCompletion, Run, PumpCollect, Take, PumpDestroys, FrameDone,
              GpuDone, DeviceLoss, LoseDevice, BlitDone, Quiet, presentationVars, deliveryVars,
              renderVars
<1> QED
  BY <1>1, <1>2, <1>3

\* A frame stays the last writer of its image unless that image is the one recorded.
LEMMA WriterStays ==
  ASSUME PresentationTypeOK, [PresentationNext]_presentationVars,
         NEW n \in 1 .. submitted, LatestWriter(n),
         render = "recorded" /\ image # NoImage => target[n] # image
  PROVE  LatestWriter(n)' /\ target'[n] = target[n]
<1>1. CASE UNCHANGED <<submitted, target>>
  BY <1>1 DEF LatestWriter
<1>2. CASE /\ render = "recorded" /\ submitted' = submitted + 1
           /\ target' = Append(target, image)
  <2>1. /\ target'[submitted + 1] = image
        /\ \A m \in 1 .. submitted : target'[m] = target[m]
    <3>1. target \in Seq(Nat) /\ image \in Nat /\ Len(target) = submitted
      BY DEF PresentationTypeOK
    <3> QED
      BY <1>2, <3>1
  <2>2. ASSUME target[n] # NoImage, NEW m \in (n + 1) .. (submitted + 1)
        PROVE  target'[m] # target[n]
    <3>1. CASE m = submitted + 1
      BY <1>2, <2>1, <2>2, <3>1
    <3>2. CASE m \in (n + 1) .. submitted
      <4>1. m \in 1 .. submitted
        BY <3>2
      <4> QED
        BY <2>1, <2>2, <3>2, <4>1 DEF LatestWriter
    <3>3. submitted \in Nat
      BY DEF PresentationTypeOK
    <3> QED
      BY <3>1, <3>2, <3>3
  <2> QED
    BY <1>2, <2>1, <2>2 DEF LatestWriter
<1> QED
  BY <1>1, <1>2, TargetGrows

\* The lease a completion publishes.
JustPublished(lease) ==
  \E frame \in 1 .. submitted :
    /\ lease = [image |-> target[frame], frame |-> frame]
    /\ target[frame] # NoImage /\ frame \in succeeded'
    /\ frame \in cleanups \/ (render = "await" /\ frame = submitted)

\* Every lease that is shown was shown before, or has just been published.
LEMMA LeasesComeFrom ==
  PresentationInv /\ [PresentationNext]_presentationVars =>
    \A lease \in ShownLeases' :
      lease \in ShownLeases \/ lease = NoFrame \/ JustPublished(lease)
<1> SUFFICES ASSUME PresentationInv, [PresentationNext]_presentationVars,
                    NEW lease \in ShownLeases'
             PROVE  lease \in ShownLeases \/ lease = NoFrame \/ JustPublished(lease)
  OBVIOUS
<1>1. PoolSound /\ PresentationTypeOK /\ CleanupsKept
  BY DEF PresentationInv, InUseInv
<1>2. /\ lease \in {shared', drawn'} \/ \E s \in PresentSlots : lease = slots'[s].lease
      /\ shared \in ShownLeases /\ drawn \in ShownLeases
      /\ \A s \in PresentSlots : slots[s].lease \in ShownLeases
      /\ slots = [s \in PresentSlots |-> slots[s]]
  BY <1>1 DEF ShownLeases, PresentationTypeOK
<1>3. CASE RenderStep
  <2>1. UNCHANGED <<drawn, slots>>
    BY <1>3 DEF RenderStep, Acquire, Acquired, Record, SkipScanout, Abandon, SubmitDeferred,
                SubmitAndWait, AwaitDone, BeginGrow, Grow, presenterVars
  <2>2. CASE AwaitDone
    <3>1. CASE /\ submitted \in succeeded /\ image # NoImage
               /\ shared' = [image |-> image, frame |-> submitted]
      <4>1. JustPublished(shared')
        <5>1. submitted \in 1 .. submitted /\ target[submitted] = image /\ render = "await"
          BY <1>1, <2>2 DEF AwaitDone, CleanupsKept
        <5>2. succeeded' = succeeded
          BY <2>2 DEF AwaitDone, deliveryVars
        <5> QED
          BY <3>1, <5>1, <5>2 DEF JustPublished
      <4> QED
        BY <1>2, <2>1, <4>1
    <3>2. CASE shared' = shared
      BY <1>2, <2>1, <3>2
    <3> QED
      BY <2>2, <3>1, <3>2 DEF AwaitDone, Publish
  <2>3. CASE ~AwaitDone
    <3>1. shared' \in {shared, NoFrame}
      BY <1>3, <2>3 DEF RenderStep, Acquire, Acquired, Record, SkipScanout, Abandon,
                        SubmitDeferred, SubmitAndWait, BeginGrow, Grow, sharedVars
    <3> QED
      BY <1>2, <2>1, <3>1
  <2> QED
    BY <2>2, <2>3
<1>4. ASSUME NEW t \in Runners, RunCompletion(t)
      PROVE  lease \in ShownLeases \/ lease = NoFrame \/ JustPublished(lease)
  <2>1. UNCHANGED <<drawn, slots>>
    BY <1>4 DEF RunCompletion, presenterVars
  <2> DEFINE frame == held[t].next
  <2>2. CASE held[t].ok /\ frame \in cleanups /\ target[frame] # NoImage
             /\ shared' = [image |-> target[frame], frame |-> frame]
    <3>1. frame \in succeeded'
      BY <1>4, <2>2 DEF RunCompletion, Run
    <3>2. frame \in 1 .. submitted
      BY <1>1, <2>2 DEF PresentationTypeOK
    <3>3. JustPublished(shared')
      BY <2>2, <3>1, <3>2 DEF JustPublished
    <3> QED
      BY <1>2, <2>1, <3>3
  <2>3. CASE shared' = shared
    BY <1>2, <2>1, <2>3
  <2> QED
    BY <1>4, <2>2, <2>3 DEF RunCompletion, Publish
<1>5. CASE PresenterStep
  <2>1. /\ shared' = shared /\ Unused.lease = NoFrame /\ Slot \in PresentSlots
        /\ drawn' \in {drawn, shared, NoFrame}
    BY <1>1, <1>5, SlotInRange
       DEF Unused, PresenterStep, CloseWindow, BeginPresent, RecordLatest, SubmitBlit,
           SubmitFails, Capture, Flip, Rebuild, sharedVars
  <2>2. ASSUME NEW s \in PresentSlots
        PROVE  slots'[s].lease \in {slots[s].lease, drawn, NoFrame}
    <3>1. CASE SubmitBlit
      BY <1>2, <2>1, <3>1 DEF SubmitBlit
    <3>2. CASE BeginPresent
      BY <1>2, <2>1, <3>2 DEF BeginPresent
    <3>3. CASE Capture
      BY <1>2, <2>1, <3>3 DEF Capture, AllReleased
    <3>4. CASE Rebuild
      BY <2>1, <3>4 DEF Rebuild, AllReleased
    <3>5. CASE CloseWindow \/ RecordLatest \/ SubmitFails \/ Flip
      BY <3>5 DEF CloseWindow, RecordLatest, SubmitFails, Flip
    <3> QED
      BY <1>5, <3>1, <3>2, <3>3, <3>4, <3>5 DEF PresenterStep
  <2> QED
    BY <1>2, <2>1, <2>2
<1>6. CASE \/ PumpCollect \/ PumpDestroys \/ FrameDone \/ BlitDone \/ DeviceLoss \/ Quiet
           \/ UNCHANGED presentationVars
  <2>1. UNCHANGED <<shared, drawn, slots>>
    BY <1>6 DEF PumpCollect, PumpDestroys, FrameDone, BlitDone, DeviceLoss, Quiet,
                presentationVars, sharedVars, presenterVars
  <2> QED
    BY <1>2, <2>1
<1> QED
  BY <1>3, <1>4, <1>5, <1>6 DEF PresentationNext

\* A cleanup is a frame's that was one before, or has just been submitted.
LEMMA CleanupsComeFrom ==
  ASSUME PresentationTypeOK, [PresentationNext]_presentationVars, NEW n \in cleanups',
         n \notin cleanups
  PROVE  n = submitted + 1 /\ submitted' = submitted + 1
<1>1. CASE RenderStep
  BY <1>1 DEF RenderStep, Acquire, Acquired, Record, SkipScanout, Abandon, SubmitDeferred,
              SubmitToPool, SubmitAndWait, AwaitDone, BeginGrow, Grow
<1>2. CASE PresenterStep
  BY <1>2, PresenterLeavesPool DEF renderVars
<1>3. CASE ~RenderStep /\ ~PresenterStep
  BY <1>3 DEF PresentationNext, RunCompletion, PumpCollect, PumpDestroys, FrameDone, DeviceLoss,
              BlitDone, Quiet, presentationVars, renderVars
<1> QED
  BY <1>1, <1>2, <1>3

\* A recorded image stays where it is until its frame is submitted or given up.
LEMMA RecordedFrom ==
  ASSUME CleanupsKept, [PresentationNext]_presentationVars, ~Record, render' = "recorded",
         image' # NoImage
  PROVE  /\ render = "recorded" /\ image' = image /\ UNCHANGED <<submitted, target>>
         /\ cleanups' \subseteq cleanups
<1>1. CASE RenderStep
  BY <1>1 DEF RenderStep, Acquire, Acquired, SkipScanout, Abandon, SubmitDeferred,
              SubmitAndWait, AwaitDone, BeginGrow, Grow, CleanupsKept
<1>2. CASE PresenterStep
  BY <1>2, PresenterLeavesPool DEF renderVars, deliveryVars
<1>3. CASE ~RenderStep /\ ~PresenterStep
  BY <1>3 DEF PresentationNext, RunCompletion, Run, PumpCollect, Take, PumpDestroys, FrameDone,
              GpuDone, DeviceLoss, LoseDevice, BlitDone, Quiet, presentationVars, deliveryVars,
              renderVars
<1> QED
  BY <1>1, <1>2, <1>3

\* A lease that has just been published names its content.
LEMMA PublishedNames ==
  ASSUME PresentationInv, [PresentationNext]_presentationVars, NEW lease, JustPublished(lease)
  PROVE  NamesItsContent(lease)' /\ ~(render = "recorded" /\ lease.image = image /\ image # NoImage)
<1>1. PresentationTypeOK /\ RecordsAlone /\ CleanupsKept /\ \A n \in cleanups : LatestWriter(n)
  BY DEF PresentationInv, InUseInv
<1>2. PICK frame \in 1 .. submitted :
        /\ lease = [image |-> target[frame], frame |-> frame]
        /\ target[frame] # NoImage /\ frame \in succeeded'
        /\ frame \in cleanups \/ (render = "await" /\ frame = submitted)
  BY DEF JustPublished
<1>3. LatestWriter(frame)
  BY <1>1, <1>2 DEF LatestWriter, PresentationTypeOK
<1>4. render = "recorded" /\ image # NoImage => target[frame] # image
  BY <1>1, <1>2 DEF RecordsAlone
<1>5. LatestWriter(frame)' /\ target'[frame] = target[frame]
  BY <1>1, <1>3, <1>4, WriterStays
<1>6. lease.image = target[frame] /\ lease.frame = frame
  BY <1>2
<1> QED
  BY <1>2, <1>4, <1>5, <1>6 DEF NamesItsContent

\* Leases and cleanups keep naming the last writers of their images.
LEMMA NamesStay ==
  PresentationInv /\ [PresentationNext]_presentationVars =>
    /\ (\A n \in cleanups : LatestWriter(n))'
    /\ (\A lease \in ShownLeases : NamesItsContent(lease))'
<1> SUFFICES ASSUME PresentationInv, [PresentationNext]_presentationVars
             PROVE  /\ (\A n \in cleanups : LatestWriter(n))'
                    /\ (\A lease \in ShownLeases : NamesItsContent(lease))'
  OBVIOUS
<1>1. /\ PoolSound /\ PresentationTypeOK /\ RecordsAlone
      /\ \A n \in cleanups : LatestWriter(n)
      /\ \A lease \in ShownLeases : NamesItsContent(lease)
  BY DEF PresentationInv, InUseInv
<1>2. cleanups \subseteq 1 .. submitted /\ submitted \in Nat /\ Delivered \subseteq 1 .. submitted
  BY <1>1 DEF PresentationTypeOK
<1>3. ASSUME NEW n \in cleanups' PROVE LatestWriter(n)'
  <2>1. CASE n \in cleanups
    <3>1. LatestWriter(n) /\ n \in 1 .. submitted
      BY <1>1, <1>2, <2>1
    <3>2. render = "recorded" /\ image # NoImage => target[n] # image
      BY <1>1, <2>1 DEF RecordsAlone
    <3> QED
      BY <1>1, <3>1, <3>2, WriterStays
  <2>2. CASE n \notin cleanups
    <3>1. n = submitted + 1 /\ submitted' = submitted + 1
      BY <1>1, <1>3, <2>2, CleanupsComeFrom
    <3> QED
      BY <1>2, <3>1 DEF LatestWriter
  <2> QED
    BY <2>1, <2>2
<1>4. ASSUME NEW lease \in ShownLeases' PROVE NamesItsContent(lease)'
  <2>1. CASE lease \in ShownLeases /\ lease # NoFrame
    <3>1. /\ lease.frame \in succeeded /\ lease.image # NoImage
          /\ target[lease.frame] = lease.image /\ LatestWriter(lease.frame)
      BY <1>1, <2>1 DEF NamesItsContent
    <3>2. lease.frame \in 1 .. submitted
      BY <1>2, <3>1 DEF Delivered
    <3>3. render = "recorded" /\ image # NoImage => lease.image # image
      BY <1>1, <2>1 DEF RecordsAlone
    <3>4. LatestWriter(lease.frame)' /\ target'[lease.frame] = target[lease.frame]
      BY <1>1, <3>1, <3>2, <3>3, WriterStays
    <3>5. lease.frame \in succeeded'
      BY <1>1, <3>1, StepOfPool, PoolGrows
    <3> QED
      BY <3>1, <3>4, <3>5 DEF NamesItsContent
  <2>2. CASE lease = NoFrame
    BY <2>2 DEF NamesItsContent
  <2>3. CASE JustPublished(lease)
    BY <2>3, PublishedNames
  <2> QED
    BY <2>1, <2>2, <2>3, LeasesComeFrom
<1> QED
  BY <1>3, <1>4

\* The image being recorded stays without another lease.
LEMMA RecordingStaysAlone ==
  PresentationInv /\ [PresentationNext]_presentationVars => RecordsAlone'
<1> SUFFICES ASSUME PresentationInv, [PresentationNext]_presentationVars,
                    render' = "recorded", image' # NoImage
             PROVE  /\ \A n \in cleanups' : target'[n] # image'
                    /\ \A lease \in ShownLeases' : lease.image # image'
  BY DEF RecordsAlone
<1>1. /\ PoolSound /\ PresentationTypeOK /\ RecordsAlone /\ CleanupsKept
  BY DEF PresentationInv, InUseInv
<1>2. CASE Record
  <2>1. /\ Offsets # {}
        /\ LET offset == CHOOSE o \in Offsets : \A p \in Offsets : o <= p
           IN image' = Image((nextImage + offset) % ImageCount)
        /\ UNCHANGED <<target, cleanups, shared, drawn, slots>>
    BY <1>2 DEF Record, sharedVars, presenterVars
  <2>2. image' \notin Leased
    <3>1. \E o \in Offsets : \A p \in Offsets : o <= p
      <4>1. Offsets \subseteq Nat
        BY PresentationAssumption DEF Offsets
      <4> QED
        BY <2>1, <4>1, SmallestExists
    <3> DEFINE offset == CHOOSE o \in Offsets : \A p \in Offsets : o <= p
    <3>2. offset \in Offsets
      BY <3>1
    <3> QED
      BY <2>1, <3>2 DEF Offsets
  <2> QED
    BY <2>1, <2>2 DEF Leased, ShownLeases
<1>3. CASE ~Record
  <2>1. render = "recorded" /\ image' = image /\ UNCHANGED <<submitted, target>>
        /\ cleanups' \subseteq cleanups
    BY <1>1, <1>3, RecordedFrom
  <2>2. /\ \A n \in cleanups : target[n] # image
        /\ \A lease \in ShownLeases : lease.image # image
    BY <1>1, <2>1 DEF RecordsAlone
  <2>3. ASSUME NEW lease \in ShownLeases' PROVE lease.image # image
    <3>1. CASE lease = NoFrame
      BY <2>1, <3>1 DEF NoFrame
    <3>2. CASE JustPublished(lease)
      BY <2>1, <3>2, PublishedNames
    <3> QED
      BY <2>2, <3>1, <3>2, LeasesComeFrom
  <2> QED
    BY <2>1, <2>2, <2>3
<1> QED
  BY <1>2, <1>3

-----------------------------------------------------------------------------
(* The invariant holds *)

\* At first nothing is in use.
LEMMA PresentationInitially == PresentationInit => PresentationInv
<1> SUFFICES ASSUME PresentationInit PROVE PresentationInv
  OBVIOUS
<1>1. PoolSound
  BY PoolInitially DEF PresentationInit
<1>2. /\ NoFrame \in [image : Nat, frame : 0 .. 0] /\ Unused.lease = NoFrame
      /\ Unused \in [lease : [image : Nat, frame : 0 .. 0], submitted : BOOLEAN]
  BY NoFrameTyped
<1>3. PoolTypes
  BY <1>1, PoolTyped
<1>4. RenderTypes
  BY PresentationAssumption DEF PresentationInit, RenderTypes, DeliveryInit, NoImage
<1>5. PublishedTypes
  BY <1>2 DEF PresentationInit, PublishedTypes, DeliveryInit
<1>6. PresenterTypes
  BY <1>2, PresentationAssumption DEF PresentationInit, PresenterTypes, PresentSlots
<1>7. PresentationTypeOK
  BY <1>3, <1>4, <1>5, <1>6, TypesTogether
<1>8. ShownLeases = {NoFrame} /\ cleanups = {} /\ render = "idle"
  BY <1>2, PresentationAssumption DEF PresentationInit, ShownLeases, PresentSlots
<1>9. CleanupsKept
  BY PresentationAssumption DEF PresentationInit, DeliveryInit, CleanupsKept
<1>10. DrawsForward /\ RoomToRender
  BY DEF PresentationInit, DrawsForward, RoomToRender
<1> QED
  BY <1>1, <1>7, <1>8, <1>9, <1>10
     DEF PresentationInv, InUseInv, NamesItsContent, RecordsAlone

\* Every step of the renderer, of the completions and of the presenter keeps it.
LEMMA PresentationKept == PresentationInv /\ [PresentationNext]_presentationVars => PresentationInv'
<1> SUFFICES ASSUME PresentationInv, [PresentationNext]_presentationVars PROVE PresentationInv'
  OBVIOUS
<1>1. PoolSound'
  <2>1. PoolSound
    BY DEF PresentationInv
  <2> QED
    BY <2>1, StepOfPool, PoolKept
<1>2. PresentationTypeOK'
  BY <1>1, TypesKept
<1>3. CleanupsKept' /\ RoomToRender' /\ DrawsForward' /\ RecordsAlone'
  BY CleanupsStayKept, RoomStays, DrawsStayForward, RecordingStaysAlone
<1>4. /\ (\A n \in cleanups : LatestWriter(n))'
      /\ (\A lease \in ShownLeases : NamesItsContent(lease))'
  BY NamesStay
<1> QED
  BY <1>1, <1>2, <1>3, <1>4 DEF PresentationInv, InUseInv

\* So the invariant holds throughout.
LEMMA PresentationAlways == PresentationSpec => []PresentationInv
BY PresentationInitially, PresentationKept, PTL DEF PresentationSpec

\* Every variable of the renderer's images and of the presenter keeps its type.
THEOREM PresentationTypeCorrect == PresentationSpec => []PresentationTypeOK
<1>1. PresentationInv => PresentationTypeOK
  BY DEF PresentationInv
<1> QED
  BY <1>1, PresentationAlways, PTL

-----------------------------------------------------------------------------
(* What follows *)

\* A frame the GPU reads is the last writer of its image.
LEMMA ReadersWroteLast ==
  ASSUME PresentationInv, NEW n \in reading
  PROVE  LatestWriter(n) /\ n \in 1 .. submitted
<1>1. CleanupsKept /\ PresentationTypeOK /\ \A m \in cleanups : LatestWriter(m)
  BY DEF PresentationInv, InUseInv
<1>2. CASE n \in cleanups
  BY <1>1, <1>2 DEF PresentationTypeOK
<1>3. CASE n = submitted
  BY <1>1, <1>3 DEF LatestWriter, PresentationTypeOK
<1> QED
  BY <1>1, <1>2, <1>3 DEF CleanupsKept

\* However many frames, images and slots there are: no image the GPU may still write is written
\* for another frame, published or blitted (GpuScanout::Record, FrameCleanup, RecordLatest).
THEOREM NoImageOverwrittenInUse == PresentationSpec => []NoOverwriteInUse
<1>1. PresentationInv => NoOverwriteInUse
  <2> SUFFICES ASSUME PresentationInv PROVE NoOverwriteInUse
    OBVIOUS
  <2>1. /\ PoolSound /\ PresentationTypeOK
        /\ \A lease \in ShownLeases : NamesItsContent(lease)
    BY DEF PresentationInv, InUseInv
  <2>2. submitted \in Nat /\ taken \in 1 .. (submitted + 1) /\ reading \subseteq taken .. submitted
    BY <2>1 DEF PoolSound
  <2>3. ASSUME NEW n \in reading, NEW m \in reading, n < m, target[n] # NoImage
        PROVE  target[n] # target[m]
    <3>1. LatestWriter(n) /\ m \in (n + 1) .. submitted
      BY <2>2, <2>3, ReadersWroteLast
    <3> QED
      BY <2>3, <3>1 DEF LatestWriter
  <2>4. ASSUME NEW n \in reading, NEW m \in reading, n # m, target[n] = target[m]
        PROVE  target[n] = NoImage
    <3>1. n < m \/ m < n
      BY <2>2, <2>4
    <3> QED
      BY <2>3, <2>4, <3>1
  <2>5. ASSUME NEW n \in reading, NEW lease \in ShownLeases, target[n] # NoImage
        PROVE  lease.image # target[n]
    <3>1. CASE lease = NoFrame
      BY <2>5, <3>1 DEF NoFrame
    <3>2. CASE lease # NoFrame
      <4>1. /\ lease.frame \in succeeded /\ target[lease.frame] = lease.image
            /\ lease.image # NoImage /\ LatestWriter(lease.frame)
        BY <2>1, <3>2 DEF NamesItsContent
      <4>2. lease.frame \in 1 .. (taken - 1)
        BY <2>1, <4>1 DEF PoolSound, Delivered
      <4>3. n \in (lease.frame + 1) .. submitted
        BY <2>2, <4>2
      <4> QED
        BY <4>1, <4>3 DEF LatestWriter
    <3> QED
      BY <3>1, <3>2
  <2>6. \A img \in {shared.image, drawn.image} \union {slots[s].lease.image : s \in blitting} :
          \E lease \in ShownLeases : img = lease.image
    BY <2>1 DEF ShownLeases, PresentationTypeOK
  <2> QED
    BY <2>4, <2>5, <2>6 DEF NoOverwriteInUse, Writing
<1> QED
  BY <1>1, PresentationAlways, PTL

\* However many frames there are: what is published, drawn or blitted is a frame that was
\* completed, and its image still holds that frame.
THEOREM EveryLeaseShowsItsFrame == PresentationSpec => []ShowsWhatItNames
<1>1. PresentationInv => ShowsWhatItNames
  <2> SUFFICES ASSUME PresentationInv,
                      NEW lease \in {shared, drawn} \union {slots[s].lease : s \in blitting},
                      lease # NoFrame
               PROVE  lease.frame \in succeeded /\ Content(lease.image) = lease.frame
    BY DEF ShowsWhatItNames
  <2>1. PresentationTypeOK /\ NamesItsContent(lease)
    BY DEF PresentationInv, InUseInv, ShownLeases, PresentationTypeOK
  <2>2. /\ lease.frame \in succeeded /\ target[lease.frame] = lease.image
        /\ lease.image # NoImage /\ LatestWriter(lease.frame)
    BY <2>1 DEF NamesItsContent
  <2>3. lease.frame \in 1 .. submitted /\ submitted \in Nat
    BY <2>1, <2>2 DEF PresentationTypeOK, Delivered
  <2> DEFINE writers == {n \in 1 .. submitted : target[n] = lease.image}
             last == CHOOSE n \in writers : \A m \in writers : m <= n
  <2>4. lease.frame \in writers
    BY <2>2, <2>3
  <2>5. ASSUME NEW m \in writers PROVE m <= lease.frame
    <3>1. m \in (lease.frame + 1) .. submitted => target[m] # lease.image
      BY <2>2 DEF LatestWriter
    <3> QED
      BY <2>3, <3>1
  <2>6. last \in writers /\ lease.frame <= last
    BY <2>4, <2>5
  <2>7. last = lease.frame
    <3>1. last <= lease.frame /\ last \in Nat
      BY <2>5, <2>6
    <3> QED
      BY <2>3, <2>6, <3>1
  <2> QED
    BY <2>2, <2>7 DEF Content
<1> QED
  BY <1>1, PresentationAlways, PTL

\* In whatever order completions run: no frame is drawn that is older than one presented.
THEOREM PresenterNeverGoesBack == PresentationSpec => ShownNeverGoesBack
<1>1. PresentationInv /\ [PresentationNext]_presentationVars
        => [drawn' # NoFrame => drawn'.frame >= presented]_presentationVars
  <2> SUFFICES ASSUME PresentationInv, [PresentationNext]_presentationVars, drawn' # NoFrame
               PROVE  drawn'.frame >= presented
    OBVIOUS
  <2>1. PresentationTypeOK /\ DrawsForward
    BY DEF PresentationInv, InUseInv
  <2>2. CASE drawn' = drawn
    BY <2>1, <2>2 DEF DrawsForward
  <2>3. CASE drawn' # drawn
    <3>1. drawn' = shared /\ shared.frame = published
      <4>1. CASE RenderStep
        BY <2>3, <4>1 DEF RenderStep, Acquire, Acquired, Record, SkipScanout, Abandon,
             SubmitDeferred, SubmitAndWait, AwaitDone, BeginGrow, Grow, presenterVars
      <4>2. CASE PresenterStep
        BY <2>3, <4>2 DEF PresenterStep, CloseWindow, BeginPresent, RecordLatest, SubmitBlit,
             SubmitFails, Capture, Flip, Rebuild
      <4>3. CASE ~RenderStep /\ ~PresenterStep
        BY <2>3, <4>3 DEF PresentationNext, RunCompletion, PumpCollect, PumpDestroys, FrameDone,
             DeviceLoss, BlitDone, Quiet, presentationVars, presenterVars
      <4> QED
        BY <4>1, <4>2, <4>3
    <3> QED
      BY <2>1, <3>1 DEF PresentationTypeOK
  <2> QED
    BY <2>2, <2>3
<1> QED
  BY <1>1, PresentationAlways, PTL DEF PresentationSpec, ShownNeverGoesBack

\* The image of a finite set under a function is no larger.
LEMMA ImageNoLarger ==
  ASSUME NEW S, NEW R, NEW f \in [S -> R], R = {f[x] : x \in S}, IsFiniteSet(S)
  PROVE  IsFiniteSet(R) /\ Cardinality(R) <= Cardinality(S) /\ Cardinality(R) \in Nat
<1>1. f \in Surjection(S, R)
  BY DEF Surjection
<1> QED
  BY <1>1, FS_Surjection, FS_CardinalityType

\* Every image of the pool is tried once before a frame is refused.
LEMMA OffsetsDistinct ==
  ASSUME PresentationTypeOK, NEW o \in 0 .. (ImageCount - 1), NEW p \in 0 .. (ImageCount - 1),
         Image((nextImage + o) % ImageCount) = Image((nextImage + p) % ImageCount)
  PROVE  o = p
<1>1. ImageCount \in Nat \ {0} /\ nextImage \in 0 .. (ImageCount - 1) /\ pool \in Nat
  BY PresentationAssumption DEF PresentationTypeOK
<1> DEFINE Wrap(x) == (nextImage + x) % ImageCount
<1>2. ASSUME NEW x \in 0 .. (ImageCount - 1)
      PROVE  Wrap(x) = IF nextImage + x < ImageCount THEN nextImage + x
                       ELSE nextImage + x - ImageCount
  BY <1>1
<1>3. Wrap(o) = Wrap(p)
  <2>1. pool * ImageCount \in Nat
    BY <1>1
  <2>2. Wrap(o) \in Nat /\ Wrap(p) \in Nat
    BY <1>1
  <2> HIDE DEF Wrap
  <2>3. Image(Wrap(o)) = Image(Wrap(p))
    BY DEF Wrap
  <2> QED
    BY <2>1, <2>2, <2>3 DEF Image
<1> HIDE DEF Wrap
<1> QED
  BY <1>1, <1>2, <1>3

\* What leases there can be while the render thread looks for an image, and every cleanup left
\* is of a frame the GPU still reads.
LEMMA FewLeases ==
  ASSUME PresentationInv, render = "record", cleanups \subseteq reading
  PROVE  IsFiniteSet(Leased) /\ Cardinality(Leased) <= RendererSlots + PresenterSlots
<1>1. PresentationTypeOK /\ CleanupsKept /\ DrawsForward /\ RoomToRender
  BY DEF PresentationInv, InUseInv
<1> DEFINE Written == {target[n] : n \in cleanups}
           Shown == [s \in PresentSlots |-> IF s = Slot /\ drawn # NoFrame THEN drawn.image
                                            ELSE slots[s].lease.image]
           Kept == {Shown[s] : s \in PresentSlots}
<1>2. Leased \subseteq Written \union Kept \union {shared.image}
  <2> SUFFICES ASSUME NEW img \in Leased, img \notin Written, img # shared.image
               PROVE  img \in Kept
    OBVIOUS
  <2>1. image = NoImage /\ img # NoImage /\ NoFrame.image = NoImage
    BY <1>1 DEF CleanupsKept, Leased, NoFrame
  <2>2. CASE img = drawn.image
    <3>1. drawn # NoFrame /\ Slot \in PresentSlots
      BY <1>1, <2>1, <2>2, SlotInRange
    <3>2. Shown[Slot] = img
      BY <2>2, <3>1
    <3> QED
      BY <3>1, <3>2
  <2>3. CASE \E s \in PresentSlots : img = slots[s].lease.image
    <3>1. PICK s \in PresentSlots : img = slots[s].lease.image
      BY <2>3
    <3>2. s = Slot => drawn = NoFrame
      <4>1. drawn # NoFrame => slots[Slot].lease = NoFrame
        BY <1>1 DEF DrawsForward, Unused
      <4> QED
        BY <2>1, <3>1, <4>1
    <3>3. Shown[s] = img
      BY <3>1, <3>2
    <3> QED
      BY <3>3
  <2> QED
    BY <2>1, <2>2, <2>3 DEF Leased
<1>3. IsFiniteSet(Written) /\ Cardinality(Written) \in Nat /\ Cardinality(Written) < RendererSlots
  <2>1. IsFiniteSet(reading) /\ Cardinality(reading) \in Nat /\ Cardinality(reading) < RendererSlots
    <3>1. reading \subseteq 1 .. submitted /\ submitted \in Nat
      BY <1>1 DEF PresentationTypeOK
    <3>2. IsFiniteSet(1 .. submitted)
      BY <3>1, FS_Interval
    <3> QED
      BY <1>1, <3>1, <3>2, FS_Subset, FS_CardinalityType DEF RoomToRender
  <2>2. /\ IsFiniteSet(cleanups) /\ Cardinality(cleanups) \in Nat
        /\ Cardinality(cleanups) <= Cardinality(reading)
    BY <2>1, FS_Subset, FS_CardinalityType
  <2> DEFINE f == [n \in cleanups |-> target[n]]
  <2>3. f \in [cleanups -> Written] /\ Written = {f[n] : n \in cleanups}
    OBVIOUS
  <2> HIDE DEF f, Written
  <2>4. /\ IsFiniteSet(Written) /\ Cardinality(Written) \in Nat
        /\ Cardinality(Written) <= Cardinality(cleanups)
    BY <2>2, <2>3, ImageNoLarger
  <2> QED
    BY <2>1, <2>2, <2>4, PresentationAssumption
<1>4. IsFiniteSet(Kept) /\ Cardinality(Kept) \in Nat /\ Cardinality(Kept) <= PresenterSlots
  <2>1. IsFiniteSet(PresentSlots) /\ Cardinality(PresentSlots) = PresenterSlots
    BY FS_Interval, PresentationAssumption DEF PresentSlots
  <2>2. Shown \in [PresentSlots -> Kept] /\ Kept = {Shown[s] : s \in PresentSlots}
    OBVIOUS
  <2> HIDE DEF Shown, Kept
  <2> QED
    BY <2>1, <2>2, ImageNoLarger
<1> HIDE DEF Written, Kept
<1>5. /\ IsFiniteSet(Written \union Kept)
      /\ Cardinality(Written \union Kept) <= Cardinality(Written) + Cardinality(Kept)
      /\ Cardinality(Written \union Kept) \in Nat
  <2>1. Cardinality(Written \intersect Kept) \in Nat
    <3>1. Written \intersect Kept \in SUBSET Written
      OBVIOUS
    <3>2. IsFiniteSet(Written \intersect Kept)
      BY <1>3, <3>1, FS_Subset
    <3> QED
      BY <3>2, FS_CardinalityType
  <2>2. /\ IsFiniteSet(Written \union Kept)
        /\ Cardinality(Written \union Kept)
             = Cardinality(Written) + Cardinality(Kept) - Cardinality(Written \intersect Kept)
    BY <1>3, <1>4, FS_Union
  <2>3. Cardinality(Written \union Kept) \in Nat
    BY <2>2, FS_CardinalityType
  <2> QED
    BY <1>3, <1>4, <2>1, <2>2, <2>3
<1>6. /\ IsFiniteSet(Written \union Kept \union {shared.image})
      /\ Cardinality(Written \union Kept \union {shared.image})
           <= Cardinality(Written \union Kept) + 1
  BY <1>5, FS_AddElement
<1>7. /\ IsFiniteSet(Leased)
      /\ Cardinality(Leased) <= Cardinality(Written \union Kept \union {shared.image})
  BY <1>2, <1>6, FS_Subset
<1>8. /\ Cardinality(Leased) \in Nat
      /\ Cardinality(Written \union Kept \union {shared.image}) \in Nat
  BY <1>6, <1>7, FS_CardinalityType
<1> QED
  BY <1>3, <1>4, <1>5, <1>6, <1>7, <1>8, PresentationAssumption

\* For any number of slots, with one image for each and one for the publication, a frame is
\* refused an image only while the cleanup of a finished frame is yet to be destroyed
\* (gpu_frame_capacity.h, kSharedScanoutImageCount).
THEOREM RefusalNeedsAFinishedFrame == PresentationSpec => []RefusedOnlyForFinishedFrames
<1>1. PresentationInv => RefusedOnlyForFinishedFrames
  <2> SUFFICES ASSUME PresentationInv, ImageCount = RendererSlots + PresenterSlots + 1,
                      render = "record", Offsets = {}, cleanups \subseteq reading
               PROVE  FALSE
    BY DEF RefusedOnlyForFinishedFrames
  <2>1. PresentationTypeOK
    BY DEF PresentationInv
  <2> DEFINE Places == 0 .. (ImageCount - 1)
             f == [o \in Places |-> Image((nextImage + o) % ImageCount)]
  <2>2. f \in [Places -> Leased]
    BY DEF Offsets
  <2>3. IsFiniteSet(Places) /\ Cardinality(Places) = ImageCount
    BY FS_Interval, PresentationAssumption
  <2>4. IsFiniteSet(Leased) /\ Cardinality(Leased) <= RendererSlots + PresenterSlots
    BY FewLeases
  <2>5. Cardinality(Leased) < Cardinality(Places)
    BY <2>3, <2>4, FS_CardinalityType, PresentationAssumption
  <2>6. \A o, p \in Places : f[o] = f[p] => o = p
    BY <2>1, OffsetsDistinct
  <2> HIDE DEF f, Places
  <2> QED
    BY <2>2, <2>3, <2>4, <2>5, <2>6, FS_PigeonHole
<1> QED
  BY <1>1, PresentationAlways, PTL

\* Every step of the renderer and the presenter is one of the pool, and what is proved of the
\* pool's order and of what it delivers holds of the images too.
THEOREM PresentationUsesDelivery == PresentationSpec => DeliverySpec
<1>1. PresentationInit => DeliveryInit
  BY DEF PresentationInit
<1>2. PresentationInv /\ [PresentationNext]_presentationVars => [DeliveryNext]_deliveryVars
  BY StepOfPool DEF PresentationInv
<1> QED
  BY PresentationAlways, <1>1, <1>2, PTL DEF PresentationSpec, DeliverySpec

=============================================================================

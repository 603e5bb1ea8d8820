------------------------- MODULE RenderPipelineProofs -------------------------
(***************************************************************************)
(* What becomes of frames and deferred writes, for any number of either.    *)
(* The invariant has four layers, each proved from those before it: what    *)
(* the pool of frame slots has taken and delivered; how generations grow    *)
(* along the queue and the pool; which generation covers a write; and where *)
(* each write is.                                                           *)
(***************************************************************************)
EXTENDS RenderPipeline, FrameDeliveryProofs, SequenceTheorems, WellFoundedInduction, TLAPS

-----------------------------------------------------------------------------
(* The pool *)

\* A step of the pipeline is a step of the pool, or leaves it alone.
LEMMA StepOfPool == PoolSound /\ [Next]_vars => [DeliveryNext]_deliveryVars
<1> SUFFICES ASSUME PoolSound, [Next]_vars PROVE [DeliveryNext]_deliveryVars
  OBVIOUS
<1>1. CASE SubmitFrame \/ DeferWrite \/ RunImmediate \/ Stop \/ PumpOversleeps \/ Quiet
           \/ UNCHANGED vars
  BY <1>1 DEF SubmitFrame, DeferWrite, RunImmediate, Stop, PumpOversleeps, Quiet, vars
<1>2. CASE RenderStep
  BY <1>2 DEF RenderStep, TakeFrame, EndThread, BeginDrain, EndDrain, SubmitDeferred,
              SubmitAndWait, AwaitDone, FrameFails, FrameDropped, CompleteFrame, DeliveryNext
<1>3. ASSUME NEW t \in Runners, Retire(t) \/ TakeCompletions(t) \/ RunCompletion(t)
      PROVE  [DeliveryNext]_deliveryVars
  <2>1. CASE Retire(t)
    BY <2>1 DEF Retire, Finish, StoreWrite
  <2>2. CASE TakeCompletions(t)
    <3>1. PICK end \in (taken + 1) .. (submitted + 1) : Take(t, end)
      BY <2>2 DEF TakeCompletions
    <3>2. end \in taken .. (submitted + 1)
      BY DEF PoolSound
    <3> QED
      BY <3>1, <3>2 DEF DeliveryNext
  <2>3. CASE RunCompletion(t)
    BY <2>3 DEF RunCompletion, DeliveryNext
  <2> QED
    BY <1>3, <2>1, <2>2, <2>3
<1>4. CASE GpuFinishes \/ DeviceLoss
  BY <1>4 DEF GpuFinishes, DeviceLoss, DeliveryNext
<1> QED
  BY <1>1, <1>2, <1>3, <1>4 DEF Next

-----------------------------------------------------------------------------
(* Generations *)

\* The render thread has a frame between taking and completing it.
Rendering == render \in {"frame", "drain", "drained", "await", "complete"}

\* It has neither submitted that frame nor given it up.
Unsubmitted == render \in {"frame", "drain", "drained"}

\* Generations grow along the pool, and the frame to be submitted, or the one still pending, is
\* newer than all that were submitted or retired.
Growing ==
  /\ \A i, j \in 1 .. submitted : i < j /\ owedTo[j] # NoFrame => owedTo[i] < owedTo[j]
  /\ Unsubmitted => /\ \A i \in 1 .. submitted : owedTo[i] < active
                    /\ \A g \in retired : g < active
  /\ pending # NoFrame => /\ active < pending
                          /\ \A i \in 1 .. submitted : owedTo[i] < pending
                          /\ \A g \in retired : g < pending

FrameTypes ==
  /\ accepted \in Nat /\ pending \in 0 .. accepted /\ active \in 0 .. accepted
  /\ closed \in BOOLEAN /\ troubled \in BOOLEAN
  /\ render \in {"take", "frame", "drain", "drained", "await", "complete", "ended"}
  /\ owedTo \in Seq(0 .. accepted) /\ Len(owedTo) = submitted
  /\ retired \subseteq 1 .. accepted
  /\ Rendering <=> active # NoFrame

FrameSound == FrameTypes /\ Growing

frameVars == <<submitted, accepted, queueVars, render, owedTo, retired, troubled>>

LEMMA FrameInitially == Init => FrameSound
<1> SUFFICES ASSUME Init PROVE FrameSound
  OBVIOUS
<1>1. /\ submitted = 0 /\ accepted = 0 /\ pending = 0 /\ active = 0 /\ closed = FALSE
      /\ render = "take" /\ owedTo = <<>> /\ retired = {} /\ troubled = FALSE
  BY DEF Init, DeliveryInit, NoFrame
<1>4. closed \in BOOLEAN /\ troubled \in BOOLEAN
  BY <1>1
<1>5. owedTo \in Seq(0 .. accepted) /\ Len(owedTo) = submitted
  BY <1>1, EmptySeq
<1>2. FrameTypes
  BY <1>1, <1>4, <1>5 DEF FrameTypes, Rendering, NoFrame
<1>3. Growing
  BY <1>1 DEF Growing, NoFrame
<1> QED
  BY <1>2, <1>3 DEF FrameSound

\* Nothing changes but what is retired, and that to something the pool was given already.
LEMMA RetiringIsOld ==
  ASSUME PoolSound, FrameSound, NEW n \in 1 .. submitted, owedTo[n] # NoFrame,
         retired' = retired \union {owedTo[n]}, troubled' \in BOOLEAN,
         UNCHANGED <<submitted, accepted, queueVars, render, owedTo>>
  PROVE  FrameSound'
<1>1. owedTo[n] \in 1 .. accepted
  BY ElementOfSeq DEF FrameSound, FrameTypes, NoFrame
<1>2. FrameTypes'
  BY <1>1 DEF FrameSound, FrameTypes, Rendering, queueVars
<1>3. Growing'
  BY <1>1 DEF FrameSound, Growing, Unsubmitted, queueVars
<1> QED
  BY <1>2, <1>3 DEF FrameSound

\* A frame enters the pool: it is newer than those before it.
LEMMA SubmittingGrows ==
  ASSUME PoolSound, FrameSound, Recording, NEW g \in {active, NoFrame},
         submitted' = submitted + 1, owedTo' = Append(owedTo, g),
         render' \in {"complete", "await"},
         UNCHANGED <<accepted, queueVars, retired, troubled>>
  PROVE  FrameSound'
<1>1. /\ submitted \in Nat /\ accepted \in Nat /\ active \in 1 .. accepted /\ g \in 0 .. accepted
      /\ owedTo \in Seq(0 .. accepted) /\ Len(owedTo) = submitted
  BY DEF PoolSound, FrameSound, FrameTypes, Rendering, Recording, NoFrame
<1>2. /\ owedTo' \in Seq(0 .. accepted) /\ Len(owedTo') = submitted + 1
      /\ \A i \in 1 .. submitted : owedTo'[i] = owedTo[i]
      /\ owedTo'[submitted + 1] = g
      /\ \A i \in 1 .. submitted : owedTo[i] \in 0 .. accepted
  BY <1>1, AppendProperties, ElementOfSeq
<1>3. FrameTypes'
  BY <1>1, <1>2 DEF FrameSound, FrameTypes, Rendering, Recording, queueVars
<1>4. ASSUME NEW i \in 1 .. submitted', NEW j \in 1 .. submitted', i < j, owedTo'[j] # NoFrame
      PROVE  owedTo'[i] < owedTo'[j]
  <2>1. CASE j = submitted + 1
    <3>1. g = active /\ i \in 1 .. submitted
      BY <1>1, <1>2, <1>4, <2>1
    <3> QED
      BY <1>2, <2>1, <3>1 DEF FrameSound, Growing, Unsubmitted, Recording
  <2>2. CASE j # submitted + 1
    <3>1. i \in 1 .. submitted /\ j \in 1 .. submitted
      BY <1>1, <1>4, <2>2
    <3> QED
      BY <1>2, <1>4, <3>1 DEF FrameSound, Growing
  <2> QED
    BY <2>1, <2>2
<1>5. ASSUME pending' # NoFrame
      PROVE  /\ active' < pending'
             /\ \A i \in 1 .. submitted' : owedTo'[i] < pending'
             /\ \A h \in retired' : h < pending'
  <2>1. /\ pending' = pending /\ active' = active /\ retired' = retired
        /\ pending \in 1 .. accepted /\ active < pending
        /\ \A i \in 1 .. submitted : owedTo[i] < pending
        /\ \A h \in retired : h < pending
    BY <1>5 DEF FrameSound, FrameTypes, Growing, queueVars, NoFrame
  <2>2. g < pending
    BY <1>1, <2>1 DEF NoFrame
  <2> QED
    BY <1>1, <1>2, <2>1, <2>2
<1>6. Growing'
  BY <1>4, <1>5 DEF Growing, Unsubmitted
<1> QED
  BY <1>3, <1>6 DEF FrameSound

\* Steps that concern writes, the pool or the owner leave the generations alone.
LEMMA FrameUntouched == ASSUME FrameSound, UNCHANGED frameVars PROVE FrameSound'
BY DEF frameVars, FrameSound, FrameTypes, Growing, Unsubmitted, Rendering, queueVars

\* Every step keeps generations growing.
LEMMA FrameKept == PoolSound /\ FrameSound /\ [Next]_vars => FrameSound'
<1> SUFFICES ASSUME PoolSound, FrameSound, [Next]_vars PROVE FrameSound'
  OBVIOUS
<1>1. CASE SubmitFrame
  <2>1. /\ accepted' = accepted + 1 /\ pending' = accepted + 1 /\ accepted \in Nat
        /\ UNCHANGED <<submitted, active, closed, render, owedTo, retired, troubled>>
        /\ active \in 0 .. accepted /\ retired \subseteq 1 .. accepted
        /\ owedTo \in Seq(0 .. accepted) /\ Len(owedTo) = submitted
    BY <1>1 DEF SubmitFrame, deliveryVars, FrameSound, FrameTypes
  <2>2. owedTo \in Seq(0 .. accepted')
    BY <2>1, SeqMonotonic
  <2>3. \A i \in 1 .. submitted : owedTo[i] \in 0 .. accepted
    BY <2>1, ElementOfSeq
  <2>4. FrameTypes'
    BY <2>1, <2>2 DEF FrameSound, FrameTypes, Rendering
  <2>5. Growing'
    BY <2>1, <2>3 DEF FrameSound, Growing, Unsubmitted
  <2> QED
    BY <2>4, <2>5 DEF FrameSound
<1>2. CASE TakeFrame
  <2>3. /\ render' = "frame" /\ active' = pending /\ pending' = NoFrame /\ pending # NoFrame
        /\ UNCHANGED <<submitted, accepted, closed, owedTo, retired, troubled>>
    BY <1>2 DEF TakeFrame, deliveryVars, retirementVars
  <2>1. FrameTypes'
    BY <2>3 DEF FrameSound, FrameTypes, Rendering, NoFrame
  <2>2. Growing'
    BY <2>3 DEF FrameSound, FrameTypes, Growing, Unsubmitted, NoFrame
  <2> QED
    BY <2>1, <2>2 DEF FrameSound
<1>3. CASE EndThread
  <2>1. /\ render' = "ended" /\ active = NoFrame
        /\ UNCHANGED <<submitted, accepted, pending, active, closed, owedTo, retired, troubled>>
    BY <1>3 DEF EndThread, deliveryVars, queueVars, retirementVars
  <2> QED
    BY <2>1 DEF FrameSound, FrameTypes, Growing, Unsubmitted, Rendering
<1>4. CASE SubmitDeferred
  <2>1. /\ submitted' = submitted + 1 /\ owedTo' = Append(owedTo, active)
        /\ Recording /\ render' = "complete"
        /\ UNCHANGED <<accepted, queueVars, retired, troubled>>
    BY <1>4 DEF SubmitDeferred, SubmitToPool, retirementVars
  <2> QED
    BY <2>1, SubmittingGrows
<1>5. CASE SubmitAndWait
  <2>1. /\ submitted' = submitted + 1 /\ owedTo' = Append(owedTo, NoFrame)
        /\ Recording /\ render' = "await"
        /\ UNCHANGED <<accepted, queueVars, retired, troubled>>
    BY <1>5 DEF SubmitAndWait, SubmitToPool, retirementVars
  <2> QED
    BY <2>1, SubmittingGrows
<1>6. ASSUME AwaitDone \/ FrameFails \/ FrameDropped
      PROVE  FrameSound'
  <2>1. /\ render' = "complete" /\ retired' \in {retired, retired \union {active}}
        /\ UNCHANGED <<submitted, accepted, pending, active, closed, owedTo>>
        /\ troubled' \in BOOLEAN /\ active \in 1 .. accepted /\ Rendering
    <3>1. Rendering
      BY <1>6 DEF AwaitDone, FrameFails, FrameDropped, Recording, Rendering
    <3>2. active \in 1 .. accepted
      BY <3>1 DEF FrameSound, FrameTypes, NoFrame
    <3>3. troubled' \in {troubled, TRUE}
      BY <1>6 DEF AwaitDone, FrameFails, FrameDropped
    <3>4. troubled' \in BOOLEAN
      BY <3>3 DEF FrameSound, FrameTypes
    <3> QED
      BY <1>6, <3>1, <3>2, <3>4
         DEF AwaitDone, FrameFails, FrameDropped, BeginRetire, deliveryVars, queueVars,
             retirementVars
  <2>2. FrameTypes'
    BY <2>1 DEF FrameSound, FrameTypes, Rendering
  <2>3. Growing'
    BY <2>1 DEF FrameSound, FrameTypes, Growing, Unsubmitted
  <2> QED
    BY <2>2, <2>3 DEF FrameSound
<1>7. CASE CompleteFrame
  <2>1. /\ render' = "take" /\ active' = NoFrame
        /\ UNCHANGED <<submitted, accepted, pending, closed, owedTo, retired, troubled>>
    BY <1>7 DEF CompleteFrame, deliveryVars, retirementVars
  <2>2. FrameTypes'
    BY <2>1 DEF FrameSound, FrameTypes, Rendering, NoFrame
  <2>3. Growing'
    BY <2>1 DEF FrameSound, FrameTypes, Growing, Unsubmitted, NoFrame
  <2> QED
    BY <2>2, <2>3 DEF FrameSound
<1>8. CASE Stop
  <2>1. /\ closed' = TRUE
        /\ UNCHANGED <<submitted, accepted, pending, active, render, owedTo, retired, troubled>>
    BY <1>8 DEF Stop, deliveryVars, retirementVars
  <2> QED
    BY <2>1 DEF FrameSound, FrameTypes, Growing, Unsubmitted, Rendering
<1>9. ASSUME NEW t \in Runners, RunCompletion(t)
      PROVE  FrameSound'
  <2>1. UNCHANGED <<submitted, accepted, queueVars, render, owedTo, troubled>>
    BY <1>9 DEF RunCompletion, Run, retirementVars
  <2>2. CASE owedTo[held[t].next] = NoFrame
    BY <1>9, <2>1, <2>2, FrameUntouched DEF RunCompletion, frameVars
  <2>3. CASE owedTo[held[t].next] # NoFrame
    <3>1. held[t].next \in 1 .. submitted
      BY <1>9 DEF RunCompletion, Run, PoolSound
    <3>2. retired' = retired \union {owedTo[held[t].next]}
      BY <1>9, <2>3 DEF RunCompletion, BeginRetire
    <3>3. troubled' \in BOOLEAN
      BY <2>1 DEF FrameSound, FrameTypes
    <3> QED
      BY <2>1, <2>3, <3>1, <3>2, <3>3, RetiringIsOld
  <2> QED
    BY <2>2, <2>3
<1>10. CASE DeviceLoss
  <2>1. troubled' = TRUE /\ UNCHANGED <<submitted, accepted, queueVars, render, owedTo, retired>>
    BY <1>10 DEF DeviceLoss, LoseDevice, retirementVars
  <2> QED
    BY <2>1 DEF FrameSound, FrameTypes, Growing, Unsubmitted, Rendering, queueVars
<1>11. CASE DeferWrite \/ RunImmediate \/ PumpOversleeps \/ GpuFinishes \/ Quiet
            \/ UNCHANGED vars
  <2>1. UNCHANGED frameVars
    BY <1>11 DEF DeferWrite, RunImmediate, PumpOversleeps, GpuFinishes, GpuDone, Quiet, vars,
                 deliveryVars, retirementVars, frameVars
  <2> QED
    BY <2>1, FrameUntouched
<1>12. ASSUME NEW t \in Runners, Retire(t) \/ TakeCompletions(t)
       PROVE  FrameSound'
  <2>1. UNCHANGED frameVars
    BY <1>12 DEF Retire, Finish, StoreWrite, TakeCompletions, Take, deliveryVars, retirementVars,
                 frameVars
  <2> QED
    BY <2>1, FrameUntouched
<1>13. CASE BeginDrain \/ EndDrain
  <2>1. /\ Unsubmitted /\ Rendering /\ Unsubmitted' /\ Rendering'
        /\ render' \in {"drain", "drained"}
        /\ UNCHANGED <<submitted, accepted, queueVars, owedTo, retired, troubled>>
    BY <1>13 DEF BeginDrain, EndDrain, Unsubmitted, Rendering, deliveryVars, retirementVars
  <2> QED
    BY <2>1 DEF FrameSound, FrameTypes, Growing, queueVars
<1> QED
  BY <1>1, <1>2, <1>3, <1>4, <1>5, <1>6, <1>7, <1>8, <1>9, <1>10, <1>11, <1>12, <1>13
     DEF Next, RenderStep

-----------------------------------------------------------------------------
(* What the GPU reads *)

\* Until something goes wrong, what the GPU still reads is newer than what was retired.
ReadAhead ==
  ~troubled => \A n \in reading : \A g \in retired : owedTo[n] = NoFrame \/ g < owedTo[n]

\* Every step keeps retirement behind the GPU.
LEMMA ReadAheadKept == PoolSound /\ FrameSound /\ ReadAhead /\ [Next]_vars => ReadAhead'
<1> SUFFICES ASSUME PoolSound, FrameSound, ReadAhead, [Next]_vars PROVE ReadAhead'
  OBVIOUS
<1>1. ASSUME reading' \subseteq reading, UNCHANGED <<owedTo, retired, troubled>>
      PROVE  ReadAhead'
  BY <1>1 DEF ReadAhead
<1>2. ASSUME troubled'
      PROVE  ReadAhead'
  BY <1>2 DEF ReadAhead
<1>3. ASSUME NEW g \in {active, NoFrame}, Recording, SubmitToPool,
             owedTo' = Append(owedTo, g), UNCHANGED <<retired, troubled>>
      PROVE  ReadAhead'
  <2>1. /\ submitted \in Nat /\ reading \subseteq 1 .. submitted
        /\ reading' \subseteq reading \union {submitted + 1}
    BY <1>3 DEF SubmitToPool, PoolSound
  <2>2. /\ \A i \in 1 .. submitted : owedTo'[i] = owedTo[i]
        /\ owedTo'[submitted + 1] = g
    <3>1. /\ owedTo \in Seq(0 .. accepted) /\ Len(owedTo) = submitted /\ g \in 0 .. accepted
      BY DEF FrameSound, FrameTypes, NoFrame
    <3> QED
      BY <1>3, <3>1, AppendProperties
  <2>3. g = NoFrame \/ \A h \in retired : h < g
    BY <1>3 DEF FrameSound, Growing, Unsubmitted, Recording
  <2> QED
    BY <1>3, <2>1, <2>2, <2>3 DEF ReadAhead
<1>4. CASE RenderStep
  <2>1. CASE SubmitDeferred
    BY <1>3, <2>1 DEF SubmitDeferred
  <2>2. CASE SubmitAndWait
    BY <1>3, <2>2 DEF SubmitAndWait
  <2>3. CASE AwaitDone
    <3>1. reading = {} /\ reading' = reading
      BY <2>3 DEF AwaitDone, PoolSound, deliveryVars
    <3> QED
      BY <3>1 DEF ReadAhead
  <2>4. CASE FrameFails
    BY <1>2, <2>4 DEF FrameFails
  <2>5. CASE TakeFrame \/ EndThread \/ BeginDrain \/ EndDrain \/ FrameDropped \/ CompleteFrame
    BY <1>1, <2>5 DEF TakeFrame, EndThread, BeginDrain, EndDrain, FrameDropped, CompleteFrame,
                      deliveryVars
  <2> QED
    BY <1>4, <2>1, <2>2, <2>3, <2>4, <2>5 DEF RenderStep
<1>5. ASSUME NEW t \in Runners, RunCompletion(t)
      PROVE  ReadAhead'
  <2>1. UNCHANGED <<reading, owedTo, troubled>>
    BY <1>5 DEF RunCompletion, Run
  <2>2. /\ held[t].next \in 1 .. submitted /\ held[t].next < taken
        /\ submitted \in Nat /\ reading \subseteq taken .. submitted /\ taken \in Nat
    BY <1>5 DEF RunCompletion, Run, PoolSound
  <2>3. retired' \subseteq retired \union {owedTo[held[t].next]}
    BY <1>5 DEF RunCompletion, BeginRetire
  <2>4. \A n \in reading : owedTo[n] = NoFrame \/ owedTo[held[t].next] < owedTo[n]
    BY <2>2 DEF FrameSound, Growing
  <2> QED
    BY <2>1, <2>3, <2>4 DEF ReadAhead
<1>6. ASSUME NEW t \in Runners, Retire(t) \/ TakeCompletions(t)
      PROVE  ReadAhead'
  BY <1>1, <1>6 DEF Retire, Finish, StoreWrite, TakeCompletions, Take, deliveryVars
<1>7. CASE GpuFinishes
  BY <1>1, <1>7 DEF GpuFinishes, GpuDone
<1>8. CASE DeviceLoss
  BY <1>2, <1>8 DEF DeviceLoss
<1>9. CASE SubmitFrame \/ DeferWrite \/ RunImmediate \/ Stop \/ PumpOversleeps \/ Quiet
           \/ UNCHANGED vars
  BY <1>1, <1>9 DEF SubmitFrame, DeferWrite, RunImmediate, Stop, PumpOversleeps, Quiet, vars,
                    deliveryVars
<1> QED
  BY <1>4, <1>5, <1>6, <1>7, <1>8, <1>9 DEF Next

-----------------------------------------------------------------------------
(* Sequences *)

Distinct(s) == \A i, j \in 1 .. Len(s) : s[i] = s[j] => i = j

\* The first element of a sequence without repetitions is in its place once.
LEMMA TailElements ==
  ASSUME NEW S, NEW s \in Seq(S), s # <<>>, Distinct(s)
  PROVE  /\ Elements(Tail(s)) = Elements(s) \ {Head(s)} /\ Head(s) \in Elements(s)
         /\ Distinct(Tail(s))
<1>1. /\ Len(s) \in Nat \ {0} /\ Head(s) = s[1]
      /\ Len(Tail(s)) = Len(s) - 1
      /\ \A i \in 1 .. Len(Tail(s)) : Tail(s)[i] = s[i + 1]
  BY HeadTailProperties, EmptySeq
<1>2. Head(s) \in Elements(s)
  BY <1>1 DEF Elements
<1>3. Distinct(Tail(s))
  BY <1>1 DEF Distinct
<1>4. ASSUME NEW x \in Elements(Tail(s)) PROVE x \in Elements(s) \ {Head(s)}
  <2>1. PICK i \in 1 .. Len(Tail(s)) : x = Tail(s)[i]
    BY <1>4 DEF Elements
  <2>2. i + 1 \in 1 .. Len(s) /\ i + 1 # 1 /\ x = s[i + 1]
    BY <1>1, <2>1
  <2> QED
    BY <1>1, <2>2 DEF Elements, Distinct
<1>5. ASSUME NEW x \in Elements(s) \ {Head(s)} PROVE x \in Elements(Tail(s))
  <2>1. PICK i \in 1 .. Len(s) : x = s[i]
    BY <1>5 DEF Elements
  <2>2. i - 1 \in 1 .. Len(Tail(s)) /\ Tail(s)[i - 1] = x
    BY <1>1, <1>5, <2>1
  <2> QED
    BY <2>2 DEF Elements
<1> QED
  BY <1>2, <1>3, <1>4, <1>5

\* An appended element joins the others.
LEMMA AppendElements ==
  ASSUME NEW S, NEW s \in Seq(S), NEW e \in S
  PROVE  /\ Elements(Append(s, e)) = Elements(s) \union {e}
         /\ Distinct(s) /\ e \notin Elements(s) => Distinct(Append(s, e))
<1>1. /\ Len(s) \in Nat /\ Len(Append(s, e)) = Len(s) + 1
      /\ \A i \in 1 .. Len(s) : Append(s, e)[i] = s[i]
      /\ Append(s, e)[Len(s) + 1] = e
  BY AppendProperties
<1>2. ASSUME NEW x \in Elements(Append(s, e)) PROVE x \in Elements(s) \union {e}
  <2>1. PICK i \in 1 .. Len(s) + 1 : x = Append(s, e)[i]
    BY <1>1, <1>2 DEF Elements
  <2> QED
    BY <1>1, <2>1 DEF Elements
<1>3. ASSUME NEW x \in Elements(s) \union {e} PROVE x \in Elements(Append(s, e))
  BY <1>1, <1>3 DEF Elements
<1>4. Distinct(s) /\ e \notin Elements(s) => Distinct(Append(s, e))
  BY <1>1 DEF Distinct, Elements
<1> QED
  BY <1>2, <1>3, <1>4

\* A nonempty set of places in a sequence has a last one.
LEMMA LastPlace ==
  ASSUME NEW n \in Nat, NEW S, S \subseteq 1 .. n, S # {}
  PROVE  \E m \in S : \A k \in S : k <= m
<1> DEFINE T == {n - k : k \in S}
<1>1. T \subseteq Nat /\ T # {}
  OBVIOUS
<1> DEFINE R == OpToRel(<, Nat)
<1>6. IsWellFoundedOn(R, Nat)
  BY NatLessThanWellFounded, Zenon
<1>7. \A x, y \in Nat : x < y => <<x, y>> \in R
  <2> SUFFICES ASSUME NEW x \in Nat, NEW y \in Nat, x < y PROVE <<x, y>> \in R
    BY Zenon
  <2>1. <<x, y>>[1] = x /\ <<x, y>>[2] = y
    BY Zenon
  <2>2. <<x, y>> \in Nat \X Nat
    BY Zenon
  <2>3. <<x, y>>[1] < <<x, y>>[2]
    BY <2>1, Zenon
  <2> QED
    BY <2>2, <2>3, Zenon DEF OpToRel
<1> HIDE DEF R
<1>2. PICK x \in T : \A y \in T : ~(<<y, x>> \in R)
  BY <1>1, <1>6, WFMin
<1>3. \A y \in T : ~(y < x)
  BY <1>1, <1>2, <1>7
<1>4. PICK m \in S : x = n - m
  BY <1>2
<1>5. ASSUME NEW k \in S PROVE k <= m
  <2>1. n - k \in T
    OBVIOUS
  <2>2. ~(n - k < n - m)
    BY <1>3, <1>4, <2>1
  <2> QED
    BY <1>4, <2>2
<1> QED
  BY <1>5

-----------------------------------------------------------------------------
(* Writes *)

WriteTypes ==
  /\ completed \in 0 .. accepted
  /\ writes \in Seq(0 .. accepted) /\ immediate \in 0 .. Len(writes)
  /\ completions \in Seq([generation : 1 .. accepted, write : 1 .. Len(writes)])
  /\ retire \in [Runners -> [generation : 0 .. accepted, batch : Seq(1 .. Len(writes))]]
  /\ stored \in Seq(1 .. Len(writes))

\* A write may be stored: the frame it was deferred behind, or a newer one, has been retired.
Covered(w) == writes[w] = 0 \/ \E generation \in retired : writes[w] <= generation

Covering ==
  /\ completed # NoFrame => completed \in retired
  /\ \A t \in Runners : retire[t].generation # NoFrame => retire[t].generation \in retired
  /\ \A i \in 1 .. Len(completions) : completions[i].generation = writes[completions[i].write]
  /\ \A t \in Runners : \A w \in Elements(retire[t].batch) : Covered(w)
  /\ immediate # 0 => Covered(immediate)
  /\ \A w \in Elements(stored) : Covered(w)

\* Five sets that hold the first n numbers between them, each number once.
Places(queued, own, pumps, renders, done, n) ==
  /\ queued \union own \union pumps \union renders \union done = 1 .. n
  /\ queued \intersect own = {} /\ queued \intersect pumps = {}
  /\ queued \intersect renders = {} /\ queued \intersect done = {}
  /\ own \intersect pumps = {} /\ own \intersect renders = {} /\ own \intersect done = {}
  /\ pumps \intersect renders = {} /\ pumps \intersect done = {}
  /\ renders \intersect done = {}

Placing ==
  /\ Places(Queued, {immediate} \ {0}, Elements(retire[Pump].batch),
            Elements(retire[Render].batch), Elements(stored), Len(writes))
  /\ \A i, j \in 1 .. Len(completions) : completions[i].write = completions[j].write => i = j
  /\ \A t \in Runners : Distinct(retire[t].batch)
  /\ Distinct(stored)

WritesSound == WriteTypes /\ Covering /\ Placing

writeVars == <<accepted, retirementVars, retire, processorVars, stored, retired>>

LEMMA WritesInitially == Init => WritesSound
<1> SUFFICES ASSUME Init PROVE WritesSound
  OBVIOUS
<1>1. /\ accepted = 0 /\ completed = 0 /\ completions = <<>> /\ immediate = 0 /\ writes = <<>>
      /\ stored = <<>> /\ retire = [t \in Runners |-> NotRetiring]
  BY DEF Init
<1>2. /\ \A S : <<>> \in Seq(S)
      /\ Len(<<>>) = 0 /\ Elements(<<>>) = {} /\ Distinct(<<>>)
  BY EmptySeq DEF Elements, Distinct
<1>3. /\ NotRetiring \in [generation : 0 .. accepted, batch : Seq(1 .. Len(writes))]
      /\ NotRetiring.generation = NoFrame /\ NotRetiring.batch = <<>>
  BY <1>1, <1>2 DEF NotRetiring, NoFrame
<1> HIDE DEF NotRetiring
<1>4. /\ retire \in [Runners -> [generation : 0 .. accepted, batch : Seq(1 .. Len(writes))]]
      /\ \A t \in Runners : retire[t] = NotRetiring
  BY <1>1, <1>3
<1>5. WriteTypes
  BY <1>1, <1>2, <1>4 DEF WriteTypes
<1>6. Covering
  BY <1>1, <1>2, <1>3, <1>4 DEF Covering, NoFrame
<1>7. Placing
  <2>1. Pump \in Runners /\ Render \in Runners
    BY RunnersAssumption
  <2>2. Queued = {}
    BY <1>1, <1>2 DEF Queued
  <2>3. /\ Elements(retire[Pump].batch) = {} /\ Elements(retire[Render].batch) = {}
        /\ Elements(stored) = {} /\ {immediate} \ {0} = {} /\ Len(writes) = 0
    BY <1>1, <1>2, <1>3, <1>4, <2>1
  <2>4. Places({}, {}, {}, {}, {}, 0)
    BY DEF Places
  <2>5. \A t \in Runners : Distinct(retire[t].batch)
    BY <1>2, <1>3, <1>4
  <2>6. \A i, j \in 1 .. Len(completions) : completions[i].write = completions[j].write => i = j
    BY <1>1, <1>2
  <2> HIDE DEF Places
  <2> QED
    BY <1>1, <1>2, <2>2, <2>3, <2>4, <2>5, <2>6 DEF Placing
<1> QED
  BY <1>5, <1>6, <1>7 DEF WritesSound

\* A runner that starts to retire a frame has an empty batch before and after.
LEMMA RetireBegins ==
  ASSUME FrameSound, WritesSound, NEW t \in Runners, NEW g \in 1 .. accepted, Free(t),
         BeginRetire(t, g), UNCHANGED <<accepted, retirementVars, processorVars, stored>>
  PROVE  WritesSound'
<1>1. /\ retire \in [Runners -> [generation : 0 .. accepted, batch : Seq(1 .. Len(writes))]]
      /\ retire[t].batch = <<>> /\ accepted \in Nat
  BY DEF WritesSound, WriteTypes, Free, NotRetiring, FrameSound, FrameTypes
<1>2. /\ retire' = [retire EXCEPT ![t] = [generation |-> g, batch |-> <<>>]]
      /\ retired' = retired \union {g}
  BY DEF BeginRetire
<1>3. /\ \A s \in Runners : retire'[s].batch = retire[s].batch
      /\ \A s \in Runners : retire'[s].generation \in {g, retire[s].generation}
      /\ retire' \in [Runners -> [generation : 0 .. accepted, batch : Seq(1 .. Len(writes))]]
  <2>1. [generation |-> g, batch |-> <<>>] \in
          [generation : 0 .. accepted, batch : Seq(1 .. Len(writes))]
    BY EmptySeq
  <2> QED
    BY <1>1, <1>2, <2>1
<1>4. /\ UNCHANGED <<accepted, completed, completions, immediate, writes, stored>>
  BY DEF retirementVars, processorVars
<1>5. WriteTypes'
  BY <1>3, <1>4 DEF WritesSound, WriteTypes
<1>6. \A w : Covered(w) => Covered(w)'
  BY <1>2, <1>4 DEF Covered
<1>7. Covering'
  BY <1>2, <1>3, <1>4, <1>6 DEF WritesSound, Covering
<1>8. Placing'
  BY <1>3, <1>4, RunnersAssumption DEF WritesSound, Placing, Queued
<1> QED
  BY <1>5, <1>7, <1>8 DEF WritesSound

\* The next number is added where it is queued, or where the processor keeps it.
LEMMA NumberAdded ==
  ASSUME NEW q, NEW o, NEW p, NEW r, NEW d, NEW n \in Nat, Places(q, o, p, r, d, n), o = {}
  PROVE  /\ Places(q \union {n + 1}, o, p, r, d, n + 1)
         /\ Places(q, {n + 1}, p, r, d, n + 1)
<1>1. /\ 1 .. (n + 1) = (1 .. n) \union {n + 1} /\ n + 1 \notin 1 .. n
  OBVIOUS
<1> QED
  BY <1>1 DEF Places

\* A write is issued: it is queued, or the processor will run it.
LEMMA DeferPlaces == ASSUME FrameSound, WritesSound, DeferWrite PROVE WritesSound'
<1>0. PICK n : n = Len(writes) + 1
  OBVIOUS
<1> DEFINE entry == [generation |-> accepted, write |-> n]
<1>1. /\ accepted \in Nat /\ completed \in 0 .. accepted /\ immediate = 0
      /\ writes \in Seq(0 .. accepted) /\ Len(writes) \in Nat /\ n \in Nat
      /\ completions \in Seq([generation : 1 .. accepted, write : 1 .. Len(writes)])
      /\ retire \in [Runners -> [generation : 0 .. accepted, batch : Seq(1 .. Len(writes))]]
      /\ stored \in Seq(1 .. Len(writes))
      /\ Pump \in Runners /\ Render \in Runners
  <2>1. /\ writes \in Seq(0 .. accepted) /\ immediate = 0
        /\ completions \in Seq([generation : 1 .. accepted, write : 1 .. Len(writes)])
        /\ retire \in [Runners -> [generation : 0 .. accepted, batch : Seq(1 .. Len(writes))]]
        /\ stored \in Seq(1 .. Len(writes)) /\ completed \in 0 .. accepted
    BY DEF WritesSound, WriteTypes, DeferWrite
  <2>2. accepted \in Nat /\ Len(writes) \in Nat
    BY <2>1, LenProperties DEF FrameSound, FrameTypes
  <2> QED
    BY <1>0, <2>1, <2>2, RunnersAssumption
<1>2. /\ writes' = Append(writes, accepted)
      /\ UNCHANGED <<accepted, completed, retire, stored, retired>>
  BY DEF DeferWrite
<1>3. /\ writes' \in Seq(0 .. accepted) /\ Len(writes') = n /\ writes'[n] = accepted
      /\ \A w \in 1 .. Len(writes) : writes'[w] = writes[w]
  BY <1>0, <1>1, <1>2, AppendProperties
<1>4. /\ completions \in Seq([generation : 1 .. accepted, write : 1 .. n])
      /\ stored \in Seq(1 .. n)
  <2>1. /\ [generation : 1 .. accepted, write : 1 .. Len(writes)]
             \subseteq [generation : 1 .. accepted, write : 1 .. n]
        /\ 1 .. Len(writes) \subseteq 1 .. n
    BY <1>0, <1>1
  <2>2. completions \in Seq([generation : 1 .. accepted, write : 1 .. n])
    <3> DEFINE S == [generation : 1 .. accepted, write : 1 .. Len(writes)]
               T == [generation : 1 .. accepted, write : 1 .. n]
    <3>1. completions \in Seq(S) /\ S \subseteq T
      BY <1>1, <2>1
    <3> HIDE DEF S, T
    <3>2. completions \in Seq(T)
      BY <3>1, SeqMonotonic
    <3> QED
      BY <3>2 DEF T
  <2>3. stored \in Seq(1 .. n)
    BY <1>1, <2>1, SeqMonotonic
  <2> QED
    BY <2>2, <2>3
<1>5. retire \in [Runners -> [generation : 0 .. accepted, batch : Seq(1 .. n)]]
  <2>1. \A t \in Runners : retire[t].batch \in Seq(1 .. n)
    BY <1>0, <1>1, SeqMonotonic
  <2> QED
    BY <1>1, <2>1
<1>6. /\ \A w \in Elements(stored) : w \in 1 .. Len(writes)
      /\ \A t \in Runners : \A w \in Elements(retire[t].batch) : w \in 1 .. Len(writes)
      /\ \A i \in 1 .. Len(completions) : completions[i].write \in 1 .. Len(writes)
  <2>1. \A s \in Seq(1 .. Len(writes)) : \A w \in Elements(s) : w \in 1 .. Len(writes)
    BY ElementOfSeq DEF Elements
  <2>2. \A t \in Runners : retire[t].batch \in Seq(1 .. Len(writes))
    BY <1>1
  <2>3. \A i \in 1 .. Len(completions) :
          completions[i] \in [generation : 1 .. accepted, write : 1 .. Len(writes)]
    BY <1>1, ElementOfSeq
  <2>4. \A i \in 1 .. Len(completions) : completions[i].write \in 1 .. Len(writes)
    BY <2>3
  <2> QED
    BY <1>1, <2>1, <2>2, <2>4
<1>7. \A w \in 1 .. Len(writes) : Covered(w) => Covered(w)'
  BY <1>2, <1>3 DEF Covered
<1>8. /\ \A w \in Elements(stored) : Covered(w)'
      /\ \A t \in Runners : \A w \in Elements(retire[t].batch) : Covered(w)'
  BY <1>6, <1>7 DEF WritesSound, Covering
<1>9. Places(Queued, {}, Elements(retire[Pump].batch), Elements(retire[Render].batch),
             Elements(stored), Len(writes))
  <2>1. {immediate} \ {0} = {}
    BY <1>1
  <2> QED
    BY <2>1 DEF WritesSound, Placing
<1>10. CASE AcceptedIsComplete
  <2>1. immediate' = n /\ UNCHANGED completions
    BY <1>0, <1>10 DEF DeferWrite
  <2>2. WriteTypes'
    <3>1. n \in 0 .. Len(writes')
      BY <1>1, <1>3
    <3> QED
      BY <1>1, <1>2, <1>3, <1>4, <1>5, <2>1, <3>1 DEF WriteTypes
  <2>3. Covered(n)'
    BY <1>1, <1>2, <1>3, <1>10 DEF Covered, AcceptedIsComplete, WritesSound, Covering, NoFrame
  <2>4. Covering'
    BY <1>2, <1>3, <1>6, <1>8, <2>1, <2>3 DEF WritesSound, Covering
  <2>5. Places(Queued, {n}, Elements(retire[Pump].batch), Elements(retire[Render].batch),
               Elements(stored), n)
    BY <1>0, <1>1, <1>9, NumberAdded
  <2>6. {immediate'} \ {0} = {n} /\ Queued' = Queued
    BY <1>0, <1>1, <2>1 DEF Queued
  <2>7. Placing'
    BY <1>2, <1>3, <2>1, <2>5, <2>6 DEF WritesSound, Placing
  <2> QED
    BY <2>2, <2>4, <2>7 DEF WritesSound
<1>11. CASE ~AcceptedIsComplete
  <2>1. immediate' = 0 /\ completions' = Append(completions, entry)
    BY <1>0, <1>1, <1>11 DEF DeferWrite
  <2>2. accepted \in 1 .. accepted /\ n \in 1 .. n
    BY <1>0, <1>1, <1>11 DEF AcceptedIsComplete
  <2>3. entry \in [generation : 1 .. accepted, write : 1 .. n]
    BY <2>2
  <2>12. entry.generation = accepted /\ entry.write = n
    OBVIOUS
  <2> HIDE DEF entry
  <2>4. /\ completions' \in Seq([generation : 1 .. accepted, write : 1 .. n])
        /\ Len(completions') = Len(completions) + 1 /\ Len(completions) \in Nat
        /\ \A i \in 1 .. Len(completions) : completions'[i] = completions[i]
        /\ completions'[Len(completions) + 1] = entry
    BY <1>4, <2>1, <2>3, AppendProperties
  <2>5. WriteTypes'
    BY <1>1, <1>2, <1>3, <1>4, <1>5, <2>1, <2>4 DEF WriteTypes
  <2>6. Covering'
    <3>1. ASSUME NEW i \in 1 .. Len(completions')
          PROVE  completions'[i].generation = writes'[completions'[i].write]
      <4>1. CASE i = Len(completions) + 1
        BY <1>3, <2>4, <2>12, <4>1
      <4>2. CASE i # Len(completions) + 1
        <5>1. i \in 1 .. Len(completions)
          BY <2>4, <4>2
        <5> QED
          BY <1>3, <1>6, <2>4, <5>1 DEF WritesSound, Covering
      <4> QED
        BY <4>1, <4>2
    <3> QED
      BY <1>2, <1>8, <2>1, <3>1 DEF WritesSound, Covering
  <2>7. Queued' = Queued \union {n}
    <3>1. ASSUME NEW w \in Queued' PROVE w \in Queued \union {n}
      <4>1. PICK i \in 1 .. Len(completions) + 1 : w = completions'[i].write
        BY <2>4, <3>1 DEF Queued
      <4> QED
        <5>1. CASE i = Len(completions) + 1
          BY <2>4, <2>12, <4>1, <5>1
        <5>2. CASE i # Len(completions) + 1
          <6>1. i \in 1 .. Len(completions)
            BY <2>4, <5>2
          <6>2. w = completions[i].write
            BY <2>4, <4>1, <6>1
          <6> QED
            BY <6>1, <6>2 DEF Queued
        <5> QED
          BY <5>1, <5>2
    <3>2. n \in Queued'
      BY <2>4, <2>12 DEF Queued
    <3>3. ASSUME NEW w \in Queued PROVE w \in Queued'
      <4>1. PICK i \in 1 .. Len(completions) : w = completions[i].write
        BY <3>3 DEF Queued
      <4>2. i \in 1 .. Len(completions') /\ completions'[i] = completions[i]
        BY <2>4
      <4> QED
        BY <4>1, <4>2 DEF Queued
    <3> QED
      BY <3>1, <3>2, <3>3
  <2>8. Places(Queued', {}, Elements(retire[Pump].batch), Elements(retire[Render].batch),
               Elements(stored), n)
    BY <1>0, <1>1, <1>9, <2>7, NumberAdded
  <2>9. \A i, j \in 1 .. Len(completions') : completions'[i].write = completions'[j].write => i = j
    <3>1. ASSUME NEW i \in 1 .. Len(completions)
          PROVE  /\ completions'[i].write = completions[i].write
                 /\ completions'[i].write # n
      <4>1. completions'[i] = completions[i]
        BY <2>4
      <4>2. completions[i].write \in 1 .. Len(writes) /\ n \notin 1 .. Len(writes)
        BY <1>0, <1>1, <1>6
      <4>3. completions[i].write # n
        BY <4>2
      <4> QED
        BY <4>1, <4>3
    <3>2. completions'[Len(completions) + 1].write = n
      BY <2>4, <2>12
    <3> SUFFICES ASSUME NEW i \in 1 .. Len(completions'), NEW j \in 1 .. Len(completions'),
                        completions'[i].write = completions'[j].write
                 PROVE  i = j
      OBVIOUS
    <3>3. CASE i \in 1 .. Len(completions) /\ j \in 1 .. Len(completions)
      BY <3>1, <3>3 DEF WritesSound, Placing
    <3>4. CASE ~(i \in 1 .. Len(completions) /\ j \in 1 .. Len(completions))
      <4>1. i = Len(completions) + 1 \/ j = Len(completions) + 1
        BY <2>4, <3>4
      <4>2. i \notin 1 .. Len(completions) /\ j \notin 1 .. Len(completions)
        BY <3>1, <3>2, <4>1
      <4> QED
        BY <2>4, <4>2
    <3> QED
      BY <3>3, <3>4
  <2>10. {immediate'} \ {0} = {}
    BY <2>1
  <2>11. Placing'
    BY <1>2, <1>3, <2>8, <2>9, <2>10 DEF WritesSound, Placing
  <2> QED
    BY <2>5, <2>6, <2>11 DEF WritesSound
<1> QED
  BY <1>10, <1>11

\* The processor stores the write it kept.
LEMMA ImmediatePlaces == ASSUME FrameSound, WritesSound, RunImmediate PROVE WritesSound'
<1>1. /\ immediate \in 1 .. Len(writes) /\ stored \in Seq(1 .. Len(writes))
      /\ immediate' = 0 /\ stored' = Append(stored, immediate)
      /\ UNCHANGED <<accepted, completed, completions, retire, writes, retired>>
  <2>1. Len(writes) \in Nat
    BY LenProperties DEF WritesSound, WriteTypes
  <2> QED
    BY <2>1 DEF RunImmediate, retirementVars, WritesSound, WriteTypes
<1>2. /\ Elements(stored') = Elements(stored) \union {immediate}
      /\ stored' \in Seq(1 .. Len(writes))
      /\ Distinct(stored) /\ immediate \notin Elements(stored) => Distinct(stored')
  BY <1>1, AppendElements, AppendProperties
<1>3. WriteTypes'
  <2>1. 0 \in 0 .. Len(writes)
    BY <1>1
  <2> QED
    BY <1>1, <1>2, <2>1 DEF WritesSound, WriteTypes
<1>4. \A w : Covered(w) => Covered(w)'
  BY <1>1 DEF Covered
<1>5. Covering'
  BY <1>1, <1>2, <1>4 DEF WritesSound, Covering
<1>6. Placing'
  <2>1. {immediate} \ {0} = {immediate} /\ {immediate'} \ {0} = {} /\ Queued' = Queued
    BY <1>1 DEF Queued
  <2>2. Places(Queued, {immediate}, Elements(retire[Pump].batch), Elements(retire[Render].batch),
               Elements(stored), Len(writes))
    BY <2>1 DEF WritesSound, Placing
  <2>3. immediate \notin Elements(stored)
    BY <2>2 DEF Places
  <2>4. Places(Queued, {}, Elements(retire[Pump].batch), Elements(retire[Render].batch),
               Elements(stored) \union {immediate}, Len(writes))
    BY <2>2 DEF Places
  <2> QED
    BY <1>1, <1>2, <2>1, <2>3, <2>4 DEF WritesSound, Placing
<1> QED
  BY <1>3, <1>5, <1>6 DEF WritesSound

\* A runner stores the first write of its batch.
LEMMA StorePlaces ==
  ASSUME FrameSound, WritesSound, NEW t \in Runners, StoreWrite(t) PROVE WritesSound'
<1> DEFINE S == 1 .. Len(writes)
           batch == retire[t].batch
<1>1. /\ batch \in Seq(S) /\ batch # <<>> /\ Distinct(batch) /\ stored \in Seq(S)
      /\ retire \in [Runners -> [generation : 0 .. accepted, batch : Seq(S)]]
  BY DEF WritesSound, WriteTypes, Placing, StoreWrite
<1>2. /\ stored' = Append(stored, Head(batch))
      /\ retire' = [retire EXCEPT ![t].batch = Tail(batch)]
      /\ UNCHANGED <<accepted, completed, completions, immediate, writes, retired>>
  BY DEF StoreWrite, retirementVars, processorVars
<1>3. /\ Elements(Tail(batch)) = Elements(batch) \ {Head(batch)}
      /\ Head(batch) \in Elements(batch) /\ Distinct(Tail(batch))
      /\ Head(batch) \in S /\ Tail(batch) \in Seq(S)
  BY <1>1, TailElements, HeadTailProperties
<1>4. /\ Elements(stored') = Elements(stored) \union {Head(batch)} /\ stored' \in Seq(S)
      /\ Distinct(stored) /\ Head(batch) \notin Elements(stored) => Distinct(stored')
  BY <1>1, <1>2, <1>3, AppendElements, AppendProperties
<1> HIDE DEF S
<1>5. /\ retire' \in [Runners -> [generation : 0 .. accepted, batch : Seq(S)]]
      /\ retire'[t].batch = Tail(batch)
      /\ \A s \in Runners : s # t => retire'[s] = retire[s]
      /\ \A s \in Runners : retire'[s].generation = retire[s].generation
  BY <1>1, <1>2, <1>3
<1> HIDE DEF batch
<1>6. WriteTypes'
  BY <1>2, <1>4, <1>5 DEF WritesSound, WriteTypes, S
<1>7. \A w : Covered(w) => Covered(w)'
  BY <1>2 DEF Covered
<1>8. \A s \in Runners : Elements(retire'[s].batch) \subseteq Elements(retire[s].batch)
  BY <1>3, <1>5 DEF batch
<1>9. Covering'
  <2>1. \A w \in Elements(batch) : Covered(w)
    BY DEF WritesSound, Covering, batch
  <2>2. \A w \in Elements(stored') : Covered(w)'
    BY <1>3, <1>4, <1>7, <2>1 DEF WritesSound, Covering
  <2> QED
    BY <1>2, <1>5, <1>7, <1>8, <2>2 DEF WritesSound, Covering
<1>10. Placing'
  <2>1. UNCHANGED <<Queued, immediate, completions, writes>>
    BY <1>2 DEF Queued
  <2>2. \A s \in Runners : Distinct(retire'[s].batch)
    BY <1>3, <1>5 DEF WritesSound, Placing
  <2>3. CASE t = Pump
    <3>1. Places(Queued, {immediate} \ {0}, Elements(batch), Elements(retire[Render].batch),
                 Elements(stored), Len(writes))
      BY <2>3 DEF WritesSound, Placing, batch
    <3>2. /\ Head(batch) \notin Elements(stored)
          /\ Places(Queued, {immediate} \ {0}, Elements(batch) \ {Head(batch)},
                    Elements(retire[Render].batch), Elements(stored) \union {Head(batch)},
                    Len(writes))
      BY <1>3, <3>1 DEF Places
    <3>3. retire'[Pump].batch = Tail(batch) /\ retire'[Render] = retire[Render]
      BY <1>5, <2>3, RunnersAssumption DEF Pump, Render
    <3> QED
      BY <1>3, <1>4, <2>1, <2>2, <3>2, <3>3 DEF WritesSound, Placing
  <2>4. CASE t = Render
    <3>1. Places(Queued, {immediate} \ {0}, Elements(retire[Pump].batch), Elements(batch),
                 Elements(stored), Len(writes))
      BY <2>4 DEF WritesSound, Placing, batch
    <3>2. /\ Head(batch) \notin Elements(stored)
          /\ Places(Queued, {immediate} \ {0}, Elements(retire[Pump].batch),
                    Elements(batch) \ {Head(batch)}, Elements(stored) \union {Head(batch)},
                    Len(writes))
      BY <1>3, <3>1 DEF Places
    <3>3. retire'[Render].batch = Tail(batch) /\ retire'[Pump] = retire[Pump]
      BY <1>5, <2>4, RunnersAssumption DEF Pump, Render
    <3> QED
      BY <1>3, <1>4, <2>1, <2>2, <3>2, <3>3 DEF WritesSound, Placing
  <2> QED
    BY <2>3, <2>4, RunnersAssumption
<1> QED
  BY <1>6, <1>9, <1>10 DEF WritesSound

\* What a generation releases is a prefix of the queue, named by its last place.
LEMMA ReadyIsPrefix ==
  ASSUME NEW g, NEW n \in Nat, Len(completions) = n, Ready(g) # {},
         NEW count, count = CHOOSE k \in Ready(g) : \A m \in Ready(g) : m <= k
  PROVE  /\ count \in 1 .. n
         /\ \A i \in 1 .. count : completions[i].generation <= g
<1>1. Ready(g) \subseteq 1 .. n
  BY DEF Ready
<1>2. \E k \in Ready(g) : \A m \in Ready(g) : m <= k
  BY <1>1, LastPlace
<1>3. count \in Ready(g)
  BY <1>2
<1> QED
  BY <1>3 DEF Ready

\* The queue is cut: what is taken and what remains are its parts, without repetitions.
LEMMA QueueIsCut ==
  ASSUME FrameSound, WritesSound, NEW count \in 1 .. Len(completions), NEW batch,
         batch = [i \in 1 .. count |-> completions[i].write], completions' = Remaining(count)
  PROVE  /\ batch \in Seq(1 .. Len(writes)) /\ batch # <<>> /\ Distinct(batch)
         /\ Elements(batch) = {completions[i].write : i \in 1 .. count}
         /\ Elements(batch) \subseteq Queued /\ Queued' = Queued \ Elements(batch)
         /\ completions' \in Seq([generation : 1 .. accepted, write : 1 .. Len(writes)])
         /\ \A i \in 1 .. Len(completions') :
              completions'[i].generation = writes[completions'[i].write]
         /\ \A i, j \in 1 .. Len(completions') :
              completions'[i].write = completions'[j].write => i = j
<1> DEFINE S == [generation : 1 .. accepted, write : 1 .. Len(writes)]
<1>1. /\ completions \in Seq(S) /\ Len(completions) \in Nat
      /\ \A i \in 1 .. Len(completions) : completions[i] \in S
  BY LenProperties, ElementOfSeq DEF WritesSound, WriteTypes
<1>2. \A i \in 1 .. Len(completions) : completions[i].write \in 1 .. Len(writes)
  BY <1>1
<1> HIDE DEF S
<1>3. count \in Nat /\ count \in 1 .. Len(completions)
  BY <1>1
<1>4. /\ batch \in Seq(1 .. Len(writes)) /\ Len(batch) = count
      /\ \A i \in 1 .. count : batch[i] = completions[i].write
  <2>1. batch \in [1 .. count -> 1 .. Len(writes)]
    BY <1>2, <1>3
  <2> QED
    BY <1>3, <2>1, IsASeq
<1>5. batch # <<>>
  BY <1>3, <1>4, EmptySeq
<1>6. Distinct(batch)
  BY <1>1, <1>3, <1>4 DEF Distinct, WritesSound, Placing
<1>7. Elements(batch) = {completions[i].write : i \in 1 .. count}
  BY <1>4 DEF Elements
<1>8. /\ completions' \in Seq(S) /\ Len(completions') = Len(completions) - count
      /\ \A i \in 1 .. Len(completions') : /\ completions'[i] = completions[count + i]
                                           /\ count + i \in 1 .. Len(completions)
  <2>1. completions' = SubSeq(completions, count + 1, Len(completions))
    BY DEF Remaining
  <2>2. CASE count < Len(completions)
    BY <1>1, <1>3, <2>1, <2>2, SubSeqProperties
  <2>3. CASE count = Len(completions)
    BY <1>1, <1>3, <2>1, <2>3, SubSeqProperties
  <2> QED
    BY <1>1, <1>3, <2>2, <2>3
<1>9. \A i \in 1 .. Len(completions') :
        completions'[i].generation = writes[completions'[i].write]
  BY <1>8 DEF WritesSound, Covering
<1>10. \A i, j \in 1 .. Len(completions') :
         completions'[i].write = completions'[j].write => i = j
  <2> SUFFICES ASSUME NEW i \in 1 .. Len(completions'), NEW j \in 1 .. Len(completions'),
                      completions'[i].write = completions'[j].write
               PROVE  i = j
    OBVIOUS
  <2>1. count + i = count + j
    BY <1>8 DEF WritesSound, Placing
  <2> QED
    BY <1>1, <1>3, <1>8, <2>1
<1>11. Elements(batch) \subseteq Queued
  BY <1>1, <1>3, <1>7 DEF Queued
<1>12. ASSUME NEW w \in Queued' PROVE w \in Queued \ Elements(batch)
  <2>1. PICK i \in 1 .. Len(completions') : w = completions'[i].write
    BY <1>12 DEF Queued
  <2>2. count + i \in 1 .. Len(completions) /\ w = completions[count + i].write
    BY <1>8, <2>1
  <2>3. ASSUME NEW j \in 1 .. count, w = completions[j].write PROVE FALSE
    <3>1. j \in 1 .. Len(completions) /\ j # count + i
      BY <1>1, <1>3, <1>8
    <3> QED
      BY <2>2, <2>3, <3>1 DEF WritesSound, Placing
  <2> QED
    BY <1>7, <2>2, <2>3 DEF Queued
<1>13. ASSUME NEW w \in Queued \ Elements(batch) PROVE w \in Queued'
  <2>1. PICK i \in 1 .. Len(completions) : w = completions[i].write
    BY <1>13 DEF Queued
  <2>2. i \notin 1 .. count
    BY <1>7, <1>13, <2>1
  <2>3. i - count \in 1 .. Len(completions') /\ count + (i - count) = i
    BY <1>1, <1>3, <1>8, <2>2
  <2>4. completions'[i - count] = completions[i]
    BY <1>8, <2>3
  <2> QED
    BY <2>1, <2>3, <2>4 DEF Queued
<1>14. Queued' = Queued \ Elements(batch)
  BY <1>12, <1>13
<1> QED
  BY <1>4, <1>5, <1>6, <1>7, <1>8, <1>9, <1>10, <1>11, <1>14 DEF S

\* A runner inside Finish takes what its generation releases, or closes the generation.
LEMMA FinishPlaces ==
  ASSUME FrameSound, WritesSound, NEW t \in Runners, Finish(t) PROVE WritesSound'
<1>1. PICK g : g = retire[t].generation
  OBVIOUS
<1> DEFINE S == 1 .. Len(writes)
<1>2. /\ g \in 1 .. accepted /\ g \in retired /\ accepted \in Nat /\ retire[t].batch = <<>>
      /\ retire \in [Runners -> [generation : 0 .. accepted, batch : Seq(S)]]
      /\ UNCHANGED <<accepted, immediate, writes, stored, retired>>
  <2>1. /\ retire \in [Runners -> [generation : 0 .. accepted, batch : Seq(S)]]
        /\ g # NoFrame /\ retire[t].batch = <<>> /\ g \in retired
        /\ UNCHANGED <<accepted, immediate, writes, stored, retired>>
    BY <1>1 DEF Finish, WritesSound, WriteTypes, Covering, processorVars
  <2>2. g \in 0 .. accepted
    BY <1>1, <2>1
  <2> QED
    BY <2>1, <2>2 DEF FrameSound, FrameTypes, NoFrame
<1>3. <<>> \in Seq(S) /\ Elements(<<>>) = {} /\ Distinct(<<>>)
  BY EmptySeq DEF Elements, Distinct
<1> HIDE DEF S
<1>4. \A w : Covered(w) => Covered(w)'
  BY <1>2 DEF Covered
<1>5. CASE Ready(g) = {}
  <2>1. completed' = g /\ retire' = [retire EXCEPT ![t] = NotRetiring] /\ UNCHANGED completions
    BY <1>1, <1>5 DEF Finish
  <2>2. /\ NotRetiring \in [generation : 0 .. accepted, batch : Seq(S)]
        /\ NotRetiring.generation = NoFrame /\ NotRetiring.batch = <<>>
    BY <1>2, <1>3 DEF NotRetiring, NoFrame
  <2> HIDE DEF NotRetiring
  <2>3. /\ retire' \in [Runners -> [generation : 0 .. accepted, batch : Seq(S)]]
        /\ retire'[t] = NotRetiring
        /\ \A s \in Runners : s # t => retire'[s] = retire[s]
        /\ \A s \in Runners : retire'[s].batch = retire[s].batch
    BY <1>2, <2>1, <2>2
  <2>4. WriteTypes'
    BY <1>2, <2>1, <2>3 DEF WritesSound, WriteTypes, S
  <2>5. Covering'
    <3>1. \A s \in Runners : retire'[s].generation # NoFrame => retire'[s].generation \in retired
      BY <2>2, <2>3 DEF WritesSound, Covering
    <3> QED
      BY <1>2, <1>4, <2>1, <2>3, <3>1 DEF WritesSound, Covering
  <2>6. Placing'
    BY <1>2, <2>1, <2>3, RunnersAssumption DEF WritesSound, Placing, Queued
  <2> QED
    BY <2>4, <2>5, <2>6 DEF WritesSound
<1>6. CASE Ready(g) # {}
  <2>1. PICK count : count = CHOOSE k \in Ready(g) : \A m \in Ready(g) : m <= k
    OBVIOUS
  <2>2. /\ count \in 1 .. Len(completions)
        /\ \A i \in 1 .. count : completions[i].generation <= g
    <3>1. Len(completions) \in Nat
      BY LenProperties DEF WritesSound, WriteTypes
    <3> QED
      BY <1>6, <2>1, <3>1, ReadyIsPrefix
  <2>3. PICK batch : batch = [i \in 1 .. count |-> completions[i].write]
    OBVIOUS
  <2>4. /\ completions' = Remaining(count) /\ completed' = completed
        /\ retire' = [retire EXCEPT ![t].batch = batch]
    <3>1. count # 0
      BY <2>2
    <3> QED
      BY <1>1, <1>6, <2>1, <2>3, <3>1 DEF Finish
  <2>5. /\ batch \in Seq(S) /\ batch # <<>> /\ Distinct(batch)
        /\ Elements(batch) = {completions[i].write : i \in 1 .. count}
        /\ Elements(batch) \subseteq Queued /\ Queued' = Queued \ Elements(batch)
        /\ completions' \in Seq([generation : 1 .. accepted, write : S])
        /\ \A i \in 1 .. Len(completions') :
             completions'[i].generation = writes[completions'[i].write]
        /\ \A i, j \in 1 .. Len(completions') :
             completions'[i].write = completions'[j].write => i = j
    BY <2>2, <2>3, <2>4, QueueIsCut DEF S
  <2>6. /\ retire' \in [Runners -> [generation : 0 .. accepted, batch : Seq(S)]]
        /\ retire'[t].batch = batch
        /\ \A s \in Runners : s # t => retire'[s] = retire[s]
        /\ \A s \in Runners : retire'[s].generation = retire[s].generation
    BY <1>2, <2>4, <2>5
  <2>7. WriteTypes'
    BY <1>2, <2>4, <2>5, <2>6 DEF WritesSound, WriteTypes, S
  <2>8. Covering'
    <3>1. ASSUME NEW w \in Elements(batch) PROVE Covered(w)
      <4>1. PICK i \in 1 .. count : w = completions[i].write
        BY <2>5, <3>1
      <4>2. i \in 1 .. Len(completions) /\ completions[i].generation <= g
        BY <2>2
      <4>3. writes[w] <= g
        BY <4>1, <4>2 DEF WritesSound, Covering
      <4> QED
        BY <1>2, <4>3 DEF Covered
    <3>2. \A s \in Runners : \A w \in Elements(retire'[s].batch) : Covered(w)'
      BY <1>4, <2>6, <3>1 DEF WritesSound, Covering
    <3> QED
      BY <1>2, <1>4, <2>4, <2>5, <2>6, <3>2 DEF WritesSound, Covering
  <2>9. Placing'
    <3>1. \A s \in Runners : Distinct(retire'[s].batch)
      BY <2>5, <2>6 DEF WritesSound, Placing
    <3>2. CASE t = Pump
      <4>1. Places(Queued, {immediate} \ {0}, {}, Elements(retire[Render].batch),
                   Elements(stored), Len(writes))
        BY <1>2, <1>3, <3>2 DEF WritesSound, Placing
      <4>2. Places(Queued \ Elements(batch), {immediate} \ {0}, Elements(batch),
                   Elements(retire[Render].batch), Elements(stored), Len(writes))
        BY <2>5, <4>1 DEF Places
      <4>3. retire'[Pump].batch = batch /\ retire'[Render] = retire[Render]
        BY <2>6, <3>2, RunnersAssumption DEF Pump, Render
      <4> QED
        BY <1>2, <2>5, <3>1, <4>2, <4>3 DEF WritesSound, Placing
    <3>3. CASE t = Render
      <4>1. Places(Queued, {immediate} \ {0}, Elements(retire[Pump].batch), {},
                   Elements(stored), Len(writes))
        BY <1>2, <1>3, <3>3 DEF WritesSound, Placing
      <4>2. Places(Queued \ Elements(batch), {immediate} \ {0}, Elements(retire[Pump].batch),
                   Elements(batch), Elements(stored), Len(writes))
        BY <2>5, <4>1 DEF Places
      <4>3. retire'[Render].batch = batch /\ retire'[Pump] = retire[Pump]
        BY <2>6, <3>3, RunnersAssumption DEF Pump, Render
      <4> QED
        BY <1>2, <2>5, <3>1, <4>2, <4>3 DEF WritesSound, Placing
    <3> QED
      BY <3>2, <3>3, RunnersAssumption
  <2> QED
    BY <2>7, <2>8, <2>9 DEF WritesSound
<1> QED
  BY <1>5, <1>6

\* While the render thread waits for its frame it holds no completion and retires nothing.
Awaiting == render = "await" => Free(Render) /\ held[Render] = Nothing

LEMMA AwaitingKept == PoolSound /\ WriteTypes /\ Awaiting /\ [Next]_vars => Awaiting'
<1> SUFFICES ASSUME PoolSound, WriteTypes, Awaiting, [Next]_vars, render' = "await"
             PROVE  Free(Render)' /\ held'[Render] = Nothing
  BY DEF Awaiting
<1>1. Pump # Render /\ Render \in Runners
  BY RunnersAssumption DEF Pump, Render
<1>2. CASE SubmitAndWait
  BY <1>2 DEF SubmitAndWait, SubmitToPool, Free
<1>3. ASSUME NEW t \in Runners, Retire(t) \/ TakeCompletions(t) \/ RunCompletion(t)
      PROVE  Free(Render)' /\ held'[Render] = Nothing
  <2>1. render = "await" /\ Free(Render) /\ held[Render] = Nothing
    BY <1>3 DEF Retire, Finish, StoreWrite, TakeCompletions, RunCompletion, Awaiting
  <2>2. t # Render
    <3>1. ~Retire(Render)
      <4>1. retire[Render].generation = NoFrame /\ retire[Render].batch = <<>>
        BY <2>1 DEF Free, NotRetiring
      <4> QED
        BY <4>1 DEF Retire, Finish, StoreWrite
    <3>2. ~TakeCompletions(Render)
      BY <2>1 DEF TakeCompletions
    <3>3. ~RunCompletion(Render)
      BY <2>1 DEF RunCompletion, Run
    <3> QED
      BY <1>3, <3>1, <3>2, <3>3
  <2>3. CASE Retire(t)
    <3>1. held' = held
      BY <2>3 DEF Retire, Finish, StoreWrite, deliveryVars
    <3>2. retire'[Render] = retire[Render]
      <4>1. CASE Finish(t)
        <5>1. PICK batch : retire' \in {[retire EXCEPT ![t] = NotRetiring],
                                        [retire EXCEPT ![t].batch = batch]}
          BY <4>1 DEF Finish
        <5> QED
          BY <1>1, <2>2, <5>1 DEF WriteTypes
      <4>2. CASE StoreWrite(t)
        BY <1>1, <2>2, <4>2 DEF StoreWrite, WriteTypes
      <4> QED
        BY <2>3, <4>1, <4>2 DEF Retire
    <3> QED
      BY <2>1, <3>1, <3>2 DEF Free
  <2>4. CASE TakeCompletions(t)
    <3>1. held'[Render] = held[Render] /\ retire' = retire
      BY <1>1, <2>2, <2>4 DEF TakeCompletions, Take, PoolSound
    <3> QED
      BY <2>1, <3>1 DEF Free
  <2>5. CASE RunCompletion(t)
    <3>1. held'[Render] = held[Render]
      BY <1>1, <2>2, <2>5 DEF RunCompletion, Run, PoolSound
    <3>2. retire'[Render] = retire[Render]
      BY <1>1, <2>2, <2>5 DEF RunCompletion, BeginRetire, WriteTypes
    <3> QED
      BY <2>1, <3>1, <3>2 DEF Free
  <2> QED
    BY <1>3, <2>3, <2>4, <2>5
<1>4. CASE \/ SubmitFrame \/ DeferWrite \/ RunImmediate \/ Stop \/ PumpOversleeps
           \/ GpuFinishes \/ DeviceLoss \/ Quiet \/ UNCHANGED vars
  <2>1. UNCHANGED <<render, retire, held>>
    BY <1>4 DEF SubmitFrame, DeferWrite, RunImmediate, Stop, PumpOversleeps, GpuFinishes, GpuDone,
                DeviceLoss, LoseDevice, Quiet, vars, deliveryVars
  <2> QED
    BY <2>1 DEF Awaiting, Free
<1>5. CASE \/ TakeFrame \/ EndThread \/ BeginDrain \/ EndDrain \/ SubmitDeferred \/ AwaitDone
           \/ FrameFails \/ FrameDropped \/ CompleteFrame
  BY <1>5 DEF TakeFrame, EndThread, BeginDrain, EndDrain, SubmitDeferred, AwaitDone, FrameFails,
              FrameDropped, CompleteFrame
<1> QED
  BY <1>2, <1>3, <1>4, <1>5 DEF Next, RenderStep

\* Steps that concern only frames leave the writes alone.
LEMMA WritesUntouched == ASSUME WritesSound, UNCHANGED writeVars PROVE WritesSound'
BY DEF writeVars, retirementVars, processorVars, WritesSound, WriteTypes, Covering, Covered,
       Placing, Queued

\* A new frame widens the generations.
LEMMA SubmittedWrites == ASSUME FrameSound, WritesSound, SubmitFrame PROVE WritesSound'
<1>1. /\ accepted' = accepted + 1 /\ accepted \in Nat
      /\ UNCHANGED <<completed, completions, retire, immediate, writes, stored, retired>>
  BY DEF SubmitFrame, processorVars, FrameSound, FrameTypes
<1>2. PICK n : n = accepted + 1
  OBVIOUS
<1>3. writes \in Seq(0 .. n)
  <2>1. writes \in Seq(0 .. accepted) /\ 0 .. accepted \subseteq 0 .. n
    BY <1>1, <1>2 DEF WritesSound, WriteTypes
  <2> QED
    BY <2>1, SeqMonotonic
<1>4. completions \in Seq([generation : 1 .. n, write : 1 .. Len(writes)])
  <2> DEFINE S == [generation : 1 .. accepted, write : 1 .. Len(writes)]
             T == [generation : 1 .. n, write : 1 .. Len(writes)]
  <2>1. completions \in Seq(S) /\ S \subseteq T
    BY <1>1, <1>2 DEF WritesSound, WriteTypes
  <2> HIDE DEF S, T
  <2>2. completions \in Seq(T)
    BY <2>1, SeqMonotonic
  <2> QED
    BY <2>2 DEF T
<1>5. retire \in [Runners -> [generation : 0 .. n, batch : Seq(1 .. Len(writes))]]
  BY <1>1, <1>2 DEF WritesSound, WriteTypes
<1>6. WriteTypes'
  BY <1>1, <1>2, <1>3, <1>4, <1>5 DEF WritesSound, WriteTypes
<1>7. Covering' /\ Placing'
  BY <1>1 DEF WritesSound, Covering, Covered, Placing, Queued
<1> QED
  BY <1>6, <1>7 DEF WritesSound

\* Every step keeps every write in its place, covered before it is stored.
LEMMA WritesKept ==
  PoolSound /\ FrameSound /\ Awaiting /\ WritesSound /\ [Next]_vars => WritesSound'
<1> SUFFICES ASSUME PoolSound, FrameSound, Awaiting, WritesSound, [Next]_vars
             PROVE  WritesSound'
  OBVIOUS
<1>1. CASE SubmitFrame
  BY <1>1, SubmittedWrites
<1>2. CASE DeferWrite
  BY <1>2, DeferPlaces
<1>3. CASE RunImmediate
  BY <1>3, ImmediatePlaces
<1>4. CASE AwaitDone \/ FrameFails
  <2>1. Rendering /\ Free(Render) /\ Render \in Runners
    BY <1>4, RunnersAssumption DEF AwaitDone, FrameFails, Recording, Rendering, Awaiting
  <2>2. active \in 1 .. accepted
    BY <2>1 DEF FrameSound, FrameTypes, NoFrame
  <2>3. BeginRetire(Render, active)
    BY <1>4 DEF AwaitDone, FrameFails
  <2>4. UNCHANGED <<accepted, retirementVars, processorVars, stored>>
    BY <1>4 DEF AwaitDone, FrameFails, retirementVars
  <2> QED
    BY <2>1, <2>2, <2>3, <2>4, RetireBegins
<1>5. ASSUME NEW t \in Runners, RunCompletion(t)
      PROVE  WritesSound'
  <2>1. UNCHANGED <<accepted, retirementVars, processorVars, stored>>
    BY <1>5 DEF RunCompletion, retirementVars
  <2>2. CASE owedTo[held[t].next] = NoFrame
    <3>1. UNCHANGED writeVars
      BY <1>5, <2>1, <2>2 DEF RunCompletion, writeVars
    <3> QED
      BY <3>1, WritesUntouched
  <2>3. CASE owedTo[held[t].next] # NoFrame
    <3>1. held[t].next \in 1 .. submitted
      BY <1>5 DEF RunCompletion, Run, PoolSound
    <3>2. owedTo[held[t].next] \in 1 .. accepted
      <4>1. owedTo \in Seq(0 .. accepted) /\ Len(owedTo) = submitted
        BY DEF FrameSound, FrameTypes
      <4>2. owedTo[held[t].next] \in 0 .. accepted
        BY <3>1, <4>1, ElementOfSeq
      <4> QED
        BY <2>3, <4>2 DEF NoFrame
    <3>3. Free(t) /\ BeginRetire(t, owedTo[held[t].next])
      BY <1>5, <2>3 DEF RunCompletion
    <3> QED
      BY <2>1, <3>2, <3>3, RetireBegins
  <2> QED
    BY <2>2, <2>3
<1>6. ASSUME NEW t \in Runners, Retire(t)
      PROVE  WritesSound'
  BY <1>6, FinishPlaces, StorePlaces DEF Retire
<1>7. ASSUME NEW t \in Runners, TakeCompletions(t)
      PROVE  WritesSound'
  <2>1. UNCHANGED writeVars
    BY <1>7 DEF TakeCompletions, writeVars, retirementVars
  <2> QED
    BY <2>1, WritesUntouched
<1>8. CASE \/ TakeFrame \/ EndThread \/ BeginDrain \/ EndDrain \/ SubmitDeferred
           \/ SubmitAndWait \/ FrameDropped \/ CompleteFrame \/ Stop \/ PumpOversleeps
           \/ GpuFinishes \/ DeviceLoss \/ Quiet \/ UNCHANGED vars
  <2>1. UNCHANGED writeVars
    BY <1>8 DEF TakeFrame, EndThread, BeginDrain, EndDrain, SubmitDeferred, SubmitAndWait,
                FrameDropped, CompleteFrame, Stop, PumpOversleeps, GpuFinishes, DeviceLoss, Quiet,
                vars, writeVars, retirementVars
  <2> QED
    BY <2>1, WritesUntouched
<1> QED
  BY <1>1, <1>2, <1>3, <1>4, <1>5, <1>6, <1>7, <1>8 DEF Next, RenderStep

-----------------------------------------------------------------------------
(* Theorems *)

AsleepType == asleep \in {"no", "leased", "abandoned"}

LEMMA AsleepKept == AsleepType /\ [Next]_vars => AsleepType'
<1> SUFFICES ASSUME AsleepType, [Next]_vars PROVE AsleepType'
  OBVIOUS
<1> USE DEF AsleepType
<1>1. CASE RenderStep
  BY <1>1 DEF RenderStep, TakeFrame, EndThread, BeginDrain, EndDrain, SubmitDeferred, SubmitAndWait,
              AwaitDone, FrameFails, FrameDropped, CompleteFrame, AfterSubmission
<1>2. ASSUME NEW t \in Runners, Retire(t) \/ TakeCompletions(t) \/ RunCompletion(t)
      PROVE  AsleepType'
  BY <1>2 DEF Retire, Finish, StoreWrite, TakeCompletions, RunCompletion
<1>3. CASE \/ SubmitFrame \/ DeferWrite \/ RunImmediate \/ Stop \/ PumpOversleeps
           \/ GpuFinishes \/ DeviceLoss \/ Quiet \/ UNCHANGED vars
  BY <1>3 DEF SubmitFrame, DeferWrite, RunImmediate, Stop, PumpOversleeps, GpuFinishes, DeviceLoss,
              Quiet, vars
<1> QED
  BY <1>1, <1>2, <1>3 DEF Next

Sound == PoolSound /\ FrameSound /\ ReadAhead /\ Awaiting /\ WritesSound /\ AsleepType

LEMMA AlwaysSound == Spec => []Sound
<1>1. Init => Sound
  <2> SUFFICES ASSUME Init PROVE Sound
    OBVIOUS
  <2>1. PoolSound /\ FrameSound /\ WritesSound
    BY PoolInitially, FrameInitially, WritesInitially DEF Init
  <2>2. ReadAhead /\ Awaiting /\ AsleepType
    BY DEF Init, DeliveryInit, ReadAhead, Awaiting, AsleepType
  <2> QED
    BY <2>1, <2>2 DEF Sound
<1>2. Sound /\ [Next]_vars => Sound'
  <2> SUFFICES ASSUME Sound, [Next]_vars PROVE Sound'
    OBVIOUS
  <2> USE DEF Sound
  <2>1. PoolSound'
    BY StepOfPool, PoolKept
  <2>2. FrameSound' /\ ReadAhead'
    BY FrameKept, ReadAheadKept
  <2>3. Awaiting'
    BY AwaitingKept DEF WritesSound
  <2>4. WritesSound'
    BY WritesKept
  <2>5. AsleepType'
    BY AsleepKept
  <2> QED
    BY <2>1, <2>2, <2>3, <2>4, <2>5
<1> QED
  BY <1>1, <1>2, PTL DEF Spec

\* Every variable keeps its type: frames and generations stay within those submitted and
\* accepted, whatever the interleaving of processor, render thread, pump and GPU.
THEOREM PipelineTypeCorrect == Spec => []TypeOK
<1>1. Sound => TypeOK
  <2> SUFFICES ASSUME Sound PROVE TypeOK
    OBVIOUS
  <2>1. /\ submitted \in Nat /\ reading \subseteq 1 .. submitted
        /\ taken \in 1 .. (submitted + 1)
        /\ held \in [Runners -> [next : Nat, end : Nat, ok : BOOLEAN]]
        /\ lostFrames \subseteq 1 .. submitted /\ Delivered \subseteq 1 .. submitted
    BY DEF Sound, PoolSound
  <2>2. lost \in BOOLEAN
    BY DEF Sound, PoolSound
  <2>3. /\ accepted \in Nat /\ pending \in 0 .. accepted /\ active \in 0 .. accepted
        /\ render \in {"take", "frame", "drain", "drained", "await", "complete", "ended"}
        /\ owedTo \in Seq(0 .. accepted) /\ Len(owedTo) = submitted
        /\ retired \subseteq 1 .. accepted
    BY DEF Sound, FrameSound, FrameTypes
  <2>4. closed \in BOOLEAN /\ troubled \in BOOLEAN
    BY DEF Sound, FrameSound, FrameTypes
  <2>5. WriteTypes
    BY DEF Sound, WritesSound
  <2>6. asleep \in {"no", "leased", "abandoned"}
    BY DEF Sound, AsleepType
  <2> QED
    BY <2>1, <2>2, <2>3, <2>4, <2>5, <2>6 DEF TypeOK, WriteTypes
<1> QED
  BY <1>1, AlwaysSound, PTL

\* A deferred write is queued, about to be run, in one batch or stored once, never two of these
\* and never none, although two threads may be inside RenderRetirement::Finish at once.
THEOREM WritesAreConserved == Spec => []WritesConserved
<1>1. Sound => WritesConserved
  <2> SUFFICES ASSUME Sound PROVE WritesConserved
    OBVIOUS
  <2>1. PICK q, o, p, r, d : /\ q = Queued /\ o = {immediate} \ {0}
                             /\ p = Elements(retire[Pump].batch)
                             /\ r = Elements(retire[Render].batch) /\ d = Elements(stored)
    OBVIOUS
  <2>2. Places(q, o, p, r, d, Len(writes)) /\ Distinct(stored)
    BY <2>1 DEF Sound, WritesSound, Placing
  <2>3. PICK places : places = <<q, o, p, r, d>>
    OBVIOUS
  <2>4. /\ places[1] = q /\ places[2] = o /\ places[3] = p /\ places[4] = r /\ places[5] = d
        /\ 1 .. 5 = {1, 2, 3, 4, 5}
    BY <2>3
  <2>5. UNION {places[i] : i \in 1 .. 5} = 1 .. Len(writes)
    <3>1. UNION {places[i] : i \in 1 .. 5} = q \union o \union p \union r \union d
      <4>1. {places[i] : i \in 1 .. 5} = {q, o, p, r, d}
        BY <2>4
      <4> QED
        BY <4>1
    <3> QED
      BY <2>2, <3>1 DEF Places
  <2>6. \A i, j \in 1 .. 5 : i # j => places[i] \intersect places[j] = {}
    BY <2>2, <2>4 DEF Places
  <2> QED
    BY <2>1, <2>2, <2>3, <2>5, <2>6 DEF WritesConserved, Distinct
<1> QED
  BY <1>1, AlwaysSound, PTL

\* A write is stored only once a frame at least as new as the one it was deferred behind has
\* been retired, whichever threads finish which generations in which order
\* (RenderRetirement::Finish).
THEOREM WritesFollowFrames == Spec => []NoWriteBeforeItsFrame
<1>1. Sound => NoWriteBeforeItsFrame
  BY DEF Sound, WritesSound, Covering, Covered, NoWriteBeforeItsFrame
<1> QED
  BY <1>1, AlwaysSound, PTL

\* When every frame reaches the GPU, no write is stored while the GPU reads the frame it was
\* deferred behind or an older one (the retire callback in render_thread.cpp).
THEOREM NothingIsRecycledEarly == Spec => []NoRecycleUnlessTroubled
<1>1. Sound => NoRecycleUnlessTroubled
  <2> SUFFICES ASSUME Sound, ~troubled, NEW w \in Elements(stored), NEW n \in reading,
                      owedTo[n] # NoFrame
               PROVE  owedTo[n] > writes[w]
    BY DEF NoRecycleUnlessTroubled, NoRecycleWhileRead
  <2>1. owedTo[n] \in 1 .. accepted /\ accepted \in Nat
    <3>1. owedTo \in Seq(0 .. accepted) /\ Len(owedTo) = submitted /\ n \in 1 .. submitted
      BY DEF Sound, PoolSound, FrameSound, FrameTypes
    <3>2. owedTo[n] \in 0 .. accepted
      BY <3>1, ElementOfSeq
    <3> QED
      BY <3>2 DEF Sound, FrameSound, FrameTypes, NoFrame
  <2>2. writes[w] \in 0 .. accepted
    <3>1. PICK i \in 1 .. Len(stored) : w = stored[i]
      BY DEF Elements
    <3>2. w \in 1 .. Len(writes)
      BY <3>1, ElementOfSeq DEF Sound, WritesSound, WriteTypes
    <3> QED
      BY <3>2, ElementOfSeq DEF Sound, WritesSound, WriteTypes
  <2>3. Covered(w)
    BY DEF Sound, WritesSound, Covering
  <2>4. CASE writes[w] = 0
    BY <2>1, <2>4
  <2>5. CASE writes[w] # 0
    <3>1. PICK g \in retired : writes[w] <= g
      BY <2>3, <2>5 DEF Covered
    <3>2. g < owedTo[n] /\ g \in 1 .. accepted
      BY DEF Sound, ReadAhead, FrameSound, FrameTypes
    <3> QED
      BY <2>1, <2>2, <3>1, <3>2
  <2> QED
    BY <2>4, <2>5
<1> QED
  BY <1>1, AlwaysSound, PTL

-----------------------------------------------------------------------------
(* Progress: what stands behind EveryFrameRetires and EveryWriteIsStoredUnlessTroubled.     *)
(* Both are about the newest accepted frame, since a newer frame retires every older one.   *)

\* Every step of the pipeline is one of the pool, and what is proved of the pool holds.
THEOREM PipelineUsesDelivery == Spec => DeliverySpec
<1>1. Init => DeliveryInit
  BY DEF Init
<1>2. Sound /\ [Next]_vars => [DeliveryNext]_deliveryVars
  BY StepOfPool DEF Sound
<1> QED
  BY AlwaysSound, <1>1, <1>2, PTL DEF Spec, DeliverySpec

\* The completions a runner has taken and not run, and those the pool has yet to run.
HeldNow(t) == held[t].next .. (held[t].end - 1)
Undone == {n \in 1 .. submitted : n >= taken \/ \E t \in Runners : n \in HeldNow(t)}

\* The completions that will retire a frame when they run.
OwedUndone == {n \in Undone : owedTo[n] # NoFrame}

\* A frame enters the pool undone, whoever takes it, and is done only when it is run.
LEMMA SubmittedIsUndone ==
  ASSUME PoolSound, SubmitToPool
  PROVE  Undone' = Undone \union {submitted + 1}
<1>1. /\ submitted \in Nat /\ taken \in 1 .. (submitted + 1) /\ submitted' = submitted + 1
      /\ UNCHANGED <<taken, held>>
  BY DEF PoolSound, SubmitToPool
<1>2. \A t \in Runners : HeldNow(t)' = HeldNow(t)
  BY <1>1 DEF HeldNow
<1>3. \A t \in Runners : \A n \in HeldNow(t) : n \in Nat /\ n < taken
  BY DEF HeldNow, PoolSound, Nothing
<1> QED
  BY <1>1, <1>2, <1>3 DEF Undone

LEMMA TakenIsUndone ==
  ASSUME PoolSound, NEW t \in Runners, NEW end \in taken .. (submitted + 1), Take(t, end)
  PROVE  Undone' = Undone
<1>1. /\ submitted' = submitted /\ taken' = end /\ held[t] = Nothing
      /\ submitted \in Nat /\ taken \in Nat /\ 1 <= taken
      /\ held \in [Runners -> [next : Nat, end : Nat, ok : BOOLEAN]]
  BY DEF PoolSound, Take
<1>2. PICK ok \in BOOLEAN :
        held' = IF end = taken THEN held
                ELSE [held EXCEPT ![t] = [next |-> taken, end |-> end, ok |-> ok]]
  BY DEF Take
<1>3. \A u \in Runners \ {t} : HeldNow(u)' = HeldNow(u)
  BY <1>1, <1>2 DEF HeldNow
<1>4. HeldNow(t) = {} /\ HeldNow(t)' = taken .. (end - 1)
  BY <1>1, <1>2 DEF HeldNow, Nothing
<1> QED
  BY <1>1, <1>3, <1>4 DEF Undone

LEMMA RunIsDone ==
  ASSUME PoolSound, NEW t \in Runners, Run(t)
  PROVE  /\ held[t].next \in Undone /\ held[t].next < taken
         /\ Undone' \subseteq Undone /\ Undone \ {held[t].next} \subseteq Undone'
         /\ HeldNow(t)' = HeldNow(t) \ {held[t].next}
         /\ \A u \in Runners \ {t} : HeldNow(u)' = HeldNow(u)
<1>1. /\ submitted' = submitted /\ taken' = taken
      /\ submitted \in Nat /\ taken \in 1 .. (submitted + 1)
      /\ held \in [Runners -> [next : Nat, end : Nat, ok : BOOLEAN]]
      /\ held[t].next \in 1 .. (held[t].end - 1) /\ held[t].end <= taken
  BY DEF PoolSound, Run
<1>2. held' = [held EXCEPT ![t] = IF held[t].next + 1 = held[t].end THEN Nothing
                                  ELSE [held[t] EXCEPT !.next = held[t].next + 1]]
  BY DEF Run
<1>3. \A u \in Runners \ {t} : HeldNow(u)' = HeldNow(u)
  BY <1>1, <1>2 DEF HeldNow
<1>4. HeldNow(t)' = HeldNow(t) \ {held[t].next} /\ held[t].next \in HeldNow(t)
  <2>1. CASE held[t].next + 1 = held[t].end
    BY <1>1, <1>2, <2>1 DEF HeldNow, Nothing
  <2>2. CASE held[t].next + 1 # held[t].end
    <3>1. held'[t].next = held[t].next + 1 /\ held'[t].end = held[t].end
      BY <1>1, <1>2, <2>2
    <3> QED
      BY <1>1, <3>1 DEF HeldNow
  <2> QED
    BY <2>1, <2>2
<1>5. held[t].next \in Undone
  BY <1>1, <1>4 DEF Undone
<1> QED
  BY <1>1, <1>3, <1>4, <1>5 DEF Undone

LEMMA UndoneUntouched ==
  ASSUME UNCHANGED <<submitted, taken, held>>
  PROVE  Undone' = Undone
BY DEF Undone, HeldNow

\* A runner's step concerns that runner only.
LEMMA RunnerAlone ==
  ASSUME PoolSound, WriteTypes, NEW t \in Runners,
         Retire(t) \/ TakeCompletions(t) \/ RunCompletion(t)
  PROVE  /\ \A u \in Runners \ {t} : held'[u] = held[u] /\ retire'[u] = retire[u]
         /\ UNCHANGED <<submitted, owedTo, lost, troubled, accepted, queueVars, render>>
<1>1. held \in [Runners -> [next : Nat, end : Nat, ok : BOOLEAN]]
      /\ retire \in [Runners -> [generation : 0 .. accepted, batch : Seq(1 .. Len(writes))]]
  BY DEF PoolSound, WriteTypes
<1>2. CASE Finish(t)
  <2>1. PICK batch : retire' \in {[retire EXCEPT ![t] = NotRetiring],
                                  [retire EXCEPT ![t].batch = batch]}
    BY <1>2 DEF Finish
  <2> QED
    BY <1>1, <1>2, <2>1 DEF Finish, deliveryVars
<1>3. CASE StoreWrite(t)
  BY <1>1, <1>3 DEF StoreWrite, deliveryVars, retirementVars
<1>4. CASE TakeCompletions(t)
  BY <1>1, <1>4 DEF TakeCompletions, Take, retirementVars
<1>5. CASE RunCompletion(t)
  BY <1>1, <1>5 DEF RunCompletion, Run, BeginRetire, retirementVars
<1> QED
  BY <1>2, <1>3, <1>4, <1>5 DEF Retire

\* The render thread has the active frame still to submit, to give up or to retire.
InHand == Unsubmitted \/ render = "await"

\* The newest accepted frame is still pending, being recorded, awaited, or in the pool.
FrameUnderWay ==
  \/ pending = accepted
  \/ InHand /\ active = accepted
  \/ \E n \in Undone : owedTo[n] = accepted

FramesKept == ~lost => accepted \in {NoFrame} \union retired \/ FrameUnderWay

\* Every step keeps the newest frame, until it is retired or the device is lost.
LEMMA FramesKeptStep == PoolSound /\ FrameSound /\ FramesKept /\ [Next]_vars => FramesKept'
<1> SUFFICES ASSUME PoolSound, FrameSound, FramesKept, [Next]_vars, ~lost'
             PROVE  accepted' \in {NoFrame} \union retired' \/ FrameUnderWay'
  BY DEF FramesKept
<1>1. ASSUME retired \subseteq retired', Undone' = Undone, ~lost,
             UNCHANGED <<accepted, pending, active, owedTo, render>>
      PROVE  accepted' \in {NoFrame} \union retired' \/ FrameUnderWay'
  BY <1>1 DEF FramesKept, FrameUnderWay, InHand, Unsubmitted
<1>2. CASE SubmitFrame
  BY <1>2 DEF SubmitFrame, FrameUnderWay, InHand, Unsubmitted
<1>3. CASE TakeFrame
  <2>1. /\ active' = pending /\ render' = "frame" /\ render = "take" /\ ~lost
        /\ UNCHANGED <<submitted, taken, held, accepted, retired, owedTo>>
    BY <1>3 DEF TakeFrame, deliveryVars, retirementVars
  <2> QED
    BY <2>1, UndoneUntouched DEF FramesKept, FrameUnderWay, InHand, Unsubmitted
<1>4. CASE SubmitDeferred \/ SubmitAndWait
  <2>1. PICK g \in {active, NoFrame} :
          /\ owedTo' = Append(owedTo, g)
          /\ \/ g = active /\ render' = "complete"
             \/ render' = "await"
          /\ Recording /\ ~lost /\ SubmitToPool
          /\ UNCHANGED <<accepted, pending, active, retired>>
    BY <1>4 DEF SubmitDeferred, SubmitAndWait, SubmitToPool, queueVars, retirementVars
  <2>2. Undone' = Undone \union {submitted + 1} /\ Undone \subseteq 1 .. submitted
    BY <2>1, SubmittedIsUndone DEF Undone
  <2>3. /\ \A n \in 1 .. submitted : owedTo'[n] = owedTo[n]
        /\ owedTo'[submitted + 1] = g
    <3>1. owedTo \in Seq(0 .. accepted) /\ Len(owedTo) = submitted /\ g \in 0 .. accepted
      BY DEF FrameSound, FrameTypes, NoFrame
    <3> QED
      BY <2>1, <3>1, AppendProperties
  <2> QED
    BY <2>1, <2>2, <2>3 DEF FramesKept, FrameUnderWay, InHand, Unsubmitted, Recording
<1>5. CASE AwaitDone \/ FrameFails
  <2>1. /\ retired' = retired \union {active} /\ ~lost
        /\ UNCHANGED <<submitted, taken, held, accepted, pending, active, owedTo>>
    BY <1>5 DEF AwaitDone, FrameFails, BeginRetire, deliveryVars, queueVars, retirementVars
  <2> QED
    BY <2>1, UndoneUntouched DEF FramesKept, FrameUnderWay, InHand, Unsubmitted
<1>6. CASE FrameDropped
  BY <1>6 DEF FrameDropped, deliveryVars
<1>7. CASE EndThread \/ CompleteFrame
  <2>1. /\ ~InHand /\ ~lost
        /\ UNCHANGED <<submitted, taken, held, accepted, pending, retired, owedTo>>
    BY <1>7 DEF EndThread, CompleteFrame, InHand, Unsubmitted, deliveryVars, queueVars,
                retirementVars
  <2> QED
    BY <2>1, UndoneUntouched DEF FramesKept, FrameUnderWay, InHand, Unsubmitted
<1>8. ASSUME NEW t \in Runners, RunCompletion(t)
      PROVE  accepted' \in {NoFrame} \union retired' \/ FrameUnderWay'
  <2>1. /\ Undone \ {held[t].next} \subseteq Undone' /\ ~lost
        /\ UNCHANGED <<accepted, pending, active, render, owedTo>>
        /\ retired \subseteq retired'
        /\ owedTo[held[t].next] \in {NoFrame} \union retired'
    BY <1>8, RunIsDone DEF RunCompletion, Run, BeginRetire, queueVars, retirementVars
  <2> QED
    BY <2>1 DEF FramesKept, FrameUnderWay, InHand, Unsubmitted
<1>9. ASSUME NEW t \in Runners, TakeCompletions(t)
      PROVE  accepted' \in {NoFrame} \union retired' \/ FrameUnderWay'
  <2>1. PICK end \in (taken + 1) .. (submitted + 1) : Take(t, end)
    BY <1>9 DEF TakeCompletions
  <2>2. end \in taken .. (submitted + 1)
    BY DEF PoolSound
  <2>3. Undone' = Undone
    BY <2>1, <2>2, TakenIsUndone
  <2> QED
    BY <1>1, <1>9, <2>1, <2>3 DEF TakeCompletions, Take, queueVars, retirementVars
<1>10. ASSUME NEW t \in Runners, Retire(t)
       PROVE  accepted' \in {NoFrame} \union retired' \/ FrameUnderWay'
  BY <1>1, <1>10, UndoneUntouched DEF Retire, Finish, StoreWrite, deliveryVars, queueVars,
     retirementVars
<1>11. CASE \/ DeferWrite \/ RunImmediate \/ Stop \/ PumpOversleeps \/ GpuFinishes \/ Quiet
            \/ UNCHANGED vars
  BY <1>1, <1>11, UndoneUntouched DEF DeferWrite, RunImmediate, Stop, PumpOversleeps, GpuFinishes,
     GpuDone, Quiet, vars, deliveryVars, queueVars, retirementVars
<1>12. CASE DeviceLoss
  BY <1>12 DEF DeviceLoss, LoseDevice
<1>13. CASE BeginDrain \/ EndDrain
  <2>1. /\ InHand' /\ InHand /\ ~lost
        /\ UNCHANGED <<submitted, taken, held, accepted, pending, active, retired, owedTo>>
    BY <1>13 DEF BeginDrain, EndDrain, InHand, Unsubmitted, deliveryVars, queueVars, retirementVars
  <2> QED
    BY <2>1, UndoneUntouched DEF FramesKept, FrameUnderWay
<1> QED
  BY <1>2, <1>3, <1>4, <1>5, <1>6, <1>7, <1>8, <1>9, <1>10, <1>11, <1>12, <1>13
     DEF Next, RenderStep

\* Whatever frames the queue displaces and the render thread fails to record, the newest
\* accepted frame is retired or still on its way to be, as long as the device is not lost: it
\* is pending, being recorded, awaited, or its completion is in the pool or in a runner's
\* hands (FrameQueue::Submit, SubmitFrameRender, the retire callback).
THEOREM NoFrameIsLost == Spec => []FramesKept
<1>1. Init => FramesKept
  BY DEF Init, FramesKept, NoFrame
<1>2. Sound /\ FramesKept /\ [Next]_vars => FramesKept'
  BY FramesKeptStep DEF Sound
<1> QED
  BY AlwaysSound, <1>1, <1>2, PTL DEF Spec

-----------------------------------------------------------------------------
(* No write is stranded *)

\* What the render thread holds of the pool, and when something has gone wrong.
RenderHolds ==
  /\ held[Render] # Nothing => render = "frame"
  /\ ~Free(Render) => render \in {"frame", "complete"}
  /\ lost => troubled

LEMMA RenderHoldsStep ==
  PoolSound /\ WriteTypes /\ RenderHolds /\ [Next]_vars => RenderHolds'
<1> SUFFICES ASSUME PoolSound, WriteTypes, RenderHolds, [Next]_vars PROVE RenderHolds'
  OBVIOUS
<1>0. Pump # Render /\ Render \in Runners
  BY RunnersAssumption DEF Pump, Render
<1>1. ASSUME NEW t \in Runners, Retire(t) \/ TakeCompletions(t) \/ RunCompletion(t)
      PROVE  RenderHolds'
  <2>1. /\ \A u \in Runners \ {t} : held'[u] = held[u] /\ retire'[u] = retire[u]
        /\ UNCHANGED <<lost, troubled, render>>
    BY <1>1, RunnerAlone
  <2>2. CASE t # Render
    BY <1>0, <2>1, <2>2 DEF RenderHolds, Free
  <2>3. CASE t = Render
    <3>1. CASE Retire(t)
      <4>1. ~Free(Render) /\ held' = held
        BY <2>3, <3>1 DEF Retire, Finish, StoreWrite, Free, NotRetiring, deliveryVars
      <4> QED
        BY <2>1, <4>1 DEF RenderHolds
    <3>2. CASE TakeCompletions(t)
      BY <2>1, <2>3, <3>2 DEF TakeCompletions, RenderHolds
    <3>3. CASE RunCompletion(t)
      BY <2>1, <2>3, <3>3 DEF RunCompletion, Run, RenderHolds
    <3> QED
      BY <1>1, <3>1, <3>2, <3>3
  <2> QED
    BY <2>2, <2>3
<1>2. CASE RenderStep
  BY <1>2 DEF RenderStep, TakeFrame, EndThread, BeginDrain, EndDrain, SubmitDeferred, SubmitAndWait,
     AwaitDone, FrameFails, FrameDropped, CompleteFrame, SubmitToPool, RenderHolds, Free,
     deliveryVars
<1>3. CASE \/ SubmitFrame \/ DeferWrite \/ RunImmediate \/ Stop \/ PumpOversleeps \/ GpuFinishes
           \/ Quiet \/ UNCHANGED vars
  BY <1>3 DEF SubmitFrame, DeferWrite, RunImmediate, Stop, PumpOversleeps, GpuFinishes, GpuDone,
     Quiet, vars, RenderHolds, Free, deliveryVars
<1>4. CASE DeviceLoss
  BY <1>4 DEF DeviceLoss, LoseDevice, RenderHolds, Free
<1> QED
  BY <1>1, <1>2, <1>3, <1>4 DEF Next

\* When the completion of the awaited frame has run, the pump has run all before it.
AwaitedIsLast ==
  render = "await" =>
    /\ submitted > 0 /\ owedTo[submitted] = NoFrame
    /\ submitted \in Delivered => Undone = {} /\ Free(Pump)

LEMMA AwaitedIsLastStep ==
  PoolSound /\ FrameSound /\ WriteTypes /\ Awaiting /\ AwaitedIsLast /\ [Next]_vars
    => AwaitedIsLast'
<1> SUFFICES ASSUME PoolSound, FrameSound, WriteTypes, Awaiting, AwaitedIsLast, [Next]_vars,
                    render' = "await"
             PROVE  /\ submitted' > 0 /\ owedTo'[submitted'] = NoFrame
                    /\ submitted' \in Delivered' => Undone' = {} /\ Free(Pump)'
  BY DEF AwaitedIsLast
<1>0. Pump # Render /\ Runners = {Pump, Render}
  BY RunnersAssumption DEF Pump, Render
<1>1. CASE SubmitAndWait
  <2>1. /\ submitted' = submitted + 1 /\ submitted \in Nat /\ owedTo' = Append(owedTo, NoFrame)
        /\ owedTo \in Seq(0 .. accepted) /\ Len(owedTo) = submitted
        /\ UNCHANGED <<succeeded, failed>> /\ Delivered \subseteq 1 .. submitted
    BY <1>1 DEF SubmitAndWait, SubmitToPool, PoolSound, FrameSound, FrameTypes
  <2>2. NoFrame \in 0 .. accepted
    BY DEF FrameSound, FrameTypes, NoFrame
  <2>3. owedTo'[submitted + 1] = NoFrame
    BY <2>1, <2>2, AppendProperties
  <2> QED
    BY <2>1, <2>3 DEF Delivered
<1>2. ASSUME render = "await", UNCHANGED <<submitted, taken, held, owedTo, succeeded, failed>>,
             retire'[Pump] = retire[Pump]
      PROVE  /\ submitted' > 0 /\ owedTo'[submitted'] = NoFrame
             /\ submitted' \in Delivered' => Undone' = {} /\ Free(Pump)'
  BY <1>2, UndoneUntouched DEF AwaitedIsLast, Delivered, Free
<1>3. ASSUME render = "await", Retire(Pump)
      PROVE  /\ submitted' > 0 /\ owedTo'[submitted'] = NoFrame
             /\ submitted' \in Delivered' => Undone' = {} /\ Free(Pump)'
  <2>1. ~Free(Pump) /\ UNCHANGED <<submitted, owedTo, succeeded, failed>>
    BY <1>3 DEF Retire, Finish, StoreWrite, Free, NotRetiring, deliveryVars
  <2> QED
    BY <1>3, <2>1 DEF AwaitedIsLast, Delivered
<1>4. ASSUME render = "await", TakeCompletions(Pump)
      PROVE  /\ submitted' > 0 /\ owedTo'[submitted'] = NoFrame
             /\ submitted' \in Delivered' => Undone' = {} /\ Free(Pump)'
  <2>1. PICK end \in (taken + 1) .. (submitted + 1) : Take(Pump, end)
    BY <1>4 DEF TakeCompletions
  <2>2. taken <= submitted /\ submitted \in Nat /\ UNCHANGED <<submitted, succeeded, failed>>
    BY <2>1 DEF PoolSound, Take
  <2>3. submitted \notin Delivered
    BY <2>2 DEF PoolSound
  <2> QED
    BY <1>4, <2>2, <2>3 DEF AwaitedIsLast, Delivered, TakeCompletions
<1>5. ASSUME render = "await", RunCompletion(Pump)
      PROVE  /\ submitted' > 0 /\ owedTo'[submitted'] = NoFrame
             /\ submitted' \in Delivered' => Undone' = {} /\ Free(Pump)'
  <2> DEFINE n == held[Pump].next
  <2>1. /\ Run(Pump) /\ Free(Pump) /\ UNCHANGED <<submitted, taken, owedTo>>
        /\ Delivered' \subseteq Delivered \union {n}
        /\ owedTo[n] = NoFrame => retire' = retire
    BY <1>5 DEF RunCompletion, Run, Delivered
  <2>2. /\ n \in Undone /\ n < taken /\ Undone' \subseteq Undone
        /\ HeldNow(Pump)' = HeldNow(Pump) \ {n} /\ HeldNow(Render)' = HeldNow(Render)
    BY <1>0, <2>1, RunIsDone
  <2>3. submitted \notin Delivered
    BY <1>5, <2>2 DEF AwaitedIsLast
  <2>4. ASSUME submitted = n
        PROVE  Undone' = {} /\ Free(Pump)'
    <3>1. HeldNow(Render) = {}
      <4>1. held[Render].next = 1 /\ held[Render].end = 1
        BY <1>5 DEF Awaiting, Nothing
      <4> QED
        BY <4>1 DEF HeldNow
    <3>2. HeldNow(Render)' = {}
      BY <2>2, <3>1
    <3>3. HeldNow(Pump) \subseteq {n}
      BY <1>0, <2>1, <2>4 DEF HeldNow, PoolSound, Run
    <3>4. taken = submitted + 1 /\ submitted \in Nat
      BY <2>2, <2>4 DEF PoolSound
    <3>5. Undone' = {}
      BY <1>0, <2>1, <2>2, <3>2, <3>3, <3>4 DEF Undone
    <3>6. owedTo[n] = NoFrame
      BY <1>5, <2>4 DEF AwaitedIsLast
    <3> QED
      BY <2>1, <3>5, <3>6 DEF Free
  <2> QED
    BY <1>5, <2>1, <2>3, <2>4 DEF AwaitedIsLast
<1>6. ASSUME NEW t \in Runners, Retire(t) \/ TakeCompletions(t) \/ RunCompletion(t)
      PROVE  /\ submitted' > 0 /\ owedTo'[submitted'] = NoFrame
             /\ submitted' \in Delivered' => Undone' = {} /\ Free(Pump)'
  <2>1. render = "await"
    BY <1>6, RunnerAlone
  <2>2. t = Render => FALSE
    <3>1. Free(Render) /\ held[Render] = Nothing
      BY <2>1 DEF Awaiting
    <3>2. ~Retire(Render)
      BY <3>1 DEF Retire, Finish, StoreWrite, Free, NotRetiring
    <3>3. ~TakeCompletions(Render) /\ ~RunCompletion(Render)
      BY <2>1, <3>1 DEF TakeCompletions, RunCompletion, Run
    <3> QED
      BY <1>6, <3>2, <3>3
  <2> QED
    BY <1>0, <1>3, <1>4, <1>5, <1>6, <2>1, <2>2
<1>7. CASE \/ SubmitFrame \/ DeferWrite \/ RunImmediate \/ Stop \/ PumpOversleeps
           \/ GpuFinishes \/ DeviceLoss \/ Quiet \/ UNCHANGED vars
  BY <1>2, <1>7 DEF SubmitFrame, DeferWrite, RunImmediate, Stop, PumpOversleeps, GpuFinishes,
     GpuDone, DeviceLoss, LoseDevice, Quiet, vars, deliveryVars
<1>8. CASE \/ TakeFrame \/ EndThread \/ BeginDrain \/ EndDrain \/ SubmitDeferred \/ AwaitDone
           \/ FrameFails \/ FrameDropped \/ CompleteFrame
  BY <1>8 DEF TakeFrame, EndThread, BeginDrain, EndDrain, SubmitDeferred, AwaitDone, FrameFails,
              FrameDropped, CompleteFrame
<1> QED
  BY <1>1, <1>6, <1>7, <1>8 DEF Next, RenderStep

\* The render thread neither records nor awaits a frame.
Between == render \in {"take", "complete", "ended"}

\* Somebody has yet to retire the newest accepted frame, and will be the last to.
OnItsWay ==
  /\ accepted # NoFrame
  /\ \/ pending = accepted
     \/ InHand /\ active = accepted
     \/ /\ Between /\ Free(Render)
        /\ \E n \in Undone : owedTo[n] = accepted
     \/ /\ Between /\ OwedUndone = {}
        /\ \E t \in Runners : /\ retire[t].generation = accepted
                              /\ \A u \in Runners \ {t} : Free(u)

\* Every accepted frame has been retired, and no write is queued.
Settled ==
  /\ Between /\ OwedUndone = {}
  /\ \A t \in Runners : Free(t)
  /\ completed = accepted /\ completions = <<>>

NotStranded == troubled \/ OnItsWay \/ Settled

\* What a step that keeps the frames and the pool apart from the writes has to keep.
LEMMA StrandingUntouched ==
  ASSUME NotStranded, Undone' = Undone,
         UNCHANGED <<accepted, pending, active, owedTo, render, retire, troubled>>,
         Settled => completed' = completed /\ completions' = completions
  PROVE  NotStranded'
<1>0. Pump \in Runners /\ Render \in Runners
  BY RunnersAssumption
<1>1. OwedUndone' = OwedUndone /\ \A t \in Runners : Free(t)' = Free(t)
  BY DEF OwedUndone, Free
<1>2. OnItsWay => OnItsWay'
  BY <1>0, <1>1 DEF OnItsWay, InHand, Unsubmitted, Between
<1>3. Settled => Settled'
  BY <1>1 DEF Settled, Between
<1> QED
  BY <1>2, <1>3 DEF NotStranded

\* No frame is pending once the newest is in the pool or retired.
LEMMA NewestIsNotPending ==
  ASSUME PoolSound, FrameSound, WritesSound,
         \/ \E n \in Undone : owedTo[n] = accepted
         \/ \E t \in Runners : accepted # NoFrame /\ retire[t].generation = accepted
         \/ Settled
  PROVE  pending = NoFrame
<1>1. /\ pending \in 0 .. accepted /\ accepted \in Nat
      /\ pending # NoFrame => /\ \A i \in 1 .. submitted : owedTo[i] < pending
                              /\ \A g \in retired : g < pending
  BY DEF FrameSound, FrameTypes, Growing
<1>2. CASE \E n \in Undone : owedTo[n] = accepted
  BY <1>1, <1>2 DEF Undone
<1>3. CASE \E t \in Runners : accepted # NoFrame /\ retire[t].generation = accepted
  BY <1>1, <1>3 DEF WritesSound, Covering
<1>4. CASE Settled
  BY <1>1, <1>4 DEF Settled, WritesSound, Covering, NoFrame
<1> QED
  BY <1>2, <1>3, <1>4

\* A render thread that enters the pool again has a frame newer than all before it.
LEMMA RecordingIsNewest ==
  ASSUME PoolSound, FrameSound, Recording, NotStranded, ~troubled
  PROVE  pending = accepted \/ active = accepted
BY DEF NotStranded, OnItsWay, Settled, Between, Recording

\* The frame that is submitted is the newest, or a newer one is pending.
LEMMA SubmissionStrandsNothing ==
  ASSUME PoolSound, FrameSound, NotStranded, SubmitDeferred \/ SubmitAndWait
  PROVE  NotStranded'
<1>1. PICK g \in {active, NoFrame} :
        /\ owedTo' = Append(owedTo, g)
        /\ \/ g = active /\ render' = "complete"
           \/ render' = "await"
        /\ Recording /\ SubmitToPool /\ Free(Render)
        /\ UNCHANGED <<accepted, pending, active, retire, troubled>>
  BY DEF SubmitDeferred, SubmitAndWait, queueVars, retirementVars
<1>2. Undone' = Undone \union {submitted + 1} /\ Free(Render)'
  BY <1>1, SubmittedIsUndone DEF Free
<1>3. owedTo'[submitted + 1] = g
  <2>1. owedTo \in Seq(0 .. accepted) /\ Len(owedTo) = submitted /\ g \in 0 .. accepted
    BY DEF FrameSound, FrameTypes, NoFrame
  <2> QED
    BY <1>1, <2>1, AppendProperties
<1>4. troubled \/ pending = accepted \/ active = accepted
  BY <1>1, RecordingIsNewest
<1>5. troubled \/ (Rendering /\ accepted # NoFrame)
  BY <1>1 DEF NotStranded, OnItsWay, Settled, Between, Rendering, Recording
<1> QED
  BY <1>1, <1>2, <1>3, <1>4, <1>5 DEF NotStranded, OnItsWay, InHand, Between

\* Running a completion passes the newest frame on to the runner that retires it.
LEMMA RunningStrandsNothing ==
  ASSUME PoolSound, FrameSound, WritesSound, RenderHolds, NotStranded,
         NEW t \in Runners, RunCompletion(t)
  PROVE  NotStranded'
<1>0. Pump # Render /\ Runners = {Pump, Render}
  BY RunnersAssumption DEF Pump, Render
<1> DEFINE n == held[t].next
<1>1. /\ Free(t) /\ Run(t) /\ held[t] # Nothing
      /\ UNCHANGED <<submitted, taken, accepted, pending, active, completed, completions, render,
                     owedTo, troubled>>
      /\ owedTo[n] = NoFrame => retire' = retire
      /\ owedTo[n] # NoFrame => BeginRetire(t, owedTo[n])
  BY DEF RunCompletion, Run, queueVars, retirementVars
<1>2. /\ n \in Undone /\ n < taken /\ Undone' \subseteq Undone /\ Undone \ {n} \subseteq Undone'
      /\ HeldNow(t)' = HeldNow(t) \ {n}
      /\ \A u \in Runners \ {t} : HeldNow(u)' = HeldNow(u)
  BY <1>1, RunIsDone
<1>3. OwedUndone' \subseteq OwedUndone
  BY <1>1, <1>2 DEF OwedUndone
<1>4. retire \in [Runners -> [generation : 0 .. accepted, batch : Seq(1 .. Len(writes))]]
  BY DEF WritesSound, WriteTypes
<1>5. \A u \in Runners \ {t} : retire'[u] = retire[u]
  BY <1>1, <1>4 DEF BeginRetire
<1>6. CASE troubled
  BY <1>1, <1>6 DEF NotStranded
<1>7. CASE pending = accepted /\ accepted # NoFrame
  BY <1>1, <1>7 DEF NotStranded, OnItsWay
<1>8. CASE InHand /\ active = accepted /\ accepted # NoFrame
  BY <1>1, <1>8 DEF NotStranded, OnItsWay, InHand, Unsubmitted
<1>9. ASSUME accepted # NoFrame, Between, Free(Render), \E m \in Undone : owedTo[m] = accepted
      PROVE  NotStranded'
  <2>1. t = Pump /\ held[Render] = Nothing
    BY <1>0, <1>1, <1>9 DEF RenderHolds, Between
  <2>2. PICK m \in Undone : owedTo[m] = accepted
    BY <1>9
  <2>3. Free(Render)' /\ Between'
    BY <1>0, <1>1, <1>5, <1>9, <2>1 DEF Free, Between
  <2>4. CASE m # n
    BY <1>1, <1>2, <1>9, <2>2, <2>3, <2>4 DEF NotStranded, OnItsWay
  <2>5. CASE m = n
    <3>1. retire'[Pump].generation = accepted
      BY <1>0, <1>1, <1>4, <1>9, <2>1, <2>2, <2>5 DEF BeginRetire
    <3>2. HeldNow(Render) = {}
      BY <2>1 DEF HeldNow, Nothing
    <3>3. ASSUME NEW k \in OwedUndone'
          PROVE  FALSE
      <4>1. k \in Undone' /\ k \in 1 .. submitted /\ owedTo[k] # NoFrame
        BY <1>1, <3>3 DEF OwedUndone, Undone
      <4>2. /\ owedTo[k] <= accepted /\ accepted \in Nat /\ owedTo[k] \in Nat
            /\ n \in 1 .. submitted /\ submitted \in Nat
        <5>1. /\ owedTo \in Seq(0 .. accepted) /\ Len(owedTo) = submitted /\ accepted \in Nat
          BY DEF FrameSound, FrameTypes
        <5>2. owedTo[k] \in 0 .. accepted
          BY <4>1, <5>1, ElementOfSeq
        <5> QED
          BY <1>2, <5>1, <5>2 DEF Undone, PoolSound
      <4>3. ~(n < k)
        BY <2>2, <2>5, <4>1, <4>2 DEF FrameSound, Growing
      <4>4. k <= n /\ k < taken
        BY <1>2, <4>1, <4>2, <4>3 DEF PoolSound
      <4>5. k \in HeldNow(Pump)'
        <5>1. ~(k >= taken')
          <6>1. taken' = taken /\ k \in Nat /\ taken \in Nat
            BY <1>1, <4>1, <4>2 DEF PoolSound
          <6> QED
            BY <4>4, <6>1
        <5>2. PICK u \in Runners : k \in HeldNow(u)'
          BY <4>1, <5>1 DEF Undone
        <5>3. HeldNow(Render)' = {}
          BY <1>0, <1>2, <2>1, <3>2
        <5> QED
          BY <1>0, <5>2, <5>3
      <4>6. k \in HeldNow(Pump) /\ k # n
        BY <1>2, <2>1, <4>5
      <4> QED
        BY <2>1, <4>2, <4>4, <4>6 DEF HeldNow
    <3>4. OwedUndone' = {}
      BY <3>3
    <3> QED
      BY <1>0, <1>1, <1>9, <2>3, <3>1, <3>4 DEF NotStranded, OnItsWay
  <2> QED
    BY <2>4, <2>5
<1>10. ASSUME Between, OwedUndone = {}
       PROVE  NotStranded'
  <2>1. owedTo[n] = NoFrame /\ retire' = retire
    BY <1>1, <1>2, <1>10 DEF OwedUndone
  <2>2. OwedUndone' = {} /\ Between' /\ \A u \in Runners : Free(u)' = Free(u)
    BY <1>1, <1>3, <1>10, <2>1 DEF Between, Free
  <2>3. CASE OnItsWay
    <3>1. CASE \E u \in Runners : /\ retire[u].generation = accepted
                                 /\ \A v \in Runners \ {u} : Free(v)
      BY <1>1, <2>1, <2>2, <2>3, <3>1 DEF NotStranded, OnItsWay
    <3> QED
      BY <1>7, <1>8, <1>9, <2>3, <3>1 DEF OnItsWay
  <2>4. CASE Settled
    BY <1>1, <2>2, <2>4 DEF NotStranded, Settled
  <2> QED
    BY <1>6, <2>3, <2>4 DEF NotStranded
<1> QED
  BY <1>6, <1>7, <1>8, <1>9, <1>10 DEF NotStranded, OnItsWay, Settled

\* Finishing a generation closes it only when it has released every write behind it.
LEMMA FinishStrandsNothing ==
  ASSUME PoolSound, FrameSound, WritesSound, NotStranded, NEW t \in Runners, Finish(t)
  PROVE  NotStranded'
<1>0. Pump # Render /\ Runners = {Pump, Render}
  BY RunnersAssumption DEF Pump, Render
<1>1. PICK g : g = retire[t].generation
  OBVIOUS
<1>2. /\ retire \in [Runners -> [generation : 0 .. accepted, batch : Seq(1 .. Len(writes))]]
      /\ g # NoFrame /\ ~Free(t)
      /\ UNCHANGED <<submitted, taken, held, accepted, pending, active, render, owedTo, troubled>>
  BY <1>1 DEF WritesSound, WriteTypes, Finish, Free, NotRetiring, deliveryVars, queueVars
<1>3. Undone' = Undone /\ OwedUndone' = OwedUndone
  BY <1>2, UndoneUntouched DEF OwedUndone
<1>4. PICK batch : retire' \in {[retire EXCEPT ![t] = NotRetiring],
                                [retire EXCEPT ![t].batch = batch]}
  BY DEF Finish
<1>5. \A u \in Runners \ {t} : retire'[u] = retire[u]
  BY <1>2, <1>4
<1>6. ~Settled
  BY <1>2 DEF Settled
<1>7. CASE \/ troubled
           \/ pending = accepted /\ accepted # NoFrame
           \/ InHand /\ active = accepted /\ accepted # NoFrame
  BY <1>2, <1>7 DEF NotStranded, OnItsWay, InHand, Unsubmitted
<1>8. ASSUME accepted # NoFrame, Between, Free(Render), \E m \in Undone : owedTo[m] = accepted
      PROVE  NotStranded'
  <2>1. t = Pump
    BY <1>0, <1>2, <1>8
  <2>2. Free(Render)' /\ Between'
    BY <1>0, <1>2, <1>5, <1>8, <2>1 DEF Free, Between
  <2> QED
    BY <1>2, <1>3, <1>8, <2>2 DEF NotStranded, OnItsWay
<1>9. ASSUME accepted # NoFrame, Between, OwedUndone = {}, NEW u \in Runners,
             retire[u].generation = accepted, \A v \in Runners \ {u} : Free(v)
      PROVE  NotStranded'
  <2>1. u = t /\ g = accepted
    BY <1>1, <1>2, <1>9
  <2>2. Between' /\ \A v \in Runners \ {t} : Free(v)'
    BY <1>2, <1>5, <1>9, <2>1 DEF Between, Free
  <2>3. CASE Ready(g) = {}
    <3>1. completed' = g /\ retire' = [retire EXCEPT ![t] = NotRetiring]
          /\ completions' = completions
      BY <1>1, <2>3 DEF Finish
    <3>2. \A v \in Runners : Free(v)'
      BY <1>2, <2>2, <3>1 DEF Free
    <3>3. completions = <<>>
      <4>1. /\ completions \in Seq([generation : 1 .. accepted, write : 1 .. Len(writes)])
            /\ accepted \in Nat
        BY DEF WritesSound, WriteTypes, FrameSound, FrameTypes
      <4>2. Len(completions) \in Nat
        BY <4>1, LenProperties
      <4>3. ASSUME Len(completions) # 0
            PROVE  FALSE
        <5>1. 1 \in 1 .. Len(completions)
          BY <4>2, <4>3
        <5>2. completions[1] \in [generation : 1 .. accepted, write : 1 .. Len(writes)]
          BY <4>1, <5>1, ElementOfSeq
        <5>3. completions[1].generation <= g
          BY <2>1, <4>1, <5>2
        <5>4. 1 \in Ready(g)
          BY <5>1, <5>3 DEF Ready
        <5> QED
          BY <2>3, <5>4
      <4> QED
        BY <4>1, <4>3, EmptySeq
    <3> QED
      BY <1>2, <1>3, <1>9, <2>1, <2>2, <3>1, <3>2, <3>3 DEF NotStranded, Settled
  <2>4. CASE Ready(g) # {}
    <3>1. PICK count : count = CHOOSE k \in Ready(g) : \A m \in Ready(g) : m <= k
      OBVIOUS
    <3>2. count \in 1 .. Len(completions)
      <4>1. Len(completions) \in Nat
        BY LenProperties DEF WritesSound, WriteTypes
      <4> QED
        BY <2>4, <3>1, <4>1, ReadyIsPrefix
    <3>3. \E b : retire' = [retire EXCEPT ![t].batch = b]
      <4>1. count # 0
        BY <3>2
      <4> QED
        BY <1>1, <2>4, <3>1, <4>1 DEF Finish
    <3>4. retire'[t].generation = accepted
      BY <1>1, <1>2, <2>1, <3>3
    <3> QED
      BY <1>2, <1>3, <1>9, <2>2, <3>4 DEF NotStranded, OnItsWay
  <2> QED
    BY <2>3, <2>4
<1> QED
  BY <1>6, <1>7, <1>8, <1>9 DEF NotStranded, OnItsWay

\* Every step of the pipeline.
LEMMA NotStrandedStep ==
  /\ PoolSound /\ FrameSound /\ WritesSound /\ Awaiting
  /\ RenderHolds /\ AwaitedIsLast /\ NotStranded /\ [Next]_vars
  => NotStranded'
<1> SUFFICES ASSUME PoolSound, FrameSound, WritesSound, Awaiting, RenderHolds, AwaitedIsLast,
                    NotStranded, [Next]_vars
             PROVE  NotStranded'
  OBVIOUS
<1>0. Pump # Render /\ Runners = {Pump, Render}
  BY RunnersAssumption DEF Pump, Render
<1>1. CASE SubmitFrame
  <2>1. accepted' = accepted + 1 /\ pending' = accepted + 1 /\ accepted \in Nat
    BY <1>1 DEF SubmitFrame, FrameSound, FrameTypes
  <2> QED
    BY <2>1 DEF NotStranded, OnItsWay, NoFrame
<1>2. CASE DeferWrite
  <2>1. /\ UNCHANGED <<submitted, taken, held, accepted, completed, pending, active, owedTo, render,
                       retire, troubled>>
        /\ accepted = completed => completions' = completions
    BY <1>2 DEF DeferWrite, AcceptedIsComplete, deliveryVars, queueVars, FrameSound, FrameTypes
  <2> QED
    BY <2>1, UndoneUntouched, StrandingUntouched DEF Settled
<1>3. CASE RunImmediate \/ Stop \/ PumpOversleeps \/ GpuFinishes \/ Quiet \/ UNCHANGED vars
  <2>1. UNCHANGED <<submitted, taken, held, accepted, completed, completions, pending, active,
                    owedTo, render, retire, troubled>>
    BY <1>3 DEF RunImmediate, Stop, PumpOversleeps, GpuFinishes, GpuDone, Quiet, vars, deliveryVars,
       queueVars, retirementVars
  <2> QED
    BY <2>1, UndoneUntouched, StrandingUntouched
<1>4. CASE TakeFrame
  <2>1. /\ render = "take" /\ pending # NoFrame /\ active' = pending /\ render' = "frame"
        /\ UNCHANGED <<accepted, troubled>>
    BY <1>4 DEF TakeFrame, retirementVars
  <2>2. troubled \/ pending = accepted
    BY <2>1, NewestIsNotPending DEF NotStranded, OnItsWay, InHand, Unsubmitted
  <2> QED
    BY <2>1, <2>2, NewestIsNotPending DEF NotStranded, OnItsWay, InHand, Unsubmitted
<1>5. CASE SubmitDeferred \/ SubmitAndWait
  BY <1>5, SubmissionStrandsNothing
<1>6. CASE AwaitDone
  <2>1. /\ render = "await" /\ submitted \in Delivered /\ BeginRetire(Render, active)
        /\ render' = "complete"
        /\ UNCHANGED <<submitted, taken, held, accepted, pending, active, owedTo, troubled>>
    BY <1>6 DEF AwaitDone, deliveryVars, queueVars, retirementVars
  <2>2. Undone' = {} /\ OwedUndone' = {} /\ Free(Pump)
    BY <2>1, UndoneUntouched DEF AwaitedIsLast, OwedUndone
  <2>3. retire'[Render].generation = active /\ retire'[Pump] = retire[Pump]
    BY <1>0, <2>1 DEF BeginRetire, WritesSound, WriteTypes
  <2>4. Free(Pump)'
    BY <2>2, <2>3 DEF Free
  <2>5. troubled \/ (accepted # NoFrame /\ (pending = accepted \/ active = accepted))
    BY <2>1 DEF NotStranded, OnItsWay, Settled, Between
  <2>6. CASE accepted # NoFrame /\ active = accepted
    <3>1. Between' /\ accepted' # NoFrame
      BY <2>1, <2>6 DEF Between
    <3>2. retire'[Render].generation = accepted' /\ \A u \in Runners \ {Render} : Free(u)'
      BY <1>0, <2>1, <2>3, <2>4, <2>6
    <3> QED
      BY <1>0, <2>2, <3>1, <3>2 DEF NotStranded, OnItsWay
  <2>7. CASE troubled \/ (accepted # NoFrame /\ pending = accepted)
    BY <2>1, <2>7 DEF NotStranded, OnItsWay
  <2> QED
    BY <2>5, <2>6, <2>7
<1>7. CASE FrameFails \/ FrameDropped \/ DeviceLoss
  BY <1>7 DEF FrameFails, FrameDropped, DeviceLoss, RenderHolds, NotStranded
<1>8. CASE EndThread \/ CompleteFrame
  <2>1. /\ render \in {"take", "complete"} /\ render' \in {"take", "ended"}
        /\ UNCHANGED <<submitted, taken, held, accepted, completed, completions, pending, owedTo,
                       retire, troubled>>
    BY <1>8 DEF EndThread, CompleteFrame, deliveryVars, queueVars, retirementVars
  <2>2. OwedUndone' = OwedUndone /\ Undone' = Undone /\ \A u \in Runners : Free(u)' = Free(u)
    BY <2>1, UndoneUntouched DEF OwedUndone, Free
  <2> QED
    BY <1>0, <2>1, <2>2 DEF NotStranded, OnItsWay, Settled, InHand, Unsubmitted, Between
<1>9. ASSUME NEW t \in Runners, RunCompletion(t)
      PROVE  NotStranded'
  BY <1>9, RunningStrandsNothing
<1>10. ASSUME NEW t \in Runners, Finish(t)
       PROVE  NotStranded'
  BY <1>10, FinishStrandsNothing
<1>11. ASSUME NEW t \in Runners, StoreWrite(t)
       PROVE  NotStranded'
  <2>1. /\ ~Free(t) /\ retire' = [retire EXCEPT ![t].batch = Tail(@)]
        /\ UNCHANGED <<submitted, taken, held, accepted, pending, active, owedTo, render, troubled>>
    BY <1>11 DEF StoreWrite, Free, NotRetiring, deliveryVars, queueVars, retirementVars
  <2>2. /\ \A u \in Runners : retire'[u].generation = retire[u].generation
        /\ \A u \in Runners : Free(u) => Free(u)'
    BY <2>1 DEF Free, WritesSound, WriteTypes
  <2>3. OwedUndone' = OwedUndone /\ Undone' = Undone
    BY <2>1, UndoneUntouched DEF OwedUndone
  <2>4. ~Settled
    BY <2>1 DEF Settled
  <2> QED
    BY <1>0, <2>1, <2>2, <2>3, <2>4 DEF NotStranded, OnItsWay, InHand, Unsubmitted, Between
<1>12. ASSUME NEW t \in Runners, TakeCompletions(t)
       PROVE  NotStranded'
  <2>1. PICK end \in (taken + 1) .. (submitted + 1) : Take(t, end)
    BY <1>12 DEF TakeCompletions
  <2>2. end \in taken .. (submitted + 1)
    BY DEF PoolSound
  <2>3. Undone' = Undone
    BY <2>1, <2>2, TakenIsUndone
  <2>4. UNCHANGED <<accepted, completed, completions, pending, active, owedTo, render, retire,
                    troubled>>
    BY <1>12 DEF TakeCompletions, queueVars, retirementVars
  <2> QED
    BY <2>3, <2>4, StrandingUntouched
<1>13. CASE BeginDrain \/ EndDrain
  <2>1. /\ InHand /\ InHand' /\ ~Between
        /\ UNCHANGED <<accepted, pending, active, troubled>>
    BY <1>13 DEF BeginDrain, EndDrain, InHand, Unsubmitted, Between, queueVars, retirementVars
  <2> QED
    BY <2>1 DEF NotStranded, OnItsWay, Settled
<1> QED
  BY <1>1, <1>2, <1>3, <1>4, <1>5, <1>6, <1>7, <1>8, <1>9, <1>10, <1>11, <1>12, <1>13
     DEF Next, RenderStep, Retire

\* A queued write waits for a frame that has been accepted and is not retired yet, whose
\* retirement, or a newer frame's, is under way and will be the last to look at the queue.
NoWriteStranded == ~troubled => (OnItsWay \/ (completions = <<>> /\ AcceptedIsComplete))

\* A title waiting on EVENT_WRITE_SHD makes progress even when no new frame arrives: while
\* every frame reaches the GPU, no write is queued and no accepted frame left open unless the
\* newest accepted frame is pending, being recorded, awaited, in the pool or being retired
\* with nobody else to retire an older one after it.  Since no write is deferred behind a
\* newer frame, that retirement releases all of them (RenderRetirement::Defer and Finish,
\* FrameQueue::Submit, the retire callback).
THEOREM NoWriteIsStranded == Spec => []NoWriteStranded
<1> DEFINE Progress == RenderHolds /\ AwaitedIsLast /\ NotStranded
<1>1. Init => Progress
  <2> SUFFICES ASSUME Init PROVE Progress
    OBVIOUS
  <2>1. /\ submitted = 0 /\ taken = 1 /\ held = [t \in Runners |-> Nothing] /\ lost = FALSE
        /\ render = "take" /\ \A t \in Runners : Free(t)
        /\ accepted = 0 /\ completed = 0 /\ completions = <<>>
    BY DEF Init, DeliveryInit, Free
  <2>2. Undone = {} /\ OwedUndone = {}
    BY <2>1 DEF Undone, OwedUndone
  <2>3. held[Render] = Nothing
    BY <2>1, RunnersAssumption
  <2>4. Settled
    BY <2>1, <2>2 DEF Settled, Between
  <2> QED
    BY <2>1, <2>3, <2>4, RunnersAssumption DEF RenderHolds, AwaitedIsLast, NotStranded
<1>2. Sound /\ Progress /\ [Next]_vars => Progress'
  BY RenderHoldsStep, AwaitedIsLastStep, NotStrandedStep DEF Sound, WritesSound
<1>3. Sound /\ Progress => NoWriteStranded
  <2> SUFFICES ASSUME Sound, Settled PROVE completions = <<>> /\ AcceptedIsComplete
    BY DEF NoWriteStranded, NotStranded
  <2> QED
    BY DEF Sound, FrameSound, FrameTypes, Settled, AcceptedIsComplete
<1> QED
  BY AlwaysSound, <1>1, <1>2, <1>3, PTL DEF Spec

=============================================================================

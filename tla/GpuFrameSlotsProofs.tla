------------------------- MODULE GpuFrameSlotsProofs -------------------------
(***************************************************************************)
(* Safety of the pool of frame slots for every capacity, every number of    *)
(* frames and every choice of outcomes.                                     *)
(***************************************************************************)
EXTENDS GpuFrameSlots, TLAPS

-----------------------------------------------------------------------------
(* Counting: the types, and the bookkeeping of the two runners' batches *)

BatchesInOrder ==
  \A t \in Runners : batch[t].first <= batch[t].next /\ batch[t].next <= batch[t].end

\* Between a collection and its settling the mutex has been released: callbacksRunning
\* counts the batches of both runners, whoever collected last.
CallbacksCounted ==
  callbacksRunning = (batch[Pump].end - batch[Pump].first)
                     + (batch[Render].end - batch[Render].first)

BatchesIdle ==
  /\ pump # "callbacks" => batch[Pump] = EmptyBatch
  /\ render # "callbacks" => batch[Render] = EmptyBatch

\* From the lease of a slot to its submission or cancellation.
HoldsLease ==
  \/ render \in {"reset", "record", "promote", "promoted", "queued", "orphan"}
  \/ render = "callbacks" /\ afterCallbacks = "reset"

LeasesASlot == HoldsLease => lease.slot \in Slots

Counting ==
  /\ TypeOK
  /\ LeasesASlot
  /\ BatchesInOrder
  /\ CallbacksCounted
  /\ BatchesIdle

\* What runner t takes: the sequences from the next one to complete up to end, the first that
\* has not retired.
TakesBatch(t, waited, freed) ==
  \E end \in nextCompletion .. nextSubmit :
    /\ Collects(ordered \union {sequenceOf[s] : s \in freed}, end)
    /\ ordered' = (ordered \union {sequenceOf[s] : s \in freed}) \ (nextCompletion .. (end - 1))
    /\ nextCompletion' = end
    /\ callbacksRunning' = callbacksRunning + (end - nextCompletion)
    /\ batch' = [batch EXCEPT ![t] = [first |-> nextCompletion, next |-> nextCompletion,
                                      end |-> end, ok |-> waited /\ ~backendLost']]

\* What one poll and collection does, for every runner: the slots it frees were in flight,
\* and the batch it collects is the next row of sequences.
LEMMA PollFacts ==
  ASSUME TypeOK, NEW t \in Runners, NEW lost \in BOOLEAN, NEW waited \in BOOLEAN,
         NEW freed \in SUBSET Slots, PollAndCollect(t, lost, waited, freed)
  PROVE  /\ freed \subseteq InFlightSlots
         /\ healthy' \in BOOLEAN /\ backendLost' \in BOOLEAN
         /\ inFlight' = [s \in Slots |-> inFlight[s] /\ s \notin freed]
         /\ abandoned' \subseteq abandoned \union {sequenceOf[s] : s \in freed}
         /\ abandoned \subseteq abandoned'
         /\ (abandoned' # abandoned => backendLost')
         /\ (lost \/ ~healthy' => backendLost')
         /\ TakesBatch(t, waited, freed)
<1>1. PICK errors \in PollErrors(lost) :
        LET broken     == ~healthy \/ errors # {}
            retired    == IF healthy THEN Retired(errors) ELSE {}
            lostSlots  == IF broken THEN Abandonable(retired) ELSE {}
            nowRetired == ordered \union {sequenceOf[s] : s \in freed}
        IN /\ freed = retired \union lostSlots
           /\ healthy' = ~broken
           /\ backendLost' = (lost \/ broken)
           /\ inFlight' = [s \in Slots |-> inFlight[s] /\ s \notin freed]
           /\ abandoned' = abandoned \union {sequenceOf[s] : s \in lostSlots}
           /\ \E end \in nextCompletion .. nextSubmit :
                /\ Collects(nowRetired, end)
                /\ ordered' = nowRetired \ (nextCompletion .. (end - 1))
                /\ nextCompletion' = end
                /\ CountsRunning(end)
                /\ batch' = [batch EXCEPT ![t] =
                               [first |-> nextCompletion, next |-> nextCompletion, end |-> end,
                                ok |-> Success(waited)]]
  BY DEF PollAndCollect
<1> DEFINE broken    == ~healthy \/ errors # {}
           retired   == IF healthy THEN Retired(errors) ELSE {}
           lostSlots == IF broken THEN Abandonable(retired) ELSE {}
<1>2. retired \subseteq InFlightSlots /\ lostSlots \subseteq InFlightSlots
  BY DEF Retired, Abandonable
<1>3. freed = retired \union lostSlots /\ (lostSlots # {} => broken)
  BY <1>1
<1>4. abandoned' = abandoned \union {sequenceOf[s] : s \in lostSlots}
  BY <1>1
<1>5. backendLost' = (lost \/ broken) /\ healthy' = ~broken
  BY <1>1
<1>6. abandoned' # abandoned => backendLost'
  <2>1. abandoned' # abandoned => lostSlots # {}
    BY <1>4
  <2> QED
    BY <2>1, <1>3, <1>5
<1>7. abandoned' \subseteq abandoned \union {sequenceOf[s] : s \in freed}
  BY <1>3, <1>4
<1>8. TakesBatch(t, waited, freed)
  BY <1>1 DEF CountsRunning, Success, TakesBatch
<1>9. inFlight' = [s \in Slots |-> inFlight[s] /\ s \notin freed]
  BY <1>1
<1> QED
  BY <1>2, <1>3, <1>4, <1>5, <1>6, <1>7, <1>8, <1>9 DEF TypeOK

\* The counting invariant holds before the first frame.
LEMMA CountingInit == Init => Counting
<1> SUFFICES ASSUME Init
             PROVE  Counting
  OBVIOUS
<1>1. TypeOK
  BY DEF Init, TypeOK, EmptyBatch, NoLease, PumpStates, RenderStates, OwnerStates
<1>2. BatchesInOrder /\ CallbacksCounted
  BY DEF Init, BatchesInOrder, CallbacksCounted, EmptyBatch, Runners, Pump, Render
<1>3. BatchesIdle /\ LeasesASlot
  BY DEF Init, BatchesIdle, LeasesASlot, HoldsLease, Runners, Pump, Render
<1> QED
  BY <1>1, <1>2, <1>3 DEF Counting

\* Collecting adds a batch and its length to the counter; the runner's batch was empty.
LEMMA CollectCounts ==
  ASSUME Counting, NEW t \in Runners, NEW end \in nextCompletion .. nextSubmit,
         NEW ok \in BOOLEAN,
         batch[t] = EmptyBatch,
         callbacksRunning' = callbacksRunning + (end - nextCompletion),
         batch' = [batch EXCEPT ![t] = [first |-> nextCompletion, next |-> nextCompletion,
                                        end |-> end, ok |-> ok]]
  PROVE  /\ BatchesInOrder' /\ CallbacksCounted'
         /\ callbacksRunning' \in Nat
         /\ batch' \in [Runners -> [first : Nat, next : Nat, end : Nat, ok : BOOLEAN]]
<1>1. end \in Nat /\ nextCompletion \in Nat /\ nextCompletion <= end
  BY DEF Counting, TypeOK
<1>2. batch' \in [Runners -> [first : Nat, next : Nat, end : Nat, ok : BOOLEAN]]
  BY <1>1 DEF Counting, TypeOK
<1>3. BatchesInOrder'
  BY <1>1 DEF Counting, TypeOK, BatchesInOrder
<1>4. callbacksRunning' \in Nat
  BY <1>1 DEF Counting, TypeOK
<1>5. CallbacksCounted'
  BY <1>1 DEF Counting, TypeOK, CallbacksCounted, Runners, Pump, Render, EmptyBatch
<1> QED
  BY <1>2, <1>3, <1>4, <1>5

\* A runner that has run its whole batch gives back exactly what it had added.
LEMMA SettleCounts ==
  ASSUME Counting, NEW t \in Runners, BatchDone(t)
  PROVE  /\ BatchesInOrder' /\ CallbacksCounted'
         /\ callbacksRunning' \in Nat
         /\ batch' \in [Runners -> [first : Nat, next : Nat, end : Nat, ok : BOOLEAN]]
         /\ batch'[t] = EmptyBatch
<1>1. batch[t].end \in Nat /\ batch[t].first \in Nat /\ batch[t].first <= batch[t].end
  BY DEF Counting, TypeOK, BatchesInOrder, BatchDone
<1>2. batch' \in [Runners -> [first : Nat, next : Nat, end : Nat, ok : BOOLEAN]]
      /\ batch'[t] = EmptyBatch
  BY DEF Counting, TypeOK, BatchDone, EmptyBatch
<1>3. BatchesInOrder'
  BY DEF Counting, TypeOK, BatchesInOrder, BatchDone, EmptyBatch
<1>4. callbacksRunning' \in Nat
  BY DEF Counting, TypeOK, BatchesInOrder, CallbacksCounted, BatchDone, Runners
<1>5. CallbacksCounted'
  BY DEF Counting, TypeOK, CallbacksCounted, BatchDone, Runners, Pump, Render, EmptyBatch
<1> QED
  BY <1>2, <1>3, <1>4, <1>5

\* A poll and collection by a runner whose batch is empty keeps the types and the count.
LEMMA PollCounts ==
  ASSUME Counting, NEW t \in Runners, NEW lost \in BOOLEAN, NEW waited \in BOOLEAN,
         NEW freed \in SUBSET Slots, PollAndCollect(t, lost, waited, freed),
         batch[t] = EmptyBatch
  PROVE  /\ BatchesInOrder' /\ CallbacksCounted'
         /\ callbacksRunning' \in Nat
         /\ batch' \in [Runners -> [first : Nat, next : Nat, end : Nat, ok : BOOLEAN]]
         /\ \A other \in Runners \ {t} : batch'[other] = batch[other]
         /\ healthy' \in BOOLEAN /\ backendLost' \in BOOLEAN
         /\ inFlight' \in [Slots -> BOOLEAN]
         /\ abandoned' \subseteq Nat /\ ordered' \subseteq Nat /\ nextCompletion' \in Nat
         /\ freed \subseteq InFlightSlots
<1>1. TypeOK
  BY DEF Counting
<1>2. {sequenceOf[s] : s \in freed} \subseteq Nat
  BY <1>1 DEF TypeOK
<1>3. /\ freed \subseteq InFlightSlots
      /\ healthy' \in BOOLEAN /\ backendLost' \in BOOLEAN
      /\ inFlight' = [s \in Slots |-> inFlight[s] /\ s \notin freed]
      /\ abandoned' \subseteq abandoned \union {sequenceOf[s] : s \in freed}
      /\ TakesBatch(t, waited, freed)
  BY <1>1, PollFacts
<1>4. PICK end \in nextCompletion .. nextSubmit :
        /\ ordered' = (ordered \union {sequenceOf[s] : s \in freed})
                        \ (nextCompletion .. (end - 1))
        /\ nextCompletion' = end
        /\ callbacksRunning' = callbacksRunning + (end - nextCompletion)
        /\ batch' = [batch EXCEPT ![t] =
                       [first |-> nextCompletion, next |-> nextCompletion, end |-> end,
                        ok |-> waited /\ ~backendLost']]
  BY <1>3 DEF TakesBatch
<1>5. /\ BatchesInOrder' /\ CallbacksCounted' /\ callbacksRunning' \in Nat
      /\ batch' \in [Runners -> [first : Nat, next : Nat, end : Nat, ok : BOOLEAN]]
  <2> DEFINE ok == waited /\ ~backendLost'
  <2>1. ok \in BOOLEAN
    OBVIOUS
  <2>2. batch' = [batch EXCEPT ![t] = [first |-> nextCompletion, next |-> nextCompletion,
                                       end |-> end, ok |-> ok]]
    BY <1>4
  <2> HIDE DEF ok
  <2> QED
    BY <1>4, <2>1, <2>2, CollectCounts
<1>6. inFlight' \in [Slots -> BOOLEAN]
  BY <1>1, <1>3 DEF TypeOK
<1>7. abandoned' \subseteq Nat /\ ordered' \subseteq Nat /\ nextCompletion' \in Nat
  <2>1. abandoned' \subseteq Nat
    BY <1>1, <1>2, <1>3 DEF TypeOK
  <2>2. ordered' \subseteq Nat
    BY <1>1, <1>2, <1>4 DEF TypeOK
  <2>3. nextCompletion' \in Nat
    BY <1>1, <1>4 DEF TypeOK
  <2> QED
    BY <2>1, <2>2, <2>3
<1>8. \A other \in Runners \ {t} : batch'[other] = batch[other]
  BY <1>1, <1>4 DEF TypeOK
<1> QED
  BY <1>3, <1>5, <1>6, <1>7, <1>8

\* Every step of the pool keeps the counting invariant.
LEMMA CountingStep == Counting /\ [Next]_vars => Counting'
<1> SUFFICES ASSUME Counting, [Next]_vars
             PROVE  Counting'
  OBVIOUS
<1> USE DEF Runners, Pump, Render
<1>1. CASE PumpTake
  BY <1>1 DEF PumpTake, Counting, TypeOK, BatchesInOrder, CallbacksCounted,
     BatchesIdle, LeasesASlot, HoldsLease,
     retirementVars, adapterVars, pumpVars, renderVars, gpuVars, history, PumpStates
<1>2. CASE PumpBeginWait
  BY <1>2 DEF PumpBeginWait, Counting, TypeOK, BatchesInOrder, CallbacksCounted,
     BatchesIdle, LeasesASlot, HoldsLease,
     retirementVars, adapterVars, pumpVars, renderVars, gpuVars, history, PumpStates
<1>3. CASE PumpWake
  BY <1>3 DEF PumpWake, Counting, TypeOK, BatchesInOrder, CallbacksCounted,
     BatchesIdle, LeasesASlot, HoldsLease,
     retirementVars, adapterVars, pumpVars, renderVars, gpuVars, history, PumpStates
<1>4. CASE PumpCollect
  <2> DEFINE lost == backendLost \/ ~waitOk
  <2>1. PICK freed \in SUBSET Slots :
          /\ PollAndCollect(Pump, lost, waitOk, freed)
          /\ state' = AfterPoll(freed)
    BY <1>4 DEF PumpCollect
  <2>2. batch[Pump] = EmptyBatch /\ lost \in BOOLEAN /\ waitOk \in BOOLEAN
    BY <1>4 DEF PumpCollect, Counting, TypeOK, BatchesIdle
  <2> HIDE DEF lost
  <2>3. /\ BatchesInOrder' /\ CallbacksCounted' /\ callbacksRunning' \in Nat
        /\ batch' \in [Runners -> [first : Nat, next : Nat, end : Nat, ok : BOOLEAN]]
        /\ batch'[Render] = batch[Render]
        /\ healthy' \in BOOLEAN /\ backendLost' \in BOOLEAN
        /\ inFlight' \in [Slots -> BOOLEAN]
        /\ abandoned' \subseteq Nat /\ ordered' \subseteq Nat /\ nextCompletion' \in Nat
    BY <2>1, <2>2, PollCounts
  <2>4. state' \in [Slots -> {"Free", "Recording", "InFlight"}]
    BY <2>1 DEF AfterPoll, Counting, TypeOK
  <2>5. BatchesIdle' /\ LeasesASlot'
    BY <1>4, <2>3 DEF PumpCollect, Counting, BatchesIdle, LeasesASlot, HoldsLease, renderVars
  <2>6. TypeOK'
    BY <1>4, <2>3, <2>4 DEF PumpCollect, Counting, TypeOK, PumpStates, renderVars, gpuVars
  <2> QED
    BY <2>3, <2>5, <2>6 DEF Counting
<1>5. CASE PumpSettle
  <2>1. /\ BatchesInOrder' /\ CallbacksCounted' /\ callbacksRunning' \in Nat
        /\ batch' \in [Runners -> [first : Nat, next : Nat, end : Nat, ok : BOOLEAN]]
        /\ batch'[Pump] = EmptyBatch
    BY <1>5, SettleCounts DEF PumpSettle
  <2>2. batch'[Render] = batch[Render]
    BY <1>5 DEF PumpSettle, BatchDone, Counting, TypeOK
  <2>3. TypeOK' /\ BatchesIdle' /\ LeasesASlot'
    BY <1>5, <2>1, <2>2 DEF PumpSettle, Counting, TypeOK, BatchesIdle, LeasesASlot, HoldsLease,
       PumpStates, retirementVars, renderVars, gpuVars, history
  <2> QED
    BY <2>1, <2>3 DEF Counting
<1>6. CASE BeginFrame
  BY <1>6 DEF BeginFrame, Counting, TypeOK, BatchesInOrder, CallbacksCounted,
     BatchesIdle, LeasesASlot, HoldsLease,
     retirementVars, adapterVars, pumpVars, renderVars, gpuVars, history, RenderStates
<1>7. CASE Grow
  BY <1>7 DEF Grow, Counting, TypeOK, BatchesInOrder, CallbacksCounted,
     BatchesIdle, LeasesASlot, HoldsLease,
     retirementVars, adapterVars, pumpVars, renderVars, gpuVars, history, RenderStates
<1>8. CASE AcquireRefused
  BY <1>8 DEF AcquireRefused, Counting, TypeOK, BatchesInOrder, CallbacksCounted,
     BatchesIdle, LeasesASlot, HoldsLease,
     retirementVars, adapterVars, pumpVars, renderVars, gpuVars, history, RenderStates
<1>9. CASE Acquire
  <2>1. PICK freed \in SUBSET Slots :
          /\ PollAndCollect(Render, FALSE, TRUE, freed)
          /\ \/ /\ \E s \in Slots :
                     /\ state' = [AfterPoll(freed) EXCEPT ![s] = "Recording"]
                     /\ generation' = [generation EXCEPT ![s] = @ + 1]
                     /\ lease' = [slot |-> s, generation |-> generation[s] + 1]
                /\ afterCallbacks' = "reset"
             \/ /\ state' = AfterPoll(freed)
                /\ afterCallbacks' = IF healthy' THEN "waitSlot" ELSE "idle"
                /\ UNCHANGED <<generation, lease>>
    BY <1>9 DEF Acquire
  <2>2. batch[Render] = EmptyBatch
    BY <1>9 DEF Acquire, Counting, BatchesIdle
  <2>3. /\ BatchesInOrder' /\ CallbacksCounted' /\ callbacksRunning' \in Nat
        /\ batch' \in [Runners -> [first : Nat, next : Nat, end : Nat, ok : BOOLEAN]]
        /\ batch'[Pump] = batch[Pump]
        /\ healthy' \in BOOLEAN /\ backendLost' \in BOOLEAN
        /\ inFlight' \in [Slots -> BOOLEAN]
        /\ abandoned' \subseteq Nat /\ ordered' \subseteq Nat /\ nextCompletion' \in Nat
    BY <2>1, <2>2, PollCounts
  <2>4. AfterPoll(freed) \in [Slots -> {"Free", "Recording", "InFlight"}]
    BY DEF AfterPoll, Counting, TypeOK
  <2>5. /\ state' \in [Slots -> {"Free", "Recording", "InFlight"}]
        /\ generation' \in [Slots -> Nat]
        /\ lease' \in [slot : Slots \union {0}, generation : Nat]
        /\ afterCallbacks' \in {"idle", "waitSlot", "reset"}
        /\ afterCallbacks' = "reset" => lease'.slot \in Slots
    BY <2>1, <2>4 DEF Counting, TypeOK, RenderStates
  <2>6. BatchesIdle' /\ LeasesASlot'
    BY <1>9, <2>3, <2>5 DEF Acquire, Counting, BatchesIdle, LeasesASlot, HoldsLease, pumpVars
  <2>7. TypeOK'
    BY <1>9, <2>3, <2>5 DEF Acquire, Counting, TypeOK, RenderStates, pumpVars, gpuVars
  <2> QED
    BY <2>3, <2>6, <2>7 DEF Counting
<1>10. CASE RenderSettle
  <2>1. /\ BatchesInOrder' /\ CallbacksCounted' /\ callbacksRunning' \in Nat
        /\ batch' \in [Runners -> [first : Nat, next : Nat, end : Nat, ok : BOOLEAN]]
        /\ batch'[Render] = EmptyBatch
    BY <1>10, SettleCounts DEF RenderSettle
  <2>2. batch'[Pump] = batch[Pump]
    BY <1>10 DEF RenderSettle, BatchDone, Counting, TypeOK
  <2>3. TypeOK' /\ BatchesIdle' /\ LeasesASlot'
    BY <1>10, <2>1, <2>2 DEF RenderSettle, Counting, TypeOK, BatchesIdle, LeasesASlot, HoldsLease,
       RenderStates, retirementVars, pumpVars, gpuVars, history
  <2> QED
    BY <2>1, <2>3 DEF Counting
<1>11. CASE SlotFreed
  BY <1>11 DEF SlotFreed, Counting, TypeOK, BatchesInOrder, CallbacksCounted,
     BatchesIdle, LeasesASlot, HoldsLease,
     retirementVars, adapterVars, pumpVars, renderVars, gpuVars, history, RenderStates
<1>12. CASE ResetFence
  BY <1>12 DEF ResetFence, Counting, TypeOK, BatchesInOrder, CallbacksCounted,
     BatchesIdle, LeasesASlot, HoldsLease,
     retirementVars, adapterVars, pumpVars, renderVars, gpuVars, history, RenderStates
<1>13. CASE AbandonFrame
  BY <1>13 DEF AbandonFrame, Counting, TypeOK, BatchesInOrder, CallbacksCounted,
     BatchesIdle, LeasesASlot, HoldsLease,
     retirementVars, adapterVars, pumpVars, renderVars, gpuVars, history, RenderStates,
     CancelLease, NoLease
<1>14. CASE BeginPromote
  BY <1>14 DEF BeginPromote, Counting, TypeOK, BatchesInOrder, CallbacksCounted,
     BatchesIdle, LeasesASlot, HoldsLease,
     retirementVars, adapterVars, pumpVars, renderVars, gpuVars, history, RenderStates
<1>15. CASE EndPromote
  BY <1>15 DEF EndPromote, Counting, TypeOK, BatchesInOrder, CallbacksCounted,
     BatchesIdle, LeasesASlot, HoldsLease,
     retirementVars, adapterVars, pumpVars, renderVars, gpuVars, history, RenderStates
<1>16. CASE QueueSubmit
  BY <1>16 DEF QueueSubmit, Counting, TypeOK, BatchesInOrder, CallbacksCounted,
     BatchesIdle, LeasesASlot, HoldsLease,
     retirementVars, adapterVars, pumpVars, renderVars, gpuVars, history, RenderStates
<1>17. CASE Submit
  BY <1>17 DEF Submit, Counting, TypeOK, BatchesInOrder, CallbacksCounted,
     BatchesIdle, LeasesASlot, HoldsLease,
     retirementVars, adapterVars, pumpVars, renderVars, gpuVars, history, RenderStates,
     LeaseMatches, NoLease
<1>18. CASE SubmitRefused
  BY <1>18 DEF SubmitRefused, Counting, TypeOK, BatchesInOrder, CallbacksCounted,
     BatchesIdle, LeasesASlot, HoldsLease,
     retirementVars, adapterVars, pumpVars, renderVars, gpuVars, history, RenderStates
<1>19. CASE OrphanWait
  BY <1>19 DEF OrphanWait, Counting, TypeOK, BatchesInOrder, CallbacksCounted,
     BatchesIdle, LeasesASlot, HoldsLease,
     retirementVars, adapterVars, pumpVars, renderVars, gpuVars, history, RenderStates,
     CancelLease, NoLease
<1>20. CASE SyncWait
  BY <1>20 DEF SyncWait, Counting, TypeOK, BatchesInOrder, CallbacksCounted,
     BatchesIdle, LeasesASlot, HoldsLease,
     retirementVars, adapterVars, pumpVars, renderVars, gpuVars, history, RenderStates
<1>21. CASE RenderStop
  BY <1>21 DEF RenderStop, Counting, TypeOK, BatchesInOrder, CallbacksCounted,
     BatchesIdle, LeasesASlot, HoldsLease,
     retirementVars, adapterVars, pumpVars, renderVars, gpuVars, history, RenderStates
<1>22. CASE BeginRelease
  BY <1>22 DEF BeginRelease, Counting, TypeOK, BatchesInOrder, CallbacksCounted,
     BatchesIdle, LeasesASlot, HoldsLease,
     retirementVars, adapterVars, pumpVars, renderVars, gpuVars, history, OwnerStates
<1>23. CASE OwnerDrained
  BY <1>23 DEF OwnerDrained, Counting, TypeOK, BatchesInOrder, CallbacksCounted,
     BatchesIdle, LeasesASlot, HoldsLease,
     retirementVars, adapterVars, pumpVars, renderVars, gpuVars, history, OwnerStates
<1>24. CASE OwnerReleased
  BY <1>24 DEF OwnerReleased, Counting, TypeOK, BatchesInOrder, CallbacksCounted,
     BatchesIdle, LeasesASlot, HoldsLease,
     retirementVars, adapterVars, pumpVars, renderVars, gpuVars, history, OwnerStates
<1>25. ASSUME NEW t \in Runners, RunCallback(t)
      PROVE  Counting'
  <2>1. batch[t].next \in Nat /\ batch[t].next < batch[t].end
    BY <1>25 DEF RunCallback, Counting, TypeOK
  <2>2. batch[t] # EmptyBatch
    BY <2>1 DEF EmptyBatch
  <2>3. BatchesInOrder' /\ CallbacksCounted' /\ BatchesIdle' /\ LeasesASlot'
    BY <1>25, <2>1, <2>2 DEF RunCallback, Counting, TypeOK, BatchesInOrder, CallbacksCounted,
       BatchesIdle, LeasesASlot, HoldsLease, pumpVars, renderVars
  <2>4. batch' \in [Runners -> [first : Nat, next : Nat, end : Nat, ok : BOOLEAN]]
    BY <1>25, <2>1 DEF RunCallback, Counting, TypeOK
  <2>5. succeeded' \subseteq Nat /\ failed' \subseteq Nat
    BY <1>25, <2>1 DEF RunCallback, Counting, TypeOK
  <2>6. TypeOK'
    BY <1>25, <2>4, <2>5 DEF RunCallback, Counting, TypeOK, retirementVars, pumpVars, renderVars,
       gpuVars
  <2> QED
    BY <2>3, <2>6 DEF Counting
<1>26. ASSUME NEW s \in Slots, GpuFinish(s)
      PROVE  Counting'
  BY <1>26 DEF GpuFinish, Counting, TypeOK, BatchesInOrder, CallbacksCounted, BatchesIdle,
     LeasesASlot, HoldsLease, retirementVars, adapterVars, renderVars, history
<1>27. CASE GpuLoss
  BY <1>27 DEF GpuLoss, Counting, TypeOK, BatchesInOrder, CallbacksCounted,
     BatchesIdle, LeasesASlot, HoldsLease,
     retirementVars, adapterVars, pumpVars, renderVars, gpuVars, history
<1>28. CASE Finished \/ UNCHANGED vars
  <2>1. UNCHANGED vars
    BY <1>28 DEF Finished
  <2>2. UNCHANGED <<retirementVars, adapterVars, pumpVars, renderVars, owner, gpuVars, history>>
    BY <2>1 DEF vars
  <2>3. TypeOK'
    BY <2>2 DEF Counting, TypeOK, retirementVars, adapterVars, pumpVars, renderVars, gpuVars,
       history
  <2>4. BatchesInOrder' /\ CallbacksCounted' /\ BatchesIdle' /\ LeasesASlot'
    BY <2>2 DEF Counting, BatchesInOrder, CallbacksCounted, BatchesIdle, LeasesASlot, HoldsLease,
       adapterVars, pumpVars, renderVars
  <2> QED
    BY <2>3, <2>4 DEF Counting
<1> QED
  BY <1>1, <1>2, <1>3, <1>4, <1>5, <1>6, <1>7, <1>8, <1>9, <1>10, <1>11, <1>12,
     <1>13, <1>14, <1>15, <1>16, <1>17, <1>18, <1>19, <1>20, <1>21, <1>22, <1>23,
     <1>24, <1>25, <1>26, <1>27, <1>28
     DEF Next, PumpStep, RenderStep, OwnerStep

\* Every variable keeps its type: the counter of running completions never goes below
\* zero, although both runners add to it and take from it with the mutex released in
\* between (Impl::Pump, GpuFrameSlots::Acquire).
THEOREM TypeCorrect == Spec => []TypeOK
<1>1. Counting => TypeOK
  BY DEF Counting
<1> QED
  BY CountingInit, CountingStep, <1>1, PTL DEF Spec

-----------------------------------------------------------------------------
(* Books: every sequence is in flight, retired, taken or delivered, and only one of these *)

MirrorAgrees == \A s \in Slots : inFlight[s] <=> s \in InFlightSlots

Window ==
  /\ 1 <= nextCompletion /\ nextCompletion <= nextSubmit
  /\ nextCompletion \notin ordered
  /\ ordered \subseteq nextCompletion .. (nextSubmit - 1)
  /\ \A s \in InFlightSlots : sequenceOf[s] \in nextCompletion .. (nextSubmit - 1)

EachTracked ==
  \A n \in nextCompletion .. (nextSubmit - 1) :
    n \in ordered \/ \E s \in InFlightSlots : sequenceOf[s] = n

TrackedOnce ==
  /\ \A s \in InFlightSlots : sequenceOf[s] \notin ordered
  /\ \A s, r \in InFlightSlots : sequenceOf[s] = sequenceOf[r] => s = r

EachTaken ==
  \A n \in 1 .. (nextCompletion - 1) : n \in Delivered \/ \E t \in Runners : n \in Pending(t)

TakenOnce ==
  /\ Delivered \subseteq 1 .. (nextCompletion - 1)
  /\ \A t \in Runners : 1 <= batch[t].next /\ batch[t].end <= nextCompletion
  /\ \A t \in Runners : Pending(t) \intersect Delivered = {}
  /\ Pending(Pump) \intersect Pending(Render) = {}
  /\ succeeded \intersect failed = {}

Books == MirrorAgrees /\ Window /\ EachTracked /\ TrackedOnce /\ EachTaken /\ TakenOnce

\* The books are empty before the first frame.
LEMMA BooksInit == Init => Books
<1> SUFFICES ASSUME Init
             PROVE  Books
  OBVIOUS
<1>1. InFlightSlots = {} /\ Delivered = {} /\ \A t \in Runners : Pending(t) = {}
  BY DEF Init, InFlightSlots, Delivered, Pending, EmptyBatch
<1>2. MirrorAgrees /\ Window /\ EachTracked /\ TrackedOnce /\ EachTaken
  BY <1>1 DEF Init, MirrorAgrees, Window, EachTracked, TrackedOnce, EachTaken
<1>3. TakenOnce
  BY <1>1 DEF Init, TakenOnce, EmptyBatch, Runners
<1> QED
  BY <1>2, <1>3 DEF Books

\* A step that leaves the adapter and the completions alone and puts no slot in flight or
\* out of it keeps the books.
LEMMA BooksUntouched ==
  ASSUME Books, InFlightSlots' = InFlightSlots,
         UNCHANGED <<sequenceOf, inFlight, ordered, nextSubmit, nextCompletion, batch,
                     succeeded, failed>>
  PROVE  Books'
<1>1. Delivered' = Delivered /\ \A t \in Runners : Pending(t)' = Pending(t)
  BY DEF Delivered, Pending
<1>2. MirrorAgrees' /\ Window' /\ EachTracked' /\ TrackedOnce'
  BY DEF Books, MirrorAgrees, Window, EachTracked, TrackedOnce
<1>3. EachTaken' /\ TakenOnce'
  BY <1>1 DEF Books, EachTaken, TakenOnce, Runners
<1> QED
  BY <1>2, <1>3 DEF Books

\* The heart of the matter: what a poll retires and a collection takes.
LEMMA PollBooks ==
  ASSUME Counting, Books, NEW t \in Runners, NEW lost \in BOOLEAN, NEW waited \in BOOLEAN,
         NEW freed \in SUBSET Slots, PollAndCollect(t, lost, waited, freed),
         batch[t] = EmptyBatch, InFlightSlots' = InFlightSlots \ freed,
         UNCHANGED <<sequenceOf, nextSubmit, succeeded, failed>>
  PROVE  Books'
<1> DEFINE R == ordered \union {sequenceOf[s] : s \in freed}
<1>1. TypeOK /\ freed \subseteq InFlightSlots
      /\ inFlight' = [s \in Slots |-> inFlight[s] /\ s \notin freed]
      /\ TakesBatch(t, waited, freed)
  BY PollFacts DEF Counting
<1>2. PICK end \in nextCompletion .. nextSubmit :
        /\ Collects(R, end)
        /\ ordered' = R \ (nextCompletion .. (end - 1))
        /\ nextCompletion' = end
        /\ batch' = [batch EXCEPT ![t] =
                       [first |-> nextCompletion, next |-> nextCompletion, end |-> end,
                        ok |-> waited /\ ~backendLost']]
  BY <1>1 DEF TakesBatch
<1>3. nextCompletion .. (end - 1) \subseteq R /\ end \notin R
  BY <1>2 DEF Collects
<1>4. end \in Nat /\ nextCompletion \in Nat /\ nextSubmit \in Nat
      /\ 1 <= nextCompletion /\ nextCompletion <= end /\ end <= nextSubmit
  BY <1>1, <1>2 DEF TypeOK, Books, Window
<1>5. \A n \in R : n \in nextCompletion .. (nextSubmit - 1)
  BY <1>1 DEF Books, Window
<1>6. MirrorAgrees'
  BY <1>1 DEF Books, MirrorAgrees, InFlightSlots
<1>7. \A s \in InFlightSlots' : s \in InFlightSlots /\ sequenceOf[s] \notin R
  <2> SUFFICES ASSUME NEW s \in InFlightSlots', sequenceOf[s] \in R
               PROVE  FALSE
    OBVIOUS
  <2>1. s \in InFlightSlots /\ s \notin freed
    OBVIOUS
  <2>2. sequenceOf[s] \notin ordered
    BY <2>1 DEF Books, TrackedOnce
  <2>3. PICK r \in freed : sequenceOf[r] = sequenceOf[s]
    BY <2>2
  <2>4. r = s
    BY <1>1, <2>1, <2>3 DEF Books, TrackedOnce
  <2> QED
    BY <2>1, <2>3, <2>4
<1>8. Window'
  <2>1. ordered' \subseteq end .. (nextSubmit - 1)
    BY <1>2, <1>4, <1>5
  <2>2. \A s \in InFlightSlots' : sequenceOf[s] \in end .. (nextSubmit - 1)
    BY <1>3, <1>4, <1>7 DEF Books, Window
  <2> QED
    BY <1>2, <1>3, <1>4, <2>1, <2>2 DEF Window
<1>9. EachTracked'
  <2> SUFFICES ASSUME NEW n \in end .. (nextSubmit - 1)
               PROVE  n \in ordered' \/ \E s \in InFlightSlots' : sequenceOf[s] = n
    BY <1>2 DEF EachTracked
  <2>1. n \in nextCompletion .. (nextSubmit - 1) /\ n \notin nextCompletion .. (end - 1)
    BY <1>4
  <2>2. CASE n \in R
    BY <1>2, <2>1, <2>2
  <2>3. CASE n \notin R
    <3>1. PICK s \in InFlightSlots : sequenceOf[s] = n
      BY <2>1, <2>3 DEF Books, EachTracked
    <3>2. s \notin freed
      BY <2>3, <3>1
    <3> QED
      BY <3>1, <3>2
  <2> QED
    BY <2>2, <2>3
<1>10. TrackedOnce'
  BY <1>2, <1>7 DEF Books, TrackedOnce
<1>11. /\ Delivered' = Delivered /\ Pending(t)' = nextCompletion .. (end - 1)
       /\ \A u \in Runners \ {t} : Pending(u)' = Pending(u)
  BY <1>1, <1>2 DEF Delivered, Pending, TypeOK
<1>12. EachTaken'
  <2> SUFFICES ASSUME NEW n \in 1 .. (end - 1)
               PROVE  n \in Delivered \/ \E u \in Runners : n \in Pending(u)'
    BY <1>2, <1>11 DEF EachTaken
  <2>1. CASE n \in nextCompletion .. (end - 1)
    BY <1>11, <2>1
  <2>2. CASE n \in 1 .. (nextCompletion - 1)
    <3>1. Pending(t) = {}
      BY DEF Pending, EmptyBatch
    <3> QED
      BY <1>11, <2>2, <3>1 DEF Books, EachTaken
  <2> QED
    BY <1>4, <2>1, <2>2
<1>13. TakenOnce'
  <2>1. Delivered' \subseteq 1 .. (end - 1)
    BY <1>4, <1>11 DEF Books, TakenOnce
  <2>2. \A u \in Runners : 1 <= batch'[u].next /\ batch'[u].end <= end
    BY <1>1, <1>2, <1>4 DEF Books, TakenOnce, TypeOK
  <2>3. (nextCompletion .. (end - 1)) \intersect Delivered = {}
    BY <1>4 DEF Books, TakenOnce
  <2>4. \A u \in Runners : Pending(u)' \intersect Delivered' = {}
    BY <1>11, <2>3 DEF Books, TakenOnce
  <2>5. \A u \in Runners : Pending(u) \intersect (nextCompletion .. (end - 1)) = {}
    BY <1>1, <1>4 DEF Books, TakenOnce, Pending, TypeOK
  <2>6. (Pending(Pump) \intersect Pending(Render) = {})'
    BY <1>11, <2>5 DEF Runners, Pump, Render
  <2> QED
    BY <1>2, <2>1, <2>2, <2>4, <2>6 DEF Books, TakenOnce
<1> QED
  BY <1>6, <1>8, <1>9, <1>10, <1>12, <1>13 DEF Books

\* After a poll the freed slots are no longer in flight and no other slot changes, whether
\* or not one of the free slots is then leased.
LEMMA PolledSlots ==
  ASSUME TypeOK, NEW freed \in SUBSET Slots,
         \/ state' = AfterPoll(freed)
         \/ \E s \in Slots : /\ FirstFree(s, AfterPoll(freed))
                            /\ state' = [AfterPoll(freed) EXCEPT ![s] = "Recording"]
  PROVE  InFlightSlots' = InFlightSlots \ freed
BY DEF AfterPoll, FirstFree, InFlightSlots, TypeOK

\* A cancelled lease was recording: nothing leaves the flight.
LEMMA CancelKeepsFlight ==
  ASSUME TypeOK, CancelLease
  PROVE  InFlightSlots' = InFlightSlots
BY DEF CancelLease, LeaseMatches, InFlightSlots, TypeOK

\* A settled batch had nothing left to run.
LEMMA SettleBooks ==
  ASSUME Counting, Books, NEW t \in Runners, BatchDone(t), InFlightSlots' = InFlightSlots,
         UNCHANGED <<sequenceOf, inFlight, ordered, nextSubmit, nextCompletion, succeeded, failed>>
  PROVE  Books'
<1>1. Pending(t) = {} /\ Pending(t)' = {}
  BY DEF BatchDone, Pending, EmptyBatch, Counting, TypeOK
<1>2. Delivered' = Delivered /\ \A u \in Runners \ {t} : Pending(u)' = Pending(u)
  BY DEF BatchDone, Pending, Delivered, Counting, TypeOK
<1>3. \A u \in Runners : Pending(u)' = Pending(u)
  BY <1>1, <1>2
<1>4. MirrorAgrees' /\ Window' /\ EachTracked' /\ TrackedOnce'
  BY DEF Books, MirrorAgrees, Window, EachTracked, TrackedOnce
<1>5. EachTaken'
  BY <1>2, <1>3 DEF Books, EachTaken
<1>6. \A u \in Runners : 1 <= batch'[u].next /\ batch'[u].end <= nextCompletion
  BY DEF BatchDone, EmptyBatch, Books, Window, TakenOnce, Counting, TypeOK
<1>7. TakenOnce'
  BY <1>2, <1>3, <1>6 DEF Books, TakenOnce, Runners
<1> QED
  BY <1>4, <1>5, <1>7 DEF Books

\* A submitted frame takes the next sequence, which nothing has used.
LEMMA SubmitBooks ==
  ASSUME Counting, Books, Submit
  PROVE  Books'
<1> DEFINE s0 == lease.slot
<1>1. TypeOK /\ s0 \in Slots /\ s0 \notin InFlightSlots
  BY DEF Counting, Submit, LeaseMatches, InFlightSlots
<1>2. InFlightSlots' = InFlightSlots \union {s0}
  BY <1>1 DEF Submit, InFlightSlots, TypeOK
<1>3. /\ sequenceOf'[s0] = nextSubmit
      /\ \A s \in Slots \ {s0} : sequenceOf'[s] = sequenceOf[s]
      /\ nextSubmit' = nextSubmit + 1
  BY <1>1 DEF Submit, TypeOK
<1>4. UNCHANGED <<ordered, nextCompletion, batch, succeeded, failed>>
  BY DEF Submit, history
<1>5. nextSubmit \in Nat /\ nextCompletion \in Nat /\ InFlightSlots \subseteq Slots
  BY <1>1 DEF TypeOK, InFlightSlots
<1>6. MirrorAgrees'
  BY <1>1, <1>2 DEF Submit, Books, MirrorAgrees, TypeOK
<1>7. Window'
  BY <1>1, <1>2, <1>3, <1>4, <1>5 DEF Books, Window
<1>8. EachTracked'
  <2> SUFFICES ASSUME NEW n \in nextCompletion .. nextSubmit
               PROVE  n \in ordered \/ \E s \in InFlightSlots' : sequenceOf'[s] = n
    BY <1>3, <1>4, <1>5 DEF EachTracked
  <2>1. CASE n = nextSubmit
    BY <1>2, <1>3, <2>1
  <2>2. CASE n # nextSubmit
    <3>1. n \in nextCompletion .. (nextSubmit - 1)
      BY <1>5, <2>2
    <3> QED
      BY <1>1, <1>2, <1>3, <1>5, <3>1 DEF Books, EachTracked
  <2> QED
    BY <2>1, <2>2
<1>9. TrackedOnce'
  BY <1>1, <1>2, <1>3, <1>4, <1>5 DEF Books, Window, TrackedOnce
<1>10. Delivered' = Delivered /\ \A t \in Runners : Pending(t)' = Pending(t)
  BY <1>4 DEF Delivered, Pending
<1>11. EachTaken' /\ TakenOnce'
  BY <1>4, <1>10 DEF Books, EachTaken, TakenOnce, Runners
<1> QED
  BY <1>6, <1>7, <1>8, <1>9, <1>11 DEF Books

\* Running a completion moves one sequence from pending to delivered.
LEMMA CallbackBooks ==
  ASSUME Counting, Books, NEW t \in Runners, RunCallback(t)
  PROVE  Books'
<1> DEFINE n == batch[t].next
<1>1. /\ TypeOK /\ n \in Nat /\ batch[t].end \in Nat /\ n < batch[t].end
      /\ nextCompletion \in Nat
  BY DEF Counting, TypeOK, RunCallback
<1>2. /\ InFlightSlots' = InFlightSlots
      /\ UNCHANGED <<sequenceOf, inFlight, ordered, nextSubmit, nextCompletion>>
  BY DEF RunCallback, retirementVars, InFlightSlots
<1>3. MirrorAgrees' /\ Window' /\ EachTracked' /\ TrackedOnce'
  BY <1>2 DEF Books, MirrorAgrees, Window, EachTracked, TrackedOnce
<1>4. n \in Pending(t) /\ Pending(t)' = Pending(t) \ {n}
  BY <1>1 DEF RunCallback, Pending, TypeOK
<1>5. \A u \in Runners \ {t} : Pending(u)' = Pending(u)
  BY <1>1 DEF RunCallback, Pending, TypeOK
<1>6. Delivered' = Delivered \union {n}
  BY DEF RunCallback, Delivered
<1>7. EachTaken'
  BY <1>2, <1>4, <1>5, <1>6 DEF Books, EachTaken
<1>8. TakenOnce'
  <2>1. Delivered' \subseteq 1 .. (nextCompletion - 1)
    <3>1. n \in 1 .. (nextCompletion - 1)
      BY <1>1 DEF Books, TakenOnce
    <3> QED
      BY <1>6, <3>1 DEF Books, TakenOnce
  <2>2. \A u \in Runners : 1 <= batch'[u].next /\ batch'[u].end <= nextCompletion
    BY <1>1 DEF RunCallback, Books, TakenOnce, TypeOK
  <2>3. \A u \in Runners \ {t} : n \notin Pending(u)
    BY <1>4 DEF Books, TakenOnce, Runners
  <2>4. \A u \in Runners : Pending(u)' \intersect Delivered' = {}
    BY <1>4, <1>5, <1>6, <2>3 DEF Books, TakenOnce
  <2>5. (Pending(Pump) \intersect Pending(Render) = {})'
    BY <1>4, <1>5 DEF Books, TakenOnce, Runners, Pump, Render
  <2>6. (succeeded \intersect failed = {})'
    <3>1. n \notin succeeded /\ n \notin failed
      BY <1>4 DEF Books, TakenOnce, Delivered
    <3> QED
      BY <3>1 DEF RunCallback, Books, TakenOnce
  <2> QED
    BY <1>2, <2>1, <2>2, <2>4, <2>5, <2>6 DEF TakenOnce
<1> QED
  BY <1>3, <1>7, <1>8 DEF Books

\* Every step keeps the books: each sequence is in exactly one place.
LEMMA BooksStep == Counting /\ Books /\ [Next]_vars => Books'
<1> SUFFICES ASSUME Counting, Books, [Next]_vars
             PROVE  Books'
  OBVIOUS
<1>1. CASE PumpCollect
  <2> DEFINE lost == backendLost \/ ~waitOk
  <2>1. PICK freed \in SUBSET Slots :
          /\ PollAndCollect(Pump, lost, waitOk, freed)
          /\ state' = AfterPoll(freed)
    BY <1>1 DEF PumpCollect
  <2>2. batch[Pump] = EmptyBatch /\ lost \in BOOLEAN /\ waitOk \in BOOLEAN /\ TypeOK
    BY <1>1 DEF PumpCollect, Counting, TypeOK, BatchesIdle
  <2>3. InFlightSlots' = InFlightSlots \ freed
    BY <2>1, <2>2, PolledSlots
  <2>4. UNCHANGED <<sequenceOf, nextSubmit, succeeded, failed>>
    BY <1>1 DEF PumpCollect
  <2> HIDE DEF lost
  <2> QED
    BY <2>1, <2>2, <2>3, <2>4, PollBooks DEF Runners
<1>2. CASE Acquire
  <2>1. PICK freed \in SUBSET Slots :
          /\ PollAndCollect(Render, FALSE, TRUE, freed)
          /\ \/ \E s \in Slots : /\ FirstFree(s, AfterPoll(freed))
                                /\ state' = [AfterPoll(freed) EXCEPT ![s] = "Recording"]
             \/ state' = AfterPoll(freed)
    BY <1>2 DEF Acquire
  <2>2. batch[Render] = EmptyBatch /\ TypeOK
    BY <1>2 DEF Acquire, Counting, BatchesIdle
  <2>3. InFlightSlots' = InFlightSlots \ freed
    BY <2>1, <2>2, PolledSlots
  <2>4. UNCHANGED <<sequenceOf, nextSubmit, succeeded, failed>>
    BY <1>2 DEF Acquire
  <2> QED
    BY <2>1, <2>2, <2>3, <2>4, PollBooks DEF Runners
<1>3. CASE PumpSettle
  BY <1>3, SettleBooks DEF PumpSettle, Runners, retirementVars, history, InFlightSlots
<1>4. CASE RenderSettle
  BY <1>4, SettleBooks DEF RenderSettle, Runners, retirementVars, history, InFlightSlots
<1>5. CASE Submit
  BY <1>5, SubmitBooks
<1>6. ASSUME NEW t \in Runners, RunCallback(t)
      PROVE  Books'
  BY <1>6, CallbackBooks
<1>7. CASE AbandonFrame \/ OrphanWait
  <2>1. InFlightSlots' = InFlightSlots
    BY <1>7, CancelKeepsFlight DEF AbandonFrame, OrphanWait, Counting
  <2> QED
    BY <1>7, <2>1, BooksUntouched DEF AbandonFrame, OrphanWait, adapterVars, history
<1>8. CASE PumpTake \/ PumpBeginWait \/ PumpWake
  BY <1>8, BooksUntouched DEF PumpTake, PumpBeginWait, PumpWake, retirementVars, adapterVars,
     history, InFlightSlots
<1>9. CASE BeginFrame \/ Grow \/ AcquireRefused \/ SlotFreed \/ ResetFence
  BY <1>9, BooksUntouched DEF BeginFrame, Grow, AcquireRefused, SlotFreed, ResetFence,
     retirementVars, adapterVars, history, InFlightSlots
<1>10. CASE BeginPromote \/ EndPromote \/ QueueSubmit \/ SubmitRefused \/ SyncWait \/ RenderStop
  BY <1>10, BooksUntouched DEF BeginPromote, EndPromote, QueueSubmit, SubmitRefused, SyncWait,
     RenderStop, retirementVars, adapterVars, history, InFlightSlots
<1>11. CASE OwnerStep
  BY <1>11, BooksUntouched DEF OwnerStep, BeginRelease, OwnerDrained, OwnerReleased,
     retirementVars, adapterVars, history, InFlightSlots
<1>12. ASSUME NEW s \in Slots, GpuFinish(s)
       PROVE  Books'
  BY <1>12, BooksUntouched DEF GpuFinish, retirementVars, adapterVars, history, InFlightSlots
<1>13. CASE GpuLoss
  BY <1>13, BooksUntouched DEF GpuLoss, retirementVars, adapterVars, history, InFlightSlots
<1>14. CASE UNCHANGED vars
  BY <1>14, BooksUntouched DEF vars, retirementVars, adapterVars, history, InFlightSlots
<1> QED
  BY <1>1, <1>2, <1>3, <1>4, <1>5, <1>6, <1>7, <1>8, <1>9, <1>10, <1>11, <1>12, <1>13, <1>14
     DEF Next, PumpStep, RenderStep, Finished

\* The two invariants hold in every reachable state.
LEMMA BooksAlways == Spec => [](Counting /\ Books)
BY CountingInit, CountingStep, BooksInit, BooksStep, PTL DEF Spec

\* When WaitInFlight or Drain returns true, the completion of every frame submitted so far
\* has run, whichever thread collected it and in whatever order the fences signalled.
THEOREM DrainIsComplete == Spec => []DrainMeansDelivered
<1>1. Counting /\ Books => DrainMeansDelivered
  <2> SUFFICES ASSUME Counting, Books, Drained, ~backendLost,
                      NEW n \in Sequences
               PROVE  n \in Delivered
    BY DEF DrainMeansDelivered
  <2>1. InFlightSlots = {} /\ callbacksRunning = 0
    BY DEF Drained
  <2>2. /\ nextCompletion \in Nat /\ nextSubmit \in Nat /\ nextCompletion <= nextSubmit
        /\ nextCompletion \notin ordered
    BY DEF Counting, TypeOK, Books, Window
  <2>3. nextCompletion = nextSubmit
    BY <2>1, <2>2 DEF Books, EachTracked
  <2>4. \A t \in Runners : Pending(t) = {}
    <3>1. /\ batch[Pump].end - batch[Pump].first = 0
          /\ batch[Render].end - batch[Render].first = 0
      BY <2>1 DEF Counting, TypeOK, BatchesInOrder, CallbacksCounted, Runners
    <3>2. \A t \in Runners : batch[t].next = batch[t].end /\ batch[t].end \in Nat
      BY <3>1 DEF Counting, TypeOK, BatchesInOrder, Runners
    <3> QED
      BY <3>2 DEF Pending
  <2> QED
    BY <2>2, <2>3, <2>4 DEF Books, EachTaken, Sequences
<1> QED
  BY BooksAlways, <1>1, PTL

\* No completion is run twice, by the same thread or by the other.
THEOREM CompletionsRunOnce == Spec => []NoCallbackTwice
<1>1. Counting /\ Books => NoCallbackTwice
  <2> SUFFICES ASSUME Counting, Books, NEW n \in ordered
               PROVE  n \notin Delivered /\ \A t \in Runners : n \notin Pending(t)
    BY DEF Books, TakenOnce, NoCallbackTwice
  <2>1. n \in Nat /\ nextCompletion \in Nat /\ nextCompletion <= n
    BY DEF Counting, TypeOK, Books, Window
  <2> QED
    BY <2>1 DEF Books, TakenOnce, Pending, Counting, TypeOK
<1> QED
  BY BooksAlways, <1>1, PTL

-----------------------------------------------------------------------------
(* Loss: what is released without its fence is never reported as rendered *)

Losses ==
  /\ ~healthy => backendLost
  /\ ~backendLost => abandoned = {}
  /\ \A t \in Runners : batch[t].ok => Pending(t) \intersect abandoned = {}
  /\ succeeded \intersect abandoned = {}

\* Nothing is lost before the first frame.
LEMMA LossesInit == Init => Losses
BY DEF Init, Losses, Pending, EmptyBatch

\* A batch collected before the loss is older than anything the loss releases; one collected
\* with or after it is told FALSE.
LEMMA PollLosses ==
  ASSUME Counting, Books, Losses, NEW t \in Runners, NEW lost \in BOOLEAN,
         NEW waited \in BOOLEAN, NEW freed \in SUBSET Slots,
         PollAndCollect(t, lost, waited, freed),
         backendLost => lost, UNCHANGED succeeded
  PROVE  Losses'
<1>1. /\ TypeOK /\ freed \subseteq InFlightSlots
      /\ abandoned' \subseteq abandoned \union {sequenceOf[s] : s \in freed}
      /\ (abandoned' # abandoned => backendLost')
      /\ (lost \/ ~healthy' => backendLost')
      /\ TakesBatch(t, waited, freed)
  BY PollFacts DEF Counting
<1>2. PICK end \in nextCompletion .. nextSubmit :
        batch' = [batch EXCEPT ![t] =
                   [first |-> nextCompletion, next |-> nextCompletion, end |-> end,
                    ok |-> waited /\ ~backendLost']]
  BY <1>1 DEF TakesBatch
<1>3. ~healthy' => backendLost'
  BY <1>1
<1>4. ~backendLost' => abandoned' = {}
  BY <1>1 DEF Losses
<1>5. \A n \in abandoned' : n \in abandoned \/ nextCompletion <= n
  BY <1>1 DEF Books, Window, TypeOK
<1>6. \A u \in Runners : \A n \in Pending(u) : n \in Nat /\ n < nextCompletion
  BY <1>1 DEF Books, TakenOnce, Pending, TypeOK
<1>7. \A u \in Runners : batch'[u].ok => Pending(u)' \intersect abandoned' = {}
  <2> SUFFICES ASSUME NEW u \in Runners, batch'[u].ok
               PROVE  Pending(u)' \intersect abandoned' = {}
    OBVIOUS
  <2>1. CASE u = t
    <3>1. ~backendLost'
      BY <1>1, <1>2, <2>1 DEF TypeOK
    <3> QED
      BY <1>4, <3>1
  <2>2. CASE u # t
    <3>1. batch'[u] = batch[u] /\ Pending(u)' = Pending(u)
      BY <1>1, <1>2, <2>2 DEF TypeOK, Pending
    <3> QED
      BY <1>1, <1>5, <1>6, <3>1 DEF Losses, TypeOK
  <2> QED
    BY <2>1, <2>2
<1>8. succeeded' \intersect abandoned' = {}
  BY <1>1, <1>5 DEF Losses, Books, TakenOnce, Delivered, TypeOK
<1> QED
  BY <1>3, <1>4, <1>7, <1>8 DEF Losses

\* Every step keeps what was released unobserved apart from what is told TRUE.
LEMMA LossesStep == Counting /\ Books /\ Losses /\ [Next]_vars => Losses'
<1> SUFFICES ASSUME Counting, Books, Losses, [Next]_vars
             PROVE  Losses'
  OBVIOUS
<1>1. CASE PumpCollect
  <2> DEFINE lost == backendLost \/ ~waitOk
  <2>1. PICK freed \in SUBSET Slots : PollAndCollect(Pump, lost, waitOk, freed)
    BY <1>1 DEF PumpCollect
  <2>2. lost \in BOOLEAN /\ waitOk \in BOOLEAN /\ (backendLost => lost) /\ UNCHANGED succeeded
    BY <1>1 DEF PumpCollect, Counting, TypeOK
  <2> HIDE DEF lost
  <2> QED
    BY <2>1, <2>2, PollLosses DEF Runners
<1>2. CASE Acquire
  <2>1. PICK freed \in SUBSET Slots : PollAndCollect(Render, FALSE, TRUE, freed)
    BY <1>2 DEF Acquire
  <2>2. ~backendLost /\ UNCHANGED succeeded
    BY <1>2 DEF Acquire
  <2> QED
    BY <2>1, <2>2, PollLosses DEF Runners
<1>3. ASSUME NEW t \in Runners, BatchDone(t),
             UNCHANGED <<healthy, backendLost, abandoned, succeeded>>
      PROVE  Losses'
  <2>1. Pending(t)' = {} /\ \A u \in Runners \ {t} : batch'[u] = batch[u]
    BY <1>3 DEF BatchDone, Pending, EmptyBatch, Counting, TypeOK
  <2>2. \A u \in Runners \ {t} : Pending(u)' = Pending(u)
    BY <2>1 DEF Pending
  <2> QED
    BY <1>3, <2>1, <2>2 DEF Losses
<1>4. CASE PumpSettle \/ RenderSettle
  BY <1>3, <1>4 DEF PumpSettle, RenderSettle, Runners, retirementVars, history
<1>5. ASSUME NEW t \in Runners, RunCallback(t)
      PROVE  Losses'
  <2> DEFINE n == batch[t].next
  <2>1. n \in Pending(t) /\ Pending(t)' \subseteq Pending(t) /\ batch'[t].ok = batch[t].ok
    BY <1>5 DEF RunCallback, Pending, Counting, TypeOK
  <2>2. \A u \in Runners \ {t} : Pending(u)' = Pending(u) /\ batch'[u] = batch[u]
    BY <1>5 DEF RunCallback, Pending, Counting, TypeOK
  <2>3. UNCHANGED <<healthy, backendLost, abandoned>>
    BY <1>5 DEF RunCallback, retirementVars
  <2>4. (batch[t].ok /\ succeeded' = succeeded \union {n}) \/ succeeded' = succeeded
    BY <1>5 DEF RunCallback
  <2>5. batch[t].ok => n \notin abandoned
    BY <2>1 DEF Losses
  <2>6. succeeded' \intersect abandoned' = {}
    BY <2>3, <2>4, <2>5 DEF Losses
  <2> QED
    BY <2>1, <2>2, <2>3, <2>6 DEF Losses
<1>6. ASSUME UNCHANGED <<healthy, backendLost, abandoned, succeeded, batch>>
      PROVE  Losses'
  <2>1. \A t \in Runners : Pending(t)' = Pending(t)
    BY <1>6 DEF Pending
  <2> QED
    BY <1>6, <2>1 DEF Losses
<1>7. CASE PumpTake \/ PumpBeginWait \/ PumpWake \/ OwnerStep \/ GpuLoss \/ UNCHANGED vars
  BY <1>6, <1>7 DEF PumpTake, PumpBeginWait, PumpWake, OwnerStep, BeginRelease, OwnerDrained,
     OwnerReleased, GpuLoss, vars, retirementVars, adapterVars, history
<1>8. CASE BeginFrame \/ Grow \/ AcquireRefused \/ SlotFreed \/ ResetFence \/ AbandonFrame
  BY <1>6, <1>8 DEF BeginFrame, Grow, AcquireRefused, SlotFreed, ResetFence, AbandonFrame,
     retirementVars, adapterVars, history
<1>9. CASE BeginPromote \/ EndPromote \/ QueueSubmit \/ Submit \/ SubmitRefused
  BY <1>6, <1>9 DEF BeginPromote, EndPromote, QueueSubmit, Submit, SubmitRefused,
     retirementVars, adapterVars, history
<1>10. CASE OrphanWait \/ SyncWait \/ RenderStop
  BY <1>6, <1>10 DEF OrphanWait, SyncWait, RenderStop, retirementVars, adapterVars, history
<1>11. ASSUME NEW s \in Slots, GpuFinish(s)
       PROVE  Losses'
  BY <1>6, <1>11 DEF GpuFinish, retirementVars, adapterVars, history
<1> QED
  BY <1>1, <1>2, <1>4, <1>5, <1>7, <1>8, <1>9, <1>10, <1>11
     DEF Next, PumpStep, RenderStep, Finished

\* A frame released because the device was lost is never reported as rendered, although
\* the pump and the render thread may each be the one to notice the loss while the other
\* still runs completions collected before it.
THEOREM LossIsReported == Spec => []SuccessWasObserved
<1>1. Losses => SuccessWasObserved
  BY DEF Losses, SuccessWasObserved
<1> QED
  BY CountingInit, CountingStep, BooksInit, BooksStep, LossesInit, LossesStep, <1>1, PTL DEF Spec

-----------------------------------------------------------------------------
(* Ending: the release, and what the pump waits for *)

Ending ==
  /\ owner # "running" => render = "stopped"
  /\ stopping => owner # "running"
  /\ pump = "exited" => stopping /\ InFlightSlots = {}
  /\ owner = "released" => pump = "exited"
  /\ pump \in {"taken", "fences"} => watched # {}

\* The pump has work, or nothing is in flight, before the first frame.
LEMMA EndingInit == Init => Ending
BY DEF Init, Ending

\* Every step keeps the pump from waiting on nothing and from leaving early.
LEMMA EndingStep == Counting /\ Books /\ Ending /\ [Next]_vars => Ending'
<1> SUFFICES ASSUME Counting, Books, Ending, [Next]_vars
             PROVE  Ending'
  OBVIOUS
<1>1. CASE PumpTake
  <2>1. InFlightSlots' = InFlightSlots /\ UNCHANGED <<owner, render, stopping>>
    BY <1>1 DEF PumpTake, InFlightSlots, retirementVars, adapterVars, renderVars
  <2>2. pump' = "taken" => watched' # {}
    <3>1. \A s \in InFlightSlots : s \in Slots /\ inFlight[s]
      BY DEF Books, MirrorAgrees, InFlightSlots
    <3>2. pump' = "taken" => InFlightSlots # {}
      BY <1>1 DEF PumpTake, PumpSleepEnds
    <3> QED
      BY <1>1, <3>1, <3>2 DEF PumpTake
  <2>3. pump' \in {"taken", "exited"} /\ (pump' = "exited" => stopping /\ InFlightSlots = {})
    BY <1>1 DEF PumpTake
  <2> QED
    BY <1>1, <2>1, <2>2, <2>3 DEF Ending, PumpTake
<1>2. CASE PumpCollect
  <2>1. pump = "woken" /\ pump' = "callbacks" /\ UNCHANGED <<owner, render, stopping>>
    BY <1>2 DEF PumpCollect, renderVars
  <2> QED
    BY <2>1 DEF Ending
<1>3. CASE Acquire
  <2>1. PICK freed \in SUBSET Slots :
          \/ \E s \in Slots : /\ FirstFree(s, AfterPoll(freed))
                             /\ state' = [AfterPoll(freed) EXCEPT ![s] = "Recording"]
          \/ state' = AfterPoll(freed)
    BY <1>3 DEF Acquire
  <2>2. InFlightSlots' = InFlightSlots \ freed
    BY <2>1, PolledSlots DEF Counting
  <2> QED
    BY <1>3, <2>2 DEF Acquire, Ending, pumpVars
<1>4. CASE Submit
  BY <1>4 DEF Submit, Ending, pumpVars
<1>5. CASE AbandonFrame \/ OrphanWait
  <2>1. InFlightSlots' = InFlightSlots
    BY <1>5, CancelKeepsFlight DEF AbandonFrame, OrphanWait, Counting
  <2> QED
    BY <1>5, <2>1 DEF AbandonFrame, OrphanWait, Ending, adapterVars, pumpVars
<1>6. CASE PumpBeginWait \/ PumpWake \/ PumpSettle
  <2>1. InFlightSlots' = InFlightSlots /\ UNCHANGED <<owner, render, stopping, watched>>
    BY <1>6 DEF PumpBeginWait, PumpWake, PumpSettle, InFlightSlots, retirementVars, adapterVars,
       renderVars
  <2>2. /\ pump' # "exited" /\ pump # "exited"
        /\ pump' \in {"taken", "fences"} => pump \in {"taken", "fences"}
    BY <1>6 DEF PumpBeginWait, PumpWake, PumpSettle
  <2> QED
    BY <2>1, <2>2 DEF Ending
<1>7. CASE BeginFrame \/ Grow \/ AcquireRefused \/ RenderSettle \/ SlotFreed \/ ResetFence
  BY <1>7 DEF BeginFrame, Grow, AcquireRefused, RenderSettle, SlotFreed, ResetFence, Ending,
     InFlightSlots, retirementVars, adapterVars, pumpVars
<1>8. CASE BeginPromote \/ EndPromote \/ QueueSubmit \/ SubmitRefused \/ SyncWait \/ RenderStop
  BY <1>8 DEF BeginPromote, EndPromote, QueueSubmit, SubmitRefused, SyncWait, RenderStop, Ending,
     InFlightSlots, retirementVars, adapterVars, pumpVars
<1>9. CASE OwnerStep
  BY <1>9 DEF OwnerStep, BeginRelease, OwnerDrained, OwnerReleased, Ending, InFlightSlots,
     retirementVars, adapterVars, pumpVars, renderVars
<1>10. ASSUME NEW t \in Runners, RunCallback(t)
       PROVE  Ending'
  BY <1>10 DEF RunCallback, Ending, InFlightSlots, retirementVars, pumpVars, renderVars
<1>11. ASSUME NEW s \in Slots, GpuFinish(s)
       PROVE  Ending'
  BY <1>11 DEF GpuFinish, Ending, InFlightSlots, retirementVars, adapterVars, renderVars
<1>12. CASE GpuLoss \/ UNCHANGED vars
  BY <1>12 DEF GpuLoss, vars, Ending, InFlightSlots, retirementVars, adapterVars, pumpVars,
     renderVars
<1> QED
  BY <1>1, <1>2, <1>3, <1>4, <1>5, <1>6, <1>7, <1>8, <1>9, <1>10, <1>11, <1>12
     DEF Next, PumpStep, RenderStep, Finished

\* The three invariants hold in every reachable state.
LEMMA EndingAlways == Spec => [](Counting /\ Books /\ Ending)
BY CountingInit, CountingStep, BooksInit, BooksStep, EndingInit, EndingStep, PTL DEF Spec

\* The pump waits on at least one fence, and its mirror agrees with the slots.
THEOREM PumpHasWork == Spec => []PumpWatchesSomething
<1>1. Counting /\ Books /\ Ending => PumpWatchesSomething
  BY DEF Books, MirrorAgrees, Ending, PumpWatchesSomething, InFlightSlots
<1> QED
  BY EndingAlways, <1>1, PTL

\* The release loses no completion, even when the drain before it gave up because the
\* device was lost.
THEOREM ReleaseIsComplete == Spec => []ReleaseLosesNothing
<1>1. Counting /\ Books /\ Ending => ReleaseLosesNothing
  <2> SUFFICES ASSUME Counting, Books, Ending, owner = "released", NEW n \in Sequences
               PROVE  n \in Delivered
    BY DEF ReleaseLosesNothing
  <2>1. InFlightSlots = {} /\ pump = "exited" /\ render = "stopped"
    BY DEF Ending
  <2>2. /\ nextCompletion \in Nat /\ nextSubmit \in Nat /\ nextCompletion <= nextSubmit
        /\ nextCompletion \notin ordered
    BY DEF Counting, TypeOK, Books, Window
  <2>3. nextCompletion = nextSubmit
    BY <2>1, <2>2 DEF Books, EachTracked
  <2>4. \A t \in Runners : Pending(t) = {}
    BY <2>1 DEF Counting, BatchesIdle, Pending, EmptyBatch, Runners
  <2> QED
    BY <2>2, <2>3, <2>4 DEF Books, EachTaken, Sequences
<1> QED
  BY EndingAlways, <1>1, PTL

-----------------------------------------------------------------------------
(* Ownership: what the GPU reads *)

FencesTell ==
  /\ backendLost \/ ~healthy \/ ~waitOk => gpuLost
  /\ gpuLost => executing = {}
  /\ \A s \in executing : fence[s] = "unsignaled"

Owned ==
  \A s \in executing :
    state[s] = "InFlight" \/ (render \in {"queued", "orphan"} /\ lease.slot = s)

\* The lease the render thread holds is the slot's current one, and recording goes on with
\* the fence reset.
LeaseHeld ==
  /\ HoldsLease => LeaseMatches
  /\ render \in {"record", "promote", "promoted"} => fence[lease.slot] = "unsignaled"

Ownership == FencesTell /\ Owned /\ LeaseHeld

\* The GPU reads nothing before the first frame.
LEMMA OwnershipInit == Init => Ownership
BY DEF Init, Ownership, FencesTell, Owned, LeaseHeld, HoldsLease

\* A poll frees a slot whose fence has signalled, or any slot once the device is lost; the
\* adapter believes the device lost only when it is.
LEMMA PollFreesFinished ==
  ASSUME TypeOK, Ownership, NEW t \in Runners, NEW lost \in BOOLEAN, NEW waited \in BOOLEAN,
         NEW freed \in SUBSET Slots, PollAndCollect(t, lost, waited, freed),
         lost => gpuLost
  PROVE  /\ freed \subseteq InFlightSlots
         /\ gpuLost \/ \A s \in freed : fence[s] = "signaled"
         /\ (backendLost' \/ ~healthy' => gpuLost)
<1>1. freed \subseteq InFlightSlots
  BY PollFacts
<1>2. CASE gpuLost
  BY <1>1, <1>2
<1>3. CASE ~gpuLost
  <2>1. PICK errors \in PollErrors(lost) :
          LET broken     == ~healthy \/ errors # {}
              retired    == IF healthy THEN Retired(errors) ELSE {}
              lostSlots  == IF broken THEN Abandonable(retired) ELSE {}
          IN /\ freed = retired \union lostSlots
             /\ healthy' = ~broken
             /\ backendLost' = (lost \/ broken)
    BY DEF PollAndCollect
  <2>2. ~lost /\ healthy /\ errors = {}
    BY <1>3 DEF PollErrors, Ownership, FencesTell
  <2>3. freed = Retired({}) /\ healthy' /\ ~backendLost'
    BY <2>1, <2>2
  <2> QED
    BY <1>1, <2>3 DEF Retired
<1> QED
  BY <1>2, <1>3

\* A poll that leases no slot, or leases a free one, touches nothing the GPU reads.
LEMMA PollKeepsOwned ==
  ASSUME TypeOK, Ownership, NEW freed \in SUBSET InFlightSlots,
         gpuLost \/ \A s \in freed : fence[s] = "signaled",
         \/ state' = AfterPoll(freed)
         \/ \E s \in Slots : /\ FirstFree(s, AfterPoll(freed))
                            /\ state' = [AfterPoll(freed) EXCEPT ![s] = "Recording"],
         render \notin {"queued", "orphan"}, UNCHANGED executing
  PROVE  Owned'
<1> SUFFICES ASSUME NEW s \in executing
             PROVE  state'[s] = "InFlight"
  BY DEF Owned
<1>1. s \in Slots /\ state[s] = "InFlight" /\ s \notin freed
  BY DEF TypeOK, Ownership, FencesTell, Owned
<1>2. AfterPoll(freed)[s] = "InFlight" /\ AfterPoll(freed) \in [Slots -> {"Free", "Recording", "InFlight"}]
  BY <1>1 DEF AfterPoll, TypeOK
<1> QED
  BY <1>1, <1>2 DEF FirstFree

\* Steps that touch neither the slots nor the device nor the lease.
LEMMA OwnershipUntouched ==
  ASSUME Ownership,
         UNCHANGED <<state, generation, healthy, backendLost, waitOk, executing, fence, gpuLost,
                     lease>>,
         HoldsLease' => HoldsLease,
         render' \in {"record", "promote", "promoted"} =>
           render \in {"record", "promote", "promoted"},
         render \in {"queued", "orphan"} => render' \in {"queued", "orphan"}
  PROVE  Ownership'
BY DEF Ownership, FencesTell, Owned, LeaseHeld, LeaseMatches

\* Every step keeps each slot the GPU reads with its owner.
LEMMA OwnershipStep == Counting /\ Ownership /\ [Next]_vars => Ownership'
<1> SUFFICES ASSUME Counting, Ownership, [Next]_vars
             PROVE  Ownership'
  OBVIOUS
<1>0. TypeOK
  BY DEF Counting
<1>1. CASE PumpCollect
  <2> DEFINE lost == backendLost \/ ~waitOk
  <2>1. PICK freed \in SUBSET Slots :
          /\ PollAndCollect(Pump, lost, waitOk, freed)
          /\ state' = AfterPoll(freed)
    BY <1>1 DEF PumpCollect
  <2>2. lost \in BOOLEAN /\ waitOk \in BOOLEAN /\ (lost => gpuLost)
    BY <1>0 DEF TypeOK, Ownership, FencesTell
  <2> HIDE DEF lost
  <2>3. /\ freed \subseteq InFlightSlots
        /\ gpuLost \/ \A s \in freed : fence[s] = "signaled"
        /\ (backendLost' \/ ~healthy' => gpuLost)
    BY <1>0, <2>1, <2>2, PollFreesFinished DEF Runners
  <2>4. waitOk' /\ UNCHANGED <<generation, render, lease, afterCallbacks, executing, fence, gpuLost>>
    BY <1>1 DEF PumpCollect, renderVars, gpuVars
  <2>5. FencesTell'
    BY <2>3, <2>4 DEF Ownership, FencesTell
  <2>6. Owned'
    <3> SUFFICES ASSUME NEW s \in executing, ~(render \in {"queued", "orphan"} /\ lease.slot = s)
                 PROVE  state'[s] = "InFlight"
      BY <2>4 DEF Owned
    <3>1. s \in Slots /\ state[s] = "InFlight" /\ s \notin freed
      BY <1>0, <2>3 DEF TypeOK, Ownership, FencesTell, Owned
    <3> QED
      BY <2>1, <3>1 DEF AfterPoll
  <2>7. LeaseHeld'
    <3>1. HoldsLease => LeaseMatches'
      BY <2>1, <2>3, <2>4 DEF Ownership, LeaseHeld, LeaseMatches, AfterPoll, InFlightSlots
    <3> QED
      BY <2>4, <3>1 DEF Ownership, LeaseHeld, HoldsLease
  <2> QED
    BY <2>5, <2>6, <2>7 DEF Ownership
<1>2. CASE Acquire
  <2>1. PICK freed \in SUBSET Slots :
          /\ PollAndCollect(Render, FALSE, TRUE, freed)
          /\ \/ /\ \E s \in Slots :
                     /\ FirstFree(s, AfterPoll(freed))
                     /\ state' = [AfterPoll(freed) EXCEPT ![s] = "Recording"]
                     /\ generation' = [generation EXCEPT ![s] = @ + 1]
                     /\ lease' = [slot |-> s, generation |-> generation[s] + 1]
             \/ /\ state' = AfterPoll(freed)
                /\ afterCallbacks' = IF healthy' THEN "waitSlot" ELSE "idle"
    BY <1>2 DEF Acquire
  <2>2. /\ freed \subseteq InFlightSlots
        /\ gpuLost \/ \A s \in freed : fence[s] = "signaled"
        /\ (backendLost' \/ ~healthy' => gpuLost)
    BY <1>0, <2>1, PollFreesFinished DEF Runners
  <2>3. /\ render = "acquire" /\ render' = "callbacks"
        /\ UNCHANGED <<waitOk, executing, fence, gpuLost>>
    BY <1>2 DEF Acquire, pumpVars, gpuVars
  <2>4. FencesTell'
    BY <2>2, <2>3 DEF Ownership, FencesTell
  <2>5. Owned'
    BY <1>0, <2>1, <2>2, <2>3, PollKeepsOwned
  <2>6. LeaseHeld'
    <3>1. ASSUME afterCallbacks' = "reset"
          PROVE  LeaseMatches'
      <4>1. PICK s \in Slots :
              /\ state' = [AfterPoll(freed) EXCEPT ![s] = "Recording"]
              /\ generation' = [generation EXCEPT ![s] = @ + 1]
              /\ lease' = [slot |-> s, generation |-> generation[s] + 1]
        BY <2>1, <3>1
      <4>2. lease'.slot = s /\ lease'.generation = generation[s] + 1
        BY <4>1
      <4>3. state'[s] = "Recording" /\ generation'[s] = generation[s] + 1
        BY <1>0, <4>1 DEF AfterPoll, TypeOK
      <4> QED
        BY <4>2, <4>3 DEF LeaseMatches
    <3> QED
      BY <2>3, <3>1 DEF LeaseHeld, HoldsLease
  <2> QED
    BY <2>4, <2>5, <2>6 DEF Ownership
<1>3. CASE ResetFence
  BY <1>0, <1>3 DEF ResetFence, Ownership, FencesTell, Owned, LeaseHeld, LeaseMatches, HoldsLease,
     retirementVars, adapterVars, pumpVars, TypeOK
<1>4. CASE AbandonFrame
  <2>1. lease.slot \in Slots /\ state[lease.slot] = "Recording"
    BY <1>4 DEF AbandonFrame, Ownership, LeaseHeld, LeaseMatches, HoldsLease
  <2>2. lease.slot \notin executing
    BY <1>4, <2>1 DEF AbandonFrame, Ownership, Owned
  <2> QED
    BY <1>0, <1>4, <2>1, <2>2 DEF AbandonFrame, CancelLease, Ownership, FencesTell, Owned,
       LeaseHeld, HoldsLease, adapterVars, pumpVars, gpuVars, TypeOK
<1>5. CASE OrphanWait
  <2>1. lease.slot \in Slots /\ lease.slot \notin executing
    BY <1>5 DEF OrphanWait, Ownership, FencesTell, LeaseHeld, LeaseMatches, HoldsLease
  <2> QED
    BY <1>0, <1>5, <2>1 DEF OrphanWait, CancelLease, Ownership, FencesTell, Owned, LeaseHeld,
       HoldsLease, adapterVars, pumpVars, gpuVars, TypeOK
<1>6. CASE QueueSubmit
  BY <1>6 DEF QueueSubmit, Ownership, FencesTell, Owned, LeaseHeld, LeaseMatches, HoldsLease,
     retirementVars, adapterVars, pumpVars
<1>7. CASE Submit
  BY <1>0, <1>7 DEF Submit, Ownership, FencesTell, Owned, LeaseHeld, LeaseMatches, HoldsLease,
     pumpVars, gpuVars, TypeOK
<1>8. ASSUME NEW s \in Slots, GpuFinish(s)
      PROVE  Ownership'
  <2>1. render \in {"record", "promote", "promoted"} => lease.slot # s
    BY <1>8 DEF GpuFinish, Ownership, Owned, LeaseHeld, LeaseMatches, HoldsLease
  <2> QED
    BY <1>0, <1>8, <2>1 DEF GpuFinish, Ownership, FencesTell, Owned, LeaseHeld, LeaseMatches,
       HoldsLease, retirementVars, adapterVars, renderVars, TypeOK
<1>9. CASE GpuLoss
  BY <1>9 DEF GpuLoss, Ownership, FencesTell, Owned, LeaseHeld, LeaseMatches, HoldsLease,
     retirementVars, adapterVars, pumpVars, renderVars
<1>10. CASE PumpWake
  BY <1>10 DEF PumpWake, Ownership, FencesTell, Owned, LeaseHeld, LeaseMatches, HoldsLease,
     retirementVars, adapterVars, renderVars, gpuVars
<1>11. CASE PumpTake \/ PumpBeginWait \/ PumpSettle
  BY <1>11, OwnershipUntouched DEF PumpTake, PumpBeginWait, PumpSettle, HoldsLease,
     retirementVars, adapterVars, renderVars, gpuVars
<1>12. CASE BeginFrame \/ Grow \/ AcquireRefused \/ SlotFreed
  BY <1>12, OwnershipUntouched DEF BeginFrame, Grow, AcquireRefused, SlotFreed, HoldsLease,
     retirementVars, adapterVars, pumpVars, gpuVars
<1>13. CASE RenderSettle
  BY <1>0, <1>13, OwnershipUntouched DEF RenderSettle, HoldsLease, TypeOK, retirementVars, pumpVars,
     gpuVars
<1>14. CASE BeginPromote \/ EndPromote \/ SubmitRefused \/ SyncWait \/ RenderStop
  BY <1>14, OwnershipUntouched DEF BeginPromote, EndPromote, SubmitRefused, SyncWait, RenderStop,
     HoldsLease, retirementVars, adapterVars, pumpVars, gpuVars
<1>15. CASE OwnerStep
  BY <1>15, OwnershipUntouched DEF OwnerStep, BeginRelease, OwnerDrained, OwnerReleased, HoldsLease,
     retirementVars, adapterVars, pumpVars, renderVars, gpuVars
<1>16. ASSUME NEW t \in Runners, RunCallback(t)
       PROVE  Ownership'
  BY <1>16, OwnershipUntouched DEF RunCallback, HoldsLease, retirementVars, pumpVars, renderVars,
     gpuVars
<1>17. CASE UNCHANGED vars
  BY <1>17, OwnershipUntouched DEF vars, HoldsLease, retirementVars, adapterVars, pumpVars,
     renderVars, gpuVars
<1> QED
  BY <1>1, <1>2, <1>3, <1>4, <1>5, <1>6, <1>7, <1>8, <1>9, <1>10, <1>11, <1>12, <1>13, <1>14,
     <1>15, <1>16, <1>17
     DEF Next, PumpStep, RenderStep, Finished

\* The resources of a slot the GPU reads always belong to a tracked frame or to the frame the
\* render thread has just queued, and the pool is not destroyed under them.
THEOREM NoReuseUnderTheGpu == Spec => []GpuReadsOnlyOwnedSlots
<1>1. Counting /\ Ending /\ Ownership => GpuReadsOnlyOwnedSlots
  <2> SUFFICES ASSUME Counting, Ending, Ownership, NEW s \in executing
               PROVE  /\ owner # "released"
                      /\ state[s] = "InFlight" \/ (render \in {"queued", "orphan"} /\ lease.slot = s)
    BY DEF GpuReadsOnlyOwnedSlots
  <2>1. state[s] = "InFlight" \/ (render \in {"queued", "orphan"} /\ lease.slot = s)
    BY DEF Ownership, Owned
  <2>2. s \in Slots
    BY DEF Counting, TypeOK
  <2> QED
    BY <2>1, <2>2 DEF Ending, InFlightSlots
<1> QED
  BY EndingAlways, OwnershipInit, OwnershipStep, <1>1, PTL DEF Spec

-----------------------------------------------------------------------------
(* Delivery: the pool implements FrameDelivery.  The books say that what a runner collects is  *)
(* the next row of sequences and in flight nowhere else, the ownership that a slot the GPU     *)
(* reads is not among those a poll frees, and the losses what a runner may tell.               *)

Held == [t \in Runners |-> HeldBy(t)]

\* Untracked frames, on the queue but not in flight, are not in the pool yet.
Reading == {sequenceOf[s] : s \in executing \intersect InFlightSlots}

Refinable == Counting /\ Books /\ Losses /\ Ownership

\* The invariants the refinement rests on hold in every reachable state.
LEMMA RefinableAlways == Spec => []Refinable
<1>1. Init => Refinable
  BY CountingInit, BooksInit, LossesInit, OwnershipInit DEF Refinable
<1>2. Refinable /\ [Next]_vars => Refinable'
  BY CountingStep, BooksStep, LossesStep, OwnershipStep DEF Refinable
<1> QED
  BY <1>1, <1>2, PTL DEF Spec

\* A step that leaves the abstract state alone.
LEMMA Stutters ==
  ASSUME Reading' = Reading, Held' = Held,
         UNCHANGED <<nextSubmit, nextCompletion, gpuLost, abandoned, succeeded, failed>>
  PROVE  UNCHANGED Delivery!deliveryVars
BY DEF Delivery!deliveryVars, Reading, Held

\* What the runners hold depends on their batches only.
LEMMA SameBatches ==
  ASSUME UNCHANGED batch
  PROVE  Held' = Held
BY DEF Held, HeldBy

\* What the GPU reads depends on the device, the flight and the captured sequences only.
LEMMA SameReading ==
  ASSUME UNCHANGED <<executing, sequenceOf>>, InFlightSlots' = InFlightSlots
  PROVE  Reading' = Reading
BY DEF Reading

-----------------------------------------------------------------------------
(* Runners *)

\* A collection is a Take: the row it collects is not read by the GPU any more, whatever it
\* gives up is in flight and the device lost, and what it tells agrees with that.
LEMMA CollectionTakes ==
  ASSUME Refinable, NEW t \in Runners, NEW lost \in BOOLEAN, NEW waited \in BOOLEAN,
         NEW freed \in SUBSET Slots, PollAndCollect(t, lost, waited, freed),
         batch[t] = EmptyBatch, InFlightSlots' = InFlightSlots \ freed,
         backendLost => lost, lost \/ ~waited => gpuLost,
         UNCHANGED <<sequenceOf, nextSubmit, gpuVars, succeeded, failed>>
  PROVE  \E end \in nextCompletion .. nextSubmit : Delivery!Take(t, end)
<1>1. TypeOK /\ Counting /\ Books /\ Losses /\ Ownership
  BY DEF Refinable, Counting
<1>2. /\ freed \subseteq InFlightSlots
      /\ abandoned' \subseteq abandoned \union {sequenceOf[s] : s \in freed}
      /\ abandoned \subseteq abandoned'
      /\ (abandoned' # abandoned => backendLost')
      /\ (lost \/ ~healthy' => backendLost')
      /\ TakesBatch(t, waited, freed)
  BY <1>1, PollFacts
<1>3. /\ gpuLost \/ \A s \in freed : fence[s] = "signaled"
      /\ (backendLost' => gpuLost)
  BY <1>1, PollFreesFinished
<1> DEFINE R == ordered \union {sequenceOf[s] : s \in freed}
<1>4. PICK end \in nextCompletion .. nextSubmit :
        /\ Collects(R, end)
        /\ nextCompletion' = end
        /\ batch' = [batch EXCEPT ![t] =
                       [first |-> nextCompletion, next |-> nextCompletion, end |-> end,
                        ok |-> waited /\ ~backendLost']]
  BY <1>2 DEF TakesBatch
<1> DEFINE ok    == waited /\ ~backendLost'
           given == abandoned' \ abandoned
<1>5. executing \intersect freed = {}
  BY <1>1, <1>3 DEF Ownership, FencesTell
<1>6. Reading' = Reading
  BY <1>2, <1>5 DEF Reading, gpuVars
<1>7. (nextCompletion .. (end - 1)) \intersect Reading = {}
  <2> SUFFICES ASSUME NEW s \in executing \intersect InFlightSlots,
                      sequenceOf[s] \in nextCompletion .. (end - 1)
               PROVE  FALSE
    BY DEF Reading
  <2>1. sequenceOf[s] \in R /\ sequenceOf[s] \notin ordered
    BY <1>1, <1>4 DEF Collects, Books, TrackedOnce
  <2>2. PICK r \in freed : sequenceOf[r] = sequenceOf[s]
    BY <2>1
  <2>3. r = s
    BY <1>1, <1>2, <2>2 DEF Books, TrackedOnce
  <2> QED
    BY <1>5, <2>2, <2>3
<1>8. Held[t] = Delivery!Nothing
  BY DEF Held, HeldBy, EmptyBatch, Delivery!Nothing
<1>9. Held' = IF end = nextCompletion THEN Held
              ELSE [Held EXCEPT ![t] = [next |-> nextCompletion, end |-> end, ok |-> ok]]
  <2>1. \A u \in Runners \ {t} : HeldBy(u)' = HeldBy(u)
    BY <1>1, <1>4 DEF HeldBy, TypeOK
  <2>2. HeldBy(t)' = IF end = nextCompletion THEN HeldBy(t)
                     ELSE [next |-> nextCompletion, end |-> end, ok |-> ok]
    BY <1>1, <1>4 DEF HeldBy, TypeOK, EmptyBatch
  <2> QED
    BY <2>1, <2>2 DEF Held
<1>10. given \in SUBSET (nextCompletion .. (nextSubmit - 1)) /\ ok \in BOOLEAN
  BY <1>1, <1>2 DEF Books, Window
<1>11. (given # {} \/ ~ok) => gpuLost
  BY <1>2, <1>3
<1>12. abandoned' = abandoned \union given
  BY <1>2
<1>13. ok => (nextCompletion .. (end - 1)) \intersect abandoned' = {}
  BY <1>1, <1>2 DEF Losses
<1>14. /\ nextCompletion \in Nat /\ nextSubmit \in Nat
       /\ nextSubmit - 1 + 1 = nextSubmit
  BY <1>1 DEF TypeOK
<1> HIDE DEF ok, given, R
<1>15. Delivery!Take(t, end)
  <2>1. \E g \in SUBSET (nextCompletion .. (nextSubmit - 1)), k \in BOOLEAN :
          /\ (g # {} \/ ~k) => gpuLost
          /\ abandoned' = abandoned \union g
          /\ k => (nextCompletion .. (end - 1)) \intersect abandoned' = {}
          /\ Held' = IF end = nextCompletion THEN Held
                     ELSE [Held EXCEPT ![t] = [next |-> nextCompletion, end |-> end, ok |-> k]]
    BY <1>9, <1>10, <1>11, <1>12, <1>13
  <2> QED
    BY <1>4, <1>6, <1>7, <1>8, <1>14, <2>1 DEF Delivery!Take, Reading, Held, gpuVars
<1> QED
  BY <1>15

\* Running a collected completion is a Run.
LEMMA CallbackRuns ==
  ASSUME Refinable, NEW t \in Runners, RunCallback(t)
  PROVE  Delivery!Run(t)
<1>1. /\ TypeOK
      /\ batch[t].next \in Nat /\ batch[t].end \in Nat /\ batch[t].next < batch[t].end
      /\ 1 <= batch[t].next
  BY DEF Refinable, Counting, TypeOK, Books, TakenOnce, RunCallback
<1>2. Held[t] = [next |-> batch[t].next, end |-> batch[t].end, ok |-> batch[t].ok]
  BY <1>1 DEF Held, HeldBy
<1>3. Held[t] # Delivery!Nothing
  BY <1>1, <1>2 DEF Delivery!Nothing
<1>4. \A u \in Runners \ {t} : HeldBy(u)' = HeldBy(u)
  BY <1>1 DEF RunCallback, HeldBy, TypeOK
<1>5. HeldBy(t)' = IF batch[t].next + 1 = batch[t].end THEN Delivery!Nothing
                   ELSE [next |-> batch[t].next + 1, end |-> batch[t].end, ok |-> batch[t].ok]
  BY <1>1 DEF RunCallback, HeldBy, TypeOK, Delivery!Nothing
<1>6. Held' = [Held EXCEPT ![t] = IF Held[t].next + 1 = Held[t].end THEN Delivery!Nothing
                                  ELSE [Held[t] EXCEPT !.next = Held[t].next + 1]]
  <2>1. HeldBy(t)' = IF Held[t].next + 1 = Held[t].end THEN Delivery!Nothing
                     ELSE [Held[t] EXCEPT !.next = Held[t].next + 1]
    BY <1>2, <1>5
  <2> QED
    BY <1>4, <2>1 DEF Held
<1>7. Reading' = Reading
  BY SameReading DEF RunCallback, retirementVars, gpuVars, InFlightSlots
<1>8. /\ IF Held[t].ok
         THEN succeeded' = succeeded \union {Held[t].next} /\ UNCHANGED failed
         ELSE failed' = failed \union {Held[t].next} /\ UNCHANGED succeeded
      /\ UNCHANGED <<nextSubmit, nextCompletion, gpuLost, abandoned>>
  BY <1>2 DEF RunCallback, gpuVars
<1> QED
  BY <1>3, <1>6, <1>7, <1>8 DEF Delivery!Run, Reading, Held

\* A settled batch had nothing left to run.
LEMMA SettlingHoldsNothing ==
  ASSUME Refinable, NEW t \in Runners, BatchDone(t)
  PROVE  Held' = Held
<1>1. \A u \in Runners : HeldBy(u)' = HeldBy(u)
  BY DEF Refinable, Counting, TypeOK, BatchDone, HeldBy, EmptyBatch
<1> QED
  BY <1>1 DEF Held

-----------------------------------------------------------------------------
(* Submission and the device *)

\* The pool's Submit is a SubmitToPool: the GPU may have finished the frame, or have been
\* lost, between vkQueueSubmit and the pool's acceptance.
LEMMA SubmitSubmits ==
  ASSUME Refinable, Submit
  PROVE  Delivery!SubmitToPool
<1> DEFINE s0 == lease.slot
<1>1. TypeOK /\ s0 \in Slots /\ s0 \notin InFlightSlots /\ nextSubmit \in Nat
  BY DEF Refinable, Counting, TypeOK, Submit, LeaseMatches, InFlightSlots
<1>2. InFlightSlots' = InFlightSlots \union {s0}
  BY <1>1 DEF Submit, InFlightSlots, TypeOK
<1>3. /\ sequenceOf'[s0] = nextSubmit
      /\ \A s \in InFlightSlots : sequenceOf'[s] = sequenceOf[s]
  BY <1>1 DEF Submit, TypeOK, InFlightSlots
<1>4. /\ UNCHANGED <<nextCompletion, batch, executing, gpuLost, abandoned, succeeded, failed>>
      /\ nextSubmit' = nextSubmit + 1
  BY DEF Submit, gpuVars, history
<1>5. Reading' = Reading \/ (~gpuLost /\ Reading' = Reading \union {nextSubmit})
  <2>1. CASE s0 \in executing
    <3>1. ~gpuLost
      BY <2>1 DEF Refinable, Ownership, FencesTell
    <3>2. Reading' = Reading \union {nextSubmit}
      BY <1>2, <1>3, <1>4, <2>1 DEF Reading
    <3> QED
      BY <3>1, <3>2
  <2>2. CASE s0 \notin executing
    BY <1>2, <1>3, <1>4, <2>2 DEF Reading
  <2> QED
    BY <2>1, <2>2
<1>6. Held' = Held
  BY <1>4, SameBatches
<1>7. nextSubmit' - 1 = (nextSubmit - 1) + 1 /\ (nextSubmit - 1) + 1 = nextSubmit
  BY <1>1, <1>4
<1>8. Reading' \in {Reading} \union (IF gpuLost THEN {} ELSE {Reading \union {nextSubmit}})
  BY <1>5
<1> QED
  BY <1>4, <1>6, <1>7, <1>8 DEF Delivery!SubmitToPool, Reading, Held

\* The GPU finishing a slot in flight is done with its frame; finishing one the pool does not
\* track yet is invisible.
LEMMA FinishIsDone ==
  ASSUME Refinable, NEW s \in Slots, GpuFinish(s)
  PROVE  (\E n \in Reading : Delivery!GpuDone(n)) \/ UNCHANGED Delivery!deliveryVars
<1>1. /\ InFlightSlots' = InFlightSlots /\ executing' = executing \ {s} /\ s \in executing
      /\ UNCHANGED <<sequenceOf, nextSubmit, nextCompletion, batch, gpuLost, abandoned, succeeded,
                     failed>>
  BY DEF GpuFinish, InFlightSlots, retirementVars, adapterVars, history
<1>2. Held' = Held
  BY <1>1, SameBatches
<1>3. CASE s \in InFlightSlots
  <2>1. \A r \in executing \intersect InFlightSlots : sequenceOf[r] = sequenceOf[s] <=> r = s
    BY <1>3 DEF Refinable, Books, TrackedOnce
  <2>2. Reading' = Reading \ {sequenceOf[s]} /\ sequenceOf[s] \in Reading
    BY <1>1, <1>3, <2>1 DEF Reading
  <2>3. PICK n \in Reading : Reading' = Reading \ {n}
    BY <2>2
  <2>4. Delivery!GpuDone(n)
    BY <1>1, <1>2, <2>3 DEF Delivery!GpuDone, Reading, Held
  <2> QED
    BY <2>4
<1>4. CASE s \notin InFlightSlots
  <2>1. Reading' = Reading
    BY <1>1, <1>4 DEF Reading
  <2> QED
    BY <1>1, <1>2, <2>1, Stutters
<1> QED
  BY <1>3, <1>4

\* Losing the device is LoseDevice.
LEMMA LossLoses ==
  ASSUME GpuLoss
  PROVE  Delivery!LoseDevice
<1>1. /\ ~gpuLost /\ gpuLost' /\ executing' = {}
      /\ UNCHANGED <<nextSubmit, nextCompletion, batch, abandoned, succeeded, failed>>
  BY DEF GpuLoss, adapterVars, history
<1>2. Reading' = {}
  BY <1>1 DEF Reading
<1>3. Held' = Held
  BY <1>1, SameBatches
<1>4. gpuLost' = TRUE
  BY DEF GpuLoss
<1> QED
  BY <1>1, <1>2, <1>3, <1>4 DEF Delivery!LoseDevice, Reading, Held

\* Queueing the leased slot is invisible: it is recording, not in flight.
LEMMA QueueingIsInvisible ==
  ASSUME Refinable, QueueSubmit
  PROVE  UNCHANGED Delivery!deliveryVars
<1>1. lease.slot \notin InFlightSlots
  BY DEF QueueSubmit, Refinable, Ownership, LeaseHeld, HoldsLease, LeaseMatches, InFlightSlots
<1>2. /\ InFlightSlots' = InFlightSlots /\ executing' = executing \union {lease.slot}
      /\ UNCHANGED <<sequenceOf, nextSubmit, nextCompletion, batch, gpuLost, abandoned, succeeded,
                     failed>>
  BY DEF QueueSubmit, InFlightSlots, retirementVars, adapterVars, history
<1>3. Reading' = Reading
  BY <1>1, <1>2 DEF Reading
<1> QED
  BY <1>2, <1>3, SameBatches, Stutters

-----------------------------------------------------------------------------
(* The refinement *)

\* A step that touches neither the device nor the flight nor the books.
LEMMA ControlStutters ==
  ASSUME InFlightSlots' = InFlightSlots,
         UNCHANGED <<executing, gpuLost, sequenceOf, nextSubmit, nextCompletion, batch, history>>
  PROVE  UNCHANGED Delivery!deliveryVars
BY SameBatches, SameReading, Stutters DEF history

\* Every step of the pool is a step of FrameDelivery or changes nothing it sees.
LEMMA StepDelivers == Refinable /\ [Next]_vars => [Delivery!DeliveryNext]_Delivery!deliveryVars
<1> SUFFICES ASSUME Refinable, [Next]_vars
             PROVE  Delivery!DeliveryNext \/ UNCHANGED Delivery!deliveryVars
  OBVIOUS
<1>0. TypeOK /\ nextSubmit \in Nat /\ nextSubmit - 1 + 1 = nextSubmit
  BY DEF Refinable, Counting, TypeOK
<1>1. ASSUME NEW t \in Runners, \E end \in nextCompletion .. nextSubmit : Delivery!Take(t, end)
      PROVE  Delivery!DeliveryNext
  BY <1>0, <1>1 DEF Delivery!DeliveryNext
<1>2. CASE PumpCollect
  <2> DEFINE lost == backendLost \/ ~waitOk
  <2>1. PICK freed \in SUBSET Slots :
          /\ PollAndCollect(Pump, lost, waitOk, freed)
          /\ state' = AfterPoll(freed)
    BY <1>2 DEF PumpCollect
  <2>2. /\ batch[Pump] = EmptyBatch /\ lost \in BOOLEAN /\ waitOk \in BOOLEAN /\ Pump \in Runners
        /\ (backendLost => lost) /\ (lost \/ ~waitOk => gpuLost)
    BY <1>0, <1>2 DEF PumpCollect, Refinable, Counting, TypeOK, BatchesIdle, Ownership, FencesTell,
       Runners
  <2>3. InFlightSlots' = InFlightSlots \ freed
    BY <1>0, <2>1, PolledSlots
  <2>4. UNCHANGED <<sequenceOf, nextSubmit, gpuVars, succeeded, failed>>
    BY <1>2 DEF PumpCollect
  <2> HIDE DEF lost
  <2>5. \E end \in nextCompletion .. nextSubmit : Delivery!Take(Pump, end)
    BY <2>1, <2>2, <2>3, <2>4, CollectionTakes
  <2> QED
    BY <1>1, <2>2, <2>5
<1>3. CASE Acquire
  <2>1. PICK freed \in SUBSET Slots :
          /\ PollAndCollect(Render, FALSE, TRUE, freed)
          /\ \/ \E s \in Slots : /\ FirstFree(s, AfterPoll(freed))
                                /\ state' = [AfterPoll(freed) EXCEPT ![s] = "Recording"]
             \/ state' = AfterPoll(freed)
    BY <1>3 DEF Acquire
  <2>2. batch[Render] = EmptyBatch /\ ~backendLost /\ Render \in Runners
    BY <1>3 DEF Acquire, Refinable, Counting, BatchesIdle, Runners
  <2>3. InFlightSlots' = InFlightSlots \ freed
    BY <1>0, <2>1, PolledSlots
  <2>4. UNCHANGED <<sequenceOf, nextSubmit, gpuVars, succeeded, failed>>
    BY <1>3 DEF Acquire
  <2>5. \E end \in nextCompletion .. nextSubmit : Delivery!Take(Render, end)
    BY <2>1, <2>2, <2>3, <2>4, CollectionTakes
  <2> QED
    BY <1>1, <2>2, <2>5
<1>4. ASSUME NEW t \in Runners, RunCallback(t)
      PROVE  Delivery!DeliveryNext
  BY <1>4, CallbackRuns DEF Delivery!DeliveryNext
<1>5. CASE Submit
  BY <1>5, SubmitSubmits DEF Delivery!DeliveryNext
<1>6. ASSUME NEW s \in Slots, GpuFinish(s)
      PROVE  Delivery!DeliveryNext \/ UNCHANGED Delivery!deliveryVars
  <2>1. (\E n \in Reading : Delivery!GpuDone(n)) \/ UNCHANGED Delivery!deliveryVars
    BY <1>6, FinishIsDone
  <2> QED
    BY <2>1 DEF Delivery!DeliveryNext, Reading
<1>7. CASE GpuLoss
  BY <1>7, LossLoses DEF Delivery!DeliveryNext
<1>8. CASE QueueSubmit
  BY <1>8, QueueingIsInvisible
<1>9. CASE PumpSettle \/ RenderSettle
  <2>1. Held' = Held
    BY <1>9, SettlingHoldsNothing DEF PumpSettle, RenderSettle, Runners
  <2>2. /\ InFlightSlots' = InFlightSlots
        /\ UNCHANGED <<executing, gpuLost, sequenceOf, nextSubmit, nextCompletion, history>>
    BY <1>9 DEF PumpSettle, RenderSettle, InFlightSlots, retirementVars, gpuVars
  <2> QED
    BY <2>1, <2>2, SameReading, Stutters DEF history
<1>10. CASE AbandonFrame \/ OrphanWait
  <2>1. InFlightSlots' = InFlightSlots
    BY <1>0, <1>10, CancelKeepsFlight DEF AbandonFrame, OrphanWait
  <2> QED
    BY <1>10, <2>1, ControlStutters DEF AbandonFrame, OrphanWait, adapterVars, gpuVars
<1>11. CASE PumpTake \/ PumpBeginWait \/ PumpWake \/ OwnerStep
  BY <1>11, ControlStutters DEF PumpTake, PumpBeginWait, PumpWake, OwnerStep, BeginRelease,
     OwnerDrained, OwnerReleased, retirementVars, adapterVars, gpuVars, InFlightSlots
<1>12. CASE BeginFrame \/ Grow \/ AcquireRefused \/ SlotFreed \/ ResetFence
  BY <1>12, ControlStutters DEF BeginFrame, Grow, AcquireRefused, SlotFreed, ResetFence,
     retirementVars, adapterVars, gpuVars, InFlightSlots
<1>13. CASE BeginPromote \/ EndPromote \/ SubmitRefused \/ SyncWait \/ RenderStop
  BY <1>13, ControlStutters DEF BeginPromote, EndPromote, SubmitRefused, SyncWait, RenderStop,
     retirementVars, adapterVars, gpuVars, InFlightSlots
<1>14. CASE UNCHANGED vars
  BY <1>14, ControlStutters DEF vars, retirementVars, adapterVars, gpuVars, InFlightSlots
<1> QED
  BY <1>2, <1>3, <1>4, <1>5, <1>6, <1>7, <1>8, <1>9, <1>10, <1>11, <1>12, <1>13, <1>14
     DEF Next, PumpStep, RenderStep, Finished

\* The empty pool is the empty FrameDelivery.
LEMMA InitDelivers == Init => Delivery!DeliveryInit
<1> SUFFICES ASSUME Init
             PROVE  Delivery!DeliveryInit
  OBVIOUS
<1>1. Held = [t \in Runners |-> Delivery!Nothing]
  BY DEF Init, Held, HeldBy, EmptyBatch, Delivery!Nothing
<1>2. Reading = {}
  BY DEF Init, Reading
<1> QED
  BY <1>1, <1>2 DEF Init, Delivery!DeliveryInit, Held, Reading

\* Whatever the slots, fences and waits do, the pool only ever submits, takes and runs
\* completions the way FrameDelivery says: a completion is taken in submission order and never
\* before the GPU is done with its frame (GpuFrameSlots and GpuRetirement).
THEOREM PoolImplementsDelivery == Spec => ImplementsDelivery
BY InitDelivers, StepDelivers, RefinableAlways, PTL
   DEF Spec, ImplementsDelivery, Delivery!DeliverySpec

-----------------------------------------------------------------------------
(* Order: how far the completions may run out of order *)

\* When both runners have something to run, one of them collected it last.
LastTaken ==
  (\A t \in Runners : Pending(t) # {}) => \E t \in Runners : batch[t].end = nextCompletion

\* Every step keeps the newest collection with the runner that has not run it yet.
LEMMA LastTakenStep == Counting /\ LastTaken /\ [Next]_vars => LastTaken'
<1> SUFFICES ASSUME Counting, LastTaken, [Next]_vars
             PROVE  LastTaken'
  OBVIOUS
<1>1. ASSUME NEW t \in Runners, NEW lost \in BOOLEAN, NEW waited \in BOOLEAN,
             NEW freed \in SUBSET Slots, PollAndCollect(t, lost, waited, freed)
      PROVE  LastTaken'
  <2>1. TypeOK /\ TakesBatch(t, waited, freed)
    BY <1>1, PollFacts DEF Counting
  <2>2. batch'[t].end = nextCompletion'
    BY <2>1 DEF TakesBatch, TypeOK
  <2> QED
    BY <2>2 DEF LastTaken
<1>2. CASE PumpCollect
  <2> DEFINE lost == backendLost \/ ~waitOk
  <2>1. PICK freed \in SUBSET Slots : PollAndCollect(Pump, lost, waitOk, freed)
    BY <1>2 DEF PumpCollect
  <2>2. lost \in BOOLEAN /\ waitOk \in BOOLEAN
    BY DEF Counting, TypeOK
  <2> HIDE DEF lost
  <2> QED
    BY <1>1, <2>1, <2>2 DEF Runners
<1>3. CASE Acquire
  BY <1>1, <1>3 DEF Acquire, Runners
<1>4. CASE PumpSettle \/ RenderSettle
  <2>1. \E t \in Runners : batch'[t] = EmptyBatch
    BY <1>4 DEF PumpSettle, RenderSettle, BatchDone, Runners, Counting, TypeOK
  <2>2. \E t \in Runners : Pending(t)' = {}
    BY <2>1 DEF Pending, EmptyBatch
  <2> QED
    BY <2>2 DEF LastTaken
<1>5. ASSUME NEW t \in Runners, RunCallback(t)
      PROVE  LastTaken'
  <2>1. \A u \in Runners : Pending(u)' \subseteq Pending(u) /\ batch'[u].end = batch[u].end
    BY <1>5 DEF RunCallback, Pending, Counting, TypeOK
  <2> QED
    BY <1>5, <2>1 DEF RunCallback, LastTaken
<1>6. ASSUME UNCHANGED <<batch, nextCompletion>>
      PROVE  LastTaken'
  BY <1>6 DEF LastTaken, Pending
<1>7. CASE PumpTake \/ PumpBeginWait \/ PumpWake \/ OwnerStep \/ GpuLoss \/ UNCHANGED vars
  BY <1>6, <1>7 DEF PumpTake, PumpBeginWait, PumpWake, OwnerStep, BeginRelease, OwnerDrained,
     OwnerReleased, GpuLoss, vars, adapterVars
<1>8. CASE BeginFrame \/ Grow \/ AcquireRefused \/ SlotFreed \/ ResetFence \/ AbandonFrame
  BY <1>6, <1>8 DEF BeginFrame, Grow, AcquireRefused, SlotFreed, ResetFence, AbandonFrame,
     adapterVars
<1>9. CASE BeginPromote \/ EndPromote \/ QueueSubmit \/ Submit \/ SubmitRefused
  BY <1>6, <1>9 DEF BeginPromote, EndPromote, QueueSubmit, Submit, SubmitRefused, adapterVars
<1>10. CASE OrphanWait \/ SyncWait \/ RenderStop
  BY <1>6, <1>10 DEF OrphanWait, SyncWait, RenderStop, adapterVars
<1>11. ASSUME NEW s \in Slots, GpuFinish(s)
       PROVE  LastTaken'
  BY <1>6, <1>11 DEF GpuFinish, adapterVars
<1> QED
  BY <1>2, <1>3, <1>4, <1>5, <1>7, <1>8, <1>9, <1>10, <1>11
     DEF Next, PumpStep, RenderStep, Finished

\* What has not run although something newer has.
GapsInOneBatch ==
  \E t \in Runners : \A n \in Delivered : 1 .. n \subseteq Delivered \union Pending(t)

\* Completions do overtake each other, but only as far as one batch: at any time a single
\* runner holds every completion that a newer one has overtaken, and nothing is overtaken
\* before it is collected (GpuFrameSlots::CollectReadyLocked collects under the mutex, the
\* pump and Acquire run what they collected without it).
THEOREM OvertakenIsOneBatch == Spec => []GapsInOneBatch
<1>1. Init => LastTaken
  BY DEF Init, LastTaken, Pending, EmptyBatch, Runners
<1>2. Counting /\ Books /\ LastTaken => GapsInOneBatch
  <2> SUFFICES ASSUME Counting, Books, LastTaken
               PROVE  GapsInOneBatch
    OBVIOUS
  <2>1. /\ Delivered \subseteq 1 .. (nextCompletion - 1) /\ nextCompletion \in Nat
        /\ \A t \in Runners : batch[t].next \in Nat /\ batch[t].end \in Nat
    BY DEF Counting, TypeOK, Books, TakenOnce
  <2>2. \A n \in Delivered, m \in Nat :
          m \in 1 .. n => m \in Delivered \/ \E t \in Runners : m \in Pending(t)
    BY <2>1 DEF Books, EachTaken
  <2>3. ASSUME NEW t \in Runners, NEW u \in Runners, t # u, Pending(u) = {}
        PROVE  GapsInOneBatch
    <3>1. \A n \in Delivered : 1 .. n \subseteq Delivered \union Pending(t)
      BY <2>1, <2>2, <2>3 DEF Runners
    <3> QED
      BY <3>1 DEF GapsInOneBatch
  <2>4. ASSUME NEW t \in Runners, NEW u \in Runners, t # u, batch[u].end = nextCompletion
        PROVE  GapsInOneBatch
    <3> SUFFICES ASSUME NEW n \in Delivered, NEW m \in 1 .. n
                 PROVE  m \in Delivered \union Pending(t)
      BY DEF GapsInOneBatch
    <3>1. n \in Nat /\ n < nextCompletion /\ n \notin Pending(u) /\ m \in Nat /\ m <= n
      BY <2>1 DEF Books, TakenOnce
    <3>2. n < batch[u].next
      BY <2>1, <2>4, <3>1 DEF Pending
    <3>3. m \notin Pending(u)
      BY <2>1, <3>1, <3>2 DEF Pending
    <3> QED
      BY <2>2, <2>4, <3>1, <3>3 DEF Runners
  <2> QED
    BY <2>3, <2>4 DEF LastTaken, Runners, Pump, Render
<1> QED
  BY BooksAlways, CountingInit, CountingStep, LastTakenStep, <1>1, <1>2, PTL DEF Spec

-----------------------------------------------------------------------------
(* Wakeups: the pump never waits for a fence nobody will signal, and no frame is forgotten. *)
(* This is the safety part of EveryFrameDeliversUnlessOverslept.                            *)

\* Somebody signals the fence of slot s, or has: the GPU, or the render thread that has yet to
\* queue the frame it records into s.  A lost device ends every wait.
FenceComes(s) ==
  \/ gpuLost
  \/ s \in executing
  \/ fence[s] = "signaled"
  \/ HoldsLease /\ lease.slot = s

QueuedOrDone(s) == gpuLost \/ s \in executing \/ fence[s] = "signaled"

Wakeups ==
  /\ \A s \in InFlightSlots : QueuedOrDone(s)
  /\ render \in {"queued", "orphan"} => QueuedOrDone(lease.slot)
  /\ render \notin {"promote", "promoted"}
  /\ \A s \in watched : FenceComes(s)

\* The pump watches nothing before the first frame.
LEMMA WakeupsInit == Init => Wakeups
BY DEF Init, Wakeups, InFlightSlots

\* A step that leaves the device, the fences and the pump's snapshot alone, puts nothing in
\* flight, and keeps the lease or leaves its slot on the queue, keeps the causes.
LEMMA WakeupsUntouched ==
  ASSUME Wakeups, UNCHANGED <<executing, fence, gpuLost>>, watched' \subseteq watched,
         InFlightSlots' \subseteq InFlightSlots,
         HoldsLease => (HoldsLease' /\ lease' = lease) \/ QueuedOrDone(lease.slot),
         render' \in {"queued", "orphan"} => QueuedOrDone(lease'.slot),
         render' \notin {"promote", "promoted"}
  PROVE  Wakeups'
<1>1. \A s : QueuedOrDone(s)' = QueuedOrDone(s)
  BY DEF QueuedOrDone
<1>2. \A s \in watched' : FenceComes(s)'
  BY DEF Wakeups, FenceComes, QueuedOrDone
<1> QED
  BY <1>1, <1>2 DEF Wakeups, QueuedOrDone

\* When every frame that starts reaches the queue, each step leaves each watched fence with
\* somebody who signals it.
LEMMA WakeupsStep ==
  ASSUME Outcomes \subseteq {"submits"}, Counting, Books, Ownership, Wakeups, [Next]_vars
  PROVE  Wakeups'
<1>0. TypeOK /\ LeaseHeld /\ FencesTell
  BY DEF Counting, Ownership
<1>1. CASE PumpTake
  <2>1. /\ InFlightSlots' = InFlightSlots
        /\ UNCHANGED <<render, lease, afterCallbacks, executing, fence, gpuLost>>
    BY <1>1 DEF PumpTake, InFlightSlots, retirementVars, renderVars, gpuVars
  <2>2. watched' \subseteq watched \union InFlightSlots
    BY <1>1 DEF PumpTake, Books, MirrorAgrees
  <2> QED
    BY <2>1, <2>2 DEF Wakeups, FenceComes, QueuedOrDone, HoldsLease
<1>2. CASE PumpCollect
  <2>1. InFlightSlots' \subseteq InFlightSlots
    <3>1. PICK freed \in SUBSET Slots : state' = AfterPoll(freed)
      BY <1>2 DEF PumpCollect
    <3> QED
      BY <1>0, <3>1, PolledSlots
  <2> QED
    BY <1>2, <2>1, WakeupsUntouched DEF PumpCollect, HoldsLease, Wakeups, renderVars, gpuVars
<1>3. CASE Acquire
  <2>1. InFlightSlots' \subseteq InFlightSlots
    <3>1. PICK freed \in SUBSET Slots :
            \/ \E s \in Slots : /\ FirstFree(s, AfterPoll(freed))
                               /\ state' = [AfterPoll(freed) EXCEPT ![s] = "Recording"]
            \/ state' = AfterPoll(freed)
      BY <1>3 DEF Acquire
    <3> QED
      BY <1>0, <3>1, PolledSlots
  <2> QED
    BY <1>3, <2>1, WakeupsUntouched DEF Acquire, HoldsLease, pumpVars, gpuVars
<1>4. CASE ResetFence
  <2>1. lease.slot \in Slots /\ lease.slot \notin InFlightSlots
    BY <1>4 DEF ResetFence, Ownership, LeaseHeld, LeaseMatches, HoldsLease, InFlightSlots
  <2>2. /\ InFlightSlots' = InFlightSlots /\ HoldsLease' /\ render' = "record"
        /\ UNCHANGED <<watched, lease, executing, gpuLost>>
    BY <1>4 DEF ResetFence, InFlightSlots, HoldsLease, retirementVars, pumpVars
  <2>3. \A s \in Slots \ {lease.slot} : fence'[s] = fence[s]
    BY <1>0, <1>4 DEF ResetFence, TypeOK
  <2>4. watched \subseteq Slots /\ InFlightSlots \subseteq Slots
    BY <1>0 DEF TypeOK, InFlightSlots
  <2>5. \A s \in InFlightSlots' : QueuedOrDone(s)'
    BY <2>1, <2>2, <2>3, <2>4 DEF Wakeups, QueuedOrDone
  <2>6. \A s \in watched' : FenceComes(s)'
    BY <2>2, <2>3, <2>4 DEF Wakeups, FenceComes
  <2> QED
    BY <2>2, <2>5, <2>6 DEF Wakeups
<1>5. CASE AbandonFrame
  <2>1. InFlightSlots' = InFlightSlots /\ gpuLost
    BY <1>0, <1>5, CancelKeepsFlight DEF AbandonFrame
  <2> QED
    BY <1>5, <2>1, WakeupsUntouched DEF AbandonFrame, QueuedOrDone, pumpVars, gpuVars
<1>6. CASE OrphanWait
  <2>1. InFlightSlots' = InFlightSlots
    BY <1>0, <1>6, CancelKeepsFlight DEF OrphanWait
  <2> QED
    BY <1>6, <2>1, WakeupsUntouched DEF OrphanWait, QueuedOrDone, pumpVars, gpuVars
<1>7. CASE QueueSubmit
  <2>1. /\ InFlightSlots' = InFlightSlots /\ HoldsLease' /\ render' = "queued"
        /\ executing' = executing \union {lease.slot}
        /\ UNCHANGED <<watched, lease, fence, gpuLost>>
    BY <1>7 DEF QueueSubmit, InFlightSlots, HoldsLease, retirementVars, pumpVars
  <2> QED
    BY <2>1 DEF Wakeups, FenceComes, QueuedOrDone
<1>8. CASE Submit
  <2>1. /\ InFlightSlots' \subseteq InFlightSlots \union {lease.slot}
        /\ render' \in {"idle", "sync"} /\ render = "queued"
        /\ UNCHANGED <<watched, executing, fence, gpuLost>>
    BY <1>0, <1>8 DEF Submit, InFlightSlots, TypeOK, pumpVars, gpuVars
  <2> QED
    BY <2>1 DEF Wakeups, FenceComes, QueuedOrDone
<1>9. CASE SubmitRefused
  BY <1>9, WakeupsUntouched DEF SubmitRefused, HoldsLease, Wakeups, InFlightSlots, retirementVars,
     pumpVars, gpuVars
<1>10. ASSUME NEW s \in Slots, GpuFinish(s)
       PROVE  Wakeups'
  <2>1. /\ InFlightSlots' = InFlightSlots /\ executing' = executing \ {s}
        /\ UNCHANGED <<watched, render, lease, afterCallbacks, gpuLost>>
    BY <1>10 DEF GpuFinish, InFlightSlots, retirementVars, renderVars
  <2>2. fence'[s] = "signaled" /\ \A r \in Slots \ {s} : fence'[r] = fence[r]
    BY <1>0, <1>10 DEF GpuFinish, TypeOK
  <2>3. watched \subseteq Slots /\ InFlightSlots \subseteq Slots
        /\ (render \in {"queued", "orphan"} => lease.slot \in Slots)
    BY <1>0 DEF TypeOK, InFlightSlots, LeaseHeld, LeaseMatches, HoldsLease
  <2>4. \A r \in Slots : QueuedOrDone(r) => QueuedOrDone(r)'
    BY <2>1, <2>2 DEF QueuedOrDone
  <2>5. \A r \in Slots : FenceComes(r) => FenceComes(r)'
    BY <2>1, <2>2 DEF FenceComes, HoldsLease
  <2> QED
    BY <2>1, <2>3, <2>4, <2>5 DEF Wakeups
<1>11. CASE GpuLoss
  BY <1>11 DEF GpuLoss, Wakeups, QueuedOrDone, FenceComes, renderVars
<1>12. CASE PumpBeginWait \/ PumpWake \/ PumpSettle
  BY <1>12, WakeupsUntouched DEF PumpBeginWait, PumpWake, PumpSettle, InFlightSlots, HoldsLease,
     Wakeups, retirementVars, renderVars, gpuVars
<1>13. CASE BeginFrame \/ Grow \/ AcquireRefused \/ SlotFreed
  BY <1>13, WakeupsUntouched DEF BeginFrame, Grow, AcquireRefused, SlotFreed, InFlightSlots,
     HoldsLease, retirementVars, pumpVars, gpuVars
<1>14. CASE RenderSettle
  <2>1. /\ render' = afterCallbacks /\ render = "callbacks"
        /\ afterCallbacks \in {"idle", "waitSlot", "reset"} /\ InFlightSlots' = InFlightSlots
        /\ UNCHANGED <<watched, lease, executing, fence, gpuLost>>
    BY <1>0, <1>14 DEF RenderSettle, TypeOK, InFlightSlots, retirementVars, pumpVars, gpuVars
  <2>2. HoldsLease => HoldsLease'
    BY <2>1 DEF HoldsLease
  <2> QED
    BY <2>1, <2>2, WakeupsUntouched
<1>15. CASE SyncWait \/ RenderStop \/ OwnerStep
  BY <1>15, WakeupsUntouched DEF SyncWait, RenderStop, OwnerStep, BeginRelease, OwnerDrained,
     OwnerReleased, InFlightSlots, HoldsLease, Wakeups, retirementVars, pumpVars, renderVars, gpuVars
<1>16. CASE BeginPromote \/ EndPromote
  BY <1>16 DEF BeginPromote, EndPromote, Wakeups
<1>17. ASSUME NEW t \in Runners, RunCallback(t)
       PROVE  Wakeups'
  BY <1>17, WakeupsUntouched DEF RunCallback, InFlightSlots, HoldsLease, Wakeups, retirementVars,
     pumpVars, renderVars, gpuVars
<1>18. CASE UNCHANGED vars
  BY <1>18, WakeupsUntouched DEF vars, InFlightSlots, HoldsLease, Wakeups, retirementVars,
     pumpVars, renderVars, gpuVars
<1> QED
  BY <1>1, <1>2, <1>3, <1>4, <1>5, <1>6, <1>7, <1>8, <1>9, <1>10, <1>11, <1>12, <1>13, <1>14,
     <1>15, <1>16, <1>17, <1>18
     DEF Next, PumpStep, RenderStep, Finished

\* A submitted frame whose completion has not run: it is in a runner's hands, or the pump is
\* awake or will be woken, and has something in flight to poll.
NotForgotten(n) ==
  \/ \E t \in Runners : n \in Pending(t)
  \/ /\ InFlightSlots # {}
     /\ pump # "exited"
     /\ pump \in {"taken", "fences"} => watched # {} /\ \A s \in watched : FenceComes(s)

\* No submitted frame is forgotten when every frame that starts reaches the queue: the pump is
\* not gone while a frame is in flight, and each fence it waits for, or is about to wait for,
\* is one that the GPU or the render thread still signals, whatever was leased, reset and
\* submitted anew since the pump took its snapshot (Impl::Pump, vkWaitForFences without the
\* mutex; ResetFrameSlot).  A frame that gives up, or promotes a surface, after its fence is
\* reset is the exception, which the run slots_reset shows.
THEOREM NoFrameIsForgotten ==
  ASSUME Outcomes \subseteq {"submits"}
  PROVE  Spec => [](\A n \in Sequences \ Delivered : NotForgotten(n))
<1>1. Counting /\ Books /\ Ending /\ Wakeups => \A n \in Sequences \ Delivered : NotForgotten(n)
  <2> SUFFICES ASSUME Counting, Books, Ending, Wakeups, NEW n \in Sequences \ Delivered,
                      \A t \in Runners : n \notin Pending(t)
               PROVE  NotForgotten(n)
    BY DEF NotForgotten
  <2>1. n \in Nat /\ nextCompletion \in Nat /\ nextSubmit \in Nat /\ n < nextSubmit /\ 1 <= n
    BY DEF Counting, TypeOK, Sequences
  <2>2. nextCompletion <= n
    BY <2>1 DEF Books, EachTaken
  <2>3. InFlightSlots # {}
    BY <2>1, <2>2 DEF Books, Window, EachTracked
  <2> QED
    BY <2>3 DEF NotForgotten, Ending, Wakeups
<1>2. Counting /\ Books /\ Ownership /\ Wakeups /\ [Next]_vars => Wakeups'
  BY WakeupsStep
<1> QED
  BY EndingAlways, OwnershipInit, OwnershipStep, WakeupsInit, <1>1, <1>2, PTL DEF Spec

=============================================================================

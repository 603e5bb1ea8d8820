------------------------- MODULE FrameDeliveryProofs -------------------------
(***************************************************************************)
(* What every pool of frames keeps: the facts about FrameDelivery that the  *)
(* components built on it (RenderPipeline, Presentation) start from.        *)
(***************************************************************************)
EXTENDS FrameDelivery, TLAPS

\* What has been delivered has been taken, what the GPU reads has not, and a runner holds
\* frames that have been taken.
PoolSound ==
  /\ submitted \in Nat /\ taken \in 1 .. (submitted + 1)
  /\ reading \subseteq taken .. submitted
  /\ held \in [Runners -> [next : Nat, end : Nat, ok : BOOLEAN]]
  /\ \A t \in Runners :
       held[t] # Nothing => held[t].next \in 1 .. (held[t].end - 1) /\ held[t].end <= taken
  /\ lost \in BOOLEAN /\ lostFrames \subseteq 1 .. submitted
  /\ Delivered \subseteq 1 .. (taken - 1)

\* No frame has been asked for yet.
LEMMA PoolInitially == DeliveryInit => PoolSound
<1> SUFFICES ASSUME DeliveryInit PROVE PoolSound
  OBVIOUS
<1>1. /\ submitted = 0 /\ taken = 1 /\ reading = {} /\ lost = FALSE /\ lostFrames = {}
      /\ Delivered = {} /\ held = [t \in Runners |-> Nothing]
  BY DEF DeliveryInit, Delivered
<1>2. Nothing \in [next : Nat, end : Nat, ok : BOOLEAN]
  BY DEF Nothing
<1>3. /\ held \in [Runners -> [next : Nat, end : Nat, ok : BOOLEAN]]
      /\ \A t \in Runners : held[t] = Nothing
  BY <1>1, <1>2
<1>4. /\ submitted \in Nat /\ taken \in 1 .. (submitted + 1)
      /\ reading \subseteq taken .. submitted
      /\ lostFrames \subseteq 1 .. submitted
      /\ Delivered \subseteq 1 .. (taken - 1)
  BY <1>1
<1>6. lost \in BOOLEAN
  BY <1>1
<1>5. \A t \in Runners :
        held[t] # Nothing => held[t].next \in 1 .. (held[t].end - 1) /\ held[t].end <= taken
  BY <1>3
<1> HIDE DEF Nothing
<1> QED
  BY <1>3, <1>4, <1>5, <1>6 DEF PoolSound

\* Every step of the pool keeps its books.
LEMMA PoolKept == PoolSound /\ [DeliveryNext]_deliveryVars => PoolSound'
<1> SUFFICES ASSUME PoolSound, [DeliveryNext]_deliveryVars PROVE PoolSound'
  OBVIOUS
<1> USE DEF PoolSound
<1>1. CASE SubmitToPool
  <2>1. reading' \subseteq taken .. (submitted + 1)
    BY <1>1 DEF SubmitToPool
  <2> QED
    BY <1>1, <2>1 DEF SubmitToPool, Delivered
<1>2. CASE \E n \in reading : GpuDone(n)
  BY <1>2 DEF GpuDone, Delivered
<1>3. CASE LoseDevice
  BY <1>3 DEF LoseDevice, Delivered
<1>4. ASSUME NEW t \in Runners, NEW end \in taken .. (submitted + 1), Take(t, end)
      PROVE  PoolSound'
  <2>1. /\ end \in Nat /\ taken' = end /\ UNCHANGED <<submitted, reading, lost, succeeded, failed>>
        /\ (taken .. (end - 1)) \intersect reading = {}
    BY <1>4 DEF Take
  <2>2. reading' \subseteq taken' .. submitted'
    BY <2>1
  <2>3. PICK given \in SUBSET (taken .. submitted), ok \in BOOLEAN :
          /\ lostFrames' = lostFrames \union given
          /\ held' = IF end = taken THEN held
                     ELSE [held EXCEPT ![t] = [next |-> taken, end |-> end, ok |-> ok]]
    BY <1>4 DEF Take
  <2>4. held' \in [Runners -> [next : Nat, end : Nat, ok : BOOLEAN]]
    BY <2>1, <2>3
  <2>5. ASSUME NEW s \in Runners, held'[s] # Nothing
        PROVE  held'[s].next \in 1 .. (held'[s].end - 1) /\ held'[s].end <= taken'
    <3>1. CASE s = t /\ end # taken
      BY <2>1, <2>3, <3>1
    <3>2. CASE ~(s = t /\ end # taken)
      BY <2>1, <2>3, <2>5, <3>2
    <3> QED
      BY <3>1, <3>2
  <2>6. lostFrames' \subseteq 1 .. submitted'
    BY <2>1, <2>3
  <2>7. Delivered' \subseteq 1 .. (taken' - 1)
    BY <2>1 DEF Delivered
  <2> QED
    BY <2>1, <2>2, <2>4, <2>5, <2>6, <2>7
<1>5. ASSUME NEW t \in Runners, Run(t)
      PROVE  PoolSound'
  <2>1. /\ held[t].next \in 1 .. (held[t].end - 1) /\ held[t].end <= taken
        /\ held[t] \in [next : Nat, end : Nat, ok : BOOLEAN]
    BY <1>5 DEF Run
  <2>2. /\ submitted' = submitted /\ reading' = reading /\ taken' = taken
        /\ lost' = lost /\ lostFrames' = lostFrames
    BY <1>5 DEF Run
  <2> DEFINE h == IF held[t].next + 1 = held[t].end THEN Nothing
                  ELSE [held[t] EXCEPT !.next = held[t].next + 1]
  <2>3. held' = [held EXCEPT ![t] = h]
    BY <1>5, Zenon DEF Run
  <2>4. /\ h = Nothing \/ h = [held[t] EXCEPT !.next = held[t].next + 1]
        /\ held[t].next + 1 = held[t].end => h = Nothing
    OBVIOUS
  <2> HIDE DEF h
  <2>5. /\ h \in [next : Nat, end : Nat, ok : BOOLEAN]
        /\ h # Nothing => h.next \in 1 .. (h.end - 1) /\ h.end <= taken
    <3>1. CASE h = Nothing
      BY <3>1 DEF Nothing
    <3>2. CASE h = [held[t] EXCEPT !.next = held[t].next + 1] /\ h # Nothing
      BY <2>1, <2>4, <3>2
    <3> QED
      BY <2>4, <3>1, <3>2
  <2>6. held' \in [Runners -> [next : Nat, end : Nat, ok : BOOLEAN]]
    BY <2>5, <2>3
  <2>7. ASSUME NEW s \in Runners, held'[s] # Nothing
        PROVE  held'[s].next \in 1 .. (held'[s].end - 1) /\ held'[s].end <= taken'
    BY <2>2, <2>7, <2>5, <2>3
  <2>8. Delivered' \subseteq Delivered \union {held[t].next}
    BY <1>5 DEF Run, Delivered
  <2>9. Delivered' \subseteq 1 .. (taken' - 1)
    BY <2>1, <2>2, <2>8
  <2> QED
    BY <2>2, <2>6, <2>7, <2>9
<1>6. CASE UNCHANGED deliveryVars
  BY <1>6 DEF deliveryVars, Delivered
<1> QED
  BY <1>1, <1>2, <1>3, <1>4, <1>5, <1>6 DEF DeliveryNext

=============================================================================

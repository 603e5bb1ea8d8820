------------------------ MODULE CommandProcessorProofs ------------------------
(***************************************************************************)
(* The command processor, for rings, programs and spans of any size: every  *)
(* packet of the ring is executed once and in order, no swap is presented   *)
(* twice, an acknowledgement is for the frame it was asked for, and every   *)
(* walk through command buffers shortens; and for every slack, the paced    *)
(* vblanks stay within it of the presents, and the gate never closes before *)
(* the title has had a vblank for its next present.                         *)
(***************************************************************************)
EXTENDS CommandStream, VideoClock, SequenceTheorems, TLAPS

-----------------------------------------------------------------------------
(* The invariants of the stream *)

\* How many dwords further the ring's place b is than a.
Distance(a, b) == (b + Dwords - a) % Dwords

Places == 0 .. (Dwords - 1)

\* The last submission behind the read pointer written back is k: what follows up to the write
\* pointer are the words of the later ones, and k is the last one executed unless a misread
\* length made the consumer skip the rest of what it saw.
Backlog(k) ==
  /\ Distance(back, wptr) = PacketWords * (submissions - k)
  /\ k = done \/ misread
  /\ \A i \in Places, s \in (k + 1) .. submissions :
       /\ PacketWords * (submissions - s) < Distance(i, wptr)
       /\ Distance(i, wptr) <= PacketWords * (submissions - s + 1)
       => ring[i].submission = s

\* The packet being executed is the one after it, among those the consumer saw.
Executes(k) ==
  /\ rptr = (back + 1) % Dwords
  /\ k < submissions /\ current = k + 1
  /\ claim \in {PacketWords - 1, Dwords - 1}
  /\ claim = Dwords - 1 => misread
  /\ \E l \in (k + 1) .. submissions : Distance(back, limit) = PacketWords * (l - k)

RingSound ==
  /\ cp # "off" => known = {"ring", "back"}
  /\ \E k \in done .. submissions :
       /\ Backlog(k)
       /\ IF cp \in {"off", "poll"} THEN rptr = back ELSE Executes(k)

\* The one request on its way, from the mailbox through the presenter and back.
Asked == pending /\ ~serviced /\ presenter = "wait" /\ pendingSequence = lastSwapSequence
Taken == ~pending /\ ~serviced /\ presenter = "present" /\ sequence = lastSwapSequence
Shown == ~pending /\ ~serviced /\ presenter = "acknowledge" /\ handled = lastSwapSequence
Served == ~pending /\ serviced /\ presenter = "wait" /\ handled = lastSwapSequence

Handshake ==
  /\ cp = "off" => ~running /\ ~pending /\ presenter = "wait"
  /\ ~timedOut /\ running /\ cp # "present" => ~pending /\ presenter = "wait"
  /\ ~timedOut /\ cp = "present" => Asked \/ Taken \/ Shown \/ Served

\* How many swaps after the first frame a sequence was stamped.
Age(word) == (word + SequenceSpan - (FirstFrame % SequenceSpan)) % SequenceSpan

\* Sequences only grow on their way from the title to the window.
InOrder ==
  /\ 2 * MaxSwaps < SequenceSpan
  /\ \A b \in Buffers : Age(block[b]) <= frameCount - FirstFrame
  /\ Age(lastSwapSequence) <= frameCount - FirstFrame
  /\ Age(handled) <= Age(sequence) /\ Age(sequence) <= Age(pendingSequence)
  /\ Age(pendingSequence) <= Age(lastSwapSequence)
  /\ pending => Age(sequence) < Age(pendingSequence)
  /\ IF presenter = "present" THEN Age(handled) < Age(sequence) ELSE handled = sequence

-----------------------------------------------------------------------------
(* Types *)

Words == 0 .. (SequenceSpan - 1)

RingTypes ==
  /\ known \subseteq {"ring", "back"}
  /\ ring \in [Places -> [submission : 0 .. submissions, buffer : Buffers]]
  /\ wptr \in Places /\ back \in Places /\ rptr \in Places /\ limit \in Places
  /\ submissions \in 0 .. MaxSubmissions
  /\ current \in 0 .. submissions /\ done \in 0 .. submissions /\ claim \in Places
  /\ cp \in {"off", "poll", "fetch", "run", "present"}

WalkTypes ==
  /\ walk \in Seq([buffer : Buffers, index : Nat]) /\ Len(walk) <= MaxDepth
  /\ \A d \in 1 .. Len(walk) : walk[d].index \in 1 .. (Len(Program[walk[d].buffer]) + 1)

SwapTypes ==
  /\ frameCount \in FirstFrame .. (FirstFrame + MaxSwaps) /\ block \in [Buffers -> Words]
  /\ lastSwapSequence \in Words /\ pendingSequence \in Words
  /\ sequence \in Words /\ handled \in Words
  /\ presenter \in {"wait", "present", "acknowledge"}

FlagTypes ==
  /\ live \in BOOLEAN /\ running \in BOOLEAN /\ pending \in BOOLEAN /\ serviced \in BOOLEAN
  /\ timedOut \in BOOLEAN /\ misread \in BOOLEAN
  /\ issued \in Nat /\ fence \in 0 .. issued

\* The elements of a sequence.
LEMMA InSequence ==
  ASSUME NEW S, NEW s \in Seq(S)
  PROVE  DOMAIN s = 1 .. Len(s) /\ \A d \in 1 .. Len(s) : s[d] \in S
OBVIOUS

\* The typed parts are the types.
LEMMA StreamTypesTogether ==
  RingTypes /\ WalkTypes /\ SwapTypes /\ FlagTypes => StreamTypeOK
<1> SUFFICES ASSUME RingTypes, WalkTypes, SwapTypes, FlagTypes PROVE StreamTypeOK
  OBVIOUS
<1>1. /\ Len(walk) <= MaxDepth
      /\ \A d \in DOMAIN walk : /\ walk[d].buffer \in Buffers
                                /\ walk[d].index \in 1 .. (Len(Program[walk[d].buffer]) + 1)
  <2>1. walk \in Seq([buffer : Buffers, index : Nat]) /\ Len(walk) <= MaxDepth
    BY DEF WalkTypes
  <2>2. /\ DOMAIN walk = 1 .. Len(walk)
        /\ \A d \in 1 .. Len(walk) : walk[d] \in [buffer : Buffers, index : Nat]
    BY <2>1, InSequence
  <2> QED
    BY <2>1, <2>2 DEF WalkTypes
<1>2. {live, running, pending, serviced, timedOut, misread} \subseteq BOOLEAN
  BY DEF FlagTypes
<1>3. issued \in Nat /\ fence \in 0 .. issued
  BY DEF FlagTypes
<1> QED
  BY <1>1, <1>2, <1>3 DEF StreamTypeOK, RingTypes, SwapTypes, Words, Places

\* Each step of the ring advances a pointer around it.
LEMMA Around ==
  ASSUME NEW i \in Places, NEW n \in 0 .. Dwords
  PROVE  /\ (i + n) % Dwords = IF i + n < Dwords THEN i + n ELSE i + n - Dwords
         /\ (i + n) % Dwords \in Places
<1>1. Dwords \in Nat \ {0} /\ i \in 0 .. (Dwords - 1)
  BY StreamAssumption DEF Places, PacketWords
<1>2. CASE i + n < Dwords
  <2>1. i + n \in 0 .. (Dwords - 1)
    BY <1>1, <1>2
  <2>2. (i + n) % Dwords = i + n
    BY <1>1, <2>1
  <2> QED
    BY <1>2, <2>1, <2>2 DEF Places
<1>3. CASE ~(i + n < Dwords)
  <2>1. i + n \in Dwords .. (2 * Dwords - 1)
    BY <1>1, <1>3
  <2>2. (i + n) % Dwords = i + n - Dwords
    BY <1>1, <2>1
  <2>3. i + n - Dwords \in 0 .. (Dwords - 1)
    BY <1>1, <2>1
  <2> QED
    BY <1>3, <2>2, <2>3 DEF Places
<1> QED
  BY <1>2, <1>3

\* A packet is written as a whole, and every pointer stays on the ring.
LEMMA RingTyped == RingTypes /\ [StreamNext]_streamVars => RingTypes'
<1> SUFFICES ASSUME RingTypes, [StreamNext]_streamVars PROVE RingTypes'
  OBVIOUS
<1>1. ASSUME NEW what \in {"ring", "back"}, Announce(what) PROVE RingTypes'
  BY <1>1 DEF RingTypes, Announce, walkVars
<1>2. ASSUME NEW b \in Buffers, Submit(b) PROVE RingTypes'
  <2>1. /\ submissions' = submissions + 1 /\ submissions < MaxSubmissions
        /\ wptr' = (wptr + PacketWords) % Dwords
        /\ UNCHANGED <<known, back, rptr, limit, current, done, claim, cp>>
    BY <1>2 DEF Submit, walkVars
  <2>2. submissions' \in 0 .. MaxSubmissions
    BY <2>1, StreamAssumption DEF RingTypes
  <2>3. wptr' \in Places
    BY <2>1, Around, StreamAssumption DEF RingTypes, PacketWords
  <2>4. ring' \in [Places -> [submission : 0 .. submissions', buffer : Buffers]]
    <3> DEFINE Entry == [submission : 0 .. submissions', buffer : Buffers]
               New == [submission |-> submissions + 1, buffer |-> b]
    <3>1. New \in Entry /\ \A i \in Places : ring[i] \in Entry
      BY <2>1, StreamAssumption DEF RingTypes
    <3> HIDE DEF Entry, New
    <3>2. ring' = [i \in Places |-> IF (i + Dwords - wptr) % Dwords < PacketWords
                                    THEN New ELSE ring[i]]
      BY <1>2 DEF Submit, RingTypes, New
    <3>3. ring' \in [Places -> Entry]
      BY <3>1, <3>2
    <3> QED
      BY <3>3 DEF Entry
  <2> QED
    BY <2>1, <2>2, <2>3, <2>4 DEF RingTypes
<1>3. CASE ReadHeader
  <2>1. rptr' \in Places
    BY <1>3, Around, StreamAssumption DEF ReadHeader, RingTypes, PacketWords
  <2>2. claim' \in {2, Dwords - 1}
    BY <1>3 DEF ReadHeader, PacketWords
  <2>3. current' \in 0 .. submissions
    BY <1>3 DEF ReadHeader, RingTypes
  <2>4. claim' \in Places
    BY <2>2, StreamAssumption DEF Places, PacketWords
  <2> QED
    BY <1>3, <2>1, <2>3, <2>4 DEF ReadHeader, RingTypes, titleVars
<1>4. CASE FinishPacket
  <2>1. NextPointer \in Places
    <3>1. claim \in 0 .. Dwords
      BY StreamAssumption DEF RingTypes, Places
    <3>2. (rptr + claim) % Dwords \in Places
      BY <3>1, Around DEF RingTypes
    <3> QED
      BY <3>2 DEF NextPointer, RingTypes
  <2> QED
    BY <1>4, <2>1 DEF FinishPacket, RingTypes, titleVars
<1>5. CASE FetchData \/ Swap \/ Presented \/ PresentTimesOut
  BY <1>5 DEF FetchData, Swap, Presented, PresentTimesOut, RingTypes, titleVars, walkVars
<1>6. CASE \/ \E b \in Buffers : VdSwap(b)
           \/ StoreDeferred \/ StreamQuiet
           \/ LeaveBuffer \/ PassOver \/ SetBins \/ CallBuffer \/ DeferStore \/ WaitRegMem
           \/ CloseRequested \/ TakeRequest \/ PresentOne \/ Acknowledge
           \/ UNCHANGED streamVars
  <2>1. UNCHANGED <<known, ring, wptr, submissions, back, rptr, limit, current, done, claim, cp>>
    BY <1>6 DEF VdSwap, StoreDeferred, StreamQuiet, LeaveBuffer, PassOver, SetBins, CallBuffer,
                DeferStore, WaitRegMem, CloseRequested, TakeRequest, PresentOne, Acknowledge,
                streamVars, titleVars, walkVars
  <2> QED
    BY <2>1 DEF RingTypes
<1> QED
  BY <1>1, <1>2, <1>3, <1>4, <1>5, <1>6 DEF StreamNext, ProcessorStep

\* The packet the walk is at belongs to a buffer of the program.
LEMMA AtPacketTyped ==
  ASSUME WalkTypes, walk # <<>>, ~AtEnd
  PROVE  /\ Depth \in 1 .. Len(walk) /\ Depth <= MaxDepth
         /\ walk[Depth] \in [buffer : Buffers, index : Nat]
         /\ walk[Depth].index \in 1 .. Len(Program[walk[Depth].buffer])
         /\ Packet.buffer \in Buffers /\ Packet.live \in BOOLEAN
<1>1. walk \in Seq([buffer : Buffers, index : Nat]) /\ Len(walk) <= MaxDepth
  BY DEF WalkTypes
<1>2. Depth \in 1 .. Len(walk) /\ Depth <= MaxDepth
  BY <1>1 DEF Depth
<1>3. walk[Depth] \in [buffer : Buffers, index : Nat]
  BY <1>1, <1>2, InSequence
<1> DEFINE text == Program[walk[Depth].buffer]
           Packets == [op : {"swap", "shd", "wait", "call", "bins", "other"},
                       predicated : BOOLEAN, buffer : DOMAIN Program, live : BOOLEAN]
<1>4. text \in Seq(Packets)
  BY <1>3, StreamAssumption DEF Buffers
<1>5. walk[Depth].index \in 1 .. Len(text)
  <2>1. walk[Depth].index \in 1 .. (Len(text) + 1) /\ ~(walk[Depth].index > Len(text))
    BY <1>2 DEF WalkTypes, AtEnd
  <2>2. Len(text) \in Nat
    BY <1>4
  <2> QED
    BY <2>1, <2>2
<1>6. Packet \in Packets
  <2>1. text[walk[Depth].index] \in Packets
    <3> HIDE DEF text, Packets
    <3> QED
      BY <1>4, <1>5, InSequence
  <2> QED
    BY <2>1 DEF Packet
<1> QED
  BY <1>2, <1>3, <1>5, <1>6 DEF Buffers

\* The walk steps on to the next packet of the buffer or to its end.
LEMMA SteppedTyped ==
  ASSUME WalkTypes, walk # <<>>, ~AtEnd
  PROVE  /\ Stepped \in Seq([buffer : Buffers, index : Nat]) /\ Len(Stepped) = Len(walk)
         /\ \A d \in 1 .. Len(walk) :
              Stepped[d].index \in 1 .. (Len(Program[Stepped[d].buffer]) + 1)
<1> DEFINE Level == [buffer : Buffers, index : Nat]
           top == [walk[Depth] EXCEPT !.index = @ + 1]
<1>1. /\ Depth \in 1 .. Len(walk) /\ walk[Depth] \in Level
      /\ walk[Depth].index \in 1 .. Len(Program[walk[Depth].buffer])
  BY AtPacketTyped
<1>2. /\ top \in Level /\ top.buffer = walk[Depth].buffer
      /\ top.index = walk[Depth].index + 1
  BY <1>1
<1>3. Stepped = [walk EXCEPT ![Depth] = top]
  BY DEF Stepped
<1>4. walk \in Seq(Level)
  BY DEF WalkTypes
<1> HIDE DEF Level, top
<1>5. /\ Stepped \in Seq(Level) /\ Len(Stepped) = Len(walk)
      /\ \A d \in 1 .. Len(walk) : Stepped[d] = IF d = Depth THEN top ELSE walk[d]
  BY <1>1, <1>2, <1>3, <1>4
<1>6. ASSUME NEW d \in 1 .. Len(walk)
      PROVE  Stepped[d].index \in 1 .. (Len(Program[Stepped[d].buffer]) + 1)
  <2>1. CASE d = Depth
    <3>1. Len(Program[walk[Depth].buffer]) \in Nat
      BY <1>1, StreamAssumption DEF Buffers, Level
    <3> QED
      BY <1>1, <1>2, <1>5, <2>1, <3>1
  <2>2. CASE d # Depth
    BY <1>5, <2>2 DEF WalkTypes
  <2> QED
    BY <2>1, <2>2
<1> QED
  BY <1>5, <1>6 DEF Level

\* Buffers are entered at their first packet and left after their last.
LEMMA WalkTyped == RingTypes /\ WalkTypes /\ [StreamNext]_streamVars => WalkTypes'
<1> SUFFICES ASSUME RingTypes, WalkTypes, [StreamNext]_streamVars PROVE WalkTypes'
  OBVIOUS
<1> DEFINE Level == [buffer : Buffers, index : Nat]
<1>1. walk \in Seq(Level) /\ Len(walk) <= MaxDepth
  BY DEF WalkTypes
<1>2. \A b \in Buffers : Len(Program[b]) \in Nat
  BY StreamAssumption DEF Buffers
<1>3. ASSUME cp = "run", walk # <<>>, ~AtEnd, walk' = Stepped PROVE WalkTypes'
  BY <1>1, <1>3, SteppedTyped DEF WalkTypes
<1>4. CASE PassOver \/ SetBins \/ DeferStore \/ WaitRegMem \/ Swap
  BY <1>3, <1>4 DEF PassOver, SetBins, DeferStore, WaitRegMem, Swap, AtPacket
<1>5. CASE CallBuffer
  <2>1. cp = "run" /\ walk # <<>> /\ ~AtEnd
    BY <1>5 DEF CallBuffer, AtPacket
  <2>2. CASE Depth < MaxDepth
    <3> DEFINE entered == [buffer |-> Packet.buffer, index |-> 1]
    <3>1. walk' = Append(Stepped, entered)
      BY <1>5, <2>2 DEF CallBuffer
    <3>2. entered \in Level /\ entered.index \in 1 .. (Len(Program[entered.buffer]) + 1)
      BY <1>2, <2>1, AtPacketTyped
    <3>3. /\ Stepped \in Seq(Level) /\ Len(Stepped) = Len(walk)
          /\ \A d \in 1 .. Len(walk) :
               Stepped[d].index \in 1 .. (Len(Program[Stepped[d].buffer]) + 1)
      BY <2>1, SteppedTyped
    <3> HIDE DEF entered, Level
    <3>4. /\ walk' \in Seq(Level) /\ Len(walk') = Len(walk) + 1
          /\ \A d \in 1 .. Len(walk) : walk'[d] = Stepped[d]
          /\ walk'[Len(walk) + 1] = entered
      BY <3>1, <3>2, <3>3
    <3>5. Len(walk') <= MaxDepth
      BY <1>1, <2>2, <3>4, StreamAssumption DEF Depth
    <3>6. \A d \in 1 .. Len(walk') : walk'[d].index \in 1 .. (Len(Program[walk'[d].buffer]) + 1)
      <4> SUFFICES ASSUME NEW d \in 1 .. Len(walk')
                   PROVE  walk'[d].index \in 1 .. (Len(Program[walk'[d].buffer]) + 1)
        OBVIOUS
      <4>1. d \in 1 .. Len(walk) \/ d = Len(walk) + 1
        BY <1>1, <3>4
      <4> QED
        BY <3>2, <3>3, <3>4, <4>1
    <3> QED
      BY <3>4, <3>5, <3>6 DEF WalkTypes, Level
  <2>3. CASE ~(Depth < MaxDepth)
    BY <1>3, <1>5, <2>1, <2>3 DEF CallBuffer
  <2> QED
    BY <2>2, <2>3
<1>6. CASE LeaveBuffer
  <2>1. walk' = SubSeq(walk, 1, Len(walk) - 1) /\ walk # <<>>
    BY <1>6 DEF LeaveBuffer, Depth
  <2> HIDE DEF Level
  <2>2. /\ walk' \in Seq(Level) /\ Len(walk') = Len(walk) - 1
        /\ \A d \in 1 .. (Len(walk) - 1) : walk'[d] = walk[d]
    <3>1. Len(walk) \in Nat \ {0}
      BY <1>1, <2>1, EmptySeq
    <3> DEFINE n == Len(walk) - 1
    <3>2. n \in Nat /\ \A i \in 1 .. n : walk[i] \in Level
      BY <1>1, <3>1, InSequence
    <3> HIDE DEF n
    <3>3. /\ SubSeq(walk, 1, n) \in Seq(Level)
          /\ Len(SubSeq(walk, 1, n)) = IF 1 <= n THEN n - 1 + 1 ELSE 0
          /\ \A i \in 1 .. (n - 1 + 1) : SubSeq(walk, 1, n)[i] = walk[1 + i - 1]
      BY <3>2, SubSeqProperties
    <3>4. /\ Len(SubSeq(walk, 1, n)) = n
          /\ \A i \in 1 .. n : SubSeq(walk, 1, n)[i] = walk[i]
      BY <3>2, <3>3
    <3> QED
      BY <2>1, <3>3, <3>4 DEF n
  <2>3. \A d \in 1 .. Len(walk') : d \in 1 .. Len(walk) /\ walk'[d] = walk[d]
    BY <1>1, <2>2
  <2>4. Len(walk') <= MaxDepth
    BY <1>1, <2>2, StreamAssumption
  <2> QED
    BY <2>2, <2>3, <2>4 DEF WalkTypes, Level
<1>7. CASE FetchData
  <2>1. CASE walk' = <<>>
    BY <2>1, StreamAssumption DEF WalkTypes
  <2>2. CASE walk' = <<[buffer |-> ring[rptr].buffer, index |-> 1]>>
    <3> DEFINE entered == [buffer |-> ring[rptr].buffer, index |-> 1]
    <3>1. ring[rptr].buffer \in Buffers
      BY DEF RingTypes
    <3>2. entered \in Level /\ entered.index \in 1 .. (Len(Program[entered.buffer]) + 1)
      BY <1>2, <3>1
    <3> HIDE DEF entered, Level
    <3>3. walk' \in Seq(Level) /\ Len(walk') = 1 /\ walk'[1] = entered
      BY <2>2, <3>2 DEF entered
    <3> QED
      BY <3>2, <3>3, StreamAssumption DEF WalkTypes, Level
  <2> QED
    BY <1>7, <2>1, <2>2 DEF FetchData
<1>8. CASE UNCHANGED walk
  BY <1>8 DEF WalkTypes
<1>9. CASE \/ StreamQuiet \/ StoreDeferred
           \/ \E what \in {"ring", "back"} : Announce(what)
           \/ \E b \in Buffers : VdSwap(b) \/ Submit(b)
           \/ ReadHeader \/ FinishPacket \/ Presented \/ PresentTimesOut
           \/ CloseRequested \/ TakeRequest \/ PresentOne \/ Acknowledge
           \/ UNCHANGED streamVars
  BY <1>8, <1>9 DEF StreamQuiet, StoreDeferred, Announce, VdSwap, Submit, ReadHeader,
                    FinishPacket, Presented, PresentTimesOut, CloseRequested, TakeRequest,
                    PresentOne, Acknowledge, streamVars
<1> QED
  BY <1>4, <1>5, <1>6, <1>7, <1>9 DEF StreamNext, ProcessorStep

\* A sequence stamped into a swap packet is a word.
LEMMA SwapTyped == SwapTypes /\ WalkTypes /\ [StreamNext]_streamVars => SwapTypes'
<1> SUFFICES ASSUME SwapTypes, WalkTypes, [StreamNext]_streamVars PROVE SwapTypes'
  OBVIOUS
<1>1. ASSUME NEW b \in Buffers, VdSwap(b) PROVE SwapTypes'
  <2>1. /\ frameCount' = frameCount + 1 /\ frameCount - FirstFrame < MaxSwaps
        /\ block' = [block EXCEPT ![b] = (frameCount + 1) % SequenceSpan]
        /\ UNCHANGED <<lastSwapSequence, pendingSequence, sequence, handled, presenter>>
    BY <1>1 DEF VdSwap, mailVars, presenterVars
  <2>2. (frameCount + 1) % SequenceSpan \in Words
    BY StreamAssumption DEF SwapTypes, Words
  <2>3. frameCount' \in FirstFrame .. (FirstFrame + MaxSwaps)
    BY <2>1, StreamAssumption DEF SwapTypes
  <2> QED
    BY <2>1, <2>2, <2>3 DEF SwapTypes
<1>2. CASE Swap
  <2>1. Stamp \in Words
    BY <1>2, AtPacketTyped DEF Swap, AtPacket, Stamp, SwapTypes
  <2> QED
    BY <1>2, <2>1 DEF Swap, Ask, SwapTypes, titleVars, mailVars, presenterVars
<1>3. CASE TakeRequest \/ PresentOne \/ Acknowledge \/ CloseRequested
  BY <1>3 DEF TakeRequest, PresentOne, Acknowledge, CloseRequested, SwapTypes, titleVars, mailVars
<1>4. CASE \/ StreamQuiet \/ StoreDeferred
           \/ \E what \in {"ring", "back"} : Announce(what)
           \/ \E b \in Buffers : Submit(b)
           \/ ReadHeader \/ FetchData \/ FinishPacket \/ LeaveBuffer \/ PassOver \/ SetBins
           \/ CallBuffer \/ DeferStore \/ WaitRegMem \/ Presented \/ PresentTimesOut
           \/ UNCHANGED streamVars
  <2>1. UNCHANGED <<frameCount, block, lastSwapSequence, pendingSequence, sequence, handled,
                    presenter>>
    BY <1>4 DEF StreamQuiet, StoreDeferred, Announce, Submit, ReadHeader, FetchData,
                FinishPacket, LeaveBuffer, PassOver, SetBins, CallBuffer, DeferStore, WaitRegMem,
                Presented, PresentTimesOut, streamVars, titleVars, mailVars, presenterVars
  <2> QED
    BY <2>1 DEF SwapTypes
<1> QED
  BY <1>1, <1>2, <1>3, <1>4 DEF StreamNext, ProcessorStep

\* The flags and the two counts of deferred writes.
LEMMA FlagTyped == FlagTypes /\ WalkTypes /\ [StreamNext]_streamVars => FlagTypes'
<1> SUFFICES ASSUME FlagTypes, WalkTypes, [StreamNext]_streamVars PROVE FlagTypes'
  OBVIOUS
<1> DEFINE Flags == /\ live \in BOOLEAN /\ running \in BOOLEAN /\ pending \in BOOLEAN
                    /\ serviced \in BOOLEAN /\ timedOut \in BOOLEAN /\ misread \in BOOLEAN
           Counts == issued \in Nat /\ fence \in 0 .. issued
<1>1. Flags /\ Counts
  BY DEF FlagTypes
<1>2. CASE DeferStore \/ StoreDeferred
  <2>1. Counts'
    BY <1>1, <1>2 DEF DeferStore, StoreDeferred
  <2>2. UNCHANGED <<live, running, pending, serviced, timedOut, misread>>
    BY <1>2 DEF DeferStore, StoreDeferred, mailVars, presenterVars
  <2> QED
    BY <1>1, <2>1, <2>2 DEF FlagTypes
<1>3. CASE ~(DeferStore \/ StoreDeferred)
  <2>1. UNCHANGED <<issued, fence>>
    BY <1>3 DEF StreamNext, ProcessorStep, StreamQuiet, Announce, VdSwap, Submit, ReadHeader,
                FetchData, FinishPacket, LeaveBuffer, PassOver, SetBins, CallBuffer, WaitRegMem,
                Swap, Presented, PresentTimesOut, CloseRequested, TakeRequest, PresentOne,
                Acknowledge, streamVars
  <2>2. Flags'
    <3>1. CASE SetBins
      <4>1. live' \in BOOLEAN
        BY <3>1, AtPacketTyped DEF SetBins, AtPacket
      <4>2. UNCHANGED <<running, pending, serviced, timedOut, misread>>
        BY <3>1 DEF SetBins, mailVars, presenterVars
      <4> QED
        BY <1>1, <4>1, <4>2
    <3>2. CASE Swap
      BY <1>1, <3>2 DEF Swap, Ask, mailVars, presenterVars
    <3>3. CASE ReadHeader
      <4>1. misread' \in BOOLEAN
        BY <3>3 DEF ReadHeader
      <4> QED
        BY <1>1, <3>3, <4>1 DEF ReadHeader, mailVars, presenterVars
    <3>4. ASSUME NEW what \in {"ring", "back"}, Announce(what) PROVE Flags'
      <4>1. running' \in BOOLEAN
        BY <1>1, <3>4 DEF Announce
      <4> QED
        BY <1>1, <3>4, <4>1 DEF Announce, mailVars
    <3>5. CASE CloseRequested \/ PresentOne
      <4>1. running' \in BOOLEAN
        BY <1>1, <3>5 DEF CloseRequested, PresentOne
      <4> QED
        BY <1>1, <3>5, <4>1 DEF CloseRequested, PresentOne, mailVars
    <3>6. CASE TakeRequest \/ Acknowledge \/ PresentTimesOut
      BY <1>1, <3>6 DEF TakeRequest, Acknowledge, PresentTimesOut, mailVars, presenterVars
    <3>7. CASE \/ StreamQuiet \/ \E b \in Buffers : VdSwap(b) \/ Submit(b)
               \/ FetchData \/ FinishPacket \/ LeaveBuffer \/ PassOver
               \/ CallBuffer \/ WaitRegMem \/ Presented
               \/ UNCHANGED streamVars
      <4>1. UNCHANGED <<live, running, pending, serviced, timedOut, misread>>
        BY <3>7 DEF StreamQuiet, VdSwap, Submit, FetchData, FinishPacket, LeaveBuffer, PassOver,
                    CallBuffer, WaitRegMem, Presented, streamVars, mailVars, presenterVars
      <4> QED
        BY <1>1, <4>1
    <3> QED
      BY <1>3, <3>1, <3>2, <3>3, <3>4, <3>5, <3>6, <3>7 DEF StreamNext, ProcessorStep
  <2> QED
    BY <1>1, <2>1, <2>2 DEF FlagTypes
<1> QED
  BY <1>2, <1>3

StreamTypes == RingTypes /\ WalkTypes /\ SwapTypes /\ FlagTypes

\* What a choice from a set that is not empty chooses.
LEMMA SomeMember == ASSUME NEW S, S # {} PROVE (CHOOSE x \in S : TRUE) \in S
OBVIOUS

\* The ring, the walk and the mailbox are empty at first.
LEMMA StreamTypesInitially == StreamInit => StreamTypes
<1> SUFFICES ASSUME StreamInit PROVE StreamTypes
  OBVIOUS
<1>1. RingTypes
  <2>1. (CHOOSE b \in Buffers : TRUE) \in Buffers
    <3>1. Buffers # {}
      BY StreamAssumption, Zenon DEF Buffers
    <3> QED
      BY <3>1, SomeMember
  <2>2. 0 \in Places
    BY StreamAssumption DEF Places, PacketWords
  <2> DEFINE any == CHOOSE b \in Buffers : TRUE
             none == [submission |-> 0, buffer |-> any]
             Entry == [submission : 0 .. 0, buffer : Buffers]
  <2>3. none \in Entry
    <3> HIDE DEF any
    <3> QED
      BY <2>1 DEF any
  <2>4. ring \in [Places -> {none}] /\ submissions = 0
    BY DEF StreamInit, Places
  <2> HIDE DEF none, Entry
  <2>5. ring \in [Places -> Entry]
    BY <2>3, <2>4
  <2>6. ring \in [Places -> [submission : 0 .. submissions, buffer : Buffers]]
    BY <2>4, <2>5 DEF Entry
  <2> QED
    BY <2>2, <2>6, StreamAssumption DEF StreamInit, RingTypes
<1>2. WalkTypes
  BY StreamAssumption DEF StreamInit, WalkTypes
<1>3. SwapTypes
  <2>1. FirstFrame % SequenceSpan \in Words
    BY StreamAssumption DEF Words
  <2> QED
    BY <2>1, StreamAssumption DEF StreamInit, SwapTypes
<1>4. FlagTypes
  <2>1. /\ live \in BOOLEAN /\ running \in BOOLEAN /\ pending \in BOOLEAN
        /\ serviced \in BOOLEAN /\ timedOut \in BOOLEAN /\ misread \in BOOLEAN
    BY Zenon DEF StreamInit
  <2>2. issued \in Nat /\ fence \in 0 .. issued
    BY DEF StreamInit
  <2> QED
    BY <2>1, <2>2 DEF FlagTypes
<1> QED
  BY <1>1, <1>2, <1>3, <1>4 DEF StreamTypes

\* Every step keeps the types.
LEMMA StreamTypesKept == StreamTypes /\ [StreamNext]_streamVars => StreamTypes'
BY RingTyped, WalkTyped, SwapTyped, FlagTyped DEF StreamTypes

\* So every state has them.
LEMMA StreamTypesAlways == StreamSpec => []StreamTypes
BY StreamTypesInitially, StreamTypesKept, PTL DEF StreamSpec

\* Every variable of the title, the command processor and the presenter's mailbox keeps its
\* type, whatever the buffers hold and however they call each other.
THEOREM StreamTypeCorrect == StreamSpec => []StreamTypeOK
<1>1. StreamTypes => StreamTypeOK
  BY StreamTypesTogether DEF StreamTypes
<1> QED
  BY <1>1, StreamTypesAlways, PTL

-----------------------------------------------------------------------------
(* The ring *)

\* The distance goes around the end of the ring at most once.
LEMMA DistanceIs ==
  ASSUME NEW a \in Places, NEW b \in Places
  PROVE  /\ Distance(a, b) = IF a <= b THEN b - a ELSE b + Dwords - a
         /\ Distance(a, b) \in Places
<1>1. Dwords \in Nat \ {0} /\ a \in 0 .. (Dwords - 1) /\ b \in 0 .. (Dwords - 1)
  BY StreamAssumption DEF Places, PacketWords
<1>2. CASE a <= b
  <2>1. b + Dwords - a \in Dwords .. (2 * Dwords - 1)
    BY <1>1, <1>2
  <2>2. (b + Dwords - a) % Dwords = b + Dwords - a - Dwords
    BY <1>1, <2>1
  <2> QED
    BY <1>1, <1>2, <2>2 DEF Distance, Places
<1>3. CASE ~(a <= b)
  <2>1. b + Dwords - a \in 0 .. (Dwords - 1)
    BY <1>1, <1>3
  <2>2. (b + Dwords - a) % Dwords = b + Dwords - a
    BY <1>1, <2>1
  <2> QED
    BY <1>1, <1>3, <2>1, <2>2 DEF Distance, Places
<1> QED
  BY <1>2, <1>3

\* Moving a pointer towards the write pointer ...
LEMMA Approach ==
  ASSUME NEW a \in Places, NEW b \in Places, NEW n \in Nat, n <= Distance(a, b)
  PROVE  (a + n) % Dwords \in Places /\ Distance((a + n) % Dwords, b) = Distance(a, b) - n
<1>1. Dwords \in Nat /\ n \in 0 .. Dwords
  BY DistanceIs, StreamAssumption DEF Places
<1>2. /\ (a + n) % Dwords = IF a + n < Dwords THEN a + n ELSE a + n - Dwords
      /\ (a + n) % Dwords \in Places
  BY <1>1, Around
<1> DEFINE c == (a + n) % Dwords
<1> HIDE DEF c
<1>3. c \in Places /\ c = IF a + n < Dwords THEN a + n ELSE a + n - Dwords
  BY <1>2 DEF c
<1>4. /\ Distance(a, b) = IF a <= b THEN b - a ELSE b + Dwords - a
      /\ Distance(c, b) = IF c <= b THEN b - c ELSE b + Dwords - c
  BY <1>3, DistanceIs
<1>5. Distance(c, b) = Distance(a, b) - n
  BY <1>1, <1>3, <1>4 DEF Places
<1> QED
  BY <1>3, <1>5 DEF c

\* ... and the write pointer away from a place.
LEMMA Recede ==
  ASSUME NEW a \in Places, NEW b \in Places, NEW n \in Nat, Distance(a, b) + n < Dwords
  PROVE  (b + n) % Dwords \in Places /\ Distance(a, (b + n) % Dwords) = Distance(a, b) + n
<1>1. Dwords \in Nat /\ n \in 0 .. Dwords
  BY DistanceIs, StreamAssumption DEF Places
<1>2. /\ (b + n) % Dwords = IF b + n < Dwords THEN b + n ELSE b + n - Dwords
      /\ (b + n) % Dwords \in Places
  BY <1>1, Around
<1> DEFINE c == (b + n) % Dwords
<1> HIDE DEF c
<1>3. c \in Places /\ c = IF b + n < Dwords THEN b + n ELSE b + n - Dwords
  BY <1>2 DEF c
<1>4. /\ Distance(a, b) = IF a <= b THEN b - a ELSE b + Dwords - a
      /\ Distance(a, c) = IF a <= c THEN c - a ELSE c + Dwords - a
  BY <1>3, DistanceIs
<1>5. Distance(a, c) = Distance(a, b) + n
  BY <1>1, <1>3, <1>4 DEF Places
<1> QED
  BY <1>3, <1>5 DEF c

\* Where a place is seen from the write pointer once that has moved on by a packet.
LEMMA SeenFromWritten ==
  ASSUME NEW i \in Places, NEW w \in Places
  PROVE  LET v == (w + PacketWords) % Dwords
         IN  /\ v \in Places
             /\ Distance(w, i) < PacketWords => Distance(i, v) = PacketWords - Distance(w, i)
             /\ Distance(w, i) >= PacketWords =>
                  \/ Distance(i, v) = Distance(i, w) + PacketWords /\ Distance(i, w) > 0
                  \/ Distance(i, v) = 0
<1>1. Dwords \in Nat /\ PacketWords = 3 /\ Dwords > 3
  BY StreamAssumption DEF PacketWords
<1> DEFINE v == (w + PacketWords) % Dwords
<1>2. v \in Places /\ v = IF w + 3 < Dwords THEN w + 3 ELSE w + 3 - Dwords
  BY <1>1, Around
<1> HIDE DEF v
<1>3. /\ Distance(w, i) = IF w <= i THEN i - w ELSE i + Dwords - w
      /\ Distance(i, w) = IF i <= w THEN w - i ELSE w + Dwords - i
      /\ Distance(i, v) = IF i <= v THEN v - i ELSE v + Dwords - i
  BY <1>2, DistanceIs
<1>4. /\ Distance(w, i) < 3 => Distance(i, v) = 3 - Distance(w, i)
      /\ Distance(w, i) >= 3 => \/ Distance(i, v) = Distance(i, w) + 3 /\ Distance(i, w) > 0
                                \/ Distance(i, v) = 0
  BY <1>1, <1>2, <1>3 DEF Places
<1> QED
  BY <1>1, <1>2, <1>4 DEF v

\* The title writes its packet behind all the others.
LEMMA SubmitKeepsRing ==
  ASSUME RingTypes, RingSound, NEW b \in Buffers, Submit(b)
  PROVE  RingSound'
<1>1. /\ Dwords \in Nat /\ PacketWords = 3 /\ wptr \in Places /\ back \in Places
      /\ submissions \in Nat /\ done \in Nat /\ done <= submissions /\ DOMAIN ring = Places
  BY StreamAssumption DEF RingTypes, PacketWords
<1>2. /\ submissions' = submissions + 1 /\ wptr' = (wptr + PacketWords) % Dwords
      /\ Distance(back, wptr) + PacketWords < Dwords
      /\ UNCHANGED <<known, back, rptr, limit, current, done, claim, cp, misread>>
  BY DEF Submit, walkVars, Distance
<1>3. \A i \in Places : ring'[i] = IF Distance(wptr, i) < PacketWords
                                   THEN [submission |-> submissions + 1, buffer |-> b] ELSE ring[i]
  BY <1>1 DEF Submit, Distance
<1>4. PICK k \in done .. submissions :
        Backlog(k) /\ IF cp \in {"off", "poll"} THEN rptr = back ELSE Executes(k)
  BY DEF RingSound
<1>5. k \in done' .. submissions'
  BY <1>1, <1>2
<1>6. Distance(back, wptr') = PacketWords * (submissions' - k)
  <2>1. Distance(back, wptr') = Distance(back, wptr) + 3
    BY <1>1, <1>2, Recede
  <2> QED
    BY <1>1, <1>2, <1>4, <2>1 DEF Backlog
<1>7. ASSUME NEW i \in Places, NEW s \in (k + 1) .. submissions',
             PacketWords * (submissions' - s) < Distance(i, wptr'),
             Distance(i, wptr') <= PacketWords * (submissions' - s + 1)
      PROVE  ring'[i].submission = s
  <2>1. /\ Distance(wptr, i) < 3 => Distance(i, wptr') = 3 - Distance(wptr, i)
        /\ Distance(wptr, i) >= 3 =>
             \/ Distance(i, wptr') = Distance(i, wptr) + 3 /\ Distance(i, wptr) > 0
             \/ Distance(i, wptr') = 0
    BY <1>1, <1>2, SeenFromWritten
  <2>2. Distance(wptr, i) \in Nat /\ Distance(i, wptr) \in Nat
    BY <1>1, DistanceIs DEF Places
  <2>3. CASE Distance(wptr, i) < 3
    <3>1. s = submissions + 1
      BY <1>1, <1>2, <1>4, <1>7, <2>1, <2>2, <2>3
    <3> QED
      BY <1>1, <1>3, <2>3, <3>1
  <2>4. CASE Distance(wptr, i) >= 3
    <3>1. Distance(i, wptr') = Distance(i, wptr) + 3 /\ Distance(i, wptr) > 0
      BY <1>1, <1>2, <1>4, <1>7, <2>1, <2>4
    <3>2. /\ s \in (k + 1) .. submissions
          /\ 3 * (submissions - s) < Distance(i, wptr)
          /\ Distance(i, wptr) <= 3 * (submissions - s + 1)
      BY <1>1, <1>2, <1>4, <1>7, <2>2, <3>1
    <3>3. ring[i].submission = s
      BY <1>1, <1>4, <3>2 DEF Backlog
    <3> QED
      BY <1>1, <1>3, <2>2, <2>4, <3>3
  <2> QED
    BY <2>2, <2>3, <2>4
<1>8. Backlog(k)'
  BY <1>2, <1>4, <1>6, <1>7 DEF Backlog
<1>9. (IF cp \in {"off", "poll"} THEN rptr = back ELSE Executes(k))'
  <2>1. CASE cp \in {"off", "poll"}
    BY <1>2, <1>4, <2>1
  <2>2. CASE cp \notin {"off", "poll"}
    <3>1. Executes(k)
      BY <1>4, <2>2
    <3>2. PICK l \in (k + 1) .. submissions : Distance(back, limit) = PacketWords * (l - k)
      BY <3>1 DEF Executes
    <3>3. l \in (k + 1) .. submissions' /\ Distance(back, limit)' = PacketWords * (l - k)
      BY <1>1, <1>2, <1>4, <3>2 DEF Distance
    <3>4. k < submissions'
      BY <1>1, <1>2, <1>4, <3>1 DEF Executes
    <3> QED
      BY <1>2, <2>2, <3>1, <3>3, <3>4 DEF Executes
  <2> QED
    BY <2>1, <2>2
<1> QED
  BY <1>2, <1>5, <1>8, <1>9 DEF RingSound

\* The header read is that of the submission after the last one consumed.
LEMMA HeaderIsNext ==
  ASSUME RingTypes, RingSound, ReadHeader
  PROVE  RingSound'
<1>1. /\ Dwords \in Nat /\ PacketWords = 3 /\ Dwords > 3 /\ wptr \in Places /\ back \in Places
      /\ submissions \in Nat /\ done \in Nat
  BY StreamAssumption DEF RingTypes, PacketWords
<1>2. /\ cp = "poll" /\ wptr # rptr /\ limit' = wptr /\ current' = ring[rptr].submission
      /\ claim' \in {PacketWords - 1, Dwords - 1} /\ misread' = (misread \/ claim' = Dwords - 1)
      /\ rptr' = (rptr + 1) % Dwords /\ cp' = "fetch"
      /\ UNCHANGED <<known, ring, wptr, submissions, back, done>>
  BY DEF ReadHeader, titleVars
<1>3. PICK k \in done .. submissions : Backlog(k) /\ rptr = back
  BY <1>2 DEF RingSound
<1>4. Distance(back, wptr) \in Nat /\ Distance(back, wptr) # 0
  <2>1. Distance(back, wptr) = IF back <= wptr THEN wptr - back ELSE wptr + Dwords - back
    BY <1>1, DistanceIs
  <2> QED
    BY <1>1, <1>2, <1>3, <2>1 DEF Places
<1>5. k < submissions
  BY <1>1, <1>3, <1>4 DEF Backlog
<1>6. current' = k + 1
  BY <1>1, <1>2, <1>3, <1>5 DEF Backlog
<1>7. Backlog(k)'
  BY <1>2, <1>3 DEF Backlog, Distance
<1>8. Executes(k)'
  <2>1. submissions \in (k + 1) .. submissions
    BY <1>1, <1>5
  <2>2. Distance(back, limit)' = PacketWords * (submissions - k)
    BY <1>2, <1>3 DEF Backlog, Distance
  <2> QED
    BY <1>2, <1>3, <1>5, <1>6, <2>1, <2>2 DEF Executes
<1> QED
  BY <1>2, <1>3, <1>7, <1>8 DEF RingSound

\* A packet finished is the next one done; a misread one takes with it what the consumer saw.
LEMMA FinishKeepsRing ==
  ASSUME RingTypes, RingSound, FinishPacket
  PROVE  RingSound'
<1>1. /\ Dwords \in Nat /\ PacketWords = 3 /\ Dwords > 3
      /\ wptr \in Places /\ back \in Places /\ limit \in Places /\ rptr \in Places
      /\ submissions \in Nat /\ done \in Nat
  BY StreamAssumption DEF RingTypes, PacketWords
<1>2. /\ cp = "run" /\ rptr' = NextPointer /\ back' = rptr' /\ done' = current /\ cp' = "poll"
      /\ UNCHANGED <<known, ring, wptr, submissions, limit, current, claim, misread>>
  BY DEF FinishPacket, titleVars
<1>3. PICK k \in done .. submissions : Backlog(k) /\ Executes(k)
  BY <1>2 DEF RingSound
<1>4. PICK l \in (k + 1) .. submissions : Distance(back, limit) = PacketWords * (l - k)
  BY <1>3 DEF Executes
<1>5. Distance(back, wptr) = 3 * (submissions - k) /\ Distance(back, limit) = 3 * (l - k)
  BY <1>1, <1>3, <1>4 DEF Backlog
<1>6. (limit + Dwords + 1 - rptr) % Dwords = Distance(back, limit)
  <2>1. rptr = IF back + 1 < Dwords THEN back + 1 ELSE back + 1 - Dwords
    BY <1>1, <1>3, Around DEF Executes
  <2>2. Distance(back, limit) = IF back <= limit THEN limit - back ELSE limit + Dwords - back
    BY <1>1, DistanceIs
  <2>3. CASE back + 1 < Dwords
    <3>1. limit + Dwords + 1 - rptr = limit + Dwords - back
      BY <1>1, <2>1, <2>3 DEF Places
    <3> QED
      BY <3>1 DEF Distance
  <2>4. CASE ~(back + 1 < Dwords)
    <3>1. rptr = 0 /\ back = Dwords - 1
      BY <1>1, <2>1, <2>4 DEF Places
    <3>2. limit # back
      BY <1>1, <1>4, <1>5, <2>2 DEF Places
    <3>3. limit + 1 \in 0 .. (Dwords - 1)
      BY <1>1, <3>1, <3>2 DEF Places
    <3>4. (limit + 1 + Dwords) % Dwords = limit + 1
      BY <1>1, <3>3
    <3>5. limit + Dwords + 1 - rptr = limit + 1 + Dwords
      BY <1>1, <3>1 DEF Places
    <3> QED
      BY <1>1, <2>2, <3>1, <3>3, <3>4, <3>5 DEF Places
  <2> QED
    BY <2>3, <2>4
<1>7. SUFFICES ASSUME NEW j \in (k + 1) .. submissions,
                      j = k + 1 \/ misread,
                      Distance(back', wptr) = 3 * (submissions - j)
               PROVE  RingSound'
  <2>1. CASE claim = 2
    <3>1. NextPointer = (rptr + 2) % Dwords
      BY <1>1, <1>4, <1>5, <1>6, <2>1 DEF NextPointer
    <3>2. rptr = (back + 1) % Dwords
      BY <1>3 DEF Executes
    <3>3. Distance(rptr, wptr) = Distance(back, wptr) - 1
      <4>1. 1 \in Nat /\ 1 <= Distance(back, wptr)
        BY <1>1, <1>4, <1>5
      <4>2. Distance((back + 1) % Dwords, wptr) = Distance(back, wptr) - 1
        BY <1>1, <4>1, Approach
      <4> QED
        BY <3>2, <4>2
    <3>4. Distance((rptr + 2) % Dwords, wptr) = Distance(rptr, wptr) - 2
      <4>1. 2 \in Nat /\ 2 <= Distance(rptr, wptr)
        BY <1>1, <1>4, <1>5, <3>3
      <4> QED
        BY <1>1, <4>1, Approach
    <3>5. k + 1 \in (k + 1) .. submissions
      BY <1>1, <1>4
    <3>6. Distance(back', wptr) = 3 * (submissions - (k + 1))
      BY <1>1, <1>2, <1>3, <1>5, <3>1, <3>3, <3>4
    <3> QED
      BY <1>7, <3>5, <3>6
  <2>2. CASE claim = Dwords - 1
    <3>1. misread
      BY <1>3, <2>2 DEF Executes
    <3>2. Distance(back, limit) \in 0 .. (Dwords - 1)
      BY <1>1, DistanceIs DEF Places
    <3>3. NextPointer = limit
      BY <1>1, <1>6, <2>2, <3>2 DEF NextPointer
    <3>4. Distance(limit, wptr) = Distance(back, wptr) - Distance(back, limit)
      <4>1. Distance(back, limit) <= Distance(back, wptr)
        BY <1>1, <1>3, <1>4, <1>5
      <4>2. /\ Distance(back, wptr) = IF back <= wptr THEN wptr - back ELSE wptr + Dwords - back
            /\ Distance(back, limit) = IF back <= limit THEN limit - back
                                       ELSE limit + Dwords - back
            /\ Distance(limit, wptr) = IF limit <= wptr THEN wptr - limit
                                       ELSE wptr + Dwords - limit
        BY <1>1, DistanceIs
      <4> QED
        BY <1>1, <4>1, <4>2 DEF Places
    <3>5. Distance(back', wptr) = 3 * (submissions - l)
      BY <1>1, <1>2, <1>3, <1>4, <1>5, <3>3, <3>4
    <3> QED
      BY <1>4, <1>7, <3>1, <3>5
  <2> QED
    BY <1>1, <1>3, <2>1, <2>2 DEF Executes
<1>8. done' = k + 1 /\ j \in done' .. submissions'
  BY <1>2, <1>3 DEF Executes
<1>9. Backlog(j)'
  <2>1. Distance(back, wptr)' = PacketWords * (submissions' - j)
    BY <1>1, <1>2, <1>7 DEF Distance
  <2>2. \A s \in (j + 1) .. submissions : s \in (k + 1) .. submissions
    BY <1>1, <1>3, <1>7
  <2> QED
    BY <1>2, <1>3, <1>7, <1>8, <2>1, <2>2 DEF Backlog, Distance
<1> QED
  BY <1>2, <1>8, <1>9 DEF RingSound

\* The ring is empty before the title announces it.
LEMMA RingSoundInitially == RingTypes /\ StreamInit => RingSound
<1> SUFFICES ASSUME RingTypes, StreamInit PROVE RingSound
  OBVIOUS
<1>1. /\ cp = "off" /\ done = 0 /\ submissions = 0 /\ back = 0 /\ wptr = 0 /\ rptr = 0
      /\ 0 \in Places /\ PacketWords = 3
  BY StreamAssumption DEF StreamInit, RingTypes, PacketWords
<1>2. Distance(back, wptr) = PacketWords * (submissions - 0)
  <2>1. Distance(0, 0) = IF 0 <= 0 THEN 0 - 0 ELSE 0 + Dwords - 0
    BY <1>1, DistanceIs
  <2> QED
    BY <1>1, <2>1
<1>3. Backlog(0)
  BY <1>1, <1>2 DEF Backlog
<1> QED
  BY <1>1, <1>3 DEF RingSound

\* Only the title moves the write pointer, and only the consumer the others.
LEMMA RingSoundKept == RingTypes /\ RingSound /\ [StreamNext]_streamVars => RingSound'
<1> SUFFICES ASSUME RingTypes, RingSound, [StreamNext]_streamVars PROVE RingSound'
  OBVIOUS
<1> DEFINE Rest == <<ring, wptr, submissions, back, rptr, limit, current, done, claim, misread>>
<1>1. PICK k \in done .. submissions :
        Backlog(k) /\ IF cp \in {"off", "poll"} THEN rptr = back ELSE Executes(k)
  BY DEF RingSound
<1>2. ASSUME UNCHANGED Rest, cp \in {"off", "poll"} <=> cp' \in {"off", "poll"},
             cp' # "off" => known' = {"ring", "back"}
      PROVE  RingSound'
  <2>1. Backlog(k)'
    BY <1>1, <1>2 DEF Backlog, Distance
  <2>2. (IF cp \in {"off", "poll"} THEN rptr = back ELSE Executes(k))'
    BY <1>1, <1>2 DEF Executes, Distance
  <2>3. k \in done' .. submissions'
    BY <1>2
  <2> QED
    BY <1>2, <2>1, <2>2, <2>3 DEF RingSound
<1>3. ASSUME NEW what \in {"ring", "back"}, Announce(what) PROVE RingSound'
  <2>1. UNCHANGED Rest
    BY <1>3 DEF Announce, walkVars
  <2>2. cp = "off"
    BY <1>3 DEF Announce, RingSound
  <2>3. cp' = "off" \/ (cp' = "poll" /\ known' = {"ring", "back"})
    BY <1>3, <2>2 DEF Announce
  <2> QED
    BY <1>2, <2>1, <2>2, <2>3
<1>4. CASE FetchData \/ Swap \/ Presented \/ PresentTimesOut
  <2>1. UNCHANGED Rest /\ known' = known
    BY <1>4 DEF FetchData, Swap, Presented, PresentTimesOut, titleVars, walkVars
  <2>2. cp \in {"fetch", "run", "present"} /\ cp' \in {"run", "present"}
    BY <1>4 DEF FetchData, Swap, Presented, PresentTimesOut, AtPacket
  <2>3. known = {"ring", "back"}
    BY <2>2 DEF RingSound
  <2> QED
    BY <1>2, <2>1, <2>2, <2>3
<1>5. CASE \/ \E b \in Buffers : VdSwap(b)
           \/ StoreDeferred \/ StreamQuiet
           \/ LeaveBuffer \/ PassOver \/ SetBins \/ CallBuffer \/ DeferStore \/ WaitRegMem
           \/ CloseRequested \/ TakeRequest \/ PresentOne \/ Acknowledge
           \/ UNCHANGED streamVars
  <2>1. UNCHANGED Rest /\ UNCHANGED <<known, cp>>
    BY <1>5 DEF VdSwap, StoreDeferred, StreamQuiet, LeaveBuffer, PassOver, SetBins, CallBuffer,
                DeferStore, WaitRegMem, CloseRequested, TakeRequest, PresentOne, Acknowledge,
                streamVars, titleVars, walkVars
  <2>2. cp' # "off" => known' = {"ring", "back"}
    BY <2>1 DEF RingSound
  <2> QED
    BY <1>2, <2>1, <2>2
<1> QED
  BY <1>3, <1>4, <1>5, SubmitKeepsRing, HeaderIsNext, FinishKeepsRing DEF StreamNext, ProcessorStep

\* So the ring is sound throughout.
LEMMA RingSoundAlways == StreamSpec => []RingSound
<1>1. StreamTypes => RingTypes
  BY DEF StreamTypes
<1> QED
  BY <1>1, RingSoundInitially, RingSoundKept, StreamTypesAlways, PTL DEF StreamSpec

\* However the title submits and the consumer resynchronises, each ring packet is executed once,
\* in the order of submission and from its own words.
THEOREM EveryPacketOnceInOrder == StreamSpec => []RingOnceInOrder
<1>1. RingTypes /\ RingSound => RingOnceInOrder
  <2> SUFFICES ASSUME RingTypes, RingSound, cp = "fetch"
               PROVE  /\ current > done /\ (current = done + 1 \/ misread)
                      /\ ring[rptr].submission = current
    BY DEF RingOnceInOrder
  <2>1. PICK k \in done .. submissions : Backlog(k) /\ Executes(k)
    BY DEF RingSound
  <2>2. /\ wptr \in Places /\ back \in Places /\ rptr \in Places /\ PacketWords = 3
        /\ submissions \in Nat /\ done \in Nat /\ current = k + 1 /\ k < submissions
        /\ rptr = (back + 1) % Dwords /\ Distance(back, wptr) = 3 * (submissions - k)
    BY <2>1 DEF RingTypes, Backlog, Executes, PacketWords
  <2>3. Distance(rptr, wptr) = 3 * (submissions - k) - 1
    <3>1. 1 \in Nat /\ 1 <= Distance(back, wptr)
      BY <2>2
    <3> QED
      BY <2>2, <3>1, Approach
  <2>4. /\ k + 1 \in (k + 1) .. submissions
        /\ 3 * (submissions - (k + 1)) < Distance(rptr, wptr)
        /\ Distance(rptr, wptr) <= 3 * (submissions - (k + 1) + 1)
    BY <2>2, <2>3
  <2>5. ring[rptr].submission = k + 1
    BY <2>1, <2>2, <2>4 DEF Backlog
  <2> QED
    BY <2>1, <2>2, <2>5 DEF Backlog
<1>2. StreamTypes => RingTypes
  BY DEF StreamTypes
<1> QED
  BY <1>1, <1>2, RingSoundAlways, StreamTypesAlways, PTL

-----------------------------------------------------------------------------
(* The mailbox *)

\* A request is on its way to the presenter or back, unless its wait timed out.
LEMMA HandshakeKept == RingSound /\ Handshake /\ [StreamNext]_streamVars => Handshake'
<1> SUFFICES ASSUME RingSound, Handshake, [StreamNext]_streamVars PROVE Handshake'
  OBVIOUS
<1> DEFINE Mail == <<running, pending, serviced, presenter, pendingSequence, sequence, handled,
                     lastSwapSequence>>
<1>1. ASSUME NEW what \in {"ring", "back"}, Announce(what) PROVE Handshake'
  <2>1. cp = "off"
    BY <1>1 DEF Announce, RingSound
  <2>2. /\ UNCHANGED <<pending, serviced, presenter, timedOut>>
        /\ cp' = "poll" \/ (cp' = cp /\ running' = running)
    BY <1>1 DEF Announce, mailVars
  <2> QED
    BY <2>1, <2>2 DEF Handshake
<1>2. CASE Swap
  <2>1. /\ cp = "run" /\ UNCHANGED <<running, presenter, timedOut>>
    BY <1>2 DEF Swap, AtPacket, presenterVars
  <2>2. CASE Fresh /\ running
    <3>1. /\ pending' /\ ~serviced' /\ pendingSequence' = Stamp /\ lastSwapSequence' = Stamp
          /\ cp' = "present"
      BY <1>2, <2>2 DEF Swap, Ask
    <3>2. ~timedOut => presenter = "wait"
      BY <2>1, <2>2 DEF Handshake
    <3> QED
      BY <2>1, <3>1, <3>2 DEF Handshake, Asked
  <2>3. CASE ~(Fresh /\ running)
    <3>1. cp' = cp /\ UNCHANGED <<pending, serviced>>
      BY <1>2, <2>3 DEF Swap, mailVars
    <3> QED
      BY <2>1, <3>1 DEF Handshake
  <2> QED
    BY <2>2, <2>3
<1>3. CASE Presented
  <2>1. UNCHANGED Mail /\ timedOut' = timedOut /\ cp = "present" /\ (serviced \/ ~running)
        /\ cp' = "run"
    BY <1>3 DEF Presented, mailVars, presenterVars
  <2> QED
    BY <2>1 DEF Handshake, Asked, Taken, Shown, Served
<1>4. CASE PresentTimesOut
  BY <1>4 DEF PresentTimesOut, Handshake
<1>5. CASE CloseRequested
  BY <1>5 DEF CloseRequested, Handshake, Asked, Taken, Shown, Served, mailVars
<1>6. CASE TakeRequest
  BY <1>6 DEF TakeRequest, Handshake, Asked, Taken, Shown, Served
<1>7. CASE PresentOne
  <2>1. running' => running
    BY <1>7, Zenon DEF PresentOne
  <2>2. /\ presenter = "present" /\ handled' = sequence /\ presenter' = "acknowledge"
        /\ UNCHANGED <<cp, pending, serviced, lastSwapSequence, timedOut>>
    BY <1>7 DEF PresentOne, mailVars
  <2> QED
    BY <2>1, <2>2 DEF Handshake, Asked, Taken, Shown, Served
<1>8. CASE Acknowledge
  BY <1>8 DEF Acknowledge, Handshake, Asked, Taken, Shown, Served
<1>9. CASE \/ StreamQuiet \/ \E b \in Buffers : VdSwap(b) \/ Submit(b)
           \/ StoreDeferred \/ ReadHeader \/ FetchData \/ FinishPacket \/ LeaveBuffer \/ PassOver
           \/ SetBins \/ CallBuffer \/ DeferStore \/ WaitRegMem \/ UNCHANGED streamVars
  <2>1. UNCHANGED Mail /\ timedOut' = timedOut
    BY <1>9 DEF StreamQuiet, VdSwap, Submit, StoreDeferred, ReadHeader, FetchData, FinishPacket,
                LeaveBuffer, PassOver, SetBins, CallBuffer, DeferStore, WaitRegMem, streamVars,
                mailVars, presenterVars
  <2>2. cp' = cp \/ {cp, cp'} \subseteq {"poll", "fetch", "run"}
    <3>1. CASE ReadHeader \/ FetchData \/ FinishPacket
      BY <3>1 DEF ReadHeader, FetchData, FinishPacket
    <3>2. CASE ~(ReadHeader \/ FetchData \/ FinishPacket)
      BY <1>9, <3>2 DEF StreamQuiet, VdSwap, Submit, StoreDeferred, LeaveBuffer, PassOver,
                        SetBins, CallBuffer, DeferStore, WaitRegMem, streamVars
    <3> QED
      BY <3>1, <3>2
  <2> QED
    BY <2>1, <2>2 DEF Handshake, Asked, Taken, Shown, Served
<1> QED
  BY <1>1, <1>2, <1>3, <1>4, <1>5, <1>6, <1>7, <1>8, <1>9 DEF StreamNext, ProcessorStep

\* As long as no wait has timed out, an acknowledgement is for the frame it was asked for.
THEOREM AcknowledgedIsTheFrameAsked == StreamSpec => []AcknowledgedIsPresented
<1>1. StreamInit => Handshake
  BY DEF StreamInit, Handshake
<1>2. Handshake => AcknowledgedIsPresented
  BY DEF Handshake, AcknowledgedIsPresented, Asked, Taken, Shown, Served
<1>3. StreamSpec => []RingSound
  BY RingSoundAlways
<1> QED
  BY <1>1, <1>2, <1>3, HandshakeKept, PTL DEF StreamSpec

-----------------------------------------------------------------------------
(* The order of frames *)

\* What is left of a difference of words that does not reach around the span.
LEMMA WordDifference ==
  ASSUME NEW n \in Nat \ {0}, NEW a \in 0 .. (n - 1), NEW b \in 0 .. (n - 1)
  PROVE  /\ (a + n - b) % n = IF b <= a THEN a - b ELSE a + n - b
         /\ (a + n - b) % n \in 0 .. (n - 1)
<1>1. CASE b <= a
  <2>1. a + n - b \in n .. (2 * n - 1)
    BY <1>1
  <2>2. (a + n - b) % n = a + n - b - n
    BY <2>1
  <2> QED
    BY <1>1, <2>2
<1>2. CASE ~(b <= a)
  <2>1. a + n - b \in 0 .. (n - 1)
    BY <1>2
  <2>2. (a + n - b) % n = a + n - b
    BY <2>1
  <2> QED
    BY <1>2, <2>1, <2>2
<1> QED
  BY <1>1, <1>2

\* Numbers less than the span apart keep their difference as words.
LEMMA SpanRemains ==
  ASSUME NEW n \in Nat \ {0}, NEW f \in Nat, NEW g \in Nat, g <= f, f - g < n
  PROVE  ((f % n) + n - (g % n)) % n = f - g
OBVIOUS

\* The age of a word is its distance from the first stamp.
LEMMA AgeIs ==
  ASSUME NEW word \in Words
  PROVE  /\ FirstFrame % SequenceSpan \in Words
         /\ Age(word) \in Words
         /\ Age(word) = IF FirstFrame % SequenceSpan <= word
                        THEN word - (FirstFrame % SequenceSpan)
                        ELSE word + SequenceSpan - (FirstFrame % SequenceSpan)
<1> DEFINE first == FirstFrame % SequenceSpan
<1>1. first \in 0 .. (SequenceSpan - 1)
  BY StreamAssumption
<1> HIDE DEF first
<1>2. /\ (word + SequenceSpan - first) % SequenceSpan
         = IF first <= word THEN word - first ELSE word + SequenceSpan - first
      /\ (word + SequenceSpan - first) % SequenceSpan \in 0 .. (SequenceSpan - 1)
  BY <1>1, WordDifference, StreamAssumption DEF Words
<1> QED
  BY <1>1, <1>2 DEF Age, Words, first

\* A stamp is as old as the swap it was made for.
LEMMA AgeOfFrame ==
  ASSUME NEW f \in Nat, FirstFrame <= f, f - FirstFrame < SequenceSpan
  PROVE  Age(f % SequenceSpan) = f - FirstFrame
BY SpanRemains, StreamAssumption DEF Age

\* The signed comparison of two stamps is the comparison of their ages.
LEMMA NewerIs ==
  ASSUME NEW a \in Words, NEW b \in Words,
         2 * Age(a) < SequenceSpan, 2 * Age(b) < SequenceSpan
  PROVE  Newer(a, b) <=> Age(b) < Age(a)
<1> DEFINE first == FirstFrame % SequenceSpan
           d == (a + SequenceSpan - b) % SequenceSpan
<1>1. /\ first \in 0 .. (SequenceSpan - 1)
      /\ Age(a) = IF first <= a THEN a - first ELSE a + SequenceSpan - first
      /\ Age(b) = IF first <= b THEN b - first ELSE b + SequenceSpan - first
  BY AgeIs DEF Words
<1>2. d = IF b <= a THEN a - b ELSE a + SequenceSpan - b
  BY WordDifference, StreamAssumption DEF Words
<1> HIDE DEF first, d
<1>3. SequenceSpan \in Nat \ {0} /\ a \in 0 .. (SequenceSpan - 1) /\ b \in 0 .. (SequenceSpan - 1)
  BY StreamAssumption DEF Words
<1>4. (d > 0 /\ 2 * d < SequenceSpan) <=> Age(b) < Age(a)
  BY <1>1, <1>2, <1>3
<1> QED
  BY <1>4 DEF Newer, d

\* Every stamp is the first one at first.
LEMMA InOrderInitially == 2 * MaxSwaps < SequenceSpan /\ StreamInit => InOrder
<1> SUFFICES ASSUME 2 * MaxSwaps < SequenceSpan, StreamInit PROVE InOrder
  OBVIOUS
<1>1. Age(FirstFrame % SequenceSpan) = 0
  BY AgeOfFrame, StreamAssumption
<1>2. frameCount = FirstFrame /\ FirstFrame \in Nat
  BY StreamAssumption DEF StreamInit
<1>3. \A b \in Buffers : block[b] = FirstFrame % SequenceSpan
  BY DEF StreamInit
<1>4. /\ {lastSwapSequence, pendingSequence, sequence, handled} = {FirstFrame % SequenceSpan}
      /\ ~pending /\ presenter = "wait"
  BY DEF StreamInit
<1> QED
  BY <1>1, <1>2, <1>3, <1>4 DEF InOrder

\* A stamp goes from the title to the processor to the mailbox to the presenter.
LEMMA InOrderKept == StreamTypes /\ InOrder /\ [StreamNext]_streamVars => InOrder'
<1> SUFFICES ASSUME StreamTypes, InOrder, [StreamNext]_streamVars PROVE InOrder'
  OBVIOUS
<1> DEFINE Stamps == <<frameCount, block, lastSwapSequence, pendingSequence, sequence, handled>>
<1>1. /\ SequenceSpan \in Nat \ {0} /\ FirstFrame \in Nat /\ MaxSwaps \in Nat
      /\ frameCount \in FirstFrame .. (FirstFrame + MaxSwaps)
  BY StreamAssumption DEF StreamTypes, SwapTypes
<1>2. /\ \A b \in Buffers : block[b] \in Words
      /\ {lastSwapSequence, pendingSequence, sequence, handled} \subseteq Words
  BY DEF StreamTypes, SwapTypes
<1>3. \A word \in Words : Age(word) \in Nat
  BY AgeIs, <1>1 DEF Words
<1>4. ASSUME NEW b \in Buffers, VdSwap(b) PROVE InOrder'
  <2>1. /\ frameCount - FirstFrame < MaxSwaps /\ frameCount' = frameCount + 1
        /\ block' = [block EXCEPT ![b] = (frameCount + 1) % SequenceSpan]
        /\ UNCHANGED <<lastSwapSequence, pendingSequence, sequence, handled, pending, presenter>>
    BY <1>4 DEF VdSwap, mailVars, presenterVars
  <2>2. Age((frameCount + 1) % SequenceSpan) = frameCount + 1 - FirstFrame
    BY <1>1, <2>1, AgeOfFrame DEF InOrder
  <2>3. \A c \in Buffers : Age(block'[c]) <= frameCount' - FirstFrame
    <3> SUFFICES ASSUME NEW c \in Buffers PROVE Age(block'[c]) <= frameCount' - FirstFrame
      OBVIOUS
    <3>1. CASE c = b
      <4>1. block'[c] = (frameCount + 1) % SequenceSpan
        BY <2>1, <3>1 DEF StreamTypes, SwapTypes
      <4> QED
        BY <1>1, <2>1, <2>2, <4>1
    <3>2. CASE c # b
      <4>1. block'[c] = block[c] /\ Age(block[c]) <= frameCount - FirstFrame
        BY <2>1, <3>2 DEF StreamTypes, SwapTypes, InOrder
      <4> QED
        BY <1>1, <1>2, <1>3, <2>1, <4>1
    <3> QED
      BY <3>1, <3>2
  <2>4. Age(lastSwapSequence) <= frameCount' - FirstFrame
    BY <1>1, <1>2, <1>3, <2>1 DEF InOrder
  <2> QED
    BY <2>1, <2>3, <2>4 DEF InOrder, Age
<1>5. CASE Swap
  <2>1. cp = "run" /\ walk # <<>> /\ ~AtEnd
    BY <1>5 DEF Swap, AtPacket
  <2>2. walk[Depth].buffer \in Buffers
    BY <2>1, AtPacketTyped DEF StreamTypes
  <2>3. Stamp \in Words /\ Age(Stamp) <= frameCount - FirstFrame
    BY <1>2, <2>2 DEF Stamp, InOrder
  <2>4. UNCHANGED <<frameCount, block, sequence, handled, presenter>>
    BY <1>5 DEF Swap, titleVars, presenterVars
  <2>5. CASE Fresh
    <3>1. 2 * Age(Stamp) < SequenceSpan /\ 2 * Age(lastSwapSequence) < SequenceSpan
      BY <1>1, <1>2, <1>3, <2>3 DEF InOrder
    <3>2. Age(lastSwapSequence) < Age(Stamp)
      BY <1>2, <2>3, <2>5, <3>1, NewerIs DEF Fresh
    <3>3. Age(sequence) < Age(Stamp) /\ Age(pendingSequence) < Age(Stamp)
      BY <1>2, <1>3, <2>3, <3>2 DEF InOrder
    <3>4. /\ lastSwapSequence' = Stamp
          /\ \/ pendingSequence' = Stamp
             \/ pendingSequence' = pendingSequence /\ pending' = pending
      BY <1>5, <2>5 DEF Swap, Ask, mailVars
    <3>5. /\ Age(sequence) <= Age(pendingSequence')
          /\ Age(pendingSequence') <= Age(Stamp)
          /\ pending' => Age(sequence) < Age(pendingSequence')
      <4>1. CASE pendingSequence' = Stamp
        BY <1>3, <2>3, <1>2, <3>3, <4>1
      <4>2. CASE pendingSequence' = pendingSequence /\ pending' = pending
        BY <1>2, <1>3, <2>3, <3>3, <4>2 DEF InOrder
      <4> QED
        BY <3>4, <4>1, <4>2
    <3>6. /\ \A b \in Buffers : Age(block'[b]) <= frameCount' - FirstFrame
          /\ Age(lastSwapSequence') <= frameCount' - FirstFrame
      BY <2>3, <2>4, <3>4 DEF InOrder
    <3> QED
      BY <2>4, <3>4, <3>5, <3>6 DEF InOrder, Age
  <2>6. CASE ~Fresh
    <3>1. UNCHANGED <<lastSwapSequence, pending, pendingSequence>>
      BY <1>5, <2>6 DEF Swap, mailVars
    <3> QED
      BY <2>4, <3>1 DEF InOrder, Age
  <2> QED
    BY <2>5, <2>6
<1>6. CASE TakeRequest
  <2>1. /\ presenter = "wait" /\ pending /\ ~pending' /\ sequence' = pendingSequence
        /\ presenter' = "present"
        /\ UNCHANGED <<frameCount, block, lastSwapSequence, pendingSequence, handled>>
    BY <1>6 DEF TakeRequest, titleVars
  <2>2. Age(handled) < Age(pendingSequence)
    BY <1>2, <1>3, <2>1 DEF InOrder
  <2>3. Age(handled) <= Age(pendingSequence) /\ Age(pendingSequence) <= Age(pendingSequence)
    BY <1>2, <1>3, <2>2
  <2> QED
    BY <2>1, <2>2, <2>3 DEF InOrder, Age
<1>7. CASE PresentOne
  <2>1. /\ handled' = sequence /\ presenter' = "acknowledge"
        /\ UNCHANGED <<frameCount, block, lastSwapSequence, pendingSequence, sequence, pending>>
    BY <1>7 DEF PresentOne, titleVars, mailVars
  <2>2. Age(sequence) <= Age(sequence)
    BY <1>2, <1>3
  <2> QED
    BY <2>1, <2>2 DEF InOrder, Age
<1>8. CASE Acknowledge
  <2>1. /\ presenter = "acknowledge" /\ presenter' = "wait"
        /\ UNCHANGED Stamps /\ pending' = pending
    BY <1>8 DEF Acknowledge, titleVars
  <2> QED
    BY <2>1 DEF InOrder, Age
<1>9. CASE \/ StreamQuiet \/ StoreDeferred \/ CloseRequested
           \/ \E what \in {"ring", "back"} : Announce(what)
           \/ \E b \in Buffers : Submit(b)
           \/ ReadHeader \/ FetchData \/ FinishPacket \/ LeaveBuffer \/ PassOver \/ SetBins
           \/ CallBuffer \/ DeferStore \/ WaitRegMem \/ Presented \/ PresentTimesOut
           \/ UNCHANGED streamVars
  <2>1. UNCHANGED Stamps /\ UNCHANGED <<pending, presenter>>
    BY <1>9 DEF StreamQuiet, StoreDeferred, CloseRequested, Announce, Submit, ReadHeader,
                FetchData, FinishPacket, LeaveBuffer, PassOver, SetBins, CallBuffer, DeferStore,
                WaitRegMem, Presented, PresentTimesOut, streamVars, titleVars, mailVars,
                presenterVars
  <2> QED
    BY <2>1 DEF InOrder, Age
<1> QED
  BY <1>4, <1>5, <1>6, <1>7, <1>8, <1>9 DEF StreamNext, ProcessorStep

\* While the swaps fit half the span of a sequence, however buffers are replayed and whichever
\* requests were given up, the presenter is never asked for a swap it has presented, nor for an
\* older one.
THEOREM NoSwapPresentedTwice ==
  2 * MaxSwaps < SequenceSpan /\ StreamSpec => []NoFramePresentedAgain
<1>1. StreamTypes /\ InOrder => NoFramePresentedAgain
  <2> SUFFICES ASSUME StreamTypes, InOrder, presenter = "present"
               PROVE  Newer(sequence, handled)
    BY DEF NoFramePresentedAgain
  <2>1. /\ SequenceSpan \in Nat \ {0} /\ FirstFrame \in Nat /\ MaxSwaps \in Nat
        /\ frameCount \in FirstFrame .. (FirstFrame + MaxSwaps)
        /\ {lastSwapSequence, pendingSequence, sequence, handled} \subseteq Words
    BY StreamAssumption DEF StreamTypes, SwapTypes
  <2>2. \A word \in Words : Age(word) \in Nat
    BY AgeIs, <2>1 DEF Words
  <2>3. 2 * Age(sequence) < SequenceSpan /\ 2 * Age(handled) < SequenceSpan
    BY <2>1, <2>2 DEF InOrder
  <2>4. Age(handled) < Age(sequence)
    BY DEF InOrder
  <2> QED
    BY <2>1, <2>3, <2>4, NewerIs
<1> QED
  BY <1>1, InOrderInitially, InOrderKept, StreamTypesAlways, PTL DEF StreamSpec

-----------------------------------------------------------------------------
(* Every packet comes to its end: what stands behind EveryPacketFinishes *)

\* What is left to do at a depth of the walk: the packets of that buffer from the present one
\* on, and leaving it.
Left(d) == IF d <= Len(walk) THEN Len(Program[walk[d].buffer]) + 2 - walk[d].index ELSE 0

\* Less is left at some depth, and as much as before at the depths outside it: the
\* lexicographic order of MaxDepth numbers, in which nothing decreases for ever.
Shorter == \E d \in 1 .. MaxDepth : Left(d)' < Left(d) /\ \A e \in 1 .. (d - 1) : Left(e)' = Left(e)

LEMMA LeftIsANumber == WalkTypes => \A d \in 1 .. MaxDepth : Left(d) \in Nat
<1> SUFFICES ASSUME WalkTypes, NEW d \in 1 .. MaxDepth PROVE Left(d) \in Nat
  OBVIOUS
<1>1. CASE d <= Len(walk)
  <2>1. walk \in Seq([buffer : Buffers, index : Nat]) /\ d \in 1 .. Len(walk)
    BY <1>1 DEF WalkTypes
  <2>2. walk[d] \in [buffer : Buffers, index : Nat]
    BY <2>1, InSequence
  <2>3. Len(Program[walk[d].buffer]) \in Nat
    BY <2>2, StreamAssumption DEF Buffers
  <2>4. walk[d].index \in 1 .. (Len(Program[walk[d].buffer]) + 1)
    BY <2>1 DEF WalkTypes
  <2> QED
    BY <1>1, <2>3, <2>4 DEF Left
<1> QED
  BY <1>1 DEF Left

\* Stepping past a packet leaves less at its depth, whatever is entered below it.
LEMMA SteppingShortens ==
  ASSUME WalkTypes, walk # <<>>, ~AtEnd,
         Len(walk') \in Nat, Len(walk') >= Len(walk),
         \A d \in 1 .. Len(walk) : walk'[d] = Stepped[d]
  PROVE  Shorter
<1>1. /\ Depth \in 1 .. Len(walk) /\ Depth <= MaxDepth /\ MaxDepth \in Nat /\ Len(walk) \in Nat
      /\ walk[Depth] \in [buffer : Buffers, index : Nat]
      /\ walk[Depth].index \in 1 .. Len(Program[walk[Depth].buffer])
  BY AtPacketTyped, StreamAssumption DEF WalkTypes
<1>2. PICK k \in 1 .. MaxDepth : k = Depth
  BY <1>1
<1>3. PICK size \in Nat : size = Len(Program[walk[k].buffer])
  BY <1>1, <1>2, StreamAssumption DEF Buffers
<1>4. \A d \in 1 .. Len(walk) :
        walk'[d] = IF d = k THEN [walk[k] EXCEPT !.index = @ + 1] ELSE walk[d]
  <2> DEFINE Level == [buffer : Buffers, index : Nat]
             top == [walk[k] EXCEPT !.index = @ + 1]
  <2>1. walk \in Seq(Level) /\ top \in Level /\ k \in 1 .. Len(walk)
    BY <1>1, <1>2 DEF WalkTypes
  <2>2. Stepped = [walk EXCEPT ![k] = top]
    BY <1>2 DEF Stepped
  <2>3. \A d \in 1 .. Len(walk) : Stepped[d] = IF d = k THEN top ELSE walk[d]
    <3> HIDE DEF Level, top
    <3> QED
      BY <2>1, <2>2
  <2> QED
    BY <2>3
<1>5. walk'[k].buffer = walk[k].buffer /\ walk'[k].index = walk[k].index + 1
  BY <1>1, <1>2, <1>4
<1>6. Left(k)' < Left(k)
  <2>1. Left(k) = size + 2 - walk[k].index
    BY <1>1, <1>2, <1>3 DEF Left
  <2>2. Left(k)' = size + 2 - (walk[k].index + 1)
    BY <1>1, <1>2, <1>3, <1>5 DEF Left
  <2> QED
    BY <1>1, <1>2, <1>3, <2>1, <2>2
<1>7. ASSUME NEW e \in 1 .. (k - 1) PROVE Left(e)' = Left(e)
  <2>1. e \in 1 .. Len(walk) /\ e # k /\ e <= Len(walk) /\ e <= Len(walk')
    BY <1>1, <1>2
  <2>2. walk'[e] = walk[e]
    BY <1>4, <2>1
  <2> QED
    BY <2>1, <2>2 DEF Left
<1> QED
  BY <1>2, <1>6, <1>7 DEF Shorter

\* Leaving a buffer leaves nothing at its depth.
LEMMA LeavingShortens ==
  ASSUME WalkTypes, LeaveBuffer
  PROVE  Shorter
<1>1. /\ walk \in Seq([buffer : Buffers, index : Nat]) /\ Len(walk) <= MaxDepth /\ walk # <<>>
      /\ walk' = SubSeq(walk, 1, Len(walk) - 1) /\ MaxDepth \in Nat
  BY StreamAssumption DEF WalkTypes, LeaveBuffer, Depth
<1>2. Len(walk) \in Nat \ {0}
  BY <1>1, EmptySeq
<1>3. PICK k \in 1 .. MaxDepth : k = Len(walk)
  BY <1>1, <1>2
<1>4. Len(walk') = k - 1 /\ \A e \in 1 .. (k - 1) : walk'[e] = walk[e]
  <2> DEFINE n == k - 1
             Level == [buffer : Buffers, index : Nat]
  <2>1. n \in Nat /\ \A i \in 1 .. n : walk[i] \in Level
    <3>1. n \in Nat /\ \A i \in 1 .. n : i \in 1 .. Len(walk)
      BY <1>2, <1>3
    <3> HIDE DEF n, Level
    <3>2. walk \in Seq(Level)
      BY <1>1 DEF Level
    <3> QED
      BY <3>1, <3>2, InSequence
  <2> HIDE DEF n, Level
  <2>2. /\ Len(SubSeq(walk, 1, n)) = IF 1 <= n THEN n - 1 + 1 ELSE 0
        /\ \A i \in 1 .. (n - 1 + 1) : SubSeq(walk, 1, n)[i] = walk[1 + i - 1]
    BY <2>1, SubSeqProperties
  <2>3. /\ Len(SubSeq(walk, 1, n)) = n
        /\ \A i \in 1 .. n : SubSeq(walk, 1, n)[i] = walk[i]
    BY <2>1, <2>2
  <2> QED
    BY <1>1, <1>3, <2>3 DEF n
<1>5. Left(k)' < Left(k)
  <2>1. k \in 1 .. Len(walk) /\ k <= Len(walk) /\ ~(k <= Len(walk'))
    BY <1>3, <1>4
  <2>2. walk[k] \in [buffer : Buffers, index : Nat]
    BY <1>1, <2>1, InSequence
  <2>3. Len(Program[walk[k].buffer]) \in Nat
    BY <2>2, StreamAssumption DEF Buffers
  <2>4. walk[k].index \in 1 .. (Len(Program[walk[k].buffer]) + 1)
    BY <2>1 DEF WalkTypes
  <2>5. Left(k)' = 0 /\ Left(k) = Len(Program[walk[k].buffer]) + 2 - walk[k].index
    BY <2>1 DEF Left
  <2> QED
    BY <2>3, <2>4, <2>5
<1>6. ASSUME NEW e \in 1 .. (k - 1) PROVE Left(e)' = Left(e)
  <2>1. e <= Len(walk) /\ e <= Len(walk') /\ walk'[e] = walk[e]
    BY <1>3, <1>4
  <2> QED
    BY <2>1 DEF Left
<1> QED
  BY <1>3, <1>5, <1>6 DEF Shorter

\* A step of the processor: it begins a packet of the ring, shortens the walk through its
\* buffers, returns from a present it made on the way, or has nothing left and finishes.
Closer ==
  \/ cp = "poll" /\ cp' = "fetch"
  \/ cp = "fetch" /\ cp' = "run"
  \/ cp = "run" /\ cp' \in {"run", "present"} /\ Shorter
  \/ cp = "present" /\ cp' = "run" /\ UNCHANGED walk
  \/ cp = "run" /\ walk = <<>> /\ cp' = "poll"

\* What the title, the presenter and the render pipeline do leaves the walk alone.
WalkShortens ==
  IF ProcessorStep THEN Closer /\ \A d \in 1 .. MaxDepth : Left(d) \in Nat
  ELSE cp # "off" => UNCHANGED <<cp, walk>>

LEMMA ProcessorShortens ==
  ASSUME WalkTypes, ProcessorStep
  PROVE  Closer
<1>1. ASSUME AtPacket("swap") \/ AtPacket("bins") \/ AtPacket("call") \/ AtPacket("shd")
             \/ AtPacket("wait") \/ PassOver,
             walk' = Stepped
      PROVE  cp = "run" /\ Shorter
  <2>1. cp = "run" /\ walk # <<>> /\ ~AtEnd
    BY <1>1 DEF AtPacket, PassOver
  <2>2. Len(Stepped) = Len(walk) /\ Len(walk) \in Nat
    BY <2>1, SteppedTyped DEF WalkTypes
  <2> QED
    BY <1>1, <2>1, <2>2, SteppingShortens
<1>2. CASE PassOver \/ SetBins \/ DeferStore \/ WaitRegMem \/ Swap
  BY <1>1, <1>2 DEF PassOver, SetBins, DeferStore, WaitRegMem, Swap, Closer
<1>3. CASE CallBuffer
  <2>1. cp = "run" /\ cp' = "run" /\ walk # <<>> /\ ~AtEnd
    BY <1>3 DEF CallBuffer, AtPacket
  <2>2. CASE Depth < MaxDepth
    <3> DEFINE Level == [buffer : Buffers, index : Nat]
               entered == [buffer |-> Packet.buffer, index |-> 1]
    <3>1. walk' = Append(Stepped, entered)
      BY <1>3, <2>2 DEF CallBuffer
    <3>2. entered \in Level
      BY <2>1, AtPacketTyped
    <3>3. Stepped \in Seq(Level) /\ Len(Stepped) = Len(walk) /\ Len(walk) \in Nat
      BY <2>1, SteppedTyped DEF WalkTypes
    <3> HIDE DEF entered, Level
    <3>4. Len(walk') = Len(walk) + 1 /\ \A d \in 1 .. Len(walk) : walk'[d] = Stepped[d]
      BY <3>1, <3>2, <3>3
    <3>5. Shorter
      BY <2>1, <3>3, <3>4, SteppingShortens
    <3> QED
      BY <2>1, <3>5 DEF Closer
  <2>3. CASE ~(Depth < MaxDepth)
    BY <1>1, <1>3, <2>1, <2>3 DEF CallBuffer, Closer
  <2> QED
    BY <2>2, <2>3
<1>4. CASE LeaveBuffer
  BY <1>4, LeavingShortens DEF LeaveBuffer, Closer
<1>5. CASE ReadHeader \/ FetchData \/ FinishPacket \/ Presented \/ PresentTimesOut
  BY <1>5 DEF ReadHeader, FetchData, FinishPacket, Presented, PresentTimesOut, Closer
<1> QED
  BY <1>2, <1>3, <1>4, <1>5 DEF ProcessorStep

\* However command buffers call each other, or themselves, and whatever the bins let through,
\* the walk through them comes to its end: with every step of the processor less is left of
\* it, and nobody else lengthens it (ExecuteLinear, its limit on the depth).  What remains of
\* EveryPacketFinishes is that the processor takes its steps, which only a wait for a deferred
\* write keeps it from.
THEOREM EveryWalkShortens == StreamSpec => [][WalkShortens]_streamVars
<1>1. StreamTypes /\ RingSound /\ [StreamNext]_streamVars => [WalkShortens]_streamVars
  <2> SUFFICES ASSUME StreamTypes, RingSound, StreamNext PROVE WalkShortens
    OBVIOUS
  <2>1. CASE ProcessorStep
    BY <2>1, ProcessorShortens, LeftIsANumber DEF StreamTypes, WalkShortens
  <2>2. CASE ~ProcessorStep
    <3>1. (\E what \in {"ring", "back"} : Announce(what)) => cp = "off"
      BY DEF Announce, RingSound
    <3> QED
      BY <2>2, <3>1 DEF StreamNext, StreamQuiet, VdSwap, Submit, StoreDeferred, CloseRequested,
         TakeRequest, PresentOne, Acknowledge, streamVars, WalkShortens
  <2> QED
    BY <2>1, <2>2
<1> QED
  BY StreamTypesAlways, RingSoundAlways, <1>1, PTL DEF StreamSpec

-----------------------------------------------------------------------------
(* The paced vblanks *)

\* What the vblank thread may rely on where it stands: at the gate the budget is kept even by
\* the frame count it read earlier, and past the gate there is room for one vblank.
Room ==
  /\ presents <= frames
  /\ vblank = "gate" => ahead <= presents + Slack
  /\ vblank = "count" => ahead + 1 <= frames + Slack

Paced == ClockTypeOK /\ VblanksPaced /\ (trigger = "vblank-paced" => Room)

\* Nothing has been counted when the run starts.
LEMMA PacedInitially == ClockInit => Paced
<1> SUFFICES ASSUME ClockInit PROVE Paced
  OBVIOUS
<1>1. ClockTypeOK
  BY ClockAssumption DEF ClockInit, ClockTypeOK, Triggers
<1> QED
  BY <1>1, ClockAssumption DEF ClockInit, Paced, VblanksPaced, Room

\* Every step keeps the vblanks paced; a present only makes room.
LEMMA PacedKept == Paced /\ [ClockNext]_clockVars => Paced'
<1> SUFFICES ASSUME Paced, [ClockNext]_clockVars PROVE Paced'
  OBVIOUS
<1> USE ClockAssumption DEF Paced, ClockTypeOK, VblanksPaced, Room, Triggers, Advanced
<1>1. CASE Pace
  BY <1>1 DEF Pace
<1>2. CASE PassGate
  BY <1>2 DEF PassGate, BudgetSpent
<1>3. CASE CountVblank
  BY <1>3 DEF CountVblank
<1>4. CASE EnterVblankCallback
  BY <1>4 DEF EnterVblankCallback
<1>5. CASE LeaveVblankCallback
  BY <1>5 DEF LeaveVblankCallback
<1>6. CASE EnterCallback
  BY <1>6 DEF EnterCallback
<1>7. CASE LeaveCallback
  BY <1>7 DEF LeaveCallback
<1>8. CASE Present
  BY <1>8 DEF Present
<1>9. CASE UNCHANGED clockVars
  BY <1>9 DEF clockVars
<1> QED
  BY <1>1, <1>2, <1>3, <1>4, <1>5, <1>6, <1>7, <1>8, <1>9
     DEF ClockNext, VblankStep, ClockQuiet

\* So they always are.
LEMMA AlwaysPaced == ClockSpec => []Paced
  BY PacedInitially, PacedKept, PTL DEF ClockSpec

\* Every variable of the vblank thread, the title and the clock keeps its type.
THEOREM ClockTypeCorrect == ClockSpec => []ClockTypeOK
  BY AlwaysPaced, PTL DEF Paced

\* Whatever the slack, paced vblanks never run further ahead of the title's presents than that,
\* although the gate reads the frame count before it decides (VblankThread).
THEOREM VblanksArePaced == ClockSpec => []VblanksPaced
  BY AlwaysPaced, PTL DEF Paced

-----------------------------------------------------------------------------
(* A vblank for every present: what stands behind KeepsPresenting *)

\* While the title has had no vblank since its last present, a vblank thread that has yet to
\* count one is within its budget; and it only comes to the gate once the title has presented.
OneToCome ==
  trigger = "vblank-paced" /\ frames # 0 /\ vblanksSeen = 0 /\ vblank \in {"pace", "gate", "count"}
    => ahead < frames + Slack
GateAfterPresent == vblank = "gate" => frames # 0

LEMMA OneToComeKept ==
  Paced /\ OneToCome /\ GateAfterPresent /\ [ClockNext]_clockVars
    => OneToCome' /\ GateAfterPresent'
<1> SUFFICES ASSUME Paced, OneToCome, GateAfterPresent, [ClockNext]_clockVars
             PROVE  OneToCome' /\ GateAfterPresent'
  OBVIOUS
<1> USE ClockAssumption DEF OneToCome, GateAfterPresent
<1>1. CASE Pace
  BY <1>1 DEF Pace, Paced, ClockTypeOK
<1>2. CASE PassGate \/ EnterVblankCallback
  BY <1>2 DEF PassGate, EnterVblankCallback
<1>3. CASE CountVblank
  BY <1>3 DEF CountVblank
<1>4. CASE EnterCallback \/ LeaveCallback \/ UNCHANGED clockVars
  BY <1>4 DEF EnterCallback, LeaveCallback, clockVars
<1>5. CASE Present
  BY <1>5 DEF Present, Paced, ClockTypeOK, VblanksPaced
<1>6. CASE LeaveVblankCallback
  <2>1. vblanksSeen \in Nat /\ MaxNeed \in Nat /\ MaxNeed # 0
    BY DEF Paced, ClockTypeOK
  <2>2. vblanksSeen' = IF vblanksSeen < MaxNeed THEN vblanksSeen + 1 ELSE vblanksSeen
    BY <1>6 DEF LeaveVblankCallback
  <2>3. vblanksSeen' # 0
    BY <2>1, <2>2
  <2> QED
    BY <1>6, <2>3 DEF LeaveVblankCallback
<1> QED
  BY <1>1, <1>2, <1>3, <1>4, <1>5, <1>6 DEF ClockNext, VblankStep, ClockQuiet

\* When the gate holds the vblank thread back, the title has had a vblank since it last
\* presented, and the vblanks are ahead of the presents by the whole slack.  So the two wait
\* for each other only over a present that needs a second vblank.
GateIsFair ==
  GateHolds => /\ vblanksSeen >= 1 /\ ahead = frames + Slack
               /\ ~MayPresent => Starved

\* Whatever the slack, and however many vblanks the title needs for its presents, the gate
\* closes only when the whole slack is used and the title has had one vblank for its next
\* present, with the frame count the gate read before it decides; a title that needs a second
\* one for it is starved, and no other is (VblankThread, VdSwap).
THEOREM GateStarvesOnlyTheHungry == ClockSpec => []GateIsFair
<1>1. ClockInit => OneToCome /\ GateAfterPresent
  <2> SUFFICES ASSUME ClockInit PROVE OneToCome /\ GateAfterPresent
    OBVIOUS
  <2>1. frames = 0 /\ vblank = "pace"
    BY DEF ClockInit
  <2> QED
    BY <2>1 DEF OneToCome, GateAfterPresent
<1>2. Paced /\ OneToCome /\ GateAfterPresent => GateIsFair
  <2> SUFFICES ASSUME Paced, OneToCome, GateAfterPresent, GateHolds
               PROVE  /\ vblanksSeen >= 1 /\ ahead = frames + Slack
                      /\ ~MayPresent => Starved
    BY DEF GateIsFair
  <2>1. /\ trigger = "vblank-paced" /\ vblank = "gate" /\ frames # 0
        /\ ahead >= frames + Slack /\ ahead <= frames + Slack
    BY DEF GateHolds, BudgetSpent, GateAfterPresent, Paced, VblanksPaced
  <2>2. /\ vblanksSeen \in Nat /\ needs \in Nat /\ ahead \in Nat /\ frames \in Nat /\ Slack \in Nat
    BY ClockAssumption DEF Paced, ClockTypeOK
  <2>3. vblanksSeen >= 1
    BY <2>1, <2>2 DEF OneToCome
  <2> QED
    BY <2>1, <2>2, <2>3 DEF MayPresent, Starved
<1> QED
  BY AlwaysPaced, <1>1, <1>2, OneToComeKept, PTL DEF ClockSpec

=============================================================================

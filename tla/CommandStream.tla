---------------------------- MODULE CommandStream ----------------------------
(***************************************************************************)
(* The command processor: it consumes the title's ring of packets           *)
(* (CommandProcessor::Run), walks the command buffers they call             *)
(* (ExecuteLinear), and hands each swap it finds to the presenter thread    *)
(* and waits for it (PresentFrame, Presenter::Thread).                      *)
(*                                                                          *)
(* Every ring packet is an INDIRECT_BUFFER: a header, an address, a length. *)
(* Of the packets in a buffer those are told apart that move the processor: *)
(* "swap", "shd" (EVENT_WRITE_SHD), "wait" (WAIT_REG_MEM), "call", "bins"   *)
(* and "other" (register writes, shader and constant loads, draws, memory   *)
(* writes, sample reports and interrupts, which only take time here).       *)
(* Deferred writes are counted: RenderPipeline says when they are stored.   *)
(***************************************************************************)
EXTENDS Naturals, Sequences

CONSTANTS
  Dwords,           (* RingBuffer::Dwords                                     *)
  MaxDepth,         (* how deep indirect buffers nest (8)                     *)
  SequenceSpan,     (* swap sequences are words modulo this (2^32)            *)
  FirstFrame,       (* VdSwap calls before the behaviour begins               *)
  Program,          (* by command buffer: its packets                         *)
  MaxSwaps,         (* bound: VdSwap calls                                    *)
  MaxSubmissions,   (* bound: ring packets the title submits                  *)
  MayMisread        (* a packet's length may be misread, once                 *)

PacketWords == 3

ASSUME StreamAssumption ==
  /\ Dwords \in Nat /\ Dwords > PacketWords
  /\ MaxDepth \in Nat \ {0} /\ SequenceSpan \in Nat \ {0} /\ FirstFrame \in Nat
  /\ MaxSwaps \in Nat /\ MaxSubmissions \in Nat
  /\ MayMisread \in BOOLEAN
  /\ DOMAIN Program # {}
  /\ \A b \in DOMAIN Program : Program[b] \in
       Seq([op : {"swap", "shd", "wait", "call", "bins", "other"}, predicated : BOOLEAN,
            buffer : DOMAIN Program, live : BOOLEAN])

Buffers == DOMAIN Program

VARIABLES
  known,            (* which of "ring" and "back" the title has announced     *)
  ring,             (* by dword: the submission it belongs to, its buffer     *)
  wptr, submissions, (* CP_RB_WPTR; ring packets submitted                    *)
  back,             (* the read pointer written back for the title            *)
  frameCount,       (* g_frameCount                                           *)
  block,            (* by buffer: the sequence VdSwap left in its swap packet *)
  cp,               (* the processor: "off", "poll", "fetch", "run", "present" *)
  rptr, limit,       (* its read pointer, the write pointer it read            *)
  current, done,    (* the submission it executes; the last one executed      *)
  walk,             (* the buffers it is in, outermost first: [buffer, index] *)
  live,             (* binSelect & binMask is not 0                           *)
  claim,            (* the data words ExecutePacket charged for the packet    *)
  lastSwapSequence,
  issued, fence,    (* deferred writes issued, and stored                     *)
  running, pending, pendingSequence, serviced,    (* the presenter's mailbox  *)
  presenter, sequence,          (* its thread, and the request it took        *)
  handled,          (* history: the last request it has finished              *)
  timedOut, misread (* history: a wait for it timed out; a length was misread *)

titleVars == <<known, ring, wptr, submissions, frameCount, block>>
walkVars == <<rptr, limit, current, done, claim>>
mailVars == <<pending, pendingSequence, serviced>>
presenterVars == <<running, presenter, sequence, handled>>
streamVars == <<titleVars, back, cp, walkVars, walk, live, lastSwapSequence, issued, fence,
                mailVars, presenterVars, timedOut, misread>>

StreamInit ==
  /\ known = {}
  /\ ring \in [0 .. (Dwords - 1) -> {[submission |-> 0, buffer |-> CHOOSE b \in Buffers : TRUE]}]
  /\ wptr = 0 /\ submissions = 0 /\ back = 0
  /\ frameCount = FirstFrame /\ block = [b \in Buffers |-> FirstFrame % SequenceSpan]
  /\ cp = "off" /\ rptr = 0 /\ limit = 0 /\ current = 0 /\ done = 0
  /\ walk = <<>> /\ live = TRUE /\ claim = 0
  /\ lastSwapSequence = FirstFrame % SequenceSpan
  /\ issued = 0 /\ fence = 0
  /\ running = FALSE /\ pending = FALSE /\ pendingSequence = FirstFrame % SequenceSpan
  /\ serviced = FALSE
  /\ presenter = "wait" /\ sequence = FirstFrame % SequenceSpan
  /\ handled = FirstFrame % SequenceSpan
  /\ timedOut = FALSE /\ misread = FALSE

-----------------------------------------------------------------------------
(* The title's threads *)

\* VdInitializeRingBuffer and VdEnableRingBufferRPtrWriteBack, in either order: with the
\* second one the processor starts, and the presenter with it, if there is a display.
Announce(what) ==
  /\ what \notin known
  /\ known' = known \union {what}
  /\ IF known' = {"ring", "back"}
     THEN cp' = "poll" /\ running' \in BOOLEAN
     ELSE UNCHANGED <<cp, running>>
  /\ UNCHANGED <<ring, wptr, submissions, frameCount, block, back, walkVars, walk, live,
                 lastSwapSequence, issued, fence, mailVars, presenter, sequence, handled,
                 timedOut, misread>>

\* A buffer that a submission not yet consumed calls.
Calls(b) == {b} \union {Program[b][i].buffer : i \in {j \in DOMAIN Program[b] :
                                                       Program[b][j].op = "call"}}
Outstanding(b) == \E i \in DOMAIN ring : ring[i].submission > done /\ b \in Calls(ring[i].buffer)

\* VdSwap stamps the next frame's sequence into the swap packet of a command buffer.
VdSwap(b) ==
  /\ frameCount - FirstFrame < MaxSwaps
  /\ ~Outstanding(b)
  /\ frameCount' = frameCount + 1
  /\ block' = [block EXCEPT ![b] = (frameCount + 1) % SequenceSpan]
  /\ UNCHANGED <<known, ring, wptr, submissions, back, cp, walkVars, walk, live,
                 lastSwapSequence, issued, fence, mailVars, presenterVars, timedOut, misread>>

\* The title writes a packet and then moves the write pointer; it keeps clear of the read
\* pointer that was written back.  The same buffer may be submitted again without a VdSwap.
Submit(b) ==
  /\ known = {"ring", "back"}
  /\ submissions < MaxSubmissions
  /\ ((wptr + Dwords - back) % Dwords) + PacketWords < Dwords
  /\ submissions' = submissions + 1
  /\ ring' = [i \in DOMAIN ring |->
                IF (i + Dwords - wptr) % Dwords < PacketWords
                THEN [submission |-> submissions + 1, buffer |-> b] ELSE ring[i]]
  /\ wptr' = (wptr + PacketWords) % Dwords
  /\ UNCHANGED <<known, frameCount, block, back, cp, walkVars, walk, live, lastSwapSequence,
                 issued, fence, mailVars, presenterVars, timedOut, misread>>

\* The render pipeline stores a deferred write.
StoreDeferred ==
  /\ fence < issued
  /\ fence' = fence + 1
  /\ UNCHANGED <<titleVars, back, cp, walkVars, walk, live, lastSwapSequence, issued, mailVars,
                 presenterVars, timedOut, misread>>

-----------------------------------------------------------------------------
(* The ring consumer *)

\* Run: the header at the read pointer, once the write pointer differs from it.  A misread
\* length charges words up to the whole ring.
ReadHeader ==
  /\ cp = "poll" /\ wptr # rptr
  /\ limit' = wptr
  /\ current' = ring[rptr].submission
  /\ claim' \in {PacketWords - 1} \union (IF MayMisread /\ ~misread THEN {Dwords - 1} ELSE {})
  /\ misread' = (misread \/ claim' = Dwords - 1)
  /\ rptr' = (rptr + 1) % Dwords
  /\ cp' = "fetch"
  /\ UNCHANGED <<titleVars, back, done, walk, live, lastSwapSequence, issued, fence, mailVars,
                 presenterVars, timedOut>>

\* ExecutePacket copies the data words, and HandleType3 enters the buffer they name.  A
\* header whose length is misread is one no handler knows.
FetchData ==
  /\ cp = "fetch"
  /\ walk' = IF claim = PacketWords - 1
             THEN <<[buffer |-> ring[rptr].buffer, index |-> 1]>> ELSE <<>>
  /\ cp' = "run"
  /\ UNCHANGED <<titleVars, back, walkVars, live, lastSwapSequence, issued, fence, mailVars,
                 presenterVars, timedOut, misread>>

\* Mutant: the charged length is believed.
BelievedPointer == (rptr + claim) % Dwords

\* A packet that claims more than was written: the consumer resynchronises.
NextPointer == IF claim + 1 > (limit + Dwords + 1 - rptr) % Dwords
               THEN limit ELSE (rptr + claim) % Dwords

\* The packet is executed: the read pointer moves on and is written back.
FinishPacket ==
  /\ cp = "run" /\ walk = <<>>
  /\ rptr' = NextPointer
  /\ back' = rptr'
  /\ done' = current
  /\ cp' = "poll"
  /\ UNCHANGED <<titleVars, limit, current, claim, walk, live, lastSwapSequence, issued, fence,
                 mailVars, presenterVars, timedOut, misread>>

-----------------------------------------------------------------------------
(* ExecuteLinear: the packets of the innermost buffer *)

Depth == Len(walk)
AtEnd == walk[Depth].index > Len(Program[walk[Depth].buffer])
Packet == Program[walk[Depth].buffer][walk[Depth].index]
Stepped == [walk EXCEPT ![Depth].index = @ + 1]
Skipped == Packet.predicated /\ ~live

LeaveBuffer ==
  /\ cp = "run" /\ walk # <<>> /\ AtEnd
  /\ walk' = SubSeq(walk, 1, Depth - 1)
  /\ UNCHANGED <<titleVars, back, cp, walkVars, live, lastSwapSequence, issued, fence, mailVars,
                 presenterVars, timedOut, misread>>

AtPacket(op) == cp = "run" /\ walk # <<>> /\ ~AtEnd /\ Packet.op = op

\* A predicated packet is passed over while no bin is live; the rest takes its effect.
PassOver ==
  /\ cp = "run" /\ walk # <<>> /\ ~AtEnd
  /\ Skipped \/ Packet.op = "other"
  /\ walk' = Stepped
  /\ UNCHANGED <<titleVars, back, cp, walkVars, live, lastSwapSequence, issued, fence, mailVars,
                 presenterVars, timedOut, misread>>

SetBins ==
  /\ AtPacket("bins") /\ ~Skipped
  /\ live' = Packet.live
  /\ walk' = Stepped
  /\ UNCHANGED <<titleVars, back, cp, walkVars, lastSwapSequence, issued, fence, mailVars,
                 presenterVars, timedOut, misread>>

\* INDIRECT_BUFFER within a buffer: deeper than MaxDepth it is passed over.
CallBuffer ==
  /\ AtPacket("call") /\ ~Skipped
  /\ walk' = IF Depth < MaxDepth THEN Append(Stepped, [buffer |-> Packet.buffer, index |-> 1])
             ELSE Stepped
  /\ UNCHANGED <<titleVars, back, cp, walkVars, live, lastSwapSequence, issued, fence, mailVars,
                 presenterVars, timedOut, misread>>

\* EVENT_WRITE_SHD is deferred, and does not block the processor.
DeferStore ==
  /\ AtPacket("shd") /\ ~Skipped
  /\ issued' = issued + 1
  /\ walk' = Stepped
  /\ UNCHANGED <<titleVars, back, cp, walkVars, live, lastSwapSequence, fence, mailVars,
                 presenterVars, timedOut, misread>>

\* WAIT_REG_MEM polls until the word holds the value of the last deferred write.
WaitRegMem ==
  /\ AtPacket("wait") /\ ~Skipped
  /\ fence = issued
  /\ walk' = Stepped
  /\ UNCHANGED <<titleVars, back, cp, walkVars, live, lastSwapSequence, issued, fence, mailVars,
                 presenterVars, timedOut, misread>>

\* int32(a - b) > 0
Newer(a, b) == LET d == (a + SequenceSpan - b) % SequenceSpan
               IN d > 0 /\ 2 * d < SequenceSpan

Stamp == block[walk[Depth].buffer]

\* Mutant: every copy of a swap packet is taken for a new frame.
AnyStamp == TRUE

Fresh == Newer(Stamp, lastSwapSequence)

\* Mutant: an acknowledgement left over from an earlier request is not cleared.
AskUncleared ==
  /\ pending' = TRUE
  /\ pendingSequence' = Stamp
  /\ UNCHANGED serviced

\* PresentFrame leaves its request in the mailbox.
Ask ==
  /\ pending' = TRUE
  /\ pendingSequence' = Stamp
  /\ serviced' = FALSE

\* A swap packet: a stale copy is ignored; a new frame is rendered, and presented if there
\* is a presenter.
Swap ==
  /\ AtPacket("swap") /\ ~Skipped
  /\ walk' = Stepped
  /\ IF Fresh
     THEN /\ lastSwapSequence' = Stamp
          /\ IF running THEN Ask /\ cp' = "present" ELSE UNCHANGED <<mailVars, cp>>
     ELSE UNCHANGED <<lastSwapSequence, mailVars, cp>>
  /\ UNCHANGED <<titleVars, back, walkVars, live, issued, fence, presenterVars, timedOut, misread>>

\* PresentFrame returns: served, or presenting has ended.
Presented ==
  /\ cp = "present" /\ (serviced \/ ~running)
  /\ cp' = "run"
  /\ UNCHANGED <<titleVars, back, walkVars, walk, live, lastSwapSequence, issued, fence, mailVars,
                 presenterVars, timedOut, misread>>

\* Mutant: the wait has no time limit.
PresentNeverTimesOut == Presented

\* ... or 500 ms have passed.
PresentTimesOut ==
  /\ cp = "present" /\ ~serviced /\ running
  /\ cp' = "run"
  /\ timedOut' = TRUE
  /\ UNCHANGED <<titleVars, back, walkVars, walk, live, lastSwapSequence, issued, fence, mailVars,
                 presenterVars, misread>>

-----------------------------------------------------------------------------
(* The presenter thread *)

\* PumpEvents, every 8 ms and before each present: the window may have been closed.
CloseRequested ==
  /\ presenter \in {"wait", "present"} /\ running
  /\ running' = FALSE
  /\ UNCHANGED <<titleVars, back, cp, walkVars, walk, live, lastSwapSequence, issued, fence,
                 mailVars, presenter, sequence, handled, timedOut, misread>>

TakeRequest ==
  /\ presenter = "wait" /\ pending
  /\ pending' = FALSE
  /\ sequence' = pendingSequence
  /\ presenter' = "present"
  /\ UNCHANGED <<titleVars, back, cp, walkVars, walk, live, lastSwapSequence, issued, fence,
                 pendingSequence, serviced, running, handled, timedOut, misread>>

\* PresentOne, unless presenting has ended; a failure ends it.
PresentOne ==
  /\ presenter = "present"
  /\ handled' = sequence
  /\ running' \in {FALSE, running}
  /\ presenter' = "acknowledge"
  /\ UNCHANGED <<titleVars, back, cp, walkVars, walk, live, lastSwapSequence, issued, fence,
                 mailVars, sequence, timedOut, misread>>

Acknowledge ==
  /\ presenter = "acknowledge"
  /\ serviced' = TRUE
  /\ presenter' = "wait"
  /\ UNCHANGED <<titleVars, back, cp, walkVars, walk, live, lastSwapSequence, issued, fence,
                 pending, pendingSequence, running, sequence, handled, timedOut, misread>>

-----------------------------------------------------------------------------
ProcessorStep == ReadHeader \/ FetchData \/ FinishPacket \/ LeaveBuffer \/ PassOver \/ SetBins
                 \/ CallBuffer \/ DeferStore \/ WaitRegMem \/ Swap \/ Presented
                 \/ PresentTimesOut

\* The title submits nothing more, and everything it submitted has been dealt with.
StreamQuiet ==
  /\ cp = "poll" /\ wptr = rptr /\ submissions = MaxSubmissions
  /\ fence = issued /\ presenter = "wait" /\ ~pending
  /\ UNCHANGED streamVars

StreamNext ==
  \/ StreamQuiet
  \/ \E what \in {"ring", "back"} : Announce(what)
  \/ \E b \in Buffers : VdSwap(b) \/ Submit(b)
  \/ StoreDeferred
  \/ ProcessorStep
  \/ CloseRequested \/ TakeRequest \/ PresentOne \/ Acknowledge

\* The processor runs; nothing promises that a deferred write is ever stored.
StreamFairness == WF_streamVars(ProcessorStep)

StreamSpec == StreamInit /\ [][StreamNext]_streamVars /\ StreamFairness

-----------------------------------------------------------------------------
\* Every variable has its type.
StreamTypeOK ==
  LET Sequence == 0 .. (SequenceSpan - 1)
  IN /\ known \subseteq {"ring", "back"}
     /\ ring \in [0 .. (Dwords - 1) -> [submission : 0 .. submissions, buffer : Buffers]]
     /\ {wptr, back, rptr, limit} \subseteq 0 .. (Dwords - 1)
     /\ submissions \in 0 .. MaxSubmissions
     /\ {current, done} \subseteq 0 .. submissions /\ claim \in 0 .. (Dwords - 1)
     /\ frameCount \in FirstFrame .. (FirstFrame + MaxSwaps) /\ block \in [Buffers -> Sequence]
     /\ cp \in {"off", "poll", "fetch", "run", "present"}
     /\ Len(walk) <= MaxDepth
     /\ \A d \in DOMAIN walk : /\ walk[d].buffer \in Buffers
                               /\ walk[d].index \in 1 .. (Len(Program[walk[d].buffer]) + 1)
     /\ {live, running, pending, serviced, timedOut, misread} \subseteq BOOLEAN
     /\ {lastSwapSequence, pendingSequence, sequence, handled} \subseteq Sequence
     /\ issued \in Nat /\ fence \in 0 .. issued
     /\ presenter \in {"wait", "present", "acknowledge"}

\* Each ring packet is executed once, in the order of submission and from its own words,
\* and none is passed over unless a length was misread; even then the consumer never laps the
\* ring into packets it has executed (vd_null_gpu.cpp:2805, "re-executing every stale packet on it").
RingOnceInOrder ==
  cp = "fetch" => /\ current > done /\ (current = done + 1 \/ misread)
                  /\ ring[rptr].submission = current

\* However often a command buffer with a swap in it is replayed, and whichever requests the
\* processor gave up waiting for, the presenter never presents one VdSwap twice, nor an older
\* one after a newer (vd_null_gpu.cpp:2353, "one present per guest VdSwap").
NoFramePresentedAgain == presenter = "present" => Newer(sequence, handled)

\* When PresentFrame is acknowledged, the frame acknowledged is the one it asked for, as long
\* as no wait has timed out: after a time-out the late acknowledgement of the old request
\* releases the next one (gpu_present.cpp:1347, "one present per guest frame with no queue in
\* between").
AcknowledgedIsPresented ==
  cp = "present" /\ serviced /\ ~timedOut => handled = lastSwapSequence

\* The processor polls for a deferred write that has not been stored.
AwaitsStore == AtPacket("wait") /\ ~Skipped /\ fence < issued

\* Every ring packet the processor has begun is finished, unless it waits for good for a
\* deferred write that is never stored (WAIT_REG_MEM has no time limit): it does not matter
\* what becomes of the presenter (gpu_present.cpp:1350, "a wedged presenter must not wedge the
\* command processor"), nor how the buffers call each other.
EveryPacketFinishes == cp = "fetch" ~> (cp = "poll" \/ []AwaitsStore)

=============================================================================

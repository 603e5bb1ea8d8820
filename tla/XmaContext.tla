------------------------------ MODULE XmaContext ------------------------------
(***************************************************************************)
(* One slot of the audio decoder's context array: the decoder of            *)
(* xma_context.cpp, the registers and the slot's owners of xma.cpp, and the *)
(* title, which writes its half of the slot with no lock.                   *)
(*                                                                          *)
(* A kick runs on the title's own thread, inside its register store: it     *)
(* finds the slot's decoder, takes the decoder's lock, loads the context,   *)
(* decodes into the output ring pass by pass, and merges what it changed    *)
(* into the context.  Kicks come from several threads.                      *)
(*                                                                          *)
(* An input buffer is abstracted to its number of frames and to how its     *)
(* last one ends; the read offset to the frame it points at.  Every packet  *)
(* is well formed, a codec is there, and streams do not loop.               *)
(***************************************************************************)
EXTENDS Naturals, FiniteSets

CONSTANTS
  Kickers,          (* threads that kick and clear                            *)
  Blocks,           (* blocks of the output ring                              *)
  PassBlocks,       (* subframeDecodeCount, at least one                      *)
  Padding,          (* outputBufferPadding                                    *)
  FrameBlocks,      (* blocks of a decoded frame                              *)
  BufferFrames,     (* frames of an input buffer                              *)
  Tails,            (* how its last frame may end: TailForms                  *)
  MaxStreams        (* bound: times the slot is handed out                    *)

TailForms == {"whole", "split header", "split body"}
Inputs == 0 .. 1
NoDecoder == 0

ASSUME XmaAssumption ==
  /\ Tails \subseteq TailForms /\ IsFiniteSet(Kickers)
  /\ {Blocks, PassBlocks, FrameBlocks, BufferFrames, MaxStreams} \subseteq Nat \ {0}
  /\ Padding \in Nat

Spoilt == BufferFrames + 1

Decoders == 1 .. (Cardinality(Kickers) + 1)

VARIABLES
  stream,           (* how often the slot was handed out (g_contextInUse)     *)
  inUse,
  slot,             (* the context in guest memory                            *)
  decoder,          (* g_hwContexts: the slot's decoder                       *)
  pending,          (* by decoder: currentFrameRemainingSubframes_            *)
  frameOf,          (* by decoder: the stream its frame is from               *)
  kick,             (* by thread: what it is doing, and its copy of the context *)
  tail,             (* by buffer: how the title's data in it ends             *)
  bufferOf,         (* by buffer: the stream whose data it is                 *)
  undecoded,        (* history: by buffer, frames not yet decoded, or Spoilt  *)
  unread,           (* history: blocks the title was given and has not read   *)
  strayed,          (* history: a slot's contents outlived its owner          *)
  overran           (* history: a kick that only drained had not the room     *)

xmaVars == <<stream, inUse, slot, decoder, pending, frameOf, kick, tail, bufferOf, undecoded,
             unread, strayed, overran>>

Zeroed == [valid |-> [b \in Inputs |-> FALSE], counted |-> FALSE, current |-> 0, offset |-> 0,
           write |-> 0, read |-> 0, out |-> FALSE, error |-> FALSE]

AtRest == [at |-> "idle", decoder |-> NoDecoder, data |-> Zeroed, initial |-> Zeroed,
          position |-> 0, room |-> 0, wrote |-> {}, drops |-> FALSE]

XmaInit ==
  /\ stream = 0 /\ inUse = FALSE /\ slot = Zeroed /\ decoder = NoDecoder
  /\ pending = [d \in Decoders |-> 0] /\ frameOf = [d \in Decoders |-> 0]
  /\ kick = [k \in Kickers |-> AtRest]
  /\ tail = [b \in Inputs |-> "whole"] /\ bufferOf = [b \in Inputs |-> 0]
  /\ undecoded = [b \in Inputs |-> 0]
  /\ unread = {} /\ strayed = FALSE /\ overran = FALSE

-----------------------------------------------------------------------------
(* The slot's owners *)

\* XMACreateContext: the slot as it is, not zeroed here.
AllocateXmaContext ==
  /\ ~inUse /\ stream < MaxStreams
  /\ inUse' = TRUE /\ stream' = stream + 1 /\ unread' = {}
  /\ UNCHANGED <<slot, decoder, pending, frameOf, kick, tail, bufferOf, undecoded,
                 strayed, overran>>

Locked(d) == \E k \in Kickers : kick[k].decoder = d /\ kick[k].at \notin {"idle", "kicked", "clear"}

\* Mutant: the decoder stays with the slot.
ReleaseKeepsDecoder ==
  /\ inUse /\ ~Locked(decoder)
  /\ inUse' = FALSE /\ slot' = (IF decoder = NoDecoder THEN slot ELSE Zeroed)
  /\ strayed' = (strayed \/ (decoder = NoDecoder /\ slot # Zeroed))
  /\ UNCHANGED <<stream, decoder, pending, frameOf, kick, tail, bufferOf, undecoded,
                 unread, overran>>

\* XMAReleaseContext: zeroes the slot under the decoder's lock and drops the decoder, if there
\* is one.  A thread that holds it keeps it alive.
ReleaseXmaContext ==
  /\ inUse /\ ~Locked(decoder)
  /\ inUse' = FALSE /\ decoder' = NoDecoder
  /\ slot' = (IF decoder = NoDecoder THEN slot ELSE Zeroed)
  /\ strayed' = (strayed \/ (decoder = NoDecoder /\ slot # Zeroed))
  /\ UNCHANGED <<stream, pending, frameOf, kick, tail, bufferOf, undecoded, unread, overran>>

-----------------------------------------------------------------------------
(* The title's half of the context, written straight to memory *)

Title ==
  inUse /\ UNCHANGED <<stream, inUse, decoder, pending, frameOf, kick, strayed, overran>>

Submit(b, t) ==
  /\ Title /\ ~slot.valid[b]
  /\ slot' = [slot EXCEPT !.valid[b] = TRUE, !.counted = TRUE]
  /\ tail' = [tail EXCEPT ![b] = t] /\ bufferOf' = [bufferOf EXCEPT ![b] = stream]
  /\ undecoded' = [undecoded EXCEPT ![b] = BufferFrames]
  /\ UNCHANGED unread

\* Both packet counts zero: from now on a kick only drains.
OnlyDrain ==
  /\ Title /\ \A b \in Inputs : ~slot.valid[b]
  /\ slot' = [slot EXCEPT !.counted = FALSE]
  /\ UNCHANGED <<tail, bufferOf, undecoded, unread>>

After(p, n) == (p + n) % Blocks
Span(p, n) == {After(p, i) : i \in 0 .. n - 1}

\* The blocks the title is offered: as far as the write offset, or the whole ring if it is full.
Offered ==
  IF slot.write # slot.read THEN (slot.write + Blocks - slot.read) % Blocks
  ELSE IF unread = {} THEN 0 ELSE Blocks

\* Reads, and makes the room it left available.
TakeBlocks(n) ==
  /\ Title /\ n <= Offered
  /\ slot' = [slot EXCEPT !.read = After(slot.read, n), !.out = TRUE]
  /\ unread' = unread \ Span(slot.read, n)
  /\ UNCHANGED <<tail, bufferOf, undecoded>>

\* Makes an output ring with nothing left in it available.
OfferRing ==
  /\ Title /\ ~slot.out /\ unread = {}
  /\ slot' = [slot EXCEPT !.out = TRUE]
  /\ UNCHANGED <<tail, bufferOf, undecoded, unread>>

-----------------------------------------------------------------------------
(* A kick *)

Any(c) == \E b \in Inputs : c.valid[b]

\* HwContext: the slot's decoder, or a new one.
HwContext(k, what) ==
  LET held == {kick[j].decoder : j \in Kickers} \union {decoder}
      d == IF decoder # NoDecoder THEN decoder
           ELSE CHOOSE e \in Decoders : e \notin held IN
  /\ inUse /\ kick[k].at = "idle"
  /\ decoder' = d
  /\ kick' = [kick EXCEPT ![k].at = what, ![k].decoder = d]
  /\ pending' = IF decoder = NoDecoder THEN [pending EXCEPT ![d] = 0] ELSE pending
  /\ UNCHANGED <<stream, inUse, slot, frameOf, tail, bufferOf, undecoded, unread,
                 strayed, overran>>

\* RingWriter::WriteCount: a ring with read = write counts as empty.
Room(c) == IF c.read = c.write THEN Blocks ELSE (c.read + Blocks - c.write) % Blocks

Minimum == PassBlocks + Padding

\* The context a pass decodes from: SwapInputBuffer invalidates the buffer it leaves.
Swap(c) == [c EXCEPT !.valid[c.current] = FALSE, !.current = 1 - c.current, !.offset = 0]
Chosen(c) == IF c.valid[c.current] THEN c ELSE Swap(c)

IsLast(c) == c.offset = BufferFrames - 1
CanContinue(c) == tail[c.current] = "whole" \/ c.valid[1 - c.current]

\* The frame at the read offset is decoded: all of it is there.
Decodes(c) == ~IsLast(c) \/ CanContinue(c)

\* Decode's effect on the context: the next frame of the buffer; the next buffer after the last;
\* a frame whose length is split from a buffer that is not there is given up with its buffer; one
\* whose body is waits, with an error.
Decoded(c) ==
  CASE ~IsLast(c) -> [c EXCEPT !.offset = @ + 1]
    [] IsLast(c) /\ CanContinue(c) -> Swap(c)
    [] IsLast(c) /\ ~CanContinue(c) /\ tail[c.current] = "split header" -> Swap(c)
    [] OTHER -> [c EXCEPT !.error = TRUE]

\* A kick with no input, and output the title has not read.
Starved(c) == ~Any(c) /\ c.write # c.read

\* Mutant: a full ring is not announced.
FilledQuietly(data, initial, position, room) ==
  [data EXCEPT !.write = CASE Any(initial) -> position [] Starved(initial) -> data.read
                           [] OTHER -> data.write,
               !.out = @ /\ ~Starved(initial)]

\* What Work makes of the context once its passes are done: with no input it takes back what the
\* title has not read; a ring it has filled it takes away.
Finished(data, initial, position, room) ==
  [data EXCEPT !.write = CASE Any(initial) -> position [] Starved(initial) -> data.read
                           [] OTHER -> data.write,
               !.out = @ /\ ~Starved(initial) /\ ~(room = 0 /\ position = data.read)]

\* Work, with the decoder's lock: the context as it is now.  It returns at once if the title has
\* offered no ring, or only drains and nothing is left to drain; it decodes if there is room.
BeginWork(k) ==
  LET d == kick[k].decoder
      drains == ~slot.counted IN
  /\ kick[k].at = "kicked" /\ ~Locked(d)
  /\ strayed' = (strayed \/ (d # decoder /\ slot.out))
  /\ kick' = [kick EXCEPT ![k] =
       IF ~slot.out \/ (drains /\ pending[d] = 0) THEN AtRest
       ELSE [AtRest EXCEPT !.at = CASE drains -> "draining"
                                    [] ~drains /\ Room(slot) < Minimum -> "storing"
                                    [] OTHER -> "working",
                           !.decoder = d, !.data = slot, !.initial = slot,
                           !.position = slot.write, !.room = Room(slot)]]
  /\ UNCHANGED <<stream, inUse, slot, decoder, pending, frameOf, tail, bufferOf, undecoded,
                 unread, overran>>

\* Consume: the next blocks of the decoder's frame, n of the p that are left, go to the ring.
AtMostAPass(p) == IF p < PassBlocks THEN p ELSE PassBlocks
ConsumeFrame(k, p, n, from) ==
  LET d == kick[k].decoder IN
  /\ pending' = [pending EXCEPT ![d] = p - n]
  /\ frameOf' = [frameOf EXCEPT ![d] = IF p = n THEN 0 ELSE from]

\* History: frames left after the frame at the read offset; a buffer is spoilt by a frame that is
\* decoded out of its order, or again.
Due(c) ==
  IF c.offset + undecoded[c.current] = BufferFrames THEN undecoded[c.current] - 1 ELSE Spoilt

\* One pass of Work's loop: Decode, unless a frame is still being consumed, then Consume.  The
\* codec may make nothing of a frame.
WorkPass(k, made) ==
  LET w == kick[k]
      d == w.decoder
      decodes == Any(w.data) /\ pending[d] = 0
      chosen == Chosen(w.data)
      frame == decodes /\ Decodes(chosen)
      data == IF decodes THEN Decoded(chosen) ELSE w.data
      p == IF frame /\ made THEN FrameBlocks ELSE pending[d]
      n == AtMostAPass(p)
      room == w.room - n - (IF p > 0 /\ p = n THEN Padding ELSE 0)
      position == After(w.position, n)
      stalled == pending[d] = 0 /\ p = n /\ data.offset = w.data.offset
      done == ~Any(data) \/ data.error \/ stalled \/ room < Minimum
      wrote == w.wrote \union Span(w.position, n) IN
  /\ w.at = "working"
  /\ ConsumeFrame(k, p, n, IF frame THEN bufferOf[chosen.current] ELSE frameOf[d])
  /\ undecoded' = IF frame THEN [undecoded EXCEPT ![chosen.current] = Due(chosen)] ELSE undecoded
  /\ kick' = [kick EXCEPT ![k] =
       [w EXCEPT !.at = IF done THEN "storing" ELSE "working",
                 !.data = IF done THEN Finished(data, w.initial, position, room) ELSE data,
                 !.position = position, !.room = room,
                 !.wrote = IF done /\ ~Any(w.initial) THEN {} ELSE wrote,
                 !.drops = done /\ Starved(w.initial)]]
  /\ UNCHANGED <<stream, inUse, slot, decoder, tail, bufferOf, unread, strayed, overran>>

\* A context that only drains: one pass, whatever room there is.
DrainFrame(k) ==
  LET w == kick[k]
      n == AtMostAPass(pending[w.decoder])
      position == After(w.position, n) IN
  /\ w.at = "draining"
  /\ ConsumeFrame(k, pending[w.decoder], n, frameOf[w.decoder])
  /\ kick' = [kick EXCEPT ![k] =
       [w EXCEPT !.at = "storing", !.wrote = Span(w.position, n),
                 !.data = [w.data EXCEPT !.write = position,
                                     !.out = w.data.out /\ position # w.data.read]]]
  /\ overran' = (overran \/ n > w.room)
  /\ UNCHANGED <<stream, inUse, slot, decoder, tail, bufferOf, undecoded, unread, strayed>>

\* Mutant: the buffers are stored as they were loaded, decoded ones aside.
MergesStale(data, initial, fresh) ==
  [fresh EXCEPT !.write = data.write, !.valid = data.valid, !.out = @ /\ ~(initial.out /\ ~data.out),
                !.offset = data.offset, !.error = data.error, !.current = data.current,
                !.read = data.read]

\* StoreContextMerged: what the decoder changed, over the context as it is by now.
Merged(data, initial, fresh) ==
  [fresh EXCEPT !.write = data.write,
                !.valid = [b \in Inputs |-> @[b] /\ ~(initial.valid[b] /\ ~data.valid[b])],
                !.out = @ /\ ~(initial.out /\ ~data.out),
                !.offset = data.offset, !.error = data.error, !.current = data.current,
                !.read = data.read]

StoreMerged(k) ==
  /\ kick[k].at = "storing"
  /\ slot' = Merged(kick[k].data, kick[k].initial, slot)
  /\ unread' = IF kick[k].drops THEN {} ELSE unread \union kick[k].wrote
  /\ kick' = [kick EXCEPT ![k] = AtRest]
  /\ UNCHANGED <<stream, inUse, decoder, pending, frameOf, tail, bufferOf, undecoded,
                 strayed, overran>>

\* The clear register: ClearLocked on the whole context, which is then stored whole.
BeginClear(k) ==
  LET d == kick[k].decoder IN
  /\ kick[k].at = "clear" /\ ~Locked(d)
  /\ kick' = [kick EXCEPT ![k].at = "clearing",
       ![k].data = [slot EXCEPT !.valid = Zeroed.valid, !.out = FALSE, !.offset = 0,
                                !.read = 0, !.write = 0]]
  /\ pending' = [pending EXCEPT ![d] = 0] /\ frameOf' = [frameOf EXCEPT ![d] = 0]
  /\ strayed' = (strayed \/ d # decoder)
  /\ UNCHANGED <<stream, inUse, slot, decoder, tail, bufferOf, undecoded, unread, overran>>

StoreClear(k) ==
  /\ kick[k].at = "clearing"
  /\ slot' = kick[k].data /\ unread' = {}
  /\ kick' = [kick EXCEPT ![k] = AtRest]
  /\ UNCHANGED <<stream, inUse, decoder, pending, frameOf, tail, bufferOf, undecoded,
                 strayed, overran>>

-----------------------------------------------------------------------------

\* The bound on the slot's owners is reached.
XmaQuiet ==
  /\ stream = MaxStreams /\ ~inUse /\ \A k \in Kickers : kick[k].at = "idle"
  /\ UNCHANGED xmaVars

XmaNext ==
  \/ AllocateXmaContext \/ ReleaseXmaContext
  \/ \E b \in Inputs, t \in Tails : Submit(b, t)
  \/ \E n \in 1 .. Blocks : TakeBlocks(n)
  \/ OnlyDrain \/ OfferRing \/ XmaQuiet
  \/ \E k \in Kickers :
       \/ HwContext(k, "kicked") \/ HwContext(k, "clear")
       \/ BeginWork(k) \/ (\E made \in BOOLEAN : WorkPass(k, made)) \/ DrainFrame(k) \/ StoreMerged(k)
       \/ BeginClear(k) \/ StoreClear(k)

XmaSpec == XmaInit /\ [][XmaNext]_xmaVars

-----------------------------------------------------------------------------
(* Properties *)

Context == [valid : [Inputs -> BOOLEAN], counted : BOOLEAN, current : Inputs,
            offset : 0 .. BufferFrames - 1, write : 0 .. Blocks - 1, read : 0 .. Blocks - 1,
            out : BOOLEAN, error : BOOLEAN]

\* Every variable has its type.
XmaTypeOK ==
  /\ stream \in 0 .. MaxStreams /\ inUse \in BOOLEAN /\ slot \in Context
  /\ decoder \in Decoders \union {NoDecoder}
  /\ pending \in [Decoders -> 0 .. FrameBlocks] /\ frameOf \in [Decoders -> 0 .. MaxStreams]
  /\ \A k \in Kickers : /\ {kick[k].data, kick[k].initial} \subseteq Context
                        /\ kick[k].room \in 0 .. Blocks
  /\ tail \in [Inputs -> TailForms] /\ bufferOf \in [Inputs -> 0 .. MaxStreams]
  /\ undecoded \in [Inputs -> 0 .. Spoilt]
  /\ unread \subseteq 0 .. Blocks - 1
  /\ strayed \in BOOLEAN /\ overran \in BOOLEAN

\* What a kick may still write is nothing the title has yet to read, whatever it read meanwhile
\* and however stale the kick's own copy is: read = write means a ring that is empty, for one
\* that is full was taken away (RingWriter::WriteCount, the end of Work).  A context that only
\* drains looks for no room, and may have been given more blocks than there was room for.
UnreadSurvives ==
  \A k \in Kickers :
    kick[k].at = "working" /\ ~strayed /\ ~overran =>
      Span(kick[k].position, kick[k].room) \cap unread = {}

\* A buffer the title submitted is given back only when its frames have been decoded, once each
\* and in their order, over any number of kicks, refills and threads, but for a last frame whose
\* length was split from a buffer that never came; or when the context is cleared or released.
\* A buffer submitted while a kick was decoding is not lost in its store (StoreContextMerged).
WasCleared == \E k \in Kickers : kick[k].at = "clearing" /\ kick'[k].at = "idle"
InputsAreUsedUp ==
  [][\A b \in Inputs : slot.valid[b] /\ ~slot'.valid[b] =>
       \/ undecoded[b] = 0 \/ (undecoded[b] = 1 /\ tail[b] = "split header")
       \/ WasCleared \/ inUse # inUse' \/ strayed]_xmaVars

\* No stream is given another's sound: the frame a slot's decoder is still consuming and the
\* buffers it is to decode are the present stream's, unless a kick outlived its slot's release or
\* a slot was released that no kick had given a decoder (ReleaseXmaContext).
SoundsStayApart ==
  inUse /\ ~strayed =>
    /\ decoder # NoDecoder /\ pending[decoder] > 0 => frameOf[decoder] = stream
    /\ \A b \in Inputs : slot.valid[b] => bufferOf[b] = stream

\* The store of a kick leaves what the title owns as the title has it (xma_context.h, DWORD 9).
TitleKeepsItsHalf ==
  [][\A k \in Kickers :
       kick[k].at = "storing" /\ kick'[k].at = "idle" => slot'.read = slot.read]_xmaVars

=============================================================================

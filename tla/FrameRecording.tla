--------------------------- MODULE FrameRecording ---------------------------
(***************************************************************************)
(* What a frame's command buffer does to the render targets: the record     *)
(* loop of RenderFrameImpl (gpu_draw.cpp) with the surface and depth        *)
(* targets of gpu_draw_targets.cpp, the copies of gpu_draw_resolve.cpp and  *)
(* the conversions of gpu_draw_reinterpret.cpp.                             *)
(*                                                                          *)
(* The console has one EDRAM, addressed by a base and read as bits under    *)
(* whatever format the next draw declares.  The renderer has one image for  *)
(* each colour base and one for each depth base, twice over (one sample and *)
(* two), and keeps beside each colour image the format its values are in.   *)
(*                                                                          *)
(* A prepared draw or copy is one step.  Pixels are abstracted to the set   *)
(* of formats they were written in; a depth image to the surfaces drawn     *)
(* against it since it was cleared.  Vulkan objects are always created.     *)
(***************************************************************************)
EXTENDS Naturals

CONSTANTS
  Colours,          (* colour images: [base, samples]                         *)
  Depths,           (* depth images: [base, samples]                          *)
  Formats,          (* storage formats a draw or a copy may declare           *)
  Supported,        (* those the conversion implements                        *)
  ConversionSets,   (* descriptor sets of one frame for conversions           *)
  AliasSets,        (* ... and for writing depth into colour                  *)
  MaxCommands       (* bound: prepared draws and copies in a frame            *)

NoFormat == "none"
Wrong == "wrong"

ASSUME RecordingAssumption ==
  /\ Supported \subseteq Formats /\ {NoFormat, Wrong} \cap Formats = {}
  /\ ConversionSets \in Nat /\ AliasSets \in Nat /\ MaxCommands \in Nat

VARIABLES
  phase,            (* "prepare" or "record"                                  *)
  commands,         (* draws and copies recorded so far                       *)
  open,             (* the set of the pass that is open: <<colour, depth>>    *)
  bound,            (* the set of the depth image bound (P.depth)             *)
  begun,            (* colour images the frame has begun                      *)
  used,             (* depth images the frame has used                        *)
  label,            (* by colour image: storageFormat                         *)
  ready,            (* 2X images with a resolved image (resolvedColorReady)   *)
  conversions,      (* conversion sets used                                   *)
  aliases,          (* alias sets used                                        *)
  pixels,             (* by colour image: the formats its pixels are in, or {} if mixed *)
  depth,            (* by depth image: the surfaces drawn since it was cleared *)
  settled,          (* images in the layout they rest in between commands     *)
  before,           (* ... when the frame began                               *)
  mislaid,          (* history: what the last step found in another layout    *)
  mixed,            (* history: surfaces of several formats, by declared approximation *)
  owed,             (* history: depth as the guest's stream has it            *)
  missed              (* history: depth images that have missed that            *)

targetVars == <<phase, commands, open, bound, begun, used, label, ready, conversions, aliases>>
imageVars == <<pixels, depth, settled, before>>
recordingVars == <<targetVars, imageVars, mislaid, mixed, owed, missed>>

RecordingInit ==
  /\ phase = "prepare" /\ commands = 0 /\ open = {} /\ bound = {} /\ begun = {} /\ used = {}
  /\ label = [c \in Colours |-> NoFormat]
  /\ ready = {} /\ conversions = 0 /\ aliases = 0
  /\ pixels = [c \in Colours |-> {}] /\ depth = [d \in Depths |-> {}]
  /\ settled = {} /\ before = {}
  /\ mislaid = {} /\ mixed = {} /\ owed = [d \in Depths |-> {}] /\ missed = {}

-----------------------------------------------------------------------------
(* Formats *)

\* A 2X image is no storage image: a compute pass cannot reach it.
Storable(c) == c.samples = 1

\* The draw or copy declares another format than the surface is in.
Meets(c, f) == c \in begun /\ label[c] \notin {NoFormat, f}

\* ReinterpretSurface converts, or refuses an unsupported pair or for want of a set.
Convertible(c, f) ==
  Meets(c, f) /\ {label[c], f} \subseteq Supported /\ conversions < ConversionSets

\* The pixels after it.  Of a 2X image it converts nothing, for it is given no view.
Converted(c, f) ==
  IF ~Convertible(c, f) \/ ~Storable(c) THEN pixels[c]
  ELSE {IF g = label[c] THEN f ELSE Wrong : g \in pixels[c]}

-----------------------------------------------------------------------------
(* Draws *)

Recording == phase = "record" /\ commands < MaxCommands /\ commands' = commands + 1

Writes == {"no colour", "everything", "a part", "blend"}

\* A draw that writes no colour decides nothing; one that reads nothing decides by writing; one
\* that blends reads, and a refused conversion must not relabel.
Relabels(c, f, write) ==
  Meets(c, f) /\ write # "no colour" /\ (write = "blend" => Convertible(c, f))

\* The label under the draw: a surface's first draw of the frame gives it its format.
Relabelled(c, f, write) ==
  IF Relabels(c, f, write) \/ label[c] = NoFormat THEN f ELSE label[c]

\* The pixels under the draw, and after it.
Under(c, f, write) ==
  IF c \notin begun THEN {} ELSE IF write = "blend" THEN Converted(c, f) ELSE pixels[c]
Drawn(c, f, write) ==
  CASE write = "no colour" -> Under(c, f, write)
    [] write = "everything" -> {f}
    [] OTHER -> Under(c, f, write) \union {f}

\* A surface is of several formats if a blending draw is let through unconverted, if a draw
\* that replaces only a part of it meets another format, or if a 2X image is "converted".
Mixes(c, f, write) ==
  Meets(c, f) /\ \/ write = "blend" /\ ~(Convertible(c, f) /\ Storable(c))
                 \/ write = "a part"

\* Depth drawn at the surface's own base lands in its colour, in the format it is labelled.
Aliases(c, d, f, write) ==
  /\ c.base = d.base /\ Storable(c)
  /\ aliases < AliasSets /\ Relabelled(c, f, write) \in Supported

\* The depth image under the draw: a surface's first pass of the frame clears both attachments;
\* a later one loads them, after a clear of its own if the frame has not used the depth image.
LoadedDepth(c, d) == IF c \in begun /\ d \in used THEN depth[d] ELSE {}

\* Commands that name the layout the depth image rests in, wherever it is.
Misnamed(op, d) == IF d \in settled THEN {} ELSE {op}

\* The record loop for a draw: the conversion it needs, with no pass open; a pass on its surface
\* and its depth image; the draw; the depth that lands in colour, with no pass open.
Draw(c, d, f, write) ==
  /\ Recording /\ c.samples = d.samples
  /\ open' = IF c.base = d.base THEN {} ELSE {<<c, d>>}
  /\ bound' = {d}
  /\ begun' = begun \union {c} /\ used' = used \union {d}
  /\ settled' = settled \union {d}
  /\ mislaid' = IF c \in begun /\ d \in used THEN Misnamed("pass", d) ELSE {}
  /\ label' = [label EXCEPT ![c] = Relabelled(c, f, write)]
  /\ conversions' = IF write = "blend" /\ Convertible(c, f) THEN conversions + 1 ELSE conversions
  /\ IF Aliases(c, d, f, write)
     THEN /\ aliases' = aliases + 1
          /\ pixels' = [pixels EXCEPT ![c] = {label'[c]}]
          /\ mixed' = mixed \ {c}
     ELSE /\ UNCHANGED aliases
          /\ mixed' = CASE Mixes(c, f, write) -> mixed \union {c}
                        [] write = "everything" -> mixed \ {c}
                        [] OTHER -> mixed
          /\ pixels' = [pixels EXCEPT ![c] = IF c \in mixed' THEN {} ELSE Drawn(c, f, write)]
  /\ depth' = [depth EXCEPT ![d] = LoadedDepth(c, d) \union {c}]
  /\ owed' = [owed EXCEPT ![d] = (IF d \in used THEN @ ELSE {}) \union {c}]
  /\ missed' = IF d \in used /\ c \notin begun THEN missed \union {d} ELSE missed
  /\ UNCHANGED <<phase, ready, before>>

-----------------------------------------------------------------------------
(* Copies *)

\* Mutant: the depth image cleared is the one bound last.
ClearedBound(d) == IF bound = {} THEN {d} ELSE bound

\* GetDepthTarget binds the image the copy names, and what is bound is cleared.
Cleared(d) == {d}

\* doDepthClear: the guest's clear, where the copy stands in the stream.
ClearDepth(d, clears) ==
  /\ used' = IF clears THEN used \union {d} ELSE used
  /\ depth' = [e \in Depths |-> IF clears /\ e \in Cleared(d) THEN {} ELSE depth[e]]
  /\ owed' = IF clears THEN [owed EXCEPT ![d] = {}] ELSE owed

\* A copy of depth, if it can be served, and the clear it carries; or a clear alone.
ResolveDepth(d, served, clears) ==
  /\ Recording /\ (served \/ clears)
  /\ open' = {} /\ bound' = {d}
  /\ mislaid' = Misnamed(IF served THEN "copy" ELSE "clear", d)
  /\ settled' = settled \union {d}
  /\ ClearDepth(d, clears)
  /\ UNCHANGED <<phase, begun, label, ready, conversions, aliases, pixels, before, mixed, missed>>

\* A copy of a surface the frame has not begun is skipped, and the clear it carries with it.
SkipColour(c, d, clears) ==
  /\ Recording /\ c \notin begun /\ c.samples = d.samples
  /\ mislaid' = {}
  /\ owed' = IF clears THEN [owed EXCEPT ![d] = {}] ELSE owed
  /\ missed' = IF clears /\ d \in used THEN missed \union {d} ELSE missed
  /\ UNCHANGED <<phase, open, bound, begun, used, label, ready, conversions, aliases, imageVars>>
  /\ UNCHANGED mixed

\* Mutant: a copy relabels the surface it could not convert.
CopyLabel(c, f) == f

\* A copy reads: the surface is converted to the format the copy declares, or refused.
LabelCopied(c, f) == IF Convertible(c, f) THEN f ELSE label[c]

\* A copy of colour, if its sampling can be served, and the clear of depth it carries.  A 2X
\* surface is copied by way of its resolved image.
ResolveColour(c, f, d, served, clears) ==
  LET by == IF served /\ ~Storable(c) THEN {c} ELSE {}
  IN /\ Recording /\ c \in begun /\ c.samples = d.samples
     /\ open' = {}
     /\ bound' = IF clears THEN {d} ELSE bound
     /\ label' = [label EXCEPT ![c] = LabelCopied(c, f)]
     /\ conversions' = IF Convertible(c, f) THEN conversions + 1 ELSE conversions
     /\ mixed' = IF Convertible(c, f) /\ ~Storable(c) THEN mixed \union {c} ELSE mixed
     /\ pixels' = [pixels EXCEPT ![c] = IF c \in mixed' THEN {} ELSE Converted(c, f)]
     /\ ready' = ready \union by
     /\ settled' = settled \union by \union (IF clears THEN {d} ELSE {})
     /\ mislaid' = (UNION {Misnamed("resolved image", e) : e \in by \cap ready})
                     \union (IF clears THEN Misnamed("clear", d) ELSE {})
     /\ ClearDepth(d, clears)
     /\ UNCHANGED <<phase, begun, aliases, before, missed>>

-----------------------------------------------------------------------------
(* Frames *)

\* GetSurfaceTarget promotes an image whose formats have outgrown it: a new one in its place.
Promote(c) ==
  /\ phase = "prepare"
  /\ ready' = ready \ {c} /\ settled' = settled \ {c} /\ before' = settled'
  /\ UNCHANGED <<phase, commands, open, bound, begun, used, label, conversions, aliases>>
  /\ UNCHANGED <<pixels, depth, mislaid, mixed, owed, missed>>

\* Mutant: the depth images keep their marks from one frame to the next.
MarksKept == used' = used

\* Every frame starts with all depth images unused.
MarksCleared == used' = {}

\* The frame is over, and its commands take effect if it is submitted; the next one starts with
\* every surface unbegun and without a format.
FinishFrame(submitted) ==
  /\ phase = "record" /\ phase' = "prepare" /\ commands' = 0
  /\ open' = {} /\ begun' = {} /\ MarksCleared
  /\ label' = [c \in Colours |-> NoFormat]
  /\ conversions' = 0 /\ aliases' = 0
  /\ settled' = IF submitted THEN settled ELSE before
  /\ before' = settled'
  /\ pixels' = [c \in Colours |-> {}] /\ depth' = [d \in Depths |-> {}]
  /\ mislaid' = {} /\ mixed' = {} /\ owed' = [d \in Depths |-> {}] /\ missed' = {}
  /\ UNCHANGED <<bound, ready>>

BeginRecording ==
  /\ phase = "prepare" /\ phase' = "record"
  /\ UNCHANGED <<commands, open, bound, begun, used, label, ready, conversions, aliases>>
  /\ UNCHANGED <<imageVars, mislaid, mixed, owed, missed>>

-----------------------------------------------------------------------------
Copy ==
  \E d \in Depths, clears \in BOOLEAN :
    \/ \E served \in BOOLEAN : ResolveDepth(d, served, clears)
    \/ \E c \in Colours : SkipColour(c, d, clears)
    \/ \E c \in Colours, f \in Formats, served \in BOOLEAN :
         ResolveColour(c, f, d, served, clears)

RecordingNext ==
  \/ BeginRecording \/ \E c \in Colours : Promote(c)
  \/ \E c \in Colours, d \in Depths, f \in Formats, write \in Writes : Draw(c, d, f, write)
  \/ Copy
  \/ \E submitted \in BOOLEAN : FinishFrame(submitted)

RecordingSpec == RecordingInit /\ [][RecordingNext]_recordingVars

-----------------------------------------------------------------------------
\* Every variable has its type; the pass that is open is on images the frame has begun and
\* used, with its depth image bound.
RecordingTypeOK ==
  /\ phase \in {"prepare", "record"}
  /\ commands \in 0 .. MaxCommands
  /\ open \subseteq begun \X (used \cap bound)
  /\ begun \subseteq Colours /\ used \subseteq Depths /\ bound \subseteq Depths
  /\ label \in [Colours -> Formats \union {NoFormat}]
  /\ conversions \in 0 .. ConversionSets /\ aliases \in 0 .. AliasSets
  /\ pixels \in [Colours -> SUBSET (Formats \union {Wrong})]
  /\ {depth, owed} \subseteq [Depths -> SUBSET Colours]
  /\ ready \subseteq Colours /\ {settled, before} \subseteq SUBSET (Colours \union Depths)
  /\ mislaid \subseteq {"pass", "copy", "clear", "resolved image"}
  /\ mixed \subseteq Colours /\ missed \subseteq Depths

\* The pixels of a surface are in the format it is labelled with, or cleared, through every
\* alternation of formats, refused conversion, copy and aliased draw, unless it was declared to
\* be of several (gpu_draw.cpp:2391, "A REFUSED CONVERSION MUST NOT RELABEL"; :2358, "A DRAW
\* THAT WRITES NO COLOUR DECIDES NOTHING").
LabelsNameContents == \A c \in begun \ mixed : pixels[c] \subseteq {label[c]}

\* No pass loads an image from a layout it is not in, whatever frames were given up before; only
\* a copy or a clear of a depth image can name a wrong one, if no pass has been on the image,
\* or the resolved image of a 2X surface, after a frame that was given up (gpu_draw.cpp:1990,
\* "declare a layout it has never been in").
PassesKnowLayouts ==
  /\ "pass" \notin mislaid
  /\ used \subseteq settled

\* A depth image holds what the guest has drawn since it last cleared it, in each frame, unless
\* another surface's first pass cleared it or a copy was skipped with its clear
\* (gpu_draw.cpp:2053, "The clear happens at THIS point in the stream").
DepthFollowsStream == \A d \in used \ missed : depth[d] = owed[d]

=============================================================================

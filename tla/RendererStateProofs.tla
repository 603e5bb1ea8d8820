-------------------------- MODULE RendererStateProofs --------------------------
(***************************************************************************)
(* What the renderer keeps from one frame to the next.  A recorded frame:   *)
(* for any number of images, formats, samples, descriptor sets and          *)
(* commands, each of its three invariants is inductive once it is known     *)
(* which surfaces have a format and that no depth image is marked between   *)
(* frames.  The texture cache, for every number of textures and pages and   *)
(* every verification period: a store leaves a bit and makes the hash       *)
(* stale; the bit goes only with a clear, which either makes the texture's  *)
(* confirmation too old for a skip or is the hole that the history variable *)
(* "unseen" records; the hash is right again only when it is recorded, and  *)
(* what was stored since the decoding is then in "raced".                   *)
(***************************************************************************)
EXTENDS FrameRecording, TextureCache, TLAPS

-----------------------------------------------------------------------------
(* A recorded frame *)

\* A surface has a format exactly when the frame has begun it, and a frame that is being
\* prepared has used no depth image.
Marked ==
  /\ \A c \in Colours : c \in begun <=> label[c] # NoFormat
  /\ phase = "prepare" => used = {}

Recorded == RecordingTypeOK /\ Marked

AnyDraw == \E c \in Colours, d \in Depths, f \in Formats, write \in Writes : Draw(c, d, f, write)
AnyFinish == \E submitted \in BOOLEAN : FinishFrame(submitted)
AnyPromote == \E c \in Colours : Promote(c)

\* The format a draw leaves its surface with is one a draw may declare.
LEMMA RelabelledIsFormat ==
  ASSUME Recorded, NEW c \in Colours, NEW f \in Formats, NEW write
  PROVE  Relabelled(c, f, write) \in Formats
BY RecordingAssumption DEF Recorded, RecordingTypeOK, Relabelled

\* A conversion yields the format it was asked for, or spoils.
LEMMA ConvertedIsTyped ==
  ASSUME Recorded, NEW c \in Colours, NEW f \in Formats
  PROVE  Converted(c, f) \in SUBSET (Formats \union {Wrong})
<1>1. pixels[c] \in SUBSET (Formats \union {Wrong})
  BY DEF Recorded, RecordingTypeOK
<1> QED
  BY <1>1 DEF Converted

\* A draw leaves a surface with pixels of the types there are.
LEMMA DrawnIsTyped ==
  ASSUME Recorded, NEW c \in Colours, NEW f \in Formats, NEW write
  PROVE  Drawn(c, f, write) \in SUBSET (Formats \union {Wrong})
<1>1. pixels[c] \in SUBSET (Formats \union {Wrong})
  BY DEF Recorded, RecordingTypeOK
<1>2. Under(c, f, write) \in SUBSET (Formats \union {Wrong})
  BY <1>1, ConvertedIsTyped DEF Under
<1> QED
  BY <1>2 DEF Drawn

-----------------------------------------------------------------------------
(* Types and marks *)

\* No surface is begun and no depth image used before the first frame.
LEMMA RecordedInitially == RecordingInit => Recorded
BY RecordingAssumption
   DEF RecordingInit, Recorded, RecordingTypeOK, Marked, NoFormat, Wrong

\* Commands and descriptor sets are counted within their bounds.
LEMMA CommandCounted ==
  ASSUME Recorded, Recording
  PROVE  commands' \in 0 .. MaxCommands /\ phase = "record"
<1>1. commands \in 0 .. MaxCommands /\ MaxCommands \in Nat
  BY RecordingAssumption DEF Recorded, RecordingTypeOK
<1> QED
  BY <1>1 DEF Recording

LEMMA ConversionCounted ==
  ASSUME Recorded
  PROVE  /\ conversions \in 0 .. ConversionSets
         /\ conversions < ConversionSets => conversions + 1 \in 0 .. ConversionSets
<1>1. conversions \in 0 .. ConversionSets /\ ConversionSets \in Nat
  BY RecordingAssumption DEF Recorded, RecordingTypeOK
<1> QED
  BY <1>1

LEMMA AliasCounted ==
  ASSUME Recorded
  PROVE  /\ aliases \in 0 .. AliasSets
         /\ aliases < AliasSets => aliases + 1 \in 0 .. AliasSets
<1>1. aliases \in 0 .. AliasSets /\ AliasSets \in Nat
  BY RecordingAssumption DEF Recorded, RecordingTypeOK
<1> QED
  BY <1>1

\* A draw begins its surface, gives it a format and uses its depth image.
LEMMA DrawRecorded ==
  ASSUME Recorded, NEW c \in Colours, NEW d \in Depths, NEW f \in Formats, NEW write \in Writes,
         Draw(c, d, f, write)
  PROVE  Recorded'
<1>1. Relabelled(c, f, write) \in Formats
  BY RelabelledIsFormat
<1>2. commands' \in 0 .. MaxCommands /\ phase' = "record"
  BY CommandCounted DEF Draw
<1>3. /\ begun' \subseteq Colours /\ used' \subseteq Depths /\ bound' \subseteq Depths
      /\ settled' \subseteq Colours \union Depths /\ before' \subseteq Colours \union Depths
      /\ ready' \subseteq Colours /\ missed' \subseteq Depths
  BY DEF Draw, Recorded, RecordingTypeOK
<1>4. open' \subseteq begun' \X (used' \cap bound')
  BY DEF Draw
<1>5. mislaid' \subseteq {"pass", "copy", "clear", "resolved image"}
  BY DEF Draw, Misnamed
<1>6. /\ label' \in [Colours -> Formats \union {NoFormat}]
      /\ \A e \in Colours : e \in begun' <=> label'[e] # NoFormat
  <2>1. /\ label \in [Colours -> Formats \union {NoFormat}] /\ NoFormat \notin Formats
        /\ \A e \in Colours : e \in begun <=> label[e] # NoFormat
    BY RecordingAssumption DEF Recorded, RecordingTypeOK, Marked
  <2>2. /\ label' = [label EXCEPT ![c] = Relabelled(c, f, write)]
        /\ begun' = begun \union {c}
    BY DEF Draw
  <2> QED
    BY <1>1, <2>1, <2>2
<1>7. conversions' \in 0 .. ConversionSets
  BY ConversionCounted DEF Draw, Convertible
<1>8. aliases' \in 0 .. AliasSets
  BY AliasCounted DEF Draw, Aliases
<1>9. mixed' \subseteq Colours
  BY DEF Draw, Recorded, RecordingTypeOK
<1>10. /\ depth' \in [Depths -> SUBSET Colours]
       /\ owed' \in [Depths -> SUBSET Colours]
  BY DEF Draw, LoadedDepth, Recorded, RecordingTypeOK
<1>11. pixels' \in [Colours -> SUBSET (Formats \union {Wrong})]
  <2>1. Drawn(c, f, write) \in SUBSET (Formats \union {Wrong})
    BY DrawnIsTyped
  <2>2. label'[c] \in Formats
    BY <1>1 DEF Draw, Recorded, RecordingTypeOK
  <2>3. pixels \in [Colours -> SUBSET (Formats \union {Wrong})]
    BY DEF Recorded, RecordingTypeOK
  <2>4. \E p \in SUBSET (Formats \union {Wrong}) : pixels' = [pixels EXCEPT ![c] = p]
    BY <2>1, <2>2 DEF Draw
  <2> QED
    BY <2>3, <2>4
<1> QED
  BY <1>2, <1>3, <1>4, <1>5, <1>6, <1>7, <1>8, <1>9, <1>10, <1>11
     DEF Recorded, RecordingTypeOK, Marked

\* A clear of depth uses the image it clears and changes no types.
LEMMA ClearTyped ==
  ASSUME Recorded, NEW d \in Depths, NEW clears \in BOOLEAN, ClearDepth(d, clears)
  PROVE  /\ used' \subseteq Depths /\ used \subseteq used'
         /\ depth' \in [Depths -> SUBSET Colours]
         /\ owed' \in [Depths -> SUBSET Colours]
BY DEF ClearDepth, Cleared, Recorded, RecordingTypeOK

\* A copy leaves the marks as they are, but for the depth image it clears.
LEMMA CopyRecorded == ASSUME Recorded, Copy PROVE Recorded'
<1> USE DEF Recorded
<1>1. ASSUME NEW d \in Depths, NEW clears \in BOOLEAN, NEW served \in BOOLEAN,
             ResolveDepth(d, served, clears)
      PROVE  Recorded'
  <2>1. /\ used' \subseteq Depths
        /\ depth' \in [Depths -> SUBSET Colours] /\ owed' \in [Depths -> SUBSET Colours]
    BY <1>1, ClearTyped DEF ResolveDepth
  <2>2. commands' \in 0 .. MaxCommands /\ phase' = "record"
    BY <1>1, CommandCounted DEF ResolveDepth
  <2>3. mislaid' \subseteq {"pass", "copy", "clear", "resolved image"}
    BY <1>1 DEF ResolveDepth, Misnamed
  <2>4. /\ open' = {} /\ bound' \subseteq Depths
        /\ settled' \subseteq Colours \union Depths
    BY <1>1 DEF ResolveDepth, RecordingTypeOK
  <2>5. UNCHANGED <<begun, label, ready, conversions, aliases, pixels, before, mixed, missed>>
    BY <1>1 DEF ResolveDepth
  <2> QED
    BY <2>1, <2>2, <2>3, <2>4, <2>5 DEF RecordingTypeOK, Marked
<1>2. ASSUME NEW d \in Depths, NEW clears \in BOOLEAN, NEW c \in Colours, SkipColour(c, d, clears)
      PROVE  Recorded'
  <2>1. commands' \in 0 .. MaxCommands /\ phase' = "record"
    BY <1>2, CommandCounted DEF SkipColour
  <2>2. owed' \in [Depths -> SUBSET Colours] /\ missed' \subseteq Depths /\ mislaid' = {}
    <3>1. owed \in [Depths -> SUBSET Colours] /\ missed \subseteq Depths
      BY DEF RecordingTypeOK
    <3> QED
      BY <1>2, <3>1 DEF SkipColour
  <2>3. /\ UNCHANGED <<open, bound, begun, used, label, ready, conversions, aliases, mixed>>
        /\ UNCHANGED <<pixels, depth, settled, before>>
    BY <1>2 DEF SkipColour, imageVars
  <2> QED
    BY <2>1, <2>2, <2>3 DEF RecordingTypeOK, Marked
<1>3. ASSUME NEW d \in Depths, NEW clears \in BOOLEAN, NEW c \in Colours, NEW f \in Formats,
             NEW served \in BOOLEAN, ResolveColour(c, f, d, served, clears)
      PROVE  Recorded'
  <2>1. /\ used' \subseteq Depths
        /\ depth' \in [Depths -> SUBSET Colours] /\ owed' \in [Depths -> SUBSET Colours]
    BY <1>3, ClearTyped DEF ResolveColour
  <2>2. commands' \in 0 .. MaxCommands /\ phase' = "record"
    BY <1>3, CommandCounted DEF ResolveColour
  <2>3. mislaid' \subseteq {"pass", "copy", "clear", "resolved image"}
    <3> DEFINE by == IF served /\ ~Storable(c) THEN {c} ELSE {}
               images == UNION {Misnamed("resolved image", e) : e \in by \cap ready}
               depths == IF clears THEN Misnamed("clear", d) ELSE {}
    <3>1. images \subseteq {"resolved image"}
      BY DEF Misnamed
    <3>2. depths \subseteq {"clear"}
      BY DEF Misnamed
    <3>3. mislaid' = images \union depths
      BY <1>3 DEF ResolveColour
    <3> HIDE DEF images, depths
    <3> QED
      BY <3>1, <3>2, <3>3
  <2>4. /\ open' = {} /\ bound' \subseteq Depths /\ ready' \subseteq Colours
        /\ mixed' \subseteq Colours /\ settled' \subseteq Colours \union Depths
    BY <1>3 DEF ResolveColour, RecordingTypeOK
  <2>5. /\ label' \in [Colours -> Formats \union {NoFormat}]
        /\ \A e \in Colours : e \in begun <=> label'[e] # NoFormat
    <3>1. /\ label \in [Colours -> Formats \union {NoFormat}] /\ NoFormat \notin Formats
          /\ \A e \in Colours : e \in begun <=> label[e] # NoFormat
      BY RecordingAssumption DEF RecordingTypeOK, Marked
    <3>2. label' = [label EXCEPT ![c] = LabelCopied(c, f)] /\ c \in begun
      BY <1>3 DEF ResolveColour
    <3> QED
      BY <3>1, <3>2 DEF LabelCopied
  <2>6. conversions' \in 0 .. ConversionSets
    BY <1>3, ConversionCounted DEF ResolveColour, Convertible
  <2>7. pixels' \in [Colours -> SUBSET (Formats \union {Wrong})]
    <3>1. Converted(c, f) \in SUBSET (Formats \union {Wrong})
      BY ConvertedIsTyped
    <3>2. pixels \in [Colours -> SUBSET (Formats \union {Wrong})]
      BY DEF RecordingTypeOK
    <3> QED
      BY <1>3, <3>1, <3>2 DEF ResolveColour
  <2>8. UNCHANGED <<begun, aliases, before, missed>>
    BY <1>3 DEF ResolveColour
  <2> QED
    BY <2>1, <2>2, <2>3, <2>4, <2>5, <2>6, <2>7, <2>8 DEF RecordingTypeOK, Marked
<1> QED
  BY <1>1, <1>2, <1>3 DEF Copy

\* A new image takes the place of one that was promoted.
LEMMA PromoteRecorded == ASSUME Recorded, AnyPromote PROVE Recorded'
<1> PICK c \in Colours : Promote(c)
  BY DEF AnyPromote
<1>1. /\ ready' \subseteq Colours
      /\ settled' \subseteq Colours \union Depths /\ before' \subseteq Colours \union Depths
  BY DEF Promote, Recorded, RecordingTypeOK
<1>2. /\ UNCHANGED <<phase, commands, open, bound, begun, used, label, conversions, aliases>>
      /\ UNCHANGED <<pixels, depth, mislaid, mixed, owed, missed>>
  BY DEF Promote
<1> QED
  BY <1>1, <1>2 DEF Recorded, RecordingTypeOK, Marked

\* The end of a frame clears the marks.
LEMMA FinishRecorded == ASSUME Recorded, AnyFinish PROVE Recorded'
<1> PICK submitted \in BOOLEAN : FinishFrame(submitted)
  BY DEF AnyFinish
<1>1. /\ commands' = 0 /\ conversions' = 0 /\ aliases' = 0 /\ phase' = "prepare"
      /\ open' = {} /\ begun' = {} /\ used' = {}
      /\ mislaid' = {} /\ mixed' = {} /\ missed' = {} /\ UNCHANGED <<bound, ready>>
  BY DEF FinishFrame, MarksCleared
<1>2. {settled', before'} \subseteq SUBSET (Colours \union Depths)
  BY DEF FinishFrame, Recorded, RecordingTypeOK
<1>3. /\ label' \in [Colours -> Formats \union {NoFormat}]
      /\ \A c \in Colours : label'[c] = NoFormat
      /\ pixels' \in [Colours -> SUBSET (Formats \union {Wrong})]
      /\ {depth', owed'} \subseteq [Depths -> SUBSET Colours]
  BY DEF FinishFrame
<1> QED
  <2>1. 0 \in 0 .. MaxCommands /\ 0 \in 0 .. ConversionSets /\ 0 \in 0 .. AliasSets
    BY RecordingAssumption
  <2>2. bound \subseteq Depths /\ ready \subseteq Colours
    BY DEF Recorded, RecordingTypeOK
  <2> QED
    BY <1>1, <1>2, <1>3, <2>1, <2>2 DEF Recorded, RecordingTypeOK, Marked

\* Every step keeps types and marks.
LEMMA RecordedKept == Recorded /\ [RecordingNext]_recordingVars => Recorded'
<1> SUFFICES ASSUME Recorded, [RecordingNext]_recordingVars PROVE Recorded'
  OBVIOUS
<1>1. CASE BeginRecording
  <2>1. /\ phase' = "record"
        /\ UNCHANGED <<commands, open, bound, begun, used, label, ready, conversions, aliases>>
        /\ UNCHANGED <<pixels, depth, settled, before, mislaid, mixed, owed, missed>>
    BY <1>1 DEF BeginRecording, imageVars
  <2> QED
    BY <2>1 DEF Recorded, RecordingTypeOK, Marked
<1>2. CASE UNCHANGED recordingVars
  BY <1>2 DEF recordingVars, targetVars, imageVars, Recorded, RecordingTypeOK, Marked
<1> QED
  BY <1>1, <1>2, DrawRecorded, CopyRecorded, PromoteRecorded, FinishRecorded
     DEF RecordingNext, AnyPromote, AnyFinish

-----------------------------------------------------------------------------
(* Labels *)

\* The pixels a draw leaves in place are in the format it labels its surface with.
LEMMA UnderLabelled ==
  ASSUME Recorded, LabelsNameContents, NEW c \in Colours, NEW f \in Formats, NEW write \in Writes,
         c \notin mixed, write # "everything", ~Mixes(c, f, write)
  PROVE  Under(c, f, write) \subseteq {Relabelled(c, f, write)}
<1> USE DEF Recorded, RecordingTypeOK, LabelsNameContents
<1>1. CASE c \notin begun
  BY <1>1 DEF Under
<1>2. CASE c \in begun /\ write = "blend"
  <2>1. CASE Meets(c, f)
    <3>1. Convertible(c, f) /\ Storable(c)
      BY <1>2, <2>1 DEF Mixes
    <3> QED
      BY <1>2, <2>1, <3>1 DEF Under, Converted, Relabelled, Relabels
  <2>2. CASE ~Meets(c, f)
    BY <1>2, <2>2 DEF Under, Converted, Convertible, Relabelled, Relabels, Meets, Marked
  <2> QED
    BY <2>1, <2>2
<1>3. CASE c \in begun /\ write # "blend"
  <2>1. Under(c, f, write) = pixels[c] /\ pixels[c] \subseteq {label[c]}
    BY <1>3 DEF Under
  <2> QED
    BY <1>3, <2>1 DEF Relabelled, Relabels, Mixes, Marked, Writes
<1> QED
  BY <1>1, <1>2, <1>3

\* So are all its pixels, unless the surface is mixed from then on.
LEMMA DrawLabelled ==
  ASSUME Recorded, LabelsNameContents, NEW c \in Colours, NEW d \in Depths, NEW f \in Formats,
         NEW write \in Writes, Draw(c, d, f, write)
  PROVE  LabelsNameContents'
<1> DEFINE g == Relabelled(c, f, write)
<1>1. /\ label \in [Colours -> Formats \union {NoFormat}]
      /\ pixels \in [Colours -> SUBSET (Formats \union {Wrong})]
      /\ begun \subseteq Colours
  BY DEF Recorded, RecordingTypeOK
<1>2. /\ begun' = begun \union {c} /\ label' = [label EXCEPT ![c] = g]
      /\ \E p : pixels' = [pixels EXCEPT ![c] = p]
      /\ mixed \ {c} \subseteq mixed'
  BY DEF Draw
<1>3. ASSUME NEW e \in begun' \ mixed', e # c
      PROVE  pixels'[e] \subseteq {label'[e]}
  BY <1>1, <1>2, <1>3 DEF LabelsNameContents
<1>4. ASSUME c \notin mixed'
      PROVE  pixels'[c] \subseteq {label'[c]}
  <2>1. CASE Aliases(c, d, f, write)
    BY <1>1, <1>2, <2>1 DEF Draw
  <2>2. CASE ~Aliases(c, d, f, write)
    <3>1. pixels'[c] = Drawn(c, f, write)
      BY <1>1, <1>4, <2>2 DEF Draw
    <3>2. ~Mixes(c, f, write) /\ (write # "everything" => c \notin mixed)
      BY <1>4, <2>2 DEF Draw, Mixes
    <3>3. CASE write = "everything"
      <4>1. g = f
        BY <3>3, <1>1 DEF Relabelled, Relabels, Meets, Recorded, Marked
      <4> QED
        BY <1>1, <1>2, <3>1, <3>3, <4>1 DEF Drawn
    <3>4. CASE write # "everything"
      <4>1. Under(c, f, write) \subseteq {g}
        BY <3>2, <3>4, UnderLabelled
      <4>2. write # "no colour" => g = f
        BY <3>2, <3>4, <1>1
           DEF Relabelled, Relabels, Meets, Mixes, Convertible, Writes, Recorded, Marked
      <4> QED
        BY <1>1, <1>2, <3>1, <3>4, <4>1, <4>2 DEF Drawn
    <3> QED
      BY <3>3, <3>4
  <2> QED
    BY <2>1, <2>2
<1> QED
  BY <1>3, <1>4 DEF LabelsNameContents

\* A copy converts what it reads or leaves label and pixels alone.
LEMMA CopyLabelled == ASSUME Recorded, LabelsNameContents, Copy PROVE LabelsNameContents'
<1>1. ASSUME NEW d \in Depths, NEW clears \in BOOLEAN, NEW c \in Colours, NEW f \in Formats,
             NEW served \in BOOLEAN, ResolveColour(c, f, d, served, clears)
      PROVE  LabelsNameContents'
  <2>1. /\ label \in [Colours -> Formats \union {NoFormat}]
        /\ pixels \in [Colours -> SUBSET (Formats \union {Wrong})]
        /\ begun \subseteq Colours
    BY DEF Recorded, RecordingTypeOK
  <2>2. /\ begun' = begun /\ c \in begun /\ mixed \subseteq mixed'
        /\ label' = [label EXCEPT ![c] = LabelCopied(c, f)]
        /\ pixels' = [pixels EXCEPT ![c] = IF c \in mixed' THEN {} ELSE Converted(c, f)]
        /\ c \notin mixed' => c \notin mixed /\ ~(Convertible(c, f) /\ ~Storable(c))
    BY <1>1 DEF ResolveColour
  <2>3. ASSUME c \notin mixed'
        PROVE  Converted(c, f) \subseteq {LabelCopied(c, f)}
    <3>1. pixels[c] \subseteq {label[c]}
      BY <2>2, <2>3 DEF LabelsNameContents
    <3> QED
      BY <2>2, <2>3, <3>1 DEF Converted, LabelCopied
  <2> QED
    BY <2>1, <2>2, <2>3 DEF LabelsNameContents
<1>2. ASSUME UNCHANGED <<begun, label, pixels, mixed>>
      PROVE  LabelsNameContents'
  BY <1>2 DEF LabelsNameContents
<1>3. ASSUME NEW d \in Depths, NEW clears \in BOOLEAN, NEW served \in BOOLEAN,
             ResolveDepth(d, served, clears)
      PROVE  UNCHANGED <<begun, label, pixels, mixed>>
  BY <1>3 DEF ResolveDepth
<1>4. ASSUME NEW d \in Depths, NEW clears \in BOOLEAN, NEW c \in Colours, SkipColour(c, d, clears)
      PROVE  UNCHANGED <<begun, label, pixels, mixed>>
  BY <1>4 DEF SkipColour, imageVars
<1> QED
  BY <1>1, <1>2, <1>3, <1>4 DEF Copy

\* Every step keeps the labels true.
LEMMA LabelsKept ==
  Recorded /\ LabelsNameContents /\ [RecordingNext]_recordingVars => LabelsNameContents'
<1> SUFFICES ASSUME Recorded, LabelsNameContents, [RecordingNext]_recordingVars
             PROVE  LabelsNameContents'
  OBVIOUS
<1>1. ASSUME UNCHANGED <<begun, label, pixels, mixed>>
      PROVE  LabelsNameContents'
  BY <1>1 DEF LabelsNameContents
<1>2. CASE BeginRecording \/ AnyPromote \/ UNCHANGED recordingVars
  BY <1>1, <1>2 DEF BeginRecording, AnyPromote, Promote, recordingVars, targetVars, imageVars
<1>3. CASE AnyFinish
  BY <1>3 DEF AnyFinish, FinishFrame, LabelsNameContents
<1> QED
  BY <1>2, <1>3, DrawLabelled, CopyLabelled DEF RecordingNext, AnyPromote, AnyFinish

-----------------------------------------------------------------------------
(* Layouts *)

\* A pass puts its depth image into its layout before it marks it used, and the marks do not
\* survive the frame.
LEMMA LayoutsKept ==
  Recorded /\ PassesKnowLayouts /\ [RecordingNext]_recordingVars => PassesKnowLayouts'
<1> SUFFICES ASSUME Recorded, PassesKnowLayouts, [RecordingNext]_recordingVars
             PROVE  PassesKnowLayouts'
  OBVIOUS
<1>1. ASSUME NEW c \in Colours, NEW d \in Depths, NEW f \in Formats, NEW write \in Writes,
             Draw(c, d, f, write)
      PROVE  PassesKnowLayouts'
  BY <1>1 DEF Draw, Misnamed, PassesKnowLayouts
<1>2. ASSUME NEW d \in Depths, NEW clears \in BOOLEAN, NEW served \in BOOLEAN,
             ResolveDepth(d, served, clears)
      PROVE  PassesKnowLayouts'
  BY <1>2 DEF ResolveDepth, ClearDepth, Misnamed, PassesKnowLayouts
<1>3. ASSUME NEW d \in Depths, NEW clears \in BOOLEAN, NEW c \in Colours, SkipColour(c, d, clears)
      PROVE  PassesKnowLayouts'
  BY <1>3 DEF SkipColour, imageVars, PassesKnowLayouts
<1>4. ASSUME NEW d \in Depths, NEW clears \in BOOLEAN, NEW c \in Colours, NEW f \in Formats,
             NEW served \in BOOLEAN, ResolveColour(c, f, d, served, clears)
      PROVE  PassesKnowLayouts'
  <2>1. "pass" \notin mislaid'
    <3> DEFINE by == IF served /\ ~Storable(c) THEN {c} ELSE {}
               images == UNION {Misnamed("resolved image", e) : e \in by \cap ready}
               depths == IF clears THEN Misnamed("clear", d) ELSE {}
    <3>1. images \subseteq {"resolved image"}
      BY DEF Misnamed
    <3>2. depths \subseteq {"clear"}
      BY DEF Misnamed
    <3>3. mislaid' = images \union depths
      BY <1>4 DEF ResolveColour
    <3> HIDE DEF images, depths
    <3> QED
      BY <3>1, <3>2, <3>3
  <2>2. used' \subseteq settled'
    BY <1>4 DEF ResolveColour, ClearDepth, PassesKnowLayouts
  <2> QED
    BY <2>1, <2>2 DEF PassesKnowLayouts
<1>5. CASE AnyPromote
  BY <1>5 DEF AnyPromote, Promote, Recorded, Marked, PassesKnowLayouts
<1>6. CASE AnyFinish
  BY <1>6 DEF AnyFinish, FinishFrame, MarksCleared, PassesKnowLayouts
<1>7. CASE BeginRecording \/ UNCHANGED recordingVars
  BY <1>7 DEF BeginRecording, recordingVars, targetVars, imageVars, PassesKnowLayouts
<1> QED
  BY <1>1, <1>2, <1>3, <1>4, <1>5, <1>6, <1>7 DEF RecordingNext, Copy, AnyPromote, AnyFinish

-----------------------------------------------------------------------------
(* Depth *)

\* A clear empties the image and what the guest is owed alike.
LEMMA ClearFollows ==
  ASSUME Recorded, DepthFollowsStream, NEW d \in Depths, NEW clears \in BOOLEAN,
         ClearDepth(d, clears), missed' = missed
  PROVE  DepthFollowsStream'
<1>1. depth \in [Depths -> SUBSET Colours] /\ owed \in [Depths -> SUBSET Colours]
  BY DEF Recorded, RecordingTypeOK
<1>2. CASE clears
  BY <1>1, <1>2 DEF ClearDepth, Cleared, Recorded, RecordingTypeOK, DepthFollowsStream
<1>3. CASE ~clears
  BY <1>1, <1>3 DEF ClearDepth, Recorded, RecordingTypeOK, DepthFollowsStream
<1> QED
  BY <1>2, <1>3

\* A pass loads what the guest has drawn, or the image has missed something.
LEMMA DrawFollows ==
  ASSUME Recorded, DepthFollowsStream, NEW c \in Colours, NEW d \in Depths, NEW f \in Formats,
         NEW write \in Writes, Draw(c, d, f, write)
  PROVE  DepthFollowsStream'
<1>1. depth \in [Depths -> SUBSET Colours] /\ owed \in [Depths -> SUBSET Colours]
  BY DEF Recorded, RecordingTypeOK
<1>2. /\ used' = used \union {d}
      /\ depth' = [depth EXCEPT ![d] = LoadedDepth(c, d) \union {c}]
      /\ owed' = [owed EXCEPT ![d] = (IF d \in used THEN owed[d] ELSE {}) \union {c}]
      /\ missed' = IF d \in used /\ c \notin begun THEN missed \union {d} ELSE missed
  BY DEF Draw
<1>3. ASSUME d \notin missed'
      PROVE  LoadedDepth(c, d) = IF d \in used THEN owed[d] ELSE {}
  BY <1>2, <1>3 DEF LoadedDepth, DepthFollowsStream
<1> QED
  BY <1>1, <1>2, <1>3 DEF DepthFollowsStream, Recorded, RecordingTypeOK

\* Every step keeps depth with the guest's stream.
LEMMA DepthKept ==
  Recorded /\ DepthFollowsStream /\ [RecordingNext]_recordingVars => DepthFollowsStream'
<1> SUFFICES ASSUME Recorded, DepthFollowsStream, [RecordingNext]_recordingVars
             PROVE  DepthFollowsStream'
  OBVIOUS
<1>1. ASSUME NEW d \in Depths, NEW clears \in BOOLEAN, NEW served \in BOOLEAN,
             ResolveDepth(d, served, clears)
      PROVE  DepthFollowsStream'
  BY <1>1, ClearFollows DEF ResolveDepth
<1>2. ASSUME NEW d \in Depths, NEW clears \in BOOLEAN, NEW c \in Colours, NEW f \in Formats,
             NEW served \in BOOLEAN, ResolveColour(c, f, d, served, clears)
      PROVE  DepthFollowsStream'
  BY <1>2, ClearFollows DEF ResolveColour
<1>3. ASSUME NEW d \in Depths, NEW clears \in BOOLEAN, NEW c \in Colours, SkipColour(c, d, clears)
      PROVE  DepthFollowsStream'
  <2>1. owed \in [Depths -> SUBSET Colours]
    BY DEF Recorded, RecordingTypeOK
  <2>2. UNCHANGED <<used, depth>>
    BY <1>3 DEF SkipColour, imageVars
  <2>3. /\ owed' = IF clears THEN [owed EXCEPT ![d] = {}] ELSE owed
        /\ missed' = IF clears /\ d \in used THEN missed \union {d} ELSE missed
    BY <1>3 DEF SkipColour
  <2> QED
    BY <2>1, <2>2, <2>3 DEF DepthFollowsStream, Recorded, RecordingTypeOK
<1>4. CASE AnyFinish
  BY <1>4 DEF AnyFinish, FinishFrame, MarksCleared, DepthFollowsStream
<1>5. CASE BeginRecording \/ AnyPromote \/ UNCHANGED recordingVars
  <2>1. UNCHANGED <<used, depth, owed, missed>>
    BY <1>5 DEF BeginRecording, AnyPromote, Promote, recordingVars, targetVars, imageVars
  <2> QED
    BY <2>1 DEF DepthFollowsStream
<1> QED
  BY <1>1, <1>2, <1>3, <1>4, <1>5, DrawFollows DEF RecordingNext, Copy, AnyPromote, AnyFinish

-----------------------------------------------------------------------------
\* Every variable of a frame's recording keeps its type, and the open pass is on images the
\* frame has begun and used.
THEOREM RecordingTypeCorrect == RecordingSpec => []RecordingTypeOK
<1>1. Recorded => RecordingTypeOK
  BY DEF Recorded
<1> QED
  BY <1>1, RecordedInitially, RecordedKept, PTL DEF RecordingSpec

\* A surface's label tells the format of its pixels, for any formats, converted or not, and any
\* number of descriptor sets, unless the surface was declared to be of several formats
\* (ReinterpretSurface and the record loop's relabelling).
THEOREM LabelsAreTrue == RecordingSpec => []LabelsNameContents
<1>1. RecordingInit => LabelsNameContents
  BY DEF RecordingInit, LabelsNameContents
<1> QED
  BY <1>1, RecordedInitially, RecordedKept, LabelsKept, PTL DEF RecordingSpec

\* No pass names a layout its depth image is not in, whatever frames were given up
\* (the layout marks of gpu_draw.cpp and gpu_draw_targets.cpp).
THEOREM LayoutsAreKnown == RecordingSpec => []PassesKnowLayouts
<1>1. RecordingInit => PassesKnowLayouts
  BY DEF RecordingInit, PassesKnowLayouts
<1> QED
  BY <1>1, RecordedInitially, RecordedKept, LayoutsKept, PTL DEF RecordingSpec

\* A depth image holds what the guest drew since its last clear, unless a first pass of another
\* surface, or a skipped copy's clear, came between (the clears of the record loop).
THEOREM DepthIsTheGuests == RecordingSpec => []DepthFollowsStream
<1>1. RecordingInit => DepthFollowsStream
  BY DEF RecordingInit, DepthFollowsStream
<1> QED
  BY <1>1, RecordedInitially, RecordedKept, DepthKept, PTL DEF RecordingSpec

-----------------------------------------------------------------------------
(* The texture cache *)

\* The texture being looked up is where its step says.
UploadShape ==
  \/ upload = Idle
  \/ /\ frame = "draws"
     /\ \E k \in Textures :
          /\ upload.texture = {k} /\ (upload.step \in {"query", "hash"} => ~upload.clean)
          /\ \/ upload.step = "query" /\ cached[k] = "image" /\ age[k] = 1 /\ cycle # 0
             \/ upload.step \in {"hash", "record"} /\ cached[k] = "image"
             \/ upload.step \in {"confirm", "settle"} /\ cached[k] = "image" /\ since[k] = 0
             \/ upload.step = "decode" /\ cached[k] = "no"

\* A texture confirmed in this generation or the last has been skipped no more often than
\* there were generations since the last verification.
Streak ==
  \A k \in Textures :
    /\ since[k] < VerifyEvery
    /\ age[k] = 0 => since[k] <= cycle
    /\ age[k] = 1 => cycle = 0 \/ since[k] < cycle

HashesNow(k) == upload.step = "record" /\ k \in upload.texture

\* An image older than the bytes has an old hash too, unless the store raced its making.
HashFollowsBytes ==
  \A k \in Textures :
    cached[k] = "image" /\ k \in imageStale /\ k \notin raced => k \in hashStale /\ ~HashesNow(k)

Looked(k) == upload.step \in {"confirm", "settle"} /\ k \in upload.texture

\* A texture confirmed lately whose hash is old shows a written page, or a clear has wiped it.
DirtyShows ==
  \A k \in Textures :
    /\ cached[k] = "image" /\ age[k] < 2 /\ k \in hashStale /\ k \notin unseen
    /\ ~Looked(k) /\ ~HashesNow(k)
    => bits[k] # {} /\ (age[k] = 0 => k \in late)

\* While it is being settled: what was stored since its bytes were hashed shows; and so does
\* what the hash has found, unless a clear has wiped it.
LookShows ==
  \A k \in Textures : Looked(k) =>
    /\ ~upload.changed /\ k \in hashStale => bits[k] # {} /\ k \in late
    /\ upload.changed /\ age[k] < 2 /\ k \notin unseen => bits[k] # {} /\ ~upload.clean

Honest == TextureTypeOK /\ UploadShape /\ Streak /\ HashFollowsBytes /\ DirtyShows /\ LookShows

-----------------------------------------------------------------------------
\* No upload is one too.
LEMMA IdleIsUpload == Idle \in Uploads
BY DEF Idle, Uploads

\* A texture to decode is an upload in that step.
LEMMA WorkIsUpload ==
  ASSUME NEW k \in Textures
  PROVE  AtWork(k, "decode") \in Uploads /\ AtWork(k, "decode").step = "decode" /\ Idle.step = "idle"
BY DEF Idle, Uploads, AtWork

\* A decoded one goes on to have its hash recorded.
LEMMA RecordingIsUpload ==
  ASSUME NEW u \in Uploads PROVE [u EXCEPT !.step = "record"] \in Uploads
BY DEF Uploads

\* An empty cache is right about everything.
LEMMA HonestInitially == TextureInit => Honest
<1> SUFFICES ASSUME TextureInit PROVE Honest
  OBVIOUS
<1> USE TextureAssumption DEF TextureInit, Idle
<1>1. tracking \in BOOLEAN /\ skipping \in BOOLEAN
  OBVIOUS
<1>2. upload \in Uploads
  BY DEF Uploads
<1>3. TextureTypeOK
  BY <1>1, <1>2 DEF TextureTypeOK
<1>4. UploadShape /\ Streak /\ HashFollowsBytes /\ DirtyShows /\ LookShows
  BY DEF UploadShape, Streak, HashFollowsBytes, DirtyShows, LookShows, Looked, HashesNow
<1> QED
  BY <1>3, <1>4 DEF Honest

\* The types are kept by every step.
LEMMA TextureTypeKept == Honest /\ [TextureNext]_textureVars => TextureTypeOK'
<1> SUFFICES ASSUME Honest, [TextureNext]_textureVars PROVE TextureTypeOK'
  OBVIOUS
<1> USE TextureAssumption DEF Honest, TextureTypeOK, UploadShape, policyVars, cacheVars, storageVars, Idle, AtWork
<1>1. ASSUME NEW k \in Textures, NEW page \in Pages, Store(k, page) PROVE TextureTypeOK'
  BY <1>1 DEF Store
<1>2. ASSUME NEW track \in BOOLEAN, NEW allow \in BOOLEAN, BeginFrame(track, allow)
      PROVE  TextureTypeOK'
  BY <1>2 DEF BeginFrame
<1>3. CASE EndFrame
  BY <1>3 DEF EndFrame, WipeBits
<1>4. CASE GiveUpFrame
  BY <1>4 DEF GiveUpFrame
<1>5. CASE ReleaseTextures
  BY <1>5 DEF ReleaseTextures
<1>6. ASSUME NEW k \in Textures, Miss(k) PROVE TextureTypeOK'
  BY <1>6 DEF Miss, Uploads
<1>7. ASSUME NEW k \in Textures, Check(k) PROVE TextureTypeOK'
  BY <1>7 DEF Check, Uploads
<1>8. ASSUME NEW k \in Textures, Skip(k) PROVE TextureTypeOK'
  BY <1>8 DEF Skip, Uploads
<1>9. ASSUME NEW k \in Textures, PagesDirty(k) PROVE TextureTypeOK'
  BY <1>9 DEF PagesDirty, Uploads
<1>10. ASSUME NEW k \in Textures, Look(k) PROVE TextureTypeOK'
  <2>1. (k \in hashStale) \in BOOLEAN /\ SpansClean(k) \in BOOLEAN
    BY DEF SpansClean
  <2>2. upload' \in Uploads
    BY <1>10, <2>1 DEF Look, Observe, Uploads
  <2> QED
    BY <1>10, <2>2 DEF Look
<1>11. ASSUME NEW k \in Textures, Settle(k) PROVE TextureTypeOK'
  <2>1. upload' = AtWork(k, "decode") \/ upload' = Idle
    BY <1>11 DEF Settle
  <2>5. upload' \in Uploads
    BY <2>1, IdleIsUpload, WorkIsUpload
  <2>2. skipping' \in BOOLEAN
    BY <1>11 DEF Settle
  <2>3. misses' \in 0 .. (MissLimit + 1)
    BY <1>11 DEF Settle
  <2>4. cached' \in [Textures -> {"no", "image", "refused"}] /\ age' \in [Textures -> 0 .. 2]
    BY <1>11 DEF Settle
  <2> QED
    BY <1>11, <2>2, <2>3, <2>4, <2>5 DEF Settle
<1>12. ASSUME NEW k \in Textures, Decode(k) PROVE TextureTypeOK'
  <2>1. upload' = [upload EXCEPT !.step = "record"] \/ upload' = Idle
    BY <1>12 DEF Decode
  <2>4. upload' \in Uploads
    BY <2>1, IdleIsUpload, RecordingIsUpload
  <2>2. cached' \in [Textures -> {"no", "image", "refused"}]
    BY <1>12 DEF Decode
  <2>3. imageStale' \subseteq Textures /\ raced' \subseteq Textures
    BY <1>12 DEF Decode
  <2> QED
    BY <1>12, <2>2, <2>3, <2>4 DEF Decode
<1>13. ASSUME NEW k \in Textures, RecordHash(k) PROVE TextureTypeOK'
  BY <1>13 DEF RecordHash, Uploads
<1>14. CASE UNCHANGED textureVars
  BY <1>14 DEF textureVars
<1> QED
  BY <1>1, <1>2, <1>3, <1>4, <1>5, <1>6, <1>7, <1>8, <1>9, <1>10, <1>11, <1>12, <1>13, <1>14
     DEF TextureNext

\* The texture being looked up stays where its step says.
LEMMA ShapeKept == Honest /\ [TextureNext]_textureVars => UploadShape'
<1> SUFFICES ASSUME Honest, [TextureNext]_textureVars PROVE UploadShape'
  OBVIOUS
<1> USE TextureAssumption DEF Honest, TextureTypeOK, policyVars, cacheVars, storageVars, Idle, UploadShape
<1>1. ASSUME NEW k \in Textures, NEW page \in Pages, Store(k, page) PROVE UploadShape'
  BY <1>1 DEF Store
<1>2. ASSUME NEW track \in BOOLEAN, NEW allow \in BOOLEAN, BeginFrame(track, allow) PROVE UploadShape'
  BY <1>2 DEF BeginFrame
<1>3. CASE EndFrame
  BY <1>3 DEF EndFrame, WipeBits
<1>4. CASE GiveUpFrame
  BY <1>4 DEF GiveUpFrame
<1>5. CASE ReleaseTextures
  BY <1>5 DEF ReleaseTextures
<1>6. ASSUME NEW k \in Textures, Miss(k) PROVE UploadShape'
  BY <1>6 DEF Miss, AtWork
<1>7. ASSUME NEW k \in Textures, Check(k) PROVE UploadShape'
  BY <1>7 DEF Check, AtWork, Consecutive, VerifyAll
<1>8. ASSUME NEW k \in Textures, Skip(k) PROVE UploadShape'
  BY <1>8 DEF Skip, SpansClean
<1>9. ASSUME NEW k \in Textures, PagesDirty(k) PROVE UploadShape'
  BY <1>9 DEF PagesDirty, SpansClean
<1>10. ASSUME NEW k \in Textures, Look(k) PROVE UploadShape'
  BY <1>10 DEF Look, Observe, SpansClean
<1>11. ASSUME NEW k \in Textures, Settle(k) PROVE UploadShape'
  BY <1>11 DEF Settle, AtWork
<1>12. ASSUME NEW k \in Textures, Decode(k) PROVE UploadShape'
  <2>1. upload.texture = {k} /\ upload.step = "decode" /\ frame' = frame
    BY <1>12 DEF Decode
  <2>2. CASE /\ imageStale' = imageStale \ {k} /\ cached' = [cached EXCEPT ![k] = "image"]
             /\ upload' = [upload EXCEPT !.step = "record"]
    <3>1. upload'.texture = {k} /\ upload'.step = "record" /\ upload' # Idle
      BY <2>1, <2>2 DEF Uploads
    <3> QED
      BY <1>12, <2>1, <2>2, <3>1 DEF Decode
  <2>3. CASE cached' = [cached EXCEPT ![k] = "refused"] /\ upload' = Idle
             /\ UNCHANGED <<imageStale, raced>>
    BY <1>12, <2>1, <2>3 DEF Decode
  <2> QED
    BY <1>12, <2>2, <2>3 DEF Decode
<1>13. ASSUME NEW k \in Textures, RecordHash(k) PROVE UploadShape'
  BY <1>13 DEF RecordHash
<1>14. CASE UNCHANGED textureVars
  BY <1>14 DEF textureVars
<1> QED
  BY <1>1, <1>2, <1>3, <1>4, <1>5, <1>6, <1>7, <1>8, <1>9, <1>10, <1>11, <1>12, <1>13, <1>14
     DEF TextureNext

\* The streak of skips keeps pace with the generations.
LEMMA StreakKept == Honest /\ [TextureNext]_textureVars => Streak'
<1> SUFFICES ASSUME Honest, [TextureNext]_textureVars PROVE Streak'
  OBVIOUS
<1> USE TextureAssumption DEF Honest, TextureTypeOK, policyVars, cacheVars, storageVars, Idle, UploadShape, Streak
<1>1. ASSUME NEW k \in Textures, NEW page \in Pages, Store(k, page) PROVE Streak'
  BY <1>1 DEF Store
<1>2. ASSUME NEW track \in BOOLEAN, NEW allow \in BOOLEAN, BeginFrame(track, allow) PROVE Streak'
  BY <1>2 DEF BeginFrame
<1>3. CASE EndFrame
  BY <1>3 DEF EndFrame, WipeBits
<1>4. CASE GiveUpFrame
  BY <1>4 DEF GiveUpFrame
<1>5. CASE ReleaseTextures
  BY <1>5 DEF ReleaseTextures
<1>6. ASSUME NEW k \in Textures, Miss(k) PROVE Streak'
  BY <1>6 DEF Miss, AtWork
<1>7. ASSUME NEW k \in Textures, Check(k) PROVE Streak'
  BY <1>7 DEF Check, AtWork, Consecutive, VerifyAll
<1>8. ASSUME NEW k \in Textures, Skip(k) PROVE Streak'
  BY <1>8 DEF Skip, SpansClean
<1>9. ASSUME NEW k \in Textures, PagesDirty(k) PROVE Streak'
  BY <1>9 DEF PagesDirty, SpansClean
<1>10. ASSUME NEW k \in Textures, Look(k) PROVE Streak'
  BY <1>10 DEF Look, Observe, SpansClean
<1>11. ASSUME NEW k \in Textures, Settle(k) PROVE Streak'
  BY <1>11 DEF Settle, AtWork
<1>12. ASSUME NEW k \in Textures, Decode(k) PROVE Streak'
  BY <1>12 DEF Decode
<1>13. ASSUME NEW k \in Textures, RecordHash(k) PROVE Streak'
  BY <1>13 DEF RecordHash
<1>14. CASE UNCHANGED textureVars
  BY <1>14 DEF textureVars
<1> QED
  BY <1>1, <1>2, <1>3, <1>4, <1>5, <1>6, <1>7, <1>8, <1>9, <1>10, <1>11, <1>12, <1>13, <1>14
     DEF TextureNext

\* A store after the decoding makes the hash stale, or is recorded as a race.
LEMMA HashFollowsBytesKept == Honest /\ [TextureNext]_textureVars => HashFollowsBytes'
<1> SUFFICES ASSUME Honest, [TextureNext]_textureVars PROVE HashFollowsBytes'
  OBVIOUS
<1> USE TextureAssumption DEF Honest, TextureTypeOK, policyVars, cacheVars, storageVars, Idle, UploadShape, HashFollowsBytes, HashesNow
<1>1. ASSUME NEW k \in Textures, NEW page \in Pages, Store(k, page) PROVE HashFollowsBytes'
  BY <1>1 DEF Store
<1>2. ASSUME NEW track \in BOOLEAN, NEW allow \in BOOLEAN, BeginFrame(track, allow) PROVE HashFollowsBytes'
  BY <1>2 DEF BeginFrame
<1>3. CASE EndFrame
  BY <1>3 DEF EndFrame, WipeBits
<1>4. CASE GiveUpFrame
  BY <1>4 DEF GiveUpFrame
<1>5. CASE ReleaseTextures
  BY <1>5 DEF ReleaseTextures
<1>6. ASSUME NEW k \in Textures, Miss(k) PROVE HashFollowsBytes'
  BY <1>6 DEF Miss, AtWork
<1>7. ASSUME NEW k \in Textures, Check(k) PROVE HashFollowsBytes'
  BY <1>7 DEF Check, AtWork, Consecutive, VerifyAll
<1>8. ASSUME NEW k \in Textures, Skip(k) PROVE HashFollowsBytes'
  BY <1>8 DEF Skip, SpansClean
<1>9. ASSUME NEW k \in Textures, PagesDirty(k) PROVE HashFollowsBytes'
  BY <1>9 DEF PagesDirty, SpansClean
<1>10. ASSUME NEW k \in Textures, Look(k) PROVE HashFollowsBytes'
  BY <1>10 DEF Look, Observe, SpansClean
<1>11. ASSUME NEW k \in Textures, Settle(k) PROVE HashFollowsBytes'
  <2>1. upload' = AtWork(k, "decode") \/ upload' = Idle
    BY <1>11 DEF Settle
  <2>2. upload'.step \notin {"confirm", "settle", "record"}
    BY <2>1, WorkIsUpload
  <2>3. upload.step = "settle" /\ \A j \in Textures : cached'[j] = "image" => cached[j] = "image"
    <3>1. CASE upload.changed
      BY <1>11, <3>1 DEF Settle
    <3>2. CASE ~upload.changed
      BY <1>11, <3>2 DEF Settle
    <3> QED
      BY <3>1, <3>2
  <2> QED
    BY <1>11, <2>2, <2>3 DEF Settle
<1>12. ASSUME NEW k \in Textures, Decode(k) PROVE HashFollowsBytes'
  <2>1. upload.texture = {k} /\ upload.step = "decode" /\ frame' = frame
    BY <1>12 DEF Decode
  <2>2. CASE /\ imageStale' = imageStale \ {k} /\ cached' = [cached EXCEPT ![k] = "image"]
             /\ upload' = [upload EXCEPT !.step = "record"]
    <3>1. upload'.texture = {k} /\ upload'.step = "record" /\ upload' # Idle
      BY <2>1, <2>2 DEF Uploads
    <3> QED
      BY <1>12, <2>1, <2>2, <3>1 DEF Decode
  <2>3. CASE cached' = [cached EXCEPT ![k] = "refused"] /\ upload' = Idle
             /\ UNCHANGED <<imageStale, raced>>
    BY <1>12, <2>1, <2>3 DEF Decode
  <2> QED
    BY <1>12, <2>2, <2>3 DEF Decode
<1>13. ASSUME NEW k \in Textures, RecordHash(k) PROVE HashFollowsBytes'
  BY <1>13 DEF RecordHash
<1>14. CASE UNCHANGED textureVars
  BY <1>14 DEF textureVars
<1> QED
  BY <1>1, <1>2, <1>3, <1>4, <1>5, <1>6, <1>7, <1>8, <1>9, <1>10, <1>11, <1>12, <1>13, <1>14
     DEF TextureNext

\* A store shows until a clear wipes it.
LEMMA DirtyShowsKept == Honest /\ [TextureNext]_textureVars => DirtyShows'
<1> SUFFICES ASSUME Honest, [TextureNext]_textureVars PROVE DirtyShows'
  OBVIOUS
<1> USE TextureAssumption DEF Honest, TextureTypeOK, policyVars, cacheVars, storageVars, Idle, UploadShape, DirtyShows, LookShows, Looked, HashesNow
<1>1. ASSUME NEW k \in Textures, NEW page \in Pages, Store(k, page) PROVE DirtyShows'
  BY <1>1 DEF Store
<1>2. ASSUME NEW track \in BOOLEAN, NEW allow \in BOOLEAN, BeginFrame(track, allow) PROVE DirtyShows'
  BY <1>2 DEF BeginFrame
<1>3. CASE EndFrame
  BY <1>3 DEF EndFrame, WipeBits
<1>4. CASE GiveUpFrame
  BY <1>4 DEF GiveUpFrame
<1>5. CASE ReleaseTextures
  BY <1>5 DEF ReleaseTextures
<1>6. ASSUME NEW k \in Textures, Miss(k) PROVE DirtyShows'
  BY <1>6 DEF Miss, AtWork
<1>7. ASSUME NEW k \in Textures, Check(k) PROVE DirtyShows'
  BY <1>7 DEF Check, AtWork, Consecutive, VerifyAll
<1>8. ASSUME NEW k \in Textures, Skip(k) PROVE DirtyShows'
  BY <1>8 DEF Skip, SpansClean
<1>9. ASSUME NEW k \in Textures, PagesDirty(k) PROVE DirtyShows'
  BY <1>9 DEF PagesDirty, SpansClean
<1>10. ASSUME NEW k \in Textures, Look(k) PROVE DirtyShows'
  BY <1>10 DEF Look, Observe, SpansClean
<1>11. ASSUME NEW k \in Textures, Settle(k) PROVE DirtyShows'
  BY <1>11 DEF Settle, AtWork
<1>12. ASSUME NEW k \in Textures, Decode(k) PROVE DirtyShows'
  <2>1. upload.texture = {k} /\ upload.step = "decode" /\ frame' = frame
    BY <1>12 DEF Decode
  <2>2. CASE /\ imageStale' = imageStale \ {k} /\ cached' = [cached EXCEPT ![k] = "image"]
             /\ upload' = [upload EXCEPT !.step = "record"]
    <3>1. upload'.texture = {k} /\ upload'.step = "record" /\ upload' # Idle
      BY <2>1, <2>2 DEF Uploads
    <3> QED
      BY <1>12, <2>1, <2>2, <3>1 DEF Decode
  <2>3. CASE cached' = [cached EXCEPT ![k] = "refused"] /\ upload' = Idle
             /\ UNCHANGED <<imageStale, raced>>
    BY <1>12, <2>1, <2>3 DEF Decode
  <2> QED
    BY <1>12, <2>2, <2>3 DEF Decode
<1>13. ASSUME NEW k \in Textures, RecordHash(k) PROVE DirtyShows'
  BY <1>13 DEF RecordHash
<1>14. CASE UNCHANGED textureVars
  BY <1>14 DEF textureVars
<1> QED
  BY <1>1, <1>2, <1>3, <1>4, <1>5, <1>6, <1>7, <1>8, <1>9, <1>10, <1>11, <1>12, <1>13, <1>14
     DEF TextureNext

\* What the look found, and what was stored after it, shows.
LEMMA LookShowsKept == Honest /\ [TextureNext]_textureVars => LookShows'
<1> SUFFICES ASSUME Honest, [TextureNext]_textureVars PROVE LookShows'
  OBVIOUS
<1> USE TextureAssumption DEF Honest, TextureTypeOK, policyVars, cacheVars, storageVars, Idle, UploadShape, DirtyShows, LookShows, Looked, HashesNow
<1>1. ASSUME NEW k \in Textures, NEW page \in Pages, Store(k, page) PROVE LookShows'
  BY <1>1 DEF Store
<1>2. ASSUME NEW track \in BOOLEAN, NEW allow \in BOOLEAN, BeginFrame(track, allow) PROVE LookShows'
  BY <1>2 DEF BeginFrame
<1>3. CASE EndFrame
  BY <1>3 DEF EndFrame, WipeBits
<1>4. CASE GiveUpFrame
  BY <1>4 DEF GiveUpFrame
<1>5. CASE ReleaseTextures
  BY <1>5 DEF ReleaseTextures
<1>6. ASSUME NEW k \in Textures, Miss(k) PROVE LookShows'
  BY <1>6 DEF Miss, AtWork
<1>7. ASSUME NEW k \in Textures, Check(k) PROVE LookShows'
  BY <1>7 DEF Check, AtWork, Consecutive, VerifyAll
<1>8. ASSUME NEW k \in Textures, Skip(k) PROVE LookShows'
  BY <1>8 DEF Skip, SpansClean
<1>9. ASSUME NEW k \in Textures, PagesDirty(k) PROVE LookShows'
  BY <1>9 DEF PagesDirty, SpansClean
<1>10. ASSUME NEW k \in Textures, Look(k) PROVE LookShows'
  <2>1. upload.texture = {k} /\ upload'.texture = {k} /\ cached[k] = "image"
    BY <1>10 DEF Look, Observe, Uploads
  <2>2. UNCHANGED <<hashStale, bits, age, unseen>>
    BY <1>10 DEF Look
  <2>3. CASE upload.step = "hash"
    <3>1. /\ upload'.changed <=> k \in hashStale
          /\ upload'.clean <=> upload.clean
      BY <1>10, <2>3 DEF Look, Observe, Uploads
    <3> QED
      BY <2>1, <2>2, <2>3, <3>1
  <2>4. CASE upload.step = "confirm"
    <3>1. /\ upload'.changed <=> upload.changed
          /\ upload'.clean <=> bits[k] = {}
          /\ late' = late
      BY <1>10, <2>4 DEF Look, Observe, SpansClean, Uploads
    <3> QED
      BY <2>1, <2>2, <2>4, <3>1
  <2>5. upload.step \in {"hash", "confirm"}
    BY <1>10 DEF Look
  <2> QED
    BY <2>3, <2>4, <2>5
<1>11. ASSUME NEW k \in Textures, Settle(k) PROVE LookShows'
  <2>1. upload' = AtWork(k, "decode") \/ upload' = Idle
    BY <1>11 DEF Settle
  <2>2. upload'.step \notin {"confirm", "settle", "record"}
    BY <2>1, WorkIsUpload
  <2>3. upload.step = "settle" /\ \A j \in Textures : cached'[j] = "image" => cached[j] = "image"
    <3>1. CASE upload.changed
      BY <1>11, <3>1 DEF Settle
    <3>2. CASE ~upload.changed
      BY <1>11, <3>2 DEF Settle
    <3> QED
      BY <3>1, <3>2
  <2> QED
    BY <1>11, <2>2, <2>3 DEF Settle
<1>12. ASSUME NEW k \in Textures, Decode(k) PROVE LookShows'
  <2>1. upload.texture = {k} /\ upload.step = "decode" /\ frame' = frame
    BY <1>12 DEF Decode
  <2>2. CASE /\ imageStale' = imageStale \ {k} /\ cached' = [cached EXCEPT ![k] = "image"]
             /\ upload' = [upload EXCEPT !.step = "record"]
    <3>1. upload'.texture = {k} /\ upload'.step = "record" /\ upload' # Idle
      BY <2>1, <2>2 DEF Uploads
    <3> QED
      BY <1>12, <2>1, <2>2, <3>1 DEF Decode
  <2>3. CASE cached' = [cached EXCEPT ![k] = "refused"] /\ upload' = Idle
             /\ UNCHANGED <<imageStale, raced>>
    BY <1>12, <2>1, <2>3 DEF Decode
  <2> QED
    BY <1>12, <2>2, <2>3 DEF Decode
<1>13. ASSUME NEW k \in Textures, RecordHash(k) PROVE LookShows'
  BY <1>13 DEF RecordHash
<1>14. CASE UNCHANGED textureVars
  BY <1>14 DEF textureVars
<1> QED
  BY <1>1, <1>2, <1>3, <1>4, <1>5, <1>6, <1>7, <1>8, <1>9, <1>10, <1>11, <1>12, <1>13, <1>14
     DEF TextureNext

\* So the invariant always holds.
LEMMA AlwaysHonest == TextureSpec => []Honest
<1>1. Honest /\ [TextureNext]_textureVars => Honest'
  BY TextureTypeKept, ShapeKept, StreakKept, HashFollowsBytesKept, DirtyShowsKept, LookShowsKept
     DEF Honest
<1> QED
  BY <1>1, HonestInitially, PTL DEF TextureSpec

-----------------------------------------------------------------------------
\* Every variable of the cache keeps its type.
THEOREM TextureTypeCorrect == TextureSpec => []TextureTypeOK
  BY AlwaysHonest, PTL DEF Honest

\* For every verification period, no texture is skipped that many times without being hashed,
\* whatever frames it is bound in (Upload, BeginObservationPeriod).
THEOREM SkipsStayRecent == TextureSpec => []SkipsAreRecent
<1>1. Honest => SkipsAreRecent
  BY DEF Honest, Streak, SkipsAreRecent
<1> QED
  BY <1>1, AlwaysHonest, PTL

\* A texture with an old image is skipped only after a store that a clear has wiped, or one
\* that raced the making of the image (Upload, EndStalenessFrame).
THEOREM StalenessIsTheHole == TextureSpec => StaleOnlyThroughTheHole
<1>1. ASSUME Honest, NEW k \in Textures, Skip(k), k \in imageStale
      PROVE  k \in unseen \union raced
  <2>1. k \in upload.texture /\ upload.step = "query" /\ bits[k] = {}
    BY <1>1 DEF Skip, SpansClean
  <2>2. cached[k] = "image" /\ age[k] = 1
    BY <2>1, <1>1 DEF Honest, UploadShape, Idle
  <2>3. k \notin raced => k \in hashStale
    BY <2>2, <1>1 DEF Honest, HashFollowsBytes
  <2> QED
    BY <2>1, <2>2, <2>3, <1>1 DEF Honest, DirtyShows, Looked, HashesNow
<1>2. Honest => \A k \in Textures : Skip(k) /\ k \in imageStale => k \in unseen \union raced
  BY <1>1
<1> QED
  BY <1>2, AlwaysHonest, PTL DEF TextureSpec, StaleOnlyThroughTheHole

\* A contradiction is counted only against a clear that has wiped a store, never against a
\* store that lands while the texture is verified (Upload).
THEOREM MissesAreHonest == TextureSpec => MissesAreTheHole
<1>1. ASSUME Honest, [TextureNext]_textureVars, misses' > misses
      PROVE  upload.texture \subseteq unseen
  <2> USE DEF Honest, TextureTypeOK
  <2>1. PICK k \in Textures : Settle(k)
    BY <1>1 DEF TextureNext, Store, BeginFrame, EndFrame, GiveUpFrame, ReleaseTextures, Miss,
       Check, Skip, PagesDirty, Look, Decode, RecordHash, textureVars, policyVars
  <2>2. Contradiction(k) /\ upload.texture = {k} /\ upload.step = "settle"
    BY <1>1, <2>1 DEF Settle
  <2> QED
    BY <1>1, <2>2 DEF Contradiction, Consecutive, LookShows, Looked
<1>2. Honest /\ [TextureNext]_textureVars =>
        [misses' > misses => upload.texture \subseteq unseen]_textureVars
  BY <1>1
<1> QED
  BY <1>2, AlwaysHonest, PTL DEF TextureSpec, MissesAreTheHole

\* A recorded hash that is newer than its image takes a store that raced the making of the image.
UnracedHashNamesTheImage ==
  \A k \in Textures :
    cached[k] = "image" /\ upload.texture # {k} /\ k \in imageStale /\ k \notin raced => k \in hashStale

\* But for a store that lands between the copying of a texture's bytes and the hashing of them,
\* whatever else is stored, skipped, verified or wiped, bytes the image was not made from are
\* bytes the next hash finds changed (Upload).
THEOREM UnracedHashesAreTrue == TextureSpec => []UnracedHashNamesTheImage
<1>1. Honest => UnracedHashNamesTheImage
  BY DEF Honest, HashFollowsBytes, UnracedHashNamesTheImage
<1> QED
  BY <1>1, AlwaysHonest, PTL

=============================================================================

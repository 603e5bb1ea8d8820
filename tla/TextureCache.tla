----------------------------- MODULE TextureCache -----------------------------
(***************************************************************************)
(* The renderer's cache of guest textures (TextureUploader::Upload) and the *)
(* page tracking that lets it skip hashing a texture's bytes again          *)
(* (GuestDirtyPages), while the guest stores into those bytes.              *)
(*                                                                          *)
(* A texture's bytes, its image and its recorded hash are abstracted to     *)
(* whether image and hash are older than the bytes; every store makes them  *)
(* so.  A texture's pages are those of its base and mip spans in every      *)
(* window they are mapped at.  Decoding, formats and image creation are one *)
(* step that succeeds or is refused.                                        *)
(***************************************************************************)
EXTENDS Naturals, FiniteSets

CONSTANTS
  Textures,       (* fetch constants                                          *)
  Pages,          (* a texture's pages, in every window                       *)
  VerifyEvery,    (* kTexStalenessVerifyEvery (64)                            *)
  MissLimit       (* contradictions tolerated (32)                            *)

ASSUME TextureAssumption ==
  /\ Pages # {} /\ VerifyEvery \in Nat \ {0, 1} /\ MissLimit \in Nat

VARIABLES
  frame,          (* RenderFrameImpl: "between" frames, or in its "draws"     *)
  tracking, skipping,   (* texDirtyObservationActive, texDirtyEnabled         *)
  cycle,          (* generation_ % VerifyEvery                                *)
  misses,         (* g_texDirtyMisses, up to MissLimit + 1                    *)
  checked,        (* texCheckedThisFrame                                      *)
  cached,         (* by texture: "no", "image", or "refused" (a null view)    *)
  imageStale,     (* textures stored to since their image was decoded         *)
  hashStale,      (* textures stored to since their hash was recorded         *)
  age,            (* generation_ - texVerifiedGen: 0, 1, or 2 for more        *)
  bits,           (* by texture: its pages with the soft-dirty bit            *)
  upload,         (* the texture being looked up, the step, what it observed  *)
  since,          (* history: skips since the last hash, up to VerifyEvery    *)
  late,           (* history: textures stored to since they were last checked *)
  unseen,         (* history: those whose store a clear has wiped             *)
  raced           (* history: those stored to between decode and hash         *)

storageVars == <<imageStale, hashStale, bits, late, raced>>
cacheVars == <<checked, cached, age, since>>
policyVars == <<frame, tracking, skipping, cycle, misses>>
textureVars == <<policyVars, cacheVars, storageVars, upload, unseen>>

Uploads == [step : {"idle", "query", "hash", "confirm", "settle", "decode", "record"},
            texture : SUBSET Textures, changed : BOOLEAN, clean : BOOLEAN]
Idle == [step |-> "idle", texture |-> {}, changed |-> FALSE, clean |-> FALSE]

TextureInit ==
  /\ frame = "between" /\ tracking = FALSE /\ skipping = FALSE
  /\ cycle = 0 /\ misses = 0 /\ checked = {}
  /\ cached = [k \in Textures |-> "no"]
  /\ imageStale = {} /\ hashStale = {}
  /\ age = [k \in Textures |-> 2]
  /\ bits = [k \in Textures |-> {}]
  /\ upload = Idle
  /\ since = [k \in Textures |-> 0]
  /\ late = {} /\ unseen = {} /\ raced = {}

-----------------------------------------------------------------------------
(* The guest, on any of its threads, at any time *)

Store(k, page) ==
  /\ imageStale' = imageStale \union {k}
  /\ hashStale' = hashStale \union {k}
  /\ bits' = [bits EXCEPT ![k] = @ \union {page}]
  /\ late' = late \union {k}
  /\ raced' = IF upload.step = "record" /\ k \in upload.texture THEN raced \union {k} ELSE raced
  /\ UNCHANGED <<policyVars, cacheVars, upload, unseen>>

-----------------------------------------------------------------------------
(* A frame *)

\* Mutant: the clear precedes the frame's queries.
BeginFrameClearing(track, allow) ==
  /\ frame = "between"
  /\ frame' = "draws"
  /\ tracking' = (track /\ misses <= MissLimit)
  /\ skipping' = (track /\ allow /\ misses <= MissLimit)
  /\ checked' = {}
  /\ bits' = [k \in Textures |-> {}]
  /\ UNCHANGED <<cycle, misses, cached, age, since, imageStale, hashStale, late, raced, upload,
                 unseen>>

\* BeginStalenessFrame: the default, or the arm of an A/B measurement, decides.
BeginFrame(track, allow) ==
  /\ frame = "between"
  /\ frame' = "draws"
  /\ tracking' = (track /\ misses <= MissLimit)
  /\ skipping' = (track /\ allow /\ misses <= MissLimit)
  /\ checked' = {}
  /\ UNCHANGED <<cycle, misses, cached, age, since, storageVars, upload, unseen>>

\* The bits are cleared, or the write to clear_refs fails and they stay.
WipeBits ==
  \/ /\ bits' = [k \in Textures |-> {}]
     /\ unseen' = unseen \union {k \in late : age[k] = 0}
  \/ UNCHANGED <<bits, unseen>>

\* EndStalenessFrame and BeginObservationPeriod: a new generation.
EndFrame ==
  /\ frame = "draws" /\ upload = Idle
  /\ frame' = "between"
  /\ IF tracking
     THEN /\ cycle' = IF cycle = VerifyEvery - 1 THEN 0 ELSE cycle + 1
          /\ age' = [k \in Textures |-> IF age[k] = 0 THEN 1 ELSE 2]
          /\ WipeBits
     ELSE UNCHANGED <<cycle, age, bits, unseen>>
  /\ UNCHANGED <<tracking, skipping, misses, checked, cached, since, imageStale, hashStale, late,
                 raced, upload>>

\* A frame that is given up before its end does not end the observation period.
GiveUpFrame ==
  /\ frame = "draws" /\ upload = Idle
  /\ frame' = "between"
  /\ UNCHANGED <<tracking, skipping, cycle, misses, cacheVars, storageVars, upload, unseen>>

\* ReleasePersistent empties the caches.
ReleaseTextures ==
  /\ frame = "between"
  /\ cached' = [k \in Textures |-> "no"]
  /\ age' = [k \in Textures |-> 2]
  /\ UNCHANGED <<policyVars, checked, since, storageVars, upload, unseen>>

-----------------------------------------------------------------------------
(* Upload: a draw binds texture k *)

VerifyAll == skipping /\ cycle = 0

\* TextureSpansClean: no page of either span, in any window.
SpansClean(k) == bits[k] = {}

\* The generation before this one confirmed the texture.
Consecutive(k) == age[k] = 1

AtWork(k, step) == [Idle EXCEPT !.step = step, !.texture = {k}]

\* Not cached: decode it.
Miss(k) ==
  /\ frame = "draws" /\ upload = Idle
  /\ cached[k] = "no"
  /\ upload' = AtWork(k, "decode")
  /\ UNCHANGED <<policyVars, cacheVars, storageVars, unseen>>

\* Cached: its first binding in a frame checks it.
Check(k) ==
  /\ frame = "draws" /\ upload = Idle
  /\ cached[k] = "image" /\ k \notin checked
  /\ checked' = checked \union {k}
  /\ upload' = AtWork(k, IF skipping /\ ~VerifyAll /\ Consecutive(k) THEN "query" ELSE "hash")
  /\ UNCHANGED <<policyVars, cached, age, since, storageVars, unseen>>

\* The skip: the pages are clean.
Skip(k) ==
  /\ upload.step = "query" /\ upload.texture = {k}
  /\ SpansClean(k)
  /\ age' = [age EXCEPT ![k] = 0]
  /\ since' = [since EXCEPT ![k] = IF @ < VerifyEvery THEN @ + 1 ELSE @]
  /\ late' = late \ {k}
  /\ upload' = Idle
  /\ UNCHANGED <<policyVars, checked, cached, imageStale, hashStale, bits, raced, unseen>>

PagesDirty(k) ==
  /\ upload.step = "query" /\ upload.texture = {k}
  /\ ~SpansClean(k)
  /\ upload' = [upload EXCEPT !.step = "hash"]
  /\ UNCHANGED <<policyVars, cacheVars, storageVars, unseen>>

\* Mutant: the pages are asked before the bytes are hashed.
ObserveReversed(k) ==
  IF upload.step = "hash"
  THEN [upload EXCEPT !.step = "confirm", !.clean = SpansClean(k)]
  ELSE [upload EXCEPT !.step = "settle", !.changed = k \in hashStale]

\* The bytes are hashed; on a verification frame the pages are asked after that.
Observe(k) ==
  IF upload.step = "hash"
  THEN [upload EXCEPT !.step = IF VerifyAll THEN "confirm" ELSE "settle",
                      !.changed = k \in hashStale]
  ELSE [upload EXCEPT !.step = "settle", !.clean = SpansClean(k)]

Look(k) ==
  /\ upload.step \in {"hash", "confirm"} /\ upload.texture = {k}
  /\ upload' = Observe(k)
  /\ late' = IF upload.step = "hash" THEN late \ {k} ELSE late
  /\ since' = [since EXCEPT ![k] = 0]
  /\ UNCHANGED <<policyVars, checked, cached, age, imageStale, hashStale, bits, raced, unseen>>

\* The bytes changed although the pages read unwritten since the last confirmation.
Contradiction(k) == upload.changed /\ VerifyAll /\ upload.clean /\ Consecutive(k)

\* The texture is confirmed, or evicted and decoded again; too many contradictions end
\* skipping.
Settle(k) ==
  /\ upload.step = "settle" /\ upload.texture = {k}
  /\ misses' = IF Contradiction(k) /\ misses <= MissLimit THEN misses + 1 ELSE misses
  /\ skipping' = (skipping /\ misses' <= MissLimit)
  /\ unseen' = unseen \ {k}
  /\ IF upload.changed
     THEN /\ cached' = [cached EXCEPT ![k] = "no"]
          /\ age' = [age EXCEPT ![k] = 2]
          /\ upload' = AtWork(k, "decode")
     ELSE /\ age' = [age EXCEPT ![k] = 0]
          /\ upload' = Idle /\ UNCHANGED cached
  /\ UNCHANGED <<frame, tracking, cycle, checked, since, storageVars>>

\* DecodeGuestTexture copies the bytes; the image is made from the copy, unless the format or
\* an allocation is refused.
Decode(k) ==
  /\ upload.step = "decode" /\ upload.texture = {k}
  /\ \/ /\ imageStale' = imageStale \ {k}
        /\ raced' = raced \ {k}
        /\ cached' = [cached EXCEPT ![k] = "image"]
        /\ upload' = [upload EXCEPT !.step = "record"]
     \/ /\ cached' = [cached EXCEPT ![k] = "refused"]
        /\ upload' = Idle
        /\ UNCHANGED <<imageStale, raced>>
  /\ UNCHANGED <<policyVars, checked, age, since, hashStale, bits, late, unseen>>

\* The hash is taken from the guest's bytes, again.
RecordHash(k) ==
  /\ upload.step = "record" /\ upload.texture = {k}
  /\ hashStale' = hashStale \ {k}
  /\ late' = late \ {k}
  /\ unseen' = unseen \ {k}
  /\ age' = [age EXCEPT ![k] = 0]
  /\ since' = [since EXCEPT ![k] = 0]
  /\ upload' = Idle
  /\ UNCHANGED <<policyVars, checked, cached, imageStale, bits, raced>>

-----------------------------------------------------------------------------
TextureNext ==
  \/ \E k \in Textures : \E page \in Pages : Store(k, page)
  \/ \E track, allow \in BOOLEAN : BeginFrame(track, allow)
  \/ EndFrame \/ GiveUpFrame \/ ReleaseTextures
  \/ \E k \in Textures : Miss(k) \/ Check(k) \/ Skip(k) \/ PagesDirty(k) \/ Look(k)
                         \/ Settle(k) \/ Decode(k) \/ RecordHash(k)

TextureSpec == TextureInit /\ [][TextureNext]_textureVars

-----------------------------------------------------------------------------
\* Every variable has its type.
TextureTypeOK ==
  /\ frame \in {"between", "draws"} /\ {tracking, skipping} \subseteq BOOLEAN
  /\ cycle \in 0 .. (VerifyEvery - 1) /\ misses \in 0 .. (MissLimit + 1)
  /\ checked \subseteq Textures
  /\ cached \in [Textures -> {"no", "image", "refused"}]
  /\ {imageStale, hashStale, late, unseen, raced} \subseteq SUBSET Textures
  /\ age \in [Textures -> 0 .. 2] /\ bits \in [Textures -> SUBSET Pages]
  /\ upload \in Uploads
  /\ since \in [Textures -> 0 .. VerifyEvery]

\* A texture is skipped although its image is old only if the store was made after its check
\* in an earlier frame and its bit wiped by that frame's clear, or while its image was being
\* made; not because it went unbound, a frame was given up or a clear failed
\* (gpu_draw_renderer.h: "a clean SKIP is only valid when the previous generation confirmed too").
StaleOnlyThroughTheHole ==
  [][\A k \in Textures : Skip(k) /\ k \in imageStale => k \in unseen \union raced]_textureVars

\* Whatever a clear has hidden is found at the next verification: no texture is skipped
\* VerifyEvery times without being hashed, even one that is not bound in verification frames
\* (guest_dirty_pages.h: the race is bounded "to N frames").
SkipsAreRecent == \A k \in Textures : since[k] < VerifyEvery

\* The tracker is accused only of what it really missed: a store that lands while a texture is
\* being verified is not a contradiction (gpu_draw_textures.cpp:252, "queried afterwards, a
\* real late write reports its bit").
MissesAreTheHole ==
  [][misses' > misses => upload.texture \subseteq unseen]_textureVars

\* A recorded hash is never newer than the image: bytes the image was not made from are bytes
\* the next hash finds changed (gpu_draw_renderer.h:256, "The hash of the GUEST bytes each
\* cached texture was built from", "the only thing that can notice").
HashNamesTheImage ==
  \A k \in Textures : cached[k] = "image" /\ upload.texture # {k} /\ k \in imageStale => k \in hashStale

=============================================================================

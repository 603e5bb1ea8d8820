------------------------------ MODULE MCSafeParts ------------------------------
(***************************************************************************)
(* Six parts of the runtime that share no state in the model, checked side *)
(* by side for what never happens: a behaviour runs one of them, chosen at  *)
(* the start, and leaves the others as they were.                           *)
(***************************************************************************)
EXTENDS Presentation, FrameRecording, TextureCache, KernelWaits, GuestHeap, XmaContext

VARIABLE chosen

Parts == {"presentation", "recording", "textures", "waits", "heap", "audio"}

partsVars == <<chosen, presentationVars, recordingVars, textureVars, waitsVars,
               heapVars, xmaVars>>

PartsInit ==
  /\ chosen \in Parts
  /\ PresentationInit /\ RecordingInit /\ TextureInit
  /\ WaitsInit /\ HeapInit /\ XmaInit

PartsNext ==
  /\ UNCHANGED chosen
  /\ \/ /\ chosen = "presentation" /\ PresentationNext
        /\ UNCHANGED <<recordingVars, textureVars, waitsVars, heapVars, xmaVars>>
     \/ /\ chosen = "recording" /\ RecordingNext
        /\ UNCHANGED <<presentationVars, textureVars, waitsVars, heapVars, xmaVars>>
     \/ /\ chosen = "textures" /\ TextureNext
        /\ UNCHANGED <<presentationVars, recordingVars, waitsVars, heapVars, xmaVars>>
     \/ /\ chosen = "waits" /\ WaitsNext
        /\ UNCHANGED <<presentationVars, recordingVars, textureVars, heapVars, xmaVars>>
     \/ /\ chosen = "heap" /\ HeapNext
        /\ UNCHANGED <<presentationVars, recordingVars, textureVars, waitsVars, xmaVars>>
     \/ /\ chosen = "audio" /\ XmaNext
        /\ UNCHANGED <<presentationVars, recordingVars, textureVars, waitsVars, heapVars>>

PartsSpec == PartsInit /\ [][PartsNext]_partsVars

\* Every variable of the part that runs has its type; the others keep their initial values,
\* which are checked where they run.
PartsTypeOK ==
  /\ chosen = "presentation" => PresentationTypeOK
  /\ chosen = "recording" => RecordingTypeOK
  /\ chosen = "textures" => TextureTypeOK
  /\ chosen = "waits" => WaitsTypeOK
  /\ chosen = "heap" => HeapTypeOK
  /\ chosen = "audio" => XmaTypeOK

-----------------------------------------------------------------------------
(* The instances *)

BothRunners == {"pump", "render"}
EveryHazard == {"abandon", "waits", "grow", "loss", "window"}

\* Two surfaces that share a depth image, one of which has depth at its own base, and a 2X
\* surface.
Target(base, samples) == [base |-> base, samples |-> samples]
MCColours == {Target("scene", 1), Target("mask", 1), Target("scene", 2)}
MCDepths == {Target("mask", 1), Target("z", 2)}

MCObjects == {"event", "semaphore", "mutant", "exit"}
MCKind == [o \in MCObjects |-> CASE o = "event" -> "synchronization"
                                 [] o = "exit" -> "notification" [] OTHER -> o]
MCLimit == [o \in MCObjects |-> 1]
W(api, objects, timed) == [api |-> api, objects |-> objects, timed |-> timed]
MCWaits == {W("all", <<"event", "mutant">>, FALSE), W("nt-any", <<"event", "mutant">>, TRUE),
            W("nt-all", <<"exit", "mutant", "event", "semaphore">>, TRUE),
            W("nt-all", <<"mutant", "semaphore">>, FALSE)}

\* State constraint: nothing is asked of the audio part once a slot's contents have outlived
\* their owner, which its properties except for good, so such a state has its type checked and is
\* not followed further.
UntilStrayed == ~strayed

=============================================================================

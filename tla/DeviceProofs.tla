----------------------------- MODULE DeviceProofs -----------------------------
(***************************************************************************)
(* The title's devices.                                                     *)
(*                                                                          *)
(* The pad (PadArbiter), for every script, every number of polling threads  *)
(* and every set of inputs.  The inductive invariant Arbitration says what  *)
(* each poller carries from one critical section to the next, and what has  *)
(* been settled by then.  Of a script that is through it says who ends it.  *)
(*                                                                          *)
(* The audio decoder's slot (XmaContext), for every number of threads and   *)
(* every size of the output ring, of a pass, of a frame and of a buffer.    *)
(* XmaInv: a decoder's lock has one holder (Owned), what it has loaded is   *)
(* the present stream's (OwnSounds), it has let go of nothing that was not  *)
(* used up (InputsCounted), and the blocks it may still write lie beyond    *)
(* those the title was told of (RingKnown).  The last three hold until      *)
(* something strayed, the last until a draining kick lacked the room.       *)
(***************************************************************************)
EXTENDS PadArbiter, XmaContext, FiniteSetTheorems, TLAPS

(* The pad *)

StepsSoFar == {Script[i] : i \in 1 .. cursor}

\* A poller about to publish carries a step already taken; one that publishes the last step,
\* or has, knows that none is left.
CarriesAStep ==
  \A t \in Pollers :
    /\ poller[t] \in {"publish", "publishLast"} => next[t] \in StepsSoFar /\ Script # <<>>
    /\ poller[t] \in {"publishLast", "finish"} => cursor = Len(Script)

\* A poller that samples the desktop does so after the script.
CarriesASample ==
  \A t \in Pollers :
    /\ poller[t] \in {"sample", "publishHost"} => ~ScriptOwnsPad
    /\ poller[t] = "publishHost" => next[t] \in DesktopStates \union {Neutral}

\* Only a script with no step left lets go of the pad.
Settled == scriptFinished => cursor = Len(Script)

Arbitration == PadTypeOK /\ CarriesAStep /\ CarriesASample /\ Settled /\ ScriptIsUndisturbed

-----------------------------------------------------------------------------
\* A sequence holds its own states.
LEMMA StepIsState == \A i \in 1 .. Len(Script) : Script[i] \in ScriptStates
BY ScriptAssumption DEF ScriptStates

\* The script is as long as its domain says, and not empty if it has a step.
LEMMA ScriptLength == Len(Script) \in Nat /\ (Script = <<>> => Len(Script) = 0)
BY ScriptAssumption

\* Publishing a pad state keeps the pad's type.
LEMMA PublishType ==
  ASSUME pad \in PadStates, packet \in Nat, NEW state \in PadStates, PublishLocked(state)
  PROVE  pad' \in PadStates /\ packet' \in Nat
BY DEF PublishLocked

\* Before anything has happened nobody carries anything.
LEMMA ArbitrationInit == PadInit => Arbitration
<1> SUFFICES ASSUME PadInit PROVE Arbitration
  OBVIOUS
<1>1. Neutral \in PadStates
  BY DEF PadStates
<1>2. due \in 0 .. Len(Script) /\ cursor \in 0 .. due /\ inputs \in 0 .. MaxInputs
  BY ScriptLength, MaxInputsAssumption DEF PadInit
<1>3. seen \in [Pollers -> [packet : Nat, pad : PadStates]] /\ next \in [Pollers -> PadStates]
  BY <1>1 DEF PadInit
<1>4. PadTypeOK
  BY <1>1, <1>2, <1>3 DEF PadInit, PadTypeOK
<1> QED
  BY <1>4 DEF PadInit, Arbitration, CarriesAStep, CarriesASample, Settled, ScriptIsUndisturbed

\* A step of a poll keeps the arbitration.
LEMMA PollKeepsArbitration ==
  ASSUME Arbitration, NEW t \in Pollers, Poll(t)
  PROVE  Arbitration'
<1> USE DEF Arbitration
<1>1. CASE TakeSteps(t)
  <2>1. CASE cursor < due
    <3>1. /\ cursor' = due /\ due \in 1 .. Len(Script) /\ cursor \in 0 .. due
          /\ next' = [next EXCEPT ![t] = Script[due]]
          /\ UNCHANGED <<padVars, scriptFinished, seen, worldVars>>
      BY <1>1, <2>1, ScriptLength DEF TakeSteps, StepsTaken, PadTypeOK
    <3>2. poller' = [poller EXCEPT ![t] = IF due = Len(Script) THEN "publishLast" ELSE "publish"]
      BY <1>1, <2>1 DEF TakeSteps, LastStep
    <3>3. Script[due] \in PadStates /\ Script # <<>> /\ ~scriptFinished
      BY <3>1, <2>1, StepIsState, ScriptLength DEF PadStates, Settled, PadTypeOK
    <3>4. PadTypeOK'
      BY <3>1, <3>2, <3>3, ScriptLength DEF PadTypeOK, padVars, worldVars
    <3>5. StepsSoFar \subseteq StepsSoFar' /\ Script[due] \in StepsSoFar'
      BY <3>1, ScriptLength DEF StepsSoFar
    <3>6. CarriesAStep'
      BY <3>1, <3>2, <3>3, <3>5, <2>1, ScriptLength DEF CarriesAStep, PadTypeOK
    <3>7. CarriesASample' /\ Settled'
      BY <3>1, <3>2, <3>3 DEF CarriesASample, Settled, PadTypeOK, ScriptOwnsPad
    <3>8. ScriptIsUndisturbed'
      BY <3>1, <3>5 DEF ScriptIsUndisturbed, ScriptOwnsPad, StepsSoFar, padVars
    <3> QED
      BY <3>4, <3>6, <3>7, <3>8
  <2>2. CASE ~(cursor < due)
    <3>1. poller' = [poller EXCEPT ![t] = "arbitrate"]
          /\ UNCHANGED <<padVars, scriptVars, next, seen, worldVars>>
      BY <1>1, <2>2 DEF TakeSteps, scriptVars
    <3> QED
      BY <3>1 DEF PadTypeOK, CarriesAStep, CarriesASample, Settled, ScriptIsUndisturbed,
         ScriptOwnsPad, StepsSoFar, padVars, scriptVars, worldVars
  <2> QED
    BY <2>1, <2>2
<1>2. CASE PublishStep(t)
  <2>1. /\ PublishLocked(next[t]) /\ next[t] \in StepsSoFar /\ next[t] \in PadStates
        /\ poller' = [poller EXCEPT ![t] = IF poller[t] = "publishLast" THEN "finish"
                                           ELSE "arbitrate"]
        /\ UNCHANGED <<remoteActive, scriptVars, next, seen, worldVars>>
    BY <1>2 DEF PublishStep, CarriesAStep, PadTypeOK
  <2>2. pad' = next[t] /\ pad' \in PadStates /\ packet' \in Nat
    BY <2>1, PublishType DEF PublishLocked, PadTypeOK
  <2>3. PadTypeOK'
    BY <2>1, <2>2 DEF PadTypeOK, scriptVars, worldVars
  <2>4. CarriesAStep' /\ CarriesASample' /\ Settled'
    BY <2>1 DEF PadTypeOK, CarriesAStep, CarriesASample, Settled, ScriptOwnsPad, StepsSoFar,
       scriptVars
  <2>5. ScriptIsUndisturbed'
    BY <2>1, <2>2 DEF ScriptIsUndisturbed, ScriptOwnsPad, StepsSoFar, scriptVars
  <2> QED
    BY <2>3, <2>4, <2>5
<1>3. CASE FinishScript(t)
  <2>1. /\ scriptFinished' = TRUE /\ cursor = Len(Script)
        /\ poller' = [poller EXCEPT ![t] = "arbitrate"]
        /\ UNCHANGED <<padVars, cursor, next, seen, worldVars>>
    BY <1>3 DEF FinishScript, CarriesAStep
  <2> QED
    BY <2>1 DEF PadTypeOK, CarriesAStep, CarriesASample, Settled, ScriptIsUndisturbed,
       ScriptOwnsPad, StepsSoFar, padVars, worldVars
<1>4. CASE Arbitrate(t)
  <2>1. /\ poller' = [poller EXCEPT ![t] = IF WindowOwnsPad THEN "sample" ELSE "read"]
        /\ UNCHANGED <<padVars, scriptVars, next, seen, worldVars>>
    BY <1>4 DEF Arbitrate
  <2> QED
    BY <2>1 DEF PadTypeOK, CarriesAStep, CarriesASample, Settled, ScriptIsUndisturbed,
       ScriptOwnsPad, StepsSoFar, padVars, scriptVars, worldVars, WindowOwnsPad
<1>5. CASE SampleDesktop(t)
  <2>1. /\ next' = [next EXCEPT ![t] = desktop] /\ poller[t] = "sample"
        /\ poller' = [poller EXCEPT ![t] = "publishHost"]
        /\ desktop \in PadStates /\ desktop \in DesktopStates \union {Neutral}
        /\ UNCHANGED <<padVars, scriptVars, seen, worldVars>>
    BY <1>5 DEF SampleDesktop, PadTypeOK, PadStates
  <2> QED
    BY <2>1 DEF PadTypeOK, CarriesAStep, CarriesASample, Settled, ScriptIsUndisturbed,
       ScriptOwnsPad, StepsSoFar, padVars, scriptVars, worldVars
<1>6. CASE PublishHost(t)
  <2>1. /\ poller' = [poller EXCEPT ![t] = "read"] /\ ~ScriptOwnsPad
        /\ UNCHANGED <<remoteActive, scriptVars, next, seen, worldVars>>
    BY <1>6 DEF PublishHost, CarriesASample
  <2>2. pad' \in PadStates /\ packet' \in Nat
    BY <1>6, PublishType DEF PublishHost, PadTypeOK
  <2> QED
    BY <2>1, <2>2 DEF PadTypeOK, CarriesAStep, CarriesASample, Settled, ScriptIsUndisturbed,
       ScriptOwnsPad, StepsSoFar, scriptVars, worldVars
<1>7. CASE ReadPadSnapshot(t)
  <2>1. /\ seen' = [seen EXCEPT ![t] = [packet |-> packet, pad |-> pad]]
        /\ poller' = [poller EXCEPT ![t] = "idle"]
        /\ next' = [next EXCEPT ![t] = Neutral] /\ Neutral \in PadStates
        /\ UNCHANGED <<padVars, scriptVars, worldVars>>
    BY <1>7 DEF ReadPadSnapshot, PadStates
  <2> QED
    BY <2>1 DEF PadTypeOK, CarriesAStep, CarriesASample, Settled, ScriptIsUndisturbed,
       ScriptOwnsPad, StepsSoFar, padVars, scriptVars, worldVars
<1> QED
  BY <1>1, <1>2, <1>3, <1>4, <1>5, <1>6, <1>7 DEF Poll

\* A command reaches the pad only when the script does not own it.
LEMMA CommandKeepsArbitration ==
  ASSUME Arbitration, NEW state \in RemoteStates \union {Neutral}, Command(state),
         ~ScriptOwnsPad, remoteActive' \in BOOLEAN
  PROVE  Arbitration'
<1>1. state \in PadStates
  BY DEF PadStates
<1>2. pad' \in PadStates /\ packet' \in Nat
  BY <1>1, PublishType DEF Command, Arbitration, PadTypeOK
<1>3. inputs' \in 0 .. MaxInputs /\ commanded' \in RemoteStates \union {Neutral}
  BY MaxInputsAssumption DEF Command, Arbitration, PadTypeOK
<1>4. UNCHANGED <<scriptVars, pollerVars, due, desktop>>
  BY DEF Command
<1> QED
  BY <1>2, <1>3, <1>4 DEF Arbitration, PadTypeOK, CarriesAStep, CarriesASample, Settled,
     ScriptIsUndisturbed, ScriptOwnsPad, StepsSoFar, scriptVars, pollerVars

\* Every step keeps the arbitration.
LEMMA ArbitrationStep == Arbitration /\ [PadNext]_arbiterVars => Arbitration'
<1> SUFFICES ASSUME Arbitration, [PadNext]_arbiterVars PROVE Arbitration'
  OBVIOUS
<1>1. CASE \E t \in Pollers : Poll(t)
  BY <1>1, PollKeepsArbitration
<1>2. CASE SetRemotePad
  BY <1>2, CommandKeepsArbitration DEF SetRemotePad
<1>3. remoteActive => ~ScriptOwnsPad
  BY DEF Arbitration, ScriptIsUndisturbed
<1>4. CASE ReleaseRemotePad
  <2>1. remoteActive' \in BOOLEAN
    BY <1>4 DEF ReleaseRemotePad, Arbitration, PadTypeOK
  <2> QED
    BY <1>3, <1>4, <2>1, CommandKeepsArbitration DEF ReleaseRemotePad
<1>5. CASE DisconnectRemotePad
  BY <1>3, <1>5, CommandKeepsArbitration DEF DisconnectRemotePad
<1>6. CASE StepComesDue
  <2>1. due' \in 0 .. Len(Script) /\ cursor' = cursor /\ cursor \in 0 .. due'
    BY <1>6, ScriptLength DEF StepComesDue, Arbitration, PadTypeOK, scriptVars
  <2>2. UNCHANGED <<padVars, scriptVars, pollerVars, desktop, inputs, commanded>>
    BY <1>6 DEF StepComesDue
  <2> QED
    BY <2>1, <2>2 DEF Arbitration, PadTypeOK, CarriesAStep, CarriesASample, Settled,
       ScriptIsUndisturbed, ScriptOwnsPad, StepsSoFar, padVars, scriptVars, pollerVars
<1>7. CASE DesktopChanges
  <2>1. /\ inputs' \in 0 .. MaxInputs /\ desktop' \in DesktopStates \union {Neutral}
        /\ UNCHANGED <<padVars, scriptVars, pollerVars, due, commanded>>
    BY <1>7, MaxInputsAssumption DEF DesktopChanges, Arbitration, PadTypeOK
  <2> QED
    BY <2>1 DEF Arbitration, PadTypeOK, CarriesAStep, CarriesASample, Settled,
       ScriptIsUndisturbed, ScriptOwnsPad, StepsSoFar, padVars, scriptVars, pollerVars
<1>8. CASE UNCHANGED arbiterVars
  BY <1>8 DEF Arbitration, PadTypeOK, CarriesAStep, CarriesASample, Settled, arbiterVars,
     ScriptIsUndisturbed, ScriptOwnsPad, StepsSoFar, padVars, scriptVars, pollerVars, worldVars
<1> QED
  BY <1>1, <1>2, <1>4, <1>5, <1>6, <1>7, <1>8 DEF PadNext

\* The arbitration holds in every reachable state.
LEMMA ArbitrationAlways == PadSpec => []Arbitration
BY ArbitrationInit, ArbitrationStep, PTL DEF PadSpec

\* Until the script has finished nobody else owns the pad and the pad shows a step already
\* taken, however many threads poll.
THEOREM ScriptRunsAlone == PadSpec => []ScriptIsUndisturbed
<1>1. Arbitration => ScriptIsUndisturbed
  BY DEF Arbitration
<1> QED
  BY <1>1, ArbitrationAlways, PTL

\* Every variable has its type, and no step is taken before its time.
THEOREM PadTypeCorrect == PadSpec => []PadTypeOK
<1>1. Arbitration => PadTypeOK
  BY DEF Arbitration
<1> QED
  BY <1>1, ArbitrationAlways, PTL

-----------------------------------------------------------------------------
\* The five things a step may do to the pad; every action is one of them.
ScriptWrites ==
  /\ \E t \in Pollers : poller[t] \in {"publish", "publishLast"}
  /\ \E state \in ScriptStates : PublishLocked(state)
  /\ UNCHANGED <<remoteActive, commanded, seen>>

DesktopWrites ==
  /\ ~remoteActive
  /\ \E state \in DesktopStates \union {Neutral} : PublishLocked(state)
  /\ UNCHANGED <<remoteActive, commanded, seen>>

RemoteWrites ==
  /\ PublishLocked(commanded')
  /\ remoteActive' = TRUE
  /\ UNCHANGED seen

RemoteLeaves ==
  /\ PublishLocked(Neutral)
  /\ remoteActive' = FALSE
  /\ UNCHANGED seen

NobodyWrites ==
  /\ \/ UNCHANGED seen
     \/ \E t \in Pollers : seen' = [seen EXCEPT ![t] = [packet |-> packet, pad |-> pad]]
  /\ UNCHANGED <<pad, packet, remoteActive, commanded>>

\* A poll writes the pad for the script or, if no remote controller is connected, for the
\* desktop.
LEMMA PollWrites ==
  ASSUME Arbitration, NEW t \in Pollers, Poll(t)
  PROVE  ScriptWrites \/ DesktopWrites \/ NobodyWrites
<1>1. CASE TakeSteps(t) \/ FinishScript(t) \/ Arbitrate(t) \/ SampleDesktop(t)
  BY <1>1 DEF TakeSteps, FinishScript, Arbitrate, SampleDesktop, NobodyWrites, padVars, worldVars
<1>2. CASE PublishStep(t)
  <2>1. \A i \in 1 .. cursor : Script[i] \in ScriptStates
    BY StepIsState, ScriptLength DEF Arbitration, PadTypeOK
  <2>2. next[t] \in ScriptStates
    BY <1>2, <2>1 DEF PublishStep, Arbitration, CarriesAStep, StepsSoFar
  <2> QED
    BY <1>2, <2>2 DEF PublishStep, ScriptWrites, worldVars
<1>3. CASE PublishHost(t)
  <2>1. next[t] \in DesktopStates \union {Neutral}
    BY <1>3 DEF PublishHost, Arbitration, CarriesASample
  <2> QED
    BY <1>3, <2>1 DEF PublishHost, DesktopWrites, NobodyWrites, worldVars
<1>4. CASE ReadPadSnapshot(t)
  BY <1>4 DEF ReadPadSnapshot, NobodyWrites, padVars, worldVars
<1> QED
  BY <1>1, <1>2, <1>3, <1>4 DEF Poll

\* A step writes the pad in one of the five ways.
LEMMA StepWrites ==
  ASSUME Arbitration, [PadNext]_arbiterVars
  PROVE  ScriptWrites \/ DesktopWrites \/ RemoteWrites \/ RemoteLeaves \/ NobodyWrites
<1>1. CASE \E t \in Pollers : Poll(t)
  BY <1>1, PollWrites
<1>2. CASE SetRemotePad \/ ReleaseRemotePad
  BY <1>2 DEF SetRemotePad, ReleaseRemotePad, Command, RemoteWrites, pollerVars, Arbitration, PadTypeOK
<1>3. CASE DisconnectRemotePad
  BY <1>3 DEF DisconnectRemotePad, Command, RemoteLeaves, pollerVars
<1>4. CASE StepComesDue \/ DesktopChanges \/ UNCHANGED arbiterVars
  BY <1>4 DEF StepComesDue, DesktopChanges, arbiterVars, NobodyWrites, padVars, pollerVars, worldVars
<1> QED
  BY <1>1, <1>2, <1>3, <1>4 DEF PadNext

-----------------------------------------------------------------------------
\* A desktop sample taken before the remote controller took the pad does not overwrite its
\* command.
THEOREM StaleSampleIsDropped == PadSpec => []DesktopYieldsToRemote
<1>1. PadInit => DesktopYieldsToRemote
  BY DEF PadInit, DesktopYieldsToRemote
<1>2. Arbitration /\ DesktopYieldsToRemote /\ [PadNext]_arbiterVars => DesktopYieldsToRemote'
  BY StepWrites DEF DesktopYieldsToRemote, ScriptWrites, DesktopWrites, RemoteWrites,
     RemoteLeaves, NobodyWrites, PublishLocked
<1> QED
  BY <1>1, <1>2, ArbitrationAlways, PTL DEF PadSpec

\* A disconnected remote controller leaves no control held down, if its states can be told
\* from the others.
THEOREM DisconnectReleases ==
  ASSUME RemoteStates \intersect (ScriptStates \union DesktopStates \union {Neutral}) = {}
  PROVE  PadSpec => []NoRemoteResidue
<1>1. PadInit => NoRemoteResidue
  BY DEF PadInit, NoRemoteResidue
<1>2. Arbitration /\ NoRemoteResidue /\ [PadNext]_arbiterVars => NoRemoteResidue'
  BY StepWrites DEF NoRemoteResidue, ScriptWrites, DesktopWrites, RemoteWrites,
     RemoteLeaves, NobodyWrites, PublishLocked
<1> QED
  BY <1>1, <1>2, ArbitrationAlways, PTL DEF PadSpec

\* The pad shows the remote controller's commands for as long as it is connected.
THEOREM RemoteRules ==
  ASSUME RemoteStates \intersect (ScriptStates \union DesktopStates \union {Neutral}) = {}
  PROVE  PadSpec => []RemoteHoldsPad
<1>1. DesktopYieldsToRemote /\ NoRemoteResidue => RemoteHoldsPad
  BY DEF RemoteHoldsPad
<1> QED
  BY <1>1, StaleSampleIsDropped, DisconnectReleases, PTL

\* A packet number read is one published, and it names one state.
NumbersName ==
  \A t \in Pollers : seen[t].packet <= packet /\ (seen[t].packet = packet => seen[t].pad = pad)

\* A thread that reads the packet number it read before sees the state it saw before.
THEOREM PacketNumbersNameStates == PadSpec => []PacketNamesState
<1>1. PadInit => NumbersName
  <2> SUFFICES ASSUME PadInit, NEW t \in Pollers
               PROVE  seen[t].packet <= packet /\ (seen[t].packet = packet => seen[t].pad = pad)
    BY DEF NumbersName
  <2>1. seen[t] = [packet |-> 0, pad |-> Neutral]
    BY DEF PadInit
  <2>2. seen[t].packet = 0 /\ seen[t].pad = Neutral /\ packet = 0 /\ pad = Neutral
    BY <2>1 DEF PadInit
  <2> QED
    BY <2>2
<1>2. Arbitration /\ NumbersName /\ [PadNext]_arbiterVars => NumbersName'
  <2> SUFFICES ASSUME Arbitration, NumbersName, [PadNext]_arbiterVars PROVE NumbersName'
    OBVIOUS
  <2>1. packet \in Nat /\ seen \in [Pollers -> [packet : Nat, pad : PadStates]]
    BY DEF Arbitration, PadTypeOK
  <2>2. CASE NobodyWrites
    BY <2>1, <2>2 DEF NobodyWrites, NumbersName
  <2>3. ASSUME NEW state, PublishLocked(state), UNCHANGED seen PROVE NumbersName'
    BY <2>1, <2>3 DEF PublishLocked, NumbersName
  <2> QED
    BY <2>2, <2>3, StepWrites DEF ScriptWrites, DesktopWrites, RemoteWrites, RemoteLeaves
<1>3. NumbersName => PacketNamesState
  BY DEF NumbersName, PacketNamesState
<1> QED
  BY <1>1, <1>2, <1>3, ArbitrationAlways, PTL DEF PadSpec

-----------------------------------------------------------------------------
\* Once the script has let go of the pad no poller carries one of its steps.
NothingLeftToPublish ==
  ~ScriptOwnsPad => \A t \in Pollers : poller[t] \notin {"publish", "publishLast"}

\* With one polling thread the finished script has nothing left to publish.
LEMMA OnePollerDrains ==
  ASSUME \A t, u \in Pollers : t = u,
         Arbitration, NothingLeftToPublish, [PadNext]_arbiterVars
  PROVE  NothingLeftToPublish'
<1>1. ASSUME NEW t \in Pollers, Poll(t) PROVE NothingLeftToPublish'
  <2>1. CASE TakeSteps(t)
    <3>1. cursor < due => ~scriptFinished /\ Script # <<>>
      BY ScriptLength DEF Arbitration, PadTypeOK, Settled
    <3> QED
      BY <2>1, <3>1 DEF TakeSteps, LastStep, NothingLeftToPublish, ScriptOwnsPad,
         Arbitration, PadTypeOK, scriptVars
  <2>2. CASE ~TakeSteps(t)
    BY <1>1, <2>2 DEF Poll, PublishStep, FinishScript, Arbitrate, SampleDesktop, PublishHost,
       ReadPadSnapshot, NothingLeftToPublish, ScriptOwnsPad, Arbitration, PadTypeOK, scriptVars
  <2> QED
    BY <2>1, <2>2
<1>2. CASE UNCHANGED <<scriptVars, pollerVars>>
  BY <1>2 DEF NothingLeftToPublish, ScriptOwnsPad, scriptVars, pollerVars
<1>3. (\E t \in Pollers : Poll(t)) \/ UNCHANGED <<scriptVars, pollerVars>>
  BY DEF PadNext, SetRemotePad, ReleaseRemotePad, DisconnectRemotePad, Command, StepComesDue,
     DesktopChanges, arbiterVars
<1> QED
  BY <1>1, <1>2, <1>3

\* The script never overwrites the remote controller if a single thread polls: it is the
\* second poller that lets a late step land on a command.
THEOREM OnePollerKeepsTheRemotePad ==
  ASSUME \A t, u \in Pollers : t = u
  PROVE  PadSpec => []RemoteKeepsPad
<1>1. PadInit => NothingLeftToPublish /\ RemoteKeepsPad
  BY DEF PadInit, NothingLeftToPublish, RemoteKeepsPad
<1>2. Arbitration /\ NothingLeftToPublish /\ [PadNext]_arbiterVars => NothingLeftToPublish'
  BY OnePollerDrains
<1>3. Arbitration /\ NothingLeftToPublish /\ RemoteKeepsPad /\ [PadNext]_arbiterVars => RemoteKeepsPad'
  <2>1. Arbitration => (remoteActive => ~ScriptOwnsPad)
    BY DEF Arbitration, ScriptIsUndisturbed
  <2> QED
    BY <2>1, StepWrites DEF RemoteKeepsPad, NothingLeftToPublish, ScriptWrites, DesktopWrites,
       RemoteWrites, RemoteLeaves, NobodyWrites, PublishLocked
<1> QED
  BY <1>1, <1>2, <1>3, ArbitrationAlways, PTL DEF PadSpec

-----------------------------------------------------------------------------
(* The script hands the pad over: what stands behind ScriptHandsOver *)

\* Once its last step has been taken, the script has let go of the pad, or the poller that took
\* that step is about to publish it and declare the script finished.
HandsOver ==
  cursor = Len(Script) /\ ScriptOwnsPad
    => \E t \in Pollers : poller[t] \in {"publishLast", "finish"}

LEMMA HandsOverKept == Arbitration /\ HandsOver /\ [PadNext]_arbiterVars => HandsOver'
<1> SUFFICES ASSUME Arbitration, HandsOver, [PadNext]_arbiterVars PROVE HandsOver'
  OBVIOUS
<1>1. ASSUME NEW t \in Pollers, Poll(t) PROVE HandsOver'
  <2>1. poller \in [Pollers -> {"idle", "publish", "publishLast", "finish", "arbitrate", "sample",
                               "publishHost", "read"}]
    BY DEF Arbitration, PadTypeOK
  <2>2. CASE TakeSteps(t)
    BY <2>1, <2>2 DEF TakeSteps, StepsTaken, LastStep, HandsOver, ScriptOwnsPad
  <2>3. CASE PublishStep(t)
    BY <2>1, <2>3 DEF PublishStep, HandsOver, ScriptOwnsPad, scriptVars
  <2>4. CASE FinishScript(t)
    BY <2>4 DEF FinishScript, HandsOver, ScriptOwnsPad
  <2>5. CASE Arbitrate(t) \/ SampleDesktop(t) \/ PublishHost(t) \/ ReadPadSnapshot(t)
    <3>1. /\ poller[t] \notin {"publishLast", "finish"} /\ UNCHANGED scriptVars
          /\ \A u \in Pollers \ {t} : poller'[u] = poller[u]
      BY <2>1, <2>5 DEF Arbitrate, SampleDesktop, PublishHost, ReadPadSnapshot
    <3> QED
      BY <3>1 DEF HandsOver, ScriptOwnsPad, scriptVars
  <2> QED
    BY <1>1, <2>2, <2>3, <2>4, <2>5 DEF Poll
<1>2. CASE UNCHANGED <<scriptVars, pollerVars>>
  BY <1>2 DEF HandsOver, ScriptOwnsPad, scriptVars, pollerVars
<1>3. (\E t \in Pollers : Poll(t)) \/ UNCHANGED <<scriptVars, pollerVars>>
  BY DEF PadNext, SetRemotePad, ReleaseRemotePad, DisconnectRemotePad, Command, StepComesDue,
     DesktopChanges, arbiterVars
<1> QED
  BY <1>1, <1>2, <1>3

\* A script never keeps the pad with nobody left to end it, however many of its steps one poll
\* takes and whichever threads poll: the next steps of the poll that took the last step let go
\* (UpdateScriptedInput).
THEOREM TheScriptIsEnded == PadSpec => []HandsOver
<1>1. PadInit => HandsOver
  BY ScriptAssumption DEF PadInit, HandsOver, ScriptOwnsPad
<1> QED
  BY <1>1, HandsOverKept, ArbitrationAlways, PTL DEF PadSpec

-----------------------------------------------------------------------------
(* The audio decoder's slot *)

\* What a thread may be doing.
Kick ==
  [at : {"idle", "kicked", "clear", "working", "storing", "draining", "clearing"},
   decoder : Decoders \union {NoDecoder}, data : Context, initial : Context,
   position : 0 .. Blocks - 1, room : 0 .. Blocks, wrote : SUBSET (0 .. Blocks - 1),
   drops : BOOLEAN]

\* A thread that rests holds nothing, one that does not has its decoder; a pass has room.
KickShape(w) ==
  /\ w \in Kick
  /\ IF w.at = "idle" THEN w = AtRest ELSE w.decoder \in Decoders
  /\ w.at = "working" => w.room >= Minimum
  /\ w.at = "clearing" => w.data.offset = 0 /\ \A b \in Inputs : ~w.data.valid[b]

SlotShape ==
  /\ stream \in 0 .. MaxStreams /\ inUse \in BOOLEAN /\ slot \in Context
  /\ decoder \in Decoders \union {NoDecoder}
  /\ tail \in [Inputs -> TailForms] /\ bufferOf \in [Inputs -> 0 .. MaxStreams]
  /\ unread \subseteq 0 .. Blocks - 1
  /\ strayed \in BOOLEAN /\ overran \in BOOLEAN

DecoderShape ==
  /\ pending \in [Decoders -> 0 .. FrameBlocks] /\ frameOf \in [Decoders -> 0 .. MaxStreams]
  /\ undecoded \in [Inputs -> 0 .. Spoilt]

KicksShape ==
  /\ kick \in [Kickers -> Kick]
  /\ \A k \in Kickers : KickShape(kick[k])

XmaShape == SlotShape /\ DecoderShape /\ KicksShape

-----------------------------------------------------------------------------
\* The constants.
LEMMA XmaNumbers ==
  /\ Blocks \in Nat \ {0} /\ PassBlocks \in Nat \ {0} /\ FrameBlocks \in Nat \ {0}
  /\ BufferFrames \in Nat \ {0} /\ MaxStreams \in Nat \ {0} /\ Padding \in Nat
  /\ Minimum \in Nat \ {0} /\ PassBlocks <= Minimum
  /\ Inputs = {0, 1}
BY XmaAssumption DEF Minimum, Inputs

\* Places of the ring.
LEMMA AfterIs ==
  ASSUME NEW p \in 0 .. (Blocks - 1), NEW n \in 0 .. Blocks
  PROVE  /\ After(p, n) \in 0 .. (Blocks - 1)
         /\ After(p, n) = IF p + n < Blocks THEN p + n ELSE p + n - Blocks
<1>1. Blocks \in Nat \ {0}
  BY XmaNumbers
<1>2. p + n \in Nat /\ p + n < 2 * Blocks
  BY <1>1
<1>3. ASSUME NEW x \in Nat, x < 2 * Blocks
      PROVE  x % Blocks = IF x < Blocks THEN x ELSE x - Blocks
  BY <1>1, <1>3
<1> QED
  BY <1>1, <1>2, <1>3 DEF After

LEMMA SpanWithin ==
  ASSUME NEW p \in 0 .. (Blocks - 1), NEW n \in 0 .. Blocks
  PROVE  Span(p, n) \subseteq 0 .. (Blocks - 1)
<1>1. \A i \in 0 .. (n - 1) : i \in 0 .. Blocks
  BY XmaNumbers
<1> QED
  BY <1>1, AfterIs DEF Span

LEMMA RoomIs ==
  ASSUME NEW c \in Context
  PROVE  /\ Room(c) \in 1 .. Blocks
         /\ c.read = c.write => Room(c) = Blocks
         /\ c.read # c.write =>
              Room(c) = IF c.write < c.read THEN c.read - c.write ELSE c.read + Blocks - c.write
<1>1. Blocks \in Nat \ {0} /\ c.read \in 0 .. (Blocks - 1) /\ c.write \in 0 .. (Blocks - 1)
  BY XmaNumbers DEF Context
<1> DEFINE x == c.read + Blocks - c.write
<1>2. x \in Nat /\ x < 2 * Blocks
  BY <1>1
<1>3. x % Blocks = IF x < Blocks THEN x ELSE x - Blocks
  <2> HIDE DEF x
  <2> QED
    BY <1>1, <1>2
<1> QED
  BY <1>1, <1>3 DEF Room

LEMMA PassIs ==
  ASSUME NEW p \in 0 .. FrameBlocks
  PROVE  AtMostAPass(p) \in 0 .. p /\ AtMostAPass(p) <= PassBlocks
BY XmaNumbers DEF AtMostAPass

-----------------------------------------------------------------------------
(* The contexts the decoder makes of a context *)

LEMMA ContextFields ==
  ASSUME NEW c \in Context
  PROVE  /\ c.valid \in [Inputs -> BOOLEAN] /\ c.counted \in BOOLEAN /\ c.current \in Inputs
         /\ c.offset \in 0 .. (BufferFrames - 1)
         /\ c.write \in 0 .. (Blocks - 1) /\ c.read \in 0 .. (Blocks - 1)
         /\ c.out \in BOOLEAN /\ c.error \in BOOLEAN
         /\ 1 - c.current \in Inputs
BY DEF Context, Inputs

LEMMA ZeroedIs == Zeroed \in Context
BY XmaNumbers DEF Zeroed, Context

LEMMA SwapIs ==
  ASSUME NEW c \in Context
  PROVE  /\ Swap(c) \in Context
         /\ Swap(c).valid = [c.valid EXCEPT ![c.current] = FALSE]
         /\ Swap(c).current = 1 - c.current /\ Swap(c).offset = 0
         /\ Swap(c).read = c.read /\ Swap(c).write = c.write /\ Swap(c).out = c.out
         /\ Swap(c).error = c.error
<1>1. c.current \in Inputs /\ 1 - c.current \in Inputs /\ 0 \in 0 .. (BufferFrames - 1)
  BY ContextFields, XmaNumbers
<1> QED
  BY <1>1 DEF Swap, Context

LEMMA ChosenIs ==
  ASSUME NEW c \in Context
  PROVE  /\ Chosen(c) \in Context
         /\ Chosen(c).read = c.read /\ Chosen(c).write = c.write /\ Chosen(c).out = c.out
         /\ Chosen(c) = c \/ (~c.valid[c.current] /\ Chosen(c) = Swap(c))
BY SwapIs DEF Chosen

LEMMA DecodedIs ==
  ASSUME NEW c \in Context
  PROVE  /\ Decoded(c) \in Context
         /\ Decoded(c).read = c.read /\ Decoded(c).write = c.write /\ Decoded(c).out = c.out
         /\ \/ ~IsLast(c) /\ Decodes(c) /\ Decoded(c) = [c EXCEPT !.offset = @ + 1]
            \/ IsLast(c) /\ Decodes(c) /\ Decoded(c) = Swap(c)
            \/ IsLast(c) /\ ~Decodes(c) /\ tail[c.current] = "split header" /\ Decoded(c) = Swap(c)
            \/ IsLast(c) /\ ~Decodes(c) /\ Decoded(c) = [c EXCEPT !.error = TRUE]
<1>1. CASE ~IsLast(c)
  <2>1. c.offset + 1 \in 0 .. (BufferFrames - 1)
    BY <1>1, ContextFields, XmaNumbers DEF IsLast
  <2>2. Decoded(c) = [c EXCEPT !.offset = @ + 1]
    BY <1>1 DEF Decoded
  <2> QED
    BY <1>1, <2>1, <2>2 DEF Context, Decodes
<1>2. CASE IsLast(c) /\ CanContinue(c)
  BY <1>2, SwapIs DEF Decoded, Decodes
<1>3. CASE IsLast(c) /\ ~CanContinue(c) /\ tail[c.current] = "split header"
  BY <1>3, SwapIs DEF Decoded, Decodes
<1>4. CASE IsLast(c) /\ ~CanContinue(c) /\ tail[c.current] # "split header"
  <2>1. Decoded(c) = [c EXCEPT !.error = TRUE]
    BY <1>4 DEF Decoded
  <2> QED
    BY <1>4, <2>1 DEF Context, Decodes
<1> QED
  BY <1>1, <1>2, <1>3, <1>4

LEMMA FinishedIs ==
  ASSUME NEW data \in Context, NEW initial \in Context, NEW position \in 0 .. (Blocks - 1),
         NEW room
  PROVE  LET c == Finished(data, initial, position, room)
         IN  /\ c \in Context
             /\ c.valid = data.valid /\ c.current = data.current /\ c.offset = data.offset
             /\ c.read = data.read
             /\ c.write = IF Any(initial) THEN position
                          ELSE IF Starved(initial) THEN data.read ELSE data.write
             /\ c.out <=> (data.out /\ ~Starved(initial) /\ ~(room = 0 /\ position = data.read))
<1> DEFINE write == CASE Any(initial) -> position [] Starved(initial) -> data.read
                      [] OTHER -> data.write
           out == data.out /\ ~Starved(initial) /\ ~(room = 0 /\ position = data.read)
<1>1. write = IF Any(initial) THEN position
              ELSE IF Starved(initial) THEN data.read ELSE data.write
  BY DEF Starved
<1>2. write \in 0 .. (Blocks - 1) /\ out \in BOOLEAN
  BY <1>1, ContextFields
<1>3. Finished(data, initial, position, room) = [data EXCEPT !.write = write, !.out = out]
  BY DEF Finished
<1> HIDE DEF write, out
<1>4. LET c == Finished(data, initial, position, room)
      IN  /\ c \in Context
          /\ c.valid = data.valid /\ c.current = data.current /\ c.offset = data.offset
          /\ c.read = data.read /\ c.write = write /\ c.out = out
  BY <1>2, <1>3 DEF Context
<1> QED
  BY <1>1, <1>4 DEF out

LEMMA MergedIs ==
  ASSUME NEW data \in Context, NEW initial \in Context, NEW fresh \in Context
  PROVE  LET c == Merged(data, initial, fresh)
         IN  /\ c \in Context
             /\ c.current = data.current /\ c.offset = data.offset
             /\ c.read = data.read /\ c.write = data.write
             /\ c.out <=> (fresh.out /\ ~(initial.out /\ ~data.out))
             /\ \A b \in Inputs :
                  c.valid[b] <=> (fresh.valid[b] /\ ~(initial.valid[b] /\ ~data.valid[b]))
<1> DEFINE valid == [b \in Inputs |-> fresh.valid[b] /\ ~(initial.valid[b] /\ ~data.valid[b])]
           out == fresh.out /\ ~(initial.out /\ ~data.out)
<1>1. valid \in [Inputs -> BOOLEAN] /\ out \in BOOLEAN
  OBVIOUS
<1>2. Merged(data, initial, fresh) =
        [fresh EXCEPT !.write = data.write, !.valid = valid, !.out = out,
                      !.offset = data.offset, !.error = data.error, !.current = data.current,
                      !.read = data.read]
  BY DEF Merged
<1>3. \A b \in Inputs :
        valid[b] <=> (fresh.valid[b] /\ ~(initial.valid[b] /\ ~data.valid[b]))
  OBVIOUS
<1> HIDE DEF valid, out
<1>4. LET c == Merged(data, initial, fresh)
      IN  /\ c \in Context
          /\ c.current = data.current /\ c.offset = data.offset
          /\ c.read = data.read /\ c.write = data.write /\ c.out = out /\ c.valid = valid
  BY <1>1, <1>2, ContextFields DEF Context
<1> QED
  BY <1>3, <1>4 DEF out

LEMMA MergedValid ==
  ASSUME NEW data \in Context, NEW initial \in Context, NEW fresh \in Context, NEW b \in Inputs
  PROVE  Merged(data, initial, fresh).valid[b] <=>
           (fresh.valid[b] /\ ~(initial.valid[b] /\ ~data.valid[b]))
BY MergedIs, Zenon

LEMMA MergedRing ==
  ASSUME NEW data \in Context, NEW initial \in Context, NEW fresh \in Context
  PROVE  /\ Merged(data, initial, fresh).read = data.read
         /\ Merged(data, initial, fresh).write = data.write
         /\ Merged(data, initial, fresh).out => data.out \/ ~initial.out
BY MergedIs

-----------------------------------------------------------------------------
(* A pass of Work, in parts *)

Takes(w) == Any(w.data) /\ pending[w.decoder] = 0
TakesFrame(w) == Takes(w) /\ Decodes(Chosen(w.data))
PassData(w) == IF Takes(w) THEN Decoded(Chosen(w.data)) ELSE w.data
PassLeft(w, made) == IF TakesFrame(w) /\ made THEN FrameBlocks ELSE pending[w.decoder]

\* What a kick is after a pass that wrote n blocks and left room for `room`.
PassedOn(w, n, room, done) ==
  LET position == After(w.position, n)
      wrote == w.wrote \union Span(w.position, n) IN
  [w EXCEPT !.at = IF done THEN "storing" ELSE "working",
            !.data = IF done THEN Finished(PassData(w), w.initial, position, room)
                     ELSE PassData(w),
            !.position = position, !.room = room,
            !.wrote = IF done /\ ~Any(w.initial) THEN {} ELSE wrote,
            !.drops = done /\ Starved(w.initial)]

\* The step: blocks of the frame, old or new, go to the ring as far as a pass goes.
PassTaken(k, p, n, room, done) ==
  LET w == kick[k] IN
  /\ n = AtMostAPass(p)
  /\ room = w.room - n - (IF p > 0 /\ p = n THEN Padding ELSE 0)
  /\ ~done => ~(room < Minimum)
  /\ pending' = [pending EXCEPT ![w.decoder] = p - n]
  /\ frameOf' = [frameOf EXCEPT ![w.decoder] =
       IF p = n THEN 0
       ELSE IF TakesFrame(w) THEN bufferOf[Chosen(w.data).current] ELSE frameOf[w.decoder]]
  /\ undecoded' = IF TakesFrame(w)
                  THEN [undecoded EXCEPT ![Chosen(w.data).current] = Due(Chosen(w.data))]
                  ELSE undecoded
  /\ kick' = [kick EXCEPT ![k] = PassedOn(w, n, room, done)]
  /\ UNCHANGED <<stream, inUse, slot, decoder, tail, bufferOf, unread, strayed, overran>>

LEMMA WorkPassIs ==
  ASSUME NEW k \in Kickers, NEW made \in BOOLEAN, WorkPass(k, made)
  PROVE  /\ kick[k].at = "working"
         /\ \E n, room : \E done \in BOOLEAN :
              PassTaken(k, PassLeft(kick[k], made), n, room, done)
<1> DEFINE w == kick[k]
           p == PassLeft(w, made)
           n == AtMostAPass(p)
           room == w.room - n - (IF p > 0 /\ p = n THEN Padding ELSE 0)
           data == PassData(w)
           stalled == pending[w.decoder] = 0 /\ p = n /\ data.offset = w.data.offset
           done == ~Any(data) \/ data.error \/ stalled \/ room < Minimum
<1>1. kick[k].at = "working"
  BY DEF WorkPass
<1> DEFINE frame == TakesFrame(w)
           from == IF frame THEN bufferOf[Chosen(w.data).current] ELSE frameOf[w.decoder]
           position == After(w.position, n)
           wrote == w.wrote \union Span(w.position, n)
           after == [w EXCEPT !.at = IF done THEN "storing" ELSE "working",
                             !.data = IF done THEN Finished(data, w.initial, position, room)
                                      ELSE data,
                             !.position = position, !.room = room,
                             !.wrote = IF done /\ ~Any(w.initial) THEN {} ELSE wrote,
                             !.drops = done /\ Starved(w.initial)]
<1>2. /\ ConsumeFrame(k, p, n, from)
      /\ undecoded' = IF frame
                      THEN [undecoded EXCEPT ![Chosen(w.data).current] = Due(Chosen(w.data))]
                      ELSE undecoded
      /\ kick' = [kick EXCEPT ![k] = after]
      /\ UNCHANGED <<stream, inUse, slot, decoder, tail, bufferOf, unread, strayed, overran>>
  BY Zenon DEF WorkPass, PassLeft, PassData, TakesFrame, Takes
<1>3. /\ pending' = [pending EXCEPT ![w.decoder] = p - n]
      /\ frameOf' = [frameOf EXCEPT ![w.decoder] = IF p = n THEN 0 ELSE from]
  BY <1>2, Zenon DEF ConsumeFrame
<1>4. after = PassedOn(w, n, room, done)
  BY Zenon DEF PassedOn
<1>5. done \in BOOLEAN /\ (~done => ~(room < Minimum))
  <2>1. ~done => ~(room < Minimum)
    BY Zenon
  <2>2. done \in BOOLEAN
    BY Zenon
  <2> QED
    BY <2>1, <2>2
<1> HIDE DEF done, room, n
<1>6. PassTaken(k, p, n, room, done)
  BY <1>2, <1>3, <1>4, <1>5 DEF PassTaken, n, room
<1> QED
  BY <1>1, <1>5, <1>6

-----------------------------------------------------------------------------
(* Types *)

LEMMA AtRestIs == KickShape(AtRest)
<1>1. 0 \in 0 .. (Blocks - 1) /\ 0 \in 0 .. Blocks
  BY XmaNumbers
<1> QED
  BY <1>1, ZeroedIs DEF AtRest, KickShape, Kick

\* One thread's step.
LEMMA KickSteps ==
  ASSUME KicksShape, NEW k \in Kickers, NEW w, KickShape(w), kick' = [kick EXCEPT ![k] = w]
  PROVE  KicksShape' /\ kick'[k] = w /\ \A j \in Kickers : j # k => kick'[j] = kick[j]
<1>1. w \in Kick
  BY DEF KickShape
<1> QED
  BY <1>1 DEF KicksShape

LEMMA KickFields ==
  ASSUME KicksShape, NEW k \in Kickers
  PROVE  /\ KickShape(kick[k]) /\ kick[k] \in Kick
         /\ kick[k].decoder \in Decoders \union {NoDecoder}
         /\ kick[k].data \in Context /\ kick[k].initial \in Context
         /\ kick[k].position \in 0 .. (Blocks - 1) /\ kick[k].room \in 0 .. Blocks
         /\ kick[k].wrote \in SUBSET (0 .. (Blocks - 1)) /\ kick[k].drops \in BOOLEAN
         /\ kick[k].at # "idle" => kick[k].decoder \in Decoders
         /\ kick[k].at = "idle" => kick[k] = AtRest
         /\ kick[k].at = "working" => kick[k].room >= Minimum
         /\ kick[k].at = "clearing" =>
              kick[k].data.offset = 0 /\ \A b \in Inputs : ~kick[k].data.valid[b]
<1>1. KickShape(kick[k]) /\ kick[k] \in Kick
  BY DEF KicksShape, KickShape
<1> QED
  BY <1>1 DEF KickShape, Kick

\* The threads cannot hold all decoders: a kick that needs one finds one.
LEMMA SpareDecoder ==
  ASSUME KicksShape
  PROVE  \E e \in Decoders : e \notin {kick[j].decoder : j \in Kickers} \union {decoder}
                             \/ decoder # NoDecoder
<1> SUFFICES ASSUME decoder = NoDecoder
             PROVE  \E e \in Decoders :
                      e \notin {kick[j].decoder : j \in Kickers} \union {decoder}
  <2>1. Cardinality(Kickers) \in Nat
    BY XmaAssumption, FS_CardinalityType
  <2>2. 1 \in Decoders
    BY <2>1 DEF Decoders
  <2> QED
    BY <2>2
<1> DEFINE held == {kick[j].decoder : j \in Kickers}
<1>1. IsFiniteSet(Kickers) /\ Cardinality(Kickers) \in Nat
  BY XmaAssumption, FS_CardinalityType
<1>2. IsFiniteSet(held) /\ Cardinality(held) <= Cardinality(Kickers)
  <2> DEFINE f == [j \in Kickers |-> kick[j].decoder]
  <2>1. f \in Surjection(Kickers, held)
    BY Zenon DEF Surjection
  <2> HIDE DEF f, held
  <2> QED
    BY <1>1, <2>1, FS_Surjection
<1>3. IsFiniteSet(Decoders) /\ Cardinality(Decoders) = Cardinality(Kickers) + 1
  BY <1>1, FS_Interval DEF Decoders
<1>4. ~(Decoders \subseteq held)
  BY <1>1, <1>2, <1>3, FS_Subset, FS_CardinalityType
<1>5. NoDecoder \notin Decoders
  BY <1>1 DEF Decoders, NoDecoder
<1> QED
  BY <1>4, <1>5

\* HwContext gives the thread a decoder, the slot's or one that nobody holds.
LEMMA HwContextIs ==
  ASSUME XmaShape, NEW k \in Kickers, NEW what \in {"kicked", "clear"}, HwContext(k, what)
  PROVE  \E d \in Decoders :
           /\ inUse /\ kick[k].at = "idle" /\ decoder' = d
           /\ decoder # NoDecoder => d = decoder
           /\ kick' = [kick EXCEPT ![k] = [AtRest EXCEPT !.at = what, !.decoder = d]]
           /\ pending' = IF decoder = NoDecoder THEN [pending EXCEPT ![d] = 0] ELSE pending
           /\ UNCHANGED <<stream, inUse, slot, frameOf, tail, bufferOf, undecoded, unread,
                          strayed, overran>>
<1> DEFINE held == {kick[j].decoder : j \in Kickers} \union {decoder}
           d == IF decoder # NoDecoder THEN decoder
                ELSE CHOOSE e \in Decoders : e \notin held
<1>1. /\ inUse /\ kick[k].at = "idle" /\ decoder' = d
      /\ kick' = [kick EXCEPT ![k].at = what, ![k].decoder = d]
      /\ pending' = IF decoder = NoDecoder THEN [pending EXCEPT ![d] = 0] ELSE pending
      /\ UNCHANGED <<stream, inUse, slot, frameOf, tail, bufferOf, undecoded, unread, strayed,
                     overran>>
  BY Zenon DEF HwContext
<1>2. d \in Decoders
  <2>1. CASE decoder # NoDecoder
    BY <2>1 DEF XmaShape, SlotShape
  <2>2. CASE decoder = NoDecoder
    BY <2>2, SpareDecoder, Zenon DEF XmaShape
  <2> QED
    BY <2>1, <2>2
<1>3. decoder # NoDecoder => d = decoder
  OBVIOUS
<1> HIDE DEF d
<1>4. kick[k] = AtRest
  BY <1>1, KickFields DEF XmaShape
<1>5. kick' = [kick EXCEPT ![k] = [kick[k] EXCEPT !.at = what, !.decoder = d]]
  BY <1>1
<1>6. kick' = [kick EXCEPT ![k] = [AtRest EXCEPT !.at = what, !.decoder = d]]
  BY <1>4, <1>5
<1> QED
  BY <1>1, <1>2, <1>3, <1>6, Zenon

LEMMA OwnersShape ==
  ASSUME XmaShape, AllocateXmaContext \/ ReleaseXmaContext
  PROVE  XmaShape'
<1>1. CASE AllocateXmaContext
  <2>1. stream + 1 \in 0 .. MaxStreams
    BY <1>1, XmaNumbers DEF XmaShape, SlotShape, AllocateXmaContext
  <2>2. SlotShape'
    BY <1>1, <2>1 DEF XmaShape, SlotShape, AllocateXmaContext
  <2>3. UNCHANGED <<pending, frameOf, undecoded, kick>>
    BY <1>1 DEF AllocateXmaContext
  <2> QED
    BY <2>2, <2>3 DEF XmaShape, DecoderShape, KicksShape
<1>2. CASE ReleaseXmaContext
  <2>1. slot' \in Context /\ strayed' \in BOOLEAN
    BY <1>2, ZeroedIs DEF XmaShape, SlotShape, ReleaseXmaContext
  <2>2. SlotShape'
    BY <1>2, <2>1 DEF XmaShape, SlotShape, ReleaseXmaContext
  <2>3. UNCHANGED <<pending, frameOf, undecoded, kick>>
    BY <1>2 DEF ReleaseXmaContext
  <2> QED
    BY <2>2, <2>3 DEF XmaShape, DecoderShape, KicksShape
<1> QED
  BY <1>1, <1>2

LEMMA TitleShape ==
  ASSUME XmaShape,
         \/ \E b \in Inputs, t \in Tails : Submit(b, t)
         \/ \E n \in 1 .. Blocks : TakeBlocks(n)
         \/ OnlyDrain \/ OfferRing
  PROVE  XmaShape'
<1>1. UNCHANGED <<stream, inUse, decoder, pending, frameOf, kick, strayed, overran>>
  BY DEF Submit, TakeBlocks, OnlyDrain, OfferRing, Title
<1>2. KicksShape'
  BY <1>1 DEF XmaShape, KicksShape
<1>3. CASE \E b \in Inputs, t \in Tails : Submit(b, t)
  <2>1. PICK b \in Inputs, t \in Tails : Submit(b, t)
    BY <1>3
  <2>2. slot' \in Context
    BY <2>1 DEF XmaShape, SlotShape, Context, Submit
  <2>3. tail' \in [Inputs -> TailForms] /\ bufferOf' \in [Inputs -> 0 .. MaxStreams]
    BY <2>1, XmaAssumption DEF XmaShape, SlotShape, Submit
  <2>4. undecoded' \in [Inputs -> 0 .. Spoilt]
    <3>1. BufferFrames \in 0 .. Spoilt
      BY XmaNumbers DEF Spoilt
    <3> QED
      BY <2>1, <3>1 DEF XmaShape, DecoderShape, Submit
  <2>5. unread' = unread
    BY <2>1 DEF Submit
  <2> QED
    BY <1>1, <1>2, <2>2, <2>3, <2>4, <2>5 DEF XmaShape, SlotShape, DecoderShape
<1>4. CASE \E n \in 1 .. Blocks : TakeBlocks(n)
  <2>1. PICK n \in 1 .. Blocks : TakeBlocks(n)
    BY <1>4
  <2>2. After(slot.read, n) \in 0 .. (Blocks - 1)
    <3>1. n \in 0 .. Blocks
      BY XmaNumbers
    <3>2. slot.read \in 0 .. (Blocks - 1)
      BY DEF XmaShape, SlotShape, Context
    <3> QED
      BY <3>1, <3>2, AfterIs
  <2>3. /\ slot' = [slot EXCEPT !.read = After(slot.read, n), !.out = TRUE]
        /\ unread' \subseteq unread /\ UNCHANGED <<tail, bufferOf, undecoded>>
    BY <2>1 DEF TakeBlocks
  <2>4. slot' \in Context
    BY <2>2, <2>3 DEF XmaShape, SlotShape, Context
  <2> QED
    BY <1>1, <1>2, <2>3, <2>4 DEF XmaShape, SlotShape, DecoderShape
<1>5. CASE OnlyDrain \/ OfferRing
  <2>1. slot' \in Context
    BY <1>5 DEF XmaShape, SlotShape, Context, OnlyDrain, OfferRing
  <2>2. UNCHANGED <<tail, bufferOf, undecoded, unread>>
    BY <1>5 DEF OnlyDrain, OfferRing
  <2> QED
    BY <1>1, <1>2, <2>1, <2>2 DEF XmaShape, SlotShape, DecoderShape
<1> QED
  BY <1>3, <1>4, <1>5

LEMMA HwContextShape ==
  ASSUME XmaShape, NEW k \in Kickers, NEW what \in {"kicked", "clear"}, HwContext(k, what)
  PROVE  XmaShape'
<1>1. PICK d \in Decoders :
        /\ inUse /\ kick[k].at = "idle" /\ decoder' = d
        /\ decoder # NoDecoder => d = decoder
        /\ kick' = [kick EXCEPT ![k] = [AtRest EXCEPT !.at = what, !.decoder = d]]
        /\ pending' = IF decoder = NoDecoder THEN [pending EXCEPT ![d] = 0] ELSE pending
        /\ UNCHANGED <<stream, inUse, slot, frameOf, tail, bufferOf, undecoded, unread,
                       strayed, overran>>
  BY HwContextIs, Zenon
<1> DEFINE w == [AtRest EXCEPT !.at = what, !.decoder = d]
<1>2. KickShape(w)
  BY AtRestIs DEF AtRest, KickShape, Kick
<1> HIDE DEF w
<1>3. KicksShape'
  BY <1>1, <1>2, KickSteps DEF XmaShape, w
<1>4. pending' \in [Decoders -> 0 .. FrameBlocks]
  BY <1>1, XmaNumbers DEF XmaShape, DecoderShape
<1> QED
  BY <1>1, <1>3, <1>4 DEF XmaShape, SlotShape, DecoderShape

\* What BeginWork makes of the kick.
Begun(w) ==
  IF ~slot.out \/ (~slot.counted /\ pending[w.decoder] = 0) THEN AtRest
  ELSE [AtRest EXCEPT !.at = IF ~slot.counted THEN "draining"
                             ELSE IF Room(slot) < Minimum THEN "storing" ELSE "working",
                      !.decoder = w.decoder, !.data = slot, !.initial = slot,
                      !.position = slot.write, !.room = Room(slot)]

LEMMA BeginWorkIs ==
  ASSUME NEW k \in Kickers, BeginWork(k)
  PROVE  /\ kick[k].at = "kicked" /\ ~Locked(kick[k].decoder)
         /\ strayed' = (strayed \/ (kick[k].decoder # decoder /\ slot.out))
         /\ kick' = [kick EXCEPT ![k] = Begun(kick[k])]
         /\ UNCHANGED <<stream, inUse, slot, decoder, pending, frameOf, tail, bufferOf,
                        undecoded, unread, overran>>
<1> DEFINE d == kick[k].decoder
           drains == ~slot.counted
           at == CASE drains -> "draining"
                   [] ~drains /\ Room(slot) < Minimum -> "storing"
                   [] OTHER -> "working"
<1>1. at = IF drains THEN "draining" ELSE IF Room(slot) < Minimum THEN "storing" ELSE "working"
  OBVIOUS
<1>2. kick' = [kick EXCEPT ![k] =
                 IF ~slot.out \/ (drains /\ pending[d] = 0) THEN AtRest
                 ELSE [AtRest EXCEPT !.at = at, !.decoder = d, !.data = slot, !.initial = slot,
                                     !.position = slot.write, !.room = Room(slot)]]
  BY Zenon DEF BeginWork
<1> HIDE DEF at
<1>3. kick' = [kick EXCEPT ![k] = Begun(kick[k])]
  BY <1>1, <1>2 DEF Begun
<1>4. /\ kick[k].at = "kicked" /\ ~Locked(kick[k].decoder)
      /\ strayed' = (strayed \/ (kick[k].decoder # decoder /\ slot.out))
      /\ UNCHANGED <<stream, inUse, slot, decoder, pending, frameOf, tail, bufferOf,
                     undecoded, unread, overran>>
  BY DEF BeginWork
<1> QED
  BY <1>3, <1>4

LEMMA BegunIs ==
  ASSUME XmaShape, NEW w \in Kick, w.decoder \in Decoders
  PROVE  KickShape(Begun(w))
<1>1. Room(slot) \in 1 .. Blocks /\ slot \in Context /\ slot.write \in 0 .. (Blocks - 1)
  BY RoomIs, ContextFields DEF XmaShape, SlotShape
<1>2. Room(slot) \in 0 .. Blocks /\ (~(Room(slot) < Minimum) => Room(slot) >= Minimum)
  BY <1>1, XmaNumbers
<1>3. AtRest \in Kick
  BY AtRestIs DEF KickShape
<1> DEFINE at == IF ~slot.counted THEN "draining"
                 ELSE IF Room(slot) < Minimum THEN "storing" ELSE "working"
           b == [AtRest EXCEPT !.at = at, !.decoder = w.decoder, !.data = slot, !.initial = slot,
                               !.position = slot.write, !.room = Room(slot)]
<1>4. b \in Kick /\ b.at = at /\ b.decoder = w.decoder /\ b.room = Room(slot)
  BY <1>1, <1>2, <1>3 DEF Kick
<1>5. KickShape(b)
  <2> HIDE DEF b
  <2> QED
    BY <1>2, <1>4 DEF KickShape
<1> QED
  BY <1>5, AtRestIs DEF Begun

LEMMA BeginWorkShape ==
  ASSUME XmaShape, NEW k \in Kickers, BeginWork(k)
  PROVE  XmaShape'
<1>1. /\ kick[k].at = "kicked"
      /\ strayed' = (strayed \/ (kick[k].decoder # decoder /\ slot.out))
      /\ kick' = [kick EXCEPT ![k] = Begun(kick[k])]
      /\ UNCHANGED <<stream, inUse, slot, decoder, pending, frameOf, tail, bufferOf,
                     undecoded, unread, overran>>
  BY BeginWorkIs
<1>2. KickShape(Begun(kick[k]))
  <2>1. kick[k] \in Kick /\ kick[k].decoder \in Decoders
    BY <1>1, KickFields DEF XmaShape
  <2> QED
    BY <2>1, BegunIs
<1>3. KicksShape'
  BY <1>1, <1>2, KickSteps DEF XmaShape
<1>4. strayed' \in BOOLEAN
  BY <1>1 DEF XmaShape, SlotShape
<1> QED
  BY <1>1, <1>3, <1>4 DEF XmaShape, SlotShape, DecoderShape

\* What a pass makes of the kick and of the decoder.
LEMMA PassNumbers ==
  ASSUME XmaShape, NEW k \in Kickers, kick[k].at = "working", NEW made \in BOOLEAN,
         NEW n, NEW room, NEW done \in BOOLEAN,
         PassTaken(k, PassLeft(kick[k], made), n, room, done)
  PROVE  /\ kick[k].decoder \in Decoders
         /\ PassLeft(kick[k], made) \in 0 .. FrameBlocks
         /\ n \in 0 .. PassLeft(kick[k], made) /\ n \in 0 .. Blocks /\ n <= PassBlocks
         /\ room \in 0 .. Blocks /\ n + room <= kick[k].room
         /\ ~done => room >= Minimum
         /\ After(kick[k].position, n) \in 0 .. (Blocks - 1)
         /\ Span(kick[k].position, n) \subseteq 0 .. (Blocks - 1)
<1> DEFINE p == PassLeft(kick[k], made)
<1>1. /\ kick[k].decoder \in Decoders /\ kick[k].room \in 0 .. Blocks
      /\ kick[k].room >= Minimum /\ kick[k].position \in 0 .. (Blocks - 1)
  BY KickFields DEF XmaShape
<1>2. p \in 0 .. FrameBlocks
  BY <1>1, XmaNumbers DEF PassLeft, XmaShape, DecoderShape
<1>3. /\ n = AtMostAPass(p) /\ (~done => ~(room < Minimum))
      /\ room = kick[k].room - n - (IF p > 0 /\ p = n THEN Padding ELSE 0)
  BY DEF PassTaken
<1> HIDE DEF p
<1>4. n \in 0 .. p /\ n <= PassBlocks
  BY <1>2, <1>3, PassIs
<1>5. /\ n \in 0 .. Blocks /\ room \in 0 .. Blocks /\ n + room <= kick[k].room
      /\ (~done => room >= Minimum)
  BY <1>1, <1>2, <1>3, <1>4, XmaNumbers DEF Minimum
<1>6. /\ After(kick[k].position, n) \in 0 .. (Blocks - 1)
      /\ Span(kick[k].position, n) \subseteq 0 .. (Blocks - 1)
  BY <1>1, <1>5, AfterIs, SpanWithin
<1> QED
  BY <1>1, <1>2, <1>4, <1>5, <1>6 DEF p

LEMMA PassDataIs ==
  ASSUME XmaShape, NEW k \in Kickers
  PROVE  /\ PassData(kick[k]) \in Context /\ Chosen(kick[k].data) \in Context
         /\ Chosen(kick[k].data).current \in Inputs
         /\ PassData(kick[k]).read = kick[k].data.read
         /\ PassData(kick[k]).write = kick[k].data.write
         /\ PassData(kick[k]).out = kick[k].data.out
<1>1. kick[k].data \in Context
  BY KickFields DEF XmaShape
<1>2. Chosen(kick[k].data) \in Context
  BY <1>1, ChosenIs
<1> QED
  BY <1>1, <1>2, ChosenIs, DecodedIs, ContextFields DEF PassData

\* The kick after a pass, field by field.
PassFields(k, n, room, done, w) ==
  LET position == After(kick[k].position, n)
      initial == kick[k].initial
  IN  /\ w.at = (IF done THEN "storing" ELSE "working")
      /\ w.decoder = kick[k].decoder /\ w.initial = initial
      /\ w.position = position /\ w.room = room
      /\ w.data = (IF done THEN Finished(PassData(kick[k]), initial, position, room)
                   ELSE PassData(kick[k]))
      /\ w.wrote = (IF done /\ ~Any(initial) THEN {}
                    ELSE kick[k].wrote \union Span(kick[k].position, n))
      /\ w.drops = (done /\ Starved(initial))

LEMMA PassedOnIs ==
  ASSUME XmaShape, NEW k \in Kickers, kick[k].at = "working",
         NEW n \in 0 .. Blocks, NEW room \in 0 .. Blocks, NEW done \in BOOLEAN,
         ~done => room >= Minimum
  PROVE  /\ KickShape(PassedOn(kick[k], n, room, done))
         /\ PassFields(k, n, room, done, PassedOn(kick[k], n, room, done))
<1> DEFINE position == After(kick[k].position, n)
           wrote == IF done /\ ~Any(kick[k].initial) THEN {}
                    ELSE kick[k].wrote \union Span(kick[k].position, n)
           at == IF done THEN "storing" ELSE "working"
           data == IF done THEN Finished(PassData(kick[k]), kick[k].initial, position, room)
                   ELSE PassData(kick[k])
           drops == done /\ Starved(kick[k].initial)
<1>1. /\ kick[k] \in Kick /\ kick[k].position \in 0 .. (Blocks - 1)
      /\ kick[k].initial \in Context /\ kick[k].wrote \in SUBSET (0 .. (Blocks - 1))
      /\ kick[k].decoder \in Decoders
  BY KickFields DEF XmaShape
<1>2. position \in 0 .. (Blocks - 1) /\ Span(kick[k].position, n) \subseteq 0 .. (Blocks - 1)
  BY <1>1, AfterIs, SpanWithin
<1>3. wrote \in SUBSET (0 .. (Blocks - 1)) /\ drops \in BOOLEAN /\ at \in {"storing", "working"}
  BY <1>1, <1>2
<1>4. data \in Context
  BY <1>1, <1>2, PassDataIs, FinishedIs
<1>5. PassedOn(kick[k], n, room, done) =
        [kick[k] EXCEPT !.at = at, !.data = data, !.position = position, !.room = room,
                        !.wrote = wrote, !.drops = drops]
  BY Zenon DEF PassedOn
<1>6. at = "working" => room >= Minimum
  OBVIOUS
<1> HIDE DEF position, wrote, at, data, drops
<1>7. LET w == PassedOn(kick[k], n, room, done)
      IN  /\ w \in Kick /\ w.at = at /\ w.decoder = kick[k].decoder
          /\ w.initial = kick[k].initial /\ w.position = position /\ w.room = room
          /\ w.data = data /\ w.wrote = wrote /\ w.drops = drops
  BY <1>1, <1>2, <1>3, <1>4, <1>5 DEF Kick
<1>8. KickShape(PassedOn(kick[k], n, room, done))
  BY <1>1, <1>3, <1>6, <1>7 DEF KickShape
<1> QED
  BY <1>7, <1>8, Zenon DEF PassFields, position, wrote, at, data, drops

LEMMA DueIs ==
  ASSUME undecoded \in [Inputs -> 0 .. Spoilt], NEW c \in Context
  PROVE  Due(c) \in 0 .. Spoilt
<1>1. /\ c.current \in Inputs /\ c.offset \in 0 .. (BufferFrames - 1)
      /\ undecoded[c.current] \in 0 .. Spoilt /\ Spoilt \in Nat
  BY ContextFields, XmaNumbers DEF Spoilt
<1>2. c.offset + undecoded[c.current] = BufferFrames => undecoded[c.current] - 1 \in 0 .. Spoilt
  BY <1>1, XmaNumbers
<1> QED
  BY <1>1, <1>2 DEF Due

LEMMA WorkPassShape ==
  ASSUME XmaShape, NEW k \in Kickers, NEW made \in BOOLEAN, WorkPass(k, made)
  PROVE  XmaShape'
<1>1. kick[k].at = "working"
  BY WorkPassIs
<1> DEFINE p == PassLeft(kick[k], made)
<1>2. PICK n, room : \E done \in BOOLEAN : PassTaken(k, p, n, room, done)
  BY WorkPassIs, Zenon
<1>3. PICK done \in BOOLEAN : PassTaken(k, p, n, room, done)
  BY <1>2, Zenon
<1>4. /\ kick[k].decoder \in Decoders /\ p \in 0 .. FrameBlocks /\ n \in 0 .. p
      /\ n \in 0 .. Blocks /\ room \in 0 .. Blocks /\ (~done => room >= Minimum)
  BY <1>1, <1>3, PassNumbers
<1>5. Chosen(kick[k].data) \in Context /\ Chosen(kick[k].data).current \in Inputs
  BY PassDataIs
<1>6. KicksShape'
  <2>1. KickShape(PassedOn(kick[k], n, room, done))
    BY <1>1, <1>4, PassedOnIs
  <2>2. kick' = [kick EXCEPT ![k] = PassedOn(kick[k], n, room, done)]
    BY <1>3 DEF PassTaken
  <2> QED
    BY <2>1, <2>2, KickSteps DEF XmaShape
<1> HIDE DEF p
<1>7. pending' \in [Decoders -> 0 .. FrameBlocks]
  <2>1. p - n \in 0 .. FrameBlocks
    BY <1>4, XmaNumbers
  <2>2. pending' = [pending EXCEPT ![kick[k].decoder] = p - n]
    BY <1>3 DEF PassTaken
  <2> QED
    BY <1>4, <2>1, <2>2 DEF XmaShape, DecoderShape
<1>8. frameOf' \in [Decoders -> 0 .. MaxStreams]
  <2> DEFINE f == IF p = n THEN 0
                  ELSE IF TakesFrame(kick[k]) THEN bufferOf[Chosen(kick[k].data).current]
                  ELSE frameOf[kick[k].decoder]
  <2>1. f \in 0 .. MaxStreams
    BY <1>4, <1>5, XmaNumbers DEF XmaShape, SlotShape, DecoderShape
  <2>2. frameOf' = [frameOf EXCEPT ![kick[k].decoder] = f]
    BY <1>3 DEF PassTaken
  <2> HIDE DEF f
  <2> QED
    BY <1>4, <2>1, <2>2 DEF XmaShape, DecoderShape
<1>9. undecoded' \in [Inputs -> 0 .. Spoilt]
  <2>1. undecoded' = IF TakesFrame(kick[k])
                     THEN [undecoded EXCEPT ![Chosen(kick[k].data).current] =
                             Due(Chosen(kick[k].data))]
                     ELSE undecoded
    BY <1>3 DEF PassTaken
  <2>2. Due(Chosen(kick[k].data)) \in 0 .. Spoilt
    BY <1>5, DueIs DEF XmaShape, DecoderShape
  <2> QED
    BY <2>1, <2>2 DEF XmaShape, DecoderShape
<1>10. UNCHANGED <<stream, inUse, slot, decoder, tail, bufferOf, unread, strayed, overran>>
  BY <1>3 DEF PassTaken
<1> QED
  BY <1>6, <1>7, <1>8, <1>9, <1>10 DEF XmaShape, SlotShape, DecoderShape

\* However many blocks are written, they are the ring's.
LEMMA RingWraps ==
  ASSUME NEW p \in 0 .. (Blocks - 1), NEW n \in Nat
  PROVE  After(p, n) \in 0 .. (Blocks - 1) /\ Span(p, n) \subseteq 0 .. (Blocks - 1)
<1>1. \A i \in Nat : After(p, i) \in 0 .. (Blocks - 1)
  BY XmaNumbers DEF After
<1>2. \A i \in 0 .. (n - 1) : i \in Nat
  OBVIOUS
<1> QED
  BY <1>1, <1>2 DEF Span

\* What a draining kick becomes.
Drained(w, n) ==
  LET position == After(w.position, n) IN
  [w EXCEPT !.at = "storing", !.wrote = Span(w.position, n),
            !.data = [w.data EXCEPT !.write = position,
                                     !.out = w.data.out /\ position # w.data.read]]

LEMMA DrainFrameIs ==
  ASSUME NEW k \in Kickers, DrainFrame(k)
  PROVE  LET w == kick[k]
             n == AtMostAPass(pending[w.decoder])
         IN  /\ w.at = "draining"
             /\ pending' = [pending EXCEPT ![w.decoder] = pending[w.decoder] - n]
             /\ frameOf' = [frameOf EXCEPT ![w.decoder] =
                              IF pending[w.decoder] = n THEN 0 ELSE frameOf[w.decoder]]
             /\ kick' = [kick EXCEPT ![k] = Drained(w, n)]
             /\ overran' = (overran \/ n > w.room)
             /\ UNCHANGED <<stream, inUse, slot, decoder, tail, bufferOf, undecoded, unread,
                            strayed>>
BY Zenon DEF DrainFrame, ConsumeFrame, Drained

LEMMA DrainedIs ==
  ASSUME XmaShape, NEW k \in Kickers, kick[k].at = "draining", NEW n \in Nat
  PROVE  LET w == Drained(kick[k], n)
             position == After(kick[k].position, n)
         IN  /\ KickShape(w) /\ w.at = "storing" /\ w.decoder = kick[k].decoder
             /\ w.initial = kick[k].initial /\ w.wrote = Span(kick[k].position, n)
             /\ w.drops = kick[k].drops
             /\ w.data.write = position /\ w.data.read = kick[k].data.read
             /\ w.data.valid = kick[k].data.valid /\ w.data.current = kick[k].data.current
             /\ w.data.offset = kick[k].data.offset
             /\ w.data.out <=> (kick[k].data.out /\ position # kick[k].data.read)
<1> DEFINE position == After(kick[k].position, n)
           span == Span(kick[k].position, n)
           out == kick[k].data.out /\ position # kick[k].data.read
           data == [kick[k].data EXCEPT !.write = position, !.out = out]
<1>1. /\ kick[k] \in Kick /\ kick[k].position \in 0 .. (Blocks - 1)
      /\ kick[k].data \in Context /\ kick[k].decoder \in Decoders
  BY KickFields DEF XmaShape
<1>2. position \in 0 .. (Blocks - 1) /\ span \in SUBSET (0 .. (Blocks - 1)) /\ out \in BOOLEAN
  BY <1>1, RingWraps, ContextFields
<1>3. Drained(kick[k], n) = [kick[k] EXCEPT !.at = "storing", !.wrote = span, !.data = data]
  BY Zenon DEF Drained
<1> HIDE DEF position, span, out
<1>4. /\ data \in Context /\ data.write = position /\ data.read = kick[k].data.read
      /\ data.valid = kick[k].data.valid /\ data.current = kick[k].data.current
      /\ data.offset = kick[k].data.offset /\ data.out = out
  BY <1>1, <1>2 DEF Context
<1> HIDE DEF data
<1>5. LET w == Drained(kick[k], n)
      IN  /\ w \in Kick /\ w.at = "storing" /\ w.decoder = kick[k].decoder
          /\ w.initial = kick[k].initial /\ w.wrote = span /\ w.drops = kick[k].drops
          /\ w.data = data
  BY <1>1, <1>2, <1>3, <1>4 DEF Kick
<1>6. KickShape(Drained(kick[k], n))
  BY <1>1, <1>5 DEF KickShape
<1> QED
  BY <1>4, <1>5, <1>6 DEF position, span, out

LEMMA DrainNumbers ==
  ASSUME XmaShape, NEW k \in Kickers, kick[k].at = "draining"
  PROVE  LET p == pending[kick[k].decoder]
         IN  /\ kick[k].decoder \in Decoders /\ p \in 0 .. FrameBlocks
             /\ AtMostAPass(p) \in 0 .. p /\ AtMostAPass(p) \in Nat
             /\ p - AtMostAPass(p) \in 0 .. FrameBlocks
<1> DEFINE p == pending[kick[k].decoder]
<1>1. kick[k].decoder \in Decoders
  BY KickFields DEF XmaShape
<1>2. p \in 0 .. FrameBlocks
  BY <1>1 DEF XmaShape, DecoderShape
<1> HIDE DEF p
<1>3. AtMostAPass(p) \in 0 .. p
  BY <1>2, PassIs
<1>4. AtMostAPass(p) \in Nat /\ p - AtMostAPass(p) \in 0 .. FrameBlocks
  BY <1>2, <1>3, XmaNumbers
<1> QED
  BY <1>1, <1>2, <1>3, <1>4 DEF p

LEMMA DrainFrameShape ==
  ASSUME XmaShape, NEW k \in Kickers, DrainFrame(k)
  PROVE  XmaShape'
<1> DEFINE p == pending[kick[k].decoder]
           n == AtMostAPass(p)
<1>1. /\ kick[k].at = "draining"
      /\ pending' = [pending EXCEPT ![kick[k].decoder] = p - n]
      /\ frameOf' = [frameOf EXCEPT ![kick[k].decoder] =
                       IF p = n THEN 0 ELSE frameOf[kick[k].decoder]]
      /\ kick' = [kick EXCEPT ![k] = Drained(kick[k], n)]
      /\ overran' = (overran \/ n > kick[k].room)
      /\ UNCHANGED <<stream, inUse, slot, decoder, tail, bufferOf, undecoded, unread, strayed>>
  BY DrainFrameIs
<1>2. kick[k].decoder \in Decoders /\ n \in Nat /\ p - n \in 0 .. FrameBlocks
  BY <1>1, DrainNumbers
<1>3. KicksShape'
  BY <1>1, <1>2, DrainedIs, KickSteps DEF XmaShape
<1> HIDE DEF p, n
<1>4. pending' \in [Decoders -> 0 .. FrameBlocks] /\ frameOf' \in [Decoders -> 0 .. MaxStreams]
  BY <1>1, <1>2, XmaNumbers DEF XmaShape, DecoderShape
<1>5. overran' \in BOOLEAN
  BY <1>1 DEF XmaShape, SlotShape
<1> QED
  BY <1>1, <1>3, <1>4, <1>5 DEF XmaShape, SlotShape, DecoderShape

LEMMA StoreMergedShape ==
  ASSUME XmaShape, NEW k \in Kickers, StoreMerged(k)
  PROVE  XmaShape'
<1>1. /\ slot' = Merged(kick[k].data, kick[k].initial, slot)
      /\ unread' = IF kick[k].drops THEN {} ELSE unread \union kick[k].wrote
      /\ kick' = [kick EXCEPT ![k] = AtRest]
      /\ UNCHANGED <<stream, inUse, decoder, pending, frameOf, tail, bufferOf, undecoded,
                     strayed, overran>>
  BY DEF StoreMerged
<1>2. /\ kick[k].data \in Context /\ kick[k].initial \in Context /\ slot \in Context
      /\ kick[k].wrote \in SUBSET (0 .. (Blocks - 1)) /\ kick[k].drops \in BOOLEAN
  BY KickFields DEF XmaShape, SlotShape
<1>3. slot' \in Context
  BY <1>1, <1>2, MergedIs
<1>4. KicksShape'
  BY <1>1, AtRestIs, KickSteps DEF XmaShape
<1>5. unread' \subseteq 0 .. Blocks - 1
  BY <1>1, <1>2 DEF XmaShape, SlotShape
<1> QED
  BY <1>1, <1>3, <1>4, <1>5 DEF XmaShape, SlotShape, DecoderShape

\* What a clearing kick becomes: it holds its decoder, and the context it is to store is empty.
Cleared(w) ==
  [w EXCEPT !.at = "clearing",
            !.data = [slot EXCEPT !.valid = Zeroed.valid, !.out = FALSE, !.offset = 0,
                                  !.read = 0, !.write = 0]]

LEMMA ClearedIs ==
  ASSUME XmaShape, NEW k \in Kickers, kick[k].at = "clear"
  PROVE  LET w == Cleared(kick[k])
         IN  /\ KickShape(w) /\ w.at = "clearing" /\ w.decoder = kick[k].decoder
             /\ ~w.data.out /\ w.data.read = 0 /\ w.data.write = 0 /\ w.data.offset = 0
             /\ \A b \in Inputs : ~w.data.valid[b]
<1> DEFINE data == [slot EXCEPT !.valid = Zeroed.valid, !.out = FALSE, !.offset = 0,
                                !.read = 0, !.write = 0]
<1>1. kick[k] \in Kick /\ kick[k].decoder \in Decoders /\ slot \in Context
  BY KickFields DEF XmaShape, SlotShape
<1>2. /\ Zeroed.valid \in [Inputs -> BOOLEAN] /\ \A b \in Inputs : ~Zeroed.valid[b]
      /\ 0 \in 0 .. (Blocks - 1) /\ 0 \in 0 .. (BufferFrames - 1)
  BY XmaNumbers DEF Zeroed
<1>3. /\ data \in Context /\ data.valid = Zeroed.valid /\ data.out = FALSE
      /\ data.offset = 0 /\ data.read = 0 /\ data.write = 0
  BY <1>1, <1>2 DEF Context
<1>4. Cleared(kick[k]) = [kick[k] EXCEPT !.at = "clearing", !.data = data]
  BY DEF Cleared
<1> HIDE DEF data
<1>5. LET w == Cleared(kick[k])
      IN  /\ w \in Kick /\ w.at = "clearing" /\ w.decoder = kick[k].decoder
          /\ w.data = data
  BY <1>1, <1>3, <1>4 DEF Kick
<1>6. \A b \in Inputs : ~data.valid[b]
  BY <1>2, <1>3
<1>7. KickShape(Cleared(kick[k]))
  BY <1>1, <1>3, <1>5, <1>6 DEF KickShape
<1> QED
  BY <1>3, <1>5, <1>6, <1>7

LEMMA BeginClearIs ==
  ASSUME XmaShape, NEW k \in Kickers, BeginClear(k)
  PROVE  /\ kick[k].at = "clear" /\ ~Locked(kick[k].decoder)
         /\ kick' = [kick EXCEPT ![k] = Cleared(kick[k])]
         /\ Cleared(kick[k]).decoder = kick[k].decoder
         /\ pending' = [pending EXCEPT ![kick[k].decoder] = 0]
         /\ frameOf' = [frameOf EXCEPT ![kick[k].decoder] = 0]
         /\ strayed' = (strayed \/ kick[k].decoder # decoder)
         /\ UNCHANGED <<stream, inUse, slot, decoder, tail, bufferOf, undecoded, unread, overran>>
<1> DEFINE data == [slot EXCEPT !.valid = Zeroed.valid, !.out = FALSE, !.offset = 0,
                                !.read = 0, !.write = 0]
<1>1. /\ kick[k].at = "clear" /\ ~Locked(kick[k].decoder)
      /\ pending' = [pending EXCEPT ![kick[k].decoder] = 0]
      /\ frameOf' = [frameOf EXCEPT ![kick[k].decoder] = 0]
      /\ kick' = [kick EXCEPT ![k].at = "clearing", ![k].data = data]
      /\ strayed' = (strayed \/ kick[k].decoder # decoder)
      /\ UNCHANGED <<stream, inUse, slot, decoder, tail, bufferOf, undecoded, unread, overran>>
  BY Zenon DEF BeginClear
<1>2. Cleared(kick[k]) = [kick[k] EXCEPT !.at = "clearing", !.data = data]
  BY DEF Cleared
<1> HIDE DEF data
<1>3. kick' = [kick EXCEPT ![k] = [kick[k] EXCEPT !.at = "clearing", !.data = data]]
  BY <1>1
<1>4. Cleared(kick[k]).decoder = kick[k].decoder
  BY <1>1, ClearedIs
<1> QED
  BY <1>1, <1>2, <1>3, <1>4

LEMMA ClearShape ==
  ASSUME XmaShape, NEW k \in Kickers, BeginClear(k) \/ StoreClear(k)
  PROVE  XmaShape'
<1>1. CASE BeginClear(k)
  <2>1. /\ kick[k].at = "clear" /\ kick' = [kick EXCEPT ![k] = Cleared(kick[k])]
        /\ pending' = [pending EXCEPT ![kick[k].decoder] = 0]
        /\ frameOf' = [frameOf EXCEPT ![kick[k].decoder] = 0]
        /\ strayed' = (strayed \/ kick[k].decoder # decoder)
        /\ UNCHANGED <<stream, inUse, slot, decoder, tail, bufferOf, undecoded, unread, overran>>
    BY <1>1, BeginClearIs
  <2>2. KicksShape'
    BY <2>1, ClearedIs, KickSteps DEF XmaShape
  <2>3. pending' \in [Decoders -> 0 .. FrameBlocks] /\ frameOf' \in [Decoders -> 0 .. MaxStreams]
    <3>1. 0 \in 0 .. FrameBlocks /\ 0 \in 0 .. MaxStreams
      BY XmaNumbers
    <3> QED
      BY <2>1, <3>1 DEF XmaShape, DecoderShape
  <2>4. strayed' \in BOOLEAN
    BY <2>1 DEF XmaShape, SlotShape
  <2> QED
    BY <2>1, <2>2, <2>3, <2>4 DEF XmaShape, SlotShape, DecoderShape
<1>2. CASE StoreClear(k)
  <2>1. /\ slot' = kick[k].data /\ unread' = {} /\ kick' = [kick EXCEPT ![k] = AtRest]
        /\ UNCHANGED <<stream, inUse, decoder, pending, frameOf, tail, bufferOf, undecoded,
                       strayed, overran>>
    BY <1>2 DEF StoreClear
  <2>2. KicksShape'
    BY <2>1, AtRestIs, KickSteps DEF XmaShape
  <2>3. slot' \in Context
    BY <2>1, KickFields DEF XmaShape
  <2> QED
    BY <2>1, <2>2, <2>3 DEF XmaShape, SlotShape, DecoderShape
<1> QED
  BY <1>1, <1>2

LEMMA XmaShapeInit == XmaInit => XmaShape
<1> SUFFICES ASSUME XmaInit PROVE XmaShape
  OBVIOUS
<1>1. 0 \in 0 .. MaxStreams /\ 0 \in 0 .. FrameBlocks /\ 0 \in 0 .. Spoilt /\ "whole" \in TailForms
  BY XmaNumbers DEF Spoilt, TailForms
<1>2. SlotShape
  BY <1>1, ZeroedIs DEF XmaInit, SlotShape
<1>3. DecoderShape
  BY <1>1 DEF XmaInit, DecoderShape
<1>4. KicksShape
  <2>1. AtRest \in Kick
    BY AtRestIs DEF KickShape
  <2> QED
    BY <2>1, AtRestIs DEF XmaInit, KicksShape
<1> QED
  BY <1>2, <1>3, <1>4 DEF XmaShape

LEMMA XmaShapeKept == XmaShape /\ [XmaNext]_xmaVars => XmaShape'
<1> SUFFICES ASSUME XmaShape, [XmaNext]_xmaVars PROVE XmaShape'
  OBVIOUS
<1>1. CASE UNCHANGED xmaVars \/ XmaQuiet
  BY <1>1 DEF XmaQuiet, xmaVars, XmaShape, SlotShape, DecoderShape, KicksShape
<1>2. ASSUME NEW k \in Kickers,
             HwContext(k, "kicked") \/ HwContext(k, "clear")
      PROVE  XmaShape'
  BY <1>2, HwContextShape
<1>3. ASSUME NEW k \in Kickers, BeginWork(k)
      PROVE  XmaShape'
  BY <1>3, BeginWorkShape
<1>4. ASSUME NEW k \in Kickers, NEW made \in BOOLEAN, WorkPass(k, made)
      PROVE  XmaShape'
  BY <1>4, WorkPassShape
<1>5. ASSUME NEW k \in Kickers, DrainFrame(k) \/ StoreMerged(k)
      PROVE  XmaShape'
  BY <1>5, DrainFrameShape, StoreMergedShape
<1>6. ASSUME NEW k \in Kickers, BeginClear(k) \/ StoreClear(k)
      PROVE  XmaShape'
  BY <1>6, ClearShape
<1>7. CASE XmaNext
  <2>1. CASE AllocateXmaContext \/ ReleaseXmaContext
    BY <2>1, OwnersShape
  <2>2. CASE \/ \E b \in Inputs, t \in Tails : Submit(b, t)
             \/ \E n \in 1 .. Blocks : TakeBlocks(n)
             \/ OnlyDrain \/ OfferRing
    BY <2>2, TitleShape
  <2> QED
    BY <1>1, <1>2, <1>3, <1>4, <1>5, <1>6, <1>7, <2>1, <2>2 DEF XmaNext
<1> QED
  BY <1>1, <1>7

-----------------------------------------------------------------------------
(* Whose decoder a thread holds *)

Holds(k) == kick[k].at \notin {"idle", "kicked", "clear"}
Works(k) == kick[k].at \in {"working", "storing", "draining"}

\* A decoder's lock has one holder.
Exclusive ==
  \A j, k \in Kickers : Holds(j) /\ Holds(k) /\ kick[j].decoder = kick[k].decoder => j = k

\* Until something strayed, who holds a decoder holds the slot's, and a slot that is not handed
\* out has neither decoder nor input.
OneOwner ==
  /\ ~inUse => decoder = NoDecoder /\ \A b \in Inputs : ~slot.valid[b]
  /\ \A k \in Kickers : Holds(k) => kick[k].decoder = decoder

Owned == Exclusive /\ (strayed \/ OneOwner)

\* One thread at a time is at work on the slot, and the slot is handed out.
LEMMA OneHolder ==
  ASSUME XmaShape, Owned, ~strayed
  PROVE  /\ \A j, k \in Kickers : Holds(j) /\ Holds(k) => j = k
         /\ \A k \in Kickers : Holds(k) => inUse
         /\ ~Locked(decoder) => \A k \in Kickers : ~Holds(k)
<1>1. OneOwner /\ Exclusive
  BY DEF Owned
<1>2. NoDecoder \notin Decoders
  BY XmaAssumption, FS_CardinalityType DEF Decoders, NoDecoder
<1>3. \A k \in Kickers : Holds(k) => kick[k].decoder \in Decoders
  BY KickFields DEF XmaShape, Holds
<1> QED
  BY <1>1, <1>2, <1>3 DEF OneOwner, Exclusive, Locked, Holds

LEMMA WorksHolds == \A k \in Kickers : Works(k) => Holds(k)
BY DEF Works, Holds

\* What one thread does to the locks.
LEMMA LockMoves ==
  ASSUME XmaShape, Exclusive, NEW k \in Kickers, NEW w, kick' = [kick EXCEPT ![k] = w],
         \/ w.at \in {"idle", "kicked", "clear"}
         \/ Holds(k) /\ w.decoder = kick[k].decoder
         \/ ~Locked(w.decoder)
  PROVE  Exclusive'
<1>1. kick'[k] = w /\ \A j \in Kickers : j # k => kick'[j] = kick[j]
  BY DEF XmaShape, KicksShape
<1> SUFFICES ASSUME NEW i \in Kickers, NEW j \in Kickers, Holds(i)', Holds(j)',
                    kick'[i].decoder = kick'[j].decoder
             PROVE  i = j
  BY DEF Exclusive
<1> QED
  BY <1>1 DEF Exclusive, Holds, Locked

\* What a kick's step does to the locks and to the slot.
KickStays(k, w) ==
  /\ kick' = [kick EXCEPT ![k] = w]
  /\ Holds(k) /\ w.decoder = kick[k].decoder
  /\ UNCHANGED <<stream, inUse, slot, decoder, tail, bufferOf, unread, strayed>>

LEMMA WorkPassStays ==
  ASSUME XmaShape, NEW k \in Kickers, NEW made \in BOOLEAN, NEW n, NEW room,
         NEW done \in BOOLEAN, kick[k].at = "working",
         PassTaken(k, PassLeft(kick[k], made), n, room, done)
  PROVE  KickStays(k, PassedOn(kick[k], n, room, done))
<1>1. /\ kick' = [kick EXCEPT ![k] = PassedOn(kick[k], n, room, done)]
      /\ UNCHANGED <<stream, inUse, slot, decoder, tail, bufferOf, unread, strayed>>
  BY DEF PassTaken
<1>2. n \in 0 .. Blocks /\ room \in 0 .. Blocks /\ (~done => room >= Minimum)
  BY PassNumbers
<1>3. PassedOn(kick[k], n, room, done).decoder = kick[k].decoder
  <2>1. PassFields(k, n, room, done, PassedOn(kick[k], n, room, done))
    BY <1>2, PassedOnIs
  <2> QED
    BY <2>1, Zenon DEF PassFields
<1> QED
  BY <1>1, <1>3 DEF KickStays, Holds

LEMMA DrainFrameStays ==
  ASSUME XmaShape, NEW k \in Kickers, DrainFrame(k)
  PROVE  KickStays(k, Drained(kick[k], AtMostAPass(pending[kick[k].decoder])))
<1> DEFINE n == AtMostAPass(pending[kick[k].decoder])
<1>1. /\ kick[k].at = "draining" /\ kick' = [kick EXCEPT ![k] = Drained(kick[k], n)]
      /\ UNCHANGED <<stream, inUse, slot, decoder, tail, bufferOf, unread, strayed>>
  BY DrainFrameIs
<1>2. n \in Nat
  BY <1>1, DrainNumbers
<1> HIDE DEF n
<1>3. Drained(kick[k], n).decoder = kick[k].decoder
  BY <1>1, <1>2, DrainedIs
<1> QED
  BY <1>1, <1>3 DEF KickStays, Holds, n

LEMMA StaysOwned ==
  ASSUME XmaShape, Owned, NEW k \in Kickers, NEW w, KickStays(k, w)
  PROVE  Owned'
<1>1. Exclusive'
  BY LockMoves DEF Owned, KickStays
<1>2. kick'[k] = w /\ \A j \in Kickers : j # k => kick'[j] = kick[j]
  BY DEF XmaShape, KicksShape, KickStays
<1>3. strayed' \/ OneOwner'
  BY <1>2 DEF Owned, OneOwner, KickStays, Holds
<1> QED
  BY <1>1, <1>3 DEF Owned

LEMMA WorkOwned ==
  ASSUME XmaShape, Owned, NEW k \in Kickers,
         (\E made \in BOOLEAN : WorkPass(k, made)) \/ DrainFrame(k)
  PROVE  Owned'
<1>1. ASSUME NEW made \in BOOLEAN, WorkPass(k, made)
      PROVE  Owned'
  <2>1. PICK n, room : \E done \in BOOLEAN :
          PassTaken(k, PassLeft(kick[k], made), n, room, done)
    BY <1>1, WorkPassIs, Zenon
  <2>2. PICK done \in BOOLEAN : PassTaken(k, PassLeft(kick[k], made), n, room, done)
    BY <2>1, Zenon
  <2> QED
    BY <1>1, <2>2, WorkPassIs, WorkPassStays, StaysOwned
<1>2. CASE DrainFrame(k)
  BY <1>2, DrainFrameStays, StaysOwned
<1> QED
  BY <1>1, <1>2

LEMMA OwnersOwned ==
  ASSUME XmaShape, Owned, AllocateXmaContext \/ ReleaseXmaContext
  PROVE  Owned'
<1>1. kick' = kick
  BY DEF AllocateXmaContext, ReleaseXmaContext
<1>2. Exclusive'
  BY <1>1 DEF Owned, Exclusive, Holds
<1>3. ASSUME ~strayed'
      PROVE  OneOwner'
  <2>1. CASE AllocateXmaContext
    BY <1>3, <2>1 DEF Owned, OneOwner, AllocateXmaContext, Holds
  <2>2. CASE ReleaseXmaContext
    <3>1. ~strayed /\ (decoder = NoDecoder => slot = Zeroed)
      BY <1>3, <2>2 DEF ReleaseXmaContext, XmaShape, SlotShape
    <3>2. \A k \in Kickers : ~Holds(k)
      BY <2>2, <3>1, OneHolder DEF ReleaseXmaContext
    <3>3. slot' = Zeroed /\ decoder' = NoDecoder
      BY <2>2, <3>1 DEF ReleaseXmaContext
    <3>4. \A b \in Inputs : ~Zeroed.valid[b]
      BY DEF Zeroed
    <3> QED
      BY <1>1, <3>2, <3>3, <3>4 DEF OneOwner, Holds
  <2> QED
    BY <2>1, <2>2
<1> QED
  BY <1>2, <1>3 DEF Owned

LEMMA TitleOwned ==
  ASSUME XmaShape, Owned, Title
  PROVE  Owned'
BY DEF Owned, Exclusive, OneOwner, Title, Holds

LEMMA HwContextOwned ==
  ASSUME XmaShape, Owned, NEW k \in Kickers, NEW what \in {"kicked", "clear"},
         HwContext(k, what)
  PROVE  Owned'
<1>1. PICK d \in Decoders :
        /\ inUse /\ kick[k].at = "idle" /\ decoder' = d
        /\ decoder # NoDecoder => d = decoder
        /\ kick' = [kick EXCEPT ![k] = [AtRest EXCEPT !.at = what, !.decoder = d]]
        /\ pending' = IF decoder = NoDecoder THEN [pending EXCEPT ![d] = 0] ELSE pending
        /\ UNCHANGED <<stream, inUse, slot, frameOf, tail, bufferOf, undecoded, unread,
                       strayed, overran>>
  BY HwContextIs, Zenon
<1> DEFINE w == [AtRest EXCEPT !.at = what, !.decoder = d]
<1>2. w.at \in {"idle", "kicked", "clear"}
  BY DEF AtRest
<1> HIDE DEF w
<1>3. kick' = [kick EXCEPT ![k] = w]
  BY <1>1 DEF w
<1>4. Exclusive'
  BY <1>2, <1>3, LockMoves DEF Owned
<1>5. kick'[k] = w /\ \A j \in Kickers : j # k => kick'[j] = kick[j]
  BY <1>3 DEF XmaShape, KicksShape
<1>6. ASSUME ~strayed
      PROVE  OneOwner'
  <2>1. CASE decoder # NoDecoder
    BY <1>1, <1>2, <1>5, <1>6, <2>1 DEF Owned, OneOwner, Holds
  <2>2. CASE decoder = NoDecoder
    <3>1. \A j \in Kickers : ~Holds(j)
      <4>1. \A j \in Kickers : Holds(j) => kick[j].decoder \in Decoders
        BY KickFields DEF XmaShape, Holds
      <4>2. NoDecoder \notin Decoders
        BY XmaAssumption, FS_CardinalityType DEF Decoders, NoDecoder
      <4> QED
        BY <1>6, <2>2, <4>1, <4>2 DEF Owned, OneOwner
    <3> QED
      BY <1>1, <1>2, <1>5, <1>6, <3>1 DEF OneOwner, Holds
  <2> QED
    BY <2>1, <2>2
<1> QED
  BY <1>1, <1>4, <1>6 DEF Owned

LEMMA BeginOwned ==
  ASSUME XmaShape, Owned, NEW k \in Kickers, NEW w, kick' = [kick EXCEPT ![k] = w],
         ~Locked(kick[k].decoder), w = AtRest \/ w.decoder = kick[k].decoder,
         w = AtRest \/ strayed' = (strayed \/ kick[k].decoder # decoder),
         UNCHANGED <<inUse, slot, decoder>>, strayed => strayed'
  PROVE  Owned'
<1>1. AtRest.at = "idle"
  BY DEF AtRest
<1>2. Exclusive'
  BY <1>1, LockMoves DEF Owned
<1>3. kick'[k] = w /\ \A j \in Kickers : j # k => kick'[j] = kick[j]
  BY DEF XmaShape, KicksShape
<1>4. ASSUME ~strayed'
      PROVE  OneOwner'
  BY <1>1, <1>3, <1>4 DEF Owned, OneOwner, Holds
<1> QED
  BY <1>2, <1>4 DEF Owned

LEMMA StoreOwned ==
  ASSUME XmaShape, Owned, NEW k \in Kickers, StoreMerged(k) \/ StoreClear(k)
  PROVE  Owned'
<1>1. /\ kick' = [kick EXCEPT ![k] = AtRest] /\ Holds(k)
      /\ UNCHANGED <<inUse, decoder, strayed>>
  BY DEF StoreMerged, StoreClear, Holds
<1>2. AtRest.at = "idle"
  BY DEF AtRest
<1>3. Exclusive'
  BY <1>1, <1>2, LockMoves DEF Owned
<1>4. kick'[k] = AtRest /\ \A j \in Kickers : j # k => kick'[j] = kick[j]
  BY <1>1 DEF XmaShape, KicksShape
<1>5. ASSUME ~strayed
      PROVE  OneOwner'
  <2>1. inUse
    BY <1>1, <1>5, OneHolder
  <2> QED
    BY <1>1, <1>2, <1>4, <1>5, <2>1 DEF Owned, OneOwner, Holds
<1> QED
  BY <1>1, <1>3, <1>5 DEF Owned

LEMMA OwnedInit == XmaInit => Owned
BY DEF XmaInit, Owned, Exclusive, OneOwner, Holds, AtRest, Zeroed

\* The steps, one at a time.
KickStep(k) ==
  \/ HwContext(k, "kicked") \/ HwContext(k, "clear")
  \/ BeginWork(k) \/ (\E made \in BOOLEAN : WorkPass(k, made)) \/ DrainFrame(k)
  \/ StoreMerged(k) \/ BeginClear(k) \/ StoreClear(k)

TitleStep ==
  \/ \E b \in Inputs, t \in Tails : Submit(b, t)
  \/ \E n \in 1 .. Blocks : TakeBlocks(n)
  \/ OnlyDrain \/ OfferRing

LEMMA XmaSteps ==
  ASSUME [XmaNext]_xmaVars
  PROVE  \/ AllocateXmaContext \/ ReleaseXmaContext \/ TitleStep
         \/ \E k \in Kickers : KickStep(k)
         \/ UNCHANGED xmaVars
BY DEF XmaNext, TitleStep, KickStep, XmaQuiet

LEMMA OwnedKept == XmaShape /\ Owned /\ [XmaNext]_xmaVars => Owned'
<1> SUFFICES ASSUME XmaShape, Owned, [XmaNext]_xmaVars PROVE Owned'
  OBVIOUS
<1>1. CASE UNCHANGED xmaVars
  BY <1>1 DEF xmaVars, Owned, Exclusive, OneOwner, Holds
<1>2. CASE TitleStep
  BY <1>2, TitleOwned DEF TitleStep, Submit, TakeBlocks, OnlyDrain, OfferRing
<1>3. ASSUME NEW k \in Kickers, KickStep(k)
      PROVE  Owned'
  <2>1. CASE HwContext(k, "kicked") \/ HwContext(k, "clear")
    BY <2>1, HwContextOwned
  <2>2. CASE BeginWork(k)
    <3>1. /\ ~Locked(kick[k].decoder) /\ kick' = [kick EXCEPT ![k] = Begun(kick[k])]
          /\ strayed' = (strayed \/ (kick[k].decoder # decoder /\ slot.out))
          /\ UNCHANGED <<inUse, slot, decoder>>
      BY <2>2, BeginWorkIs
    <3>2. Begun(kick[k]) = AtRest \/ (Begun(kick[k]).decoder = kick[k].decoder /\ slot.out)
      BY DEF Begun, AtRest
    <3> HIDE DEF Begun
    <3> QED
      BY <3>1, <3>2, BeginOwned
  <2>3. CASE (\E made \in BOOLEAN : WorkPass(k, made)) \/ DrainFrame(k)
    BY <2>3, WorkOwned
  <2>4. CASE StoreMerged(k) \/ StoreClear(k)
    BY <2>4, StoreOwned
  <2>5. CASE BeginClear(k)
    BY <2>5, BeginClearIs, BeginOwned
  <2> QED
    BY <1>3, <2>1, <2>2, <2>3, <2>4, <2>5 DEF KickStep
<1> QED
  BY <1>1, <1>2, <1>3, OwnersOwned, XmaSteps

-----------------------------------------------------------------------------
(* Whose sound it is *)

\* The buffers a kick has loaded are the stream's that has the slot.
OwnInputs ==
  \A k \in Kickers, b \in Inputs : Works(k) /\ kick[k].data.valid[b] => bufferOf[b] = stream

OwnSounds == strayed \/ (SoundsStayApart /\ OwnInputs)

\* A pass decodes a buffer that is there, and makes no other buffer valid.
LEMMA PassValid ==
  ASSUME XmaShape, NEW k \in Kickers
  PROVE  LET w == kick[k] c == Chosen(w.data)
         IN  /\ \A b \in Inputs : PassData(w).valid[b] => w.data.valid[b]
             /\ Takes(w) => c.valid[c.current] /\ w.data.valid[c.current]
<1> DEFINE w == kick[k]
           c == Chosen(w.data)
<1>1. w.data \in Context /\ c \in Context /\ w.data.current \in Inputs /\ c.current \in Inputs
      /\ w.data.valid \in [Inputs -> BOOLEAN] /\ c.valid \in [Inputs -> BOOLEAN]
  BY KickFields, ChosenIs, ContextFields DEF XmaShape
<1>2. \/ c = w.data
      \/ /\ ~w.data.valid[w.data.current]
         /\ c.valid = [w.data.valid EXCEPT ![w.data.current] = FALSE]
         /\ c.current = 1 - w.data.current
  BY <1>1, ChosenIs, SwapIs
<1>3. \A b \in Inputs : c.valid[b] => w.data.valid[b]
  BY <1>1, <1>2
<1>4. \A b \in Inputs : Decoded(c).valid[b] => c.valid[b]
  <2>1. \/ Decoded(c).valid = c.valid
        \/ Decoded(c).valid = [c.valid EXCEPT ![c.current] = FALSE]
    <3>1. Swap(c).valid = [c.valid EXCEPT ![c.current] = FALSE]
      BY <1>1, SwapIs
    <3>2. \/ Decoded(c) = [c EXCEPT !.offset = @ + 1] \/ Decoded(c) = Swap(c)
          \/ Decoded(c) = [c EXCEPT !.error = TRUE]
      BY <1>1, DecodedIs, Zenon
    <3> QED
      BY <1>1, <3>1, <3>2 DEF Context
  <2> QED
    BY <1>1, <2>1
<1>5. ASSUME Takes(w)
      PROVE  c.valid[c.current]
  <2>1. PICK b \in Inputs : w.data.valid[b]
    BY <1>5 DEF Takes, Any
  <2>2. CASE w.data.valid[w.data.current]
    BY <2>2 DEF Chosen
  <2>3. CASE ~w.data.valid[w.data.current]
    <3>1. c = Swap(w.data)
      BY <2>3 DEF Chosen
    <3>2. b = 1 - w.data.current /\ b # w.data.current
      BY <1>1, <2>1, <2>3 DEF Inputs
    <3>3. c.current = b /\ c.valid = [w.data.valid EXCEPT ![w.data.current] = FALSE]
      BY <1>1, <3>1, <3>2, SwapIs
    <3> QED
      BY <1>1, <2>1, <3>2, <3>3
  <2> QED
    BY <2>2, <2>3
<1> QED
  BY <1>1, <1>3, <1>4, <1>5 DEF PassData

\* What a pass makes of the kick, its inputs aside from the ring.
LEMMA PassedData ==
  ASSUME XmaShape, NEW k \in Kickers, kick[k].at = "working",
         NEW n \in 0 .. Blocks, NEW room \in 0 .. Blocks, NEW done \in BOOLEAN,
         ~done => room >= Minimum
  PROVE  LET w == PassedOn(kick[k], n, room, done)
         IN  /\ w.data.valid = PassData(kick[k]).valid
             /\ w.data.current = PassData(kick[k]).current
             /\ w.data.offset = PassData(kick[k]).offset
             /\ w.data.read = kick[k].data.read
             /\ w.initial = kick[k].initial
<1>1. /\ PassData(kick[k]) \in Context /\ kick[k].initial \in Context
      /\ PassData(kick[k]).read = kick[k].data.read
  BY PassDataIs, KickFields DEF XmaShape
<1>2. After(kick[k].position, n) \in 0 .. (Blocks - 1)
  BY KickFields, AfterIs DEF XmaShape
<1>3. LET c == Finished(PassData(kick[k]), kick[k].initial, After(kick[k].position, n), room)
      IN  /\ c.valid = PassData(kick[k]).valid /\ c.current = PassData(kick[k]).current
          /\ c.offset = PassData(kick[k]).offset /\ c.read = PassData(kick[k]).read
  BY <1>1, <1>2, FinishedIs
<1>4. PassFields(k, n, room, done, PassedOn(kick[k], n, room, done))
  BY PassedOnIs
<1> QED
  BY <1>1, <1>3, <1>4, Zenon DEF PassFields

LEMMA WorkSounds ==
  ASSUME XmaShape, Owned, OwnSounds, NEW k \in Kickers, NEW made \in BOOLEAN, WorkPass(k, made)
  PROVE  OwnSounds'
<1>1. kick[k].at = "working"
  BY WorkPassIs
<1> DEFINE p == PassLeft(kick[k], made)
           c == Chosen(kick[k].data)
           d == kick[k].decoder
<1>2. PICK n, room : \E done \in BOOLEAN : PassTaken(k, p, n, room, done)
  BY WorkPassIs, Zenon
<1>3. PICK done \in BOOLEAN : PassTaken(k, p, n, room, done)
  BY <1>2, Zenon
<1> DEFINE w == PassedOn(kick[k], n, room, done)
<1>4. /\ d \in Decoders /\ p \in 0 .. FrameBlocks /\ n \in 0 .. p
      /\ n \in 0 .. Blocks /\ room \in 0 .. Blocks /\ (~done => room >= Minimum)
  BY <1>1, <1>3, PassNumbers
<1>5. w.data.valid = PassData(kick[k]).valid
  BY <1>1, <1>4, PassedData
<1>6. \A b \in Inputs : w.data.valid[b] => kick[k].data.valid[b]
  BY <1>5, PassValid
<1>7. /\ KickStays(k, w)
      /\ pending' = [pending EXCEPT ![d] = p - n]
      /\ frameOf' = [frameOf EXCEPT ![d] =
           IF p = n THEN 0 ELSE IF TakesFrame(kick[k]) THEN bufferOf[c.current] ELSE frameOf[d]]
  BY <1>1, <1>3, WorkPassStays DEF PassTaken
<1>8. Works(k)
  BY <1>1 DEF Works
<1>9. p > 0 => TakesFrame(kick[k]) \/ p = pending[d]
  BY DEF PassLeft
<1>10. TakesFrame(kick[k]) => c.current \in Inputs /\ kick[k].data.valid[c.current]
  BY PassValid, PassDataIs DEF TakesFrame
<1> HIDE DEF w, c, p, d
<1>11. kick'[k] = w /\ \A j \in Kickers : j # k => kick'[j] = kick[j]
  BY <1>7 DEF XmaShape, KicksShape, KickStays
<1>12. UNCHANGED <<stream, inUse, slot, decoder, tail, bufferOf, unread, strayed>>
  BY <1>7 DEF KickStays
<1> SUFFICES ASSUME ~strayed
             PROVE  SoundsStayApart' /\ OwnInputs'
  BY <1>12 DEF OwnSounds
<1>13. SoundsStayApart /\ OwnInputs /\ inUse /\ decoder = d
  BY <1>8, OneHolder, WorksHolds DEF OwnSounds, Owned, OneOwner, d
<1>14. OwnInputs'
  BY <1>6, <1>8, <1>11, <1>12, <1>13 DEF OwnInputs, Works
<1>15. SoundsStayApart'
  <2>1. ASSUME pending'[d] > 0
        PROVE  frameOf'[d] = stream
    <3>1. pending'[d] = p - n
      BY <1>4, <1>7 DEF XmaShape, DecoderShape
    <3>2. p # n /\ p > 0
      BY <1>4, <2>1, <3>1
    <3>3. frameOf'[d] = IF TakesFrame(kick[k]) THEN bufferOf[c.current] ELSE frameOf[d]
      BY <1>4, <1>7, <3>2 DEF XmaShape, DecoderShape
    <3>4. CASE TakesFrame(kick[k])
      BY <1>8, <1>10, <1>13, <3>3, <3>4 DEF OwnInputs
    <3>5. CASE ~TakesFrame(kick[k])
      <4>1. pending[d] > 0 /\ d # NoDecoder
        BY <1>4, <1>9, <3>2, <3>5, XmaAssumption, FS_CardinalityType DEF Decoders, NoDecoder
      <4> QED
        BY <1>13, <3>3, <3>5, <4>1 DEF SoundsStayApart
    <3> QED
      BY <3>4, <3>5
  <2> QED
    BY <1>12, <1>13, <2>1 DEF SoundsStayApart
<1> QED
  BY <1>14, <1>15

LEMMA DrainSounds ==
  ASSUME XmaShape, Owned, OwnSounds, NEW k \in Kickers, DrainFrame(k)
  PROVE  OwnSounds'
<1> DEFINE d == kick[k].decoder
           p == pending[d]
           n == AtMostAPass(p)
           w == Drained(kick[k], n)
<1>1. /\ kick[k].at = "draining"
      /\ pending' = [pending EXCEPT ![d] = p - n]
      /\ frameOf' = [frameOf EXCEPT ![d] = IF p = n THEN 0 ELSE frameOf[d]]
  BY DrainFrameIs
<1>2. /\ d \in Decoders /\ p \in 0 .. FrameBlocks /\ n \in 0 .. p /\ n \in Nat
      /\ KickStays(k, w)
  BY <1>1, DrainNumbers, DrainFrameStays
<1>3. w.data.valid = kick[k].data.valid
  BY <1>1, <1>2, DrainedIs
<1>4. Works(k)
  BY <1>1 DEF Works
<1>5. p = pending[d]
  OBVIOUS
<1> HIDE DEF w, n, p, d
<1>6. kick'[k] = w /\ \A j \in Kickers : j # k => kick'[j] = kick[j]
  BY <1>2 DEF XmaShape, KicksShape, KickStays
<1>7. UNCHANGED <<stream, inUse, slot, decoder, tail, bufferOf, unread, strayed>>
  BY <1>2 DEF KickStays
<1> SUFFICES ASSUME ~strayed
             PROVE  SoundsStayApart' /\ OwnInputs'
  BY <1>7 DEF OwnSounds
<1>8. SoundsStayApart /\ OwnInputs /\ inUse /\ decoder = d
  BY <1>4, OneHolder, WorksHolds DEF OwnSounds, Owned, OneOwner, d
<1>9. OwnInputs'
  BY <1>3, <1>4, <1>6, <1>7, <1>8 DEF OwnInputs, Works
<1>10. SoundsStayApart'
  <2>1. ASSUME pending'[d] > 0
        PROVE  pending[d] > 0 /\ frameOf'[d] = frameOf[d]
    BY <1>1, <1>2, <1>5, <2>1 DEF XmaShape, DecoderShape
  <2> QED
    BY <1>7, <1>8, <2>1 DEF SoundsStayApart
<1> QED
  BY <1>9, <1>10

LEMMA OwnersSounds ==
  ASSUME XmaShape, Owned, OwnSounds, AllocateXmaContext \/ ReleaseXmaContext
  PROVE  OwnSounds'
<1> SUFFICES ASSUME ~strayed'
             PROVE  SoundsStayApart' /\ OwnInputs'
  BY DEF OwnSounds
<1>1. CASE AllocateXmaContext
  <2>1. /\ ~inUse /\ ~strayed /\ UNCHANGED <<slot, decoder, kick>>
    BY <1>1 DEF AllocateXmaContext
  <2>2. decoder = NoDecoder /\ \A b \in Inputs : ~slot.valid[b]
    BY <2>1 DEF Owned, OneOwner
  <2>3. \A k \in Kickers : ~Holds(k)
    BY <2>1, OneHolder
  <2> QED
    BY <2>1, <2>2, <2>3, WorksHolds DEF SoundsStayApart, OwnInputs, Works
<1>2. CASE ReleaseXmaContext
  <2>1. ~inUse' /\ ~strayed /\ ~Locked(decoder) /\ kick' = kick
    BY <1>2 DEF ReleaseXmaContext, XmaShape, SlotShape
  <2>2. \A k \in Kickers : ~Holds(k)
    BY <2>1, OneHolder
  <2> QED
    BY <2>1, <2>2, WorksHolds DEF SoundsStayApart, OwnInputs, Works
<1> QED
  BY <1>1, <1>2

LEMMA TitleSounds ==
  ASSUME XmaShape, OwnSounds, TitleStep
  PROVE  OwnSounds'
<1>1. UNCHANGED <<stream, inUse, decoder, pending, frameOf, kick, strayed, overran>>
  BY DEF TitleStep, Submit, TakeBlocks, OnlyDrain, OfferRing, Title
<1>2. \A b \in Inputs : bufferOf'[b] = bufferOf[b] \/ bufferOf'[b] = stream
  BY DEF TitleStep, Submit, TakeBlocks, OnlyDrain, OfferRing, XmaShape, SlotShape
<1>3. \A b \in Inputs : slot'.valid[b] => slot.valid[b] \/ bufferOf'[b] = stream
  BY DEF TitleStep, Submit, TakeBlocks, OnlyDrain, OfferRing, XmaShape, SlotShape, Context
<1> QED
  BY <1>1, <1>2, <1>3 DEF OwnSounds, SoundsStayApart, OwnInputs, Works

LEMMA StepSounds ==
  ASSUME XmaShape, Owned, OwnSounds, NEW k \in Kickers, KickStep(k)
  PROVE  OwnSounds'
<1>1. ASSUME NEW what \in {"kicked", "clear"}, HwContext(k, what)
      PROVE  OwnSounds'
  <2>1. PICK d \in Decoders :
          /\ inUse /\ kick[k].at = "idle" /\ decoder' = d
          /\ decoder # NoDecoder => d = decoder
          /\ kick' = [kick EXCEPT ![k] = [AtRest EXCEPT !.at = what, !.decoder = d]]
          /\ pending' = IF decoder = NoDecoder THEN [pending EXCEPT ![d] = 0] ELSE pending
          /\ UNCHANGED <<stream, inUse, slot, frameOf, tail, bufferOf, undecoded, unread,
                         strayed, overran>>
    BY <1>1, HwContextIs, Zenon
  <2>2. kick'[k].at = what /\ \A j \in Kickers : j # k => kick'[j] = kick[j]
    BY <2>1 DEF XmaShape, KicksShape, AtRest
  <2>3. (decoder # NoDecoder /\ decoder' = decoder /\ pending' = pending) \/ pending'[decoder'] = 0
    BY <2>1 DEF XmaShape, DecoderShape
  <2>4. SoundsStayApart => SoundsStayApart'
    BY <2>1, <2>3 DEF SoundsStayApart
  <2>5. OwnInputs => OwnInputs'
    BY <2>1, <2>2 DEF OwnInputs, Works
  <2> QED
    BY <2>1, <2>4, <2>5 DEF OwnSounds
<1>2. CASE BeginWork(k)
  <2>1. /\ kick' = [kick EXCEPT ![k] = Begun(kick[k])]
        /\ strayed' = (strayed \/ (kick[k].decoder # decoder /\ slot.out))
        /\ kick[k].at = "kicked"
        /\ UNCHANGED <<stream, inUse, slot, decoder, pending, frameOf, tail, bufferOf,
                       undecoded, unread, overran>>
    BY <1>2, BeginWorkIs
  <2>2. Begun(kick[k]) = AtRest \/ (Begun(kick[k]).data = slot /\ slot.out)
    BY DEF Begun, AtRest
  <2>3. kick'[k] = Begun(kick[k]) /\ \A j \in Kickers : j # k => kick'[j] = kick[j]
    BY <2>1 DEF XmaShape, KicksShape
  <2> HIDE DEF Begun
  <2> SUFFICES ASSUME ~strayed'
               PROVE  SoundsStayApart' /\ OwnInputs'
    BY DEF OwnSounds
  <2>4. ~strayed /\ SoundsStayApart /\ OwnInputs
    BY <2>1 DEF OwnSounds, XmaShape, SlotShape
  <2>5. SoundsStayApart'
    BY <2>1, <2>4 DEF SoundsStayApart
  <2>6. CASE Begun(kick[k]) = AtRest
    BY <2>1, <2>3, <2>4, <2>5, <2>6 DEF OwnInputs, Works, AtRest
  <2>7. CASE Begun(kick[k]).data = slot /\ slot.out
    <3>1. kick[k].decoder = decoder /\ kick[k].decoder \in Decoders
      BY <2>1, <2>7, KickFields DEF XmaShape
    <3>2. inUse
      BY <2>4, <3>1, XmaAssumption, FS_CardinalityType DEF Owned, OneOwner, Decoders, NoDecoder
    <3> QED
      BY <2>1, <2>3, <2>4, <2>5, <2>7, <3>2 DEF OwnInputs, Works, SoundsStayApart
  <2> QED
    BY <2>2, <2>6, <2>7
<1>3. CASE StoreMerged(k)
  <2>1. /\ slot' = Merged(kick[k].data, kick[k].initial, slot)
        /\ kick' = [kick EXCEPT ![k] = AtRest]
        /\ UNCHANGED <<stream, inUse, decoder, pending, frameOf, tail, bufferOf, strayed>>
    BY <1>3 DEF StoreMerged
  <2>2. \A b \in Inputs : slot'.valid[b] => slot.valid[b]
    <3>1. /\ kick[k].data \in Context /\ kick[k].initial \in Context /\ slot \in Context
      BY KickFields DEF XmaShape, SlotShape
    <3>2. \A b \in Inputs : Merged(kick[k].data, kick[k].initial, slot).valid[b] => slot.valid[b]
      BY <3>1, MergedValid, Zenon
    <3> QED
      BY <2>1, <3>2
  <2>3. kick'[k] = AtRest /\ \A j \in Kickers : j # k => kick'[j] = kick[j]
    BY <2>1 DEF XmaShape, KicksShape
  <2> QED
    BY <2>1, <2>2, <2>3 DEF OwnSounds, SoundsStayApart, OwnInputs, Works, AtRest
<1>4. CASE BeginClear(k)
  <2>1. /\ kick[k].at = "clear" /\ kick' = [kick EXCEPT ![k] = Cleared(kick[k])]
        /\ pending' = [pending EXCEPT ![kick[k].decoder] = 0]
        /\ frameOf' = [frameOf EXCEPT ![kick[k].decoder] = 0]
        /\ strayed' = (strayed \/ kick[k].decoder # decoder)
        /\ UNCHANGED <<stream, inUse, slot, decoder, tail, bufferOf, undecoded, unread, overran>>
    BY <1>4, BeginClearIs
  <2>2. Cleared(kick[k]).at = "clearing"
    BY <2>1, ClearedIs
  <2>3. kick'[k] = Cleared(kick[k]) /\ \A j \in Kickers : j # k => kick'[j] = kick[j]
    BY <2>1 DEF XmaShape, KicksShape
  <2>4. \A d \in Decoders : \/ pending'[d] = 0
                            \/ pending'[d] = pending[d] /\ frameOf'[d] = frameOf[d]
    BY <2>1 DEF XmaShape, DecoderShape
  <2>5. decoder # NoDecoder => decoder \in Decoders
    BY DEF XmaShape, SlotShape
  <2> HIDE DEF Cleared
  <2>6. SoundsStayApart => SoundsStayApart'
    BY <2>1, <2>4, <2>5 DEF SoundsStayApart, XmaShape, SlotShape
  <2>7. OwnInputs => OwnInputs'
    BY <2>1, <2>2, <2>3 DEF OwnInputs, Works
  <2> QED
    BY <2>1, <2>6, <2>7 DEF OwnSounds
<1>5. CASE StoreClear(k)
  <2>1. /\ slot' = kick[k].data /\ kick[k].at = "clearing"
        /\ kick' = [kick EXCEPT ![k] = AtRest]
        /\ UNCHANGED <<stream, inUse, decoder, pending, frameOf, tail, bufferOf, strayed>>
    BY <1>5 DEF StoreClear
  <2>2. \A b \in Inputs : ~slot'.valid[b]
    BY <2>1, KickFields DEF XmaShape
  <2>3. kick'[k] = AtRest /\ \A j \in Kickers : j # k => kick'[j] = kick[j]
    BY <2>1 DEF XmaShape, KicksShape
  <2> QED
    BY <2>1, <2>2, <2>3 DEF OwnSounds, SoundsStayApart, OwnInputs, Works, AtRest
<1> QED
  BY <1>1, <1>2, <1>3, <1>4, <1>5, WorkSounds, DrainSounds DEF KickStep

LEMMA SoundsInit == XmaInit => OwnSounds
BY DEF XmaInit, OwnSounds, SoundsStayApart, OwnInputs, Works, AtRest

LEMMA SoundsKept == XmaShape /\ Owned /\ OwnSounds /\ [XmaNext]_xmaVars => OwnSounds'
<1> SUFFICES ASSUME XmaShape, Owned, OwnSounds, [XmaNext]_xmaVars PROVE OwnSounds'
  OBVIOUS
<1>1. CASE UNCHANGED xmaVars
  BY <1>1 DEF xmaVars, OwnSounds, SoundsStayApart, OwnInputs, Works
<1> QED
  BY <1>1, OwnersSounds, TitleSounds, StepSounds, XmaSteps

-----------------------------------------------------------------------------
(* The frames of the input buffers *)

\* The frames left in the buffers are those from the read offset on.
InStep(c, left) ==
  /\ c.offset # 0 => c.valid[c.current]
  /\ \A b \in Inputs : c.valid[b] =>
       left[b] = (IF b = c.current THEN BufferFrames - c.offset ELSE BufferFrames)

\* A buffer of which nothing is left, or that ends in a frame that cannot be completed.
UsedUp(left, end) == left = 0 \/ (left = 1 /\ end = "split header")

\* A kick at work knows where it is; what it has let go of is used up, and what the title
\* submitted meanwhile is whole.
Keeps(w, s, left, ends) ==
  /\ InStep(w.data, left)
  /\ \A b \in Inputs :
       /\ w.data.valid[b] => w.initial.valid[b]
       /\ w.initial.valid[b] => s.valid[b]
       /\ w.initial.valid[b] /\ ~w.data.valid[b] => UsedUp(left[b], ends[b])
       /\ s.valid[b] /\ ~w.initial.valid[b] => left[b] = BufferFrames

Counted ==
  /\ (\A k \in Kickers : ~Holds(k)) => InStep(slot, undecoded)
  /\ \A k \in Kickers : Works(k) => Keeps(kick[k], slot, undecoded, tail)

InputsCounted == strayed \/ Counted

\* The context a pass decodes from is in step, ...
LEMMA ChosenInStep ==
  ASSUME XmaShape, NEW c \in Context, InStep(c, undecoded), Any(c)
  PROVE  LET s == Chosen(c)
         IN  /\ InStep(s, undecoded) /\ s.valid[s.current] /\ c.valid[s.current]
             /\ s.current \in Inputs /\ s \in Context
             /\ \A b \in Inputs : s.valid[b] <=> c.valid[b]
<1>1. /\ c.valid \in [Inputs -> BOOLEAN] /\ c.current \in Inputs /\ Inputs = {0, 1}
      /\ c.offset \in 0 .. (BufferFrames - 1)
  BY ContextFields, XmaNumbers
<1>2. CASE c.valid[c.current]
  BY <1>1, <1>2 DEF Chosen
<1>3. CASE ~c.valid[c.current]
  <2>1. Chosen(c) = Swap(c)
    BY <1>3 DEF Chosen
  <2>2. /\ Swap(c) \in Context /\ Swap(c).valid = [c.valid EXCEPT ![c.current] = FALSE]
        /\ Swap(c).current = 1 - c.current /\ Swap(c).offset = 0
    BY SwapIs
  <2>3. PICK b \in Inputs : c.valid[b]
    BY DEF Any
  <2>4. b = 1 - c.current
    BY <1>1, <1>3, <2>3
  <2>5. \A a \in Inputs : Swap(c).valid[a] <=> c.valid[a]
    BY <1>1, <1>3, <2>2
  <2>6. BufferFrames - 0 = BufferFrames
    BY XmaNumbers
  <2>7. InStep(Swap(c), undecoded)
    BY <1>1, <1>3, <2>2, <2>5, <2>6 DEF InStep
  <2> QED
    BY <1>1, <2>1, <2>2, <2>3, <2>4, <2>5, <2>7
<1> QED
  BY <1>2, <1>3

\* ... and so is what Decode makes of it, with the frame it decoded taken off.
LEMMA DecodedInStep ==
  ASSUME XmaShape, NEW c \in Context, InStep(c, undecoded), c.valid[c.current],
         NEW left \in [Inputs -> 0 .. Spoilt],
         left = IF Decodes(c) THEN [undecoded EXCEPT ![c.current] = Due(c)] ELSE undecoded
  PROVE  /\ InStep(Decoded(c), left)
         /\ \A b \in Inputs :
              /\ Decoded(c).valid[b] => c.valid[b]
              /\ c.valid[b] /\ ~Decoded(c).valid[b] => UsedUp(left[b], tail[b])
<1>1. /\ c.valid \in [Inputs -> BOOLEAN] /\ c.current \in Inputs /\ Inputs = {0, 1}
      /\ c.offset \in 0 .. (BufferFrames - 1) /\ BufferFrames \in Nat \ {0}
      /\ undecoded \in [Inputs -> 0 .. Spoilt]
  BY ContextFields, XmaNumbers DEF XmaShape, DecoderShape
<1>2. undecoded[c.current] = BufferFrames - c.offset
  BY <1>1 DEF InStep
<1>3. Due(c) = BufferFrames - c.offset - 1
  BY <1>1, <1>2 DEF Due
<1>4. \A b \in Inputs : b # c.current => left[b] = undecoded[b]
  BY <1>1
<1>5. CASE ~IsLast(c) /\ Decodes(c) /\ Decoded(c) = [c EXCEPT !.offset = @ + 1]
  <2>1. /\ Decoded(c).valid = c.valid /\ Decoded(c).current = c.current
        /\ Decoded(c).offset = c.offset + 1
    BY <1>5 DEF Context
  <2>2. left[c.current] = BufferFrames - (c.offset + 1)
    BY <1>1, <1>3, <1>5
  <2> QED
    BY <1>1, <1>4, <2>1, <2>2 DEF InStep
<1>6. ASSUME IsLast(c), Decoded(c) = Swap(c), UsedUp(left[c.current], tail[c.current])
      PROVE  /\ InStep(Decoded(c), left)
             /\ \A b \in Inputs :
                  /\ Decoded(c).valid[b] => c.valid[b]
                  /\ c.valid[b] /\ ~Decoded(c).valid[b] => UsedUp(left[b], tail[b])
  <2>1. /\ Swap(c).valid = [c.valid EXCEPT ![c.current] = FALSE]
        /\ Swap(c).current = 1 - c.current /\ Swap(c).offset = 0
    BY SwapIs
  <2>2. BufferFrames - 0 = BufferFrames
    BY XmaNumbers
  <2>3. \A b \in Inputs : Swap(c).valid[b] <=> (b # c.current /\ c.valid[b])
    BY <1>1, <2>1
  <2>4. InStep(Swap(c), left)
    BY <1>1, <1>4, <2>1, <2>2, <2>3 DEF InStep
  <2> QED
    BY <1>6, <2>3, <2>4
<1>7. CASE IsLast(c) /\ Decodes(c) /\ Decoded(c) = Swap(c)
  <2>1. left[c.current] = 0
    BY <1>1, <1>3, <1>7 DEF IsLast
  <2>2. UsedUp(left[c.current], tail[c.current])
    BY <2>1 DEF UsedUp
  <2> QED
    BY <1>6, <1>7, <2>2, Zenon
<1>8. CASE IsLast(c) /\ ~Decodes(c) /\ tail[c.current] = "split header" /\ Decoded(c) = Swap(c)
  <2>1. left[c.current] = 1
    <3>1. left = undecoded /\ c.offset = BufferFrames - 1
      BY <1>8 DEF IsLast
    <3> QED
      BY <1>1, <1>2, <3>1
  <2>2. UsedUp(left[c.current], tail[c.current])
    BY <2>1, <1>8 DEF UsedUp
  <2> QED
    BY <1>6, <1>8, <2>2, Zenon
<1>9. CASE IsLast(c) /\ ~Decodes(c) /\ Decoded(c) = [c EXCEPT !.error = TRUE]
  <2>1. /\ Decoded(c).valid = c.valid /\ Decoded(c).current = c.current
        /\ Decoded(c).offset = c.offset
    BY <1>9 DEF Context
  <2> QED
    BY <1>9, <2>1 DEF InStep
<1> QED
  BY <1>5, <1>7, <1>8, <1>9, DecodedIs, Zenon

LEMMA PassCounts ==
  ASSUME XmaShape, NEW k \in Kickers, Keeps(kick[k], slot, undecoded, tail),
         NEW left \in [Inputs -> 0 .. Spoilt],
         left = IF TakesFrame(kick[k])
                THEN [undecoded EXCEPT ![Chosen(kick[k].data).current] = Due(Chosen(kick[k].data))]
                ELSE undecoded,
         NEW w, w.initial = kick[k].initial, w.data.valid = PassData(kick[k]).valid,
         w.data.current = PassData(kick[k]).current, w.data.offset = PassData(kick[k]).offset
  PROVE  Keeps(w, slot, left, tail)
<1> DEFINE c == Chosen(kick[k].data)
<1>1. kick[k].data \in Context /\ InStep(kick[k].data, undecoded)
  BY KickFields DEF XmaShape, Keeps
<1>2. CASE ~Takes(kick[k])
  <2>1. left = undecoded /\ PassData(kick[k]) = kick[k].data
    BY <1>2 DEF TakesFrame, PassData
  <2> QED
    BY <2>1 DEF Keeps, InStep
<1>3. CASE Takes(kick[k])
  <2>1. /\ c \in Context /\ InStep(c, undecoded) /\ c.valid[c.current]
        /\ kick[k].data.valid[c.current] /\ c.current \in Inputs
        /\ \A b \in Inputs : c.valid[b] <=> kick[k].data.valid[b]
    BY <1>1, <1>3, ChosenInStep DEF Takes
  <2>2. /\ left = IF Decodes(c) THEN [undecoded EXCEPT ![c.current] = Due(c)] ELSE undecoded
        /\ PassData(kick[k]) = Decoded(c)
    BY <1>3 DEF TakesFrame, PassData
  <2> HIDE DEF c
  <2>3. /\ InStep(Decoded(c), left)
        /\ \A b \in Inputs :
             /\ Decoded(c).valid[b] => c.valid[b]
             /\ c.valid[b] /\ ~Decoded(c).valid[b] => UsedUp(left[b], tail[b])
    BY <2>1, <2>2, DecodedInStep
  <2>4. \A b \in Inputs : b # c.current => left[b] = undecoded[b]
    BY <2>2 DEF XmaShape, DecoderShape
  <2>5. InStep(w.data, left)
    BY <2>2, <2>3 DEF InStep
  <2>6. ASSUME NEW b \in Inputs
        PROVE  /\ w.data.valid[b] => w.initial.valid[b]
               /\ w.initial.valid[b] => slot.valid[b]
               /\ w.initial.valid[b] /\ ~w.data.valid[b] => UsedUp(left[b], tail[b])
               /\ slot.valid[b] /\ ~w.initial.valid[b] => left[b] = BufferFrames
    <3>1. /\ kick[k].data.valid[b] => kick[k].initial.valid[b]
          /\ kick[k].initial.valid[b] => slot.valid[b]
          /\ kick[k].initial.valid[b] /\ ~kick[k].data.valid[b] => UsedUp(undecoded[b], tail[b])
          /\ slot.valid[b] /\ ~kick[k].initial.valid[b] => undecoded[b] = BufferFrames
      BY DEF Keeps
    <3>2. ~kick[k].data.valid[b] => left[b] = undecoded[b]
      BY <2>1, <2>4
    <3> QED
      BY <2>1, <2>2, <2>3, <3>1, <3>2
  <2> QED
    BY <2>5, <2>6 DEF Keeps
<1> QED
  BY <1>2, <1>3

\* One thread moves, as far as the counts of the others go.
LEMMA CountMoves ==
  ASSUME XmaShape, Owned, ~strayed, Counted, NEW k \in Kickers, Works(k), NEW w,
         kick' = [kick EXCEPT ![k] = w], slot' = slot, tail' = tail,
         w.at \in {"working", "storing", "draining"}, Keeps(w, slot, undecoded', tail)
  PROVE  Counted'
<1>1. kick'[k] = w /\ \A j \in Kickers : j # k => kick'[j] = kick[j]
  BY DEF XmaShape, KicksShape
<1>2. \A j \in Kickers : j # k => ~Works(j)
  BY OneHolder, WorksHolds
<1>3. Holds(k)'
  BY <1>1 DEF Holds
<1>4. \A j \in Kickers : Works(j)' => j = k
  BY <1>1, <1>2 DEF Works
<1>5. \A j \in Kickers : Works(j)' => Keeps(kick'[j], slot', undecoded', tail')
  BY <1>1, <1>4
<1> QED
  BY <1>3, <1>5 DEF Counted

LEMMA WorkCounted ==
  ASSUME XmaShape, Owned, InputsCounted, NEW k \in Kickers, NEW made \in BOOLEAN,
         WorkPass(k, made)
  PROVE  InputsCounted'
<1>1. kick[k].at = "working" /\ Works(k)
  BY WorkPassIs DEF Works
<1>2. PICK n, room : \E done \in BOOLEAN :
        PassTaken(k, PassLeft(kick[k], made), n, room, done)
  BY WorkPassIs, Zenon
<1>3. PICK done \in BOOLEAN : PassTaken(k, PassLeft(kick[k], made), n, room, done)
  BY <1>2, Zenon
<1> DEFINE w == PassedOn(kick[k], n, room, done)
<1>4. n \in 0 .. Blocks /\ room \in 0 .. Blocks /\ (~done => room >= Minimum)
  BY <1>1, <1>3, PassNumbers
<1>5. /\ w.data.valid = PassData(kick[k]).valid /\ w.data.current = PassData(kick[k]).current
      /\ w.data.offset = PassData(kick[k]).offset /\ w.initial = kick[k].initial
  BY <1>1, <1>4, PassedData
<1>6. w.at \in {"working", "storing", "draining"}
  <2>1. PassFields(k, n, room, done, w)
    BY <1>1, <1>4, PassedOnIs
  <2> QED
    BY <2>1, Zenon DEF PassFields
<1>7. /\ kick' = [kick EXCEPT ![k] = w] /\ UNCHANGED <<slot, tail, strayed>>
      /\ undecoded' = IF TakesFrame(kick[k])
                      THEN [undecoded EXCEPT ![Chosen(kick[k].data).current] =
                              Due(Chosen(kick[k].data))]
                      ELSE undecoded
  BY <1>3 DEF PassTaken
<1> HIDE DEF w
<1>8. undecoded' \in [Inputs -> 0 .. Spoilt]
  <2>1. Due(Chosen(kick[k].data)) \in 0 .. Spoilt
    BY PassDataIs, DueIs DEF XmaShape, DecoderShape
  <2> QED
    BY <1>7, <2>1 DEF XmaShape, DecoderShape
<1> SUFFICES ASSUME ~strayed
             PROVE  Counted'
  BY <1>7 DEF InputsCounted
<1>9. Counted /\ Keeps(kick[k], slot, undecoded, tail)
  BY <1>1 DEF InputsCounted, Counted
<1>10. Keeps(w, slot, undecoded', tail)
  BY <1>5, <1>7, <1>8, <1>9, PassCounts
<1> QED
  BY <1>1, <1>6, <1>7, <1>9, <1>10, CountMoves

LEMMA DrainCounted ==
  ASSUME XmaShape, Owned, InputsCounted, NEW k \in Kickers, DrainFrame(k)
  PROVE  InputsCounted'
<1> DEFINE n == AtMostAPass(pending[kick[k].decoder])
           w == Drained(kick[k], n)
<1>1. /\ kick[k].at = "draining" /\ Works(k) /\ kick' = [kick EXCEPT ![k] = w]
      /\ UNCHANGED <<slot, tail, undecoded, strayed>>
  BY DrainFrameIs DEF Works
<1>2. n \in Nat
  BY <1>1, DrainNumbers
<1> HIDE DEF n
<1>3. /\ w.at = "storing" /\ w.initial = kick[k].initial
      /\ w.data.valid = kick[k].data.valid /\ w.data.current = kick[k].data.current
      /\ w.data.offset = kick[k].data.offset
  BY <1>1, <1>2, DrainedIs
<1> HIDE DEF w
<1> SUFFICES ASSUME ~strayed
             PROVE  Counted'
  BY <1>1 DEF InputsCounted
<1>4. Counted /\ Keeps(kick[k], slot, undecoded, tail)
  BY <1>1 DEF InputsCounted, Counted
<1>5. Keeps(w, slot, undecoded', tail)
  BY <1>1, <1>3, <1>4 DEF Keeps, InStep
<1> QED
  BY <1>1, <1>3, <1>4, <1>5, CountMoves

LEMMA OwnersCounted ==
  ASSUME XmaShape, Owned, InputsCounted, AllocateXmaContext \/ ReleaseXmaContext
  PROVE  InputsCounted'
<1> SUFFICES ASSUME ~strayed'
             PROVE  Counted'
  BY DEF InputsCounted
<1>1. CASE AllocateXmaContext
  BY <1>1 DEF AllocateXmaContext, InputsCounted, Counted, Holds, Works
<1>2. CASE ReleaseXmaContext
  <2>1. ~strayed /\ ~Locked(decoder) /\ UNCHANGED <<kick, undecoded>> /\ slot' = Zeroed
    BY <1>2 DEF ReleaseXmaContext, XmaShape, SlotShape
  <2>2. \A k \in Kickers : ~Works(k)
    BY <2>1, OneHolder, WorksHolds
  <2>3. InStep(Zeroed, undecoded)
    BY DEF InStep, Zeroed
  <2> QED
    BY <2>1, <2>2, <2>3 DEF Counted, Works
<1> QED
  BY <1>1, <1>2

LEMMA SubmitCounted ==
  ASSUME XmaShape, Counted, NEW a \in Inputs, NEW t \in Tails, Submit(a, t)
  PROVE  Counted'
<1>1. /\ kick' = kick /\ ~slot.valid[a]
      /\ slot' = [slot EXCEPT !.valid[a] = TRUE, !.counted = TRUE]
      /\ tail' = [tail EXCEPT ![a] = t]
      /\ undecoded' = [undecoded EXCEPT ![a] = BufferFrames]
  BY DEF Submit, Title
<1>2. /\ slot'.valid = [slot.valid EXCEPT ![a] = TRUE] /\ slot'.current = slot.current
      /\ slot'.offset = slot.offset
  BY <1>1 DEF XmaShape, SlotShape, Context
<1>3. slot.valid \in [Inputs -> BOOLEAN] /\ undecoded \in [Inputs -> 0 .. Spoilt]
      /\ tail \in [Inputs -> TailForms]
  BY ContextFields DEF XmaShape, SlotShape, DecoderShape
<1>4. slot'.valid[a] /\ \A b \in Inputs : b # a => slot'.valid[b] = slot.valid[b]
  BY <1>2, <1>3
<1>5. /\ undecoded'[a] = BufferFrames
      /\ \A b \in Inputs : b # a => undecoded'[b] = undecoded[b] /\ tail'[b] = tail[b]
  BY <1>1, <1>3
<1>6. ASSUME InStep(slot, undecoded)
      PROVE  InStep(slot', undecoded')
  <2>1. a = slot.current => slot.offset = 0
    BY <1>1, <1>6 DEF InStep
  <2>2. BufferFrames - 0 = BufferFrames
    BY XmaNumbers
  <2> QED
    BY <1>2, <1>4, <1>5, <1>6, <2>1, <2>2 DEF InStep
<1>7. ASSUME NEW k \in Kickers, Keeps(kick[k], slot, undecoded, tail)
      PROVE  Keeps(kick[k], slot', undecoded', tail')
  <2>1. ~kick[k].initial.valid[a] /\ ~kick[k].data.valid[a]
    BY <1>1, <1>7 DEF Keeps
  <2>2. InStep(kick[k].data, undecoded')
    BY <1>5, <1>7, <2>1 DEF Keeps, InStep
  <2> QED
    BY <1>4, <1>5, <1>7, <2>1, <2>2 DEF Keeps
<1> QED
  BY <1>1, <1>6, <1>7 DEF Counted, Holds, Works

LEMMA TitleCounted ==
  ASSUME XmaShape, InputsCounted, TitleStep
  PROVE  InputsCounted'
<1>1. kick' = kick /\ strayed' = strayed
  BY DEF TitleStep, Submit, TakeBlocks, OnlyDrain, OfferRing, Title
<1> SUFFICES ASSUME Counted
             PROVE  Counted'
  BY <1>1 DEF InputsCounted
<1>2. CASE \E b \in Inputs, t \in Tails : Submit(b, t)
  BY <1>2, SubmitCounted
<1>3. CASE (\E n \in 1 .. Blocks : TakeBlocks(n)) \/ OnlyDrain \/ OfferRing
  <2>1. /\ slot'.valid = slot.valid /\ slot'.current = slot.current
        /\ slot'.offset = slot.offset /\ UNCHANGED <<tail, undecoded>>
    BY <1>3 DEF TakeBlocks, OnlyDrain, OfferRing, XmaShape, SlotShape, Context
  <2> QED
    BY <1>1, <2>1 DEF Counted, InStep, Keeps, Holds, Works
<1> QED
  BY <1>2, <1>3 DEF TitleStep

\* What a kick stores is in step.
LEMMA MergedInStep ==
  ASSUME NEW data \in Context, NEW initial \in Context, NEW fresh \in Context,
         InStep(data, undecoded),
         \A b \in Inputs :
           /\ data.valid[b] => initial.valid[b]
           /\ initial.valid[b] => fresh.valid[b]
           /\ fresh.valid[b] /\ ~initial.valid[b] => undecoded[b] = BufferFrames
  PROVE  InStep(Merged(data, initial, fresh), undecoded)
<1> DEFINE m == Merged(data, initial, fresh)
<1>1. m.current = data.current /\ m.offset = data.offset /\ data.current \in Inputs
  <2>1. m.current = data.current /\ m.offset = data.offset
    BY MergedIs
  <2> QED
    BY <2>1, ContextFields
<1>2. \A b \in Inputs :
        m.valid[b] <=> (fresh.valid[b] /\ ~(initial.valid[b] /\ ~data.valid[b]))
  BY MergedValid, Zenon
<1> HIDE DEF m
<1>3. BufferFrames - 0 = BufferFrames
  BY XmaNumbers
<1>4. m.offset # 0 => m.valid[m.current]
  BY <1>1, <1>2 DEF InStep
<1>5. ASSUME NEW b \in Inputs, m.valid[b]
      PROVE  undecoded[b] = IF b = m.current THEN BufferFrames - m.offset ELSE BufferFrames
  <2>1. CASE data.valid[b]
    BY <1>1, <2>1 DEF InStep
  <2>2. CASE ~data.valid[b]
    <3>1. undecoded[b] = BufferFrames
      BY <1>2, <1>5, <2>2
    <3>2. b = m.current => m.offset = 0
      BY <1>1, <2>2 DEF InStep
    <3> QED
      BY <1>3, <3>1, <3>2
  <2> QED
    BY <2>1, <2>2
<1>6. InStep(m, undecoded)
  BY <1>4, <1>5, Zenon DEF InStep
<1> QED
  BY <1>6 DEF m

LEMMA StoreCounted ==
  ASSUME XmaShape, Owned, InputsCounted, NEW k \in Kickers, StoreMerged(k) \/ StoreClear(k)
  PROVE  InputsCounted'
<1>1. /\ kick' = [kick EXCEPT ![k] = AtRest] /\ Holds(k)
      /\ UNCHANGED <<undecoded, tail, strayed>>
  BY DEF StoreMerged, StoreClear, Holds
<1> SUFFICES ASSUME ~strayed
             PROVE  Counted'
  BY <1>1 DEF InputsCounted
<1>2. kick'[k] = AtRest /\ \A j \in Kickers : j # k => kick'[j] = kick[j]
  BY <1>1 DEF XmaShape, KicksShape
<1>3. \A j \in Kickers : ~Works(j)'
  BY <1>1, <1>2, OneHolder, WorksHolds DEF Works, AtRest
<1>4. InStep(slot', undecoded)
  <2>1. CASE StoreMerged(k)
    <3>1. slot' = Merged(kick[k].data, kick[k].initial, slot) /\ Works(k)
      BY <2>1 DEF StoreMerged, Works
    <3>2. kick[k].data \in Context /\ kick[k].initial \in Context /\ slot \in Context
      BY KickFields DEF XmaShape, SlotShape
    <3>3. Keeps(kick[k], slot, undecoded, tail)
      BY <3>1 DEF InputsCounted, Counted
    <3> QED
      BY <3>1, <3>2, <3>3, MergedInStep DEF Keeps
  <2>2. CASE StoreClear(k)
    <3>1. slot' = kick[k].data /\ kick[k].at = "clearing"
      BY <2>2 DEF StoreClear
    <3>2. slot'.offset = 0 /\ \A b \in Inputs : ~slot'.valid[b]
      BY <3>1, KickFields DEF XmaShape
    <3> QED
      BY <3>2 DEF InStep
  <2> QED
    BY <2>1, <2>2
<1> QED
  BY <1>1, <1>3, <1>4 DEF Counted

LEMMA HwContextCounted ==
  ASSUME XmaShape, InputsCounted, NEW k \in Kickers, NEW what \in {"kicked", "clear"},
         HwContext(k, what)
  PROVE  InputsCounted'
<1>1. PICK d \in Decoders :
        /\ inUse /\ kick[k].at = "idle" /\ decoder' = d
        /\ decoder # NoDecoder => d = decoder
        /\ kick' = [kick EXCEPT ![k] = [AtRest EXCEPT !.at = what, !.decoder = d]]
        /\ pending' = IF decoder = NoDecoder THEN [pending EXCEPT ![d] = 0] ELSE pending
        /\ UNCHANGED <<stream, inUse, slot, frameOf, tail, bufferOf, undecoded, unread,
                       strayed, overran>>
  BY HwContextIs, Zenon
<1>2. kick'[k].at = what /\ \A j \in Kickers : j # k => kick'[j] = kick[j]
  BY <1>1 DEF XmaShape, KicksShape, AtRest
<1>3. \A j \in Kickers : (Holds(j)' <=> Holds(j)) /\ (Works(j)' => Works(j) /\ j # k)
  BY <1>1, <1>2 DEF Holds, Works
<1> QED
  BY <1>1, <1>2, <1>3 DEF InputsCounted, Counted

LEMMA BeginCounted ==
  ASSUME XmaShape, Owned, InputsCounted, NEW k \in Kickers, BeginWork(k)
  PROVE  InputsCounted'
<1>1. /\ kick[k].at = "kicked" /\ ~Locked(kick[k].decoder)
      /\ strayed' = (strayed \/ (kick[k].decoder # decoder /\ slot.out))
      /\ kick' = [kick EXCEPT ![k] = Begun(kick[k])]
      /\ UNCHANGED <<slot, tail, undecoded>>
  BY BeginWorkIs
<1>2. \/ Begun(kick[k]) = AtRest
      \/ /\ Begun(kick[k]).data = slot /\ Begun(kick[k]).initial = slot /\ slot.out
         /\ Begun(kick[k]).at \in {"working", "storing", "draining"}
  BY DEF Begun, AtRest
<1>3. kick'[k] = Begun(kick[k]) /\ \A j \in Kickers : j # k => kick'[j] = kick[j]
  BY <1>1 DEF XmaShape, KicksShape
<1> HIDE DEF Begun
<1> SUFFICES ASSUME ~strayed'
             PROVE  Counted'
  BY DEF InputsCounted
<1>4. ~strayed /\ Counted
  BY <1>1 DEF InputsCounted, XmaShape, SlotShape
<1>5. CASE Begun(kick[k]) = AtRest
  <2>1. \A j \in Kickers : (Holds(j)' <=> Holds(j)) /\ (Works(j)' => Works(j) /\ j # k)
    BY <1>1, <1>3, <1>5 DEF Holds, Works, AtRest
  <2> QED
    BY <1>1, <1>3, <1>4, <2>1 DEF Counted
<1>6. CASE /\ Begun(kick[k]).data = slot /\ Begun(kick[k]).initial = slot /\ slot.out
           /\ Begun(kick[k]).at \in {"working", "storing", "draining"}
  <2>1. \A j \in Kickers : ~Holds(j)
    BY <1>1, <1>4, <1>6, OneHolder
  <2>2. InStep(slot, undecoded)
    BY <1>4, <2>1 DEF Counted
  <2>3. Keeps(Begun(kick[k]), slot, undecoded, tail)
    BY <1>6, <2>2 DEF Keeps
  <2>4. \A j \in Kickers : Works(j)' => j = k
    BY <1>3, <2>1, WorksHolds DEF Works
  <2>5. Holds(k)'
    BY <1>3, <1>6 DEF Holds
  <2> QED
    BY <1>1, <1>3, <2>3, <2>4, <2>5 DEF Counted
<1> QED
  BY <1>2, <1>5, <1>6

LEMMA BeginClearCounted ==
  ASSUME XmaShape, InputsCounted, NEW k \in Kickers, BeginClear(k)
  PROVE  InputsCounted'
<1>1. /\ kick[k].at = "clear" /\ kick' = [kick EXCEPT ![k] = Cleared(kick[k])]
      /\ strayed' = (strayed \/ kick[k].decoder # decoder)
      /\ UNCHANGED <<slot, tail, undecoded>>
  BY BeginClearIs
<1>2. Cleared(kick[k]).at = "clearing"
  BY <1>1, ClearedIs
<1>3. kick'[k] = Cleared(kick[k]) /\ \A j \in Kickers : j # k => kick'[j] = kick[j]
  BY <1>1 DEF XmaShape, KicksShape
<1>4. Holds(k)' /\ \A j \in Kickers : Works(j)' => Works(j) /\ j # k
  BY <1>2, <1>3 DEF Holds, Works
<1> HIDE DEF Cleared
<1> QED
  BY <1>1, <1>3, <1>4 DEF InputsCounted, Counted

LEMMA CountedInit == XmaInit => InputsCounted
<1> SUFFICES ASSUME XmaInit PROVE Counted
  BY DEF InputsCounted
<1>1. \A k \in Kickers : ~Works(k)
  BY DEF XmaInit, Works, AtRest
<1>2. InStep(slot, undecoded)
  BY DEF XmaInit, InStep, Zeroed
<1> QED
  BY <1>1, <1>2 DEF Counted

LEMMA CountedKept ==
  XmaShape /\ Owned /\ InputsCounted /\ [XmaNext]_xmaVars => InputsCounted'
<1> SUFFICES ASSUME XmaShape, Owned, InputsCounted, [XmaNext]_xmaVars PROVE InputsCounted'
  OBVIOUS
<1>1. CASE UNCHANGED xmaVars
  BY <1>1 DEF xmaVars, InputsCounted, Counted, Holds, Works
<1>2. ASSUME NEW k \in Kickers, KickStep(k)
      PROVE  InputsCounted'
  BY <1>2, HwContextCounted, BeginCounted, WorkCounted, DrainCounted, StoreCounted,
     BeginClearCounted DEF KickStep
<1> QED
  BY <1>1, <1>2, OwnersCounted, TitleCounted, XmaSteps

\* A step that gives a buffer back found it used up.
LEMMA UsedUpStep ==
  ASSUME XmaShape, Owned, InputsCounted, [XmaNext]_xmaVars,
         NEW b \in Inputs, slot.valid[b], ~slot'.valid[b]
  PROVE  \/ undecoded[b] = 0 \/ (undecoded[b] = 1 /\ tail[b] = "split header")
         \/ WasCleared \/ inUse # inUse' \/ strayed
<1>1. CASE AllocateXmaContext \/ ReleaseXmaContext
  <2>1. CASE AllocateXmaContext
    BY <2>1 DEF AllocateXmaContext
  <2>2. CASE ReleaseXmaContext
    BY <2>2, Zenon DEF ReleaseXmaContext
  <2> QED
    BY <1>1, <2>1, <2>2
<1>2. CASE TitleStep
  BY <1>2 DEF TitleStep, Submit, TakeBlocks, OnlyDrain, OfferRing, XmaShape, SlotShape, Context
<1>3. ASSUME NEW k \in Kickers, StoreMerged(k), ~strayed
      PROVE  undecoded[b] = 0 \/ (undecoded[b] = 1 /\ tail[b] = "split header")
  <2>1. slot' = Merged(kick[k].data, kick[k].initial, slot) /\ Works(k)
    BY <1>3 DEF StoreMerged, Works
  <2>2. kick[k].data \in Context /\ kick[k].initial \in Context /\ slot \in Context
    BY KickFields DEF XmaShape, SlotShape
  <2>3. kick[k].initial.valid[b] /\ ~kick[k].data.valid[b]
    BY <2>1, <2>2, MergedValid, Zenon
  <2>4. Keeps(kick[k], slot, undecoded, tail)
    BY <1>3, <2>1 DEF InputsCounted, Counted
  <2> QED
    BY <2>3, <2>4 DEF Keeps, UsedUp
<1>4. ASSUME NEW k \in Kickers, StoreClear(k)
      PROVE  WasCleared
  <2>1. kick[k].at = "clearing" /\ kick'[k] = AtRest
    BY <1>4 DEF StoreClear, XmaShape, KicksShape
  <2> QED
    BY <2>1 DEF WasCleared, AtRest
<1>5. ASSUME NEW k \in Kickers, KickStep(k), ~StoreMerged(k), ~StoreClear(k)
      PROVE  slot' = slot
  BY <1>5 DEF KickStep, HwContext, BeginWork, WorkPass, DrainFrame, BeginClear
<1>6. CASE UNCHANGED xmaVars
  BY <1>6 DEF xmaVars
<1> QED
  BY <1>1, <1>2, <1>3, <1>4, <1>5, <1>6, XmaSteps

-----------------------------------------------------------------------------
(* The output ring *)

\* From one place on to another and on to a third.
LEMMA AfterAfter ==
  ASSUME NEW p \in 0 .. (Blocks - 1), NEW m \in 0 .. Blocks, NEW n \in 0 .. Blocks,
         m + n <= Blocks
  PROVE  After(After(p, m), n) = After(p, m + n)
<1>1. Blocks \in Nat \ {0}
  BY XmaNumbers
<1>2. m + n \in 0 .. Blocks
  BY <1>1
<1>3. /\ After(p, m) \in 0 .. (Blocks - 1)
      /\ After(p, m) = IF p + m < Blocks THEN p + m ELSE p + m - Blocks
  BY AfterIs
<1>4. After(p, m + n) = IF p + (m + n) < Blocks THEN p + (m + n) ELSE p + (m + n) - Blocks
  BY <1>2, AfterIs
<1>5. After(After(p, m), n) =
        IF After(p, m) + n < Blocks THEN After(p, m) + n ELSE After(p, m) + n - Blocks
  BY <1>3, AfterIs
<1> QED
  BY <1>1, <1>3, <1>4, <1>5

\* Places less than a round apart are different.
LEMMA AfterApart ==
  ASSUME NEW p \in 0 .. (Blocks - 1), NEW m \in 0 .. (Blocks - 1), NEW n \in 0 .. (Blocks - 1),
         After(p, m) = After(p, n)
  PROVE  m = n
<1>1. Blocks \in Nat \ {0}
  BY XmaNumbers
<1>2. m \in 0 .. Blocks /\ n \in 0 .. Blocks
  BY <1>1
<1>3. /\ After(p, m) = IF p + m < Blocks THEN p + m ELSE p + m - Blocks
      /\ After(p, n) = IF p + n < Blocks THEN p + n ELSE p + n - Blocks
  BY <1>2, AfterIs
<1>4. CASE p + m < Blocks
  <2>1. p + m = IF p + n < Blocks THEN p + n ELSE p + n - Blocks
    BY <1>3, <1>4
  <2> QED
    BY <1>1, <2>1
<1>5. CASE ~(p + m < Blocks)
  <2>1. p + m - Blocks = IF p + n < Blocks THEN p + n ELSE p + n - Blocks
    BY <1>3, <1>5
  <2> QED
    BY <1>1, <2>1
<1> QED
  BY <1>4, <1>5

LEMMA SpanJoins ==
  ASSUME NEW p \in 0 .. (Blocks - 1), NEW m \in 0 .. Blocks, NEW n \in 0 .. Blocks,
         m + n <= Blocks
  PROVE  Span(p, m) \union Span(After(p, m), n) \subseteq Span(p, m + n)
<1>1. Blocks \in Nat \ {0}
  BY XmaNumbers
<1>2. ASSUME NEW i \in 0 .. (m - 1)
      PROVE  After(p, i) \in Span(p, m + n)
  <2>1. i \in 0 .. (m + n - 1)
    BY <1>1
  <2> QED
    BY <2>1 DEF Span
<1>3. ASSUME NEW i \in 0 .. (n - 1)
      PROVE  After(After(p, m), i) \in Span(p, m + n)
  <2>1. m + i \in 0 .. (m + n - 1) /\ i \in 0 .. Blocks /\ m + i <= Blocks
    BY <1>1
  <2>2. After(After(p, m), i) = After(p, m + i)
    BY <2>1, AfterAfter
  <2> QED
    BY <2>1, <2>2 DEF Span
<1> QED
  BY <1>2, <1>3 DEF Span

LEMMA SpanApart ==
  ASSUME NEW p \in 0 .. (Blocks - 1), NEW m \in 0 .. Blocks, NEW n \in 0 .. Blocks,
         m + n <= Blocks
  PROVE  Span(After(p, m), n) \cap Span(p, m) = {}
<1>1. Blocks \in Nat \ {0}
  BY XmaNumbers
<1>2. ASSUME NEW i \in 0 .. (n - 1), NEW j \in 0 .. (m - 1), After(After(p, m), i) = After(p, j)
      PROVE  FALSE
  <2>1. /\ m + i \in 0 .. (Blocks - 1) /\ j \in 0 .. (Blocks - 1) /\ i \in 0 .. Blocks
        /\ m + i <= Blocks /\ m + i # j
    BY <1>1
  <2>2. After(After(p, m), i) = After(p, m + i)
    BY <2>1, AfterAfter
  <2> QED
    BY <1>2, <2>1, <2>2, AfterApart
<1> QED
  BY <1>2 DEF Span

\* What is left of a span when its first blocks are taken.
LEMMA SpanRest ==
  ASSUME NEW p \in 0 .. (Blocks - 1), NEW m \in 0 .. Blocks, NEW n \in 0 .. m
  PROVE  Span(p, m) \ Span(p, n) \subseteq Span(After(p, n), m - n)
<1>1. Blocks \in Nat \ {0}
  BY XmaNumbers
<1>2. ASSUME NEW i \in 0 .. (m - 1), After(p, i) \notin Span(p, n)
      PROVE  After(p, i) \in Span(After(p, n), m - n)
  <2>1. ~(i \in 0 .. (n - 1))
    BY <1>2 DEF Span
  <2>2. /\ i - n \in 0 .. ((m - n) - 1) /\ i - n \in 0 .. Blocks /\ n \in 0 .. Blocks
        /\ n + (i - n) <= Blocks /\ n + (i - n) = i
    BY <1>1, <2>1
  <2>3. After(After(p, n), i - n) = After(p, i)
    BY <2>2, AfterAfter
  <2> QED
    BY <2>2, <2>3 DEF Span
<1> QED
  BY <1>2 DEF Span

\* How much the ring holds by its two offsets.
Full(c) == (c.write + Blocks - c.read) % Blocks

LEMMA FullIs ==
  ASSUME NEW c \in Context
  PROVE  /\ Full(c) \in 0 .. (Blocks - 1) /\ Full(c) \in 0 .. Blocks
         /\ c.write = After(c.read, Full(c))
         /\ c.read = c.write <=> Full(c) = 0
         /\ Full(c) + Room(c) = Blocks
<1>1. Blocks \in Nat \ {0} /\ c.read \in 0 .. (Blocks - 1) /\ c.write \in 0 .. (Blocks - 1)
  BY XmaNumbers, ContextFields
<1> DEFINE x == c.write + Blocks - c.read
<1>2. x \in Nat /\ x < 2 * Blocks
  BY <1>1
<1>3. x % Blocks = IF x < Blocks THEN x ELSE x - Blocks
  <2> HIDE DEF x
  <2> QED
    BY <1>1, <1>2
<1>4. Full(c) = IF c.read <= c.write THEN c.write - c.read ELSE c.write + Blocks - c.read
  BY <1>1, <1>3 DEF Full
<1>5. Full(c) \in 0 .. (Blocks - 1) /\ Full(c) \in 0 .. Blocks
  BY <1>1, <1>4
<1>6. After(c.read, Full(c)) =
        IF c.read + Full(c) < Blocks THEN c.read + Full(c) ELSE c.read + Full(c) - Blocks
  BY <1>1, <1>5, AfterIs
<1> HIDE DEF x
<1>7. Full(c) + Room(c) = Blocks
  BY <1>1, <1>4, RoomIs
<1> QED
  BY <1>1, <1>4, <1>5, <1>6, <1>7

\* The ring tells the title of these blocks: they lie between its offsets, or it is full and has
\* been taken away, or it is empty.
Told(c, blocks) ==
  IF c.read = c.write THEN c.out => blocks = {} ELSE blocks \subseteq Span(c.read, Full(c))

LEMMA ToldWhen ==
  ASSUME NEW c \in Context, NEW m \in 0 .. Blocks, NEW blocks,
         c.write = After(c.read, m), blocks \subseteq Span(c.read, m), m = Blocks => ~c.out
  PROVE  Told(c, blocks)
<1>1. /\ Blocks \in Nat \ {0} /\ c.read \in 0 .. (Blocks - 1)
      /\ Full(c) \in 0 .. (Blocks - 1) /\ Full(c) \in 0 .. Blocks
      /\ c.write = After(c.read, Full(c)) /\ (c.read = c.write <=> Full(c) = 0)
  BY XmaNumbers, ContextFields, FullIs
<1>2. CASE m = Blocks
  <2>1. After(c.read, m) = IF c.read + m < Blocks THEN c.read + m ELSE c.read + m - Blocks
    <3>1. c.read \in 0 .. (Blocks - 1)
      BY <1>1
    <3> QED
      BY <3>1, AfterIs
  <2>2. c.write = c.read
    <3>1. Blocks \in Nat \ {0} /\ c.read \in 0 .. (Blocks - 1)
      BY <1>1
    <3>2. After(c.read, m) = c.read
      BY <1>2, <2>1, <3>1
    <3> QED
      BY <3>2
  <2> QED
    BY <1>2, <2>2 DEF Told
<1>3. CASE m # Blocks
  <2>1. m \in 0 .. (Blocks - 1)
    BY <1>1, <1>3
  <2>2. m = Full(c)
    BY <1>1, <2>1, AfterApart
  <2>3. m = 0 => Span(c.read, m) = {}
    BY DEF Span
  <2> QED
    BY <1>1, <2>2, <2>3 DEF Told
<1> QED
  BY <1>2, <1>3

\* A kick that decodes: it has gone g blocks on from the write offset it loaded, and the blocks
\* it may still write are free.
Passing(w, blocks) ==
  /\ w.data.out /\ w.data.write = w.initial.write
  /\ blocks \subseteq Span(w.initial.read, Full(w.initial))
  /\ \E g \in 0 .. Blocks :
       /\ w.position = After(w.initial.write, g)
       /\ Full(w.initial) + g + w.room <= Blocks
       /\ w.wrote \subseteq Span(w.initial.write, g)

\* A kick that drains has written nothing yet.
Draining(w, blocks) ==
  /\ w.data.out /\ ~w.drops /\ w.position = w.data.write /\ w.room = Room(w.data)
  /\ Told(w.data, blocks)

\* A kick that is to store tells of what it wrote, or takes back what it was told of.
Storing(w, blocks) ==
  IF w.drops THEN w.data.write = w.data.read ELSE Told(w.data, blocks \union w.wrote)

RingKick(w, blocks) ==
  /\ w.initial.out /\ w.data.read = w.initial.read
  /\ w.at = "working" => Passing(w, blocks)
  /\ w.at = "draining" => Draining(w, blocks)
  /\ w.at = "storing" => Storing(w, blocks)

RingTold ==
  /\ (\A k \in Kickers : ~Holds(k)) => Told(slot, unread)
  /\ \A k \in Kickers : Works(k) => RingKick(kick[k], unread)

RingKnown == strayed \/ overran \/ RingTold

\* What the title reads is no longer in question.
LEMMA RingShrinks ==
  ASSUME NEW w, NEW blocks, NEW fewer, fewer \subseteq blocks, RingKick(w, blocks)
  PROVE  RingKick(w, fewer)
<1>1. \A c, a, b : a \subseteq b /\ Told(c, b) => Told(c, a)
  BY DEF Told
<1>2. fewer \union w.wrote \subseteq blocks \union w.wrote
  OBVIOUS
<1>3. Passing(w, blocks) => Passing(w, fewer)
  BY DEF Passing
<1>4. Draining(w, blocks) => Draining(w, fewer)
  BY <1>1 DEF Draining
<1>5. Storing(w, blocks) => Storing(w, fewer)
  BY <1>1, <1>2 DEF Storing
<1> QED
  BY <1>3, <1>4, <1>5 DEF RingKick

\* What the title may read, and what is left of it.
LEMMA ToldOffered ==
  ASSUME XmaShape, Told(slot, unread)
  PROVE  /\ Offered \in 0 .. Blocks /\ slot.write = After(slot.read, Offered)
         /\ unread \subseteq Span(slot.read, Offered)
<1>1. /\ slot \in Context /\ unread \subseteq 0 .. (Blocks - 1)
      /\ Blocks \in Nat \ {0} /\ slot.read \in 0 .. (Blocks - 1)
  BY XmaNumbers, ContextFields DEF XmaShape, SlotShape
<1>2. CASE slot.write # slot.read
  <2>1. Offered = Full(slot)
    BY <1>2 DEF Offered, Full
  <2> QED
    BY <1>1, <1>2, <2>1, FullIs DEF Told
<1>3. CASE slot.write = slot.read /\ unread = {}
  <2>1. Offered = 0 /\ 0 \in 0 .. Blocks
    BY <1>1, <1>3 DEF Offered
  <2>2. After(slot.read, 0) = slot.read
    <3>1. After(slot.read, 0) = IF slot.read + 0 < Blocks THEN slot.read + 0
                                ELSE slot.read + 0 - Blocks
      BY <1>1, <2>1, AfterIs
    <3> QED
      BY <1>1, <3>1
  <2> QED
    BY <1>3, <2>1, <2>2
<1>4. CASE slot.write = slot.read /\ unread # {}
  <2>1. Offered = Blocks /\ Blocks \in 0 .. Blocks
    <3>1. Offered = Blocks
      BY <1>4 DEF Offered
    <3> QED
      BY <1>1, <3>1
  <2>2. After(slot.read, Blocks) = slot.read
    <3>1. After(slot.read, Blocks) = IF slot.read + Blocks < Blocks THEN slot.read + Blocks
                                     ELSE slot.read + Blocks - Blocks
      BY <1>1, <2>1, AfterIs
    <3> QED
      BY <1>1, <3>1
  <2>3. ASSUME NEW x \in 0 .. (Blocks - 1)
        PROVE  x \in Span(slot.read, Blocks)
    <3> DEFINE i == IF x < slot.read THEN x + Blocks - slot.read ELSE x - slot.read
    <3>1. i \in 0 .. (Blocks - 1) /\ i \in 0 .. Blocks
      BY <1>1
    <3>2. After(slot.read, i) = IF slot.read + i < Blocks THEN slot.read + i
                                ELSE slot.read + i - Blocks
      <4> HIDE DEF i
      <4> QED
        BY <1>1, <3>1, AfterIs
    <3>3. x = After(slot.read, i)
      BY <1>1, <3>1, <3>2
    <3> QED
      BY <3>1, <3>3 DEF Span
  <2> QED
    BY <1>1, <1>4, <2>1, <2>2, <2>3
<1> QED
  BY <1>2, <1>3, <1>4

LEMMA TakeTold ==
  ASSUME XmaShape, Told(slot, unread), NEW n \in 1 .. Blocks, TakeBlocks(n)
  PROVE  Told(slot', unread')
<1>1. /\ n <= Offered /\ slot' = [slot EXCEPT !.read = After(slot.read, n), !.out = TRUE]
      /\ unread' = unread \ Span(slot.read, n)
  BY DEF TakeBlocks
<1>2. /\ Blocks \in Nat \ {0} /\ slot \in Context /\ slot.read \in 0 .. (Blocks - 1)
      /\ Offered \in 0 .. Blocks /\ slot.write = After(slot.read, Offered)
      /\ unread \subseteq Span(slot.read, Offered)
  BY XmaNumbers, ContextFields, ToldOffered DEF XmaShape, SlotShape
<1> DEFINE m == Offered - n
<1>3. /\ n \in 0 .. Blocks /\ n \in 0 .. Offered /\ m \in 0 .. Blocks /\ m # Blocks
      /\ n + m = Offered /\ n + m <= Blocks
  BY <1>1, <1>2
<1> HIDE DEF m
<1>4. After(slot.read, n) \in 0 .. (Blocks - 1)
  BY <1>2, <1>3, AfterIs
<1>5. /\ slot' \in Context /\ slot'.read = After(slot.read, n) /\ slot'.write = slot.write
  BY <1>1, <1>2, <1>4 DEF Context
<1>6. slot'.write = After(slot'.read, m)
  BY <1>2, <1>3, <1>5, AfterAfter
<1>7. unread' \subseteq Span(slot'.read, m)
  <2>1. Span(slot.read, Offered) \ Span(slot.read, n) \subseteq Span(After(slot.read, n), Offered - n)
    BY <1>2, <1>3, SpanRest
  <2> QED
    BY <1>1, <1>2, <1>5, <2>1 DEF m
<1> QED
  BY <1>3, <1>5, <1>6, <1>7, ToldWhen

LEMMA TitleRing ==
  ASSUME XmaShape, RingKnown, TitleStep
  PROVE  RingKnown'
<1>1. UNCHANGED <<kick, strayed, overran>>
  BY DEF TitleStep, Submit, TakeBlocks, OnlyDrain, OfferRing, Title
<1> SUFFICES ASSUME RingTold
             PROVE  RingTold'
  BY <1>1 DEF RingKnown
<1>2. unread' \subseteq unread
  BY DEF TitleStep, Submit, TakeBlocks, OnlyDrain, OfferRing, Title
<1>3. ASSUME Told(slot, unread)
      PROVE  Told(slot', unread')
  <2>1. CASE \E n \in 1 .. Blocks : TakeBlocks(n)
    BY <1>3, <2>1, TakeTold
  <2>2. CASE OfferRing
    <3>1. unread' = {}
      BY <2>2 DEF OfferRing
    <3> QED
      BY <3>1 DEF Told
  <2>3. CASE OnlyDrain \/ \E b \in Inputs, t \in Tails : Submit(b, t)
    <3>1. /\ slot'.read = slot.read /\ slot'.write = slot.write /\ slot'.out = slot.out
          /\ unread' = unread
      BY <2>3 DEF OnlyDrain, Submit, XmaShape, SlotShape, Context
    <3> QED
      BY <1>3, <3>1 DEF Told, Full
  <2> QED
    BY <2>1, <2>2, <2>3 DEF TitleStep
<1>4. ASSUME NEW k \in Kickers, RingKick(kick[k], unread)
      PROVE  RingKick(kick[k], unread')
  BY <1>2, <1>4, RingShrinks
<1> QED
  BY <1>1, <1>3, <1>4 DEF RingTold, Holds, Works

LEMMA OwnersRing ==
  ASSUME XmaShape, Owned, RingKnown, AllocateXmaContext \/ ReleaseXmaContext
  PROVE  RingKnown'
<1> SUFFICES ASSUME ~strayed', ~overran'
             PROVE  RingTold'
  BY DEF RingKnown
<1>1. /\ ~strayed /\ ~overran /\ kick' = kick
  BY DEF AllocateXmaContext, ReleaseXmaContext, XmaShape, SlotShape
<1>2. RingTold
  BY <1>1 DEF RingKnown
<1>3. CASE AllocateXmaContext
  <2>1. unread' = {}
    BY <1>3 DEF AllocateXmaContext
  <2>2. Told(slot', unread')
    BY <2>1 DEF Told
  <2>3. \A k \in Kickers : RingKick(kick[k], unread) => RingKick(kick[k], unread')
    BY <2>1, RingShrinks
  <2> QED
    BY <1>1, <1>2, <2>2, <2>3 DEF RingTold, Works
<1>4. CASE ReleaseXmaContext
  <2>1. ~Locked(decoder) /\ slot' = Zeroed
    BY <1>1, <1>4 DEF ReleaseXmaContext, XmaShape, SlotShape
  <2>2. \A k \in Kickers : ~Works(k)
    BY <1>1, <2>1, OneHolder, WorksHolds
  <2>3. Told(slot', unread')
    BY <2>1 DEF Told, Zeroed
  <2> QED
    BY <1>1, <2>2, <2>3 DEF RingTold, Works
<1> QED
  BY <1>3, <1>4

\* One thread moves, as far as the ring goes.
LEMMA RingMoves ==
  ASSUME XmaShape, Owned, ~strayed, NEW k \in Kickers,
         Works(k) \/ \A j \in Kickers : ~Holds(j),
         NEW w, kick' = [kick EXCEPT ![k] = w], UNCHANGED unread,
         w.at \in {"working", "storing", "draining"}, RingKick(w, unread)
  PROVE  RingTold'
<1>1. kick'[k] = w /\ \A j \in Kickers : j # k => kick'[j] = kick[j]
  BY DEF XmaShape, KicksShape
<1>2. \A j \in Kickers : j # k => ~Works(j)
  BY OneHolder, WorksHolds
<1>3. Holds(k)'
  BY <1>1 DEF Holds
<1>4. \A j \in Kickers : Works(j)' => j = k
  BY <1>1, <1>2 DEF Works
<1>5. \A j \in Kickers : Works(j)' => RingKick(kick'[j], unread')
  BY <1>1, <1>4
<1> QED
  BY <1>3, <1>5 DEF RingTold

LEMMA StoreRing ==
  ASSUME XmaShape, Owned, RingKnown, NEW k \in Kickers, StoreMerged(k) \/ StoreClear(k)
  PROVE  RingKnown'
<1>1. /\ kick' = [kick EXCEPT ![k] = AtRest] /\ Holds(k) /\ UNCHANGED <<strayed, overran>>
  BY DEF StoreMerged, StoreClear, Holds
<1> SUFFICES ASSUME ~strayed, ~overran
             PROVE  RingTold'
  BY <1>1 DEF RingKnown
<1>2. kick'[k] = AtRest /\ \A j \in Kickers : j # k => kick'[j] = kick[j]
  BY <1>1 DEF XmaShape, KicksShape
<1>3. \A j \in Kickers : ~Works(j)'
  BY <1>1, <1>2, OneHolder, WorksHolds DEF Works, AtRest
<1>4. CASE StoreClear(k)
  <2>1. Told(slot', unread')
    BY <1>4 DEF StoreClear, Told
  <2> QED
    BY <1>3, <2>1 DEF RingTold
<1>5. CASE StoreMerged(k)
  <2>1. /\ slot' = Merged(kick[k].data, kick[k].initial, slot)
        /\ unread' = IF kick[k].drops THEN {} ELSE unread \union kick[k].wrote
        /\ kick[k].at = "storing"
    BY <1>5 DEF StoreMerged
  <2>2. kick[k].initial.out /\ Storing(kick[k], unread)
    BY <2>1 DEF RingKnown, RingTold, RingKick, Works
  <2>3. kick[k].data \in Context /\ kick[k].initial \in Context /\ slot \in Context
    BY KickFields DEF XmaShape, SlotShape
  <2>4. /\ slot'.read = kick[k].data.read /\ slot'.write = kick[k].data.write
        /\ slot'.out => kick[k].data.out
    BY <2>1, <2>2, <2>3, MergedRing, Zenon
  <2>5. Told(slot', unread')
    <3>1. CASE kick[k].drops
      BY <2>1, <2>2, <2>4, <3>1 DEF Storing, Told
    <3>2. CASE ~kick[k].drops
      <4>1. Told(kick[k].data, unread')
        BY <2>1, <2>2, <3>2 DEF Storing
      <4> QED
        BY <2>4, <4>1 DEF Told, Full
    <3> QED
      BY <3>1, <3>2
  <2> QED
    BY <1>3, <2>5 DEF RingTold
<1> QED
  BY <1>4, <1>5

LEMMA HwContextRing ==
  ASSUME XmaShape, RingKnown, NEW k \in Kickers, NEW what \in {"kicked", "clear"},
         HwContext(k, what)
  PROVE  RingKnown'
<1>1. PICK d \in Decoders :
        /\ inUse /\ kick[k].at = "idle" /\ decoder' = d
        /\ decoder # NoDecoder => d = decoder
        /\ kick' = [kick EXCEPT ![k] = [AtRest EXCEPT !.at = what, !.decoder = d]]
        /\ pending' = IF decoder = NoDecoder THEN [pending EXCEPT ![d] = 0] ELSE pending
        /\ UNCHANGED <<stream, inUse, slot, frameOf, tail, bufferOf, undecoded, unread,
                       strayed, overran>>
  BY HwContextIs, Zenon
<1>2. kick'[k].at = what /\ \A j \in Kickers : j # k => kick'[j] = kick[j]
  BY <1>1 DEF XmaShape, KicksShape, AtRest
<1>3. \A j \in Kickers : (Holds(j)' <=> Holds(j)) /\ (Works(j)' => Works(j) /\ j # k)
  BY <1>1, <1>2 DEF Holds, Works
<1> QED
  BY <1>1, <1>2, <1>3 DEF RingKnown, RingTold

LEMMA BeginClearRing ==
  ASSUME XmaShape, RingKnown, NEW k \in Kickers, BeginClear(k)
  PROVE  RingKnown'
<1>1. /\ kick[k].at = "clear" /\ kick' = [kick EXCEPT ![k] = Cleared(kick[k])]
      /\ strayed' = (strayed \/ kick[k].decoder # decoder)
      /\ UNCHANGED <<slot, unread, overran>>
  BY BeginClearIs
<1>2. Cleared(kick[k]).at = "clearing"
  BY <1>1, ClearedIs
<1>3. kick'[k] = Cleared(kick[k]) /\ \A j \in Kickers : j # k => kick'[j] = kick[j]
  BY <1>1 DEF XmaShape, KicksShape
<1>4. Holds(k)' /\ \A j \in Kickers : Works(j)' => Works(j) /\ j # k
  BY <1>2, <1>3 DEF Holds, Works
<1> HIDE DEF Cleared
<1> QED
  BY <1>1, <1>3, <1>4 DEF RingKnown, RingTold

LEMMA AfterNone ==
  ASSUME NEW p \in 0 .. (Blocks - 1)
  PROVE  After(p, 0) = p /\ Span(p, 0) = {}
<1>1. Blocks \in Nat \ {0} /\ 0 \in 0 .. Blocks
  BY XmaNumbers
<1>2. After(p, 0) = IF p + 0 < Blocks THEN p + 0 ELSE p + 0 - Blocks
  BY <1>1, AfterIs
<1> QED
  BY <1>1, <1>2 DEF Span

LEMMA BeginRing ==
  ASSUME XmaShape, Owned, RingKnown, NEW k \in Kickers, BeginWork(k)
  PROVE  RingKnown'
<1>1. /\ kick[k].at = "kicked" /\ ~Locked(kick[k].decoder)
      /\ strayed' = (strayed \/ (kick[k].decoder # decoder /\ slot.out))
      /\ kick' = [kick EXCEPT ![k] = Begun(kick[k])]
      /\ UNCHANGED <<slot, unread, overran>>
  BY BeginWorkIs
<1> DEFINE w == Begun(kick[k])
<1>2. \/ w = AtRest
      \/ /\ w.data = slot /\ w.initial = slot /\ slot.out /\ ~w.drops /\ w.wrote = {}
         /\ w.position = slot.write /\ w.room = Room(slot)
         /\ w.at \in {"working", "storing", "draining"}
  BY DEF Begun, AtRest
<1>3. /\ kick' = [kick EXCEPT ![k] = w]
      /\ kick'[k] = w /\ \A j \in Kickers : j # k => kick'[j] = kick[j]
  BY <1>1 DEF XmaShape, KicksShape
<1> HIDE DEF w
<1> SUFFICES ASSUME ~strayed', ~overran'
             PROVE  RingTold'
  BY DEF RingKnown
<1>4. ~strayed /\ RingTold
  BY <1>1 DEF RingKnown, XmaShape, SlotShape
<1>5. CASE w = AtRest
  <2>1. \A j \in Kickers : (Holds(j)' <=> Holds(j)) /\ (Works(j)' => Works(j) /\ j # k)
    BY <1>1, <1>3, <1>5 DEF Holds, Works, AtRest
  <2> QED
    BY <1>1, <1>3, <1>4, <2>1 DEF RingTold
<1>6. CASE /\ w.data = slot /\ w.initial = slot /\ slot.out /\ ~w.drops /\ w.wrote = {}
           /\ w.position = slot.write /\ w.room = Room(slot)
           /\ w.at \in {"working", "storing", "draining"}
  <2>1. \A j \in Kickers : ~Holds(j)
    <3>1. w # AtRest
      BY <1>6 DEF AtRest
    <3>2. kick[k].decoder = decoder
      BY <1>1, <1>6
    <3> QED
      BY <1>1, <1>4, <3>2, OneHolder
  <2>2. Told(slot, unread)
    BY <1>4, <2>1 DEF RingTold
  <2>3. /\ slot \in Context /\ slot.read \in 0 .. (Blocks - 1) /\ slot.write \in 0 .. (Blocks - 1)
        /\ Blocks \in Nat \ {0}
    BY ContextFields, XmaNumbers DEF XmaShape, SlotShape
  <2>4. Passing(w, unread)
    <3>1. unread \subseteq Span(slot.read, Full(slot))
      BY <1>6, <2>2, <2>3, FullIs, AfterNone DEF Told
    <3>2. After(slot.write, 0) = slot.write /\ 0 \in 0 .. Blocks
      BY <2>3, AfterNone
    <3>3. Full(slot) + 0 + Room(slot) <= Blocks
      BY <2>3, FullIs, RoomIs
    <3> QED
      BY <1>6, <3>1, <3>2, <3>3 DEF Passing
  <2>5. Draining(w, unread)
    BY <1>6, <2>2 DEF Draining
  <2>6. Storing(w, unread)
    <3>1. unread \union w.wrote = unread
      BY <1>6
    <3> QED
      BY <1>6, <2>2, <3>1 DEF Storing
  <2>7. RingKick(w, unread)
    BY <1>6, <2>4, <2>5, <2>6 DEF RingKick
  <2> QED
    BY <1>1, <1>3, <1>4, <1>6, <2>1, <2>7, RingMoves
<1> QED
  BY <1>2, <1>5, <1>6

\* A draining kick had the room for what it wrote.
LEMMA DrainRing ==
  ASSUME XmaShape, Owned, RingKnown, NEW k \in Kickers, DrainFrame(k)
  PROVE  RingKnown'
<1> DEFINE n == AtMostAPass(pending[kick[k].decoder])
           w == Drained(kick[k], n)
           c == kick[k].data
<1>1. /\ kick[k].at = "draining" /\ kick' = [kick EXCEPT ![k] = w]
      /\ overran' = (overran \/ n > kick[k].room)
      /\ UNCHANGED <<slot, unread, strayed>>
  BY DrainFrameIs
<1>2. n \in Nat
  BY <1>1, DrainNumbers
<1> HIDE DEF n
<1>3. /\ KickShape(w) /\ w.at = "storing" /\ w.initial = kick[k].initial
      /\ w.wrote = Span(kick[k].position, n) /\ w.drops = kick[k].drops
      /\ w.data.write = After(kick[k].position, n) /\ w.data.read = c.read
      /\ (w.data.out => w.data.write # w.data.read)
  BY <1>1, <1>2, DrainedIs
<1>4. w.data \in Context /\ c \in Context /\ kick[k].room \in 0 .. Blocks
  BY <1>3, KickFields DEF XmaShape, KickShape, Kick
<1> HIDE DEF w, c
<1> SUFFICES ASSUME ~strayed, ~overran'
             PROVE  RingTold'
  BY <1>1 DEF RingKnown
<1>5. ~overran /\ n <= kick[k].room /\ Works(k)
  <2>1. ~overran /\ ~(n > kick[k].room)
    BY <1>1, Zenon
  <2>2. Works(k)
    BY <1>1 DEF Works
  <2> QED
    BY <1>2, <1>4, <2>1, <2>2
<1>6. /\ kick[k].initial.out /\ c.read = kick[k].initial.read /\ Draining(kick[k], unread)
  BY <1>1, <1>5 DEF RingKnown, RingTold, RingKick, c
<1>7. /\ c.out /\ ~kick[k].drops /\ kick[k].position = c.write /\ kick[k].room = Room(c)
      /\ Told(c, unread)
  BY <1>6 DEF Draining, c
<1> DEFINE m == Full(c) + n
<1>8. /\ Blocks \in Nat \ {0} /\ c.read \in 0 .. (Blocks - 1) /\ Full(c) \in 0 .. Blocks
      /\ c.write = After(c.read, Full(c)) /\ n \in 0 .. Blocks
      /\ m \in 0 .. Blocks /\ Full(c) + n <= Blocks
  <2>1. /\ Full(c) \in 0 .. Blocks /\ c.write = After(c.read, Full(c))
        /\ Full(c) + Room(c) = Blocks
    BY <1>4, FullIs
  <2>2. Blocks \in Nat \ {0} /\ c.read \in 0 .. (Blocks - 1)
    BY <1>4, XmaNumbers, ContextFields
  <2>3. Room(c) \in 0 .. Blocks /\ n <= Room(c)
    BY <1>4, <1>5, <1>7
  <2> QED
    BY <1>2, <2>1, <2>2, <2>3
<1>9. w.data.write = After(w.data.read, m)
  BY <1>3, <1>7, <1>8, AfterAfter
<1>10. unread \union w.wrote \subseteq Span(w.data.read, m)
  <2>1. unread \subseteq Span(c.read, Full(c))
    BY <1>4, <1>7, <1>8, FullIs, AfterNone DEF Told
  <2>2. Span(c.read, Full(c)) \union Span(After(c.read, Full(c)), n) \subseteq Span(c.read, Full(c) + n)
    BY <1>8, SpanJoins
  <2> QED
    BY <1>3, <1>7, <1>8, <2>1, <2>2
<1>11. m = Blocks => ~w.data.out
  <2>1. ASSUME m = Blocks
        PROVE  After(c.read, m) = c.read
    <3>1. After(c.read, m) = IF c.read + m < Blocks THEN c.read + m ELSE c.read + m - Blocks
      BY <1>8, AfterIs
    <3> QED
      BY <1>8, <2>1, <3>1
  <2> QED
    BY <1>3, <1>9, <2>1
<1> HIDE DEF m
<1>12. Told(w.data, unread \union w.wrote)
  BY <1>4, <1>8, <1>9, <1>10, <1>11, ToldWhen
<1>13. RingKick(w, unread)
  BY <1>3, <1>6, <1>7, <1>12 DEF RingKick, Storing
<1> QED
  BY <1>1, <1>3, <1>5, <1>13, RingMoves

LEMMA RingWhole ==
  ASSUME NEW p \in 0 .. (Blocks - 1)
  PROVE  After(p, Blocks) = p
<1>1. Blocks \in Nat \ {0} /\ Blocks \in 0 .. Blocks
  BY XmaNumbers
<1>2. After(p, Blocks) = IF p + Blocks < Blocks THEN p + Blocks ELSE p + Blocks - Blocks
  BY <1>1, AfterIs
<1> QED
  BY <1>1, <1>2

\* What a pass has left to store, once the passes are done.
LEMMA DoneStores ==
  ASSUME NEW data \in Context, NEW initial \in Context, data.read = initial.read,
         data.write = initial.write,
         NEW g \in 0 .. Blocks, NEW room \in 0 .. Blocks, Full(initial) + g + room <= Blocks,
         NEW position \in 0 .. (Blocks - 1), position = After(initial.write, g),
         NEW blocks, blocks \subseteq Span(initial.read, Full(initial)),
         NEW wrote, wrote \subseteq Span(initial.write, g), ~Any(initial) => wrote = {},
         ~Starved(initial)
  PROVE  Told(Finished(data, initial, position, room), blocks \union wrote)
<1> DEFINE c == Finished(data, initial, position, room)
           m == IF Any(initial) THEN Full(initial) + g ELSE 0
<1>1. /\ c \in Context /\ c.read = initial.read
      /\ c.write = (IF Any(initial) THEN position
                    ELSE IF Starved(initial) THEN data.read ELSE data.write)
      /\ c.out => ~(room = 0 /\ position = data.read)
  BY FinishedIs
<1>2. /\ Blocks \in Nat \ {0} /\ initial.read \in 0 .. (Blocks - 1)
      /\ Full(initial) \in 0 .. Blocks /\ initial.write = After(initial.read, Full(initial))
      /\ (initial.read = initial.write <=> Full(initial) = 0)
  BY XmaNumbers, ContextFields, FullIs
<1>3. ~Any(initial) => initial.read = initial.write /\ Full(initial) = 0
  BY <1>2 DEF Starved
<1>4. m \in 0 .. Blocks /\ Full(initial) + g <= Blocks
  BY <1>2
<1> HIDE DEF c
<1>5. CASE Any(initial)
  <2>1. c.write = After(c.read, m)
    BY <1>1, <1>2, <1>4, <1>5, AfterAfter
  <2>2. blocks \union wrote \subseteq Span(c.read, m)
    <3>1. Span(initial.read, Full(initial)) \union Span(initial.write, g)
            \subseteq Span(initial.read, Full(initial) + g)
      BY <1>2, <1>4, SpanJoins
    <3> QED
      BY <1>1, <1>5, <3>1
  <2>3. m = Blocks => ~c.out
    <3>1. ASSUME m = Blocks
          PROVE  room = 0 /\ position = data.read
      <4>1. room = 0
        BY <1>2, <1>5, <3>1
      <4>2. After(c.read, m) = c.read
        BY <1>1, <1>2, <3>1, RingWhole
      <4> QED
        BY <1>1, <1>5, <2>1, <4>1, <4>2
    <3> QED
      BY <1>1, <3>1
  <2> HIDE DEF m
  <2>4. Told(c, blocks \union wrote)
    BY <1>1, <1>4, <2>1, <2>2, <2>3, ToldWhen
  <2> QED
    BY <2>4 DEF c
<1>6. CASE ~Any(initial)
  <2>1. blocks \union wrote = {}
    BY <1>2, <1>3, <1>6, AfterNone
  <2>2. c.read = c.write
    BY <1>1, <1>3, <1>6
  <2>3. Told(c, blocks \union wrote)
    BY <2>1, <2>2 DEF Told
  <2> QED
    BY <2>3 DEF c
<1> QED
  BY <1>5, <1>6

\* A kick that goes on has the room it takes for itself; one that is done tells of its blocks.
LEMMA PassRing ==
  ASSUME XmaShape, NEW k \in Kickers, kick[k].at = "working", RingKick(kick[k], unread),
         NEW n \in 0 .. Blocks, NEW room \in 0 .. Blocks, NEW done \in BOOLEAN,
         ~done => room >= Minimum, n + room <= kick[k].room,
         NEW w, KickShape(w), PassFields(k, n, room, done, w)
  PROVE  RingKick(w, unread)
<1> DEFINE i == kick[k].initial
           position == After(kick[k].position, n)
<1>1. /\ i.out /\ kick[k].data.read = i.read /\ Passing(kick[k], unread)
  BY DEF RingKick
<1>2. PICK g \in 0 .. Blocks :
        /\ kick[k].position = After(i.write, g)
        /\ Full(i) + g + kick[k].room <= Blocks
        /\ kick[k].wrote \subseteq Span(i.write, g)
  BY <1>1, Zenon DEF Passing
<1>3. /\ Blocks \in Nat \ {0} /\ i \in Context /\ i.write \in 0 .. (Blocks - 1)
      /\ kick[k].room \in 0 .. Blocks /\ Full(i) \in 0 .. Blocks
      /\ kick[k].position \in 0 .. (Blocks - 1)
  BY XmaNumbers, KickFields, ContextFields, FullIs DEF XmaShape
<1>4. /\ PassData(kick[k]) \in Context /\ PassData(kick[k]).read = i.read
      /\ PassData(kick[k]).write = i.write /\ PassData(kick[k]).out
      /\ unread \subseteq Span(i.read, Full(i))
  <2>1. /\ kick[k].data.out /\ kick[k].data.write = i.write
        /\ unread \subseteq Span(i.read, Full(i))
    BY <1>1 DEF Passing
  <2>2. /\ PassData(kick[k]) \in Context
        /\ PassData(kick[k]).read = kick[k].data.read
        /\ PassData(kick[k]).write = kick[k].data.write
        /\ PassData(kick[k]).out = kick[k].data.out
    BY PassDataIs
  <2> QED
    BY <1>1, <2>1, <2>2
<1>5. /\ w.at = (IF done THEN "storing" ELSE "working") /\ w.initial = i
      /\ w.position = position /\ w.room = room
      /\ w.data = (IF done THEN Finished(PassData(kick[k]), i, position, room)
                   ELSE PassData(kick[k]))
      /\ w.wrote = (IF done /\ ~Any(i) THEN {}
                    ELSE kick[k].wrote \union Span(kick[k].position, n))
      /\ w.drops = (done /\ Starved(i))
  BY Zenon DEF PassFields
<1> DEFINE h == g + n
<1>6. /\ h \in 0 .. Blocks /\ g + n <= Blocks /\ Full(i) + h + room <= Blocks
  BY <1>2, <1>3
<1>7. position = After(i.write, h) /\ position \in 0 .. (Blocks - 1)
  <2>1. After(After(i.write, g), n) = After(i.write, g + n)
    BY <1>3, <1>6, AfterAfter
  <2>2. After(kick[k].position, n) \in 0 .. (Blocks - 1)
    BY <1>3, AfterIs
  <2> QED
    BY <1>2, <2>1, <2>2
<1>8. kick[k].wrote \union Span(kick[k].position, n) \subseteq Span(i.write, h)
  <2>1. Span(i.write, g) \union Span(After(i.write, g), n) \subseteq Span(i.write, g + n)
    BY <1>3, <1>6, SpanJoins
  <2> QED
    BY <1>2, <2>1
<1> HIDE DEF h, position
<1>9. w.wrote \subseteq Span(i.write, h) /\ (done /\ ~Any(i) => w.wrote = {})
  BY <1>5, <1>8
<1>10. CASE ~done
  <2>1. Passing(w, unread)
    BY <1>4, <1>5, <1>6, <1>7, <1>9, <1>10 DEF Passing
  <2> QED
    BY <1>1, <1>4, <1>5, <1>10, <2>1 DEF RingKick
<1>11. CASE done
  <2>1. w.data = Finished(PassData(kick[k]), i, position, room) /\ w.at = "storing"
    BY <1>5, <1>11
  <2>2. /\ w.data.read = i.read
        /\ w.data.write = (IF Any(i) THEN position
                           ELSE IF Starved(i) THEN PassData(kick[k]).read
                           ELSE PassData(kick[k]).write)
    BY <1>3, <1>4, <1>7, <2>1, FinishedIs
  <2>3. CASE Starved(i)
    <3>1. w.data.write = w.data.read /\ w.drops
      BY <1>4, <1>5, <1>11, <2>2, <2>3 DEF Starved
    <3> QED
      BY <1>1, <1>5, <2>1, <2>2, <3>1 DEF RingKick, Storing
  <2>4. CASE ~Starved(i)
    <3>1. Told(Finished(PassData(kick[k]), i, position, room), unread \union w.wrote)
      BY <1>3, <1>4, <1>6, <1>7, <1>9, <1>11, <2>4, DoneStores
    <3>2. ~w.drops
      BY <1>5, <2>4
    <3> QED
      BY <1>1, <1>5, <2>1, <2>2, <3>1, <3>2 DEF RingKick, Storing
  <2> QED
    BY <2>3, <2>4
<1> QED
  BY <1>10, <1>11

LEMMA WorkRing ==
  ASSUME XmaShape, Owned, RingKnown, NEW k \in Kickers, NEW made \in BOOLEAN,
         WorkPass(k, made)
  PROVE  RingKnown'
<1>1. kick[k].at = "working" /\ Works(k)
  BY WorkPassIs DEF Works
<1>2. PICK n, room : \E done \in BOOLEAN :
        PassTaken(k, PassLeft(kick[k], made), n, room, done)
  BY WorkPassIs, Zenon
<1>3. PICK done \in BOOLEAN : PassTaken(k, PassLeft(kick[k], made), n, room, done)
  BY <1>2, Zenon
<1> DEFINE w == PassedOn(kick[k], n, room, done)
<1>4. /\ n \in 0 .. Blocks /\ room \in 0 .. Blocks /\ (~done => room >= Minimum)
      /\ n + room <= kick[k].room
  BY <1>1, <1>3, PassNumbers
<1>5. KickShape(w) /\ PassFields(k, n, room, done, w)
  BY <1>1, <1>4, PassedOnIs
<1>6. w.at \in {"working", "storing", "draining"}
  BY <1>5, Zenon DEF PassFields
<1>7. kick' = [kick EXCEPT ![k] = w] /\ UNCHANGED <<unread, strayed, overran>>
  BY <1>3 DEF PassTaken
<1> HIDE DEF w
<1> SUFFICES ASSUME ~strayed, ~overran
             PROVE  RingTold'
  BY <1>7 DEF RingKnown
<1>8. RingKick(kick[k], unread)
  BY <1>1 DEF RingKnown, RingTold
<1>9. RingKick(w, unread)
  BY <1>1, <1>4, <1>5, <1>8, PassRing
<1> QED
  BY <1>1, <1>6, <1>7, <1>9, RingMoves

LEMMA RingInit == XmaInit => RingKnown
<1> SUFFICES ASSUME XmaInit PROVE RingTold
  BY DEF RingKnown
<1>1. \A k \in Kickers : ~Works(k)
  BY DEF XmaInit, Works, AtRest
<1>2. Told(slot, unread)
  BY DEF XmaInit, Told, Zeroed
<1> QED
  BY <1>1, <1>2 DEF RingTold

LEMMA RingKept == XmaShape /\ Owned /\ RingKnown /\ [XmaNext]_xmaVars => RingKnown'
<1> SUFFICES ASSUME XmaShape, Owned, RingKnown, [XmaNext]_xmaVars PROVE RingKnown'
  OBVIOUS
<1>1. CASE UNCHANGED xmaVars
  BY <1>1 DEF xmaVars, RingKnown, RingTold, Holds, Works
<1>2. ASSUME NEW k \in Kickers, KickStep(k)
      PROVE  RingKnown'
  BY <1>2, HwContextRing, BeginRing, WorkRing, DrainRing, StoreRing, BeginClearRing DEF KickStep
<1> QED
  BY <1>1, <1>2, OwnersRing, TitleRing, XmaSteps

\* What a kick may still write is free.
LEMMA RoomIsFree ==
  ASSUME XmaShape, RingKnown, ~strayed, ~overran, NEW k \in Kickers, kick[k].at = "working"
  PROVE  Span(kick[k].position, kick[k].room) \cap unread = {}
<1> DEFINE i == kick[k].initial
<1>1. Passing(kick[k], unread)
  BY DEF RingKnown, RingTold, RingKick, Works
<1>2. PICK g \in 0 .. Blocks :
        /\ kick[k].position = After(i.write, g)
        /\ Full(i) + g + kick[k].room <= Blocks
        /\ kick[k].wrote \subseteq Span(i.write, g)
  BY <1>1, Zenon DEF Passing
<1>3. /\ Blocks \in Nat \ {0} /\ i.read \in 0 .. (Blocks - 1) /\ Full(i) \in 0 .. Blocks
      /\ kick[k].room \in 0 .. Blocks /\ i.write = After(i.read, Full(i))
  BY XmaNumbers, KickFields, ContextFields, FullIs DEF XmaShape
<1> DEFINE m == Full(i) + g
<1>4. m \in 0 .. Blocks /\ Full(i) + g <= Blocks /\ m + kick[k].room <= Blocks
  BY <1>2, <1>3
<1>5. kick[k].position = After(i.read, m)
  BY <1>2, <1>3, <1>4, AfterAfter
<1>6. unread \subseteq Span(i.read, m)
  <2>1. Span(i.read, Full(i)) \union Span(After(i.read, Full(i)), g) \subseteq Span(i.read, Full(i) + g)
    BY <1>3, <1>4, SpanJoins
  <2> QED
    BY <1>1, <2>1 DEF Passing
<1> HIDE DEF m
<1>7. Span(After(i.read, m), kick[k].room) \cap Span(i.read, m) = {}
  BY <1>3, <1>4, SpanApart
<1> QED
  BY <1>5, <1>6, <1>7

-----------------------------------------------------------------------------
(* The theorems *)

XmaInv == XmaShape /\ Owned /\ OwnSounds /\ InputsCounted /\ RingKnown

LEMMA XmaInvariant == XmaSpec => []XmaInv
<1>1. XmaInit => XmaInv
  BY XmaShapeInit, OwnedInit, SoundsInit, CountedInit, RingInit DEF XmaInv
<1>2. XmaInv /\ [XmaNext]_xmaVars => XmaInv'
  BY XmaShapeKept, OwnedKept, SoundsKept, CountedKept, RingKept DEF XmaInv
<1> QED
  BY <1>1, <1>2, PTL DEF XmaSpec

\* Every variable of the audio slot keeps its type, whatever the number of threads, the size of
\* the ring and of the buffers: offsets stay in the ring and in the buffer, and a kick's room
\* never falls below nothing.
THEOREM XmaTypeCorrect == XmaSpec => []XmaTypeOK
<1>1. XmaInv => XmaTypeOK
  <2> SUFFICES ASSUME XmaInv PROVE XmaTypeOK
    OBVIOUS
  <2>1. \A k \in Kickers : /\ {kick[k].data, kick[k].initial} \subseteq Context
                           /\ kick[k].room \in 0 .. Blocks
    BY KickFields DEF XmaInv, XmaShape
  <2> QED
    BY <2>1 DEF XmaInv, XmaShape, SlotShape, DecoderShape, XmaTypeOK
<1> QED
  BY <1>1, XmaInvariant, PTL

\* No kick that looked for room writes over what the title has yet to read.
THEOREM UnreadSoundSurvives == XmaSpec => []UnreadSurvives
<1>1. XmaInv => UnreadSurvives
  BY RoomIsFree DEF XmaInv, UnreadSurvives
<1> QED
  BY <1>1, XmaInvariant, PTL

\* The frame a decoder still has and the buffers it is to decode are the present stream's.
THEOREM StreamsKeepTheirSounds == XmaSpec => []SoundsStayApart
<1>1. XmaInv => SoundsStayApart
  BY DEF XmaInv, OwnSounds, SoundsStayApart
<1> QED
  BY <1>1, XmaInvariant, PTL

\* A buffer is given back when its frames have been decoded, once each and in their order.
THEOREM BuffersAreUsedUp == XmaSpec => InputsAreUsedUp
<1> DEFINE A ==
      \A b \in Inputs : slot.valid[b] /\ ~slot'.valid[b] =>
        \/ undecoded[b] = 0 \/ (undecoded[b] = 1 /\ tail[b] = "split header")
        \/ WasCleared \/ inUse # inUse' \/ strayed
<1>1. XmaInv /\ [XmaNext]_xmaVars => A
  <2> SUFFICES ASSUME XmaInv, [XmaNext]_xmaVars PROVE A
    OBVIOUS
  <2> QED
    BY UsedUpStep DEF XmaInv
<1>2. XmaInv /\ [XmaNext]_xmaVars => [A]_xmaVars
  BY <1>1
<1>3. [][A]_xmaVars => InputsAreUsedUp
  BY PTL DEF InputsAreUsedUp
<1> QED
  BY <1>2, <1>3, XmaInvariant, PTL DEF XmaSpec

\* What a kick holds of the title's half is what it loaded.
HalfAsLoaded == \A k \in Kickers : Works(k) => kick[k].data.read = kick[k].initial.read

\* The step of one thread, whose copy has the title's half as it was loaded.
LEMMA OneHalfAsLoaded ==
  ASSUME XmaShape, HalfAsLoaded, NEW k \in Kickers, NEW w, kick' = [kick EXCEPT ![k] = w],
         w.at \in {"working", "storing", "draining"} => w.data.read = w.initial.read
  PROVE  HalfAsLoaded'
<1>1. kick'[k] = w /\ \A j \in Kickers : j # k => kick'[j] = kick[j]
  BY DEF XmaShape, KicksShape
<1> QED
  BY <1>1 DEF HalfAsLoaded, Works

LEMMA KickKeepsHalf ==
  ASSUME XmaShape, HalfAsLoaded, NEW k \in Kickers, KickStep(k)
  PROVE  HalfAsLoaded'
<1>1. ASSUME NEW what \in {"kicked", "clear"}, HwContext(k, what) PROVE HalfAsLoaded'
  <2>1. PICK d \in Decoders :
          /\ inUse /\ kick[k].at = "idle" /\ decoder' = d
          /\ decoder # NoDecoder => d = decoder
          /\ kick' = [kick EXCEPT ![k] = [AtRest EXCEPT !.at = what, !.decoder = d]]
          /\ pending' = IF decoder = NoDecoder THEN [pending EXCEPT ![d] = 0] ELSE pending
          /\ UNCHANGED <<stream, inUse, slot, frameOf, tail, bufferOf, undecoded, unread,
                         strayed, overran>>
    BY <1>1, HwContextIs, Zenon
  <2> DEFINE w == [AtRest EXCEPT !.at = what, !.decoder = d]
  <2>2. w.at = what
    BY DEF AtRest
  <2> HIDE DEF w
  <2>3. kick' = [kick EXCEPT ![k] = w]
    BY <2>1 DEF w
  <2> QED
    BY <1>1, <2>2, <2>3, OneHalfAsLoaded
<1>2. CASE BeginWork(k)
  <2>1. kick' = [kick EXCEPT ![k] = Begun(kick[k])]
    BY <1>2, BeginWorkIs
  <2>2. Begun(kick[k]).data.read = Begun(kick[k]).initial.read
    BY DEF Begun, AtRest
  <2> QED
    BY <2>1, <2>2, OneHalfAsLoaded
<1>3. ASSUME NEW made \in BOOLEAN, WorkPass(k, made) PROVE HalfAsLoaded'
  <2>1. kick[k].at = "working"
    BY <1>3, WorkPassIs
  <2>2. PICK n, room : \E done \in BOOLEAN : PassTaken(k, PassLeft(kick[k], made), n, room, done)
    BY <1>3, WorkPassIs, Zenon
  <2>3. PICK done \in BOOLEAN : PassTaken(k, PassLeft(kick[k], made), n, room, done)
    BY <2>2, Zenon
  <2>4. n \in 0 .. Blocks /\ room \in 0 .. Blocks /\ (~done => room >= Minimum)
    BY <2>1, <2>3, PassNumbers
  <2> DEFINE w == PassedOn(kick[k], n, room, done)
  <2>5. kick' = [kick EXCEPT ![k] = w]
    BY <2>3 DEF PassTaken
  <2>6. PassFields(k, n, room, done, w)
    BY <2>1, <2>4, PassedOnIs
  <2> HIDE DEF w
  <2>7. /\ w.initial = kick[k].initial
        /\ w.data = (IF done THEN Finished(PassData(kick[k]), kick[k].initial,
                                           After(kick[k].position, n), room)
                     ELSE PassData(kick[k]))
    BY <2>6, Zenon DEF PassFields
  <2>8. /\ PassData(kick[k]) \in Context /\ PassData(kick[k]).read = kick[k].data.read
        /\ kick[k].initial \in Context /\ After(kick[k].position, n) \in 0 .. (Blocks - 1)
    BY <2>4, PassDataIs, KickFields, AfterIs DEF XmaShape
  <2>9. w.data.read = kick[k].data.read
    BY <2>7, <2>8, FinishedIs
  <2> QED
    BY <2>1, <2>5, <2>7, <2>9, OneHalfAsLoaded DEF HalfAsLoaded, Works
<1>4. CASE DrainFrame(k)
  <2> DEFINE n == AtMostAPass(pending[kick[k].decoder])
  <2>1. kick[k].at = "draining" /\ kick' = [kick EXCEPT ![k] = Drained(kick[k], n)]
    BY <1>4, DrainFrameIs
  <2>2. n \in Nat
    BY <2>1, DrainNumbers
  <2> HIDE DEF n
  <2>3. /\ Drained(kick[k], n).initial = kick[k].initial
        /\ Drained(kick[k], n).data.read = kick[k].data.read
    BY <2>1, <2>2, DrainedIs
  <2> QED
    BY <2>1, <2>3, OneHalfAsLoaded DEF HalfAsLoaded, Works
<1>5. CASE StoreMerged(k) \/ StoreClear(k)
  <2>1. kick' = [kick EXCEPT ![k] = AtRest]
    BY <1>5 DEF StoreMerged, StoreClear
  <2>2. AtRest.at = "idle"
    BY DEF AtRest
  <2> QED
    BY <2>1, <2>2, OneHalfAsLoaded
<1>6. CASE BeginClear(k)
  <2>1. kick[k].at = "clear" /\ kick' = [kick EXCEPT ![k] = Cleared(kick[k])]
    BY <1>6, BeginClearIs
  <2>2. Cleared(kick[k]).at = "clearing"
    BY <2>1, ClearedIs
  <2> QED
    BY <2>1, <2>2, OneHalfAsLoaded
<1> QED
  BY <1>1, <1>2, <1>3, <1>4, <1>5, <1>6 DEF KickStep

LEMMA HalfAlwaysAsLoaded == XmaSpec => []HalfAsLoaded
<1>1. XmaInit => HalfAsLoaded
  BY DEF XmaInit, HalfAsLoaded, Works, AtRest
<1>2. XmaInv /\ HalfAsLoaded /\ [XmaNext]_xmaVars => HalfAsLoaded'
  <2> SUFFICES ASSUME XmaInv, HalfAsLoaded, [XmaNext]_xmaVars PROVE HalfAsLoaded'
    OBVIOUS
  <2>1. CASE AllocateXmaContext \/ ReleaseXmaContext \/ TitleStep \/ UNCHANGED xmaVars
    <3>1. UNCHANGED kick
      BY <2>1 DEF AllocateXmaContext, ReleaseXmaContext, TitleStep, Title, Submit, TakeBlocks,
                  OnlyDrain, OfferRing, xmaVars
    <3> QED
      BY <3>1 DEF HalfAsLoaded, Works
  <2>2. CASE \E k \in Kickers : KickStep(k)
    BY <2>2, KickKeepsHalf DEF XmaInv
  <2> QED
    BY <2>1, <2>2, XmaSteps
<1> QED
  BY <1>1, <1>2, XmaInvariant, PTL DEF XmaSpec

\* The store of a kick leaves the read offset of a title that has not moved it since the kick
\* loaded the context, however many passes there were and whatever else the title wrote.
KeepsAnUntouchedHalf ==
  [][\A k \in Kickers :
       /\ kick[k].at = "storing" /\ kick'[k].at = "idle"
       /\ slot.read = kick[k].initial.read
       => slot'.read = slot.read]_xmaVars

\* What is left of the title's ownership of its half (StoreContextMerged).
THEOREM UntouchedHalfIsKept == XmaSpec => KeepsAnUntouchedHalf
<1>1. ASSUME XmaInv, HalfAsLoaded, [XmaNext]_xmaVars, NEW k \in Kickers,
             kick[k].at = "storing", kick'[k].at = "idle", slot.read = kick[k].initial.read
      PROVE  slot'.read = slot.read
  <2>1. CASE UNCHANGED slot
    BY <2>1
  <2>2. CASE AllocateXmaContext \/ ReleaseXmaContext \/ TitleStep \/ UNCHANGED xmaVars
    <3>1. UNCHANGED kick
      BY <2>2 DEF AllocateXmaContext, ReleaseXmaContext, TitleStep, Title, Submit, TakeBlocks,
                  OnlyDrain, OfferRing, xmaVars
    <3> QED
      BY <1>1, <3>1
  <2>3. ASSUME NEW j \in Kickers, StoreMerged(j) \/ StoreClear(j) PROVE slot'.read = slot.read
    <3>1. j = k
      BY <1>1, <2>3 DEF StoreMerged, StoreClear, XmaInv, XmaShape, KicksShape
    <3>2. slot' = Merged(kick[k].data, kick[k].initial, slot)
      BY <1>1, <2>3, <3>1 DEF StoreMerged, StoreClear
    <3>3. kick[k].data \in Context /\ kick[k].initial \in Context /\ slot \in Context
      BY <1>1, KickFields DEF XmaInv, XmaShape, SlotShape
    <3> QED
      BY <1>1, <3>2, <3>3, MergedRing DEF HalfAsLoaded, Works
  <2>4. ASSUME NEW j \in Kickers, KickStep(j), ~(StoreMerged(j) \/ StoreClear(j))
        PROVE  UNCHANGED slot
    BY <2>4 DEF KickStep, HwContext, BeginWork, WorkPass, DrainFrame, BeginClear
  <2> QED
    BY <1>1, <2>1, <2>2, <2>3, <2>4, XmaSteps
<1>2. XmaInv /\ HalfAsLoaded /\ [XmaNext]_xmaVars =>
        [\A k \in Kickers :
           /\ kick[k].at = "storing" /\ kick'[k].at = "idle"
           /\ slot.read = kick[k].initial.read
           => slot'.read = slot.read]_xmaVars
  BY <1>1
<1> QED
  BY <1>2, XmaInvariant, HalfAlwaysAsLoaded, PTL DEF XmaSpec, KeepsAnUntouchedHalf

=============================================================================

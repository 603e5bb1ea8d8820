------------------------------ MODULE PadArbiter ------------------------------
(***************************************************************************)
(* The virtual controller (runtime/input.cpp): one pad that a start-up      *)
(* script, a remote controller (the control channel) and the window's       *)
(* keyboard and mouse write, and that guest threads read.                   *)
(*                                                                          *)
(* Every thread that polls runs PollHostInput and then ReadPadSnapshot.     *)
(* The script's cursor and the pad have a mutex each, and a poller holds    *)
(* neither between taking a script step, publishing it and declaring the    *)
(* script finished, nor between sampling the desktop and publishing it.     *)
(***************************************************************************)
EXTENDS Naturals, Sequences

CONSTANTS
  Pollers,        (* threads that poll the pad                                *)
  Script,         (* the pad states of the parsed GEARS_INPUT_SCRIPT          *)
  RemoteStates,   (* what the remote controller commands                      *)
  DesktopStates,  (* what the keyboard and mouse may show                     *)
  HaveWindow,     (* the run has a window, hence a desktop to sample          *)
  Neutral,        (* PadState{}                                               *)
  MaxInputs       (* bound: remote commands and desktop changes               *)

ASSUME HaveWindowAssumption == HaveWindow \in BOOLEAN
ASSUME MaxInputsAssumption == MaxInputs \in Nat
ASSUME ScriptAssumption == Script \in Seq({Script[i] : i \in DOMAIN Script})

VARIABLES
  pad, packet,          (* g_pad, g_packet                                    *)
  remoteActive,         (* g_remoteActive                                     *)
  cursor,               (* g_scriptCursor: script steps taken                 *)
  scriptFinished,       (* g_scriptFinished                                   *)
  poller,               (* where each polling thread is                       *)
  next,                 (* the state it is about to publish                   *)
  seen,                 (* the snapshot it read last                          *)
  due,                  (* script steps whose time has come                   *)
  desktop,              (* what the keyboard and mouse show                   *)
  inputs,               (* inputs so far, up to MaxInputs                     *)
  commanded             (* history: the remote controller's last command      *)

padVars == <<pad, packet, remoteActive>>
scriptVars == <<cursor, scriptFinished>>
pollerVars == <<poller, next, seen>>
worldVars == <<due, desktop, inputs, commanded>>
arbiterVars == <<padVars, scriptVars, pollerVars, worldVars>>

ScriptStates == {Script[i] : i \in DOMAIN Script}
PadStates == {Neutral} \union ScriptStates \union RemoteStates \union DesktopStates

PadInit ==
  /\ pad = Neutral /\ packet = 0 /\ remoteActive = FALSE
  /\ cursor = 0 /\ scriptFinished = FALSE
  /\ poller = [t \in Pollers |-> "idle"]
  /\ next = [t \in Pollers |-> Neutral]
  /\ seen = [t \in Pollers |-> [packet |-> 0, pad |-> Neutral]]
  /\ due = 0 /\ desktop = Neutral /\ inputs = 0 /\ commanded = Neutral

-----------------------------------------------------------------------------
(* The pad, under g_mutex *)

ScriptOwnsPad == Script # <<>> /\ ~scriptFinished

\* Mutant: letting go of every control is not counted as a change.
PublishPresses(state) ==
  /\ pad' = state
  /\ packet' = IF state \in {pad, Neutral} THEN packet ELSE packet + 1

\* PublishLocked: the packet number changes when, and only when, the state does.
PublishLocked(state) ==
  /\ pad' = state
  /\ packet' = IF state = pad THEN packet ELSE packet + 1

-----------------------------------------------------------------------------
(* A poll: UpdateScriptedInput, PollHostInput, ReadPadSnapshot *)

\* Mutant: a step is taken before its time.
TakesOneMore(count) == cursor' = count + 1

StepsTaken(count) == cursor' = count

\* Mutant: the script ends only if its last step was taken alone.
LastTakenAlone(count) == count = cursor + 1 /\ count = Len(Script)

\* Whether the script ends with the step taken now.
LastStep(count) == count = Len(Script)

\* Every step that is due is taken, and only the last of them will be published.
TakeSteps(t) ==
  /\ poller[t] = "idle"
  /\ IF cursor < due
     THEN /\ StepsTaken(due)
          /\ next' = [next EXCEPT ![t] = Script[due]]
          /\ poller' = [poller EXCEPT ![t] = IF LastStep(due) THEN "publishLast"
                                             ELSE "publish"]
     ELSE /\ poller' = [poller EXCEPT ![t] = "arbitrate"]
          /\ UNCHANGED <<cursor, next>>
  /\ UNCHANGED <<padVars, scriptFinished, seen, worldVars>>

\* Publish, after the script's mutex has been released.
PublishStep(t) ==
  /\ poller[t] \in {"publish", "publishLast"}
  /\ PublishLocked(next[t])
  /\ poller' = [poller EXCEPT ![t] = IF @ = "publishLast" THEN "finish" ELSE "arbitrate"]
  /\ UNCHANGED <<remoteActive, scriptVars, next, seen, worldVars>>

FinishScript(t) ==
  /\ poller[t] = "finish"
  /\ scriptFinished' = TRUE
  /\ poller' = [poller EXCEPT ![t] = "arbitrate"]
  /\ UNCHANGED <<padVars, cursor, next, seen, worldVars>>

\* Mutant: the window samples the desktop beside the script.
WindowIgnoresScript == HaveWindow /\ ~remoteActive

\* The desktop is asked only when the window owns the pad.
WindowOwnsPad == HaveWindow /\ ~ScriptOwnsPad /\ ~remoteActive

Arbitrate(t) ==
  /\ poller[t] = "arbitrate"
  /\ poller' = [poller EXCEPT ![t] = IF WindowOwnsPad THEN "sample" ELSE "read"]
  /\ UNCHANGED <<padVars, scriptVars, next, seen, worldVars>>

\* The host sampler runs without a lock.
SampleDesktop(t) ==
  /\ poller[t] = "sample"
  /\ next' = [next EXCEPT ![t] = desktop]
  /\ poller' = [poller EXCEPT ![t] = "publishHost"]
  /\ UNCHANGED <<padVars, scriptVars, seen, worldVars>>

\* Mutant: the owner is checked only before sampling.
PublishUnchecked(t) ==
  /\ poller[t] = "publishHost"
  /\ PublishLocked(next[t])
  /\ poller' = [poller EXCEPT ![t] = "read"]
  /\ UNCHANGED <<remoteActive, scriptVars, next, seen, worldVars>>

\* PublishHost checks again that no remote controller has taken the pad since.
PublishHost(t) ==
  /\ poller[t] = "publishHost"
  /\ IF remoteActive THEN UNCHANGED <<pad, packet>> ELSE PublishLocked(next[t])
  /\ poller' = [poller EXCEPT ![t] = "read"]
  /\ UNCHANGED <<remoteActive, scriptVars, next, seen, worldVars>>

\* The presenter polls without reading: its snapshot is one nobody looks at.
ReadPadSnapshot(t) ==
  /\ poller[t] = "read"
  /\ seen' = [seen EXCEPT ![t] = [packet |-> packet, pad |-> pad]]
  /\ poller' = [poller EXCEPT ![t] = "idle"]
  /\ next' = [next EXCEPT ![t] = Neutral]
  /\ UNCHANGED <<padVars, scriptVars, worldVars>>

Poll(t) ==
  \/ TakeSteps(t) \/ PublishStep(t) \/ FinishScript(t) \/ Arbitrate(t)
  \/ SampleDesktop(t) \/ PublishHost(t) \/ ReadPadSnapshot(t)

-----------------------------------------------------------------------------
(* The remote controller, each call under g_mutex *)

Command(state) ==
  /\ inputs < MaxInputs
  /\ inputs' = inputs + 1
  /\ commanded' = state
  /\ PublishLocked(state)
  /\ UNCHANGED <<scriptVars, pollerVars, due, desktop>>

\* SetRemotePad refuses while the script owns the pad.
SetRemotePad ==
  /\ ~ScriptOwnsPad
  /\ remoteActive' = TRUE
  /\ \E state \in RemoteStates : Command(state)

ReleaseRemotePad ==
  /\ remoteActive
  /\ UNCHANGED remoteActive
  /\ Command(Neutral)

DisconnectRemotePad ==
  /\ remoteActive
  /\ remoteActive' = FALSE
  /\ Command(Neutral)

-----------------------------------------------------------------------------
(* Time and the player *)

StepComesDue ==
  /\ due < Len(Script)
  /\ due' = due + 1
  /\ UNCHANGED <<padVars, scriptVars, pollerVars, desktop, inputs, commanded>>

DesktopChanges ==
  /\ HaveWindow
  /\ inputs < MaxInputs
  /\ inputs' = inputs + 1
  /\ desktop' \in (DesktopStates \union {Neutral}) \ {desktop}
  /\ UNCHANGED <<padVars, scriptVars, pollerVars, due, commanded>>

-----------------------------------------------------------------------------
PadNext ==
  \/ \E t \in Pollers : Poll(t)
  \/ SetRemotePad \/ ReleaseRemotePad \/ DisconnectRemotePad
  \/ StepComesDue \/ DesktopChanges

PadSpec == PadInit /\ [][PadNext]_arbiterVars

\* The guest polls every frame and time passes; nobody has to touch a control.
PadFairness == WF_arbiterVars(StepComesDue) /\ \A t \in Pollers : WF_arbiterVars(Poll(t))

PadFairSpec == PadSpec /\ PadFairness

-----------------------------------------------------------------------------
\* Every variable has its type, and no step is taken before its time.
PadTypeOK ==
  /\ pad \in PadStates /\ packet \in Nat /\ remoteActive \in BOOLEAN
  /\ due \in 0 .. Len(Script) /\ cursor \in 0 .. due /\ scriptFinished \in BOOLEAN
  /\ poller \in [Pollers -> {"idle", "publish", "publishLast", "finish", "arbitrate", "sample",
                            "publishHost", "read"}]
  /\ next \in [Pollers -> PadStates]
  /\ seen \in [Pollers -> [packet : Nat, pad : PadStates]]
  /\ desktop \in DesktopStates \union {Neutral} /\ inputs \in 0 .. MaxInputs
  /\ commanded \in RemoteStates \union {Neutral}

\* A scripted run drives the pad itself: until the script has finished nobody else owns the
\* pad, and what it shows is a step already taken (PollHostInput, SetRemotePad).
ScriptIsUndisturbed ==
  ScriptOwnsPad =>
    /\ ~remoteActive
    /\ pad \in {Neutral} \union {Script[i] : i \in 1 .. cursor}

\* A desktop sample taken before the remote controller took the pad does not overwrite its
\* command, although the sampler runs without the lock (PublishHost).
DesktopYieldsToRemote == remoteActive => pad \in {commanded} \union ScriptStates

\* A disconnected remote controller leaves no control held down, whatever polls were under
\* way when it disconnected (DisconnectRemotePad).
NoRemoteResidue == ~remoteActive => pad \notin RemoteStates

\* The pad shows the remote controller's commands for as long as it is connected.
RemoteHoldsPad == DesktopYieldsToRemote /\ NoRemoteResidue

\* An unchanged packet number means that nothing happened: a thread that reads the number it
\* read before sees the state it saw before (PublishLocked, ReadPadSnapshot).
PacketNamesState == \A t \in Pollers : seen[t].packet = packet => seen[t].pad = pad

\* The remote controller's command stays on the pad until its next one: the script it
\* followed does not overwrite it (UpdateScriptedInput).
RemoteKeepsPad == remoteActive => pad = commanded

\* The script hands the pad over: once all its steps have come due it finishes, however many
\* of them one poll takes at once (UpdateScriptedInput).
ScriptHandsOver == (due = Len(Script)) ~> ~ScriptOwnsPad

=============================================================================

------------------------------ MODULE Joystick ------------------------------
(***************************************************************************)
(* Joystick slots (common/Joystick.cpp).  Each slot has a refresh thread   *)
(* that reads a device file and, every tenth round, looks whether the file *)
(* is still there.  A slot that found no file uses the state the web       *)
(* client's joystickData sets instead, until a device appears.             *)
(*                                                                         *)
(* A slot is one button and the two axes its readers ask for; values are   *)
(* in halves of a full deflection.  The getters run in the application's   *)
(* thread.  Each is one step: a press the refresh thread stores between    *)
(* the test and the reset of a flag is lost as if it had come before.      *)
(***************************************************************************)
EXTENDS Integers, FiniteSets

CONSTANTS
  NSlots,      \* slots of the JoystickManager
  AxisValues,  \* what an axis may report, in halves of a full deflection
  PlugSlots,   \* bound: slots a device is plugged into
  MaxPlugs,    \* bound: devices that are plugged in
  MaxInputs    \* bound: movements and presses

ASSUME JoystickAssumption ==
  /\ NSlots \in Nat \ {0}
  /\ AxisValues \subseteq Int /\ 0 \in AxisValues
  /\ MaxPlugs \in Nat /\ MaxInputs \in Nat

Slots == 1..NSlots
Axes == {0, 1}                     \* x and y

Pad == [button : BOOLEAN, press : BOOLEAN,
        axis : [Axes -> AxisValues], axisPress : [Axes -> AxisValues]]

VARIABLES
  file,      \* the device behind each slot's path (0: none), numbered
  plugs,     \* devices plugged in so far
  fd,        \* the device each slot has open (0: closed, -1: open failed)
  fallback,  \* whether the slot uses the simulator's state
  opening,   \* whether the refresh thread is inside openPath
  real,      \* what the device reported
  sim,       \* what joystickData reported
  inputs,    \* inputs so far
  pressed    \* history: presses of the button so far

deviceVars == <<file, plugs>>
slotVars == <<fd, fallback, opening>>
padVars == <<real, sim>>
historyVars == <<inputs, pressed>>

joystickVars == <<file, plugs, fd, fallback, opening, real, sim, inputs, pressed>>

JoystickTypeOK ==
  /\ file \in [Slots -> 0..MaxPlugs]
  /\ plugs \in 0..MaxPlugs
  /\ fd \in [Slots -> -1..MaxPlugs]
  /\ fallback \in [Slots -> BOOLEAN]
  /\ opening \in [Slots -> BOOLEAN]
  /\ real \in [Slots -> Pad]
  /\ sim \in [Slots -> Pad]
  /\ inputs \in 0..MaxInputs
  /\ pressed \in Nat

Released == [button |-> FALSE, press |-> FALSE,
             axis |-> [a \in Axes |-> 0], axisPress |-> [a \in Axes |-> 0]]

\* resetVariables leaves axisPress alone, which init never sets either: a
\* slot may start with any value in it.
Reset(pad) == [Released EXCEPT !.axisPress = pad.axisPress]

\* A slot whose device is there at the start opens it, or fails to.
JoystickInit ==
  /\ \E there \in SUBSET (Slots \cap PlugSlots) :
       /\ Cardinality(there) <= MaxPlugs
       /\ plugs = Cardinality(there)
       /\ file = [j \in Slots |->
                    IF j \in there THEN Cardinality({k \in there : k <= j}) ELSE 0]
       /\ fallback = [j \in Slots |-> j \notin there]
  /\ fd \in {f \in [Slots -> -1..MaxPlugs] :
               \A j \in Slots : f[j] \in IF fallback[j] THEN {-1} ELSE {-1, file[j]}}
  /\ opening = [j \in Slots |-> FALSE]
  /\ \E v \in AxisValues :
       real = [j \in Slots |-> [Released EXCEPT !.axisPress[1] = v]]
  /\ sim = [j \in Slots |-> Released]
  /\ inputs = 0
  /\ pressed = 0

-----------------------------------------------------------------------------
(* The device files. *)

PlugIn(j) ==
  /\ j \in PlugSlots /\ file[j] = 0 /\ plugs < MaxPlugs
  /\ plugs' = plugs + 1
  /\ file' = [file EXCEPT ![j] = plugs + 1]
  /\ UNCHANGED <<slotVars, padVars, historyVars>>

Unplug(j) ==
  /\ file[j] # 0
  /\ file' = [file EXCEPT ![j] = 0]
  /\ UNCHANGED <<plugs, slotVars, padVars, historyVars>>

-----------------------------------------------------------------------------
(* The refresh thread of slot j. *)

\* Fault variant of MustReopen: a device that has gone is not noticed.
MustReopenNever(j) == fd[j] = 0

MustReopen(j) == file[j] = 0 \/ fd[j] = 0

\* recheckFilePath up to the call of openPath.  A descriptor that is -1, or
\* that belongs to a device replaced since the last look, is kept.
recheckFilePath(j) ==
  /\ ~opening[j]
  /\ IF fallback[j] THEN file[j] # 0 ELSE MustReopen(j)
  /\ fd' = [fd EXCEPT ![j] = IF fallback[j] \/ file[j] # 0 THEN @ ELSE 0]
  /\ real' = [real EXCEPT ![j] = Reset(@)]
  /\ opening' = [opening EXCEPT ![j] = TRUE]
  /\ UNCHANGED <<deviceVars, fallback, sim, historyVars>>

\* openPath sleeps for a second between stat and open; without a file it
\* leaves the descriptor as it is.  A slot leaves the fallback either way.
openPath(j) ==
  /\ opening[j]
  /\ \E f \in IF file[j] = 0 THEN {fd[j], -1} ELSE {file[j], -1} :
       fd' = [fd EXCEPT ![j] = f]
  /\ opening' = [opening EXCEPT ![j] = FALSE]
  /\ fallback' = [fallback EXCEPT ![j] = FALSE]
  /\ UNCHANGED <<deviceVars, padVars, historyVars>>

\* Fault variant of PressButton: a button that is held presses again.
PressButtonHeld(pad, down) == [pad EXCEPT !.press = @ \/ down, !.button = down]

PressButton(pad, down) ==
  [pad EXCEPT !.press = @ \/ (down /\ ~pad.button), !.button = down]

MoveAxis(pad, a, v) ==
  [pad EXCEPT !.axisPress[a] = IF pad.axis[a] = 0 /\ v # 0 THEN v ELSE @,
              !.axis[a] = v]

CountInput(pad, down) ==
  /\ inputs < MaxInputs
  /\ inputs' = inputs + 1
  /\ pressed' = pressed + IF down /\ ~pad.button THEN 1 ELSE 0

\* A press, a release or a movement: pads[j] changes.
Moved(pads, j, newPads) ==
  \/ \E down \in BOOLEAN :
       /\ CountInput(pads[j], down)
       /\ newPads = [pads EXCEPT ![j] = PressButton(@, down)]
  \/ \E a \in Axes, v \in AxisValues :
       /\ CountInput(pads[j], FALSE)
       /\ newPads = [pads EXCEPT ![j] = MoveAxis(@, a, v)]

\* refresh: an event of the device that is open, as long as it is there.
refresh(j) ==
  /\ ~opening[j]
  /\ fd[j] > 0 /\ fd[j] = file[j]
  /\ Moved(real, j, real')
  /\ UNCHANGED <<deviceVars, slotVars, sim>>

\* updateSimulatorState: joystickData for slot j, on the connection's thread.
\* A message that changes several values is several here.
updateSimulatorState(j) ==
  /\ Moved(sim, j, sim')
  /\ UNCHANGED <<deviceVars, slotVars, real>>

-----------------------------------------------------------------------------
(* The getters of JoystickManager. *)

PadOf(j) == IF fallback[j] THEN sim[j] ELSE real[j]

\* Every slot's pad, changed where the slot reads it from.
UpdatePads(F(_, _)) ==
  /\ real' = [j \in Slots |-> IF fallback[j] THEN real[j] ELSE F(j, real[j])]
  /\ sim' = [j \in Slots |-> IF fallback[j] THEN F(j, sim[j]) ELSE sim[j]]

Pressing == {j \in Slots : PadOf(j).press}

\* getButtonPress: the first slot with a press loses it, the rest keep theirs.
getButtonPress ==
  UpdatePads(LAMBDA j, pad :
    IF j \in Pressing /\ \A k \in Pressing : j <= k
    THEN [pad EXCEPT !.press = FALSE] ELSE pad)

\* getAxisPress: the presses of axis a are added up ...
AxisPress(a) ==
  LET upTo[n \in 0..NSlots] ==
        IF n = 0 THEN 0 ELSE upTo[n - 1] + PadOf(n).axisPress[a]
  IN upTo[NSlots]

\* ... and all of them are taken.
getAxisPress(a) == UpdatePads(LAMBDA j, pad : [pad EXCEPT !.axisPress[a] = 0])

clearAllButtonPresses ==
  UpdatePads(LAMBDA j, pad :
    [pad EXCEPT !.press = FALSE, !.axisPress = [a \in Axes |-> 0]])

-----------------------------------------------------------------------------
JoystickNext ==
  \E j \in Slots : \/ PlugIn(j) \/ Unplug(j)
                   \/ recheckFilePath(j) \/ openPath(j) \/ refresh(j)
                   \/ updateSimulatorState(j)

\* Late pairing and replugging (Joystick.cpp:82-106): a slot whose device is
\* seen to be missing, or that never had one, reads the next one that comes
\* and stays, unless it cannot be opened; and a button held while the device
\* is pulled out does not stay down.
SlotFollowsDevice ==
  \A j \in Slots :
    /\ (file[j] # 0 /\ (fallback[j] \/ fd[j] = 0))
         ~> (file[j] = 0 \/ fd[j] = -1 \/ (fd[j] = file[j] /\ ~fallback[j]))
    /\ (file[j] = 0 /\ ~fallback[j]) ~> (file[j] # 0 \/ ~real[j].button)

=============================================================================

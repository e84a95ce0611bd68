------------------------------ MODULE MainMenu ------------------------------
(***************************************************************************)
(* The main menu (MainMenu/mainmenu.cpp) on top of the joysticks.  loop()  *)
(* is called for every frame while the menu is the application on top; the *)
(* text and the rectangles it draws are left out.                          *)
(***************************************************************************)
EXTENDS Joystick, Color

CONSTANTS
  NApps,      \* programs found in the search directory
  Brightness  \* the brightnesses a config may come with

ASSUME MenuAssumption == NApps \in Nat /\ Brightness \subseteq Int

VARIABLES
  menuState,
  selectedExec,
  at,          \* what loop() does next
  running,     \* whether the application is running
  brightness,
  acts         \* history: menu items chosen so far

menuVars == <<menuState, selectedExec, at, running, brightness, acts>>
allVars == <<joystickVars, menuVars>>

AppListSize == NApps + 1           \* the last item is "settings"
SettingsSize == 4                  \* brightness, update, shutdown, return
ListSize == IF menuState = "applist" THEN AppListSize ELSE SettingsSize

MenuTypeOK ==
  /\ JoystickTypeOK
  /\ menuState \in {"applist", "settings", "settingsUpdate"}
  /\ selectedExec \in Int
  /\ at \in {"steer", "act", "adjust", "clear"}
  /\ running \in BOOLEAN
  /\ brightness \in Int
  /\ acts \in Nat

MenuInit ==
  /\ JoystickInit
  /\ menuState = "applist"
  /\ selectedExec = AppListSize \div 2
  /\ at = "steer"
  /\ running = TRUE
  /\ brightness \in Brightness
  /\ acts = 0

-----------------------------------------------------------------------------
\* n is in halves.
Truncated(n) == Quotient(n, 2)

\* Fault variant of Wrapped: the end of the list is not looked at.
WrappedBelow(n, size) == IF n < 0 THEN size - 1 ELSE n

Wrapped(n, size) == IF n < 0 THEN size - 1 ELSE n % size

\* The selection moves by the presses of the y axes.
Steer ==
  /\ at = "steer" /\ running
  /\ IF menuState = "settingsUpdate"
     THEN /\ at' = "clear"
          /\ UNCHANGED <<selectedExec, padVars>>
     ELSE /\ at' = "act"
          /\ getAxisPress(1)
          /\ selectedExec' =
               Wrapped(selectedExec + Truncated(AxisPress(1)), ListSize)
  /\ UNCHANGED <<deviceVars, slotVars, historyVars, menuState, running,
                 brightness, acts>>

\* applist: the last item opens the settings, the others start a program.
ChooseApp ==
  IF selectedExec = NApps THEN menuState' = "settings" /\ selectedExec' = 0
  ELSE UNCHANGED <<menuState, selectedExec>>

\* settings: brightness does nothing here, shutdown leaves the menu as it is.
ChooseSetting ==
  CASE selectedExec = 3 -> menuState' = "applist" /\ selectedExec' = NApps
    [] selectedExec = 1 -> menuState' = "settingsUpdate" /\ UNCHANGED selectedExec
    [] OTHER -> UNCHANGED <<menuState, selectedExec>>

Act ==
  /\ at = "act"
  /\ at' = IF menuState = "settings" THEN "adjust" ELSE "clear"
  /\ getButtonPress
  /\ IF Pressing = {} THEN UNCHANGED <<menuState, selectedExec, acts>>
     ELSE /\ acts' = acts + 1
          /\ IF menuState = "applist" THEN ChooseApp ELSE ChooseSetting
  /\ UNCHANGED <<deviceVars, slotVars, historyVars, running, brightness>>

\* With the item brightness selected the x axes change it, ten to a press.
Adjust ==
  /\ at = "adjust"
  /\ at' = "clear"
  /\ IF menuState = "settings" /\ selectedExec = 0
     THEN /\ getAxisPress(0)
          /\ brightness' =
               Constrain(brightness + Truncated(10 * AxisPress(0)), 0, 100)
     ELSE UNCHANGED <<padVars, brightness>>
  /\ UNCHANGED <<deviceVars, slotVars, historyVars, menuState, selectedExec,
                 running, acts>>

\* The end of loop(): presses that came since they were read are lost.
EndLoop ==
  /\ at = "clear"
  /\ at' = "steer"
  /\ clearAllButtonPresses
  /\ UNCHANGED <<deviceVars, slotVars, historyVars, menuState, selectedExec,
                 running, brightness, acts>>

\* While another application is on top loop() is not called; its presses
\* reach the menu's joysticks too and are still there when it resumes.
PauseOrResume ==
  /\ at = "steer"
  /\ running' = ~running
  /\ UNCHANGED <<joystickVars, menuState, selectedExec, at, brightness, acts>>

Loop == Steer \/ Act \/ Adjust \/ EndLoop

MenuNext ==
  \/ JoystickNext /\ UNCHANGED menuVars
  \/ Loop
  \/ PauseOrResume

MenuSpec == MenuInit /\ [][MenuNext]_allVars

\* The refresh threads never end, and looking at the file is all they need.
MenuFairness ==
  \A j \in Slots : WF_allVars(recheckFilePath(j) /\ UNCHANGED menuVars)
               /\ WF_allVars(openPath(j) /\ UNCHANGED menuVars)

MenuFairSpec == MenuSpec /\ MenuFairness

-----------------------------------------------------------------------------
\* at() never throws: whatever the axes report, axisPress read before it was
\* ever set included, and whichever list was left, the selection is an item
\* of the list that is shown (mainmenu.cpp:74-79, 89-93, 126-131, 139-142).
SelectionInList == selectedExec \in 0..ListSize - 1

\* An item is chosen once for a press, though opening and leaving the settings
\* shows another list while the button is still down, several slots may press
\* at once, and slots change from the simulator's state to a device's.
OneChoicePerPress == acts <= pressed

=============================================================================

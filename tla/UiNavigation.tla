---------------------------- MODULE UiNavigation ----------------------------
(***************************************************************************)
(* The firmware user interface: the loop of src/vboot/ui/loop.c, the stack *)
(* of screens of src/vboot/ui/navigation.c, and the screens of             *)
(* src/vboot/ui/screens.c that do more than show text, under the global    *)
(* actions of manual recovery and of developer mode (src/vboot/ui.c).      *)
(*                                                                         *)
(* One iteration of the loop is four steps (read a key, screen action,     *)
(* menu navigation, global action), because a removable disk is plugged in *)
(* or out, the physical presence button is pressed or released and the     *)
(* developer delay runs out between any two of them.  Where the focus is   *)
(* within a menu is left open: ENTER selects any item of the screen.       *)
(***************************************************************************)
EXTENDS Integers, Sequences, FiniteSets, SequencesExt, FiniteSetsExt

CONSTANTS
    Boards,     \* the machines and boot modes considered, records of BoardType
    Heap        \* bound: malloc fails once this many screens are on the stack

ASSUME HeapAssumption == Heap \in Nat \ {0}

Recovery == {"SELECT", "INVALID", "ROLLBACK", "TO_DEV"}
Developer == {"DEV", "TO_NORM", "BOOT_EXTERNAL", "INVALID_DISK", "ALTFW"}
Screens == Recovery \cup Developer \cup {"ADVANCED", "DEBUG_INFO", "FASTBOOT"}

\* What vboot_load_kernel says of the removable disks.
Disks == {"none", "invalid", "unreadable", "rollback", "valid"}

Keys == {"none", "esc", "enter", "untrusted_enter", "space", "tab", "to_dev", "nbr",
         "fastboot", "to_norm", "external", "internal", "altfw", "other"}

BoardType ==
    [mode : {"recovery", "developer"},
     dev_mode : BOOLEAN,      \* VB2_CONTEXT_DEVELOPER_MODE
     keyboard : BOOLEAN,      \* PHYSICAL_PRESENCE_KEYBOARD
     fastboot : BOOLEAN,      \* VB2_CONTEXT_FASTBOOT_ALLOWED
     external : BOOLEAN,      \* VB2_CONTEXT_DEV_BOOT_EXTERNAL_ALLOWED
     forced : BOOLEAN,        \* VB2_GBB_FLAG_FORCE_DEV_SWITCH_ON
     requested : BOOLEAN,     \* fastboot is asked for in the misc partition
     internal : BOOLEAN,      \* the internal disk holds a kernel that boots
     altfw : BOOLEAN,         \* there is an alternate bootloader
     debuginfo : BOOLEAN,     \* the debug information can be collected and laid out
     target : {"internal", "external", "altfw"}]   \* the default boot target

ASSUME BoardsAssumption == Boards \subseteq BoardType

VARIABLES
    board,
    stack,        \* ui->state and its prev links, the root screen first
    pc,           \* where the loop is
    key,          \* ui->key, with key_trusted
    recovery_rv,  \* ui->recovery_rv; "unset" is its zero
    pressed,      \* ui->physical_presence_button_pressed
    late,         \* the developer delay has run out since start_time_ms
    outcome,      \* what ui_loop returned
    disk,         \* the removable disk
    button,       \* the physical presence button
    \* what the properties remember
    touched,      \* a key reached the developer screen, or its delay was used
    seen,         \* the button was down while TO_DEV was being shown
    shown,        \* the screen of this iteration, on which its key is pressed
    leaked        \* a screen was dropped with its fastboot session

vars == <<board, stack, pc, key, recovery_rv, pressed, late, outcome, disk, button,
          touched, seen, shown, leaked>>

Top(s) == s[Len(s)]
On(s, id) == \E i \in 1..Len(s) : s[i].id = id
Position(s, id) == CHOOSE i \in 1..Len(s) : s[i].id = id

-----------------------------------------------------------------------------
(* The stack                                                               *)

\* push_state, with preserve_state
PushedMutant(s, id) ==
    Append(s, [id |-> id, timer_disabled |-> FALSE, error |-> FALSE, fb |-> FALSE])
Pushed(s, id) ==
    Append(s, [id |-> id, timer_disabled |-> Top(s).timer_disabled,
               error |-> Top(s).error, fb |-> FALSE])

\* pop_state down to the first n screens: each pop hands timer and error on.
PopTo(s, n) ==
    [SubSeq(s, 1, n) EXCEPT ![n].timer_disabled = Top(s).timer_disabled,
                            ![n].error = Top(s).error]

WithError(s) == [s EXCEPT ![Len(s)].error = TRUE]

\* The screens whose reinit goes back when the disk no longer matches.
Skips(id, d) ==
    \/ id = "BOOT_EXTERNAL" /\ d # "none"
    \/ id = "INVALID_DISK" /\ d \in {"none", "valid"}

\* reinit of the screen that a pop uncovered, which may pop again
Settled(s, d) == PopTo(s, Max({i \in 1..Len(s) : ~ Skips(s[i].id, d)}))

Back(s, d) == IF Len(s) = 1 THEN s ELSE Settled(PopTo(s, Len(s) - 1), d)

\* The init functions that go back at once, with an error or without one.
RefusedLoud(id) ==
    \/ id = "TO_DEV" /\ board.dev_mode
    \/ id = "TO_NORM" /\ board.forced
    \/ id = "ALTFW" /\ ~ board.altfw
    \/ id = "DEBUG_INFO" /\ ~ board.debuginfo
    \/ id \in {"BOOT_EXTERNAL", "INVALID_DISK"} /\ ~ board.external
RefusedQuiet(id, d) ==
    \/ id = "TO_DEV" /\ ~ board.keyboard /\ button
    \/ id = "FASTBOOT" /\ ~ board.fastboot
    \/ Skips(id, d)

Changed(s, id, d) ==
    IF Top(s).id = id THEN s
    ELSE IF On(s, id) THEN Settled(PopTo(s, Position(s, id)), d)
    ELSE IF Len(s) = Heap THEN s
    ELSE IF RefusedLoud(id) THEN Settled(PopTo(WithError(Pushed(s, id)), Len(s)), d)
    ELSE IF RefusedQuiet(id, d) THEN Settled(PopTo(Pushed(s, id), Len(s)), d)
    ELSE Pushed(s, id)

\* The exit function of the fastboot screen restarts the developer delay.
fastboot_exit(s) == late' = (late /\ (Top(s).id = "FASTBOOT" => Top(s).timer_disabled))

\* recovery_to_dev_init forgets a button that was pressed earlier.
PressedAfterMutant(s) == pressed
PressedAfter(s) == pressed /\ ~ (On(s, "TO_DEV") /\ ~ On(stack, "TO_DEV"))

\* Popping for a change calls no exit function: sessions above are lost.
ui_screen_change(s, id, d) ==
    /\ stack' = Changed(s, id, d)
    /\ leaked' = (leaked \/ (On(s, id) /\ \E i \in Position(s, id) + 1..Len(s) : s[i].fb))
    /\ pressed' = PressedAfter(stack')
    /\ fastboot_exit(IF id = "FASTBOOT" /\ ~ board.fastboot /\ Len(s) < Heap
                     THEN Pushed(s, id) ELSE <<s[1]>>)

ui_screen_back(s, d) ==
    /\ stack' = Back(s, d)
    /\ fastboot_exit(s)
    /\ UNCHANGED <<pressed, leaked>>

Stay(s) == stack' = s /\ UNCHANGED <<pressed, late, leaked>>

\* The loop returns and ui_screen_cleanup leaves every screen through its exit.
Leave(o, s) ==
    /\ outcome' = o
    /\ stack' = [PopTo(s, 1) EXCEPT ![1].fb = FALSE]
    /\ UNCHANGED <<pressed, late, leaked>>

-----------------------------------------------------------------------------
(* Booting                                                                 *)

Stays == UNCHANGED outcome

ui_developer_mode_boot_internal_action(s) ==
    IF board.internal THEN Leave("boot", s) ELSE Stay(WithError(s)) /\ Stays

\* An alternate bootloader that starts never comes back: nothing is cleaned up.
developer_boot_altfw_impl(s) ==
    \/ board.altfw /\ outcome' = "altfw" /\ Stay(s)
    \/ Stay(WithError(s)) /\ Stays

\* The screen after a look at the external disk; the init of that screen looks again.
ExternalScreen == IF disk = "none" THEN "BOOT_EXTERNAL" ELSE "INVALID_DISK"
ui_developer_mode_boot_external_action(s, d) ==
    IF ~ board.external THEN Stay(WithError(s)) /\ Stays
    ELSE IF disk = "valid" THEN Leave("boot", s)
    ELSE ui_screen_change(s, ExternalScreen, d) /\ Stays

boot_nbr_impl(s) ==
    \/ Leave("boot", s)
    \/ Stay(WithError(s)) /\ Stays

-----------------------------------------------------------------------------
(* Screen actions                                                          *)

IsEnter == key \in {"enter", "untrusted_enter"}
Ignored(s) == Stay(s) /\ UNCHANGED <<key, outcome, touched>>
\* A handler takes the key, so that no later handler sees it.
Taken == key' = "none"

fullview_log_screen_actionMutant(s, d) ==
    IF IsEnter THEN ui_screen_back(s, d) /\ UNCHANGED <<key, outcome, touched>>
    ELSE Ignored(s)
fullview_log_screen_action(s, d) ==
    IF IsEnter THEN ui_screen_back(s, d) /\ Taken /\ UNCHANGED <<outcome, touched>>
    ELSE Ignored(s)

\* A session exists or is opened, if a transport is there; it may turn out to be over,
\* and a new one whose log cannot be set up ends the loop.
fastboot_action(d) ==
    \E session \in {Top(stack).fb, TRUE} :
        LET s == [stack EXCEPT ![Len(stack)].fb = session]
            released == [stack EXCEPT ![Len(stack)].fb = FALSE]
        IN \/ fullview_log_screen_action(s, d)
           \/ session /\ Ignored(released)
           \/ session /\ ui_screen_back(released, d) /\ UNCHANGED <<key, outcome, touched>>
           \/ session /\ ~ Top(stack).fb /\ Leave("error", s) /\ UNCHANGED <<key, touched>>

\* The transition asks for a trusted ENTER, or for the button pressed and released.
recovery_to_dev_finalize ==
    \/ Leave("to_dev", stack)
    \/ Stay(stack) /\ Stays
recovery_to_dev_confirm_action ==
    /\ key' = "none"
    /\ IF key = "enter" THEN recovery_to_dev_finalize ELSE Stay(WithError(stack)) /\ Stays
    /\ UNCHANGED touched
recovery_to_dev_action(d) ==
    IF key = "space"
    THEN ui_screen_back(stack, d) /\ Taken /\ UNCHANGED <<outcome, touched>>
    ELSE \/ board.keyboard /\ IsEnter /\ recovery_to_dev_confirm_action
         \/ board.keyboard /\ Ignored(stack)
         \/ ~ board.keyboard /\ button
              /\ pressed' = TRUE
              /\ UNCHANGED <<stack, late, leaked, key, outcome, touched>>
         \/ ~ board.keyboard /\ ~ button /\ ~ pressed /\ Ignored(stack)
         \/ ~ board.keyboard /\ ~ button /\ pressed
              /\ recovery_to_dev_finalize /\ UNCHANGED <<key, touched>>

TimerOff(s) == [s EXCEPT ![Len(s)].timer_disabled = TRUE]
StopsTimerMutant == TRUE
StopsTimer == key # "none"

\* The default target, and fastboot when it could not be booted.
BootDefault(s, d) ==
    LET failed == ui_screen_change(WithError(s), "FASTBOOT", d) /\ Stays
    IN CASE board.target = "internal" -> IF board.internal THEN Leave("boot", s) ELSE failed
         [] board.target = "altfw" ->
                \/ board.altfw /\ outcome' = "altfw" /\ Stay(s)
                \/ failed
         [] board.target = "external" ->
                IF board.external /\ disk = "valid" THEN Leave("boot", s)
                ELSE IF ~ board.external THEN failed
                ELSE ui_screen_change(Changed(s, ExternalScreen, d), "FASTBOOT", d) /\ Stays
developer_mode_action(d) ==
    IF StopsTimer
    THEN Stay(TimerOff(stack)) /\ touched' = TRUE /\ UNCHANGED <<key, outcome>>
    ELSE IF Top(stack).timer_disabled \/ ~ late THEN Ignored(stack)
    ELSE BootDefault(TimerOff(stack), d) /\ touched' = TRUE /\ UNCHANGED key

ScreenAction(d) ==
    LET id == Top(stack).id
    IN CASE id = "DEBUG_INFO" -> fullview_log_screen_action(stack, d)
         [] id = "FASTBOOT" -> fastboot_action(d)
         [] id = "TO_DEV" -> recovery_to_dev_action(d)
         [] id = "DEV" -> developer_mode_action(d)
         [] id \in {"BOOT_EXTERNAL", "INVALID_DISK"} ->
                ui_developer_mode_boot_external_action(stack, d) /\ UNCHANGED <<key, touched>>
         [] OTHER -> Ignored(stack)

-----------------------------------------------------------------------------
(* Menus                                                                   *)

\* The items of a screen: the screens they lead to, and their actions.
Targets(id) ==
    CASE id = "SELECT" -> {"ADVANCED"}
      [] id = "ADVANCED" ->
            {"DEBUG_INFO"} \cup (IF board.fastboot THEN {"FASTBOOT"} ELSE {})
            \cup (IF board.mode = "recovery" /\ ~ board.dev_mode THEN {"TO_DEV"} ELSE {})
      [] id = "DEV" -> {"TO_NORM", "ALTFW", "ADVANCED"}
      [] OTHER -> {}
Actions(id) ==
    CASE id = "SELECT" -> {"nbr", "diagnostics", "off"}
      [] id \in {"INVALID", "ROLLBACK"} -> {"off"}
      [] id = "TO_DEV" -> {"confirm", "back", "off"}
      [] id = "ADVANCED" -> {"back", "off"} \cup (IF board.mode = "recovery" THEN {"nbr"} ELSE {})
      [] id = "DEV" -> {"internal", "external", "off"}
      [] id = "TO_NORM" -> {"lock", "back", "off"}
      [] id \in {"BOOT_EXTERNAL", "INVALID_DISK"} -> {"back", "off"}
      [] id = "ALTFW" -> {"altfw", "back", "off"}
      [] OTHER -> {"nothing"}

RunItem(item, d) ==
    CASE item = "back" -> ui_screen_back(stack, d) /\ Stays
      [] item = "off" -> Leave("shutdown", stack)
      [] item = "diagnostics" -> Leave("reboot", stack)
      [] item = "nbr" -> boot_nbr_impl(stack)
      [] item = "internal" -> ui_developer_mode_boot_internal_action(stack)
      [] item = "external" -> ui_developer_mode_boot_external_action(stack, d)
      [] item = "altfw" -> developer_boot_altfw_impl(stack)
      [] item = "lock" -> Leave("to_norm", stack) \/ (Stay(stack) /\ Stays)
      [] OTHER -> Stay(stack) /\ Stays
ui_menu_select(d) ==
    \/ \E id \in Targets(Top(stack).id) : ui_screen_change(stack, id, d) /\ Stays
    \/ \E item \in Actions(Top(stack).id) : RunItem(item, d)

ui_menu_navigation_action(d) ==
    IF IsEnter THEN ui_menu_select(d) /\ Taken /\ UNCHANGED touched
    ELSE IF key = "esc" THEN ui_screen_back(stack, d) /\ Taken /\ UNCHANGED <<outcome, touched>>
    ELSE Ignored(stack)

-----------------------------------------------------------------------------
(* Global actions                                                          *)

RecoveryScreenMutant ==
    CASE disk = "none" -> Top(stack).id [] disk = "rollback" -> "ROLLBACK" [] OTHER -> "INVALID"
RecoveryScreen ==
    CASE disk = "none" -> "SELECT" [] disk = "rollback" -> "ROLLBACK" [] OTHER -> "INVALID"
ShortcutTo(id) == ui_screen_change(stack, id, disk) /\ Taken /\ Stays

ui_manual_recovery_action ==
    IF disk = "valid" THEN Leave("boot", stack) /\ UNCHANGED <<key, recovery_rv>>
    ELSE IF recovery_rv # disk
    THEN /\ recovery_rv' = disk
         /\ ui_screen_change(stack, RecoveryScreen, disk)
         /\ UNCHANGED <<key, outcome>>
    ELSE /\ CASE key = "to_dev" -> ShortcutTo("TO_DEV")
              [] key = "fastboot" /\ board.fastboot -> ShortcutTo("FASTBOOT")
              [] key = "tab" -> ShortcutTo("DEBUG_INFO")
              [] key = "nbr" -> boot_nbr_impl(stack) /\ Taken
              [] OTHER -> Stay(stack) /\ Stays /\ UNCHANGED key
         /\ UNCHANGED recovery_rv

developer_action(d) ==
    /\ CASE key = "tab" -> ShortcutTo("DEBUG_INFO")
         [] key = "to_norm" -> ShortcutTo("TO_NORM")
         [] key = "fastboot" -> ShortcutTo("FASTBOOT")
         [] key = "external" -> ui_developer_mode_boot_external_action(stack, d) /\ Taken
         [] key = "internal" -> ui_developer_mode_boot_internal_action(stack) /\ Taken
         [] key = "altfw" -> developer_boot_altfw_impl(stack) /\ Taken
         [] OTHER -> Stay(stack) /\ Stays /\ UNCHANGED key
    /\ UNCHANGED recovery_rv

-----------------------------------------------------------------------------
(* The loop                                                                *)

Init ==
    /\ board \in Boards
    /\ LET root == [id |-> IF board.mode = "recovery" THEN "SELECT" ELSE "DEV",
                    timer_disabled |-> FALSE, error |-> FALSE, fb |-> FALSE]
       IN stack = IF board.mode = "developer" /\ board.fastboot /\ board.requested /\ Heap > 1
                  THEN Pushed(<<root>>, "FASTBOOT") ELSE <<root>>
    /\ pc = "read" /\ key = "none"
    /\ recovery_rv = "unset" /\ pressed = FALSE /\ late = FALSE
    /\ outcome = "running"
    /\ disk \in Disks /\ button \in {FALSE, board.mode = "recovery" /\ ~ board.keyboard}
    /\ touched = FALSE /\ seen = FALSE /\ shown = Top(stack).id /\ leaked = FALSE

\* One phase of the loop; the disk may have changed when a handler looks at it again.
At(here) == pc = here /\ outcome = "running"
GoOn(next) ==
    /\ pc' = IF outcome' = "running" THEN next ELSE "done"
    /\ UNCHANGED <<board, button>>

\* Lid, power button and power key are one choice; a key first clears an error box.
ReadKey ==
    /\ At("read")
    /\ \/ /\ Leave("shutdown", stack)
          /\ UNCHANGED key
       \/ \E k \in Keys :
            LET boxed == k # "none" /\ Top(stack).error
            IN /\ key' = IF boxed THEN "none" ELSE k
               /\ Stay(IF boxed THEN [stack EXCEPT ![Len(stack)].error = FALSE] ELSE stack)
               /\ Stays
    /\ UNCHANGED <<recovery_rv, disk, touched, shown>>
    /\ GoOn("screen")

RunScreen ==
    /\ At("screen")
    /\ disk' \in Disks
    /\ ScreenAction(disk')
    /\ UNCHANGED <<recovery_rv, shown>>
    /\ GoOn("menu")

AfterMenuMutant == IF key' # key THEN "read" ELSE "global"
AfterMenu == "global"
RunMenu ==
    /\ At("menu")
    /\ disk' \in Disks
    /\ ui_menu_navigation_action(disk')
    /\ UNCHANGED <<recovery_rv, shown>>
    /\ GoOn(AfterMenu)

RunGlobal ==
    /\ At("global")
    /\ IF board.mode = "recovery" THEN ui_manual_recovery_action /\ UNCHANGED disk
       ELSE disk' \in Disks /\ developer_action(disk')
    /\ UNCHANGED touched /\ shown' = Top(stack').id
    /\ GoOn("read")

Loop == ReadKey \/ RunScreen \/ RunMenu \/ RunGlobal

DiskChanges ==
    /\ outcome = "running"
    /\ disk' \in Disks \ {disk}
    /\ UNCHANGED <<board, stack, pc, key, recovery_rv, pressed, late, outcome, button,
                   touched, shown, leaked>>

ButtonChanges ==
    /\ outcome = "running" /\ board.mode = "recovery" /\ ~ board.keyboard
    /\ button' = ~ button
    /\ UNCHANGED <<board, stack, pc, key, recovery_rv, pressed, late, outcome, disk,
                   touched, shown, leaked>>

DelayRunsOut ==
    /\ outcome = "running" /\ board.mode = "developer" /\ ~ late
    /\ late' = TRUE
    /\ UNCHANGED <<board, stack, pc, key, recovery_rv, pressed, outcome, disk, button,
                   touched, shown, leaked>>

\* Presence is shown by the button, or by a trusted ENTER, once TO_DEV is on the stack.
Shown == IF board.keyboard THEN key' = "enter" ELSE button'
Witness ==
    seen' = IF outcome' # "running" THEN seen ELSE On(stack', "TO_DEV") /\ (seen \/ Shown)

Next == (Loop \/ DiskChanges \/ ButtonChanges \/ DelayRunsOut) /\ Witness

Spec == Init /\ [][Next]_vars /\ WF_vars(Loop /\ Witness) /\ WF_vars(DelayRunsOut /\ Witness)

-----------------------------------------------------------------------------
(* Properties                                                              *)

\* No screen is on the stack twice and the root stays below the others: a change to a
\* screen already there goes back to it (navigation.c:71-97).
UiTypeOK ==
    /\ board \in Boards
    /\ Len(stack) \in 1..Heap
    /\ \A i \in 1..Len(stack) :
        stack[i] \in [id : Screens, timer_disabled : BOOLEAN, error : BOOLEAN, fb : BOOLEAN]
    /\ \A i, j \in 1..Len(stack) : stack[i].id = stack[j].id => i = j
    /\ stack[1].id = (IF board.mode = "recovery" THEN "SELECT" ELSE "DEV")
    /\ pc \in {"read", "screen", "menu", "global", "done"}
    /\ key \in Keys
    /\ recovery_rv \in Disks \cup {"unset"}
    /\ outcome \in {"running", "boot", "altfw", "reboot", "shutdown", "error", "to_dev",
                   "to_norm"}
    /\ disk \in Disks
    /\ shown \in Screens
    /\ \A flag \in {pressed, late, button, touched, seen, leaked} : flag \in BOOLEAN

\* Developer mode is enabled only after the user showed presence on this visit to the
\* confirmation screen: a button pressed during an earlier visit, or an ENTER from an
\* untrusted keyboard, is not enough (recovery_to_dev_init, recovery_to_dev_action).
PresenceConfirmed == outcome = "to_dev" => seen

\* Once a key reached the developer screen, or the automatic boot was tried, the delay
\* stays disabled whatever screens are visited in between (preserve_state).
TimerStaysOff == touched => Top(stack).timer_disabled

\* When no disk is plugged in, no screen about a bad recovery disk is left on the stack,
\* where going back would show it (ui_manual_recovery_action).
NoStaleDiskScreen ==
    recovery_rv \in {"unset", "none"} => ~ On(stack, "INVALID") /\ ~ On(stack, "ROLLBACK")

\* The screens that change by themselves: a fastboot session ended, or a disk was
\* plugged in or out (fastboot_action, ui_developer_mode_boot_external_action).
ChangesByItself == {"FASTBOOT", "BOOT_EXTERNAL", "INVALID_DISK"}

\* A key acts on the screen on which it was pressed: one that a handler left for the
\* menu or for the global action still meets that screen.  "If it triggers screen change
\* due to a key press, the action function must clear ui->key" (ui.h:689-691), and no
\* other change may come between, except on the screens that change by themselves.
KeyOnItsScreen ==
    outcome = "running" /\ pc \in {"menu", "global"} /\ key # "none"
    => Top(stack).id = shown \/ shown \in ChangesByItself

\* In manual recovery a valid disk that stays plugged in is booted, whatever the user
\* is doing, unless the loop ends some other way first.
BootsWhenReady ==
    board.mode = "recovery" => (<>[](disk = "valid") => <>(outcome # "running"))

\* A developer machine nobody touches boots its internal disk after the delay, also when
\* it was first sent to fastboot by the misc partition, once fastboot is left.
UnattendedBoots ==
    (board.mode = "developer" /\ board.target = "internal" /\ board.internal)
    => (([](key = "none") /\ <>[]~ On(stack, "FASTBOOT")) => <>(outcome # "running"))

\* The exit function runs when a screen is popped (ui.h:685-687): no screen is dropped
\* while it still holds a fastboot session.
ExitRuns == ~ leaked

\* The stack of screens is sound: each screen once, the root at the bottom, and
\* none that the disk no longer justifies.
StackSound == UiTypeOK /\ NoStaleDiskScreen
=============================================================================

------------------------ MODULE UiNavigation_proofs ------------------------
(***************************************************************************)
(* Theorems about UiNavigation, for every set of machines and any heap:    *)
(* the stack of screens is sound (StackSound), developer mode needs the    *)
(* user's presence (PresenceConfirmed), the delay stays disabled once the  *)
(* user was there (TimerStaysOff) and a key acts on the screen on which it *)
(* was pressed (KeyOnItsScreen).                                           *)
(***************************************************************************)
EXTENDS UiNavigation, WellFoundedInduction, TLAPS

-----------------------------------------------------------------------------
(* The inductive invariant.                                                 *)

Entry == [id : Screens, timer_disabled : BOOLEAN, error : BOOLEAN, fb : BOOLEAN]

Root == IF board.mode = "recovery" THEN "SELECT" ELSE "DEV"

\* A stack that navigation may build.
StackOK(s) ==
    /\ s \in Seq(Entry)
    /\ Len(s) \in 1 .. Heap
    /\ \A i, j \in 1 .. Len(s) : s[i].id = s[j].id => i = j
    /\ s[1].id = Root

\* While the confirmation is on the stack, a button that was pressed and a
\* trusted ENTER that waits for its handler have been seen on this visit.
PresenceInv ==
    /\ PresenceConfirmed
    /\ outcome = "running" /\ On(stack, "TO_DEV") =>
           /\ pressed => seen
           /\ board.keyboard /\ key = "enter" => seen

\* A key that is still there meets the screen of its iteration, which the screen's own
\* action finds as the key was pressed on it.
KeyInv ==
    /\ KeyOnItsScreen
    /\ outcome = "running" /\ pc \in {"read", "screen"} => Top(stack).id = shown

IInv ==
    /\ UiTypeOK /\ stack \in Seq(Entry)
    /\ NoStaleDiskScreen
    /\ TimerStaysOff
    /\ KeyInv
    /\ PresenceInv

-----------------------------------------------------------------------------
(* Stacks.                                                                  *)

\* A non-empty set of positions has a last one.
LEMMA LastPosition ==
    ASSUME NEW n \in Nat, NEW S, S \subseteq 1 .. n, S # {}
    PROVE  Max(S) \in S
<1> DEFINE T == {n - i : i \in S}
<1>1. T \subseteq Nat /\ T # {}
  <2>1. \A i \in S : i \in Int /\ i <= n
    OBVIOUS
  <2>2. \A i \in S : n - i \in Nat
    BY <2>1
  <2>3. QED
    BY <2>2
<1>2. PICK x \in T : \A y \in T : ~ (<<y, x>> \in OpToRel(<, Nat))
  BY <1>1, NatLessThanWellFounded, WFMin
<1>3. \A y \in T : ~ (y < x)
  BY <1>1, <1>2 DEF OpToRel
<1>4. PICK i \in S : x = n - i
  OBVIOUS
<1>5. \A j \in S : i >= j
  <2>1. TAKE j \in S
  <2>2. n - j \in T
    OBVIOUS
  <2>3. ~ (n - j < n - i)
    BY <1>3, <1>4, <2>2
  <2>4. i \in Int /\ j \in Int
    OBVIOUS
  <2>5. QED
    BY <2>3, <2>4
<1>6. QED
  BY <1>5 DEF Max

\* The stack t has been made from s: nothing but the screens of ids has been
\* added, and a delay that was disabled still is.
From(s, t, ids) ==
    /\ StackOK(t)
    /\ Top(s).timer_disabled => Top(t).timer_disabled
    /\ \A id : On(t, id) => id \in ids \/ On(s, id)

\* One change of the stack after the other.
LEMMA FromTransitive ==
    ASSUME NEW s, NEW t, NEW u, NEW I, NEW J, From(s, t, I), From(t, u, J)
    PROVE  From(s, u, I \cup J)
BY DEF From

\* The screen on top.
LEMMA TopScreen ==
    ASSUME NEW s, StackOK(s)
    PROVE  /\ Len(s) \in Nat /\ Len(s) >= 1 /\ Len(s) <= Heap
           /\ Top(s) = s[Len(s)] /\ Top(s) \in Entry /\ Top(s).timer_disabled \in BOOLEAN
           /\ \A i \in 1 .. Len(s) : s[i] \in Entry
           /\ DOMAIN s = 1 .. Len(s)
<1>1. s \in Seq(Entry) /\ Len(s) \in Nat /\ Heap \in Nat
  BY HeapAssumption DEF StackOK
<1>2. Len(s) >= 1 /\ Len(s) <= Heap
  BY <1>1 DEF StackOK
<1>3. s[Len(s)] \in Entry
  BY <1>1, <1>2
<1>4. Top(s) = s[Len(s)] /\ Top(s) \in Entry /\ Top(s).timer_disabled \in BOOLEAN
  BY <1>3 DEF Top, Entry
<1>5. DOMAIN s = 1 .. Len(s) /\ \A i \in 1 .. Len(s) : s[i] \in Entry
  BY <1>1
<1>6. QED
  BY <1>1, <1>2, <1>4, <1>5

\* A stack with the same screens, or the lower ones of them.
LEMMA LowerScreens ==
    ASSUME NEW s, StackOK(s), NEW n \in 1 .. Len(s),
           NEW t \in Seq(Entry), Len(t) = n, \A i \in 1 .. n : t[i].id = s[i].id,
           Top(s).timer_disabled => Top(t).timer_disabled
    PROVE  From(s, t, {})
<1>1. Len(s) \in Nat /\ Len(s) >= 1 /\ Len(s) <= Heap /\ Heap \in Nat /\ n \in Nat
  BY TopScreen, HeapAssumption
<1>2. StackOK(t)
  BY <1>1 DEF StackOK
<1>3. \A id : On(t, id) => On(s, id)
  BY <1>1 DEF On
<1>4. QED
  BY <1>2, <1>3 DEF From

\* pop_state hands timer and error on.
LEMMA PopToFrom ==
    ASSUME NEW s, StackOK(s), NEW n \in 1 .. Len(s)
    PROVE  From(s, PopTo(s, n), {}) /\ Len(PopTo(s, n)) = n
           /\ PopTo(s, n)[n].id = s[n].id
<1> DEFINE u == SubSeq(s, 1, n)
           e == [[u[n] EXCEPT !.timer_disabled = Top(s).timer_disabled]
                   EXCEPT !.error = Top(s).error]
<1>1. /\ Len(s) \in Nat /\ n \in Nat /\ n >= 1 /\ n <= Len(s) /\ s \in Seq(Entry)
      /\ Top(s) \in Entry
  BY TopScreen DEF StackOK
<1>2. u \in Seq(Entry) /\ Len(u) = n /\ \A i \in 1 .. n : u[i] = s[i]
  BY <1>1
<1>3. u[n] \in Entry
  BY <1>1, <1>2
<1>4. e \in Entry /\ e.id = s[n].id /\ e.timer_disabled = Top(s).timer_disabled
  <2>1. \A x, y \in Entry :
            /\ [[x EXCEPT !.timer_disabled = y.timer_disabled] EXCEPT !.error = y.error] \in Entry
            /\ [[x EXCEPT !.timer_disabled = y.timer_disabled] EXCEPT !.error = y.error].id = x.id
            /\ [[x EXCEPT !.timer_disabled = y.timer_disabled]
                    EXCEPT !.error = y.error].timer_disabled = y.timer_disabled
    BY DEF Entry
  <2>2. u[n] = s[n]
    BY <1>1, <1>2
  <2>3. QED
    BY <1>1, <1>3, <2>1, <2>2
<1>5. PopTo(s, n) = [u EXCEPT ![n] = e]
  BY <1>1, <1>2 DEF PopTo
<1> DEFINE t == [u EXCEPT ![n] = e]
<1> HIDE DEF u, e
<1>6. t \in Seq(Entry) /\ Len(t) = n /\ t[n] = e /\ \A i \in 1 .. n : i # n => t[i] = s[i]
  BY <1>1, <1>2, <1>4
<1>7. Top(t) = e
  BY <1>6 DEF Top
<1>8. From(s, t, {})
  <2>1. \A i \in 1 .. n : t[i].id = s[i].id
    BY <1>4, <1>6
  <2>2. Top(s).timer_disabled => Top(t).timer_disabled
    BY <1>4, <1>7
  <2> HIDE DEF t
  <2>3. QED
    BY <1>6, <2>1, <2>2, LowerScreens
<1>9. QED
  BY <1>4, <1>5, <1>6, <1>8

\* The uncovered screen may go back at once, down to the root at most.
LEMMA SettledFrom ==
    ASSUME NEW s, StackOK(s), NEW d
    PROVE  From(s, Settled(s, d), {})
<1> DEFINE S == {i \in 1 .. Len(s) : ~ Skips(s[i].id, d)}
<1>1. Len(s) \in Nat /\ 1 \in 1 .. Len(s) /\ s[1].id = Root
  BY TopScreen DEF StackOK
<1>2. 1 \in S
  BY <1>1 DEF Skips, Root
<1>3. Max(S) \in 1 .. Len(s)
  BY <1>1, <1>2, LastPosition
<1>4. QED
  BY <1>3, PopToFrom DEF Settled

\* ui_screen_back
LEMMA BackFrom ==
    ASSUME NEW s, StackOK(s), NEW d
    PROVE  From(s, Back(s, d), {})
<1>1. CASE Len(s) = 1
  BY <1>1 DEF Back, From
<1>2. CASE Len(s) # 1
  <2>1. Len(s) - 1 \in 1 .. Len(s)
    <3>1. Len(s) \in Nat /\ Len(s) >= 1
      BY TopScreen
    <3>2. \A k \in Nat : k >= 1 /\ k # 1 => k - 1 \in 1 .. k
      OBVIOUS
    <3>3. QED
      BY <1>2, <3>1, <3>2
  <2>2. From(s, PopTo(s, Len(s) - 1), {})
    BY <2>1, PopToFrom
  <2>3. From(PopTo(s, Len(s) - 1), Settled(PopTo(s, Len(s) - 1), d), {})
    BY <2>2, SettledFrom DEF From
  <2>4. From(s, Settled(PopTo(s, Len(s) - 1), d), {} \cup {})
    BY <2>2, <2>3, FromTransitive
  <2>5. QED
    BY <1>2, <2>4 DEF Back
<1>3. QED
  BY <1>1, <1>2

\* Another flag for the screen on top.
LEMMA TopFlag ==
    ASSUME NEW s, StackOK(s), NEW b \in BOOLEAN
    PROVE  /\ From(s, WithError(s), {}) /\ Len(WithError(s)) = Len(s)
           /\ From(s, TimerOff(s), {}) /\ Top(TimerOff(s)).timer_disabled
           /\ From(s, [s EXCEPT ![Len(s)].fb = b], {})
           /\ From(s, [s EXCEPT ![Len(s)].error = b], {})
<1> DEFINE n == Len(s)
<1>1. /\ n \in Nat /\ n >= 1 /\ s \in Seq(Entry) /\ s[n] \in Entry /\ Top(s) = s[n]
      /\ n \in 1 .. n
  BY TopScreen DEF StackOK
<1>2. ASSUME NEW e \in Entry, e.id = s[n].id, s[n].timer_disabled => e.timer_disabled
      PROVE  /\ From(s, [s EXCEPT ![n] = e], {}) /\ Len([s EXCEPT ![n] = e]) = n
             /\ Top([s EXCEPT ![n] = e]) = e
  <2> DEFINE t == [s EXCEPT ![n] = e]
  <2>1. t \in Seq(Entry) /\ Len(t) = n /\ t[n] = e /\ \A i \in 1 .. n : i # n => t[i] = s[i]
    BY <1>1
  <2>2. Top(t) = e
    BY <2>1 DEF Top
  <2>3. From(s, t, {})
    BY <1>1, <1>2, <2>1, <2>2, LowerScreens
  <2>4. QED
    BY <2>1, <2>2, <2>3
<1>3. /\ [s[n] EXCEPT !.error = TRUE] \in Entry /\ [s[n] EXCEPT !.error = b] \in Entry
      /\ [s[n] EXCEPT !.timer_disabled = TRUE] \in Entry /\ [s[n] EXCEPT !.fb = b] \in Entry
      /\ [s[n] EXCEPT !.error = TRUE].id = s[n].id /\ [s[n] EXCEPT !.error = b].id = s[n].id
      /\ [s[n] EXCEPT !.timer_disabled = TRUE].id = s[n].id
      /\ [s[n] EXCEPT !.fb = b].id = s[n].id
      /\ [s[n] EXCEPT !.error = TRUE].timer_disabled = s[n].timer_disabled
      /\ [s[n] EXCEPT !.error = b].timer_disabled = s[n].timer_disabled
      /\ [s[n] EXCEPT !.fb = b].timer_disabled = s[n].timer_disabled
      /\ [s[n] EXCEPT !.timer_disabled = TRUE].timer_disabled = TRUE
  BY <1>1 DEF Entry
<1>4. From(s, WithError(s), {}) /\ Len(WithError(s)) = n
  BY <1>2, <1>3 DEF WithError
<1>5. From(s, TimerOff(s), {}) /\ Top(TimerOff(s)).timer_disabled
  BY <1>2, <1>3 DEF TimerOff
<1>6. From(s, [s EXCEPT ![n].fb = b], {}) /\ From(s, [s EXCEPT ![n].error = b], {})
  BY <1>2, <1>3
<1>7. QED
  BY <1>4, <1>5, <1>6

\* push_state: a new screen over those that are there.
LEMMA PushedFrom ==
    ASSUME NEW s, StackOK(s), NEW id \in Screens, ~ On(s, id), Len(s) # Heap
    PROVE  From(s, Pushed(s, id), {id}) /\ Len(Pushed(s, id)) = Len(s) + 1
<1> DEFINE n == Len(s)
           e == [id |-> id, timer_disabled |-> Top(s).timer_disabled,
                 error |-> Top(s).error, fb |-> FALSE]
           t == Append(s, e)
<1>1. /\ n \in Nat /\ n >= 1 /\ n <= Heap /\ s \in Seq(Entry) /\ Top(s) \in Entry
      /\ Heap \in Nat
  BY TopScreen, HeapAssumption DEF StackOK
<1>2. e \in Entry
  BY <1>1 DEF Entry
<1>3. /\ t \in Seq(Entry) /\ Len(t) = n + 1 /\ t[n + 1] = e
      /\ \A i \in 1 .. n : t[i] = s[i]
  BY <1>1, <1>2
<1>4. StackOK(t)
  <2>1. Len(t) \in 1 .. Heap /\ t[1].id = Root
    BY <1>1, <1>3 DEF StackOK
  <2>2. ASSUME NEW i \in 1 .. Len(t), NEW j \in 1 .. Len(t), t[i].id = t[j].id
        PROVE  i = j
    <3>1. e.id = id /\ \A k \in 1 .. n : s[k].id # id
      BY DEF On
    <3>2. \A k \in 1 .. n + 1 : k = n + 1 \/ k \in 1 .. n
      BY <1>1
    <3>3. i \in 1 .. n + 1 /\ j \in 1 .. n + 1
      BY <1>3
    <3>4. QED
      BY <1>3, <2>2, <3>1, <3>2, <3>3 DEF StackOK
  <2>3. QED
    BY <1>3, <2>1, <2>2 DEF StackOK
<1>5. Top(t).timer_disabled = Top(s).timer_disabled
  BY <1>3 DEF Top
<1>6. \A x : On(t, x) => x = id \/ On(s, x)
  <2>1. \A k \in 1 .. n + 1 : k = n + 1 \/ k \in 1 .. n
    BY <1>1
  <2>2. QED
    BY <1>3, <2>1 DEF On
<1>7. QED
  BY <1>3, <1>4, <1>5, <1>6 DEF Pushed, From

\* ui_screen_change adds its screen or none.
LEMMA ChangedFrom ==
    ASSUME NEW s, StackOK(s), NEW id \in Screens, NEW d
    PROVE  From(s, Changed(s, id, d), {id})
<1>1. From(s, s, {id})
  BY DEF From
<1>2. ASSUME On(s, id)
      PROVE  From(s, Settled(PopTo(s, Position(s, id)), d), {id})
  <2>1. Position(s, id) \in 1 .. Len(s)
    BY <1>2 DEF On, Position
  <2>2. From(s, PopTo(s, Position(s, id)), {})
    BY <2>1, PopToFrom
  <2>3. From(PopTo(s, Position(s, id)), Settled(PopTo(s, Position(s, id)), d), {})
    BY <2>2, SettledFrom DEF From
  <2>4. QED
    BY <2>2, <2>3 DEF From
<1>3. ASSUME ~ On(s, id), Len(s) # Heap
      PROVE  /\ From(s, Settled(PopTo(WithError(Pushed(s, id)), Len(s)), d), {id})
             /\ From(s, Settled(PopTo(Pushed(s, id), Len(s)), d), {id})
             /\ From(s, Pushed(s, id), {id})
  <2>1. /\ From(s, Pushed(s, id), {id}) /\ Len(Pushed(s, id)) = Len(s) + 1
        /\ Len(s) \in Nat /\ Len(s) >= 1
    BY <1>3, PushedFrom, TopScreen
  <2>2. ASSUME NEW t, From(s, t, {id}), Len(t) = Len(s) + 1
        PROVE  From(s, Settled(PopTo(t, Len(s)), d), {id})
    <3>1. StackOK(t) /\ Len(s) \in 1 .. Len(t)
      BY <2>1, <2>2 DEF From
    <3>2. From(t, PopTo(t, Len(s)), {})
      BY <3>1, PopToFrom
    <3>3. From(PopTo(t, Len(s)), Settled(PopTo(t, Len(s)), d), {})
      BY <3>2, SettledFrom DEF From
    <3>4. QED
      BY <2>2, <3>2, <3>3 DEF From
  <2>3. From(s, WithError(Pushed(s, id)), {id}) /\ Len(WithError(Pushed(s, id))) = Len(s) + 1
    <3>1. /\ From(Pushed(s, id), WithError(Pushed(s, id)), {})
          /\ Len(WithError(Pushed(s, id))) = Len(s) + 1
      BY <2>1, TopFlag DEF From
    <3>2. QED
      BY <2>1, <3>1 DEF From
  <2>4. QED
    BY <2>1, <2>2, <2>3
<1>4. QED
  BY <1>1, <1>2, <1>3 DEF Changed

\* Going to the root, wherever one is.
LEMMA ChangedToRoot ==
    ASSUME NEW s, StackOK(s), NEW d
    PROVE  \A x : On(Changed(s, Root, d), x) => x = Root
<1>1. Len(s) \in Nat /\ Len(s) >= 1 /\ s[1].id = Root /\ On(s, Root)
  BY TopScreen DEF StackOK, On
<1>2. CASE Top(s).id = Root
  <2>1. Len(s) = 1
    <3>1. 1 \in 1 .. Len(s) /\ Len(s) \in 1 .. Len(s) /\ s[Len(s)].id = s[1].id
      BY <1>1, <1>2 DEF Top
    <3>2. QED
      BY <3>1 DEF StackOK
  <2>2. Changed(s, Root, d) = s
    BY <1>2 DEF Changed
  <2>3. \A i \in 1 .. Len(s) : i = 1
    BY <2>1
  <2>4. QED
    BY <1>1, <2>2, <2>3 DEF On
<1>3. CASE Top(s).id # Root
  <2>1. Position(s, Root) = 1
    BY <1>1 DEF StackOK, Position
  <2>2. From(s, PopTo(s, 1), {}) /\ Len(PopTo(s, 1)) = 1 /\ PopTo(s, 1)[1].id = Root
    <3>1. 1 \in 1 .. Len(s)
      BY <1>1
    <3>2. QED
      BY <1>1, <3>1, PopToFrom
  <2>3. From(PopTo(s, 1), Settled(PopTo(s, 1), d), {})
    BY <2>2, SettledFrom DEF From
  <2>4. Changed(s, Root, d) = Settled(PopTo(s, 1), d)
    BY <1>1, <1>3, <2>1 DEF Changed
  <2>5. QED
    BY <2>2, <2>3, <2>4 DEF From, On
<1>4. QED
  BY <1>2, <1>3

-----------------------------------------------------------------------------
(* Handlers.                                                                *)

Outcomes == {"running", "boot", "altfw", "reboot", "shutdown", "error", "to_dev", "to_norm"}

\* What the screens that a handler may show are called, those about the disk
\* in recovery apart.
Shows == Screens \ {"INVALID", "ROLLBACK"}

\* A handler keeps the stack sound; a button that was pressed counts only for
\* the visit to the confirmation during which it was.
Moved(ids) ==
    /\ From(stack, stack', ids)
    /\ pressed' \in BOOLEAN /\ late' \in BOOLEAN /\ leaked' \in BOOLEAN
    /\ pressed' /\ On(stack', "TO_DEV") => pressed /\ On(stack, "TO_DEV")

\* What is known when a handler runs.
Ready == StackOK(stack) /\ pressed \in BOOLEAN /\ late \in BOOLEAN /\ leaked \in BOOLEAN

\* Handlers that only pop.
LEMMA Pops ==
    ASSUME Ready, NEW s, From(stack, s, {}), NEW d, NEW o
    PROVE  (Stay(s) \/ ui_screen_back(s, d) \/ Leave(o, s)) => Moved({})
<1>1. StackOK(s)
  BY DEF From
<1>2. ASSUME stack' = s \/ From(s, stack', {}), pressed' = pressed, late' \in BOOLEAN,
             leaked' = leaked
      PROVE  Moved({})
  <2>1. From(stack, stack', {})
    BY <1>2 DEF From
  <2>2. QED
    BY <1>2, <2>1 DEF Moved, Ready, From
<1>3. Stay(s) => Moved({})
  BY <1>2 DEF Stay, Ready
<1>4. ui_screen_back(s, d) => Moved({})
  <2> SUFFICES ASSUME ui_screen_back(s, d)
               PROVE  Moved({})
    OBVIOUS
  <2>1. From(s, stack', {})
    BY <1>1, BackFrom DEF ui_screen_back
  <2>2. late' \in BOOLEAN /\ pressed' = pressed /\ leaked' = leaked
    BY DEF ui_screen_back, fastboot_exit, Ready
  <2>3. QED
    BY <1>2, <2>1, <2>2
<1>5. Leave(o, s) => Moved({})
  <2> SUFFICES ASSUME Leave(o, s)
               PROVE  Moved({})
    OBVIOUS
  <2>1. 1 \in 1 .. Len(s)
    BY <1>1, TopScreen
  <2>2. From(s, PopTo(s, 1), {}) /\ Len(PopTo(s, 1)) = 1
    BY <1>1, <2>1, PopToFrom
  <2>3. From(PopTo(s, 1), stack', {})
    <3>1. From(PopTo(s, 1), [PopTo(s, 1) EXCEPT ![Len(PopTo(s, 1))].fb = FALSE], {})
      BY <2>2, TopFlag DEF From
    <3>2. QED
      BY <2>2, <3>1 DEF Leave
  <2>4. From(s, stack', {})
    BY <2>2, <2>3 DEF From
  <2>5. QED
    BY <1>2, <2>4 DEF Leave, Ready
<1>6. QED
  BY <1>3, <1>4, <1>5

\* ui_screen_change
LEMMA Changes ==
    ASSUME Ready, NEW s, NEW I, From(stack, s, I), NEW id \in Screens, NEW d,
           ui_screen_change(s, id, d)
    PROVE  Moved(I \cup {id})
<1>1. From(s, stack', {id})
  BY ChangedFrom DEF From, ui_screen_change
<1>2. From(stack, stack', I \cup {id})
  BY <1>1 DEF From
<1>3. late' \in BOOLEAN /\ leaked' \in BOOLEAN
  BY DEF ui_screen_change, fastboot_exit, Ready
<1>4. pressed' = (pressed /\ ~ (On(stack', "TO_DEV") /\ ~ On(stack, "TO_DEV")))
  BY DEF ui_screen_change, PressedAfter
<1>5. QED
  BY <1>2, <1>3, <1>4 DEF Moved

\* More screens than are shown.
LEMMA MovedMore ==
    ASSUME NEW I, NEW J, I \subseteq J, Moved(I)
    PROVE  Moved(J)
BY DEF Moved, From

\* The stack as it is, or with another flag on top.
LEMMA FromStack ==
    ASSUME Ready, NEW b \in BOOLEAN
    PROVE  /\ From(stack, stack, {})
           /\ From(stack, WithError(stack), {})
           /\ From(stack, TimerOff(stack), {}) /\ Top(TimerOff(stack)).timer_disabled
           /\ From(stack, [stack EXCEPT ![Len(stack)].fb = b], {})
           /\ From(stack, [stack EXCEPT ![Len(stack)].error = b], {})
BY TopFlag DEF Ready, From

\* How a handler may end the loop.
Ends == outcome' \in Outcomes \ {"to_dev"}

\* The boots that a user may ask for.
LEMMA Boots ==
    ASSUME Ready, outcome = "running", NEW d
    PROVE  (\/ ui_developer_mode_boot_internal_action(stack)
            \/ developer_boot_altfw_impl(stack)
            \/ ui_developer_mode_boot_external_action(stack, d)
            \/ boot_nbr_impl(stack)) => Moved(Shows) /\ Ends
<1>1. From(stack, stack, {}) /\ From(stack, WithError(stack), {})
  BY FromStack
<1>2. Stay(stack) \/ Stay(WithError(stack)) \/ Leave("boot", stack) => Moved(Shows)
  <2>1. Stay(stack) \/ Stay(WithError(stack)) \/ Leave("boot", stack) => Moved({})
    BY <1>1, Pops
  <2>2. QED
    BY <2>1, MovedMore
<1>3. \A id \in Shows : ui_screen_change(stack, id, d) => Moved(Shows)
  <2> SUFFICES ASSUME NEW id \in Shows, ui_screen_change(stack, id, d)
               PROVE  Moved(Shows)
    OBVIOUS
  <2>1. Moved({} \cup {id})
    BY <1>1, Changes DEF Shows
  <2>2. QED
    BY <2>1, MovedMore
<1>4. ExternalScreen \in Shows
  BY DEF ExternalScreen, Shows, Screens, Developer
<1>5. Leave("boot", stack) \/ Stays \/ outcome' = "altfw" => Ends
  BY DEF Leave, Stays, Ends, Outcomes
<1>6. ui_developer_mode_boot_internal_action(stack) => Moved(Shows) /\ Ends
  BY <1>2, <1>5 DEF ui_developer_mode_boot_internal_action
<1>7. developer_boot_altfw_impl(stack) => Moved(Shows) /\ Ends
  BY <1>2, <1>5 DEF developer_boot_altfw_impl
<1>8. ui_developer_mode_boot_external_action(stack, d) => Moved(Shows) /\ Ends
  BY <1>2, <1>3, <1>4, <1>5 DEF ui_developer_mode_boot_external_action
<1>9. boot_nbr_impl(stack) => Moved(Shows) /\ Ends
  BY <1>2, <1>5 DEF boot_nbr_impl
<1>10. QED
  BY <1>6, <1>7, <1>8, <1>9

-----------------------------------------------------------------------------
(* One phase of the loop.                                                   *)

\* What a phase leaves behind.
Handled(ids) ==
    /\ From(stack, stack', ids)
    /\ pressed' \in BOOLEAN /\ late' \in BOOLEAN /\ leaked' \in BOOLEAN
    /\ touched' \in BOOLEAN /\ key' \in Keys /\ outcome' \in Outcomes
    /\ touched' => Top(stack').timer_disabled
    /\ outcome' = "to_dev" => seen
    /\ pressed' /\ On(stack', "TO_DEV") =>
           (pressed /\ On(stack, "TO_DEV")) \/ (~ board.keyboard /\ button)

\* What the invariant says to a handler.
LEMMA IsReady ==
    ASSUME IInv
    PROVE  /\ Ready /\ key \in Keys /\ touched \in BOOLEAN
           /\ Top(stack).fb \in BOOLEAN /\ Top(stack).id \in Screens
<1>1. StackOK(stack)
  BY DEF IInv, UiTypeOK, StackOK, Root
<1>2. Ready /\ key \in Keys /\ touched \in BOOLEAN
  BY <1>1 DEF IInv, UiTypeOK, Ready
<1>3. QED
  BY <1>1, <1>2, TopScreen DEF Entry

\* Most handlers take the key or leave it.
LEMMA Handles ==
    ASSUME IInv, NEW ids, Moved(ids), outcome' \in Outcomes, outcome' = "to_dev" => seen,
           UNCHANGED touched, UNCHANGED key \/ key' = "none"
    PROVE  Handled(ids)
<1>1. key' \in Keys /\ touched' \in BOOLEAN
  BY IsReady DEF Keys
<1>2. touched' => Top(stack').timer_disabled
  BY DEF IInv, TimerStaysOff, Moved, From
<1>3. QED
  BY <1>1, <1>2 DEF Handled, Moved

\* A handler that goes back, goes nowhere or takes the loop to its end.
LEMMA HandlesPop ==
    ASSUME IInv, outcome = "running", NEW s, From(stack, s, {}), NEW d,
           \/ Stay(s) /\ Stays
           \/ ui_screen_back(s, d) /\ Stays
           \/ \E o \in Outcomes : Leave(o, s) /\ (o = "to_dev" => seen),
           UNCHANGED touched, UNCHANGED key \/ key' = "none"
    PROVE  Handled({})
<1>1. outcome' \in Outcomes /\ (outcome' = "to_dev" => seen)
  BY DEF Stays, Leave, Outcomes
<1>2. Moved({})
  BY IsReady, Pops
<1>3. QED
  BY <1>1, <1>2, Handles

\* Fewer screens than may be shown.
LEMMA HandledMore ==
    ASSUME NEW I, NEW J, I \subseteq J, Handled(I)
    PROVE  Handled(J)
BY DEF Handled, From

\* A key that no handler wants.
LEMMA HandlesIgnored ==
    ASSUME IInv, outcome = "running", NEW s, From(stack, s, {}), Ignored(s)
    PROVE  Handled(Shows)
<1>1. Stay(s) /\ Stays /\ UNCHANGED touched /\ UNCHANGED key
  BY DEF Ignored, Stays
<1>2. Handled({})
  BY <1>1, HandlesPop
<1>3. QED
  BY <1>2, HandledMore

\* A full screen of text.
LEMMA LogScreenStep ==
    ASSUME IInv, outcome = "running", NEW s, From(stack, s, {}), NEW d,
           fullview_log_screen_action(s, d)
    PROVE  Handled(Shows)
<1>1. CASE Ignored(s)
  BY <1>1, HandlesIgnored
<1>2. CASE ui_screen_back(s, d) /\ Taken /\ UNCHANGED <<outcome, touched>>
  <2>1. ui_screen_back(s, d) /\ Stays /\ UNCHANGED touched /\ key' = "none"
    BY <1>2 DEF Stays, Taken
  <2>2. Handled({})
    BY <2>1, HandlesPop
  <2>3. QED
    BY <2>2, HandledMore
<1>3. QED
  BY <1>1, <1>2 DEF fullview_log_screen_action

\* The fastboot screen.
LEMMA FastbootScreenStep ==
    ASSUME IInv, outcome = "running", NEW d, fastboot_action(d)
    PROVE  Handled(Shows)
<1>1. PICK session \in {Top(stack).fb, TRUE} :
        \/ fullview_log_screen_action([stack EXCEPT ![Len(stack)].fb = session], d)
        \/ Ignored([stack EXCEPT ![Len(stack)].fb = FALSE])
        \/ /\ ui_screen_back([stack EXCEPT ![Len(stack)].fb = FALSE], d)
           /\ UNCHANGED <<key, outcome, touched>>
        \/ /\ Leave("error", [stack EXCEPT ![Len(stack)].fb = session])
           /\ UNCHANGED <<key, touched>>
  BY DEF fastboot_action
<1>2. session \in BOOLEAN
  BY IsReady
<1>3. /\ From(stack, [stack EXCEPT ![Len(stack)].fb = session], {})
      /\ From(stack, [stack EXCEPT ![Len(stack)].fb = FALSE], {})
  BY <1>2, IsReady, FromStack
<1>4. CASE fullview_log_screen_action([stack EXCEPT ![Len(stack)].fb = session], d)
  BY <1>3, <1>4, LogScreenStep
<1>5. CASE Ignored([stack EXCEPT ![Len(stack)].fb = FALSE])
  BY <1>3, <1>5, HandlesIgnored
<1>6. CASE /\ ui_screen_back([stack EXCEPT ![Len(stack)].fb = FALSE], d)
           /\ UNCHANGED <<key, outcome, touched>>
  <2>1. Stays /\ UNCHANGED touched /\ UNCHANGED key
    BY <1>6 DEF Stays
  <2>2. Handled({})
    BY <1>3, <1>6, <2>1, HandlesPop
  <2>3. QED
    BY <2>2, HandledMore
<1>7. CASE /\ Leave("error", [stack EXCEPT ![Len(stack)].fb = session])
           /\ UNCHANGED <<key, touched>>
  <2>1. Handled({})
    BY <1>3, <1>7, HandlesPop DEF Outcomes
  <2>2. QED
    BY <2>1, HandledMore
<1>8. QED
  BY <1>1, <1>4, <1>5, <1>6, <1>7

\* The screen that confirms the way to developer mode: presence has been seen
\* whenever it goes there.
LEMMA ToDevStep ==
    ASSUME IInv, outcome = "running", NEW d, Top(stack).id = "TO_DEV", recovery_to_dev_action(d)
    PROVE  Handled(Shows)
<1>1. From(stack, stack, {}) /\ From(stack, WithError(stack), {})
  BY IsReady, FromStack
<1>2. On(stack, "TO_DEV")
  BY IsReady, TopScreen DEF Ready, On
<1>3. (pressed => seen) /\ (board.keyboard /\ key = "enter" => seen)
  BY <1>2 DEF IInv, PresenceInv
<1>4. CASE ui_screen_back(stack, d) /\ Taken /\ UNCHANGED <<outcome, touched>>
  <2>1. ui_screen_back(stack, d) /\ Stays /\ UNCHANGED touched /\ key' = "none"
    BY <1>4 DEF Stays, Taken
  <2>2. Handled({})
    BY <1>1, <2>1, HandlesPop
  <2>3. QED
    BY <2>2, HandledMore
<1>5. CASE Ignored(stack)
  BY <1>1, <1>5, HandlesIgnored
<1>6. CASE board.keyboard /\ recovery_to_dev_confirm_action
  <2>1. /\ key' = "none" /\ UNCHANGED touched
        /\ \/ Leave("to_dev", stack) /\ seen
           \/ Stay(stack) /\ Stays
           \/ Stay(WithError(stack)) /\ Stays
    BY <1>3, <1>6, IsReady DEF recovery_to_dev_confirm_action, recovery_to_dev_finalize
  <2>2. Handled({})
    BY <1>1, <2>1, HandlesPop DEF Outcomes
  <2>3. QED
    BY <2>2, HandledMore
<1>7. CASE pressed /\ recovery_to_dev_finalize /\ UNCHANGED <<key, touched>>
  <2>1. /\ UNCHANGED touched /\ UNCHANGED key
        /\ (Leave("to_dev", stack) /\ seen) \/ (Stay(stack) /\ Stays)
    BY <1>3, <1>7 DEF recovery_to_dev_finalize
  <2>2. Handled({})
    BY <1>1, <2>1, HandlesPop DEF Outcomes
  <2>3. QED
    BY <2>2, HandledMore
<1>8. CASE /\ ~ board.keyboard /\ button /\ pressed' = TRUE
           /\ UNCHANGED <<stack, late, leaked, key, outcome, touched>>
  <2>1. touched' => Top(stack').timer_disabled
    BY <1>8 DEF IInv, TimerStaysOff
  <2>2. /\ late' \in BOOLEAN /\ leaked' \in BOOLEAN /\ touched' \in BOOLEAN
        /\ key' \in Keys /\ From(stack, stack', Shows)
    BY <1>1, <1>8, IsReady DEF Ready, From
  <2>3. QED
    BY <1>8, <2>1, <2>2 DEF Handled, Outcomes
<1>9. QED
  BY <1>4, <1>5, <1>6, <1>7, <1>8 DEF recovery_to_dev_action

\* The developer screen: a key, or the automatic boot, disables the delay.
LEMMA DevScreenStep ==
    ASSUME IInv, outcome = "running", NEW d, developer_mode_action(d)
    PROVE  Handled(Shows)
<1> DEFINE s == TimerOff(stack)
<1>1. From(stack, stack, {}) /\ From(stack, s, {}) /\ Top(s).timer_disabled
  BY IsReady, FromStack
<1>2. Ready /\ key \in Keys
  BY IsReady
<1>3. ASSUME From(s, stack', Shows), Moved(Shows), touched' = TRUE, UNCHANGED key, Ends
      PROVE  Handled(Shows)
  <2>1. Top(stack').timer_disabled
    BY <1>1, <1>3 DEF From
  <2>2. QED
    BY <1>2, <1>3, <2>1 DEF Handled, Moved, Ends
<1>4. CASE Ignored(stack)
  BY <1>1, <1>4, HandlesIgnored
<1>5. CASE Stay(s) /\ touched' = TRUE /\ UNCHANGED <<key, outcome>>
  <2>1. Moved({})
    BY <1>1, <1>2, <1>5, Pops
  <2>2. From(s, stack', Shows)
    BY <1>1, <1>5 DEF Stay, From
  <2>3. Ends
    BY <1>5 DEF Ends, Outcomes
  <2>4. QED
    BY <1>3, <1>5, <2>1, <2>2, <2>3, MovedMore
<1>6. CASE BootDefault(s, d) /\ touched' = TRUE /\ UNCHANGED key
  <2> HIDE DEF s
  <2>1. \/ Leave("boot", s)
        \/ outcome' = "altfw" /\ Stay(s)
        \/ ui_screen_change(WithError(s), "FASTBOOT", d) /\ Stays
        \/ ui_screen_change(Changed(s, ExternalScreen, d), "FASTBOOT", d) /\ Stays
        \/ board.target \notin {"internal", "external", "altfw"}
    BY <1>6 DEF BootDefault
  <2>2. board.target \in {"internal", "external", "altfw"}
    BY BoardsAssumption DEF IInv, UiTypeOK, BoardType
  <2>3. Ends
    BY <2>1, <2>2 DEF Ends, Leave, Stays, Outcomes
  <2>4. StackOK(s)
    BY <1>1 DEF From
  <2>5. CASE Leave("boot", s) \/ Stay(s)
    <3>1. Moved({})
      BY <1>1, <1>2, <2>5, Pops
    <3>2. From(s, stack', {})
      <4>1. CASE Stay(s)
        BY <2>4, <4>1 DEF Stay, From
      <4>2. CASE Leave("boot", s)
        <5>1. 1 \in 1 .. Len(s)
          BY <2>4, TopScreen
        <5>2. From(s, PopTo(s, 1), {}) /\ Len(PopTo(s, 1)) = 1
          BY <2>4, <5>1, PopToFrom
        <5>3. From(PopTo(s, 1), [PopTo(s, 1) EXCEPT ![Len(PopTo(s, 1))].fb = FALSE], {})
          BY <5>2, TopFlag DEF From
        <5>4. From(PopTo(s, 1), stack', {})
          BY <4>2, <5>2, <5>3 DEF Leave
        <5>5. QED
          BY <5>2, <5>4 DEF From
      <4>3. QED
        BY <2>5, <4>1, <4>2
    <3>3. From(s, stack', Shows) /\ Moved(Shows)
      BY <3>1, <3>2, MovedMore DEF From
    <3>4. QED
      BY <1>3, <1>6, <2>3, <3>3
  <2>6. ASSUME NEW t, From(s, t, Shows), ui_screen_change(t, "FASTBOOT", d)
        PROVE  Handled(Shows)
    <3>1. "FASTBOOT" \in Shows /\ "FASTBOOT" \in Screens
      BY DEF Shows, Screens, Recovery, Developer
    <3>2. From(stack, t, Shows)
      BY <1>1, <2>6 DEF From
    <3>3. Moved(Shows \cup {"FASTBOOT"})
      BY <1>2, <2>6, <3>1, <3>2, Changes
    <3>4. From(t, stack', {"FASTBOOT"})
      BY <2>6, <3>1, ChangedFrom DEF From, ui_screen_change
    <3>5. From(s, stack', Shows) /\ Moved(Shows)
      BY <2>6, <3>1, <3>3, <3>4, MovedMore DEF From
    <3>6. QED
      BY <1>3, <1>6, <2>3, <3>5
  <2>7. From(s, WithError(s), Shows)
    BY <2>4, TopFlag DEF From
  <2>8. From(s, Changed(s, ExternalScreen, d), Shows)
    <3>1. ExternalScreen \in Shows /\ ExternalScreen \in Screens
      BY DEF ExternalScreen, Shows, Screens, Developer
    <3>2. From(s, Changed(s, ExternalScreen, d), {ExternalScreen})
      BY <2>4, <3>1, ChangedFrom
    <3>3. QED
      BY <3>1, <3>2 DEF From
  <2>9. QED
    BY <2>1, <2>2, <2>5, <2>6, <2>7, <2>8
<1>7. QED
  BY <1>4, <1>5, <1>6 DEF developer_mode_action

\* The phase of the screen's own action.
LEMMA ScreenStep ==
    ASSUME IInv, outcome = "running", NEW d, ScreenAction(d)
    PROVE  Handled(Shows)
<1>1. From(stack, stack, {})
  BY IsReady, FromStack
<1>2. \/ fullview_log_screen_action(stack, d)
      \/ fastboot_action(d)
      \/ Top(stack).id = "TO_DEV" /\ recovery_to_dev_action(d)
      \/ developer_mode_action(d)
      \/ ui_developer_mode_boot_external_action(stack, d) /\ UNCHANGED <<key, touched>>
      \/ Ignored(stack)
  BY DEF ScreenAction
<1>3. CASE fullview_log_screen_action(stack, d)
  BY <1>1, <1>3, LogScreenStep
<1>4. CASE Ignored(stack)
  BY <1>1, <1>4, HandlesIgnored
<1>5. CASE /\ ui_developer_mode_boot_external_action(stack, d)
           /\ UNCHANGED <<key, touched>>
  <2>1. Moved(Shows) /\ Ends
    BY <1>5, IsReady, Boots
  <2>2. outcome' \in Outcomes /\ (outcome' = "to_dev" => seen)
    BY <2>1 DEF Ends
  <2>3. UNCHANGED touched /\ UNCHANGED key
    BY <1>5
  <2>4. QED
    BY <2>1, <2>2, <2>3, Handles
<1>6. QED
  BY <1>2, <1>3, <1>4, <1>5, FastbootScreenStep, ToDevStep, DevScreenStep

\* A change of screen or a boot that the user asked for with a key.
LEMMA HandlesMoved ==
    ASSUME IInv, Moved(Shows), Ends, UNCHANGED touched,
           UNCHANGED key \/ key' = "none"
    PROVE  Handled(Shows)
<1>1. outcome' \in Outcomes /\ (outcome' = "to_dev" => seen)
  BY DEF Ends
<1>2. QED
  BY <1>1, Handles

\* The phase of the menu.
LEMMA MenuStep ==
    ASSUME IInv, outcome = "running", NEW d, ui_menu_navigation_action(d)
    PROVE  Handled(Shows)
<1>1. From(stack, stack, {})
  BY IsReady, FromStack
<1>2. CASE Ignored(stack)
  BY <1>1, <1>2, HandlesIgnored
<1>3. CASE ui_screen_back(stack, d) /\ Taken /\ UNCHANGED <<outcome, touched>>
  <2>1. ui_screen_back(stack, d) /\ Stays /\ UNCHANGED touched /\ key' = "none"
    BY <1>3 DEF Stays, Taken
  <2>2. Handled({})
    BY <1>1, <2>1, HandlesPop
  <2>3. QED
    BY <2>2, HandledMore
<1>4. CASE ui_menu_select(d) /\ Taken /\ UNCHANGED touched
  <2>1. key' = "none" /\ UNCHANGED touched
    BY <1>4 DEF Taken
  <2>2. ASSUME NEW id \in Targets(Top(stack).id), ui_screen_change(stack, id, d), Stays
        PROVE  Handled(Shows)
    <3>1. id \in Shows /\ id \in Screens
      BY <2>2 DEF Targets, Shows, Screens, Recovery, Developer
    <3>2. Moved({} \cup {id})
      BY <1>1, <2>2, <3>1, IsReady, Changes
    <3>3. Moved(Shows)
      BY <3>1, <3>2, MovedMore
    <3>4. Ends
      BY <2>2 DEF Stays, Ends, Outcomes
    <3>5. QED
      BY <2>1, <3>3, <3>4, HandlesMoved
  <2>3. ASSUME NEW item, RunItem(item, d)
        PROVE  Handled(Shows)
    <3>1. \/ ui_screen_back(stack, d) /\ Stays
          \/ \E o \in Outcomes \ {"to_dev"} : Leave(o, stack)
          \/ Stay(stack) /\ Stays
          \/ boot_nbr_impl(stack)
          \/ ui_developer_mode_boot_internal_action(stack)
          \/ ui_developer_mode_boot_external_action(stack, d)
          \/ developer_boot_altfw_impl(stack)
      BY <2>3 DEF RunItem, Outcomes
    <3>2. CASE \/ ui_screen_back(stack, d) /\ Stays
               \/ \E o \in Outcomes \ {"to_dev"} : Leave(o, stack)
               \/ Stay(stack) /\ Stays
      <4>1. Handled({})
        BY <1>1, <2>1, <3>2, HandlesPop
      <4>2. QED
        BY <4>1, HandledMore
    <3>3. CASE \/ boot_nbr_impl(stack)
               \/ ui_developer_mode_boot_internal_action(stack)
               \/ ui_developer_mode_boot_external_action(stack, d)
               \/ developer_boot_altfw_impl(stack)
      <4>1. Moved(Shows) /\ Ends
        BY <3>3, IsReady, Boots
      <4>2. QED
        BY <2>1, <4>1, HandlesMoved
    <3>4. QED
      BY <3>1, <3>2, <3>3
  <2>4. QED
    BY <1>4, <2>2, <2>3 DEF ui_menu_select
<1>5. QED
  BY <1>2, <1>3, <1>4 DEF ui_menu_navigation_action

\* The global shortcuts.
LEMMA ShortcutStep ==
    ASSUME IInv, outcome = "running", NEW id \in Shows, ShortcutTo(id), UNCHANGED touched
    PROVE  Handled(Shows)
<1>1. From(stack, stack, {}) /\ id \in Screens
  BY IsReady, FromStack DEF Shows
<1>2. ui_screen_change(stack, id, disk) /\ key' = "none"
  BY DEF ShortcutTo, Taken
<1>3. Moved({} \cup {id})
  BY <1>1, <1>2, IsReady, Changes
<1>4. Moved(Shows)
  BY <1>3, MovedMore
<1>5. Ends
  BY DEF ShortcutTo, Stays, Ends, Outcomes
<1>6. QED
  BY <1>2, <1>4, <1>5, HandlesMoved

\* No screen about a bad disk comes or goes without recovery_rv.
LEMMA SameDisk ==
    ASSUME IInv, Handled(Shows), UNCHANGED recovery_rv
    PROVE  NoStaleDiskScreen'
<1>1. \A id : On(stack', id) => id \in Shows \/ On(stack, id)
  BY DEF Handled, From
<1>2. "INVALID" \notin Shows /\ "ROLLBACK" \notin Shows
  BY DEF Shows
<1>3. QED
  BY <1>1, <1>2 DEF IInv, NoStaleDiskScreen

\* The global action of developer mode.
LEMMA DeveloperStep ==
    ASSUME IInv, outcome = "running", NEW d, developer_action(d), UNCHANGED touched
    PROVE  Handled(Shows) /\ UNCHANGED recovery_rv
<1>1. From(stack, stack, {})
  BY IsReady, FromStack
<1>2. \/ \E id \in {"DEBUG_INFO", "TO_NORM", "FASTBOOT"} : ShortcutTo(id)
      \/ /\ \/ ui_developer_mode_boot_external_action(stack, d)
            \/ ui_developer_mode_boot_internal_action(stack)
            \/ developer_boot_altfw_impl(stack)
         /\ Taken
      \/ Stay(stack) /\ Stays /\ UNCHANGED key
  BY DEF developer_action
<1>3. CASE \E id \in {"DEBUG_INFO", "TO_NORM", "FASTBOOT"} : ShortcutTo(id)
  <2>1. {"DEBUG_INFO", "TO_NORM", "FASTBOOT"} \subseteq Shows
    BY DEF Shows, Screens, Recovery, Developer
  <2>2. QED
    BY <1>3, <2>1, ShortcutStep DEF developer_action
<1>4. CASE /\ \/ ui_developer_mode_boot_external_action(stack, d)
              \/ ui_developer_mode_boot_internal_action(stack)
              \/ developer_boot_altfw_impl(stack)
           /\ Taken
  <2>1. Moved(Shows) /\ Ends
    BY <1>4, IsReady, Boots
  <2>2. key' = "none"
    BY <1>4 DEF Taken
  <2>3. Handled(Shows)
    BY <2>1, <2>2, HandlesMoved
  <2>4. QED
    BY <2>3 DEF developer_action
<1>5. CASE Stay(stack) /\ Stays /\ UNCHANGED key
  <2>1. Handled({})
    BY <1>1, <1>5, HandlesPop
  <2>2. Handled(Shows)
    BY <2>1, HandledMore
  <2>3. QED
    BY <2>2 DEF developer_action
<1>6. QED
  BY <1>2, <1>3, <1>4, <1>5

\* The global action of manual recovery: when the disk is gone the stack is
\* taken back to the root, below every screen about the disk.
LEMMA RecoveryStep ==
    ASSUME IInv, outcome = "running", board.mode = "recovery", ui_manual_recovery_action,
           UNCHANGED touched
    PROVE  Handled(Screens) /\ NoStaleDiskScreen' /\ recovery_rv' \in Disks \cup {"unset"}
<1>1. From(stack, stack, {}) /\ Ready
  BY IsReady, FromStack
<1>2. disk \in Disks /\ recovery_rv \in Disks \cup {"unset"}
  BY DEF IInv, UiTypeOK
<1>3. ASSUME Handled(Shows), UNCHANGED recovery_rv
      PROVE  Handled(Screens) /\ NoStaleDiskScreen' /\ recovery_rv' \in Disks \cup {"unset"}
  <2>1. Handled(Screens)
    BY <1>3, HandledMore DEF Shows
  <2>2. QED
    BY <1>2, <1>3, <2>1, SameDisk
<1>4. CASE Leave("boot", stack) /\ UNCHANGED <<key, recovery_rv>>
  <2>1. Handled({})
    BY <1>1, <1>4, HandlesPop DEF Outcomes
  <2>2. QED
    BY <1>3, <1>4, <2>1, HandledMore
<1>5. CASE /\ disk # "valid" /\ recovery_rv' = disk
           /\ ui_screen_change(stack, RecoveryScreen, disk)
           /\ UNCHANGED <<key, outcome>>
  <2>1. RecoveryScreen \in Screens
    BY DEF RecoveryScreen, Screens, Recovery
  <2>2. Moved({} \cup {RecoveryScreen})
    BY <1>1, <1>5, <2>1, Changes
  <2>3. Moved(Screens)
    BY <2>1, <2>2, MovedMore
  <2>4. outcome' \in Outcomes /\ (outcome' = "to_dev" => seen)
    BY <1>5 DEF Outcomes
  <2>5. Handled(Screens)
    BY <1>5, <2>3, <2>4, Handles
  <2>6. NoStaleDiskScreen'
    <3> SUFFICES ASSUME recovery_rv' \in {"unset", "none"}
                 PROVE  ~ On(stack', "INVALID") /\ ~ On(stack', "ROLLBACK")
      BY DEF NoStaleDiskScreen
    <3>1. disk = "none"
      BY <1>2, <1>5 DEF Disks
    <3>2. RecoveryScreen = Root /\ Root = "SELECT"
      BY <3>1 DEF RecoveryScreen, Root
    <3>3. stack' = Changed(stack, Root, disk)
      BY <1>5, <3>2 DEF ui_screen_change
    <3>4. \A x : On(stack', x) => x = "SELECT"
      BY <1>1, <3>2, <3>3, ChangedToRoot DEF Ready
    <3>5. QED
      BY <3>4
  <2>7. QED
    BY <1>2, <1>5, <2>5, <2>6
<1>6. CASE /\ \/ \E id \in {"TO_DEV", "FASTBOOT", "DEBUG_INFO"} : ShortcutTo(id)
              \/ boot_nbr_impl(stack) /\ Taken
              \/ Stay(stack) /\ Stays /\ UNCHANGED key
           /\ UNCHANGED recovery_rv
  <2>1. CASE \E id \in {"TO_DEV", "FASTBOOT", "DEBUG_INFO"} : ShortcutTo(id)
    <3>1. {"TO_DEV", "FASTBOOT", "DEBUG_INFO"} \subseteq Shows
      BY DEF Shows, Screens, Recovery, Developer
    <3>2. Handled(Shows)
      BY <2>1, <3>1, ShortcutStep
    <3>3. QED
      BY <1>3, <1>6, <3>2
  <2>2. CASE boot_nbr_impl(stack) /\ Taken
    <3>1. Moved(Shows) /\ Ends
      BY <1>1, <2>2, Boots
    <3>2. Handled(Shows)
      BY <2>2, <3>1, HandlesMoved DEF Taken
    <3>3. QED
      BY <1>3, <1>6, <3>2
  <2>3. CASE Stay(stack) /\ Stays /\ UNCHANGED key
    <3>1. Handled({})
      BY <1>1, <2>3, HandlesPop
    <3>2. QED
      BY <1>3, <1>6, <3>1, HandledMore
  <2>4. QED
    BY <1>6, <2>1, <2>2, <2>3
<1>7. QED
  BY <1>4, <1>5, <1>6 DEF ui_manual_recovery_action

\* Reading a key, which may only clear an error box.
LEMMA ReadStep ==
    ASSUME IInv, ReadKey
    PROVE  Handled(Shows)
<1>1. outcome = "running" /\ UNCHANGED <<recovery_rv, disk, touched>>
  BY DEF ReadKey, At
<1>2. /\ From(stack, stack, {}) /\ From(stack, [stack EXCEPT ![Len(stack)].error = FALSE], {})
      /\ Ready /\ key \in Keys
  BY IsReady, FromStack
<1>3. PICK s \in {stack, [stack EXCEPT ![Len(stack)].error = FALSE]} :
        /\ (Stay(s) /\ Stays) \/ Leave("shutdown", s)
        /\ key' \in Keys
  <2>1. CASE Leave("shutdown", stack) /\ UNCHANGED key
    BY <1>2, <2>1
  <2>2. CASE \E k \in Keys :
               /\ key' \in {"none", k}
               /\ \E s \in {stack, [stack EXCEPT ![Len(stack)].error = FALSE]} : Stay(s)
               /\ Stays
    BY <2>2 DEF Keys
  <2>3. QED
    BY <2>1, <2>2 DEF ReadKey
<1>4. Moved({}) /\ outcome' \in Outcomes \ {"to_dev"}
  BY <1>1, <1>2, <1>3, Pops DEF Stays, Leave, Outcomes
<1>5. touched' \in BOOLEAN /\ (touched' => Top(stack').timer_disabled)
  BY <1>1, <1>4, IsReady DEF IInv, TimerStaysOff, Moved, From
<1>6. Handled({})
  BY <1>1, <1>3, <1>4, <1>5 DEF Handled, Moved
<1>7. QED
  BY <1>6, HandledMore

-----------------------------------------------------------------------------
(* Keys and screens.                                                        *)

\* Another flag on top is still the same screen.
LEMMA SameScreen ==
    ASSUME NEW s, StackOK(s), NEW b \in BOOLEAN
    PROVE  /\ Top(WithError(s)).id = Top(s).id
           /\ Top(TimerOff(s)).id = Top(s).id
           /\ Top([s EXCEPT ![Len(s)].fb = b]).id = Top(s).id
           /\ Top([s EXCEPT ![Len(s)].error = b]).id = Top(s).id
<1>1. Len(s) \in 1 .. Len(s) /\ s \in Seq(Entry) /\ s[Len(s)] \in Entry
  BY TopScreen DEF StackOK
<1>2. ASSUME NEW e
      PROVE  Top([s EXCEPT ![Len(s)] = e]) = e
  BY <1>1 DEF Top
<1>3. /\ [s[Len(s)] EXCEPT !.error = TRUE].id = s[Len(s)].id
      /\ [s[Len(s)] EXCEPT !.timer_disabled = TRUE].id = s[Len(s)].id
      /\ [s[Len(s)] EXCEPT !.fb = b].id = s[Len(s)].id
      /\ [s[Len(s)] EXCEPT !.error = b].id = s[Len(s)].id
  BY <1>1 DEF Entry
<1>4. QED
  BY <1>2, <1>3 DEF WithError, TimerOff, Top

\* A handler that does not clear a key leaves the screen alone, or changes one that
\* changes by itself, or ends the loop.
KeyKept ==
    outcome' = "running" /\ key' # "none" =>
        Top(stack').id = Top(stack).id \/ Top(stack).id \in ChangesByItself

\* The confirmation of developer mode clears the key whenever it goes back.
LEMMA ToDevKeeps ==
    ASSUME IInv, NEW d, recovery_to_dev_action(d)
    PROVE  KeyKept
<1>1. StackOK(stack)
  BY IsReady DEF Ready
<1>2. CASE key' = "none"
  BY <1>2 DEF KeyKept
<1>3. CASE \/ Ignored(stack)
           \/ UNCHANGED stack
           \/ recovery_to_dev_finalize
  BY <1>3 DEF KeyKept, Ignored, Stay, recovery_to_dev_finalize, Leave
<1>4. QED
  BY <1>2, <1>3 DEF recovery_to_dev_action, recovery_to_dev_confirm_action, Taken

\* The developer screen goes elsewhere only when there is no key.
LEMMA DevKeeps ==
    ASSUME IInv, NEW d, developer_mode_action(d)
    PROVE  KeyKept
<1>1. StackOK(stack)
  BY IsReady DEF Ready
<1>2. CASE key = "none" /\ UNCHANGED key
  BY <1>2 DEF KeyKept
<1>3. CASE Stay(TimerOff(stack)) \/ Ignored(stack)
  BY <1>1, <1>3, SameScreen DEF KeyKept, Stay, Ignored
<1>4. QED
  BY <1>2, <1>3 DEF developer_mode_action, StopsTimer

\* The actions of the screens.
LEMMA ScreenKept ==
    ASSUME IInv, NEW d, ScreenAction(d)
    PROVE  KeyKept
<1>1. CASE Top(stack).id \in ChangesByItself
  BY <1>1 DEF KeyKept
<1>2. CASE Top(stack).id \notin ChangesByItself
  <2>1. \/ fullview_log_screen_action(stack, d)
        \/ recovery_to_dev_action(d)
        \/ developer_mode_action(d)
        \/ Ignored(stack)
    BY <1>2 DEF ScreenAction, ChangesByItself
  <2>2. CASE fullview_log_screen_action(stack, d) \/ Ignored(stack)
    BY <2>2 DEF fullview_log_screen_action, Taken, Ignored, Stay, KeyKept
  <2>3. QED
    BY <2>1, <2>2, ToDevKeeps, DevKeeps
<1>3. QED
  BY <1>1, <1>2

\* The phases of the loop, one after the other.
LEMMA ReadKeeps ==
    ASSUME IInv, ReadKey
    PROVE  KeyInv'
<1>1. Ready /\ pc = "read" /\ outcome = "running" /\ UNCHANGED shown
  BY IsReady DEF ReadKey, At
<1>2. Top(stack).id = shown
  BY <1>1 DEF IInv, KeyInv
<1>3. pc' = "screen" \/ outcome' # "running"
  BY DEF ReadKey, GoOn
<1>4. outcome' = "running" => Top(stack').id = Top(stack).id
  BY <1>1, SameScreen DEF ReadKey, Leave, Stay, Ready
<1>5. QED
  BY <1>1, <1>2, <1>3, <1>4 DEF KeyInv, KeyOnItsScreen

LEMMA ScreenKeeps ==
    ASSUME IInv, RunScreen
    PROVE  KeyInv'
<1>1. pc = "screen" /\ outcome = "running" /\ UNCHANGED shown
  BY DEF RunScreen, At
<1>2. Top(stack).id = shown
  BY <1>1 DEF IInv, KeyInv
<1>3. (pc' = "menu" \/ outcome' # "running") /\ KeyKept
  BY ScreenKept DEF RunScreen, GoOn
<1>4. QED
  BY <1>1, <1>2, <1>3 DEF KeyInv, KeyOnItsScreen, KeyKept

LEMMA MenuKeeps ==
    ASSUME IInv, RunMenu
    PROVE  KeyInv'
<1>1. pc = "menu" /\ outcome = "running" /\ UNCHANGED shown
  BY DEF RunMenu, At
<1>2. pc' = "global" \/ outcome' # "running"
  BY DEF RunMenu, GoOn, AfterMenu
<1>3. key' = "none" \/ UNCHANGED <<stack, key>>
  BY DEF RunMenu, ui_menu_navigation_action, Taken, Ignored, Stay
<1>4. QED
  BY <1>1, <1>2, <1>3 DEF IInv, KeyInv, KeyOnItsScreen

LEMMA GlobalKeeps ==
    ASSUME IInv, RunGlobal, StackOK(stack')
    PROVE  shown' \in Screens /\ KeyInv'
<1>1. shown' = Top(stack').id /\ (pc' = "read" \/ outcome' # "running")
  BY DEF RunGlobal, GoOn
<1>2. Top(stack').id \in Screens
  BY TopScreen DEF Entry
<1>3. QED
  BY <1>1, <1>2 DEF KeyInv, KeyOnItsScreen

-----------------------------------------------------------------------------
(* The theorems.                                                            *)

\* The outer world: the disk, the button and the clock.
LEMMA EnvironmentHandled ==
    ASSUME IInv, DiskChanges \/ ButtonChanges \/ DelayRunsOut
    PROVE  Handled(Shows)
<1>1. From(stack, stack, {})
  BY IsReady, FromStack
<1>2. /\ UNCHANGED <<board, stack, pc, key, recovery_rv, pressed, outcome, touched, shown, leaked>>
      /\ outcome = "running" /\ late' \in BOOLEAN
  BY IsReady DEF DiskChanges, ButtonChanges, DelayRunsOut, Ready
<1>3. From(stack, stack', Shows)
  BY <1>1, <1>2 DEF From
<1>4. touched' => Top(stack').timer_disabled
  BY <1>2 DEF IInv, TimerStaysOff
<1>5. QED
  BY <1>2, <1>3, <1>4, IsReady DEF Handled, Ready, Outcomes

\* What the handlers leave behind is the invariant again, with what has been
\* seen of the user's presence.
LEMMA HandledInv ==
    ASSUME IInv, outcome = "running", Handled(Screens), NoStaleDiskScreen', Witness,
           UNCHANGED board, button' \in BOOLEAN, button' = button \/ UNCHANGED <<stack, pressed>>,
           pc' \in {"read", "screen", "menu", "global", "done"},
           disk' \in Disks, recovery_rv' \in Disks \cup {"unset"},
           shown' \in Screens, KeyInv'
    PROVE  IInv'
<1>1. StackOK(stack')
  BY DEF Handled, From
<1>2. /\ stack' \in Seq(Entry) /\ Len(stack') \in 1 .. Heap
      /\ \A i, j \in 1 .. Len(stack') : stack'[i].id = stack'[j].id => i = j
      /\ stack'[1].id = Root
  BY <1>1 DEF StackOK
<1>3. \A i \in 1 .. Len(stack') : stack'[i] \in Entry
  BY <1>2
<1>4. seen' \in BOOLEAN
  BY DEF Witness, IInv, UiTypeOK
<1>5. UiTypeOK'
  BY <1>2, <1>3, <1>4 DEF UiTypeOK, IInv, Handled, Outcomes, Root, Entry
<1>6. PresenceInv'
  <2>1. outcome' = "to_dev" => seen'
    BY DEF Handled, Witness
  <2>2. ASSUME outcome' = "running", On(stack', "TO_DEV")
        PROVE  (pressed' => seen') /\ (board'.keyboard /\ key' = "enter" => seen')
    <3>1. seen' = (seen \/ Shown)
      BY <2>2 DEF Witness, IInv, UiTypeOK
    <3>2. board.keyboard /\ key' = "enter" => Shown
      BY DEF Shown
    <3>3. pressed' => (pressed /\ On(stack, "TO_DEV")) \/ (~ board.keyboard /\ button)
      BY <2>2 DEF Handled
    <3>4. pressed /\ On(stack, "TO_DEV") => seen
      BY DEF IInv, PresenceInv
    <3>5. CASE button' = button
      <4>1. pressed' => (pressed /\ On(stack, "TO_DEV")) \/ Shown
        BY <3>3, <3>5 DEF Shown
      <4>2. QED
        BY <3>1, <3>2, <3>4, <4>1
    <3>6. CASE UNCHANGED <<stack, pressed>>
      <4>1. pressed' => pressed /\ On(stack, "TO_DEV")
        BY <2>2, <3>6
      <4>2. QED
        BY <3>1, <3>2, <3>4, <4>1
    <3>7. QED
      BY <3>5, <3>6
  <2>3. QED
    BY <2>1, <2>2 DEF PresenceInv, PresenceConfirmed
<1>7. TimerStaysOff'
  BY DEF Handled, TimerStaysOff
<1>8. QED
  BY <1>2, <1>5, <1>6, <1>7 DEF IInv

\* The first screen is up, or fastboot over it.
LEMMA InitIInv == Init => IInv
<1> SUFFICES ASSUME Init
             PROVE  IInv
  OBVIOUS
<1> DEFINE root == [id |-> IF board.mode = "recovery" THEN "SELECT" ELSE "DEV",
                    timer_disabled |-> FALSE, error |-> FALSE, fb |-> FALSE]
<1>1. /\ root \in Entry /\ root.id = Root /\ root.timer_disabled = FALSE
      /\ Root \in {"SELECT", "DEV"}
  BY DEF Entry, Screens, Recovery, Developer, Root
<1>2. stack = << root >> \/ (Heap > 1 /\ stack = Pushed(<< root >>, "FASTBOOT"))
  BY DEF Init
<1> HIDE DEF root
<1>3. /\ << root >> \in Seq(Entry) /\ Len(<< root >>) = 1 /\ << root >>[1] = root
      /\ Heap \in Nat /\ Heap >= 1
  BY <1>1, HeapAssumption
<1>4. StackOK(<< root >>) /\ ~ On(<< root >>, "FASTBOOT") /\ \A x : On(<< root >>, x) => x = Root
  BY <1>1, <1>3 DEF StackOK, On
<1>5. From(<< root >>, stack, {"FASTBOOT"})
  <2>1. CASE stack = << root >>
    BY <1>4, <2>1 DEF From
  <2>2. CASE Heap > 1 /\ stack = Pushed(<< root >>, "FASTBOOT")
    <3>1. "FASTBOOT" \in Screens /\ Len(<< root >>) # Heap
      BY <1>3, <2>2 DEF Screens
    <3>2. QED
      BY <1>4, <2>2, <3>1, PushedFrom
  <2>3. QED
    BY <1>2, <2>1, <2>2
<1>6. StackOK(stack) /\ \A x : On(stack, x) => x \in {"FASTBOOT", "SELECT", "DEV"}
  BY <1>1, <1>4, <1>5 DEF From
<1>7. /\ stack \in Seq(Entry) /\ Len(stack) \in 1 .. Heap /\ stack[1].id = Root
      /\ \A i, j \in 1 .. Len(stack) : stack[i].id = stack[j].id => i = j
  BY <1>6 DEF StackOK
<1>8. \A i \in 1 .. Len(stack) : stack[i] \in Entry
  BY <1>7
<1>9. UiTypeOK
  <2>1. shown \in Screens
    BY <1>6, TopScreen DEF Init, Entry
  <2>2. QED
    BY <1>7, <1>8, <2>1 DEF UiTypeOK, Init, Root, Entry, Keys
<1>10. NoStaleDiskScreen /\ PresenceInv
  <2>1. ~ On(stack, "INVALID") /\ ~ On(stack, "ROLLBACK") /\ ~ On(stack, "TO_DEV")
    BY <1>6
  <2>2. outcome = "running"
    BY DEF Init
  <2>3. QED
    BY <2>1, <2>2 DEF NoStaleDiskScreen, PresenceInv, PresenceConfirmed
<1>11. TimerStaysOff /\ KeyInv
  BY DEF TimerStaysOff, KeyInv, KeyOnItsScreen, Init
<1>12. QED
  BY <1>7, <1>9, <1>10, <1>11 DEF IInv

\* Every step of the loop and of the outer world keeps the invariant.
LEMMA StepIInv == IInv /\ [Next]_vars => IInv'
<1> SUFFICES ASSUME IInv, [Next]_vars
             PROVE  IInv'
  OBVIOUS
<1>1. /\ disk \in Disks /\ button \in BOOLEAN /\ shown \in Screens /\ recovery_rv \in Disks \cup {"unset"}
      /\ pc \in {"read", "screen", "menu", "global", "done"}
  BY DEF IInv, UiTypeOK
<1>2. ASSUME outcome = "running", Handled(Shows), Witness, UNCHANGED <<board, recovery_rv>>,
             button' \in BOOLEAN, button' = button \/ UNCHANGED <<stack, pressed>>,
             pc' \in {"read", "screen", "menu", "global", "done"}, disk' \in Disks,
             shown' \in Screens, KeyInv'
      PROVE  IInv'
  <2>1. Handled(Screens) /\ NoStaleDiskScreen'
    BY <1>2, HandledMore, SameDisk DEF Shows
  <2>2. recovery_rv' \in Disks \cup {"unset"} /\ UNCHANGED board
    BY <1>1, <1>2
  <2>3. QED
    BY <1>2, <2>1, <2>2, HandledInv
<1>3. CASE Witness /\ (ReadKey \/ RunScreen \/ RunMenu)
  <2>1. /\ outcome = "running" /\ UNCHANGED <<board, recovery_rv, button>> /\ disk' \in Disks
        /\ pc' \in {"read", "screen", "menu", "global", "done"} /\ shown' \in Screens
    BY <1>1, <1>3 DEF ReadKey, RunScreen, RunMenu, At, GoOn, AfterMenu
  <2>2. Handled(Shows)
    <3>1. CASE ReadKey
      BY <3>1, ReadStep
    <3>2. CASE RunScreen
      BY <2>1, <3>2, ScreenStep DEF RunScreen
    <3>3. CASE RunMenu
      BY <2>1, <3>3, MenuStep DEF RunMenu
    <3>4. QED
      BY <1>3, <3>1, <3>2, <3>3
  <2>3. KeyInv'
    BY <1>3, ReadKeeps, ScreenKeeps, MenuKeeps
  <2>4. QED
    BY <1>1, <1>2, <1>3, <2>1, <2>2, <2>3
<1>4. CASE Witness /\ RunGlobal
  <2>1. /\ outcome = "running" /\ UNCHANGED <<board, button, touched>>
        /\ disk' \in Disks /\ pc' \in {"read", "screen", "menu", "global", "done"}
    BY <1>1, <1>4 DEF RunGlobal, At, GoOn
  <2>2. CASE board.mode = "recovery"
    <3>1. ui_manual_recovery_action
      BY <1>4, <2>2 DEF RunGlobal
    <3>2. Handled(Screens) /\ NoStaleDiskScreen' /\ recovery_rv' \in Disks \cup {"unset"}
      BY <2>1, <2>2, <3>1, RecoveryStep
    <3>3. shown' \in Screens /\ KeyInv'
      BY <1>4, <3>2, GlobalKeeps DEF Handled, From
    <3>4. QED
      BY <1>1, <1>4, <2>1, <3>2, <3>3, HandledInv
  <2>3. CASE board.mode # "recovery"
    <3>1. developer_action(disk')
      BY <1>4, <2>3 DEF RunGlobal
    <3>2. Handled(Shows) /\ UNCHANGED recovery_rv
      BY <2>1, <3>1, DeveloperStep
    <3>3. shown' \in Screens /\ KeyInv'
      BY <1>4, <3>2, GlobalKeeps DEF Handled, From
    <3>4. QED
      BY <1>1, <1>2, <1>4, <2>1, <3>2, <3>3
  <2>4. QED
    BY <2>2, <2>3
<1>5. CASE Witness /\ (DiskChanges \/ ButtonChanges \/ DelayRunsOut)
  <2>1. /\ outcome = "running" /\ UNCHANGED <<board, recovery_rv, stack, pressed, pc>>
        /\ button' \in BOOLEAN /\ disk' \in Disks
    BY <1>1, <1>5 DEF DiskChanges, ButtonChanges, DelayRunsOut
  <2>2. Handled(Shows)
    BY <1>5, EnvironmentHandled
  <2>3. shown' \in Screens /\ KeyInv'
    BY <1>1, <1>5 DEF DiskChanges, ButtonChanges, DelayRunsOut, IInv, KeyInv, KeyOnItsScreen
  <2>4. QED
    BY <1>1, <1>2, <1>5, <2>1, <2>2, <2>3
<1>6. CASE UNCHANGED vars
  <2>1. UiTypeOK' /\ stack' \in Seq(Entry)
    BY <1>6 DEF vars, IInv, UiTypeOK
  <2>2. NoStaleDiskScreen' /\ TimerStaysOff' /\ KeyInv'
    BY <1>6 DEF vars, IInv, NoStaleDiskScreen, TimerStaysOff, KeyInv, KeyOnItsScreen
  <2>3. PresenceInv'
    BY <1>6 DEF vars, IInv, PresenceInv, PresenceConfirmed
  <2>4. QED
    BY <2>1, <2>2, <2>3 DEF IInv
<1>7. QED
  BY <1>3, <1>4, <1>5, <1>6 DEF Next, Loop

\* The invariant holds as long as the user interface runs.
THEOREM Invariant == Spec => []IInv
BY InitIInv, StepIInv, PTL DEF Spec

\* No screen is twice on the stack, the root is below all others, and no screen
\* about a bad recovery disk outlives the disk: for any depth that the heap
\* allows, also when a push fails there (ui_screen_change, push_state).
THEOREM StackTheorem == Spec => []StackSound
<1>1. IInv => StackSound
  BY DEF IInv, StackSound
<1>2. QED
  BY <1>1, Invariant, PTL

\* The way to developer mode was confirmed on this visit to its screen, by a
\* trusted ENTER or by the button (recovery_to_dev_action).
THEOREM PresenceTheorem == Spec => []PresenceConfirmed
<1>1. IInv => PresenceConfirmed
  BY DEF IInv, PresenceInv
<1>2. QED
  BY <1>1, Invariant, PTL

\* The developer delay stays disabled on every path through the screens once it
\* was disabled (preserve_state).
THEOREM TimerTheorem == Spec => []TimerStaysOff
<1>1. IInv => TimerStaysOff
  BY DEF IInv
<1>2. QED
  BY <1>1, Invariant, PTL

\* A key that a handler left to the next one meets the screen on which it was
\* pressed, but for the screens that change by themselves (fastboot_action,
\* ui_developer_mode_boot_external_action): the rule of ui.h:689-691 is kept by every
\* action, for any machine and any stack.
THEOREM KeyTheorem == Spec => []KeyOnItsScreen
<1>1. IInv => KeyOnItsScreen
  BY DEF IInv, KeyInv
<1>2. QED
  BY <1>1, Invariant, PTL
=============================================================================

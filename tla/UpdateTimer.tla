----------------------------- MODULE UpdateTimer -----------------------------
(***************************************************************************)
(* UpdateTimer (Timer.cpp), which paces the updates of a game connection:  *)
(* time that could not be used at once is kept for later updates, but a    *)
(* long stall of the app must not be followed by a long run of them.  The  *)
(* clock is steady and has the unit of the interval.                       *)
(***************************************************************************)
EXTENDS Naturals, TLAPS

CONSTANT Interval   \* m_UpdateInterval

VARIABLES
  timer,    \* m_Timer
  paused,   \* m_WasPaused
  since,    \* history: how long the window that is looked at has lasted
  done      \* history: the updates in that window

timerVars == <<timer, paused, since, done>>

Init == timer = 0 /\ paused = TRUE /\ since = 0 /\ done = 0

\* What is kept after an update of the time that has passed.
Kept(left) == IF left >= 3 * Interval THEN Interval ELSE left

\* Update, when `delta` has passed since the last call (the first one only
\* starts the clock): its result and its effect.
Due(delta) == paused \/ timer + delta >= Interval

Update(delta) ==
  /\ paused' = FALSE
  /\ timer' = IF paused THEN 0
              ELSE IF Due(delta) THEN Kept(timer + delta - Interval)
              ELSE timer + delta

\* The window goes on, or a new one begins with this call.
Window(delta) ==
  \/ since' = since + delta /\ done' = (IF Due(delta) THEN done + 1 ELSE done)
  \/ since' = 0 /\ done' = 0

Next == \E delta \in Nat : Update(delta) /\ Window(delta)

Spec == Init /\ [][Next]_timerVars

-----------------------------------------------------------------------------
\* However long the app stalls, and whenever a window of time begins, the
\* updates in the window are fewer than its length allows plus three.
Paced == done * Interval < since + 3 * Interval

\* The time that is kept pays for the updates that are still to come.
TimerInv ==
  /\ timer \in Nat /\ since \in Nat /\ done \in Nat /\ paused \in BOOLEAN
  /\ timer < 3 * Interval
  /\ done * Interval + timer < since + 3 * Interval
  /\ paused => timer = 0 /\ done = 0

LEMMA OneMore ==
  ASSUME NEW i \in Nat, NEW d \in Nat
  PROVE  (d + 1) * i = d * i + i /\ d * i \in Nat
OBVIOUS

\* A call of Update keeps the invariant, for every interval and every stall.
LEMMA UpdateKeepsInv ==
  ASSUME Interval \in Nat \ {0}, TimerInv, NEW delta \in Nat, Update(delta), Window(delta)
  PROVE  TimerInv'
<1>0. paused' = FALSE
  BY DEF Update
<1>1. timer' \in Nat /\ timer' < 3 * Interval
  <2>1. CASE paused
    <3>1. timer' = 0
      BY <2>1 DEF Update
    <3> QED
      BY <3>1
  <2>2. CASE ~paused /\ timer + delta >= Interval
    <3>1. timer' = Kept(timer + delta - Interval)
      BY <2>2 DEF Update, Due
    <3>2. timer + delta - Interval \in Nat
      BY <2>2 DEF TimerInv
    <3> QED
      BY <3>1, <3>2 DEF Kept
  <2>3. CASE ~paused /\ ~(timer + delta >= Interval)
    <3>1. timer' = timer + delta
      BY <2>3 DEF Update, Due
    <3> QED
      BY <3>1, <2>3 DEF TimerInv
  <2> QED
    BY <2>1, <2>2, <2>3
<1>2. CASE since' = 0 /\ done' = 0
  <2>1. since' \in Nat /\ done' \in Nat
    BY <1>2
  <2>2. done' * Interval + timer' < since' + 3 * Interval
    <3>1. done' * Interval = 0
      BY <1>2
    <3>2. since' = 0
      BY <1>2
    <3>3. 3 * Interval \in Nat /\ timer' \in Nat /\ timer' < 3 * Interval
      BY <1>1
    <3>4. \A a, b \in Nat : a < b => 0 + a < 0 + b
      OBVIOUS
    <3> QED
      BY <3>1, <3>2, <3>3, <3>4, Zenon
  <2> QED
    BY <1>0, <1>1, <2>1, <2>2 DEF TimerInv
<1>3. CASE since' = since + delta /\ done' = (IF Due(delta) THEN done + 1 ELSE done)
  <2>1. since' \in Nat /\ done' \in Nat
    BY <1>3 DEF TimerInv
  <2>2. done' * Interval + timer' < since' + 3 * Interval
    <3>0. /\ (done + 1) * Interval = done * Interval + Interval
          /\ done * Interval \in Nat
      BY OneMore DEF TimerInv
    <3>1. CASE paused
      <4>1. done = 0 /\ done' = 1 /\ timer' = 0
        BY <1>3, <3>1 DEF TimerInv, Due, Update
      <4> QED
        BY <4>1, <1>3 DEF TimerInv
    <3>2. CASE ~paused /\ timer + delta >= Interval
      <4>1. done' = done + 1 /\ timer' = Kept(timer + delta - Interval)
        BY <1>3, <3>2 DEF Due, Update
      <4>2. timer + delta - Interval \in Nat
        BY <3>2 DEF TimerInv
      <4>3. timer' <= timer + delta - Interval
        BY <4>1, <4>2 DEF Kept
      <4> QED
        BY <1>1, <1>3, <3>0, <4>1, <4>3 DEF TimerInv
    <3>3. CASE ~paused /\ ~(timer + delta >= Interval)
      <4>1. done' = done /\ timer' = timer + delta
        BY <1>3, <3>3 DEF Due, Update
      <4> QED
        BY <1>3, <3>0, <4>1 DEF TimerInv
    <3> QED
      BY <3>1, <3>2, <3>3
  <2> QED
    BY <1>0, <1>1, <2>1, <2>2 DEF TimerInv
<1> QED
  BY <1>2, <1>3 DEF Window

\* Timer.cpp's "Drop extra elapsed time so a long pause does not cause too many
\* updates", made exact: for every interval and every sequence of delays.
THEOREM UpdatesPaced ==
  ASSUME Interval \in Nat \ {0}
  PROVE  Spec => []Paced
<1>1. Init => TimerInv
  BY DEF Init, TimerInv
<1>2. TimerInv /\ [Next]_timerVars => TimerInv'
  <2>1. ASSUME TimerInv, Next
        PROVE  TimerInv'
    BY <2>1, UpdateKeepsInv DEF Next
  <2>2. ASSUME TimerInv, UNCHANGED timerVars
        PROVE  TimerInv'
    BY <2>2 DEF TimerInv, timerVars
  <2> QED
    BY <2>1, <2>2
<1>3. TimerInv => Paced
  <2>1. ASSUME TimerInv
        PROVE  Paced
    <3>1. done * Interval \in Nat
      BY <2>1, OneMore DEF TimerInv
    <3> QED
      BY <2>1, <3>1 DEF TimerInv, Paced
  <2> QED
    BY <2>1
<1> QED
  BY <1>1, <1>2, <1>3, PTL DEF Spec
=============================================================================

----------------------------- MODULE WindowProofs -----------------------------
(***************************************************************************)
(* The send window for any number of slots in a day, any windows, offsets  *)
(* and distance of the ticks.  The arithmetic: a local time is a day and a *)
(* time of that day, and the days of the week come round.                  *)
(***************************************************************************)
EXTENDS SendWindow, TLAPS

(* Whole days and a time of day: the day of the week and the time of that  *)
(* local time.                                                             *)
LEMMA DayAndTime ==
  ASSUME NEW q \in Nat, NEW r \in 0..SlotsPerDay - 1
  PROVE  /\ Day(SlotsPerDay * q + r) = q % 7
         /\ Time(SlotsPerDay * q + r) = r
PROOF
  <1> DEFINE S == SlotsPerDay
             x == S * q + r
  <1>1. S \in Nat \ {0} BY WindowAssumption
  <1>2. S * q \in Nat BY <1>1
  <1>3. x \in Nat /\ r \in Nat BY <1>1, <1>2
  <1> HIDE DEF S
  <1>4. x \div S = q /\ x % S = r BY <1>1, <1>2, <1>3 DEF S
  <1> QED BY <1>4 DEF S, Day, Time

(* Every local time is whole days and a time of day. *)
LEMMA SplitLocal ==
  ASSUME NEW x \in Nat
  PROVE  \E q \in Nat, r \in 0..SlotsPerDay - 1 : x = SlotsPerDay * q + r
PROOF
  <1> DEFINE S == SlotsPerDay
  <1>1. S \in Nat \ {0} BY WindowAssumption
  <1> HIDE DEF S
  <1>2. x \div S \in Nat /\ x % S \in 0..S - 1 BY <1>1
  <1>3. x = S * (x \div S) + (x % S) BY <1>1
  <1> QED BY <1>2, <1>3 DEF S

(* Among eight days that follow each other there is one of the step's, so  *)
(* _next_window_start finds a first one.                                   *)
LEMMA FirstDay ==
  ASSUME NEW q \in Nat, NEW days \in SUBSET Weekdays, days # {}
  PROVE  \E n \in 1..8 : /\ (q + n) % 7 \in days
                         /\ \A k \in 1..8 : (q + k) % 7 \in days => n <= k
PROOF
  <1>1. PICK d \in days : TRUE OBVIOUS
  <1>2. \E n \in 1..7 : (q + n) % 7 = d BY <1>1 DEF Weekdays
  <1> DEFINE Sent(n) == (q + n) % 7 \in days
  <1>3. \E n \in 1..7 : Sent(n) BY <1>1, <1>2
  <1> HIDE DEF Sent
  <1>4. \E n \in 1..8 : Sent(n) /\ \A k \in 1..8 : Sent(k) => n <= k BY <1>3
  <1> QED BY <1>4 DEF Sent

(* What _bump_to_window makes of a time: the first time from it on that is *)
(* open.                                                                   *)
LEMMA BumpIsFirstOpening ==
  ASSUME step \in Windows, offset \in Offsets, NEW d \in Nat
  PROVE  /\ BumpToWindow(d) \in Nat /\ d <= BumpToWindow(d)
         /\ Open(BumpToWindow(d))
         /\ \A t \in d..BumpToWindow(d) - 1 : ~Open(t)
PROOF
  <1> DEFINE S == SlotsPerDay
             L == Local(d)
             Days == step.days
  <1>1. /\ S \in Nat \ {0} /\ offset \in Int /\ -S < offset /\ offset < S
        /\ step.start \in Nat /\ step.end \in Nat /\ step.start < step.end /\ step.end < S
        /\ Days \in SUBSET Weekdays /\ Days # {}
    BY WindowAssumption
  <1>2. SendDays(Days) = Days BY <1>1 DEF SendDays
  <1>3. L \in Nat /\ L = d + offset + Week /\ Week \in Nat BY <1>1 DEF Local, Week
  <1>4. PICK q \in Nat, r \in 0..S - 1 : L = S * q + r BY <1>3, SplitLocal
  <1>5. Day(L) = q % 7 /\ Time(L) = r BY <1>4, DayAndTime
  <1>6. /\ S * q \in Nat
        /\ \A n \in Nat : n * S \in Nat /\ L + n * S = S * (q + n) + r
    BY <1>1, <1>4
  (* A later time, by days and time of day. *)
  <1>7. ASSUME NEW t \in Nat, NEW p \in Nat, NEW c \in 0..S - 1,
               Local(t) = S * p + c
        PROVE  Open(t) <=> /\ p % 7 \in Days
                           /\ step.start <= c /\ c < step.end
    <2>1. Day(S * p + c) = p % 7 /\ Time(S * p + c) = c BY DayAndTime
    <2>2. Day(Local(t)) = p % 7 /\ Time(Local(t)) = c BY ONLY <2>1, <1>7
    <2> QED BY <2>2, <1>2 DEF Open
  <1>8. Open(d) <=> q % 7 \in Days /\ step.start <= r /\ r < step.end
    BY <1>2, <1>5 DEF Open
  <1>9. CASE Open(d)
    BY <1>9 DEF BumpToWindow
  <1>10. CASE ~Open(d) /\ q % 7 \in Days /\ r < step.start
    <2>1. BumpToWindow(d) = d + (step.start - r)
      BY <1>10, <1>2, <1>5, <1>3, <1>1
      DEF BumpToWindow, NextWindowStart, AtTime, ToUtc
    <2>2. ASSUME NEW t \in Nat PROVE Local(t) = S * q + (r + (t - d))
      BY <1>1, <1>3, <1>4, <1>6 DEF Local
    <2>3. \A t \in d..d + (step.start - r) - 1 : ~Open(t)
      <3> SUFFICES ASSUME NEW t \in d..d + (step.start - r) - 1 PROVE ~Open(t)
        OBVIOUS
      <3>1. r + (t - d) \in 0..S - 1 /\ r + (t - d) < step.start BY <1>1, <1>10
      <3>2. Local(t) = S * q + (r + (t - d)) BY <2>2, <1>1
      <3>3. PICK c \in 0..S - 1 : c = r + (t - d) /\ c < step.start BY <3>1
      <3>4. Local(t) = S * q + c BY ONLY <3>2, <3>3
      <3>5. t \in Nat BY <1>1
      <3>6. ~(step.start <= c) BY <3>3, <1>1
      <3> QED BY <3>4, <3>5, <3>6, <1>7
    <2>4. Open(d + (step.start - r))
      <3>1. d + (step.start - r) \in Nat /\ r + (step.start - r) = step.start
            /\ d <= d + (step.start - r) /\ step.start \in 0..S - 1
        BY <1>1, <1>10
      <3>2. Local(d + (step.start - r)) = S * q + step.start
        BY <3>1, <2>2, <1>1
      <3> QED BY <3>1, <3>2, <1>7, <1>10, <1>1
    <2> QED BY <2>1, <2>3, <2>4, <1>1, <1>10
  <1>11. CASE ~Open(d) /\ ~(q % 7 \in Days /\ r < step.start)
    <2> DEFINE days == {n \in 1..8 : Day(L + n * S) \in SendDays(step.days)}
    <2>1. ASSUME NEW n \in 1..8
          PROVE  Day(L + n * S) = (q + n) % 7 /\ Time(L + n * S) = r
      <3>1. q + n \in Nat /\ L + n * S = S * (q + n) + r BY <1>6
      <3>2. Day(S * (q + n) + r) = (q + n) % 7 /\ Time(S * (q + n) + r) = r
        BY <3>1, DayAndTime
      <3> QED BY ONLY <3>1, <3>2
    <2>2. days = {n \in 1..8 : (q + n) % 7 \in Days} BY <2>1, <1>2
    <2>3. \E n \in days : \A k \in days : n <= k
      BY <2>2, <1>1, FirstDay
    <2> DEFINE n == CHOOSE n \in days : \A k \in days : n <= k
    <2>4. n \in days /\ \A k \in days : n <= k BY <2>3
    <2>5. n \in 1..8 /\ (q + n) % 7 \in Days BY <2>2, <2>4
    <2> HIDE DEF n
    <2>6. ASSUME NEW k \in 1..n - 1 PROVE (q + k) % 7 \notin Days
      BY <2>2, <2>4, <2>5
    <2> HIDE DEF days
    <2>7. NextWindowStart(L) = (L + n * S) - r + step.start
      <3>1. NextWindowStart(L) = NextDayStart(L)
        BY <1>11, <1>5, <1>2 DEF NextWindowStart
      <3>2. NextDayStart(L) = AtTime(L + n * S, step.start) BY DEF NextDayStart, n, days
      <3>3. Time(L + n * S) = r BY <2>1, <2>5
      <3>4. AtTime(L + n * S, step.start) = (L + n * S) - r + step.start
        BY ONLY <3>3 DEF AtTime
      <3> QED BY <3>1, <3>2, <3>4
    <2> DEFINE s == (d + n * S) - r + step.start
    <2>8. n * S \in Nat /\ S <= n * S BY <1>1, <2>5
    <2>9. BumpToWindow(d) = s
      BY <1>11, <2>7, <2>8, <1>3, <1>1 DEF BumpToWindow, ToUtc
    <2>10. s \in Nat /\ d <= s BY <1>1, <2>8
    <2>11. Local(s) = S * (q + n) + step.start
      BY <1>1, <1>3, <1>6, <2>5, <2>8, <2>10 DEF Local
    <2>12. Open(s)
      <3>1. q + n \in Nat /\ step.start \in 0..S - 1 BY <2>5, <1>1
      <3> QED BY <3>1, <2>11, <2>10, <2>5, <1>7, <1>1
    <2>13. \A t \in d..s - 1 : ~Open(t)
      <3> SUFFICES ASSUME NEW t \in d..s - 1, Open(t) PROVE FALSE
        OBVIOUS
      <3>1. Local(t) \in Nat /\ Local(t) = L + (t - d) BY <1>1, <1>3 DEF Local
      <3>2. PICK p \in Nat, c \in 0..S - 1 : Local(t) = S * p + c
        BY <3>1, SplitLocal
      <3>3. Local(t) < S * (q + n) + step.start
        BY <3>1, <1>1, <1>3, <1>6, <2>5, <2>8
      <3>4. q <= p
        <4> SUFFICES ASSUME p + 1 <= q PROVE FALSE BY <3>2
        <4>1. S * (p + 1) <= S * q BY <1>1
        <4>2. S * (p + 1) = S * p + S BY <1>1
        <4> QED BY <4>1, <4>2, <3>1, <3>2, <1>4, <1>6, <1>1
      <3>5. p <= q + n
        <4> SUFFICES ASSUME q + n + 1 <= p PROVE FALSE BY <3>2, <2>5
        <4>1. S * (q + n + 1) <= S * p BY <1>1, <2>5
        <4>2. S * (q + n + 1) = S * (q + n) + S BY <1>1, <2>5
        <4> QED BY <4>1, <4>2, <3>2, <3>3, <1>1, <1>6, <2>5
      <3>6. PICK k \in Nat : p = q + k /\ k <= n BY <3>4, <3>5, <2>5
      <3>7. (q + k) % 7 \in Days /\ step.start <= c /\ c < step.end
        BY <3>2, <3>6, <1>7
      <3>8. CASE k = 0
        <4>1. q % 7 \in Days BY <3>7, <3>8
        <4>2. r <= c BY <3>8, <3>6, <3>2, <3>1, <1>4, <1>6
        <4> QED BY <4>1, <4>2, <3>7, <1>8, <1>11, <1>1
      <3>9. CASE k = n
        BY <3>9, <3>6, <3>7, <3>2, <3>3, <1>1, <2>5
      <3>10. CASE k \in 1..n - 1 BY <3>10, <3>7, <2>6
      <3> QED BY <3>6, <3>8, <3>9, <3>10, <2>5
    <2> QED BY <2>9, <2>10, <2>12, <2>13
  <1> QED BY <1>8, <1>9, <1>10, <1>11
-----------------------------------------------------------------------------
(* Types; the row has the time that was made of `due`; while it waits that *)
(* time lies after the last tick, which is no further back than the ticks  *)
(* are apart.                                                              *)
WindowInv ==
  /\ step \in Windows /\ offset \in Offsets
  /\ now \in Nat /\ ticked \in Int /\ due \in Nat
  /\ scheduled = BumpToWindow(due)
  /\ now - ticked <= Period
  /\ status = "pending" => ticked < scheduled

(* The first time of the row is that of its delay, and there was a tick in *)
(* the slot before.                                                        *)
LEMMA InitWindowInv == Init => WindowInv
PROOF
  <1> SUFFICES ASSUME Init PROVE WindowInv OBVIOUS
  <1>1. Week \in Nat /\ Period \in Nat \ {0} BY WindowAssumption DEF Week
  <1>2. due \in Nat /\ step \in Windows /\ offset \in Offsets BY <1>1 DEF Init
  <1>3. BumpToWindow(due) \in Nat BY <1>2, BumpIsFirstOpening
  <1> QED BY <1>1, <1>2, <1>3 DEF Init, WindowInv

(* The step and the time zone of a behaviour stay, and with them what is   *)
(* made of a time.                                                         *)
LEMMA BumpStays ==
  ASSUME step' = step, offset' = offset, NEW t
  PROVE  BumpToWindow(t)' = BumpToWindow(t)
PROOF
  <1>1. Local(t)' = Local(t) BY DEF Local
  <1>2. Open(t)' = Open(t) BY <1>1 DEF Open
  <1> QED BY <1>1, <1>2
      DEF BumpToWindow, ToUtc, NextWindowStart, NextDayStart, AtTime

(* A tick that finds the row due sends it or gives it a later time; the    *)
(* clock waits for the next tick.                                          *)
LEMMA WindowInvNext == WindowInv /\ [Next]_vars => WindowInv'
PROOF
  <1> SUFFICES ASSUME WindowInv, [Next]_vars PROVE WindowInv' OBVIOUS
  <1> USE DEF WindowInv
  <1>1. /\ BumpToWindow(due) \in Nat /\ BumpToWindow(now) \in Nat
        /\ now <= BumpToWindow(now) /\ Open(BumpToWindow(now))
    BY BumpIsFirstOpening
  <1>2. step' = step /\ offset' = offset BY DEF Next, Tick, Clock, vars
  <1>3. scheduled' = BumpToWindow(due)'
    <2>1. ASSUME NEW t PROVE BumpToWindow(t)' = BumpToWindow(t)
      BY <1>2, BumpStays
    <2>2. PICK d : d = due' OBVIOUS
    <2>3. BumpToWindow(due)' = BumpToWindow(d)
      BY <2>1, <2>2
    <2>4. \/ due' = due /\ scheduled' = scheduled
          \/ due' = now /\ scheduled' = BumpToWindow(now)
      BY DEF Next, Tick, Clock, Send, Defer, NotDue, vars
    <2> QED BY <2>2, <2>3, <2>4
  <1> HIDE DEF WindowInv
  <1>4. CASE Tick /\ Send
    BY <1>2, <1>3, <1>4, WindowAssumption DEF Tick, Send, WindowInv
  <1>5. CASE Tick /\ Defer
    BY <1>1, <1>2, <1>3, <1>5, WindowAssumption DEF Tick, Defer, WindowInv, BumpToWindow
  <1>6. CASE Tick /\ NotDue
    BY <1>2, <1>3, <1>6, WindowAssumption DEF Tick, NotDue, WindowInv
  <1>7. CASE Clock
    BY <1>2, <1>3, <1>7, WindowAssumption DEF Clock, WindowInv
  <1>8. CASE UNCHANGED vars
    BY <1>2, <1>3, <1>8 DEF vars, WindowInv
  <1> QED BY <1>4, <1>5, <1>6, <1>7, <1>8 DEF Next, Tick

(* So the invariant holds throughout. *)
LEMMA WindowInvAlways == Spec => []WindowInv
PROOF
  <1> QED BY InitWindowInv, WindowInvNext, PTL DEF Spec

(* The time that a row has is the first from its delay on, or from the     *)
(* tick that deferred it, at which its step may be sent: for every window, *)
(* set of days and time zone (send_window.py, _bump_to_window).            *)
THEOREM GivenFirstOpeningHolds == Spec => []GivenFirstOpening
PROOF
  <1>1. WindowInv => GivenFirstOpening
    BY BumpIsFirstOpening DEF WindowInv, GivenFirstOpening
  <1> QED BY <1>1, WindowInvAlways, PTL

(* A row does not wait through an opening as long as the ticks are apart,  *)
(* however they fall: the row's time is not after the beginning of that    *)
(* opening, the last tick is before the row's time, and so further back    *)
(* from the end of the opening than ticks are apart (dispatch_tick.py,     *)
(* the window check of the build loop).                                    *)
THEOREM SentInFirstOpeningHolds == Spec => []SentInFirstOpening
PROOF
  <1>1. WindowInv => SentInFirstOpening
    <2> SUFFICES ASSUME WindowInv, status = "pending",
                        NEW from \in due..now, NEW to \in due..now,
                        from + Period <= to, Opening(from, to)
                 PROVE  FALSE
      BY DEF SentInFirstOpening
    <2>1. /\ Period \in Nat \ {0} /\ due \in Nat /\ now \in Nat /\ ticked \in Int
          /\ now - ticked <= Period /\ ticked < scheduled
      BY WindowAssumption DEF WindowInv
    <2>2. /\ scheduled \in Nat
          /\ \A t \in due..scheduled - 1 : ~Open(t)
      BY BumpIsFirstOpening DEF WindowInv
    <2>3. Open(from) BY <2>1 DEF Opening
    <2>4. scheduled <= from BY <2>1, <2>2, <2>3
    <2> QED BY <2>1, <2>2, <2>4
  <1> QED BY <1>1, WindowInvAlways, PTL
===============================================================================

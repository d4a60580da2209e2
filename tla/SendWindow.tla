------------------------------ MODULE SendWindow ------------------------------
(***************************************************************************)
(* send_window.py and its two callers: the sequence advancer moves the     *)
(* next step of a lead to an hour at which it may be sent, and a dispatch  *)
(* tick that meets a due row outside of its hours defers the row.  Time is *)
(* counted in slots from a Monday at midnight UTC.  The offset of the time *)
(* zone is fixed: no change to or from summer time falls in a behaviour.   *)
(***************************************************************************)
EXTENDS Integers

CONSTANTS
  SlotsPerDay,
  Period,      \* the slots from one tick to the next, at most
  Windows,     \* send_window_start, send_window_end, send_days of the steps
  Offsets,     \* of the time zones
  Horizon      \* the bound on the clock

Weekdays == 0..6   \* _WEEKDAY_TOKENS, "mon" to "sun"

Week == 7 * SlotsPerDay

(* sequence_steps_window_ordered and sequence_steps_send_days_format; the  *)
(* end of a window is a time of its day.                                   *)
ASSUME WindowAssumption ==
  /\ SlotsPerDay \in Nat \ {0} /\ Period \in Nat \ {0} /\ Horizon \in Nat
  /\ \A w \in Windows :
       /\ w.start \in Nat /\ w.end \in Nat
       /\ w.start < w.end /\ w.end < SlotsPerDay
       /\ w.days \subseteq Weekdays /\ w.days # {}
  /\ \A o \in Offsets : o \in Int /\ -SlotsPerDay < o /\ o < SlotsPerDay

VARIABLES
  step,        \* the step's window
  offset,      \* SEND_WINDOW_DEFAULT_TZ
  now,
  ticked,      \* when the last tick was
  due,         \* when the row was last given a time: by the delay, or deferred
  scheduled,   \* its scheduled_at
  status       \* its status: "pending", "sent"

vars == <<step, offset, now, ticked, due, scheduled, status>>

(* _parse_send_days: tokens that are no weekday are dropped, and Monday to *)
(* Friday stand for none; the table holds neither.                         *)
SendDays(raw) == IF raw \cap Weekdays = {} THEN 0..4 ELSE raw \cap Weekdays

Local(t) == t + offset + Week
Day(local) == (local \div SlotsPerDay) % 7
Time(local) == local % SlotsPerDay

(* is_within_window, start inclusive and end exclusive. *)
Open(t) ==
  /\ Day(Local(t)) \in SendDays(step.days)
  /\ step.start <= Time(Local(t)) /\ Time(Local(t)) < step.end

AtTime(local, time) == local - Time(local) + time

(* _next_window_start: today before the window, or the first of the next   *)
(* eight days.  Mutant: today is not looked at.                            *)
NextDayStart(local) ==
  LET days == {n \in 1..8 : Day(local + n * SlotsPerDay) \in SendDays(step.days)}
      n == CHOOSE n \in days : \A k \in days : n <= k
  IN  AtTime(local + n * SlotsPerDay, step.start)

NextWindowStart(local) ==
  IF Day(local) \in SendDays(step.days) /\ Time(local) < step.start
  THEN AtTime(local, step.start) ELSE NextDayStart(local)

ToUtc(local) == local - offset - Week

(* _bump_to_window.  Mutant: a start that stays in local time. *)
BumpToLocal(t) == IF Open(t) THEN t ELSE NextWindowStart(Local(t)) - Week

BumpToWindow(t) == IF Open(t) THEN t ELSE ToUtc(NextWindowStart(Local(t)))
-----------------------------------------------------------------------------
(* advance_to_next_step: the row of the next step, delayed from when the   *)
(* mail before it was sent.  There was a tick in the slot before.          *)
Init ==
  /\ step \in Windows /\ offset \in Offsets
  /\ now = 0 /\ ticked = -1 /\ status = "pending"
  /\ due \in 0..Week
  /\ scheduled = BumpToWindow(due)

(* A tick claims the row if it is due, and sends it or defers it. *)
Send ==
  /\ status = "pending" /\ scheduled <= now /\ Open(now)
  /\ status' = "sent"
  /\ UNCHANGED <<due, scheduled>>

Defer ==
  /\ status = "pending" /\ scheduled <= now /\ ~Open(now)
  /\ due' = now
  /\ scheduled' = BumpToWindow(now)
  /\ UNCHANGED status

NotDue == (status = "sent" \/ scheduled > now) /\ UNCHANGED <<due, scheduled, status>>

Tick ==
  /\ ticked < now
  /\ Send \/ Defer \/ NotDue
  /\ ticked' = now
  /\ UNCHANGED <<step, offset, now>>

Clock ==
  /\ now < Horizon /\ now - ticked < Period
  /\ now' = now + 1
  /\ UNCHANGED <<step, offset, ticked, due, scheduled, status>>

Next == Tick \/ Clock

Spec == Init /\ [][Next]_vars
-----------------------------------------------------------------------------
(* The time that a row is given is open, and it is the first that is.      *)
GivenFirstOpening ==
  Open(scheduled) /\ due <= scheduled /\ \A t \in due..scheduled - 1 : ~Open(t)

Opening(from, to) ==
  /\ ~Open(from - 1) /\ ~Open(to)
  /\ \A t \in from..to - 1 : Open(t)

(* However the ticks fall, a row does not wait through a whole opening of  *)
(* its window: none that lasts as long as the ticks are apart has passed   *)
(* since the row was given its time.                                       *)
SentInFirstOpening ==
  status = "pending" =>
    ~\E from, to \in due..now : from + Period <= to /\ Opening(from, to)
=============================================================================

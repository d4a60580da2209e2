----------------------------- MODULE MCSendWindow -----------------------------
(* Four slots a day: every window of a day, on days that follow each       *)
(* other, on one day, on days apart and on all.                            *)
EXTENDS SendWindow

MCDays == {0..4, {0}, {6}, {0, 3}, {1, 6}, Weekdays}

MCWindows ==
  {w \in [start : 0..2, end : 1..3, days : MCDays] : w.start < w.end}

MCOffsets == -2..2
===============================================================================

----------------------------- MODULE MCDueDate ------------------------------
(* Days of five minutes with three of business, weeks of three days.          *)
EXTENDS DueDate

MCCalendars ==
  {[weekdays |-> w, holidays |-> h, overrides |-> o] :
     w \in (SUBSET (0..2)) \ {{}}, h \in SUBSET {1, 2, 3}, o \in SUBSET {0, 2}}
MCStarts    == 0..19
MCDurations == {0, 1, 3, 5, 7}
=============================================================================

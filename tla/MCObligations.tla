---------------------------- MODULE MCObligations ----------------------------
(* Two templates, set to be monthly, quarterly or yearly, and ranges of some   *)
(* months that begin inside a quarter and end inside another.                  *)
EXTENDS Obligations, TLC

Setting(type, frequency, interval, rule, mapped) ==
  [type |-> type, pattern |-> [frequency |-> frequency, interval |-> interval, startMonth |-> 3],
   rule |-> rule, active |-> TRUE, mapped |-> mapped]
Rule(mode, offset, month) == [mode |-> mode, monthOffset |-> offset, fixedMonth |-> month]

Monthly   == Setting("gst", "monthly", 1, Rule("day_of_next_month", 1, 0), TRUE)
Quarterly == Setting("gst", "quarterly", 1, Rule("day_of_month_after_period", 0, 0), TRUE)
Yearly    == Setting("roc", "yearly", 1, Rule("fixed_day_month", 1, 2), TRUE)
WithoutCategory == [Yearly EXCEPT !.mapped = FALSE, !.rule.fixedMonth = 0]
Inactive  == [Monthly EXCEPT !.active = FALSE]

MCSettings == {Monthly, Quarterly, Yearly, WithoutCategory, Inactive}
MCInitial  == {[t \in {1, 2} |-> IF t = 1 THEN Monthly ELSE s] : s \in {Quarterly, Yearly}}
MCRequests ==
  {[from |-> 2, to |-> 3, templates |-> {1, 2}, clients |-> {1}],
   [from |-> 3, to |-> 4, templates |-> {1, 2}, clients |-> {1, 2}],
   [from |-> 10, to |-> 15, templates |-> {2}, clients |-> {2}]}
MCApplies  == {<<1, 1>>, <<2, 1>>, <<2, 2>>}
MCSymmetry == Permutations(Runs)
=============================================================================

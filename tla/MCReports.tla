------------------------------ MODULE MCReports ------------------------------
(* An instance of Reports for TLC: four sets of books to start from, each   *)
(* with debts the reports must tell apart (overdue, settled in part, on a   *)
(* card, with a collection of before the ledger) and, in two of them, a     *)
(* recurring plan; and three ranges that cut the days differently.          *)
EXTENDS Reports

Due(kind, due, amount) ==
  [kind |-> kind, due |-> due, amount |-> amount, month |-> 0, live |-> TRUE, paid |-> 0,
   occurrence |-> 0]

Plan(active, next, card, ends) ==
  [active |-> active, next |-> next, card |-> card, amount |-> 1, ends |-> ends]
NoPlan == Plan(FALSE, 1, FALSE, 0)

Books(dues, entries, plan) ==
  [accounts |-> <<[day |-> 1, amount |-> 1]>>, moves |-> <<>>, dues |-> dues,
   entries |-> entries, plan |-> plan]

Legacy == <<[of |-> 1, day |-> 1, amount |-> 1, back |-> 0, move |-> 0]>>

AllStarts ==
  {Books(<<Due("receivable", 3, 2), [Due("contribution", 1, 1) EXCEPT !.month = 1]>>, <<>>, NoPlan),
   Books(<<[Due("receivable", 2, 2) EXCEPT !.month = 2], Due("tax", 1, 1)>>, Legacy, NoPlan),
   Books(<<Due("card", 2, 2), [Due("card", 2, 1) EXCEPT !.paid = 1]>>, <<>>,
         Plan(TRUE, 1, TRUE, 3)),
   Books(<<Due("other", 2, 1), Due("other", 3, 1)>>, <<>>, Plan(TRUE, 1, FALSE, 0))}

AllRanges == {<<1, 4, "weekly">>, <<2, 3, "monthly">>, <<3, 4, "weekly">>}
=============================================================================

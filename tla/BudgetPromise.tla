---------------------------- MODULE BudgetPromise ----------------------------
(***************************************************************************)
(* What the budget ledger promises its clients: reservations are made and  *)
(* ended one at a time, each ends at most once, and none is made beyond    *)
(* the limit.                                                              *)
(***************************************************************************)
EXTENDS Integers

CONSTANTS
  Reservations, Limit,
  Amounts,       \* what may be reserved or charged
  Reserved(_)    \* what the open reservations hold together

VARIABLES open,      \* the amount each open reservation holds, 0 for the others
          measured   \* what the settled calls cost

Init == open = [i \in Reservations |-> 0] /\ measured = 0

Reserve(i, amount) ==
  /\ open[i] = 0 /\ measured + Reserved(open) + amount <= Limit
  /\ open' = [open EXCEPT ![i] = amount]
  /\ UNCHANGED measured

End(i, charge) ==
  /\ open[i] # 0
  /\ open' = [open EXCEPT ![i] = 0]
  /\ measured' = measured + charge

Next == \E i \in Reservations, n \in Amounts : Reserve(i, n) \/ End(i, n)

Spec == Init /\ [][Next]_<<open, measured>>
=============================================================================

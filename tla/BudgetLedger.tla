---------------------------- MODULE BudgetLedger ----------------------------
(***************************************************************************)
(* BudgetLedgerService over a repository that only offers read and         *)
(* compare-and-swap, and its clients: engine runs that reserve before they *)
(* work and settle when it is over, and cancellations that settle or       *)
(* release reservations of others.                                         *)
(*                                                                         *)
(* A call reads a copy of the account, changes the copy and swaps it in if *)
(* the revision is still the one it read; otherwise it reads again. Other  *)
(* calls interleave between the read and the swap.                         *)
(***************************************************************************)
EXTENDS BudgetAccount

CONSTANTS
  Clients,
  NoReservation,
  MaxTries        \* _MAX_CAS_ATTEMPTS

ASSUME BudgetAssumption ==
  /\ NoReservation \notin Reservations
  /\ Limit \in Nat
  /\ Estimate \in Nat \ {0}
  /\ Charges \subseteq Nat
  /\ MaxTries \in Nat \ {0}

VARIABLES
  handed,    \* reservation ids the factory has made
  stage,     \* how far each client's run is
  mine,      \* the reservation of each client's run
  call       \* the pending call of each client

vars == <<account, handed, stage, mine, call>>

Account == [revision : Nat, open : [Reservations -> Nat],
            estimated : Nat, measured : Nat, released : Nat]

NewAccount == [revision |-> 0, open |-> [i \in Reservations |-> 0],
               estimated |-> 0, measured |-> 0, released |-> 0]

\* amount is the estimate to reserve or the charge to settle; copy is the account
\* as the call read it.
Call == [at : {"read", "swap"}, op : {"reserve", "settle", "release"},
         id : Reservations, amount : Nat, copy : Account, tries : Nat]
NoCall == [at |-> "idle", op |-> "none", id |-> NoReservation, amount |-> 0,
           copy |-> NewAccount, tries |-> 0]

-----------------------------------------------------------------------------

\* BudgetExceeded and ReservationNotFound are the other cases.
Allowed(c, a) ==
  IF c.op = "reserve" THEN a.measured + Reserved(a.open) + c.amount <= Limit
  ELSE a.open[c.id] # 0

Changed(c, a) ==
  LET next == [a EXCEPT !.revision = @ + 1] IN
  CASE c.op = "reserve" -> [next EXCEPT !.open[c.id] = c.amount, !.estimated = @ + c.amount]
    [] c.op = "settle"  -> [next EXCEPT !.open[c.id] = 0, !.measured = @ + c.amount,
                              !.released = @ + Max({0, a.open[c.id] - c.amount})]
    [] c.op = "release" -> [next EXCEPT !.open[c.id] = 0, !.released = @ + a.open[c.id]]

Begin(p, op, i, amount) ==
  call' = [call EXCEPT ![p] = [at |-> "read", op |-> op, id |-> i, amount |-> amount,
                               copy |-> NewAccount, tries |-> 0]]

\* The run of a client goes on once its call returned or raised. Whatever comes
\* of settle is swallowed.
Returned(p, done) ==
  /\ call' = [call EXCEPT ![p] = NoCall]
  /\ stage' = [stage EXCEPT ![p] =
       CASE @ = "reserving" -> IF done THEN "preparing" ELSE "over"
         [] @ = "settling"  -> "over"
         [] OTHER           -> @]

Init ==
  /\ account = NewAccount
  /\ handed = {}
  /\ stage = [p \in Clients |-> "new"]
  /\ mine = [p \in Clients |-> NoReservation]
  /\ call = [p \in Clients |-> NoCall]

\* RunEngine.run: reserve a fresh reservation first.
Run(p, i) ==
  /\ stage[p] = "new" /\ call[p] = NoCall /\ i \notin handed
  /\ handed' = handed \cup {i}
  /\ mine' = [mine EXCEPT ![p] = i]
  /\ stage' = [stage EXCEPT ![p] = "reserving"]
  /\ Begin(p, "reserve", i, Estimate)
  /\ UNCHANGED account

\* Probing the source and setting up the rules come before the try block whose
\* finally settles.
Prepare(p) ==
  /\ stage[p] = "preparing"
  /\ stage' = [stage EXCEPT ![p] = "analysing"]
  /\ UNCHANGED <<account, handed, mine, call>>

PrepareFails(p) ==
  /\ stage[p] = "preparing"
  /\ stage' = [stage EXCEPT ![p] = "over"]
  /\ UNCHANGED <<account, handed, mine, call>>

\* However the analysis ends, its measured usage is settled.
AnalysisEnds(p, charge) ==
  /\ stage[p] = "analysing" /\ call[p] = NoCall
  /\ stage' = [stage EXCEPT ![p] = "settling"]
  /\ Begin(p, "settle", mine[p], charge)
  /\ UNCHANGED <<account, handed, mine>>

\* cancel settles what is in flight and releases what never started, one by one.
Cancel(p, i) ==
  /\ stage[p] = "new" /\ call[p] = NoCall /\ i \in handed
  /\ \/ \E charge \in Charges : Begin(p, "settle", i, charge)
     \/ Begin(p, "release", i, 0)
  /\ UNCHANGED <<account, handed, stage, mine>>

Read(p) ==
  LET c == call[p] IN
  /\ c.at = "read"
  /\ IF Allowed(c, account)
     THEN /\ call' = [call EXCEPT ![p].at = "swap", ![p].copy = account]
          /\ UNCHANGED stage
     ELSE Returned(p, FALSE)
  /\ UNCHANGED <<account, handed, mine>>

\* Mutant: the account is written whatever its revision is.
SwapBlindly(p) ==
  LET c == call[p] IN
  /\ c.at = "swap"
  /\ account' = Changed(c, c.copy)
  /\ Returned(p, TRUE)
  /\ UNCHANGED <<handed, mine>>

Swap(p) ==
  LET c == call[p] IN
  /\ c.at = "swap" /\ c.copy.revision = account.revision
  /\ account' = Changed(c, c.copy)
  /\ Returned(p, TRUE)
  /\ UNCHANGED <<handed, mine>>

\* BudgetContention ends a call whose swaps all failed.
SwapLost(p) ==
  LET c == call[p] IN
  /\ c.at = "swap" /\ c.copy.revision # account.revision
  /\ IF c.tries + 1 < MaxTries
     THEN /\ call' = [call EXCEPT ![p].at = "read", ![p].tries = @ + 1]
          /\ UNCHANGED stage
     ELSE Returned(p, FALSE)
  /\ UNCHANGED <<account, handed, mine>>

Next ==
  \E p \in Clients :
    \/ \E i \in Reservations : Run(p, i) \/ Cancel(p, i)
    \/ Prepare(p) \/ PrepareFails(p)
    \/ \E charge \in Charges : AnalysisEnds(p, charge)
    \/ Read(p) \/ Swap(p) \/ SwapLost(p)

Spec == Init /\ [][Next]_vars

-----------------------------------------------------------------------------
Stages == {"new", "reserving", "preparing", "analysing", "settling", "over"}

TypeOK ==
  /\ account \in Account
  /\ handed \subseteq Reservations
  /\ stage \in [Clients -> Stages]
  /\ mine \in [Clients -> Reservations \cup {NoReservation}]
  /\ call \in [Clients -> Call \cup {NoCall}]

=============================================================================

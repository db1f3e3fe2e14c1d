--------------------------- MODULE ChargeHistory ---------------------------
(***************************************************************************)
(* What was charged to a limit, ledger by ledger: a history of the         *)
(* specifications of mux-account and mux-policy. It is kept as a running   *)
(* total, h[n] being what was charged before ledger n, so that what was    *)
(* charged in the ledgers from m up to n is h[n] - h[m].                   *)
(***************************************************************************)
EXTENDS Integers

\* Histories of the ledgers 0..last.
Histories(last) == [0..(last + 1) -> Nat]

NoCharges(last) == [n \in 0..(last + 1) |-> 0]

\* The history once amount was charged at ledger now.
WithCharge(h, now, amount) == [n \in DOMAIN h |-> IF n > now THEN h[n] + amount ELSE h[n]]

\* No period consecutive ledgers were charged more than bound.
WindowsWithin(h, period, bound) ==
  \A first, end \in DOMAIN h :
    first <= end /\ end <= first + period => h[end] - h[first] <= bound
=============================================================================

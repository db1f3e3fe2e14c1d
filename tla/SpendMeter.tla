----------------------------- MODULE SpendMeter -----------------------------
(***************************************************************************)
(* What a spend limit promises, without calls, guards or nonces: every     *)
(* asset has a meter with an amount and a deadline. A charge is atomic. It *)
(* adds to the meter as long as the deadline has not come, and restarts    *)
(* the meter with a later deadline once it has; either way the meter never *)
(* passes the amount. The amount changes only when the meter is            *)
(* configured, which restarts it.                                          *)
(***************************************************************************)
EXTENDS Naturals

CONSTANTS
  Asset,   \* what is metered
  NoMeter  \* an asset that has no limit: it cannot be charged

VARIABLES
  amount,  \* the limit of each asset, or NoMeter
  spent,   \* charged since the meter was last restarted
  until,   \* the tick at which the meter may restart
  now

meterVars == <<amount, spent, until, now>>

Init ==
  /\ amount = [a \in Asset |-> NoMeter]
  /\ spent = [a \in Asset |-> 0]
  /\ until = [a \in Asset |-> 0]
  /\ now = 0

Configure(a) ==
  /\ amount'[a] \in Nat \ {0}
  /\ spent'[a] = 0
  /\ until'[a] > now

Charge(a) ==
  /\ amount[a] # NoMeter
  /\ amount'[a] = amount[a]
  /\ IF now < until[a]
     THEN /\ spent'[a] > spent[a]
          /\ until'[a] = until[a]
     ELSE /\ spent'[a] > 0
          /\ until'[a] > now
  /\ spent'[a] <= amount'[a]

Others(a) ==
  \A b \in Asset \ {a} :
    amount'[b] = amount[b] /\ spent'[b] = spent[b] /\ until'[b] = until[b]

Tick ==
  /\ now' = now + 1
  /\ UNCHANGED <<amount, spent, until>>

Next ==
  \/ \E a \in Asset : (Configure(a) \/ Charge(a)) /\ Others(a) /\ now' = now
  \/ Tick

Spec == Init /\ [][Next]_meterVars
=============================================================================

------------------------------- MODULE Replay -------------------------------
(***************************************************************************)
(* The unit tests of a contract as behaviours of its module: a test is a   *)
(* numbered sequence of steps, each a call that succeeds, a call that is   *)
(* refused or an assertion. A step that the module does not allow leaves   *)
(* the test where it is, and that is how it fails.                         *)
(*                                                                         *)
(* Addresses, symbols and texts are strings named as in the test. What a   *)
(* test says of events, of the life of entries and of the numbers of       *)
(* errors is left out, and where it fills a list to its cap the cap is the *)
(* constant of the module, which MCTests makes small.                      *)
(***************************************************************************)
EXTENDS Naturals

VARIABLES
  test, \* the name of the test that runs
  step  \* its next step, 0 once it has passed

At(n) == step = n /\ step' = n + 1 /\ UNCHANGED test

\* The last step of a test.
End(n) == step = n /\ step' = 0 /\ UNCHANGED test
=============================================================================

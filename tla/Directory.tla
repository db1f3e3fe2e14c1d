----------------------------- MODULE Directory -----------------------------
(***************************************************************************)
(* What a contract promises that keeps records under names for several     *)
(* holders and bounds how many names each of them may use: a record is put *)
(* under a free name while there is room, put again under a used one at    *)
(* any time, and withdrawn as a whole. The contracts keep the list of      *)
(* names and the records under separate storage keys.                      *)
(***************************************************************************)
EXTENDS FiniteSets, Naturals

CONSTANTS
  Holder, Name,
  NoRecord, \* no record under a name
  Cap       \* names a holder may use

VARIABLE records \* [Holder -> [Name -> a record or NoRecord]]

Used(h) == {n \in Name : records[h][n] # NoRecord}

Init == records = [h \in Holder |-> [n \in Name |-> NoRecord]]

\* Several names change at once in no step.
Put(h, n) ==
  /\ records'[h][n] # NoRecord
  /\ n \in Used(h) \/ Cardinality(Used(h)) < Cap
  /\ records' = [records EXCEPT ![h][n] = records'[h][n]]

Withdraw(h, n) ==
  /\ n \in Used(h)
  /\ records' = [records EXCEPT ![h][n] = NoRecord]

Next == \E h \in Holder, n \in Name : Put(h, n) \/ Withdraw(h, n)

Spec == Init /\ [][Next]_records
=============================================================================

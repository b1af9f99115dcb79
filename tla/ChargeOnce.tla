------------------------------ MODULE ChargeOnce ------------------------------
(***************************************************************************)
(* What debiting a spool for a print promises, whatever the protocol: a     *)
(* charge goes out only when the outcome of the one before it is on record, *)
(* it never takes the spool past what was asked for, and what is on record  *)
(* at last is what was taken.  One key is a print and a spool.              *)
(***************************************************************************)
EXTENDS Integers

CONSTANT Keys

VARIABLES asked,    \* the most that was ever asked of the key
          charged,  \* what the provider took
          booked,   \* what the record says was taken
          edited    \* somebody else has changed the spools

ledger == <<asked, charged, booked, edited>>

Init == /\ asked = [k \in Keys |-> 0]
        /\ charged = [k \in Keys |-> 0]
        /\ booked = [k \in Keys |-> 0]
        /\ edited = FALSE

\* One key's amount changes, and no other's.
Moves(amount, after, k) == after[k] \in Int /\ after = [amount EXCEPT ![k] = after[k]]

Ask(k) == /\ Moves(asked, asked', k) /\ asked'[k] > asked[k]
          /\ UNCHANGED <<charged, booked, edited>>

\* Take what is owed or less of it, or give back: only when all that was taken is on record.
Charge(k) == /\ charged[k] <= booked[k]
             /\ Moves(charged, charged', k) /\ charged'[k] - charged[k] <= asked[k] - booked[k]
             /\ UNCHANGED <<asked, booked, edited>>

\* Somebody else's change of the spool may be booked as a charge, never the other way.
Book(k) == /\ Moves(booked, booked', k) /\ booked'[k] >= charged[k]
           /\ edited \/ booked'[k] = charged[k]
           /\ UNCHANGED <<asked, charged, edited>>

Others == edited' = TRUE /\ UNCHANGED <<asked, charged, booked>>

Next == Others \/ \E k \in Keys : Ask(k) \/ Charge(k) \/ Book(k)

Spec == Init /\ [][Next]_ledger
=============================================================================

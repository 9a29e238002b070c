------------------------------- MODULE Ledger -------------------------------
(***************************************************************************)
(* What the trading pipeline promises about every signal of an account,    *)
(* whatever its stages, commits and failures are: an order needs an        *)
(* approval that is already on record, a signal gives at most one order,   *)
(* and a position is booked at most once and only for an order.            *)
(***************************************************************************)
EXTENDS Naturals

CONSTANT Signals

VARIABLES approved,  \* signals with an APPROVED decision on record
          orders,    \* how often the broker has filled an order of a signal
          booked     \* signals with a position row

vars == <<approved, orders, booked>>

TypeOK ==
    /\ approved \subseteq Signals
    /\ orders \in [Signals -> Nat]
    /\ booked \subseteq Signals

Init ==
    /\ approved = {}
    /\ orders = [s \in Signals |-> 0]
    /\ booked = {}

Approve(s) ==
    /\ s \notin approved /\ orders[s] = 0
    /\ approved' = approved \cup {s}
    /\ UNCHANGED <<orders, booked>>

Order(s) ==
    /\ s \in approved /\ orders[s] = 0
    /\ orders' = [orders EXCEPT ![s] = 1]
    /\ UNCHANGED <<approved, booked>>

Book(s) ==
    /\ orders[s] = 1 /\ s \notin booked
    /\ booked' = booked \cup {s}
    /\ UNCHANGED <<approved, orders>>

Next == \E s \in Signals : Approve(s) \/ Order(s) \/ Book(s)

Spec == Init /\ [][Next]_vars
=============================================================================

---------------------------- MODULE PaymentLedger ----------------------------
(***************************************************************************)
(* What the payment processor promises its users: a ledger in which a      *)
(* (payer, payee, amount) triple is paid at most once, and paying it is    *)
(* one indivisible step that records it, debits the payer and credits the *)
(* payee.  A request for a triple already recorded changes nothing.        *)
(***************************************************************************)
EXTENDS Integers

CONSTANTS
    Users,           \* account names
    Amounts,         \* amounts that can be paid
    DefaultBalance   \* the balance every account starts with

Transaction == Users \X Users \X Amounts

VARIABLES
    transactions,    \* the triples paid so far
    balances         \* balances[u] for every account u

vars == <<transactions, balances>>

Init ==
    /\ transactions = {}
    /\ balances = [u \in Users |-> DefaultBalance]

(* Paying a new triple t = <<payer, payee, amount>>; the debit comes       *)
(* first, so a payment to oneself leaves the balance as it was.            *)
Pay(t) ==
    /\ t \notin transactions
    /\ transactions' = transactions \cup {t}
    /\ balances' = [[balances EXCEPT ![t[1]] = @ - t[3]] EXCEPT ![t[2]] = @ + t[3]]

Next == \E t \in Transaction : Pay(t)

Spec == Init /\ [][Next]_vars

=============================================================================

-------------------------- MODULE PaymentProcessor --------------------------
(***************************************************************************)
(* The fake payment processor of                                           *)
(* src/python/interactive_payment_processor/interactive_payment_processor.py*)
(*                                                                         *)
(* Module-level state: the set of processed transactions and a             *)
(* defaultdict of balances starting at 1000.  The only handler that        *)
(* changes it is payment_details_page: it refuses a (payer, payee, amount) *)
(* triple seen before, otherwise records it, debits the payer and credits  *)
(* the payee.  The other pages only read a balance (the defaultdict read   *)
(* inserts the default, which leaves the value a user has unchanged).      *)
(*                                                                         *)
(* The Flask development server (app.run, line 79) serves requests on one  *)
(* thread per request when threaded (the default of current Flask), so     *)
(* each Worker is one such thread.  The handler is split where another     *)
(* thread can run in between: the membership test, the set insertion, and *)
(* the read and the write of each `balances[x] -= / += amount`.            *)
(***************************************************************************)
EXTENDS Integers, FiniteSets, FiniteSetsExt

CONSTANTS
    Users,         \* the user names posted in forms
    Amounts,       \* the amounts posted in forms
    Workers,       \* the server's request threads
    MaxRequests    \* bound on the number of payment requests served

ASSUME UsersAssumption == Users # {} /\ IsFiniteSet(Users)
ASSUME AmountsAssumption == Amounts # {} /\ Amounts \subseteq Int /\ IsFiniteSet(Amounts)
ASSUME WorkersAssumption == Workers # {} /\ IsFiniteSet(Workers)
ASSUME MaxRequestsAssumption == MaxRequests \in Nat

(* The defaultdict's default balance (line 26).                            *)
DefaultBalance == 1000

Transaction == Users \X Users \X Amounts

VARIABLES
    transactions,  \* the set of (payer, payee, amount) triples (line 25)
    balances,      \* balances[u], total over Users thanks to the defaultdict
    pc,            \* pc[w]: where thread w is in payment_details_page
    tx,            \* tx[w]: the triple thread w is handling
    tmp,           \* tmp[w]: the balance thread w has read and not yet written
    served,        \* number of payment requests received so far
    accepted       \* history: accepted[t] = threads that passed the check with t

vars == <<transactions, balances, pc, tx, tmp, served, accepted>>

Init ==
    /\ transactions = {}
    /\ balances = [u \in Users |-> DefaultBalance]
    /\ pc = [w \in Workers |-> "idle"]
    /\ tx = [w \in Workers |-> CHOOSE t \in Transaction : TRUE]
    /\ tmp = [w \in Workers |-> 0]
    /\ served = 0
    /\ accepted = [t \in Transaction |-> 0]

Payer(w) == tx[w][1]
Payee(w) == tx[w][2]
Amount(w) == tx[w][3]

(* A POST to /payment_details/<payer> arrives on thread w (lines 53-58).   *)
Receive(w) ==
    /\ pc[w] = "idle"
    /\ served < MaxRequests
    /\ \E t \in Transaction : tx' = [tx EXCEPT ![w] = t]
    /\ served' = served + 1
    /\ pc' = [pc EXCEPT ![w] = "check"]
    /\ UNCHANGED <<transactions, balances, tmp, accepted>>

(* Mutant: the duplicate test is missing.                               *)
CheckNoDuplicateTest(w) ==
    /\ pc[w] = "check"
    /\ pc' = [pc EXCEPT ![w] = "add"]
    /\ accepted' = [accepted EXCEPT ![tx[w]] = @ + 1]
    /\ UNCHANGED <<transactions, balances, tx, tmp, served>>

(* Mutant: the debit and credit of lines 61-62 dedented out of the `if`,  *)
(* so a duplicate triple is not recorded again but is still paid.          *)
CheckDuplicateStillPays(w) ==
    /\ pc[w] = "check"
    /\ IF tx[w] \notin transactions
         THEN /\ pc' = [pc EXCEPT ![w] = "add"]
              /\ accepted' = [accepted EXCEPT ![tx[w]] = @ + 1]
         ELSE /\ pc' = [pc EXCEPT ![w] = "debit_read"]
              /\ UNCHANGED accepted
    /\ UNCHANGED <<transactions, balances, tx, tmp, served>>

(* `if not transaction in transactions` (line 59): a new triple goes on,   *)
(* a known one gets the duplicate_transaction page (line 67).              *)
Check(w) ==
    /\ pc[w] = "check"
    /\ IF tx[w] \notin transactions
         THEN /\ pc' = [pc EXCEPT ![w] = "add"]
              /\ accepted' = [accepted EXCEPT ![tx[w]] = @ + 1]
         ELSE /\ pc' = [pc EXCEPT ![w] = "idle"]
              /\ UNCHANGED accepted
    /\ UNCHANGED <<transactions, balances, tx, tmp, served>>

(* Mutant: the tuple recorded by line 60 leaves out the amount.           *)
AddPairOnly(w) ==
    /\ pc[w] = "add"
    /\ transactions' = transactions \cup {<<Payer(w), Payee(w)>>}
    /\ pc' = [pc EXCEPT ![w] = "debit_read"]
    /\ UNCHANGED <<balances, tx, tmp, served, accepted>>

(* transactions.add(transaction) (line 60).                                *)
Add(w) ==
    /\ pc[w] = "add"
    /\ transactions' = transactions \cup {tx[w]}
    /\ pc' = [pc EXCEPT ![w] = "debit_read"]
    /\ UNCHANGED <<balances, tx, tmp, served, accepted>>

(* balances[payer] -= amount (line 61), read then write.                   *)
DebitRead(w) ==
    /\ pc[w] = "debit_read"
    /\ tmp' = [tmp EXCEPT ![w] = balances[Payer(w)]]
    /\ pc' = [pc EXCEPT ![w] = "debit_write"]
    /\ UNCHANGED <<transactions, balances, tx, served, accepted>>

DebitWrite(w) ==
    /\ pc[w] = "debit_write"
    /\ balances' = [balances EXCEPT ![Payer(w)] = tmp[w] - Amount(w)]
    /\ pc' = [pc EXCEPT ![w] = "credit_read"]
    /\ UNCHANGED <<transactions, tx, tmp, served, accepted>>

(* balances[payee] += amount (line 62), read then write; the thread then   *)
(* renders payment_details.html and is free again.                         *)
CreditRead(w) ==
    /\ pc[w] = "credit_read"
    /\ tmp' = [tmp EXCEPT ![w] = balances[Payee(w)]]
    /\ pc' = [pc EXCEPT ![w] = "credit_write"]
    /\ UNCHANGED <<transactions, balances, tx, served, accepted>>

CreditWrite(w) ==
    /\ pc[w] = "credit_write"
    /\ balances' = [balances EXCEPT ![Payee(w)] = tmp[w] + Amount(w)]
    /\ pc' = [pc EXCEPT ![w] = "idle"]
    /\ UNCHANGED <<transactions, tx, tmp, served, accepted>>

Next ==
    \E w \in Workers :
        \/ Receive(w)
        \/ Check(w)
        \/ Add(w)
        \/ DebitRead(w)
        \/ DebitWrite(w)
        \/ CreditRead(w)
        \/ CreditWrite(w)

Spec == Init /\ [][Next]_vars

-----------------------------------------------------------------------------
(* Every state of the server has well-typed variables.                     *)
TypeOK ==
    /\ transactions \subseteq Transaction
    /\ balances \in [Users -> Int]
    /\ pc \in [Workers -> {"idle", "check", "add", "debit_read", "debit_write",
                           "credit_read", "credit_write"}]
    /\ tx \in [Workers -> Transaction]
    /\ tmp \in [Workers -> Int]
    /\ served \in 0..MaxRequests
    /\ accepted \in [Transaction -> 0..MaxRequests]

(* The duplicate check of line 59 lets each (payer, payee, amount) triple  *)
(* through at most once, so no payment is applied twice.                   *)
AppliedAtMostOnce == \A t \in Transaction : accepted[t] <= 1

(* The money moved by a thread that has debited the payer and not yet     *)
(* credited the payee.                                                     *)
InFlight ==
    MapThenSumSet(LAMBDA w : Amount(w),
                  {w \in Workers : pc[w] \in {"credit_read", "credit_write"}})

(* Payments only move money (lines 61-62): the sum of all balances, plus   *)
(* what is between a debit and its credit, stays what the defaultdict      *)
(* started with.                                                           *)
MoneyConserved ==
    MapThenSumSet(LAMBDA u : balances[u], Users) + InFlight
        = DefaultBalance * Cardinality(Users)


(* The balances once thread w has finished the payment it has recorded:   *)
(* what is left of lines 61-62 after its position pc[w].                   *)
SettledBy(w) ==
    CASE pc[w] \in {"debit_read", "debit_write"} ->
            [[balances EXCEPT ![Payer(w)] = @ - Amount(w)]
                EXCEPT ![Payee(w)] = @ + Amount(w)]
      [] pc[w] \in {"credit_read", "credit_write"} ->
            [balances EXCEPT ![Payee(w)] = @ + Amount(w)]
      [] OTHER -> balances

(* The request thread, when the server has only one.                      *)
ServerThread == CHOOSE w \in Workers : TRUE

Ledger == INSTANCE PaymentLedger WITH balances <- SettledBy(ServerThread)

(* Seen through the balances that complete the payment of the server's    *)
(* thread, the single-threaded server is the atomic ledger: a triple is    *)
(* paid once, its debit and its credit land on the payer and the payee,   *)
(* and a duplicate request (the duplicate_transaction page, line 67)       *)
(* changes no balance.                                                     *)
ImplementsPaymentLedger == Ledger!Spec

=============================================================================

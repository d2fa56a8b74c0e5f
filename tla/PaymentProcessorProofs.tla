------------------------ MODULE PaymentProcessorProofs ------------------------
(***************************************************************************)
(* Proof that the payment processor, served by a single request thread,    *)
(* applies every (payer, payee, amount) triple at most once.               *)
(***************************************************************************)
EXTENDS PaymentProcessor, FiniteSetTheorems, TLAPS

USE UsersAssumption, AmountsAssumption, WorkersAssumption, MaxRequestsAssumption
    DEF UsersAssumption, AmountsAssumption, WorkersAssumption, MaxRequestsAssumption

(* The history `accepted` counts, for each triple, the one recorded in     *)
(* `transactions` or the one thread w0 has let through and not yet added;  *)
(* and a triple let through was not yet recorded.                          *)
PayInv(w0) ==
    /\ TypeOK
    /\ \A t \in Transaction :
          accepted[t] = IF t \in transactions \/ (pc[w0] = "add" /\ tx[w0] = t) THEN 1 ELSE 0
    /\ pc[w0] = "add" => tx[w0] \notin transactions
    /\ (pc[w0] # "idle" \/ transactions # {}) => served >= 1

(* The fields of a posted payment triple.                                  *)
LEMMA TxFields ==
    ASSUME NEW t \in Transaction
    PROVE  t[1] \in Users /\ t[2] \in Users /\ t[3] \in Int
BY DEF Transaction

(* The initial state is well typed, whatever the number of threads.       *)
LEMMA InitTyped == Init => TypeOK
<1> SUFFICES ASSUME Init PROVE TypeOK
  OBVIOUS
<1>1. PICK u \in Users, a \in Amounts : TRUE
  OBVIOUS
<1>2. <<u, u, a>> \in Transaction
  BY <1>1 DEF Transaction
<1>3. (CHOOSE t \in Transaction : TRUE) \in Transaction
  BY <1>2
<1>4. tx \in [Workers -> Transaction]
  BY <1>3 DEF Init
<1>5. accepted \in [Transaction -> 0..MaxRequests] /\ balances \in [Users -> Int]
  BY DEF Init, DefaultBalance
<1>6. QED
  BY <1>4, <1>5 DEF Init, TypeOK

LEMMA PayInvInit ==
    ASSUME NEW w0, Workers = {w0}
    PROVE  Init => PayInv(w0)
<1> SUFFICES ASSUME Init PROVE PayInv(w0)
  OBVIOUS
<1>1. TypeOK
  BY InitTyped
<1>2. QED BY <1>1 DEF Init, PayInv

LEMMA PayInvStep ==
    ASSUME NEW w0, Workers = {w0}
    PROVE  PayInv(w0) /\ [Next]_vars => PayInv(w0)'
<1> SUFFICES ASSUME PayInv(w0), [Next]_vars PROVE PayInv(w0)'
  OBVIOUS
<1>1. ASSUME NEW w \in Workers, Receive(w) PROVE PayInv(w0)'
  BY <1>1 DEF Receive, PayInv, TypeOK
<1>2. ASSUME NEW w \in Workers, Check(w) PROVE PayInv(w0)'
  <2>1. CASE tx[w] \notin transactions
    <3>1. accepted' = [accepted EXCEPT ![tx[w0]] = 1]
      BY <1>2, <2>1 DEF Check, PayInv, TypeOK
    <3>2. TypeOK'
      BY <1>2, <2>1, <3>1 DEF Check, PayInv, TypeOK
    <3>3. QED BY <1>2, <2>1, <3>1, <3>2 DEF Check, PayInv, TypeOK
  <2>5. CASE tx[w] \in transactions
    BY <1>2, <2>5 DEF Check, PayInv, TypeOK
  <2>6. QED BY <2>1, <2>5
<1>3. ASSUME NEW w \in Workers, Add(w) PROVE PayInv(w0)'
  BY <1>3 DEF Add, PayInv, TypeOK
<1>4. ASSUME NEW w \in Workers, DebitRead(w) PROVE PayInv(w0)'
  <2>1. tx[w] \in Transaction
    BY DEF PayInv, TypeOK
  <2>2. Payer(w) \in Users /\ Amount(w) \in Int
    BY <2>1, TxFields DEF Payer, Amount
  <2>3. TypeOK'
    BY <1>4, <2>2 DEF DebitRead, PayInv, TypeOK
  <2>4. QED BY <1>4, <2>3 DEF DebitRead, PayInv
<1>5. ASSUME NEW w \in Workers, DebitWrite(w) PROVE PayInv(w0)'
  <2>1. tx[w] \in Transaction
    BY DEF PayInv, TypeOK
  <2>2. Payer(w) \in Users /\ Amount(w) \in Int
    BY <2>1, TxFields DEF Payer, Amount
  <2>3. TypeOK'
    BY <1>5, <2>2 DEF DebitWrite, PayInv, TypeOK
  <2>4. QED BY <1>5, <2>3 DEF DebitWrite, PayInv
<1>6. ASSUME NEW w \in Workers, CreditRead(w) PROVE PayInv(w0)'
  <2>1. tx[w] \in Transaction
    BY DEF PayInv, TypeOK
  <2>2. Payee(w) \in Users /\ Amount(w) \in Int
    BY <2>1, TxFields DEF Payee, Amount
  <2>3. TypeOK'
    BY <1>6, <2>2 DEF CreditRead, PayInv, TypeOK
  <2>4. QED BY <1>6, <2>3 DEF CreditRead, PayInv
<1>7. ASSUME NEW w \in Workers, CreditWrite(w) PROVE PayInv(w0)'
  <2>1. tx[w] \in Transaction
    BY DEF PayInv, TypeOK
  <2>2. Payee(w) \in Users /\ Amount(w) \in Int
    BY <2>1, TxFields DEF Payee, Amount
  <2>3. TypeOK'
    BY <1>7, <2>2 DEF CreditWrite, PayInv, TypeOK
  <2>4. QED BY <1>7, <2>3 DEF CreditWrite, PayInv
<1>8. CASE UNCHANGED vars
  BY <1>8 DEF vars, PayInv, TypeOK
<1>9. QED BY <1>1, <1>2, <1>3, <1>4, <1>5, <1>6, <1>7, <1>8 DEF Next

(* Served by one thread, payment_details_page's duplicate check (line 59)  *)
(* lets each triple through at most once, and the state stays well typed. *)
THEOREM SingleThreadAppliedAtMostOnce ==
    ASSUME NEW w0, Workers = {w0}
    PROVE  Spec => [](TypeOK /\ AppliedAtMostOnce)
<1>1. Init => PayInv(w0) BY PayInvInit
<1>2. PayInv(w0) /\ [Next]_vars => PayInv(w0)' BY PayInvStep
<1>3. PayInv(w0) => TypeOK /\ AppliedAtMostOnce
  BY DEF PayInv, AppliedAtMostOnce
<1>4. QED BY <1>1, <1>2, <1>3, PTL DEF Spec


-----------------------------------------------------------------------------
(* Any number of request threads.  TypeOK bounds the history `accepted` by *)
(* MaxRequests, which is not inductive: a thread at the check may still    *)
(* raise accepted[t].  The strengthening counts those threads against the  *)
(* requests served: every pass of the check at line 59 consumes a request *)
(* that Receive counted.                                                   *)
Checking(t) == {w \in Workers : pc[w] = "check" /\ tx[w] = t}

AcceptBound == \A t \in Transaction : accepted[t] + Cardinality(Checking(t)) <= served

TInv == TypeOK /\ AcceptBound

(* Every set of request threads is finite.                                 *)
LEMMA WorkerSets ==
    ASSUME NEW S \in SUBSET Workers
    PROVE  IsFiniteSet(S) /\ Cardinality(S) \in Nat
BY FS_Subset, FS_CardinalityType

LEMMA TInvInit == Init => TInv
<1> SUFFICES ASSUME Init PROVE TInv
  OBVIOUS
<1>1. TypeOK
  BY InitTyped
<1>2. ASSUME NEW t \in Transaction PROVE Checking(t) = {}
  BY DEF Init, Checking
<1>3. QED
  BY <1>1, <1>2, FS_EmptySet DEF Init, TInv, AcceptBound

(* A step of thread w that neither enters nor leaves the check, and keeps  *)
(* tx, leaves every Checking(t) as it is.                                  *)
LEMMA CheckingKept ==
    ASSUME NEW w \in Workers, TypeOK,
           pc[w] # "check", NEW X, X # "check", pc' = [pc EXCEPT ![w] = X],
           UNCHANGED tx,
           NEW t
    PROVE  Checking(t)' = Checking(t)
BY DEF Checking, TypeOK

LEMMA TInvStep == TInv /\ [Next]_vars => TInv'
<1> SUFFICES ASSUME TInv, [Next]_vars PROVE TInv'
  OBVIOUS
<1>0. TypeOK
  BY DEF TInv
<1>1. ASSUME NEW w \in Workers, Receive(w) PROVE TInv'
  <2>1. PICK t0 \in Transaction : tx' = [tx EXCEPT ![w] = t0]
    BY <1>1 DEF Receive
  <2>2. /\ pc[w] = "idle" /\ pc' = [pc EXCEPT ![w] = "check"]
        /\ served < MaxRequests /\ served' = served + 1
        /\ UNCHANGED <<transactions, balances, tmp, accepted>>
    BY <1>1 DEF Receive
  <2>3. ASSUME NEW t \in Transaction
        PROVE  Cardinality(Checking(t)') <= Cardinality(Checking(t)) + 1
    <3>1. Checking(t)' \subseteq Checking(t) \cup {w}
      BY <1>0, <2>1, <2>2 DEF Checking, TypeOK
    <3>2. IsFiniteSet(Checking(t)) /\ Cardinality(Checking(t)) \in Nat
      BY WorkerSets DEF Checking
    <3>3. IsFiniteSet(Checking(t) \cup {w})
          /\ Cardinality(Checking(t) \cup {w}) <= Cardinality(Checking(t)) + 1
      <4>1. IsFiniteSet(Checking(t) \cup {w})
            /\ Cardinality(Checking(t) \cup {w})
               = IF w \in Checking(t) THEN Cardinality(Checking(t))
                                      ELSE Cardinality(Checking(t)) + 1
        BY <3>2, FS_AddElement
      <4>2. QED
        BY <3>2, <4>1
    <3>4. Cardinality(Checking(t)') <= Cardinality(Checking(t) \cup {w})
      BY <3>1, <3>3, FS_Subset
    <3>5. Cardinality(Checking(t)') \in Nat /\ Cardinality(Checking(t) \cup {w}) \in Nat
      BY <3>1, <3>3, FS_Subset, FS_CardinalityType
    <3>6. QED
      BY <3>2, <3>3, <3>4, <3>5
  <2>4. AcceptBound'
    <3> SUFFICES ASSUME NEW t \in Transaction
                 PROVE  accepted'[t] + Cardinality(Checking(t)') <= served'
      BY DEF AcceptBound
    <3>1. accepted[t] + Cardinality(Checking(t)) <= served
          /\ accepted[t] \in Nat /\ Cardinality(Checking(t)) \in Nat
      BY WorkerSets DEF TInv, AcceptBound, TypeOK, Checking
    <3>2. Cardinality(Checking(t)') <= Cardinality(Checking(t)) + 1
      BY <2>3
    <3>3. Cardinality(Checking(t)') \in Nat
      BY WorkerSets DEF Checking
    <3>4. accepted'[t] = accepted[t] /\ served' = served + 1 /\ served \in Nat
      BY <1>0, <2>2 DEF TypeOK
    <3>5. QED
      BY <3>1, <3>2, <3>3, <3>4
  <2>5. TypeOK'
    BY <1>0, <2>1, <2>2 DEF TypeOK
  <2>6. QED
    BY <2>4, <2>5 DEF TInv
<1>2. ASSUME NEW w \in Workers, Check(w) PROVE TInv'
  <2>0. PICK t0 \in Transaction : t0 = tx[w]
    BY <1>0 DEF TypeOK
  <2>1. t0 \in Transaction /\ pc[w] = "check" /\ w \in Checking(t0)
    BY <1>0, <1>2, <2>0 DEF Check, TypeOK, Checking
  <2>2. pc'[w] # "check" /\ \A v \in Workers \ {w} : pc'[v] = pc[v]
    BY <1>0, <1>2 DEF Check, TypeOK
  <2>3. UNCHANGED <<transactions, balances, tx, tmp, served>>
    BY <1>2 DEF Check
  <2>4. Checking(t0)' = Checking(t0) \ {w}
    BY <1>0, <2>0, <2>1, <2>2, <2>3 DEF Checking, TypeOK
  <2>5. ASSUME NEW t \in Transaction, t # t0 PROVE Checking(t)' = Checking(t)
    BY <1>0, <2>0, <2>2, <2>3, <2>5 DEF Checking, TypeOK
  <2>6. IsFiniteSet(Checking(t0)) /\ Cardinality(Checking(t0)) \in Nat
        /\ Cardinality(Checking(t0)') = Cardinality(Checking(t0)) - 1
    <3>1. IsFiniteSet(Checking(t0)) /\ Cardinality(Checking(t0)) \in Nat
      BY WorkerSets DEF Checking
    <3>2. Cardinality(Checking(t0) \ {w})
              = IF w \in Checking(t0) THEN Cardinality(Checking(t0)) - 1
                                      ELSE Cardinality(Checking(t0))
      BY <3>1, FS_RemoveElement
    <3>3. QED
      BY <2>1, <2>4, <3>1, <3>2
  <2>7. accepted'[t0] <= accepted[t0] + 1
        /\ \A t \in Transaction \ {t0} : accepted'[t] = accepted[t]
    <3>1. CASE t0 \notin transactions
      BY <1>0, <1>2, <2>0, <2>1, <3>1 DEF Check, TypeOK
    <3>2. CASE t0 \in transactions
      BY <1>0, <1>2, <2>0, <3>2 DEF Check, TypeOK
    <3>3. QED
      BY <3>1, <3>2
  <2>8. AcceptBound'
    <3> SUFFICES ASSUME NEW t \in Transaction
                 PROVE  accepted'[t] + Cardinality(Checking(t)') <= served'
      BY DEF AcceptBound
    <3>1. accepted[t] + Cardinality(Checking(t)) <= served
          /\ accepted[t] \in Nat /\ Cardinality(Checking(t)) \in Nat
      BY WorkerSets DEF TInv, AcceptBound, TypeOK, Checking
    <3>2. CASE t = t0
      <4>1. Cardinality(Checking(t)') = Cardinality(Checking(t0)')
            /\ Cardinality(Checking(t)) = Cardinality(Checking(t0))
            /\ accepted'[t] = accepted'[t0] /\ accepted[t] = accepted[t0]
        BY <3>2
      <4>2. served' = served
        BY <2>3
      <4>3. accepted'[t0] \in Nat
        <5>1. accepted[t0] \in Nat
          BY <1>0, <2>1 DEF TypeOK
        <5>2. CASE t0 \notin transactions
          <6>1. accepted' = [accepted EXCEPT ![t0] = accepted[t0] + 1]
            BY <1>2, <2>0, <5>2 DEF Check
          <6>2. QED
            BY <1>0, <5>1, <6>1, <2>1 DEF TypeOK
        <5>3. CASE t0 \in transactions
          BY <1>2, <2>0, <5>1, <5>3 DEF Check
        <5>4. QED
          BY <5>2, <5>3
      <4>4. served \in Nat
        BY <1>0 DEF TypeOK
      <4>5. QED
        BY <2>6, <2>7, <3>1, <4>1, <4>2, <4>3, <4>4
    <3>3. CASE t # t0
      <4>1. Checking(t)' = Checking(t) /\ accepted'[t] = accepted[t]
        BY <2>5, <2>7, <3>3
      <4>2. Cardinality(Checking(t)') = Cardinality(Checking(t))
        BY <4>1
      <4>3. served' = served
        BY <2>3
      <4>4. QED
        BY <3>1, <4>1, <4>2, <4>3
    <3>4. QED
      BY <3>2, <3>3
  <2>9. accepted' \in [Transaction -> 0..MaxRequests]
    <3>1. accepted' \in [Transaction -> Nat]
      BY <1>0, <1>2, <2>0 DEF Check, TypeOK
    <3>2. ASSUME NEW t \in Transaction PROVE accepted'[t] <= MaxRequests
      <4>1. Cardinality(Checking(t)') \in Nat
        BY WorkerSets DEF Checking
      <4>2. QED
        BY <1>0, <2>3, <2>8, <3>1, <4>1 DEF AcceptBound, TypeOK
    <3>3. QED
      BY <3>1, <3>2
  <2>10. TypeOK'
    BY <1>0, <1>2, <2>3, <2>9 DEF Check, TypeOK
  <2>11. QED
    BY <2>8, <2>10 DEF TInv
<1>3. ASSUME NEW w \in Workers, Add(w) PROVE TInv'
  <2>1. \A t : Checking(t)' = Checking(t)
    BY <1>0, <1>3, CheckingKept DEF Add
  <2>2. TypeOK'
    BY <1>0, <1>3 DEF Add, TypeOK
  <2>3. QED
    BY <1>3, <2>1, <2>2 DEF Add, TInv, AcceptBound
<1>4. ASSUME NEW w \in Workers, DebitRead(w) PROVE TInv'
  <2>1. \A t : Checking(t)' = Checking(t)
    BY <1>0, <1>4, CheckingKept DEF DebitRead
  <2>2. Payer(w) \in Users /\ Amount(w) \in Int
    BY <1>0, TxFields DEF Payer, Amount, TypeOK
  <2>3. TypeOK'
    BY <1>0, <1>4, <2>2 DEF DebitRead, TypeOK
  <2>4. QED
    BY <1>4, <2>1, <2>3 DEF DebitRead, TInv, AcceptBound
<1>5. ASSUME NEW w \in Workers, DebitWrite(w) PROVE TInv'
  <2>1. \A t : Checking(t)' = Checking(t)
    BY <1>0, <1>5, CheckingKept DEF DebitWrite
  <2>2. Payer(w) \in Users /\ Amount(w) \in Int
    BY <1>0, TxFields DEF Payer, Amount, TypeOK
  <2>3. TypeOK'
    BY <1>0, <1>5, <2>2 DEF DebitWrite, TypeOK
  <2>4. QED
    BY <1>5, <2>1, <2>3 DEF DebitWrite, TInv, AcceptBound
<1>6. ASSUME NEW w \in Workers, CreditRead(w) PROVE TInv'
  <2>1. \A t : Checking(t)' = Checking(t)
    BY <1>0, <1>6, CheckingKept DEF CreditRead
  <2>2. Payee(w) \in Users /\ Amount(w) \in Int
    BY <1>0, TxFields DEF Payee, Amount, TypeOK
  <2>3. TypeOK'
    BY <1>0, <1>6, <2>2 DEF CreditRead, TypeOK
  <2>4. QED
    BY <1>6, <2>1, <2>3 DEF CreditRead, TInv, AcceptBound
<1>7. ASSUME NEW w \in Workers, CreditWrite(w) PROVE TInv'
  <2>1. \A t : Checking(t)' = Checking(t)
    BY <1>0, <1>7, CheckingKept DEF CreditWrite
  <2>2. Payee(w) \in Users /\ Amount(w) \in Int
    BY <1>0, TxFields DEF Payee, Amount, TypeOK
  <2>3. TypeOK'
    BY <1>0, <1>7, <2>2 DEF CreditWrite, TypeOK
  <2>4. QED
    BY <1>7, <2>1, <2>3 DEF CreditWrite, TInv, AcceptBound
<1>8. CASE UNCHANGED vars
  BY <1>8 DEF vars, TInv, TypeOK, AcceptBound, Checking
<1>9. QED
  BY <1>1, <1>2, <1>3, <1>4, <1>5, <1>6, <1>7, <1>8 DEF Next

(* With any number of request threads, the server's state stays well      *)
(* typed: in particular no triple is let through the check of line 59     *)
(* more often than payment requests were received (lines 53-58).          *)
THEOREM TypeCorrect == Spec => []TypeOK
<1>1. Spec => []TInv
  BY TInvInit, TInvStep, PTL DEF Spec
<1>2. QED
  BY <1>1, PTL DEF TInv


(* Once transactions.add (line 60) has recorded a triple, it stays         *)
(* recorded and the check of line 59 never lets it through again, with any *)
(* number of request threads: the duplicate payment of the multi-threaded  *)
(* server can only happen while the first request is between its check    *)
(* and its add, never after.                                               *)
RecordedStaysRejected ==
    \A t \in transactions : t \in transactions' /\ accepted'[t] = accepted[t]

(* Every step of the server keeps a recorded triple recorded and its count *)
(* of passed checks unchanged.                                             *)
LEMMA RecordedStep == TypeOK /\ [Next]_vars => RecordedStaysRejected
<1> SUFFICES ASSUME TypeOK, [Next]_vars, NEW t \in transactions
             PROVE  t \in transactions' /\ accepted'[t] = accepted[t]
  BY DEF RecordedStaysRejected
<1>1. CASE \E w \in Workers : Check(w)
  <2>1. PICK w \in Workers : Check(w)
    BY <1>1
  <2>2. CASE tx[w] \notin transactions
    <3>1. tx[w] # t
      BY <2>2
    <3>2. t \in Transaction /\ tx[w] \in Transaction
      BY DEF TypeOK
    <3>3. QED
      BY <2>1, <2>2, <3>1, <3>2 DEF Check, TypeOK
  <2>3. CASE tx[w] \in transactions
    BY <2>1, <2>3 DEF Check
  <2>4. QED
    BY <2>2, <2>3
<1>2. CASE \E w \in Workers : Add(w)
  BY <1>2 DEF Add
<1>3. CASE ~\E w \in Workers : Check(w) \/ Add(w)
  BY <1>3 DEF Next, vars, Receive, DebitRead, DebitWrite, CreditRead, CreditWrite
<1>4. QED
  BY <1>1, <1>2, <1>3

(* With any number of request threads, a triple recorded by line 60 stays  *)
(* recorded and is never let through the duplicate check of line 59 again. *)
THEOREM RecordedNeverAcceptedAgain == Spec => [][RecordedStaysRejected]_vars
<1>1. Spec => []TypeOK
  BY TypeCorrect
<1>2. QED
  BY <1>1, RecordedStep, PTL DEF Spec


-----------------------------------------------------------------------------
(* One request thread implements the atomic ledger.  The mapping           *)
(* SettledBy(w0) completes the payment the thread has recorded; it needs   *)
(* to know that the balance a thread has read is still the current one when *)
(* it writes it back, which holds because no other thread writes.          *)
LedgerInv(w0) ==
    /\ PayInv(w0)
    /\ pc[w0] = "debit_write" => tmp[w0] = balances[Payer(w0)]
    /\ pc[w0] = "credit_write" => tmp[w0] = balances[Payee(w0)]

LEMMA LedgerInvInit ==
    ASSUME NEW w0, Workers = {w0}
    PROVE  Init => LedgerInv(w0)
BY PayInvInit DEF Init, LedgerInv

LEMMA LedgerInvStep ==
    ASSUME NEW w0, Workers = {w0}
    PROVE  LedgerInv(w0) /\ [Next]_vars => LedgerInv(w0)'
<1> SUFFICES ASSUME LedgerInv(w0), [Next]_vars PROVE LedgerInv(w0)'
  OBVIOUS
<1>1. PayInv(w0)'
  BY PayInvStep DEF LedgerInv
<1>2. /\ tx[w0] \in Transaction /\ balances \in [Users -> Int]
      /\ DOMAIN pc = Workers /\ DOMAIN tmp = Workers /\ w0 \in Workers
  BY DEF LedgerInv, PayInv, TypeOK
<1>3. Payer(w0) \in Users /\ Payee(w0) \in Users /\ Amount(w0) \in Int
  BY <1>2, TxFields DEF Payer, Payee, Amount
<1>4. CASE DebitRead(w0)
  <2>1. pc'[w0] = "debit_write" /\ tmp'[w0] = balances[Payer(w0)]
        /\ UNCHANGED <<balances, tx>>
    BY <1>2, <1>4 DEF DebitRead
  <2>2. QED BY <1>1, <2>1 DEF LedgerInv, Payer
<1>5. CASE CreditRead(w0)
  <2>1. pc'[w0] = "credit_write" /\ tmp'[w0] = balances[Payee(w0)]
        /\ UNCHANGED <<balances, tx>>
    BY <1>2, <1>5 DEF CreditRead
  <2>2. QED BY <1>1, <2>1 DEF LedgerInv, Payee
<1>6. CASE Receive(w0) \/ Check(w0) \/ Add(w0)
  <2>1. pc'[w0] \in {"check", "add", "idle", "debit_read"}
    BY <1>2, <1>6 DEF Receive, Check, Add
  <2>2. QED BY <1>1, <2>1 DEF LedgerInv
<1>7. CASE DebitWrite(w0)
  <2>1. pc'[w0] = "credit_read"
    BY <1>2, <1>7 DEF DebitWrite
  <2>2. QED BY <1>1, <2>1 DEF LedgerInv
<1>8. CASE CreditWrite(w0)
  <2>1. pc'[w0] = "idle"
    BY <1>2, <1>8 DEF CreditWrite
  <2>2. QED BY <1>1, <2>1 DEF LedgerInv
<1>9. CASE UNCHANGED vars
  BY <1>1, <1>9 DEF vars, LedgerInv, Payer, Payee
<1>10. QED
  BY <1>4, <1>5, <1>6, <1>7, <1>8, <1>9 DEF Next


(* Under the mapping, the thread's Add (line 60) is the ledger's Pay of its *)
(* triple, and every other step, the duplicate page included, leaves the   *)
(* recorded triples and the settled balances as they were.                 *)
LEMMA LedgerStep ==
    ASSUME NEW w0, Workers = {w0}
    PROVE  LedgerInv(w0) /\ [Next]_vars => [Ledger!Next]_Ledger!vars
<1> SUFFICES ASSUME LedgerInv(w0), [Next]_vars
             PROVE  [Ledger!Next]_Ledger!vars
  OBVIOUS
<1>0. ServerThread = w0
  BY DEF ServerThread
<1>1. /\ tx[w0] \in Transaction /\ balances \in [Users -> Int]
      /\ DOMAIN pc = Workers /\ DOMAIN tmp = Workers /\ DOMAIN tx = Workers
  BY DEF LedgerInv, PayInv, TypeOK
<1>2. Payer(w0) \in Users /\ Payee(w0) \in Users /\ Amount(w0) \in Int
  BY <1>1, TxFields DEF Payer, Payee, Amount
<1> DEFINE Paid == [[balances EXCEPT ![Payer(w0)] = @ - Amount(w0)]
                      EXCEPT ![Payee(w0)] = @ + Amount(w0)]
           Credited == [balances EXCEPT ![Payee(w0)] = @ + Amount(w0)]
<1>3. /\ pc[w0] \in {"debit_read", "debit_write"} => SettledBy(w0) = Paid
      /\ pc[w0] \in {"credit_read", "credit_write"} => SettledBy(w0) = Credited
      /\ pc[w0] \in {"idle", "check", "add"} => SettledBy(w0) = balances
  BY DEF SettledBy
<1>4. CASE Receive(w0) \/ Check(w0)
  <2>1. /\ pc[w0] \in {"idle", "check"} /\ pc'[w0] \in {"check", "add", "idle"}
        /\ UNCHANGED <<transactions, balances>>
    BY <1>1, <1>4 DEF Receive, Check
  <2>2. SettledBy(w0)' = balances'
    BY <2>1 DEF SettledBy
  <2>3. QED BY <1>0, <1>3, <2>1, <2>2 DEF Ledger!vars
<1>5. CASE Add(w0)
  <2>1. /\ pc[w0] = "add" /\ pc'[w0] = "debit_read"
        /\ transactions' = transactions \cup {tx[w0]}
        /\ UNCHANGED <<balances, tx>>
    BY <1>1, <1>5 DEF Add
  <2>2. tx[w0] \notin transactions
    BY <2>1 DEF LedgerInv, PayInv
  <2>3. SettledBy(w0)' = Paid
    BY <2>1 DEF SettledBy, Payer, Payee, Amount
  <2>4. SettledBy(w0) = balances
    BY <1>3, <2>1
  <2>5. Ledger!Pay(tx[w0])
    BY <1>0, <2>1, <2>2, <2>3, <2>4 DEF Ledger!Pay, Payer, Payee, Amount
  <2>6. tx[w0] \in Ledger!Transaction
    BY <1>1 DEF Ledger!Transaction, Transaction
  <2>7. QED BY <2>5, <2>6 DEF Ledger!Next
<1>6. CASE DebitRead(w0) \/ CreditRead(w0)
  <2>1. /\ pc[w0] \in {"debit_read", "credit_read"}
        /\ pc'[w0] = IF pc[w0] = "debit_read" THEN "debit_write" ELSE "credit_write"
        /\ UNCHANGED <<transactions, balances, tx>>
    BY <1>1, <1>6 DEF DebitRead, CreditRead
  <2>2. SettledBy(w0)' = SettledBy(w0)
    BY <2>1 DEF SettledBy, Payer, Payee, Amount
  <2>3. QED BY <1>0, <2>1, <2>2 DEF Ledger!vars
<1>7. CASE DebitWrite(w0)
  <2>1. /\ pc[w0] = "debit_write" /\ pc'[w0] = "credit_read"
        /\ balances' = [balances EXCEPT ![Payer(w0)] = tmp[w0] - Amount(w0)]
        /\ UNCHANGED <<transactions, tx>>
    BY <1>1, <1>7 DEF DebitWrite
  <2>2. tmp[w0] = balances[Payer(w0)]
    BY <2>1 DEF LedgerInv
  <2>3. SettledBy(w0)' = [balances' EXCEPT ![Payee(w0)] = @ + Amount(w0)]
    BY <2>1 DEF SettledBy, Payee, Amount
  <2>4. [balances' EXCEPT ![Payee(w0)] = @ + Amount(w0)] = Paid
    <3> DEFINE L == [balances' EXCEPT ![Payee(w0)] = @ + Amount(w0)]
    <3>1. balances' \in [Users -> Int]
      BY <1>1, <1>2, <2>1, <2>2
    <3>2. L \in [Users -> Int] /\ Paid \in [Users -> Int]
      BY <1>1, <1>2, <3>1
    <3>3. \A u \in Users : L[u] = Paid[u]
      <4> SUFFICES ASSUME NEW u \in Users PROVE L[u] = Paid[u]
        OBVIOUS
      <4>1. balances'[u] = IF u = Payer(w0) THEN balances[u] - Amount(w0)
                                          ELSE balances[u]
        BY <1>1, <1>2, <2>1, <2>2
      <4>2. L[u] = IF u = Payee(w0) THEN balances'[u] + Amount(w0)
                                   ELSE balances'[u]
        BY <1>2, <3>1
      <4>3. Paid[u] = IF u = Payee(w0)
                      THEN (IF u = Payer(w0) THEN balances[u] - Amount(w0)
                                             ELSE balances[u]) + Amount(w0)
                      ELSE IF u = Payer(w0) THEN balances[u] - Amount(w0)
                                            ELSE balances[u]
        <5> DEFINE M == [balances EXCEPT ![Payer(w0)] = @ - Amount(w0)]
        <5>1. Paid = [M EXCEPT ![Payee(w0)] = @ + Amount(w0)]
          OBVIOUS
        <5>2. M \in [Users -> Int]
          BY <1>1, <1>2
        <5>3. M[u] = IF u = Payer(w0) THEN balances[u] - Amount(w0) ELSE balances[u]
          BY <1>1, <1>2
        <5>4. QED BY <1>2, <5>1, <5>2, <5>3
      <4>4. QED BY <4>1, <4>2, <4>3
    <3>4. QED BY <3>2, <3>3, Zenon
  <2>5. QED BY <1>0, <1>3, <2>1, <2>3, <2>4 DEF Ledger!vars
<1>8. CASE CreditWrite(w0)
  <2>1. /\ pc[w0] = "credit_write" /\ pc'[w0] = "idle"
        /\ balances' = [balances EXCEPT ![Payee(w0)] = tmp[w0] + Amount(w0)]
        /\ UNCHANGED <<transactions, tx>>
    BY <1>1, <1>8 DEF CreditWrite
  <2>2. tmp[w0] = balances[Payee(w0)]
    BY <2>1 DEF LedgerInv
  <2>3. SettledBy(w0)' = balances'
    BY <2>1 DEF SettledBy
  <2>4. QED BY <1>0, <1>3, <2>1, <2>2, <2>3 DEF Ledger!vars
<1>9. CASE UNCHANGED vars
  BY <1>0, <1>9 DEF vars, Ledger!vars, SettledBy, Payer, Payee, Amount
<1>10. QED
  BY <1>4, <1>5, <1>6, <1>7, <1>8, <1>9 DEF Next

(* Served by one thread, payment_details_page implements the atomic       *)
(* ledger: the check, the add and the two read-modify-writes of lines     *)
(* 59-62 together pay a new triple once, and a duplicate changes nothing. *)
THEOREM SingleThreadImplementsLedger ==
    ASSUME NEW w0, Workers = {w0}
    PROVE  Spec => ImplementsPaymentLedger
<1>1. Init => LedgerInv(w0)
  BY LedgerInvInit
<1>2. LedgerInv(w0) /\ [Next]_vars => LedgerInv(w0)'
  BY LedgerInvStep
<1>3. LedgerInv(w0) /\ [Next]_vars => [Ledger!Next]_Ledger!vars
  BY LedgerStep
<1>4. Init => Ledger!Init
  <2>1. ASSUME Init PROVE pc[ServerThread] = "idle"
    BY <2>1 DEF Init, ServerThread
  <2>2. QED BY <2>1 DEF Init, Ledger!Init, SettledBy
<1>5. QED
  BY <1>1, <1>2, <1>3, <1>4, PTL DEF Spec, ImplementsPaymentLedger, Ledger!Spec

=============================================================================

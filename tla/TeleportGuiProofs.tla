-------------------------- MODULE TeleportGuiProofs --------------------------
(***************************************************************************)
(* Proof that the GUI backend, served by a single request thread, shows    *)
(* the daemon's lists, balances and latest address whenever no request is *)
(* in progress.                                                            *)
(***************************************************************************)
EXTENDS TeleportGui, TLAPS

PcValues == {"idle", "na_write", "start_write", "stop_write", "u_read",
             "u_write", "u_first", "fv_rpc", "fv_write"}

(* What thread w's position in its handler says about the cached data: the *)
(* data agrees with the daemon except on the field w is between reading    *)
(* and assigning, and there w holds the daemon's value.                    *)
ThreadInv(w) ==
    /\ pc[w] \in {"idle", "u_first", "fv_rpc", "fv_write"} => shown = ledger
    /\ pc[w] = "u_write" => tmp[w] = ledger
    /\ pc[w] \notin {"na_write", "fv_write"} => teleport_address = issued
    /\ pc[w] \in {"na_write", "fv_write"} => tmp[w] = issued

GuiInv ==
    /\ ledger \in Nat
    /\ issued \in Nat
    /\ pc \in [Workers -> PcValues]
    /\ tmp \in [Workers -> Nat]
    /\ \A w \in Workers : ThreadInv(w)

(* Setting one thread's position keeps pc typed.                         *)
LEMMA PcExcept ==
    ASSUME NEW f \in [Workers -> PcValues], NEW w \in Workers, NEW v \in PcValues
    PROVE  [f EXCEPT ![w] = v] \in [Workers -> PcValues]
OBVIOUS

(* Setting one thread's RPC result to a natural keeps tmp typed.          *)
LEMMA TmpExcept ==
    ASSUME NEW f \in [Workers -> Nat], NEW w \in Workers, NEW v \in Nat
    PROVE  [f EXCEPT ![w] = v] \in [Workers -> Nat]
OBVIOUS

LEMMA GuiInvInit == Init => GuiInv
<1> SUFFICES ASSUME Init PROVE GuiInv
  OBVIOUS
<1>0. ledger \in Nat /\ issued \in Nat
  BY DEF Init
<1>1. pc \in [Workers -> PcValues]
  BY DEF Init, PcValues
<1>2. tmp \in [Workers -> Nat]
  BY DEF Init
<1>3. \A w \in Workers : ThreadInv(w)
  BY DEF Init, ThreadInv
<1>4. QED BY <1>0, <1>1, <1>2, <1>3 DEF GuiInv

LEMMA GuiInvStep ==
    ASSUME NEW w0, Workers = {w0}, GuiInv, [Next]_vars
    PROVE  GuiInv'
<1>1. ASSUME NEW w \in Workers, ShowMainPage(w) PROVE GuiInv'
  <2>0. ledger' \in Nat /\ issued' \in Nat
    BY <1>1 DEF ShowMainPage, GuiInv, daemon, gui
  <2>1. w = w0 /\ pc' = [pc EXCEPT ![w] = "u_read"]
    BY <1>1 DEF ShowMainPage, Start
  <2>2. pc' \in [Workers -> PcValues]
    BY <2>1, PcExcept DEF GuiInv, PcValues
  <2>3. tmp' \in [Workers -> Nat]
    BY <1>1 DEF ShowMainPage, GuiInv, daemon, gui
  <2>4. ThreadInv(w0)'
    BY <1>1, <2>1 DEF ShowMainPage, Start, GuiInv, ThreadInv, daemon, gui
  <2>5. QED BY <2>0, <2>2, <2>3, <2>4 DEF GuiInv
<1>2. ASSUME NEW w \in Workers, NewAddressRpc(w) PROVE GuiInv'
  <2>0. ledger' \in Nat /\ issued' \in Nat
    BY <1>2 DEF NewAddressRpc, GuiInv, daemon, gui
  <2>1. w = w0 /\ pc' = [pc EXCEPT ![w] = "na_write"]
    BY <1>2 DEF NewAddressRpc, Start
  <2>2. pc' \in [Workers -> PcValues]
    BY <2>1, PcExcept DEF GuiInv, PcValues
  <2>3. tmp' \in [Workers -> Nat]
    BY <1>2, TmpExcept DEF NewAddressRpc, GuiInv
  <2>4. ThreadInv(w0)'
    BY <1>2, <2>1 DEF NewAddressRpc, Start, GuiInv, ThreadInv, daemon, gui
  <2>5. QED BY <2>0, <2>2, <2>3, <2>4 DEF GuiInv
<1>3. ASSUME NEW w \in Workers, NewAddressWrite(w) PROVE GuiInv'
  <2>0. ledger' \in Nat /\ issued' \in Nat
    BY <1>3 DEF NewAddressWrite, GuiInv, daemon, gui
  <2>1. w = w0 /\ pc' = [pc EXCEPT ![w] = "u_read"]
    BY <1>3 DEF NewAddressWrite, Goto
  <2>2. pc' \in [Workers -> PcValues]
    BY <2>1, PcExcept DEF GuiInv, PcValues
  <2>3. tmp' \in [Workers -> Nat]
    BY <1>3 DEF NewAddressWrite, GuiInv, daemon, gui
  <2>4. ThreadInv(w0)'
    BY <1>3, <2>1 DEF NewAddressWrite, Goto, GuiInv, ThreadInv, daemon, gui
  <2>5. QED BY <2>0, <2>2, <2>3, <2>4 DEF GuiInv
<1>4. ASSUME NEW w \in Workers, StartMiningRpc(w) PROVE GuiInv'
  <2>0. ledger' \in Nat /\ issued' \in Nat
    BY <1>4 DEF StartMiningRpc, GuiInv, daemon, gui
  <2>1. w = w0 /\ pc' = [pc EXCEPT ![w] = "start_write"]
    BY <1>4 DEF StartMiningRpc, Start
  <2>2. pc' \in [Workers -> PcValues]
    BY <2>1, PcExcept DEF GuiInv, PcValues
  <2>3. tmp' \in [Workers -> Nat]
    BY <1>4 DEF StartMiningRpc, GuiInv, daemon, gui
  <2>4. ThreadInv(w0)'
    BY <1>4, <2>1 DEF StartMiningRpc, Start, GuiInv, ThreadInv, daemon, gui
  <2>5. QED BY <2>0, <2>2, <2>3, <2>4 DEF GuiInv
<1>5. ASSUME NEW w \in Workers, StartMiningWrite(w) PROVE GuiInv'
  <2>0. ledger' \in Nat /\ issued' \in Nat
    BY <1>5 DEF StartMiningWrite, GuiInv, daemon, gui
  <2>1. w = w0 /\ pc' = [pc EXCEPT ![w] = "u_read"]
    BY <1>5 DEF StartMiningWrite, Goto
  <2>2. pc' \in [Workers -> PcValues]
    BY <2>1, PcExcept DEF GuiInv, PcValues
  <2>3. tmp' \in [Workers -> Nat]
    BY <1>5 DEF StartMiningWrite, GuiInv, daemon, gui
  <2>4. ThreadInv(w0)'
    BY <1>5, <2>1 DEF StartMiningWrite, Goto, GuiInv, ThreadInv, daemon, gui
  <2>5. QED BY <2>0, <2>2, <2>3, <2>4 DEF GuiInv
<1>6. ASSUME NEW w \in Workers, StopMiningRpc(w) PROVE GuiInv'
  <2>0. ledger' \in Nat /\ issued' \in Nat
    BY <1>6 DEF StopMiningRpc, GuiInv, daemon, gui
  <2>1. w = w0 /\ pc' = [pc EXCEPT ![w] = "stop_write"]
    BY <1>6 DEF StopMiningRpc, Start
  <2>2. pc' \in [Workers -> PcValues]
    BY <2>1, PcExcept DEF GuiInv, PcValues
  <2>3. tmp' \in [Workers -> Nat]
    BY <1>6 DEF StopMiningRpc, GuiInv, daemon, gui
  <2>4. ThreadInv(w0)'
    BY <1>6, <2>1 DEF StopMiningRpc, Start, GuiInv, ThreadInv, daemon, gui
  <2>5. QED BY <2>0, <2>2, <2>3, <2>4 DEF GuiInv
<1>7. ASSUME NEW w \in Workers, StopMiningWrite(w) PROVE GuiInv'
  <2>0. ledger' \in Nat /\ issued' \in Nat
    BY <1>7 DEF StopMiningWrite, GuiInv, daemon, gui
  <2>1. w = w0 /\ pc' = [pc EXCEPT ![w] = "u_read"]
    BY <1>7 DEF StopMiningWrite, Goto
  <2>2. pc' \in [Workers -> PcValues]
    BY <2>1, PcExcept DEF GuiInv, PcValues
  <2>3. tmp' \in [Workers -> Nat]
    BY <1>7 DEF StopMiningWrite, GuiInv, daemon, gui
  <2>4. ThreadInv(w0)'
    BY <1>7, <2>1 DEF StopMiningWrite, Goto, GuiInv, ThreadInv, daemon, gui
  <2>5. QED BY <2>0, <2>2, <2>3, <2>4 DEF GuiInv
<1>8. ASSUME NEW w \in Workers, ChangeLedger(w) PROVE GuiInv'
  <2>0. ledger' \in Nat /\ issued' \in Nat
    BY <1>8 DEF ChangeLedger, GuiInv, daemon, gui
  <2>1. w = w0 /\ pc' = [pc EXCEPT ![w] = "u_read"]
    BY <1>8 DEF ChangeLedger, Start
  <2>2. pc' \in [Workers -> PcValues]
    BY <2>1, PcExcept DEF GuiInv, PcValues
  <2>3. tmp' \in [Workers -> Nat]
    BY <1>8 DEF ChangeLedger, GuiInv, daemon, gui
  <2>4. ThreadInv(w0)'
    BY <1>8, <2>1 DEF ChangeLedger, Start, GuiInv, ThreadInv, daemon, gui
  <2>5. QED BY <2>0, <2>2, <2>3, <2>4 DEF GuiInv
<1>9. ASSUME NEW w \in Workers, UpdateRead(w) PROVE GuiInv'
  <2>0. ledger' \in Nat /\ issued' \in Nat
    BY <1>9 DEF UpdateRead, GuiInv, daemon, gui
  <2>1. w = w0 /\ pc' = [pc EXCEPT ![w] = "u_write"]
    BY <1>9 DEF UpdateRead, Goto
  <2>2. pc' \in [Workers -> PcValues]
    BY <2>1, PcExcept DEF GuiInv, PcValues
  <2>3. tmp' \in [Workers -> Nat]
    BY <1>9, TmpExcept DEF UpdateRead, GuiInv
  <2>4. ThreadInv(w0)'
    BY <1>9, <2>1 DEF UpdateRead, Goto, GuiInv, ThreadInv, daemon, gui
  <2>5. QED BY <2>0, <2>2, <2>3, <2>4 DEF GuiInv
<1>10. ASSUME NEW w \in Workers, UpdateWrite(w) PROVE GuiInv'
  <2>0. ledger' \in Nat /\ issued' \in Nat
    BY <1>10 DEF UpdateWrite, GuiInv, daemon, gui
  <2>1. w = w0 /\ pc' = [pc EXCEPT ![w] = "u_first"]
    BY <1>10 DEF UpdateWrite, Goto
  <2>2. pc' \in [Workers -> PcValues]
    BY <2>1, PcExcept DEF GuiInv, PcValues
  <2>3. tmp' \in [Workers -> Nat]
    BY <1>10 DEF UpdateWrite, GuiInv, daemon, gui
  <2>4. ThreadInv(w0)'
    BY <1>10, <2>1 DEF UpdateWrite, Goto, GuiInv, ThreadInv, daemon, gui
  <2>5. QED BY <2>0, <2>2, <2>3, <2>4 DEF GuiInv
<1>11. ASSUME NEW w \in Workers, FirstViewCheck(w) PROVE GuiInv'
  <2>0. ledger' \in Nat /\ issued' \in Nat
    BY <1>11 DEF FirstViewCheck, GuiInv, daemon, gui
  <2>1. w = w0 /\ pc' = [pc EXCEPT ![w] = IF first_view THEN "fv_rpc" ELSE "idle"]
    BY <1>11 DEF FirstViewCheck, Goto
  <2>2. pc' \in [Workers -> PcValues]
    BY <2>1, PcExcept DEF GuiInv, PcValues
  <2>3. tmp' \in [Workers -> Nat]
    BY <1>11 DEF FirstViewCheck, GuiInv, daemon, gui
  <2>4. ThreadInv(w0)'
    BY <1>11, <2>1 DEF FirstViewCheck, Goto, GuiInv, ThreadInv, daemon, gui
  <2>5. QED BY <2>0, <2>2, <2>3, <2>4 DEF GuiInv
<1>12. ASSUME NEW w \in Workers, FirstViewRpc(w) PROVE GuiInv'
  <2>0. ledger' \in Nat /\ issued' \in Nat
    BY <1>12 DEF FirstViewRpc, GuiInv, daemon, gui
  <2>1. w = w0 /\ pc' = [pc EXCEPT ![w] = "fv_write"]
    BY <1>12 DEF FirstViewRpc, Goto
  <2>2. pc' \in [Workers -> PcValues]
    BY <2>1, PcExcept DEF GuiInv, PcValues
  <2>3. tmp' \in [Workers -> Nat]
    BY <1>12, TmpExcept DEF FirstViewRpc, GuiInv
  <2>4. ThreadInv(w0)'
    BY <1>12, <2>1 DEF FirstViewRpc, Goto, GuiInv, ThreadInv, daemon, gui
  <2>5. QED BY <2>0, <2>2, <2>3, <2>4 DEF GuiInv
<1>13. ASSUME NEW w \in Workers, FirstViewWrite(w) PROVE GuiInv'
  <2>0. ledger' \in Nat /\ issued' \in Nat
    BY <1>13 DEF FirstViewWrite, GuiInv, daemon, gui
  <2>1. w = w0 /\ pc' = [pc EXCEPT ![w] = "idle"]
    BY <1>13 DEF FirstViewWrite, Goto
  <2>2. pc' \in [Workers -> PcValues]
    BY <2>1, PcExcept DEF GuiInv, PcValues
  <2>3. tmp' \in [Workers -> Nat]
    BY <1>13 DEF FirstViewWrite, GuiInv, daemon, gui
  <2>4. ThreadInv(w0)'
    BY <1>13, <2>1 DEF FirstViewWrite, Goto, GuiInv, ThreadInv, daemon, gui
  <2>5. QED BY <2>0, <2>2, <2>3, <2>4 DEF GuiInv
<1>14. CASE UNCHANGED vars
  BY <1>14 DEF GuiInv, ThreadInv, vars
<1>15. QED BY <1>1, <1>2, <1>3, <1>4, <1>5, <1>6, <1>7, <1>8, <1>9, <1>10, <1>11, <1>12, <1>13, <1>14 DEF Next

(* Served by one thread (a Flask server run without threading), the pages *)
(* show the daemon's current lists and balances and the last address it    *)
(* issued whenever no request is in progress: every daemon-changing        *)
(* handler ends with update_data (lines 84, 98, 105, 119), and the first   *)
(* view (lines 26-28) and new_teleport_address (line 43) store the address *)
(* they were given before returning.                                       *)
THEOREM SingleThreadShowsDaemon ==
    ASSUME NEW w0, Workers = {w0}
    PROVE  Spec => [](LedgerShownWhenIdle /\ LatestAddressShownWhenIdle)
<1>1. Init => GuiInv BY GuiInvInit
<1>2. GuiInv /\ [Next]_vars => GuiInv' BY GuiInvStep
<1>3. GuiInv => LedgerShownWhenIdle /\ LatestAddressShownWhenIdle
  BY DEF GuiInv, ThreadInv, LedgerShownWhenIdle, LatestAddressShownWhenIdle,
         AllIdle
<1>4. QED BY <1>1, <1>2, <1>3, PTL DEF Spec

(* With one request thread, the teleport address shown is the last one the *)
(* daemon issued whenever no request is in progress (lines 26-28, 43).    *)
THEOREM SingleThreadShowsLatestAddress ==
    ASSUME NEW w0, Workers = {w0}
    PROVE  Spec => []LatestAddressShownWhenIdle
<1>1. Spec => [](LedgerShownWhenIdle /\ LatestAddressShownWhenIdle)
  BY SingleThreadShowsDaemon
<1>2. QED BY <1>1, PTL

=============================================================================

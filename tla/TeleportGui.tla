----------------------------- MODULE TeleportGui -----------------------------
(***************************************************************************)
(* The GUI backend of src/webapp/backend/gui/teleport_gui.py.              *)
(*                                                                         *)
(* The module-level dict `data` caches what the teleport daemon reports;   *)
(* every page calls update_data, which copies the daemon's info, currency  *)
(* list, deposit and withdrawal lists into it and, on the first view only, *)
(* asks the daemon for a new address.  Some handlers first change the      *)
(* daemon (a deposit request, transfer, withdrawal or payment, a new       *)
(* address, starting or stopping mining) and then refresh.  The Flask      *)
(* development server (line 125; Flask is not pinned in setup.py, and it   *)
(* is threaded by default since 1.0) runs each request on its own thread;  *)
(* a thread can lose the GIL during every JSON-RPC call, between the call  *)
(* and the assignment of its result.                                       *)
(*                                                                         *)
(* The daemon is not in this repository.  Its address lists, info and     *)
(* balances are abstracted to `ledger`, the number of changes made to      *)
(* them; its mining state to `mining_d`; getnewaddress to a counter.       *)
(* update_data's four RPC-and-assign pairs (lines 20-25) are one read of   *)
(* `ledger` and one write of the copy `shown`.                             *)
(***************************************************************************)
EXTENDS Naturals

CONSTANTS
    Workers,       \* the server's request threads
    MaxRequests    \* bound on the number of requests served

ASSUME GuiWorkersAssumption == Workers # {}
ASSUME GuiMaxRequestsAssumption == MaxRequests \in Nat

VARIABLES
    ledger,            \* daemon: number of changes to its lists and balances
    mining_d,          \* daemon: whether it mines
    issued,            \* daemon: addresses handed out by getnewaddress
    shown,             \* data: the ledger version of info and the address lists
    teleport_address,  \* data['teleport_address']: which issued address (0 = "")
    first_view,        \* data['first_view']
    mining,            \* data['mining']
    pc,                \* pc[w]: where thread w is
    tmp,               \* tmp[w]: an RPC result thread w has not yet assigned
    served             \* requests received so far

vars == <<ledger, mining_d, issued, shown, teleport_address, first_view,
          mining, pc, tmp, served>>

daemon == <<ledger, mining_d, issued>>
gui == <<shown, teleport_address, first_view, mining>>

Init ==
    /\ ledger = 0
    /\ mining_d = FALSE
    /\ issued = 0
    /\ shown = 0
    /\ teleport_address = 0
    /\ first_view = TRUE
    /\ mining = FALSE
    /\ pc = [w \in Workers |-> "idle"]
    /\ tmp = [w \in Workers |-> 0]
    /\ served = 0

(* Thread w takes a request whose first step moves it to `next`.           *)
Start(w, next) ==
    /\ pc[w] = "idle"
    /\ served < MaxRequests
    /\ served' = served + 1
    /\ pc' = [pc EXCEPT ![w] = next]

Goto(w, from, next) ==
    /\ pc[w] = from
    /\ pc' = [pc EXCEPT ![w] = next]

(* '/', the API root and /main_send_credits (lines 36-38, 59-62, 109-112): *)
(* only update_data.                                                       *)
ShowMainPage(w) ==
    /\ Start(w, "u_read")
    /\ UNCHANGED <<daemon, gui, tmp>>

(* /new_teleport_address (lines 41-44): getnewaddress, then the            *)
(* assignment, then main_page.                                             *)
NewAddressRpc(w) ==
    /\ Start(w, "na_write")
    /\ issued' = issued + 1
    /\ tmp' = [tmp EXCEPT ![w] = issued + 1]
    /\ UNCHANGED <<ledger, mining_d, gui>>

(* Mutant: the new address is not stored in data.                       *)
NewAddressWriteDropped(w) ==
    /\ Goto(w, "na_write", "u_read")
    /\ UNCHANGED <<daemon, gui, tmp, served>>

NewAddressWrite(w) ==
    /\ Goto(w, "na_write", "u_read")
    /\ teleport_address' = tmp[w]
    /\ UNCHANGED <<daemon, shown, first_view, mining, tmp, served>>

(* start_mining and stop_mining (lines 66-78): the RPC, the flag, then     *)
(* update_and_return_data.                                                 *)
StartMiningRpc(w) ==
    /\ Start(w, "start_write")
    /\ mining_d' = TRUE
    /\ UNCHANGED <<ledger, issued, gui, tmp>>

StartMiningWrite(w) ==
    /\ Goto(w, "start_write", "u_read")
    /\ mining' = TRUE
    /\ UNCHANGED <<daemon, shown, teleport_address, first_view, tmp, served>>

StopMiningRpc(w) ==
    /\ Start(w, "stop_write")
    /\ mining_d' = FALSE
    /\ UNCHANGED <<ledger, issued, gui, tmp>>

StopMiningWrite(w) ==
    /\ Goto(w, "stop_write", "u_read")
    /\ mining' = FALSE
    /\ UNCHANGED <<daemon, shown, teleport_address, first_view, tmp, served>>

(* Mutant: the handler returns without refreshing data.                   *)
ChangeLedgerNoRefresh(w) ==
    /\ Start(w, "idle")
    /\ ledger' = ledger + 1
    /\ UNCHANGED <<mining_d, issued, gui, tmp>>

(* request_deposit_address, send_deposit_address_complete,                 *)
(* withdraw_deposit_address, main_send_credits_complete (lines 81-121):    *)
(* one RPC that changes the daemon's lists or balances, then update_data.  *)
ChangeLedger(w) ==
    /\ Start(w, "u_read")
    /\ ledger' = ledger + 1
    /\ UNCHANGED <<mining_d, issued, gui, tmp>>

(* update_data (lines 19-28).  The RPCs of lines 20-25 ...                 *)
UpdateRead(w) ==
    /\ Goto(w, "u_read", "u_write")
    /\ tmp' = [tmp EXCEPT ![w] = ledger]
    /\ UNCHANGED <<daemon, gui, served>>

(* ... and the assignments of their results.                               *)
UpdateWrite(w) ==
    /\ Goto(w, "u_write", "u_first")
    /\ shown' = tmp[w]
    /\ UNCHANGED <<daemon, teleport_address, first_view, mining, tmp, served>>

(* if data['first_view'] (line 26).                                        *)
FirstViewCheck(w) ==
    /\ Goto(w, "u_first", IF first_view THEN "fv_rpc" ELSE "idle")
    /\ UNCHANGED <<daemon, gui, tmp, served>>

(* getnewaddress (line 27) ...                                             *)
FirstViewRpc(w) ==
    /\ Goto(w, "fv_rpc", "fv_write")
    /\ issued' = issued + 1
    /\ tmp' = [tmp EXCEPT ![w] = issued + 1]
    /\ UNCHANGED <<ledger, mining_d, gui, served>>

(* ... its assignment, and first_view = False (lines 27-28).               *)
FirstViewWrite(w) ==
    /\ Goto(w, "fv_write", "idle")
    /\ teleport_address' = tmp[w]
    /\ first_view' = FALSE
    /\ UNCHANGED <<daemon, shown, mining, tmp, served>>

Next ==
    \E w \in Workers :
        \/ ShowMainPage(w)
        \/ NewAddressRpc(w)
        \/ NewAddressWrite(w)
        \/ StartMiningRpc(w)
        \/ StartMiningWrite(w)
        \/ StopMiningRpc(w)
        \/ StopMiningWrite(w)
        \/ ChangeLedger(w)
        \/ UpdateRead(w)
        \/ UpdateWrite(w)
        \/ FirstViewCheck(w)
        \/ FirstViewRpc(w)
        \/ FirstViewWrite(w)

Spec == Init /\ [][Next]_vars

-----------------------------------------------------------------------------
AllIdle == \A w \in Workers : pc[w] = "idle"

(* When no request is being served, the mining flag the pages show is the  *)
(* daemon's: start_mining and stop_mining set data['mining'] to what they  *)
(* asked the daemon for.                                                   *)
MiningShownWhenIdle == AllIdle => mining = mining_d

(* When no request is being served, the lists and info the pages show are  *)
(* the daemon's current ones: every handler that changes the daemon        *)
(* refreshes data afterwards.                                              *)
LedgerShownWhenIdle == AllIdle => shown = ledger

(* When no request is being served, the teleport address shown is the last *)
(* one the daemon handed out, by the first view or by new_teleport_address.*)
LatestAddressShownWhenIdle == AllIdle => teleport_address = issued

=============================================================================

-------------------------- MODULE ConfigureWizard --------------------------
(***************************************************************************)
(* The configuration wizard of src/python/configuration/configure.py.     *)
(*                                                                         *)
(* A Flask application whose pages are the steps of a form sequence; each  *)
(* POST stores its form fields in the module-level dict chosen_settings,   *)
(* and later pages read keys that earlier pages stored.  A browser can     *)
(* request any route at any time (back button, bookmarks, a second tab),   *)
(* so every page is enabled in every state; a page that reads a missing    *)
(* key raises KeyError after the assignments that precede the read.        *)
(*                                                                         *)
(* chosen_settings is a TLA+ function whose domain is the set of keys      *)
(* present, updated by Assign.  Text fields carry the value "v", check     *)
(* boxes "yes" or "".                                                     *)
(* The forms are the wizard's own templates, so every field a page reads   *)
(* with request.form[...] is posted.  Rendering and translation are left   *)
(* out; select_language and get_default_locale only read.                  *)
(***************************************************************************)
EXTENDS Naturals

(* The keys of lines 22-27.                                                *)
miscellaneous_settings ==
    {"CBT-actaspaymentprocessor", "CBT-actasnotary", "CBT-confirmationkey",
     "OBK-actaspaymentprocessor", "OBK-actasnotary", "OBK-confirmationkey"}

ConfirmationKeys == {"CBT-confirmationkey", "OBK-confirmationkey"}

(* Currencies offered as install_ check boxes, and the ones line 97 adds.  *)
OfferedCurrencies == {"CBF", "EGT", "CBT", "OBK"}
TestCurrencies == {"CBF", "EGT", "CBT", "OBK"}

(* The wizard's pages in the order its templates link them.                *)
Pages == <<"configfile", "usernamepassword", "testcurrencies",
           "cryptocurrencies", "ports", "finish">>

PageNames == {Pages[i] : i \in 1..6}

Outcomes == {"none", "ok", "KeyError", "NameError"}

(* dict assignment d[k] = v.                                               *)
Assign(d, k, v) == [x \in DOMAIN d \cup {k} |-> IF x = k THEN v ELSE d[x]]

VARIABLES
    chosen_settings,   \* the module-level dict of line 20
    page,              \* the page the last request was for
    response,          \* how that request ended
    completed          \* history: the pages whose request ended normally

vars == <<chosen_settings, page, response, completed>>

Init ==
    /\ chosen_settings = <<>>
    /\ page = "none"
    /\ response = "none"
    /\ completed = {}

(* A request for page p ends with outcome r.                               *)
Answer(p, r) ==
    /\ page' = p
    /\ response' = r
    /\ completed' = IF r = "ok" THEN completed \cup {p} ELSE completed

(* /configfile (lines 50-54): store the chosen language.                   *)
ConfigFilePage ==
    /\ \E language \in {"en", "es"} :
          chosen_settings' = Assign(chosen_settings, "locale", language)
    /\ Answer("configfile", "ok")

(* Mutant: the value is stored under the local variable's name.           *)
UsernamePasswordPageLocalName ==
    /\ chosen_settings' = Assign(chosen_settings, "configfile", "v")
    /\ Answer("usernamepassword", "ok")

(* /usernamepassword (lines 57-64): store the configuration file path.     *)
UsernamePasswordPage ==
    /\ chosen_settings' = Assign(chosen_settings, "configurationfile", "v")
    /\ Answer("usernamepassword", "ok")

(* /testcurrencies (lines 66-71): store the RPC credentials.               *)
TestCurrenciesPage ==
    /\ chosen_settings' =
          [k \in DOMAIN chosen_settings \cup {"rpcuser", "rpcpassword", "walletpassword"} |->
              IF k \in {"rpcuser", "rpcpassword", "walletpassword"} THEN "v"
                                                                    ELSE chosen_settings[k]]
    /\ Answer("testcurrencies", "ok")

(* /cryptocurrencies (lines 73-87): get_testcurrency_details stores        *)
(* request.form.get(key, "") for installtestcurrencies and the six         *)
(* miscellaneous settings; the form has no confirmation-key field, so      *)
(* those two become "".                                                    *)
(* Mutant: the key list of lines 79-80 leaves out installtestcurrencies.  *)
CryptocurrenciesPageNoTestKey ==
    /\ \E form \in [miscellaneous_settings \ ConfirmationKeys -> {"yes", ""}] :
          chosen_settings' =
              [k \in DOMAIN chosen_settings \cup miscellaneous_settings |->
                  IF k \in ConfirmationKeys THEN ""
                  ELSE IF k \in DOMAIN form THEN form[k]
                  ELSE chosen_settings[k]]
    /\ Answer("cryptocurrencies", "ok")

CryptocurrenciesPage ==
    /\ \E form \in [({"installtestcurrencies"} \cup miscellaneous_settings) \ ConfirmationKeys
                        -> {"yes", ""}] :
          chosen_settings' =
              [k \in DOMAIN chosen_settings \cup {"installtestcurrencies"} \cup miscellaneous_settings |->
                  IF k \in ConfirmationKeys THEN ""
                  ELSE IF k \in DOMAIN form THEN form[k]
                  ELSE chosen_settings[k]]
    /\ Answer("cryptocurrencies", "ok")

(* /ports (lines 89-116): store the checked currencies, then               *)
(* select_default_ports appends TCR to that very list and reads            *)
(* installtestcurrencies, and ports reads CBT-actasnotary.  The list is    *)
(* mutated in place, so the appends stay when a later read fails.          *)
PortsPage ==
    \E chosen \in SUBSET OfferedCurrencies :
        LET listed == chosen \cup {"TCR"}
        IN  IF "installtestcurrencies" \notin DOMAIN chosen_settings
              THEN /\ chosen_settings' = Assign(chosen_settings, "currencies", listed)
                   /\ Answer("ports", "KeyError")
              ELSE LET all == IF chosen_settings["installtestcurrencies"] = "yes"
                                THEN listed \cup TestCurrencies ELSE listed
                   IN  /\ chosen_settings' = Assign(chosen_settings, "currencies", all)
                       /\ Answer("ports", IF "CBT-actasnotary" \in DOMAIN chosen_settings
                                            THEN "ok" ELSE "KeyError")

(* /finish (lines 161-164, 122-129): write_configuration reads             *)
(* configurationfile, then make_config_directory calls os.path.dirname,    *)
(* but the module never imports os (lines 3-9): the request ends in        *)
(* NameError before the file is opened, so nothing after it runs.          *)
FinishPage ==
    /\ UNCHANGED chosen_settings
    /\ Answer("finish", IF "configurationfile" \in DOMAIN chosen_settings
                          THEN "NameError" ELSE "KeyError")

Next ==
    \/ ConfigFilePage
    \/ UsernamePasswordPage
    \/ TestCurrenciesPage
    \/ CryptocurrenciesPage
    \/ PortsPage
    \/ FinishPage

Spec == Init /\ [][Next]_vars

-----------------------------------------------------------------------------
(* The pages before p in the wizard's order have all been submitted.       *)
InOrder(p) == \A i, j \in 1..6 : (Pages[j] = p /\ i < j) => Pages[i] \in completed

(* Every state of the wizard has well-typed variables.                     *)
TypeOK ==
    /\ DOMAIN chosen_settings \subseteq
          {"locale", "configurationfile", "rpcuser", "rpcpassword", "walletpassword",
           "installtestcurrencies", "currencies"} \cup miscellaneous_settings
    /\ page \in PageNames \cup {"none"}
    /\ response \in Outcomes
    /\ completed \subseteq PageNames

(* A user who follows the pages in the wizard's order never meets a        *)
(* KeyError: every key a page reads was stored by an earlier page.         *)
InOrderNoKeyError == response = "KeyError" => ~InOrder(page)

(* A user who has submitted every earlier page gets the finish page: the   *)
(* configuration is written (lines 161-178).                               *)
FinishCompletes == (page = "finish" /\ InOrder("finish")) => response = "ok"

=============================================================================

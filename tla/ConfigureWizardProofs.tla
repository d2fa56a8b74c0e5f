------------------------ MODULE ConfigureWizardProofs ------------------------
(***************************************************************************)
(* Proof that the configuration wizard raises KeyError only for a user who *)
(* skipped a page, for every order of requests.                           *)
(***************************************************************************)
EXTENDS ConfigureWizard, TLAPS

(* The keys a later page reads were stored by the page that sets them, and *)
(* stay: no page removes a key from chosen_settings.                       *)
KeysStored ==
    /\ "usernamepassword" \in completed
          => "configurationfile" \in DOMAIN chosen_settings
    /\ "cryptocurrencies" \in completed
          => /\ "installtestcurrencies" \in DOMAIN chosen_settings
             /\ "CBT-actasnotary" \in DOMAIN chosen_settings

WizInv == KeysStored /\ InOrderNoKeyError

(* A dict assignment adds its key and keeps the others.                    *)
LEMMA AssignDomain ==
    ASSUME NEW d, NEW k, NEW v
    PROVE  DOMAIN Assign(d, k, v) = DOMAIN d \cup {k}
BY DEF Assign

LEMMA WizInvInit == Init => WizInv
BY DEF Init, WizInv, KeysStored, InOrderNoKeyError

LEMMA WizInvStep == WizInv /\ [Next]_vars => WizInv'
<1> SUFFICES ASSUME WizInv, [Next]_vars PROVE WizInv'
  OBVIOUS
<1>1. CASE ConfigFilePage
  <2>1. PICK language \in {"en", "es"} :
            chosen_settings' = Assign(chosen_settings, "locale", language)
    BY <1>1 DEF ConfigFilePage
  <2>2. DOMAIN chosen_settings' = DOMAIN chosen_settings \cup {"locale"}
    BY <2>1, AssignDomain
  <2>3. response' = "ok" /\ completed' = completed \cup {"configfile"}
    BY <1>1 DEF ConfigFilePage, Answer
  <2>4. QED BY <2>2, <2>3 DEF WizInv, KeysStored, InOrderNoKeyError
<1>2. CASE UsernamePasswordPage
  <2>1. DOMAIN chosen_settings' = DOMAIN chosen_settings \cup {"configurationfile"}
    BY <1>2, AssignDomain DEF UsernamePasswordPage
  <2>2. response' = "ok" /\ completed' = completed \cup {"usernamepassword"}
    BY <1>2 DEF UsernamePasswordPage, Answer
  <2>3. QED BY <2>1, <2>2 DEF WizInv, KeysStored, InOrderNoKeyError
<1>3. CASE TestCurrenciesPage
  <2>1. DOMAIN chosen_settings \subseteq DOMAIN chosen_settings'
    BY <1>3 DEF TestCurrenciesPage
  <2>2. response' = "ok" /\ completed' = completed \cup {"testcurrencies"}
    BY <1>3 DEF TestCurrenciesPage, Answer
  <2>3. QED BY <2>1, <2>2 DEF WizInv, KeysStored, InOrderNoKeyError
<1>4. CASE CryptocurrenciesPage
  <2>1. DOMAIN chosen_settings' =
           DOMAIN chosen_settings \cup {"installtestcurrencies"} \cup miscellaneous_settings
    BY <1>4 DEF CryptocurrenciesPage
  <2>2. response' = "ok" /\ completed' = completed \cup {"cryptocurrencies"}
    BY <1>4 DEF CryptocurrenciesPage, Answer
  <2>3. QED BY <2>1, <2>2 DEF WizInv, KeysStored, InOrderNoKeyError, miscellaneous_settings
<1>5. CASE PortsPage
  <2>1. PICK chosen \in SUBSET OfferedCurrencies :
            \E all : /\ chosen_settings' = Assign(chosen_settings, "currencies", all)
                     /\ IF "installtestcurrencies" \notin DOMAIN chosen_settings
                          THEN Answer("ports", "KeyError")
                          ELSE Answer("ports", IF "CBT-actasnotary" \in DOMAIN chosen_settings
                                                 THEN "ok" ELSE "KeyError")
    BY <1>5 DEF PortsPage
  <2>2. DOMAIN chosen_settings' = DOMAIN chosen_settings \cup {"currencies"}
    BY <2>1, AssignDomain
  <2>3. CASE response' = "KeyError"
    <3>1. completed' = completed /\ page' = "ports"
      BY <2>1, <2>3 DEF Answer
    <3>2. "cryptocurrencies" \notin completed
      BY <2>1, <2>3 DEF Answer, WizInv, KeysStored
    <3>3. (~InOrder(page))'
      BY <3>1, <3>2 DEF InOrder, Pages
    <3>4. QED BY <2>2, <2>3, <3>1, <3>3 DEF WizInv, KeysStored, InOrderNoKeyError
  <2>4. CASE response' # "KeyError"
    <3>1. completed' \subseteq completed \cup {"ports"}
      BY <2>1 DEF Answer
    <3>2. QED BY <2>2, <2>4, <3>1 DEF WizInv, KeysStored, InOrderNoKeyError
  <2>5. QED BY <2>3, <2>4
<1>6. CASE FinishPage
  <2>1. completed' = completed /\ page' = "finish" /\ UNCHANGED chosen_settings
    BY <1>6 DEF FinishPage, Answer
  <2>2. response' = "KeyError" => "usernamepassword" \notin completed
    BY <1>6 DEF FinishPage, Answer, WizInv, KeysStored
  <2>3. response' = "KeyError" => (~InOrder(page))'
    BY <2>1, <2>2 DEF InOrder, Pages
  <2>4. QED BY <2>1, <2>3 DEF WizInv, KeysStored, InOrderNoKeyError
<1>7. CASE UNCHANGED vars
  BY <1>7 DEF vars, WizInv, KeysStored, InOrderNoKeyError, InOrder
<1>8. QED BY <1>1, <1>2, <1>3, <1>4, <1>5, <1>6, <1>7 DEF Next

(* Following the wizard's pages in order never raises KeyError: /ports     *)
(* and /finish only read keys stored by the pages before them.             *)
THEOREM NoKeyErrorInOrder == Spec => []InOrderNoKeyError
<1>1. Init => WizInv BY WizInvInit
<1>2. WizInv /\ [Next]_vars => WizInv' BY WizInvStep
<1>3. WizInv => InOrderNoKeyError BY DEF WizInv
<1>4. QED BY <1>1, <1>2, <1>3, PTL DEF Spec


-----------------------------------------------------------------------------
(* The keys any page stores.                                               *)
WizardKeys ==
    {"locale", "configurationfile", "rpcuser", "rpcpassword", "walletpassword",
     "installtestcurrencies", "currencies"} \cup miscellaneous_settings

LEMMA TypeInit == Init => TypeOK
BY DEF Init, TypeOK, Outcomes

LEMMA TypeStep == TypeOK /\ [Next]_vars => TypeOK'
<1> SUFFICES ASSUME TypeOK, [Next]_vars PROVE TypeOK'
    OBVIOUS
<1>0. DOMAIN chosen_settings \subseteq WizardKeys
    BY DEF TypeOK, WizardKeys
<1>1. ASSUME NEW p \in PageNames, NEW r \in Outcomes, Answer(p, r)
      PROVE  page' \in PageNames \cup {"none"} /\ response' \in Outcomes
             /\ completed' \subseteq PageNames
    BY <1>1 DEF Answer, TypeOK
<1>2. "configfile" \in PageNames /\ "usernamepassword" \in PageNames
      /\ "testcurrencies" \in PageNames /\ "cryptocurrencies" \in PageNames
      /\ "ports" \in PageNames /\ "finish" \in PageNames
    BY DEF PageNames, Pages
<1>3. CASE ConfigFilePage
    <2>1. PICK language \in {"en", "es"} :
              chosen_settings' = Assign(chosen_settings, "locale", language)
        BY <1>3 DEF ConfigFilePage
    <2>2. DOMAIN chosen_settings' = DOMAIN chosen_settings \cup {"locale"}
        BY <2>1, AssignDomain
    <2>3. page' \in PageNames \cup {"none"} /\ response' \in Outcomes
          /\ completed' \subseteq PageNames
        BY <1>1, <1>2, <1>3 DEF ConfigFilePage, Outcomes
    <2>4. QED
        BY <1>0, <2>2, <2>3 DEF TypeOK, WizardKeys
<1>4. CASE UsernamePasswordPage
    <2>1. DOMAIN chosen_settings' = DOMAIN chosen_settings \cup {"configurationfile"}
        BY <1>4, AssignDomain DEF UsernamePasswordPage
    <2>2. page' \in PageNames \cup {"none"} /\ response' \in Outcomes
          /\ completed' \subseteq PageNames
        BY <1>1, <1>2, <1>4 DEF UsernamePasswordPage, Outcomes
    <2>3. QED
        BY <1>0, <2>1, <2>2 DEF TypeOK, WizardKeys
<1>5. CASE TestCurrenciesPage
    <2>1. DOMAIN chosen_settings'
              = DOMAIN chosen_settings \cup {"rpcuser", "rpcpassword", "walletpassword"}
        BY <1>5 DEF TestCurrenciesPage
    <2>2. page' \in PageNames \cup {"none"} /\ response' \in Outcomes
          /\ completed' \subseteq PageNames
        BY <1>1, <1>2, <1>5 DEF TestCurrenciesPage, Outcomes
    <2>3. QED
        BY <1>0, <2>1, <2>2 DEF TypeOK, WizardKeys
<1>6. CASE CryptocurrenciesPage
    <2>1. DOMAIN chosen_settings'
              = DOMAIN chosen_settings \cup {"installtestcurrencies"} \cup miscellaneous_settings
        BY <1>6 DEF CryptocurrenciesPage
    <2>2. page' \in PageNames \cup {"none"} /\ response' \in Outcomes
          /\ completed' \subseteq PageNames
        BY <1>1, <1>2, <1>6 DEF CryptocurrenciesPage, Outcomes
    <2>3. QED
        BY <1>0, <2>1, <2>2 DEF TypeOK, WizardKeys
<1>7. CASE PortsPage
    <2>1. PICK chosen \in SUBSET OfferedCurrencies :
              \E v : /\ chosen_settings' = Assign(chosen_settings, "currencies", v)
                     /\ (Answer("ports", "KeyError") \/ Answer("ports", "ok"))
        BY <1>7 DEF PortsPage
    <2>2. PICK v : /\ chosen_settings' = Assign(chosen_settings, "currencies", v)
                  /\ (Answer("ports", "KeyError") \/ Answer("ports", "ok"))
        BY <2>1
    <2>3. DOMAIN chosen_settings' = DOMAIN chosen_settings \cup {"currencies"}
        BY <2>2, AssignDomain
    <2>4. "KeyError" \in Outcomes /\ "ok" \in Outcomes
        BY DEF Outcomes
    <2>5. page' \in PageNames \cup {"none"} /\ response' \in Outcomes
          /\ completed' \subseteq PageNames
        BY <1>1, <1>2, <2>2, <2>4
    <2>6. QED
        BY <1>0, <2>3, <2>5 DEF TypeOK, WizardKeys
<1>8. CASE FinishPage
    <2>1. Answer("finish", "NameError") \/ Answer("finish", "KeyError")
        BY <1>8 DEF FinishPage
    <2>2. "NameError" \in Outcomes /\ "KeyError" \in Outcomes
        BY DEF Outcomes
    <2>3. UNCHANGED chosen_settings
        BY <1>8 DEF FinishPage
    <2>4. page' \in PageNames \cup {"none"} /\ response' \in Outcomes
          /\ completed' \subseteq PageNames
        BY <1>1, <1>2, <2>1, <2>2
    <2>5. QED
        BY <1>0, <2>3, <2>4 DEF TypeOK, WizardKeys
<1>9. CASE UNCHANGED vars
    BY <1>9 DEF vars, TypeOK
<1>10. QED
    BY <1>3, <1>4, <1>5, <1>6, <1>7, <1>8, <1>9 DEF Next

(* Whatever order the pages are requested in, chosen_settings only ever    *)
(* holds the keys the wizard's pages store (lines 50-116), and the page,   *)
(* outcome and history stay well formed.                                   *)
THEOREM WizardTypeCorrect == Spec => []TypeOK
BY TypeInit, TypeStep, PTL DEF Spec

=============================================================================

# Formal models of peer-node/flex

TLA+ modules, TLC configurations and TLAPS proofs for the parts of this
repository that keep state and change it.  `PROJECT.json` lists every
component, run, mutant, mapped definition, finding, hazard and theorem; this
file explains them.

## 1. Inventory

| Component | Source | State | Operations | Interactions |
|---|---|---|---|---|
| Inheritance cascade simulation | `src/src/relays/inheritance.py` | module-level `nodes`, `successors`, `executor_offsets`, `nodes_to_sample_from`, global `count`; per call `my_nodes`, `size`, `last_size` | build the succession map and the (time-weighted) pool at load; `final_fraction`: sampling loop, cascade loop, counter; `map` over 1000 fractions; plot | single thread, no I/O except the plot |
| Interactive payment processor | `src/python/interactive_payment_processor/interactive_payment_processor.py` | module-level `transactions` set, `balances` defaultdict(1000), `proofport` | `payment_details_page` (dedupe, debit, credit); read-only `login`, `account_page`, `payment_page`; `writepid`, `main` | HTTP requests, served by the Flask development server (one thread per request when threaded) |
| Configuration file helpers | `src/python/flex/__init__.py` | the file `~/.flex/flex.conf` | `get_config`, `set_config`, `set_config_value`, `write_config_file`, `get_client`, `get_rpc` | every tool reads the file; the wizard and `set_config_value` write it |
| Configuration wizard | `src/python/configuration/configure.py`, `defaults.py` | module-level `chosen_settings` dict | one Flask page per step; `write_configuration`; `get_confirmation_key` (spawn `flexd`, poll `teleport-cli` 5 times) | browser page order, subprocesses, the config file |
| Teleport GUI backend | `src/webapp/backend/gui/teleport_gui.py` | module-level `data` dict with `first_view`, `mining` | `update_data`, address and mining pages | JSON-RPC client to the daemon, concurrent requests |
| GUI notification receiver | `src/python/gui/guinotificationreceiver.py` | `notifications` list | append on POST, return on GET | HTTP |
| Block explorer, OBK plugin | `src/python/old/explorer/explorer.py`, `src/UI_old/.../obk_plugin.py` | none beyond process start-up | read-only RPC views; RPC-to-HTTP forwarding | RPC, HTTP |
| Packaging | the two `setup.py` | none | none | none |

Interactions: the wizard's `write_configuration` and the helpers'
`set_config` are the two writers of the configuration file that every tool
reads with `get_config`; the wizard never reaches its write (finding below), so
the models keep the two apart.  The GUI backend and the payment processor talk
to processes outside this repository (the teleport daemon, the notary) only
through calls, which the models abstract.

**What is hard.**  The cascade is a fixed-point iteration whose exit test
compares sizes rather than sets and whose sampling loop has no retry bound.
The payment processor mutates shared module state from request handlers with
check-then-act and read-modify-write steps.  The configuration file is
rewritten by truncation.  The wizard depends on the order of page visits and
retries a subprocess with a fixed budget.

**What makes each correct.**
Cascade: the sampled set has exactly `int(f*N)` nodes; every admitted node is
forced by the rule; at exit the set is the least fixed point above the sampled
set; every loop ends; the successor map is a permutation; the pool weights are
those the spec states.  Payment processor: each payment triple applied at most
once; payments conserve the total of the balances.  Config: a completed
`set_config_value` is not lost; a reader never sees a truncated file.  Wizard:
every page sequence a user can follow writes a complete configuration.

## 2. Plan

Order: the cascade first (the algorithm the spec is about), then the
components with real concurrency or failure behaviour.

1. `Inheritance` + `MCInheritance`, `MCInheritanceScript` — **done**.
2. `InheritanceProofs` — TypeOK, soundness, fixed point, permutation — **done**.
3. `PaymentProcessor` + `MCPaymentProcessor` — **done** (model-checked).
4. `ConfigStore`, `ConfigFile` + `MCConfigFile` — **done** (refinement
   model-checked).
5. `ConfigureWizard` — **done** (model-checked).
6. `TeleportGui` + `MCTeleportGui` — **done** (model-checked).
7. Abstract specification `CascadeFunction`, with `Inheritance` shown to
   refine it (model-checked on the weighted run, proved by TLAPS) — **done**.
8. `ConfigureWizardProofs`, `TeleportGuiProofs` — **done**.
9. Further theorems: `InitialSetExact` (`InheritanceProofs`), `TypeOK` and
   `AppliedAtMostOnce` for one worker (`PaymentProcessorProofs`), the
   refinement of `ConfigStore` by `ConfigFile` for one process
   (`ConfigFileProofs`) — **done**.  Then the wizard's `TypeOK`, the payment
   server's `TypeOK` and `RecordedNeverAcceptedAgain` for any number of
   threads, and the GUI's single-field corollaries — **done**.
10. `PaymentLedger`, the atomic ledger, with the single-thread server shown
   to implement it; the cascade loop's variant `CascadeProgress`; the
   monotonicity of `LeastClosed` (spec section 8) — **done**.

## 3. Modules and how they map to the code

### `Inheritance.tla`
Constants `N`, `GroupSize`, `Offsets`, `Threshold`, `BucketSize`,
`TimeWeighted`, `Trials` stand for `len(nodes)`, 60, `executor_offsets`, 5,
100, the `timeweighted` flag and `len(fractions)`; each has a named ASSUME.
`successors`, `have_five_executors`, `NewNodes` (the list comprehension of
lines 48-50) and the pool (`HoursAgo`, `Weight`, `nodes_to_sample_from`) are
operators.  The pool list is abstracted to its multiset: a position is a pair
`<<node, copy>>`, and `random.sample` picks a set of positions of the asked
size.  The fraction `f` is represented by `size = int(f*N)`, which ranges over
`0..N-1`.

Variables: `pc` (between calls / sampling loop / cascade loop), `size`,
`my_nodes`, `last_size`, `count`, `results` (the returned pairs as
`<<size, len(my_nodes)>>`), and the history variable `initial` (the sampled
set).  Actions, one per loop pass: `StartTrial` (lines 36-39), `SampleRound`
(40-42), `EndSampling` (40, 44), `Iterate` (46-51), `FinishTrial` (53-57).

Reference definitions, written independently of the loop: `Closed(T)` (no
node outside `T` satisfies the rule against `T`) and `LeastClosed(I)` (the
intersection of the closed supersets of `I`).

### `CascadeFunction.tla`
The promise of the Monte Carlo driver, independent of how a trial is
computed: `Trials` trials, each one step that appends
`<<Cardinality(I), Cardinality(Cascade(I))>>` for some initial set `I`.
`Inheritance` instantiates it with `Cascade <- LeastClosed` and the same
`count` and `results` (`Abstract`, `ImplementsCascadeFunction`): sampling
rounds and cascade rounds are stutters, and `FinishTrial` (lines 53-57) is
the abstract `Trial`, with `I` the sampled set `initial`.

### `PaymentProcessor.tla`
Constants `Users`, `Amounts`, `Workers` (request threads), `MaxRequests`.
Variables `transactions`, `balances` (total over `Users`; the defaultdict read
of the other pages never changes a value), per-thread `pc`, `tx`, `tmp`, the
bound counter `served`, and the history `accepted`.  `payment_details_page` is
split at the points where the GIL can switch threads between Python
statements' bytecodes: `Check` (line 59), `Add` (60), `DebitRead`/`DebitWrite`
(61), `CreditRead`/`CreditWrite` (62).

### `PaymentLedger.tla`
What the processor promises: `transactions` and `balances`, and one action
`Pay(t)` that, for a triple not yet recorded, records it, debits the payer and
then credits the payee (nested EXCEPTs, in the code's order, so a payment to
oneself changes nothing).  `PaymentProcessor` instantiates it as `Ledger`
with `balances <- SettledBy(ServerThread)`: the code's balances with what is
left of the server thread's lines 61-62 applied (both updates at
`debit_read`/`debit_write`, the credit at `credit_read`/`credit_write`).
`ServerThread` is the thread of a one-thread server; the property
`ImplementsPaymentLedger` is `Ledger!Spec`.  The mapping completes one
thread's payment, which is exact for one thread; with several threads a
mapping would have to add up every thread's pending amounts.

### `ConfigStore.tla` and `ConfigFile.tla`
`ConfigStore` is what the helpers promise: a dict `config` with atomic
`SetConfigValue` and `GetConfig` (which records the dict in `seen[p]`).
`ConfigFile` is the code: the file's text is represented by the dict it parses
to, per-process `pc` and `local`; `ReadForSet` is `set_config_value`'s
`get_config` and assignment (lines 29-31), `Truncate` the `open(..., "w")` of
`write_config_file` reached through `set_config`, `Write` the write, and
`GetConfig` a `get_config` (also what `get_client`/`get_rpc` do).  The
refinement mapping `stored` is the file, or, once a writer has truncated it,
the dict that writer is about to write; `ImplementsConfigStore` is
`ConfigStore!Spec` under that mapping.  Both modules update the dict with
`Assign(d, k, v)`, the assignment `config[key] = value` of line 31.

### `ConfigureWizard.tla`
`chosen_settings` is a function whose domain is the set of keys present (a
Python dict), updated with `Assign` (the dict assignment `d[k] = v`).  One action per page that changes it:
`ConfigFilePage`, `UsernamePasswordPage`, `TestCurrenciesPage`,
`CryptocurrenciesPage` (`get_testcurrency_details`), `PortsPage` (stores the
currencies, appends TCR and the test currencies, and raises KeyError after the
assignment when `installtestcurrencies` or `CBT-actasnotary` is missing), and
`FinishPage` (KeyError without `configurationfile`, otherwise NameError at line
123).  Every page is enabled in every state because a browser can request any
route.  `page`, `response` and the history `completed` record the outcome.

### `TeleportGui.tla`
The daemon is `ledger` (number of changes to its lists and balances),
`mining_d` and `issued`; the cached `data` is `shown`, `teleport_address`,
`first_view` and `mining`.  Each handler is its RPC step followed by its
assignment step and `update_data`: `UpdateRead`/`UpdateWrite` (lines 20-25)
and `FirstViewCheck`/`FirstViewRpc`/`FirstViewWrite` (lines 26-28).  Threads
are `Workers`, bounded by `MaxRequests`.

## 4. Runs

| Run | Cfg | Expect | Shows |
|---|---|---|---|
| cascade_unweighted | `MCInheritance.cfg` | pass | TypeOK, SuccessorIsPermutation, CascadeSound, FixedPointReached, CascadeProgress (each pass that stays in the loop raises `last_size` within the set's size), CascadeTerminates, AllTrialsComplete |
| cascade_timeweighted | `MCInheritanceWeighted.cfg` | pass | InitialSetExact and AllTrialsComplete when rounds can redraw held nodes; ImplementsCascadeFunction: every recorded pair is (size of some initial set, size of its least closed superset) |
| pool_weights_vs_spec | `MCInheritanceScript.cfg` | violation | at N=600, bucket 100, the pool weights are 1,1,1,1,2,3, not the spec's 1,1,1,2,3,4 |
| payments_single_thread | `MCPaymentProcessor.cfg` | pass | TypeOK, AppliedAtMostOnce, ImplementsPaymentLedger with one thread |
| payments_duplicate_race | `MCPaymentDuplicateRace.cfg` | violation | two threads apply the same triple twice |
| payments_lost_update | `MCPaymentLostUpdate.cfg` | violation | two threads lose a debit |
| wizard_any_page_order | `ConfigureWizard.cfg` | pass | TypeOK, InOrderNoKeyError: over every order of requests, a KeyError only meets a user who skipped a page |
| wizard_finish | `ConfigureWizardFinish.cfg` | violation | once `configurationfile` is stored, /finish ends in NameError whatever the other pages did |
| config_one_process | `MCConfigFile.cfg` | pass | one process's helpers implement the atomic store |
| config_concurrent | `MCConfigFileConcurrent.cfg` | violation | two processes lose an update or read a truncated file |
| gui_single_thread | `MCTeleportGui.cfg` | pass | LedgerShownWhenIdle, LatestAddressShownWhenIdle with one thread |
| gui_mining_race | `MCTeleportGuiMiningRace.cfg` | violation | overlapping start/stop mining leave the shown flag wrong |

**Bounds.**  Cascade: 6 nodes in two 3-cycles, offsets {1,2,4}, threshold 2,
buckets of 2 (time-weighted pool weights 1,2,3, pool of 12 positions), two
trials.  Every initial size 0..5 and every sampled set occurs; cascades of
several productive rounds occur (e.g. {0,3} grows to {0,1,3,4} and on), so
both the exit on the first test and exit after several rounds are exercised,
and the weighted pool makes rounds that add nothing.  Payments: two users,
amounts {1,2}, three requests; enough for a repeated triple and for two
payments sharing a payer to overlap.  Wizard: no constants; every page
order, both languages and every check-box combination (50,465 states).
Config: two keys, two values, all nine initial files; one process, or two for
the violation.  GUI: four requests, enough for a first view followed by a new
address, a daemon change and its refresh, and start then stop mining; with
two threads each pair of handlers overlaps.

**Fairness.**  The script is one thread that never blocks, so every action of
`Inheritance` is weakly fair.  For `SampleRound` this also encodes that a
random draw eventually brings a new node (a draw of held nodes only is a
stutter): it is the probability-one argument, not a bound on retries.
`PaymentProcessor` has no liveness property and no fairness.

**Deadlock.**  The cascade and server models end: the script after `Trials`
calls, the servers after `MaxRequests` requests; those cfgs say
`CHECK_DEADLOCK FALSE`.  The wizard and the configuration helpers never stop
(a page or a helper call is always possible), and deadlock is checked.

**Mutants.**  Each property of a passing run is broken by a plausible bug in
the mapped code (PROJECT.json "mutants"): ceil instead of int for the size,
an off-by-one wrap edge, a dropped successor test, `last_size` taken after
the union or never updated, a sampling round asking one too few or all
`size` positions, line 60 recording `(payer, payee)` without the amount, a
missing duplicate test, lines 61-62 dedented out of the `if` (a duplicate is
still paid: only the ledger refinement notices), a page storing under the wrong key or leaving out
`installtestcurrencies`, `set_config` writing only the new entry, the loop's `last_size` read after
the union (breaks the refinement: a trial records a pair before the fixed
point), a handler that does not refresh, a new
address not stored.

## 5. Findings

* The time-weighted pool weights (line 27) differ from the spec: Python 2's
  `(600 - i) / 100` makes the last bucket "1 hour ago", giving 1,1,1,1,2,3.
* With a threaded server, `payment_details_page` can apply a duplicate
  payment (line 59-60) and lose a balance update (line 61).  With a
  single-threaded server (older Flask defaults) both properties hold.

* `configure.py` never imports `os`, so `make_config_directory` (line 123)
  raises NameError: `/finish` never writes the configuration, and
  `get_confirmation_key` (with its unstopped `flexd` after 5 failed polls) is
  unreachable.
* `set_config_value` is a read-modify-write of a file that is truncated
  before it is written: two processes lose an update, and a reader can see an
  empty configuration (run `config_concurrent`).
* In the GUI backend, overlapping start/stop mining requests leave
  `data['mining']` contradicting the daemon (run `gui_mining_race`).  With two
  threads TLC also breaks `LedgerShownWhenIdle` (a slow refresh overwrites a
  newer one, line 23) and `LatestAddressShownWhenIdle` (the first view's
  address assigned after a newer one, line 27) when the race cfg's invariant
  is replaced by either; these are not kept as runs, and the single-thread
  run, where they hold, cannot show those hazards.
* `amount = float(request.form['amount'])` (line 56) takes any float text:
  decimal amounts round in lines 61-62 and `nan` or `inf` poisons both
  balances.  The model draws amounts from a small set of integers, so it
  says nothing about this; for that reason `MoneyConserved` is not claimed
  for the single-thread server, and is used only to exhibit the lost update
  (`payments_lost_update`), which happens whatever the number type.
* Found while reading, not by a run: `obk_plugin.main` binds the URLs as
  locals (line 40), so the plugin posts to an empty URL.

## 6. Proofs

### `InheritanceProofs.tla`

From the ASSUMEs of `Inheritance` (N positive, GroupSize in 1..N dividing N,
Offsets a finite set of naturals, the rest natural numbers or Booleans):

* `TypeCorrect: Spec => []TypeOK`, through `TypeInv` (TypeOK plus "a call in
  progress was started with count < Trials", needed because `FinishTrial`
  increments `count` without testing it).
* `CascadeSoundness: Spec => []CascadeSound` and
  `CascadeReachesFixedPoint: Spec => []FixedPointReached`, through
  `IInv == TypeInv /\ CascadeSound /\ ExitMeansClosed`, where
  `ExitMeansClosed` says that equal sizes at the loop test mean the set is
  closed.  Argument: a round only adds nodes of the least closed superset
  (lemmas `QuorumMonotone`, `NewNodesStayInLeast`); a round that does not
  change the size does not change the (finite) set, so nothing was added and
  the set is closed (`NoGrowthClosed`); before the first round `last_size = 0`
  and only the empty set, which is closed, has size 0.  A closed superset of
  the initial set contains the least one (`LeastBelowClosed`).
* `InitialSetExactness: Spec => []InitialSetExact`, through
  `ExactInv == TypeInv /\ InitialSetExact`.  Each node has one to four
  copies in the pool (`WeightBounds`: `hours_ago` is never negative), so the
  pool lies in `nodes \X (1..4)` and is finite (`PoolFinite`); a round that
  draws k positions adds at most k nodes, since taking the node number is a
  surjection of the drawn positions onto the added nodes (`FS_Surjection`)
  and `FS_Union` bounds the union (`SampleAddsAtMost`).  A round asks for
  exactly `size - len(my_nodes)` positions, so `len(my_nodes) <= size`
  holds while sampling, and the exit test `len(my_nodes) >= size` makes it
  an equality when the cascade starts.
* `CascadeProgresses: Spec => CascadeProgress`, through
  `PInv == TypeInv /\ SizeBelow`, where `SizeBelow` says that inside the
  loop `last_size <= len(my_nodes)` (last_size is an earlier size of a set
  that only grows).  A step that stays in the loop is `Iterate`, whose guard
  `len(my_nodes) # last_size` then means `last_size < len(my_nodes)`, and
  `len(my_nodes)` becomes the new `last_size`.  This is the safety half of
  termination: `last_size` is a variant bounded by N.  That the loop is
  then left (`CascadeTerminates`) needs fairness and stays with TLC.
* `LeastClosedMonotone`: `A \subseteq B` implies
  `LeastClosed(A) \subseteq LeastClosed(B)`.  With
  `CascadeReachesFixedPoint` this is spec section 8's "runCascade is
  monotone in the initial set" for the code's loop.
* `SuccessorPermutation: Spec => []SuccessorIsPermutation` (every controlled
  node has exactly one predecessor) for every N and GroupSize dividing it:
  a group start `a` is at most `N - GroupSize`, so the wrap edge never wraps
  around the ring (`WrapStaysInGroup`); hence the map is injective
  (`SuccessorInjective`), and an injection of a finite set into itself is
  onto (`FS_Injection`), so each node has exactly one predecessor
  (`OnePredecessor`).

* `CascadeRefinement: Spec => ImplementsCascadeFunction`, through
  `RInv == IInv /\ ExactInv`.  `ExitIsFixedPoint` (`IInv => FixedPointReached`)
  gives `my_nodes = LeastClosed(initial)` at `FinishTrial`, and `ExactInv`
  gives `len(initial) = size`, so the appended pair is the abstract one for
  `I = initial`; `count < Trials` comes from `TypeInv`.  Every other action
  leaves `count` and `results` alone (`StepIsTrialOrStutter`).  The lemma
  `AbstractCardinality` identifies the instantiated module's `Cardinality`
  with the root's.

### `ConfigureWizardProofs.tla`
`NoKeyErrorInOrder: Spec => []InOrderNoKeyError`, for every order of
requests, through `WizInv == KeysStored /\ InOrderNoKeyError`.
`KeysStored` says that a submitted `usernamepassword` page left
`configurationfile` in the dict and a submitted `cryptocurrencies` page left
`installtestcurrencies` and `CBT-actasnotary`; it is needed because the
property speaks of the outcome of the last request only, while the argument
is about what earlier pages stored: every page only adds keys
(`AssignDomain`), so a KeyError at `/ports` or `/finish` means the storing
page is not in `completed`, hence the request is out of order.
`WizardTypeCorrect: Spec => []TypeOK` is inductive as it stands; one case
per page (`TypeStep`), each showing the new dict's domain stays within the
wizard's keys.

### `TeleportGuiProofs.tla`
`SingleThreadShowsDaemon`: under the hypothesis `Workers = {w0}` and for
every `MaxRequests`, `Spec` implies always `LedgerShownWhenIdle` and
`LatestAddressShownWhenIdle`.  The inductive
invariant `GuiInv` types `pc`, `tmp`, `ledger`, `issued` and, per position of
the thread (`ThreadInv`), says that the cached data agrees with the daemon
except on the one field the thread has read and not yet assigned, and that
there the thread's `tmp` holds the daemon's value.  One step per action
(`GuiInvStep`).  With two threads both properties fail, so the hypothesis is
the point of the theorem.  `SingleThreadShowsLatestAddress` is the corollary
for the address alone.  The mining flag is not stated for one thread: there
nothing runs between the RPC and the assignment of lines 68-69 and 76-77,
so the statement would only repeat those assignments; its real question,
overlapping requests, is the violation run `gui_mining_race`.

### `ConfigFileProofs.tla`
`SingleProcessImplementsStore`: with `Procs = {p0}` and for all keys and
values, `Spec => ImplementsConfigStore`.  The invariant `RefInv(p0)` says
that between `ReadForSet` and `Truncate` the process holds the file with one
key assigned (`local[p0] = Assign(file, k, v)`) and that after `Truncate`
the file is empty.  With it, `StepRefines` maps each step: `GetConfig` is
the store's `GetConfig`, `Truncate` is `SetConfigValue(p0, k, v)` (the
mapping `stored` switches from the file to the pending dict), and
`ReadForSet` and `Write` are stutters.  The initial state maps to
`ConfigStore!Init`, and PTL combines these facts as in a standard
refinement proof.  With two processes the refinement fails
(`config_concurrent`), so the hypothesis is needed.

### `PaymentProcessorProofs.tla`
`SingleThreadAppliedAtMostOnce`: with `Workers = {w0}`,
`Spec => [](TypeOK /\ AppliedAtMostOnce)`.  The invariant `PayInv` says that
`accepted[t]` is 1 exactly for the transactions in `transactions` and for
the one the thread is adding (position `add`), that a transaction being
added is not yet in the set, and that `served >= 1` once anything happened.
With one thread, `Check` and `Add` cannot be separated by another thread's
`Check`.  The proof needs `Amounts` to be a non-empty finite set of integers
(`AmountsAssumption`): the initial `tx` is a `CHOOSE` over `Transaction`,
which is typed only when `Transaction` is non-empty.

`TypeCorrect: Spec => []TypeOK` holds for any number of threads.  `TypeOK`
bounds `accepted[t]` by `MaxRequests`, which is not inductive: a thread at
`check` may still increment it.  The strengthening `AcceptBound` says
`accepted[t] + |Checking(t)| <= served`, where `Checking(t)` is the set of
threads at `check` holding `t`: `Receive` adds one thread and one request,
`Check` moves one unit from the set to the count.

`RecordedNeverAcceptedAgain: Spec => [][RecordedStaysRejected]_vars`, for
any number of threads: a triple in `transactions` stays there and its
`accepted` count never changes again.  It follows from `TypeOK` in one step
(`RecordedStep`): `Check` increments only a triple not in the set, and
nothing removes from the set.  Together with `payments_duplicate_race` it
locates the race: a duplicate passes only while the first request is
between line 59 and line 60.  It is not a run property: with one thread it
is implied by `AppliedAtMostOnce`, and with two the run is a violation run.

`SingleThreadImplementsLedger`: with `Workers = {w0}`,
`Spec => ImplementsPaymentLedger`.  The invariant `LedgerInv(w0)` adds to
`PayInv` that the balance the thread has read is still current when it
writes it (`tmp[w0] = balances[payer]` at `debit_write`, `= balances[payee]`
at `credit_write`): one thread has no one to interleave with.  Step by step
(`LedgerStep`): `Add` is `Pay(tx[w0])` (the triple is new by `PayInv`, and
the settled balances switch from `balances` to the paid ones); `DebitWrite`
and `CreditWrite` leave the settled balances as they were (shown pointwise
per user, payer and payee possibly equal); `Receive`, `Check` (including the
duplicate page), `DebitRead` and `CreditRead` are stutters.  The initial
state maps to `Ledger!Init`.  A note on the tools: tlapm reads `@` in the
second update of `[f EXCEPT ![a] = @ - x, ![b] = @ + x]` as `f[b]`, where
TLA+ (and TLC) read the value after the first update; the two models
therefore write the debit-then-credit as two nested EXCEPTs, which both tools
read alike.

Only model-checked: the liveness properties (`CascadeTerminates`,
`AllTrialsComplete`; TLAPS does not handle fairness or ENABLED);
and every property with more than one thread or process (where they fail,
see the violation runs).  `MoneyConserved` is neither proved nor claimed
for one thread (see the float finding); a proof would also need induction
over the fold `MapThenSumSet`, which the installed provers cannot carry out.

## 7. Not modelled

The plot and progress print (output only), the explorer and OBK plugin
(read-only or forwarding, no state), the notification receiver (atomic list
append), packaging.  In the wizard, `write_configuration` past line 123 and
`get_confirmation_key` are unreachable.  No model has a crash action: a
process killed between `write_config_file`'s truncation and its write leaves
the same empty file a concurrent reader sees in `config_concurrent`.
The notification receiver's only state is a list to which each request
appends one entry, an atomic step under the GIL; its one property would be
that the list only grows.  The block explorer's routes only call the
daemon's RPC and render the result, and the OBK plugin forwards each RPC call
as one HTTP post; neither keeps state between calls, so neither has a step
sequence for TLC to explore.  Packaging (`setup.py`) is static metadata.

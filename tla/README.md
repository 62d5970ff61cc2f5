# Verification of the Vaulta system contract

TLA+ models of `src/contracts/`, the TLC runs that check them on small chains,
and machine-checked proofs (TLAPS) for chains of any size. Paths below are
relative to the repository.

## The system

`contracts/system.entry.cpp` is a smart contract of an Antelope chain. It

* issues one token, called XYZ here (Vaulta, `$A`), whose whole supply it holds
  at first;
* swaps XYZ against EOS one to one in both directions: EOS sent to it is
  answered with XYZ (`on_transfer`), XYZ sent to it with EOS (`transfer`);
* offers `swapto`, a swap whose result goes to somebody else, and `blockswapto`,
  by which an account refuses to be that somebody;
* forwards the actions of the system contract `eosio`, so that users pay and are
  paid in XYZ for services that cost or yield EOS.

| part | source | state | operations | works with |
|---|---|---|---|---|
| XYZ token | `system.entry.cpp` 16-133 | tables `accounts` (balance, `released`, RAM payer), `stat`, `config` | `init`, `transfer`, `open`, `close` | notifies sender and receiver |
| swap | `system.entry.cpp` 141-203 | table `blocked`, the contract's EOS and XYZ | `on_transfer`, `swapto`, `blockswapto` | called by notifications of `eosio.token`; sends inline transfers of both tokens |
| forwarding | `system.entry.cpp` 236-544 | none of its own | `bidname` ... `noop`, `swaptrace`, `swapexcess`, `enforcebal` | inline calls of `eosio`, `eosio.token` and itself |
| `eosio`, mocked | `mocksys.entry.cpp` | RAM market, stakes, refunds, REX fund and pool | the actions forwarded | inline transfers of EOS |
| RAM prices | `include/system/oldsystem.hpp` | none | `get_bancor_input`, `get_bancor_output` | pure functions |
| `eosio.token` | `token.entry.cpp` | `accounts`, `stat` | `create`, `issue`, `issuefixed`, `setmaxsupply`, `retire`, `transfer`, `open`, `close` | notifies sender and receiver |

All actions run inside transactions. A transaction is sequential and undone as a
whole when a check fails, so nothing is lost, reordered or half persisted between
transactions. What is hard is inside one:

* **Re-entrancy.** A transfer notifies both parties, and the code of an account
  may send inline actions from its notification handler. They run before whatever
  was sent after them: a swap is four actions, and handlers run between any two.
* **Privilege.** The contract is deployed privileged (`tests/contract.spec.ts`,
  `tests/eosio.system_tester.hpp`). The chain asks neither whose RAM it uses nor
  whose authority its inline actions carry. The contract has to.
* **Values read early and used late.** `powerup`, `refund` and their like read an
  EOS balance, swap, call `eosio` and compare; `buyrambytes` swaps a price quoted
  before the swap.
* **Rows.** `sub_balance` erases a row and creates it again for its owner; rows
  are opened, closed and billed by different accounts.

`PROJECT.json` lists every such hazard at its line.

What makes each part correct:

* token: balances add up to the supply; nobody's tokens or RAM are used without
  his signature; `released` says who pays for a row;
* swap: the contract holds an EOS for every XYZ in circulation; a swap happens as
  a whole or not at all, at one to one; the reserve never fails a swapper;
* forwarding: a call deals in XYZ alone, costs what `eosio` charges, leaves a
  public trace, happens as a whole or not at all, and reaches `eosio` with the
  authority of a signer only;
* RAM prices: they keep the product of the market's reserves, and no round trip
  earns;
* `eosio.token`: the supply is what is held and stays below its maximum.

## Modules

| module | models |
|---|---|
| `SwapContract` | the XYZ token and the swap, and how a chain executes transactions |
| `AtomicSwap` | what the swap promises: the abstract specification |
| `SumLemmas` | lemmas about the sums of a table's entries |
| `SwapContractProofs` | theorems about `SwapContract`: types, peg, rows, signatures |
| `SwapPaymentProofs` | theorems about `SwapContract`: conservation, payments, the refinement of `AtomicSwap` |
| `RamPrices` | the prices of RAM and the fees on them, as pure functions |
| `RamPricesProofs` | theorems about `RamPrices` |
| `MockSystem` | `eosio` as the tests mock it; extends `SwapContract` and `RamPrices` |
| `Forwarding` | all forwarding actions; extends `MockSystem` |
| `ForwardingProofs` | theorems about `Forwarding`: types, authority |
| `CallProofs` | theorems about `Forwarding`: peg, conservation, traces, who spends, single calls |
| `FlowProofs` | theorems about `Forwarding`: what a call moves, from one inline action to the next; the refinement of `AtomicForwarding` |
| `AtomicForwarding` | what forwarding promises: the abstract specification; extends `AtomicSwap` |
| `EosioToken` | `eosio.token` by itself |
| `EosioTokenProofs` | theorems about `EosioToken` |
| `MC*` | the small chains TLC explores |

### SwapContract

`eos` are the balances kept by `eosio.token`; `xyz`, `payer` and `released` the
rows of table `accounts`; `blocked` and `supply` the other tables (`supply` is 0
until `init`). `pending` are the actions of the running transaction that are still
to execute. `Begin` pushes a transaction; `Run` executes the action at the head of
`pending` with everything it does (checks, debit, credit, inline actions, and the
answers of notified accounts); when nothing is pending the tables commit to
`saved`. `Reject` is a failed check and restores `saved`. Inline actions run depth
first in the order they were sent, nested at most `MaxInlineDepth` deep. An
`eosio.token::transfer` runs the handlers of the sender, then the receiver;
the contract's own handler is `on_transfer`.

One action of the model is one action of the contract, under the contract's name
(`InitToken` for `init`, `BlockSwapTo` and so on); `...Ok` are its checks. `MoveXyz` is
`sub_balance` followed by `add_balance`.

Accounts in `Coded` have code: `Reactions` says what their handlers may send, with
their own authority, and they may also fail. Two history variables serve the properties:
`donated`, the EOS that reached the contract without a swap, and `signers`.

Assumptions, all named: names are finitely many (they have 64 bits); the supply issued is
at least the EOS in existence (the README asks `init` for a supply that "should match the
EOS token supply"); no transaction carries the contract's own authority except for `init`
(`UserAction`); a handler acts with its own account's authority; the contract has no code but its own.

### AtomicSwap

The abstract specification has no transactions, notifications or rows. One step
exchanges EOS for XYZ, or XYZ for EOS, of the same amount, for the sender or for
an account that does not refuse; other steps send one token, issue the supply
once, block, or keep the EOS of `eosio.ram` and `eosio.stake`. `SwapsAreAtomic`
is the refinement: the committed tables of `SwapContract` implement it.

### RamPrices

`get_bancor_input`, `get_bancor_output`, the buyer's charge of `buyrambytes` and the
seller's fee, in exact integers. The code computes in doubles and truncates. For the
charge the two were compared outside TLC: `int(c / 0.995)` in doubles is
`c * 1000 \div 995` for every `c` below two million.

### MockSystem

The tables of the mocked `eosio` are added to those of `SwapContract`: `market`,
`net`, `cpu`, `refunds`, `fund`, `pool`, `staked`, `unstaking`. `fund`, `staked` and
`unstaking` are functions on the names that have a row, since the mock checks for
the row and the amount separately. `EosioX` is the mock's action `X`; it executes as an inline
action and sends inline transfers of EOS.

* `setrammarket` may not have been called: `market` is then `NoRow`, and the code, which does
  not check, reads a price from `Garbage`. Both contracts read, and need not
  read the same.
* `sellram` reads 32 of the 64 bits it is sent (`ByteRange`), and takes its fee
  before it pays, so that a seller without EOS is refused.
* Amounts of different symbols cannot be compared: `buyrex` and `withdraw` refuse what is not EOS (`HasFund`),
  `enforcebal` and `swapexcess` too. The mock's `buyram`, called directly, would try to transfer an
  amount of any symbol; the model transfers EOS, which is what the contract always sends it.
* A conversion of a quotient that has no integer value yields 0 once compiled.
* Actions the mock lacks, or that touch no table modelled (`QuietKinds`), do
  nothing or fail. `claimrewards`, which it lacks, pays any of `Rewards` or fails.
  `donatetorex`, which it lacks, takes the EOS it is given.
* The mock's actions are called through the contract, except `setrammarket` and
  `setrex`, by which its tests set the scene, and which carol's code also calls: several of
  the others trust their caller and serve tests only. The proofs allow any of them to be called directly
  (`SystemCall`) by the account it acts on, as the real `eosio` demands, and the two setters
  by anybody, with reserves that are not negative.
* `eosio` and `eosio.ramfee` are two accounts, and have no code that answers a transfer.

### Forwarding

`SwapBefore` and `SwapAfter` are `swap_before_forwarding` and
`swap_after_forwarding`; `CallAndSwapExcess` is the pattern of `refund`, `PassOn` that of
the actions which check a signature and call `eosio`, `PassOnInEos` that of those
which also exchange the symbol of an amount. An action named `X` is the contract's `X` and
sends `eosio::X`. Actions of `SwapContract` are executed by its own definitions
(`TokenStep`). Two more histories: `tracked` is what a follower of the published
actions computes, `running` the transaction under way.

`newaccount` and `setcode` are forwarded, but `Account` and `Coded` are constants: the
accounts and the code of a run are there from its start.

### AtomicForwarding

One step takes XYZ from a user for exactly the EOS that `eosio` gets, or gives XYZ for
exactly the EOS that `eosio` pays, with or without a change of what `eosio` owes
the user; or trades REX at no better than the pool's price. `CallsAreAtomic` is the refinement: on a chain
without code on the users' accounts, the committed tables of `Forwarding` implement it.

### EosioToken

One action of `eosio.token` per step, with the accounts that authorise it;
amounts may be invalid or beyond `MaxAmount`, precisions may not fit. Failed actions
change nothing and are not steps.

## Runs

| run | chain | shows |
|---|---|---|
| `swap` | two users, `eosio.ram`, a name without account; every operation and each check's refusal, one action per transaction | types, released flags, RAM consent, and the refinement of `AtomicSwap` |
| `reentry` | a user, `eosio.ram` and carol, who answers every transfer with one of nine reactions (one is silence, two block her or the user); transactions of up to two actions, the second of which swaps | peg, reserves, conservation, ownership and blocks under re-entrancy |
| `settle` | two users swapping for each other, blocking, closing rows (the contract's too), donations | a funded `swapto` is carried out (liveness) |
| `forwarding` | bob, carol with code that swaps, buys RAM or moves its price; with and without a RAM market | peg, traces, EOS neutrality of every forwarded payment |
| `staking` | bob, carol with code that stakes and swaps; a REX pool | nothing is lost in staking, deposits, withdrawals and refunds leave the EOS balance as it was, REX trades of positive amounts never earn, only signers spend |
| `calls` | bob calling services and alice signing in his name, nobody with code; `eosio` has EOS to pay | the refinement of `AtomicForwarding`, funded calls are carried out (liveness), consent |
| `deposits` | the same two with stakes, the REX fund and REX; bob has EOS to stake | the refinement and the liveness for what `eosio` holds |
| `ram_prices` | every market of up to `MaxReserve` units, every amount up to `MaxBytes` | the prices against their defining inequalities |
| `token` | four names, two precisions, amounts from -3 to 3 with a limit of 2 | supply, owners' and RAM payers' consent |
| `swap_row_payer` | as `swap` | the README's RAM payer of a new row is not the code's |
| `swap_before_init` | as `swap` | `blockswapto` works before `init` |

**Bounds.** Two or three units of EOS are enough for every comparison the code
makes (nothing, exactly enough, one too much, a rest after a debit). An inline depth
of 4 is the chain's default: a swap nests two levels, so carol can
call back in the middle of a swap and see her call back called back. Two users and one with
code are enough for a row to have an owner, a payer and a sender that differ. The chain of `reentry` gives
transactions of two actions since some orders (a swap after the contract's row was closed) need them in one
transaction. RAM reserves of 3 bytes against 2 or 4 units make prices of 0, 1, 2
and "impossible"; selling 5 bytes with `ByteRange` = 4 sells one, selling 3 three.
Powerups cost `OneEos` = 1, and at most 2 are offered, so there
is a rest to give back. The REX pool holds 2 EOS for 3 REX, so that trades of 1 and 2 round
down in both directions. `Garbage` and `Rewards` are 0 or 1: two prices that differ are
enough for the contracts to disagree, and nothing is a reward too.
`calls` and `deposits` are apart because the refinement and the liveness are checked over every
order of their calls, which multiplies the states of both.

**Fairness.** `Spec` is weakly fair in `Run \/ Reject`: a node finishes the
transaction it has started. Nothing is assumed about users (`Begin`), so
`SwapsSettle` says that a signed and funded `swapto` succeeds by itself, and `CallsSettle`
(under the same fairness in `ForwardingSpec`) that a funded call through the contract does. `Reject` does
not compete with `Run` unless an account with code is notified, or `eosio` may refuse for
reasons not modelled, which `CallsSettle` leaves out.

**The two divergences.** The repository's README says that a row created by `transfer` is paid
by `from`; `add_balance` bills the contract unless the receiver signed. It also
says that `init` must precede every other action; `blockswapto` does not need it.

## Proofs

All theorems hold for any accounts, handlers, transactions, amounts and inline depth, under the
assumptions named above. A module of theorems extends the module it is about.

**How invariants are carried.** `Reject` restores `saved`, so each inductive invariant states of `saved`
what it states of the current tables. `Run` executes one action and puts what it sends before
the rest, so each states what every pending action may be (`HonestAction`, `PayableAction`,
`CallAction`), and lemmas show that whatever the contract and the handlers send is such an
action. The proof of a step has a lemma for each kind of action.

`SwapContractProofs`:

* `TypeCorrect`: `TypeOK` always holds. No debit overdraws.
* `PegHolds`: `Backed` always holds. `Backed` is about committed tables and says
  nothing during a transaction, so it is not inductive. `PegInv` adds what is owed:
  the contract's EOS is the circulation plus donations plus the amounts of the
  transfers, of either token, that the contract has sent and that are still pending
  (EOS it has yet to pay for XYZ it took back, XYZ it has yet to pay for EOS it
  got). The sum is stated by the existence of a running tally along
  `pending` (a function from positions to integers). Lemmas say how the tally changes when the head executes
  and when actions are put in front; reactions owe nothing, since they never carry the contract's
  authority. When nothing is pending the tally is 0 and `Backed` remains.
* `ReleasedIsRight`: `ReleasedIffOwnerPays`, from `RamInv`, the same of the current and of the
  saved tables.
* `RamIsBilledWithConsent`: the action property, from the type invariant.
* `NobodyElsePays`: `OnlySignersPay`, from `SignersInv`: whoever has no code and
  has not signed has not lost anything since the transaction began, and no pending
  action carries his authority.
* `BlocksHold` and `OnlyOwnersAreBlocked`: `BlockedAsBefore` of the tables in the middle of a transaction, so that
  what `swapto` read of table `blocked` still holds when its halves run, and `OnlyOwnersBlock` of the
  committed ones, from `BlockInv`: no pending `blockswapto` has the authority of an account that has neither signed nor code.

`SwapPaymentProofs`:

* `NothingIsLost`: `Conserved` always holds, and of `saved` (`ConservedInv`). A transfer changes two
  entries of a function; what that does to a sum is `SumLemmas`.
* `SwappersArePaid`: `SwapsPay`, no check fails a payment of the contract to a swapper.
  `PayInv` joins the tally of `PegInv` with conservation: XYZ in circulation never exceeds
  the EOS outside `Ignored`, so each half of a swap that the tally still owes finds the
  other half in the reserves.
* `SwapsAreWhole`: the refinement `SwapsAreAtomic`, under `SwapsAlone`: nobody has code, a
  transaction is one action, and a `swapto` is not asked for by `eosio.ram` or `eosio.stake`
  (the EOS those send is kept, so their `swapto` takes EOS and gives nothing, which the abstract
  specification does not have; no run has one). `AtomicInv` lists the stages of
  a transaction: pushed, its two transfers left, one left; it gives the tables of each as moves
  from `saved`. The last stage commits one step of `AtomicSwap`; all others stutter.
  `MCSwap` asserts `SwapsAlone` of the chain TLC explores.

`ForwardingProofs`, `CallProofs`, `FlowProofs`, about all forwarding actions with the mocked `eosio`:

* `SystemTypeCorrect`: `SystemTypeOK`, every table of both contracts keeps its type;
* `CallsAreConsented`: `ForwardedWithConsent`. Both come from `CallInv`: a pending action carries the
  authority of signers, of accounts with code, of the contract or of `eosio`, and amounts that the
  contract has checked are positive; a `swaptrace` of the contract is always the very next action;
* `PegHoldsWithCalls`: `Backed`, from the same tally: forwarding sends transfers that are
  actions the tally already knows, and `eosio` and its handlers owe nothing;
* `CallsLoseNothing`: `Conserved`, of `Forwarding` as well;
* `TrackersKnowBalances`: `TrackersAgree`, from `TrackInv`: the followed balances are right but for the `swaptrace`
  that is next;
* `NobodyElseSpends`: `OnlySignersSpend`, from `SpendInv`: EOS, XYZ, and what
  `eosio` owes in stakes, refunds, fund and REX, of everybody who has not signed;
* `BuyrambytesKeeps`: `BuyrambytesKeepsEos`, even for a buyer whose code swaps or moves
  the price in between. `BytesInv`: until it runs, the last pending action is the
  `enforcebal` of the buyer's balance at the start; handlers only put actions before it;
* `TradesGainNothing`: `TradesNeverGain`, of trades of positive amounts. `TradeInv`: a transaction of a trade changes no table of
  `eosio` before the one call that trades; the rest is arithmetic about quotients.
* `CallsKeepEos`: `ForwardingKeepsEos`, and `StakingIsFree`: `StakingKeepsWorth`. Both compare the tables at the
  commit with those at the start, up to seven inline actions apart, and come from `FlowInv`: a transaction of one
  call by an account without code is at one of eleven stages. `Flow` gives the tables of a stage as shifts from `saved`: the
  EOS of the user, the contract, `eosio` and `eosio.ramfee`, the user's XYZ, and what `eosio` holds for the user. Each stage
  says what is pending and how the shifts are related. A call that swaps first goes through `Traced` and `Credited` (XYZ debited,
  EOS on its way), `Called` (the user has the EOS), `Charged` (`eosio` has recorded it, its transfer is left); one that is
  paid first through `Claiming`, `FeeTaken` (of a RAM sale) and `PaidBy`. In `Ending` only the action that swaps or checks the
  rest is left, in `Swapped` the XYZ for it. `Passed` and `Trading` move no EOS. `Due` ties
  the last pending action to the EOS the user has too much, so
  nothing is too much when nothing is left.
  `StakingKeepsWorth` says nothing of `eosio.ram` and `eosio.stake`: their swap back is kept as a donation.

* `CallsAreWhole`: the refinement `CallsAreAtomic`, under `CallsAlone`. A mapped state is the saved tables, so a step
  of `AtomicForwarding` is the commit of a call and everything before it stutters. `CallsInv` joins what
  the commit needs: the stage of the call (`FlowInv`), the price of a trade (`TradeInv`), the sums of the balances, no fund
  below 0 and no pool without REX (`FundsIn`, of the current and of the saved tables); and for a transaction
  that is no call the stages of `AtomicInv`. `Moves` says which shifts were committed, `Holds` that the
  saved balances allow them; one lemma per action of `AtomicForwarding` (`Charge`, `Pay`, `SellWithFee`, the trades, `SetPool`) shows
  that such shifts are that action.

`CallsAlone` says of the transactions that each is one action and nobody has code (`SwapsAlone`); that a trade of REX
is of a positive amount (the mock does not check it, the real `eosio` does); that `eosio` is called directly only
by the two actions that set it up, the pool with some REX; and that `eosio.ram` and `eosio.stake`, whose EOS is kept without
a swap, do not call. `MCCalls` asserts it of both chains TLC explores.

`RamPricesProofs` proves, for all reserves and amounts, that `RamPrices` gives the Bancor price rounded
down (`InputIsBancor`, `OutputIsBancor`), that no round trip earns (`RoundTripsNeverGain`) and that the
fees are half a percent to within a unit (`FeesAreRight`). These are theorems about exact integers, as `RamPrices` is;
the code computes the quotients in doubles.

`EosioTokenProofs` proves the four properties of `EosioToken`: `NoOverflow` (`TypeOK`) and
`SupplyHolds` from `TokenInv`, which joins the two: a balance cannot exceed the supply that is its
sum, nor the supply the limit; `OnlyOwnersSpend` and `OnlyConsentingPayers` from the types.

**Sums.** `SumFunction` of the community modules folds over a set picked apart by `CHOOSE`. `SumLemmas` shows that the
value does not depend on the order and how it changes when one or two entries do. The provers have no
induction, so each fact is proved by a minimal counterexample: a set of least
cardinality at which it fails, and a contradiction from the set without one element.

**Only model-checked.** `SwapsSettle` and `CallsSettle`: liveness is beyond the provers.

## Not modelled

Memos; wording of errors; CPU, NET and RAM quotas; EOS rows and their RAM in
`SwapContract` (`EosioToken` has them); the RAM of table `blocked`; the width of
amounts, which asset limits keep far from overflow (the bytes of `sellram` have
theirs); the rounding of `double` prices (`buyrambytes` and `eosio` compute the same
expression, and `enforcebal` refuses a difference).

Of the mock, the tables that no code here reads: `lastaction`, `votes`, `rexbal`, and
`bidrefunds` with the test-only `insertrefund`. Of the real `eosio`, all the mock
leaves out: it is in another repository. Creating accounts and installing code
while the model runs. Tests, build and deployment scripts, which have no behaviour of the
contract.

## Plan

Done: every module listed above; theorems for every invariant and every action property the runs check,
and for both refinements. Only liveness is left to TLC alone.

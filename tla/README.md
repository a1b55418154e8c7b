# TLA+ models of the indicator HTLC bridge

The repository moves *indicator tokens* (units that stand for a measured
indicator: CO2 removed, energy used) between an EVM chain and Neutron. A transfer
is a hash time-locked pair: units are escrowed at the source under a hashlock,
minted at the destination by whoever knows the secret before a deadline, and then
burned at the source, or returned to the sender after a later deadline. Axelar GMP
carries two messages per transfer: *prepare* (source to destination) and the *burn
callback* (destination to source). Both directions exist on both contracts. A set of
Node.js scripts drives transfers, measures them and cleans up after them.

This directory holds the specifications of the contracts, of the bridge they form and
of the scripts that use it, the TLC instances that check them, and the proofs.

## 1. Inventory

| Component | State | Operations | Talks to |
|---|---|---|---|
| Indicator token, `evm-contracts/IndicatorToken1155.sol` | balances per class, the class registry (two inverse mappings, a bound flag, a counter), the one bridge | `setBridge`, `createTokenClass`, `mint`, `mintInitialSupply`, `burnFromBridge`, ERC-1155 transfers | called by the bridge, the owner, holders |
| EVM bridge, `evm-contracts/BridgeHTLC.sol` | `locks` (outgoing), `pendingMints` (incoming), revealed secrets, per-user index, pull payments, totals, minimum bounty, authorised source, native balance | `lockForBurn`, `claimBurn`, `refundBurn`, `withdrawPending`, `_execute` (callback and prepare), `claimMint`, `refundMint`, `setMinBounty`, `setAuthorizedSource` | the token (synchronous calls), the Axelar gateway and gas service, bounty recipients |
| Cosmos contract, `cosmwasm-contract/src/` | `HTLC_LOCKS` (incoming), `OUTBOUND_LOCKS`, ledger and supplies, class registry, statistics, authorised senders, the bank account | `prepare_mint`, `claim_mint`, `refund_mint`, `lock_for_burn`, `claim_burn`, `refund_burn`, `create_token_class`, `transfer`, `withdraw_funds`, add/remove sender | Axelar through an IBC transfer with a memo, Neutron's feerefunder, the bank |
| GMP and IBC (external) | messages sent | deliver, deliver again, never deliver; IBC packets acknowledged or returned | both contracts |
| Deployment, `scripts/deploy-*.js` | the initial state of everything above | deploy, `setBridge`, register the class on both sides, authorise the counterpart | the contracts |
| Evaluation driver, `scripts/htlc-evaluation.js` | the list of runs in memory and `evaluation-results.json`; the secret in memory only; a retry counter | per run: lock, poll for the relay, claim, wait for the callback, burn by hand; record, save, summarise; the refund test | both chains through RPC nodes, the file |
| Campaign runner, `scripts/campaign-runner.js` | `campaign.pid`; the results file, which it only reads | acquire the guard, read progress, spawn a batch, wait, sleep, stop; signals | the evaluation driver (a child process), launchd, other runners |
| Single-transfer scripts, `htlc-quick-test.js`, `htlc-reverse-test.js`, `bounty-demo.js`, `refund-locks.js`, `cancel-pending.js` | `htlc-state.json` (secret and status of one transfer), results files; the accounts' nonces | the commands of an operator: lock, claim, burn, refund, replace a stuck transaction | both chains through RPC nodes, the files |
| Analysis, `campaign-analyze.js`, `campaign-cost.js` | none | percentiles, CDF, the two legs of a run joined, a paged listing | the results file, explorers |
| Queries, codecs, Axelar mocks | none of their own | | |

What is hard here: two chains that only share late, lossy, repeated messages; two
clocks that decide two deadlines of the same transfer; three parties racing to
settle one escrow (callback, monitor, refund); one hashlock namespace shared by
two directions and keyed by text on one side; payouts that can fail inside a
settlement; administration while transfers are open; one bank account that holds
bounties, IBC fees and orphaned refunds together; scripts that time out, retry, lose
the answer to a transaction that is mined all the same, or are killed with the only
copy of a secret; one file rewritten by several processes that a pid file is to keep
apart. `PROJECT.json` lists these hazards one by one, at their lines, with the
properties aimed at each.

What makes each component correct:

* token: a class has one meaning for ever; only the bridge's own units burn;
* EVM bridge: escrows and bounties are always backed, one settlement per lock, one
  decision per mint, nothing burned or minted without the secret;
* Cosmos contract: the same, plus supply and statistics that never underflow;
* the bridge: a transfer is never both refunded and minted, units are conserved,
  every transfer ends, whatever GMP does;
* the scripts: what they report is so on the chains, none of them burns an escrow
  that was not minted, each ends, and no escrow is stranded by their failures;
* the campaign: one batch at a time, no record lost, the target reached and not
  passed.

## 2. Modules

| Module | Models | Extends / instantiates |
|---|---|---|
| `IndicatorToken1155` | the token | |
| `BridgeHTLC` | the EVM bridge with its token | EXTENDS `IndicatorToken1155` |
| `TokenBridgeReceiver` | the Cosmos contract | |
| `AtomicTransfer` | what the bridge promises of a transfer (abstract) | |
| `CrossChain` | both contracts, GMP, two clocks, the monitor | EXTENDS `BridgeHTLC`, `Cosmos == INSTANCE TokenBridgeReceiver`, `Atomic == INSTANCE AtomicTransfer WITH ...` |
| `BridgeClient` | the bridge as a script meets it: nonces, lost answers, late blocks, other parties; what all scripts share (send, wait, retry, poll, be killed) | |
| `HtlcEvaluation` | `htlc-evaluation.js`, run by run | EXTENDS `BridgeClient`, `Batches == INSTANCE EvaluationBatch WITH ...` |
| `TransferScripts` | the single-transfer and operator scripts | EXTENDS `BridgeClient` |
| `ClientScripts` | one script at work beside its operator | EXTENDS `HtlcEvaluation`, `TransferScripts` |
| `EvaluationBatch` | what batches do to the results file (abstract) | |
| `CampaignRunner` | runners, their guard, their batches | EXTENDS `EvaluationBatch` |
| `CampaignStatistics` | the computations of the two analysis scripts, as operators | |
| `SumTheorems` | lemmas about sums over finite sets | EXTENDS `FiniteSetsExt`, TLAPS |
| `BridgeHTLCProofs`, `BridgeRecordProofs`, `BridgeSumProofs` | theorems about `BridgeHTLC` | EXTENDS `BridgeHTLC`; the other two EXTEND `BridgeHTLCProofs`, the last also `SumTheorems` |
| `TokenBridgeReceiverProofs` | theorems about `TokenBridgeReceiver` | EXTENDS `TokenBridgeReceiver`, `SumTheorems` |
| `CrossChainProofs` | theorems about `CrossChain` | EXTENDS `CrossChain`, `BridgeSumProofs` |
| `ClientScriptsProofs` | theorems about `ClientScripts` | EXTENDS `ClientScripts`, TLAPS |
| `CampaignRunnerProofs` | theorems about `CampaignRunner` | EXTENDS `CampaignRunner`, TLAPS |
| `MC...` | the values of constants and start states for TLC | EXTENDS its module |

Conventions for the contracts. One action is one successful transaction; a revert, an
error or a panic rolls everything back and is no step, so the `require`s and `Err`
returns are guards. A GMP message that `_execute` ignores only emits an event and is no
step either. Names are those of the source. Hashes, secrets, addresses and recipients
are atoms; keccak is an injective function `HashOf` (`Keccak` for profiles). Where text
matters it is kept: the Cosmos contract keys its maps by the string the caller typed
and compares hashes without regard to case, so `HashText`/`HashOfText` and
`IndicatorText`/`IndicatorOf` separate a spelling from its value. Constants of the
code (`COSMOS_TIMEOUT_BUFFER`, `IBC_ACK_FEE`, ...) are CONSTANTS under ASSUMEs as
weak as the proofs and the code need.

Conventions for the scripts. One value of `pc` per point where a script talks to a
chain or to the disk, so that anything may happen between two of them, a kill
included. Console output, gas prices and the measured times are left out.

Correspondence, beyond the table of `PROJECT.json` ("map"):

* *BridgeHTLC.* `BurnEscrow` is the common body of `claimBurn` and of the 64-byte
  branch of `_execute`; `PayBounty` is `_payBounty`, where paying an account with
  code may fail and is then credited. `evmCalls` collects every
  `gateway.callContract`. `TokenActivity` and `ChangeBridge` let the token live its
  own life meanwhile: holders transfer, the owner mints, adds classes and moves the
  token to another bridge, which mints and burns for itself. `_execute` is not
  `nonReentrant`, and it calls the recipient of a bounty: after that call only an event
  follows, or, when it failed and all it did was undone, the credit of the bounty. What
  a recipient does from inside the call is therefore what the same transactions do
  after it, which the model allows.
* *TokenBridgeReceiver.* A message leaves in an IBC transfer (`ibcInFlight`);
  `IbcAccept` and `IbcReturn` are the channel's answers and the feerefunder's
  returns, external to the repository. `bankUntrn` is the contract's one account:
  bounties, unused fees, returned fees. `bankSent` is a history of what left it, by
  who called and who got it; nothing in the model reads it. `SendUntrn` is a
  `BankMsg::Send`: it fails when the account has too little, and also for an amount
  of 0, which the bank refuses.
* *CrossChain.* `RelayToCosmos` and `RelayToEvm` deliver any message ever sent,
  any number of times: loss, delay, repetition and reordering need no action.
  They do what the codecs do: a word becomes lower-case hex or a decimal string.
  The environment assumptions are constants and guards with names: `MaxSkew` (the
  two block clocks), `Monitored` (somebody burns an escrow whose mint exists, and whose bounty can be paid
  (`Payable`), before its refund opens: the purpose of the bounty), `CarefulSenders` (fresh hashlocks,
  secret kept until claimed; used for liveness only).
* *BridgeClient.* The contracts are reduced to what they accept (`SourceAccepts`,
  `DestinationAccepts`): the states and deadlines the modules above model in full. A
  transaction is queued per account in nonce order (`pool`) and mined later; its sender
  may wait for it (`receipt`), may lose the answer or be failed by its node while the
  transaction goes on, and a revert is a receipt too. `retryWithBackoff` is `Retry`.
  `clock` says which deadlines of a transfer have passed. Answers lost, kills, failed saves
  and cancelled transactions draw on one budget (`faults`); reads of a chain may fail at
  any time, for nothing. The `transfer` field of a record is no field of the file: it
  tells which transfer the record is about. `runNumber` is the variable of `runBatch`: it
  counts from what the file held when the batch began, not from the list.
* *HtlcEvaluation, EvaluationBatch, CampaignRunner.* `HtlcEvaluation` implements
  `EvaluationBatch` (property `ImplementsBatch`), whose actions are one per run, and
  `CampaignRunner` is built on the latter: the retries of a transfer do not matter to
  the campaign. A save that throws inside the try block is `SaveThrows` in both: the
  catch block pushes a second record of the run (`pc = "resaving"`, `failing` of a
  batch) and the save after it writes both (`KeptTwice`). A save that throws anywhere else
  ends the process, which is `Kill`. The pid file has the values a runner can find in it: none, a live
  runner, empty (truncated and not yet written), the pid of a dead process, or that
  pid in the hands of another program. `acquireLock` is three steps (look, probe,
  write), and the write is two. `overlapped`, `orphaned` and `reused` record that what
  the guard does not cover has happened.

Definitions commented as *mutant* (`SettledByDelete`, `HashlockUnlocked`, ...) are
broken versions of the operator they precede. They are used by nothing; each shows
that a property notices the mistake ("mutants" in `PROJECT.json`).

## 3. Runs

| Run | Question | Instance |
|---|---|---|
| `evm_both_directions` | both directions under one hashlock, with a token that changes bridges: escrow, secrets, messages, single settlement; do only a bridge's own units burn; does everything local end? | 3 accounts (one with code), 1 hashlock, 2 instants of 30 minutes = the minimum timelock; fair |
| `evm_forward` | concurrent locks: is every escrow, bounty, total and index exact? | 2 lockable hashlocks and the zero hash, amounts 0..2, 2 deadlines |
| `evm_reverse` | concurrent mints of two classes under a changing source and registry; does a class keep one meaning? | 2 hashlocks, 2 classes, 2 sources |
| `cosmos_registry` | the Cosmos contract from `instantiate` | 2 class ids (one not numeric), 2 indicators |
| `cosmos_holding` | both directions, bounties, IBC, withdrawals; does everything local end? | a start state, reachable from `instantiate`, in which an earlier transfer has put 2 units in circulation; `min_bounty` 0, bounties 0, 1 and 3, amount 2; fair |
| `cross_chain` | the whole bridge against `AtomicTransfer` | 1 unit, 2 hashlocks, both directions, quarter hours, skew 1, buffer 2, 5 instants |
| `cross_live` | does every transfer end without GMP? | the same, with careful senders, `min_bounty` 0 and bounties of 0 and more; fair |
| `clients` | do the scripts report the truth, burn only what was minted, end, and leave no escrow behind? does `HtlcEvaluation` implement `EvaluationBatch`? | each script, 2 transfers (1 for the reverse test), 2 attempts per call, 1 fault, 2 records; fair |
| `campaign` | does the guard keep batches apart, is every record kept, is the target reached and not passed? | 2 runners, 2 batch processes, 3 days, target 2 on 2 days, batches of 2, 1 session a day, 2 faults; fair |
| `evm_refund_mint_frees`, `cosmos_freshness`, `cosmos_indicator` | expected violations, section 5 | as the runs above |

`MCCampaignRunner` also compares the operators of `CampaignStatistics` with their
definitions, as ASSUMEs over bounded inputs: percentiles are nearest ranks, the CDF
counts what it says, what is missing changes nothing, pages add up to the listing, the
join loses no row. `MCCrossChain` has TLC evaluate `OneSpelling`, a hypothesis of the
theorems.

Why the bounds suffice. The locks of different hashlocks only meet in sums (escrow,
bounties, totals, supply) and in shared registries, so two concurrent ones show an
error in one being paid by the other. Time only appears in comparisons between a
clock and a deadline: the instances have instants before, at and after each
deadline, and a buffer larger than the skew, as in the code (30 minutes against
block clocks). Amounts 1 and 2 tell apart two locks; zero and the largest value are
there where a guard speaks of them. In `cross_chain` one unit goes there and back,
which is what an unlawful second use of it needs. In `clients` two transfers of one
batch show what the first leaves to the second (a nonce queue, a list, a stranded
escrow), and the one fault can fall on any step; two attempts are a retry. In
`campaign` two runners and two faults give a killed runner, a stale file and a second
runner meeting the first one's restart; a target of two runs on two days needs a
batch that is capped and one beyond the target. Every bound is a CONSTANT with the
comment "bound of an instance" where it guards an action. After a disturbance
(`overlapped`, `orphaned`) `campaign` injects no more faults, since its safety
properties no longer speak of those states. Deadlock is not checked: a bounded clock
must stop, and when every lock is settled, or every script has ended, nothing has to
happen.

Fairness. `EvmFairness`, `CosmosFairness`: blocks are produced; `refundMint` is
permissionless; a sender whose timelock has passed wants its escrow back and so
eventually calls the refund. `CrossFairness` adds that somebody takes the bounty of a
burn whose secret is public. `ClientFairness`: a script that does not wait for a block
goes on, blocks are mined, time passes, and an operator with expired escrows runs the
refund command until a node takes its transaction (strong fairness: other scripts and
faults interrupt it). `CampaignFairness`: launchd restarts a runner that did not exit
with 0, a runner started by hand is started again after such an exit, runners and batches
go on, days pass. Of GMP, IBC, monitors and nodes answering nothing is assumed, but of the
faults: an instance has a bounded number of them (lost answers, kills, failed runs and
saves), so that after the last one batches succeed. `CampaignEnds` rests on that. A
deadline beyond the last instant of an instance is exempt in the liveness properties, and
so is an outbound Cosmos lock whose bounty is 0, which the code never settles (section 5).

`ClaimsCloseBeforeRefunds` and `NoDoubleSpend` need `MaxSkew < COSMOS_TIMEOUT_BUFFER`
(resp. `EVM_TIMEOUT_BUFFER_SECS`), an ASSUME of `CrossChain`, and `NoDoubleSpend` needs
`Monitored`: without a monitor TLC finds the known trace in which the callback is
lost and the sender takes the refund after the mint.

The properties of `campaign` are about undisturbed executions: `OneBatch`,
`ResultsNeverShrink` and `NoOvershoot` hold until two runners are inside
`acquireLock` at once or a batch outlives its runner, and `CampaignEnds` excuses a
reused pid and a results file that stays torn (one torn by a failed save is whole again
after the save of the second record, unless a kill comes first). These are the ways the guard does fail; section 5
lists them.

## 4. Proofs

All theorems hold for every value of the constants that satisfies the named ASSUMEs of
the modules (`TokenAssumption`, `BridgeAssumption`, `ReceiverAssumption`,
`CrossAssumption`, `CampaignAssumption`).

**`BridgeHTLCProofs`**

* `TypeCorrect`: `EvmSpec => []EvmTypeOK`;
* `SettlesOnce`, `MintsDecideOnce`: the action properties `LockSettlesOnce` and
  `MintDecidedOnce`;
* `SecretsSettle`: `[]SecretBehindSettlement`;
* `RegistryStaysConsistent`: `[]RegistryConsistent`;
* `MintsKeepTheirMeaning`: `[]MintsBoundToIndicator`;
* `MessagesMatchLocks`: `[]MessageMatchesLock`.

Type correctness is inductive by itself: one lemma per action, each settled by what
the action does to balances (`MoveKeepsRange`, `BurnKeepsRange`, `MintKeepsRange`) and to
lock and mint records (`SettledIsLock`, `DecidedIsMint`). A second layer of lemmas
condenses every step of `EvmNext` into what it may do to one hashlock's records
(`StepOfHash`: a lock appears, settles or stays; a mint appears, is decided or stays; a
secret is revealed exactly with the last two). The action properties and
`SecretBehindSettlement` follow from that layer. `RegistryConsistent` is inductive: its
clause "an unbound class has no units" is what keeps a transfer or an escrow out of
classes that do not exist. `MintsBoundToIndicator` and `MessageMatchesLock` are inductive
relative to it, because a binding is permanent and an escrow of a positive amount is of
a bound class.

**`BridgeRecordProofs`**, on top of that layer

* `BindingsStay`: `BindingIsPermanent`;
* `CallbacksMatchMints`: `[]CallbackMatchesMint`. A step sends at most one callback, with
  the mint it claims (`CallbackSent`), and what is said of a claimed mint stays true;
* `UserLocksStayExact`: `[]UserLocksExact`. A step appends one hashlock to its sender's
  list, one whose lock was empty and hence is in no list (`LockOpened`), or no lock
  appears and none changes its owner (`OwnersStay`).

**`SumTheorems`**

Every account of the system is a sum over all locks, holders or classes, written with
`SumFunctionOnSet`. The lemmas are the few an account needs: a sum changes by what its
one changed term changes (`SumChanges`, `SumChangesTwice`), bounds each of its terms
(`SumBounds`), and is 0 when they all are (`SumOfZeros`). A sum is computed by a fold,
that is by recursion over subsets, and the library's induction theorems cannot be used
with the provers at hand. `SetInduction` takes their place: a non-empty set of subsets
of a finite set has a minimal member, so a claim about all subsets is proved by refuting
its smallest counterexample. The sets summed over must be finite, which the ASSUMEs of
the modules say: accounts and hashes are words or texts of bounded length.

**`BridgeSumProofs`**, with those lemmas

* `EscrowStaysBacked`: `[]EscrowBacked`;
* `NativeStaysBacked`: `[]NativeBacked`;
* `TotalsStayExact`: `[]TotalsAccountForLocks`;
* `SettlementsAlwaysFit`: `[]SettlementFits`, a corollary: an open lock has its units, its
  bounty and room in both totals, and its sender has room for the units a refund returns
  as long as the supply of the class is below 2^256. So no addition or subtraction of a
  settlement, each a guard of the model, keeps a lock from settling. The condition is
  needed: the token checks each balance and no supply, so with a larger supply the sender
  can hold too much to be refunded (it may burn or move units first). That the sender
  is not the bridge itself (`LockedByOthers`) is why its own units do not count twice;
* `OnlyBridgeHoldingsAreBurned`: `OnlyBridgeHoldingsBurn`.

Steps are condensed once more, to entries in the books (`BooksStep`: a lock is entered,
settled, a credit is withdrawn, or nothing is). Each account changes by the same number on
both sides of its equation. Holders may send the bridge units of their own, minters mint
to it, and another bridge burns only what that one holds: `EscrowBacked` is therefore an
inequality, which such steps can only widen, while `NativeBacked` is an equation.

**`TokenBridgeReceiverProofs`**

* `RecordsKeep`: `[]RecordInv`, the inductive invariant: `Stored` (the types of records,
  classes and messages) and `OpenRecords` (a pending mint has no secret, an open lock
  has its bounty, a locked class is registered);
* `InboundDecides`, `BountiesArePaid`: the action properties `InboundDecidedOnce` and
  `BountyPaidOnSettlement`. The latter speaks of the caller: in the step that settles a
  lock, `bankSent` grows by the whole bounty, in the entry of this caller and of the
  payee the code promises (the caller who claims and is no relayer, else the locker), and
  it changes in no other step but a withdrawal of the owner's;
* `MintsKeepRegistry`: `[]MintsMatchRegistry`;
* `MessagesStemFromLocks`: `[]MessagesMatchLocks`;
* `StatsStayExact`: `[]StatsAccountForLocks`;
* `SupplyStaysExact`: `[]SupplyMatchesHoldings`;
* `CosmosTypeCorrect`: `[]CosmosTypeOK`;
* `BountiesStayBacked`: `[]BountiesBacked`, under `OwnerSparesBounties`;
* `SettlementsSubtractExactly`: `[]SubtractionsFit`, a corollary of these: no subtraction
  of a settlement panics (`-=` in `claim_mint`, `refund_mint`) or saturates.

Every step is condensed to what it does to one key of either map (`InboundStep`,
`OutboundStep`); the properties follow from those. `OpenRecords` says what a record has
for as long as it is open; `min_bounty` may be 0, so that an open lock's bounty may be, and
nothing is proved from its being positive: what leaves is known from `bankSent`.
The statistics
are inductive with `RecordInv`. For supplies the induction needs the ledger beside the
records: a class's supply is its balances plus its open outbound locks, and a step moves
one of them (`LedgerStep`). `CosmosTypeOK` is a consequence and could not come first:
`claim_mint` checks only that the total supply does not overflow, and that a balance stays
below 2^128 with it follows from the sums. `BountiesStayBacked` is false without its
hypothesis, since `withdraw_funds` may empty the account.
The theorems are about `CosmosSpec`; the run
`cosmos_holding` starts from a state that specification reaches.

**`CrossChainProofs`**

* `EndsAgree`, `DestinationsMatch`: `[]Agreement`, hence `[]DestinationMatchesSource`;
* `ClaimsCloseFirst`: `ClaimsCloseBeforeRefunds`;
* `MintsBehindSources`, `NoTransferDoubles`: `[]MintsHoldTheirSource`, hence
  `[]NoDoubleSpend`;
* `PhasesFollow`: every step takes every transfer along an edge of `AtomicTransfer`, or
  leaves it, and the amount of a transfer that has left "idle" stays;
* `UnitsStayConserved`: `[]UnitsConserved`;
* `BridgeIsAtomic`: `ImplementsAtomicTransfer`, the refinement of `AtomicTransfer`, its
  spendable units included.

The inductive invariant `Agreement` says: records have their shapes; the clocks are at
most `MaxSkew` apart; what a prepare message says, still on its way or delivered, is
what its lock says; and a refunded lock is past its timelock. The messages must be in
it because a mint may appear at any time from a message sent long ago. Steps of either
contract are condensed to moves of the four records a hashlock may have (`EvmMove`,
`CosmosMove`, `ClockMove`; lemma `EveryStepMoves`), and each part of the invariant is
shown for the moves. A claim is then earlier than its source's refund by arithmetic:
deadline plus buffer is the timelock, and the skew is below the buffer. That this order
survives until the burn is `MintsHoldTheirSource`, which is where `Monitored` enters.

Units need more of the records than their agreement. `Books` says that whatever is
recorded is owed by or to an account other than the bridge's own, in the one class, with
a positive amount, and that no other class has been registered; `Sent` says that what is
on its way names existing hashlocks and that class; `Lawful`, a consequence of these with
`MintsHoldTheirSource`, which combinations of the ends of a transfer exist. With them a
step is one of `TransferMoves` (a transfer is opened, delivered, burned or returned, or
units only change hands), each moves the same number between spendable units and units
held by transfers, and each is an action of `AtomicTransfer`. `CrossAssumption` has
`GenesisHolder # This`: the genesis units belong to the deployer's account. Were they the
bridge's own they would not be spendable to begin with.

Hypotheses. `OneSpelling`: each hashlock and class has one text on the Cosmos side, the
one the EVM contract writes; with two spellings a hashlock may be used twice, as
`cosmos_freshness` shows. `Monitored`: for `MintsBehindSources`, `NoTransferDoubles`,
`PhasesFollow`, `UnitsStayConserved` and `BridgeIsAtomic`; without it they are false. A Cosmos
lock whose bounty is 0 needs no monitor (`Payable`): it cannot be refunded either.
`EndsAgree`, `DestinationsMatch` and `ClaimsCloseFirst` do without the hypothesis.

**`ClientScriptsProofs`**

* `ClientTypeCorrect`: `[]ClientTypeOK`;
* `BurnsNeverLead`: `[]BurnsFollowMints`, under `OperatorFollowsPrompts`;
* `ReportsStayTrue`: `[]ReportsAreTrue`, under `OperatorFollowsPrompts`;
* `EvaluationIsBatch`: `ImplementsBatch`, the refinement of `EvaluationBatch`, without
  hypotheses.

They hold for any number of transfers, attempts, faults and records. Types need two more
facts (`TypeInv`): each script stays within its own values of `pc` (`InItsScript`), and a
batch never starts more transfers than there are (`Counted`). `ScriptInv` is what a script
knows at each place. `OneAwaited`: it has one transaction in the pools that it waits for,
and a receipt only once that has left them. `ReceiptIsTrue`: a receipt that says "ok"
means the operation has taken effect. `PlaceIsTrue`: a script past a claim has its units
minted, past a burn its escrow burned, and so on; this needs `ReceiptIsTrue` where it
waited, and the chain's own state where it looked. `BurnsWait`: every `claimBurn` in a
pool or on the operator's list is of a minted transfer, since the place it was sent from
says so and mints are for ever. `RecordsAreTrue`: what memory and the files say holds.
Without `OperatorFollowsPrompts` `claim-evm` may be run first, and `BurnsWait` and what
rests on it fail. Most actions are one of a few kinds (go on, wait, look, fail, be mined),
with one lemma per kind.

`EvaluationIsBatch` condenses the actions of the driver to what a batch sees of them
(`BatchMoves`): it stands still, loads the file, adds a record in memory, fails to save it
and adds another, saves, ends with the summary, or dies. `BatchInv` says that what was
pushed since the last save has the number of the run, that it is a success and a failure
when the save failed, and that nothing is left to run at the summary. A saved list is then
the one before with the outcome of its last record appended, or of its last two
(`OutcomeOfLast`, once or twice). `CampaignRunner` may therefore be built on
`EvaluationBatch` alone.

**`CampaignRunnerProofs`**

* `BatchesApart`: `[]OneBatch`;
* `ResultsSurvive`: `ResultsNeverShrink`;
* `TargetIsNotPassed`: `[]NoOvershoot`.

`OneBatch` is not inductive. `GuardInv` adds, for undisturbed executions: a runner past
the guard has its pid in the file; one runner at a time is inside the guard; a runner
that was let through and has not yet written its pid is alone; a batch has a runner
that waits for it. Each needs the others: a new batch is the only one since its runner
holds the file, and it holds the file since it wrote its pid while alone. Once disturbed,
an execution stays so (`DisturbedForGood`). `ResultsSurvive` adds `ListsMatch`, that the
one running batch has in memory what is in the file, or what was in it before its own
failed save left it in pieces.

`TargetIsNotPassed` adds `BatchesCalledFor`: from the head of the loop to a batch's last
run, either the runs it still has to make fit under the target, or it is a single run and
days are missing. That stays so because the file only changes by that batch's own runs
meanwhile, which is `OneBatch` again, and because the second record of a run whose save
failed is a failure, which counts neither as a run nor as a day.

**Left to TLC.** Every safety invariant, action property and refinement that a passing run
checks is also a theorem above. What is only model-checked: the liveness properties
(`EveryLockSettles`, `EveryHTLCDecides`, `EveryTransferEnds`, `EveryScriptEnds`,
`EveryEscrowEnds`, `CampaignEnds`), since fairness and ENABLED are beyond the prover; the
ASSUMEs about `CampaignStatistics`, recursive computations over data; that the start
state of `cosmos_holding` is reachable; and the violations, which are counterexamples.
Two definitions have the form they have because they are reasoned about: the list
of `RefundLocks` is given as the increasing function onto the expired transfers, and the
counts of `CampaignRunner` (`Successes`, `DaysOf`) are of index sets, not of filtered lists.

## 5. Where code and documentation disagree

Shown by runs:

* `evm_refund_mint_frees`: a comment (BridgeHTLC.sol:661) and a test title
  (test/reverse.test.js:16) say `refundMint` frees the hashlock. The state becomes
  REFUNDED, and a later prepare under the hashlock is ignored for ever. (Harmless,
  and safer than the documented behaviour, since replays stay impossible.)
* `cosmos_freshness`: contract.rs:701 announces freshness across both directions, but
  only `lock_for_burn` looks; `prepare_mint` accepts a hashlock that is locked
  outbound. One secret then settles two transfers.
* `cosmos_indicator`: `create_token_class` looks an indicator up as typed, while
  `prepare_mint` compares lower-case forms: two spellings of one indicator are bound
  to two classes.

Met while modelling the scripts, and in the models as the code has them:

* *Results and reports.* The catch block of a run (htlc-evaluation.js:494-500) records
  no lock, so `abortedBeforeLock` (540-541, "failed before submitting the source lock")
  counts every failed run, and an escrow may be behind it. `waitForAutomaticBurn`
  (301-306) takes any burn for the callback's: a monitor's is recorded as
  `automatic-callback`. A callback that lands between its timeout and the check of the
  lock (338) makes the run of a completed transfer a failed one. `RELAY_MAX_WAIT` (20
  minutes) plus the wait for the callback (45) is the whole timelock (65).
* *A run kept twice.* A `saveResults` that throws at line 487 is still inside the try
  block: the catch block (494-501) pushes a failure under the number of the success that
  is already in the list. The batch goes on numbering from the run, but the next one
  starts at the length of the list plus one (405), so that numbers repeat and then skip.
  The summary counts the failure as `abortedBeforeLock`, which the comment at 540-542
  says has no on-chain effect, though the transfer was completed.
* *A bounty of 0.* msg.rs:63 calls the bounty optional, contract.rs:718 requires one, and
  `instantiate` stores any `min_bounty` (28), which deploy-htlc-cosmos.js:126 takes from
  the environment. With 0 a lock may have a bounty of one coin of 0 untrn. The list of
  coins is then not empty, so `claim_burn` (915) and `refund_burn` (971) send that coin,
  the bank refuses it, and the settlement is rolled back: the units stay in escrow for
  ever. `EveryHTLCDecides` and `EveryTransferEnds` are therefore about locks whose bounty
  is positive, in instances where `min_bounty` is 0.
* *Lost answers.* A `lockForBurn` whose answer was lost is retried under the same
  hashlock, reverts for ever and fails the run, and its secret is gone with it;
  `refundBurn` gets the escrow back. A stuck transaction, at a fixed gas price, holds up
  its account until `cancel-pending.js` replaces it.
* *Files.* Both result files and `htlc-state.json` are written in place: a kill in the
  middle leaves a file no later run can parse, though campaign-runner.js:23 calls the
  campaign "safely resumable". `htlc-quick-test.js lock` overwrites the one state
  file, with the secret of an earlier, unfinished transfer in it.
* *The pid file* (campaign-runner.js:34-56). It is checked, then written: two runners
  inside at once both pass. A truncated file reads as stale. A batch outlives a killed
  runner unseen. Every exit unlinks the file, whoever wrote it. A file unlinked between
  the look and the read makes the runner throw. A pid reused by another program makes
  the runner exit with 0, after which launchd leaves it stopped.
* *Order.* `htlc-quick-test.js claim-evm` looks at the state of the lock (203) and not at
  its own file: run before `claim-cosmos` it burns an escrow nothing was minted for and
  prints COMPLETE (225). `BurnsFollowMints` therefore assumes `OperatorFollowsPrompts`.
* *Refunds.* `refund-locks.js` refunds whatever is LOCKED and expired, an escrow whose
  units were minted and not yet burned included: the contracts allow it, and only a
  monitor prevents it.
* *Wording.* campaign-runner.js:9 asks for at least 5 distinct days, line 58 for 3;
  campaign-analyze.js:92 prints "All succeeded." after dropping the failed runs (51);
  the median of campaign-cost.js and the p50 of campaign-analyze.js differ on lists of
  even length; campaign-cost.js finds no rows in the results of the reverse test; a
  listing that shifts between two pages repeats or skips a row; deploy-htlc-evm.js:235
  names an `indicatorId` nobody declares, so the deployment file is not written though
  every transaction was made.

## 6. Not modelled

* Queries and views: pure reads of the state the modules keep.
* Byte layouts of payloads (ABI words, JSON, protobuf) and malformed payloads (an error
  each, which is no step): no property is about them. What text a word becomes is
  modelled (`HexText`, `DecimalText`, `HexIndicatorText`).
* `receive_test`, which returns a string; gas amounts; token metadata.
* The deployment scripts as processes: the states they leave are the initial states, and
  each of their transactions is an action of the contract it calls.
* The printed report of `campaign-analyze.js` and of the `analyze` and `status` commands;
  their computations are in `CampaignStatistics`.
* The Axelar mocks, which the relay actions stand for, and the earlier formal model in the
  repository, one transfer in one direction, whose assumptions on monitors and
  registries reappear as `Monitored` and `CrossInit`.
* Forged messages. `RelayToCosmos` and `RelayToEvm` deliver only what one of the two
  contracts sent. `_execute` checks where a prepare message comes from, and `prepare_mint`
  does not: contract.rs:237-243 look at the caller alone, never at the source chain or the
  source address, so that what an authorised relayer passes on is taken as it is. That
  relayers pass on genuine calls of the EVM bridge is an assumption of `CrossChain`;
  `TokenBridgeReceiver` by itself takes any arguments from any authorised sender.
* Two spellings of a hashlock in `CrossChain` (`OneSpelling`). The callback of the EVM
  bridge writes the hashlock in lower case (BridgeHTLC.sol:678), so that an outbound lock
  made under another spelling is not found by it and waits for a manual `claim_burn` or its
  refund. `TokenBridgeReceiver` has such spellings, and what the lock loses is a callback,
  which `CrossChain` may lose for every lock; no property relates the two.

Open: that each liveness property follows from its fairness is argued by TLC on the
instances only.

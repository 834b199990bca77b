# TLA+ models of Testnet Wallet Lab

This directory holds TLA+ models of the wallet in `src/`, the TLC configurations
that check them on small instances, and proofs checked by TLAPS.
PROJECT.json lists the components, the runs, the seeded faults that show each
property can fail, the source lines of every definition, the hazards and the
theorems.

## The system

The program is one Go process. It serves a browser UI and signs transactions for
five EVM test networks, for Solana Devnet and for TRON Shasta.

| Component | State it keeps | Operations | Talks to |
|---|---|---|---|
| EVM journal (`journal.go`) | active and archived records in memory; `journal.json` and archive files | append, versioned update, archive, load, queries | disk |
| EVM service (`service.go`, `nonce.go`, `replacement.go`, `quote.go`) | quotes (120 s, 256), `storageFault`, `historyOffset`; locks `sendMu`, `historyMu` | quote, speed-up, cancel, send, retry, history | journal, keystore, RPC client |
| RPC client (`chain/chain.go`, `rpc.go`) | `networkVerified`, `verifiedFailovers` | nonces, balances, transaction lookup, broadcast | transport |
| Fallback transport (`chain/fallback.go`) | active endpoint, health, counters | round trip with failover | endpoints |
| Solana (`solana.go`) | quotes, records, `fault`, `historyOffset` | quote, send, retry, history | Devnet RPC, disk |
| TRON (`tron.go`) | quotes, records, `fault`, `historyNext` | quote, send, retry, history | Shasta API, disk |
| Keystore (`keystore.go`) | encrypted key file, `scryptSem`, `catalogMu` | create, import, backup, change password, decrypt | disk |
| Accounts (`accounts.go`) | account directories, names, archive flags | add, update, list | keystore |
| Activity and scanner (`activity.go`, `scanner.go`) | activity index with archives, cached list, scan cursor, generation, backoff | import, load, configure, scan | RPC client, disk |
| Faucet (`faucet.go`) | a lock; everything else is the dispenser's journal | claim | the dispenser's EVM or TRON service |
| Escrow (`PaymentEscrow.sol`, `escrow.go`) | orders in the contract | fund, release, refund | EVM service |
| Vault (`ETHVault.sol`, `vault.go`) | balances in the contract | deposit, withdraw | EVM service |
| ERC-4337 (`erc4337/`) | none | build, hash, sign, encode | bundler RPC |
| HTTP layer (`web/`) | request windows and slots | handlers | all services |
| Process (`cmd/testnet-wallet-lab`) | one workspace per account, maintenance loops, `shuttingDown` | start, load account, stop | all services |

What is hard in this code: two requests of one service run concurrently (one
under `sendMu`, one under `historyMu`) and meet in the journal; every file write
may fail before or after the rename; the process may die between any two
writes; a broadcast that reports an error may have been delivered; the chain
reorganizes and its nodes lag; the user may repeat, speed up or cancel a payment
whose outcome is unknown; the same key may be used elsewhere; a scan or a refresh
applies what it read before the settings or the records changed.

## Modules

| Module | Models | Extends |
|---|---|---|
| `Journal` | `JournalManager`: every critical section of `jm.mu`, with the outcome of its file writes as a parameter | |
| `EvmWallet` | `Service` of one account on one network, the chain as the RPC client shows it, crash and restart | `Journal` |
| `WriteAheadBroadcast` | the abstract promise: nothing is on the wire that is not in the book | |
| `ExpiringChain` | a chain whose transactions expire and whose unfinal blocks may fork (external) | |
| `SolanaWallet` | `SolanaService` | `ExpiringChain` |
| `TronWallet` | `TronService`, with the local clock next to the chain's time | `ExpiringChain` |
| `ActivityIndex` | the index of hashes, its archives and the cached list | |
| `Scanner` | cursor, settings, maintenance loop and backoff | `ActivityIndex` |
| `Accounts` | the catalogue on disk, key files, and the process that opens and closes the services | |
| `Faucet` | claims against a dispenser that keeps the contract of the wallets above | |
| `OrderLifeCycle` | the abstract promise of the escrow: what may become of an order | |
| `PaymentEscrow` | the checks and effects of `PaymentEscrow.sol`, and `prepareEscrow` | |
| `ETHVault` | the checks and effects of `ETHVault.sol` | |
| `Contracts` | both contracts on one EVM, with tokens and receivers that call back | `PaymentEscrow`, `ETHVault` |
| `ChainReads` | `Client.Transaction` and `Service.EscrowOrder`, RPC by RPC | |
| `FallbackTransport` | `fallbackTransport` and the cached network check, atomic access by atomic access | |
| `HttpRoutes` | the table of routes, and what the gates before a handler make of each request in each configuration | |
| `HttpGates` | the way of a request through the access gates and traffic limits to its handler | `HttpRoutes` |
| `RpcClient` | the client below the wallet: its reads and its transport | instances of `ChainReads`, `FallbackTransport` |
| `Web` | what visitors can use up: the gates and the faucet behind them | `Faucet`, an instance of `HttpGates` |
| `EvmWalletProofs`, `SolanaWalletProofs`, `TronWalletProofs`, `AccountsProofs`, `ContractsProofs` | the theorems about the module they are named for | that module, `TLAPS` |
| `RpcClientProofs` | the theorems about `ChainReads` and `FallbackTransport` | `RpcClient` |
| `ScannerProofs` | the theorems about `Scanner` and `ActivityIndex` | `Scanner` |
| `WebProofs` | the theorems about `Faucet` and `HttpGates` | `Web` |
| `MC*` | instances for TLC | |

A definition whose comment says "Seeded fault" is not part of a specification. It
is a plausible wrong version of the definition after it; PROJECT.json names the
property that TLC finds violated when it is used instead.

A file write has three outcomes everywhere: "ok", "failed" (nothing changed) and
"published" (`atomicWriteFile` renamed the file and then reported an error).

### EVM wallet

`records`, `archived` are `jm.records`, `jm.archived`; `diskRecords` and
`diskArchive` are the files. A transaction is a number, its position in `signed`;
`wire` is what some node may have; `canon[n+1]` is the transaction that used
nonce n on the canonical chain (0: another wallet's). `op` is the request that
holds `sendMu`, `hist` the refresh that holds `historyMu`; each has a program
counter, so that a step is one critical section of `jm.mu` or one RPC.

| Action | Code |
|---|---|
| `QuoteGuard`, `QuoteCreate`, `QuoteAbort`, `replacementQuote`, `ExpireQuote` | `QuoteCommand`, `CreateQuote`, `replacementQuote`, `QuoteStore` |
| `SendExisting`, `SendRefused`, `SendCheck`, `SendVerify`, `SendAbort`, `SendPrepare`, `SendFull`, `SendTransaction`, `BroadcastResult` | `Send` |
| `RetryFind`, `RetryDecide`, then `SendTransaction`, `BroadcastResult` | `Retry` |
| `HistoryStart`, `HistoryObserve`, `HistorySkip`, `HistoryApply`, `HistoryArchive` | `History` |
| `Crash` | the process dies; `NewService` reads the files |
| `Mine`, `MineForeign`, `Finalize`, `Reorg` | the chain (external) |

Left out as data: amounts, recipients, fees, calldata, signatures, timestamps.
The checks on them before signing (`service.go` 403-511) are one action that may
reject. `succeeded` and `reverted` are one state, "mined": no branch of the
journal or of the service tells them apart.

### Solana and TRON wallets

Both services keep one list of records in memory and in one file, change it in
memory first and latch `fault` when the write fails. One lock, `s.mu`, is held
by a request from its first to its last step, RPCs included, so `op` is the only
program counter; the chain moves between its steps. `disk` is the file.

Heights of `ExpiringChain` are Solana's block heights and TRON's block times. A
transaction carries the height after which it cannot be included. `lagging` is
chosen in the initial state and never changes: in half of the behaviours every
RPC is answered by an up-to-date node, in the other half any answer may come from
a node that is behind. What expiry concludes is only claimed for the first half:
no wallet can tell a lost transaction from one its node has not seen yet.

| Action | Solana | TRON |
|---|---|---|
| `Quote`, `ExpireQuote` | `Quote` (expired quotes are dropped in `Quote`) | `Quote` |
| `SendCheck`, `SendAbort`, `SendPrepare` | `Send` | `Send` |
| `SendTransaction` / `BroadcastHex`, `BroadcastRefused`, `BroadcastResult` | `Send`, `Retry` | `broadcast` |
| `Retry` | `Retry` | `Retry` |
| `HistoryHeight`, `HistoryStatuses`, `HistoryFails` | `History` (one batch of 256) | |
| `HistoryStart`, `RefreshSolid`, `RefreshReceipt`, `RefreshFails`, `HistoryEnd` | | `History`, `refreshRecord` (one record at a time, until the deadline) |
| `Crash` | `NewSolanaService` | `NewTronService` |

`Budget` in `TronWallet` is the number of records a refresh has time for.

### Activity index and scanner

`archives` and `active` are the files, `index` is the cached list with the
generation it was built for, `loader` a page request. `addActivityHashes` holds
`s.sendMu`; how many of its files reach the disk is a parameter of one step,
which also covers a crash half way. `scan` is `scan.json`; `run` is the
maintenance loop with the generation it read in `checkScanBackoff` and the one it
read in `ScanOnce`. `ConfigureScan` is excluded only while a scan applies its
result, as in the code. What a block contains is the constant `BlockHashes`.

### Accounts and process

`dirs`, `meta`, `keys` are the directories, `account.json` and `keystore.json`;
`used` the accounts with transactions. `phase` is the life of the process;
`loaded` the open services, `maint` the running loops, `toClose` the copy of
`accountServices` that the deferred function makes. `add` is an `AddAccount`
under `root.sendMu` (`AddBegin`, `AddKey` or `AddWithoutKey`, `AddPublish`,
`AddCleanup`), `imp` the creations and imports under `catalogMu` (`ImportCheck`,
`ImportWrite`). `StartProcess`, `LoadAtStart`, `StartFails`, `StartDone`,
`LoadAccount`, `Stop`, `MaintenanceEnds`, `CloseAccount`, `CloseMain`, `Exit` are
the steps of `run` and its deferred calls. Requests may outlive `Shutdown`, which
gives up after 30 seconds, so request actions stay enabled while the process
stops.

### Faucet

The dispenser is reduced to what the wallet modules establish: a transaction is
recorded before a node can have it, nothing is sent while a record is open, and a
record may land at any time after that. `Include`, `Reorg`, `Tick` are the world;
`OwnerSend` a manual transfer of the dispenser's owner, whose amount the journal
keeps as it was typed; `Refresh` and `Archive`
the journal; `ClaimScan`, `ClaimSend`, `ClaimAbort` one claim, for an EVM network
and for TRON alike. `Archive` only takes records that are final, so it also
stands for the point after which the chain cannot take the record back.

`Previous` compares texts, as `faucet.go` 53 and 143 do. `Texts` has the faucet's own
spelling of its amount and another text, which `ParseUnits` may read as the same
amount; transactions of other assets and to other addresses, which the check passes
over too, stand among the latter. `PaidOncePerHour` therefore speaks of payouts and of
manual transfers in the faucet's spelling (see Findings), and `HourlyLimit` of
everything.

### Contracts

`world` is the storage of both contracts with everybody's tokens and ether. A
call of the token or of a receiver hands control to code that may call either
contract again, so `stack` holds the calls under way; each remembers the state it
started from, which `Revert` restores. `Fund`, `Release`, `Refund` and `Withdraw`
are the functions up to that call, `TransferReturns` and `ReceiverReturns` the
rest. `Transfer` is the token, which may move one unit too little; a refusal is
`Revert`. `Give` and `ForceEther` are tokens and ether that arrive without an order or
a deposit. `Prepare` is `prepareEscrow` on the latest state; the chain includes
the call at any later time (`Include`) or never (`Drop`).

The latest block is not final. `base` is the state in the block that the next
reorganization goes back to: `Anchor` moves it up to the present one, `Reorg` takes
the chain back to it, and the wallet's call, if it was in a block above, may be
included again. `prepared.orphaned` says that a reorganization has taken back the
order that the preview was read from. `PreviewHolds` claims recipient and amount for a
call whose order has stayed in the chain, whatever else was reorganized. It cannot
claim more: the call names only buyer and reference (`escrow.go` 380), and `Send`
simulates it again without comparing recipient and amount (`service.go` 450). When the
order is orphaned and its reference funded anew with another seller or amount, the call
settles the new order; only a refund's recipient, the buyer, stays as shown.

`Committed` is what a node answers about the orders: the state between
transactions. With it `Contracts` implements `OrderLifeCycle`, in which transactions
take orders forward and a reorganization takes all of them back to one earlier
state. `ChainReads` relies on it for the orders that blocks can hold.

### Reads of the chain

`chain` is the canonical chain, `view` what each endpoint serves of it; an
endpoint catches up in `Sync`. Each RPC of a query is one step, answered by the
endpoint that is active then. `same` and `still` say whether the endpoint, and its
view, have changed between the readings that a conclusion combines. Client
operations between two RPCs are not protected against a failover: a lagging
endpoint that confirms the block of the receipt after another one has shown the
finalized head can make an orphaned block look final, so both properties claim
finality for readings of one endpoint. `EscrowOrder` compares nothing when the
finalized head has passed the block it asked about (`escrow.go` 287); the claim
then needs that the endpoint's view stood still during the query. (`docs/payment-escrow.md`
speaks of comparing state, recipient and amount in the finalized block.)

### Fallback transport

`active`, `healthy`, `failovers` are the atomic variables of `fallbackTransport`;
`networkVerified` and `verifiedFailovers` those of `Client`. A request goes
through `CheckNetwork`, `CompareCached` and, if need be, a `verify` RPC, and then
its own RPC; each RPC is a `RoundTrip`: `LoadHealthy`, `LoadActive`, `FastAnswer`
or `FastFail`, else `LoadStart`, `Probe`, `AttemptAnswer`, `Swap`, `AddFailover`,
`MarkHealthy`. Not claimed, because the code does not give it: that every change of
`active` is counted before another request sees it (the swap and the addition are
two steps), or that an endpoint on the fast path still serves the network it
showed before.

### Access and traffic

The outer gates are functions of the configuration and the request
(`RequireAccessToken`, `SharedDemo`, `OriginAllowed`); `Verdicts` is the set of
what they can conclude, over every route, origin and credential. `Arrive` applies
one of them with the login budget; `Count`, `Slot` are `LimitTraffic`, `Refuse`,
`ChargeAttempt`, `Proceed`, `Serve` the handler. `Routes` lists the handlers with
what each does before its service is called. Basic credentials are compared before
the budget is looked at, and only wrong ones are charged; the bound on guesses is
therefore stated for the login form and for the passwords of the shared wallets, over
the times of all comparisons ever made: the first and the last of 2 * `Attempts` + 1
successive ones are a minute apart.

## Runs

| Run | Environment | Shows |
|---|---|---|
| `evm_crash` | capacity 2 with archival, another wallet on the same key, 1 crash, 1 write error | `TypeOK`, `DurableBeforeBroadcast`, `RejectedIsAbandonable`, `SingleOutstandingNonce`, refinement `WriteAhead` |
| `evm_reorg` | 1 reorganization, lagging nodes, archival, replacements | `PaidOnce`, `FinalVerdictsSound`, `FinalityIsStable` |
| `evm_live` | a journal of one record that is full until archival empties it, 1 crash, 1 write error, fair maintenance | `FinalizedIsRecorded` |
| `evm_listed_winner` | 1 reorganization, fair maintenance | violation of `FinalIsShown` |
| `sol_crash` | 1 fork, 1 crash, 1 write error, a batch of 1 | `ExpiredNeverLands`, `OneOutstanding`, `FinalVerdictsSound`, refinement `WriteAhead` |
| `tron_crash` | missed blocks, 1 fork, 1 crash, 1 write error | the same for TRON |
| `tron_live` | time for one record per refresh, lagging nodes, fair polling | `FinalIsRecorded` |
| `scan` | imports: files of one hash, imports longer than a file, a clock that goes back; scans: 3 blocks, 2 changes of the settings, 1 RPC error, fair loop; both: 1 crash, 1 write error | `NoHashLost`, `ServedIsComplete`, `OrderIsStable`, `ScannedIsIndexed`, `OldScanIsIgnored`, `EveryBlockIsScanned` |
| `accounts` | the main account and two more, 1 crash, 1 write error, fair shutdown | `NoSharedSigner`, `UsedIsTracked`, `StopIsClean`, `KeysAreKept`, `StopEnds` |
| `accounts_restart` | one more account, 1 crash, no write errors | violation of `CatalogueLoads` |
| `chain` | contracts: 2 parties, calls nested 2 deep, a gift; forks: 2 parties, calls not nested, any number of reorganizations; reads: 2 endpoints, 3 blocks with forks; transport: 2 endpoints, 2 requests, 2 operations, an endpoint that changes its network | `EscrowIsExact`, `VaultIsExact`, `PreviewHolds`, refinement `OrdersFollowLifeCycle`; `FinalLookupIsFinal`, `FinalOrderIsFinal`; `EndpointsAreChecked` |
| `web` | gates: 2 requests, windows of 2, 1 attempt, 1 slot, every configuration; faucet: 2 recipients, 2 claims, 3 transactions, 2 spellings, limit 2, 1 reorganization | `GuessesAreBounded`, `OperatorIsSeparate`; `PaidOncePerHour`, `HourlyLimit` |

`scan`, `chain` and `web` each check several questions in one state graph: a
variable that is chosen in the initial state and never changes (`scenario`,
`part`) says which part moves, and the variables of the others keep their initial
values. The parts of `web`, and the contracts, the reads and the transport of `chain`,
share no state, so nothing is lost by not interleaving them. The contracts have two
parts: nested calls and gifts on one branch, and reorganizations between calls that are
not nested, with the vault at rest; both at once would be too large a graph, and the
theorems about `Contracts` cover it. In `chain` a party may have nothing left to do, so
deadlock is not checked there; it is in every other run.

### Bounds

Two transactions are enough for a payment and its replacement, for two payments
of consecutive nonces, for a second Solana or TRON transfer after a lost one, and
for a journal of capacity two that archives one. Two nonces let the in-flight
guard be wrong. `MaxVersion` is reached by send, result, retry and an
observation; an observation of finality is always accepted, so that the bound
never hides a final verdict. One crash and one write error can each fall at any
step, also in one behaviour; a second one starts again from files of the same
shape. Three heights hold a block before, at and after the last valid height,
with one fork between them. One quote is open at a time in `sol_crash` and
`tron_crash`; the theorems cover any number. A file of one hash and imports of two or three make
every addition archive and some archive several files. Two changes of the
settings are the ones that enable a scan and that replace it. In the faucet run
the window is one tick, so a record is either inside or exactly at its end; two
recipients and three transactions reach a limit of two with payouts and with the
owner's own transactions. For the gates the window is two ticks, so attempts fall
before, at and after its end; two requests compete for one slot and one attempt.
Calls nested two deep let each contract be called back from the other's transfer
and from its own; amounts 0, 1 and 2 with a supply of two allow an order of all, of
part, and one that moves too little; in the part with reorganizations amounts 1 and 2
let an order be orphaned and its reference be funded anew with another amount. Three blocks hold a transaction, a fork and a
finalized head on either side of it. Two requests over two endpoints overtake each
other between every two atomic accesses. The real limits (1000, 900, 100, 200, 256, 20) are the
constants `Capacity`, `ArchiveThreshold`, `KeepRecent`, `MaxHashes`, `Keep`,
`QuoteCap`, `Batch`, `MaxAccounts`, `Limit`.

### Fairness

* EVM: `RunMaintenance` (`scanner.go` 255-295) ticks every 2 seconds and calls
  `History` every 15, so starting, applying and finishing a refresh are weakly
  fair. A record that is due is asked about in every refresh and `historyOffset`
  rotates the list, so a node that keeps knowing the final receipt eventually
  answers: strong fairness of that one observation.
* TRON has no maintenance loop. The page polls the history every 15 seconds
  (`static/tron.js`), so the liveness result holds while the page is open. A
  record whose turn comes again and again eventually gets its answers; that its
  turn comes is not assumed but follows from `historyNext`, which `tron_live`
  checks with a deadline that leaves time for one record.
* Scanner: the loop ticks every 2 seconds, each scan has a deadline of 40 seconds,
  and a node asked for a block again and again eventually has it.
* Shutdown: loops look at their context on every turn; a goroutine that can go on
  does; `sync.Mutex` does not starve a waiter, so `CloseMain`, which waits for
  `AddAccount`, is strongly fair.

Nothing is assumed about users or about the network.

### Findings

* `evm_listed_winner`: a record that was mined on an orphaned branch is never
  checked again once an earlier record of its nonce is final; `listHistory` then
  shows the orphaned one as the winner.
* `accounts_restart`: `AddAccount` makes the directory before it writes
  `account.json`. If the process dies in between, the next start lists the
  directory, `NewAccountService` refuses it and `run` returns the error: the
  process cannot start until the directory is removed by hand.

Not shown by a run of its own: `docs/wallet-reference.md` 49 says that "the same-amount
check includes manual transfers from the dispenser account". The check compares texts
(`faucet.go` 143, and `record.Amount == "5"` in line 53), and the journals keep what the
owner typed (`quote.go` 402, `tron.go` 274), so a manual transfer of `0.0010` or `5.0`
is not found and the same amount is paid out again within the hour. `Faucet` has these
transfers, and `PaidOncePerHour` names them as the first of its three exceptions;
`HourlyLimit` counts them.

## Proofs

Every safety property that a passing run checks is proved for every value of the
constants, and so are the refinements of `WriteAheadBroadcast` and `OrderLifeCycle`.
The argument is the same everywhere: an inductive invariant, a lemma per action, and a
theorem that the invariant always holds; each property follows from it. TLC checked
every inductive invariant on the instance of its run before it was proved. What the
theorems assume is named:

* the assumptions on constants of the modules (`Journal`, `EvmWallet`,
  `SolanaWallet`, `TronWallet`, `ActivityIndex`, `Scanner`, `Accounts`, `Contracts`,
  `Faucet`), which TLC evaluates on every run. `ContractsAssumption` says that there are finitely many parties and
  order identifiers, without which a sum over them means nothing;
* `GatesAssumption` in `Web`: finitely many concurrent requests, positive limits,
  and one slot for writes (`make(chan struct{}, 1)`, `traffic.go` 14);
* `OrderValuesAssumption` in `RpcClient`: an order is a record of the fields that
  `EscrowOrder` compares one by one;
* `Steady`, for `SingleOutstandingNonce` only: no reorganizations and no lagging
  nodes, as the property says: otherwise a transaction that was shown as mined may
  become unresolved again behind a later one.

### The arguments

**EVM wallet** (`EvmWalletProofs`). `WalletInvariant` gives `TypeCorrect` and
`Durability`. `DurableBeforeBroadcast` (wire is on disk) is not inductive:
`SendTransaction` needs that the transaction it dispatches is on disk, and `Load`
needs that the files lose nothing; `DurableInv` adds that memory is covered by the
files, and that what `op` dispatches and what the refresh works on is known.
`WriteAheadRefinement` needs one more fact, `SyncInv`: unless a storage fault is
latched, the files hold nothing that memory does not know, so that an append adds
exactly one entry to the book. After a fault no send passes the check of
`storageFault`, but a refresh may still write, which drops a record that was written
and never sent: `Discard` of the abstract specification.

`PaidOnceAlways` rests on `SignedInv`: quotes and transactions of one payment have
one nonce, and a block's transaction uses the nonce of its place. `RejectionIsSafe`
adds that a send that has not signed yet, or was refused, has no transaction of its
quote in any file (`QuoteInv`, from `SyncInv`). `FinalVerdicts` and
`FinalityNeverRevoked` rest on `VerdictsInv`: all four journals (memory and files,
active and archived) agree with the finalized chain; the version that a send or a
refresh took along is not newer than a verdict, so that
`UpdateStateAtomicIfVersion` refuses what would take it back; every archived nonce
has its winner in memory, so that a replaced record is not asked about again; a
final answer stays true while it waits to be applied. `OneNonceAtATime` adds that
what a journal shows as mined is on the chain and that no quote of a new payment is
past its check while a nonce is unresolved.

**Solana and TRON** (`SolanaWalletProofs`, `TronWalletProofs`). One invariant gives
all properties: every journal (memory, file, for TRON the copy the refresh works on)
tells the truth about the chain, and only its last record can still be outstanding.
The two differ in the order of their writes. Solana changes memory first, so the
file is behind by at most the newest record; TRON writes first, so the file may be
ahead by one record that was never sent. TRON also needs that a block may be
younger than the expiration of what it includes, when blocks before it were missed:
`BlocksInv` bounds the block below instead. The expiry properties hold with
up-to-date nodes, as the properties say.

**Activity index and scanner** (`ScannerProofs`). Most of the module is about two
recursions: `Fresh` (the loop that drops what was seen) and `Concatenated` (the
archives in the order of their names). Both are shown to have a solution and to return
what the loops are for, by induction written as the absence of a least counterexample.
A write of any number of its files then moves a beginning of the new list to the
archives and perhaps the rest to `activity.json`; archives get names after all
others. So nothing leaves the files (`AckedOnDisk`) and the list that is read back
only grows at its end (`WriteKeepsOrder`). `CacheIsCurrent` and `ReaderIsCurrent` are
about the generation: a cached list, or a snapshot being read, that is of the current
generation has everything in the files; one that is older still has what was stored
before its request. For the scanner, `BothCovered` says that scan.json *and* the copy
of a run cover only indexed blocks, because the copy is what becomes the file;
`RunGenerations` orders the generations that a run has read, and `RunContinues` says
that a run whose settings are still current continues the range of the file.

**Accounts** (`AccountsProofs`). `ProcessInv` says what is open, maintained and
still to be loaded or closed in each phase; `AddInv` and `ImpInv` that an account
being added, and an import under way, have their directory and their address to
themselves.

**Contracts** (`ContractsProofs`). The invariant is about the current state *and*
about the state each call under way would revert to: `Level` says which escrow call
a state lies inside, that the books balance if there is none, and how far from
balanced they are if there is one; the vault's books balance in every one of them,
because it pays last. `HistoryInv` (every state inside a transaction follows the
life cycle from the committed one) gives the refinement of `OrderLifeCycle`,
`PreparedInv` the preview. All this is `BranchInv`; `ForkInv` says that the state a
reorganization goes back to is one between calls, with balanced books, whose orders
the committed ones follow. An order that is there at the fork point has the seller and
amount it has now, so a preview of it holds on the new branch (`PromiseKeptBack`);
a preview whose order is not there is `orphaned`. Sums over orders and parties are the folds of the
community modules; that they change by one summand at a time is proved by induction
on the size of a set, written as the absence of a least counterexample, because the
library's induction theorems take an operator as a parameter.

**Reads and transport** (`RpcClientProofs`). Endpoints may lag and may serve orphaned
blocks, but what one calls final is final (`ViewInv`); what a query has read of one
endpoint still holds of it while it is the one that answers (`ReadInv`). For the
transport, `TargetInv` follows each request through its atomic accesses: an endpoint
is in `checked` before it is swapped in, and `healthy` is only true while the active
one is; `SeenInv` relates the count of failovers that a request has read to the one
that the last check answered for.

**Faucet** (`WebProofs`). Between a claim's look at the journal and its send, the
chain, the maintenance loop and the owner act. The earlier transactions of the last
hour that may still be paid (`Open`) only become fewer, so what the claim found
out (`Clear`: none to its address in the faucet's spelling, and fewer than the limit of
any) stays true, of the claim and then of its payout.

**Gates** (`WebProofs`). Every gate forwards only what is `Allowed`: nothing of a
visitor into the operator's budget, nothing of a wallet without the shared demo, no
password check that is not charged, and no charge outside the writes of the shared
demo. This is checked route by route. `SlotInv` (one slot) then says that at most one
charged attempt has not been made yet, and `Spread` that the attempts made are split
by the window: those charged in it, and earlier ones, all of which but the last
`Attempts` are a minute older than the window.

### Only model-checked

* Liveness (`FinalizedIsRecorded`, `FinalIsRecorded`, `EveryBlockIsScanned`,
  `StopEnds`) and the findings: fairness and ENABLED are out of the prover's reach.

## Plan

Every component with state has a module, and every safety property that a run checks is
proved. What would add most is model, not proof: `Keystore.ChangePassword` and
`Backup` with their file writes, then the Solana airdrop and its pause, each with a
property of its own and the proof of it in the module of its component. Liveness
stays with TLC.

## Not modelled

* Cryptography, ABI, protobuf and JSON encoding, DTOs, the browser client, the
  command-line tools, ERC-4337 (stateless).
* Amounts: fees, balances, page totals, token candidates of a scan, exchange
  quotes. A check on them is an abort that may happen.
* `Keystore.ChangePassword` and `Backup`, the Solana key file, the Solana airdrop
  with its one-minute pause, replacements of faucet payouts.
* The escrow's records in the journal (`decodeEscrowTransaction`,
  `restoreEscrowJournal`) and the re-preparation of a speed-up compare encodings
  of one call. Tokens that report false balances: the wallet accepts one configured
  token.
* Reads of the chain that conclude nothing from several RPCs (balances, fees,
  metadata), and the counters of the transport that are only shown.

See the notes under "components" in PROJECT.json.

# Pretty Good Payments in TLA+

Pretty Good Payments is an optimistic rollup for private payments.  Users
deposit into an L1 bridge, sequencers post L2 blocks as EIP-4844 blobs, and
anybody who finds fraud in a block proves it on the L1, which slashes the
sequencer and rolls the chain back.  The funds earn yield in ERC4626 vaults, and
the yield pays the sequencers.

This directory models the contracts of the bridge, the sequencer, the challenger
and the wallet, checks them with TLC and proves with TLAPS every safety property
that the runs check of the contracts, the sequencer, the challenger and the
wallet.  `PROJECT.json` lists the runs, the definition-to-source map, the
hazards, the findings and the theorems.

## The system

| Part | State | Operations | Where |
|---|---|---|---|
| Chain | block hashes, last tree slot, anchor table | addBlock, rollback, isConfirmed, isAnchorIncluded, validatePriorAnchor | `src/src/Spine.sol` |
| Deposits | deposits owed by each block, highest block with one | deposit | `src/src/Deposits.sol` |
| Registry | status, stake and exit of each sequencer, first-look list, required stake | fund, registerExit, exit, slash, claimChallengeReward, addFirstLook, removeFirstLook, updateStakeRequirement | `src/src/SequencerRegistry.sol` |
| Fraud proofs | none | four challenges | `src/src/*Challenge.sol` |
| Withdrawals | outputs paid | withdraw | `src/src/Withdraw.sol` |
| Approvals | approved transactions | allow, approveByQuery | `src/src/TransactionRegistry.sol` |
| Entrypoint | blob use per epoch and sequencer | post, and all of the above by inheritance | `src/src/Entrypoint.sol` |
| Yield router | vault, principal, recorded yield, claims paid | triggerDeposit, triggerWithdraw, poke, recognizeYield, sequencerWithdrawAsset, the owner's calls | `src/src/YieldRouter.sol` |
| Sequencer | mempool, pending nullifiers, poke flag, block under way | add, take, return to front; build, predict the slot, submit | `sequencer/src/mempool.rs`, `block_builder_loop.rs`, `block_submitter.rs`, `blob_builder.rs`, `epoch.rs` |
| Sequencer's API | the tree over days beside the database | submit, poke, sync queries | `sequencer/src/api.rs`, `sync_state.rs` |
| Challenger | database of blocks, nullifiers, roots and pending challenges, event cursor, tree in memory | poll events, validate blocks, submit and retry challenges | `challenger/src/event_loop.rs`, `runner.rs`, `state.rs`, `validators/`, `challenge.rs` |
| Blob provider | cache, table of blobs, the beacon node's blobs | get, save | `challenger/src/beacon.rs` |
| Wallet | notes, cache of roots, pending withdrawals, on disk and in the process | sync, transfer, withdraw, withdraw-update, withdraw-execute, consolidate | `client/src` |

The crates are under `src/offchain/crates`.  How the parts interact:

* `post` asks the registry whether the sender may post, asks the deposits how
  many the next block owes, appends to the chain and credits the sender's blob
  use.  `deposit` reads the height of the chain to choose a block and pays into
  the router.
* A challenge reads the chain, the deposits and the approvals; when it holds it
  calls `slash` and `rollback` in one transaction.
* `withdraw` reads the chain (the block must be confirmed) and the router pays.
* The router asks the bridge, in the claim's transaction, whether a sequencer is
  challenged, whether an epoch is finalized and what its share is.
* Off chain, the sequencer and the challenger follow the chain by `NewRoot`,
  `Deposit` and `Rollback` events and share one database in one process.  The
  block builder is a hook of the event loop, in the same task; the HTTP handlers
  and the threads that save blobs are not.
* The wallet asks the sequencer for roots and paths, one request at a time, and
  hands it transactions; withdrawals it pays out on the L1.

What is hard: on the L1 every transaction is atomic, so the hazards are not
races inside an operation but the ORDER of operations of many users: posts and
rollbacks that reuse block numbers, entries that outlive the block they were
made for, windows of time that overlap, marks (`0`, an unset entry, a uint8)
that are also values.  Off chain they are locks released between a check and
its use, awaits, retries, batches, restarts, and copies of the chain that go
stale: in the database, in the tree in memory, in the block under way and in the
wallet's files.  `PROJECT.json` lists each at its line, with the properties that
catch it.

What makes each part correct, in one line each: the chain's slots, anchors and
confirmations follow from the blocks that stand; a deposit never changes a block
that exists or is being built; a challenged sequencer stays out and its stake
pays a challenger; a fraud proof exists exactly for the invalid blocks, and the
challenger's own code makes it; an output is paid once and from a block that
stands; yield is recognised and paid once; a posted block reads back as it was
built; an accepted transaction is not lost and a note is not spent twice by one
sequencer; what a wallet has stored proves its notes.

## The modules

| Module | Models | Built on |
|---|---|---|
| `L1` | block.timestamp | |
| `BlobLayout` | the addresses of `library/BlobData.sol` | |
| `Spine` | `Spine.sol` | `L1`, `BlobLayout` |
| `YieldRouter` | `YieldRouter.sol` and, external, the vault | `L1` |
| `Deposits` | `Deposits.sol`, composed with chain and router | `Spine`, `YieldRouter` |
| `SequencerRegistry` | `SequencerRegistry.sol` | `L1` |
| `TransactionRegistry` | `TransactionRegistry.sol` | |
| `BlockContent` | what a block's blobs say, `validatePriorAnchor` | `Spine` |
| `Challenges` | the four challenge contracts, and validity stated without them | `Deposits`, `BlockContent`, both registries |
| `Validators` | the challenger's `validators/`, the challenges `runner.rs` and `challenge.rs` make of their reports, and whether the contract takes them | `Challenges` |
| `Withdraw` | `Withdraw.sol` | `BlockContent`, `YieldRouter` |
| `Entrypoint` | `Entrypoint.sol`: everything on the L1 as one state machine | `Challenges`, `Withdraw` |
| `Settlement` | abstract: what the bridge promises its users | |
| `BlobBuilder` | `blob_builder.rs`, the call of `post` in `block_submitter.rs`, the parser of `common/src/blob.rs` | `BlobLayout` |
| `BlobProvider` | `beacon.rs`: cache over table over beacon node, saving threads, the loop's transaction | |
| `Mempool` | `mempool.rs` and the submit and poke handlers of `api.rs` | |
| `Sequencer` | `block_builder_loop.rs`, `block_submitter.rs`, `epoch.rs` against L1 and database | `Mempool`, `BlobLayout` |
| `SyncState` | `sync_state.rs`, the tracker of `hierarchy.rs` and the sync endpoints | |
| `Wallet` | notes, cache of roots and the commands that spend | `SyncState` |
| `PendingWithdrawals` | the later stages of a withdrawal, with the contract's marks | `Wallet` |
| `EventLoop` | `event_loop.rs`, `events.rs`, `runner.rs` and `state.rs` of the challenger: the loop as a phase machine against the L1 | `Spine` |
| `MC*` | instances for TLC; `MCProposals` makes the blocks that sequencers post, `MCParts` puts four parts without common state side by side | |
| `*Proofs` | theorems: `SpineProofs`, `DepositsProofs`, `RegistryProofs` (with lemmas on sums), `PartsProofs` (builder, registry and router), `EntrypointProofs` (with the challenger's validators), `EventLoopProofs`, `SequencerProofs`, `ClientProofs` | what they are about |

Conventions.  A revert is a disabled action.  A hash is the record it commits
to: `roots` holds blocks, the partial hash of the anchor table is the block, a
blob hash is what the blob says, a tree root is the list of updates in it
(contracts) or the leaves in it (`SyncState`).  So two hashes are equal exactly
when what they commit to is (collision resistance), and a KZG opening or a
Groth16 proof needs no state of its own: the caller can make it exactly when it
is true.  The call parameters that remain are the caller's real choices.
Integer division truncates as in the code.  Wherever an integer of the code can
wrap within reach (the uint8 of a list place) it is taken modulo its width; the
uint64 and uint256 amounts are not, since the bounds of the L1 (gas, total
ether) keep them away from their limits.

Definitions named "Mutant" in a comment are plausible wrong versions of the
definition that follows them.  Nothing uses them; replacing the right one by the
mutant must break the property that guards it.

### How the off-chain modules correspond to the code

`EventLoop` has one variable for the tables as committed (`db`) and one for them
as the loop's connection sees them (`work`); `pc` is the phase of an iteration:
`retry` (pending challenges, then the poll), `event` (a batch in a transaction),
`submit` (the challenges of one event), `sleep`, and `down` for no process.  The
L1 moves between any two steps.  Every failing call, crash and signal counts
against `MaxFaults`.  `missed` is a history variable: it is set when the code
passes over an event for good, see below.

`Mempool` splits a handler where another task may run between two of its locks
or awaits: `LookUp`, `Verify`, `Track`, `Enqueue`, so two submissions interleave
as they do under the server.  `Sequencer` splits the builder at its awaits:
`StartBuild` (the conditions, the poke flag, `take`), `FetchDeposits`,
`Predict`, `Send`, then the receipt, a revert or a lost answer.  The database
(`db`) can fall behind the chain by any number of blocks but does not move while
a block is under way, because the builder runs in the event loop's task.
`contested` is a history variable: the nullifiers that ever had two spends alive
at one time.

`Wallet` has the files (`file`, `cacheFile`) and the process (`mem`, `cache`);
`pc` is the next request or file write of the command.  A process may be stopped
at any `pc`, and every request may fail.  `history` holds what the properties
except, set in `MCClient` where the sequencer moves.

`BlobProvider` has the blobs in the beacon node (all but the pruned), in the
table, in the cache and in the hands of saving threads; while the loop's
transaction is open a saving thread is refused.

`Validators` has no variables: it defines, on the state of `Challenges`, what the
challenger reports of a block, which challenges it manages to build, and which
of those the contract accepts.

### Left out of what is modelled

* Shares of a vault and their rounding: `value` is what the shares redeem for.
* `withdrawMany`, a loop of the single claims in one transaction; the single
  claims in sequence reach the same states and more.
* Failing ether transfers: they revert the transaction, so nothing happens.
* The signature check of `approveByQuery`, hashing, encoding, KZG and Groth16.
* Ownership checks: the owner's calls can happen at any time.
* In `EventLoop`: which fraud a block holds (a wrong deposit leaf stands for
  all), stakes, `dry_run`, and the in-memory anchors that only blocks with
  transactions read.  `now` counts L1 blocks there.  Blobs are `BlobProvider`'s,
  frauds `Validators'`, and the sequencer's hook is `Sequencer`.
* In `Sequencer`: the content of transactions but for nullifiers and the block
  their anchor names, fees and nonces.  A submission whose proof is invalid goes
  no further than `Verify` and is not enumerated.
* In the wallet: receiving notes (`add_note`, which only tests call, adds the
  notes of a block), change notes, more than one asset, key derivation, and the
  frontier form of a path.

## The runs

The runs of the contracts, of the wallet and `Sequencer_safety` check safety and
assume no fairness: contracts and wallets promise nothing that must happen
without a caller.  `EventLoop_safety` assumes weak fairness of the loop's next
step, whichever it is: the loop is one task of the runtime, every await in it
returns or fails, and the service manager starts the process again
(`Restart=always`, `docs/guides/challenger.md:148`).  Nothing is assumed of the
L1 or its clock there.  `Sequencer_progress` assumes weak fairness of the
builder's steps between two awaits and of the event loop's storing of blocks,
strong fairness of `StartBuild` and `Send` (the loop polls every few seconds and
so looks into each half of an epoch), and of the L1 that halves alternate, that
what was sent is mined, and not always in a closed half only.  Deadlock is not
checked but in the two runs of the sequencer, where something can always happen:
elsewhere clocks, heights and values are bounded, so every instance ends.

| Run | Shows |
|---|---|
| `Parts_safety` | registry: solvency, list places, inactive challenged sequencers, the reward's owner; router: yield recognised once and never overpaid under uneven shares, users covered but for losses and claims; builder: posted blocks read back as built, by contract and parser; provider: a recorded block's blobs are served again |
| `Deposits_safety` | slots, confirmed prefix and anchor lookups; room, frozen deposits, the submission window, order, with rollbacks |
| `Challenges_sound` | valid blocks have no fraud proof; the first invalid block has one; the challenger finds, sends and gets accepted what it can prove |
| `Entrypoint_stakes` | the stake required at posting is there to lose for every challengeable block posted in its poster's own name; shares within one; yield only for confirmed epochs |
| `Entrypoint_withdraw` | the bridge implements `Settlement`, with late challenges, yield, losses and migrations |
| `EventLoop_safety` | database, progress, tree and pending challenges stay together over crashes and rollbacks; no fraud is forgotten, and what can be challenged is rolled back in the end |
| `Sequencer_safety` | accepted transactions are not lost, pending nullifiers and waiting transactions belong together, no second spend but of contested notes |
| `Sequencer_progress` | first come, first served; a full blob leaves unless deposits share its block |
| `Client_safety` | synced notes prove against the anchor, spent marks follow acceptances, executed withdrawals were paid |

The refinement.  `Settlement` knows no sequencers, no blocks that can still be
challenged and no vaults: a ledger of settled blocks, what was paid of their
outputs, and funds.  In `MCEntrypoint` the ledger is the payable outputs of the
confirmed blocks with what each is worth, `paid` the marks of `Withdraw.sol`,
`funds` the router's principal, `short` the tokens of which the vault holds less
than that, and `late` counts the challenges that hit a confirmed block.  A tick
that confirms blocks is `Settle`; a challenge is a stutter, or `Revoke` when its
block is confirmed, since `Spine.sol:137` sets no limit; `triggerDeposit` is
`Deposit`, the recognition of yield `Earn`, `withdraw` is `Pay`; a migration, a
claim of yield and what the vaults do are `Move`, which leaves the funds on
record as they are.  Posts, approvals, registry calls and other ticks are
stutters.  So a settled block goes only when fraud in it or below it is proved,
an output is paid once, while its block is settled, and exactly its amount
unless its token has lost value, and then no less.  That a payment of a token
which lost value is at least the amount, not at most, is the inverted ratio of
`YieldRouter.sol:94`; `Settlement` states what the code does there.

Three more runs each state what a document or a comment says and show that the
code does otherwise; `findings` in `PROJECT.json` quotes the lines.

* `Router_loss_ratio`: `triggerWithdraw` multiplies by principal / value, so a
  withdrawal after a loss pays more than its nominal amount, not less.  In the
  trace two deposits of 3 stand at a value of 4 after a loss; the withdrawal of
  one goes through and takes all 4, and the other is left with a principal of 2
  and an empty vault.  From there on the division by the value reverts and no
  withdrawal of the token goes through, a disabled action that no run states as
  a property.
* `Challenges_last_group`: an honest block is slashed when a deposit group has
  the number of its last transaction.
* `Entrypoint_stake_refunded`: funding after registering an exit lets a
  sequencer post and take the stake out at once.

### Where the code departs from its documents

These were met while modelling.  No run is kept for them; the passing properties
name them as exceptions, or the bounds of a run leave them out, as said here.

The contracts:

| Code | What it does, against what is said | In the model |
|---|---|---|
| `src/src/Spine.sol:104` | the 8193rd block of a day takes the next day's first tree slot; `challenge-game.md:49` calls positions unique | `SlotAfterPredecessor` fixes the rule of the code and claims no uniqueness |
| `src/src/Spine.sol:120` | a block that claims an anchor again, and is rolled back, leaves the anchor of a standing block unknown; `Spine.sol:179` "exists in the current chain" | the second case of `PriorAnchorResolves`; `AnchorsResolve` in `InvalidIsChallengeable` |
| `src/src/Spine.sol:223` | the genesis anchor counts as included whatever its entry holds, so it passes as the anchor of the block number where it was last claimed, also by a block since rolled back, and of block 0 if it never was | `Candidates` leaves the genesis anchor out where it is not the true one: `ValidIsSafe` says so |
| `src/src/Spine.sol:99` | a block that fills its blobs exactly is refused, 3072 deposits among them; `Spine.sol:27` "fit in one blob" | `PostedFits` is strict |
| `src/src/Spine.sol:137` | a confirmed block can still be challenged and rolled back; `challenge-game.md:133` "can no longer be challenged" | `Revoke` in `Settlement` |
| `src/src/Entrypoint.sol:56` | the block's `sequencer` is never compared with the sender of `post`: a challenge slashes the one named, while the blob use is credited to the sender.  A poster may name an address without stake, or somebody else's; `sequencing.md:9` calls the stake "a security bond: if a sequencer submits invalid data" | `Named` and `Posters` are independent in `Entrypoint_*`; `AnsweredFor` in `StakeHeldInWindow` leaves out blocks that name somebody else than their poster, behind which there may be no stake |
| `src/src/Withdraw.sol:63` | marks go by block number and stay when a confirmed block is rolled back, so an output of the block that takes its number may never be paid | `withdrawn` in `Withdraw`; `Settlement` promises payment at most once |
| `src/src/YieldRouter.sol:94` | beside the ratio: with an empty vault and principal on record the division reverts, and nothing can be withdrawn; `yield.md:101` | `TriggerWithdraw` is disabled |
| `src/src/Deposits.sol:72` | after a rollback both candidate blocks can be full and the deposit reverts; line 71 "should never hit this" | `DepositsFit` holds; the revert is a disabled `Deposit` |
| `src/src/SequencerRegistry.sol:91` | block number 0 reads as "not challenged", so a later fraud takes the reward over | `SlashBlocks` leaves 0 out in `Parts_safety` |
| `src/src/SequencerRegistry.sol:150` | a sequencer added to the list twice keeps a place when slashed | `PriorityIndexIsPlace` speaks of the recorded place only |
| `src/src/YieldRouter.sol:196` | a claim leaves the yield in the principal on record; `yield.md:23` | `ShortfallWasPaidOut` allows what was claimed |
| `src/src/YieldRouter.sol:195` | a claim before its period is recorded pays nothing, for good; `yield.md:64` | `PayoutsWithinYield` is an upper bound |
| `src/src/SequencerRegistry.sol:114` | a slashed sequencer is paid its yield once the reward was claimed; `yield.md:89` | no property forbids it |

The challenger:

| Code | What it does, against what is said | In the model |
|---|---|---|
| `event_loop.rs:184`, `events.rs:189` | after a shutdown in the middle of a batch, or a failed commit, the batch is undone but the listener has moved on, and the next commit or the exit (line 115) records its progress: the events are never processed; `state.rs:57` "ensure consistency between nullifier saves and last_processed_block updates" | `missed` is set, and the properties except it |
| `runner.rs:380`, `event_loop.rs:206` | an event whose deposits or blobs cannot be fetched counts as processed | `FetchFails` sets `missed` |
| `events.rs:128` | without a record the loop looks back 1000 blocks only, also on its first start | `Start` sets `missed` when it leaves events out |
| `state.rs:335` | a second BEGIN inside the loop's transaction fails, so of a block with transactions no nullifier, no root and no fraud is kept; `offchain.md:115` "records new nullifiers for future checks" | `NullifiersRefused` in the properties of `EventLoop`; both cases by `RecordsSaved` in `Sequencer` |
| `runner.rs:726` | the block before block 1 is taken for none, and the slot of a block without a root for the first one: challenges of block 1 and of a block behind one with transactions are refused by the contract | `CanBeChallenged`; `TargetIsRight` in `Validators` |
| `events.rs:183` | of one L1 block new roots are processed before rollbacks | `Reordered` in the properties |
| `challenge.rs:784` | the status of the receipt is not looked at: a challenge that reverted counts as done | `Overtaken`; harmless there, since the block is gone then |
| `validators/transaction.rs:211` | a reference is looked up as the root AFTER the referenced update; the contract takes the root BEFORE it (`TransactionChallenge.sol`).  Honest transactions raise alarms which the contract refuses, and a bad proof or a missing approval is reported but not proved | `LookedUp`, `TxAccepted`; `OrdinaryFraudIsProved` does not speak of transactions |
| `validators/transaction.rs:192` | a reference to a block without updates of the kind is passed over, one to a later block is reported and then not sent ("Prior anchor block not found"); without an address of the registry the approval is not checked | `TxIsReported`, `TxSent` |
| `validators/tree_update.rs:166` | the number of a wrong root counts groups and transactions together, so roots of transactions in a block with deposits cannot be challenged; a wrong block anchor names the last root as its own predecessor and is never sent (`runner.rs:1042`) | `TreeSent`, `TreeAccepted`, `HasProvableRoot` |
| `runner.rs:1014` | the last root of the block before is looked for at the number that counts groups and transactions together; mostly that is another field of the blob, which the contract does not mind, but it may lie behind the blobs, and then nothing is sent | `OpenedPrior`, `TreeSent`; `FindsRootBefore` in `HasProvableRoot` excepts it |
| `runner.rs:1344` | a retried challenge finds its fraud in a state with the block in it: a nullifier where it is itself, the first root behind the whole block; only deposits and transactions can be proved on a retry | `FoundAgain`, `IsProvedAgain` |
| `runner.rs:671` | anchors of the first rolled-back block stay in the lookup | left out: `Validators` judges a block on the chain it stands on |
| `beacon.rs:173` | blobs are asked for by L1 block number where the beacon API takes a slot | the beacon node in `BlobProvider` answers for the block |
| `beacon.rs:636`, `:356` | a fetched blob is saved by a thread that the loop's open transaction locks out; the failure is only logged, and while the blob is cached it is not saved again.  Proofs for wallets read the table only.  The cache never renews an entry (peek) | `SaveBlob`; `RecordedIsServed` counts the beacon node and the cache |

The sequencer:

| Code | What it does, against what is said | In the model |
|---|---|---|
| `mempool.rs:208`, `:402` | two spends of one note can both wait, or one wait while the other is under way; `offchain.md:53` "prevents accepting two transactions that spend the same note" | `contested` in `WaitingIsPending` and `SpentAgainWasContested` |
| `mempool.rs:155`, `:167`, `:173` | nobody calls `register_anchor`, `set_current_block` or `rollback_anchors_from`, so in production nothing gets past the check of the anchor | `RegisterAnchor` may happen at any time |
| `block_builder_loop.rs:130`, `block_submitter.rs:192` | a batch that does not fit beside the deposits owed is refused by the contract, comes back and is taken again | `FullBlobLeavesAlone` excepts it |
| `blob_builder.rs:237`, `block_submitter.rs:224` | a block longer than one blob is laid out with a gap, posted with one blob index and refused; `block_submitter.rs:192` | `PostedIsReadable` and `PostedIsParsed` speak of what gets posted |
| `block_builder_loop.rs` | a batch that a priority sequencer takes for its closed half waits for the next open half in `submit_block`; a poke is used up whether or not a block comes of it | `Send`, `StartBuild` |
| `block_submitter.rs:337` | the slot is predicted from the local clock and three seconds; when the day turns, the block is a fraud | `Predict`, `misplaced` |
| `mempool.rs` | nullifiers spent in blocks of others are not removed, transactions of rolled-back blocks are not taken up again, and a restart loses the mempool | `OtherPost`, `Challenge`, `Restart` |
| `main.rs:243` | the API is started without the sync state, so the endpoints a wallet needs answer 503 | `MCClient` has the server the tests start |
| `runner.rs:615` | the root of a finished day is not saved but from an old row after a rollback, and rows of days are never deleted: with the tables of production the latest day stays 0 and notes of earlier days cannot be proved | `AddBlock`, `Rollback`; `SaveDayRoot` is what the tests do; `untidy` in `SyncedProvesAnchor` |

The wallet:

| Code | What it does, against what is said | In the model |
|---|---|---|
| `proof/builder.rs:131` | a single input is padded with public key 0, and `transfer.circom:65` asks for the one derived from the key, so no single-input proof exists; `client_api_integration.rs:821` expects two such transfers to be accepted | `CircuitInputs`, `Circuit` |
| `proof/builder.rs:89` | the anchor named is update 0 of the latest block, of which the contract takes the root before | left out: `Wallet` proves against the status' anchor |
| `commands/withdraw.rs` | the notes are copied before the sync that fetches their paths, so a withdrawal needs a sync before it | `StartWithdraw`, `BuildWithdrawal` |
| `commands/sync.rs:186` | a note of a removed block ends every sync with an error; the returned leaf is not compared with the note | `FetchBlockProof` |
| `commands/consolidate.rs:244` | every rejection is an error status, on which the client ends: this branch is never reached, and marks of pairs accepted before are lost | `SubmitRefused`, `cut` in `SpentIffAccepted` |
| `pending_withdrawals.rs:100` | every entry with the recorded numbers is marked, also a twin or one whose block was rolled back; recorded numbers are not searched again | the exceptions of `ExecutedWasPaid` |
| `withdraw_execute.rs:127` | block number 0 means "not included", so a withdrawal in block 0 is never paid out by the client | `ExecuteProof` |

`ValidIsSafe` excludes blocks with a group mistaken for the last update too, and
`StakeHeldInWindow` accounts that funded with an exit on record: those are two
of the violation runs above.  `StakeHeldInWindow` also excludes the blocks that
name somebody else than their poster, as the table says.

### Bounds

| Bound | Why it is enough |
|---|---|
| at most 2 to 4 blocks, 3 posts | a rollback to any height, also to the empty chain, and a repost at a used number |
| 2 days, 2 anchors, genesis among them (`Deposits_*`) | several blocks on one day and a first one on the next; repeats of an anchor by a later block, before and after a rollback, and claims of the genesis anchor |
| 2 deposits a block (`Deposits_*`) | full first and second choice; a partial group and more than one group |
| blobs of 24, 40 or 60 fields for 4096 | 40 with 31 deposits and 7 transactions has blocks that end at, before and behind a blob's end, with a group and with a transaction across it |
| blobs of 35 fields in `Challenges_*` | a block of a group and two transactions, 34 fields, fills a blob so far that the field looked for as its last root lies behind the end, and after a smaller block it does not |
| 2 accounts, list of at most 3, uint8 of 3 values in `Parts_*` | each account twice on the list, swap-and-pop with itself and with another; a list never longer than the place type |
| challenges at blocks 1 and later | block 0, the mark for none, is described above |
| stakes of 1, 3 wei in units of 2 | truncation of stakes and of the halved reward |
| 1 token, 2 vaults, values up to 4 (6 in `Router_loss_ratio`), 2 periods of 2 epochs | migrations, losses and caps between record and claim; tokens share no state |
| `Parts_safety`: one part moves in a behaviour | the four share no state but the clock, which only registry and router read |
| 2 blocks of up to 2 blobs, a cache of 1 in `Parts_safety` | a block that the cache cannot hold, one blob evicted by another, each saved or not |
| challenge period of 0 in `Entrypoint_withdraw` | `isConfirmed` asks for more than the period, so blocks still wait for the next tick, and a challenge comes before that or after; epochs of 100, so yield is recognised and no claim of it falls due, which the theorem covers |
| challenge period of 2 seconds elsewhere, clock of 4 to 6 more than the start, epochs of 2 | blocks are confirmed, epochs end and exits fall due while other blocks of the same sequencer can still be challenged |
| `LateKinds`, `LastKinds` in `Challenges_*` | the first two blocks posted are of every kind; what is posted again after a rollback refers to the block below it, the one whose number may have been used before; behind two valid blocks, or two that claim the genesis anchor for their own, a third one has the frauds whose openings lie in other blocks |
| `Stakers` in `Entrypoint_*` | the accounts that register exits; the other one only funds, which keeps two posters with all calls of one |
| two share tables in `Parts_safety`, 3 and 7 of 10, swapped between the epochs | the shares of a claimant differ from epoch to epoch and from the other's |
| only blocks with a wrong anchor in `Entrypoint_stakes` and `Entrypoint_withdraw` | each may be challenged or left alone, so they stand for correct ones too; each has one transaction, with an output to pay out |
| `Named`, `Posters`, `Challengers` in `Entrypoint_*` | in `Entrypoint_stakes` two accounts post in their own name and in each other's, and one of them challenges; names do not matter to withdrawals |
| `MaxMoves`: 3 in `Entrypoint_withdraw`, 1 in `Entrypoint_stakes` | calls of the router's owner and moves of the vaults: a vault is set, its value changes and changes again, or is migrated |
| `EventLoop_safety`: 3 events by others, clock of 3 beyond the start, 2 faults, 2 retries | a post, its rollback and a repost, seen in one poll or in several; a crash or a signal and a failing call, or two of a kind; a challenge that fails and whose retry fails; a new day with every L1 block |
| `TxBlocks`, `LOOKBACK` in `EventLoop_safety` | the middle one of three blocks can have a transaction: it and the block behind it are the cases that differ; a start that looks back too little and one that does not |
| `Sequencer_safety`: 3 submissions, two of one transaction, room for 1, 2 posts, 1 fault | two handlers of one note past the same check, a third that fills the queue between; a spend in another's block; a lost receipt and the post again |
| `Sequencer_progress`: 2 submissions, a block of two that a deposit does not fit beside, 1 post, 2 days | both outcomes of the deposit, one failure and its retry, a wrong slot |
| `Client_safety`: 3 notes, the largest of which covers one amount and the two largest the other, 2 days, 3 moves, 2 commands, 1 fault | a sync before and after each move of the sequencer, a day finished between two syncs, a command cut short and repeated |
| `Client_safety`: 2 commitments, 4 commands, a search of one block back | two withdrawals in one block, one found late, one paid by somebody else, numbers that are stale after a rollback |

Whether one part or the other of `Client_safety` moves is fixed at the start:
spending notes and following withdrawals share only the sequencer's answers.

The kinds of blocks in `MCProposals` are a correct block and one deviation at a
time: wrong anchor, root, leaf, padding, repeated or spent nullifier, proof for
another anchor, anchor ahead of the transaction, outside its block, of an older
block, an unapproved key, a first update from the genesis anchor, and a claim of
the genesis anchor as the block's own.

## The proofs

TLC checks the small instances above; the theorems hold for every value of the
constants that satisfies the named ASSUMEs, so for any number of accounts,
blocks, submissions, handlers, failures and crashes.  Every property
proved is also checked by TLC on an instance, and so were, before their proofs,
most of the inductive invariants below.

`SpineProofs`.  That the slot of every block follows from its predecessor is not
inductive: a new block's slot comes from `lastTimestamp`, so the invariant needs
that `lastTimestamp` is the head's slot (`LastTimestampIsHead`), which `rollback`
keeps because it copies the slot of the block before.  That an anchor resolves
needs to know that the anchor table never points below a standing block that
claims the anchor (`AnchorLookupNewest`), and that the entry's block has that
anchor (`EntriesHaveTheirAnchor`).  `ChainOrdered` gives the confirmed prefix.
Together they are `SpineInv`, one lemma for each of post, rollback and tick.

`DepositsProofs` carries `SpineInv` along and proves that the deposits of
included blocks are frozen, that no block is owed too many, and the two action
properties of the window and the order.  What it needs beyond is
`DepositsFit`'s second part: no block beyond `highestDeposit` is owed any.

`RegistryProofs`.  The place of a listed sequencer is right only together with
the fact that the place type holds every place of the list (`ListFits`: the
list's bound is at most the values of the place type; with the code's uint8, 256
entries).  The assumption is in the theorem's statement, since the code does not
enforce it.  Solvency is a sum over the accounts.  `Total(f, T)` is that sum as
the community modules define it; `TotalOfChange`, `TotalWithin`,
`TotalInProportion`, `TotalInjected` and `TotalByGroup` say what one changed
entry, a bound on every entry, a division of every entry, a larger sum and a
division into groups do to it, by induction on the set written out over a
recursive function.  A payment is the stake's decrease, so what is
left covers the rest.  `AccountsAssumption`: addresses have 160 bits, so the
accounts are finitely many.

`PartsProofs`: the parts `MCParts` puts side by side.  Only blocks shorter than
one blob are posted (`PostedFits`), and while a block fits in one blob everything
is written without gaps (`OneBlobIsLinear`); then every address of the contract
and of the parser finds its field, for every blob size.  The reward: the recorded
challenger is that of the lowest block proved since the record was last deleted
(`RewardOK`), given that block 0, the mark for none, is not among them
(`PartsAssumption`).  The router: each claim on record was paid at most what it
would be paid now (`ClaimsOK`: a period's payout is 0 until it is recorded and
does not change afterwards).  A period's claims are grouped by epoch, of which a
period has `EPOCHS_PER_PERIOD`; those of one epoch are shares of the same
amount, each rounded down, for claimants whose shares add up to at most one
(`ShareOfQuota`), which bounds the sum (`ClaimsWithin`).  The claimants are any
finite set, any of them may be challenged at any time, and the shares may be any
that `SharesAssumption` allows, others in each epoch: what the bridge answers is
within that by `SharesWithinWhole`.  Until a loss the principal
exceeds the value by at most the claims (`CoverOK`).  The blob provider: a hit in
the cache saves nothing, so the invariant (`ProviderInv`) has the same of every
cached blob.  `GetBlobs` is a fold over the blobs of a block; its function is
shown to exist, and followed from blob to blob, by least counterexample.

`EntrypointProofs`: the bridge as a whole.  Every step of it is a step of the
chain and a step of the registry, or leaves them alone, so `EntrypointSpec`
implies `SpineSpec` and `RegistrySpec`, and what was proved of these holds of the
bridge.  The fraud proofs are sound and complete by what `SpineInv` says of
anchors and slots and by `ContentOK`: no block is empty, and what its
transactions refer to is numbers (`ContentAssumption`, since the code decodes two
uint32 from whatever the blob has there).  An attempt at this proof failed on a
state that TLC's instance had not had: the genesis anchor is accepted wherever
its entry points, also when a block since rolled back set the entry.  The
property names that exception now, and `Challenges_sound` has blocks that claim
the genesis anchor.  Yield is only paid for epochs that were final at the time
(`PaidIsFinal`); they stay so, and the blocks of a final epoch are confirmed, by
arithmetic on the truncated quotients of seconds, epochs and the challenge
period.  The use of an epoch is the sum of what the sequencers used
(`UseAddsUp`), so the shares, each rounded down, add up to at most the whole;
this needs that whoever posts is an account (`EntrypointAssumption`).

`StakeHeldInWindow` takes three timers together.  The property needs two history
variables: who posted each block and the stake required of them then (`posted`),
and who funded again with an exit on record (`refunded`).  A call changes one
account's stake in one of a few ways (`CallEffect`).  The inductive invariant
says more than that the stake is there: since the block's time nothing has set it
free (`HeldSince`), so a challenge on record is not older than the block and
neither is an exit under way (`HeldOK`); and an exit on record keeps its account
inactive unless it funded again (`ExitsOK`).  So what pays the stake out comes
after the block's period, provided the period is at most the window (both are
3600 in the code): that is the only assumption in the statement.  Blocks may name
anybody; a challenge of a block that somebody else posted in an account's name
starts that account's window like any other, and the stake stays.  What the
property leaves out are blocks that name somebody else than their poster.

`BridgeSettles` is the refinement of `Settlement`, under the named ASSUMEs alone.
The settled blocks are the numbers below the first one that is not confirmed, in
the order of their times (`StandsOK`), so a tick takes the ledger to a longer one
(`LedgerGrows`) and a challenge leaves it or cuts it, when its block is confirmed
(`LedgerShrinks`).  What is paid out is an amount of a known asset (`LeavesOK`;
`LeafAssumption`, since the code reads two numbers from whatever the blob has
there), a mark names a block, a place in it and an output (`MarksOK`), and what
the router moves are numbers (`AmountsOK`, which has `UseAddsUp` for the shares
that claims are computed from).  A withdrawal takes exactly its amount while the
vault covers the principal, and never less (`UserAmountFacts`: the quotient of
principal and value is at least one, also when rounded down).

The honest challenger (`OrdinaryFraudIsProved`) also has its proof there, since
it reads blocks, deposits and the frozen part of both.  For each of the three
kinds of fraud the same four questions: is it found, is the challenge sent, is
every field it opens in a blob and the one the contract asks for, and does the
contract then see the fraud.  The addresses are arithmetic on the layout
(`FieldIsFound`), within the blobs because a posted block is strictly shorter than
its blobs (`SizesOK`, `BlocksFitBlobs`).  A validator reports the first fraud of
its kind, which exists by least counterexample.  For roots the tree the
challenger tracks is the true one up to the block (`TrackedIsTrue`, an induction
over the blocks below, all of them valid) and a root before another is a prefix
of it (`RootsAddUp`).  The deposits compared are those of the contract, which do
not change once the block is included: `BridgeKeepsDeposits` carries the theorems
of `DepositsProofs` over to the bridge, where challenges and rollbacks come in
between.  Assumed is that a tree begins empty (`ValidatorsAssumption`:
`GENESIS_ANCHOR = <<>>`, as a root is the list of the updates in its tree).  The
property as it stood before was false: the attempt stopped at the address of the
last root in the block before, and TLC found the state with blobs of 35 fields,
where the instance had had 60.  `Challenges_sound` now has that size, so without
`FindsRootBefore` the property fails there.

`EventLoopProofs`.  `DatabaseIsChain` speaks of the tables as committed; the
invariant also has the tables in the open transaction, which are the chain after
the events that are done, where those done are the first ones of the log
(`UpTo`, `TablesOK`).  That needs the log: each event's chain extends or cuts the
one before (`LogOK`), and a block that stands came with an event and is in every
later chain (`StandingOK`), so a rollback processed later deletes exactly the
blocks that were cut.  Slots of the tree are never reused by two blocks of one
chain (`SlotsAreDistinct`), so rows of roots are not overwritten (`TreeOK`).
Frauds found and not yet submitted, pending and retried challenges accuse blocks
of the tables they are in (`PendingOK`), and a fraud that the tables have is
found or pending (`FraudOK`).  All but the types, the log and the phases is
claimed unless `missed` or `Reordered`, the exceptions of the properties; both
last (`DisturbedStays`).

`SequencerProofs`.  Batch and queue are one line in which every accepted
transaction has one place (`LineOK`); every step takes the line to itself, to a
part or to a longer one (`LineMoves`), which gives `AcceptedNotLost` and the
order.  For the nullifiers: whatever was counted twice alive is contested
(`CountedOK`), hence what waits or is being entered is pending (`WaitingOK`);
what was verified spends nothing that is on record (`RecordOK`), as the check of
the database comes before; so a second spend on the chain is contested or lies
on a block whose nullifiers were never recorded (`AgainOK`).
`SequencerAssumption` says that the bounds are numbers.

`ClientProofs`.  A command works on a copy of the wallet.  Until the first
submission the copy has no mark that the file lacks; from then on the marks of
the copy are those the sequencer accepted, and what is queued are notes of the
wallet (`SpendInv`), so a cut shows as marks that were not saved.  For
withdrawals, while no block was taken back: an entry with a number has the number
of a block that holds its commitment and the first place there, an entry marked
as executed has numbers that the contract has marked, and each mark of the
contract is that of an output it paid for (`PaidInv`).  `MCClientAssumption`
gives the contents of blocks their types.

The path of a note after a sync (`SyncedProvesAnchor`) comes from what the files
and the process may be left with by commands that ended anywhere (`SyncedInv`).
The server's tree over days is that of its blocks (`ServerOK`: the tree of a day
is the blocks of that day, in order).  A cache has the recorded root of every day
before the one it last asked for, and these cannot change, since no block is
added to a day that is over; the tree of that day itself may be old, but is right
when it was taken at the present tip, and an answer with block number 0, which
also stands for no blocks, is a case of its own (`CacheOK`).  A note keeps the
in-day part of its path only once its day is over, so that part cannot go stale
either (`FilesOK`).  During a sync the status names the tip as long as the
sequencer does not move, and the rows of all days before it are there
(`StatusOK`); once these days are fetched (`FetchedOK`) and the current one is
asked for, the cache has the present tree (`AtCurrentDay`); every unspent note
has its block part, and its in-day part, or its day is the current one or still
to be asked for (`ToFinalize`).  A path built from siblings and a leaf folds back to
the tree they were taken from, level by level, which ends at the anchor.  Nothing
is claimed after a rollback, or once a day root was missing in a sync; both
exceptions last; the tables above name the code behind them.

Only model-checked, and why: the liveness properties (`FraudRolledBack`,
`FullBlobLeavesAlone`), which with ENABLED are out of the prover's reach.  The
inductions that the proofs need (over the blobs of a block, the blocks below, the
accounts of a sum) are written out, by least counterexample or on the size of a
set, since the library's induction theorems cannot be instantiated here; no module
declares a RECURSIVE operator.  The violation runs
are counterexamples and need no proof.

## Plan

All parts of the plan are done: the contracts, their refinement of `Settlement`,
blob builder and provider, event loop, validators, sequencer and wallet as above,
and eight proof modules which cover every safety property of the passing runs.
What would come next: a wallet that recovers from a rolled-back block, once the
client does; the change notes of a transfer; the frontier form of a path.

Not modelled: hashing and the Merkle library (a root stands for what it
contains), the provers (a proof exists when its statement is true), configuration,
command lines, status and health pages, logging, deployment scripts, and the
circuits but for the conditions of `transfer.circom` on its inputs.

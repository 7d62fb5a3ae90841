# Verification of textile-stitch in TLA+

textile-stitch is a market maker's bot. It quotes corridors (token pairs) to
Textile's RFQ venue over a websocket, signs Permit2 orders with a local or
custody key, and lets takers execute those orders on chain until they expire.
The same binary also runs a ladder of resting orders, an auction closer, a
liquidity schedule for vaults, and a web panel that administers bots.

Nothing on chain stops the bot from signing more than it owns; a signature
cannot be called back. So the heart of the program is bookkeeping: what has been
signed, until when it can be used, what the chain says was used already, and what
is therefore left. That bookkeeping is spread over tasks which see the world late
and in different orders, survives restarts through one file, and is what is
modelled and proved first.

## 1. Inventory

Paths are under `src/src/`. "Hard" names what makes the part hard to test.

| Part | State it keeps | Operations | Hard | Correct means |
|---|---|---|---|---|
| Reservation ledger `rfq/reserve.rs` | claims by rfq id: token, input, release time, nonce, exposed; bound vault epoch; a JSON file | reserve, mark exposed, release a loser, release filled, prune, sync epoch, load, persist, flush | restarts, replays, failed writes | every signature a taker can use is claimed, in memory and on file |
| Responder `rfq/mod.rs`, `rfq/responder.rs` | `Engine` per session: books, ledger, nonce counter | quote request, quote result, quote expired, attest, close redeem, level tick | awaits inside a request, stale results, reconnects | the orders out can all be paid |
| Balance loop `inventory_loop`, `rfq/fills.rs` | block clock, fill watch, inventory cache, trading epoch, vault policy | batch read, admit by block, publish balances, epoch, policy, spent nonces | lagging nodes, partial batches, order of publication | a fill is never missing from both sides |
| Vault close `close_redeem`, `claim_close`, `reconcile_close_claims` | close claims by redeem epoch, the policy cell | check, claim, spawn the send, release, reconcile | lost receipts, other callers, races on two cells | dark from claim to release, one close, claims follow the epoch |
| Nonces `rfq/nonce.rs` | a counter per session | mint | time seed against counter | no two orders share a nonce |
| Sessions `session_loop`, `Backoff` | backoff, supersede streak, handover fast lane | connect, serve, note the end, wait | venue deploys, duplicates | retries are bounded, the fast lane ends |
| Level publication | outbound window, pending expiry set | tick, debounce, flush | 40 messages a second, dark corridors | no burst over the limit, no corridor forgotten or held back |
| Liquidity schedule `rfq/liquidity.rs` | pending floor change, its saved record, quote cap | plan, cap, sign, send, rebroadcast, reconcile | crash between sign and receipt, dropped transactions | no two floor changes that can both land; the cap outlives a lower |
| Price guard `pricing/{jump,cache,anchor}.rs`, `rfq/guard.rs` | print history, candidate, held feed, anchor file | admit, judge, warm up, re-anchor, recheck | two producers with crossing answers, failing writes, restarts | no price is trusted on one read, no order leaves on a price that moved |
| Manual sales `modules/manual.rs` | nonce file, pacing file | take, pace, nonce | crash before signing | one sale, one nonce |
| Recall lane `perps/recall.rs` | one hold, its own ledger | offer, reserve, result, prune | beside the main ledger | one promise at a time |
| Ladder `book/` | slot nonces, inputs and deadlines on file; the tick's budgets | size, draft, sign, post, remember, forget spent | the indexer's view against the slot file, sides sharing a token | a replacement never doubles a slot, sides never overdraw their token together |
| Closer `closer/` | none | discover, plan a batch, fill | FIFO head, rounding | a batch is the profitable prefix |
| Wallet `chain/rpc.rs` | none beyond the chain's nonce | plan, sign, broadcast, bump, wait | lost answers, replaced fees | a send is never repeated while it can land |
| Change log `changelog/`, `panel/http/changes.rs` | journal, snapshot, shipped offset, refusals | save, catch up, append, ship, refuse, deliver before a new key | two shippers on one offset, stops between two files, lost answers | no unrecorded change runs, nothing owed is skipped or filed under the next maker |
| Signers, enrolment, indexer, wire types, setup, panel, desktop, web | clients, encoders, administration | | | mostly I/O, see section 9 |

How they interact: one process runs the responder task and the balance loop side
by side on tokio's multi-thread runtime. They share four cells: the inventory
cache, the fill watch, the trading epoch and the vault policy. The responder alone
owns the ledger; it passes it from session to session. A close spawns one task
per transaction, which shares the map of close claims with the other two. The
venue sends requests, results and expiries over the session; takers talk only to
the chain. `docs/quote-reservation-lifecycle.md` tells the first half of this
story; the models are written from the code. The ladder maker runs in the tick loop of
`main.rs` and shares with the responder only the price cache. The change log ties the
bot's process to the panel's: they share files, one lock for the recording half
and none for the shipping half.

## 2. Modules

| Module | Role |
|---|---|
| `RfqLedger` | ledger, responder, balance loop, venue, takers, sessions, process |
| `Escrow` | what the ledger promises, with no ledger in it |
| `MCRfqLedger` | constants of `RfqLedger` that a .cfg cannot write, symmetry |
| `RfqLedgerProofs` | proofs about `RfqLedger` |
| `RfqVault` | trading epoch, close of a redeem epoch, policy, restarts |
| `RfqVaultProofs` | proofs about `RfqVault` |
| `RfqNonce` | quote nonces |
| `Reconnect` | the loop that reconnects, its backoff and fast lane, over the sessions of `RfqNonce` |
| `ReconnectProofs` | proofs about `RfqNonce` and `Reconnect`, that the one implements the other among them |
| `Publication` | what a session sends and when: ticks, flushes, replies, the rate window |
| `PublicationProofs` | proofs about `Publication` |
| `PriceGuard` | the admission state of one feed, its pollers, file, readers and signed orders |
| `MCPriceGuard` | symmetry of `PriceGuard` |
| `PriceGuardProofs` | proofs about `PriceGuard` |
| `Sizing` | how inputs are shared between sides and cut into slots, as functions |
| `Ladder` | the ladder maker: budgets, slot nonces, batches, the indexer, crashes |
| `LadderProofs` | proofs about `Ladder` and `Sizing` |
| `ChangeLog` | journal, snapshot, the two shippers and the maker key |
| `ChangeLogProofs` | proofs about `ChangeLog` |
| `LiquidityFloor` | the liquidity schedule: loop, send task, cap, saved change, restarts |
| `LiquidityFloorProofs` | proofs about `LiquidityFloor` |

`RfqLedger` and `RfqVault` cut the same tasks along two lines: the first is about
amounts and time on the wallet path, the second about epochs and closes on the
vault path. They share the ledger, the loop's block clock and the process, and each
keeps only what its properties tell apart. `LiquidityFloor` stands beside them: it
takes from the ledger only how much settlement its claims promise. `Reconnect`
extends `RfqNonce`, whose sessions it schedules, and is shown to implement it.
`Publication` is the inside of one session. `PriceGuard`, `Ladder` and `ChangeLog` share
nothing with the others that their properties depend on.

### RfqLedger and the code

| Model | Code |
|---|---|
| `ledger`, `disk` | `Reservations.by_rfq`, `rfq-reservations.json` (whose entries have no `exposed`) |
| `cache`, `watched`, `spent`, `clock` | `InventoryCache`, `FillWatch`, `BlockClock` |
| `engine` | where the responder is inside `respond`: pricing, or waiting for the signer |
| `loop` | where `inventory_loop` is: the read it has out, what it still has to publish |
| `QuoteRequest`, `Price`, `Withhold`, `Reply` | `respond`, cut at its one await that matters and at its look at the cache |
| `OnSelected`, `OnQuoteExpired`, `OnLoser` | `dispatch`; a stale result can come for any round the bot was told of |
| `LevelsTick`, `LevelFrames` | the one-second tick; the level frames of a tick, an expiry or a curve quote |
| `WatchedNonces` | `watched_nonces` as far as `distinct_words` has room, the latest deadlines first |
| `LoopRead` to `PublishSpent` | one refresh: the batch goes out with the nonces watched then, one answer is admitted or dropped, balances go out token by token, spent nonces last |
| `Connect`, `Disconnect`, `Crash`, `Start` | sessions hand the ledger on; a crash keeps only the file |
| `Tick`, `VenueDecides`, `Fill` | the world, external |

Amounts are small integers; a balance is represented by the block it was read at,
and `BalanceAt` gives what that block holds. Corridors, sides and prices are left
out: all claims on a token count against it whichever side signed them
(`reserved_paying`). An order that can be executed is one that left the process,
is unspent, in time and not discarded by the venue. `MaxWords` is the cap on the nonce words
of one refresh (64 in the code); each nonce takes a word of its own, the least a refresh can see.

### RfqVault and the code

| Model | Code |
|---|---|
| `claims`, `ledgerEpoch` | the ledger and the epoch it is bound to, both on file |
| `tradingEpoch`, `policy` | the two cells the loop publishes |
| `closing` | `Runtime.closing`: the trading epoch each redeem epoch's close was claimed under |
| `sends` | one record per spawned close: its transaction, whether the task still waits, whether an earlier process sent it |
| `engine` | the responder: synced, checked, signing, checking, closing, claimed |
| `reading` | the loop: the answer it waits for, epoch published, claims reconciled |
| `QuoteRequest`, `CheckPolicy`, `MintNonce`, `Reply` | `respond`: sync at its start, the last look at the policy, the nonce from the epoch cell, claim and reply |
| `CloseRequest`, `ReadEpoch`, `RefuseClose`, `ClaimClose`, `GoDark` | `close_redeem` and `claim_close`, whose two halves are two steps |
| `PublishEpoch`, `ReconcileCloses`, `PublishPolicy` | the loop's three writes, in the code's order |
| `TaskReleases`, `TaskGivesUp` | the spawned send; `transaction_may_still_land` decides which |
| `Crash`, `Start` | the ledger file survives, the close claims do not; a close in the pool stays there and stays the bot's own |
| `unbound`, `resumed`, `lit`, `misread` | ghosts, for what section 6 describes |

The runtime has several threads, so a step is what a task does between two awaits, or between
two looks at a cell that another task writes: the loop may come between any two steps
of a request, and the responder between any two of a refresh. `NodeLag` lets a read be
answered from the block before the newest.

### RfqNonce, Reconnect and the code

`Mint` is the nonce `respond` takes, whether or not the quote goes out; `NewSession`
is a reconnect, which builds an `Engine` with its counter at zero. The namespace
bit is the same in every nonce and left out.

| Model | Code |
|---|---|
| `ms`, `counter`, `last` | the clock, the engine's counter, the last nonce out |
| `outran` | ghost: a session has counted beyond the milliseconds of a reconnect |
| `up`, `lived` | a session is accepted, and for how long it has lived |
| `backoff` | `Backoff`: the seconds of the next long wait and the quick retries used |
| `Accept`, `Ends` | `run`: an accepted session resets what `is_healthy_session` allows; an end is noted, waited for and followed by the next attempt |
| `Restart` | the process starts over with the defaults |

`RfqNonce` lets a session start no sooner than `Reconnect` after the last one; that the
backoff keeps to this, through handovers, refusals and resets, is the refinement. A
restart of the process is taken to last at least as long as the shortest wait. The handshake
and the supersede streak, which only logs, are left out.

### Publication and the code

| Model | Code |
|---|---|
| `sent` | `RateWindow`: the frames of the rolling second that are no older than each age |
| `pending`, `trailing`, `flushed`, `tick` | `pending_republish`, `trailing_at`, `last_levels_flush`, the interval's next tick |
| `request` | the session is inside `respond`, and its timers wait |
| `bright` | corridors whose feed and policy allow levels now |
| `QuoteExpired`, `QuoteRequest`, `Reply` | the frames of the venue and what they send, a live curve's levels included |
| `FlushDark`, `FlushDeferred`, `FlushSends` | `flush_expired_levels`: nothing is ready, the budget is short, or the ready ones go out |
| `IntervalTick`, `Time` | the tick and whether it emits; what is due comes before more time |

Time is in steps of a third of the interval. The ghosts count for how long a corridor has
waited or been silent and for how long the venue and the feeds have been still.

### PriceGuard and the code

| Model | Code |
|---|---|
| `loaded`, `history`, `startup`, `quote`, `hold` | `FeedState`, behind one mutex |
| `saved`, `file` | `Anchor.saved` and the feed's file, whose record may be a contradiction |
| `polling` | the request each loop has out, and when it began |
| `now`, `behind` | the monotonic clock, and how far the wall clock was set back |
| `Poll`, `Admit`, `FetchFails` | a poll of the price loop or the tick loop; answers may cross |
| `Judge`, `WarmUp`, `Jumped` | `judge`, `warm_up`, `jumped`: trust, refuse, re-anchor |
| `Record`, `Keep`, `WorthSaving` | what is saved, when, over which older record |
| `Build`, `Release`, `Withhold` | a firm order: gates, signature, `recheck_after_signing` |
| `Restart` | a new process reads the file |

A degraded print and none look the same to every reader and are one value. One process
owns a feed's file. NAV attestations pass the same gate and are left out, and so is a run
without a config directory, which has no file. `MovesAreSaved` says that a move too
small to be saved is one the guard would take, which holds for the constants of the code.

### Ladder, Sizing and the code

| Model | Code |
|---|---|
| `ledger`, `file` | `QuoteState`: next nonce, and each slot's nonce, input and deadline; the state file |
| `rows`, `spent` | what the indexer holds, what Permit2 has used |
| `side`, `step`, `budget`, `batch`, `answer` | where `quote_side` is, `TickBudgets`, the drafts, what `submit_many` said |
| `StartTick`, `Skip`, `Quote` | one tick over the sides of a token |
| `ReadBalance`, `ReadCommitted`, `ReadFails`, `Sizes` | `funded_input_cap` and `side_sizes` |
| `Hold`, `Draft`, `NotSaved`, `Withhold` | drafts, slot nonces, the file before the batch, signing |
| `Submit`, `Answered` | `post_many` and what its answer changes: inputs remembered, used nonces forgotten, the budget corrected |
| `Fill`, `Transfer`, `Second`, `Restart` | the world, and a start from the file |
| `Sizing` | `balanced_ladder`, `carry_slice`, `available_funded_input`, `max_input_share` |

A superseded signature of the same nonce is not kept: using it is a fill and a transfer.
The seed of the next nonce is taken at its worst, a clock that is behind. Each side has
slots of its own and all sides share one token. Prices and bands of a side, the conversion
of ask sizes, dry runs and the taker are left out. `balanced_ladder` agrees with the
repository's test `balanced_ladder(50_000, 10, 15)`. The loop over the free slots is the recursive
function of `Carry`, one order (`Carried`) a slot; the sort is stated by ranks (`Ascending`).

### ChangeLog and the code

| Model | Code |
|---|---|
| `file`, `journal`, `torn`, `snapshot` | the config, `change-log.jsonl` and whether it ends in part of a line, `change-log.snapshot` |
| `cursor`, `refused` | `change-log.shipped`, counted in lines, and `change-log.refused` |
| `dropped` | ghost: notes of refusals that another shipper wrote over |
| `panel` | one request on the bot: a save, or a change of the maker key |
| `bot`, `ship` | the bot from reading its config on; `ship_pending`, the bot's and the panel's |
| `stored` | what Textile stored and the maker it is filed under, external |
| `HostEdit`, `Save`, `WriteConfig`, `Record` | the editor; `write_config_recorded` with the lock it holds |
| `ReadConfig`, `CatchUpAtStart`, `Spawn` | `run`, `record_config_at_startup`, and `spawn`, which reads the key or ships nothing until the next start |
| `Recording`, `Remains` | `append` then `write_snapshot`, and all that is left when one of them fails or the process stops in it |
| `ReadJournal`, `ReadCursor` | two reads in a row that another process can come between |
| `Accepted`, `BatchRefused`, `OneByOne`, `Fails` | the answers of Textile |
| `Note`, `SaveEntry`, `SaveBatch` | what is saved of them, each a step: the notes of refusals, replaced as a whole by a copy extended, and the cursor |
| `ChangeKey`, `StoreKey` | `deliver_before_key_change`, registering, `store_maker_key` |

A line is one parameter's change, a text is a value for the switch, one for another
parameter and a comment. A config that does not parse, the guard
on deleting a bot and the command line's `connect`, which does what the panel does
without its lock, are left out.

### LiquidityFloor and the code

| Model | Code |
|---|---|
| `execution` | `Execution`: `free` is no `in_flight`, `sending` and `awaiting` are `pending.sending`; `bytes` is `rebroadcast`, `retry` is `retry_at` |
| `file` | `liquidity-pending.json`; its nonce is the one the bytes were signed at |
| `cap`, `raise`, `measured` | `LiquidityShared`; `NoCap` is `None` |
| `committed`, `quote` | what the ledger's claims promise in settlement; a signed quote between `fits_liquidity_cap` and its claim |
| `task` | `spawn_send` inside `send_and_wait_reserving`: sign, save, broadcast, wait |
| `loop` | `tick`: reconcile, rebroadcast, plan and publish, act |
| `pool`, `mined`, `nonce` | what nodes hold, the last change mined, each account's next nonce |
| `Sign` to `RecallEnds` | the send task, with the refusal, the lost answer and the missing receipt told apart as `transaction_may_still_land` does |
| `Fits`, `Reserve`, `Withhold`, `Measure`, `ClaimsEnd` | the engine's side, through the shared cap |
| `Read`, `Reconcile`, `Rebroadcast`, `Publish`, `Send`, `NoGas` | one tick, cut at its awaits |
| `Restart` | crash and `Runtime::new`, in any mode and with any of the operator's signers |

`Plans` gives every plan that some vault reading leads to, for a measurement: a
raise, a lower or a drain, a recall, a hold, a wait, each with any cap it may carry.
The reading itself is free, since operators, fills and deposits move what it
shows. Only what `plan` concludes from the measurement is kept exactly
(`MayLower`). Four things are argued from the numbers of the code and built in:

- A published cap does not lapse. It is valid for 120 s, and one tick has at most
  115 s of awaits that are bounded (five reads of 20 s and the pause of 15 s).
- A measurement is never used twice: it is good for 10 s and ticks are 15 s apart
  (`Outlasting`).
- Preview and a schedule that is off look the same here: neither caps nor sends, and
  both keep the cap of a lower that may land.
- The claims survive a restart: with modules configured, replies wait for the ledger
  file, which is the business of `RfqLedger`.

A recall quote is exempt from the cap in the code and not modelled: it pays out of
what the recall brings. `settle` and `forget_saved` are one action; a stop between
the two is a case of `RemoveFails`.

## 3. Runs

Every run is a .cfg of the same name.

| Run | Checks | Shows |
|---|---|---|
| `RfqLedger` | `LiveOrdersClaimed FillsCounted Solvent` | no interleaving of two rounds, their results, replays and fills with lagging, refused and dropped reads oversigns the wallet |
| `RfqLedgerRestart` | `LiveOrdersClaimed FileCoversOrders ImplementsEscrow` | crashes at every step and failing writes, with modules on: no live signature is forgotten, and the system implements `Escrow` |
| `RfqLedgerLive` | `FilledClaimsReleased` | a filled claim comes back before its deadline, unless later ones crowd it out of the reads |
| `RfqVault` | `OrdersClaimed DarkWhileClosing NoOrderIntoOwnClose OneClose` | closes by the bot and the keeper, two threads, lagging nodes, lost receipts, dropped transactions and crashes |
| `RfqVaultLive` | `DarkEnds` | without orders and restarts: every close, repeated ones too, ends in quoting again |
| `LiquidityFloor` | `LowersCovered OneFloorChange OnFile RaiseKnown Settles` | two accounts, lost answers, replaced nonces, lagging reads and a restart: a lower that can land is covered, one change is out at a time and it is on file, and one whose nonce is used is settled |
| `PriceGuard` | `ServedInLine FileFollows ColdStart LevelHeld SignedInLine` | two loops whose answers cross, a jump, a slow signature, a failing write and a restart: only prices in line with what is trusted are served and signed |
| `Ladder` | `TypeOK SlotNonces Funded FreshNonces RefusedOnce` | two sides over one balance, fills in the middle of a batch, lost answers, failed writes and restarts: slots, nonces and budgets stay apart |
| `Reconnect` | `NoSpin BacksOff GrowsAcrossSessions ImplementsNonces` | whatever the order of handovers, short and long sessions, the venue is not spun on, and the nonces grow until a session has counted past its reconnect |
| `Publication` | `TypeOK InBudget Prompt Cadence` | ticks, expiry flushes, replies and dark feeds in every order: the venue's cap holds and nothing that can be published is held back |
| `PublicationDark` | `NoGap`, violated | section 6 |
| `ChangeLog` | `RunsRecorded NothingSkipped FiledInTime Delivered` | a bot, a panel and an editor over one journal, with lost answers, failed writes and stops: the journal is a chain, nothing is passed over and what is owed gets out |

What the less obvious properties say:

- `FillsCounted`: capacity is balance minus claims. A fill lowers the balance and
  ends the claim, and the bot learns of the two at different moments. The
  property says that no usable reading from before a fill meets a ledger without
  that fill's claim.
- `Solvent` is what follows for the world: all orders out can be paid at once from
  what the chain holds now, although each was sized on a cache that was late.
- `ImplementsEscrow` is stronger: each order was covered on the chain itself when it
  left, on top of all the others. The refinement mapping turns executable orders
  into obligations; deadlines and discarded rounds are lapses the bot never sees.
- `FilledClaimsReleased` is about one claim at a time. The disjunct `Crowded` is the cap at
  work: as long as enough other claims lapse no earlier, a refresh need not read this one.
- `OrdersClaimed` leaves out the orders in the ghost `unbound`, which holds those that fall out in
  the two ways of sections 6.3 and 6.4, and says that there is no third way.
- `DarkWhileClosing`: `lit[e]` counts the refreshes that put the policy in since the close of `e`
  was claimed. One may (6.5); a second, or one that saw the claim, never does.
- `NoOrderIntoOwnClose`, `OneClose`: while a close that this process sent can still be mined,
  nothing is signed and no second one is sent, even when the task that sent it has stopped waiting.
  `KnownClose` leaves out what sections 6.6 and 6.7 describe.
- `DarkEnds`: a close that was broadcast, given up on and dropped from the pool leaves
  a claim that no task will release; the next epoch bump does.
- `LowersCovered`: the chain lets a lower land at any moment while a node holds it, so
  at every such moment the claims, and the quote about to become one, must fit
  under its target. The cap, the age of the measurement, the check after the signature,
  the slot and the file all have a part in it.
- `RaiseKnown`: the venue admits bundles up to the floor as soon as a raise lands, so
  the shortfall cap has to count with its target until then.
- `Settles`: with a rotated signer, in Preview or with the schedule off, a change whose nonce
  is used does not hold the slot and the cap for ever.
- `ServedInLine`: the quote is a cache that two loops fill and the hold is a flag
  they raise and lower; an answer that was asked for before a jump and arrives
  after it must not bring the old price back, nor the new one too early.
- `FileFollows`: the file is written sparingly, so small moves that are each not worth
  a write could add up until the file no longer speaks of the price trusted now.
- `ColdStart`, `LevelHeld`: the two ways a price becomes trusted, against ghost sets of
  what the feed really printed and when, not against the guard's own candidate.
- `SignedInLine`: between the decision and the signature the price moves, is held,
  goes stale or is lost; the order that leaves was judged again at the end.
- `SlotNonces`: on chain an order is cancelled by using its nonce. Two live orders of one
  slot would both be executed; two slots with one nonce would cancel each other.
- `Funded`: the indexer refuses a batch whose token it finds overdrawn. Sides
  that share a token are sized one after the other, each on what the others
  left; `calm` holds while no transfer or outside spending came between.
- `RefusedOnce`: an executed nonce refuses the whole batch, all its sound orders too. One
  refusal must be enough to mint it anew, whichever of answer and file is lost.
- `BacksOff`: handovers, quick endings and accepted sessions in between must not forget
  the doubling; a session that lived must.
- `Prompt`, `Cadence`: `calm` counts the time the venue has left the session alone, so
  each reads: after so long in quiet, a corridor that can be published is.
- `RunsRecorded`: whoever made a change, the panel with the bot running, an editor
  while it was down, or both in turn, a bot does not start on a config the journal
  does not explain.
- `NothingSkipped`: two shippers share one cursor file and one file of refusals, with no lock on
  either. A refusal has to be noted before the cursor passes it; that the note stays is
  more than the code promises (6.10).

## 4. Bounds, and why they are enough

- `RfqLedger`: two rounds and two nonces over one token with two units, four
  seconds, orders living one second, skew two, TTL one, node lag one. The shape
  `ChainSkew + NodeLag + Ttl + RpcMax =< Skew` is that of the code's numbers (3 s TTL, 15 s
  request timeout, 30 s skew). Two rounds are needed for one order to be sized beside
  another and enough for each hazard listed, which all involve one lost or early
  release and one new quote. Time runs past the release of a claim and of the next.
  The sequential reader is left to `RfqLedgerRestart`: without Multicall3 its answers
  carry no block.
- `RfqLedgerRestart`: one size and three seconds; crashes may come at every step,
  again and again.
- `RfqLedgerLive`: the clock stops after one second, before any deadline, so that
  expiry cannot be what releases a claim. Two claims and room for one word in a
  refresh (`MaxWords = 1`), so that one may crowd the other out.
- `RfqVault`: one order, two epochs, two closes, nodes a block behind and restarts at every step
  (5.8 million states). The order and the two sends are what it takes for each of 3 to 7 in
  section 6. Three epochs with one close (4.5 million states) pass as well; three with two closes
  are too many. `RfqVaultLive`: no order, as `DarkEnds` is about the policy, and no restart, which
  forgets the claims. The vault stops at its last epoch, so these runs allow deadlock.
- `Reconnect`: one nonce to a millisecond, a session of three quotes at most and a
  reconnect of two milliseconds at the least, so that a session can count past it; waits of
  3, 6 and 7, so that doubling, its clipping at the most and the return to the first wait
  all occur; two quick retries, so that the fast lane is used, used up and refilled. The
  clock runs to 36, past the third long wait. Clock and counters stop at their
  bounds: deadlock is allowed.
- `PriceGuard`: two loops, and three prices, of which two are in line with each other
  and the third is out of line with one of them; a settling time of two seconds and
  a staleness of one; one restart and one failed write. Within three seconds a level can
  be taken for granted, left, held, and accepted after a restart. The loops are symmetric, no property being a
  liveness one. The clock stops: deadlock is allowed.
- `Ladder`: two sides of two slots over two units of one token, so that one side can
  take what the other needs and a ladder can shrink to one slot; orders living two
  ticks with a margin of one; two shocks (fills, transfers, failures and restarts in all)
  in one behaviour, the fewest that can combine.
- `Publication`: two corridors, one with and one without a curve, thirds of a second, a
  budget of three frames and five used at most, so that two corridors and one reply fit and
  a second reply does not. `PublicationDark` takes no curves, no replies and a longer
  gap, to show that neither is needed for what it finds.
- `ChangeLog`: the shipping switch and a parameter of one value, refused by Textile, so that both
  shippers meet the same refusal and, after a snapshot that could not be written and an edit, two
  different ones; two lines to a batch, two maker keys, one change by panel or editor and
  one failing write. With two values, one of them refused, or with two changes, the safety
  properties pass as well (4.3 and 4.6 million states); the liveness property is what takes the time.
- `LiquidityFloor`: two units of settlement and the floors 0 and 1, so that a lower, a
  raise and a quote above the lower target exist; two accounts, one transaction mined
  of each and one restart, enough for a change to be replaced at its nonce, resumed
  under the other signer and followed by one of another account. The run stops
  once the nonces are used: deadlock is allowed.
- Symmetry over rounds and nonces is used in safety runs of `RfqLedger` only; no
  definition tells two of them apart, and `ImplementsEscrow`, a safety property,
  is symmetric in them too.

## 5. Fairness

`RfqLedgerLive`: every tokio task keeps being polled, so the loop's read and
publication steps, the responder's way out of a request (the signer has a timeout)
and reconnecting are weakly fair. Two things need strong fairness. Level frames: a
session may come and go, and one that stays up for a tick has to occur again and
again. A full answer from an up to date node: the RPC may fail, lag or leave calls
out, but not for ever. Takers, the venue and the clock are not fair.

`RfqVaultLive`: the same for the loop; closes end because the venue's keeper closes an
overdue redeem epoch on its permissionless path and closed epochs settle, which is
what the comment on `close_redeem` describes. Nothing requires the bot's own
transaction to be mined, its claim to be released by its task, or the
venue to ask.

`LiquidityFloor`: the send task and the loop keep being polled and all their waits have
timeouts, so each is weakly fair as a whole. Nodes may fail or lag at will, but
a successful, up to date pair of reads comes again and again (strong fairness of
`GoodRead`). Nothing is assumed of mining, of the engine, or of restarts.

`ChangeLog`: the bot's shipping task keeps being polled, so its reads of journal and
cursor are weakly fair. Textile may be away and the disk full at any time, but an
answer to a batch comes again and again, and so does one to a single line, and each of the
three writes succeeds (strong fairness of `Accepted` or `BatchRefused`, of `OneByOne`, and of
`Note`, `SaveEntry` and `SaveBatch`): the
shipper retries without a limit. Nothing is assumed of the panel, of the editor
or of restarts. `Delivered` makes an exception while the panel delivers: see section 6.

## 6. Where the code does less than its comments say

One run must fail, with the quoted text in `PROJECT.json`:

1. `PublicationDark`. A corridor whose quote expires while its feed is dark stays in
   `pending_republish`, every flush that finds nothing ready arms the trailing retry
   again, and an armed retry suppresses the interval tick. While that feed is dark no
   other corridor is published either, although a comment says that only the
   dark one goes dark.

Other limits are written into a property, as a clause that leaves the case out (3 to 7, 9 and 10),
or into the premises of a proof (2 and 8). TLC finds the property violated without the
clause, or with the constant of the passing run switched.

2. `PartialBatches = TRUE` in `RfqLedger.cfg`, `FillsCounted`: a token whose calls fail inside
   a good batch keeps its old balance, while the batch's nonces release the claim: until
   the TTL ends, a fill is in neither.
3. `OrdersClaimed` without `n \notin unbound`: `respond` reads the trading epoch once to bind the
   ledger and once for the nonce (`mod.rs:2312`). A refresh between the two, on another thread,
   produces an order of the new epoch claimed under the old one; the next sync drops the
   claim. This needs neither lag nor restart (`NodeLag = FALSE`, `Crashes = FALSE`).
4. The same, by another way: any mismatch clears the ledger, an older epoch too
   (`reserve.rs:547`). After a restart onto a lagging node claims of live orders go. A chain
   without Multicall3 has no block clock and needs no restart for it; that case is not modelled.
5. `DarkWhileClosing` with `closing[e] # 0 => ~policy`: the loop looks at the claims and then writes
   the policy, the responder claims and then clears it. A refresh that looked before the claim
   and writes after it lights the bot for one interval, and quotes are signed into the close
   (`NoOrderIntoOwnClose` without `lit = 1`). The next refresh darkens it again.
6. `NoOrderIntoOwnClose` and `OneClose` without `~earlier`: close claims are in memory only
   (`mod.rs:150`). A process that restarts with a close in the pool quotes under the epoch which
   that close will end, and sends another one if it is asked to. `OrdersClaimed` holds
   through it.
7. The same two without `misread`: a repeated request, answered by a node that does not have the
   settlement yet, finds the redeem epoch not due and drops the claim of a close that can land.
8. `RemoveFails = TRUE` in `LiquidityFloor.cfg`, `LowersCovered`: a change whose broadcast was
   refused is given up with its nonce unused. If its file stays behind (the removal fails,
   which is only logged, or the process stops first), the next start broadcasts the saved
   bytes, and a lower may land under quotes signed after its cap was lifted.
9. `GrowsAcrossSessions` without `~outran`: a nonce is the millisecond times 1000 plus a counter
   that starts at zero with each session's `Engine` (`mod.rs:1341`). A session of more than
   250,000 quotes, followed by a reconnect of 250 ms, may end above the nonces of the next.
   The comments in `nonce.rs` say that a restart's nonces are strictly larger than anything
   minted before (lines 12 to 14) and that the counter lives as long as the process (line 23).
10. `NothingSkipped` over the file of refusals alone: `note_refused` reads the file, extends its copy
   and replaces it whole (`ship.rs:248`), with no lock, and the cursor is saved next. When bot
   and panel note two records at once, one note is lost and the cursor passes its record
   all the same, for good: a comment says that the note comes before the cursor because the
   record "was never received" (`ship.rs:233`). It takes two different refused records
   and two shippers in `ship_one_by_one` at once.

Under 3 and 4 the model shows the claim dropped; how much is then oversigned depends on
what is requested next.

Reading the counterexamples of earlier, stronger forms of the properties showed what
else the code does not promise:

- Publication. Corridors whose quotes expire less than a second apart for ever keep
  the siblings back. Replies are counted and never held back, so they may take a second over
  the venue's cap, and as long as they do they keep flush and ticks waiting. A flush that
  finds one corridor ready and one dark leaves the dark one to the next tick, without
  the retry that the comment at `mod.rs:1264` speaks of.
- Ladder. A ladder that shrinks leaves the order of its higher slot standing; until that one
  ages out the indexer may refuse the shorter ladder as unfunded.
- Ladder. `ladder.rs:12` says that dust below the least slice is intentionally left unquoted.
  `LadderOffersAll` shows that it never is: the last order takes it.
- Change log. The shippers take a cursor past the lines they read for the
  sign of a replaced journal and start from zero. When the other shipper moved the cursor
  between the two reads, nothing was replaced; the lines are sent again, Textile knows
  them, and the cursor is moved back. Nothing is lost by it, but a panel that keeps
  delivering can keep the bot chasing.
- Change log. After an append that was torn by a full disk, the next record is glued
  to the torn line and lost with it; and a change whose snapshot could not be written is
  never recorded as reverted if the config goes back to the snapshot's values first. The
  properties leave out logs to which that happened (the ghost `doubt`).
- Change log. Hand edits not caught up before the maker key changes are filed under the new
  maker, as is a record that a starting bot adds between the panel's delivery and the
  change of the key: `FiledInTime` is about what was owed when the change was asked for.
  Switching shipping on again ships what was recorded while it was off. A bot that read
  its config before a save of the panel and starts after it records the older text as a
  host edit.

## 7. Proofs

All for arbitrary constants: any number of rounds, nonces, tokens, epochs and closes,
under the typing assumptions `ConstantsTyped` (and `NullsDistinct`) that the runs
evaluate.

- `TypeCorrect`, `VaultTypeCorrect`: type correctness, without further premise.
- `OrdersStayClaimed`, `OrdersStayOnFile`. `LiveOrdersClaimed` is not inductive. A loser
  result can only free an unexposed claim, so exposure has to be known to follow from
  what the bot was told (`ToldExposed`); the loop can only free what it saw filled
  (`SpentFilled`); the responder must not overwrite a claim (`BusyUnclaimed`: the round
  in hand has none); and a crash replaces the ledger by the file, so the file must cover
  the orders as well (`FileCoversOrders`). `IInv` is `TypeOK` with these.
  Premises: `SkewCovers` (`ChainSkew < Skew`, or pruning comes too early) and `Durable`
  (`DiskFaults => RequireFlush`: writes do not fail, or a quote whose write failed is
  withheld). With modules off and a full disk the file does lag behind, as
  the code's warning says.
- `FillsStayCounted`, premises `Timely` (`ChainSkew + Ttl < Skew` and `ChainSkew + NodeLag + RpcMax + Ttl
  =< Skew`), `Durable`, `~PartialBatches` (section 6.2) and `Crashes => NodeLag = 0`. `FillInv` follows
  a fill through both tasks. A reading that misses it came soon after it (`ReadingsAge`), so
  it has gone stale before the claim is pruned. A batch is of one block and the blocks only
  rise (`OneBlock`), so once a nonce is reported spent every balance in the cache and every
  one to come has the fill (`SpentCounted`); only then, or when it is due, does its claim go
  (`ClaimedOrCounted`), from the ledger and from the file. A loser result cannot take it, by
  the exposure of `IInv`. A restart empties the cache but also forgets the newest block, which
  is what kept older answers out; `NoneMisses` therefore has a second case, an up-to-date
  node asked after the fill. Section 8 says what a lagging node does there.
- `WalletStaysSolvent`, under the premises of `FillsStayCounted`. `SolventInv` adds to `Solvent`
  that fills are in blocks of the chain (`FillsOnChain`) and that the quote in the signer's
  hands is covered by the chain, on top of every order out (`SignedCovered`). The step it
  turns on is `Price`: the capacity it looks at is a reading minus the live claims. Fills the
  reading misses are claimed by `FillsCounted`, orders out by `LiveOrdersClaimed`, and no
  two of them by one row; so what the chain lacks against the reading, and what takers
  can still ask for, are together no more than the claims. The lemmas on sums
  (`SumWith`, `SumParts`, `SumFewer`, `SumMatched`) carry this over to amounts. While the signer
  works, other steps only end orders (`OtherSteps`) or pay them (`FillSolvent`).
- `LedgerImplementsEscrow`, under the same premises and by the same invariant: `Reply` is
  `Escrow`'s promise, and `SignedCovered` is its guard; `Fill` settles; a deadline that passes
  and a round the venue discards are lapses, of any number of orders at once; every other
  step is a stutter.
- `VaultOrdersClaimed`, `StaysDark`, `NothingIntoOwnClose` and `OneCloseAtATime` have no premises: they
  hold for tasks that interleave at every step, nodes a block behind, and restarts.
- `VaultOrdersClaimed` by `EpochInv`. `ChainInv` says how far apart the two newest blocks can be:
  by one close at most, which then awaits settlement. An epoch read at a block is no newer than
  what any later block shows (`ReadBy`), so what the loop publishes only rises within a
  process (`KnownEpochs`), and an order of the vault's epoch has the epoch of the ledger, and
  a claim there (`LedgerInv`).
- `StaysDark` by `DarkInv`: a refresh that is about to light the policy looked before any of the
  claims there are was made (`LookedBefore`), so it is the first one since.
- `NothingIntoOwnClose` and `OneCloseAtATime` by one invariant, `CloseInv`, on top of the last two.
  A close of this process that can still land is claimed, under the epoch it would end
  (`LandsClaimed`). The claim is only let go of by its own task, on a receipt
  (`SendsDue`), by a request that found the epoch not due (`RequestDue`), or by the loop on a
  reading of another epoch, at which the close has landed because no reading spans a close
  and its settlement (`ReadingSpans`). A request that has passed its last look at the policy
  did so in the dark or in that one refresh's light (`CheckedInClose`).
- `LiquidityFloorProofs`: `TypeCorrect`, `Covered`, `OneAtATime`, `Saved` and `Known`, for any
  accounts, amounts, nonces and restarts. Premise `~RemoveFails`, which section 6.8 shows
  to be needed. None of the four is inductive. `SlotInv` says who holds the slot: a free slot
  has nothing on file, an awaiting one has its change there, and nothing is in the
  pool before it is broadcast. `ChainInv`: what is in the pool is the change on file and its
  nonce is unused, and the loop holds no nonce newer than the chain's. `CoverInv`: cap,
  claims and the quote in hand are under a lower from the moment the loop decides on
  it; for that a usable measurement must speak of the cap still in force.
  `RaiseInv` is the same for raises. The loop settles only on a used nonce, at
  which `ChainInv` empties the pool; that is the step the proof turns on.
- `ReconnectProofs`: `NotSpunOn`, `WaitsDouble`, `NoncesImplemented`, and the nonces. `SInv` adds to
  the types that the wait never falls below `FirstWait` and that quick retries and what is
  left of the fast lane belong together. A step of the backoff is a stutter of `RfqNonce`
  or its reconnect, which needs the first of these. `WaitsDouble` says what the code
  computes step by step, in closed form: the first wait doubled once per long wait, up to the
  ceiling. `SessionNoncesGrow` is about one session, at any rate. `SessionsNoncesGrow`, about
  all the sessions that the backoff spaces, has no premise either; its property follows
  the nonces until a session has counted past its reconnect (section 6.9).
- `PublicationProofs`: `PublicationTyped`, `CapIsKept`, `ExpiredAreOut`, `CadenceIsKept`, for any number of
  corridors within the cap (`ConstantsTyped`; with more, one tick alone is over it) and any
  interval, debounce and budget, without further premise. Three invariants, each about
  what is in the rate window. `BudgetInv`: a young frame comes with the reason for it,
  a flush as young, a reply as young or a tick that is as far from the next (`Explained`), and
  what was sent since the last reply fits (`SinceReply`); so a tick finds the window empty
  of flushes. `PromptInv`: while a corridor waits in quiet, no frame in the window is older than
  its wait, so a deferred flush, which waits for frames to age out, is due before its
  interval ends. `CadenceInv` gives the flush one interval and the tick another, since a tick
  that a flush puts off is set to come an interval after it (`NextTick`).
- `PriceGuardProofs`: `Typed`, `Served`, `Signed`, `Filed`, `Confirmed`, `Settled`, for any loops,
  prices, ages and restarts. Premise of `Served` and `Signed`: `MaxSteps = 0`, the wall clock is
  not set back (a set-back clock makes an old quote fresh again, which the guard does not
  see). `InLineWhileFresh` is the strengthening for serving: not only the quote that can be
  used but every one that is not yet stale is in line, with no hold. `FileInLine`
  says that, while no write failed, what was last saved is what is on file and is in line
  with the trusted print, and that no price is on file before one is trusted.
  `CandidateSeen` ties the guard's candidate to what the feed printed: a print
  of its price, no newer than it, is among the first prints of the run or among those since
  the feed was last in line. Assumption
  `MovesAreSaved`: a move worth a write is smaller than a jump, as the constants of the
  code are.
- `LadderProofs`: `Superseding`, `NewNonces`, `OneRefusal`. `IInv`: ledger and file are ledgers
  whose nonces are distinct and not above their counter (`Ledgers`); live rows carry
  their slot's nonce and spent ones were minted (`RowsOK`, `SpentOK`); what a batch names
  is what the ledger holds (`BatchOK`); what an answer named is spent (`NamedOK`); and a
  slot whose nonce is spent and not named was filled since it was last named (`StaleOK`).
  The file may lag behind the ledger, but never for a slot whose nonce was signed
  or is live, and never with a counter ahead of it: that is what a restart needs.
- `LadderOffersAll`, without premise, for every total, least slice and number of slots: the
  ladder adds up to exactly the total, in at most as many orders as there are slots, and there is
  one whenever the total pays a slice. The denominations go on by tens up to the total (`Decades`);
  that `25 * scale` saturates at 128 bits is left out, amounts being far below it. `RungsFit`: the denominations below one that
  is taken are taken, so the rungs are the first ranks (`Ranked`). `CarryFits`: the recursion over
  the free slots has a solution (`CarriesOne`), and each order carried is no more than what
  is left (`SliceFits`). `WithRestAll` and `AscendingSame`: the dust goes to the last order, and
  sorting is a permutation.
- `LadderTyped` and `NeverOverdrawn` (`Funded`), without further premise, for any sides, shares,
  balances and faults. `FundInv` is an invariant of the books on both ends while nothing happens behind
  the bot's back (`Calm`): the ledger, as the answer at hand will leave it, remembers every
  order the indexer counts (`Matches`), and the budget, as that answer will leave it, is at least
  what the indexer counts. The step it turns on is `Submit`. A batch is no more than what
  was available (`DraftsFit`, by `LadderOffersAll` and `GrantFits`), which is what the side's own orders
  give back on top of what is not committed; and those orders are counted apart from the ones the
  batch leaves (`GivenBack`), so batch and rest fit in the balance (`BatchFunded`). When the batch is
  accepted, `AcceptedCounted` and `AcceptedMatches` bring budget and ledger to the new book, and
  the next side starts from there. `Second` keeps it because the ghost `calm` ends when an
  order passes the margin.
- `ChangeLogProofs`: `NothingIsSkipped` and `OwedIsFiledInTime` by `SInv`, `RunsAreRecorded` by `RInv` on
  top of it, for any batch size, values, keys, changes and faults, without further premise. One
  lemma to each step of a shipper, `Note`, `SaveEntry` and `SaveBatch` among them.
  `SInv` follows a batch: all lines up to its end are filed but those it still carries
  (`Passed`, `InFlight`), which stays so whatever the other shipper does to the cursor because
  the journal only grows; what the panel has to deliver lies within what it ships (`Due`), and
  no maker of a stored line is ahead of the key (`Makers`). `RInv`: a journal that is not in
  `doubt` is a chain that ends at what its last line left and once said what the snapshot
  says (`Sound`), and a save under the lock starts from the snapshot the journal ends at
  (`Saving`). So a failed append or snapshot can leave the snapshot behind but never
  ahead, and the next comparison starts from where the journal ends or finds its text
  there already.

## 8. Only model-checked

Liveness (`FilledClaimsReleased`, `DarkEnds`, `Settles`, `Delivered`): fairness and ENABLED are
out of the prover's reach. Every safety invariant and action property that a run checks is
proved, some under the premises section 7 names. The library's induction theorems cannot be instantiated
here; where sums, doublings and the slots of a ladder had to be reasoned about, a fact that
fails was taken at its least counterexample instead (`WFMin` over the natural numbers).

`FillsCounted`, and with it `Solvent`, is neither checked nor proved for a process that restarts
onto a lagging node. The block clock starts over with the process, so a lagging node can
bring back, after a restart, balances from before a fill whose claim is gone: a limit of
the program. No run of `RfqLedger` combines the two.

`RfqVault` with a chain that has no block clock is neither checked nor proved (section 6.4).

Assumptions inside the models that no code enforces:

- A fill happens at most `ChainSkew` after the deadline by the bot's clock.
- A node answers at most `NodeLag` behind the chain.
- A node of `RfqVault` answers at most one block behind the newest.
- `Settle` waits for a read that spans a close: settlement and the minutes for which a
  redeem epoch stays open outlast `REQUEST_TIMEOUT`, so no read spans two closes.
  Without it TLC shows that `reconcile_close_claims`, which keeps a claim only while its
  epoch equals the reading's, drops one on a reading from two epochs ago.
- Funds only leave the wallet through the orders (no withdrawals, no second bot), which is
  what the ledger assumes too.
- `PriceGuard`: the file is written as a whole (it is renamed into place), and nobody but
  the loops of one process writes it.
- `Ladder`: the indexer judges a batch against the balance on chain and the live orders it
  knows, which is how the code reads its refusals.
- `ChangeLog`: Textile stores a batch or refuses it as a whole and keeps a line once by
  its key, as the shipper's comments expect.

## 9. Not modelled

- Signers, enrolment, the indexer client and submission are clients of remote services;
  what matters of them to the models (slowness, failure, repeats) is in the models as
  nondeterminism.
- Wire types, EIP-712 and the vault ABI are encoders pinned by test vectors.
- Setup, the desktop application, the web front end and the panel, but for its part in the
  change log, administer bots and do not take part in quoting. They are about half of the
  source lines, most of them forms, views, file formats and their tests.
- Pricing curves, bands and the prices inside a ladder are sequential arithmetic; the models
  need of them that an order has some size, and `Ladder` that sizes add up.
- The taker, manual sales, the recall lane of perps, the closer's batch, and claims
  without a token are small state machines of their own and are next in the plan.
- Of modelled parts: the handshake of a session; NAV attestations, which pass the same gate as
  a feed; the calendar behind a liquidity plan; bumps of fees and rotation of endpoints in
  `chain`; configs that do not parse and the guard on deleting a bot in the change log.

## 10. Plan

In this order, each with its invariants model-checked first and then proved:

1. `RfqVault` on a chain without Multicall3, whose readings carry no block.
2. `ClaimAttribution`: corridors removed and added under claims without a token.
3. `ManualSale` and `PerpsRecall`: one nonce per sale across crashes; holds of the recall
   lane beside the ledger's claims.
4. `Taker` and the closer: taking an order that others see too; the contiguous prefix and the
   fee arithmetic against its definition.

Modules to be proved about use recursive functions and folds only, no RECURSIVE operator.

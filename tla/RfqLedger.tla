------------------------------ MODULE RfqLedger ------------------------------
(***************************************************************************)
(* The RFQ responder's inventory ledger (src/src/rfq): what keeps the bot  *)
(* from signing more orders than its wallet can pay for.                   *)
(*                                                                         *)
(* Every signed quote claims the token it pays until its deadline plus     *)
(* RELEASE_SKEW_SECS.  The responder task owns the ledger; another task,   *)
(* the balance loop, reads the chain and publishes balances to a cache and *)
(* filled nonces to a FillWatch; the venue routes requests and results;    *)
(* takers fill the orders they hold.  A quote is sized on a cached balance *)
(* minus the live claims, so the two have to agree on every fill.          *)
(*                                                                         *)
(* Time is whole seconds on the bot's clock.  A balance is the block it    *)
(* was read at; what that block holds is BalanceAt.                        *)
(***************************************************************************)
EXTENDS Integers, FiniteSets, FiniteSetsExt

CONSTANTS
  Rfqs,          \* rfq ids: the rounds the venue opens
  Nonces,        \* Permit2 nonces, one per signed order (RfqNonce.tla)
  Tokens,        \* tokens the bot pays with
  Sizes,         \* order inputs considered
  Funds,         \* Funds[t]: the wallet's funded amount of t at the start
  Life,          \* longest order lifetime a request allows, seconds
  Skew,          \* RELEASE_SKEW_SECS
  Ttl,           \* INVENTORY_TTL_SECS
  ChainSkew,     \* how far past its deadline, on the bot's clock, an order fills
  NodeLag,       \* how far behind the chain an RPC node may answer, seconds
  RpcMax,        \* longest a balance read takes to come back, seconds
  MaxWords,      \* MAX_WATCHED_WORDS: nonce words one refresh reads
  Ordered,       \* which reads the loop makes: TRUE batched, FALSE sequential
  PartialBatches,\* a call inside a batch may come back empty
  DiskFaults,    \* writing the ledger file may fail
  RequireFlush,  \* modules on: a quote is withheld unless the file was written
  Crashes,       \* the process may crash and restart
  MaxNow,        \* bound: the clock stops here
  NoOrder, NoRow, NoReading

ASSUME ConstantsTyped ==
  /\ IsFiniteSet(Nonces) /\ IsFiniteSet(Rfqs)
  /\ Sizes \subseteq Nat \ {0}
  /\ Funds \in [Tokens -> Nat]
  /\ Life \in Nat /\ Skew \in Nat /\ Ttl \in Nat
  /\ ChainSkew \in Nat /\ NodeLag \in Nat /\ RpcMax \in Nat /\ MaxNow \in Nat
  /\ MaxWords \in Nat
  /\ Ordered \subseteq BOOLEAN
  /\ PartialBatches \in BOOLEAN /\ DiskFaults \in BOOLEAN
  /\ RequireFlush \in BOOLEAN /\ Crashes \in BOOLEAN

Order == [rfq : Rfqs, token : Tokens, input : Nat, deadline : Nat]

\* reserve.rs Reservation.  The corridor and side are left out: only the
\* token total decides whether the wallet can pay.
Claim == [nonce : Nonces, token : Tokens, input : Nat,
          releaseAt : Nat, exposed : BOOLEAN]

\* reserve.rs StoredEntry: the file has no `exposed`.
Entry == [nonce : Nonces, token : Tokens, input : Nat, releaseAt : Nat]

ASSUME NullsDistinct ==
  NoOrder \notin Order \cup [token : Tokens, input : Nat]
    /\ NoRow \notin Claim \cup Entry
    /\ NoReading \notin [block : Nat, at : Nat]

VARIABLES
  now,        \* the bot's clock
  height,     \* newest block
  fillBlock,  \* fillBlock[n]: the block that spent nonce n, 0 while unspent
  fillTime,   \* and when
  venue,      \* venue[r]: the round, as the venue sees it
  told,       \* rounds whose selection or closing the bot may have heard
  orders,     \* orders[n]: the signed order that left the process
  mode,       \* the process: down, offline (no session) or online
  ledger,     \* Reservations.by_rfq
  disk,       \* rfq-reservations.json
  engine,     \* the responder task inside one quote request
  cache,      \* InventoryCache
  watched,    \* FillWatch.watched, as far as a refresh reads it
  spent,      \* FillWatch.spent
  clock,      \* BlockClock: the newest block published, -1 before any
  loop        \* the balance loop

chain   == <<height, fillBlock, fillTime>>
shared  == <<cache, watched, spent>>
reader  == <<clock, loop>>
vars == <<now, chain, venue, told, orders, mode, ledger, disk, engine,
          shared, reader>>

NotFilled(n) == fillBlock[n] = 0

(***************************************************************************)
(* The chain and the venue: what an order can still do.                    *)
(***************************************************************************)

\* The order may still take funds: it left the process, its nonce is unspent,
\* its deadline has not passed on the chain, and the venue has not discarded
\* it.  A round that was never decided may still select it.
Executable(n) ==
  /\ orders[n] # NoOrder
  /\ NotFilled(n)
  /\ venue[orders[n].rfq] # "lost"
  /\ now =< orders[n].deadline + ChainSkew

Inputs == [n \in Nonces |-> orders[n].input]

FilledBy(t, b) ==
  {n \in Nonces : fillBlock[n] \in 1..b /\ orders[n].token = t}

\* The wallet's funded amount of t at block b.
BalanceAt(t, b) == Funds[t] - SumFunctionOnSet(Inputs, FilledBy(t, b))

OwedIn(t) == {n \in Nonces : Executable(n) /\ orders[n].token = t}

Owed(t) == SumFunctionOnSet(Inputs, OwedIn(t))

\* A node asked at time `at` may answer from block b: it is at most NodeLag
\* behind the chain.
Serves(b, at) ==
  \A n \in Nonces : fillBlock[n] # 0 /\ fillTime[n] + NodeLag =< at
                      => fillBlock[n] =< b

(***************************************************************************)
(* The ledger's own operations (reserve.rs).                               *)
(***************************************************************************)

EmptyLedger == [r \in Rfqs |-> NoRow]

Live(row) == row # NoRow /\ row.releaseAt > now

\* Mutant: only claims known to be with a taker count.
MutLiveClaims(l, t) ==
  {r \in Rfqs : Live(l[r]) /\ l[r].token = t /\ l[r].exposed}

LiveClaims(l, t) == {r \in Rfqs : Live(l[r]) /\ l[r].token = t}

\* reserved_paying: every live claim on t.
Reserved(l, t) ==
  SumFunctionOnSet([r \in Rfqs |-> l[r].input], LiveClaims(l, t))

\* insert
NewClaim(n, o) ==
  [nonce |-> n, token |-> o.token, input |-> o.input,
   releaseAt |-> o.deadline + Skew, exposed |-> FALSE]

\* mark_exposed
Exposed(l, r) ==
  IF l[r] = NoRow THEN l ELSE [l EXCEPT ![r].exposed = TRUE]

\* Mutant: any losing result releases, selected or not.
MutWithoutLoser(l, r) == [l EXCEPT ![r] = NoRow]

\* release_unexposed
WithoutLoser(l, r) ==
  IF l[r] # NoRow /\ ~l[r].exposed THEN [l EXCEPT ![r] = NoRow] ELSE l

\* release_filled
WithoutFilled(l, filled) ==
  [r \in Rfqs |-> IF l[r] # NoRow /\ l[r].nonce \in filled THEN NoRow ELSE l[r]]

\* prune
Pruned(l) == [r \in Rfqs |-> IF Live(l[r]) THEN l[r] ELSE NoRow]

\* The claims a fill could spend.
Watchable(l) == {r \in Rfqs : Live(l[r]) /\ l[r].exposed}

\* What one refresh has room for: MaxWords of them, or all when there are fewer.
\* Each nonce takes a word of its own, as those of quotes a millisecond apart do.
Readable(l) ==
  {rs \in SUBSET Watchable(l) :
     /\ Cardinality(rs) =< MaxWords
     /\ rs = Watchable(l) \/ Cardinality(rs) = MaxWords}

\* Mutant: the claims that lapse first are read first.
MutWatchedNonces(l) ==
  {{l[r].nonce : r \in rs} : rs \in
     {fs \in Readable(l) : \A r \in fs, q \in Watchable(l) \ fs :
                             l[q].releaseAt >= l[r].releaseAt}}

\* watched_nonces as far as a refresh reads them (distinct_words): the latest
\* deadlines first, equal ones in any order.
WatchedNonces(l) ==
  {{l[r].nonce : r \in rs} : rs \in
     {fs \in Readable(l) : \A r \in fs, q \in Watchable(l) \ fs :
                             l[q].releaseAt =< l[r].releaseAt}}

\* write, and what load makes of the file: an exposed claim per entry that is
\* still due.
Stored(l) ==
  [r \in Rfqs |-> IF l[r] = NoRow THEN NoRow
                  ELSE [nonce |-> l[r].nonce, token |-> l[r].token,
                        input |-> l[r].input, releaseAt |-> l[r].releaseAt]]

\* Mutant: loaded claims start out unexposed.
MutLoaded(file) ==
  [r \in Rfqs |-> IF ~Live(file[r]) THEN NoRow
                  ELSE [nonce |-> file[r].nonce, token |-> file[r].token,
                        input |-> file[r].input, releaseAt |-> file[r].releaseAt,
                        exposed |-> FALSE]]

Loaded(file) ==
  [r \in Rfqs |-> IF ~Live(file[r]) THEN NoRow
                  ELSE [nonce |-> file[r].nonce, token |-> file[r].token,
                        input |-> file[r].input, releaseAt |-> file[r].releaseAt,
                        exposed |-> TRUE]]

Writes == IF DiskFaults THEN BOOLEAN ELSE {TRUE}

\* A change to the ledger and the persist that follows it; a failed write only
\* warns.
Save(l) ==
  /\ ledger' = l
  /\ \/ l = ledger /\ UNCHANGED disk
     \/ l # ledger /\ \E wrote \in Writes :
          disk' = IF wrote THEN Stored(l) ELSE disk

(***************************************************************************)
(* Initial states: a first run, before any session.                        *)
(***************************************************************************)

IdleEngine == [pc |-> "idle"]

IdleLoop == [phase |-> "idle", at |-> 0, watched |-> {},
             blocks |-> [t \in Tokens |-> 0], seen |-> {}, todo |-> {}]

Init ==
  /\ now = 0
  /\ height = 0
  /\ fillBlock = [n \in Nonces |-> 0]
  /\ fillTime = [n \in Nonces |-> 0]
  /\ venue = [r \in Rfqs |-> "open"]
  /\ told = {}
  /\ orders = [n \in Nonces |-> NoOrder]
  /\ mode = "offline"
  /\ ledger = EmptyLedger
  /\ disk = EmptyLedger
  /\ engine = IdleEngine
  /\ cache = [t \in Tokens |-> NoReading]
  /\ watched = {}
  /\ spent = {}
  /\ clock = -1
  /\ loop = IdleLoop

(***************************************************************************)
(* Time, the chain and the venue.                                          *)
(***************************************************************************)

world == <<mode, ledger, disk, engine, shared, reader>>

Tick ==
  /\ now < MaxNow
  /\ now' = now + 1
  /\ UNCHANGED <<chain, venue, told, orders, world>>

\* The venue picks a reply, closes the window over one, or discards the round.
\* A taker may hold the signature once the round is selected or closed.
VenueDecides(r, verdict) ==
  /\ \/ venue[r] = "open"
     \/ venue[r] = "closed" /\ verdict = "selected"
  /\ verdict # "lost" => \E n \in Nonces : Executable(n) /\ orders[n].rfq = r
  /\ venue' = [venue EXCEPT ![r] = verdict]
  /\ UNCHANGED <<now, chain, told, orders, world>>

\* A taker uses an order in the next block.
Fill(n) ==
  /\ Executable(n)
  /\ venue[orders[n].rfq] \in {"selected", "closed"}
  /\ orders[n].input =< BalanceAt(orders[n].token, height)
  /\ height' = height + 1
  /\ fillBlock' = [fillBlock EXCEPT ![n] = height + 1]
  /\ fillTime' = [fillTime EXCEPT ![n] = now]
  /\ UNCHANGED <<now, venue, told, orders, world>>

(***************************************************************************)
(* The responder task.  It handles one frame or timer at a time, awaiting  *)
(* each, so every action but the ones inside a request needs it idle.      *)
(***************************************************************************)

outside == <<now, chain, venue, orders>>

Serving == mode = "online" /\ engine = IdleEngine

\* Engine::release_fills: drop what the balance loop saw filled, then publish
\* what is left to watch.
ReleaseFills ==
  /\ Save(WithoutFilled(ledger, spent))
  /\ spent' = {}
  /\ watched' \in WatchedNonces(WithoutFilled(ledger, spent))
  /\ UNCHANGED cache

\* respond, up to the duplicate check.  The venue may repeat a request while
\* its round is open.
QuoteRequest(r) ==
  /\ Serving
  /\ venue[r] = "open"
  /\ ReleaseFills
  /\ engine' = IF ledger'[r] # NoRow THEN IdleEngine
               ELSE [pc |-> "pricing", rfq |-> r]
  /\ UNCHANGED <<outside, told, mode, reader>>

Fresh(t) == cache[t] # NoReading /\ now - cache[t].at =< Ttl

\* available_capacity covers the order: one look at the cache, minus every live
\* claim on the token.
Covers(l, o) ==
  /\ Fresh(o.token)
  /\ o.input + Reserved(l, o.token) =< BalanceAt(o.token, cache[o.token].block)

UnusedNonce(n) ==
  /\ orders[n] = NoOrder
  /\ \A r \in Rfqs : /\ ledger[r] # NoRow => ledger[r].nonce # n
                     /\ disk[r] # NoRow => disk[r].nonce # n

\* respond, from the price to the signature request.
Price(n, o) ==
  /\ engine = [pc |-> "pricing", rfq |-> o.rfq]
  /\ o.deadline \in (now + 1) .. (now + Life)
  /\ Covers(ledger, o)
  /\ UnusedNonce(n)
  /\ engine' = [pc |-> "signing", nonce |-> n, order |-> o]
  /\ UNCHANGED <<outside, told, mode, ledger, disk, shared, reader>>

\* Any of respond's rejects, a failed or late signature, or a recheck after it.
Withhold ==
  /\ engine # IdleEngine
  /\ engine' = IdleEngine
  /\ UNCHANGED <<outside, told, mode, ledger, disk, shared, reader>>

\* Mutant: the reply goes out whether or not the flush worked.
MutReply ==
  /\ engine.pc = "signing"
  /\ ledger' = [ledger EXCEPT
                  ![engine.order.rfq] = NewClaim(engine.nonce, engine.order)]
  /\ \E wrote, flushed \in Writes :
       disk' = IF wrote \/ (RequireFlush /\ flushed)
               THEN Stored(ledger') ELSE disk
  /\ orders' = [orders EXCEPT ![engine.nonce] = engine.order]
  /\ engine' = IdleEngine
  /\ UNCHANGED <<now, chain, venue, told, mode, shared, reader>>

\* respond, after the signature: claim, persist, with modules on flush or
\* withhold, and reply.  From the reply on a taker may hold the order.
Reply ==
  /\ engine.pc = "signing"
  /\ ledger' = [ledger EXCEPT
                  ![engine.order.rfq] = NewClaim(engine.nonce, engine.order)]
  /\ \E wrote, flushed \in Writes :
       /\ disk' = IF wrote \/ (RequireFlush /\ flushed)
                  THEN Stored(ledger') ELSE disk
       /\ orders' = IF RequireFlush /\ ~flushed THEN orders
                    ELSE [orders EXCEPT ![engine.nonce] = engine.order]
  /\ engine' = IdleEngine
  /\ UNCHANGED <<now, chain, venue, told, mode, shared, reader>>

\* "selected" and quoteExpired: the signature may be with a taker.
MarkExposed(r) ==
  /\ Serving
  /\ ledger' = Exposed(ledger, r)
  /\ watched' \in WatchedNonces(Exposed(ledger, r))
  /\ told' = told \cup {r}
  /\ UNCHANGED <<outside, mode, disk, engine, cache, spent, reader>>

OnSelected(r) == venue[r] = "selected" /\ MarkExposed(r)

OnQuoteExpired(r) == venue[r] \in {"closed", "selected"} /\ MarkExposed(r)

\* no_quote, lost_price, invalid or late: the verdict on a lost round, or a
\* stale one about a round the bot was told of.
OnLoser(r) ==
  /\ Serving
  /\ venue[r] = "lost" \/ r \in told
  /\ Save(WithoutLoser(ledger, r))
  /\ UNCHANGED <<outside, told, mode, engine, shared, reader>>

\* The 1 s tick: prune, then publish the claims to watch.
LevelsTick ==
  /\ Serving
  /\ Save(Pruned(ledger))
  /\ watched' \in WatchedNonces(Pruned(ledger))
  /\ UNCHANGED <<outside, told, mode, engine, cache, spent, reader>>

\* level_frames, on the tick, after an expiry or after a curve quote.
LevelFrames ==
  /\ Serving
  /\ ReleaseFills
  /\ UNCHANGED <<outside, told, mode, engine, reader>>

(***************************************************************************)
(* Sessions and the process.                                               *)
(***************************************************************************)

\* The ledger goes into the session and comes back from it.
Connect ==
  /\ mode = "offline"
  /\ mode' = "online"
  /\ watched' \in WatchedNonces(ledger)
  /\ UNCHANGED <<outside, told, ledger, disk, engine, cache, spent, reader>>

Disconnect ==
  /\ Serving
  /\ mode' = "offline"
  /\ UNCHANGED <<outside, told, ledger, disk, engine, shared, reader>>

\* Everything but the file is lost.
Crash ==
  /\ Crashes
  /\ mode # "down"
  /\ mode' = "down"
  /\ ledger' = EmptyLedger
  /\ engine' = IdleEngine
  /\ cache' = [t \in Tokens |-> NoReading]
  /\ watched' = {}
  /\ spent' = {}
  /\ clock' = -1
  /\ loop' = IdleLoop
  /\ UNCHANGED <<outside, told, disk>>

\* Mutant: a restart begins with an empty ledger.
MutStart ==
  /\ mode = "down"
  /\ mode' = "offline"
  /\ ledger' = EmptyLedger
  /\ told' = {r \in Rfqs : venue[r] \in {"selected", "closed"}}
  /\ UNCHANGED <<outside, disk, engine, shared, reader>>

\* Results of rounds decided before the restart may arrive after it.
Start ==
  /\ mode = "down"
  /\ mode' = "offline"
  /\ ledger' = Loaded(disk)
  /\ told' = {r \in Rfqs : venue[r] \in {"selected", "closed"}}
  /\ UNCHANGED <<outside, disk, engine, shared, reader>>

(***************************************************************************)
(* The balance loop (inventory_loop), beside the responder.                *)
(***************************************************************************)

responder == <<now, chain, venue, told, orders, mode, ledger, disk, engine>>

\* Send the batch: every balance, and the nonces watched right now.
LoopRead ==
  /\ mode # "down"
  /\ loop.phase = "idle"
  /\ loop' = [IdleLoop EXCEPT !.phase = "reading", !.at = now,
                              !.watched = watched]
  /\ UNCHANGED <<responder, shared, clock>>

InTime == loop.phase = "reading" /\ now - loop.at =< RpcMax

Blocks == {b \in 0..height : Serves(b, loop.at)}

\* The watched nonces a batch at block b shows spent.  A bitmap word that did
\* not come back spends nothing.
Spent(b) == {n \in loop.watched : fillBlock[n] \in 1..b}

SeenSets(b) == IF PartialBatches THEN SUBSET Spent(b) ELSE {Spent(b)}

\* A batched answer: BlockClock drops one from an older block, and the stamp is
\* the time it arrived.
ArriveBatch(b) ==
  /\ TRUE \in Ordered
  /\ InTime
  /\ b \in Blocks
  /\ \/ /\ b < clock
        /\ loop' = IdleLoop
        /\ UNCHANGED clock
     \/ /\ b >= clock
        /\ clock' = b
        /\ \E seen \in SeenSets(b) :
             loop' = [loop EXCEPT !.phase = "publishing", !.at = now,
                                  !.blocks = [t \in Tokens |-> b],
                                  !.seen = seen, !.todo = Tokens]
  /\ UNCHANGED <<responder, shared>>

\* Sequential answers, each from its own block, and a batch without its block
\* number: admitted only until a block has been published.
ArriveUnordered(blocks) ==
  /\ FALSE \in Ordered
  /\ InTime
  /\ blocks \in [Tokens -> Blocks]
  /\ loop' = IF clock >= 0 THEN IdleLoop
             ELSE [loop EXCEPT !.phase = "publishing", !.at = now,
                               !.blocks = blocks, !.todo = Tokens]
  /\ UNCHANGED <<responder, shared, clock>>

\* The request failed or timed out: the last reading is kept.
LoopFails ==
  /\ loop.phase = "reading"
  /\ loop' = IdleLoop
  /\ UNCHANGED <<responder, shared, clock>>

\* cache.set, one token at a time.
PublishBalance(t) ==
  /\ loop.phase = "publishing"
  /\ t \in loop.todo
  /\ cache' = [cache EXCEPT ![t] = [block |-> loop.blocks[t], at |-> loop.at]]
  /\ loop' = [loop EXCEPT !.todo = @ \ {t}]
  /\ UNCHANGED <<responder, watched, spent, clock>>

\* A token whose own calls came back empty keeps its last reading.
SkipBalance(t) ==
  /\ PartialBatches
  /\ loop.phase = "publishing"
  /\ t \in loop.todo
  /\ loop' = [loop EXCEPT !.todo = @ \ {t}]
  /\ UNCHANGED <<responder, shared, clock>>

\* Mutant: the spent nonces go out without waiting for the balances.
MutPublishSpent ==
  /\ loop.phase = "publishing"
  /\ spent' = spent \cup loop.seen
  /\ loop' = [loop EXCEPT !.seen = {}, !.phase = IF loop.todo = {} THEN "idle" ELSE @]
  /\ UNCHANGED <<responder, cache, watched, clock>>

\* saw_spent, last.
PublishSpent ==
  /\ loop.phase = "publishing"
  /\ loop.todo = {}
  /\ spent' = spent \cup loop.seen
  /\ loop' = IdleLoop
  /\ UNCHANGED <<responder, cache, watched, clock>>

(***************************************************************************)
(* The system.                                                             *)
(***************************************************************************)

Candidates ==
  [rfq : Rfqs, token : Tokens, input : Sizes, deadline : (now + 1)..(now + Life)]

World ==
  \/ Tick
  \/ \E r \in Rfqs, v \in {"selected", "closed", "lost"} : VenueDecides(r, v)
  \/ \E n \in Nonces : Fill(n)

Responder ==
  \/ \E r \in Rfqs : QuoteRequest(r) \/ OnSelected(r) \/ OnQuoteExpired(r)
                       \/ OnLoser(r)
  \/ \E n \in Nonces, o \in Candidates : Price(n, o)
  \/ Withhold
  \/ Reply
  \/ LevelsTick
  \/ LevelFrames

Process == Connect \/ Disconnect \/ Crash \/ Start

BalanceLoop ==
  \/ LoopRead
  \/ \E b \in 0..height : ArriveBatch(b)
  \/ \E blocks \in [Tokens -> 0..height] : ArriveUnordered(blocks)
  \/ LoopFails
  \/ \E t \in Tokens : PublishBalance(t) \/ SkipBalance(t)
  \/ PublishSpent

Next == World \/ Responder \/ Process \/ BalanceLoop

Spec == Init /\ [][Next]_vars

(***************************************************************************)
(* Fairness.  Each tokio task keeps being polled, so what it can always do *)
(* it does; the responder can do its own work only while a session is up,  *)
(* and sessions keep coming back.  The RPC is not down for good: a read    *)
(* that is sent again and again is answered in full, from an up to date    *)
(* node, again and again.                                                  *)
(***************************************************************************)

ArriveInFull ==
  \E b \in 0..height :
    ArriveBatch(b) /\ b >= clock /\ loop'.seen = Spent(b)

\* The loop's own work, whatever the RPC does.
LoopWorks ==
  LoopRead \/ (\E t \in Tokens : PublishBalance(t) \/ SkipBalance(t)) \/ PublishSpent

Fairness ==
  /\ WF_vars(LoopWorks)
  /\ SF_vars(ArriveInFull)
  /\ WF_vars(Reply \/ Withhold)
  /\ WF_vars(Connect)
  /\ SF_vars(LevelFrames)

FairSpec == Spec /\ Fairness

(***************************************************************************)
(* Properties.                                                             *)
(***************************************************************************)

EngineStates ==
  {IdleEngine} \cup [pc : {"pricing"}, rfq : Rfqs]
    \cup [pc : {"signing"}, nonce : Nonces, order : Order]

LoopStates ==
  [phase : {"idle", "reading", "publishing"}, at : Nat, watched : SUBSET Nonces,
   blocks : [Tokens -> Nat], seen : SUBSET Nonces, todo : SUBSET Tokens]

\* The types of the variables.
TypeOK ==
  /\ now \in Nat
  /\ height \in Nat
  /\ fillBlock \in [Nonces -> Nat]
  /\ fillTime \in [Nonces -> Nat]
  /\ venue \in [Rfqs -> {"open", "selected", "closed", "lost"}]
  /\ told \in SUBSET Rfqs
  /\ orders \in [Nonces -> Order \cup {NoOrder}]
  /\ mode \in {"down", "offline", "online"}
  /\ ledger \in [Rfqs -> Claim \cup {NoRow}]
  /\ disk \in [Rfqs -> Entry \cup {NoRow}]
  /\ engine \in EngineStates
  /\ cache \in [Tokens -> [block : Nat, at : Nat] \cup {NoReading}]
  /\ watched \in SUBSET Nonces
  /\ spent \in SUBSET Nonces
  /\ clock \in Nat \cup {-1}
  /\ loop \in LoopStates

\* Row or file entry `row` claims all that order n may take, for as long as it
\* may take it.
Claims(row, n) ==
  /\ row # NoRow
  /\ row.nonce = n
  /\ row.token = orders[n].token
  /\ row.input = orders[n].input
  /\ row.releaseAt = orders[n].deadline + Skew

\* Every order a taker may still use is claimed in the running ledger, however
\* results, expiries, replays, fills, ticks, reconnects and restarts interleave
\* (reserve.rs: "Only a confirmed losing/unexposed quote can release early").
LiveOrdersClaimed ==
  mode # "down" =>
    \A n \in Nonces : Executable(n) => Claims(ledger[orders[n].rfq], n)

\* The file claims them too, so a crash at any moment forgets no live signature
\* (Reservations::load, flush).
FileCoversOrders ==
  \A n \in Nonces : Executable(n) => Claims(disk[orders[n].rfq], n)

\* A fill is never missing from both sides of the capacity sum: a usable
\* reading from before the fill implies the claim is still live (fills.rs: "two
\* rules make every balance read after a release one that does").
FillsCounted ==
  \A n \in Nonces :
    LET o == orders[n] IN
      /\ fillBlock[n] # 0
      /\ Fresh(o.token)
      /\ cache[o.token].block < fillBlock[n]
      => Claims(ledger[o.rfq], n) /\ Live(ledger[o.rfq])

\* What the ledger is for: all orders takers may still use can be paid at once
\* from what the chain holds.
Solvent == \A t \in Tokens : Owed(t) =< BalanceAt(t, height)

\* Enough other claims lapse no earlier than r's to fill the words of a refresh.
Crowded(r) ==
  Cardinality({q \in Watchable(ledger) \ {r} : ledger[q].releaseAt >= ledger[r].releaseAt})
    >= MaxWords

\* A filled order gives its claim back without waiting for its deadline, once
\* the bot knows a taker may hold it and unless later claims keep crowding it out of
\* the reads (fills.rs: "Releasing a filled quote's claim once the chain shows the
\* fill", "Claims past it hold to their deadline").
FilledClaimsReleased ==
  \A n \in Nonces :
    LET r == orders[n].rfq
        Held == /\ orders[n] # NoOrder
                /\ ledger[r] # NoRow
                /\ ledger[r].nonce = n
    IN  \/ []<>(Held /\ Crowded(r))
        \/ (Held /\ ledger[r].exposed /\ fillBlock[n] # 0) ~> ~Held

(***************************************************************************)
(* The responder, the loop, the venue and the chain together implement     *)
(* Escrow: an obligation is an order that can still take funds.            *)
(***************************************************************************)

Owes ==
  [n \in Nonces |->
     IF Executable(n)
     THEN [token |-> orders[n].token, input |-> orders[n].input]
     ELSE NoOrder]

Balances == [t \in Tokens |-> BalanceAt(t, height)]

Obligations ==
  INSTANCE Escrow WITH
    Ids <- Nonces, Nothing <- NoOrder, owes <- Owes, balance <- Balances

\* Every order that leaves the process was covered, at that moment and on the
\* chain itself, on top of every other order still out: the stale cache, the
\* late results and the restarts never show through.
ImplementsEscrow == Obligations!Spec

=============================================================================

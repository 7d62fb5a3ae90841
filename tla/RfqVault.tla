------------------------------- MODULE RfqVault ------------------------------
(***************************************************************************)
(* Quoting for an OperatorVault (src/src/rfq/mod.rs, reserve.rs).          *)
(*                                                                         *)
(* The vault honours an order only while its trading epoch is the one in   *)
(* the order's nonce; closing a redeem epoch bumps it.  Three tasks share  *)
(* what the bot knows of it: the balance loop publishes the epoch and the  *)
(* quote policy it read, the responder binds its claims to the epoch,      *)
(* signs under the policy and takes close requests, and one task per close *)
(* sends the transaction and waits for it.                                 *)
(*                                                                         *)
(* They run on several threads: a step here is what a task does between    *)
(* two awaits, or between two looks at a cell that another task writes.    *)
(*                                                                         *)
(* Balances are RfqLedger's business and are left out; so is time, except  *)
(* that an order may lapse.                                                *)
(***************************************************************************)
EXTENDS Integers, FiniteSets

CONSTANTS
  Nonces,    \* the low halves of vault nonces, one per signed order
  MaxEpoch,  \* bound: the vault's last trading epoch
  MaxSends,  \* bound: close transactions the bot sends
  NodeLag,   \* an RPC node may answer from the block before the newest
  Crashes    \* the process may crash and restart

ASSUME ConstantsTyped ==
  /\ MaxEpoch \in Nat \ {0} /\ MaxSends \in Nat
  /\ {NodeLag, Crashes} \subseteq BOOLEAN

VARIABLES
  vault,        \* the vault on chain, as of the newest block
  before,       \* as of the block before
  orders,       \* orders[n]: the trading epoch order n was signed under, 0 unsigned
  over,         \* orders filled or past their deadline
  mode,         \* the process: down, or up with a session
  claims,       \* Reservations.by_rfq, by nonce
  ledgerEpoch,  \* Reservations.vault_epoch, 0 for none
  tradingEpoch, \* the epoch the balance loop published, 0 before any
  policy,       \* vault_policy is loaded
  clock,        \* BlockClock: the newest block published
  closing,      \* closing[e]: the trading epoch redeem epoch e's close was
                \* claimed under, 0 while not claimed
  sends,        \* the close transactions
  engine,       \* the responder inside one request
  reading,      \* the balance loop inside one refresh
  unbound,      \* ghost: orders signed under an epoch the ledger was not bound
                \* to, or whose ledger a restarted process bound to an older one
  resumed,      \* ghost: restarted, and the ledger not synced since
  lit,          \* ghost, lit[e]: refreshes that put the policy in since e's
                \* close was claimed
  misread       \* ghost: redeem epochs whose close was due when a node a block
                \* behind said it was not

chain  == <<vault, before, orders, over>>
ledger == <<claims, ledgerEpoch>>
ghosts == <<unbound, resumed, lit, misread>>
vars == <<chain, mode, ledger, tradingEpoch, policy, clock, closing, sends,
          engine, reading, ghosts>>

Redeems == 1..MaxEpoch

Sends == 1..MaxSends

(***************************************************************************)
(* The vault, its other callers, and takers.                               *)
(***************************************************************************)

\* A redeem epoch can close while it is the open one and none awaits settlement.
Closable(v, e) == v.open = e /\ ~v.outstanding

\* The vault takes an order only under the epoch in its nonce.
Executable(n) ==
  orders[n] = vault.epoch /\ n \notin over

Block(next) ==
  /\ before' = vault
  /\ vault' = [next EXCEPT !.block = @ + 1]

\* closeRedeemEpoch
Closed(v) == [v EXCEPT !.epoch = @ + 1, !.open = @ + 1, !.outstanding = TRUE]

Idle == [pc |-> "idle"]

NoSend == [epochId |-> 0, tx |-> "none", waiting |-> FALSE, earlier |-> FALSE]

Init ==
  /\ \E awaiting \in BOOLEAN :
       vault = [block |-> 1, epoch |-> 1, open |-> 1, outstanding |-> awaiting]
  /\ before = vault
  /\ orders = [n \in Nonces |-> 0]
  /\ over = {}
  /\ mode = "up"
  /\ claims = {}
  /\ ledgerEpoch = 0
  /\ tradingEpoch = 0
  /\ policy = FALSE
  /\ clock = 0
  /\ closing = [e \in Redeems |-> 0]
  /\ sends = [i \in Sends |-> NoSend]
  /\ engine = Idle
  /\ reading = Idle
  /\ unbound = {} /\ resumed = FALSE
  /\ lit = [e \in Redeems |-> 0] /\ misread = {}

inside == <<mode, ledger, tradingEpoch, policy, clock, closing, engine, reading, ghosts>>

\* The venue's keeper closes the redeem epoch on the permissionless path.
KeeperCloses ==
  /\ vault.epoch < MaxEpoch
  /\ ~vault.outstanding
  /\ Block(Closed(vault))
  /\ UNCHANGED <<orders, over, sends, inside>>

\* The closed epoch settles; the vault leaves close-only.  Settlement and the
\* minutes the next redeem epoch stays open outlast a refresh (REQUEST_TIMEOUT):
\* none spans two closes.
Settle ==
  /\ vault.outstanding
  /\ reading.pc \in {"reading", "published"} => reading.epoch = vault.epoch
  /\ Block([vault EXCEPT !.outstanding = FALSE])
  /\ UNCHANGED <<orders, over, sends, inside>>

\* A taker fills an order, or its deadline passes.
Ends(n) ==
  /\ orders[n] # 0
  /\ n \notin over
  /\ over' = over \cup {n}
  /\ UNCHANGED <<vault, before, orders, sends, inside>>

(***************************************************************************)
(* The close transactions and the tasks that wait for them.                *)
(***************************************************************************)

notTasks == <<orders, over, mode, ledger, tradingEpoch, policy, clock, engine, reading,
              ghosts>>

Broadcast(i) ==
  /\ sends[i].tx = "unsent"
  /\ sends' = [sends EXCEPT ![i].tx = "pending"]
  /\ UNCHANGED <<vault, before, closing, notTasks>>

\* Included: it closes its redeem epoch, or reverts.
Mine(i) ==
  /\ sends[i].tx = "pending"
  /\ \/ /\ Closable(vault, sends[i].epochId)
        /\ vault.epoch < MaxEpoch
        /\ Block(Closed(vault))
        /\ sends' = [sends EXCEPT ![i].tx = "mined"]
     \/ /\ ~Closable(vault, sends[i].epochId)
        /\ sends' = [sends EXCEPT ![i].tx = "reverted"]
        /\ UNCHANGED <<vault, before>>
  /\ UNCHANGED <<closing, notTasks>>

\* It leaves the pool for good.
Drop(i) ==
  /\ sends[i].tx = "pending"
  /\ sends' = [sends EXCEPT ![i].tx = "dropped"]
  /\ UNCHANGED <<vault, before, closing, notTasks>>

Release(e) == closing' = [closing EXCEPT ![e] = 0]

\* The send failed before its broadcast, or its receipt is in: the claim goes.
TaskReleases(i) ==
  /\ sends[i].waiting
  /\ \/ /\ sends[i].tx = "unsent"
        /\ sends' = [sends EXCEPT ![i].waiting = FALSE, ![i].tx = "dropped"]
     \/ /\ sends[i].tx \in {"mined", "reverted"}
        /\ sends' = [sends EXCEPT ![i].waiting = FALSE]
  /\ Release(sends[i].epochId)
  /\ UNCHANGED <<vault, before, notTasks>>

\* Mutant: a close without a receipt is taken for one that failed.
MutTaskGivesUp(i) ==
  /\ sends[i].waiting
  /\ sends[i].tx \in {"pending", "dropped"}
  /\ sends' = [sends EXCEPT ![i].waiting = FALSE]
  /\ Release(sends[i].epochId)
  /\ UNCHANGED <<vault, before, notTasks>>

\* transaction_may_still_land: no receipt in time, or the broadcast's own answer
\* was lost.  The claim stays.
TaskGivesUp(i) ==
  /\ sends[i].waiting
  /\ sends[i].tx \in {"pending", "dropped"}
  /\ sends' = [sends EXCEPT ![i].waiting = FALSE]
  /\ UNCHANGED <<vault, before, closing, notTasks>>

(***************************************************************************)
(* The responder.                                                          *)
(***************************************************************************)

Serving == mode = "up" /\ engine = Idle

notLedger == <<chain, mode, tradingEpoch, policy, clock, closing, sends, reading>>

\* Mutant: the zero the cell starts with counts as an epoch.
MutSync ==
  \/ /\ tradingEpoch = ledgerEpoch
     /\ UNCHANGED ledger
  \/ /\ tradingEpoch # ledgerEpoch
     /\ ledgerEpoch' = tradingEpoch
     /\ claims' = IF ledgerEpoch = 0 THEN claims ELSE {}

\* sync_vault_epoch: a ledger bound to another epoch drops its claims.
Sync ==
  \/ /\ tradingEpoch \in {0, ledgerEpoch}
     /\ UNCHANGED ledger
  \/ /\ tradingEpoch \notin {0, ledgerEpoch}
     /\ ledgerEpoch' = tradingEpoch
     /\ claims' = IF ledgerEpoch = 0 THEN claims ELSE {}

NoteSync ==
  /\ resumed' = (resumed /\ tradingEpoch = 0)
  /\ unbound' = IF resumed /\ tradingEpoch \in 1..ledgerEpoch - 1
                THEN unbound \cup claims ELSE unbound
  /\ UNCHANGED <<lit, misread>>

\* respond, at its start.
QuoteRequest ==
  /\ Serving
  /\ Sync /\ NoteSync
  /\ engine' = [pc |-> "synced"]
  /\ UNCHANGED notLedger

\* The last policy check.
CheckPolicy ==
  /\ engine.pc = "synced"
  /\ policy
  /\ engine' = [pc |-> "checked"]
  /\ UNCHANGED <<notLedger, ledger, ghosts>>

\* To the signature request: the nonce takes the epoch as it is published now.
MintNonce(n) ==
  /\ engine.pc = "checked"
  /\ tradingEpoch # 0
  /\ orders[n] = 0 /\ n \notin claims
  /\ engine' = [pc |-> "signing", nonce |-> n, epoch |-> tradingEpoch]
  /\ UNCHANGED <<notLedger, ledger, ghosts>>

\* Any reject in between, a signature that failed or came late, a read that
\* failed.
Withhold ==
  /\ engine.pc \in {"synced", "checked", "signing", "checking", "closing"}
  /\ engine' = Idle
  /\ UNCHANGED <<notLedger, ledger, ghosts>>

\* The claim, then the reply.
Reply ==
  /\ engine.pc = "signing"
  /\ claims' = claims \cup {engine.nonce}
  /\ orders' = [orders EXCEPT ![engine.nonce] = engine.epoch]
  /\ unbound' = IF engine.epoch = ledgerEpoch THEN unbound
                ELSE unbound \cup {engine.nonce}
  /\ engine' = Idle
  /\ UNCHANGED <<vault, before, over, mode, ledgerEpoch, tradingEpoch, policy, clock,
                 closing, sends, reading, resumed, lit, misread>>

\* level_frames
LevelFrames ==
  /\ Serving
  /\ Sync /\ NoteSync
  /\ UNCHANGED <<notLedger, engine>>

\* prune, release_filled: claims of orders that are over, in some order.
DropClaim(n) ==
  /\ Serving
  /\ n \in claims \cap over
  /\ claims' = claims \ {n}
  /\ UNCHANGED <<notLedger, ledgerEpoch, engine, ghosts>>

Views == IF NodeLag THEN {vault, before} ELSE {vault}

FreeSend == \E i \in Sends : sends[i] = NoSend

\* close_redeem's reads, one call after the other: the redeem epoch first, the
\* trading epoch last.
CloseRequest(e, v) ==
  /\ Serving
  /\ FreeSend
  /\ v.epoch < MaxEpoch
  /\ engine' = [pc |-> "checking", epochId |-> e, due |-> Closable(v, e)]
  /\ misread' = IF Closable(vault, e) /\ ~Closable(v, e) THEN misread \cup {e}
                ELSE misread
  /\ UNCHANGED <<notLedger, ledger, unbound, resumed, lit>>

ReadEpoch(v) ==
  /\ engine.pc = "checking"
  /\ v.epoch < MaxEpoch
  /\ engine' = [pc |-> "closing", epochId |-> engine.epochId,
                due |-> engine.due, epoch |-> v.epoch]
  /\ UNCHANGED <<notLedger, ledger, ghosts>>

\* Not due: an earlier claim on it goes.
RefuseClose ==
  /\ engine.pc = "closing" /\ ~engine.due
  /\ Release(engine.epochId)
  /\ engine' = Idle
  /\ UNCHANGED <<chain, mode, ledger, tradingEpoch, policy, clock, sends, reading, ghosts>>

notClose == <<chain, mode, ledger, tradingEpoch, policy, clock, sends, reading,
              unbound, resumed, misread>>

\* Mutant: a claim from an earlier request does not stop this one.
MutClaimClose ==
  /\ engine.pc = "closing" /\ engine.due
  /\ closing' = [closing EXCEPT ![engine.epochId] = engine.epoch]
  /\ engine' = [pc |-> "claimed", epochId |-> engine.epochId]
  /\ lit' = [lit EXCEPT ![engine.epochId] = 0]
  /\ UNCHANGED notClose

\* claim_close: one close in flight per redeem epoch.  The insert takes over the
\* epoch of a claim that is there.
ClaimClose ==
  /\ engine.pc = "closing" /\ engine.due
  /\ closing' = [closing EXCEPT ![engine.epochId] = engine.epoch]
  /\ \/ /\ closing[engine.epochId] # 0
        /\ engine' = Idle
        /\ UNCHANGED lit
     \/ /\ closing[engine.epochId] = 0
        /\ engine' = [pc |-> "claimed", epochId |-> engine.epochId]
        /\ lit' = [lit EXCEPT ![engine.epochId] = 0]
  /\ UNCHANGED notClose

\* claim_close's second half and the spawned send.
GoDark(i) ==
  /\ engine.pc = "claimed"
  /\ sends[i] = NoSend /\ \A j \in 1..i - 1 : sends[j] # NoSend
  /\ policy' = FALSE
  /\ sends' = [sends EXCEPT ![i] = [NoSend EXCEPT !.epochId = engine.epochId,
                                                  !.tx = "unsent", !.waiting = TRUE]]
  /\ engine' = Idle
  /\ UNCHANGED <<chain, mode, ledger, tradingEpoch, clock, closing, reading, ghosts>>

(***************************************************************************)
(* The balance loop (inventory_loop on a vault).                           *)
(***************************************************************************)

notLoop == <<chain, mode, ledger, sends, engine, unbound, resumed, misread>>

\* One batch, answered as of block v.
ReadVault(v) ==
  /\ mode = "up"
  /\ reading = Idle
  /\ reading' = [pc |-> "reading", block |-> v.block, epoch |-> v.epoch]
  /\ UNCHANGED <<notLoop, lit, tradingEpoch, policy, clock, closing>>

\* The last reading is kept.
ReadFails ==
  /\ reading.pc = "reading"
  /\ reading' = Idle
  /\ UNCHANGED <<notLoop, lit, tradingEpoch, policy, clock, closing>>

\* BlockClock first, then the epoch.
PublishEpoch ==
  /\ reading.pc = "reading"
  /\ \/ /\ reading.block < clock
        /\ reading' = Idle
        /\ UNCHANGED <<clock, tradingEpoch>>
     \/ /\ reading.block >= clock
        /\ clock' = reading.block
        /\ tradingEpoch' = reading.epoch
        /\ reading' = [pc |-> "published", epoch |-> reading.epoch]
  /\ UNCHANGED <<notLoop, lit, policy, closing>>

\* Mutant: a close is held until its own task lets go of it.
MutReconcileCloses ==
  /\ reading.pc = "published"
  /\ reading' = [pc |-> "reconciled", dark |-> \E e \in Redeems : closing[e] # 0]
  /\ UNCHANGED <<notLoop, lit, tradingEpoch, policy, clock, closing>>

\* reconcile_close_claims: a claim from another trading epoch has landed.
ReconcileCloses ==
  /\ reading.pc = "published"
  /\ closing' = [e \in Redeems |->
                   IF closing[e] = reading.epoch THEN closing[e] ELSE 0]
  /\ reading' = [pc |-> "reconciled", dark |-> \E e \in Redeems : closing'[e] # 0]
  /\ UNCHANGED <<notLoop, lit, tradingEpoch, policy, clock>>

\* The claims a policy was put in over.
LitOver == [e \in Redeems |-> IF closing[e] = 0 THEN lit[e] ELSE lit[e] + 1]

\* Mutant: the policy just read goes in whether or not a close is in flight.
MutPublishPolicy ==
  /\ reading.pc = "reconciled"
  /\ policy' = TRUE
  /\ lit' = LitOver
  /\ reading' = Idle
  /\ UNCHANGED <<notLoop, tradingEpoch, clock, closing>>

\* refreshed_vault_policy
PublishPolicy ==
  /\ reading.pc = "reconciled"
  /\ policy' = ~reading.dark
  /\ lit' = IF reading.dark THEN lit ELSE LitOver
  /\ reading' = Idle
  /\ UNCHANGED <<notLoop, tradingEpoch, clock, closing>>

(***************************************************************************)
(* The process.  The ledger file survives (RfqLedger); the close claims do *)
(* not, though a close in the pool may still land.                         *)
(***************************************************************************)

Left(send) ==
  IF send = NoSend THEN send
  ELSE [send EXCEPT !.waiting = FALSE, !.earlier = TRUE,
                    !.tx = IF @ = "unsent" THEN "dropped" ELSE @]

Crash ==
  /\ Crashes
  /\ mode = "up"
  /\ mode' = "down"
  /\ tradingEpoch' = 0
  /\ policy' = FALSE
  /\ clock' = 0
  /\ closing' = [e \in Redeems |-> 0]
  /\ sends' = [i \in Sends |-> Left(sends[i])]
  /\ engine' = Idle
  /\ reading' = Idle
  /\ resumed' = TRUE
  /\ lit' = [e \in Redeems |-> 0]
  /\ misread' = {}
  /\ UNCHANGED <<chain, ledger, unbound>>

Start ==
  /\ mode = "down"
  /\ mode' = "up"
  /\ UNCHANGED <<chain, ledger, tradingEpoch, policy, clock, closing, sends,
                 engine, reading, ghosts>>

(***************************************************************************)
(* The system.                                                             *)
(***************************************************************************)

World ==
  \/ KeeperCloses \/ Settle
  \/ \E n \in Nonces : Ends(n)
  \/ \E i \in Sends : Broadcast(i) \/ Mine(i) \/ Drop(i)

CloseTasks == \E i \in Sends : TaskReleases(i) \/ TaskGivesUp(i)

Responder ==
  \/ QuoteRequest \/ CheckPolicy \/ LevelFrames \/ Withhold \/ Reply
  \/ \E n \in Nonces : MintNonce(n) \/ DropClaim(n)
  \/ \E e \in Redeems, v \in Views : CloseRequest(e, v)
  \/ \E v \in Views : ReadEpoch(v)
  \/ RefuseClose \/ ClaimClose
  \/ \E i \in Sends : GoDark(i)

BalanceLoop ==
  \/ \E v \in Views : ReadVault(v)
  \/ ReadFails \/ PublishEpoch \/ ReconcileCloses \/ PublishPolicy

Next == World \/ CloseTasks \/ Responder \/ BalanceLoop \/ Crash \/ Start

Spec == Init /\ [][Next]_vars

PublishNewest == reading.pc = "reading" /\ reading.block = vault.block /\ PublishEpoch

\* The loop keeps asking, and again and again an up to date node answers it; a
\* request ends; the venue's keeper closes what nobody else does and closed
\* epochs settle.
Fairness ==
  /\ SF_vars(ReadVault(vault)) /\ SF_vars(PublishNewest)
  /\ SF_vars(PublishEpoch \/ ReadFails)
  /\ WF_vars(ReconcileCloses) /\ WF_vars(PublishPolicy)
  /\ WF_vars(Withhold \/ Reply) /\ SF_vars(RefuseClose \/ ClaimClose)
  /\ WF_vars(\E i \in Sends : GoDark(i))
  /\ WF_vars(KeeperCloses) /\ SF_vars(Settle)

FairSpec == Spec /\ Fairness

(***************************************************************************)
(* Properties.                                                             *)
(***************************************************************************)

View == [block : Nat, epoch : Nat, open : Nat, outstanding : BOOLEAN]

SendStates ==
  [epochId : Nat, waiting : BOOLEAN, earlier : BOOLEAN,
   tx : {"none", "unsent", "pending", "mined", "reverted", "dropped"}]

EngineStates ==
  {Idle} \cup [pc : {"synced", "checked"}]
    \cup [pc : {"signing"}, nonce : Nonces, epoch : Nat]
    \cup [pc : {"checking"}, epochId : Redeems, due : BOOLEAN]
    \cup [pc : {"closing"}, epochId : Redeems, due : BOOLEAN, epoch : Nat]
    \cup [pc : {"claimed"}, epochId : Redeems]

LoopStates ==
  {Idle} \cup [pc : {"reading"}, block : Nat, epoch : Nat]
    \cup [pc : {"published"}, epoch : Nat] \cup [pc : {"reconciled"}, dark : BOOLEAN]

\* The types of the variables.
TypeOK ==
  /\ vault \in View /\ before \in View
  /\ orders \in [Nonces -> Nat]
  /\ over \in SUBSET Nonces
  /\ mode \in {"up", "down"}
  /\ claims \in SUBSET Nonces
  /\ {ledgerEpoch, tradingEpoch, clock} \subseteq Nat
  /\ policy \in BOOLEAN
  /\ closing \in [Redeems -> Nat]
  /\ sends \in [Sends -> SendStates]
  /\ engine \in EngineStates
  /\ reading \in LoopStates
  /\ unbound \in SUBSET Nonces
  /\ resumed \in BOOLEAN
  /\ lit \in [Redeems -> Nat]
  /\ misread \in SUBSET Redeems

\* Every order the vault would still honour is claimed, however closes, refreshes,
\* requests, lagging nodes and restarts interleave (reserve.rs: "wrongly dropping
\* a live claim would double-spend inventory").  Two kinds of orders fall out of
\* it, and no others: one whose nonce took a newer epoch than the ledger was
\* bound to in the same request, and those claimed when a restarted process
\* bound the ledger to an older epoch (sections 6.3 and 6.4 of the README).
OrdersClaimed ==
  mode = "up" => \A n \in Nonces : Executable(n) /\ n \notin unbound => n \in claims

\* From the claim of a close to its release nothing is quoted (claim_close: "the
\* inventory loop keeps this dark while the claim is held"), but for one refresh
\* that looked at the claims before this one was there and wrote the policy after.
DarkWhileClosing ==
  \A e \in Redeems : closing[e] # 0 =>
    /\ lit[e] =< 1
    /\ policy => lit[e] = 1 \/ engine = [pc |-> "claimed", epochId |-> e]

CanLand(i) ==
  sends[i].tx \in {"unsent", "pending"} /\ Closable(vault, sends[i].epochId)

\* The running process sent close i, and no node behind told it that it was not due.
KnownClose(i) == CanLand(i) /\ ~sends[i].earlier /\ sends[i].epochId \notin misread

\* No order is signed into an epoch this process's own close is about to end, not
\* even when the task that sent it gave up waiting (transaction_may_still_land),
\* but for the one refresh of DarkWhileClosing.
NoOrderIntoOwnClose ==
  engine.pc = "signing" =>
    \A i \in Sends : KnownClose(i) => lit[sends[i].epochId] = 1

\* At most one close for a redeem epoch is ever on its way from one process
\* (claim_close: "`false` if this bot already has one in flight").
OneClose ==
  \A i, j \in Sends :
    KnownClose(i) /\ KnownClose(j) /\ sends[i].epochId = sends[j].epochId => i = j

\* A close keeps the bot dark for a while, never for good: even a transaction that
\* was dropped after the task gave up is resolved by the next epoch
\* (reconcile_close_claims).
DarkEnds == \A e \in Redeems : closing[e] # 0 ~> policy

=============================================================================

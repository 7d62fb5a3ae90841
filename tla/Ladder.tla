-------------------------------- MODULE Ladder -------------------------------
(***************************************************************************)
(* The ladder of resting orders (src/src/book/maker.rs, slots.rs,          *)
(* poster.rs, funding.rs and the tick loop of src/src/main.rs).            *)
(*                                                                         *)
(* Each tick quotes the sides that pay in one token, one after the other.  *)
(* A side is sized by what the wallet delivers, what the indexer holds     *)
(* against it and what its own orders give back, cut into slots, signed    *)
(* and posted as one batch.  An order takes the nonce of its slot, so that *)
(* it supersedes the slot's last one.  The indexer refuses a batch that    *)
(* has a nonce used on chain, and one that exceeds the balance on top of   *)
(* the orders it does not supersede.                                       *)
(*                                                                         *)
(* Times are what is left of them, so the clock itself has no value.       *)
(***************************************************************************)
EXTENDS Sizing

CONSTANTS
  Sides,      \* how many sides there are: 1..Sides, in the order of a tick
  MaxOrders,  \* max_orders of a side
  MinSlice,   \* its least slice
  Want,       \* its configured input, if it is not "max"
  Ttl,        \* ttl_secs
  Margin,     \* REUSABLE_DEADLINE_MARGIN_SECS, and the indexer's own
  MaxBalance, \* bound: the most the wallet ever delivers
  MaxShocks   \* bound: fills, transfers, failures and crashes in all

ASSUME ConstantsTyped ==
  /\ Sides \in Nat \ {0} /\ MaxOrders \in Nat /\ MinSlice \in Nat
  /\ {Want, Ttl, Margin, MaxBalance, MaxShocks} \subseteq Nat

VARIABLES
  maxed,    \* the configuration: the sides whose input is "max"
  balance,  \* min(balance, allowance) on the chain
  spent,    \* nonces used on the chain
  rows,     \* the orders the indexer holds
  ledger,   \* QuoteState: next_nonce, slot_nonces, slot_inputs, slot_deadlines
  file,     \* the slot nonce state file
  side,     \* the side the tick is at, 0 between ticks
  step,     \* where in quote_side
  budget,   \* TickBudgets.funded_inputs of the token
  reusable, \* reusable_input of the side at hand
  batch,    \* its drafts: the input of each slot drafted, and the time left
  answer,   \* what submit_many returned
  named,    \* the used nonces its error names
  filled,   \* ghost, for each slot: an order of it was filled, or a restart
            \* took a used nonce from the file, since one was last refused
  calm,     \* ghost: ledger and indexer agreed and nothing happened since
  shocks    \* shocks so far

world == <<maxed, balance, spent>>
task  == <<side, step, budget, reusable, batch, answer, named>>
vars  == <<world, rows, ledger, file, task, filled, calm, shocks>>

Slots == (1..Sides) \X (0..MaxOrders - 1)
SlotsOf(s) == {slot \in Slots : slot[1] = s}

NoBudget == [known |-> FALSE, funded |-> 0, committed |-> 0, left |-> Cardinality(maxed)]
NoBatch  == [input |-> <<>>, left |-> 0]
Fresh    == [next |-> 0, nonce |-> [slot \in Slots |-> 0],
             input |-> [slot \in Slots |-> 0], left |-> [slot \in Slots |-> 0]]

\* What the indexer holds against the maker, the orders of `nonces' left out.
Counted(nonces) ==
  SumFunctionOnSet([r \in rows |-> r.input],
                   {r \in rows : r.left > Margin /\ r.nonce \notin nonces})

\* reusable_slot_input: what the side's orders that are not about to end give back.
Reusable(s) ==
  SumFunctionOnSet(ledger.input, {slot \in SlotsOf(s) : ledger.left[slot] > Margin})

BatchSlots  == DOMAIN batch.input
BatchTotal  == SumFunctionOnSet(batch.input, BatchSlots)
BatchNonces == {ledger.nonce[slot] : slot \in BatchSlots}

\* Ledger and indexer agree on the orders the indexer counts.
Agree ==
  {<<r.slot, r.nonce, r.input, r.left>> : r \in {r \in rows : r.left > Margin}} =
  {<<slot, ledger.nonce[slot], ledger.input[slot], ledger.left[slot]>> :
     slot \in {slot \in Slots : ledger.left[slot] > Margin}}

\* No order the indexer counts for the side is left standing beside the batch.
NoneLeft ==
  \A r \in rows : r.left > Margin /\ r.slot[1] = side => r.slot \in BatchSlots

Over ==
  /\ step' = "requote" /\ reusable' = 0 /\ batch' = NoBatch
  /\ answer' = "none" /\ named' = {}

NextSide == side' = (side + 1) % (Sides + 1) /\ Over

Shock == shocks < MaxShocks /\ shocks' = shocks + 1

\* save_slot_nonce_state; it may fail.
Persist ==
  \/ file' = ledger' /\ UNCHANGED shocks
  \/ UNCHANGED file /\ Shock

----------------------------------------------------------------------------
Init ==
  /\ maxed \in {{}, 1..Sides}
  /\ balance = MaxBalance /\ spent = {} /\ rows = {}
  /\ ledger = Fresh /\ file = Fresh
  /\ side = 0 /\ step = "requote"
  /\ budget = NoBudget /\ reusable = 0 /\ batch = NoBatch /\ answer = "none"
  /\ named = {} /\ filled = [slot \in Slots |-> FALSE]
  /\ calm = TRUE /\ shocks = 0

StartTick ==
  /\ side = 0 /\ step = "requote"
  /\ NextSide
  /\ budget' = NoBudget
  /\ calm' = Agree
  /\ UNCHANGED <<world, rows, ledger, file, filled, shocks>>

\* The feed is not usable, the side is pulled, or there is nothing to requote.
Skip ==
  /\ side # 0 /\ step = "requote"
  /\ NextSide
  /\ UNCHANGED <<world, rows, ledger, file, budget, filled, calm, shocks>>

Quote(s) ==
  /\ side = s /\ step = "requote"
  /\ reusable' = Reusable(s)
  /\ step' = IF budget.known THEN "size" ELSE "balance"
  /\ UNCHANGED <<world, rows, ledger, file, side, budget, batch, answer, named,
                 filled, calm, shocks>>

\* read_funded_budget: the chain first, then the indexer.
ReadBalance ==
  /\ step = "balance"
  /\ budget' = [budget EXCEPT !.funded = balance]
  /\ step' = "committed"
  /\ UNCHANGED <<world, rows, ledger, file, side, reusable, batch, answer, named,
                 filled, calm, shocks>>

ReadCommitted ==
  /\ step = "committed"
  /\ budget' = [budget EXCEPT !.known = TRUE, !.committed = Counted({})]
  /\ step' = "size"
  /\ UNCHANGED <<world, rows, ledger, file, side, reusable, batch, answer, named,
                 filled, calm, shocks>>

ReadFails ==
  /\ step \in {"balance", "committed"}
  /\ Shock
  /\ budget' = [budget EXCEPT !.funded = 0]
  /\ NextSide
  /\ UNCHANGED <<world, rows, ledger, file, filled, calm>>

\* capped_input: a side sized "max" takes one of the shares of the tick.
Grant ==
  IF side \in maxed THEN max_input_share(budget, reusable, Cardinality(maxed), budget.left)
  ELSE Least(Want, available_funded_input(budget, reusable))

Taken == [budget EXCEPT !.left = IF side \in maxed THEN Greatest(@, 1) - 1 ELSE @]

Sizes == balanced_ladder(Grant, MinSlice, MaxOrders)

\* slot_nonce for each draft: a slot without a nonce takes the next one.
Minted(slots) ==
  LET new == {slot \in slots : ledger.nonce[slot] = 0}
      place(slot) == Cardinality({x \in new : x[2] <= slot[2]})
  IN [ledger EXCEPT !.nonce = [slot \in Slots |->
                      IF slot \in new THEN ledger.next + place(slot) ELSE @[slot]],
                    !.next = @ + Cardinality(new)]

\* Mutant: slot keys that leave out the side.
MutDrafted == {slot \in SlotsOf(1) : slot[2] < Len(Sizes)}

Drafted == {slot \in SlotsOf(side) : slot[2] < Len(Sizes)}

\* Nothing to post, or drafts out of the price band, whose nonces are taken.
Hold ==
  /\ step = "size"
  /\ ledger' = Minted(Drafted) /\ budget' = Taken
  /\ NextSide
  /\ UNCHANGED <<world, rows, file, filled, calm, shocks>>

\* build_drafts, and the ledger on file before anything is signed.
Draft ==
  /\ step = "size"
  /\ Sizes # <<>>
  /\ ledger' = Minted(Drafted) /\ file' = ledger'
  /\ budget' = Taken
  /\ batch' = [input |-> [slot \in Drafted |-> Sizes[slot[2] + 1]], left |-> Ttl]
  /\ step' = "signing"
  /\ UNCHANGED <<world, rows, side, reusable, answer, named, filled, calm, shocks>>

\* The ledger cannot be saved: nothing is posted.
NotSaved ==
  /\ step = "size"
  /\ Sizes # <<>>
  /\ Shock
  /\ ledger' = Minted(Drafted) /\ budget' = Taken
  /\ NextSide
  /\ UNCHANGED <<world, rows, file, filled, calm>>

\* A signature fails, or the price guard refuses the signed batch.
Withhold ==
  /\ step = "signing"
  /\ Shock
  /\ NextSide
  /\ UNCHANGED <<world, rows, ledger, file, budget, filled, calm>>

----------------------------------------------------------------------------
(* The indexer takes a batch whole or not at all. *)

Accepted ==
  {r \in rows : r.nonce \notin BatchNonces}
    \cup {[slot |-> slot, nonce |-> ledger.nonce[slot], input |-> batch.input[slot],
           left |-> batch.left] : slot \in BatchSlots}

SpentInBatch == BatchNonces \cap spent # {}
Unfunded     == BatchTotal + Counted(BatchNonces) > balance
Good         == ~SpentInBatch /\ ~Unfunded /\ batch.left > 0

Submit ==
  /\ step = "signing"
  /\ step' = "answer"
  /\ \/ answer' = "spent" /\ SpentInBatch /\ UNCHANGED <<rows, shocks>>
     \/ answer' = "unfunded" /\ Unfunded /\ UNCHANGED <<rows, shocks>>
     \/ answer' = "posted" /\ Good /\ rows' = Accepted /\ UNCHANGED shocks
     \/ answer' = "failed" /\ batch.left = 0 /\ UNCHANGED <<rows, shocks>>
     \/ answer' = "failed" /\ Shock /\ UNCHANGED rows
     \/ answer' = "failed" /\ Shock /\ Good /\ rows' = Accepted \* lost on the way
  /\ named' = IF answer' = "spent" THEN BatchNonces \cap spent ELSE {}
  /\ filled' = [slot \in Slots |->
                  filled[slot] /\ ~(slot \in BatchSlots /\ ledger.nonce[slot] \in named')]
  /\ calm' = (calm /\ NoneLeft /\ (rows' # rows => answer' = "posted"))
  /\ UNCHANGED <<world, ledger, file, side, budget, reusable, batch>>

\* remember_slot_inputs: the side's inputs are the batch's.
Remembered ==
  [ledger EXCEPT
     !.input = [slot \in Slots |-> CASE slot \in BatchSlots -> batch.input[slot]
                                     [] slot \in SlotsOf(side) \ BatchSlots -> 0
                                     [] OTHER -> @[slot]],
     !.left = [slot \in Slots |-> CASE slot \in BatchSlots -> batch.left
                                    [] slot \in SlotsOf(side) \ BatchSlots -> 0
                                    [] OTHER -> @[slot]]]

\* Mutant: every slot of the batch is taken for spent.
MutForgotten ==
  LET gone == BatchSlots
      Without(f) == [slot \in Slots |-> IF slot \in gone THEN 0 ELSE f[slot]]
  IN [ledger EXCEPT !.nonce = Without(@), !.input = Without(@), !.left = Without(@)]

\* Mutant: the slot keeps its nonce.
MutKept ==
  LET gone == {slot \in BatchSlots : ledger.nonce[slot] \in named}
      Without(f) == [slot \in Slots |-> IF slot \in gone THEN 0 ELSE f[slot]]
  IN [ledger EXCEPT !.input = Without(@), !.left = Without(@)]

\* forget_spent_slot_nonces: exactly the slots whose nonce was named.
Forgotten ==
  LET gone == {slot \in BatchSlots : ledger.nonce[slot] \in named}
      Without(f) == [slot \in Slots |-> IF slot \in gone THEN 0 ELSE f[slot]]
  IN [ledger EXCEPT !.nonce = Without(@), !.input = Without(@), !.left = Without(@)]

\* Mutant: later sides see the budget of the tick's start.
MutBudgetAfter == budget

\* record_funded_input_replacement: later sides see the book as it is now.
BudgetAfter == Replaced(budget, BatchTotal, reusable)

Answered ==
  /\ step = "answer"
  /\ CASE answer = "posted" -> ledger' = Remembered /\ budget' = BudgetAfter /\ Persist
       [] answer = "spent"  -> ledger' = Forgotten /\ UNCHANGED budget /\ Persist
       [] OTHER             -> UNCHANGED <<ledger, budget, file, shocks>>
  /\ NextSide
  /\ UNCHANGED <<world, rows, filled, calm>>

----------------------------------------------------------------------------
(* The world, and the process. *)

\* A taker executes an order.
Fill(r) ==
  /\ r.nonce \notin spent /\ r.left > 0 /\ balance >= r.input
  /\ Shock
  /\ balance' = balance - r.input
  /\ spent' = spent \cup {r.nonce}
  /\ rows' = rows \ {r}
  /\ filled' = [filled EXCEPT ![r.slot] = TRUE]
  /\ calm' = FALSE
  /\ UNCHANGED <<maxed, ledger, file, task>>

\* Deposits, withdrawals, and fills of firm quotes.
Transfer ==
  /\ Shock
  /\ balance' \in 0..MaxBalance \ {balance}
  /\ calm' = FALSE
  /\ UNCHANGED <<maxed, spent, rows, ledger, file, task, filled>>

Aged(f) == [x \in DOMAIN f |-> Monus(f[x], 1)]

Second ==
  /\ rows' = {[r EXCEPT !.left = @ - 1] : r \in {r \in rows : r.left > 1}}
  /\ ledger' = [ledger EXCEPT !.left = Aged(@)]
  /\ file' = [file EXCEPT !.left = Aged(@)]
  /\ batch' = [batch EXCEPT !.left = Monus(@, 1)]
  /\ calm' = (calm /\ \A r \in rows : r.left # Margin + 1)
  /\ UNCHANGED <<world, side, step, budget, reusable, answer, named, filled, shocks>>

\* Mutant: the next nonce comes from the clock alone, which was set back.
MutLoaded == [file EXCEPT !.next = 0]

\* load_slot_nonce_state, at its worst: a clock behind every nonce on file.
Loaded ==
  [file EXCEPT !.next = Max({@} \cup {file.nonce[slot] : slot \in Slots})]

\* The process stops and starts again.
Restart ==
  /\ Shock
  /\ ledger' = Loaded
  /\ side' = 0 /\ Over
  /\ budget' = NoBudget
  /\ filled' = [slot \in Slots |-> filled[slot] \/ file.nonce[slot] \in spent]
  /\ calm' = FALSE
  /\ UNCHANGED <<world, rows, file>>

QuoteSide ==
  \/ \E s \in 1..Sides : Quote(s)
  \/ ReadBalance \/ ReadCommitted \/ ReadFails
  \/ Hold \/ Draft \/ NotSaved \/ Withhold \/ Submit \/ Answered

Next ==
  \/ StartTick \/ Skip \/ QuoteSide
  \/ \E r \in rows : Fill(r)
  \/ Transfer \/ Second \/ Restart

Spec == Init /\ [][Next]_vars

----------------------------------------------------------------------------
SlotMap == [Slots -> Nat]

LedgerType == [next : Nat, nonce : SlotMap, input : SlotMap, left : SlotMap]

\* The type invariant: a batch is of the side at hand, and what the indexer
\* names as used was used.
TypeOK ==
  /\ maxed \subseteq 1..Sides /\ balance \in 0..MaxBalance /\ spent \subseteq Nat
  /\ rows \subseteq [slot : Slots, nonce : Nat, input : Nat, left : Nat]
  /\ ledger \in LedgerType /\ file \in LedgerType
  /\ side \in 0..Sides
  /\ step \in {"requote", "balance", "committed", "size", "signing", "answer"}
  /\ side = 0 => step = "requote"
  /\ budget \in [known : BOOLEAN, funded : Nat, committed : Nat, left : Nat]
  /\ reusable \in Nat
  /\ batch.left \in 0..Ttl /\ BatchSlots \subseteq SlotsOf(side)
  /\ answer \in {"none", "posted", "spent", "unfunded", "failed"}
  /\ named \subseteq spent /\ filled \in [Slots -> BOOLEAN]
  /\ calm \in BOOLEAN /\ shocks \in 0..MaxShocks

\* A new order supersedes its slot's old one instead of standing next to it,
\* through lost answers, failed writes and restarts: no two orders that can be
\* executed are of one slot, nor are two of them settled by one nonce.
SlotNonces ==
  \A a, b \in rows : (a.slot = b.slot <=> a.nonce = b.nonce) /\ (a.slot = b.slot => a = b)

\* A slot never takes a nonce that was used on chain or is live, whatever was
\* lost on the way.
FreshNonces ==
  [][\A slot \in Slots :
       ledger'.nonce[slot] > ledger.next =>
         /\ ledger'.nonce[slot] \notin spent
         /\ \A r \in rows : r.nonce # ledger'.nonce[slot]]_vars

\* The indexer has no reason to refuse a batch as unfunded while nothing
\* happens behind the bot's back and no order is left standing beside a
\* shorter ladder: the sides that share a token never overdraw it together.
Funded == answer = "unfunded" => ~calm

\* An order that was executed refuses one batch at most, whatever was lost on
\* the way: a nonce that was named is minted anew, and no other one is stale.
\* One that was not saved in time comes back with a restart, for that slot alone.
RefusedOnce ==
  [][answer' = "spent" /\ answer # "spent" =>
       \A slot \in BatchSlots : ledger.nonce[slot] \in spent => filled[slot]]_vars

=============================================================================

---------------------------- MODULE LiquidityFloor ---------------------------
(***************************************************************************)
(* The liquidity schedule (src/src/rfq/liquidity.rs, modules/liquidity.rs, *)
(* the shared cap and the saved change in modules/runtime.rs).             *)
(*                                                                         *)
(* The vault stakes what lies above its floor.  One loop moves the floor   *)
(* on a schedule: a send task of its own signs, saves and broadcasts each  *)
(* change and waits for it.  A lower that lands must not undercut what the *)
(* live quotes promise, so the loop caps new quotes, the engine measures   *)
(* what is promised under that cap, and only then does the lower go out;   *)
(* a restart takes an unsettled change up again from the file.             *)
(*                                                                         *)
(* Amounts are small numbers.  What the vault reads show is free: an       *)
(* operator moves the floor, fills and deposits move the rest.             *)
(***************************************************************************)
EXTENDS Integers, FiniteSets

CONSTANTS
  Free,       \* bound: all the settlement quotes can ever promise
  Targets,    \* the floors the schedule sets
  Senders,    \* the accounts the bot signs with over its restarts
  MaxNonce,   \* bound: transactions mined per account
  MaxCrashes, \* bound: restarts
  RemoveFails,\* removing the saved change may fail, or a crash come before it
  NoChange    \* no floor change

ASSUME ConstantsTyped ==
  /\ Free \in Nat /\ MaxNonce \in Nat /\ MaxCrashes \in Nat
  /\ Targets \subseteq 0..(Free - 1)
  /\ RemoveFails \in BOOLEAN

VARIABLES
  nonce,     \* nonce[s]: the next unmined nonce of account s
  pool,      \* the floor changes some node holds that can still be mined
  mined,     \* the last floor change mined
  crashes,   \* restarts so far
  live,      \* this run's schedule is on and Live
  me,        \* this run's signer
  file,      \* PENDING_FLOOR_FILE
  execution, \* Execution
  task,      \* the send task
  cap,       \* LiquidityShared.cap, NoCap for none
  raise,     \* LiquidityShared.pending_raise, 0 for none
  measured,  \* LiquidityShared.commitments
  committed, \* settlement the claims in the ledger promise
  quote,     \* settlement of the quote between its last check and its claim
  loop       \* the loop inside one tick

chain  == <<nonce, pool, mined>>
run    == <<crashes, live, me>>
shared == <<cap, raise, measured>>
engine == <<committed, quote>>
vars == <<chain, run, file, execution, task, shared, engine, loop>>

NoCap == Free        \* nothing is promised past it

Unsigned == -1

Least(a, b) == IF a < b THEN a ELSE b

\* PendingFloor, with its nonce once it is signed
Tracked ==
  [sender : Senders, nonce : Unsigned..MaxNonce, target : Targets, lowers : BOOLEAN]

Change == {c \in Tracked : c.nonce # Unsigned}

ASSUME NoneIsNoChange == NoChange \notin Tracked

\* Nothing is in flight; the next step may have to wait.
FreeSlot(retry) == [slot |-> "free", change |-> NoChange, bytes |-> FALSE, retry |-> retry]

\* Execution::resume
Resumed(saved) ==
  IF saved = NoChange
  THEN FreeSlot(FALSE)
  ELSE [slot |-> "awaiting", change |-> saved, bytes |-> TRUE, retry |-> FALSE]

NoTask == [pc |-> "idle", change |-> NoChange]

Asleep == [pc |-> "asleep", latest |-> Unsigned, got |-> FALSE, step |-> "wait", target |-> 0]

NotMeasured == [committed |-> 0, cap |-> NoCap]

\* Runtime::new: what is in force before the loop or a quote runs.
StartingCap(saved, on) ==
  IF saved # NoChange /\ saved.lowers THEN saved.target
  ELSE IF on THEN 0 ELSE NoCap

StartingRaise(saved) ==
  IF saved # NoChange /\ ~saved.lowers THEN saved.target ELSE 0

Init ==
  /\ nonce = [s \in Senders |-> 0]
  /\ pool = {}
  /\ mined = NoChange
  /\ crashes = 0
  /\ live = TRUE
  /\ me \in Senders
  /\ file = NoChange
  /\ execution = Resumed(NoChange)
  /\ task = NoTask
  /\ cap = StartingCap(NoChange, TRUE)
  /\ raise = 0
  /\ measured = NotMeasured
  /\ committed = 0
  /\ quote = 0
  /\ loop = Asleep

(***************************************************************************)
(* The chain.                                                              *)
(***************************************************************************)

\* Account s's next transaction is included; what its nonce rules out is gone.
Used(s) ==
  /\ nonce[s] < MaxNonce
  /\ nonce' = [nonce EXCEPT ![s] = @ + 1]
  /\ pool' = {c \in pool : c.sender # s \/ c.nonce > nonce[s]}

\* A floor change is mined: it moves the floor, or reverts.
Mine(c) ==
  /\ c.nonce = nonce[c.sender]
  /\ Used(c.sender)
  /\ mined' = c
  /\ UNCHANGED <<run, file, execution, task, shared, engine, loop>>

\* So is another transaction of the account: a close, or one the operator sent
\* to replace a stuck nonce.
MineOther(s) ==
  /\ Used(s)
  /\ UNCHANGED <<mined, run, file, execution, task, shared, engine, loop>>

\* A node takes the signed bytes of c.
Held(c) == IF c.nonce >= nonce[c.sender] THEN pool \cup {c} ELSE pool

(***************************************************************************)
(* The send task (spawn_send, Wallet::send_and_wait_reserving).            *)
(***************************************************************************)

notTask == <<chain, run, shared, engine, loop>>

\* Execution::settle, then forget_saved.
SettleAndForget ==
  /\ execution' = FreeSlot(TRUE)
  /\ \/ file' = NoChange
     \/ RemoveFails /\ file' = file

\* The nonce is the node's pending count: it may count one transaction in its
\* pool, or lag the chain.
Sign(n) ==
  /\ task.pc = "sign"
  /\ n <= nonce[task.change.sender] + 1
  /\ task' = [pc |-> "save", change |-> [task.change EXCEPT !.nonce = n]]
  /\ UNCHANGED <<notTask, file, execution>>

\* plan_tx or the signer refuses; or the save fails and it is not sent.
SendFails ==
  /\ task.pc \in {"sign", "save"}
  /\ task' = NoTask
  /\ SettleAndForget
  /\ UNCHANGED notTask

\* reserve: on file before the first broadcast.
Save ==
  /\ task.pc = "save"
  /\ file' = task.change
  /\ task' = [task EXCEPT !.pc = "broadcast"]
  /\ UNCHANGED <<notTask, execution>>

Accepted ==
  /\ task.pc = "broadcast"
  /\ pool' = Held(task.change)
  /\ task' = [task EXCEPT !.pc = "wait"]
  /\ UNCHANGED <<nonce, mined, run, shared, engine, loop, file, execution>>

\* SendRawFailure::Rejected: the first node that got the bytes refused them.
Rejected ==
  /\ task.pc = "broadcast"
  /\ task' = NoTask
  /\ SettleAndForget
  /\ UNCHANGED notTask

KeepAwaiting ==
  /\ execution' = [execution EXCEPT !.slot = "awaiting", !.change = task.change]
  /\ task' = NoTask
  /\ UNCHANGED <<nonce, mined, run, shared, engine, loop, file>>

\* Mutant: a lost answer is taken for a refusal.
MutAnswerLost ==
  /\ task.pc = "broadcast"
  /\ pool' \in {pool, Held(task.change)}
  /\ task' = NoTask
  /\ SettleAndForget
  /\ UNCHANGED <<nonce, mined, run, shared, engine, loop>>

\* SendRawFailure::Unknown: a node may have taken the bytes.
AnswerLost ==
  /\ task.pc = "broadcast"
  /\ pool' \in {pool, Held(task.change)}
  /\ KeepAwaiting

\* No receipt within RECEIPT_TIMEOUT, or reading it failed.
NoReceipt ==
  /\ task.pc = "wait"
  /\ KeepAwaiting
  /\ UNCHANGED pool

Receipt ==
  /\ task.pc = "wait"
  /\ mined = task.change
  /\ task' = NoTask
  /\ SettleAndForget
  /\ UNCHANGED notTask

\* A recall is tracked by nothing but the slot, however it ends.
RecallEnds ==
  /\ task.pc = "recall"
  /\ task' = NoTask
  /\ execution' = FreeSlot(TRUE)
  /\ UNCHANGED <<notTask, file>>

SendTask ==
  \/ \E n \in 0..MaxNonce : Sign(n)
  \/ SendFails \/ Save \/ Accepted \/ Rejected \/ AnswerLost \/ NoReceipt
  \/ Receipt \/ RecallEnds

(***************************************************************************)
(* The engine.                                                             *)
(***************************************************************************)

notEngine == <<chain, run, file, execution, task, cap, raise, loop>>

\* fits_liquidity_cap, after signing.
Fits(q) ==
  /\ quote = 0
  /\ committed + q <= cap
  /\ quote' = q
  /\ UNCHANGED <<notEngine, measured, committed>>

\* Reservations::reserve_order and flush: the claim is on file, the quote out.
Reserve ==
  /\ quote > 0
  /\ committed' = committed + quote
  /\ quote' = 0
  /\ UNCHANGED <<notEngine, measured>>

\* A later check withholds the signature.
Withhold ==
  /\ quote > 0
  /\ quote' = 0
  /\ UNCHANGED <<notEngine, measured, committed>>

\* publish_liquidity_commitments, from the level tick.
Measure ==
  /\ live
  /\ quote = 0
  /\ measured' = [committed |-> committed, cap |-> cap]
  /\ UNCHANGED <<notEngine, committed, quote>>

\* Claims end: deadlines pass, losers are told, fills are seen.
ClaimsEnd(left) ==
  /\ left < committed
  /\ committed' = left
  /\ UNCHANGED <<notEngine, measured, quote>>

Engine ==
  \/ \E q \in 1..Free : Fits(q)
  \/ Reserve \/ Withhold \/ Measure
  \/ \E left \in 0..Free : ClaimsEnd(left)

(***************************************************************************)
(* The loop: one tick reads, settles what an earlier send left, plans,     *)
(* publishes the cap, and may send.                                        *)
(***************************************************************************)

\* latest_nonce, asked only while a change awaits the chain, then the vault
\* views; a node may lag and either read may fail.  The tick begins a pause
\* after the last one, so a wait that settle asked for is over.
Read(latest, got) ==
  /\ loop.pc = "asleep"
  /\ latest # Unsigned =>
       execution.slot = "awaiting" /\ latest <= nonce[execution.change.sender]
  /\ loop' = [Asleep EXCEPT !.pc = "reconcile", !.latest = latest, !.got = got]
  /\ execution' = [execution EXCEPT !.retry = FALSE]
  /\ UNCHANGED <<chain, run, file, task, shared, engine>>

\* Mutant: the nonce a node reports next is taken for used.
MutOutcome(change, latest) == latest >= change.nonce

\* floor_outcome: anything but Pending.
Outcome(change, latest) == latest > change.nonce

\* Mutant: with the schedule off, nothing is settled.
MutReconcile ==
  /\ loop.pc = "reconcile"
  /\ loop' = [loop EXCEPT !.pc = "rebroadcast"]
  /\ IF /\ live /\ execution.slot = "awaiting"
        /\ loop.got /\ loop.latest # Unsigned
        /\ Outcome(execution.change, loop.latest)
     THEN SettleAndForget
     ELSE UNCHANGED <<execution, file>>
  /\ UNCHANGED <<chain, run, task, shared, engine>>

\* reconcile: only the nonce of the account that signed it settles a change.
Reconcile ==
  /\ loop.pc = "reconcile"
  /\ loop' = [loop EXCEPT !.pc = "rebroadcast"]
  /\ IF /\ execution.slot = "awaiting"
        /\ loop.got /\ loop.latest # Unsigned
        /\ Outcome(execution.change, loop.latest)
     THEN SettleAndForget
     ELSE UNCHANGED <<execution, file>>
  /\ UNCHANGED <<chain, run, task, shared, engine>>

\* rebroadcast_saved: once, live, and with the key that signed it.
Rebroadcast ==
  /\ loop.pc = "rebroadcast"
  /\ loop' = [loop EXCEPT !.pc = "plan"]
  /\ execution' = [execution EXCEPT !.bytes = @ /\ ~live]
  /\ \/ UNCHANGED pool
     \/ /\ live /\ execution.bytes
        /\ execution.slot = "awaiting" /\ execution.change.sender = me
        /\ pool' = Held(execution.change)
  /\ UNCHANGED <<nonce, mined, run, file, task, shared, engine>>

Waiting == [step |-> "wait", target |-> 0, cap |-> NoCap]

\* shortfall_cap: some liquid below the floor f, or none needed.
Shortfalls(f) == 0..(f - 1) \cup {NoCap}

\* The new floor holds what is promised, measured under a cap no higher than it.
MayLower(t, m) == m.cap <= t /\ m.committed <= t

Planned(step, target, caps) == [step : {step}, target : {target}, cap : caps]

\* plan: what the schedule may decide over all vault readings.  The tolerance
\* only moves a reading from one branch to another.
Plans(m) ==
  LET lower(t) == IF MayLower(t, m) THEN "lower" ELSE "drain"
  IN  UNION {{Waiting},
             UNION {Planned("raise", t, Shortfalls(t)) : t \in Targets \ {0}},
             UNION {Planned(lower(t), t, 0..t) : t \in Targets},
             Planned("recall", 0, 0..(Free - 1)),
             Planned("hold", 0, 0..NoCap)}

\* A change that may land keeps its cap, and so does one about to be sent.
Pinned(plan) ==
  IF execution.change # NoChange /\ execution.change.lowers THEN execution.change.target
  ELSE IF plan.step = "lower" THEN plan.target ELSE NoCap

\* publish_cap; only Live caps for the schedule itself.
PublishedCap(plan) ==
  IF Pinned(plan) # NoCap THEN Least(plan.cap, Pinned(plan))
  ELSE IF loop.got \/ ~live THEN plan.cap ELSE cap

\* Mutant: COMMITMENT_MAX_AGE_SECS outlasts TICK.
MutOutlasting(m) == m

\* A measurement from before this publication is too old at the next one:
\* COMMITMENT_MAX_AGE_SECS < TICK.
Outlasting(m) == NotMeasured

CanAct(plan) ==
  /\ live /\ loop.got
  /\ plan.step \in {"raise", "lower", "recall"}
  /\ execution.slot = "free" /\ ~execution.retry

\* The rest of tick up to its balance read.  The measurement may be too old, and
\* the Roles authority may not do.
Publish(m, plan) ==
  /\ loop.pc = "plan"
  /\ m \in {measured, NotMeasured}
  /\ plan \in IF live /\ loop.got THEN Plans(m) ELSE {Waiting}
  /\ cap' = PublishedCap(plan)
  /\ raise' = IF execution.change # NoChange /\ ~execution.change.lowers
              THEN execution.change.target ELSE 0
  /\ measured' = Outlasting(measured)
  /\ \/ /\ CanAct(plan)
        /\ loop' = [loop EXCEPT !.pc = "act", !.step = plan.step, !.target = plan.target]
     \/ loop' = Asleep
  /\ UNCHANGED <<chain, run, file, execution, task, engine>>

\* What the shortfall cap is measured against from before it is signed.
\* Mutant: from the next tick on.
MutRaising == raise

Raising == IF loop.step = "raise" THEN loop.target ELSE raise

\* spawn_send
Send ==
  /\ loop.pc = "act"
  /\ LET change == IF loop.step = "recall" THEN NoChange
                   ELSE [sender |-> me, nonce |-> Unsigned, target |-> loop.target,
                         lowers |-> loop.step = "lower"]
     IN  /\ execution' = [execution EXCEPT !.slot = "sending", !.change = change]
         /\ task' = [pc |-> IF change = NoChange THEN "recall" ELSE "sign", change |-> change]
  /\ raise' = Raising
  /\ loop' = Asleep
  /\ UNCHANGED <<chain, run, file, cap, measured, engine>>

\* The account has no gas.
NoGas ==
  /\ loop.pc = "act"
  /\ loop' = Asleep
  /\ UNCHANGED <<chain, run, file, execution, task, shared, engine>>

Loop ==
  \/ \E latest \in Unsigned..MaxNonce, got \in BOOLEAN : Read(latest, got)
  \/ Reconcile \/ Rebroadcast
  \/ \E m \in {measured, NotMeasured} : \E plan \in Plans(m) : Publish(m, plan)
  \/ Send \/ NoGas

\* The process stops and starts again, in any mode and with any of its signers.
\* What is not on disk is gone.
Restart(on, signer) ==
  /\ crashes < MaxCrashes
  /\ crashes' = crashes + 1
  /\ live' = on
  /\ me' = signer
  /\ execution' = Resumed(file)
  /\ task' = NoTask
  /\ cap' = StartingCap(file, on)
  /\ raise' = StartingRaise(file)
  /\ measured' = NotMeasured
  /\ quote' = 0
  /\ loop' = Asleep
  /\ UNCHANGED <<chain, file, committed>>

Next ==
  \/ \E c \in pool : Mine(c)
  \/ \E s \in Senders : MineOther(s)
  \/ SendTask \/ Engine \/ Loop
  \/ \E on \in BOOLEAN, signer \in Senders : Restart(on, signer)

Spec == Init /\ [][Next]_vars

\* A read that succeeds and is up to date.
GoodRead == \E latest \in Unsigned..MaxNonce :
  /\ execution.slot = "awaiting" => latest = nonce[execution.change.sender]
  /\ Read(latest, TRUE)

\* Both tasks keep being polled, every wait of theirs has a timeout, and a node
\* keeps answering, at times with the newest block.
FairSpec == Spec /\ WF_vars(SendTask) /\ WF_vars(Loop) /\ SF_vars(GoodRead)

(***************************************************************************)
(* Properties.                                                             *)
(***************************************************************************)

Amounts == 0..Free

TypeOK ==
  /\ nonce \in [Senders -> 0..MaxNonce]
  /\ pool \subseteq Change
  /\ mined \in Change \cup {NoChange}
  /\ crashes \in 0..MaxCrashes
  /\ live \in BOOLEAN /\ me \in Senders
  /\ file \in Change \cup {NoChange}
  /\ execution \in [slot : {"free", "sending", "awaiting"}, change : Tracked \cup {NoChange},
                    bytes : BOOLEAN, retry : BOOLEAN]
  /\ task \in [pc : {"idle", "sign", "save", "broadcast", "wait", "recall"},
            change : Tracked \cup {NoChange}]
  /\ cap \in Amounts /\ raise \in Amounts
  /\ measured \in [committed : Amounts, cap : Amounts]
  /\ committed \in Amounts /\ quote \in Amounts
  /\ loop \in [pc : {"asleep", "reconcile", "rebroadcast", "plan", "act"},
               latest : Unsigned..MaxNonce, got : BOOLEAN,
               step : {"wait", "raise", "lower", "recall"}, target : Amounts]

\* A lower that can still be mined never undercuts what the live quotes promise,
\* the one between its last check and its claim included.
LowersCovered ==
  \A c \in pool : c.lowers => committed + quote <= c.target

\* Two floor changes are never both out: they could land in either order.
OneFloorChange ==
  \A c, d \in pool : c = d

\* A change that can still be mined is on file, for a restart to settle.
OnFile ==
  \A c \in pool : file = c

\* While a raise can still be mined, the shortfall cap is measured against it.
RaiseKnown ==
  \A c \in pool : ~c.lowers => raise = c.target

UsedUp == file # NoChange /\ nonce[file.sender] > file.nonce

\* A change whose nonce is used is settled in the end, whatever has restarted
\* meanwhile and with which signer, and quotes are no longer held to its target.
Settles ==
  UsedUp ~> ~UsedUp

====

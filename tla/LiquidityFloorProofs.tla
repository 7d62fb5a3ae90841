------------------------- MODULE LiquidityFloorProofs ------------------------
(***************************************************************************)
(* LiquidityFloor: a lower in the pool is covered, a floor change in the   *)
(* pool is alone and on file, and the shortfall cap knows of a raise, for  *)
(* any number of accounts, amounts, nonces and restarts.                   *)
(***************************************************************************)
EXTENDS LiquidityFloor, TLAPS

Moving == execution.change # NoChange

\* Who holds the slot, and what of it is on file and in the pool.
SlotInv ==
  /\ execution.slot = "free" =>
       execution.change = NoChange /\ task = NoTask /\ file = NoChange
  /\ execution.slot = "awaiting" =>
       execution.change \in Change /\ task = NoTask /\ file = execution.change
  /\ execution.slot = "sending" => task.pc # "idle"
  /\ task.pc = "recall" => execution.change = NoChange /\ file = NoChange
  /\ task.pc \in {"sign", "save", "broadcast", "wait"} =>
       /\ Moving
       /\ task.change \in Tracked
       /\ task.change.sender = execution.change.sender
       /\ task.change.target = execution.change.target
       /\ task.change.lowers = execution.change.lowers
  /\ task.pc \in {"sign", "save"} => file = NoChange
  /\ task.pc \in {"save", "broadcast", "wait"} => task.change \in Change
  /\ task.pc \in {"broadcast", "wait"} => file = task.change
  /\ task.pc = "broadcast" => pool = {}

\* What the chain shows of the pool, and the loop of the chain.
ChainInv ==
  /\ \A c \in pool : file = c /\ c.nonce >= nonce[c.sender]
  /\ mined # NoChange => nonce[mined.sender] > mined.nonce
  /\ loop.pc = "reconcile" /\ loop.latest # Unsigned =>
       execution.slot = "awaiting" /\ loop.latest <= nonce[execution.change.sender]
  /\ loop.pc = "act" => execution.slot = "free" /\ loop.step # "wait"

\* The cap and the promises stay under a lower from before it is sent.
CoverInv ==
  /\ Moving /\ execution.change.lowers =>
       /\ cap <= execution.change.target
       /\ committed + quote <= execution.change.target
  /\ loop.pc = "act" /\ loop.step = "lower" =>
       cap <= loop.target /\ committed + quote <= loop.target
  /\ loop.pc = "act" /\ loop.step # "recall" => loop.target \in Targets
  /\ measured.cap # NoCap =>
       /\ cap = measured.cap
       /\ committed + quote <= measured.cap \/ committed + quote <= measured.committed

RaiseInv ==
  Moving /\ ~execution.change.lowers => raise = execution.change.target

\* committed + quote <= Free keeps TypeOK
Bounded == committed + quote <= Free

IInv == TypeOK /\ SlotInv /\ ChainInv /\ CoverInv /\ RaiseInv /\ Bounded

\* A change is never none.
LEMMA TrackedNotNone == \A c \in Tracked : c # NoChange
BY NoneIsNoChange

\* A signed change has a nonce from zero on.
LEMMA ChangeTyped ==
  \A c : c \in Change <=>
    c \in [sender : Senders, nonce : 0..MaxNonce, target : Targets, lowers : BOOLEAN]
BY ConstantsTyped DEF Change, Tracked, Unsigned

Slots ==
  [slot : {"free", "sending", "awaiting"}, change : Tracked \cup {NoChange},
   bytes : BOOLEAN, retry : BOOLEAN]

\* What a free slot holds.
LEMMA FreeSlotIs ==
  ASSUME NEW b \in BOOLEAN
  PROVE  /\ FreeSlot(b) \in Slots
         /\ FreeSlot(b).slot = "free" /\ FreeSlot(b).change = NoChange
BY DEF FreeSlot, Slots

\* Initially nothing is in flight and the cap is zero.
LEMMA InitInv ==
  Init => IInv
<1> SUFFICES ASSUME Init PROVE IInv
  OBVIOUS
<1>0. /\ execution \in Slots
      /\ execution.slot = "free" /\ execution.change = NoChange
  BY FreeSlotIs, Zenon DEF Init, Resumed
<1> USE ConstantsTyped DEF Init, NoTask, Asleep, NotMeasured, StartingCap, NoCap, Unsigned
<1>1. TypeOK
  <2>1. live \in BOOLEAN
    BY Zenon
  <2>2. /\ task \in [pc : {"idle", "sign", "save", "broadcast", "wait", "recall"},
                     change : Tracked \cup {NoChange}]
        /\ measured \in [committed : Amounts, cap : Amounts]
    BY DEF Amounts
  <2>3. loop \in [pc : {"asleep", "reconcile", "rebroadcast", "plan", "act"},
                  latest : Unsigned..MaxNonce, got : BOOLEAN,
                  step : {"wait", "raise", "lower", "recall"}, target : Amounts]
    BY DEF Amounts
  <2>4. cap \in Amounts /\ raise \in Amounts /\ committed \in Amounts /\ quote \in Amounts
    BY DEF Amounts
  <2>5. nonce \in [Senders -> 0..MaxNonce] /\ crashes \in 0..MaxCrashes
    OBVIOUS
  <2> QED
    BY <1>0, <2>1, <2>2, <2>3, <2>4, <2>5 DEF TypeOK, Slots
<1>2. SlotInv /\ ChainInv /\ RaiseInv
  BY <1>0 DEF SlotInv, ChainInv, RaiseInv, Moving
<1>3. CoverInv /\ Bounded
  BY <1>0 DEF CoverInv, Bounded, Moving
<1> QED
  BY <1>1, <1>2, <1>3 DEF IInv

\* A transaction is mined.
LEMMA UsedInv ==
  ASSUME IInv, NEW s \in Senders, Used(s),
         \/ mined' = mined
         \/ mined' \in pool /\ mined'.sender = s /\ mined'.nonce = nonce[s],
         UNCHANGED <<run, file, execution, task, shared, engine, loop>>
  PROVE  IInv'
<1> USE DEF run, shared, engine
<1>0. TypeOK /\ SlotInv /\ ChainInv /\ CoverInv /\ RaiseInv /\ Bounded
  BY DEF IInv
<1>n. /\ nonce \in [Senders -> 0..MaxNonce] /\ nonce' \in [Senders -> 0..MaxNonce]
      /\ \A t \in Senders : nonce'[t] = IF t = s THEN nonce[t] + 1 ELSE nonce[t]
  BY <1>0, ConstantsTyped DEF TypeOK, Used
<1>p. pool' = {c \in pool : c.sender # s \/ c.nonce > nonce[s]}
  BY DEF Used
<1>1. TypeOK'
  BY <1>0, <1>n, <1>p DEF TypeOK
<1>2. SlotInv'
  BY <1>0, <1>p DEF SlotInv, Moving
<1>3. ChainInv'
  <2>1. ASSUME NEW c \in pool' PROVE file' = c /\ c.nonce >= nonce'[c.sender]
    <3>1. c \in Change /\ file = c /\ c.nonce >= nonce[c.sender]
      BY <1>0, <1>p DEF ChainInv, TypeOK
    <3>2. c.sender \in Senders /\ c.nonce \in 0..MaxNonce
      BY <3>1, ChangeTyped
    <3> QED
      BY <1>n, <1>p, <3>1, <3>2
  <2>2. mined' # NoChange => nonce'[mined'.sender] > mined'.nonce
    <3>1. CASE mined' = mined
      BY <1>0, <1>n, <3>1, ChangeTyped DEF ChainInv, TypeOK
    <3>2. CASE mined' \in pool /\ mined'.sender = s /\ mined'.nonce = nonce[s]
      BY <1>n, <3>2
    <3> QED
      BY <3>1, <3>2
  <2>3. loop'.pc = "reconcile" /\ loop'.latest # Unsigned =>
          execution'.slot = "awaiting" /\ loop'.latest <= nonce'[execution'.change.sender]
    <3>1. SUFFICES ASSUME loop.pc = "reconcile", loop.latest # Unsigned
          PROVE  execution.slot = "awaiting" /\ loop.latest <= nonce'[execution.change.sender]
      OBVIOUS
    <3>2. /\ execution.slot = "awaiting" /\ loop.latest <= nonce[execution.change.sender]
          /\ execution.change.sender \in Senders
          /\ loop.latest \in Int
      BY <1>0, <3>1, ChangeTyped, ConstantsTyped DEF ChainInv, SlotInv, TypeOK, Unsigned
    <3> QED
      BY <1>n, <3>2
  <2> QED
    BY <1>0, <2>1, <2>2, <2>3 DEF ChainInv
<1>4. CoverInv' /\ RaiseInv' /\ Bounded'
  BY <1>0 DEF CoverInv, RaiseInv, Bounded, Moving
<1> QED
  BY <1>1, <1>2, <1>3, <1>4 DEF IInv

\* The parts of the invariant, as facts.
LEMMA Parts ==
  IInv <=> TypeOK /\ SlotInv /\ ChainInv /\ CoverInv /\ RaiseInv /\ Bounded
BY DEF IInv

\* The slot is freed once nothing can be mined any more.
LEMMA FreedInv ==
  ASSUME IInv, pool = {},
         execution' = FreeSlot(TRUE), file' = NoChange, task' = NoTask,
         \/ loop' = loop /\ loop.pc # "act" /\ (loop.pc = "reconcile" => loop.latest = Unsigned)
         \/ loop' = [loop EXCEPT !.pc = "rebroadcast"],
         UNCHANGED <<chain, run, shared, engine>>
  PROVE  IInv'
<1> USE DEF chain, run, shared, engine
<1>0. TypeOK /\ SlotInv /\ ChainInv /\ CoverInv /\ RaiseInv /\ Bounded
  BY Parts
<1>1. /\ execution' \in Slots
      /\ execution'.slot = "free" /\ execution'.change = NoChange
  BY FreeSlotIs
<1>2. /\ loop' \in [pc : {"asleep", "reconcile", "rebroadcast", "plan", "act"},
                    latest : Unsigned..MaxNonce, got : BOOLEAN,
                    step : {"wait", "raise", "lower", "recall"}, target : Amounts]
      /\ loop'.pc # "act" /\ (loop'.pc = "reconcile" => loop'.latest = Unsigned)
  BY <1>0 DEF TypeOK
<1>3. TypeOK'
  BY <1>0, <1>1, <1>2 DEF TypeOK, Slots, NoTask
<1>4. SlotInv' /\ ChainInv' /\ RaiseInv'
  BY <1>0, <1>1, <1>2 DEF SlotInv, ChainInv, RaiseInv, Moving, NoTask
<1>5. CoverInv' /\ Bounded'
  BY <1>0, <1>1, <1>2 DEF CoverInv, Bounded, Moving
<1> QED
  BY <1>3, <1>4, <1>5, Parts, Zenon DEF IInv

\* While a change is being sent, the loop is not waiting for its nonce or about
\* to send another.
LEMMA LoopElsewhere ==
  ASSUME IInv, task.pc # "idle"
  PROVE  /\ execution.slot = "sending"
         /\ loop.pc # "act"
         /\ loop.pc = "reconcile" => loop.latest = Unsigned
BY DEF IInv, TypeOK, SlotInv, ChainInv, NoTask

\* The send task settles a change that no node holds.
LEMMA SettleAndForgetInv ==
  ASSUME IInv, ~RemoveFails, task.pc # "idle", pool = {},
         task' = NoTask, SettleAndForget, UNCHANGED notTask
  PROVE  IInv'
BY FreedInv, LoopElsewhere DEF SettleAndForget, notTask, chain, run, shared, engine

\* What is not on file is not in the pool.
LEMMA NothingOnFile ==
  ASSUME IInv, file = NoChange PROVE pool = {}
BY TrackedNotNone DEF IInv, ChainInv, TypeOK, Change

\* A change that was never broadcast is given up.
LEMMA SendFailsInv ==
  ASSUME IInv, ~RemoveFails, SendFails PROVE IInv'
<1>1. pool = {}
  BY NothingOnFile DEF IInv, SendFails, SlotInv
<1> QED
  BY <1>1, SettleAndForgetInv DEF SendFails

\* A change that a node refused is given up: no other node was tried.
LEMMA RejectedInv ==
  ASSUME IInv, ~RemoveFails, Rejected PROVE IInv'
<1>1. pool = {}
  BY DEF IInv, Rejected, SlotInv
<1> QED
  BY <1>1, SettleAndForgetInv DEF Rejected

\* A mined change is settled: its nonce is used.
LEMMA ReceiptInv ==
  ASSUME IInv, ~RemoveFails, Receipt PROVE IInv'
<1>1. pool = {}
  <2>1. /\ file = task.change /\ task.change \in Change
        /\ nonce[task.change.sender] > task.change.nonce
    BY TrackedNotNone DEF IInv, Receipt, SlotInv, ChainInv, Change
  <2>2. \A c \in pool : c = task.change /\ c.nonce >= nonce[c.sender]
    BY <2>1 DEF IInv, ChainInv
  <2>3. nonce[task.change.sender] \in Int /\ task.change.nonce \in Int
    BY <2>1, ChangeTyped, ConstantsTyped DEF IInv, TypeOK
  <2> QED
    BY <2>1, <2>2, <2>3
<1> QED
  BY <1>1, SettleAndForgetInv DEF Receipt

\* A recall ends with nothing on file.
LEMMA RecallEndsInv ==
  ASSUME IInv, RecallEnds PROVE IInv'
<1>1. pool = {} /\ file' = NoChange
  BY NothingOnFile DEF IInv, RecallEnds, SlotInv
<1> QED
  BY <1>1, FreedInv, LoopElsewhere DEF RecallEnds, notTask

\* The other steps of the send task leave the loop where it is.
LEMMA SignInv ==
  ASSUME IInv, NEW n \in 0..MaxNonce, Sign(n) PROVE IInv'
<1> USE DEF notTask, chain, run, shared, engine
<1>0. TypeOK /\ SlotInv /\ ChainInv /\ CoverInv /\ RaiseInv /\ Bounded
  BY Parts
<1>1. task.pc = "sign" /\ task.change \in Tracked /\ n # Unsigned /\ n \in Unsigned..MaxNonce
  BY <1>0, ConstantsTyped DEF Sign, SlotInv, Unsigned
<1>2. /\ task'.pc = "save" /\ task'.change \in Change
      /\ task'.change.sender = task.change.sender
      /\ task'.change.target = task.change.target
      /\ task'.change.lowers = task.change.lowers
      /\ task' \in [pc : {"idle", "sign", "save", "broadcast", "wait", "recall"},
                    change : Tracked \cup {NoChange}]
  <2>1. PICK c \in Tracked : c = task.change
    BY <1>1
  <2>2. [c EXCEPT !.nonce = n] \in Tracked
    BY <1>1 DEF Tracked
  <2>3. /\ [c EXCEPT !.nonce = n].nonce = n
        /\ [c EXCEPT !.nonce = n].sender = c.sender
        /\ [c EXCEPT !.nonce = n].target = c.target
        /\ [c EXCEPT !.nonce = n].lowers = c.lowers
    BY DEF Tracked
  <2> QED
    BY <1>1, <2>1, <2>2, <2>3 DEF Sign, Change
<1>3. TypeOK'
  BY <1>0, <1>2 DEF Sign, TypeOK
<1>4. SlotInv'
  BY <1>0, <1>1, <1>2 DEF Sign, SlotInv, Moving, Change, NoTask
<1>5. ChainInv' /\ CoverInv' /\ RaiseInv' /\ Bounded'
  BY <1>0 DEF Sign, ChainInv, CoverInv, RaiseInv, Bounded, Moving
<1> QED
  BY <1>3, <1>4, <1>5 DEF IInv

\* A change is on file before any node has it.
LEMMA SaveInv ==
  ASSUME IInv, Save PROVE IInv'
<1> USE DEF notTask, chain, run, shared, engine
<1>0. TypeOK /\ SlotInv /\ ChainInv /\ CoverInv /\ RaiseInv /\ Bounded
  BY Parts
<1>1. /\ task'.pc = "broadcast" /\ task'.change = task.change /\ task.change \in Change
      /\ task' \in [pc : {"idle", "sign", "save", "broadcast", "wait", "recall"},
                    change : Tracked \cup {NoChange}]
      /\ file' = task.change
  BY <1>0 DEF Save, SlotInv, TypeOK
<1>2. pool = {} /\ pool' = {}
  BY <1>0, NothingOnFile DEF Save, SlotInv
<1>3. TypeOK'
  BY <1>0, <1>1 DEF Save, TypeOK
<1>4. SlotInv'
  BY <1>0, <1>1, <1>2 DEF Save, SlotInv, Moving, NoTask
<1>5. ChainInv' /\ CoverInv' /\ RaiseInv' /\ Bounded'
  BY <1>0, <1>2 DEF Save, ChainInv, CoverInv, RaiseInv, Bounded, Moving
<1> QED
  BY <1>3, <1>4, <1>5 DEF IInv

\* The pool with the change on file in it.
LEMMA HeldInv ==
  ASSUME IInv, NEW c \in Change, file = c
  PROVE  /\ Held(c) \subseteq Change
         /\ \A d \in Held(c) : file = d /\ d.nonce >= nonce[d.sender]
BY DEF IInv, ChainInv, TypeOK, Held

\* A node takes the change on file.
LEMMA AcceptedInv ==
  ASSUME IInv, Accepted PROVE IInv'
<1> USE DEF chain, run, shared, engine
<1>0. TypeOK /\ SlotInv /\ ChainInv /\ CoverInv /\ RaiseInv /\ Bounded
  BY Parts
<1>1. /\ task'.pc = "wait" /\ task'.change = task.change
      /\ task.change \in Change /\ file = task.change
      /\ task' \in [pc : {"idle", "sign", "save", "broadcast", "wait", "recall"},
                    change : Tracked \cup {NoChange}]
  BY <1>0 DEF Accepted, SlotInv, TypeOK
<1>2. pool' \subseteq Change /\ \A d \in pool' : file = d /\ d.nonce >= nonce[d.sender]
  BY <1>1, HeldInv DEF Accepted
<1>3. TypeOK'
  BY <1>0, <1>1, <1>2 DEF Accepted, TypeOK
<1>4. SlotInv'
  BY <1>0, <1>1 DEF Accepted, SlotInv, Moving, NoTask
<1>5. ChainInv' /\ CoverInv' /\ RaiseInv' /\ Bounded'
  BY <1>0, <1>2 DEF Accepted, ChainInv, CoverInv, RaiseInv, Bounded, Moving
<1> QED
  BY <1>3, <1>4, <1>5 DEF IInv

\* The change stays in flight, for the loop to settle.
LEMMA KeepAwaitingInv ==
  ASSUME IInv, task.pc \in {"broadcast", "wait"}, KeepAwaiting,
         pool' \in {pool, Held(task.change)}
  PROVE  IInv'
<1> USE DEF chain, run, shared, engine
<1>0. TypeOK /\ SlotInv /\ ChainInv /\ CoverInv /\ RaiseInv /\ Bounded
  BY Parts
<1>1. /\ task.change \in Change /\ file = task.change /\ Moving
      /\ task.change.target = execution.change.target
      /\ task.change.lowers = execution.change.lowers
  BY <1>0 DEF SlotInv
<1>2. /\ execution'.slot = "awaiting" /\ execution'.change = task.change
      /\ execution' \in Slots
  BY <1>0, <1>1 DEF KeepAwaiting, TypeOK, Slots, Change
<1>3. pool' \subseteq Change /\ \A d \in pool' : file = d /\ d.nonce >= nonce[d.sender]
  BY <1>0, <1>1, HeldInv DEF TypeOK, ChainInv
<1>4. TypeOK'
  BY <1>0, <1>2, <1>3 DEF KeepAwaiting, TypeOK, Slots, NoTask
<1>5. SlotInv'
  BY <1>1, <1>2 DEF KeepAwaiting, SlotInv, Moving, NoTask
<1>6. loop.pc # "act" /\ (loop.pc = "reconcile" => loop.latest = Unsigned)
  BY LoopElsewhere
<1>7. ChainInv' /\ CoverInv' /\ RaiseInv' /\ Bounded'
  BY <1>0, <1>1, <1>2, <1>3, <1>6
     DEF KeepAwaiting, ChainInv, CoverInv, RaiseInv, Bounded, Moving
<1> QED
  BY <1>4, <1>5, <1>7 DEF IInv

\* Every step of the send task keeps the invariant.
LEMMA SendTaskInv ==
  ASSUME IInv, ~RemoveFails, SendTask PROVE IInv'
<1>1. AnswerLost \/ NoReceipt => IInv'
  BY KeepAwaitingInv DEF AnswerLost, NoReceipt
<1> QED
  BY <1>1, SignInv, SendFailsInv, SaveInv, AcceptedInv, RejectedInv, ReceiptInv, RecallEndsInv
     DEF SendTask

\* A floor the schedule sets is an amount, and less than everything.
LEMMA TargetsFit ==
  /\ \A t \in Targets : t \in 0..Free /\ t < Free
  /\ \A c \in Tracked : c.target \in Targets /\ c.target \in 0..Free
<1>1. \A t \in Targets : t \in 0..Free /\ t < Free
  BY ConstantsTyped
<1>2. \A c \in Tracked : c.target \in Targets
  BY DEF Tracked
<1> QED
  BY <1>1, <1>2

\* The engine only promises more under the cap in force.
LEMMA EngineInv ==
  ASSUME IInv, Engine PROVE IInv'
<1> USE DEF notEngine, chain, run
<1>0. TypeOK /\ SlotInv /\ ChainInv /\ CoverInv /\ RaiseInv /\ Bounded
  BY Parts
<1>1. SlotInv' /\ ChainInv' /\ RaiseInv'
  BY <1>0 DEF Engine, Fits, Reserve, Withhold, Measure, ClaimsEnd,
              SlotInv, ChainInv, RaiseInv, Moving
<1>t. /\ committed \in 0..Free /\ quote \in 0..Free /\ cap \in 0..Free
      /\ measured \in [committed : Amounts, cap : Amounts]
      /\ Moving => execution.change \in Tracked /\ execution.change.target \in 0..Free
      /\ loop.target \in 0..Free
  <2>1. Moving => execution.change \in Tracked
    BY <1>0 DEF TypeOK, Moving
  <2> QED
    BY <1>0, <2>1, TargetsFit DEF TypeOK, Amounts
<1>2. CASE \E q \in 1..Free : Fits(q)
  <2>1. PICK q \in 1..Free : Fits(q)
    BY <1>2
  <2>2. TypeOK' /\ Bounded'
    BY <1>0, <1>t, <2>1, ConstantsTyped DEF Fits, TypeOK, Bounded, Amounts
  <2>3. CoverInv'
    BY <1>0, <1>t, <2>1, ConstantsTyped DEF Fits, CoverInv, Moving, Amounts
  <2> QED
    BY <1>1, <2>2, <2>3 DEF IInv
<1>3. CASE Reserve \/ Withhold
  <2>1. TypeOK' /\ Bounded'
    BY <1>0, <1>t, <1>3, ConstantsTyped DEF Reserve, Withhold, TypeOK, Bounded, Amounts
  <2>2. CoverInv'
    BY <1>0, <1>t, <1>3, ConstantsTyped DEF Reserve, Withhold, CoverInv, Moving, Amounts
  <2> QED
    BY <1>1, <2>1, <2>2 DEF IInv
<1>4. CASE Measure
  <2>1. measured'.committed = committed /\ measured'.cap = cap
    BY <1>4 DEF Measure
  <2>2. TypeOK' /\ Bounded'
    BY <1>0, <1>4 DEF Measure, TypeOK, Bounded, Amounts
  <2>3. CoverInv'
    BY <1>0, <1>t, <1>4, <2>1 DEF Measure, CoverInv, Moving
  <2> QED
    BY <1>1, <2>2, <2>3 DEF IInv
<1>5. CASE \E left \in 0..Free : ClaimsEnd(left)
  <2>1. PICK left \in 0..Free : ClaimsEnd(left)
    BY <1>5
  <2>2. TypeOK' /\ Bounded'
    BY <1>0, <1>t, <2>1, ConstantsTyped DEF ClaimsEnd, TypeOK, Bounded, Amounts
  <2>3. CoverInv'
    BY <1>0, <1>t, <2>1, ConstantsTyped DEF ClaimsEnd, CoverInv, Moving, Amounts
  <2> QED
    BY <1>1, <2>2, <2>3 DEF IInv
<1> QED
  BY <1>2, <1>3, <1>4, <1>5 DEF Engine

\* One field of the loop or of the slot at a time.
LEMMA ExceptSlot ==
  ASSUME NEW e \in Slots, NEW b \in BOOLEAN
  PROVE  /\ [e EXCEPT !.retry = b] \in Slots
         /\ [e EXCEPT !.retry = b].slot = e.slot
         /\ [e EXCEPT !.retry = b].change = e.change
         /\ [e EXCEPT !.bytes = b] \in Slots
         /\ [e EXCEPT !.bytes = b].slot = e.slot
         /\ [e EXCEPT !.bytes = b].change = e.change
BY DEF Slots

Loops ==
  [pc : {"asleep", "reconcile", "rebroadcast", "plan", "act"},
   latest : Unsigned..MaxNonce, got : BOOLEAN,
   step : {"wait", "raise", "lower", "recall"}, target : Amounts]

\* What is said of the slot does not depend on its other fields.
LEMMA SameSlotInv ==
  ASSUME IInv, execution' \in Slots,
         execution'.slot = execution.slot, execution'.change = execution.change,
         pool' \subseteq Change,
         \A c \in pool' : file = c /\ c.nonce >= nonce[c.sender],
         task.pc = "broadcast" => pool' = {},
         loop' \in Loops, loop'.pc # "act",
         loop'.pc = "reconcile" /\ loop'.latest # Unsigned =>
           execution.slot = "awaiting" /\ loop'.latest <= nonce[execution.change.sender],
         UNCHANGED <<nonce, mined, run, file, task, shared, engine>>
  PROVE  IInv'
<1> USE DEF run, shared, engine
<1>0. TypeOK /\ SlotInv /\ ChainInv /\ CoverInv /\ RaiseInv /\ Bounded
  BY Parts
<1>1. TypeOK'
  BY <1>0 DEF TypeOK, Slots, Loops
<1>2. SlotInv'
  BY <1>0 DEF SlotInv, Moving
<1>3. ChainInv' /\ CoverInv' /\ RaiseInv' /\ Bounded'
  BY <1>0 DEF ChainInv, CoverInv, RaiseInv, Bounded, Moving
<1> QED
  BY <1>1, <1>2, <1>3 DEF IInv

\* A read is of the nonce of the account that signed.
LEMMA ReadInv ==
  ASSUME IInv, NEW latest \in Unsigned..MaxNonce, NEW got \in BOOLEAN, Read(latest, got)
  PROVE  IInv'
<1>0. TypeOK /\ SlotInv /\ ChainInv
  BY Parts
<1>1. /\ execution' \in Slots
      /\ execution'.slot = execution.slot /\ execution'.change = execution.change
  <2>1. execution \in Slots
    BY <1>0 DEF TypeOK, Slots
  <2>2. ASSUME NEW b \in BOOLEAN, execution' = [execution EXCEPT !.retry = b]
        PROVE  /\ execution' \in Slots
               /\ execution'.slot = execution.slot /\ execution'.change = execution.change
    BY <2>1, <2>2, ExceptSlot
  <2>3. FALSE \in BOOLEAN /\ execution' = [execution EXCEPT !.retry = FALSE]
    BY Zenon DEF Read
  <2> QED
    BY <2>2, <2>3, Zenon
<1>2. loop' \in Loops /\ loop'.pc = "reconcile" /\ loop'.latest = latest
  <2>1. loop' = [pc |-> "reconcile", latest |-> latest, got |-> got, step |-> "wait", target |-> 0]
    BY DEF Read, Asleep
  <2>2. 0 \in Amounts
    BY ConstantsTyped DEF Amounts
  <2> QED
    BY <2>1, <2>2 DEF Loops
<1>3. latest # Unsigned =>
        execution.slot = "awaiting" /\ latest <= nonce[execution.change.sender]
  BY Zenon DEF Read
<1>4. /\ pool' \subseteq Change
      /\ \A c \in pool' : file = c /\ c.nonce >= nonce[c.sender]
      /\ task.pc = "broadcast" => pool' = {}
  BY <1>0 DEF Read, chain, TypeOK, ChainInv, SlotInv
<1>5. UNCHANGED <<nonce, mined, run, file, task, shared, engine>>
  BY DEF Read, chain
<1> QED
  BY <1>1, <1>2, <1>3, <1>4, <1>5, SameSlotInv

\* What is broadcast again is what is on file.
LEMMA RebroadcastInv ==
  ASSUME IInv, Rebroadcast PROVE IInv'
<1>0. TypeOK /\ SlotInv /\ ChainInv
  BY Parts
<1>1. /\ execution' \in Slots
      /\ execution'.slot = execution.slot /\ execution'.change = execution.change
  <2>1. execution \in Slots
    BY <1>0 DEF TypeOK, Slots
  <2>2. ASSUME NEW b \in BOOLEAN, execution' = [execution EXCEPT !.bytes = b]
        PROVE  /\ execution' \in Slots
               /\ execution'.slot = execution.slot /\ execution'.change = execution.change
    BY <2>1, <2>2, ExceptSlot
  <2>3. /\ (execution.bytes /\ ~live) \in BOOLEAN
        /\ execution' = [execution EXCEPT !.bytes = execution.bytes /\ ~live]
    BY Zenon DEF Rebroadcast
  <2> QED
    BY <2>2, <2>3, Zenon
<1>2. loop' \in Loops /\ loop'.pc = "plan"
  BY <1>0 DEF Rebroadcast, TypeOK, Loops
<1>3. /\ pool' \subseteq Change
      /\ \A c \in pool' : file = c /\ c.nonce >= nonce[c.sender]
      /\ task.pc = "broadcast" => pool' = {}
  <2>1. CASE pool' = pool
    BY <1>0, <2>1 DEF TypeOK, ChainInv, SlotInv
  <2>2. CASE execution.slot = "awaiting" /\ pool' = Held(execution.change)
    <3>1. execution.change \in Change /\ file = execution.change /\ task.pc = "idle"
      BY <1>0, <2>2 DEF SlotInv, NoTask
    <3> QED
      BY <2>2, <3>1, HeldInv
  <2> QED
    BY <2>1, <2>2 DEF Rebroadcast
<1>4. UNCHANGED <<nonce, mined, run, file, task, shared, engine>>
  BY DEF Rebroadcast
<1> QED
  BY <1>1, <1>2, <1>3, <1>4, SameSlotInv

\* The loop settles a change whose nonce is used.
LEMMA ReconcileInv ==
  ASSUME IInv, ~RemoveFails, Reconcile PROVE IInv'
<1>0. TypeOK /\ SlotInv /\ ChainInv
  BY Parts
<1>1. CASE /\ execution.slot = "awaiting" /\ loop.latest # Unsigned
           /\ Outcome(execution.change, loop.latest)
           /\ SettleAndForget
  <2>1. /\ execution.change \in Change /\ file = execution.change /\ task = NoTask
        /\ loop.latest <= nonce[execution.change.sender]
    BY <1>0, <1>1 DEF Reconcile, SlotInv, ChainInv
  <2>2. pool = {}
    <3>1. /\ nonce[execution.change.sender] \in Int /\ execution.change.nonce \in Int
          /\ loop.latest \in Int
      BY <1>0, <2>1, ChangeTyped, ConstantsTyped DEF TypeOK, Unsigned
    <3>2. execution.change.nonce < nonce[execution.change.sender]
      BY <1>1, <2>1, <3>1 DEF Outcome
    <3> QED
      BY <1>0, <2>1, <3>1, <3>2 DEF ChainInv
  <2>3. /\ execution' = FreeSlot(TRUE) /\ file' = NoChange /\ task' = NoTask
        /\ loop' = [loop EXCEPT !.pc = "rebroadcast"]
        /\ UNCHANGED <<chain, run, shared, engine>>
    BY <1>1, <2>1, Zenon DEF Reconcile, SettleAndForget
  <2> QED
    BY <2>2, <2>3, FreedInv
<1>2. CASE UNCHANGED <<execution, file>>
  <2>1. loop' \in Loops /\ loop'.pc = "rebroadcast"
    BY <1>0 DEF Reconcile, TypeOK, Loops
  <2>2. execution' \in Slots
    BY <1>0, <1>2 DEF TypeOK, Slots
  <2>3. /\ pool' \subseteq Change
        /\ \A c \in pool' : file = c /\ c.nonce >= nonce[c.sender]
        /\ task.pc = "broadcast" => pool' = {}
    BY <1>0 DEF Reconcile, chain, TypeOK, ChainInv, SlotInv
  <2>4. UNCHANGED <<nonce, mined, run, file, task, shared, engine>>
    BY <1>2 DEF Reconcile, chain
  <2> QED
    BY <1>2, <2>1, <2>2, <2>3, <2>4, SameSlotInv
<1> QED
  BY <1>1, <1>2, Zenon DEF Reconcile

\* The loop publishes a cap no higher than a lower it has or is about to send,
\* and decides on a lower only under a measurement that still bounds what is
\* promised.
LEMMA PublishInv ==
  ASSUME IInv, NEW m \in {measured, NotMeasured}, NEW plan \in Plans(m), Publish(m, plan)
  PROVE  IInv'
<1> USE DEF chain, run, engine
<1>0. TypeOK /\ SlotInv /\ ChainInv /\ CoverInv /\ RaiseInv /\ Bounded
  BY Parts
<1>t. /\ committed \in 0..Free /\ quote \in 0..Free /\ cap \in 0..Free
      /\ measured \in [committed : Amounts, cap : Amounts]
      /\ Moving => execution.change \in Tracked /\ execution.change.target \in 0..Free
  <2>1. Moving => execution.change \in Tracked
    BY <1>0 DEF TypeOK, Moving
  <2> QED
    BY <1>0, <2>1, TargetsFit DEF TypeOK, Amounts
<1>p. /\ plan.cap \in 0..Free
      /\ plan.step \in {"wait", "raise", "lower", "drain", "recall", "hold"}
      /\ plan.target \in 0..Free
      /\ plan.step \in {"raise", "lower"} => plan.target \in Targets
      /\ plan.step = "lower" => MayLower(plan.target, m)
  <2>1. CASE plan = Waiting
    BY <2>1, ConstantsTyped DEF Waiting, NoCap
  <2>2. ASSUME NEW t \in Targets, plan \in Planned("raise", t, Shortfalls(t))
        PROVE  <1>p!:
    BY <2>2, TargetsFit, ConstantsTyped DEF Planned, Shortfalls, NoCap
  <2>3. ASSUME NEW t \in Targets,
               plan \in Planned(IF MayLower(t, m) THEN "lower" ELSE "drain", t, 0..t)
        PROVE  <1>p!:
    BY <2>3, TargetsFit, ConstantsTyped DEF Planned
  <2>4. CASE plan \in Planned("recall", 0, 0..(Free - 1)) \/ plan \in Planned("hold", 0, 0..NoCap)
    BY <2>4, ConstantsTyped DEF Planned, NoCap
  <2>5. \/ plan \in {Waiting}
        \/ plan \in UNION {Planned("raise", t, Shortfalls(t)) : t \in Targets \ {0}}
        \/ plan \in UNION {Planned(IF MayLower(t, m) THEN "lower" ELSE "drain", t, 0..t) : t \in Targets}
        \/ plan \in Planned("recall", 0, 0..(Free - 1))
        \/ plan \in Planned("hold", 0, 0..NoCap)
    BY SMT DEF Plans
  <2> QED
    BY <2>1, <2>2, <2>3, <2>4, <2>5, Zenon
<1>c. cap' \in 0..Free /\ raise' \in 0..Free
  BY <1>0, <1>t, <1>p, TargetsFit, ConstantsTyped
     DEF Publish, PublishedCap, Pinned, Least, Waiting, NoCap, Moving
<1>m. measured' = NotMeasured /\ measured'.cap = NoCap /\ measured' \in [committed : Amounts, cap : Amounts]
  BY ConstantsTyped DEF Publish, Outlasting, NotMeasured, NoCap, Amounts
<1>l. \/ loop' = Asleep
      \/ /\ CanAct(plan)
         /\ loop' = [loop EXCEPT !.pc = "act", !.step = plan.step, !.target = plan.target]
  BY Zenon DEF Publish
<1>a. loop' \in Loops /\ loop'.pc # "reconcile"
      /\ (loop'.pc = "act" => CanAct(plan) /\ loop'.step = plan.step /\ loop'.target = plan.target)
  <2>1. CASE loop' = Asleep
    BY <2>1, ConstantsTyped DEF Asleep, Loops, Amounts, Unsigned
  <2>2. CASE /\ CanAct(plan)
             /\ loop' = [loop EXCEPT !.pc = "act", !.step = plan.step, !.target = plan.target]
    <3>1. loop \in Loops /\ plan.step \in {"raise", "lower", "recall"} /\ plan.target \in Amounts
      BY <1>0, <1>p, <2>2 DEF TypeOK, Loops, CanAct, Amounts
    <3> QED
      BY <2>2, <3>1 DEF Loops
  <2> QED
    BY <1>l, <2>1, <2>2
<1>1. TypeOK'
  BY <1>0, <1>c, <1>m, <1>a DEF Publish, TypeOK, Loops, Amounts
<1>2. SlotInv' /\ Bounded'
  BY <1>0 DEF Publish, SlotInv, Bounded, Moving
<1>3. ChainInv'
  BY <1>0, <1>a DEF Publish, ChainInv, CanAct
<1>4. RaiseInv'
  BY <1>0 DEF Publish, RaiseInv, Moving
<1>5. CoverInv'
  <2>1. Moving /\ execution.change.lowers => cap' <= execution.change.target
    BY <1>t, <1>p, ConstantsTyped
       DEF Publish, PublishedCap, Pinned, Least, Waiting, NoCap, Moving
  <2>2. ASSUME loop'.pc = "act", loop'.step = "lower"
        PROVE  cap' <= plan.target /\ committed + quote <= plan.target
    <3>1. execution.slot = "free" /\ plan.step = "lower" /\ ~Moving
      BY <1>0, <1>a, <2>2 DEF CanAct, SlotInv, Moving
    <3>2. plan.target \in Targets /\ plan.target < Free /\ MayLower(plan.target, m)
      BY <1>p, <3>1, TargetsFit
    <3>3. cap' <= plan.target
      BY <1>t, <1>p, <3>1, <3>2, ConstantsTyped
         DEF Publish, PublishedCap, Pinned, Least, NoCap, Moving
    <3>4. m = measured /\ measured.cap # NoCap
      BY <1>p, <3>2, ConstantsTyped DEF MayLower, NotMeasured, NoCap
    <3> QED
      BY <1>0, <1>t, <1>p, <3>2, <3>3, <3>4, ConstantsTyped DEF CoverInv, MayLower, Amounts
  <2>3. loop'.pc = "act" /\ loop'.step # "recall" => loop'.target \in Targets
    BY <1>p, <1>a DEF CanAct
  <2> QED
    BY <1>0, <1>m, <1>a, <2>1, <2>2, <2>3 DEF Publish, CoverInv, Moving
<1> QED
  BY <1>1, <1>2, <1>3, <1>4, <1>5 DEF IInv

\* A change takes the slot covered, and unknown to any node.
LEMMA SendInv ==
  ASSUME IInv, Send PROVE IInv'
<1> USE DEF chain, run, engine
<1>0. TypeOK /\ SlotInv /\ ChainInv /\ CoverInv /\ RaiseInv /\ Bounded
  BY Parts
<1>1. /\ loop.pc = "act" /\ loop.step \in {"raise", "lower", "recall"}
      /\ execution.slot = "free" /\ file = NoChange /\ pool = {}
      /\ execution \in Slots /\ me \in Senders
  BY <1>0, NothingOnFile DEF Send, ChainInv, SlotInv, TypeOK, Slots
<1> DEFINE change == IF loop.step = "recall" THEN NoChange
                     ELSE [sender |-> me, nonce |-> Unsigned, target |-> loop.target,
                           lowers |-> loop.step = "lower"]
<1>2. /\ execution' = [execution EXCEPT !.slot = "sending", !.change = change]
      /\ task' = [pc |-> IF change = NoChange THEN "recall" ELSE "sign", change |-> change]
      /\ loop' = Asleep
      /\ raise' = Raising
      /\ UNCHANGED <<chain, run, file, cap, measured, engine>>
  BY Zenon DEF Send
<1>3. CASE loop.step = "recall"
  <2>1. change = NoChange
    BY <1>3
  <2> HIDE DEF change
  <2>2. /\ execution' \in Slots /\ execution'.slot = "sending" /\ execution'.change = NoChange
        /\ task'.pc = "recall" /\ task'.change = NoChange
        /\ task' \in [pc : {"idle", "sign", "save", "broadcast", "wait", "recall"},
                      change : Tracked \cup {NoChange}]
    BY <1>1, <1>2, <2>1 DEF Slots
  <2>3. loop' \in Loops /\ loop'.pc = "asleep" /\ raise' = raise
    BY <1>2, <1>3, ConstantsTyped DEF Asleep, Loops, Amounts, Unsigned, Raising
  <2>4. TypeOK'
    BY <1>0, <1>2, <2>2, <2>3 DEF TypeOK, Slots, Loops
  <2>5. SlotInv' /\ ChainInv' /\ CoverInv' /\ RaiseInv' /\ Bounded'
    BY <1>0, <1>1, <1>2, <2>2, <2>3
       DEF SlotInv, ChainInv, CoverInv, RaiseInv, Bounded, Moving, NoTask
  <2> QED
    BY <2>4, <2>5 DEF IInv
<1>4. CASE loop.step # "recall"
  <2>0. loop.target \in Targets /\ loop.target \in Amounts
    BY <1>0, <1>1, <1>4, TargetsFit DEF CoverInv, Amounts
  <2>1. /\ change \in Tracked /\ change # NoChange /\ change.target = loop.target
        /\ change.lowers = (loop.step = "lower")
    <3>1. (loop.step = "lower") \in BOOLEAN
      OBVIOUS
    <3>2. ASSUME NEW b \in BOOLEAN
          PROVE  [sender |-> me, nonce |-> Unsigned, target |-> loop.target, lowers |-> b] \in Tracked
      BY <1>1, <2>0, ConstantsTyped DEF Tracked, Unsigned
    <3>3. change = [sender |-> me, nonce |-> Unsigned, target |-> loop.target,
                    lowers |-> loop.step = "lower"]
      BY <1>4, Zenon
    <3>4. change \in Tracked
      BY <3>1, <3>2, <3>3, Zenon
    <3> HIDE DEF change
    <3> QED
      BY <3>3, <3>4, TrackedNotNone
  <2> HIDE DEF change
  <2>2. /\ execution' \in Slots /\ execution'.slot = "sending" /\ execution'.change = change
        /\ task'.pc = "sign" /\ task'.change = change
        /\ task' \in [pc : {"idle", "sign", "save", "broadcast", "wait", "recall"},
                      change : Tracked \cup {NoChange}]
    BY <1>1, <1>2, <2>1 DEF Slots
  <2>3. loop' \in Loops /\ loop'.pc = "asleep"
    BY <1>2, ConstantsTyped DEF Asleep, Loops, Amounts, Unsigned
  <2>4. raise' \in Amounts /\ (loop.step = "raise" => raise' = loop.target)
    BY <1>0, <1>2, <2>0 DEF Raising, TypeOK
  <2>5. TypeOK'
    BY <1>0, <1>2, <2>2, <2>3, <2>4 DEF TypeOK, Slots, Loops
  <2>6. SlotInv' /\ ChainInv' /\ Bounded'
    BY <1>0, <1>1, <1>2, <2>1, <2>2, <2>3 DEF SlotInv, ChainInv, Bounded, Moving, NoTask
  <2>7. CoverInv' /\ RaiseInv'
    BY <1>0, <1>1, <1>2, <1>4, <2>1, <2>2, <2>3, <2>4 DEF CoverInv, RaiseInv, Moving
  <2> QED
    BY <2>5, <2>6, <2>7 DEF IInv
<1> QED
  BY <1>3, <1>4

\* Without gas nothing is sent.
LEMMA NoGasInv ==
  ASSUME IInv, NoGas PROVE IInv'
<1>1. loop' \in Loops /\ loop'.pc = "asleep"
  BY ConstantsTyped DEF NoGas, Asleep, Loops, Amounts, Unsigned
<1> QED
  BY <1>1, SameSlotInv
     DEF NoGas, IInv, TypeOK, ChainInv, SlotInv, Slots, chain, run, shared, engine

\* Every step of the loop keeps the invariant.
LEMMA LoopInv ==
  ASSUME IInv, ~RemoveFails, Loop PROVE IInv'
BY ReadInv, ReconcileInv, RebroadcastInv, PublishInv, SendInv, NoGasInv DEF Loop

\* A restart takes up what is on file, under its cap or measured against it.
LEMMA RestartInv ==
  ASSUME IInv, NEW on \in BOOLEAN, NEW signer \in Senders, Restart(on, signer)
  PROVE  IInv'
<1> USE DEF chain
<1>0. TypeOK /\ SlotInv /\ ChainInv /\ CoverInv /\ RaiseInv /\ Bounded
  BY Parts
<1>1. /\ execution' = Resumed(file) /\ task' = NoTask /\ loop' = Asleep
      /\ cap' = StartingCap(file, on) /\ raise' = StartingRaise(file)
      /\ measured' = NotMeasured /\ quote' = 0 /\ live' = on /\ me' = signer
      /\ crashes < MaxCrashes /\ crashes' = crashes + 1
      /\ UNCHANGED <<chain, file, committed>>
  BY Zenon DEF Restart
<1>2. /\ loop' \in Loops /\ loop'.pc = "asleep"
      /\ measured' \in [committed : Amounts, cap : Amounts] /\ measured'.cap = NoCap
      /\ task' \in [pc : {"idle", "sign", "save", "broadcast", "wait", "recall"},
                    change : Tracked \cup {NoChange}]
      /\ crashes' \in 0..MaxCrashes /\ quote' \in Amounts
  BY <1>0, <1>1, ConstantsTyped
     DEF Asleep, Loops, Amounts, Unsigned, NotMeasured, NoCap, NoTask, TypeOK
<1>3. committed \in 0..Free /\ quote \in 0..Free /\ file \in Change \cup {NoChange}
  BY <1>0 DEF TypeOK, Amounts
<1>4. CASE file = NoChange
  <2>1. /\ execution' \in Slots
        /\ execution'.slot = "free" /\ execution'.change = NoChange
    BY <1>1, <1>4, FreeSlotIs, Zenon DEF Resumed
  <2>2. pool = {}
    BY <1>4, NothingOnFile
  <2>3. cap' \in Amounts /\ raise' \in Amounts
    BY <1>1, <1>4, ConstantsTyped DEF StartingCap, StartingRaise, Amounts, NoCap
  <2>4. TypeOK'
    BY <1>0, <1>1, <1>2, <2>1, <2>3 DEF TypeOK, Slots, Loops
  <2>5. SlotInv' /\ ChainInv' /\ RaiseInv'
    BY <1>0, <1>1, <1>2, <1>4, <2>1, <2>2 DEF SlotInv, ChainInv, RaiseInv, Moving, NoTask
  <2>6. CoverInv' /\ Bounded'
    BY <1>0, <1>1, <1>2, <1>3, <2>1, ConstantsTyped DEF CoverInv, Bounded, Moving
  <2> QED
    BY <2>4, <2>5, <2>6 DEF IInv
<1>5. CASE file # NoChange
  <2>1. file \in Change /\ file \in Tracked
    BY <1>3, <1>5 DEF Change
  <2>2. /\ execution' \in Slots
        /\ execution'.slot = "awaiting" /\ execution'.change = file
    <3>1. execution' = [slot |-> "awaiting", change |-> file, bytes |-> TRUE, retry |-> FALSE]
      BY <1>1, <1>5, Zenon DEF Resumed
    <3>2. ASSUME NEW b \in BOOLEAN, NEW d \in BOOLEAN,
                 execution' = [slot |-> "awaiting", change |-> file, bytes |-> b, retry |-> d]
          PROVE  <2>2!:
      BY <2>1, <3>2 DEF Slots
    <3> QED
      BY <3>1, <3>2, Zenon
  <2>3. /\ Moving /\ execution.change.target = file.target
        /\ execution.change.lowers = file.lowers
    BY <1>0, <1>5, <2>1, TrackedNotNone DEF SlotInv, TypeOK, Moving, NoTask
  <2>4. file.target \in Amounts /\ file.lowers \in BOOLEAN
    BY <2>1, TargetsFit DEF Amounts, Tracked
  <2>5. /\ cap' \in Amounts /\ raise' \in Amounts
        /\ file.lowers => cap' = file.target
        /\ ~file.lowers => raise' = file.target
    BY <1>1, <1>5, <2>4, ConstantsTyped DEF StartingCap, StartingRaise, Amounts, NoCap
  <2>6. TypeOK'
    BY <1>0, <1>1, <1>2, <2>2, <2>5 DEF TypeOK, Slots, Loops
  <2>7. SlotInv' /\ ChainInv' /\ RaiseInv'
    BY <1>0, <1>1, <1>2, <2>1, <2>2, <2>5 DEF SlotInv, ChainInv, RaiseInv, Moving, NoTask
  <2>8. CoverInv' /\ Bounded'
    BY <1>0, <1>1, <1>2, <1>3, <2>2, <2>3, <2>4, <2>5, ConstantsTyped
       DEF CoverInv, Bounded, Moving, Amounts
  <2> QED
    BY <2>6, <2>7, <2>8 DEF IInv
<1> QED
  BY <1>4, <1>5

\* Every step keeps the invariant.
LEMMA NextInv ==
  ASSUME IInv, ~RemoveFails, [Next]_vars PROVE IInv'
<1>1. ASSUME NEW c \in pool, Mine(c) PROVE IInv'
  <2>1. c.sender \in Senders
    BY <1>1, ChangeTyped DEF IInv, TypeOK
  <2> QED
    BY <1>1, <2>1, UsedInv DEF Mine
<1>2. ASSUME NEW s \in Senders, MineOther(s) PROVE IInv'
  BY <1>2, UsedInv DEF MineOther
<1>3. CASE UNCHANGED vars
  BY <1>3 DEF vars, chain, run, shared, engine, IInv, TypeOK, SlotInv, ChainInv, CoverInv,
              RaiseInv, Bounded, Moving
<1> QED
  BY <1>1, <1>2, <1>3, SendTaskInv, EngineInv, LoopInv, RestartInv DEF Next

\* The inductive invariant holds of every run in which the saved change is
\* removed once it is settled (SavedFloorChange, forget_saved).
THEOREM Invariant ==
  ~RemoveFails => (Spec => []IInv)
<1> SUFFICES ASSUME ~RemoveFails PROVE Spec => []IInv
  OBVIOUS
<1>1. IInv /\ [Next]_vars => IInv'
  BY NextInv
<1> QED
  BY <1>1, InitInv, PTL DEF Spec

\* Every variable keeps its type: no cap, promise or target leaves the amounts.
THEOREM TypeCorrect ==
  ~RemoveFails => (Spec => []TypeOK)
<1>1. IInv => TypeOK
  BY DEF IInv
<1> QED
  BY <1>1, Invariant, PTL

\* A lower some node still holds never undercuts the quotes (publish_cap before
\* spawn_send, fits_liquidity_cap, Execution::resume).
THEOREM Covered ==
  ~RemoveFails => (Spec => []LowersCovered)
<1>1. IInv => LowersCovered
  <2> SUFFICES ASSUME IInv, NEW c \in pool, c.lowers PROVE committed + quote <= c.target
    BY DEF LowersCovered
  <2>1. Moving /\ execution.change.target = c.target /\ execution.change.lowers
    BY TrackedNotNone DEF IInv, TypeOK, SlotInv, ChainInv, Moving, Change
  <2> QED
    BY <2>1 DEF IInv, CoverInv
<1> QED
  BY <1>1, Invariant, PTL

\* At most one floor change can still be mined (the slot of Execution, freed only
\* once a change is settled).
THEOREM OneAtATime ==
  ~RemoveFails => (Spec => []OneFloorChange)
<1>1. IInv => OneFloorChange
  BY DEF IInv, ChainInv, OneFloorChange
<1> QED
  BY <1>1, Invariant, PTL

\* A change that can still be mined is on file (reserve before the broadcast).
THEOREM Saved ==
  ~RemoveFails => (Spec => []OnFile)
<1>1. IInv => OnFile
  BY DEF IInv, ChainInv, OnFile
<1> QED
  BY <1>1, Invariant, PTL

\* While a raise can still be mined, the shortfall cap is measured against it
\* (publish_raise and the pending raise of spawn_send).
THEOREM Known ==
  ~RemoveFails => (Spec => []RaiseKnown)
<1>1. IInv => RaiseKnown
  <2> SUFFICES ASSUME IInv, NEW c \in pool, ~c.lowers PROVE raise = c.target
    BY DEF RaiseKnown
  <2>1. Moving /\ execution.change.target = c.target /\ ~execution.change.lowers
    BY TrackedNotNone DEF IInv, TypeOK, SlotInv, ChainInv, Moving, Change
  <2> QED
    BY <2>1 DEF IInv, RaiseInv
<1> QED
  BY <1>1, Invariant, PTL

==============================================================================

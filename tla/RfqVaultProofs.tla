--------------------------- MODULE RfqVaultProofs ----------------------------
(***************************************************************************)
(* RfqVault's claims, proved for any number of orders, epochs and closes,  *)
(* with tasks on several threads, nodes a block behind and restarts: what  *)
(* drops the claim of an order the vault would still honour, and what is   *)
(* quoted into a close of the bot's own.                                   *)
(***************************************************************************)
EXTENDS RfqVault, TLAPS

(***************************************************************************)
(* The inductive invariant.                                                *)
(***************************************************************************)

\* A node one block behind shows the same trading epoch, or misses the close that
\* now awaits its settlement.
ChainInv ==
  /\ vault.epoch > 0
  /\ before = vault \/ before.block < vault.block
  /\ before.epoch =< vault.epoch
  /\ before.open =< vault.open
  /\ before.epoch # vault.epoch => vault.outstanding
  /\ before.open = vault.open /\ vault.outstanding => before.outstanding

\* An epoch read at a block is not newer than what any later block shows.
ReadBy(block, epoch) ==
  /\ block =< vault.block
  /\ epoch =< vault.epoch
  /\ block =< before.block => epoch =< before.epoch

\* What the loop published and what it is about to publish were read so, in order.
KnownEpochs ==
  /\ ReadBy(clock, tradingEpoch)
  /\ reading.pc = "reading" =>
       /\ ReadBy(reading.block, reading.epoch)
       /\ clock =< reading.block => tradingEpoch =< reading.epoch

\* No epoch runs ahead of the vault's, and but for a restart the ledger's not ahead
\* of the published one; an order of the vault's epoch has the ledger's and a claim.
LedgerInv ==
  /\ ledgerEpoch =< vault.epoch
  /\ ~resumed => ledgerEpoch =< tradingEpoch
  /\ engine.pc = "signing" => engine.epoch =< vault.epoch
  /\ \A n \in Nonces :
       /\ orders[n] =< vault.epoch
       /\ Executable(n) /\ n \notin unbound => orders[n] = ledgerEpoch /\ n \in claims

EpochInv == ChainInv /\ KnownEpochs /\ LedgerInv

(***************************************************************************)
(* Type correctness.                                                       *)
(***************************************************************************)

\* An unused slot is a send.
LEMMA NoSendType == NoSend \in SendStates
BY DEF NoSend, SendStates

\* The program starts with its types.
LEMMA InitTypeOK == Init => TypeOK
<1> SUFFICES ASSUME Init PROVE TypeOK
  OBVIOUS
<1>1. vault \in View /\ before \in View
  <2> SUFFICES ASSUME NEW b \in BOOLEAN
               PROVE  [block |-> 1, epoch |-> 1, open |-> 1, outstanding |-> b] \in View
    BY DEF Init
  <2> QED
    BY DEF View
<1>2. sends \in [Sends -> SendStates]
  BY NoSendType DEF Init
<1>3. engine \in EngineStates /\ reading \in LoopStates
  BY DEF Init, EngineStates, LoopStates
<1>4. policy \in BOOLEAN
  BY Zenon DEF Init
<1>5. orders \in [Nonces -> Nat] /\ closing \in [Redeems -> Nat]
  BY DEF Init
<1>6. {ledgerEpoch, tradingEpoch, clock} \subseteq Nat
  BY DEF Init
<1>7. unbound = {} /\ resumed = FALSE /\ lit \in [Redeems -> Nat] /\ misread = {}
  BY Zenon DEF Init
<1> QED
  BY <1>1, <1>2, <1>3, <1>4, <1>5, <1>6, <1>7 DEF Init, TypeOK

\* What a node answers from.
LEMMA ViewTypes == TypeOK => Views \subseteq View
BY DEF TypeOK, Views

\* A close or a settlement leaves a view of the vault.
LEMMA BlockTypes ==
  ASSUME TypeOK, NEW v \in View, Block(v)
  PROVE  vault' \in View /\ before' \in View
BY DEF TypeOK, Block, View

\* A closed vault is a vault.
LEMMA ClosedType == ASSUME NEW v \in View PROVE Closed(v) \in View
<1>1. v.epoch \in Nat /\ v.open \in Nat
  BY DEF View
<1>2. ASSUME NEW e \in Nat, NEW o \in Nat, NEW b \in BOOLEAN
      PROVE  [v EXCEPT !.epoch = e, !.open = o, !.outstanding = b] \in View
  BY DEF View
<1>3. v.epoch + 1 \in Nat /\ v.open + 1 \in Nat
  BY <1>1
<1>4. TRUE \in BOOLEAN
  OBVIOUS
<1> QED
  BY <1>2, <1>3, <1>4, Zenon DEF Closed

\* What the vault, the takers and the close transactions do keeps the types.
LEMMA WorldTypes == TypeOK /\ World => TypeOK'
<1> SUFFICES ASSUME TypeOK, World PROVE TypeOK'
  OBVIOUS
<1> USE DEF inside, notTasks, chain, ledger, ghosts
<1> vault \in View /\ vault.epoch \in Nat
  BY DEF TypeOK, View
<1>1. CASE KeeperCloses
  <2> vault' \in View /\ before' \in View
    BY <1>1, ClosedType, BlockTypes DEF KeeperCloses
  <2> QED
    BY <1>1 DEF KeeperCloses, TypeOK
<1>2. CASE Settle
  <2> vault' \in View /\ before' \in View
    <3> DEFINE v == [vault EXCEPT !.outstanding = FALSE]
    <3> v \in View
      BY DEF View
    <3> HIDE DEF v
    <3> Block(v)
      BY <1>2 DEF Settle, v
    <3> QED
      BY BlockTypes
  <2> QED
    BY <1>2 DEF Settle, TypeOK
<1>3. CASE \E n \in Nonces : Ends(n)
  BY <1>3 DEF Ends, TypeOK
<1>4. CASE \E i \in Sends : Broadcast(i)
  BY <1>4 DEF Broadcast, TypeOK, SendStates
<1>5. CASE \E i \in Sends : Mine(i)
  <2>1. PICK i \in Sends : Mine(i)
    BY <1>5
  <2>2. vault' \in View /\ before' \in View
    BY <2>1, ClosedType, BlockTypes DEF Mine, TypeOK
  <2>3. sends' \in [Sends -> SendStates]
    BY <2>1 DEF Mine, TypeOK, SendStates, View
  <2> QED
    BY <2>1, <2>2, <2>3 DEF Mine, TypeOK
<1>6. CASE \E i \in Sends : Drop(i)
  BY <1>6 DEF Drop, TypeOK, SendStates
<1> QED
  BY <1>1, <1>2, <1>3, <1>4, <1>5, <1>6 DEF World

\* What the tasks waiting for a close do keeps the types.
LEMMA CloseTaskTypes == TypeOK /\ CloseTasks => TypeOK'
<1> SUFFICES ASSUME TypeOK, NEW i \in Sends, TaskReleases(i) \/ TaskGivesUp(i)
             PROVE  TypeOK'
  BY DEF CloseTasks
<1> USE DEF notTasks, chain, ledger, ghosts
<1>1. CASE TaskReleases(i)
  <2>1. closing' \in [Redeems -> Nat]
    BY <1>1 DEF TaskReleases, Release, TypeOK
  <2>2. sends' \in [Sends -> SendStates]
    <3>1. sends[i] \in SendStates
      BY DEF TypeOK
    <3>2. ASSUME NEW tx \in {"dropped", "mined", "reverted"}
          PROVE  [sends[i] EXCEPT !.waiting = FALSE, !.tx = tx] \in SendStates
      BY <3>1 DEF SendStates
    <3>3. [sends[i] EXCEPT !.waiting = FALSE] \in SendStates
      BY <3>1 DEF SendStates
    <3> QED
      BY <1>1, <3>1, <3>2, <3>3 DEF TaskReleases, TypeOK
  <2> QED
    BY <1>1, <2>1, <2>2 DEF TaskReleases, TypeOK
<1>2. CASE TaskGivesUp(i)
  BY <1>2 DEF TaskGivesUp, TypeOK, SendStates
<1> QED
  BY <1>1, <1>2

\* What the responder does keeps the types.
LEMMA ResponderTypes == TypeOK /\ Responder => TypeOK'
<1> SUFFICES ASSUME TypeOK, Responder PROVE TypeOK'
  OBVIOUS
<1> USE DEF notLedger, chain, ledger, ghosts
<1>1. ASSUME Sync, NoteSync
      PROVE  /\ claims' \in SUBSET Nonces /\ ledgerEpoch' \in Nat
             /\ unbound' \in SUBSET Nonces /\ resumed' \in BOOLEAN
             /\ lit' \in [Redeems -> Nat] /\ misread' \in SUBSET Redeems
  <2>1. claims' \in SUBSET Nonces /\ ledgerEpoch' \in Nat
    BY <1>1 DEF Sync, TypeOK
  <2>2. unbound' \in SUBSET Nonces
    BY <1>1 DEF NoteSync, TypeOK
  <2>3. resumed' \in BOOLEAN
    BY <1>1, Zenon DEF NoteSync
  <2> QED
    BY <1>1, <2>1, <2>2, <2>3 DEF NoteSync, TypeOK
<1>2. CASE QuoteRequest
  <2> engine' \in EngineStates
    BY <1>2 DEF QuoteRequest, EngineStates
  <2> QED
    BY <1>1, <1>2 DEF QuoteRequest, TypeOK
<1>3. CASE LevelFrames
  BY <1>1, <1>3 DEF LevelFrames, TypeOK
<1>4. CASE Withhold
  <2> engine' \in EngineStates
    BY <1>4 DEF Withhold, EngineStates
  <2> QED
    BY <1>4 DEF Withhold, TypeOK
<1>5. CASE Reply
  <2>1. engine.nonce \in Nonces /\ engine.epoch \in Nat
    BY <1>5 DEF Reply, TypeOK, EngineStates, Idle
  <2>2. engine' \in EngineStates /\ unbound' \in SUBSET Nonces
    BY <1>5, <2>1 DEF Reply, EngineStates, TypeOK
  <2> QED
    BY <1>5, <2>1, <2>2 DEF Reply, TypeOK
<1>13. CASE CheckPolicy
  <2> engine' \in EngineStates
    BY <1>13 DEF CheckPolicy, EngineStates
  <2> QED
    BY <1>13 DEF CheckPolicy, TypeOK
<1>6. CASE \E n \in Nonces : MintNonce(n)
  <2> engine' \in EngineStates
    BY <1>6 DEF MintNonce, EngineStates, TypeOK
  <2> QED
    BY <1>6 DEF MintNonce, TypeOK
<1>7. CASE \E n \in Nonces : DropClaim(n)
  BY <1>7 DEF DropClaim, TypeOK
<1>8. CASE \E e \in Redeems, v \in Views : CloseRequest(e, v)
  <2>1. PICK e \in Redeems, v \in Views : CloseRequest(e, v)
    BY <1>8
  <2>2. engine' \in EngineStates
    BY <2>1 DEF CloseRequest, EngineStates, Closable
  <2>3. misread' \in SUBSET Redeems
    BY <2>1 DEF CloseRequest, TypeOK
  <2> QED
    BY <2>1, <2>2, <2>3 DEF CloseRequest, TypeOK
<1>9. CASE \E v \in Views : ReadEpoch(v)
  <2>1. PICK v \in Views : ReadEpoch(v)
    BY <1>9
  <2>2. v.epoch \in Nat
    BY ViewTypes DEF View
  <2>3. engine.epochId \in Redeems /\ engine.due \in BOOLEAN
    BY <2>1 DEF ReadEpoch, TypeOK, EngineStates, Idle
  <2>4. engine' \in EngineStates
    BY <2>1, <2>2, <2>3 DEF ReadEpoch, EngineStates
  <2> QED
    BY <2>1, <2>4 DEF ReadEpoch, TypeOK
<1>10. CASE RefuseClose
  <2>1. engine' \in EngineStates
    BY <1>10 DEF RefuseClose, EngineStates
  <2> QED
    BY <1>10, <2>1 DEF RefuseClose, Release, TypeOK
<1>11. CASE ClaimClose
  <2>1. engine.epochId \in Redeems /\ engine.epoch \in Nat
    BY <1>11 DEF ClaimClose, TypeOK, EngineStates, Idle
  <2>2. engine' \in EngineStates
    BY <1>11, <2>1 DEF ClaimClose, EngineStates
  <2>3. lit' \in [Redeems -> Nat] /\ closing' \in [Redeems -> Nat]
    BY <1>11, <2>1 DEF ClaimClose, TypeOK
  <2> QED
    BY <1>11, <2>2, <2>3 DEF ClaimClose, notClose, TypeOK
<1>12. CASE \E i \in Sends : GoDark(i)
  <2>1. PICK i \in Sends : GoDark(i)
    BY <1>12
  <2>2. engine.epochId \in Nat
    BY <2>1, ConstantsTyped DEF GoDark, TypeOK, EngineStates, Idle, Redeems
  <2>3. engine' \in EngineStates
    BY <2>1 DEF GoDark, EngineStates
  <2>4. sends' \in [Sends -> SendStates]
    BY <2>1, <2>2 DEF GoDark, NoSend, TypeOK, SendStates
  <2> QED
    BY <2>1, <2>3, <2>4 DEF GoDark, TypeOK
<1> QED
  BY <1>2, <1>3, <1>4, <1>5, <1>6, <1>7, <1>8, <1>9, <1>10, <1>11, <1>12, <1>13
     DEF Responder

\* What the balance loop does keeps the types.
LEMMA LoopTypes == TypeOK /\ BalanceLoop => TypeOK'
<1> SUFFICES ASSUME TypeOK, BalanceLoop PROVE TypeOK'
  OBVIOUS
<1> USE DEF notLoop, chain, ledger
<1>1. CASE \E v \in Views : ReadVault(v)
  <2>1. PICK v \in Views : ReadVault(v)
    BY <1>1
  <2>2. reading' \in LoopStates
    BY <2>1, ViewTypes DEF ReadVault, LoopStates, View
  <2> QED
    BY <2>1, <2>2 DEF ReadVault, TypeOK
<1>2. CASE ReadFails
  BY <1>2 DEF ReadFails, TypeOK, LoopStates
<1>3. CASE PublishEpoch
  <2>1. reading.block \in Nat /\ reading.epoch \in Nat
    BY <1>3 DEF PublishEpoch, TypeOK, LoopStates, Idle
  <2>2. reading' \in LoopStates
    BY <1>3, <2>1 DEF PublishEpoch, LoopStates
  <2> QED
    BY <1>3, <2>1, <2>2 DEF PublishEpoch, TypeOK
<1>4. CASE ReconcileCloses
  <2>1. reading' \in LoopStates
    BY <1>4 DEF ReconcileCloses, LoopStates
  <2>2. closing' \in [Redeems -> Nat]
    BY <1>4 DEF ReconcileCloses, TypeOK
  <2> QED
    BY <1>4, <2>1, <2>2 DEF ReconcileCloses, TypeOK
<1>5. CASE PublishPolicy
  <2>1. reading' \in LoopStates
    BY <1>5 DEF PublishPolicy, LoopStates
  <2>2. policy' \in BOOLEAN
    BY <1>5, Zenon DEF PublishPolicy
  <2>3. LitOver \in [Redeems -> Nat]
    BY DEF LitOver, TypeOK
  <2>4. lit' \in [Redeems -> Nat]
    BY <1>5, <2>3 DEF PublishPolicy, TypeOK
  <2> QED
    BY <1>5, <2>1, <2>2, <2>4 DEF PublishPolicy, TypeOK
<1> QED
  BY <1>1, <1>2, <1>3, <1>4, <1>5 DEF BalanceLoop

\* Every step keeps the types.
LEMMA TypeStep == TypeOK /\ [Next]_vars => TypeOK'
<1> SUFFICES ASSUME TypeOK, [Next]_vars PROVE TypeOK'
  OBVIOUS
<1>1. CASE UNCHANGED vars
  BY <1>1 DEF vars, chain, ledger, ghosts, TypeOK
<1>2. CASE Crash
  <2>1. engine' \in EngineStates /\ reading' \in LoopStates
    BY <1>2 DEF Crash, EngineStates, LoopStates
  <2>2. policy' \in BOOLEAN
    BY <1>2, Zenon DEF Crash
  <2>3. closing' \in [Redeems -> Nat] /\ lit' \in [Redeems -> Nat]
    BY <1>2 DEF Crash
  <2>5. sends' \in [Sends -> SendStates]
    <3> SUFFICES ASSUME NEW i \in Sends PROVE Left(sends[i]) \in SendStates
      BY <1>2 DEF Crash
    <3> sends[i] \in SendStates
      BY DEF TypeOK
    <3> QED
      BY DEF Left, SendStates
  <2>6. resumed' \in BOOLEAN /\ misread' \in SUBSET Redeems
    BY <1>2, Zenon DEF Crash
  <2>4. {ledgerEpoch', tradingEpoch', clock'} \subseteq Nat
    BY <1>2 DEF Crash, ledger, TypeOK
  <2> QED
    BY <1>2, <2>1, <2>2, <2>3, <2>4, <2>5, <2>6 DEF Crash, chain, ledger, TypeOK
<1>3. CASE Start
  BY <1>3 DEF Start, chain, ledger, ghosts, TypeOK
<1> QED
  BY <1>1, <1>2, <1>3, WorldTypes, CloseTaskTypes, ResponderTypes, LoopTypes DEF Next

\* The variables keep their types, whatever the constants are.
THEOREM VaultTypeCorrect == Spec => []TypeOK
<1> QED
  BY InitTypeOK, TypeStep, PTL DEF Spec

(***************************************************************************)
(* What drops the claim of an honoured order.                              *)
(***************************************************************************)

\* The blocks and epochs are numbers.
LEMMA EpochTypes ==
  TypeOK =>
    /\ vault.block \in Nat /\ vault.epoch \in Nat /\ vault.open \in Nat
    /\ before.block \in Nat /\ before.epoch \in Nat /\ before.open \in Nat
    /\ vault.outstanding \in BOOLEAN /\ before.outstanding \in BOOLEAN
    /\ ledgerEpoch \in Nat /\ tradingEpoch \in Nat /\ clock \in Nat
    /\ reading.pc = "reading" => reading.block \in Nat /\ reading.epoch \in Nat
    /\ engine.pc = "signing" => engine.nonce \in Nonces /\ engine.epoch \in Nat
    /\ \A n \in Nonces : orders[n] \in Nat
BY DEF TypeOK, View, EngineStates, LoopStates, Idle

\* The program starts with no order out and no epoch known.
LEMMA InitEpochInv == Init => EpochInv
<1> SUFFICES ASSUME Init PROVE EpochInv
  OBVIOUS
<1>1. vault.block = 1 /\ vault.epoch = 1 /\ before = vault
  BY DEF Init
<1> QED
  BY <1>1 DEF Init, EpochInv, ChainInv, KnownEpochs, ReadBy, LedgerInv, Executable, Idle

ChainStays == vault' = vault /\ before' = before

ChainCloses ==
  /\ before' = vault
  /\ vault'.block = vault.block + 1
  /\ vault'.epoch = vault.epoch + 1 /\ vault'.open = vault.open + 1
  /\ vault'.outstanding

ChainSettles ==
  /\ before' = vault
  /\ vault'.block = vault.block + 1
  /\ vault'.epoch = vault.epoch /\ vault'.open = vault.open
  /\ vault.outstanding /\ ~vault'.outstanding
  /\ reading.pc \in {"reading", "published"} => reading.epoch = vault.epoch

\* What a step of the chain does: nothing, a close or a settlement.
LEMMA ChainSteps ==
  ASSUME TypeOK, World
  PROVE  ChainStays \/ ChainCloses \/ ChainSettles
<1>1. vault \in View
  BY DEF TypeOK
<1>2. Block(Closed(vault)) => ChainCloses
  BY <1>1 DEF Block, Closed, View, ChainCloses
<1>3. Settle => ChainSettles
  BY <1>1 DEF Settle, Block, View, ChainSettles
<1>4. KeeperCloses => Block(Closed(vault))
  BY DEF KeeperCloses
<1>5. ASSUME NEW i \in Sends, Mine(i)
      PROVE  Block(Closed(vault)) \/ ChainStays
  BY <1>5 DEF Mine, ChainStays
<1>6. ASSUME \/ \E n \in Nonces : Ends(n)
             \/ \E i \in Sends : Broadcast(i) \/ Drop(i)
      PROVE  ChainStays
  BY <1>6 DEF Ends, Broadcast, Drop, ChainStays
<1> QED
  BY <1>2, <1>3, <1>4, <1>5, <1>6 DEF World

\* The vault, the takers and the close transactions leave what the bot knows further
\* behind, and orders over.
LEMMA WorldEpochs == TypeOK /\ EpochInv /\ World => EpochInv'
<1> SUFFICES ASSUME TypeOK, EpochInv, World PROVE EpochInv'
  OBVIOUS
<1>1. /\ UNCHANGED <<orders, ledgerEpoch, claims, tradingEpoch, clock, engine, reading,
                     unbound, resumed>>
      /\ over \subseteq over'
  BY DEF World, KeeperCloses, Settle, Ends, Broadcast, Mine, Drop, inside, notTasks,
         ledger, ghosts
<1>2. /\ ChainInv' /\ vault'.epoch \in Nat /\ vault'.epoch >= vault.epoch
      /\ vault'.block >= vault.block
      /\ \/ before' = before
         \/ before'.block = vault.block /\ before'.epoch = vault.epoch
  <2> USE EpochTypes DEF EpochInv, ChainInv
  <2>1. CASE ChainStays
    BY <2>1 DEF ChainStays
  <2>2. CASE ChainCloses
    BY <2>2 DEF ChainCloses
  <2>3. CASE ChainSettles
    BY <2>3 DEF ChainSettles
  <2> QED
    BY <2>1, <2>2, <2>3, ChainSteps
<1>3. vault'.epoch >= vault.epoch /\ vault'.epoch \in Nat
  BY <1>2
<1>4. ASSUME NEW b \in Nat, NEW e \in Nat, ReadBy(b, e) PROVE ReadBy(b, e)'
  <2>1. b =< vault'.block /\ e =< vault'.epoch
    <3> vault'.block \in Nat
      BY WorldTypes DEF TypeOK, View
    <3> QED
      BY <1>2, <1>4, EpochTypes DEF ReadBy
  <2>2. b =< before'.block => e =< before'.epoch
    BY <1>2, <1>4, EpochTypes DEF ReadBy
  <2> QED
    BY <2>1, <2>2 DEF ReadBy
<1>5. KnownEpochs'
  BY <1>1, <1>4, EpochTypes DEF EpochInv, KnownEpochs, ReadBy
<1>6. LedgerInv'
  <2> SUFFICES ASSUME NEW n \in Nonces, Executable(n)', n \notin unbound
               PROVE  orders[n] = ledgerEpoch /\ n \in claims
    BY <1>1, <1>3, EpochTypes DEF EpochInv, LedgerInv
  <2>1. Executable(n)
    BY <1>1, <1>3, EpochTypes DEF Executable, EpochInv, LedgerInv
  <2> QED
    BY <2>1 DEF EpochInv, LedgerInv
<1> QED
  BY <1>2, <1>5, <1>6 DEF EpochInv

\* The tasks waiting for a close touch nothing of it.
LEMMA CloseTaskEpochs == EpochInv /\ CloseTasks => EpochInv'
<1> SUFFICES ASSUME EpochInv, CloseTasks PROVE EpochInv'
  OBVIOUS
<1>1. UNCHANGED <<chain, claims, ledgerEpoch, tradingEpoch, clock, engine, reading,
                  unbound, resumed>>
  BY DEF CloseTasks, TaskReleases, TaskGivesUp, notTasks, ledger, ghosts, chain
<1> QED
  BY <1>1 DEF EpochInv, ChainInv, KnownEpochs, ReadBy, LedgerInv, Executable, chain

\* Binding the ledger to the published epoch drops claims of earlier epochs, or
\* those of a process before, which are noted.
LEMMA SyncLedger ==
  ASSUME TypeOK, EpochInv, Sync, NoteSync, UNCHANGED <<chain, tradingEpoch>>,
         engine'.pc # "signing"
  PROVE  LedgerInv'
<1> USE DEF chain, EpochInv, KnownEpochs, ReadBy, LedgerInv
<1>1. ledgerEpoch' =< vault.epoch
  BY DEF Sync, ledger
<1>2. ~resumed' => ledgerEpoch' =< tradingEpoch
  <2>1. CASE tradingEpoch \in {0, ledgerEpoch}
    <3>1. ledgerEpoch' = ledgerEpoch
      BY <2>1 DEF Sync, ledger
    <3>2. CASE tradingEpoch = ledgerEpoch
      BY <3>1, <3>2, EpochTypes
    <3>3. CASE tradingEpoch = 0
      <4>1. ~resumed' => ~resumed
        BY <3>3, Zenon DEF NoteSync
      <4> QED
        BY <3>1, <4>1
    <3> QED
      BY <2>1, <3>2, <3>3
  <2>2. CASE tradingEpoch \notin {0, ledgerEpoch}
    BY <2>2, EpochTypes DEF Sync
  <2> QED
    BY <2>1, <2>2
<1>3. ASSUME NEW n \in Nonces, Executable(n), n \notin unbound'
      PROVE  orders[n] = ledgerEpoch' /\ n \in claims'
  <2>1. orders[n] = ledgerEpoch /\ n \in claims /\ ledgerEpoch = vault.epoch
    BY <1>3 DEF NoteSync, Executable
  <2>2. CASE tradingEpoch \in {0, ledgerEpoch}
    BY <2>1, <2>2 DEF Sync, ledger
  <2>3. CASE tradingEpoch \notin {0, ledgerEpoch}
    <3>1. tradingEpoch \in 1..ledgerEpoch - 1
      BY <2>1, <2>3, EpochTypes
    <3>2. resumed
      BY <3>1, EpochTypes
    <3> QED
      BY <1>3, <2>1, <3>1, <3>2 DEF NoteSync
  <2> QED
    BY <2>2, <2>3
<1> QED
  BY <1>1, <1>2, <1>3 DEF Executable

\* The responder claims an order, under the epoch its ledger is bound to or noted.
LEMMA ResponderEpochs == TypeOK /\ EpochInv /\ Responder => EpochInv'
<1> SUFFICES ASSUME TypeOK, EpochInv, Responder PROVE EpochInv'
  OBVIOUS
<1> USE DEF notLedger, notClose, chain
<1>1. UNCHANGED <<vault, before, tradingEpoch, clock, reading>>
  BY DEF Responder, QuoteRequest, CheckPolicy, LevelFrames, Withhold, Reply, MintNonce,
         DropClaim, CloseRequest, ReadEpoch, RefuseClose, ClaimClose, GoDark
<1>2. ChainInv' /\ KnownEpochs'
  BY <1>1 DEF EpochInv, ChainInv, KnownEpochs, ReadBy
<1>3. CASE QuoteRequest \/ LevelFrames
  <2>1. engine'.pc # "signing"
    BY <1>3 DEF QuoteRequest, LevelFrames, Serving, Idle
  <2> QED
    BY <1>2, <1>3, <2>1, SyncLedger DEF QuoteRequest, LevelFrames, EpochInv
<1>4. CASE Reply
  <2>1. engine.nonce \in Nonces /\ engine.epoch \in Nat /\ engine.epoch =< vault.epoch
    BY <1>4, EpochTypes DEF Reply, EpochInv, LedgerInv
  <2>2. /\ UNCHANGED <<over, ledgerEpoch, resumed>> /\ engine'.pc # "signing"
        /\ claims' = claims \cup {engine.nonce}
        /\ orders' = [orders EXCEPT ![engine.nonce] = engine.epoch]
    BY <1>4 DEF Reply, Idle
  <2>3. ASSUME NEW n \in Nonces
        PROVE  /\ orders'[n] =< vault.epoch
               /\ Executable(n)' /\ n \notin unbound' =>
                    orders'[n] = ledgerEpoch /\ n \in claims'
    <3>1. CASE n = engine.nonce
      <4>1. orders'[n] = engine.epoch /\ n \in claims'
        BY <2>1, <2>2, <3>1 DEF TypeOK
      <4>2. n \notin unbound' => engine.epoch = ledgerEpoch
        BY <1>4, <3>1 DEF Reply
      <4> QED
        BY <2>1, <4>1, <4>2
    <3>2. CASE n # engine.nonce
      <4>1. orders'[n] = orders[n] /\ (n \notin unbound' => n \notin unbound)
        BY <1>4, <2>1, <2>2, <3>2 DEF Reply, TypeOK
      <4> QED
        BY <1>1, <2>2, <4>1 DEF EpochInv, LedgerInv, Executable
    <3> QED
      BY <3>1, <3>2
  <2>4. LedgerInv'
    BY <1>1, <2>2, <2>3 DEF EpochInv, LedgerInv
  <2> QED
    BY <1>2, <2>4 DEF EpochInv
<1>5. CASE \E n \in Nonces : MintNonce(n)
  <2>1. /\ UNCHANGED <<orders, over, claims, ledgerEpoch, unbound, resumed>>
        /\ engine'.pc = "signing" => engine'.epoch = tradingEpoch
    BY <1>5 DEF MintNonce, ledger, ghosts
  <2>2. tradingEpoch =< vault.epoch
    BY DEF EpochInv, KnownEpochs, ReadBy
  <2>3. LedgerInv'
    BY <1>1, <2>1, <2>2 DEF EpochInv, LedgerInv, Executable
  <2> QED
    BY <1>2, <2>3 DEF EpochInv
<1>6. CASE \E n \in Nonces : DropClaim(n)
  <2>1. PICK d \in Nonces : DropClaim(d)
    BY <1>6
  <2>2. /\ UNCHANGED <<orders, over, ledgerEpoch, unbound, resumed, engine>>
        /\ claims' = claims \ {d} /\ d \in over
    BY <2>1 DEF DropClaim, ghosts
  <2>3. LedgerInv'
    BY <1>1, <2>2 DEF EpochInv, LedgerInv, Executable
  <2> QED
    BY <1>2, <2>3 DEF EpochInv
<1>7. CASE \/ CheckPolicy \/ Withhold \/ RefuseClose \/ ClaimClose
           \/ \E e \in Redeems, v \in Views : CloseRequest(e, v)
           \/ \E v \in Views : ReadEpoch(v)
           \/ \E i \in Sends : GoDark(i)
  <2>1. /\ UNCHANGED <<orders, over, claims, ledgerEpoch, unbound, resumed>>
        /\ engine'.pc # "signing"
    BY <1>7 DEF CheckPolicy, Withhold, RefuseClose, ClaimClose, CloseRequest, ReadEpoch,
                GoDark, Idle, ledger, ghosts
  <2>2. LedgerInv'
    BY <1>1, <2>1 DEF EpochInv, LedgerInv, Executable
  <2> QED
    BY <1>2, <2>2 DEF EpochInv
<1> QED
  BY <1>3, <1>4, <1>5, <1>6, <1>7 DEF Responder

\* A view a node answers from was read by its own block.
LEMMA ViewsRead ==
  ASSUME TypeOK, ChainInv, NEW v \in Views
  PROVE  /\ v.block \in Nat /\ v.epoch \in Nat /\ ReadBy(v.block, v.epoch)
         /\ KnownEpochs /\ clock =< v.block => tradingEpoch =< v.epoch
<1>1. v = vault \/ v = before
  BY DEF Views
<1> QED
  BY <1>1, EpochTypes DEF ChainInv, ReadBy, KnownEpochs

\* The loop publishes epochs in the order of their blocks.
LEMMA LoopEpochs == TypeOK /\ EpochInv /\ BalanceLoop => EpochInv'
<1> SUFFICES ASSUME TypeOK, EpochInv, BalanceLoop PROVE EpochInv'
  OBVIOUS
<1> USE DEF notLoop, chain, ledger
<1>1. UNCHANGED <<vault, before, orders, over, claims, ledgerEpoch, engine, unbound,
                  resumed>>
  BY DEF BalanceLoop, ReadVault, ReadFails, PublishEpoch, ReconcileCloses, PublishPolicy
<1>2. ChainInv'
  BY <1>1 DEF EpochInv, ChainInv
<1>3. tradingEpoch' >= tradingEpoch /\ KnownEpochs'
  <2>1. CASE \E v \in Views : ReadVault(v)
    <3>1. PICK v \in Views : ReadVault(v)
      BY <2>1
    <3>2. /\ reading'.block = v.block /\ reading'.epoch = v.epoch
          /\ UNCHANGED <<clock, tradingEpoch>>
      BY <3>1 DEF ReadVault
    <3> QED
      BY <1>1, <3>2, ViewsRead, EpochTypes DEF EpochInv, KnownEpochs, ReadBy
  <2>2. CASE PublishEpoch
    <3>1. reading'.pc # "reading"
      BY <2>2 DEF PublishEpoch, Idle
    <3> QED
      BY <1>1, <2>2, <3>1, EpochTypes DEF PublishEpoch, EpochInv, KnownEpochs, ReadBy
  <2>3. CASE ReadFails \/ ReconcileCloses \/ PublishPolicy
    <3>1. reading'.pc # "reading" /\ UNCHANGED <<clock, tradingEpoch>>
      BY <2>3 DEF ReadFails, ReconcileCloses, PublishPolicy, Idle
    <3> QED
      BY <1>1, <3>1, EpochTypes DEF EpochInv, KnownEpochs, ReadBy
  <2> QED
    BY <2>1, <2>2, <2>3 DEF BalanceLoop
<1>4. tradingEpoch' \in Nat
  BY LoopTypes DEF TypeOK
<1>5. LedgerInv'
  BY <1>1, <1>3, <1>4, EpochTypes DEF EpochInv, LedgerInv, Executable
<1> QED
  BY <1>2, <1>3, <1>5 DEF EpochInv

\* Every step keeps it.
LEMMA EpochStep == TypeOK /\ EpochInv /\ [Next]_vars => EpochInv'
<1> SUFFICES ASSUME TypeOK, EpochInv, [Next]_vars PROVE EpochInv'
  OBVIOUS
<1> USE DEF chain, ledger, ghosts
<1>1. CASE UNCHANGED vars
  BY <1>1 DEF vars, EpochInv, ChainInv, KnownEpochs, ReadBy, LedgerInv, Executable
<1>2. CASE Crash
  <2>1. /\ UNCHANGED <<vault, before, orders, over, claims, ledgerEpoch, unbound>>
        /\ clock' = 0 /\ tradingEpoch' = 0 /\ resumed' = TRUE
        /\ engine'.pc = "idle" /\ reading'.pc = "idle"
    BY <1>2 DEF Crash, Idle
  <2> QED
    BY <2>1, EpochTypes DEF EpochInv, ChainInv, KnownEpochs, ReadBy, LedgerInv, Executable
<1>3. CASE Start
  BY <1>3 DEF Start, EpochInv, ChainInv, KnownEpochs, ReadBy, LedgerInv, Executable
<1> QED
  BY <1>1, <1>2, <1>3, WorldEpochs, CloseTaskEpochs, ResponderEpochs, LoopEpochs
     DEF Next

\* The types and the epochs hold throughout.
LEMMA EpochInvariance == Spec => [](TypeOK /\ EpochInv)
<1>1. Init => TypeOK /\ EpochInv
  BY InitTypeOK, InitEpochInv
<1>2. TypeOK /\ EpochInv /\ [Next]_vars => (TypeOK /\ EpochInv)'
  BY TypeStep, EpochStep
<1> QED
  BY <1>1, <1>2, PTL DEF Spec

\* Every order the vault would still honour stays claimed, through any number of
\* closes, refreshes by nodes a block behind, requests midway and restarts, but for
\* those whose nonce took a newer epoch than their ledger's and those whose ledger a
\* restarted process bound to an older one.
THEOREM VaultOrdersClaimed == Spec => []OrdersClaimed
<1>1. EpochInv => OrdersClaimed
  BY DEF EpochInv, LedgerInv, OrdersClaimed
<1> QED
  BY <1>1, EpochInvariance, PTL

(***************************************************************************)
(* What is quoted while a close is claimed.                                *)
(***************************************************************************)

\* A claim made after the loop looked for one has seen no refresh since.
LookedBefore ==
  reading.pc = "reconciled" /\ ~reading.dark =>
    \A e \in Redeems : closing[e] # 0 => lit[e] = 0

DarkInv == LookedBefore /\ DarkWhileClosing

\* The program starts without a claim.
LEMMA InitDark == Init => DarkInv
BY DEF Init, DarkInv, LookedBefore, DarkWhileClosing, Idle

\* The chain touches neither the claims nor the policy.
LEMMA WorldDark == DarkInv /\ World => DarkInv'
<1> SUFFICES ASSUME DarkInv, World PROVE DarkInv'
  OBVIOUS
<1>1. UNCHANGED <<closing, policy, engine, reading, lit>>
  BY DEF World, KeeperCloses, Settle, Ends, Broadcast, Mine, Drop, inside, notTasks, ghosts
<1> QED
  BY <1>1 DEF DarkInv, LookedBefore, DarkWhileClosing

\* A task waiting for its close only lets claims go.
LEMMA CloseTaskDark == TypeOK /\ DarkInv /\ CloseTasks => DarkInv'
<1> SUFFICES ASSUME TypeOK, DarkInv, CloseTasks PROVE DarkInv'
  OBVIOUS
<1>1. UNCHANGED <<policy, engine, reading, lit>>
  BY DEF CloseTasks, TaskReleases, TaskGivesUp, notTasks, ghosts
<1>2. \A e \in Redeems : closing'[e] # 0 => closing[e] # 0
  BY DEF CloseTasks, TaskReleases, TaskGivesUp, Release, TypeOK
<1> QED
  BY <1>1, <1>2 DEF DarkInv, LookedBefore, DarkWhileClosing

\* The responder darkens the policy right after it claims a close.
LEMMA ResponderDark == TypeOK /\ DarkInv /\ Responder => DarkInv'
<1> SUFFICES ASSUME TypeOK, DarkInv, Responder PROVE DarkInv'
  OBVIOUS
<1> USE DEF notLedger, notClose, DarkInv, LookedBefore, DarkWhileClosing
<1>1. CASE \/ QuoteRequest \/ LevelFrames \/ CheckPolicy \/ Withhold \/ Reply
           \/ \E n \in Nonces : MintNonce(n) \/ DropClaim(n)
           \/ \E e \in Redeems, v \in Views : CloseRequest(e, v)
           \/ \E v \in Views : ReadEpoch(v)
  <2>1. UNCHANGED <<closing, policy, reading, lit>> /\ engine.pc # "claimed"
    BY <1>1 DEF QuoteRequest, LevelFrames, NoteSync, CheckPolicy, Withhold, Reply,
                MintNonce, DropClaim, CloseRequest, Serving, ReadEpoch, Idle, ghosts
  <2> QED
    BY <2>1
<1>2. CASE RefuseClose
  <2>1. UNCHANGED <<policy, reading, lit>> /\ engine.pc # "claimed"
    BY <1>2 DEF RefuseClose, ghosts
  <2>2. \A e \in Redeems : closing'[e] # 0 => closing[e] # 0
    BY <1>2 DEF RefuseClose, Release, TypeOK
  <2> QED
    BY <2>1, <2>2
<1>3. CASE ClaimClose
  <2> DEFINE c == engine.epochId
  <2>1. /\ UNCHANGED <<policy, reading>> /\ engine.pc = "closing" /\ c \in Redeems
        /\ closing' = [closing EXCEPT ![c] = engine.epoch]
    BY <1>3 DEF ClaimClose, TypeOK, EngineStates, Idle
  <2>2. CASE closing[c] # 0
    <3>1. lit' = lit /\ \A e \in Redeems : closing'[e] # 0 => closing[e] # 0
      BY <1>3, <2>1, <2>2 DEF ClaimClose, TypeOK
    <3> QED
      BY <2>1, <3>1
  <2>3. CASE closing[c] = 0
    <3>1. lit' = [lit EXCEPT ![c] = 0] /\ engine' = [pc |-> "claimed", epochId |-> c]
      BY <1>3, <2>3 DEF ClaimClose
    <3>2. lit'[c] = 0
      BY <2>1, <3>1 DEF TypeOK
    <3>3. ASSUME NEW e \in Redeems, e # c PROVE lit'[e] = lit[e] /\ closing'[e] = closing[e]
      BY <2>1, <3>1, <3>3 DEF TypeOK
    <3>4. LookedBefore'
      BY <2>1, <3>2, <3>3
    <3>5. DarkWhileClosing'
      BY <2>1, <3>1, <3>2, <3>3
    <3> QED
      BY <3>4, <3>5
  <2> QED
    BY <2>2, <2>3
<1>4. CASE \E i \in Sends : GoDark(i)
  BY <1>4 DEF GoDark, Idle, ghosts
<1> QED
  BY <1>1, <1>2, <1>3, <1>4 DEF Responder

\* One look at the claims puts the policy in at most once.
LEMMA LoopDark == TypeOK /\ DarkInv /\ BalanceLoop => DarkInv'
<1> SUFFICES ASSUME TypeOK, DarkInv, BalanceLoop PROVE DarkInv'
  OBVIOUS
<1> USE DEF notLoop, DarkInv, LookedBefore, DarkWhileClosing
<1>1. CASE (\E v \in Views : ReadVault(v)) \/ ReadFails \/ PublishEpoch
  <2>1. UNCHANGED <<closing, policy, engine, lit>> /\ reading'.pc # "reconciled"
    BY <1>1 DEF ReadVault, ReadFails, PublishEpoch, Idle
  <2> QED
    BY <2>1
<1>2. CASE ReconcileCloses
  <2>1. \A e \in Redeems : closing'[e] # 0 => closing[e] # 0
    BY <1>2 DEF ReconcileCloses
  <2>2. UNCHANGED <<policy, engine, lit>>
    BY <1>2 DEF ReconcileCloses
  <2>3. ~reading'.dark => \A e \in Redeems : closing'[e] = 0
    BY <1>2 DEF ReconcileCloses
  <2> QED
    BY <2>1, <2>2, <2>3
<1>3. CASE PublishPolicy
  <2>1. UNCHANGED <<closing, engine>> /\ reading'.pc # "reconciled" /\ reading.pc = "reconciled"
    BY <1>3 DEF PublishPolicy, Idle
  <2>2. CASE reading.dark
    <3>1. ~policy' /\ lit' = lit
      BY <1>3, <2>2 DEF PublishPolicy
    <3> QED
      BY <2>1, <3>1
  <2>3. CASE ~reading.dark
    <3>1. lit' = LitOver
      BY <1>3, <2>3 DEF PublishPolicy
    <3>2. ASSUME NEW e \in Redeems, closing[e] # 0 PROVE lit'[e] = 1
      BY <2>1, <2>3, <3>1, <3>2 DEF LitOver
    <3> QED
      BY <2>1, <3>2
  <2> QED
    BY <2>2, <2>3
<1> QED
  BY <1>1, <1>2, <1>3 DEF BalanceLoop

\* Every step keeps it.
LEMMA DarkStep == TypeOK /\ DarkInv /\ [Next]_vars => DarkInv'
<1> SUFFICES ASSUME TypeOK, DarkInv, [Next]_vars PROVE DarkInv'
  OBVIOUS
<1> USE DEF ghosts
<1>1. CASE UNCHANGED vars
  BY <1>1 DEF vars, DarkInv, LookedBefore, DarkWhileClosing
<1>2. CASE Crash
  BY <1>2 DEF Crash, DarkInv, LookedBefore, DarkWhileClosing, Idle
<1>3. CASE Start
  BY <1>3 DEF Start, DarkInv, LookedBefore, DarkWhileClosing
<1> QED
  BY <1>1, <1>2, <1>3, WorldDark, CloseTaskDark, ResponderDark, LoopDark DEF Next

\* While a close is claimed the policy is put in at most once, by the refresh that
\* looked at the claims before this one was there: the loop, the responder and the
\* closes' own tasks cannot bring it back otherwise, on however many threads.
THEOREM StaysDark == Spec => []DarkWhileClosing
<1>1. Init => TypeOK /\ DarkInv
  BY InitTypeOK, InitDark
<1>2. TypeOK /\ DarkInv /\ [Next]_vars => (TypeOK /\ DarkInv)'
  BY TypeStep, DarkStep
<1>3. DarkInv => DarkWhileClosing
  BY DEF DarkInv
<1> QED
  BY <1>1, <1>2, <1>3, PTL DEF Spec

(***************************************************************************)
(* The bot's own closes.                                                   *)
(***************************************************************************)

\* It can be closed, or was: a redeem epoch that can no longer be closed does
\* not come back.
OnceDue(e) == e < vault.open \/ Closable(vault, e)

\* A close is sent for an epoch that was due, and one with a receipt ended it or
\* came too late; its own process is the one that waits for it.
SendsDue ==
  \A i \in Sends :
    /\ sends[i].tx # "none" => sends[i].epochId \in Redeems /\ OnceDue(sends[i].epochId)
    /\ sends[i].tx \in {"mined", "reverted"} => sends[i].epochId < vault.open
    /\ sends[i].waiting => ~sends[i].earlier

\* While it can land it is claimed, under the epoch it would end.
LandsClaimed == \A i \in Sends : KnownClose(i) => closing[sends[i].epochId] = vault.epoch

NoneFor(e) == \A i \in Sends : KnownClose(i) => sends[i].epochId # e

\* A request that found its epoch due claims it under the epoch the vault has then;
\* one that did not, or that has just claimed it, has no close on its way.
RequestDue ==
  /\ engine.pc \in {"checking", "closing"} =>
       IF engine.due THEN OnceDue(engine.epochId) ELSE NoneFor(engine.epochId)
  /\ engine.pc = "closing" /\ engine.due /\ Closable(vault, engine.epochId) =>
       engine.epoch = vault.epoch
  /\ engine.pc = "claimed" =>
       /\ OnceDue(engine.epochId) /\ NoneFor(engine.epochId)
       /\ Closable(vault, engine.epochId) /\ engine.epochId \notin misread =>
            closing[engine.epochId] = vault.epoch

\* No reading spans a close and its settlement, so the loop lets go of a claim only
\* once its close cannot land.
ReadingSpans ==
  reading.pc \in {"reading", "published"} =>
    reading.epoch = vault.epoch \/ vault.outstanding

\* What was checked before a close of the bot's own is signed under the refresh that
\* did not see its claim.
CheckedInClose ==
  engine.pc \in {"checked", "signing"} =>
    \A i \in Sends : KnownClose(i) => lit[sends[i].epochId] = 1

CloseInv ==
  SendsDue /\ LandsClaimed /\ RequestDue /\ ReadingSpans /\ OneClose /\ CheckedInClose

IInv == TypeOK /\ EpochInv /\ DarkInv /\ CloseInv

\* The redeem epoch of a close that was sent, and of one asked for.
LEMMA CloseTypes ==
  TypeOK => /\ Redeems \subseteq Nat
            /\ \A i \in Sends : sends[i] \in SendStates /\ sends[i].epochId \in Nat
            /\ engine.pc \in {"checking", "closing", "claimed"} => engine.epochId \in Redeems
            /\ engine.pc \in {"checking", "closing"} => engine.due \in BOOLEAN
            /\ engine.pc = "closing" => engine.epoch \in Nat
BY ConstantsTyped DEF TypeOK, SendStates, EngineStates, Idle, Redeems

\* The program starts with nothing sent.
LEMMA InitCloses == Init => CloseInv
BY DEF Init, CloseInv, SendsDue, LandsClaimed, RequestDue, ReadingSpans, OneClose,
       CheckedInClose, KnownClose, CanLand, NoSend, Idle

\* What can no longer be closed stays so, and what still can was not touched.
LEMMA OnceDueSteps ==
  ASSUME TypeOK, World
  PROVE  /\ vault'.open >= vault.open
         /\ \A e \in Nat : OnceDue(e) =>
              /\ OnceDue(e)'
              /\ Closable(vault', e) => Closable(vault, e) /\ vault'.epoch = vault.epoch
<1> USE EpochTypes DEF OnceDue, Closable
<1>1. CASE ChainStays
  BY <1>1 DEF ChainStays
<1>2. CASE ChainCloses
  BY <1>2 DEF ChainCloses
<1>3. CASE ChainSettles
  BY <1>3 DEF ChainSettles
<1> QED
  BY <1>1, <1>2, <1>3, ChainSteps

\* A close transaction only gets nearer to its end, and one with a receipt ended its
\* redeem epoch or found it ended.
LEMMA SendSteps ==
  ASSUME TypeOK, SendsDue, World, NEW i \in Sends
  PROVE  /\ sends'[i].epochId = sends[i].epochId /\ sends'[i].earlier = sends[i].earlier
         /\ sends'[i].waiting = sends[i].waiting
         /\ sends'[i].tx # "none" => sends[i].tx # "none"
         /\ sends'[i].tx \in {"unsent", "pending"} => sends[i].tx \in {"unsent", "pending"}
         /\ sends'[i].tx \in {"mined", "reverted"} => sends[i].epochId < vault'.open
<1> sends[i] \in SendStates /\ vault.open \in Nat /\ sends[i].epochId \in Nat
  BY CloseTypes, EpochTypes
<1> vault'.open >= vault.open /\ vault'.open \in Nat
  BY OnceDueSteps, WorldTypes DEF TypeOK, View
<1>1. CASE sends' = sends
  BY <1>1 DEF SendsDue
<1>2. CASE \E j \in Sends : Broadcast(j) \/ Drop(j)
  BY <1>2 DEF Broadcast, Drop, SendsDue, TypeOK, SendStates
<1>3. ASSUME NEW j \in Sends, Mine(j) PROVE sends[j].epochId < vault'.open
  <2>1. OnceDue(sends[j].epochId)
    BY <1>3 DEF Mine, SendsDue
  <2>2. CASE ~Closable(vault, sends[j].epochId)
    BY <2>1, <2>2, CloseTypes DEF OnceDue
  <2>3. CASE Closable(vault, sends[j].epochId)
    <3>1. vault'.open = vault.open + 1
      BY <1>3, <2>3 DEF Mine, Block, Closed, TypeOK, View
    <3> QED
      BY <2>3, <3>1 DEF Closable
  <2> QED
    BY <2>2, <2>3
<1>4. CASE \E j \in Sends : Mine(j)
  BY <1>3, <1>4 DEF Mine, SendsDue, TypeOK, SendStates
<1> QED
  BY <1>1, <1>2, <1>4 DEF World, KeeperCloses, Settle, Ends, inside

\* So none comes back that could not land, and while one can the epoch it would
\* end is the same.
LEMMA WorldKnown ==
  ASSUME TypeOK, SendsDue, World, NEW i \in Sends, KnownClose(i)'
  PROVE  KnownClose(i) /\ vault'.epoch = vault.epoch
<1>1. /\ sends'[i].epochId = sends[i].epochId /\ ~sends[i].earlier
      /\ sends[i].tx \in {"unsent", "pending"}
  BY SendSteps DEF KnownClose, CanLand
<1>2. OnceDue(sends[i].epochId) /\ Closable(vault', sends[i].epochId)
  BY <1>1 DEF SendsDue, KnownClose, CanLand
<1>3. Closable(vault, sends[i].epochId) /\ vault'.epoch = vault.epoch
  BY <1>2, OnceDueSteps, CloseTypes
<1>4. sends[i].epochId \notin misread
  BY <1>1 DEF KnownClose, World, KeeperCloses, Settle, Ends, Broadcast, Mine, Drop,
              inside, notTasks, ghosts
<1> QED
  BY <1>1, <1>3, <1>4 DEF KnownClose, CanLand

\* The chain ends closes, and no claim of one that can land with it.
LEMMA WorldCloses == TypeOK /\ CloseInv /\ World => CloseInv'
<1> SUFFICES ASSUME TypeOK, CloseInv, World PROVE CloseInv'
  OBVIOUS
<1> USE DEF CloseInv
<1>1. UNCHANGED <<closing, engine, reading, lit, misread>>
  BY DEF World, KeeperCloses, Settle, Ends, Broadcast, Mine, Drop, inside, notTasks, ghosts
<1>2. SendsDue'
  <2> SUFFICES ASSUME NEW i \in Sends
               PROVE  /\ sends'[i].tx # "none" =>
                           sends'[i].epochId \in Redeems /\ OnceDue(sends[i].epochId)'
                      /\ sends'[i].tx \in {"mined", "reverted"} =>
                           sends'[i].epochId < vault'.open
                      /\ sends'[i].waiting => ~sends'[i].earlier
    BY DEF SendsDue
  <2>1. OnceDue(sends[i].epochId) => OnceDue(sends[i].epochId)'
    <3>1. sends[i].epochId \in Nat /\ sends'[i].epochId = sends[i].epochId
      BY SendSteps, CloseTypes
    <3> QED
      BY <3>1, OnceDueSteps DEF OnceDue
  <2> QED
    BY <2>1, SendSteps DEF SendsDue
<1>3. LandsClaimed'
  BY <1>1, WorldKnown, SendSteps DEF LandsClaimed
<1>4. ASSUME NEW e, NoneFor(e) PROVE \A i \in Sends : KnownClose(i)' => sends'[i].epochId # e
  BY <1>4, WorldKnown, SendSteps DEF NoneFor
<1>5. RequestDue'
  <2>1. CASE engine.pc \in {"checking", "closing", "claimed"}
    <3> DEFINE e == engine.epochId
    <3>1. e \in Nat /\ engine'.epochId = e
      BY <1>1, <2>1, CloseTypes
    <3>2. OnceDue(e) => /\ OnceDue(e)'
                        /\ Closable(vault', e) => Closable(vault, e) /\ vault'.epoch = vault.epoch
      BY <3>1, OnceDueSteps DEF OnceDue
    <3>3. NoneFor(e) => NoneFor(engine.epochId)'
      BY <1>4, <3>1 DEF NoneFor
    <3>4. OnceDue(e)' <=> OnceDue(engine.epochId)'
      BY <1>1 DEF OnceDue
    <3> HIDE DEF e
    <3> QED
      BY <1>1, <3>1, <3>2, <3>3, <3>4 DEF RequestDue, e
  <2> QED
    BY <1>1, <2>1 DEF RequestDue
<1>6. ReadingSpans'
  <2>1. CASE ChainStays
    BY <1>1, <2>1 DEF ReadingSpans, ChainStays
  <2>2. CASE ChainCloses
    BY <2>2 DEF ReadingSpans, ChainCloses
  <2>3. CASE ChainSettles
    BY <1>1, <2>3 DEF ReadingSpans, ChainSettles
  <2> QED
    BY <2>1, <2>2, <2>3, ChainSteps
<1>7. OneClose' /\ CheckedInClose'
  BY <1>1, WorldKnown, SendSteps DEF OneClose, CheckedInClose
<1> QED
  BY <1>2, <1>3, <1>5, <1>6, <1>7

\* A close's own task lets go of the claim once its close cannot land.
LEMMA CloseTaskCloses == TypeOK /\ CloseInv /\ CloseTasks => CloseInv'
<1> SUFFICES ASSUME TypeOK, CloseInv, NEW i \in Sends, TaskReleases(i) \/ TaskGivesUp(i)
             PROVE  CloseInv'
  BY DEF CloseTasks
<1> USE DEF CloseInv
<1>1. UNCHANGED <<vault, engine, reading, lit, misread>>
  BY DEF TaskReleases, TaskGivesUp, notTasks, ghosts
<1>2. ASSUME NEW j \in Sends
      PROVE  /\ sends'[j].epochId = sends[j].epochId /\ sends'[j].earlier = sends[j].earlier
             /\ \/ sends'[j].tx = sends[j].tx
                \/ sends'[j].tx = "dropped" /\ sends[j].tx = "unsent"
             /\ sends'[j].waiting => sends[j].waiting
  BY DEF TaskReleases, TaskGivesUp, TypeOK, SendStates
<1>3. \A j \in Sends : KnownClose(j)' => KnownClose(j)
  BY <1>1, <1>2 DEF KnownClose, CanLand
<1>4. ASSUME NEW j \in Sends, KnownClose(j)', TaskReleases(i)
      PROVE  sends[j].epochId # sends[i].epochId
  <2>1. CASE sends[i].tx = "unsent"
    <3>1. sends'[i].tx = "dropped"
      BY <1>4, <2>1 DEF TaskReleases, TypeOK, SendStates
    <3>2. j # i /\ KnownClose(j)
      BY <1>3, <1>4, <3>1 DEF KnownClose, CanLand
    <3>3. ~sends[i].earlier
      BY <1>4 DEF TaskReleases, SendsDue
    <3> QED
      BY <2>1, <3>2, <3>3 DEF OneClose, KnownClose, CanLand
  <2>2. CASE sends[i].tx \in {"mined", "reverted"}
    BY <1>3, <1>4, <2>2, CloseTypes, EpochTypes DEF SendsDue, KnownClose, CanLand, Closable
  <2> QED
    BY <1>4, <2>1, <2>2 DEF TaskReleases
<1>5. SendsDue'
  BY <1>1, <1>2 DEF SendsDue, OnceDue
<1>6. LandsClaimed'
  <2> SUFFICES ASSUME NEW j \in Sends, KnownClose(j)'
               PROVE  closing'[sends'[j].epochId] = vault'.epoch
    BY DEF LandsClaimed
  <2>1. closing[sends[j].epochId] = vault.epoch /\ sends[j].epochId \in Redeems
    BY <1>3 DEF LandsClaimed, SendsDue, KnownClose, CanLand
  <2>2. CASE TaskReleases(i)
    <3>1. closing' = [closing EXCEPT ![sends[i].epochId] = 0]
      BY <2>2 DEF TaskReleases, Release
    <3>2. closing'[sends[j].epochId] = closing[sends[j].epochId]
      BY <1>4, <2>1, <2>2, <3>1 DEF TypeOK
    <3> QED
      BY <1>1, <1>2, <2>1, <3>2
  <2>3. CASE TaskGivesUp(i)
    BY <1>1, <1>2, <2>1, <2>3 DEF TaskGivesUp
  <2> QED
    BY <2>2, <2>3
<1>7. RequestDue'
  <2>1. \A e : NoneFor(e) => \A j \in Sends : KnownClose(j)' => sends'[j].epochId # e
    BY <1>2, <1>3 DEF NoneFor
  <2>2. ASSUME engine.pc = "claimed", Closable(vault, engine.epochId),
               engine.epochId \notin misread
        PROVE  closing'[engine.epochId] = vault.epoch
    <3>1. closing[engine.epochId] = vault.epoch /\ NoneFor(engine.epochId)
      BY <2>2 DEF RequestDue
    <3>2. TaskReleases(i) => sends[i].epochId # engine.epochId
      <4> SUFFICES ASSUME TaskReleases(i), sends[i].epochId = engine.epochId PROVE FALSE
        OBVIOUS
      <4>1. ~sends[i].earlier
        BY DEF TaskReleases, SendsDue
      <4>2. CASE sends[i].tx = "unsent"
        BY <2>2, <3>1, <4>1, <4>2 DEF NoneFor, KnownClose, CanLand
      <4>3. CASE sends[i].tx \in {"mined", "reverted"}
        BY <2>2, <4>3, CloseTypes, EpochTypes DEF SendsDue, Closable
      <4> QED
        BY <4>2, <4>3 DEF TaskReleases
    <3> QED
      BY <2>2, <3>1, <3>2, CloseTypes DEF TaskReleases, TaskGivesUp, Release, TypeOK
  <2>3. NoneFor(engine.epochId) => NoneFor(engine.epochId)'
    BY <1>1, <2>1 DEF NoneFor
  <2>4. OnceDue(engine.epochId)' <=> OnceDue(engine.epochId)
    BY <1>1 DEF OnceDue
  <2> QED
    BY <1>1, <2>2, <2>3, <2>4 DEF RequestDue
<1>8. ReadingSpans' /\ OneClose' /\ CheckedInClose'
  BY <1>1, <1>2, <1>3 DEF ReadingSpans, OneClose, CheckedInClose
<1> QED
  BY <1>5, <1>6, <1>7, <1>8

\* Where neither the claims nor the transactions change, a process that learns of no
\* misreading keeps what it knew of its closes.
LEMMA SameCloses ==
  ASSUME TypeOK, CloseInv, UNCHANGED <<vault, sends, closing, reading>>,
         misread \subseteq misread'
  PROVE  /\ SendsDue' /\ LandsClaimed' /\ ReadingSpans' /\ OneClose'
         /\ \A i \in Sends : KnownClose(i)' => KnownClose(i)
         /\ \A e : NoneFor(e) => \A i \in Sends : KnownClose(i)' => sends[i].epochId # e
         /\ \A e \in Nat : OnceDue(e) <=> OnceDue(e)'
BY DEF CloseInv, SendsDue, LandsClaimed, ReadingSpans, OneClose, KnownClose, CanLand, NoneFor,
       OnceDue

\* A close that is due by what a node a block behind shows is due or over, and no
\* older trading epoch is seen while it can still be made.
LEMMA ViewsDue ==
  ASSUME TypeOK, ChainInv, NEW v \in Views, NEW e \in Redeems
  PROVE  /\ Closable(v, e) => OnceDue(e)
         /\ Closable(vault, e) => v.epoch = vault.epoch
<1>1. v = vault \/ v = before
  BY DEF Views
<1>2. e \in Nat
  BY CloseTypes
<1>3. CASE v = vault
  BY <1>3 DEF OnceDue
<1>4. CASE v = before
  BY <1>2, <1>4, EpochTypes DEF ChainInv, OnceDue, Closable
<1> QED
  BY <1>1, <1>3, <1>4

\* A request reads whether the close is due, and then under which trading epoch.
LEMMA RequestCloses ==
  ASSUME TypeOK, EpochInv, CloseInv,
         \/ \E e \in Redeems, v \in Views : CloseRequest(e, v)
         \/ \E v \in Views : ReadEpoch(v)
  PROVE  CloseInv'
<1> USE DEF notLedger, chain, ghosts
<1>1. CASE \E e \in Redeems, v \in Views : CloseRequest(e, v)
  <2>1. PICK e \in Redeems, v \in Views : CloseRequest(e, v)
    BY <1>1
  <2>2. /\ UNCHANGED <<vault, sends, closing, reading, lit>>
        /\ engine'.pc = "checking" /\ engine'.epochId = e /\ engine'.due = Closable(v, e)
        /\ misread \subseteq misread'
        /\ Closable(vault, e) /\ ~Closable(v, e) => e \in misread'
    BY <2>1 DEF CloseRequest
  <2>3. SendsDue' /\ LandsClaimed' /\ ReadingSpans' /\ OneClose'
    BY <2>2, SameCloses
  <2>4. Closable(v, e) => OnceDue(e)'
    <3>1. Closable(v, e) => OnceDue(e)
      BY ViewsDue DEF EpochInv
    <3> QED
      BY <2>2, <3>1 DEF OnceDue
  <2>5. ~Closable(v, e) => NoneFor(e)'
    BY <2>2 DEF NoneFor, KnownClose, CanLand
  <2>6. RequestDue'
    BY <2>2, <2>4, <2>5 DEF RequestDue, OnceDue, NoneFor
  <2> QED
    BY <2>2, <2>3, <2>6 DEF CloseInv, CheckedInClose
<1>2. CASE \E v \in Views : ReadEpoch(v)
  <2>1. PICK v \in Views : ReadEpoch(v)
    BY <1>2
  <2> DEFINE e == engine.epochId
  <2>2. /\ UNCHANGED <<vault, sends, closing, reading, lit, misread>>
        /\ engine.pc = "checking" /\ e \in Redeems
        /\ engine'.pc = "closing" /\ engine'.epochId = e
        /\ engine'.due = engine.due /\ engine'.epoch = v.epoch
    BY <2>1, CloseTypes DEF ReadEpoch
  <2> HIDE DEF e
  <2>3. SendsDue' /\ LandsClaimed' /\ ReadingSpans' /\ OneClose'
    BY <2>2, SameCloses
  <2>4. IF engine.due THEN OnceDue(e) ELSE NoneFor(e)
    BY <2>2 DEF CloseInv, RequestDue, e
  <2>5. Closable(vault, e) => v.epoch = vault.epoch
    BY <2>2, ViewsDue DEF EpochInv
  <2>6. RequestDue'
    BY <2>2, <2>4, <2>5 DEF RequestDue, OnceDue, NoneFor, KnownClose, CanLand, Closable
  <2> QED
    BY <2>2, <2>3, <2>6 DEF CloseInv, CheckedInClose
<1> QED
  BY <1>1, <1>2

\* A close is refused only if none can land, and claimed under the vault's epoch.
LEMMA AnswerCloses ==
  ASSUME TypeOK, EpochInv, CloseInv, RefuseClose \/ ClaimClose
  PROVE  CloseInv'
<1> USE DEF chain
<1> DEFINE e == engine.epochId
<1>1. /\ UNCHANGED <<vault, sends, reading, misread>>
      /\ engine.pc = "closing" /\ e \in Redeems /\ e \in Nat
      /\ vault.epoch # 0 /\ vault.epoch \in Nat
  BY CloseTypes, EpochTypes DEF RefuseClose, ClaimClose, notClose, ghosts, EpochInv, ChainInv
<1> HIDE DEF e
<1>2. \A i \in Sends : KnownClose(i)' <=> KnownClose(i)
  BY <1>1 DEF KnownClose, CanLand
<1>3. SendsDue' /\ ReadingSpans' /\ OneClose'
  BY <1>1, <1>2 DEF CloseInv, SendsDue, ReadingSpans, OneClose, OnceDue
<1>4. \A i \in Sends : KnownClose(i) =>
        sends[i].epochId \in Redeems /\ closing[sends[i].epochId] = vault.epoch
  BY DEF CloseInv, LandsClaimed, SendsDue, KnownClose, CanLand
<1>5. CASE RefuseClose
  <2>1. /\ engine'.pc = "idle" /\ closing' = [closing EXCEPT ![e] = 0]
    BY <1>5 DEF RefuseClose, Release, Idle, e
  <2>2. NoneFor(e)
    BY <1>5 DEF RefuseClose, CloseInv, RequestDue, e
  <2>3. LandsClaimed'
    <3> SUFFICES ASSUME NEW i \in Sends, KnownClose(i)
                 PROVE  closing'[sends[i].epochId] = vault.epoch
      BY <1>1, <1>2 DEF LandsClaimed
    <3> QED
      BY <1>4, <2>1, <2>2 DEF NoneFor, TypeOK
  <2> QED
    BY <1>3, <2>1, <2>3 DEF CloseInv, RequestDue, CheckedInClose
<1>6. CASE ClaimClose
  <2>1. /\ closing' = [closing EXCEPT ![e] = engine.epoch]
        /\ OnceDue(e) /\ (Closable(vault, e) => engine.epoch = vault.epoch)
    BY <1>6, <1>1 DEF ClaimClose, CloseInv, RequestDue, e
  <2>2. LandsClaimed'
    <3> SUFFICES ASSUME NEW i \in Sends, KnownClose(i)
                 PROVE  closing'[sends[i].epochId] = vault.epoch
      BY <1>1, <1>2 DEF LandsClaimed
    <3>1. CASE sends[i].epochId = e
      BY <1>1, <2>1, <3>1 DEF KnownClose, CanLand, TypeOK
    <3>2. CASE sends[i].epochId # e
      BY <1>4, <2>1, <3>2 DEF TypeOK
    <3> QED
      BY <3>1, <3>2
  <2>3. CASE closing[e] # 0
    <3>1. engine'.pc = "idle"
      BY <1>6, <2>3 DEF ClaimClose, Idle, e
    <3> QED
      BY <1>3, <2>2, <3>1 DEF CloseInv, RequestDue, CheckedInClose
  <2>4. CASE closing[e] = 0
    <3>1. engine'.pc = "claimed" /\ engine'.epochId = e
      BY <1>6, <2>4 DEF ClaimClose, e
    <3>2. \A i \in Sends : KnownClose(i) => sends[i].epochId # e
      BY <1>1, <1>4, <2>4
    <3>3. closing'[e] = engine.epoch
      BY <1>1, <2>1 DEF TypeOK
    <3>4. RequestDue'
      BY <1>1, <1>2, <2>1, <3>1, <3>2, <3>3 DEF RequestDue, NoneFor, OnceDue
    <3> QED
      BY <1>3, <2>2, <3>1, <3>4 DEF CloseInv, CheckedInClose
  <2> QED
    BY <2>3, <2>4
<1> QED
  BY <1>5, <1>6

\* A close is sent once it is claimed, and only then.
LEMMA SendCloses ==
  ASSUME TypeOK, CloseInv, NEW i \in Sends, GoDark(i)
  PROVE  CloseInv'
<1> USE DEF chain, ghosts
<1> DEFINE e == engine.epochId
<1>1. /\ UNCHANGED <<vault, closing, reading, misread>>
      /\ engine.pc = "claimed" /\ engine'.pc = "idle" /\ e \in Redeems
      /\ sends'[i].epochId = e /\ sends'[i].tx = "unsent" /\ ~sends'[i].earlier
      /\ \A j \in Sends \ {i} : sends'[j] = sends[j]
  BY CloseTypes DEF GoDark, NoSend, Idle, TypeOK
<1>2. /\ OnceDue(e) /\ NoneFor(e)
      /\ Closable(vault, e) /\ e \notin misread => closing[e] = vault.epoch
  BY <1>1 DEF CloseInv, RequestDue
<1> HIDE DEF e
<1>3. \A j \in Sends \ {i} : /\ KnownClose(j)' <=> KnownClose(j)
                             /\ KnownClose(j)' => sends'[j].epochId # e
  BY <1>1, <1>2 DEF KnownClose, CanLand, NoneFor
<1>4. SendsDue'
  BY <1>1, <1>2 DEF CloseInv, SendsDue, OnceDue
<1>5. LandsClaimed'
  <2> SUFFICES ASSUME NEW j \in Sends, KnownClose(j)'
               PROVE  closing'[sends'[j].epochId] = vault'.epoch
    BY DEF LandsClaimed
  <2>1. CASE j = i
    BY <1>1, <1>2, <2>1 DEF KnownClose, CanLand
  <2>2. CASE j # i
    BY <1>1, <1>3, <2>2 DEF CloseInv, LandsClaimed
  <2> QED
    BY <2>1, <2>2
<1>6. OneClose'
  BY <1>1, <1>3 DEF CloseInv, OneClose
<1>7. ReadingSpans'
  BY <1>1 DEF CloseInv, ReadingSpans
<1> QED
  BY <1>1, <1>4, <1>5, <1>6, <1>7 DEF CloseInv, RequestDue, CheckedInClose

\* The responder checks the policy, and so knows of its own closes.
LEMMA CheckCloses ==
  ASSUME TypeOK, EpochInv, DarkInv, CloseInv, CheckPolicy
  PROVE  CloseInv'
<1>1. /\ UNCHANGED <<vault, sends, closing, reading, lit, misread>>
      /\ engine.pc = "synced" /\ engine'.pc = "checked" /\ policy
  BY DEF CheckPolicy, notLedger, chain, ghosts
<1>2. ASSUME NEW i \in Sends, KnownClose(i) PROVE lit[sends[i].epochId] = 1
  <2>1. sends[i].epochId \in Redeems /\ closing[sends[i].epochId] = vault.epoch
    BY <1>2 DEF CloseInv, SendsDue, LandsClaimed, KnownClose, CanLand
  <2>2. vault.epoch # 0
    BY EpochTypes DEF EpochInv, ChainInv
  <2> QED
    BY <1>1, <2>1, <2>2 DEF DarkInv, DarkWhileClosing
<1>3. CheckedInClose'
  BY <1>1, <1>2 DEF CheckedInClose, KnownClose, CanLand
<1> QED
  BY <1>1, <1>3, SameCloses DEF CloseInv, RequestDue

\* The responder claims a close before it is sent, one at a time, and refuses one
\* only if it cannot land.
LEMMA ResponderCloses == TypeOK /\ EpochInv /\ DarkInv /\ CloseInv /\ Responder => CloseInv'
<1> SUFFICES ASSUME TypeOK, EpochInv, DarkInv, CloseInv, Responder PROVE CloseInv'
  OBVIOUS
<1> USE DEF notLedger, chain, ghosts
<1>1. CASE \/ QuoteRequest \/ LevelFrames \/ Withhold \/ Reply
           \/ \E n \in Nonces : DropClaim(n)
  <2>1. /\ UNCHANGED <<vault, sends, closing, reading, misread>>
        /\ engine'.pc \notin {"checked", "signing", "checking", "closing", "claimed"}
    BY <1>1 DEF QuoteRequest, LevelFrames, NoteSync, Withhold, Reply, DropClaim, Serving, Idle
  <2> QED
    BY <2>1, SameCloses DEF CloseInv, RequestDue, CheckedInClose
<1>2. CASE \E n \in Nonces : MintNonce(n)
  <2>1. /\ UNCHANGED <<vault, sends, closing, reading, lit, misread>>
        /\ engine'.pc = "signing" /\ engine.pc = "checked"
    BY <1>2 DEF MintNonce
  <2>2. CheckedInClose'
    BY <2>1, SameCloses DEF CloseInv, CheckedInClose
  <2> QED
    BY <2>1, <2>2, SameCloses DEF CloseInv, RequestDue
<1> QED
  BY <1>1, <1>2, CheckCloses, RequestCloses, AnswerCloses, SendCloses DEF Responder

\* The loop drops claims of closes that cannot land.
LEMMA LoopCloses == TypeOK /\ EpochInv /\ DarkInv /\ CloseInv /\ BalanceLoop => CloseInv'
<1> SUFFICES ASSUME TypeOK, EpochInv, DarkInv, CloseInv, BalanceLoop PROVE CloseInv'
  OBVIOUS
<1> USE DEF notLoop, chain, ledger
<1>1. UNCHANGED <<vault, before, sends, engine, misread>>
  BY DEF BalanceLoop, ReadVault, ReadFails, PublishEpoch, ReconcileCloses, PublishPolicy
<1>2. /\ SendsDue' /\ OneClose'
      /\ \A i \in Sends : KnownClose(i)' <=> KnownClose(i)
      /\ NoneFor(engine.epochId)' <=> NoneFor(engine.epochId)
      /\ OnceDue(engine.epochId)' <=> OnceDue(engine.epochId)
  BY <1>1 DEF CloseInv, SendsDue, OneClose, KnownClose, CanLand, NoneFor, OnceDue
<1>3. \A i \in Sends : KnownClose(i) =>
        sends[i].epochId \in Redeems /\ closing[sends[i].epochId] = vault.epoch
  BY DEF CloseInv, LandsClaimed, SendsDue, KnownClose, CanLand
<1>4. ASSUME closing' = closing PROVE LandsClaimed' /\ RequestDue'
  BY <1>1, <1>2, <1>4 DEF CloseInv, LandsClaimed, RequestDue
<1>5. ASSUME lit' = lit PROVE CheckedInClose'
  BY <1>1, <1>2, <1>5 DEF CloseInv, CheckedInClose
<1>6. CASE (\E v \in Views : ReadVault(v)) \/ ReadFails \/ PublishEpoch
  <2>1. UNCHANGED <<closing, lit>>
    BY <1>6 DEF ReadVault, ReadFails, PublishEpoch
  <2>2. ReadingSpans'
    <3>1. CASE \E v \in Views : ReadVault(v)
      <4>1. PICK v \in Views : ReadVault(v)
        BY <3>1
      <4>2. reading'.epoch = v.epoch /\ (v = vault \/ v = before)
        BY <4>1 DEF Views, ReadVault
      <4> QED
        BY <1>1, <4>2 DEF EpochInv, ChainInv, ReadingSpans
    <3>2. CASE PublishEpoch
      <4>1. \/ reading'.pc = "idle"
            \/ reading.pc = "reading" /\ reading'.epoch = reading.epoch
        BY <3>2 DEF PublishEpoch, Idle
      <4> QED
        BY <1>1, <4>1 DEF CloseInv, ReadingSpans
    <3>3. CASE ReadFails
      BY <3>3 DEF ReadFails, ReadingSpans, Idle
    <3> QED
      BY <1>6, <3>1, <3>2, <3>3
  <2> QED
    BY <1>2, <1>4, <1>5, <2>1, <2>2 DEF CloseInv
<1>7. CASE ReconcileCloses
  <2>1. /\ reading.pc = "published" /\ reading'.pc = "reconciled" /\ lit' = lit
        /\ \A e \in Redeems : closing[e] = reading.epoch => closing'[e] = closing[e]
    BY <1>7 DEF ReconcileCloses
  <2>2. ~vault.outstanding => reading.epoch = vault.epoch
    BY <2>1 DEF CloseInv, ReadingSpans
  <2>3. LandsClaimed'
    <3> SUFFICES ASSUME NEW i \in Sends, KnownClose(i)
                 PROVE  closing'[sends[i].epochId] = vault.epoch
      BY <1>1, <1>2 DEF LandsClaimed
    <3> QED
      BY <1>3, <2>1, <2>2 DEF KnownClose, CanLand, Closable
  <2>4. RequestDue'
    <3>1. engine.pc = "claimed" /\ Closable(vault, engine.epochId)
            /\ engine.epochId \notin misread => closing'[engine.epochId] = vault.epoch
      BY <2>1, <2>2, CloseTypes DEF CloseInv, RequestDue, Closable
    <3> QED
      BY <1>1, <1>2, <3>1 DEF CloseInv, RequestDue
  <2> QED
    BY <1>2, <1>5, <2>1, <2>3, <2>4 DEF CloseInv, ReadingSpans
<1>8. CASE PublishPolicy
  <2>1. closing' = closing /\ reading.pc = "reconciled" /\ reading'.pc = "idle"
    BY <1>8 DEF PublishPolicy, Idle
  <2>2. CheckedInClose'
    <3>1. CASE reading.dark
      <4>1. lit' = lit
        BY <1>8, <3>1 DEF PublishPolicy
      <4> QED
        BY <1>5, <4>1
    <3>2. CASE ~reading.dark
      <4> SUFFICES ASSUME engine.pc \in {"checked", "signing"}, NEW i \in Sends, KnownClose(i)
                   PROVE  lit'[sends[i].epochId] = 1
        BY <1>1, <1>2 DEF CheckedInClose
      <4>1. sends[i].epochId \in Redeems /\ closing[sends[i].epochId] # 0
        BY <1>3, EpochTypes DEF EpochInv, ChainInv
      <4>2. lit[sends[i].epochId] = 0 /\ lit[sends[i].epochId] = 1
        BY <2>1, <3>2, <4>1 DEF DarkInv, LookedBefore, CloseInv, CheckedInClose
      <4> QED
        BY <4>2
    <3> QED
      BY <3>1, <3>2
  <2> QED
    BY <1>2, <1>4, <2>1, <2>2 DEF CloseInv, ReadingSpans
<1> QED
  BY <1>6, <1>7, <1>8 DEF BalanceLoop

\* A restarted process has no close of its own.
LEMMA CrashCloses == TypeOK /\ CloseInv /\ Crash => CloseInv'
<1> SUFFICES ASSUME TypeOK, CloseInv, Crash PROVE CloseInv'
  OBVIOUS
<1>1. vault' = vault /\ engine'.pc = "idle" /\ reading'.pc = "idle"
  BY DEF Crash, chain, Idle
<1>2. ASSUME NEW i \in Sends
      PROVE  /\ sends'[i].epochId = sends[i].epochId
             /\ sends'[i].tx = sends[i].tx \/ sends'[i].tx = "dropped"
             /\ sends'[i].tx # "none" => sends[i].tx # "none"
             /\ ~sends'[i].waiting
             /\ sends'[i].tx # "none" => sends'[i].earlier
  <2>1. sends[i] \in SendStates /\ sends'[i] = Left(sends[i])
    BY DEF TypeOK, Crash
  <2>2. CASE sends[i] = NoSend
    BY <2>1, <2>2 DEF Left, NoSend
  <2>3. CASE sends[i] # NoSend
    BY <2>1, <2>3 DEF Left, SendStates
  <2> QED
    BY <2>2, <2>3
<1>3. SendsDue'
  BY <1>1, <1>2 DEF CloseInv, SendsDue, OnceDue
<1>4. \A i \in Sends : ~KnownClose(i)'
  BY <1>2 DEF KnownClose, CanLand
<1> QED
  BY <1>1, <1>3, <1>4
     DEF CloseInv, LandsClaimed, RequestDue, ReadingSpans, OneClose, CheckedInClose

\* Every step keeps what is said of the bot's closes.
LEMMA CloseStep == IInv /\ [Next]_vars => CloseInv'
<1> SUFFICES ASSUME IInv, [Next]_vars PROVE CloseInv'
  OBVIOUS
<1> TypeOK /\ EpochInv /\ DarkInv /\ CloseInv
  BY DEF IInv
<1> USE DEF chain, ledger, ghosts
<1>1. CASE UNCHANGED vars
  BY <1>1 DEF vars, CloseInv, SendsDue, LandsClaimed, RequestDue, ReadingSpans, OneClose,
              CheckedInClose, KnownClose, CanLand, NoneFor, OnceDue
<1>2. CASE Start
  BY <1>2 DEF Start, CloseInv, SendsDue, LandsClaimed, RequestDue, ReadingSpans, OneClose,
              CheckedInClose, KnownClose, CanLand, NoneFor, OnceDue
<1> QED
  BY <1>1, <1>2, WorldCloses, CloseTaskCloses, ResponderCloses, LoopCloses, CrashCloses
     DEF Next

\* The whole invariant holds throughout.
LEMMA CloseInvariance == Spec => []IInv
<1>1. Init => IInv
  BY InitTypeOK, InitEpochInv, InitDark, InitCloses DEF IInv
<1>2. IInv /\ [Next]_vars => IInv'
  BY TypeStep, EpochStep, DarkStep, CloseStep DEF IInv
<1> QED
  BY <1>1, <1>2, PTL DEF Spec

\* Nothing is signed into an epoch that a close of this process can still end, for
\* any number of orders, epochs and closes, but under the one refresh that looked at
\* the claims before the close was claimed.
THEOREM NothingIntoOwnClose == Spec => []NoOrderIntoOwnClose
<1>1. IInv => NoOrderIntoOwnClose
  BY DEF IInv, CloseInv, CheckedInClose, NoOrderIntoOwnClose
<1> QED
  BY <1>1, CloseInvariance, PTL

\* No two closes of one process can land for one redeem epoch, unless a node a block
\* behind called the close not due.
THEOREM OneCloseAtATime == Spec => []OneClose
<1>1. IInv => OneClose
  BY DEF IInv, CloseInv
<1> QED
  BY <1>1, CloseInvariance, PTL

=============================================================================

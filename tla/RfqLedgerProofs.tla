--------------------------- MODULE RfqLedgerProofs ---------------------------
(***************************************************************************)
(* What RfqLedger's runs show on two rounds and two orders, proved for any *)
(* number of them and any values of the constants: its type invariant,     *)
(* that every order a taker may still use is claimed, and that a fill is   *)
(* never missing from the balance and from the claims at once.             *)
(***************************************************************************)
EXTENDS RfqLedger, FiniteSetTheorems, WellFoundedInduction, TLAPS

(***************************************************************************)
(* Premises about the world: TLC breaks the properties without either.     *)
(***************************************************************************)

\* A claim outlives the last moment its order can fill.
SkewCovers == ChainSkew < Skew

\* Either writes do not fail, or a quote whose write failed is withheld.
Durable == DiskFaults => RequireFlush

(***************************************************************************)
(* The inductive invariant.                                                *)
(***************************************************************************)

\* Whatever was reported spent is filled.
SpentFilled == \A n \in spent \cup loop.seen : fillBlock[n] # 0

\* A round the bot was told of was not lost, and its claim is exposed.
ToldExposed ==
  \A r \in told : /\ venue[r] \in {"selected", "closed"}
                  /\ ledger[r] # NoRow => ledger[r].exposed

BusyRfq == IF engine.pc = "pricing" THEN engine.rfq ELSE engine.order.rfq

\* While the responder prices and signs for a round, the round holds no claim and
\* the bot has not been told of it.
BusyUnclaimed ==
  engine # IdleEngine =>
    /\ mode = "online"
    /\ ledger[BusyRfq] = NoRow
    /\ BusyRfq \notin told

ClaimInv ==
  /\ LiveOrdersClaimed
  /\ FileCoversOrders
  /\ SpentFilled
  /\ ToldExposed
  /\ BusyUnclaimed

IInv == TypeOK /\ ClaimInv

(***************************************************************************)
(* Type correctness.                                                       *)
(***************************************************************************)

\* The program starts with its types.
LEMMA InitTypeOK == Init => TypeOK
BY ConstantsTyped DEF Init, TypeOK, EmptyLedger, IdleEngine, IdleLoop,
   EngineStates, LoopStates

\* The ledger's operations keep a ledger a ledger.
LEMMA LedgerTypes ==
  ASSUME NEW l \in [Rfqs -> Claim \cup {NoRow}], NEW r \in Rfqs, NEW s
  PROVE  /\ Exposed(l, r) \in [Rfqs -> Claim \cup {NoRow}]
         /\ WithoutLoser(l, r) \in [Rfqs -> Claim \cup {NoRow}]
         /\ WithoutFilled(l, s) \in [Rfqs -> Claim \cup {NoRow}]
         /\ Pruned(l) \in [Rfqs -> Claim \cup {NoRow}]
         /\ Stored(l) \in [Rfqs -> Entry \cup {NoRow}]
<1>1. Exposed(l, r) \in [Rfqs -> Claim \cup {NoRow}]
  BY DEF Exposed, Claim
<1>2. WithoutLoser(l, r) \in [Rfqs -> Claim \cup {NoRow}]
  BY DEF WithoutLoser
<1>3. WithoutFilled(l, s) \in [Rfqs -> Claim \cup {NoRow}]
  BY DEF WithoutFilled
<1>4. Pruned(l) \in [Rfqs -> Claim \cup {NoRow}]
  BY DEF Pruned
<1>5. Stored(l) \in [Rfqs -> Entry \cup {NoRow}]
  BY DEF Stored, Claim, Entry
<1> QED
  BY <1>1, <1>2, <1>3, <1>4, <1>5

\* Whatever a refresh has room for, it is nonces.
LEMMA WatchedTypes ==
  ASSUME NEW l \in [Rfqs -> Claim \cup {NoRow}]
  PROVE  WatchedNonces(l) \subseteq SUBSET Nonces
<1>1. \A q \in Watchable(l) : l[q].nonce \in Nonces
  BY DEF Watchable, Live, Claim
<1> QED
  BY <1>1 DEF WatchedNonces, Readable

\* What a restart makes of the file is a ledger.
LEMMA LoadedType ==
  ASSUME NEW f \in [Rfqs -> Entry \cup {NoRow}]
  PROVE  Loaded(f) \in [Rfqs -> Claim \cup {NoRow}]
BY DEF Loaded, Live, Claim, Entry

\* Persisting a ledger keeps the ledger and the file typed.
LEMMA SaveTypes ==
  ASSUME TypeOK, NEW l \in [Rfqs -> Claim \cup {NoRow}], Save(l)
  PROVE  /\ ledger' \in [Rfqs -> Claim \cup {NoRow}]
         /\ disk' \in [Rfqs -> Entry \cup {NoRow}]
<1>1. Stored(l) \in [Rfqs -> Entry \cup {NoRow}]
  BY DEF Stored, Claim, Entry
<1> QED
  BY <1>1 DEF Save, TypeOK

\* What the responder is signing.
LEMMA EngineFields ==
  ASSUME TypeOK
  PROVE  /\ engine.pc = "pricing" => engine.rfq \in Rfqs
         /\ engine.pc = "signing" => /\ engine.nonce \in Nonces
                                     /\ engine.order \in Order
         /\ engine # IdleEngine => engine.pc \in {"pricing", "signing"}
BY DEF TypeOK, EngineStates, IdleEngine

\* What the chain and the venue do keeps the types.
LEMMA WorldTypes == TypeOK /\ World => TypeOK'
<1> SUFFICES ASSUME TypeOK, World PROVE TypeOK'
  OBVIOUS
<1>1. CASE Tick
  BY <1>1 DEF Tick, TypeOK, chain, world, shared, reader
<1>2. CASE \E r \in Rfqs, v \in {"selected", "closed", "lost"} : VenueDecides(r, v)
  BY <1>2 DEF VenueDecides, TypeOK, chain, world, shared, reader
<1>3. CASE \E n \in Nonces : Fill(n)
  BY <1>3 DEF Fill, TypeOK, world, shared, reader
<1> QED
  BY <1>1, <1>2, <1>3 DEF World

\* What the responder task does keeps the types.
LEMMA ResponderTypes == TypeOK /\ Responder => TypeOK'
<1> SUFFICES ASSUME TypeOK, Responder PROVE TypeOK'
  OBVIOUS
<1> USE DEF outside, chain, shared, reader
<1> ledger \in [Rfqs -> Claim \cup {NoRow}]
  BY DEF TypeOK
<1>1. ASSUME ReleaseFills
      PROVE  /\ ledger' \in [Rfqs -> Claim \cup {NoRow}]
             /\ disk' \in [Rfqs -> Entry \cup {NoRow}]
             /\ watched' \in SUBSET Nonces
             /\ spent' \in SUBSET Nonces
             /\ cache' = cache
  <2>1. WithoutFilled(ledger, spent) \in [Rfqs -> Claim \cup {NoRow}]
    BY DEF WithoutFilled
  <2>2. WatchedNonces(WithoutFilled(ledger, spent)) \subseteq SUBSET Nonces
    BY <2>1, WatchedTypes
  <2> QED
    BY <1>1, <2>1, <2>2, SaveTypes DEF ReleaseFills
<1>2. ASSUME NEW r \in Rfqs, QuoteRequest(r)
      PROVE  TypeOK'
  <2>1. engine' \in EngineStates
    BY <1>2 DEF QuoteRequest, EngineStates
  <2> QED
    BY <1>1, <1>2, <2>1 DEF QuoteRequest, TypeOK
<1>3. ASSUME NEW r \in Rfqs, MarkExposed(r)
      PROVE  TypeOK'
  <2>1. Exposed(ledger, r) \in [Rfqs -> Claim \cup {NoRow}]
    BY LedgerTypes
  <2>2. WatchedNonces(Exposed(ledger, r)) \subseteq SUBSET Nonces
    BY <2>1, WatchedTypes
  <2> QED
    BY <1>3, <2>1, <2>2 DEF MarkExposed, TypeOK
<1>4. ASSUME NEW r \in Rfqs, OnLoser(r)
      PROVE  TypeOK'
  <2>1. WithoutLoser(ledger, r) \in [Rfqs -> Claim \cup {NoRow}]
    BY LedgerTypes
  <2> QED
    BY <1>4, <2>1, SaveTypes DEF OnLoser, TypeOK
<1>5. ASSUME NEW n \in Nonces, NEW o \in Candidates, Price(n, o)
      PROVE  TypeOK'
  <2>1. o \in Order
    <3>1. (now + 1)..(now + Life) \subseteq Nat /\ Sizes \subseteq Nat
      BY ConstantsTyped DEF TypeOK
    <3> QED
      BY <3>1 DEF Candidates, Order
  <2>2. engine' \in EngineStates
    BY <1>5, <2>1 DEF Price, EngineStates
  <2> QED
    BY <1>5, <2>2 DEF Price, TypeOK
<1>6. CASE Withhold
  BY <1>6 DEF Withhold, TypeOK, EngineStates
<1>7. CASE Reply
  <2>1. engine.nonce \in Nonces /\ engine.order \in Order
    BY <1>7, EngineFields DEF Reply
  <2>2. NewClaim(engine.nonce, engine.order) \in Claim
    BY <2>1, ConstantsTyped DEF NewClaim, Claim, Order
  <2>3. ledger' \in [Rfqs -> Claim \cup {NoRow}]
    BY <1>7, <2>1, <2>2 DEF Reply, Order
  <2>4. Stored(ledger') \in [Rfqs -> Entry \cup {NoRow}]
    BY <2>3 DEF Stored, Claim, Entry
  <2>5. disk' \in [Rfqs -> Entry \cup {NoRow}]
    BY <1>7, <2>4 DEF Reply, TypeOK
  <2>6. orders' \in [Nonces -> Order \cup {NoOrder}]
    BY <1>7, <2>1 DEF Reply, TypeOK
  <2>7. engine' \in EngineStates
    BY <1>7 DEF Reply, EngineStates
  <2> QED
    BY <1>7, <2>3, <2>5, <2>6, <2>7 DEF Reply, TypeOK
<1>8. CASE LevelsTick
  <2>1. Pruned(ledger) \in [Rfqs -> Claim \cup {NoRow}]
    BY DEF Pruned
  <2>2. WatchedNonces(Pruned(ledger)) \subseteq SUBSET Nonces
    BY <2>1, WatchedTypes
  <2> QED
    BY <1>8, <2>1, <2>2, SaveTypes DEF LevelsTick, TypeOK
<1>9. CASE LevelFrames
  BY <1>1, <1>9 DEF LevelFrames, TypeOK
<1> QED
  BY <1>2, <1>3, <1>4, <1>5, <1>6, <1>7, <1>8, <1>9
     DEF Responder, OnSelected, OnQuoteExpired

\* Sessions, crashes and restarts keep the types.
LEMMA ProcessTypes == TypeOK /\ Process => TypeOK'
<1> SUFFICES ASSUME TypeOK, Process PROVE TypeOK'
  OBVIOUS
<1> USE DEF outside, chain, shared, reader
<1>1. CASE Connect
  <2>1. WatchedNonces(ledger) \subseteq SUBSET Nonces
    BY WatchedTypes DEF TypeOK
  <2> QED
    BY <1>1, <2>1 DEF Connect, TypeOK
<1>2. CASE Disconnect
  BY <1>2 DEF Disconnect, TypeOK
<1>3. CASE Crash
  <2>1. /\ EmptyLedger \in [Rfqs -> Claim \cup {NoRow}]
        /\ IdleEngine \in EngineStates
        /\ IdleLoop \in LoopStates
    BY DEF EmptyLedger, EngineStates, IdleLoop, LoopStates
  <2> QED
    BY <1>3, <2>1 DEF Crash, TypeOK
<1>4. CASE Start
  <2>1. Loaded(disk) \in [Rfqs -> Claim \cup {NoRow}]
    BY LoadedType DEF TypeOK
  <2> QED
    BY <1>4, <2>1 DEF Start, TypeOK
<1> QED
  BY <1>1, <1>2, <1>3, <1>4 DEF Process

\* The balance loop keeps the types.
LEMMA LoopTypes == TypeOK /\ BalanceLoop => TypeOK'
<1> SUFFICES ASSUME TypeOK, BalanceLoop PROVE TypeOK'
  OBVIOUS
<1> USE DEF responder, chain, shared
<1>0. IdleLoop \in LoopStates
  BY DEF IdleLoop, LoopStates
<1>1. CASE LoopRead
  <2>1. loop' \in LoopStates
    BY <1>1 DEF LoopRead, IdleLoop, LoopStates, TypeOK
  <2> QED
    BY <1>1, <2>1 DEF LoopRead, TypeOK
<1>2. ASSUME NEW b \in 0..height, ArriveBatch(b)
      PROVE  TypeOK'
  <2>1. b \in Nat
    BY DEF TypeOK
  <2>2. \A seen \in SeenSets(b) : seen \in SUBSET Nonces
    BY DEF SeenSets, Spent, TypeOK, LoopStates
  <2>3. loop' \in LoopStates
    <3>1. CASE loop' = IdleLoop
      BY <1>0, <3>1
    <3>2. ASSUME NEW seen \in SeenSets(b),
                 loop' = [loop EXCEPT !.phase = "publishing", !.at = now,
                                      !.blocks = [t \in Tokens |-> b],
                                      !.seen = seen, !.todo = Tokens]
          PROVE  loop' \in LoopStates
      BY <2>1, <2>2, <3>2 DEF TypeOK, LoopStates
    <3> QED
      BY <1>2, <3>1, <3>2 DEF ArriveBatch
  <2> QED
    BY <1>2, <2>1, <2>3 DEF ArriveBatch, TypeOK
<1>3. ASSUME NEW blocks \in [Tokens -> 0..height], ArriveUnordered(blocks)
      PROVE  TypeOK'
  <2>1. blocks \in [Tokens -> Nat]
    BY DEF TypeOK
  <2>2. loop' \in LoopStates
    BY <1>0, <1>3, <2>1 DEF ArriveUnordered, TypeOK, LoopStates
  <2> QED
    BY <1>3, <2>2 DEF ArriveUnordered, TypeOK
<1>4. CASE LoopFails
  BY <1>0, <1>4 DEF LoopFails, TypeOK
<1>5. ASSUME NEW t \in Tokens, PublishBalance(t)
      PROVE  TypeOK'
  <2>1. loop' \in LoopStates
    BY <1>5 DEF PublishBalance, TypeOK, LoopStates
  <2>2. cache' \in [Tokens -> [block : Nat, at : Nat] \cup {NoReading}]
    BY <1>5 DEF PublishBalance, TypeOK, LoopStates
  <2> QED
    BY <1>5, <2>1, <2>2 DEF PublishBalance, TypeOK
<1>6. ASSUME NEW t \in Tokens, SkipBalance(t)
      PROVE  TypeOK'
  <2>1. loop' \in LoopStates
    BY <1>6 DEF SkipBalance, TypeOK, LoopStates
  <2> QED
    BY <1>6, <2>1 DEF SkipBalance, TypeOK
<1>7. CASE PublishSpent
  BY <1>0, <1>7 DEF PublishSpent, TypeOK, LoopStates
<1> QED
  BY <1>1, <1>2, <1>3, <1>4, <1>5, <1>6, <1>7 DEF BalanceLoop

\* Every step keeps the types.
LEMMA TypeStep == TypeOK /\ [Next]_vars => TypeOK'
<1> SUFFICES ASSUME TypeOK, [Next]_vars PROVE TypeOK'
  OBVIOUS
<1>1. CASE UNCHANGED vars
  BY <1>1 DEF TypeOK, vars, chain, shared, reader
<1> QED
  BY <1>1, WorldTypes, ResponderTypes, ProcessTypes, LoopTypes DEF Next

\* The variables keep their types, whatever the constants are.
THEOREM TypeCorrect == Spec => []TypeOK
BY InitTypeOK, TypeStep, PTL DEF Spec

(***************************************************************************)
(* Every live order is claimed.  Only a reply adds an order; everything    *)
(* else keeps or ends orders, so it is enough that what each operation     *)
(* drops from the ledger belongs to no order that can still be used.       *)
(***************************************************************************)

\* Ledger l claims every order that can still be used.
Keeps(l) == \A n \in Nonces : Executable(n) => Claims(l[orders[n].rfq], n)

\* What an executable order is.
LEMMA ExecutableOrder ==
  ASSUME TypeOK, NEW n \in Nonces, Executable(n)
  PROVE  /\ orders[n] \in Order
         /\ orders[n].rfq \in Rfqs
         /\ now =< orders[n].deadline + ChainSkew
         /\ fillBlock[n] = 0
         /\ venue[orders[n].rfq] # "lost"
BY DEF TypeOK, Executable, NotFilled, Order

\* The claim of a usable order is due later than now.
LEMMA ClaimOutlivesOrder ==
  ASSUME SkewCovers, TypeOK, NEW n \in Nonces, Executable(n),
         NEW row, Claims(row, n)
  PROVE  Live(row)
<1>1. orders[n].deadline \in Nat /\ now =< orders[n].deadline + ChainSkew
  BY ExecutableOrder DEF Order
<1> QED
  BY <1>1, ConstantsTyped DEF Claims, Live, SkewCovers, TypeOK

\* Pruning drops only claims no order needs.
LEMMA PrunedKeeps ==
  ASSUME SkewCovers, TypeOK, Keeps(ledger)
  PROVE  Keeps(Pruned(ledger))
<1> SUFFICES ASSUME NEW n \in Nonces, Executable(n)
             PROVE  Claims(Pruned(ledger)[orders[n].rfq], n)
  BY DEF Keeps
<1>1. orders[n].rfq \in Rfqs /\ Claims(ledger[orders[n].rfq], n)
  BY ExecutableOrder DEF Keeps
<1>2. Live(ledger[orders[n].rfq])
  BY <1>1, ClaimOutlivesOrder
<1> QED
  BY <1>1, <1>2 DEF Pruned

\* Loading the file drops only claims no order needs.
LEMMA LoadedKeeps ==
  ASSUME SkewCovers, TypeOK, FileCoversOrders
  PROVE  Keeps(Loaded(disk))
<1> SUFFICES ASSUME NEW n \in Nonces, Executable(n)
             PROVE  Claims(Loaded(disk)[orders[n].rfq], n)
  BY DEF Keeps
<1> DEFINE r == orders[n].rfq
<1>1. r \in Rfqs /\ Claims(disk[r], n)
  BY ExecutableOrder DEF FileCoversOrders
<1>2. Live(disk[r])
  BY <1>1, ClaimOutlivesOrder
<1>3. Loaded(disk)[r] =
        [nonce |-> disk[r].nonce, token |-> disk[r].token,
         input |-> disk[r].input, releaseAt |-> disk[r].releaseAt,
         exposed |-> TRUE]
  BY <1>1, <1>2 DEF Loaded
<1>4. disk[r] \in Entry
  BY <1>1 DEF TypeOK, Claims
<1>5. Loaded(disk)[r] \in Claim
  BY <1>3, <1>4 DEF Claim, Entry
<1>6. Loaded(disk)[r] # NoRow
  BY <1>5, NullsDistinct
<1> HIDE DEF r
<1> QED
  BY <1>1, <1>3, <1>6 DEF Claims, r

\* Releasing filled claims drops only claims no order needs.
LEMMA WithoutFilledKeeps ==
  ASSUME TypeOK, SpentFilled, Keeps(ledger)
  PROVE  Keeps(WithoutFilled(ledger, spent))
<1> SUFFICES ASSUME NEW n \in Nonces, Executable(n)
             PROVE  Claims(WithoutFilled(ledger, spent)[orders[n].rfq], n)
  BY DEF Keeps
<1>1. orders[n].rfq \in Rfqs /\ Claims(ledger[orders[n].rfq], n)
  BY ExecutableOrder DEF Keeps
<1>2. n \notin spent
  BY ExecutableOrder DEF SpentFilled
<1> QED
  BY <1>1, <1>2 DEF WithoutFilled, Claims

\* A losing result drops only a claim no order needs: the round was lost, or the
\* bot was told of it and so had marked the claim exposed.
LEMMA WithoutLoserKeeps ==
  ASSUME TypeOK, ToldExposed, Keeps(ledger), NEW r \in Rfqs,
         venue[r] = "lost" \/ r \in told
  PROVE  Keeps(WithoutLoser(ledger, r))
<1> SUFFICES ASSUME NEW n \in Nonces, Executable(n)
             PROVE  Claims(WithoutLoser(ledger, r)[orders[n].rfq], n)
  BY DEF Keeps
<1>1. Claims(ledger[orders[n].rfq], n)
  BY DEF Keeps
<1>2. CASE orders[n].rfq = r
  <2>1. venue[r] # "lost"
    BY <1>2, ExecutableOrder
  <2>2. ledger[r] # NoRow => ledger[r].exposed
    BY <2>1 DEF ToldExposed
  <2> QED
    BY <1>1, <2>2 DEF WithoutLoser
<1>3. CASE orders[n].rfq # r
  BY <1>1, <1>3, ExecutableOrder DEF WithoutLoser, TypeOK
<1> QED
  BY <1>2, <1>3

\* Marking a claim exposed keeps what it claims.
LEMMA ExposedKeeps ==
  ASSUME TypeOK, Keeps(ledger), NEW r \in Rfqs
  PROVE  Keeps(Exposed(ledger, r))
<1> SUFFICES ASSUME NEW n \in Nonces, Executable(n)
             PROVE  Claims(Exposed(ledger, r)[orders[n].rfq], n)
  BY DEF Keeps
<1>1. Claims(ledger[orders[n].rfq], n) /\ orders[n].rfq \in Rfqs
  BY ExecutableOrder DEF Keeps
<1>2. Exposed(ledger, r) \in [Rfqs -> Claim \cup {NoRow}]
  BY LedgerTypes DEF TypeOK
<1>3. CASE ledger[r] # NoRow /\ orders[n].rfq = r
  <2>1. /\ ledger[r] \in Claim
        /\ Exposed(ledger, r)[r] = [ledger[r] EXCEPT !.exposed = TRUE]
    BY <1>3 DEF TypeOK, Exposed
  <2>2. [ledger[r] EXCEPT !.exposed = TRUE] \in Claim
    BY <2>1 DEF Claim
  <2> QED
    BY <1>1, <1>3, <2>1, <2>2, NullsDistinct DEF Claims, Claim
<1>4. CASE ~(ledger[r] # NoRow /\ orders[n].rfq = r)
  BY <1>1, <1>4 DEF TypeOK, Exposed
<1> QED
  BY <1>3, <1>4

\* The file written from a ledger claims what the ledger claims.
LEMMA StoredClaims ==
  ASSUME NEW l \in [Rfqs -> Claim \cup {NoRow}], NEW r \in Rfqs, NEW n,
         Claims(l[r], n)
  PROVE  Claims(Stored(l)[r], n)
<1>1. l[r] \in Claim
  BY DEF Claims
<1>2. Stored(l)[r] = [nonce |-> l[r].nonce, token |-> l[r].token,
                      input |-> l[r].input, releaseAt |-> l[r].releaseAt]
  BY DEF Claims, Stored
<1>3. Stored(l)[r] \in Entry
  BY <1>1, <1>2 DEF Claim, Entry
<1> QED
  BY <1>2, <1>3, NullsDistinct DEF Claims

\* Persisting a ledger that claims every order keeps every order claimed, in
\* memory and in the file, whether or not the write works.
LEMMA SaveKeeps ==
  ASSUME TypeOK, FileCoversOrders,
         NEW l \in [Rfqs -> Claim \cup {NoRow}], Keeps(l), Save(l),
         UNCHANGED <<now, fillBlock, venue, orders>>
  PROVE  Keeps(ledger)' /\ FileCoversOrders'
<1>1. ASSUME NEW n \in Nonces
      PROVE  Executable(n)' = Executable(n)
  BY DEF Executable, NotFilled
<1>2. Keeps(ledger)'
  BY <1>1 DEF Keeps, Claims, Save
<1>3. ASSUME NEW n \in Nonces, Executable(n)
      PROVE  Claims(disk'[orders[n].rfq], n)
  <2>1. orders[n].rfq \in Rfqs
    BY <1>3, ExecutableOrder
  <2>2. Claims(Stored(l)[orders[n].rfq], n)
    BY <1>3, <2>1, StoredClaims DEF Keeps
  <2> QED
    BY <1>3, <2>2 DEF Save, FileCoversOrders
<1> QED
  BY <1>1, <1>2, <1>3 DEF FileCoversOrders, Claims

\* The program starts with no order out.
LEMMA InitClaimInv == Init => ClaimInv
BY DEF Init, ClaimInv, LiveOrdersClaimed, FileCoversOrders, SpentFilled,
   ToldExposed, BusyUnclaimed, Executable, IdleLoop

\* Time, the venue and the chain only end orders.
LEMMA WorldClaims == IInv /\ World => ClaimInv'
<1> SUFFICES ASSUME IInv, World PROVE ClaimInv'
  OBVIOUS
<1> USE DEF IInv, ClaimInv, chain, world, shared, reader
<1>1. /\ \A n \in Nonces : Executable(n)' => Executable(n)
      /\ \A n \in Nonces : fillBlock[n] # 0 => fillBlock'[n] # 0
      /\ \A r \in told : venue'[r] \in {"selected", "closed"}
      /\ UNCHANGED <<orders, told, mode, ledger, disk, engine, spent, loop>>
  <2>1. CASE Tick
    <3>1. \A n \in Nonces : orders[n] # NoOrder => orders[n].deadline \in Nat
      BY DEF TypeOK, Order
    <3>2. \A n \in Nonces : Executable(n)' => Executable(n)
      BY <2>1, <3>1, ConstantsTyped DEF Tick, Executable, NotFilled, TypeOK
    <3> QED
      BY <2>1, <3>2 DEF Tick, ToldExposed
  <2>2. ASSUME NEW r \in Rfqs, NEW v \in {"selected", "closed", "lost"},
               VenueDecides(r, v)
        PROVE  <1>1!:
    <3>1. venue' = [venue EXCEPT ![r] = v] /\ venue[r] # "lost"
      BY <2>2 DEF VenueDecides
    <3>2. \A n \in Nonces : Executable(n)' => Executable(n)
      BY <2>2, <3>1 DEF VenueDecides, Executable, NotFilled, TypeOK
    <3>3. \A q \in told : venue'[q] \in {"selected", "closed"}
      BY <2>2 DEF VenueDecides, ToldExposed, TypeOK
    <3> QED
      BY <2>2, <3>2, <3>3 DEF VenueDecides
  <2>3. ASSUME NEW n \in Nonces, Fill(n)
        PROVE  <1>1!:
    <3>1. fillBlock' = [fillBlock EXCEPT ![n] = height + 1] /\ height + 1 # 0
      BY <2>3 DEF Fill, TypeOK
    <3> QED
      BY <2>3, <3>1 DEF Fill, Executable, NotFilled, TypeOK, ToldExposed
  <2> QED
    BY <2>1, <2>2, <2>3 DEF World
<1>2. LiveOrdersClaimed' /\ FileCoversOrders'
  BY <1>1 DEF LiveOrdersClaimed, FileCoversOrders, Claims
<1>3. SpentFilled' /\ ToldExposed' /\ BusyUnclaimed'
  <2>1. spent \cup loop.seen \subseteq Nonces
    BY DEF TypeOK, LoopStates
  <2> QED
    BY <1>1, <2>1 DEF SpentFilled, ToldExposed, BusyUnclaimed, BusyRfq
<1> QED
  BY <1>2, <1>3

\* What the balance loop does touches no order and no claim, and what it reports
\* spent is filled.
LEMMA LoopClaims == IInv /\ BalanceLoop => ClaimInv'
<1> SUFFICES ASSUME IInv, BalanceLoop PROVE ClaimInv'
  OBVIOUS
<1> USE DEF IInv, ClaimInv, responder, chain, shared
<1>1. UNCHANGED responder /\ spent' \cup loop'.seen \subseteq
        spent \cup loop.seen \cup {n \in Nonces : fillBlock[n] # 0}
  <2>0. IdleLoop.seen = {}
    BY DEF IdleLoop
  <2>1. CASE LoopRead
    BY <2>1 DEF LoopRead, IdleLoop
  <2>2. ASSUME NEW b \in 0..height, ArriveBatch(b)
        PROVE  <1>1!:
    <3>1. \A seen \in SeenSets(b) : seen \subseteq {n \in Nonces : fillBlock[n] # 0}
      BY DEF SeenSets, Spent, TypeOK, LoopStates
    <3>2. CASE loop' = IdleLoop
      BY <2>0, <2>2, <3>2 DEF ArriveBatch
    <3>3. ASSUME NEW seen \in SeenSets(b),
                 loop' = [loop EXCEPT !.phase = "publishing", !.at = now,
                                      !.blocks = [t \in Tokens |-> b],
                                      !.seen = seen, !.todo = Tokens]
          PROVE  <1>1!:
      <4>1. loop'.seen = seen
        BY <3>3 DEF TypeOK, LoopStates
      <4> QED
        BY <2>2, <3>1, <4>1 DEF ArriveBatch
    <3> QED
      BY <2>2, <3>2, <3>3 DEF ArriveBatch
  <2>3. ASSUME NEW blocks \in [Tokens -> 0..height], ArriveUnordered(blocks)
        PROVE  <1>1!:
    <3>1. loop'.seen = {} \/ loop'.seen = loop.seen
      BY <2>0, <2>3 DEF ArriveUnordered, TypeOK, LoopStates
    <3> QED
      BY <2>3, <3>1 DEF ArriveUnordered
  <2>4. CASE LoopFails
    BY <2>0, <2>4 DEF LoopFails
  <2>5. ASSUME NEW t \in Tokens, PublishBalance(t) \/ SkipBalance(t)
        PROVE  <1>1!:
    <3>1. loop'.seen = loop.seen
      BY <2>5 DEF PublishBalance, SkipBalance, TypeOK, LoopStates
    <3> QED
      BY <2>5, <3>1 DEF PublishBalance, SkipBalance
  <2>6. CASE PublishSpent
    BY <2>0, <2>6 DEF PublishSpent
  <2> QED
    BY <2>1, <2>2, <2>3, <2>4, <2>5, <2>6 DEF BalanceLoop
<1>2. \A n \in Nonces : Executable(n)' = Executable(n)
  BY <1>1 DEF Executable, NotFilled
<1>3. LiveOrdersClaimed' /\ FileCoversOrders'
  BY <1>1, <1>2 DEF LiveOrdersClaimed, FileCoversOrders, Claims
<1>4. SpentFilled' /\ ToldExposed' /\ BusyUnclaimed'
  BY <1>1 DEF SpentFilled, ToldExposed, BusyUnclaimed, BusyRfq
<1> QED
  BY <1>3, <1>4

\* A change to the ledger between requests that keeps every order claimed, leaves
\* exposed claims exposed and adds none preserves the invariant.
LEMMA SavedClaims ==
  ASSUME IInv, mode = "online", engine = IdleEngine,
         NEW l \in [Rfqs -> Claim \cup {NoRow}], Keeps(l), Save(l),
         \A r \in told : l[r] = NoRow \/ l[r] = ledger[r],
         UNCHANGED <<now, fillBlock, venue, told, orders, mode, loop>>,
         spent' \subseteq spent,
         engine' = IdleEngine \/
           \E r \in Rfqs : /\ venue[r] = "open"
                           /\ ledger'[r] = NoRow
                           /\ engine' = [pc |-> "pricing", rfq |-> r]
  PROVE  ClaimInv'
<1> USE DEF IInv, ClaimInv
<1>1. Keeps(ledger)' /\ FileCoversOrders'
  BY SaveKeeps
<1>2. LiveOrdersClaimed'
  BY <1>1 DEF Keeps, LiveOrdersClaimed
<1>3. SpentFilled' /\ ToldExposed'
  BY DEF SpentFilled, ToldExposed, Save
<1>4. BusyUnclaimed'
  BY DEF BusyUnclaimed, BusyRfq, ToldExposed
<1> QED
  BY <1>1, <1>2, <1>3, <1>4

\* The responder drops no claim an order needs, and claims every order it sends
\* before it sends it.
LEMMA ResponderClaims ==
  ASSUME SkewCovers, Durable
  PROVE  IInv /\ Responder => ClaimInv'
<1> SUFFICES ASSUME IInv, Responder PROVE ClaimInv'
  OBVIOUS
<1> USE DEF outside, chain, shared, reader
<1>0. /\ TypeOK /\ ClaimInv
      /\ ledger \in [Rfqs -> Claim \cup {NoRow}]
      /\ mode = "online" => Keeps(ledger)
  BY DEF IInv, ClaimInv, TypeOK, LiveOrdersClaimed, Keeps
<1>1. ASSUME Serving, ReleaseFills,
             UNCHANGED <<now, fillBlock, venue, told, orders, mode, loop>>,
             engine' = IdleEngine \/
               \E r \in Rfqs : /\ venue[r] = "open"
                               /\ ledger'[r] = NoRow
                               /\ engine' = [pc |-> "pricing", rfq |-> r]
      PROVE  ClaimInv'
  <2> DEFINE l == WithoutFilled(ledger, spent)
  <2>1. l \in [Rfqs -> Claim \cup {NoRow}]
    BY <1>0 DEF WithoutFilled
  <2>2. Keeps(l)
    BY <1>0, <1>1, WithoutFilledKeeps DEF Serving, ClaimInv
  <2>3. \A r \in told : l[r] = NoRow \/ l[r] = ledger[r]
    BY <1>0 DEF WithoutFilled, TypeOK
  <2>4. Save(l) /\ spent' \subseteq spent
    BY <1>1 DEF ReleaseFills
  <2> HIDE DEF l
  <2> QED
    BY <1>1, <2>1, <2>2, <2>3, <2>4, SavedClaims DEF Serving
<1>2. ASSUME NEW r \in Rfqs, QuoteRequest(r)
      PROVE  ClaimInv'
  BY <1>1, <1>2 DEF QuoteRequest
<1>3. ASSUME NEW r \in Rfqs, MarkExposed(r), venue[r] \in {"selected", "closed"}
      PROVE  ClaimInv'
  <2>1. Keeps(Exposed(ledger, r))
    BY <1>0, <1>3, ExposedKeeps DEF MarkExposed, Serving
  <2>2. \A n \in Nonces : Executable(n)' = Executable(n)
    BY <1>3 DEF MarkExposed, Executable, NotFilled
  <2>3. LiveOrdersClaimed'
    BY <1>3, <2>1, <2>2 DEF MarkExposed, LiveOrdersClaimed, Keeps, Claims
  <2>4. FileCoversOrders'
    BY <1>0, <1>3, <2>2 DEF MarkExposed, FileCoversOrders, Claims, ClaimInv
  <2>5. ToldExposed'
    <3>1. ASSUME NEW q \in told \cup {r}, Exposed(ledger, r)[q] # NoRow
          PROVE  Exposed(ledger, r)[q].exposed
      <4>1. CASE q = r /\ ledger[r] # NoRow
        <5>1. ledger[r] \in Claim
          BY <1>0, <4>1
        <5> QED
          BY <1>0, <4>1, <5>1 DEF Exposed, Claim
      <4>2. CASE q = r /\ ledger[r] = NoRow
        BY <3>1, <4>2 DEF Exposed
      <4>3. CASE q # r
        BY <1>0, <3>1, <4>3 DEF Exposed, ClaimInv, ToldExposed, TypeOK
      <4> QED
        BY <4>1, <4>2, <4>3
    <3> QED
      BY <1>0, <1>3, <3>1 DEF MarkExposed, ToldExposed, ClaimInv
  <2>6. SpentFilled' /\ BusyUnclaimed'
    BY <1>0, <1>3 DEF MarkExposed, Serving, SpentFilled, BusyUnclaimed, ClaimInv
  <2> QED
    BY <2>3, <2>4, <2>5, <2>6 DEF ClaimInv
<1>4. ASSUME NEW r \in Rfqs, OnLoser(r)
      PROVE  ClaimInv'
  <2> DEFINE l == WithoutLoser(ledger, r)
  <2>1. l \in [Rfqs -> Claim \cup {NoRow}]
    BY <1>0, LedgerTypes
  <2>2. Keeps(l)
    BY <1>0, <1>4, WithoutLoserKeeps DEF OnLoser, Serving, ClaimInv
  <2>3. \A q \in told : l[q] = NoRow \/ l[q] = ledger[q]
    BY <1>0 DEF WithoutLoser, TypeOK
  <2>4. Save(l) /\ spent' \subseteq spent
    BY <1>4 DEF OnLoser
  <2> HIDE DEF l
  <2> QED
    BY <1>4, <2>1, <2>2, <2>3, <2>4, SavedClaims DEF OnLoser, Serving
<1>5. ASSUME NEW n \in Nonces, NEW o \in Candidates, Price(n, o)
      PROVE  ClaimInv'
  <2>1. BusyUnclaimed'
    BY <1>0, <1>5 DEF Price, BusyUnclaimed, BusyRfq, ClaimInv, IdleEngine
  <2>2. \A m \in Nonces : Executable(m)' = Executable(m)
    BY <1>5 DEF Price, Executable, NotFilled
  <2> QED
    BY <1>0, <1>5, <2>1, <2>2
       DEF Price, ClaimInv, LiveOrdersClaimed, FileCoversOrders, Claims,
           SpentFilled, ToldExposed
<1>6. CASE Withhold
  <2>1. \A m \in Nonces : Executable(m)' = Executable(m)
    BY <1>6 DEF Withhold, Executable, NotFilled
  <2> QED
    BY <1>0, <1>6, <2>1
       DEF Withhold, ClaimInv, LiveOrdersClaimed, FileCoversOrders, Claims,
           SpentFilled, ToldExposed, BusyUnclaimed
<1>7. CASE Reply
  <2> DEFINE k == engine.nonce
             o == engine.order
             row == NewClaim(k, o)
  <2>1. k \in Nonces /\ o \in Order /\ o.rfq \in Rfqs
    BY <1>0, <1>7, EngineFields DEF Reply, Order
  <2>2. row \in Claim
    BY <2>1, ConstantsTyped DEF NewClaim, Claim, Order
  <2>3. /\ mode = "online"
        /\ ledger[o.rfq] = NoRow
        /\ o.rfq \notin told
    BY <1>0, <1>7 DEF Reply, ClaimInv, BusyUnclaimed, BusyRfq, IdleEngine
  <2>4. /\ ledger' = [ledger EXCEPT ![o.rfq] = row]
        /\ ledger' \in [Rfqs -> Claim \cup {NoRow}]
    BY <1>0, <1>7, <2>1, <2>2 DEF Reply
  <2>5. ASSUME NEW n \in Nonces, Executable(n)'
        PROVE  Claims(ledger[orders[n].rfq], n)' /\ orders'[n].rfq \in Rfqs
    <3>1. CASE orders'[n] = orders[n]
      <4>1. Executable(n)
        BY <1>7, <2>5, <3>1 DEF Reply, Executable, NotFilled
      <4>2. Claims(ledger[orders[n].rfq], n) /\ orders[n].rfq \in Rfqs
        BY <1>0, <2>3, <4>1, ExecutableOrder DEF Keeps
      <4>3. orders[n].rfq # o.rfq
        BY <2>3, <4>2 DEF Claims
      <4> QED
        BY <1>0, <2>1, <2>4, <3>1, <4>2, <4>3 DEF Claims
    <3>2. CASE orders'[n] # orders[n]
      <4>1. n = k /\ orders'[n] = o
        BY <1>0, <1>7, <2>1, <3>2 DEF Reply, TypeOK
      <4>2. ledger'[o.rfq] = row /\ row # NoRow
        BY <1>0, <2>1, <2>2, <2>4, NullsDistinct
      <4> QED
        BY <2>1, <4>1, <4>2 DEF Claims, NewClaim
    <3> QED
      BY <3>1, <3>2
  <2>6. ASSUME NEW n \in Nonces, Executable(n)'
        PROVE  Claims(disk[orders[n].rfq], n)'
    <3>1. CASE disk' = Stored(ledger')
      <4>1. ASSUME NEW r \in Rfqs, Claims(ledger[r], n)'
            PROVE  Claims(Stored(ledger)[r], n)'
        <5>1. ledger'[r] \in Claim
          BY <2>4, <4>1 DEF Claims
        <5>2. Stored(ledger)'[r] =
                [nonce |-> ledger'[r].nonce, token |-> ledger'[r].token,
                 input |-> ledger'[r].input, releaseAt |-> ledger'[r].releaseAt]
          BY <4>1 DEF Claims, Stored
        <5>3. Stored(ledger)'[r] \in Entry
          BY <5>1, <5>2 DEF Claim, Entry
        <5> QED
          BY <4>1, <5>2, <5>3, NullsDistinct DEF Claims
      <4> QED
        BY <2>5, <2>6, <3>1, <4>1 DEF Claims, Stored
    <3>2. CASE disk' # Stored(ledger')
      <4>1. disk' = disk /\ orders' = orders
        BY <1>7, <3>2 DEF Reply, Writes, Durable
      <4>2. Executable(n)
        BY <1>7, <2>6, <4>1 DEF Reply, Executable, NotFilled
      <4> QED
        BY <1>0, <4>1, <4>2 DEF Claims, ClaimInv, FileCoversOrders
    <3> QED
      BY <3>1, <3>2
  <2>7. ToldExposed'
    BY <1>0, <1>7, <2>1, <2>3, <2>4 DEF Reply, ToldExposed, ClaimInv, TypeOK
  <2>8. SpentFilled' /\ BusyUnclaimed'
    BY <1>0, <1>7 DEF Reply, SpentFilled, BusyUnclaimed, ClaimInv
  <2> QED
    BY <2>5, <2>6, <2>7, <2>8 DEF ClaimInv, LiveOrdersClaimed, FileCoversOrders
<1>8. CASE LevelsTick
  <2> DEFINE l == Pruned(ledger)
  <2>1. l \in [Rfqs -> Claim \cup {NoRow}]
    BY <1>0 DEF Pruned
  <2>2. Keeps(l)
    BY <1>0, <1>8, PrunedKeeps DEF LevelsTick, Serving
  <2>3. \A r \in told : l[r] = NoRow \/ l[r] = ledger[r]
    BY <1>0 DEF Pruned, TypeOK
  <2>4. Save(l) /\ spent' \subseteq spent
    BY <1>8 DEF LevelsTick
  <2> HIDE DEF l
  <2> QED
    BY <1>8, <2>1, <2>2, <2>3, <2>4, SavedClaims DEF LevelsTick, Serving
<1>9. CASE LevelFrames
  BY <1>1, <1>9 DEF LevelFrames, Serving
<1> QED
  BY <1>2, <1>3, <1>4, <1>5, <1>6, <1>7, <1>8, <1>9
     DEF Responder, OnSelected, OnQuoteExpired

\* A session's end keeps the ledger, a crash keeps the file, and a restart takes
\* its ledger from the file.
LEMMA ProcessClaims ==
  ASSUME SkewCovers
  PROVE  IInv /\ Process => ClaimInv'
<1> SUFFICES ASSUME IInv, Process PROVE ClaimInv'
  OBVIOUS
<1> USE DEF IInv, ClaimInv, outside, chain, shared, reader
<1>1. \A n \in Nonces : Executable(n)' = Executable(n)
  BY DEF Process, Connect, Disconnect, Crash, Start, Executable, NotFilled
<1>2. FileCoversOrders'
  BY <1>1 DEF Process, Connect, Disconnect, Crash, Start, FileCoversOrders, Claims
<1>3. CASE Connect \/ Disconnect
  <2>1. UNCHANGED <<told, ledger, engine, spent, loop, orders, venue, fillBlock>>
    BY <1>3 DEF Connect, Disconnect
  <2>2. mode # "down" /\ engine = IdleEngine
    BY <1>3 DEF Connect, Disconnect, Serving, BusyUnclaimed
  <2>3. LiveOrdersClaimed'
    BY <1>1, <2>1, <2>2 DEF LiveOrdersClaimed, Claims
  <2> QED
    BY <1>2, <2>1, <2>2, <2>3 DEF SpentFilled, ToldExposed, BusyUnclaimed
<1>4. CASE Crash
  <2>1. LiveOrdersClaimed'
    BY <1>4 DEF Crash, LiveOrdersClaimed
  <2>2. ToldExposed'
    BY <1>4 DEF Crash, ToldExposed, EmptyLedger, TypeOK
  <2> QED
    BY <1>2, <1>4, <2>1, <2>2
       DEF Crash, IdleLoop, SpentFilled, BusyUnclaimed
<1>5. CASE Start
  <2>1. Keeps(Loaded(disk))
    BY LoadedKeeps
  <2>2. LiveOrdersClaimed'
    BY <1>1, <1>5, <2>1 DEF Start, Keeps, LiveOrdersClaimed, Claims
  <2>3. ToldExposed'
    BY <1>5 DEF Start, ToldExposed, Loaded, Live
  <2>4. engine = IdleEngine
    BY <1>5 DEF Start, BusyUnclaimed
  <2> QED
    BY <1>2, <1>5, <2>2, <2>3, <2>4
       DEF Start, SpentFilled, BusyUnclaimed
<1> QED
  BY <1>3, <1>4, <1>5 DEF Process

\* Every step keeps every usable order claimed.
LEMMA ClaimStep ==
  ASSUME SkewCovers, Durable
  PROVE  IInv /\ [Next]_vars => ClaimInv'
<1> SUFFICES ASSUME IInv, [Next]_vars PROVE ClaimInv'
  OBVIOUS
<1>1. CASE UNCHANGED vars
  <2>1. \A n \in Nonces : Executable(n)' = Executable(n)
    BY <1>1 DEF vars, chain, shared, reader, Executable, NotFilled
  <2> QED
    BY <1>1, <2>1
       DEF IInv, ClaimInv, vars, chain, shared, reader, LiveOrdersClaimed,
           FileCoversOrders, Claims, SpentFilled, ToldExposed, BusyUnclaimed,
           BusyRfq
<1> QED
  BY <1>1, WorldClaims, ResponderClaims, ProcessClaims, LoopClaims DEF Next

\* The inductive invariant, when a claim outlives its order and no unpersisted
\* reply is sent.
THEOREM LedgerInvariant ==
  ASSUME SkewCovers, Durable
  PROVE  Spec => []IInv
<1>1. Init => IInv
  BY InitTypeOK, InitClaimInv DEF IInv
<1>2. IInv /\ [Next]_vars => IInv'
  BY TypeStep, ClaimStep DEF IInv
<1> QED
  BY <1>1, <1>2, PTL DEF Spec

\* Every order a taker may still use is claimed in the running ledger, through
\* any interleaving of requests, results, expiries, fills, reconnects, crashes
\* and failed writes.
THEOREM OrdersStayClaimed ==
  ASSUME SkewCovers, Durable
  PROVE  Spec => []LiveOrdersClaimed
<1>1. IInv => LiveOrdersClaimed
  BY DEF IInv, ClaimInv
<1> QED
  BY <1>1, LedgerInvariant, PTL

\* The ledger file claims it too, so that no crash forgets it.
THEOREM OrdersStayOnFile ==
  ASSUME SkewCovers, Durable
  PROVE  Spec => []FileCoversOrders
<1>1. IInv => FileCoversOrders
  BY DEF IInv, ClaimInv
<1> QED
  BY <1>1, LedgerInvariant, PTL

(***************************************************************************)
(* A fill is never missing from the balance and from the claims at once.   *)
(***************************************************************************)

\* A reading from before a fill has gone stale before the fill's claim is
\* pruned, whether it came late or from a node behind the chain.
Timely ==
  /\ ChainSkew + Ttl < Skew
  /\ ChainSkew + NodeLag + RpcMax + Ttl =< Skew

\* A reading that arrived at `at` may be from before the fill of n.
MayMiss(at, n) == at =< fillTime[n] \/ at < fillTime[n] + NodeLag + RpcMax

\* A filled order was signed, selected and in time, and no nonce is signed twice.
FillsInTime ==
  /\ engine.pc = "signing" => orders[engine.nonce] = NoOrder
  /\ \A n \in Nonces : fillBlock[n] # 0 =>
       /\ orders[n] # NoOrder
       /\ venue[orders[n].rfq] \in {"selected", "closed"}
       /\ fillTime[n] =< orders[n].deadline + ChainSkew
       /\ fillTime[n] =< now

\* A process that is down reads nothing and has read nothing.
DownReadsNothing ==
  mode = "down" => /\ loop.phase = "idle"
                   /\ \A t \in Tokens : cache[t] = NoReading

\* How late the readings in the cache and on their way to it may be.
ReadingsAge ==
  /\ \A t \in Tokens : cache[t] # NoReading =>
       /\ cache[t].at =< now
       /\ \A n \in Nonces : cache[t].block < fillBlock[n] => MayMiss(cache[t].at, n)
  /\ loop.phase = "publishing" =>
       /\ loop.at =< now
       /\ \A t \in Tokens, n \in Nonces :
            loop.blocks[t] < fillBlock[n] => MayMiss(loop.at, n)

\* A batch is of one block, the newest published; answers of several blocks show no
\* spent nonce and come before any batch.
OneBlock ==
  IF loop.phase = "publishing"
  THEN \/ \A t \in Tokens : loop.blocks[t] = clock
       \/ clock = -1 /\ loop.seen = {}
  ELSE loop.seen = {}

Shows(t, n) == cache[t] # NoReading => cache[t].block >= fillBlock[n]

\* No answer to come is from before the fill of n: a batch that old is dropped, or
\* nodes do not lag and the read on its way was sent after the fill.
NoneMisses(n) ==
  \/ fillBlock[n] \in 1..clock
  \/ /\ NodeLag = 0
     /\ loop.phase = "reading" => fillTime[n] =< loop.at
     /\ loop.phase = "publishing" => \A t \in Tokens : loop.blocks[t] >= fillBlock[n]

\* No balance in the cache, nor any to come, is from before the fill of n.
Counted(n) ==
  /\ fillBlock[n] # 0
  /\ NoneMisses(n)
  /\ \A t \in Tokens : Shows(t, n)

\* A nonce is reported spent when every balance shows its fill.
SpentCounted ==
  /\ \A n \in spent : Counted(n)
  /\ \A n \in loop.seen : /\ fillBlock[n] \in 1..clock
                          /\ \A t \in Tokens \ loop.todo : Shows(t, n)

\* A fill's claim goes, from the running ledger and from the file, only when it is
\* due or every balance shows the fill.
Held(n) ==
  /\ mode # "down" => Claims(ledger[orders[n].rfq], n)
  /\ Claims(disk[orders[n].rfq], n)

ClaimedOrCounted ==
  \A n \in Nonces : fillBlock[n] # 0 =>
    \/ Held(n)
    \/ orders[n].deadline + Skew =< now
    \/ Counted(n)

FillInv ==
  /\ FillsInTime /\ DownReadsNothing /\ ReadingsAge /\ OneBlock
  /\ SpentCounted /\ ClaimedOrCounted

\* The types the invariant is about.
LEMMA FillTypes ==
  TypeOK => /\ now \in Nat /\ height \in Nat
            /\ fillBlock \in [Nonces -> Nat] /\ fillTime \in [Nonces -> Nat]
            /\ \A n \in Nonces : orders[n] # NoOrder =>
                 /\ orders[n].rfq \in Rfqs /\ orders[n].token \in Tokens
                 /\ orders[n].deadline \in Nat
            /\ \A t \in Tokens : cache[t] # NoReading => cache[t].block \in Nat /\ cache[t].at \in Nat
            /\ loop.at \in Nat /\ loop.blocks \in [Tokens -> Nat]
            /\ loop.seen \subseteq Nonces /\ spent \subseteq Nonces /\ loop.watched \subseteq Nonces
            /\ clock \in Nat \cup {-1}
            /\ {Skew, Ttl, ChainSkew, NodeLag, RpcMax} \subseteq Nat
BY ConstantsTyped DEF TypeOK, Order, LoopStates

\* The program starts without a fill.
LEMMA InitFills == Init => FillInv
BY DEF Init, FillInv, FillsInTime, DownReadsNothing, ReadingsAge, OneBlock, SpentCounted,
       ClaimedOrCounted, IdleEngine, IdleLoop

\* What is counted stays so while the readings and the fills do.
LEMMA StaysCounted ==
  ASSUME FillInv, UNCHANGED <<fillBlock, fillTime, cache, clock, loop>>
  PROVE  /\ \A n \in Nonces : Counted(n) => Counted(n)'
         /\ spent' \subseteq spent => SpentCounted'
         /\ OneBlock'
BY DEF FillInv, Counted, NoneMisses, Shows, SpentCounted, OneBlock

\* A claim stays what it is while the row and the order do.
LEMMA SameClaim ==
  ASSUME NEW n \in Nonces, orders'[n] = orders[n],
         ledger'[orders[n].rfq] = ledger[orders[n].rfq]
  PROVE  Claims(ledger[orders[n].rfq], n) => Claims(ledger[orders[n].rfq], n)'
BY DEF Claims

\* A fill's claims stay while the rows and the orders do.
LEMMA SameHeld ==
  ASSUME UNCHANGED <<mode, ledger, disk, orders>>, NEW n \in Nonces
  PROVE  Held(n) => Held(n)'
BY DEF Held, Claims

\* Time only passes, rounds that were selected stay so, and a new fill is of an
\* order that is claimed.
LEMMA WorldFills == IInv /\ FillInv /\ World => FillInv'
<1> SUFFICES ASSUME IInv, FillInv, World PROVE FillInv'
  OBVIOUS
<1> USE DEF FillInv, chain, world, shared, reader
<1> TypeOK
  BY DEF IInv
<1>1. /\ UNCHANGED <<mode, ledger, disk, orders, engine, cache, spent, clock, loop>>
      /\ now' \in Nat /\ now' >= now /\ DownReadsNothing'
  BY FillTypes DEF World, Tick, VenueDecides, Fill, DownReadsNothing
<1>2. CASE Tick \/ \E r \in Rfqs, v \in {"selected", "closed", "lost"} : VenueDecides(r, v)
  <2>1. UNCHANGED <<fillBlock, fillTime>>
    BY <1>2 DEF Tick, VenueDecides
  <2>2. SpentCounted' /\ OneBlock' /\ \A n \in Nonces : Counted(n) => Counted(n)'
    BY <1>1, <2>1, StaysCounted
  <2>3. \A r \in Rfqs : venue[r] \in {"selected", "closed"} => venue'[r] \in {"selected", "closed"}
    BY <1>2 DEF Tick, VenueDecides, TypeOK
  <2>4. FillsInTime'
    BY <1>1, <2>1, <2>3, FillTypes DEF FillsInTime
  <2>5. ReadingsAge'
    BY <1>1, <2>1, FillTypes DEF ReadingsAge, MayMiss
  <2>6. ClaimedOrCounted'
    <3> SUFFICES ASSUME NEW n \in Nonces, fillBlock[n] # 0
                 PROVE  \/ Held(n)'
                        \/ orders[n].deadline + Skew =< now'
                        \/ Counted(n)'
      BY <1>1, <2>1 DEF ClaimedOrCounted
    <3>1. orders[n].deadline \in Nat
      BY FillTypes DEF FillsInTime
    <3>2. Held(n) => Held(n)'
      BY <1>1, SameHeld
    <3> QED
      BY <1>1, <2>2, <3>1, <3>2, FillTypes DEF ClaimedOrCounted
  <2> QED
    BY <1>1, <2>2, <2>4, <2>5, <2>6
<1>3. ASSUME NEW m \in Nonces, Fill(m) PROVE FillInv'
  <2>1. /\ fillBlock[m] = 0 /\ fillBlock' = [fillBlock EXCEPT ![m] = height + 1]
        /\ fillTime' = [fillTime EXCEPT ![m] = now] /\ UNCHANGED <<now, venue>>
    BY <1>3 DEF Fill, Executable, NotFilled
  <2>2. \A n \in Nonces \ {m} : fillBlock'[n] = fillBlock[n] /\ fillTime'[n] = fillTime[n]
    BY <2>1, FillTypes
  <2>3. fillBlock'[m] = height + 1 /\ fillTime'[m] = now
    BY <2>1, FillTypes
  <2>4. m \notin spent \cup loop.seen
    BY <2>1 DEF IInv, ClaimInv, SpentFilled
  <2>5. ASSUME NEW n \in Nonces, Counted(n) PROVE n # m /\ Counted(n)'
    <3>1. n # m
      BY <2>1, <2>5 DEF Counted
    <3> QED
      BY <1>1, <2>2, <2>5, <3>1 DEF Counted, NoneMisses, Shows
  <2>6. SpentCounted'
    BY <1>1, <2>2, <2>4, <2>5, FillTypes DEF SpentCounted, Shows
  <2>7. FillsInTime'
    BY <1>1, <1>3, <2>1, <2>2, <2>3, FillTypes DEF FillsInTime, Fill, Executable
  <2>8. ReadingsAge'
    BY <1>1, <2>1, <2>2, <2>3, FillTypes DEF ReadingsAge, MayMiss
  <2>9. ClaimedOrCounted'
    <3> SUFFICES ASSUME NEW n \in Nonces, fillBlock'[n] # 0
                 PROVE  \/ Held(n)'
                        \/ orders[n].deadline + Skew =< now
                        \/ Counted(n)'
      BY <1>1, <2>1 DEF ClaimedOrCounted
    <3>1. Held(n) => Held(n)'
      BY <1>1, SameHeld
    <3>2. CASE n = m
      BY <1>3, <3>1, <3>2
         DEF Fill, IInv, ClaimInv, LiveOrdersClaimed, FileCoversOrders, Held
    <3>3. CASE n # m
      BY <2>2, <2>5, <3>1, <3>3 DEF ClaimedOrCounted
    <3> QED
      BY <3>2, <3>3
  <2> QED
    BY <1>1, <2>6, <2>7, <2>8, <2>9 DEF OneBlock
<1> QED
  BY <1>2, <1>3 DEF World

\* The loop lets the spent nonces out after the balances, and never goes back to an
\* older block.
LEMMA LoopFills ==
  ASSUME ~PartialBatches
  PROVE  IInv /\ FillInv /\ BalanceLoop => FillInv'
<1> SUFFICES ASSUME IInv, FillInv, BalanceLoop PROVE FillInv'
  OBVIOUS
<1> USE DEF FillInv, responder, shared, chain
<1> TypeOK
  BY DEF IInv
<1>0. IdleLoop.phase = "idle" /\ IdleLoop.seen = {}
  BY DEF IdleLoop
<1>1. UNCHANGED responder
  BY DEF BalanceLoop, LoopRead, ArriveBatch, ArriveUnordered, LoopFails, PublishBalance,
         SkipBalance, PublishSpent
<1>2. FillsInTime' /\ DownReadsNothing'
  <2>1. FillsInTime'
    BY <1>1 DEF FillsInTime
  <2>2. mode # "down" => DownReadsNothing'
    BY <1>1 DEF DownReadsNothing
  <2>3. mode # "down"
    BY DEF DownReadsNothing, BalanceLoop, LoopRead, ArriveBatch, ArriveUnordered, InTime,
       LoopFails, PublishBalance, SkipBalance, PublishSpent
  <2> QED
    BY <2>1, <2>2, <2>3
<1>3. ASSUME \A n \in Nonces : Counted(n) => Counted(n)' PROVE ClaimedOrCounted'
  <2> SUFFICES ASSUME NEW n \in Nonces, fillBlock[n] # 0
               PROVE  \/ Held(n)'
                      \/ orders[n].deadline + Skew =< now
                      \/ Counted(n)'
    BY <1>1 DEF ClaimedOrCounted
  <2>1. Held(n) => Held(n)'
    BY <1>1, SameHeld
  <2> QED
    BY <1>3, <2>1 DEF ClaimedOrCounted
<1>4. ASSUME UNCHANGED <<cache, spent, clock>>, loop'.phase # "publishing", loop'.seen = {},
             loop'.phase = "reading" => loop'.at = now
      PROVE  FillInv'
  <2>1. \A n \in Nonces : Counted(n) => Counted(n)'
    BY <1>1, <1>4 DEF Counted, NoneMisses, Shows, FillsInTime
  <2>2. SpentCounted'
    BY <1>4, <2>1, FillTypes DEF SpentCounted
  <2>3. ReadingsAge' /\ OneBlock'
    BY <1>1, <1>4 DEF ReadingsAge, MayMiss, OneBlock
  <2> QED
    BY <1>2, <1>3, <2>1, <2>2, <2>3
<1>5. CASE LoopRead \/ LoopFails
  <2>1. /\ UNCHANGED <<cache, spent, clock>>
        /\ loop'.phase # "publishing" /\ loop'.seen = {}
        /\ loop'.phase = "reading" => loop'.at = now
    <3>1. CASE LoopRead
      BY <3>1 DEF LoopRead, IdleLoop
    <3>2. CASE LoopFails
      BY <1>0, <3>2 DEF LoopFails
    <3> QED
      BY <1>5, <3>1, <3>2
  <2> QED
    BY <1>4, <2>1
\* Whatever a node leaves out at block b was filled lately.
<1>6. ASSUME InTime, NEW b \in Blocks, NEW n \in Nonces, b < fillBlock[n]
      PROVE  MayMiss(now, n)
  <2>1. fillBlock[n] # 0 /\ b \in Nat
    BY <1>6, FillTypes DEF Blocks
  <2>2. ~(fillTime[n] + NodeLag =< loop.at)
    BY <1>6, <2>1, FillTypes DEF Blocks, Serves
  <2> QED
    BY <1>6, <2>2, FillTypes DEF InTime, MayMiss
\* A node that does not lag leaves out nothing filled before it was asked.
<1>11. ASSUME InTime, NEW b \in Blocks, NEW n \in Nonces, Counted(n)
       PROVE  fillBlock[n] \in 1..clock \/ (NodeLag = 0 /\ b >= fillBlock[n])
  <2>1. CASE fillBlock[n] \in 1..clock
    BY <2>1
  <2>2. CASE NodeLag = 0 /\ fillTime[n] =< loop.at
    <3>1. fillTime[n] + NodeLag =< loop.at
      BY <2>2, FillTypes
    <3> QED
      BY <1>11, <2>2, <3>1 DEF Blocks, Serves, Counted
  <2> QED
    BY <1>11, <2>1, <2>2 DEF Counted, NoneMisses, InTime
<1>7. ASSUME NEW b \in 0..height, ArriveBatch(b) PROVE FillInv'
  <2>1. CASE b < clock
    <3>1. ~(b >= clock)
      BY <2>1, FillTypes
    <3>2. loop' = IdleLoop /\ UNCHANGED <<cache, spent, clock>>
      BY <1>7, <3>1 DEF ArriveBatch
    <3> QED
      BY <1>0, <1>4, <3>2
  <2>2. CASE ~(b < clock)
    <3>1. /\ InTime /\ b \in Blocks /\ clock' = b /\ b >= clock
          /\ UNCHANGED <<cache, spent>>
          /\ loop' = [loop EXCEPT !.phase = "publishing", !.at = now,
                                  !.blocks = [t \in Tokens |-> b],
                                  !.seen = Spent(b), !.todo = Tokens]
      BY <1>7, <2>2 DEF ArriveBatch, SeenSets
    <3>2. /\ loop'.phase = "publishing" /\ loop'.at = now
          /\ loop'.blocks = [t \in Tokens |-> b]
          /\ loop'.seen = Spent(b) /\ loop'.todo = Tokens
      BY <3>1 DEF TypeOK, LoopStates
    <3>3. ASSUME NEW n \in Nonces, Counted(n) PROVE Counted(n)'
      <4>1. \/ fillBlock[n] \in 1..clock
            \/ NodeLag = 0 /\ b >= fillBlock[n]
        BY <1>11, <3>1, <3>3
      <4>2. NoneMisses(n)'
        BY <1>1, <3>1, <3>2, <4>1, FillTypes DEF NoneMisses
      <4> QED
        BY <1>1, <3>1, <3>3, <4>2 DEF Counted, Shows
    <3>4. SpentCounted'
      BY <1>1, <3>1, <3>2, <3>3, FillTypes DEF SpentCounted, Spent
    <3>5. ReadingsAge'
      BY <1>1, <1>6, <3>1, <3>2, FillTypes DEF ReadingsAge, MayMiss
    <3>6. OneBlock'
      BY <3>1, <3>2 DEF OneBlock
    <3> QED
      BY <1>2, <1>3, <3>3, <3>4, <3>5, <3>6
  <2> QED
    BY <2>1, <2>2
<1>8. ASSUME NEW blocks \in [Tokens -> 0..height], ArriveUnordered(blocks) PROVE FillInv'
  <2>1. CASE clock >= 0
    BY <1>4, <1>8, <2>1 DEF ArriveUnordered, IdleLoop
  <2>2. CASE ~(clock >= 0)
    <3>1. /\ InTime /\ blocks \in [Tokens -> Blocks] /\ clock = -1
          /\ UNCHANGED <<cache, spent, clock>>
          /\ loop' = [loop EXCEPT !.phase = "publishing", !.at = now,
                                  !.blocks = blocks, !.todo = Tokens]
      BY <1>8, <2>2, FillTypes DEF ArriveUnordered
    <3>2. loop.seen = {}
      BY <3>1 DEF OneBlock, InTime
    <3>3. /\ loop'.phase = "publishing" /\ loop'.at = now
          /\ loop'.blocks = blocks /\ loop'.seen = {}
      BY <3>1, <3>2 DEF TypeOK, LoopStates
    <3>4. ASSUME NEW n \in Nonces, Counted(n) PROVE Counted(n)'
      <4>1. ~(fillBlock[n] \in 1..clock)
        BY <3>1
      <4>2. \A t \in Tokens : blocks[t] >= fillBlock[n]
        BY <1>11, <3>1, <3>4, <4>1
      <4>3. NodeLag = 0
        BY <3>4, <4>1 DEF Counted, NoneMisses
      <4>4. NoneMisses(n)'
        BY <1>1, <3>3, <4>2, <4>3 DEF NoneMisses
      <4> QED
        BY <1>1, <3>1, <3>4, <4>4 DEF Counted, Shows
    <3>5. SpentCounted'
      BY <3>1, <3>3, <3>4, FillTypes DEF SpentCounted
    <3>6. ReadingsAge'
      BY <1>1, <1>6, <3>1, <3>3, FillTypes DEF ReadingsAge, MayMiss
    <3>7. OneBlock'
      BY <3>1, <3>3 DEF OneBlock
    <3> QED
      BY <1>2, <1>3, <3>4, <3>5, <3>6, <3>7
  <2> QED
    BY <2>1, <2>2
<1>9. ASSUME NEW t \in Tokens, PublishBalance(t) PROVE FillInv'
  <2>1. /\ loop.phase = "publishing" /\ UNCHANGED <<spent, clock>>
        /\ cache' = [cache EXCEPT ![t] = [block |-> loop.blocks[t], at |-> loop.at]]
        /\ loop' = [loop EXCEPT !.todo = @ \ {t}]
    BY <1>9 DEF PublishBalance
  <2>2. /\ loop'.phase = "publishing" /\ loop'.at = loop.at /\ loop'.blocks = loop.blocks
        /\ loop'.seen = loop.seen /\ loop'.todo = loop.todo \ {t}
    BY <2>1 DEF TypeOK, LoopStates
  <2>3. /\ cache'[t] # NoReading
        /\ cache'[t].block = loop.blocks[t] /\ cache'[t].at = loop.at
        /\ \A u \in Tokens \ {t} : cache'[u] = cache[u]
    <3> [block |-> loop.blocks[t], at |-> loop.at] \in [block : Nat, at : Nat]
      BY FillTypes
    <3> QED
      BY <2>1, NullsDistinct DEF TypeOK
  <2>4. ASSUME NEW n \in Nonces, NoneMisses(n)
        PROVE  Shows(t, n)'
    BY <1>1, <2>1, <2>3, <2>4, FillTypes DEF OneBlock, Shows, NoneMisses
  <2>5. \A n \in Nonces, u \in Tokens \ {t} : Shows(u, n) => Shows(u, n)'
    BY <1>1, <2>3 DEF Shows
  <2>6. \A n \in Nonces : Counted(n) => Counted(n)'
    BY <1>1, <2>1, <2>2, <2>4, <2>5 DEF Counted, NoneMisses
  <2>7. SpentCounted'
    <3>1. \A n \in loop.seen : Shows(t, n)'
      BY <2>4, FillTypes DEF SpentCounted, NoneMisses
    <3> QED
      BY <1>1, <2>1, <2>2, <2>5, <2>6, <3>1, FillTypes DEF SpentCounted
  <2>8. ReadingsAge'
    BY <1>1, <2>1, <2>2, <2>3 DEF ReadingsAge, MayMiss
  <2>9. OneBlock'
    BY <2>1, <2>2 DEF OneBlock
  <2> QED
    BY <1>2, <1>3, <2>6, <2>7, <2>8, <2>9
<1>10. CASE PublishSpent
  <2>1. /\ loop.phase = "publishing" /\ loop.todo = {} /\ spent' = spent \cup loop.seen
        /\ UNCHANGED <<cache, clock>>
        /\ loop'.phase = "idle" /\ loop'.seen = {}
    BY <1>10 DEF PublishSpent, IdleLoop
  <2>2. \A n \in Nonces : Counted(n) => Counted(n)'
    BY <1>1, <2>1 DEF Counted, NoneMisses, Shows
  <2>3. \A n \in loop.seen : Counted(n)
    BY <2>1, FillTypes DEF SpentCounted, Counted, NoneMisses
  <2>4. SpentCounted'
    BY <2>1, <2>2, <2>3, FillTypes DEF SpentCounted
  <2>5. ReadingsAge' /\ OneBlock'
    BY <1>1, <2>1 DEF ReadingsAge, MayMiss, OneBlock
  <2> QED
    BY <1>2, <1>3, <2>2, <2>4, <2>5
<1> QED
  BY <1>5, <1>7, <1>8, <1>9, <1>10 DEF BalanceLoop, SkipBalance

\* What the responder does to the ledger between two requests: a row of a filled
\* order goes only when it is due or the order is counted.
LEMMA LedgerFills ==
  ASSUME FillInv, mode # "down",
         UNCHANGED <<now, fillBlock, fillTime, orders, cache, clock, loop>>,
         ledger' \in [Rfqs -> Claim \cup {NoRow}],
         disk' = disk \/ disk' = Stored(ledger'),
         \A n \in Nonces : fillBlock[n] # 0 => orders[n].rfq \in Rfqs,
         \A n \in Nonces :
           fillBlock[n] # 0 /\ Claims(ledger[orders[n].rfq], n) =>
             \/ Claims(ledger'[orders[n].rfq], n)
             \/ orders[n].deadline + Skew =< now
             \/ Counted(n)
  PROVE  ClaimedOrCounted'
<1> SUFFICES ASSUME NEW n \in Nonces, fillBlock[n] # 0
             PROVE  \/ Held(n)'
                    \/ orders[n].deadline + Skew =< now
                    \/ Counted(n)'
  BY DEF ClaimedOrCounted
<1>1. Counted(n) => Counted(n)'
  BY StaysCounted
<1>2. ASSUME Held(n), Claims(ledger'[orders[n].rfq], n)
      PROVE  Held(n)'
  <2>1. Claims(disk'[orders[n].rfq], n)
    BY <1>2, StoredClaims DEF Held
  <2> QED
    BY <1>2, <2>1 DEF Held, Claims
<1> QED
  BY <1>1, <1>2 DEF FillInv, ClaimedOrCounted, Held

\* Such a step keeps the rest if it touches neither chain nor readings.
LEMMA SameReadings ==
  ASSUME TypeOK, FillInv,
         UNCHANGED <<now, fillBlock, fillTime, venue, orders, cache, clock, loop>>,
         spent' \subseteq spent, mode' # "down", ClaimedOrCounted',
         engine'.pc = "signing" => orders[engine'.nonce] = NoOrder
  PROVE  FillInv'
<1>1. SpentCounted' /\ OneBlock'
  BY StaysCounted
<1>2. FillsInTime' /\ DownReadsNothing' /\ ReadingsAge'
  BY DEF FillInv, FillsInTime, DownReadsNothing, ReadingsAge, MayMiss
<1> QED
  BY <1>1, <1>2 DEF FillInv

\* The responder drops claims as they come due, as the loop reports them or as
\* they lose, and signs no nonce twice.
LEMMA ResponderFills == IInv /\ FillInv /\ Responder => FillInv'
<1> SUFFICES ASSUME IInv, FillInv, Responder PROVE FillInv'
  OBVIOUS
<1> USE DEF outside, chain, shared, reader
<1> TypeOK
  BY DEF IInv
<1>1. /\ mode # "down" /\ mode' # "down"
      /\ ledger' \in [Rfqs -> Claim \cup {NoRow}]
      /\ UNCHANGED <<now, fillBlock, fillTime, venue, cache, clock, loop>>
  <2>1. mode # "down"
    BY EngineFields DEF Responder, QuoteRequest, OnSelected, OnQuoteExpired, OnLoser, Price,
       Withhold, Reply, LevelsTick, LevelFrames, MarkExposed, Serving, IInv, ClaimInv,
       BusyUnclaimed, IdleEngine
  <2>2. UNCHANGED <<mode, now, fillBlock, fillTime, venue, cache, clock, loop>>
    BY DEF Responder, QuoteRequest, OnSelected, OnQuoteExpired, OnLoser, Price, Withhold, Reply,
       LevelsTick, LevelFrames, ReleaseFills, MarkExposed
  <2>3. TypeOK'
    BY ResponderTypes
  <2> QED
    BY <2>1, <2>2, <2>3 DEF TypeOK
<1>2. ASSUME NEW n \in Nonces, fillBlock[n] # 0
      PROVE  /\ orders[n].rfq \in Rfqs /\ orders[n].deadline \in Nat
             /\ venue[orders[n].rfq] # "lost"
             /\ n \in spent => Counted(n)
  BY <1>2, FillTypes DEF FillInv, FillsInTime, SpentCounted
<1>3. ASSUME ReleaseFills, orders' = orders PROVE ClaimedOrCounted' /\ spent' \subseteq spent
  <2>1. ledger' = WithoutFilled(ledger, spent) /\ (disk' = disk \/ disk' = Stored(ledger'))
    BY <1>3 DEF ReleaseFills, Save
  <2>2. ASSUME NEW n \in Nonces, fillBlock[n] # 0, Claims(ledger[orders[n].rfq], n)
        PROVE  Claims(ledger'[orders[n].rfq], n) \/ Counted(n)
    BY <1>2, <2>1, <2>2 DEF WithoutFilled, Claims
  <2> QED
    BY <1>1, <1>2, <1>3, <2>1, <2>2, LedgerFills DEF ReleaseFills
<1>4. CASE (\E r \in Rfqs : QuoteRequest(r)) \/ LevelFrames
  <2>1. ReleaseFills /\ orders' = orders /\ engine'.pc # "signing"
    BY <1>4 DEF QuoteRequest, LevelFrames, Serving, IdleEngine
  <2> QED
    BY <1>1, <1>3, <2>1, SameReadings
<1>5. ASSUME NEW r \in Rfqs, OnSelected(r) \/ OnQuoteExpired(r) PROVE FillInv'
  <2>1. ledger' = Exposed(ledger, r) /\ UNCHANGED <<orders, spent, disk>> /\ engine'.pc # "signing"
    BY <1>5 DEF OnSelected, OnQuoteExpired, MarkExposed, Serving, IdleEngine
  <2>2. ASSUME NEW n \in Nonces, fillBlock[n] # 0, Claims(ledger[orders[n].rfq], n)
        PROVE  Claims(ledger'[orders[n].rfq], n)
    <3> DEFINE q == orders[n].rfq
    <3>1. q \in Rfqs /\ ledger[q] \in Claim
      BY <1>2, <2>2 DEF Claims, TypeOK
    <3>2. CASE q = r
      <4>1. ledger'[q] = [ledger[q] EXCEPT !.exposed = TRUE]
        BY <2>1, <2>2, <3>1, <3>2 DEF Exposed, Claims, TypeOK
      <4>2. ledger'[q] \in Claim /\ ledger'[q].nonce = ledger[q].nonce
            /\ ledger'[q].token = ledger[q].token /\ ledger'[q].input = ledger[q].input
            /\ ledger'[q].releaseAt = ledger[q].releaseAt
        BY <3>1, <4>1 DEF Claim
      <4> QED
        BY <2>2, <4>2, NullsDistinct DEF Claims
    <3>3. CASE q # r
      BY <2>1, <2>2, <3>1, <3>3 DEF Exposed, TypeOK
    <3> QED
      BY <3>2, <3>3
  <2> QED
    <3>1. ClaimedOrCounted'
      BY <1>1, <1>2, <2>1, <2>2, LedgerFills
    <3> QED
      BY <1>1, <2>1, <3>1, SameReadings
<1>6. ASSUME NEW r \in Rfqs, OnLoser(r) PROVE FillInv'
  <2>1. /\ ledger' = WithoutLoser(ledger, r) /\ UNCHANGED <<orders, spent>>
        /\ disk' = disk \/ disk' = Stored(ledger')
        /\ engine'.pc # "signing"
        /\ venue[r] = "lost" \/ r \in told
    BY <1>6 DEF OnLoser, Save, Serving, IdleEngine
  <2>2. ASSUME NEW n \in Nonces, fillBlock[n] # 0, Claims(ledger[orders[n].rfq], n)
        PROVE  Claims(ledger'[orders[n].rfq], n)
    <3>1. CASE orders[n].rfq = r
      <4>1. ledger[r] # NoRow /\ ledger[r].exposed
        BY <1>2, <2>1, <2>2, <3>1 DEF Claims, IInv, ClaimInv, ToldExposed
      <4> QED
        BY <2>1, <2>2, <3>1, <4>1 DEF WithoutLoser
    <3>2. CASE orders[n].rfq # r
      BY <1>2, <2>1, <2>2, <3>2 DEF WithoutLoser, TypeOK
    <3> QED
      BY <3>1, <3>2
  <2> QED
    <3>1. ClaimedOrCounted'
      BY <1>1, <1>2, <2>1, <2>2, LedgerFills
    <3> QED
      BY <1>1, <2>1, <3>1, SameReadings
<1>7. CASE LevelsTick
  <2>1. /\ ledger' = Pruned(ledger) /\ UNCHANGED <<orders, spent>> /\ engine'.pc # "signing"
        /\ disk' = disk \/ disk' = Stored(ledger')
    BY <1>7 DEF LevelsTick, Save, Serving, IdleEngine
  <2>2. ASSUME NEW n \in Nonces, fillBlock[n] # 0, Claims(ledger[orders[n].rfq], n)
        PROVE  Claims(ledger'[orders[n].rfq], n) \/ orders[n].deadline + Skew =< now
    BY <1>2, <2>1, <2>2, FillTypes DEF Pruned, Live, Claims
  <2> QED
    <3>1. ClaimedOrCounted'
      BY <1>1, <1>2, <2>1, <2>2, LedgerFills
    <3> QED
      BY <1>1, <2>1, <3>1, SameReadings
<1>8. ASSUME NEW n \in Nonces, NEW o \in Candidates, Price(n, o) PROVE FillInv'
  <2>1. UNCHANGED <<ledger, disk, orders, spent>> /\ engine'.nonce = n /\ orders[n] = NoOrder
    BY <1>8 DEF Price, UnusedNonce
  <2>2. ClaimedOrCounted'
    BY <1>1, <1>2, <2>1, LedgerFills
  <2> QED
    BY <1>1, <2>1, <2>2, SameReadings
<1>9. CASE Withhold
  <2>1. UNCHANGED <<ledger, disk, orders, spent>> /\ engine'.pc # "signing"
    BY <1>9 DEF Withhold, IdleEngine
  <2>2. ClaimedOrCounted'
    BY <1>1, <1>2, <2>1, LedgerFills
  <2> QED
    BY <1>1, <2>1, <2>2, SameReadings
<1>10. CASE Reply
  <2> DEFINE m == engine.nonce
             r == engine.order.rfq
  <2>1. /\ engine.pc = "signing" /\ engine'.pc # "signing" /\ spent' = spent
        /\ ledger' = [ledger EXCEPT ![r] = NewClaim(m, engine.order)]
        /\ orders' = orders \/ orders' = [orders EXCEPT ![m] = engine.order]
        /\ disk' = disk \/ disk' = Stored(ledger')
    BY <1>10 DEF Reply, IdleEngine
  <2>2. m \in Nonces /\ r \in Rfqs /\ orders[m] = NoOrder /\ ledger[r] = NoRow
    BY <2>1, EngineFields DEF FillInv, FillsInTime, IInv, ClaimInv, BusyUnclaimed, BusyRfq, Order,
       IdleEngine
  <2> HIDE DEF m, r
  <2>3. ASSUME NEW n \in Nonces, fillBlock[n] # 0
        PROVE  /\ n # m /\ orders'[n] = orders[n]
               /\ Claims(ledger[orders[n].rfq], n) => Claims(ledger[orders[n].rfq], n)'
    <3>1. n # m /\ orders'[n] = orders[n]
      BY <2>1, <2>2, <2>3 DEF FillInv, FillsInTime, TypeOK
    <3>2. CASE orders[n].rfq = r
      BY <2>2, <3>1, <3>2 DEF Claims
    <3>3. CASE orders[n].rfq # r
      <4>1. ledger'[orders[n].rfq] = ledger[orders[n].rfq]
        BY <1>2, <2>1, <2>3, <3>3 DEF TypeOK
      <4> QED
        BY <3>1, <4>1, SameClaim
    <3> QED
      BY <3>1, <3>2, <3>3
  <2>4. FillsInTime'
    BY <1>1, <2>1, <2>3 DEF FillInv, FillsInTime
  <2>5. SpentCounted' /\ OneBlock' /\ \A n \in Nonces : Counted(n) => Counted(n)'
    BY <1>1, <2>1, StaysCounted
  <2>6. ReadingsAge'
    BY <1>1 DEF FillInv, ReadingsAge, MayMiss
  <2>7. ASSUME NEW n \in Nonces, fillBlock[n] # 0, Held(n)
        PROVE  Held(n)'
    <3>1. Claims(ledger[orders[n].rfq], n)'
      BY <1>1, <2>3, <2>7 DEF Held
    <3>2. Claims(ledger'[orders[n].rfq], n)
      BY <2>3, <2>7, <3>1 DEF Claims
    <3>3. Claims(disk'[orders[n].rfq], n)
      <4>1. Claims(Stored(ledger')[orders[n].rfq], n)
        BY <1>1, <1>2, <2>7, <3>2, StoredClaims
      <4> QED
        BY <2>1, <2>7, <4>1 DEF Held
    <3>4. Claims(disk[orders[n].rfq], n)'
      BY <2>3, <2>7, <3>3 DEF Claims
    <3> QED
      BY <3>1, <3>4 DEF Held
  <2>8. ClaimedOrCounted'
    BY <1>1, <2>3, <2>5, <2>7 DEF FillInv, ClaimedOrCounted
  <2>9. DownReadsNothing'
    BY <1>1 DEF DownReadsNothing
  <2> QED
    BY <1>1, <2>4, <2>5, <2>6, <2>8, <2>9 DEF FillInv
<1> QED
  BY <1>4, <1>5, <1>6, <1>7, <1>8, <1>9, <1>10 DEF Responder

\* The process keeps its ledger from session to session.  A crash forgets every
\* reading, so that none from before a fill is left; a restart drops the claims that
\* have come due.
LEMMA ProcessFills ==
  ASSUME Crashes => NodeLag = 0
  PROVE  IInv /\ FillInv /\ Process => FillInv'
<1> SUFFICES ASSUME IInv, FillInv, Process PROVE FillInv'
  OBVIOUS
<1> USE DEF outside, chain, shared, reader
<1> TypeOK
  BY DEF IInv
<1>1. UNCHANGED <<now, fillBlock, fillTime, venue, orders, disk>>
  BY DEF Process, Connect, Disconnect, Crash, Start
<1>2. CASE Connect \/ Disconnect
  <2>1. /\ UNCHANGED <<ledger, engine, cache, spent, clock, loop>>
        /\ mode # "down" /\ mode' # "down"
    BY <1>2 DEF Connect, Disconnect, Serving
  <2>2. \A n \in Nonces : Held(n) => Held(n)'
    BY <1>1, <2>1 DEF Held, Claims
  <2>3. \A n \in Nonces : Counted(n) => Counted(n)'
    BY <1>1, <2>1, StaysCounted
  <2>4. ClaimedOrCounted'
    BY <1>1, <2>2, <2>3 DEF FillInv, ClaimedOrCounted
  <2> QED
    BY <1>1, <2>1, <2>4, SameReadings DEF FillInv, FillsInTime
<1>3. CASE Crash
  <2>1. /\ NodeLag = 0 /\ engine' = IdleEngine /\ spent' = {} /\ clock' = -1
        /\ loop' = IdleLoop /\ \A t \in Tokens : cache'[t] = NoReading
    BY <1>3 DEF Crash
  <2>2. engine'.pc # "signing" /\ loop'.phase = "idle" /\ loop'.seen = {}
    BY <2>1 DEF IdleEngine, IdleLoop
  <2>3. \A n \in Nonces : fillBlock[n] # 0 => Counted(n)'
    BY <1>1, <2>1, <2>2 DEF Counted, NoneMisses, Shows
  <2>4. ClaimedOrCounted'
    BY <1>1, <2>3 DEF ClaimedOrCounted
  <2>5. FillsInTime' /\ DownReadsNothing' /\ ReadingsAge' /\ OneBlock' /\ SpentCounted'
    BY <1>1, <2>1, <2>2
       DEF FillInv, FillsInTime, DownReadsNothing, ReadingsAge, OneBlock, SpentCounted
  <2> QED
    BY <2>4, <2>5 DEF FillInv
<1>4. CASE Start
  <2>1. /\ mode = "down" /\ mode' = "offline" /\ ledger' = Loaded(disk)
        /\ UNCHANGED <<engine, cache, spent, clock, loop>>
    BY <1>4 DEF Start
  <2>2. ASSUME NEW n \in Nonces, fillBlock[n] # 0, Held(n)
        PROVE  Held(n)' \/ orders[n].deadline + Skew =< now
    <3> DEFINE r == orders[n].rfq
    <3>1. r \in Rfqs /\ Claims(disk[r], n) /\ orders[n].deadline \in Nat
      BY <2>2, FillTypes DEF FillInv, FillsInTime, Held
    <3>2. CASE Live(disk[r])
      <4>1. Loaded(disk)[r] =
              [nonce |-> disk[r].nonce, token |-> disk[r].token,
               input |-> disk[r].input, releaseAt |-> disk[r].releaseAt,
               exposed |-> TRUE]
        BY <3>1, <3>2 DEF Loaded
      <4>2. Loaded(disk)[r] \in Claim
        BY <3>1, LoadedType, <4>1 DEF TypeOK, Claims, Claim, Entry
      <4>3. Loaded(disk)[r] # NoRow
        BY <4>2, NullsDistinct
      <4>4. Claims(Loaded(disk)[r], n)
        BY <3>1, <4>1, <4>3 DEF Claims
      <4> QED
        BY <1>1, <2>1, <3>1, <4>4 DEF Held, Claims
    <3>3. CASE ~Live(disk[r])
      BY <3>1, <3>3, FillTypes DEF Claims, Live
    <3> QED
      BY <3>2, <3>3
  <2>3. \A n \in Nonces : Counted(n) => Counted(n)'
    BY <1>1, <2>1, StaysCounted
  <2>4. ClaimedOrCounted'
    BY <1>1, <2>2, <2>3 DEF FillInv, ClaimedOrCounted
  <2> QED
    BY <1>1, <2>1, <2>4, SameReadings DEF FillInv, FillsInTime
<1> QED
  BY <1>2, <1>3, <1>4 DEF Process

\* What the invariant says of the cache a quote is sized on.
LEMMA FillsCover ==
  ASSUME Timely, TypeOK, FillInv
  PROVE  FillsCounted
<1> SUFFICES ASSUME NEW n \in Nonces, fillBlock[n] # 0, Fresh(orders[n].token),
                    cache[orders[n].token].block < fillBlock[n]
             PROVE  Claims(ledger[orders[n].rfq], n) /\ Live(ledger[orders[n].rfq])
  BY DEF FillsCounted
<1> DEFINE o == orders[n]
           at == cache[o.token].at
<1>1. /\ o.token \in Tokens /\ o.deadline \in Nat /\ fillTime[n] =< o.deadline + ChainSkew
      /\ cache[o.token] # NoReading /\ at \in Nat /\ now - at =< Ttl
  BY FillTypes DEF FillInv, FillsInTime, Fresh
<1>2. MayMiss(at, n)
  BY <1>1 DEF FillInv, ReadingsAge
<1>3. now < o.deadline + Skew
  BY <1>1, <1>2, FillTypes DEF MayMiss, Timely
<1>4. ~Counted(n)
  BY <1>1, FillTypes DEF Counted, Shows
<1>5. Claims(ledger[o.rfq], n)
  BY <1>1, <1>3, <1>4, FillTypes DEF FillInv, ClaimedOrCounted, Held, DownReadsNothing
<1> QED
  BY <1>1, <1>3, <1>5, FillTypes DEF Claims, Live

\* The inductive invariant of the theorem below, and of Solvent.
THEOREM FillInvariant ==
  ASSUME Timely, Durable, ~PartialBatches, Crashes => NodeLag = 0
  PROVE  Spec => [](IInv /\ FillInv)
<1>1. SkewCovers
  BY ConstantsTyped DEF Timely, SkewCovers
<1>2. Spec => []IInv
  BY <1>1, LedgerInvariant
<1>3. IInv /\ FillInv /\ [Next]_vars => FillInv'
  <2> SUFFICES ASSUME IInv, FillInv, [Next]_vars PROVE FillInv'
    OBVIOUS
  <2>1. CASE UNCHANGED vars
    BY <2>1 DEF vars, chain, shared, reader, FillInv, FillsInTime, DownReadsNothing, ReadingsAge,
       MayMiss, OneBlock, SpentCounted, Counted, NoneMisses, Shows, ClaimedOrCounted, Held, Claims
  <2> QED
    BY <2>1, WorldFills, ResponderFills, ProcessFills, LoopFills DEF Next
<1> QED
  BY <1>2, <1>3, InitFills, PTL DEF Spec

\* No usable reading from before a fill meets a ledger without that fill's claim,
\* for any number of rounds, orders and tokens and through restarts, while batches
\* come back whole and, where the process may restart, nodes do not lag: a restart
\* forgets the newest block published.
THEOREM FillsStayCounted ==
  ASSUME Timely, Durable, ~PartialBatches, Crashes => NodeLag = 0
  PROVE  Spec => []FillsCounted
<1>1. IInv /\ FillInv => FillsCounted
  BY FillsCover DEF IInv
<1> QED
  BY <1>1, FillInvariant, PTL

(***************************************************************************)
(* Sums over finite sets.  The library's sum is a recursive function over  *)
(* subsets; every set of numbers has a least one, so a fact about sums     *)
(* that failed would fail on a smallest set.                               *)
(***************************************************************************)

\* A nonempty set of numbers has a least one.
LEMMA Least ==
  ASSUME NEW T \in SUBSET Nat, T # {}
  PROVE  \E n \in T : \A m \in T : n =< m
<1> DEFINE R == OpToRel(<, Nat)
<1>1. IsWellFoundedOn(R, Nat)
  BY NatLessThanWellFounded
<1>2. \A x, y \in Nat : x < y => <<x, y>> \in R
  BY DEF OpToRel
<1>3. T \subseteq Nat
  OBVIOUS
<1> HIDE DEF R
<1>4. \E n \in T : \A m \in T : ~(<<m, n>> \in R)
  BY <1>1, <1>3, WFMin
<1>5. PICK n \in T : \A m \in T : ~(<<m, n>> \in R)
  BY <1>4
<1>6. ASSUME NEW m \in T PROVE n =< m
  <2>1. m \in Nat /\ n \in Nat
    BY <1>3
  <2>2. ~(m < n)
    BY <1>2, <1>5, <2>1
  <2> QED
    BY <2>1, <2>2
<1> QED
  BY <1>6

\* A nonempty family of subsets of a finite set has a minimal one: the form in
\* which the lemmas below use induction on the size of a set.
LEMMA Smallest ==
  ASSUME NEW S, IsFiniteSet(S), NEW F \in SUBSET SUBSET S, F # {}
  PROVE  \E s \in F : \A u \in F : u \subseteq s => u = s
<1> DEFINE T == {Cardinality(s) : s \in F}
<1>1. \A s \in F : s \subseteq S /\ IsFiniteSet(s) /\ Cardinality(s) \in Nat
  BY FS_Subset, FS_CardinalityType
<1>2. T \in SUBSET Nat /\ T # {}
  BY <1>1
<1>3. PICK c \in T : \A m \in T : c =< m
  BY <1>2, Least
<1>4. PICK s \in F : c = Cardinality(s)
  BY <1>3
<1>5. ASSUME NEW u \in F, u \subseteq s PROVE u = s
  <2>1. Cardinality(s) =< Cardinality(u)
    BY <1>3, <1>4
  <2>2. Cardinality(u) =< Cardinality(s) /\ (Cardinality(u) = Cardinality(s) => u = s)
    BY <1>1, <1>5, FS_Subset
  <2> QED
    BY <1>1, <2>1, <2>2
<1> QED
  BY <1>5

\* A family that has the empty set and, with a set, the set and one more element,
\* has every finite set.
LEMMA AddingUp ==
  ASSUME NEW S, IsFiniteSet(S), NEW G, {} \in G,
         \A s \in SUBSET S : \A x \in S \ s : s \in G => s \cup {x} \in G
  PROVE  S \in G
<1> SUFFICES ASSUME S \notin G PROVE FALSE
  OBVIOUS
<1> DEFINE F == {s \in SUBSET S : s \notin G}
<1>1. F \in SUBSET SUBSET S /\ F # {}
  OBVIOUS
<1> HIDE DEF F
<1>2. PICK s \in F : \A u \in F : u \subseteq s => u = s
  BY <1>1, Smallest
<1>3. s \in SUBSET S /\ s \notin G
  BY <1>2 DEF F
<1>4. PICK x \in s : TRUE
  BY <1>3
<1>5. s \ {x} \in SUBSET S /\ x \in S \ (s \ {x}) /\ (s \ {x}) \cup {x} = s
  BY <1>3, <1>4
<1>6. s \ {x} \in G
  BY <1>2, <1>4, <1>5 DEF F
<1> QED
  BY <1>3, <1>5, <1>6

\* The element the fold takes next.
Pick(s) == CHOOSE x \in s : TRUE

\* `it` adds up f over the subsets of S.
Adds(it, f, S) ==
  it = [s \in SUBSET S |-> IF s = {} THEN 0 ELSE f[Pick(s)] + it[s \ {Pick(s)}]]

\* What the library's sum is: the fold over a set is one function on its subsets.
LEMMA Folded ==
  ASSUME NEW f, NEW S
  PROVE  SumFunctionOnSet(f, S) = (CHOOSE it : Adds(it, f, S))[S]
BY DEF SumFunctionOnSet, FoldFunctionOnSet, MapThenFoldSet, Adds, Pick

\* The fold picks an element of the set.
LEMMA PickIn ==
  ASSUME NEW s, s # {}
  PROVE  Pick(s) \in s
BY DEF Pick

\* One step of the fold.
LEMMA AddsAt ==
  ASSUME NEW f, NEW S, NEW it, Adds(it, f, S)
  PROVE  \A s \in SUBSET S : it[s] = IF s = {} THEN 0 ELSE f[Pick(s)] + it[s \ {Pick(s)}]
<1> DEFINE body(u) == IF u = {} THEN 0 ELSE f[Pick(u)] + it[u \ {Pick(u)}]
<1>1. it = [u \in SUBSET S |-> body(u)]
  BY DEF Adds
<1> HIDE DEF body
<1>2. \A s \in SUBSET S : it[s] = body(s)
  BY <1>1
<1> QED
  BY <1>2 DEF body

\* There is only one sum.
LEMMA AddsOnce ==
  ASSUME NEW f, NEW S, IsFiniteSet(S), NEW T, IsFiniteSet(T), NEW i, NEW j,
         Adds(i, f, S), Adds(j, f, T), NEW s \in SUBSET S, s \subseteq T
  PROVE  i[s] = j[s]
<1> SUFFICES ASSUME i[s] # j[s] PROVE FALSE
  OBVIOUS
<1>1. \A v \in SUBSET S : i[v] = IF v = {} THEN 0 ELSE f[Pick(v)] + i[v \ {Pick(v)}]
  BY AddsAt
<1>2. \A v \in SUBSET T : j[v] = IF v = {} THEN 0 ELSE f[Pick(v)] + j[v \ {Pick(v)}]
  BY ONLY Adds(j, f, T), AddsAt
<1> DEFINE F == {u \in SUBSET s : i[u] # j[u]}
<1>3. F \in SUBSET SUBSET s /\ F # {} /\ IsFiniteSet(s)
  BY FS_Subset
<1> HIDE DEF F
<1>4. PICK u \in F : \A v \in F : v \subseteq u => v = u
  BY <1>3, Smallest
<1>5. u \in SUBSET S /\ u \in SUBSET T /\ u \subseteq s /\ i[u] # j[u]
  BY <1>4 DEF F
<1>6. CASE u = {}
  <2>1. i[u] = 0 /\ j[u] = 0
    BY <1>1, <1>2, <1>5, <1>6
  <2> QED
    BY <1>5, <2>1
<1>7. CASE u # {}
  <2>1. Pick(u) \in u
    BY <1>7, PickIn
  <2>2. i[u \ {Pick(u)}] = j[u \ {Pick(u)}]
    BY <1>4, <1>5, <2>1 DEF F
  <2>3. i[u] = IF u = {} THEN 0 ELSE f[Pick(u)] + i[u \ {Pick(u)}]
    BY <1>1, <1>2, <1>5
  <2>4. j[u] = IF u = {} THEN 0 ELSE f[Pick(u)] + j[u \ {Pick(u)}]
    BY <1>1, <1>2, <1>5
  <2> QED
    BY <1>5, <1>7, <2>2, <2>3, <2>4
<1> QED
  BY <1>6, <1>7

\* The sum is the element the fold picks and the sum of the rest.
LEMMA SumPicks ==
  ASSUME NEW f, NEW S, IsFiniteSet(S)
  PROVE  SumFunctionOnSet(f, S) =
           IF S = {} THEN 0 ELSE f[Pick(S)] + SumFunctionOnSet(f, S \ {Pick(S)})
<1> DEFINE Rest(s) == IF s = {} THEN 0 ELSE f[Pick(s)] + SumFunctionOnSet(f, s \ {Pick(s)})
           F == {s \in SUBSET S : SumFunctionOnSet(f, s) # Rest(s)}
<1> SUFFICES ASSUME SumFunctionOnSet(f, S) # Rest(S) PROVE FALSE
  OBVIOUS
<1>1. F \in SUBSET SUBSET S /\ F # {}
  OBVIOUS
<1> HIDE DEF F
<1>2. PICK T \in F : \A u \in F : u \subseteq T => u = T
  BY <1>1, Smallest
<1>3. T \in SUBSET S /\ IsFiniteSet(T) /\ SumFunctionOnSet(f, T) # Rest(T)
  BY <1>2, FS_Subset DEF F
<1>4. \A u \in SUBSET T : u # T => SumFunctionOnSet(f, u) = Rest(u)
  BY <1>2, <1>3 DEF F
<1> DEFINE it == [s \in SUBSET T |-> Rest(s)]
<1>5. ASSUME NEW s \in SUBSET T
      PROVE  it[s] = IF s = {} THEN 0 ELSE f[Pick(s)] + it[s \ {Pick(s)}]
  <2>1. CASE s = {}
    BY <2>1
  <2>2. CASE s # {}
    <3> DEFINE u == s \ {Pick(s)}
    <3>1. u \in SUBSET T /\ u # T
      BY <2>2, PickIn
    <3>2. SumFunctionOnSet(f, u) = Rest(u)
      BY <1>4, <3>1
    <3> HIDE DEF u
    <3>3. it[u] = Rest(u)
      BY <3>1
    <3>4. it[s] = f[Pick(s)] + SumFunctionOnSet(f, u)
      BY <2>2 DEF u
    <3> QED
      BY <2>2, <3>2, <3>3, <3>4 DEF u
  <2> QED
    BY <2>1, <2>2
<1>6. Adds(it, f, T)
  <2> DEFINE body(s) == IF s = {} THEN 0 ELSE f[Pick(s)] + it[s \ {Pick(s)}]
  <2>1. \A s \in SUBSET T : it[s] = body(s)
    BY <1>5
  <2> HIDE DEF body
  <2>2. it = [s \in SUBSET T |-> body(s)]
    BY <2>1
  <2> QED
    BY <2>2 DEF Adds, body
<1>7. it[T] = Rest(T)
  OBVIOUS
<1> HIDE DEF it, Rest
<1>8. PICK j : j = CHOOSE k : Adds(k, f, T)
  OBVIOUS
<1>9. Adds(j, f, T) /\ SumFunctionOnSet(f, T) = j[T]
  BY <1>6, <1>8, Folded
<1>10. j[T] = it[T]
  BY <1>3, <1>6, <1>9, AddsOnce
<1> QED
  BY <1>3, <1>7, <1>9, <1>10
\* The sum over no element.
LEMMA SumEmpty == \A f : SumFunctionOnSet(f, {}) = 0
BY SumPicks, FS_EmptySet

\* A sum of numbers is a number.
LEMMA SumType ==
  ASSUME NEW S, IsFiniteSet(S), NEW f, \A x \in S : f[x] \in Nat
  PROVE  SumFunctionOnSet(f, S) \in Nat
<1> SUFFICES ASSUME SumFunctionOnSet(f, S) \notin Nat PROVE FALSE
  OBVIOUS
<1> DEFINE F == {s \in SUBSET S : SumFunctionOnSet(f, s) \notin Nat}
<1>1. F \in SUBSET SUBSET S /\ F # {}
  OBVIOUS
<1> HIDE DEF F
<1>2. PICK s \in F : \A u \in F : u \subseteq s => u = s
  BY <1>1, Smallest
<1>3. s \in SUBSET S /\ IsFiniteSet(s) /\ SumFunctionOnSet(f, s) \notin Nat
  BY <1>2, FS_Subset DEF F
<1>4. CASE s = {}
  BY <1>3, <1>4, SumEmpty
<1>5. CASE s # {}
  <2>1. Pick(s) \in s
    BY <1>5, PickIn
  <2>2. SumFunctionOnSet(f, s \ {Pick(s)}) \in Nat
    BY <1>2, <1>3, <2>1 DEF F
  <2>3. SumFunctionOnSet(f, s) = f[Pick(s)] + SumFunctionOnSet(f, s \ {Pick(s)})
    BY <1>3, <1>5, SumPicks
  <2>4. f[Pick(s)] \in Nat
    BY <1>3, <2>1
  <2> QED
    BY <1>3, <2>2, <2>3, <2>4
<1> QED
  BY <1>4, <1>5

\* The sum is any element and the sum of the rest.
LEMMA SumWithout ==
  ASSUME NEW S, IsFiniteSet(S), NEW f, \A x \in S : f[x] \in Nat, NEW y \in S
  PROVE  SumFunctionOnSet(f, S) = f[y] + SumFunctionOnSet(f, S \ {y})
<1> DEFINE Wrong(s, x) == SumFunctionOnSet(f, s) # f[x] + SumFunctionOnSet(f, s \ {x})
           F == {s \in SUBSET S : \E x \in s : Wrong(s, x)}
<1> SUFFICES ASSUME Wrong(S, y) PROVE FALSE
  OBVIOUS
<1>1. F \in SUBSET SUBSET S /\ F # {}
  OBVIOUS
<1> HIDE DEF F
<1>2. PICK s \in F : \A u \in F : u \subseteq s => u = s
  BY <1>1, Smallest
<1>3. s \in SUBSET S /\ IsFiniteSet(s)
  BY <1>2, FS_Subset DEF F
<1>4. PICK x \in s : Wrong(s, x)
  BY <1>2 DEF F
<1> DEFINE p == Pick(s)
<1>5. p \in s
  BY <1>4, PickIn
<1>6. SumFunctionOnSet(f, s) = f[p] + SumFunctionOnSet(f, s \ {p})
  BY <1>3, <1>4, SumPicks
<1> HIDE DEF p
<1>7. p # x
  BY <1>4, <1>6
<1>8. ~Wrong(s \ {p}, x) /\ ~Wrong(s \ {x}, p)
  <2>1. s \ {p} \notin F /\ s \ {x} \notin F
    BY <1>2, <1>4, <1>5
  <2> QED
    BY <1>3, <1>4, <1>5, <1>7, <2>1 DEF F
<1>9. (s \ {p}) \ {x} = (s \ {x}) \ {p}
  OBVIOUS
<1>10. SumFunctionOnSet(f, (s \ {x}) \ {p}) \in Nat
  <2>1. IsFiniteSet((s \ {x}) \ {p})
    BY <1>3, FS_Subset
  <2> QED
    BY <1>3, <2>1, SumType
<1>11. f[x] \in Nat /\ f[p] \in Nat
  BY <1>3, <1>4, <1>5
<1>12. /\ SumFunctionOnSet(f, s \ {p}) = f[x] + SumFunctionOnSet(f, (s \ {x}) \ {p})
       /\ SumFunctionOnSet(f, s \ {x}) = f[p] + SumFunctionOnSet(f, (s \ {x}) \ {p})
  BY <1>8, <1>9
<1>13. SumFunctionOnSet(f, s) # f[x] + SumFunctionOnSet(f, s \ {x})
  BY <1>4
<1> HIDE DEF Wrong
<1> QED
  BY <1>6, <1>10, <1>11, <1>12, <1>13

\* One more element adds its value.
LEMMA SumWith ==
  ASSUME NEW S, IsFiniteSet(S), NEW f, NEW y, y \notin S, \A x \in S \cup {y} : f[x] \in Nat
  PROVE  SumFunctionOnSet(f, S \cup {y}) = f[y] + SumFunctionOnSet(f, S)
<1>1. IsFiniteSet(S \cup {y}) /\ (S \cup {y}) \ {y} = S
  BY FS_AddElement
<1> QED
  BY <1>1, SumWithout

\* The sum depends on the values at its elements only.
LEMMA SumSame ==
  ASSUME NEW S, IsFiniteSet(S), NEW f, NEW g,
         \A x \in S : f[x] \in Nat /\ f[x] = g[x]
  PROVE  SumFunctionOnSet(f, S) = SumFunctionOnSet(g, S)
<1> DEFINE G == {s \in SUBSET S : SumFunctionOnSet(f, s) = SumFunctionOnSet(g, s)}
<1>1. {} \in G
  BY SumEmpty
<1>2. ASSUME NEW s \in SUBSET S, NEW x \in S \ s, s \in G
      PROVE  s \cup {x} \in G
  <2>1. IsFiniteSet(s) /\ x \notin s /\ \A z \in s \cup {x} : f[z] \in Nat /\ g[z] \in Nat
    BY FS_Subset
  <2>2. SumFunctionOnSet(f, s \cup {x}) = f[x] + SumFunctionOnSet(f, s)
    BY <2>1, SumWith
  <2>3. SumFunctionOnSet(g, s \cup {x}) = g[x] + SumFunctionOnSet(g, s)
    BY <2>1, SumWith
  <2> QED
    BY <1>2, <2>2, <2>3
<1> HIDE DEF G
<1>3. S \in G
  BY <1>1, <1>2, AddingUp
<1> QED
  BY <1>3 DEF G

\* The sums over two parts add up.
LEMMA SumParts ==
  ASSUME NEW S, IsFiniteSet(S), NEW R, IsFiniteSet(R), R \cap S = {},
         NEW f, \A x \in R \cup S : f[x] \in Nat
  PROVE  SumFunctionOnSet(f, R \cup S) = SumFunctionOnSet(f, R) + SumFunctionOnSet(f, S)
<1> DEFINE G == {s \in SUBSET S : SumFunctionOnSet(f, R \cup s)
                                    = SumFunctionOnSet(f, R) + SumFunctionOnSet(f, s)}
<1>1. {} \in G
  <2>1. R \cup {} = R /\ SumFunctionOnSet(f, R) \in Nat
    BY SumType
  <2> QED
    BY <2>1, SumEmpty
<1>2. ASSUME NEW s \in SUBSET S, NEW x \in S \ s, s \in G
      PROVE  s \cup {x} \in G
  <2>1. IsFiniteSet(s) /\ IsFiniteSet(R \cup s)
    BY FS_Subset, FS_Union
  <2>2. SumFunctionOnSet(f, s \cup {x}) = f[x] + SumFunctionOnSet(f, s)
    BY <2>1, SumWith
  <2>3. SumFunctionOnSet(f, (R \cup s) \cup {x}) = f[x] + SumFunctionOnSet(f, R \cup s)
    BY <2>1, SumWith
  <2>4. SumFunctionOnSet(f, s) \in Nat /\ SumFunctionOnSet(f, R) \in Nat /\ f[x] \in Nat
    BY <2>1, SumType
  <2>5. R \cup (s \cup {x}) = (R \cup s) \cup {x} /\ s \cup {x} \in SUBSET S
    OBVIOUS
  <2>6. SumFunctionOnSet(f, R \cup s) = SumFunctionOnSet(f, R) + SumFunctionOnSet(f, s)
    BY <1>2
  <2>7. SumFunctionOnSet(f, (R \cup s) \cup {x})
          = SumFunctionOnSet(f, R) + SumFunctionOnSet(f, s \cup {x})
    BY <2>2, <2>3, <2>4, <2>6
  <2> QED
    BY <2>5, <2>7
<1> HIDE DEF G
<1>3. S \in G
  BY <1>1, <1>2, AddingUp
<1> QED
  BY <1>3 DEF G

\* A sum over fewer elements is no more.
LEMMA SumFewer ==
  ASSUME NEW S, IsFiniteSet(S), NEW R \in SUBSET S, NEW f, \A x \in S : f[x] \in Nat
  PROVE  SumFunctionOnSet(f, R) =< SumFunctionOnSet(f, S)
<1>1. IsFiniteSet(R) /\ IsFiniteSet(S \ R) /\ R \cap (S \ R) = {} /\ R \cup (S \ R) = S
  BY FS_Subset
<1>2. SumFunctionOnSet(f, S) = SumFunctionOnSet(f, R) + SumFunctionOnSet(f, S \ R)
  BY <1>1, SumParts
<1>3. SumFunctionOnSet(f, R) \in Nat /\ SumFunctionOnSet(f, S \ R) \in Nat
  BY <1>1, SumType
<1> QED
  BY <1>2, <1>3

\* When h finds for each x of S its own h[x] of T, no smaller by g than x is by f,
\* the sum over T is no less.
LEMMA SumMatched ==
  ASSUME NEW S, IsFiniteSet(S), NEW T, IsFiniteSet(T), NEW f, NEW g, NEW h \in [S -> T],
         \A x, y \in S : h[x] = h[y] => x = y,
         \A x \in S : f[x] \in Nat, \A x \in T : g[x] \in Nat,
         \A x \in S : f[x] =< g[h[x]]
  PROVE  SumFunctionOnSet(f, S) =< SumFunctionOnSet(g, T)
<1> DEFINE Image(s) == {h[x] : x \in s}
           G == {s \in SUBSET S : SumFunctionOnSet(f, s) =< SumFunctionOnSet(g, Image(s))}
<1>1. {} \in G
  <2>1. Image({}) = {}
    OBVIOUS
  <2> QED
    BY <2>1, SumEmpty
<1>2. ASSUME NEW s \in SUBSET S, NEW x \in S \ s, s \in G
      PROVE  s \cup {x} \in G
  <2>1. /\ IsFiniteSet(s) /\ x \notin s
        /\ Image(s) \subseteq T /\ h[x] \in T /\ h[x] \notin Image(s)
        /\ Image(s \cup {x}) = Image(s) \cup {h[x]}
    BY FS_Subset
  <2>2. SumFunctionOnSet(f, s) =< SumFunctionOnSet(g, Image(s))
    BY <1>2
  <2> HIDE DEF Image
  <2>3. IsFiniteSet(Image(s))
    BY <2>1, FS_Subset
  <2>4. SumFunctionOnSet(f, s \cup {x}) = f[x] + SumFunctionOnSet(f, s)
    BY <2>1, SumWith
  <2>5. SumFunctionOnSet(g, Image(s) \cup {h[x]}) = g[h[x]] + SumFunctionOnSet(g, Image(s))
    BY <2>1, <2>3, SumWith
  <2>6. /\ SumFunctionOnSet(f, s) \in Nat /\ SumFunctionOnSet(g, Image(s)) \in Nat
        /\ f[x] \in Nat /\ g[h[x]] \in Nat /\ f[x] =< g[h[x]]
    BY <2>1, <2>3, SumType
  <2>7. SumFunctionOnSet(f, s \cup {x}) =< SumFunctionOnSet(g, Image(s) \cup {h[x]})
    BY <2>2, <2>4, <2>5, <2>6
  <2> QED
    BY <2>1, <2>7
<1>3. Image(S) \in SUBSET T
  OBVIOUS
<1>4. G \subseteq SUBSET S
  OBVIOUS
<1> HIDE DEF G
<1>5. S \in G
  BY <1>1, <1>2, AddingUp
<1>6. SumFunctionOnSet(f, S) =< SumFunctionOnSet(g, Image(S))
  BY <1>5 DEF G
<1> HIDE DEF Image
<1>7. SumFunctionOnSet(g, Image(S)) =< SumFunctionOnSet(g, T)
  BY <1>3, SumFewer
<1>8. /\ SumFunctionOnSet(f, S) \in Nat /\ SumFunctionOnSet(g, Image(S)) \in Nat
      /\ SumFunctionOnSet(g, T) \in Nat
  BY <1>3, FS_Subset, SumType
<1> QED
  BY <1>6, <1>7, <1>8

(***************************************************************************)
(* The wallet stays solvent.  The cache a quote is sized on may miss       *)
(* fills, but whatever it misses is still claimed (FillsCounted), and so   *)
(* is every order out (LiveOrdersClaimed), each by a row of its own: the   *)
(* capacity that covers a quote is one the chain has, too.                 *)
(***************************************************************************)

\* The block of a fill is a block of the chain.
FillsOnChain == \A n \in Nonces : fillBlock[n] =< height

\* The quote being signed is covered on the chain, on top of every order out.
SignedCovered ==
  engine.pc = "signing" =>
    /\ engine.order.input > 0
    /\ engine.order.input + Owed(engine.order.token)
         =< BalanceAt(engine.order.token, height)

SolventInv == FillsOnChain /\ Solvent /\ SignedCovered

\* The program starts with its funds and no order out.
LEMMA InitSolvent == Init => SolventInv
<1> SUFFICES ASSUME Init PROVE SolventInv
  OBVIOUS
<1>1. \A t \in Tokens : OwedIn(t) = {} /\ FilledBy(t, height) = {}
  BY DEF Init, OwedIn, Executable, FilledBy
<1>2. \A t \in Tokens : Owed(t) = 0 /\ BalanceAt(t, height) = Funds[t]
  <2>1. SumFunctionOnSet(Inputs, {}) = 0
    BY SumEmpty
  <2>2. \A t \in Tokens : Owed(t) = 0 /\ BalanceAt(t, height) = Funds[t] - 0
    BY <1>1, <2>1 DEF Owed, BalanceAt
  <2>3. \A t \in Tokens : Funds[t] \in Nat
    BY ConstantsTyped
  <2> QED
    BY <2>2, <2>3
<1> QED
  BY <1>2, ConstantsTyped DEF Init, SolventInv, FillsOnChain, Solvent, SignedCovered, IdleEngine

\* The sums are over finitely many orders for the token.
LEMMA Amounts ==
  ASSUME TypeOK, FillInv, NEW t \in Tokens, NEW b
  PROVE  /\ IsFiniteSet(OwedIn(t)) /\ IsFiniteSet(FilledBy(t, b))
         /\ OwedIn(t) \subseteq Nonces /\ FilledBy(t, b) \subseteq Nonces
         /\ \A n \in OwedIn(t) \cup FilledBy(t, b) :
              /\ orders[n] \in Order /\ orders[n].token = t
              /\ Inputs[n] = orders[n].input /\ Inputs[n] \in Nat
         /\ Owed(t) \in Nat
         /\ SumFunctionOnSet(Inputs, FilledBy(t, b)) \in Nat
         /\ Funds[t] \in Nat
<1>1. /\ OwedIn(t) \subseteq Nonces /\ FilledBy(t, b) \subseteq Nonces
      /\ \A n \in OwedIn(t) \cup FilledBy(t, b) : orders[n] # NoOrder /\ orders[n].token = t
  BY DEF OwedIn, FilledBy, Executable, FillInv, FillsInTime
<1>2. IsFiniteSet(OwedIn(t)) /\ IsFiniteSet(FilledBy(t, b))
  BY <1>1, FS_Subset, ConstantsTyped
<1>3. \A n \in OwedIn(t) \cup FilledBy(t, b) :
        /\ orders[n] \in Order
        /\ Inputs[n] = orders[n].input /\ Inputs[n] \in Nat
  BY <1>1 DEF TypeOK, Order, Inputs
<1>4. Owed(t) \in Nat /\ SumFunctionOnSet(Inputs, FilledBy(t, b)) \in Nat
  BY <1>2, <1>3, SumType DEF Owed
<1> QED
  BY <1>1, <1>2, <1>3, <1>4, ConstantsTyped

\* As long as no order is added, what is owed only shrinks.
LEMMA OwedShrinks ==
  ASSUME TypeOK, FillInv, UNCHANGED orders, \A n \in Nonces : Executable(n)' => Executable(n),
         NEW t \in Tokens
  PROVE  Owed(t)' \in Nat /\ Owed(t)' =< Owed(t)
<1>1. OwedIn(t)' \in SUBSET OwedIn(t) /\ Inputs' = Inputs
  BY DEF OwedIn, Inputs
<1>2. Owed(t)' = SumFunctionOnSet(Inputs, OwedIn(t)')
  BY <1>1 DEF Owed
<1>3. /\ IsFiniteSet(OwedIn(t)) /\ IsFiniteSet(OwedIn(t)')
      /\ \A n \in OwedIn(t) : Inputs[n] \in Nat
  BY <1>1, Amounts, FS_Subset
<1>4. SumFunctionOnSet(Inputs, OwedIn(t)') \in Nat
  BY <1>1, <1>3, SumType
<1>5. SumFunctionOnSet(Inputs, OwedIn(t)') =< SumFunctionOnSet(Inputs, OwedIn(t))
  BY <1>1, <1>3, SumFewer
<1> QED
  BY <1>2, <1>4, <1>5 DEF Owed

\* What the chain holds changes with fills only.
LEMMA BalanceStays ==
  ASSUME TypeOK, FillInv, UNCHANGED <<height, fillBlock>>,
         \A n \in Nonces : fillBlock[n] # 0 => orders'[n] = orders[n],
         NEW t \in Tokens
  PROVE  BalanceAt(t, height)' = BalanceAt(t, height)
<1>1. FilledBy(t, height)' = FilledBy(t, height)
  BY DEF FilledBy, TypeOK
<1>2. \A n \in FilledBy(t, height) : Inputs[n] \in Nat /\ Inputs[n] = Inputs'[n]
  <2> SUFFICES ASSUME NEW n \in FilledBy(t, height)
               PROVE  Inputs[n] \in Nat /\ Inputs[n] = Inputs'[n]
    OBVIOUS
  <2>1. n \in Nonces /\ orders'[n] = orders[n]
    BY DEF FilledBy, TypeOK
  <2> QED
    BY <2>1, Amounts DEF Inputs
<1>3. SumFunctionOnSet(Inputs, FilledBy(t, height))
        = SumFunctionOnSet(Inputs', FilledBy(t, height))
  BY <1>2, Amounts, SumSame
<1> QED
  BY <1>1, <1>3 DEF BalanceAt

\* A step that neither adds an order nor fills one, nor starts to sign a quote, keeps
\* the wallet solvent.
LEMMA StaysSolvent ==
  ASSUME TypeOK, FillInv, SolventInv, UNCHANGED <<height, fillBlock, orders>>,
         \A n \in Nonces : Executable(n)' => Executable(n),
         engine'.pc = "signing" => engine' = engine
  PROVE  SolventInv'
<1>1. \A t \in Tokens : BalanceAt(t, height)' = BalanceAt(t, height)
  BY BalanceStays
<1>2. \A t \in Tokens : Owed(t)' \in Nat /\ Owed(t)' =< Owed(t)
  BY OwedShrinks
<1>3. \A t \in Tokens : Owed(t) \in Nat /\ BalanceAt(t, height) \in Int
  BY Amounts DEF BalanceAt
<1>4. FillsOnChain'
  BY DEF SolventInv, FillsOnChain
<1>5. Solvent'
  <2> SUFFICES ASSUME NEW t \in Tokens PROVE Owed(t)' =< BalanceAt(t, height)'
    BY DEF Solvent
  <2>1. Owed(t) =< BalanceAt(t, height)
    BY DEF SolventInv, Solvent
  <2> QED
    BY <1>1, <1>2, <1>3, <2>1
<1>6. SignedCovered'
  <2> SUFFICES ASSUME engine.pc = "signing", engine' = engine
               PROVE  /\ engine.order.input > 0
                      /\ engine.order.input + Owed(engine.order.token)'
                           =< BalanceAt(engine.order.token, height)'
    BY DEF SignedCovered
  <2>1. /\ engine.order.token \in Tokens /\ engine.order.input \in Nat
        /\ engine.order.input > 0
        /\ engine.order.input + Owed(engine.order.token)
             =< BalanceAt(engine.order.token, height)
    BY EngineFields DEF SolventInv, SignedCovered, Order
  <2> QED
    BY <1>1, <1>2, <1>3, <2>1
<1> QED
  BY <1>4, <1>5, <1>6 DEF SolventInv

\* Each order out, and each fill the cached balance misses, has a live claim of its
\* own: what the cache leaves after the claims the chain leaves after the orders.
LEMMA CapacityIsReal ==
  ASSUME SkewCovers, IInv, FillInv, FillsCounted, mode = "online", NEW t \in Tokens, Fresh(t)
  PROVE  BalanceAt(t, cache[t].block) - Reserved(ledger, t) =< BalanceAt(t, height) - Owed(t)
<1> DEFINE b == cache[t].block
           Missed == FilledBy(t, height) \ FilledBy(t, b)
           Rows == LiveClaims(ledger, t)
           Amount == [r \in Rfqs |-> ledger[r].input]
           rfqOf == [n \in Missed \cup OwedIn(t) |-> orders[n].rfq]
<1> TypeOK
  BY DEF IInv
<1>1. b \in Nat
  BY FillTypes DEF Fresh
<1>2. ASSUME NEW n \in Missed \cup OwedIn(t)
      PROVE  /\ orders[n].rfq \in Rfqs
             /\ Claims(ledger[orders[n].rfq], n) /\ Live(ledger[orders[n].rfq])
  <2>1. orders[n] \in Order /\ orders[n].token = t
    BY Amounts
  <2>2. CASE n \in Missed
    <3>1. n \in Nonces /\ fillBlock[n] # 0 /\ b < fillBlock[n]
      BY <1>1, <2>1, <2>2, FillTypes DEF FilledBy
    <3> QED
      BY <2>1, <3>1 DEF FillsCounted, Order
  <2>3. CASE n \in OwedIn(t)
    <3>1. n \in Nonces /\ Executable(n)
      BY <2>3 DEF OwedIn
    <3>2. Claims(ledger[orders[n].rfq], n)
      BY <3>1 DEF IInv, ClaimInv, LiveOrdersClaimed
    <3> QED
      BY <2>1, <3>1, <3>2, ClaimOutlivesOrder DEF Order
  <2> QED
    BY <2>2, <2>3
<1>3. rfqOf \in [Missed \cup OwedIn(t) -> Rows]
  <2> SUFFICES ASSUME NEW n \in Missed \cup OwedIn(t) PROVE orders[n].rfq \in Rows
    OBVIOUS
  <2>1. orders[n].token = t
    BY Amounts
  <2> QED
    BY <1>2, <2>1 DEF LiveClaims, Claims
<1>4. \A m, n \in Missed \cup OwedIn(t) : rfqOf[m] = rfqOf[n] => m = n
  <2> SUFFICES ASSUME NEW m \in Missed \cup OwedIn(t), NEW n \in Missed \cup OwedIn(t),
                      orders[m].rfq = orders[n].rfq
               PROVE  m = n
    OBVIOUS
  <2> QED
    BY <1>2 DEF Claims
<1>5. \A n \in Missed \cup OwedIn(t) : /\ Inputs[n] \in Nat
                                       /\ Inputs[n] =< Amount[rfqOf[n]]
  <2> SUFFICES ASSUME NEW n \in Missed \cup OwedIn(t)
               PROVE  Inputs[n] \in Nat /\ Inputs[n] =< ledger[orders[n].rfq].input
    BY <1>2
  <2>1. Inputs[n] = orders[n].input /\ Inputs[n] \in Nat
    BY Amounts
  <2> QED
    BY <1>2, <2>1 DEF Claims
<1>6. \A r \in Rows : Amount[r] \in Nat
  BY DEF LiveClaims, Live, TypeOK, Claim
<1>7. /\ IsFiniteSet(Missed) /\ IsFiniteSet(OwedIn(t)) /\ IsFiniteSet(FilledBy(t, b))
      /\ IsFiniteSet(Missed \cup OwedIn(t)) /\ IsFiniteSet(Rows)
  <2>1. IsFiniteSet(Missed) /\ IsFiniteSet(OwedIn(t)) /\ IsFiniteSet(FilledBy(t, b))
    BY Amounts, FS_Subset
  <2>2. Rows \subseteq Rfqs
    BY DEF LiveClaims
  <2> QED
    BY <2>1, <2>2, FS_Union, FS_Subset, ConstantsTyped
<1>8. Missed \cap OwedIn(t) = {}
  BY DEF FilledBy, OwedIn, Executable, NotFilled
<1>9. /\ \A n \in FilledBy(t, b) \cup Missed : Inputs[n] \in Nat
      /\ FilledBy(t, height) \in SUBSET (FilledBy(t, b) \cup Missed)
      /\ FilledBy(t, b) \cap Missed = {}
  <2>1. \A n \in FilledBy(t, b) \cup FilledBy(t, height) : Inputs[n] \in Nat
    BY Amounts
  <2> QED
    BY <2>1
<1>10. SumFunctionOnSet(Inputs, Missed \cup OwedIn(t)) =< SumFunctionOnSet(Amount, Rows)
  <2> HIDE DEF Missed, Rows, Amount, rfqOf
  <2> QED
    BY <1>3, <1>4, <1>5, <1>6, <1>7, SumMatched
<1> HIDE DEF Missed, Rows, Amount, rfqOf, b
<1>11. SumFunctionOnSet(Inputs, Missed \cup OwedIn(t))
         = SumFunctionOnSet(Inputs, Missed) + SumFunctionOnSet(Inputs, OwedIn(t))
  BY <1>5, <1>7, <1>8, SumParts
<1>12. SumFunctionOnSet(Inputs, FilledBy(t, b) \cup Missed)
         = SumFunctionOnSet(Inputs, FilledBy(t, b)) + SumFunctionOnSet(Inputs, Missed)
  BY <1>7, <1>9, SumParts
<1>13. SumFunctionOnSet(Inputs, FilledBy(t, height))
         =< SumFunctionOnSet(Inputs, FilledBy(t, b) \cup Missed)
  <2>1. IsFiniteSet(FilledBy(t, b) \cup Missed)
    BY <1>7, FS_Union
  <2> QED
    BY <1>9, <2>1, SumFewer
<1>14. /\ SumFunctionOnSet(Inputs, Missed) \in Nat
       /\ SumFunctionOnSet(Inputs, OwedIn(t)) \in Nat
       /\ SumFunctionOnSet(Inputs, FilledBy(t, b)) \in Nat
       /\ SumFunctionOnSet(Inputs, FilledBy(t, height)) \in Nat
       /\ SumFunctionOnSet(Amount, Rows) \in Nat
       /\ Funds[t] \in Nat
  <2>1. SumFunctionOnSet(Inputs, Missed) \in Nat
    BY <1>5, <1>7, SumType
  <2>2. SumFunctionOnSet(Amount, Rows) \in Nat
    BY <1>6, <1>7, SumType
  <2> QED
    BY <2>1, <2>2, Amounts DEF Owed
<1> DEFINE owed == SumFunctionOnSet(Inputs, OwedIn(t))
           missed == SumFunctionOnSet(Inputs, Missed)
           seen == SumFunctionOnSet(Inputs, FilledBy(t, b))
           filled == SumFunctionOnSet(Inputs, FilledBy(t, height))
           reserved == SumFunctionOnSet(Amount, Rows)
<1>15. /\ owed \in Nat /\ missed \in Nat /\ seen \in Nat /\ filled \in Nat
       /\ reserved \in Nat /\ Funds[t] \in Nat
       /\ missed + owed =< reserved /\ filled =< seen + missed
  BY <1>10, <1>11, <1>12, <1>13, <1>14
<1>16. /\ Owed(t) = owed /\ Reserved(ledger, t) = reserved
       /\ BalanceAt(t, cache[t].block) = Funds[t] - seen
       /\ BalanceAt(t, height) = Funds[t] - filled
  BY DEF Owed, Reserved, BalanceAt, Amount, Rows, b
<1> HIDE DEF owed, missed, seen, filled, reserved
<1> QED
  BY <1>15, <1>16

\* A fill takes from the balance what it takes from what is owed.
LEMMA FillSolvent ==
  ASSUME TypeOK, FillInv, SolventInv, NEW m \in Nonces, Fill(m)
  PROVE  /\ SolventInv'
         /\ orders[m].token \in Tokens
         /\ \A t \in Tokens :
              BalanceAt(t, height)' = IF t = orders[m].token
                                      THEN BalanceAt(t, height) - orders[m].input
                                      ELSE BalanceAt(t, height)
<1> USE DEF chain, world, shared, reader
<1>1. /\ m \in Nonces /\ Executable(m) /\ fillBlock[m] = 0
      /\ orders[m] \in Order
      /\ UNCHANGED <<now, venue, orders, engine>>
      /\ height \in Nat /\ height' = height + 1
      /\ fillBlock' = [fillBlock EXCEPT ![m] = height + 1]
  BY ExecutableOrder DEF Fill, TypeOK
<1>2. /\ fillBlock'[m] = height + 1
      /\ \A n \in Nonces \ {m} : fillBlock'[n] = fillBlock[n]
      /\ \A n \in Nonces : fillBlock[n] \in 0..height
  BY <1>1, FillTypes DEF SolventInv, FillsOnChain
<1>3. \A n \in Nonces : Executable(n)' <=> Executable(n) /\ n # m
  BY <1>1, <1>2 DEF Executable, NotFilled
<1>4. Inputs' = Inputs
  BY <1>1 DEF Inputs
<1>5. ASSUME NEW t \in Tokens
      PROVE  /\ OwedIn(t)' = OwedIn(t) \ {m}
             /\ FilledBy(t, height)' = IF t = orders[m].token THEN FilledBy(t, height) \cup {m}
                                       ELSE FilledBy(t, height)
             /\ m \in OwedIn(t) <=> t = orders[m].token
             /\ m \notin FilledBy(t, height)
  <2>1. OwedIn(t)' = OwedIn(t) \ {m} /\ (m \in OwedIn(t) <=> t = orders[m].token)
    BY <1>1, <1>3 DEF OwedIn
  <2>2. m \notin FilledBy(t, height)
    BY <1>1 DEF FilledBy
  <2>3. ASSUME NEW n \in Nonces
        PROVE  n \in FilledBy(t, height)' <=>
                 \/ n \in FilledBy(t, height)
                 \/ n = m /\ t = orders[m].token
    BY <1>1, <1>2 DEF FilledBy
  <2>4. FilledBy(t, height) \subseteq Nonces /\ FilledBy(t, height)' \subseteq Nonces
    BY DEF FilledBy
  <2>5. CASE t = orders[m].token
    BY <2>1, <2>2, <2>3, <2>4, <2>5
  <2>6. CASE t # orders[m].token
    BY <2>1, <2>2, <2>3, <2>4, <2>6
  <2> QED
    BY <2>1, <2>2, <2>5, <2>6
<1>6. ASSUME NEW t \in Tokens
      PROVE  /\ Owed(t) \in Nat /\ Owed(t)' \in Nat /\ BalanceAt(t, height) \in Int
             /\ t = orders[m].token =>
                  /\ Owed(t) = orders[m].input + Owed(t)'
                  /\ BalanceAt(t, height)' = BalanceAt(t, height) - orders[m].input
             /\ t # orders[m].token =>
                  /\ Owed(t)' = Owed(t)
                  /\ BalanceAt(t, height)' = BalanceAt(t, height)
  <2>1. Owed(t)' = SumFunctionOnSet(Inputs, OwedIn(t) \ {m})
    BY <1>4, <1>5 DEF Owed
  <2>2. /\ Owed(t) \in Nat /\ BalanceAt(t, height) \in Int
        /\ IsFiniteSet(OwedIn(t)) /\ IsFiniteSet(FilledBy(t, height))
        /\ \A n \in OwedIn(t) : Inputs[n] \in Nat
        /\ \A n \in FilledBy(t, height) : Inputs[n] \in Nat
    BY Amounts DEF BalanceAt
  <2>3. Owed(t)' \in Nat
    <3>1. IsFiniteSet(OwedIn(t) \ {m}) /\ \A n \in OwedIn(t) \ {m} : Inputs[n] \in Nat
      BY <2>2, FS_Subset
    <3> QED
      BY <2>1, <3>1, SumType
  <2>4. CASE t = orders[m].token
    <3>1. Inputs[m] = orders[m].input /\ Inputs[m] \in Nat
      BY <1>1 DEF Inputs, Order
    <3>2. m \in OwedIn(t)
      BY <1>5, <2>4
    <3>3. Owed(t) = orders[m].input + Owed(t)'
      BY <2>1, <2>2, <3>1, <3>2, SumWithout DEF Owed
    <3>4. SumFunctionOnSet(Inputs, FilledBy(t, height) \cup {m})
            = orders[m].input + SumFunctionOnSet(Inputs, FilledBy(t, height))
      <4>1. \A n \in FilledBy(t, height) \cup {m} : Inputs[n] \in Nat
        BY <2>2, <3>1
      <4>2. m \notin FilledBy(t, height)
        BY <1>5
      <4> QED
        BY <2>2, <3>1, <4>1, <4>2, SumWith
    <3>5. SumFunctionOnSet(Inputs, FilledBy(t, height)) \in Nat /\ Funds[t] \in Nat
      BY Amounts
    <3>6. BalanceAt(t, height)' = Funds[t] - SumFunctionOnSet(Inputs, FilledBy(t, height) \cup {m})
      BY <1>4, <1>5, <2>4 DEF BalanceAt
    <3>7. BalanceAt(t, height)' = BalanceAt(t, height) - orders[m].input
      BY <3>1, <3>4, <3>5, <3>6 DEF BalanceAt
    <3> QED
      BY <2>2, <2>3, <2>4, <3>3, <3>7
  <2>5. CASE t # orders[m].token
    <3>1. OwedIn(t) \ {m} = OwedIn(t)
      BY <1>5, <2>5
    <3>2. Owed(t)' = Owed(t)
      BY <2>1, <3>1 DEF Owed
    <3>3. BalanceAt(t, height)' = BalanceAt(t, height)
      BY <1>4, <1>5, <2>5 DEF BalanceAt
    <3> QED
      BY <2>2, <2>3, <2>5, <3>2, <3>3
  <2> QED
    BY <2>4, <2>5
<1>7. orders[m].input \in Nat /\ orders[m].token \in Tokens
  BY <1>1 DEF Order
<1>8. FillsOnChain'
  BY <1>1, <1>2 DEF FillsOnChain
<1>9. Solvent'
  <2> SUFFICES ASSUME NEW t \in Tokens PROVE Owed(t)' =< BalanceAt(t, height)'
    BY DEF Solvent
  <2>1. Owed(t) =< BalanceAt(t, height)
    BY DEF SolventInv, Solvent
  <2> QED
    BY <1>6, <1>7, <2>1
<1>10. SignedCovered'
  <2> SUFFICES ASSUME engine.pc = "signing"
               PROVE  /\ engine.order.input > 0
                      /\ engine.order.input + Owed(engine.order.token)'
                           =< BalanceAt(engine.order.token, height)'
    BY <1>1 DEF SignedCovered
  <2>1. /\ engine.order.token \in Tokens /\ engine.order.input \in Nat
        /\ engine.order.input > 0
        /\ engine.order.input + Owed(engine.order.token)
             =< BalanceAt(engine.order.token, height)
    BY EngineFields DEF SolventInv, SignedCovered, Order
  <2>2. CASE engine.order.token = orders[m].token
    BY <1>1, <1>6, <1>7, <2>1, <2>2
  <2>3. CASE engine.order.token # orders[m].token
    BY <1>1, <1>6, <1>7, <2>1, <2>3
  <2> QED
    BY <2>2, <2>3
<1> QED
  BY <1>6, <1>7, <1>8, <1>9, <1>10 DEF SolventInv

\* A quote is only signed when the chain covers it.
LEMMA PriceSolvent ==
  ASSUME SkewCovers, IInv, FillInv, FillsCounted, SolventInv,
         NEW n \in Nonces, NEW o \in Candidates, Price(n, o)
  PROVE  SolventInv'
<1> TypeOK
  BY DEF IInv
<1> USE DEF outside, chain, shared, reader
<1>1. /\ UNCHANGED <<now, height, fillBlock, venue, orders>>
      /\ engine # IdleEngine
      /\ engine' = [pc |-> "signing", nonce |-> n, order |-> o]
  BY DEF Price, IdleEngine
<1>2. mode = "online"
  BY <1>1 DEF IInv, ClaimInv, BusyUnclaimed
<1>3. o.token \in Tokens /\ o.input \in Nat /\ o.input > 0
  <2>1. o.token \in Tokens /\ o.input \in Sizes
    BY DEF Candidates
  <2>2. Sizes \subseteq Nat \ {0}
    BY ConstantsTyped
  <2>3. o.input \in Nat /\ o.input # 0
    BY <2>1, <2>2
  <2> QED
    BY <2>1, <2>3
<1>4. Covers(ledger, o)
  BY DEF Price
<1>5. BalanceAt(o.token, cache[o.token].block) - Reserved(ledger, o.token)
        =< BalanceAt(o.token, height) - Owed(o.token)
  BY <1>2, <1>3, <1>4, CapacityIsReal DEF Covers
<1>6. /\ Owed(o.token) \in Nat /\ BalanceAt(o.token, height) \in Int
      /\ BalanceAt(o.token, cache[o.token].block) \in Int
  BY <1>3, Amounts DEF BalanceAt
<1>7. Reserved(ledger, o.token) \in Nat
  <2> DEFINE Amount == [r \in Rfqs |-> ledger[r].input]
  <2>1. LiveClaims(ledger, o.token) \subseteq Rfqs
    BY DEF LiveClaims
  <2>2. IsFiniteSet(LiveClaims(ledger, o.token))
    BY <2>1, FS_Subset, ConstantsTyped
  <2>3. \A r \in LiveClaims(ledger, o.token) : Amount[r] \in Nat
    BY DEF LiveClaims, Live, TypeOK, Claim
  <2> HIDE DEF Amount
  <2>4. SumFunctionOnSet(Amount, LiveClaims(ledger, o.token)) \in Nat
    BY <2>2, <2>3, SumType
  <2> QED
    BY <2>4 DEF Reserved, Amount
<1>8. o.input + Owed(o.token) =< BalanceAt(o.token, height)
  <2>1. o.input + Reserved(ledger, o.token) =< BalanceAt(o.token, cache[o.token].block)
    BY <1>4 DEF Covers
  <2> QED
    BY <1>3, <1>5, <1>6, <1>7, <2>1
<1>9. /\ \A t \in Tokens : BalanceAt(t, height)' = BalanceAt(t, height)
      /\ \A t \in Tokens : Owed(t)' = Owed(t)
  <2>1. \A t \in Tokens : BalanceAt(t, height)' = BalanceAt(t, height)
    BY <1>1, BalanceStays
  <2>2. \A m \in Nonces : Executable(m)' = Executable(m)
    BY <1>1 DEF Executable, NotFilled
  <2>3. \A t \in Tokens : Owed(t)' = Owed(t)
    BY <1>1, <2>2 DEF Owed, OwedIn, Inputs
  <2> QED
    BY <2>1, <2>3
<1>10. FillsOnChain' /\ Solvent'
  BY <1>1, <1>9 DEF SolventInv, FillsOnChain, Solvent
<1>11. SignedCovered'
  BY <1>1, <1>3, <1>8, <1>9 DEF SignedCovered
<1> QED
  BY <1>10, <1>11 DEF SolventInv

\* A reply takes on, at most, the order that was covered.
LEMMA ReplySolvent ==
  ASSUME TypeOK, FillInv, SolventInv, Reply
  PROVE  /\ SolventInv'
         /\ \A t \in Tokens : BalanceAt(t, height)' = BalanceAt(t, height)
<1> DEFINE k == engine.nonce
           o == engine.order
<1> USE DEF outside, chain, shared, reader
<1>1. /\ k \in Nonces /\ o.token \in Tokens /\ o.input \in Nat /\ o \in Order
      /\ orders[k] = NoOrder
      /\ o.input + Owed(o.token) =< BalanceAt(o.token, height)
      /\ UNCHANGED <<now, height, fillBlock, venue>>
      /\ engine' = IdleEngine
      /\ orders' = orders \/ orders' = [orders EXCEPT ![k] = o]
  BY EngineFields DEF Reply, Order, FillInv, FillsInTime, SolventInv, SignedCovered
<1> HIDE DEF k, o
<1>2. /\ \A n \in Nonces \ {k} : orders'[n] = orders[n]
      /\ \A n \in Nonces : fillBlock[n] # 0 => orders'[n] = orders[n]
      /\ orders'[k] = orders[k] \/ orders'[k] = o
  BY <1>1 DEF TypeOK, FillInv, FillsInTime
<1>3. \A t \in Tokens : BalanceAt(t, height)' = BalanceAt(t, height)
  BY <1>1, <1>2, BalanceStays
<1>4. \A n \in Nonces \ {k} : Executable(n)' = Executable(n) /\ Inputs'[n] = Inputs[n]
  BY <1>1, <1>2 DEF Executable, NotFilled, Inputs
<1>5. ASSUME NEW t \in Tokens
      PROVE  /\ Owed(t)' \in Nat
             /\ \/ Owed(t)' =< Owed(t)
                \/ t = o.token /\ Owed(t)' = o.input + Owed(t)
  <2>1. /\ k \notin OwedIn(t) /\ IsFiniteSet(OwedIn(t)) /\ Owed(t) \in Nat
        /\ \A n \in OwedIn(t) : Inputs[n] \in Nat /\ Inputs[n] = Inputs'[n]
    <3>1. k \notin OwedIn(t)
      BY <1>1 DEF OwedIn, Executable
    <3> QED
      BY <1>4, <3>1, Amounts
  <2>2. OwedIn(t)' \ {k} = OwedIn(t)
    <3>1. \A n \in Nonces \ {k} : n \in OwedIn(t)' <=> n \in OwedIn(t)
      BY <1>2, <1>4 DEF OwedIn
    <3>2. OwedIn(t) \subseteq Nonces /\ OwedIn(t)' \subseteq Nonces
      BY DEF OwedIn
    <3> QED
      BY <2>1, <3>1, <3>2
  <2>3. SumFunctionOnSet(Inputs, OwedIn(t)) = SumFunctionOnSet(Inputs', OwedIn(t))
    BY <2>1, SumSame
  <2>4. Owed(t)' = SumFunctionOnSet(Inputs', OwedIn(t)')
    BY DEF Owed
  <2>5. CASE k \notin OwedIn(t)'
    <3>1. OwedIn(t)' = OwedIn(t)
      BY <2>2, <2>5
    <3>2. Owed(t)' = Owed(t)
      BY <2>3, <2>4, <3>1 DEF Owed
    <3> QED
      BY <2>1, <3>2
  <2>6. CASE k \in OwedIn(t)'
    <3>1. orders'[k] # NoOrder /\ orders'[k].token = t
      BY <2>6 DEF OwedIn, Executable
    <3>2. orders'[k] = o /\ t = o.token
      BY <1>1, <1>2, <3>1
    <3>3. Inputs'[k] = o.input
      BY <1>1, <3>2 DEF Inputs
    <3>4. OwedIn(t)' = OwedIn(t) \cup {k}
      BY <2>2, <2>6
    <3>5. SumFunctionOnSet(Inputs', OwedIn(t) \cup {k})
            = Inputs'[k] + SumFunctionOnSet(Inputs', OwedIn(t))
      <4>1. \A n \in OwedIn(t) \cup {k} : Inputs'[n] \in Nat
        BY <1>1, <2>1, <3>3
      <4> QED
        BY <2>1, <4>1, SumWith
    <3>6. Owed(t)' = o.input + Owed(t)
      BY <2>3, <2>4, <3>3, <3>4, <3>5 DEF Owed
    <3> QED
      BY <1>1, <2>1, <3>2, <3>6
  <2> QED
    BY <2>5, <2>6
<1>6. Solvent'
  <2> SUFFICES ASSUME NEW t \in Tokens PROVE Owed(t)' =< BalanceAt(t, height)'
    BY DEF Solvent
  <2>1. Owed(t) \in Nat /\ BalanceAt(t, height) \in Int
    BY Amounts DEF BalanceAt
  <2>2. Owed(t) =< BalanceAt(t, height)
    BY DEF SolventInv, Solvent
  <2> QED
    BY <1>1, <1>3, <1>5, <2>1, <2>2
<1>7. FillsOnChain' /\ SignedCovered'
  BY <1>1 DEF SolventInv, FillsOnChain, SignedCovered, IdleEngine
<1> QED
  BY <1>3, <1>6, <1>7 DEF SolventInv

\* Every other step only ends orders.
LEMMA OtherSteps ==
  ASSUME TypeOK, Next, \A n \in Nonces : ~Fill(n),
         \A n \in Nonces, o \in Candidates : ~Price(n, o), ~Reply
  PROVE  /\ UNCHANGED <<height, fillBlock, orders>>
         /\ \A n \in Nonces : Executable(n)' => Executable(n)
         /\ engine'.pc = "signing" => engine' = engine
<1> USE DEF outside, chain, world, responder, shared, reader
<1>1. CASE World
  <2>1. Tick \/ \E r \in Rfqs, v \in {"selected", "closed", "lost"} : VenueDecides(r, v)
    BY <1>1 DEF World
  <2>2. UNCHANGED <<height, fillBlock, orders, engine>>
    BY <2>1 DEF Tick, VenueDecides
  <2>3. CASE Tick
    <3>1. \A n \in Nonces : orders[n] # NoOrder => orders[n].deadline \in Nat
      BY DEF TypeOK, Order
    <3> QED
      BY <2>2, <2>3, <3>1, ConstantsTyped DEF Tick, Executable, NotFilled, TypeOK
  <2>4. ASSUME NEW r \in Rfqs, NEW v \in {"selected", "closed", "lost"}, VenueDecides(r, v)
        PROVE  \A n \in Nonces : Executable(n)' => Executable(n)
    <3>1. venue' = [venue EXCEPT ![r] = v] /\ venue[r] # "lost" /\ now' = now
      BY <2>4 DEF VenueDecides
    <3> QED
      BY <2>2, <3>1 DEF Executable, NotFilled, TypeOK
  <2> QED
    BY <2>1, <2>2, <2>3, <2>4
<1>2. CASE Responder \/ Process \/ BalanceLoop
  <2>1. UNCHANGED <<now, venue, height, fillBlock, orders>>
    BY <1>2 DEF Responder, QuoteRequest, OnSelected, OnQuoteExpired, OnLoser, Withhold,
       LevelsTick, LevelFrames, MarkExposed, Process, Connect, Disconnect, Crash, Start,
       BalanceLoop, LoopRead, ArriveBatch, ArriveUnordered, LoopFails, PublishBalance,
       SkipBalance, PublishSpent
  <2>2. engine' = engine \/ engine'.pc # "signing"
    <3>1. CASE Responder
      <4>1. CASE \E r \in Rfqs : QuoteRequest(r)
        BY <4>1 DEF QuoteRequest, IdleEngine
      <4>2. CASE Withhold
        BY <4>2 DEF Withhold, IdleEngine
      <4>3. CASE \/ \E r \in Rfqs : OnSelected(r) \/ OnQuoteExpired(r) \/ OnLoser(r)
                 \/ LevelsTick \/ LevelFrames
        BY <4>3 DEF OnSelected, OnQuoteExpired, OnLoser, LevelsTick, LevelFrames, MarkExposed
      <4> QED
        BY <3>1, <4>1, <4>2, <4>3 DEF Responder
    <3>2. CASE Process
      BY <3>2 DEF Process, Connect, Disconnect, Crash, Start, IdleEngine
    <3>3. CASE BalanceLoop
      BY <3>3 DEF BalanceLoop, LoopRead, ArriveBatch, ArriveUnordered, LoopFails, PublishBalance,
         SkipBalance, PublishSpent
    <3> QED
      BY <1>2, <3>1, <3>2, <3>3
  <2> QED
    BY <2>1, <2>2 DEF Executable, NotFilled
<1> QED
  BY <1>1, <1>2 DEF Next

\* Every step keeps the wallet solvent.
LEMMA SolventStep ==
  ASSUME SkewCovers
  PROVE  IInv /\ FillInv /\ FillsCounted /\ SolventInv /\ [Next]_vars => SolventInv'
<1> SUFFICES ASSUME IInv, FillInv, FillsCounted, SolventInv, [Next]_vars
             PROVE  SolventInv'
  OBVIOUS
<1> TypeOK
  BY DEF IInv
<1>1. CASE UNCHANGED vars
  BY <1>1, StaysSolvent DEF vars, chain, shared, reader, Executable, NotFilled
<1>2. CASE \E n \in Nonces : Fill(n)
  BY <1>2, FillSolvent
<1>3. CASE \E n \in Nonces, o \in Candidates : Price(n, o)
  BY <1>3, PriceSolvent
<1>4. CASE Reply
  BY <1>4, ReplySolvent
<1>5. CASE /\ Next /\ \A n \in Nonces : ~Fill(n)
           /\ \A n \in Nonces, o \in Candidates : ~Price(n, o)
           /\ ~Reply
  BY <1>5, OtherSteps, StaysSolvent
<1> QED
  BY <1>1, <1>2, <1>3, <1>4, <1>5

\* The invariant of the two theorems below.
THEOREM SolvencyInvariant ==
  ASSUME Timely, Durable, ~PartialBatches, Crashes => NodeLag = 0
  PROVE  Spec => [](IInv /\ FillInv /\ SolventInv)
<1>1. SkewCovers
  BY ConstantsTyped DEF Timely, SkewCovers
<1>2. Spec => [](IInv /\ FillInv)
  BY FillInvariant
<1>3. IInv /\ FillInv => FillsCounted
  BY FillsCover DEF IInv
<1>4. IInv /\ FillInv /\ FillsCounted /\ SolventInv /\ [Next]_vars => SolventInv'
  BY <1>1, SolventStep
<1> QED
  BY <1>2, <1>3, <1>4, InitSolvent, PTL DEF Spec

\* All orders takers may still use can be paid at once from what the chain holds,
\* for any number of rounds, orders and tokens: through stale readings, late and
\* lost results, reconnects, crashes and failed writes.
THEOREM WalletStaysSolvent ==
  ASSUME Timely, Durable, ~PartialBatches, Crashes => NodeLag = 0
  PROVE  Spec => []Solvent
<1>1. SolventInv => Solvent
  BY DEF SolventInv
<1> QED
  BY <1>1, SolvencyInvariant, PTL

(***************************************************************************)
(* The ledger implements Escrow.                                           *)
(***************************************************************************)

\* The initial states of Escrow, its actions and its step, in these terms.
LEMMA EscrowSteps ==
  /\ Obligations!Init <=> Owes = [n \in Nonces |-> NoOrder] /\ Balances = Funds
  /\ \A n \in Nonces :
       Owes[n] # NoOrder
         /\ Owes' = [Owes EXCEPT ![n] = NoOrder]
         /\ Balances' = [Balances EXCEPT ![Owes[n].token] = @ - Owes[n].input]
       => Obligations!Next
  /\ \A n \in Nonces, t \in Tokens : \A q \in 1..Balances[t] :
       Owes[n] = NoOrder
         /\ Obligations!Owed(t) + q =< Balances[t]
         /\ Owes' = [Owes EXCEPT ![n] = [token |-> t, input |-> q]]
         /\ Balances' = Balances
       => Obligations!Next
  /\ \A gone \in SUBSET Nonces :
       Owes' = [n \in Nonces |-> IF n \in gone THEN NoOrder ELSE Owes[n]]
         /\ Balances' = Balances
       => Obligations!Next
<1>1. Obligations!Init <=> Owes = [n \in Nonces |-> NoOrder] /\ Balances = Funds
  BY DEF Obligations!Init
<1>2. ASSUME NEW n \in Nonces, Owes[n] # NoOrder,
             Owes' = [Owes EXCEPT ![n] = NoOrder],
             Balances' = [Balances EXCEPT ![Owes[n].token] = @ - Owes[n].input]
      PROVE  Obligations!Next
  <2>1. Obligations!Settle(n)
    BY <1>2 DEF Obligations!Settle
  <2> QED
    BY <2>1 DEF Obligations!Next
<1>3. ASSUME NEW n \in Nonces, NEW t \in Tokens, NEW q \in 1..Balances[t],
             Owes[n] = NoOrder, Obligations!Owed(t) + q =< Balances[t],
             Owes' = [Owes EXCEPT ![n] = [token |-> t, input |-> q]],
             Balances' = Balances
      PROVE  Obligations!Next
  <2>1. Obligations!Promise(n)
    BY <1>3 DEF Obligations!Promise
  <2> QED
    BY <2>1 DEF Obligations!Next
<1>4. ASSUME NEW gone \in SUBSET Nonces,
             Owes' = [n \in Nonces |-> IF n \in gone THEN NoOrder ELSE Owes[n]],
             Balances' = Balances
      PROVE  Obligations!Next
  <2>1. Obligations!Lapse
    BY <1>4 DEF Obligations!Lapse
  <2> QED
    BY <2>1 DEF Obligations!Next
<1> QED
  BY <1>1, <1>2, <1>3, <1>4

\* Escrow's sum is the same fold.
LEMMA FoldedThere ==
  ASSUME NEW f, NEW S
  PROVE  Obligations!SumFunctionOnSet(f, S) = (CHOOSE it : Adds(it, f, S))[S]
BY DEF Obligations!SumFunctionOnSet, Obligations!FoldFunctionOnSet,
       Obligations!MapThenFoldSet, Adds, Pick

\* What Escrow owes is what the ledger owes.
LEMMA OwedBar ==
  ASSUME TypeOK, FillInv, NEW t \in Tokens
  PROVE  Obligations!Owed(t) = Owed(t)
<1> DEFINE Bar == [n \in Nonces |-> Owes[n].input]
<1>1. ASSUME NEW n \in Nonces
      PROVE  /\ Executable(n) => /\ Owes[n] # NoOrder
                                 /\ Owes[n].token = orders[n].token
                                 /\ Owes[n].input = orders[n].input
             /\ ~Executable(n) => Owes[n] = NoOrder
  <2>1. CASE Executable(n)
    <3>1. orders[n] \in Order
      BY <2>1, ExecutableOrder
    <3>2. Owes[n] = [token |-> orders[n].token, input |-> orders[n].input]
      BY <2>1 DEF Owes
    <3> QED
      BY <2>1, <3>1, <3>2, NullsDistinct DEF Order
  <2>2. CASE ~Executable(n)
    BY <2>2 DEF Owes
  <2> QED
    BY <2>1, <2>2
<1>2. {n \in Nonces : Owes[n] # NoOrder /\ Owes[n].token = t} = OwedIn(t)
  BY <1>1 DEF OwedIn
<1>3. \A n \in OwedIn(t) : Inputs[n] \in Nat /\ Inputs[n] = Bar[n]
  BY <1>1, Amounts DEF OwedIn
<1>4. IsFiniteSet(OwedIn(t))
  BY Amounts
<1>5. Obligations!Owed(t)
        = SumFunctionOnSet(Bar, {n \in Nonces : Owes[n] # NoOrder /\ Owes[n].token = t})
  BY FoldedThere, Folded DEF Obligations!Owed
<1> HIDE DEF Bar
<1>6. SumFunctionOnSet(Inputs, OwedIn(t)) = SumFunctionOnSet(Bar, OwedIn(t))
  BY <1>3, <1>4, SumSame
<1> QED
  BY <1>2, <1>5, <1>6 DEF Owed

\* The ledger starts as Escrow does.
LEMMA InitEscrow == Init => Obligations!Init
<1> SUFFICES ASSUME Init PROVE Obligations!Init
  OBVIOUS
<1>1. Owes = [n \in Nonces |-> NoOrder]
  BY DEF Init, Owes, Executable
<1>2. ASSUME NEW t \in Tokens PROVE BalanceAt(t, height) = Funds[t]
  <2>1. FilledBy(t, height) = {} /\ Funds[t] \in Nat
    BY ConstantsTyped DEF Init, FilledBy
  <2>2. SumFunctionOnSet(Inputs, {}) = 0
    BY SumEmpty
  <2> QED
    BY <2>1, <2>2 DEF BalanceAt
<1>3. Balances = Funds
  BY <1>2, ConstantsTyped DEF Balances
<1> QED
  BY <1>1, <1>3, EscrowSteps

\* A step that adds no order and fills none is a lapse, perhaps of nothing.
LEMMA OtherLapse ==
  ASSUME TypeOK, FillInv, UNCHANGED <<height, fillBlock, orders>>,
         \A n \in Nonces : Executable(n)' => Executable(n)
  PROVE  Obligations!Next
<1> DEFINE gone == {n \in Nonces : ~Executable(n)'}
<1>1. Owes' = [n \in Nonces |-> IF n \in gone THEN NoOrder ELSE Owes[n]]
  <2>1. \A n \in Nonces : Owes'[n] = IF n \in gone THEN NoOrder ELSE Owes[n]
    BY DEF Owes
  <2> QED
    BY <2>1 DEF Owes
<1>2. Balances' = Balances
  BY BalanceStays DEF Balances
<1>3. gone \in SUBSET Nonces
  OBVIOUS
<1> HIDE DEF gone
<1> QED
  BY <1>1, <1>2, <1>3, EscrowSteps

\* A fill settles its order.
LEMMA FillSettles ==
  ASSUME TypeOK, FillInv, SolventInv, NEW m \in Nonces, Fill(m)
  PROVE  Obligations!Next
<1> USE DEF chain, world, shared, reader
<1>1. /\ Executable(m) /\ orders[m] \in Order
      /\ UNCHANGED <<now, venue, orders>>
      /\ height \in Nat /\ fillBlock' = [fillBlock EXCEPT ![m] = height + 1]
  BY ExecutableOrder DEF Fill, TypeOK
<1>2. \A n \in Nonces : Executable(n)' <=> Executable(n) /\ n # m
  BY <1>1 DEF Executable, NotFilled, TypeOK
<1>3. Owes[m] = [token |-> orders[m].token, input |-> orders[m].input]
  BY <1>1 DEF Owes
<1>4. Owes[m] # NoOrder
  BY <1>1, <1>3, NullsDistinct DEF Order
<1>5. Owes' = [Owes EXCEPT ![m] = NoOrder]
  <2>1. \A n \in Nonces : Owes'[n] = IF n = m THEN NoOrder ELSE Owes[n]
    BY <1>1, <1>2 DEF Owes
  <2> QED
    BY <2>1 DEF Owes
<1>6. Balances' = [Balances EXCEPT ![Owes[m].token] = @ - Owes[m].input]
  <2>1. /\ orders[m].token \in Tokens
        /\ \A t \in Tokens :
             BalanceAt(t, height)' = IF t = orders[m].token
                                     THEN BalanceAt(t, height) - orders[m].input
                                     ELSE BalanceAt(t, height)
    BY FillSolvent
  <2> QED
    BY <1>3, <2>1 DEF Balances
<1> QED
  BY <1>4, <1>5, <1>6, EscrowSteps

\* A reply promises its order, if it sends one that may still take funds.
LEMMA ReplyPromises ==
  ASSUME TypeOK, FillInv, SolventInv, Reply
  PROVE  Obligations!Next
<1>0. PICK k, o : k = engine.nonce /\ o = engine.order
  OBVIOUS
<1> USE DEF outside, chain, shared, reader
<1>1. /\ k \in Nonces /\ o.token \in Tokens /\ o.input \in Nat /\ o \in Order
      /\ orders[k] = NoOrder /\ o.input > 0
      /\ o.input + Owed(o.token) =< BalanceAt(o.token, height)
      /\ UNCHANGED <<now, height, fillBlock, venue>>
      /\ orders' = orders \/ orders' = [orders EXCEPT ![k] = o]
  BY <1>0, EngineFields DEF Reply, Order, FillInv, FillsInTime, SolventInv, SignedCovered
<1>2. ~Executable(k)
  BY <1>1 DEF Executable
<1>3. /\ \A n \in Nonces \ {k} : orders'[n] = orders[n]
      /\ orders'[k] = orders[k] \/ orders'[k] = o
  BY <1>1 DEF TypeOK
<1>4. Balances' = Balances
  <2>1. \A t \in Tokens : BalanceAt(t, height)' = BalanceAt(t, height)
    BY ReplySolvent
  <2> QED
    BY <2>1 DEF Balances
<1>5. \A n \in Nonces \ {k} : Owes'[n] = Owes[n]
  BY <1>1, <1>3 DEF Owes, Executable, NotFilled
<1>6. Owes[k] = NoOrder
  BY <1>1, <1>2 DEF Owes
<1>7. CASE ~Executable(k)'
  <2>1. \A n \in Nonces : Owes'[n] = IF n \in {k} THEN NoOrder ELSE Owes[n]
    BY <1>5, <1>7 DEF Owes
  <2>2. Owes' = [n \in Nonces |-> IF n \in {k} THEN NoOrder ELSE Owes[n]]
    BY <2>1 DEF Owes
  <2>3. {k} \in SUBSET Nonces
    BY <1>1
  <2> QED
    BY <1>4, <2>2, <2>3, EscrowSteps
<1>8. CASE Executable(k)'
  <2>1. orders'[k] = o
    BY <1>1, <1>3, <1>8 DEF Executable
  <2>2. Owes'[k] = [token |-> o.token, input |-> o.input]
    BY <1>1, <1>8, <2>1 DEF Owes
  <2>3. Owes' = [Owes EXCEPT ![k] = [token |-> o.token, input |-> o.input]]
    BY <1>1, <1>5, <2>2 DEF Owes
  <2>4. Owed(o.token) \in Nat /\ BalanceAt(o.token, height) \in Int
    BY <1>1, Amounts DEF BalanceAt
  <2>5. Balances[o.token] = BalanceAt(o.token, height)
    BY <1>1 DEF Balances
  <2>6. o.input \in 1..Balances[o.token]
    BY <1>1, <2>4, <2>5
  <2>7. Obligations!Owed(o.token) + o.input =< Balances[o.token]
    BY <1>1, <2>4, <2>5, OwedBar
  <2> QED
    BY <1>1, <1>4, <1>6, <2>3, <2>6, <2>7, EscrowSteps
<1> QED
  BY <1>7, <1>8

\* Each step of the system is a step of Escrow.
LEMMA EscrowStep ==
  TypeOK /\ FillInv /\ SolventInv /\ [Next]_vars => Obligations!Next
<1> SUFFICES ASSUME TypeOK, FillInv, SolventInv, [Next]_vars PROVE Obligations!Next
  OBVIOUS
<1>1. CASE UNCHANGED vars
  BY <1>1, OtherLapse DEF vars, chain, shared, reader, Executable, NotFilled
<1>2. CASE \E n \in Nonces : Fill(n)
  BY <1>2, FillSettles
<1>3. CASE \E n \in Nonces, o \in Candidates : Price(n, o)
  BY <1>3, OtherLapse DEF Price, outside, chain, Executable, NotFilled
<1>4. CASE Reply
  BY <1>4, ReplyPromises
<1>5. CASE /\ Next /\ \A n \in Nonces : ~Fill(n)
           /\ \A n \in Nonces, o \in Candidates : ~Price(n, o)
           /\ ~Reply
  BY <1>5, OtherSteps, OtherLapse
<1> QED
  BY <1>1, <1>2, <1>3, <1>4, <1>5

\* The responder, the balance loop, the venue and the chain together implement
\* Escrow: every order that leaves the process was covered by what the chain holds,
\* on top of every other order out.
THEOREM LedgerImplementsEscrow ==
  ASSUME Timely, Durable, ~PartialBatches, Crashes => NodeLag = 0
  PROVE  Spec => ImplementsEscrow
<1>1. Spec => [](IInv /\ FillInv /\ SolventInv)
  BY SolvencyInvariant
<1>2. IInv => TypeOK
  BY DEF IInv
<1>3. TypeOK /\ FillInv /\ SolventInv /\ [Next]_vars => [Obligations!Next]_(Obligations!evars)
  BY EscrowStep
<1> QED
  BY <1>1, <1>2, <1>3, InitEscrow, PTL DEF Spec, ImplementsEscrow, Obligations!Spec

=============================================================================

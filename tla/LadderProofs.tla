---------------------------- MODULE LadderProofs -----------------------------
(***************************************************************************)
(* What TLAPS proves of the ladder, for any number of sides, slots and     *)
(* faults, any amounts and any least slice: the nonces of the slots do     *)
(* what superseding needs of them; a ladder offers all it was granted; and *)
(* the sides that share a token never overdraw it together.                *)
(***************************************************************************)
EXTENDS Ladder, FiniteSetTheorems, SequenceTheorems, WellFoundedInduction, TLAPS

(***************************************************************************)
(* The nonces.  How the sides are sized plays no part here.                *)
(***************************************************************************)

Fields == {"next", "nonce", "input", "left"}

\* A ledger: every slot's nonce is one of those taken, and no other slot's.
LedgerOK(l) ==
  /\ DOMAIN l = Fields
  /\ l.next \in Nat /\ l.nonce \in SlotMap
  /\ \A s \in Slots : l.nonce[s] <= l.next
  /\ \A s, t \in Slots : l.nonce[s] = l.nonce[t] /\ l.nonce[s] # 0 => s = t

Ledgers == LedgerOK(ledger) /\ LedgerOK(file) /\ file.next <= ledger.next

\* The indexer holds an order of the nonce its slot has, in memory and on file.
RowsOK ==
  \A r \in rows :
    /\ DOMAIN r = {"slot", "nonce", "input", "left"}
    /\ r.slot \in Slots /\ r.nonce # 0 /\ r.nonce \notin spent
    /\ r.nonce = ledger.nonce[r.slot] /\ r.nonce = file.nonce[r.slot]
    /\ \A q \in rows : q.slot = r.slot => q = r

SpentOK == \A n \in spent : n \in 1..file.next

\* What is signed is on file.
BatchOK ==
  /\ DOMAIN batch = {"input", "left"}
  /\ step \in {"signing", "answer"} => BatchSlots \subseteq Slots
  /\ step = "signing" =>
       \A s \in BatchSlots : ledger.nonce[s] # 0 /\ ledger.nonce[s] = file.nonce[s]

NamedOK ==
  /\ named \subseteq spent
  /\ step # "answer" \/ answer # "spent" => named = {}
  /\ step = "answer" => named \subseteq BatchNonces

\* A slot whose nonce is used and not named was filled, or took it from the file,
\* since it was last named.
StaleOK ==
  /\ DOMAIN filled = Slots
  /\ \A s \in Slots : ledger.nonce[s] \in spent \ named => filled[s]

IInv == Ledgers /\ RowsOK /\ SpentOK /\ BatchOK /\ NamedOK /\ StaleOK

----------------------------------------------------------------------------

LEMMA SlotsFinite == IsFiniteSet(Slots)
<1>1. IsFiniteSet(1..Sides)
  BY FS_Interval, ConstantsTyped
<1>2. IsFiniteSet(0..MaxOrders - 1)
  BY FS_Interval, ConstantsTyped
<1> QED
  BY <1>1, <1>2, FS_Product DEF Slots

\* Minting keeps the nonces there are, gives each slot asked for one of its own
\* and takes the new ones from above all others.
LEMMA MintedNonces ==
  ASSUME LedgerOK(ledger), NEW n, NEW slots \in SUBSET SlotsOf(n)
  PROVE  /\ LedgerOK(Minted(slots))
         /\ Minted(slots).next >= ledger.next
         /\ \A s \in Slots :
              /\ ledger.nonce[s] # 0 => Minted(slots).nonce[s] = ledger.nonce[s]
              /\ ledger.nonce[s] = 0 =>
                   \/ Minted(slots).nonce[s] = 0
                   \/ Minted(slots).nonce[s] > ledger.next
              /\ s \in slots => Minted(slots).nonce[s] # 0
<1> DEFINE new == {slot \in slots : ledger.nonce[slot] = 0}
           upTo(s) == {x \in new : x[2] <= s[2]}
           place(s) == Cardinality(upTo(s))
           next == ledger.next + Cardinality(new)
           m == [s \in Slots |-> IF s \in new THEN ledger.next + place(s)
                                 ELSE ledger.nonce[s]]
<1>1. /\ DOMAIN ledger = Fields /\ ledger.next \in Nat /\ ledger.nonce \in SlotMap
      /\ \A s \in Slots : ledger.nonce[s] \in Nat /\ ledger.nonce[s] <= ledger.next
      /\ \A s, t \in Slots : ledger.nonce[s] = ledger.nonce[t] /\ ledger.nonce[s] # 0 => s = t
  BY DEF LedgerOK, SlotMap
<1>2. /\ Minted(slots).nonce = m
      /\ Minted(slots).next = next
      /\ DOMAIN Minted(slots) = Fields
  BY <1>1 DEF Minted, Fields
<1>3. new \subseteq Slots /\ IsFiniteSet(new) /\ Cardinality(new) \in Nat
  BY SlotsFinite, FS_Subset, FS_CardinalityType DEF SlotsOf
<1>4. \A s \in new : place(s) \in 1..Cardinality(new)
  <2>1. SUFFICES ASSUME NEW s \in new PROVE place(s) \in 1..Cardinality(new)
    OBVIOUS
  <2>2. IsFiniteSet(upTo(s)) /\ place(s) <= Cardinality(new) /\ place(s) \in Nat
    BY <1>3, FS_Subset, FS_CardinalityType
  <2>3. s[2] \in Nat
    BY <1>3, <2>1, ConstantsTyped DEF Slots
  <2>4. s \in upTo(s)
    BY <2>1, <2>3
  <2>5. place(s) # 0
    BY <2>2, <2>4, FS_EmptySet
  <2> QED
    BY <2>2, <2>5, <1>3
<1>5. \A s, t \in new : place(s) = place(t) => s = t
  <2>1. \A s, t \in new : s[2] < t[2] => place(s) # place(t)
    <3>1. SUFFICES ASSUME NEW s \in new, NEW t \in new, s[2] < t[2] PROVE place(s) # place(t)
      OBVIOUS
    <3>2. \A x \in new : x[2] \in Nat
      BY <1>3, ConstantsTyped DEF Slots
    <3>3. upTo(s) \subseteq upTo(t) /\ t \in upTo(t) /\ t \notin upTo(s)
      BY <3>1, <3>2
    <3>4. IsFiniteSet(upTo(t))
      BY <1>3, FS_Subset
    <3>5. place(s) = place(t) => upTo(t) = upTo(s)
      <4> HIDE DEF upTo
      <4> QED BY <3>3, <3>4, FS_Subset
    <3> QED
      BY <3>3, <3>5
  <2>2. \A s, t \in new : s[2] = t[2] => s = t
    BY <1>3 DEF SlotsOf, Slots
  <2>3. \A s \in new : s[2] \in Int
    BY <1>3, ConstantsTyped DEF Slots
  <2> HIDE DEF new, place
  <2> QED
    BY <2>1, <2>2, <2>3
<1> HIDE DEF place
<1>6. \A s \in Slots : m[s] = IF s \in new THEN ledger.next + place(s) ELSE ledger.nonce[s]
  OBVIOUS
<1>7. \A s \in Slots : m[s] \in Nat /\ m[s] <= next
  BY <1>1, <1>3, <1>4, <1>6
<1>8. \A s \in new : m[s] > ledger.next
  BY <1>1, <1>3, <1>4, <1>6
<1>9. \A s, t \in Slots : m[s] = m[t] /\ m[s] # 0 => s = t
  <2>1. SUFFICES ASSUME NEW s \in Slots, NEW t \in Slots, m[s] = m[t], m[s] # 0 PROVE s = t
    OBVIOUS
  <2>2. CASE s \in new /\ t \in new
    <3>1. ledger.next + place(s) = ledger.next + place(t)
      BY <1>6, <2>1, <2>2
    <3>2. place(s) \in Int /\ place(t) \in Int
      BY <1>3, <1>4, <2>2
    <3>3. place(s) = place(t)
      BY <3>1, <3>2, <1>1
    <3> QED
      BY <3>3, <2>2, <1>5
  <2>3. CASE s \notin new /\ t \notin new
    BY <1>1, <1>6, <2>1, <2>3
  <2>4. \A x, y \in Slots : x \in new /\ y \notin new => m[x] # m[y]
    <3>1. SUFFICES ASSUME NEW x \in Slots, NEW y \in Slots, x \in new, y \notin new
                   PROVE  m[x] # m[y]
      OBVIOUS
    <3>2. m[x] > ledger.next
      BY <1>8, <3>1
    <3>3. m[y] <= ledger.next
      BY <1>1, <1>6, <3>1
    <3>4. m[x] \in Nat /\ m[y] \in Nat /\ ledger.next \in Nat
      BY <1>1, <1>7
    <3> HIDE DEF m
    <3> QED
      BY <3>2, <3>3, <3>4
  <2> QED
    BY <2>1, <2>2, <2>3, <2>4
<1>10. next \in Nat /\ next >= ledger.next
  BY <1>1, <1>3
<1>11. LedgerOK(Minted(slots))
  <2>1. m \in SlotMap
    BY <1>7 DEF SlotMap
  <2> HIDE DEF m, next
  <2> QED
    BY <1>2, <1>7, <1>9, <1>10, <2>1 DEF LedgerOK
<1>12. \A s \in Slots :
         /\ ledger.nonce[s] # 0 => m[s] = ledger.nonce[s]
         /\ ledger.nonce[s] = 0 => m[s] = 0 \/ m[s] > ledger.next
         /\ s \in slots => m[s] # 0
  <2>1. SUFFICES ASSUME NEW s \in Slots
                 PROVE  /\ ledger.nonce[s] # 0 => m[s] = ledger.nonce[s]
                        /\ ledger.nonce[s] = 0 => m[s] = 0 \/ m[s] > ledger.next
                        /\ s \in slots => m[s] # 0
    OBVIOUS
  <2>2. s \in new => ledger.nonce[s] = 0
    OBVIOUS
  <2>3. s \in slots /\ s \notin new => ledger.nonce[s] # 0
    OBVIOUS
  <2>4. s \in new => m[s] > ledger.next /\ m[s] # 0
    <3>1. m[s] \in Nat /\ ledger.next \in Nat /\ (s \in new => m[s] > ledger.next)
      BY <1>1, <1>7, <1>8
    <3> HIDE DEF m
    <3> QED BY <3>1
  <2> QED
    BY <2>2, <2>3, <2>4, <1>6
<1> HIDE DEF m, next
<1> QED
  BY <1>2, <1>10, <1>11, <1>12

LEMMA Started == Init => IInv
<1> SUFFICES ASSUME Init PROVE IInv
  OBVIOUS
<1>1. ledger = Fresh /\ file = Fresh /\ rows = {} /\ spent = {} /\ named = {}
  BY DEF Init
<1>2. LedgerOK(Fresh)
  <2>1. DOMAIN Fresh = Fields /\ Fresh.next = 0 /\ Fresh.nonce = [s \in Slots |-> 0]
    BY DEF Fresh, Fields
  <2> QED
    BY <2>1 DEF LedgerOK, SlotMap
<1>3. Ledgers
  BY <1>1, <1>2 DEF Ledgers, LedgerOK
<1>4. BatchOK
  BY DEF Init, BatchOK, NoBatch
<1>5. StaleOK
  BY <1>1 DEF Init, StaleOK
<1> QED
  BY <1>1, <1>3, <1>4, <1>5 DEF IInv, RowsOK, SpentOK, NamedOK

\* The steps of a side that touch neither the ledger nor the indexer.
LEMMA Thinking ==
  ASSUME IInv, UNCHANGED <<spent, rows, ledger, file, filled>>,
         step # "answer", step' \notin {"signing", "answer"},
         batch' = NoBatch \/ batch' = batch, named' = {} \/ named' = named
  PROVE  IInv'
<1>1. named = {} /\ named' = {}
  BY DEF IInv, NamedOK
<1>2. Ledgers' /\ SpentOK'
  BY DEF IInv, Ledgers, LedgerOK, SpentOK
<1>3. RowsOK'
  BY Zenon DEF IInv, RowsOK
<1>4. BatchOK'
  BY DEF IInv, BatchOK, NoBatch
<1>5. NamedOK'
  BY <1>1 DEF NamedOK
<1>6. StaleOK'
  BY <1>1, Zenon DEF IInv, StaleOK
<1> QED
  BY <1>2, <1>3, <1>4, <1>5, <1>6 DEF IInv

LEMMA DraftedSlots == Drafted \in SUBSET SlotsOf(side) /\ Drafted \subseteq Slots
BY DEF Drafted, SlotsOf

\* Nonces are taken, and on file or not.
LEMMA Minting ==
  ASSUME IInv, step = "size", ledger' = Minted(Drafted),
         file' = file \/ file' = ledger',
         UNCHANGED <<spent, rows, filled>>, named' = {} \/ named' = named
  PROVE  /\ Ledgers' /\ RowsOK' /\ SpentOK' /\ StaleOK' /\ named' = {}
         /\ \A s \in Drafted : ledger'.nonce[s] # 0
<1>1. Ledgers /\ RowsOK /\ SpentOK /\ StaleOK /\ named = {} /\ named' = {}
  BY DEF IInv, NamedOK
<1>2. LedgerOK(ledger) /\ LedgerOK(file) /\ file.next <= ledger.next
  BY <1>1 DEF Ledgers
<1>3. /\ LedgerOK(ledger')
      /\ ledger'.next >= ledger.next
      /\ \A s \in Slots :
           /\ ledger.nonce[s] # 0 => ledger'.nonce[s] = ledger.nonce[s]
           /\ ledger.nonce[s] = 0 => ledger'.nonce[s] = 0 \/ ledger'.nonce[s] > ledger.next
           /\ s \in Drafted => ledger'.nonce[s] # 0
  BY <1>2, DraftedSlots, MintedNonces
<1>4. ledger.next \in Nat /\ ledger'.next \in Nat /\ file.next \in Nat
  BY <1>2, <1>3 DEF LedgerOK
<1>5. LedgerOK(file') /\ file'.next <= ledger'.next /\ file.next <= file'.next
  BY <1>2, <1>3, <1>4
<1>6. Ledgers'
  BY <1>3, <1>5 DEF Ledgers, LedgerOK
<1>7. RowsOK'
  <2>1. SUFFICES ASSUME NEW r \in rows
                 PROVE  r.nonce = ledger'.nonce[r.slot] /\ r.nonce = file'.nonce[r.slot]
    BY <1>1 DEF RowsOK
  <2>2. r.slot \in Slots /\ r.nonce # 0 /\ r.nonce = ledger.nonce[r.slot]
          /\ r.nonce = file.nonce[r.slot]
    BY <1>1 DEF RowsOK
  <2> QED
    BY <1>3, <2>2
<1>8. SpentOK'
  BY <1>1, <1>4, <1>5, LedgerOK(file') DEF SpentOK, LedgerOK
<1>9. StaleOK'
  <2>1. SUFFICES ASSUME NEW s \in Slots, ledger'.nonce[s] \in spent PROVE filled[s]
    BY <1>1 DEF StaleOK
  <2>2. ledger'.nonce[s] \in 1..file.next
    BY <1>1, <2>1 DEF SpentOK
  <2>3. ledger'.nonce[s] <= ledger.next /\ ledger'.nonce[s] # 0
    BY <1>2, <1>4, <2>2
  <2>4. ledger'.nonce[s] = ledger.nonce[s]
    BY <1>3, <1>4, <2>2, <2>3
  <2> QED
    BY <1>1, <2>1, <2>4, Zenon DEF StaleOK
<1> QED
  BY <1>1, <1>3, <1>6, <1>7, <1>8, <1>9, DraftedSlots

LEMMA DraftStep == IInv /\ Draft => IInv'
<1> SUFFICES ASSUME IInv, Draft PROVE IInv'
  OBVIOUS
<1>1. /\ step = "size" /\ step' = "signing" /\ ledger' = Minted(Drafted) /\ file' = ledger'
      /\ UNCHANGED <<spent, rows, filled, named>>
      /\ DOMAIN batch' = {"input", "left"} /\ BatchSlots' = Drafted
  BY DEF Draft, world, BatchSlots
<1>2. /\ Ledgers' /\ RowsOK' /\ SpentOK' /\ StaleOK' /\ named' = {}
      /\ \A s \in Drafted : ledger'.nonce[s] # 0
  BY <1>1, Minting
<1>3. BatchOK'
  BY <1>1, <1>2, DraftedSlots DEF BatchOK
<1>4. NamedOK'
  BY <1>2 DEF NamedOK
<1> QED
  BY <1>2, <1>3, <1>4 DEF IInv

LEMMA HoldStep == IInv /\ (Hold \/ NotSaved) => IInv'
<1> SUFFICES ASSUME IInv, Hold \/ NotSaved PROVE IInv'
  OBVIOUS
<1>1. /\ step = "size" /\ step' = "requote" /\ ledger' = Minted(Drafted) /\ file' = file
      /\ UNCHANGED <<spent, rows, filled>> /\ named' = {} /\ batch' = NoBatch
  BY DEF Hold, NotSaved, world, NextSide, Over
<1>2. Ledgers' /\ RowsOK' /\ SpentOK' /\ StaleOK'
  BY <1>1, Minting
<1>3. BatchOK' /\ NamedOK'
  BY <1>1 DEF BatchOK, NamedOK, NoBatch
<1> QED
  BY <1>2, <1>3 DEF IInv

\* The batch takes the place of the orders with its nonces.
LEMMA AcceptedRows ==
  ASSUME IInv, step = "signing", BatchNonces \cap spent = {}, rows' = Accepted,
         UNCHANGED <<ledger, file, spent>>
  PROVE  RowsOK'
<1>1. Ledgers /\ RowsOK /\ BatchOK
  BY DEF IInv
<1> DEFINE Placed == {[slot |-> slot, nonce |-> ledger.nonce[slot],
                       input |-> batch.input[slot], left |-> batch.left] :
                        slot \in BatchSlots}
<1>2. rows' = {r \in rows : r.nonce \notin BatchNonces} \cup Placed
  BY DEF Accepted
<1>3. \A r \in Placed :
        /\ DOMAIN r = {"slot", "nonce", "input", "left"}
        /\ r.slot \in BatchSlots /\ r.nonce = ledger.nonce[r.slot]
        /\ \A q \in Placed : q.slot = r.slot => q = r
  OBVIOUS
<1> HIDE DEF Placed
<1>4. \A slot \in BatchSlots : ledger.nonce[slot] \in BatchNonces
  BY DEF BatchNonces
<1>5. \A r \in Placed :
        /\ r.slot \in Slots /\ r.nonce # 0 /\ r.nonce \notin spent
        /\ r.nonce = file.nonce[r.slot]
  BY <1>1, <1>3, <1>4 DEF BatchOK
<1>6. \A r \in rows : r.nonce \notin BatchNonces => r.slot \notin BatchSlots
  BY <1>1, <1>4 DEF RowsOK
<1>7. SUFFICES ASSUME NEW r \in rows'
               PROVE  /\ DOMAIN r = {"slot", "nonce", "input", "left"}
                      /\ r.slot \in Slots /\ r.nonce # 0 /\ r.nonce \notin spent
                      /\ r.nonce = ledger.nonce[r.slot] /\ r.nonce = file.nonce[r.slot]
                      /\ \A q \in rows' : q.slot = r.slot => q = r
  BY DEF RowsOK
<1>8. CASE r \in Placed
  BY <1>2, <1>3, <1>5, <1>6, <1>8
<1>9. CASE r \in rows /\ r.nonce \notin BatchNonces
  <2>1. /\ DOMAIN r = {"slot", "nonce", "input", "left"}
        /\ r.slot \in Slots /\ r.nonce # 0 /\ r.nonce \notin spent
        /\ r.nonce = ledger.nonce[r.slot] /\ r.nonce = file.nonce[r.slot]
        /\ \A q \in rows : q.slot = r.slot => q = r
    BY <1>1, <1>9, Zenon DEF RowsOK
  <2>2. r.slot \notin BatchSlots
    BY <1>6, <1>9
  <2> QED
    BY <1>2, <1>3, <2>1, <2>2
<1> QED
  BY <1>2, <1>7, <1>8, <1>9

LEMMA SubmitStep == IInv /\ Submit => IInv'
<1> SUFFICES ASSUME IInv, Submit PROVE IInv'
  OBVIOUS
<1>1. /\ step = "signing" /\ step' = "answer" /\ UNCHANGED <<ledger, file, spent, batch>>
      /\ rows' = rows \/ (Good /\ rows' = Accepted)
      /\ named' = IF answer' = "spent" THEN BatchNonces \cap spent ELSE {}
      /\ filled' = [slot \in Slots |->
           filled[slot] /\ ~(slot \in BatchSlots /\ ledger.nonce[slot] \in named')]
  BY DEF Submit, world
<1>2. Ledgers /\ RowsOK /\ SpentOK /\ BatchOK /\ StaleOK /\ named = {}
  BY <1>1 DEF IInv, NamedOK
<1>3. Ledgers' /\ SpentOK'
  BY <1>1, <1>2 DEF Ledgers, LedgerOK, SpentOK
<1>4. RowsOK'
  <2>1. CASE rows' = rows
    BY <1>1, <1>2, <2>1, Zenon DEF RowsOK
  <2>2. CASE Good /\ rows' = Accepted
    BY <1>1, <2>2, AcceptedRows DEF Good, SpentInBatch
  <2> QED
    BY <1>1, <2>1, <2>2
<1>5. BatchOK'
  BY <1>1, <1>2 DEF BatchOK, BatchSlots
<1>6. NamedOK'
  <2>1. BatchNonces' = BatchNonces
    BY <1>1 DEF BatchNonces, BatchSlots
  <2> QED
    BY <1>1, <2>1 DEF NamedOK
<1>7. StaleOK'
  <2>1. SUFFICES ASSUME NEW s \in Slots, ledger.nonce[s] \in spent, ledger.nonce[s] \notin named'
                 PROVE  filled'[s]
    BY <1>1 DEF StaleOK
  <2>2. filled[s]
    BY <1>2, <2>1, Zenon DEF StaleOK
  <2> QED
    BY <1>1, <2>1, <2>2, Zenon
<1> QED
  BY <1>3, <1>4, <1>5, <1>6, <1>7 DEF IInv

\* An answer leaves every nonce but the named ones, which it forgets.
LEMMA Forgetting ==
  ASSUME IInv, step = "answer", Over, file' = file \/ file' = ledger',
         UNCHANGED <<spent, rows, filled>>,
         DOMAIN ledger' = Fields, ledger'.next = ledger.next, ledger'.nonce \in SlotMap,
         \A s \in Slots :
           /\ ledger'.nonce[s] \notin named
           /\ \/ ledger'.nonce[s] = ledger.nonce[s]
              \/ ledger'.nonce[s] = 0 /\ ledger.nonce[s] \in spent
  PROVE  IInv'
<1>1. Ledgers /\ RowsOK /\ SpentOK /\ NamedOK /\ StaleOK
  BY DEF IInv
<1>2. LedgerOK(ledger) /\ LedgerOK(file) /\ file.next <= ledger.next
        /\ ledger.next \in Nat /\ file.next \in Nat
  BY <1>1 DEF Ledgers, LedgerOK
<1>3. LedgerOK(ledger')
  BY <1>2 DEF LedgerOK
<1>4. Ledgers' /\ file.next <= file'.next /\ file'.next \in Nat
  BY <1>2, <1>3 DEF Ledgers, LedgerOK
<1>5. RowsOK'
  <2>1. SUFFICES ASSUME NEW r \in rows
                 PROVE  r.nonce = ledger'.nonce[r.slot] /\ r.nonce = file'.nonce[r.slot]
    BY <1>1, Zenon DEF RowsOK
  <2>2. r.slot \in Slots /\ r.nonce \notin spent /\ r.nonce = ledger.nonce[r.slot]
          /\ r.nonce = file.nonce[r.slot]
    BY <1>1, Zenon DEF RowsOK
  <2> QED
    BY <2>2
<1>6. SpentOK'
  BY <1>1, <1>2, <1>4 DEF SpentOK
<1>7. BatchOK' /\ NamedOK'
  BY DEF Over, BatchOK, NamedOK, NoBatch
<1>8. StaleOK'
  <2>1. SUFFICES ASSUME NEW s \in Slots, ledger'.nonce[s] \in spent PROVE filled[s]
    BY <1>1, Zenon DEF StaleOK
  <2>2. 0 \notin spent
    BY <1>1, <1>2 DEF SpentOK
  <2>3. ledger.nonce[s] \in spent \ named
    BY <2>1, <2>2
  <2> QED
    BY <1>1, <2>3, Zenon DEF StaleOK
<1> QED
  BY <1>4, <1>5, <1>6, <1>7, <1>8 DEF IInv

LEMMA AnsweredStep == IInv /\ Answered => IInv'
<1> SUFFICES ASSUME IInv, Answered PROVE IInv'
  OBVIOUS
<1>1. /\ step = "answer" /\ Over /\ UNCHANGED <<spent, rows, filled>>
      /\ file' = file \/ file' = ledger'
      /\ answer = "spent" => ledger' = Forgotten
      /\ answer # "spent" => ledger' = ledger \/ ledger' = Remembered
  BY DEF Answered, NextSide, Persist, world
<1>2. LedgerOK(ledger) /\ SpentOK /\ NamedOK /\ BatchOK
  BY DEF IInv, Ledgers
<1>3. DOMAIN ledger = Fields /\ ledger.nonce \in SlotMap
  BY <1>2 DEF LedgerOK
<1>4. CASE answer # "spent"
  <2>1. DOMAIN ledger' = Fields /\ ledger'.next = ledger.next /\ ledger'.nonce = ledger.nonce
    BY <1>1, <1>3, <1>4 DEF Remembered, Fields
  <2>2. named = {}
    BY <1>2, <1>4 DEF NamedOK
  <2> QED
    BY <1>1, <1>3, <2>1, <2>2, Forgetting
<1>5. CASE answer = "spent"
  <2> DEFINE gone == {slot \in BatchSlots : ledger.nonce[slot] \in named}
             kept == [s \in Slots |-> IF s \in gone THEN 0 ELSE ledger.nonce[s]]
  <2>1. DOMAIN ledger' = Fields /\ ledger'.next = ledger.next /\ ledger'.nonce = kept
    BY <1>1, <1>3, <1>5 DEF Forgotten, Fields
  <2>2. kept \in SlotMap
    BY <1>3 DEF SlotMap
  <2>3. named \subseteq spent /\ named \subseteq BatchNonces /\ BatchSlots \subseteq Slots
    BY <1>1, <1>2 DEF NamedOK, BatchOK
  <2>4. 0 \notin spent
    BY <1>2 DEF SpentOK
  <2>5. \A s \in Slots : ledger.nonce[s] \in named => s \in gone
    <3>1. SUFFICES ASSUME NEW s \in Slots, ledger.nonce[s] \in named PROVE s \in gone
      OBVIOUS
    <3>2. PICK b \in BatchSlots : ledger.nonce[s] = ledger.nonce[b]
      BY <2>3, <3>1 DEF BatchNonces
    <3>3. s = b
      BY <1>2, <2>3, <2>4, <3>1, <3>2 DEF LedgerOK
    <3> QED
      BY <3>1, <3>2, <3>3
  <2>6. \A s \in Slots :
          /\ kept[s] \notin named
          /\ kept[s] # ledger.nonce[s] => kept[s] = 0 /\ ledger.nonce[s] \in spent
    <3>1. SUFFICES ASSUME NEW s \in Slots
                   PROVE  /\ kept[s] \notin named
                          /\ kept[s] # ledger.nonce[s] => kept[s] = 0 /\ ledger.nonce[s] \in spent
      OBVIOUS
    <3>2. kept[s] = IF s \in gone THEN 0 ELSE ledger.nonce[s]
      OBVIOUS
    <3>3. s \in gone => ledger.nonce[s] \in named
      OBVIOUS
    <3>4. s \notin gone => ledger.nonce[s] \notin named
      BY <2>5
    <3> HIDE DEF kept, gone
    <3>5. CASE s \in gone
      BY <2>3, <2>4, <3>2, <3>3, <3>5, Zenon
    <3>6. CASE s \notin gone
      <4>1. kept[s] = ledger.nonce[s]
        BY <3>2, <3>6
      <4> QED
        BY <3>4, <3>6, <4>1
    <3> QED
      BY <3>5, <3>6
  <2> HIDE DEF kept
  <2> QED
    BY <1>1, <2>1, <2>2, <2>6, Forgetting
<1> QED
  BY <1>4, <1>5

\* What happens while the task waits leaves the batch and the ledger's nonces.
LEMMA FillStep == ASSUME IInv, NEW r \in rows, Fill(r) PROVE IInv'
<1>1. /\ UNCHANGED <<ledger, file, step, batch, answer, named>>
      /\ rows' = rows \ {r} /\ spent' = spent \cup {r.nonce}
      /\ filled' = [filled EXCEPT ![r.slot] = TRUE]
  BY DEF Fill, task
<1>2. Ledgers /\ RowsOK /\ SpentOK /\ BatchOK /\ NamedOK /\ StaleOK
  BY DEF IInv
<1>3. /\ r.slot \in Slots /\ r.nonce # 0 /\ r.nonce = ledger.nonce[r.slot]
      /\ r.nonce = file.nonce[r.slot]
  BY <1>2, Zenon DEF RowsOK
<1>4. LedgerOK(ledger) /\ LedgerOK(file) /\ file.next <= ledger.next
  BY <1>2 DEF Ledgers
<1>5. Ledgers'
  BY <1>1, <1>2 DEF Ledgers, LedgerOK
<1>6. RowsOK'
  <2>1. SUFFICES ASSUME NEW q \in rows, q # r PROVE q.nonce # r.nonce
    BY <1>1, <1>2 DEF RowsOK
  <2>2. q.slot \in Slots /\ q.nonce = ledger.nonce[q.slot] /\ q.nonce # 0 /\ q.slot # r.slot
    BY <1>2, <2>1 DEF RowsOK
  <2> QED
    BY <1>3, <1>4, <2>2 DEF LedgerOK
<1>7. SpentOK'
  <2>1. r.nonce \in 1..file.next
    BY <1>3, <1>4 DEF LedgerOK, SlotMap
  <2> QED
    BY <1>1, <1>2, <2>1 DEF SpentOK
<1>8. BatchOK' /\ NamedOK'
  BY <1>1, <1>2 DEF BatchOK, NamedOK, BatchSlots, BatchNonces
<1>9. StaleOK'
  <2>1. DOMAIN filled' = Slots
    BY <1>1, <1>2 DEF StaleOK
  <2>2. SUFFICES ASSUME NEW s \in Slots, ledger.nonce[s] \in spent', ledger.nonce[s] \notin named
                 PROVE  filled'[s]
    BY <1>1, <2>1, Zenon DEF StaleOK
  <2>3. CASE s = r.slot
    BY <1>1, <1>2, <2>3 DEF StaleOK
  <2>4. CASE s # r.slot
    <3>1. ledger.nonce[s] # r.nonce
      BY <1>3, <1>4, <2>4 DEF LedgerOK
    <3>2. filled[s]
      BY <1>1, <1>2, <2>2, <3>1, Zenon DEF StaleOK
    <3> QED
      BY <1>1, <1>2, <2>4, <3>2 DEF StaleOK
  <2> QED
    BY <2>3, <2>4
<1> QED
  BY <1>5, <1>6, <1>7, <1>8, <1>9 DEF IInv

LEMMA SecondStep == IInv /\ Second => IInv'
<1> SUFFICES ASSUME IInv, Second PROVE IInv'
  OBVIOUS
<1> DEFINE Older(r) == [r EXCEPT !.left = @ - 1]
<1>1. /\ rows' = {Older(r) : r \in {r \in rows : r.left > 1}}
      /\ ledger' = [ledger EXCEPT !.left = Aged(@)]
      /\ file' = [file EXCEPT !.left = Aged(@)]
      /\ batch' = [batch EXCEPT !.left = Monus(@, 1)]
      /\ UNCHANGED <<spent, step, answer, named, filled>>
  BY DEF Second, world
<1>2. Ledgers /\ RowsOK /\ SpentOK /\ BatchOK /\ NamedOK /\ StaleOK
  BY DEF IInv
<1>3. DOMAIN ledger = Fields /\ DOMAIN file = Fields /\ DOMAIN batch = {"input", "left"}
  BY <1>2 DEF Ledgers, LedgerOK, BatchOK
<1>4. /\ ledger'.next = ledger.next /\ ledger'.nonce = ledger.nonce /\ DOMAIN ledger' = Fields
      /\ file'.next = file.next /\ file'.nonce = file.nonce /\ DOMAIN file' = Fields
      /\ batch'.input = batch.input /\ DOMAIN batch' = {"input", "left"}
  BY <1>1, <1>3 DEF Fields
<1>5. Ledgers'
  BY <1>2, <1>4 DEF Ledgers, LedgerOK
<1>6. RowsOK'
  <2>1. \A r \in rows : /\ DOMAIN Older(r) = {"slot", "nonce", "input", "left"}
                        /\ Older(r).slot = r.slot /\ Older(r).nonce = r.nonce
    BY <1>2 DEF RowsOK
  <2>2. \A q \in rows' : \E r \in rows : q = Older(r)
    BY <1>1
  <2> HIDE DEF Older
  <2> QED
    BY <1>1, <1>2, <1>4, <2>1, <2>2 DEF RowsOK
<1>7. SpentOK'
  BY <1>1, <1>2, <1>4 DEF SpentOK
<1>8. BatchOK'
  BY <1>1, <1>2, <1>4 DEF BatchOK, BatchSlots
<1>9. NamedOK'
  <2>1. BatchNonces' = BatchNonces
    BY <1>4 DEF BatchNonces, BatchSlots
  <2> QED
    BY <1>1, <1>2, <2>1 DEF NamedOK
<1>10. StaleOK'
  BY <1>1, <1>2, <1>4, Zenon DEF StaleOK
<1> QED
  BY <1>5, <1>6, <1>7, <1>8, <1>9, <1>10 DEF IInv

\* The next nonce on file is the largest of the file's own.
LEMMA LoadedNonces ==
  ASSUME LedgerOK(file)
  PROVE  /\ DOMAIN Loaded = Fields
         /\ Loaded.next = file.next /\ Loaded.nonce = file.nonce
<1> DEFINE S == {file.next} \cup {file.nonce[slot] : slot \in Slots}
<1>1. /\ DOMAIN file = Fields /\ file.next \in Nat /\ file.nonce \in SlotMap
      /\ \A s \in Slots : file.nonce[s] <= file.next
  BY DEF LedgerOK
<1>2. S \subseteq Nat /\ file.next \in S /\ \A n \in S : n <= file.next
  BY <1>1 DEF SlotMap
<1>3. /\ Loaded.next = Max(S) /\ Loaded.nonce = file.nonce /\ DOMAIN Loaded = Fields
  BY <1>1 DEF Loaded, Fields
<1>4. Max(S) = file.next
  <2> HIDE DEF S
  <2>1. Max(S) \in S /\ \A n \in S : Max(S) >= n
    BY <1>1, <1>2 DEF Max
  <2>2. Max(S) \in Nat /\ Max(S) <= file.next /\ Max(S) >= file.next
    BY <1>2, <2>1, Zenon
  <2> QED
    BY <1>1, <2>2
<1> QED
  BY <1>3, <1>4

LEMMA RestartStep == IInv /\ Restart => IInv'
<1> SUFFICES ASSUME IInv, Restart PROVE IInv'
  OBVIOUS
<1>1. /\ ledger' = Loaded /\ Over /\ UNCHANGED <<spent, rows, file>>
      /\ filled' = [slot \in Slots |-> filled[slot] \/ file.nonce[slot] \in spent]
  BY DEF Restart, world
<1>2. Ledgers /\ RowsOK /\ SpentOK
  BY DEF IInv
<1>3. LedgerOK(file)
  BY <1>2 DEF Ledgers
<1>4. DOMAIN ledger' = Fields /\ ledger'.next = file.next /\ ledger'.nonce = file.nonce
  BY <1>1, <1>3, LoadedNonces
<1>5. Ledgers'
  BY <1>1, <1>3, <1>4 DEF Ledgers, LedgerOK
<1>6. RowsOK'
  BY <1>1, <1>2, <1>4, Zenon DEF RowsOK
<1>7. SpentOK' /\ BatchOK' /\ NamedOK'
  BY <1>1, <1>2 DEF Over, SpentOK, BatchOK, NamedOK, NoBatch
<1>8. StaleOK'
  <2>1. DOMAIN filled' = Slots
    BY <1>1
  <2>2. ASSUME NEW s \in Slots, ledger'.nonce[s] \in spent'
        PROVE  filled'[s]
    <3>1. file.nonce[s] \in spent
      BY <1>1, <1>4, <2>2
    <3>2. filled'[s] = (filled[s] \/ file.nonce[s] \in spent)
      BY <1>1
    <3> QED
      BY <3>1, <3>2
  <2> QED
    BY <2>1, <2>2 DEF StaleOK
<1> QED
  BY <1>5, <1>6, <1>7, <1>8 DEF IInv

\* Steps that touch none of this.
LEMMA Stuttering ==
  ASSUME IInv,
         UNCHANGED <<spent, rows, ledger, file, step, batch, answer, named, filled>>
  PROVE  IInv'
<1>1. Ledgers' /\ SpentOK'
  BY DEF IInv, Ledgers, LedgerOK, SpentOK
<1>2. RowsOK'
  BY Zenon DEF IInv, RowsOK
<1>3. BatchOK'
  BY DEF IInv, BatchOK, BatchSlots
<1>4. NamedOK'
  BY DEF IInv, NamedOK, BatchNonces, BatchSlots
<1>5. StaleOK'
  BY Zenon DEF IInv, StaleOK
<1> QED
  BY <1>1, <1>2, <1>3, <1>4, <1>5 DEF IInv

LEMMA Inductive == IInv /\ [Next]_vars => IInv'
<1> SUFFICES ASSUME IInv, [Next]_vars PROVE IInv'
  OBVIOUS
<1>1. CASE StartTick \/ Skip
  <2>1. step # "answer"
    BY <1>1 DEF StartTick, Skip
  <2> QED
    BY <1>1, <2>1, Thinking DEF StartTick, Skip, NextSide, Over, world
<1>2. ASSUME NEW s \in 1..Sides, Quote(s) PROVE IInv'
  BY <1>2, Thinking DEF Quote, world
<1>3. CASE ReadBalance
  BY <1>3, Thinking DEF ReadBalance, world
<1>4. CASE ReadCommitted
  BY <1>4, Thinking DEF ReadCommitted, world
<1>5. CASE ReadFails
  BY <1>5, Thinking DEF ReadFails, NextSide, Over, world
<1>6. CASE Withhold
  BY <1>6, Thinking DEF Withhold, NextSide, Over, world
<1>7. CASE Transfer
  BY <1>7, Stuttering DEF Transfer, task
<1>8. CASE UNCHANGED vars
  BY <1>8, Stuttering DEF vars, task, world
<1> QED
  BY <1>1, <1>2, <1>3, <1>4, <1>5, <1>6, <1>7, <1>8, DraftStep, HoldStep, SubmitStep,
     AnsweredStep, FillStep, SecondStep, RestartStep DEF Next, QuoteSide

\* The inductive invariant of the nonces holds throughout.
THEOREM Invariance == Spec => []IInv
<1> QED
  BY Started, Inductive, PTL DEF Spec

----------------------------------------------------------------------------

\* A new order supersedes its slot's old one and no other, for any number of
\* sides, slots, lost answers, failed writes and restarts.
THEOREM Superseding == Spec => []SlotNonces
<1>1. IInv => SlotNonces
  <2>1. SUFFICES ASSUME IInv, NEW a \in rows, NEW b \in rows
                 PROVE  /\ a.slot = b.slot <=> a.nonce = b.nonce
                        /\ a.slot = b.slot => a = b
    BY DEF SlotNonces
  <2>2. /\ a.slot \in Slots /\ a.nonce = ledger.nonce[a.slot] /\ a.nonce # 0
        /\ b.slot \in Slots /\ b.nonce = ledger.nonce[b.slot]
        /\ a.slot = b.slot => a = b
    BY <2>1, Zenon DEF IInv, RowsOK
  <2>3. LedgerOK(ledger)
    BY <2>1 DEF IInv, Ledgers
  <2> QED
    BY <2>2, <2>3 DEF LedgerOK
<1> QED
  BY <1>1, Invariance, PTL

\* The nonces a step gives out are above all that were used or are live.
LEMMA Newer ==
  ASSUME IInv, [Next]_vars, NEW slot \in Slots, ledger'.nonce[slot] > ledger.next
  PROVE  /\ ledger'.nonce[slot] \notin spent
         /\ \A r \in rows : r.nonce # ledger'.nonce[slot]
<1>1. LedgerOK(ledger) /\ LedgerOK(file) /\ file.next <= ledger.next /\ RowsOK /\ SpentOK
  BY DEF IInv, Ledgers
<1>2. LedgerOK(ledger')
  BY Inductive DEF IInv, Ledgers
<1>3. /\ ledger.next \in Nat /\ file.next \in Nat /\ ledger'.nonce[slot] \in Nat
      /\ \A s \in Slots : ledger.nonce[s] \in Nat /\ ledger.nonce[s] <= ledger.next
  BY <1>1, <1>2 DEF LedgerOK, SlotMap
<1>4. \A n \in spent : n \in Nat /\ n <= ledger.next
  BY <1>1, <1>3 DEF SpentOK
<1>5. \A r \in rows : r.nonce \in Nat /\ r.nonce <= ledger.next
  BY <1>1, <1>3 DEF RowsOK
<1> QED
  BY <1>3, <1>4, <1>5

\* No slot takes a nonce that was used on chain or is live, for any number of
\* sides, slots, failed writes and restarts with a clock behind the file.
THEOREM NewNonces == Spec => FreshNonces
<1>1. IInv /\ [Next]_vars =>
        \A slot \in Slots :
          ledger'.nonce[slot] > ledger.next =>
            /\ ledger'.nonce[slot] \notin spent
            /\ \A r \in rows : r.nonce # ledger'.nonce[slot]
  BY Newer
<1> QED
  BY <1>1, Invariance, PTL DEF Spec, FreshNonces

\* An order that was executed refuses one batch at most, for any number of
\* sides and slots, whichever answers were lost and writes failed.
THEOREM OneRefusal == Spec => RefusedOnce
<1>1. ASSUME IInv, [Next]_vars, answer' = "spent", answer # "spent",
             NEW slot \in BatchSlots, ledger.nonce[slot] \in spent
      PROVE  filled[slot]
  <2>1. step = "signing"
    BY <1>1 DEF Next, QuoteSide, StartTick, Skip, Quote, ReadBalance, ReadCommitted, ReadFails,
       Hold, Draft, NotSaved, Withhold, Submit, Answered, Fill, Transfer, Second, Restart,
       NextSide, Over, task, vars
  <2>2. BatchSlots \subseteq Slots /\ named = {}
    BY <1>1, <2>1 DEF IInv, BatchOK, NamedOK
  <2> QED
    BY <1>1, <2>2, Zenon DEF IInv, StaleOK
<1>2. IInv /\ [Next]_vars =>
        (answer' = "spent" /\ answer # "spent" =>
           \A slot \in BatchSlots : ledger.nonce[slot] \in spent => filled[slot])
  BY <1>1
<1> QED
  BY <1>2, Invariance, PTL DEF Spec, RefusedOnce

(***************************************************************************)
(* Sums over finite sets.  The library's sum is a recursive function over  *)
(* subsets; every set of numbers has a least one, so a fact about sums     *)
(* that failed would fail on a smallest set.                               *)
(***************************************************************************)

\* A nonempty set of numbers has a least one.
LEMMA LeastNumber ==
  ASSUME NEW T \in SUBSET Nat, T # {}
  PROVE  \E n \in T : \A m \in T : n =< m
<1> DEFINE R == OpToRel(<, Nat)
<1>1. IsWellFoundedOn(R, Nat)
  BY NatLessThanWellFounded
<1>2. \A x, y \in Nat : x < y => <<x, y>> \in R
  BY DEF OpToRel
<1>3. T \subseteq Nat
  OBVIOUS
<1> HIDE DEF R
<1>4. \E n \in T : \A m \in T : ~(<<m, n>> \in R)
  BY <1>1, <1>3, WFMin
<1>5. PICK n \in T : \A m \in T : ~(<<m, n>> \in R)
  BY <1>4
<1>6. ASSUME NEW m \in T PROVE n =< m
  <2>1. m \in Nat /\ n \in Nat
    BY <1>3
  <2>2. ~(m < n)
    BY <1>2, <1>5, <2>1
  <2> QED
    BY <2>1, <2>2
<1> QED
  BY <1>6

\* A nonempty family of subsets of a finite set has a minimal one: the form in
\* which the lemmas below use induction on the size of a set.
LEMMA Smallest ==
  ASSUME NEW S, IsFiniteSet(S), NEW F \in SUBSET SUBSET S, F # {}
  PROVE  \E s \in F : \A u \in F : u \subseteq s => u = s
<1> DEFINE T == {Cardinality(s) : s \in F}
<1>1. \A s \in F : s \subseteq S /\ IsFiniteSet(s) /\ Cardinality(s) \in Nat
  BY FS_Subset, FS_CardinalityType
<1>2. T \in SUBSET Nat /\ T # {}
  BY <1>1
<1>3. PICK c \in T : \A m \in T : c =< m
  BY <1>2, LeastNumber
<1>4. PICK s \in F : c = Cardinality(s)
  BY <1>3
<1>5. ASSUME NEW u \in F, u \subseteq s PROVE u = s
  <2>1. Cardinality(s) =< Cardinality(u)
    BY <1>3, <1>4
  <2>2. Cardinality(u) =< Cardinality(s) /\ (Cardinality(u) = Cardinality(s) => u = s)
    BY <1>1, <1>5, FS_Subset
  <2> QED
    BY <1>1, <2>1, <2>2
<1> QED
  BY <1>5

\* A family that has the empty set and, with a set, the set and one more element,
\* has every finite set.
LEMMA AddingUp ==
  ASSUME NEW S, IsFiniteSet(S), NEW G, {} \in G,
         \A s \in SUBSET S : \A x \in S \ s : s \in G => s \cup {x} \in G
  PROVE  S \in G
<1> SUFFICES ASSUME S \notin G PROVE FALSE
  OBVIOUS
<1> DEFINE F == {s \in SUBSET S : s \notin G}
<1>1. F \in SUBSET SUBSET S /\ F # {}
  OBVIOUS
<1> HIDE DEF F
<1>2. PICK s \in F : \A u \in F : u \subseteq s => u = s
  BY <1>1, Smallest
<1>3. s \in SUBSET S /\ s \notin G
  BY <1>2 DEF F
<1>4. PICK x \in s : TRUE
  BY <1>3
<1>5. s \ {x} \in SUBSET S /\ x \in S \ (s \ {x}) /\ (s \ {x}) \cup {x} = s
  BY <1>3, <1>4
<1>6. s \ {x} \in G
  BY <1>2, <1>4, <1>5 DEF F
<1> QED
  BY <1>3, <1>5, <1>6

\* The element the fold takes next.
Pick(s) == CHOOSE x \in s : TRUE

\* `it` adds up f over the subsets of S.
Adds(it, f, S) ==
  it = [s \in SUBSET S |-> IF s = {} THEN 0 ELSE f[Pick(s)] + it[s \ {Pick(s)}]]

\* What the library's sum is: the fold over a set is one function on its subsets.
LEMMA Folded ==
  ASSUME NEW f, NEW S
  PROVE  SumFunctionOnSet(f, S) = (CHOOSE it : Adds(it, f, S))[S]
BY DEF SumFunctionOnSet, FoldFunctionOnSet, MapThenFoldSet, Adds, Pick

\* The fold picks an element of the set.
LEMMA PickIn ==
  ASSUME NEW s, s # {}
  PROVE  Pick(s) \in s
BY DEF Pick

\* One step of the fold.
LEMMA AddsAt ==
  ASSUME NEW f, NEW S, NEW it, Adds(it, f, S)
  PROVE  \A s \in SUBSET S : it[s] = IF s = {} THEN 0 ELSE f[Pick(s)] + it[s \ {Pick(s)}]
<1> DEFINE body(u) == IF u = {} THEN 0 ELSE f[Pick(u)] + it[u \ {Pick(u)}]
<1>1. it = [u \in SUBSET S |-> body(u)]
  BY DEF Adds
<1> HIDE DEF body
<1>2. \A s \in SUBSET S : it[s] = body(s)
  BY <1>1
<1> QED
  BY <1>2 DEF body

\* There is only one sum.
LEMMA AddsOnce ==
  ASSUME NEW f, NEW S, IsFiniteSet(S), NEW T, IsFiniteSet(T), NEW i, NEW j,
         Adds(i, f, S), Adds(j, f, T), NEW s \in SUBSET S, s \subseteq T
  PROVE  i[s] = j[s]
<1> SUFFICES ASSUME i[s] # j[s] PROVE FALSE
  OBVIOUS
<1>1. \A v \in SUBSET S : i[v] = IF v = {} THEN 0 ELSE f[Pick(v)] + i[v \ {Pick(v)}]
  BY AddsAt
<1>2. \A v \in SUBSET T : j[v] = IF v = {} THEN 0 ELSE f[Pick(v)] + j[v \ {Pick(v)}]
  BY ONLY Adds(j, f, T), AddsAt
<1> DEFINE F == {u \in SUBSET s : i[u] # j[u]}
<1>3. F \in SUBSET SUBSET s /\ F # {} /\ IsFiniteSet(s)
  BY FS_Subset
<1> HIDE DEF F
<1>4. PICK u \in F : \A v \in F : v \subseteq u => v = u
  BY <1>3, Smallest
<1>5. u \in SUBSET S /\ u \in SUBSET T /\ u \subseteq s /\ i[u] # j[u]
  BY <1>4 DEF F
<1>6. CASE u = {}
  <2>1. i[u] = 0 /\ j[u] = 0
    BY <1>1, <1>2, <1>5, <1>6
  <2> QED
    BY <1>5, <2>1
<1>7. CASE u # {}
  <2>1. Pick(u) \in u
    BY <1>7, PickIn
  <2>2. i[u \ {Pick(u)}] = j[u \ {Pick(u)}]
    BY <1>4, <1>5, <2>1 DEF F
  <2>3. i[u] = IF u = {} THEN 0 ELSE f[Pick(u)] + i[u \ {Pick(u)}]
    BY <1>1, <1>2, <1>5
  <2>4. j[u] = IF u = {} THEN 0 ELSE f[Pick(u)] + j[u \ {Pick(u)}]
    BY <1>1, <1>2, <1>5
  <2> QED
    BY <1>5, <1>7, <2>2, <2>3, <2>4
<1> QED
  BY <1>6, <1>7

\* The sum is the element the fold picks and the sum of the rest.
LEMMA SumPicks ==
  ASSUME NEW f, NEW S, IsFiniteSet(S)
  PROVE  SumFunctionOnSet(f, S) =
           IF S = {} THEN 0 ELSE f[Pick(S)] + SumFunctionOnSet(f, S \ {Pick(S)})
<1> DEFINE Rest(s) == IF s = {} THEN 0 ELSE f[Pick(s)] + SumFunctionOnSet(f, s \ {Pick(s)})
           F == {s \in SUBSET S : SumFunctionOnSet(f, s) # Rest(s)}
<1> SUFFICES ASSUME SumFunctionOnSet(f, S) # Rest(S) PROVE FALSE
  OBVIOUS
<1>1. F \in SUBSET SUBSET S /\ F # {}
  OBVIOUS
<1> HIDE DEF F
<1>2. PICK T \in F : \A u \in F : u \subseteq T => u = T
  BY <1>1, Smallest
<1>3. T \in SUBSET S /\ IsFiniteSet(T) /\ SumFunctionOnSet(f, T) # Rest(T)
  BY <1>2, FS_Subset DEF F
<1>4. \A u \in SUBSET T : u # T => SumFunctionOnSet(f, u) = Rest(u)
  BY <1>2, <1>3 DEF F
<1> DEFINE it == [s \in SUBSET T |-> Rest(s)]
<1>5. ASSUME NEW s \in SUBSET T
      PROVE  it[s] = IF s = {} THEN 0 ELSE f[Pick(s)] + it[s \ {Pick(s)}]
  <2>1. CASE s = {}
    BY <2>1
  <2>2. CASE s # {}
    <3> DEFINE u == s \ {Pick(s)}
    <3>1. u \in SUBSET T /\ u # T
      BY <2>2, PickIn
    <3>2. SumFunctionOnSet(f, u) = Rest(u)
      BY <1>4, <3>1
    <3> HIDE DEF u
    <3>3. it[u] = Rest(u)
      BY <3>1
    <3>4. it[s] = f[Pick(s)] + SumFunctionOnSet(f, u)
      BY <2>2 DEF u
    <3> QED
      BY <2>2, <3>2, <3>3, <3>4 DEF u
  <2> QED
    BY <2>1, <2>2
<1>6. Adds(it, f, T)
  <2> DEFINE body(s) == IF s = {} THEN 0 ELSE f[Pick(s)] + it[s \ {Pick(s)}]
  <2>1. \A s \in SUBSET T : it[s] = body(s)
    BY <1>5
  <2> HIDE DEF body
  <2>2. it = [s \in SUBSET T |-> body(s)]
    BY <2>1
  <2> QED
    BY <2>2 DEF Adds, body
<1>7. it[T] = Rest(T)
  OBVIOUS
<1> HIDE DEF it, Rest
<1>8. PICK j : j = CHOOSE k : Adds(k, f, T)
  OBVIOUS
<1>9. Adds(j, f, T) /\ SumFunctionOnSet(f, T) = j[T]
  BY <1>6, <1>8, Folded
<1>10. j[T] = it[T]
  BY <1>3, <1>6, <1>9, AddsOnce
<1> QED
  BY <1>3, <1>7, <1>9, <1>10
\* The sum over no element.
LEMMA SumEmpty == \A f : SumFunctionOnSet(f, {}) = 0
BY SumPicks, FS_EmptySet

\* A sum of numbers is a number.
LEMMA SumType ==
  ASSUME NEW S, IsFiniteSet(S), NEW f, \A x \in S : f[x] \in Nat
  PROVE  SumFunctionOnSet(f, S) \in Nat
<1> SUFFICES ASSUME SumFunctionOnSet(f, S) \notin Nat PROVE FALSE
  OBVIOUS
<1> DEFINE F == {s \in SUBSET S : SumFunctionOnSet(f, s) \notin Nat}
<1>1. F \in SUBSET SUBSET S /\ F # {}
  OBVIOUS
<1> HIDE DEF F
<1>2. PICK s \in F : \A u \in F : u \subseteq s => u = s
  BY <1>1, Smallest
<1>3. s \in SUBSET S /\ IsFiniteSet(s) /\ SumFunctionOnSet(f, s) \notin Nat
  BY <1>2, FS_Subset DEF F
<1>4. CASE s = {}
  BY <1>3, <1>4, SumEmpty
<1>5. CASE s # {}
  <2>1. Pick(s) \in s
    BY <1>5, PickIn
  <2>2. SumFunctionOnSet(f, s \ {Pick(s)}) \in Nat
    BY <1>2, <1>3, <2>1 DEF F
  <2>3. SumFunctionOnSet(f, s) = f[Pick(s)] + SumFunctionOnSet(f, s \ {Pick(s)})
    BY <1>3, <1>5, SumPicks
  <2>4. f[Pick(s)] \in Nat
    BY <1>3, <2>1
  <2> QED
    BY <1>3, <2>2, <2>3, <2>4
<1> QED
  BY <1>4, <1>5

\* The sum is any element and the sum of the rest.
LEMMA SumWithout ==
  ASSUME NEW S, IsFiniteSet(S), NEW f, \A x \in S : f[x] \in Nat, NEW y \in S
  PROVE  SumFunctionOnSet(f, S) = f[y] + SumFunctionOnSet(f, S \ {y})
<1> DEFINE Wrong(s, x) == SumFunctionOnSet(f, s) # f[x] + SumFunctionOnSet(f, s \ {x})
           F == {s \in SUBSET S : \E x \in s : Wrong(s, x)}
<1> SUFFICES ASSUME Wrong(S, y) PROVE FALSE
  OBVIOUS
<1>1. F \in SUBSET SUBSET S /\ F # {}
  OBVIOUS
<1> HIDE DEF F
<1>2. PICK s \in F : \A u \in F : u \subseteq s => u = s
  BY <1>1, Smallest
<1>3. s \in SUBSET S /\ IsFiniteSet(s)
  BY <1>2, FS_Subset DEF F
<1>4. PICK x \in s : Wrong(s, x)
  BY <1>2 DEF F
<1> DEFINE p == Pick(s)
<1>5. p \in s
  BY <1>4, PickIn
<1>6. SumFunctionOnSet(f, s) = f[p] + SumFunctionOnSet(f, s \ {p})
  BY <1>3, <1>4, SumPicks
<1> HIDE DEF p
<1>7. p # x
  BY <1>4, <1>6
<1>8. ~Wrong(s \ {p}, x) /\ ~Wrong(s \ {x}, p)
  <2>1. s \ {p} \notin F /\ s \ {x} \notin F
    BY <1>2, <1>4, <1>5
  <2> QED
    BY <1>3, <1>4, <1>5, <1>7, <2>1 DEF F
<1>9. (s \ {p}) \ {x} = (s \ {x}) \ {p}
  OBVIOUS
<1>10. SumFunctionOnSet(f, (s \ {x}) \ {p}) \in Nat
  <2>1. IsFiniteSet((s \ {x}) \ {p})
    BY <1>3, FS_Subset
  <2> QED
    BY <1>3, <2>1, SumType
<1>11. f[x] \in Nat /\ f[p] \in Nat
  BY <1>3, <1>4, <1>5
<1>12. /\ SumFunctionOnSet(f, s \ {p}) = f[x] + SumFunctionOnSet(f, (s \ {x}) \ {p})
       /\ SumFunctionOnSet(f, s \ {x}) = f[p] + SumFunctionOnSet(f, (s \ {x}) \ {p})
  BY <1>8, <1>9
<1>13. SumFunctionOnSet(f, s) # f[x] + SumFunctionOnSet(f, s \ {x})
  BY <1>4
<1> HIDE DEF Wrong
<1> QED
  BY <1>6, <1>10, <1>11, <1>12, <1>13

\* One more element adds its value.
LEMMA SumWith ==
  ASSUME NEW S, IsFiniteSet(S), NEW f, NEW y, y \notin S, \A x \in S \cup {y} : f[x] \in Nat
  PROVE  SumFunctionOnSet(f, S \cup {y}) = f[y] + SumFunctionOnSet(f, S)
<1>1. IsFiniteSet(S \cup {y}) /\ (S \cup {y}) \ {y} = S
  BY FS_AddElement
<1> QED
  BY <1>1, SumWithout

\* The sum depends on the values at its elements only.
LEMMA SumSame ==
  ASSUME NEW S, IsFiniteSet(S), NEW f, NEW g,
         \A x \in S : f[x] \in Nat /\ f[x] = g[x]
  PROVE  SumFunctionOnSet(f, S) = SumFunctionOnSet(g, S)
<1> DEFINE G == {s \in SUBSET S : SumFunctionOnSet(f, s) = SumFunctionOnSet(g, s)}
<1>1. {} \in G
  BY SumEmpty
<1>2. ASSUME NEW s \in SUBSET S, NEW x \in S \ s, s \in G
      PROVE  s \cup {x} \in G
  <2>1. IsFiniteSet(s) /\ x \notin s /\ \A z \in s \cup {x} : f[z] \in Nat /\ g[z] \in Nat
    BY FS_Subset
  <2>2. SumFunctionOnSet(f, s \cup {x}) = f[x] + SumFunctionOnSet(f, s)
    BY <2>1, SumWith
  <2>3. SumFunctionOnSet(g, s \cup {x}) = g[x] + SumFunctionOnSet(g, s)
    BY <2>1, SumWith
  <2> QED
    BY <1>2, <2>2, <2>3
<1> HIDE DEF G
<1>3. S \in G
  BY <1>1, <1>2, AddingUp
<1> QED
  BY <1>3 DEF G

\* The sums over two parts add up.
LEMMA SumParts ==
  ASSUME NEW S, IsFiniteSet(S), NEW R, IsFiniteSet(R), R \cap S = {},
         NEW f, \A x \in R \cup S : f[x] \in Nat
  PROVE  SumFunctionOnSet(f, R \cup S) = SumFunctionOnSet(f, R) + SumFunctionOnSet(f, S)
<1> DEFINE G == {s \in SUBSET S : SumFunctionOnSet(f, R \cup s)
                                    = SumFunctionOnSet(f, R) + SumFunctionOnSet(f, s)}
<1>1. {} \in G
  <2>1. R \cup {} = R /\ SumFunctionOnSet(f, R) \in Nat
    BY SumType
  <2> QED
    BY <2>1, SumEmpty
<1>2. ASSUME NEW s \in SUBSET S, NEW x \in S \ s, s \in G
      PROVE  s \cup {x} \in G
  <2>1. IsFiniteSet(s) /\ IsFiniteSet(R \cup s)
    BY FS_Subset, FS_Union
  <2>2. SumFunctionOnSet(f, s \cup {x}) = f[x] + SumFunctionOnSet(f, s)
    BY <2>1, SumWith
  <2>3. SumFunctionOnSet(f, (R \cup s) \cup {x}) = f[x] + SumFunctionOnSet(f, R \cup s)
    BY <2>1, SumWith
  <2>4. SumFunctionOnSet(f, s) \in Nat /\ SumFunctionOnSet(f, R) \in Nat /\ f[x] \in Nat
    BY <2>1, SumType
  <2>5. R \cup (s \cup {x}) = (R \cup s) \cup {x} /\ s \cup {x} \in SUBSET S
    OBVIOUS
  <2>6. SumFunctionOnSet(f, R \cup s) = SumFunctionOnSet(f, R) + SumFunctionOnSet(f, s)
    BY <1>2
  <2>7. SumFunctionOnSet(f, (R \cup s) \cup {x})
          = SumFunctionOnSet(f, R) + SumFunctionOnSet(f, s \cup {x})
    BY <2>2, <2>3, <2>4, <2>6
  <2> QED
    BY <2>5, <2>7
<1> HIDE DEF G
<1>3. S \in G
  BY <1>1, <1>2, AddingUp
<1> QED
  BY <1>3 DEF G

\* A sum over fewer elements is no more.
LEMMA SumFewer ==
  ASSUME NEW S, IsFiniteSet(S), NEW R \in SUBSET S, NEW f, \A x \in S : f[x] \in Nat
  PROVE  SumFunctionOnSet(f, R) =< SumFunctionOnSet(f, S)
<1>1. IsFiniteSet(R) /\ IsFiniteSet(S \ R) /\ R \cap (S \ R) = {} /\ R \cup (S \ R) = S
  BY FS_Subset
<1>2. SumFunctionOnSet(f, S) = SumFunctionOnSet(f, R) + SumFunctionOnSet(f, S \ R)
  BY <1>1, SumParts
<1>3. SumFunctionOnSet(f, R) \in Nat /\ SumFunctionOnSet(f, S \ R) \in Nat
  BY <1>1, SumType
<1> QED
  BY <1>2, <1>3

\* When h finds for each x of S its own h[x] of T, no smaller by g than x is by f,
\* the sum over T is no less.
LEMMA SumMatched ==
  ASSUME NEW S, IsFiniteSet(S), NEW T, IsFiniteSet(T), NEW f, NEW g, NEW h \in [S -> T],
         \A x, y \in S : h[x] = h[y] => x = y,
         \A x \in S : f[x] \in Nat, \A x \in T : g[x] \in Nat,
         \A x \in S : f[x] =< g[h[x]]
  PROVE  SumFunctionOnSet(f, S) =< SumFunctionOnSet(g, T)
<1> DEFINE Image(s) == {h[x] : x \in s}
           G == {s \in SUBSET S : SumFunctionOnSet(f, s) =< SumFunctionOnSet(g, Image(s))}
<1>1. {} \in G
  <2>1. Image({}) = {}
    OBVIOUS
  <2> QED
    BY <2>1, SumEmpty
<1>2. ASSUME NEW s \in SUBSET S, NEW x \in S \ s, s \in G
      PROVE  s \cup {x} \in G
  <2>1. /\ IsFiniteSet(s) /\ x \notin s
        /\ Image(s) \subseteq T /\ h[x] \in T /\ h[x] \notin Image(s)
        /\ Image(s \cup {x}) = Image(s) \cup {h[x]}
    BY FS_Subset
  <2>2. SumFunctionOnSet(f, s) =< SumFunctionOnSet(g, Image(s))
    BY <1>2
  <2> HIDE DEF Image
  <2>3. IsFiniteSet(Image(s))
    BY <2>1, FS_Subset
  <2>4. SumFunctionOnSet(f, s \cup {x}) = f[x] + SumFunctionOnSet(f, s)
    BY <2>1, SumWith
  <2>5. SumFunctionOnSet(g, Image(s) \cup {h[x]}) = g[h[x]] + SumFunctionOnSet(g, Image(s))
    BY <2>1, <2>3, SumWith
  <2>6. /\ SumFunctionOnSet(f, s) \in Nat /\ SumFunctionOnSet(g, Image(s)) \in Nat
        /\ f[x] \in Nat /\ g[h[x]] \in Nat /\ f[x] =< g[h[x]]
    BY <2>1, <2>3, SumType
  <2>7. SumFunctionOnSet(f, s \cup {x}) =< SumFunctionOnSet(g, Image(s) \cup {h[x]})
    BY <2>2, <2>4, <2>5, <2>6
  <2> QED
    BY <2>1, <2>7
<1>3. Image(S) \in SUBSET T
  OBVIOUS
<1>4. G \subseteq SUBSET S
  OBVIOUS
<1> HIDE DEF G
<1>5. S \in G
  BY <1>1, <1>2, AddingUp
<1>6. SumFunctionOnSet(f, S) =< SumFunctionOnSet(g, Image(S))
  BY <1>5 DEF G
<1> HIDE DEF Image
<1>7. SumFunctionOnSet(g, Image(S)) =< SumFunctionOnSet(g, T)
  BY <1>3, SumFewer
<1>8. /\ SumFunctionOnSet(f, S) \in Nat /\ SumFunctionOnSet(g, Image(S)) \in Nat
      /\ SumFunctionOnSet(g, T) \in Nat
  BY <1>3, FS_Subset, SumType
<1> QED
  BY <1>6, <1>7, <1>8

(***************************************************************************)
(* What a ladder adds up to.                                               *)
(***************************************************************************)

\* A list of sizes that together are no more than the total.
Within(sizes, total) ==
  /\ sizes \in Seq(Nat)
  /\ Total(sizes) \in Nat
  /\ Total(sizes) =< total

\* The total of a list.
LEMMA TotalType ==
  ASSUME NEW sizes \in Seq(Nat)
  PROVE  Total(sizes) \in Nat /\ DOMAIN sizes = 1..Len(sizes) /\ IsFiniteSet(DOMAIN sizes)
<1>1. /\ Len(sizes) \in Nat /\ DOMAIN sizes = 1..Len(sizes)
      /\ \A i \in DOMAIN sizes : sizes[i] \in Nat
  OBVIOUS
<1>2. IsFiniteSet(DOMAIN sizes)
  BY <1>1, FS_Interval
<1> QED
  BY <1>1, <1>2, SumType DEF Total

\* One more order adds its size.
LEMMA TotalAppend ==
  ASSUME NEW sizes \in Seq(Nat), NEW x \in Nat
  PROVE  /\ Append(sizes, x) \in Seq(Nat)
         /\ Total(Append(sizes, x)) = Total(sizes) + x
<1> DEFINE n == Len(sizes)
           more == Append(sizes, x)
<1>1. /\ n \in Nat /\ DOMAIN sizes = 1..n /\ DOMAIN more = 1..n + 1 /\ more \in Seq(Nat)
      /\ more[n + 1] = x /\ \A i \in 1..n : more[i] = sizes[i] /\ sizes[i] \in Nat
  OBVIOUS
<1> HIDE DEF n, more
<1>2. 1..n + 1 = (1..n) \cup {n + 1} /\ n + 1 \notin 1..n /\ IsFiniteSet(1..n)
  <2>1. 1..n + 1 = (1..n) \cup {n + 1} /\ n + 1 \notin 1..n
    BY <1>1
  <2>2. IsFiniteSet(1..n)
    BY <1>1, FS_Interval
  <2> QED
    BY <2>1, <2>2
<1>3. \A i \in (1..n) \cup {n + 1} : more[i] \in Nat
  BY <1>1
<1>4. SumFunctionOnSet(more, (1..n) \cup {n + 1}) = more[n + 1] + SumFunctionOnSet(more, 1..n)
  BY <1>2, <1>3, SumWith
<1>5. SumFunctionOnSet(more, 1..n) = SumFunctionOnSet(sizes, 1..n)
  BY <1>1, <1>2, SumSame
<1>6. Total(more) = x + Total(sizes)
  BY <1>1, <1>2, <1>4, <1>5 DEF Total
<1>7. Total(sizes) \in Nat
  BY TotalType
<1> QED
  BY <1>1, <1>6, <1>7 DEF more

\* The denominations are numbers up to the total.
LEMMA Denominations ==
  ASSUME NEW total \in Nat, NEW min \in Nat
  PROVE  /\ denominations(total, min) \subseteq 1..total
         /\ IsFiniteSet(denominations(total, min))
<1>1. \A s \in min..total : s \in Nat /\ (25 * s) \div 10 \in Nat /\ 5 * s \in Nat
  OBVIOUS
<1>2. \A d \in denominations(total, min) : d \in Nat /\ d > 0 /\ d =< total
  <2>1. ASSUME NEW d \in denominations(total, min)
        PROVE  /\ d > 0 /\ d =< total
               /\ \E s \in min..total : d \in {s, (25 * s) \div 10, 5 * s}
    BY DEF denominations
  <2> QED
    BY <1>1, <2>1
<1>3. denominations(total, min) \subseteq 1..total
  BY <1>2
<1> QED
  BY <1>3, FS_Interval, FS_Subset

\* In a finite set whose elements have sets of their own below them, one in the
\* other, each number up to the size of the set is the size of one of these.
LEMMA Ranked ==
  ASSUME NEW D, IsFiniteSet(D), NEW U \in [D -> SUBSET D],
         \A x \in D : x \in U[x],
         \A x, y \in D : U[x] \subseteq U[y] \/ U[y] \subseteq U[x],
         \A x, y \in D : U[x] = U[y] => x = y
  PROVE  /\ Cardinality(D) \in Nat
         /\ \A k \in 1..Cardinality(D) : \E x \in D : Cardinality(U[x]) = k
<1> DEFINE n == Cardinality(D)
           f == [x \in D |-> Cardinality(U[x])]
<1>1. n \in Nat
  BY FS_CardinalityType
<1>2. \A x \in D : /\ U[x] \in SUBSET D /\ U[x] # {} /\ IsFiniteSet(U[x])
                   /\ Cardinality(U[x]) \in Nat /\ Cardinality(U[x]) =< n
  BY FS_Subset, FS_CardinalityType
<1>3. \A x \in D : Cardinality(U[x]) # 0
  BY <1>2, FS_EmptySet
<1>4. f \in [D -> 1..n]
  BY <1>1, <1>2, <1>3
<1>5. \A x, y \in D : f[x] = f[y] => x = y
  <2>1. ASSUME NEW x \in D, NEW y \in D, Cardinality(U[x]) = Cardinality(U[y]),
               U[x] \subseteq U[y]
        PROVE  x = y
    <3>1. U[x] = U[y]
      BY <1>2, <2>1, FS_Subset
    <3> QED
      BY <3>1
  <2> QED
    BY <2>1
<1>6. IsFiniteSet(1..n) /\ Cardinality(1..n) = n
  BY <1>1, FS_Interval
<1>7. f \in Injection(D, 1..n)
  BY <1>4, <1>5 DEF Injection, IsInjective
<1>8. f \in Surjection(D, 1..n)
  BY <1>6, <1>7, FS_Injection
<1>9. \A k \in 1..n : \E x \in D : f[x] = k
  BY <1>8 DEF Surjection
<1> QED
  BY <1>1, <1>9

\* A function on the first numbers is a list.
LEMMA Lists ==
  ASSUME NEW n \in Nat, NEW f \in [1..n -> Nat]
  PROVE  f \in Seq(Nat) /\ Len(f) = n /\ DOMAIN f = 1..n
BY SeqDef, LenProperties

\* Fewer denominations are together no more.
LEMMA TogetherFewer ==
  ASSUME NEW T \in SUBSET Nat, IsFiniteSet(T), NEW S \in SUBSET T
  PROVE  /\ Together(S) \in Nat /\ Together(T) \in Nat
         /\ Together(S) =< Together(T)
<1> DEFINE f == [x \in S |-> x]
           g == [x \in T |-> x]
<1>1. IsFiniteSet(S) /\ f \in [S -> T]
  BY FS_Subset
<1>2. /\ \A x, y \in S : f[x] = f[y] => x = y
      /\ \A x \in S : f[x] \in Nat /\ f[x] =< g[f[x]]
      /\ \A x \in T : g[x] \in Nat
  OBVIOUS
<1> HIDE DEF f, g
<1>3. SumFunctionOnSet(f, S) =< SumFunctionOnSet(g, T)
  BY <1>1, <1>2, SumMatched
<1> QED
  BY <1>1, <1>2, <1>3, SumType DEF Together, f, g

\* The precision rungs fit in the total and leave a slot at least.
LEMMA RungsFit ==
  ASSUME NEW total \in Nat, NEW min \in Nat, NEW max \in Nat \ {0},
         NEW denoms \in SUBSET (1..total), IsFiniteSet(denoms)
  PROVE  /\ Within(Rungs(total, min, max, denoms), total)
         /\ Len(Rungs(total, min, max, denoms)) =< max - 1
<1> DEFINE small   == {d \in denoms : d <= Greatest(total \div 10, min)}
           upTo(d) == {e \in small : e <= d}
           limit   == Least(Greatest((max * 3) \div 5, 1), max - 1)
           rank(d) == Cardinality(upTo(d))
           taken   == {d \in small : rank(d) <= limit /\ Together(upTo(d)) <= total}
           n       == Cardinality(taken)
           R       == [i \in 1..n |-> CHOOSE d \in taken : rank(d) = i]
<1>1. Rungs(total, min, max, denoms) = R
  BY DEF Rungs
<1>2. small \subseteq Nat /\ IsFiniteSet(small)
  <2>1. small \in SUBSET denoms /\ denoms \subseteq Nat
    OBVIOUS
  <2> HIDE DEF small
  <2> QED
    BY <2>1, FS_Subset
<1>3. limit \in Nat /\ limit =< max - 1
  BY DEF Least, Greatest
<1> HIDE DEF limit
<1>4. ASSUME NEW d \in small
      PROVE  /\ upTo(d) \in SUBSET small /\ IsFiniteSet(upTo(d)) /\ d \in upTo(d)
             /\ rank(d) \in Nat /\ Together(upTo(d)) \in Nat
  <2>1. upTo(d) \in SUBSET small /\ d \in upTo(d)
    BY <1>2
  <2>2. IsFiniteSet(upTo(d))
    BY <1>2, <2>1, FS_Subset
  <2> QED
    BY <1>2, <2>1, <2>2, FS_CardinalityType, TogetherFewer
<1>5. ASSUME NEW d \in small, NEW e \in upTo(d)
      PROVE  upTo(e) \subseteq upTo(d) /\ rank(e) =< rank(d)
               /\ Together(upTo(e)) =< Together(upTo(d))
  <2>1. e \in small /\ e \in Nat /\ d \in Nat /\ e =< d
    BY <1>2
  <2>2. upTo(e) \in SUBSET upTo(d)
    BY <1>2, <2>1
  <2>3. upTo(d) \in SUBSET Nat
    BY <1>2
  <2> HIDE DEF upTo
  <2>4. rank(e) =< rank(d)
    BY <1>4, <2>2, FS_Subset
  <2>5. Together(upTo(e)) =< Together(upTo(d))
    BY <1>4, <2>2, <2>3, TogetherFewer
  <2> QED
    BY <2>2, <2>4, <2>5
<1>6. taken \subseteq small /\ IsFiniteSet(taken) /\ taken \in SUBSET Nat
  BY <1>2, FS_Subset
<1>7. ASSUME NEW d \in taken PROVE upTo(d) \in SUBSET taken
  <2>1. SUFFICES ASSUME NEW e \in upTo(d) PROVE e \in taken
    OBVIOUS
  <2>2. d \in small /\ rank(d) =< limit /\ Together(upTo(d)) =< total
    OBVIOUS
  <2>3. e \in small
    OBVIOUS
  <2> HIDE DEF upTo, small
  <2>4. /\ rank(e) =< rank(d) /\ Together(upTo(e)) =< Together(upTo(d))
        /\ rank(e) \in Nat /\ rank(d) \in Nat
        /\ Together(upTo(e)) \in Nat /\ Together(upTo(d)) \in Nat
    BY <1>4, <1>5, <2>1, <2>2, <2>3
  <2>5. rank(e) =< limit /\ Together(upTo(e)) =< total
    BY <1>3, <2>2, <2>4
  <2> QED
    BY <2>3, <2>5
<1> DEFINE U == [d \in taken |-> upTo(d)]
<1>8. U \in [taken -> SUBSET taken]
  BY <1>7
<1>9. /\ \A x \in taken : x \in U[x]
      /\ \A x, y \in taken : U[x] \subseteq U[y] \/ U[y] \subseteq U[x]
      /\ \A x, y \in taken : U[x] = U[y] => x = y
  <2>1. \A x \in taken : x \in small /\ x \in Nat /\ U[x] = upTo(x)
    BY <1>6
  <2> HIDE DEF taken, U, small
  <2>2. ASSUME NEW x \in taken, NEW y \in taken, x =< y PROVE U[x] \subseteq U[y]
    <3>1. x \in Nat /\ y \in Nat /\ U[x] = upTo(x) /\ U[y] = upTo(y)
      BY <2>1
    <3>2. \A e \in small : e =< x => e =< y
      BY <1>2, <2>2, <3>1
    <3> QED
      BY <3>1, <3>2
  <2>3. \A x, y \in taken : U[x] \subseteq U[y] \/ U[y] \subseteq U[x]
    <3>1. \A x, y \in taken : x =< y \/ y =< x
      BY <2>1
    <3> QED
      BY <2>2, <3>1
  <2>4. \A x, y \in taken : U[x] = U[y] => x = y
    BY <1>2, <2>1
  <2> QED
    BY <2>1, <2>3, <2>4
<1>10. n \in Nat /\ \A k \in 1..n : \E x \in taken : Cardinality(U[x]) = k
  <2> HIDE DEF taken, U
  <2> QED
    BY <1>6, <1>8, <1>9, Ranked
<1>11. \A k \in 1..n : \E x \in taken : rank(x) = k
  BY <1>10
<1> HIDE DEF n
<1>12. \A k \in 1..n : R[k] \in taken /\ rank(R[k]) = k
  <2> HIDE DEF taken, rank
  <2> QED
    BY <1>11
<1> HIDE DEF R, U
<1>13. R \in [1..n -> taken] /\ R \in [1..n -> Nat]
  <2>1. R = [k \in 1..n |-> R[k]]
    BY DEF R
  <2> HIDE DEF taken, rank
  <2> QED
    BY <1>6, <1>12, <2>1
<1>14. R \in Seq(Nat) /\ Len(R) = n /\ DOMAIN R = 1..n
  BY <1>10, <1>13, Lists
<1>15. n =< max - 1 /\ Together(taken) =< total
  <2>1. CASE n = 0
    <3>1. taken = {}
      <4> HIDE DEF taken
      <4> QED BY <1>6, <2>1, FS_EmptySet DEF n
    <3>2. Together({}) = 0
      BY SumEmpty DEF Together
    <3> HIDE DEF taken
    <3> QED
      BY <2>1, <3>1, <3>2
  <2>2. CASE n # 0
    <3>1. n \in 1..n
      BY <1>10, <2>2
    <3>2. PICK x \in taken : rank(x) = n
      BY <1>11, <3>1
    <3>3. upTo(x) = taken
      <4>1. upTo(x) \in SUBSET taken /\ Cardinality(upTo(x)) = Cardinality(taken)
        BY <1>7, <3>2 DEF n
      <4> HIDE DEF upTo, taken
      <4> QED
        BY <1>6, <4>1, FS_Subset
    <3>4. rank(x) =< limit /\ Together(upTo(x)) =< total
      OBVIOUS
    <3> HIDE DEF upTo, taken
    <3> QED
      BY <1>3, <1>10, <3>2, <3>3, <3>4
  <2> QED
    BY <2>1, <2>2
<1>16. Total(R) =< Together(taken)
  <2> DEFINE g == [x \in taken |-> x]
  <2>1. \A i, j \in 1..n : R[i] = R[j] => i = j
    <3> HIDE DEF taken, rank
    <3> QED BY <1>12
  <2>2. IsFiniteSet(1..n)
    BY <1>10, FS_Interval
  <2> HIDE DEF taken
  <2>3. /\ \A i \in 1..n : R[i] \in Nat /\ R[i] =< g[R[i]]
        /\ \A x \in taken : g[x] \in Nat
    BY <1>6, <1>13
  <2> HIDE DEF g
  <2>4. SumFunctionOnSet(R, 1..n) =< SumFunctionOnSet(g, taken)
    BY <1>6, <1>13, <2>1, <2>2, <2>3, SumMatched
  <2> QED
    BY <1>14, <2>4 DEF Total, Together, g
<1>17. Total(R) \in Nat /\ Together(taken) \in Nat
  <2> HIDE DEF taken
  <2> QED
    BY <1>6, <1>14, TotalType, TogetherFewer
<1> HIDE DEF taken
<1> QED
  BY <1>1, <1>14, <1>15, <1>16, <1>17 DEF Within

\* Max is what it says on a nonempty set of numbers up to a bound.
LEMMA Largest ==
  ASSUME NEW n \in Nat, NEW S \in SUBSET (0..n), S # {}
  PROVE  Max(S) \in S
<1> DEFINE T == {m \in Nat : n - m \in S}
<1>1. \A x \in S : x \in Nat /\ x =< n /\ n - x \in Nat /\ n - (n - x) = x
  OBVIOUS
<1>2. \A x \in S : n - x \in T
  BY <1>1
<1>3. T \in SUBSET Nat /\ T # {} /\ \A m \in T : n - m \in S
  BY <1>2
<1> HIDE DEF T
<1>4. PICK m \in T : \A k \in T : m =< k
  BY <1>3, LeastNumber
<1>5. n - m \in S /\ m \in Nat
  BY <1>3, <1>4
<1>6. ASSUME NEW x \in S PROVE n - m >= x
  <2>1. m =< n - x /\ x \in Nat
    BY <1>1, <1>2, <1>4
  <2> QED
    BY <1>5, <2>1
<1>7. \E y \in S : \A x \in S : y >= x
  BY <1>5, <1>6
<1> QED
  BY <1>7 DEF Max

\* A carried order is no more than what is left.
LEMMA SliceFits ==
  ASSUME NEW left \in Nat, NEW min \in Nat, NEW slots \in Nat \ {0},
         NEW total \in Nat, NEW denoms \in SUBSET (1..total)
  PROVE  carry_slice(left, min, slots, denoms) \in Nat
           /\ carry_slice(left, min, slots, denoms) =< left
<1> DEFINE most == Monus(left, min * (slots - 1))
           cap  == Least(most, Greatest(2 * (left \div slots), min))
           fits == {d \in denoms : d <= cap}
           slice == carry_slice(left, min, slots, denoms)
<1>1. min * (slots - 1) \in Nat /\ left \div slots \in Nat
  BY Z3
<1>2. most \in Nat /\ most =< left /\ cap \in Nat /\ cap =< most
  BY <1>1 DEF Monus, Greatest, Least
<1>3. slice = CASE most <= min             -> Least(min, left)
                [] most > min /\ fits # {} -> Max(fits)
                [] OTHER                   -> Least(min, most)
  BY DEF carry_slice
<1>4. fits \in SUBSET (0..total) /\ \A d \in fits : d \in Nat /\ d =< cap
  <2>1. \A d \in denoms : d \in 0..total /\ d \in Nat
    OBVIOUS
  <2> QED
    BY <2>1
<1> HIDE DEF most, cap, fits, slice
<1> SUFFICES slice \in Nat /\ slice =< left
  BY DEF slice
<1>5. CASE most <= min
  BY <1>2, <1>3, <1>5 DEF Least
<1>6. CASE most > min /\ fits # {}
  <2>1. Max(fits) \in fits
    BY <1>4, <1>6, Largest
  <2>2. ~(most <= min)
    BY <1>1, <1>2, <1>6
  <2>3. slice = Max(fits)
    BY <1>3, <1>6, <2>2
  <2>4. Max(fits) \in Nat /\ Max(fits) =< cap
    BY <1>4, <2>1
  <2> QED
    BY <1>2, <2>3, <2>4
<1>7. CASE most > min /\ fits = {}
  BY <1>2, <1>3, <1>7 DEF Least
<1> QED
  BY <1>2, <1>5, <1>6, <1>7

\* One more order fits.
LEMMA CarriedFits ==
  ASSUME NEW total \in Nat, NEW min \in Nat, NEW slots \in Nat \ {0},
         NEW denoms \in SUBSET (1..total), NEW sizes, Within(sizes, total)
  PROVE  /\ Within(Carried(sizes, slots, total, min, denoms), total)
         /\ Len(Carried(sizes, slots, total, min, denoms)) =< Len(sizes) + 1
         /\ Len(sizes) # 0 \/ min =< total =>
              Len(Carried(sizes, slots, total, min, denoms)) # 0
<1> DEFINE left == total - Total(sizes)
           after == Carried(sizes, slots, total, min, denoms)
<1>1. sizes \in Seq(Nat) /\ Total(sizes) \in Nat /\ left \in Nat /\ Len(sizes) \in Nat
  BY DEF Within
<1>2. after = sizes \/ \E x \in Nat : x =< left /\ after = Append(sizes, x)
  <2>1. after = sizes \/ after = Append(sizes, left)
          \/ after = Append(sizes, carry_slice(left, min, slots, denoms))
    BY DEF Carried
  <2>2. /\ carry_slice(left, min, slots, denoms) \in Nat
        /\ carry_slice(left, min, slots, denoms) =< left
    BY <1>1, SliceFits
  <2> HIDE DEF left, after
  <2> QED
    BY <1>1, <2>1, <2>2
<1> HIDE DEF after
<1>3. ASSUME NEW x \in Nat, x =< left, after = Append(sizes, x)
      PROVE  Within(after, total) /\ Len(after) = Len(sizes) + 1
  <2>1. after \in Seq(Nat) /\ Total(after) = Total(sizes) + x
    BY <1>1, <1>3, TotalAppend
  <2>2. Len(after) = Len(sizes) + 1
    BY <1>1, <1>3
  <2> QED
    BY <1>1, <1>3, <2>1, <2>2 DEF Within
<1>4. ASSUME Len(sizes) = 0, min =< total PROVE after # sizes
  <2>1. sizes = <<>> /\ DOMAIN sizes = {}
    BY <1>1, <1>4
  <2>2. Total(sizes) = 0
    BY <2>1, SumEmpty DEF Total
  <2>3. ~(left < min)
    BY <1>4, <2>2
  <2>4. after = Append(sizes, left)
          \/ after = Append(sizes, carry_slice(left, min, slots, denoms))
    BY <2>3 DEF Carried, after
  <2>5. \A x : Len(Append(sizes, x)) = 1
    BY <2>1
  <2> HIDE DEF left
  <2> QED
    BY <1>4, <2>4, <2>5
<1> QED
  BY <1>1, <1>2, <1>3, <1>4 DEF after

\* The recursion over the free slots.
Carries(after, free, rungs, total, min, denoms) ==
  after = [k \in 0..free |-> IF k = 0 THEN rungs
                             ELSE Carried(after[k - 1], free + 1 - k, total, min, denoms)]

\* Its solution up to the k-th slot.
CarriesTo(k, after, free, rungs, total, min, denoms) ==
  /\ after[0] = rungs
  /\ \A i \in 1..k : after[i] = Carried(after[i - 1], free + 1 - i, total, min, denoms)

\* There is one, up to every slot.
LEMMA CarriesToAll ==
  ASSUME NEW free \in Nat, NEW rungs, NEW total, NEW min, NEW denoms
  PROVE  \A k \in Nat : \E after : CarriesTo(k, after, free, rungs, total, min, denoms)
<1> DEFINE Solves(k, f) == CarriesTo(k, f, free, rungs, total, min, denoms)
           T == {k \in Nat : ~\E f : Solves(k, f)}
<1>1. SUFFICES ASSUME T # {} PROVE FALSE
  OBVIOUS
<1>2. PICK n \in T : \A m \in T : n =< m
  <2>1. T \in SUBSET Nat
    OBVIOUS
  <2> HIDE DEF T
  <2> QED
    BY <1>1, <2>1, LeastNumber
<1>3. CASE n = 0
  <2>1. Solves(0, [i \in {0} |-> rungs])
    BY DEF CarriesTo
  <2> QED
    BY <1>2, <1>3, <2>1
<1>4. CASE n # 0
  <2>1. n - 1 \in Nat /\ n - 1 \notin T
    BY <1>2, <1>4
  <2>2. PICK f : Solves(n - 1, f)
    BY <2>1
  <2> DEFINE last == Carried(f[n - 1], free + 1 - n, total, min, denoms)
             g == [i \in 0..n |-> IF i = n THEN last ELSE f[i]]
  <2>3. /\ f[0] = rungs
        /\ \A i \in 1..n - 1 : f[i] = Carried(f[i - 1], free + 1 - i, total, min, denoms)
    BY <2>2 DEF CarriesTo
  <2>4. g[n] = last /\ \A i \in 0..n - 1 : g[i] = f[i]
    BY <2>1
  <2> HIDE DEF g
  <2>5. g[0] = rungs
    BY <1>4, <2>1, <2>3, <2>4
  <2>6. ASSUME NEW i \in 1..n
        PROVE  g[i] = Carried(g[i - 1], free + 1 - i, total, min, denoms)
    <3>1. i - 1 \in 0..n - 1 /\ g[i - 1] = f[i - 1]
      BY <2>1, <2>4
    <3>2. CASE i = n
      BY <2>4, <3>1, <3>2
    <3>3. CASE i # n
      <4>1. i \in 1..n - 1 /\ g[i] = f[i]
        BY <2>1, <2>4, <3>3
      <4> QED
        BY <2>3, <3>1, <4>1
    <3> QED
      BY <3>2, <3>3
  <2>7. Solves(n, g)
    BY <2>5, <2>6 DEF CarriesTo
  <2> QED
    BY <1>2, <2>7
<1> QED
  BY <1>3, <1>4

\* So the recursion's equation holds.
LEMMA CarriesOne ==
  ASSUME NEW free \in Nat, NEW rungs, NEW total, NEW min, NEW denoms
  PROVE  \E after : Carries(after, free, rungs, total, min, denoms)
<1>1. PICK f : CarriesTo(free, f, free, rungs, total, min, denoms)
  BY CarriesToAll
<1> DEFINE at(k) == IF k = 0 THEN rungs ELSE Carried(f[k - 1], free + 1 - k, total, min, denoms)
           g == [k \in 0..free |-> f[k]]
<1>2. \A k \in 0..free : f[k] = at(k)
  BY <1>1 DEF CarriesTo
<1>3. \A k \in 0..free : k # 0 => k - 1 \in 0..free
  OBVIOUS
<1>4. \A k \in 0..free : k # 0 => g[k - 1] = f[k - 1]
  BY <1>3
<1>5. g = [k \in 0..free |-> at(k)]
  <2> HIDE DEF at
  <2> QED
    BY <1>2
<1> HIDE DEF g
<1>6. g = [k \in 0..free |-> IF k = 0 THEN rungs
                             ELSE Carried(g[k - 1], free + 1 - k, total, min, denoms)]
  BY <1>4, <1>5
<1> QED
  BY <1>6 DEF Carries

\* What is carried fits in the total, and in the slots.
LEMMA CarryFits ==
  ASSUME NEW total \in Nat, NEW min \in Nat, NEW max \in Nat \ {0},
         NEW denoms \in SUBSET (1..total),
         NEW rungs, Within(rungs, total), Len(rungs) =< max - 1
  PROVE  /\ Within(Carry(rungs, total, min, max, denoms), total)
         /\ Len(Carry(rungs, total, min, max, denoms)) =< max
         /\ min =< total => Len(Carry(rungs, total, min, max, denoms)) # 0
<1> DEFINE free == max - Len(rungs)
           Fits(k, sizes) == /\ Within(sizes, total) /\ Len(sizes) =< Len(rungs) + k
                             /\ k # 0 /\ min =< total => Len(sizes) # 0
<1>1. Len(rungs) \in Nat /\ free \in Nat
  BY DEF Within
<1>2. Carry(rungs, total, min, max, denoms)
        = (CHOOSE after : Carries(after, free, rungs, total, min, denoms))[free]
  BY DEF Carry, Carries
<1>3. PICK f : /\ Carries(f, free, rungs, total, min, denoms)
               /\ Carry(rungs, total, min, max, denoms) = f[free]
  BY <1>1, <1>2, CarriesOne
<1> DEFINE at(k) == IF k = 0 THEN rungs ELSE Carried(f[k - 1], free + 1 - k, total, min, denoms)
<1>4. \A k \in 0..free : f[k] = at(k)
  <2>1. f = [k \in 0..free |-> at(k)]
    BY <1>3 DEF Carries
  <2> HIDE DEF at
  <2> QED
    BY <2>1
<1> HIDE DEF free
<1>5. \A k \in 0..free : Fits(k, f[k])
  <2> DEFINE T == {k \in 0..free : ~Fits(k, f[k])}
  <2>1. SUFFICES ASSUME T # {} PROVE FALSE
    OBVIOUS
  <2>2. PICK k \in T : \A m \in T : k =< m
    <3>1. T \in SUBSET Nat
      OBVIOUS
    <3> HIDE DEF T
    <3> QED
      BY <2>1, <3>1, LeastNumber
  <2>3. k \in 0..free /\ ~Fits(k, f[k])
    BY <2>2
  <2>4. k # 0
    <3>1. Fits(0, rungs)
      BY <1>1
    <3> QED
      BY <1>4, <2>3, <3>1
  <2>5. k - 1 \in 0..free /\ k - 1 \notin T
    BY <1>1, <2>2, <2>3, <2>4
  <2>6. Fits(k - 1, f[k - 1])
    BY <2>5
  <2>7. f[k] = Carried(f[k - 1], free + 1 - k, total, min, denoms)
    BY <1>4, <2>3, <2>4
  <2>8. free + 1 - k \in Nat \ {0}
    BY <1>1, <2>3
  <2>9. Within(f[k], total) /\ Len(f[k]) =< Len(f[k - 1]) + 1
          /\ (min =< total => Len(f[k]) # 0)
    BY <2>6, <2>7, <2>8, CarriedFits
  <2>10. Len(f[k - 1]) \in Nat /\ Len(f[k]) \in Nat
    BY <2>6, <2>9 DEF Within
  <2>11. Fits(k, f[k])
    BY <1>1, <2>3, <2>6, <2>9, <2>10
  <2> QED
    BY <2>3, <2>11
<1>6. Fits(free, f[free])
  BY <1>1, <1>5
<1>7. Len(rungs) + free = max /\ free # 0
  BY <1>1 DEF free
<1> QED
  BY <1>3, <1>6, <1>7

\* What is left goes to the last order, so that all of the total is offered.
LEMMA WithRestAll ==
  ASSUME NEW total \in Nat, NEW sizes, Within(sizes, total), Len(sizes) # 0
  PROVE  /\ WithRest(sizes, total) \in Seq(Nat)
         /\ Len(WithRest(sizes, total)) = Len(sizes)
         /\ Total(WithRest(sizes, total)) = total
<1> DEFINE n == Len(sizes)
           all == WithRest(sizes, total)
<1>1. /\ sizes \in Seq(Nat) /\ n \in Nat \ {0} /\ DOMAIN sizes = 1..n
      /\ IsFiniteSet(1..n) /\ Total(sizes) \in Nat /\ Total(sizes) =< total
      /\ \A i \in 1..n : sizes[i] \in Nat
  <2>1. sizes \in Seq(Nat) /\ Total(sizes) \in Nat /\ Total(sizes) =< total
    BY DEF Within
  <2> QED
    BY <2>1, TotalType
<1>2. all = [sizes EXCEPT ![n] = sizes[n] + total - Total(sizes)]
  <2>1. sizes # <<>>
    OBVIOUS
  <2> QED
    BY <2>1 DEF WithRest
<1>3. /\ DOMAIN all = 1..n /\ all[n] = sizes[n] + total - Total(sizes)
      /\ \A i \in (1..n) \ {n} : all[i] = sizes[i]
  <2> HIDE DEF n, all
  <2> QED
    BY <1>1, <1>2
<1> HIDE DEF n, all
<1>4. n \in 1..n /\ sizes[n] + total - Total(sizes) \in Nat
  BY <1>1
<1>5. \A i \in 1..n : all[i] \in Nat
  BY <1>1, <1>3, <1>4
<1>6. all \in [1..n -> Nat]
  <2>1. all = [i \in 1..n |-> all[i]]
    BY <1>1, <1>2
  <2> QED
    BY <1>5, <2>1
<1>7. all \in Seq(Nat) /\ Len(all) = n
  BY <1>1, <1>6, Lists
<1>8. SumFunctionOnSet(sizes, 1..n) = sizes[n] + SumFunctionOnSet(sizes, (1..n) \ {n})
  BY <1>1, <1>4, SumWithout
<1>9. SumFunctionOnSet(all, 1..n) = all[n] + SumFunctionOnSet(all, (1..n) \ {n})
  BY <1>1, <1>4, <1>5, SumWithout
<1>10. /\ SumFunctionOnSet(all, (1..n) \ {n}) = SumFunctionOnSet(sizes, (1..n) \ {n})
       /\ SumFunctionOnSet(all, (1..n) \ {n}) \in Nat
  <2>1. IsFiniteSet((1..n) \ {n})
    BY <1>1, FS_Subset
  <2>2. \A i \in (1..n) \ {n} : all[i] \in Nat /\ all[i] = sizes[i]
    BY <1>3, <1>5
  <2> QED
    BY <2>1, <2>2, SumSame, SumType
<1>11. Total(sizes) = SumFunctionOnSet(sizes, 1..n) /\ Total(all) = SumFunctionOnSet(all, 1..n)
  BY <1>1, <1>3 DEF Total
<1>12. Total(all) = total
  BY <1>1, <1>3, <1>4, <1>8, <1>9, <1>10, <1>11
<1> QED
  BY <1>7, <1>12 DEF all, n

\* Sorting moves the orders, and changes none.
LEMMA AscendingSame ==
  ASSUME NEW sizes \in Seq(Nat)
  PROVE  /\ Ascending(sizes) \in Seq(Nat)
         /\ Len(Ascending(sizes)) = Len(sizes)
         /\ Total(Ascending(sizes)) = Total(sizes)
<1> DEFINE n == Len(sizes)
           D == DOMAIN sizes
           upTo(i) == {j \in D : sizes[j] < sizes[i] \/ (sizes[j] = sizes[i] /\ j <= i)}
           U == [i \in D |-> upTo(i)]
           rank(i) == Cardinality(U[i])
           at(k) == CHOOSE i \in D : rank(i) = k
           asc == Ascending(sizes)
<1>1. /\ n \in Nat /\ D = 1..n /\ IsFiniteSet(D) /\ Cardinality(D) = n
      /\ \A i \in D : sizes[i] \in Nat /\ i \in Nat
  <2>1. n \in Nat /\ D = 1..n /\ IsFiniteSet(D)
    BY TotalType
  <2>2. Cardinality(1..n) = n
    BY <2>1, FS_Interval
  <2> QED
    BY <2>1, <2>2
<1>2. asc = [k \in D |-> sizes[at(k)]]
  <2>1. \A i \in D : rank(i) = Cardinality(upTo(i))
    OBVIOUS
  <2>2. asc = [k \in D |-> sizes[CHOOSE i \in D : Cardinality(upTo(i)) = k]]
    BY DEF Ascending
  <2>3. \A k \in D : at(k) = CHOOSE i \in D : Cardinality(upTo(i)) = k
    BY <2>1
  <2> HIDE DEF at, upTo, U
  <2> QED
    BY <2>2, <2>3
<1>3. /\ U \in [D -> SUBSET D]
      /\ \A x \in D : x \in U[x]
      /\ \A x, y \in D : U[x] \subseteq U[y] \/ U[y] \subseteq U[x]
      /\ \A x, y \in D : U[x] = U[y] => x = y
  <2> HIDE DEF D
  <2>1. \A x, y \in D : y \in U[x] <=> sizes[y] < sizes[x] \/ (sizes[y] = sizes[x] /\ y <= x)
    OBVIOUS
  <2>2. U \in [D -> SUBSET D]
    OBVIOUS
  <2> HIDE DEF U
  <2>3. \A x \in D : x \in U[x]
    BY <1>1, <2>1
  <2>4. ASSUME NEW x \in D, NEW y \in D, x \in U[y] PROVE U[x] \subseteq U[y]
    <3>1. SUFFICES ASSUME NEW z \in U[x] PROVE z \in U[y]
      OBVIOUS
    <3>2. z \in D
      BY <2>2
    <3>3. /\ sizes[x] \in Nat /\ sizes[y] \in Nat /\ sizes[z] \in Nat
          /\ x \in Nat /\ y \in Nat /\ z \in Nat
      BY <1>1, <3>2
    <3>4. /\ sizes[x] < sizes[y] \/ (sizes[x] = sizes[y] /\ x <= y)
          /\ sizes[z] < sizes[x] \/ (sizes[z] = sizes[x] /\ z <= x)
      BY <2>1, <2>4, <3>1, <3>2
    <3>5. sizes[z] < sizes[y] \/ (sizes[z] = sizes[y] /\ z <= y)
      BY <3>3, <3>4
    <3> QED
      BY <2>1, <3>2, <3>5
  <2>5. \A x, y \in D : x \in U[y] \/ y \in U[x]
    BY <1>1, <2>1
  <2>6. \A x, y \in D : x \in U[y] /\ y \in U[x] => x = y
    BY <1>1, <2>1
  <2> QED
    BY <2>2, <2>3, <2>4, <2>5, <2>6
<1> HIDE DEF U
<1>4. \A k \in 1..n : \E x \in D : rank(x) = k
  <2> HIDE DEF D, n
  <2>1. IsFiniteSet(D)
    BY <1>1
  <2>2. \A k \in 1..Cardinality(D) : \E x \in D : Cardinality(U[x]) = k
    BY ONLY <1>3, <2>1, Ranked
  <2> QED
    BY <1>1, <2>2
<1>5. \A x \in D : rank(x) \in 1..n
  <2>1. SUFFICES ASSUME NEW x \in D PROVE rank(x) \in 1..n
    OBVIOUS
  <2>2. U[x] \in SUBSET D /\ x \in U[x]
    BY <1>3
  <2> HIDE DEF D, n
  <2>3. IsFiniteSet(U[x]) /\ rank(x) \in Nat /\ rank(x) =< n
    BY <1>1, <2>2, FS_Subset, FS_CardinalityType
  <2>4. rank(x) # 0
    BY <2>2, <2>3, FS_EmptySet
  <2> QED
    BY <1>1, <2>3, <2>4
<1>6. \A x, y \in D : rank(x) = rank(y) => x = y
  <2> HIDE DEF D, n
  <2>1. ASSUME NEW x \in D, NEW y \in D, rank(x) = rank(y), U[x] \subseteq U[y] PROVE x = y
    <3>1. IsFiniteSet(U[y])
      BY <1>1, <1>3, FS_Subset
    <3>2. U[x] = U[y]
      BY <2>1, <3>1, FS_Subset
    <3> QED
      BY <1>3, <3>2
  <2> QED
    BY <1>3, <2>1
<1> HIDE DEF rank
<1>7. \A k \in D : at(k) \in D /\ rank(at(k)) = k
  BY <1>1, <1>4
<1> HIDE DEF at
<1>8. \A x \in D : rank(x) \in D /\ at(rank(x)) = x
  BY <1>1, <1>5, <1>6, <1>7
<1> HIDE DEF D, n, asc
<1>9. DOMAIN asc = D /\ \A k \in D : asc[k] = sizes[at(k)] /\ asc[k] \in Nat
  BY <1>1, <1>2, <1>7
<1>10. asc \in Seq(Nat) /\ Len(asc) = n
  <2>1. asc \in [1..n -> Nat]
    BY <1>1, <1>2, <1>9
  <2> QED
    BY <1>1, <2>1, Lists
<1>11. SumFunctionOnSet(asc, D) =< SumFunctionOnSet(sizes, D)
  <2> DEFINE h == [k \in D |-> at(k)]
  <2>1. \A k \in D : h[k] = at(k) /\ h[k] \in D
    BY <1>7
  <2>2. h \in [D -> D]
    BY <2>1
  <2> HIDE DEF h
  <2>3. \A x, y \in D : h[x] = h[y] => x = y
    BY <1>7, <2>1
  <2>4. \A x \in D : asc[x] =< sizes[h[x]]
    BY <1>9, <2>1
  <2> QED
    BY <1>1, <1>9, <2>2, <2>3, <2>4, SumMatched
<1>12. SumFunctionOnSet(sizes, D) =< SumFunctionOnSet(asc, D)
  <2> DEFINE h == [x \in D |-> rank(x)]
  <2>1. \A x \in D : h[x] = rank(x) /\ h[x] \in D
    BY <1>8
  <2>2. h \in [D -> D]
    BY <2>1
  <2> HIDE DEF h
  <2>3. \A x, y \in D : h[x] = h[y] => x = y
    BY <1>6, <2>1
  <2>4. \A x \in D : sizes[x] =< asc[h[x]]
    <3>1. \A x \in D : asc[rank(x)] = sizes[x]
      BY <1>8, <1>9
    <3> QED
      BY <1>1, <2>1, <3>1
  <2> QED
    BY <1>1, <1>9, <2>2, <2>3, <2>4, SumMatched
<1>13. Total(asc) = Total(sizes)
  <2>1. SumFunctionOnSet(asc, D) \in Nat /\ SumFunctionOnSet(sizes, D) \in Nat
    BY <1>1, <1>9, SumType
  <2>2. Total(asc) = SumFunctionOnSet(asc, D) /\ Total(sizes) = SumFunctionOnSet(sizes, D)
    BY <1>9 DEF Total, D
  <2> QED
    BY <1>11, <1>12, <2>1, <2>2
<1> QED
  BY <1>10, <1>13 DEF asc, n

\* For every total, least slice and number of slots: a ladder offers all of the
\* total and no more, in at most as many orders as there are slots, whenever the
\* total pays one slice.
THEOREM LadderOffersAll ==
  ASSUME NEW total \in Nat, NEW min \in Nat, NEW max \in Nat
  PROVE  /\ balanced_ladder(total, min, max) \in Seq(Nat)
         /\ Len(balanced_ladder(total, min, max)) =< max
         /\ IF min = 0 \/ max = 0 \/ total < min
            THEN balanced_ladder(total, min, max) = <<>>
            ELSE /\ balanced_ladder(total, min, max) # <<>>
                 /\ Total(balanced_ladder(total, min, max)) = total
<1> DEFINE denoms == denominations(total, min)
           sizes == Carry(Rungs(total, min, max, denoms), total, min, max, denoms)
           ladder == balanced_ladder(total, min, max)
<1>1. ladder = IF total < min \/ min = 0 \/ max = 0 THEN <<>>
               ELSE Ascending(WithRest(sizes, total))
  BY DEF balanced_ladder
<1>2. CASE min = 0 \/ max = 0 \/ total < min
  <2>1. ladder = <<>>
    BY <1>1, <1>2
  <2> HIDE DEF ladder
  <2>2. ladder \in Seq(Nat) /\ Len(ladder) = 0
    BY <2>1
  <2> QED
    BY <1>2, <2>1, <2>2 DEF ladder
<1>3. CASE ~(min = 0 \/ max = 0 \/ total < min)
  <2>1. ladder = Ascending(WithRest(sizes, total))
    BY <1>1, <1>3
  <2>2. max \in Nat \ {0} /\ min =< total
    BY <1>3
  <2>3. denoms \in SUBSET (1..total) /\ IsFiniteSet(denoms)
    BY Denominations
  <2> HIDE DEF denoms, ladder
  <2>4. /\ Within(Rungs(total, min, max, denoms), total)
        /\ Len(Rungs(total, min, max, denoms)) =< max - 1
    BY <2>2, <2>3, RungsFit
  <2>5. Within(sizes, total) /\ Len(sizes) =< max /\ Len(sizes) # 0
    BY <2>2, <2>3, <2>4, CarryFits
  <2> HIDE DEF sizes
  <2>6. /\ WithRest(sizes, total) \in Seq(Nat)
        /\ Len(WithRest(sizes, total)) = Len(sizes)
        /\ Total(WithRest(sizes, total)) = total
    BY <2>5, WithRestAll
  <2>7. /\ ladder \in Seq(Nat) /\ Len(ladder) = Len(sizes) /\ Total(ladder) = total
    BY <2>1, <2>6, AscendingSame
  <2>8. ladder # <<>>
    BY <2>5, <2>7
  <2> QED
    BY <1>3, <2>5, <2>7, <2>8 DEF ladder
<1> QED
  BY <1>2, <1>3

(***************************************************************************)
(* What a side is granted and drafts, and the types of the variables.      *)
(***************************************************************************)

\* What a batch offers is an amount.
Amounts == \A slot \in BatchSlots : batch.input[slot] \in Nat

BudgetType == [known : BOOLEAN, funded : Nat, committed : Nat, left : Nat]

\* What is available is the wallet's, and what its orders leave.
LEMMA Available ==
  ASSUME NEW b \in BudgetType, NEW r \in Nat
  PROVE  /\ available_funded_input(b, r) \in Nat
         /\ available_funded_input(b, r) =< b.funded
         /\ available_funded_input(b, r) > 0 =>
              available_funded_input(b, r) =< b.funded + r - b.committed
<1>1. b.funded \in Nat /\ b.committed \in Nat
  BY DEF BudgetType
<1> QED
  BY <1>1 DEF available_funded_input, Least, Greatest, Monus

\* A share is no more than what is available.
LEMMA ShareFits ==
  ASSUME NEW b \in BudgetType, NEW r \in Nat, NEW sides \in Nat, NEW left \in Nat
  PROVE  /\ max_input_share(b, r, sides, left) \in Nat
         /\ max_input_share(b, r, sides, left) =< available_funded_input(b, r)
<1> DEFINE available == available_funded_input(b, r)
           total     == Greatest(sides, 1)
           processed == total - Least(Greatest(left, 1), total)
           odd       == IF processed < b.funded % total THEN 1 ELSE 0
           share     == b.funded \div total + odd
<1>1. available \in Nat
  BY Available
<1>2. total \in Nat \ {0} /\ b.funded \in Nat
  BY DEF Greatest, BudgetType
<1>3. odd \in Nat
  OBVIOUS
<1>4. max_input_share(b, r, sides, left) =
        IF total = 1 THEN available ELSE Least(available, share)
  BY DEF max_input_share
<1> HIDE DEF available, total, odd
<1>5. share \in Nat
  BY <1>2, <1>3
<1> HIDE DEF share
<1>6. max_input_share(b, r, sides, left) \in {available, share}
        /\ max_input_share(b, r, sides, left) =< available
  BY <1>1, <1>4, <1>5 DEF Least
<1> QED
  BY <1>1, <1>5, <1>6 DEF available

\* The sides that take all there is can be counted.
LEMMA SidesFinite ==
  ASSUME NEW S \in SUBSET (1..Sides)
  PROVE  IsFiniteSet(S) /\ Cardinality(S) \in Nat
<1>1. IsFiniteSet(1..Sides)
  BY FS_Interval, ConstantsTyped
<1> QED
  BY <1>1, FS_Subset, FS_CardinalityType

\* A side is never granted more than what is available.
LEMMA GrantFits ==
  ASSUME TypeOK
  PROVE  Grant \in Nat /\ Grant =< available_funded_input(budget, reusable)
<1>1. /\ budget \in BudgetType /\ reusable \in Nat /\ Cardinality(maxed) \in Nat
      /\ budget.left \in Nat /\ Want \in Nat
  BY SidesFinite, ConstantsTyped DEF TypeOK, BudgetType
<1>2. available_funded_input(budget, reusable) \in Nat
  BY <1>1, Available
<1>3. CASE side \in maxed
  BY <1>1, <1>3, ShareFits DEF Grant
<1>4. CASE side \notin maxed
  BY <1>1, <1>2, <1>4 DEF Grant, Least
<1> QED
  BY <1>3, <1>4

\* The drafts of a side: no more than what is available, and something is.
LEMMA DraftsFit ==
  ASSUME TypeOK
  PROVE  /\ \A slot \in Drafted : Sizes[slot[2] + 1] \in Nat
         /\ SumFunctionOnSet([slot \in Drafted |-> Sizes[slot[2] + 1]], Drafted)
              =< available_funded_input(budget, reusable)
         /\ Sizes # <<>> => available_funded_input(budget, reusable) > 0
<1> DEFINE drafts == [slot \in Drafted |-> Sizes[slot[2] + 1]]
           D == DOMAIN Sizes
           h == [slot \in Drafted |-> slot[2] + 1]
           available == available_funded_input(budget, reusable)
<1>1. Grant \in Nat /\ Grant =< available /\ MinSlice \in Nat /\ MaxOrders \in Nat
  BY GrantFits, ConstantsTyped
<1>2. available \in Nat
  BY Available DEF TypeOK, BudgetType
<1> HIDE DEF available
<1>3. /\ Sizes \in Seq(Nat)
      /\ Sizes # <<>> => Total(Sizes) = Grant /\ Grant > 0
      /\ Sizes = <<>> => Total(Sizes) = 0
  <2>1. /\ Sizes \in Seq(Nat)
        /\ IF MinSlice = 0 \/ MaxOrders = 0 \/ Grant < MinSlice
           THEN Sizes = <<>> ELSE Sizes # <<>> /\ Total(Sizes) = Grant
    BY <1>1, LadderOffersAll DEF Sizes
  <2>2. Sizes = <<>> => Total(Sizes) = 0
    BY SumEmpty DEF Total
  <2>3. Sizes # <<>> => Grant > 0
    BY <1>1, <2>1
  <2> QED
    BY <2>1, <2>2, <2>3
<1>4. /\ D = 1..Len(Sizes) /\ Len(Sizes) \in Nat /\ IsFiniteSet(D)
      /\ \A i \in D : Sizes[i] \in Nat
  BY <1>3, TotalType
<1>5. /\ IsFiniteSet(Drafted)
      /\ \A slot \in Drafted : /\ slot \in Slots /\ slot[1] = side
                               /\ slot[2] \in Nat /\ slot[2] < Len(Sizes)
  <2>1. Drafted \in SUBSET Slots
    BY DraftedSlots
  <2>2. IsFiniteSet(Drafted)
    BY <2>1, SlotsFinite, FS_Subset
  <2> QED
    BY <2>1, <2>2, ConstantsTyped DEF Drafted, SlotsOf, Slots
<1> HIDE DEF D
<1>6. \A slot \in Drafted : slot[2] + 1 \in D
  BY <1>4, <1>5
<1>7. \A slot \in Drafted : /\ h[slot] = slot[2] + 1 /\ h[slot] \in D
                            /\ drafts[slot] = Sizes[h[slot]] /\ drafts[slot] \in Nat
  BY <1>4, <1>6
<1>8. \A x, y \in Drafted : h[x] = h[y] => x = y
  <2>1. \A x, y \in Drafted : x[2] + 1 = y[2] + 1 => x[2] = y[2]
    BY <1>5
  <2>2. \A x, y \in Drafted : x[1] = y[1] /\ x[2] = y[2] => x = y
    BY <1>5 DEF Slots
  <2> QED
    BY <1>5, <1>7, <2>1, <2>2
<1>9. h \in [Drafted -> D]
  BY <1>6
<1> HIDE DEF h, drafts
<1>10. \A x \in Drafted : drafts[x] =< Sizes[h[x]]
  BY <1>7
<1>11. SumFunctionOnSet(drafts, Drafted) =< SumFunctionOnSet(Sizes, D)
  BY <1>4, <1>5, <1>7, <1>8, <1>9, <1>10, SumMatched
<1>12. SumFunctionOnSet(drafts, Drafted) \in Nat /\ SumFunctionOnSet(Sizes, D) \in Nat
  BY <1>4, <1>5, <1>7, SumType
<1>13. SumFunctionOnSet(Sizes, D) = Total(Sizes)
  BY DEF Total, D
<1>14. SumFunctionOnSet(drafts, Drafted) =< available
  BY <1>1, <1>2, <1>3, <1>11, <1>12, <1>13
<1>15. Sizes # <<>> => available > 0
  BY <1>1, <1>2, <1>3
<1> QED
  BY <1>4, <1>6, <1>14, <1>15 DEF available, drafts

----------------------------------------------------------------------------


\* The parts of TypeOK.
WorldTyped ==
  /\ maxed \subseteq 1..Sides /\ balance \in 0..MaxBalance /\ spent \subseteq Nat
  /\ filled \in [Slots -> BOOLEAN] /\ calm \in BOOLEAN /\ shocks \in 0..MaxShocks

OrdersTyped == rows \subseteq [slot : Slots, nonce : Nat, input : Nat, left : Nat]

LedgersTyped == ledger \in LedgerType /\ file \in LedgerType

TaskTyped ==
  /\ side \in 0..Sides
  /\ step \in {"requote", "balance", "committed", "size", "signing", "answer"}
  /\ side = 0 => step = "requote"
  /\ budget \in BudgetType /\ reusable \in Nat

BatchTyped ==
  /\ batch.left \in 0..Ttl /\ BatchSlots \subseteq SlotsOf(side) /\ Amounts
  /\ answer \in {"none", "posted", "spent", "unfunded", "failed"}
  /\ named \subseteq spent

TypeInv == WorldTyped /\ OrdersTyped /\ LedgersTyped /\ TaskTyped /\ BatchTyped

LEMMA TypeParts ==
  ASSUME TypeInv
  PROVE  /\ TypeOK /\ Amounts
         /\ WorldTyped /\ OrdersTyped /\ LedgersTyped /\ TaskTyped /\ BatchTyped
BY DEF TypeInv, TypeOK, WorldTyped, OrdersTyped, LedgersTyped, TaskTyped, BatchTyped, BudgetType

\* A ledger with other slots.
LEMMA LedgerRecord ==
  ASSUME NEW l, DOMAIN l = Fields, l = [f \in Fields |-> l[f]], l.next \in Nat,
         l.nonce \in SlotMap, l.input \in SlotMap, l.left \in SlotMap
  PROVE  l \in LedgerType
<1>1. l = [next |-> l.next, nonce |-> l.nonce, input |-> l.input, left |-> l.left]
  BY DEF Fields
<1> QED
  BY <1>1 DEF LedgerType

LEMMA InitTypes == Init => TypeInv
<1> SUFFICES ASSUME Init PROVE TypeInv
  OBVIOUS
<1>1. maxed \subseteq 1..Sides /\ Cardinality(maxed) \in Nat
  BY SidesFinite DEF Init
<1>2. Fresh \in LedgerType
  BY DEF Fresh, LedgerType, SlotMap
<1>3. WorldTyped /\ OrdersTyped /\ LedgersTyped
  BY <1>1, <1>2, ConstantsTyped DEF Init, WorldTyped, OrdersTyped, LedgersTyped
<1>4. TaskTyped
  BY <1>1, ConstantsTyped DEF Init, TaskTyped, NoBudget, BudgetType
<1>5. BatchTyped
  <2>1. BatchSlots = {} /\ batch.left = 0
    BY DEF Init, NoBatch, BatchSlots
  <2> QED
    BY <2>1, ConstantsTyped DEF Init, BatchTyped, Amounts
<1> QED
  BY <1>3, <1>4, <1>5 DEF TypeInv

\* The end of a side.
LEMMA OverTypes ==
  ASSUME Over, side' \in 0..Sides, budget' \in BudgetType
  PROVE  TaskTyped' /\ BatchTyped'
<1>1. BatchSlots' = {} /\ batch'.left = 0
  BY DEF Over, NoBatch, BatchSlots
<1>2. BatchTyped'
  BY <1>1, ConstantsTyped DEF Over, BatchTyped, Amounts
<1>3. TaskTyped'
  BY DEF Over, TaskTyped
<1> QED
  BY <1>2, <1>3

LEMMA NextSideTypes ==
  ASSUME TypeInv, NextSide, budget' \in BudgetType
  PROVE  TaskTyped' /\ BatchTyped'
<1>1. side \in 0..Sides /\ Sides \in Nat \ {0}
  BY ConstantsTyped, TypeParts DEF TypeOK
<1>2. (side + 1) % (Sides + 1) \in 0..Sides
  BY <1>1
<1> QED
  BY <1>2, OverTypes DEF NextSide

LEMMA NoBudgetTypes == TypeInv => NoBudget \in BudgetType
BY SidesFinite, TypeParts DEF TypeOK, NoBudget, BudgetType

LEMMA ShockTypes ==
  ASSUME shocks \in 0..MaxShocks, Shock
  PROVE  shocks' \in 0..MaxShocks
BY ConstantsTyped DEF Shock

LEMMA SameWorld ==
  ASSUME WorldTyped, UNCHANGED <<world, filled>>, calm' \in BOOLEAN,
         shocks' \in 0..MaxShocks
  PROVE  WorldTyped'
BY DEF WorldTyped, world

LEMMA SameOrders == OrdersTyped /\ UNCHANGED rows => OrdersTyped'
BY DEF OrdersTyped

LEMMA SameLedgers == LedgersTyped /\ UNCHANGED <<ledger, file>> => LedgersTyped'
BY DEF LedgersTyped

LEMMA SameTask == TaskTyped /\ UNCHANGED task => TaskTyped'
BY DEF TaskTyped, task

LEMMA SameBatch ==
  BatchTyped /\ UNCHANGED <<batch, side, answer, named, spent>> => BatchTyped'
BY DEF BatchTyped, BatchSlots, Amounts, SlotsOf

\* Minting leaves amounts and times.
LEMMA MintedTypes ==
  ASSUME TypeInv, IInv
  PROVE  /\ Minted(Drafted) \in LedgerType
         /\ Minted(Drafted).input = ledger.input /\ Minted(Drafted).left = ledger.left
<1>1. ledger \in LedgerType /\ LedgerOK(ledger)
  BY TypeParts DEF TypeOK, IInv, Ledgers
<1>2. LedgerOK(Minted(Drafted))
  BY <1>1, DraftedSlots, MintedNonces
<1> DEFINE m == Minted(Drafted)
<1>3. m = [f \in Fields |-> m[f]] /\ m.input = ledger.input /\ m.left = ledger.left
  BY <1>1 DEF Minted, LedgerType, Fields
<1> HIDE DEF m
<1>4. m.input \in SlotMap /\ m.left \in SlotMap /\ m.next \in Nat /\ m.nonce \in SlotMap
        /\ DOMAIN m = Fields
  BY <1>1, <1>2, <1>3 DEF LedgerOK, LedgerType, m
<1> QED
  BY <1>3, <1>4, LedgerRecord DEF m

LEMMA TakenTypes == TypeInv => Taken \in BudgetType
<1> SUFFICES ASSUME TypeInv PROVE Taken \in BudgetType
  OBVIOUS
<1>1. budget \in BudgetType
  BY TypeParts DEF TypeOK, BudgetType
<1>2. (IF side \in maxed THEN Greatest(budget.left, 1) - 1 ELSE budget.left) \in Nat
  BY <1>1 DEF BudgetType, Greatest
<1> QED
  BY <1>1, <1>2 DEF Taken, BudgetType

LEMMA HoldTypes == TypeInv /\ IInv /\ (Hold \/ NotSaved) => TypeInv'
<1> SUFFICES ASSUME TypeInv, IInv, Hold \/ NotSaved PROVE TypeInv'
  OBVIOUS
<1>1. WorldTyped /\ OrdersTyped /\ LedgersTyped
  BY TypeParts
<1>2. /\ UNCHANGED <<world, filled, calm, rows, file>> /\ NextSide
      /\ ledger' = Minted(Drafted) /\ budget' = Taken
      /\ UNCHANGED shocks \/ Shock
  BY DEF Hold, NotSaved
<1>3. WorldTyped'
  BY <1>1, <1>2, SameWorld, ShockTypes DEF WorldTyped
<1>4. OrdersTyped' /\ LedgersTyped'
  BY <1>1, <1>2, MintedTypes DEF OrdersTyped, LedgersTyped
<1>5. TaskTyped' /\ BatchTyped'
  BY <1>2, TakenTypes, NextSideTypes
<1> QED
  BY <1>3, <1>4, <1>5 DEF TypeInv

LEMMA DraftTypes == TypeInv /\ IInv /\ Draft => TypeInv'
<1> SUFFICES ASSUME TypeInv, IInv, Draft PROVE TypeInv'
  OBVIOUS
<1>1. WorldTyped /\ OrdersTyped /\ LedgersTyped /\ TaskTyped /\ BatchTyped
  BY TypeParts
<1>2. /\ step = "size" /\ UNCHANGED <<world, filled, calm, rows, shocks>>
      /\ ledger' = Minted(Drafted) /\ file' = ledger'
      /\ budget' = Taken /\ step' = "signing"
      /\ batch' = [input |-> [slot \in Drafted |-> Sizes[slot[2] + 1]], left |-> Ttl]
      /\ UNCHANGED <<side, reusable, answer, named>>
  BY DEF Draft
<1>3. WorldTyped' /\ OrdersTyped'
  BY <1>1, <1>2, SameWorld, SameOrders DEF WorldTyped
<1>4. LedgersTyped'
  BY <1>1, <1>2, MintedTypes DEF LedgersTyped
<1>5. TaskTyped'
  BY <1>1, <1>2, TakenTypes DEF TaskTyped
<1>6. BatchTyped'
  <2>1. BatchSlots' = Drafted /\ batch'.left = Ttl
          /\ \A slot \in Drafted : batch'.input[slot] = Sizes[slot[2] + 1]
    BY <1>2 DEF BatchSlots
  <2>2. \A slot \in Drafted : Sizes[slot[2] + 1] \in Nat
    BY DraftsFit, TypeParts
  <2>3. Amounts'
    BY <2>1, <2>2 DEF Amounts
  <2>4. (SlotsOf(side))' = SlotsOf(side)
    BY <1>2
  <2> QED
    BY <1>1, <1>2, <2>1, <2>3, <2>4, DraftedSlots, ConstantsTyped DEF BatchTyped, world
<1> QED
  BY <1>3, <1>4, <1>5, <1>6 DEF TypeInv

LEMMA AcceptedTypes == TypeInv => Accepted \subseteq [slot : Slots, nonce : Nat, input : Nat, left : Nat]
<1> SUFFICES ASSUME TypeInv
             PROVE  Accepted \subseteq [slot : Slots, nonce : Nat, input : Nat, left : Nat]
  OBVIOUS
<1>1. OrdersTyped /\ LedgersTyped /\ BatchTyped
  BY TypeParts
<1>2. ASSUME NEW slot \in BatchSlots
      PROVE  /\ slot \in Slots /\ ledger.nonce[slot] \in Nat
             /\ batch.input[slot] \in Nat /\ batch.left \in Nat
  BY <1>1 DEF LedgersTyped, LedgerType, SlotMap, BatchTyped, SlotsOf, Amounts
<1> QED
  BY <1>1, <1>2 DEF Accepted, OrdersTyped

LEMMA SubmitTypes == TypeInv /\ IInv /\ Submit => TypeInv'
<1> SUFFICES ASSUME TypeInv, IInv, Submit PROVE TypeInv'
  OBVIOUS
<1>1. WorldTyped /\ OrdersTyped /\ LedgersTyped /\ TaskTyped /\ BatchTyped
  BY TypeParts
<1>2. /\ step' = "answer" /\ rows' \in {rows, Accepted}
      /\ answer' \in {"none", "posted", "spent", "unfunded", "failed"}
      /\ UNCHANGED shocks \/ Shock
      /\ named' \subseteq spent
      /\ filled' = [slot \in Slots |->
                      filled[slot] /\ ~(slot \in BatchSlots /\ ledger.nonce[slot] \in named')]
      /\ calm' = (calm /\ NoneLeft /\ (rows' # rows => answer' = "posted"))
      /\ UNCHANGED <<world, ledger, file, side, budget, reusable, batch>>
      /\ step = "signing"
  BY DEF Submit
<1>3. OrdersTyped'
  BY <1>1, <1>2, AcceptedTypes DEF OrdersTyped
<1>4. WorldTyped'
  <2>1. filled' \in [Slots -> BOOLEAN]
    BY <1>2
  <2>2. calm' \in BOOLEAN
    BY <1>2
  <2>3. shocks' \in 0..MaxShocks
    BY <1>1, <1>2, ShockTypes DEF WorldTyped
  <2> QED
    BY <1>1, <1>2, <2>1, <2>2, <2>3 DEF WorldTyped, world
<1>5. LedgersTyped' /\ TaskTyped'
  BY <1>1, <1>2 DEF LedgersTyped, TaskTyped
<1>6. BatchTyped'
  BY <1>1, <1>2 DEF BatchTyped, BatchSlots, Amounts, SlotsOf, world
<1> QED
  BY <1>3, <1>4, <1>5, <1>6 DEF TypeInv

LEMMA RememberedTypes ==
  ASSUME TypeInv
  PROVE  /\ Remembered \in LedgerType
         /\ Remembered.nonce = ledger.nonce
         /\ \A slot \in Slots :
              /\ slot \in BatchSlots =>
                   Remembered.input[slot] = batch.input[slot] /\ Remembered.left[slot] = batch.left
              /\ slot \in SlotsOf(side) \ BatchSlots =>
                   Remembered.input[slot] = 0 /\ Remembered.left[slot] = 0
              /\ slot \notin SlotsOf(side) =>
                   /\ Remembered.input[slot] = ledger.input[slot]
                   /\ Remembered.left[slot] = ledger.left[slot]
<1>1. LedgersTyped /\ BatchTyped
  BY TypeParts
<1> DEFINE R == Remembered
           input == [slot \in Slots |-> CASE slot \in BatchSlots -> batch.input[slot]
                                          [] slot \in SlotsOf(side) \ BatchSlots -> 0
                                          [] OTHER -> ledger.input[slot]]
           left == [slot \in Slots |-> CASE slot \in BatchSlots -> batch.left
                                         [] slot \in SlotsOf(side) \ BatchSlots -> 0
                                         [] OTHER -> ledger.left[slot]]
<1>2. ledger \in LedgerType /\ DOMAIN ledger = Fields
  BY <1>1 DEF LedgersTyped, LedgerType, Fields
<1>3. /\ R = [f \in Fields |-> R[f]] /\ DOMAIN R = Fields
      /\ R.input = input /\ R.left = left /\ R.nonce = ledger.nonce /\ R.next = ledger.next
  BY <1>2 DEF Remembered, Fields
<1>4. BatchSlots \subseteq SlotsOf(side) /\ SlotsOf(side) \subseteq Slots
  BY <1>1 DEF BatchTyped, SlotsOf
<1>5. \A slot \in Slots :
        /\ slot \in BatchSlots => input[slot] = batch.input[slot] /\ left[slot] = batch.left
        /\ slot \in SlotsOf(side) \ BatchSlots => input[slot] = 0 /\ left[slot] = 0
        /\ slot \notin SlotsOf(side) =>
             input[slot] = ledger.input[slot] /\ left[slot] = ledger.left[slot]
  BY <1>4
<1>6. input \in SlotMap /\ left \in SlotMap
  <2>1. /\ \A slot \in BatchSlots : batch.input[slot] \in Nat
        /\ batch.left \in Nat
        /\ \A slot \in Slots : ledger.input[slot] \in Nat /\ ledger.left[slot] \in Nat
    BY <1>1, <1>2 DEF BatchTyped, Amounts, LedgerType, SlotMap
  <2>2. \A slot \in Slots : input[slot] \in Nat /\ left[slot] \in Nat
    BY <1>5, <2>1
  <2> QED
    BY <2>2 DEF SlotMap
<1> HIDE DEF R, input, left
<1>7. R \in LedgerType
  BY <1>2, <1>3, <1>6, LedgerRecord DEF LedgerType
<1> QED
  BY <1>3, <1>5, <1>7 DEF R

LEMMA ForgottenTypes ==
  ASSUME TypeInv
  PROVE  /\ Forgotten \in LedgerType
         /\ \A slot \in Slots :
              \/ /\ Forgotten.input[slot] = ledger.input[slot]
                 /\ Forgotten.left[slot] = ledger.left[slot]
              \/ /\ ledger.nonce[slot] \in named
                 /\ Forgotten.input[slot] = 0 /\ Forgotten.left[slot] = 0
<1>1. LedgersTyped
  BY TypeParts
<1> DEFINE R == Forgotten
           gone == {slot \in BatchSlots : ledger.nonce[slot] \in named}
           Without(f) == [slot \in Slots |-> IF slot \in gone THEN 0 ELSE f[slot]]
<1>2. ledger \in LedgerType /\ DOMAIN ledger = Fields
  BY <1>1 DEF LedgersTyped, LedgerType, Fields
<1>3. /\ R = [f \in Fields |-> R[f]] /\ DOMAIN R = Fields
      /\ R.input = Without(ledger.input) /\ R.left = Without(ledger.left)
      /\ R.nonce = Without(ledger.nonce) /\ R.next = ledger.next
  BY <1>2 DEF Forgotten, Fields
<1>4. ASSUME NEW f \in SlotMap PROVE Without(f) \in SlotMap
  BY DEF SlotMap
<1>5. \A slot \in Slots : slot \in gone => ledger.nonce[slot] \in named
  OBVIOUS
<1>6. \A slot \in Slots :
        \/ R.input[slot] = ledger.input[slot] /\ R.left[slot] = ledger.left[slot]
        \/ slot \in gone /\ R.input[slot] = 0 /\ R.left[slot] = 0
  BY <1>3
<1> HIDE DEF R, Without
<1>7. R \in LedgerType
  BY <1>2, <1>3, <1>4, LedgerRecord DEF LedgerType
<1> QED
  BY <1>5, <1>6, <1>7 DEF R

LEMMA ReplacedTypes ==
  ASSUME NEW b \in BudgetType, NEW d \in Nat, NEW r \in Nat
  PROVE  Replaced(b, d, r) \in BudgetType
BY DEF Replaced, BudgetType, Monus, Greatest

\* What a batch offers in all.
LEMMA BatchTotalType ==
  ASSUME TypeInv
  PROVE  IsFiniteSet(BatchSlots) /\ BatchTotal \in Nat
<1>1. BatchSlots \in SUBSET Slots /\ Amounts
  BY TypeParts DEF TypeOK, SlotsOf
<1>2. IsFiniteSet(BatchSlots)
  BY <1>1, SlotsFinite, FS_Subset
<1> QED
  BY <1>1, <1>2, SumType DEF BatchTotal, Amounts

LEMMA AnsweredTypes == TypeInv /\ IInv /\ Answered => TypeInv'
<1> SUFFICES ASSUME TypeInv, IInv, Answered PROVE TypeInv'
  OBVIOUS
<1>1. WorldTyped /\ OrdersTyped /\ LedgersTyped /\ TaskTyped /\ BatchTyped
  BY TypeParts
<1>2. /\ NextSide /\ UNCHANGED <<world, rows, filled, calm>>
      /\ ledger' \in {ledger, Remembered, Forgotten}
      /\ file' \in {file, ledger'}
      /\ budget' \in {budget, BudgetAfter}
      /\ UNCHANGED shocks \/ Shock
  BY DEF Answered, Persist
<1>3. LedgersTyped'
  BY <1>1, <1>2, RememberedTypes, ForgottenTypes DEF LedgersTyped
<1>4. budget' \in BudgetType
  BY <1>1, <1>2, ReplacedTypes, BatchTotalType DEF TaskTyped, BudgetAfter
<1>5. WorldTyped' /\ OrdersTyped'
  BY <1>1, <1>2, SameWorld, SameOrders, ShockTypes DEF WorldTyped
<1> QED
  BY <1>2, <1>3, <1>4, <1>5, NextSideTypes DEF TypeInv

LEMMA AgedTypes ==
  ASSUME NEW f \in SlotMap
  PROVE  /\ Aged(f) \in SlotMap
         /\ \A slot \in Slots : Aged(f)[slot] = Monus(f[slot], 1)
<1>1. DOMAIN f = Slots /\ \A slot \in Slots : f[slot] \in Nat
  BY DEF SlotMap
<1>2. \A slot \in Slots : Monus(f[slot], 1) \in Nat
  BY <1>1 DEF Monus, Greatest
<1> QED
  BY <1>1, <1>2 DEF Aged, SlotMap

LEMMA SecondTypes == TypeInv /\ IInv /\ Second => TypeInv'
<1> SUFFICES ASSUME TypeInv, IInv, Second PROVE TypeInv'
  OBVIOUS
<1>1. WorldTyped /\ OrdersTyped /\ LedgersTyped /\ TaskTyped /\ BatchTyped
  BY TypeParts
<1>2. /\ rows' = {[r EXCEPT !.left = @ - 1] : r \in {r \in rows : r.left > 1}}
      /\ ledger' = [ledger EXCEPT !.left = Aged(@)]
      /\ file' = [file EXCEPT !.left = Aged(@)]
      /\ batch' = [batch EXCEPT !.left = Monus(@, 1)]
      /\ calm' = (calm /\ \A r \in rows : r.left # Margin + 1)
      /\ UNCHANGED <<world, side, step, budget, reusable, answer, named, filled, shocks>>
  BY DEF Second
<1>3. WorldTyped'
  BY <1>1, <1>2 DEF WorldTyped, world
<1>4. OrdersTyped'
  BY <1>1, <1>2 DEF OrdersTyped
<1>5. ASSUME NEW l \in LedgerType PROVE [l EXCEPT !.left = Aged(@)] \in LedgerType
  <2>1. Aged(l.left) \in SlotMap
    BY AgedTypes DEF LedgerType
  <2> QED
    BY <2>1 DEF LedgerType
<1>6. LedgersTyped' /\ TaskTyped'
  BY <1>1, <1>2, <1>5 DEF LedgersTyped, TaskTyped
<1>7. BatchTyped'
  <2>1. DOMAIN batch = {"input", "left"}
    BY DEF IInv, BatchOK
  <2>2. batch'.input = batch.input /\ batch'.left = Monus(batch.left, 1)
    BY <1>2, <2>1
  <2>3. batch'.left \in 0..Ttl
    BY <1>1, <2>2, ConstantsTyped DEF BatchTyped, Monus, Greatest
  <2> QED
    BY <1>1, <1>2, <2>2, <2>3 DEF BatchTyped, BatchSlots, Amounts, SlotsOf, world
<1> QED
  BY <1>3, <1>4, <1>6, <1>7 DEF TypeInv

LEMMA RestartTypes == TypeInv /\ IInv /\ Restart => TypeInv'
<1> SUFFICES ASSUME TypeInv, IInv, Restart PROVE TypeInv'
  OBVIOUS
<1>1. WorldTyped /\ OrdersTyped /\ LedgersTyped
  BY TypeParts
<1>2. /\ Shock /\ ledger' = Loaded /\ side' = 0 /\ Over /\ budget' = NoBudget
      /\ filled' = [slot \in Slots |-> filled[slot] \/ file.nonce[slot] \in spent] /\ calm' = FALSE
      /\ UNCHANGED <<world, rows, file>>
  BY DEF Restart
<1>3. Loaded \in LedgerType
  <2>1. LedgerOK(file) /\ file \in LedgerType
    BY <1>1 DEF IInv, Ledgers, LedgersTyped
  <2>2. Loaded.next = file.next
    BY <2>1, LoadedNonces
  <2>3. Loaded = [file EXCEPT !.next = file.next]
    BY <2>1, <2>2 DEF Loaded, LedgerType
  <2> QED
    BY <2>1, <2>3 DEF LedgerType
<1>4. WorldTyped'
  BY <1>1, <1>2, ShockTypes DEF WorldTyped, world
<1>5. OrdersTyped' /\ LedgersTyped'
  BY <1>1, <1>2, <1>3 DEF OrdersTyped, LedgersTyped
<1>6. TaskTyped' /\ BatchTyped'
  BY <1>2, OverTypes, NoBudgetTypes, ConstantsTyped
<1> QED
  BY <1>4, <1>5, <1>6 DEF TypeInv

LEMMA FillTypes ==
  ASSUME TypeInv, NEW r \in rows, Fill(r)
  PROVE  TypeInv'
<1>1. WorldTyped /\ OrdersTyped /\ LedgersTyped /\ TaskTyped /\ BatchTyped
  BY TypeParts
<1>2. /\ balance >= r.input /\ Shock /\ balance' = balance - r.input
      /\ spent' = spent \cup {r.nonce} /\ rows' = rows \ {r}
      /\ filled' = [filled EXCEPT ![r.slot] = TRUE] /\ calm' = FALSE
      /\ UNCHANGED <<maxed, ledger, file, task>>
  BY DEF Fill
<1>3. r.input \in Nat /\ r.nonce \in Nat
  BY <1>1 DEF OrdersTyped
<1>4. WorldTyped'
  <2>1. balance' \in 0..MaxBalance
    BY <1>1, <1>2, <1>3, ConstantsTyped DEF WorldTyped
  <2>2. filled' \in [Slots -> BOOLEAN]
    BY <1>1, <1>2 DEF WorldTyped
  <2> QED
    BY <1>1, <1>2, <1>3, <2>1, <2>2, ShockTypes DEF WorldTyped
<1>5. OrdersTyped' /\ LedgersTyped' /\ TaskTyped'
  BY <1>1, <1>2 DEF OrdersTyped, LedgersTyped, TaskTyped, task
<1>6. BatchTyped'
  BY <1>1, <1>2 DEF BatchTyped, BatchSlots, Amounts, SlotsOf, task
<1> QED
  BY <1>4, <1>5, <1>6 DEF TypeInv

\* What the indexer counts.
LEMMA CountedType ==
  ASSUME TypeInv, IInv
  PROVE  /\ IsFiniteSet(rows)
         /\ \A nonces : Counted(nonces) \in Nat
<1>1. rows \subseteq [slot : Slots, nonce : Nat, input : Nat, left : Nat]
  BY TypeParts DEF OrdersTyped
<1>2. IsFiniteSet(rows)
  <2> DEFINE f == [r \in rows |-> r.slot]
  <2>1. f \in [rows -> Slots] /\ \A a, b \in rows : f[a] = f[b] => a = b
    BY <1>1, Zenon DEF IInv, RowsOK
  <2>2. f \in Injection(rows, Slots)
    BY <2>1 DEF Injection, IsInjective
  <2> QED
    BY <2>2, SlotsFinite, FS_Injection
<1>3. ASSUME NEW nonces PROVE Counted(nonces) \in Nat
  <2> DEFINE C == {r \in rows : r.left > Margin /\ r.nonce \notin nonces}
             f == [r \in rows |-> r.input]
  <2>1. IsFiniteSet(C) /\ \A r \in C : f[r] \in Nat
    BY <1>1, <1>2, FS_Subset
  <2>2. SumFunctionOnSet(f, C) \in Nat
    <3> HIDE DEF C, f
    <3> QED
      BY <2>1, SumType
  <2> QED
    BY <2>2 DEF Counted
<1> QED
  BY <1>2, <1>3

LEMMA TypeStep == TypeInv /\ IInv /\ [Next]_vars => TypeInv'
<1> SUFFICES ASSUME TypeInv, IInv, [Next]_vars PROVE TypeInv'
  OBVIOUS
<1>1. WorldTyped /\ OrdersTyped /\ LedgersTyped /\ TaskTyped /\ BatchTyped
  BY TypeParts
<1>2. budget \in BudgetType /\ shocks \in 0..MaxShocks /\ calm \in BOOLEAN /\ balance \in Nat
  BY <1>1 DEF TaskTyped, WorldTyped
<1>3. CASE StartTick
  <2>1. /\ NextSide /\ budget' = NoBudget /\ calm' = Agree
        /\ UNCHANGED <<world, rows, ledger, file, filled, shocks>>
    BY <1>3 DEF StartTick
  <2>2. WorldTyped'
    <3>1. calm' \in BOOLEAN
      BY <2>1 DEF Agree
    <3> QED
      BY <1>1, <1>2, <2>1, <3>1, SameWorld
  <2> QED
    BY <1>1, <2>1, <2>2, NoBudgetTypes, NextSideTypes, SameOrders, SameLedgers DEF TypeInv
<1>4. CASE Skip \/ Withhold \/ ReadFails
  <2>1. /\ NextSide /\ UNCHANGED <<world, rows, ledger, file, filled, calm>>
        /\ UNCHANGED shocks \/ Shock
        /\ budget' \in {budget, [budget EXCEPT !.funded = 0]}
    BY <1>4 DEF Skip, Withhold, ReadFails
  <2>2. budget' \in BudgetType
    BY <1>2, <2>1 DEF BudgetType
  <2>3. WorldTyped'
    BY <1>1, <1>2, <2>1, SameWorld, ShockTypes
  <2> QED
    BY <1>1, <2>1, <2>2, <2>3, NextSideTypes, SameOrders, SameLedgers DEF TypeInv
<1>5. ASSUME NEW s \in 1..Sides, Quote(s) PROVE TypeInv'
  <2>1. /\ side = s /\ reusable' = Reusable(s) /\ step' \in {"size", "balance"}
        /\ UNCHANGED <<world, rows, ledger, file, side, budget, batch, answer, named,
                       filled, calm, shocks>>
    BY <1>5 DEF Quote
  <2>2. Reusable(s) \in Nat
    <3> DEFINE S == {slot \in SlotsOf(s) : ledger.left[slot] > Margin}
    <3>1. S \in SUBSET Slots
      BY DEF SlotsOf
    <3>2. IsFiniteSet(S)
      BY <3>1, SlotsFinite, FS_Subset
    <3>3. \A slot \in S : ledger.input[slot] \in Nat
      BY <1>1, <3>1 DEF LedgersTyped, LedgerType, SlotMap
    <3> QED
      BY <3>2, <3>3, SumType DEF Reusable
  <2>3. TaskTyped'
    BY <1>1, <2>1, <2>2 DEF TaskTyped
  <2> QED
    BY <1>1, <1>2, <2>1, <2>3, SameWorld, SameOrders, SameLedgers, SameBatch
       DEF TypeInv, world
<1>6. CASE ReadBalance \/ ReadCommitted
  <2>1. /\ step \in {"balance", "committed"} /\ step' \in {"committed", "size"}
        /\ budget' \in {[budget EXCEPT !.funded = balance],
                        [budget EXCEPT !.known = TRUE, !.committed = Counted({})]}
        /\ UNCHANGED <<world, rows, ledger, file, side, reusable, batch, answer, named,
                       filled, calm, shocks>>
    BY <1>6 DEF ReadBalance, ReadCommitted
  <2>2. Counted({}) \in Nat
    BY CountedType
  <2>3. TaskTyped'
    <3>1. budget' \in BudgetType
      BY <1>2, <2>1, <2>2 DEF BudgetType
    <3> QED
      BY <1>1, <2>1, <3>1 DEF TaskTyped
  <2> QED
    BY <1>1, <1>2, <2>1, <2>3, SameWorld, SameOrders, SameLedgers, SameBatch
       DEF TypeInv, world
<1>7. CASE Transfer
  <2>1. /\ Shock /\ balance' \in 0..MaxBalance /\ calm' = FALSE
        /\ UNCHANGED <<maxed, spent, rows, ledger, file, task, filled>>
    BY <1>7 DEF Transfer
  <2>2. WorldTyped'
    BY <1>1, <2>1, ShockTypes DEF WorldTyped
  <2> QED
    BY <1>1, <2>1, <2>2, SameOrders, SameLedgers, SameTask, SameBatch DEF TypeInv, task
<1>8. CASE UNCHANGED vars
  BY <1>1, <1>2, <1>8, SameWorld, SameOrders, SameLedgers, SameTask, SameBatch
     DEF TypeInv, vars, task, world
<1> QED
  BY <1>3, <1>4, <1>5, <1>6, <1>7, <1>8, HoldTypes, DraftTypes, SubmitTypes, AnsweredTypes,
     FillTypes, SecondTypes, RestartTypes DEF Next, QuoteSide

(***************************************************************************)
(* The budget.  While nothing happens behind the bot's back, the budget is *)
(* at least what the indexer counts, with the batch at hand in the place   *)
(* of the side's own orders; so a batch that fits in it is funded.  This   *)
(* has to hold from one side to the next, through every answer: the ledger *)
(* remembers each order that counts, and what the side's orders give back  *)
(* is counted apart from what the batch leaves standing.                   *)
(***************************************************************************)

\* A ledger remembers the orders the indexer counts.
Matches(orders, l) ==
  /\ \A r \in orders : r.left > Margin =>
       l.left[r.slot] = r.left /\ l.input[r.slot] = r.input
  /\ \A s \in Slots : l.left[s] > Margin =>
       \E r \in orders : r.slot = s /\ r.left = l.left[s]

\* Ledger and budget as the answer at hand leaves them.
Standing == IF answer = "posted" THEN Remembered ELSE ledger
Bound    == IF answer = "posted" THEN BudgetAfter ELSE budget

KnownInv ==
  /\ answer # "none" => step = "answer"
  /\ step \in {"size", "signing", "answer"} => budget.known
  /\ step \in {"balance", "committed"} => ~budget.known

PaidInv ==
  step \in {"signing", "answer"} =>
    /\ available_funded_input(budget, reusable) > 0
    /\ BatchTotal =< available_funded_input(budget, reusable)

Calm ==
  /\ answer # "unfunded"
  /\ Matches(rows, Standing)
  /\ budget.known \/ step = "committed" => budget.funded = balance
  /\ budget.known => Counted({}) =< Bound.committed
  /\ step # "requote" /\ answer # "posted" => reusable = Reusable(side)

FundInv == KnownInv /\ PaidInv /\ (calm => Calm)

\* The orders that count, and what they offer.
Counting(orders, nonces) == {r \in orders : r.left > Margin /\ r.nonce \notin nonces}
Offered(orders) == SumFunctionOnSet([r \in orders |-> r.input], orders)

LEMMA CountedOffered ==
  ASSUME NEW R, IsFiniteSet(R), \A r \in R : r.input \in Nat, NEW nonces
  PROVE  SumFunctionOnSet([r \in R |-> r.input],
                          {r \in R : r.left > Margin /\ r.nonce \notin nonces})
           = Offered(Counting(R, nonces))
<1> DEFINE C == Counting(R, nonces)
           f == [r \in R |-> r.input]
           g == [r \in C |-> r.input]
<1>1. C \in SUBSET R
  BY DEF Counting
<1>2. IsFiniteSet(C)
  BY <1>1, FS_Subset
<1>3. \A r \in C : f[r] \in Nat /\ f[r] = g[r]
  BY <1>1
<1>4. SumFunctionOnSet(f, C) = SumFunctionOnSet(g, C)
  <2> HIDE DEF C, f, g
  <2> QED
    BY <1>2, <1>3, SumSame
<1> QED
  BY <1>4 DEF Counting, Offered

\* Orders that match others, each one of its own, offer no more.
LEMMA OfferedMatched ==
  ASSUME NEW S, IsFiniteSet(S), NEW T, IsFiniteSet(T), NEW h \in [S -> T],
         \A x, y \in S : h[x] = h[y] => x = y,
         \A x \in S : x.input \in Nat, \A x \in T : x.input \in Nat,
         \A x \in S : x.input =< h[x].input
  PROVE  Offered(S) =< Offered(T)
<1> DEFINE f == [r \in S |-> r.input]
           g == [r \in T |-> r.input]
<1>1. \A x \in S : f[x] \in Nat /\ f[x] =< g[h[x]]
  OBVIOUS
<1>2. \A x \in T : g[x] \in Nat
  OBVIOUS
<1> HIDE DEF f, g
<1>3. SumFunctionOnSet(f, S) =< SumFunctionOnSet(g, T)
  BY <1>1, <1>2, SumMatched
<1> QED
  BY <1>3 DEF Offered, f, g

\* Orders without one in common offer what each of the two sets does.
LEMMA OfferedParts ==
  ASSUME NEW R, IsFiniteSet(R), NEW S, IsFiniteSet(S), R \cap S = {},
         \A x \in R \cup S : x.input \in Nat
  PROVE  /\ Offered(R) \in Nat /\ Offered(S) \in Nat
         /\ Offered(R \cup S) = Offered(R) + Offered(S)
<1> DEFINE f == [r \in R \cup S |-> r.input]
           g == [r \in R |-> r.input]
           h == [r \in S |-> r.input]
<1>1. /\ \A x \in R \cup S : f[x] \in Nat
      /\ \A x \in R : g[x] \in Nat /\ g[x] = f[x]
      /\ \A x \in S : h[x] \in Nat /\ h[x] = f[x]
  OBVIOUS
<1> HIDE DEF f, g, h
<1>2. SumFunctionOnSet(f, R \cup S) = SumFunctionOnSet(f, R) + SumFunctionOnSet(f, S)
  BY <1>1, SumParts
<1>3. SumFunctionOnSet(g, R) = SumFunctionOnSet(f, R)
  BY <1>1, SumSame
<1>4. SumFunctionOnSet(h, S) = SumFunctionOnSet(f, S)
  BY <1>1, SumSame
<1>5. SumFunctionOnSet(g, R) \in Nat /\ SumFunctionOnSet(h, S) \in Nat
  BY <1>1, SumType
<1> QED
  BY <1>2, <1>3, <1>4, <1>5 DEF Offered, f, g, h

LEMMA CountedIs ==
  ASSUME TypeInv, IInv
  PROVE  \A nonces : Counted(nonces) = Offered(Counting(rows, nonces))
<1>1. IsFiniteSet(rows) /\ \A r \in rows : r.input \in Nat
  BY CountedType, TypeParts DEF OrdersTyped
<1> QED
  BY <1>1, CountedOffered DEF Counted

\* What ledger and indexer agree on is remembered.
LEMMA AgreeMatches ==
  ASSUME TypeInv, Agree
  PROVE  Matches(rows, ledger)
<1>1. \A r \in rows : r.slot \in Slots
  BY TypeParts DEF OrdersTyped
<1>2. ASSUME NEW r \in rows, r.left > Margin
      PROVE  ledger.left[r.slot] = r.left /\ ledger.input[r.slot] = r.input
  <2>1. <<r.slot, r.nonce, r.input, r.left>> \in
          {<<slot, ledger.nonce[slot], ledger.input[slot], ledger.left[slot]>> :
             slot \in {slot \in Slots : ledger.left[slot] > Margin}}
    BY <1>2 DEF Agree
  <2> QED
    BY <2>1
<1>3. ASSUME NEW s \in Slots, ledger.left[s] > Margin
      PROVE  \E r \in rows : r.slot = s /\ r.left = ledger.left[s]
  <2>1. <<s, ledger.nonce[s], ledger.input[s], ledger.left[s]>> \in
          {<<r.slot, r.nonce, r.input, r.left>> : r \in {r \in rows : r.left > Margin}}
    BY <1>3 DEF Agree
  <2> QED
    BY <2>1
<1> QED
  BY <1>2, <1>3 DEF Matches

\* What the side's orders give back is counted, apart from what the batch leaves.
LEMMA GivenBack ==
  ASSUME TypeInv, IInv, Matches(rows, ledger), NoneLeft, step = "signing"
  PROVE  /\ Counted(BatchNonces) + Reusable(side) =< Counted({})
         /\ Counted(BatchNonces) \in Nat /\ Reusable(side) \in Nat /\ Counted({}) \in Nat
<1> DEFINE All  == Counting(rows, {})
           Kept == Counting(rows, BatchNonces)
           Own  == All \ Kept
           Rest == {slot \in SlotsOf(side) : ledger.left[slot] > Margin}
<1>1. /\ IsFiniteSet(rows) /\ \A r \in rows : r.slot \in Slots /\ r.input \in Nat /\ r.left \in Nat
      /\ \A s \in Slots : ledger.input[s] \in Nat
  BY CountedType, TypeParts DEF OrdersTyped, LedgersTyped, LedgerType, SlotMap
<1>2. All \in SUBSET rows /\ Kept \in SUBSET All /\ Own \in SUBSET All /\ All = Own \cup Kept
  BY DEF Counting
<1>3. IsFiniteSet(All) /\ IsFiniteSet(Kept) /\ IsFiniteSet(Own)
  BY <1>1, <1>2, FS_Subset
<1>4. Counted({}) = Offered(All) /\ Counted(BatchNonces) = Offered(Kept)
  BY CountedIs
<1>5. IsFiniteSet(Rest) /\ \A s \in Rest : s \in Slots /\ ledger.input[s] \in Nat
  <2>1. Rest \in SUBSET Slots
    BY DEF SlotsOf
  <2> QED
    BY <1>1, <2>1, SlotsFinite, FS_Subset
<1>6. ASSUME NEW s \in Rest
      PROVE  \E r \in Own : r.slot = s /\ r.input = ledger.input[s]
  <2>1. s \in Slots /\ s[1] = side /\ ledger.left[s] > Margin
    BY DEF SlotsOf
  <2>2. PICK r \in rows : r.slot = s /\ r.left = ledger.left[s]
    BY <2>1 DEF Matches
  <2>3. r.input = ledger.input[s] /\ r.left > Margin
    BY <2>1, <2>2 DEF Matches
  <2>4. s \in BatchSlots
    BY <2>1, <2>2, <2>3 DEF NoneLeft
  <2>5. r.nonce = ledger.nonce[s]
    BY <2>2 DEF IInv, RowsOK
  <2>6. r.nonce \in BatchNonces
    BY <2>4, <2>5 DEF BatchNonces
  <2>7. r \in Own
    BY <2>3, <2>6 DEF Counting
  <2> QED
    BY <2>2, <2>3, <2>7
<1> DEFINE h == [s \in Rest |-> CHOOSE r \in Own : r.slot = s /\ r.input = ledger.input[s]]
           f == [r \in Own |-> r.input]
<1>7. \A s \in Rest : h[s] \in Own /\ h[s].slot = s /\ h[s].input = ledger.input[s]
  <2> HIDE DEF Rest, Own
  <2> QED
    BY <1>6
<1>8. \A r \in Own : f[r] \in Nat /\ f[r] = r.input /\ r.input \in Nat
  BY <1>1, <1>2
<1>9. h \in [Rest -> Own]
  <2> HIDE DEF Rest, Own
  <2>1. h = [s \in Rest |-> h[s]]
    OBVIOUS
  <2> HIDE DEF h
  <2> QED
    BY <1>7, <2>1
<1> HIDE DEF All, Kept, Own, Rest, h
<1>10. SumFunctionOnSet(ledger.input, Rest) =< SumFunctionOnSet(f, Own)
  <2> HIDE DEF f
  <2>1. \A x, y \in Rest : h[x] = h[y] => x = y
    BY <1>7
  <2>2. \A s \in Rest : ledger.input[s] =< f[h[s]]
    BY <1>5, <1>7, <1>8
  <2>3. \A s \in Rest : ledger.input[s] \in Nat
    BY <1>5
  <2>4. \A r \in Own : f[r] \in Nat
    BY <1>8
  <2> QED
    BY <1>3, <1>5, <1>9, <2>1, <2>2, <2>3, <2>4, SumMatched
<1>11. /\ Reusable(side) = SumFunctionOnSet(ledger.input, Rest) /\ Reusable(side) \in Nat
       /\ Offered(Own) = SumFunctionOnSet(f, Own)
  BY <1>5, SumType DEF Reusable, Offered, Rest
<1>12. Offered(Own) \in Nat /\ Offered(Kept) \in Nat /\ Offered(All) = Offered(Own) + Offered(Kept)
  <2>1. Own \cap Kept = {} /\ \A r \in Own \cup Kept : r.input \in Nat
    <3>1. Own \cap Kept = {}
      BY DEF Own
    <3> QED
      BY <1>1, <1>2, <3>1
  <2> QED
    BY <1>2, <1>3, <2>1, OfferedParts
<1> QED
  BY <1>4, <1>10, <1>11, <1>12

\* So the batch is funded on top of the orders it leaves, and the budget that
\* takes it in the place of the side's orders covers both.
LEMMA BatchFunded ==
  ASSUME TypeInv, IInv, FundInv, calm, NoneLeft, step = "signing"
  PROVE  /\ ~Unfunded
         /\ Counted(BatchNonces) \in Nat /\ BatchTotal \in Nat
         /\ Counted(BatchNonces) + BatchTotal =< BudgetAfter.committed
<1>1. answer = "none" /\ budget.known /\ Calm
  BY DEF FundInv, KnownInv
<1>2. /\ Matches(rows, ledger) /\ budget.funded = balance /\ Counted({}) =< budget.committed
      /\ reusable = Reusable(side)
  BY <1>1 DEF Calm, Standing, Bound
<1>3. /\ Counted(BatchNonces) + reusable =< Counted({})
      /\ Counted(BatchNonces) \in Nat /\ reusable \in Nat /\ Counted({}) \in Nat
  BY <1>2, GivenBack
<1>4. /\ budget \in BudgetType /\ budget.committed \in Nat /\ budget.funded \in Nat
      /\ BatchTotal \in Nat
  BY TypeParts, BatchTotalType DEF TaskTyped, BudgetType
<1> DEFINE available == available_funded_input(budget, reusable)
<1>5. available > 0 /\ BatchTotal =< available
  BY DEF FundInv, PaidInv
<1>6. available \in Nat /\ available =< budget.funded + reusable - budget.committed
  BY <1>3, <1>4, <1>5, Available
<1> HIDE DEF available
<1>7. BatchTotal + Counted(BatchNonces) =< balance
  BY <1>2, <1>3, <1>4, <1>5, <1>6
<1>8. BudgetAfter.committed = IF BatchTotal = reusable THEN budget.committed
                              ELSE Monus(budget.committed, reusable) + BatchTotal
  BY <1>4 DEF BudgetAfter, Replaced, BudgetType
<1>9. Monus(budget.committed, reusable) = budget.committed - reusable
  BY <1>2, <1>3, <1>4 DEF Monus, Greatest
<1>10. Counted(BatchNonces) + BatchTotal =< BudgetAfter.committed
  BY <1>2, <1>3, <1>4, <1>8, <1>9
<1>11. balance \in Nat
  BY TypeParts DEF WorldTyped
<1> QED
  BY <1>3, <1>4, <1>7, <1>10, <1>11 DEF Unfunded

\* The indexer takes the batch: the orders it holds then are the ones it kept
\* and the batch's.
LEMMA AcceptedCounted ==
  ASSUME TypeInv, IInv, step = "signing"
  PROVE  /\ Offered(Counting(Accepted, {})) =< Counted(BatchNonces) + BatchTotal
         /\ Offered(Counting(Accepted, {})) \in Nat
         /\ IsFiniteSet(Accepted) /\ \A r \in Accepted : r.input \in Nat
<1> DEFINE Order(slot) == [slot |-> slot, nonce |-> ledger.nonce[slot],
                           input |-> batch.input[slot], left |-> batch.left]
           Placed == {Order(slot) : slot \in BatchSlots}
           Kept == Counting(rows, BatchNonces)
           New == {r \in Placed : r.left > Margin}
<1>1. /\ IsFiniteSet(rows) /\ \A r \in rows : r.input \in Nat
      /\ IsFiniteSet(BatchSlots) /\ BatchTotal \in Nat
      /\ \A slot \in BatchSlots : batch.input[slot] \in Nat
  BY CountedType, BatchTotalType, TypeParts DEF OrdersTyped, Amounts
<1>2. IsFiniteSet(Placed)
  <2> DEFINE f == [slot \in BatchSlots |-> Order(slot)]
  <2>1. f \in Surjection(BatchSlots, Placed)
    <3> HIDE DEF Order
    <3> QED
      BY DEF Surjection
  <2> HIDE DEF f, Placed
  <2> QED
    BY <1>1, <2>1, FS_Surjection
<1>3. \A r \in Placed : /\ r.slot \in BatchSlots /\ r = Order(r.slot)
                        /\ r.input = batch.input[r.slot] /\ r.nonce \in BatchNonces
  BY DEF BatchNonces
<1>4. Accepted = {r \in rows : r.nonce \notin BatchNonces} \cup Placed
  BY DEF Accepted
<1> HIDE DEF Placed, Order
<1>5. IsFiniteSet(Accepted) /\ \A r \in Accepted : r.input \in Nat
  <2>1. IsFiniteSet({r \in rows : r.nonce \notin BatchNonces})
    BY <1>1, FS_Subset
  <2> QED
    BY <1>1, <1>2, <1>3, <1>4, <2>1, FS_Union
<1>6. /\ Counting(Accepted, {}) = Kept \cup New /\ Kept \cap New = {}
      /\ Kept \in SUBSET rows /\ New \in SUBSET Placed
  BY <1>3, <1>4 DEF Counting
<1>7. IsFiniteSet(Kept) /\ IsFiniteSet(New) /\ \A r \in Kept \cup New : r.input \in Nat
  BY <1>1, <1>2, <1>3, <1>6, FS_Subset
<1>8. /\ Offered(Kept) \in Nat /\ Offered(New) \in Nat
      /\ Offered(Counting(Accepted, {})) = Offered(Kept) + Offered(New)
  <2> HIDE DEF Kept, New
  <2> QED
    BY <1>6, <1>7, OfferedParts
<1>9. Offered(New) =< BatchTotal
  <2> DEFINE f == [r \in New |-> r.input]
             h == [r \in New |-> r.slot]
  <2>1. \A r \in New : /\ f[r] \in Nat /\ h[r] = r.slot /\ h[r] \in BatchSlots
                       /\ f[r] = batch.input[h[r]] /\ r = Order(h[r])
    BY <1>3, <1>6, <1>7
  <2>2. h \in [New -> BatchSlots]
    BY <2>1
  <2> HIDE DEF f, h, New
  <2>3. \A x, y \in New : h[x] = h[y] => x = y
    BY <2>1
  <2>4. \A x \in New : f[x] =< batch.input[h[x]]
    BY <2>1
  <2>5. SumFunctionOnSet(f, New) =< SumFunctionOnSet(batch.input, BatchSlots)
    BY <1>1, <1>7, <2>1, <2>2, <2>3, <2>4, SumMatched
  <2> QED
    BY <2>5 DEF Offered, BatchTotal, f
<1>10. Counted(BatchNonces) = Offered(Kept)
  BY CountedIs
<1> HIDE DEF Kept, New
<1> QED
  BY <1>1, <1>5, <1>8, <1>9, <1>10

LEMMA AcceptedMatches ==
  ASSUME TypeInv, IInv, step = "signing", NoneLeft, Matches(rows, ledger)
  PROVE  Matches(Accepted, Remembered)
<1> DEFINE Placed == {[slot |-> slot, nonce |-> ledger.nonce[slot],
                       input |-> batch.input[slot], left |-> batch.left] :
                        slot \in BatchSlots}
<1>1. Accepted = {r \in rows : r.nonce \notin BatchNonces} \cup Placed
  BY DEF Accepted
<1>2. /\ \A r \in Placed : /\ r.slot \in BatchSlots /\ r.input = batch.input[r.slot]
                           /\ r.left = batch.left
      /\ \A s \in BatchSlots : \E r \in Placed : r.slot = s /\ r.left = batch.left
  <2> DEFINE Order(slot) == [slot |-> slot, nonce |-> ledger.nonce[slot],
                             input |-> batch.input[slot], left |-> batch.left]
  <2>1. \A s \in BatchSlots : /\ Order(s) \in Placed /\ Order(s).slot = s
                              /\ Order(s).left = batch.left
    OBVIOUS
  <2>2. \A r \in Placed : \E s \in BatchSlots : r = Order(s)
    OBVIOUS
  <2>3. \A r \in Placed : /\ r.slot \in BatchSlots /\ r.input = batch.input[r.slot]
                          /\ r.left = batch.left
    BY <2>2
  <2> HIDE DEF Order, Placed
  <2> QED
    BY <2>1, <2>3
<1> HIDE DEF Placed
<1>3. /\ BatchSlots \subseteq SlotsOf(side) /\ SlotsOf(side) \subseteq Slots
      /\ \A s \in Slots : s \in SlotsOf(side) <=> s[1] = side
      /\ \A r \in rows : r.slot \in Slots /\ r.nonce = ledger.nonce[r.slot]
      /\ \A s \in BatchSlots : ledger.nonce[s] # 0
      /\ \A s, t \in Slots : ledger.nonce[s] = ledger.nonce[t] /\ ledger.nonce[s] # 0 => s = t
  <2>1. BatchTyped /\ OrdersTyped
    BY TypeParts
  <2>2. \A r \in rows : r.nonce = ledger.nonce[r.slot]
    BY DEF IInv, RowsOK
  <2>3. /\ \A s \in BatchSlots : ledger.nonce[s] # 0
        /\ \A s, t \in Slots : ledger.nonce[s] = ledger.nonce[t] /\ ledger.nonce[s] # 0 => s = t
    BY DEF IInv, BatchOK, Ledgers, LedgerOK
  <2> QED
    BY <2>1, <2>2, <2>3 DEF BatchTyped, OrdersTyped, SlotsOf
<1>4. \A slot \in Slots :
        /\ slot \in BatchSlots =>
             Remembered.input[slot] = batch.input[slot] /\ Remembered.left[slot] = batch.left
        /\ slot \in SlotsOf(side) \ BatchSlots =>
             Remembered.input[slot] = 0 /\ Remembered.left[slot] = 0
        /\ slot \notin SlotsOf(side) =>
             /\ Remembered.input[slot] = ledger.input[slot]
             /\ Remembered.left[slot] = ledger.left[slot]
  BY RememberedTypes
<1>5. \A r \in rows : r.nonce \notin BatchNonces => r.slot \notin BatchSlots
  BY <1>3 DEF BatchNonces
<1>6. ASSUME NEW r \in Accepted, r.left > Margin
      PROVE  Remembered.left[r.slot] = r.left /\ Remembered.input[r.slot] = r.input
  <2>1. CASE r \in Placed
    BY <1>2, <1>3, <1>4, <2>1
  <2>2. CASE r \in rows /\ r.nonce \notin BatchNonces
    <3>1. r.slot \in Slots /\ r.slot \notin SlotsOf(side)
      BY <1>3, <1>5, <1>6, <2>2 DEF NoneLeft
    <3>2. ledger.left[r.slot] = r.left /\ ledger.input[r.slot] = r.input
      BY <1>6, <2>2 DEF Matches
    <3> QED
      BY <1>4, <3>1, <3>2
  <2> QED
    BY <1>1, <2>1, <2>2
<1>7. ASSUME NEW s \in Slots, Remembered.left[s] > Margin
      PROVE  \E r \in Accepted : r.slot = s /\ r.left = Remembered.left[s]
  <2>1. CASE s \in BatchSlots
    BY <1>1, <1>2, <1>4, <2>1
  <2>2. CASE s \in SlotsOf(side) \ BatchSlots
    <3>1. Remembered.left[s] = 0 /\ Margin \in Nat
      BY <1>4, <2>2, ConstantsTyped
    <3> QED
      BY <1>7, <3>1
  <2>3. CASE s \notin SlotsOf(side)
    <3>1. Remembered.left[s] = ledger.left[s]
      BY <1>4, <2>3
    <3>2. PICK r \in rows : r.slot = s /\ r.left = ledger.left[s]
      BY <1>7, <3>1 DEF Matches
    <3>3. r.nonce \notin BatchNonces
      <4>1. SUFFICES ASSUME NEW b \in BatchSlots, r.nonce = ledger.nonce[b] PROVE FALSE
        BY DEF BatchNonces
      <4>2. ledger.nonce[s] = ledger.nonce[b] /\ ledger.nonce[b] # 0 /\ b \in Slots
              /\ b \in SlotsOf(side)
        BY <1>3, <3>2, <4>1
      <4>3. s = b
        BY <1>3, <4>2
      <4> QED
        BY <2>3, <4>2, <4>3
    <3> QED
      BY <1>1, <3>1, <3>2, <3>3
  <2> QED
    BY <1>3, <2>1, <2>2, <2>3
<1> QED
  BY <1>6, <1>7 DEF Matches

----------------------------------------------------------------------------

\* The end of a side.
LEMMA OverFund ==
  ASSUME Over,
         calm' => /\ Matches(rows', ledger')
                  /\ budget'.known => /\ budget'.funded = balance'
                                      /\ Counted({})' =< budget'.committed
  PROVE  FundInv'
<1>1. step' = "requote" /\ answer' = "none"
  BY DEF Over
<1>2. KnownInv' /\ PaidInv'
  BY <1>1 DEF KnownInv, PaidInv
<1>3. ASSUME calm' PROVE Calm'
  BY <1>1, <1>3 DEF Calm, Standing, Bound
<1> QED
  BY <1>2, <1>3 DEF FundInv

\* Outside of an answer, what is remembered is the ledger itself.
LEMMA CalmLedger ==
  ASSUME FundInv, calm, step # "answer"
  PROVE  /\ answer = "none" /\ Matches(rows, ledger)
         /\ budget.known \/ step = "committed" => budget.funded = balance
         /\ budget.known => Counted({}) =< budget.committed
         /\ step # "requote" => reusable = Reusable(side)
BY DEF FundInv, KnownInv, Calm, Standing, Bound

LEMMA InitFund == Init => FundInv
<1> SUFFICES ASSUME Init PROVE FundInv
  OBVIOUS
<1>1. rows = {} /\ answer = "none" /\ step = "requote" /\ budget.known = FALSE
        /\ ledger = Fresh
  BY DEF Init, NoBudget
<1>2. Matches({}, Fresh)
  <2>1. \A s \in Slots : ~(Fresh.left[s] > Margin)
    BY ConstantsTyped DEF Fresh
  <2> QED
    BY <2>1 DEF Matches
<1>3. Calm
  BY <1>1, <1>2 DEF Calm, Standing
<1> QED
  BY <1>1, <1>3 DEF FundInv, KnownInv, PaidInv

\* A side that ends before it has drafted anything, or whose batch is withheld.
LEMMA IdleFund ==
  ASSUME TypeInv, FundInv, StartTick \/ Skip \/ Withhold \/ ReadFails
  PROVE  FundInv'
<1>1. Over /\ UNCHANGED <<world, rows, ledger>>
  BY DEF StartTick, Skip, Withhold, ReadFails, NextSide
<1>2. Counted({})' = Counted({})
  BY <1>1 DEF Counted
<1>3. CASE StartTick
  <2>1. budget'.known = FALSE /\ calm' = Agree
    BY <1>3 DEF StartTick, NoBudget
  <2> QED
    BY <1>1, <2>1, AgreeMatches, OverFund
<1>4. CASE Skip \/ Withhold
  <2>1. step # "answer" /\ budget' = budget /\ calm' = calm
    BY <1>4 DEF Skip, Withhold
  <2> QED
    BY <1>1, <1>2, <2>1, CalmLedger, OverFund DEF world
<1>5. CASE ReadFails
  <2>1. step # "answer" /\ calm' = calm /\ ~budget.known
    BY <1>5 DEF ReadFails, FundInv, KnownInv
  <2>2. budget'.known = budget.known
    BY <1>5, TypeParts DEF ReadFails, TaskTyped, BudgetType
  <2> QED
    BY <1>1, <2>1, <2>2, CalmLedger, OverFund
<1> QED
  BY <1>3, <1>4, <1>5

LEMMA QuoteFund ==
  ASSUME TypeInv, FundInv, NEW s \in 1..Sides, Quote(s)
  PROVE  FundInv'
<1>1. /\ side = s /\ step = "requote" /\ reusable' = Reusable(s)
      /\ step' = IF budget.known THEN "size" ELSE "balance"
      /\ UNCHANGED <<world, rows, ledger, side, budget, batch, answer, calm>>
  BY DEF Quote
<1>2. answer = "none" /\ answer' = "none"
  BY <1>1 DEF FundInv, KnownInv
<1>3. KnownInv' /\ PaidInv'
  BY <1>1, <1>2 DEF KnownInv, PaidInv
<1>4. Counted({})' = Counted({}) /\ (Reusable(side))' = Reusable(side)
  BY <1>1 DEF Counted, Reusable, SlotsOf
<1>5. ASSUME calm' PROVE Calm'
  <2>1. /\ Matches(rows, ledger)
        /\ budget.known => budget.funded = balance
        /\ budget.known => Counted({}) =< budget.committed
    BY <1>1, <1>5, CalmLedger
  <2>2. Matches(rows', ledger')
    BY <1>1, <2>1
  <2> QED
    BY <1>1, <1>2, <1>4, <2>1, <2>2 DEF Calm, Standing, Bound, world
<1> QED
  BY <1>3, <1>5 DEF FundInv

LEMMA ReadFund ==
  ASSUME TypeInv, IInv, FundInv, ReadBalance \/ ReadCommitted
  PROVE  FundInv'
<1>1. UNCHANGED <<world, rows, ledger, side, reusable, batch, answer, calm>>
  BY DEF ReadBalance, ReadCommitted
<1>2. /\ step \in {"balance", "committed"} /\ answer = "none" /\ answer' = "none"
      /\ ~budget.known
  BY <1>1 DEF ReadBalance, ReadCommitted, FundInv, KnownInv
<1>3. Counted({})' = Counted({}) /\ (Reusable(side))' = Reusable(side)
        /\ Counted({}) \in Nat
  <2>1. Counted({})' = Counted({}) /\ (Reusable(side))' = Reusable(side)
    BY <1>1 DEF Counted, Reusable, SlotsOf
  <2> QED
    BY <2>1, CountedType
<1>4. budget \in BudgetType
  BY TypeParts DEF TaskTyped
<1>5. CASE ReadBalance
  <2>1. step' = "committed" /\ budget'.known = budget.known /\ budget'.funded = balance
    BY <1>4, <1>5 DEF ReadBalance, BudgetType
  <2>2. KnownInv' /\ PaidInv'
    BY <1>2, <2>1 DEF KnownInv, PaidInv
  <2>3. ASSUME calm' PROVE Calm'
    <3>1. Matches(rows, ledger) /\ reusable = Reusable(side)
      BY <1>1, <1>2, <2>3, CalmLedger
    <3>2. Matches(rows', ledger')
      BY <1>1, <3>1
    <3> QED
      BY <1>1, <1>2, <1>3, <2>1, <3>1, <3>2 DEF Calm, Standing, Bound, world
  <2> QED
    BY <2>2, <2>3 DEF FundInv
<1>6. CASE ReadCommitted
  <2>1. /\ step = "committed" /\ step' = "size" /\ budget'.known = TRUE
        /\ budget'.funded = budget.funded /\ budget'.committed = Counted({})
    BY <1>4, <1>6 DEF ReadCommitted, BudgetType
  <2>2. KnownInv' /\ PaidInv'
    BY <1>2, <2>1 DEF KnownInv, PaidInv
  <2>3. ASSUME calm' PROVE Calm'
    <3>1. Matches(rows, ledger) /\ reusable = Reusable(side) /\ budget.funded = balance
      BY <1>1, <1>2, <2>1, <2>3, CalmLedger
    <3>2. Matches(rows', ledger')
      BY <1>1, <3>1
    <3> QED
      BY <1>1, <1>2, <1>3, <2>1, <3>1, <3>2 DEF Calm, Standing, Bound, world
  <2> QED
    BY <2>2, <2>3 DEF FundInv
<1> QED
  BY <1>5, <1>6

LEMMA TakenBudget ==
  ASSUME TypeInv
  PROVE  /\ Taken.known = budget.known /\ Taken.funded = budget.funded
         /\ Taken.committed = budget.committed
         /\ available_funded_input(Taken, reusable) = available_funded_input(budget, reusable)
<1>1. budget \in BudgetType
  BY TypeParts DEF TaskTyped
<1>2. /\ Taken.known = budget.known /\ Taken.funded = budget.funded
      /\ Taken.committed = budget.committed
  BY <1>1 DEF Taken, BudgetType
<1> QED
  BY <1>2 DEF available_funded_input

LEMMA HoldFund ==
  ASSUME TypeInv, IInv, FundInv, Hold \/ NotSaved
  PROVE  FundInv'
<1>1. /\ step = "size" /\ Over /\ ledger' = Minted(Drafted) /\ budget' = Taken
      /\ UNCHANGED <<world, rows, calm>>
  BY DEF Hold, NotSaved, NextSide
<1>2. Counted({})' = Counted({})
  BY <1>1 DEF Counted
<1>3. ASSUME calm'
      PROVE  /\ Matches(rows', ledger')
             /\ budget'.known => /\ budget'.funded = balance'
                                 /\ Counted({})' =< budget'.committed
  <2>1. /\ Matches(rows, ledger)
        /\ budget.known => budget.funded = balance
        /\ budget.known => Counted({}) =< budget.committed
    BY <1>1, <1>3, CalmLedger
  <2>2. Matches(rows, Minted(Drafted))
    <3>1. /\ Minted(Drafted).input = ledger.input
          /\ Minted(Drafted).left = ledger.left
      BY MintedTypes
    <3> QED
      BY <2>1, <3>1 DEF Matches
  <2>3. Matches(rows', ledger')
    BY <1>1, <2>2, Zenon
  <2>4. /\ budget'.known = budget.known /\ budget'.funded = budget.funded
        /\ budget'.committed = budget.committed /\ balance' = balance
    BY <1>1, TakenBudget DEF world
  <2> QED
    BY <1>2, <2>1, <2>3, <2>4
<1> QED
  BY <1>1, <1>3, OverFund

LEMMA DraftFund ==
  ASSUME TypeInv, IInv, FundInv, Draft
  PROVE  FundInv'
<1>1. /\ step = "size" /\ step' = "signing" /\ Sizes # <<>>
      /\ ledger' = Minted(Drafted) /\ budget' = Taken
      /\ batch' = [input |-> [slot \in Drafted |-> Sizes[slot[2] + 1]], left |-> Ttl]
      /\ UNCHANGED <<world, rows, side, reusable, answer, calm>>
  BY DEF Draft
<1>2. answer = "none" /\ answer' = "none" /\ budget.known
  BY <1>1 DEF FundInv, KnownInv
<1>3. KnownInv'
  BY <1>1, <1>2, TakenBudget DEF KnownInv
<1>4. PaidInv'
  <2>1. BatchTotal' = SumFunctionOnSet([slot \in Drafted |-> Sizes[slot[2] + 1]], Drafted)
    BY <1>1 DEF BatchTotal, BatchSlots
  <2>2. available_funded_input(budget', reusable') = available_funded_input(budget, reusable)
    BY <1>1, TakenBudget
  <2>3. /\ available_funded_input(budget, reusable) > 0
        /\ SumFunctionOnSet([slot \in Drafted |-> Sizes[slot[2] + 1]], Drafted)
             =< available_funded_input(budget, reusable)
    BY <1>1, DraftsFit, TypeParts
  <2> QED
    BY <2>1, <2>2, <2>3 DEF PaidInv
<1>5. ASSUME calm' PROVE Calm'
  <2>1. /\ Matches(rows, ledger)
        /\ budget.known => budget.funded = balance
        /\ budget.known => Counted({}) =< budget.committed
        /\ reusable = Reusable(side)
    BY <1>1, <1>5, CalmLedger
  <2>2. Matches(rows', ledger')
    <3>1. /\ Minted(Drafted).input = ledger.input
          /\ Minted(Drafted).left = ledger.left
      BY MintedTypes
    <3>2. Matches(rows, Minted(Drafted))
      BY <2>1, <3>1 DEF Matches
    <3> QED
      BY <1>1, <3>2, Zenon
  <2>3. ledger'.input = ledger.input /\ ledger'.left = ledger.left
    BY <1>1, MintedTypes
  <2>4. Counted({})' = Counted({}) /\ (Reusable(side))' = Reusable(side)
    BY <1>1, <2>3 DEF Counted, Reusable, SlotsOf
  <2>5. /\ budget'.known = budget.known /\ budget'.funded = budget.funded
        /\ budget'.committed = budget.committed /\ balance' = balance
    BY <1>1, TakenBudget DEF world
  <2>6. reusable' = reusable
    BY <1>1
  <2> QED
    BY <1>2, <2>1, <2>2, <2>4, <2>5, <2>6 DEF Calm, Standing, Bound
<1> QED
  BY <1>3, <1>4, <1>5 DEF FundInv

LEMMA SubmitFund ==
  ASSUME TypeInv, IInv, FundInv, Submit
  PROVE  FundInv'
<1>1. /\ step = "signing" /\ step' = "answer"
      /\ UNCHANGED <<world, ledger, side, budget, reusable, batch>>
      /\ calm' = (calm /\ NoneLeft /\ (rows' # rows => answer' = "posted"))
      /\ answer' = "unfunded" => Unfunded
      /\ answer' = "posted" => rows' = Accepted
  BY DEF Submit
<1>2. budget.known
  BY <1>1 DEF FundInv, KnownInv
<1>3. BatchTotal' = BatchTotal /\ BatchSlots' = BatchSlots
  BY <1>1 DEF BatchTotal, BatchSlots
<1>4. KnownInv' /\ PaidInv'
  BY <1>1, <1>2, <1>3 DEF KnownInv, FundInv, PaidInv
<1>5. ASSUME calm' PROVE Calm'
  <2>1. calm /\ NoneLeft /\ (rows' # rows => answer' = "posted")
    BY <1>1, <1>5
  <2>2. /\ Matches(rows, ledger) /\ budget.funded = balance
        /\ Counted({}) =< budget.committed /\ reusable = Reusable(side)
    BY <1>1, <1>2, <2>1, CalmLedger
  <2>3. answer' # "unfunded" /\ BudgetAfter' = BudgetAfter
    BY <1>1, <1>3, <2>1, BatchFunded DEF BudgetAfter
  <2>4. (Reusable(side))' = Reusable(side)
    BY <1>1 DEF Reusable, SlotsOf
  <2>5. CASE answer' = "posted"
    <3>1. Remembered' = Remembered
      BY <1>1, <1>3 DEF Remembered, SlotsOf
    <3>2. Matches(rows', Remembered')
      BY <1>1, <2>1, <2>2, <2>5, <3>1, AcceptedMatches
    <3>3. Counted({})' =< BudgetAfter'.committed
      <4>1. /\ Offered(Counting(Accepted, {})) =< Counted(BatchNonces) + BatchTotal
            /\ Offered(Counting(Accepted, {})) \in Nat
            /\ IsFiniteSet(Accepted) /\ \A r \in Accepted : r.input \in Nat
        BY <1>1, AcceptedCounted
      <4>2. Counted({})' = Offered(Counting(Accepted, {}))
        BY <1>1, <2>5, <4>1, CountedOffered DEF Counted
      <4>3. /\ Counted(BatchNonces) \in Nat /\ BatchTotal \in Nat
            /\ Counted(BatchNonces) + BatchTotal =< BudgetAfter.committed
        BY <1>1, <2>1, BatchFunded
      <4>4. BudgetAfter.committed \in Nat
        <5>1. budget \in BudgetType /\ reusable \in Nat
          BY TypeParts DEF TaskTyped
        <5> QED
          BY <4>3, <5>1, ReplacedTypes DEF BudgetAfter, BudgetType
      <4> QED
        BY <2>3, <4>1, <4>2, <4>3, <4>4
    <3> QED
      BY <1>1, <2>2, <2>3, <2>5, <3>2, <3>3 DEF Calm, Standing, Bound, world
  <2>6. CASE answer' # "posted"
    <3>1. rows' = rows
      BY <2>1, <2>6
    <3>2. Counted({})' = Counted({}) /\ Matches(rows', ledger')
      BY <1>1, <2>2, <3>1 DEF Counted
    <3> QED
      BY <1>1, <2>2, <2>3, <2>4, <2>6, <3>2 DEF Calm, Standing, Bound, world
  <2> QED
    BY <2>5, <2>6
<1> QED
  BY <1>4, <1>5 DEF FundInv

LEMMA AnsweredFund ==
  ASSUME TypeInv, IInv, FundInv, Answered
  PROVE  FundInv'
<1>1. /\ step = "answer" /\ Over /\ UNCHANGED <<world, rows, calm>>
      /\ answer = "posted" => ledger' = Remembered /\ budget' = BudgetAfter
      /\ answer = "spent" => ledger' = Forgotten /\ budget' = budget
      /\ answer \notin {"posted", "spent"} => ledger' = ledger /\ budget' = budget
  BY DEF Answered, NextSide
<1>2. Counted({})' = Counted({}) /\ budget.known
  BY <1>1 DEF Counted, FundInv, KnownInv
<1>3. SUFFICES ASSUME calm'
               PROVE  /\ Matches(rows, ledger')
                      /\ budget'.funded = balance /\ Counted({}) =< budget'.committed
  BY <1>1, <1>2, OverFund DEF world
<1>4. /\ Matches(rows, Standing) /\ budget.funded = balance
      /\ Counted({}) =< Bound.committed
  BY <1>1, <1>2, <1>3 DEF FundInv, Calm
<1>5. CASE answer = "posted"
  <2>1. BudgetAfter.funded = budget.funded
    BY TypeParts DEF BudgetAfter, Replaced, TaskTyped, BudgetType
  <2> QED
    BY <1>1, <1>4, <1>5, <2>1 DEF Standing, Bound
<1>6. CASE answer = "spent"
  <2>1. Matches(rows, ledger) /\ Counted({}) =< budget.committed
    BY <1>4, <1>6 DEF Standing, Bound
  <2>2. \A slot \in Slots :
          \/ /\ Forgotten.input[slot] = ledger.input[slot]
             /\ Forgotten.left[slot] = ledger.left[slot]
          \/ /\ ledger.nonce[slot] \in named
             /\ Forgotten.input[slot] = 0 /\ Forgotten.left[slot] = 0
    BY ForgottenTypes
  <2>3. \A r \in rows : r.slot \in Slots /\ ledger.nonce[r.slot] \notin named
    BY DEF IInv, RowsOK, NamedOK
  <2>4. \A r \in rows : /\ Forgotten.input[r.slot] = ledger.input[r.slot]
                        /\ Forgotten.left[r.slot] = ledger.left[r.slot]
    BY <2>2, <2>3
  <2>5. \A s \in Slots : Forgotten.left[s] > Margin => Forgotten.left[s] = ledger.left[s]
    <3>1. ~(0 > Margin)
      BY ConstantsTyped
    <3> QED
      BY <2>2, <3>1
  <2>6. Matches(rows, Forgotten)
    BY <2>1, <2>4, <2>5 DEF Matches
  <2> QED
    BY <1>1, <1>4, <1>6, <2>1, <2>6
<1>7. CASE answer \notin {"posted", "spent"}
  BY <1>1, <1>4, <1>7 DEF Standing, Bound
<1> QED
  BY <1>5, <1>6, <1>7

\* What happens behind the bot's back.
LEMMA WorldFund ==
  ASSUME TypeInv, FundInv, Transfer \/ Restart \/ (\E r \in rows : Fill(r))
  PROVE  FundInv'
<1>1. calm' = FALSE
  BY DEF Transfer, Restart, Fill
<1>2. CASE Transfer \/ \E r \in rows : Fill(r)
  <2>1. UNCHANGED <<step, budget, reusable, batch, answer>>
    BY <1>2 DEF Transfer, Fill, task
  <2>2. BatchTotal' = BatchTotal
    BY <2>1 DEF BatchTotal, BatchSlots
  <2>3. KnownInv' /\ PaidInv'
    BY <2>1, <2>2 DEF FundInv, KnownInv, PaidInv
  <2> QED
    BY <1>1, <2>3 DEF FundInv
<1>3. CASE Restart
  <2>1. Over
    BY <1>3 DEF Restart
  <2> QED
    BY <1>1, <2>1, OverFund
<1> QED
  BY <1>2, <1>3

\* A second passes: what still counts did before, and the ledger ages with it.
LEMMA SecondMatches ==
  ASSUME TypeInv, IInv, Second, NEW l, NEW m,
         \A s \in Slots : l.left[s] \in Nat,
         \A s \in Slots : m.left[s] = Monus(l.left[s], 1) /\ m.input[s] = l.input[s],
         Matches(rows, l)
  PROVE  Matches(rows', m)
<1> DEFINE Older(r) == [r EXCEPT !.left = @ - 1]
<1>1. rows' = {Older(r) : r \in {r \in rows : r.left > 1}}
  BY DEF Second
<1>2. \A r \in rows : r.slot \in Slots /\ r.left \in Nat /\ r.input \in Nat
  BY TypeParts DEF OrdersTyped
<1>3. \A r \in rows : /\ Older(r).slot = r.slot /\ Older(r).input = r.input
                      /\ Older(r).left = r.left - 1
  BY TypeParts DEF OrdersTyped
<1>4. Margin \in Nat
  BY ConstantsTyped
<1>5. ASSUME NEW q \in rows', q.left > Margin
      PROVE  m.left[q.slot] = q.left /\ m.input[q.slot] = q.input
  <2>1. PICK r \in rows : r.left > 1 /\ q = Older(r)
    BY <1>1
  <2>2. /\ q.slot = r.slot /\ q.input = r.input /\ q.left = r.left - 1
    BY <1>3, <2>1
  <2>3. l.left[r.slot] = r.left /\ l.input[r.slot] = r.input
    BY <1>2, <1>4, <1>5, <2>2 DEF Matches
  <2>4. m.left[r.slot] = Monus(r.left, 1) /\ m.input[r.slot] = r.input
    BY <1>2, <2>3
  <2> QED
    BY <1>2, <2>1, <2>2, <2>4 DEF Monus, Greatest
<1>6. ASSUME NEW s \in Slots, m.left[s] > Margin
      PROVE  \E q \in rows' : q.slot = s /\ q.left = m.left[s]
  <2>1. l.left[s] \in Nat /\ m.left[s] = Monus(l.left[s], 1)
    OBVIOUS
  <2>2. l.left[s] > Margin /\ l.left[s] > 1 /\ m.left[s] = l.left[s] - 1
    BY <1>4, <1>6, <2>1 DEF Monus, Greatest
  <2>3. PICK r \in rows : r.slot = s /\ r.left = l.left[s]
    BY <2>2 DEF Matches
  <2>4. Older(r) \in rows' /\ Older(r).slot = s /\ Older(r).left = m.left[s]
    BY <1>1, <1>3, <2>2, <2>3
  <2> HIDE DEF Older
  <2> QED
    BY <2>4
<1> QED
  BY <1>5, <1>6 DEF Matches

LEMMA SecondCounted ==
  ASSUME TypeInv, IInv, Second
  PROVE  Counted({})' =< Counted({}) /\ Counted({})' \in Nat
<1> DEFINE Older(r) == [r EXCEPT !.left = @ - 1]
           C == Counting(rows, {})
           D == Counting(rows', {})
           h == [q \in D |-> CHOOSE r \in C : q = Older(r)]
<1>1. rows' = {Older(r) : r \in {r \in rows : r.left > 1}}
  BY DEF Second
<1>2. IsFiniteSet(rows) /\ \A r \in rows : r.left \in Nat /\ r.input \in Nat
  BY CountedType, TypeParts DEF OrdersTyped
<1>3. \A r \in rows : Older(r).input = r.input /\ Older(r).left = r.left - 1
  BY TypeParts DEF OrdersTyped
<1>4. \A q \in rows' : q.input \in Nat
  BY <1>1, <1>2, <1>3
<1>5. C \in SUBSET rows /\ D \in SUBSET rows'
  BY DEF Counting
<1>6. ASSUME NEW q \in D PROVE \E r \in C : q = Older(r)
  <2>1. PICK r \in rows : r.left > 1 /\ q = Older(r)
    BY <1>1, <1>5
  <2>2. r.left - 1 > Margin
    BY <1>3, <2>1 DEF Counting
  <2>3. r \in C
    BY <1>2, <2>2, ConstantsTyped DEF Counting
  <2> QED
    BY <2>1, <2>3
<1> HIDE DEF Older, C, D
<1>7. \A q \in D : h[q] \in C /\ q = Older(h[q])
  BY <1>6
<1>8. h \in [D -> C]
  BY <1>7
<1> HIDE DEF h
<1>9. IsFiniteSet(C)
  BY <1>2, <1>5, FS_Subset
<1>10. \A x, y \in D : h[x] = h[y] => x = y
  BY <1>7
<1>11. IsFiniteSet(D)
  <2>1. h \in Injection(D, C)
    BY <1>8, <1>10 DEF Injection, IsInjective
  <2> QED
    BY <1>9, <2>1, FS_Injection
<1>12. /\ \A q \in D : q.input \in Nat /\ q.input =< h[q].input
       /\ \A r \in C : r.input \in Nat
  BY <1>2, <1>3, <1>4, <1>5, <1>7
<1>13. Offered(D) =< Offered(C)
  BY <1>8, <1>9, <1>10, <1>11, <1>12, OfferedMatched
<1>14. Offered(D) \in Nat
  <2> DEFINE f == [r \in D |-> r.input]
  <2>1. \A r \in D : f[r] \in Nat
    BY <1>12
  <2> HIDE DEF f
  <2>2. SumFunctionOnSet(f, D) \in Nat
    BY <1>11, <2>1, SumType
  <2> QED
    BY <2>2 DEF Offered, f
<1>15. IsFiniteSet(rows')
  <2> DEFINE S == {r \in rows : r.left > 1}
             f == [r \in S |-> Older(r)]
  <2>1. f \in Surjection(S, rows')
    BY <1>1 DEF Surjection
  <2>2. IsFiniteSet(S)
    BY <1>2, FS_Subset
  <2> HIDE DEF f, S
  <2> QED
    BY <2>1, <2>2, FS_Surjection
<1>16. Counted({})' = Offered(D)
  BY <1>4, <1>15, CountedOffered DEF Counted, D
<1>17. Counted({}) = Offered(C)
  BY CountedIs DEF C
<1> QED
  BY <1>13, <1>14, <1>16, <1>17

LEMMA SecondFund ==
  ASSUME TypeInv, IInv, FundInv, Second
  PROVE  FundInv'
<1>1. /\ ledger' = [ledger EXCEPT !.left = Aged(@)]
      /\ batch' = [batch EXCEPT !.left = Monus(@, 1)]
      /\ calm' = (calm /\ \A r \in rows : r.left # Margin + 1)
      /\ UNCHANGED <<world, side, step, budget, reusable, answer>>
  BY DEF Second
<1>2. /\ ledger \in LedgerType /\ DOMAIN batch = {"input", "left"}
      /\ \A s \in Slots : ledger.left[s] \in Nat
  BY TypeParts DEF LedgersTyped, LedgerType, SlotMap, IInv, BatchOK
<1>3. /\ ledger'.input = ledger.input
      /\ \A s \in Slots : ledger'.left[s] = Monus(ledger.left[s], 1)
      /\ batch'.input = batch.input /\ batch'.left = Monus(batch.left, 1)
  <2>1. ledger'.left = Aged(ledger.left) /\ ledger'.input = ledger.input
    BY <1>1, <1>2 DEF LedgerType
  <2>2. \A s \in Slots : Aged(ledger.left)[s] = Monus(ledger.left[s], 1)
    BY <1>2, AgedTypes DEF LedgerType
  <2> QED
    BY <1>1, <1>2, <2>1, <2>2
<1>4. BatchTotal' = BatchTotal /\ BatchSlots' = BatchSlots
  BY <1>3 DEF BatchTotal, BatchSlots
<1>5. BudgetAfter' = BudgetAfter
  BY <1>1, <1>4 DEF BudgetAfter
<1>6. KnownInv' /\ PaidInv'
  BY <1>1, <1>4 DEF FundInv, KnownInv, PaidInv
<1>7. ASSUME calm' PROVE Calm'
  <2>1. Calm /\ \A r \in rows : r.left # Margin + 1
    BY <1>1, <1>7 DEF FundInv
  <2>2. Matches(rows', Standing')
    <3>1. CASE answer # "posted"
      <4>1. Matches(rows, ledger)
        BY <2>1, <3>1 DEF Calm, Standing
      <4>2. Matches(rows', ledger')
        BY <1>2, <1>3, <4>1, SecondMatches
      <4> QED
        BY <1>1, <3>1, <4>2 DEF Standing
    <3>2. CASE answer = "posted"
      <4>1. Matches(rows, Remembered)
        BY <2>1, <3>2 DEF Calm, Standing
      <4>2. \A s \in Slots : Remembered.left[s] \in Nat
        BY RememberedTypes DEF LedgerType, SlotMap
      <4>3. \A s \in Slots : /\ Remembered'.left[s] = Monus(Remembered.left[s], 1)
                             /\ Remembered'.input[s] = Remembered.input[s]
        <5>1. SUFFICES ASSUME NEW s \in Slots
                       PROVE  /\ Remembered'.left[s] = Monus(Remembered.left[s], 1)
                              /\ Remembered'.input[s] = Remembered.input[s]
          OBVIOUS
        <5>2. "input" \in DOMAIN ledger' /\ "left" \in DOMAIN ledger'
          BY <1>1, <1>2 DEF LedgerType
        <5>3. /\ Remembered'.left[s] = CASE s \in BatchSlots -> batch'.left
                                         [] s \in SlotsOf(side) \ BatchSlots -> 0
                                         [] OTHER -> ledger'.left[s]
              /\ Remembered'.input[s] = CASE s \in BatchSlots -> batch.input[s]
                                          [] s \in SlotsOf(side) \ BatchSlots -> 0
                                          [] OTHER -> ledger.input[s]
          BY <1>1, <1>3, <1>4, <5>2 DEF Remembered, SlotsOf
        <5>4. BatchSlots \subseteq SlotsOf(side)
          BY TypeParts DEF BatchTyped
        <5>5. /\ s \in BatchSlots =>
                   Remembered.input[s] = batch.input[s] /\ Remembered.left[s] = batch.left
              /\ s \in SlotsOf(side) \ BatchSlots =>
                   Remembered.input[s] = 0 /\ Remembered.left[s] = 0
              /\ s \notin SlotsOf(side) =>
                   /\ Remembered.input[s] = ledger.input[s]
                   /\ Remembered.left[s] = ledger.left[s]
          BY RememberedTypes
        <5>6. CASE s \in BatchSlots
          BY <1>3, <5>3, <5>5, <5>6
        <5>7. CASE s \in SlotsOf(side) \ BatchSlots
          BY <5>3, <5>5, <5>7 DEF Monus, Greatest
        <5>8. CASE s \notin SlotsOf(side)
          BY <1>3, <5>3, <5>4, <5>5, <5>8
        <5> QED
          BY <5>6, <5>7, <5>8
      <4>4. Matches(rows', Remembered')
        BY <4>1, <4>2, <4>3, SecondMatches
      <4> QED
        BY <1>1, <3>2, <4>4 DEF Standing
    <3> QED
      BY <3>1, <3>2
  <2>3. budget.known => Counted({})' =< Bound'.committed
    <3>1. Bound' = Bound
      BY <1>1, <1>5 DEF Bound
    <3>2. /\ Counted({})' =< Counted({}) /\ Counted({})' \in Nat /\ Counted({}) \in Nat
      BY SecondCounted, CountedType
    <3>3. Bound.committed \in Nat
      <4>1. budget \in BudgetType /\ reusable \in Nat /\ BatchTotal \in Nat
        BY TypeParts, BatchTotalType DEF TaskTyped
      <4> QED
        BY <4>1, ReplacedTypes DEF Bound, BudgetAfter, BudgetType
    <3> QED
      BY <2>1, <3>1, <3>2, <3>3 DEF Calm
  <2>4. ASSUME step # "requote", answer # "posted" PROVE reusable = (Reusable(side))'
    <3>1. Matches(rows, ledger) /\ reusable = Reusable(side)
      BY <2>1, <2>4 DEF Calm, Standing
    <3>2. \A s \in Slots : ledger.left[s] # Margin + 1
      <4>1. SUFFICES ASSUME NEW s \in Slots, ledger.left[s] = Margin + 1 PROVE FALSE
        OBVIOUS
      <4>2. ledger.left[s] > Margin
        BY <4>1, ConstantsTyped
      <4>3. PICK r \in rows : r.slot = s /\ r.left = ledger.left[s]
        BY <3>1, <4>2 DEF Matches
      <4> QED
        BY <2>1, <4>1, <4>3
    <3>3. \A s \in Slots : ledger'.left[s] > Margin <=> ledger.left[s] > Margin
      BY <1>2, <1>3, <3>2, ConstantsTyped DEF Monus, Greatest
    <3>4. {slot \in SlotsOf(side) : ledger'.left[slot] > Margin}
            = {slot \in SlotsOf(side) : ledger.left[slot] > Margin}
      BY <3>3 DEF SlotsOf
    <3>5. (Reusable(side))' = Reusable(side)
      BY <1>1, <1>3, <3>4 DEF Reusable, SlotsOf
    <3> QED
      BY <3>1, <3>5
  <2> QED
    BY <1>1, <2>1, <2>2, <2>3, <2>4 DEF Calm, world
<1> QED
  BY <1>6, <1>7 DEF FundInv

LEMMA SameFund ==
  ASSUME FundInv, UNCHANGED vars
  PROVE  FundInv'
<1>1. /\ UNCHANGED <<balance, rows, ledger, side, step, budget, reusable, batch, answer, calm>>
  BY DEF vars, world, task
<1>2. /\ BatchTotal' = BatchTotal /\ Counted({})' = Counted({})
      /\ (Reusable(side))' = Reusable(side) /\ BatchSlots' = BatchSlots
  BY <1>1 DEF BatchTotal, BatchSlots, Counted, Reusable, SlotsOf
<1>3. BudgetAfter' = BudgetAfter /\ Remembered' = Remembered
  BY <1>1, <1>2 DEF BudgetAfter, Remembered, SlotsOf
<1>4. Standing' = Standing /\ Bound' = Bound
  BY <1>1, <1>3 DEF Standing, Bound
<1>5. KnownInv' /\ PaidInv'
  BY <1>1, <1>2 DEF FundInv, KnownInv, PaidInv
<1>6. Calm' <=> Calm
  BY <1>1, <1>2, <1>4 DEF Calm
<1> QED
  BY <1>1, <1>5, <1>6 DEF FundInv

LEMMA FundStep == TypeInv /\ IInv /\ FundInv /\ [Next]_vars => FundInv'
<1> SUFFICES ASSUME TypeInv, IInv, FundInv, [Next]_vars PROVE FundInv'
  OBVIOUS
<1> QED
  BY IdleFund, QuoteFund, ReadFund, HoldFund, DraftFund, SubmitFund, AnsweredFund,
     WorldFund, SecondFund, SameFund DEF Next, QuoteSide

\* The inductive invariant of types, nonces and budget holds throughout.
THEOREM Budgeting == Spec => [](TypeInv /\ IInv /\ FundInv)
<1>1. Init => TypeInv /\ IInv /\ FundInv
  BY InitTypes, Started, InitFund
<1>2. TypeInv /\ IInv /\ FundInv /\ [Next]_vars => (TypeInv /\ IInv /\ FundInv)'
  BY TypeStep, Inductive, FundStep
<1> QED
  BY <1>1, <1>2, PTL DEF Spec

\* The type invariant, for any constants: a batch is of the side at hand, and
\* what the indexer names as used was used.
THEOREM LadderTyped == Spec => []TypeOK
<1>1. TypeInv => TypeOK
  BY TypeParts
<1> QED
  BY <1>1, Budgeting, PTL

\* The sides that share a token never overdraw it together, for any number of
\* sides and slots, any shares and any least slice.
THEOREM NeverOverdrawn == Spec => []Funded
<1>1. FundInv => Funded
  BY DEF FundInv, Calm, Funded
<1> QED
  BY <1>1, Budgeting, PTL

=============================================================================

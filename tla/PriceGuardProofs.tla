-------------------------- MODULE PriceGuardProofs ---------------------------
(***************************************************************************)
(* Proofs about PriceGuard.  Agreement is used only as a reflexive and     *)
(* symmetric relation that a move too small to save stays within; the      *)
(* arithmetic of it is in the first lemmas.                                *)
(***************************************************************************)
EXTENDS PriceGuard, TLAPS

Verdicts == {"trusted", "reanchored", "warming", "jumped", "contradicted", "regressed"}

LEMMA PricesPositive ==
  ASSUME NEW x \in Prices
  PROVE  x \in Nat /\ x > 0 /\ x # 0
<1>1. x \in Nat \ {0}
  BY ConstantsTyped
<1> QED BY <1>1, SMT

LEMMA NearReflexive ==
  ASSUME NEW a \in Nat, NEW bps \in Nat
  PROVE  Near(a, a, bps)
<1>1. a * (10000 + bps) = a * 10000 + a * bps
  BY SMT
<1>2. a * bps \in Nat
  BY SMT
<1> QED BY <1>1, <1>2, SMT DEF Near

LEMMA NearWidens ==
  ASSUME NEW a \in Nat, NEW b \in Nat, NEW small \in Nat, NEW large \in Nat,
         small <= large, Near(a, b, small)
  PROVE  Near(a, b, large)
<1>1. ASSUME NEW c \in Nat
      PROVE  c * (10000 + small) <= c * (10000 + large)
  <2>1. PICK d \in Nat : large = small + d
    <3>1. large - small \in Nat /\ large = small + (large - small)
      BY SMT
    <3> QED BY <3>1
  <2>2. c * (10000 + large) = c * (10000 + small) + c * d
    BY <2>1, SMT
  <2>3. c * d \in Nat
    BY <2>1, SMT
  <2>4. c * (10000 + small) \in Nat
    BY SMT
  <2> QED BY <2>2, <2>3, <2>4, SMT
<1>2. \A c \in Nat : c * 10000 \in Nat /\ c * (10000 + small) \in Nat /\ c * (10000 + large) \in Nat
  BY SMT
<1> QED BY <1>1, <1>2, SMT DEF Near

\* Agreement is reflexive and symmetric.
LEMMA AgreesReflexive ==
  ASSUME NEW a \in Nat
  PROVE  Agrees(a, a)
BY NearReflexive, ConstantsTyped DEF Agrees

LEMMA AgreesSymmetric ==
  ASSUME NEW a, NEW b, Agrees(a, b)
  PROVE  Agrees(b, a)
BY DEF Agrees, Near

----------------------------------------------------------------------------
(* Types. *)

Answer == {NoQuote} \cup [price : Prices, at : 1..MaxNow, degraded : {FALSE}]

LEMMA NoHistoryType == NoHistory \in History
<1>1. 0 \in 0..MaxNow
  BY ConstantsTyped, SMT
<1> QED BY <1>1 DEF NoHistory, History

\* What a judgement of a well-typed history and print is.
LEMMA ObserveType ==
  ASSUME NEW h \in History, NEW p \in SomePrint
  PROVE  Observe(h, p).history \in History /\ Observe(h, p).verdict \in Verdicts
<1>1. Trust(p) \in History
  BY ConstantsTyped DEF Trust, NoHistory, History
<1>2. \A c \in {NoPrint} \cup SomePrint : [h EXCEPT !.candidate = c] \in History
  BY DEF History
<1>3. Level(h, p) \in {NoPrint} \cup SomePrint
  BY DEF Level, History
<1>4. WarmUp(h, p).history \in History /\ WarmUp(h, p).verdict \in Verdicts
  BY <1>1, <1>2 DEF WarmUp, Judgement, Verdicts
<1>5. Jumped(h, p).history \in History /\ Jumped(h, p).verdict \in Verdicts
  BY <1>1, <1>2, <1>3 DEF Jumped, Judgement, Verdicts
<1>6. Judge(h, p).history \in History /\ Judge(h, p).verdict \in Verdicts
  BY <1>1, <1>4, <1>5 DEF Judge, Judgement, Verdicts
<1> QED BY <1>6 DEF Observe, Judgement, Verdicts

LEMMA AdmittedType ==
  ASSUME NEW h \in History, NEW p \in SomePrint, NEW start
  PROVE  Admitted(h, p, start).history \in History /\ Admitted(h, p, start).verdict \in Verdicts
BY ObserveType DEF Admitted, Judgement, Verdicts

LEMMA FromDiskType ==
  ASSUME NEW d \in OnDisk
  PROVE  FromDisk(d) \in History
BY ConstantsTyped DEF FromDisk, OnDisk, History, Trust, NoHistory, NoPrint, SomePrint

LEMMA KeepType ==
  ASSUME NEW d \in OnDisk, NEW p \in SomePrint
  PROVE  Keep(d, p) \in OnDisk
BY ConstantsTyped DEF Keep, OnDisk, Contradiction, NoPrint, SomePrint

LEMMA EarliestType ==
  ASSUME NEW seen \in SUBSET SomePrint, NEW r \in SomePrint
  PROVE  Earliest(seen, r) \subseteq SomePrint
BY DEF Earliest

\* The history an admission works on.
InHand == IF loaded THEN history ELSE FromDisk(file)

LEMMA InHandType ==
  ASSUME TypeOK
  PROVE  InHand \in History
BY FromDiskType DEF InHand, TypeOK

LEMMA AnswerType ==
  ASSUME TypeOK, NEW q \in Answers
  PROVE  q \in Answer /\ (q # NoQuote => q.at <= wall) /\ wall \in Int
<1>1. wall \in Int /\ wall <= MaxNow
  BY ConstantsTyped, SMT DEF TypeOK, wall
<1>2. CASE q = NoQuote
  BY <1>1, <1>2 DEF Answer
<1>3. CASE q \in [price : Prices, at : 1..wall, degraded : {FALSE}]
  <2>1. q.at \in 1..wall
    BY <1>3, Zenon
  <2>2. q.at \in 1..MaxNow /\ q.at <= wall
    BY <1>1, <2>1, ConstantsTyped, SMT
  <2>3. 1..wall \subseteq 1..MaxNow
    BY <1>1, ConstantsTyped, SMT
  <2>4. q \in [price : Prices, at : 1..MaxNow, degraded : {FALSE}]
    BY <1>3, <2>3, Zenon
  <2> QED BY <1>1, <2>2, <2>4, Zenon DEF Answer
<1>4. q = NoQuote \/ q \in [price : Prices, at : 1..wall, degraded : {FALSE}]
  BY Zenon DEF Answers
<1> QED BY <1>2, <1>3, <1>4, Zenon

LEMMA AnswerAt ==
  ASSUME NEW q \in Answer
  PROVE  q.at \in Nat
<1>1. CASE q = NoQuote
  BY <1>1, SMT DEF NoQuote
<1>2. CASE q \in [price : Prices, at : 1..MaxNow, degraded : {FALSE}]
  <2>1. q.at \in 1..MaxNow
    BY <1>2, Zenon
  <2> QED BY <2>1, ConstantsTyped, SMT
<1> QED BY <1>1, <1>2, Zenon DEF Answer

\* The print of a usable answer.
LEMMA PrintType ==
  ASSUME NEW q \in Answer, q.at # 0
  PROVE  [price |-> q.price, at |-> q.at] \in SomePrint /\ q # NoQuote
<1>1. NoQuote.at = 0
  BY SMT DEF NoQuote
<1>2. q # NoQuote /\ q \in [price : Prices, at : 1..MaxNow, degraded : {FALSE}]
  BY <1>1, Zenon DEF Answer
<1>3. q.price \in Prices /\ q.at \in 1..MaxNow
  BY <1>2, Zenon
<1> QED BY <1>2, <1>3 DEF SomePrint

\* The file after a judgement.
LEMMA RecordType ==
  ASSUME TypeOK, NEW before \in OnDisk, NEW h \in History, Record(before, h)
  PROVE  saved' \in OnDisk /\ file' \in OnDisk /\ failures' \in Nat
                /\ failures' >= failures
<1>1. CASE h.trusted # NoPrint /\ WorthSaving(before, h.trusted)
           /\ file' = Keep(file, h.trusted) /\ saved' = file' /\ UNCHANGED failures
  BY <1>1, KeepType DEF TypeOK, History
<1>2. CASE failures' = failures + 1 /\ saved' = before /\ UNCHANGED file
  BY <1>2 DEF TypeOK
<1>3. CASE saved' = before /\ UNCHANGED <<file, failures>>
  BY <1>3 DEF TypeOK
<1> QED BY <1>1, <1>2, <1>3 DEF Record

LEMMA AdmitUsableType ==
  ASSUME TypeOK, NEW q \in Answers, NEW start \in Nat, start # 0, start <= now,
         AdmitUsable(q, InHand, start)
  PROVE  /\ history' \in History /\ startup' \in Nat
         /\ quote' \in Answer
         /\ hold' \in {"none", "warming", "jumped", "contradicted"}
         /\ saved' \in OnDisk /\ file' \in OnDisk /\ failures' \in Nat
         /\ firsts' \subseteq SomePrint /\ since' \subseteq SomePrint
<1> DEFINE p    == [price |-> q.price, at |-> q.at]
           seen == Admitted(InHand, p, start)
<1>0. q \in Answer /\ p \in SomePrint
  BY AnswerType, PrintType DEF AdmitUsable, Usable
<1>1. seen.history \in History /\ seen.verdict \in Verdicts
  BY <1>0, AdmittedType, InHandType
<1>2. history' \in History
  BY <1>1 DEF AdmitUsable
<1>3. startup' \in Nat
  BY DEF AdmitUsable, StartupAfter, Later, TypeOK
<1>4. quote' \in Answer /\ hold' \in {"none", "warming", "jumped", "contradicted"}
  <2>1. quote \in Answer
    BY DEF TypeOK, Answer
  <2>2. NoQuote \in Answer
    BY DEF Answer
  <2>3. hold \in {"none", "warming", "jumped", "contradicted"}
    BY DEF TypeOK
  <2>4. CASE seen.verdict \in {"trusted", "reanchored"}
    BY <2>4, <1>0 DEF AdmitUsable
  <2>5. CASE seen.verdict = "regressed"
    BY <2>5, <2>1, <2>3 DEF AdmitUsable
  <2>6. CASE seen.verdict \in {"warming", "jumped", "contradicted"}
    BY <2>6, <2>2 DEF AdmitUsable
  <2> QED BY <1>1, <2>4, <2>5, <2>6 DEF Verdicts
<1>5. saved' \in OnDisk /\ file' \in OnDisk /\ failures' \in Nat
  <2>1. (IF loaded THEN saved ELSE file) \in OnDisk
    BY DEF TypeOK
  <2> QED BY <1>1, <2>1, RecordType DEF AdmitUsable
<1>6. firsts' \subseteq SomePrint
  <2>0. start \in 1..MaxNow
    BY ConstantsTyped, SMT DEF TypeOK
  <2>1. [price |-> p.price, at |-> start] \in SomePrint
    BY <1>0, <2>0 DEF SomePrint
  <2>2. Earliest(firsts, [price |-> p.price, at |-> start]) \subseteq SomePrint
    BY <2>1, EarliestType DEF TypeOK
  <2>3. firsts \subseteq SomePrint
    BY DEF TypeOK
  <2>4. \/ firsts' = {} \/ firsts' = firsts
        \/ firsts' = Earliest(firsts, [price |-> p.price, at |-> start])
    BY DEF AdmitUsable
  <2> QED BY <2>2, <2>3, <2>4
<1>7. since' \subseteq SomePrint
  <2>1. {r \in since : Agrees(r.price, p.price)} \in SUBSET SomePrint
    BY DEF TypeOK
  <2>2. Earliest({r \in since : Agrees(r.price, p.price)}, p) \subseteq SomePrint
    BY <2>1, <1>0, EarliestType
  <2>3. since \subseteq SomePrint
    BY DEF TypeOK
  <2>4. \/ since' = {} \/ since' = since
        \/ since' = Earliest({r \in since : Agrees(r.price, p.price)}, p)
    BY DEF AdmitUsable
  <2> QED BY <2>2, <2>3, <2>4
<1> QED BY <1>2, <1>3, <1>4, <1>5, <1>6, <1>7

LEMMA AdmitUnusableType ==
  ASSUME TypeOK, NEW q \in Answers, AdmitUnusable(q, InHand)
  PROVE  /\ history' \in History
         /\ quote' \in Answer
         /\ hold' = "none"
         /\ saved' \in OnDisk
         /\ UNCHANGED <<startup, file, failures, firsts, since>>
<1>1. history' \in History
  BY InHandType DEF AdmitUnusable
<1>2. quote' \in Answer
  BY AnswerType DEF AdmitUnusable
<1>3. saved' \in OnDisk
  BY DEF AdmitUnusable, TypeOK
<1> QED BY <1>1, <1>2, <1>3 DEF AdmitUnusable, ghosts

\* Type correctness of the admission state, the file and the orders
\* (src/src/pricing/cache.rs, anchor.rs).
THEOREM Typed == Spec => []TypeOK
<1>1. Init => TypeOK
  <2> SUFFICES ASSUME Init PROVE TypeOK
    OBVIOUS
  <2>1. now \in 1..MaxNow /\ behind \in 0..MaxSteps /\ polling \in [Loops -> 0..now]
    BY ConstantsTyped, SMT DEF Init
  <2>2. history \in History
    BY NoHistoryType DEF Init
  <2>3. saved \in OnDisk /\ file \in OnDisk
    BY ConstantsTyped DEF Init, OnDisk, Contradiction
  <2> QED BY <2>1, <2>2, <2>3 DEF Init, TypeOK
<1>2. TypeOK /\ [Next]_vars => TypeOK'
  <2> SUFFICES ASSUME TypeOK, [Next]_vars PROVE TypeOK'
    OBVIOUS
  <2>1. CASE Tick
    <3>0. now' \in 1..MaxNow /\ 0..now \subseteq 0..now' /\ polling' = polling
      BY <2>1, ConstantsTyped, SMT DEF Tick, TypeOK
    <3>1. now' \in 1..MaxNow /\ polling' \in [Loops -> 0..now']
      BY <3>0, Zenon DEF TypeOK
    <3>2. behind' \in 0..MaxSteps
      <4>1. PICK d \in 0..(MaxSteps - behind) : behind' = behind + d
        BY <2>1 DEF Tick
      <4> QED BY <4>1, ConstantsTyped, SMT DEF TypeOK
    <3> QED BY <2>1, <3>1, <3>2 DEF Tick, TypeOK, feed, orders, ghosts
  <2>2. ASSUME NEW l \in Loops, Poll(l)
        PROVE  TypeOK'
    <3>1. polling' \in [Loops -> 0..now]
      BY <2>2, SMT DEF Poll, TypeOK
    <3> QED BY <2>2, <3>1 DEF Poll, TypeOK, clock, feed, orders, ghosts
  <2>3. ASSUME NEW l \in Loops, FetchFails(l)
        PROVE  TypeOK'
    <3>1. polling' \in [Loops -> 0..now]
      BY <2>3, SMT DEF FetchFails, TypeOK
    <3>2. quote' \in Answer
      BY <2>3, Zenon DEF FetchFails, TypeOK, Answer
    <3>3. hold' \in {"none", "warming", "jumped", "contradicted"}
      BY <2>3 DEF FetchFails, TypeOK
    <3> QED BY <2>3, <3>1, <3>2, <3>3 DEF FetchFails, TypeOK, Answer, clock, orders, ghosts
  <2>4. ASSUME NEW l \in Loops, Admit(l)
        PROVE  TypeOK'
    <3>1. polling' \in [Loops -> 0..now]
      BY <2>4, SMT DEF Admit, TypeOK
    <3>2. PICK q \in Answers : AdmitUnusable(q, InHand) \/ AdmitUsable(q, InHand, polling[l])
      BY <2>4, Zenon DEF Admit, InHand
    <3>3. polling[l] \in Nat /\ polling[l] # 0 /\ polling[l] <= now
      BY <2>4, SMT DEF Admit, TypeOK
    <3>4. /\ history' \in History /\ startup' \in Nat
          /\ quote' \in Answer
          /\ hold' \in {"none", "warming", "jumped", "contradicted"}
          /\ saved' \in OnDisk /\ file' \in OnDisk /\ failures' \in Nat
          /\ firsts' \subseteq SomePrint /\ since' \subseteq SomePrint
      <4>1. CASE AdmitUnusable(q, InHand)
        BY <4>1, AdmitUnusableType DEF TypeOK
      <4>2. CASE AdmitUsable(q, InHand, polling[l])
        BY <4>2, <3>3, AdmitUsableType
      <4> QED BY <3>2, <4>1, <4>2
    <3> QED BY <2>4, <3>1, <3>4, Zenon DEF Admit, TypeOK, Answer, clock, orders
  <2>5. CASE Build
    <3>1. PICK bid \in BOOLEAN, rate \in Rates : order' = [bid |-> bid, rate |-> rate]
      BY <2>5, Zenon DEF Build
    <3>2. order' \in Order /\ out' = FALSE
      BY <2>5, <3>1, Zenon DEF Build, Order
    <3> QED BY <2>5, <3>2 DEF Build, TypeOK, clock, feed, ghosts
  <2>6. CASE Release
    BY <2>6 DEF Release, TypeOK, clock, feed, ghosts
  <2>7. CASE Withhold
    BY <2>7 DEF Withhold, TypeOK, clock, feed, ghosts
  <2>8. CASE Restart
    <3>1. crashes' \in Nat
      BY <2>8, SMT DEF Restart, TypeOK
    <3>2. polling' \in [Loops -> 0..now] /\ startup' \in Nat
      BY <2>8, SMT DEF Restart, TypeOK
    <3>3. history' \in History /\ saved' \in OnDisk /\ quote' \in Answer
      BY <2>8, NoHistoryType DEF Restart, OnDisk, Answer
    <3> QED BY <2>8, <3>1, <3>2, <3>3 DEF Restart, TypeOK, Answer
  <2>9. CASE UNCHANGED vars
    BY <2>9 DEF TypeOK, vars, clock, feed, orders, ghosts
  <2> QED BY <2>1, <2>2, <2>3, <2>4, <2>5, <2>6, <2>7, <2>8, <2>9 DEF Next, Bot
<1> QED BY <1>1, <1>2, PTL DEF Spec

----------------------------------------------------------------------------
(* What one admission does to the history. *)

\* A trusted print replaces or keeps the reference, in line with it; nothing
\* else moves it.
LEMMA TrustedInLine ==
  ASSUME NEW h \in History, NEW p \in SomePrint, NEW start,
         Admitted(h, p, start).verdict \in {"trusted", "reanchored"}
  PROVE  LET next == Admitted(h, p, start).history
         IN next.trusted # NoPrint /\ Agrees(p.price, next.trusted.price)
<1> DEFINE seen == Observe(h, p)
<1>1. p # NoPrint /\ Trust(p).trusted = p /\ Agrees(p.price, p.price)
  <2>0. p.price \in Prices
    BY DEF SomePrint
  <2>1. p.price \in Nat \ {0} /\ NoPrint.price = 0
    BY <2>0, ConstantsTyped DEF NoPrint
  <2> QED BY <2>1, AgreesReflexive DEF Trust, NoHistory
<1>2. seen.verdict \in {"trusted", "reanchored"} /\ Admitted(h, p, start).history = seen.history
  BY DEF Admitted, Judgement
<1>3. seen = Judge(h, p)
  BY <1>2 DEF Observe, Judgement
<1>4. CASE h.trusted = NoPrint
  BY <1>1, <1>2, <1>3, <1>4 DEF Judge, WarmUp, Judgement
<1>5. CASE h.trusted # NoPrint /\ p.at < h.trusted.at
  <2>1. Judge(h, p) = Judgement(h, IF Agrees(h.trusted.price, p.price)
                                  THEN "trusted" ELSE "regressed")
    <3>1. p.at \in Nat /\ h.trusted.at \in Nat
      BY <1>5, SMT DEF SomePrint, History
    <3>2. ~(p.at >= h.trusted.at)
      BY <1>5, <3>1, SMT
    <3> QED BY <1>5, <3>2 DEF Judge
  <2>2. Agrees(h.trusted.price, p.price) /\ Admitted(h, p, start).history = h
    BY <1>2, <1>3, <2>1 DEF Judgement
  <2>3. Agrees(p.price, h.trusted.price)
    BY <2>2, AgreesSymmetric
  <2> QED BY <1>5, <2>2, <2>3
<1>6. CASE h.trusted # NoPrint /\ ~(p.at < h.trusted.at)
  BY <1>1, <1>2, <1>3, <1>6 DEF Judge, Jumped, Judgement
<1> QED BY <1>2, <1>4, <1>5, <1>6

\* A lagging print changes nothing.
LEMMA RegressedKeeps ==
  ASSUME NEW h \in History, NEW p \in SomePrint, NEW start,
         Admitted(h, p, start).verdict = "regressed"
  PROVE  Admitted(h, p, start).history = h /\ h.trusted # NoPrint
<1>1. Observe(h, p).verdict = "regressed" /\ Admitted(h, p, start).history = Observe(h, p).history
  BY DEF Admitted, Judgement
<1>2. Observe(h, p) = Judge(h, p)
  BY <1>1 DEF Observe, Judgement
<1>3. h.trusted # NoPrint /\ p.at < h.trusted.at
  BY <1>1, <1>2 DEF Judge, WarmUp, Jumped, Judgement
<1> QED BY <1>1, <1>2, <1>3 DEF Judge, Judgement

\* The reference is never dropped and never moves back in feed time.
LEMMA Forward ==
  ASSUME NEW h \in History, NEW p \in SomePrint, NEW start
  PROVE  LET next == Admitted(h, p, start).history
         IN h.trusted # NoPrint => next.trusted # NoPrint /\ next.trusted.at >= h.trusted.at
<1> SUFFICES ASSUME h.trusted # NoPrint
             PROVE  LET next == Observe(h, p).history
                    IN next.trusted # NoPrint /\ next.trusted.at >= h.trusted.at
  BY DEF Admitted, Judgement
<1>1. p # NoPrint /\ Trust(p).trusted = p /\ p.at \in Nat
  BY ConstantsTyped, SMT DEF SomePrint, NoPrint, Trust, NoHistory
<1>2. h.trusted.at \in Nat
  BY SMT DEF History, SomePrint
<1>3. [h EXCEPT !.candidate = Level(h, p)].trusted = h.trusted
  BY DEF History
<1>4. CASE p.at <= h.contradicted
  BY <1>2, <1>4 DEF Observe, Judgement
<1>5. CASE ~(p.at <= h.contradicted) /\ p.at < h.trusted.at
  <2>1. Observe(h, p).history = h
    <3>1. ~(p.at >= h.trusted.at)
      BY <1>1, <1>2, <1>5, SMT
    <3> QED BY <1>5, <3>1 DEF Observe, Judge, Judgement
  <2>2. h.trusted.at >= h.trusted.at
    BY <1>2, SMT
  <2> QED BY <2>1, <2>2
<1>6. CASE ~(p.at <= h.contradicted) /\ ~(p.at < h.trusted.at)
  <2>1. p.at >= h.trusted.at
    BY <1>1, <1>2, <1>6, SMT
  <2>2. CASE Agrees(h.trusted.price, p.price)
    BY <1>1, <1>6, <2>1, <2>2 DEF Observe, Judge, Judgement
  <2>3. CASE ~Agrees(h.trusted.price, p.price)
    <3>1. Observe(h, p) = Jumped(h, p)
      BY <1>6, <2>3 DEF Observe, Judge
    <3>2. h.trusted.at >= h.trusted.at
      BY <1>2, SMT
    <3> QED BY <1>1, <1>3, <2>1, <3>1, <3>2 DEF Jumped, Judgement
  <2> QED BY <2>2, <2>3
<1> QED BY <1>4, <1>5, <1>6

----------------------------------------------------------------------------
(* What is served.  With a wall clock that is never set back, a quote that  *)
(* was stored stale stays stale.                                           *)

Fresh(q) == q.at # 0 /\ now - q.at <= Staleness /\ ~q.degraded

InLineWhileFresh ==
  /\ ~loaded => quote = NoQuote
  /\ Fresh(quote) =>
       /\ hold = "none"
       /\ loaded /\ history.trusted # NoPrint
       /\ Agrees(quote.price, history.trusted.price)

LEMMA UsableIsFresh ==
  ASSUME TypeOK, MaxSteps = 0, NEW q \in Answer
  PROVE  Usable(q) <=> Fresh(q) /\ q.at <= now /\ q.price > 0
BY SMT DEF TypeOK, Usable, Fresh, wall

LEMMA NoQuoteStale == ~Fresh(NoQuote) /\ ~Fresh(NoQuote)'
BY DEF Fresh, NoQuote

LEMMA StaleStays ==
  ASSUME TypeOK, Tick, NEW q \in Answer, (Fresh(q))'
  PROVE  Fresh(q)
<1>1. q.at \in Nat
  BY AnswerAt
<1> QED BY <1>1, ConstantsTyped, SMT DEF Fresh, Tick, TypeOK

LEMMA AdmitServes ==
  ASSUME TypeOK, MaxSteps = 0, InLineWhileFresh, NEW l \in Loops, Admit(l)
  PROVE  InLineWhileFresh'
<1>1. loaded' /\ now' = now
  BY DEF Admit, clock
<1>2. PICK q \in Answers : AdmitUnusable(q, InHand) \/ AdmitUsable(q, InHand, polling[l])
  BY Zenon DEF Admit, InHand
<1>3. q \in Answer /\ (q # NoQuote => q.at <= wall) /\ InHand \in History
  BY AnswerType, InHandType
<1>4. CASE AdmitUnusable(q, InHand)
  <2>1. quote' = q /\ ~Usable(q)
    BY <1>4 DEF AdmitUnusable
  <2>2. CASE q = NoQuote
    BY <1>1, <2>1, <2>2, NoQuoteStale DEF InLineWhileFresh
  <2>3. CASE q # NoQuote
    <3>1. q.price \in Prices
      BY <1>3, <2>3, Zenon DEF Answer
    <3>0. q.at \in Nat
      BY <1>3, AnswerAt
    <3>2. q.price > 0 /\ q.at <= now
      <4>1. q.price \in Nat /\ q.price > 0
        BY <3>1, PricesPositive
      <4>2. behind \in Nat /\ now \in Nat /\ q.at <= now - behind
        BY <1>3, <2>3, ConstantsTyped, SMT DEF TypeOK, wall
      <4> QED BY <3>0, <4>1, <4>2, SMT
    <3>3. ~Fresh(q)
      BY <1>3, <2>1, <3>2, UsableIsFresh
    <3>4. ~(Fresh(quote))'
      BY <1>1, <2>1, <3>3, Zenon DEF Fresh
    <3> QED BY <1>1, <3>4 DEF InLineWhileFresh
  <2> QED BY <2>2, <2>3
<1>5. CASE AdmitUsable(q, InHand, polling[l])
  <2> DEFINE p    == [price |-> q.price, at |-> q.at]
             seen == Admitted(InHand, p, polling[l])
  <2>1. p \in SomePrint
    BY <1>3, <1>5, PrintType DEF AdmitUsable, Usable
  <2>2. history' = seen.history /\ seen.verdict \in Verdicts
    BY <1>3, <1>5, <2>1, AdmittedType DEF AdmitUsable
  <2>3. CASE seen.verdict \in {"trusted", "reanchored"}
    <3>1. history'.trusted # NoPrint /\ Agrees(q.price, history'.trusted.price)
      BY <1>3, <2>1, <2>2, <2>3, TrustedInLine
    <3>2. quote' = q /\ hold' = "none"
      BY <1>5, <2>3 DEF AdmitUsable
    <3> QED BY <1>1, <3>1, <3>2 DEF InLineWhileFresh
  <2>4. CASE seen.verdict = "regressed"
    <3>1. history' = InHand /\ quote' = quote /\ hold' = hold
      BY <1>3, <1>5, <2>1, <2>2, <2>4, RegressedKeeps DEF AdmitUsable
    <3>2. CASE loaded
      BY <1>1, <3>1, <3>2, Zenon DEF InLineWhileFresh, InHand, Fresh
    <3>3. CASE ~loaded
      BY <1>1, <3>1, <3>3, NoQuoteStale DEF InLineWhileFresh
    <3> QED BY <3>2, <3>3
  <2>5. CASE seen.verdict \in {"warming", "jumped", "contradicted"}
    <3>1. quote' = NoQuote
      BY <1>5, <2>5 DEF AdmitUsable
    <3> QED BY <1>1, <3>1, NoQuoteStale DEF InLineWhileFresh
  <2> QED BY <2>2, <2>3, <2>4, <2>5 DEF Verdicts
<1> QED BY <1>2, <1>4, <1>5

LEMMA ServedInvariant == MaxSteps = 0 => (Spec => []InLineWhileFresh)
<1> SUFFICES ASSUME MaxSteps = 0 PROVE Spec => []InLineWhileFresh
  OBVIOUS
<1>1. Init => InLineWhileFresh
  BY NoQuoteStale DEF Init, InLineWhileFresh
<1>2. TypeOK /\ InLineWhileFresh /\ [Next]_vars => InLineWhileFresh'
  <2> SUFFICES ASSUME TypeOK, InLineWhileFresh, [Next]_vars PROVE InLineWhileFresh'
    OBVIOUS
  <2>0. quote \in Answer
    BY Zenon DEF TypeOK, Answer
  <2>1. CASE Tick
    <3>1. UNCHANGED <<quote, hold, loaded, history>>
      BY <2>1 DEF Tick, feed
    <3>2. (Fresh(quote))' => Fresh(quote)
      <4>1. (Fresh(quote))' <=> (quote.at # 0 /\ now' - quote.at <= Staleness /\ ~quote.degraded)
        BY <3>1, Zenon DEF Fresh
      <4>2. quote.at \in Nat
        BY <2>0, AnswerAt
      <4>3. now' - quote.at <= Staleness => now - quote.at <= Staleness
        BY <2>1, <4>2, ConstantsTyped, SMT DEF Tick, TypeOK
      <4> QED BY <4>1, <4>3, Zenon DEF Fresh
    <3> QED BY <3>1, <3>2, Zenon DEF InLineWhileFresh
  <2>2. ASSUME NEW l \in Loops, Poll(l) PROVE InLineWhileFresh'
    BY <2>2, Zenon DEF Poll, InLineWhileFresh, Fresh, clock, feed
  <2>3. ASSUME NEW l \in Loops, FetchFails(l) PROVE InLineWhileFresh'
    <3>1. CASE loaded
      BY <2>3, <3>1, NoQuoteStale DEF FetchFails, InLineWhileFresh, clock
    <3>2. CASE ~loaded
      BY <2>3, <3>2, NoQuoteStale DEF FetchFails, InLineWhileFresh, clock
    <3> QED BY <3>1, <3>2
  <2>4. ASSUME NEW l \in Loops, Admit(l) PROVE InLineWhileFresh'
    BY <2>4, AdmitServes
  <2>5. CASE Build
    BY <2>5, Zenon DEF Build, InLineWhileFresh, Fresh, clock, feed
  <2>6. CASE Release
    BY <2>6, Zenon DEF Release, InLineWhileFresh, Fresh, clock, feed
  <2>7. CASE Withhold
    BY <2>7, Zenon DEF Withhold, InLineWhileFresh, Fresh, clock, feed
  <2>8. CASE Restart
    BY <2>8, NoQuoteStale DEF Restart, InLineWhileFresh
  <2>9. CASE UNCHANGED vars
    BY <2>9, Zenon DEF InLineWhileFresh, Fresh, vars, clock, feed
  <2> QED BY <2>1, <2>2, <2>3, <2>4, <2>5, <2>6, <2>7, <2>8, <2>9 DEF Next, Bot
<1> QED BY <1>1, <1>2, Typed, PTL DEF Spec

\* Whatever the order the answers of the two loops come in, what a reader
\* may use is in line with the last trusted print (PriceCache::admit,
\* src/src/pricing/cache.rs), as long as the wall clock is not set back.
THEOREM Served == MaxSteps = 0 => (Spec => []ServedInLine)
<1> SUFFICES ASSUME MaxSteps = 0 PROVE Spec => []ServedInLine
  OBVIOUS
<1>1. TypeOK /\ InLineWhileFresh => ServedInLine
  <2>1. TypeOK => quote \in Answer
    BY Zenon DEF TypeOK, Answer
  <2> QED BY <2>1, UsableIsFresh DEF InLineWhileFresh, ServedInLine
<1> QED BY <1>1, Typed, ServedInvariant, PTL

\* A signed order that leaves is in the band of a price in line with the
\* trusted one (recheck_after_signing, src/src/rfq/guard.rs), as long as the
\* wall clock is not set back.
THEOREM Signed == MaxSteps = 0 => (Spec => SignedInLine)
<1> SUFFICES ASSUME MaxSteps = 0 PROVE Spec => SignedInLine
  OBVIOUS
<1> DEFINE A == out' /\ ~out =>
                  /\ hold = "none" /\ history.trusted # NoPrint
                  /\ \E p \in Prices : /\ Agrees(p, history.trusted.price)
                                       /\ Within(order.bid, order.rate, p)
<1>1. TypeOK /\ ServedInLine /\ [Next]_vars => [A]_vars
  <2> SUFFICES ASSUME TypeOK, ServedInLine, Next, out', ~out PROVE A
    BY DEF vars, orders
  <2>1. Release
    BY DEF Next, Bot, Tick, Poll, FetchFails, Admit, Build, Withhold, Restart, orders
  <2>2. Usable(quote) /\ Within(order.bid, order.rate, quote.price)
    BY <2>1 DEF Release, Passes
  <2>3. hold = "none" /\ history.trusted # NoPrint /\ Agrees(quote.price, history.trusted.price)
    BY <2>2 DEF ServedInLine
  <2>4. quote.price \in Prices
    <3>1. quote # NoQuote
      BY <2>2 DEF Usable, NoQuote
    <3> QED BY <3>1, Zenon DEF TypeOK
  <2> QED BY <2>2, <2>3, <2>4
<1> QED BY <1>1, Typed, Served, PTL DEF Spec, SignedInLine

----------------------------------------------------------------------------
(* The file.                                                               *)

\* A file whose price, if it has one, is not newer than t.
NotNewer(d, t) == d.price > 0 => d.at <= t.at

InLine(d, t) ==
  \/ d.price > 0 /\ d.at <= t.at /\ Agrees(d.price, t.price)
  \/ d.price = 0 /\ d.at >= t.at

LEMMA DiskNumbers ==
  ASSUME NEW d \in OnDisk
  PROVE  d.price \in Nat /\ d.at \in Nat
<1>1. \A x \in SomePrint : x.price \in Nat /\ x.at \in Nat
  <2>1. \A x \in SomePrint : x.price \in Prices /\ x.at \in 1..MaxNow
    BY DEF SomePrint
  <2>2. 1..MaxNow \subseteq Nat
    BY ConstantsTyped, SMT
  <2> QED BY <2>1, <2>2, PricesPositive
<1>2. \A x \in [price : {0}, at : 1..MaxNow] : x.price \in Nat /\ x.at \in Nat
  BY ConstantsTyped, SMT
<1>3. NoPrint.price \in Nat /\ NoPrint.at \in Nat
  BY SMT DEF NoPrint
<1> QED BY <1>1, <1>2, <1>3 DEF OnDisk

LEMMA PrintNumbers ==
  ASSUME NEW p \in SomePrint
  PROVE  p.price \in Nat /\ p.at \in Nat /\ p.price > 0
<1>1. p.price \in Prices /\ p.at \in 1..MaxNow
  BY DEF SomePrint
<1>2. p.price \in Nat /\ p.price > 0
  BY <1>1, PricesPositive
<1> QED BY <1>1, <1>2, ConstantsTyped, SMT

\* What is not worth a write is in line with what is on file.
LEMMA NotWorthInLine ==
  ASSUME NEW d \in OnDisk, NEW t \in SomePrint, NotNewer(d, t), ~WorthSaving(d, t)
  PROVE  InLine(d, t)
<1>1. CASE d.price > 0
  <2>1. Near(d.price, t.price, SaveOnMoveBps)
    BY <1>1 DEF WorthSaving
  <2>2. SaveOnMoveBps \in Nat /\ MaxJumpBps \in Nat /\ SaveOnMoveBps <= MaxJumpBps
    BY ConstantsTyped, MovesAreSaved
  <2>3. Agrees(d.price, t.price)
    BY <2>1, <2>2, NearWidens, DiskNumbers, PrintNumbers DEF Agrees
  <2> QED BY <1>1, <2>3 DEF InLine, NotNewer
<1>2. CASE ~(d.price > 0)
  <2>1. d.price = 0 /\ d.at >= t.at
    BY <1>2, DiskNumbers, PrintNumbers, SMT DEF WorthSaving
  <2> QED BY <2>1 DEF InLine
<1> QED BY <1>1, <1>2

\* What is kept is in line with what was offered.
LEMMA KeepInLine ==
  ASSUME NEW d \in OnDisk, NEW t \in SomePrint, NotNewer(d, t)
  PROVE  InLine(Keep(d, t), t)
<1>1. d.price \in Nat /\ d.at \in Nat /\ t.price \in Nat /\ t.at \in Nat /\ t.price > 0
  BY DiskNumbers, PrintNumbers
<1>2. InLine(t, t)
  BY <1>1, AgreesReflexive, SMT DEF InLine
<1>3. CASE d.price > 0 /\ d.at = t.at /\ ~Agrees(d.price, t.price)
  <2>1. ~(d.at > t.at) /\ ~(d.price = 0)
    BY <1>1, <1>3, SMT
  <2>2. Keep(d, t) = Contradiction(d.at)
    BY <1>3, <2>1 DEF Keep
  <2> QED BY <1>1, <1>3, <2>2, SMT DEF InLine, Contradiction
<1>4. CASE d.price = 0 /\ t.at <= d.at
  <2>1. ~(d.price > 0)
    BY <1>4, SMT
  <2>2. Keep(d, t) = d
    BY <1>4, <2>1 DEF Keep
  <2> QED BY <1>1, <1>4, <2>2, SMT DEF InLine
<1>5. CASE /\ ~(d.price > 0 /\ d.at = t.at /\ ~Agrees(d.price, t.price))
           /\ ~(d.price = 0 /\ t.at <= d.at)
  <2>1. ~(d.price > 0 /\ d.at > t.at)
    BY <1>1, SMT DEF NotNewer
  <2>2. Keep(d, t) = t
    BY <1>5, <2>1 DEF Keep
  <2> QED BY <1>2, <2>2
<1> QED BY <1>3, <1>4, <1>5

\* With no reference there is no price on file; with one, unless a write
\* failed, the file is in line with it.
FileInLine ==
  loaded =>
    /\ history.trusted = NoPrint => file.price = 0
    /\ failures = 0 => saved = file
    /\ failures = 0 /\ history.trusted # NoPrint => InLine(file, history.trusted)

\* The same before an admission, whatever is on file.
LEMMA InHandInLine ==
  ASSUME TypeOK, FileInLine
  PROVE  /\ InHand.trusted = NoPrint => file.price = 0
         /\ failures = 0 => (IF loaded THEN saved ELSE file) = file
         /\ failures = 0 /\ InHand.trusted # NoPrint => InLine(file, InHand.trusted)
<1>1. CASE loaded
  BY <1>1 DEF FileInLine, InHand
<1>2. CASE ~loaded
  <2>1. file.price \in Nat /\ file.at \in Nat /\ Agrees(file.price, file.price)
    BY DiskNumbers, AgreesReflexive DEF TypeOK
  <2>2. CASE file.price > 0
    <3>1. InHand.trusted = file
      BY <1>2, <2>2 DEF InHand, FromDisk, Trust, NoHistory
    <3>2. InLine(file, file)
      BY <2>1, <2>2, SMT DEF InLine
    <3>3. file # NoPrint
      BY <2>2, SMT DEF NoPrint
    <3> QED BY <1>2, <3>1, <3>2, <3>3
  <2>3. CASE ~(file.price > 0)
    <3>1. InHand.trusted = NoPrint
      BY <1>2, <2>3 DEF InHand, FromDisk, NoHistory
    <3>2. file.price = 0
      BY <2>1, <2>3, SMT
    <3> QED BY <1>2, <3>1, <3>2
  <2> QED BY <2>2, <2>3
<1> QED BY <1>1, <1>2

LEMMA AdmitFiles ==
  ASSUME TypeOK, FileInLine, NEW l \in Loops, Admit(l)
  PROVE  FileInLine'
<1>1. PICK q \in Answers : AdmitUnusable(q, InHand) \/ AdmitUsable(q, InHand, polling[l])
  BY Zenon DEF Admit, InHand
<1>2. q \in Answer /\ InHand \in History
  BY AnswerType, InHandType
<1>3. CASE AdmitUnusable(q, InHand)
  BY <1>3, InHandInLine DEF AdmitUnusable, FileInLine
<1>4. CASE AdmitUsable(q, InHand, polling[l])
  <2> DEFINE p      == [price |-> q.price, at |-> q.at]
             next   == Admitted(InHand, p, polling[l]).history
             before == IF loaded THEN saved ELSE file
  <2>1. p \in SomePrint
    BY <1>2, <1>4, PrintType DEF AdmitUsable, Usable
  <2>2. history' = next /\ next \in History /\ Record(before, next)
    BY <1>2, <1>4, <2>1, AdmittedType DEF AdmitUsable
  <2> HIDE DEF next, before, p
  <2>3. InHand.trusted # NoPrint => next.trusted # NoPrint /\ next.trusted.at >= InHand.trusted.at
    BY <1>2, <2>1, Forward DEF next
  <2>4. before \in OnDisk /\ file \in OnDisk /\ failures \in Nat
    BY DEF TypeOK, before
  <2>5. CASE next.trusted = NoPrint
    <3>1. UNCHANGED <<file, failures>> /\ saved' = before /\ history'.trusted = NoPrint
      BY <2>2, <2>5 DEF Record
    <3>2. file.price = 0 /\ (failures = 0 => before = file)
      BY <2>3, <2>5, InHandInLine DEF before
    <3> QED BY <3>1, <3>2 DEF FileInLine
  <2>6. CASE next.trusted # NoPrint /\ failures' = 0
    <3>0. next.trusted \in SomePrint /\ history'.trusted = next.trusted
      BY <2>2, <2>6 DEF History
    <3>1. failures = 0
      <4>1. failures' = failures \/ failures' = failures + 1
        BY <2>2 DEF Record
      <4> QED BY <2>4, <2>6, <4>1, SMT
    <3>2. before = file /\ (InHand.trusted # NoPrint => InLine(file, InHand.trusted))
                        /\ (InHand.trusted = NoPrint => file.price = 0)
      BY <3>1, InHandInLine DEF before
    <3>3. NotNewer(file, next.trusted)
      <4>1. CASE InHand.trusted = NoPrint
        BY <3>2, <4>1, SMT DEF NotNewer
      <4>2. CASE InHand.trusted # NoPrint
        <5>1. InHand.trusted \in SomePrint
          BY <1>2, <4>2 DEF History
        <5>2. InHand.trusted.at \in Nat /\ file.at \in Nat /\ next.trusted.at \in Nat
          BY <5>1, <2>4, <3>0, DiskNumbers, PrintNumbers
        <5>3. file.price > 0 => file.at <= InHand.trusted.at
          BY <3>2, <4>2, <5>2, SMT DEF InLine
        <5> QED BY <2>3, <4>2, <5>2, <5>3, SMT DEF NotNewer
      <4> QED BY <4>1, <4>2
    <3>4. CASE WorthSaving(before, next.trusted)
      <4>1. ~(failures' = failures + 1)
        BY <2>6, <3>1, SMT
      <4>2. file' = Keep(file, next.trusted) /\ saved' = file'
        BY <2>2, <2>6, <3>4, <4>1 DEF Record
      <4>3. InLine(file', next.trusted)
        BY <2>4, <3>0, <3>3, <4>2, KeepInLine
      <4> QED BY <2>6, <3>0, <4>2, <4>3, Zenon DEF FileInLine, InLine
    <3>5. CASE ~WorthSaving(before, next.trusted)
      <4>1. file' = file /\ saved' = file
        BY <2>2, <3>2, <3>5 DEF Record
      <4>2. InLine(file, next.trusted)
        BY <2>4, <3>0, <3>2, <3>3, <3>5, NotWorthInLine
      <4> QED BY <2>6, <3>0, <4>1, <4>2, Zenon DEF FileInLine, InLine
    <3> QED BY <3>4, <3>5
  <2>7. CASE next.trusted # NoPrint /\ failures' # 0
    BY <2>2, <2>7 DEF FileInLine
  <2> QED BY <2>5, <2>6, <2>7
<1> QED BY <1>1, <1>3, <1>4

LEMMA FileInvariant == Spec => []FileInLine
<1>1. Init => FileInLine
  BY DEF Init, FileInLine
<1>2. TypeOK /\ FileInLine /\ [Next]_vars => FileInLine'
  <2> SUFFICES ASSUME TypeOK, FileInLine, [Next]_vars PROVE FileInLine'
    OBVIOUS
  <2>1. ASSUME NEW l \in Loops, Admit(l) PROVE FileInLine'
    BY <2>1, AdmitFiles
  <2>2. ASSUME UNCHANGED <<loaded, history, saved, file, failures>> PROVE FileInLine'
    BY <2>2, Zenon DEF FileInLine, InLine
  <2>3. CASE Restart
    BY <2>3 DEF Restart, FileInLine
  <2>4. ASSUME NEW l \in Loops, FetchFails(l)
        PROVE  UNCHANGED <<loaded, history, saved, file, failures>>
    BY <2>4 DEF FetchFails
  <2>5. ASSUME NEW l \in Loops, Poll(l)
        PROVE  UNCHANGED <<loaded, history, saved, file, failures>>
    BY <2>5 DEF Poll, feed
  <2>6. Tick \/ Build \/ Release \/ Withhold \/ UNCHANGED vars =>
          UNCHANGED <<loaded, history, saved, file, failures>>
    BY DEF Tick, Build, Release, Withhold, vars, feed
  <2> QED BY <2>1, <2>2, <2>3, <2>4, <2>5, <2>6 DEF Next, Bot
<1> QED BY <1>1, <1>2, Typed, PTL DEF Spec

\* While no write failed, the file a restart would start from is in line
\* with the reference in memory (Anchor::record and keep,
\* src/src/pricing/anchor.rs).
THEOREM Filed == Spec => []FileFollows
<1>1. FileInLine => FileFollows
  BY DEF FileInLine, FileFollows, InLine
<1> QED BY <1>1, FileInvariant, PTL

----------------------------------------------------------------------------
(* How the reference comes about and moves.                                *)

\* Without a reference: only a confirmed candidate becomes one.
LEMMA JudgedCold ==
  ASSUME NEW h \in History, h.trusted = NoPrint, NEW p \in SomePrint, NEW start
  PROVE  LET seen == Admitted(h, p, start) IN
         \/ /\ seen.history = Trust(p) /\ Confirms(start)
            /\ h.candidate # NoPrint /\ Agrees(h.candidate.price, p.price)
         \/ seen.history = h
         \/ seen.history = [h EXCEPT !.candidate = p] /\ seen.verdict = "warming"
<1>1. Trust(p).trusted # NoPrint
  BY PrintNumbers, SMT DEF Trust, NoHistory, NoPrint
<1>2. [h EXCEPT !.candidate = p].trusted = NoPrint
  BY DEF History
<1>3. Judge(h, p) = WarmUp(h, p)
  BY DEF Judge
<1>4. CASE p.at <= h.contradicted
  BY <1>4 DEF Admitted, Observe, Judgement
<1>5. CASE ~(p.at <= h.contradicted)
  <2>1. Observe(h, p) = WarmUp(h, p)
    BY <1>3, <1>5 DEF Observe
  <2>2. CASE /\ h.candidate # NoPrint /\ p.at >= h.candidate.at
             /\ Agrees(h.candidate.price, p.price)
    <3>1. Observe(h, p) = Judgement(Trust(p), "trusted")
      BY <2>1, <2>2 DEF WarmUp
    <3> QED BY <1>1, <2>2, <3>1 DEF Admitted, Judgement
  <2>3. CASE ~(/\ h.candidate # NoPrint /\ p.at >= h.candidate.at
               /\ Agrees(h.candidate.price, p.price))
    <3>1. Observe(h, p) = Judgement([h EXCEPT !.candidate = p], "warming")
      BY <2>1, <2>3 DEF WarmUp
    <3> QED BY <1>2, <3>1 DEF Admitted, Judgement
  <2> QED BY <2>2, <2>3
<1> QED BY <1>4, <1>5

\* With one: a print in line replaces it, and one out of line only as the
\* end of a level held long enough.
LEMMA JudgedWarm ==
  ASSUME NEW h \in History, h.trusted # NoPrint, NEW p \in SomePrint, NEW start
  PROVE  LET seen == Admitted(h, p, start) IN
         \/ seen.history = h /\ seen.verdict # "jumped"
         \/ seen.history = Trust(p) /\ Agrees(h.trusted.price, p.price)
         \/ /\ seen.history = Trust(p)
            /\ h.candidate # NoPrint /\ Agrees(h.candidate.price, p.price)
            /\ p.at - h.candidate.at >= Settle
         \/ seen.history = [h EXCEPT !.candidate = Level(h, p)] /\ seen.verdict = "jumped"
<1>0. p.at \in Nat /\ h.trusted.at \in Nat
  BY PrintNumbers DEF History
<1>1. Admitted(h, p, start) = Observe(h, p)
  BY DEF Admitted
<1>2. CASE p.at <= h.contradicted
  BY <1>1, <1>2 DEF Observe, Judgement
<1>3. CASE ~(p.at <= h.contradicted)
  <2>1. Observe(h, p) = Judge(h, p)
    BY <1>3 DEF Observe
  <2>2. CASE p.at < h.trusted.at
    <3>1. ~(p.at >= h.trusted.at)
      BY <1>0, <2>2, SMT
    <3> QED BY <1>1, <2>1, <2>2, <3>1 DEF Judge, Judgement
  <2>3. CASE ~(p.at < h.trusted.at)
    <3>1. p.at >= h.trusted.at
      BY <1>0, <2>3, SMT
    <3>2. CASE Agrees(h.trusted.price, p.price)
      <4>1. Judge(h, p) = Judgement(Trust(p), "trusted")
        BY <2>3, <3>1, <3>2 DEF Judge
      <4> QED BY <1>1, <2>1, <3>2, <4>1 DEF Judgement
    <3>3. CASE ~Agrees(h.trusted.price, p.price)
      <4>1. Judge(h, p) = Jumped(h, p)
        BY <2>3, <3>3 DEF Judge
      <4>2. CASE p.at > Level(h, p).at /\ p.at - Level(h, p).at >= Settle
        <5>1. Level(h, p) # p
          BY <1>0, <4>2, SMT
        <5>2. Level(h, p) = h.candidate /\ h.candidate # NoPrint
                /\ Agrees(h.candidate.price, p.price)
          BY <5>1 DEF Level
        <5>3. Jumped(h, p).history = Trust(p)
          BY <4>2 DEF Jumped, Judgement
        <5> QED BY <1>1, <2>1, <4>1, <4>2, <5>2, <5>3
      <4>3. CASE ~(p.at > Level(h, p).at /\ p.at - Level(h, p).at >= Settle)
        BY <1>1, <2>1, <4>1, <4>3 DEF Jumped, Judgement
      <4> QED BY <4>2, <4>3
    <3> QED BY <3>2, <3>3
  <2> QED BY <2>2, <2>3
<1> QED BY <1>2, <1>3

\* The ghosts keep, for every price seen, a print no later.
LEMMA EarliestKeeps ==
  ASSUME NEW seen \in SUBSET SomePrint, NEW r \in SomePrint
  PROVE  /\ \E e \in Earliest(seen, r) : e.price = r.price /\ e.at <= r.at
         /\ \A x \in seen : \E e \in Earliest(seen, r) : e.price = x.price /\ e.at <= x.at
<1>1. \A x \in seen : x.at \in Nat /\ x.at <= x.at
  <2>1. \A x \in seen : x.at \in Nat
    BY PrintNumbers
  <2> QED BY <2>1, SMT
<1>2. r.at \in Nat /\ r.at <= r.at
  <2>1. r.at \in Nat
    BY PrintNumbers
  <2> QED BY <2>1, SMT
<1>3. CASE \E e \in seen : e.price = r.price /\ e.at <= r.at
  BY <1>1, <1>3 DEF Earliest
<1>4. CASE ~(\E e \in seen : e.price = r.price /\ e.at <= r.at)
  <2>1. Earliest(seen, r) = {e \in seen : e.price # r.price} \cup {r}
    BY <1>4 DEF Earliest
  <2>2. \A x \in seen : x.price = r.price => r.at <= x.at
    BY <1>1, <1>2, <1>4, SMT
  <2> QED BY <1>1, <1>2, <2>1, <2>2
<1> QED BY <1>3, <1>4

CandidateSeen ==
  /\ ~loaded => startup = 0
  /\ loaded /\ history.trusted = NoPrint /\ history.candidate # NoPrint =>
       \E e \in firsts : e.price = history.candidate.price /\ e.at <= startup
  /\ loaded /\ history.trusted # NoPrint /\ history.candidate # NoPrint =>
       \E e \in since : e.price = history.candidate.price /\ e.at <= history.candidate.at

\* An admission works on the history in memory or, without a candidate, on
\* the one from the file.
LEMMA InHandSeen ==
  ASSUME TypeOK, CandidateSeen, InHand.candidate # NoPrint
  PROVE  loaded /\ InHand = history
<1>1. CASE loaded
  BY <1>1 DEF InHand
<1>2. CASE ~loaded
  BY <1>2 DEF InHand, FromDisk, Trust, NoHistory
<1> QED BY <1>1, <1>2

LEMMA AdmitCandidates ==
  ASSUME TypeOK, CandidateSeen, NEW l \in Loops, Admit(l)
  PROVE  CandidateSeen'
<1>1. PICK q \in Answers : AdmitUnusable(q, InHand) \/ AdmitUsable(q, InHand, polling[l])
  BY Zenon DEF Admit, InHand
<1>2. q \in Answer /\ InHand \in History /\ loaded'
  BY AnswerType, InHandType DEF Admit
<1>3. CASE AdmitUnusable(q, InHand)
  <2>1. UNCHANGED <<startup, firsts, since>> /\ history' = InHand
    BY <1>3 DEF AdmitUnusable, ghosts
  <2>2. CASE InHand.candidate = NoPrint
    BY <1>2, <2>1, <2>2 DEF CandidateSeen
  <2>3. CASE InHand.candidate # NoPrint
    BY <1>2, <2>1, <2>3, InHandSeen, Zenon DEF CandidateSeen
  <2> QED BY <2>2, <2>3
<1>4. CASE AdmitUsable(q, InHand, polling[l])
  <2> DEFINE p     == [price |-> q.price, at |-> q.at]
             start == polling[l]
             seen  == Admitted(InHand, p, start)
             asked == [price |-> p.price, at |-> start]
             level == {r \in since : Agrees(r.price, p.price)}
  <2>1. p \in SomePrint
    BY <1>2, <1>4, PrintType DEF AdmitUsable, Usable
  <2>2. asked \in SomePrint /\ start \in Nat /\ startup \in Nat
    <3>1. start \in 1..MaxNow /\ start \in Nat
      BY ConstantsTyped, SMT DEF Admit, TypeOK
    <3> QED BY <2>1, <3>1 DEF SomePrint, TypeOK
  <2>3. /\ history' = seen.history
        /\ startup' = StartupAfter(InHand, seen.history, start)
        /\ firsts' = CASE seen.history.trusted # NoPrint -> {}
                       [] seen.verdict = "warming" -> Earliest(firsts, asked)
                       [] OTHER -> firsts
        /\ since' = CASE seen.verdict = "jumped" -> Earliest(level, p)
                      [] seen.verdict # "jumped" /\ seen.history = InHand -> since
                      [] OTHER -> {}
    BY <1>4 DEF AdmitUsable
  <2>4. firsts \in SUBSET SomePrint /\ level \in SUBSET SomePrint
    BY DEF TypeOK
  <2>5. p # NoPrint /\ Trust(p).trusted = p /\ Trust(p).candidate = NoPrint
    BY <2>1, PrintNumbers, SMT DEF Trust, NoHistory, NoPrint
  <2> HIDE DEF p, start, seen, asked, level
  <2>6. CASE history'.candidate = NoPrint
    BY <1>2, <2>6 DEF CandidateSeen
  <2>7. CASE history'.candidate # NoPrint /\ InHand.trusted = NoPrint
    <3>1. \/ history' = InHand
          \/ history' = [InHand EXCEPT !.candidate = p] /\ seen.verdict = "warming"
      BY <1>2, <2>1, <2>3, <2>5, <2>7, JudgedCold DEF seen
    <3>2. history'.trusted = NoPrint
      BY <1>2, <2>7, <3>1 DEF History
    <3>3. CASE history'.candidate = InHand.candidate
      <4>1. loaded /\ InHand = history
        BY <2>7, <3>3, InHandSeen
      <4>2. startup' = startup
        BY <2>3, <3>2, <3>3 DEF StartupAfter
      <4>3. PICK e \in firsts : e.price = history.candidate.price /\ e.at <= startup
        BY <2>7, <3>3, <4>1 DEF CandidateSeen
      <4>4. firsts' = Earliest(firsts, asked) \/ firsts' = firsts
        BY <2>3, <3>2
      <4>5. \E f \in firsts' : f.price = e.price /\ f.at <= e.at
        <5>1. e.at \in Nat /\ e.at <= e.at
          <6>1. e \in SomePrint
            BY <2>4
          <6> QED BY <6>1, PrintNumbers, SMT
        <5> QED BY <2>2, <2>4, <4>4, <5>1, EarliestKeeps
      <4>6. PICK f \in firsts' : f.price = e.price /\ f.at <= e.at
        BY <4>5
      <4>7. f.at <= startup
        <5>1. e.at \in Nat
          BY <2>4, PrintNumbers
        <5>2. f \in SomePrint
          BY <2>2, <2>4, <4>4, EarliestType
        <5>3. f.at \in Nat
          BY <5>2, PrintNumbers
        <5> QED BY <2>2, <4>3, <4>6, <5>1, <5>3, SMT
      <4> QED BY <1>2, <3>2, <3>3, <4>1, <4>2, <4>3, <4>6, <4>7, Zenon DEF CandidateSeen
    <3>4. CASE history'.candidate # InHand.candidate
      <4>1. history'.candidate = p /\ seen.verdict = "warming"
        BY <1>2, <3>1, <3>4 DEF History
      <4>2. startup' = Later(startup, start)
        BY <2>3, <3>2, <3>4 DEF StartupAfter
      <4>3. firsts' = Earliest(firsts, asked)
        BY <2>3, <3>2, <4>1
      <4>4. PICK e \in firsts' : e.price = asked.price /\ e.at <= asked.at
        BY <2>2, <2>4, <4>3, EarliestKeeps
      <4>5. asked.price = p.price /\ asked.at = start /\ start <= startup'
        BY <2>2, <4>2, SMT DEF asked, Later
      <4>6. e.at \in Nat /\ startup' \in Nat
        <5>1. e \in SomePrint
          BY <2>2, <2>4, <4>3, EarliestType
        <5> QED BY <2>2, <4>2, <5>1, PrintNumbers DEF Later
      <4>7. e.at <= startup'
        BY <2>2, <4>4, <4>5, <4>6, SMT
      <4> QED BY <1>2, <3>2, <4>1, <4>4, <4>5, <4>7, Zenon DEF CandidateSeen
    <3> QED BY <3>3, <3>4
  <2>8. CASE history'.candidate # NoPrint /\ InHand.trusted # NoPrint
    <3>1. \/ history' = InHand /\ seen.verdict # "jumped"
          \/ history' = [InHand EXCEPT !.candidate = Level(InHand, p)] /\ seen.verdict = "jumped"
      BY <1>2, <2>1, <2>3, <2>5, <2>8, JudgedWarm DEF seen
    <3>2. history'.trusted # NoPrint
      BY <1>2, <2>8, <3>1 DEF History
    <3>3. CASE seen.verdict = "jumped"
      <4>1. since' = Earliest(level, p)
        BY <2>3, <3>3
      <4>2. history'.candidate = p \/ history'.candidate = InHand.candidate
        BY <1>2, <3>1 DEF Level, History
      <4>3. CASE history'.candidate = p
        BY <1>2, <2>1, <2>4, <3>2, <4>1, <4>3, EarliestKeeps DEF CandidateSeen
      <4>4. CASE history'.candidate # p
        <5>1. loaded /\ InHand = history /\ history'.candidate = history.candidate
          BY <2>8, <4>2, <4>4, InHandSeen
        <5>2. PICK e \in since : e.price = history.candidate.price
                                   /\ e.at <= history.candidate.at
          BY <2>8, <5>1 DEF CandidateSeen
        <5>3. CASE Agrees(history.candidate.price, p.price)
          <6>1. e \in level
            BY <5>2, <5>3 DEF level
          <6>2. PICK f \in since' : f.price = e.price /\ f.at <= e.at
            BY <2>1, <2>4, <4>1, <6>1, EarliestKeeps
          <6>3. f \in SomePrint /\ e \in SomePrint /\ history.candidate \in SomePrint
            <7>1. history.candidate \in SomePrint
              BY <2>8, <5>1 DEF TypeOK, History
            <7> QED BY <2>1, <2>4, <4>1, <6>1, <6>2, <7>1, EarliestType
          <6>4. f.at <= history.candidate.at
            <7>1. f.at \in Nat /\ e.at \in Nat /\ history.candidate.at \in Nat
              BY <6>3, PrintNumbers
            <7> QED BY <5>2, <6>2, <7>1, SMT
          <6> QED BY <1>2, <3>2, <5>1, <5>2, <6>2, <6>4, Zenon DEF CandidateSeen
        <5>4. CASE ~Agrees(history.candidate.price, p.price)
          <6>1. Level(InHand, p) = p
            BY <5>1, <5>4 DEF Level
          <6>2. history'.candidate = p
            BY <1>2, <3>1, <3>3, <6>1 DEF History
          <6> QED BY <4>4, <6>2
        <5> QED BY <5>3, <5>4
      <4> QED BY <4>3, <4>4
    <3>4. CASE seen.verdict # "jumped"
      <4>1. history' = InHand /\ since' = since
        BY <2>3, <3>1, <3>4
      <4>2. loaded /\ InHand = history
        BY <2>8, <4>1, InHandSeen
      <4> QED BY <1>2, <3>2, <4>1, <4>2, Zenon DEF CandidateSeen
    <3> QED BY <3>3, <3>4
  <2> QED BY <2>6, <2>7, <2>8
<1> QED BY <1>1, <1>3, <1>4

LEMMA SeenInvariant == Spec => []CandidateSeen
<1>1. Init => CandidateSeen
  BY DEF Init, CandidateSeen
<1>2. TypeOK /\ CandidateSeen /\ [Next]_vars => CandidateSeen'
  <2> SUFFICES ASSUME TypeOK, CandidateSeen, [Next]_vars PROVE CandidateSeen'
    OBVIOUS
  <2>1. ASSUME NEW l \in Loops, Admit(l) PROVE CandidateSeen'
    BY <2>1, AdmitCandidates
  <2>2. ASSUME UNCHANGED <<loaded, history, startup, firsts, since>> PROVE CandidateSeen'
    BY <2>2, Zenon DEF CandidateSeen
  <2>3. CASE Restart
    BY <2>3 DEF Restart, CandidateSeen
  <2>4. ASSUME NEW l \in Loops, FetchFails(l) \/ Poll(l)
        PROVE  UNCHANGED <<loaded, history, startup, firsts, since>>
    BY <2>4 DEF FetchFails, Poll, feed, ghosts
  <2>5. Tick \/ Build \/ Release \/ Withhold \/ UNCHANGED vars =>
          UNCHANGED <<loaded, history, startup, firsts, since>>
    BY DEF Tick, Build, Release, Withhold, vars, feed, ghosts
  <2> QED BY <2>1, <2>2, <2>3, <2>4, <2>5 DEF Next, Bot
<1> QED BY <1>1, <1>2, Typed, PTL DEF Spec

\* The baseline moves only in an admission or, at a restart, to the file.
LEMMA BaselineMoves ==
  ASSUME TypeOK, FileInLine, [Next]_vars
  PROVE  \/ \E l \in Loops : Admit(l)
         \/ crashes' # crashes /\ (Baseline = NoPrint => Baseline' = NoPrint)
         \/ Baseline' = Baseline
<1>1. CASE Restart
  <2>1. crashes' # crashes /\ ~loaded' /\ file' = file
    <3>1. crashes' = crashes + 1 /\ crashes \in Nat
      BY <1>1 DEF Restart, TypeOK
    <3> QED BY <1>1, <3>1, SMT DEF Restart
  <2>2. ASSUME Baseline = NoPrint PROVE ~(file.price > 0)
    <3>1. CASE loaded
      BY <2>2, <3>1, SMT DEF Baseline, FileInLine
    <3>2. CASE ~loaded
      BY <2>2, <3>2, SMT DEF Baseline, NoPrint
    <3> QED BY <3>1, <3>2
  <2> QED BY <2>1, <2>2 DEF Baseline
<1>2. ASSUME UNCHANGED <<loaded, history, file>> PROVE Baseline' = Baseline
  BY <1>2, Zenon DEF Baseline
<1>3. ASSUME NEW l \in Loops, FetchFails(l) \/ Poll(l)
      PROVE  UNCHANGED <<loaded, history, file>>
  BY <1>3 DEF FetchFails, Poll, feed
<1>4. Tick \/ Build \/ Release \/ Withhold \/ UNCHANGED vars =>
        UNCHANGED <<loaded, history, file>>
  BY DEF Tick, Build, Release, Withhold, vars, feed
<1> QED BY <1>1, <1>2, <1>3, <1>4 DEF Next, Bot

LEMMA BaselineInHand ==
  ASSUME TypeOK
  PROVE  Baseline = InHand.trusted
<1>1. CASE loaded
  BY <1>1 DEF Baseline, InHand
<1>2. CASE ~loaded
  BY <1>2 DEF Baseline, InHand, FromDisk, Trust, NoHistory
<1> QED BY <1>1, <1>2

\* A run without a baseline trusts a price only on two polls that agree, the
\* second begun after the second of the first (PriceCache::admit,
\* src/src/pricing/cache.rs).
THEOREM Confirmed == Spec => ColdStart
<1> DEFINE A == Baseline = NoPrint /\ Baseline' # NoPrint =>
                  \E l \in Loops : /\ polling[l] # 0 /\ polling'[l] = 0
                                   /\ \E r \in firsts : /\ r.at < polling[l]
                                                        /\ Agrees(r.price, Baseline'.price)
<1>1. TypeOK /\ FileInLine /\ CandidateSeen /\ [Next]_vars => [A]_vars
  <2> SUFFICES ASSUME TypeOK, FileInLine, CandidateSeen, [Next]_vars,
                      Baseline = NoPrint, Baseline' # NoPrint
               PROVE  \E l \in Loops : /\ polling[l] # 0 /\ polling'[l] = 0
                                       /\ \E r \in firsts : /\ r.at < polling[l]
                                                            /\ Agrees(r.price, Baseline'.price)
    OBVIOUS
  <2>1. PICK l \in Loops : Admit(l)
    BY BaselineMoves
  <2>2. polling[l] # 0 /\ polling'[l] = 0 /\ polling[l] \in Nat
    BY <2>1, SMT DEF Admit, TypeOK
  <2>3. PICK q \in Answers : AdmitUnusable(q, InHand) \/ AdmitUsable(q, InHand, polling[l])
    BY <2>1, Zenon DEF Admit, InHand
  <2>4. InHand.trusted = NoPrint /\ Baseline' = history'.trusted
    BY <2>1, BaselineInHand DEF Admit, Baseline
  <2>5. AdmitUsable(q, InHand, polling[l])
    BY <2>3, <2>4 DEF AdmitUnusable
  <2> DEFINE p == [price |-> q.price, at |-> q.at]
  <2>6. p \in SomePrint /\ InHand \in History
    BY <2>5, AnswerType, PrintType, InHandType DEF AdmitUsable, Usable
  <2>7. history' = Admitted(InHand, p, polling[l]).history
    BY <2>5 DEF AdmitUsable
  <2> HIDE DEF p
  <2>8. /\ history' = Trust(p) /\ Confirms(polling[l])
        /\ InHand.candidate # NoPrint /\ Agrees(InHand.candidate.price, p.price)
    <3>1. [InHand EXCEPT !.candidate = p].trusted = NoPrint
      BY <2>4, <2>6 DEF History
    <3> QED BY <2>4, <2>6, <2>7, <3>1, JudgedCold
  <2>9. loaded /\ InHand = history
    BY <2>8, InHandSeen
  <2>10. PICK r \in firsts : r.price = history.candidate.price /\ r.at <= startup
    BY <2>4, <2>8, <2>9 DEF CandidateSeen
  <2>11. r.at < polling[l]
    <3>1. r \in SomePrint /\ startup \in Nat /\ polling[l] >= startup + 1
      BY <2>8 DEF TypeOK, Confirms
    <3>2. r.at \in Nat
      BY <3>1, PrintNumbers
    <3> QED BY <2>2, <2>10, <3>1, <3>2, SMT
  <2>12. Agrees(r.price, Baseline'.price)
    BY <2>4, <2>8, <2>9, <2>10 DEF Trust, NoHistory
  <2> QED BY <2>2, <2>11, <2>12
<1> QED BY <1>1, Typed, FileInvariant, SeenInvariant, PTL DEF Spec, ColdStart

\* A price out of line with the baseline takes its place only after the feed
\* held that level for settle_secs (jumped, src/src/pricing/jump.rs).
THEOREM Settled == Spec => LevelHeld
<1> DEFINE A == crashes' = crashes /\ Baseline # NoPrint /\ Baseline' # NoPrint =>
                  \/ Agrees(Baseline.price, Baseline'.price)
                  \/ \E r \in since : /\ Agrees(r.price, Baseline'.price)
                                      /\ Baseline'.at - r.at >= Settle
<1>1. TypeOK /\ FileInLine /\ CandidateSeen /\ [Next]_vars => [A]_vars
  <2> SUFFICES ASSUME TypeOK, FileInLine, CandidateSeen, [Next]_vars,
                      crashes' = crashes, Baseline # NoPrint, Baseline' # NoPrint
               PROVE  \/ Agrees(Baseline.price, Baseline'.price)
                      \/ \E r \in since : /\ Agrees(r.price, Baseline'.price)
                                          /\ Baseline'.at - r.at >= Settle
    OBVIOUS
  <2>0. Baseline = InHand.trusted /\ InHand \in History /\ Baseline \in SomePrint
    BY BaselineInHand, InHandType DEF History
  <2>1. Agrees(Baseline.price, Baseline.price)
    BY <2>0, PrintNumbers, AgreesReflexive
  <2>2. CASE Baseline' = Baseline
    BY <2>1, <2>2
  <2>3. ASSUME NEW l \in Loops, Admit(l), Baseline' # Baseline
        PROVE  \/ Agrees(Baseline.price, Baseline'.price)
               \/ \E r \in since : /\ Agrees(r.price, Baseline'.price)
                                   /\ Baseline'.at - r.at >= Settle
    <3>1. PICK q \in Answers : AdmitUnusable(q, InHand) \/ AdmitUsable(q, InHand, polling[l])
      BY <2>3, Zenon DEF Admit, InHand
    <3>2. Baseline' = history'.trusted
      BY <2>3 DEF Admit, Baseline
    <3>3. AdmitUsable(q, InHand, polling[l])
      BY <2>0, <2>3, <3>1, <3>2 DEF AdmitUnusable
    <3> DEFINE p == [price |-> q.price, at |-> q.at]
    <3>4. p \in SomePrint
      BY <3>3, AnswerType, PrintType DEF AdmitUsable, Usable
    <3>5. history' = Admitted(InHand, p, polling[l]).history
      BY <3>3 DEF AdmitUsable
    <3> HIDE DEF p
    <3>6. Trust(p).trusted = p
      BY DEF Trust, NoHistory
    <3>7. [InHand EXCEPT !.candidate = Level(InHand, p)].trusted = InHand.trusted
      BY <2>0 DEF History
    <3>8. \/ Agrees(InHand.trusted.price, p.price) /\ history'.trusted = p
          \/ /\ history'.trusted = p
             /\ InHand.candidate # NoPrint /\ Agrees(InHand.candidate.price, p.price)
             /\ p.at - InHand.candidate.at >= Settle
      BY <2>0, <2>3, <3>2, <3>4, <3>5, <3>6, <3>7, JudgedWarm
    <3>9. CASE Agrees(InHand.trusted.price, p.price) /\ history'.trusted = p
      BY <2>0, <3>2, <3>9
    <3>10. CASE /\ history'.trusted = p
                /\ InHand.candidate # NoPrint /\ Agrees(InHand.candidate.price, p.price)
                /\ p.at - InHand.candidate.at >= Settle
      <4>1. loaded /\ InHand = history
        BY <3>10, InHandSeen
      <4>2. PICK r \in since : r.price = history.candidate.price /\ r.at <= history.candidate.at
        BY <2>0, <3>10, <4>1 DEF CandidateSeen
      <4>3. history.candidate \in SomePrint /\ r \in SomePrint
        BY <3>10, <4>1 DEF TypeOK, History
      <4>4. r.at \in Nat /\ history.candidate.at \in Nat /\ p.at \in Nat
        BY <3>4, <4>3, PrintNumbers
      <4>5. p.at - r.at >= Settle
        BY <3>10, <4>1, <4>2, <4>4, ConstantsTyped, SMT
      <4> QED BY <3>2, <3>10, <4>1, <4>2, <4>5
    <3> QED BY <3>8, <3>9, <3>10
  <2> QED BY <2>2, <2>3, BaselineMoves
<1> QED BY <1>1, Typed, FileInvariant, SeenInvariant, PTL DEF Spec, LevelHeld

=============================================================================

--------------------------- MODULE PublicationProofs ---------------------------
(***************************************************************************)
(* Proofs about Publication: flushes and ticks fit under the venue's cap,  *)
(* an expired corridor is out within an interval, and a flush holds the    *)
(* others back for two at most.                                            *)
(***************************************************************************)
EXTENDS Publication, FiniteSetTheorems, WellFoundedInduction, TLAPS

----------------------------------------------------------------------------
(* The inductive invariants. *)

\* Older frames are counted with the younger ones.
Nested == \A a, b \in Ages : a =< b => sent[a] =< sent[b]

\* A frame that young was sent by a flush, with a reply, or by a tick that has
\* not let as much time pass since.
Explained ==
  \A a \in Ages : sent[a] > 0 => flushed =< a \/ quiet =< a \/ Interval - a =< tick

\* What was sent since the last reply fits under the cap.
SinceReply == quiet > 0 => sent[quiet - 1] =< Budget

BudgetInv == TypeOK /\ Nested /\ Explained /\ SinceReply

\* c has been waiting, or the venue quiet, for no longer than n.
Within(c, n) == waiting[c] =< n \/ calm =< n

OnlyReadyWait == \A c \in Corridors : waiting[c] # 0 => c \in pending \cap bright

\* Nothing has been sent since c began to wait, and what remains until the flush
\* or, if none is due, until the tick, ends within the interval.
PromptFor(c) ==
  /\ \A a \in Ages : sent[a] > 0 => Within(c, a)
  /\ trailing # Off => Within(c, Interval - trailing)
  /\ trailing = Off => Within(c, Interval - tick) /\ Within(c, flushed)

PromptInv ==
  TypeOK /\ OnlyReadyWait /\ \A c \in pending \cap bright : PromptFor(c)

\* c has been silent, the venue quiet or no flush in vain, for no longer than n.
Lately(c, n) == silent[c] =< n \/ calm =< n \/ vain =< n

OnlyBrightAreSilent == \A c \in Corridors : silent[c] # 0 => c \in bright

\* The flush takes an interval and, once it is over, the tick takes another.
CadenceFor(c) ==
  /\ trailing # Off => /\ \A a \in Ages : sent[a] > 0 => Lately(c, a)
                       /\ Lately(c, Interval - trailing)
  /\ trailing = Off => Lately(c, 2 * Interval - tick) /\ Lately(c, Interval + flushed)

CadenceInv == TypeOK /\ OnlyBrightAreSilent /\ \A c \in Corridors : CadenceFor(c)

----------------------------------------------------------------------------
(* Numbers and corridors. *)

\* There is room for two ages at least.
LEMMA Intervals ==
  /\ Interval \in Nat /\ 2 =< Interval /\ Budget \in Nat /\ GapLimit \in Nat
  /\ 2 * Interval < GapLimit /\ Coalesce \in 1..Interval
  /\ 0 \in Ages /\ Interval - 1 \in Ages
BY ConstantsTyped DEF Ages

\* Any set of corridors fits under the cap.
LEMMA Frames ==
  ASSUME NEW S \in SUBSET Corridors
  PROVE  /\ Cardinality(S) \in Nat /\ Cardinality(S) =< Budget
         /\ Cardinality(S) = 0 <=> S = {}
<1>1. IsFiniteSet(S) /\ Cardinality(S) =< Cardinality(Corridors)
  BY ConstantsTyped, FS_Subset
<1>2. Cardinality(S) \in Nat /\ Cardinality(Corridors) \in Nat
  BY <1>1, ConstantsTyped, FS_CardinalityType
<1>3. Cardinality(S) = 0 <=> S = {}
  BY <1>1, FS_EmptySet
<1> QED
  BY <1>1, <1>2, <1>3, ConstantsTyped

\* A nonempty set of numbers has a least one.
LEMMA LeastNumber ==
  ASSUME NEW T \in SUBSET Nat, T # {}
  PROVE  \E n \in T : \A m \in T : n =< m
<1> DEFINE R == OpToRel(<, Nat)
<1>1. IsWellFoundedOn(R, Nat)
  BY NatLessThanWellFounded
<1>2. \A x, y \in Nat : x < y => <<x, y>> \in R
  BY DEF OpToRel
<1>3. T \subseteq Nat
  OBVIOUS
<1> HIDE DEF R
<1>4. PICK n \in T : \A m \in T : ~(<<m, n>> \in R)
  BY <1>1, <1>3, WFMin
<1>5. ASSUME NEW m \in T PROVE n =< m
  <2>1. m \in Nat /\ n \in Nat /\ ~(m < n)
    BY <1>2, <1>3, <1>4
  <2> QED
    BY <2>1
<1> QED
  BY <1>5

\* Max is what it says on ages.
LEMMA OldestAge ==
  ASSUME NEW S \in SUBSET Ages, S # {}
  PROVE  Max(S) \in S /\ \A a \in S : a =< Max(S)
<1> DEFINE T == {n \in Nat : Interval - n \in S}
<1>1. T # {}
  <2>1. PICK a \in S : a \in Ages
    OBVIOUS
  <2>2. Interval - a \in Nat /\ Interval - (Interval - a) = a
    BY <2>1, Intervals DEF Ages
  <2>3. Interval - a \in T
    BY <2>1, <2>2
  <2> QED
    BY <2>3
<1>2. T \in SUBSET Nat
  OBVIOUS
<1>3. \A a \in S : a \in Nat /\ a =< Interval /\ Interval - a \in T
  <2>1. ASSUME NEW a \in S
        PROVE  a \in Nat /\ a =< Interval /\ Interval - a \in T
    <3>1. a \in Nat /\ a =< Interval
      BY Intervals DEF Ages
    <3>2. Interval - a \in Nat /\ Interval - (Interval - a) = a
      BY <3>1, Intervals
    <3> QED
      BY <3>1, <3>2
  <2> QED
    BY <2>1
<1>4. \A n \in T : n \in Nat /\ Interval - n \in S
  OBVIOUS
<1> HIDE DEF T
<1>5. PICK n \in T : \A m \in T : n =< m
  BY <1>1, <1>2, LeastNumber
<1>6. ASSUME NEW a \in S PROVE a =< Interval - n
  <2>1. n =< Interval - a /\ a \in Nat /\ n \in Nat
    BY <1>3, <1>4, <1>5
  <2> QED
    BY <2>1, Intervals
<1>7. \E o \in S : \A a \in S : a =< o
  BY <1>4, <1>5, <1>6
<1>8. \E o \in S : \A a \in S : o >= a
  BY <1>3, <1>7
<1>9. Max(S) \in S /\ \A a \in S : Max(S) >= a
  BY <1>8 DEF Max
<1> QED
  BY <1>3, <1>9

\* The window, typed.
LEMMA Window ==
  ASSUME TypeOK
  PROVE  /\ \A a \in Ages : sent[a] \in Nat /\ Younger(a) \in Nat
         /\ \A a \in Ages : a # 0 => a - 1 \in Ages /\ Younger(a) = sent[a - 1]
         /\ Younger(0) = 0
         /\ outbound_used \in Nat
<1>1. \A a \in Ages : sent[a] \in Nat
  BY DEF TypeOK
<1>2. \A a \in Ages : a # 0 => a - 1 \in Ages
  BY Intervals DEF Ages
<1> QED
  BY <1>1, <1>2, Intervals DEF Younger, outbound_used

\* A flush that does not fit is put off until frames that are in the window have
\* left it.
LEMMA Deferral ==
  ASSUME TypeOK, NEW n \in Nat, n =< Budget, outbound_used + n > Budget
  PROVE  \E a \in Ages : next_trailing_after_budget(n) = Interval - a /\ sent[a] > 0
<1> DEFINE S == {a \in Ages : Younger(a) + n =< Budget}
           o == Max(S)
<1>1. S \in SUBSET Ages /\ 0 \in S
  BY Window, Intervals
<1>2. o \in S /\ \A a \in S : a =< o
  <2> HIDE DEF S
  <2> QED
    BY <1>1, OldestAge
<1>3. o \in Ages /\ Younger(o) + n =< Budget
  BY <1>2
<1>4. next_trailing_after_budget(n) = Interval - o
  BY DEF next_trailing_after_budget
<1> HIDE DEF o
<1>5. CASE o = Interval - 1
  <2>1. sent[o] + n > Budget /\ sent[o] \in Nat
    BY <1>3, <1>5, Window DEF outbound_used
  <2> QED
    BY <1>3, <1>4, <2>1, Intervals
<1>6. CASE o # Interval - 1
  <2>1. o \in Nat /\ o + 1 \in Ages /\ o + 1 # 0 /\ (o + 1) - 1 = o
    BY <1>3, <1>6, Intervals DEF Ages
  <2>2. o + 1 \notin S
    BY <1>2, <2>1
  <2>3. Younger(o + 1) = sent[o] /\ sent[o] \in Nat
    BY <1>3, <2>1, Window
  <2>4. sent[o] + n > Budget
    BY <2>1, <2>2, <2>3, Intervals
  <2> QED
    BY <1>3, <1>4, <2>3, <2>4, Intervals
<1> QED
  BY <1>5, <1>6

----------------------------------------------------------------------------
(* Type correctness. *)

LEMMA Durable ==
  /\ Zero \in Durations /\ \A c \in Corridors : Zero[c] = 0
  /\ \A f \in Durations : \A S :
       /\ Reset(f, S) \in Durations
       /\ \A c \in Corridors : Reset(f, S)[c] = IF c \in S THEN 0 ELSE f[c]
<1>1. 0 \in 0..GapLimit + 1
  BY Intervals
<1> QED
  BY <1>1 DEF Zero, Reset, Durations

\* What time does to a clock that runs to a limit.
LEMMA Clocks ==
  /\ \A n \in Nat : \A x \in 0..n : Older(x, n) \in 0..n /\ Older(x, n) =< x + 1
  /\ \A n \in Nat : \A x \in 0..n : x < n => Older(x, n) = x + 1
  /\ \A n \in Nat : \A x \in 0..n : Later(x) \in 0..n /\ x - 1 =< Later(x)
  /\ \A x \in Nat : x > 0 => Later(x) = x - 1
BY DEF Older, Later

\* Frames that are sent are counted at every age.
LEMMA Counted ==
  ASSUME TypeOK, NEW n \in Nat, Sent(n)
  PROVE  sent' \in [Ages -> Nat] /\ \A a \in Ages : sent'[a] = sent[a] + n
BY Window DEF Sent

LEMMA InitTyped == Init => TypeOK
<1> SUFFICES ASSUME Init PROVE TypeOK
  OBVIOUS
<1>1. sent \in [Ages -> Nat] /\ \A a \in Ages : sent[a] = 0
  BY DEF Init
<1>2. online \in BOOLEAN
  BY Zenon DEF Init
<1>3. waiting \in Durations /\ silent \in Durations
  BY Durable DEF Init
<1>4. trailing \in 0..Interval \cup {Off} /\ flushed \in 0..Interval /\ tick \in 0..Interval
        /\ quiet \in 0..Interval /\ calm \in 0..GapLimit + 1 /\ vain \in 0..2 * Interval + 1
  BY Intervals DEF Init, Off
<1> QED
  BY <1>1, <1>2, <1>3, <1>4 DEF Init, TypeOK

LEMMA EndTyped == TypeOK /\ End => TypeOK'
<1> SUFFICES ASSUME TypeOK, End PROVE TypeOK'
  OBVIOUS
<1>1. sent' \in [Ages -> Nat]
  BY DEF End, Fresh
<1>2. online' \in BOOLEAN
  BY Zenon DEF End
<1>3. waiting' \in Durations /\ silent' \in Durations
  BY Durable DEF End, Fresh
<1>4. trailing' \in 0..Interval \cup {Off} /\ flushed' \in 0..Interval /\ tick' \in 0..Interval
        /\ quiet' \in 0..Interval /\ calm' \in 0..GapLimit + 1 /\ vain' \in 0..2 * Interval + 1
  BY Intervals DEF End, Fresh, Off
<1> QED
  BY <1>1, <1>2, <1>3, <1>4 DEF End, Fresh, TypeOK

LEMMA TurnTyped == TypeOK /\ (\E c \in Corridors : Turn(c)) => TypeOK'
<1> SUFFICES ASSUME TypeOK, NEW c \in Corridors, Turn(c) PROVE TypeOK'
  OBVIOUS
<1>1. waiting' \in Durations /\ silent' \in Durations
  BY Durable DEF Turn, Went, TypeOK
<1> QED
  BY <1>1 DEF Turn, TypeOK, window

LEMMA NoticeTyped ==
  ASSUME TypeOK, NEW slug \in {{}} \cup {{c} : c \in Corridors}, QuoteExpired(slug)
  PROVE  TypeOK'
<1>1. slug \subseteq Corridors
  OBVIOUS
<1>2. trailing' \in 0..Interval \cup {Off} /\ (trailing' # Off => pending' # {})
  BY <1>1, Intervals DEF QuoteExpired, trailing_after_quote_expired, TypeOK
<1>3. calm' \in 0..GapLimit + 1
  BY Intervals DEF QuoteExpired
<1> QED
  BY <1>1, <1>2, <1>3 DEF QuoteExpired, TypeOK

LEMMA ReplyTyped == TypeOK /\ Reply => TypeOK'
<1> SUFFICES ASSUME TypeOK, Reply PROVE TypeOK'
  OBVIOUS
<1>1. PICK inline \in SUBSET Corridors : Sent(1 + Cardinality(inline)) /\ Went(inline)
  BY DEF Reply, TypeOK
<1>2. 1 + Cardinality(inline) \in Nat
  BY Frames
<1>3. sent' \in [Ages -> Nat]
  BY <1>1, <1>2, Counted
<1>4. waiting' \in Durations /\ silent' \in Durations
  BY <1>1, Durable DEF Went, TypeOK
<1>5. quiet' \in 0..Interval /\ calm' \in 0..GapLimit + 1
  BY Intervals DEF Reply
<1> QED
  BY <1>3, <1>4, <1>5 DEF Reply, TypeOK

\* What a flush that sends does.
LEMMA Flushed ==
  ASSUME TypeOK, FlushSends
  PROVE  /\ bright' \subseteq Corridors
         /\ Cardinality(pending \cap bright') \in Nat
         /\ Sent(Cardinality(pending \cap bright'))
         /\ pending' = pending \ bright'
         /\ trailing' = Off
         /\ \A c \in Corridors :
              /\ waiting'[c] = IF c \in pending \cap bright' \/ (c \in bright) # (c \in bright')
                               THEN 0 ELSE waiting[c]
              /\ silent'[c] = IF c \in pending \cap bright' \/ (c \in bright) # (c \in bright')
                              THEN 0 ELSE silent[c]
         /\ waiting' \in Durations /\ silent' \in Durations
         /\ flushed' = IF pending \cap bright' = {} THEN flushed ELSE 0
<1>1. bright' \subseteq Corridors
  BY DEF FlushSends, TypeOK
<1> DEFINE gone == (pending \cap bright') \cup {c \in Corridors : (c \in bright) # (c \in bright')}
<1>2. Went(gone)
  BY DEF FlushSends
<1>3. \A c \in Corridors :
        c \in gone <=> c \in pending \cap bright' \/ (c \in bright) # (c \in bright')
  OBVIOUS
<1> HIDE DEF gone
<1>4. /\ waiting' = Reset(waiting, gone) /\ silent' = Reset(silent, gone)
      /\ waiting \in Durations /\ silent \in Durations
  BY <1>2 DEF Went, TypeOK
<1>5. /\ waiting' \in Durations /\ silent' \in Durations
      /\ \A c \in Corridors : /\ waiting'[c] = IF c \in gone THEN 0 ELSE waiting[c]
                              /\ silent'[c] = IF c \in gone THEN 0 ELSE silent[c]
  BY <1>4, Durable
<1>6. pending \cap bright' \in SUBSET Corridors
  BY <1>1
<1>7. pending' = pending \ bright'
  BY DEF FlushSends
<1> QED
  BY <1>1, <1>3, <1>5, <1>6, <1>7, Frames DEF FlushSends, recorded_levels_flush

LEMMA FlushTyped == TypeOK /\ flush_expired_levels => TypeOK'
<1> SUFFICES ASSUME TypeOK, flush_expired_levels PROVE TypeOK'
  OBVIOUS
<1>1. CASE FlushDark
  BY <1>1, Intervals DEF flush_expired_levels, FlushDark, TypeOK, Off
<1>2. CASE FlushDeferred
  <2> DEFINE n == Cardinality(pending \cap bright)
  <2>1. n \in Nat /\ n =< Budget /\ n # 0 /\ outbound_used + n > Budget
    BY <1>2, Frames DEF FlushDeferred, should_skip_trailing_for_rate_budget, TypeOK
  <2>2. PICK a \in Ages : next_trailing_after_budget(n) = Interval - a
    BY <2>1, Deferral
  <2>3. trailing' = Interval - a /\ pending # {}
    BY <1>2, <2>2 DEF FlushDeferred
  <2>4. Interval - a \in 0..Interval
    BY Intervals DEF Ages
  <2> QED
    BY <1>2, <2>3, <2>4 DEF flush_expired_levels, FlushDeferred, TypeOK, ghosts
<1>3. CASE FlushSends
  <2>1. sent' \in [Ages -> Nat]
    BY <1>3, Flushed, Counted
  <2>2. pending' \subseteq Corridors /\ flushed' \in 0..Interval /\ trailing' = Off
          /\ bright' \subseteq Corridors
    BY <1>3, Flushed, Intervals DEF TypeOK
  <2>3. quiet' \in 0..Interval
    BY <1>3, Intervals DEF FlushSends, TypeOK
  <2> QED
    BY <1>3, <2>1, <2>2, <2>3, Flushed DEF flush_expired_levels, FlushSends, TypeOK
<1> QED
  BY <1>1, <1>2, <1>3 DEF flush_expired_levels

\* What a tick does that is not held back.
Emits ==
  /\ tick = 0 /\ trailing = Off /\ flushed = Interval
  /\ Cardinality(bright) \in Nat /\ Cardinality(bright) =< Budget
  /\ Sent(Cardinality(bright)) /\ Went(bright)
  /\ pending' = pending \ bright /\ tick' = Interval

\* One that is.
HeldBack ==
  /\ tick = 0
  /\ tick' = IF flushed < Interval THEN Interval - flushed ELSE Interval
  /\ trailing # Off \/ flushed < Interval
  /\ UNCHANGED <<sent, pending, waiting, silent>>

LEMMA Ticks ==
  ASSUME TypeOK, IntervalTick
  PROVE  Emits \/ HeldBack
<1>1. bright \in SUBSET Corridors /\ flushed \in 0..Interval
  BY DEF TypeOK
<1> QED
  BY <1>1, Intervals, Frames
     DEF IntervalTick, should_emit_interval_levels, NextTick, Emits, HeldBack

LEMMA TickTyped == TypeOK /\ IntervalTick => TypeOK'
<1> SUFFICES ASSUME TypeOK, IntervalTick PROVE TypeOK'
  OBVIOUS
<1>0. UNCHANGED <<online, request, bright, trailing, flushed, quiet, calm, vain>>
  BY DEF IntervalTick
<1>1. CASE Emits
  <2>1. sent' \in [Ages -> Nat]
    BY <1>1, Counted DEF Emits
  <2>2. waiting' \in Durations /\ silent' \in Durations
    BY <1>1, Durable DEF Emits, Went, TypeOK
  <2>3. tick' \in 0..Interval
    BY <1>1, Intervals DEF Emits
  <2> QED
    BY <1>0, <1>1, <2>1, <2>2, <2>3 DEF Emits, TypeOK
<1>2. CASE HeldBack
  BY <1>0, <1>2, Intervals DEF HeldBack, TypeOK
<1> QED
  BY <1>1, <1>2, Ticks

LEMMA TimeTyped == TypeOK /\ Time => TypeOK'
<1> SUFFICES ASSUME TypeOK, Time PROVE TypeOK'
  OBVIOUS
<1>1. sent' \in [Ages -> Nat]
  BY Window DEF Time
<1>2. trailing' \in 0..Interval \cup {Off} /\ (trailing' # Off => trailing # Off)
  <2>1. Later(Off) = Off
    BY DEF Later, Off
  <2>2. trailing \in 0..Interval \cup {Off} /\ trailing' = Later(trailing)
    BY DEF Time, TypeOK
  <2>3. CASE trailing = Off
    BY <2>1, <2>2, <2>3
  <2>4. CASE trailing \in 0..Interval
    BY <2>2, <2>4, Clocks, Intervals DEF Off
  <2> QED
    BY <2>2, <2>3, <2>4
<1>3. tick' \in 0..Interval /\ flushed' \in 0..Interval /\ quiet' \in 0..Interval
  BY Clocks, Intervals DEF Time, TypeOK
<1>4. calm' \in 0..GapLimit + 1
  <2>1. GapLimit + 1 \in Nat
    BY Intervals
  <2>2. Older(calm, GapLimit + 1) \in 0..GapLimit + 1
    BY <2>1, Clocks DEF TypeOK
  <2> QED
    BY <2>1, <2>2 DEF Time
<1>5. vain' \in 0..2 * Interval + 1
  <2>1. 2 * Interval + 1 \in Nat
    BY Intervals
  <2> QED
    BY <2>1, Clocks DEF Time, TypeOK
<1>6. waiting' \in Durations /\ silent' \in Durations
  <2>1. GapLimit + 1 \in Nat
    BY Intervals
  <2>2. \A c \in Corridors : /\ Older(waiting[c], GapLimit + 1) \in 0..GapLimit + 1
                             /\ Older(silent[c], GapLimit + 1) \in 0..GapLimit + 1
    BY <2>1, Clocks DEF TypeOK, Durations
  <2> QED
    BY <2>1, <2>2 DEF Time, Durations
<1> QED
  BY <1>1, <1>2, <1>3, <1>4, <1>5, <1>6 DEF Time, TypeOK

LEMMA StepTyped == TypeOK /\ [Next]_vars => TypeOK'
<1> SUFFICES ASSUME TypeOK, [Next]_vars PROVE TypeOK'
  OBVIOUS
<1>1. CASE Connect
  <2>1. online' \in BOOLEAN
    BY <1>1, Zenon DEF Connect
  <2> QED
    BY <1>1, <2>1 DEF Connect, TypeOK, window, ghosts
<1>2. ASSUME NEW c \in Corridors, QuoteRequest(c) PROVE TypeOK'
  BY <1>2 DEF QuoteRequest, TypeOK, window, ghosts
<1>3. CASE UNCHANGED vars
  BY <1>3 DEF vars, TypeOK, window, ghosts
<1> QED
  BY <1>1, <1>2, <1>3, EndTyped, TurnTyped, NoticeTyped, ReplyTyped, FlushTyped, TickTyped,
     TimeTyped DEF Next

\* The flush is only ever armed for a corridor that waits for it, whatever the
\* venue sends, and is never armed further off than an interval, however often it
\* is put off (trailing_after_quote_expired, next_trailing_after_budget).
THEOREM PublicationTyped == Spec => []TypeOK
BY InitTyped, StepTyped, PTL DEF Spec

----------------------------------------------------------------------------
(* The venue's cap. *)

\* Steps that send nothing and do not touch the clocks.
LEMMA BudgetKept ==
  ASSUME Nested, Explained, SinceReply, UNCHANGED <<sent, quiet, flushed, tick>>
  PROVE  Nested' /\ Explained' /\ SinceReply'
BY DEF Nested, Explained, SinceReply

\* An empty window.
LEMMA BudgetEmpty ==
  ASSUME \A a \in Ages : sent[a] = 0, quiet = Interval
  PROVE  Nested /\ Explained /\ SinceReply
BY Intervals DEF Nested, Explained, SinceReply

LEMMA BudgetEmptied ==
  ASSUME \A a \in Ages : sent'[a] = 0, quiet' = Interval
  PROVE  Nested' /\ Explained' /\ SinceReply'
BY Intervals DEF Nested, Explained, SinceReply

\* A reply, which nothing holds back, starts the second over.
LEMMA BudgetReply ==
  ASSUME BudgetInv, Reply
  PROVE  Nested' /\ Explained' /\ SinceReply'
<1>1. PICK inline \in SUBSET Corridors : Sent(1 + Cardinality(inline))
  BY DEF Reply, BudgetInv, TypeOK
<1>2. 1 + Cardinality(inline) \in Nat
  BY Frames
<1>3. PICK n \in Nat : \A a \in Ages : sent'[a] = sent[a] + n
  BY <1>1, <1>2, Counted DEF BudgetInv
<1>4. quiet' = 0
  BY DEF Reply
<1>5. Nested'
  BY <1>3, Window DEF Nested, BudgetInv
<1> QED
  BY <1>4, <1>5 DEF Explained, SinceReply, Ages

\* A flush has counted every frame of the window, unless a feed turns on it.
LEMMA BudgetFlush ==
  ASSUME BudgetInv, FlushSends, UNCHANGED tick
  PROVE  Nested' /\ Explained' /\ SinceReply'
<1> DEFINE n == Cardinality(pending \cap bright')
<1>1. n \in Nat /\ \A a \in Ages : sent'[a] = sent[a] + n
  BY Flushed, Counted DEF BudgetInv
<1>2. pending \cap bright' \in SUBSET Corridors
  BY DEF BudgetInv, TypeOK
<1>3. n = 0 <=> pending \cap bright' = {}
  BY <1>2, Frames
<1>4. n # 0 => flushed' = 0
  BY <1>3, Flushed DEF BudgetInv
<1>5. n = 0 => flushed' = flushed
  BY <1>3, Flushed DEF BudgetInv
<1>6. bright' = bright => outbound_used + n =< Budget
  <2> SUFFICES ASSUME bright' = bright PROVE outbound_used + n =< Budget
    OBVIOUS
  <2>1. ~(outbound_used + n > Budget)
    BY DEF FlushSends, should_skip_trailing_for_rate_budget
  <2>2. outbound_used \in Nat
    BY Window DEF BudgetInv
  <2> HIDE DEF n
  <2> QED
    BY <1>1, <2>1, <2>2, Intervals
<1>7. quiet' = IF bright' = bright THEN quiet ELSE 0
  BY DEF FlushSends
<1>8. \A a \in Ages : sent[a] \in Nat
  BY Window DEF BudgetInv
<1> HIDE DEF n
<1>9. Nested'
  BY <1>1, <1>8 DEF Nested, BudgetInv
<1>10. Explained'
  <2> SUFFICES ASSUME NEW a \in Ages, sent'[a] > 0
               PROVE  flushed' =< a \/ quiet' =< a \/ Interval - a =< tick'
    BY DEF Explained
  <2>0. a \in Nat
    BY DEF Ages
  <2>1. CASE n # 0
    BY <1>4, <2>0, <2>1
  <2>2. CASE bright' # bright
    BY <1>7, <2>0, <2>2
  <2>3. CASE n = 0 /\ bright' = bright
    <3>1. sent[a] > 0
      BY <1>1, <1>8, <2>3
    <3> QED
      BY <1>5, <1>7, <2>3, <3>1 DEF Explained, BudgetInv
  <2> QED
    BY <2>1, <2>2, <2>3
<1>11. SinceReply'
  <2> SUFFICES ASSUME quiet' > 0 PROVE sent'[quiet' - 1] =< Budget
    BY DEF SinceReply
  <2>1. bright' = bright /\ quiet' = quiet
    BY <1>7
  <2>2. quiet - 1 \in Ages /\ quiet - 1 =< Interval - 1
    BY <2>1, Intervals DEF BudgetInv, TypeOK, Ages
  <2>3. sent[quiet - 1] =< outbound_used
    BY <2>2, Intervals DEF BudgetInv, Nested, outbound_used
  <2> QED
    BY <1>1, <1>6, <1>8, <2>1, <2>2, <2>3, Intervals DEF outbound_used
<1> QED
  BY <1>9, <1>10, <1>11

\* A tick that is not held back finds a window without flushes and ticks.
LEMMA BudgetTick ==
  ASSUME BudgetInv, IntervalTick
  PROVE  Nested' /\ Explained' /\ SinceReply'
<1>0. UNCHANGED <<flushed, quiet>>
  BY DEF IntervalTick
<1>1. flushed \in 0..Interval /\ quiet \in 0..Interval /\ \A a \in Ages : sent[a] \in Nat
  BY Window DEF BudgetInv, TypeOK
<1>2. CASE Emits
  <2> DEFINE n == Cardinality(bright)
  <2>1. n \in Nat /\ n =< Budget /\ \A a \in Ages : sent'[a] = sent[a] + n
    BY <1>2, Counted DEF Emits, BudgetInv
  <2> HIDE DEF n
  <2>2. Nested'
    BY <1>1, <2>1 DEF Nested, BudgetInv
  <2>3. Explained'
    BY <1>2, Intervals DEF Emits, Explained, Ages
  <2>4. SinceReply'
    <3> SUFFICES ASSUME quiet > 0 PROVE sent'[quiet - 1] =< Budget
      BY <1>0 DEF SinceReply
    <3>1. quiet - 1 \in Ages
      BY <1>1, Intervals DEF Ages
    <3>2. tick = 0 /\ flushed = Interval
      BY <1>2 DEF Emits
    <3>3. ~(sent[quiet - 1] > 0)
      BY <1>1, <3>1, <3>2, Intervals DEF BudgetInv, Explained, Ages
    <3> QED
      BY <1>1, <2>1, <3>1, <3>3, Intervals
  <2> QED
    BY <2>2, <2>3, <2>4
<1>3. CASE HeldBack
  <2>1. sent' = sent /\ tick = 0
    BY <1>3 DEF HeldBack
  <2>2. Explained'
    <3> SUFFICES ASSUME NEW a \in Ages, sent[a] > 0
                 PROVE  flushed =< a \/ quiet =< a
      BY <1>0, <2>1 DEF Explained
    <3> QED
      BY <2>1, Intervals DEF BudgetInv, Explained, Ages
  <2> QED
    BY <1>0, <2>1, <2>2 DEF BudgetInv, Nested, SinceReply
<1> QED
  BY <1>2, <1>3, Ticks DEF BudgetInv

\* Frames age as fast as the clocks that explain them.
LEMMA BudgetTime ==
  ASSUME BudgetInv, Time
  PROVE  Nested' /\ Explained' /\ SinceReply'
<1>1. \A a \in Ages : sent'[a] = IF a = 0 THEN 0 ELSE sent[a - 1]
  BY DEF Time, Younger
<1>2. /\ \A a \in Ages : a \in Nat /\ sent[a] \in Nat
      /\ \A a \in Ages : a # 0 => a - 1 \in Ages
  BY Window DEF Ages, BudgetInv
<1>3. /\ flushed \in 0..Interval /\ quiet \in 0..Interval /\ tick \in 0..Interval
      /\ flushed' =< flushed + 1 /\ quiet' =< quiet + 1 /\ tick - 1 =< tick'
      /\ quiet < Interval => quiet' = quiet + 1
      /\ quiet' \in 0..Interval /\ flushed' \in 0..Interval /\ tick' \in 0..Interval
  BY Clocks, Intervals DEF Time, BudgetInv, TypeOK
<1>4. Nested'
  <2> SUFFICES ASSUME NEW a \in Ages, NEW b \in Ages, a =< b PROVE sent'[a] =< sent'[b]
    BY DEF Nested
  <2>1. CASE a = 0
    BY <1>1, <1>2, <2>1
  <2>2. CASE a # 0
    <3>1. b # 0 /\ a - 1 \in Ages /\ b - 1 \in Ages /\ a - 1 =< b - 1
      BY <1>2, <2>2
    <3> QED
      BY <1>1, <2>2, <3>1 DEF BudgetInv, Nested
  <2> QED
    BY <2>1, <2>2
<1>5. Explained'
  <2> SUFFICES ASSUME NEW a \in Ages, sent'[a] > 0
               PROVE  flushed' =< a \/ quiet' =< a \/ Interval - a =< tick'
    BY DEF Explained
  <2>1. a # 0 /\ a - 1 \in Ages /\ sent[a - 1] > 0
    BY <1>1, <1>2
  <2>2. flushed =< a - 1 \/ quiet =< a - 1 \/ Interval - (a - 1) =< tick
    BY <2>1 DEF BudgetInv, Explained
  <2> QED
    <3>1. a \in Nat
      BY <1>2
    <3>2. CASE flushed =< a - 1
      BY <1>3, <3>1, <3>2
    <3>3. CASE quiet =< a - 1
      BY <1>3, <3>1, <3>3
    <3>4. CASE Interval - (a - 1) =< tick
      BY <1>3, <3>1, <3>4, Intervals
    <3> QED
      BY <2>2, <3>2, <3>3, <3>4
<1>6. SinceReply'
  <2> SUFFICES ASSUME quiet' > 0 PROVE sent'[quiet' - 1] =< Budget
    BY DEF SinceReply
  <2>1. CASE quiet < Interval
    <3>1. quiet' - 1 = quiet /\ quiet \in Ages
      BY <1>3, <2>1, Intervals DEF Ages
    <3>2. CASE quiet = 0
      BY <1>1, <3>1, <3>2, Intervals
    <3>3. CASE quiet # 0
      <4>1. sent'[quiet] = sent[quiet - 1]
        BY <1>1, <3>1, <3>3
      <4>2. sent[quiet - 1] =< Budget
        BY <1>3, <3>3 DEF BudgetInv, SinceReply
      <4> QED
        BY <3>1, <4>1, <4>2
    <3> QED
      BY <3>2, <3>3
  <2>2. CASE quiet = Interval
    <3>1. quiet' = Interval
      BY <2>2, Intervals DEF Time, Older
    <3>2. Interval - 1 # 0 /\ (Interval - 1) - 1 \in Ages /\ (Interval - 1) - 1 =< Interval - 1
      BY Intervals DEF Ages
    <3>3. sent'[Interval - 1] = sent[(Interval - 1) - 1]
      BY <1>1, <3>2, Intervals
    <3>4. sent[Interval - 1] =< Budget
      BY <2>2, Intervals DEF BudgetInv, SinceReply
    <3>5. sent[(Interval - 1) - 1] =< sent[Interval - 1]
      BY <3>2, Intervals DEF BudgetInv, Nested
    <3> QED
      BY <1>2, <3>1, <3>2, <3>3, <3>4, <3>5, Intervals
  <2> QED
    BY <1>3, <2>1, <2>2, Intervals
<1> QED
  BY <1>4, <1>5, <1>6

LEMMA StepBudget == BudgetInv /\ [Next]_vars => BudgetInv'
<1> SUFFICES ASSUME BudgetInv, [Next]_vars PROVE Nested' /\ Explained' /\ SinceReply'
  BY StepTyped DEF BudgetInv
<1>1. CASE UNCHANGED <<sent, quiet, flushed, tick>>
  BY <1>1, BudgetKept DEF BudgetInv
<1>2. CASE End
  <2>1. quiet' = Interval /\ \A a \in Ages : sent'[a] = 0
    BY <1>2 DEF End, Fresh
  <2> QED
    BY <2>1, BudgetEmptied
<1>3. CASE flush_expired_levels
  <2>1. FlushDark \/ FlushDeferred => UNCHANGED <<sent, quiet, flushed, tick>>
    BY <1>3 DEF flush_expired_levels, FlushDark, FlushDeferred, ghosts
  <2>2. UNCHANGED tick
    BY <1>3 DEF flush_expired_levels
  <2> QED
    BY <1>1, <1>3, <2>1, <2>2, BudgetFlush DEF flush_expired_levels
<1>4. \/ Connect \/ UNCHANGED vars
      \/ \E c \in Corridors : Turn(c) \/ QuoteRequest(c)
      \/ \E slug \in {{}} \cup {{c} : c \in Corridors} : QuoteExpired(slug)
      => UNCHANGED <<sent, quiet, flushed, tick>>
  BY DEF Connect, Turn, QuoteRequest, QuoteExpired, vars, window, ghosts
<1> QED
  BY <1>1, <1>2, <1>3, <1>4, BudgetReply, BudgetTick, BudgetTime DEF Next

\* Expiry flushes and interval ticks, for any number of corridors under the cap
\* and in any order of notices, feeds that turn and sessions that end, never send
\* more in a second than the venue admits, unless there was a reply in it or a
\* feed turned on a flush (recorded_levels_flush, should_emit_interval_levels and
\* interval_delay_after_expiry_flush together).
THEOREM CapIsKept == Spec => []InBudget
<1>1. Init => BudgetInv
  <2> SUFFICES ASSUME Init PROVE BudgetInv
    OBVIOUS
  <2>1. quiet = Interval /\ \A a \in Ages : sent[a] = 0
    BY DEF Init
  <2> QED
    BY <2>1, InitTyped, BudgetEmpty DEF BudgetInv
<1>2. BudgetInv => InBudget
  BY Intervals DEF BudgetInv, SinceReply, InBudget, outbound_used
<1> QED
  BY <1>1, <1>2, StepBudget, PTL DEF Spec

----------------------------------------------------------------------------
(* Expired corridors are out in time. *)

LEMMA MinOfTwo ==
  ASSUME NEW x \in Int, NEW y \in Int, NEW n \in Int
  PROVE  Min({x, y}) =< n <=> x =< n \/ y =< n
<1>1. \E m \in {x, y} : \A k \in {x, y} : m =< k
  <2>1. CASE x =< y
    BY <2>1
  <2>2. CASE y < x
    BY <2>2
  <2> QED
    BY <2>1, <2>2
<1>2. Min({x, y}) \in {x, y} /\ \A k \in {x, y} : Min({x, y}) =< k
  BY <1>1 DEF Min
<1>3. Min({x, y}) \in Int /\ Min({x, y}) =< x /\ Min({x, y}) =< y
        /\ (Min({x, y}) = x \/ Min({x, y}) = y)
  BY <1>2
<1> QED
  BY <1>3

\* The clocks, typed.
LEMMA Times ==
  ASSUME TypeOK
  PROVE  /\ trailing \in Int /\ (trailing # Off => trailing \in 0..Interval)
         /\ flushed \in 0..Interval /\ tick \in 0..Interval
         /\ calm \in 0..GapLimit + 1 /\ vain \in 0..2 * Interval + 1
         /\ \A c \in Corridors : /\ waiting[c] \in 0..GapLimit + 1
                                 /\ silent[c] \in 0..GapLimit + 1
         /\ \A a \in Ages : a \in Nat /\ sent[a] \in Nat
         /\ pending \subseteq Corridors /\ bright \subseteq Corridors
BY Window, Intervals DEF TypeOK, Off, Durations, Ages

LEMMA TimesNext ==
  ASSUME TypeOK'
  PROVE  /\ trailing' \in Int /\ (trailing' # Off => trailing' \in 0..Interval)
         /\ flushed' \in 0..Interval /\ tick' \in 0..Interval
         /\ calm' \in 0..GapLimit + 1 /\ vain' \in 0..2 * Interval + 1
         /\ \A c \in Corridors : /\ waiting'[c] \in 0..GapLimit + 1
                                 /\ silent'[c] \in 0..GapLimit + 1
         /\ \A a \in Ages : a \in Nat /\ sent'[a] \in Nat
         /\ pending' \subseteq Corridors /\ bright' \subseteq Corridors
BY Intervals DEF TypeOK, Off, Durations, Ages

\* A corridor whose wait starts over.
LEMMA StartsOver ==
  ASSUME TypeOK', NEW c \in Corridors, waiting'[c] = 0 \/ calm' = 0
  PROVE  PromptFor(c)'
<1>1. \A n \in Nat : Within(c, n)'
  BY DEF Within
<1>2. /\ trailing' # Off => Interval - trailing' \in Nat
      /\ Interval - tick' \in Nat /\ flushed' \in Nat /\ \A a \in Ages : a \in Nat
  BY TimesNext, Intervals
<1> QED
  BY <1>1, <1>2 DEF PromptFor

\* Steps that leave alone what the wait depends on.
LEMMA PromptKept ==
  ASSUME NEW c, PromptFor(c),
         UNCHANGED <<sent, waiting, calm, trailing, tick, flushed>>
  PROVE  PromptFor(c)'
BY DEF PromptFor, Within

LEMMA PromptTurn ==
  ASSUME PromptInv, TypeOK', NEW d \in Corridors, Turn(d)
  PROVE  PromptInv'
<1>1. \A c \in Corridors : waiting'[c] = IF c = d THEN 0 ELSE waiting[c]
  BY Durable DEF Turn, Went, PromptInv, TypeOK
<1>2. \A c \in Corridors : c # d => (c \in bright' <=> c \in bright)
  BY DEF Turn
<1>3. UNCHANGED <<sent, calm, trailing, tick, flushed, pending>>
  BY DEF Turn, window
<1>4. OnlyReadyWait'
  BY <1>1, <1>2, <1>3 DEF PromptInv, OnlyReadyWait
<1>5. ASSUME NEW c \in pending' \cap bright' PROVE PromptFor(c)'
  <2>1. c \in Corridors
    BY TimesNext
  <2>2. CASE c = d
    BY <1>1, <2>1, <2>2, StartsOver
  <2>3. CASE c # d
    <3>1. waiting'[c] = waiting[c] /\ c \in pending \cap bright
      BY <1>1, <1>2, <1>3, <1>5, <2>1, <2>3
    <3> QED
      BY <1>3, <3>1 DEF PromptInv, PromptFor, Within
  <2> QED
    BY <2>2, <2>3
<1> QED
  BY <1>4, <1>5 DEF PromptInv

\* A notice or a reply starts every wait over.
LEMMA PromptStirred ==
  ASSUME PromptInv, TypeOK', calm' = 0, OnlyReadyWait'
  PROVE  PromptInv'
<1>1. \A c \in pending' \cap bright' : c \in Corridors
  BY TimesNext
<1> QED
  BY <1>1, StartsOver DEF PromptInv

LEMMA PromptReply == PromptInv /\ TypeOK' /\ Reply => PromptInv'
<1> SUFFICES ASSUME PromptInv, TypeOK', Reply PROVE PromptInv'
  OBVIOUS
<1>1. PICK inline : waiting' = Reset(waiting, inline)
  BY DEF Reply, Went
<1>2. \A c \in Corridors : waiting'[c] # 0 => waiting[c] # 0
  BY <1>1, Durable DEF PromptInv, TypeOK
<1>3. OnlyReadyWait'
  BY <1>2 DEF Reply, PromptInv, OnlyReadyWait
<1> QED
  BY <1>3, PromptStirred DEF Reply

LEMMA PromptNotice ==
  ASSUME PromptInv, TypeOK', NEW slug, QuoteExpired(slug)
  PROVE  PromptInv'
<1>1. OnlyReadyWait'
  BY DEF QuoteExpired, PromptInv, OnlyReadyWait
<1> QED
  BY <1>1, PromptStirred DEF QuoteExpired

\* A flush that is put off waits for frames older than the wait.
LEMMA PromptFlush == PromptInv /\ TypeOK' /\ flush_expired_levels => PromptInv'
<1> SUFFICES ASSUME PromptInv, TypeOK', flush_expired_levels PROVE PromptInv'
  OBVIOUS
<1>1. CASE FlushDark
  BY <1>1 DEF FlushDark, PromptInv, OnlyReadyWait
<1>2. CASE FlushDeferred
  <2> DEFINE n == Cardinality(pending \cap bright)
  <2>1. n \in Nat /\ n =< Budget /\ outbound_used + n > Budget
    BY <1>2, Frames
       DEF FlushDeferred, should_skip_trailing_for_rate_budget, PromptInv, TypeOK
  <2>2. PICK a \in Ages : next_trailing_after_budget(n) = Interval - a /\ sent[a] > 0
    BY <2>1, Deferral DEF PromptInv
  <2>3. trailing' = Interval - a
          /\ UNCHANGED <<sent, waiting, calm, tick, flushed, pending, bright>>
    BY <1>2, <2>2 DEF flush_expired_levels, FlushDeferred, ghosts
  <2>4. Interval - (Interval - a) = a /\ Interval - a # Off
    BY Intervals DEF Ages, Off
  <2>5. ASSUME NEW c \in pending \cap bright PROVE PromptFor(c)'
    <3>1. Within(c, a) /\ \A b \in Ages : sent[b] > 0 => Within(c, b)
      BY <2>2, <2>5 DEF PromptInv, PromptFor
    <3> QED
      BY <2>3, <2>4, <3>1 DEF PromptFor, Within
  <2> QED
    BY <2>3, <2>5 DEF PromptInv, OnlyReadyWait
<1>3. CASE FlushSends
  <2>1. pending' \cap bright' = {}
    BY <1>3, Flushed DEF PromptInv
  <2>2. OnlyReadyWait'
    BY <1>3, Flushed DEF PromptInv, OnlyReadyWait
  <2> QED
    BY <2>1, <2>2 DEF PromptInv
<1> QED
  BY <1>1, <1>2, <1>3 DEF flush_expired_levels

\* A tick either sends every corridor that waits or is put back to the end of the
\* flush's interval.
LEMMA PromptTick == PromptInv /\ TypeOK' /\ IntervalTick => PromptInv'
<1> SUFFICES ASSUME PromptInv, TypeOK', IntervalTick PROVE PromptInv'
  OBVIOUS
<1>0. UNCHANGED <<bright, trailing, flushed, calm>>
  BY DEF IntervalTick
<1>1. CASE Emits
  <2>1. pending' \cap bright' = {}
    BY <1>0, <1>1 DEF Emits
  <2>2. \A c \in Corridors : waiting'[c] = IF c \in bright THEN 0 ELSE waiting[c]
    BY <1>1, Durable DEF Emits, Went, PromptInv, TypeOK
  <2> QED
    BY <1>0, <1>1, <2>1, <2>2 DEF Emits, PromptInv, OnlyReadyWait
<1>2. CASE HeldBack
  <2>1. UNCHANGED <<sent, waiting, pending>>
    BY <1>2 DEF HeldBack
  <2>2. trailing = Off => flushed < Interval /\ tick' = Interval - flushed
    BY <1>2 DEF HeldBack
  <2>3. Interval - (Interval - flushed) = flushed
    BY Times, Intervals DEF PromptInv
  <2>4. ASSUME NEW c \in pending \cap bright PROVE PromptFor(c)'
    BY <1>0, <2>1, <2>2, <2>3 DEF PromptInv, PromptFor, Within
  <2> QED
    BY <1>0, <2>1, <2>4 DEF PromptInv, OnlyReadyWait
<1> QED
  BY <1>1, <1>2, Ticks DEF PromptInv

\* Time brings what is due closer as fast as it lets the corridor wait.
LEMMA PromptTime == PromptInv /\ TypeOK' /\ Time => PromptInv'
<1> SUFFICES ASSUME PromptInv, TypeOK', Time PROVE PromptInv'
  OBVIOUS
<1>1. UNCHANGED <<pending, bright>>
  BY DEF Time
<1>2. \A c \in Corridors :
        waiting'[c] = IF c \in pending \cap bright THEN Older(waiting[c], GapLimit + 1) ELSE 0
  BY DEF Time
<1>3. OnlyReadyWait'
  BY <1>1, <1>2 DEF OnlyReadyWait
<1>4. CASE request # {}
  <2>1. calm' = 0
    BY <1>4 DEF Time
  <2> QED
    BY <1>3, <2>1, PromptStirred
<1>5. CASE request = {}
  <2>1. GapLimit + 1 \in Nat /\ calm' = Older(calm, GapLimit + 1)
    BY <1>5, Intervals DEF Time
  <2>2. calm' \in Int /\ calm' =< calm + 1 /\ calm \in Int
    BY <2>1, Times, Clocks DEF PromptInv
  <2>3. ASSUME NEW c \in pending \cap bright, NEW n \in Int, Within(c, n)
        PROVE  Within(c, n + 1)'
    <3>1. c \in Corridors
      BY Times DEF PromptInv
    <3>2. waiting[c] \in Int /\ waiting'[c] \in Int /\ waiting'[c] =< waiting[c] + 1
      <4>1. waiting'[c] = Older(waiting[c], GapLimit + 1)
        BY <1>2, <2>3, <3>1
      <4>2. waiting[c] \in 0..GapLimit + 1
        BY <3>1, Times DEF PromptInv
      <4> QED
        BY <2>1, <4>1, <4>2 DEF Older
    <3> QED
      BY <2>2, <2>3, <3>2 DEF Within
  <2>4. ASSUME NEW c \in pending \cap bright PROVE PromptFor(c)'
    <3>1. PromptFor(c)
      BY <2>4 DEF PromptInv
    <3>2. ASSUME NEW a \in Ages, sent'[a] > 0 PROVE Within(c, a)'
      <4>1. sent'[a] = Younger(a)
        BY DEF Time
      <4>2. a # 0
        BY <3>2, <4>1, Window DEF PromptInv
      <4>3. a - 1 \in Ages /\ sent[a - 1] > 0
        BY <3>2, <4>1, <4>2, Window DEF PromptInv
      <4>4. Within(c, a - 1)
        BY <3>1, <4>3 DEF PromptFor
      <4>5. a - 1 \in Int /\ (a - 1) + 1 = a
        BY DEF Ages
      <4>6. Within(c, (a - 1) + 1)'
        BY <2>3, <4>4, <4>5
      <4> QED
        BY <4>5, <4>6
    <3>3. ASSUME trailing' # Off PROVE Within(c, Interval - trailing)'
      <4>1. trailing # Off /\ trailing # 0 /\ trailing' = Later(trailing)
        BY <1>5, <3>3 DEF Time, Later, Off
      <4>2. trailing \in 0..Interval /\ trailing' = trailing - 1
        BY <4>1, Times, Intervals, Clocks DEF PromptInv
      <4>3. PICK n \in Int : n = Interval - trailing /\ Within(c, n)
        BY <3>1, <4>1, <4>2, Intervals DEF PromptFor
      <4>4. Within(c, n + 1)'
        BY <2>3, <4>3
      <4>5. n + 1 = Interval - trailing'
        BY <4>2, <4>3, Intervals
      <4> QED
        BY <4>4, <4>5
    <3>4. ASSUME trailing' = Off PROVE Within(c, Interval - tick)' /\ Within(c, flushed)'
      <4>1. trailing = Off
        BY <3>4, Times, Clocks, Intervals DEF Time, Later, Off, PromptInv
      <4>2. tick \in 0..Interval /\ tick # 0 /\ tick' = tick - 1
        BY <1>5, Times, Clocks DEF Time, PromptInv
      <4>3. PICK n \in Int : n = Interval - tick /\ Within(c, n)
        BY <3>1, <4>1, <4>2, Intervals DEF PromptFor
      <4>4. Within(c, n + 1)'
        BY <2>3, <4>3
      <4>5. n + 1 = Interval - tick' /\ n + 1 =< Interval
        BY <4>2, <4>3, Intervals
      <4>6. Within(c, Interval - tick)'
        BY <4>4, <4>5
      <4>7. Within(c, flushed)'
        <5>1. CASE flushed < Interval
          <6>1. PICK m \in Int : m = flushed /\ Within(c, m)
            BY <3>1, <4>1, Times DEF PromptFor, PromptInv
          <6>2. Within(c, m + 1)' /\ flushed' = m + 1
            BY <2>3, <5>1, <6>1, Times, Clocks, Intervals DEF Time, PromptInv
          <6> QED
            BY <6>2
        <5>2. CASE ~(flushed < Interval)
          <6>1. flushed' = Interval
            BY <5>2, Times, Intervals DEF Time, Older, PromptInv
          <6>2. c \in Corridors
            BY Times DEF PromptInv
          <6> QED
            BY <2>2, <4>4, <4>5, <6>1, <6>2, TimesNext, Intervals DEF Within
        <5> QED
          BY <5>1, <5>2
      <4> QED
        BY <4>6, <4>7
    <3> QED
      BY <3>2, <3>3, <3>4 DEF PromptFor
  <2> QED
    BY <1>1, <1>3, <2>4 DEF PromptInv
<1> QED
  BY <1>4, <1>5

LEMMA StepPrompt == PromptInv /\ [Next]_vars => PromptInv'
<1> SUFFICES ASSUME PromptInv, [Next]_vars PROVE PromptInv'
  OBVIOUS
<1>0. TypeOK'
  BY StepTyped DEF PromptInv
<1>1. CASE UNCHANGED <<bright, window, ghosts>>
  <2>1. UNCHANGED <<sent, waiting, calm, trailing, tick, flushed, pending, bright>>
    BY <1>1 DEF window, ghosts
  <2> QED
    BY <1>0, <2>1, PromptKept DEF PromptInv, OnlyReadyWait
<1>2. CASE End
  <2>1. pending' = {} /\ \A c \in Corridors : waiting'[c] = 0
    BY <1>2, Durable DEF End, Fresh
  <2> QED
    BY <1>0, <2>1 DEF PromptInv, OnlyReadyWait
<1>3. Connect \/ UNCHANGED vars \/ (\E c \in Corridors : QuoteRequest(c))
        => UNCHANGED <<bright, window, ghosts>>
  BY DEF Connect, QuoteRequest, vars
<1> QED
  BY <1>0, <1>1, <1>2, <1>3, PromptTurn, PromptReply, PromptNotice, PromptFlush, PromptTick,
     PromptTime DEF Next

\* However a flush was put off for the cap, whatever other corridors are dark and
\* whenever the tick falls, a corridor whose quote expired is published again
\* within an interval of usable price and quiet venue (next_trailing_after_budget,
\* next_trailing_for_dark_pending, interval_delay_after_expiry_flush).
THEOREM ExpiredAreOut == Spec => []Prompt
<1>1. Init => PromptInv
  BY InitTyped, Durable DEF Init, PromptInv, OnlyReadyWait
<1>2. PromptInv => Prompt
  <2> SUFFICES ASSUME PromptInv, NEW c \in Corridors PROVE Min({waiting[c], calm}) =< Interval
    BY DEF Prompt
  <2>1. waiting[c] \in Int /\ calm \in Int /\ Interval \in Int /\ 0 =< Interval
    BY Times, Intervals DEF PromptInv
  <2>2. Within(c, Interval)
    <3>1. CASE c \notin pending \cap bright
      BY <2>1, <3>1 DEF PromptInv, OnlyReadyWait, Within
    <3>2. CASE c \in pending \cap bright
      <4>1. \E n \in Int : n =< Interval /\ Within(c, n)
        BY <3>2, Times, Intervals DEF PromptInv, PromptFor
      <4> QED
        BY <2>1, <4>1 DEF Within
    <3> QED
      BY <3>1, <3>2
  <2> QED
    BY <2>1, <2>2, MinOfTwo DEF Within
<1> QED
  BY <1>1, <1>2, StepPrompt, PTL DEF Spec

----------------------------------------------------------------------------
(* The others are not held back for long. *)

LEMMA MinOfThree ==
  ASSUME NEW x \in Int, NEW y \in Int, NEW z \in Int, NEW n \in Int,
         x =< n \/ y =< n \/ z =< n
  PROVE  Min({x, y, z}) =< n
<1>1. \E m \in {x, y, z} : \A k \in {x, y, z} : m =< k
  <2>1. CASE x =< y /\ x =< z
    BY <2>1
  <2>2. CASE y =< x /\ y =< z
    BY <2>2
  <2>3. CASE z =< x /\ z =< y
    BY <2>3
  <2> QED
    BY <2>1, <2>2, <2>3
<1>2. Min({x, y, z}) \in {x, y, z} /\ \A k \in {x, y, z} : Min({x, y, z}) =< k
  BY <1>1 DEF Min
<1>3. Min({x, y, z}) \in Int
        /\ Min({x, y, z}) =< x /\ Min({x, y, z}) =< y /\ Min({x, y, z}) =< z
  BY <1>2
<1> QED
  BY <1>3

\* A corridor whose silence starts over, or a step that stirs the venue.
LEMMA StartsAnew ==
  ASSUME TypeOK', NEW c \in Corridors, silent'[c] = 0 \/ calm' = 0 \/ vain' = 0
  PROVE  CadenceFor(c)'
<1>1. \A n \in Nat : Lately(c, n)'
  BY DEF Lately
<1>2. /\ trailing' # Off => Interval - trailing' \in Nat
      /\ 2 * Interval - tick' \in Nat /\ Interval + flushed' \in Nat
      /\ \A a \in Ages : a \in Nat
  BY TimesNext, Intervals
<1> QED
  BY <1>1, <1>2 DEF CadenceFor

LEMMA CadenceKept ==
  ASSUME NEW c, CadenceFor(c),
         UNCHANGED <<sent, silent, calm, vain, trailing, tick, flushed>>
  PROVE  CadenceFor(c)'
BY DEF CadenceFor, Lately

LEMMA CadenceTurn ==
  ASSUME CadenceInv, TypeOK', NEW d \in Corridors, Turn(d)
  PROVE  CadenceInv'
<1>1. \A c \in Corridors : silent'[c] = IF c = d THEN 0 ELSE silent[c]
  BY Durable DEF Turn, Went, CadenceInv, TypeOK
<1>2. \A c \in Corridors : c # d => (c \in bright' <=> c \in bright)
  BY DEF Turn
<1>3. UNCHANGED <<sent, calm, vain, trailing, tick, flushed>>
  BY DEF Turn, window
<1>4. OnlyBrightAreSilent'
  BY <1>1, <1>2 DEF CadenceInv, OnlyBrightAreSilent
<1>5. ASSUME NEW c \in Corridors PROVE CadenceFor(c)'
  <2>1. CASE c = d
    BY <1>1, <2>1, StartsAnew
  <2>2. CASE c # d
    <3>1. silent'[c] = silent[c]
      BY <1>1, <2>2
    <3> QED
      BY <1>3, <3>1 DEF CadenceInv, CadenceFor, Lately
  <2> QED
    BY <2>1, <2>2
<1> QED
  BY <1>4, <1>5 DEF CadenceInv

LEMMA CadenceReply == CadenceInv /\ TypeOK' /\ Reply => CadenceInv'
<1> SUFFICES ASSUME CadenceInv, TypeOK', Reply PROVE CadenceInv'
  OBVIOUS
<1>1. PICK inline : silent' = Reset(silent, inline)
  BY DEF Reply, Went
<1>2. \A c \in Corridors : silent'[c] # 0 => silent[c] # 0
  BY <1>1, Durable DEF CadenceInv, TypeOK
<1>3. OnlyBrightAreSilent'
  BY <1>2 DEF Reply, CadenceInv, OnlyBrightAreSilent
<1> QED
  BY <1>3, StartsAnew DEF Reply, CadenceInv

LEMMA CadenceNotice ==
  ASSUME CadenceInv, TypeOK', NEW slug, QuoteExpired(slug)
  PROVE  CadenceInv'
<1>1. OnlyBrightAreSilent'
  BY DEF QuoteExpired, CadenceInv, OnlyBrightAreSilent
<1> QED
  BY <1>1, StartsAnew DEF QuoteExpired, CadenceInv

\* A flush that is put off is over when the frames that were in the window are
\* gone; one that sends leaves the tick an interval.
LEMMA CadenceFlush == CadenceInv /\ TypeOK' /\ flush_expired_levels => CadenceInv'
<1> SUFFICES ASSUME CadenceInv, TypeOK', flush_expired_levels PROVE CadenceInv'
  OBVIOUS
<1>0. trailing = 0 /\ trailing # Off /\ tick' = tick
  BY DEF flush_expired_levels, Off
<1>1. CASE FlushDark
  <2>1. vain' = 0 /\ OnlyBrightAreSilent'
    BY <1>1 DEF FlushDark, CadenceInv, OnlyBrightAreSilent
  <2> QED
    BY <2>1, StartsAnew DEF CadenceInv
<1>2. CASE FlushDeferred
  <2> DEFINE n == Cardinality(pending \cap bright)
  <2>1. n \in Nat /\ n =< Budget /\ outbound_used + n > Budget
    BY <1>2, Frames
       DEF FlushDeferred, should_skip_trailing_for_rate_budget, CadenceInv, TypeOK
  <2>2. PICK a \in Ages : next_trailing_after_budget(n) = Interval - a /\ sent[a] > 0
    BY <2>1, Deferral DEF CadenceInv
  <2>3. trailing' = Interval - a /\ UNCHANGED <<sent, silent, calm, vain, flushed, bright>>
    BY <1>2, <2>2 DEF FlushDeferred, ghosts
  <2>4. Interval - (Interval - a) = a /\ Interval - a # Off
    BY Intervals DEF Ages, Off
  <2>5. ASSUME NEW c \in Corridors PROVE CadenceFor(c)'
    <3>1. Lately(c, a) /\ \A b \in Ages : sent[b] > 0 => Lately(c, b)
      BY <1>0, <2>2 DEF CadenceInv, CadenceFor
    <3> QED
      BY <2>3, <2>4, <3>1 DEF CadenceFor, Lately
  <2> QED
    BY <2>3, <2>5 DEF CadenceInv, OnlyBrightAreSilent
<1>3. CASE FlushSends
  <2>1. OnlyBrightAreSilent'
    BY <1>3, Flushed DEF CadenceInv, OnlyBrightAreSilent
  <2>2. trailing' = Off /\ UNCHANGED <<calm, vain>>
    BY <1>3 DEF FlushSends
  <2>3. ASSUME NEW c \in Corridors PROVE CadenceFor(c)'
    <3>1. CASE silent'[c] = 0
      BY <3>1, StartsAnew
    <3>2. CASE silent'[c] # 0
      <4>1. silent'[c] = silent[c]
        BY <1>3, <3>2, Flushed DEF CadenceInv
      <4>2. PICK n \in Int : n = Interval /\ Lately(c, n)
        BY <1>0, Intervals DEF CadenceInv, CadenceFor
      <4>3. silent'[c] =< Interval \/ calm' =< Interval \/ vain' =< Interval
        BY <2>2, <4>1, <4>2 DEF Lately
      <4>4. PICK t \in 0..Interval, f \in 0..Interval : t = tick' /\ f = flushed'
        BY TimesNext
      <4>5. silent'[c] \in Int /\ calm' \in Int /\ vain' \in Int
        BY TimesNext, Intervals
      <4>6. \A x \in Int : x =< Interval => x =< 2 * Interval - t /\ x =< Interval + f
        BY Intervals
      <4>7. Lately(c, 2 * Interval - tick)' /\ Lately(c, Interval + flushed)'
        BY <4>3, <4>4, <4>5, <4>6 DEF Lately
      <4> QED
        BY <2>2, <4>7 DEF CadenceFor
    <3> QED
      BY <3>1, <3>2
  <2> QED
    BY <2>1, <2>3 DEF CadenceInv
<1> QED
  BY <1>1, <1>2, <1>3 DEF flush_expired_levels

\* A tick either sends every corridor that can be sent or is put back to the end
\* of the flush's interval.
LEMMA CadenceTick == CadenceInv /\ TypeOK' /\ IntervalTick => CadenceInv'
<1> SUFFICES ASSUME CadenceInv, TypeOK', IntervalTick PROVE CadenceInv'
  OBVIOUS
<1>0. UNCHANGED <<bright, trailing, flushed, calm, vain>>
  BY DEF IntervalTick
<1>1. CASE Emits
  <2>1. \A c \in Corridors : silent'[c] = 0
    BY <1>1, Durable DEF Emits, Went, CadenceInv, TypeOK, OnlyBrightAreSilent
  <2> QED
    BY <2>1, StartsAnew DEF CadenceInv, OnlyBrightAreSilent
<1>2. CASE HeldBack
  <2>1. UNCHANGED <<sent, silent>>
    BY <1>2 DEF HeldBack
  <2>2. trailing = Off => flushed < Interval /\ tick' = Interval - flushed
    BY <1>2 DEF HeldBack
  <2>3. 2 * Interval - (Interval - flushed) = Interval + flushed
    BY Times, Intervals DEF CadenceInv
  <2>4. ASSUME NEW c \in Corridors PROVE CadenceFor(c)'
    BY <1>0, <2>1, <2>2, <2>3 DEF CadenceInv, CadenceFor, Lately
  <2> QED
    BY <1>0, <2>1, <2>4 DEF CadenceInv, OnlyBrightAreSilent
<1> QED
  BY <1>1, <1>2, Ticks DEF CadenceInv

LEMMA CadenceTime == CadenceInv /\ TypeOK' /\ Time => CadenceInv'
<1> SUFFICES ASSUME CadenceInv, TypeOK', Time PROVE CadenceInv'
  OBVIOUS
<1>1. \A c \in Corridors :
        silent'[c] = IF c \in bright THEN Older(silent[c], GapLimit + 1) ELSE 0
  BY DEF Time
<1>2. OnlyBrightAreSilent'
  BY <1>1 DEF OnlyBrightAreSilent, Time
<1>3. CASE request # {}
  <2>1. calm' = 0
    BY <1>3 DEF Time
  <2> QED
    BY <1>2, <2>1, StartsAnew DEF CadenceInv
<1>4. CASE request = {}
  <2>1. /\ calm' = Older(calm, GapLimit + 1) /\ vain' = Older(vain, 2 * Interval + 1)
        /\ calm \in 0..GapLimit + 1 /\ vain \in 0..2 * Interval + 1
    BY <1>4, Times DEF Time, CadenceInv
  <2>2. calm' \in Int /\ calm' =< calm + 1 /\ calm \in Int
    BY <2>1, Intervals DEF Older
  <2>3. vain' \in Int /\ vain' =< vain + 1 /\ vain \in Int
    BY <2>1, Intervals DEF Older
  <2>4. ASSUME NEW c \in Corridors, NEW n \in Int, Lately(c, n)
        PROVE  Lately(c, n + 1)'
    <3>1. silent[c] \in 0..GapLimit + 1
      BY Times DEF CadenceInv
    <3>2. silent[c] \in Int /\ silent'[c] \in Int /\ silent'[c] =< silent[c] + 1
      BY <1>1, <3>1, Intervals DEF Older
    <3> QED
      BY <2>2, <2>3, <2>4, <3>2 DEF Lately
  <2>5. ASSUME NEW c \in Corridors PROVE CadenceFor(c)'
    <3>1. CadenceFor(c)
      BY DEF CadenceInv
    <3>2. ASSUME trailing' # Off
          PROVE  (\A a \in Ages : sent[a] > 0 => Lately(c, a))' /\ Lately(c, Interval - trailing)'
      <4>1. trailing # Off /\ trailing # 0 /\ trailing' = Later(trailing)
        BY <1>4, <3>2 DEF Time, Later, Off
      <4>2. trailing \in 0..Interval /\ trailing' = trailing - 1
        BY <4>1, Times, Intervals, Clocks DEF CadenceInv
      <4>3. ASSUME NEW a \in Ages, sent'[a] > 0 PROVE Lately(c, a)'
        <5>1. sent'[a] = Younger(a)
          BY DEF Time
        <5>2. a # 0
          BY <4>3, <5>1, Window DEF CadenceInv
        <5>3. a - 1 \in Ages /\ sent[a - 1] > 0
          BY <4>3, <5>1, <5>2, Window DEF CadenceInv
        <5>4. Lately(c, a - 1)
          BY <3>1, <4>1, <5>3 DEF CadenceFor
        <5>5. a - 1 \in Int /\ (a - 1) + 1 = a
          BY DEF Ages
        <5>6. Lately(c, (a - 1) + 1)'
          BY <2>4, <5>4, <5>5
        <5> QED
          BY <5>5, <5>6
      <4>4. PICK n \in Int : n = Interval - trailing /\ Lately(c, n)
        BY <3>1, <4>1, <4>2, Intervals DEF CadenceFor
      <4>5. Lately(c, n + 1)'
        BY <2>4, <4>4
      <4>6. n + 1 = Interval - trailing'
        BY <4>2, <4>4, Intervals
      <4> QED
        BY <4>3, <4>5, <4>6
    <3>3. ASSUME trailing' = Off
          PROVE  Lately(c, 2 * Interval - tick)' /\ Lately(c, Interval + flushed)'
      <4>1. trailing = Off
        BY <3>3, Times, Clocks, Intervals DEF Time, Later, Off, CadenceInv
      <4>2. tick \in 0..Interval /\ tick # 0 /\ tick' = tick - 1
        BY <1>4, Times, Clocks DEF Time, CadenceInv
      <4>3. PICK n \in Int : n = 2 * Interval - tick /\ Lately(c, n)
        BY <3>1, <4>1, <4>2, Intervals DEF CadenceFor
      <4>4. Lately(c, n + 1)'
        BY <2>4, <4>3
      <4>5. n + 1 = 2 * Interval - tick' /\ n + 1 =< 2 * Interval
        BY <4>2, <4>3, Intervals
      <4>6. Lately(c, 2 * Interval - tick)'
        BY <4>4, <4>5
      <4>7. Lately(c, Interval + flushed)'
        <5>1. CASE flushed < Interval
          <6>1. flushed \in 0..Interval /\ flushed' = flushed + 1
            BY <5>1, Times DEF Time, Older, CadenceInv
          <6>2. PICK m \in Int : m = Interval + flushed /\ Lately(c, m)
            BY <3>1, <4>1, <6>1, Intervals DEF CadenceFor
          <6>3. Lately(c, m + 1)' /\ Interval + flushed' = m + 1
            BY <2>4, <6>1, <6>2, Intervals
          <6> QED
            BY <6>3
        <5>2. CASE ~(flushed < Interval)
          <6>1. Interval + flushed' = 2 * Interval
            BY <5>2, Times, Intervals DEF Time, Older, CadenceInv
          <6>2. silent'[c] \in Int
            BY TimesNext
          <6>3. Lately(c, 2 * Interval)'
            BY <2>2, <2>3, <4>3, <4>4, <4>5, <6>2, Intervals DEF Lately
          <6> QED
            BY <6>1, <6>3
        <5> QED
          BY <5>1, <5>2
      <4> QED
        BY <4>6, <4>7
    <3> QED
      BY <3>2, <3>3 DEF CadenceFor
  <2> QED
    BY <1>2, <2>5 DEF CadenceInv
<1> QED
  BY <1>3, <1>4

LEMMA StepCadence == CadenceInv /\ [Next]_vars => CadenceInv'
<1> SUFFICES ASSUME CadenceInv, [Next]_vars PROVE CadenceInv'
  OBVIOUS
<1>0. TypeOK'
  BY StepTyped DEF CadenceInv
<1>1. CASE UNCHANGED <<bright, window, ghosts>>
  <2>1. UNCHANGED <<sent, silent, calm, vain, trailing, tick, flushed, bright>>
    BY <1>1 DEF window, ghosts
  <2> QED
    BY <1>0, <2>1, CadenceKept DEF CadenceInv, OnlyBrightAreSilent
<1>2. CASE End
  <2>1. \A c \in Corridors : silent'[c] = 0
    BY <1>2, Durable DEF End, Fresh
  <2> QED
    BY <1>0, <2>1, StartsAnew DEF CadenceInv, OnlyBrightAreSilent
<1>3. Connect \/ UNCHANGED vars \/ (\E c \in Corridors : QuoteRequest(c))
        => UNCHANGED <<bright, window, ghosts>>
  BY DEF Connect, QuoteRequest, vars
<1> QED
  BY <1>0, <1>1, <1>2, <1>3, CadenceTurn, CadenceReply, CadenceNotice, CadenceFlush,
     CadenceTick, CadenceTime DEF Next

\* A corridor that did not expire is held back by an expiry flush, put off for the
\* cap or not, for two intervals of quiet at most: the interval starts over with
\* the flush and not after the next tick (interval_delay_after_expiry_flush).
THEOREM CadenceIsKept == Spec => []Cadence
<1>1. Init => CadenceInv
  <2> SUFFICES ASSUME Init PROVE CadenceInv
    OBVIOUS
  <2>1. \A c \in Corridors : silent[c] = 0
    BY Durable DEF Init
  <2>2. trailing = Off /\ tick = 0 /\ flushed = Interval
    BY DEF Init
  <2> QED
    BY <2>1, <2>2, InitTyped, Intervals
       DEF CadenceInv, OnlyBrightAreSilent, CadenceFor, Lately
<1>2. CadenceInv => Cadence
  <2> SUFFICES ASSUME CadenceInv, NEW c \in Corridors
               PROVE  Min({silent[c], calm, vain}) =< 2 * Interval
    BY DEF Cadence
  <2>1. silent[c] \in Int /\ calm \in Int /\ vain \in Int /\ 2 * Interval \in Int
    BY Times, Intervals DEF CadenceInv
  <2>2. \E n \in Int : n =< 2 * Interval /\ Lately(c, n)
    BY Times, Intervals DEF CadenceInv, CadenceFor
  <2> QED
    BY <2>1, <2>2, MinOfThree DEF Lately
<1> QED
  BY <1>1, <1>2, StepCadence, PTL DEF Spec

=============================================================================

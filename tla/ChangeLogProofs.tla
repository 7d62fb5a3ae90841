---------------------------- MODULE ChangeLogProofs ----------------------------
(***************************************************************************)
(* Proofs about ChangeLog: the cursor passes no record that is not filed,  *)
(* what was owed is filed before the key changes (both from SInv), and a   *)
(* bot that ships runs only on recorded changes (from RInv, on top of it). *)
(***************************************************************************)
EXTENDS ChangeLog, FiniteSetTheorems, SequenceTheorems, TLAPS

----------------------------------------------------------------------------
(* The least and the greatest of a set of numbers. *)

LEMMA Smallest ==
  ASSUME NEW S \in SUBSET Nat, S # {}
  PROVE  Min(S) \in S /\ \A i \in S : Min(S) =< i
<1>1. IsWellFoundedOn(OpToRel(<, Nat), Nat)
  BY NatLessThanWellFounded
<1>2. PICK x \in S : \A y \in S : <<y, x>> \notin OpToRel(<, Nat)
  BY <1>1, WFMin
<1>3. \A y \in S : ~(y < x)
  BY <1>2 DEF OpToRel
<1>4. \A y \in S : x =< y
  BY <1>3
<1> QED
  BY <1>4 DEF Min

LEMMA Greatest ==
  ASSUME NEW n \in Nat, NEW S \in SUBSET (0..n), S # {}
  PROVE  Max(S) \in S /\ \A i \in S : Max(S) >= i
<1> DEFINE T == {n - i : i \in S}
<1>1. T \in SUBSET Nat
  <2>1. \A i \in S : n - i \in Nat
    OBVIOUS
  <2> QED
    BY <2>1
<1>2. PICK i \in S : TRUE
  OBVIOUS
<1>3. n - i \in T
  OBVIOUS
<1>4. Min(T) \in T /\ \A k \in T : Min(T) =< k
  BY <1>1, <1>3, Smallest
<1>5. PICK x \in S : Min(T) = n - x
  BY <1>4
<1>6. \A k \in S : n - x =< n - k
  BY <1>4, <1>5
<1>7. \A k \in S : x >= k
  BY <1>6
<1> QED
  BY <1>7 DEF Max

----------------------------------------------------------------------------
(* The journal only grows. *)

Texts == Text \cup {NoText}

\* Every line, a record or what is left of one.
Lines == [param : Tracked \cup {"none"}, before : Int, after : Int, text : Texts]

Extends(lines, more) ==
  Len(more) >= Len(lines) /\ \A i \in 1..Len(lines) : more[i] = lines[i]

LEMMA NoLineTyped == NoLine \in Lines
BY DEF NoLine, Lines, Texts, None

LEMMA FieldTyped ==
  ASSUME NEW text \in Texts, NEW param \in Tracked
  PROVE  text[param] \in Int
<1>1. CASE text = NoText
  BY <1>1 DEF NoText, None, Tracked
<1>2. CASE text \in Text
  <2>5. text.ship \in {0, 1} /\ text.value \in Values
    BY <1>2 DEF Text
  <2>6. Values \subseteq Nat
    BY ConstantsTyped
  <2>1. text.ship \in Int /\ text.value \in Int
    <3>1. text.value \in Nat
      BY <2>5, <2>6, Zenon
    <3>2. \A n \in {0, 1} : n \in Int
      OBVIOUS
    <3>3. text.ship \in Int
      BY <2>5, <3>2, Zenon
    <3>4. text.value \in Int
      BY <3>1
    <3> QED
      BY <3>3, <3>4
  <2>2. CASE param = "ship"
    BY <2>1, <2>2
  <2>3. CASE param = "value"
    BY <2>1, <2>3
  <2> QED
    BY <2>2, <2>3 DEF Tracked
<1> QED
  BY <1>1, <1>2 DEF Texts

LEMMA MovedTyped ==
  ASSUME NEW old \in Texts, NEW new \in Texts, NEW param \in Tracked
  PROVE  Moved(param, old, new) \in Seq(Lines)
<1> DEFINE line == [param |-> param, before |-> old[param], after |-> new[param], text |-> new]
<1>1. old[param] \in Int /\ new[param] \in Int
  BY FieldTyped
<1>2. line \in Lines
  BY <1>1 DEF Lines
<1> HIDE DEF line
<1>3. <<line>> \in Seq(Lines) /\ <<>> \in Seq(Lines)
  BY <1>2
<1> QED
  BY <1>3 DEF Moved, line

LEMMA DiffTyped ==
  ASSUME NEW old \in Texts, NEW new \in Texts
  PROVE  Diff(old, new) \in Seq(Lines)
<1>1. "ship" \in Tracked /\ "value" \in Tracked
  BY DEF Tracked
<1> QED
  BY <1>1, MovedTyped, ConcatProperties DEF Diff

LEMMA GluedGrows ==
  ASSUME journal \in Seq(Lines), NEW lines \in Seq(Lines)
  PROVE  Glued(lines) \in Seq(Lines) /\ Extends(journal, Glued(lines))
<1> DEFINE more == IF torn /\ lines # <<>> THEN <<NoLine>> \o Tail(lines) ELSE lines
<1>1. more \in Seq(Lines)
  BY NoLineTyped, HeadTailProperties, ConcatProperties
<1> HIDE DEF more
<1>2. /\ journal \o more \in Seq(Lines)
      /\ Len(journal \o more) = Len(journal) + Len(more)
      /\ \A i \in 1..Len(journal) : (journal \o more)[i] = journal[i]
  BY <1>1, ConcatProperties, LenProperties
<1>3. Glued(lines) = journal \o more
  BY DEF Glued, more
<1> QED
  BY <1>1, <1>2, <1>3, LenProperties DEF Extends

LEMMA RemainsGrow ==
  ASSUME journal \in Seq(Lines), torn \in BOOLEAN, NEW lines \in Seq(Lines),
         NEW l \in Remains(lines)
  PROVE  l.journal \in Seq(Lines) /\ l.torn \in BOOLEAN /\ Extends(journal, l.journal)
<1>1. CASE l = [journal |-> journal, torn |-> torn]
  BY <1>1, LenProperties DEF Extends
<1>2. CASE l = Appended(lines)
  BY <1>2, GluedGrows DEF Appended
<1>3. ASSUME NEW k \in 0..Len(lines) - 1,
             l = [journal |-> Glued(SubSeq(lines, 1, k)), torn |-> TRUE]
      PROVE  l.journal \in Seq(Lines) /\ l.torn \in BOOLEAN /\ Extends(journal, l.journal)
  <2>1. k \in Int /\ \A i \in 1..k : lines[i] \in Lines
    BY <1>3, LenProperties, ElementOfSeq
  <2>2. SubSeq(lines, 1, k) \in Seq(Lines)
    BY <2>1, SubSeqProperties
  <2> QED
    BY <1>3, <2>2, GluedGrows
<1> QED
  BY <1>1, <1>2, <1>3 DEF Remains

\* What any recording leaves.
LEMMA RecordingGrows ==
  ASSUME journal \in Seq(Lines), torn \in BOOLEAN, NEW lines \in Seq(Lines), NEW text,
         NEW o \in Recording(lines, text)
  PROVE  /\ o.log.journal \in Seq(Lines) /\ o.log.torn \in BOOLEAN
         /\ Extends(journal, o.log.journal)
         /\ o.snapshot \in {snapshot, text}
<1>1. o.log \in Remains(lines) /\ o.snapshot \in {snapshot, text}
  BY DEF Recording, Remains
<1> QED
  BY <1>1, RemainsGrow

LEMMA CatchUpGrows ==
  ASSUME journal \in Seq(Lines), torn \in BOOLEAN, snapshot \in Texts, NEW text \in Text,
         NEW o \in CatchUps(text)
  PROVE  /\ o.log.journal \in Seq(Lines) /\ o.log.torn \in BOOLEAN
         /\ Extends(journal, o.log.journal)
         /\ o.snapshot \in {snapshot, text}
<1>1. text \in Texts /\ <<>> \in Seq(Lines)
  BY DEF Texts
<1>2. (IF text = LastText THEN <<>> ELSE Diff(snapshot, text)) \in Seq(Lines)
  BY <1>1, DiffTyped
<1>3. CASE text = snapshot
  <2>1. o.log = Appended(<<>>) /\ o.snapshot = text
    BY <1>3 DEF CatchUps
  <2>2. Appended(<<>>) \in Remains(<<>>)
    BY DEF Remains
  <2> QED
    BY <1>1, <2>1, <2>2, RemainsGrow
<1>4. CASE text # snapshot
  BY <1>2, <1>4, RecordingGrows DEF CatchUps
<1> QED
  BY <1>3, <1>4

----------------------------------------------------------------------------
(* What there is to ship. *)

Batches ==
  [pc : {"idle", "read", "post", "single", "noting", "step", "saving"}, limit : Nat,
   lines : SUBSET Nat, end : Nat, full : BOOLEAN, at : Nat, copy : SUBSET Nat]

\* A batch has every record between the cursor it was read from and its end.
LEMMA PendingPasses ==
  ASSUME NEW lines, NEW from \in Nat, NEW limit \in Nat, NEW max \in Nat \ {0}
  PROVE  LET b == Pending(lines, from, limit, max) IN
         /\ b \in Batches /\ b.lines \subseteq 1..b.end /\ b.end =< limit
         /\ b.lines \subseteq {i \in 1..limit : lines[i] # NoLine}
         /\ ~b.full => b.end = limit
         /\ b.full => b.lines # {}
         /\ \A i \in 1..b.end : i =< from \/ lines[i] = NoLine \/ i \in b.lines
<1> DEFINE start == IF from > limit THEN 0 ELSE from
           whole == {i \in start + 1..limit : lines[i] # NoLine}
           upTo(i) == {j \in whole : j =< i}
           first == {i \in whole : Cardinality(upTo(i)) =< max}
           full == Cardinality(whole) >= max
           end == IF full THEN Max(first) ELSE limit
           b == Pending(lines, from, limit, max)
<1>1. /\ b = [pc |-> "idle", limit |-> 0, lines |-> first, end |-> end, full |-> full,
              at |-> 0, copy |-> {}]
      /\ full \in BOOLEAN
  <2>1. b = [NoShip EXCEPT !.lines = first, !.full = full, !.end = end]
    BY DEF Pending
  <2>2. full \in BOOLEAN
    OBVIOUS
  <2> HIDE DEF b, first, full, end
  <2> QED
    BY <2>1, <2>2 DEF NoShip
<1>2. start \in Nat /\ start =< limit /\ \A i \in Nat : i =< start => i =< from
  OBVIOUS
<1> HIDE DEF start
<1>3. whole \in SUBSET (1..limit) /\ IsFiniteSet(whole)
  <2>1. IsFiniteSet(1..limit)
    BY FS_Interval
  <2>2. whole \in SUBSET (1..limit)
    BY <1>2
  <2> QED
    BY <2>1, <2>2, FS_Subset
<1>4. /\ \A i \in whole : lines[i] # NoLine
      /\ \A i \in start + 1..limit : lines[i] = NoLine \/ i \in whole
  OBVIOUS
<1> HIDE DEF whole
<1>5. \A i : upTo(i) \in SUBSET whole
  OBVIOUS
<1>6. \A i : IsFiniteSet(upTo(i)) /\ Cardinality(upTo(i)) \in Nat
               /\ Cardinality(upTo(i)) =< Cardinality(whole)
  BY <1>3, <1>5, FS_Subset, FS_CardinalityType
<1>7. Cardinality(whole) \in Nat
  BY <1>3, FS_CardinalityType
<1>8. first \in SUBSET whole
  OBVIOUS
<1>9. ASSUME full
      PROVE  /\ end \in first /\ \A i \in first : end >= i
             /\ \A i \in whole : i =< end => i \in first
  <2>1. whole # {}
    BY <1>7, <1>9, FS_EmptySet
  <2>2. whole \in SUBSET Nat
    BY <1>3
  <2> DEFINE least == Min(whole)
  <2>3. least \in whole /\ \A i \in whole : least =< i
    BY <2>1, <2>2, Smallest
  <2> HIDE DEF least
  <2>4. upTo(least) = {least}
    <3>1. \A j \in upTo(least) : j \in Nat /\ least \in Nat /\ j =< least /\ least =< j
      BY <2>2, <2>3
    <3>2. \A j \in upTo(least) : j = least
      BY <3>1
    <3>3. least \in upTo(least)
      BY <2>2, <2>3
    <3> QED
      BY <3>2, <3>3
  <2>5. Cardinality(upTo(least)) = 1
    BY <2>4, FS_Singleton
  <2>6. least \in first
    BY <2>3, <2>5
  <2>7. first \in SUBSET (0..limit) /\ first # {}
    <3> HIDE DEF first
    <3> QED
      BY <1>3, <1>8, <2>6
  <2>8. end = Max(first)
    BY <1>9
  <2> HIDE DEF end
  <2>9. end \in first /\ \A i \in first : end >= i
    <3> HIDE DEF first
    <3> QED
      BY <2>7, <2>8, Greatest
  <2>10. ASSUME NEW i \in whole, i =< end
         PROVE  i \in first
    <3>1. i \in Nat /\ end \in Nat
      BY <1>8, <2>2, <2>9
    <3>2. \A j \in upTo(i) : j \in Nat /\ j =< i
      BY <2>2
    <3>3. \A j \in upTo(i) : j =< end
      BY <2>10, <3>1, <3>2
    <3>4. upTo(i) \in SUBSET upTo(end)
      BY <3>3
    <3>5. Cardinality(upTo(i)) =< Cardinality(upTo(end))
      <4> HIDE DEF upTo
      <4> QED
        BY <1>6, <3>4, FS_Subset
    <3>6. Cardinality(upTo(end)) =< max
      BY <2>9
    <3>7. Cardinality(upTo(i)) =< max
      <4> HIDE DEF upTo
      <4> QED
        BY <1>6, <3>5, <3>6
    <3> QED
      BY <3>7
  <2> QED
    BY <2>9, <2>10
<1>10. ASSUME ~full
       PROVE  end = limit /\ first = whole
  <2>1. \A i : Cardinality(upTo(i)) =< max
    <3> HIDE DEF upTo
    <3> QED
      BY <1>6, <1>7, <1>10
  <2>2. first = whole
    <3> HIDE DEF upTo
    <3> QED
      BY <2>1
  <2> QED
    BY <1>10, <2>2
<1> HIDE DEF end, first, full
<1>11. end \in 0..limit /\ \A i \in whole : i =< end => i \in first
  <2>1. CASE full
    <3>1. end \in 1..limit /\ \A i \in whole : i =< end => i \in first
      BY <1>3, <1>8, <1>9, <2>1, Zenon
    <3> QED
      BY <3>1
  <2>2. CASE ~full
    <3>1. end = limit /\ first = whole
      BY <1>10, <2>2, Zenon
    <3> QED
      BY <3>1
  <2> QED
    BY <2>1, <2>2
<1>12. first \subseteq 1..end
  <2>1. CASE full
    <3>1. \A i \in first : end >= i
      BY <1>9, <2>1
    <3> QED
      BY <1>3, <1>8, <1>11, <3>1
  <2>2. CASE ~full
    BY <1>3, <1>10, <2>2
  <2> QED
    BY <2>1, <2>2
<1>13. \A i \in 1..end : i =< from \/ lines[i] = NoLine \/ i \in first
  <2> SUFFICES ASSUME NEW i \in 1..end, ~(i =< from), lines[i] # NoLine
               PROVE  i \in first
    OBVIOUS
  <2>1. i \in start + 1..limit
    BY <1>2, <1>11
  <2> QED
    BY <1>4, <1>11, <2>1
<1>14. first \in SUBSET Nat /\ first \subseteq {i \in 1..limit : lines[i] # NoLine}
  BY <1>3, <1>4, <1>8
<1> HIDE DEF b
<1>15. /\ b \in Batches
       /\ b.lines = first /\ b.end = end /\ b.full = full
  BY <1>1, <1>11, <1>14 DEF Batches
<1> QED
  BY <1>9, <1>10, <1>11, <1>12, <1>13, <1>14, <1>15 DEF b

\* There are no lines to ship that the journal does not have.
LEMMA UntilTyped ==
  ASSUME cursor \in Nat, NEW lines \in Seq(Lines), NEW on
  PROVE  Until(on, lines) \in Nat
<1> DEFINE off == {i \in Unshipped(lines) : /\ lines[i].param = "ship"
                                           /\ lines[i].before = 1 /\ lines[i].after = 0}
<1>1. Len(lines) \in Nat /\ Len(lines) + 1 \in Nat \ {0}
  BY LenProperties
<1>2. Unshipped(lines) \in SUBSET (1..Len(lines))
  BY <1>1, PendingPasses DEF Unshipped
<1>3. off # {} => Max(off) \in Nat
  <2>1. off \in SUBSET (0..Len(lines))
    BY <1>1, <1>2
  <2> HIDE DEF off
  <2>2. off # {} => Max(off) \in off
    BY <1>1, <2>1, Greatest
  <2>3. \A k \in 0..Len(lines) : k \in Nat
    BY <1>1
  <2> QED
    BY <2>1, <2>2, <2>3, Zenon
<1>4. Everything \in Nat
  BY ConstantsTyped DEF Everything
<1> HIDE DEF off
<1>5. Until(on, lines) = CASE on = 1 -> Everything
                           [] on # 1 /\ off # {} -> Max(off)
                           [] OTHER -> 0
  BY DEF Until, off
<1> QED
  BY <1>3, <1>4, <1>5

LEMMA OwedTyped ==
  ASSUME cursor \in Nat, journal \in Seq(Lines)
  PROVE  \A i \in Owed : /\ i \in 1..Len(journal) /\ journal[i] # NoLine
                          /\ i =< Until(file.ship, journal)
<1>1. Len(journal) \in Nat /\ Len(journal) + 1 \in Nat \ {0}
  BY LenProperties
<1>2. Unshipped(journal) \subseteq {i \in 1..Len(journal) : journal[i] # NoLine}
  BY <1>1, PendingPasses DEF Unshipped
<1> QED
  BY <1>2 DEF Owed

----------------------------------------------------------------------------
(* The invariant of shipping. *)

Panels ==
  [pc : {"idle", "ready", "written", "delivering", "registering"}, old : Texts, new : Texts,
   until : Nat, due : SUBSET Nat]

Bots == [pc : {"down", "read", "up", "ships"}, text : Texts, until : Nat, key : Nat]

LogTyped ==
  /\ file \in Text /\ journal \in Seq(Lines) /\ torn \in BOOLEAN /\ snapshot \in Texts

ShippingTyped ==
  /\ cursor \in 0..Len(journal) /\ refused \in SUBSET Nat
  /\ ship \in [Shippers -> Batches]
  /\ panel \in Panels /\ bot \in Bots /\ key \in Nat

\* A text is one that was read.
Read ==
  /\ panel.pc = "ready" => panel.new \in Text
  /\ bot.pc = "read" => bot.text \in Text

\* Only a bot whose task runs ships, and only a panel that delivers.
Active ==
  /\ bot.pc \notin {"up", "ships"} => bot.until = 0
  /\ ship["bot"].pc # "idle" => bot.pc = "ships"
  /\ ship["panel"].pc # "idle" => panel.pc = "delivering"

\* No key is used before there is one.
Makers == bot.key =< key /\ \A s \in stored : s.maker \in Nat /\ s.maker =< key

\* All lines up to the n-th are filed, but for some that are being shipped.
Passed(n, left) == \A i \in 1..n : journal[i] = NoLine \/ Filed(i) \/ i \in left

InFlight(w) ==
  /\ ship[w].pc = "read" => ship[w].limit =< Len(journal)
  /\ ship[w].pc \notin {"idle", "read"} =>
       /\ ship[w].end =< Len(journal) /\ ship[w].lines \subseteq 1..ship[w].end
       /\ Passed(ship[w].end, ship[w].lines)
  /\ ship[w].pc \in {"post", "single", "noting"} => ship[w].lines # {}
  /\ ship[w].pc = "step" =>
       ship[w].at \in 1..ship[w].end /\ \A i \in ship[w].lines : ship[w].at < i
  /\ ship[w].pc = "saving" => ship[w].lines = {}

\* What the panel has to deliver is within what it ships, until all is filed.
Due ==
  /\ panel.pc = "delivering" =>
       \A i \in panel.due : i \in 1..Len(journal) /\ journal[i] # NoLine /\ i =< panel.until
  /\ panel.pc = "registering" => \A i \in panel.due : Filed(i)
  /\ ship["panel"].pc = "read" => \A i \in panel.due : i =< ship["panel"].limit
  /\ ship["panel"].pc \notin {"idle", "read"} /\ ~ship["panel"].full =>
       \A i \in panel.due : i =< ship["panel"].end

SInv ==
  /\ LogTyped /\ ShippingTyped /\ Read /\ Active /\ Makers /\ NothingSkipped
  /\ \A w \in Shippers : InFlight(w)
  /\ Due

LEMMA InitSInv == Init => SInv
<1> SUFFICES ASSUME Init PROVE SInv
  OBVIOUS
<1>1. LogTyped
  <2>1. file \in Text /\ journal = <<>> /\ torn \in BOOLEAN /\ snapshot \in Texts
    BY DEF Init, Texts
  <2>2. <<>> \in Seq(Lines)
    OBVIOUS
  <2> QED
    BY <2>1, <2>2, Zenon DEF LogTyped
<1>2. ShippingTyped
  <2>1. cursor \in 0..Len(journal) /\ refused \in SUBSET Nat
    BY DEF Init
  <2>2. NoShip \in Batches
    BY DEF NoShip, Batches
  <2>3. ship \in [Shippers -> Batches]
    BY <2>2 DEF Init
  <2>4. panel \in Panels
    BY DEF Init, IdlePanel, Panels, Texts
  <2>5. bot \in Bots
    BY DEF Init, Down, Bots, Texts
  <2>6. key \in Nat
    BY DEF Init
  <2> QED
    BY <2>1, <2>3, <2>4, <2>5, <2>6 DEF ShippingTyped
<1>3. panel.pc = "idle" /\ bot.pc = "down" /\ bot.until = 0 /\ bot.key = 0
  BY DEF Init, IdlePanel, Down
<1>4. \A w \in Shippers : ship[w].pc = "idle"
  BY DEF Init, NoShip
<1>5. "bot" \in Shippers /\ "panel" \in Shippers
  BY DEF Shippers
<1>6. Read /\ Active /\ Due
  BY <1>3, <1>4, <1>5 DEF Read, Active, Due
<1>7. \A w \in Shippers : InFlight(w)
  BY <1>4 DEF InFlight
<1>8. key = 1 /\ stored = {} /\ cursor = 0
  BY DEF Init
<1>9. Makers /\ NothingSkipped
  BY <1>3, <1>8 DEF Makers, NothingSkipped
<1> QED
  BY <1>1, <1>2, <1>6, <1>7, <1>9 DEF SInv

\* What was passed stays passed.
LEMMA PassedKept ==
  ASSUME journal \in Seq(Lines), Extends(journal, journal'),
         stored \subseteq stored', refused \cup dropped \subseteq refused' \cup dropped',
         NEW n \in Nat, n =< Len(journal), NEW left, Passed(n, left)
  PROVE  Passed(n, left)'
<1>1. \A i : Filed(i) => Filed(i)'
  BY DEF Filed, Noted
<1>2. \A i \in 1..n : journal'[i] = journal[i]
  BY LenProperties DEF Extends
<1> QED
  BY <1>1, <1>2 DEF Passed

\* A step that ships nothing keeps the shippers' part.
LEMMA ShippersKept ==
  ASSUME SInv, journal' \in Seq(Lines), Extends(journal, journal'),
         UNCHANGED shipping
  PROVE  /\ cursor' \in 0..Len(journal') /\ NothingSkipped'
         /\ refused' \in SUBSET Nat
         /\ \A w \in Shippers : InFlight(w)'
<1>1. journal \in Seq(Lines) /\ Len(journal) \in Nat /\ Len(journal') \in Nat
        /\ Len(journal) =< Len(journal')
  BY LenProperties DEF SInv, LogTyped, Extends
<1>2. UNCHANGED <<cursor, refused, ship, stored, dropped>>
  BY DEF shipping
<1>3. cursor \in 0..Len(journal) /\ ship \in [Shippers -> Batches] /\ refused \in SUBSET Nat
  BY DEF SInv, ShippingTyped
<1>4. cursor' \in 0..Len(journal')
  BY <1>1, <1>2, <1>3
<1>5. NothingSkipped'
  <2>1. Passed(cursor, {})
    BY DEF SInv, NothingSkipped, Passed
  <2>2. Passed(cursor, {})'
    <3>1. cursor \in Nat /\ cursor =< Len(journal)
      BY <1>1, <1>3
    <3>2. \A n \in Nat : n =< Len(journal) /\ Passed(n, {}) => Passed(n, {})'
      BY <1>1, <1>2, PassedKept
    <3> QED
      BY <1>2, <2>1, <3>1, <3>2 DEF Passed
  <2> QED
    BY <2>2 DEF Passed, NothingSkipped
<1>6. ASSUME NEW w \in Shippers
      PROVE  InFlight(w)'
  <2>1. ship[w].limit \in Nat /\ ship[w].end \in Nat /\ InFlight(w)
    BY <1>3 DEF Batches, SInv
  <2>2. \A left : \A n \in Nat : n =< Len(journal) /\ Passed(n, left) =>
           \A i \in 1..n : journal'[i] = NoLine \/ Filed(i)' \/ i \in left
    BY <1>1, <1>2, PassedKept DEF Passed
  <2>3. CASE ship[w].pc = "read"
    BY <1>1, <1>2, <2>1, <2>3 DEF InFlight
  <2>4. CASE ship[w].pc \notin {"idle", "read"}
    <3> DEFINE end == ship[w].end
               left == ship[w].lines
    <3>1. /\ end =< Len(journal) /\ left \subseteq 1..end
          /\ Passed(end, left) /\ ship'[w] = ship[w]
      BY <1>2, <2>1, <2>4 DEF InFlight
    <3>2. \A i \in 1..end : journal'[i] = NoLine \/ Filed(i)' \/ i \in left
      BY <2>1, <2>2, <3>1, Zenon
    <3>3. Passed(end, left)'
      BY <1>2, <3>2 DEF Passed
    <3>4. end =< Len(journal')
      BY <1>1, <2>1, <3>1
    <3> QED
      BY <2>1, <2>4, <3>1, <3>3, <3>4, <1>2 DEF InFlight
  <2>5. CASE ship[w].pc = "idle"
    BY <1>2, <2>5 DEF InFlight
  <2> QED
    BY <1>3, <2>3, <2>4, <2>5 DEF Batches
<1> QED
  BY <1>2, <1>3, <1>4, <1>5, <1>6

\* What the panel and the bot do while nothing is shipped.
Apart ==
  /\ UNCHANGED <<cursor, refused, ship, stored, dropped>>
  /\ LogTyped' /\ Extends(journal, journal') /\ Read'
  /\ panel' \in Panels /\ bot' \in Bots /\ key' \in Nat
  /\ key =< key' /\ bot'.key =< key'
  /\ bot' = bot \/ (bot.pc # "ships" /\ (bot'.pc \notin {"up", "ships"} => bot'.until = 0))
  /\ \/ panel' = panel
     \/ /\ panel.pc # "delivering"
        /\ panel'.pc = "delivering" =>
             \A i \in panel'.due : /\ i \in 1..Len(journal') /\ journal'[i] # NoLine
                                    /\ i =< panel'.until
        /\ panel'.pc = "registering" => \A i \in panel'.due : Filed(i)

LEMMA ApartSInv ==
  ASSUME SInv, Apart
  PROVE  SInv'
<1> USE DEF Apart
<1>1. UNCHANGED shipping
  BY DEF shipping
<1>2. /\ cursor' \in 0..Len(journal') /\ NothingSkipped' /\ refused' \in SUBSET Nat
      /\ \A w \in Shippers : InFlight(w)'
  <2>1. journal' \in Seq(Lines) /\ Extends(journal, journal')
    BY DEF LogTyped
  <2> QED
    BY <1>1, <2>1, ShippersKept
<1>3. LogTyped' /\ journal' \in Seq(Lines)
  BY DEF LogTyped
<1>4. ShippingTyped'
  <2>1. ship' \in [Shippers -> Batches]
    BY DEF SInv, ShippingTyped
  <2> QED
    BY <1>2, <2>1 DEF ShippingTyped
<1>5. Active'
  BY DEF SInv, Active
<1>6. Makers'
  <2>1. \A s \in stored' : s.maker \in Nat /\ s.maker =< key'
    BY DEF SInv, Makers, ShippingTyped
  <2> QED
    BY <2>1 DEF Makers
<1>7. Due'
  <2>1. \A i : Filed(i) => Filed(i)'
    BY DEF Filed, Noted
  <2>2. CASE panel' = panel
    <3>1. journal \in Seq(Lines)
      BY DEF SInv, LogTyped
    <3>2. \A i \in 1..Len(journal) : i \in 1..Len(journal') /\ journal'[i] = journal[i]
      BY <3>1, LenProperties DEF Extends
    <3> QED
      BY <2>1, <2>2, <3>2 DEF SInv, Due
  <2>3. CASE panel' # panel
    <3>1. ship["panel"].pc = "idle"
      BY <2>3 DEF SInv, Active
    <3> QED
      BY <2>1, <2>3, <3>1 DEF Due
  <2> QED
    BY <2>2, <2>3
<1> QED
  BY <1>2, <1>3, <1>4, <1>5, <1>6, <1>7 DEF SInv

LEMMA ExtendsItself ==
  ASSUME NEW lines \in Seq(Lines)
  PROVE  Extends(lines, lines)
BY LenProperties DEF Extends

LEMMA SaveSInv ==
  ASSUME SInv, NEW new \in Text, Save(new)
  PROVE  SInv'
<1>1. PICK o \in CatchUps(file) :
         /\ Records(o)
         /\ IF o.ok THEN /\ panel' = [IdlePanel EXCEPT !.pc = "ready", !.old = file, !.new = new]
                         /\ UNCHANGED file
            ELSE file' = new /\ UNCHANGED panel
  BY DEF Save
<1>2. UNCHANGED <<cursor, refused, ship, stored, dropped, key, bot>> /\ panel.pc = "idle"
  BY DEF Save, shipping
<1>3. /\ journal \in Seq(Lines) /\ torn \in BOOLEAN /\ snapshot \in Texts /\ file \in Text
      /\ panel \in Panels /\ bot \in Bots /\ key \in Nat /\ bot.key =< key /\ Read
  BY DEF SInv, LogTyped, ShippingTyped, Makers
<1>4. /\ journal' \in Seq(Lines) /\ torn' \in BOOLEAN /\ Extends(journal, journal')
      /\ snapshot' \in Texts
  <2>1. /\ o.log.journal \in Seq(Lines) /\ o.log.torn \in BOOLEAN
        /\ Extends(journal, o.log.journal) /\ o.snapshot \in {snapshot, file}
    BY <1>3, CatchUpGrows
  <2> QED
    BY <1>1, <1>3, <2>1 DEF Records, Texts
<1>5. /\ file' \in Text /\ panel' \in Panels
      /\ panel' = panel \/ panel'.pc = "ready"
      /\ panel'.pc = "ready" => panel'.new \in Text
  <2>1. CASE o.ok
    <3>1. panel' = [pc |-> "ready", old |-> file, new |-> new, until |-> 0, due |-> {}]
      BY <1>1, <2>1 DEF IdlePanel
    <3> QED
      BY <1>1, <1>3, <2>1, <3>1 DEF Panels, Texts
  <2>2. CASE ~o.ok
    BY <1>1, <1>2, <1>3, <2>2
  <2> QED
    BY <2>1, <2>2
<1>6. Read'
  BY <1>2, <1>3, <1>5 DEF Read
<1>7. Apart
  BY <1>2, <1>3, <1>4, <1>5, <1>6 DEF Apart, LogTyped
<1> QED
  BY <1>7, ApartSInv

LEMMA PanelSInv ==
  ASSUME SInv, HostEdit \/ WriteConfig \/ Record
  PROVE  SInv'
<1>1. /\ journal \in Seq(Lines) /\ torn \in BOOLEAN /\ snapshot \in Texts /\ file \in Text
      /\ panel \in Panels /\ bot \in Bots /\ key \in Nat /\ bot.key =< key /\ Read
      /\ Extends(journal, journal)
  BY ExtendsItself DEF SInv, LogTyped, ShippingTyped, Makers
<1>2. CASE HostEdit
  <2>1. /\ UNCHANGED <<journal, torn, snapshot, cursor, refused, ship, stored, dropped, key, panel, bot>>
        /\ file' \in Text
    BY <1>2 DEF HostEdit, log, shipping
  <2>2. Read'
    BY <1>1, <2>1 DEF Read
  <2>9. Apart
    BY <1>1, <2>1, <2>2 DEF Apart, LogTyped
  <2> QED
    BY <2>9, ApartSInv
<1>3. CASE WriteConfig
  <2>1. /\ UNCHANGED <<journal, torn, snapshot, cursor, refused, ship, stored, dropped, key, bot>>
        /\ file' = panel.new
        /\ panel.pc = "ready" /\ panel' = [panel EXCEPT !.pc = "written"]
    BY <1>3 DEF WriteConfig, log, shipping
  <2>2. panel' \in Panels /\ panel'.pc = "written"
    BY <1>1, <2>1 DEF Panels
  <2>3. file' \in Text /\ Read'
    BY <1>1, <2>1, <2>2 DEF Read
  <2>9. Apart
    BY <1>1, <2>1, <2>2, <2>3 DEF Apart, LogTyped
  <2> QED
    BY <2>9, ApartSInv
<1>4. CASE Record
  <2>1. PICK o \in Recording(Diff(panel.old, panel.new), panel.new) : Records(o)
    BY <1>4 DEF Record
  <2>2. /\ UNCHANGED <<file, cursor, refused, ship, stored, dropped, key, bot>>
        /\ panel' = IdlePanel /\ panel.pc = "written"
    BY <1>4 DEF Record, config, shipping
  <2>3. panel.old \in Texts /\ panel.new \in Texts
    BY <1>1 DEF Panels
  <2>4. /\ journal' \in Seq(Lines) /\ torn' \in BOOLEAN /\ Extends(journal, journal')
        /\ snapshot' \in Texts
    <3>1. Diff(panel.old, panel.new) \in Seq(Lines)
      BY <2>3, DiffTyped
    <3>2. /\ o.log.journal \in Seq(Lines) /\ o.log.torn \in BOOLEAN
          /\ Extends(journal, o.log.journal) /\ o.snapshot \in {snapshot, panel.new}
      BY <1>1, <3>1, RecordingGrows
    <3> QED
      BY <1>1, <2>1, <2>3, <3>2 DEF Records
  <2>5. panel' \in Panels /\ panel'.pc = "idle"
    BY <2>2 DEF IdlePanel, Panels, Texts
  <2>6. Read'
    BY <1>1, <2>2, <2>5 DEF Read
  <2>9. Apart
    BY <1>1, <2>2, <2>4, <2>5, <2>6 DEF Apart, LogTyped
  <2> QED
    BY <2>9, ApartSInv
<1> QED
  BY <1>2, <1>3, <1>4

LEMMA KeySInv ==
  ASSUME SInv, ChangeKey \/ StoreKey
  PROVE  SInv'
<1>1. /\ LogTyped /\ journal \in Seq(Lines) /\ Extends(journal, journal) /\ cursor \in Nat
      /\ panel \in Panels /\ bot \in Bots /\ key \in Nat /\ bot.key \in Nat
      /\ bot.key =< key /\ Read
  BY ExtendsItself, LenProperties DEF SInv, LogTyped, ShippingTyped, Makers, Bots
<1>2. CASE ChangeKey
  <2>1. /\ UNCHANGED <<file, journal, torn, snapshot, cursor, refused, ship, stored, dropped, key, bot>>
        /\ panel.pc = "idle"
        /\ panel' = IF Owed = {} THEN [IdlePanel EXCEPT !.pc = "registering"]
                    ELSE [IdlePanel EXCEPT !.pc = "delivering", !.due = Owed,
                                           !.until = Until(file.ship, journal)]
    BY <1>2 DEF ChangeKey, config, log, shipping
  <2>2. \A i \in Owed : /\ i \in 1..Len(journal) /\ journal[i] # NoLine
                        /\ i =< Until(file.ship, journal)
    BY <1>1, OwedTyped
  <2>3. Until(file.ship, journal) \in Nat
    BY <1>1, UntilTyped
  <2>4. Owed \in SUBSET Nat
    BY <1>1, <2>2, LenProperties
  <2>5. CASE Owed = {}
    <3>1. panel' = [pc |-> "registering", old |-> NoText, new |-> NoText, until |-> 0,
                    due |-> {}]
      BY <2>1, <2>5 DEF IdlePanel
    <3>2. panel' \in Panels /\ panel'.pc = "registering" /\ panel'.due = {}
      BY <3>1 DEF Panels, Texts
    <3>3. LogTyped' /\ Read'
      BY <1>1, <2>1, <3>2 DEF LogTyped, Read
    <3>4. Apart
      BY <1>1, <2>1, <3>2, <3>3 DEF Apart
    <3> QED
      BY <3>4, ApartSInv
  <2>6. CASE Owed # {}
    <3>1. panel' = [pc |-> "delivering", old |-> NoText, new |-> NoText,
                    until |-> Until(file.ship, journal), due |-> Owed]
      BY <2>1, <2>6 DEF IdlePanel
    <3>2. /\ panel' \in Panels /\ panel'.pc = "delivering" /\ panel'.due = Owed
          /\ panel'.until = Until(file.ship, journal)
      BY <2>3, <2>4, <3>1 DEF Panels, Texts
    <3>3. LogTyped' /\ Read'
      BY <1>1, <2>1, <3>2 DEF LogTyped, Read
    <3>4. Apart
      BY <1>1, <2>1, <2>2, <3>2, <3>3 DEF Apart
    <3> QED
      BY <3>4, ApartSInv
  <2> QED
    BY <2>5, <2>6
<1>3. CASE StoreKey
  <2>1. /\ UNCHANGED <<file, journal, torn, snapshot, cursor, refused, ship, stored, dropped, bot>>
        /\ panel.pc = "registering" /\ key' = key + 1 /\ panel' = IdlePanel
    BY <1>3 DEF StoreKey, config, log, shipping
  <2>2. panel' \in Panels /\ panel'.pc = "idle"
    BY <2>1 DEF IdlePanel, Panels, Texts
  <2>3. LogTyped' /\ Read'
    BY <1>1, <2>1, <2>2 DEF LogTyped, Read
  <2>4. key' \in Nat /\ key =< key' /\ bot'.key =< key'
    BY <1>1, <2>1
  <2>5. Apart
    BY <1>1, <2>1, <2>2, <2>3, <2>4 DEF Apart
  <2> QED
    BY <2>5, ApartSInv
<1> QED
  BY <1>2, <1>3

LEMMA BotSInv ==
  ASSUME SInv, ReadConfig \/ CatchUpAtStart \/ Spawn
  PROVE  SInv'
<1>1. /\ LogTyped /\ Extends(journal, journal) /\ cursor \in Nat
      /\ panel \in Panels /\ bot \in Bots /\ key \in Nat /\ bot.key \in Nat
      /\ bot.key =< key /\ Read
  BY ExtendsItself, LenProperties DEF SInv, LogTyped, ShippingTyped, Makers, Bots
<1>2. CASE ReadConfig
  <2>1. /\ UNCHANGED <<file, journal, torn, snapshot, cursor, refused, ship, stored, dropped, key,
                       panel>>
        /\ bot.pc = "down" /\ bot' = [Down EXCEPT !.pc = "read", !.text = file]
    BY <1>2 DEF ReadConfig, config, log, shipping
  <2>2. bot' = [pc |-> "read", text |-> file, until |-> 0, key |-> 0]
    BY <2>1 DEF Down
  <2>3. /\ bot' \in Bots /\ bot'.pc = "read" /\ bot'.text \in Text
        /\ bot'.until = 0 /\ bot'.key = 0
    BY <1>1, <2>2 DEF Bots, LogTyped, Texts
  <2>4. LogTyped' /\ Read'
    BY <1>1, <2>1, <2>3 DEF LogTyped, Read
  <2>5. Apart
    BY <1>1, <2>1, <2>3, <2>4 DEF Apart
  <2> QED
    BY <2>5, ApartSInv
<1>3. CASE CatchUpAtStart
  <2>1. PICK o \in CatchUps(bot.text) :
           /\ Records(o)
           /\ IF o.ok THEN Runs(Until(bot.text.ship, o.log.journal)) ELSE Unrecorded
    BY <1>3 DEF CatchUpAtStart
  <2>2. /\ UNCHANGED <<file, cursor, refused, ship, stored, dropped, key, panel>>
        /\ bot.pc = "read" /\ bot.text \in Text
    BY <1>1, <1>3 DEF CatchUpAtStart, config, shipping, Read
  <2>3. /\ o.log.journal \in Seq(Lines) /\ o.log.torn \in BOOLEAN
        /\ Extends(journal, o.log.journal) /\ o.snapshot \in {snapshot, bot.text}
    BY <1>1, <2>2, CatchUpGrows DEF LogTyped
  <2>4. LogTyped' /\ Extends(journal, journal')
    BY <1>1, <2>1, <2>2, <2>3 DEF LogTyped, Records, Texts
  <2>5. ASSUME NEW until \in Nat, Runs(until)
        PROVE  bot' \in Bots /\ bot'.pc = "up" /\ bot'.key =< key
    <3>1. bot' = [pc |-> "up", text |-> NoText, until |-> until, key |-> 0]
      BY <2>5 DEF Runs, Down
    <3> QED
      BY <1>1, <3>1 DEF Bots, Texts
  <2>6. /\ bot' \in Bots /\ bot'.key =< key
        /\ bot'.pc = "up" \/ bot' = Down
    <3>1. CASE o.ok
      <4>1. Until(bot.text.ship, o.log.journal) \in Nat
        BY <1>1, <2>3, UntilTyped
      <4> QED
        BY <2>1, <2>5, <3>1, <4>1
    <3>2. CASE ~o.ok /\ bot.text.ship = 1
      <4>1. bot' = Down
        BY <2>1, <3>2 DEF Unrecorded
      <4> QED
        BY <1>1, <4>1 DEF Down, Bots, Texts
    <3>3. CASE ~o.ok /\ bot.text.ship # 1
      <4>1. Runs(0)
        BY <2>1, <3>3 DEF Unrecorded
      <4> QED
        BY <2>5, <4>1
    <3> QED
      BY <3>1, <3>2, <3>3
  <2>7. bot'.pc # "up" => bot'.until = 0 /\ bot'.pc = "down"
    BY <2>6 DEF Down
  <2>8. Read'
    BY <1>1, <2>2, <2>7 DEF Read
  <2>9. Apart
    BY <1>1, <2>2, <2>4, <2>6, <2>7, <2>8 DEF Apart
  <2> QED
    BY <2>9, ApartSInv
<1>4. CASE Spawn
  <2>1. /\ UNCHANGED <<file, journal, torn, snapshot, cursor, refused, ship, stored, dropped, key,
                       panel>>
        /\ bot.pc = "up"
        /\ bot' = [bot EXCEPT !.pc = "ships", !.key = key] \/ bot' = [bot EXCEPT !.until = 0]
    BY <1>4 DEF Spawn, config, log, shipping
  <2>2. bot' \in Bots /\ bot'.pc \in {"up", "ships"} /\ bot'.key =< key
    <3>1. CASE bot' = [bot EXCEPT !.pc = "ships", !.key = key]
      <4>1. bot' \in Bots /\ bot'.pc = "ships" /\ bot'.key = key
        BY <1>1, <3>1 DEF Bots
      <4> QED
        BY <1>1, <4>1
    <3>2. CASE bot' = [bot EXCEPT !.until = 0]
      <4>1. bot' \in Bots /\ bot'.pc = "up" /\ bot'.key = bot.key
        BY <1>1, <2>1, <3>2 DEF Bots
      <4> QED
        BY <1>1, <4>1
    <3> QED
      BY <2>1, <3>1, <3>2
  <2>3. LogTyped' /\ Read'
    BY <1>1, <2>1, <2>2 DEF LogTyped, Read
  <2>4. Apart
    BY <1>1, <2>1, <2>2, <2>3 DEF Apart
  <2> QED
    BY <2>4, ApartSInv
<1> QED
  BY <1>2, <1>3, <1>4

\* A request or a process ends with what it was shipping.
LEMMA StopsSInv ==
  ASSUME SInv, Stop \/ PanelStops
  PROVE  SInv'
<1>1. /\ LogTyped /\ ShippingTyped /\ Read /\ Active /\ Makers /\ NothingSkipped /\ Due
      /\ \A w \in Shippers : InFlight(w)
      /\ panel \in Panels /\ bot \in Bots /\ key \in Nat
  BY DEF SInv, ShippingTyped
<1>2. NoShip \in Batches /\ NoShip.pc = "idle"
  BY DEF NoShip, Batches
<1>3. "bot" \in Shippers /\ "panel" \in Shippers /\ \A w \in Shippers : w = "bot" \/ w = "panel"
  BY DEF Shippers
<1>4. UNCHANGED <<file, journal, torn, snapshot, cursor, refused, stored, dropped, key>>
  BY DEF Stop, PanelStops, config, log
<1>5. PICK v \in Shippers : ship' = [ship EXCEPT ![v] = NoShip]
                            /\ (v = "bot" => bot' = Down /\ panel' = panel)
                            /\ (v = "panel" => panel' = IdlePanel /\ bot' = bot)
  BY <1>3 DEF Stop, PanelStops
<1>6. /\ ship' \in [Shippers -> Batches] /\ ship'[v] = NoShip
      /\ \A w \in Shippers \ {v} : ship'[w] = ship[w]
  BY <1>1, <1>2, <1>5 DEF ShippingTyped
<1>7. Down \in Bots /\ Down.pc = "down" /\ Down.until = 0 /\ Down.key = 0
      /\ IdlePanel \in Panels /\ IdlePanel.pc = "idle"
  BY DEF Down, Bots, IdlePanel, Panels, Texts
<1>8. LogTyped' /\ NothingSkipped'
  BY <1>1, <1>4 DEF LogTyped, NothingSkipped, Filed, Noted
<1>9. ShippingTyped'
  BY <1>1, <1>3, <1>4, <1>5, <1>6, <1>7 DEF ShippingTyped
<1>10. Read' /\ Active'
  BY <1>1, <1>2, <1>3, <1>5, <1>6, <1>7 DEF Read, Active
<1>11. Makers'
  BY <1>1, <1>3, <1>4, <1>5, <1>7 DEF Makers
<1>12. ASSUME NEW w \in Shippers
       PROVE  InFlight(w)'
  BY <1>1, <1>2, <1>4, <1>6 DEF InFlight, Passed, Filed, Noted
<1>13. Due'
  BY <1>1, <1>2, <1>3, <1>4, <1>5, <1>6, <1>7 DEF Due, Filed, Noted
<1> QED
  BY <1>8, <1>9, <1>10, <1>11, <1>12, <1>13 DEF SInv

----------------------------------------------------------------------------
(* Shipping. *)

\* What Textile stored and this host has noted as refused only grows.
Files ==
  /\ stored \subseteq stored' /\ refused \cup dropped \subseteq refused' \cup dropped'
  /\ refused' \in SUBSET Nat
  /\ \A s \in stored' : s \in stored \/ (s.maker \in Nat /\ s.maker =< key)

\* A shipper moves on to b.
Moves(w, b) ==
  /\ UNCHANGED <<file, journal, torn, snapshot, key>>
  /\ b \in Batches /\ ship' = [ship EXCEPT ![w] = b]
  /\ Files
  /\ cursor' \in 0..Len(journal) /\ NothingSkipped' /\ InFlight(w)'
  /\ \/ /\ b.pc # "idle" /\ UNCHANGED <<panel, bot>>
        /\ w = "bot" => bot.pc = "ships"
        /\ w = "panel" =>
             /\ panel.pc = "delivering"
             /\ b.pc = "read" => \A i \in panel.due : i =< b.limit
             /\ b.pc # "read" /\ ~b.full => \A i \in panel.due : i =< b.end
     \/ /\ b.pc = "idle"
        /\ w = "bot" =>
             /\ panel' = panel
             /\ bot' = bot \/ (bot.pc = "ships" /\ bot' = [Down EXCEPT !.pc = "up"])
        /\ w = "panel" =>
             /\ bot' = bot
             /\ \/ panel' = panel \/ panel' = IdlePanel
                \/ /\ panel.pc = "delivering" /\ \A i \in panel.due : Filed(i)'
                   /\ panel' = [panel EXCEPT !.pc = "registering", !.until = 0]

LEMMA FiledKept ==
  ASSUME Files
  PROVE  \A i : Filed(i) => Filed(i)'
BY DEF Files, Filed, Noted

LEMMA MovesSInv ==
  ASSUME SInv, NEW w \in Shippers, NEW b, Moves(w, b)
  PROVE  SInv'
<1>1. /\ LogTyped /\ ShippingTyped /\ Read /\ Active /\ Makers /\ Due
      /\ \A v \in Shippers : InFlight(v)
      /\ panel \in Panels /\ bot \in Bots /\ key \in Nat
  BY DEF SInv, ShippingTyped
<1>2. "bot" \in Shippers /\ "panel" \in Shippers /\ \A v \in Shippers : v = "bot" \/ v = "panel"
  BY DEF Shippers
<1>3. /\ UNCHANGED <<file, journal, torn, snapshot, key>>
      /\ b \in Batches /\ ship' = [ship EXCEPT ![w] = b] /\ Files
      /\ cursor' \in 0..Len(journal) /\ NothingSkipped' /\ InFlight(w)'
  BY DEF Moves
<1>4. /\ ship' \in [Shippers -> Batches] /\ ship'[w] = b
      /\ \A v \in Shippers \ {w} : ship'[v] = ship[v]
  BY <1>1, <1>3 DEF ShippingTyped
<1>5. \A i : Filed(i) => Filed(i)'
  BY <1>3, FiledKept
<1>6. LogTyped'
  BY <1>1, <1>3 DEF LogTyped
<1>7. ASSUME NEW v \in Shippers
      PROVE  InFlight(v)'
  <2>1. CASE v # w
    BY <1>1, <1>3, <1>4, <1>5, <2>1 DEF InFlight, Passed
  <2> QED
    BY <1>3, <2>1
<1>8. /\ [Down EXCEPT !.pc = "up"] \in Bots /\ [Down EXCEPT !.pc = "up"].pc = "up"
      /\ [Down EXCEPT !.pc = "up"].key = 0
  BY DEF Down, Bots, Texts
<1>9. IdlePanel \in Panels /\ IdlePanel.pc = "idle"
  BY DEF IdlePanel, Panels, Texts
<1>10. LET p == [panel EXCEPT !.pc = "registering", !.until = 0] IN
         p \in Panels /\ p.pc = "registering" /\ p.due = panel.due
  BY <1>1 DEF Panels
<1>11. CASE b.pc # "idle"
  <2>1. /\ UNCHANGED <<panel, bot>>
        /\ w = "bot" => bot.pc = "ships"
        /\ w = "panel" =>
             /\ panel.pc = "delivering"
             /\ b.pc = "read" => \A i \in panel.due : i =< b.limit
             /\ b.pc # "read" /\ ~b.full => \A i \in panel.due : i =< b.end
    BY <1>11 DEF Moves
  <2>2. ShippingTyped' /\ Read' /\ Active'
    BY <1>1, <1>2, <1>3, <1>4, <2>1 DEF ShippingTyped, Read, Active, Files
  <2>3. Makers'
    BY <1>1, <1>3, <2>1 DEF Makers, Files
  <2>4. Due'
    BY <1>1, <1>2, <1>3, <1>4, <1>5, <2>1 DEF Due
  <2> QED
    BY <1>3, <1>6, <1>7, <2>2, <2>3, <2>4 DEF SInv
<1>12. CASE b.pc = "idle" /\ w = "bot"
  <2>1. /\ panel' = panel
        /\ bot' = bot \/ (bot.pc = "ships" /\ bot' = [Down EXCEPT !.pc = "up"])
    BY <1>12 DEF Moves
  <2>2. bot' \in Bots /\ bot'.key =< key /\ (bot' = bot \/ bot'.pc = "up")
    <3>1. CASE bot' = bot
      BY <1>1, <3>1 DEF Makers
    <3>2. CASE bot' = [Down EXCEPT !.pc = "up"]
      <4>1. bot' \in Bots /\ bot'.pc = "up" /\ bot'.key = 0
        BY <1>8, <3>2
      <4> QED
        BY <1>1, <4>1
    <3> QED
      BY <2>1, <3>1, <3>2
  <2>3. ShippingTyped' /\ Read' /\ Active'
    BY <1>1, <1>2, <1>3, <1>4, <1>12, <2>1, <2>2 DEF ShippingTyped, Read, Active, Files
  <2>4. Makers'
    BY <1>1, <1>3, <2>2 DEF Makers, Files
  <2>5. Due'
    BY <1>1, <1>2, <1>3, <1>4, <1>5, <1>12, <2>1 DEF Due
  <2> QED
    BY <1>3, <1>6, <1>7, <2>3, <2>4, <2>5 DEF SInv
<1>13. CASE b.pc = "idle" /\ w = "panel"
  <2>1. /\ bot' = bot
        /\ \/ panel' = panel \/ panel' = IdlePanel
           \/ /\ panel.pc = "delivering" /\ \A i \in panel.due : Filed(i)'
              /\ panel' = [panel EXCEPT !.pc = "registering", !.until = 0]
    BY <1>13 DEF Moves
  <2>2. /\ panel' \in Panels
        /\ \/ panel' = panel \/ panel'.pc = "idle"
           \/ /\ \A i \in panel.due : Filed(i)'
              /\ panel'.pc = "registering" /\ panel'.due = panel.due
    BY <1>1, <1>9, <1>10, <2>1
  <2>3. ShippingTyped' /\ Read' /\ Active'
    BY <1>1, <1>2, <1>3, <1>4, <1>13, <2>1, <2>2 DEF ShippingTyped, Read, Active, Files
  <2>4. Makers'
    BY <1>1, <1>3, <2>1 DEF Makers, Files
  <2>5. Due'
    BY <1>1, <1>2, <1>3, <1>4, <1>5, <1>13, <2>2 DEF Due
  <2> QED
    BY <1>3, <1>6, <1>7, <2>3, <2>4, <2>5 DEF SInv
<1> QED
  BY <1>2, <1>11, <1>12, <1>13

\* What a step of shipping starts from.
LEMMA ShippingFacts ==
  ASSUME SInv, NEW w \in Shippers
  PROVE  /\ journal \in Seq(Lines) /\ Len(journal) \in Nat
         /\ cursor \in 0..Len(journal) /\ Passed(cursor, {})
         /\ ship[w] \in Batches /\ ship[w].limit \in Nat /\ ship[w].end \in Nat
         /\ ship[w].lines \in SUBSET Nat /\ refused \in SUBSET Nat
         /\ InFlight(w) /\ Makers /\ Due
         /\ panel \in Panels /\ bot \in Bots /\ key \in Nat
         /\ KeyOf(w) \in Nat /\ KeyOf(w) =< key
         /\ w = "bot" \/ w = "panel"
         /\ ship[w].pc # "idle" =>
              /\ w = "bot" => bot.pc = "ships"
              /\ w = "panel" =>
                   /\ panel.pc = "delivering"
                   /\ \A i \in panel.due : i \in 1..Len(journal) /\ journal[i] # NoLine
                   /\ ship[w].pc = "read" => \A i \in panel.due : i =< ship[w].limit
                   /\ ship[w].pc # "read" /\ ~ship[w].full =>
                        \A i \in panel.due : i =< ship[w].end
<1>1. /\ LogTyped /\ ShippingTyped /\ Active /\ Makers /\ NothingSkipped /\ Due /\ InFlight(w)
  BY DEF SInv
<1>2. journal \in Seq(Lines) /\ Len(journal) \in Nat
  BY <1>1, LenProperties DEF LogTyped
<1>3. /\ ship[w] \in Batches /\ panel \in Panels /\ bot \in Bots /\ key \in Nat
      /\ cursor \in 0..Len(journal) /\ refused \in SUBSET Nat
  BY <1>1 DEF ShippingTyped
<1>4. Passed(cursor, {})
  BY <1>1 DEF NothingSkipped, Passed
<1>5. bot.key \in Nat /\ bot.key =< key
  BY <1>1, <1>3 DEF Makers, Bots
<1>6. KeyOf(w) \in Nat /\ KeyOf(w) =< key
  BY <1>3, <1>5 DEF KeyOf
<1>7. /\ ship[w].limit \in Nat /\ ship[w].end \in Nat /\ ship[w].lines \in SUBSET Nat
  BY <1>3 DEF Batches
<1>8. w = "bot" \/ w = "panel"
  BY DEF Shippers
<1>9. ship[w].pc # "idle" =>
        /\ w = "bot" => bot.pc = "ships"
        /\ w = "panel" =>
             /\ panel.pc = "delivering"
             /\ \A i \in panel.due : i \in 1..Len(journal) /\ journal[i] # NoLine
             /\ ship[w].pc = "read" => \A i \in panel.due : i =< ship[w].limit
             /\ ship[w].pc # "read" /\ ~ship[w].full =>
                  \A i \in panel.due : i =< ship[w].end
  BY <1>1, <1>7, <1>8 DEF Active, Due
<1> QED
  BY <1>1, <1>2, <1>3, <1>4, <1>6, <1>7, <1>8, <1>9

LEMMA StoresFiles ==
  ASSUME SInv, NEW w \in Shippers, NEW lines, Stores(w, lines), UNCHANGED <<refused, dropped>>
  PROVE  Files /\ \A i \in lines : Filed(i)'
<1>1. KeyOf(w) \in Nat /\ KeyOf(w) =< key
  BY ShippingFacts
<1>2. stored' = stored \cup {[line |-> i, maker |-> KeyOf(w)] :
                                i \in {i \in lines : \A s \in stored : s.line # i}}
  BY DEF Stores
<1>3. Files
  BY <1>1, <1>2, ShippingFacts DEF Files
<1>4. ASSUME NEW i \in lines
      PROVE  \E s \in stored' : s.line = i
  <2>1. CASE \E s \in stored : s.line = i
    BY <1>2, <2>1
  <2>2. CASE \A s \in stored : s.line # i
    <3>1. [line |-> i, maker |-> KeyOf(w)] \in stored'
      BY <1>2, <2>2
    <3> QED
      BY <3>1
  <2> QED
    BY <2>1, <2>2
<1> QED
  BY <1>3, <1>4 DEF Filed, Noted

\* A shipper that has all it ships filed is done.
LEMMA DoneSInv ==
  ASSUME SInv, NEW w \in Shippers, UNCHANGED <<notShip, refused, stored, dropped>>,
         cursor' \in 0..Len(journal), Passed(cursor', {}), ship[w].pc # "idle",
         \/ Goes(w, NoShip) /\ UNCHANGED <<panel, bot>>
         \/ Done(w) /\ (w = "panel" => \A i \in panel.due : Filed(i))
  PROVE  SInv'
<1>1. UNCHANGED <<file, journal, torn, snapshot, key>>
  BY DEF notShip, config, log
<1>2. NothingSkipped' /\ Files
  BY <1>1, ShippingFacts DEF NothingSkipped, Passed, Filed, Noted, Files
<1>3. NoShip \in Batches /\ NoShip.pc = "idle"
  BY DEF NoShip, Batches
<1>4. ship' = [ship EXCEPT ![w] = NoShip]
  BY DEF Goes, Done
<1>5. ship'[w] = NoShip
  BY <1>4 DEF SInv, ShippingTyped
<1>6. InFlight(w)'
  BY <1>3, <1>5 DEF InFlight
<1>7. w = "bot" => /\ panel' = panel
                   /\ bot' = bot \/ (bot.pc = "ships" /\ bot' = [Down EXCEPT !.pc = "up"])
  BY ShippingFacts DEF Done
<1>8. w = "panel" =>
        /\ bot' = bot
        /\ \/ panel' = panel \/ panel' = IdlePanel
           \/ /\ panel.pc = "delivering" /\ \A i \in panel.due : Filed(i)'
              /\ panel' = [panel EXCEPT !.pc = "registering", !.until = 0]
  BY <1>2, ShippingFacts, FiledKept DEF Done
<1>9. Moves(w, NoShip)
  BY <1>1, <1>2, <1>3, <1>4, <1>6, <1>7, <1>8 DEF Moves
<1> QED
  BY <1>9, MovesSInv

LEMMA ReadSInv ==
  ASSUME SInv, NEW w \in Shippers, ReadJournal(w) \/ ReadCursor(w)
  PROVE  SInv'
<1>1. /\ journal \in Seq(Lines) /\ Len(journal) \in Nat
      /\ cursor \in 0..Len(journal) /\ Passed(cursor, {})
      /\ ship \in [Shippers -> Batches] /\ ship[w].limit \in Nat
      /\ panel \in Panels /\ bot \in Bots /\ InFlight(w) /\ Active /\ Due
      /\ w = "bot" \/ w = "panel"
  BY ShippingFacts DEF SInv, ShippingTyped
<1>2. UNCHANGED <<stored, refused, dropped>> => Files
  BY ShippingFacts DEF Files
<1>3. CASE ReadJournal(w)
  <2>11. PICK limit : limit = Least(ActiveUntil(w), Len(journal))
    OBVIOUS
  <2>12. PICK b : b = [NoShip EXCEPT !.pc = "read", !.limit = limit]
    OBVIOUS
  <2>1. /\ ship[w].pc = "idle" /\ ActiveUntil(w) > 0
        /\ ship' = [ship EXCEPT ![w] = b]
        /\ UNCHANGED <<file, journal, torn, snapshot, key, cursor, refused, stored, dropped, panel, bot>>
    BY <1>3, <2>11, <2>12 DEF ReadJournal, At, Goes, notShip, config, log
  <2>2. /\ ActiveUntil(w) \in Nat
        /\ w = "bot" => bot.pc = "ships"
        /\ w = "panel" => panel.pc = "delivering" /\ ActiveUntil(w) = panel.until
    <3>1. bot.until \in Nat /\ panel.until \in Nat
      BY <1>1 DEF Panels, Bots
    <3>2. CASE w = "bot"
      BY <1>1, <2>1, <3>1, <3>2 DEF ActiveUntil, Active
    <3>3. CASE w = "panel"
      BY <2>1, <3>1, <3>3 DEF ActiveUntil
    <3> QED
      BY <1>1, <3>2, <3>3
  <2>3. limit \in Nat /\ limit =< Len(journal)
    BY <1>1, <2>2, <2>11 DEF Least
  <2>4. w = "panel" => \A i \in panel.due : i =< limit
    BY <1>1, <2>2, <2>11 DEF Due, Least, Panels
  <2>5. b = [pc |-> "read", limit |-> limit, lines |-> {}, end |-> 0, full |-> FALSE,
             at |-> 0, copy |-> {}]
    BY <2>12 DEF NoShip
  <2>6. b \in Batches /\ b.pc = "read" /\ b.limit = limit
    BY <2>3, <2>5 DEF Batches
  <2>7. ship'[w] = b
    BY <1>1, <2>1
  <2>8. InFlight(w)'
    BY <2>1, <2>3, <2>6, <2>7 DEF InFlight
  <2>9. NothingSkipped'
    BY <2>1 DEF SInv, NothingSkipped, Filed, Noted
  <2>10. Moves(w, b)
    BY <1>1, <1>2, <2>1, <2>2, <2>4, <2>6, <2>8, <2>9 DEF Moves
  <2> QED
    BY <2>10, MovesSInv
<1>4. CASE ReadCursor(w)
  <2>11. PICK batch : batch = Pending(journal, cursor, ship[w].limit, MaxBatch)
    OBVIOUS
  <2>1. /\ ship[w].pc = "read" /\ UNCHANGED <<notShip, cursor, refused, stored, dropped>>
        /\ \/ /\ batch.lines # {} /\ Goes(w, [batch EXCEPT !.pc = "post"])
              /\ UNCHANGED <<panel, bot>>
           \/ /\ batch.lines = {} /\ Goes(w, [batch EXCEPT !.pc = "saving"])
              /\ UNCHANGED <<panel, bot>>
           \/ batch.lines = {} /\ batch.end = cursor /\ Done(w)
    BY <1>4, <2>11 DEF ReadCursor, At
  <2>2. ship[w].limit =< Len(journal) /\ MaxBatch \in Nat \ {0} /\ cursor \in Nat
    BY <1>1, <2>1, ConstantsTyped DEF InFlight
  <2>3. /\ batch \in Batches /\ batch.lines \subseteq 1..batch.end
        /\ batch.end =< ship[w].limit
        /\ ~batch.full => batch.end = ship[w].limit
        /\ batch.full => batch.lines # {}
        /\ \A i \in 1..batch.end : i =< cursor \/ journal[i] = NoLine \/ i \in batch.lines
    BY <1>1, <2>2, <2>11, PendingPasses
  <2>4. batch.end \in Nat /\ batch.end =< Len(journal) /\ batch.full \in BOOLEAN
    BY <1>1, <2>2, <2>3 DEF Batches
  <2>5. Passed(batch.end, batch.lines)
    <3>1. \A i \in 1..batch.end : i =< cursor => journal[i] = NoLine \/ Filed(i)
      BY <1>1, <2>4 DEF Passed
    <3> QED
      BY <2>3, <3>1 DEF Passed
  <2>6. /\ w = "bot" => bot.pc = "ships"
        /\ w = "panel" =>
             /\ panel.pc = "delivering" /\ \A i \in panel.due : i =< ship[w].limit
             /\ \A i \in panel.due : i \in 1..Len(journal) /\ journal[i] # NoLine
    BY <2>1, ShippingFacts
  <2>7. w = "panel" /\ ~batch.full => \A i \in panel.due : i =< batch.end
    BY <2>3, <2>6
  <2>8. CASE batch.lines = {} /\ batch.end = cursor /\ Done(w)
    <3>1. ~batch.full
      BY <2>3, <2>8
    <3>2. w = "panel" => \A i \in panel.due : i \in 1..cursor
      BY <2>2, <2>6, <2>7, <2>8, <3>1
    <3>3. w = "panel" => \A i \in panel.due : Filed(i)
      BY <1>1, <2>6, <3>2 DEF Passed
    <3>4. cursor' = cursor
      BY <2>1
    <3> QED
      BY <1>1, <2>1, <2>8, <3>3, <3>4, DoneSInv
  <2>9. ASSUME NEW pc \in {"post", "saving"}, Goes(w, [batch EXCEPT !.pc = pc]),
               pc = "post" => batch.lines # {}, pc = "saving" => batch.lines = {},
               UNCHANGED <<panel, bot>>
        PROVE  SInv'
    <3>0. PICK b : b = [batch EXCEPT !.pc = pc]
      OBVIOUS
    <3>1. /\ ship' = [ship EXCEPT ![w] = b]
          /\ UNCHANGED <<file, journal, torn, snapshot, key, cursor, refused, stored, dropped,
                         panel, bot>>
      BY <2>1, <2>9, <3>0 DEF Goes, notShip, config, log
    <3>2. /\ b \in Batches /\ b.pc = pc /\ b.lines = batch.lines /\ b.end = batch.end
          /\ b.full = batch.full
      BY <2>3, <2>9, <3>0 DEF Batches
    <3>3. ship'[w] = b
      BY <1>1, <3>1
    <3>4. Passed(b.end, b.lines)'
      BY <2>5, <3>1, <3>2 DEF Passed, Filed, Noted
    <3>5. InFlight(w)'
      BY <2>3, <2>4, <2>9, <3>1, <3>2, <3>3, <3>4 DEF InFlight
    <3>6. NothingSkipped'
      BY <3>1 DEF SInv, NothingSkipped, Filed, Noted
    <3>7. Moves(w, b)
      BY <1>1, <1>2, <2>6, <2>7, <2>9, <3>1, <3>2, <3>5, <3>6 DEF Moves
    <3> QED
      BY <3>7, MovesSInv
  <2> QED
    BY <2>1, <2>8, <2>9
<1> QED
  BY <1>3, <1>4

LEMMA AcceptedSInv ==
  ASSUME SInv, NEW w \in Shippers, Accepted(w) \/ BatchRefused(w)
  PROVE  SInv'
<1>1. PICK b, c : /\ b = ship[w]
                  /\ c = IF Accepted(w) THEN [b EXCEPT !.pc = "saving", !.lines = {}]
                         ELSE [b EXCEPT !.pc = "single"]
  OBVIOUS
<1>2. /\ b.pc = "post" /\ ship' = [ship EXCEPT ![w] = c]
      /\ UNCHANGED <<file, journal, torn, snapshot, key, cursor, refused, dropped, panel, bot>>
  BY <1>1 DEF Accepted, BatchRefused, At, Goes, notShip, config, log
<1>3. /\ b \in Batches /\ ship \in [Shippers -> Batches] /\ InFlight(w)
      /\ cursor \in 0..Len(journal)
      /\ w = "bot" => bot.pc = "ships"
      /\ w = "panel" =>
           panel.pc = "delivering" /\ (~b.full => \A i \in panel.due : i =< b.end)
  BY <1>1, <1>2, ShippingFacts DEF SInv, ShippingTyped
<1>4. /\ b.end =< Len(journal) /\ b.lines \subseteq 1..b.end /\ b.lines # {}
      /\ Passed(b.end, b.lines)
  BY <1>1, <1>2, <1>3 DEF InFlight
<1>5. Files /\ (Accepted(w) => \A i \in b.lines : Filed(i)')
  <2>1. CASE Accepted(w)
    <3>1. Stores(w, b.lines)
      BY <1>1, <2>1 DEF Accepted
    <3> QED
      BY <1>2, <3>1, StoresFiles
  <2>2. CASE ~Accepted(w)
    BY <1>2, <2>2, ShippingFacts DEF BatchRefused, Files
  <2> QED
    BY <2>1, <2>2
<1>6. \A i : Filed(i) => Filed(i)'
  BY <1>5, FiledKept
<1>7. /\ c \in Batches /\ c.end = b.end /\ c.full = b.full
      /\ \/ Accepted(w) /\ c.pc = "saving" /\ c.lines = {}
         \/ ~Accepted(w) /\ c.pc = "single" /\ c.lines = b.lines
  BY <1>1, <1>3 DEF Batches
<1>8. Passed(c.end, c.lines)'
  BY <1>2, <1>4, <1>5, <1>6, <1>7 DEF Passed
<1>9. ship'[w] = c
  BY <1>2, <1>3
<1>10. InFlight(w)'
  BY <1>2, <1>4, <1>7, <1>8, <1>9 DEF InFlight
<1>11. NothingSkipped'
  BY <1>2, <1>6 DEF SInv, NothingSkipped
<1>12. Moves(w, c)
  BY <1>2, <1>3, <1>5, <1>7, <1>10, <1>11 DEF Moves
<1> QED
  BY <1>12, MovesSInv

\* A record that is filed is no longer among those that are shipped.
LEMMA SentSInv ==
  ASSUME SInv, NEW w \in Shippers, ship[w].pc \in {"single", "noting"},
         NEW i, i = Min(ship[w].lines), Sent(w, i), Files, Filed(i)',
         UNCHANGED <<notShip, cursor, panel, bot>>
  PROVE  SInv'
<1>1. PICK b, left, c : /\ b = ship[w] /\ left = b.lines \ {i}
                        /\ c = [b EXCEPT !.pc = "step", !.at = i, !.lines = left, !.copy = {}]
  OBVIOUS
<1>2. /\ ship' = [ship EXCEPT ![w] = c]
      /\ UNCHANGED <<file, journal, torn, snapshot, key, cursor, panel, bot>>
  BY <1>1 DEF Sent, Goes, notShip, config, log
<1>3. /\ b \in Batches /\ ship \in [Shippers -> Batches] /\ Len(journal) \in Nat
      /\ b.end \in Nat /\ b.lines \in SUBSET Nat /\ InFlight(w)
      /\ cursor \in 0..Len(journal)
      /\ w = "bot" => bot.pc = "ships"
      /\ w = "panel" =>
           panel.pc = "delivering" /\ (~b.full => \A d \in panel.due : d =< b.end)
  BY <1>1, ShippingFacts DEF SInv, ShippingTyped
<1>4. /\ b.end =< Len(journal) /\ b.lines \subseteq 1..b.end /\ b.lines # {}
      /\ Passed(b.end, b.lines)
  BY <1>1, <1>3 DEF InFlight
<1>5. i \in b.lines /\ \A k \in b.lines : i =< k
  BY <1>1, <1>3, <1>4, Smallest
<1>6. \A k : Filed(k) => Filed(k)'
  BY FiledKept
<1>7. i \in Nat /\ left \in SUBSET Nat
  BY <1>1, <1>3, <1>5
<1>8. /\ c \in Batches /\ c.pc = "step" /\ c.at = i /\ c.lines = left /\ c.end = b.end
      /\ c.full = b.full
  BY <1>1, <1>3, <1>7 DEF Batches
<1>9. Passed(c.end, c.lines)'
  BY <1>1, <1>2, <1>4, <1>6, <1>8 DEF Passed
<1>10. ship'[w] = c
  BY <1>2, <1>3
<1>11. \A k \in left : i < k
  BY <1>1, <1>3, <1>5, <1>7
<1>12. journal' = journal /\ left \subseteq 1..b.end /\ i \in 1..b.end
  BY <1>1, <1>2, <1>4, <1>5
<1>13. InFlight(w)'
  BY <1>4, <1>8, <1>9, <1>10, <1>11, <1>12 DEF InFlight
<1>14. NothingSkipped'
  BY <1>2, <1>6 DEF SInv, NothingSkipped
<1>15. Moves(w, c)
  BY <1>2, <1>3, <1>8, <1>13, <1>14 DEF Moves
<1> QED
  BY <1>15, MovesSInv

LEMMA OneByOneSInv ==
  ASSUME SInv, NEW w \in Shippers, OneByOne(w)
  PROVE  SInv'
<1>1. PICK i : i = Min(ship[w].lines)
  OBVIOUS
<1>2. /\ ship[w].pc = "single"
      /\ UNCHANGED <<notShip, cursor, refused, dropped, panel, bot>>
      /\ \/ Stores(w, {i}) /\ Sent(w, i)
         \/ /\ Goes(w, [ship[w] EXCEPT !.pc = "noting", !.copy = refused])
            /\ UNCHANGED stored
  BY <1>1 DEF OneByOne, At
<1>3. CASE Stores(w, {i}) /\ Sent(w, i)
  <2>1. Files /\ Filed(i)'
    BY <1>2, <1>3, StoresFiles
  <2> QED
    BY <1>1, <1>2, <1>3, <2>1, SentSInv
<1>4. CASE Goes(w, [ship[w] EXCEPT !.pc = "noting", !.copy = refused]) /\ UNCHANGED stored
  <2>1. PICK b : b = [ship[w] EXCEPT !.pc = "noting", !.copy = refused]
    OBVIOUS
  <2>2. /\ ship' = [ship EXCEPT ![w] = b]
        /\ UNCHANGED <<file, journal, torn, snapshot, key, cursor, refused, stored, dropped,
                       panel, bot>>
    BY <1>2, <1>4, <2>1 DEF Goes, notShip, config, log
  <2>3. /\ ship[w] \in Batches /\ ship \in [Shippers -> Batches] /\ InFlight(w)
        /\ cursor \in 0..Len(journal) /\ refused \in SUBSET Nat
        /\ w = "bot" => bot.pc = "ships"
        /\ w = "panel" =>
             /\ panel.pc = "delivering"
             /\ ~ship[w].full => \A k \in panel.due : k =< ship[w].end
    BY <1>2, ShippingFacts DEF SInv, ShippingTyped
  <2>4. /\ b \in Batches /\ b.pc = "noting" /\ b.lines = ship[w].lines /\ b.end = ship[w].end
        /\ b.full = ship[w].full
    BY <2>1, <2>3 DEF Batches
  <2>5. ship'[w] = b
    BY <2>2, <2>3
  <2>6. InFlight(w)'
    BY <1>2, <2>2, <2>3, <2>4, <2>5 DEF InFlight, Passed, Filed, Noted
  <2>7. NothingSkipped' /\ Files
    BY <2>2, <2>3, ShippingFacts DEF SInv, NothingSkipped, Filed, Noted, Files
  <2>8. Moves(w, b)
    BY <2>2, <2>3, <2>4, <2>6, <2>7 DEF Moves
  <2> QED
    BY <2>8, MovesSInv
<1> QED
  BY <1>2, <1>3, <1>4

LEMMA NoteSInv ==
  ASSUME SInv, NEW w \in Shippers, Note(w)
  PROVE  SInv'
<1>1. PICK i : i = Min(ship[w].lines)
  OBVIOUS
<1>2. /\ ship[w].pc = "noting" /\ refused' = ship[w].copy \cup {i} /\ Sent(w, i)
      /\ dropped' = dropped \cup (refused \ refused')
      /\ UNCHANGED <<notShip, cursor, stored, panel, bot>>
  BY <1>1 DEF Note, At
<1>3. /\ ship[w] \in Batches /\ InFlight(w) /\ Makers /\ key \in Nat
      /\ ship[w].lines \in SUBSET Nat /\ ship[w].copy \in SUBSET Nat
  BY ShippingFacts DEF Batches
<1>4. ship[w].lines # {}
  BY <1>2, <1>3 DEF InFlight
<1>5. i \in Nat
  BY <1>1, <1>3, <1>4, Smallest
<1>6. Files
  BY <1>2, <1>3, <1>5, ShippingFacts DEF Files, Makers
<1>7. Filed(i)'
  BY <1>2 DEF Filed, Noted
<1> QED
  BY <1>1, <1>2, <1>6, <1>7, SentSInv

LEMMA SaveEntrySInv ==
  ASSUME SInv, NEW w \in Shippers, SaveEntry(w)
  PROVE  SInv'
<1>1. PICK b, c : /\ b = ship[w]
                  /\ c = [b EXCEPT !.pc = IF b.lines = {} THEN "saving" ELSE "single", !.at = 0]
  OBVIOUS
<1>2. /\ b.pc = "step" /\ cursor' = b.at /\ ship' = [ship EXCEPT ![w] = c]
      /\ UNCHANGED <<file, journal, torn, snapshot, key, refused, stored, dropped, panel, bot>>
  BY <1>1 DEF SaveEntry, At, Goes, notShip, config, log
<1>3. /\ b \in Batches /\ ship \in [Shippers -> Batches] /\ Len(journal) \in Nat
      /\ b.end \in Nat /\ b.lines \in SUBSET Nat /\ InFlight(w)
      /\ w = "bot" => bot.pc = "ships"
      /\ w = "panel" =>
           panel.pc = "delivering" /\ (~b.full => \A d \in panel.due : d =< b.end)
  BY <1>1, <1>2, ShippingFacts DEF SInv, ShippingTyped
<1>4. /\ b.end =< Len(journal) /\ b.lines \subseteq 1..b.end /\ Passed(b.end, b.lines)
      /\ b.at \in 1..b.end /\ \A k \in b.lines : b.at < k
  BY <1>1, <1>2, <1>3 DEF InFlight
<1>5. /\ c \in Batches /\ c.lines = b.lines /\ c.end = b.end /\ c.full = b.full
      /\ c.pc = IF b.lines = {} THEN "saving" ELSE "single"
  BY <1>1, <1>3 DEF Batches
<1>6. ship'[w] = c
  BY <1>2, <1>3
<1>7. InFlight(w)'
  BY <1>2, <1>4, <1>5, <1>6 DEF InFlight, Passed, Filed, Noted
<1>8. cursor' \in 0..Len(journal)
  BY <1>2, <1>3, <1>4
<1>9. NothingSkipped'
  <2>1. ASSUME NEW k \in 1..b.at
        PROVE  journal[k] = NoLine \/ Filed(k)
    <3>1. k \in 1..b.end /\ ~(b.at < k)
      BY <1>3, <1>4
    <3>2. k \notin b.lines
      BY <1>4, <3>1
    <3> QED
      BY <1>4, <3>1, <3>2 DEF Passed
  <2> QED
    BY <1>2, <2>1 DEF NothingSkipped, Filed, Noted
<1>10. Files
  BY <1>2, ShippingFacts DEF Files
<1>11. Moves(w, c)
  BY <1>2, <1>3, <1>5, <1>7, <1>8, <1>9, <1>10 DEF Moves
<1> QED
  BY <1>11, MovesSInv

LEMMA SaveBatchSInv ==
  ASSUME SInv, NEW w \in Shippers, SaveBatch(w)
  PROVE  SInv'
<1>1. PICK b : b = ship[w]
  OBVIOUS
<1>2. /\ b.pc = "saving" /\ cursor' = b.end
      /\ UNCHANGED <<notShip, refused, stored, dropped>>
      /\ \/ Goes(w, NoShip) /\ UNCHANGED <<panel, bot>>
         \/ ~b.full /\ Done(w)
  BY <1>1 DEF SaveBatch, At
<1>3. /\ Len(journal) \in Nat /\ b.end \in Nat /\ InFlight(w)
      /\ w = "panel" =>
           /\ \A i \in panel.due : i \in 1..Len(journal) /\ journal[i] # NoLine
           /\ ~b.full => \A i \in panel.due : i =< b.end
  BY <1>1, <1>2, ShippingFacts
<1>4. b.end =< Len(journal) /\ Passed(b.end, {})
  BY <1>1, <1>2, <1>3 DEF InFlight
<1>5. w = "panel" /\ ~b.full => \A i \in panel.due : i \in 1..b.end
  BY <1>3
<1>6. w = "panel" /\ ~b.full => \A i \in panel.due : Filed(i)
  BY <1>3, <1>4, <1>5 DEF Passed
<1>7. cursor' \in 0..Len(journal) /\ Passed(cursor', {}) /\ ship[w].pc # "idle"
  BY <1>1, <1>2, <1>3, <1>4
<1> QED
  BY <1>2, <1>6, <1>7, DoneSInv

LEMMA FailsSInv ==
  ASSUME SInv, NEW w \in Shippers, Fails(w)
  PROVE  SInv'
<1>1. /\ UNCHANGED <<file, journal, torn, snapshot, key, cursor, refused, stored, dropped, bot>>
      /\ ship' = [ship EXCEPT ![w] = NoShip]
      /\ panel' = IF w = "panel" THEN IdlePanel ELSE panel
  BY DEF Fails, Goes, notShip, config, log
<1>2. Files
  BY <1>1, ShippingFacts DEF Files
<1>3. NoShip \in Batches /\ NoShip.pc = "idle"
  BY DEF NoShip, Batches
<1>4. ship'[w] = NoShip /\ cursor' \in 0..Len(journal)
  BY <1>1 DEF SInv, ShippingTyped
<1>5. InFlight(w)'
  BY <1>3, <1>4 DEF InFlight
<1>6. NothingSkipped'
  BY <1>1, <1>2, FiledKept DEF SInv, NothingSkipped
<1>7. Moves(w, NoShip)
  BY <1>1, <1>2, <1>3, <1>4, <1>5, <1>6 DEF Moves
<1> QED
  BY <1>7, MovesSInv

LEMMA StutterSInv ==
  ASSUME SInv, UNCHANGED vars
  PROVE  SInv'
<1>1. UNCHANGED <<file, journal, torn, snapshot, cursor, refused, ship, stored, dropped, key, panel, bot>>
  BY DEF vars, config, log, shipping
<1>2. /\ LogTyped /\ ShippingTyped /\ Read /\ Active /\ Makers /\ NothingSkipped /\ Due
      /\ \A w \in Shippers : InFlight(w)
  BY DEF SInv
<1>3. LogTyped' /\ ShippingTyped' /\ Read' /\ Active' /\ Makers'
  BY <1>1, <1>2 DEF LogTyped, ShippingTyped, Read, Active, Makers
<1>4. NothingSkipped' /\ Due' /\ \A w \in Shippers : InFlight(w)'
  BY <1>1, <1>2 DEF NothingSkipped, Due, InFlight, Passed, Filed, Noted
<1> QED
  BY <1>3, <1>4 DEF SInv

LEMMA NextSInv == SInv /\ [Next]_vars => SInv'
<1> SUFFICES ASSUME SInv, [Next]_vars PROVE SInv'
  OBVIOUS
<1>1. CASE HostEdit
  BY <1>1, PanelSInv
<1>2. CASE Panel
  BY <1>2, SaveSInv, PanelSInv, KeySInv, StopsSInv DEF Panel
<1>3. CASE Bot
  BY <1>3, BotSInv, StopsSInv DEF Bot
<1>4. ASSUME NEW w \in Shippers, Ships(w)
      PROVE  SInv'
  BY <1>4, ReadSInv, AcceptedSInv, OneByOneSInv, NoteSInv, SaveEntrySInv,
     SaveBatchSInv, FailsSInv DEF Ships
<1>5. CASE UNCHANGED vars
  BY <1>5, StutterSInv
<1> QED
  BY <1>1, <1>2, <1>3, <1>4, <1>5 DEF Next

LEMMA SpecSInv == Spec => []SInv
BY InitSInv, NextSInv, PTL DEF Spec

\* Whatever fails or is restarted, and however the bot and the panel ship the
\* same lines, the cursor passes only what Textile has, or refused and this host
\* noted: for any batch size, and any number of keys, changes and faults.
THEOREM NothingIsSkipped == Spec => []NothingSkipped
<1>1. SInv => NothingSkipped
  BY DEF SInv
<1> QED
  BY <1>1, SpecSInv, PTL

\* What was owed when a change of the key was asked for is filed under a maker
\* before the change.
THEOREM OwedIsFiledInTime == Spec => FiledInTime
<1>1. ASSUME SInv, [Next]_vars, key' # key
      PROVE  \A i \in panel.due :
               Noted(i) \/ \E s \in stored : s.line = i /\ s.maker =< key
  <2>1. StoreKey
    BY <1>1 DEF Next, HostEdit, Panel, Bot, Ships, Save, WriteConfig, Record, ChangeKey,
                PanelStops, ReadConfig, CatchUpAtStart, Spawn, Stop, ReadJournal, ReadCursor,
                Accepted, BatchRefused, OneByOne, Note, SaveEntry, SaveBatch, Fails,
                notShip, vars
  <2>2. \A i \in panel.due : Filed(i)
    BY <1>1, <2>1 DEF StoreKey, SInv, Due
  <2>3. \A s \in stored : s.maker =< key
    BY <1>1 DEF SInv, Makers
  <2> QED
    BY <2>2, <2>3 DEF Filed, Noted
<1>2. SInv /\ [Next]_vars =>
        [key' # key => \A i \in panel.due :
           Noted(i) \/ \E s \in stored : s.line = i /\ s.maker =< key]_vars
  BY <1>1
<1> QED
  BY <1>2, SpecSInv, PTL DEF Spec, FiledInTime

----------------------------------------------------------------------------
(* What the journal, read from its first line, says. *)

Rep(lines, param, n) ==
  LET about == {i \in 1..n : lines[i].param = param}
  IN IF about = {} THEN None ELSE lines[Max(about)].after

Says(lines, text) == \A param \in Tracked : Rep(lines, param, Len(lines)) = text[param]

\* Each line starts from where the lines before it end.
Chain(lines) ==
  \A i \in 1..Len(lines) :
    /\ lines[i].param \in Tracked /\ lines[i].text \in Text
    /\ lines[i].before = Rep(lines, lines[i].param, i - 1)

LastOf(lines) == IF lines = <<>> THEN NoText ELSE lines[Len(lines)].text

LEMMA PrefixSays ==
  ASSUME NEW j \in Seq(Lines), NEW k \in Seq(Lines), Extends(j, k), NEW param,
         NEW n \in Nat, n =< Len(j)
  PROVE  Rep(k, param, n) = Rep(j, param, n)
<1> DEFINE about == {i \in 1..n : j[i].param = param}
<1>1. \A i \in 1..n : k[i] = j[i]
  BY LenProperties DEF Extends
<1>2. about = {i \in 1..n : k[i].param = param}
  BY <1>1
<1>3. about # {} => Max(about) \in 1..n
  <2>1. about \in SUBSET (0..n)
    OBVIOUS
  <2>2. about # {} => Max(about) \in about
    <3> HIDE DEF about
    <3> QED
      BY <2>1, Greatest
  <2> QED
    BY <2>2
<1>4. about # {} => k[Max(about)] = j[Max(about)]
  BY <1>1, <1>3
<1> HIDE DEF about
<1>5. Rep(j, param, n) = IF about = {} THEN None ELSE j[Max(about)].after
  BY DEF Rep, about
<1>6. Rep(k, param, n) = IF about = {} THEN None ELSE k[Max(about)].after
  BY <1>2 DEF Rep
<1> QED
  BY <1>4, <1>5, <1>6

LEMMA OneMoreLine ==
  ASSUME NEW j \in Seq(Lines), NEW line \in Lines
  PROVE  LET k == j \o <<line>> IN
         /\ k \in Seq(Lines) /\ Len(k) = Len(j) + 1 /\ k # <<>> /\ k[Len(k)] = line
         /\ Extends(j, k)
<1>1. <<line>> \in Seq(Lines) /\ Len(<<line>>) = 1 /\ <<line>>[1] = line
  OBVIOUS
<1>2. Len(j) \in Nat
  BY LenProperties
<1> DEFINE k == j \o <<line>>
<1>3. /\ k \in Seq(Lines) /\ Len(k) = Len(j) + 1
      /\ \A i \in 1..Len(j) + 1 : k[i] = IF i <= Len(j) THEN j[i] ELSE <<line>>[i - Len(j)]
  BY <1>1, ConcatProperties
<1> HIDE DEF k
<1>4. k[Len(j) + 1] = line
  BY <1>1, <1>2, <1>3
<1>5. Extends(j, k)
  BY <1>2, <1>3 DEF Extends
<1> QED
  BY <1>2, <1>3, <1>4, <1>5 DEF k

LEMMA OneMoreSays ==
  ASSUME NEW j \in Seq(Lines), NEW line \in Lines, NEW param
  PROVE  LET k == j \o <<line>> IN
         Rep(k, param, Len(k)) = IF line.param = param THEN line.after ELSE Rep(j, param, Len(j))
<1> DEFINE k == j \o <<line>>
           about == {i \in 1..Len(k) : k[i].param = param}
<1>1. /\ k \in Seq(Lines) /\ Len(k) = Len(j) + 1 /\ k[Len(k)] = line
      /\ Extends(j, k) /\ Len(j) \in Nat
  BY OneMoreLine, LenProperties
<1> HIDE DEF k
<1>2. Rep(k, param, Len(k)) = IF about = {} THEN None ELSE k[Max(about)].after
  BY DEF Rep
<1>3. CASE line.param = param
  <2>1. Len(k) \in about /\ about \in SUBSET (0..Len(k)) /\ \A i \in about : i =< Len(k)
    BY <1>1, <1>3
  <2> HIDE DEF about
  <2>2. Max(about) \in about /\ \A i \in about : Max(about) >= i
    <3>1. Len(k) \in Nat /\ about # {}
      BY <1>1, <2>1
    <3> QED
      BY <2>1, <3>1, Greatest
  <2>3. Max(about) = Len(k)
    <3>1. Max(about) \in 0..Len(k) /\ Max(about) >= Len(k)
      BY <2>1, <2>2
    <3> QED
      BY <1>1, <3>1
  <2> QED
    BY <1>1, <1>2, <1>3, <2>1, <2>3 DEF k
<1>4. CASE line.param # param
  <2>1. about = {i \in 1..Len(j) : k[i].param = param}
    BY <1>1, <1>4
  <2>2. Rep(k, param, Len(k)) = Rep(k, param, Len(j))
    BY <1>2, <2>1 DEF Rep
  <2>3. Rep(k, param, Len(j)) = Rep(j, param, Len(j))
    BY <1>1, PrefixSays
  <2> QED
    BY <1>4, <2>2, <2>3 DEF k
<1> QED
  BY <1>3, <1>4

LEMMA OneMoreChain ==
  ASSUME NEW j \in Seq(Lines), Chain(j), NEW line \in Lines,
         line.param \in Tracked, line.text \in Text,
         line.before = Rep(j, line.param, Len(j))
  PROVE  Chain(j \o <<line>>)
<1> DEFINE k == j \o <<line>>
<1>1. /\ k \in Seq(Lines) /\ Len(k) = Len(j) + 1 /\ k[Len(k)] = line
      /\ Extends(j, k) /\ Len(j) \in Nat
  BY OneMoreLine, LenProperties
<1> HIDE DEF k
<1>2. ASSUME NEW i \in 1..Len(k)
      PROVE  /\ k[i].param \in Tracked /\ k[i].text \in Text
             /\ k[i].before = Rep(k, k[i].param, i - 1)
  <2>1. i - 1 \in Nat /\ i - 1 =< Len(j)
    BY <1>1
  <2>2. \A param : Rep(k, param, i - 1) = Rep(j, param, i - 1)
    BY <1>1, <2>1, PrefixSays
  <2>3. CASE i =< Len(j)
    <3>1. k[i] = j[i] /\ i \in 1..Len(j)
      BY <1>1, <2>3 DEF Extends
    <3> QED
      BY <2>2, <3>1 DEF Chain
  <2>4. CASE ~(i =< Len(j))
    <3>1. i = Len(k) /\ i - 1 = Len(j)
      BY <1>1, <2>4
    <3> QED
      BY <1>1, <2>2, <3>1
  <2> QED
    BY <2>3, <2>4
<1>3. Chain(k)
  BY <1>2 DEF Chain
<1> QED
  BY <1>3 DEF k

LEMMA MovedSays ==
  ASSUME NEW j \in Seq(Lines), Chain(j), NEW old \in Texts, NEW new \in Text,
         NEW param \in Tracked, Rep(j, param, Len(j)) = old[param]
  PROVE  LET k == j \o Moved(param, old, new) IN
         /\ k \in Seq(Lines) /\ Chain(k) /\ Rep(k, param, Len(k)) = new[param]
         /\ \A other : other # param => Rep(k, other, Len(k)) = Rep(j, other, Len(j))
         /\ k = j \/ LastOf(k) = new
<1> DEFINE line == [param |-> param, before |-> old[param], after |-> new[param], text |-> new]
<1>1. CASE old[param] = new[param]
  <2>1. Moved(param, old, new) = <<>>
    BY <1>1 DEF Moved
  <2>2. j \o <<>> = j
    BY ConcatEmptySeq
  <2> QED
    BY <1>1, <2>1, <2>2
<1>2. CASE old[param] # new[param]
  <2>1. Moved(param, old, new) = <<line>>
    BY <1>2 DEF Moved
  <2>2. old[param] \in Int /\ new[param] \in Int
    BY FieldTyped DEF Texts
  <2>3. /\ line \in Lines /\ line.param = param /\ line.text = new /\ line.after = new[param]
        /\ line.before = old[param]
    BY <2>2 DEF Lines, Texts
  <2> HIDE DEF line
  <2>4. j \o <<line>> \in Seq(Lines) /\ LastOf(j \o <<line>>) = new
    BY <2>3, OneMoreLine DEF LastOf
  <2>5. Chain(j \o <<line>>)
    BY <2>3, OneMoreChain
  <2>6. \A any : Rep(j \o <<line>>, any, Len(j \o <<line>>))
                   = IF line.param = any THEN line.after ELSE Rep(j, any, Len(j))
    BY <2>3, OneMoreSays
  <2> QED
    BY <2>1, <2>3, <2>4, <2>5, <2>6
<1> QED
  BY <1>1, <1>2

\* A change set, appended to a journal that says the old text, says the new one.
LEMMA DiffSays ==
  ASSUME NEW j \in Seq(Lines), Chain(j), Says(j, LastOf(j)),
         NEW old \in Texts, NEW new \in Text, Says(j, old)
  PROVE  LET k == j \o Diff(old, new) IN
         k \in Seq(Lines) /\ Chain(k) /\ Says(k, new) /\ Says(k, LastOf(k))
<1> DEFINE m1 == Moved("ship", old, new)
           m2 == Moved("value", old, new)
           j1 == j \o m1
           j2 == j1 \o m2
<1>1. "ship" \in Tracked /\ "value" \in Tracked /\ "ship" # "value"
      /\ \A param \in Tracked : param = "ship" \/ param = "value"
  BY DEF Tracked
<1>2. m1 \in Seq(Lines) /\ m2 \in Seq(Lines)
  BY <1>1, MovedTyped DEF Texts
<1>3. j \o Diff(old, new) = j2
  BY <1>2, ConcatAssociative DEF Diff
<1>4. Rep(j, "ship", Len(j)) = old["ship"] /\ Rep(j, "value", Len(j)) = old["value"]
  BY <1>1 DEF Says
<1>5. /\ j1 \in Seq(Lines) /\ Chain(j1) /\ Rep(j1, "ship", Len(j1)) = new["ship"]
      /\ Rep(j1, "value", Len(j1)) = Rep(j, "value", Len(j))
      /\ j1 = j \/ LastOf(j1) = new
  BY <1>1, <1>4, MovedSays
<1> HIDE DEF j1, m1, m2
<1>6. /\ j2 \in Seq(Lines) /\ Chain(j2) /\ Rep(j2, "value", Len(j2)) = new["value"]
      /\ Rep(j2, "ship", Len(j2)) = Rep(j1, "ship", Len(j1))
      /\ j2 = j1 \/ LastOf(j2) = new
  BY <1>1, <1>4, <1>5, MovedSays DEF m2
<1> HIDE DEF j2
<1>7. Says(j2, new)
  BY <1>1, <1>5, <1>6 DEF Says
<1>8. Says(j2, LastOf(j2))
  BY <1>5, <1>6, <1>7
<1> QED
  BY <1>3, <1>6, <1>7, <1>8

----------------------------------------------------------------------------
(* The invariant of recording. *)

LEMMA ReplayedRep ==
  \A n, param : Replayed(param, n) = Rep(journal, param, n)
BY DEF Replayed, Rep

LEMMA DescribeSays ==
  \A text : Describe(Len(journal), text) <=> Says(journal, text)
BY ReplayedRep DEF Describe, Says

\* A journal that has not lost its way says what its last line left, and has
\* said what the snapshot says.
Sound ==
  /\ ~torn /\ Chain(journal) /\ Says(journal, LastOf(journal))
  /\ \E n \in 0..Len(journal) : Describe(n, snapshot)

\* A save in progress, under the lock, starts from the snapshot.
Saving ==
  panel.pc \in {"ready", "written"} =>
    panel.old = snapshot /\ Says(journal, snapshot) /\ panel.new \in Text

RInv == ~doubt => Sound /\ Saving

LEMMA LastTextIs ==
  ASSUME journal \in Seq(Lines), Chain(journal)
  PROVE  LastText = LastOf(journal)
<1> DEFINE whole == {i \in DOMAIN journal : journal[i] # NoLine}
<1>1. Len(journal) \in Nat /\ DOMAIN journal = 1..Len(journal)
  BY LenProperties
<1>2. NoLine.param \notin Tracked
  BY DEF NoLine, Tracked
<1>3. whole = 1..Len(journal)
  BY <1>1, <1>2 DEF Chain
<1>4. CASE journal = <<>>
  <2>1. whole = {}
    BY <1>4
  <2> QED
    BY <1>4, <2>1 DEF LastText, LastOf
<1>5. CASE journal # <<>>
  <2>1. Len(journal) >= 1
    BY <1>1, <1>5, EmptySeq, LenProperties
  <2>2. whole # {} /\ whole \in SUBSET (0..Len(journal)) /\ Len(journal) \in whole
    BY <1>1, <1>3, <2>1
  <2>3. Max(whole) \in whole /\ \A i \in whole : Max(whole) >= i
    <3> HIDE DEF whole
    <3> QED
      BY <1>1, <2>2, Greatest
  <2>4. Max(whole) = Len(journal)
    <3>1. Max(whole) \in 1..Len(journal) /\ Max(whole) >= Len(journal)
      BY <1>3, <2>2, <2>3
    <3> QED
      BY <1>1, <3>1
  <2> QED
    BY <1>5, <2>2, <2>4 DEF LastText, LastOf
<1> QED
  BY <1>4, <1>5

\* Recording what leads from what the journal says to a text, done or failed.
LEMMA RecordingSound ==
  ASSUME journal \in Seq(Lines), snapshot \in Texts, Sound, NEW text \in Text,
         NEW lines \in Seq(Lines),
         \/ lines = <<>> /\ Says(journal, text)
         \/ lines = Diff(snapshot, text) /\ Says(journal, snapshot),
         NEW o \in Recording(lines, text), Records(o), ~torn'
  PROVE  /\ Sound'
         /\ o.ok => snapshot' = text /\ Says(journal', text)
         /\ ~o.ok => snapshot' = snapshot
<1>1. ~torn /\ Chain(journal) /\ Says(journal, LastOf(journal)) /\ Len(journal) \in Nat
  BY LenProperties DEF Sound
<1>2. Appended(lines) = [journal |-> journal \o lines, torn |-> FALSE]
  BY <1>1 DEF Appended, Glued
<1>3. /\ journal' = o.log.journal /\ torn' = o.log.torn /\ snapshot' = o.snapshot
  BY DEF Records
<1>4. /\ journal' = journal \/ journal' = journal \o lines
      /\ o.ok => journal' = journal \o lines /\ snapshot' = text
      /\ ~o.ok => snapshot' = snapshot
  <2>1. CASE o = [log |-> Appended(lines), snapshot |-> text, ok |-> TRUE]
    <3>1. o.log = Appended(lines) /\ o.snapshot = text /\ o.ok = TRUE
      BY <2>1
    <3>2. o.log.journal = journal \o lines
      BY <1>2, <3>1
    <3> QED
      BY <1>3, <3>1, <3>2
  <2>2. ASSUME NEW l \in Remains(lines), o = [log |-> l, snapshot |-> snapshot, ok |-> FALSE]
        PROVE  /\ journal' = journal \/ journal' = journal \o lines
               /\ snapshot' = snapshot /\ ~o.ok
    <3>1. journal' = l.journal /\ ~l.torn
      BY <1>3, <2>2
    <3>2. l = [journal |-> journal, torn |-> torn] \/ l = Appended(lines)
      BY <3>1 DEF Remains
    <3> QED
      BY <1>2, <1>3, <2>2, <3>1, <3>2
  <2> QED
    BY <2>1, <2>2 DEF Recording
<1>5. LET k == journal \o lines IN
      k \in Seq(Lines) /\ Chain(k) /\ Says(k, text) /\ Says(k, LastOf(k))
  <2>1. CASE lines = <<>> /\ Says(journal, text)
    <3>1. journal \o lines = journal
      BY <2>1, ConcatEmptySeq
    <3> QED
      BY <1>1, <2>1, <3>1
  <2>2. CASE lines = Diff(snapshot, text) /\ Says(journal, snapshot)
    BY <1>1, <2>2, DiffSays
  <2> QED
    BY <2>1, <2>2
<1>6. /\ journal' \in Seq(Lines) /\ Extends(journal, journal')
      /\ Chain(journal') /\ Says(journal', LastOf(journal'))
  <2>1. Extends(journal, journal)
    BY ExtendsItself
  <2>2. Extends(journal, journal \o lines)
    BY ConcatProperties, LenProperties DEF Extends
  <2> QED
    BY <1>1, <1>4, <1>5, <2>1, <2>2
<1>7. \E n \in 0..Len(journal') : Describe(n, snapshot)'
  <2>1. CASE o.ok
    <3>1. Says(journal', snapshot') /\ Len(journal') \in 0..Len(journal')
      <4>1. journal' = journal \o lines /\ snapshot' = text
        BY <1>4, <2>1
      <4>2. Len(journal') \in Nat
        BY <1>6, LenProperties
      <4> QED
        BY <1>5, <4>1, <4>2
    <3>2. Describe(Len(journal), snapshot)'
      BY <3>1, DescribeSays, ReplayedRep DEF Describe, Says, Replayed, Rep
    <3> QED
      BY <3>1, <3>2
  <2>2. CASE ~o.ok
    <3>1. PICK n \in 0..Len(journal) : Describe(n, snapshot)
      BY DEF Sound
    <3>2. n \in Nat /\ n =< Len(journal) /\ n \in 0..Len(journal')
      BY <1>1, <1>6, LenProperties DEF Extends
    <3>3. \A param : Rep(journal', param, n) = Rep(journal, param, n)
      BY <1>6, <3>2, PrefixSays
    <3>4. \A param \in Tracked : Rep(journal', param, n) = snapshot'[param]
      BY <1>4, <2>2, <3>1, <3>3, ReplayedRep DEF Describe
    <3>5. Describe(n, snapshot)'
      BY <3>4 DEF Describe, Replayed, Rep
    <3> QED
      BY <3>2, <3>5
  <2> QED
    BY <2>1, <2>2
<1>8. Sound'
  BY <1>6, <1>7 DEF Sound
<1> QED
  BY <1>4, <1>5, <1>8

\* A catch-up that raises no doubt.
LEMMA CatchUpSound ==
  ASSUME journal \in Seq(Lines), snapshot \in Texts, Sound, NEW text \in Text,
         NEW o \in CatchUps(text), Records(o), ~Doubts(text), ~torn'
  PROVE  /\ Sound'
         /\ o.ok => snapshot' = text /\ Says(journal', text)
         /\ ~o.ok => snapshot' = snapshot
<1>1. ~torn /\ Chain(journal) /\ Says(journal, LastOf(journal)) /\ <<>> \in Seq(Lines)
  BY DEF Sound
<1>2. LastText = LastOf(journal)
  BY <1>1, LastTextIs
<1>3. Says(journal, snapshot) \/ text = LastText
  BY DescribeSays DEF Doubts, Ahead, Sound
<1>4. CASE text = snapshot
  <2>1. o = [log |-> Appended(<<>>), snapshot |-> text, ok |-> TRUE]
    BY <1>4 DEF CatchUps
  <2>2. o \in Recording(<<>>, text)
    BY <2>1 DEF Recording
  <2>3. Says(journal, text)
    BY <1>1, <1>2, <1>3, <1>4
  <2> QED
    BY <1>1, <2>2, <2>3, RecordingSound
<1>5. CASE text # snapshot /\ text = LastText
  <2>1. o \in Recording(<<>>, text)
    BY <1>5 DEF CatchUps
  <2>2. Says(journal, text)
    BY <1>1, <1>2, <1>5
  <2> QED
    BY <1>1, <2>1, <2>2, RecordingSound
<1>6. CASE text # snapshot /\ text # LastText
  <2>1. o \in Recording(Diff(snapshot, text), text)
    BY <1>6 DEF CatchUps
  <2>2. Diff(snapshot, text) \in Seq(Lines)
    BY DiffTyped DEF Texts
  <2>3. Says(journal, snapshot)
    BY <1>3, <1>6
  <2> QED
    BY <2>1, <2>2, <2>3, RecordingSound
<1> QED
  BY <1>4, <1>5, <1>6

LEMMA InitRInv == Init => RInv
<1> SUFFICES ASSUME Init PROVE RInv
  OBVIOUS
<1>1. journal = <<>> /\ Len(journal) = 0 /\ torn = FALSE /\ snapshot = NoText
  BY DEF Init
<1>2. \A param : Rep(journal, param, 0) = None
  BY DEF Rep
<1>3. \A param \in Tracked : NoText[param] = None
  BY DEF NoText, Tracked
<1>4. Says(journal, NoText) /\ LastOf(journal) = NoText
  BY <1>1, <1>2, <1>3 DEF Says, LastOf
<1>5. Describe(0, snapshot)
  BY <1>1, <1>4, DescribeSays
<1>6. Chain(journal)
  BY <1>1 DEF Chain
<1>7. panel.pc = "idle"
  BY DEF Init, IdlePanel
<1> QED
  BY <1>1, <1>4, <1>5, <1>6, <1>7 DEF RInv, Sound, Saving

LEMMA SoundKept ==
  ASSUME Sound, UNCHANGED <<journal, torn, snapshot>>
  PROVE  Sound'
<1>1. journal' = journal /\ torn' = torn /\ snapshot' = snapshot
  OBVIOUS
<1>2. ~torn /\ Chain(journal) /\ Says(journal, LastOf(journal))
  BY DEF Sound
<1>3. ~torn' /\ Chain(journal') /\ Says(journal', LastOf(journal'))
  BY <1>1, <1>2
<1>4. PICK n \in 0..Len(journal) : Describe(n, snapshot)
  BY DEF Sound
<1>5. \A param \in Tracked : Rep(journal, param, n) = snapshot[param]
  BY <1>4, ReplayedRep DEF Describe
<1>6. \A param \in Tracked : Rep(journal', param, n) = snapshot'[param]
  BY <1>1, <1>5
<1>7. n \in 0..Len(journal') /\ Describe(n, snapshot)'
  BY <1>1, <1>4, <1>6 DEF Describe, Replayed, Rep
<1> QED
  BY <1>3, <1>7 DEF Sound

LEMMA NextRInv == SInv /\ RInv /\ [Next]_vars => RInv'
<1> SUFFICES ASSUME SInv, RInv, [Next]_vars, ~doubt' PROVE Sound' /\ Saving'
  BY DEF RInv
<1>1. /\ journal \in Seq(Lines) /\ snapshot \in Texts /\ file \in Text /\ panel \in Panels
      /\ Read
  BY DEF SInv, LogTyped, ShippingTyped
<1>2. ~doubt => Sound /\ Saving
  BY DEF RInv
<1>3. ASSUME UNCHANGED log, Saving => Saving'
      PROVE  Sound' /\ Saving'
  <2>1. Sound /\ Saving /\ UNCHANGED <<journal, torn, snapshot>>
    BY <1>2, <1>3 DEF log
  <2> QED
    BY <1>3, <2>1, SoundKept
<1>4. ASSUME UNCHANGED log, UNCHANGED panel \/ panel'.pc \notin {"ready", "written"}
      PROVE  Sound' /\ Saving'
  <2>1. Saving => Saving'
    BY <1>4 DEF Saving, log, Says, Rep
  <2> QED
    BY <1>3, <1>4, <2>1
<1>5. CASE HostEdit \/ ReadConfig \/ Spawn \/ Stop \/ UNCHANGED vars
  BY <1>4, <1>5 DEF HostEdit, ReadConfig, Spawn, Stop, vars
<1>6. CASE ChangeKey \/ StoreKey \/ PanelStops
  <2>1. UNCHANGED log
    BY <1>6 DEF ChangeKey, StoreKey, PanelStops
  <2>2. panel'.pc \notin {"ready", "written"}
    <3>1. CASE panel' = IdlePanel
      BY <3>1 DEF IdlePanel
    <3>2. [IdlePanel EXCEPT !.pc = "registering"].pc = "registering"
      BY DEF IdlePanel
    <3>3. [IdlePanel EXCEPT !.pc = "delivering", !.due = Owed,
                            !.until = Until(file.ship, journal)].pc = "delivering"
      BY DEF IdlePanel
    <3>4. CASE ChangeKey
      BY <3>2, <3>3, <3>4 DEF ChangeKey
    <3> QED
      BY <1>6, <3>1, <3>4 DEF StoreKey, PanelStops
  <2> QED
    BY <1>4, <2>1, <2>2
<1>7. ASSUME NEW w \in Shippers, Ships(w)
      PROVE  Sound' /\ Saving'
  <2>1. UNCHANGED log
    BY <1>7 DEF Ships, ReadJournal, ReadCursor, Accepted, BatchRefused, OneByOne, Note,
                SaveEntry, SaveBatch, Fails, notShip
  <2>2. panel' = panel \/ panel'.pc \notin {"ready", "written"}
    <3>1. CASE panel' = IdlePanel
      BY <3>1 DEF IdlePanel
    <3>2. CASE panel' = [panel EXCEPT !.pc = "registering", !.until = 0]
      BY <1>1, <3>2 DEF Panels
    <3>3. panel' = panel \/ panel' = IdlePanel
            \/ panel' = [panel EXCEPT !.pc = "registering", !.until = 0]
      BY <1>7 DEF Ships, ReadJournal, ReadCursor, Accepted, BatchRefused, OneByOne, Note,
                  SaveEntry, SaveBatch, Fails, Done, Shippers
    <3> QED
      BY <3>1, <3>2, <3>3
  <2> QED
    BY <1>4, <2>1, <2>2
<1>8. CASE WriteConfig
  <2>1. UNCHANGED log /\ panel.pc = "ready" /\ panel' = [panel EXCEPT !.pc = "written"]
    BY <1>8 DEF WriteConfig
  <2>2. panel'.old = panel.old /\ panel'.new = panel.new /\ panel'.pc = "written"
    BY <1>1, <2>1 DEF Panels
  <2>3. Saving => Saving'
    BY <2>1, <2>2 DEF Saving, log, Says, Rep
  <2> QED
    BY <1>3, <2>1, <2>3
<1>9. ASSUME NEW new \in Text, Save(new)
      PROVE  Sound' /\ Saving'
  <2>1. PICK o \in CatchUps(file) :
           /\ Records(o) /\ doubt' = (doubt \/ Doubts(file) \/ o.log.torn)
           /\ IF o.ok THEN /\ panel' = [IdlePanel EXCEPT !.pc = "ready", !.old = file,
                                                          !.new = new]
                           /\ UNCHANGED file
              ELSE file' = new /\ UNCHANGED panel
    BY <1>9 DEF Save
  <2>2. ~doubt /\ ~Doubts(file) /\ ~torn'
    BY <2>1 DEF Records
  <2>3. /\ Sound'
        /\ o.ok => snapshot' = file /\ Says(journal', file)
        /\ ~o.ok => snapshot' = snapshot
    BY <1>1, <1>2, <2>1, <2>2, CatchUpSound
  <2>4. CASE o.ok
    <3>1. panel'.old = file /\ panel'.new = new
      BY <2>1, <2>4 DEF IdlePanel
    <3>2. Saving'
      BY <2>3, <2>4, <3>1 DEF Saving, Says, Rep
    <3> QED
      BY <2>3, <3>2
  <2>5. CASE ~o.ok
    <3>1. panel'.pc = "idle"
      BY <1>9, <2>1, <2>5 DEF Save
    <3> QED
      BY <2>3, <3>1 DEF Saving
  <2> QED
    BY <2>4, <2>5
<1>10. CASE Record
  <2>1. PICK o \in Recording(Diff(panel.old, panel.new), panel.new) :
           Records(o) /\ doubt' = (doubt \/ o.log.torn)
    BY <1>10 DEF Record
  <2>2. ~doubt /\ ~torn' /\ panel.pc = "written" /\ panel' = IdlePanel
    BY <1>10, <2>1 DEF Records, Record
  <2>3. /\ Sound /\ panel.old = snapshot /\ Says(journal, snapshot) /\ panel.new \in Text
    BY <1>2, <2>2 DEF Saving
  <2>4. Diff(snapshot, panel.new) \in Seq(Lines)
    BY <1>1, <2>3, DiffTyped DEF Texts
  <2>5. Sound'
    BY <1>1, <2>1, <2>2, <2>3, <2>4, RecordingSound
  <2>6. Saving'
    BY <2>2 DEF Saving, IdlePanel
  <2> QED
    BY <2>5, <2>6
<1>11. CASE CatchUpAtStart
  <2>1. PICK o \in CatchUps(bot.text) :
           Records(o) /\ doubt' = (doubt \/ Doubts(bot.text) \/ o.log.torn)
    BY <1>11 DEF CatchUpAtStart
  <2>2. /\ bot.text \in Text /\ panel.pc \notin {"ready", "written"} /\ panel' = panel
    BY <1>1, <1>11 DEF CatchUpAtStart, Read
  <2>3. ~doubt /\ ~Doubts(bot.text) /\ ~torn'
    BY <2>1 DEF Records
  <2>4. Sound'
    BY <1>1, <1>2, <2>1, <2>2, <2>3, CatchUpSound
  <2>5. Saving'
    BY <2>2 DEF Saving
  <2> QED
    BY <2>4, <2>5
<1> QED
  BY <1>5, <1>6, <1>7, <1>8, <1>9, <1>10, <1>11 DEF Next, Panel, Bot

\* A bot that ships never runs on a change nobody recorded, whatever edits,
\* saves, restarts and failed writes came before: as it starts, the journal is a
\* chain of changes that ends at the config it read.
THEOREM RunsAreRecorded == Spec => RunsRecorded
<1> DEFINE Recorded ==
             /\ \A param \in Tracked : Replayed(param, Len(journal))' = bot.text[param]
             /\ \A i \in DOMAIN journal' :
                  journal'[i].before = Replayed(journal[i].param, i - 1)'
<1>1. ASSUME SInv, RInv, RInv', [Next]_vars, bot.pc = "read", bot'.pc = "up",
             bot.text.ship = 1, ~doubt'
      PROVE  Recorded
  <2>1. /\ journal \in Seq(Lines) /\ snapshot \in Texts /\ Read /\ Active
        /\ \A w \in Shippers : ship[w] \in Batches
    BY <1>1 DEF SInv, LogTyped, ShippingTyped
  <2>2. CatchUpAtStart
    <3>1. ASSUME NEW w \in Shippers, Ships(w)
          PROVE  bot' = bot
      <4>1. CASE w = "panel"
        BY <3>1, <4>1 DEF Ships, ReadJournal, ReadCursor, Accepted, BatchRefused, OneByOne,
                          Note, SaveEntry, SaveBatch, Fails, Done
      <4>2. CASE w = "bot"
        <5>1. ship["bot"].pc = "idle" /\ ActiveUntil("bot") = 0
          BY <1>1, <2>1 DEF Active, ActiveUntil
        <5> QED
          BY <3>1, <4>2, <5>1 DEF Ships, ReadJournal, ReadCursor, Accepted, BatchRefused,
                                  OneByOne, Note, SaveEntry, SaveBatch, Fails, At
      <4> QED
        BY <4>1, <4>2 DEF Shippers
    <3>2. bot' # bot
      BY <1>1
    <3>3. ~ReadConfig /\ ~Spawn /\ ~Stop
      <4>1. [Down EXCEPT !.pc = "read", !.text = file].pc = "read" /\ Down.pc = "down"
        BY DEF Down
      <4> QED
        BY <1>1, <4>1 DEF ReadConfig, Spawn, Stop
    <3> QED
      BY <1>1, <3>1, <3>2, <3>3 DEF Next, Panel, Bot, HostEdit, Save, WriteConfig, Record,
                                    ChangeKey, StoreKey, PanelStops, vars
  <2>3. PICK o \in CatchUps(bot.text) :
           /\ Records(o) /\ doubt' = (doubt \/ Doubts(bot.text) \/ o.log.torn)
           /\ IF o.ok THEN Runs(Until(bot.text.ship, o.log.journal)) ELSE Unrecorded
    BY <2>2 DEF CatchUpAtStart
  <2>4. o.ok
    <3>1. Down.pc = "down"
      BY DEF Down
    <3> QED
      BY <1>1, <2>3, <3>1 DEF Unrecorded
  <2>5. bot.text \in Text
    BY <2>1, <2>2 DEF CatchUpAtStart, Read
  <2>6. ~doubt /\ ~Doubts(bot.text) /\ ~torn' /\ Sound
    BY <1>1, <2>3 DEF Records, RInv
  <2>7. Sound' /\ Says(journal', bot.text)
    BY <2>1, <2>3, <2>4, <2>5, <2>6, CatchUpSound
  <2>8. \A param, n : Replayed(param, n)' = Rep(journal', param, n)
    BY DEF Replayed, Rep
  <2>9. \A param \in Tracked : Replayed(param, Len(journal))' = bot.text[param]
    BY <2>7 DEF Says, Replayed, Rep
  <2>10. journal' \in Seq(Lines)
    BY <1>1, <2>1, <2>3, <2>5, CatchUpGrows DEF SInv, LogTyped, Records
  <2>11. \A i \in DOMAIN journal' :
            journal'[i].before = Replayed(journal[i].param, i - 1)'
    BY <2>7, <2>10, LenProperties DEF Sound, Chain, Replayed, Rep
  <2> QED
    BY <2>9, <2>11
<1>2. SInv /\ RInv /\ RInv' /\ [Next]_vars =>
        [bot.pc = "read" /\ bot'.pc = "up" /\ bot.text.ship = 1 /\ ~doubt' => Recorded]_vars
  BY <1>1
<1> QED
  BY <1>2, InitRInv, NextRInv, SpecSInv, PTL DEF Spec, RunsRecorded, Recorded
================================================================================

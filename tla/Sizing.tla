------------------------------- MODULE Sizing --------------------------------
(***************************************************************************)
(* How much a side of the book may offer and how it is cut into orders     *)
(* (src/src/book/ladder.rs and funding.rs).  Amounts are atomic units.     *)
(***************************************************************************)
EXTENDS Integers, Sequences, FiniteSets, FiniteSetsExt

Least(a, b) == IF a < b THEN a ELSE b
Greatest(a, b) == IF a > b THEN a ELSE b
Monus(a, b) == Greatest(a - b, 0)

Total(sizes) == SumFunctionOnSet(sizes, DOMAIN sizes)

Together(denoms) == SumFunctionOnSet([d \in denoms |-> d], denoms)

----------------------------------------------------------------------------
(* The balanced ladder. *)

\* The powers of ten up to n.
Decades[n \in Nat] == IF n = 0 THEN {} ELSE {1} \cup {10 * ten : ten \in Decades[n \div 10]}

\* 1, 2.5 and 5 times the least slice and its tenfolds, up to the total.
denominations(total, min) ==
  LET scales == {s \in min..total : \E ten \in Decades[total \div min] : s = min * ten}
  IN {d \in UNION {{s, (25 * s) \div 10, 5 * s} : s \in scales} : d > 0 /\ d <= total}

\* Every small denomination once, while they fit in the total and leave slots
\* for depth.
Rungs(total, min, max, denoms) ==
  LET small    == {d \in denoms : d <= Greatest(total \div 10, min)}
      upTo(d)  == {e \in small : e <= d}
      limit    == Least(Greatest((max * 3) \div 5, 1), max - 1)
      rank(d)  == Cardinality(upTo(d))
      taken    == {d \in small : rank(d) <= limit /\ Together(upTo(d)) <= total}
  IN [i \in 1..Cardinality(taken) |-> CHOOSE d \in taken : rank(d) = i]

\* The largest denomination not above twice the even share that leaves the
\* least slice to each slot after it.
carry_slice(left, min, slots, denoms) ==
  LET most == Monus(left, min * (slots - 1))
      cap  == Least(most, Greatest(2 * (left \div slots), min))
      fits == {d \in denoms : d <= cap}
  IN CASE most <= min             -> Least(min, left)
       [] most > min /\ fits # {} -> Max(fits)
       [] OTHER                   -> Least(min, most)

\* One more order, if what is left pays the least slice; the last takes all.
Carried(sizes, slots, total, min, denoms) ==
  LET left == total - Total(sizes)
  IN CASE left < min                -> sizes
       [] left >= min /\ slots = 1 -> Append(sizes, left)
       [] OTHER -> Append(sizes, carry_slice(left, min, slots, denoms))

\* The orders that carry what the rungs leave, slot by slot.
Carry(rungs, total, min, max, denoms) ==
  LET free == max - Len(rungs)
      after[k \in 0..free] ==
        IF k = 0 THEN rungs
        ELSE Carried(after[k - 1], free + 1 - k, total, min, denoms)
  IN after[free]

\* What is left below the least slice goes to the last order.
WithRest(sizes, total) ==
  IF sizes = <<>> THEN sizes
  ELSE [sizes EXCEPT ![Len(sizes)] = @ + total - Total(sizes)]

\* Equal sizes keep their order.
Ascending(sizes) ==
  LET upTo(i) == {j \in DOMAIN sizes :
                    sizes[j] < sizes[i] \/ (sizes[j] = sizes[i] /\ j <= i)}
  IN [k \in DOMAIN sizes |->
        sizes[CHOOSE i \in DOMAIN sizes : Cardinality(upTo(i)) = k]]

balanced_ladder(total, min, max) ==
  LET denoms == denominations(total, min)
      sizes  == Carry(Rungs(total, min, max, denoms), total, min, max, denoms)
  IN IF total < min \/ min = 0 \/ max = 0 THEN <<>>
     ELSE Ascending(WithRest(sizes, total))

----------------------------------------------------------------------------
(* The budget of one token in one tick. *)

\* Never more than the wallet delivers, whatever the indexer says is committed.
available_funded_input(budget, reusable) ==
  Least(Monus(budget.funded + reusable, budget.committed), budget.funded)

\* The share of one of `sides' that take all there is, `left' of which are to
\* come, the odd units going to the first.
max_input_share(budget, reusable, sides, left) ==
  LET available == available_funded_input(budget, reusable)
      total     == Greatest(sides, 1)
      processed == total - Least(Greatest(left, 1), total)
      odd       == IF processed < budget.funded % total THEN 1 ELSE 0
  IN IF total = 1 THEN available
     ELSE Least(available, budget.funded \div total + odd)

\* record_funded_input_replacement: the batch takes the place of the old orders.
Replaced(budget, drafted, reusable) ==
  [budget EXCEPT !.committed = IF drafted = reusable THEN @
                               ELSE Monus(@, reusable) + drafted]

=============================================================================

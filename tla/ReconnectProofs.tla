---------------------------- MODULE ReconnectProofs ----------------------------
(***************************************************************************)
(* Proofs about Reconnect: the fast lane is bounded, the seconds waited    *)
(* double until a session lives, and the sessions' nonces are those of     *)
(* RfqNonce and grow.                                                      *)
(***************************************************************************)
EXTENDS Reconnect, WellFoundedInduction, TLAPS

\* A quick wait is below every long one, and there are no more quick waits in a
\* row than the backoff counts.
WaitsOK == backoff.secs >= FirstWait /\ quick =< backoff.fast

SInv == ms \in Nat /\ SessionsTyped /\ WaitsOK /\ NoSpin

LEMMA DefaultTyped ==
  /\ Default \in [secs : Nat, fast : Nat]
  /\ Default.secs = FirstWait /\ Default.fast = 0
BY BackoffTyped DEF Default

LEMMA StartSInv == Start => SInv
<1> SUFFICES ASSUME Start PROVE SInv
  OBVIOUS
<1>1. ms = 0 /\ up = FALSE /\ lived = 0 /\ backoff = Default /\ quick = 0 /\ slow = 0
  BY DEF Start, Init
<1>2. up \in BOOLEAN
  BY <1>1, Zenon
<1> QED
  BY <1>1, <1>2, DefaultTyped, BackoffTyped DEF SInv, SessionsTyped, WaitsOK, NoSpin

\* What an ending waits, and the backoff it leaves.
LEMMA Waiting ==
  ASSUME NEW b \in [secs : Nat, fast : Nat], b.secs >= FirstWait, NEW handover \in BOOLEAN
  PROVE  LET n == Noted(b, handover) IN
         /\ n \in [secs : Nat, fast : Nat]
         /\ n.secs = b.secs
         /\ n.fast = IF handover THEN b.fast + 1 ELSE 0
         /\ next_delay(n) \in Nat /\ next_delay(n) >= Reconnect
         /\ next_delay(n) < FirstWait <=> Quick(n)
         /\ Advanced(n) \in [secs : Nat, fast : Nat]
         /\ Advanced(n).secs >= FirstWait
         /\ Advanced(n).fast = n.fast
<1> DEFINE n == Noted(b, handover)
<1>1. n \in [secs : Nat, fast : Nat] /\ n.secs = b.secs
        /\ n.fast = IF handover THEN b.fast + 1 ELSE 0
  BY DEF Noted
<1> HIDE DEF n
<1>2. next_delay(n) \in Nat /\ next_delay(n) >= Reconnect
        /\ (next_delay(n) < FirstWait <=> Quick(n))
  BY <1>1, ConstantsTyped, BackoffTyped DEF next_delay, Quick
<1>3. Least(2 * n.secs, MostWait) \in Nat /\ Least(2 * n.secs, MostWait) >= FirstWait
  BY <1>1, BackoffTyped DEF Least
<1>4. /\ Advanced(n) \in [secs : Nat, fast : Nat]
      /\ Advanced(n).secs >= FirstWait
      /\ Advanced(n).fast = n.fast
  BY <1>1, <1>3 DEF Advanced
<1> QED
  BY <1>1, <1>2, <1>4 DEF n

LEMMA EndsSInv ==
  ASSUME SInv, NEW handover \in BOOLEAN, Ends(handover)
  PROVE  SInv'
<1> DEFINE b == IF is_healthy_session THEN Default ELSE backoff
           n == Noted(b, handover)
           q == IF is_healthy_session THEN 0 ELSE quick
           l == IF is_healthy_session THEN 0 ELSE slow
<1>1. b \in [secs : Nat, fast : Nat] /\ b.secs >= FirstWait /\ q \in Nat /\ q =< b.fast
        /\ l \in Nat
  BY DefaultTyped, BackoffTyped DEF SInv, SessionsTyped, WaitsOK
<1>2. /\ ms' = ms + next_delay(n) /\ backoff' = Advanced(n)
      /\ quick' = IF next_delay(n) < FirstWait THEN q + 1 ELSE 0
      /\ slow' = IF next_delay(n) < FirstWait THEN l ELSE l + 1
      /\ up' = FALSE /\ lived' = 0
  BY DEF Ends
<1> HIDE DEF b, q, l
<1>3. /\ n.fast = IF handover THEN b.fast + 1 ELSE 0
      /\ next_delay(n) \in Nat
      /\ next_delay(n) < FirstWait <=> Quick(n)
      /\ Advanced(n) \in [secs : Nat, fast : Nat]
      /\ Advanced(n).secs >= FirstWait /\ Advanced(n).fast = n.fast
  BY <1>1, Waiting
<1> HIDE DEF n
<1>4. ms \in Nat
  BY DEF SInv
<1>5. quick' \in Nat /\ quick' =< backoff'.fast /\ quick' =< FastRetries
  BY <1>1, <1>2, <1>3, BackoffTyped DEF Quick
<1>6. ms' \in Nat /\ slow' \in Nat /\ lived' \in Nat
  BY <1>1, <1>2, <1>3, <1>4
<1>7. up' \in BOOLEAN
  BY <1>2, Zenon
<1>8. backoff' \in [secs : Nat, fast : Nat] /\ backoff'.secs >= FirstWait
  BY <1>2, <1>3
<1> QED
  BY <1>5, <1>6, <1>7, <1>8 DEF SInv, SessionsTyped, WaitsOK, NoSpin

LEMMA StepSInv == SInv /\ [Step]_allVars => SInv'
<1> SUFFICES ASSUME SInv, [Step]_allVars PROVE SInv'
  OBVIOUS
<1> USE DEF SInv, SessionsTyped, WaitsOK, NoSpin
<1>1. CASE Accept
  BY <1>1 DEF Accept
<1>2. CASE Serve
  BY <1>2 DEF Serve, Mint, session
<1>3. CASE Live
  BY <1>3, BackoffTyped DEF Live, Clock, Least
<1>4. ASSUME NEW handover \in BOOLEAN, Ends(handover) PROVE SInv'
  BY <1>4, EndsSInv
<1>5. CASE Restart
  <2>1. PICK pause \in Reconnect..MaxMs : ms' = ms + pause
    BY <1>5 DEF Restart
  <2>2. ms' \in Nat
    BY <2>1, ConstantsTyped
  <2>3. up' = FALSE /\ lived' = 0 /\ backoff' = Default /\ quick' = 0 /\ slow' = 0
    BY <1>5 DEF Restart
  <2>4. up' \in BOOLEAN
    BY <2>3, Zenon
  <2> QED
    BY <2>2, <2>3, <2>4, BackoffTyped, DefaultTyped
<1>6. CASE UNCHANGED allVars
  BY <1>6 DEF allVars, vars, session
<1> QED
  BY <1>1, <1>2, <1>3, <1>4, <1>5, <1>6 DEF Step

\* However often and in whatever order the venue hands over, refuses and accepts,
\* the bot retries quickly at most FastRetries times before it waits (note and
\* next_delay of Backoff).
THEOREM NotSpunOn == Sessions => []NoSpin
<1>1. SInv => NoSpin
  BY DEF SInv
<1> QED
  BY <1>1, StartSInv, StepSInv, PTL DEF Sessions

----------------------------------------------------------------------------
(* The seconds double.  The recursion of Doubled is shown to have a solution: *)
(* it is solved up to every number, and two such solutions agree.             *)

\* A nonempty set of numbers has a least one.
LEMMA LeastNumber ==
  ASSUME NEW T \in SUBSET Nat, T # {}
  PROVE  \E n \in T : \A m \in T : n =< m
<1> DEFINE R == OpToRel(<, Nat)
<1>1. IsWellFoundedOn(R, Nat)
  BY NatLessThanWellFounded
<1>2. \A x, y \in Nat : x < y => <<x, y>> \in R
  BY DEF OpToRel
<1>3. T \subseteq Nat
  OBVIOUS
<1> HIDE DEF R
<1>4. PICK n \in T : \A m \in T : ~(<<m, n>> \in R)
  BY <1>1, <1>3, WFMin
<1>5. ASSUME NEW m \in T PROVE n =< m
  <2>1. m \in Nat /\ n \in Nat /\ ~(m < n)
    BY <1>2, <1>3, <1>4
  <2> QED
    BY <2>1
<1> QED
  BY <1>5

DoublesTo(n, f) ==
  f \in [0..n -> Nat] /\ f[0] = 1 /\ \A i \in 1..n : f[i] = 2 * f[i - 1]

\* There is a solution up to every number.
LEMMA DoublesToAll == \A n \in Nat : \E f : DoublesTo(n, f)
<1> DEFINE T == {n \in Nat : ~\E f : DoublesTo(n, f)}
<1>1. SUFFICES ASSUME T # {} PROVE FALSE
  OBVIOUS
<1>2. PICK n \in T : \A m \in T : n =< m
  <2>1. T \in SUBSET Nat
    OBVIOUS
  <2> HIDE DEF T
  <2> QED
    BY <1>1, <2>1, LeastNumber
<1>3. CASE n = 0
  <2>1. DoublesTo(0, [i \in 0..0 |-> 1])
    BY DEF DoublesTo
  <2> QED
    BY <1>2, <1>3, <2>1
<1>4. CASE n # 0
  <2>1. n - 1 \in Nat /\ n - 1 \notin T
    BY <1>2, <1>4
  <2>2. PICK f : DoublesTo(n - 1, f)
    BY <2>1
  <2> DEFINE g == [i \in 0..n |-> IF i = n THEN 2 * f[n - 1] ELSE f[i]]
  <2>3. f \in [0..n - 1 -> Nat] /\ f[0] = 1 /\ \A i \in 1..n - 1 : f[i] = 2 * f[i - 1]
    BY <2>2 DEF DoublesTo
  <2>4. n - 1 \in 0..n - 1 /\ f[n - 1] \in Nat
    BY <2>1, <2>3
  <2>5. g \in [0..n -> Nat] /\ g[0] = 1
    BY <1>4, <2>1, <2>3, <2>4
  <2>6. ASSUME NEW i \in 1..n PROVE g[i] = 2 * g[i - 1]
    <3>1. i \in 0..n /\ i - 1 \in 0..n /\ i - 1 # n
      BY <1>2
    <3>2. CASE i = n
      BY <3>1, <3>2
    <3>3. CASE i # n
      BY <2>3, <3>1, <3>3
    <3> QED
      BY <3>2, <3>3
  <2>7. DoublesTo(n, g)
    BY <2>5, <2>6 DEF DoublesTo
  <2> QED
    BY <1>2, <2>7
<1> QED
  BY <1>3, <1>4

\* Two solutions agree where both reach.
LEMMA DoublesAlike ==
  ASSUME NEW n \in Nat, NEW m \in Nat, NEW f, NEW g,
         DoublesTo(n, f), DoublesTo(m, g)
  PROVE  \A i \in Nat : i =< n /\ i =< m => f[i] = g[i]
<1> DEFINE T == {i \in Nat : i =< n /\ i =< m /\ f[i] # g[i]}
<1>1. SUFFICES ASSUME T # {} PROVE FALSE
  OBVIOUS
<1>2. PICK i \in T : \A j \in T : i =< j
  <2>1. T \in SUBSET Nat
    OBVIOUS
  <2> HIDE DEF T
  <2> QED
    BY <1>1, <2>1, LeastNumber
<1>3. i # 0
  BY <1>2 DEF DoublesTo
<1>4. i - 1 \in Nat /\ i - 1 \notin T /\ i \in 1..n /\ i \in 1..m
  BY <1>2, <1>3
<1>5. f[i - 1] = g[i - 1]
  BY <1>2, <1>4
<1> QED
  BY <1>2, <1>4, <1>5 DEF DoublesTo

\* The recursion's equation holds.
LEMMA DoubledStep ==
  /\ Doubled[0] = 1
  /\ \A n \in Nat : Doubled[n] \in Nat /\ Doubled[n + 1] = 2 * Doubled[n]
<1> DEFINE upto(n) == CHOOSE f : DoublesTo(n, f)
           D == [n \in Nat |-> upto(n)[n]]
<1>1. \A n \in Nat : DoublesTo(n, upto(n))
  BY DoublesToAll
<1> HIDE DEF upto
<1>2. D[0] = 1
  BY <1>1 DEF DoublesTo
<1>3. ASSUME NEW n \in Nat
      PROVE  D[n] \in Nat /\ D[n + 1] = 2 * D[n]
  <2>1. DoublesTo(n, upto(n)) /\ DoublesTo(n + 1, upto(n + 1))
    BY <1>1
  <2>2. upto(n + 1)[n] = upto(n)[n]
    BY <2>1, DoublesAlike
  <2>3. n + 1 \in 1..n + 1 /\ (n + 1) - 1 = n /\ n \in 0..n
    OBVIOUS
  <2>4. upto(n)[n] \in Nat /\ upto(n + 1)[n + 1] = 2 * upto(n + 1)[n]
    BY <2>1, <2>3 DEF DoublesTo
  <2>5. D[n] = upto(n)[n] /\ D[n + 1] = upto(n + 1)[n + 1]
    OBVIOUS
  <2> QED
    BY <2>2, <2>4, <2>5
<1>4. D = [n \in Nat |-> IF n = 0 THEN 1 ELSE 2 * D[n - 1]]
  <2>1. ASSUME NEW n \in Nat PROVE D[n] = IF n = 0 THEN 1 ELSE 2 * D[n - 1]
    <3>1. CASE n = 0
      BY <1>2, <3>1
    <3>2. CASE n # 0
      <4>1. n - 1 \in Nat /\ (n - 1) + 1 = n
        BY <3>2
      <4>2. D[(n - 1) + 1] = 2 * D[n - 1]
        BY <1>3, <4>1
      <4> QED
        BY <3>2, <4>1, <4>2
    <3> QED
      BY <3>1, <3>2
  <2> QED
    BY <2>1
<1> HIDE DEF D
<1>5. Doubled = [n \in Nat |-> IF n = 0 THEN 1 ELSE 2 * Doubled[n - 1]]
  BY <1>4 DEF Doubled
<1>6. Doubled[0] = 1 /\ \A n \in Nat : Doubled[n + 1] = 2 * Doubled[n]
  <2>1. ASSUME NEW n \in Nat PROVE Doubled[n + 1] = 2 * Doubled[n]
    <3>1. n + 1 \in Nat /\ n + 1 # 0 /\ (n + 1) - 1 = n
      OBVIOUS
    <3> QED
      BY <1>5, <3>1
  <2> QED
    BY <1>5, <2>1
<1>7. \A n \in Nat : Doubled[n] \in Nat
  <2> DEFINE T == {n \in Nat : Doubled[n] \notin Nat}
  <2>1. SUFFICES ASSUME T # {} PROVE FALSE
    OBVIOUS
  <2>2. PICK n \in T : \A m \in T : n =< m
    <3>1. T \in SUBSET Nat
      OBVIOUS
    <3> HIDE DEF T
    <3> QED
      BY <2>1, <3>1, LeastNumber
  <2>3. n # 0
    BY <1>6, <2>2
  <2>4. n - 1 \in Nat /\ n - 1 \notin T /\ (n - 1) + 1 = n
    BY <2>2, <2>3
  <2>5. Doubled[n - 1] \in Nat /\ Doubled[(n - 1) + 1] = 2 * Doubled[n - 1]
    BY <1>6, <2>4
  <2> QED
    BY <2>2, <2>4, <2>5
<1> QED
  BY <1>6, <1>7

\* The wait after n long ones.
LEMMA WaitDoubles ==
  ASSUME NEW n \in Nat
  PROVE  /\ Least(FirstWait * Doubled[0], MostWait) = FirstWait
         /\ Least(2 * Least(FirstWait * Doubled[n], MostWait), MostWait)
              = Least(FirstWait * Doubled[n + 1], MostWait)
<1>1. Doubled[0] = 1 /\ Doubled[n] \in Nat /\ Doubled[n + 1] = 2 * Doubled[n]
  BY DoubledStep
<1> DEFINE w == FirstWait * Doubled[n]
<1>2. w \in Nat /\ FirstWait * Doubled[n + 1] = 2 * w
  BY <1>1, BackoffTyped
<1> HIDE DEF w
<1>3. Least(2 * Least(w, MostWait), MostWait) = Least(2 * w, MostWait)
  BY <1>2, BackoffTyped DEF Least
<1> QED
  BY <1>1, <1>2, <1>3, BackoffTyped DEF Least, w

LEMMA EndsBacksOff ==
  ASSUME SInv, BacksOff, NEW handover \in BOOLEAN, Ends(handover)
  PROVE  BacksOff'
<1> DEFINE b == IF is_healthy_session THEN Default ELSE backoff
           n == Noted(b, handover)
           l == IF is_healthy_session THEN 0 ELSE slow
<1>1. b \in [secs : Nat, fast : Nat] /\ b.secs >= FirstWait /\ l \in Nat
  BY DefaultTyped, BackoffTyped DEF SInv, SessionsTyped, WaitsOK
<1>2. b.secs = Least(FirstWait * Doubled[l], MostWait)
  BY DefaultTyped, WaitDoubles DEF BacksOff
<1>3. /\ backoff' = Advanced(n)
      /\ slow' = IF next_delay(n) < FirstWait THEN l ELSE l + 1
  BY DEF Ends
<1> HIDE DEF b, l
<1>4. /\ n \in [secs : Nat, fast : Nat] /\ n.secs = b.secs
      /\ next_delay(n) < FirstWait <=> Quick(n)
  BY <1>1, Waiting
<1> HIDE DEF n
<1>5. CASE Quick(n)
  BY <1>2, <1>3, <1>4, <1>5 DEF Advanced, BacksOff
<1>6. CASE ~Quick(n)
  <2>1. backoff'.secs = Least(2 * n.secs, MostWait) /\ slow' = l + 1
    BY <1>3, <1>4, <1>6 DEF Advanced
  <2> QED
    BY <1>1, <1>2, <1>4, <2>1, WaitDoubles DEF BacksOff
<1> QED
  BY <1>5, <1>6

\* Whatever handovers, refusals and short-lived acceptances come in between, the
\* seconds waited double with every long wait up to the ceiling, until a session
\* lives (run: reset only after is_healthy_session; next_delay).
THEOREM WaitsDouble == Sessions => []BacksOff
<1>1. Start => BacksOff
  BY DefaultTyped, WaitDoubles DEF Start, BacksOff
<1>2. SInv /\ BacksOff /\ [Step]_allVars => BacksOff'
  <2> SUFFICES ASSUME SInv, BacksOff, [Step]_allVars PROVE BacksOff'
    OBVIOUS
  <2>1. ASSUME NEW handover \in BOOLEAN, Ends(handover) PROVE BacksOff'
    BY <2>1, EndsBacksOff
  <2>2. CASE Restart
    BY <2>2, DefaultTyped, WaitDoubles DEF Restart, BacksOff
  <2>3. CASE UNCHANGED <<backoff, slow>>
    BY <2>3 DEF BacksOff
  <2>4. Accept \/ Serve \/ Live \/ UNCHANGED allVars => UNCHANGED <<backoff, slow>>
    BY DEF Accept, Serve, Live, session, allVars
  <2> QED
    BY <2>1, <2>2, <2>3, <2>4 DEF Step
<1> QED
  BY <1>1, <1>2, StartSInv, StepSInv, PTL DEF Sessions

----------------------------------------------------------------------------
\* An ending, waited out, is a new session of RfqNonce.
LEMMA EndsNonces ==
  ASSUME SInv, NEW handover \in BOOLEAN, Ends(handover)
  PROVE  Nonces!NewSession
<1> DEFINE b == IF is_healthy_session THEN Default ELSE backoff
           n == Noted(b, handover)
<1>1. b \in [secs : Nat, fast : Nat] /\ b.secs >= FirstWait
  BY DefaultTyped, BackoffTyped DEF SInv, SessionsTyped, WaitsOK
<1>2. /\ ms + next_delay(n) =< MaxMs /\ ms' = ms + next_delay(n)
      /\ up' = FALSE /\ last' = last /\ outran' = outran
  BY DEF Ends
<1> HIDE DEF b
<1>3. next_delay(n) \in Nat /\ next_delay(n) >= Reconnect
  BY <1>1, Waiting
<1> HIDE DEF n
<1>4. next_delay(n) \in Reconnect..MaxMs
  BY <1>2, <1>3, ConstantsTyped DEF SInv
<1> QED
  BY <1>2, <1>4 DEF Nonces!NewSession

LEMMA StepNonces == SInv /\ [Step]_allVars => [Nonces!Next]_(Nonces!vars)
<1> SUFFICES ASSUME SInv, [Step]_allVars PROVE [Nonces!Next]_(Nonces!vars)
  OBVIOUS
<1>1. CASE Accept
  BY <1>1 DEF Accept, Nonces!vars
<1>2. CASE Serve
  BY <1>2 DEF Serve, session, Mint, rfq_nonce, Nonces!Next, Nonces!Mint, Nonces!rfq_nonce
<1>3. CASE Live
  BY <1>3 DEF Live, Clock, Nonces!Next, Nonces!Clock
<1>4. ASSUME NEW handover \in BOOLEAN, Ends(handover) PROVE Nonces!Next
  BY <1>4, EndsNonces DEF Nonces!Next
<1>5. CASE Restart
  BY <1>5 DEF Restart, Nonces!Next, Nonces!NewSession
<1>6. CASE UNCHANGED allVars
  BY <1>6 DEF allVars, vars, session, Nonces!vars
<1> QED
  BY <1>1, <1>2, <1>3, <1>4, <1>5, <1>6 DEF Step

\* A bot that reconnects by this backoff mints the nonces RfqNonce describes: no
\* session starts within the shortest wait of the last one's end.
THEOREM NoncesImplemented == Sessions => ImplementsNonces
<1>1. Start => Nonces!Init
  BY DEF Start, Init, Nonces!Init
<1> QED
  BY <1>1, StartSInv, StepSInv, StepNonces, PTL DEF Sessions, ImplementsNonces, Nonces!Spec

----------------------------------------------------------------------------
(* Nonces that grow.  A step of RfqNonce, on the values before it and after  *)
(* it: the counter is the Engine's own in RfqNonce and none between two      *)
(* sessions here, and both take the same steps.                              *)

NonceStep(m, c, l, o, m2, c2, l2, o2) ==
  \/ m2 = m + 1 /\ c2 = c /\ l2 = l /\ o2 = o
  \/ /\ m2 = m /\ c2 = c + 1 /\ l2 = rfq_nonce(m, c)
     /\ o2 = (o \/ c2 > Reconnect * PerMs)
  \/ (\E delay \in Reconnect..MaxMs : m2 = m + delay) /\ c2 = 0 /\ l2 = l /\ o2 = o
  \/ m2 = m /\ c2 = c /\ l2 = l /\ o2 = o

NonceTyped(m, c, l, o) == m \in Nat /\ c \in Nat /\ l \in Nat \cup {-1} /\ o \in BOOLEAN

\* What a session has minted is below what it mints next.
Below(m, c, l) == c > 0 => l < rfq_nonce(m, c)

\* So is what every earlier session minted, while none outran its wait.
BelowAll(m, c, l, o) == ~o => c =< Reconnect * PerMs /\ l < rfq_nonce(m, c)

\* Before any quote there is nothing to be above.
LEMMA NothingMinted ==
  NonceTyped(0, 0, -1, FALSE) /\ Below(0, 0, -1) /\ BelowAll(0, 0, -1, FALSE)
<1>1. Reconnect * PerMs \in Nat /\ rfq_nonce(0, 0) \in Nat
  BY ConstantsTyped DEF rfq_nonce
<1> QED
  BY <1>1 DEF NonceTyped, Below, BelowAll

\* The seed only moves up with the clock.
LEMMA SeedGrows ==
  ASSUME NEW a \in Nat, NEW c \in Nat
  PROVE  /\ rfq_nonce(a, c) \in Nat
         /\ rfq_nonce(a, c) < rfq_nonce(a, c + 1)
         /\ rfq_nonce(a, c) < rfq_nonce(a + 1, c)
<1>1. a * PerMs \in Nat /\ (a + 1) * PerMs = a * PerMs + PerMs
  BY ConstantsTyped
<1> QED
  BY <1>1, ConstantsTyped DEF rfq_nonce

\* The values stay values, a session's flag included.
LEMMA StepTyped ==
  ASSUME NEW m, NEW c, NEW l, NEW o, NEW m2, NEW c2, NEW l2, NEW o2,
         NonceTyped(m, c, l, o), NonceStep(m, c, l, o, m2, c2, l2, o2)
  PROVE  NonceTyped(m2, c2, l2, o2)
<1>1. m \in Nat /\ c \in Nat /\ l \in Nat \cup {-1} /\ rfq_nonce(m, c) \in Nat
  BY SeedGrows DEF NonceTyped
<1>2. o2 \in BOOLEAN
  BY Zenon DEF NonceTyped, NonceStep
<1>3. m2 \in Nat /\ c2 \in Nat /\ l2 \in Nat \cup {-1}
  BY <1>1, ConstantsTyped DEF NonceStep
<1> QED
  BY <1>2, <1>3 DEF NonceTyped

\* Ticks move the seed up, a quote moves the counter up, a new session starts
\* over with nothing minted: in all three the next nonce stays above the last.
LEMMA StaysBelow ==
  ASSUME NEW m, NEW c, NEW l, NEW o, NEW m2, NEW c2, NEW l2, NEW o2,
         NonceTyped(m, c, l, o), Below(m, c, l), NonceStep(m, c, l, o, m2, c2, l2, o2)
  PROVE  Below(m2, c2, l2) /\ (c > 0 /\ c2 > c => l2 > l)
<1>1. m \in Nat /\ c \in Nat /\ l \in Nat \cup {-1}
  BY DEF NonceTyped
<1>2. CASE m2 = m + 1 /\ c2 = c /\ l2 = l
  <2>1. /\ rfq_nonce(m, c) \in Nat /\ rfq_nonce(m + 1, c) \in Nat
        /\ rfq_nonce(m, c) < rfq_nonce(m + 1, c)
    BY <1>1, SeedGrows
  <2> QED
    BY <1>1, <1>2, <2>1 DEF Below
<1>3. CASE m2 = m /\ c2 = c + 1 /\ l2 = rfq_nonce(m, c)
  <2>1. rfq_nonce(m, c) \in Nat /\ rfq_nonce(m, c) < rfq_nonce(m, c + 1)
    BY <1>1, SeedGrows
  <2> QED
    BY <1>1, <1>3, <2>1 DEF Below
<1>4. CASE (\E delay \in Reconnect..MaxMs : m2 = m + delay) /\ c2 = 0 /\ l2 = l
  BY <1>1, <1>4, ConstantsTyped DEF Below
<1>5. CASE m2 = m /\ c2 = c /\ l2 = l
  BY <1>1, <1>5 DEF Below
<1> QED
  BY <1>2, <1>3, <1>4, <1>5 DEF NonceStep

\* A reconnect moves the seed up by more than the counter falls back.
LEMMA StaysBelowAll ==
  ASSUME NEW m, NEW c, NEW l, NEW o, NEW m2, NEW c2, NEW l2, NEW o2,
         NonceTyped(m, c, l, o), BelowAll(m, c, l, o),
         NonceStep(m, c, l, o, m2, c2, l2, o2)
  PROVE  BelowAll(m2, c2, l2, o2) /\ (c2 > c /\ ~o => l2 > l)
<1>1. m \in Nat /\ c \in Nat /\ l \in Nat \cup {-1}
  BY DEF NonceTyped
<1>2. CASE m2 = m + 1 /\ c2 = c /\ l2 = l /\ o2 = o
  <2>1. /\ rfq_nonce(m, c) \in Nat /\ rfq_nonce(m + 1, c) \in Nat
        /\ rfq_nonce(m, c) < rfq_nonce(m + 1, c)
    BY <1>1, SeedGrows
  <2> QED
    BY <1>1, <1>2, <2>1 DEF BelowAll
<1>3. CASE /\ m2 = m /\ c2 = c + 1 /\ l2 = rfq_nonce(m, c)
           /\ o2 = (o \/ c2 > Reconnect * PerMs)
  <2>1. rfq_nonce(m, c) \in Nat /\ rfq_nonce(m, c) < rfq_nonce(m, c + 1)
    BY <1>1, SeedGrows
  <2>2. ~o2 => ~o /\ ~(c2 > Reconnect * PerMs)
    BY <1>3, Zenon
  <2>3. Reconnect * PerMs \in Nat
    BY ConstantsTyped
  <2>4. BelowAll(m2, c2, l2, o2)
    BY <1>1, <1>3, <2>1, <2>2, <2>3 DEF BelowAll
  <2>5. ~o => l2 > l
    BY <1>1, <1>3, <2>1 DEF BelowAll
  <2> QED
    BY <2>4, <2>5
<1>4. CASE (\E delay \in Reconnect..MaxMs : m2 = m + delay) /\ c2 = 0 /\ l2 = l /\ o2 = o
  <2>1. PICK delay \in Reconnect..MaxMs : m2 = m + delay
    BY <1>4
  <2>2. delay \in Nat /\ delay >= Reconnect
    BY <2>1, ConstantsTyped
  <2>3. PICK more \in Nat : delay = Reconnect + more
    <3>1. delay - Reconnect \in Nat /\ delay = Reconnect + (delay - Reconnect)
      BY <2>2, ConstantsTyped
    <3> QED
      BY <3>1
  <2>4. /\ m * PerMs \in Nat
        /\ Reconnect * PerMs \in Nat
        /\ more * PerMs \in Nat
        /\ (m + (Reconnect + more)) * PerMs = m * PerMs + Reconnect * PerMs + more * PerMs
    BY <1>1, <2>3, ConstantsTyped
  <2>5. ~o => l < m * PerMs + c /\ c =< Reconnect * PerMs
    BY <1>1, <2>4, ConstantsTyped DEF BelowAll, rfq_nonce
  <2>6. ~o => l < (m + (Reconnect + more)) * PerMs + 0
    BY <1>1, <2>4, <2>5
  <2> QED
    BY <1>1, <1>4, <2>1, <2>3, <2>4, <2>6, ConstantsTyped DEF BelowAll, rfq_nonce
<1>5. CASE m2 = m /\ c2 = c /\ l2 = l /\ o2 = o
  BY <1>1, <1>5 DEF BelowAll
<1> QED
  BY <1>2, <1>3, <1>4, <1>5 DEF NonceStep

LEMMA NextIsNonceStep ==
  [Next]_vars => NonceStep(ms, counter, last, outran, ms', counter', last', outran')
BY DEF Next, vars, Clock, Mint, NewSession, NonceStep

\* However fast a session quotes and however the clock ticks, one session never
\* mints a nonce that is not above its last one, so no two of its orders share
\* one (rfq_nonce, counter in respond).
THEOREM SessionNoncesGrow == Spec => GrowsInSession
<1> DEFINE I == NonceTyped(ms, counter, last, outran) /\ Below(ms, counter, last)
<1>1. Init => I
  BY NothingMinted DEF Init
<1>2. I /\ [Next]_vars => I' /\ [counter > 0 /\ counter' > counter => last' > last]_vars
  BY StepTyped, StaysBelow, NextIsNonceStep
<1> QED
  BY <1>1, <1>2, PTL DEF Spec, GrowsInSession

\* The Engine's counter, gone between two sessions.
Minting == IF up THEN counter ELSE 0

LEMMA SessionIsNonceStep ==
  [Nonces!Next]_(Nonces!vars)
    => NonceStep(ms, Minting, last, outran, ms', Minting', last', outran')
BY DEF Nonces!Next, Nonces!vars, Nonces!Clock, Nonces!Mint, Nonces!NewSession,
       Nonces!rfq_nonce, rfq_nonce, NonceStep, Minting

\* A quote is signed in a session, so the counter that counts is the session's.
LEMMA MintedInSession ==
  ASSUME SInv, [Step]_allVars, counter' > counter, counter \in Nat
  PROVE  Minting = counter /\ Minting' > Minting
BY DEF Step, allVars, vars, session, Accept, Serve, Mint, Live, Clock, Ends, Restart,
       SInv, SessionsTyped, Minting

\* The orders of the sessions this backoff spaces, across handovers, failed
\* attempts and restarts, carry growing nonces, so none of one session shares its
\* nonce with one of a later session, up to the first session that counts beyond
\* what the shortest wait makes up for: 250,000 quotes for 250 ms (rfq_nonce,
\* next_delay).  Sessions may be of any length: the code bounds none, and after one
\* that long TLC finds a nonce that falls back.
THEOREM SessionsNoncesGrow == Sessions => GrowsAcrossSessions
<1> DEFINE I == /\ SInv /\ counter \in Nat
                /\ NonceTyped(ms, Minting, last, outran)
                /\ BelowAll(ms, Minting, last, outran)
<1>1. ASSUME Start PROVE I
  <2>1. ms = 0 /\ counter = 0 /\ last = -1 /\ outran = FALSE /\ up = FALSE
    BY <1>1, Zenon DEF Start, Init
  <2>2. Minting = 0
    BY <2>1 DEF Minting
  <2>3. NonceTyped(ms, Minting, last, outran) /\ BelowAll(ms, Minting, last, outran)
    BY <2>1, <2>2, NothingMinted, Zenon
  <2> QED
    BY <1>1, <2>1, <2>3, StartSInv
<1>2. I /\ [Step]_allVars => I' /\ [counter' > counter /\ ~outran => last' > last]_vars
  <2> SUFFICES ASSUME I, [Step]_allVars
               PROVE  I' /\ [counter' > counter /\ ~outran => last' > last]_vars
    OBVIOUS
  <2>1. NonceStep(ms, Minting, last, outran, ms', Minting', last', outran')
    BY StepNonces, SessionIsNonceStep
  <2>2. counter' \in Nat
    BY DEF Step, allVars, vars, session, Accept, Serve, Mint, Live, Clock, Ends, Restart
  <2>3. /\ NonceTyped(ms', Minting', last', outran')
        /\ BelowAll(ms', Minting', last', outran')
        /\ (Minting' > Minting /\ ~outran => last' > last)
    BY <2>1, StepTyped, StaysBelowAll
  <2>4. counter' > counter /\ ~outran => last' > last
    BY <2>3, MintedInSession
  <2> QED
    BY <2>2, <2>3, <2>4, StepSInv
<1> QED
  BY <1>1, <1>2, PTL DEF Sessions, GrowsAcrossSessions

=============================================================================

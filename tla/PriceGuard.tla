------------------------------ MODULE PriceGuard -----------------------------
(***************************************************************************)
(* The price guard (src/src/pricing/jump.rs, cache.rs, anchor.rs, and      *)
(* src/src/rfq/guard.rs).                                                  *)
(*                                                                         *)
(* The responder's price loop and the tick loop of the ladder poll one     *)
(* feed side by side.  Every answer goes through one admission state: the  *)
(* last trusted print, the candidate for another level, the quote readers  *)
(* see, and the reason there is none.  The trusted print is kept in a file *)
(* across restarts.  A firm order is priced off the quote, signed, which   *)
(* takes time, and judged again against the quote of that later moment.    *)
(*                                                                         *)
(* A print is a price at a feed second; NoPrint stands for none, and the   *)
(* record with no price and a second for a contradiction on file.          *)
(***************************************************************************)
EXTENDS Integers, FiniteSets

CONSTANTS
  Loops,         \* the price loop and the tick loop
  Prices,        \* the prices the feed may print
  Rates,         \* the rates orders are built at
  MaxJumpBps,    \* JumpGuard.max_jump_bps
  Settle,        \* JumpGuard.settle_secs
  Staleness,     \* FeedPolicy.staleness_secs
  MaxLossBps,    \* [price_guard] max_loss_bps
  SaveEvery,     \* SAVE_EVERY_SECS
  SaveOnMoveBps, \* SAVE_ON_MOVE_BPS
  MaxNow,        \* bound: seconds
  MaxCrashes,    \* bound: restarts
  MaxFailures,   \* bound: anchor writes that fail
  MaxSteps       \* bound: seconds the wall clock is set back in all

ASSUME ConstantsTyped ==
  /\ Prices \subseteq Nat \ {0} /\ Rates \subseteq Nat \ {0}
  /\ {Settle, Staleness, SaveEvery, MaxCrashes, MaxFailures, MaxSteps} \subseteq Nat
  /\ MaxNow \in Nat \ {0}
  /\ MaxJumpBps \in Nat \ {0} /\ SaveOnMoveBps \in Nat /\ MaxLossBps \in 0..10000

\* A move too small to save is one the guard would take.
ASSUME MovesAreSaved == SaveOnMoveBps <= MaxJumpBps

VARIABLES
  now,      \* seconds on the monotonic clock
  behind,   \* seconds the wall clock was set back
  crashes,  \* restarts so far
  failures, \* anchor writes that failed
  polling,  \* polling[l]: when loop l's request began, 0 for none
  loaded,   \* FeedState.anchor is some
  history,  \* FeedState.history
  startup,  \* FeedState.startup_poll, 0 for none
  quote,    \* FeedState.quote
  hold,     \* FeedState.hold, "none" for none
  saved,    \* Anchor.saved
  file,     \* the feed's file under price-guard
  order,    \* the order at the signer
  out,      \* the last order built went out
  firsts,   \* ghost: polls answered while nothing was trusted
  since     \* ghost: prints out of line with the trusted one, of one level

clock  == <<now, behind, crashes>>
feed   == <<loaded, history, startup, quote, hold, saved, file, failures>>
ghosts == <<firsts, since>>
orders == <<order, out>>
vars == <<clock, polling, feed, orders, ghosts>>

NoPrint == [price |-> 0, at |-> 0]
NoQuote == [price |-> 0, at |-> 0, degraded |-> TRUE] \* none, or a degraded one
NoOrder == [bid |-> FALSE, rate |-> 0]
NoHistory == [trusted |-> NoPrint, candidate |-> NoPrint, contradicted |-> 0]

wall == now - behind

\* agrees: the larger within max_jump_bps of the smaller.
Near(a, b, bps) ==
  a * 10000 <= b * (10000 + bps) /\ b * 10000 <= a * (10000 + bps)

Agrees(a, b) == Near(a, b, MaxJumpBps)

\* The band: what the maker gets is worth at least 1 - max_loss of what it
\* pays, at the print.
Within(bid, rate, print) ==
  IF bid THEN print * 10000 >= rate * (10000 - MaxLossBps)
         ELSE rate * 10000 >= print * (10000 - MaxLossBps)

\* usable: fresh on the wall clock, a price, and not flagged by the feed.
Usable(q) ==
  /\ q.at # 0 /\ q.at <= wall /\ wall - q.at <= Staleness
  /\ q.price > 0
  /\ ~q.degraded

----------------------------------------------------------------------------
(* The jump guard: a judgement is a new history and a verdict. *)

Trust(p) == [NoHistory EXCEPT !.trusted = p]

Judgement(h, v) == [history |-> h, verdict |-> v]

WarmUp(h, p) ==
  IF /\ h.candidate # NoPrint
     /\ p.at >= h.candidate.at
     /\ Agrees(h.candidate.price, p.price)
  THEN Judgement(Trust(p), "trusted")
  ELSE Judgement([h EXCEPT !.candidate = p], "warming")

\* The first print of the level p belongs to.
Level(h, p) ==
  IF h.candidate # NoPrint /\ Agrees(h.candidate.price, p.price)
  THEN h.candidate ELSE p

\* Mutant: the trusted print's second is taken for the level's first.
MutJumped(h, p) ==
  IF p.at > h.trusted.at /\ p.at - h.trusted.at >= Settle
  THEN Judgement(Trust(p), "reanchored")
  ELSE Judgement([h EXCEPT !.candidate = Level(h, p)], "jumped")

Jumped(h, p) ==
  LET first == Level(h, p) IN
  IF p.at > first.at /\ p.at - first.at >= Settle
  THEN Judgement(Trust(p), "reanchored")
  ELSE Judgement([h EXCEPT !.candidate = first], "jumped")

\* Mutant: a lagging answer is judged like any other.
MutJudge(h, p) ==
  CASE h.trusted = NoPrint -> WarmUp(h, p)
    [] h.trusted # NoPrint /\ p.at < h.trusted.at -> Judgement(h, "trusted")
    [] h.trusted # NoPrint /\ p.at >= h.trusted.at
         /\ Agrees(h.trusted.price, p.price) -> Judgement(Trust(p), "trusted")
    [] OTHER -> Jumped(h, p)

Judge(h, p) ==
  CASE h.trusted = NoPrint -> WarmUp(h, p)
    [] h.trusted # NoPrint /\ p.at < h.trusted.at ->
         Judgement(h, IF Agrees(h.trusted.price, p.price)
                      THEN "trusted" ELSE "regressed")
    [] h.trusted # NoPrint /\ p.at >= h.trusted.at
         /\ Agrees(h.trusted.price, p.price) -> Judgement(Trust(p), "trusted")
    [] OTHER -> Jumped(h, p)

Observe(h, p) ==
  IF p.at <= h.contradicted THEN Judgement(h, "contradicted") ELSE Judge(h, p)

\* Mutant: polls of the same second confirm each other.
MutConfirms(start) == startup # 0 /\ start >= startup

\* Two polls at once confirm nothing: a cold start needs a request begun at
\* least a second after the one that brought the candidate.
Confirms(start) == startup # 0 /\ start >= startup + 1

Admitted(h, p, start) ==
  LET seen == Observe(h, p) IN
  IF h.trusted = NoPrint /\ seen.history.trusted # NoPrint /\ ~Confirms(start)
  THEN Judgement(h, "warming") ELSE seen

Later(a, b) == IF a > b THEN a ELSE b

StartupAfter(h, next, start) ==
  CASE next.trusted # NoPrint -> 0
    [] next.trusted = NoPrint /\ next.candidate # h.candidate -> Later(startup, start)
    [] OTHER -> startup

\* Ghosts keep the earliest of what was seen at each price.
Earliest(seen, r) ==
  IF \E e \in seen : e.price = r.price /\ e.at <= r.at THEN seen
  ELSE {e \in seen : e.price # r.price} \cup {r}

----------------------------------------------------------------------------
(* The file. *)

Contradiction(at) == [price |-> 0, at |-> at]

FromDisk(d) ==
  IF d.price > 0 THEN Trust(d) ELSE [NoHistory EXCEPT !.contradicted = d.at]

\* Mutant: only time makes a print worth a write.
MutWorthSaving(d, p) ==
  \/ d = NoPrint
  \/ d.price > 0 /\ p.at >= d.at + SaveEvery
  \/ d.price = 0 /\ p.at > d.at

WorthSaving(d, p) ==
  \/ d = NoPrint
  \/ d.price > 0 /\ (p.at >= d.at + SaveEvery \/ ~Near(d.price, p.price, SaveOnMoveBps))
  \/ d.price = 0 /\ p.at > d.at

Keep(d, p) ==
  CASE d.price > 0 /\ d.at > p.at -> d
    [] d.price > 0 /\ d.at = p.at /\ ~Agrees(d.price, p.price) -> Contradiction(d.at)
    [] d.price = 0 /\ p.at <= d.at -> d
    [] OTHER -> p

\* Anchor::record; before is what the anchor last saw on file.
Record(before, h) ==
  \/ /\ h.trusted # NoPrint /\ WorthSaving(before, h.trusted)
     /\ file' = Keep(file, h.trusted)
     /\ saved' = file'
     /\ UNCHANGED failures
  \/ /\ h.trusted # NoPrint /\ WorthSaving(before, h.trusted)
     /\ failures < MaxFailures
     /\ failures' = failures + 1
     /\ saved' = before
     /\ UNCHANGED file
  \/ /\ h.trusted = NoPrint \/ ~WorthSaving(before, h.trusted)
     /\ saved' = before
     /\ UNCHANGED <<file, failures>>

----------------------------------------------------------------------------
Init ==
  /\ now = 1 /\ behind = 0 /\ crashes = 0 /\ failures = 0
  /\ polling = [l \in Loops |-> 0]
  /\ loaded = FALSE /\ history = NoHistory /\ startup = 0
  /\ quote = NoQuote /\ hold = "none" /\ saved = NoPrint
  /\ file \in {NoPrint, Contradiction(1)} \* an earlier run's, or none
  /\ order = NoOrder /\ out = FALSE
  /\ firsts = {} /\ since = {}

\* A second passes; the operating system may meanwhile set the wall clock back.
Tick ==
  /\ now < MaxNow
  /\ now' = now + 1
  /\ \E d \in 0..(MaxSteps - behind) : now + 1 - (behind + d) > 0 /\ behind' = behind + d
  /\ UNCHANGED <<crashes, polling, feed, orders, ghosts>>

\* A loop asks the feed.
Poll(l) ==
  /\ polling[l] = 0
  /\ polling' = [polling EXCEPT ![l] = now]
  /\ UNCHANGED <<clock, feed, orders, ghosts>>

FetchFails(l) ==
  /\ polling[l] # 0
  /\ polling' = [polling EXCEPT ![l] = 0]
  /\ IF loaded THEN quote' = NoQuote /\ hold' = "none" ELSE UNCHANGED <<quote, hold>>
  /\ UNCHANGED <<clock, loaded, history, startup, saved, file, failures, orders, ghosts>>

AdmitUnusable(q, h) ==
  /\ ~Usable(q)
  /\ quote' = q /\ hold' = "none"
  /\ history' = h
  /\ saved' = (IF loaded THEN saved ELSE file)
  /\ UNCHANGED <<startup, file, failures, ghosts>>

AdmitUsable(q, h, start) ==
  LET p    == [price |-> q.price, at |-> q.at]
      seen == Admitted(h, p, start)
      next == seen.history
  IN /\ Usable(q)
     /\ history' = next
     /\ startup' = StartupAfter(h, next, start)
     /\ Record(IF loaded THEN saved ELSE file, next)
     /\ CASE seen.verdict \in {"trusted", "reanchored"} -> quote' = q /\ hold' = "none"
          [] seen.verdict = "regressed" -> UNCHANGED <<quote, hold>>
          [] OTHER -> quote' = NoQuote /\ hold' = seen.verdict
     /\ firsts' = CASE next.trusted # NoPrint -> {}
                    [] seen.verdict = "warming" ->
                         Earliest(firsts, [price |-> p.price, at |-> start])
                    [] OTHER -> firsts
     /\ since' = CASE seen.verdict = "jumped" ->
                        Earliest({r \in since : Agrees(r.price, p.price)}, p)
                   [] seen.verdict # "jumped" /\ next = h -> since
                   [] OTHER -> {}

\* What a fetch returns: no second in the future; a flagged print is one no
\* reader uses, whatever its price.
Answers == {NoQuote} \cup [price : Prices, at : 1..wall, degraded : {FALSE}]

\* PriceCache::admit, under its lock.
Admit(l) ==
  /\ polling[l] # 0
  /\ polling' = [polling EXCEPT ![l] = 0]
  /\ loaded' = TRUE
  /\ \E q \in Answers :
       LET h == IF loaded THEN history ELSE FromDisk(file) IN
       AdmitUnusable(q, h) \/ AdmitUsable(q, h, polling[l])
  /\ UNCHANGED <<clock, orders>>

----------------------------------------------------------------------------
(* Orders: priced off the quote, judged again once signed. *)

Build ==
  /\ order = NoOrder
  /\ Usable(quote)
  /\ \E bid \in BOOLEAN, rate \in Rates :
       /\ Within(bid, rate, quote.price)
       /\ order' = [bid |-> bid, rate |-> rate]
  /\ out' = FALSE
  /\ UNCHANGED <<clock, polling, feed, ghosts>>

\* Mutant: a signed order is sent as it is.
MutPasses == TRUE

\* recheck_after_signing.
Passes ==
  /\ Usable(quote)
  /\ Within(order.bid, order.rate, quote.price)

Release ==
  /\ order # NoOrder
  /\ Passes
  /\ order' = NoOrder /\ out' = TRUE
  /\ UNCHANGED <<clock, polling, feed, ghosts>>

\* A gate refuses, or the signer failed.
Withhold ==
  /\ order # NoOrder
  /\ order' = NoOrder /\ out' = FALSE
  /\ UNCHANGED <<clock, polling, feed, ghosts>>

\* The process ends and starts again, with nothing but the file.
Restart ==
  /\ crashes < MaxCrashes
  /\ crashes' = crashes + 1
  /\ polling' = [l \in Loops |-> 0]
  /\ loaded' = FALSE /\ history' = NoHistory /\ startup' = 0
  /\ quote' = NoQuote /\ hold' = "none" /\ saved' = NoPrint
  /\ order' = NoOrder /\ out' = FALSE
  /\ firsts' = {} /\ since' = {}
  /\ UNCHANGED <<now, behind, file, failures>>

Bot ==
  \/ \E l \in Loops : Poll(l) \/ FetchFails(l) \/ Admit(l)
  \/ Build \/ Release \/ Withhold

Next == Tick \/ Bot \/ Restart

Spec == Init /\ [][Next]_vars

----------------------------------------------------------------------------
SomePrint == [price : Prices, at : 1..MaxNow]

OnDisk == {NoPrint} \cup SomePrint \cup [price : {0}, at : 1..MaxNow]

History == [trusted : {NoPrint} \cup SomePrint, candidate : {NoPrint} \cup SomePrint,
            contradicted : 0..MaxNow]

Order == [bid : BOOLEAN, rate : Rates]

TypeOK ==
  /\ now \in 1..MaxNow /\ behind \in 0..MaxSteps /\ crashes \in Nat /\ failures \in Nat
  /\ polling \in [Loops -> 0..now]
  /\ loaded \in BOOLEAN
  /\ history \in History /\ startup \in Nat
  /\ quote \in {NoQuote} \cup [price : Prices, at : 1..MaxNow, degraded : {FALSE}]
  /\ hold \in {"none", "warming", "jumped", "contradicted"}
  /\ saved \in OnDisk /\ file \in OnDisk
  /\ order \in {NoOrder} \cup Order /\ out \in BOOLEAN
  /\ firsts \subseteq SomePrint /\ since \subseteq SomePrint

\* The price the next print is judged against: before the first admission of
\* a run, the one on file.
Baseline ==
  CASE loaded -> history.trusted
    [] ~loaded /\ file.price > 0 -> file
    [] OTHER -> NoPrint

\* Whatever the order the answers of the two loops come in, a quote that can
\* be read as fresh is in line with the last trusted print and is not held:
\* a jump one loop saw takes the price from every reader.
ServedInLine ==
  Usable(quote) =>
    /\ hold = "none"
    /\ loaded /\ history.trusted # NoPrint
    /\ Agrees(quote.price, history.trusted.price)

\* A run with no baseline trusts a price only on the word of two polls that
\* agree, the second begun after the second of the first; answers that cross
\* on the way and the two loops' simultaneous first polls do not count.
ColdStart ==
  [][Baseline = NoPrint /\ Baseline' # NoPrint =>
       \E l \in Loops : /\ polling[l] # 0 /\ polling'[l] = 0
                        /\ \E r \in firsts : /\ r.at < polling[l]
                                             /\ Agrees(r.price, Baseline'.price)]_vars

\* A price out of line with the baseline, the one on file after a restart
\* included, takes its place only if the feed printed that level settle_secs
\* apart and never came back into line in between.
LevelHeld ==
  [][crashes' = crashes /\ Baseline # NoPrint /\ Baseline' # NoPrint =>
       \/ Agrees(Baseline.price, Baseline'.price)
       \/ \E r \in since : /\ Agrees(r.price, Baseline'.price)
                           /\ Baseline'.at - r.at >= Settle]_vars

\* While no write failed, a restart would judge the feed against a price in
\* line with the one trusted now, or against none newer than it: the small
\* moves that are not worth a write never add up to a jump.
FileFollows ==
  failures = 0 /\ loaded /\ history.trusted # NoPrint =>
    \/ file.price > 0 /\ Agrees(file.price, history.trusted.price)
    \/ file.price = 0 /\ file.at >= history.trusted.at

\* An order leaves only at a price the band allows against a price in line
\* with what is trusted when the signature is there, not when it was asked
\* for.
SignedInLine ==
  [][out' /\ ~out =>
       /\ hold = "none" /\ history.trusted # NoPrint
       /\ \E p \in Prices : /\ Agrees(p, history.trusted.price)
                            /\ Within(order.bid, order.rate, p)]_vars

=============================================================================

------------------------------ MODULE Publication ------------------------------
(***************************************************************************)
(* When a session publishes its corridors' levels (session_loop_inner and  *)
(* its helpers in src/src/rfq/mod.rs).                                     *)
(*                                                                         *)
(* All corridors go out on an interval.  A corridor whose quote expired is *)
(* republished sooner, after a debounce, if that fits under the venue's    *)
(* cap on the frames of a second; one with a live curve goes out with each *)
(* reply.  The flush of expired corridors holds the interval back, so that *)
(* the two do not trip the cap together.                                   *)
(*                                                                         *)
(* One loop does all of it and is busy while a quote is being signed.      *)
(***************************************************************************)
EXTENDS Integers, FiniteSets, FiniteSetsExt

CONSTANTS
  Corridors,
  Curved,    \* those with a live curve
  Interval,  \* LEVELS_INTERVAL, and the venue's rolling window
  Coalesce,  \* LEVELS_REPUBLISH_COALESCE
  Budget,    \* LEVELS_RATE_BUDGET
  GapLimit,  \* after this the venue takes a silent corridor dark
  MaxUsed    \* bound: requests stop at so many frames in the window

ASSUME ConstantsTyped ==
  /\ IsFiniteSet(Corridors) /\ Curved \subseteq Corridors
  /\ Coalesce \in Nat \ {0} /\ Interval \in Nat /\ Coalesce < Interval
  /\ GapLimit \in Nat /\ GapLimit > 2 * Interval
  /\ Budget \in Nat /\ Cardinality(Corridors) =< Budget
  /\ MaxUsed \in Nat

VARIABLES
  online,   \* there is a session
  request,  \* the corridor of the request being answered, {} if there is none
  bright,   \* corridors whose levels can be published: feed and policy are usable
  sent,     \* RateWindow: sent[a]: the frames of age a or younger
  pending,  \* pending_republish
  trailing, \* time to trailing_at, Off if there is none
  flushed,  \* age of last_levels_flush, Interval if older or none
  tick,     \* time to the next tick of the interval
  quiet,    \* ghost: time since a reply, or since a feed turned in mid-flush
  calm,     \* ghost: time since a notice or a reply
  vain,     \* ghost: time since a flush found its corridors dark
  waiting,  \* ghost: how long a corridor has been pending and bright
  silent    \* ghost: how long a bright corridor has not been published

window == <<sent, pending, trailing, flushed, tick>>
ghosts == <<quiet, calm, vain, waiting, silent>>
vars   == <<online, request, bright, window, ghosts>>

Off  == -1
Ages == 0..Interval - 1

outbound_used == sent[Interval - 1]

Zero == [c \in Corridors |-> 0]

Idle == online /\ request = {} /\ trailing # 0

Sent(frames) == sent' = [a \in Ages |-> sent[a] + frames]

\* The corridors went out, or turned, and are neither waiting nor silent.
Reset(f, corridors) == [c \in Corridors |-> IF c \in corridors THEN 0 ELSE f[c]]
Went(corridors) == waiting' = Reset(waiting, corridors) /\ silent' = Reset(silent, corridors)

----------------------------------------------------------------------------
Fresh ==
  /\ request' = {} /\ sent' = [a \in Ages |-> 0] /\ pending' = {} /\ trailing' = Off
  /\ flushed' = Interval /\ tick' = 0
  /\ quiet' = Interval /\ calm' = 0 /\ vain' = 2 * Interval + 1
  /\ waiting' = Zero /\ silent' = Zero

Init ==
  /\ online = FALSE /\ request = {} /\ bright \in SUBSET Corridors
  /\ sent = [a \in Ages |-> 0] /\ pending = {} /\ trailing = Off
  /\ flushed = Interval /\ tick = 0
  /\ quiet = Interval /\ calm = 0 /\ vain = 2 * Interval + 1
  /\ waiting = Zero /\ silent = Zero

\* A new session; its first tick is immediate.
Connect ==
  /\ ~online
  /\ online' = TRUE
  /\ UNCHANGED <<request, bright, window, ghosts>>

\* The stream ends, a send fails, or the venue is silent for too long.
End ==
  /\ online
  /\ online' = FALSE
  /\ Fresh
  /\ UNCHANGED bright

\* A price turns usable, stale or suspect.
Turn(c) ==
  /\ bright' = IF c \in bright THEN bright \ {c} ELSE bright \cup {c}
  /\ Went({c})
  /\ UNCHANGED <<online, request, window, quiet, calm, vain>>

----------------------------------------------------------------------------
\* Mutant: a notice without a claim arms the flush too.
MutTrailingAfterExpired(slug) == Coalesce

trailing_after_quote_expired(slug) == IF slug = {} THEN trailing ELSE Coalesce

\* quoteExpired, for a claim that names a corridor or one that is gone.
QuoteExpired(slug) ==
  /\ Idle
  /\ pending' = pending \cup slug
  /\ trailing' = trailing_after_quote_expired(slug)
  /\ calm' = 0
  /\ UNCHANGED <<online, request, bright, sent, flushed, tick, quiet, vain, waiting, silent>>

QuoteRequest(c) ==
  /\ Idle
  /\ outbound_used + 2 =< MaxUsed
  /\ request' = {c}
  /\ UNCHANGED <<online, bright, window, ghosts>>

\* The reply, and the levels of a curve inside what the reply leaves of the budget.
Reply ==
  /\ request # {}
  /\ LET inline == IF outbound_used + 2 =< Budget THEN request \cap Curved \cap bright ELSE {}
     IN Sent(1 + Cardinality(inline)) /\ Went(inline)
  /\ request' = {}
  /\ quiet' = 0 /\ calm' = 0
  /\ UNCHANGED <<online, bright, pending, trailing, flushed, tick, vain>>

----------------------------------------------------------------------------
(* The trailing flush. *)

should_skip_trailing_for_rate_budget(frames) == outbound_used + frames > Budget

Younger(a) == IF a = 0 THEN 0 ELSE sent[a - 1]

\* Due when the oldest frames have left the window, so many that these fit.
next_trailing_after_budget(frames) ==
  Interval - Max({a \in Ages : Younger(a) + frames =< Budget})

FlushDark ==
  /\ pending \cap bright = {}
  /\ trailing' = Coalesce
  /\ vain' = 0
  /\ UNCHANGED <<bright, sent, pending, flushed, quiet, calm, waiting, silent>>

FlushDeferred ==
  LET ready == pending \cap bright
  IN /\ ready # {}
     /\ should_skip_trailing_for_rate_budget(Cardinality(ready))
     /\ trailing' = next_trailing_after_budget(Cardinality(ready))
     /\ UNCHANGED <<bright, sent, pending, flushed, ghosts>>

\* Mutant: the flush leaves the interval alone.
MutRecordedFlush(emitted) == flushed

recorded_levels_flush(emitted) == IF emitted = {} THEN flushed ELSE 0

\* The levels are read again for the send; a feed may have turned in between.
FlushSends ==
  LET ready == pending \cap bright
  IN /\ ready # {}
     /\ ~should_skip_trailing_for_rate_budget(Cardinality(ready))
     /\ bright' \in {bright} \cup {bright \cup {c} : c \in Corridors}
                             \cup {bright \ {c} : c \in Corridors}
     /\ LET emitted == pending \cap bright'
        IN /\ Sent(Cardinality(emitted))
           /\ Went(emitted \cup {c \in Corridors : (c \in bright) # (c \in bright')})
           /\ pending' = pending \ emitted
           /\ flushed' = recorded_levels_flush(emitted)
     /\ quiet' = IF bright' = bright THEN quiet ELSE 0
     /\ trailing' = Off
     /\ UNCHANGED <<calm, vain>>

flush_expired_levels ==
  /\ online /\ request = {} /\ trailing = 0
  /\ FlushDark \/ FlushDeferred \/ FlushSends
  /\ UNCHANGED <<online, request, tick>>

----------------------------------------------------------------------------
(* The interval. *)

should_emit_interval_levels == trailing = Off /\ flushed = Interval

\* Mutant: the interval keeps its phase.
MutNextTick == Interval

\* After a flush the interval starts over so as to end with the flush's second.
NextTick == IF flushed < Interval THEN Interval - flushed ELSE Interval

IntervalTick ==
  /\ Idle /\ tick = 0
  /\ \/ /\ ~should_emit_interval_levels
        /\ tick' = NextTick
        /\ UNCHANGED <<sent, pending, waiting, silent>>
     \/ /\ should_emit_interval_levels
        /\ tick' = Interval
        /\ Sent(Cardinality(bright)) /\ Went(bright)
        /\ pending' = pending \ bright
  /\ UNCHANGED <<online, request, bright, trailing, flushed, quiet, calm, vain>>

\* Time passes while the loop waits for what is not due, or for the signer.
Later(x) == IF x > 0 THEN x - 1 ELSE x
Older(x, limit) == IF x < limit THEN x + 1 ELSE x

Time ==
  /\ online
  /\ request = {} => trailing # 0 /\ tick # 0
  /\ sent' = [a \in Ages |-> Younger(a)]
  /\ trailing' = Later(trailing) /\ tick' = Later(tick)
  /\ flushed' = Older(flushed, Interval)
  /\ quiet' = Older(quiet, Interval)
  /\ calm' = IF request = {} THEN Older(calm, GapLimit + 1) ELSE 0
  /\ vain' = Older(vain, 2 * Interval + 1)
  /\ waiting' = [c \in Corridors |->
                   IF c \in pending \cap bright THEN Older(waiting[c], GapLimit + 1) ELSE 0]
  /\ silent' = [c \in Corridors |->
                  IF c \in bright THEN Older(silent[c], GapLimit + 1) ELSE 0]
  /\ UNCHANGED <<online, request, bright, pending>>

Next ==
  \/ Connect \/ End
  \/ \E c \in Corridors : Turn(c) \/ QuoteRequest(c)
  \/ \E slug \in {{}} \cup {{c} : c \in Corridors} : QuoteExpired(slug)
  \/ Reply \/ flush_expired_levels \/ IntervalTick \/ Time

Spec == Init /\ [][Next]_vars

----------------------------------------------------------------------------
Durations == [Corridors -> 0..GapLimit + 1]

\* The type invariant; the flush is armed only while a corridor waits for it
\* (a notice whose claim is gone arms nothing).
TypeOK ==
  /\ online \in BOOLEAN /\ bright \subseteq Corridors
  /\ request = {} \/ \E c \in Corridors : request = {c}
  /\ sent \in [Ages -> Nat]
  /\ pending \subseteq Corridors /\ trailing \in 0..Interval \cup {Off}
  /\ trailing # Off => pending # {}
  /\ flushed \in 0..Interval /\ tick \in 0..Interval
  /\ quiet \in 0..Interval /\ calm \in 0..GapLimit + 1 /\ vain \in 0..2 * Interval + 1
  /\ waiting \in Durations /\ silent \in Durations

\* Expiry flushes and interval ticks together never trip the venue's cap: that
\* takes a second with replies in it, which nothing holds back, or a feed
\* turned between the two readings of a flush.
InBudget == quiet = Interval => outbound_used =< Budget

\* A corridor whose quote expired, once its feed is usable and the venue is
\* quiet, is out again within the second the venue waits for it, however the
\* flush was deferred and whatever other corridor is dark.
Prompt == \A c \in Corridors : Min({waiting[c], calm}) =< Interval

\* The corridors that did not expire are held back by a flush for two
\* intervals at most, unless the flush only finds dark corridors.
Cadence ==
  \A c \in Corridors : Min({silent[c], calm, vain}) =< 2 * Interval

\* A corridor that can be published is not left to the venue's gap rule while
\* the venue itself is quiet.
NoGap == \A c \in Corridors : Min({silent[c], calm}) =< GapLimit
=============================================================================

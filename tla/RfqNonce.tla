------------------------------- MODULE RfqNonce ------------------------------
(***************************************************************************)
(* The Permit2 nonces of RFQ orders (src/src/rfq/nonce.rs, respond in      *)
(* rfq/mod.rs).  A nonce is the clock's millisecond times 1000 plus a      *)
(* counter; the counter lives in the Engine, which is built anew for every *)
(* session.  Permit2 spends a nonce once, so two orders with one nonce are *)
(* one order too many: a fill of either kills the other.                   *)
(***************************************************************************)
EXTENDS Integers

CONSTANTS
  PerMs,    \* nonces a millisecond has room for: 1000 in the code
  Reconnect,\* shortest time from a session's last quote to the next one's first
  MaxMs,    \* bound: the clock stops here
  MaxQuotes \* quotes one session mints; the code has no such limit

ASSUME ConstantsTyped ==
  PerMs \in Nat \ {0} /\ Reconnect \in Nat /\ MaxMs \in Nat /\ MaxQuotes \in Nat

VARIABLES
  ms,      \* the bot's clock
  counter, \* Engine.counter
  last,    \* the nonce minted last, -1 before any
  outran   \* ghost: a session minted more than a reconnect's milliseconds hold

vars == <<ms, counter, last, outran>>

\* Mutant: the counter stays inside the millisecond's room.
Mut_rfq_nonce(unixMs, count) == unixMs * PerMs + (count % PerMs)

\* The namespace bit 2^200, which keeps the ladder's nonces apart, is the same
\* in all of them and left out.
rfq_nonce(unixMs, count) == unixMs * PerMs + count

Init == ms = 0 /\ counter = 0 /\ last = -1 /\ outran = FALSE

Clock ==
  /\ ms < MaxMs
  /\ ms' = ms + 1
  /\ UNCHANGED <<counter, last, outran>>

\* respond takes the next nonce, whether or not the quote then goes out.
Mint ==
  /\ counter < MaxQuotes
  /\ last' = rfq_nonce(ms, counter)
  /\ counter' = counter + 1
  /\ outran' = (outran \/ counter' > Reconnect * PerMs)
  /\ UNCHANGED ms

\* session_loop_inner: a new session, in this process or the next one, after
\* Backoff::next_delay (250 ms at least) and a handshake.
NewSession ==
  /\ \E delay \in Reconnect..MaxMs : ms + delay =< MaxMs /\ ms' = ms + delay
  /\ counter' = 0
  /\ UNCHANGED <<last, outran>>

Next == Clock \/ Mint \/ NewSession

Spec == Init /\ [][Next]_vars

TypeOK == ms \in Nat /\ counter \in Nat /\ last \in Nat \cup {-1} /\ outran \in BOOLEAN

\* Within one session every nonce is larger than the one before, however many
\* quotes share a millisecond (nonce.rs: "quotes inside the same millisecond
\* stay distinct").
GrowsInSession == [][counter > 0 /\ counter' > counter => last' > last]_vars

\* Across sessions and restarts too (nonce.rs: "the millisecond seed makes a
\* restart's nonces strictly larger than anything minted before it"), until a
\* session has counted beyond what the wait that follows it makes up for.
\* nonce.rs does not say so, and calls the counter "process-lifetime".
GrowsAcrossSessions == [][counter' > counter /\ ~outran => last' > last]_vars

=============================================================================

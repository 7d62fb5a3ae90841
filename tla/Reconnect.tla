------------------------------- MODULE Reconnect ------------------------------
(***************************************************************************)
(* The sessions of one bot and how it comes back to the venue (run and     *)
(* Backoff in src/src/rfq/mod.rs).                                         *)
(*                                                                         *)
(* An attempt fails, or a session is accepted, serves and ends.  Either    *)
(* ending is noted and waited out: a moment after a handover, so that a    *)
(* deploy of the venue is bridged, else seconds that double from one       *)
(* ending to the next.  Only a session that lived clears the backoff, as a *)
(* duplicate identity is accepted each time and closed at once.            *)
(*                                                                         *)
(* The nonces of RfqNonce are minted meanwhile; Reconnect, its shortest    *)
(* time between two sessions, is here the wait after a handover.           *)
(***************************************************************************)
EXTENDS RfqNonce

CONSTANTS
  FirstWait,   \* a second
  MostWait,    \* thirty
  FastRetries, \* HANDOVER_FAST_RETRIES
  Healthy      \* HEALTHY_SESSION

ASSUME BackoffTyped ==
  /\ FirstWait \in Nat \ {0} /\ MostWait \in Nat /\ FastRetries \in Nat /\ Healthy \in Nat
  /\ Reconnect < FirstWait /\ FirstWait =< MostWait

VARIABLES
  up,      \* there is a session
  lived,   \* for how long
  backoff, \* Backoff: its seconds and its fast attempts
  quick,   \* ghost: quick waits since a long one or a session that lived
  slow     \* ghost: long waits since a session that lived

session == <<up, lived, backoff, quick, slow>>
allVars == <<vars, session>>

Default == [secs |-> FirstWait, fast |-> 0]

Least(a, b) == IF a < b THEN a ELSE b

is_healthy_session == up /\ lived >= Healthy

\* Mutant: the fast lane has no end.
MutNoted(b, handover) == [b EXCEPT !.fast = IF handover THEN 1 ELSE 0]

\* Backoff::note.
Noted(b, handover) == [b EXCEPT !.fast = IF handover THEN @ + 1 ELSE 0]

Quick(b) == b.fast > 0 /\ b.fast =< FastRetries

\* Mutant: a handover is not waited for at all.
MutNextDelay(b) == IF Quick(b) THEN 0 ELSE b.secs

\* Backoff::next_delay, and the backoff after it.
next_delay(b) == IF Quick(b) THEN Reconnect ELSE b.secs

Advanced(b) == IF Quick(b) THEN b ELSE [b EXCEPT !.secs = Least(2 * @, MostWait)]

----------------------------------------------------------------------------
Start ==
  /\ Init
  /\ up = FALSE /\ lived = 0 /\ backoff = Default
  /\ quick = 0 /\ slow = 0

\* Mutant: acceptance alone clears the backoff.
MutAccept ==
  /\ ~up
  /\ up' = TRUE /\ lived' = 0 /\ counter' = 0
  /\ backoff' = Default
  /\ UNCHANGED <<ms, last, outran, quick, slow>>

\* connect_and_auth succeeds: a new Engine, with its counter at zero.
Accept ==
  /\ ~up
  /\ up' = TRUE /\ lived' = 0 /\ counter' = 0
  /\ UNCHANGED <<ms, last, outran, backoff, quick, slow>>

\* A quote is signed.
Serve ==
  /\ up
  /\ Mint
  /\ UNCHANGED session

Live ==
  /\ up
  /\ Clock
  /\ lived' = Least(lived + 1, Healthy)
  /\ UNCHANGED <<up, backoff, quick, slow>>

\* A session or an attempt ends, the venue handing over or not, and is waited out.
Ends(handover) ==
  LET noted == Noted(IF is_healthy_session THEN Default ELSE backoff, handover)
      delay == next_delay(noted)
      Since(n) == IF is_healthy_session THEN 0 ELSE n
  IN /\ ms + delay =< MaxMs
     /\ ms' = ms + delay
     /\ backoff' = Advanced(noted)
     /\ quick' = IF delay < FirstWait THEN Since(quick) + 1 ELSE 0
     /\ slow' = IF delay < FirstWait THEN Since(slow) ELSE Since(slow) + 1
     /\ up' = FALSE /\ lived' = 0
     /\ UNCHANGED <<counter, last, outran>>

\* The process starts anew, which takes no less than a handover.
Restart ==
  /\ \E pause \in Reconnect..MaxMs : ms + pause =< MaxMs /\ ms' = ms + pause
  /\ up' = FALSE /\ lived' = 0 /\ backoff' = Default
  /\ quick' = 0 /\ slow' = 0
  /\ UNCHANGED <<counter, last, outran>>

Step ==
  \/ Accept \/ Serve \/ Live
  \/ \E handover \in BOOLEAN : Ends(handover)
  \/ Restart

Sessions == Start /\ [][Step]_allVars

----------------------------------------------------------------------------
\* The type invariant of what Reconnect adds.
SessionsTyped ==
  /\ up \in BOOLEAN /\ lived \in Nat
  /\ backoff \in [secs : Nat, fast : Nat]
  /\ quick \in Nat /\ slow \in Nat

\* A venue that hands every socket over is not spun on: without a session that
\* lived there are no more quick retries in a row than the fast lane allows.
NoSpin == quick =< FastRetries

Doubled[n \in Nat] == IF n = 0 THEN 1 ELSE 2 * Doubled[n - 1]

\* The seconds waited double with every long wait, whatever handovers and
\* accepted sessions come in between, until a session lives.
BacksOff == backoff.secs = Least(FirstWait * Doubled[slow], MostWait)

\* The nonces of all the sessions are those of RfqNonce, a session's counter
\* being gone with its end.
Nonces == INSTANCE RfqNonce WITH counter <- IF up THEN counter ELSE 0

ImplementsNonces == Nonces!Spec

=============================================================================

------------------------------- MODULE Escrow --------------------------------
(***************************************************************************)
(* What the RFQ ledger promises, with no ledger in it: a wallet that signs *)
(* orders against its funds.  Each order is an obligation until it is      *)
(* settled from the funds or lapses, and a new one is only taken on when   *)
(* the funds cover it on top of every obligation there is.  RfqLedger      *)
(* implements this, though it sees the funds late and never sees a lapse.  *)
(***************************************************************************)
EXTENDS Integers, FiniteSets, FiniteSetsExt

CONSTANTS
  Ids,     \* identities of obligations
  Tokens,  \* what they are paid in
  Funds,   \* Funds[t]: the funds at the start
  Nothing  \* no obligation

VARIABLES
  owes,    \* owes[n]: the obligation n while it is outstanding
  balance  \* balance[t]: what is left

evars == <<owes, balance>>

Owed(t) ==
  SumFunctionOnSet([n \in Ids |-> owes[n].input],
                   {n \in Ids : owes[n] # Nothing /\ owes[n].token = t})

Init ==
  /\ owes = [n \in Ids |-> Nothing]
  /\ balance = Funds

\* An order leaves the process.
Promise(n) ==
  \E t \in Tokens : \E q \in 1..balance[t] :
    /\ owes[n] = Nothing
    /\ Owed(t) + q =< balance[t]
    /\ owes' = [owes EXCEPT ![n] = [token |-> t, input |-> q]]
    /\ UNCHANGED balance

\* A taker fills it.
Settle(n) ==
  /\ owes[n] # Nothing
  /\ owes' = [owes EXCEPT ![n] = Nothing]
  /\ balance' = [balance EXCEPT ![owes[n].token] = @ - owes[n].input]

\* Deadlines pass, or the venue discards a round.
Lapse ==
  /\ \E gone \in SUBSET Ids :
       owes' = [n \in Ids |-> IF n \in gone THEN Nothing ELSE owes[n]]
  /\ UNCHANGED balance

Next == (\E n \in Ids : Promise(n) \/ Settle(n)) \/ Lapse

Spec == Init /\ [][Next]_evars

=============================================================================
